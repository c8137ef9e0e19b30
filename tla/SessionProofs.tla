---------------------------- MODULE SessionProofs ----------------------------
(* The safety of the session package for any number of threads, clients, ids  *)
(* and keys, and any intervals: a client never gets another one's session or  *)
(* data, is_new_session speaks of the present request, and with a handle      *)
(* whose `update` works a session that is in use is extended.                 *)
EXTENDS Session, TLAPS

Fetching == {"idFetch", "idDelete", "refreshSelect", "refreshWrite"}

(* What the place of a thread says of its variables: an id the request has    *)
(* in hand was made for its client.                                          *)
ThreadInv(t) ==
    /\ pc[t] = "idle" => who[t] = None /\ cookie[t] = None /\ reply[t] = None
    /\ pc[t] # "idle" => who[t] \in Clients
    /\ pc[t] \in {"idle", "run"} \cup Fetching => idv[t] = None
    /\ pc[t] \in Fetching => cookie[t] # None /\ sid[t] = None
    /\ pc[t] = "storeWrite" => key[t] # None
    /\ reply[t] # None => sid[t] # None
    /\ \A i \in {cookie[t], reply[t], idv[t]} : i # None => owner[i] = who[t]
    /\ pc[t] # "idle" /\ sid[t] # None =>
          owner[sid[t]] = who[t] /\ (isNewSession[t] <=> reply[t] = sid[t])

ThreadsInv == \A t \in Threads : ThreadInv(t)

(* A client holds its own cookies only.                                      *)
JarInv == \A c \in Clients : jar[c] # None => owner[jar[c]] = c

(* A row of a session has its owner's address, and a row of data belongs to   *)
(* a session that exists.                                                    *)
TabInv ==
    /\ \A i \in DOMAIN sess : sess[i].ip = owner[i]
    /\ \A x \in DOMAIN cache : x[1] \in DOMAIN sess /\ cache[x] = owner[x[1]]

(* A thread that is about to extend session i, and will succeed.             *)
Extending(t, i) ==
    cookie[t] = i /\ (pc[t] = "refreshSelect" \/ (pc[t] = "refreshWrite" /\ found[t]))

Extended ==
    Tdbc => \A i \in DOMAIN sess :
                \/ sess[i].age <= lastUse[i] + sessionRefreshInterval
                \/ \E t \in Threads : Extending(t, i)

IInv == TypeOK /\ ThreadsInv /\ JarInv /\ TabInv /\ Extended
-----------------------------------------------------------------------------
(* Steps, by what they leave alone.                                          *)

TabType ==
    /\ DOMAIN sess \subseteq Ids /\ \A i \in DOMAIN sess : sess[i] \in [ip : Clients, age : Age]
    /\ DOMAIN cache \subseteq Ids \X Keys /\ \A x \in DOMAIN cache : cache[x] \in Clients

LocType ==
    /\ pc \in [Threads -> Places] /\ op \in [Threads -> Methods \cup {None}]
    /\ idv \in [Threads -> Ids \cup {None}]
    /\ key \in [Threads -> Keys \cup {None}] /\ found \in [Threads -> BOOLEAN]

(* Rows may go, none comes or changes, and no data outlive their session.    *)
OnlyDeletes ==
    /\ DOMAIN sess' \subseteq DOMAIN sess /\ DOMAIN cache' \subseteq DOMAIN cache
    /\ \A i \in DOMAIN sess' : sess'[i] = sess[i]
    /\ \A x \in DOMAIN cache' : cache'[x] = cache[x] /\ x[1] \in DOMAIN sess'

(* The locals of the threads but t.                                          *)
LocOthers(t) ==
    \A s \in Threads \ {t} :
        pc'[s] = pc[s] /\ idv'[s] = idv[s] /\ key'[s] = key[s] /\ found'[s] = found[s]

(* The variables of the request and the object of the threads but t.         *)
ReqOthers(t) ==
    \A s \in Threads \ {t} :
        /\ who'[s] = who[s] /\ cookie'[s] = cookie[s] /\ reply'[s] = reply[s]
        /\ sid'[s] = sid[s] /\ isNewSession'[s] = isNewSession[s]

LEMMA Ages == /\ Age \subseteq Int /\ 0 \in Age
              /\ \A a \in Age : a >= 0 /\ Older(a) \in Age
BY SessionAssumption DEF Age, MaxAge, Older

(* The tables after a step that only deletes.                                *)
LEMMA DeletesKeep ==
    ASSUME IInv, OnlyDeletes, owner' = owner
    PROVE  TabType' /\ TabInv'
<1>1. TabType'
  BY DEF IInv, TypeOK, TabType, OnlyDeletes
<1>2. TabInv'
  BY DEF IInv, TabInv, OnlyDeletes
<1> QED BY <1>1, <1>2

LEMMA DeleteFacts ==
    ASSUME IInv, NEW is, DeleteSessions(is)
    PROVE  OnlyDeletes
<1>1. sess' = Without(sess, is) /\ DOMAIN sess' = DOMAIN sess \ is
  BY DEF DeleteSessions, Without
<1>2. \A i \in DOMAIN sess' : sess'[i] = sess[i]
  BY <1>1 DEF Without
<1>3. DOMAIN cache' = {x \in DOMAIN cache : x[1] \notin is}
  BY DEF DeleteSessions, Without
<1>4. \A x \in DOMAIN cache' : cache'[x] = cache[x]
  BY <1>3 DEF DeleteSessions, Without
<1>5. \A x \in DOMAIN cache' : x[1] \in DOMAIN sess'
  BY <1>1, <1>3 DEF IInv, TabInv
<1> QED BY <1>1, <1>2, <1>3, <1>4, <1>5 DEF OnlyDeletes

LEMMA UnchangedDeletes ==
    ASSUME IInv, UNCHANGED tabVars
    PROVE  OnlyDeletes
BY DEF IInv, TabInv, OnlyDeletes, tabVars

(* A session stays extended while its row is not made older and the threads   *)
(* that extend one go on.                                                    *)
LEMMA StaysExtended ==
    ASSUME IInv, OnlyDeletes, lastUse' = lastUse,
           \A s \in Threads : pc[s] \in {"refreshSelect", "refreshWrite"} =>
               pc'[s] = pc[s] /\ cookie'[s] = cookie[s] /\ found'[s] = found[s]
    PROVE  Extended'
<1> SUFFICES ASSUME Tdbc, NEW i \in DOMAIN sess'
             PROVE  \/ sess'[i].age <= lastUse'[i] + sessionRefreshInterval
                    \/ \E t \in Threads : Extending(t, i)'
  BY DEF Extended
<1>1. i \in DOMAIN sess /\ sess'[i] = sess[i]
  BY DEF OnlyDeletes
<1>2. CASE sess[i].age <= lastUse[i] + sessionRefreshInterval
  BY <1>1, <1>2
<1>3. CASE \E t \in Threads : Extending(t, i)
  BY <1>3 DEF Extending
<1> QED BY <1>1, <1>2, <1>3 DEF IInv, Extended

(* A step of thread t moves no other thread, as long as nobody's ids change  *)
(* their owner.                                                              *)
LEMMA ThreadStep ==
    ASSUME ThreadsInv, NEW t \in Threads, LocOthers(t), ReqOthers(t), ThreadInv(t)',
           \A s \in Threads \ {t} : \A i \in {cookie[s], reply[s], idv[s], sid[s]} :
               i # None => owner'[i] = owner[i]
    PROVE  ThreadsInv'
<1> SUFFICES ASSUME NEW s \in Threads \ {t} PROVE ThreadInv(s)'
  BY DEF ThreadsInv
<1>1. ThreadInv(s)
  BY DEF ThreadsInv
<1>2. /\ pc'[s] = pc[s] /\ idv'[s] = idv[s] /\ key'[s] = key[s] /\ found'[s] = found[s]
      /\ who'[s] = who[s] /\ cookie'[s] = cookie[s] /\ reply'[s] = reply[s]
      /\ sid'[s] = sid[s] /\ isNewSession'[s] = isNewSession[s]
  BY DEF LocOthers, ReqOthers
<1>3. \A i \in {cookie[s], reply[s], idv[s], sid[s]} : i # None => owner'[i] = owner[i]
  OBVIOUS
<1> QED BY <1>1, <1>2, <1>3 DEF ThreadInv

(* How a method ends, and how id does.                                       *)
LEMMA ReturnFacts ==
    ASSUME IInv, NEW t \in Threads, Return(t)
    PROVE  /\ LocType' /\ LocOthers(t)
           /\ pc'[t] = "run" /\ idv'[t] = None
BY DEF IInv, TypeOK, Return, LocType, LocOthers, Places

LEMMA IdReturnsFacts ==
    ASSUME IInv, NEW t \in Threads, NEW m \in Methods \cup {None}, NEW v \in Ids \cup {None},
           IdReturns(t, m, v)
    PROVE  /\ LocType' /\ LocOthers(t)
           /\ pc'[t] \in {"run", "body"} /\ idv'[t] \in {None, v}
           /\ pc'[t] = "run" => idv'[t] = None
<1>1. CASE Return(t)
  BY <1>1, ReturnFacts
<1>2. CASE ~Return(t)
  <2>1. /\ pc' = [pc EXCEPT ![t] = "body"] /\ op' = [op EXCEPT ![t] = m]
        /\ idv' = [idv EXCEPT ![t] = v] /\ found' = [found EXCEPT ![t] = FALSE]
        /\ key' = key
    BY <1>2 DEF IdReturns
  <2>2. LocType
    BY DEF IInv, TypeOK, LocType
  <2>3. LocType'
    BY <2>1, <2>2 DEF LocType, Places
  <2>4. LocOthers(t) /\ pc'[t] = "body" /\ idv'[t] = v
    BY <2>1, <2>2 DEF LocType, LocOthers
  <2> QED BY <2>3, <2>4
<1> QED BY <1>1, <1>2

-----------------------------------------------------------------------------
LEMMA InitHolds == Init => IInv
<1> SUFFICES ASSUME Init PROVE IInv
  OBVIOUS
<1>1. TypeOK
  BY Ages DEF Init, TypeOK, Places
<1>2. ThreadsInv
  BY DEF Init, ThreadsInv, ThreadInv, Fetching
<1>3. JarInv /\ TabInv /\ Extended
  BY DEF Init, JarInv, TabInv, Extended
<1> QED BY <1>1, <1>2, <1>3 DEF IInv

LEMMA TickKeeps == ASSUME IInv, Tick PROVE IInv'
<1> USE DEF Tick, reqVars, objVars, locVars
<1>1. TabType'
  <2>1. DOMAIN sess' = DOMAIN sess /\ cache' = cache
    OBVIOUS
  <2>2. \A i \in DOMAIN sess' : sess'[i] \in [ip : Clients, age : Age]
    BY Ages, <2>1 DEF IInv, TypeOK
  <2> QED BY <2>1, <2>2 DEF IInv, TypeOK, TabType
<1>2. lastUse' \in [Ids -> Age]
  BY Ages DEF IInv, TypeOK
<1>3. TypeOK'
  BY <1>1, <1>2 DEF IInv, TypeOK, TabType
<1>4. ThreadsInv' /\ JarInv'
  BY DEF IInv, ThreadsInv, ThreadInv, JarInv
<1>5. TabInv'
  BY DEF IInv, TypeOK, TabInv
<1>6. Extended'
  <2> SUFFICES ASSUME Tdbc, NEW i \in DOMAIN sess
               PROVE  \/ sess'[i].age <= lastUse'[i] + sessionRefreshInterval
                      \/ \E t \in Threads : Extending(t, i)'
    BY DEF Extended
  <2>1. /\ sess[i].age \in Age /\ lastUse[i] \in Age /\ i \in Ids
        /\ sess'[i].age = Older(sess[i].age) /\ lastUse'[i] = Older(lastUse[i])
    BY DEF IInv, TypeOK
  <2>2. CASE sess[i].age <= lastUse[i] + sessionRefreshInterval
    BY <2>1, <2>2, SessionAssumption DEF Older, Age, MaxAge
  <2>3. CASE \E t \in Threads : Extending(t, i)
    BY <2>3 DEF Extending
  <2> QED BY <2>2, <2>3 DEF IInv, Extended
<1> QED BY <1>3, <1>4, <1>5, <1>6 DEF IInv

LEMMA CollectKeeps == ASSUME IInv, Collect PROVE IInv'
<1> USE DEF Collect, reqVars, objVars, locVars, hisVars
<1>1. OnlyDeletes
  BY DeleteFacts
<1>2. TabType' /\ TabInv'
  BY <1>1, DeletesKeep
<1>3. TypeOK'
  BY <1>2 DEF IInv, TypeOK, TabType
<1>4. ThreadsInv' /\ JarInv'
  BY DEF IInv, ThreadsInv, ThreadInv, JarInv
<1>5. Extended'
  BY <1>1, StaysExtended
<1> QED BY <1>2, <1>3, <1>4, <1>5 DEF IInv

LEMMA CloseBrowserKeeps ==
    ASSUME IInv, NEW c \in Clients, CloseBrowser(c) PROVE IInv'
<1> USE DEF CloseBrowser, tabVars, reqVars, objVars, locVars, hisVars
<1>1. TypeOK'
  BY DEF IInv, TypeOK
<1>2. ThreadsInv' /\ TabInv'
  BY DEF IInv, ThreadsInv, ThreadInv, TabInv
<1>3. JarInv'
  BY DEF IInv, TypeOK, JarInv
<1>4. Extended'
  BY UnchangedDeletes, StaysExtended
<1> QED BY <1>1, <1>2, <1>3, <1>4 DEF IInv

LEMMA BeginRequestKeeps ==
    ASSUME IInv, NEW t \in Threads, NEW c \in Clients, BeginRequest(t, c) PROVE IInv'
<1> USE DEF BeginRequest, tabVars, hisVars
<1>1. TypeOK'
  BY DEF IInv, TypeOK, Places
<1>2. ThreadInv(t)'
  <2>1. /\ pc'[t] = "run" /\ who'[t] = c /\ cookie'[t] = jar[c] /\ sid'[t] = None
        /\ reply'[t] = reply[t] /\ idv'[t] = idv[t]
    BY DEF IInv, TypeOK
  <2>2. reply[t] = None /\ idv[t] = None
    BY DEF IInv, ThreadsInv, ThreadInv
  <2>3. jar[c] # None => owner[jar[c]] = c
    BY DEF IInv, JarInv
  <2> QED BY <2>1, <2>2, <2>3 DEF ThreadInv, Fetching
<1>3. ThreadsInv'
  <2>1. LocOthers(t) /\ ReqOthers(t)
    BY DEF IInv, TypeOK, LocOthers, ReqOthers
  <2> QED BY <1>2, <2>1, ThreadStep DEF IInv
<1>4. JarInv' /\ TabInv'
  BY DEF IInv, JarInv, TabInv
<1>5. Extended'
  BY UnchangedDeletes, StaysExtended DEF IInv, TypeOK
<1> QED BY <1>1, <1>3, <1>4, <1>5 DEF IInv

LEMMA EndRequestKeeps ==
    ASSUME IInv, NEW t \in Threads, EndRequest(t) PROVE IInv'
<1> USE DEF EndRequest, tabVars, objVars, hisVars
<1>1. TypeOK'
  BY DEF IInv, TypeOK, Places
<1>2. ThreadInv(t)'
  <2>1. /\ pc'[t] = "idle" /\ who'[t] = None /\ cookie'[t] = None /\ reply'[t] = None
        /\ idv'[t] = idv[t]
    BY DEF IInv, TypeOK
  <2>2. idv[t] = None
    BY DEF IInv, ThreadsInv, ThreadInv
  <2> QED BY <2>1, <2>2 DEF ThreadInv, Fetching
<1>3. ThreadsInv'
  <2>1. LocOthers(t) /\ ReqOthers(t)
    BY DEF IInv, TypeOK, LocOthers, ReqOthers
  <2> QED BY <1>2, <2>1, ThreadStep DEF IInv
<1>4. JarInv'
  <2>1. reply[t] # None => owner[reply[t]] = who[t]
    BY DEF IInv, ThreadsInv, ThreadInv
  <2> QED BY <2>1 DEF IInv, TypeOK, JarInv
<1>5. TabInv'
  BY DEF IInv, TabInv
<1>6. Extended'
  BY UnchangedDeletes, StaysExtended DEF IInv, TypeOK
<1> QED BY <1>1, <1>3, <1>4, <1>5, <1>6 DEF IInv

LEMMA CallKeeps ==
    ASSUME IInv, NEW t \in Threads, NEW m \in Methods, NEW collect \in BOOLEAN,
           Call(t, m, collect)
    PROVE  IInv'
<1> USE DEF Call, reqVars, objVars, hisVars
<1>1. OnlyDeletes
  BY DeleteFacts, UnchangedDeletes
<1>2. TabType' /\ TabInv'
  BY <1>1, DeletesKeep
<1>3. /\ LocType' /\ LocOthers(t)
      /\ \/ /\ pc'[t] \in {"run", "body"} /\ idv'[t] \in {None, sid[t]}
            /\ pc'[t] = "run" => idv'[t] = None
         \/ pc'[t] = "idFetch" /\ idv'[t] = idv[t] /\ sid[t] = None /\ cookie[t] # None
  <2>0. sid[t] \in Ids \cup {None} /\ m \in Methods \cup {None}
    BY DEF IInv, TypeOK
  <2>1. CASE sid[t] # None
    <3>1. IdReturns(t, m, sid[t])
      BY <2>1
    <3> QED BY <2>0, <3>1, IdReturnsFacts
  <2>2. CASE sid[t] = None /\ cookie[t] = None
    <3>1. IdReturns(t, m, None)
      BY <2>2
    <3> QED BY <2>0, <3>1, IdReturnsFacts
  <2>3. CASE sid[t] = None /\ cookie[t] # None
    BY <2>3 DEF IInv, TypeOK, LocType, LocOthers, Places
  <2> QED BY <2>1, <2>2, <2>3
<1>4. TypeOK'
  BY <1>2, <1>3 DEF IInv, TypeOK, TabType, LocType
<1>5. ThreadInv(t)'
  BY <1>3 DEF IInv, ThreadsInv, ThreadInv, Fetching
<1>6. ThreadsInv'
  <2>1. ReqOthers(t)
    BY DEF ReqOthers
  <2> QED BY <1>3, <1>5, <2>1, ThreadStep DEF IInv
<1>7. JarInv'
  BY DEF IInv, JarInv
<1>8. Extended'
  BY <1>1, <1>3, StaysExtended DEF LocOthers
<1> QED BY <1>2, <1>4, <1>6, <1>7, <1>8 DEF IInv

LEMMA IdFetchKeeps == ASSUME IInv, NEW t \in Threads, IdFetch(t) PROVE IInv'
<1> USE DEF IdFetch, tabVars, reqVars
<1> DEFINE i == cookie[t]
<1>1. /\ i \in Ids /\ sid[t] = None /\ reply[t] = None /\ idv[t] = None
      /\ who[t] \in Clients /\ owner[i] = who[t]
  BY DEF IInv, TypeOK, ThreadsInv, ThreadInv, Fetching
<1>2. op[t] \in Methods \cup {None}
  BY DEF IInv, TypeOK
<1>3. CASE ~HasRow(i, who[t])
  <2>1. IdReturns(t, op[t], None) /\ UNCHANGED <<objVars, lastUse>>
    BY <1>3
  <2> HIDE DEF i
  <2>2. /\ LocType' /\ LocOthers(t) /\ pc'[t] \in {"run", "body"} /\ idv'[t] = None
    BY <1>2, <2>1, IdReturnsFacts
  <2>3. TypeOK'
    BY <2>1, <2>2 DEF IInv, TypeOK, LocType, objVars
  <2>4. ThreadInv(t)'
    BY <2>1, <2>2 DEF IInv, ThreadsInv, ThreadInv, Fetching, objVars
  <2>5. ThreadsInv'
    BY <2>1, <2>2, <2>4, ThreadStep DEF IInv, ReqOthers, objVars
  <2>6. JarInv' /\ TabInv'
    BY DEF IInv, JarInv, TabInv
  <2>7. Extended'
    BY <2>1, <2>2, UnchangedDeletes, StaysExtended DEF LocOthers
  <2> QED BY <2>3, <2>5, <2>6, <2>7 DEF IInv
<1>4. CASE HasRow(i, who[t]) /\ sess[i].age > sessionLifetime
  <2>1. /\ pc' = [pc EXCEPT ![t] = "idDelete"]
        /\ UNCHANGED <<objVars, op, idv, key, found, lastUse>>
    BY <1>1, <1>4, SessionAssumption DEF IInv, TypeOK, HasRow, Age, MaxAge
  <2>2. TypeOK'
    BY <2>1 DEF IInv, TypeOK, Places, objVars
  <2>3. ThreadInv(t)'
    BY <1>1, <2>1 DEF IInv, TypeOK, ThreadsInv, ThreadInv, Fetching, objVars
  <2>4. LocOthers(t) /\ ReqOthers(t)
    BY <2>1 DEF IInv, TypeOK, LocOthers, ReqOthers, objVars
  <2>5. ThreadsInv'
    BY <2>3, <2>4, ThreadStep DEF IInv
  <2>6. JarInv' /\ TabInv'
    BY DEF IInv, JarInv, TabInv
  <2>7. Extended'
    BY <2>1, UnchangedDeletes, StaysExtended DEF IInv, TypeOK
  <2> QED BY <2>2, <2>5, <2>6, <2>7 DEF IInv
<1>5. CASE HasRow(i, who[t]) /\ sess[i].age <= sessionLifetime
  <2>1. /\ lastUse' = [lastUse EXCEPT ![i] = 0]
        /\ \/ /\ sess[i].age > sessionRefreshInterval
              /\ pc' = [pc EXCEPT ![t] = "refreshSelect"]
              /\ UNCHANGED <<objVars, op, idv, key, found>>
           \/ sess[i].age <= sessionRefreshInterval /\ Validate(t)
    BY <1>1, <1>5, SessionAssumption DEF IInv, TypeOK, HasRow, Age, MaxAge
  <2>2. TypeOK' /\ ThreadsInv' /\ pc'[t] \in {"refreshSelect", "run", "body"} /\ LocOthers(t)
    <3>1. CASE Validate(t)
      <4>1. IdReturns(t, op[t], i)
        BY <3>1 DEF Validate
      <4>2. /\ LocType' /\ LocOthers(t) /\ pc'[t] \in {"run", "body"} /\ idv'[t] \in {None, i}
            /\ pc'[t] = "run" => idv'[t] = None
        <5> HIDE DEF i
        <5> QED BY <1>1, <1>2, <4>1, IdReturnsFacts
      <4>3. /\ sid'[t] = i /\ isNewSession'[t] = FALSE /\ ReqOthers(t)
            /\ sid' \in [Threads -> Ids \cup {None}] /\ isNewSession' \in [Threads -> BOOLEAN]
        BY <1>1, <3>1 DEF IInv, TypeOK, Validate, ReqOthers
      <4>4. TypeOK'
        BY <1>1, <2>1, <4>2, <4>3, Ages DEF IInv, TypeOK, LocType
      <4>5. ThreadInv(t)'
        BY <1>1, <4>2, <4>3, SessionAssumption DEF ThreadInv, Fetching
      <4>6. ThreadsInv'
        BY <4>2, <4>3, <4>5, ThreadStep DEF IInv
      <4> QED BY <4>2, <4>4, <4>6
    <3>2. CASE /\ pc' = [pc EXCEPT ![t] = "refreshSelect"]
               /\ UNCHANGED <<objVars, op, idv, key, found>>
      <4>1. TypeOK' /\ LocOthers(t) /\ ReqOthers(t)
        BY <1>1, <2>1, <3>2, Ages DEF IInv, TypeOK, Places, LocOthers, ReqOthers, objVars
      <4>2. ThreadInv(t)'
        BY <1>1, <3>2 DEF IInv, TypeOK, ThreadsInv, ThreadInv, Fetching, objVars
      <4> QED BY <3>2, <4>1, <4>2, ThreadStep DEF IInv, TypeOK
    <3> QED BY <2>1, <3>1, <3>2
  <2>3. JarInv' /\ TabInv'
    BY DEF IInv, JarInv, TabInv
  <2>4. Extended'
    <3> SUFFICES ASSUME Tdbc, NEW j \in DOMAIN sess
                 PROVE  \/ sess[j].age <= lastUse'[j] + sessionRefreshInterval
                        \/ \E s \in Threads : Extending(s, j)'
      BY DEF Extended
    <3>1. j \in Ids
      BY DEF IInv, TypeOK
    <3>2. CASE j = i
      <4>1. lastUse'[j] = 0
        BY <1>1, <2>1, <3>2 DEF IInv, TypeOK
      <4>2. CASE sess[i].age <= sessionRefreshInterval
        BY <3>2, <4>1, <4>2, SessionAssumption
      <4>3. CASE pc' = [pc EXCEPT ![t] = "refreshSelect"]
        <5>1. pc'[t] = "refreshSelect" /\ cookie'[t] = j
          BY <3>2, <4>3 DEF IInv, TypeOK
        <5> QED BY <5>1 DEF Extending
      <4> QED BY <2>1, <4>2, <4>3
    <3>3. CASE j # i
      <4>1. lastUse'[j] = lastUse[j]
        BY <2>1, <3>1, <3>3 DEF IInv, TypeOK
      <4>2. ASSUME NEW s \in Threads, Extending(s, j) PROVE Extending(s, j)'
        BY <2>2, <3>3, <4>2 DEF Extending, LocOthers
      <4> QED BY <4>1, <4>2 DEF IInv, Extended
    <3> QED BY <3>2, <3>3
  <2> QED BY <2>2, <2>3, <2>4 DEF IInv
<1> QED BY <1>3, <1>4, <1>5

LEMMA IdDeleteKeeps == ASSUME IInv, NEW t \in Threads, IdDelete(t) PROVE IInv'
<1> USE DEF IdDelete, reqVars, objVars, hisVars
<1>1. OnlyDeletes
  BY DeleteFacts
<1>2. TabType' /\ TabInv'
  BY <1>1, DeletesKeep
<1>3. LocType' /\ LocOthers(t) /\ pc'[t] \in {"run", "body"} /\ idv'[t] = None
  <2>1. op[t] \in Methods \cup {None} /\ IdReturns(t, op[t], None)
    BY DEF IInv, TypeOK
  <2> QED BY <2>1, IdReturnsFacts
<1>4. TypeOK'
  BY <1>2, <1>3 DEF IInv, TypeOK, TabType, LocType
<1>5. ThreadInv(t)'
  BY <1>3 DEF IInv, ThreadsInv, ThreadInv, Fetching
<1>6. ThreadsInv'
  BY <1>3, <1>5, ThreadStep DEF IInv, ReqOthers
<1>7. JarInv'
  BY DEF IInv, JarInv
<1>8. Extended'
  BY <1>1, <1>3, StaysExtended DEF LocOthers
<1> QED BY <1>2, <1>4, <1>6, <1>7, <1>8 DEF IInv

LEMMA RefreshSelectKeeps == ASSUME IInv, NEW t \in Threads, RefreshSelect(t) PROVE IInv'
<1> USE DEF RefreshSelect, tabVars, reqVars, objVars, hisVars
<1>1. TypeOK'
  BY DEF IInv, TypeOK, Places, HasRow
<1>2. /\ pc'[t] = "refreshWrite" /\ found'[t] = HasRow(cookie[t], who[t])
      /\ LocOthers(t) /\ ReqOthers(t)
  BY DEF IInv, TypeOK, LocOthers, ReqOthers
<1>3. ThreadInv(t)'
  BY <1>2 DEF IInv, ThreadsInv, ThreadInv, Fetching
<1>4. ThreadsInv'
  BY <1>2, <1>3, ThreadStep DEF IInv
<1>5. JarInv' /\ TabInv'
  BY DEF IInv, JarInv, TabInv
<1>6. Extended'
  <2> SUFFICES ASSUME Tdbc, NEW i \in DOMAIN sess
               PROVE  \/ sess[i].age <= lastUse[i] + sessionRefreshInterval
                      \/ \E s \in Threads : Extending(s, i)'
    BY DEF Extended
  <2>1. ASSUME NEW s \in Threads, Extending(s, i) PROVE Extending(s, i)'
    <3>1. CASE s # t
      BY <1>2, <2>1, <3>1 DEF Extending, LocOthers, ReqOthers
    <3>2. CASE s = t
      <4>1. cookie[t] = i /\ i # None
        BY <2>1, <3>2, SessionAssumption DEF IInv, TypeOK, Extending
      <4>2. sess[i].ip = who[t]
        BY <4>1 DEF IInv, ThreadsInv, ThreadInv, TabInv
      <4> QED BY <1>2, <3>2, <4>1, <4>2 DEF Extending, HasRow
    <3> QED BY <3>1, <3>2
  <2> QED BY <2>1 DEF IInv, Extended
<1> QED BY <1>1, <1>4, <1>5, <1>6 DEF IInv

(* What the second half of a store does with the row of i: with a working     *)
(* update it ends as r, unless the select and the table disagree.            *)
LEMMA StoreFacts ==
    ASSUME NEW tab, NEW k, NEW r, NEW f \in BOOLEAN, NEW w, w = StoreWrite(f, tab, k, r).tab
    PROVE  /\ DOMAIN w \subseteq DOMAIN tab \cup {k}
           /\ f => DOMAIN w = DOMAIN tab
           /\ \A j \in DOMAIN w : w[j] = r \/ (j \in DOMAIN tab /\ w[j] = tab[j])
           /\ \A j \in DOMAIN w : j # k => w[j] = tab[j]
           /\ \A j \in DOMAIN w : j = k /\ f /\ Tdbc => w[j] = r
<1>1. CASE f /\ Tdbc
  <2>1. w = [j \in DOMAIN tab |-> IF j = k THEN r ELSE tab[j]]
    BY <1>1 DEF StoreWrite, Update, Answer
  <2> QED BY <1>1, <2>1
<1>2. CASE f /\ ~Tdbc
  BY <1>2 DEF StoreWrite, Update, Answer
<1>3. CASE ~f /\ k \in DOMAIN tab
  BY <1>3 DEF StoreWrite, Insert, Found, Answer
<1>4. CASE ~f /\ k \notin DOMAIN tab
  <2>1. w = [j \in DOMAIN tab \cup {k} |-> IF j = k THEN r ELSE tab[j]]
    BY <1>4 DEF StoreWrite, Insert, Found, Answer
  <2> QED BY <1>4, <2>1
<1> QED BY <1>1, <1>2, <1>3, <1>4

LEMMA RefreshWriteKeeps == ASSUME IInv, NEW t \in Threads, RefreshWrite(t) PROVE IInv'
<1> USE DEF RefreshWrite, reqVars, hisVars
<1> DEFINE i == cookie[t]
           r == [ip |-> who[t], age |-> 0]
           w == StoreWrite(found[t], sess, i, r)
<1>1. /\ i \in Ids /\ i # None /\ sid[t] = None /\ reply[t] = None /\ idv[t] = None
      /\ who[t] \in Clients /\ owner[i] = who[t]
  BY SessionAssumption DEF IInv, TypeOK, ThreadsInv, ThreadInv, Fetching
<1>2. op[t] \in Methods \cup {None} /\ found[t] \in BOOLEAN
  BY DEF IInv, TypeOK
<1>3. /\ sess' = w.tab /\ UNCHANGED <<cache, jar, who, cookie, reply, owner, lastUse>>
      /\ Validate(t) \/ (Return(t) /\ UNCHANGED objVars)
  OBVIOUS
<1>4. /\ DOMAIN sess' \subseteq DOMAIN sess \cup {i}
      /\ found[t] => DOMAIN sess' = DOMAIN sess
      /\ \A j \in DOMAIN sess' : sess'[j] = r \/ (j \in DOMAIN sess /\ sess'[j] = sess[j])
      /\ \A j \in DOMAIN sess' : j # i => sess'[j] = sess[j]
      /\ \A j \in DOMAIN sess' : j = i /\ found[t] /\ Tdbc => sess'[j] = r
  <2>1. sess' = StoreWrite(found[t], sess, i, r).tab
    BY <1>3
  <2> HIDE DEF i, r, w
  <2> QED BY <1>2, <2>1, StoreFacts
<1>5. DOMAIN sess \subseteq DOMAIN sess'
  BY <1>3 DEF StoreWrite, Update, Insert, Answer
<1> HIDE DEF w, RefreshWrite
<1>6. LocType' /\ LocOthers(t) /\ ReqOthers(t) /\ pc'[t] \in {"run", "body"}
  <2>1. CASE Validate(t)
    <3>1. IdReturns(t, op[t], i)
      BY <2>1 DEF Validate
    <3>2. LocType' /\ LocOthers(t) /\ pc'[t] \in {"run", "body"}
      <4> HIDE DEF i
      <4> QED BY <1>1, <1>2, <3>1, IdReturnsFacts
    <3>3. ReqOthers(t)
      BY <1>3, <2>1 DEF IInv, TypeOK, Validate, ReqOthers
    <3> QED BY <3>2, <3>3
  <2>2. CASE Return(t) /\ UNCHANGED objVars
    BY <1>3, <2>2, ReturnFacts DEF ReqOthers, objVars
  <2> QED BY <1>3, <2>1, <2>2
<1>7. ThreadInv(t)' /\ sid' \in [Threads -> Ids \cup {None}]
         /\ isNewSession' \in [Threads -> BOOLEAN]
  <2>1. CASE Validate(t)
    <3>1. IdReturns(t, op[t], i)
      BY <2>1 DEF Validate
    <3>2. idv'[t] \in {None, i} /\ (pc'[t] = "run" => idv'[t] = None)
      <4> HIDE DEF i
      <4> QED BY <1>1, <1>2, <3>1, IdReturnsFacts
    <3>3. /\ sid'[t] = i /\ isNewSession'[t] = FALSE
          /\ sid' \in [Threads -> Ids \cup {None}] /\ isNewSession' \in [Threads -> BOOLEAN]
      BY <1>1, <2>1 DEF IInv, TypeOK, Validate
    <3> QED BY <1>1, <1>3, <1>6, <3>2, <3>3 DEF ThreadInv, Fetching
  <2>2. CASE Return(t) /\ UNCHANGED objVars
    <3>1. pc'[t] = "run" /\ idv'[t] = None
      BY <2>2, ReturnFacts
    <3> QED BY <1>1, <1>3, <2>2, <3>1 DEF IInv, TypeOK, ThreadInv, Fetching, objVars
  <2> QED BY <1>3, <2>1, <2>2
<1>8. TypeOK'
  <2>1. \A j \in DOMAIN sess' : sess'[j] \in [ip : Clients, age : Age]
    BY <1>1, <1>4, Ages DEF IInv, TypeOK
  <2>2. DOMAIN sess' \subseteq Ids
    BY <1>1, <1>4 DEF IInv, TypeOK
  <2> QED BY <1>3, <1>6, <1>7, <2>1, <2>2 DEF IInv, TypeOK, LocType
<1>9. ThreadsInv'
  BY <1>3, <1>6, <1>7, ThreadStep DEF IInv
<1>10. JarInv'
  BY <1>3 DEF IInv, JarInv
<1>11. TabInv'
  <2>1. \A j \in DOMAIN sess' : sess'[j].ip = owner[j]
    <3> SUFFICES ASSUME NEW j \in DOMAIN sess' PROVE sess'[j].ip = owner[j]
      OBVIOUS
    <3>1. CASE j = i
      BY <1>1, <1>4, <3>1 DEF IInv, TabInv
    <3>2. CASE j # i
      BY <1>4, <3>2 DEF IInv, TabInv
    <3> QED BY <3>1, <3>2
  <2> QED BY <1>3, <1>5, <2>1 DEF IInv, TabInv
<1>12. Extended'
  <2> SUFFICES ASSUME Tdbc, NEW j \in DOMAIN sess'
               PROVE  \/ sess'[j].age <= lastUse[j] + sessionRefreshInterval
                      \/ \E s \in Threads : Extending(s, j)'
    BY <1>3 DEF Extended
  <2>0. j \in Ids /\ lastUse[j] \in Age
    BY <1>8 DEF IInv, TypeOK
  <2>1. CASE sess'[j] = r
    <3>1. sess'[j].age = 0 /\ lastUse[j] \in Nat /\ sessionRefreshInterval \in Nat
      BY <2>0, <2>1, SessionAssumption DEF Age, MaxAge
    <3> QED BY <3>1
  <2>2. CASE j \in DOMAIN sess /\ sess'[j] = sess[j] /\ ~Extending(t, j)
    <3>1. ASSUME NEW s \in Threads, Extending(s, j) PROVE Extending(s, j)'
      BY <1>6, <2>2, <3>1 DEF Extending, LocOthers, ReqOthers
    <3> QED BY <2>2, <3>1 DEF IInv, Extended
  <2>3. CASE Extending(t, j)
    <3>1. j = i /\ found[t]
      BY <2>3 DEF Extending, RefreshWrite
    <3> QED BY <1>4, <2>1, <3>1
  <2> QED BY <1>4, <2>1, <2>2, <2>3
<1> QED BY <1>8, <1>9, <1>10, <1>11, <1>12 DEF IInv

(* A new id is unknown to every client, thread and row.                      *)
LEMMA CreateKeeps ==
    ASSUME IInv, NEW t \in Threads, NEW i \in Ids, Create(t, i) PROVE IInv'
<1> USE DEF Create
<1>1. /\ i # None /\ i \notin DOMAIN sess /\ \A c \in Clients : jar[c] # i
      /\ \A s \in Threads : i \notin {cookie[s], sid[s], idv[s], reply[s]}
  BY SessionAssumption DEF Unused
<1>2. /\ pc[t] = "body" /\ who[t] \in Clients
      /\ UNCHANGED <<cache, jar, who, cookie>>
      /\ owner' \in [Ids -> Clients \cup {None}] /\ owner'[i] = who[t]
      /\ \A j \in Ids : j # i => owner'[j] = owner[j] /\ lastUse'[j] = lastUse[j]
      /\ lastUse' \in [Ids -> Age] /\ lastUse'[i] = 0
  BY Ages DEF IInv, TypeOK, ThreadsInv, ThreadInv
<1>3. sess' = [j \in DOMAIN sess \cup {i} |->
                  IF j = i THEN [ip |-> who[t], age |-> 0] ELSE sess[j]]
  BY <1>1 DEF Insert, Found, Answer
<1>4. /\ LocType' /\ LocOthers(t) /\ pc'[t] = "run" /\ idv'[t] = None
  BY ReturnFacts
<1>5. /\ sid' \in [Threads -> Ids \cup {None}] /\ reply' \in [Threads -> Ids \cup {None}]
      /\ isNewSession' \in [Threads -> BOOLEAN] /\ ReqOthers(t)
      /\ sid'[t] = i /\ reply'[t] = i /\ isNewSession'[t] = TRUE
  BY DEF IInv, TypeOK, ReqOthers
<1> HIDE DEF Create
<1>6. TypeOK'
  <2>1. \A j \in DOMAIN sess' : sess'[j] \in [ip : Clients, age : Age]
    BY <1>2, <1>3, Ages DEF IInv, TypeOK
  <2>2. DOMAIN sess' \subseteq Ids
    BY <1>3 DEF IInv, TypeOK
  <2> QED BY <1>2, <1>4, <1>5, <2>1, <2>2 DEF IInv, TypeOK, LocType
<1>7. ThreadInv(t)'
  <2>1. cookie[t] # None => owner'[cookie[t]] = who[t]
    BY <1>1, <1>2 DEF IInv, TypeOK, ThreadsInv, ThreadInv
  <2> QED BY <1>1, <1>2, <1>4, <1>5, <2>1, SessionAssumption DEF ThreadInv, Fetching
<1>8. ThreadsInv'
  <2>1. \A s \in Threads \ {t} : \A j \in {cookie[s], reply[s], idv[s], sid[s]} :
            j # None => owner'[j] = owner[j]
    BY <1>1, <1>2 DEF IInv, TypeOK
  <2> QED BY <1>4, <1>5, <1>7, <2>1, ThreadStep DEF IInv
<1>9. JarInv'
  BY <1>1, <1>2 DEF IInv, TypeOK, JarInv
<1>10. TabInv'
  <2>1. \A j \in DOMAIN sess : j \in Ids /\ j # i /\ sess'[j] = sess[j] /\ owner'[j] = owner[j]
    BY <1>1, <1>2, <1>3 DEF IInv, TypeOK
  <2>2. sess'[i].ip = owner'[i]
    BY <1>2, <1>3
  <2> QED BY <1>2, <1>3, <2>1, <2>2 DEF IInv, TabInv
<1>11. Extended'
  <2> SUFFICES ASSUME Tdbc, NEW j \in DOMAIN sess'
               PROVE  \/ sess'[j].age <= lastUse'[j] + sessionRefreshInterval
                      \/ \E s \in Threads : Extending(s, j)'
    BY DEF Extended
  <2>1. CASE j = i
    BY <1>2, <1>3, <2>1, SessionAssumption
  <2>2. CASE j # i
    <3>1. j \in DOMAIN sess /\ sess'[j] = sess[j] /\ lastUse'[j] = lastUse[j]
      BY <1>2, <1>3, <2>2 DEF IInv, TypeOK
    <3>2. ASSUME NEW s \in Threads, Extending(s, j) PROVE Extending(s, j)'
      BY <1>2, <1>4, <3>2 DEF Extending, LocOthers
    <3> QED BY <3>1, <3>2 DEF IInv, Extended
  <2> QED BY <2>1, <2>2
<1> QED BY <1>6, <1>8, <1>9, <1>10, <1>11 DEF IInv

LEMMA StoreSelectKeeps ==
    ASSUME IInv, NEW t \in Threads, NEW k \in Keys, StoreSelect(t, k) PROVE IInv'
<1> USE DEF StoreSelect, tabVars, reqVars, objVars, hisVars
<1>1. TypeOK'
  BY DEF IInv, TypeOK, Places, Found
<1>2. /\ pc'[t] = "storeWrite" /\ key'[t] = k /\ LocOthers(t) /\ ReqOthers(t)
  BY DEF IInv, TypeOK, LocOthers, ReqOthers
<1>3. ThreadInv(t)'
  BY <1>2, SessionAssumption DEF IInv, ThreadsInv, ThreadInv, Fetching
<1>4. ThreadsInv'
  BY <1>2, <1>3, ThreadStep DEF IInv
<1>5. JarInv' /\ TabInv'
  BY DEF IInv, JarInv, TabInv
<1>6. Extended'
  BY <1>2, UnchangedDeletes, StaysExtended DEF LocOthers
<1> QED BY <1>1, <1>4, <1>5, <1>6 DEF IInv

(* The data are put beside a row of a session that exists, or over data of    *)
(* the same session.                                                         *)
LEMMA StoreDataKeeps == ASSUME IInv, NEW t \in Threads, StoreData(t) PROVE IInv'
<1> USE DEF StoreData, reqVars, objVars, hisVars
<1> DEFINE x == <<idv[t], key[t]>>
<1>1. /\ found[t] \in BOOLEAN /\ key[t] \in Keys /\ who[t] \in Clients
      /\ idv[t] \in Ids \cup {None} /\ (idv[t] # None => owner[idv[t]] = who[t])
  BY DEF IInv, TypeOK, ThreadsInv, ThreadInv
<1>2. LocType' /\ LocOthers(t) /\ pc'[t] = "run" /\ idv'[t] = None
  BY ReturnFacts
<1>3. /\ DOMAIN cache' \subseteq DOMAIN cache \cup {x}
      /\ found[t] \/ idv[t] \notin DOMAIN sess => DOMAIN cache' \subseteq DOMAIN cache
      /\ \A y \in DOMAIN cache' :
             (y = x /\ cache'[y] = who[t]) \/ (y \in DOMAIN cache /\ cache'[y] = cache[y])
  <2>1. CASE cache' = cache /\ ~found[t]
    BY <2>1
  <2>2. CASE cache' = StoreWrite(found[t], cache, x, who[t]).tab
             /\ (found[t] \/ idv[t] \in DOMAIN sess)
    <3> HIDE DEF x, StoreData
    <3>1. /\ DOMAIN cache' \subseteq DOMAIN cache \cup {x}
          /\ found[t] => DOMAIN cache' = DOMAIN cache
          /\ \A y \in DOMAIN cache' :
                 cache'[y] = who[t] \/ (y \in DOMAIN cache /\ cache'[y] = cache[y])
          /\ \A y \in DOMAIN cache' : y # x => cache'[y] = cache[y]
      BY <1>1, <2>2, StoreFacts
    <3> QED BY <2>2, <3>1
  <2> QED BY <2>1, <2>2
<1> HIDE DEF StoreData
<1>4. UNCHANGED <<sess, jar, reqVars, objVars, hisVars>> /\ pc[t] = "storeWrite"
  BY DEF StoreData
<1>5. \A y \in DOMAIN cache' :
         y \in Ids \X Keys /\ cache'[y] \in Clients
         /\ y[1] \in DOMAIN sess /\ cache'[y] = owner[y[1]]
  <2> SUFFICES ASSUME NEW y \in DOMAIN cache'
               PROVE  y \in Ids \X Keys /\ cache'[y] \in Clients
                      /\ y[1] \in DOMAIN sess /\ cache'[y] = owner[y[1]]
    OBVIOUS
  <2>1. CASE y \in DOMAIN cache /\ cache'[y] = cache[y]
    BY <2>1 DEF IInv, TypeOK, TabInv
  <2>2. CASE y = x /\ cache'[y] = who[t]
    <3>1. x \in Ids \X Keys /\ x[1] \in DOMAIN sess
      <4>1. CASE x \in DOMAIN cache
        BY <4>1 DEF IInv, TypeOK, TabInv
      <4>2. CASE x \notin DOMAIN cache
        BY <1>1, <1>3, <2>2, <4>2 DEF IInv, TypeOK
      <4> QED BY <4>1, <4>2
    <3>2. x[1] = idv[t] /\ idv[t] # None
      BY <3>1, SessionAssumption
    <3> QED BY <1>1, <2>2, <3>1, <3>2
  <2> QED BY <1>3, <2>1, <2>2
<1>6. TypeOK'
  BY <1>2, <1>4, <1>5 DEF IInv, TypeOK, LocType
<1>7. ThreadInv(t)'
  BY <1>2, <1>4 DEF IInv, ThreadsInv, ThreadInv, Fetching
<1>8. ThreadsInv'
  BY <1>2, <1>4, <1>7, ThreadStep DEF IInv, ReqOthers
<1>9. JarInv' /\ TabInv'
  BY <1>4, <1>5 DEF IInv, JarInv, TabInv
<1>10. Extended'
  <2>1. ASSUME NEW i, NEW s \in Threads, Extending(s, i) PROVE Extending(s, i)'
    BY <1>2, <1>4, <2>1 DEF Extending, LocOthers
  <2> QED BY <1>4, <2>1 DEF IInv, Extended
<1> QED BY <1>6, <1>8, <1>9, <1>10 DEF IInv

LEMMA ClearKeeps ==
    ASSUME IInv, NEW t \in Threads, NEW ks, Clear(t, ks) PROVE IInv'
<1> USE DEF Clear, reqVars, objVars, hisVars
<1>1. OnlyDeletes
  BY DEF IInv, TabInv, OnlyDeletes, Without
<1>2. TabType' /\ TabInv'
  BY <1>1, DeletesKeep
<1>3. LocType' /\ LocOthers(t) /\ pc'[t] = "run" /\ idv'[t] = None
  BY ReturnFacts
<1>4. TypeOK'
  BY <1>2, <1>3 DEF IInv, TypeOK, TabType, LocType
<1>5. ThreadInv(t)'
  BY <1>3 DEF IInv, ThreadsInv, ThreadInv, Fetching
<1>6. ThreadsInv'
  BY <1>3, <1>5, ThreadStep DEF IInv, ReqOthers
<1>7. JarInv'
  BY DEF IInv, JarInv
<1>8. Extended'
  BY <1>1, <1>3, StaysExtended DEF LocOthers
<1> QED BY <1>2, <1>4, <1>6, <1>7, <1>8 DEF IInv

LEMMA DeleteSessionKeeps ==
    ASSUME IInv, NEW t \in Threads, DeleteSession(t) PROVE IInv'
<1> USE DEF DeleteSession, reqVars, objVars, hisVars
<1>1. OnlyDeletes
  BY DeleteFacts
<1>2. TabType' /\ TabInv'
  BY <1>1, DeletesKeep
<1>3. LocType' /\ LocOthers(t) /\ pc'[t] = "run" /\ idv'[t] = None
  BY ReturnFacts
<1>4. TypeOK'
  BY <1>2, <1>3 DEF IInv, TypeOK, TabType, LocType
<1>5. ThreadInv(t)'
  BY <1>3 DEF IInv, ThreadsInv, ThreadInv, Fetching
<1>6. ThreadsInv'
  BY <1>3, <1>5, ThreadStep DEF IInv, ReqOthers
<1>7. JarInv'
  BY DEF IInv, JarInv
<1>8. Extended'
  BY <1>1, <1>3, StaysExtended DEF LocOthers
<1> QED BY <1>2, <1>4, <1>6, <1>7, <1>8 DEF IInv

LEMMA DeleteGivenKeeps ==
    ASSUME IInv, NEW t \in Threads, NEW i \in Ids, DeleteGiven(t, i) PROVE IInv'
<1> USE DEF DeleteGiven, reqVars, objVars, locVars, hisVars
<1>1. OnlyDeletes
  BY DeleteFacts
<1>2. TabType' /\ TabInv'
  BY <1>1, DeletesKeep
<1>3. TypeOK'
  BY <1>2 DEF IInv, TypeOK, TabType
<1>4. ThreadsInv' /\ JarInv'
  BY DEF IInv, ThreadsInv, ThreadInv, JarInv
<1>5. Extended'
  BY <1>1, StaysExtended
<1> QED BY <1>2, <1>3, <1>4, <1>5 DEF IInv
-----------------------------------------------------------------------------
LEMMA StepKeeps == IInv /\ [Next]_vars => IInv'
<1> SUFFICES ASSUME IInv, [Next]_vars PROVE IInv'
  OBVIOUS
<1>1. CASE Tick
  BY <1>1, TickKeeps
<1>2. CASE Collect
  BY <1>2, CollectKeeps
<1>3. ASSUME NEW c \in Clients, CloseBrowser(c) PROVE IInv'
  BY <1>3, CloseBrowserKeeps
<1>4. ASSUME NEW t \in Threads, NEW c \in Clients, BeginRequest(t, c) PROVE IInv'
  BY <1>4, BeginRequestKeeps
<1>5. ASSUME NEW t \in Threads, EndRequest(t) PROVE IInv'
  BY <1>5, EndRequestKeeps
<1>6. ASSUME NEW t \in Threads, NEW m \in Methods, NEW collect \in BOOLEAN,
             Call(t, m, collect)
      PROVE  IInv'
  BY <1>6, CallKeeps
<1>7. ASSUME NEW t \in Threads,
             IdFetch(t) \/ IdDelete(t) \/ RefreshSelect(t) \/ RefreshWrite(t)
      PROVE  IInv'
  BY <1>7, IdFetchKeeps, IdDeleteKeeps, RefreshSelectKeeps, RefreshWriteKeeps
<1>8. ASSUME NEW t \in Threads, NEW i \in Ids, Create(t, i) PROVE IInv'
  BY <1>8, CreateKeeps
<1>9. ASSUME NEW t \in Threads, NEW k \in Keys, StoreSelect(t, k) PROVE IInv'
  BY <1>9, StoreSelectKeeps
<1>10. ASSUME NEW t \in Threads, StoreData(t) \/ DeleteSession(t) PROVE IInv'
  BY <1>10, StoreDataKeeps, DeleteSessionKeeps
<1>11. ASSUME NEW t \in Threads, NEW ks \in {Keys} \cup {{k} : k \in Keys}, Clear(t, ks)
       PROVE  IInv'
  BY <1>11, ClearKeeps
<1>12. ASSUME NEW t \in Threads, NEW i \in Ids, DeleteGiven(t, i) PROVE IInv'
  BY <1>12, DeleteGivenKeeps
<1>13. CASE UNCHANGED vars
  BY <1>13 DEF IInv, TypeOK, ThreadsInv, ThreadInv, JarInv, TabInv, Extended, Extending,
               vars, tabVars, reqVars, objVars, locVars, hisVars
<1> QED
  BY <1>1, <1>2, <1>3, <1>4, <1>5, <1>6, <1>7, <1>8, <1>9, <1>10, <1>11, <1>12, <1>13 DEF Next

(* The inductive invariant of the session package: every reachable state      *)
(* satisfies it, whatever the threads do between two statements of another.   *)
THEOREM InductiveInvariant == Spec => []IInv
BY InitHolds, StepKeeps, PTL DEF Spec

(* The variables keep their types: no method leaves an id, a key or an age    *)
(* outside its set.                                                          *)
THEOREM TypeCorrect == Spec => []TypeOK
<1>1. IInv => TypeOK
  BY DEF IInv
<1> QED BY <1>1, InductiveInvariant, PTL

(* A request never works with the session of another client and never reads  *)
(* its data, although the object, the tables and the ids outlive requests.    *)
THEOREM ClientsIsolated == Spec => []SessionIsolation
<1>1. IInv => SessionIsolation
  BY DEF IInv, ThreadsInv, ThreadInv, TabInv, SessionIsolation
<1> QED BY <1>1, InductiveInvariant, PTL

(* is_new_session speaks of the present request in every request that has a  *)
(* session.                                                                  *)
THEOREM NewSpeaksOfRequest == Spec => []NewOfRequest
<1>1. IInv => NewOfRequest
  BY DEF IInv, ThreadsInv, ThreadInv, NewOfRequest
<1> QED BY <1>1, InductiveInvariant, PTL

(* With a handle whose update works, a session in use is extended, also when  *)
(* its row is deleted, made again or updated by another request in between.   *)
THEOREM UseExtends == ASSUME Tdbc PROVE Spec => []InUseExtended
<1>1. IInv => InUseExtended
  BY DEF IInv, Extended, Extending, InUseExtended
<1> QED BY <1>1, InductiveInvariant, PTL
=============================================================================
