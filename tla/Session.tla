------------------------------- MODULE Session -------------------------------
(* The Session package (rivet/packages/session/session-class.tcl): the       *)
(* threads of the server, each with a Session object that lives as long as   *)
(* its interpreter, share the tables rivet_session and rivet_session_cache.  *)
(* A script calls the methods in any order; every SQL statement is a step.   *)
(*                                                                           *)
(* Times are kept as ages, which Tick increases up to MaxAge, where nothing  *)
(* distinguishes them any more.  A key of the cache stands for a package and *)
(* a key; the texts of status and new_session_reason are left out.           *)
EXTENDS Integers, Dio

CONSTANTS
    Threads, Clients, Ids, Keys,
    sessionLifetime, sessionRefreshInterval, gcMaxLifetime,
    None

ASSUME SessionAssumption ==
    /\ sessionRefreshInterval \in Nat /\ sessionLifetime \in Nat /\ gcMaxLifetime \in Nat
    /\ sessionRefreshInterval <= sessionLifetime /\ sessionLifetime <= gcMaxLifetime
    /\ None \notin Clients \cup Ids \cup Keys

VARIABLES
    sess,      \* rivet_session: from ids to address and age of session_update_time
    cache,     \* rivet_session_cache: from ids and keys to data
    jar,       \* the session cookie a client holds
    pc, op,    \* where the thread is and in which method
    who, cookie,  \* the client it serves and the cookie that came with the request
    reply,     \* the cookie set in the response
    sid,       \* ::request::sessionInfo(sessionID)
    isNewSession,    \* the variable of the object
    idv, key, found, \* locals of a method: the id, the key, what a select found
    owner,     \* history: for whom an id was made
    lastUse    \* history: age of the last use of a live session by its client

tabVars == <<sess, cache>>
reqVars == <<who, cookie, reply>>
objVars == <<sid, isNewSession>>
locVars == <<pc, op, idv, key, found>>
hisVars == <<owner, lastUse>>
vars == <<tabVars, jar, reqVars, objVars, locVars, hisVars>>

MaxAge == gcMaxLifetime + 1
Age    == 0..MaxAge
Older(a) == IF a < MaxAge THEN a + 1 ELSE a

(* fetch and load end where id returns: what they read changes nothing.      *)
Methods == {"activate", "id", "store", "clear", "delete"}
Places  == {"idle", "run", "idFetch", "idDelete", "refreshSelect", "refreshWrite",
            "body", "storeWrite"}

TypeOK ==
    /\ DOMAIN sess \subseteq Ids /\ \A i \in DOMAIN sess : sess[i] \in [ip : Clients, age : Age]
    /\ DOMAIN cache \subseteq Ids \X Keys /\ \A x \in DOMAIN cache : cache[x] \in Clients
    /\ jar \in [Clients -> Ids \cup {None}]
    /\ who \in [Threads -> Clients \cup {None}]
    /\ cookie \in [Threads -> Ids \cup {None}] /\ reply \in [Threads -> Ids \cup {None}]
    /\ sid \in [Threads -> Ids \cup {None}] /\ isNewSession \in [Threads -> BOOLEAN]
    /\ pc \in [Threads -> Places] /\ op \in [Threads -> Methods \cup {None}]
    /\ idv \in [Threads -> Ids \cup {None}]
    /\ key \in [Threads -> Keys \cup {None}] /\ found \in [Threads -> BOOLEAN]
    /\ owner \in [Ids -> Clients \cup {None}] /\ lastUse \in [Ids -> Age]

Init ==
    /\ sess = [i \in {} |-> None] /\ cache = [x \in {} |-> None]
    /\ jar = [c \in Clients |-> None]
    /\ who = [t \in Threads |-> None]
    /\ cookie = [t \in Threads |-> None] /\ reply = [t \in Threads |-> None]
    /\ sid = [t \in Threads |-> None] /\ isNewSession = [t \in Threads |-> TRUE]
    /\ pc = [t \in Threads |-> "idle"] /\ op = [t \in Threads |-> None]
    /\ idv = [t \in Threads |-> None]
    /\ key = [t \in Threads |-> None] /\ found = [t \in Threads |-> FALSE]
    /\ owner = [i \in Ids |-> None] /\ lastUse = [i \in Ids |-> 0]
-----------------------------------------------------------------------------
(* The database.  A REMOTE_ADDR is the client it belongs to.                 *)

(* A session's rows of the cache go with it: ON DELETE CASCADE.              *)
DeleteSessions(is) ==
    /\ sess' = Without(sess, is)
    /\ cache' = Without(cache, {x \in DOMAIN cache : x[1] \in is})

(* The row of id i and the address of client c.                              *)
HasRow(i, c) == i \in DOMAIN sess /\ sess[i].ip = c

Garbage == {i \in DOMAIN sess : sess[i].age > gcMaxLifetime}

(* gen_session_id: an id that nobody knows.                                  *)
Unused(i) ==
    /\ i \notin DOMAIN sess /\ \A c \in Clients : jar[c] # i
    /\ \A t \in Threads : i \notin {cookie[t], sid[t], idv[t], reply[t]}

(* Time passes.                                                              *)
Tick ==
    /\ sess' = [i \in DOMAIN sess |-> [sess[i] EXCEPT !.age = Older(@)]]
    /\ lastUse' = [i \in Ids |-> IF i \in DOMAIN sess THEN Older(lastUse[i]) ELSE 0]
    /\ UNCHANGED <<cache, jar, reqVars, objVars, locVars, owner>>

(* do_garbage_collection by another child of the server.                     *)
Collect ==
    /\ Garbage # {}
    /\ DeleteSessions(Garbage)
    /\ UNCHANGED <<jar, reqVars, objVars, locVars, hisVars>>
-----------------------------------------------------------------------------
(* Requests.                                                                 *)

(* ::Rivet::initialize_request drops the last request's ::request namespace. *)
\* mutant: the namespace is kept
BeginRequest_KeepsInfo(t, c) ==
    /\ pc[t] = "idle"
    /\ pc' = [pc EXCEPT ![t] = "run"]
    /\ who' = [who EXCEPT ![t] = c] /\ cookie' = [cookie EXCEPT ![t] = jar[c]]
    /\ UNCHANGED <<tabVars, jar, reply, objVars, op, idv, key, found, hisVars>>
BeginRequest(t, c) ==
    /\ pc[t] = "idle"
    /\ pc' = [pc EXCEPT ![t] = "run"]
    /\ who' = [who EXCEPT ![t] = c] /\ cookie' = [cookie EXCEPT ![t] = jar[c]]
    /\ sid' = [sid EXCEPT ![t] = None]
    /\ UNCHANGED <<tabVars, jar, reply, isNewSession, op, idv, key, found, hisVars>>

(* The client gets the response, with the cookie if one was set.             *)
EndRequest(t) ==
    /\ pc[t] = "run"
    /\ pc' = [pc EXCEPT ![t] = "idle"]
    /\ jar' = IF reply[t] = None THEN jar ELSE [jar EXCEPT ![who[t]] = reply[t]]
    /\ who' = [who EXCEPT ![t] = None] /\ cookie' = [cookie EXCEPT ![t] = None]
    /\ reply' = [reply EXCEPT ![t] = None]
    /\ UNCHANGED <<tabVars, objVars, op, idv, key, found, hisVars>>

(* A browser forgets the cookie when it is closed (cookieLifetime 0).        *)
CloseBrowser(c) ==
    /\ jar[c] # None
    /\ jar' = [jar EXCEPT ![c] = None]
    /\ UNCHANGED <<tabVars, reqVars, objVars, locVars, hisVars>>
-----------------------------------------------------------------------------
(* The method id, which every other one calls first.                         *)

(* The method ends, normally or with an error, which the script may catch.   *)
Return(t) ==
    /\ pc' = [pc EXCEPT ![t] = "run"] /\ op' = [op EXCEPT ![t] = None]
    /\ idv' = [idv EXCEPT ![t] = None]
    /\ key' = [key EXCEPT ![t] = None] /\ found' = [found EXCEPT ![t] = FALSE]

(* id returns v to method m: `id` itself and an `activate` that got an id    *)
(* are done, the others go on.                                               *)
IdReturns(t, m, v) ==
    IF m = "id" \/ (m = "activate" /\ v # None)
    THEN Return(t)
    ELSE /\ pc' = [pc EXCEPT ![t] = "body"] /\ op' = [op EXCEPT ![t] = m]
         /\ idv' = [idv EXCEPT ![t] = v] /\ found' = [found EXCEPT ![t] = FALSE]
         /\ UNCHANGED key

(* A script calls method m; activate collects garbage once in a while.       *)
Call(t, m, collect) ==
    /\ pc[t] = "run"
    /\ collect => m = "activate" /\ Garbage # {}
    /\ IF collect THEN DeleteSessions(Garbage) ELSE UNCHANGED tabVars
    /\ CASE sid[t] # None -> IdReturns(t, m, sid[t])
         [] sid[t] = None /\ cookie[t] = None -> IdReturns(t, m, None)
         [] OTHER -> /\ pc' = [pc EXCEPT ![t] = "idFetch"] /\ op' = [op EXCEPT ![t] = m]
                     /\ UNCHANGED <<idv, key, found>>
    /\ UNCHANGED <<jar, reqVars, objVars, hisVars>>

(* The session is valid: remember it for the rest of the request.            *)
\* mutant: isNewSession keeps its value
Validate_OldFlag(t) ==
    /\ sid' = [sid EXCEPT ![t] = cookie[t]]
    /\ isNewSession' = isNewSession
    /\ IdReturns(t, op[t], cookie[t])
Validate(t) ==
    /\ sid' = [sid EXCEPT ![t] = cookie[t]]
    /\ isNewSession' = [isNewSession EXCEPT ![t] = FALSE]
    /\ IdReturns(t, op[t], cookie[t])

(* The row of the cookie and the address: none, too old, or alive, and then  *)
(* perhaps not updated for a while.                                          *)
IdFetch(t) ==
    LET i == cookie[t] IN
    /\ pc[t] = "idFetch"
    /\ \/ /\ ~HasRow(i, who[t])
          /\ IdReturns(t, op[t], None)
          /\ UNCHANGED <<objVars, lastUse>>
       \/ /\ HasRow(i, who[t]) /\ sess[i].age > sessionLifetime
          /\ pc' = [pc EXCEPT ![t] = "idDelete"]
          /\ UNCHANGED <<objVars, op, idv, key, found, lastUse>>
       \/ /\ HasRow(i, who[t]) /\ sess[i].age <= sessionLifetime
          /\ lastUse' = [lastUse EXCEPT ![i] = 0]
          /\ IF sess[i].age > sessionRefreshInterval
             THEN /\ pc' = [pc EXCEPT ![t] = "refreshSelect"]
                  /\ UNCHANGED <<objVars, op, idv, key, found>>
             ELSE Validate(t)
    /\ UNCHANGED <<tabVars, jar, reqVars, owner>>

(* The session has timed out: the row goes, as it is by now.                 *)
IdDelete(t) ==
    /\ pc[t] = "idDelete"
    /\ DeleteSessions({i \in DOMAIN sess : i = cookie[t] /\ HasRow(i, who[t])})
    /\ IdReturns(t, op[t], None)
    /\ UNCHANGED <<jar, reqVars, objVars, hisVars>>

(* The update of session_update_time: a store of the row that was fetched.   *)
RefreshSelect(t) ==
    /\ pc[t] = "refreshSelect"
    /\ pc' = [pc EXCEPT ![t] = "refreshWrite"]
    /\ found' = [found EXCEPT ![t] = HasRow(cookie[t], who[t])]
    /\ UNCHANGED <<tabVars, jar, reqVars, objVars, op, idv, key, hisVars>>

\* mutant: the row is stored as it was fetched
RefreshWrite_SameTime(t) ==
    LET i == cookie[t]
        w == StoreWrite(found[t], sess, i,
                        [ip |-> who[t], age |-> IF i \in DOMAIN sess THEN sess[i].age ELSE 0])
    IN
    /\ pc[t] = "refreshWrite"
    /\ sess' = w.tab
    /\ IF w.ok THEN Validate(t) ELSE Return(t) /\ UNCHANGED objVars
    /\ UNCHANGED <<cache, jar, reqVars, hisVars>>

RefreshWrite(t) ==
    LET w == StoreWrite(found[t], sess, cookie[t], [ip |-> who[t], age |-> 0]) IN
    /\ pc[t] = "refreshWrite"
    /\ sess' = w.tab
    /\ IF w.ok THEN Validate(t) ELSE Return(t) /\ UNCHANGED objVars
    /\ UNCHANGED <<cache, jar, reqVars, hisVars>>
-----------------------------------------------------------------------------
(* The methods, after id has returned.                                       *)

(* activate without a session: create_session, the flag and the cookie.      *)
Create(t, i) ==
    /\ pc[t] = "body" /\ op[t] = "activate" /\ Unused(i)
    /\ sess' = Insert(sess, i, [ip |-> who[t], age |-> 0]).tab
    /\ isNewSession' = [isNewSession EXCEPT ![t] = TRUE]
    /\ reply' = [reply EXCEPT ![t] = i] /\ sid' = [sid EXCEPT ![t] = i]
    /\ owner' = [owner EXCEPT ![i] = who[t]] /\ lastUse' = [lastUse EXCEPT ![i] = 0]
    /\ Return(t)
    /\ UNCHANGED <<cache, jar, who, cookie>>

(* store, of data that stand for the client they are about.                  *)
StoreSelect(t, k) ==
    /\ pc[t] = "body" /\ op[t] = "store"
    /\ pc' = [pc EXCEPT ![t] = "storeWrite"]
    /\ key' = [key EXCEPT ![t] = k]
    /\ found' = [found EXCEPT ![t] = Found(cache, <<idv[t], k>>)]
    /\ UNCHANGED <<tabVars, jar, reqVars, objVars, op, idv, hisVars>>

\* mutant: the table has no foreign key
StoreData_NoForeignKey(t) ==
    /\ pc[t] = "storeWrite"
    /\ cache' = StoreWrite(found[t], cache, <<idv[t], key[t]>>, who[t]).tab
    /\ Return(t)
    /\ UNCHANGED <<sess, jar, reqVars, objVars, hisVars>>
(* A row for a session that does not exist, or for none, violates the        *)
(* foreign key.                                                              *)
StoreData(t) ==
    /\ pc[t] = "storeWrite"
    /\ cache' = IF found[t] \/ idv[t] \in DOMAIN sess
                THEN StoreWrite(found[t], cache, <<idv[t], key[t]>>, who[t]).tab
                ELSE cache
    /\ Return(t)
    /\ UNCHANGED <<sess, jar, reqVars, objVars, hisVars>>

(* clear, of one key or of all.                                              *)
Clear(t, ks) ==
    /\ pc[t] = "body" /\ op[t] = "clear"
    /\ cache' = Without(cache, {idv[t]} \X ks)
    /\ Return(t)
    /\ UNCHANGED <<sess, jar, reqVars, objVars, hisVars>>

(* delete_session; sessionInfo keeps the id.                                 *)
DeleteSession(t) ==
    /\ pc[t] = "body" /\ op[t] = "delete"
    /\ DeleteSessions({i \in DOMAIN sess : i = idv[t] /\ HasRow(i, who[t])})
    /\ Return(t)
    /\ UNCHANGED <<jar, reqVars, objVars, hisVars>>

(* delete_session of a given id, which does not ask for the request's own.   *)
DeleteGiven(t, i) ==
    /\ pc[t] = "run" /\ HasRow(i, who[t])
    /\ DeleteSessions({i})
    /\ UNCHANGED <<jar, reqVars, objVars, locVars, hisVars>>

Next ==
    \/ Tick \/ Collect
    \/ \E c \in Clients : CloseBrowser(c)
    \/ \E t \in Threads :
        \/ \E c \in Clients : BeginRequest(t, c)
        \/ EndRequest(t)
        \/ \E m \in Methods, collect \in BOOLEAN : Call(t, m, collect)
        \/ IdFetch(t) \/ IdDelete(t) \/ RefreshSelect(t) \/ RefreshWrite(t)
        \/ \E i \in Ids : Create(t, i)
        \/ \E k \in Keys : StoreSelect(t, k)
        \/ StoreData(t)
        \/ \E ks \in {Keys} \cup {{k} : k \in Keys} : Clear(t, ks)
        \/ DeleteSession(t)
        \/ \E i \in Ids : DeleteGiven(t, i)

Spec == Init /\ [][Next]_vars
-----------------------------------------------------------------------------
(* Safety.                                                                   *)

(* A request works with a session made for its own client, and the data kept *)
(* with a session are about the client it was made for, whatever earlier     *)
(* requests left in the thread's object and in the tables.                   *)
SessionIsolation ==
    /\ \A t \in Threads : pc[t] # "idle" /\ sid[t] # None => owner[sid[t]] = who[t]
    /\ \A x \in DOMAIN cache : cache[x] = owner[x[1]]

(* In a request with a session, is_new_session answers for this request,     *)
(* although the answer is a variable that outlives it.                       *)
NewOfRequest ==
    \A t \in Threads : pc[t] # "idle" /\ sid[t] # None =>
        (isNewSession[t] <=> reply[t] = sid[t])

(* "sessions that are in use keep getting extended" (session.xml:225): the   *)
(* update time of a live session lags behind the last request that found it  *)
(* alive by the refresh interval at most, unless such a request is still at  *)
(* work; so that a client whose requests are closer than the lifetime less   *)
(* the interval never times out.                                             *)
InUseExtended ==
    \A i \in DOMAIN sess :
        \/ sess[i].age <= lastUse[i] + sessionRefreshInterval
        \/ \E t \in Threads : cookie[t] = i /\ pc[t] \in {"refreshSelect", "refreshWrite"}
=============================================================================
