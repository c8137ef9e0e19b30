------------------------ MODULE WorkerBridgeProofs ------------------------
(* Theorems about the worker bridge for every number of handlers, threads,  *)
(* slots and waits, for both settings of SingleThreadExit and for stops at   *)
(* any moment.                                                               *)
EXTENDS WorkerBridge, TLAPS

(* A worker at the top of its loop, where it may be queued or handed out.    *)
InLoop(t) == wpc[t] \in {"test", "waitInit"}

Waits(h, t) == hpc[h] = "wait" /\ hobj[h] = t

(* A handler holds a record exactly while its request is open; a finaliser   *)
(* exactly between trypop and wake-up, and only once shutdown is set.  A      *)
(* worker finalises the pool from inside `exit` and nowhere else.            *)
Links ==
    /\ \A h \in Handler : hobj[h] # None <=> hpc[h] \in {"attach", "wait"}
    /\ \A c \in Caller : fobj[c] # None <=> fpc[c] = "wake"
    /\ \A c \in Caller : fpc[c] \in {"loop", "wake", "count", "join"} => shutdown
    /\ \A t \in Thread : fpc[t] # "none" => wpc[t] = "exit"
    /\ spc = "create" => si \in Slot

(* What has been taken from the queue is still at the top of its loop and    *)
(* idle until the taker writes to it.                                        *)
TakenIsIdle ==
    /\ \A h \in Handler : hpc[h] = "attach" => /\ InLoop(hobj[h])
                                               /\ status[hobj[h]] = "idle"
    /\ \A c \in Caller : fpc[c] = "wake" => /\ InLoop(fobj[c])
                                            /\ status[fobj[c]] = "idle"

(* The record a sleeping handler waits on names that handler, and its status *)
(* agrees with where its worker is.                                          *)
WaitConsistent ==
    \A h \in Handler : hpc[h] = "wait" =>
        /\ req[hobj[h]] = h
        /\ \/ /\ status[hobj[h]] = "init"
              /\ wpc[hobj[h]] \in {"waitInit", "leave", "notify", "decr", "gone"}
           \/ /\ status[hobj[h]] = "request_processing"
              /\ wpc[hobj[h]] \in {"serve", "exit"}
           \/ /\ status[hobj[h]] = "done" /\ wpc[hobj[h]] = "waitIdle"
              /\ code[hobj[h]] = h

(* What a worker's place in its loop says about its record and its owner.    *)
WorkerConsistent ==
    \A t \in Thread :
        /\ wpc[t] \in {"count", "push", "test"} => status[t] = "idle" /\ keepGoing[t]
        /\ wpc[t] = "waitInit" =>
              /\ keepGoing[t] /\ status[t] \in {"idle", "init"}
              /\ status[t] = "init" => shutdown \/ \E h \in Handler : Waits(h, t)
        /\ wpc[t] \in {"serve", "exit"} =>
              status[t] = "request_processing" /\ \E h \in Handler : Waits(h, t)
        /\ wpc[t] = "waitIdle" =>
              \/ status[t] = "done" /\ \E h \in Handler : Waits(h, t)
              \/ status[t] = "idle" /\ \A h \in Handler : hobj[h] # t
        /\ wpc[t] \notin {"serve", "exit", "waitIdle"} => status[t] \in {"idle", "init"}
        /\ wpc[t] \in {"none", "start", "init", "count", "push"} =>
              \A h \in Handler : hobj[h] # t

(* The inductive invariant.                                                  *)
IInv == /\ TypeOK /\ Links /\ ExclusiveOwner /\ QueuedWorkersServe
        /\ TakenIsIdle /\ WaitConsistent /\ WorkerConsistent /\ AnswerIsOwn
-----------------------------------------------------------------------------
(* The supervisor.                                                           *)

LEMMA SupCreateStep ==
    ASSUME IInv, SupCreate
    PROVE  IInv'
<1>1. TypeOK'
  BY ConstantsAssumption DEF IInv, TypeOK, Links, SupCreate, StartThread,
     Reusable, PoolStarted, objVars, hndVars, finVars, Slot, Caller, Status,
     WorkerPc
<1>2. Links'
  BY ConstantsAssumption DEF IInv, TypeOK, Links, SupCreate, StartThread,
     Reusable, PoolStarted, objVars, hndVars, finVars, Slot
<1>3. QueuedWorkersServe'
  BY DEF IInv, QueuedWorkersServe, SupCreate, StartThread, Reusable,
     PoolStarted, objVars, hndVars, finVars
<1>4. TakenIsIdle'
  BY DEF IInv, TakenIsIdle, InLoop, SupCreate, StartThread, Reusable,
     PoolStarted, objVars, hndVars, finVars
<1>5. WaitConsistent'
  BY DEF IInv, WaitConsistent, SupCreate, StartThread, Reusable,
     PoolStarted, objVars, hndVars, finVars
<1>6. WorkerConsistent'
  BY DEF IInv, WorkerConsistent, Waits, SupCreate, StartThread, Reusable,
     PoolStarted, objVars, hndVars, finVars
<1>7. ExclusiveOwner' /\ AnswerIsOwn'
  BY DEF IInv, ExclusiveOwner, AnswerIsOwn, SupCreate, objVars, hndVars,
     finVars
<1>8. QED
  BY <1>1, <1>2, <1>3, <1>4, <1>5, <1>6, <1>7 DEF IInv

LEMMA SupCheckStep ==
    ASSUME IInv, SupCheck
    PROVE  IInv'
<1>1. TypeOK'
  BY DEF IInv, TypeOK, SupCheck, mpmVars, objVars, wrkVars, hndVars, finVars
<1>2. Links'
  BY DEF IInv, Links, SupCheck, mpmVars, objVars, wrkVars, hndVars, finVars
<1>3. ExclusiveOwner' /\ QueuedWorkersServe' /\ TakenIsIdle' /\
        WaitConsistent' /\ WorkerConsistent' /\ AnswerIsOwn'
  BY DEF IInv, ExclusiveOwner, QueuedWorkersServe, TakenIsIdle,
     WaitConsistent, WorkerConsistent, AnswerIsOwn, InLoop, Waits, SupCheck,
     mpmVars, objVars, wrkVars, hndVars, finVars
<1>4. QED
  BY <1>1, <1>2, <1>3 DEF IInv

LEMMA SupRestartStep ==
    ASSUME IInv, SupRestart
    PROVE  IInv'
<1>1. TypeOK'
  <2>1. exiting' \in Seq(Thread)
    <3>1. exiting \in Seq(Thread) /\ Len(exiting) >= 1
      BY DEF IInv, TypeOK, SupRestart
    <3>2. SubSeq(exiting, 1, Len(exiting) - 1) \in Seq(Thread)
      BY <3>1
    <3>3. QED
      BY <3>2 DEF SupRestart, ArrayPop
  <2>2. workers' \in [Slot -> Thread \cup {None}] /\ wpc' \in [Thread -> WorkerPc]
    <3>1. CASE UNCHANGED <<workers, wpc>>
      BY <3>1 DEF IInv, TypeOK
    <3>2. ASSUME NEW i \in Slot, NEW t \in Thread, StartThread(t, i)
          PROVE  /\ workers' \in [Slot -> Thread \cup {None}]
                 /\ wpc' \in [Thread -> WorkerPc]
      BY <3>2 DEF IInv, TypeOK, StartThread, WorkerPc
    <3>3. QED
      BY <3>1, <3>2 DEF SupRestart
  <2>3. QED
    BY <2>1, <2>2 DEF IInv, TypeOK, SupRestart, objVars, hndVars, supVars, finVars
<1>2. Links'
  BY DEF IInv, TypeOK, Links, SupRestart, StartThread, Reusable, ArrayPop,
     objVars, hndVars, supVars, finVars
<1>3. QueuedWorkersServe'
  BY DEF IInv, TypeOK, QueuedWorkersServe, SupRestart, StartThread,
     Reusable, ArrayPop, objVars, hndVars, supVars, finVars
<1>4. TakenIsIdle'
  BY DEF IInv, TypeOK, Links, TakenIsIdle, InLoop, SupRestart, StartThread,
     Reusable, ArrayPop, objVars, hndVars, supVars, finVars
<1>5. WaitConsistent'
  BY DEF IInv, TypeOK, Links, WaitConsistent, SupRestart, StartThread,
     Reusable, ArrayPop, objVars, hndVars, supVars, finVars
<1>6. WorkerConsistent'
  BY DEF IInv, TypeOK, WorkerConsistent, Waits, SupRestart, StartThread,
     Reusable, ArrayPop, objVars, hndVars, supVars, finVars
<1>7. ExclusiveOwner' /\ AnswerIsOwn'
  BY DEF IInv, ExclusiveOwner, AnswerIsOwn, SupRestart, objVars, hndVars,
     supVars, finVars
<1>8. QED
  BY <1>1, <1>2, <1>3, <1>4, <1>5, <1>6, <1>7 DEF IInv

LEMMA SupDrainedStep ==
    ASSUME IInv, SupDrained
    PROVE  IInv'
<1>1. TypeOK'
  BY DEF IInv, TypeOK, SupDrained, mpmVars, objVars, wrkVars, hndVars,
     finVars
<1>2. Links'
  BY DEF IInv, Links, SupDrained, mpmVars, objVars, wrkVars, hndVars,
     finVars
<1>3. ExclusiveOwner' /\ QueuedWorkersServe' /\ TakenIsIdle' /\
        WaitConsistent' /\ WorkerConsistent' /\ AnswerIsOwn'
  BY DEF IInv, ExclusiveOwner, QueuedWorkersServe, TakenIsIdle,
     WaitConsistent, WorkerConsistent, AnswerIsOwn, InLoop, Waits, SupDrained,
     mpmVars, objVars, wrkVars, hndVars, finVars
<1>4. QED
  BY <1>1, <1>2, <1>3 DEF IInv

LEMMA SupCreateFailsStep ==
    ASSUME IInv, SupCreateFails
    PROVE  IInv'
<1>1. TypeOK'
  BY DEF IInv, TypeOK, SupCreateFails, mpmVars, objVars, wrkVars, hndVars,
     supVars, finVars, Slot, Caller, Status, WorkerPc
<1>2. Links' /\ ExclusiveOwner' /\ QueuedWorkersServe' /\ TakenIsIdle' /\
        WaitConsistent' /\ WorkerConsistent' /\ AnswerIsOwn'
  BY DEF IInv, Links, ExclusiveOwner, QueuedWorkersServe, TakenIsIdle,
     WaitConsistent, WorkerConsistent, AnswerIsOwn, InLoop, Waits,
     SupCreateFails, mpmVars, objVars, wrkVars, hndVars, supVars, finVars
<1>3. QED
  BY <1>1, <1>2 DEF IInv
(* The worker threads.                                                       *)

LEMMA WorkerStartStep ==
    ASSUME IInv, NEW t \in Thread, WorkerStart(t)
    PROVE  IInv'
<1>1. TypeOK'
  BY DEF IInv, TypeOK, WorkerStart, mpmVars, objVars, hndVars, supVars,
     finVars, Slot, Caller, Status, WorkerPc
<1>2. Links'
  BY DEF IInv, Links, WorkerStart, mpmVars, objVars, hndVars, supVars,
     finVars
<1>3. QueuedWorkersServe'
  BY DEF IInv, QueuedWorkersServe, WorkerStart, mpmVars, objVars, hndVars,
     supVars, finVars
<1>4. TakenIsIdle'
  BY DEF IInv, TakenIsIdle, InLoop, WorkerStart, mpmVars, objVars, hndVars,
     supVars, finVars
<1>5. WaitConsistent'
  BY DEF IInv, WaitConsistent, WorkerStart, mpmVars, objVars, hndVars,
     supVars, finVars
<1>6. WorkerConsistent'
  BY DEF IInv, WorkerConsistent, Waits, WorkerStart, mpmVars, objVars,
     hndVars, supVars, finVars
<1>7. ExclusiveOwner' /\ AnswerIsOwn'
  BY DEF IInv, ExclusiveOwner, AnswerIsOwn, WorkerStart, mpmVars, objVars,
     hndVars, supVars, finVars
<1>8. QED
  BY <1>1, <1>2, <1>3, <1>4, <1>5, <1>6, <1>7 DEF IInv

LEMMA WorkerInitStep ==
    ASSUME IInv, NEW t \in Thread, WorkerInit(t)
    PROVE  IInv'
<1>1. TypeOK'
  BY DEF IInv, TypeOK, WorkerInit, mpmVars, hndVars, supVars, finVars, Slot,
     Caller, Status, WorkerPc
<1>2. Links'
  BY DEF IInv, Links, WorkerInit, mpmVars, hndVars, supVars, finVars
<1>3. QueuedWorkersServe'
  BY DEF IInv, QueuedWorkersServe, WorkerInit, mpmVars, hndVars, supVars,
     finVars
<1>4. TakenIsIdle'
  BY DEF IInv, TakenIsIdle, InLoop, WorkerInit, mpmVars, hndVars, supVars,
     finVars
<1>5. WaitConsistent'
  BY DEF IInv, WaitConsistent, WorkerInit, mpmVars, hndVars, supVars,
     finVars
<1>6. WorkerConsistent'
  BY DEF IInv, TypeOK, WorkerConsistent, Waits, WorkerInit, mpmVars,
     hndVars, supVars, finVars
<1>7. ExclusiveOwner' /\ AnswerIsOwn'
  BY DEF IInv, ExclusiveOwner, AnswerIsOwn, WorkerInit, mpmVars, hndVars,
     supVars, finVars
<1>8. QED
  BY <1>1, <1>2, <1>3, <1>4, <1>5, <1>6, <1>7 DEF IInv

LEMMA WorkerCountStep ==
    ASSUME IInv, NEW t \in Thread, WorkerCount(t)
    PROVE  IInv'
<1>1. TypeOK'
  BY DEF IInv, TypeOK, WorkerCount, objVars, hndVars, supVars, finVars,
     Slot, Caller, Status, WorkerPc
<1>2. Links'
  BY DEF IInv, Links, WorkerCount, objVars, hndVars, supVars, finVars
<1>3. QueuedWorkersServe'
  BY DEF IInv, QueuedWorkersServe, WorkerCount, objVars, hndVars, supVars,
     finVars
<1>4. TakenIsIdle'
  BY DEF IInv, TakenIsIdle, InLoop, WorkerCount, objVars, hndVars, supVars,
     finVars
<1>5. WaitConsistent'
  BY DEF IInv, WaitConsistent, WorkerCount, objVars, hndVars, supVars,
     finVars
<1>6. WorkerConsistent'
  BY DEF IInv, WorkerConsistent, Waits, WorkerCount, objVars, hndVars,
     supVars, finVars
<1>7. ExclusiveOwner' /\ AnswerIsOwn'
  BY DEF IInv, ExclusiveOwner, AnswerIsOwn, WorkerCount, objVars, hndVars,
     supVars, finVars
<1>8. QED
  BY <1>1, <1>2, <1>3, <1>4, <1>5, <1>6, <1>7 DEF IInv

LEMMA WorkerPushStep ==
    ASSUME IInv, NEW t \in Thread, WorkerPush(t)
    PROVE  IInv'
<1>1. TypeOK'
  BY DEF IInv, TypeOK, WorkerPush, objVars, hndVars, supVars, finVars, Slot,
     Caller, Status, WorkerPc
<1>2. Links'
  BY DEF IInv, Links, WorkerPush, objVars, hndVars, supVars, finVars
<1>3. ExclusiveOwner'
  <2>1. t \in Thread /\ queue \in Seq(Thread) /\ queue' = Append(queue, t)
    BY DEF IInv, TypeOK, WorkerPush
  <2>2. /\ Len(queue') = Len(queue) + 1 /\ queue'[Len(queue) + 1] = t
        /\ \A i \in 1..Len(queue) : queue'[i] = queue[i]
    BY <2>1
  <2>3. \A i \in 1..Len(queue) : queue[i] # t
    BY DEF IInv, QueuedWorkersServe, WorkerPush
  <2>4. \A h \in Handler : hobj[h] # t
    BY DEF IInv, WorkerConsistent, WorkerPush
  <2>5. \A c \in Caller : fobj[c] # t
    BY IdentitiesAssumption DEF IInv, Links, TakenIsIdle, InLoop, WorkerPush
  <2>6. UNCHANGED <<hobj, fobj>>
    BY DEF WorkerPush, hndVars, finVars
  <2>7. \A i \in 1..Len(queue') : i \in 1..Len(queue) \/ i = Len(queue) + 1
    BY <2>1, <2>2
  <2>8. QED
    BY <2>2, <2>3, <2>4, <2>5, <2>6, <2>7 DEF IInv, ExclusiveOwner
<1>4. QueuedWorkersServe'
  BY DEF IInv, TypeOK, QueuedWorkersServe, WorkerConsistent, Waits,
     WorkerPush, objVars, hndVars, supVars, finVars
<1>5. TakenIsIdle'
  BY DEF IInv, TakenIsIdle, InLoop, WorkerPush, objVars, hndVars, supVars,
     finVars
<1>6. WaitConsistent'
  BY DEF IInv, WaitConsistent, WorkerPush, objVars, hndVars, supVars,
     finVars
<1>7. WorkerConsistent'
  BY DEF IInv, WorkerConsistent, Waits, WorkerPush, objVars, hndVars,
     supVars, finVars
<1>8. AnswerIsOwn'
  BY DEF IInv, AnswerIsOwn, WorkerPush, objVars, hndVars, supVars, finVars
<1>9. QED
  BY <1>1, <1>2, <1>3, <1>4, <1>5, <1>6, <1>7, <1>8 DEF IInv

LEMMA WorkerSleepStep ==
    ASSUME IInv, NEW t \in Thread, WorkerSleep(t)
    PROVE  IInv'
<1>1. TypeOK'
  BY DEF IInv, TypeOK, WorkerSleep, AtTop, mpmVars, hndVars, supVars,
     finVars, Slot, Caller, Status, WorkerPc
<1>2. Links'
  BY DEF IInv, Links, WorkerSleep, AtTop, mpmVars, hndVars, supVars, finVars
<1>3. QueuedWorkersServe'
  BY DEF IInv, QueuedWorkersServe, WorkerSleep, AtTop, mpmVars, hndVars,
     supVars, finVars
<1>4. TakenIsIdle'
  BY DEF IInv, TakenIsIdle, InLoop, WorkerSleep, AtTop, mpmVars, hndVars,
     supVars, finVars
<1>5. WaitConsistent'
  BY DEF IInv, WaitConsistent, WorkerSleep, AtTop, mpmVars, hndVars,
     supVars, finVars
<1>6. WorkerConsistent'
  BY DEF IInv, WorkerConsistent, Waits, WorkerSleep, AtTop, mpmVars,
     hndVars, supVars, finVars
<1>7. ExclusiveOwner' /\ AnswerIsOwn'
  BY DEF IInv, ExclusiveOwner, AnswerIsOwn, WorkerSleep, mpmVars, hndVars,
     supVars, finVars
<1>8. QED
  BY <1>1, <1>2, <1>3, <1>4, <1>5, <1>6, <1>7 DEF IInv

LEMMA WorkerQuitStep ==
    ASSUME IInv, NEW t \in Thread, WorkerQuit(t)
    PROVE  IInv'
<1>1. TypeOK'
  BY DEF IInv, TypeOK, WorkerQuit, AtTop, mpmVars, objVars, hndVars,
     supVars, finVars, Slot, Caller, Status, WorkerPc
<1>2. Links'
  BY DEF IInv, Links, WorkerQuit, AtTop, mpmVars, objVars, hndVars, supVars,
     finVars
<1>3. QueuedWorkersServe'
  BY DEF IInv, QueuedWorkersServe, WorkerQuit, AtTop, mpmVars, objVars,
     hndVars, supVars, finVars
<1>4. TakenIsIdle'
  BY DEF IInv, TakenIsIdle, InLoop, WorkerQuit, AtTop, mpmVars, objVars,
     hndVars, supVars, finVars
<1>5. WaitConsistent'
  BY DEF IInv, WaitConsistent, WorkerQuit, AtTop, mpmVars, objVars, hndVars,
     supVars, finVars
<1>6. WorkerConsistent'
  BY DEF IInv, TypeOK, WorkerConsistent, Waits, WorkerQuit, AtTop, mpmVars,
     objVars, hndVars, supVars, finVars
<1>7. ExclusiveOwner' /\ AnswerIsOwn'
  BY DEF IInv, ExclusiveOwner, AnswerIsOwn, WorkerQuit, mpmVars, objVars,
     hndVars, supVars, finVars
<1>8. QED
  BY <1>1, <1>2, <1>3, <1>4, <1>5, <1>6, <1>7 DEF IInv

LEMMA WorkerBeginStep ==
    ASSUME IInv, NEW t \in Thread, WorkerBegin(t)
    PROVE  IInv'
<1>1. TypeOK'
  BY DEF IInv, TypeOK, WorkerBegin, AtTop, hndVars, supVars, finVars, Slot,
     Caller, Status, WorkerPc
<1>2. Links'
  BY DEF IInv, Links, WorkerBegin, AtTop, hndVars, supVars, finVars
<1>3. QueuedWorkersServe'
  BY DEF IInv, QueuedWorkersServe, WorkerBegin, AtTop, hndVars, supVars,
     finVars
<1>4. TakenIsIdle'
  BY DEF IInv, TakenIsIdle, InLoop, WorkerBegin, AtTop, hndVars, supVars,
     finVars
<1>5. WaitConsistent'
  BY DEF IInv, TypeOK, WaitConsistent, WorkerBegin, AtTop, hndVars, supVars,
     finVars
<1>6. WorkerConsistent'
  BY DEF IInv, TypeOK, WorkerConsistent, Waits, WorkerBegin, AtTop, hndVars,
     supVars, finVars
<1>7. ExclusiveOwner' /\ AnswerIsOwn'
  BY DEF IInv, ExclusiveOwner, AnswerIsOwn, WorkerBegin, hndVars, supVars,
     finVars
<1>8. QED
  BY <1>1, <1>2, <1>3, <1>4, <1>5, <1>6, <1>7 DEF IInv

LEMMA WorkerReplyStep ==
    ASSUME IInv, NEW t \in Thread, WorkerReply(t)
    PROVE  IInv'
<1>1. TypeOK'
  BY DEF IInv, TypeOK, WaitConsistent, WorkerConsistent, Waits, WorkerReply,
     Signalled, mpmVars, hndVars, supVars, finVars, Slot, Caller, Status,
     WorkerPc
<1>2. Links'
  BY DEF IInv, Links, WorkerReply, Signalled, mpmVars, hndVars, supVars,
     finVars
<1>3. QueuedWorkersServe'
  BY DEF IInv, QueuedWorkersServe, WorkerReply, Signalled, mpmVars, hndVars,
     supVars, finVars
<1>4. TakenIsIdle'
  BY DEF IInv, TakenIsIdle, InLoop, WorkerReply, Signalled, mpmVars,
     hndVars, supVars, finVars
<1>5. WaitConsistent'
  BY DEF IInv, TypeOK, WaitConsistent, WorkerReply, Signalled, mpmVars,
     hndVars, supVars, finVars
<1>6. WorkerConsistent'
  BY DEF IInv, TypeOK, WorkerConsistent, Waits, WorkerReply, Signalled,
     mpmVars, hndVars, supVars, finVars
<1>7. ExclusiveOwner' /\ AnswerIsOwn'
  BY DEF IInv, ExclusiveOwner, AnswerIsOwn, WorkerReply, mpmVars, hndVars,
     supVars, finVars
<1>8. QED
  BY <1>1, <1>2, <1>3, <1>4, <1>5, <1>6, <1>7 DEF IInv

LEMMA WorkerExitThreadStep ==
    ASSUME IInv, NEW t \in Thread, WorkerExitThread(t)
    PROVE  IInv'
<1>1. TypeOK'
  BY DEF IInv, TypeOK, WorkerExitThread, mpmVars, objVars, hndVars, supVars,
     finVars, Caller, Slot, Status, WorkerPc
<1>2. QueuedWorkersServe'
  BY DEF IInv, TypeOK, QueuedWorkersServe, WorkerConsistent, Waits,
     WorkerExitThread, mpmVars, objVars, hndVars, supVars, finVars, Caller
<1>3. WorkerConsistent'
  BY DEF IInv, TypeOK, WorkerConsistent, Waits, WorkerExitThread, mpmVars,
     objVars, hndVars, supVars, finVars, Caller
<1>4. Links' /\ ExclusiveOwner' /\ TakenIsIdle' /\ WaitConsistent' /\
        AnswerIsOwn'
  BY DEF IInv, Links, ExclusiveOwner, TakenIsIdle, WaitConsistent,
     AnswerIsOwn, InLoop, WorkerExitThread, mpmVars, objVars, hndVars, supVars,
     finVars
<1>5. QED
  BY <1>1, <1>2, <1>3, <1>4 DEF IInv

LEMMA WorkerExitAllStep ==
    ASSUME IInv, NEW t \in Thread, WorkerExitAll(t)
    PROVE  IInv'
<1>1. TypeOK'
  BY DEF IInv, TypeOK, WorkerExitAll, objVars, hndVars, supVars, Slot,
     Caller, Status, WorkerPc
<1>2. Links'
  BY DEF IInv, TypeOK, Links, WorkerExitAll, objVars, hndVars, supVars,
     Caller
<1>3. QueuedWorkersServe'
  BY DEF IInv, TypeOK, QueuedWorkersServe, WorkerConsistent, Waits,
     WorkerExitAll, objVars, hndVars, supVars, Caller
<1>4. TakenIsIdle'
  BY DEF IInv, TypeOK, Links, TakenIsIdle, InLoop, WorkerExitAll, objVars,
     hndVars, supVars, Caller
<1>5. WaitConsistent'
  BY DEF IInv, TypeOK, Links, WaitConsistent, WorkerExitAll, objVars,
     hndVars, supVars, Caller
<1>6. WorkerConsistent'
  BY DEF IInv, TypeOK, WorkerConsistent, Waits, WorkerExitAll, objVars,
     hndVars, supVars, Caller
<1>7. ExclusiveOwner' /\ AnswerIsOwn'
  BY DEF IInv, ExclusiveOwner, AnswerIsOwn, WorkerExitAll, objVars, hndVars,
     supVars
<1>8. QED
  BY <1>1, <1>2, <1>3, <1>4, <1>5, <1>6, <1>7 DEF IInv

LEMMA WorkerResleepStep ==
    ASSUME IInv, NEW t \in Thread, WorkerResleep(t)
    PROVE  IInv'
<1>1. TypeOK'
  BY DEF IInv, TypeOK, WorkerResleep, Replied, mpmVars, wrkVars, hndVars,
     supVars, finVars
<1>2. Links' /\ ExclusiveOwner' /\ QueuedWorkersServe' /\ TakenIsIdle' /\
        WaitConsistent' /\ WorkerConsistent' /\ AnswerIsOwn'
  BY DEF IInv, Links, ExclusiveOwner, QueuedWorkersServe, TakenIsIdle,
     WaitConsistent, WorkerConsistent, AnswerIsOwn, InLoop, Waits,
     WorkerResleep, mpmVars, wrkVars, hndVars, supVars, finVars
<1>3. QED
  BY <1>1, <1>2 DEF IInv

LEMMA WorkerReleaseStep ==
    ASSUME IInv, NEW t \in Thread, WorkerRelease(t)
    PROVE  IInv'
<1>1. TypeOK'
  BY DEF IInv, TypeOK, WorkerRelease, Replied, LoopAgain, objVars, hndVars,
     supVars, finVars, Slot, Caller, Status, WorkerPc
<1>2. Links'
  BY DEF IInv, Links, WorkerRelease, Replied, LoopAgain, objVars, hndVars,
     supVars, finVars
<1>3. QueuedWorkersServe'
  BY DEF IInv, QueuedWorkersServe, WorkerRelease, Replied, LoopAgain,
     objVars, hndVars, supVars, finVars
<1>4. TakenIsIdle'
  BY DEF IInv, TakenIsIdle, InLoop, WorkerRelease, Replied, LoopAgain,
     objVars, hndVars, supVars, finVars
<1>5. WaitConsistent'
  BY DEF IInv, WaitConsistent, WorkerRelease, Replied, LoopAgain, objVars,
     hndVars, supVars, finVars
<1>6. WorkerConsistent'
  BY DEF IInv, WorkerConsistent, Waits, WorkerRelease, Replied, LoopAgain,
     objVars, hndVars, supVars, finVars
<1>7. ExclusiveOwner' /\ AnswerIsOwn'
  BY DEF IInv, ExclusiveOwner, AnswerIsOwn, WorkerRelease, objVars, hndVars,
     supVars, finVars
<1>8. QED
  BY <1>1, <1>2, <1>3, <1>4, <1>5, <1>6, <1>7 DEF IInv

LEMMA WorkerLeaveStep ==
    ASSUME IInv, NEW t \in Thread, WorkerLeave(t)
    PROVE  IInv'
<1>1. TypeOK'
  BY DEF IInv, TypeOK, WorkerLeave, mpmVars, objVars, hndVars, supVars,
     finVars, Slot, Caller, Status, WorkerPc
<1>2. Links'
  BY DEF IInv, Links, WorkerLeave, mpmVars, objVars, hndVars, supVars,
     finVars
<1>3. QueuedWorkersServe'
  BY DEF IInv, QueuedWorkersServe, WorkerLeave, mpmVars, objVars, hndVars,
     supVars, finVars
<1>4. TakenIsIdle'
  BY DEF IInv, TakenIsIdle, InLoop, WorkerLeave, mpmVars, objVars, hndVars,
     supVars, finVars
<1>5. WaitConsistent'
  BY DEF IInv, WaitConsistent, WorkerLeave, mpmVars, objVars, hndVars,
     supVars, finVars
<1>6. WorkerConsistent'
  BY DEF IInv, WorkerConsistent, Waits, WorkerLeave, mpmVars, objVars,
     hndVars, supVars, finVars
<1>7. ExclusiveOwner' /\ AnswerIsOwn'
  BY DEF IInv, ExclusiveOwner, AnswerIsOwn, WorkerLeave, mpmVars, objVars,
     hndVars, supVars, finVars
<1>8. QED
  BY <1>1, <1>2, <1>3, <1>4, <1>5, <1>6, <1>7 DEF IInv

LEMMA WorkerNotifyStep ==
    ASSUME IInv, NEW t \in Thread, WorkerNotify(t)
    PROVE  IInv'
<1>1. TypeOK'
  BY DEF IInv, TypeOK, WorkerNotify, SignalJob, objVars, hndVars, finVars,
     Slot, Caller, Status, WorkerPc
<1>2. Links'
  BY DEF IInv, Links, WorkerNotify, SignalJob, objVars, hndVars, finVars
<1>3. QueuedWorkersServe'
  BY DEF IInv, QueuedWorkersServe, WorkerNotify, SignalJob, objVars,
     hndVars, finVars
<1>4. TakenIsIdle'
  BY DEF IInv, TakenIsIdle, InLoop, WorkerNotify, SignalJob, objVars,
     hndVars, finVars
<1>5. WaitConsistent'
  BY DEF IInv, WaitConsistent, WorkerNotify, SignalJob, objVars, hndVars,
     finVars
<1>6. WorkerConsistent'
  BY DEF IInv, WorkerConsistent, Waits, WorkerNotify, SignalJob, objVars,
     hndVars, finVars
<1>7. ExclusiveOwner' /\ AnswerIsOwn'
  BY DEF IInv, ExclusiveOwner, AnswerIsOwn, WorkerNotify, objVars, hndVars,
     finVars
<1>8. QED
  BY <1>1, <1>2, <1>3, <1>4, <1>5, <1>6, <1>7 DEF IInv

LEMMA WorkerGoneStep ==
    ASSUME IInv, NEW t \in Thread, WorkerGone(t)
    PROVE  IInv'
<1>1. TypeOK'
  BY DEF IInv, TypeOK, WorkerGone, objVars, hndVars, supVars, finVars, Slot,
     Caller, Status, WorkerPc
<1>2. Links'
  BY DEF IInv, Links, WorkerGone, objVars, hndVars, supVars, finVars
<1>3. QueuedWorkersServe'
  BY DEF IInv, QueuedWorkersServe, WorkerGone, objVars, hndVars, supVars,
     finVars
<1>4. TakenIsIdle'
  BY DEF IInv, TakenIsIdle, InLoop, WorkerGone, objVars, hndVars, supVars,
     finVars
<1>5. WaitConsistent'
  BY DEF IInv, WaitConsistent, WorkerGone, objVars, hndVars, supVars,
     finVars
<1>6. WorkerConsistent'
  BY DEF IInv, WorkerConsistent, Waits, WorkerGone, objVars, hndVars,
     supVars, finVars
<1>7. ExclusiveOwner' /\ AnswerIsOwn'
  BY DEF IInv, ExclusiveOwner, AnswerIsOwn, WorkerGone, objVars, hndVars,
     supVars, finVars
<1>8. QED
  BY <1>1, <1>2, <1>3, <1>4, <1>5, <1>6, <1>7 DEF IInv

LEMMA SpuriousWakeupStep ==
    ASSUME IInv, NEW t \in Thread, SpuriousWakeup(t)
    PROVE  IInv'
<1>1. TypeOK'
  BY DEF IInv, TypeOK, SpuriousWakeup, mpmVars, wrkVars, hndVars, supVars,
     finVars
<1>2. Links' /\ ExclusiveOwner' /\ QueuedWorkersServe' /\ TakenIsIdle' /\
        WaitConsistent' /\ WorkerConsistent' /\ AnswerIsOwn'
  BY DEF IInv, Links, ExclusiveOwner, QueuedWorkersServe, TakenIsIdle,
     WaitConsistent, WorkerConsistent, AnswerIsOwn, InLoop, Waits,
     SpuriousWakeup, mpmVars, wrkVars, hndVars, supVars, finVars
<1>3. QED
  BY <1>1, <1>2 DEF IInv
(* The handlers.                                                             *)

LEMMA HandlerRefuseStep ==
    ASSUME IInv, NEW h \in Handler, HandlerRefuse(h)
    PROVE  IInv'
<1>1. TypeOK'
  BY DEF IInv, TypeOK, HandlerRefuse, Arrives, mpmVars, objVars, wrkVars,
     supVars, finVars
<1>2. AnswerIsOwn'
  BY DEF IInv, AnswerIsOwn, HandlerRefuse, Arrives, mpmVars, objVars,
     wrkVars, supVars, finVars
<1>3. Links' /\ ExclusiveOwner' /\ QueuedWorkersServe' /\ TakenIsIdle' /\
        WaitConsistent' /\ WorkerConsistent'
  BY DEF IInv, Links, ExclusiveOwner, QueuedWorkersServe, TakenIsIdle,
     WaitConsistent, WorkerConsistent, InLoop, Waits, HandlerRefuse, mpmVars,
     objVars, wrkVars, supVars, finVars
<1>4. QED
  BY <1>1, <1>2, <1>3 DEF IInv

LEMMA HandlerAcceptStep ==
    ASSUME IInv, NEW h \in Handler, HandlerAccept(h)
    PROVE  IInv'
<1>1. TypeOK'
  BY DEF IInv, TypeOK, HandlerAccept, Arrives, mpmVars, objVars, wrkVars,
     supVars, finVars
<1>2. Links'
  BY DEF IInv, Links, HandlerAccept, Arrives, mpmVars, objVars, wrkVars,
     supVars, finVars
<1>3. TakenIsIdle'
  BY DEF IInv, TakenIsIdle, InLoop, HandlerAccept, Arrives, mpmVars,
     objVars, wrkVars, supVars, finVars
<1>4. WaitConsistent'
  BY DEF IInv, WaitConsistent, HandlerAccept, Arrives, mpmVars, objVars,
     wrkVars, supVars, finVars
<1>5. WorkerConsistent'
  BY DEF IInv, WorkerConsistent, Waits, HandlerAccept, Arrives, mpmVars,
     objVars, wrkVars, supVars, finVars
<1>6. AnswerIsOwn'
  BY DEF IInv, AnswerIsOwn, HandlerAccept, Arrives, mpmVars, objVars,
     wrkVars, supVars, finVars
<1>7. ExclusiveOwner' /\ QueuedWorkersServe'
  BY DEF IInv, ExclusiveOwner, QueuedWorkersServe, HandlerAccept, mpmVars,
     objVars, wrkVars, supVars, finVars
<1>8. QED
  BY <1>1, <1>2, <1>3, <1>4, <1>5, <1>6, <1>7 DEF IInv

LEMMA HandlerPopStep ==
    ASSUME IInv, NEW h \in Handler, HandlerPop(h)
    PROVE  IInv'
<1>1. TypeOK'
  BY DEF IInv, TypeOK, HandlerPop, objVars, wrkVars, supVars, finVars
<1>2. Links'
  BY IdentitiesAssumption DEF IInv, TypeOK, Links, HandlerPop, objVars,
     wrkVars, supVars, finVars, Slot, Caller, Status, WorkerPc
<1>3. ExclusiveOwner'
  BY DEF IInv, ExclusiveOwner, HandlerPop, objVars, wrkVars, supVars,
     finVars
<1>4. QueuedWorkersServe'
  BY DEF IInv, QueuedWorkersServe, HandlerPop, objVars, wrkVars, supVars,
     finVars
<1>5. TakenIsIdle'
  BY DEF IInv, TypeOK, QueuedWorkersServe, TakenIsIdle, InLoop, HandlerPop,
     objVars, wrkVars, supVars, finVars
<1>6. WaitConsistent'
  BY DEF IInv, WaitConsistent, HandlerPop, objVars, wrkVars, supVars,
     finVars
<1>7. WorkerConsistent'
  <2>1. Head(queue) \in Thread /\ InLoop(Head(queue))
    BY DEF IInv, TypeOK, QueuedWorkersServe, InLoop, HandlerPop
  <2>2. /\ \A x \in Thread : (\E g \in Handler : Waits(g, x))
                               => \E g \in Handler : Waits(g, x)'
        /\ \A x \in Thread : x # Head(queue) /\ (\A g \in Handler : hobj[g] # x)
                               => \A g \in Handler : hobj'[g] # x
    BY DEF IInv, TypeOK, Waits, HandlerPop
  <2>3. UNCHANGED <<status, keepGoing, wpc, shutdown>>
    BY DEF HandlerPop, objVars, wrkVars
  <2>4. QED
    BY <2>1, <2>2, <2>3 DEF IInv, WorkerConsistent, InLoop
<1>8. AnswerIsOwn'
  BY DEF IInv, AnswerIsOwn, HandlerPop, objVars, wrkVars, supVars, finVars
<1>9. QED
  BY <1>1, <1>2, <1>3, <1>4, <1>5, <1>6, <1>7, <1>8 DEF IInv

LEMMA HandlerAttachStep ==
    ASSUME IInv, NEW h \in Handler, HandlerAttach(h)
    PROVE  IInv'
<1>1. TypeOK'
  BY DEF IInv, TypeOK, Links, HandlerAttach, Signalled, Holds, mpmVars,
     wrkVars, supVars, finVars, Slot, Caller, Status, WorkerPc
<1>2. Links'
  BY DEF IInv, Links, HandlerAttach, Signalled, Holds, mpmVars, wrkVars,
     supVars, finVars
<1>3. QueuedWorkersServe'
  BY DEF IInv, TypeOK, ExclusiveOwner, QueuedWorkersServe, HandlerAttach,
     Signalled, Holds, mpmVars, wrkVars, supVars, finVars
<1>4. TakenIsIdle'
  BY IdentitiesAssumption DEF IInv, TypeOK, ExclusiveOwner, TakenIsIdle,
     InLoop, HandlerAttach, Signalled, Holds, mpmVars, wrkVars, supVars,
     finVars, Slot, Caller, Status, WorkerPc
<1>5. WaitConsistent'
  BY IdentitiesAssumption DEF IInv, TypeOK, Links, ExclusiveOwner,
     TakenIsIdle, WaitConsistent, InLoop, HandlerAttach, Signalled, Holds,
     mpmVars, wrkVars, supVars, finVars, Caller
<1>6. WorkerConsistent'
  BY DEF IInv, TypeOK, TakenIsIdle, WorkerConsistent, InLoop, Waits,
     HandlerAttach, Signalled, Holds, mpmVars, wrkVars, supVars, finVars
<1>7. ExclusiveOwner' /\ AnswerIsOwn'
  BY DEF IInv, ExclusiveOwner, AnswerIsOwn, HandlerAttach, mpmVars, wrkVars,
     supVars, finVars
<1>8. QED
  BY <1>1, <1>2, <1>3, <1>4, <1>5, <1>6, <1>7 DEF IInv

LEMMA HandlerResleepStep ==
    ASSUME IInv, NEW h \in Handler, HandlerResleep(h)
    PROVE  IInv'
<1>1. TypeOK'
  BY DEF IInv, TypeOK, Links, HandlerResleep, Woken, Holds, Completed,
     mpmVars, wrkVars, hndVars, supVars, finVars, Slot, Caller, Status,
     WorkerPc
<1>2. Links' /\ ExclusiveOwner' /\ QueuedWorkersServe' /\ TakenIsIdle' /\
        WaitConsistent' /\ WorkerConsistent' /\ AnswerIsOwn'
  BY DEF IInv, Links, ExclusiveOwner, QueuedWorkersServe, TakenIsIdle,
     WaitConsistent, WorkerConsistent, AnswerIsOwn, InLoop, Waits,
     HandlerResleep, mpmVars, wrkVars, hndVars, supVars, finVars
<1>3. QED
  BY <1>1, <1>2 DEF IInv

LEMMA HandlerReturnStep ==
    ASSUME IInv, NEW h \in Handler, HandlerReturn(h)
    PROVE  IInv'
<1>1. TypeOK'
  BY DEF IInv, TypeOK, Links, HandlerReturn, Signalled, Woken, Holds,
     Completed, mpmVars, wrkVars, supVars, finVars, Slot, Caller, Status,
     WorkerPc
<1>2. Links'
  BY DEF IInv, TypeOK, Links, HandlerReturn, Signalled, Woken, Holds,
     Completed, mpmVars, wrkVars, supVars, finVars
<1>3. ExclusiveOwner'
  BY IdentitiesAssumption DEF IInv, TypeOK, Links, ExclusiveOwner,
     HandlerReturn, Signalled, Woken, Holds, Completed, mpmVars, wrkVars,
     supVars, finVars, Slot, Caller, Status, WorkerPc
<1>4. QueuedWorkersServe'
  BY DEF IInv, QueuedWorkersServe, HandlerReturn, Signalled, Woken, Holds,
     Completed, mpmVars, wrkVars, supVars, finVars
<1>5. TakenIsIdle'
  BY DEF IInv, TakenIsIdle, InLoop, HandlerReturn, Signalled, Woken, Holds,
     Completed, mpmVars, wrkVars, supVars, finVars
<1>6. WaitConsistent'
  BY DEF IInv, TypeOK, WaitConsistent, HandlerReturn, Signalled, Woken,
     Holds, Completed, mpmVars, wrkVars, supVars, finVars
<1>7. WorkerConsistent'
  BY IdentitiesAssumption DEF IInv, TypeOK, ExclusiveOwner,
     WorkerConsistent, Waits, HandlerReturn, Signalled, Woken, Holds,
     Completed, mpmVars, wrkVars, supVars, finVars, Slot, Caller, Status,
     WorkerPc
<1>8. AnswerIsOwn'
  BY DEF IInv, TypeOK, WaitConsistent, AnswerIsOwn, HandlerReturn,
     Signalled, Woken, Holds, Completed, mpmVars, wrkVars, supVars, finVars
<1>9. QED
  BY <1>1, <1>2, <1>3, <1>4, <1>5, <1>6, <1>7, <1>8 DEF IInv
(* Shutdown.                                                                 *)

LEMMA MainFinalizeStep ==
    ASSUME IInv, MainFinalize
    PROVE  IInv'
<1>1. TypeOK'
  BY DEF IInv, TypeOK, MainFinalize, mpmVars, objVars, wrkVars, hndVars,
     supVars, Slot, Caller, Status, WorkerPc
<1>2. Links'
  BY IdentitiesAssumption DEF IInv, TypeOK, Links, MainFinalize, mpmVars,
     objVars, wrkVars, hndVars, supVars, Slot, Caller, Status, WorkerPc
<1>3. TakenIsIdle'
  BY DEF IInv, TakenIsIdle, InLoop, MainFinalize, mpmVars, objVars, wrkVars,
     hndVars, supVars
<1>4. ExclusiveOwner' /\ QueuedWorkersServe' /\ WaitConsistent' /\
        WorkerConsistent' /\ AnswerIsOwn'
  BY DEF IInv, ExclusiveOwner, QueuedWorkersServe, WaitConsistent,
     WorkerConsistent, AnswerIsOwn, Waits, MainFinalize, mpmVars, objVars,
     wrkVars, hndVars, supVars
<1>5. QED
  BY <1>1, <1>2, <1>3, <1>4 DEF IInv

LEMMA ShutdownSetStep ==
    ASSUME IInv, NEW c \in Caller, ShutdownSet(c)
    PROVE  IInv'
<1>1. TypeOK'
  BY ConstantsAssumption DEF IInv, TypeOK, ShutdownSet, SignalJob, objVars,
     wrkVars, hndVars, Slot, Caller, Status, WorkerPc
<1>2. Links'
  BY DEF IInv, Links, ShutdownSet, SignalJob, objVars, wrkVars, hndVars
<1>3. TakenIsIdle'
  BY DEF IInv, TakenIsIdle, InLoop, ShutdownSet, SignalJob, objVars,
     wrkVars, hndVars
<1>4. WorkerConsistent'
  BY DEF IInv, WorkerConsistent, Waits, ShutdownSet, SignalJob, objVars,
     wrkVars, hndVars
<1>5. ExclusiveOwner' /\ QueuedWorkersServe' /\ WaitConsistent' /\
        AnswerIsOwn'
  BY DEF IInv, ExclusiveOwner, QueuedWorkersServe, WaitConsistent,
     AnswerIsOwn, ShutdownSet, objVars, wrkVars, hndVars
<1>6. QED
  BY <1>1, <1>2, <1>3, <1>4, <1>5 DEF IInv

LEMMA ShutdownEmptyStep ==
    ASSUME IInv, NEW c \in Caller, ShutdownEmpty(c)
    PROVE  IInv'
<1>1. TypeOK'
  BY DEF IInv, TypeOK, ShutdownEmpty, KeepStopping, mpmVars, objVars,
     wrkVars, hndVars, supVars
<1>2. Links'
  BY DEF IInv, Links, ShutdownEmpty, KeepStopping, mpmVars, objVars,
     wrkVars, hndVars, supVars
<1>3. TakenIsIdle'
  BY DEF IInv, TakenIsIdle, InLoop, ShutdownEmpty, KeepStopping, mpmVars,
     objVars, wrkVars, hndVars, supVars
<1>4. ExclusiveOwner' /\ QueuedWorkersServe' /\ WaitConsistent' /\
        WorkerConsistent' /\ AnswerIsOwn'
  BY DEF IInv, ExclusiveOwner, QueuedWorkersServe, WaitConsistent,
     WorkerConsistent, AnswerIsOwn, Waits, ShutdownEmpty, mpmVars, objVars,
     wrkVars, hndVars, supVars
<1>5. QED
  BY <1>1, <1>2, <1>3, <1>4 DEF IInv

LEMMA ShutdownPopStep ==
    ASSUME IInv, NEW c \in Caller, ShutdownPop(c)
    PROVE  IInv'
<1>1. TypeOK'
  BY DEF IInv, TypeOK, ShutdownPop, objVars, wrkVars, hndVars, supVars
<1>2. Links'
  BY IdentitiesAssumption DEF IInv, TypeOK, Links, ShutdownPop, objVars,
     wrkVars, hndVars, supVars, Slot, Caller, Status, WorkerPc
<1>3. ExclusiveOwner'
  BY DEF IInv, ExclusiveOwner, ShutdownPop, objVars, wrkVars, hndVars,
     supVars
<1>4. QueuedWorkersServe'
  BY DEF IInv, QueuedWorkersServe, ShutdownPop, objVars, wrkVars, hndVars,
     supVars
<1>5. TakenIsIdle'
  BY DEF IInv, TypeOK, QueuedWorkersServe, TakenIsIdle, InLoop, ShutdownPop,
     objVars, wrkVars, hndVars, supVars
<1>6. WaitConsistent' /\ WorkerConsistent' /\ AnswerIsOwn'
  BY DEF IInv, WaitConsistent, WorkerConsistent, AnswerIsOwn, Waits,
     ShutdownPop, objVars, wrkVars, hndVars, supVars
<1>7. QED
  BY <1>1, <1>2, <1>3, <1>4, <1>5, <1>6 DEF IInv

LEMMA ShutdownWakeStep ==
    ASSUME IInv, NEW c \in Caller, ShutdownWake(c)
    PROVE  IInv'
<1>1. TypeOK'
  <2>1. PICK W \in Signalled(waiters[fobj[c]]) :
               waiters' = [waiters EXCEPT ![fobj[c]] = W]
    BY DEF ShutdownWake
  <2>2. waiters' \in [Thread -> SUBSET (Thread \cup Handler)]
    <3>1. fobj[c] \in Thread
      BY DEF IInv, TypeOK, Links, ShutdownWake
    <3>2. waiters[fobj[c]] \subseteq Thread \cup Handler
      BY <3>1 DEF IInv, TypeOK
    <3>3. W \subseteq Thread \cup Handler
      BY <2>1, <3>2 DEF Signalled
    <3>4. QED
      BY <2>1, <3>3 DEF IInv, TypeOK
  <2>3. status' \in [Thread -> Status] /\ fobj' \in [Caller -> Thread \cup {None}]
          /\ fpc' \in [Caller -> {"none", "shut", "loop", "wake", "count", "join"}]
    BY DEF IInv, TypeOK, ShutdownWake, Status
  <2>4. QED
    BY <2>2, <2>3 DEF IInv, TypeOK, ShutdownWake, mpmVars, wrkVars, hndVars, supVars
<1>2. Links'
  BY DEF IInv, TypeOK, Links, ShutdownWake, Signalled, Holds, mpmVars,
     wrkVars, hndVars, supVars
<1>3. ExclusiveOwner'
  BY IdentitiesAssumption DEF IInv, TypeOK, Links, ExclusiveOwner,
     ShutdownWake, Signalled, Holds, mpmVars, wrkVars, hndVars, supVars, Caller
<1>4. QueuedWorkersServe'
  BY DEF IInv, TypeOK, ExclusiveOwner, QueuedWorkersServe, ShutdownWake,
     Signalled, Holds, mpmVars, wrkVars, hndVars, supVars
<1>5. TakenIsIdle'
  BY IdentitiesAssumption DEF IInv, TypeOK, ExclusiveOwner, TakenIsIdle,
     InLoop, ShutdownWake, Signalled, Holds, mpmVars, wrkVars, hndVars,
     supVars, Slot, Caller, Status, WorkerPc
<1>6. WaitConsistent'
  BY DEF IInv, TypeOK, TakenIsIdle, WaitConsistent, InLoop, ShutdownWake,
     Signalled, Holds, mpmVars, wrkVars, hndVars, supVars
<1>7. WorkerConsistent'
  BY IdentitiesAssumption DEF IInv, TypeOK, Links, TakenIsIdle,
     WorkerConsistent, InLoop, Waits, ShutdownWake, Signalled, Holds, mpmVars,
     wrkVars, hndVars, supVars, Caller, Status, WorkerPc
<1>8. AnswerIsOwn'
  BY DEF IInv, AnswerIsOwn, ShutdownWake, mpmVars, wrkVars, hndVars, supVars
<1>9. QED
  BY <1>1, <1>2, <1>3, <1>4, <1>5, <1>6, <1>7, <1>8 DEF IInv

LEMMA ShutdownCountStep ==
    ASSUME IInv, NEW c \in Caller, ShutdownCount(c)
    PROVE  IInv'
<1>1. TypeOK'
  BY DEF IInv, TypeOK, ShutdownCount, KeepStopping, mpmVars, objVars,
     wrkVars, hndVars, supVars
<1>2. Links'
  BY DEF IInv, Links, ShutdownCount, KeepStopping, mpmVars, objVars,
     wrkVars, hndVars, supVars
<1>3. TakenIsIdle'
  BY DEF IInv, TakenIsIdle, InLoop, ShutdownCount, KeepStopping, mpmVars,
     objVars, wrkVars, hndVars, supVars
<1>4. ExclusiveOwner' /\ QueuedWorkersServe' /\ WaitConsistent' /\
        WorkerConsistent' /\ AnswerIsOwn'
  BY DEF IInv, ExclusiveOwner, QueuedWorkersServe, WaitConsistent,
     WorkerConsistent, AnswerIsOwn, Waits, ShutdownCount, mpmVars, objVars,
     wrkVars, hndVars, supVars
<1>5. QED
  BY <1>1, <1>2, <1>3, <1>4 DEF IInv

LEMMA FinalizeJoinStep ==
    ASSUME IInv, NEW c \in Caller, FinalizeJoin(c)
    PROVE  IInv'
<1>1. TypeOK'
  BY DEF IInv, TypeOK, FinalizeJoin, mpmVars, objVars, wrkVars, hndVars,
     supVars, finVars, Slot, Caller, Status, WorkerPc
<1>2. Links' /\ ExclusiveOwner' /\ QueuedWorkersServe' /\ TakenIsIdle' /\
        WaitConsistent' /\ WorkerConsistent' /\ AnswerIsOwn'
  BY DEF IInv, Links, ExclusiveOwner, QueuedWorkersServe, TakenIsIdle,
     WaitConsistent, WorkerConsistent, AnswerIsOwn, InLoop, Waits,
     FinalizeJoin, mpmVars, objVars, wrkVars, hndVars, supVars, finVars
<1>3. QED
  BY <1>1, <1>2 DEF IInv
-----------------------------------------------------------------------------
(* The invariant holds initially: nobody holds anything, every thread is     *)
(* still to be created.                                                      *)
LEMMA InitIInv == Init => IInv
<1> SUFFICES ASSUME Init PROVE IInv
  OBVIOUS
<1>1. TypeOK
  <2>1. si \in 1..(MaxThreads + 1)
    BY ConstantsAssumption DEF Init
  <2>2. queue \in Seq(Thread) /\ exiting \in Seq(Thread)
    BY DEF Init
  <2>3. shutdown \in BOOLEAN /\ alive \in BOOLEAN
    BY DEF Init
  <2>4. /\ skip \in 0..1 /\ threadsCount \in Int /\ runningCount \in Int
        /\ workers \in [Slot -> Thread \cup {None}]
        /\ status \in [Thread -> Status]
        /\ req \in [Thread -> Handler \cup {None}]
        /\ code \in [Thread -> Handler \cup {"ok"}]
        /\ waiters \in [Thread -> SUBSET (Thread \cup Handler)]
        /\ wpc \in [Thread -> WorkerPc] /\ keepGoing \in [Thread -> BOOLEAN]
    BY DEF Init, Status, WorkerPc
  <2>5. /\ hpc \in [Handler -> {"idle", "pop", "attach", "wait"}]
        /\ hobj \in [Handler -> Thread \cup {None}]
        /\ answer \in [Handler -> Handler \cup {None, "ok", "refused"}]
        /\ spc \in {"create", "check", "wait", "drain", "end"}
        /\ fpc \in [Caller -> {"none", "shut", "loop", "wake", "count", "join"}]
        /\ fwaits \in [Caller -> Int] /\ fstop \in [Caller -> Int]
        /\ fskip \in [Caller -> 0..1]
        /\ fobj \in [Caller -> Thread \cup {None}]
    BY DEF Init
  <2>6. QED
    BY <2>1, <2>2, <2>3, <2>4, <2>5 DEF TypeOK
<1>2. Links /\ ExclusiveOwner /\ QueuedWorkersServe /\ AnswerIsOwn
  BY ConstantsAssumption DEF Init, Links, ExclusiveOwner, QueuedWorkersServe,
     AnswerIsOwn, Slot, Caller
<1>3. TakenIsIdle /\ WaitConsistent
  BY DEF Init, TakenIsIdle, WaitConsistent, Caller
<1>4. WorkerConsistent
  BY IdentitiesAssumption DEF Init, WorkerConsistent
<1>5. QED
  BY <1>1, <1>2, <1>3, <1>4 DEF IInv

LEMMA StutterIInv == ASSUME IInv, UNCHANGED vars PROVE IInv'
<1>1. TypeOK'
  BY DEF IInv, TypeOK, vars, mpmVars, objVars, wrkVars, hndVars, supVars, finVars
<1>2. Links' /\ ExclusiveOwner' /\ QueuedWorkersServe' /\ AnswerIsOwn'
  BY DEF IInv, Links, ExclusiveOwner, QueuedWorkersServe, AnswerIsOwn,
     vars, mpmVars, objVars, wrkVars, hndVars, supVars, finVars
<1>3. TakenIsIdle' /\ WaitConsistent' /\ WorkerConsistent'
  BY DEF IInv, TakenIsIdle, WaitConsistent, WorkerConsistent, InLoop, Waits,
     vars, mpmVars, objVars, wrkVars, hndVars, supVars, finVars
<1>4. QED
  BY <1>1, <1>2, <1>3 DEF IInv

LEMMA NextIInv == IInv /\ [Next]_vars => IInv'
<1> SUFFICES ASSUME IInv, [Next]_vars PROVE IInv'
  OBVIOUS
<1>1. CASE Supervisor \/ SupCreateFails
  BY <1>1, SupCreateStep, SupCheckStep, SupRestartStep, SupDrainedStep,
     SupCreateFailsStep DEF Supervisor
<1>2. CASE MainFinalize
  BY <1>2, MainFinalizeStep
<1>3. ASSUME NEW t \in Thread, WorkerStep(t)
      PROVE  IInv'
  BY <1>3, WorkerStartStep, WorkerInitStep, WorkerCountStep, WorkerPushStep,
     WorkerSleepStep, WorkerQuitStep, WorkerBeginStep, WorkerReplyStep,
     WorkerResleepStep, WorkerReleaseStep, WorkerLeaveStep, WorkerNotifyStep,
     WorkerGoneStep DEF WorkerStep
<1>4. ASSUME NEW t \in Thread, WorkerExitThread(t) \/ WorkerExitAll(t) \/ SpuriousWakeup(t)
      PROVE  IInv'
  BY <1>4, WorkerExitThreadStep, WorkerExitAllStep, SpuriousWakeupStep
<1>5. ASSUME NEW h \in Handler, HandlerRefuse(h) \/ HandlerAccept(h) \/ HandlerStep(h)
      PROVE  IInv'
  BY <1>5, HandlerRefuseStep, HandlerAcceptStep, HandlerPopStep, HandlerAttachStep,
     HandlerResleepStep, HandlerReturnStep DEF HandlerStep
<1>6. ASSUME NEW c \in Caller, FinalizeStep(c)
      PROVE  IInv'
  BY <1>6, ShutdownSetStep, ShutdownEmptyStep, ShutdownPopStep, ShutdownWakeStep,
     ShutdownCountStep, FinalizeJoinStep DEF FinalizeStep
<1>7. CASE UNCHANGED vars
  BY <1>7, StutterIInv
<1>8. QED
  BY <1>1, <1>2, <1>3, <1>4, <1>5, <1>6, <1>7 DEF Next, Terminated

(* Every behaviour of the bridge satisfies the inductive invariant.          *)
THEOREM InductiveInvariant == Spec => []IInv
BY InitIInv, NextIInv, PTL DEF Spec

(* The state stays well typed.                                               *)
THEOREM TypeCorrect == Spec => []TypeOK
<1>1. IInv => TypeOK
  BY DEF IInv
<1>2. QED
  BY <1>1, InductiveInvariant, PTL

(* rivet_worker_mpm.c: a handler_private record is never in two hands.       *)
THEOREM ExclusiveOwnership == Spec => []ExclusiveOwner
<1>1. IInv => ExclusiveOwner
  BY DEF IInv
<1>2. QED
  BY <1>1, InductiveInvariant, PTL

(* rivet_worker_mpm.c: no leaving thread is ever found in the queue.         *)
THEOREM QueueServes == Spec => []QueuedWorkersServe
<1>1. IInv => QueuedWorkersServe
  BY DEF IInv
<1>2. QED
  BY <1>1, InductiveInvariant, PTL

(* rivet_worker_mpm.c: content is generated, and a result published, only    *)
(* for the handler that waits on that very record.                           *)
THEOREM ServiceIsPaired == Spec => []ServesItsHandler
<1>1. IInv => ServesItsHandler
  <2> SUFFICES ASSUME IInv, NEW t \in Thread,
                      status[t] \in {"request_processing", "done"}
               PROVE  \E h \in Handler : req[t] = h /\ hpc[h] = "wait" /\ hobj[h] = t
    BY DEF ServesItsHandler
  <2>1. PICK h \in Handler : Waits(h, t)
    BY DEF IInv, WorkerConsistent
  <2>2. req[t] = h
    BY <2>1 DEF IInv, WaitConsistent, Waits
  <2>3. QED
    BY <2>1, <2>2 DEF Waits
<1>2. QED
  BY <1>1, InductiveInvariant, PTL

(* WorkerBridge_Request returns the code of its own request.                 *)
THEOREM OwnAnswer == Spec => []AnswerIsOwn
<1>1. IInv => AnswerIsOwn
  BY DEF IInv
<1>2. QED
  BY <1>1, InductiveInvariant, PTL
-----------------------------------------------------------------------------
(* The worker bridge implements RequestService, for every value of the       *)
(* constants: each step of a thread of rivet_worker_mpm.c is a step of the   *)
(* abstract service or leaves it as it is.                                   *)

Phases == [h \in Handler |-> PhaseOf(h)]

(* Only handler g's request moves, from one phase to another.                *)
Moves(g, from, to) ==
    /\ PhaseOf(g) = from /\ PhaseOf(g)' = to
    /\ \A h \in Handler \ {g} : PhaseOf(h)' = PhaseOf(h)

LEMMA MovesAdvances ==
    ASSUME NEW g \in Handler, NEW from, NEW to, Moves(g, from, to)
    PROVE  Service!Advance(g, from, to)
BY DEF Moves, Service!Advance

(* A step that changes no handler's place or record, and no record's status, *)
(* moves no request.                                                         *)
LEMMA NothingMoves ==
    ASSUME UNCHANGED <<hpc, hobj, status>>
    PROVE  UNCHANGED <<Phases, hobj>>
BY DEF Phases, PhaseOf

(* So does one that only changes the status of a record no handler waits on. *)
LEMMA UnheldMoves ==
    ASSUME NEW t \in Thread, status \in [Thread -> Status],
           UNCHANGED <<hpc, hobj>>, \A h \in Handler : hpc[h] = "wait" => hobj[h] # t,
           NEW s, status' = [status EXCEPT ![t] = s],
           hpc \in [Handler -> {"idle", "pop", "attach", "wait"}]
    PROVE  UNCHANGED <<Phases, hobj>>
<1>1. ASSUME NEW h \in Handler PROVE PhaseOf(h)' = PhaseOf(h)
  <2>1. hpc[h] = "wait" => status'[hobj[h]] = status[hobj[h]]
    OBVIOUS
  <2> QED
    BY <2>1 DEF PhaseOf
<1> QED
  BY <1>1 DEF Phases

(* Two handlers never hold the same record.                                  *)
LEMMA OneHolder ==
    ASSUME IInv, NEW g \in Handler, NEW h \in Handler \ {g},
           hpc[g] \in {"attach", "wait"}, hpc[h] \in {"attach", "wait"}
    PROVE  hobj[g] # hobj[h] /\ hobj[g] \in Thread /\ hobj[h] \in Thread
BY DEF IInv, TypeOK, Links, ExclusiveOwner

(* The record that handler g waits on changes its status.                    *)
LEMMA HeldMoves ==
    ASSUME IInv, NEW g \in Handler, hpc[g] = "wait", UNCHANGED <<hpc, hobj>>,
           NEW s, status' = [status EXCEPT ![hobj[g]] = s]
    PROVE  /\ \A h \in Handler \ {g} : PhaseOf(h)' = PhaseOf(h)
           /\ PhaseOf(g)' = CASE s = "request_processing" -> "running"
                              [] s = "done" -> "answered" [] OTHER -> "given"
<1>1. status \in [Thread -> Status] /\ hpc \in [Handler -> {"idle", "pop", "attach", "wait"}]
      /\ hobj[g] \in Thread
  BY DEF IInv, TypeOK, Links
<1>2. ASSUME NEW h \in Handler \ {g} PROVE PhaseOf(h)' = PhaseOf(h)
  <2>1. hpc[h] = "wait" => status'[hobj[h]] = status[hobj[h]]
    BY <1>1, OneHolder
  <2> QED
    BY <1>1, <2>1 DEF PhaseOf
<1>3. status'[hobj[g]] = s
  BY <1>1
<1> QED
  BY <1>2, <1>3 DEF PhaseOf
-----------------------------------------------------------------------------
LEMMA InitRefines == Init => Service!Init
BY DEF Init, Service!Init, PhaseOf

LEMMA AcceptRefines ==
    ASSUME IInv, NEW g \in Handler, HandlerAccept(g) PROVE Service!Ask(g)
<1>1. /\ hpc[g] = "idle" /\ ~shutdown /\ hpc' = [hpc EXCEPT ![g] = "pop"]
      /\ UNCHANGED <<hobj, status, shutdown, alive>>
      /\ hpc \in [Handler -> {"idle", "pop", "attach", "wait"}]
  BY DEF HandlerAccept, Arrives, mpmVars, objVars, IInv, TypeOK
<1>2. Moves(g, "none", "asked")
  BY <1>1 DEF Moves, PhaseOf
<1> QED
  BY <1>1, <1>2, MovesAdvances DEF Service!Ask

LEMMA PopRefines ==
    ASSUME IInv, NEW g \in Handler, HandlerPop(g) PROVE \E t \in Thread : Service!Give(g, t)
<1> DEFINE t == Head(queue)
<1>1. /\ hpc[g] = "pop" /\ queue # <<>> /\ hpc' = [hpc EXCEPT ![g] = "attach"]
      /\ hobj' = [hobj EXCEPT ![g] = t]
      /\ UNCHANGED <<status, shutdown, alive>>
      /\ hpc \in [Handler -> {"idle", "pop", "attach", "wait"}]
      /\ hobj \in [Handler -> Thread \cup {None}] /\ queue \in Seq(Thread)
  BY DEF HandlerPop, objVars, IInv, TypeOK
<1>2. t \in Thread /\ 1 \in 1..Len(queue) /\ t = queue[1]
  BY <1>1
<1>3. \A other \in Handler : hobj[other] # t
  BY <1>2 DEF IInv, ExclusiveOwner
<1> HIDE DEF t
<1>4. Moves(g, "asked", "given")
  BY <1>1 DEF Moves, PhaseOf
<1>5. Service!Give(g, t)
  BY <1>1, <1>3, <1>4, MovesAdvances DEF Service!Give
<1> QED
  BY <1>2, <1>5

(* The request is posted: it was given already.                              *)
LEMMA AttachStutters ==
    ASSUME IInv, NEW g \in Handler, HandlerAttach(g) PROVE UNCHANGED <<Phases, hobj>>
<1>1. /\ hpc[g] = "attach" /\ hpc' = [hpc EXCEPT ![g] = "wait"] /\ hobj' = hobj
      /\ status' = [status EXCEPT ![hobj[g]] = "init"]
      /\ hpc \in [Handler -> {"idle", "pop", "attach", "wait"}]
      /\ status \in [Thread -> Status]
  BY DEF HandlerAttach, IInv, TypeOK
<1>2. hobj[g] \in Thread
  BY <1>1 DEF IInv, TypeOK, Links
<1>3. PhaseOf(g)' = PhaseOf(g)
  BY <1>1, <1>2 DEF PhaseOf
<1>4. ASSUME NEW h \in Handler \ {g} PROVE PhaseOf(h)' = PhaseOf(h)
  <2>1. hpc[h] = "wait" => status'[hobj[h]] = status[hobj[h]]
    BY <1>1, OneHolder
  <2> QED
    BY <1>1, <2>1 DEF PhaseOf
<1> QED
  BY <1>1, <1>3, <1>4 DEF Phases

LEMMA ReturnRefines ==
    ASSUME IInv, NEW g \in Handler, HandlerReturn(g) PROVE Service!Return(g)
<1>1. /\ hpc[g] = "wait" /\ status[hobj[g]] = "done" /\ hpc' = [hpc EXCEPT ![g] = "idle"]
      /\ hobj' = [hobj EXCEPT ![g] = None] /\ status' = [status EXCEPT ![hobj[g]] = "idle"]
      /\ UNCHANGED <<shutdown, alive>>
      /\ hpc \in [Handler -> {"idle", "pop", "attach", "wait"}]
      /\ hobj \in [Handler -> Thread \cup {None}] /\ status \in [Thread -> Status]
  BY DEF HandlerReturn, Woken, Completed, mpmVars, IInv, TypeOK
<1>2. ASSUME NEW h \in Handler \ {g} PROVE PhaseOf(h)' = PhaseOf(h)
  <2>1. hpc'[h] = hpc[h] /\ hobj'[h] = hobj[h]
    BY <1>1
  <2>2. hpc[h] = "wait" => status'[hobj[h]] = status[hobj[h]]
    BY <1>1, OneHolder
  <2> QED
    BY <1>1, <2>1, <2>2 DEF PhaseOf
<1>3. PhaseOf(g) = "answered" /\ PhaseOf(g)' = "none"
  BY <1>1 DEF PhaseOf
<1>4. Moves(g, "answered", "none")
  BY <1>2, <1>3 DEF Moves
<1> QED
  BY <1>1, <1>4, MovesAdvances DEF Service!Return

LEMMA BeginRefines ==
    ASSUME IInv, NEW t \in Thread, WorkerBegin(t) PROVE \E g \in Handler : Service!Begin(g)
<1>1. /\ AtTop(t) /\ status[t] = "init" /\ ~shutdown
      /\ status' = [status EXCEPT ![t] = "request_processing"]
      /\ UNCHANGED <<hpc, hobj, shutdown, alive>>
  BY DEF WorkerBegin, hndVars
<1>2. PICK g \in Handler : Waits(g, t)
  BY <1>1 DEF AtTop, IInv, WorkerConsistent
<1>3. hpc[g] = "wait" /\ hobj[g] = t
  BY <1>2 DEF Waits
<1>4. Moves(g, "given", "running")
  <2>1. PhaseOf(g) = "given"
    BY <1>1, <1>3 DEF PhaseOf
  <2> QED
    BY <1>1, <1>3, <2>1, HeldMoves DEF Moves
<1> QED
  BY <1>1, <1>4, MovesAdvances DEF Service!Begin

LEMMA ReplyRefines ==
    ASSUME IInv, NEW t \in Thread, WorkerReply(t) PROVE \E g \in Handler : Service!Finish(g)
<1>1. /\ wpc[t] = "serve" /\ status' = [status EXCEPT ![t] = "done"]
      /\ UNCHANGED <<hpc, hobj, shutdown, alive>>
  BY DEF WorkerReply, hndVars, mpmVars
<1>2. PICK g \in Handler : Waits(g, t)
  BY <1>1 DEF IInv, WorkerConsistent
<1>3. hpc[g] = "wait" /\ hobj[g] = t /\ status[t] = "request_processing"
  BY <1>1, <1>2 DEF Waits, IInv, WorkerConsistent
<1>4. Moves(g, "running", "answered")
  <2>1. PhaseOf(g) = "running"
    BY <1>3 DEF PhaseOf
  <2>2. PhaseOf(g)' = "answered" /\ \A h \in Handler \ {g} : PhaseOf(h)' = PhaseOf(h)
    BY <1>1, <1>3, HeldMoves
  <2> QED
    BY <2>1, <2>2 DEF Moves
<1> QED
  BY <1>1, <1>4, MovesAdvances DEF Service!Finish

(* A record that is built, or that a finaliser wakes, has no request.        *)
LEMMA UnheldStutters ==
    ASSUME IInv, \/ \E t \in Thread : WorkerInit(t)
                 \/ \E c \in Caller : ShutdownWake(c)
    PROVE  UNCHANGED <<Phases, hobj>>
<1>1. status \in [Thread -> Status] /\ hpc \in [Handler -> {"idle", "pop", "attach", "wait"}]
  BY DEF IInv, TypeOK
<1>2. ASSUME NEW t \in Thread, WorkerInit(t) PROVE UNCHANGED <<Phases, hobj>>
  <2>1. wpc[t] = "init" /\ status' = [status EXCEPT ![t] = "idle"] /\ UNCHANGED <<hpc, hobj>>
    BY <1>2 DEF WorkerInit, hndVars
  <2>2. \A h \in Handler : hobj[h] # t
    BY <2>1 DEF IInv, WorkerConsistent
  <2> QED
    BY <1>1, <2>1, <2>2, UnheldMoves
<1>3. ASSUME NEW c \in Caller, ShutdownWake(c) PROVE UNCHANGED <<Phases, hobj>>
  <2>1. /\ fpc[c] = "wake" /\ status' = [status EXCEPT ![fobj[c]] = "init"]
        /\ UNCHANGED <<hpc, hobj>>
    BY <1>3 DEF ShutdownWake, hndVars
  <2>2. fobj[c] \in Thread
    BY <2>1 DEF IInv, TypeOK, Links
  <2>3. \A h \in Handler : hobj[h] # fobj[c]
    BY <2>2, IdentitiesAssumption DEF IInv, ExclusiveOwner
  <2> QED
    BY <1>1, <2>1, <2>2, <2>3, UnheldMoves
<1> QED
  BY <1>2, <1>3
-----------------------------------------------------------------------------
(* Every other step leaves the requests alone; it may stop the child or end  *)
(* the process.                                                              *)
Elsewhere ==
    \/ Supervisor \/ SupCreateFails \/ MainFinalize
    \/ \E t \in Thread :
          \/ WorkerStart(t) \/ WorkerCount(t) \/ WorkerPush(t) \/ WorkerSleep(t)
          \/ WorkerQuit(t) \/ WorkerResleep(t) \/ WorkerRelease(t) \/ WorkerLeave(t)
          \/ WorkerNotify(t) \/ WorkerGone(t) \/ SpuriousWakeup(t)
          \/ WorkerExitThread(t) \/ WorkerExitAll(t)
    \/ \E h \in Handler : HandlerRefuse(h) \/ HandlerResleep(h)
    \/ \E c \in Caller : \/ ShutdownSet(c) \/ ShutdownEmpty(c) \/ ShutdownPop(c)
                         \/ ShutdownCount(c) \/ FinalizeJoin(c)

LEMMA ElsewhereStutters ==
    ASSUME Elsewhere
    PROVE  /\ UNCHANGED <<hpc, hobj, status>>
           /\ \/ UNCHANGED <<shutdown, alive>>
              \/ shutdown' = TRUE /\ alive' = alive
              \/ alive' = FALSE /\ shutdown' = shutdown
<1>1. CASE Supervisor \/ SupCreateFails \/ MainFinalize
  BY <1>1 DEF Supervisor, SupCreate, SupCheck, SupRestart, SupDrained, SupCreateFails,
              MainFinalize, mpmVars, objVars, hndVars
<1>2. ASSUME NEW t \in Thread,
             \/ WorkerStart(t) \/ WorkerCount(t) \/ WorkerPush(t) \/ WorkerSleep(t)
             \/ WorkerQuit(t) \/ WorkerResleep(t) \/ WorkerRelease(t) \/ WorkerLeave(t)
             \/ WorkerNotify(t) \/ WorkerGone(t) \/ SpuriousWakeup(t)
             \/ WorkerExitThread(t) \/ WorkerExitAll(t)
      PROVE  UNCHANGED <<hpc, hobj, status, shutdown, alive>>
  BY <1>2 DEF WorkerStart, WorkerCount, WorkerPush, WorkerSleep, WorkerQuit, WorkerResleep,
              WorkerRelease, WorkerLeave, WorkerNotify, WorkerGone, SpuriousWakeup,
              WorkerExitThread, WorkerExitAll, mpmVars, objVars, hndVars
<1>3. ASSUME NEW h \in Handler, HandlerRefuse(h) \/ HandlerResleep(h)
      PROVE  UNCHANGED <<hpc, hobj, status, shutdown, alive>>
  BY <1>3 DEF HandlerRefuse, HandlerResleep, mpmVars, objVars, hndVars
<1>4. ASSUME NEW c \in Caller, \/ ShutdownSet(c) \/ ShutdownEmpty(c) \/ ShutdownPop(c)
                               \/ ShutdownCount(c) \/ FinalizeJoin(c)
      PROVE  /\ UNCHANGED <<hpc, hobj, status>>
             /\ \/ UNCHANGED <<shutdown, alive>>
                \/ shutdown' = TRUE /\ alive' = alive
                \/ alive' = FALSE /\ shutdown' = shutdown
  BY <1>4 DEF ShutdownSet, ShutdownEmpty, ShutdownPop, ShutdownCount, FinalizeJoin,
              mpmVars, objVars, hndVars
<1> QED
  BY <1>1, <1>2, <1>3, <1>4 DEF Elsewhere

LEMMA AttachKeeps ==
    ASSUME NEW g \in Handler, HandlerAttach(g) PROVE UNCHANGED <<shutdown, alive>>
BY DEF HandlerAttach, mpmVars

LEMMA UnheldKeeps ==
    ASSUME \/ \E t \in Thread : WorkerInit(t)
           \/ \E c \in Caller : ShutdownWake(c)
    PROVE  UNCHANGED <<shutdown, alive>>
BY DEF WorkerInit, ShutdownWake, mpmVars

LEMMA StepRefines == ASSUME IInv, [Next]_vars PROVE [Service!Next]_(Service!vars)
<1>1. CASE alive /\ Elsewhere
  <2>1. UNCHANGED <<hpc, hobj, status>>
    BY <1>1, ElsewhereStutters
  <2>2. UNCHANGED <<Phases, hobj>>
    BY <2>1, NothingMoves
  <2>3. CASE UNCHANGED <<shutdown, alive>>
    BY <2>2, <2>3 DEF Service!vars, Phases
  <2>4. CASE shutdown' = TRUE /\ alive' = alive
    <3>1. Service!Stop
      BY <2>2, <2>4 DEF Service!Stop, Phases
    <3> QED
      BY <1>1, <3>1 DEF Service!Next
  <2>5. CASE alive' = FALSE /\ shutdown' = shutdown
    <3>1. Service!End
      BY <2>2, <2>5 DEF Service!End, Phases
    <3> QED
      BY <1>1, <3>1 DEF Service!Next
  <2> QED
    BY <1>1, <2>3, <2>4, <2>5, ElsewhereStutters
<1>2. ASSUME alive, NEW g \in Handler, HandlerAccept(g) PROVE Service!Next
  BY <1>2, AcceptRefines DEF Service!Next
<1>3. ASSUME alive, NEW g \in Handler, HandlerPop(g) PROVE Service!Next
  BY <1>3, PopRefines DEF Service!Next
<1>4. ASSUME alive, NEW g \in Handler, HandlerReturn(g) PROVE Service!Next
  BY <1>4, ReturnRefines DEF Service!Next
<1>5. ASSUME alive, NEW t \in Thread, WorkerBegin(t) PROVE Service!Next
  BY <1>5, BeginRefines DEF Service!Next
<1>6. ASSUME alive, NEW t \in Thread, WorkerReply(t) PROVE Service!Next
  BY <1>6, ReplyRefines DEF Service!Next
<1>7. ASSUME NEW g \in Handler, HandlerAttach(g) PROVE UNCHANGED Service!vars
  BY <1>7, AttachStutters, AttachKeeps DEF Service!vars, Phases
<1>8. ASSUME \/ \E t \in Thread : WorkerInit(t)
             \/ \E c \in Caller : ShutdownWake(c)
      PROVE  UNCHANGED Service!vars
  BY <1>8, UnheldStutters, UnheldKeeps DEF Service!vars, Phases
<1>9. CASE UNCHANGED vars
  <2>1. UNCHANGED <<hpc, hobj, status, shutdown, alive>>
    BY <1>9 DEF vars, mpmVars, objVars, hndVars
  <2>2. UNCHANGED <<Phases, hobj>>
    BY <2>1, NothingMoves
  <2> QED
    BY <2>1, <2>2 DEF Service!vars, Phases
<1> QED
  BY <1>1, <1>2, <1>3, <1>4, <1>5, <1>6, <1>7, <1>8, <1>9
  DEF Next, Terminated, Elsewhere, WorkerStep, HandlerStep, FinalizeStep

(* rivet_worker_mpm.c keeps the promise of RequestService: each request is   *)
(* given to one thread that has no other, processed once, answered and only  *)
(* then forgotten, and none is begun in a child that stops.                  *)
THEOREM WorkerImplementsService == Spec => ServiceSpec
<1>1. IInv /\ [Next]_vars => [Service!Next]_(Service!vars)
  BY StepRefines
<1> QED
  BY <1>1, InitRefines, InductiveInvariant, PTL DEF Spec, ServiceSpec, Service!Spec
=============================================================================
