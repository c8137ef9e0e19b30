----------------------------- MODULE LazyBridge -----------------------------
(* The lazy bridge of mod_rivet (src/mod_rivet_ng/rivet_lazy_mpm.c): one     *)
(* child process in which each virtual host has an array of idle Tcl worker  *)
(* threads, used as a stack.  A framework thread (handler) pops a worker or, *)
(* when the array is empty, creates one; it hands the request over through   *)
(* the worker's lazy_tcl_worker record, sleeps on its condition variable and *)
(* takes the result.  The worker pushes itself back and sleeps.              *)
(* LazyBridge_Finalize, called at process shutdown or by the `exit` command, *)
(* asks the idle workers of every virtual host to exit.                      *)
(*                                                                           *)
(* A step is what a thread does between two points where another can         *)
(* interfere.  A mutex that is locked and unlocked within a step needs no    *)
(* variable; the holders across steps are read off the program counters:     *)
(* worker w keeps w->mutex while it serves and queues itself, a handler that *)
(* creates a worker keeps the mutex of its virtual host.  The array is kept  *)
(* as APR does, elements and their number, because the finaliser pops it     *)
(* without the mutex.                                                        *)
EXTENDS Integers, Sequences, FiniteSets

CONSTANTS
    Handler,          \* framework threads, each with at most one open request
    Worker,           \* identities of lazy_tcl_worker records and threads
    Main,             \* the thread that runs the child's pool cleanups
    None,             \* the null pointer
    VHostCount,       \* vhosts_count; virtual host 1 is the root server
    MaxTries,         \* the 3 rounds of LazyBridge_Finalize
    SingleThreadExit, \* module_globals->single_thread_exit
    ScriptsExit,      \* content scripts may call `exit`
    GracefulStop,     \* the MPM joins its handlers before the cleanups run
    CreateMayFail     \* apr_thread_create may report an error

ASSUME ConstantsAssumption ==
    /\ VHostCount \in Nat \ {0} /\ MaxTries \in Nat \ {0}
    /\ {SingleThreadExit, ScriptsExit, GracefulStop, CreateMayFail} \subseteq BOOLEAN

ASSUME IdentitiesAssumption ==
    /\ None \notin Handler \cup Worker \cup {Main}
    /\ Main \notin Handler \cup Worker
    /\ Handler \cap Worker = {}
    /\ {"ok", "refused"} \cap (Handler \cup {None}) = {}

VHost  == 1..VHostCount
Root   == 1
Caller == Worker \cup {Main}     \* who may run LazyBridge_Finalize

VARIABLES
    shutdown,                            \* mpm->server_shutdown
    elts, nelts, count,                  \* vhosts[v]: array and threads_count
    status, req, code, conf, server, waiters,   \* lazy_tcl_worker records
    wpc, keepGoing,
    hpc, hvhost, hobj, answer,
    fpc, fidx, ftry, fn, fobj,           \* locals of LazyBridge_Finalize
    child                                \* the process: running, ended, crashed

vhostVars == <<elts, nelts, count>>
objVars   == <<status, req, code, conf, server, waiters>>
wrkVars   == <<wpc, keepGoing>>
hndVars   == <<hpc, hvhost, hobj, answer>>
finVars   == <<fpc, fidx, ftry, fn, fobj>>
vars == <<shutdown, vhostVars, objVars, wrkVars, hndVars, finVars, child>>

Status   == {"init", "idle", "processing", "thread_exit", "done"}
WorkerPc == {"none", "start", "alloc", "conf", "count", "lock", "waitInit", "serve",
             "finalize", "waitTaken", "push", "test", "leave", "decr", "gone", "failed"}

TypeOK ==
    /\ shutdown \in BOOLEAN /\ child \in {"running", "ended", "crashed"}
    /\ elts \in [VHost -> Seq(Worker)]
    /\ nelts \in [VHost -> Nat] /\ \A v \in VHost : nelts[v] <= Len(elts[v])
    /\ count \in [VHost -> Nat]
    /\ status \in [Worker -> Status]
    /\ req \in [Worker -> Handler \cup {None}]
    /\ code \in [Worker -> Handler \cup {"ok"}]
    /\ conf \in [Worker -> VHost \cup {None}]
    /\ server \in [Worker -> VHost \cup {None}]
    /\ waiters \in [Worker -> SUBSET (Worker \cup Handler)]
    /\ wpc \in [Worker -> WorkerPc] /\ keepGoing \in [Worker -> BOOLEAN]
    /\ hpc \in [Handler -> {"idle", "create", "post", "wait"}]
    /\ hvhost \in [Handler -> VHost]
    /\ hobj \in [Handler -> Worker \cup {None}]
    /\ answer \in [Handler -> Handler \cup {None, "ok", "refused"}]
    /\ fpc \in [Caller -> {"none", "count", "look", "read", "take", "tell", "recount"}]
    /\ fidx \in [Caller -> VHost] /\ ftry \in [Caller -> 0..MaxTries]
    /\ fn \in [Caller -> Nat] /\ fobj \in [Caller -> Worker \cup {None}]

(* LazyBridge_ChildInit: empty arrays and counters for every virtual host.   *)
Init ==
    /\ shutdown = FALSE /\ child = "running"
    /\ elts = [v \in VHost |-> <<>>] /\ nelts = [v \in VHost |-> 0]
    /\ count = [v \in VHost |-> 0]
    /\ status = [w \in Worker |-> "idle"] /\ req = [w \in Worker |-> None]
    /\ code = [w \in Worker |-> "ok"] /\ conf = [w \in Worker |-> None]
    /\ server = [w \in Worker |-> None] /\ waiters = [w \in Worker |-> {}]
    /\ wpc = [w \in Worker |-> "none"] /\ keepGoing = [w \in Worker |-> TRUE]
    /\ hpc = [h \in Handler |-> "idle"] /\ hvhost = [h \in Handler |-> Root]
    /\ hobj = [h \in Handler |-> None] /\ answer = [h \in Handler |-> None]
    /\ fpc = [c \in Caller |-> "none"] /\ fidx = [c \in Caller |-> Root]
    /\ ftry = [c \in Caller |-> 0] /\ fn = [c \in Caller |-> 0]
    /\ fobj = [c \in Caller |-> None]
-----------------------------------------------------------------------------
(* Mutexes, condition variables and the idle array.                          *)

(* w->mutex is held by w across steps.                                       *)
Holds(w) == wpc[w] \in {"serve", "finalize", "push", "test"}

(* The mutex of virtual host v is not in the hands of a creating handler.    *)
VHostFree_Late(v) ==                              \* mutant: unlocked after the answer
    \A h \in Handler : hpc[h] # "idle" => hvhost[h] # v
VHostFree(v) == \A h \in Handler : hpc[h] = "create" => hvhost[h] # v

(* apr_thread_cond_signal wakes one sleeper, whichever.                      *)
Signalled_Lost(W) == {W}                          \* mutant: no signal is sent
Signalled(W) == IF W = {} THEN {{}} ELSE {W \ {x} : x \in W}

(* apr_array_push: the element after the last; what lies beyond is garbage.  *)
ArrayPush_Bottom(s, n, w) ==                      \* mutant: writes the last slot
    IF n = 0 THEN <<w>> ELSE [s EXCEPT ![n] = w]
ArrayPush(s, n, w) == SubSeq(s, 1, n) \o <<w>> \o SubSeq(s, n + 2, Len(s))

Idle(v) == {elts[v][i] : i \in 1..nelts[v]}

(* Records come from the pool and are never freed: an identity is reused     *)
(* here only when nothing in the program refers to it.                       *)
Reusable(w) == /\ wpc[w] \in {"none", "gone"}
               /\ \A v \in VHost : \A i \in 1..Len(elts[v]) : elts[v][i] # w
               /\ \A h \in Handler : hobj[h] # w
               /\ \A c \in Caller : fobj[c] # w
-----------------------------------------------------------------------------
(* A framework thread: LazyBridge_Request.                                   *)

Enter(h, v) == /\ hpc[h] = "idle" /\ VHostFree(v)
               /\ GracefulStop => fpc[Main] = "none"

HandlerRefuse(h, v) ==
    /\ Enter(h, v) /\ shutdown
    /\ answer' = [answer EXCEPT ![h] = "refused"]
    /\ UNCHANGED <<shutdown, vhostVars, objVars, wrkVars, hpc, hvhost, hobj, finVars, child>>

(* An idle worker of the request's own virtual host is popped.  (What it     *)
(* leaves in the array is dropped: no finaliser is under way to read it.)    *)
ArrayOf_Root(v) == Root                           \* mutant: the root server's array
ArrayOf(v) == v

HandlerPop(h, v) ==
    LET a == ArrayOf(v) IN
    /\ Enter(h, v) /\ ~shutdown /\ nelts[a] > 0
    /\ hobj' = [hobj EXCEPT ![h] = elts[a][nelts[a]]]
    /\ elts' = [elts EXCEPT ![a] = SubSeq(@, 1, nelts[a] - 1)]
    /\ nelts' = [nelts EXCEPT ![a] = @ - 1]
    /\ hvhost' = [hvhost EXCEPT ![h] = v]
    /\ hpc' = [hpc EXCEPT ![h] = "post"]
    /\ answer' = [answer EXCEPT ![h] = None]
    /\ UNCHANGED <<shutdown, count, objVars, wrkVars, finVars, child>>

(* None is idle: create_worker is called with the mutex locked.  (Bound of   *)
(* the instances: a request waits until an identity is free for its worker.) *)
IdentityLeft == Cardinality({w \in Worker : Reusable(w)})
                    > Cardinality({h \in Handler : hpc[h] = "create"})

HandlerMiss(h, v) ==
    /\ IdentityLeft
    /\ Enter(h, v) /\ ~shutdown /\ nelts[ArrayOf(v)] = 0
    /\ hvhost' = [hvhost EXCEPT ![h] = v]
    /\ hpc' = [hpc EXCEPT ![h] = "create"]
    /\ answer' = [answer EXCEPT ![h] = None]
    /\ UNCHANGED <<shutdown, vhostVars, objVars, wrkVars, hobj, finVars, child>>

(* The record is allocated and the thread started; the result of             *)
(* apr_thread_create is not looked at.                                       *)
HandlerCreate(h) ==
    /\ hpc[h] = "create"
    /\ \E w \in Worker :
          /\ Reusable(w)
          /\ hobj' = [hobj EXCEPT ![h] = w]
          /\ \/ wpc' = [wpc EXCEPT ![w] = "start"]
             \/ CreateMayFail /\ wpc' = [wpc EXCEPT ![w] = "failed"]
          /\ server' = [server EXCEPT ![w] = hvhost[h]]
          /\ status' = [status EXCEPT ![w] = "idle"]
          /\ conf' = [conf EXCEPT ![w] = None]
          /\ req' = [req EXCEPT ![w] = None]
          /\ code' = [code EXCEPT ![w] = "ok"]
          /\ waiters' = [waiters EXCEPT ![w] = {}]
    /\ hpc' = [hpc EXCEPT ![h] = "post"]
    /\ UNCHANGED <<shutdown, vhostVars, keepGoing, hvhost, answer, finVars, child>>

(* The request is stored, the worker signalled, and the handler sleeps.      *)
HandlerPost(h) ==
    LET w == hobj[h] IN
    /\ hpc[h] = "post" /\ ~Holds(w)
    /\ req' = [req EXCEPT ![w] = h]
    /\ status' = [status EXCEPT ![w] = "init"]
    /\ conf' = [conf EXCEPT ![w] = hvhost[h]]
    /\ \E W \in Signalled(waiters[w]) : waiters' = [waiters EXCEPT ![w] = W \cup {h}]
    /\ hpc' = [hpc EXCEPT ![h] = "wait"]
    /\ UNCHANGED <<shutdown, vhostVars, code, server, wrkVars, hvhost, hobj, answer, finVars, child>>

Woken(h) == hpc[h] = "wait" /\ h \notin waiters[hobj[h]] /\ ~Holds(hobj[h])

(* while (w->status != done)                                                 *)
Completed_Spurious(w) == TRUE                     \* mutant: `if` for `while`
Completed(w) == status[w] = "done"

HandlerResleep(h) ==
    /\ Woken(h) /\ ~Completed(hobj[h])
    /\ waiters' = [waiters EXCEPT ![hobj[h]] = @ \cup {h}]
    /\ UNCHANGED <<shutdown, vhostVars, status, req, code, conf, server, wrkVars, hndVars, finVars, child>>

HandlerReturn(h) ==
    LET w == hobj[h] IN
    /\ Woken(h) /\ Completed(w)
    /\ answer' = [answer EXCEPT ![h] = code[w]]
    /\ status' = [status EXCEPT ![w] = "idle"]
    /\ req' = [req EXCEPT ![w] = None]
    /\ \E W \in Signalled(waiters[w]) : waiters' = [waiters EXCEPT ![w] = W]
    /\ hobj' = [hobj EXCEPT ![h] = None]
    /\ hpc' = [hpc EXCEPT ![h] = "idle"]
    /\ UNCHANGED <<shutdown, vhostVars, code, conf, server, wrkVars, hvhost, finVars, child>>
-----------------------------------------------------------------------------
(* A Tcl worker thread: request_processor.                                   *)

WorkerMove(w, from, to) == wpc[w] = from /\ wpc' = [wpc EXCEPT ![w] = to]

(* Rivet_ExecutionThreadInit takes pool_mutex to allocate from the pool of   *)
(* the process, and gives it back before the interpreter is built.           *)
WorkerStart(w) ==
    /\ \A x \in Worker : wpc[x] # "alloc"
    /\ WorkerMove(w, "start", "alloc")
    /\ UNCHANGED <<shutdown, vhostVars, objVars, keepGoing, hndVars, finVars, child>>

WorkerAlloc(w) ==
    /\ WorkerMove(w, "alloc", "conf")
    /\ keepGoing' = [keepGoing EXCEPT ![w] = TRUE]
    /\ UNCHANGED <<shutdown, vhostVars, objVars, hndVars, finVars, child>>

(* The child init script and the index of the virtual host are read through  *)
(* w->conf, which the handler may or may not have stored already.            *)
WorkerConf(w) ==
    /\ conf[w] # None
    /\ WorkerMove(w, "conf", "count")
    /\ UNCHANGED <<shutdown, vhostVars, objVars, keepGoing, hndVars, finVars, child>>

WorkerConfCrash(w) ==
    /\ wpc[w] = "conf" /\ conf[w] = None
    /\ child' = "crashed"
    /\ UNCHANGED <<shutdown, vhostVars, objVars, wrkVars, hndVars, finVars>>

WorkerCount(w) ==
    /\ VHostFree(server[w])
    /\ WorkerMove(w, "count", "lock")
    /\ count' = [count EXCEPT ![server[w]] = @ + 1]
    /\ UNCHANGED <<shutdown, elts, nelts, objVars, keepGoing, hndVars, finVars, child>>

(* Where while (status != init && status != thread_exit) tests.              *)
AtTop(w) == wpc[w] \in {"lock", "test"} \/ (wpc[w] = "waitInit" /\ w \notin waiters[w])

WorkerSleep(w) ==
    /\ AtTop(w) /\ status[w] \notin {"init", "thread_exit"}
    /\ waiters' = [waiters EXCEPT ![w] = @ \cup {w}]
    /\ wpc' = [wpc EXCEPT ![w] = "waitInit"]
    /\ UNCHANGED <<shutdown, vhostVars, status, req, code, conf, server, keepGoing,
                   hndVars, finVars, child>>

WorkerQuit(w) ==
    /\ AtTop(w) /\ status[w] = "thread_exit"
    /\ keepGoing' = [keepGoing EXCEPT ![w] = FALSE]
    /\ wpc' = [wpc EXCEPT ![w] = "leave"]
    /\ UNCHANGED <<shutdown, vhostVars, objVars, hndVars, finVars, child>>

WorkerBegin(w) ==
    /\ AtTop(w) /\ status[w] = "init"
    /\ status' = [status EXCEPT ![w] = "processing"]
    /\ wpc' = [wpc EXCEPT ![w] = "serve"]
    /\ UNCHANGED <<shutdown, vhostVars, req, code, conf, server, waiters, keepGoing,
                   hndVars, finVars, child>>

(* The request's script called `exit`: this thread will leave its loop and,  *)
(* without SingleThreadExit, runs LazyBridge_Finalize with w->mutex locked.  *)
WorkerExitThread(w) ==
    /\ ScriptsExit /\ SingleThreadExit /\ wpc[w] = "serve" /\ keepGoing[w]
    /\ keepGoing' = [keepGoing EXCEPT ![w] = FALSE]
    /\ UNCHANGED <<shutdown, vhostVars, objVars, wpc, hndVars, finVars, child>>

WorkerExitAll(w) ==
    /\ ScriptsExit /\ ~SingleThreadExit /\ keepGoing[w]
    /\ WorkerMove(w, "serve", "finalize")
    /\ keepGoing' = [keepGoing EXCEPT ![w] = FALSE]
    /\ shutdown' = TRUE
    /\ fpc' = [fpc EXCEPT ![w] = "count"] /\ fidx' = [fidx EXCEPT ![w] = Root]
    /\ UNCHANGED <<vhostVars, objVars, hndVars, ftry, fn, fobj, child>>

(* Rivet_SendContent returned: the result is published and the worker sleeps *)
(* until the handler has taken it.                                           *)
WorkerReply(w) ==
    /\ WorkerMove(w, "serve", "waitTaken")
    /\ code' = [code EXCEPT ![w] = req[w]]
    /\ status' = [status EXCEPT ![w] = "done"]
    /\ \E W \in Signalled(waiters[w]) : waiters' = [waiters EXCEPT ![w] = W \cup {w}]
    /\ UNCHANGED <<shutdown, vhostVars, req, conf, server, keepGoing, hndVars, finVars, child>>

Taken(w) == wpc[w] = "waitTaken" /\ w \notin waiters[w]

WorkerResleep(w) ==
    /\ Taken(w) /\ status[w] = "done"
    /\ waiters' = [waiters EXCEPT ![w] = @ \cup {w}]
    /\ UNCHANGED <<shutdown, vhostVars, status, req, code, conf, server, wrkVars,
                   hndVars, finVars, child>>

\* mutant: the worker does not go back into the array
WorkerDone_NoPush(w) ==
    /\ Taken(w) /\ status[w] # "done"
    /\ wpc' = [wpc EXCEPT ![w] = "test"]
    /\ UNCHANGED <<shutdown, vhostVars, objVars, keepGoing, hndVars, finVars, child>>
WorkerDone(w) ==
    /\ Taken(w) /\ status[w] # "done"
    /\ wpc' = [wpc EXCEPT ![w] = "push"]
    /\ UNCHANGED <<shutdown, vhostVars, objVars, keepGoing, hndVars, finVars, child>>

(* It queues itself, whether or not its loop goes on.                        *)
WorkerPush(w) ==
    LET v == server[w] IN
    /\ VHostFree(v)
    /\ WorkerMove(w, "push", IF keepGoing[w] THEN "test" ELSE "leave")
    /\ elts' = [elts EXCEPT ![v] = ArrayPush(@, nelts[v], w)]
    /\ nelts' = [nelts EXCEPT ![v] = @ + 1]
    /\ UNCHANGED <<shutdown, count, objVars, keepGoing, hndVars, finVars, child>>

(* w->mutex is unlocked; the child exit script runs; the thread ends.        *)
WorkerLeave(w) ==
    /\ WorkerMove(w, "leave", "decr")
    /\ UNCHANGED <<shutdown, vhostVars, objVars, keepGoing, hndVars, finVars, child>>

WorkerGone(w) ==
    /\ VHostFree(server[w])
    /\ WorkerMove(w, "decr", "gone")
    /\ count' = [count EXCEPT ![server[w]] = @ - 1]
    /\ UNCHANGED <<shutdown, elts, nelts, objVars, keepGoing, hndVars, finVars, child>>

(* apr_thread_cond_wait may return without a signal.                         *)
SpuriousWakeup(w) ==
    /\ \E x \in waiters[w] : waiters' = [waiters EXCEPT ![w] = @ \ {x}]
    /\ UNCHANGED <<shutdown, vhostVars, status, req, code, conf, server, wrkVars,
                   hndVars, finVars, child>>

WorkerStep(w) ==
    \/ WorkerStart(w) \/ WorkerAlloc(w) \/ WorkerConf(w) \/ WorkerConfCrash(w)
    \/ WorkerCount(w) \/ WorkerSleep(w) \/ WorkerQuit(w) \/ WorkerBegin(w)
    \/ WorkerReply(w) \/ WorkerResleep(w) \/ WorkerDone(w) \/ WorkerPush(w)
    \/ WorkerLeave(w) \/ WorkerGone(w)
-----------------------------------------------------------------------------
(* LazyBridge_Finalize, run by Main or by a worker inside `exit`.            *)

(* The virtual host of the server record it is called with.                  *)
OwnVHost(c) == IF c = Main THEN Root ELSE server[c]

(* while (try++ < 3 && count > 0), with the break for the caller's own host. *)
Persist(c, v, tries) ==
    /\ tries < MaxTries
    /\ count[v] > IF v = OwnVHost(c) THEN 1 ELSE 0

MainFinalize ==
    /\ fpc[Main] = "none"
    /\ GracefulStop => \A h \in Handler : hpc[h] = "idle"
    /\ shutdown' = TRUE
    /\ fpc' = [fpc EXCEPT ![Main] = "count"]
    /\ UNCHANGED <<vhostVars, objVars, wrkVars, hndVars, fidx, ftry, fn, fobj, child>>

(* The caller is done with its last virtual host: Main ends the process, a   *)
(* worker goes back into its request.                                        *)
Return(c) ==
    /\ fpc' = [fpc EXCEPT ![c] = "none"]
    /\ IF c = Main THEN child' = "ended" /\ UNCHANGED <<wpc, fidx, ftry>>
       ELSE /\ WorkerMove(c, "finalize", "serve")
            /\ fidx' = [fidx EXCEPT ![c] = Root] /\ ftry' = [ftry EXCEPT ![c] = 0]
            /\ UNCHANGED child

(* threads_count of the current virtual host is read under its mutex, first  *)
(* or at the end of a round, and decides whether there is another round.     *)
FinalizeCount(c) ==
    LET v == fidx[c]
        tries == IF fpc[c] = "recount" THEN ftry[c] ELSE 0
    IN
    /\ fpc[c] \in {"count", "recount"} /\ VHostFree(v)
    /\ \/ /\ Persist(c, v, tries)
          /\ fpc' = [fpc EXCEPT ![c] = "look"] /\ ftry' = [ftry EXCEPT ![c] = tries + 1]
          /\ UNCHANGED <<fidx, wpc, child>>
       \/ /\ ~Persist(c, v, tries) /\ v < VHostCount
          /\ fpc' = [fpc EXCEPT ![c] = "count"] /\ fidx' = [fidx EXCEPT ![c] = v + 1]
          /\ UNCHANGED <<ftry, wpc, child>>
       \/ ~Persist(c, v, tries) /\ v = VHostCount /\ Return(c)
    /\ UNCHANGED <<shutdown, vhostVars, objVars, keepGoing, hndVars, fn, fobj>>

(* The array is emptied without the mutex: the test, then apr_array_pop's    *)
(* own test and load of nelts, then its store and the load of the element.   *)
FinalizeLook(c) ==
    /\ fpc[c] = "look"
    /\ fpc' = [fpc EXCEPT ![c] = IF nelts[fidx[c]] > 0 THEN "read" ELSE "recount"]
    /\ UNCHANGED <<shutdown, vhostVars, objVars, wrkVars, hndVars, fidx, ftry, fn, fobj, child>>

FinalizeRead(c) ==
    /\ fpc[c] = "read" /\ nelts[fidx[c]] > 0
    /\ fn' = [fn EXCEPT ![c] = nelts[fidx[c]]]
    /\ fpc' = [fpc EXCEPT ![c] = "take"]
    /\ UNCHANGED <<shutdown, vhostVars, objVars, wrkVars, hndVars, fidx, ftry, fobj, child>>

(* Another finaliser emptied the array: apr_array_pop returns NULL, which is *)
(* dereferenced.                                                             *)
FinalizeReadCrash(c) ==
    /\ fpc[c] = "read" /\ nelts[fidx[c]] = 0
    /\ child' = "crashed"
    /\ UNCHANGED <<shutdown, vhostVars, objVars, wrkVars, hndVars, finVars>>

FinalizeTake(c) ==
    LET v == fidx[c] IN
    /\ fpc[c] = "take"
    /\ nelts' = [nelts EXCEPT ![v] = fn[c] - 1]
    /\ fobj' = [fobj EXCEPT ![c] = elts[v][fn[c]]]
    /\ fn' = [fn EXCEPT ![c] = 0]
    /\ fpc' = [fpc EXCEPT ![c] = "tell"]
    /\ UNCHANGED <<shutdown, elts, count, objVars, wrkVars, hndVars, fidx, ftry, child>>

FinalizeTell(c) ==
    LET w == fobj[c] IN
    /\ fpc[c] = "tell" /\ ~Holds(w)
    /\ req' = [req EXCEPT ![w] = None]
    /\ status' = [status EXCEPT ![w] = "thread_exit"]
    /\ \E W \in Signalled(waiters[w]) : waiters' = [waiters EXCEPT ![w] = W]
    /\ fobj' = [fobj EXCEPT ![c] = None]
    /\ fpc' = [fpc EXCEPT ![c] = "look"]
    /\ UNCHANGED <<shutdown, vhostVars, code, conf, server, wrkVars, hndVars, fidx, ftry, fn, child>>

FinalizeStep(c) ==
    \/ FinalizeCount(c) \/ FinalizeLook(c) \/ FinalizeRead(c)
    \/ FinalizeReadCrash(c) \/ FinalizeTake(c) \/ FinalizeTell(c)

HandlerStep(h) == \/ HandlerCreate(h) \/ HandlerPost(h)
                  \/ HandlerResleep(h) \/ HandlerReturn(h)

Terminated == child # "running" /\ UNCHANGED vars

Next ==
    \/ /\ child = "running"
       /\ \/ MainFinalize
          \/ \E w \in Worker : \/ WorkerStep(w) \/ SpuriousWakeup(w)
                              \/ WorkerExitThread(w) \/ WorkerExitAll(w)
          \/ \E h \in Handler : HandlerStep(h)
          \/ \E h \in Handler, v \in VHost :
                HandlerRefuse(h, v) \/ HandlerPop(h, v) \/ HandlerMiss(h, v)
          \/ \E c \in Caller : FinalizeStep(c)
    \/ Terminated

Spec == Init /\ [][Next]_vars

(* Threads that can run eventually do, content scripts end, a mutex that     *)
(* stays free is obtained.  Requests need not come, scripts need not call    *)
(* `exit`, the server need not stop and waits need not end spuriously.       *)
Fairness ==
    LET Running(A) == child = "running" /\ A IN
    /\ \A w \in Worker : WF_vars(Running(WorkerStep(w)))
    /\ \A h \in Handler : WF_vars(Running(HandlerStep(h)))
    /\ \A c \in Caller : WF_vars(Running(FinalizeStep(c)))

FairSpec == Spec /\ Fairness
-----------------------------------------------------------------------------
(* Safety.                                                                   *)

(* Virtual hosts keep their interpreters apart: a request is served by a     *)
(* thread whose interpreter was built for the request's own virtual host,    *)
(* however threads are created, pushed and popped.                           *)
VHostsIsolated ==
    /\ \A v \in VHost : \A w \in Idle(v) : server[w] = v
    /\ \A h \in Handler : hobj[h] # None => server[hobj[h]] = hvhost[h]

(* Until the child stops, a worker that sleeps idle is where somebody will   *)
(* find it, in the array or in the hands of whoever popped it (a lost one is *)
(* replaced by a new thread at the next request, without end); and           *)
(* threads_count is the number of threads between their init and exit        *)
(* scripts, which the finaliser takes for the number to wait for.            *)
Findable(w) == \/ w \in Idle(server[w])
               \/ \E h \in Handler : hobj[h] = w
               \/ \E c \in Caller : fobj[c] = w
Asleep(w)  == wpc[w] \in {"test", "waitInit"} /\ status[w] = "idle"
Counted(w) == wpc[w] \in {"lock", "waitInit", "serve", "finalize", "waitTaken", "push",
                          "test", "leave", "decr"}
NoWorkerLost ==
    /\ ~shutdown => \A w \in Worker : Asleep(w) => Findable(w)
    /\ \A v \in VHost : count[v] = Cardinality({w \in Worker : server[w] = v /\ Counted(w)})

(* doc/xml/lazybridge.xml: "threads available for processing have their      *)
(* descriptor on that array": what is on the array is available, that is, at *)
(* the top of a loop that goes on.                                           *)
IdleAvailable ==
    ~shutdown => \A v \in VHost : \A w \in Idle(v) :
        wpc[w] \in {"test", "waitInit"} /\ keepGoing[w]
-----------------------------------------------------------------------------
(* Liveness, under FairSpec.                                                 *)

(* A request given to a worker whose loop goes on is answered unless the     *)
(* process ends or crashes: also one posted to a thread that is still        *)
(* starting, and one that overlaps with the end of the previous request.     *)
InLoop(w) == wpc[w] \notin {"leave", "decr", "gone", "failed"}
PostedIsAnswered ==
    \A h \in Handler : (hpc[h] = "post" /\ InLoop(hobj[h])) ~> (hpc[h] = "idle" \/ child # "running")

(* The shutdown of the process is never blocked, whatever threads are        *)
(* starting, serving or stuck: three rounds per virtual host, and no mutex   *)
(* that is not given back.                                                   *)
ShutdownEnds == fpc[Main] # "none" ~> child # "running"
-----------------------------------------------------------------------------
(* Refinement: the request of handler h as the abstract service sees it.     *)
PhaseOf(h) ==
    CASE hpc[h] = "idle"   -> "none"
      [] hpc[h] = "create" -> "asked"
      [] hpc[h] = "post"   -> "given"
      [] OTHER -> CASE status[hobj[h]] = "processing" -> "running"
                    [] status[hobj[h]] = "done" -> "answered"
                    [] OTHER -> "given"

Service == INSTANCE RequestService
           WITH phase <- [h \in Handler |-> PhaseOf(h)], server <- hobj, Thread <- Worker,
                stopping <- shutdown, up <- (child = "running"), BeginsWhileStopping <- TRUE

(* The lazy bridge keeps the promise of RequestService, except that a        *)
(* request accepted before the child began to stop is still processed.       *)
ServiceSpec == Service!Spec
=============================================================================
