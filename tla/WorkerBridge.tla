---------------------------- MODULE WorkerBridge ----------------------------
(* The worker bridge of mod_rivet (src/mod_rivet_ng/rivet_worker_mpm.c): one *)
(* child process of the web server in which                                  *)
(*   - a supervisor thread starts a pool of Tcl worker threads and replaces  *)
(*     the ones that terminate,                                              *)
(*   - framework threads (handlers) take an idle worker from a bounded queue,*)
(*     hand a request over through the worker's handler_private record and   *)
(*     sleep on its condition variable until the request is done,            *)
(*   - WorkerBridge_Finalize, called at process shutdown or by the `exit`    *)
(*     command, stops the pool and joins the supervisor.                     *)
(*                                                                           *)
(* A step is what a thread does between two points where another thread can  *)
(* interfere: a lock taken, a condition wait, a queue operation, an atomic   *)
(* counter.  Who holds a mutex is read off the program counters: only worker *)
(* t keeps thread_obj->mutex across steps (everybody else locks, writes,     *)
(* signals and unlocks or waits in one), and only a worker being initialised *)
(* or the draining supervisor keeps job_mutex.                               *)
EXTENDS Integers, Sequences, FiniteSets

CONSTANTS
    Handler,          \* framework threads; each has at most one open request
    Thread,           \* identities of Tcl worker threads and their records
    Main,             \* the thread that runs the child's pool cleanups
    None,             \* the null pointer
    MaxThreads,       \* AP_MPMQ_MAX_THREADS: slots in mpm->workers
    QueueSize,        \* MOD_RIVET_QUEUE_SIZE
    MaxWaits,         \* waits = 5 in WorkerBridge_Shutdown
    SingleThreadExit, \* module_globals->single_thread_exit
    GracefulStop,     \* the MPM joins its handlers before the cleanups run
    CreateMayFail     \* apr_thread_create may report an error

ASSUME ConstantsAssumption ==
    /\ MaxThreads \in Nat \ {0}
    /\ QueueSize \in Nat \ {0}
    /\ MaxWaits \in Nat \ {0}
    /\ {SingleThreadExit, GracefulStop, CreateMayFail} \subseteq BOOLEAN

ASSUME IdentitiesAssumption ==
    /\ None \notin Handler \cup Thread \cup {Main}
    /\ Main \notin Handler \cup Thread
    /\ Handler \cap Thread = {}
    /\ "ok" \notin Handler /\ "refused" \notin Handler
    /\ None \notin {"ok", "refused"}

Slot   == 1..MaxThreads
Caller == Thread \cup {Main}     \* who may run WorkerBridge_Finalize

VARIABLES
    \* mpm_bridge_status
    shutdown,    \* server_shutdown
    skip,        \* skip_thread_on_exit
    queue,       \* the APR queue of idle workers
    exiting,     \* array of threads that announced their exit
    workers,     \* slot -> thread
    threadsCount, runningCount,
    \* the handler_private record of each worker thread
    status, req, code, waiters,
    \* program counters and locals
    wpc, keepGoing,
    hpc, hobj, answer,
    spc, si,
    fpc, fwaits, fstop, fskip, fobj,
    alive        \* the child process exists

mpmVars  == <<shutdown, skip, queue, exiting, workers, threadsCount, runningCount>>
objVars  == <<status, req, code, waiters>>
wrkVars  == <<wpc, keepGoing>>
hndVars  == <<hpc, hobj, answer>>
supVars  == <<spc, si>>
finVars  == <<fpc, fwaits, fstop, fskip, fobj>>
vars == <<mpmVars, objVars, wrkVars, hndVars, supVars, finVars, alive>>

Status   == {"init", "idle", "request_processing", "done"}
WorkerPc == {"none", "start", "init", "count", "push", "test", "waitInit",
             "serve", "exit", "waitIdle", "leave", "notify", "decr", "gone"}
-----------------------------------------------------------------------------
(* Worker t sits in its loop with thread_obj->mutex locked.                  *)
Holds(t) == wpc[t] \in {"push", "test", "serve", "exit", "leave"}

JobMutexFree == spc # "drain" /\ \A t \in Thread : wpc[t] # "init"

(* apr_thread_cond_signal wakes one sleeper, whichever.                      *)
Signalled_Lost(W) == {W}                          \* mutant: no signal is sent
Signalled(W) == IF W = {} THEN {{}} ELSE {W \ {x} : x \in W}

(* job_cond has one possible sleeper, the supervisor.                        *)
SignalJob_Lost == UNCHANGED spc                   \* mutant: no signal is sent
SignalJob == spc' = IF spc = "wait" THEN "check" ELSE spc

(* A thread identity is recycled only when nothing refers to it any more;    *)
(* the program allocates a fresh record instead.                             *)
Reusable(t) == /\ wpc[t] \in {"none", "gone"}
               /\ \A i \in Slot : workers[i] # t
               /\ \A i \in 1..Len(exiting) : exiting[i] # t
               /\ \A h \in Handler : hobj[h] # t
               /\ \A c \in Caller : fobj[c] # t

TypeOK ==
    /\ shutdown \in BOOLEAN /\ skip \in 0..1 /\ alive \in BOOLEAN
    /\ queue \in Seq(Thread) /\ exiting \in Seq(Thread)
    /\ workers \in [Slot -> Thread \cup {None}]
    /\ threadsCount \in Int /\ runningCount \in Int
    /\ status \in [Thread -> Status]
    /\ req \in [Thread -> Handler \cup {None}]
    /\ code \in [Thread -> Handler \cup {"ok"}]
    /\ waiters \in [Thread -> SUBSET (Thread \cup Handler)]
    /\ wpc \in [Thread -> WorkerPc] /\ keepGoing \in [Thread -> BOOLEAN]
    /\ hpc \in [Handler -> {"idle", "pop", "attach", "wait"}]
    /\ hobj \in [Handler -> Thread \cup {None}]
    /\ answer \in [Handler -> Handler \cup {None, "ok", "refused"}]
    /\ spc \in {"create", "check", "wait", "drain", "end"}
    /\ si \in 1..(MaxThreads + 1)
    /\ fpc \in [Caller -> {"none", "shut", "loop", "wake", "count", "join"}]
    /\ fwaits \in [Caller -> Int] /\ fstop \in [Caller -> Int]
    /\ fskip \in [Caller -> 0..1]
    /\ fobj \in [Caller -> Thread \cup {None}]

(* WorkerBridge_ChildInit: the status block is zeroed, the queue and the     *)
(* exiting array are empty, and the supervisor has just been created.        *)
Init ==
    /\ shutdown = FALSE /\ skip = 0 /\ alive = TRUE
    /\ queue = <<>> /\ exiting = <<>>
    /\ workers = [i \in Slot |-> None]
    /\ threadsCount = 0 /\ runningCount = 0
    /\ status = [t \in Thread |-> "idle"]
    /\ req = [t \in Thread |-> None]
    /\ code = [t \in Thread |-> "ok"]
    /\ waiters = [t \in Thread |-> {}]
    /\ wpc = [t \in Thread |-> "none"] /\ keepGoing = [t \in Thread |-> TRUE]
    /\ hpc = [h \in Handler |-> "idle"] /\ hobj = [h \in Handler |-> None]
    /\ answer = [h \in Handler |-> None]
    /\ spc = "create" /\ si = 1
    /\ fpc = [c \in Caller |-> "none"] /\ fwaits = [c \in Caller |-> 0]
    /\ fstop = [c \in Caller |-> 0] /\ fskip = [c \in Caller |-> 0]
    /\ fobj = [c \in Caller |-> None]
-----------------------------------------------------------------------------
(* The supervisor: threaded_bridge_supervisor.                               *)

StartThread(t, i) ==
    /\ Reusable(t)
    /\ workers' = [workers EXCEPT ![i] = t]
    /\ wpc' = [wpc EXCEPT ![t] = "start"]

(* The loop of start_thread_pool ends after slot i.                          *)
PoolStarted_LE(i) == i > MaxThreads               \* mutant: i <= nthreads
PoolStarted(i) == i = MaxThreads

(* start_thread_pool: one thread for each slot, then the supervising loop.   *)
SupCreate ==
    /\ spc = "create"
    /\ \E t \in Thread : StartThread(t, si)
    /\ si' = si + 1
    /\ spc' = IF PoolStarted(si) THEN "check" ELSE "create"
    /\ UNCHANGED <<shutdown, skip, queue, exiting, threadsCount, runningCount,
                   objVars, keepGoing, hndVars, finVars, alive>>

(* Top of the loop under job_mutex: leave, sleep on job_cond, or drain.      *)
SupCheck ==
    /\ spc = "check" /\ JobMutexFree
    /\ spc' = IF shutdown THEN "end" ELSE IF exiting = <<>> THEN "wait" ELSE "drain"
    /\ UNCHANGED <<mpmVars, objVars, wrkVars, hndVars, si, finVars, alive>>

(* The APR array as a stack.                                                 *)
ArrayPop(s) == SubSeq(s, 1, Len(s) - 1)

(* One announced exit is popped (apr_array_pop takes the last) and the       *)
(* thread's slot gets a new thread; job_mutex stays locked between two pops. *)
SupRestart ==
    /\ spc = "drain" /\ exiting # <<>>
    /\ exiting' = ArrayPop(exiting)
    /\ LET p == exiting[Len(exiting)] IN
       \/ \E i \in Slot, t \in Thread : workers[i] = p /\ StartThread(t, i)
       \/ (\A i \in Slot : workers[i] # p) /\ UNCHANGED <<workers, wpc>>
    /\ UNCHANGED <<shutdown, skip, queue, threadsCount, runningCount,
                   objVars, keepGoing, hndVars, supVars, finVars, alive>>

SupDrained ==
    /\ spc = "drain" /\ exiting = <<>>
    /\ spc' = "check"
    /\ UNCHANGED <<mpmVars, objVars, wrkVars, hndVars, si, finVars, alive>>

(* create_worker_thread fails: exit(1), both at start and at restart.        *)
SupCreateFails ==
    /\ CreateMayFail
    /\ \/ spc = "create"
       \/ spc = "drain" /\ exiting # <<>>
                        /\ \E i \in Slot : workers[i] = exiting[Len(exiting)]
    /\ alive' = FALSE
    /\ UNCHANGED <<mpmVars, objVars, wrkVars, hndVars, supVars, finVars>>

Supervisor == SupCreate \/ SupCheck \/ SupRestart \/ SupDrained
-----------------------------------------------------------------------------
(* A Tcl worker thread: request_processor.                                   *)

WorkerStart(t) ==
    /\ wpc[t] = "start" /\ JobMutexFree
    /\ wpc' = [wpc EXCEPT ![t] = "init"]
    /\ UNCHANGED <<mpmVars, objVars, keepGoing, hndVars, supVars, finVars, alive>>

(* Interpreters are built and the child init scripts run under job_mutex;    *)
(* the handler_private record is allocated and job_mutex is released.        *)
WorkerInit(t) ==
    /\ wpc[t] = "init"
    /\ wpc' = [wpc EXCEPT ![t] = "count"]
    /\ keepGoing' = [keepGoing EXCEPT ![t] = TRUE]
    /\ status' = [status EXCEPT ![t] = "idle"]
    /\ req' = [req EXCEPT ![t] = None]
    /\ code' = [code EXCEPT ![t] = "ok"]
    /\ waiters' = [waiters EXCEPT ![t] = {}]
    /\ UNCHANGED <<mpmVars, hndVars, supVars, finVars, alive>>

WorkerCount(t) ==
    /\ wpc[t] = "count"
    /\ threadsCount' = threadsCount + 1
    /\ wpc' = [wpc EXCEPT ![t] = "push"]
    /\ UNCHANGED <<shutdown, skip, queue, exiting, workers, runningCount,
                   objVars, keepGoing, hndVars, supVars, finVars, alive>>

(* apr_queue_push blocks while the queue is full; it never fails because     *)
(* nobody interrupts or terminates the queue.                                *)
WorkerPush(t) ==
    /\ wpc[t] = "push" /\ Len(queue) < QueueSize
    /\ queue' = Append(queue, t)
    /\ wpc' = [wpc EXCEPT ![t] = "test"]
    /\ UNCHANGED <<shutdown, skip, exiting, workers, threadsCount, runningCount,
                   objVars, keepGoing, hndVars, supVars, finVars, alive>>

(* Where while (status != init) tests: just queued, or woken up.             *)
AtTop(t) == wpc[t] = "test" \/ (wpc[t] = "waitInit" /\ t \notin waiters[t])

\* mutant: the worker queues itself whenever it is about to sleep
WorkerSleep_Requeue(t) ==
    /\ AtTop(t) /\ status[t] # "init"
    /\ wpc' = [wpc EXCEPT ![t] = "push"]
    /\ UNCHANGED <<mpmVars, objVars, keepGoing, hndVars, supVars, finVars, alive>>
WorkerSleep(t) ==
    /\ AtTop(t) /\ status[t] # "init"
    /\ waiters' = [waiters EXCEPT ![t] = @ \cup {t}]
    /\ wpc' = [wpc EXCEPT ![t] = "waitInit"]
    /\ UNCHANGED <<mpmVars, status, req, code, keepGoing, hndVars, supVars, finVars, alive>>

(* Woken up in a child that is shutting down: the loop is over, even if what *)
(* was posted is a request.                                                  *)
WorkerQuit(t) ==
    /\ AtTop(t) /\ status[t] = "init" /\ shutdown
    /\ keepGoing' = [keepGoing EXCEPT ![t] = FALSE]
    /\ wpc' = [wpc EXCEPT ![t] = "leave"]
    /\ UNCHANGED <<mpmVars, objVars, hndVars, supVars, finVars, alive>>

\* mutant: server_shutdown is not tested
WorkerBegin_NoShutdownTest(t) ==
    /\ AtTop(t) /\ status[t] = "init"
    /\ status' = [status EXCEPT ![t] = "request_processing"]
    /\ wpc' = [wpc EXCEPT ![t] = "serve"]
    /\ UNCHANGED <<mpmVars, req, code, waiters, keepGoing, hndVars, supVars, finVars, alive>>
WorkerBegin(t) ==
    /\ AtTop(t) /\ status[t] = "init" /\ ~shutdown
    /\ status' = [status EXCEPT ![t] = "request_processing"]
    /\ runningCount' = runningCount + 1
    /\ wpc' = [wpc EXCEPT ![t] = "serve"]
    /\ UNCHANGED <<shutdown, skip, queue, exiting, workers, threadsCount,
                   req, code, waiters, keepGoing, hndVars, supVars, finVars, alive>>

(* Rivet_SendContent returned: its result is published, the handler is       *)
(* signalled and the worker sleeps until the handler has taken the result.   *)
WorkerReply(t) ==
    /\ wpc[t] = "serve"
    /\ code' = [code EXCEPT ![t] = req[t]]
    /\ status' = [status EXCEPT ![t] = "done"]
    /\ \E W \in Signalled(waiters[t]) :
          waiters' = [waiters EXCEPT ![t] = W \cup {t}]
    /\ wpc' = [wpc EXCEPT ![t] = "waitIdle"]
    /\ UNCHANGED <<mpmVars, req, keepGoing, hndVars, supVars, finVars, alive>>

(* The request's script runs `exit`: WorkerBridge_ExitHandler marks this     *)
(* thread to leave its loop.                                                 *)
WorkerExitThread(t) ==
    /\ wpc[t] = "serve" /\ keepGoing[t] /\ SingleThreadExit
    /\ keepGoing' = [keepGoing EXCEPT ![t] = FALSE]
    /\ UNCHANGED <<mpmVars, objVars, wpc, hndVars, supVars, finVars, alive>>

(* Without SingleThreadExit it also finalises the whole pool from inside the *)
(* request, thread_obj->mutex still locked.                                  *)
WorkerExitAll(t) ==
    /\ wpc[t] = "serve" /\ keepGoing[t] /\ ~SingleThreadExit
    /\ keepGoing' = [keepGoing EXCEPT ![t] = FALSE]
    /\ skip' = 1
    /\ wpc' = [wpc EXCEPT ![t] = "exit"]
    /\ fpc' = [fpc EXCEPT ![t] = "shut"]
    /\ fskip' = [fskip EXCEPT ![t] = 1]
    /\ UNCHANGED <<shutdown, queue, exiting, workers, threadsCount, runningCount,
                   objVars, hndVars, supVars, fwaits, fstop, fobj, alive>>

(* while (status != idle) cond_wait: back to sleep unless the handler has    *)
(* taken the result.                                                         *)
Replied(t) == wpc[t] = "waitIdle" /\ t \notin waiters[t]

WorkerResleep(t) ==
    /\ Replied(t) /\ status[t] # "idle"
    /\ waiters' = [waiters EXCEPT ![t] = @ \cup {t}]
    /\ UNCHANGED <<mpmVars, status, req, code, wrkVars, hndVars, supVars, finVars, alive>>

(* The worker queues itself again unless its loop is over.                   *)
LoopAgain(t) == keepGoing[t]

WorkerRelease(t) ==
    /\ Replied(t) /\ status[t] = "idle"
    /\ runningCount' = runningCount - 1
    /\ wpc' = [wpc EXCEPT ![t] = IF LoopAgain(t) THEN "push" ELSE "leave"]
    /\ UNCHANGED <<shutdown, skip, queue, exiting, workers, threadsCount,
                   objVars, keepGoing, hndVars, supVars, finVars, alive>>

(* The child exit scripts have run; the record's mutex is unlocked and the   *)
(* interpreters are deleted (Rivet_ProcessorCleanup).                        *)
WorkerLeave(t) ==
    /\ wpc[t] = "leave"
    /\ wpc' = [wpc EXCEPT ![t] = "notify"]
    /\ UNCHANGED <<mpmVars, objVars, keepGoing, hndVars, supVars, finVars, alive>>

WorkerNotify(t) ==
    /\ wpc[t] = "notify" /\ JobMutexFree
    /\ exiting' = Append(exiting, t)
    /\ SignalJob
    /\ wpc' = [wpc EXCEPT ![t] = "decr"]
    /\ UNCHANGED <<shutdown, skip, queue, workers, threadsCount, runningCount,
                   objVars, keepGoing, hndVars, si, finVars, alive>>

WorkerGone(t) ==
    /\ wpc[t] = "decr"
    /\ threadsCount' = threadsCount - 1
    /\ wpc' = [wpc EXCEPT ![t] = "gone"]
    /\ UNCHANGED <<shutdown, skip, queue, exiting, workers, runningCount,
                   objVars, keepGoing, hndVars, supVars, finVars, alive>>

(* Everything worker t does on its own; the content script may end by itself *)
(* or by `exit`.                                                             *)
WorkerStep(t) ==
    \/ WorkerStart(t) \/ WorkerInit(t) \/ WorkerCount(t) \/ WorkerPush(t)
    \/ WorkerSleep(t) \/ WorkerQuit(t) \/ WorkerBegin(t) \/ WorkerReply(t)
    \/ WorkerResleep(t) \/ WorkerRelease(t) \/ WorkerLeave(t) \/ WorkerNotify(t) \/ WorkerGone(t)
-----------------------------------------------------------------------------
(* A framework thread: WorkerBridge_Request.                                 *)

(* A request arrives while the MPM still accepts them.  It is refused once   *)
(* server_shutdown is seen, otherwise the handler goes for a worker; the     *)
(* flag may change right after the test.                                     *)
Arrives(h) == hpc[h] = "idle" /\ (GracefulStop => fpc[Main] = "none")

HandlerRefuse(h) ==
    /\ Arrives(h) /\ shutdown
    /\ answer' = [answer EXCEPT ![h] = "refused"]
    /\ UNCHANGED <<mpmVars, objVars, wrkVars, hpc, hobj, supVars, finVars, alive>>

HandlerAccept(h) ==
    /\ Arrives(h) /\ ~shutdown
    /\ hpc' = [hpc EXCEPT ![h] = "pop"]
    /\ answer' = [answer EXCEPT ![h] = None]
    /\ UNCHANGED <<mpmVars, objVars, wrkVars, hobj, supVars, finVars, alive>>

HandlerPop(h) ==
    /\ hpc[h] = "pop" /\ queue # <<>>
    /\ hobj' = [hobj EXCEPT ![h] = Head(queue)]
    /\ queue' = Tail(queue)
    /\ hpc' = [hpc EXCEPT ![h] = "attach"]
    /\ UNCHANGED <<shutdown, skip, exiting, workers, threadsCount, runningCount,
                   objVars, wrkVars, answer, supVars, finVars, alive>>

(* The request is posted under the record's mutex, the worker is signalled   *)
(* and the handler goes to sleep on the same condition variable.             *)
HandlerAttach(h) ==
    LET t == hobj[h] IN
    /\ hpc[h] = "attach" /\ ~Holds(t)
    /\ req' = [req EXCEPT ![t] = h]
    /\ status' = [status EXCEPT ![t] = "init"]
    /\ code' = [code EXCEPT ![t] = "ok"]
    /\ \E W \in Signalled(waiters[t]) :
          waiters' = [waiters EXCEPT ![t] = W \cup {h}]
    /\ hpc' = [hpc EXCEPT ![h] = "wait"]
    /\ UNCHANGED <<mpmVars, wrkVars, hobj, answer, supVars, finVars, alive>>

(* while (status != done) cond_wait: back to sleep unless the worker is done.*)
Woken(h) == hpc[h] = "wait" /\ ~Holds(hobj[h]) /\ h \notin waiters[hobj[h]]

Completed_Spurious(h) == TRUE                     \* mutant: if instead of while
Completed(h) == status[hobj[h]] = "done"

HandlerResleep(h) ==
    /\ Woken(h) /\ ~Completed(h)
    /\ waiters' = [waiters EXCEPT ![hobj[h]] = @ \cup {h}]
    /\ UNCHANGED <<mpmVars, status, req, code, wrkVars, hndVars, supVars, finVars, alive>>

(* The handler takes the result, releases the worker and returns.            *)
HandlerReturn(h) ==
    LET t == hobj[h] IN
    /\ Woken(h) /\ Completed(h)
    /\ answer' = [answer EXCEPT ![h] = code[t]]
    /\ status' = [status EXCEPT ![t] = "idle"]
    /\ \E W \in Signalled(waiters[t]) : waiters' = [waiters EXCEPT ![t] = W]
    /\ hpc' = [hpc EXCEPT ![h] = "idle"]
    /\ hobj' = [hobj EXCEPT ![h] = None]
    /\ UNCHANGED <<mpmVars, req, code, wrkVars, supVars, finVars, alive>>

(* apr_thread_cond_wait may return although nobody signalled.                *)
SpuriousWakeup(t) ==
    /\ \E x \in waiters[t] : waiters' = [waiters EXCEPT ![t] = @ \ {x}]
    /\ UNCHANGED <<mpmVars, status, req, code, wrkVars, hndVars, supVars, finVars, alive>>
-----------------------------------------------------------------------------
(* Stopping the child: WorkerBridge_Finalize and WorkerBridge_Shutdown, run  *)
(* by the process cleanup (Main) or by a worker inside `exit`.               *)

(* The loop condition of WorkerBridge_Shutdown.                              *)
KeepStopping(w, stop, not_to_be_waited) == w > 0 /\ stop > not_to_be_waited

MainFinalize ==
    /\ fpc[Main] = "none"
    /\ GracefulStop => \A h \in Handler : hpc[h] = "idle"
    /\ fpc' = [fpc EXCEPT ![Main] = "shut"]
    /\ fskip' = [fskip EXCEPT ![Main] = skip]
    /\ UNCHANGED <<mpmVars, objVars, wrkVars, hndVars, supVars,
                   fwaits, fstop, fobj, alive>>

ShutdownSet(c) ==
    /\ fpc[c] = "shut" /\ JobMutexFree
    /\ shutdown' = TRUE
    /\ SignalJob
    /\ fwaits' = [fwaits EXCEPT ![c] = MaxWaits]
    /\ fstop' = [fstop EXCEPT ![c] = 0]
    /\ fpc' = [fpc EXCEPT ![c] = "loop"]
    /\ UNCHANGED <<skip, queue, exiting, workers, threadsCount, runningCount,
                   objVars, wrkVars, hndVars, si, fskip, fobj, alive>>

(* apr_queue_trypop finds no idle worker: one of the 200 ms waits is spent   *)
(* and `continue` evaluates the loop condition.                              *)
ShutdownEmpty(c) ==
    /\ fpc[c] = "loop" /\ queue = <<>>
    /\ fwaits' = [fwaits EXCEPT ![c] = @ - 1]
    /\ fpc' = [fpc EXCEPT ![c] = IF KeepStopping(fwaits[c] - 1, fstop[c], fskip[c])
                                 THEN "loop" ELSE "join"]
    /\ UNCHANGED <<mpmVars, objVars, wrkVars, hndVars, supVars,
                   fstop, fskip, fobj, alive>>

ShutdownPop(c) ==
    /\ fpc[c] = "loop" /\ queue # <<>>
    /\ fobj' = [fobj EXCEPT ![c] = Head(queue)]
    /\ queue' = Tail(queue)
    /\ fpc' = [fpc EXCEPT ![c] = "wake"]
    /\ UNCHANGED <<shutdown, skip, exiting, workers, threadsCount, runningCount,
                   objVars, wrkVars, hndVars, supVars, fwaits, fstop, fskip, alive>>

ShutdownWake(c) ==
    LET t == fobj[c] IN
    /\ fpc[c] = "wake" /\ ~Holds(t)
    /\ status' = [status EXCEPT ![t] = "init"]
    /\ \E W \in Signalled(waiters[t]) : waiters' = [waiters EXCEPT ![t] = W]
    /\ fobj' = [fobj EXCEPT ![c] = None]
    /\ fpc' = [fpc EXCEPT ![c] = "count"]
    /\ UNCHANGED <<mpmVars, req, code, wrkVars, hndVars, supVars,
                   fwaits, fstop, fskip, alive>>

ShutdownCount(c) ==
    /\ fpc[c] = "count"
    /\ fstop' = [fstop EXCEPT ![c] = threadsCount]
    /\ fpc' = [fpc EXCEPT ![c] = IF KeepStopping(fwaits[c], threadsCount, fskip[c])
                                 THEN "loop" ELSE "join"]
    /\ UNCHANGED <<mpmVars, objVars, wrkVars, hndVars, supVars,
                   fwaits, fskip, fobj, alive>>

(* The supervisor is joined; then the process ends, by exit() in the worker  *)
(* or by the end of the pool cleanups in Main.                               *)
FinalizeJoin(c) ==
    /\ fpc[c] = "join" /\ spc = "end"
    /\ alive' = FALSE
    /\ UNCHANGED <<mpmVars, objVars, wrkVars, hndVars, supVars, finVars>>

FinalizeStep(c) ==
    \/ ShutdownSet(c) \/ ShutdownEmpty(c) \/ ShutdownPop(c)
    \/ ShutdownWake(c) \/ ShutdownCount(c) \/ FinalizeJoin(c)

HandlerStep(h) == \/ HandlerPop(h) \/ HandlerAttach(h)
                  \/ HandlerResleep(h) \/ HandlerReturn(h)

Terminated == ~alive /\ UNCHANGED vars

Next ==
    \/ /\ alive
       /\ \/ Supervisor \/ SupCreateFails \/ MainFinalize
          \/ \E t \in Thread : \/ WorkerStep(t) \/ SpuriousWakeup(t)
                              \/ WorkerExitThread(t) \/ WorkerExitAll(t)
          \/ \E h \in Handler : HandlerRefuse(h) \/ HandlerAccept(h) \/ HandlerStep(h)
          \/ \E c \in Caller : FinalizeStep(c)
    \/ Terminated

Spec == Init /\ [][Next]_vars

(* Every thread that can run eventually runs, every content script ends and  *)
(* a mutex that stays free is obtained.  Nothing obliges requests to come,   *)
(* scripts to call `exit`, the server to stop or waits to end spuriously.    *)
Fairness ==
    /\ WF_vars(alive /\ Supervisor)
    /\ \A t \in Thread : WF_vars(alive /\ WorkerStep(t))
    /\ \A h \in Handler : WF_vars(alive /\ HandlerStep(h))
    /\ \A c \in Caller : WF_vars(alive /\ FinalizeStep(c))

FairSpec == Spec /\ Fairness
-----------------------------------------------------------------------------
(* Safety.                                                                   *)

(* A worker record is in the queue at most once, and nobody else holds a     *)
(* worker that is queued: neither a handler with an open request nor a       *)
(* finaliser about to stop it; two of those never share one.  Sharing would  *)
(* let two requests write the same handler_private record.                   *)
ExclusiveOwner ==
    /\ \A i, j \in 1..Len(queue) : queue[i] = queue[j] => i = j
    /\ \A i \in 1..Len(queue) :
          /\ \A h \in Handler : hobj[h] # queue[i]
          /\ \A c \in Caller : fobj[c] # queue[i]
    /\ \A h1, h2 \in Handler : hobj[h1] = hobj[h2] /\ hobj[h1] # None => h1 = h2
    /\ \A c1, c2 \in Caller : fobj[c1] = fobj[c2] /\ fobj[c1] # None => c1 = c2
    /\ \A h \in Handler, c \in Caller : hobj[h] = fobj[c] => hobj[h] = None

(* A queued worker is idle and will take what is posted to it: it is about   *)
(* to sleep, asleep or waking up at the top of its loop, never on its way    *)
(* out.  A handler that popped a leaving thread would wait for ever.         *)
QueuedWorkersServe ==
    \A i \in 1..Len(queue) : /\ wpc[queue[i]] \in {"test", "waitInit"}
                             /\ status[queue[i]] = "idle"
                             /\ keepGoing[queue[i]]

(* While a request is processed or its result waits to be taken, the         *)
(* worker's record names the handler that is waiting for it, and only that   *)
(* handler: no result is published to nobody or to the wrong thread.         *)
ServesItsHandler ==
    \A t \in Thread : status[t] \in {"request_processing", "done"} =>
        \E h \in Handler : req[t] = h /\ hpc[h] = "wait" /\ hobj[h] = t

(* What WorkerBridge_Request returns is the code produced for its own        *)
(* request: never another request's and never the OK it stored itself.       *)
AnswerIsOwn == \A h \in Handler : answer[h] \in {None, "refused", h}

-----------------------------------------------------------------------------
(* Liveness, under FairSpec.                                                 *)

(* A request posted to a worker is answered, unless the process ends.  With  *)
(* SingleThreadExit a thread that runs `exit` still answers first.           *)
PostedIsAnswered ==
    \A h \in Handler : hpc[h] = "attach" ~> (hpc[h] = "idle" \/ ~alive)

(* As long as the server is not stopping, waiting requests do not wait for a *)
(* pool that has bled dry: again and again one of them gets a worker.        *)
PoolKeepsServing ==
    (\E h \in Handler : hpc[h] = "pop")
        ~> (shutdown \/ ~alive \/ \E h \in Handler : hpc[h] = "attach")

(* A shutdown ends: no cycle of mutexes, queue and join keeps it from        *)
(* finishing, whatever requests are still open.                              *)
ShutdownEnds == shutdown ~> ~alive
-----------------------------------------------------------------------------
(* Refinement: the request of handler h as the abstract service sees it.     *)
PhaseOf(h) ==
    CASE hpc[h] = "idle"   -> "none"
      [] hpc[h] = "pop"    -> "asked"
      [] hpc[h] = "attach" -> "given"
      [] OTHER -> CASE status[hobj[h]] = "request_processing" -> "running"
                    [] status[hobj[h]] = "done" -> "answered"
                    [] OTHER -> "given"

Service == INSTANCE RequestService
           WITH phase <- [h \in Handler |-> PhaseOf(h)], server <- hobj,
                stopping <- shutdown, up <- alive, BeginsWhileStopping <- FALSE

(* The bridge keeps the promise of RequestService: one request, one thread,  *)
(* one answer, and nothing new once the child is stopping.                   *)
ServiceSpec == Service!Spec
=============================================================================
