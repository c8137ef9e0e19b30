--------------------------- MODULE RequestService ---------------------------
(* What a threaded bridge of mod_rivet promises the web server, whatever     *)
(* queues, mutexes and condition variables it uses: each request is given to *)
(* one Tcl thread that has no other, that thread generates its content once, *)
(* and only then does the framework thread return.  From the moment the      *)
(* child process is stopping no request is accepted; whether one that was    *)
(* accepted before is still processed depends on the bridge.                 *)
CONSTANTS Handler,  \* framework threads, each with at most one open request
          Thread,   \* Tcl threads
          None,
          BeginsWhileStopping  \* an accepted request is processed even then

VARIABLES phase,    \* where each handler's request is
          server,   \* the Tcl thread it has been given to
          stopping, \* the child process is shutting down
          up        \* the child process exists

vars == <<phase, server, stopping, up>>

Phase == {"none", "asked", "given", "running", "answered"}

TypeOK == /\ phase \in [Handler -> Phase]
          /\ server \in [Handler -> Thread \cup {None}]
          /\ stopping \in BOOLEAN /\ up \in BOOLEAN

Init == /\ phase = [h \in Handler |-> "none"]
        /\ server = [h \in Handler |-> None]
        /\ stopping = FALSE /\ up = TRUE

Advance(h, from, to) == /\ phase[h] = from
                        /\ phase' = [phase EXCEPT ![h] = to]

(* A request is accepted; a refused one leaves no trace.                     *)
Ask(h) == /\ ~stopping /\ Advance(h, "none", "asked")
          /\ UNCHANGED <<server, stopping, up>>

(* It is given to a thread that serves nobody else, later or at once.        *)
Give(h, t) == /\ \A other \in Handler : server[other] # t
              /\ Advance(h, "asked", "given") \/ (~stopping /\ Advance(h, "none", "given"))
              /\ server' = [server EXCEPT ![h] = t]
              /\ UNCHANGED <<stopping, up>>

Begin(h) == /\ (stopping => BeginsWhileStopping)
            /\ Advance(h, "given", "running")
            /\ UNCHANGED <<server, stopping, up>>

Finish(h) == /\ Advance(h, "running", "answered")
             /\ UNCHANGED <<server, stopping, up>>

Return(h) == /\ Advance(h, "answered", "none")
             /\ server' = [server EXCEPT ![h] = None]
             /\ UNCHANGED <<stopping, up>>

Stop == stopping' = TRUE /\ UNCHANGED <<phase, server, up>>

(* The process ends, requests and all.                                       *)
End == up' = FALSE /\ UNCHANGED <<phase, server, stopping>>

Next == /\ up
        /\ \/ Stop \/ End
           \/ \E h \in Handler : \/ Ask(h) \/ Begin(h) \/ Finish(h) \/ Return(h)
                                 \/ \E t \in Thread : Give(h, t)

Spec == Init /\ [][Next]_vars
=============================================================================
