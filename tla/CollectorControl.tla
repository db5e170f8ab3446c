-------------------------- MODULE CollectorControl --------------------------
(***************************************************************************)
(* What CollectorStart and CollectorStop of BoardStats/Collector.c promise  *)
(* their callers, without queue, epochs, hooks or display. Session is built *)
(* from these actions; Collector implements them.                          *)
(***************************************************************************)
CONSTANTS Threads, NoOne

VARIABLES
    owner,      \* g_ApiLock of Collector.c
    worker,     \* "none", "on", "stopping" (its stop event is set), "exited"
    failed      \* g_lState is 5: the hooks could not be set or removed

controlVars == <<owner, worker, failed>>

Init == owner = NoOne /\ worker = "none" /\ failed = FALSE

-----------------------------------------------------------------------------
(* CollectorStart on thread t; ERROR_BUSY when the lock is taken.           *)

StartBegin(t) == owner = NoOne /\ owner' = t /\ UNCHANGED <<worker, failed>>

StartRefused(t) ==
    /\ owner = t /\ (failed \/ worker \in {"on", "stopping"})
    /\ owner' = NoOne
    /\ UNCHANGED <<worker, failed>>

\* The handles of the last session are closed.
StartClaim(t) ==
    /\ owner = t /\ ~failed /\ worker \in {"none", "exited"}
    /\ worker' = "none"
    /\ UNCHANGED <<owner, failed>>

StartLaunch(t) ==
    /\ owner = t /\ ~failed /\ worker = "none"
    /\ worker' = "on"
    /\ UNCHANGED <<owner, failed>>

StartOk(t) ==
    /\ owner = t /\ worker \in {"on", "stopping"}
    /\ owner' = NoOne
    /\ UNCHANGED <<worker, failed>>

\* A failure that touched the hooks is final.
StartFailed(t) ==
    /\ owner = t /\ worker = "none" /\ ~failed
    /\ owner' = NoOne
    /\ failed' \in BOOLEAN
    /\ UNCHANGED worker

-----------------------------------------------------------------------------
(* CollectorStop on thread t; ERROR_BUSY and ERROR_NOT_READY change nothing. *)

StopSignal(t) ==
    /\ owner = NoOne /\ worker # "none"
    /\ owner' = t
    /\ worker' = IF worker = "on" THEN "stopping" ELSE worker
    /\ UNCHANGED failed

StopDone(t) ==
    /\ owner = t /\ worker = "exited"
    /\ owner' = NoOne
    /\ UNCHANGED <<worker, failed>>

StopTimeout(t) ==
    /\ owner = t /\ worker = "stopping"
    /\ owner' = NoOne
    /\ UNCHANGED <<worker, failed>>

-----------------------------------------------------------------------------
(* The worker thread ends only after its stop event.                       *)

WorkerFails == worker = "stopping" /\ failed' = TRUE /\ UNCHANGED <<owner, worker>>

WorkerEnds == worker = "stopping" /\ worker' = "exited" /\ UNCHANGED <<owner, failed>>

Next ==
    \/ \E t \in Threads :
          \/ StartBegin(t) \/ StartRefused(t) \/ StartClaim(t) \/ StartLaunch(t)
          \/ StartOk(t) \/ StartFailed(t)
          \/ StopSignal(t) \/ StopDone(t) \/ StopTimeout(t)
    \/ WorkerFails \/ WorkerEnds

Spec == Init /\ [][Next]_controlVars
=============================================================================
