----------------------------- MODULE TaskWorker -----------------------------
(***************************************************************************)
(* One task worker executing one ordinary claimed task: the worker's own   *)
(* coroutine, the heartbeat that renews the lease, the handler, and the    *)
(* task row, which others also act on.  Every renewal gives the row a new  *)
(* lease, and a call that presents an older one is refused, so renewals,   *)
(* the outcome and the cancellation fence all race for the lease.          *)
(*                                                                         *)
(* The task has no session, no handoff and no retry policy.  A lease is a  *)
(* number; time is what it decides: the worker's deadline for the lease it *)
(* knows (two thirds of it) has passed, the lease in the row has expired.  *)
(***************************************************************************)
EXTENDS Naturals

CONSTANTS
    MaxLease,     \* bound: renewals
    MaxFaults     \* bound: missed deadlines, lost answers, cancellations, crashes

ASSUME WorkerConstants ==
    /\ MaxLease \in Nat
    /\ MaxFaults \in Nat

VARIABLES
    row,      \* the task row; restartable: it may be requeued when its worker shuts down;
              \* keyed: it has a concurrency_key
    main,     \* where the worker's coroutine is
    auth,     \* lease_authority.lease_expires_at
    overdue,  \* lease_authority.deadline_monotonic has passed
    fenced,   \* the settlement under way may fall back on reconciliation
    seen,     \* the lease of the row that was loaded
    hb,       \* the heartbeat coroutine
    call,     \* its renewal under way
    late,     \* leases presented by renewals nobody waits for any more
    lost,     \* an answer to a renewal was lost
    handler,
    held,     \* history: the claim was put on hold
    faults

vars == <<row, main, auth, overdue, fenced, seen, hb, call, late, lost, handler, held, faults>>
worker == <<main, auth, overdue, fenced, seen>>
beat == <<hb, call, late, lost>>

Terminal == {"completed", "failed", "cancelled"}
Points == {"claimed", "entering", "waiting", "joining", "awaiting", "quiescing", "quiescing_failed",
           "fence", "requesting", "draining", "stopping", "restarting", "restopping",
           "settling", "terminalizing", "reconciling", "finalizing", "done", "crashed"}
BeatEnds == {"stopped", "cancellation_requested", "terminal", "failed"}
Leases == 0..MaxLease

NoCall == [lease |-> 0, answer |-> "idle", requested |-> FALSE]
Calls == [lease : Leases, answer : {"idle", "sent", "renewed", "refused"}, requested : BOOLEAN]
Rows == [status : Terminal \cup {"pending", "claimed", "held"}, owner : {"me", "other", "nobody"},
         lease : Leases, started : BOOLEAN, requested : BOOLEAN, expired : BOOLEAN,
         restartable : BOOLEAN, keyed : BOOLEAN]

Init ==
    /\ row \in [status : {"claimed"}, owner : {"me"}, lease : {0}, started : {FALSE},
               requested : {FALSE}, expired : {FALSE}, restartable : BOOLEAN, keyed : BOOLEAN]
    /\ main = "claimed" /\ auth = 0 /\ overdue = FALSE /\ fenced = FALSE /\ seen = 0
    /\ hb = "off" /\ call = NoCall /\ late = {} /\ lost = FALSE
    /\ handler = "unstarted"
    /\ held = FALSE
    /\ faults = 0

Fault == faults < MaxFaults /\ faults' = faults + 1

-----------------------------------------------------------------------------
(* The store *)

Mine == row.status = "claimed" /\ row.owner = "me"
Owned(l) == Mine /\ row.lease = l /\ ~row.expired

Renewed == [row EXCEPT !.lease = @ + 1]
Ended(status) ==
    [row EXCEPT !.status = status, !.owner = "nobody", !.requested = FALSE, !.expired = FALSE]
Requeued ==
    [row EXCEPT !.status = "pending", !.owner = "nobody", !.started = FALSE, !.expired = FALSE]

-----------------------------------------------------------------------------
(* Dispatch: _renew_task_claim_before_dispatch, TaskExecutionSettlement.enter *)

RenewClaim ==
    /\ main = "claimed"
    /\ \/ /\ Owned(auth) /\ row.lease < MaxLease
          /\ row' = Renewed
          /\ \/ /\ auth' = auth + 1
                /\ main' = IF row.requested THEN "settling" ELSE "entering"
                /\ UNCHANGED faults
             \/ main' = "done" /\ Fault /\ UNCHANGED auth
       \/ /\ ~Owned(auth)
          /\ main' = "done"
          /\ UNCHANGED <<row, auth, faults>>
    /\ UNCHANGED <<overdue, fenced, seen, hb, call, late, lost, handler, held>>

(* release_unstarted_claims *)
ReleaseUnstarted ==
    /\ main = "claimed"
    /\ Fault
    /\ row' = IF Owned(auth) /\ ~row.requested THEN Requeued ELSE row
    /\ main' = "done"
    /\ UNCHANGED <<auth, overdue, fenced, seen, hb, call, late, lost, handler, held>>

Enter ==
    /\ main = "entering"
    /\ IF Owned(auth) /\ ~row.requested
       THEN /\ row' = [row EXCEPT !.started = TRUE]
            /\ \/ main' = "waiting" /\ hb' = "waiting" /\ handler' = "running" /\ UNCHANGED faults
               \/ main' = "done" /\ Fault /\ UNCHANGED <<hb, handler>>
       ELSE main' = "done" /\ UNCHANGED <<row, hb, handler, faults>>
    /\ UNCHANGED <<auth, overdue, fenced, seen, call, late, lost, held>>

-----------------------------------------------------------------------------
(* _heartbeat_until, _renew_task_lease_before_deadline *)

Draining == {"fence", "requesting", "draining", "stopping", "restarting", "restopping"}
StopSet == main \in {"joining", "stopping", "restopping", "done"}
LockFree == hb # "renewing" /\ main \notin {"requesting", "terminalizing", "reconciling"}

HeartbeatSends ==
    /\ hb = "waiting" /\ ~StopSet /\ ~overdue /\ LockFree /\ main # "crashed"
    /\ auth < MaxLease /\ row.lease < MaxLease
    /\ hb' = "renewing"
    /\ call' = [lease |-> auth, answer |-> "sent", requested |-> FALSE]
    /\ UNCHANGED <<row, worker, late, lost, handler, held, faults>>

StoreRenews ==
    /\ call.answer = "sent"
    /\ IF Owned(call.lease)
       THEN /\ row' = Renewed
            /\ call' = [call EXCEPT !.answer = "renewed", !.requested = row.requested]
       ELSE call' = [call EXCEPT !.answer = "refused"] /\ UNCHANGED row
    /\ UNCHANGED <<worker, hb, late, lost, handler, held, faults>>

(* reconcile_heartbeat_failure *)
Failed == IF row.status \in Terminal THEN "terminal" ELSE "failed"

(* Mutant: the lease authority keeps the lease it presented. *)
HeartbeatAnsweredUnread ==
    /\ hb = "renewing" /\ ~overdue /\ main # "crashed"
    /\ \/ /\ call.answer = "renewed"
          /\ auth' = call.lease
          /\ hb' = IF call.requested /\ main \notin Draining THEN "cancellation_requested" ELSE "waiting"
          /\ UNCHANGED <<lost, faults>>
       \/ call.answer = "refused" /\ hb' = Failed /\ UNCHANGED <<auth, lost, faults>>
       \/ call.answer = "renewed" /\ Fault /\ hb' = Failed /\ lost' = TRUE /\ UNCHANGED auth
    /\ call' = NoCall
    /\ UNCHANGED <<row, main, overdue, fenced, seen, late, handler, held>>

HeartbeatAnswered ==
    /\ hb = "renewing" /\ ~overdue /\ main # "crashed"
    /\ \/ /\ call.answer = "renewed"
          /\ auth' = call.lease + 1
          /\ hb' = IF call.requested /\ main \notin Draining THEN "cancellation_requested" ELSE "waiting"
          /\ UNCHANGED <<lost, faults>>
       \/ call.answer = "refused" /\ hb' = Failed /\ UNCHANGED <<auth, lost, faults>>
       \/ call.answer = "renewed" /\ Fault /\ hb' = Failed /\ lost' = TRUE /\ UNCHANGED auth
    /\ call' = NoCall
    /\ UNCHANGED <<row, main, overdue, fenced, seen, late, handler, held>>

(* The deadline passes first; the renewal goes on alone. *)
HeartbeatTimesOut ==
    /\ hb = "renewing" /\ overdue /\ main # "crashed"
    /\ hb' = "failed"
    /\ late' = IF call.answer = "sent" THEN late \cup {call.lease} ELSE late
    /\ lost' = (lost \/ call.answer # "refused")
    /\ call' = NoCall
    /\ UNCHANGED <<row, worker, handler, held, faults>>

LateRenewal ==
    /\ \E l \in late :
         /\ late' = late \ {l}
         /\ row' = IF Owned(l) /\ row.lease < MaxLease THEN Renewed ELSE row
    /\ UNCHANGED <<worker, hb, call, lost, handler, held, faults>>

HeartbeatEnds ==
    /\ hb = "waiting" /\ main # "crashed"
    /\ \/ StopSet /\ hb' = "stopped"
       \/ overdue /\ ~StopSet /\ hb' = "failed"
    /\ UNCHANGED <<row, worker, call, late, lost, handler, held, faults>>

-----------------------------------------------------------------------------
(* The handler *)

(* complete_task, fail_task under managed_task_lease_mutation *)
HandlerSettles ==
    /\ handler = "running" /\ main # "crashed" /\ LockFree
    /\ Owned(auth) /\ ~row.requested
    /\ \E status \in {"completed", "failed"} : row' = Ended(status)
    /\ UNCHANGED <<worker, beat, handler, held, faults>>

HandlerReturns ==
    /\ handler = "running"
    /\ handler' = "returned"
    /\ UNCHANGED <<row, worker, beat, held, faults>>

-----------------------------------------------------------------------------
(* _await_task_handler *)

GoTo(point) == main' = point /\ UNCHANGED <<row, auth, overdue, fenced, seen, beat, handler, held, faults>>

(* A drain takes the heartbeat over: one that ended with the request goes on. *)
StartDrain(point) ==
    /\ main' = point
    /\ hb' = IF hb = "cancellation_requested" THEN "waiting" ELSE hb
    /\ UNCHANGED <<row, auth, overdue, fenced, seen, call, late, lost, handler, held>>

Supervise ==
    \/ /\ main = "waiting"
       /\ \/ hb = "failed" /\ StartDrain("fence") /\ UNCHANGED faults
          \/ hb = "cancellation_requested" /\ GoTo("quiescing")
          \/ hb = "terminal" /\ GoTo("awaiting")
          \/ /\ handler = "returned" /\ hb \notin {"failed", "cancellation_requested"}
             /\ GoTo("joining")
    \/ /\ main = "joining" /\ hb \in BeatEnds
       /\ \/ hb = "failed" /\ StartDrain("fence") /\ UNCHANGED faults
          \/ hb = "cancellation_requested" /\ GoTo("quiescing")
          \/ hb \in {"stopped", "terminal"} /\ GoTo("finalizing")
    \/ main = "awaiting" /\ handler = "returned" /\ GoTo("finalizing")

(* The caller cancels the worker.  An outcome on its way is not shielded. *)
OwnerCancelled ==
    /\ Fault
    /\ \/ /\ main \in {"waiting", "joining", "awaiting"}
          /\ StartDrain(IF row.restartable THEN "restarting" ELSE "fence")
       \/ /\ main = "finalizing"
          /\ main' = "done"
          /\ UNCHANGED <<row, auth, overdue, fenced, seen, beat, handler, held>>

(* _quiesce_task_retry_handler_before_terminalization renews without the lock. *)
QuiesceRenews ==
    /\ main \in {"quiescing", "quiescing_failed"} /\ handler = "running"
    /\ IF Owned(auth)
       THEN /\ row.lease < MaxLease
            /\ row' = Renewed
            /\ \/ auth' = auth + 1 /\ overdue' = FALSE /\ UNCHANGED <<main, lost, faults>>
               \/ /\ main' = "quiescing_failed" /\ Fault /\ lost' = TRUE
                  /\ UNCHANGED <<auth, overdue>>
       ELSE main' = "quiescing_failed" /\ UNCHANGED <<row, auth, overdue, lost, faults>>
    /\ UNCHANGED <<fenced, seen, hb, call, late, handler, held>>

(* The handler has stopped: cancel, or fail if a renewal failed. *)
Quiesced ==
    /\ handler = "returned"
    /\ \/ main = "quiescing" /\ GoTo("settling")
       \/ main = "quiescing_failed" /\ GoTo("finalizing")

-----------------------------------------------------------------------------
(* Outcomes *)

(* finalize_handler_outcome: an unfinished task fails, a cancelled one is  *)
(* cancelled, and a lost claim is left alone.                              *)
Finalize ==
    /\ main = "finalizing" /\ LockFree
    /\ row' = IF ~Owned(auth) THEN row
              ELSE IF row.requested THEN Ended("cancelled") ELSE Ended("failed")
    /\ main' = "done"
    /\ UNCHANGED <<auth, overdue, fenced, seen, beat, handler, held, faults>>

(* _settle_ordinary_task_cancellation_after_quiescence; before dispatch    *)
(* and after a quiescence it is the same without the fallback.             *)
SettleLoads ==
    /\ main = "settling" /\ LockFree
    /\ IF Mine /\ row.requested
       THEN main' = "terminalizing" /\ seen' = row.lease
       ELSE main' = "done" /\ UNCHANGED seen
    /\ UNCHANGED <<row, auth, overdue, fenced, beat, handler, held, faults>>

SettleTerminalizes ==
    /\ main = "terminalizing"
    /\ IF Owned(seen)
       THEN row' = Ended("cancelled") /\ main' = "done" /\ UNCHANGED seen
       ELSE /\ UNCHANGED row
            /\ IF fenced /\ Mine /\ row.requested
               THEN main' = "reconciling" /\ seen' = row.lease
               ELSE main' = "done" /\ UNCHANGED seen
    /\ UNCHANGED <<auth, overdue, fenced, beat, handler, held, faults>>

SettleReconciles ==
    /\ main = "reconciling"
    /\ row' = IF Mine /\ row.requested /\ row.expired /\ row.lease = seen
              THEN Ended("cancelled") ELSE row
    /\ main' = "done"
    /\ UNCHANGED <<auth, overdue, fenced, seen, beat, handler, held, faults>>

-----------------------------------------------------------------------------
(* _drain_ordinary_task_handler_under_cancellation_fence,                  *)
(* _request_task_cancellation_fence                                        *)

FenceLoads ==
    /\ main = "fence" /\ LockFree
    /\ \/ /\ row.status \in Terminal \/ row.requested
          /\ fenced' = row.requested /\ main' = "draining"
       \/ /\ row.status \notin Terminal /\ ~row.requested
          /\ IF Mine /\ row.lease = auth
             THEN main' = "requesting" /\ UNCHANGED fenced
             ELSE main' = "draining" /\ fenced' = FALSE
    /\ UNCHANGED <<row, auth, overdue, seen, beat, handler, held, faults>>

(* A failed request is tried again after another look at the row. *)
FenceRequests ==
    /\ main = "requesting"
    /\ row' = IF Mine /\ row.lease = auth THEN [row EXCEPT !.requested = TRUE] ELSE row
    /\ \/ main' = "draining" /\ fenced' = row'.requested /\ UNCHANGED faults
       \/ main' = "fence" /\ Fault /\ UNCHANGED fenced
    /\ UNCHANGED <<auth, overdue, seen, beat, handler, held>>

(* Mutant: the fence is settled without waiting for the handler. *)
DrainAtOnce ==
    \/ main = "draining" /\ GoTo("stopping")
    \/ /\ main = "stopping" /\ hb \in BeatEnds \cup {"off"}
       /\ GoTo(IF fenced THEN "settling" ELSE "done")

Drain ==
    \/ main = "draining" /\ handler = "returned" /\ GoTo("stopping")
    \/ /\ main = "stopping" /\ hb \in BeatEnds \cup {"off"}
       /\ GoTo(IF fenced THEN "settling" ELSE "done")

(* _restart_task_handler_after_shutdown *)
Restart ==
    \/ main = "restarting" /\ handler = "returned" /\ GoTo("restopping")
    \/ /\ main = "restopping" /\ hb \in BeatEnds /\ LockFree
       /\ IF hb # "failed" /\ Mine /\ row.requested
          THEN main' = "settling" /\ fenced' = TRUE /\ UNCHANGED row
          ELSE /\ row' = IF hb # "failed" /\ Owned(auth) THEN Requeued ELSE row
               /\ main' = "done"
               /\ UNCHANGED fenced
       /\ UNCHANGED <<auth, overdue, seen, beat, handler, held, faults>>

-----------------------------------------------------------------------------
(* Time, crashes, and the calls of others *)

DeadlinePasses ==
    /\ ~overdue /\ main \notin {"claimed", "done", "crashed"}
    /\ overdue' = TRUE
    /\ Fault
    /\ UNCHANGED <<row, main, auth, fenced, seen, beat, handler, held>>

(* The worker's own deadline comes before the end of the lease. *)
Expire ==
    /\ Mine /\ ~row.expired
    /\ overdue \/ main \in {"claimed", "done", "crashed"}
    /\ row' = [row EXCEPT !.expired = TRUE]
    /\ UNCHANGED <<worker, beat, handler, held, faults>>

(* Mutant: an expired claim that was started is passed over. *)
ReclaimUnstarted ==
    /\ Mine /\ row.expired /\ ~row.requested /\ ~row.started
    /\ row' = Requeued
    /\ UNCHANGED <<worker, beat, handler, held, faults>>

(* reclaim_expired: a started task is fenced, never handed on. *)
Reclaim ==
    /\ Mine /\ row.expired /\ ~row.requested
    /\ row' = IF row.started THEN [row EXCEPT !.requested = TRUE] ELSE Requeued
    /\ UNCHANGED <<worker, beat, handler, held, faults>>

(* cancel_task *)
Cancel ==
    /\ \/ Mine /\ ~row.requested /\ row' = [row EXCEPT !.requested = TRUE]
       \/ row.status \in {"pending", "held"} /\ row' = Ended("cancelled")
    /\ UNCHANGED <<worker, beat, handler, held, faults>>

(* complete_task, fail_task of somebody who presents no worker. *)
FinishedByOthers ==
    /\ Mine \/ row.status \in {"pending", "held"}
    /\ ~row.requested
    /\ \E status \in {"completed", "failed"} : row' = Ended(status)
    /\ UNCHANGED <<worker, beat, handler, held, faults>>

(* pause_task, block_task, request_attention: _hold_task takes the claim   *)
(* away, be it started or not, and keeps the mark of the dispatch; only a  *)
(* claimed task with a concurrency key is refused.                         *)
Hold ==
    /\ Mine \/ row.status = "pending"
    /\ ~row.requested
    /\ Mine => ~row.keyed
    /\ row' = [row EXCEPT !.status = "held", !.owner = "nobody", !.expired = FALSE]
    /\ held' = (held \/ Mine)
    /\ UNCHANGED <<worker, beat, handler, faults>>

Resume ==
    /\ row.status = "held"
    /\ row' = [row EXCEPT !.status = "pending"]
    /\ UNCHANGED <<worker, beat, handler, held, faults>>

(* reconcile_abandoned_task_cancellation, by one who knows nothing runs. *)
ReconcileAbandoned ==
    /\ Mine /\ row.requested /\ row.expired
    /\ handler # "running" /\ main \in {"done", "crashed"}
    /\ row' = Ended("cancelled")
    /\ UNCHANGED <<worker, beat, handler, held, faults>>

(* Another worker claims the task and starts its own handler. *)
OtherRuns ==
    /\ row.status = "pending"
    /\ row' = [row EXCEPT !.status = "claimed", !.owner = "other", !.started = TRUE]
    /\ UNCHANGED <<worker, beat, handler, held, faults>>

Crash ==
    /\ main \notin {"done", "crashed"}
    /\ Fault
    /\ main' = "crashed"
    /\ UNCHANGED <<row, auth, overdue, fenced, seen, beat, handler, held>>

MainStep ==
    \/ RenewClaim \/ Enter \/ Supervise \/ QuiesceRenews \/ Quiesced \/ Finalize
    \/ SettleLoads \/ SettleTerminalizes \/ SettleReconciles
    \/ FenceLoads \/ FenceRequests \/ Drain \/ Restart
BeatStep == HeartbeatAnswered \/ HeartbeatTimesOut \/ HeartbeatEnds

Next ==
    \/ MainStep
    \/ BeatStep
    \/ HeartbeatSends
    \/ StoreRenews
    \/ LateRenewal
    \/ HandlerSettles
    \/ HandlerReturns
    \/ ReleaseUnstarted
    \/ OwnerCancelled
    \/ DeadlinePasses
    \/ Expire
    \/ Reclaim
    \/ Cancel
    \/ FinishedByOthers
    \/ Hold
    \/ Resume
    \/ ReconcileAbandoned
    \/ OtherRuns
    \/ Crash

Spec == Init /\ [][Next]_vars

(* The event loop runs every coroutine that can go on, a store call ends,  *)
(* leases run out, and some worker of the deployment reclaims.             *)
FairSpec ==
    /\ Spec
    /\ WF_vars(MainStep) /\ WF_vars(BeatStep) /\ WF_vars(StoreRenews)
    /\ WF_vars(Expire) /\ WF_vars(Reclaim)

-----------------------------------------------------------------------------
(* Properties *)

(* The row, the worker and its heartbeat keep their types. *)
TypeOK ==
    /\ row \in Rows
    /\ main \in Points
    /\ auth \in Leases
    /\ overdue \in BOOLEAN
    /\ fenced \in BOOLEAN
    /\ seen \in Leases
    /\ hb \in BeatEnds \cup {"off", "waiting", "renewing"}
    /\ call \in Calls
    /\ late \in SUBSET Leases
    /\ lost \in BOOLEAN
    /\ handler \in {"unstarted", "running", "returned"}
    /\ held \in BOOLEAN
    /\ faults \in 0..MaxFaults

(* While a handler runs, its task is not reported cancelled, requeued or   *)
(* given to another worker, whatever happened to the lease, to requests to *)
(* cancel, to the worker and to its shutdown.  The store lets one call     *)
(* break this, a hold of the running claim, and refuses that call for a    *)
(* task with a concurrency key, which therefore keeps its task always.     *)
HandlerKeepsItsTask ==
    handler = "running" /\ (row.keyed \/ ~held) =>
        row.status \notin {"pending", "held", "cancelled"} /\ row.owner # "other"

(* A worker that still has its lease, and has heard the answer to all its  *)
(* renewals, is not refused its outcome because of a renewal of its own.   *)
OwnRenewalsNeverFenceTheOutcome ==
    [][ /\ main = "finalizing" /\ main' = "done" /\ faults' = faults
        /\ Mine /\ ~row.expired /\ ~lost
        => row'.status \in Terminal ]_vars

(* Once the handler has stopped, the task does not stay claimed in         *)
(* silence: it is settled, requeued or on hold, or its claim is fenced for *)
(* the application to reconcile, whatever became of the worker.            *)
SettledOrFenced ==
    handler = "returned" ~> \/ row.status \in Terminal \cup {"pending", "held"}
                            \/ row.requested
                            \/ row.owner = "other"
=============================================================================
