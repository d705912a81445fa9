-------------------------- MODULE TaskWorkerProofs --------------------------
(***************************************************************************)
(* Proofs about one worker executing one claimed task.  The invariant has  *)
(* three parts: what the heartbeat has under way, where the worker can be  *)
(* while its handler runs and what the row is then, and how the lease in   *)
(* the row follows from the one the worker knows.                          *)
(***************************************************************************)
EXTENDS TaskWorker, TLAPS

(* A renewal is under way only while the heartbeat waits for it, it can    *)
(* still be granted, and one that nobody waits for was given up for lost   *)
(* by a heartbeat that never renews again.                                 *)
BeatInv ==
    /\ hb = "renewing" => call.lease < MaxLease
    /\ hb # "renewing" => call = NoCall
    /\ late # {} => hb = "failed" /\ lost
    /\ main \in {"claimed", "entering"} => hb = "off"
    /\ main \in {"quiescing", "quiescing_failed"} => hb = "cancellation_requested"

(* The points the worker's coroutine passes while its handler may run. *)
RunPoints ==
    {"waiting", "awaiting", "quiescing", "quiescing_failed", "fence", "requesting",
     "draining", "restarting", "crashed"}

(* A running handler's task is marked started, and is still the worker's   *)
(* own claim unless it was completed or failed or put on hold; and no      *)
(* keyed claim was put on hold.                                            *)
RunInv ==
    /\ held => ~row.keyed
    /\ handler = "running" =>
        /\ main \in RunPoints
        /\ \/ held
           \/ /\ row.started
              /\ Mine \/ (row.status \in {"completed", "failed"} /\ row.owner = "nobody")

(* With every answer heard, the lease of the row is the one the worker     *)
(* knows, or the one the answer under way will tell it.                    *)
LeaseInv ==
    Mine /\ ~lost /\ main \notin {"done", "crashed"} =>
        row.lease = IF call.answer = "renewed" THEN call.lease + 1 ELSE auth

WorkerInv == TypeOK /\ BeatInv /\ RunInv /\ LeaseInv

-----------------------------------------------------------------------------
USE WorkerConstants

(* The rows the store publishes are rows. *)
LEMMA StoredRows ==
    ASSUME row \in Rows
    PROVE  /\ row.lease \in Leases /\ row.requested \in BOOLEAN
           /\ \A status \in Terminal : Ended(status) \in Rows
           /\ Requeued \in Rows
           /\ row.lease < MaxLease => Renewed \in Rows
           /\ [row EXCEPT !.started = TRUE] \in Rows
           /\ [row EXCEPT !.requested = TRUE] \in Rows
           /\ [row EXCEPT !.expired = TRUE] \in Rows
           /\ [row EXCEPT !.status = "claimed", !.owner = "other", !.started = TRUE] \in Rows
           /\ [row EXCEPT !.status = "held", !.owner = "nobody", !.expired = FALSE] \in Rows
           /\ [row EXCEPT !.status = "pending"] \in Rows
  <1>1. /\ \A status \in Terminal : Ended(status) \in Rows
        /\ Requeued \in Rows
    BY DEF Ended, Requeued, Rows, Terminal
  <1>2. row.lease < MaxLease => Renewed \in Rows
    BY DEF Renewed, Rows, Leases
  <1>3. /\ [row EXCEPT !.started = TRUE] \in Rows
        /\ [row EXCEPT !.requested = TRUE] \in Rows
        /\ [row EXCEPT !.expired = TRUE] \in Rows
    BY DEF Rows
  <1>4. /\ [row EXCEPT !.status = "claimed", !.owner = "other", !.started = TRUE] \in Rows
        /\ [row EXCEPT !.status = "held", !.owner = "nobody", !.expired = FALSE] \in Rows
        /\ [row EXCEPT !.status = "pending"] \in Rows
    BY DEF Rows
  <1>5. row.lease \in Leases /\ row.requested \in BOOLEAN
    BY DEF Rows
  <1> QED
    BY <1>1, <1>2, <1>3, <1>4, <1>5

LEMMA RenewClaimInv ==
    ASSUME WorkerInv, RenewClaim
    PROVE  WorkerInv'
  <1> USE DEF WorkerInv, RenewClaim, Fault, Mine, Owned
  <1>1. TypeOK'
    BY StoredRows DEF TypeOK, BeatInv, Points, Leases, Calls, NoCall, Terminal, BeatEnds
  <1> USE DEF TypeOK, Rows, Terminal, Leases, Calls, NoCall, Renewed
  <1>2. BeatInv'
    BY DEF BeatInv
  <1>3. RunInv'
    BY DEF RunInv, RunPoints, Mine
  <1>4. LeaseInv'
    BY DEF LeaseInv, BeatInv, Mine
  <1> QED
    BY <1>1, <1>2, <1>3, <1>4

LEMMA ReleaseUnstartedInv ==
    ASSUME WorkerInv, ReleaseUnstarted
    PROVE  WorkerInv'
  <1> USE DEF WorkerInv, ReleaseUnstarted, Fault, Mine, Owned
  <1>1. TypeOK'
    BY StoredRows DEF TypeOK, BeatInv, Points, Leases, Calls, NoCall, Terminal, BeatEnds
  <1> USE DEF TypeOK, Rows, Terminal, Leases, Calls, NoCall, Requeued
  <1>2. BeatInv'
    BY DEF BeatInv
  <1>3. RunInv'
    BY DEF RunInv, RunPoints, Mine
  <1>4. LeaseInv'
    BY DEF LeaseInv, BeatInv, Mine
  <1> QED
    BY <1>1, <1>2, <1>3, <1>4

LEMMA EnterInv ==
    ASSUME WorkerInv, Enter
    PROVE  WorkerInv'
  <1> USE DEF WorkerInv, Enter, Fault, Mine, Owned
  <1>1. TypeOK'
    <2>1. row' \in Rows
      BY StoredRows DEF TypeOK, BeatInv, Leases, Terminal, NoCall
    <2>2. main' \in Points /\ auth' \in Leases /\ seen' \in Leases /\ faults' \in 0..MaxFaults
      BY StoredRows DEF TypeOK, BeatInv, Leases, Points, Calls, NoCall
    <2>3. hb' \in BeatEnds \cup {"off", "waiting", "renewing"} /\ call' \in Calls
      BY StoredRows DEF TypeOK, Calls, NoCall, BeatEnds, Leases
    <2>4. late' \in SUBSET Leases /\ handler' \in {"unstarted", "running", "returned"}
      BY DEF TypeOK, Calls
    <2>5. overdue' \in BOOLEAN /\ fenced' \in BOOLEAN /\ lost' \in BOOLEAN /\ held' \in BOOLEAN
      BY StoredRows DEF TypeOK
    <2> QED
      BY <2>1, <2>2, <2>3, <2>4, <2>5 DEF TypeOK
  <1> USE DEF TypeOK, Rows, Terminal, Leases, Calls, NoCall
  <1>2. BeatInv'
    BY DEF BeatInv
  <1>3. RunInv'
    BY DEF RunInv, RunPoints, Mine
  <1>4. LeaseInv'
    BY DEF LeaseInv, BeatInv, Mine
  <1> QED
    BY <1>1, <1>2, <1>3, <1>4

LEMMA HeartbeatSendsInv ==
    ASSUME WorkerInv, HeartbeatSends
    PROVE  WorkerInv'
  <1> USE DEF WorkerInv, HeartbeatSends, StopSet, LockFree, worker
  <1>1. TypeOK'
    BY StoredRows DEF TypeOK, BeatInv, Points, Leases, Calls, NoCall, Terminal, BeatEnds
  <1> USE DEF TypeOK, Rows, Terminal, Leases, Calls, NoCall
  <1>2. BeatInv'
    BY DEF BeatInv
  <1>3. RunInv'
    BY DEF RunInv, RunPoints, Mine
  <1>4. LeaseInv'
    BY DEF LeaseInv, BeatInv, Mine
  <1> QED
    BY <1>1, <1>2, <1>3, <1>4

LEMMA StoreRenewsInv ==
    ASSUME WorkerInv, StoreRenews
    PROVE  WorkerInv'
  <1> USE DEF WorkerInv, StoreRenews, Mine, Owned, worker
  <1>1. TypeOK'
    <2>1. row' \in Rows
      BY StoredRows DEF TypeOK, BeatInv, Leases, Terminal, NoCall
    <2>2. main' \in Points /\ auth' \in Leases /\ seen' \in Leases /\ faults' \in 0..MaxFaults
      BY StoredRows DEF TypeOK, BeatInv, Leases, Points, Calls, NoCall
    <2>3. hb' \in BeatEnds \cup {"off", "waiting", "renewing"} /\ call' \in Calls
      BY StoredRows DEF TypeOK, Calls, NoCall, BeatEnds, Leases
    <2>4. late' \in SUBSET Leases /\ handler' \in {"unstarted", "running", "returned"}
      BY DEF TypeOK, Calls
    <2>5. overdue' \in BOOLEAN /\ fenced' \in BOOLEAN /\ lost' \in BOOLEAN /\ held' \in BOOLEAN
      BY StoredRows DEF TypeOK
    <2> QED
      BY <2>1, <2>2, <2>3, <2>4, <2>5 DEF TypeOK
  <1> USE DEF TypeOK, Rows, Terminal, Leases, Calls, NoCall, Renewed
  <1>2. hb = "renewing" /\ hb' = hb /\ call.lease \in Leases /\ call'.lease = call.lease
    <2>1. call \in Calls /\ hb = "renewing"
      BY DEF BeatInv
    <2>2. \A b \in BOOLEAN :
             [call EXCEPT !.answer = "renewed", !.requested = b].lease = call.lease
      BY <2>1
    <2>3. [call EXCEPT !.answer = "refused"].lease = call.lease
      BY <2>1
    <2>4. row.requested \in BOOLEAN
      BY DEF TypeOK, Rows
    <2>5. call'.lease = call.lease
      <3>1. CASE Owned(call.lease)
        <4>1. call' = [call EXCEPT !.answer = "renewed", !.requested = row.requested]
          BY <3>1
        <4> QED
          BY <2>2, <2>4, <4>1, Zenon
      <3>2. CASE ~Owned(call.lease)
        BY <2>3, <3>2
      <3> QED
        BY <3>1, <3>2
    <2> QED
      BY <2>1, <2>5
  <1>3. BeatInv'
    BY <1>2 DEF BeatInv
  <1>4. RunInv'
    BY DEF RunInv, RunPoints, Mine
  <1>5. LeaseInv'
    <2>1. CASE Owned(call.lease)
      <3>1. call'.answer = "renewed"
        <4>1. call' = [call EXCEPT !.answer = "renewed", !.requested = row.requested]
          BY <2>1
        <4> QED
          BY <4>1
      <3>2. row'.lease = call.lease + 1
        BY <2>1
      <3> QED
        BY <1>2, <3>1, <3>2 DEF LeaseInv
    <2>2. CASE ~Owned(call.lease)
      BY <1>2, <2>2 DEF LeaseInv, Mine
    <2> QED
      BY <2>1, <2>2
  <1> QED
    BY <1>1, <1>3, <1>4, <1>5

LEMMA HeartbeatAnsweredInv ==
    ASSUME WorkerInv, HeartbeatAnswered
    PROVE  WorkerInv'
  <1> USE DEF WorkerInv, HeartbeatAnswered, Fault, Draining, Failed
  <1>1. TypeOK'
    <2>1. row' \in Rows
      BY StoredRows DEF TypeOK, BeatInv, Leases, Terminal, NoCall
    <2>2. main' \in Points /\ auth' \in Leases /\ seen' \in Leases /\ faults' \in 0..MaxFaults
      BY StoredRows DEF TypeOK, BeatInv, Leases, Points, Calls, NoCall
    <2>3. hb' \in BeatEnds \cup {"off", "waiting", "renewing"} /\ call' \in Calls
      BY StoredRows DEF TypeOK, Calls, NoCall, BeatEnds, Leases
    <2>4. late' \in SUBSET Leases /\ handler' \in {"unstarted", "running", "returned"}
      BY DEF TypeOK, Calls
    <2>5. overdue' \in BOOLEAN /\ fenced' \in BOOLEAN /\ lost' \in BOOLEAN /\ held' \in BOOLEAN
      BY StoredRows DEF TypeOK
    <2> QED
      BY <2>1, <2>2, <2>3, <2>4, <2>5 DEF TypeOK
  <1> USE DEF TypeOK, Rows, Terminal, Leases, Calls, NoCall
  <1>2. BeatInv'
    BY DEF BeatInv
  <1>3. RunInv'
    BY DEF RunInv, RunPoints, Mine
  <1>4. LeaseInv'
    BY DEF LeaseInv, BeatInv, Mine
  <1> QED
    BY <1>1, <1>2, <1>3, <1>4

LEMMA HeartbeatTimesOutInv ==
    ASSUME WorkerInv, HeartbeatTimesOut
    PROVE  WorkerInv'
  <1> USE DEF WorkerInv, HeartbeatTimesOut, worker
  <1>1. TypeOK'
    BY StoredRows DEF TypeOK, BeatInv, Points, Leases, Calls, NoCall, Terminal, BeatEnds
  <1> USE DEF TypeOK, Rows, Terminal, Leases, Calls, NoCall
  <1>2. BeatInv'
    BY DEF BeatInv
  <1>3. RunInv'
    BY DEF RunInv, RunPoints, Mine
  <1>4. LeaseInv'
    BY DEF LeaseInv, BeatInv, Mine
  <1> QED
    BY <1>1, <1>2, <1>3, <1>4

LEMMA LateRenewalInv ==
    ASSUME WorkerInv, LateRenewal
    PROVE  WorkerInv'
  <1> USE DEF WorkerInv, LateRenewal, Mine, Owned, worker
  <1>1. TypeOK'
    BY StoredRows DEF TypeOK, BeatInv, Points, Leases, Calls, NoCall, Terminal, BeatEnds
  <1> USE DEF TypeOK, Rows, Terminal, Leases, Calls, NoCall, Renewed
  <1>2. BeatInv'
    BY DEF BeatInv
  <1>3. RunInv'
    BY DEF RunInv, RunPoints, Mine
  <1>4. LeaseInv'
    BY DEF LeaseInv, BeatInv, Mine
  <1> QED
    BY <1>1, <1>2, <1>3, <1>4

LEMMA HeartbeatEndsInv ==
    ASSUME WorkerInv, HeartbeatEnds
    PROVE  WorkerInv'
  <1> USE DEF WorkerInv, HeartbeatEnds, StopSet, worker
  <1>1. TypeOK'
    BY StoredRows DEF TypeOK, BeatInv, Points, Leases, Calls, NoCall, Terminal, BeatEnds
  <1> USE DEF TypeOK, Rows, Terminal, Leases, Calls, NoCall
  <1>2. BeatInv'
    BY DEF BeatInv
  <1>3. RunInv'
    BY DEF RunInv, RunPoints, Mine
  <1>4. LeaseInv'
    BY DEF LeaseInv, BeatInv, Mine
  <1> QED
    BY <1>1, <1>2, <1>3, <1>4

LEMMA HandlerSettlesInv ==
    ASSUME WorkerInv, HandlerSettles
    PROVE  WorkerInv'
  <1> USE DEF WorkerInv, HandlerSettles, Mine, Owned, LockFree, worker, beat
  <1>1. TypeOK'
    BY StoredRows DEF TypeOK, BeatInv, Points, Leases, Calls, NoCall, Terminal, BeatEnds
  <1> USE DEF TypeOK, Rows, Terminal, Leases, Calls, NoCall, Ended
  <1>2. BeatInv'
    BY DEF BeatInv
  <1>3. RunInv'
    BY DEF RunInv, RunPoints, Mine
  <1>4. LeaseInv'
    BY DEF LeaseInv, BeatInv, Mine
  <1> QED
    BY <1>1, <1>2, <1>3, <1>4

LEMMA HandlerReturnsInv ==
    ASSUME WorkerInv, HandlerReturns
    PROVE  WorkerInv'
  <1> USE DEF WorkerInv, HandlerReturns, worker, beat
  <1>1. TypeOK'
    BY StoredRows DEF TypeOK, BeatInv, Points, Leases, Calls, NoCall, Terminal, BeatEnds
  <1> USE DEF TypeOK, Rows, Terminal, Leases, Calls, NoCall
  <1>2. BeatInv'
    BY DEF BeatInv
  <1>3. RunInv'
    BY DEF RunInv, RunPoints, Mine
  <1>4. LeaseInv'
    BY DEF LeaseInv, BeatInv, Mine
  <1> QED
    BY <1>1, <1>2, <1>3, <1>4

LEMMA SuperviseInv ==
    ASSUME WorkerInv, Supervise
    PROVE  WorkerInv'
  <1> USE DEF WorkerInv, Supervise, GoTo, StartDrain, beat
  <1>1. TypeOK'
    BY StoredRows DEF TypeOK, BeatInv, Points, Leases, Calls, NoCall, Terminal, BeatEnds
  <1> USE DEF TypeOK, Rows, Terminal, Leases, Calls, NoCall
  <1>2. BeatInv'
    BY DEF BeatInv
  <1>3. RunInv'
    BY DEF RunInv, RunPoints, Mine
  <1>4. LeaseInv'
    BY DEF LeaseInv, BeatInv, Mine
  <1> QED
    BY <1>1, <1>2, <1>3, <1>4

LEMMA OwnerCancelledInv ==
    ASSUME WorkerInv, OwnerCancelled
    PROVE  WorkerInv'
  <1> USE DEF WorkerInv, OwnerCancelled, Fault, StartDrain, beat
  <1>1. TypeOK'
    BY StoredRows DEF TypeOK, BeatInv, Points, Leases, Calls, NoCall, Terminal, BeatEnds
  <1> USE DEF TypeOK, Rows, Terminal, Leases, Calls, NoCall
  <1>2. BeatInv'
    BY DEF BeatInv
  <1>3. RunInv'
    BY DEF RunInv, RunPoints, Mine
  <1>4. LeaseInv'
    BY DEF LeaseInv, BeatInv, Mine
  <1> QED
    BY <1>1, <1>2, <1>3, <1>4

LEMMA QuiesceRenewsInv ==
    ASSUME WorkerInv, QuiesceRenews
    PROVE  WorkerInv'
  <1> USE DEF WorkerInv, QuiesceRenews, Fault, Mine, Owned
  <1>1. TypeOK'
    <2>1. row' \in Rows
      BY StoredRows DEF TypeOK, BeatInv, Leases, Terminal, NoCall
    <2>2. main' \in Points /\ auth' \in Leases /\ seen' \in Leases /\ faults' \in 0..MaxFaults
      BY StoredRows DEF TypeOK, BeatInv, Leases, Points, Calls, NoCall
    <2>3. hb' \in BeatEnds \cup {"off", "waiting", "renewing"} /\ call' \in Calls
      BY StoredRows DEF TypeOK, Calls, NoCall, BeatEnds, Leases
    <2>4. late' \in SUBSET Leases /\ handler' \in {"unstarted", "running", "returned"}
      BY DEF TypeOK, Calls
    <2>5. overdue' \in BOOLEAN /\ fenced' \in BOOLEAN /\ lost' \in BOOLEAN /\ held' \in BOOLEAN
      BY StoredRows DEF TypeOK
    <2> QED
      BY <2>1, <2>2, <2>3, <2>4, <2>5 DEF TypeOK
  <1> USE DEF TypeOK, Rows, Terminal, Leases, Calls, NoCall, Renewed
  <1>2. BeatInv'
    BY DEF BeatInv
  <1>3. RunInv'
    BY DEF RunInv, RunPoints, Mine
  <1>4. LeaseInv'
    BY DEF LeaseInv, BeatInv, Mine
  <1> QED
    BY <1>1, <1>2, <1>3, <1>4

LEMMA QuiescedInv ==
    ASSUME WorkerInv, Quiesced
    PROVE  WorkerInv'
  <1> USE DEF WorkerInv, Quiesced, GoTo, beat
  <1>1. TypeOK'
    BY StoredRows DEF TypeOK, BeatInv, Points, Leases, Calls, NoCall, Terminal, BeatEnds
  <1> USE DEF TypeOK, Rows, Terminal, Leases, Calls, NoCall
  <1>2. BeatInv'
    BY DEF BeatInv
  <1>3. RunInv'
    BY DEF RunInv, RunPoints, Mine
  <1>4. LeaseInv'
    BY DEF LeaseInv, BeatInv, Mine
  <1> QED
    BY <1>1, <1>2, <1>3, <1>4

LEMMA FinalizeInv ==
    ASSUME WorkerInv, Finalize
    PROVE  WorkerInv'
  <1> USE DEF WorkerInv, Finalize, Mine, Owned, LockFree, beat
  <1>1. TypeOK'
    BY StoredRows DEF TypeOK, BeatInv, Points, Leases, Calls, NoCall, Terminal, BeatEnds
  <1> USE DEF TypeOK, Rows, Terminal, Leases, Calls, NoCall, Ended
  <1>2. BeatInv'
    BY DEF BeatInv
  <1>3. RunInv'
    BY DEF RunInv, RunPoints, Mine
  <1>4. LeaseInv'
    BY DEF LeaseInv, BeatInv, Mine
  <1> QED
    BY <1>1, <1>2, <1>3, <1>4

LEMMA SettleLoadsInv ==
    ASSUME WorkerInv, SettleLoads
    PROVE  WorkerInv'
  <1> USE DEF WorkerInv, SettleLoads, Mine, LockFree, beat
  <1>1. TypeOK'
    BY StoredRows DEF TypeOK, BeatInv, Points, Leases, Calls, NoCall, Terminal, BeatEnds
  <1> USE DEF TypeOK, Rows, Terminal, Leases, Calls, NoCall
  <1>2. BeatInv'
    BY DEF BeatInv
  <1>3. RunInv'
    BY DEF RunInv, RunPoints, Mine
  <1>4. LeaseInv'
    BY DEF LeaseInv, BeatInv, Mine
  <1> QED
    BY <1>1, <1>2, <1>3, <1>4

LEMMA SettleTerminalizesInv ==
    ASSUME WorkerInv, SettleTerminalizes
    PROVE  WorkerInv'
  <1> USE DEF WorkerInv, SettleTerminalizes, Mine, Owned, beat
  <1>1. TypeOK'
    <2>1. row' \in Rows
      BY StoredRows DEF TypeOK, BeatInv, Leases, Terminal, NoCall
    <2>2. main' \in Points /\ auth' \in Leases /\ seen' \in Leases /\ faults' \in 0..MaxFaults
      BY StoredRows DEF TypeOK, BeatInv, Leases, Points, Calls, NoCall
    <2>3. hb' \in BeatEnds \cup {"off", "waiting", "renewing"} /\ call' \in Calls
      BY StoredRows DEF TypeOK, Calls, NoCall, BeatEnds, Leases
    <2>4. late' \in SUBSET Leases /\ handler' \in {"unstarted", "running", "returned"}
      BY DEF TypeOK, Calls
    <2>5. overdue' \in BOOLEAN /\ fenced' \in BOOLEAN /\ lost' \in BOOLEAN /\ held' \in BOOLEAN
      BY StoredRows DEF TypeOK
    <2> QED
      BY <2>1, <2>2, <2>3, <2>4, <2>5 DEF TypeOK
  <1> USE DEF TypeOK, Rows, Terminal, Leases, Calls, NoCall, Ended
  <1>2. BeatInv'
    BY DEF BeatInv
  <1>3. RunInv'
    BY DEF RunInv, RunPoints, Mine
  <1>4. LeaseInv'
    BY DEF LeaseInv, BeatInv, Mine
  <1> QED
    BY <1>1, <1>2, <1>3, <1>4

LEMMA SettleReconcilesInv ==
    ASSUME WorkerInv, SettleReconciles
    PROVE  WorkerInv'
  <1> USE DEF WorkerInv, SettleReconciles, Mine, beat
  <1>1. TypeOK'
    BY StoredRows DEF TypeOK, BeatInv, Points, Leases, Calls, NoCall, Terminal, BeatEnds
  <1> USE DEF TypeOK, Rows, Terminal, Leases, Calls, NoCall, Ended
  <1>2. BeatInv'
    BY DEF BeatInv
  <1>3. RunInv'
    BY DEF RunInv, RunPoints, Mine
  <1>4. LeaseInv'
    BY DEF LeaseInv, BeatInv, Mine
  <1> QED
    BY <1>1, <1>2, <1>3, <1>4

LEMMA FenceLoadsInv ==
    ASSUME WorkerInv, FenceLoads
    PROVE  WorkerInv'
  <1> USE DEF WorkerInv, FenceLoads, Mine, LockFree, beat
  <1>1. TypeOK'
    <2>1. row' \in Rows
      BY StoredRows DEF TypeOK, BeatInv, Leases, Terminal, NoCall
    <2>2. main' \in Points /\ auth' \in Leases /\ seen' \in Leases /\ faults' \in 0..MaxFaults
      BY StoredRows DEF TypeOK, BeatInv, Leases, Points, Calls, NoCall
    <2>3. hb' \in BeatEnds \cup {"off", "waiting", "renewing"} /\ call' \in Calls
      BY StoredRows DEF TypeOK, Calls, NoCall, BeatEnds, Leases
    <2>4. late' \in SUBSET Leases /\ handler' \in {"unstarted", "running", "returned"}
      BY DEF TypeOK, Calls
    <2>5. overdue' \in BOOLEAN /\ fenced' \in BOOLEAN /\ lost' \in BOOLEAN /\ held' \in BOOLEAN
      BY StoredRows DEF TypeOK
    <2> QED
      BY <2>1, <2>2, <2>3, <2>4, <2>5 DEF TypeOK
  <1> USE DEF TypeOK, Rows, Terminal, Leases, Calls, NoCall
  <1>2. BeatInv'
    BY DEF BeatInv
  <1>3. RunInv'
    BY DEF RunInv, RunPoints, Mine
  <1>4. LeaseInv'
    BY DEF LeaseInv, BeatInv, Mine
  <1> QED
    BY <1>1, <1>2, <1>3, <1>4

LEMMA FenceRequestsInv ==
    ASSUME WorkerInv, FenceRequests
    PROVE  WorkerInv'
  <1> USE DEF WorkerInv, FenceRequests, Fault, Mine, beat
  <1>1. TypeOK'
    <2>1. row' \in Rows
      BY StoredRows DEF TypeOK, BeatInv, Leases, Terminal, NoCall
    <2>2. main' \in Points /\ auth' \in Leases /\ seen' \in Leases /\ faults' \in 0..MaxFaults
      <3>1. main' \in Points /\ auth' \in Leases /\ seen' \in Leases
        BY DEF TypeOK, Points
      <3>2. faults' \in 0..MaxFaults
        <4>1. faults' = faults \/ (faults < MaxFaults /\ faults' = faults + 1)
          BY Zenon
        <4> QED
          BY <4>1 DEF TypeOK
      <3> QED
        BY <3>1, <3>2
    <2>3. hb' \in BeatEnds \cup {"off", "waiting", "renewing"} /\ call' \in Calls
      BY StoredRows DEF TypeOK, Calls, NoCall, BeatEnds, Leases
    <2>4. late' \in SUBSET Leases /\ handler' \in {"unstarted", "running", "returned"}
      BY DEF TypeOK, Calls
    <2>5. overdue' \in BOOLEAN /\ fenced' \in BOOLEAN /\ lost' \in BOOLEAN /\ held' \in BOOLEAN
      <3>1. fenced' = row'.requested \/ fenced' = fenced
        BY Zenon
      <3>2. row'.requested \in BOOLEAN
        BY <2>1 DEF Rows
      <3> QED
        BY <3>1, <3>2 DEF TypeOK
    <2> QED
      BY <2>1, <2>2, <2>3, <2>4, <2>5 DEF TypeOK
  <1> USE DEF TypeOK, Rows, Terminal, Leases, Calls, NoCall
  <1>2. BeatInv'
    BY DEF BeatInv
  <1>3. RunInv'
    BY DEF RunInv, RunPoints, Mine
  <1>4. LeaseInv'
    BY DEF LeaseInv, BeatInv, Mine
  <1> QED
    BY <1>1, <1>2, <1>3, <1>4

LEMMA DrainInv ==
    ASSUME WorkerInv, Drain
    PROVE  WorkerInv'
  <1> USE DEF WorkerInv, Drain, GoTo, beat
  <1>1. TypeOK'
    BY StoredRows DEF TypeOK, BeatInv, Points, Leases, Calls, NoCall, Terminal, BeatEnds
  <1> USE DEF TypeOK, Rows, Terminal, Leases, Calls, NoCall
  <1>2. BeatInv'
    BY DEF BeatInv
  <1>3. RunInv'
    BY DEF RunInv, RunPoints, Mine
  <1>4. LeaseInv'
    BY DEF LeaseInv, BeatInv, Mine
  <1> QED
    BY <1>1, <1>2, <1>3, <1>4

LEMMA RestartInv ==
    ASSUME WorkerInv, Restart
    PROVE  WorkerInv'
  <1> USE DEF WorkerInv, Restart, Mine, Owned, GoTo, LockFree, beat
  <1>1. TypeOK'
    BY StoredRows DEF TypeOK, BeatInv, Points, Leases, Calls, NoCall, Terminal, BeatEnds
  <1> USE DEF TypeOK, Rows, Terminal, Leases, Calls, NoCall, Requeued
  <1>2. BeatInv'
    BY DEF BeatInv
  <1>3. RunInv'
    <2>1. handler' = handler /\ handler # "running"
      BY DEF RunInv, RunPoints
    <2>2. held' = held /\ row'.keyed = row.keyed
      BY DEF TypeOK
    <2> QED
      BY <2>1, <2>2 DEF RunInv
  <1>4. LeaseInv'
    BY DEF LeaseInv, BeatInv, Mine
  <1> QED
    BY <1>1, <1>2, <1>3, <1>4

LEMMA DeadlinePassesInv ==
    ASSUME WorkerInv, DeadlinePasses
    PROVE  WorkerInv'
  <1> USE DEF WorkerInv, DeadlinePasses, Fault, beat
  <1>1. TypeOK'
    BY StoredRows DEF TypeOK, BeatInv, Points, Leases, Calls, NoCall, Terminal, BeatEnds
  <1> USE DEF TypeOK, Rows, Terminal, Leases, Calls, NoCall
  <1>2. BeatInv'
    BY DEF BeatInv
  <1>3. RunInv'
    BY DEF RunInv, RunPoints, Mine
  <1>4. LeaseInv'
    BY DEF LeaseInv, BeatInv, Mine
  <1> QED
    BY <1>1, <1>2, <1>3, <1>4

LEMMA ExpireInv ==
    ASSUME WorkerInv, Expire
    PROVE  WorkerInv'
  <1> USE DEF WorkerInv, Expire, Mine, worker, beat
  <1>1. TypeOK'
    BY StoredRows DEF TypeOK, BeatInv, Points, Leases, Calls, NoCall, Terminal, BeatEnds
  <1> USE DEF TypeOK, Rows, Terminal, Leases, Calls, NoCall
  <1>2. BeatInv'
    BY DEF BeatInv
  <1>3. RunInv'
    BY DEF RunInv, RunPoints, Mine
  <1>4. LeaseInv'
    BY DEF LeaseInv, BeatInv, Mine
  <1> QED
    BY <1>1, <1>2, <1>3, <1>4

LEMMA ReclaimInv ==
    ASSUME WorkerInv, Reclaim
    PROVE  WorkerInv'
  <1> USE DEF WorkerInv, Reclaim, Mine, worker, beat
  <1>1. TypeOK'
    BY StoredRows DEF TypeOK, BeatInv, Points, Leases, Calls, NoCall, Terminal, BeatEnds
  <1> USE DEF TypeOK, Rows, Terminal, Leases, Calls, NoCall, Requeued
  <1>2. BeatInv'
    BY DEF BeatInv
  <1>3. RunInv'
    BY DEF RunInv, RunPoints, Mine
  <1>4. LeaseInv'
    BY DEF LeaseInv, BeatInv, Mine
  <1> QED
    BY <1>1, <1>2, <1>3, <1>4

LEMMA CancelInv ==
    ASSUME WorkerInv, Cancel
    PROVE  WorkerInv'
  <1> USE DEF WorkerInv, Cancel, Mine, worker, beat
  <1>1. TypeOK'
    <2>1. row' \in Rows
      BY StoredRows DEF TypeOK, BeatInv, Leases, Terminal, NoCall
    <2>2. main' \in Points /\ auth' \in Leases /\ seen' \in Leases /\ faults' \in 0..MaxFaults
      BY StoredRows DEF TypeOK, BeatInv, Leases, Points, Calls, NoCall
    <2>3. hb' \in BeatEnds \cup {"off", "waiting", "renewing"} /\ call' \in Calls
      BY StoredRows DEF TypeOK, Calls, NoCall, BeatEnds, Leases
    <2>4. late' \in SUBSET Leases /\ handler' \in {"unstarted", "running", "returned"}
      BY DEF TypeOK, Calls
    <2>5. overdue' \in BOOLEAN /\ fenced' \in BOOLEAN /\ lost' \in BOOLEAN /\ held' \in BOOLEAN
      BY StoredRows DEF TypeOK
    <2> QED
      BY <2>1, <2>2, <2>3, <2>4, <2>5 DEF TypeOK
  <1> USE DEF TypeOK, Rows, Terminal, Leases, Calls, NoCall, Ended
  <1>2. BeatInv'
    BY DEF BeatInv
  <1>3. RunInv'
    BY DEF RunInv, RunPoints, Mine
  <1>4. LeaseInv'
    BY DEF LeaseInv, BeatInv, Mine
  <1> QED
    BY <1>1, <1>2, <1>3, <1>4

LEMMA FinishedByOthersInv ==
    ASSUME WorkerInv, FinishedByOthers
    PROVE  WorkerInv'
  <1> USE DEF WorkerInv, FinishedByOthers, Mine, worker, beat
  <1>1. TypeOK'
    BY StoredRows DEF TypeOK, BeatInv, Points, Leases, Calls, NoCall, Terminal, BeatEnds
  <1> USE DEF TypeOK, Rows, Terminal, Leases, Calls, NoCall, Ended
  <1>2. BeatInv'
    BY DEF BeatInv
  <1>3. RunInv'
    BY DEF RunInv, RunPoints, Mine
  <1>4. LeaseInv'
    BY DEF LeaseInv, BeatInv, Mine
  <1> QED
    BY <1>1, <1>2, <1>3, <1>4

LEMMA HoldInv ==
    ASSUME WorkerInv, Hold
    PROVE  WorkerInv'
  <1> USE DEF WorkerInv, Hold, Mine, worker, beat
  <1>1. TypeOK'
    BY StoredRows DEF TypeOK, BeatInv, Points, Leases, Calls, NoCall, Terminal, BeatEnds
  <1> USE DEF TypeOK, Rows, Terminal, Leases, Calls, NoCall
  <1>2. BeatInv'
    BY DEF BeatInv
  <1>3. RunInv'
    BY DEF RunInv, RunPoints, Mine
  <1>4. LeaseInv'
    BY DEF LeaseInv, BeatInv, Mine
  <1> QED
    BY <1>1, <1>2, <1>3, <1>4

LEMMA ResumeInv ==
    ASSUME WorkerInv, Resume
    PROVE  WorkerInv'
  <1> USE DEF WorkerInv, Resume, Mine, worker, beat
  <1>1. TypeOK'
    BY StoredRows DEF TypeOK, BeatInv, Points, Leases, Calls, NoCall, Terminal, BeatEnds
  <1> USE DEF TypeOK, Rows, Terminal, Leases, Calls, NoCall
  <1>2. BeatInv'
    BY DEF BeatInv
  <1>3. RunInv'
    BY DEF RunInv, RunPoints, Mine
  <1>4. LeaseInv'
    BY DEF LeaseInv, BeatInv, Mine
  <1> QED
    BY <1>1, <1>2, <1>3, <1>4

LEMMA ReconcileAbandonedInv ==
    ASSUME WorkerInv, ReconcileAbandoned
    PROVE  WorkerInv'
  <1> USE DEF WorkerInv, ReconcileAbandoned, Mine, worker, beat
  <1>1. TypeOK'
    BY StoredRows DEF TypeOK, BeatInv, Points, Leases, Calls, NoCall, Terminal, BeatEnds
  <1> USE DEF TypeOK, Rows, Terminal, Leases, Calls, NoCall, Ended
  <1>2. BeatInv'
    BY DEF BeatInv
  <1>3. RunInv'
    BY DEF RunInv, RunPoints, Mine
  <1>4. LeaseInv'
    BY DEF LeaseInv, BeatInv, Mine
  <1> QED
    BY <1>1, <1>2, <1>3, <1>4

LEMMA OtherRunsInv ==
    ASSUME WorkerInv, OtherRuns
    PROVE  WorkerInv'
  <1> USE DEF WorkerInv, OtherRuns, worker, beat
  <1>1. TypeOK'
    BY StoredRows DEF TypeOK, BeatInv, Points, Leases, Calls, NoCall, Terminal, BeatEnds
  <1> USE DEF TypeOK, Rows, Terminal, Leases, Calls, NoCall
  <1>2. BeatInv'
    BY DEF BeatInv
  <1>3. RunInv'
    BY DEF RunInv, RunPoints, Mine
  <1>4. LeaseInv'
    BY DEF LeaseInv, BeatInv, Mine
  <1> QED
    BY <1>1, <1>2, <1>3, <1>4

LEMMA CrashInv ==
    ASSUME WorkerInv, Crash
    PROVE  WorkerInv'
  <1> USE DEF WorkerInv, Crash, Fault, beat
  <1>1. TypeOK'
    BY StoredRows DEF TypeOK, BeatInv, Points, Leases, Calls, NoCall, Terminal, BeatEnds
  <1> USE DEF TypeOK, Rows, Terminal, Leases, Calls, NoCall
  <1>2. BeatInv'
    BY DEF BeatInv
  <1>3. RunInv'
    BY DEF RunInv, RunPoints, Mine
  <1>4. LeaseInv'
    BY DEF LeaseInv, BeatInv, Mine
  <1> QED
    BY <1>1, <1>2, <1>3, <1>4

-----------------------------------------------------------------------------
LEMMA WorkerInvInit == Init => WorkerInv
  <1> SUFFICES ASSUME Init PROVE WorkerInv
    OBVIOUS
  <1>1. TypeOK
    <2>1. row \in Rows
      <3>1. row \in [status : {"claimed"}, owner : {"me"}, lease : {0}, started : {FALSE},
                     requested : {FALSE}, expired : {FALSE}, restartable : BOOLEAN, keyed : BOOLEAN]
        BY DEF Init
      <3>2. 0 \in Leases
        BY DEF Leases
      <3> QED
        BY <3>1, <3>2 DEF Rows
    <2>2. call \in Calls /\ auth \in Leases /\ seen \in Leases /\ faults \in 0..MaxFaults
      BY DEF Init, Calls, NoCall, Leases
    <2>3. /\ main \in Points /\ hb \in BeatEnds \cup {"off", "waiting", "renewing"}
          /\ late \in SUBSET Leases /\ handler \in {"unstarted", "running", "returned"}
      BY DEF Init, Points
    <2>4. overdue \in BOOLEAN /\ fenced \in BOOLEAN /\ lost \in BOOLEAN /\ held \in BOOLEAN
      BY DEF Init
    <2> QED
      BY <2>1, <2>2, <2>3, <2>4 DEF TypeOK
  <1>2. row.lease = 0
    BY DEF Init
  <1> QED
    BY <1>1, <1>2 DEF Init, WorkerInv, BeatInv, RunInv, LeaseInv, NoCall

LEMMA WorkerInvStep ==
    ASSUME WorkerInv, [Next]_vars
    PROVE  WorkerInv'
  <1>1. CASE MainStep
    BY <1>1, RenewClaimInv, EnterInv, SuperviseInv, QuiesceRenewsInv, QuiescedInv, FinalizeInv,
       SettleLoadsInv, SettleTerminalizesInv, SettleReconcilesInv,
       FenceLoadsInv, FenceRequestsInv, DrainInv, RestartInv
    DEF MainStep
  <1>2. CASE BeatStep
    BY <1>2, HeartbeatAnsweredInv, HeartbeatTimesOutInv, HeartbeatEndsInv DEF BeatStep
  <1>3. CASE UNCHANGED vars
    BY <1>3 DEF vars, WorkerInv, TypeOK, BeatInv, RunInv, LeaseInv, Mine
  <1> QED
    BY <1>1, <1>2, <1>3, HeartbeatSendsInv, StoreRenewsInv, LateRenewalInv, HandlerSettlesInv,
       HandlerReturnsInv, ReleaseUnstartedInv, OwnerCancelledInv, DeadlinePassesInv, ExpireInv,
       ReclaimInv, CancelInv, FinishedByOthersInv, HoldInv, ResumeInv, ReconcileAbandonedInv, OtherRunsInv, CrashInv
    DEF Next

(* The inductive invariant of a worker, its heartbeat, its handler and the *)
(* calls of others.                                                        *)
THEOREM WorkerInvariant == Spec => []WorkerInv
  BY WorkerInvInit, WorkerInvStep, PTL DEF Spec

(* The row, the worker's coroutine, its heartbeat and the renewals under   *)
(* way keep their types for any number of renewals and faults.             *)
THEOREM TypeCorrect == Spec => []TypeOK
  BY WorkerInvariant, PTL DEF WorkerInv

(* While a handler runs, no step of anyone reports its task cancelled,     *)
(* requeues it or gives it to another worker, except after a hold of the   *)
(* running claim; and a hold of it is refused if the task is keyed.        *)
THEOREM RunningHandlersKeepTheirTask == Spec => []HandlerKeepsItsTask
  <1>1. WorkerInv => HandlerKeepsItsTask
    BY DEF WorkerInv, RunInv, HandlerKeepsItsTask, Mine
  <1> QED
    BY <1>1, WorkerInvariant, PTL

(* Only finalize_handler_outcome ends the finalizing of a worker that is   *)
(* neither cancelled nor crashed.                                          *)
LEMMA OnlyFinalizeEnds ==
    ASSUME WorkerInv, Next, main = "finalizing", main' = "done", faults' = faults
    PROVE  Finalize
  <1>1. faults + 1 # faults
    BY DEF WorkerInv, TypeOK
  <1>2. ~(RenewClaim \/ Enter \/ Supervise \/ QuiesceRenews \/ Quiesced \/ SettleLoads
            \/ SettleTerminalizes \/ SettleReconciles \/ FenceLoads \/ FenceRequests
            \/ Drain \/ Restart)
    BY DEF RenewClaim, Enter, Supervise, QuiesceRenews, Quiesced, SettleLoads,
           SettleTerminalizes, SettleReconciles, FenceLoads, FenceRequests, Drain, Restart
  <1>3. ~(HeartbeatAnswered \/ HeartbeatTimesOut \/ HeartbeatEnds \/ HeartbeatSends
            \/ StoreRenews \/ LateRenewal \/ HandlerSettles \/ HandlerReturns)
    BY DEF HeartbeatAnswered, HeartbeatTimesOut, HeartbeatEnds, HeartbeatSends,
           StoreRenews, LateRenewal, HandlerSettles, HandlerReturns, worker
  <1>4. ~(ReleaseUnstarted \/ OwnerCancelled \/ DeadlinePasses \/ Crash)
    BY <1>1 DEF ReleaseUnstarted, OwnerCancelled, DeadlinePasses, Crash, Fault
  <1>5. ~(Expire \/ Reclaim \/ Cancel \/ FinishedByOthers \/ Hold \/ Resume
            \/ ReconcileAbandoned \/ OtherRuns)
    BY DEF Expire, Reclaim, Cancel, FinishedByOthers, Hold, Resume, ReconcileAbandoned, OtherRuns, worker
  <1> QED
    BY <1>2, <1>3, <1>4, <1>5 DEF Next, MainStep, BeatStep

(* A worker that holds its lease and has heard every answer presents the   *)
(* lease of the row when it settles the outcome, so no renewal of its own  *)
(* has it refused.                                                         *)
THEOREM OutcomesAreNotFencedByRenewals == Spec => OwnRenewalsNeverFenceTheOutcome
  <1>1. ASSUME WorkerInv, Next, main = "finalizing", main' = "done", faults' = faults,
               Mine, ~row.expired, ~lost
        PROVE  row'.status \in Terminal
    <2>1. Finalize
      BY <1>1, OnlyFinalizeEnds
    <2>2. call.answer = "idle"
      BY <1>1, <2>1 DEF Finalize, LockFree, WorkerInv, BeatInv, NoCall
    <2>3. row.lease = auth
      BY <1>1, <2>2 DEF WorkerInv, LeaseInv
    <2>4. row' = Ended("cancelled") \/ row' = Ended("failed")
      BY <1>1, <2>1, <2>3 DEF Finalize, Owned
    <2> QED
      BY <1>1, <2>4 DEF WorkerInv, TypeOK, Rows, Ended, Terminal
  <1>2. WorkerInv /\ [Next]_vars =>
          [ /\ main = "finalizing" /\ main' = "done" /\ faults' = faults
            /\ Mine /\ ~row.expired /\ ~lost
            => row'.status \in Terminal ]_vars
    BY <1>1
  <1> QED
    BY <1>2, WorkerInvariant, PTL DEF Spec, OwnRenewalsNeverFenceTheOutcome

=============================================================================
