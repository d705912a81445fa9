---------------------- MODULE TaskStoreHandoffProofs ----------------------
(***************************************************************************)
(* Proofs about handoffs, continuation grants and terminalization receipts *)
(* of the task store.  The index follows from the shape of Store alone.    *)
(* For the rest, every step is one of three: it keeps each row's handoff   *)
(* with its worker or drops it, it hands one row off and leaves a receipt, *)
(* or it grants one row to the worker of a fresh generation.               *)
(***************************************************************************)
EXTENDS TaskStoreProofs

(* The handoff of row t survives only together with its worker. *)
KeepsHandoff(t) ==
    \/ tasks'[t] = tasks[t]
    \/ tasks'[t].handoff = None
    \/ /\ tasks'[t].handoff = tasks[t].handoff
       /\ tasks'[t].worker = tasks[t].worker
       /\ tasks'[t].worker # None

KeepStep ==
    /\ UNCHANGED <<claims, handoffReceipts>>
    /\ \A t \in TaskIds : KeepsHandoff(t)

HandoffStep ==
    /\ UNCHANGED claims
    /\ \E t \in TaskIds, parked \in BOOLEAN :
          /\ \A u \in TaskIds \ {t} : KeepsHandoff(u)
          /\ tasks'[t].handoff \in WorkerHandoffIds
          /\ handoffReceipts' = handoffReceipts \cup
               {[task |-> t, id |-> tasks'[t].handoff, parked |-> parked,
                 snapshot |-> tasks'[t]]}

GrantStep ==
    /\ UNCHANGED handoffReceipts
    /\ \E t \in TaskIds, w \in WorkerIds, c \in ClaimIds :
          /\ \A u \in TaskIds \ {t} : KeepsHandoff(u)
          /\ tasks'[t].handoff = c /\ tasks'[t].worker = w
          /\ claims[c] = None
          /\ claims' = [claims EXCEPT ![c] = [task |-> t, worker |-> w]]

-----------------------------------------------------------------------------
(* The index. *)

(* A publication that Store accepts keeps the index exact. *)
LEMMA StoreIndex ==
    ASSUME TypeOK, HandoffIndexExact, NEW t \in TaskIds, NEW n \in Tasks, Store(t, n)
    PROVE  HandoffIndexExact'
  <1> DEFINE h == tasks[t].handoff
             g == n.handoff
  <1>1. /\ tasks' \in [TaskIds -> Tasks] /\ tasks'[t] = n
        /\ \A u \in TaskIds \ {t} : tasks'[u] = tasks[u]
    BY DEF TypeOK, Store
  <1>2. \A u \in TaskIds : \A x : <<x, u>> \in handoffIndex <=> x = tasks[u].handoff /\ x # None
    BY DEF HandoffIndexExact
  <1>3. \A p \in handoffIndex : p = <<p[1], p[2]>> /\ p[2] \in TaskIds
    BY DEF TypeOK
  <1>4. \A u \in TaskIds \ {t} : g # None => tasks[u].handoff # g
    BY <1>2 DEF Store
  <1>5. \A u \in TaskIds \ {t} : h # None => tasks[u].handoff # h
    BY DEF HandoffIndexExact
  <1>6. \A u, v \in TaskIds :
           tasks'[u].handoff # None /\ tasks'[u].handoff = tasks'[v].handoff => u = v
    BY <1>1, <1>4 DEF HandoffIndexExact
  <1>7. ASSUME NEW u \in TaskIds, tasks'[u].handoff # None
        PROVE  <<tasks'[u].handoff, u>> \in handoffIndex'
    <2>1. CASE u = t
      BY <1>1, <1>2, <1>7, <2>1 DEF Store
    <2>2. CASE u # t
      <3>1. <<tasks[u].handoff, u>> \in handoffIndex /\ tasks[u].handoff # h
        BY <1>1, <1>2, <1>5, <1>7, <2>2
      <3> QED
        BY <1>1, <2>2, <3>1 DEF Store
    <2> QED
      BY <2>1, <2>2
  <1>8. ASSUME NEW p \in handoffIndex'
        PROVE  \E u \in TaskIds : p = <<tasks'[u].handoff, u>> /\ tasks'[u].handoff # None
    <2>1. CASE p = <<g, t>> /\ g # None
      BY <1>1, <2>1
    <2>2. CASE ~(p = <<g, t>> /\ g # None)
      <3>1. p \in handoffIndex /\ (h = g \/ p[1] # h)
        BY <1>8, <2>2 DEF Store
      <3>2. p = <<p[1], p[2]>> /\ p[2] \in TaskIds /\ p[1] = tasks[p[2]].handoff /\ p[1] # None
        BY <1>2, <1>3, <3>1
      <3>3. p[2] # t
        BY <1>1, <2>2, <3>1, <3>2
      <3> QED
        BY <1>1, <3>2, <3>3
    <2> QED
      BY <2>1, <2>2
  <1>9. handoffIndex' = {<<tasks'[u].handoff, u>> :
                            u \in {v \in TaskIds : tasks'[v].handoff # None}}
    BY <1>7, <1>8
  <1> QED
    BY <1>6, <1>9 DEF HandoffIndexExact

LEMMA IndexStep ==
    ASSUME RowInv, HandoffIndexExact, [Next]_vars
    PROVE  HandoffIndexExact'
  <1>1. TypeOK
    BY DEF RowInv
  <1>2. CASE RowStep
    BY <1>1, <1>2, StoreIndex DEF RowStep
  <1>3. CASE ReclaimStep
    <2>1. PICK S \in SUBSET ExpiredClaims : ReclaimExpired(S)
      BY <1>3 DEF ReclaimStep
    <2>2. \A u \in TaskIds : tasks'[u].handoff = tasks[u].handoff
      BY <2>1, ReclaimedRow DEF ReclaimExpired
    <2>3. handoffIndex' = handoffIndex
      BY <2>1 DEF ReclaimExpired
    <2>4. {u \in TaskIds : tasks'[u].handoff # None} = {u \in TaskIds : tasks[u].handoff # None}
      BY <2>2
    <2> QED
      BY <2>2, <2>3, <2>4 DEF HandoffIndexExact
  <1>4. CASE QuietStep
    BY <1>4 DEF QuietStep, HandoffIndexExact
  <1> QED
    BY <1>2, <1>3, <1>4, NextStep

(* The handoff index names exactly the generations on the rows, and no two *)
(* rows share one, for every interleaving of the store's operations.       *)
THEOREM IndexIsExact == Spec => []HandoffIndexExact
  <1>1. Init => HandoffIndexExact
    BY DEF Init, HandoffIndexExact, AbsentTask
  <1> QED
    BY <1>1, IndexStep, RowInvariant, PTL DEF Spec

-----------------------------------------------------------------------------
(* Handoffs, grants and receipts: what a step may do. *)

(* Publishing n for t leaves the handoffs of the other rows alone. *)
LEMMA StoreKeeps ==
    ASSUME RowInv, NEW t \in TaskIds, NEW n, Store(t, n)
    PROVE  /\ tasks'[t] = n
           /\ \A u \in TaskIds \ {t} : KeepsHandoff(u)
  BY DEF RowInv, TypeOK, Store, KeepsHandoff

(* A published row without a handoff, or with that of its worker, keeps. *)
LEMMA KeepsByStore ==
    ASSUME RowInv, NEW t \in TaskIds, NEW n, Store(t, n),
           \/ n.handoff = None
           \/ /\ n.handoff = tasks[t].handoff
              /\ n.worker = tasks[t].worker
              /\ n.worker # None,
           UNCHANGED <<claims, handoffReceipts>>
    PROVE  KeepStep
  BY StoreKeeps DEF KeepStep, KeepsHandoff

(* Only an attached running row has a handoff. *)
LEMMA NoHandoff ==
    ASSUME RowInv, NEW t \in TaskIds,
           tasks[t].status # "RUNNING" \/ tasks[t].session = None
    PROVE  tasks[t] \in Tasks /\ tasks[t].handoff = None
  BY StoredRow DEF RowConsistent

LEMMA QueueStepKeeps ==
    ASSUME RowInv, QueueStep
    PROVE  KeepStep
  <1>1. ASSUME NEW t \in TaskIds, NEW s \in SessionIds \cup {None}, CreateTask(t, s)
        PROVE  KeepStep
    BY <1>1, KeepsByStore DEF CreateTask, AbsentTask
  <1>2. ASSUME NEW w \in WorkerIds, NEW q \in Queries, NEW d \in LeaseSeconds,
               ClaimTask(w, q, d)
        PROVE  KeepStep
    <2>1. PICK t \in ClaimCandidates(q) :
             Store(t, [tasks[t] EXCEPT !.status = "CLAIMED", !.worker = w, !.lease = now + d])
      BY <1>2 DEF ClaimTask
    <2>2. t \in TaskIds /\ tasks[t].status = "PENDING"
      BY ConstantsAssumption DEF ClaimCandidates
    <2>3. UNCHANGED <<claims, handoffReceipts>>
      BY <1>2 DEF ClaimTask, Records
    <2>4. [tasks[t] EXCEPT !.status = "CLAIMED", !.worker = w, !.lease = now + d].handoff = None
      BY <2>2, NoHandoff DEF Tasks
    <2> QED
      BY <2>1, <2>2, <2>3, <2>4, KeepsByStore
  <1>3. ASSUME NEW S \in SUBSET ExpiredClaims, ReclaimExpired(S)
        PROVE  KeepStep
    <2>1. ASSUME NEW t \in TaskIds PROVE KeepsHandoff(t)
      <3>1. CASE t \in S
        BY <1>3, <3>1, ReclaimedRow, NoHandoff DEF ReclaimExpired, KeepsHandoff, ExpiredClaims
      <3>2. CASE t \notin S
        BY <1>3, <3>2 DEF ReclaimExpired, KeepsHandoff
      <3> QED
        BY <3>1, <3>2
    <2> QED
      BY <1>3, <2>1 DEF ReclaimExpired, Records, KeepStep
  <1>4. ASSUME NEW t \in TaskIds, NEW status \in Held, NEW reason, HoldTask(t, status, reason)
        PROVE  KeepStep
    <2>1. tasks[t] \in Tasks /\ tasks[t].handoff = None
      BY <1>4, NoHandoff DEF HoldTask, CanHold
    <2> QED
      BY <1>4, <2>1, KeepsByStore DEF HoldTask, Records, Tasks
  <1>5. ASSUME NEW t \in TaskIds, ResumeTask(t)
        PROVE  KeepStep
    <2>1. tasks[t] \in Tasks /\ tasks[t].handoff = None
      BY <1>5, NoHandoff DEF ResumeTask, Held
    <2> QED
      BY <1>5, <2>1, KeepsByStore DEF ResumeTask, Records, Tasks
  <1> QED
    BY <1>1, <1>2, <1>3, <1>4, <1>5 DEF QueueStep

(* A terminal row has no handoff. *)
LEMMA FinishKeeps ==
    ASSUME RowInv, NEW t \in TaskIds, NEW status, Store(t, FinishedTask(tasks[t], status)),
           UNCHANGED <<claims, handoffReceipts>>
    PROVE  KeepStep
  <1>1. FinishedTask(tasks[t], status).handoff = None
    BY StoredRow DEF FinishedTask, Tasks
  <1> QED
    BY <1>1, KeepsByStore

(* A fence leaves the handoff with its worker. *)
LEMMA FenceKeeps ==
    ASSUME RowInv, NEW t \in TaskIds, NEW code, Store(t, FencedTask(tasks[t], code)),
           tasks[t].worker # None, UNCHANGED <<claims, handoffReceipts>>
    PROVE  KeepStep
  <1>1. /\ FencedTask(tasks[t], code).handoff = tasks[t].handoff
        /\ FencedTask(tasks[t], code).worker = tasks[t].worker
    BY StoredRow DEF FencedTask, Tasks
  <1> QED
    BY <1>1, KeepsByStore

LEMMA DirectStepKeeps ==
    ASSUME RowInv, DirectStep
    PROVE  KeepStep
  <1>1. ASSUME NEW t \in TaskIds, NEW s \in SessionIds, CreateRunningTask(t, s)
        PROVE  KeepStep
    BY <1>1, KeepsByStore DEF CreateRunningTask, AbsentTask
  <1>2. ASSUME NEW t \in TaskIds, NEW s, StartTask(t, s)
        PROVE  KeepStep
    <2>1. tasks[t] \in Tasks /\ tasks[t].handoff = None
      BY <1>2, NoHandoff DEF StartTask
    <2> QED
      BY <1>2, <2>1, KeepsByStore DEF StartTask, Records, Tasks
  <1>3. ASSUME NEW t \in TaskIds, NEW status, FinishTask(t, status, None, None, None)
        PROVE  KeepStep
    BY <1>3, FinishKeeps DEF FinishTask, Records
  <1>4. ASSUME NEW t \in TaskIds, CancelTask(t)
        PROVE  KeepStep
    BY <1>4, FinishKeeps, FenceKeeps DEF CancelTask, Records
  <1> QED
    BY <1>1, <1>2, <1>3, <1>4 DEF DirectStep

(* A handoff is published with the receipt that vouches for it. *)
LEMMA SettleHandsOff ==
    ASSUME RowInv, NEW t \in TaskIds, NEW s \in SessionIds, NEW w \in WorkerIds, NEW l,
           NEW parked \in BOOLEAN, NEW recover,
           SettleInterruptedTaskHandoff(t, s, w, l, parked, recover)
    PROVE  HandoffStep
  <1> DEFINE k == tasks[t]
  <1>1. k \in Tasks /\ RowConsistent(k)
    BY StoredRow
  <1>2. k.session = s /\ k.worker = w
    BY DEF SettleInterruptedTaskHandoff
  <1>3. k.lease \in Nat /\ k.handoff \in ClaimIds \cup {None}
    BY <1>1, <1>2, NoneAssumption DEF RowConsistent, Tasks
  <1>4. WorkerHandoffId(t) \in WorkerHandoffIds
    BY <1>2, <1>3 DEF WorkerHandoffId, WorkerHandoffIds
  <1>5. HandedOffTask(t).handoff = WorkerHandoffId(t)
    BY <1>1 DEF HandedOffTask, Tasks
  <1>6. tasks'[t] = HandedOffTask(t) /\ \A u \in TaskIds \ {t} : KeepsHandoff(u)
    BY StoreKeeps DEF SettleInterruptedTaskHandoff
  <1> QED
    BY <1>4, <1>5, <1>6 DEF HandoffStep, SettleInterruptedTaskHandoff

(* A grant gives the row to the worker of a fresh generation. *)
LEMMA GrantGrants ==
    ASSUME RowInv, NEW t \in TaskIds, NEW w \in WorkerIds, NEW c \in ClaimIds, NEW d,
           FreshClaimId(c), GrantContinuation(t, w, c, d)
    PROVE  GrantStep
  <1> DEFINE n == [tasks[t] EXCEPT !.worker = w, !.lease = now + d, !.handoff = c]
  <1>1. n.handoff = c /\ n.worker = w
    BY StoredRow DEF Tasks
  <1>2. tasks'[t] = n /\ \A u \in TaskIds \ {t} : KeepsHandoff(u)
    BY StoreKeeps DEF GrantContinuation
  <1> QED
    BY <1>1, <1>2 DEF GrantStep, GrantContinuation, FreshClaimId

LEMMA OwnerStepKeeps ==
    ASSUME RowInv, OwnerStep
    PROVE  KeepStep \/ HandoffStep
  <1>1. PICK t \in TaskIds, w \in WorkerIds, l \in Leases :
        \/ \E h \in Generations, d \in LeaseSeconds : Heartbeat(t, w, l, h, d)
        \/ MarkClaimedTaskExecutionStarted(t, w, l)
        \/ \E s \in SessionIds : AttachTask(t, s, w, l)
        \/ ReleaseTask(t, w, l)
        \/ ReleaseAttachedTaskWorker(t, w, l)
        \/ \E status \in {"COMPLETED", "FAILED"}, h \in Generations :
              FinishTask(t, status, w, l, h)
        \/ \E h \in Generations, kind \in Terminal, key \in TerminalizationKeys :
              TerminalizeTask(t, w, l, h, kind, key)
        \/ \E code \in FenceCodes \cup {None} :
              RequestClaimedTaskCancellation(t, w, l, code)
        \/ RestartTask(t, w, l)
        \/ \E s \in SessionIds, parked \in BOOLEAN :
              SettleInterruptedTaskHandoff(t, s, w, l, parked, FALSE)
    BY DEF OwnerStep
  <1>0. tasks[t] \in Tasks /\ w # None
    BY StoredRow, NoneAssumption
  <1>2. ASSUME NEW h, NEW d, Heartbeat(t, w, l, h, d)
        PROVE  KeepStep
    BY <1>0, <1>2, KeepsByStore DEF Heartbeat, OwnsExact, OwnsLive, Records, Tasks
  <1>3. CASE MarkClaimedTaskExecutionStarted(t, w, l)
    <2>1. tasks[t].handoff = None
      BY <1>3, NoHandoff DEF MarkClaimedTaskExecutionStarted
    <2> QED
      BY <1>0, <1>3, <2>1, KeepsByStore DEF MarkClaimedTaskExecutionStarted, Records, Tasks
  <1>4. ASSUME NEW s, AttachTask(t, s, w, l)
        PROVE  KeepStep
    <2>1. tasks[t].handoff = None
      BY <1>4, NoHandoff DEF AttachTask
    <2> QED
      BY <1>0, <1>4, <2>1, KeepsByStore DEF AttachTask, Records, Tasks
  <1>5. CASE ReleaseTask(t, w, l)
    <2>1. tasks[t].handoff = None
      BY <1>5, NoHandoff DEF ReleaseTask
    <2> QED
      BY <1>0, <1>5, <2>1, KeepsByStore DEF ReleaseTask, Records, Tasks
  <1>6. CASE ReleaseAttachedTaskWorker(t, w, l)
    BY <1>0, <1>6, KeepsByStore DEF ReleaseAttachedTaskWorker, Records, Tasks
  <1>7. ASSUME NEW status, NEW h, FinishTask(t, status, w, l, h)
        PROVE  KeepStep
    BY <1>7, FinishKeeps DEF FinishTask, Records
  <1>8. ASSUME NEW h, NEW kind, NEW key, TerminalizeTask(t, w, l, h, kind, key)
        PROVE  KeepStep
    BY <1>8, FinishKeeps DEF TerminalizeTask, RecordReceipt
  <1>9. ASSUME NEW code, RequestClaimedTaskCancellation(t, w, l, code)
        PROVE  KeepStep
    BY <1>0, <1>9, FenceKeeps DEF RequestClaimedTaskCancellation, Records
  <1>10. CASE RestartTask(t, w, l)
    BY <1>0, <1>10, KeepsByStore DEF RestartTask, RequeuedTask, Tasks
  <1>11. ASSUME NEW s \in SessionIds, NEW parked \in BOOLEAN,
                SettleInterruptedTaskHandoff(t, s, w, l, parked, FALSE)
         PROVE  HandoffStep
    BY <1>11, SettleHandsOff
  <1> QED
    BY <1>1, <1>2, <1>3, <1>4, <1>5, <1>6, <1>7, <1>8, <1>9, <1>10, <1>11

LEMMA RecoveryStepKeeps ==
    ASSUME RowInv, RecoveryStep
    PROVE  KeepStep \/ HandoffStep \/ GrantStep
  <1>1. ASSUME NEW t \in TaskIds, NEW s, NEW w, NEW l, NEW h, NEW key,
               RecoverAttachedTaskFailure(t, s, w, l, h, key)
        PROVE  KeepStep
    BY <1>1, FinishKeeps DEF RecoverAttachedTaskFailure, RecordReceipt
  <1>2. ASSUME NEW t \in TaskIds, NEW w \in WorkerIds, NEW l, NEW s \in SessionIds,
               NEW parked \in BOOLEAN, SettleInterruptedTaskHandoff(t, s, w, l, parked, TRUE)
        PROVE  HandoffStep
    BY <1>2, SettleHandsOff
  <1>3. ASSUME NEW t \in TaskIds, NEW w, NEW l, NEW e, RestartAbandonedTask(t, w, l, e)
        PROVE  KeepStep
    <2>1. tasks[t] \in Tasks
      BY StoredRow
    <2> QED
      BY <1>3, <2>1, KeepsByStore DEF RestartAbandonedTask, RequeuedTask, Records, Tasks
  <1>4. ASSUME NEW t \in TaskIds, NEW w, NEW l, NEW h, NEW rk,
               ReconcileTaskCancellation(t, w, l, h, rk)
        PROVE  KeepStep
    BY <1>4, FinishKeeps DEF ReconcileTaskCancellation, RecordReceipt
  <1>5. ASSUME NEW t \in TaskIds, NEW w, NEW l, NEW h, NEW rk,
               RejectTaskCancellationReconciliation(t, w, l, h, rk)
        PROVE  KeepStep
    BY <1>5 DEF RejectTaskCancellationReconciliation, KeepStep, KeepsHandoff
  <1>6. ASSUME NEW w \in WorkerIds, NEW c \in ClaimIds, NEW d, NEW q \in Queries,
               ClaimInterruptedTaskContinuation(w, q, c, d)
        PROVE  GrantStep
    BY <1>6, GrantGrants, ConstantsAssumption
    DEF ClaimInterruptedTaskContinuation, ContinuationCandidates
  <1>7. ASSUME NEW w \in WorkerIds, NEW c \in ClaimIds, NEW d, NEW r \in handoffReceipts,
               ClaimBoundTaskContinuation(r.task, r.id, r.parked, w, c, d)
        PROVE  GrantStep
    <2>1. r.task \in TaskIds
      BY DEF RowInv, TypeOK, HandoffReceipts
    <2> QED
      BY <1>7, <2>1, GrantGrants DEF ClaimBoundTaskContinuation
  <1> QED
    BY <1>1, <1>2, <1>3, <1>4, <1>5, <1>6, <1>7 DEF RecoveryStep

(* Every step keeps the handoffs, hands one row off, or grants one. *)
LEMMA StepKeeps ==
    ASSUME RowInv, [Next]_vars
    PROVE  KeepStep \/ HandoffStep \/ GrantStep
  <1>1. CASE LeaselessTerminalization
    BY <1>1, FinishKeeps DEF LeaselessTerminalization, TerminalizeTask, RecordReceipt
  <1>2. CASE Tick
    BY <1>2 DEF Tick, Records, KeepStep, KeepsHandoff
  <1>3. CASE UNCHANGED vars
    BY <1>3 DEF vars, KeepStep, KeepsHandoff
  <1> QED
    BY <1>1, <1>2, <1>3, QueueStepKeeps, DirectStepKeeps, OwnerStepKeeps, RecoveryStepKeeps
    DEF Next

-----------------------------------------------------------------------------
(* Grants. *)

LEMMA GrantedStep ==
    ASSUME RowInv, GenerationsGranted, [Next]_vars
    PROVE  GenerationsGranted'
  <1>0. None \notin ClaimIds
    BY NoneAssumption DEF HandoffIds
  <1>1. claims \in [ClaimIds -> [task : TaskIds, worker : WorkerIds] \cup {None}]
    BY DEF RowInv, TypeOK
  <1>2. ASSUME NEW t \in TaskIds, KeepsHandoff(t), tasks'[t].handoff \in ClaimIds
        PROVE  /\ claims[tasks'[t].handoff] # None
               /\ claims[tasks'[t].handoff].task = t
               /\ tasks'[t].worker = claims[tasks'[t].handoff].worker
    BY <1>0, <1>2 DEF KeepsHandoff, GenerationsGranted
  <1>3. CASE KeepStep
    BY <1>2, <1>3 DEF KeepStep, GenerationsGranted
  <1>4. CASE HandoffStep
    BY <1>2, <1>4, NoneAssumption DEF HandoffStep, GenerationsGranted
  <1>5. CASE GrantStep
    <2>1. PICK t \in TaskIds, w \in WorkerIds, c \in ClaimIds :
             /\ \A u \in TaskIds \ {t} : KeepsHandoff(u)
             /\ tasks'[t].handoff = c /\ tasks'[t].worker = w
             /\ claims[c] = None
             /\ claims' = [claims EXCEPT ![c] = [task |-> t, worker |-> w]]
      BY <1>5 DEF GrantStep
    <2>2. claims'[c] = [task |-> t, worker |-> w] /\ claims'[c] # None
      BY <1>1, <2>1, NoneAssumption
    <2>3. \A x \in ClaimIds : claims[x] # None => claims'[x] = claims[x]
      BY <1>1, <2>1
    <2>4. ASSUME NEW u \in TaskIds, tasks'[u].handoff \in ClaimIds
          PROVE  /\ claims'[tasks'[u].handoff] # None
                 /\ claims'[tasks'[u].handoff].task = u
                 /\ tasks'[u].worker = claims'[tasks'[u].handoff].worker
      <3>1. CASE u = t
        BY <2>1, <2>2, <3>1
      <3>2. CASE u # t
        BY <1>2, <2>1, <2>3, <2>4, <3>2
      <3> QED
        BY <3>1, <3>2
    <2> QED
      BY <2>4 DEF GenerationsGranted
  <1> QED
    BY <1>3, <1>4, <1>5, StepKeeps

(* A generation on a row was granted by claim_interrupted_task_            *)
(* continuation, once, to that row and to the worker that holds it.        *)
THEOREM GrantsAreExact == Spec => []GenerationsGranted
  <1>1. Init => GenerationsGranted
    BY NoneAssumption DEF Init, GenerationsGranted, AbsentTask, HandoffIds
  <1> QED
    BY <1>1, GrantedStep, RowInvariant, PTL DEF Spec

-----------------------------------------------------------------------------
(* Handoff receipts. *)

LEMMA VouchedStep ==
    ASSUME RowInv, HandoffsVouched, [Next]_vars
    PROVE  HandoffsVouched'
  <1>1. ASSUME NEW t \in TaskIds, KeepsHandoff(t), HandedOff(t)'
        PROVE  \E r \in handoffReceipts :
                  /\ r.task = t /\ r.id = tasks'[t].handoff
                  /\ r.snapshot = tasks'[t] /\ r.parked \in BOOLEAN
    <2>1. tasks'[t] = tasks[t] /\ HandedOff(t)
      BY <1>1 DEF KeepsHandoff, HandedOff
    <2>2. \E parked \in BOOLEAN : VouchedHandoff(t, parked)
      BY <2>1 DEF HandoffsVouched
    <2> QED
      BY <2>1, <2>2 DEF VouchedHandoff
  <1>2. ASSUME NEW t \in TaskIds, NEW r \in handoffReceipts', r.task = t,
               r.id = tasks'[t].handoff, r.snapshot = tasks'[t], r.parked \in BOOLEAN
        PROVE  (\E parked \in BOOLEAN : VouchedHandoff(t, parked))'
    <2>1. VouchedHandoff(t, r.parked)'
      BY <1>2 DEF VouchedHandoff
    <2> QED
      BY <1>2, <2>1
  <1>3. CASE KeepStep \/ GrantStep
    <2>1. ASSUME NEW t \in TaskIds, HandedOff(t)'
          PROVE  KeepsHandoff(t)
      BY <1>3, <2>1, NoneAssumption DEF KeepStep, GrantStep, HandedOff
    <2>2. handoffReceipts' = handoffReceipts
      BY <1>3 DEF KeepStep, GrantStep
    <2> QED
      BY <1>1, <1>2, <2>1, <2>2 DEF HandoffsVouched
  <1>4. CASE HandoffStep
    <2>1. PICK t \in TaskIds, parked \in BOOLEAN :
             /\ \A u \in TaskIds \ {t} : KeepsHandoff(u)
             /\ handoffReceipts' = handoffReceipts \cup
                  {[task |-> t, id |-> tasks'[t].handoff, parked |-> parked,
                    snapshot |-> tasks'[t]]}
      BY <1>4 DEF HandoffStep
    <2>2. ASSUME NEW u \in TaskIds, HandedOff(u)'
          PROVE  (\E x \in BOOLEAN : VouchedHandoff(u, x))'
      <3>1. CASE u = t
        <4> DEFINE r == [task |-> t, id |-> tasks'[t].handoff, parked |-> parked,
                         snapshot |-> tasks'[t]]
        <4>1. r \in handoffReceipts'
          BY <2>1
        <4>2. r.task = t /\ r.id = tasks'[t].handoff /\ r.snapshot = tasks'[t]
              /\ r.parked \in BOOLEAN
          OBVIOUS
        <4> HIDE DEF r
        <4> QED
          BY <1>2, <3>1, <4>1, <4>2
      <3>2. CASE u # t
        BY <1>1, <1>2, <2>1, <2>2, <3>2
      <3> QED
        BY <3>1, <3>2
    <2> QED
      BY <2>2 DEF HandoffsVouched
  <1> QED
    BY <1>3, <1>4, StepKeeps

(* A task handed off by its worker always has the receipt under which it   *)
(* can be continued, for the row exactly as it is stored.                  *)
THEOREM HandoffsAreVouched == Spec => []HandoffsVouched
  <1>1. Init => HandoffsVouched
    BY DEF Init, HandoffsVouched, HandedOff, AbsentTask
  <1> QED
    BY <1>1, VouchedStep, RowInvariant, PTL DEF Spec

-----------------------------------------------------------------------------
(* Terminalization receipts. *)

(* A new receipt records the terminal row that is published with it. *)
ReceiptStep ==
    \/ UNCHANGED receipts
    \/ \E t \in TaskIds, key \in TerminalizationKeys, w \in WorkerIds, kind \in Terminal :
          /\ receipts' = receipts \cup
               {[task |-> t, key |-> key, worker |-> w, kind |-> kind, snapshot |-> tasks'[t]]}
          /\ tasks'[t].status = kind

LEMMA ReceiptedFinish ==
    ASSUME TypeOK, NEW t \in TaskIds, NEW key \in TerminalizationKeys, NEW w \in WorkerIds,
           NEW kind \in Terminal,
           Store(t, FinishedTask(tasks[t], kind)),
           RecordReceipt(t, key, w, kind, FinishedTask(tasks[t], kind))
    PROVE  ReceiptStep
  <1>1. tasks'[t] = FinishedTask(tasks[t], kind)
    BY DEF TypeOK, Store
  <1>2. tasks'[t].status = kind
    BY <1>1 DEF TypeOK, Tasks, FinishedTask
  <1> QED
    BY <1>1, <1>2 DEF RecordReceipt, ReceiptStep

LEMMA OwnerStepReceipts ==
    ASSUME TypeOK, OwnerStep
    PROVE  ReceiptStep
  <1>1. PICK t \in TaskIds, w \in WorkerIds, l \in Leases :
          \/ \E h \in Generations, d \in LeaseSeconds : Heartbeat(t, w, l, h, d)
          \/ MarkClaimedTaskExecutionStarted(t, w, l)
          \/ \E s \in SessionIds : AttachTask(t, s, w, l)
          \/ ReleaseTask(t, w, l)
          \/ ReleaseAttachedTaskWorker(t, w, l)
          \/ \E status \in {"COMPLETED", "FAILED"}, h \in Generations :
                FinishTask(t, status, w, l, h)
          \/ \E h \in Generations, kind \in Terminal, key \in TerminalizationKeys :
                TerminalizeTask(t, w, l, h, kind, key)
          \/ \E code \in FenceCodes \cup {None} :
                RequestClaimedTaskCancellation(t, w, l, code)
          \/ RestartTask(t, w, l)
          \/ \E s \in SessionIds, parked \in BOOLEAN :
                SettleInterruptedTaskHandoff(t, s, w, l, parked, FALSE)
    BY DEF OwnerStep
  <1>2. CASE \E h \in Generations, kind \in Terminal, key \in TerminalizationKeys :
                TerminalizeTask(t, w, l, h, kind, key)
    BY <1>2, ReceiptedFinish DEF TerminalizeTask
  <1>3. CASE \/ \E h \in Generations, d \in LeaseSeconds : Heartbeat(t, w, l, h, d)
             \/ MarkClaimedTaskExecutionStarted(t, w, l)
             \/ \E s \in SessionIds : AttachTask(t, s, w, l)
             \/ ReleaseTask(t, w, l)
             \/ ReleaseAttachedTaskWorker(t, w, l)
    BY <1>3 DEF Heartbeat, MarkClaimedTaskExecutionStarted, AttachTask, ReleaseTask,
                ReleaseAttachedTaskWorker, Records, ReceiptStep
  <1>4. CASE \/ \E status \in {"COMPLETED", "FAILED"}, h \in Generations :
                   FinishTask(t, status, w, l, h)
             \/ \E code \in FenceCodes \cup {None} :
                   RequestClaimedTaskCancellation(t, w, l, code)
             \/ RestartTask(t, w, l)
             \/ \E s \in SessionIds, parked \in BOOLEAN :
                   SettleInterruptedTaskHandoff(t, s, w, l, parked, FALSE)
    BY <1>4 DEF FinishTask, RequestClaimedTaskCancellation, RestartTask,
                SettleInterruptedTaskHandoff, Records, ReceiptStep
  <1> QED
    BY <1>1, <1>2, <1>3, <1>4

LEMMA RecoveryStepReceipts ==
    ASSUME TypeOK, RecoveryStep
    PROVE  ReceiptStep
  <1>1. \A w \in WorkerIds : CancelKey(w) \in TerminalizationKeys
    BY DEF TerminalizationKeys
  <1>2. IdemKeys \subseteq TerminalizationKeys
    BY DEF TerminalizationKeys
  <1>3. ASSUME NEW t \in TaskIds, NEW w \in WorkerIds, NEW l \in Leases, NEW s \in SessionIds,
               NEW h \in Generations, NEW key \in IdemKeys,
               RecoverAttachedTaskFailure(t, s, w, l, h, key)
        PROVE  ReceiptStep
    BY <1>2, <1>3, ReceiptedFinish DEF RecoverAttachedTaskFailure, Terminal
  <1>4. ASSUME NEW t \in TaskIds, NEW w \in WorkerIds, NEW l \in Leases,
               NEW h \in Generations, NEW rk \in ReconcileKeys,
               ReconcileTaskCancellation(t, w, l, h, rk)
        PROVE  ReceiptStep
    BY <1>1, <1>4, ReceiptedFinish DEF ReconcileTaskCancellation, Terminal
  <1>5. ASSUME NEW t \in TaskIds, NEW w \in WorkerIds, NEW l \in Leases,
               \/ \E s \in SessionIds, parked \in BOOLEAN :
                     SettleInterruptedTaskHandoff(t, s, w, l, parked, TRUE)
               \/ \E e \in EvidenceIds : RestartAbandonedTask(t, w, l, e)
               \/ \E h \in Generations, rk \in ReconcileKeys :
                     RejectTaskCancellationReconciliation(t, w, l, h, rk)
        PROVE  ReceiptStep
    BY <1>5 DEF SettleInterruptedTaskHandoff, RestartAbandonedTask,
                RejectTaskCancellationReconciliation, Records, ReceiptStep
  <1>6. ASSUME NEW w \in WorkerIds, NEW c \in ClaimIds, NEW d \in LeaseSeconds,
               \/ \E q \in Queries : ClaimInterruptedTaskContinuation(w, q, c, d)
               \/ \E r \in handoffReceipts :
                     ClaimBoundTaskContinuation(r.task, r.id, r.parked, w, c, d)
        PROVE  ReceiptStep
    BY <1>6 DEF ClaimInterruptedTaskContinuation, ClaimBoundTaskContinuation,
                GrantContinuation, ReceiptStep
  <1> QED
    BY <1>3, <1>4, <1>5, <1>6 DEF RecoveryStep

LEMMA StepReceipts ==
    ASSUME TypeOK, [Next]_vars
    PROVE  ReceiptStep
  <1>1. CASE QueueStep
    BY <1>1 DEF QueueStep, CreateTask, ClaimTask, ReclaimExpired, HoldTask, ResumeTask,
                Records, ReceiptStep
  <1>2. CASE DirectStep
    BY <1>2 DEF DirectStep, CreateRunningTask, StartTask, FinishTask, CancelTask,
                Records, ReceiptStep
  <1>3. CASE LeaselessTerminalization
    BY <1>3, ReceiptedFinish DEF LeaselessTerminalization, TerminalizeTask
  <1>4. CASE Tick
    BY <1>4 DEF Tick, Records, ReceiptStep
  <1>5. CASE UNCHANGED vars
    BY <1>5 DEF vars, ReceiptStep
  <1> QED
    BY <1>1, <1>2, <1>3, <1>4, <1>5, OwnerStepReceipts, RecoveryStepReceipts DEF Next

LEMMA TrueReceiptsStep ==
    ASSUME RowInv, ReceiptsStayTrue, [Next]_vars
    PROVE  ReceiptsStayTrue'
  <1>1. TypeOK
    BY DEF RowInv
  <1>2. ASSUME NEW r \in receipts
        PROVE  tasks'[r.task] = r.snapshot /\ r.snapshot.status = r.kind
    <2>1. r.task \in TaskIds /\ r.kind \in Terminal
      BY <1>1 DEF TypeOK, Receipts
    <2>2. tasks[r.task] = r.snapshot /\ r.snapshot.status = r.kind
      BY DEF ReceiptsStayTrue
    <2>3. tasks'[r.task] = tasks[r.task]
      BY <2>1, <2>2, RowsChange DEF SoundRow
    <2> QED
      BY <2>2, <2>3
  <1>3. CASE UNCHANGED receipts
    BY <1>2, <1>3 DEF ReceiptsStayTrue
  <1>4. ASSUME NEW t \in TaskIds, NEW key \in TerminalizationKeys, NEW w \in WorkerIds,
               NEW kind \in Terminal, tasks'[t].status = kind,
               receipts' = receipts \cup
                 {[task |-> t, key |-> key, worker |-> w, kind |-> kind, snapshot |-> tasks'[t]]}
        PROVE  ReceiptsStayTrue'
    BY <1>2, <1>4 DEF ReceiptsStayTrue
  <1> QED
    BY <1>1, <1>3, <1>4, StepReceipts DEF ReceiptStep

(* A terminalization receipt records the terminal row of its task, and no  *)
(* later operation of anyone makes it false.                               *)
THEOREM ReceiptsAreTrue == Spec => []ReceiptsStayTrue
  <1>1. Init => ReceiptsStayTrue
    BY DEF Init, ReceiptsStayTrue
  <1> QED
    BY <1>1, TrueReceiptsStep, RowInvariant, PTL DEF Spec

============================================================================
