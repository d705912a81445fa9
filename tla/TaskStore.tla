----------------------------- MODULE TaskStore -----------------------------
(***************************************************************************)
(* The durable task queue of cayu, as InMemoryTaskStore implements it:     *)
(* every public operation runs to its end under one asyncio lock, so one   *)
(* action is one whole operation.  Workers, operators and maintenance      *)
(* loops call it concurrently; an operation that raises changes nothing    *)
(* and is a stuttering step here.                                          *)
(*                                                                         *)
(* Modelled: ordinary tasks (no retry series, schedule, graph, group or    *)
(* work contract).  A lease is its expiry time, which is also the fencing  *)
(* token every owner must present.  A session id stands for the pair       *)
(* (session_id, session_instance_id).                                      *)
(***************************************************************************)
EXTENDS Naturals, Sequences

CONSTANTS
    TaskIds,        \* identities callers create tasks under
    WorkerIds,      \* worker_id strings; two processes may share one
    SessionIds,     \* agent-session incarnations a task can attach to
    ClaimIds,       \* caller-made uuids that name continuation claims
    IdemKeys,       \* idempotency keys of terminalization requests
    ReconcileKeys,  \* idempotency keys of cancellation reconciliations
    EvidenceIds,    \* what a validator of a worker's death presents
    HoldReasons,    \* status_reason values callers give pause/block
    Queries,        \* claim filters, each as the set of tasks it matches
    LeaseSeconds,   \* lease lengths callers ask for
    KeyOf,          \* concurrency_key of each task, or None
    Restartable,    \* the tasks created with restartable=True
    RestartLimit,   \* max_restarts: abandoned restarts each task may use
    MaxClock,       \* bound: the last instant of the ownership clock
    LeaseHorizon,   \* bound: the largest lease token
    MaxRestarts,    \* bound: restart_count of one task
    None

Reserved == "cancellation_requested"

ASSUME ConstantsAssumption ==
    /\ LeaseSeconds \subseteq Nat \ {0}
    /\ MaxClock \in Nat
    /\ LeaseHorizon \in Nat
    /\ \A d \in LeaseSeconds : MaxClock + d <= LeaseHorizon
    /\ MaxRestarts \in Nat
    /\ Restartable \subseteq TaskIds
    /\ RestartLimit \in [TaskIds -> Nat]
    /\ \A q \in Queries : q \subseteq TaskIds
    /\ DOMAIN KeyOf = TaskIds

VARIABLES
    now,              \* the ownership clock
    tasks,            \* _tasks: the durable row of each task
    createdCount,     \* how many tasks exist; created_at as a rank
    handoffIndex,     \* _task_id_by_interrupted_handoff_id
    claims,           \* _interrupted_continuation_claims
    handoffReceipts,  \* _interrupted_handoff_receipts
    receipts,         \* _terminalization_receipts
    rejections,       \* _cancellation_reconciliation_rejections
    retired           \* _retired_task_sessions

vars == <<now, tasks, createdCount, handoffIndex, claims, handoffReceipts,
          receipts, rejections, retired>>

-----------------------------------------------------------------------------
(* The task row. *)

Active == {"CLAIMED", "RUNNING"}
Held == {"PAUSED", "BLOCKED", "NEEDS_ATTENTION"}
Terminal == {"COMPLETED", "FAILED", "CANCELLED"}
Statuses == {"ABSENT", "PENDING"} \cup Active \cup Held \cup Terminal

(* The two families of fence error codes that restart.py tells apart: the  *)
(* WORKER_LOSS_FENCE_CODES, and every other code (someone asked).          *)
FenceCodes == {"worker_loss", "explicit"}

RestartRecords == [evidence : EvidenceIds, worker : WorkerIds, lease : Nat]

(* The sha256 identities of worker-published handoffs, as the tuple they   *)
(* are a digest of.                                                        *)
WorkerHandoffIds ==
    [task : TaskIds, worker : WorkerIds, lease : Nat, session : SessionIds,
     prior : ClaimIds \cup {None}]

HandoffIds == ClaimIds \cup WorkerHandoffIds

Tasks ==
    [status   : Statuses,
     created  : Nat,
     session  : SessionIds \cup {None},
     worker   : WorkerIds \cup {None},
     lease    : Nat \cup {None},
     started  : BOOLEAN,
     reason   : HoldReasons \cup {Reserved, None},
     fence    : FenceCodes \cup {None},
     handoff  : HandoffIds \cup {None},
     restarts : Nat,
     history  : Seq(RestartRecords)]

AbsentTask ==
    [status |-> "ABSENT", created |-> 0, session |-> None, worker |-> None,
     lease |-> None, started |-> FALSE, reason |-> None, fence |-> None,
     handoff |-> None, restarts |-> 0, history |-> << >>]

(* The key derives from task and worker only: two fences under one worker  *)
(* name share it.                                                          *)
CancelKey(w) == [cancelled_under |-> w]

TerminalizationKeys == IdemKeys \cup {CancelKey(w) : w \in WorkerIds}

Receipts ==
    [task : TaskIds, key : TerminalizationKeys, worker : WorkerIds,
     kind : Terminal, snapshot : Tasks]

HandoffReceipts ==
    [task : TaskIds, id : HandoffIds, parked : BOOLEAN, snapshot : Tasks]

(* None is no value of any field, and a uuid is no sha256 identity. *)
ASSUME NoneAssumption ==
    /\ None \notin Nat
    /\ None \notin WorkerIds
    /\ None \notin SessionIds
    /\ None \notin HoldReasons \cup {Reserved}
    /\ None \notin FenceCodes
    /\ None \notin HandoffIds
    /\ None \notin TaskIds
    /\ None \notin [task : TaskIds, worker : WorkerIds]
    /\ ClaimIds \cap WorkerHandoffIds = {}

-----------------------------------------------------------------------------
(* Authority checks shared by the operations. *)

CancellationRequested(k) == k.reason = Reserved

LeaseLive(k) == k.lease # None /\ k.lease > now

LeaseExpired(k) == k.lease # None /\ k.lease <= now

OwnsLive(k, w) == k.status \in Active /\ k.worker = w /\ LeaseLive(k)

OwnsExact(k, w, l) == OwnsLive(k, w) /\ k.lease = l

HoldsLiveKeyLease(t) ==
    /\ KeyOf[t] # None
    /\ tasks[t].status \in Active
    /\ tasks[t].worker # None
    /\ LeaseLive(tasks[t])

LiveKeys == {KeyOf[t] : t \in {u \in TaskIds : HoldsLiveKeyLease(u)}}

Exists(t) == tasks[t].status # "ABSENT"

Oldest(S, t) == t \in S /\ \A u \in S : tasks[t].created <= tasks[u].created

(* Mutant: the superseded generation stays in the index. *)
StoreKeepingIndex(t, k) ==
    /\ \A u \in TaskIds : <<k.handoff, u>> \in handoffIndex => u = t
    /\ tasks' = [tasks EXCEPT ![t] = k]
    /\ handoffIndex' = handoffIndex \cup
         (IF k.handoff = None THEN {} ELSE {<<k.handoff, t>>})

(* Publication of a row: a handoff identity already indexed for another    *)
(* task is refused; otherwise the row and the index change together.       *)
Store(t, k) ==
    /\ \A u \in TaskIds : <<k.handoff, u>> \in handoffIndex => u = t
    /\ tasks' = [tasks EXCEPT ![t] = k]
    /\ handoffIndex' =
         IF tasks[t].handoff = k.handoff THEN handoffIndex
         ELSE {p \in handoffIndex : p[1] # tasks[t].handoff}
              \cup (IF k.handoff = None THEN {} ELSE {<<k.handoff, t>>})

(* _task_cancellation_requested_task: fence an owned row. *)
FencedTask(k, code) == [k EXCEPT !.reason = Reserved, !.fence = code]

(* Mutant: the terminal row keeps its lease. *)
FinishedKeepingLease(k, status) ==
    [k EXCEPT !.status = status, !.reason = None, !.fence = None,
              !.worker = None, !.handoff = None, !.started = TRUE]

(* The terminal row _prepare_finished_task publishes. *)
FinishedTask(k, status) ==
    [k EXCEPT !.status = status, !.reason = None, !.fence = None,
              !.worker = None, !.lease = None, !.handoff = None,
              !.started = TRUE]

(* _requeued_task *)
RequeuedTask(k) ==
    [k EXCEPT !.status = "PENDING", !.session = None, !.worker = None,
              !.lease = None, !.started = FALSE, !.reason = None,
              !.fence = None, !.restarts = @ + 1]

-----------------------------------------------------------------------------
(* Creation and direct execution. *)

Init ==
    /\ now = 0
    /\ tasks = [t \in TaskIds |-> AbsentTask]
    /\ createdCount = 0
    /\ handoffIndex = {}
    /\ claims = [c \in ClaimIds |-> None]
    /\ handoffReceipts = {}
    /\ receipts = {}
    /\ rejections = {}
    /\ retired = {}

Records == <<createdCount, claims, handoffReceipts, receipts, rejections, retired>>

(* create_task: a pending row, possibly bound to a session in advance.     *)
(* Keyed and restartable tasks must be created unattached.                 *)
CreateTask(t, s) ==
    /\ ~Exists(t)
    /\ s # None => KeyOf[t] = None /\ t \notin Restartable
    /\ Store(t, [AbsentTask EXCEPT !.status = "PENDING", !.session = s,
                                   !.created = createdCount + 1])
    /\ createdCount' = createdCount + 1
    /\ UNCHANGED <<now, claims, handoffReceipts, receipts, rejections, retired>>

(* create_running_task: born attached, without a worker. *)
CreateRunningTask(t, s) ==
    /\ ~Exists(t)
    /\ KeyOf[t] = None /\ t \notin Restartable
    /\ Store(t, [AbsentTask EXCEPT !.status = "RUNNING", !.session = s,
                                   !.started = TRUE,
                                   !.created = createdCount + 1])
    /\ createdCount' = createdCount + 1
    /\ UNCHANGED <<now, claims, handoffReceipts, receipts, rejections, retired>>

(* start_task: direct execution of a pending task, no worker and no lease. *)
StartTask(t, s) ==
    LET k == tasks[t] IN
    /\ k.status = "PENDING"
    /\ KeyOf[t] = None /\ t \notin Restartable
    /\ k.session # None => s \in {k.session, None}
    /\ Store(t, [k EXCEPT !.status = "RUNNING", !.started = TRUE,
                          !.session = IF k.session # None THEN k.session ELSE s])
    /\ UNCHANGED <<now, Records>>

-----------------------------------------------------------------------------
(* Claims and leases. *)

ClaimCandidates(q) ==
    {t \in q : /\ tasks[t].status = "PENDING"
               /\ tasks[t].session = None
               /\ KeyOf[t] \notin LiveKeys}

(* claim_task: the oldest claimable task the filter matches. *)
ClaimTask(w, q, d) ==
    \E t \in ClaimCandidates(q) :
        /\ Oldest(ClaimCandidates(q), t)
        /\ Store(t, [tasks[t] EXCEPT !.status = "CLAIMED", !.worker = w,
                                     !.lease = now + d])
        /\ UNCHANGED <<now, Records>>

(* Mutant: a late heartbeat revives a lease that has expired. *)
HeartbeatExpired(t, w, l, h, d) ==
    LET k == tasks[t] IN
    /\ k.status \in Active /\ k.worker = w /\ k.lease = l
    /\ k.handoff = h
    /\ Store(t, [k EXCEPT !.lease = now + d])
    /\ UNCHANGED <<now, Records>>

(* heartbeat: the exact live owner and generation renews its lease. *)
Heartbeat(t, w, l, h, d) ==
    LET k == tasks[t] IN
    /\ OwnsExact(k, w, l)
    /\ k.handoff = h
    /\ Store(t, [k EXCEPT !.lease = now + d])
    /\ UNCHANGED <<now, Records>>

(* mark_claimed_task_execution_started: durable dispatch evidence. *)
MarkClaimedTaskExecutionStarted(t, w, l) ==
    LET k == tasks[t] IN
    /\ OwnsExact(k, w, l)
    /\ k.status = "CLAIMED" /\ k.session = None
    /\ ~CancellationRequested(k)
    /\ Store(t, [k EXCEPT !.started = TRUE])
    /\ UNCHANGED <<now, Records>>

(* attach_task: the claim's owner binds it to a session.  A cancellation   *)
(* request does not stop it.                                               *)
AttachTask(t, s, w, l) ==
    LET k == tasks[t] IN
    /\ k.status = "CLAIMED" /\ k.session = None
    /\ OwnsExact(k, w, l)
    /\ Store(t, [k EXCEPT !.status = "RUNNING", !.session = s, !.started = TRUE])
    /\ UNCHANGED <<now, Records>>

(* release_task: the owner returns an unattached claim. *)
ReleaseTask(t, w, l) ==
    LET k == tasks[t] IN
    /\ OwnsExact(k, w, l)
    /\ k.session = None /\ k.status = "CLAIMED"
    /\ ~CancellationRequested(k)
    /\ Store(t, [k EXCEPT !.status = "PENDING", !.worker = None,
                          !.lease = None, !.started = FALSE])
    /\ UNCHANGED <<now, Records>>

(* Mutant: a continuation may be let go of as if it were a first run. *)
ReleaseContinuationWorker(t, w, l) ==
    LET k == tasks[t] IN
    /\ OwnsExact(k, w, l)
    /\ k.status = "RUNNING" /\ k.session # None
    /\ ~CancellationRequested(k)
    /\ Store(t, [k EXCEPT !.worker = None, !.lease = None])
    /\ UNCHANGED <<now, Records>>

(* release_attached_task_worker: the owner lets go of an attached task,    *)
(* which keeps running without a worker.                                   *)
ReleaseAttachedTaskWorker(t, w, l) ==
    LET k == tasks[t] IN
    /\ OwnsExact(k, w, l)
    /\ k.status = "RUNNING" /\ k.session # None
    /\ k.handoff = None
    /\ ~CancellationRequested(k)
    /\ Store(t, [k EXCEPT !.worker = None, !.lease = None])
    /\ UNCHANGED <<now, Records>>

ExpiredClaims ==
    {t \in TaskIds : /\ tasks[t].status = "CLAIMED"
                     /\ tasks[t].session = None
                     /\ ~CancellationRequested(tasks[t])
                     /\ LeaseExpired(tasks[t])}

(* Mutant: reclamation requeues dispatched claims too. *)
RequeuedOnExpiry(k) ==
    [k EXCEPT !.status = "PENDING", !.worker = None, !.lease = None]

(* What reclamation makes of an expired claim: a dispatched one is fenced  *)
(* under its dead owner, one that never started is pending again.          *)
ReclaimedTask(k) ==
    IF k.started THEN FencedTask(k, "worker_loss")
    ELSE [k EXCEPT !.status = "PENDING", !.worker = None, !.lease = None]

(* reclaim_expired over the tasks S its filter and batch limit select. *)
ReclaimExpired(S) ==
    /\ S \subseteq ExpiredClaims /\ S # {}
    /\ tasks' = [t \in TaskIds |-> IF t \in S THEN ReclaimedTask(tasks[t])
                                   ELSE tasks[t]]
    /\ UNCHANGED <<now, handoffIndex, Records>>

-----------------------------------------------------------------------------
(* Terminal outcomes. *)

(* Mutant: a completion or failure overrides a cancellation request. *)
FinishUnderCancellation(t, status, w, l, h) ==
    LET k == tasks[t] IN
    /\ Exists(t) /\ k.status \notin Terminal
    /\ w # None => OwnsExact(k, w, l) /\ k.handoff = h
    /\ Store(t, FinishedTask(k, status))
    /\ UNCHANGED <<now, Records>>

(* Mutant: the last writer of an outcome wins. *)
FinishAgain(t, status, w, l, h) ==
    LET k == tasks[t] IN
    /\ Exists(t)
    /\ w # None => OwnsExact(k, w, l) /\ k.handoff = h
    /\ ~CancellationRequested(k)
    /\ Store(t, FinishedTask(k, status))
    /\ UNCHANGED <<now, Records>>

(* complete_task and fail_task: by a trusted caller that names no worker,  *)
(* or by the owner of the exact live lease and handoff generation.         *)
FinishTask(t, status, w, l, h) ==
    LET k == tasks[t] IN
    /\ Exists(t) /\ k.status \notin Terminal
    /\ w # None => OwnsExact(k, w, l) /\ k.handoff = h
    /\ ~CancellationRequested(k)
    /\ Store(t, FinishedTask(k, status))
    /\ UNCHANGED <<now, Records>>

HasReceipt(t, key) == \E r \in receipts : r.task = t /\ r.key = key

RecordReceipt(t, key, w, kind, k) ==
    /\ receipts' = receipts \cup
         {[task |-> t, key |-> key, worker |-> w, kind |-> kind, snapshot |-> k]}
    /\ UNCHANGED <<now, createdCount, claims, handoffReceipts, rejections, retired>>

(* A pending cancellation admits only its own terminalization; without one *)
(* a worker may not terminalize as cancelled.                              *)
AgreesWithCancellation(k, w, l, key, kind) ==
    IF CancellationRequested(k)
    THEN kind = "CANCELLED" /\ l = k.lease /\ key = CancelKey(w)
    ELSE kind # "CANCELLED"

(* terminalize_task with an unused idempotency key (a used one replays its *)
(* receipt).  l = None presents no lease generation, which only attached   *)
(* tasks may do.                                                           *)
TerminalizeTask(t, w, l, h, kind, key) ==
    LET k == tasks[t] IN
    /\ ~HasReceipt(t, key)
    /\ OwnsLive(k, w)
    /\ IF l = None THEN ~(k.status = "CLAIMED" /\ k.session = None)
       ELSE k.lease = l
    /\ k.handoff = h
    /\ AgreesWithCancellation(k, w, l, key, kind)
    /\ Store(t, FinishedTask(k, kind))
    /\ RecordReceipt(t, key, w, kind, FinishedTask(k, kind))

(* recover_attached_task_failure: recovery fails one exact expired         *)
(* attached generation.                                                    *)
RecoverAttachedTaskFailure(t, s, w, l, h, key) ==
    LET k == tasks[t] IN
    /\ ~HasReceipt(t, key)
    /\ k.status = "RUNNING" /\ k.session = s
    /\ k.worker = w /\ k.lease = l
    /\ k.handoff = h
    /\ LeaseExpired(k)
    /\ ~CancellationRequested(k)
    /\ Store(t, FinishedTask(k, "FAILED"))
    /\ RecordReceipt(t, key, w, "FAILED", FinishedTask(k, "FAILED"))

-----------------------------------------------------------------------------
(* Cancellation. *)

(* Mutant: a finished task can still be cancelled. *)
CancelFinished(t) ==
    LET k == tasks[t] IN
    /\ Exists(t)
    /\ ~CancellationRequested(k)
    /\ IF k.status \in Active /\ k.worker # None /\ k.lease # None
       THEN Store(t, FencedTask(k, "explicit"))
       ELSE Store(t, FinishedTask(k, "CANCELLED"))
    /\ UNCHANGED <<now, Records>>

(* cancel_task: an owned task is only fenced, its owner terminalizes it;   *)
(* an unowned one is cancelled at once.                                    *)
CancelTask(t) ==
    LET k == tasks[t] IN
    /\ Exists(t) /\ k.status \notin Terminal
    /\ ~CancellationRequested(k)
    /\ IF k.status \in Active /\ k.worker # None /\ k.lease # None
       THEN Store(t, FencedTask(k, "explicit"))
       ELSE Store(t, FinishedTask(k, "CANCELLED"))
    /\ UNCHANGED <<now, Records>>

(* request_claimed_task_cancellation by the presented owner.  A started    *)
(* task is fenced whatever its lease says; one that never started needs    *)
(* the live lease and no handoff.  code = None takes the default error.    *)
RequestClaimedTaskCancellation(t, w, l, code) ==
    LET k == tasks[t] IN
    /\ k.status \in Active /\ k.worker = w /\ k.lease = l
    /\ ~CancellationRequested(k)
    /\ IF k.started
       THEN Store(t, FencedTask(k, IF code = None THEN "worker_loss" ELSE code))
       ELSE /\ OwnsExact(k, w, l) /\ k.handoff = None
            /\ Store(t, FencedTask(k, IF code = None THEN "explicit" ELSE code))
    /\ UNCHANGED <<now, Records>>

(* What reconciliation requires of the fenced row it names. *)
ReconcilableFence(k, w, l, h) ==
    /\ k.status \in Active
    /\ CancellationRequested(k) /\ k.fence # None
    /\ k.worker = w /\ k.lease = l /\ k.handoff = h

(* reconcile_task_cancellation with evidence that the owner stopped. *)
ReconcileTaskCancellation(t, w, l, h, rk) ==
    LET k == tasks[t] IN
    /\ <<t, rk>> \notin rejections
    /\ ~HasReceipt(t, CancelKey(w))
    /\ ReconcilableFence(k, w, l, h)
    /\ LeaseExpired(k)
    /\ Store(t, FinishedTask(k, "CANCELLED"))
    /\ RecordReceipt(t, CancelKey(w), w, "CANCELLED", FinishedTask(k, "CANCELLED"))

(* reconcile_task_cancellation whose evidence is not positive: the verdict *)
(* is recorded and binds the reconciliation key for good.                  *)
RejectTaskCancellationReconciliation(t, w, l, h, rk) ==
    /\ <<t, rk>> \notin rejections
    /\ ~HasReceipt(t, CancelKey(w))
    /\ ReconcilableFence(tasks[t], w, l, h)
    /\ rejections' = rejections \cup {<<t, rk>>}
    /\ UNCHANGED <<now, tasks, createdCount, handoffIndex, claims,
                   handoffReceipts, receipts, retired>>

-----------------------------------------------------------------------------
(* Holds. *)

(* Mutant: an attached running task may be held. *)
CanHoldAttached(t) ==
    LET k == tasks[t] IN
    /\ Exists(t) /\ k.status \notin Terminal
    /\ ~(KeyOf[t] # None /\ k.worker # None)
    /\ ~CancellationRequested(k)

(* _ensure_can_hold_task *)
CanHold(t) ==
    LET k == tasks[t] IN
    /\ Exists(t) /\ k.status \notin Terminal
    /\ ~(KeyOf[t] # None /\ k.worker # None)
    /\ ~CancellationRequested(k)
    /\ ~(k.status = "RUNNING" /\ k.session # None)

(* pause_task, block_task and mark_task_needs_attention: ownership is      *)
(* cleared, the dispatch evidence started is kept.                         *)
HoldTask(t, status, reason) ==
    /\ CanHold(t)
    /\ Store(t, [tasks[t] EXCEPT !.status = status, !.reason = reason,
                                 !.fence = None, !.worker = None, !.lease = None])
    /\ UNCHANGED <<now, Records>>

ResumeTask(t) ==
    /\ tasks[t].status \in Held
    /\ Store(t, [tasks[t] EXCEPT !.status = "PENDING", !.reason = None,
                                 !.fence = None, !.worker = None, !.lease = None])
    /\ UNCHANGED <<now, Records>>

-----------------------------------------------------------------------------
(* Restarts of restartable tasks. *)

(* restart_task: the live owner, its handler joined, requeues the task.    *)
(* The bound MaxRestarts is the model's.                                   *)
RestartTask(t, w, l) ==
    LET k == tasks[t] IN
    /\ OwnsExact(k, w, l)
    /\ t \in Restartable /\ k.handoff = None
    /\ ~CancellationRequested(k)
    /\ k.restarts < MaxRestarts
    /\ Store(t, RequeuedTask(k))
    /\ retired' = retired \cup ({k.session} \ {None})
    /\ UNCHANGED <<now, createdCount, claims, handoffReceipts, receipts, rejections>>

(* Mutant: the restart limit is off by one. *)
RestartAbandonedOnceMore(t, w, l, e) ==
    LET k == tasks[t] IN
    /\ \A i \in DOMAIN k.history : k.history[i].evidence # e
    /\ k.session = None
    /\ t \in Restartable /\ k.handoff = None
    /\ k.status \in Active /\ k.worker = w /\ k.lease = l
    /\ CancellationRequested(k) /\ k.fence = "worker_loss"
    /\ LeaseExpired(k)
    /\ Len(k.history) <= RestartLimit[t]
    /\ k.restarts < MaxRestarts
    /\ Store(t, [RequeuedTask(k) EXCEPT !.history =
                    Append(@, [evidence |-> e, worker |-> w, lease |-> l])])
    /\ UNCHANGED <<now, Records>>

(* restart_abandoned_task: evidence e, not used before, vouches that the   *)
(* owner of an expired claim fenced by worker loss is gone.                *)
RestartAbandonedTask(t, w, l, e) ==
    LET k == tasks[t] IN
    /\ \A i \in DOMAIN k.history : k.history[i].evidence # e
    /\ k.session = None
    /\ t \in Restartable /\ k.handoff = None
    /\ k.status \in Active /\ k.worker = w /\ k.lease = l
    /\ CancellationRequested(k) /\ k.fence = "worker_loss"
    /\ LeaseExpired(k)
    /\ Len(k.history) < RestartLimit[t]
    /\ k.restarts < MaxRestarts
    /\ Store(t, [RequeuedTask(k) EXCEPT !.history =
                    Append(@, [evidence |-> e, worker |-> w, lease |-> l])])
    /\ UNCHANGED <<now, Records>>

-----------------------------------------------------------------------------
(* Interrupted sessions: handoff and continuation. *)

WorkerHandoffId(t) ==
    [task |-> t, worker |-> tasks[t].worker, lease |-> tasks[t].lease,
     session |-> tasks[t].session, prior |-> tasks[t].handoff]

HandedOffTask(t) ==
    [tasks[t] EXCEPT !.worker = None, !.lease = None,
                     !.handoff = WorkerHandoffId(t)]

(* release_interrupted_task_worker (recover = FALSE, by the live owner)    *)
(* and recover_interrupted_task_worker (recover = TRUE, by anyone once the *)
(* lease has expired).  parked: the session waits for its own trigger.     *)
SettleInterruptedTaskHandoff(t, s, w, l, parked, recover) ==
    LET k == tasks[t] IN
    /\ k.status = "RUNNING" /\ k.session = s
    /\ k.worker = w /\ k.lease = l
    /\ ~CancellationRequested(k)
    /\ IF recover THEN LeaseExpired(k) ELSE LeaseLive(k)
    /\ \A r \in handoffReceipts : ~(r.task = t /\ r.id = WorkerHandoffId(t))
    /\ Store(t, HandedOffTask(t))
    /\ handoffReceipts' = handoffReceipts \cup
         {[task |-> t, id |-> WorkerHandoffId(t), parked |-> parked,
           snapshot |-> HandedOffTask(t)]}
    /\ UNCHANGED <<now, createdCount, claims, receipts, rejections, retired>>

(* The receipt that vouches for a handed-off row, wait flag included. *)
VouchedHandoff(t, parked) ==
    \E r \in handoffReceipts :
        /\ r.task = t /\ r.id = tasks[t].handoff
        /\ r.snapshot = tasks[t]
        /\ r.parked = parked

HandedOff(t) ==
    /\ tasks[t].status = "RUNNING" /\ tasks[t].session # None
    /\ tasks[t].reason = None
    /\ tasks[t].worker = None /\ tasks[t].lease = None
    /\ tasks[t].handoff # None

(* A generation uuid is used for one continuation claim, ever. *)
FreshClaimId(c) ==
    /\ claims[c] = None
    /\ \A u \in TaskIds : <<c, u>> \notin handoffIndex

GrantContinuation(t, w, c, d) ==
    /\ Store(t, [tasks[t] EXCEPT !.worker = w, !.lease = now + d, !.handoff = c])
    /\ claims' = [claims EXCEPT ![c] = [task |-> t, worker |-> w]]
    /\ UNCHANGED <<now, createdCount, handoffReceipts, receipts, rejections, retired>>

ContinuationCandidates(q) ==
    {t \in q : HandedOff(t) /\ KeyOf[t] \notin LiveKeys /\ VouchedHandoff(t, FALSE)}

(* claim_interrupted_task_continuation without an expectation: the oldest  *)
(* handed-off task that is not parked.                                     *)
ClaimInterruptedTaskContinuation(w, q, c, d) ==
    /\ FreshClaimId(c)
    /\ \E t \in ContinuationCandidates(q) :
          /\ Oldest(ContinuationCandidates(q), t)
          /\ GrantContinuation(t, w, c, d)

(* Mutant: a bound continuation ignores the concurrency key. *)
ClaimBoundIgnoringKey(t, h, parked, w, c, d) ==
    /\ FreshClaimId(c)
    /\ HandedOff(t) /\ tasks[t].handoff = h
    /\ VouchedHandoff(t, parked)
    /\ GrantContinuation(t, w, c, d)

(* The same call bound to one task and its prior handoff; only such a call *)
(* may present the wait a parked handoff names.                            *)
ClaimBoundTaskContinuation(t, h, parked, w, c, d) ==
    /\ FreshClaimId(c)
    /\ HandedOff(t) /\ tasks[t].handoff = h
    /\ KeyOf[t] \notin LiveKeys
    /\ VouchedHandoff(t, parked)
    /\ GrantContinuation(t, w, c, d)

-----------------------------------------------------------------------------
(* The ownership clock; MaxClock is the model's bound. *)
Tick ==
    /\ now < MaxClock
    /\ now' = now + 1
    /\ UNCHANGED <<tasks, handoffIndex, Records>>

(* What callers may present: any lease token up to the horizon and any     *)
(* generation a worker can have been given, stale ones included.           *)
Leases == 1 .. LeaseHorizon
Generations == ClaimIds \cup {None}

QueueStep ==
    \/ \E t \in TaskIds, s \in SessionIds \cup {None} : CreateTask(t, s)
    \/ \E w \in WorkerIds, q \in Queries, d \in LeaseSeconds : ClaimTask(w, q, d)
    \/ \E S \in SUBSET ExpiredClaims : ReclaimExpired(S)
    \/ \E t \in TaskIds, status \in Held, reason \in HoldReasons \cup {None} :
          HoldTask(t, status, reason)
    \/ \E t \in TaskIds : ResumeTask(t)

DirectStep ==
    \/ \E t \in TaskIds, s \in SessionIds : CreateRunningTask(t, s)
    \/ \E t \in TaskIds, s \in SessionIds \cup {None} : StartTask(t, s)
    \/ \E t \in TaskIds, status \in {"COMPLETED", "FAILED"} :
          FinishTask(t, status, None, None, None)
    \/ \E t \in TaskIds : CancelTask(t)

OwnerStep ==
    \E t \in TaskIds, w \in WorkerIds, l \in Leases :
        \/ \E h \in Generations, d \in LeaseSeconds : Heartbeat(t, w, l, h, d)
        \/ MarkClaimedTaskExecutionStarted(t, w, l)
        \/ \E s \in SessionIds : AttachTask(t, s, w, l)
        \/ ReleaseTask(t, w, l)
        \/ ReleaseAttachedTaskWorker(t, w, l)
        \/ \E status \in {"COMPLETED", "FAILED"}, h \in Generations :
              FinishTask(t, status, w, l, h)
        \/ \E h \in Generations, kind \in Terminal, key \in TerminalizationKeys :
              TerminalizeTask(t, w, l, h, kind, key)
        \/ \E code \in FenceCodes \cup {None} :
              RequestClaimedTaskCancellation(t, w, l, code)
        \/ RestartTask(t, w, l)
        \/ \E s \in SessionIds, parked \in BOOLEAN :
              SettleInterruptedTaskHandoff(t, s, w, l, parked, FALSE)

(* An attached owner may terminalize without naming its lease generation. *)
LeaselessTerminalization ==
    \E t \in TaskIds, w \in WorkerIds, h \in Generations,
       kind \in Terminal, key \in TerminalizationKeys :
        TerminalizeTask(t, w, None, h, kind, key)

RecoveryStep ==
    \/ \E t \in TaskIds, w \in WorkerIds, l \in Leases :
          \/ \E s \in SessionIds, h \in Generations, key \in IdemKeys :
                RecoverAttachedTaskFailure(t, s, w, l, h, key)
          \/ \E s \in SessionIds, parked \in BOOLEAN :
                SettleInterruptedTaskHandoff(t, s, w, l, parked, TRUE)
          \/ \E e \in EvidenceIds : RestartAbandonedTask(t, w, l, e)
          \/ \E h \in Generations, rk \in ReconcileKeys :
                \/ ReconcileTaskCancellation(t, w, l, h, rk)
                \/ RejectTaskCancellationReconciliation(t, w, l, h, rk)
    \/ \E w \in WorkerIds, c \in ClaimIds, d \in LeaseSeconds :
          \/ \E q \in Queries : ClaimInterruptedTaskContinuation(w, q, c, d)
          \/ \E r \in handoffReceipts :
                ClaimBoundTaskContinuation(r.task, r.id, r.parked, w, c, d)

Next == QueueStep \/ DirectStep \/ OwnerStep \/ LeaselessTerminalization
            \/ RecoveryStep \/ Tick

Spec == Init /\ [][Next]_vars

-----------------------------------------------------------------------------
(* Properties. *)

TypeOK ==
    /\ now \in Nat
    /\ tasks \in [TaskIds -> Tasks]
    /\ createdCount \in Nat
    /\ handoffIndex \subseteq HandoffIds \X TaskIds
    /\ claims \in [ClaimIds -> [task : TaskIds, worker : WorkerIds] \cup {None}]
    /\ handoffReceipts \subseteq HandoffReceipts
    /\ receipts \subseteq Receipts
    /\ rejections \subseteq TaskIds \X ReconcileKeys
    /\ retired \subseteq SessionIds

(* Ownership, attachment, handoff and fence of a row agree: an owner and a *)
(* lease come together and only on active rows; a claim is owned and       *)
(* unattached; a handoff generation belongs to an attached running task,   *)
(* and a worker runs one only under a continuation claim; a fence is under *)
(* an owner who can be held to it.                                         *)
RowConsistent(k) ==
    /\ k.worker = None <=> k.lease = None
    /\ k.worker # None => k.status \in Active
    /\ k.status = "CLAIMED" =>
         k.worker # None /\ k.session = None /\ k.handoff = None
    /\ k.handoff # None =>
         k.status = "RUNNING" /\ k.session # None /\ k.started
    /\ k.status = "RUNNING" => k.started /\ (k.worker # None => k.session # None)
    /\ k.worker # None /\ k.handoff # None => k.handoff \in ClaimIds
    /\ k.fence # None <=> k.status \in Active /\ CancellationRequested(k)
    /\ k.fence # None => k.worker # None
    /\ k.status \in {"PENDING", "ABSENT"} \cup Terminal => k.reason = None
    /\ k.status \in Active => k.reason \in {None, Reserved}

RowsConsistent == \A t \in TaskIds : RowConsistent(tasks[t])

(* At most one task of a concurrency key holds a live worker lease, across *)
(* fresh claims, heartbeats racing expiry, and continuation claims         *)
(* (docs/triggering-runs.md: "Only one task with that key can hold a live  *)
(* worker lease").                                                         *)
KeyExclusion ==
    \A t, u \in TaskIds :
        HoldsLiveKeyLease(t) /\ HoldsLiveKeyLease(u) /\ KeyOf[t] = KeyOf[u] => t = u

(* The task that holds each key, for the lock the keys implement. *)
UsedKeys == {KeyOf[t] : t \in TaskIds} \ {None}

KeyHolder ==
    [k \in UsedKeys |->
        IF \E t \in TaskIds : HoldsLiveKeyLease(t) /\ KeyOf[t] = k
        THEN CHOOSE t \in TaskIds : HoldsLiveKeyLease(t) /\ KeyOf[t] = k
        ELSE None]

KeyLock == INSTANCE KeyLease WITH
    Keys <- UsedKeys, Holders <- TaskIds, Nobody <- None, holder <- KeyHolder

(* The queue implements the lock: a key changes hands only through an      *)
(* instant at which no task holds it, whatever mix of claims, heartbeats,  *)
(* expiries, cancellations and continuations happens.                      *)
KeysAreLocks == KeyLock!Spec

(* The handoff index is exactly the handoff generations of the rows, and   *)
(* no two rows share a generation: _prepare_task_write refuses reuse and   *)
(* _publish_prepared_task_write keeps the index, over every operation.     *)
HandoffIndexExact ==
    /\ handoffIndex = {<<tasks[t].handoff, t>> :
                          t \in {u \in TaskIds : tasks[u].handoff # None}}
    /\ \A t, u \in TaskIds :
          tasks[t].handoff # None /\ tasks[t].handoff = tasks[u].handoff => t = u

(* A terminalization receipt stays the truth about its task: a caller that *)
(* lost the acknowledgement and retries finds the row its receipt records, *)
(* whatever the other callers did meanwhile.                               *)
ReceiptsStayTrue ==
    \A r \in receipts : tasks[r.task] = r.snapshot /\ r.snapshot.status = r.kind

(* Every task handed off by a worker can be continued: a receipt vouches   *)
(* for the row exactly as it is stored, so no continuation is rejected.    *)
HandoffsVouched ==
    \A t \in TaskIds :
        HandedOff(t) => \E parked \in BOOLEAN : VouchedHandoff(t, parked)

(* A continuation generation on a row was granted once, to that row and to *)
(* the worker that still holds it.                                         *)
GenerationsGranted ==
    \A t \in TaskIds :
        tasks[t].handoff \in ClaimIds =>
            /\ claims[tasks[t].handoff] # None
            /\ claims[tasks[t].handoff].task = t
            /\ tasks[t].worker = claims[tasks[t].handoff].worker

(* Restarts after worker loss never pass the task's limit, are all counted *)
(* by restart_count, and each spends an evidence of its own.               *)
RestartsBounded(t, k) ==
    /\ Len(k.history) <= RestartLimit[t]
    /\ Len(k.history) <= k.restarts
    /\ \A i, j \in DOMAIN k.history :
          k.history[i].evidence = k.history[j].evidence => i = j

AbandonedRestartsBounded == \A t \in TaskIds : RestartsBounded(t, tasks[t])

(* A cancellation request wins: a fenced task keeps its owner and its      *)
(* fence until it is cancelled.  The one way out is the restart of a       *)
(* restartable, unattached task whose fence records worker loss, after the *)
(* lease expired; a request someone made is never undone.                  *)
FenceHonoured(t, k, n) ==
    k.status \in Active /\ CancellationRequested(k) =>
        \/ n.status \in Active /\ n.fence = k.fence /\ n.worker = k.worker
        \/ n.status = "CANCELLED"
        \/ /\ n.status = "PENDING"
           /\ k.fence = "worker_loss" /\ LeaseExpired(k)
           /\ t \in Restartable /\ k.session = None
           /\ Len(n.history) = Len(k.history) + 1

CancellationWins ==
    [][\A t \in TaskIds : FenceHonoured(t, tasks[t], tasks'[t])]_vars

(* A worker may still be at work on a task that is not its own any more:   *)
(* only the dispatch on record (started_at) tells.  No operation gives a   *)
(* task to another worker while its owner's lease is live, or extends a    *)
(* lease that has expired.  The dispatch is struck from the record only by *)
(* the live owner, who has stopped, or against fresh evidence of its loss. *)
(* While it is on record a task goes to another worker to continue a       *)
(* handed-off session, and otherwise only through a hold: _hold_task takes *)
(* a dispatched claim from its owner, resume_task leaves it pending with   *)
(* the dispatch on record, and the next claim takes it.  A task with a     *)
(* concurrency key has no such way round (tasks/abandoned.py: "Cayu can't  *)
(* prove the old handler stopped").                                        *)
NotOverrun(t, k, n) ==
    /\ k.worker # None /\ LeaseLive(k) => n.worker \in {k.worker, None}
    /\ k.worker # None /\ LeaseExpired(k) /\ n.worker = k.worker => n.lease = k.lease
    /\ k.started /\ ~n.started =>
          \/ k.worker # None /\ LeaseLive(k)
          \/ Len(n.history) = Len(k.history) + 1
    /\ k.started /\ n.worker \notin {k.worker, None} =>
          \/ n.handoff \in ClaimIds
          \/ KeyOf[t] = None /\ k.status = "PENDING"
    /\ n.started /\ n.status = "PENDING" =>
          KeyOf[t] = None /\ k.status \in Held \cup {"PENDING"}

OwnersAreNotOverrun ==
    [][\A t \in TaskIds : NotOverrun(t, tasks[t], tasks'[t])]_vars

(* A terminal row never changes again, by any later or repeated call. *)
TerminalIsFinal ==
    [][\A t \in TaskIds : tasks[t].status \in Terminal => tasks'[t] = tasks[t]]_vars

============================================================================
