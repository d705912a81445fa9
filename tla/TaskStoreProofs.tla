-------------------------- MODULE TaskStoreProofs --------------------------
(***************************************************************************)
(* Proofs about the task store, for every set of tasks, workers, sessions, *)
(* keys, lease lengths and bounds.  Every operation but reclamation and    *)
(* the clock publishes one row through Store, so the argument is: each     *)
(* operation publishes a sound row (one lemma per operation), and a sound  *)
(* publication preserves the invariants and obeys the step properties.     *)
(***************************************************************************)
EXTENDS TaskStore, TLAPS

(* A row that would hold a live lease on its key, if published. *)
TakesKey(k) == k.status \in Active /\ k.worker # None /\ LeaseLive(k)

KeySafe(t, n) ==
    TakesKey(n) => \/ HoldsLiveKeyLease(t)
                   \/ KeyOf[t] = None
                   \/ KeyOf[t] \notin LiveKeys

(* A task that does not exist has no dispatch on record.  One with a       *)
(* concurrency key has none while it waits or is on hold, and it runs only *)
(* attached to a session.                                                  *)
DispatchRecorded(t, k) ==
    /\ k.status = "ABSENT" => ~k.started
    /\ KeyOf[t] # None =>
        /\ k.status \in Held \cup {"PENDING"} => ~k.started
        /\ k.status = "RUNNING" => k.session # None

DispatchesRecorded == \A t \in TaskIds : DispatchRecorded(t, tasks[t])

(* What every published row n of task t satisfies. *)
SoundRow(t, n) ==
    /\ n \in Tasks
    /\ RowConsistent(n)
    /\ tasks[t].status \notin Terminal
    /\ KeySafe(t, n)
    /\ FenceHonoured(t, tasks[t], n)
    /\ NotOverrun(t, tasks[t], n)
    /\ DispatchRecorded(t, n)
    /\ RestartsBounded(t, n)

RowStep == \E t \in TaskIds, n \in Tasks : Store(t, n) /\ SoundRow(t, n)

(* The variables other than the rows and their index. *)
RestOK ==
    /\ now \in Nat
    /\ createdCount \in Nat
    /\ claims \in [ClaimIds -> [task : TaskIds, worker : WorkerIds] \cup {None}]
    /\ handoffReceipts \subseteq HandoffReceipts
    /\ receipts \subseteq Receipts
    /\ rejections \subseteq TaskIds \X ReconcileKeys
    /\ retired \subseteq SessionIds

(* The inductive invariant of the row properties. *)
RowInv == TypeOK /\ RowsConsistent /\ AbandonedRestartsBounded /\ DispatchesRecorded

-----------------------------------------------------------------------------
(* A stored row is typed, consistent and within its restart limit. *)
LEMMA StoredRow ==
    ASSUME RowInv, NEW t \in TaskIds
    PROVE  /\ tasks[t] \in Tasks
           /\ RowConsistent(tasks[t])
           /\ RestartsBounded(t, tasks[t])
           /\ DispatchRecorded(t, tasks[t])
  BY DEF RowInv, TypeOK, RowsConsistent, AbandonedRestartsBounded, DispatchesRecorded

(* A granted lease is a number beyond now. *)
LEMMA GrantedLease ==
    ASSUME RowInv, NEW d \in LeaseSeconds
    PROVE  now + d \in Nat /\ now + d # None /\ now + d > now
  BY ConstantsAssumption, NoneAssumption DEF RowInv, TypeOK

(* The terminal row of an outcome a pending cancellation admits. *)
LEMMA FinishedRow ==
    ASSUME RowInv, NEW t \in TaskIds, NEW status \in Terminal,
           tasks[t].status \notin Terminal,
           CancellationRequested(tasks[t]) => status = "CANCELLED"
    PROVE  /\ FinishedTask(tasks[t], status) \in Tasks
           /\ SoundRow(t, FinishedTask(tasks[t], status))
  <1> DEFINE k == tasks[t]
             n == FinishedTask(k, status)
  <1>1. k \in Tasks /\ RowConsistent(k) /\ RestartsBounded(t, k) /\ DispatchRecorded(t, k)
    BY StoredRow
  <1>2. n \in Tasks
    BY <1>1 DEF FinishedTask, Tasks, Statuses
  <1>3. RowConsistent(n)
    BY <1>1, NoneAssumption
    DEF RowConsistent, FinishedTask, Tasks, CancellationRequested, Active, Terminal
  <1>4. KeySafe(t, n) /\ NotOverrun(t, k, n) /\ DispatchRecorded(t, n)
    BY <1>1
    DEF KeySafe, TakesKey, NotOverrun, DispatchRecorded, FinishedTask, Tasks, Terminal, Active, Held
  <1>5. FenceHonoured(t, k, n) /\ RestartsBounded(t, n)
    BY <1>1 DEF FenceHonoured, FinishedTask, RestartsBounded, Tasks
  <1> QED
    BY <1>2, <1>3, <1>4, <1>5 DEF SoundRow

(* The fenced row of an owned task that was not fenced. *)
LEMMA FencedRow ==
    ASSUME RowInv, NEW t \in TaskIds, NEW code \in FenceCodes,
           tasks[t].status \in Active, tasks[t].worker # None,
           ~CancellationRequested(tasks[t])
    PROVE  /\ FencedTask(tasks[t], code) \in Tasks
           /\ SoundRow(t, FencedTask(tasks[t], code))
  <1> DEFINE k == tasks[t]
             n == FencedTask(k, code)
  <1>1. k \in Tasks /\ RowConsistent(k) /\ RestartsBounded(t, k) /\ DispatchRecorded(t, k)
    BY StoredRow
  <1>2. n \in Tasks
    BY <1>1 DEF FencedTask, Tasks, Reserved
  <1>3. RowConsistent(n)
    BY <1>1, NoneAssumption
    DEF RowConsistent, FencedTask, Tasks, CancellationRequested, Active, Terminal
  <1>4. KeySafe(t, n) /\ NotOverrun(t, k, n) /\ DispatchRecorded(t, n)
    BY <1>1 DEF KeySafe, TakesKey, HoldsLiveKeyLease, LeaseLive, NotOverrun, DispatchRecorded,
                FencedTask, Tasks, Active, Held
  <1>5. FenceHonoured(t, k, n) /\ RestartsBounded(t, n)
    BY <1>1 DEF FenceHonoured, FencedTask, RestartsBounded, Tasks
  <1> QED
    BY <1>2, <1>3, <1>4, <1>5 DEF SoundRow, Active, Terminal

(* create_task publishes a pending row. *)
LEMMA CreateTaskRow ==
    ASSUME RowInv, NEW t \in TaskIds, NEW s \in SessionIds \cup {None},
           CreateTask(t, s)
    PROVE  RowStep /\ RestOK' /\ now' = now
  <1> DEFINE k == tasks[t]
             n == [AbsentTask EXCEPT !.status = "PENDING", !.session = s,
                                      !.created = createdCount + 1]
  <1>1. k \in Tasks /\ RowConsistent(k) /\ RestartsBounded(t, k) /\ DispatchRecorded(t, k)
    BY StoredRow
  <1>0. now \in Nat
    BY DEF RowInv, TypeOK
  <1>b. createdCount + 1 \in Nat /\ << >> \in Seq(RestartRecords)
    BY DEF RowInv, TypeOK
  <1>2. n \in Tasks
    BY <1>1, <1>b DEF AbsentTask, Tasks, Statuses, Active
  <1>3. RowConsistent(n)
    BY <1>1, NoneAssumption
    DEF CreateTask, AbsentTask, RowConsistent, Tasks, CancellationRequested,
        Exists, Active, Terminal
  <1>4. KeySafe(t, n) /\ NotOverrun(t, k, n) /\ DispatchRecorded(t, n)
    BY <1>1, <1>0
    DEF CreateTask, AbsentTask, KeySafe, TakesKey, HoldsLiveKeyLease,
        LeaseLive, LeaseExpired, RowConsistent, NotOverrun, DispatchRecorded, Exists, Tasks,
        Active, Held, Terminal
  <1>5. FenceHonoured(t, k, n) /\ RestartsBounded(t, n)
    BY <1>1, NoneAssumption, ConstantsAssumption
    DEF CreateTask, AbsentTask, FenceHonoured, CancellationRequested,
        RestartsBounded, RowConsistent, Exists, Tasks, Active, Terminal
  <1>6. RestOK' /\ now' = now
    BY DEF RowInv, TypeOK, RestOK, CreateTask, Records
  <1> QED
    BY <1>2, <1>3, <1>4, <1>5, <1>6
    DEF RowStep, SoundRow, CreateTask, Exists, Active, Terminal

(* create_running_task publishes an attached row without a worker. *)
LEMMA CreateRunningTaskRow ==
    ASSUME RowInv, NEW t \in TaskIds, NEW s \in SessionIds,
           CreateRunningTask(t, s)
    PROVE  RowStep /\ RestOK' /\ now' = now
  <1> DEFINE k == tasks[t]
             n == [AbsentTask EXCEPT !.status = "RUNNING", !.session = s,
                                      !.started = TRUE,
                                      !.created = createdCount + 1]
  <1>1. k \in Tasks /\ RowConsistent(k) /\ RestartsBounded(t, k) /\ DispatchRecorded(t, k)
    BY StoredRow
  <1>0. now \in Nat
    BY DEF RowInv, TypeOK
  <1>b. createdCount + 1 \in Nat /\ << >> \in Seq(RestartRecords)
    BY DEF RowInv, TypeOK
  <1>2. n \in Tasks
    BY <1>1, <1>b DEF AbsentTask, Tasks, Statuses, Active
  <1>3. RowConsistent(n)
    BY <1>1, NoneAssumption
    DEF CreateRunningTask, AbsentTask, RowConsistent, Tasks,
        CancellationRequested, Exists, Active, Terminal
  <1>4. KeySafe(t, n) /\ NotOverrun(t, k, n) /\ DispatchRecorded(t, n)
    BY <1>1, <1>0
    DEF CreateRunningTask, AbsentTask, KeySafe, TakesKey, HoldsLiveKeyLease,
        LeaseLive, LeaseExpired, RowConsistent, NotOverrun, DispatchRecorded, Exists, Tasks,
        Active, Terminal
  <1>5. FenceHonoured(t, k, n) /\ RestartsBounded(t, n)
    BY <1>1, NoneAssumption, ConstantsAssumption
    DEF CreateRunningTask, AbsentTask, FenceHonoured, CancellationRequested,
        RestartsBounded, RowConsistent, Exists, Tasks, Active, Terminal
  <1>6. RestOK' /\ now' = now
    BY DEF RowInv, TypeOK, RestOK, CreateRunningTask, Records
  <1> QED
    BY <1>2, <1>3, <1>4, <1>5, <1>6
    DEF RowStep, SoundRow, CreateRunningTask, Exists, Active, Terminal

(* start_task runs a pending row without a worker. *)
LEMMA StartTaskRow ==
    ASSUME RowInv, NEW t \in TaskIds, NEW s \in SessionIds \cup {None},
           StartTask(t, s)
    PROVE  RowStep /\ RestOK' /\ now' = now
  <1> DEFINE k == tasks[t]
             x == IF k.session # None THEN k.session ELSE s
             n == [k EXCEPT !.status = "RUNNING", !.started = TRUE,
                             !.session = x]
  <1>1. k \in Tasks /\ RowConsistent(k) /\ RestartsBounded(t, k) /\ DispatchRecorded(t, k)
    BY StoredRow
  <1>0. now \in Nat
    BY DEF RowInv, TypeOK
  <1>b. x \in SessionIds \cup {None}
    BY <1>1 DEF Tasks
  <1> HIDE DEF x
  <1>2. n \in Tasks
    BY <1>1, <1>b DEF Tasks, Statuses, Active
  <1>3. RowConsistent(n)
    BY <1>1, NoneAssumption
    DEF StartTask, RowConsistent, Tasks, CancellationRequested, Active,
        Terminal
  <1>4. KeySafe(t, n) /\ NotOverrun(t, k, n) /\ DispatchRecorded(t, n)
    BY <1>1, <1>0
    DEF StartTask, KeySafe, TakesKey, HoldsLiveKeyLease, LeaseLive,
        LeaseExpired, RowConsistent, NotOverrun, DispatchRecorded, Tasks, Active, Terminal
  <1>5. FenceHonoured(t, k, n) /\ RestartsBounded(t, n)
    BY <1>1, NoneAssumption
    DEF StartTask, FenceHonoured, CancellationRequested, RestartsBounded,
        RowConsistent, Tasks, Active, Terminal
  <1>6. RestOK' /\ now' = now
    BY DEF RowInv, TypeOK, RestOK, StartTask, Records
  <1> QED
    BY <1>2, <1>3, <1>4, <1>5, <1>6
    DEF x, RowStep, SoundRow, StartTask, Active, Terminal

(* heartbeat renews the live lease it was granted. *)
LEMMA HeartbeatRow ==
    ASSUME RowInv, NEW t \in TaskIds, NEW w \in WorkerIds, NEW l, NEW h,
           NEW d \in LeaseSeconds,
           Heartbeat(t, w, l, h, d)
    PROVE  RowStep /\ RestOK' /\ now' = now
  <1> DEFINE k == tasks[t]
             n == [k EXCEPT !.lease = now + d]
  <1>1. k \in Tasks /\ RowConsistent(k) /\ RestartsBounded(t, k) /\ DispatchRecorded(t, k)
    BY StoredRow
  <1>a. now + d \in Nat /\ now + d # None /\ now + d > now
    BY GrantedLease
  <1>0. now \in Nat
    BY DEF RowInv, TypeOK
  <1>2. n \in Tasks
    BY <1>1, <1>a DEF Tasks, Statuses, Active
  <1>3. RowConsistent(n)
    BY <1>1, <1>a, NoneAssumption
    DEF Heartbeat, RowConsistent, Tasks, CancellationRequested, OwnsExact,
        OwnsLive, Active, Terminal
  <1>4. KeySafe(t, n) /\ NotOverrun(t, k, n) /\ DispatchRecorded(t, n)
    BY <1>1, <1>a, <1>0
    DEF Heartbeat, KeySafe, TakesKey, HoldsLiveKeyLease, LeaseLive,
        LeaseExpired, RowConsistent, NotOverrun, DispatchRecorded, OwnsExact, OwnsLive, Tasks,
        Active, Terminal
  <1>5. FenceHonoured(t, k, n) /\ RestartsBounded(t, n)
    BY <1>1, <1>a, NoneAssumption
    DEF Heartbeat, FenceHonoured, CancellationRequested, RestartsBounded,
        RowConsistent, OwnsExact, OwnsLive, Tasks, Active, Terminal
  <1>6. RestOK' /\ now' = now
    BY DEF RowInv, TypeOK, RestOK, Heartbeat, Records
  <1> QED
    BY <1>2, <1>3, <1>4, <1>5, <1>6
    DEF RowStep, SoundRow, Heartbeat, OwnsExact, OwnsLive, Active, Terminal

(* mark_claimed_task_execution_started records the dispatch. *)
LEMMA MarkClaimedTaskExecutionStartedRow ==
    ASSUME RowInv, NEW t \in TaskIds, NEW w \in WorkerIds, NEW l,
           MarkClaimedTaskExecutionStarted(t, w, l)
    PROVE  RowStep /\ RestOK' /\ now' = now
  <1> DEFINE k == tasks[t]
             n == [k EXCEPT !.started = TRUE]
  <1>1. k \in Tasks /\ RowConsistent(k) /\ RestartsBounded(t, k) /\ DispatchRecorded(t, k)
    BY StoredRow
  <1>0. now \in Nat
    BY DEF RowInv, TypeOK
  <1>2. n \in Tasks
    BY <1>1 DEF Tasks, Statuses, Active
  <1>3. RowConsistent(n)
    BY <1>1, NoneAssumption
    DEF MarkClaimedTaskExecutionStarted, RowConsistent, Tasks,
        CancellationRequested, OwnsExact, OwnsLive, Active, Terminal
  <1>4. KeySafe(t, n) /\ NotOverrun(t, k, n) /\ DispatchRecorded(t, n)
    BY <1>1, <1>0
    DEF MarkClaimedTaskExecutionStarted, KeySafe, TakesKey, HoldsLiveKeyLease,
        LeaseLive, LeaseExpired, RowConsistent, NotOverrun, DispatchRecorded, OwnsExact,
        OwnsLive, Tasks, Active, Held, Terminal
  <1>5. FenceHonoured(t, k, n) /\ RestartsBounded(t, n)
    BY <1>1, NoneAssumption
    DEF MarkClaimedTaskExecutionStarted, FenceHonoured, CancellationRequested,
        RestartsBounded, RowConsistent, OwnsExact, OwnsLive, Tasks, Active,
        Terminal
  <1>6. RestOK' /\ now' = now
    BY DEF RowInv, TypeOK, RestOK, MarkClaimedTaskExecutionStarted, Records
  <1> QED
    BY <1>2, <1>3, <1>4, <1>5, <1>6
    DEF RowStep, SoundRow, MarkClaimedTaskExecutionStarted, OwnsExact,
        OwnsLive, Active, Terminal

(* attach_task binds an owned claim to a session. *)
LEMMA AttachTaskRow ==
    ASSUME RowInv, NEW t \in TaskIds, NEW s \in SessionIds, NEW w \in WorkerIds, NEW l,
           AttachTask(t, s, w, l)
    PROVE  RowStep /\ RestOK' /\ now' = now
  <1> DEFINE k == tasks[t]
             n == [k EXCEPT !.status = "RUNNING", !.session = s, !.started = TRUE]
  <1>1. k \in Tasks /\ RowConsistent(k) /\ RestartsBounded(t, k) /\ DispatchRecorded(t, k)
    BY StoredRow
  <1>0. now \in Nat
    BY DEF RowInv, TypeOK
  <1>2. n \in Tasks
    BY <1>1 DEF Tasks, Statuses, Active
  <1>3. RowConsistent(n)
    BY <1>1, NoneAssumption
    DEF AttachTask, RowConsistent, Tasks, CancellationRequested, OwnsExact,
        OwnsLive, Active, Terminal
  <1>4. KeySafe(t, n) /\ NotOverrun(t, k, n) /\ DispatchRecorded(t, n)
    BY <1>1, <1>0, NoneAssumption
    DEF AttachTask, KeySafe, TakesKey, HoldsLiveKeyLease, LeaseLive,
        LeaseExpired, RowConsistent, NotOverrun, DispatchRecorded, OwnsExact, OwnsLive, Tasks,
        Active, Held, Terminal
  <1>5. FenceHonoured(t, k, n) /\ RestartsBounded(t, n)
    BY <1>1, NoneAssumption
    DEF AttachTask, FenceHonoured, CancellationRequested, RestartsBounded,
        RowConsistent, OwnsExact, OwnsLive, Tasks, Active, Terminal
  <1>6. RestOK' /\ now' = now
    BY DEF RowInv, TypeOK, RestOK, AttachTask, Records
  <1> QED
    BY <1>2, <1>3, <1>4, <1>5, <1>6
    DEF RowStep, SoundRow, AttachTask, OwnsExact, OwnsLive, Active, Terminal

(* release_task returns an owned claim. *)
LEMMA ReleaseTaskRow ==
    ASSUME RowInv, NEW t \in TaskIds, NEW w \in WorkerIds, NEW l,
           ReleaseTask(t, w, l)
    PROVE  RowStep /\ RestOK' /\ now' = now
  <1> DEFINE k == tasks[t]
             n == [k EXCEPT !.status = "PENDING", !.worker = None,
                             !.lease = None, !.started = FALSE]
  <1>1. k \in Tasks /\ RowConsistent(k) /\ RestartsBounded(t, k) /\ DispatchRecorded(t, k)
    BY StoredRow
  <1>0. now \in Nat
    BY DEF RowInv, TypeOK
  <1>2. n \in Tasks
    BY <1>1 DEF Tasks, Statuses, Active
  <1>3. RowConsistent(n)
    BY <1>1, NoneAssumption
    DEF ReleaseTask, RowConsistent, Tasks, CancellationRequested, OwnsExact,
        OwnsLive, Active, Terminal
  <1>4. KeySafe(t, n) /\ NotOverrun(t, k, n) /\ DispatchRecorded(t, n)
    BY <1>1, <1>0
    DEF ReleaseTask, KeySafe, TakesKey, HoldsLiveKeyLease, LeaseLive,
        LeaseExpired, RowConsistent, NotOverrun, DispatchRecorded, OwnsExact, OwnsLive, Tasks,
        Active, Terminal
  <1>5. FenceHonoured(t, k, n) /\ RestartsBounded(t, n)
    BY <1>1, NoneAssumption
    DEF ReleaseTask, FenceHonoured, CancellationRequested, RestartsBounded,
        RowConsistent, OwnsExact, OwnsLive, Tasks, Active, Terminal
  <1>6. RestOK' /\ now' = now
    BY DEF RowInv, TypeOK, RestOK, ReleaseTask, Records
  <1> QED
    BY <1>2, <1>3, <1>4, <1>5, <1>6
    DEF RowStep, SoundRow, ReleaseTask, OwnsExact, OwnsLive, Active, Terminal

(* release_attached_task_worker leaves the task running unowned. *)
LEMMA ReleaseAttachedTaskWorkerRow ==
    ASSUME RowInv, NEW t \in TaskIds, NEW w \in WorkerIds, NEW l,
           ReleaseAttachedTaskWorker(t, w, l)
    PROVE  RowStep /\ RestOK' /\ now' = now
  <1> DEFINE k == tasks[t]
             n == [k EXCEPT !.worker = None, !.lease = None]
  <1>1. k \in Tasks /\ RowConsistent(k) /\ RestartsBounded(t, k) /\ DispatchRecorded(t, k)
    BY StoredRow
  <1>0. now \in Nat
    BY DEF RowInv, TypeOK
  <1>2. n \in Tasks
    BY <1>1 DEF Tasks, Statuses, Active
  <1>3. RowConsistent(n)
    BY <1>1, NoneAssumption
    DEF ReleaseAttachedTaskWorker, RowConsistent, Tasks,
        CancellationRequested, OwnsExact, OwnsLive, Active, Terminal
  <1>4. KeySafe(t, n) /\ NotOverrun(t, k, n) /\ DispatchRecorded(t, n)
    BY <1>1, <1>0
    DEF ReleaseAttachedTaskWorker, KeySafe, TakesKey, HoldsLiveKeyLease,
        LeaseLive, LeaseExpired, RowConsistent, NotOverrun, DispatchRecorded, OwnsExact,
        OwnsLive, Tasks, Active, Terminal
  <1>5. FenceHonoured(t, k, n) /\ RestartsBounded(t, n)
    BY <1>1, NoneAssumption
    DEF ReleaseAttachedTaskWorker, FenceHonoured, CancellationRequested,
        RestartsBounded, RowConsistent, OwnsExact, OwnsLive, Tasks, Active,
        Terminal
  <1>6. RestOK' /\ now' = now
    BY DEF RowInv, TypeOK, RestOK, ReleaseAttachedTaskWorker, Records
  <1> QED
    BY <1>2, <1>3, <1>4, <1>5, <1>6
    DEF RowStep, SoundRow, ReleaseAttachedTaskWorker, OwnsExact, OwnsLive,
        Active, Terminal

(* Holding clears ownership and never touches a fence. *)
LEMMA HoldTaskRow ==
    ASSUME RowInv, NEW t \in TaskIds, NEW status \in Held,
           NEW reason \in HoldReasons \cup {None},
           HoldTask(t, status, reason)
    PROVE  RowStep /\ RestOK' /\ now' = now
  <1> DEFINE k == tasks[t]
             n == [k EXCEPT !.status = status, !.reason = reason,
                             !.fence = None, !.worker = None, !.lease = None]
  <1>1. k \in Tasks /\ RowConsistent(k) /\ RestartsBounded(t, k) /\ DispatchRecorded(t, k)
    BY StoredRow
  <1>0. now \in Nat
    BY DEF RowInv, TypeOK
  <1>2. n \in Tasks
    BY <1>1 DEF CanHold, Tasks, Statuses, Active, Held
  <1>3. RowConsistent(n)
    BY <1>1, NoneAssumption
    DEF HoldTask, CanHold, RowConsistent, Tasks, CancellationRequested,
        Exists, Active, Held, Terminal
  <1>4. KeySafe(t, n) /\ NotOverrun(t, k, n) /\ DispatchRecorded(t, n)
    <2>1. n.worker = None /\ n.started = k.started /\ n.status \in Held
      BY <1>1 DEF Tasks
    <2>2. KeySafe(t, n) /\ NotOverrun(t, k, n)
      BY <1>1, <2>1 DEF KeySafe, TakesKey, NotOverrun, Held, Tasks
    <2>3. KeyOf[t] # None => k.status \in Held \cup {"PENDING"}
      BY <1>1 DEF HoldTask, CanHold, DispatchRecorded, RowConsistent, Exists, Tasks, Statuses,
                  Active, Terminal
    <2> QED
      BY <1>1, <2>1, <2>2, <2>3 DEF DispatchRecorded, Held
  <1>5. FenceHonoured(t, k, n) /\ RestartsBounded(t, n)
    BY <1>1, NoneAssumption
    DEF HoldTask, CanHold, FenceHonoured, CancellationRequested,
        RestartsBounded, RowConsistent, Exists, Tasks, Active, Held, Terminal
  <1>6. RestOK' /\ now' = now
    BY DEF RowInv, TypeOK, RestOK, HoldTask, Records
  <1> QED
    BY <1>2, <1>3, <1>4, <1>5, <1>6
    DEF RowStep, SoundRow, HoldTask, Exists, Active, Held, Terminal, CanHold

(* resume_task makes a held row pending. *)
LEMMA ResumeTaskRow ==
    ASSUME RowInv, NEW t \in TaskIds,
           ResumeTask(t)
    PROVE  RowStep /\ RestOK' /\ now' = now
  <1> DEFINE k == tasks[t]
             n == [k EXCEPT !.status = "PENDING", !.reason = None,
                             !.fence = None, !.worker = None, !.lease = None]
  <1>1. k \in Tasks /\ RowConsistent(k) /\ RestartsBounded(t, k) /\ DispatchRecorded(t, k)
    BY StoredRow
  <1>0. now \in Nat
    BY DEF RowInv, TypeOK
  <1>2. n \in Tasks
    BY <1>1 DEF Tasks, Statuses, Active, Held
  <1>3. RowConsistent(n)
    BY <1>1, NoneAssumption
    DEF ResumeTask, RowConsistent, Tasks, CancellationRequested, Active, Held,
        Terminal
  <1>4. KeySafe(t, n) /\ NotOverrun(t, k, n) /\ DispatchRecorded(t, n)
    BY <1>1, <1>0
    DEF ResumeTask, KeySafe, TakesKey, HoldsLiveKeyLease, LeaseLive,
        LeaseExpired, RowConsistent, NotOverrun, DispatchRecorded, Tasks, Active, Held, Terminal
  <1>5. FenceHonoured(t, k, n) /\ RestartsBounded(t, n)
    BY <1>1, NoneAssumption
    DEF ResumeTask, FenceHonoured, CancellationRequested, RestartsBounded,
        RowConsistent, Tasks, Active, Held, Terminal
  <1>6. RestOK' /\ now' = now
    BY DEF RowInv, TypeOK, RestOK, ResumeTask, Records
  <1> QED
    BY <1>2, <1>3, <1>4, <1>5, <1>6
    DEF RowStep, SoundRow, ResumeTask, Active, Held, Terminal

(* restart_task requeues the task of a live owner. *)
LEMMA RestartTaskRow ==
    ASSUME RowInv, NEW t \in TaskIds, NEW w \in WorkerIds, NEW l,
           RestartTask(t, w, l)
    PROVE  RowStep /\ RestOK' /\ now' = now
  <1> DEFINE k == tasks[t]
             n == RequeuedTask(k)
  <1>1. k \in Tasks /\ RowConsistent(k) /\ RestartsBounded(t, k) /\ DispatchRecorded(t, k)
    BY StoredRow
  <1>0. now \in Nat
    BY DEF RowInv, TypeOK
  <1>b. k.restarts + 1 \in Nat
    BY <1>1 DEF Tasks
  <1>2. n \in Tasks
    BY <1>1, <1>b DEF RequeuedTask, Tasks, Statuses, Active
  <1>3. RowConsistent(n)
    BY <1>1, NoneAssumption
    DEF RestartTask, RequeuedTask, RowConsistent, Tasks,
        CancellationRequested, OwnsExact, OwnsLive, Active, Terminal
  <1>4. KeySafe(t, n) /\ NotOverrun(t, k, n) /\ DispatchRecorded(t, n)
    BY <1>1, <1>0
    DEF RestartTask, RequeuedTask, KeySafe, TakesKey, HoldsLiveKeyLease,
        LeaseLive, LeaseExpired, RowConsistent, NotOverrun, DispatchRecorded, OwnsExact,
        OwnsLive, Tasks, Active, Terminal
  <1>5. FenceHonoured(t, k, n) /\ RestartsBounded(t, n)
    BY <1>1, NoneAssumption
    DEF RestartTask, RequeuedTask, FenceHonoured, CancellationRequested,
        RestartsBounded, RowConsistent, OwnsExact, OwnsLive, Tasks, Active,
        Terminal
  <1>6. RestOK' /\ now' = now
    BY <1>1 DEF RowInv, TypeOK, RestOK, RestartTask, Tasks
  <1> QED
    BY <1>2, <1>3, <1>4, <1>5, <1>6
    DEF RowStep, SoundRow, RestartTask, OwnsExact, OwnsLive, Active, Terminal

(* claim_task takes a pending row whose key no live lease holds. *)
LEMMA ClaimTaskRow ==
    ASSUME RowInv, NEW w \in WorkerIds, NEW q \in Queries, NEW d \in LeaseSeconds,
           ClaimTask(w, q, d)
    PROVE  RowStep /\ RestOK' /\ now' = now
  <1>1. PICK t \in ClaimCandidates(q) :
           Store(t, [tasks[t] EXCEPT !.status = "CLAIMED", !.worker = w,
                                     !.lease = now + d])
    BY DEF ClaimTask
  <1> DEFINE k == tasks[t]
             n == [k EXCEPT !.status = "CLAIMED", !.worker = w, !.lease = now + d]
  <1>2. t \in TaskIds /\ k.status = "PENDING" /\ k.session = None
        /\ KeyOf[t] \notin LiveKeys
    BY ConstantsAssumption DEF ClaimCandidates
  <1>3. k \in Tasks /\ RowConsistent(k) /\ RestartsBounded(t, k) /\ DispatchRecorded(t, k)
    BY <1>2, StoredRow
  <1>4. now + d \in Nat /\ now + d # None
    BY GrantedLease
  <1>5. n \in Tasks
    BY <1>3, <1>4 DEF Tasks, Statuses, Active
  <1>6. RowConsistent(n)
    BY <1>2, <1>3, <1>4, NoneAssumption
    DEF RowConsistent, Tasks, CancellationRequested, Active, Terminal
  <1>7. KeySafe(t, n) /\ NotOverrun(t, k, n) /\ DispatchRecorded(t, n)
    BY <1>2, <1>3, NoneAssumption
    DEF KeySafe, NotOverrun, DispatchRecorded, RowConsistent, Tasks, Active, Held
  <1>8. FenceHonoured(t, k, n) /\ RestartsBounded(t, n)
    BY <1>2, <1>3 DEF FenceHonoured, RestartsBounded, Tasks, Active
  <1>9. RestOK' /\ now' = now
    BY DEF RowInv, TypeOK, RestOK, ClaimTask, Records
  <1> QED
    BY <1>1, <1>2, <1>5, <1>6, <1>7, <1>8, <1>9 DEF RowStep, SoundRow, Terminal

(* complete_task and fail_task. *)
LEMMA FinishTaskRow ==
    ASSUME RowInv, NEW t \in TaskIds, NEW status \in {"COMPLETED", "FAILED"},
           NEW w, NEW l, NEW h, FinishTask(t, status, w, l, h)
    PROVE  RowStep /\ RestOK' /\ now' = now
  <1>1. /\ FinishedTask(tasks[t], status) \in Tasks
        /\ SoundRow(t, FinishedTask(tasks[t], status))
    BY FinishedRow DEF FinishTask, Terminal
  <1>2. RestOK' /\ now' = now
    BY DEF RowInv, TypeOK, RestOK, FinishTask, Records
  <1> QED
    BY <1>1, <1>2 DEF RowStep, FinishTask

(* A receipt of a typed terminal row is a receipt. *)
LEMMA ReceiptType ==
    ASSUME RowInv, NEW t \in TaskIds, NEW key \in TerminalizationKeys,
           NEW w \in WorkerIds, NEW kind \in Terminal, NEW k \in Tasks,
           RecordReceipt(t, key, w, kind, k)
    PROVE  RestOK' /\ now' = now
  BY DEF RowInv, TypeOK, RestOK, RecordReceipt, Receipts

(* terminalize_task: the kind agrees with a pending cancellation. *)
LEMMA TerminalizeTaskRow ==
    ASSUME RowInv, NEW t \in TaskIds, NEW w \in WorkerIds, NEW l, NEW h,
           NEW kind \in Terminal, NEW key \in TerminalizationKeys,
           TerminalizeTask(t, w, l, h, kind, key)
    PROVE  RowStep /\ RestOK' /\ now' = now
  <1>1. tasks[t].status \notin Terminal
    BY DEF TerminalizeTask, OwnsLive, Active, Terminal
  <1>2. CancellationRequested(tasks[t]) => kind = "CANCELLED"
    BY DEF TerminalizeTask, AgreesWithCancellation
  <1>3. /\ FinishedTask(tasks[t], kind) \in Tasks
        /\ SoundRow(t, FinishedTask(tasks[t], kind))
    BY <1>1, <1>2, FinishedRow
  <1>4. RestOK' /\ now' = now
    BY <1>3, ReceiptType DEF TerminalizeTask
  <1> QED
    BY <1>3, <1>4 DEF RowStep, TerminalizeTask

(* recover_attached_task_failure fails a row that is not fenced. *)
LEMMA RecoverAttachedTaskFailureRow ==
    ASSUME RowInv, NEW t \in TaskIds, NEW s, NEW w \in WorkerIds, NEW l, NEW h,
           NEW key \in IdemKeys, RecoverAttachedTaskFailure(t, s, w, l, h, key)
    PROVE  RowStep /\ RestOK' /\ now' = now
  <1>1. tasks[t].status \notin Terminal /\ ~CancellationRequested(tasks[t])
    BY DEF RecoverAttachedTaskFailure, Terminal
  <1>2. "FAILED" \in Terminal
    BY DEF Terminal
  <1>3. /\ FinishedTask(tasks[t], "FAILED") \in Tasks
        /\ SoundRow(t, FinishedTask(tasks[t], "FAILED"))
    BY <1>1, <1>2, FinishedRow
  <1>4. RestOK' /\ now' = now
    BY <1>2, <1>3, ReceiptType DEF RecoverAttachedTaskFailure, TerminalizationKeys
  <1> QED
    BY <1>3, <1>4 DEF RowStep, RecoverAttachedTaskFailure

(* reconcile_task_cancellation cancels a fenced row. *)
LEMMA ReconcileTaskCancellationRow ==
    ASSUME RowInv, NEW t \in TaskIds, NEW w \in WorkerIds, NEW l, NEW h, NEW rk,
           ReconcileTaskCancellation(t, w, l, h, rk)
    PROVE  RowStep /\ RestOK' /\ now' = now
  <1>1. tasks[t].status \notin Terminal
    BY DEF ReconcileTaskCancellation, ReconcilableFence, Active, Terminal
  <1>2. "CANCELLED" \in Terminal
    BY DEF Terminal
  <1>3. /\ FinishedTask(tasks[t], "CANCELLED") \in Tasks
        /\ SoundRow(t, FinishedTask(tasks[t], "CANCELLED"))
    BY <1>1, <1>2, FinishedRow
  <1>4. RestOK' /\ now' = now
    BY <1>2, <1>3, ReceiptType DEF ReconcileTaskCancellation, TerminalizationKeys
  <1> QED
    BY <1>3, <1>4 DEF RowStep, ReconcileTaskCancellation

(* cancel_task fences an owned row and finishes an unowned one. *)
LEMMA CancelTaskRow ==
    ASSUME RowInv, NEW t \in TaskIds, CancelTask(t)
    PROVE  RowStep /\ RestOK' /\ now' = now
  <1> DEFINE owned == tasks[t].status \in Active /\ tasks[t].worker # None
                      /\ tasks[t].lease # None
  <1>1. tasks[t].status \notin Terminal /\ ~CancellationRequested(tasks[t])
    BY DEF CancelTask
  <1>2. RestOK' /\ now' = now
    BY DEF RowInv, TypeOK, RestOK, CancelTask, Records
  <1>3. CASE owned
    <2>1. /\ FencedTask(tasks[t], "explicit") \in Tasks
          /\ SoundRow(t, FencedTask(tasks[t], "explicit"))
      BY <1>1, <1>3, FencedRow DEF FenceCodes
    <2> QED
      BY <1>2, <1>3, <2>1 DEF RowStep, CancelTask
  <1>4. CASE ~owned
    <2>1. /\ FinishedTask(tasks[t], "CANCELLED") \in Tasks
          /\ SoundRow(t, FinishedTask(tasks[t], "CANCELLED"))
      BY <1>1, FinishedRow DEF Terminal
    <2> QED
      BY <1>2, <1>4, <2>1 DEF RowStep, CancelTask
  <1> QED
    BY <1>3, <1>4

(* request_claimed_task_cancellation fences the row of its owner. *)
LEMMA RequestClaimedTaskCancellationRow ==
    ASSUME RowInv, NEW t \in TaskIds, NEW w \in WorkerIds, NEW l,
           NEW code \in FenceCodes \cup {None},
           RequestClaimedTaskCancellation(t, w, l, code)
    PROVE  RowStep /\ RestOK' /\ now' = now
  <1>1. PICK c \in FenceCodes : Store(t, FencedTask(tasks[t], c))
    BY DEF RequestClaimedTaskCancellation, FenceCodes
  <1>2. /\ FencedTask(tasks[t], c) \in Tasks
        /\ SoundRow(t, FencedTask(tasks[t], c))
    BY FencedRow, NoneAssumption DEF RequestClaimedTaskCancellation
  <1>3. RestOK' /\ now' = now
    BY DEF RowInv, TypeOK, RestOK, RequestClaimedTaskCancellation, Records
  <1> QED
    BY <1>1, <1>2, <1>3 DEF RowStep

(* restart_abandoned_task spends a fresh evidence within the limit. *)
LEMMA RestartAbandonedTaskRow ==
    ASSUME RowInv, NEW t \in TaskIds, NEW w \in WorkerIds, NEW l,
           NEW e \in EvidenceIds, RestartAbandonedTask(t, w, l, e)
    PROVE  RowStep /\ RestOK' /\ now' = now
  <1> DEFINE k == tasks[t]
             r == [evidence |-> e, worker |-> w, lease |-> l]
             n == [RequeuedTask(k) EXCEPT !.history = Append(@, r)]
  <1>1. k \in Tasks /\ RowConsistent(k) /\ RestartsBounded(t, k) /\ DispatchRecorded(t, k)
    BY StoredRow
  <1>2. k.lease = l /\ l \in Nat /\ l <= now /\ now \in Nat
    BY <1>1 DEF RestartAbandonedTask, LeaseExpired, Tasks, RowInv, TypeOK
  <1>3. r \in RestartRecords /\ k.history \in Seq(RestartRecords) /\ k.restarts \in Nat
    BY <1>1, <1>2 DEF RestartRecords, Tasks
  <1> HIDE DEF r
  <1>4. Append(k.history, r) \in Seq(RestartRecords) /\ k.restarts + 1 \in Nat
    BY <1>3
  <1>5. n = [k EXCEPT !.status = "PENDING", !.session = None, !.worker = None,
                      !.lease = None, !.started = FALSE, !.reason = None,
                      !.fence = None, !.restarts = @ + 1,
                      !.history = Append(k.history, r)]
    BY <1>1 DEF RequeuedTask, Tasks
  <1> HIDE DEF n
  <1>6. n \in Tasks
    BY <1>1, <1>4, <1>5 DEF Tasks, Statuses
  <1>7. RowConsistent(n)
    BY <1>1, <1>5, NoneAssumption
    DEF RestartAbandonedTask, RowConsistent, Tasks, CancellationRequested, Active,
        Terminal
  <1>8. KeySafe(t, n) /\ n.history = Append(k.history, r)
    BY <1>1, <1>5 DEF KeySafe, TakesKey, Tasks, Active
  <1>9. Len(n.history) = Len(k.history) + 1
    BY <1>3, <1>8
  <1>10. NotOverrun(t, k, n) /\ DispatchRecorded(t, n)
    BY <1>1, <1>5, <1>9 DEF NotOverrun, DispatchRecorded, Tasks
  <1>11. FenceHonoured(t, k, n)
    BY <1>1, <1>5, <1>9 DEF RestartAbandonedTask, FenceHonoured, Tasks
  <1>12. RestartsBounded(t, n)
    <2>1. n.restarts = k.restarts + 1
      BY <1>1, <1>5 DEF Tasks
    <2>2. Len(k.history) \in Nat /\ RestartLimit[t] \in Nat
      BY <1>3, ConstantsAssumption
    <2>3. Len(n.history) <= RestartLimit[t] /\ Len(n.history) <= n.restarts
      BY <1>1, <1>3, <1>9, <2>1, <2>2 DEF RestartAbandonedTask, RestartsBounded
    <2>4. \A i \in DOMAIN k.history : n.history[i] = k.history[i]
      BY <1>3, <1>8
    <2>5. n.history[Len(k.history) + 1].evidence = e
      BY <1>3, <1>8 DEF r
    <2>6. DOMAIN n.history = 1 .. Len(k.history) + 1
          /\ DOMAIN k.history = 1 .. Len(k.history)
      BY <1>3, <1>4, <1>8, <1>9
    <2>7. ASSUME NEW i \in DOMAIN n.history, NEW j \in DOMAIN n.history,
                 n.history[i].evidence = n.history[j].evidence
          PROVE  i = j
      <3>1. \A m \in DOMAIN k.history : n.history[m].evidence # e
        BY <2>4 DEF RestartAbandonedTask
      <3>2. CASE i \in DOMAIN k.history /\ j \in DOMAIN k.history
        BY <1>1, <2>4, <2>7, <3>2 DEF RestartsBounded
      <3>3. CASE i \notin DOMAIN k.history \/ j \notin DOMAIN k.history
        BY <2>2, <2>5, <2>6, <2>7, <3>1, <3>3
      <3> QED
        BY <3>2, <3>3
    <2> QED
      BY <2>3, <2>7 DEF RestartsBounded
  <1>13. k.status \notin Terminal
    BY DEF RestartAbandonedTask, Active, Terminal
  <1>14. RestOK' /\ now' = now
    BY DEF RowInv, TypeOK, RestOK, RestartAbandonedTask, Records
  <1>15. Store(t, n)
    BY DEF RestartAbandonedTask, n, r
  <1> QED
    BY <1>6, <1>7, <1>8, <1>10, <1>11, <1>12, <1>13, <1>14, <1>15
    DEF RowStep, SoundRow

(* A handoff publishes an identity of the released generation. *)
LEMMA SettleInterruptedTaskHandoffRow ==
    ASSUME RowInv, NEW t \in TaskIds, NEW s \in SessionIds, NEW w \in WorkerIds,
           NEW l, NEW parked \in BOOLEAN, NEW recover \in BOOLEAN,
           SettleInterruptedTaskHandoff(t, s, w, l, parked, recover)
    PROVE  RowStep /\ RestOK' /\ now' = now
  <1> DEFINE k == tasks[t]
             x == WorkerHandoffId(t)
             n == [k EXCEPT !.worker = None, !.lease = None, !.handoff = x]
  <1>1. k \in Tasks /\ RowConsistent(k) /\ RestartsBounded(t, k) /\ DispatchRecorded(t, k)
    BY StoredRow
  <1>2. /\ k.status = "RUNNING" /\ k.session = s /\ k.worker = w /\ k.lease = l
        /\ ~CancellationRequested(k)
        /\ k.lease \in Nat
    BY <1>1 DEF SettleInterruptedTaskHandoff, LeaseExpired, LeaseLive, Tasks
  <1>3. x \in HandoffIds
    <2>1. k.handoff \in ClaimIds \cup {None}
      BY <1>1, <1>2, NoneAssumption DEF RowConsistent
    <2> QED
      BY <1>2, <2>1 DEF WorkerHandoffId, WorkerHandoffIds, HandoffIds
  <1> HIDE DEF x
  <1>4. n \in Tasks
    BY <1>1, <1>3 DEF Tasks
  <1>5. RowConsistent(n)
    BY <1>1, <1>2, NoneAssumption
    DEF RowConsistent, Tasks, CancellationRequested, Active, Terminal
  <1>6. KeySafe(t, n) /\ NotOverrun(t, k, n) /\ DispatchRecorded(t, n)
    BY <1>1, <1>2 DEF KeySafe, TakesKey, NotOverrun, DispatchRecorded, Tasks
  <1>7. FenceHonoured(t, k, n) /\ RestartsBounded(t, n)
    BY <1>1, <1>2 DEF FenceHonoured, RestartsBounded, Tasks
  <1>8. HandedOffTask(t) = n
    BY DEF HandedOffTask, x
  <1>9. RestOK' /\ now' = now
    <2>1. [task |-> t, id |-> x, parked |-> parked, snapshot |-> n] \in HandoffReceipts
      BY <1>3, <1>4 DEF HandoffReceipts
    <2> QED
      BY <1>8, <2>1 DEF RowInv, TypeOK, RestOK, SettleInterruptedTaskHandoff, x
  <1> QED
    BY <1>2, <1>4, <1>5, <1>6, <1>7, <1>8, <1>9
    DEF RowStep, SoundRow, SettleInterruptedTaskHandoff, Terminal

(* A continuation claim takes a handed-off row whose key is free. *)
LEMMA GrantContinuationRow ==
    ASSUME RowInv, NEW t \in TaskIds, NEW w \in WorkerIds, NEW c \in ClaimIds,
           NEW d \in LeaseSeconds, HandedOff(t), KeyOf[t] \notin LiveKeys,
           GrantContinuation(t, w, c, d)
    PROVE  RowStep /\ RestOK' /\ now' = now
  <1> DEFINE k == tasks[t]
             n == [k EXCEPT !.worker = w, !.lease = now + d, !.handoff = c]
  <1>1. k \in Tasks /\ RowConsistent(k) /\ RestartsBounded(t, k) /\ DispatchRecorded(t, k)
    BY StoredRow
  <1>2. now + d \in Nat /\ now + d # None
    BY GrantedLease
  <1>3. n \in Tasks
    BY <1>1, <1>2 DEF Tasks, HandoffIds
  <1>4. RowConsistent(n)
    BY <1>1, <1>2, NoneAssumption
    DEF HandedOff, RowConsistent, Tasks, CancellationRequested, Active, Terminal
  <1>5. KeySafe(t, n) /\ NotOverrun(t, k, n) /\ DispatchRecorded(t, n)
    BY <1>1 DEF HandedOff, KeySafe, NotOverrun, DispatchRecorded, Tasks
  <1>6. FenceHonoured(t, k, n) /\ RestartsBounded(t, n)
    BY <1>1, NoneAssumption
    DEF HandedOff, FenceHonoured, CancellationRequested, RestartsBounded, Tasks
  <1>7. RestOK' /\ now' = now
    BY DEF RowInv, TypeOK, RestOK, GrantContinuation
  <1> QED
    BY <1>3, <1>4, <1>5, <1>6, <1>7
    DEF RowStep, SoundRow, HandedOff, GrantContinuation, Terminal

(* What reclamation publishes for each expired claim: a sound row, without *)
(* a live lease and without a handoff.                                     *)
LEMMA ReclaimedRow ==
    ASSUME RowInv, NEW t \in ExpiredClaims
    PROVE  /\ SoundRow(t, ReclaimedTask(tasks[t]))
           /\ ~TakesKey(ReclaimedTask(tasks[t]))
           /\ ReclaimedTask(tasks[t]).handoff = tasks[t].handoff
  <1> DEFINE k == tasks[t]
             n == ReclaimedTask(k)
  <1>1. k \in Tasks /\ RowConsistent(k) /\ RestartsBounded(t, k) /\ DispatchRecorded(t, k)
    BY StoredRow DEF ExpiredClaims
  <1>2. /\ t \in TaskIds /\ k.status = "CLAIMED" /\ ~CancellationRequested(k)
        /\ k.worker # None /\ k.lease <= now /\ k.lease \in Nat /\ now \in Nat
    BY <1>1 DEF ExpiredClaims, LeaseExpired, RowConsistent, Tasks, RowInv, TypeOK
  <1>3. CASE k.started
    <2>1. n = FencedTask(k, "worker_loss")
      BY <1>3 DEF ReclaimedTask
    <2>2. SoundRow(t, n)
      BY <1>2, <2>1, FencedRow DEF FenceCodes, Active
    <2>3. n.lease = k.lease /\ n.handoff = k.handoff
      BY <1>1, <2>1 DEF FencedTask, Tasks
    <2> QED
      BY <1>2, <2>2, <2>3 DEF TakesKey, LeaseLive
  <1>4. CASE ~k.started
    <2>1. n = [k EXCEPT !.status = "PENDING", !.worker = None, !.lease = None]
      BY <1>4 DEF ReclaimedTask
    <2> HIDE DEF n
    <2>2. n \in Tasks
      BY <1>1, <2>1 DEF Tasks, Statuses
    <2>3. RowConsistent(n)
      BY <1>1, <1>2, <1>4, <2>1, NoneAssumption
      DEF RowConsistent, Tasks, CancellationRequested, Active, Terminal
    <2>4. /\ ~TakesKey(n) /\ NotOverrun(t, k, n) /\ DispatchRecorded(t, n) /\ FenceHonoured(t, k, n)
          /\ n.handoff = k.handoff
      BY <1>1, <1>2, <1>4, <2>1
      DEF TakesKey, NotOverrun, DispatchRecorded, FenceHonoured, Tasks, Active
    <2>5. RestartsBounded(t, n)
      BY <1>1, <2>1 DEF RestartsBounded, Tasks
    <2> QED
      BY <1>2, <2>2, <2>3, <2>4, <2>5 DEF SoundRow, KeySafe, Terminal, n
  <1> QED
    BY <1>3, <1>4

-----------------------------------------------------------------------------
(* The steps, as the properties see them. *)

ReclaimStep == \E S \in SUBSET ExpiredClaims : ReclaimExpired(S)

QuietStep == UNCHANGED <<tasks, handoffIndex>> /\ now' \in Nat /\ now <= now'

(* Every step publishes one sound row, or reclaims, or leaves the rows. *)
LEMMA NextStep ==
    ASSUME RowInv, [Next]_vars
    PROVE  RestOK' /\ ((RowStep /\ now' = now) \/ ReclaimStep \/ QuietStep)
  <1>0. now \in Nat /\ RestOK
    BY DEF RowInv, TypeOK, RestOK
  <1>1. CASE QueueStep
    <2>1. CASE \E S \in SUBSET ExpiredClaims : ReclaimExpired(S)
      BY <1>0, <2>1 DEF ReclaimStep, ReclaimExpired, RestOK, Records
    <2> QED
      BY <1>1, <2>1, CreateTaskRow, ClaimTaskRow, HoldTaskRow, ResumeTaskRow DEF QueueStep
  <1>2. CASE DirectStep
    BY <1>2, CreateRunningTaskRow, StartTaskRow, FinishTaskRow, CancelTaskRow
    DEF DirectStep
  <1>3. CASE OwnerStep
    <2>1. PICK t \in TaskIds, w \in WorkerIds, l \in Leases :
        \/ \E h \in Generations, d \in LeaseSeconds : Heartbeat(t, w, l, h, d)
        \/ MarkClaimedTaskExecutionStarted(t, w, l)
        \/ \E s \in SessionIds : AttachTask(t, s, w, l)
        \/ ReleaseTask(t, w, l)
        \/ ReleaseAttachedTaskWorker(t, w, l)
        \/ \E status \in {"COMPLETED", "FAILED"}, h \in Generations :
              FinishTask(t, status, w, l, h)
        \/ \E h \in Generations, kind \in Terminal, key \in TerminalizationKeys :
              TerminalizeTask(t, w, l, h, kind, key)
        \/ \E code \in FenceCodes \cup {None} :
              RequestClaimedTaskCancellation(t, w, l, code)
        \/ RestartTask(t, w, l)
        \/ \E s \in SessionIds, parked \in BOOLEAN :
              SettleInterruptedTaskHandoff(t, s, w, l, parked, FALSE)
      BY <1>3 DEF OwnerStep
    <2> QED
      BY <2>1, HeartbeatRow, MarkClaimedTaskExecutionStartedRow, AttachTaskRow,
         ReleaseTaskRow, ReleaseAttachedTaskWorkerRow, FinishTaskRow,
         TerminalizeTaskRow, RequestClaimedTaskCancellationRow, RestartTaskRow,
         SettleInterruptedTaskHandoffRow
  <1>4. CASE LeaselessTerminalization
    BY <1>4, TerminalizeTaskRow DEF LeaselessTerminalization
  <1>5. CASE RecoveryStep
    <2>1. CASE \E t \in TaskIds, w \in WorkerIds, l \in Leases :
          \/ \E s \in SessionIds, h \in Generations, key \in IdemKeys :
                RecoverAttachedTaskFailure(t, s, w, l, h, key)
          \/ \E s \in SessionIds, parked \in BOOLEAN :
                SettleInterruptedTaskHandoff(t, s, w, l, parked, TRUE)
          \/ \E e \in EvidenceIds : RestartAbandonedTask(t, w, l, e)
          \/ \E h \in Generations, rk \in ReconcileKeys :
                \/ ReconcileTaskCancellation(t, w, l, h, rk)
                \/ RejectTaskCancellationReconciliation(t, w, l, h, rk)
      <3>1. ASSUME NEW t \in TaskIds, NEW w \in WorkerIds, NEW l \in Leases,
                   NEW h \in Generations, NEW rk \in ReconcileKeys,
                   RejectTaskCancellationReconciliation(t, w, l, h, rk)
            PROVE  RestOK' /\ QuietStep
        BY <1>0, <3>1 DEF RejectTaskCancellationReconciliation, RestOK, QuietStep
      <3> QED
        BY <2>1, <3>1, RecoverAttachedTaskFailureRow, SettleInterruptedTaskHandoffRow,
           RestartAbandonedTaskRow, ReconcileTaskCancellationRow
    <2>2. ASSUME NEW w \in WorkerIds, NEW c \in ClaimIds, NEW d \in LeaseSeconds,
                 NEW q \in Queries, ClaimInterruptedTaskContinuation(w, q, c, d)
          PROVE  RowStep /\ RestOK' /\ now' = now
      BY <2>2, GrantContinuationRow, ConstantsAssumption
      DEF ClaimInterruptedTaskContinuation, ContinuationCandidates
    <2>3. ASSUME NEW w \in WorkerIds, NEW c \in ClaimIds, NEW d \in LeaseSeconds,
                 NEW r \in handoffReceipts,
                 ClaimBoundTaskContinuation(r.task, r.id, r.parked, w, c, d)
          PROVE  RowStep /\ RestOK' /\ now' = now
      <3>1. r.task \in TaskIds
        BY DEF RowInv, TypeOK, HandoffReceipts
      <3> QED
        BY <2>3, <3>1, GrantContinuationRow DEF ClaimBoundTaskContinuation
    <2> QED
      BY <1>5, <2>1, <2>2, <2>3 DEF RecoveryStep
  <1>6. CASE Tick
    BY <1>0, <1>6 DEF Tick, QuietStep, RestOK, Records
  <1>7. CASE UNCHANGED vars
    BY <1>0, <1>7 DEF vars, QuietStep, RestOK
  <1> QED
    BY <1>1, <1>2, <1>3, <1>4, <1>5, <1>6, <1>7 DEF Next

(* Each row is kept or replaced by a sound one, whatever the step. *)
LEMMA RowsChange ==
    ASSUME RowInv, [Next]_vars, NEW t \in TaskIds
    PROVE  tasks'[t] = tasks[t] \/ SoundRow(t, tasks'[t])
  <1>1. tasks \in [TaskIds -> Tasks]
    BY DEF RowInv, TypeOK
  <1>2. CASE RowStep
    BY <1>1, <1>2 DEF RowStep, Store
  <1>3. CASE ReclaimStep
    BY <1>1, <1>3, ReclaimedRow DEF ReclaimStep, ReclaimExpired
  <1>4. CASE QuietStep
    BY <1>4 DEF QuietStep
  <1> QED
    BY <1>2, <1>3, <1>4, NextStep

(* Rows and index keep their types. *)
LEMMA StoreType ==
    ASSUME RowInv, [Next]_vars
    PROVE  tasks' \in [TaskIds -> Tasks] /\ handoffIndex' \subseteq HandoffIds \X TaskIds
  <1>1. tasks \in [TaskIds -> Tasks] /\ handoffIndex \subseteq HandoffIds \X TaskIds
    BY DEF RowInv, TypeOK
  <1>2. CASE RowStep
    <2>1. PICK t \in TaskIds, n \in Tasks : Store(t, n)
      BY <1>2 DEF RowStep
    <2>2. tasks' \in [TaskIds -> Tasks]
      BY <1>1, <2>1 DEF Store
    <2>3. n.handoff \in HandoffIds \cup {None}
      BY DEF Tasks
    <2> QED
      BY <1>1, <2>1, <2>2, <2>3 DEF Store
  <1>3. CASE ReclaimStep
    BY <1>1, <1>3, ReclaimedRow DEF ReclaimStep, ReclaimExpired, SoundRow
  <1>4. CASE QuietStep
    BY <1>1, <1>4 DEF QuietStep
  <1> QED
    BY <1>2, <1>3, <1>4, NextStep

-----------------------------------------------------------------------------
(* The row invariants. *)

LEMMA RowInvInit ==
    ASSUME Init PROVE RowInv
  <1>1. AbsentTask \in Tasks
    <2>1. << >> \in Seq(RestartRecords)
      OBVIOUS
    <2> QED
      BY <2>1 DEF AbsentTask, Tasks, Statuses
  <1>2. RowConsistent(AbsentTask)
    BY NoneAssumption
    DEF RowConsistent, AbsentTask, CancellationRequested, Active, Terminal
  <1>3. \A t \in TaskIds : RestartsBounded(t, AbsentTask)
    BY ConstantsAssumption DEF RestartsBounded, AbsentTask
  <1>4. TypeOK
    BY <1>1 DEF Init, TypeOK
  <1> QED
    BY <1>2, <1>3, <1>4
    DEF Init, RowInv, RowsConsistent, AbandonedRestartsBounded, DispatchesRecorded,
        DispatchRecorded, AbsentTask, Held

LEMMA RowInvStep ==
    ASSUME RowInv, [Next]_vars PROVE RowInv'
  <1>1. TypeOK'
    BY NextStep, StoreType DEF RestOK, TypeOK
  <1>2. ASSUME NEW t \in TaskIds
        PROVE  /\ RowConsistent(tasks'[t]) /\ RestartsBounded(t, tasks'[t])
               /\ DispatchRecorded(t, tasks'[t])
    BY StoredRow, RowsChange DEF SoundRow
  <1>3. RowsConsistent'
    BY <1>2 DEF RowsConsistent, RowConsistent, CancellationRequested
  <1>4. AbandonedRestartsBounded'
    BY <1>2 DEF AbandonedRestartsBounded, RestartsBounded
  <1>5. DispatchesRecorded'
    BY <1>2 DEF DispatchesRecorded, DispatchRecorded
  <1> QED
    BY <1>1, <1>3, <1>4, <1>5 DEF RowInv

THEOREM RowInvariant == Spec => []RowInv
  BY RowInvInit, RowInvStep, PTL DEF Spec

(* Every row, index entry, claim, receipt and rejection keeps its type     *)
(* under every operation of the store.                                     *)
THEOREM TypeCorrect == Spec => []TypeOK
  BY RowInvariant, PTL DEF RowInv

(* Ownership, attachment, handoff and fence of every row always agree.     *)
THEOREM RowsAreConsistent == Spec => []RowsConsistent
  BY RowInvariant, PTL DEF RowInv

(* restart_abandoned_task never passes the restart limit and never accepts *)
(* an evidence twice.                                                      *)
THEOREM RestartsAreBounded == Spec => []AbandonedRestartsBounded
  BY RowInvariant, PTL DEF RowInv

-----------------------------------------------------------------------------
(* The step properties. *)

(* A recorded cancellation is only ever settled as cancelled, or undone by *)
(* a restart after worker loss.                                            *)
THEOREM CancellationAlwaysWins == Spec => CancellationWins
  <1>1. ASSUME RowInv, [Next]_vars
        PROVE  [\A t \in TaskIds : FenceHonoured(t, tasks[t], tasks'[t])]_vars
    <2>1. ASSUME NEW t \in TaskIds PROVE FenceHonoured(t, tasks[t], tasks'[t])
      BY <1>1, RowsChange DEF SoundRow, FenceHonoured
    <2> QED
      BY <2>1
  <1> QED
    BY <1>1, RowInvariant, PTL DEF Spec, CancellationWins

(* No operation gives the task of a live lease to another worker or        *)
(* extends an expired lease, and one whose dispatch is on record reaches   *)
(* another worker only as a continuation, once the live owner or a fresh   *)
(* evidence has struck the dispatch out, or, without a key, after a hold.  *)
THEOREM OwnersAreNeverOverrun == Spec => OwnersAreNotOverrun
  <1>1. ASSUME RowInv, [Next]_vars
        PROVE  [\A t \in TaskIds : NotOverrun(t, tasks[t], tasks'[t])]_vars
    <2>1. ASSUME NEW t \in TaskIds PROVE NotOverrun(t, tasks[t], tasks'[t])
      BY <1>1, RowsChange, StoredRow DEF SoundRow, NotOverrun, DispatchRecorded, Tasks
    <2> QED
      BY <2>1
  <1> QED
    BY <1>1, RowInvariant, PTL DEF Spec, OwnersAreNotOverrun

(* Completed, failed and cancelled rows are never written again. *)
THEOREM TerminalRowsAreFinal == Spec => TerminalIsFinal
  <1>1. ASSUME RowInv, [Next]_vars
        PROVE  [\A t \in TaskIds :
                  tasks[t].status \in Terminal => tasks'[t] = tasks[t]]_vars
    BY <1>1, RowsChange DEF SoundRow
  <1> QED
    BY <1>1, RowInvariant, PTL DEF Spec, TerminalIsFinal

-----------------------------------------------------------------------------
(* Concurrency keys. *)

(* A task that holds its key after a step held it before, or took a key    *)
(* that no task held; in the second case no other row changed.             *)
LEMMA KeysChange ==
    ASSUME RowInv, [Next]_vars
    PROVE  \/ \A t \in TaskIds : HoldsLiveKeyLease(t)' => HoldsLiveKeyLease(t)
           \/ \E t \in TaskIds :
                /\ KeyOf[t] # None /\ KeyOf[t] \notin LiveKeys
                /\ now' = now
                /\ \A u \in TaskIds \ {t} : tasks'[u] = tasks[u]
  <1>1. tasks \in [TaskIds -> Tasks] /\ now \in Nat
    BY DEF RowInv, TypeOK
  <1>2. CASE RowStep /\ now' = now
    <2>1. PICK t \in TaskIds, n \in Tasks : Store(t, n) /\ SoundRow(t, n)
      BY <1>2 DEF RowStep
    <2>2. tasks'[t] = n /\ \A u \in TaskIds \ {t} : tasks'[u] = tasks[u]
      BY <1>1, <2>1 DEF Store
    <2>3. \A u \in TaskIds \ {t} : HoldsLiveKeyLease(u)' => HoldsLiveKeyLease(u)
      BY <1>2, <2>2 DEF HoldsLiveKeyLease, LeaseLive
    <2>4. HoldsLiveKeyLease(t)' => TakesKey(n) /\ KeyOf[t] # None
      BY <1>2, <2>2 DEF HoldsLiveKeyLease, TakesKey, LeaseLive
    <2> QED
      BY <1>2, <2>1, <2>2, <2>3, <2>4 DEF SoundRow, KeySafe
  <1>3. CASE ReclaimStep
    <2>1. PICK S \in SUBSET ExpiredClaims : ReclaimExpired(S)
      BY <1>3 DEF ReclaimStep
    <2>2. now' = now
      BY <2>1 DEF ReclaimExpired
    <2>3. ASSUME NEW t \in TaskIds, HoldsLiveKeyLease(t)'
          PROVE  HoldsLiveKeyLease(t)
      <3>1. CASE t \in S
        <4>1. tasks'[t] = ReclaimedTask(tasks[t])
          BY <2>1, <3>1 DEF ReclaimExpired
        <4> QED
          BY <2>2, <2>3, <3>1, <4>1, ReclaimedRow
          DEF HoldsLiveKeyLease, TakesKey, LeaseLive
      <3>2. CASE t \notin S
        BY <2>1, <2>2, <2>3, <3>2 DEF ReclaimExpired, HoldsLiveKeyLease, LeaseLive
      <3> QED
        BY <3>1, <3>2
    <2> QED
      BY <2>3
  <1>4. CASE QuietStep
    <2>1. ASSUME NEW t \in TaskIds, HoldsLiveKeyLease(t)'
          PROVE  HoldsLiveKeyLease(t)
      <3>1. tasks[t].lease \in Nat \cup {None}
        BY <1>1 DEF Tasks
      <3> QED
        BY <1>1, <1>4, <2>1, <3>1 DEF QuietStep, HoldsLiveKeyLease, LeaseLive
    <2> QED
      BY <2>1
  <1> QED
    BY <1>2, <1>3, <1>4, NextStep

LEMMA KeyExclusionStep ==
    ASSUME RowInv, KeyExclusion, [Next]_vars
    PROVE  KeyExclusion'
  <1>1. CASE \A t \in TaskIds : HoldsLiveKeyLease(t)' => HoldsLiveKeyLease(t)
    BY <1>1 DEF KeyExclusion
  <1>2. ASSUME NEW t \in TaskIds, KeyOf[t] \notin LiveKeys, now' = now,
               \A u \in TaskIds \ {t} : tasks'[u] = tasks[u]
        PROVE  KeyExclusion'
    <2>1. \A u \in TaskIds \ {t} :
             HoldsLiveKeyLease(u)' => HoldsLiveKeyLease(u) /\ KeyOf[u] # KeyOf[t]
      BY <1>2 DEF HoldsLiveKeyLease, LeaseLive, LiveKeys
    <2> QED
      BY <2>1 DEF KeyExclusion
  <1> QED
    BY <1>1, <1>2, KeysChange

(* A concurrency key never has two live owners, whatever claims,           *)
(* heartbeats, expiries and continuations interleave.                      *)
THEOREM KeysAreExclusive == Spec => []KeyExclusion
  <1>1. Init => KeyExclusion
    BY DEF Init, KeyExclusion, HoldsLiveKeyLease, AbsentTask, Active
  <1> QED
    BY <1>1, KeyExclusionStep, RowInvariant, PTL DEF Spec

-----------------------------------------------------------------------------
(* The keys implement the lock of KeyLease. *)

(* KeyHolder is the one task that holds the key, or None. *)
HolderExact ==
    \A k \in UsedKeys :
        /\ \A t \in TaskIds :
             HoldsLiveKeyLease(t) /\ KeyOf[t] = k => KeyHolder[k] = t
        /\ (\A t \in TaskIds : ~(HoldsLiveKeyLease(t) /\ KeyOf[t] = k))
             => KeyHolder[k] = None

LEMMA HolderOf == KeyExclusion => HolderExact
  <1> SUFFICES ASSUME KeyExclusion, NEW k \in UsedKeys
               PROVE  /\ \A t \in TaskIds :
                           HoldsLiveKeyLease(t) /\ KeyOf[t] = k => KeyHolder[k] = t
                      /\ (\A t \in TaskIds : ~(HoldsLiveKeyLease(t) /\ KeyOf[t] = k))
                           => KeyHolder[k] = None
    BY DEF HolderExact
  <1>1. ASSUME NEW t \in TaskIds, HoldsLiveKeyLease(t), KeyOf[t] = k
        PROVE  KeyHolder[k] = t
    <2> DEFINE u == CHOOSE x \in TaskIds : HoldsLiveKeyLease(x) /\ KeyOf[x] = k
    <2>1. u \in TaskIds /\ HoldsLiveKeyLease(u) /\ KeyOf[u] = k
      BY <1>1
    <2>2. KeyHolder[k] = u
      BY <1>1 DEF KeyHolder
    <2> QED
      BY <1>1, <2>1, <2>2 DEF KeyExclusion
  <1> QED
    BY <1>1 DEF KeyHolder

(* Every step takes one free key, lets keys lapse, or leaves the holders. *)
LEMMA LockStep ==
    ASSUME RowInv, KeyExclusion, KeyExclusion', [Next]_vars
    PROVE  [KeyLock!Next]_KeyHolder
  <1>0. /\ KeyHolder = [k \in UsedKeys |-> KeyHolder[k]]
        /\ KeyHolder' = [k \in UsedKeys |-> KeyHolder'[k]]
    BY DEF KeyHolder
  <1>a. HolderExact
    BY HolderOf
  <1>b. HolderExact'
    BY HolderOf, PTL
  <1>1. \A k \in UsedKeys :
          /\ \A t \in TaskIds :
               HoldsLiveKeyLease(t)' /\ KeyOf[t] = k => KeyHolder'[k] = t
          /\ (\A t \in TaskIds : ~(HoldsLiveKeyLease(t)' /\ KeyOf[t] = k))
               => KeyHolder'[k] = None
    BY <1>b DEF HolderExact, UsedKeys
  <1>2. CASE \A t \in TaskIds : HoldsLiveKeyLease(t)' => HoldsLiveKeyLease(t)
    <2> DEFINE K == {k \in UsedKeys : KeyHolder'[k] = None}
    <2>1. \A k \in UsedKeys \ K : KeyHolder'[k] = KeyHolder[k]
      BY <1>1, <1>2, <1>a DEF HolderExact
    <2>2. KeyHolder' = [k \in UsedKeys |-> IF k \in K THEN None ELSE KeyHolder[k]]
      BY <1>0, <2>1
    <2> QED
      BY <2>2 DEF KeyLock!Next, KeyLock!Lapse
  <1>3. ASSUME NEW t \in TaskIds, KeyOf[t] # None, KeyOf[t] \notin LiveKeys,
               now' = now, \A u \in TaskIds \ {t} : tasks'[u] = tasks[u]
        PROVE  [KeyLock!Next]_KeyHolder
    <2>1. KeyOf[t] \in UsedKeys
      BY <1>3 DEF UsedKeys
    <2>2. \A u \in TaskIds \ {t} : HoldsLiveKeyLease(u)' <=> HoldsLiveKeyLease(u)
      BY <1>3 DEF HoldsLiveKeyLease, LeaseLive
    <2>3. \A u \in TaskIds : HoldsLiveKeyLease(u) => KeyOf[u] # KeyOf[t]
      BY <1>3 DEF LiveKeys
    <2>4. KeyHolder[KeyOf[t]] = None
      BY <2>1, <2>3, <1>a DEF HolderExact
    <2>5. KeyHolder'[KeyOf[t]] \in {t, None}
      BY <1>1, <2>1, <2>2, <2>3
    <2>6. ASSUME NEW k \in UsedKeys, k # KeyOf[t]
          PROVE  KeyHolder'[k] = KeyHolder[k]
      BY <1>1, <2>2, <2>6, <1>a DEF HolderExact
    <2>7. CASE KeyHolder'[KeyOf[t]] = t
      <3>1. KeyHolder' = [KeyHolder EXCEPT ![KeyOf[t]] = t]
        BY <1>0, <2>1, <2>6, <2>7
      <3> QED
        BY <2>1, <2>4, <3>1 DEF KeyLock!Next, KeyLock!Acquire
    <2>8. CASE KeyHolder'[KeyOf[t]] = None
      BY <1>0, <2>4, <2>6, <2>8
    <2> QED
      BY <2>5, <2>7, <2>8
  <1> QED
    BY <1>2, <1>3, KeysChange

(* A key passes from one task to another only through an instant at which  *)
(* no task holds it: the queue refines the lock.                           *)
THEOREM KeysImplementLocks == Spec => KeysAreLocks
  <1>1. Init => KeyLock!Init
    BY DEF Init, KeyLock!Init, KeyHolder, HoldsLiveKeyLease, AbsentTask, Active
  <1>2. RowInv /\ KeyExclusion /\ KeyExclusion' /\ [Next]_vars
          => [KeyLock!Next]_KeyHolder
    BY LockStep
  <1> QED
    BY <1>1, <1>2, RowInvariant, KeysAreExclusive, PTL DEF Spec, KeysAreLocks, KeyLock!Spec

============================================================================
