# A verification project for cayu

cayu runs agent sessions and durable background tasks. What keeps it correct when processes die,
messages are repeated and operators intervene is a set of *stores*: passive objects whose operations
are atomic and whose records say who may do what next. This directory models those stores in TLA+,
checks the models with TLC on small instances, and proves the main results with TLAPS for all
instances.

## 1. Inventory

| Part | State it keeps | Operations | What is hard |
|---|---|---|---|
| Task store (`tasks/memory.py`, SQL twins in `storage/`) | one row per task, handoff index, continuation claims, receipts | create, claim, heartbeat, attach, release, finish, terminalize, cancel, hold, resume, restart, hand off, continue, reclaim | many callers, leases that expire under them, repeated calls, rows rewritten without validation |
| Task worker (`tasks/worker.py`, `tasks/_terminalization.py`) | the claim it believes it owns, a handler task, a heartbeat loop | renew, dispatch, drain, settle, restart, reconcile | lost acknowledgements, losing the lease while a handler runs, cancellation of the worker itself |
| Graphs and groups (`tasks/_graphs.py`, `_groups.py`, `_group_quiescence.py`, `_memory_graphs.py`) | prerequisites, group decision and barrier, execution obligations | admit, release, skip, decide, cancel losers, acknowledge, finalize | quiescence: a row may be terminal while its handler still executes |
| Retry series (`tasks/retry.py`), schedules (`tasks/_scheduling.py`) | attempts, deadline, spent budget, available_at | settle an attempt, enforce the deadline, reschedule | a deadline racing a result |
| Work contracts (`tasks/admission.py`, `verification/`) | admissions, attempts, proposals, decisions | admit, execute, verify, apply | verifier claims that expire |
| Session message queue (`sessions/_memory_queued_messages.py`, `runtime/_session_engine.py`) | queued messages, delivery receipts, transcript, run epoch | enqueue, withdraw, deliver, settle, complete, interrupt, recover | enqueue against completion, lost answers, fenced runs, step limit |
| Event delivery (`runtime/_event_writer.py`, `sessions/_memory_event_delivery.py`) | one handoff row per persisted event, leases | claim, forward, continue, emit, acknowledge, fail, defer, retire | slow and dead workers, partial delivery, retries |
| Budget ledger (`storage/budget_ledger.py`, `budgets/`) | reservations, settlements and their outbox, bindings | reserve (one or a batch), fence, heartbeat, reconcile, release, clean up, acknowledge | concurrent reservations, expiry against dispatch, late and backdated settlement, repeated settlement |
| Settlement publication (`runtime/_run_limits.py`) | a scan cursor per process | scan the outbox, append the event, acknowledge; deletion of sessions | crash between event and acknowledgement, rows behind the cursor, reused session ids |
| Budget barrier (`runtime/_run_limits.py`) | the reservations of a model step | fence, dispatch receipt, provider call, settlement | crash between any two of them |
| Rest of the session store and runtime (`sessions/`, `runtime/`) | checkpoints, tool rounds, grants, creation claims, invocation lifecycle | publish, resume, settle | crash between an effect and its record |
| Workflow journal (`workflows/journal.py`) | recorded steps | record, replay | replay after a crash |
| The rest (providers, tools, environments, server, CLI, evals, dashboard, ...) | none that other parts depend on | I/O | not protocol logic |

Workers, the server, maintenance loops and operators call the task store concurrently. A task may be
attached to a session; when that session is interrupted its worker hands the task off, and a later
continuation claim picks it up. The worker reads a row, awaits, and presents what it read (the worker
name, the lease expiry, the handoff generation) as authority for the next call: all of the store's
safety rests on checking these against the row at the time of the call. `TaskStore` models the store with
unrestricted callers; `TaskWorker` models one caller in detail, `TaskGraph` the transactions in which a
change of one task becomes changes of others. The session side is joined to it by settlements
(`SettlementPublication` carries what `BudgetLedger` posts into a session's log), by the handoff rows of
`EventDelivery` that every appended event leaves, and by `MessageQueue`, in which runs and recoveries
compete for a session as workers do for a task.

| Module | Models | Checked by | Proved in |
|---|---|---|---|
| `TaskStore`, `KeyLease` | section 2 | `MCTaskStore` | `TaskStoreProofs`, `TaskStoreHandoffProofs` |
| `BudgetLedger` | section 3 | `MCBudgetLedger` | `BudgetLedgerProofs` |
| `SettlementPublication` | section 4 | `MCSettlementPublication` | `SettlementPublicationProofs` |
| `EventDelivery` | section 5 | `MCEventDelivery` | `EventDeliveryProofs` |
| `TaskGraph`, `GroupBarrier` | section 6 | `MCTaskGraph` | `TaskGraphProofs` |
| `TaskWorker` | section 7 | `MCTaskWorker` | `TaskWorkerProofs` |
| `MessageQueue` | section 8 | `MCMessageQueue` | `MessageQueueProofs` |

## 2. The task store: `TaskStore.tla`

`InMemoryTaskStore` runs each operation to its end under one `asyncio.Lock`, so one operation is one
action; an operation that raises changes nothing and is a stuttering step. The model keeps every
guard and every assignment of the operations on ordinary tasks.

| Variable | Code |
|---|---|
| `tasks` | `_tasks`; the fields that guards or other operations read |
| `handoffIndex` | `_task_id_by_interrupted_handoff_id` |
| `claims` | `_interrupted_continuation_claims` |
| `handoffReceipts`, `receipts`, `rejections` | `_interrupted_handoff_receipts`, `_terminalization_receipts`, `_cancellation_reconciliation_rejections` |
| `retired` | `_retired_task_sessions` |
| `now`, `createdCount` | the ownership clock; `created_at` as a rank |

Abstractions. A lease is its expiry instant, which is exactly the token owners present. A session id
stands for the pair (session, instance). A sha256 handoff identity is the tuple it digests; a
continuation generation is a model value, drawn by the caller and usable once. Of the error a fence
carries only the family matters (`fenced_by_worker_loss`): `worker_loss` or `explicit`. A claim filter
is the set of tasks it matches, which also stands for the continuation scan's `after` cursor. A task
has its own `max_restarts`; the default a request brings for tasks without one is the same thing for
one caller. Results, errors and payloads are not modelled, nor is a replayed request: it returns a
stored receipt and changes nothing.

Callers are unrestricted: any worker name, any lease token and any generation may be presented at any
time, stale ones included, so the properties do not rely on workers behaving. Two assumptions are
made: the ownership clock does not go back, and only workers and reclamation use the error codes of
`WORKER_LOSS_FENCE_CODES`.

`KeyLease.tla` is the abstract specification of a concurrency key: a lock that is taken when free and
that never passes directly from one holder to the next.

## 3. The budget ledger: `BudgetLedger.tla`

`SQLiteBudgetLedger` runs each operation in one `BEGIN IMMEDIATE` transaction under a lock: one
operation is one action, and one that raises is rolled back and stutters. All sessions share the
ledger. A reservation of a limit is made before a provider call, is a lease until `mark_dispatched`
fences it, and is then reconciled to the amount charged, or released.

| Variable | Code |
|---|---|
| `records` | `cayu_budget_reservations`: limit, amounts, status, reason, dispatch id, dates |
| `outbox`, `published` | `cayu_budget_settlements` and its `event_published` column |
| `bindings` | `cayu_budget_bindings` with `cayu_budget_binding_consumptions` |
| `now` | the ledger's clock |

Reserving cleans up first: leases of the limit that expired and were never fenced are released and
posted (`Reaped`), and this is kept when the reservation is then rejected. A rejected batch has cleaned
up the limits before the one that failed, and that one. `Reserve` and `ReserveBatch` count active
reservations in full and reconciled ones if the window of the limit contains the date of the charge
(`Counted`). This date is the caller's (`occurred_at`, when the model completed), any instant between
the reservation and now (`Dates`), so settlements arrive late and out of order.

Abstractions. Amounts are small naturals (the code has exact decimals); a sum counts units, so that
sums can be reasoned about as finite sets. A calendar is any monotone map `Period` from instants to
periods. A reason is a model value; that of cleanup, which the code recognises by its prefix, is
`Expired`, and callers are assumed not to use it. An exact replay of a batch or a registration returns
what is stored and stutters. The mutation of a dispatch's own date, prices and billing identities are
left out: no guard of the ledger compares them except with themselves.

## 4. Publication of settlements: `SettlementPublication.tla`

The ledger and the session store are two durability domains. A settlement is posted in the first, its
audit event is appended to a log in the second, and only then is the row acknowledged. Anyone may die in
between, so every reservation first scans the outbox: all sessions, a bounded number of pages from a
cursor that the process keeps in memory, or one session from the start.

| Variable | Code |
|---|---|
| `row` | `cayu_budget_settlements`: absent, reserved, pending, published, and the `session_instance_id` |
| `event` | the audit event of a row in its session's log, with the status of its delivery |
| `live`, `instance`, `identities` | sessions, the incarnation under each id, `_budget_reservation_identities` |
| `cursor`, `scan` | `_global_settlement_recovery_after`; the local variables of `_recover_pending_budget_settlement_pages` |

A step of a scanner is the code between two awaits; other scanners, delivery, deletion and creation of
sessions interleave with it. Rows are numbered by (`settled_at`, id), so a row may appear behind a cursor.
`Preparable` says which rows pass a process's secret policy; the others are skipped. Amounts are
`BudgetLedger`'s business and are left out.

## 5. Delivery of persisted events: `EventDelivery.tla`

An event is committed together with a handoff row. Some worker claims the row, forwards model usage to
the budget store, continues the parent of a foreground child, emits to every sink and closes the row.

| Variable | Code |
|---|---|
| `delivery` | `PersistedEventSideEffectDelivery`: status, attempts, claim; `ready`: its lease or retry deadline has passed |
| `worker` | where `_deliver_persisted_side_effect_claim` is, with the attempt it claimed |
| `forwarded`, `continued`, `received` | what the budget store, the parents and the sinks have |

Store operations are one action; the writer's steps are the code between two awaits. Time is what it
decides. A claim id is written as the worker that drew it. `Crash`, `LeaseExpires`, failing sinks, lost
answers and deferrals are bounded by `MaxFaults`, failing attempts by the code's own limit.

## 6. Graphs and groups: `TaskGraph.tla`

Every change of a task of a graph is one transaction, `store_graph_task`, which plans the consequences
(dependants released or skipped, the group decided, losers cancelled, the barrier moved, the finalizer
released) and publishes all of them or nothing: `Transact` is that transaction, and the actions are its
callers. `proc` is what workers really do, `execution` what the store knows of it (the obligation created
when an execution starts and settled by its acknowledgement); the barrier is sound if the second never
says less than the first. A store call and its answer are two things here: when the answer to an entry or
to an acknowledgement is lost, what is left to acknowledge is `owed` by a handle that may be used at any
later time, while its worker goes on to other tasks. An entry that failed is first read back (`ReadBack`);
`Retry` settles the execution, loses its answer once more, or is refused because a later execution of the
task, after a hold and a resumption, is on record. The tasks skipped by a failure (`Skipped`) are the
least set that the code's loop, `SkippedNext`, closes. `GroupBarrier.tla` states what a group promises
without rows, leases or retries; `TaskGraph` refines it (`BarrierKept`), with the *real* executions as the
abstract `running`.

| Variable | Code |
|---|---|
| `task`, `ready` | task rows (`started_at` is a number); READY events, counted to two |
| `execution`, `group` | `quiescence.executions`; decision, winners, barrier, losers, finalizer |
| `deadline`, `effect` | the draining deadline has passed; members with an unsettled local execution attempt |
| `proc` | the handler of each worker, and how far its own acknowledgement is |
| `owed` | the `TaskExecutionSettlement`s that are still pending (`committed` is history: the store has settled the execution, nobody was told) |

## 7. The task worker: `TaskWorker.tla`

One worker executes one ordinary claimed task: its own coroutine (`main`), the heartbeat (`hb`, `call`,
`late`), the handler, and the row, on which cancellation, holds and resumptions, outcomes reported by
others, expiry, reclamation and other workers act too. `held` is history: a claim of the worker was put
on hold. The row has a concurrency key or not; only then is a hold of a claim refused.
A lease is a number that each renewal increases; `auth` is the lease the worker presents, `overdue` its
monotonic deadline at two thirds of it. A renewal that misses the deadline is retained and may still
reach the store (`LateRenewal`). The task may be restartable, which shutdown uses (`Restart`). A lost
answer is a renewal that was made and that the worker takes for refused.

## 8. The message queue: `MessageQueue.tla`

Messages may be enqueued while a session is pending or running. The run that owns the session's epoch
delivers `next_turn` messages before its first model step, and, when its turn ends, settles the
interaction; with messages queued the session goes on, and a *drain* delivers both modes under a new
interaction, which takes the active profile over (`Handoff`), until the queue is empty or the step limit
is reached, where a drain only rejects what has expired or become stale.

| Variable | Code |
|---|---|
| `session` | status, `run_epoch`, the interaction of the active profile, whether it is settled though the session goes on |
| `transcript`, `rows`, `lapsed` | the transcript; queued messages with mode, ordering key, target and delivered cursor; those past `expires_at` |
| `receipts` | `session_message_delivery_records`, under the identity a retry presents |
| `runs` | what each run's coroutine knows; coroutine 0 is the recovery |

A step of the model publishes an entry. `tools` stands for everything after which the turn goes on: a tool
round with its results, and an answer together with the message by which the runtime refuses it (a
before-stop policy that continues, a repair of structured output). An `answer` ends the turn, unless a
policy wants a step that the limit does not leave (`AfterStep`) or ends the run (`StepFails`, which is
also the failing provider, and counts as a fault).

Completion and delivery are store transactions that look at the queue themselves. The model is of one
incarnation of one session, without tool approvals, producers, work attempts or workspaces that must be
finalized before completion. A change of status and the release of the epoch that follows it are one
action; checks for an interrupt before a model step are part of it; withdrawal and quarantine are one
action; an idempotent repetition of an enqueue stutters; whether the second call of a delivery fails too
is chosen with the failure of the first; a receipt is kept only while its answer may be asked for.
A delivery's batch is described by what it is (`Batches`: the first messages of one mode, up to the limit,
and of them, in order, those acceptable at the position the ones before leave them) instead of by the
code's loop; this determines one batch, which TLC confirmed for every reachable state of the instance.

## 9. Runs

| Run | Instance | Shows |
|---|---|---|
| `keys` | two tasks of one key, two workers, one continuation generation | `KeyExclusion`, and the refinement `KeysAreLocks` of `KeyLease` |
| `handoffs` | two tasks, one worker, two generations | index, receipts and grants agree with the rows: `HandoffIndexExact`, `ReceiptsStayTrue`, `HandoffsVouched`, `GenerationsGranted` |
| `cancellation` | one restartable task, two workers, two evidences, two lease lengths | `RowsConsistent`, `AbandonedRestartsBounded`, `CancellationWins`, `OwnersAreNotOverrun`, `TerminalIsFinal` |
| `budget_rolling` | one rolling limit of two units, three reservations, four instants, one binding, two attempts | `HardCap` with charges that enter and leave the window; `AllowanceHolds` |
| `budget_outbox` | two limits (all time, calendar), two reservations, two amounts, two dispatches | `OutboxExact`, `ExpiredNeverDispatched`, `FinancialHistory` |
| `settlement` | two sessions that may be recreated once, two rows, one scanner of all sessions and one of a single session, pages of one row, one crash | `AcknowledgedIsPersisted`, `ErasureAfterSettlement`, `ReachableIsPublished` |
| `settlement_blocked` | one scanner, no crash | a violation of `EveryReachableIsPublished`: see the findings |
| `delivery` | two events (one for budget and parent, one that can be retired), two workers, two sinks, two attempts, two faults | `DeliveredEverywhere`, `LeaseFenced`, `HandoffsSettle` |
| `graph_group` | two members, a retry successor, a finalizer, two workers, one fault | `DecisionSound`, `FinalizerAfterLosers`, `BarrierKept`, `BarrierSettles` |
| `graph_chained` | a member and the finalizer behind a task that waits for the other member; two workers, two executions of a task, three faults | `GraphConsistent`, `ReadyOnce`, `AcknowledgementsMatch`, `FinalizerNotStranded` |
| `worker` | one task, restartable or not, keyed or not, five renewals, four faults | `HandlerKeepsItsTask`, `OwnRenewalsNeverFenceTheOutcome`, `SettledOrFenced` |
| `message_queue` | two messages (one of either mode that may expire or be withdrawn, one targeted), two runs of two steps, batches of two, one lost answer, one fault | `ModelSeesTranscript`, `NoneLeftBehind`, `NoOvertaking`, `DeliveredInPlace`, `TurnsUndivided`, `RunsEnd`, `TypeOK` (no run exceeds its steps) |

Bounds. In the task store they are `MaxClock` (the last instant), `LeaseHorizon` (the largest token),
`MaxRestarts` and the sizes of the sets of names. Two or three instants are enough for a lease to be
granted, renewed and to expire while another is granted; two generations let a task be handed off,
continued, handed off again and continued again, and let a generation be reused. In the ledger a rolling
window of two instants within four lets a charge age out while another reservation is made, two amounts
let a charge exceed or fall short of its reservation, and a calendar of two-instant periods lets a
settlement cross into the next period. For settlements, pages of one row and one page a scan put a cursor
between any two rows; two incarnations let an id be used again. For deliveries, two attempts and two
faults let a worker be replaced twice and a row be dead-lettered. In `graph_group` one member can win
while the other, or its retry, still executes under an expired lease; in `graph_chained` two executions of
one task, by two workers or by the same, let a late or repeated acknowledgement meet the wrong one, and
three faults are a lost entry, a lost acknowledgement and another one on its retry. Four faults of the
worker are a missed deadline, a lost answer, a cancellation and a crash in one behaviour. For the queue,
two messages and a limit of two steps reach a refilled queue at the limit; with one fault a run can be
fenced while it is calling, and a second run admitted; without that bound on failing steps the run has 1.3
million states and holds as well. Symmetry (workers, reservations, generations) is used only in runs
without liveness properties.

Types. The type invariant of every component is a theorem and is not repeated in the runs, except the
queue's, which also says that no run exceeds its steps.

Deadlock is not checked: stores are passive, a caller may stop at any time, and tasks, sessions and
handoffs end.

Fairness. The task store and the ledger assume none and promise no progress.
- `SettlementPublication`: reservations keep being made and each starts a scan of all sessions; the event
  loop runs a scan that has begun. Scans of one session are not assumed to start.
- `EventDelivery`: the server keeps a recovery loop that claims what is due, a worker that is alive goes
  on, clocks advance. Crashes are bounded but never assumed to stop at a convenient time.
- `TaskGraph`: each worker loop runs the group maintenance about once a second, so `Reconcile` happens
  after the deadline, and the deadline passes. Workers of losers owe nothing.
- `TaskWorker`: coroutines that can go on do, a store call ends, leases run out, and some worker of the
  deployment reclaims. The handler is not assumed to return.
- `MessageQueue`: coroutines go on, store and provider calls end, and the application runs
  `recover_incomplete_sessions` for sessions whose owner is gone. Nobody is assumed to enqueue, withdraw
  or interrupt.

## 10. Findings

*One settlement can block all later ones* (`settlement_blocked`). `recover_pending_budget_settlements`
promises to publish reachable outbox rows. A reservation whose identity claim never ran does not keep its
session from being deleted. When a session is created again under the id, the old row fails
`_authenticate_settlement_session`; the scan of all sessions passes over rows whose session is missing,
but this exception leaves the loop before the cursor has moved, so every later scan fails at the same
row. `ReachableIsPublished` is what remains true: rows are published unless such a row exists.

Other disagreements between code and documents met while modelling. The models contain them, but no run
states the broken promise: the properties above are stated so that they hold in spite of them. The first
four are short to reproduce with TLC: create, claim, mark started, pause, resume, claim (`TaskStore`, and
with a handler that really runs `TaskWorker`); create, hold; reserve, reconcile, reserve at one instant
(`BudgetLedger`); start, return, acknowledge with a lost answer, hold, resume, start again, retry
(`TaskGraph`).

- *A started task can be given to another worker.* `tasks/abandoned.py` says that cayu never does this.
  `_hold_task` accepts a claimed task whose handler was dispatched (unless it is keyed), clears the owner
  and keeps `started_at`; `resume_task` makes it pending; `claim_task` does not look at `started_at`. The
  first handler may still run. `OwnersAreNotOverrun` and `HandlerKeepsItsTask` name this way explicitly,
  as the only one, and exclude it for keyed tasks.
- *A held task can be stuck in its held state.* `docs/runtime-contracts.md` says that held tasks move
  freely among the held states. The reason of a hold is free text in `status_reason`, whose value
  `cancellation_requested` marks a draining cancellation: a caller that chooses it makes
  `_ensure_can_hold_task` and `cancel_task` refuse the task until it is resumed.
- *A rolling cap misses a charge of the same instant.* The upper bound of a rolling window is the ledger's
  `now`, exclusive, so a charge dated `now` is no longer an active reservation and not yet in the window.
  `HardCap` therefore leaves out of the sum of a rolling limit the charges dated at the instant of another
  reservation (`Unseen`); all-time and calendar limits miss nothing.
- *The retry of an acknowledgement may be refused for ever.* `TaskExecutionSettlementPending` leaves its
  caller with a handle to keep and to retry. When the first call was committed and its answer lost, and
  the task was held, resumed and started again, the group has the later execution on record and refuses
  the retry; the handle stays pending although nothing is owed. As `docs/task-groups.md` promises, no
  later execution is settled by it (`AcknowledgementsMatch`).
- *A settlement event can enter the log of a later incarnation*: the incarnation is authenticated on a
  loaded session, and the append after several awaits looks for the session id only.
- *A recreated session may be undeletable*: identities name only the session id, and a deletion leaves
  them, so the next session under the id inherits reservations whose events its log will never have.
- *A dead-lettered event may have been forwarded to the budget*, although `docs/runtime-contracts.md` reads
  a dead-lettered `model.completed` as not forwarded: forwarding comes first and is kept.
- *Deliveries may exceed three attempts*: only a recorded failure looks at the limit, and the lease of a
  worker that died is granted again.
- *A live worker may leave the fence of its own task unsettled*: when its lease expired and the task was
  fenced just before the handler returned, `finalize_handler_outcome` is refused and the worker ends; the
  fence waits for the application. `SettledOrFenced` accepts it.

## 11. Proofs

### The task store: `TaskStoreProofs.tla`

All theorems hold for arbitrary sets of tasks, workers, sessions and keys and for arbitrary bounds,
from `ConstantsAssumption` (lease lengths are positive, limits are numbers) and `NoneAssumption` (`None`
is no proper value, a uuid is no digest).

The argument has one idea. Every operation except reclamation and the clock publishes one row through
`Store`. `SoundRow(t, n)` says everything that the theorems need of such a publication: `n` is typed and
consistent, the old row was not terminal, a row that holds a live lease either held it before or takes
a free key, fences are honoured, live owners are not overrun, restarts stay in bounds. One lemma per
operation shows that the row it publishes is sound; `NextStep` collects them; each theorem then follows
from `SoundRow` without looking at the operations again.

`RowsConsistent` is not a by-product. Types alone are not inductive: the identity published by a handoff
is a tuple of worker, lease and session, which exist only because a running, owned row has them
(`RowConsistent`). A fence can only be honoured because fence, reason and owner come together. So the
inductive invariant is `RowInv`, the conjunction of `TypeOK`, `RowsConsistent`,
`AbandonedRestartsBounded` and `DispatchesRecorded`: a keyed row with a dispatch on record is neither
pending nor held, and a keyed row that runs is attached, so that it can be neither held nor released while
dispatched. Without the last, `OwnersAreNotOverrun` could not exclude the way through a hold for keys.

| Theorem | Statement |
|---|---|
| `TypeCorrect`, `RowsAreConsistent`, `RestartsAreBounded` | the three parts of `RowInv` are invariants |
| `CancellationAlwaysWins`, `OwnersAreNeverOverrun`, `TerminalRowsAreFinal` | the action properties |
| `KeysAreExclusive` | `KeyExclusion`, from `KeysChange`: a step that makes a task hold its key took a free one and changed no other row |
| `KeysImplementLocks` | the store refines `KeyLease`; with exclusion `KeyHolder` is the one holder, so a step is an acquisition, a lapse of several keys, or a stutter |

### The budget ledger: `BudgetLedgerProofs.tla`

The theorems hold for any finite set of reservations and any limits, windows, amounts, lease length and
clock, from `LedgerConstants` (limits and durations are numbers, reservations are finitely many),
`CalendarAssumption` (later instants are not in earlier periods) and `LedgerNames` (`None` and cleanup's
reason are no caller's value).

`LedgerStep` says what a step may do to one reservation: leave it, fence it, renew it, charge it or free
it (`Kept`), with the outbox following (`Posted`), or create it where it fits (`Admitted`). One lemma per
operation shows that it is a `LedgerStep`; `StepShape` collects them. The invariant `LedgerInv` joins the
cap and the outbox with `RecordsOK` (dates are ordered and not in the future, an absent or active record
has no reason, cleanup's reason comes without a fence) and `BindingsOK`.

The cap needs this strengthening because it speaks of every window, past and future, while `Fits` looks
at one. A charge that a rolling limit misses is missed for ever (`UnseenStays`), so the sum never regains
it. A kept record never holds more of any window than it did (`KeptHeld`): an active reservation
already holds every window in which it can be charged, since it can only be charged after its creation
(`CoversReaches`). A new reservation changes only windows it can reach, and there everything that holds
capacity is active or was counted (`ReapedHeld`, from `CoversInWindow`); `TotalAdd` and `Fits` give the
bound. Sums are cardinalities of sets of units (`TotalMonotone`, `TotalAdd`).

| Theorem | Statement |
|---|---|
| `LedgerTypes`, `LedgerHardCap`, `LedgerOutboxExact`, `LedgerExpiredNeverDispatched`, `LedgerAllowanceHolds` | the invariants the runs check |
| `LedgerFinancialHistory` | the action property |

### Publication: `SettlementPublicationProofs.tla`

For any sessions, rows, owners, scanners, scopes, page sizes and numbers of crashes and incarnations, from
`PublicationConstants`. `IInv` joins `TypeOK` and the two properties with what they need.
`AcknowledgedIsPersisted` is not inductive because the acknowledgement happens a step after the append:
`HeldIsPersisted` says that the row a scanner is about to acknowledge has its event, or lost its owner
meanwhile. That the owner's loss is permanent needs `InstancesExist` (no row is bound to an incarnation
still to come). `PagesSettled`, `EventsSettled` and `IdentitiesReserved` keep new reservations apart from
rows that are already on a page, in a log or claimed. There is one lemma per action; `MovedStep` serves
all steps that only move a scanner.

| Theorem | Statement |
|---|---|
| `PublicationInvariant`, `PublicationTypes` | `IInv`, and `TypeOK` from it |
| `AcknowledgedOnlyWhenPersisted`, `ErasureWaitsForSettlement` | the invariants of the run |

### Delivery: `EventDeliveryProofs.tla`

For any events, workers, sinks, attempts and faults, from `DeliveryConstants`. `IInv` adds `Done(w)`: what
worker `w` has achieved at the place it has reached. Effects are never taken back, so `Done` survives the
steps of everyone else, and whoever closes a row as delivered was at `ack`. `LeasesFenced` follows from
`Matches`: claim and attempt together identify a lease, and a worker that does not match changes no row.

| Theorem | Statement |
|---|---|
| `DeliveryInvariant`, `DeliveryTypes` | `IInv`, and `TypeOK` from it |
| `DeliveredMeansEverywhere`, `LeasesFenced` | the invariant and the action property of the run |

### Handoffs and receipts: `TaskStoreHandoffProofs.tla`

From the same assumptions; `NoneAssumption` also says that `None` is no grant. The index follows from
`Store` alone: whatever row an operation publishes, reuse of an identity is refused and the old entry
goes. For grants and handoffs `SoundRow` says too little, because they relate a row to `claims` and to the
receipts. Every step is one of three: each row keeps its handoff together with its worker or drops it
(`KeepStep`), one row is handed off and a receipt of it is left (`HandoffStep`), or one row is granted to
the worker of a fresh generation (`GrantStep`). Receipts of terminal rows stay true because terminal rows
never change.

| Theorem | Statement |
|---|---|
| `IndexIsExact`, `GrantsAreExact`, `HandoffsAreVouched`, `ReceiptsAreTrue` | the invariants of the run `handoffs` |

### Graphs and groups: `TaskGraphProofs.tla`

For any finite graph, any group of it, any retry lineages and any number of workers, executions and faults,
from `GraphConstants`: successors are not in the graph and descend from a member as `Following` says, a
group can reach its required number, and a finalizer or a retry successor comes only with a quiescence
policy. Prerequisites need not be acyclic for the proofs.

A transaction is a plan (`PlanStep`) and what is made of it: the plan itself (`QuietStep`) or a drain
(`DrainStep`). `Follows` and `Stays` say what these may make of a row nobody asked to change, so each
conjunct of `GraphInv` is carried through a plan and a drain once. An action then shows that what it asks
for is a `Request`, and what becomes of its worker; `OtherWorker` covers everyone else.

None of the checked properties is inductive alone. `GraphInv` adds

- `GroupInv`, `FinalizerInv`: decision, barrier, losers and the status of the finalizer in the group and
  in its row go together; without them a decided group could leave its finalizer waiting;
- `ReadyInv`: an announced task has its prerequisites, so that it cannot be announced again by a release;
- `ExecutionInv`, `WorkersInv`: a marker in a row is on record, and what a worker still runs is on record
  unsettled, which makes its own acknowledgement fit;
- `DebtsInv`, `Apart`: what is owed and was never committed is on record, unsettled unless its row is
  terminal; a committed debt is about the execution on record, which is settled, or about an earlier one;
  no two debts, and no debt and a running handler, are about the same execution, so that a retry never
  settles somebody else's;
- `LineageInv`, `QuietInv`: a retry exists only below a failed member, and nothing of a loser is left
  behind a barrier that is down, so that no later entry or retry reopens it.

| Theorem | Statement |
|---|---|
| `GraphInvariant`, `TypeCorrect` | `GraphInv`, and `TypeOK` from it |
| `GraphStaysConsistent`, `AnnouncedOnce`, `AcknowledgementsAlwaysMatch`, `FinalizerIsReleased` | the invariants of the run `graph_chained` |
| `DecisionsAreSound`, `FinalizerRunsAfterLosers` | the invariants of the run `graph_group` |
| `GroupKeepsItsBarrier` | with `Kind = "quiescence"`, the refinement of `GroupBarrier`; a group without the policy does not promise it, since its losers go on |

### The worker: `TaskWorkerProofs.tla`

For any number of renewals and faults, from `WorkerConstants`. `WorkerInv` joins `TypeOK` with `RunInv`
(where the coroutine can be while its handler runs; the task is then started and the worker's own, or
settled by the handler or by others, or was put on hold; a keyed one was not), `BeatInv` (what the
heartbeat has under way; a renewal that nobody waits for belongs to a heartbeat that never renews again)
and `LeaseInv` (unless an answer was lost, the row's lease is the one the worker presents, or the one the
answer under way will tell it).

| Theorem | Statement |
|---|---|
| `WorkerInvariant`, `TypeCorrect` | `WorkerInv`, and `TypeOK` from it |
| `RunningHandlersKeepTheirTask` | `HandlerKeepsItsTask` |
| `OutcomesAreNotFencedByRenewals` | the action property `OwnRenewalsNeverFenceTheOutcome` |

### The message queue: `MessageQueueProofs.tla`

For any finite set of messages, any batch limit and any number of steps, runs, lost answers and faults,
from `QueueConstants` (messages are finitely many and are not the entries that a run writes itself).

`QueueInv` is the conjunction of the checked properties with

- `KeysInv`: ordering keys were given out by counting, so that a new message comes after all others;
- `OneOwner`, `FreshInv`: one run owns the epoch, and a run still to be admitted has not begun; what the
  owner knows is spoiled by nobody else;
- `CallInv`: the receipt the store has is that of the delivery under way, only an idle drain opens a new
  interaction, and a drain at the limit takes nothing;
- `SeenInv`: the owner knows the transcript up to the delivery whose answer was lost, and the transcript
  does not end in a tool round where queued input may be delivered.

`ModelSeesTranscript` is `SeenInv` at the model's step, and it is inductive only together with the lost
answers. Each step moves one coroutine: `RunsKept` says what that leaves of the others, `RunMoves` and
`RunAppends` treat the steps that deliver nothing, and a delivery is taken apart into its batch
(`BatchFacts`), the rows and the transcript it leaves (`DeliveredRows`, `DeliveredTranscript`) and the
properties of the queue (`DeliveredQueue`).

| Theorem | Statement |
|---|---|
| `QueueInvariant` | `QueueInv` |
| `QueueTypes`, `ModelAlwaysSeesTranscript`, `NoMessageLeftBehind`, `MessagesKeepTheirOrder`, `MessagesAreDeliveredInPlace`, `TurnsAreNotDivided` | the invariants of the run |

### Only model-checked

Every invariant, every action property and both refinements that a run checks are theorems. What remains
to TLC is liveness (`ReachableIsPublished`, `HandoffsSettle`, `BarrierSettles`, `SettledOrFenced`,
`RunsEnd`), because fairness is outside what TLAPS proves here, and the violation of `settlement_blocked`.

## 12. Plan

1. Retry series: attempts under one deadline, cancellation against a deadline; schedules with them.
2. The budget barrier: fence, dispatch receipt, provider call and settlement, with the property that the
   reservation of a call that was made is never released.
3. Session side: creation claims, tool grants, the invocation lifecycle; the workflow journal.
4. Proofs: a specification of the queue without epochs and receipts (messages appended in order, each
   once), which `QueueInv` should suffice to show implemented.

## 13. Not modelled

- Task store: retry series, schedules, work contracts and session closure share the task rows but are
  separate protocols; their guards are absent from the ordinary operations because an ordinary task never
  meets them. The identity of a parked wait and the run epoch of a session are one flag and one session
  id. SQL task stores are assumed to be serializable like the lock they replace.
- Ledger: `claim_reservation_identity` appears in `SettlementPublication`; rows older than limit
  identities, reads, prices and the in-memory and Postgres twins are left out (the in-memory ledger keeps
  what cleanup did when a reservation id conflicts; SQLite rolls it back).
- Publication: the settlement of a model step, and the barrier before the provider call.
- Delivery: the ownership of a closing session's handoffs; the continuation of a parent is done, deferred
  or failed.
- Graphs and groups: session invocations and ownerless executions, verified results, deletion of graphs,
  cancellation of a late entry, and the refusal of an acknowledgement while a result resolver is at work.
  A refused retry is the end of a debt, since it stays refused. `graph_chained` has no retry successors
  and `graph_group` no dependencies among its tasks; the theorems have both. Groups without a quiescence
  policy and graphs without a group are in the module but not instantiated by a run.
- Worker: the paths of retry series, sessions and handoffs, a handler's time limit and the polling loop.
  What another worker does with the task once it has it is not followed. The tasks of `cancellation` have
  no key: what `OwnersAreNotOverrun` says of keyed tasks is proved, and checked on the worker's side.
- Queue: see the abstractions of section 8.
- The remaining parts of the inventory are I/O, formatting or tooling around these protocols.
