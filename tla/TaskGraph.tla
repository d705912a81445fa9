----------------------------- MODULE TaskGraph -----------------------------
(***************************************************************************)
(* Task graphs and task groups.  A graph's tasks wait for their            *)
(* prerequisites; a group decides the outcome of some of them, cancels the *)
(* losers, waits until nothing of theirs executes any more, and releases a *)
(* finalizer.  Every change of a task goes through one store transaction,  *)
(* store_graph_task, which plans the graph's and the group's consequences  *)
(* and publishes all of it or nothing.                                     *)
(*                                                                         *)
(* The tasks are run by workers and have no session.  What a worker really *)
(* does is proc; what the store knows of it is execution.  They differ     *)
(* when a lease expires, a worker dies, or somebody holds or finishes a    *)
(* task that is being executed.  An acknowledgement whose answer was lost  *)
(* is owed: the worker's loop has ended, its caller keeps the handle and   *)
(* repeats the call.  Time is what it decides: a lease has expired, the    *)
(* draining deadline has passed.  started_at is a number.                  *)
(***************************************************************************)
EXTENDS Naturals, FiniteSets

CONSTANTS
    Graph,       \* tasks of the graph
    Prereqs,     \* prerequisite_task_ids of each
    Kind,        \* "none": no group; "outcome": no quiescence policy; or "quiescence"
    Members,     \* member_task_ids
    Required,    \* policy.required_successes
    Finalizer,   \* finalizer_task_id, or None
    Successors,  \* automatic retry successors of members
    Root,        \* the member each successor descends from
    Following,   \* the retry successor of each task, or None
    Workers,
    MaxRuns,     \* bound: executions of one task
    MaxFaults,   \* bound: expiries, crashes, lost answers, holds
    None

Tasks == Graph \cup Successors

ASSUME GraphConstants ==
    /\ Graph \cap Successors = {}
    /\ IsFiniteSet(Graph)
    /\ Prereqs \in [Graph -> SUBSET Graph]
    /\ Kind \in {"none", "outcome", "quiescence"}
    /\ Members \subseteq Graph
    /\ Required \in Nat \ {0}
    /\ Kind # "none" => Required <= Cardinality(Members)
    /\ Finalizer \in Graph \cup {None}
    /\ Finalizer # None => Kind = "quiescence" /\ Finalizer \notin Members
    /\ Successors # {} => Kind = "quiescence"
    /\ Root \in [Successors -> Members]
    /\ Following \in [Tasks -> Successors \cup {None}]
    /\ \A t \in Tasks : Following[t] # None =>
          \/ t \in Members /\ Root[Following[t]] = t
          \/ t \in Successors /\ Root[Following[t]] = Root[t]
    /\ MaxRuns \in Nat \ {0}
    /\ MaxFaults \in Nat
    /\ None \notin Tasks \cup Workers

VARIABLES
    task,       \* the task rows
    ready,      \* READY events of each graph task, counted up to 2
    execution,  \* quiescence.executions: the obligation of each task
    group,      \* decision and barrier
    deadline,   \* the barrier's deadline has passed
    effect,     \* members with an unsettled local execution attempt
    proc,       \* what each worker is doing
    owed,       \* the acknowledgements still pending: TaskExecutionSettlement
    faults

vars == <<task, ready, execution, group, deadline, effect, proc, owed, faults>>

Terminal == {"completed", "failed", "cancelled", "dependency_skipped"}
Failure == Terminal \ {"completed"}
Executing == {"claimed", "completed"}
Waiting == {"waiting_dependencies", "waiting_group", "pending", "held"}
Statuses == Terminal \cup Waiting \cup {"claimed", "absent"}

Rows == [status : Statuses, worker : Workers \cup {None}, run : 0..MaxRuns,
         expired : BOOLEAN, requested : BOOLEAN]
Row(status) ==
    [status |-> status, worker |-> None, run |-> 0, expired |-> FALSE, requested |-> FALSE]

Executions == [worker : Workers \cup {None}, run : 0..MaxRuns, settled : BOOLEAN]
NoExecution == [worker |-> None, run |-> 0, settled |-> TRUE]

Groups == [decision : {"pending", "succeeded", "failed"}, winners : SUBSET Members,
           barrier : {"waiting_decision", "draining", "attention_required", "quiescent"},
           losers : SUBSET Members, unsettled : SUBSET Members,
           finalizer : {"absent", "waiting", "ineligible", "released", "settled"}]

Idle == [at |-> "idle", task |-> None, run |-> 0]
Procs == [at : {"claimed", "running", "lost", "returned", "acknowledged"},
          task : Tasks, run : 0..MaxRuns]

(* entry: the entry failed, and the claim has to be read back first.       *)
(* committed: history, the store has settled the execution already.        *)
Debts == [worker : Workers, task : Tasks, run : 0..MaxRuns,
          entry : BOOLEAN, committed : BOOLEAN]

(* prepare_graph_admission, prepare_group_admission *)
Init ==
    /\ task = [t \in Tasks |->
                 IF t \in Successors THEN Row("absent")
                 ELSE IF t = Finalizer THEN Row("waiting_group")
                 ELSE IF Prereqs[t] # {} THEN Row("waiting_dependencies")
                 ELSE Row("pending")]
    /\ ready = [t \in Graph |-> IF t # Finalizer /\ Prereqs[t] = {} THEN 1 ELSE 0]
    /\ execution = [t \in Tasks |-> NoExecution]
    /\ group = [decision |-> "pending", winners |-> {}, barrier |-> "waiting_decision",
                losers |-> {}, unsettled |-> {},
                finalizer |-> IF Finalizer = None THEN "absent" ELSE "waiting"]
    /\ deadline = FALSE
    /\ effect = {}
    /\ proc = [w \in Workers |-> Idle]
    /\ owed = {}
    /\ faults = 0

-----------------------------------------------------------------------------
(* plan_graph_transition *)

PrereqsCompleted(ts, t) == \A q \in Prereqs[t] : ts[q].status = "completed"

(* Mutant: one pass over the tasks. *)
SkippedDirectly(ts) ==
    {t \in Graph : /\ ts[t].status \notin Terminal
                   /\ \E q \in Prereqs[t] : ts[q].status \in Failure}

(* One pass of the loop over the tasks, after those in S were skipped: a   *)
(* task with a failed or skipped prerequisite is skipped.                  *)
SkippedNext(ts, S) ==
    {t \in Graph : /\ ts[t].status \notin Terminal
                   /\ \E q \in Prereqs[t] : ts[q].status \in Failure \/ q \in S}

(* The passes are repeated until nothing changes: the least set to which a *)
(* pass adds nothing.                                                      *)
Skipped(ts) ==
    LET dependent == {t \in Graph : ts[t].status \notin Terminal /\ Prereqs[t] # {}}
        closed == {S \in SUBSET dependent : SkippedNext(ts, S) \subseteq S}
    IN  {t \in dependent : \A S \in closed : t \in S}

Closed(row, status) ==
    [status |-> status, worker |-> None, run |-> row.run, expired |-> FALSE, requested |-> FALSE]

(* Skips and releases; fin is the finalizer while it waits for the group. *)
Propagate(ts, fin) ==
    LET skipped == Skipped(ts)
        Released(t) == /\ ts[t].status = "waiting_dependencies"
                       /\ PrereqsCompleted(ts, t)
    IN  [t \in Tasks |->
           IF t \in skipped THEN Closed(ts[t], "dependency_skipped")
           ELSE IF t \in Graph /\ Released(t)
           THEN [ts[t] EXCEPT !.status = IF t = fin THEN "waiting_group" ELSE "pending"]
           ELSE ts[t]]

(* "An executing graph member has failed prerequisites." *)
CanPropagate(ts) ==
    \A t \in Skipped(ts) : ts[t].status # "claimed" /\ ts[t].worker = None

(* The change as it is stored: a task that cannot run yet keeps waiting. *)
Normalised(t, p, fin) ==
    IF p.status # "pending" THEN p
    ELSE IF t = fin THEN [p EXCEPT !.status = "waiting_group"]
    ELSE IF ~PrereqsCompleted(task, t) THEN [p EXCEPT !.status = "waiting_dependencies"]
    ELSE p

(* Early refusals of a change of graph task t to p. *)
CanChange(t, p, fin) ==
    /\ t = fin => p.status \notin Executing
    /\ task[t].status \in Terminal => p = task[t]
    /\ p.status \in Executing => PrereqsCompleted(task, t)

(* Mutant: every resumption of a task is announced. *)
ReadiedAgain(ts) ==
    {t \in Graph : /\ ts[t].status = "pending"
                   /\ task[t].status \in {"waiting_dependencies", "waiting_group", "held"}}

(* READY events: dependency release, and the first resumption after it. *)
Readied(ts) ==
    {t \in Graph : /\ ts[t].status = "pending"
                   /\ \/ task[t].status = "waiting_dependencies"
                      \/ task[t].status \in {"held", "waiting_group"} /\ ready[t] = 0}

-----------------------------------------------------------------------------
(* plan_group_transition, plan_group_graph_transition *)

Lineage(ts) == {s \in Successors : ts[s].status # "absent"}

(* The tasks whose executions the group records. *)
Tracked(ts) == IF Kind = "quiescence" THEN Members \cup Lineage(ts) ELSE {}

(* The member a task belongs to, whose series shares the effect ledger. *)
RootOf(t) == IF t \in Successors THEN Root[t] ELSE t
HasEffect(t) == RootOf(t) \in effect

(* A started claim the group has no record of yet. *)
NewExecution(ts, t) ==
    /\ t \in Tracked(ts)
    /\ ts[t].status = "claimed" /\ ts[t].run # 0
    /\ execution[t].worker # ts[t].worker \/ execution[t].run # ts[t].run

CanRecord(ts) == \A t \in Tasks : NewExecution(ts, t) => execution[t].settled

(* The obligations, after w's acknowledgement of run r of t, if any. *)
Recorded(ts, ack) ==
    [t \in Tasks |->
       LET x == IF NewExecution(ts, t)
                THEN [worker |-> ts[t].worker, run |-> ts[t].run, settled |-> FALSE]
                ELSE execution[t]
       IN  IF ack # None /\ ack = t THEN [x EXCEPT !.settled = TRUE] ELSE x]

(* Mutant: a group fails one failure too early. *)
DecidedEarly(ts) ==
    LET successes == {m \in Members : ts[m].status = "completed"}
        failures == {m \in Members : ts[m].status \in Failure}
    IN  IF group.decision # "pending" \/ Kind = "none" THEN <<group.decision, group.winners>>
        ELSE IF Cardinality(successes) >= Required THEN <<"succeeded", successes>>
        ELSE IF Cardinality(Members) - Cardinality(failures) <= Required THEN <<"failed", {}>>
        ELSE <<"pending", {}>>

(* The decision, and the successes it rests on. *)
Decided(ts) ==
    LET successes == {m \in Members : ts[m].status = "completed"}
        failures == {m \in Members : ts[m].status \in Failure}
    IN  IF group.decision # "pending" \/ Kind = "none" THEN <<group.decision, group.winners>>
        ELSE IF Cardinality(successes) >= Required THEN <<"succeeded", successes>>
        ELSE IF Cardinality(Members) - Cardinality(failures) < Required THEN <<"failed", {}>>
        ELSE <<"pending", {}>>

(* Mutant: the retry successors of a loser are left alone. *)
LosingRoots(ts, losers) == losers

(* Losers and their retry descendants. *)
LosingWork(ts, losers) == losers \cup {s \in Lineage(ts) : Root[s] \in losers}

(* Losing work that is cancelled at once: it is not claimed, or the claim  *)
(* has expired and has not begun or has acknowledged its end.              *)
Cancellable(ts, ex, t) ==
    \/ ts[t].status \in Waiting
    \/ /\ ts[t].status = "claimed"
       /\ ts[t].expired
       /\ ts[t].run = 0 \/ ex[t].settled
       /\ ~HasEffect(t)

(* Mutant: a terminal task is taken for one that has stopped. *)
UnsettledTasks(ts, ex, losers) ==
    {m \in losers : \E t \in LosingWork(ts, {m}) : ts[t].status \notin Terminal}

(* Losers of which something may still be executing. *)
Unsettled(ts, ex, losers) ==
    {m \in losers : \E t \in LosingWork(ts, {m}) :
        ts[t].status \notin Terminal \/ ~ex[t].settled \/ HasEffect(t)}

(* Mutant: the barrier only looks at what is unsettled. *)
BarrierUntimed(unsettled) ==
    IF group.barrier \in {"waiting_decision", "draining"}
    THEN IF unsettled = {} THEN "quiescent" ELSE "draining"
    ELSE group.barrier

(* DRAINING begins with the decision; the deadline is looked at first. *)
Barrier(unsettled) ==
    IF group.barrier \in {"waiting_decision", "draining"}
    THEN IF deadline THEN "attention_required"
         ELSE IF unsettled = {} THEN "quiescent" ELSE "draining"
    ELSE group.barrier

(* Losers are cancelled one after the other in the order of their names,   *)
(* each with the skips it causes.  All orders come to this: those in       *)
(* direct are cancelled, and the others are skipped in consequence.        *)
Cancelling(ts, ex, losers, direct) ==
    [t \in Tasks |->
       IF t \notin LosingWork(ts, losers) \/ ts[t].status \in Terminal THEN ts[t]
       ELSE IF Cancellable(ts, ex, t)
       THEN IF t \in direct \/ t \in Successors THEN Closed(ts[t], "cancelled") ELSE ts[t]
       ELSE [ts[t] EXCEPT !.requested = TRUE]]

FinalizerStatus(decision, barrier) ==
    IF group.finalizer # "waiting" THEN group.finalizer
    ELSE IF decision = "failed" THEN "ineligible"
    ELSE IF barrier = "quiescent" THEN "released"
    ELSE "waiting"

(* What becomes of the finalizer's task when its status is new. *)
Finalized(ts, status) ==
    IF status = group.finalizer \/ Finalizer = None THEN ts
    ELSE LET row == ts[Finalizer]
         IN  IF status = "ineligible" /\ row.status \notin Terminal
             THEN Propagate([ts EXCEPT ![Finalizer] = Closed(row, "cancelled")], None)
             ELSE IF status = "released" /\ row.status = "waiting_group"
             THEN [ts EXCEPT ![Finalizer].status =
                     IF PrereqsCompleted(ts, Finalizer) THEN "pending" ELSE "waiting_dependencies"]
             ELSE ts

(* The barrier, once there is a decision and a quiescence policy. *)
Drain(ts, ex, decided, resolve) ==
    LET losers == IF group.barrier # "waiting_decision" THEN group.losers
                  ELSE Members \ decided[2]
        fin == IF group.finalizer = "waiting" THEN Finalizer ELSE None
    IN  \E direct \in SUBSET losers :
        \E t1 \in {Propagate(Cancelling(ts, ex, losers, direct), fin)} :
          LET unsettled == Unsettled(t1, ex, losers)
              barrier == IF resolve THEN "quiescent" ELSE Barrier(unsettled)
              finalizer == FinalizerStatus(decided[1], barrier)
              t2 == Finalized(t1, finalizer)
          IN  /\ direct \subseteq {t \in losers : Cancellable(ts, ex, t)}
              /\ \A t \in losers : Cancellable(ts, ex, t) => t1[t].status \in Terminal
              /\ CanPropagate(Cancelling(ts, ex, losers, direct))
              /\ resolve => Barrier(unsettled) = "attention_required" /\ unsettled = {}
              /\ task' = t2
              /\ ready' = [t \in Graph |->
                             ready[t] + (IF ready[t] < 2 /\ t \in Readied(ts) THEN 1
                                         ELSE IF ready[t] < 2 /\ t = Finalizer
                                                 /\ t1[t].status = "waiting_group"
                                                 /\ t2[t].status = "pending" THEN 1 ELSE 0)]
              /\ group' = [decision |-> decided[1], winners |-> decided[2],
                           barrier |-> barrier, losers |-> losers, unsettled |-> unsettled,
                           finalizer |-> IF /\ finalizer = "released"
                                            /\ t2[Finalizer].status \in Terminal
                                         THEN "settled" ELSE finalizer]

(* Mutant: the finalizer is held back until it is settled. *)
waitingFinalizerUnsettled == IF group.finalizer # "settled" THEN Finalizer ELSE None

waitingFinalizer == IF group.finalizer = "waiting" THEN Finalizer ELSE None

(* require_group_mutation *)
LoserFenced(t, p) ==
    /\ RootOf(t) \in group.losers
    /\ task[t].status \notin Terminal
    /\ \/ p.status = "completed"
       \/ /\ p.status = "claimed"
          /\ \/ task[t].status # "claimed"
             \/ task[t].worker # p.worker
             \/ task[t].run # p.run

Planned(t, p, successor) ==
    LET changed == [task EXCEPT ![t] = IF t \in Graph THEN Normalised(t, p, waitingFinalizer) ELSE p]
        planned == IF t \in Graph THEN Propagate(changed, waitingFinalizer) ELSE changed
    IN  IF successor = None THEN planned
        ELSE [planned EXCEPT ![successor] = Row("pending")]

(* store_graph_task: change t to p, with a retry successor, with the       *)
(* acknowledgement of the execution of task ack, or with the resolution of *)
(* an attention.                                                           *)
Transact(t, p, successor, ack, resolve) ==
    \E ts \in {Planned(t, p, successor)} :
    \E ex \in {Recorded(ts, ack)}, decided \in {Decided(ts)} :
        /\ ~LoserFenced(t, p)
        /\ t \in Graph => /\ CanChange(t, p, waitingFinalizer)
                          /\ CanPropagate([task EXCEPT ![t] = Normalised(t, p, waitingFinalizer)])
        /\ CanRecord(ts)
        /\ execution' = ex
        /\ IF Kind = "quiescence" /\ decided[1] # "pending"
           THEN Drain(ts, ex, decided, resolve)
           ELSE /\ ~resolve
                /\ task' = ts
                /\ ready' = [u \in Graph |->
                               IF ready[u] < 2 /\ u \in Readied(ts) THEN ready[u] + 1 ELSE ready[u]]
                /\ group' = [group EXCEPT !.decision = decided[1], !.winners = decided[2]]

Store(t, p) == Transact(t, p, None, None, FALSE)

-----------------------------------------------------------------------------
(* Workers *)

Goes(w, at) == proc' = [proc EXCEPT ![w] = IF at = "idle" THEN Idle ELSE [@ EXCEPT !.at = at]]

(* The exact lease is still w's, and has not expired. *)
Holds(w, t) == task[t].status = "claimed" /\ task[t].worker = w /\ ~task[t].expired

Fault == faults < MaxFaults /\ faults' = faults + 1

Claim(w, t) ==
    /\ proc[w] = Idle
    /\ task[t].status = "pending"
    /\ ~HasEffect(t)
    /\ Store(t, [task[t] EXCEPT !.status = "claimed", !.worker = w])
    /\ proc' = [proc EXCEPT ![w] = [at |-> "claimed", task |-> t, run |-> 0]]
    /\ UNCHANGED <<deadline, effect, owed, faults>>

(* Mutant: the marker is not advanced past the execution before it. *)
MarkerRepeated(t) == IF task[t].run # 0 THEN task[t].run ELSE 1

(* started_at: kept if the row has one, and past that of the last execution. *)
Marker(t) == IF task[t].run # 0 THEN task[t].run ELSE execution[t].run + 1

(* settle_execution leaves a task alone whose executions nobody records. *)
Owing(w, t, run, entry, committed) ==
    IF t \in Tracked(task)
    THEN {[worker |-> w, task |-> t, run |-> run, entry |-> entry, committed |-> committed]}
    ELSE {}

(* TaskExecutionSettlement.enter: the handler is dispatched, or the answer *)
(* is lost or late, the handler is not dispatched, and that is what will   *)
(* be acknowledged.                                                        *)
MarkStarted(w) ==
    LET t == proc[w].task
    IN  /\ proc[w].at = "claimed"
        /\ Holds(w, t)
        /\ ~task[t].requested
        /\ execution[t].settled
        /\ Marker(t) <= MaxRuns
        /\ Store(t, [task[t] EXCEPT !.run = Marker(t)])
        /\ \/ /\ proc' = [proc EXCEPT ![w] = [at |-> "running", task |-> t, run |-> Marker(t)]]
              /\ UNCHANGED <<owed, faults>>
           \/ /\ \E entry \in BOOLEAN :
                    owed' = owed \cup Owing(w, t, Marker(t), entry, FALSE)
              /\ Goes(w, "idle")
              /\ Fault
        /\ UNCHANGED <<deadline, effect>>

HandlerReturns(w) ==
    /\ proc[w].at = "running"
    /\ Goes(w, "returned")
    /\ UNCHANGED <<task, ready, execution, group, deadline, effect, owed, faults>>

(* settle_execution: "Execution settlement does not match its group owner." *)
OnRecord(t, w, run) == execution[t].worker = w /\ execution[t].run = run

FirstMember == CHOOSE m \in Members : TRUE

Settle(t) == Transact(FirstMember, task[FirstMember], None, t, FALSE)

(* The acknowledgement of w's execution, before its outcome is published.  *)
(* It is committed and answered, or committed and the answer is lost.      *)
Acknowledge(w) ==
    LET t == proc[w].task
    IN  /\ proc[w].at = "returned"
        /\ \/ /\ t \in Tracked(task)
              /\ OnRecord(t, w, proc[w].run)
              /\ Settle(t)
              /\ \/ UNCHANGED <<owed, faults>>
                 \/ owed' = owed \cup Owing(w, t, proc[w].run, FALSE, TRUE) /\ Fault
           \/ /\ t \notin Tracked(task)
              /\ UNCHANGED <<task, ready, execution, group, owed, faults>>
        /\ Goes(w, "acknowledged")
        /\ UNCHANGED <<deadline, effect>>

(* _require_entry: the row must still be the claim the entry was made for, *)
(* or the debt stays.                                                      *)
ReadBack(o) ==
    /\ o.entry
    /\ task[o.task].status = "claimed"
    /\ task[o.task].worker = o.worker /\ task[o.task].run = o.run
    /\ owed' = (owed \ {o}) \cup {[o EXCEPT !.entry = FALSE]}
    /\ UNCHANGED <<task, ready, execution, group, deadline, effect, proc, faults>>

(* An acknowledgement is repeated, or made after the outcome: it settles   *)
(* its execution, and may lose its answer again; or the group has another  *)
(* execution on record, and it is refused however often it is repeated.    *)
Retry(o) ==
    /\ ~o.entry
    /\ \/ /\ OnRecord(o.task, o.worker, o.run)
          /\ Settle(o.task)
          /\ \/ owed' = owed \ {o} /\ UNCHANGED faults
             \/ owed' = (owed \ {o}) \cup {[o EXCEPT !.committed = TRUE]} /\ Fault
       \/ /\ ~OnRecord(o.task, o.worker, o.run)
          /\ owed' = owed \ {o}
          /\ UNCHANGED <<task, ready, execution, group, faults>>
    /\ UNCHANGED <<deadline, effect, proc>>

(* The outcome, published by the owner of a live lease. *)
Outcome(w, t, status, successor) ==
    /\ Holds(w, t)
    /\ (status = "cancelled") = task[t].requested
    /\ successor # None => /\ status = "failed"
                           /\ successor = Following[t]
                           /\ task[successor].status = "absent"
    /\ Transact(t, Closed(task[t], status), successor, None, FALSE)

(* A lost lease leaves the outcome unpublished.  The outcome may be        *)
(* published while the acknowledgement is still pending.                   *)
Publish(w) ==
    LET t == proc[w].task
    IN  /\ \/ proc[w].at = "acknowledged" /\ UNCHANGED <<owed, faults>>
           \/ /\ proc[w].at = "returned"
              /\ owed' = owed \cup Owing(w, t, proc[w].run, FALSE, FALSE)
              /\ Fault
        /\ \/ \E status \in {"completed", "failed", "cancelled"}, s \in Successors \cup {None} :
                  Outcome(w, t, status, s)
           \/ ~Holds(w, t) /\ UNCHANGED <<task, ready, execution, group>>
        /\ Goes(w, "idle")
        /\ UNCHANGED <<deadline, effect>>

(* A claim ends before dispatch: cancelled, released, or lost. *)
LeaveClaim(w) ==
    LET t == proc[w].task
    IN  /\ proc[w].at = "claimed"
        /\ \/ task[t].requested /\ Outcome(w, t, "cancelled", None)
           \/ /\ Holds(w, t) /\ ~task[t].requested /\ task[t].run = 0
              /\ Store(t, [task[t] EXCEPT !.status = "pending", !.worker = None])
           \/ ~Holds(w, t) /\ UNCHANGED <<task, ready, execution, group>>
        /\ Goes(w, "idle")
        /\ UNCHANGED <<deadline, effect, owed, faults>>

(* A handler begins a local execution attempt; evidence settles it. *)
PrepareEffect(w) ==
    LET t == proc[w].task
    IN  /\ proc[w].at = "running"
        /\ Holds(w, t)
        /\ t \in Tracked(task)
        /\ ~HasEffect(t)
        /\ effect' = effect \cup {RootOf(t)}
        /\ UNCHANGED <<task, ready, execution, group, deadline, proc, owed, faults>>

SettleEffect(m) ==
    /\ m \in effect
    /\ effect' = effect \ {m}
    /\ UNCHANGED <<task, ready, execution, group, deadline, proc, owed, faults>>

(* The process of w is lost, with the acknowledgements it still owed; a    *)
(* handler it was running may go on for a while.                           *)
Crash(w) ==
    LET debts == {o \in owed : o.worker = w}
    IN  /\ proc[w].at \in {"claimed", "running", "returned", "acknowledged"} \/ debts # {}
        /\ proc[w].at # "lost"
        /\ Goes(w, IF proc[w].at = "running" THEN "lost" ELSE "idle")
        /\ owed' = owed \ debts
        /\ Fault
        /\ UNCHANGED <<task, ready, execution, group, deadline, effect>>

LostStops(w) ==
    /\ proc[w].at = "lost"
    /\ Goes(w, "idle")
    /\ UNCHANGED <<task, ready, execution, group, deadline, effect, owed, faults>>

-----------------------------------------------------------------------------
(* Time, and the calls of others *)

Expire(t) ==
    /\ task[t].status = "claimed" /\ ~task[t].expired
    /\ task' = [task EXCEPT ![t].expired = TRUE]
    /\ Fault
    /\ UNCHANGED <<ready, execution, group, deadline, effect, proc, owed>>

Reclaim(t) ==
    /\ task[t].status = "claimed" /\ task[t].expired
    /\ ~task[t].requested
    /\ ~HasEffect(t)
    /\ Store(t, IF task[t].run = 0
                THEN [task[t] EXCEPT !.status = "pending", !.worker = None, !.expired = FALSE]
                ELSE [task[t] EXCEPT !.requested = TRUE])
    /\ UNCHANGED <<deadline, effect, proc, owed, faults>>

Hold(t) ==
    /\ task[t].status \in Waiting \cup {"claimed"}
    /\ ~task[t].requested
    /\ Fault
    /\ Store(t, [task[t] EXCEPT !.status = "held", !.worker = None, !.expired = FALSE])
    /\ UNCHANGED <<deadline, effect, proc, owed>>

(* "Task resume requires exact prior settlement." *)
CanResume(t) ==
    /\ execution[t].settled
    /\ execution[t].run # 0 /\ task[t].run # 0 => execution[t].run = task[t].run

Resume(t) ==
    /\ task[t].status = "held"
    /\ CanResume(t)
    /\ Store(t, [task[t] EXCEPT !.status = "pending",
                                !.run = IF execution[t].run = 0 THEN @ ELSE 0])
    /\ UNCHANGED <<deadline, effect, proc, owed, faults>>

(* cancel_task: the owner of a claim is asked to stop. *)
CancelTask(t) ==
    /\ task[t].status \in Waiting \cup {"claimed"}
    /\ ~task[t].requested
    /\ Store(t, IF task[t].status = "claimed" THEN [task[t] EXCEPT !.requested = TRUE]
                ELSE Closed(task[t], "cancelled"))
    /\ UNCHANGED <<deadline, effect, proc, owed, faults>>

(* complete_task and fail_task without a worker. *)
FinishTask(t, status) ==
    /\ task[t].status \in Waiting \cup {"claimed"}
    /\ ~task[t].requested
    /\ t \notin Successors /\ Following[t] = None
    /\ Store(t, Closed(task[t], status))
    /\ UNCHANGED <<deadline, effect, proc, owed, faults>>

(* reconcile_task_cancellation, with true evidence that nothing executes. *)
ReconcileCancellation(t) ==
    /\ task[t].status = "claimed" /\ task[t].requested /\ task[t].expired
    /\ \A w \in Workers : proc[w].task = t => proc[w].at \notin {"running", "lost"}
    /\ Transact(t, Closed(task[t], "cancelled"), None,
                IF t \in Tracked(task) /\ task[t].run # 0 THEN t ELSE None, FALSE)
    /\ UNCHANGED <<deadline, effect, proc, owed, faults>>

(* TaskGroupMaintenance, which lists the groups that are draining. *)
Reconcile ==
    /\ group.barrier = "draining"
    /\ UNCHANGED <<deadline, effect, proc, owed, faults>>
    /\ Store(FirstMember, task[FirstMember])

(* reconcile with a resolution *)
Resolve ==
    /\ group.barrier = "attention_required"
    /\ Transact(FirstMember, task[FirstMember], None, None, TRUE)
    /\ UNCHANGED <<deadline, effect, proc, owed, faults>>

DeadlinePasses ==
    /\ group.barrier = "draining" /\ ~deadline
    /\ deadline' = TRUE
    /\ UNCHANGED <<task, ready, execution, group, effect, proc, owed, faults>>

WorkerStep(w) ==
    \/ \E t \in Tasks : Claim(w, t)
    \/ MarkStarted(w)
    \/ HandlerReturns(w)
    \/ Acknowledge(w)
    \/ Publish(w)
    \/ LeaveClaim(w)
    \/ PrepareEffect(w)
    \/ Crash(w)
    \/ LostStops(w)

TaskCall(t) ==
    \/ Expire(t)
    \/ Reclaim(t)
    \/ Hold(t)
    \/ Resume(t)
    \/ CancelTask(t)
    \/ FinishTask(t, "completed")
    \/ FinishTask(t, "failed")
    \/ ReconcileCancellation(t)

Next ==
    \/ \E w \in Workers : WorkerStep(w)
    \/ \E t \in Tasks : TaskCall(t)
    \/ \E o \in owed : ReadBack(o)
    \/ \E o \in owed : Retry(o)
    \/ \E m \in Members : SettleEffect(m)
    \/ Reconcile
    \/ Resolve
    \/ DeadlinePasses

Spec == Init /\ [][Next]_vars

-----------------------------------------------------------------------------
(* Properties *)

(* Rows, obligations, the group and the workers keep their types: only     *)
(* members win, and only members are waited for.                           *)
TypeOK ==
    /\ task \in [Tasks -> Rows]
    /\ ready \in [Graph -> 0..2]
    /\ execution \in [Tasks -> Executions]
    /\ group \in Groups
    /\ deadline \in BOOLEAN
    /\ effect \in SUBSET Members
    /\ proc \in [Workers -> Procs \cup {Idle}]
    /\ owed \in SUBSET Debts
    /\ faults \in 0..MaxFaults

(* After every transaction the whole graph is settled: what runs or has    *)
(* completed has all its prerequisites completed, nothing that can still   *)
(* run has one that failed, and only unfinished prerequisites are waited   *)
(* for (plan_graph_transition's loop).                                     *)
GraphConsistent ==
    \A t \in Graph :
        /\ task[t].status \in {"claimed", "completed", "pending"} => PrereqsCompleted(task, t)
        /\ task[t].status \notin Terminal => \A q \in Prereqs[t] : task[q].status \notin Failure
        /\ task[t].status = "waiting_dependencies" => ~PrereqsCompleted(task, t)

(* A task is announced READY once in its life, however often it is held,   *)
(* resumed, released and reclaimed, and never runs unannounced.            *)
ReadyOnce ==
    \A t \in Graph :
        /\ ready[t] <= 1
        /\ task[t].status \in {"pending", "claimed"} => ready[t] = 1

(* The decision is the one the members' outcomes force, as soon as they    *)
(* force it, and stays the truth about them: a winner remains completed,   *)
(* and no loser of a failed group completes after all.                     *)
DecisionSound ==
    LET successes == {m \in Members : task[m].status = "completed"}
        failures == {m \in Members : task[m].status \in Failure}
    IN  Kind # "none" =>
        /\ group.decision = "succeeded" => /\ Cardinality(group.winners) = Required
                                           /\ group.winners \subseteq successes
        /\ group.decision = "failed" => Cardinality(Members \ failures) < Required
        /\ group.decision = "pending" => /\ Cardinality(successes) < Required
                                         /\ Cardinality(Members \ failures) >= Required

(* What a worker has to acknowledge is the execution the group has on      *)
(* record, unsettled while its handler runs.  Of the acknowledgements      *)
(* whose answers are missing, one is refused only if it had been committed *)
(* before, and the repetition of a committed one settles nothing: not the  *)
(* execution that was begun meanwhile, by the same worker or by another,   *)
(* after a hold and a resumption (settle_execution, and the marker that    *)
(* strictly advances).                                                     *)
AcknowledgementsMatch ==
    /\ \A w \in Workers :
          LET t == proc[w].task
          IN  proc[w].at \in {"running", "lost", "returned"} /\ t \in Tracked(task) =>
              /\ OnRecord(t, w, proc[w].run)
              /\ proc[w].at # "returned" => ~execution[t].settled
    /\ \A o \in owed :
          IF o.committed THEN OnRecord(o.task, o.worker, o.run) => execution[o.task].settled
          ELSE OnRecord(o.task, o.worker, o.run)

(* Members of which some handler really executes. *)
Running == {m \in Members : \E w \in Workers :
                /\ proc[w].at \in {"running", "lost"}
                /\ proc[w].task # None /\ RootOf(proc[w].task) = m}

(* A group's finalizer is not left waiting for a barrier that is down. *)
FinalizerNotStranded ==
    /\ group.barrier = "quiescent" /\ Finalizer # None => task[Finalizer].status # "waiting_group"
    /\ group.decision = "failed" /\ Finalizer # None => task[Finalizer].status \in Terminal

(* When the finalizer may run, no handler and no local effect of a loser   *)
(* or of a retry of a loser is left (plan_group_graph_transition).         *)
FinalizerAfterLosers ==
    /\ Finalizer # None
    /\ task[Finalizer].status \in {"pending", "claimed", "completed"}
    => (Running \cup effect) \cap group.losers = {}

(* The barrier as the group's users see it. *)
Promise == INSTANCE GroupBarrier
    WITH decision <- group.decision, winners <- group.winners, running <- Running,
         released <- group.decision = "succeeded" /\ group.barrier = "quiescent"

(* The rows, leases, retries and acknowledgements implement the barrier. *)
BarrierKept == Promise!Spec

(* Every worker loop runs the group maintenance about once a second, and   *)
(* time passes.                                                            *)
FairSpec == Spec /\ WF_vars(deadline /\ Reconcile) /\ WF_vars(DeadlinePasses)

(* A decided group does not drain for ever: it becomes quiescent or asks   *)
(* for attention, whatever the workers of its losers do.                   *)
BarrierSettles == group.barrier = "draining" ~> group.barrier \in {"quiescent", "attention_required"}
=============================================================================
