-------------------------- MODULE TaskGraphProofs ---------------------------
(***************************************************************************)
(* Proofs about task graphs and task groups.                               *)
(*                                                                         *)
(* A transaction is taken apart into the plan (PlanStep) and what is made  *)
(* of it: the plan itself (QuietStep) or a drain (DrainStep).  Follows and *)
(* Stays say what either may make of a row it was not asked to change, so  *)
(* that each conjunct of GraphInv is carried through a plan and a drain    *)
(* once, for every request.  An action then only has to show that what it  *)
(* asks for is a Request, and what becomes of its own worker; OtherWorker  *)
(* is about all the others.                                                *)
(*                                                                         *)
(* GraphInv is inductive because the group and the finalizer's row agree   *)
(* (GroupInv, FinalizerInv), a marker in a row is on record                *)
(* (ExecutionInv), what a worker still runs is on record unsettled         *)
(* (WorkersInv), an acknowledgement that is owed is on record too, or was  *)
(* committed and is outdated (DebtsInv, Apart), a retry descends from a    *)
(* failure (LineageInv), and nothing of a loser is left behind a barrier   *)
(* that is down (QuietInv).                                                *)
(***************************************************************************)
EXTENDS TaskGraph, FiniteSetTheorems, TLAPS

(* Tasks of the graph are there from the beginning. *)
Admitted(ts) == ts \in [Tasks -> Rows] /\ \A t \in Graph : ts[t].status # "absent"

(* How decision, barrier, losers and finalizer go together. *)
GroupInv ==
    /\ Kind = "none" => group.decision = "pending"
    /\ Kind # "quiescence" => group.barrier = "waiting_decision"
    /\ Kind = "quiescence" => (group.decision = "pending" <=> group.barrier = "waiting_decision")
    /\ group.barrier = "waiting_decision" => group.losers = {}
    /\ group.barrier # "waiting_decision" => group.losers = Members \ group.winners
    /\ group.decision # "succeeded" => group.winners = {}
    /\ group.finalizer = "absent" <=> Finalizer = None
    /\ group.finalizer = "waiting" => group.decision # "failed" /\ group.barrier # "quiescent"
    /\ group.finalizer = "ineligible" => group.decision = "failed"
    /\ group.finalizer \in {"released", "settled"} =>
         group.decision = "succeeded" /\ group.barrier = "quiescent"

(* The finalizer's row and its status in the group. *)
FinalizerInv ==
    /\ \A t \in Graph : task[t].status = "waiting_group" =>
          t = Finalizer /\ group.finalizer = "waiting"
    /\ group.finalizer = "waiting" =>
          task[Finalizer].status \notin {"pending", "claimed", "completed"}
    /\ Finalizer # None /\ group.decision = "failed" => task[Finalizer].status \in Failure

(* Only a task whose prerequisites are there, and that does not wait for   *)
(* the group, has been announced.                                          *)
ReadyInv ==
    \A t \in Graph :
        /\ ready[t] <= 1
        /\ ready[t] = 1 => PrereqsCompleted(task, t) /\ ~(t = Finalizer /\ group.finalizer = "waiting")
        /\ task[t].status \in {"pending", "claimed"} => ready[t] = 1

(* A tracked row that carries the marker of an execution is claimed or     *)
(* held, and the group has that execution on record.                       *)
ExecutionInv ==
    \A t \in Tracked(task) :
        task[t].run # 0 /\ task[t].status \notin Terminal =>
            /\ task[t].status \in {"claimed", "held"}
            /\ execution[t].run = task[t].run
            /\ task[t].status = "claimed" => execution[t].worker = task[t].worker

(* What a worker is doing, and what is on record of it. *)
CanAcknowledge(w) == OnRecord(proc[w].task, w, proc[w].run)

WorkerInv(w) ==
    LET t == proc[w].task
    IN  proc[w] # Idle =>
        /\ task[t].status # "absent"
        /\ t \in Tracked(task) =>
             /\ proc[w].at = "claimed" /\ task[t].status = "claimed" /\ task[t].worker = w =>
                  task[t].run = 0
             /\ proc[w].at \in {"running", "lost"} => ~execution[t].settled
             /\ proc[w].at \in {"returned"} =>
                  ~execution[t].settled \/ task[t].status \in Terminal
             /\ proc[w].at \in {"running", "lost", "returned"} => CanAcknowledge(w)

WorkersInv == \A w \in Workers : WorkerInv(w)

(* An acknowledgement that is owed, when the execution of task ack is      *)
(* about to be settled (None: nothing is).  No execution before it is on   *)
(* record any more.  A committed one has nothing left to settle; one that  *)
(* was not committed is on record, unsettled unless its task was closed.   *)
Due(o, ack) ==
    LET x == execution[o.task]
    IN  /\ o.task \in Tracked(task)
        /\ o.run <= x.run
        /\ o.committed /\ o.run = x.run => x.settled \/ ack = o.task
        /\ ~o.committed => /\ OnRecord(o.task, o.worker, o.run)
                           /\ ~x.settled \/ task[o.task].status \in Terminal

DebtsInv == \A o \in owed : Due(o, None)

(* No execution is owed twice, or owed while its worker still has it. *)
Apart ==
    /\ \A o \in owed, w \in Workers :
          proc[w].at \in {"running", "lost", "returned"} /\ proc[w].task = o.task =>
             proc[w].run # o.run
    /\ \A o1, o2 \in owed : o1.task = o2.task /\ o1.run = o2.run => o1 = o2

(* A retry successor descends from a member that failed. *)
LineageInv == \A s \in Lineage(task) : task[Root[s]].status \in Failure

(* Once the barrier is down nothing of a loser is left. *)
QuietInv ==
    group.barrier = "quiescent" =>
        \A t \in LosingWork(task, group.losers) :
            task[t].status \in Terminal /\ execution[t].settled /\ ~HasEffect(t)

GraphInv ==
    /\ TypeOK /\ Admitted(task) /\ GraphConsistent /\ GroupInv /\ FinalizerInv /\ ReadyInv
    /\ DecisionSound /\ ExecutionInv /\ WorkersInv /\ DebtsInv /\ Apart /\ LineageInv /\ QuietInv

-----------------------------------------------------------------------------
(* Rows. *)

(* What a transaction may make of a row it was not asked to change: it     *)
(* keeps its marker, is final once terminal, and nothing is completed,     *)
(* held, claimed or made pending out of the blue.                          *)
Idling == {"pending", "waiting_dependencies", "waiting_group"}

Follows(r, n) ==
    /\ n \in Rows
    /\ n.run = r.run
    /\ r.status \in Terminal \cup {"absent"} => n = r
    /\ n.status \in {"completed", "held", "absent"} => r.status = n.status
    /\ n.status = "claimed" => r.status = "claimed" /\ n.worker = r.worker
    /\ n.status \in Idling => r.status \in Idling

LEMMA FollowsItself == ASSUME NEW r \in Rows PROVE Follows(r, r)
  BY DEF Follows

LEMMA FollowsOn ==
    ASSUME NEW r, NEW n, NEW m, Follows(r, n), Follows(n, m)
    PROVE  Follows(r, m)
  BY DEF Follows

LEMMA ClosedRow ==
    ASSUME NEW r \in Rows, NEW status \in Terminal
    PROVE  /\ Closed(r, status) \in Rows
           /\ Closed(r, status).status = status
           /\ Closed(r, status).run = r.run
  BY DEF Closed, Rows, Statuses

LEMMA StatusRow ==
    ASSUME NEW r \in Rows, NEW status \in Statuses
    PROVE  /\ [r EXCEPT !.status = status] \in Rows
           /\ [r EXCEPT !.status = status].status = status
           /\ [r EXCEPT !.status = status].run = r.run
           /\ [r EXCEPT !.status = status].worker = r.worker
  BY DEF Rows

LEMMA RequestedRow ==
    ASSUME NEW r \in Rows
    PROVE  /\ [r EXCEPT !.requested = TRUE] \in Rows
           /\ [r EXCEPT !.requested = TRUE].status = r.status
           /\ [r EXCEPT !.requested = TRUE].run = r.run
           /\ [r EXCEPT !.requested = TRUE].worker = r.worker
  BY DEF Rows

LEMMA FreshRow ==
    ASSUME NEW status \in Statuses
    PROVE  Row(status) \in Rows /\ Row(status).status = status /\ Row(status).run = 0
  BY GraphConstants DEF Row, Rows

LEMMA ClosedFollows ==
    ASSUME NEW r \in Rows, r.status \notin Terminal \cup {"absent"}, NEW status \in Failure
    PROVE  Follows(r, Closed(r, status))
  BY ClosedRow DEF Follows, Failure, Terminal, Idling

LEMMA IdlingFollows ==
    ASSUME NEW r \in Rows, r.status \in Idling, NEW status \in Idling
    PROVE  Follows(r, [r EXCEPT !.status = status])
  <1>1. status \in Statuses
    BY DEF Idling, Statuses, Waiting
  <1> QED
    BY <1>1, StatusRow DEF Follows, Terminal, Idling

LEMMA RequestedFollows ==
    ASSUME NEW r \in Rows, r.status \notin Terminal \cup {"absent"}
    PROVE  Follows(r, [r EXCEPT !.requested = TRUE])
  BY RequestedRow DEF Follows, Terminal

-----------------------------------------------------------------------------
(* plan_graph_transition *)

(* A task with a failed or skipped prerequisite is skipped, and only tasks *)
(* that are not terminal are.                                              *)
LEMMA SkippedClosed ==
    ASSUME NEW ts
    PROVE  /\ \A t \in Skipped(ts) : t \in Graph /\ ts[t].status \notin Terminal
           /\ \A t \in Graph : \A q \in Prereqs[t] :
                 /\ ts[t].status \notin Terminal
                 /\ ts[q].status \in Failure \/ q \in Skipped(ts)
                 => t \in Skipped(ts)
  BY DEF Skipped, SkippedNext

LEMMA NothingSkipped ==
    ASSUME NEW ts,
           \A t \in Graph : ts[t].status \notin Terminal =>
              \A q \in Prereqs[t] : ts[q].status \notin Failure
    PROVE  Skipped(ts) = {}
  <1>1. SkippedNext(ts, {}) = {}
    BY DEF SkippedNext
  <1> QED
    BY <1>1 DEF Skipped

(* A settled graph, as GraphConsistent says of the stored one. *)
Settled(ts) ==
    \A t \in Graph :
        /\ ts[t].status \in {"claimed", "completed", "pending"} => PrereqsCompleted(ts, t)
        /\ ts[t].status \notin Terminal => \A q \in Prereqs[t] : ts[q].status \notin Failure
        /\ ts[t].status = "waiting_dependencies" => ~PrereqsCompleted(ts, t)

LEMMA PropagateRows ==
    ASSUME NEW ts, Admitted(ts), NEW fin
    PROVE  /\ \A t \in Tasks : Follows(ts[t], Propagate(ts, fin)[t])
           /\ Admitted(Propagate(ts, fin))
  <1> DEFINE ps == Propagate(ts, fin)
  <1>1. ASSUME NEW t \in Tasks
        PROVE  Follows(ts[t], ps[t])
    <2>0. ts[t] \in Rows
      BY DEF Admitted
    <2>1. CASE t \in Skipped(ts)
      <3>1. ps[t] = Closed(ts[t], "dependency_skipped")
        BY <2>1 DEF Propagate
      <3>2. ts[t].status \notin Terminal \cup {"absent"}
        BY <2>1, SkippedClosed DEF Admitted
      <3> QED
        BY <2>0, <3>1, <3>2, ClosedFollows DEF Failure, Terminal
    <2>2. CASE t \notin Skipped(ts) /\ t \in Graph /\ ts[t].status = "waiting_dependencies"
               /\ PrereqsCompleted(ts, t)
      <3>1. PICK status \in Idling : ps[t] = [ts[t] EXCEPT !.status = status]
        BY <2>2 DEF Propagate, Idling
      <3> QED
        BY <2>0, <2>2, <3>1, IdlingFollows DEF Idling
    <2>3. CASE t \notin Skipped(ts) /\ ~(t \in Graph /\ ts[t].status = "waiting_dependencies"
               /\ PrereqsCompleted(ts, t))
      <3>1. ps[t] = ts[t]
        BY <2>3 DEF Propagate
      <3> QED
        BY <2>0, <3>1, FollowsItself
    <2> QED
      BY <2>1, <2>2, <2>3
  <1>2. Admitted(ps)
    <2>1. ps = [t \in Tasks |-> ps[t]]
      BY DEF Propagate
    <2>2. \A t \in Tasks : ps[t] \in Rows
      BY <1>1 DEF Follows
    <2>3. \A t \in Graph : ps[t].status # "absent"
      BY <1>1 DEF Follows, Admitted, Tasks
    <2> QED
      BY <2>1, <2>2, <2>3 DEF Admitted
  <1> QED
    BY <1>1, <1>2

(* The loop settles a graph in which only what can run has been started. *)
LEMMA PropagateSettles ==
    ASSUME NEW ts, Admitted(ts), NEW fin,
           \A t \in Graph :
              ts[t].status \in {"claimed", "completed", "pending"} => PrereqsCompleted(ts, t)
    PROVE  Settled(Propagate(ts, fin))
  <1> DEFINE ps == Propagate(ts, fin)
  <1>0. \A t \in Graph : Prereqs[t] \subseteq Graph /\ t \in Tasks
    BY GraphConstants DEF Tasks
  <1>1. \A t \in Graph : ps[t].status = "completed" <=> ts[t].status = "completed"
    BY <1>0, PropagateRows DEF Follows, Terminal
  <1>2. \A t \in Graph : PrereqsCompleted(ps, t) <=> PrereqsCompleted(ts, t)
    BY <1>0, <1>1 DEF PrereqsCompleted
  <1>3. ASSUME NEW t \in Graph
        PROVE  /\ t \in Skipped(ts) => ps[t].status = "dependency_skipped"
               /\ t \notin Skipped(ts) /\ ts[t].status = "waiting_dependencies"
                  /\ PrereqsCompleted(ts, t) => ps[t].status \in {"pending", "waiting_group"}
               /\ t \notin Skipped(ts) /\ ~(ts[t].status = "waiting_dependencies"
                  /\ PrereqsCompleted(ts, t)) => ps[t] = ts[t]
    <2>0. ts[t] \in Rows /\ t \in Tasks
      BY <1>0, <1>3 DEF Admitted
    <2>1. CASE t \in Skipped(ts)
      BY <2>0, <2>1, ClosedRow DEF Propagate, Terminal
    <2>2. CASE t \notin Skipped(ts) /\ ts[t].status = "waiting_dependencies" /\ PrereqsCompleted(ts, t)
      <3>1. PICK status \in {"pending", "waiting_group"} : ps[t] = [ts[t] EXCEPT !.status = status]
        BY <2>0, <2>2, <1>3 DEF Propagate
      <3> QED
        BY <2>0, <2>2, <3>1, StatusRow DEF Statuses, Waiting
    <2>3. CASE t \notin Skipped(ts) /\ ~(ts[t].status = "waiting_dependencies" /\ PrereqsCompleted(ts, t))
      BY <2>0, <2>3 DEF Propagate
    <2> QED
      BY <2>1, <2>2, <2>3
  <1>4. ASSUME NEW t \in Graph, ps[t].status \in {"claimed", "completed", "pending"}
        PROVE  PrereqsCompleted(ps, t)
    BY <1>2, <1>3, <1>4
  <1>5. ASSUME NEW t \in Graph, NEW q \in Prereqs[t], ps[q].status \in Failure
        PROVE  ps[t].status \in Terminal
    <2>1. ts[q].status \in Failure \/ q \in Skipped(ts)
      BY <1>0, <1>3, <1>5 DEF Failure, Terminal
    <2>2. ts[t].status \in Terminal \/ t \in Skipped(ts)
      BY <1>5, <2>1, SkippedClosed
    <2>3. ts[t].status \in Terminal => ps[t] = ts[t]
      BY <1>0, <1>5, PropagateRows DEF Follows
    <2> QED
      BY <1>3, <1>5, <2>2, <2>3 DEF Terminal
  <1>6. ASSUME NEW t \in Graph, ps[t].status = "waiting_dependencies"
        PROVE  ~PrereqsCompleted(ps, t)
    BY <1>2, <1>3, <1>6
  <1> QED
    BY <1>4, <1>5, <1>6 DEF Settled

-----------------------------------------------------------------------------
(* What a transaction is asked to do. *)

(* The change of t to p, with the retry successor of a failure, keeps      *)
(* terminal rows, starts nothing that was not pending, and keeps the       *)
(* marker of a row it holds.                                               *)
Request(t, p, successor) ==
    /\ t \in Tasks /\ task[t].status # "absent"
    /\ p \in Rows /\ p.status # "absent"
    /\ task[t].status \in Terminal => p = task[t]
    /\ p.status = "claimed" => task[t].status \in {"pending", "claimed"}
    /\ t \in Tracked(task) /\ p.run # 0 /\ p.status \notin Terminal =>
         p.status = "claimed" \/ (p.status = "held" /\ p.run = task[t].run)
    /\ p.status \in {"waiting_dependencies", "waiting_group"} => p = task[t]
    /\ successor \in Successors \cup {None}
    /\ successor # None => /\ task[successor].status = "absent" /\ successor # t
                           /\ task[t].status = "claimed" /\ p.status = "failed"
                           /\ successor = Following[t]

(* The row as it is stored, and the rows before their consequences. *)
StoredRow(t, p) == IF t \in Graph THEN Normalised(t, p, waitingFinalizer) ELSE p

Base(t, p, successor, u) ==
    IF u = t THEN StoredRow(t, p)
    ELSE IF successor # None /\ u = successor THEN Row("pending")
    ELSE task[u]

LEMMA StoredRowType ==
    ASSUME Admitted(task), NEW t \in Tasks, NEW p \in Rows, p.status # "absent"
    PROVE  /\ StoredRow(t, p) \in Rows
           /\ StoredRow(t, p).run = p.run /\ StoredRow(t, p).worker = p.worker
           /\ p.status # "pending" => StoredRow(t, p) = p
           /\ p.status = "pending" => StoredRow(t, p).status \in Idling
           /\ StoredRow(t, p).status = "pending" /\ t \in Graph => PrereqsCompleted(task, t)
           /\ StoredRow(t, p).status = "waiting_group" =>
                p.status = "waiting_group" \/ t = waitingFinalizer
           /\ t \in Graph /\ t = waitingFinalizer => StoredRow(t, p).status # "pending"
  <1>1. CASE StoredRow(t, p) = p /\ (p.status = "pending" /\ t \in Graph =>
                                       PrereqsCompleted(task, t) /\ t # waitingFinalizer)
    BY <1>1 DEF Idling
  <1>2. CASE /\ t \in Graph /\ p.status = "pending" /\ t = waitingFinalizer
             /\ StoredRow(t, p) = [p EXCEPT !.status = "waiting_group"]
    BY <1>2, StatusRow DEF Idling, Statuses, Waiting
  <1>3. CASE /\ t \in Graph /\ p.status = "pending" /\ t # waitingFinalizer
             /\ StoredRow(t, p) = [p EXCEPT !.status = "waiting_dependencies"]
    BY <1>3, StatusRow DEF Idling, Statuses, Waiting
  <1> QED
    BY <1>1, <1>2, <1>3 DEF StoredRow, Normalised

LEMMA SuccessorsApart ==
    /\ \A t \in Graph : t \in Tasks /\ t \notin Successors /\ Prereqs[t] \subseteq Graph
    /\ \A s \in Successors : s \in Tasks /\ s \notin Graph /\ Root[s] \in Members
    /\ Members \subseteq Graph /\ None \notin Tasks
  BY GraphConstants DEF Tasks

LEMMA PlannedRows ==
    ASSUME Admitted(task), NEW t, NEW p, NEW successor, Request(t, p, successor)
    PROVE  /\ Admitted(Planned(t, p, successor))
           /\ \A u \in Tasks : Follows(Base(t, p, successor, u), Planned(t, p, successor)[u])
  <1> DEFINE changed == [task EXCEPT ![t] = StoredRow(t, p)]
             planned == IF t \in Graph THEN Propagate(changed, waitingFinalizer) ELSE changed
  <1>1. t \in Tasks /\ p \in Rows /\ p.status # "absent"
    BY DEF Request
  <1>2. StoredRow(t, p) \in Rows /\ StoredRow(t, p).status # "absent"
    BY <1>1, StoredRowType DEF Idling
  <1>3. Admitted(changed) /\ (\A u \in Tasks : changed[u] = IF u = t THEN StoredRow(t, p) ELSE task[u])
    BY <1>1, <1>2 DEF Admitted, Tasks
  <1>4. Admitted(planned) /\ \A u \in Tasks : Follows(changed[u], planned[u])
    <2>1. CASE t \in Graph
      BY <1>3, <2>1, PropagateRows
    <2>2. CASE t \notin Graph
      BY <1>3, <2>2, FollowsItself DEF Admitted
    <2> QED
      BY <2>1, <2>2
  <1>5. Planned(t, p, successor) =
          IF successor = None THEN planned ELSE [planned EXCEPT ![successor] = Row("pending")]
    BY DEF Planned, StoredRow
  <1>6. CASE successor = None
    BY <1>3, <1>4, <1>5, <1>6 DEF Base
  <1>7. CASE successor # None
    <2>1. successor \in Successors /\ successor # t
      BY <1>7 DEF Request
    <2>2. Row("pending") \in Rows /\ Row("pending").status = "pending"
      BY FreshRow DEF Statuses, Waiting
    <2> HIDE DEF planned, changed
    <2>3. \A u \in Tasks : Planned(t, p, successor)[u] =
             IF u = successor THEN Row("pending") ELSE planned[u]
      BY <1>4, <1>5, <1>7, <2>1 DEF Admitted
    <2>4. Admitted(Planned(t, p, successor))
      BY <1>4, <1>5, <1>7, <2>1, <2>2, SuccessorsApart DEF Admitted
    <2>5. \A u \in Tasks : Follows(Base(t, p, successor, u), Planned(t, p, successor)[u])
      BY <1>3, <1>4, <1>7, <2>1, <2>2, <2>3, FollowsItself DEF Base
    <2> QED
      BY <2>4, <2>5
  <1> QED
    BY <1>6, <1>7

(* The plan of an accepted change is a settled graph. *)
LEMMA PlannedSettled ==
    ASSUME Admitted(task), Settled(task), NEW t, NEW p, NEW successor, Request(t, p, successor),
           t \in Graph => CanChange(t, p, waitingFinalizer)
    PROVE  Settled(Planned(t, p, successor))
  <1> DEFINE changed == [task EXCEPT ![t] = StoredRow(t, p)]
             planned == IF t \in Graph THEN Propagate(changed, waitingFinalizer) ELSE changed
             ts == Planned(t, p, successor)
  <1>1. t \in Tasks /\ p \in Rows /\ p.status # "absent"
    BY DEF Request
  <1>2. StoredRow(t, p) \in Rows /\ StoredRow(t, p).status # "absent"
    BY <1>1, StoredRowType DEF Idling
  <1>3. Admitted(changed) /\ (\A u \in Tasks : changed[u] = IF u = t THEN StoredRow(t, p) ELSE task[u])
    BY <1>1, <1>2 DEF Admitted, Tasks
  <1>4. Settled(planned)
    <2>1. CASE t \in Graph
      <3>1. \A u \in Graph : task[u].status = "completed" => changed[u].status = "completed"
        BY <1>1, <1>3, <2>1, StoredRowType, SuccessorsApart DEF CanChange, Terminal
      <3>2. \A u \in Graph : PrereqsCompleted(task, u) => PrereqsCompleted(changed, u)
        BY <3>1, SuccessorsApart DEF PrereqsCompleted
      <3>3. changed[t].status \in {"claimed", "completed", "pending"} => PrereqsCompleted(task, t)
        BY <1>1, <1>3, <2>1, StoredRowType DEF CanChange, Executing, Idling
      <3>4. \A u \in Graph : changed[u].status \in {"claimed", "completed", "pending"} =>
               PrereqsCompleted(changed, u)
        BY <1>3, <3>2, <3>3, SuccessorsApart DEF Settled
      <3> QED
        BY <1>3, <2>1, <3>4, PropagateSettles
    <2>2. CASE t \notin Graph
      <3>1. \A u \in Graph : planned[u] = task[u]
        BY <1>3, <2>2, SuccessorsApart
      <3>2. \A u \in Graph : PrereqsCompleted(planned, u) <=> PrereqsCompleted(task, u)
        BY <3>1, SuccessorsApart DEF PrereqsCompleted
      <3> QED
        BY <3>1, <3>2, SuccessorsApart DEF Settled
    <2> QED
      BY <2>1, <2>2
  <1>5. ts = IF successor = None THEN planned ELSE [planned EXCEPT ![successor] = Row("pending")]
    BY DEF Planned, StoredRow
  <1>6. CASE successor = None
    BY <1>4, <1>5, <1>6
  <1>7. CASE successor # None
    <2> HIDE DEF planned, changed
    <2>1. successor \in Successors
      BY <1>7 DEF Request
    <2>2. \A u \in Graph : ts[u] = planned[u]
      <3>1. \A u \in Graph : u # successor
        BY <2>1, SuccessorsApart
      <3> QED
        BY <1>5, <1>7, <3>1
    <2>3. \A u \in Graph : PrereqsCompleted(ts, u) <=> PrereqsCompleted(planned, u)
      BY <2>2, SuccessorsApart DEF PrereqsCompleted
    <2> HIDE DEF ts
    <2>4. Settled(ts)
      BY <1>4, <2>2, <2>3, SuccessorsApart DEF Settled
    <2> QED
      BY <2>4 DEF ts
  <1> QED
    BY <1>6, <1>7

-----------------------------------------------------------------------------
(* plan_group_graph_transition *)

(* A drain starts nothing: a row keeps its status or fails. *)
Stays(r, n) == n.status = r.status \/ n.status \in Failure

LEMMA CancellingRows ==
    ASSUME NEW ts, Admitted(ts), NEW ex, NEW losers \in SUBSET Members, NEW direct
    PROVE  /\ Admitted(Cancelling(ts, ex, losers, direct))
           /\ \A u \in Tasks : /\ Follows(ts[u], Cancelling(ts, ex, losers, direct)[u])
                               /\ Stays(ts[u], Cancelling(ts, ex, losers, direct)[u])
  <1> DEFINE cs == Cancelling(ts, ex, losers, direct)
  <1>1. ASSUME NEW u \in Tasks
        PROVE  Follows(ts[u], cs[u]) /\ Stays(ts[u], cs[u])
    <2>0. ts[u] \in Rows
      BY DEF Admitted
    <2>1. u \in LosingWork(ts, losers) => ts[u].status # "absent"
      BY SuccessorsApart DEF LosingWork, Lineage, Admitted
    <2>2. \/ cs[u] = ts[u]
          \/ /\ u \in LosingWork(ts, losers) /\ ts[u].status \notin Terminal
             /\ cs[u] = Closed(ts[u], "cancelled") \/ cs[u] = [ts[u] EXCEPT !.requested = TRUE]
      BY DEF Cancelling
    <2>3. CASE cs[u] = ts[u]
      BY <2>0, <2>3, FollowsItself DEF Stays
    <2>4. CASE u \in LosingWork(ts, losers) /\ ts[u].status \notin Terminal
               /\ cs[u] = Closed(ts[u], "cancelled")
      BY <2>0, <2>1, <2>4, ClosedRow, ClosedFollows DEF Stays, Failure, Terminal
    <2>5. CASE u \in LosingWork(ts, losers) /\ ts[u].status \notin Terminal
               /\ cs[u] = [ts[u] EXCEPT !.requested = TRUE]
      BY <2>0, <2>1, <2>5, RequestedRow, RequestedFollows DEF Stays
    <2> QED
      BY <2>2, <2>3, <2>4, <2>5
  <1>2. cs = [u \in Tasks |-> cs[u]]
    BY DEF Cancelling
  <1>3. Admitted(cs)
    <2>1. \A u \in Tasks : cs[u] \in Rows
      BY <1>1 DEF Follows
    <2>2. \A u \in Graph : cs[u].status # "absent"
      BY <1>1, SuccessorsApart DEF Follows, Admitted
    <2> QED
      BY <1>2, <2>1, <2>2 DEF Admitted
  <1> QED
    BY <1>1, <1>3

(* Where nothing waits in vain, the loop only skips. *)
LEMMA PropagateStays ==
    ASSUME NEW ts, Admitted(ts), NEW fin,
           \A t \in Graph : ts[t].status = "waiting_dependencies" => ~PrereqsCompleted(ts, t)
    PROVE  \A u \in Tasks : Stays(ts[u], Propagate(ts, fin)[u])
  <1> SUFFICES ASSUME NEW u \in Tasks
               PROVE  Stays(ts[u], Propagate(ts, fin)[u])
    OBVIOUS
  <1>1. ts[u] \in Rows
    BY DEF Admitted
  <1>2. CASE u \in Skipped(ts)
    BY <1>1, <1>2, ClosedRow DEF Propagate, Stays, Failure, Terminal
  <1>3. CASE u \notin Skipped(ts)
    BY <1>3 DEF Propagate, Stays
  <1> QED
    BY <1>2, <1>3

(* What starts and what waits is the same where rows only stay or fail and *)
(* nothing is uncompleted.                                                 *)
LEMMA PrereqsStay ==
    ASSUME NEW ts, NEW ns, \A u \in Graph : Follows(ts[u], ns[u]), NEW t \in Graph
    PROVE  PrereqsCompleted(ns, t) <=> PrereqsCompleted(ts, t)
  <1>1. \A u \in Graph : ns[u].status = "completed" <=> ts[u].status = "completed"
    BY DEF Follows, Terminal
  <1> QED
    BY <1>1, SuccessorsApart DEF PrereqsCompleted

LEMMA DrainedRows ==
    ASSUME NEW ts, Admitted(ts), Settled(ts), NEW ex, NEW losers \in SUBSET Members, NEW direct,
           NEW fin, NEW t1, t1 = Propagate(Cancelling(ts, ex, losers, direct), fin)
    PROVE  /\ Admitted(t1) /\ Settled(t1)
           /\ \A u \in Tasks : Follows(ts[u], t1[u]) /\ Stays(ts[u], t1[u])
  <1> DEFINE cs == Cancelling(ts, ex, losers, direct)
  <1>1. Admitted(cs) /\ \A u \in Tasks : Follows(ts[u], cs[u]) /\ Stays(ts[u], cs[u])
    BY CancellingRows
  <1> HIDE DEF cs
  <1>2. \A t \in Graph : PrereqsCompleted(cs, t) <=> PrereqsCompleted(ts, t)
    BY <1>1, PrereqsStay, SuccessorsApart
  <1>3. \A t \in Graph : /\ cs[t].status \in {"claimed", "completed", "pending"} => PrereqsCompleted(cs, t)
                         /\ cs[t].status = "waiting_dependencies" => ~PrereqsCompleted(cs, t)
    BY <1>1, <1>2, SuccessorsApart DEF Settled, Stays, Failure, Terminal
  <1>4. t1 = Propagate(cs, fin)
    BY DEF cs
  <1>5. Admitted(t1) /\ Settled(t1)
    BY <1>1, <1>3, <1>4, PropagateRows, PropagateSettles
  <1>6. ASSUME NEW u \in Tasks
        PROVE  Follows(ts[u], t1[u]) /\ Stays(ts[u], t1[u])
    <2>1. Follows(cs[u], t1[u]) /\ Stays(cs[u], t1[u])
      BY <1>1, <1>3, <1>4, PropagateRows, PropagateStays
    <2>2. Follows(ts[u], cs[u]) /\ Stays(ts[u], cs[u])
      BY <1>1
    <2> QED
      BY <2>1, <2>2, FollowsOn DEF Stays
  <1> QED
    BY <1>5, <1>6

LEMMA FinalizedRows ==
    ASSUME NEW t1, Admitted(t1), Settled(t1), NEW status, Finalizer # None,
           status # group.finalizer, NEW t2, t2 = Finalized(t1, status)
    PROVE  /\ Admitted(t2) /\ Settled(t2)
           /\ \A u \in Tasks : Follows(t1[u], t2[u])
           /\ \A u \in Tasks \ {Finalizer} : Stays(t1[u], t2[u])
           /\ status = "ineligible" => IF t1[Finalizer].status \in Terminal
                                       THEN t2[Finalizer] = t1[Finalizer]
                                       ELSE t2[Finalizer].status \in Failure
           /\ status = "released" => IF t1[Finalizer].status = "waiting_group"
                                     THEN t2[Finalizer].status \in {"pending", "waiting_dependencies"}
                                     ELSE t2[Finalizer] = t1[Finalizer]
           /\ status \notin {"ineligible", "released"} => t2 = t1
  <1>0. Finalizer \in Graph /\ Finalizer \in Tasks /\ t1[Finalizer] \in Rows
        /\ t1[Finalizer].status # "absent"
    BY GraphConstants, SuccessorsApart DEF Admitted
  <1>1. CASE status = "ineligible" /\ t1[Finalizer].status \notin Terminal
    <2> DEFINE n == Closed(t1[Finalizer], "cancelled")
               cs == [t1 EXCEPT ![Finalizer] = n]
    <2>1. t2 = Propagate(cs, None)
      BY <1>1 DEF Finalized
    <2>2. n \in Rows /\ n.status = "cancelled" /\ Follows(t1[Finalizer], n)
      BY <1>0, <1>1, ClosedRow, ClosedFollows DEF Failure, Terminal
    <2> HIDE DEF n
    <2>3. \A u \in Tasks : cs[u] = IF u = Finalizer THEN n ELSE t1[u]
      BY DEF Admitted
    <2>4. Admitted(cs) /\ \A u \in Tasks : Follows(t1[u], cs[u]) /\ Stays(t1[u], cs[u])
      BY <1>0, <2>2, <2>3, FollowsItself, SuccessorsApart DEF Admitted, Stays, Failure, Terminal
    <2> HIDE DEF cs
    <2>5. \A t \in Graph : PrereqsCompleted(cs, t) <=> PrereqsCompleted(t1, t)
      BY <2>4, PrereqsStay, SuccessorsApart
    <2>6. \A t \in Graph :
             /\ cs[t].status \in {"claimed", "completed", "pending"} => PrereqsCompleted(cs, t)
             /\ cs[t].status = "waiting_dependencies" => ~PrereqsCompleted(cs, t)
      BY <2>4, <2>5, SuccessorsApart DEF Settled, Stays, Failure, Terminal
    <2>7. Admitted(t2) /\ Settled(t2)
      BY <2>1, <2>4, <2>6, PropagateRows, PropagateSettles
    <2>8. \A u \in Tasks : Follows(cs[u], t2[u]) /\ Stays(cs[u], t2[u])
      BY <2>1, <2>4, <2>6, PropagateRows, PropagateStays
    <2>9. \A u \in Tasks : Follows(t1[u], t2[u]) /\ Stays(t1[u], t2[u])
      BY <2>4, <2>8, FollowsOn DEF Stays
    <2>10. t2[Finalizer].status \in Failure
      BY <1>0, <2>2, <2>3, <2>8 DEF Stays, Failure, Terminal
    <2> QED
      BY <1>1, <2>7, <2>9, <2>10
  <1>2. CASE status = "released" /\ t1[Finalizer].status = "waiting_group"
    <2>1. PICK x \in {"pending", "waiting_dependencies"} :
             /\ x = "pending" <=> PrereqsCompleted(t1, Finalizer)
             /\ t2 = [t1 EXCEPT ![Finalizer].status = x]
      <3>1. CASE PrereqsCompleted(t1, Finalizer)
        <4>1. t2 = [t1 EXCEPT ![Finalizer].status = "pending"]
          BY <1>2, <3>1 DEF Finalized
        <4> QED
          BY <3>1, <4>1
      <3>2. CASE ~PrereqsCompleted(t1, Finalizer)
        <4>1. t2 = [t1 EXCEPT ![Finalizer].status = "waiting_dependencies"]
          BY <1>2, <3>2 DEF Finalized
        <4> QED
          BY <3>2, <4>1
      <3> QED
        BY <3>1, <3>2
    <2> DEFINE n == [t1[Finalizer] EXCEPT !.status = x]
    <2>2. n \in Rows /\ n.status = x /\ Follows(t1[Finalizer], n)
      BY <1>0, <1>2, <2>1, StatusRow, IdlingFollows DEF Idling, Statuses, Waiting
    <2>3. \A u \in Tasks : t2[u] = IF u = Finalizer THEN n ELSE t1[u]
      BY <2>1 DEF Admitted
    <2>4. t2 = [t1 EXCEPT ![Finalizer] = n]
      BY <2>1
    <2> HIDE DEF n
    <2>5. Admitted(t2) /\ \A u \in Tasks : Follows(t1[u], t2[u])
      BY <1>0, <2>1, <2>2, <2>3, <2>4, FollowsItself, SuccessorsApart DEF Admitted
    <2>6. \A t \in Graph : PrereqsCompleted(t2, t) <=> PrereqsCompleted(t1, t)
      BY <2>5, PrereqsStay, SuccessorsApart
    <2>7. \A u \in Graph : t2[u].status \in Failure <=> t1[u].status \in Failure
      BY <1>2, <2>1, <2>2, <2>3, SuccessorsApart DEF Failure, Terminal
    <2>8. \A u \in Graph : t2[u].status \in Terminal <=> t1[u].status \in Terminal
      BY <1>2, <2>1, <2>2, <2>3, SuccessorsApart DEF Terminal
    <2>9. Settled(t2)
      BY <2>1, <2>2, <2>3, <2>6, <2>7, <2>8, SuccessorsApart DEF Settled
    <2> QED
      BY <1>0, <1>2, <2>1, <2>2, <2>3, <2>5, <2>9 DEF Stays
  <1>3. CASE ~(status = "ineligible" /\ t1[Finalizer].status \notin Terminal)
             /\ ~(status = "released" /\ t1[Finalizer].status = "waiting_group")
    <2>1. t2 = t1
      BY <1>3 DEF Finalized
    <2>2. \A u \in Tasks : Follows(t1[u], t1[u]) /\ Stays(t1[u], t1[u])
      BY FollowsItself DEF Admitted, Stays
    <2> QED
      BY <1>3, <2>1, <2>2
  <1> QED
    BY <1>1, <1>2, <1>3

(* The parts of a drain: its losers, the rows before and after the         *)
(* finalizer is looked at, and the new barrier.                            *)
LosersOf(decided) ==
    IF group.barrier # "waiting_decision" THEN group.losers ELSE Members \ decided[2]

DrainStep(ts, ex, decided, resolve, direct, t1, unsettled, barrier, finalizer) ==
    /\ t1 = Propagate(Cancelling(ts, ex, LosersOf(decided), direct), waitingFinalizer)
    /\ unsettled = Unsettled(t1, ex, LosersOf(decided))
    /\ barrier = IF resolve THEN "quiescent" ELSE Barrier(unsettled)
    /\ finalizer = FinalizerStatus(decided[1], barrier)
    /\ resolve => Barrier(unsettled) = "attention_required" /\ unsettled = {}
    /\ task' = Finalized(t1, finalizer)
    /\ ready' = [t \in Graph |->
                   ready[t] + (IF ready[t] < 2 /\ t \in Readied(ts) THEN 1
                               ELSE IF ready[t] < 2 /\ t = Finalizer
                                       /\ t1[t].status = "waiting_group"
                                       /\ task'[t].status = "pending" THEN 1 ELSE 0)]
    /\ group' = [decision |-> decided[1], winners |-> decided[2],
                 barrier |-> barrier, losers |-> LosersOf(decided), unsettled |-> unsettled,
                 finalizer |-> IF /\ finalizer = "released"
                                  /\ task'[Finalizer].status \in Terminal
                               THEN "settled" ELSE finalizer]

LEMMA DrainParts ==
    ASSUME NEW ts, NEW ex, NEW decided, NEW resolve, Drain(ts, ex, decided, resolve)
    PROVE  \E direct, t1, unsettled, barrier, finalizer :
              DrainStep(ts, ex, decided, resolve, direct, t1, unsettled, barrier, finalizer)
  <1>1. PICK direct \in SUBSET LosersOf(decided) :
        \E t1 \in {Propagate(Cancelling(ts, ex, LosersOf(decided), direct), waitingFinalizer)} :
          LET unsettled == Unsettled(t1, ex, LosersOf(decided))
              barrier == IF resolve THEN "quiescent" ELSE Barrier(unsettled)
              finalizer == FinalizerStatus(decided[1], barrier)
              t2 == Finalized(t1, finalizer)
          IN  /\ resolve => Barrier(unsettled) = "attention_required" /\ unsettled = {}
              /\ task' = t2
              /\ ready' = [t \in Graph |->
                             ready[t] + (IF ready[t] < 2 /\ t \in Readied(ts) THEN 1
                                         ELSE IF ready[t] < 2 /\ t = Finalizer
                                                 /\ t1[t].status = "waiting_group"
                                                 /\ t2[t].status = "pending" THEN 1 ELSE 0)]
              /\ group' = [decision |-> decided[1], winners |-> decided[2],
                           barrier |-> barrier, losers |-> LosersOf(decided),
                           unsettled |-> unsettled,
                           finalizer |-> IF /\ finalizer = "released"
                                            /\ t2[Finalizer].status \in Terminal
                                         THEN "settled" ELSE finalizer]
    BY Zenon DEF Drain, LosersOf, waitingFinalizer
  <1> DEFINE t1 == Propagate(Cancelling(ts, ex, LosersOf(decided), direct), waitingFinalizer)
             unsettled == Unsettled(t1, ex, LosersOf(decided))
             barrier == IF resolve THEN "quiescent" ELSE Barrier(unsettled)
             finalizer == FinalizerStatus(decided[1], barrier)
  <1>2. DrainStep(ts, ex, decided, resolve, direct, t1, unsettled, barrier, finalizer)
    BY <1>1, Zenon DEF DrainStep
  <1> QED
    BY <1>2, Zenon

(* Every transaction: a plan, its record and its decision, and then either *)
(* the plan itself or what a drain makes of it.                            *)
PlanStep(t, p, successor, ack, resolve, ts, decided) ==
    /\ ts = Planned(t, p, successor)
    /\ decided = Decided(ts)
    /\ ~LoserFenced(t, p)
    /\ t \in Graph => /\ CanChange(t, p, waitingFinalizer)
                      /\ CanPropagate([task EXCEPT ![t] = Normalised(t, p, waitingFinalizer)])
    /\ CanRecord(ts)
    /\ execution' = Recorded(ts, ack)

QuietStep(ts, decided, resolve) ==
    /\ ~(Kind = "quiescence" /\ decided[1] # "pending")
    /\ ~resolve
    /\ task' = ts
    /\ ready' = [u \in Graph |->
                   IF ready[u] < 2 /\ u \in Readied(ts) THEN ready[u] + 1 ELSE ready[u]]
    /\ group' = [group EXCEPT !.decision = decided[1], !.winners = decided[2]]

LEMMA TransactParts ==
    ASSUME NEW t, NEW p, NEW successor, NEW ack, NEW resolve, Transact(t, p, successor, ack, resolve)
    PROVE  \E ts, decided :
              /\ PlanStep(t, p, successor, ack, resolve, ts, decided)
              /\ \/ QuietStep(ts, decided, resolve)
                 \/ /\ Kind = "quiescence" /\ decided[1] # "pending"
                    /\ \E direct, t1, unsettled, barrier, finalizer :
                          DrainStep(ts, execution', decided, resolve, direct, t1, unsettled,
                                    barrier, finalizer)
  <1> DEFINE ts == Planned(t, p, successor)
             decided == Decided(ts)
  <1>1. PlanStep(t, p, successor, ack, resolve, ts, decided)
    BY Zenon DEF Transact, PlanStep
  <1>2. CASE Kind = "quiescence" /\ decided[1] # "pending"
    <2>1. Drain(ts, execution', decided, resolve)
      BY <1>2 DEF Transact
    <2>2. \E direct, t1, unsettled, barrier, finalizer :
             DrainStep(ts, execution', decided, resolve, direct, t1, unsettled, barrier, finalizer)
      BY <2>1, DrainParts
    <2> QED
      BY <1>1, <1>2, <2>2, Zenon
  <1>3. CASE ~(Kind = "quiescence" /\ decided[1] # "pending")
    <2>1. QuietStep(ts, decided, resolve)
      BY <1>3 DEF Transact, QuietStep
    <2> QED
      BY <1>1, <2>1, Zenon
  <1> QED
    BY <1>2, <1>3

LEMMA LosersAreMembers ==
    ASSUME TypeOK, NEW decided
    PROVE  LosersOf(decided) \in SUBSET Members
  BY DEF TypeOK, Groups, LosersOf

LEMMA DecidedType ==
    ASSUME TypeOK, NEW ts
    PROVE  /\ Decided(ts) = <<Decided(ts)[1], Decided(ts)[2]>>
           /\ Decided(ts)[1] \in {"pending", "succeeded", "failed"}
           /\ Decided(ts)[2] \in SUBSET Members
  BY DEF TypeOK, Groups, Decided

(* What a drain makes of the plan. *)
LEMMA DrainRows ==
    ASSUME TypeOK, NEW ts, Admitted(ts), Settled(ts), NEW ex, NEW decided, NEW resolve,
           NEW direct, NEW t1, NEW unsettled, NEW barrier, NEW finalizer,
           DrainStep(ts, ex, decided, resolve, direct, t1, unsettled, barrier, finalizer)
    PROVE  /\ Admitted(t1) /\ Settled(t1)
           /\ Admitted(task') /\ Settled(task')
           /\ \A u \in Tasks : /\ Follows(ts[u], t1[u]) /\ Follows(t1[u], task'[u])
                               /\ Follows(ts[u], task'[u])
           /\ \A u \in Tasks : Stays(ts[u], t1[u])
           /\ \A u \in Tasks \ {Finalizer} : Stays(ts[u], task'[u])
  <1>1. t1 = Propagate(Cancelling(ts, ex, LosersOf(decided), direct), waitingFinalizer)
        /\ task' = Finalized(t1, finalizer)
    BY DEF DrainStep
  <1>2. /\ Admitted(t1) /\ Settled(t1)
        /\ \A u \in Tasks : Follows(ts[u], t1[u]) /\ Stays(ts[u], t1[u])
    BY <1>1, DrainedRows, LosersAreMembers
  <1>3. /\ Admitted(task') /\ Settled(task')
        /\ \A u \in Tasks : Follows(t1[u], task'[u])
        /\ \A u \in Tasks \ {Finalizer} : Stays(t1[u], task'[u])
    <2>1. CASE Finalizer = None \/ finalizer = group.finalizer
      <3>1. task' = t1
        BY <1>1, <2>1 DEF Finalized
      <3> QED
        BY <1>2, <3>1, FollowsItself DEF Admitted, Stays
    <2>2. CASE Finalizer # None /\ finalizer # group.finalizer
      BY <1>1, <1>2, <2>2, FinalizedRows
    <2> QED
      BY <2>1, <2>2
  <1>4. \A u \in Tasks : Follows(ts[u], task'[u])
    BY <1>2, <1>3, FollowsOn
  <1>5. \A u \in Tasks \ {Finalizer} : Stays(ts[u], task'[u])
    BY <1>2, <1>3 DEF Stays
  <1> QED
    BY <1>2, <1>3, <1>4, <1>5

LEMMA ConsistentIsSettled == GraphConsistent <=> Settled(task)
  BY DEF GraphConsistent, Settled

LEMMA SettledIsConsistent == Settled(task') => GraphConsistent'
  BY DEF GraphConsistent, Settled, PrereqsCompleted

(* A plan is admitted and settled, and follows the request. *)
LEMMA PlanRows ==
    ASSUME Admitted(task), GraphConsistent, NEW t, NEW p, NEW successor, NEW ack, NEW resolve,
           NEW ts, NEW decided, Request(t, p, successor),
           PlanStep(t, p, successor, ack, resolve, ts, decided)
    PROVE  /\ Admitted(ts) /\ Settled(ts)
           /\ \A u \in Tasks : Follows(Base(t, p, successor, u), ts[u])
  BY PlannedRows, PlannedSettled, ConsistentIsSettled DEF PlanStep

LEMMA TransactRows ==
    ASSUME TypeOK, Admitted(task), GraphConsistent,
           NEW t, NEW p, NEW successor, NEW ack, NEW resolve,
           Request(t, p, successor), Transact(t, p, successor, ack, resolve)
    PROVE  /\ Admitted(task') /\ Settled(task')
           /\ \A u \in Tasks : Follows(Base(t, p, successor, u), task'[u])
  <1>1. PICK ts, decided :
              /\ PlanStep(t, p, successor, ack, resolve, ts, decided)
              /\ \/ QuietStep(ts, decided, resolve)
                 \/ /\ Kind = "quiescence" /\ decided[1] # "pending"
                    /\ \E direct, t1, unsettled, barrier, finalizer :
                          DrainStep(ts, execution', decided, resolve, direct, t1, unsettled,
                                    barrier, finalizer)
    BY TransactParts
  <1>2. /\ Admitted(ts) /\ Settled(ts)
        /\ \A u \in Tasks : Follows(Base(t, p, successor, u), ts[u])
    BY <1>1, PlanRows
  <1>3. CASE QuietStep(ts, decided, resolve)
    BY <1>2, <1>3 DEF QuietStep
  <1>4. CASE \E direct, t1, unsettled, barrier, finalizer :
               DrainStep(ts, execution', decided, resolve, direct, t1, unsettled, barrier, finalizer)
    BY <1>2, <1>4, DrainRows, FollowsOn
  <1> QED
    BY <1>1, <1>3, <1>4

-----------------------------------------------------------------------------
(* The group. *)

LEMMA DecidedOnce ==
    ASSUME TypeOK, NEW ts
    PROVE  /\ group.decision # "pending" => Decided(ts) = <<group.decision, group.winners>>
           /\ Kind = "none" => Decided(ts) = <<group.decision, group.winners>>
           /\ group.decision = "pending" /\ Kind # "none" /\ Decided(ts)[1] # "succeeded" =>
                Decided(ts)[2] = {}
  BY DEF Decided

LEMMA BarrierType ==
    ASSUME TypeOK, NEW unsettled
    PROVE  Barrier(unsettled) \in {"draining", "attention_required", "quiescent"}
  BY DEF TypeOK, Groups, Barrier

LEMMA QuietGroup ==
    ASSUME TypeOK, GroupInv, NEW ts, NEW decided, NEW resolve, decided = Decided(ts),
           QuietStep(ts, decided, resolve)
    PROVE  group' \in Groups /\ GroupInv'
  <1>1. /\ group'.decision = decided[1] /\ group'.winners = decided[2]
        /\ group'.barrier = group.barrier /\ group'.losers = group.losers
        /\ group'.finalizer = group.finalizer
    BY DEF QuietStep, TypeOK, Groups
  <1>2. group' \in Groups
    BY DecidedType DEF QuietStep, TypeOK, Groups
  <1>3. Kind = "quiescence" => group.decision = "pending" /\ decided[1] = "pending"
    BY DecidedOnce DEF QuietStep
  <1>4. Kind # "quiescence" => Finalizer = None
    BY GraphConstants
  <1> QED
    BY <1>1, <1>2, <1>3, <1>4, DecidedOnce DEF GroupInv

LEMMA DrainGroup ==
    ASSUME TypeOK, GroupInv, NEW ts, NEW ex, NEW decided, NEW resolve, decided = Decided(ts),
           Kind = "quiescence", decided[1] # "pending",
           NEW direct, NEW t1, NEW unsettled, NEW barrier, NEW finalizer,
           DrainStep(ts, ex, decided, resolve, direct, t1, unsettled, barrier, finalizer)
    PROVE  group' \in Groups /\ GroupInv'
  <1>1. /\ group'.decision = decided[1] /\ group'.winners = decided[2]
        /\ group'.barrier = barrier /\ group'.losers = LosersOf(decided)
        /\ group'.unsettled = unsettled
        /\ \/ group'.finalizer = finalizer
           \/ group'.finalizer = "settled" /\ finalizer = "released"
    BY DEF DrainStep
  <1>2. barrier \in {"draining", "attention_required", "quiescent"}
    BY BarrierType DEF DrainStep
  <1>3. decided[1] \in {"succeeded", "failed"} /\ decided[2] \in SUBSET Members
    BY DecidedType
  <1>4. LosersOf(decided) = Members \ decided[2]
    BY DecidedOnce DEF LosersOf, GroupInv
  <1>5. unsettled \in SUBSET LosersOf(decided)
    BY DEF DrainStep, Unsettled
  <1>6. finalizer = IF group.finalizer # "waiting" THEN group.finalizer
                    ELSE IF decided[1] = "failed" THEN "ineligible"
                    ELSE IF barrier = "quiescent" THEN "released"
                    ELSE "waiting"
    BY DEF DrainStep, FinalizerStatus
  <1>7. finalizer \in {"absent", "waiting", "ineligible", "released", "settled"}
    BY <1>6 DEF TypeOK, Groups
  <1>8. group' \in Groups
    <2>1. PICK f \in {"absent", "waiting", "ineligible", "released", "settled"} :
             group' = [decision |-> decided[1], winners |-> decided[2], barrier |-> barrier,
                       losers |-> LosersOf(decided), unsettled |-> unsettled, finalizer |-> f]
      BY <1>7 DEF DrainStep
    <2> QED
      BY <1>2, <1>3, <1>4, <1>5, <2>1 DEF Groups
  <1>9. group.barrier = "quiescent" => barrier = "quiescent"
    BY DEF DrainStep, Barrier
  <1>10. group.decision # "pending" => decided[1] = group.decision
    BY DecidedOnce
  <1>11. decided[1] # "succeeded" => decided[2] = {}
    BY <1>10, DecidedOnce DEF GroupInv
  <1>12. /\ group'.finalizer = "absent" <=> Finalizer = None
         /\ group'.finalizer = "waiting" => group'.decision # "failed" /\ group'.barrier # "quiescent"
         /\ group'.finalizer = "ineligible" => group'.decision = "failed"
         /\ group'.finalizer \in {"released", "settled"} =>
              group'.decision = "succeeded" /\ group'.barrier = "quiescent"
    BY <1>1, <1>3, <1>6, <1>9, <1>10 DEF GroupInv
  <1> QED
    BY <1>1, <1>2, <1>3, <1>4, <1>8, <1>11, <1>12 DEF GroupInv

-----------------------------------------------------------------------------
(* The finalizer. *)

(* In a plan too, only the finalizer waits for the group, and it does not  *)
(* run before its release.                                                 *)
LEMMA PlannedFinalizer ==
    ASSUME Admitted(task), FinalizerInv, NEW t, NEW p, NEW successor,
           Request(t, p, successor), t \in Graph => CanChange(t, p, waitingFinalizer)
    PROVE  LET ts == Planned(t, p, successor)
           IN  /\ \A u \in Graph : ts[u].status = "waiting_group" =>
                     u = Finalizer /\ group.finalizer = "waiting"
               /\ group.finalizer = "waiting" /\ Finalizer # None =>
                     ts[Finalizer].status \notin {"pending", "claimed", "completed"}
  <1> DEFINE changed == [task EXCEPT ![t] = StoredRow(t, p)]
             planned == IF t \in Graph THEN Propagate(changed, waitingFinalizer) ELSE changed
             ts == Planned(t, p, successor)
  <1>1. t \in Tasks /\ p \in Rows /\ p.status # "absent"
    BY DEF Request
  <1>2. StoredRow(t, p) \in Rows /\ StoredRow(t, p).status # "absent"
    BY <1>1, StoredRowType DEF Idling
  <1>3. Admitted(changed) /\ (\A u \in Tasks : changed[u] = IF u = t THEN StoredRow(t, p) ELSE task[u])
    BY <1>1, <1>2 DEF Admitted, Tasks
  <1>4. \A u \in Graph : u = waitingFinalizer <=> u = Finalizer /\ group.finalizer = "waiting"
    BY SuccessorsApart DEF waitingFinalizer
  <1>5. \A u \in Graph : changed[u].status = "waiting_group" =>
           u = Finalizer /\ group.finalizer = "waiting"
    BY <1>1, <1>3, <1>4, StoredRowType, SuccessorsApart DEF FinalizerInv, Request
  <1>6. group.finalizer = "waiting" /\ Finalizer \in Graph =>
           changed[Finalizer].status \notin {"pending", "claimed", "completed"}
    <2> SUFFICES ASSUME group.finalizer = "waiting", Finalizer \in Graph
                 PROVE  changed[Finalizer].status \notin {"pending", "claimed", "completed"}
      OBVIOUS
    <2>1. CASE t = Finalizer
      <3>1. p.status \notin {"claimed", "completed"}
        BY <1>4, <2>1 DEF CanChange, Executing
      <3> QED
        BY <1>1, <1>3, <1>4, <2>1, <3>1, StoredRowType DEF Idling
    <2>2. CASE t # Finalizer
      BY <1>3, <2>2, SuccessorsApart DEF FinalizerInv
    <2> QED
      BY <2>1, <2>2
  <1>7. ASSUME NEW u \in Graph
        PROVE  /\ planned[u].status = "waiting_group" => u = Finalizer /\ group.finalizer = "waiting"
               /\ u = Finalizer /\ group.finalizer = "waiting" =>
                    planned[u].status \notin {"pending", "claimed", "completed"}
    <2>0. u \in Tasks /\ changed[u] \in Rows
      BY <1>3, SuccessorsApart DEF Admitted
    <2>1. CASE planned[u] = changed[u]
      BY <1>5, <1>6, <2>1
    <2>2. CASE t \in Graph /\ u \in Skipped(changed)
      <3>1. planned[u] = Closed(changed[u], "dependency_skipped")
        BY <2>0, <2>2 DEF Propagate
      <3> QED
        BY <2>0, <3>1, ClosedRow DEF Terminal
    <2>3. CASE t \in Graph /\ planned[u] # changed[u] /\ u \notin Skipped(changed)
      <3>1. CASE u = waitingFinalizer
        <4>1. planned[u] = [changed[u] EXCEPT !.status = "waiting_group"]
          BY <2>0, <2>3, <3>1 DEF Propagate
        <4> HIDE DEF planned, changed
        <4>2. planned[u].status = "waiting_group"
          BY <2>0, <4>1, StatusRow DEF Statuses, Waiting
        <4> QED
          BY <1>4, <3>1, <4>2
      <3>2. CASE u # waitingFinalizer
        <4>1. planned[u] = [changed[u] EXCEPT !.status = "pending"]
          BY <2>0, <2>3, <3>2 DEF Propagate
        <4> HIDE DEF planned, changed
        <4>2. planned[u].status = "pending"
          BY <2>0, <4>1, StatusRow DEF Statuses, Waiting
        <4> QED
          BY <1>4, <3>2, <4>2
      <3> QED
        BY <3>1, <3>2
    <2> QED
      BY <2>1, <2>2, <2>3
  <1>8. \A u \in Graph : ts[u] = planned[u]
    <2>1. \A u \in Graph : successor # None => u # successor
      BY SuccessorsApart DEF Request
    <2>2. ts = IF successor = None THEN planned ELSE [planned EXCEPT ![successor] = Row("pending")]
      BY DEF Planned, StoredRow
    <2> HIDE DEF planned, ts
    <2> QED
      BY <2>1, <2>2
  <1>9. Finalizer # None => Finalizer \in Graph
    BY GraphConstants
  <1> HIDE DEF planned, ts
  <1>10. /\ \A u \in Graph : ts[u].status = "waiting_group" =>
               u = Finalizer /\ group.finalizer = "waiting"
         /\ group.finalizer = "waiting" /\ Finalizer # None =>
               ts[Finalizer].status \notin {"pending", "claimed", "completed"}
    BY <1>7, <1>8, <1>9
  <1> QED
    BY <1>10 DEF ts

(* The rows before their consequences, against the stored ones. *)
LEMMA BaseRow ==
    ASSUME Admitted(task), NEW t, NEW p, NEW successor, Request(t, p, successor), NEW u \in Tasks
    PROVE  LET b == Base(t, p, successor, u)
           IN  /\ b \in Rows
               /\ task[u].status \in Terminal => b = task[u]
               /\ b.status = "claimed" => task[u].status \in {"pending", "claimed"}
               /\ b.status = "absent" => task[u].status = "absent"
               /\ task[u].status = "absent" => b = task[u] \/ (u = successor /\ b = Row("pending"))
               /\ u # t /\ u # successor => b = task[u]
  <1>1. t \in Tasks /\ p \in Rows /\ p.status # "absent" /\ task[u] \in Rows
    BY DEF Request, Admitted
  <1>2. CASE u = t
    <2>1. Base(t, p, successor, u) = StoredRow(t, p)
      BY <1>2 DEF Base
    <2>2. /\ StoredRow(t, p) \in Rows
          /\ p.status # "pending" => StoredRow(t, p) = p
          /\ p.status = "pending" => StoredRow(t, p).status \in Idling
      BY <1>1, StoredRowType
    <2> QED
      BY <1>1, <1>2, <2>1, <2>2 DEF Request, Idling, Terminal
  <1>3. CASE u # t /\ successor # None /\ u = successor
    <2>1. Base(t, p, successor, u) = Row("pending") /\ task[u].status = "absent"
      BY <1>3 DEF Base, Request
    <2> QED
      BY <1>3, <2>1, FreshRow DEF Statuses, Waiting, Terminal
  <1>4. CASE u # t /\ ~(successor # None /\ u = successor)
    <2>1. Base(t, p, successor, u) = task[u]
      BY <1>4 DEF Base
    <2> QED
      BY <1>1, <1>4, <2>1
  <1> QED
    BY <1>2, <1>3, <1>4

(* Terminal rows are final. *)
LEMMA TerminalStays ==
    ASSUME Admitted(task), NEW t, NEW p, NEW successor, Request(t, p, successor), NEW u \in Tasks,
           NEW r, Follows(Base(t, p, successor, u), r), task[u].status \in Terminal
    PROVE  r = task[u]
  BY BaseRow DEF Follows

(* What holds in the state before a transaction. *)
Before == /\ TypeOK /\ Admitted(task) /\ GraphConsistent /\ GroupInv /\ FinalizerInv /\ ReadyInv
          /\ DecisionSound /\ ExecutionInv /\ LineageInv /\ QuietInv

LEMMA PlanFinalizer ==
    ASSUME Before, NEW t, NEW p, NEW successor, NEW ack, NEW resolve,
           NEW ts, NEW decided, Request(t, p, successor),
           PlanStep(t, p, successor, ack, resolve, ts, decided)
    PROVE  /\ \A u \in Graph : ts[u].status = "waiting_group" =>
                 u = Finalizer /\ group.finalizer = "waiting"
           /\ group.finalizer = "waiting" /\ Finalizer # None =>
                 ts[Finalizer].status \notin {"pending", "claimed", "completed"}
           /\ Finalizer # None /\ group.decision = "failed" => ts[Finalizer].status \in Failure
  <1>1. Admitted(task) /\ FinalizerInv /\ GraphConsistent
    BY DEF Before
  <1>2. t \in Graph => CanChange(t, p, waitingFinalizer)
    BY DEF PlanStep
  <1>3. ts = Planned(t, p, successor)
    BY DEF PlanStep
  <1>4. ASSUME Finalizer # None, group.decision = "failed"
        PROVE  ts[Finalizer].status \in Failure
    <2>1. Finalizer \in Tasks
      BY <1>4, GraphConstants, SuccessorsApart
    <2>2. task[Finalizer].status \in Failure
      BY <1>1, <1>4 DEF FinalizerInv
    <2>3. ts[Finalizer] = task[Finalizer]
      BY <1>1, <2>1, <2>2, PlanRows, TerminalStays DEF Failure
    <2> QED
      BY <2>2, <2>3
  <1> QED
    BY <1>1, <1>2, <1>3, <1>4, PlannedFinalizer

LEMMA QuietFinalizer ==
    ASSUME Before, NEW t, NEW p, NEW successor, NEW ack, NEW resolve,
           NEW ts, NEW decided, Request(t, p, successor),
           PlanStep(t, p, successor, ack, resolve, ts, decided), QuietStep(ts, decided, resolve)
    PROVE  FinalizerInv'
  <1>1. group'.finalizer = group.finalizer /\ group'.decision = decided[1] /\ task' = ts
    BY DEF QuietStep, Before, TypeOK, Groups
  <1>2. Finalizer # None => Kind = "quiescence"
    BY GraphConstants
  <1>3. Finalizer # None => decided[1] # "failed"
    BY <1>2 DEF QuietStep
  <1>4. group.finalizer = "waiting" => Finalizer # None
    BY DEF Before, GroupInv
  <1> QED
    BY <1>1, <1>3, <1>4, PlanFinalizer DEF FinalizerInv

LEMMA DrainFinalizer ==
    ASSUME Before, NEW t, NEW p, NEW successor, NEW ack, NEW resolve,
           NEW ts, NEW decided, Request(t, p, successor),
           PlanStep(t, p, successor, ack, resolve, ts, decided),
           Kind = "quiescence", decided[1] # "pending",
           NEW direct, NEW t1, NEW unsettled, NEW barrier, NEW finalizer,
           DrainStep(ts, execution', decided, resolve, direct, t1, unsettled, barrier, finalizer)
    PROVE  FinalizerInv'
  <1>0. TypeOK /\ GroupInv /\ Admitted(task) /\ GraphConsistent
    BY DEF Before
  <1>1. Admitted(ts) /\ Settled(ts)
    BY <1>0, PlanRows
  <1>2. /\ Admitted(t1) /\ Settled(t1)
        /\ \A u \in Tasks : Follows(ts[u], t1[u]) /\ Follows(t1[u], task'[u])
        /\ \A u \in Tasks : Stays(ts[u], t1[u])
        /\ \A u \in Tasks \ {Finalizer} : Stays(ts[u], task'[u])
    BY <1>0, <1>1, DrainRows
  <1>3. /\ group'.decision = decided[1]
        /\ group'.finalizer = finalizer \/ (group'.finalizer = "settled" /\ finalizer = "released")
        /\ finalizer = IF group.finalizer # "waiting" THEN group.finalizer
                       ELSE IF decided[1] = "failed" THEN "ineligible"
                       ELSE IF barrier = "quiescent" THEN "released"
                       ELSE "waiting"
        /\ task' = Finalized(t1, finalizer)
    BY DEF DrainStep, FinalizerStatus
  <1>4. /\ \A u \in Graph : ts[u].status = "waiting_group" =>
                 u = Finalizer /\ group.finalizer = "waiting"
        /\ group.finalizer = "waiting" /\ Finalizer # None =>
                 ts[Finalizer].status \notin {"pending", "claimed", "completed"}
        /\ Finalizer # None /\ group.decision = "failed" => ts[Finalizer].status \in Failure
    BY PlanFinalizer
  <1>5. \A u \in Graph : u # Finalizer => task'[u].status # "waiting_group"
    BY <1>2, <1>4, SuccessorsApart DEF Stays, Failure, Terminal
  <1>6. CASE Finalizer = None
    <2>1. group'.finalizer # "waiting"
      BY <1>0, <1>3, <1>6 DEF GroupInv
    <2>2. \A u \in Graph : u # Finalizer
      BY <1>6, SuccessorsApart
    <2> QED
      BY <1>5, <1>6, <2>1, <2>2 DEF FinalizerInv
  <1>7. CASE Finalizer # None
    <2>0. Finalizer \in Graph /\ Finalizer \in Tasks
      BY <1>7, GraphConstants, SuccessorsApart
    <2>1. CASE finalizer = group.finalizer
      <3>1. task' = t1
        BY <1>3, <2>1 DEF Finalized
      <3>2. Stays(ts[Finalizer], t1[Finalizer])
        BY <1>2, <2>0
      <3>3. finalizer = "waiting" => group.finalizer = "waiting" /\ decided[1] # "failed"
        BY <1>3, <2>1
      <3>4. finalizer # "waiting" => (decided[1] = "failed" => group.decision = "failed")
        <4>1. finalizer # "waiting" => group.decision # "pending"
          BY <1>0, <1>7, <2>1 DEF GroupInv, TypeOK, Groups
        <4> QED
          BY <1>0, <4>1, DecidedOnce DEF PlanStep
      <3> QED
        BY <1>3, <1>4, <1>5, <1>7, <2>0, <2>1, <3>1, <3>2, <3>3, <3>4
           DEF FinalizerInv, Stays, Failure, Terminal
    <2>2. CASE finalizer # group.finalizer
      <3>1. group.finalizer = "waiting" /\ finalizer \in {"ineligible", "released"}
            /\ (finalizer = "ineligible" <=> decided[1] = "failed")
        BY <1>3, <2>2
      <3>2. /\ finalizer = "ineligible" => IF t1[Finalizer].status \in Terminal
                                       THEN task'[Finalizer] = t1[Finalizer]
                                       ELSE task'[Finalizer].status \in Failure
            /\ finalizer = "released" => IF t1[Finalizer].status = "waiting_group"
                                     THEN task'[Finalizer].status \in {"pending", "waiting_dependencies"}
                                     ELSE task'[Finalizer] = t1[Finalizer]
        BY <1>2, <1>3, <1>7, <2>2, FinalizedRows
      <3>3. Stays(ts[Finalizer], t1[Finalizer])
        BY <1>2, <2>0
      <3>4. t1[Finalizer].status # "completed"
        BY <1>4, <1>7, <3>1, <3>3 DEF Stays, Failure, Terminal
      <3>5. task'[Finalizer].status # "waiting_group"
        BY <3>1, <3>2 DEF Failure, Terminal
      <3>6. decided[1] = "failed" => task'[Finalizer].status \in Failure
        BY <3>1, <3>2, <3>4 DEF Failure
      <3>7. group'.finalizer # "waiting"
        BY <1>3, <3>1
      <3> QED
        BY <1>3, <1>5, <2>0, <3>5, <3>6, <3>7 DEF FinalizerInv
    <2> QED
      BY <2>1, <2>2
  <1> QED
    BY <1>6, <1>7

-----------------------------------------------------------------------------
(* READY events. *)

(* A plan announces what becomes pending for the first time. *)
LEMMA PlanReady ==
    ASSUME Before, NEW t, NEW p, NEW successor, NEW ack, NEW resolve,
           NEW ts, NEW decided, Request(t, p, successor),
           PlanStep(t, p, successor, ack, resolve, ts, decided), NEW u \in Graph
    PROVE  LET rd == IF ready[u] < 2 /\ u \in Readied(ts) THEN ready[u] + 1 ELSE ready[u]
           IN  /\ ready[u] \in {0, 1} /\ rd \in {0, 1}
               /\ u \in Readied(ts) => ready[u] = 0 /\ rd = 1
               /\ rd = 1 => PrereqsCompleted(ts, u) /\ ~(u = Finalizer /\ group.finalizer = "waiting")
               /\ ts[u].status \in {"pending", "claimed"} => rd = 1
  <1> DEFINE rd == IF ready[u] < 2 /\ u \in Readied(ts) THEN ready[u] + 1 ELSE ready[u]
  <1>0. TypeOK /\ Admitted(task) /\ GraphConsistent /\ ReadyInv
    BY DEF Before
  <1>1. /\ Admitted(ts) /\ Settled(ts)
        /\ \A v \in Tasks : Follows(Base(t, p, successor, v), ts[v])
    BY <1>0, PlanRows
  <1>2. ready[u] \in {0, 1}
    BY <1>0 DEF TypeOK, ReadyInv
  <1>3. u \in Tasks /\ Prereqs[u] \subseteq Tasks
    BY SuccessorsApart
  <1>4. ready[u] = 1 => PrereqsCompleted(ts, u)
    <2>1. \A q \in Prereqs[u] : task[q].status = "completed" => ts[q] = task[q]
      BY <1>0, <1>1, <1>3, TerminalStays DEF Terminal
    <2> QED
      BY <1>0, <2>1 DEF ReadyInv, PrereqsCompleted
  <1>5. ASSUME u \in Readied(ts)
        PROVE  ready[u] = 0 /\ PrereqsCompleted(ts, u) /\ ~(u = Finalizer /\ group.finalizer = "waiting")
    <2>1. ts[u].status = "pending"
      BY <1>5 DEF Readied
    <2>2. PrereqsCompleted(ts, u)
      BY <1>1, <2>1 DEF Settled
    <2>3. ~(u = Finalizer /\ group.finalizer = "waiting")
      BY <2>1, <1>3, SuccessorsApart, PlanFinalizer
    <2>4. ready[u] = 0
      BY <1>0, <1>2, <1>5 DEF Readied, ReadyInv, GraphConsistent
    <2> QED
      BY <2>2, <2>3, <2>4
  <1>6. ASSUME ts[u].status = "pending"
        PROVE  u \in Readied(ts) \/ ready[u] = 1
    <2>1. task[u].status \notin Terminal
      BY <1>0, <1>1, <1>3, <1>6, TerminalStays DEF Terminal
    <2>2. task[u].status \in Statuses /\ task[u].status # "absent"
      BY <1>0, <1>3 DEF TypeOK, Rows, Admitted
    <2>3. task[u].status \in {"waiting_dependencies", "waiting_group", "pending", "held", "claimed"}
      BY <2>1, <2>2 DEF Statuses, Waiting
    <2>4. task[u].status \in {"pending", "claimed"} => ready[u] = 1
      BY <1>0 DEF ReadyInv
    <2> QED
      BY <1>2, <1>6, <2>3, <2>4 DEF Readied
  <1>7. ASSUME ts[u].status = "claimed"
        PROVE  ready[u] = 1
    <2>1. Base(t, p, successor, u).status = "claimed"
      BY <1>1, <1>3, <1>7 DEF Follows
    <2>2. task[u].status \in {"pending", "claimed"}
      BY <1>0, <1>3, <2>1, BaseRow
    <2> QED
      BY <1>0, <2>2 DEF ReadyInv
  <1>8. ready[u] = 1 => ~(u = Finalizer /\ group.finalizer = "waiting")
    BY <1>0 DEF ReadyInv
  <1>9. /\ ready[u] \in {0, 1} /\ rd \in {0, 1}
        /\ u \in Readied(ts) => ready[u] = 0 /\ rd = 1
        /\ rd = 1 => ready[u] = 1 \/ u \in Readied(ts)
        /\ ready[u] = 1 => rd = 1
    BY <1>2, <1>5
  <1> HIDE DEF rd
  <1>10. /\ ready[u] \in {0, 1} /\ rd \in {0, 1}
         /\ u \in Readied(ts) => ready[u] = 0 /\ rd = 1
         /\ rd = 1 => PrereqsCompleted(ts, u) /\ ~(u = Finalizer /\ group.finalizer = "waiting")
         /\ ts[u].status \in {"pending", "claimed"} => rd = 1
    BY <1>4, <1>5, <1>6, <1>7, <1>8, <1>9
  <1> QED
    BY <1>10 DEF rd

LEMMA QuietReady ==
    ASSUME Before, NEW t, NEW p, NEW successor, NEW ack, NEW resolve,
           NEW ts, NEW decided, Request(t, p, successor),
           PlanStep(t, p, successor, ack, resolve, ts, decided), QuietStep(ts, decided, resolve)
    PROVE  ready' \in [Graph -> 0..2] /\ ReadyInv'
  <1>1. group'.finalizer = group.finalizer /\ task' = ts
    BY DEF QuietStep, Before, TypeOK, Groups
  <1>2. ready' = [u \in Graph |->
                    IF ready[u] < 2 /\ u \in Readied(ts) THEN ready[u] + 1 ELSE ready[u]]
    BY DEF QuietStep
  <1>3. \A u \in Graph :
           /\ ready'[u] \in {0, 1}
           /\ ready'[u] = 1 => PrereqsCompleted(ts, u) /\ ~(u = Finalizer /\ group.finalizer = "waiting")
           /\ ts[u].status \in {"pending", "claimed"} => ready'[u] = 1
    BY <1>2, PlanReady
  <1>4. ready' \in [Graph -> 0..2]
    <2>1. ready' = [u \in Graph |-> ready'[u]]
      BY <1>2
    <2> QED
      BY <2>1, <1>3
  <1>5. ReadyInv'
    BY <1>1, <1>3 DEF ReadyInv, PrereqsCompleted
  <1> QED
    BY <1>4, <1>5

LEMMA DrainReady ==
    ASSUME Before, NEW t, NEW p, NEW successor, NEW ack, NEW resolve,
           NEW ts, NEW decided, Request(t, p, successor),
           PlanStep(t, p, successor, ack, resolve, ts, decided),
           Kind = "quiescence", decided[1] # "pending",
           NEW direct, NEW t1, NEW unsettled, NEW barrier, NEW finalizer,
           DrainStep(ts, execution', decided, resolve, direct, t1, unsettled, barrier, finalizer)
    PROVE  ready' \in [Graph -> 0..2] /\ ReadyInv'
  <1>0. TypeOK /\ GroupInv /\ Admitted(task) /\ GraphConsistent
    BY DEF Before
  <1>1. Admitted(ts) /\ Settled(ts)
    BY <1>0, PlanRows
  <1>2. /\ Admitted(t1) /\ Settled(t1) /\ Settled(task')
        /\ \A u \in Tasks : Follows(ts[u], t1[u]) /\ Follows(t1[u], task'[u]) /\ Follows(ts[u], task'[u])
        /\ \A u \in Tasks : Stays(ts[u], t1[u])
        /\ \A u \in Tasks \ {Finalizer} : Stays(ts[u], task'[u])
    BY <1>0, <1>1, DrainRows
  <1>3. ready' = [u \in Graph |->
                   ready[u] + (IF ready[u] < 2 /\ u \in Readied(ts) THEN 1
                               ELSE IF ready[u] < 2 /\ u = Finalizer
                                       /\ t1[u].status = "waiting_group"
                                       /\ task'[u].status = "pending" THEN 1 ELSE 0)]
    BY DEF DrainStep
  <1>4. ASSUME NEW u \in Graph
        PROVE  /\ ready'[u] \in {0, 1}
               /\ ready'[u] = 1 => PrereqsCompleted(task', u)
                                   /\ ~(u = Finalizer /\ group'.finalizer = "waiting")
               /\ task'[u].status \in {"pending", "claimed"} => ready'[u] = 1
    <2> DEFINE rd == IF ready[u] < 2 /\ u \in Readied(ts) THEN ready[u] + 1 ELSE ready[u]
    <2>1. /\ ready[u] \in {0, 1} /\ rd \in {0, 1}
          /\ u \in Readied(ts) => ready[u] = 0 /\ rd = 1
          /\ rd = 1 => PrereqsCompleted(ts, u) /\ ~(u = Finalizer /\ group.finalizer = "waiting")
          /\ ts[u].status \in {"pending", "claimed"} => rd = 1
      BY PlanReady
    <2>2. PrereqsCompleted(task', u) <=> PrereqsCompleted(ts, u)
      BY <1>2, PrereqsStay, SuccessorsApart
    <2>3. u \in Tasks
      BY SuccessorsApart
    <2>4. CASE u = Finalizer /\ t1[u].status = "waiting_group" /\ task'[u].status = "pending"
      <3>1. ts[u].status = "waiting_group"
        BY <1>2, <2>3, <2>4 DEF Stays, Failure, Terminal
      <3>2. group.finalizer = "waiting"
        BY <3>1, PlanFinalizer
      <3>3. rd = 0
        BY <2>1, <2>4, <3>2
      <3>4. ready'[u] = 1
        BY <1>3, <2>1, <2>4, <3>3
      <3>5. PrereqsCompleted(task', u)
        BY <1>2, <2>4 DEF Settled
      <3>6. group'.finalizer # "waiting"
        <4>1. group'.finalizer = "waiting" => task'[Finalizer].status \notin {"pending", "claimed", "completed"}
          BY DrainFinalizer DEF FinalizerInv
        <4> QED
          BY <2>4, <4>1
      <3> QED
        BY <3>4, <3>5, <3>6
    <2>5. CASE ~(u = Finalizer /\ t1[u].status = "waiting_group" /\ task'[u].status = "pending")
      <3>1. ready'[u] = rd
        BY <1>3, <2>1, <2>5
      <3>2. group'.finalizer = "waiting" => group.finalizer = "waiting"
        BY DEF DrainStep, FinalizerStatus
      <3>3. task'[u].status = "claimed" => ts[u].status = "claimed"
        BY <1>2, <2>3 DEF Follows
      <3>4. task'[u].status = "pending" => ts[u].status = "pending"
        <4>1. CASE u # Finalizer
          BY <1>2, <2>3, <4>1 DEF Stays, Failure, Terminal
        <4>2. CASE u = Finalizer
          <5>0. Finalizer # None
            BY <2>3, <4>2, SuccessorsApart
          <5>1. task' = Finalized(t1, finalizer)
            BY DEF DrainStep
          <5>2. CASE finalizer = group.finalizer
            <6>1. task' = t1
              BY <5>1, <5>2 DEF Finalized
            <6> QED
              BY <1>2, <2>3, <6>1 DEF Stays, Failure, Terminal
          <5>3. CASE finalizer # group.finalizer
            <6>1. /\ finalizer = "ineligible" => IF t1[Finalizer].status \in Terminal
                                       THEN task'[Finalizer] = t1[Finalizer]
                                       ELSE task'[Finalizer].status \in Failure
                  /\ finalizer = "released" => IF t1[Finalizer].status = "waiting_group"
                                     THEN task'[Finalizer].status \in {"pending", "waiting_dependencies"}
                                     ELSE task'[Finalizer] = t1[Finalizer]
                  /\ finalizer \notin {"ineligible", "released"} => task' = t1
              BY <1>2, <5>0, <5>1, <5>3, FinalizedRows
            <6>2. task'[u].status = "pending" => t1[u].status = "pending"
              BY <2>5, <4>2, <6>1 DEF Failure, Terminal
            <6> QED
              BY <1>2, <2>3, <6>2 DEF Stays, Failure, Terminal
          <5> QED
            BY <5>2, <5>3
        <4> QED
          BY <4>1, <4>2
      <3> HIDE DEF rd
      <3> QED
        BY <2>1, <2>2, <3>1, <3>2, <3>3, <3>4
    <2> QED
      BY <2>4, <2>5
  <1>5. ready' \in [Graph -> 0..2]
    <2>1. ready' = [u \in Graph |-> ready'[u]]
      BY <1>3
    <2> QED
      BY <2>1, <1>4
  <1>6. ReadyInv'
    BY <1>4 DEF ReadyInv, PrereqsCompleted
  <1> QED
    BY <1>5, <1>6

-----------------------------------------------------------------------------
(* The decision. *)

Successes(ts) == {m \in Members : ts[m].status = "completed"}
Failures(ts) == {m \in Members : ts[m].status \in Failure}

(* DecisionSound, of any rows and any decision. *)
Sound(ts, decision, winners) ==
    /\ decision = "succeeded" => /\ Cardinality(winners) = Required
                                 /\ winners \subseteq Successes(ts)
    /\ decision = "failed" => Cardinality(Members \ Failures(ts)) < Required
    /\ decision = "pending" => /\ Cardinality(Successes(ts)) < Required
                               /\ Cardinality(Members \ Failures(ts)) >= Required

LEMMA MembersFinite ==
    /\ IsFiniteSet(Members) /\ Cardinality(Members) \in Nat
    /\ \A S \in SUBSET Members :
          /\ IsFiniteSet(S) /\ Cardinality(S) \in Nat
          /\ Cardinality(Members \ S) = Cardinality(Members) - Cardinality(S)
    /\ \A S \in SUBSET Members, T \in SUBSET Members :
          S \subseteq T => Cardinality(S) <= Cardinality(T)
  <1>1. IsFiniteSet(Members)
    BY GraphConstants, FS_Subset
  <1>2. ASSUME NEW S \in SUBSET Members
        PROVE  /\ IsFiniteSet(S) /\ Cardinality(S) \in Nat
               /\ Cardinality(Members \ S) = Cardinality(Members) - Cardinality(S)
    <2>1. IsFiniteSet(S) /\ Cardinality(S) \in Nat
      BY <1>1, FS_Subset, FS_CardinalityType
    <2>2. Cardinality(Members \ S) = Cardinality(Members) - Cardinality(Members \cap S)
      BY <1>1, <2>1, FS_Difference
    <2>3. Members \cap S = S
      OBVIOUS
    <2> QED
      BY <2>1, <2>2, <2>3
  <1>3. \A S \in SUBSET Members, T \in SUBSET Members :
           S \subseteq T => Cardinality(S) <= Cardinality(T)
    BY <1>2, FS_Subset
  <1> QED
    BY <1>1, <1>2, <1>3, FS_CardinalityType

(* A decision stays the truth. *)
LEMMA SoundStays ==
    ASSUME NEW ts, NEW ns, NEW decision, NEW winners, decision # "pending",
           Sound(ts, decision, winners),
           \A m \in Members : ts[m].status \in Terminal => ns[m] = ts[m]
    PROVE  Sound(ns, decision, winners)
  <1>1. Successes(ts) \subseteq Successes(ns) /\ Failures(ts) \subseteq Failures(ns)
    BY DEF Successes, Failures, Failure, Terminal
  <1>2. Members \ Failures(ns) \subseteq Members \ Failures(ts)
    BY <1>1
  <1>3. Cardinality(Members \ Failures(ns)) <= Cardinality(Members \ Failures(ts))
    BY <1>2, MembersFinite
  <1>4. /\ Cardinality(Members \ Failures(ns)) \in Nat
        /\ Cardinality(Members \ Failures(ts)) \in Nat /\ Required \in Nat
    BY MembersFinite, GraphConstants
  <1> QED
    BY <1>1, <1>3, <1>4 DEF Sound

(* The decision a plan comes to: the successes a transaction adds are at   *)
(* most the changed task's, so a success is found as soon as it is there.  *)
LEMMA PlanSound ==
    ASSUME Before, NEW t, NEW p, NEW successor, NEW ack, NEW resolve,
           NEW ts, NEW decided, Request(t, p, successor),
           PlanStep(t, p, successor, ack, resolve, ts, decided), Kind # "none"
    PROVE  Sound(ts, decided[1], decided[2])
  <1>0. TypeOK /\ Admitted(task) /\ GraphConsistent
    BY DEF Before
  <1>1. Sound(task, group.decision, group.winners)
    BY DEF Before, DecisionSound, Sound, Successes, Failures
  <1>2. \A u \in Tasks : Follows(Base(t, p, successor, u), ts[u])
    BY <1>0, PlanRows
  <1>3. Members \subseteq Tasks /\ \A m \in Members : m \notin Successors
    BY SuccessorsApart
  <1>4. \A m \in Members : task[m].status \in Terminal => ts[m] = task[m]
    BY <1>0, <1>2, <1>3, TerminalStays
  <1>5. decided = Decided(ts)
    BY DEF PlanStep
  <1>6. CASE group.decision # "pending"
    <2>1. decided[1] = group.decision /\ decided[2] = group.winners
      BY <1>0, <1>5, <1>6, DecidedOnce
    <2> QED
      BY <1>1, <1>4, <1>6, <2>1, SoundStays
  <1>7. CASE group.decision = "pending"
    <2>1. Successes(ts) \subseteq Successes(task) \cup {t}
      <3> SUFFICES ASSUME NEW m \in Members, ts[m].status = "completed", m # t
                   PROVE  task[m].status = "completed"
        BY DEF Successes
      <3>1. Base(t, p, successor, m).status = "completed"
        BY <1>2, <1>3 DEF Follows
      <3>2. m # successor
        BY <1>3, SuccessorsApart DEF Request
      <3> QED
        BY <1>0, <1>3, <3>1, <3>2, BaseRow
    <2>2. Cardinality(Successes(ts)) <= Cardinality(Successes(task)) + 1
      <3>1. IsFiniteSet(Successes(task)) /\ Cardinality(Successes(task)) \in Nat
        BY MembersFinite DEF Successes
      <3>2. /\ IsFiniteSet(Successes(task) \cup {t})
            /\ Cardinality(Successes(task) \cup {t}) <= Cardinality(Successes(task)) + 1
            /\ Cardinality(Successes(task) \cup {t}) \in Nat
        <4>1. /\ IsFiniteSet(Successes(task) \cup {t})
              /\ Cardinality(Successes(task) \cup {t}) =
                   IF t \in Successes(task) THEN Cardinality(Successes(task))
                   ELSE Cardinality(Successes(task)) + 1
          BY <3>1, FS_AddElement
        <4> QED
          BY <3>1, <4>1
      <3>3. /\ Cardinality(Successes(ts)) <= Cardinality(Successes(task) \cup {t})
            /\ Cardinality(Successes(ts)) \in Nat
        BY <2>1, <3>2, FS_Subset, FS_CardinalityType
      <3> QED
        BY <3>1, <3>2, <3>3
    <2>3. Cardinality(Successes(task)) < Required
      BY <1>1, <1>7 DEF Sound
    <2>4. /\ Cardinality(Successes(ts)) \in Nat /\ Cardinality(Successes(task)) \in Nat
          /\ Required \in Nat
          /\ Cardinality(Members \ Failures(ts)) = Cardinality(Members) - Cardinality(Failures(ts))
      <3>1. Successes(ts) \in SUBSET Members /\ Successes(task) \in SUBSET Members
            /\ Failures(ts) \in SUBSET Members
        BY DEF Successes, Failures
      <3> QED
        BY <3>1, MembersFinite, GraphConstants
    <2>5. decided = IF Cardinality(Successes(ts)) >= Required THEN <<"succeeded", Successes(ts)>>
                    ELSE IF Cardinality(Members) - Cardinality(Failures(ts)) < Required
                    THEN <<"failed", {}>> ELSE <<"pending", {}>>
      BY <1>5, <1>7 DEF Decided, Successes, Failures
    <2>6. CASE Cardinality(Successes(ts)) >= Required
      <3>1. decided[1] = "succeeded" /\ decided[2] = Successes(ts)
        BY <2>5, <2>6
      <3>2. Cardinality(Successes(ts)) = Required
        BY <2>2, <2>3, <2>4, <2>6
      <3> QED
        BY <3>1, <3>2 DEF Sound
    <2>7. CASE ~(Cardinality(Successes(ts)) >= Required)
               /\ Cardinality(Members) - Cardinality(Failures(ts)) < Required
      <3>1. decided[1] = "failed"
        BY <2>5, <2>7
      <3> QED
        BY <2>4, <2>7, <3>1 DEF Sound
    <2>8. CASE ~(Cardinality(Successes(ts)) >= Required)
               /\ ~(Cardinality(Members) - Cardinality(Failures(ts)) < Required)
      <3>1. decided[1] = "pending"
        BY <2>5, <2>8
      <3>2. Cardinality(Members \ Failures(ts)) \in Nat
        BY MembersFinite
      <3>3. Cardinality(Successes(ts)) < Required /\ Cardinality(Members \ Failures(ts)) >= Required
        BY <2>4, <2>8, <3>2
      <3> QED
        BY <3>1, <3>3 DEF Sound
    <2> QED
      BY <2>6, <2>7, <2>8
  <1> QED
    BY <1>6, <1>7

LEMMA SoundIsDecisionSound ==
    (Kind # "none" => Sound(task', group'.decision, group'.winners)) => DecisionSound'
  BY DEF DecisionSound, Sound, Successes, Failures

-----------------------------------------------------------------------------
(* Executions on record, retry successors and the quiet barrier. *)

LEMMA RecordedRow ==
    ASSUME TypeOK, NEW ts, Admitted(ts), NEW ack, NEW u \in Tasks
    PROVE  LET x == Recorded(ts, ack)[u]
           IN  /\ x \in Executions
               /\ NewExecution(ts, u) => x.run = ts[u].run /\ x.worker = ts[u].worker
               /\ ~NewExecution(ts, u) => x.run = execution[u].run /\ x.worker = execution[u].worker
               /\ ack # u => (x.settled <=> ~NewExecution(ts, u) /\ execution[u].settled)
               /\ ack # None /\ ack = u => x.settled
  <1> DEFINE x == Recorded(ts, ack)[u]
             y == IF NewExecution(ts, u)
                  THEN [worker |-> ts[u].worker, run |-> ts[u].run, settled |-> FALSE]
                  ELSE execution[u]
  <1>1. x = IF ack # None /\ ack = u THEN [y EXCEPT !.settled = TRUE] ELSE y
    BY DEF Recorded
  <1>2. ts[u] \in Rows /\ execution[u] \in Executions
    BY DEF Admitted, TypeOK
  <1>3. /\ y \in Executions
        /\ NewExecution(ts, u) => y.run = ts[u].run /\ y.worker = ts[u].worker /\ ~y.settled
        /\ ~NewExecution(ts, u) => y = execution[u]
    BY <1>2 DEF Rows, Executions
  <1> HIDE DEF x, y
  <1>4. /\ x \in Executions /\ x.run = y.run /\ x.worker = y.worker
        /\ ack # u => x.settled = y.settled
        /\ ack # None /\ ack = u => x.settled
    <2>1. CASE ack # None /\ ack = u
      <3>1. x = [y EXCEPT !.settled = TRUE]
        BY <1>1, <2>1
      <3> QED
        BY <1>3, <2>1, <3>1 DEF Executions
    <2>2. CASE ~(ack # None /\ ack = u)
      BY <1>1, <1>3, <2>2
    <2> QED
      BY <2>1, <2>2
  <1>5. /\ x \in Executions
        /\ NewExecution(ts, u) => x.run = ts[u].run /\ x.worker = ts[u].worker
        /\ ~NewExecution(ts, u) => x.run = execution[u].run /\ x.worker = execution[u].worker
        /\ ack # u => (x.settled <=> ~NewExecution(ts, u) /\ execution[u].settled)
        /\ ack # None /\ ack = u => x.settled
    BY <1>3, <1>4
  <1> QED
    BY <1>5 DEF x

LEMMA RecordedType ==
    ASSUME TypeOK, NEW ts, Admitted(ts), NEW ack
    PROVE  Recorded(ts, ack) \in [Tasks -> Executions]
  <1>1. Recorded(ts, ack) = [u \in Tasks |-> Recorded(ts, ack)[u]]
    BY DEF Recorded
  <1> QED
    BY <1>1, RecordedRow

(* Nothing appears or disappears unasked: what is tracked stays so. *)
LEMMA TrackedFollows ==
    ASSUME NEW ts, NEW ns, \A u \in Tasks : Follows(ts[u], ns[u])
    PROVE  Lineage(ns) = Lineage(ts) /\ Tracked(ns) = Tracked(ts)
  <1>1. \A s \in Successors : ns[s].status = "absent" <=> ts[s].status = "absent"
    BY SuccessorsApart DEF Follows
  <1> QED
    BY <1>1 DEF Lineage, Tracked

(* What is there stays, and only the successor of the request is new. *)
LEMMA LineageGrows ==
    ASSUME Admitted(task), NEW t, NEW p, NEW successor, Request(t, p, successor),
           NEW ns, \A u \in Tasks : Follows(Base(t, p, successor, u), ns[u])
    PROVE  /\ Lineage(task) \subseteq Lineage(ns) /\ Tracked(task) \subseteq Tracked(ns)
           /\ \A s \in Lineage(ns) : s \in Lineage(task) \/ s = successor
           /\ \A u \in Tracked(ns) : u \in Tracked(task) \/ u = successor
  <1>1. \A s \in Successors : task[s].status # "absent" => ns[s].status # "absent"
    BY BaseRow, SuccessorsApart DEF Follows
  <1>2. \A s \in Successors : ns[s].status # "absent" /\ task[s].status = "absent" => s = successor
    <2> SUFFICES ASSUME NEW s \in Successors, ns[s].status # "absent", task[s].status = "absent"
                 PROVE  s = successor
      OBVIOUS
    <2>1. Base(t, p, successor, s) = task[s] => ns[s] = task[s]
      BY SuccessorsApart DEF Follows
    <2> QED
      BY <2>1, BaseRow, SuccessorsApart
  <1> QED
    BY <1>1, <1>2 DEF Lineage, Tracked

LEMMA TransactExecution ==
    ASSUME Before, NEW t, NEW p, NEW successor, NEW ack, NEW resolve,
           NEW ts, NEW decided, Request(t, p, successor),
           PlanStep(t, p, successor, ack, resolve, ts, decided),
           \A u \in Tasks : Follows(ts[u], task'[u])
    PROVE  execution' \in [Tasks -> Executions] /\ ExecutionInv'
  <1>0. TypeOK /\ Admitted(task) /\ GraphConsistent /\ ExecutionInv
    BY DEF Before
  <1>1. Admitted(ts) /\ \A u \in Tasks : Follows(Base(t, p, successor, u), ts[u])
    BY <1>0, PlanRows
  <1>2. execution' = Recorded(ts, ack)
    BY DEF PlanStep
  <1>3. execution' \in [Tasks -> Executions]
    BY <1>0, <1>1, <1>2, RecordedType
  <1>4. Tracked(task)' = Tracked(ts)
    <2>1. Tracked(task') = Tracked(ts)
      BY TrackedFollows
    <2> QED
      BY <2>1 DEF Tracked, Lineage
  <1>5. ASSUME NEW u \in Tracked(ts), task'[u].run # 0, task'[u].status \notin Terminal
        PROVE  /\ task'[u].status \in {"claimed", "held"}
               /\ execution'[u].run = task'[u].run
               /\ task'[u].status = "claimed" => execution'[u].worker = task'[u].worker
    <2> DEFINE b == Base(t, p, successor, u)
    <2>0. u \in Tasks
      BY SuccessorsApart DEF Tracked, Lineage
    <2>1. Follows(b, ts[u]) /\ Follows(ts[u], task'[u])
      BY <1>1, <2>0
    <2>2. /\ b.run = task'[u].run /\ ts[u].run = task'[u].run
          /\ b.status \notin Terminal /\ ts[u].status \notin Terminal
      BY <1>5, <2>1 DEF Follows
    <2>3. b \in Rows /\ (b.status = "absent" => task[u].status = "absent")
      BY <1>0, <2>0, BaseRow
    <2>4. u # successor
      <3>1. successor = u => b = Row("pending")
        BY SuccessorsApart, <2>0 DEF Base, Request
      <3> QED
        BY <1>5, <2>2, <3>1, FreshRow DEF Statuses, Waiting
    <2>5. u \in Tracked(task)
      BY <1>0, <1>1, <2>4, LineageGrows
    <2>6. /\ b.status \in {"claimed", "held"}
          /\ b.status = "held" => execution[u].run = b.run
      <3>1. CASE u = t
        <4>1. b = StoredRow(t, p) /\ p \in Rows /\ p.status # "absent"
          BY <3>1 DEF Base, Request
        <4>2. /\ StoredRow(t, p).run = p.run
              /\ p.status # "pending" => StoredRow(t, p) = p
              /\ p.status = "pending" => StoredRow(t, p).status \in Idling
          BY <1>0, <2>0, <3>1, <4>1, StoredRowType
        <4>3. p.run # 0 /\ p.status \notin Terminal
          BY <1>5, <2>2, <4>1, <4>2 DEF Terminal
        <4>4. p.status = "claimed" \/ (p.status = "held" /\ p.run = task[t].run)
          BY <2>5, <3>1, <4>3 DEF Request
        <4>5. p.status = "held" => task[t].status \notin Terminal
          BY <4>3 DEF Request
        <4> QED
          BY <1>0, <2>5, <3>1, <4>1, <4>2, <4>3, <4>4, <4>5 DEF ExecutionInv
      <3>2. CASE u # t
        <4>1. b = task[u]
          BY <2>4, <3>2 DEF Base
        <4> QED
          BY <1>0, <1>5, <2>2, <2>5, <4>1 DEF ExecutionInv
      <3> QED
        BY <3>1, <3>2
    <2> HIDE DEF b
    <2>7. /\ task'[u].status = b.status /\ ts[u].status = b.status
          /\ b.status = "claimed" => task'[u].worker = ts[u].worker
      BY <1>5, <2>1, <2>2, <2>6 DEF Follows, Rows, Statuses, Waiting, Idling
    <2>8. CASE b.status = "held"
      <3>1. ~NewExecution(ts, u)
        BY <2>7, <2>8 DEF NewExecution
      <3> QED
        BY <1>0, <1>1, <1>2, <2>0, <2>2, <2>6, <2>7, <2>8, <3>1, RecordedRow
    <2>9. CASE b.status = "claimed"
      <3>1. ts[u].status = "claimed" /\ task'[u].status = "claimed" /\ task'[u].worker = ts[u].worker
        BY <2>7, <2>9
      <3>2. NewExecution(ts, u) \/ (execution[u].worker = ts[u].worker /\ execution[u].run = ts[u].run)
        BY <1>5, <2>2, <3>1 DEF NewExecution
      <3> QED
        BY <1>0, <1>1, <1>2, <2>0, <2>2, <3>1, <3>2, RecordedRow
    <2> QED
      BY <2>6, <2>8, <2>9
  <1> QED
    BY <1>3, <1>4, <1>5 DEF ExecutionInv

LEMMA TransactLineage ==
    ASSUME Before, NEW t, NEW p, NEW successor, Request(t, p, successor),
           \A u \in Tasks : Follows(Base(t, p, successor, u), task'[u])
    PROVE  LineageInv'
  <1>0. Admitted(task) /\ LineageInv
    BY DEF Before
  <1>1. ASSUME NEW u \in Graph, task[u].status \in Failure
        PROVE  task'[u].status \in Failure
    BY <1>0, <1>1, TerminalStays, SuccessorsApart DEF Failure
  <1>2. ASSUME NEW s \in Lineage(task')
        PROVE  task'[Root[s]].status \in Failure
    <2>0. s \in Successors /\ Root[s] \in Graph
      BY SuccessorsApart DEF Lineage
    <2>1. CASE s \in Lineage(task)
      BY <1>0, <1>1, <2>0, <2>1 DEF LineageInv
    <2>2. CASE s \notin Lineage(task)
      <3>1. s = successor
        BY <1>0, <1>2, <2>2, LineageGrows
      <3>2. /\ t \in Tasks /\ p \in Rows
            /\ task[t].status = "claimed" /\ p.status = "failed" /\ s = Following[t]
        BY <2>0, <3>1, SuccessorsApart DEF Request
      <3>3. \/ t \in Members /\ Root[s] = t
            \/ t \in Successors /\ Root[s] = Root[t]
        BY <2>0, <3>2, SuccessorsApart, GraphConstants
      <3>4. CASE t \in Members /\ Root[s] = t
        <4>1. Base(t, p, successor, t) = p
          BY <1>0, <3>2, StoredRowType DEF Base
        <4>2. task'[t] = p
          BY <3>2, <4>1 DEF Follows, Terminal
        <4> QED
          BY <3>2, <3>4, <4>2 DEF Failure, Terminal
      <3>5. CASE t \in Successors /\ Root[s] = Root[t]
        <4>1. t \in Lineage(task)
          BY <3>2, <3>5 DEF Lineage
        <4> QED
          BY <1>0, <1>1, <2>0, <3>5, <4>1 DEF LineageInv
      <3> QED
        BY <3>3, <3>4, <3>5
    <2> QED
      BY <2>1, <2>2
  <1> QED
    BY <1>2 DEF LineageInv, Lineage

(* The barrier comes down only when nothing of a loser is left, and then   *)
(* nothing of a loser is started again.                                    *)
LEMMA DrainQuiet ==
    ASSUME Before, NEW t, NEW p, NEW successor, NEW ack, NEW resolve, effect' = effect,
           NEW ts, NEW decided, Request(t, p, successor),
           PlanStep(t, p, successor, ack, resolve, ts, decided),
           Kind = "quiescence", decided[1] # "pending",
           NEW direct, NEW t1, NEW unsettled, NEW barrier, NEW finalizer,
           DrainStep(ts, execution', decided, resolve, direct, t1, unsettled, barrier, finalizer)
    PROVE  QuietInv'
  <1>0. TypeOK /\ GroupInv /\ Admitted(task) /\ GraphConsistent /\ QuietInv
    BY DEF Before
  <1>1. Admitted(ts) /\ Settled(ts) /\ \A u \in Tasks : Follows(Base(t, p, successor, u), ts[u])
    BY <1>0, PlanRows
  <1>2. \A u \in Tasks : Follows(t1[u], task'[u]) /\ Follows(ts[u], task'[u])
    BY <1>0, <1>1, DrainRows
  <1>3. group'.barrier = barrier /\ group'.losers = LosersOf(decided)
    BY DEF DrainStep
  <1>4. LosersOf(decided) \in SUBSET Members
    BY <1>0, LosersAreMembers
  <1>5. SUFFICES ASSUME barrier = "quiescent", NEW v \in LosingWork(task', LosersOf(decided))
                 PROVE  task'[v].status \in Terminal /\ execution'[v].settled /\ ~HasEffect(v)
    BY <1>3 DEF QuietInv, LosingWork, Lineage, HasEffect
  <1>6. v \in Tasks /\ (v \in LosersOf(decided) \/ (v \in Lineage(task') /\ Root[v] \in LosersOf(decided)))
    BY <1>4, <1>5, SuccessorsApart DEF LosingWork, Lineage
  <1>7. CASE group.barrier # "quiescent"
    <2>1. unsettled = {} /\ unsettled = Unsettled(t1, execution', LosersOf(decided))
      BY <1>5, <1>7 DEF DrainStep, Barrier
    <2>2. Lineage(task') = Lineage(t1)
      BY <1>2, TrackedFollows
    <2>3. PICK m \in LosersOf(decided) : v \in LosingWork(t1, {m})
      BY <1>6, <2>2 DEF LosingWork
    <2>4. t1[v].status \in Terminal /\ execution'[v].settled /\ ~HasEffect(v)
      BY <2>1, <2>3 DEF Unsettled
    <2>5. task'[v] = t1[v]
      BY <1>2, <1>6, <2>4 DEF Follows
    <2> QED
      BY <2>4, <2>5
  <1>8. CASE group.barrier = "quiescent"
    <2>1. LosersOf(decided) = group.losers
      BY <1>8 DEF LosersOf
    <2>2. \A u \in LosingWork(task, group.losers) :
             task[u].status \in Terminal /\ execution[u].settled /\ ~HasEffect(u)
      BY <1>0, <1>8 DEF QuietInv
    <2>3. \A u \in Tasks : Follows(Base(t, p, successor, u), task'[u])
      BY <1>1, <1>2, FollowsOn
    <2>4. v \in LosingWork(task, group.losers)
      <3>1. CASE v \in group.losers
        BY <3>1 DEF LosingWork
      <3>2. CASE v \in Lineage(task) /\ Root[v] \in group.losers
        BY <3>2 DEF LosingWork
      <3>3. CASE v \notin group.losers /\ v \notin Lineage(task)
        <4>1. v \in Lineage(task') /\ Root[v] \in group.losers /\ v \in Successors
          BY <1>6, <2>1, <3>3 DEF Lineage
        <4>2. v = successor
          BY <1>0, <2>3, <3>3, <4>1, LineageGrows
        <4>3. t \in Tasks /\ task[t].status = "claimed" /\ v = Following[t]
          BY <4>1, <4>2, SuccessorsApart DEF Request
        <4>4. \/ t \in Members /\ Root[v] = t
              \/ t \in Successors /\ Root[v] = Root[t]
          BY <4>1, <4>3, SuccessorsApart, GraphConstants
        <4>5. t \in LosingWork(task, group.losers)
          BY <4>1, <4>3, <4>4 DEF LosingWork, Lineage
        <4> QED
          BY <2>2, <4>3, <4>5 DEF Terminal
      <3> QED
        BY <1>6, <2>1, <3>1, <3>2, <3>3
    <2>5. task[v].status \in Terminal /\ execution[v].settled /\ ~HasEffect(v)
      BY <2>2, <2>4
    <2>6. task'[v] = task[v] /\ ts[v] = task[v]
      BY <1>0, <1>1, <1>6, <2>3, <2>5, TerminalStays
    <2>7. ~NewExecution(ts, v)
      BY <2>5, <2>6 DEF NewExecution, Terminal
    <2>8. execution'[v].settled
      <3>1. execution' = Recorded(ts, ack)
        BY DEF PlanStep
      <3>2. ack = v => ack # None
        BY <1>6, SuccessorsApart
      <3> QED
        BY <1>0, <1>1, <1>6, <2>5, <2>7, <3>1, <3>2, RecordedRow
    <2> QED
      BY <2>5, <2>6, <2>8
  <1> QED
    BY <1>7, <1>8

(* What a transaction leaves behind of rows, events, records and group. *)
Stored ==
    /\ task' \in [Tasks -> Rows] /\ ready' \in [Graph -> 0..2]
    /\ execution' \in [Tasks -> Executions] /\ group' \in Groups
    /\ Admitted(task)' /\ GraphConsistent' /\ GroupInv' /\ FinalizerInv' /\ ReadyInv'
    /\ DecisionSound' /\ ExecutionInv' /\ LineageInv' /\ QuietInv'

LEMMA AdmittedNext == Admitted(task') => Admitted(task)'
  BY DEF Admitted

LEMMA TransactStored ==
    ASSUME Before, NEW t, NEW p, NEW successor, NEW ack, NEW resolve, effect' = effect,
           Request(t, p, successor), Transact(t, p, successor, ack, resolve)
    PROVE  Stored
  <1>0. TypeOK /\ GroupInv /\ Admitted(task) /\ GraphConsistent
    BY DEF Before
  <1>1. PICK ts, decided :
              /\ PlanStep(t, p, successor, ack, resolve, ts, decided)
              /\ \/ QuietStep(ts, decided, resolve)
                 \/ /\ Kind = "quiescence" /\ decided[1] # "pending"
                    /\ \E direct, t1, unsettled, barrier, finalizer :
                          DrainStep(ts, execution', decided, resolve, direct, t1, unsettled,
                                    barrier, finalizer)
    BY TransactParts
  <1>2. /\ Admitted(ts) /\ Settled(ts)
        /\ \A u \in Tasks : Follows(Base(t, p, successor, u), ts[u])
    BY <1>0, <1>1, PlanRows
  <1>3. /\ Admitted(task') /\ Settled(task')
        /\ \A u \in Tasks : Follows(Base(t, p, successor, u), task'[u])
    BY <1>0, TransactRows
  <1>4. task' \in [Tasks -> Rows] /\ Admitted(task)' /\ GraphConsistent'
    BY <1>3, AdmittedNext, SettledIsConsistent DEF Admitted
  <1>5. LineageInv'
    BY <1>3, TransactLineage
  <1>6. Kind # "none" => Sound(ts, decided[1], decided[2])
    BY <1>1, PlanSound
  <1>7. decided = Decided(ts)
    BY <1>1 DEF PlanStep
  <1>8. CASE QuietStep(ts, decided, resolve)
    <2>1. task' = ts
      BY <1>8 DEF QuietStep
    <2>2. \A u \in Tasks : Follows(ts[u], task'[u])
      BY <1>2, <2>1, FollowsItself DEF Admitted
    <2>3. execution' \in [Tasks -> Executions] /\ ExecutionInv'
      BY <1>1, <2>2, TransactExecution
    <2>4. group' \in Groups /\ GroupInv'
      BY <1>0, <1>7, <1>8, QuietGroup
    <2>5. FinalizerInv' /\ ready' \in [Graph -> 0..2] /\ ReadyInv'
      BY <1>1, <1>8, QuietFinalizer, QuietReady
    <2>6. group'.decision = decided[1] /\ group'.winners = decided[2]
      BY <1>0, <1>8 DEF QuietStep, TypeOK, Groups
    <2>7. DecisionSound'
      BY <1>6, <2>1, <2>6, SoundIsDecisionSound
    <2>8. group'.barrier # "quiescent"
      BY <1>8, <2>4, <2>6 DEF GroupInv, QuietStep
    <2>9. QuietInv'
      BY <2>8 DEF QuietInv
    <2> QED
      BY <1>4, <1>5, <2>3, <2>4, <2>5, <2>7, <2>9 DEF Stored
  <1>9. CASE /\ Kind = "quiescence" /\ decided[1] # "pending"
             /\ \E direct, t1, unsettled, barrier, finalizer :
                   DrainStep(ts, execution', decided, resolve, direct, t1, unsettled,
                             barrier, finalizer)
    <2>1. PICK direct, t1, unsettled, barrier, finalizer :
             DrainStep(ts, execution', decided, resolve, direct, t1, unsettled, barrier, finalizer)
      BY <1>9
    <2>2. \A u \in Tasks : Follows(ts[u], task'[u])
      BY <1>0, <1>2, <2>1, DrainRows
    <2>3. execution' \in [Tasks -> Executions] /\ ExecutionInv'
      BY <1>1, <2>2, TransactExecution
    <2>4. group' \in Groups /\ GroupInv'
      BY <1>0, <1>7, <1>9, <2>1, DrainGroup
    <2>5. FinalizerInv'
      BY <1>1, <1>9, <2>1, DrainFinalizer
    <2>6. ready' \in [Graph -> 0..2] /\ ReadyInv'
      BY <1>1, <1>9, <2>1, DrainReady
    <2>7. group'.decision = decided[1] /\ group'.winners = decided[2]
      BY <2>1 DEF DrainStep
    <2>8. \A m \in Members : ts[m].status \in Terminal => task'[m] = ts[m]
      BY <2>2, SuccessorsApart DEF Follows
    <2>9. DecisionSound'
      BY <1>6, <1>9, <2>7, <2>8, SoundStays, SoundIsDecisionSound
    <2>10. QuietInv'
      BY <1>1, <1>9, <2>1, DrainQuiet
    <2> QED
      BY <1>4, <1>5, <2>3, <2>4, <2>5, <2>6, <2>9, <2>10 DEF Stored
  <1> QED
    BY <1>1, <1>8, <1>9

-----------------------------------------------------------------------------
(* The workers. *)

(* The worker goes on with the task and the run it had, or is done. *)
Continues(w) ==
    \/ proc'[w] = Idle
    \/ /\ proc[w] # Idle
       /\ proc'[w].task = proc[w].task /\ proc'[w].run = proc[w].run
       /\ \/ proc'[w].at = proc[w].at
          \/ proc[w].at = "running" /\ proc'[w].at \in {"returned", "lost"}
          \/ proc[w].at = "returned" /\ proc'[w].at = "acknowledged"

(* A worker whose rows and records did not change. *)
LEMMA StillWorker ==
    ASSUME TypeOK, NEW w \in Workers, WorkerInv(w), Continues(w),
           \A u \in Tasks : /\ task'[u].status = task[u].status
                            /\ task'[u].worker = task[u].worker /\ task'[u].run = task[u].run,
           execution' = execution
    PROVE  WorkerInv(w)'
  <1>1. CASE proc'[w] = Idle
    BY <1>1 DEF WorkerInv
  <1>2. CASE proc'[w] # Idle
    <2> DEFINE u == proc[w].task
    <2>1. proc[w] # Idle /\ proc'[w].task = u /\ proc'[w].run = proc[w].run /\ u \in Tasks
      BY <1>2 DEF Continues, TypeOK, Procs
    <2>2. Tracked(task)' = Tracked(task)
      BY SuccessorsApart DEF Tracked, Lineage
    <2>3. CanAcknowledge(w)' <=> CanAcknowledge(w)
      BY <2>1 DEF CanAcknowledge, OnRecord
    <2>4. /\ task[u].status # "absent"
          /\ u \in Tracked(task) =>
             /\ proc[w].at = "claimed" /\ task[u].status = "claimed" /\ task[u].worker = w =>
                  task[u].run = 0
             /\ proc[w].at \in {"running", "lost"} => ~execution[u].settled
             /\ proc[w].at \in {"returned"} =>
                  ~execution[u].settled \/ task[u].status \in Terminal
             /\ proc[w].at \in {"running", "lost", "returned"} => CanAcknowledge(w)
      BY <2>1 DEF WorkerInv
    <2>5. \/ proc'[w].at = proc[w].at
          \/ proc[w].at = "running" /\ proc'[w].at \in {"returned", "lost"}
          \/ proc[w].at = "returned" /\ proc'[w].at = "acknowledged"
      BY <1>2 DEF Continues
    <2> HIDE DEF u
    <2>6. /\ task'[u].status # "absent"
          /\ u \in Tracked(task)' =>
             /\ proc'[w].at = "claimed" /\ task'[u].status = "claimed" /\ task'[u].worker = w =>
                  task'[u].run = 0
             /\ proc'[w].at \in {"running", "lost"} => ~execution'[u].settled
             /\ proc'[w].at \in {"returned"} =>
                  ~execution'[u].settled \/ task'[u].status \in Terminal
             /\ proc'[w].at \in {"running", "lost", "returned"} => CanAcknowledge(w)'
      BY <2>1, <2>2, <2>3, <2>4, <2>5
    <2> QED
      BY <2>1, <2>6 DEF WorkerInv
  <1> QED
    BY <1>1, <1>2

(* A worker while a transaction changes rows: no claim of its own is       *)
(* marked as started by another, and nobody else settles its execution     *)
(* while it may be running.                                                *)
LEMMA OtherWorker ==
    ASSUME Before, NEW w \in Workers, WorkerInv(w), Continues(w),
           NEW t, NEW p, NEW successor, NEW ack, NEW resolve,
           Request(t, p, successor), Transact(t, p, successor, ack, resolve),
           proc'[w] # Idle /\ proc'[w].at = "claimed" /\ p.status = "claimed" /\ p.worker = w /\ proc'[w].task = t =>
              task[t].status = "claimed" /\ task[t].worker = w /\ p.run = task[t].run,
           ack = proc'[w].task /\ ack \in Tracked(task) =>
              \/ proc'[w].at \notin {"running", "lost", "returned"}
              \/ proc'[w].at \notin {"running", "lost"} /\ t = ack /\ p.status \in Terminal
    PROVE  WorkerInv(w)'
  <1>0. TypeOK /\ Admitted(task) /\ GraphConsistent /\ ExecutionInv
    BY DEF Before
  <1>1. CASE proc'[w] = Idle
    BY <1>1 DEF WorkerInv
  <1>2. CASE proc'[w] # Idle
    <2> DEFINE u == proc[w].task
    <2>1. proc[w] # Idle /\ proc'[w].task = u /\ proc'[w].run = proc[w].run /\ u \in Tasks
      BY <1>0, <1>2 DEF Continues, TypeOK, Procs
    <2>2. \/ proc'[w].at = proc[w].at
          \/ proc[w].at = "running" /\ proc'[w].at \in {"returned", "lost"}
          \/ proc[w].at = "returned" /\ proc'[w].at = "acknowledged"
      BY <1>2 DEF Continues
    <2>3. /\ task[u].status # "absent"
          /\ u \in Tracked(task) =>
             /\ proc[w].at = "claimed" /\ task[u].status = "claimed" /\ task[u].worker = w =>
                  task[u].run = 0
             /\ proc[w].at \in {"running", "lost"} => ~execution[u].settled
             /\ proc[w].at \in {"returned"} =>
                  ~execution[u].settled \/ task[u].status \in Terminal
             /\ proc[w].at \in {"running", "lost", "returned"} => CanAcknowledge(w)
      BY <2>1 DEF WorkerInv
    <2> HIDE DEF u
    <2>4. PICK ts, decided : PlanStep(t, p, successor, ack, resolve, ts, decided)
      BY TransactParts
    <2>5. Admitted(ts) /\ \A v \in Tasks : Follows(Base(t, p, successor, v), ts[v])
      BY <1>0, <2>4, PlanRows
    <2>6. \A v \in Tasks : Follows(Base(t, p, successor, v), task'[v])
      BY <1>0, TransactRows
    <2> DEFINE b == Base(t, p, successor, u)
    <2>7. /\ b \in Rows
          /\ task[u].status \in Terminal => b = task[u]
          /\ b.status = "absent" => task[u].status = "absent"
      BY <1>0, <2>1, BaseRow
    <2>8. Follows(b, task'[u]) /\ Follows(b, ts[u])
      BY <2>1, <2>5, <2>6
    <2>9. task'[u].status # "absent"
      BY <2>3, <2>7, <2>8 DEF Follows
    <2>10. u # successor
      BY <2>1, <2>3, SuccessorsApart DEF Request
    <2>11. ASSUME u \in Tracked(task)'
           PROVE  u \in Tracked(task)
      <3>1. u \in Tracked(task')
        BY <2>11 DEF Tracked, Lineage
      <3> QED
        BY <1>0, <2>6, <2>10, <3>1, LineageGrows
    <2>12. ASSUME u \in Tracked(task), proc'[w].at = "claimed",
                  task'[u].status = "claimed", task'[u].worker = w
           PROVE  task'[u].run = 0
      <3>1. b.status = "claimed" /\ b.worker = w /\ task'[u].run = b.run
        BY <2>8, <2>12 DEF Follows
      <3>2. proc[w].at = "claimed"
        BY <2>2, <2>12
      <3>3. CASE u = t
        <4>1. b = StoredRow(t, p) /\ p \in Rows /\ p.status # "absent"
          BY <3>3 DEF Base, Request
        <4>2. b = p
          BY <1>0, <2>1, <3>1, <3>3, <4>1, StoredRowType DEF Idling
        <4> QED
          BY <1>2, <2>1, <2>3, <2>12, <3>1, <3>2, <3>3, <4>2
      <3>4. CASE u # t
        <4>1. b = task[u]
          BY <2>10, <3>4 DEF Base
        <4> QED
          BY <2>3, <2>12, <3>1, <3>2, <4>1
      <3> QED
        BY <3>3, <3>4
    <2>13. ASSUME u \in Tracked(task),
                  proc'[w].at \in {"running", "lost", "returned"}
           PROVE  /\ proc'[w].at \in {"running", "lost"} => ~execution'[u].settled
                  /\ proc'[w].at \in {"returned"} =>
                       ~execution'[u].settled \/ task'[u].status \in Terminal
                  /\ CanAcknowledge(w)'
      <3>1. /\ proc[w].at \in {"running", "lost", "returned"}
            /\ proc'[w].at \in {"running", "lost"} => proc[w].at \in {"running", "lost"}
        BY <2>2, <2>13
      <3>2. /\ ~execution[u].settled \/ task[u].status \in Terminal
            /\ proc'[w].at \in {"running", "lost"} => ~execution[u].settled
            /\ CanAcknowledge(w)
        BY <2>3, <2>13, <3>1
      <3>3. ~NewExecution(ts, u)
        <4>1. CASE ~execution[u].settled
          BY <2>1, <2>4, <4>1 DEF PlanStep, CanRecord
        <4>2. CASE task[u].status \in Terminal
          <5>1. ts[u] = task[u]
            BY <2>7, <2>8, <4>2 DEF Follows
          <5> QED
            BY <4>2, <5>1 DEF NewExecution, Terminal
        <4> QED
          BY <3>2, <4>1, <4>2
      <3>4. execution' = Recorded(ts, ack)
        BY <2>4 DEF PlanStep
      <3>5. /\ execution'[u].run = execution[u].run /\ execution'[u].worker = execution[u].worker
            /\ ack # u => (execution'[u].settled <=> execution[u].settled)
        BY <1>0, <2>1, <2>5, <3>3, <3>4, RecordedRow
      <3>6. CanAcknowledge(w)'
        BY <2>1, <3>2, <3>5 DEF CanAcknowledge, OnRecord, u
      <3>7. task[u].status \in Terminal => task'[u].status \in Terminal
        BY <2>7, <2>8 DEF Follows
      <3>8. CASE ack # u
        BY <3>2, <3>5, <3>6, <3>7, <3>8
      <3>9. CASE ack = u
        <4>1. proc'[w].at \notin {"running", "lost"} /\ t = u /\ p.status \in Terminal
          BY <2>1, <2>13, <3>9
        <4>2. b = StoredRow(t, p) /\ p \in Rows /\ p.status # "absent"
          BY <4>1 DEF Base, Request
        <4>3. b = p
          BY <1>0, <2>1, <4>1, <4>2, StoredRowType DEF Terminal
        <4>4. task'[u].status \in Terminal
          BY <2>8, <4>1, <4>3 DEF Follows
        <4> QED
          BY <3>6, <4>1, <4>4
      <3> QED
        BY <3>8, <3>9
    <2> HIDE DEF b
    <2>14. /\ task'[u].status # "absent"
           /\ u \in Tracked(task)' =>
              /\ proc'[w].at = "claimed" /\ task'[u].status = "claimed" /\ task'[u].worker = w =>
                   task'[u].run = 0
              /\ proc'[w].at \in {"running", "lost"} => ~execution'[u].settled
              /\ proc'[w].at \in {"returned"} =>
                   ~execution'[u].settled \/ task'[u].status \in Terminal
              /\ proc'[w].at \in {"running", "lost", "returned"} => CanAcknowledge(w)'
      BY <2>9, <2>11, <2>12, <2>13
    <2> QED
      BY <2>1, <2>14 DEF WorkerInv
  <1> QED
    BY <1>1, <1>2

-----------------------------------------------------------------------------
(* The acknowledgements that are owed. *)

(* A new execution is that of a claim the transaction was asked to start. *)
LEMMA StartsItself ==
    ASSUME Before, NEW t, NEW p, NEW successor, NEW ack, NEW resolve, NEW ts, NEW decided,
           Request(t, p, successor), PlanStep(t, p, successor, ack, resolve, ts, decided),
           NEW u \in Tracked(task), NewExecution(ts, u)
    PROVE  /\ u = t /\ p.status = "claimed" /\ p.run # 0 /\ ts[u].run = p.run
           /\ ~(task[t].status = "claimed" /\ p.worker = task[t].worker /\ p.run = task[t].run)
  <1> DEFINE b == Base(t, p, successor, u)
  <1>0. TypeOK /\ Admitted(task) /\ GraphConsistent /\ ExecutionInv
    BY DEF Before
  <1>1. u \in Tasks /\ task[u].status # "absent"
    BY <1>0, SuccessorsApart DEF Tracked, Lineage, Admitted
  <1>2. Follows(b, ts[u])
    BY <1>0, <1>1, PlanRows
  <1>3. /\ ts[u].status = "claimed" /\ ts[u].run # 0
        /\ execution[u].worker # ts[u].worker \/ execution[u].run # ts[u].run
    BY DEF NewExecution
  <1>4. b.status = "claimed" /\ ts[u].worker = b.worker /\ ts[u].run = b.run
    BY <1>2, <1>3 DEF Follows
  <1>5. task[u].status = "claimed" /\ task[u].run # 0 =>
           execution[u].run = task[u].run /\ execution[u].worker = task[u].worker
    BY <1>0 DEF ExecutionInv, Terminal
  <1>6. u # successor
    BY <1>1, SuccessorsApart DEF Request
  <1>7. u = t
    <2>1. u # t => b = task[u]
      BY <1>6 DEF Base
    <2> QED
      BY <1>3, <1>4, <1>5, <2>1
  <1>8. b = StoredRow(t, p) /\ p \in Rows /\ p.status # "absent"
    BY <1>7 DEF Base, Request
  <1>9. b = p
    BY <1>0, <1>1, <1>4, <1>7, <1>8, StoredRowType DEF Idling
  <1> QED
    BY <1>3, <1>4, <1>5, <1>7, <1>9

(* A debt while a transaction changes rows: a task that is started gets a  *)
(* later marker, and an execution whose acknowledgement was not committed  *)
(* is settled by others only as its task is closed.                        *)
LEMMA DebtStays ==
    ASSUME Before, NEW o \in Debts, NEW t, NEW p, NEW successor, NEW ack, NEW resolve,
           Due(o, ack), Request(t, p, successor), Transact(t, p, successor, ack, resolve),
           ack = o.task => o.committed \/ (t = ack /\ p.status \in Terminal),
           p.status = "claimed" /\ t = o.task =>
              \/ p.run = 0 \/ p.run > execution[t].run
              \/ task[t].status = "claimed" /\ p.worker = task[t].worker /\ p.run = task[t].run
    PROVE  Due(o, None)'
  <1> DEFINE u == o.task
             x == execution[u]
             y == execution'[u]
  <1>0. TypeOK /\ Admitted(task) /\ GraphConsistent /\ ExecutionInv
    BY DEF Before
  <1>1. u \in Tasks /\ o.run \in Nat /\ u \in Tracked(task) /\ u # None
    BY SuccessorsApart DEF Debts, Due
  <1>2. PICK ts, decided : PlanStep(t, p, successor, ack, resolve, ts, decided)
    BY TransactParts
  <1>3. Admitted(ts) /\ \A v \in Tasks : Follows(Base(t, p, successor, v), ts[v])
    BY <1>0, <1>2, PlanRows
  <1>4. \A v \in Tasks : Follows(Base(t, p, successor, v), task'[v])
    BY <1>0, TransactRows
  <1>5. u \in Tracked(task)'
    <2>1. u \in Tracked(task')
      BY <1>0, <1>1, <1>4, LineageGrows
    <2> QED
      BY <2>1 DEF Tracked, Lineage
  <1>6. /\ task[u].status \in Terminal => Base(t, p, successor, u) = task[u]
        /\ Base(t, p, successor, u) \in Rows
    BY <1>0, <1>1, BaseRow
  <1>7. task[u].status \in Terminal => task'[u] = task[u] /\ ts[u] = task[u]
    BY <1>1, <1>3, <1>4, <1>6 DEF Follows
  <1>8. y = Recorded(ts, ack)[u]
    BY <1>2 DEF PlanStep
  <1>9. /\ x \in Executions /\ y \in Executions
        /\ NewExecution(ts, u) => y.run = ts[u].run /\ y.worker = ts[u].worker
        /\ ~NewExecution(ts, u) => y.run = x.run /\ y.worker = x.worker
        /\ ack # u => (y.settled <=> ~NewExecution(ts, u) /\ x.settled)
        /\ ack = u => y.settled
    BY <1>0, <1>1, <1>3, <1>8, RecordedRow DEF TypeOK
  <1>10. x.run \in Nat /\ y.run \in Nat
    BY <1>9 DEF Executions
  <1>11. NewExecution(ts, u) => y.run > x.run /\ x.settled
    <2> SUFFICES ASSUME NewExecution(ts, u) PROVE y.run > x.run /\ x.settled
      OBVIOUS
    <2>1. x.settled
      BY <1>1, <1>2 DEF PlanStep, CanRecord
    <2>2. /\ u = t /\ p.status = "claimed" /\ p.run # 0 /\ ts[u].run = p.run
          /\ ~(task[t].status = "claimed" /\ p.worker = task[t].worker /\ p.run = task[t].run)
      BY <1>1, <1>2, StartsItself
    <2> QED
      BY <1>9, <2>1, <2>2
  <1>12. /\ o.run <= x.run
         /\ o.committed /\ o.run = x.run => x.settled \/ ack = u
         /\ ~o.committed => /\ x.worker = o.worker /\ x.run = o.run
                            /\ ~x.settled \/ task[u].status \in Terminal
    BY DEF Due, OnRecord
  <1>13. ~o.committed => ~NewExecution(ts, u)
    <2> SUFFICES ASSUME ~o.committed, NewExecution(ts, u) PROVE FALSE
      OBVIOUS
    <2>1. task[u].status \in Terminal
      BY <1>11, <1>12
    <2> QED
      BY <1>7, <2>1 DEF NewExecution, Terminal
  <1>14. ~o.committed /\ ack = u => task'[u].status \in Terminal
    <2> SUFFICES ASSUME ~o.committed, ack = u PROVE task'[u].status \in Terminal
      OBVIOUS
    <2>1. t = u /\ p.status \in Terminal
      OBVIOUS
    <2>2. Base(t, p, successor, u) = StoredRow(t, p) /\ p \in Rows /\ p.status # "absent"
      BY <2>1 DEF Base, Request
    <2>3. StoredRow(t, p) = p
      BY <1>0, <1>1, <2>1, <2>2, StoredRowType DEF Terminal
    <2> QED
      BY <1>1, <1>4, <2>1, <2>2, <2>3 DEF Follows
  <1> HIDE DEF u, x, y
  <1>15. /\ o.run <= y.run
         /\ o.committed /\ o.run = y.run => y.settled
         /\ ~o.committed => /\ y.worker = o.worker /\ y.run = o.run
                            /\ ~y.settled \/ task'[u].status \in Terminal
    <2>1. CASE NewExecution(ts, u)
      BY <1>1, <1>10, <1>11, <1>12, <1>13, <2>1
    <2>2. CASE ~NewExecution(ts, u)
      BY <1>7, <1>9, <1>12, <1>14, <2>2
    <2> QED
      BY <2>1, <2>2
  <1> QED
    BY <1>5, <1>15 DEF Due, OnRecord, u, y

(* The debts a step leaves, if it settles the execution of task ack. *)
Debited(ack) == owed' \in SUBSET Debts /\ Apart' /\ \A o \in owed' : Due(o, ack)

LEMMA OwingDebt ==
    ASSUME NEW w \in Workers, NEW t \in Tasks, NEW run \in 0..MaxRuns,
           NEW entry \in BOOLEAN, NEW committed \in BOOLEAN,
           NEW o \in Owing(w, t, run, entry, committed)
    PROVE  /\ o \in Debts /\ t \in Tracked(task)
           /\ o.worker = w /\ o.task = t /\ o.run = run /\ o.committed = committed
           /\ \A e \in Owing(w, t, run, entry, committed) : e = o
  <1> DEFINE n == [worker |-> w, task |-> t, run |-> run, entry |-> entry, committed |-> committed]
  <1>1. o = n /\ t \in Tracked(task) /\ \A e \in Owing(w, t, run, entry, committed) : e = n
    BY DEF Owing
  <1>2. n \in Debts
    BY Zenon DEF Debts
  <1>3. n.worker = w /\ n.task = t /\ n.run = run /\ n.committed = committed
    OBVIOUS
  <1> HIDE DEF n
  <1> QED
    BY <1>1, <1>2, <1>3

(* Debts are paid or forgotten, and workers go on with what they execute. *)
LEMMA FewerDebts ==
    ASSUME TypeOK, DebtsInv, Apart, owed' \subseteq owed,
           \A w \in Workers : Continues(w) \/ proc'[w].at \notin {"running", "lost", "returned"}
    PROVE  Debited(None)
  <1>1. owed' \in SUBSET Debts /\ \A o \in owed' : Due(o, None)
    BY DEF TypeOK, DebtsInv
  <1>2. ASSUME NEW w \in Workers, proc'[w].at \in {"running", "lost", "returned"}
        PROVE  /\ proc[w].at \in {"running", "lost", "returned"}
               /\ proc'[w].task = proc[w].task /\ proc'[w].run = proc[w].run
    BY <1>2 DEF Continues, Idle
  <1>3. Apart'
    BY <1>2 DEF Apart
  <1> QED
    BY <1>1, <1>3 DEF Debited

-----------------------------------------------------------------------------
(* The steps. *)

(* What the steps do besides a transaction. *)
Bookkeeping ==
    /\ deadline' \in BOOLEAN /\ effect' \in SUBSET Members
    /\ proc' \in [Workers -> Procs \cup {Idle}] /\ faults' \in 0..MaxFaults

LEMMA StoredStep ==
    ASSUME GraphInv, NEW t, NEW p, NEW successor, NEW ack, NEW resolve,
           Request(t, p, successor), Transact(t, p, successor, ack, resolve),
           effect' = effect, Bookkeeping, WorkersInv', Debited(ack),
           \A o \in owed' : ack = o.task => o.committed \/ (t = ack /\ p.status \in Terminal),
           p.status = "claimed" /\ t \in Tracked(task) =>
              \/ p.run = 0 \/ p.run > execution[t].run
              \/ task[t].status = "claimed" /\ p.worker = task[t].worker /\ p.run = task[t].run
    PROVE  GraphInv'
  <1>1. Before
    BY DEF GraphInv, Before
  <1>2. Stored
    BY <1>1, TransactStored
  <1>3. TypeOK'
    BY <1>2 DEF Stored, Bookkeeping, Debited, TypeOK
  <1>4. DebtsInv'
    <2> SUFFICES ASSUME NEW o \in owed' PROVE Due(o, None)'
      BY DEF DebtsInv
    <2>1. o \in Debts /\ Due(o, ack) /\ o.task \in Tracked(task)
      BY DEF Debited, Due
    <2> QED
      BY <1>1, <2>1, DebtStays
  <1> QED
    BY <1>2, <1>3, <1>4 DEF Stored, Debited, GraphInv

(* Steps that leave rows, events, records and group alone. *)
LEMMA UnstoredStep ==
    ASSUME GraphInv, UNCHANGED <<task, ready, execution, group>>, effect' \subseteq effect,
           Bookkeeping, \A w \in Workers : Continues(w), Debited(None)
    PROVE  GraphInv'
  <1>0. TypeOK /\ WorkersInv
    BY DEF GraphInv
  <1>1. TypeOK'
    BY <1>0 DEF TypeOK, Bookkeeping, Debited
  <1>2. WorkersInv'
    BY <1>0, StillWorker DEF WorkersInv
  <1>3. QuietInv'
    BY DEF GraphInv, QuietInv, LosingWork, Lineage, HasEffect
  <1>4. Admitted(task)' /\ GraphConsistent' /\ GroupInv' /\ FinalizerInv' /\ ReadyInv'
    BY DEF GraphInv, Admitted, GraphConsistent, GroupInv, FinalizerInv, ReadyInv, PrereqsCompleted
  <1>5. DecisionSound' /\ ExecutionInv' /\ LineageInv'
    BY DEF GraphInv, DecisionSound, ExecutionInv, LineageInv, Tracked, Lineage
  <1>6. DebtsInv'
    BY DEF Debited, DebtsInv, Due, OnRecord, Tracked, Lineage
  <1> QED
    BY <1>1, <1>2, <1>3, <1>4, <1>5, <1>6 DEF GraphInv, Debited

LEMMA Unmoved ==
    ASSUME TypeOK, NEW w \in Workers, proc'[w] = proc[w]
    PROVE  Continues(w)
  BY DEF Continues

LEMMA GoesOn ==
    ASSUME TypeOK, NEW w \in Workers, proc[w].at # "idle", NEW at, Goes(w, at),
           at \in {"idle", "lost", "returned", "acknowledged"}
    PROVE  /\ proc[w] \in Procs /\ proc[w] # Idle
           /\ proc' \in [Workers -> Procs \cup {Idle}]
           /\ \A v \in Workers : v # w => proc'[v] = proc[v]
           /\ at = "idle" => proc'[w] = Idle
           /\ at # "idle" => /\ proc'[w].at = at /\ proc'[w].task = proc[w].task
                             /\ proc'[w].run = proc[w].run
  <1>1. proc[w] \in Procs /\ proc[w] # Idle
    BY DEF TypeOK, Idle
  <1>2. CASE at = "idle"
    <2>1. proc' = [proc EXCEPT ![w] = Idle]
      BY <1>2 DEF Goes
    <2> QED
      BY <1>1, <1>2, <2>1 DEF TypeOK
  <1>3. CASE at # "idle"
    <2> DEFINE n == [proc[w] EXCEPT !.at = at]
    <2>1. proc' = [proc EXCEPT ![w] = n]
      BY <1>3 DEF Goes
    <2>2. n \in Procs /\ n.at = at /\ n.task = proc[w].task /\ n.run = proc[w].run
      BY <1>1, <1>3 DEF Procs
    <2> HIDE DEF n
    <2> QED
      BY <1>1, <1>3, <2>1, <2>2 DEF TypeOK
  <1> QED
    BY <1>2, <1>3

LEMMA GoesIdle ==
    ASSUME TypeOK, NEW w \in Workers, Goes(w, "idle")
    PROVE  /\ proc' \in [Workers -> Procs \cup {Idle}]
           /\ \A v \in Workers : v # w => proc'[v] = proc[v]
           /\ proc'[w] = Idle
           /\ \A v \in Workers : Continues(v)
  <1>1. proc' = [proc EXCEPT ![w] = Idle]
    BY DEF Goes
  <1>2. /\ proc' \in [Workers -> Procs \cup {Idle}]
        /\ \A v \in Workers : v # w => proc'[v] = proc[v]
        /\ proc'[w] = Idle
    BY <1>1 DEF TypeOK
  <1> QED
    BY <1>2, Unmoved DEF Continues

LEMMA FaultType ==
    ASSUME TypeOK, Fault
    PROVE  faults' \in 0..MaxFaults
  BY GraphConstants DEF TypeOK, Fault

(* The requests. *)
LEMMA SameRequest ==
    ASSUME Before, NEW t \in Tasks, task[t].status # "absent"
    PROVE  Request(t, task[t], None)
  BY DEF Before, TypeOK, ExecutionInv, Request

LEMMA ClosedRequest ==
    ASSUME Before, NEW t \in Tasks, task[t].status \in Waiting \cup {"claimed"},
           NEW status \in {"completed", "failed", "cancelled"},
           NEW successor \in Successors \cup {None},
           successor # None => /\ task[t].status = "claimed" /\ status = "failed"
                               /\ successor = Following[t] /\ task[successor].status = "absent"
    PROVE  Request(t, Closed(task[t], status), successor)
  <1>1. task[t] \in Rows /\ task[t].status \notin Terminal /\ task[t].status # "absent"
    BY DEF Before, TypeOK, Waiting, Terminal
  <1>2. /\ Closed(task[t], status) \in Rows /\ Closed(task[t], status).status = status
        /\ status \in Terminal
    BY <1>1, ClosedRow DEF Terminal
  <1> QED
    BY <1>1, <1>2 DEF Request, Terminal

LEMMA FirstMemberIsThere ==
    ASSUME Kind = "quiescence"
    PROVE  FirstMember \in Members /\ FirstMember \in Graph /\ FirstMember \in Tasks
  <1>1. Members # {}
    BY GraphConstants, FS_EmptySet
  <1>2. FirstMember \in Members
    BY <1>1 DEF FirstMember
  <1> QED
    BY <1>2, SuccessorsApart

LEMMA ClaimStep ==
    ASSUME GraphInv, NEW w \in Workers, NEW t \in Tasks, Claim(w, t)
    PROVE  GraphInv'
  <1> DEFINE p == [task[t] EXCEPT !.status = "claimed", !.worker = w]
  <1>0. /\ Before /\ TypeOK /\ WorkersInv /\ Admitted(task) /\ GraphConsistent /\ ExecutionInv
        /\ DebtsInv /\ Apart
    BY DEF GraphInv, Before
  <1>1. task[t] \in Rows /\ task[t].status = "pending"
    BY <1>0 DEF TypeOK, Claim
  <1>2. p \in Rows /\ p.status = "claimed" /\ p.worker = w /\ p.run = task[t].run
    BY <1>1 DEF Rows, Statuses
  <1>3. Transact(t, p, None, None, FALSE)
    BY DEF Claim, Store
  <1>4. /\ proc' = [proc EXCEPT ![w] = [at |-> "claimed", task |-> t, run |-> 0]]
        /\ UNCHANGED <<deadline, effect, owed, faults>>
    BY DEF Claim
  <1> HIDE DEF p
  <1>5. Request(t, p, None)
    BY <1>1, <1>2 DEF Request, Terminal
  <1>6. Bookkeeping
    <2>1. [at |-> "claimed", task |-> t, run |-> 0] \in Procs
      BY GraphConstants DEF Procs
    <2> QED
      BY <1>0, <1>4, <2>1 DEF Bookkeeping, TypeOK
  <1>7. ASSUME NEW v \in Workers, v # w
        PROVE  WorkerInv(v)'
    <2>1. proc'[v] = proc[v]
      BY <1>0, <1>4, <1>7 DEF TypeOK
    <2>2. Continues(v)
      BY <1>0, <2>1, Unmoved
    <2>3. WorkerInv(v)
      BY <1>0 DEF WorkersInv
    <2>4. None \notin Tracked(task)
      BY SuccessorsApart DEF Tracked, Lineage
    <2> QED
      BY <1>0, <1>2, <1>3, <1>5, <1>7, <2>2, <2>3, <2>4, OtherWorker
  <1>8. WorkerInv(w)'
    <2>1. proc'[w] = [at |-> "claimed", task |-> t, run |-> 0]
      BY <1>0, <1>4 DEF TypeOK
    <2>2. proc'[w].task = t /\ proc'[w].at = "claimed"
      BY <2>1
    <2>3. \A v \in Tasks : Follows(Base(t, p, None, v), task'[v])
      BY <1>0, <1>3, <1>5, TransactRows
    <2>4. Base(t, p, None, t) = p
      BY <1>0, <1>2, StoredRowType DEF Base
    <2>5. task'[t].status # "absent" /\ task'[t].run = task[t].run
      BY <1>2, <2>3, <2>4 DEF Follows
    <2>6. t \in Tracked(task)' => t \in Tracked(task)
      BY <1>1 DEF Tracked, Lineage
    <2>7. t \in Tracked(task) => task[t].run = 0
      BY <1>0, <1>1 DEF ExecutionInv, Terminal
    <2> QED
      BY <2>2, <2>5, <2>6, <2>7 DEF WorkerInv
  <1>9. WorkersInv'
    BY <1>7, <1>8 DEF WorkersInv
  <1>10. Debited(None)
    <2>1. \A v \in Workers : Continues(v) \/ proc'[v].at = "claimed"
      BY <1>0, <1>4, Unmoved DEF TypeOK
    <2> QED
      BY <1>0, <1>4, <2>1, FewerDebts
  <1>11. \A o \in owed' : None = o.task => o.committed \/ (t = None /\ p.status \in Terminal)
    BY <1>0, <1>4, SuccessorsApart DEF TypeOK, Debts
  <1>12. p.status = "claimed" /\ t \in Tracked(task) =>
           \/ p.run = 0 \/ p.run > execution[t].run
           \/ task[t].status = "claimed" /\ p.worker = task[t].worker /\ p.run = task[t].run
    BY <1>0, <1>1, <1>2 DEF ExecutionInv, Terminal
  <1> QED
    BY <1>3, <1>4, <1>5, <1>6, <1>9, <1>10, <1>11, <1>12, StoredStep

(* A started claim is stored as it is: a task that executes is not         *)
(* skipped.                                                                *)
LEMMA StartedRow ==
    ASSUME Before, NEW t, NEW p, NEW ack, NEW resolve, NEW ts, NEW decided,
           Request(t, p, None), p.status = "claimed",
           PlanStep(t, p, None, ack, resolve, ts, decided)
    PROVE  ts[t] = p
  <1> DEFINE changed == [task EXCEPT ![t] = StoredRow(t, p)]
  <1>0. Admitted(task) /\ t \in Tasks /\ p \in Rows
    BY DEF Before, Request
  <1>1. StoredRow(t, p) = p
    BY <1>0, StoredRowType
  <1>2. changed[t] = p
    BY <1>0, <1>1 DEF Admitted
  <1>3. CASE t \in Graph
    <2>1. changed = [task EXCEPT ![t] = Normalised(t, p, waitingFinalizer)]
      BY <1>3 DEF StoredRow
    <2>2. ts = Propagate(changed, waitingFinalizer)
      BY <1>3, <2>1 DEF PlanStep, Planned
    <2>3. CanPropagate(changed)
      BY <1>3, <2>1 DEF PlanStep
    <2> HIDE DEF changed
    <2>4. t \notin Skipped(changed)
      BY <1>2, <2>3 DEF CanPropagate
    <2> QED
      BY <1>0, <1>2, <2>2, <2>4 DEF Propagate
  <1>4. CASE t \notin Graph
    <2>1. ts = changed
      BY <1>4 DEF PlanStep, Planned, StoredRow
    <2> QED
      BY <1>2, <2>1
  <1> QED
    BY <1>3, <1>4

(* The execution a handler is started for is new on record. *)
LEMMA StartRecorded ==
    ASSUME Before, NEW w \in Workers, NEW t \in Tracked(task), task[t].run = 0,
           NEW p, p.status = "claimed", p.worker = w, p.run = Marker(t),
           Request(t, p, None), Transact(t, p, None, None, FALSE)
    PROVE  /\ Marker(t) = execution[t].run + 1 /\ execution[t].run \in Nat
           /\ ~execution'[t].settled
           /\ execution'[t].worker = w /\ execution'[t].run = Marker(t)
  <1>0. TypeOK /\ Admitted(task) /\ GraphConsistent /\ t \in Tasks
    BY SuccessorsApart DEF Before, Tracked, Lineage
  <1>2. Marker(t) = execution[t].run + 1
    BY DEF Marker
  <1>3. PICK ts, decided : PlanStep(t, p, None, None, FALSE, ts, decided)
    BY TransactParts
  <1>4. ts[t] = p /\ Admitted(ts) /\ \A v \in Tasks : Follows(Base(t, p, None, v), ts[v])
    <2>1. ts[t] = p
      BY <1>3, StartedRow
    <2>2. Admitted(ts) /\ \A v \in Tasks : Follows(Base(t, p, None, v), ts[v])
      BY <1>0, <1>3, PlanRows
    <2> QED
      BY <2>1, <2>2
  <1>5. t \in Tracked(ts)
    BY <1>0, <1>4, LineageGrows
  <1>6. execution[t].run \in Nat
    BY <1>0 DEF TypeOK, Executions
  <1>7. NewExecution(ts, t)
    BY <1>2, <1>4, <1>5, <1>6 DEF NewExecution
  <1>8. execution' = Recorded(ts, None)
    BY <1>3 DEF PlanStep
  <1>9. None # t
    BY <1>0, SuccessorsApart
  <1> QED
    BY <1>0, <1>2, <1>4, <1>6, <1>7, <1>8, <1>9, RecordedRow

LEMMA MarkStartedStep ==
    ASSUME GraphInv, NEW w \in Workers, MarkStarted(w)
    PROVE  GraphInv'
  <1> DEFINE t == proc[w].task
             p == [task[t] EXCEPT !.run = Marker(t)]
             started == [at |-> "running", task |-> t, run |-> Marker(t)]
  <1>0. /\ Before /\ TypeOK /\ WorkersInv /\ Admitted(task) /\ GraphConsistent /\ ExecutionInv
        /\ DebtsInv /\ Apart
    BY DEF GraphInv, Before
  <1>1. /\ proc[w].at = "claimed" /\ task[t].status = "claimed" /\ task[t].worker = w
        /\ execution[t].settled /\ Marker(t) <= MaxRuns
        /\ Transact(t, p, None, None, FALSE) /\ UNCHANGED <<deadline, effect>>
    BY DEF MarkStarted, Store, Holds
  <1>2. \/ proc' = [proc EXCEPT ![w] = started] /\ UNCHANGED <<owed, faults>>
        \/ /\ \E entry \in BOOLEAN : owed' = owed \cup Owing(w, t, Marker(t), entry, FALSE)
           /\ Goes(w, "idle") /\ Fault
    BY DEF MarkStarted
  <1>3. t \in Tasks /\ proc[w] # Idle
    BY <1>0, <1>1 DEF TypeOK, Procs, Idle
  <1>w. WorkerInv(w) /\ t = proc[w].task
    BY <1>0 DEF WorkersInv
  <1> HIDE DEF t
  <1>4. task[t] \in Rows /\ execution[t] \in Executions
    BY <1>0, <1>3 DEF TypeOK
  <1>5. Marker(t) \in 1..MaxRuns
    BY <1>1, <1>4, GraphConstants DEF Marker, Rows, Executions
  <1>6. p \in Rows /\ p.status = "claimed" /\ p.worker = w /\ p.run = Marker(t)
    BY <1>1, <1>4, <1>5 DEF Rows
  <1> HIDE DEF p
  <1>7. Request(t, p, None)
    BY <1>1, <1>3, <1>6 DEF Request, Terminal
  <1>8. started \in Procs /\ started.at = "running" /\ started.task = t /\ started.run = Marker(t)
    BY <1>3, <1>5 DEF Procs
  <1> HIDE DEF started
  <1>9. /\ proc' \in [Workers -> Procs \cup {Idle}] /\ faults' \in 0..MaxFaults
        /\ \A v \in Workers : v # w => proc'[v] = proc[v]
        /\ proc'[w] = Idle \/ (proc'[w] = started /\ owed' = owed)
    <2>1. CASE proc' = [proc EXCEPT ![w] = started] /\ UNCHANGED <<owed, faults>>
      BY <1>0, <1>8, <2>1 DEF TypeOK
    <2>2. CASE Goes(w, "idle") /\ Fault
      BY <1>0, <2>2, GoesIdle, FaultType
    <2> QED
      BY <1>2, <2>1, <2>2
  <1>10. Bookkeeping
    BY <1>0, <1>1, <1>9 DEF Bookkeeping, TypeOK
  <1>11. ASSUME NEW v \in Workers, v # w
         PROVE  WorkerInv(v)'
    <2>1. proc'[v] = proc[v]
      BY <1>9, <1>11
    <2>2. Continues(v)
      BY <1>0, <2>1, Unmoved
    <2>3. WorkerInv(v)
      BY <1>0 DEF WorkersInv
    <2>4. None \notin Tracked(task)
      BY SuccessorsApart DEF Tracked, Lineage
    <2> QED
      BY <1>0, <1>1, <1>6, <1>7, <1>11, <2>2, <2>3, <2>4, OtherWorker
  <1>12. t \in Tracked(task) => /\ Marker(t) = execution[t].run + 1 /\ execution[t].run \in Nat
                                /\ ~execution'[t].settled
                                /\ execution'[t].worker = w /\ execution'[t].run = Marker(t)
    <2>1. t \in Tracked(task) => task[t].run = 0
      BY <1>0, <1>1, <1>w, <1>3 DEF WorkerInv
    <2> QED
      BY <1>0, <1>1, <1>6, <1>7, <2>1, StartRecorded
  <1>13. WorkerInv(w)'
    <2>1. CASE proc'[w] = Idle
      BY <2>1 DEF WorkerInv
    <2>2. CASE proc'[w] = started
      <3>1. \A v \in Tasks : Follows(Base(t, p, None, v), task'[v])
        BY <1>0, <1>1, <1>7, TransactRows
      <3>2. Base(t, p, None, t) = p
        BY <1>0, <1>3, <1>6, StoredRowType DEF Base
      <3>3. task'[t].status # "absent"
        BY <1>3, <1>6, <3>1, <3>2 DEF Follows
      <3>4. t \in Tracked(task)' => t \in Tracked(task)
        BY <1>1 DEF Tracked, Lineage
      <3>5. proc'[w].at = "running" /\ proc'[w].task = t /\ proc'[w].run = Marker(t)
        BY <1>8, <2>2
      <3>6. CanAcknowledge(w)' <=> execution'[t].worker = w /\ execution'[t].run = Marker(t)
        BY <3>5 DEF CanAcknowledge, OnRecord
      <3> QED
        BY <1>12, <3>3, <3>4, <3>5, <3>6 DEF WorkerInv
    <2> QED
      BY <1>9, <2>1, <2>2
  <1>14. WorkersInv'
    BY <1>11, <1>13 DEF WorkersInv
  <1>15. TypeOK'
    <2>1. Stored
      BY <1>0, <1>1, <1>7, TransactStored
    <2>2. owed' \in SUBSET Debts
      <3>1. ASSUME NEW entry \in BOOLEAN, NEW o \in Owing(w, t, Marker(t), entry, FALSE)
            PROVE  o \in Debts
        <4>1. t \in Tasks /\ Marker(t) \in 0..MaxRuns /\ FALSE \in BOOLEAN
          BY <1>3, <1>5
        <4> HIDE DEF t
        <4> QED
          BY <4>1, OwingDebt, Zenon
      <3> QED
        BY <1>0, <1>2, <3>1 DEF TypeOK
    <2> QED
      BY <1>10, <2>1, <2>2 DEF TypeOK, Stored, Bookkeeping
  <1>16. ASSUME NEW o \in owed, o.task = t
         PROVE  o.run < Marker(t) /\ t \in Tracked(task)
    <2>1. Due(o, None) /\ o \in Debts
      BY <1>0 DEF DebtsInv, TypeOK
    <2>2. t \in Tracked(task) /\ o.run <= execution[t].run /\ o.run \in Nat
      BY <1>16, <2>1 DEF Due, Debts
    <2> QED
      BY <1>12, <2>2
  <1>17. ASSUME NEW v \in Workers, v # w, proc[v].at \in {"running", "lost", "returned"},
                proc[v].task = t, t \in Tracked(task)
         PROVE  proc[v].run = execution[t].run
    <2>1. proc[v] # Idle /\ WorkerInv(v)
      BY <1>0, <1>17 DEF WorkersInv, Idle
    <2> QED
      BY <1>17, <2>1 DEF WorkerInv, CanAcknowledge, OnRecord
  <1>18. Apart' /\ \A o \in owed' : o \in owed => Due(o, None)
    <2>1. \A o \in owed' : o \in owed => Due(o, None)
      BY <1>0 DEF DebtsInv
    <2>2. PICK entry \in BOOLEAN : owed' \subseteq owed \cup Owing(w, t, Marker(t), entry, FALSE)
      BY <1>2
    <2>3. \A o \in owed' : o \in owed \/ (/\ o.task = t /\ o.run = Marker(t) /\ t \in Tracked(task)
                                          /\ o \in Owing(w, t, Marker(t), entry, FALSE))
      BY <2>2 DEF Owing
    <2>4. \A o1, o2 \in owed' : o1.task = o2.task /\ o1.run = o2.run => o1 = o2
      <3> SUFFICES ASSUME NEW o1 \in owed', NEW o2 \in owed', o1.task = o2.task, o1.run = o2.run
                   PROVE  o1 = o2
        OBVIOUS
      <3>1. CASE o1 \in owed /\ o2 \in owed
        BY <1>0, <3>1 DEF Apart
      <3>2. CASE o1 \notin owed /\ o2 \notin owed
        BY <2>3, <3>2 DEF Owing
      <3>3. CASE o1 \in owed /\ o2 \notin owed
        <4>1. o2.task = t /\ o2.run = Marker(t)
          BY <2>3, <3>3
        <4> QED
          BY <1>5, <1>16, <3>3, <4>1
      <3>4. CASE o1 \notin owed /\ o2 \in owed
        <4>1. o1.task = t /\ o1.run = Marker(t)
          BY <2>3, <3>4
        <4>2. o2 \in owed /\ o2.task = t /\ o2.run = Marker(t)
          BY <3>4, <4>1
        <4>3. o2.run < Marker(t)
          BY <1>16, <4>2
        <4> QED
          BY <1>5, <4>2, <4>3
      <3> QED
        BY <3>1, <3>2, <3>3, <3>4
    <2>5. ASSUME NEW o \in owed', NEW v \in Workers,
                 proc'[v].at \in {"running", "lost", "returned"}, proc'[v].task = o.task
          PROVE  proc'[v].run # o.run
      <3>1. CASE v = w
        <4>1. proc'[w] = started /\ owed' = owed
          BY <1>9, <2>5, <3>1 DEF Idle
        <4> QED
          BY <1>8, <1>16, <2>5, <3>1, <4>1, <1>5
      <3>2. CASE v # w
        <4>1. proc'[v] = proc[v]
          BY <1>9, <3>2
        <4>2. CASE o \in owed
          BY <1>0, <2>5, <4>1, <4>2 DEF Apart
        <4>3. CASE o \notin owed
          <5>1. o.task = t /\ o.run = Marker(t) /\ t \in Tracked(task)
            BY <2>3, <4>3
          <5> QED
            BY <1>12, <1>17, <2>5, <3>2, <4>1, <5>1
        <4> QED
          BY <4>2, <4>3
      <3> QED
        BY <3>1, <3>2
    <2> QED
      BY <2>1, <2>4, <2>5 DEF Apart
  <1>19. DebtsInv'
    <2> SUFFICES ASSUME NEW o \in owed' PROVE Due(o, None)'
      BY DEF DebtsInv
    <2>1. o \in Debts
      BY <1>15 DEF TypeOK
    <2>2. CASE o \in owed
      <3>1. Due(o, None) /\ o.task # None
        BY <1>18, <2>1, <2>2, SuccessorsApart DEF Debts
      <3>2. t = o.task => p.run > execution[t].run
        BY <1>6, <1>12, <1>16, <2>2
      <3> QED
        BY <1>0, <1>1, <1>7, <2>1, <3>1, <3>2, DebtStays
    <2>3. CASE o \notin owed
      <3>1. PICK entry \in BOOLEAN : o \in Owing(w, t, Marker(t), entry, FALSE)
        BY <1>2, <2>3
      <3>2. /\ o.worker = w /\ o.task = t /\ o.run = Marker(t) /\ ~o.committed
            /\ t \in Tracked(task)
        BY <3>1 DEF Owing
      <3>3. t \in Tracked(task)'
        <4>1. \A v \in Tasks : Follows(Base(t, p, None, v), task'[v])
          BY <1>0, <1>1, <1>7, TransactRows
        <4>2. t \in Tracked(task')
          BY <1>0, <1>7, <3>2, <4>1, LineageGrows
        <4> QED
          BY <4>2 DEF Tracked, Lineage
      <3> QED
        BY <1>5, <1>12, <3>2, <3>3 DEF Due, OnRecord
    <2> QED
      BY <2>2, <2>3
  <1>20. Stored
    BY <1>0, <1>1, <1>7, TransactStored
  <1> QED
    BY <1>14, <1>15, <1>18, <1>19, <1>20 DEF Stored, GraphInv

(* Transactions that start nothing. *)
LEMMA ChangeStep ==
    ASSUME GraphInv, NEW t, NEW p, NEW successor, NEW ack, NEW resolve,
           Request(t, p, successor), Transact(t, p, successor, ack, resolve),
           effect' = effect, Bookkeeping, \A w \in Workers : Continues(w), Debited(ack),
           p.status = "claimed" =>
              task[t].status = "claimed" /\ p.worker = task[t].worker /\ p.run = task[t].run,
           \A o \in owed' : ack = o.task => o.committed \/ (t = ack /\ p.status \in Terminal),
           \A w \in Workers : ack = proc'[w].task /\ ack \in Tracked(task) =>
              \/ proc'[w].at \notin {"running", "lost", "returned"}
              \/ proc'[w].at \notin {"running", "lost"} /\ t = ack /\ p.status \in Terminal
    PROVE  GraphInv'
  <1>1. Before /\ WorkersInv
    BY DEF GraphInv, Before
  <1>2. ASSUME NEW w \in Workers
        PROVE  WorkerInv(w)'
    BY <1>1, OtherWorker DEF WorkersInv
  <1>3. WorkersInv'
    BY <1>2 DEF WorkersInv
  <1> QED
    BY <1>3, StoredStep

LEMMA PlainStep ==
    ASSUME GraphInv, NEW t, NEW p, NEW successor, NEW resolve,
           Request(t, p, successor), Transact(t, p, successor, None, resolve),
           effect' = effect, Bookkeeping, \A w \in Workers : Continues(w), Debited(None),
           p.status = "claimed" =>
              task[t].status = "claimed" /\ p.worker = task[t].worker /\ p.run = task[t].run
    PROVE  GraphInv'
  <1>1. None \notin Tracked(task) /\ \A o \in owed' : o.task # None
    BY SuccessorsApart DEF Tracked, Lineage, Debited, Debts
  <1> QED
    BY <1>1, ChangeStep

(* Nobody moves. *)
LEMMA NobodyMoves ==
    ASSUME TypeOK, UNCHANGED proc
    PROVE  \A w \in Workers : Continues(w)
  BY Unmoved

(* Nothing is owed that was not owed before. *)
LEMMA NothingOwed ==
    ASSUME GraphInv, owed' \subseteq owed, \A w \in Workers : Continues(w)
    PROVE  Debited(None)
  BY FewerDebts DEF GraphInv

LEMMA HandlerReturnsStep ==
    ASSUME GraphInv, NEW w \in Workers, HandlerReturns(w)
    PROVE  GraphInv'
  <1>0. TypeOK
    BY DEF GraphInv
  <1>1. /\ proc[w].at = "running" /\ Goes(w, "returned")
        /\ UNCHANGED <<task, ready, execution, group, deadline, effect, owed, faults>>
    BY DEF HandlerReturns
  <1>2. /\ proc[w] # Idle /\ proc' \in [Workers -> Procs \cup {Idle}]
        /\ \A v \in Workers : v # w => proc'[v] = proc[v]
        /\ proc'[w].at = "returned" /\ proc'[w].task = proc[w].task /\ proc'[w].run = proc[w].run
    BY <1>0, <1>1, GoesOn
  <1>3. \A v \in Workers : Continues(v)
    BY <1>0, <1>1, <1>2, Unmoved DEF Continues
  <1>4. Bookkeeping
    BY <1>0, <1>1, <1>2 DEF TypeOK, Bookkeeping
  <1> QED
    BY <1>1, <1>3, <1>4, NothingOwed, UnstoredStep

(* What a worker has executed is owed by nobody yet. *)
LEMMA OwedOnce ==
    ASSUME GraphInv, NEW w \in Workers, proc[w].at = "returned", NEW at,
           Goes(w, at), at \in {"idle", "acknowledged"}, NEW committed \in BOOLEAN,
           owed' \subseteq owed \cup Owing(w, proc[w].task, proc[w].run, FALSE, committed)
    PROVE  owed' \in SUBSET Debts /\ Apart'
  <1> DEFINE t == proc[w].task
             n == Owing(w, t, proc[w].run, FALSE, committed)
  <1>0. TypeOK /\ WorkersInv /\ Apart
    BY DEF GraphInv
  <1>1. /\ proc[w] \in Procs /\ proc[w] # Idle
        /\ \A v \in Workers : v # w => proc'[v] = proc[v]
        /\ proc'[w].at = at
    BY <1>0, GoesOn DEF Idle
  <1>2. /\ n \subseteq Debts
        /\ \A o \in n : o.task = t /\ o.run = proc[w].run /\ t \in Tracked(task)
        /\ \A o1, o2 \in n : o1 = o2
    <2>1. t \in Tasks /\ proc[w].run \in 0..MaxRuns /\ FALSE \in BOOLEAN
      BY <1>1 DEF Procs
    <2> HIDE DEF t
    <2> DEFINE r == proc[w].run
               d == [worker |-> w, task |-> t, run |-> r, entry |-> FALSE, committed |-> committed]
    <2>2. \A o \in n : o = d /\ t \in Tracked(task)
      BY DEF Owing
    <2>3. d.task = t /\ d.run = r
      OBVIOUS
    <2> HIDE DEF r
    <2>4. d \in Debts
      BY <2>1, Zenon DEF Debts, r
    <2> HIDE DEF n, d
    <2> QED
      BY <2>2, <2>3, <2>4 DEF r
  <1> HIDE DEF n
  <1>3. owed' \in SUBSET Debts
    BY <1>0, <1>2 DEF TypeOK, n
  <1>4. \A o1, o2 \in owed' : o1.task = o2.task /\ o1.run = o2.run => o1 = o2
    <2> SUFFICES ASSUME NEW o1 \in owed', NEW o2 \in owed', o1.task = o2.task, o1.run = o2.run
                 PROVE  o1 = o2
      OBVIOUS
    <2>1. ASSUME NEW o \in owed PROVE ~(o.task = t /\ o.run = proc[w].run)
      BY <1>0 DEF Apart
    <2>2. (o1 \in owed \/ o1 \in n) /\ (o2 \in owed \/ o2 \in n)
      BY DEF n
    <2>3. o1 \in owed /\ o2 \in owed => o1 = o2
      BY <1>0 DEF Apart
    <2> QED
      BY <1>2, <2>1, <2>2, <2>3
  <1>5. ASSUME NEW o \in owed', NEW v \in Workers,
               proc'[v].at \in {"running", "lost", "returned"}, proc'[v].task = o.task
        PROVE  proc'[v].run # o.run
    <2>1. v # w /\ proc'[v] = proc[v]
      BY <1>1, <1>5
    <2>2. CASE o \in owed
      BY <1>0, <1>5, <2>1, <2>2 DEF Apart
    <2>3. CASE o \in n
      <3>1. o.task = t /\ o.run = proc[w].run /\ t \in Tracked(task)
        BY <1>2, <2>3
      <3>2. execution[t].worker = w
        BY <1>0, <1>1, <3>1 DEF WorkersInv, WorkerInv, CanAcknowledge, OnRecord
      <3>3. proc[v] # Idle /\ proc[v].task = t /\ proc[v].at \in {"running", "lost", "returned"}
        BY <1>5, <2>1, <3>1 DEF Idle
      <3>4. execution[t].worker = v
        BY <1>0, <3>1, <3>3 DEF WorkersInv, WorkerInv, CanAcknowledge, OnRecord
      <3> QED
        BY <2>1, <3>2, <3>4
    <2> QED
      BY <2>2, <2>3 DEF n
  <1> QED
    BY <1>3, <1>4, <1>5 DEF Apart

(* An execution on record is settled, and nobody executes it any more. *)
LEMMA SettleStep ==
    ASSUME GraphInv, NEW t \in Tracked(task), Settle(t), effect' = effect, Bookkeeping,
           \A w \in Workers : Continues(w), Debited(t),
           \A o \in owed' : t = o.task => o.committed,
           \A w \in Workers : proc'[w].task = t => proc'[w].at \notin {"running", "lost", "returned"}
    PROVE  GraphInv'
  <1>0. Before
    BY DEF GraphInv, Before
  <1>1. Kind = "quiescence"
    BY DEF Tracked
  <1>2. FirstMember \in Tasks /\ task[FirstMember].status # "absent"
    BY <1>0, <1>1, FirstMemberIsThere DEF Before, Admitted
  <1>3. Request(FirstMember, task[FirstMember], None)
    BY <1>0, <1>2, SameRequest
  <1>4. Transact(FirstMember, task[FirstMember], None, t, FALSE)
    BY DEF Settle
  <1> QED
    BY <1>3, <1>4, ChangeStep

LEMMA AcknowledgeStep ==
    ASSUME GraphInv, NEW w \in Workers, Acknowledge(w)
    PROVE  GraphInv'
  <1> DEFINE t == proc[w].task
  <1>0. TypeOK /\ WorkersInv /\ DebtsInv /\ Apart
    BY DEF GraphInv
  <1>1. /\ proc[w].at = "returned" /\ Goes(w, "acknowledged")
        /\ UNCHANGED <<deadline, effect>>
        /\ \/ /\ t \in Tracked(task) /\ OnRecord(t, w, proc[w].run) /\ Settle(t)
              /\ \/ UNCHANGED <<owed, faults>>
                 \/ owed' = owed \cup Owing(w, t, proc[w].run, FALSE, TRUE) /\ Fault
           \/ UNCHANGED <<task, ready, execution, group, owed, faults>>
    BY DEF Acknowledge
  <1>2. /\ proc[w] # Idle /\ proc[w] \in Procs /\ proc' \in [Workers -> Procs \cup {Idle}]
        /\ \A v \in Workers : v # w => proc'[v] = proc[v]
        /\ proc'[w].at = "acknowledged" /\ proc'[w].task = proc[w].task
        /\ proc'[w].run = proc[w].run
    BY <1>0, <1>1, GoesOn
  <1>3. \A v \in Workers : Continues(v)
    BY <1>0, <1>1, <1>2, Unmoved DEF Continues
  <1>4. Bookkeeping
    BY <1>0, <1>1, <1>2, FaultType DEF TypeOK, Bookkeeping
  <1>5. CASE UNCHANGED <<task, ready, execution, group, owed, faults>>
    BY <1>1, <1>3, <1>4, <1>5, NothingOwed, UnstoredStep
  <1>6. CASE /\ t \in Tracked(task) /\ OnRecord(t, w, proc[w].run) /\ Settle(t)
             /\ \/ UNCHANGED <<owed, faults>>
                \/ owed' = owed \cup Owing(w, t, proc[w].run, FALSE, TRUE) /\ Fault
    <2>1. owed' \subseteq owed \cup Owing(w, t, proc[w].run, FALSE, TRUE)
      BY <1>6
    <2>2. owed' \in SUBSET Debts /\ Apart'
      BY <1>1, <2>1, OwedOnce
    <2>3. /\ execution[t].worker = w /\ execution[t].run = proc[w].run
          /\ proc[w].run \in Nat
      BY <1>2, <1>6 DEF OnRecord, Procs
    <2>4. ASSUME NEW o \in owed'
          PROVE  Due(o, t) /\ (t = o.task => o.committed)
      <3>1. CASE o \in owed
        <4>1. Due(o, None) /\ o.task # None
          BY <1>0, <3>1, SuccessorsApart DEF DebtsInv, TypeOK, Debts
        <4>2. Due(o, t)
          BY <4>1 DEF Due
        <4>3. t = o.task => o.run # proc[w].run
          BY <1>0, <1>1, <3>1 DEF Apart
        <4>4. t = o.task /\ ~o.committed => o.run = execution[t].run
          BY <4>1 DEF Due, OnRecord
        <4> QED
          BY <2>3, <4>2, <4>3, <4>4
      <3>2. CASE o \notin owed
        <4>1. o.task = t /\ o.run = proc[w].run /\ o.committed
          BY <2>1, <3>2 DEF Owing
        <4> QED
          BY <1>6, <2>3, <4>1 DEF Due
      <3> QED
        BY <3>1, <3>2
    <2>5. Debited(t)
      BY <2>2, <2>4 DEF Debited
    <2>6. ASSUME NEW v \in Workers, proc'[v].task = t
          PROVE  proc'[v].at \notin {"running", "lost", "returned"}
      <3>1. CASE v = w
        BY <1>2, <3>1
      <3>2. CASE v # w
        <4>1. proc'[v] = proc[v] /\ proc[v].task = t
          BY <1>2, <2>6, <3>2
        <4>2. ~CanAcknowledge(v)
          BY <2>3, <3>2, <4>1 DEF CanAcknowledge, OnRecord
        <4>3. proc[v].at \in {"running", "lost", "returned"} => proc[v] # Idle
          BY DEF Idle
        <4> QED
          BY <1>0, <1>6, <4>1, <4>2, <4>3 DEF WorkersInv, WorkerInv
      <3> QED
        BY <3>1, <3>2
    <2> HIDE DEF t
    <2> QED
      BY <1>1, <1>3, <1>4, <1>6, <2>4, <2>5, <2>6, SettleStep
  <1> QED
    BY <1>1, <1>5, <1>6

(* A claim that was read back: what is owed stays the same. *)
LEMMA ReadBackStep ==
    ASSUME GraphInv, NEW o \in owed, ReadBack(o)
    PROVE  GraphInv'
  <1> DEFINE n == [o EXCEPT !.entry = FALSE]
  <1>0. TypeOK /\ DebtsInv /\ Apart /\ o \in Debts
    BY DEF GraphInv, TypeOK
  <1>1. /\ owed' = (owed \ {o}) \cup {n}
        /\ UNCHANGED <<task, ready, execution, group, deadline, effect, proc, faults>>
    BY DEF ReadBack
  <1>2. /\ n \in Debts /\ n.worker = o.worker /\ n.task = o.task /\ n.run = o.run
        /\ n.committed = o.committed
    BY <1>0 DEF Debts
  <1> HIDE DEF n
  <1>3. Due(n, None)
    BY <1>0, <1>2 DEF DebtsInv, Due
  <1>4. Apart'
    BY <1>0, <1>1, <1>2 DEF Apart
  <1>5. Debited(None)
    BY <1>0, <1>1, <1>2, <1>3, <1>4 DEF Debited, DebtsInv, TypeOK
  <1>6. Bookkeeping /\ \A w \in Workers : Continues(w)
    BY <1>0, <1>1, NobodyMoves DEF Bookkeeping, TypeOK
  <1> QED
    BY <1>1, <1>5, <1>6, UnstoredStep

(* An acknowledgement is repeated: if its execution is on record no worker *)
(* has it any more, and otherwise nothing happens.                         *)
LEMMA RetryStep ==
    ASSUME GraphInv, NEW o \in owed, Retry(o)
    PROVE  GraphInv'
  <1> DEFINE t == o.task
             n == [o EXCEPT !.committed = TRUE]
  <1>0. TypeOK /\ WorkersInv /\ DebtsInv /\ Apart /\ o \in Debts /\ Due(o, None)
    BY DEF GraphInv, TypeOK, DebtsInv
  <1>1. /\ UNCHANGED <<deadline, effect, proc>>
        /\ \/ /\ OnRecord(t, o.worker, o.run) /\ Settle(t)
              /\ \/ owed' = owed \ {o} /\ UNCHANGED faults
                 \/ owed' = (owed \ {o}) \cup {n} /\ Fault
           \/ owed' = owed \ {o} /\ UNCHANGED <<task, ready, execution, group, faults>>
    BY DEF Retry
  <1>2. Bookkeeping /\ \A w \in Workers : Continues(w)
    BY <1>0, <1>1, NobodyMoves, FaultType DEF Bookkeeping, TypeOK
  <1>3. CASE owed' = owed \ {o} /\ UNCHANGED <<task, ready, execution, group, faults>>
    BY <1>1, <1>2, <1>3, NothingOwed, UnstoredStep
  <1>4. CASE /\ OnRecord(t, o.worker, o.run) /\ Settle(t)
             /\ \/ owed' = owed \ {o} /\ UNCHANGED faults
                \/ owed' = (owed \ {o}) \cup {n} /\ Fault
    <2>1. /\ t \in Tracked(task) /\ t \in Tasks /\ t # None /\ o.run \in Nat
          /\ execution[t].worker = o.worker /\ execution[t].run = o.run
      BY <1>0, <1>4, SuccessorsApart DEF Due, Debts, OnRecord
    <2>2. n \in Debts /\ n.task = t /\ n.run = o.run /\ n.committed
      BY <1>0 DEF Debts
    <2> HIDE DEF n
    <2>3. owed' \subseteq (owed \ {o}) \cup {n}
      BY <1>4
    <2>4. Apart'
      BY <1>0, <1>1, <2>2, <2>3 DEF Apart
    <2>5. ASSUME NEW e \in owed'
          PROVE  Due(e, t) /\ (t = e.task => e.committed)
      <3>1. CASE e = n
        BY <2>1, <2>2, <3>1 DEF Due
      <3>2. CASE e \in owed /\ e # o
        <4>1. Due(e, None) /\ e.task # None
          BY <1>0, <3>2, SuccessorsApart DEF DebtsInv, TypeOK, Debts
        <4>2. Due(e, t)
          BY <4>1 DEF Due
        <4>3. t = e.task /\ ~e.committed => e.run = o.run
          BY <2>1, <4>1 DEF Due, OnRecord
        <4>4. t = e.task => e.run # o.run
          BY <1>0, <3>2 DEF Apart
        <4> QED
          BY <4>2, <4>3, <4>4
      <3> QED
        BY <2>3, <3>1, <3>2
    <2>6. Debited(t)
      BY <1>0, <2>2, <2>3, <2>4, <2>5 DEF Debited, TypeOK
    <2>7. ASSUME NEW v \in Workers, proc'[v].task = t
          PROVE  proc'[v].at \notin {"running", "lost", "returned"}
      <3> SUFFICES ASSUME proc[v].at \in {"running", "lost", "returned"} PROVE FALSE
        BY <1>1
      <3>1. proc[v].task = t /\ proc[v] # Idle
        BY <1>1, <2>7 DEF Idle
      <3>2. proc[v].run = execution[t].run
        BY <1>0, <2>1, <3>1 DEF WorkersInv, WorkerInv, CanAcknowledge, OnRecord
      <3> QED
        BY <1>0, <2>1, <3>1, <3>2 DEF Apart
    <2> HIDE DEF t
    <2> QED
      BY <1>1, <1>2, <1>4, <2>1, <2>5, <2>6, <2>7, SettleStep
  <1> QED
    BY <1>1, <1>3, <1>4

(* The outcome of a task, as a transaction. *)
LEMMA OutcomeStep ==
    ASSUME GraphInv, NEW w \in Workers, NEW t \in Tasks,
           NEW status \in {"completed", "failed", "cancelled"}, NEW successor \in Successors \cup {None},
           Outcome(w, t, status, successor),
           effect' = effect, Bookkeeping, \A v \in Workers : Continues(v), Debited(None)
    PROVE  GraphInv'
  <1>0. Before /\ task[t] \in Rows
    BY DEF GraphInv, Before, TypeOK
  <1>1. /\ task[t].status = "claimed"
        /\ successor # None => /\ status = "failed" /\ successor = Following[t]
                               /\ task[successor].status = "absent"
        /\ Transact(t, Closed(task[t], status), successor, None, FALSE)
    BY DEF Outcome, Holds
  <1>2. Request(t, Closed(task[t], status), successor)
    BY <1>0, <1>1, ClosedRequest
  <1>3. Closed(task[t], status).status # "claimed"
    BY <1>0, ClosedRow DEF Terminal
  <1> QED
    BY <1>1, <1>2, <1>3, PlainStep

LEMMA PublishStep ==
    ASSUME GraphInv, NEW w \in Workers, Publish(w)
    PROVE  GraphInv'
  <1> DEFINE t == proc[w].task
  <1>0. TypeOK /\ WorkersInv /\ DebtsInv
    BY DEF GraphInv
  <1>1. /\ Goes(w, "idle") /\ UNCHANGED <<deadline, effect>>
        /\ \/ proc[w].at = "acknowledged" /\ UNCHANGED <<owed, faults>>
           \/ /\ proc[w].at = "returned" /\ Fault
              /\ owed' = owed \cup Owing(w, t, proc[w].run, FALSE, FALSE)
    BY DEF Publish
  <1>2. /\ proc[w] # Idle /\ proc[w] \in Procs
        /\ proc' \in [Workers -> Procs \cup {Idle}] /\ \A v \in Workers : Continues(v)
    <2>1. proc[w].at # "idle"
      BY <1>1
    <2> QED
      BY <1>0, <1>1, <2>1, GoesOn, GoesIdle
  <1>3. Bookkeeping
    BY <1>0, <1>1, <1>2, FaultType DEF TypeOK, Bookkeeping
  <1>4. Debited(None)
    <2>1. CASE owed' = owed
      BY <1>2, <2>1, NothingOwed
    <2>2. CASE proc[w].at = "returned" /\ owed' = owed \cup Owing(w, t, proc[w].run, FALSE, FALSE)
      <3>1. owed' \in SUBSET Debts /\ Apart'
        BY <1>1, <2>2, OwedOnce
      <3>2. ASSUME NEW o \in Owing(w, t, proc[w].run, FALSE, FALSE)
            PROVE  Due(o, None)
        <4>1. /\ o.worker = w /\ o.task = t /\ o.run = proc[w].run /\ ~o.committed
              /\ t \in Tracked(task)
          BY <3>2 DEF Owing
        <4>2. /\ OnRecord(t, w, proc[w].run)
              /\ ~execution[t].settled \/ task[t].status \in Terminal
          BY <1>0, <1>2, <2>2, <4>1 DEF WorkersInv, WorkerInv, CanAcknowledge
        <4>3. proc[w].run \in Nat
          BY <1>2 DEF Procs
        <4> QED
          BY <4>1, <4>2, <4>3 DEF Due, OnRecord
      <3> QED
        BY <1>0, <2>2, <3>1, <3>2 DEF Debited, DebtsInv
    <2> QED
      BY <1>1, <2>1, <2>2
  <1>5. t \in Tasks
    BY <1>2 DEF Procs
  <1>6. CASE \E status \in {"completed", "failed", "cancelled"}, s \in Successors \cup {None} :
               Outcome(w, t, status, s)
    BY <1>1, <1>2, <1>3, <1>4, <1>5, <1>6, OutcomeStep
  <1>7. CASE UNCHANGED <<task, ready, execution, group>>
    BY <1>1, <1>2, <1>3, <1>4, <1>7, UnstoredStep
  <1> QED
    BY <1>6, <1>7 DEF Publish

LEMMA LeaveClaimStep ==
    ASSUME GraphInv, NEW w \in Workers, LeaveClaim(w)
    PROVE  GraphInv'
  <1> DEFINE t == proc[w].task
             p == [task[t] EXCEPT !.status = "pending", !.worker = None]
  <1>0. TypeOK /\ Before
    BY DEF GraphInv, Before
  <1>1. /\ proc[w].at = "claimed" /\ Goes(w, "idle")
        /\ UNCHANGED <<deadline, effect, owed, faults>>
        /\ \/ Outcome(w, t, "cancelled", None)
           \/ Holds(w, t) /\ task[t].run = 0 /\ Transact(t, p, None, None, FALSE)
           \/ UNCHANGED <<task, ready, execution, group>>
    BY DEF LeaveClaim, Store
  <1>2. /\ proc[w] \in Procs /\ proc' \in [Workers -> Procs \cup {Idle}]
        /\ \A v \in Workers : v # w => proc'[v] = proc[v]
        /\ proc'[w] = Idle
    BY <1>0, <1>1, GoesOn
  <1>3. \A v \in Workers : Continues(v)
    BY <1>0, <1>2, Unmoved DEF Continues
  <1>4. Bookkeeping
    BY <1>0, <1>1, <1>2 DEF TypeOK, Bookkeeping
  <1>d. Debited(None)
    BY <1>1, <1>3, NothingOwed
  <1>5. t \in Tasks
    BY <1>2 DEF Procs
  <1>6. CASE Outcome(w, t, "cancelled", None)
    BY <1>1, <1>3, <1>4, <1>d, <1>5, <1>6, OutcomeStep
  <1>7. CASE Holds(w, t) /\ task[t].run = 0 /\ Transact(t, p, None, None, FALSE)
    <2> HIDE DEF t
    <2>1. task[t] \in Rows /\ task[t].status = "claimed"
      BY <1>0, <1>5, <1>7 DEF TypeOK, Holds
    <2>2. p \in Rows /\ p.status = "pending" /\ p.run = 0
      BY <1>7, <2>1 DEF Rows, Statuses, Waiting
    <2> HIDE DEF p
    <2>3. Request(t, p, None)
      BY <1>5, <2>1, <2>2 DEF Request, Terminal
    <2> QED
      BY <1>1, <1>3, <1>4, <1>d, <1>7, <2>2, <2>3, PlainStep
  <1>8. CASE UNCHANGED <<task, ready, execution, group>>
    BY <1>1, <1>3, <1>4, <1>d, <1>8, UnstoredStep
  <1> QED
    BY <1>1, <1>6, <1>7, <1>8

(* An effect is prepared only by the owner of a live claim, so never by a  *)
(* loser behind a barrier that is down.                                    *)
LEMMA PrepareEffectStep ==
    ASSUME GraphInv, NEW w \in Workers, PrepareEffect(w)
    PROVE  GraphInv'
  <1> DEFINE t == proc[w].task
  <1>0. TypeOK /\ WorkersInv /\ QuietInv
    BY DEF GraphInv
  <1>1. /\ task[t].status = "claimed" /\ t \in Tracked(task)
        /\ effect' = effect \cup {RootOf(t)}
        /\ UNCHANGED <<task, ready, execution, group, deadline, proc, owed, faults>>
    BY DEF PrepareEffect, Holds
  <1> HIDE DEF t
  <1>2. RootOf(t) \in Members
    BY <1>1, SuccessorsApart DEF Tracked, Lineage, RootOf
  <1>3. TypeOK'
    BY <1>0, <1>1, <1>2 DEF TypeOK
  <1>4. WorkersInv'
    <2>1. \A v \in Workers : Continues(v)
      BY <1>0, <1>1, NobodyMoves
    <2> QED
      BY <1>0, <1>1, <2>1, StillWorker DEF WorkersInv
  <1>5. QuietInv'
    <2> SUFFICES ASSUME group.barrier = "quiescent", NEW v \in LosingWork(task, group.losers)
                 PROVE  task[v].status \in Terminal /\ execution[v].settled
                        /\ RootOf(v) \notin effect'
      BY <1>1 DEF QuietInv, LosingWork, Lineage, HasEffect, RootOf
    <2>1. task[v].status \in Terminal /\ execution[v].settled /\ RootOf(v) \notin effect
      BY <1>0 DEF QuietInv, HasEffect
    <2>2. group.losers \subseteq Members
      BY <1>0 DEF TypeOK, Groups
    <2>3. RootOf(v) \in group.losers
      BY <2>2, SuccessorsApart DEF LosingWork, Lineage, RootOf
    <2>4. ASSUME RootOf(v) = RootOf(t)
          PROVE  FALSE
      <3>1. t \in LosingWork(task, group.losers)
        BY <1>1, <2>3, <2>4 DEF LosingWork, Lineage, RootOf, Tracked
      <3> QED
        BY <1>0, <1>1, <3>1 DEF QuietInv, Terminal
    <2> QED
      BY <1>1, <2>1, <2>4
  <1>6. Admitted(task)' /\ GraphConsistent' /\ GroupInv' /\ FinalizerInv' /\ ReadyInv'
    BY <1>1 DEF GraphInv, Admitted, GraphConsistent, GroupInv, FinalizerInv, ReadyInv, PrereqsCompleted
  <1>7. DecisionSound' /\ ExecutionInv' /\ LineageInv'
    BY <1>1 DEF GraphInv, DecisionSound, ExecutionInv, LineageInv, Tracked, Lineage
  <1>8. DebtsInv' /\ Apart'
    BY <1>1 DEF GraphInv, DebtsInv, Apart, Due, OnRecord, Tracked, Lineage
  <1> QED
    BY <1>3, <1>4, <1>5, <1>6, <1>7, <1>8 DEF GraphInv

LEMMA SettleEffectStep ==
    ASSUME GraphInv, NEW m \in Members, SettleEffect(m)
    PROVE  GraphInv'
  <1>0. TypeOK
    BY DEF GraphInv
  <1>1. /\ effect' = effect \ {m}
        /\ UNCHANGED <<task, ready, execution, group, deadline, proc, owed, faults>>
    BY DEF SettleEffect
  <1>2. Bookkeeping /\ effect' \subseteq effect
    BY <1>0, <1>1 DEF Bookkeeping, TypeOK
  <1> QED
    BY <1>0, <1>1, <1>2, NobodyMoves, NothingOwed, UnstoredStep

LEMMA CrashStep ==
    ASSUME GraphInv, NEW w \in Workers, Crash(w) \/ LostStops(w)
    PROVE  GraphInv'
  <1>0. TypeOK
    BY DEF GraphInv
  <1>1. /\ UNCHANGED <<task, ready, execution, group, deadline, effect>>
        /\ faults' \in 0..MaxFaults /\ owed' \subseteq owed
    BY <1>0, FaultType DEF Crash, LostStops, TypeOK
  <1>2. Goes(w, "idle") \/ (Goes(w, "lost") /\ proc[w].at = "running")
    BY DEF Crash, LostStops
  <1>3. /\ proc' \in [Workers -> Procs \cup {Idle}]
        /\ \A v \in Workers : Continues(v)
    <2>1. CASE Goes(w, "idle")
      BY <1>0, <2>1, GoesIdle
    <2>2. CASE Goes(w, "lost") /\ proc[w].at = "running"
      <3>1. /\ proc[w] # Idle /\ proc' \in [Workers -> Procs \cup {Idle}]
            /\ \A v \in Workers : v # w => proc'[v] = proc[v]
            /\ proc'[w].at = "lost" /\ proc'[w].task = proc[w].task /\ proc'[w].run = proc[w].run
        BY <1>0, <2>2, GoesOn
      <3> QED
        BY <1>0, <2>2, <3>1, Unmoved DEF Continues
    <2> QED
      BY <1>2, <2>1, <2>2
  <1>4. Bookkeeping
    BY <1>0, <1>1, <1>3 DEF TypeOK, Bookkeeping
  <1> QED
    BY <1>1, <1>3, <1>4, NothingOwed, UnstoredStep

(* An expiry changes no status, no owner and no marker. *)
LEMMA ExpireStep ==
    ASSUME GraphInv, NEW t \in Tasks, Expire(t)
    PROVE  GraphInv'
  <1>0. TypeOK /\ WorkersInv
    BY DEF GraphInv
  <1> DEFINE n == [task[t] EXCEPT !.expired = TRUE]
  <1>1. /\ task' = [task EXCEPT ![t] = n] /\ faults' \in 0..MaxFaults
        /\ UNCHANGED <<ready, execution, group, deadline, effect, proc, owed>>
    BY <1>0, FaultType DEF Expire
  <1>2. /\ n \in Rows /\ n.status = task[t].status /\ n.worker = task[t].worker
        /\ n.run = task[t].run
    BY <1>0 DEF TypeOK, Rows
  <1> HIDE DEF n
  <1>3. \A u \in Tasks : /\ task'[u].status = task[u].status
                         /\ task'[u].worker = task[u].worker /\ task'[u].run = task[u].run
    BY <1>0, <1>1, <1>2 DEF TypeOK
  <1>4. TypeOK'
    BY <1>0, <1>1, <1>2 DEF TypeOK
  <1>5. WorkersInv'
    BY <1>0, <1>1, <1>3, StillWorker, NobodyMoves DEF WorkersInv
  <1>6. \A u \in Graph : (PrereqsCompleted(task, u)' <=> PrereqsCompleted(task, u))
    BY <1>3, SuccessorsApart DEF PrereqsCompleted
  <1>7. Admitted(task)' /\ GraphConsistent'
    BY <1>3, <1>4, <1>6, SuccessorsApart DEF GraphInv, Admitted, GraphConsistent, TypeOK
  <1>8. Finalizer # None => Finalizer \in Tasks
    BY GraphConstants, SuccessorsApart
  <1>9. GroupInv' /\ FinalizerInv'
    BY <1>1, <1>3, <1>8, SuccessorsApart DEF GraphInv, GroupInv, FinalizerInv
  <1>10. ReadyInv'
    BY <1>1, <1>3, <1>6, SuccessorsApart DEF GraphInv, ReadyInv
  <1>11. DecisionSound'
    <2>1. Successes(task') = Successes(task) /\ Failures(task') = Failures(task)
      BY <1>3, SuccessorsApart DEF Successes, Failures
    <2>2. Kind # "none" => Sound(task, group.decision, group.winners)
      BY DEF GraphInv, DecisionSound, Sound, Successes, Failures
    <2>3. Kind # "none" => Sound(task', group'.decision, group'.winners)
      BY <1>1, <2>1, <2>2 DEF Sound
    <2> QED
      BY <2>3, SoundIsDecisionSound
  <1>12. Lineage(task)' = Lineage(task) /\ Tracked(task)' = Tracked(task)
         /\ Lineage(task) \subseteq Tasks /\ Tracked(task) \subseteq Tasks
    BY <1>3, SuccessorsApart DEF Lineage, Tracked
  <1>13. ExecutionInv' /\ LineageInv'
    BY <1>1, <1>3, <1>12, SuccessorsApart DEF GraphInv, ExecutionInv, LineageInv, Lineage
  <1>14. QuietInv'
    <2>1. group.losers \subseteq Tasks
      BY <1>0, SuccessorsApart DEF TypeOK, Groups
    <2>2. LosingWork(task, group.losers)' = LosingWork(task, group.losers)
          /\ LosingWork(task, group.losers) \subseteq Tasks
      BY <1>1, <1>12, <2>1 DEF LosingWork
    <2> QED
      BY <1>1, <1>3, <2>2 DEF GraphInv, QuietInv, HasEffect
  <1>15. DebtsInv' /\ Apart'
    <2>1. \A o \in owed : o.task \in Tasks
      BY <1>0 DEF TypeOK, Debts
    <2> QED
      BY <1>1, <1>3, <1>12, <2>1 DEF GraphInv, DebtsInv, Apart, Due, OnRecord
  <1> QED
    BY <1>4, <1>5, <1>7, <1>9, <1>10, <1>11, <1>13, <1>14, <1>15 DEF GraphInv

(* The calls of others: workers go on, and nothing else but rows, events,  *)
(* records, the group and the faults changes.                              *)
LEMMA CallStep ==
    ASSUME GraphInv, NEW t \in Tasks, NEW p, Request(t, p, None), Store(t, p),
           p.status = "claimed" =>
              task[t].status = "claimed" /\ p.worker = task[t].worker /\ p.run = task[t].run,
           UNCHANGED <<deadline, effect, proc, owed>>, UNCHANGED faults \/ Fault
    PROVE  GraphInv'
  <1>0. TypeOK
    BY DEF GraphInv
  <1>1. Bookkeeping
    BY <1>0, FaultType DEF Bookkeeping, TypeOK
  <1>2. Transact(t, p, None, None, FALSE)
    BY DEF Store
  <1> QED
    BY <1>0, <1>1, <1>2, NobodyMoves, NothingOwed, PlainStep

LEMMA ReclaimStep ==
    ASSUME GraphInv, NEW t \in Tasks, Reclaim(t)
    PROVE  GraphInv'
  <1>0. task[t] \in Rows /\ task[t].status = "claimed" /\ UNCHANGED <<deadline, effect, proc, owed, faults>>
    BY DEF GraphInv, TypeOK, Reclaim
  <1>1. CASE task[t].run = 0
    <2> DEFINE p == [task[t] EXCEPT !.status = "pending", !.worker = None, !.expired = FALSE]
    <2>1. Store(t, p)
      BY <1>1 DEF Reclaim
    <2>2. p \in Rows /\ p.status = "pending" /\ p.run = 0
      BY <1>0, <1>1 DEF Rows, Statuses, Waiting
    <2> HIDE DEF p
    <2>3. Request(t, p, None)
      BY <1>0, <2>2 DEF Request, Terminal
    <2> QED
      BY <1>0, <2>1, <2>2, <2>3, CallStep
  <1>2. CASE task[t].run # 0
    <2> DEFINE p == [task[t] EXCEPT !.requested = TRUE]
    <2>1. Store(t, p)
      BY <1>2 DEF Reclaim
    <2>2. p \in Rows /\ p.status = "claimed" /\ p.run = task[t].run /\ p.worker = task[t].worker
      BY <1>0, RequestedRow
    <2> HIDE DEF p
    <2>3. Request(t, p, None)
      BY <1>0, <2>2 DEF Request, Terminal
    <2> QED
      BY <1>0, <2>1, <2>2, <2>3, CallStep
  <1> QED
    BY <1>1, <1>2

LEMMA HoldStep ==
    ASSUME GraphInv, NEW t \in Tasks, Hold(t)
    PROVE  GraphInv'
  <1> DEFINE p == [task[t] EXCEPT !.status = "held", !.worker = None, !.expired = FALSE]
  <1>0. /\ task[t] \in Rows /\ task[t].status \in Waiting \cup {"claimed"} /\ Store(t, p)
        /\ UNCHANGED <<deadline, effect, proc, owed>> /\ Fault
    BY DEF GraphInv, TypeOK, Hold
  <1>1. p \in Rows /\ p.status = "held" /\ p.run = task[t].run
    BY <1>0 DEF Rows, Statuses, Waiting
  <1> HIDE DEF p
  <1>2. Request(t, p, None)
    BY <1>0, <1>1 DEF Request, Terminal, Waiting
  <1> QED
    BY <1>0, <1>1, <1>2, CallStep

(* A held execution is resumed without its marker. *)
LEMMA ResumeStep ==
    ASSUME GraphInv, NEW t \in Tasks, Resume(t)
    PROVE  GraphInv'
  <1> DEFINE run == IF execution[t].run = 0 THEN task[t].run ELSE 0
             p == [task[t] EXCEPT !.status = "pending", !.run = run]
  <1>0. /\ task[t] \in Rows /\ task[t].status = "held"
        /\ UNCHANGED <<deadline, effect, proc, owed, faults>>
    BY DEF GraphInv, TypeOK, Resume
  <1>1. Store(t, p)
    BY DEF Resume
  <1>2. run \in 0..MaxRuns
    BY <1>0, GraphConstants DEF Rows
  <1>3. t \in Tracked(task) => run = 0
    BY <1>0 DEF GraphInv, ExecutionInv, Terminal
  <1> HIDE DEF run
  <1>4. p \in Rows /\ p.status = "pending" /\ p.run = run
    BY <1>0, <1>2 DEF Rows, Statuses, Waiting
  <1> HIDE DEF p
  <1>5. Request(t, p, None)
    BY <1>0, <1>3, <1>4 DEF Request, Terminal
  <1> QED
    BY <1>0, <1>1, <1>4, <1>5, CallStep

LEMMA CancelTaskStep ==
    ASSUME GraphInv, NEW t \in Tasks, CancelTask(t)
    PROVE  GraphInv'
  <1>0. /\ Before /\ task[t] \in Rows /\ task[t].status \in Waiting \cup {"claimed"}
        /\ UNCHANGED <<deadline, effect, proc, owed, faults>>
    BY DEF GraphInv, Before, TypeOK, CancelTask
  <1>1. CASE task[t].status = "claimed"
    <2> DEFINE p == [task[t] EXCEPT !.requested = TRUE]
    <2>1. Store(t, p)
      BY <1>1 DEF CancelTask
    <2>2. p \in Rows /\ p.status = "claimed" /\ p.run = task[t].run /\ p.worker = task[t].worker
      BY <1>0, <1>1, RequestedRow
    <2> HIDE DEF p
    <2>3. Request(t, p, None)
      BY <1>1, <2>2 DEF Request, Terminal
    <2> QED
      BY <1>0, <1>1, <2>1, <2>2, <2>3, CallStep
  <1>2. CASE task[t].status # "claimed"
    <2>1. Store(t, Closed(task[t], "cancelled"))
      BY <1>2 DEF CancelTask
    <2>2. Request(t, Closed(task[t], "cancelled"), None)
      BY <1>0, ClosedRequest
    <2>3. Closed(task[t], "cancelled").status # "claimed"
      BY <1>0, ClosedRow DEF Terminal
    <2> QED
      BY <1>0, <2>1, <2>2, <2>3, CallStep
  <1> QED
    BY <1>1, <1>2

LEMMA FinishTaskStep ==
    ASSUME GraphInv, NEW t \in Tasks, NEW status \in {"completed", "failed"}, FinishTask(t, status)
    PROVE  GraphInv'
  <1>0. /\ Before /\ task[t] \in Rows /\ task[t].status \in Waiting \cup {"claimed"}
        /\ Store(t, Closed(task[t], status))
        /\ UNCHANGED <<deadline, effect, proc, owed, faults>>
    BY DEF GraphInv, Before, TypeOK, FinishTask
  <1>1. Request(t, Closed(task[t], status), None)
    BY <1>0, ClosedRequest
  <1>2. Closed(task[t], status).status # "claimed"
    BY <1>0, ClosedRow DEF Terminal
  <1> QED
    BY <1>0, <1>1, <1>2, CallStep

(* A reconciled cancellation settles an execution that does not run any    *)
(* more, of a task that is terminal from then on.                          *)
LEMMA ReconcileCancellationStep ==
    ASSUME GraphInv, NEW t \in Tasks, ReconcileCancellation(t)
    PROVE  GraphInv'
  <1> DEFINE p == Closed(task[t], "cancelled")
  <1>0. /\ Before /\ TypeOK /\ task[t] \in Rows /\ task[t].status = "claimed"
        /\ UNCHANGED <<deadline, effect, proc, owed, faults>>
        /\ \A w \in Workers : proc[w].task = t => proc[w].at \notin {"running", "lost"}
    BY DEF GraphInv, Before, TypeOK, ReconcileCancellation
  <1>1. PICK ack \in {t, None} : Transact(t, p, None, ack, FALSE)
    BY DEF ReconcileCancellation
  <1>2. Request(t, p, None)
    BY <1>0, ClosedRequest
  <1>3. p.status \in Terminal
    BY <1>0, ClosedRow DEF Terminal
  <1> HIDE DEF p
  <1>4. Bookkeeping /\ \A w \in Workers : Continues(w)
    BY <1>0, NobodyMoves DEF Bookkeeping, TypeOK
  <1>5. None \notin Tracked(task)
    BY SuccessorsApart DEF Tracked, Lineage
  <1>6. \A w \in Workers : ack = proc'[w].task /\ ack \in Tracked(task) =>
           \/ proc'[w].at \notin {"running", "lost", "returned"}
           \/ proc'[w].at \notin {"running", "lost"} /\ t = ack /\ p.status \in Terminal
    BY <1>0, <1>3, <1>5
  <1>7. p.status # "claimed"
    BY <1>3 DEF Terminal
  <1>8. /\ Debited(ack)
        /\ \A o \in owed' : ack = o.task => o.committed \/ (t = ack /\ p.status \in Terminal)
    <2>1. Debited(None)
      BY <1>0, <1>4, NothingOwed
    <2>2. \A o \in owed' : o.task # None
      BY <2>1, SuccessorsApart DEF Debited, Debts
    <2> QED
      BY <1>3, <2>1, <2>2 DEF Debited, Due
  <1> QED
    BY <1>0, <1>1, <1>2, <1>3, <1>4, <1>6, <1>7, <1>8, ChangeStep

(* Maintenance and the resolution of an attention change no row themselves. *)
LEMMA MaintenanceStep ==
    ASSUME GraphInv, Reconcile \/ Resolve
    PROVE  GraphInv'
  <1>0. /\ Before /\ TypeOK /\ UNCHANGED <<deadline, effect, proc, owed, faults>>
        /\ group.barrier # "waiting_decision"
    BY DEF GraphInv, Before, Reconcile, Resolve
  <1>1. PICK resolve \in BOOLEAN : Transact(FirstMember, task[FirstMember], None, None, resolve)
    BY DEF Reconcile, Resolve, Store
  <1>2. Kind = "quiescence"
    BY <1>0 DEF Before, GroupInv
  <1>3. FirstMember \in Tasks /\ task[FirstMember].status # "absent"
    BY <1>0, <1>2, FirstMemberIsThere DEF Before, Admitted
  <1>4. Request(FirstMember, task[FirstMember], None)
    BY <1>0, <1>3, SameRequest
  <1>5. Bookkeeping /\ \A w \in Workers : Continues(w)
    BY <1>0, NobodyMoves DEF Bookkeeping, TypeOK
  <1> QED
    BY <1>0, <1>1, <1>4, <1>5, NothingOwed, PlainStep

LEMMA DeadlineStep ==
    ASSUME GraphInv, DeadlinePasses
    PROVE  GraphInv'
  <1>0. TypeOK
    BY DEF GraphInv
  <1>1. /\ UNCHANGED <<task, ready, execution, group, effect, proc, owed, faults>> /\ deadline' = TRUE
    BY DEF DeadlinePasses
  <1>2. Bookkeeping /\ \A w \in Workers : Continues(w)
    BY <1>0, <1>1, NobodyMoves DEF Bookkeeping, TypeOK
  <1> QED
    BY <1>1, <1>2, NothingOwed, UnstoredStep

-----------------------------------------------------------------------------
(* The theorems. *)

LEMMA InitInv == ASSUME Init PROVE GraphInv
  <1>1. \A u \in Tasks : task[u] \in Rows /\ execution[u] = NoExecution
    <2>1. NoExecution \in Executions
      BY GraphConstants DEF NoExecution, Executions
    <2>2. \A s \in {"absent", "waiting_group", "waiting_dependencies", "pending"} : Row(s) \in Rows
      BY FreshRow DEF Statuses, Waiting
    <2> QED
      BY <2>1, <2>2 DEF Init
  <1>2. /\ \A s \in Successors : task[s] = Row("absent") /\ task[s].status = "absent"
        /\ \A u \in Graph : /\ task[u].run = 0
                            /\ task[u].status = IF u = Finalizer THEN "waiting_group"
                                                ELSE IF Prereqs[u] # {} THEN "waiting_dependencies"
                                                ELSE "pending"
    <2>1. \A s \in {"absent", "waiting_group", "waiting_dependencies", "pending"} :
             Row(s).status = s /\ Row(s).run = 0
      BY FreshRow DEF Statuses, Waiting
    <2> QED
      BY <2>1, SuccessorsApart DEF Init
  <1>3. /\ ready = [t \in Graph |-> IF t # Finalizer /\ Prereqs[t] = {} THEN 1 ELSE 0]
        /\ group = [decision |-> "pending", winners |-> {}, barrier |-> "waiting_decision",
                    losers |-> {}, unsettled |-> {},
                    finalizer |-> IF Finalizer = None THEN "absent" ELSE "waiting"]
        /\ deadline = FALSE /\ effect = {} /\ proc = [w \in Workers |-> Idle] /\ owed = {}
        /\ faults = 0
    BY DEF Init
  <1>4. TypeOK
    <2>1. task \in [Tasks -> Rows] /\ execution \in [Tasks -> Executions]
      <3>1. task = [u \in Tasks |-> task[u]] /\ execution = [u \in Tasks |-> NoExecution]
        BY DEF Init
      <3>2. NoExecution \in Executions
        BY GraphConstants DEF NoExecution, Executions
      <3> QED
        BY <1>1, <3>1, <3>2
    <2>2. group \in Groups
      BY <1>3 DEF Groups
    <2>3. ready \in [Graph -> 0..2] /\ proc \in [Workers -> Procs \cup {Idle}]
      BY <1>3
    <2>4. deadline \in BOOLEAN /\ effect \in SUBSET Members /\ owed \in SUBSET Debts
      BY <1>3, Zenon
    <2>5. faults \in 0..MaxFaults
      <3>1. MaxFaults \in Nat
        BY GraphConstants
      <3>2. faults = 0
        BY <1>3
      <3> QED
        BY <3>1, <3>2
    <2> QED
      BY <2>1, <2>2, <2>3, <2>4, <2>5 DEF TypeOK
  <1>5. Admitted(task)
    BY <1>2, <1>4 DEF Admitted, TypeOK
  <1>6. \A u \in Graph : task[u].status \notin Terminal
    BY <1>2 DEF Terminal
  <1>7. GraphConsistent
    <2>1. \A u \in Graph : PrereqsCompleted(task, u) <=> Prereqs[u] = {}
      BY <1>6, SuccessorsApart DEF PrereqsCompleted, Terminal
    <2> QED
      BY <1>2, <1>6, <2>1, SuccessorsApart DEF GraphConsistent, Failure
  <1>8. GroupInv
    BY <1>3 DEF GroupInv
  <1>9. Finalizer # None => Finalizer \in Graph
    BY GraphConstants
  <1>10. FinalizerInv
    BY <1>2, <1>3, <1>9, SuccessorsApart DEF FinalizerInv
  <1>11. ReadyInv
    BY <1>2, <1>3 DEF ReadyInv, PrereqsCompleted
  <1>12. DecisionSound
    <2>1. {m \in Members : task[m].status = "completed"} = {}
          /\ {m \in Members : task[m].status \in Failure} = {}
      BY <1>6, SuccessorsApart DEF Failure, Terminal
    <2>2. Cardinality({}) = 0 /\ Members \ {} = Members
      BY FS_EmptySet
    <2>3. Kind # "none" => Cardinality(Members) >= Required /\ 0 < Required
      BY MembersFinite, GraphConstants
    <2> QED
      BY <1>3, <2>1, <2>2, <2>3 DEF DecisionSound
  <1>13. Lineage(task) = {}
    BY <1>2 DEF Lineage
  <1>14. ExecutionInv /\ LineageInv
    BY <1>2, <1>13, SuccessorsApart DEF ExecutionInv, LineageInv, Tracked
  <1>15. WorkersInv /\ QuietInv /\ DebtsInv /\ Apart
    BY <1>3 DEF WorkersInv, WorkerInv, QuietInv, DebtsInv, Apart
  <1> QED
    BY <1>4, <1>5, <1>7, <1>8, <1>10, <1>11, <1>12, <1>14, <1>15 DEF GraphInv

LEMMA NextInv == ASSUME GraphInv, [Next]_vars PROVE GraphInv'
  <1>1. CASE UNCHANGED vars
    <2>1. TypeOK
      BY DEF GraphInv
    <2>2. Bookkeeping /\ \A w \in Workers : Continues(w)
      BY <1>1, <2>1, NobodyMoves DEF vars, Bookkeeping, TypeOK
    <2> QED
      BY <1>1, <2>2, NothingOwed, UnstoredStep DEF vars
  <1>2. ASSUME NEW w \in Workers, WorkerStep(w)
        PROVE  GraphInv'
    BY <1>2, ClaimStep, MarkStartedStep, HandlerReturnsStep, AcknowledgeStep, PublishStep,
       LeaveClaimStep, PrepareEffectStep, CrashStep DEF WorkerStep
  <1>3. ASSUME NEW t \in Tasks, TaskCall(t)
        PROVE  GraphInv'
    BY <1>3, ExpireStep, ReclaimStep, HoldStep, ResumeStep, CancelTaskStep, FinishTaskStep,
       ReconcileCancellationStep DEF TaskCall
  <1>4. ASSUME NEW m \in Members, SettleEffect(m)
        PROVE  GraphInv'
    BY <1>4, SettleEffectStep
  <1>o. ASSUME NEW o \in owed, ReadBack(o) \/ Retry(o)
        PROVE  GraphInv'
    BY <1>o, ReadBackStep, RetryStep
  <1>5. CASE Reconcile \/ Resolve
    BY <1>5, MaintenanceStep
  <1>6. CASE DeadlinePasses
    BY <1>6, DeadlineStep
  <1> QED
    BY <1>1, <1>2, <1>3, <1>4, <1>o, <1>5, <1>6 DEF Next

(* Behind a barrier that is down no handler of a loser runs. *)
LEMMA QuietRunning == GraphInv /\ group.barrier = "quiescent" => Running \cap group.losers = {}
  <1> SUFFICES ASSUME GraphInv, group.barrier = "quiescent", NEW m \in group.losers,
                      NEW w \in Workers, proc[w].at \in {"running", "lost"}, proc[w].task # None,
                      RootOf(proc[w].task) = m
               PROVE  FALSE
    BY DEF Running
  <1> DEFINE t == proc[w].task
  <1>0. TypeOK /\ GroupInv /\ QuietInv /\ WorkersInv
    BY DEF GraphInv
  <1>1. \A u \in LosingWork(task, group.losers) : execution[u].settled
    BY <1>0 DEF QuietInv
  <1>2. m \in Members
    BY <1>0 DEF TypeOK, Groups
  <1>3. proc[w] # Idle
    BY DEF Idle
  <1>4. t \in Tasks /\ task[t].status # "absent"
    BY <1>0, <1>3 DEF TypeOK, Procs, WorkersInv, WorkerInv
  <1>5. t \in LosingWork(task, group.losers)
    BY <1>4 DEF LosingWork, Lineage, RootOf
  <1>6. t \in Tracked(task)
    BY <1>0, <1>2, <1>4 DEF GroupInv, Tracked, Lineage, RootOf
  <1>7. ~execution[t].settled
    BY <1>0, <1>3, <1>6 DEF WorkersInv, WorkerInv
  <1> QED
    BY <1>1, <1>5, <1>7

(* The inductive invariant of graphs, groups and their workers: every      *)
(* handler of a task, worker, lease, maintenance and retry keeps it.       *)
THEOREM GraphInvariant == Spec => []GraphInv
  BY InitInv, NextInv, PTL DEF Spec

(* Rows, records, the group and the workers keep their types: only members *)
(* win and are waited for, markers and faults stay in their bounds.        *)
THEOREM TypeCorrect == Spec => []TypeOK
  <1>1. GraphInv => TypeOK
    BY DEF GraphInv
  <1> QED
    BY <1>1, GraphInvariant, PTL

(* After every transaction of store_graph_task the whole graph is settled: *)
(* what runs or is completed has its prerequisites, nothing that can still *)
(* run has a failed one, and nothing waits in vain.                        *)
THEOREM GraphStaysConsistent == Spec => []GraphConsistent
  <1>1. GraphInv => GraphConsistent
    BY DEF GraphInv
  <1> QED
    BY <1>1, GraphInvariant, PTL

(* plan_graph_transition and the release of the finalizer announce a task  *)
(* once, and none runs unannounced.                                        *)
THEOREM AnnouncedOnce == Spec => []ReadyOnce
  <1>1. GraphInv => ReadyOnce
    BY DEF GraphInv, ReadyInv, ReadyOnce
  <1> QED
    BY <1>1, GraphInvariant, PTL

(* plan_group_transition decides what the outcomes of the members force,   *)
(* as soon as they do, and a decision stays true of them.                  *)
THEOREM DecisionsAreSound == Spec => []DecisionSound
  <1>1. GraphInv => DecisionSound
    BY DEF GraphInv
  <1> QED
    BY <1>1, GraphInvariant, PTL

(* settle_execution accepts the acknowledgement of every worker whose      *)
(* handler ran, and of every other one that was not committed before: it   *)
(* finds its own execution on record, unsettled while the handler runs.    *)
(* The repetition of a committed one, whose answer was lost, settles       *)
(* nothing, whoever executes the task by then.                             *)
THEOREM AcknowledgementsAlwaysMatch == Spec => []AcknowledgementsMatch
  <1>1. ASSUME GraphInv
        PROVE  AcknowledgementsMatch
    <2>0. WorkersInv /\ DebtsInv /\ TypeOK
      BY <1>1 DEF GraphInv
    <2>1. ASSUME NEW w \in Workers, proc[w].at \in {"running", "lost", "returned"},
                 proc[w].task \in Tracked(task)
          PROVE  /\ OnRecord(proc[w].task, w, proc[w].run)
                 /\ proc[w].at # "returned" => ~execution[proc[w].task].settled
      <3>1. proc[w] # Idle
        BY <2>1 DEF Idle
      <3> QED
        BY <2>0, <2>1, <3>1 DEF WorkersInv, WorkerInv, CanAcknowledge
    <2>2. ASSUME NEW o \in owed
          PROVE  IF o.committed
                 THEN OnRecord(o.task, o.worker, o.run) => execution[o.task].settled
                 ELSE OnRecord(o.task, o.worker, o.run)
      <3>1. Due(o, None) /\ o.task # None
        BY <2>0, SuccessorsApart DEF DebtsInv, TypeOK, Debts
      <3> QED
        BY <3>1 DEF Due, OnRecord
    <2> QED
      BY <2>1, <2>2 DEF AcknowledgementsMatch
  <1> QED
    BY <1>1, GraphInvariant, PTL

(* plan_group_graph_transition does not leave a finalizer waiting for a    *)
(* barrier that is down, nor waiting at all once its group has failed.     *)
THEOREM FinalizerIsReleased == Spec => []FinalizerNotStranded
  <1>1. ASSUME GraphInv
        PROVE  FinalizerNotStranded
    <2>1. Finalizer # None => Finalizer \in Graph
      BY GraphConstants
    <2> QED
      BY <1>1, <2>1 DEF GraphInv, GroupInv, FinalizerInv, FinalizerNotStranded, Failure
  <1> QED
    BY <1>1, GraphInvariant, PTL

(* The finalizer runs only when no handler and no local effect of a loser, *)
(* or of a retry of a loser, is left: the barrier of                       *)
(* plan_group_graph_transition holds whatever leases expire, workers die   *)
(* and acknowledgements are lost.                                          *)
THEOREM FinalizerRunsAfterLosers == Spec => []FinalizerAfterLosers
  <1>1. ASSUME GraphInv
        PROVE  FinalizerAfterLosers
    <2> SUFFICES ASSUME Finalizer # None,
                        task[Finalizer].status \in {"pending", "claimed", "completed"},
                        NEW m \in group.losers
                 PROVE  m \notin Running /\ m \notin effect
      BY DEF FinalizerAfterLosers
    <2>0. TypeOK /\ GroupInv /\ FinalizerInv /\ QuietInv /\ WorkersInv /\ Admitted(task)
      BY <1>1 DEF GraphInv
    <2>1. group.finalizer \notin {"absent", "waiting", "ineligible"}
      BY <2>0 DEF GroupInv, FinalizerInv, Failure, Terminal
    <2>2. group.barrier = "quiescent"
      BY <2>0, <2>1 DEF GroupInv, TypeOK, Groups
    <2>3. \A t \in LosingWork(task, group.losers) :
             task[t].status \in Terminal /\ execution[t].settled /\ ~HasEffect(t)
      BY <2>0, <2>2 DEF QuietInv
    <2>4. m \in Members /\ m \notin Successors
      BY <2>0, SuccessorsApart DEF TypeOK, Groups
    <2>5. m \notin effect
      BY <2>3, <2>4 DEF LosingWork, HasEffect, RootOf
    <2>6. m \notin Running
      BY <1>1, <2>2, QuietRunning
    <2> QED
      BY <2>5, <2>6
  <1> QED
    BY <1>1, GraphInvariant, PTL

-----------------------------------------------------------------------------
(* The rows implement the barrier. *)

(* A decision is never revised, and a barrier never raised again. *)
LEMMA TransactDecides ==
    ASSUME GraphInv, Kind = "quiescence", NEW t, NEW p, NEW successor, NEW ack, NEW resolve,
           Transact(t, p, successor, ack, resolve), group.decision # "pending"
    PROVE  /\ group'.decision = group.decision /\ group'.winners = group.winners
           /\ group.barrier = "quiescent" => group'.barrier = "quiescent"
  <1>0. TypeOK
    BY DEF GraphInv
  <1>1. PICK ts, decided :
              /\ PlanStep(t, p, successor, ack, resolve, ts, decided)
              /\ \/ QuietStep(ts, decided, resolve)
                 \/ /\ Kind = "quiescence" /\ decided[1] # "pending"
                    /\ \E direct, t1, unsettled, barrier, finalizer :
                          DrainStep(ts, execution', decided, resolve, direct, t1, unsettled,
                                    barrier, finalizer)
    BY TransactParts
  <1>2. decided[1] = group.decision /\ decided[2] = group.winners
    BY <1>0, <1>1, DecidedOnce DEF PlanStep
  <1>3. ~QuietStep(ts, decided, resolve)
    BY <1>2 DEF QuietStep
  <1>4. PICK direct, t1, unsettled, barrier, finalizer :
           DrainStep(ts, execution', decided, resolve, direct, t1, unsettled, barrier, finalizer)
    BY <1>1, <1>3
  <1>5. group'.decision = decided[1] /\ group'.winners = decided[2] /\ group'.barrier = barrier
    BY <1>4 DEF DrainStep
  <1>6. group.barrier = "quiescent" => barrier = "quiescent"
    BY <1>4 DEF DrainStep, Barrier
  <1> QED
    BY <1>2, <1>5, <1>6

LEMMA SameCardinality == ASSUME NEW S PROVE Promise!Cardinality(S) = Cardinality(S)
  BY Zenon DEF Promise!Cardinality, Cardinality

(* A transaction elects, releases, or is not seen. *)
LEMMA TransactBarrier ==
    ASSUME GraphInv, GraphInv', Kind = "quiescence",
           NEW t, NEW p, NEW successor, NEW ack, NEW resolve,
           Transact(t, p, successor, ack, resolve), Running' = Running
    PROVE  [Promise!Next]_Promise!vars
  <1>0. TypeOK /\ GroupInv /\ GroupInv' /\ DecisionSound' /\ group' \in Groups /\ group \in Groups
    BY DEF GraphInv, TypeOK
  <1>1. group'.barrier = "quiescent" => Running \cap group'.losers = {}
    <2>1. (GraphInv /\ group.barrier = "quiescent" => Running \cap group.losers = {})'
      BY QuietRunning, PTL
    <2> QED
      BY <2>1
  <1>2. group'.barrier = "quiescent" => group'.losers = Members \ group'.winners
    BY <1>0 DEF GroupInv
  <1>3. Running \subseteq Members
    BY DEF Running
  <1>4. group'.barrier = "quiescent" => Running \subseteq group'.winners
    BY <1>1, <1>2, <1>3
  <1>5. CASE group.decision # "pending"
    <2>1. /\ group'.decision = group.decision /\ group'.winners = group.winners
          /\ group.barrier = "quiescent" => group'.barrier = "quiescent"
      BY <1>5, TransactDecides
    <2>2. CASE group.decision = "succeeded" /\ group'.barrier = "quiescent"
      <3>1. Promise!Release
        BY <1>4, <2>1, <2>2 DEF Promise!Release, Promise!Losers
      <3> QED
        BY <3>1 DEF Promise!Next
    <2>3. CASE ~(group.decision = "succeeded" /\ group'.barrier = "quiescent")
      <3>1. UNCHANGED Promise!vars
        BY <2>1, <2>3 DEF Promise!vars
      <3> QED
        BY <3>1
    <2> QED
      BY <2>2, <2>3
  <1>6. CASE group.decision = "pending" /\ group'.decision = "pending"
    <2>1. group.winners = {} /\ group'.winners = {}
      BY <1>0, <1>6 DEF GroupInv
    <2>2. UNCHANGED Promise!vars
      BY <1>6, <2>1 DEF Promise!vars
    <2> QED
      BY <2>2
  <1>7. CASE group.decision = "pending" /\ group'.decision = "succeeded"
    <2>1. group'.winners \in SUBSET Members /\ Cardinality(group'.winners) = Required
      BY <1>0, <1>7 DEF DecisionSound, Groups
    <2>2. Promise!Elect
      BY <1>4, <1>7, <2>1, SameCardinality DEF Promise!Elect
    <2> QED
      BY <2>2 DEF Promise!Next
  <1>8. CASE group.decision = "pending" /\ group'.decision = "failed"
    <2>1. group'.winners = {}
      BY <1>0, <1>8 DEF GroupInv
    <2>2. Promise!Elect
      BY <1>8, <2>1 DEF Promise!Elect
    <2> QED
      BY <2>2 DEF Promise!Next
  <1> QED
    BY <1>0, <1>5, <1>6, <1>7, <1>8 DEF Groups

(* A worker's share of Running. *)
Runs(w, m) ==
    proc[w].at \in {"running", "lost"} /\ proc[w].task # None /\ RootOf(proc[w].task) = m

LEMMA RunningOf == Running = {m \in Members : \E w \in Workers : Runs(w, m)}
  BY DEF Running, Runs

LEMMA RunningNext == Running' = {m \in Members : \E w \in Workers : Runs(w, m)'}
  BY DEF Running, Runs, RootOf

(* A worker that does not begin or end an execution is not seen. *)
LEMMA SameRunning ==
    ASSUME NEW w \in Workers, \A v \in Workers : v # w => proc'[v] = proc[v],
           \/ /\ proc[w].at \notin {"running", "lost"} /\ proc'[w].at \notin {"running", "lost"}
           \/ /\ proc[w].at \in {"running", "lost"} /\ proc'[w].at \in {"running", "lost"}
              /\ proc'[w].task = proc[w].task
    PROVE  Running' = Running
  <1>1. \A v \in Workers : \A m \in Members : Runs(v, m)' <=> Runs(v, m)
    BY DEF Runs, RootOf
  <1> QED
    BY <1>1, RunningOf, RunningNext

LEMMA StillRunning == ASSUME UNCHANGED proc PROVE Running' = Running
  BY DEF Running, RootOf

(* The steps that store, other than the start of a handler. *)
LEMMA StoringSteps ==
    ASSUME GraphInv, Next, \A w \in Workers : ~MarkStarted(w)
    PROVE  \/ /\ Running' = Running
              /\ \/ UNCHANGED group
                 \/ \E t, p, successor, ack, resolve : Transact(t, p, successor, ack, resolve)
           \/ \E w \in Workers : HandlerReturns(w) \/ LostStops(w)
  <1> DEFINE Storing == \/ UNCHANGED group
                        \/ \E t, p, successor, ack, resolve :
                              Transact(t, p, successor, ack, resolve)
  <1>0. TypeOK
    BY DEF GraphInv
  <1>1. ASSUME NEW w \in Workers, WorkerStep(w), ~HandlerReturns(w), ~LostStops(w)
        PROVE  Running' = Running /\ Storing
    <2>1. ASSUME NEW t \in Tasks, Claim(w, t)
          PROVE  Running' = Running /\ Storing
      <3>1. /\ proc[w] = Idle /\ proc' = [proc EXCEPT ![w] = [at |-> "claimed", task |-> t, run |-> 0]]
            /\ Transact(t, [task[t] EXCEPT !.status = "claimed", !.worker = w], None, None, FALSE)
        BY <2>1 DEF Claim, Store
      <3>2. proc'[w].at = "claimed" /\ \A v \in Workers : v # w => proc'[v] = proc[v]
        BY <1>0, <3>1 DEF TypeOK
      <3>3. Running' = Running
        BY <3>1, <3>2, SameRunning DEF Idle
      <3> QED
        BY <3>1, <3>3
    <2>2. CASE Acknowledge(w) \/ Publish(w) \/ LeaveClaim(w)
      <3>1. PICK at \in {"idle", "acknowledged"} :
               Goes(w, at) /\ proc[w].at \notin {"idle", "running", "lost"}
        BY <2>2 DEF Acknowledge, Publish, LeaveClaim
      <3>2. /\ \A v \in Workers : v # w => proc'[v] = proc[v]
            /\ proc'[w].at = at
        BY <1>0, <3>1, GoesOn DEF Idle
      <3>3. Running' = Running
        BY <3>1, <3>2, SameRunning
      <3>4. Storing
        BY <2>2 DEF Acknowledge, Publish, LeaveClaim, Outcome, Settle, Store
      <3> QED
        BY <3>3, <3>4
    <2>3. CASE PrepareEffect(w)
      BY <2>3, StillRunning DEF PrepareEffect
    <2>4. CASE Crash(w)
      <3>1. PICK at \in {"idle", "lost"} :
               /\ Goes(w, at) /\ proc[w].at # "lost"
               /\ at = "lost" <=> proc[w].at = "running"
        BY <2>4 DEF Crash
      <3>2. /\ \A v \in Workers : v # w => proc'[v] = proc[v]
            /\ proc'[w].at = at /\ (at = "lost" => proc'[w].task = proc[w].task)
        BY <1>0, <3>1, GoesOn, GoesIdle DEF Idle
      <3>3. Running' = Running
        BY <3>1, <3>2, SameRunning
      <3> QED
        BY <2>4, <3>3 DEF Crash
    <2> HIDE DEF Storing
    <2> QED
      BY <1>1, <2>1, <2>2, <2>3, <2>4 DEF WorkerStep
  <1>2. ASSUME NEW t \in Tasks, TaskCall(t)
        PROVE  Running' = Running /\ Storing
    <2>1. Running' = Running
      BY <1>2, StillRunning
         DEF TaskCall, Expire, Reclaim, Hold, Resume, CancelTask, FinishTask, ReconcileCancellation
    <2>2. CASE Expire(t)
      BY <2>1, <2>2 DEF Expire
    <2>3. CASE Reclaim(t) \/ Hold(t) \/ Resume(t) \/ CancelTask(t)
      BY <2>1, <2>3 DEF Reclaim, Hold, Resume, CancelTask, Store
    <2>4. CASE FinishTask(t, "completed") \/ FinishTask(t, "failed") \/ ReconcileCancellation(t)
      BY <2>1, <2>4 DEF FinishTask, ReconcileCancellation, Store
    <2> HIDE DEF Storing
    <2> QED
      BY <1>2, <2>1, <2>2, <2>3, <2>4 DEF TaskCall
  <1>3. ASSUME NEW m \in Members, SettleEffect(m)
        PROVE  Running' = Running /\ Storing
    BY <1>3, StillRunning DEF SettleEffect
  <1>o. ASSUME NEW o \in owed, ReadBack(o) \/ Retry(o)
        PROVE  Running' = Running /\ Storing
    <2>1. Running' = Running
      BY <1>o, StillRunning DEF ReadBack, Retry
    <2> QED
      BY <1>o, <2>1 DEF ReadBack, Retry, Settle
  <1>4. ASSUME Reconcile \/ Resolve \/ DeadlinePasses
        PROVE  Running' = Running /\ Storing
    BY <1>4, StillRunning DEF Reconcile, Resolve, DeadlinePasses, Store
  <1> HIDE DEF Storing
  <1>5. \/ Running' = Running /\ Storing
        \/ \E w \in Workers : HandlerReturns(w) \/ LostStops(w)
    BY <1>1, <1>2, <1>3, <1>o, <1>4 DEF Next
  <1> QED
    BY <1>5 DEF Storing

(* The end of a handler. *)
LEMMA StopBarrier ==
    ASSUME GraphInv, NEW w \in Workers, HandlerReturns(w) \/ LostStops(w)
    PROVE  [Promise!Next]_Promise!vars
  <1>0. TypeOK
    BY DEF GraphInv
  <1>1. PICK at \in {"returned", "idle"} :
           Goes(w, at) /\ proc[w].at \in {"running", "lost"} /\ UNCHANGED group
    BY DEF HandlerReturns, LostStops
  <1>2. /\ \A v \in Workers : v # w => proc'[v] = proc[v]
        /\ proc'[w].at = at
    BY <1>0, <1>1, GoesOn DEF Idle
  <1>3. \A m \in Members : ~Runs(w, m)'
    BY <1>1, <1>2 DEF Runs
  <1>4. \A v \in Workers : v # w => \A m \in Members : Runs(v, m)' <=> Runs(v, m)
    BY <1>2 DEF Runs, RootOf
  <1>5. CASE Running' = Running
    BY <1>1, <1>5 DEF Promise!vars
  <1>6. CASE Running' # Running
    <2>1. PICK m \in Members : Runs(w, m)
      BY <1>3, <1>4, <1>6, RunningOf, RunningNext
    <2>2. \A n \in Members : Runs(w, n) => n = m
      BY <2>1 DEF Runs
    <2>3. Running' = Running \ {m} /\ m \in Running
      BY <1>3, <1>4, <1>6, <2>1, <2>2, RunningOf, RunningNext
    <2>4. Promise!Stop(m)
      BY <1>1, <2>3 DEF Promise!Stop
    <2> QED
      BY <2>4 DEF Promise!Next
  <1> QED
    BY <1>5, <1>6

(* Starting a handler decides nothing: no member completes or fails by it. *)
LEMMA StartDecidesNothing ==
    ASSUME GraphInv, Kind # "none", NEW t, NEW p, NEW ts, NEW decided,
           Request(t, p, None), p.status = "claimed", task[t].status = "claimed",
           PlanStep(t, p, None, None, FALSE, ts, decided), group.decision = "pending"
    PROVE  decided[1] = "pending"
  <1> DEFINE changed == [task EXCEPT ![t] = StoredRow(t, p)]
  <1>0. Before /\ TypeOK /\ Admitted(task) /\ Settled(task)
    BY ConsistentIsSettled DEF GraphInv, Before
  <1>1. t \in Tasks /\ p \in Rows /\ StoredRow(t, p) = p
    BY <1>0, StoredRowType DEF Request
  <1>2. \A u \in Tasks : changed[u] = IF u = t THEN p ELSE task[u]
    BY <1>0, <1>1 DEF Admitted
  <1>3. Admitted(changed)
    BY <1>0, <1>1, SuccessorsApart DEF Admitted
  <1>4. \A u \in Tasks : changed[u].status = task[u].status
    BY <1>2
  <1>5. ts = IF t \in Graph THEN Propagate(changed, waitingFinalizer) ELSE changed
    BY DEF PlanStep, Planned, StoredRow
  <1> HIDE DEF changed
  <1>6. Skipped(changed) = {}
    <2>1. \A u \in Graph : changed[u].status \notin Terminal =>
             \A q \in Prereqs[u] : changed[q].status \notin Failure
      BY <1>0, <1>4, SuccessorsApart DEF Settled
    <2> QED
      BY <2>1, NothingSkipped
  <1>7. \A u \in Graph : changed[u].status = "waiting_dependencies" => ~PrereqsCompleted(changed, u)
    <2>1. \A u \in Graph : PrereqsCompleted(changed, u) <=> PrereqsCompleted(task, u)
      BY <1>4, SuccessorsApart DEF PrereqsCompleted
    <2> QED
      BY <1>0, <1>4, <2>1, SuccessorsApart DEF Settled
  <1>8. \A u \in Graph : ts[u].status = task[u].status
    <2>1. CASE t \in Graph
      <3>1. \A u \in Graph : ts[u] = changed[u]
        BY <1>5, <1>6, <1>7, <2>1, SuccessorsApart DEF Propagate
      <3> QED
        BY <1>4, <3>1, SuccessorsApart
    <2>2. CASE t \notin Graph
      BY <1>4, <1>5, <2>2, SuccessorsApart
    <2> QED
      BY <2>1, <2>2
  <1>9. Successes(ts) = Successes(task) /\ Failures(ts) = Failures(task)
    BY <1>8, SuccessorsApart DEF Successes, Failures
  <1>10. Sound(task, "pending", group.winners)
    BY DEF GraphInv, DecisionSound, Sound, Successes, Failures
  <1>11. /\ Cardinality(Successes(task)) < Required
         /\ Cardinality(Members) - Cardinality(Failures(task)) >= Required
         /\ Cardinality(Successes(task)) \in Nat /\ Required \in Nat
         /\ Cardinality(Members) - Cardinality(Failures(task)) \in Int
    <2>1. Successes(task) \in SUBSET Members /\ Failures(task) \in SUBSET Members
      BY DEF Successes, Failures
    <2>2. Cardinality(Members \ Failures(task)) = Cardinality(Members) - Cardinality(Failures(task))
      BY <2>1, MembersFinite
    <2>3. /\ Cardinality(Successes(task)) \in Nat /\ Cardinality(Failures(task)) \in Nat
          /\ Cardinality(Members) \in Nat
      BY <2>1, MembersFinite
    <2>4. /\ Cardinality(Successes(task)) < Required
          /\ Cardinality(Members) - Cardinality(Failures(task)) >= Required
      BY <1>10, <2>2 DEF Sound
    <2>5. Required \in Nat
      BY GraphConstants
    <2> QED
      BY <2>3, <2>4, <2>5
  <1>12. decided = IF Cardinality(Successes(ts)) >= Required THEN <<"succeeded", Successes(ts)>>
                   ELSE IF Cardinality(Members) - Cardinality(Failures(ts)) < Required
                   THEN <<"failed", {}>> ELSE <<"pending", {}>>
    BY DEF PlanStep, Decided, Successes, Failures
  <1> QED
    BY <1>9, <1>11, <1>12

(* The start of a handler: of a task of no group, or of a member of an     *)
(* undecided group, for a loser's claim is fenced.                         *)
LEMMA StartBarrier ==
    ASSUME GraphInv, GraphInv', Kind = "quiescence", NEW w \in Workers, MarkStarted(w)
    PROVE  [Promise!Next]_Promise!vars
  <1> DEFINE t == proc[w].task
             p == [task[t] EXCEPT !.run = Marker(t)]
  <1>0. /\ TypeOK /\ Before /\ GroupInv /\ WorkersInv /\ LineageInv /\ DecisionSound
        /\ group' \in Groups /\ GroupInv'
    BY DEF GraphInv, Before, TypeOK
  <1>1. /\ proc[w].at = "claimed" /\ task[t].status = "claimed" /\ task[t].worker = w
        /\ Marker(t) <= MaxRuns /\ Transact(t, p, None, None, FALSE)
    BY DEF MarkStarted, Store, Holds
  <1>2. \/ proc' = [proc EXCEPT ![w] = [at |-> "running", task |-> t, run |-> Marker(t)]]
        \/ Goes(w, "idle")
    BY DEF MarkStarted
  <1>3. t \in Tasks /\ proc[w] # Idle /\ task[t] \in Rows /\ execution[t] \in Executions
    BY <1>0, <1>1 DEF TypeOK, Procs, Idle
  <1>4. /\ proc'[w].at = "idle" \/ (proc'[w].at = "running" /\ proc'[w].task = t)
        /\ \A v \in Workers : v # w => proc'[v] = proc[v]
    BY <1>0, <1>2, GoesIdle DEF TypeOK, Idle
  <1>5. CASE proc'[w].at = "idle"
    <2>1. Running' = Running
      BY <1>1, <1>4, <1>5, SameRunning
    <2> QED
      BY <1>1, <2>1, TransactBarrier
  <1>6. CASE proc'[w].at = "running" /\ proc'[w].task = t /\ RootOf(t) \notin Members
    <2>1. Running' = Running
      <3>1. \A v \in Workers : \A m \in Members : Runs(v, m)' <=> Runs(v, m)
        BY <1>1, <1>4, <1>6 DEF Runs, RootOf
      <3> QED
        BY <3>1, RunningOf, RunningNext
    <2> QED
      BY <1>1, <2>1, TransactBarrier
  <1>7. CASE proc'[w].at = "running" /\ proc'[w].task = t /\ RootOf(t) \in Members
    <2> HIDE DEF t
    <2>1. Running' = Running \cup {RootOf(t)}
      <3>1. \A v \in Workers : v # w => \A m \in Members : Runs(v, m)' <=> Runs(v, m)
        BY <1>4 DEF Runs, RootOf
      <3>2. \A m \in Members : ~Runs(w, m) /\ (Runs(w, m)' <=> m = RootOf(t))
        BY <1>1, <1>3, <1>4, <1>7, SuccessorsApart DEF Runs, RootOf
      <3> QED
        BY <1>7, <3>1, <3>2, RunningOf, RunningNext
    <2>2. t \in Tracked(task)
      BY <1>1, <1>3, <1>7 DEF Tracked, Lineage, RootOf
    <2>3. task[t].run = 0
      BY <1>0, <1>1, <1>3, <2>2 DEF WorkersInv, WorkerInv, t
    <2>4. Marker(t) \in 1..MaxRuns
      BY <1>1, <1>3, GraphConstants DEF Marker, Rows, Executions
    <2>5. p \in Rows /\ p.status = "claimed" /\ p.worker = w /\ p.run = Marker(t)
      BY <1>1, <1>3, <2>4 DEF Rows
    <2> HIDE DEF p
    <2>6. PICK ts, decided :
              /\ PlanStep(t, p, None, None, FALSE, ts, decided)
              /\ \/ QuietStep(ts, decided, FALSE)
                 \/ /\ Kind = "quiescence" /\ decided[1] # "pending"
                    /\ \E direct, t1, unsettled, barrier, finalizer :
                          DrainStep(ts, execution', decided, FALSE, direct, t1, unsettled,
                                    barrier, finalizer)
      BY <1>1, TransactParts
    <2>7. RootOf(t) \notin group.losers
      <3>1. ~LoserFenced(t, p)
        BY <2>6 DEF PlanStep
      <3> QED
        BY <1>1, <2>3, <2>4, <2>5, <3>1 DEF LoserFenced, Terminal
    <2>8. RootOf(t) \notin group.winners
      <3>1. group.winners # {} => group.decision = "succeeded"
        BY <1>0 DEF GroupInv
      <3>2. \A m \in group.winners : task[m].status = "completed"
        BY <1>0, <3>1 DEF DecisionSound
      <3>3. CASE t \in Successors
        <4>1. task[Root[t]].status \in Failure
          BY <1>0, <1>1, <3>3 DEF LineageInv, Lineage
        <4> QED
          BY <3>2, <3>3, <4>1 DEF RootOf, Failure
      <3>4. CASE t \notin Successors
        BY <1>1, <3>2, <3>4 DEF RootOf
      <3> QED
        BY <3>3, <3>4
    <2>9. group.decision = "pending"
      BY <1>0, <1>7, <2>7, <2>8 DEF GroupInv
    <2>10. Request(t, p, None)
      BY <1>1, <1>3, <2>5 DEF Request, Terminal
    <2>11. decided[1] = "pending"
      BY <1>1, <2>5, <2>6, <2>9, <2>10, StartDecidesNothing
    <2>12. group'.decision = "pending"
      BY <1>0, <2>6, <2>11 DEF QuietStep, TypeOK, Groups
    <2>13. group.winners = {} /\ group'.winners = {}
      BY <1>0, <2>9, <2>12 DEF GroupInv
    <2>14. Promise!Start(RootOf(t))
      BY <2>1, <2>9, <2>12, <2>13 DEF Promise!Start, Promise!Losers
    <2> QED
      BY <1>7, <2>14 DEF Promise!Next
  <1> QED
    BY <1>4, <1>5, <1>6, <1>7

LEMMA BarrierStep ==
    ASSUME GraphInv, GraphInv', Kind = "quiescence", [Next]_vars
    PROVE  [Promise!Next]_Promise!vars
  <1>1. CASE UNCHANGED vars
    <2>1. Running' = Running /\ UNCHANGED group
      BY <1>1, StillRunning DEF vars
    <2> QED
      BY <2>1 DEF Promise!vars
  <1>2. CASE Next /\ \E w \in Workers : MarkStarted(w)
    BY <1>2, StartBarrier
  <1>3. CASE Next /\ \A w \in Workers : ~MarkStarted(w)
    <2>1. CASE Running' = Running /\ UNCHANGED group
      BY <2>1 DEF Promise!vars
    <2>2. CASE /\ Running' = Running
               /\ \E t, p, successor, ack, resolve : Transact(t, p, successor, ack, resolve)
      BY <2>2, TransactBarrier
    <2>3. CASE \E w \in Workers : HandlerReturns(w) \/ LostStops(w)
      BY <2>3, StopBarrier
    <2> QED
      BY <1>3, <2>1, <2>2, <2>3, StoringSteps
  <1> QED
    BY <1>1, <1>2, <1>3

(* store_graph_task, the leases, the retries and the acknowledgements of a *)
(* group with a quiescence policy implement GroupBarrier, for any graph,   *)
(* members, workers and faults: one decision, no work begun for a loser    *)
(* afterwards, and no release while something of a loser executes.  (A     *)
(* group without the policy does not promise this: its losers go on.)      *)
THEOREM GroupKeepsItsBarrier == ASSUME Kind = "quiescence" PROVE Spec => BarrierKept
  <1>1. Init => Promise!Init
    <2> SUFFICES ASSUME Init PROVE Promise!Init
      OBVIOUS
    <2>1. proc = [w \in Workers |-> Idle] /\ group.decision = "pending" /\ group.winners = {}
      BY DEF Init
    <2>2. Running = {}
      BY <2>1 DEF Running, Idle
    <2> QED
      BY <2>1, <2>2 DEF Promise!Init
  <1>2. GraphInv /\ GraphInv' /\ [Next]_vars => [Promise!Next]_Promise!vars
    BY BarrierStep
  <1> QED
    BY <1>1, <1>2, GraphInvariant, PTL DEF Spec, BarrierKept, Promise!Spec

=============================================================================
