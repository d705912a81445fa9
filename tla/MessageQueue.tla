---------------------------- MODULE MessageQueue ----------------------------
(***************************************************************************)
(* The durable queue of messages that steer a session, and the runs that   *)
(* consume it.  Anybody may enqueue while the session is pending or        *)
(* running; the run that owns the session's epoch moves queued messages    *)
(* into the transcript before its first model step and, in a drain, each   *)
(* time it would otherwise complete.  Completion and delivery are store    *)
(* transactions that look at the queue themselves, a delivery has an       *)
(* identity under which a lost answer is asked for again, and the epoch    *)
(* fences the runs that were given up on.                                  *)
(*                                                                         *)
(* One incarnation of one session, without tool approvals, producers, work *)
(* attempts or workspaces that must be finalized before completion.  An    *)
(* entry of the transcript is a queued message, the input of a run, or a   *)
(* step of the model: "tools" when the turn goes on, with the results of   *)
(* its tools or with the message of the runtime that refuses an answer;    *)
(* "answer" when it ends the turn.  Interactions are numbered within a run, nobody else sees their   *)
(* identities, and a receipt is kept while its answer may be asked for     *)
(* again.                                                                  *)
(***************************************************************************)
EXTENDS Naturals, Sequences, FiniteSets, SequencesExt

CONSTANTS
    Messages,
    Modes,        \* the delivery modes each message may ask for
    Targeted,     \* messages that are for one position of one run only
    Expiring,     \* messages that have an expires_at
    Withdrawable, \* messages that somebody may withdraw
    Limit,        \* SESSION_MESSAGE_DELIVERY_BATCH_LIMIT
    MaxSteps,     \* max_steps of every run
    MaxRuns,      \* bound: runs admitted
    MaxLost,      \* bound: deliveries that fail or whose answer is lost
    MaxFaults     \* bound: crashes, lapsed presences, interrupts

ASSUME QueueConstants ==
    /\ IsFiniteSet(Messages) /\ Messages \cap {"input", "tools", "answer"} = {}
    /\ Modes \in [Messages -> SUBSET {"next_turn", "on_idle"}]
    /\ Targeted \subseteq Messages /\ Expiring \subseteq Messages /\ Withdrawable \subseteq Messages
    /\ Limit \in Nat \ {0} /\ MaxSteps \in Nat \ {0}
    /\ MaxRuns \in Nat /\ MaxLost \in Nat /\ MaxFaults \in Nat

VARIABLES
    session,     \* status, run_epoch, the interaction of the active profile, and
                 \* whether that is settled though the session was not completed
    transcript,
    rows,        \* the queue: status, delivery_mode, ordering_key, target and
                 \* delivered_transcript_cursor
    lapsed,      \* messages whose expires_at is past
    receipts,    \* of the delivery that each run has under way
    runs,        \* what the coroutine of each run knows
    admitted, lost, faults

vars == <<session, transcript, rows, lapsed, receipts, runs, admitted, lost, faults>>
queue == <<transcript, rows, lapsed>>
counts == <<admitted, lost, faults>>

Recovery == 0
Runs == 1..MaxRuns
Coroutines == Runs \cup {Recovery}

NoTarget == [epoch |-> 0, cursor |-> 0]
Absent == [status |-> "absent", mode |-> "none", key |-> 0, target |-> NoTarget, at |-> 0]
NoDelivery == [next |-> 0, batch |-> 0, started |-> FALSE, idle |-> FALSE, through |-> 0,
               grew |-> FALSE]
Idle == [at |-> "idle", epoch |-> 0, interaction |-> 0, step |-> 0, seen |-> <<>>,
         call |-> NoDelivery]
NoReceipt == [id |-> <<0, 0>>, taken |-> <<>>, through |-> 0, more |-> FALSE]

Init ==
    /\ session = [status |-> "pending", epoch |-> 0, profile |-> 0, settled |-> FALSE]
    /\ transcript = <<>>
    /\ rows = [m \in Messages |-> Absent]
    /\ lapsed = {}
    /\ receipts = [p \in Coroutines |-> NoReceipt]
    /\ runs = [p \in Coroutines |-> Idle]
    /\ admitted = 0 /\ lost = 0 /\ faults = 0

Lost == lost < MaxLost /\ lost' = lost + 1
Fault == faults < MaxFaults /\ faults' = faults + 1
Queued == {m \in Messages : rows[m].status = "queued"}
NextKey == 1 + Cardinality({m \in Messages : rows[m].status # "absent"})
Interrupted == session.status \in {"interrupting", "interrupted"}
Owns(p) == runs[p].epoch = session.epoch

-----------------------------------------------------------------------------
(* The queue *)

(* enqueue_session_message; a repeated request returns the first answer. *)
Enqueue(m) ==
    /\ rows[m].status = "absent"
    /\ session.status \in {"pending", "running"}
    /\ \E mode \in Modes[m], cursor \in {Len(transcript), Len(transcript) + 1} :
          /\ m \notin Targeted => cursor = Len(transcript)
          /\ rows' = [rows EXCEPT ![m] =
                [status |-> "queued", mode |-> mode, key |-> NextKey, at |-> 0,
                 target |-> IF m \in Targeted THEN [epoch |-> session.epoch, cursor |-> cursor]
                            ELSE NoTarget]]
    /\ UNCHANGED <<session, transcript, lapsed, receipts, runs, counts>>

(* apply_session_message_action: withdraw, or quarantine. *)
Withdraw(m) ==
    /\ m \in Queued \cap Withdrawable
    /\ rows' = [rows EXCEPT ![m].status = "withdrawn"]
    /\ UNCHANGED <<session, transcript, lapsed, receipts, runs, counts>>

Lapse(m) ==
    /\ m \in Queued \cap (Expiring \ lapsed)
    /\ lapsed' = lapsed \cup {m}
    /\ UNCHANGED <<session, transcript, rows, receipts, runs, counts>>

(* session_message_rejection *)
Rejection(m, cursor) ==
    CASE m \in lapsed -> "expired"
      [] m \notin lapsed /\ m \in Targeted
         /\ rows[m].target # [epoch |-> session.epoch, cursor |-> cursor] -> "stale"
      [] OTHER -> "none"

Earlier(m, n) == rows[m].key < rows[n].key

(* Mutant: the conditions of a whole batch are evaluated at its start. *)
IsAcceptedAtStart(taken, chosen) ==
    /\ \A i, j \in 1..Len(taken) : i < j => Earlier(taken[i], taken[j])
    /\ \A m \in chosen : m \in ToSet(taken) <=> Rejection(m, Len(transcript)) = "none"

(* What is delivered of the chosen messages, in their order: each is       *)
(* judged at the position that those before it leave it.                   *)
IsAccepted(taken, chosen) ==
    /\ \A i, j \in 1..Len(taken) : i < j => Earlier(taken[i], taken[j])
    /\ \A m \in chosen :
          LET ahead == {n \in ToSet(taken) : Earlier(n, m)}
          IN m \in ToSet(taken)
             <=> Rejection(m, Len(transcript) + Cardinality(ahead)) = "none"

(* Mutant: a drain at the step limit delivers like any other. *)
RejectOnlyNever(r) == FALSE

(* At the step limit a drain only settles what can no longer be delivered. *)
RejectOnly(r) == r.call.idle /\ r.step >= MaxSteps

Eligible(r, mode, through) ==
    {m \in Queued : /\ rows[m].mode = mode /\ rows[m].key <= through
                    /\ RejectOnly(r) => Rejection(m, Len(transcript)) # "none"}

(* Mutant: input for idle moments is taken before steering input. *)
ChosenIdleFirst(next_turn, on_idle) == IF on_idle # {} THEN on_idle ELSE next_turn

(* next_turn before on_idle, one mode a batch *)
Chosen(next_turn, on_idle) == IF next_turn # {} THEN next_turn ELSE on_idle

(* The first messages of a mode, as many as a batch may hold. *)
First(pending) ==
    {m \in pending : Cardinality({n \in pending : Earlier(n, m)}) < Limit}

(* What deliver_queued_session_messages decides for the call that r makes; *)
(* there is one such batch.                                                *)
Batches(r) ==
    LET through == IF r.call.through = 0 THEN NextKey - 1 ELSE r.call.through
        next_turn == Eligible(r, "next_turn", through)
        on_idle == IF r.call.idle THEN Eligible(r, "on_idle", through) ELSE {}
        chosen == First(Chosen(next_turn, on_idle))
    IN {[through |-> through, chosen |-> chosen, taken |-> taken,
         more |-> (next_turn \cup on_idle) \ chosen # {}] :
           taken \in {s \in SeqOf(chosen, Cardinality(chosen)) : IsAccepted(s, chosen)}}

(* A delivery that starts an interaction takes the profile over from its   *)
(* predecessor, which must have been settled by a queue-conditional        *)
(* transition that left the session running.                               *)
Handoff(r) == r.call.started \/ (session.profile = r.interaction /\ session.settled)

(* The transaction: transcript, rows and profile move together. *)
Delivers(r, b) ==
    /\ b.taken # <<>> => Handoff(r)
    /\ transcript' = transcript \o b.taken
    /\ rows' = [m \in Messages |->
          CASE m \in ToSet(b.taken) ->
                  [rows[m] EXCEPT !.status = "delivered",
                     !.at = Len(transcript) + CHOOSE i \in 1..Len(b.taken) : b.taken[i] = m]
            [] m \in b.chosen \ ToSet(b.taken) ->
                  [rows[m] EXCEPT !.status = IF m \in lapsed THEN "expired" ELSE "stale"]
            [] OTHER -> rows[m]]
    /\ session' = IF b.taken # <<>> /\ ~r.call.started
                  THEN [session EXCEPT !.profile = r.call.next, !.settled = FALSE] ELSE session

-----------------------------------------------------------------------------
(* A run *)

(* A new identity for a delivery that may start an interaction. *)
Proposed(r) ==
    [r EXCEPT !.at = "deliver", !.call.next = r.interaction + 1, !.call.batch = 0,
              !.call.started = FALSE]
Drain(r) == Proposed([r EXCEPT !.call = [NoDelivery EXCEPT !.idle = TRUE]])

(* Admission: one transaction starts the epoch and appends the input. *)
Admit(p) ==
    /\ p = admitted + 1
    /\ session.status \in {"pending", "interrupted", "completed", "failed"}
    /\ session' = [status |-> "running", epoch |-> session.epoch + 1, profile |-> 1,
                   settled |-> FALSE]
    /\ transcript' = Append(transcript, "input")
    /\ runs' = [runs EXCEPT ![p] = [Idle EXCEPT !.at = "loading", !.epoch = session.epoch + 1,
                                                !.interaction = 1, !.step = 1]]
    /\ admitted' = admitted + 1
    /\ UNCHANGED <<rows, lapsed, receipts, lost, faults>>

(* The run reads the transcript and, before its first step and only there, *)
(* has queued next_turn input join the interaction under way.              *)
Load(p) ==
    /\ runs[p].at = "loading"
    /\ runs' = [runs EXCEPT ![p] =
          IF Interrupted THEN [@ EXCEPT !.at = "interrupted"]
          ELSE [@ EXCEPT !.at = "deliver", !.seen = transcript,
                         !.call = [NoDelivery EXCEPT !.next = runs[p].interaction, !.started = TRUE]]]
    /\ UNCHANGED <<session, queue, receipts, counts>>

(* Mutant: queued input is taken in before every step of the model. *)
TurnGoesOnDelivering(r) ==
    IF r.step < MaxSteps THEN [r EXCEPT !.at = "loading", !.step = @ + 1]
    ELSE [r EXCEPT !.at = "limit"]

TurnGoesOn(r) ==
    IF r.step < MaxSteps THEN [r EXCEPT !.at = "model", !.step = @ + 1] ELSE [r EXCEPT !.at = "limit"]

(* What follows the publication of a step.  An answer ends the turn; but a *)
(* before-stop policy may ask for a step that the limit does not leave.    *)
AfterStep(r, entry) ==
    IF entry = "tools" THEN {TurnGoesOn(r)}
    ELSE {[r EXCEPT !.at = at] : at \in IF r.step < MaxSteps THEN {"settle"} ELSE {"settle", "limit"}}

(* A step of the model, published under the epoch; a requested interrupt   *)
(* may be noticed before it or abort it.                                   *)
ModelStep(p) ==
    /\ runs[p].at = "model" /\ Owns(p)
    /\ \/ \E entry \in {"tools", "answer"} :
             /\ transcript' = Append(transcript, entry)
             /\ \E r \in AfterStep([runs[p] EXCEPT !.seen = Append(@, entry)], entry) :
                   runs' = [runs EXCEPT ![p] = r]
       \/ Interrupted /\ runs' = [runs EXCEPT ![p].at = "interrupted"] /\ UNCHANGED transcript
    /\ UNCHANGED <<session, rows, lapsed, receipts, counts>>

(* The provider fails; or an answer is published, and then its structured  *)
(* output does not validate or a before-stop policy fails or interrupts.   *)
StepFails(p) ==
    /\ runs[p].at = "model" /\ Owns(p) /\ Fault
    /\ \/ runs' = [runs EXCEPT ![p].at = "failed"] /\ UNCHANGED transcript
       \/ /\ transcript' = Append(transcript, "answer")
          /\ \E at \in {"failed", "interrupted"} :
                runs' = [runs EXCEPT ![p].seen = Append(@, "answer"), ![p].at = at]
    /\ UNCHANGED <<session, rows, lapsed, receipts, admitted, lost>>

Ends(p) ==
    /\ runs' = [runs EXCEPT ![p] = Idle]
    /\ receipts' = [receipts EXCEPT ![p] = NoReceipt]

(* The run ends with this status, and releases its epoch. *)
Settles(p, status) ==
    /\ session' = [session EXCEPT !.status = status, !.epoch = @ + 1]
    /\ Ends(p)

Notices(p) ==
    /\ Interrupted
    /\ runs' = [runs EXCEPT ![p].at = "interrupted"]
    /\ UNCHANGED <<session, receipts>>

(* _complete_session_if_no_queued_messages: with input queued, only the    *)
(* interaction is settled and the session goes on.                         *)
Settle(p) ==
    /\ runs[p].at = "settle" /\ Owns(p) /\ session.profile = runs[p].interaction
    /\ \/ session.status = "running" /\ Queued = {} /\ Settles(p, "completed")
       \/ /\ session.status = "running" /\ Queued # {}
          /\ session' = [session EXCEPT !.settled = TRUE]
          /\ runs' = [runs EXCEPT ![p] = Drain(@)]
          /\ UNCHANGED receipts
       \/ Notices(p)
    /\ UNCHANGED <<queue, counts>>

(* The run after the answer b: another batch, the next step of the model   *)
(* when there was input, or else the attempt to complete.                  *)
Answered(r, b) ==
    LET got == b.taken # <<>>
        s == [r EXCEPT !.seen = @ \o b.taken, !.interaction = IF got THEN r.call.next ELSE @,
                       !.call = [r.call EXCEPT !.through = b.through, !.started = @ \/ got,
                                               !.grew = @ \/ got]]
        done == [s EXCEPT !.call = NoDelivery]
    IN CASE b.more /\ s.call.started -> [s EXCEPT !.at = "deliver", !.call.batch = @ + 1]
         [] b.more /\ ~s.call.started -> Proposed(s)
         [] ~b.more /\ ~s.call.idle -> [done EXCEPT !.at = "model"]
         [] ~b.more /\ s.call.idle /\ s.call.grew -> [done EXCEPT !.at = "model", !.step = @ + 1]
         [] OTHER -> [done EXCEPT !.at = "commit"]

DeliveryId(r) == <<r.call.next, r.call.batch>>
Receipt(r, b) == [id |-> DeliveryId(r), taken |-> b.taken, through |-> b.through, more |-> b.more]

Calling(p) == runs[p].at \in {"deliver", "retry"} /\ Owns(p)

(* No answer: the call is made once more, which may fail as well. *)
Unanswered(p) ==
    /\ Lost
    /\ \E at \in {"retry", "failed"} \ {runs[p].at} : runs' = [runs EXCEPT ![p].at = at]

(* Mutant: a delivery is not recognized when it is asked for again. *)
KnownNever(p) == FALSE

(* The store has a receipt of the delivery that p asks for. *)
Known(p) == receipts[p].id = DeliveryId(runs[p])

(* A delivery, whose answer arrives or is lost. *)
Deliver(p) ==
    /\ Calling(p) /\ ~Known(p) /\ session.status = "running"
    /\ \E b \in Batches(runs[p]) :
          /\ Delivers(runs[p], b)
          /\ \/ /\ runs' = [runs EXCEPT ![p] = Answered(@, b)]
                /\ UNCHANGED <<receipts, lost>>
             \/ /\ Unanswered(p)
                /\ receipts' = [receipts EXCEPT ![p] = Receipt(runs[p], b)]
    /\ UNCHANGED <<lapsed, admitted, faults>>

(* What was delivered under this identity is returned once more. *)
Replay(p) ==
    /\ Calling(p) /\ Known(p)
    /\ runs' = [runs EXCEPT ![p] = Answered(@, receipts[p])]
    /\ receipts' = [receipts EXCEPT ![p] = NoReceipt]
    /\ UNCHANGED <<session, queue, counts>>

CallFails(p) ==
    /\ Calling(p) /\ Unanswered(p)
    /\ UNCHANGED <<session, queue, receipts, admitted, faults>>

DeliveryRefused(p) ==
    /\ Calling(p) /\ ~Known(p) /\ session.status # "running"
    /\ runs' = [runs EXCEPT ![p].at = "interrupted"]
    /\ UNCHANGED <<session, queue, receipts, counts>>

(* Mutant: input that came during a drain starts another one, whether or   *)
(* not a model step is left for it.                                        *)
AfterPendingLooping(r) == Drain(r)

(* SessionQueuedMessagesPending *)
AfterPending(r) == IF r.step >= MaxSteps THEN [r EXCEPT !.at = "limit"] ELSE Drain(r)

(* Mutant: the queue seen empty by the drain is not looked at again. *)
CommitUnconditional(p) ==
    /\ runs[p].at = "commit" /\ Owns(p) /\ session.profile = runs[p].interaction
    /\ \/ session.status = "running" /\ Settles(p, "completed")
       \/ Notices(p)
    /\ UNCHANGED <<queue, counts>>

(* transition_status_if_no_queued_messages, for a session whose last       *)
(* interaction is already settled.                                         *)
Commit(p) ==
    /\ runs[p].at = "commit" /\ Owns(p) /\ session.profile = runs[p].interaction
    /\ \/ session.status = "running" /\ Queued = {} /\ Settles(p, "completed")
       \/ /\ session.status = "running" /\ Queued # {}
          /\ runs' = [runs EXCEPT ![p] = AfterPending(@)]
          /\ UNCHANGED <<session, receipts>>
       \/ Notices(p)
    /\ UNCHANGED <<queue, counts>>

(* The end of a run that does not complete: at the step limit, for an      *)
(* interrupt, or with an error.                                            *)
Stop(p) ==
    /\ runs[p].at \in {"limit", "interrupted", "failed"} /\ Owns(p)
    /\ Settles(p, IF runs[p].at = "failed" /\ session.status = "running" THEN "failed"
                  ELSE "interrupted")
    /\ UNCHANGED <<queue, counts>>

(* A run whose epoch is over is refused by the store, and ends. *)
Fenced(p) ==
    /\ runs[p].at \notin {"idle", "loading"} /\ ~Owns(p)
    /\ Ends(p)
    /\ UNCHANGED <<session, queue, counts>>

-----------------------------------------------------------------------------
(* Interrupts, crashes and recovery *)

RequestInterrupt ==
    /\ session.status = "running" /\ Fault
    /\ session' = [session EXCEPT !.status = "interrupting"]
    /\ UNCHANGED <<queue, receipts, runs, admitted, lost>>

Crash(p) ==
    /\ runs[p].at # "idle" /\ Fault /\ Ends(p)
    /\ UNCHANGED <<session, queue, admitted, lost>>

Ownerless == \A p \in Coroutines : runs[p].at = "idle" \/ ~Owns(p)

(* A recovery fences the run of an owner that is gone, or that only seems  *)
(* gone because its presence lapsed.                                       *)
Claim ==
    /\ runs[Recovery].at = "idle" /\ session.status \in {"running", "interrupting"}
    /\ \/ Ownerless /\ UNCHANGED faults
       \/ ~Ownerless /\ Fault
    /\ session' = [session EXCEPT !.epoch = @ + 1]
    /\ runs' = [runs EXCEPT ![Recovery] = [Idle EXCEPT !.at = "recovering",
                                                       !.epoch = session.epoch + 1]]
    /\ UNCHANGED <<queue, receipts, admitted, lost>>

Recover ==
    /\ runs[Recovery].at = "recovering" /\ Owns(Recovery)
    /\ session' = [session EXCEPT !.status = "interrupting"]
    /\ runs' = [runs EXCEPT ![Recovery].at = "interrupted"]
    /\ UNCHANGED <<queue, receipts, counts>>

-----------------------------------------------------------------------------

RunStep(p) ==
    \/ Load(p) \/ ModelStep(p) \/ Settle(p) \/ Deliver(p) \/ Replay(p)
    \/ DeliveryRefused(p) \/ Commit(p) \/ Stop(p) \/ Fenced(p)

Next ==
    \/ \E m \in Messages : Enqueue(m) \/ Withdraw(m) \/ Lapse(m)
    \/ \E p \in Coroutines : RunStep(p) \/ StepFails(p) \/ CallFails(p) \/ Crash(p)
    \/ \E p \in Runs : Admit(p)
    \/ Claim \/ Recover \/ RequestInterrupt

Spec == Init /\ [][Next]_vars

(* Processes run their coroutines, store and provider calls end, and the    *)
(* application recovers the sessions whose owner is gone.                  *)
FairSpec ==
    /\ Spec
    /\ \A p \in Coroutines : WF_vars(RunStep(p))
    /\ WF_vars(Ownerless /\ Claim) /\ WF_vars(Recover)

-----------------------------------------------------------------------------
(* Properties *)

Entries == Messages \cup {"input", "tools", "answer"}
Keys == 0..Cardinality(Messages)
Points == {"idle", "loading", "deliver", "retry", "model", "settle", "commit", "limit",
           "interrupted", "failed", "recovering"}
Calls == [next : Nat, batch : Nat, started : BOOLEAN, idle : BOOLEAN, through : Keys, grew : BOOLEAN]

(* The session, the queue and the runs keep their types: no run takes      *)
(* more steps than it was given.                                           *)
TypeOK ==
    /\ session \in [status : {"pending", "running", "interrupting", "interrupted", "completed",
                              "failed"}, epoch : Nat, profile : Nat, settled : BOOLEAN]
    /\ transcript \in Seq(Entries)
    /\ rows \in [Messages -> [status : {"absent", "queued", "delivered", "withdrawn", "stale",
                                        "expired"},
                              mode : {"none", "next_turn", "on_idle"}, key : Keys,
                              at : 0..Len(transcript), target : [epoch : Nat, cursor : Nat]]]
    /\ lapsed \subseteq Expiring
    /\ receipts \in [Coroutines -> [id : Nat \X Nat, taken : Seq(Messages), through : Keys,
                                   more : BOOLEAN]]
    /\ runs \in [Coroutines -> [at : Points, epoch : 0..session.epoch, interaction : Nat,
                               step : 0..MaxSteps, seen : Seq(Entries), call : Calls]]
    /\ admitted \in 0..MaxRuns /\ lost \in 0..MaxLost /\ faults \in 0..MaxFaults

(* What the owning run gives to the model, or goes on from, is the durable *)
(* transcript, under the interaction that the profile names: no delivery   *)
(* whose answer was lost is missing from it, and nobody else added to it.  *)
ModelSeesTranscript ==
    \A p \in Coroutines :
       Owns(p) /\ runs[p].at \in {"model", "settle", "commit"}
       => runs[p].seen = transcript /\ runs[p].interaction = session.profile

(* An accepted message is never left behind by the completion of the       *)
(* session: enqueue and completion race, and one of them sees the other.   *)
NoneLeftBehind == session.status = "completed" => Queued = {}

(* A message does not overtake one accepted before it, unless that one     *)
(* waits for idleness and it does not.                                     *)
NoOvertaking ==
    \A m, n \in Messages :
       /\ rows[n].status = "delivered" /\ Earlier(m, n)
       /\ rows[m].status = "queued" \/ (rows[m].status = "delivered" /\ rows[m].at > rows[n].at)
       => rows[m].mode = "on_idle" /\ rows[n].mode = "next_turn"

(* A message is in the transcript when it was delivered, once, where its   *)
(* row says, and a targeted one exactly where its sender asked.            *)
DeliveredInPlace ==
    \A m \in Messages :
       /\ {i \in 1..Len(transcript) : transcript[i] = m} =
             IF rows[m].status = "delivered" THEN {rows[m].at} ELSE {}
       /\ rows[m].status = "delivered" /\ m \in Targeted => rows[m].at = rows[m].target.cursor + 1

(* The turn of the model is not divided: nothing queued comes between a    *)
(* tool round and the step that takes its results.                         *)
TurnsUndivided ==
    \A i \in 1..(Len(transcript) - 1) : transcript[i] = "tools" => transcript[i + 1] \notin Messages

(* A running session does not run on for ever over a queue that it cannot  *)
(* take in: its run ends, whatever was enqueued, lost or refused.          *)
RunsEnd == session.status = "running" ~> session.status # "running"
=============================================================================
