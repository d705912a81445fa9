--------------------------- MODULE EventDelivery ---------------------------
(***************************************************************************)
(* Delivery of the side effects of persisted events: an event is committed *)
(* together with a handoff row, and some worker claims the row, forwards   *)
(* model usage to the shared budget store, continues the parent of a       *)
(* foreground child, emits to every sink, and closes the row.  Claims are  *)
(* leases: a worker that is slow or dead is replaced, and must not close   *)
(* its successor's claim.                                                  *)
(*                                                                         *)
(* Store operations run under the store's lock (InMemorySessionStore) and  *)
(* are one action each; the writer's steps are the code between two        *)
(* awaits.  Time is what it decides: ready says that the lease of a leased *)
(* row has expired, or that the retry deadline of a failed row has passed. *)
(* A worker is one delivery in one process, so the claim ids it draws are  *)
(* written as the worker.                                                  *)
(***************************************************************************)
EXTENDS Naturals

CONSTANTS
    Events,       \* persisted events
    Workers,      \* concurrent deliveries, over all processes
    Sinks,        \* configured event sinks
    BudgetEvents, \* model.completed and the other events budgets count
    ChildEvents,  \* terminal events of foreground children
    Retirable,    \* pre-entry events of work attempts
    MaxAttempts,  \* PERSISTED_EVENT_SIDE_EFFECT_MAX_ATTEMPTS (3 in the code)
    MaxFaults,    \* bound: crashes, slow workers, lost answers and deferrals
    None

ASSUME DeliveryConstants ==
    /\ BudgetEvents \subseteq Events
    /\ ChildEvents \subseteq Events
    /\ Retirable \subseteq Events
    /\ MaxAttempts \in Nat \ {0}
    /\ MaxFaults \in Nat
    /\ None \notin Events \cup Workers

VARIABLES
    delivery,   \* the handoff row of each event
    worker,     \* what each worker is doing
    forwarded,  \* events in the budget store
    continued,  \* foreground children whose parent has been continued
    received,   \* the sinks that have accepted each event
    faults

vars == <<delivery, worker, forwarded, continued, received, faults>>

Statuses == {"absent", "pending", "leased", "failed", "delivered", "dead_lettered"}
Places == {"idle", "forward", "continue", "emit", "ack", "fail", "defer", "release"}

Rows == [status : Statuses, attempts : 0..(MaxAttempts + MaxFaults),
         claim : Workers \cup {None}, ready : BOOLEAN]
Absent == [status |-> "absent", attempts |-> 0, claim |-> None, ready |-> FALSE]

Idle == [at |-> "idle", event |-> None, attempt |-> 0]
Deliveries == [at : Places \ {"idle"}, event : Events, attempt : 1..(MaxAttempts + MaxFaults)]

Init ==
    /\ delivery = [e \in Events |-> Absent]
    /\ worker = [w \in Workers |-> Idle]
    /\ forwarded = {}
    /\ continued = {}
    /\ received = [e \in Events |-> {}]
    /\ faults = 0

-----------------------------------------------------------------------------
(* The store. *)

(* Mutant: leases never run out. *)
ClaimableUnleased(e) ==
    \/ delivery[e].status = "pending"
    \/ delivery[e].status = "failed" /\ delivery[e].ready

(* _claimable_unlocked *)
Claimable(e) ==
    \/ delivery[e].status = "pending"
    \/ delivery[e].status \in {"leased", "failed"} /\ delivery[e].ready

(* _lease_unlocked *)
Lease(w, e) ==
    /\ delivery[e].attempts < MaxAttempts + MaxFaults
    /\ delivery' = [delivery EXCEPT ![e] =
                      [status |-> "leased", attempts |-> @.attempts + 1,
                       claim |-> w, ready |-> FALSE]]

(* Mutant: any lease is taken for the caller's. *)
MatchesLease(w) == delivery[worker[w].event].status = "leased"

(* _matching_persisted_event_side_effect_claim_unlocked: the lease is the  *)
(* worker's, expired or not.                                               *)
Matches(w) ==
    LET d == delivery[worker[w].event]
    IN  d.status = "leased" /\ d.claim = w /\ d.attempts = worker[w].attempt

(* defer_persisted_event_side_effect gives the attempt back. *)
Deferred(d) == [status |-> "pending", attempts |-> d.attempts - 1, claim |-> None, ready |-> FALSE]

(* mark_persisted_event_side_effect_failed, on attempt n. *)
Failed(d, n) ==
    [status |-> IF n >= MaxAttempts THEN "dead_lettered" ELSE "failed",
     attempts |-> d.attempts, claim |-> None, ready |-> FALSE]

(* mark_persisted_event_side_effect_delivered *)
Delivered(d) == [status |-> "delivered", attempts |-> d.attempts, claim |-> None, ready |-> FALSE]

(* A lost claim changes nothing; PersistedEventSideEffectClaimLost.        *)
Close(w, row) ==
    delivery' = IF Matches(w) THEN [delivery EXCEPT ![worker[w].event] = row] ELSE delivery

(* retire_failed_first_event_delivery *)
Retire(e) ==
    /\ e \in Retirable
    /\ delivery[e].status = "failed" /\ delivery[e].attempts = 1
    /\ delivery' = [delivery EXCEPT ![e].status = "dead_lettered", ![e].ready = FALSE]
    /\ UNCHANGED <<worker, forwarded, continued, received, faults>>

-----------------------------------------------------------------------------
(* Publication. *)

Begin(w, e, place) ==
    worker' = [worker EXCEPT ![w] =
                 [at |-> place, event |-> e, attempt |-> delivery[e].attempts + 1]]

(* append_events: the handoff commits with the event. *)
Append(e) ==
    /\ delivery[e].status = "absent"
    /\ delivery' = [delivery EXCEPT ![e].status = "pending"]
    /\ UNCHANGED <<worker, forwarded, continued, received, faults>>

(* append_event_and_claim_side_effect; the answer may be lost.             *)
AppendAndClaim(w, e) ==
    /\ worker[w].at = "idle"
    /\ delivery[e].status = "absent"
    /\ Lease(w, e)
    /\ \/ Begin(w, e, "forward") /\ UNCHANGED faults
       \/ faults < MaxFaults /\ Begin(w, e, "release") /\ faults' = faults + 1
    /\ UNCHANGED <<forwarded, continued, received>>

(* _release_unreturned_claim: no attempt was made. *)
Release(w) ==
    /\ worker[w].at = "release"
    /\ Close(w, Deferred(delivery[worker[w].event]))
    /\ worker' = [worker EXCEPT ![w] = Idle]
    /\ UNCHANGED <<forwarded, continued, received, faults>>

(* claim_persisted_event_side_effect, by fan_out_persisted and by          *)
(* recover_persisted_side_effects.                                         *)
Claim(w, e) ==
    /\ worker[w].at = "idle"
    /\ Claimable(e)
    /\ Lease(w, e)
    /\ Begin(w, e, "forward")
    /\ UNCHANGED <<forwarded, continued, received, faults>>

(* _handle_unclaimed_persisted_side_effect: whoever finds the row with     *)
(* another still closes the accounting race, whatever has become of the    *)
(* row when the budget store is reached.                                   *)
ForwardUnclaimed(e) ==
    /\ e \in BudgetEvents \ forwarded
    /\ delivery[e].status # "absent"
    /\ forwarded' = forwarded \cup {e}
    /\ UNCHANGED <<delivery, worker, continued, received, faults>>

-----------------------------------------------------------------------------
(* _deliver_persisted_side_effect_claim *)

GoTo(w, place) == worker' = [worker EXCEPT ![w].at = place]

(* _forward_budget_event_if_required; an exception fails the claim.        *)
Forward(w) ==
    /\ worker[w].at = "forward"
    /\ \/ /\ worker[w].event \in BudgetEvents
          /\ forwarded' = forwarded \cup {worker[w].event}
          /\ GoTo(w, "continue")
       \/ /\ worker[w].event \notin BudgetEvents
          /\ UNCHANGED forwarded
          /\ GoTo(w, "continue")
       \/ /\ worker[w].event \in BudgetEvents
          /\ UNCHANGED forwarded
          /\ GoTo(w, "fail")
    /\ UNCHANGED <<delivery, continued, received, faults>>

(* _continue_foreground_parent under a renewed lease: done, not possible   *)
(* yet, or failed, as when renewal finds the claim lost.  The projection   *)
(* of any event for its sinks may fail too.                                *)
Continue(w) ==
    /\ worker[w].at = "continue"
    /\ \/ /\ worker[w].event \notin ChildEvents
          /\ GoTo(w, "emit") /\ UNCHANGED <<continued, faults>>
       \/ /\ worker[w].event \in ChildEvents
          /\ Matches(w) /\ ~delivery[worker[w].event].ready
          /\ continued' = continued \cup {worker[w].event}
          /\ GoTo(w, "emit") /\ UNCHANGED faults
       \/ /\ worker[w].event \in ChildEvents
          /\ faults < MaxFaults
          /\ faults' = faults + 1
          /\ GoTo(w, "defer") /\ UNCHANGED continued
       \/ GoTo(w, "fail") /\ UNCHANGED <<continued, faults>>
    /\ UNCHANGED <<delivery, forwarded, received>>

(* Mutant: the first sink that fails ends the round, and only the last     *)
(* answer is looked at.                                                    *)
EmitUnjoined(w) ==
    /\ worker[w].at = "emit"
    /\ \E ok \in SUBSET Sinks :
          /\ received' = [received EXCEPT ![worker[w].event] = @ \cup ok]
          /\ GoTo(w, IF ok # {} THEN "ack" ELSE "fail")
    /\ UNCHANGED <<delivery, forwarded, continued, faults>>

(* _emit_to_sinks: all sinks are tried, and those that fail are counted.   *)
Emit(w) ==
    /\ worker[w].at = "emit"
    /\ \E ok \in SUBSET Sinks :
          /\ received' = [received EXCEPT ![worker[w].event] = @ \cup ok]
          /\ GoTo(w, IF ok = Sinks THEN "ack" ELSE "fail")
    /\ UNCHANGED <<delivery, forwarded, continued, faults>>

(* The row is closed; an acknowledgement that fails leaves the claim.      *)
Acknowledge(w) ==
    /\ worker[w].at = "ack"
    /\ \/ Close(w, Delivered(delivery[worker[w].event])) /\ UNCHANGED faults
       \/ faults < MaxFaults /\ faults' = faults + 1 /\ UNCHANGED delivery
    /\ worker' = [worker EXCEPT ![w] = Idle]
    /\ UNCHANGED <<forwarded, continued, received>>

(* _mark_claim_failed *)
Fail(w) ==
    /\ worker[w].at = "fail"
    /\ Close(w, Failed(delivery[worker[w].event], worker[w].attempt))
    /\ worker' = [worker EXCEPT ![w] = Idle]
    /\ UNCHANGED <<forwarded, continued, received, faults>>

Defer(w) ==
    /\ worker[w].at = "defer"
    /\ Close(w, Deferred(delivery[worker[w].event]))
    /\ worker' = [worker EXCEPT ![w] = Idle]
    /\ UNCHANGED <<forwarded, continued, received, faults>>

-----------------------------------------------------------------------------
(* Time and failures. *)

(* The lease of a dead worker runs out, or that of one that is slow.       *)
LeaseExpires(e) ==
    /\ delivery[e].status = "leased" /\ ~delivery[e].ready
    /\ \E w \in Workers : worker[w].event = e /\ Matches(w)
    /\ faults < MaxFaults
    /\ faults' = faults + 1
    /\ delivery' = [delivery EXCEPT ![e].ready = TRUE]
    /\ UNCHANGED <<worker, forwarded, continued, received>>

AbandonedLeaseExpires(e) ==
    /\ delivery[e].status = "leased" /\ ~delivery[e].ready
    /\ ~\E w \in Workers : worker[w].event = e /\ Matches(w)
    /\ delivery' = [delivery EXCEPT ![e].ready = TRUE]
    /\ UNCHANGED <<worker, forwarded, continued, received, faults>>

RetryDue(e) ==
    /\ delivery[e].status = "failed" /\ ~delivery[e].ready
    /\ delivery' = [delivery EXCEPT ![e].ready = TRUE]
    /\ UNCHANGED <<worker, forwarded, continued, received, faults>>

Crash(w) ==
    /\ worker[w].at # "idle"
    /\ faults < MaxFaults
    /\ faults' = faults + 1
    /\ worker' = [worker EXCEPT ![w] = Idle]
    /\ UNCHANGED <<delivery, forwarded, continued, received>>

Step(w) ==
    \/ Release(w) \/ Forward(w) \/ Continue(w) \/ Emit(w)
    \/ Acknowledge(w) \/ Fail(w) \/ Defer(w)

TimePasses(e) == AbandonedLeaseExpires(e) \/ RetryDue(e)

Next ==
    \/ \E e \in Events : \/ Append(e) \/ ForwardUnclaimed(e) \/ Retire(e)
                         \/ LeaseExpires(e) \/ TimePasses(e)
    \/ \E w \in Workers : \/ \E e \in Events : AppendAndClaim(w, e) \/ Claim(w, e)
                          \/ Step(w) \/ Crash(w)

Spec == Init /\ [][Next]_vars

(* create_server keeps a recovery loop running, a worker that is alive     *)
(* finishes what it began, and clocks advance.                             *)
Fairness ==
    /\ \A e \in Events : /\ WF_vars(\E w \in Workers : Claim(w, e))
                         /\ WF_vars(TimePasses(e))
    /\ \A w \in Workers : WF_vars(Step(w))

FairSpec == Spec /\ Fairness

-----------------------------------------------------------------------------
(* Properties. *)

(* Rows, deliveries and effects keep their types: a row has no more        *)
(* attempts than the limit and the faults account for.                     *)
TypeOK ==
    /\ delivery \in [Events -> Rows]
    /\ worker \in [Workers -> Deliveries \cup {Idle}]
    /\ forwarded \subseteq Events
    /\ continued \subseteq Events
    /\ received \in [Events -> SUBSET Sinks]
    /\ faults \in 0..MaxFaults

(* docs/event-side-effect-health.md: "delivered: All configured side       *)
(* effects acknowledged", whichever of several overlapping workers closed  *)
(* the row.                                                                *)
DeliveredEverywhere ==
    \A e \in Events :
        delivery[e].status = "delivered" =>
            /\ received[e] = Sinks
            /\ e \in BudgetEvents => e \in forwarded
            /\ e \in ChildEvents => e \in continued

(* Worker w has an unexpired lease of the row of e. *)
Holds(w, e) == worker[w].event = e /\ Matches(w) /\ ~delivery[e].ready

(* _matching_persisted_event_side_effect_claim_unlocked: "a stale worker   *)
(* cannot close a replacement claim" (docs/runtime-contracts.md): while a  *)
(* worker holds an unexpired lease, only its own step takes it away; and   *)
(* the late answer of a worker never reopens a row another has closed.     *)
LeaseFenced ==
    [][\A e \in Events :
          /\ \A w \in Workers :
                Holds(w, e) /\ worker'[w] = worker[w]
                    => delivery'[e] = delivery[e]
                       \/ delivery'[e] = [delivery[e] EXCEPT !.ready = TRUE]
          /\ delivery[e].status \in {"delivered", "dead_lettered"}
                => delivery'[e] = delivery[e]]_vars

(* recover_persisted_side_effects: every committed handoff is delivered or *)
(* dead-lettered, however the workers that claimed it died.                *)
HandoffsSettle ==
    \A e \in Events :
        delivery[e].status # "absent"
            ~> delivery[e].status \in {"delivered", "dead_lettered"}

=============================================================================
