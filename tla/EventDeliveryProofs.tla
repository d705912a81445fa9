------------------------ MODULE EventDeliveryProofs ------------------------
(* Proofs about the delivery of event side effects, for every number of    *)
(* events, workers, sinks, attempts and faults.                            *)
EXTENDS EventDelivery, TLAPS

(* What a worker has done when it reaches a place; effects are never       *)
(* undone, so another worker's delivery cannot take them back.             *)
Done(w) ==
    LET e == worker[w].event
        at == worker[w].at
    IN  /\ at \in {"continue", "emit", "ack"} /\ e \in BudgetEvents => e \in forwarded
        /\ at \in {"emit", "ack"} /\ e \in ChildEvents => e \in continued
        /\ at = "ack" => received[e] = Sinks

IInv == TypeOK /\ (\A w \in Workers : Done(w)) /\ DeliveredEverywhere

(* A worker that is not idle has an event. *)
LEMMA BusyWorker ==
    ASSUME TypeOK, NEW w \in Workers, worker[w].at # "idle"
    PROVE  /\ worker[w].event \in Events
           /\ worker[w].attempt \in 1..(MaxAttempts + MaxFaults)
           /\ worker[w].at \in Places
           /\ worker[w] \in Deliveries
<1>1. worker[w] \in Deliveries \cup {Idle}
  BY DEF TypeOK
<1>2. worker[w] # Idle
  BY DEF Idle
<1> QED BY <1>1, <1>2 DEF Deliveries, Places

(* Moving a worker keeps its type. *)
LEMMA GoToTyped ==
    ASSUME TypeOK, NEW w \in Workers, worker[w].at # "idle",
           NEW place \in Places \ {"idle"}, GoTo(w, place)
    PROVE  /\ worker' \in [Workers -> Deliveries \cup {Idle}]
           /\ worker'[w].at = place
           /\ worker'[w].event = worker[w].event
           /\ \A v \in Workers : v # w => worker'[v] = worker[v]
<1>1. worker[w] \in Deliveries
  BY BusyWorker
<1>2. [worker[w] EXCEPT !.at = place] \in Deliveries
  BY <1>1 DEF Deliveries
<1> QED BY <1>1, <1>2 DEF GoTo, TypeOK, Deliveries

(* So does leaving it idle, and beginning a delivery. *)
LEMMA SetTyped ==
    ASSUME TypeOK, NEW w \in Workers, NEW x \in Deliveries \cup {Idle},
           worker' = [worker EXCEPT ![w] = x]
    PROVE  /\ worker' \in [Workers -> Deliveries \cup {Idle}]
           /\ worker'[w] = x
           /\ \A v \in Workers : v # w => worker'[v] = worker[v]
BY DEF TypeOK

(* A row closed by a worker keeps its type, and only the row of that       *)
(* worker's event changes.                                                 *)
LEMMA CloseTyped ==
    ASSUME TypeOK, NEW w \in Workers, worker[w].at # "idle", NEW r, Close(w, r),
           Matches(w) => r \in Rows
    PROVE  /\ delivery' \in [Events -> Rows]
           /\ \A e \in Events : 
                 \/ delivery'[e] = delivery[e]
                 \/ (e = worker[w].event /\ Matches(w) /\ delivery'[e] = r)
<1>1. worker[w].event \in Events
  BY BusyWorker
<1>2. CASE ~Matches(w)
  <2>1. delivery' = delivery
    BY <1>2 DEF Close, Matches
  <2> QED BY <2>1 DEF TypeOK
<1>3. CASE Matches(w)
  <2>1. r \in Rows /\ delivery \in [Events -> Rows]
    BY <1>3 DEF TypeOK
  <2>2. delivery' = [delivery EXCEPT ![worker[w].event] = r]
    BY <1>3 DEF Close, Matches
  <2> QED BY <1>1, <1>3, <2>1, <2>2
<1> QED BY <1>2, <1>3

(* Effects only grow, and rows become delivered only by a worker that is   *)
(* through with all of them: then delivered rows have had every effect.    *)
LEMMA EffectsKept ==
    ASSUME IInv, TypeOK',
           forwarded \subseteq forwarded', continued \subseteq continued',
           \A e \in Events : received[e] \subseteq received'[e],
           \A w \in Workers : worker'[w] = worker[w] \/ Done(w)',
           \A e \in Events : delivery'[e].status = "delivered" =>
               \/ delivery[e].status = "delivered"
               \/ \E w \in Workers : worker[w].at = "ack" /\ worker[w].event = e
    PROVE  IInv'
<1>1. \A e \in Events : received[e] = Sinks => received'[e] = Sinks
  BY DEF TypeOK
<1>2. ASSUME NEW w \in Workers PROVE Done(w)'
  <2>1. CASE Done(w)'
    BY <2>1
  <2>2. CASE worker'[w] = worker[w]
    <3>1. Done(w)
      BY DEF IInv
    <3>2. worker[w].at = "ack" => worker[w].event \in Events
      BY BusyWorker DEF IInv
    <3> QED BY <1>1, <2>2, <3>1, <3>2 DEF Done
  <2> QED BY <2>1, <2>2
<1>3. DeliveredEverywhere'
  <2> SUFFICES ASSUME NEW e \in Events, delivery'[e].status = "delivered"
               PROVE  /\ received'[e] = Sinks
                      /\ e \in BudgetEvents => e \in forwarded'
                      /\ e \in ChildEvents => e \in continued'
    BY DEF DeliveredEverywhere
  <2>1. CASE delivery[e].status = "delivered"
    BY <2>1, <1>1 DEF IInv, DeliveredEverywhere
  <2>2. CASE \E w \in Workers : worker[w].at = "ack" /\ worker[w].event = e
    BY <2>2, <1>1 DEF IInv, Done
  <2> QED BY <2>1, <2>2
<1> QED BY <1>2, <1>3 DEF IInv

(* What the store writes into a row is a row. *)
LEMMA RowsTyped ==
    ASSUME TypeOK, NEW w \in Workers, worker[w].at # "idle", Matches(w)
    PROVE  LET d == delivery[worker[w].event]
           IN  /\ Deferred(d) \in Rows
               /\ Delivered(d) \in Rows
               /\ Failed(d, worker[w].attempt) \in Rows
<1> DEFINE d == delivery[worker[w].event]
<1>1. d \in Rows /\ d.attempts \in 1..(MaxAttempts + MaxFaults)
  BY BusyWorker DEF TypeOK, Matches
<1>2. MaxAttempts + MaxFaults \in Nat
  BY DeliveryConstants
<1>3. d.attempts - 1 \in 0..(MaxAttempts + MaxFaults) /\ d.attempts \in 0..(MaxAttempts + MaxFaults)
  BY <1>1, <1>2
<1> HIDE DEF d
<1>4. Deferred(d) \in Rows /\ Delivered(d) \in Rows /\ Failed(d, worker[w].attempt) \in Rows
  BY <1>3 DEF Deferred, Delivered, Failed, Rows, Statuses
<1> QED BY <1>4 DEF d

(* Taking a lease, and what the worker then holds. *)
LEMMA LeaseTyped ==
    ASSUME TypeOK, NEW w \in Workers, NEW e \in Events,
           NEW place \in Places \ {"idle"}, Lease(w, e), Begin(w, e, place)
    PROVE  /\ delivery' \in [Events -> Rows]
           /\ worker' \in [Workers -> Deliveries \cup {Idle}]
           /\ worker'[w].at = place /\ worker'[w].event = e
           /\ delivery'[e].status = "leased"
           /\ \A f \in Events : f # e => delivery'[f] = delivery[f]
           /\ \A v \in Workers : v # w => worker'[v] = worker[v]
<1>1. delivery[e] \in Rows /\ delivery \in [Events -> Rows]
  BY DEF TypeOK
<1>2. delivery[e].attempts \in 0..(MaxAttempts + MaxFaults)
  BY <1>1 DEF Rows
<1>3. delivery[e].attempts + 1 \in 1..(MaxAttempts + MaxFaults)
  BY <1>2, DeliveryConstants DEF Lease
<1> DEFINE r == [status |-> "leased", attempts |-> delivery[e].attempts + 1,
                 claim |-> w, ready |-> FALSE]
           x == [at |-> place, event |-> e, attempt |-> delivery[e].attempts + 1]
<1>4. r \in Rows /\ x \in Deliveries
  BY <1>3, DeliveryConstants DEF Rows, Statuses, Deliveries
<1>5. delivery' = [delivery EXCEPT ![e] = r]
  BY <1>1 DEF Lease
<1>6. worker' = [worker EXCEPT ![w] = x]
  BY DEF Begin
<1>7. r.status = "leased" /\ x.at = place /\ x.event = e
  OBVIOUS
<1> HIDE DEF r, x
<1>8. worker'[w] = x /\ worker' \in [Workers -> Deliveries \cup {Idle}]
      /\ \A v \in Workers : v # w => worker'[v] = worker[v]
  BY <1>4, <1>6, SetTyped
<1>9. delivery' \in [Events -> Rows] /\ delivery'[e] = r
      /\ \A f \in Events : f # e => delivery'[f] = delivery[f]
  BY <1>1, <1>4, <1>5
<1> QED BY <1>7, <1>8, <1>9

(* Only these places claim an effect. *)
LEMMA NothingDone ==
    ASSUME NEW w, worker'[w].at \notin {"continue", "emit", "ack"}
    PROVE  Done(w)'
BY DEF Done

-----------------------------------------------------------------------------
(* IInv is inductive, one lemma per group of actions.                      *)

(* The store's own steps, and time, touch rows only. *)
LEMMA RowsStep ==
    ASSUME IInv, NEW e \in Events, NEW r \in Rows, r.status # "delivered",
           delivery' = [delivery EXCEPT ![e] = r],
           UNCHANGED <<worker, forwarded, continued, received>>,
           faults' \in 0..MaxFaults
    PROVE  IInv'
<1>1. TypeOK'
  BY DEF IInv, TypeOK
<1>2. \A f \in Events : delivery'[f].status = "delivered" => delivery[f].status = "delivered"
  BY DEF IInv, TypeOK
<1> QED BY <1>1, <1>2, EffectsKept

(* Appending, retiring and the passing of time. *)
LEMMA EventSteps ==
    ASSUME IInv, NEW e \in Events,
           \/ Append(e) \/ ForwardUnclaimed(e) \/ Retire(e)
           \/ LeaseExpires(e) \/ TimePasses(e)
    PROVE  IInv'
<1>0. TypeOK /\ delivery \in [Events -> Rows] /\ delivery[e] \in Rows /\ faults \in 0..MaxFaults
  BY DEF IInv, TypeOK
<1>1. CASE Append(e)
  <2>1. [delivery[e] EXCEPT !.status = "pending"] \in Rows
    BY <1>0 DEF Rows, Statuses
  <2> QED BY <1>0, <1>1, <2>1, RowsStep DEF Append, Rows
<1>2. CASE ForwardUnclaimed(e)
  <2>1. TypeOK'
    BY <1>0, <1>2 DEF ForwardUnclaimed, TypeOK
  <2> QED BY <1>2, <2>1, EffectsKept DEF ForwardUnclaimed
<1>3. CASE Retire(e)
  <2>1. [delivery[e] EXCEPT !.status = "dead_lettered", !.ready = FALSE] \in Rows
    BY <1>0 DEF Rows, Statuses
  <2>2. delivery' = [delivery EXCEPT ![e] =
                        [delivery[e] EXCEPT !.status = "dead_lettered", !.ready = FALSE]]
    BY <1>0, <1>3 DEF Retire
  <2> QED BY <1>0, <1>3, <2>1, <2>2, RowsStep DEF Retire, Rows
<1>4. ASSUME LeaseExpires(e) \/ TimePasses(e) PROVE IInv'
  <2>1. [delivery[e] EXCEPT !.ready = TRUE] \in Rows
    BY <1>0 DEF Rows
  <2>2. delivery' = [delivery EXCEPT ![e] = [delivery[e] EXCEPT !.ready = TRUE]]
        /\ delivery[e].status \in {"leased", "failed"}
        /\ UNCHANGED <<worker, forwarded, continued, received>>
    BY <1>0, <1>4 DEF LeaseExpires, TimePasses, AbandonedLeaseExpires, RetryDue
  <2>3. faults' \in 0..MaxFaults
    BY <1>0, <1>4, DeliveryConstants DEF LeaseExpires, TimePasses, AbandonedLeaseExpires, RetryDue
  <2> QED BY <1>0, <2>1, <2>2, <2>3, RowsStep DEF Rows
<1> QED BY <1>1, <1>2, <1>3, <1>4

(* Claims. *)
LEMMA ClaimSteps ==
    ASSUME IInv, NEW w \in Workers, NEW e \in Events, AppendAndClaim(w, e) \/ Claim(w, e)
    PROVE  IInv'
<1>1. PICK place \in {"forward", "release"} : Lease(w, e) /\ Begin(w, e, place)
  BY DEF AppendAndClaim, Claim
<1>2. TypeOK
  BY DEF IInv
<1>3. place \in Places \ {"idle"}
  BY <1>1 DEF Places
<1>4. /\ delivery' \in [Events -> Rows]
      /\ worker' \in [Workers -> Deliveries \cup {Idle}]
      /\ worker'[w].at = place
      /\ delivery'[e].status = "leased"
      /\ \A f \in Events : f # e => delivery'[f] = delivery[f]
      /\ \A v \in Workers : v # w => worker'[v] = worker[v]
  BY <1>1, <1>2, <1>3, LeaseTyped
<1>5. UNCHANGED <<forwarded, continued, received>>
  BY DEF AppendAndClaim, Claim
<1>6. faults' \in 0..MaxFaults
  BY <1>2, DeliveryConstants DEF AppendAndClaim, Claim, TypeOK
<1>7. TypeOK'
  BY <1>2, <1>4, <1>5, <1>6 DEF TypeOK
<1>8. Done(w)'
  BY <1>1, <1>4, NothingDone
<1> QED BY <1>4, <1>5, <1>7, <1>8, EffectsKept

(* The steps that end a delivery. *)
LEMMA ClosingSteps ==
    ASSUME IInv, NEW w \in Workers,
           \/ Release(w) \/ Acknowledge(w) \/ Fail(w) \/ Defer(w) \/ Crash(w)
    PROVE  IInv'
<1> DEFINE d == delivery[worker[w].event]
<1>1. TypeOK /\ worker[w].at # "idle"
  BY DEF IInv, Release, Acknowledge, Fail, Defer, Crash
<1>2. PICK r : /\ Close(w, r) \/ delivery' = delivery
               /\ \/ r = Deferred(d)
                  \/ r = Failed(d, worker[w].attempt)
                  \/ r = Delivered(d) /\ worker[w].at = "ack"
  BY DEF Release, Acknowledge, Fail, Defer, Crash
<1>3. Matches(w) => r \in Rows
  BY <1>1, <1>2, RowsTyped
<1>4. /\ delivery' \in [Events -> Rows]
      /\ \A e \in Events : \/ delivery'[e] = delivery[e]
                           \/ (e = worker[w].event /\ delivery'[e] = r)
  <2>1. CASE delivery' = delivery
    BY <1>1, <2>1 DEF TypeOK
  <2>2. CASE Close(w, r)
    BY <1>1, <1>3, <2>2, CloseTyped
  <2> QED BY <1>2, <2>1, <2>2
<1>5. /\ worker' = [worker EXCEPT ![w] = Idle]
      /\ UNCHANGED <<forwarded, continued, received>>
  BY DEF Release, Acknowledge, Fail, Defer, Crash
<1>6. faults' \in 0..MaxFaults
  BY <1>1, DeliveryConstants DEF Release, Acknowledge, Fail, Defer, Crash, TypeOK
<1>7. /\ worker' \in [Workers -> Deliveries \cup {Idle}]
      /\ worker'[w] = Idle
      /\ \A v \in Workers : v # w => worker'[v] = worker[v]
  BY <1>1, <1>5, SetTyped
<1>8. TypeOK'
  BY <1>1, <1>4, <1>5, <1>6, <1>7 DEF TypeOK
<1>9. Done(w)'
  BY <1>7, NothingDone DEF Idle
<1>10. r.status = "delivered" => worker[w].at = "ack"
  BY <1>2 DEF Deferred, Failed
<1>11. \A e \in Events : delivery'[e].status = "delivered" =>
          delivery[e].status = "delivered" \/ (worker[w].at = "ack" /\ worker[w].event = e)
  BY <1>4, <1>10
<1> QED BY <1>5, <1>7, <1>8, <1>9, <1>11, EffectsKept

(* The effects. *)
LEMMA EffectSteps ==
    ASSUME IInv, NEW w \in Workers, Forward(w) \/ Continue(w) \/ Emit(w)
    PROVE  IInv'
<1>1. TypeOK /\ Done(w) /\ worker[w].at # "idle" /\ worker[w].event \in Events
  BY BusyWorker DEF IInv, Forward, Continue, Emit
<1>2. PICK place \in Places \ {"idle"} : GoTo(w, place)
  BY DEF Forward, Continue, Emit, Places
<1>3. /\ worker' \in [Workers -> Deliveries \cup {Idle}]
      /\ worker'[w].at = place
      /\ worker'[w].event = worker[w].event
      /\ \A v \in Workers : v # w => worker'[v] = worker[v]
  BY <1>1, <1>2, GoToTyped
<1>12. \A q \in Places \ {"idle"} : GoTo(w, q) => worker'[w].at = q
  BY <1>1, GoToTyped
<1>13. {"continue", "emit", "defer", "fail"} \subseteq Places \ {"idle"}
  BY DEF Places
<1>4. /\ delivery' = delivery
      /\ forwarded' \subseteq Events /\ forwarded \subseteq forwarded'
      /\ continued' \subseteq Events /\ continued \subseteq continued'
  BY <1>1 DEF Forward, Continue, Emit, TypeOK
<1>5. received' \in [Events -> SUBSET Sinks] /\ \A e \in Events : received[e] \subseteq received'[e]
  BY <1>1 DEF Forward, Continue, Emit, TypeOK
<1>6. faults' \in 0..MaxFaults
  BY <1>1, DeliveryConstants DEF Forward, Continue, Emit, TypeOK
<1>7. TypeOK'
  BY <1>1, <1>3, <1>4, <1>5, <1>6 DEF TypeOK
<1>8. Done(w)'
  <2>1. CASE Forward(w)
    <3>1. worker'[w].at \in {"continue", "fail"}
      BY <1>12, <1>13, <2>1 DEF Forward
    <3>2. worker'[w].at = "continue" /\ worker[w].event \in BudgetEvents => worker[w].event \in forwarded'
      BY <1>12, <1>13, <2>1 DEF Forward
    <3> QED BY <1>3, <3>1, <3>2 DEF Done
  <2>2. CASE Continue(w)
    <3>1. worker'[w].at \in {"emit", "defer", "fail"}
      BY <1>12, <1>13, <2>2 DEF Continue
    <3>2. worker'[w].at = "emit" /\ worker[w].event \in ChildEvents => worker[w].event \in continued'
      BY <1>12, <1>13, <2>2 DEF Continue
    <3>3. worker[w].event \in BudgetEvents => worker[w].event \in forwarded'
      BY <1>1, <1>4, <2>2 DEF Continue, Done
    <3> QED BY <1>3, <3>1, <3>2, <3>3 DEF Done
  <2>3. CASE Emit(w)
    <3>1. worker'[w].at \in {"ack", "fail"}
      BY <1>1, <2>3 DEF Emit, GoTo, TypeOK
    <3>2. worker'[w].at = "ack" => received'[worker[w].event] = Sinks
      <4>1. PICK ok \in SUBSET Sinks :
                /\ received' = [received EXCEPT ![worker[w].event] = @ \cup ok]
                /\ GoTo(w, IF ok = Sinks THEN "ack" ELSE "fail")
        BY <2>3 DEF Emit
      <4>2. worker'[w].at = IF ok = Sinks THEN "ack" ELSE "fail"
        BY <1>1, <4>1 DEF GoTo, TypeOK
      <4>3. received'[worker[w].event] = received[worker[w].event] \cup ok
            /\ received[worker[w].event] \subseteq Sinks
        BY <1>1, <4>1 DEF TypeOK
      <4> QED BY <4>2, <4>3
    <3>3. /\ worker[w].event \in BudgetEvents => worker[w].event \in forwarded'
          /\ worker[w].event \in ChildEvents => worker[w].event \in continued'
      BY <1>1, <1>4, <2>3 DEF Emit, Done
    <3> QED BY <1>3, <3>1, <3>2, <3>3 DEF Done
  <2> QED BY <2>1, <2>2, <2>3
<1> QED BY <1>3, <1>4, <1>5, <1>7, <1>8, EffectsKept

(* The inductive invariant holds of every behaviour: every worker past an  *)
(* effect has had it, whatever other workers, crashes and expiries do.     *)
THEOREM DeliveryInvariant == Spec => []IInv
<1>1. Init => IInv
  <2> SUFFICES ASSUME Init PROVE IInv
    OBVIOUS
  <2>1. Absent \in Rows
    BY DeliveryConstants DEF Absent, Rows, Statuses
  <2>2. TypeOK
    BY <2>1, DeliveryConstants DEF Init, TypeOK
  <2>3. \A w \in Workers : Done(w)
    BY DEF Init, Done, Idle
  <2>4. DeliveredEverywhere
    BY DEF Init, DeliveredEverywhere, Absent
  <2> QED BY <2>2, <2>3, <2>4 DEF IInv
<1>2. IInv /\ [Next]_vars => IInv'
  <2> SUFFICES ASSUME IInv, [Next]_vars PROVE IInv'
    OBVIOUS
  <2>1. CASE UNCHANGED vars
    BY <2>1 DEF vars, IInv, TypeOK, Done, DeliveredEverywhere
  <2>2. CASE Next
    BY <2>2, EventSteps, ClaimSteps, ClosingSteps, EffectSteps DEF Next, Step
  <2> QED BY <2>1, <2>2
<1> QED BY <1>1, <1>2, PTL DEF Spec

(* Every row, worker and effect keeps its type; in particular, no deferral *)
(* gives back an attempt that was not counted.                             *)
THEOREM DeliveryTypes == Spec => []TypeOK
BY DeliveryInvariant, PTL DEF IInv

(* A row marked delivered has had all its effects, whichever of several    *)
(* overlapping deliveries closed it.                                       *)
THEOREM DeliveredMeansEverywhere == Spec => []DeliveredEverywhere
BY DeliveryInvariant, PTL DEF IInv

(* mark_..._delivered, mark_..._failed and defer_... match the claim, so   *)
(* a stale worker closes neither its successor's lease nor a closed row.   *)
THEOREM LeasesFenced == Spec => LeaseFenced
<1>1. ASSUME TypeOK, [Next]_vars, NEW e \in Events
      PROVE  /\ \A w \in Workers :
                    Holds(w, e) /\ worker'[w] = worker[w] =>
                        \/ delivery'[e] = delivery[e]
                        \/ delivery'[e] = [delivery[e] EXCEPT !.ready = TRUE]
             /\ delivery[e].status \in {"delivered", "dead_lettered"} => delivery'[e] = delivery[e]
  <2>0. delivery \in [Events -> Rows]
    BY <1>1 DEF TypeOK
  <2>1. ASSUME NEW v \in Workers, NEW r, Close(v, r), worker[v].at # "idle",
               worker' = [worker EXCEPT ![v] = Idle]
        PROVE  /\ \A w \in Workers :
                    Holds(w, e) /\ worker'[w] = worker[w] => delivery'[e] = delivery[e]
               /\ delivery[e].status \in {"delivered", "dead_lettered"} => delivery'[e] = delivery[e]
    <3>1. CASE worker[v].event # e \/ ~Matches(v)
      BY <1>1, <2>0, <2>1, <3>1 DEF Close, Matches
    <3>2. CASE worker[v].event = e /\ Matches(v)
      <4>1. delivery[e].claim = v /\ delivery[e].status = "leased"
        BY <3>2 DEF Matches
      <4>2. worker'[v] # worker[v]
        BY <1>1, <2>1 DEF TypeOK, Idle
      <4> QED BY <4>1, <4>2 DEF Holds, Matches
    <3> QED BY <3>1, <3>2
  <2>2. ASSUME NEW v \in Workers, Release(v) \/ Acknowledge(v) \/ Fail(v) \/ Defer(v)
        PROVE  /\ \A w \in Workers :
                    Holds(w, e) /\ worker'[w] = worker[w] => delivery'[e] = delivery[e]
               /\ delivery[e].status \in {"delivered", "dead_lettered"} => delivery'[e] = delivery[e]
    <3>1. /\ worker[v].at # "idle"
          /\ worker' = [worker EXCEPT ![v] = Idle]
          /\ (\E r : Close(v, r)) \/ delivery' = delivery
      BY <2>2 DEF Release, Acknowledge, Fail, Defer
    <3> QED BY <2>1, <3>1
  <2>3. ASSUME NEW v \in Workers, NEW f \in Events, Claim(v, f) \/ AppendAndClaim(v, f)
        PROVE  /\ \A w \in Workers : Holds(w, e) => delivery'[e] = delivery[e]
               /\ delivery[e].status \in {"delivered", "dead_lettered"} => delivery'[e] = delivery[e]
    BY <2>0, <2>3 DEF Claim, AppendAndClaim, Lease, Claimable, Holds, Matches
  <2>4. ASSUME NEW f \in Events,
               \/ Append(f) \/ ForwardUnclaimed(f) \/ Retire(f)
               \/ LeaseExpires(f) \/ TimePasses(f)
        PROVE  /\ \A w \in Workers :
                    Holds(w, e) => \/ delivery'[e] = delivery[e]
                                   \/ delivery'[e] = [delivery[e] EXCEPT !.ready = TRUE]
               /\ delivery[e].status \in {"delivered", "dead_lettered"} => delivery'[e] = delivery[e]
    BY <2>0, <2>4 DEF Append, ForwardUnclaimed, Retire, LeaseExpires, TimePasses,
                      AbandonedLeaseExpires, RetryDue, Holds, Matches
  <2>5. ASSUME NEW v \in Workers, Forward(v) \/ Continue(v) \/ Emit(v) \/ Crash(v)
        PROVE  delivery' = delivery
    BY <2>5 DEF Forward, Continue, Emit, Crash
  <2>6. CASE UNCHANGED vars
    BY <2>6 DEF vars
  <2>7. CASE Next
    BY <2>2, <2>3, <2>4, <2>5, <2>7 DEF Next, Step
  <2> QED BY <1>1, <2>6, <2>7
<1>2. TypeOK /\ [Next]_vars =>
        [\A e \in Events :
          /\ \A w \in Workers :
                Holds(w, e) /\ worker'[w] = worker[w]
                    => delivery'[e] = delivery[e]
                       \/ delivery'[e] = [delivery[e] EXCEPT !.ready = TRUE]
          /\ delivery[e].status \in {"delivered", "dead_lettered"}
                => delivery'[e] = delivery[e]]_vars
  BY <1>1
<1> QED BY <1>2, DeliveryTypes, PTL DEF Spec, LeaseFenced
=============================================================================
