---------------------------- MODULE BudgetLedger ----------------------------
(***************************************************************************)
(* The reservation ledger behind cayu's hard budget caps, as               *)
(* SQLiteBudgetLedger implements it: each operation is one BEGIN IMMEDIATE *)
(* transaction under one lock, so one action is one whole operation and an *)
(* operation that raises, rolled back, is a stuttering step.  Workers of   *)
(* all sessions share one ledger.                                          *)
(*                                                                         *)
(* A reservation holds capacity of one budget limit from before a provider *)
(* call until it is reconciled to the amount charged, or released.  Before *)
(* the call it is a lease that expires; mark_dispatched fences it, and     *)
(* from then on only a settlement may free it.  Every settlement is posted *)
(* to an outbox in the same transaction.                                   *)
(***************************************************************************)
EXTENDS Naturals, FiniteSets

CONSTANTS
    Reservations,   \* reservation ids
    Limits,         \* budget_limit_id of the limits in force
    Maximum,        \* max_estimated_cost of each limit
    WindowKind,     \* "all_time", "rolling" or "calendar", for each limit
    Duration,       \* duration_seconds of the rolling limits
    Period,         \* the calendar period each instant falls into
    Amounts,        \* amounts callers reserve and charge
    MaxAmount,      \* bound: the largest amount
    Expiring,       \* whether reservations expire (the ttl is not None)
    Ttl,            \* reservation_ttl_seconds, when they do
    Dispatches,     \* dispatch ids: one per attempt to call the provider
    Reasons,        \* reasons callers give for a settlement
    Bindings,       \* binding ids
    Authorities,    \* authority digests of bindings
    Allowances,     \* numbers of attempts a binding may be registered for
    Attempts,       \* binding_consumption_id: model attempts
    MaxClock,       \* bound: the last instant of the ledger's clock
    None

WindowKinds == {"all_time", "rolling", "calendar"}

ASSUME LedgerConstants ==
    /\ IsFiniteSet(Reservations)
    /\ Maximum \in [Limits -> Nat]
    /\ WindowKind \in [Limits -> WindowKinds]
    /\ Duration \in [Limits -> Nat \ {0}]
    /\ MaxAmount \in Nat
    /\ Amounts \subseteq 0..MaxAmount
    /\ Expiring \in BOOLEAN
    /\ Ttl \in Nat \ {0}
    /\ Allowances \subseteq Nat
    /\ IsFiniteSet(Attempts)
    /\ MaxClock \in Nat

ASSUME CalendarAssumption ==
    /\ Period \in [0..MaxClock -> Nat]
    /\ \A t, u \in 0..MaxClock : t <= u => Period[t] <= Period[u]

(* The reason cleanup gives: _EXPIRED_RESERVATION_REASON_PREFIX.           *)
Expired == "Reservation expired"

ASSUME LedgerNames == /\ None \notin Dispatches
                      /\ None \notin Reasons \cup Limits \cup Authorities
                      /\ Expired \notin Reasons
                      /\ Expired # None

VARIABLES
    now,        \* the ledger's clock
    records,    \* cayu_budget_reservations
    outbox,     \* cayu_budget_settlements, by reservation
    published,  \* the settlements whose event_published is set
    bindings    \* cayu_budget_bindings and their consumptions

vars == <<now, records, outbox, published, bindings>>

-----------------------------------------------------------------------------
(* Reservations. *)

Statuses == {"absent", "active", "reconciled", "released"}
Kinds == {"completed", "conservative", "released"}
Instants == 0..MaxClock

(* What guards read of a BudgetReservationRecord.  actual is 0 until the   *)
(* reservation is reconciled (the code has NULL and counts it as 0).       *)
Records ==
    [limit : Limits \cup {None}, reserved : 0..MaxAmount, actual : 0..MaxAmount,
     status : Statuses, reason : Reasons \cup {Expired, None},
     dispatch : Dispatches \cup {None}, created : Instants, updated : Instants]

NoRecord ==
    [limit |-> None, reserved |-> 0, actual |-> 0, status |-> "absent",
     reason |-> None, dispatch |-> None, created |-> 0, updated |-> 0]

NewRecord(l, amount) ==
    [limit |-> l, reserved |-> amount, actual |-> 0, status |-> "active",
     reason |-> None, dispatch |-> None, created |-> now, updated |-> now]

IsExpired(k) == Expiring /\ k.updated + Ttl <= now

(* _reconciled_record: an identical retry returns the record as it is.     *)
CanReconcile(k, amount, reason) ==
    \/ k.status = "active"
    \/ k.status = "reconciled" /\ k.actual = amount /\ k.reason = reason

ReconciledRecord(k, amount, reason, at) ==
    IF k.status = "reconciled" THEN k
    ELSE [k EXCEPT !.status = "reconciled", !.actual = amount,
                   !.reason = reason, !.updated = at]

(* _released_record: a caller that releases what cleanup has released is   *)
(* given cleanup's result.                                                 *)
CanRelease(k, reason) ==
    \/ k.status = "active"
    \/ k.status = "released" /\ k.reason \in {reason, Expired}

ReleasedRecord(k, reason, at) ==
    IF k.status = "released" THEN k
    ELSE [k EXCEPT !.status = "released", !.reason = reason, !.updated = at]

-----------------------------------------------------------------------------
(* Settlements. *)

(* The reconciliation that settles record k: its accounting and its date.  *)
Settlement(k, kind) ==
    [kind |-> kind, status |-> k.status, reserved |-> k.reserved, actual |-> k.actual,
     released |-> IF k.status = "released" THEN k.reserved
                  ELSE IF k.reserved > k.actual THEN k.reserved - k.actual ELSE 0,
     reason |-> k.reason, settled |-> k.updated]

NoSettlement ==
    [kind |-> "none", status |-> "absent", reserved |-> 0, actual |-> 0,
     released |-> 0, reason |-> None, settled |-> 0]

Settlements ==
    [kind : Kinds \cup {"none"}, status : Statuses, reserved : 0..MaxAmount,
     actual : 0..MaxAmount, released : 0..MaxAmount,
     reason : Reasons \cup {Expired, None}, settled : Instants]

(* Mutant: INSERT OR REPLACE, without validation. *)
PostReplacing(S, new, kind) ==
    outbox' = [r \in Reservations |->
                 IF r \in S THEN Settlement(new[r], kind) ELSE outbox[r]]

(* _insert_or_validate_settlement_unlocked, for the reservations in S: a   *)
(* settlement is inserted once, and a later one must equal it.             *)
Post(S, new, kind) ==
    /\ \A r \in S : outbox[r] \in {NoSettlement, Settlement(new[r], kind)}
    /\ outbox' = [r \in Reservations |->
                    IF r \in S THEN Settlement(new[r], kind) ELSE outbox[r]]

-----------------------------------------------------------------------------
(* Capacity. *)

(* The sum of f[r] over all reservations, counted unit by unit. *)
Units(f) == {u \in Reservations \X (1..MaxAmount) : u[2] <= f[u[1]]}
Total(f) == Cardinality(Units(f))

(* BudgetWindow.bounds: whether a charge dated u counts at instant t.  The *)
(* upper bound of a rolling window is t itself, exclusive.                 *)
InWindow(l, u, t) ==
    CASE WindowKind[l] = "all_time" -> TRUE
      [] WindowKind[l] = "rolling" -> t <= u + Duration[l] /\ u < t
      [] WindowKind[l] = "calendar" -> Period[u] = Period[t]

(* Mutant: active reservations age out of the window like charges. *)
CountedInWindow(rs, l) ==
    [r \in Reservations |->
        IF rs[r].limit # l \/ ~InWindow(l, rs[r].updated, now) THEN 0
        ELSE IF rs[r].status = "active" THEN rs[r].reserved
        ELSE IF rs[r].status = "reconciled" THEN rs[r].actual
        ELSE 0]

(* _used_amount_unlocked: what each reservation counts against limit l.    *)
Counted(rs, l) ==
    [r \in Reservations |->
        IF rs[r].limit # l THEN 0
        ELSE IF rs[r].status = "active" THEN rs[r].reserved
        ELSE IF rs[r].status = "reconciled" /\ InWindow(l, rs[r].updated, now)
             THEN rs[r].actual
        ELSE 0]

(* Mutant: cleanup does not look at the dispatch fence. *)
LapsedDispatched(ls) ==
    {r \in Reservations : /\ records[r].status = "active"
                          /\ records[r].limit \in ls
                          /\ IsExpired(records[r])}

(* _reap_expired_unlocked, for the limits in ls: the reservations it       *)
(* releases, and the records it leaves.                                    *)
Lapsed(ls) ==
    {r \in Reservations : /\ records[r].status = "active"
                          /\ records[r].dispatch = None
                          /\ records[r].limit \in ls
                          /\ IsExpired(records[r])}

Reaped(ls) ==
    [r \in Reservations |-> IF r \in Lapsed(ls)
                            THEN ReleasedRecord(records[r], Expired, now)
                            ELSE records[r]]

Fits(l, amount) == Total(Counted(Reaped({l}), l)) + amount <= Maximum[l]

-----------------------------------------------------------------------------
(* Operations. *)

Init ==
    /\ now = 0
    /\ records = [r \in Reservations |-> NoRecord]
    /\ outbox = [r \in Reservations |-> NoSettlement]
    /\ published = {}
    /\ bindings = [b \in Bindings |->
                     [authority |-> None, allowance |-> 0, consumed |-> {}]]

(* reserve, when capacity remains and the id is new. *)
Reserve(r, l, amount) ==
    /\ Fits(l, amount)
    /\ Reaped({l})[r].status = "absent"
    /\ Post(Lapsed({l}), Reaped({l}), "released")
    /\ records' = [Reaped({l}) EXCEPT ![r] = NewRecord(l, amount)]
    /\ UNCHANGED <<now, published, bindings>>

(* reserve, when it does not: what cleanup did is committed all the same.  *)
ReserveRejected(l, amount) ==
    /\ ~Fits(l, amount)
    /\ Post(Lapsed({l}), Reaped({l}), "released")
    /\ records' = Reaped({l})
    /\ UNCHANGED <<now, published, bindings>>

MaxBatch == 16

(* prepare_batch: one new reservation for each of several limits. *)
Batches ==
    {m \in UNION {[S -> Limits] : S \in SUBSET Reservations} :
        /\ Cardinality(DOMAIN m) \in 1..MaxBatch
        /\ \A r, q \in DOMAIN m : m[r] = m[q] => r = q}

(* Mutant: the allowance is compared before the attempt is inserted. *)
ConsumeCountedBefore(b, authority, allowance, a) ==
    /\ bindings[b].authority = authority
    /\ bindings[b].allowance = allowance
    /\ \/ a \in bindings[b].consumed
       \/ Cardinality(bindings[b].consumed) <= allowance
    /\ bindings' = [bindings EXCEPT ![b].consumed = @ \cup {a}]

(* The binding part of reserve_batch: attempt a is consumed once, and no   *)
(* more attempts than the allowance.                                       *)
Consume(b, authority, allowance, a) ==
    /\ bindings[b].authority = authority
    /\ bindings[b].allowance = allowance
    /\ \/ a \in bindings[b].consumed
       \/ Cardinality(bindings[b].consumed \cup {a}) <= allowance
    /\ bindings' = [bindings EXCEPT ![b].consumed = @ \cup {a}]

(* reserve_batch, when every limit has capacity.  An exact replay returns  *)
(* the stored records; a batch that exists in part is a conflict.          *)
ReserveBatch(m, amounts) ==
    LET ls == {m[r] : r \in DOMAIN m} IN
    /\ \A r \in DOMAIN m : records[r].status = "absent"
    /\ \A r \in DOMAIN m : Fits(m[r], amounts[r])
    /\ \/ UNCHANGED bindings
       \/ \E b \in Bindings, authority \in Authorities, allowance \in Allowances,
            a \in Attempts : Consume(b, authority, allowance, a)
    /\ Post(Lapsed(ls), Reaped(ls), "released")
    /\ records' = [r \in Reservations |->
                     IF r \in DOMAIN m THEN NewRecord(m[r], amounts[r]) ELSE Reaped(ls)[r]]
    /\ UNCHANGED <<now, published>>

(* reserve_batch, when the limit of member f is the first in the order of  *)
(* the batch that has no capacity: the limits of the members before it and *)
(* its own were cleaned up.                                                *)
ReserveBatchRejected(m, amounts) ==
    \E f \in DOMAIN m : \E before \in SUBSET (DOMAIN m \ {f}) :
        LET ls == {m[r] : r \in before \cup {f}} IN
        /\ \A r \in DOMAIN m : records[r].status = "absent"
        /\ \A r \in before : Fits(m[r], amounts[r])
        /\ ~Fits(m[f], amounts[f])
        /\ Post(Lapsed(ls), Reaped(ls), "released")
        /\ records' = Reaped(ls)
        /\ UNCHANGED <<now, published, bindings>>

RegisterBudgetBinding(b, authority, allowance) ==
    /\ bindings[b].authority = None
    /\ bindings' = [bindings EXCEPT ![b].authority = authority,
                                    ![b].allowance = allowance]
    /\ UNCHANGED <<now, records, outbox, published>>

(* A fence must find its reservation unfenced, active and unexpired; one   *)
(* that is already there is left alone, whatever became of the record.     *)
CanDispatch(k, d) ==
    \/ k.dispatch = d
    \/ k.dispatch = None /\ k.status = "active" /\ ~IsExpired(k)

MarkDispatched(S, d) ==
    /\ \A r \in S : CanDispatch(records[r], d)
    /\ records' = [r \in Reservations |->
                     IF r \in S THEN [records[r] EXCEPT !.dispatch = d] ELSE records[r]]
    /\ UNCHANGED <<now, outbox, published, bindings>>

(* Only the runtime's provider barrier calls this, for one attempt. *)
ReleasePreProviderDispatch(S, d, reason, at) ==
    LET new == [r \in S |-> ReleasedRecord(records[r], reason, at)] IN
    /\ \A r \in S : records[r].dispatch \in {None, d} /\ CanRelease(records[r], reason)
    /\ Post(S, new, "released")
    /\ records' = [r \in Reservations |-> IF r \in S THEN new[r] ELSE records[r]]
    /\ UNCHANGED <<now, published, bindings>>

(* Mutant: a settled reservation is renewed too. *)
HeartbeatSettled(r) ==
    /\ records[r].status # "absent"
    /\ ~IsExpired(records[r])
    /\ records' = [records EXCEPT ![r].updated = now]
    /\ UNCHANGED <<now, outbox, published, bindings>>

Heartbeat(r) ==
    /\ records[r].status = "active"
    /\ ~IsExpired(records[r])
    /\ records' = [records EXCEPT ![r].updated = now]
    /\ UNCHANGED <<now, outbox, published, bindings>>

(* The charge is dated by the caller: the instant the model completed.     *)
Reconcile(r, amount, kind, reason, at) ==
    LET new == [records EXCEPT ![r] = ReconciledRecord(records[r], amount, reason, at)] IN
    /\ CanReconcile(records[r], amount, reason)
    /\ Post({r}, new, kind)
    /\ records' = new
    /\ UNCHANGED <<now, published, bindings>>

Release(r, reason, at) ==
    LET new == [records EXCEPT ![r] = ReleasedRecord(records[r], reason, at)] IN
    /\ records[r].status = "active" => records[r].dispatch = None
    /\ CanRelease(records[r], reason)
    /\ Post({r}, new, "released")
    /\ records' = new
    /\ UNCHANGED <<now, published, bindings>>

MarkSettlementEventPublished(r) ==
    /\ outbox[r] # NoSettlement
    /\ published' = published \cup {r}
    /\ UNCHANGED <<now, records, outbox, bindings>>

Tick ==
    /\ now < MaxClock
    /\ now' = now + 1
    /\ UNCHANGED <<records, outbox, published, bindings>>

(* Callers date a settlement by their own clock, between the reservation   *)
(* and the call.                                                           *)
Dates(r) == records[r].created..now

Next ==
    \/ \E r \in Reservations :
         \/ \E l \in Limits, amount \in Amounts : Reserve(r, l, amount)
         \/ Heartbeat(r)
         \/ \E amount \in Amounts, kind \in Kinds \ {"released"},
              reason \in Reasons \cup {None}, at \in Dates(r) :
              Reconcile(r, amount, kind, reason, at)
         \/ \E reason \in Reasons, at \in Dates(r) : Release(r, reason, at)
         \/ MarkSettlementEventPublished(r)
    \/ \E l \in Limits, amount \in Amounts : ReserveRejected(l, amount)
    \/ \E m \in Batches : \E amounts \in [DOMAIN m -> Amounts] :
         ReserveBatch(m, amounts) \/ ReserveBatchRejected(m, amounts)
    \/ \E b \in Bindings, authority \in Authorities, allowance \in Allowances :
         RegisterBudgetBinding(b, authority, allowance)
    \/ \E S \in SUBSET Reservations, d \in Dispatches :
         \/ MarkDispatched(S, d)
         \/ \E reason \in Reasons, at \in Instants :
              /\ \A r \in S : at \in Dates(r)
              /\ ReleasePreProviderDispatch(S, d, reason, at)
    \/ Tick

Spec == Init /\ [][Next]_vars

-----------------------------------------------------------------------------
(* Correctness. *)

(* Every variable has its type, and no date lies in the future.            *)
TypeOK ==
    /\ now \in Instants
    /\ records \in [Reservations -> Records]
    /\ outbox \in [Reservations -> Settlements]
    /\ published \subseteq Reservations
    /\ bindings \in [Bindings -> [authority : Authorities \cup {None},
                                  allowance : Allowances \cup {0},
                                  consumed : SUBSET Attempts]]

(* The instants at which the window of l that contains t holds a charge    *)
(* dated u, and whether a reservation made at c can still be charged there *)
Covers(l, t, u) ==
    CASE WindowKind[l] = "all_time" -> TRUE
      [] WindowKind[l] = "rolling" -> u <= t /\ t < u + Duration[l]
      [] WindowKind[l] = "calendar" -> Period[u] = Period[t]

Reaches(l, t, c) ==
    CASE WindowKind[l] = "all_time" -> TRUE
      [] WindowKind[l] = "rolling" -> c <= t
      [] WindowKind[l] = "calendar" -> Period[c] <= Period[t]

(* A rolling limit does not see a charge dated at the very instant at      *)
(* which another reservation was made: its window ends before that instant *)
Unseen(l, r) ==
    /\ WindowKind[l] = "rolling"
    /\ records[r].status = "reconciled"
    /\ \E q \in Reservations \ {r} :
          records[q].limit = l /\ records[q].created = records[r].updated

(* What each reservation holds of limit l in that window: all of it while  *)
(* active, then what it was charged, up to what it had reserved.           *)
Committed(l, t) ==
    [r \in Reservations |->
        IF records[r].limit # l \/ Unseen(l, r) THEN 0
        ELSE IF records[r].status = "active" /\ Reaches(l, t, records[r].created)
             THEN records[r].reserved
        ELSE IF records[r].status = "reconciled" /\ Covers(l, t, records[r].updated)
             THEN IF records[r].actual < records[r].reserved
                  THEN records[r].actual ELSE records[r].reserved
        ELSE 0]

(* The cap is hard: in every window of a limit, of whatever kind, what is  *)
(* reserved and what was charged never exceed the maximum, however         *)
(* reservations, expiry, late and backdated settlements interleave.  Two   *)
(* things are not in this sum: what a call cost beyond its reservation,    *)
(* and, in a rolling window, a charge of the instant of another            *)
(* reservation (Unseen), because the capacity check does not count them.   *)
HardCap ==
    \A l \in Limits : \A t \in Instants : Total(Committed(l, t)) <= Maximum[l]

(* The outbox is the ledger's other half: a reservation has a settlement   *)
(* exactly when it is settled, and that settlement is the one its record   *)
(* would produce again, so that every identical retry is accepted.         *)
OutboxExact ==
    \A r \in Reservations :
        LET k == records[r] IN
        /\ outbox[r] = NoSettlement <=> k.status \in {"absent", "active"}
        /\ outbox[r] # NoSettlement => /\ outbox[r] = Settlement(k, outbox[r].kind)
                                       /\ outbox[r].kind = "released" <=> k.status = "released"
        /\ r \in published => outbox[r] # NoSettlement

(* What expiry released was never dispatched, before or after: cleanup     *)
(* cannot free capacity that a provider call may be using, and a worker    *)
(* that slept past its lease cannot fence what cleanup has freed.          *)
ExpiredNeverDispatched ==
    \A r \in Reservations : records[r].reason = Expired => records[r].dispatch = None

(* A binding never admits more attempts than it was registered for.        *)
AllowanceHolds ==
    \A b \in Bindings : Cardinality(bindings[b].consumed) <= bindings[b].allowance

(* Financial history is not rewritten: a settled reservation and its       *)
(* settlement never change again, an acknowledged event stays so, and a    *)
(* fence once set names the same attempt for ever.                         *)
HistoryStep ==
    /\ published \subseteq published'
    /\ \A r \in Reservations :
         /\ records[r].status \in {"reconciled", "released"} => records'[r] = records[r]
         /\ outbox[r] # NoSettlement => outbox'[r] = outbox[r]
         /\ records[r].dispatch # None => records'[r].dispatch = records[r].dispatch
         /\ records[r].status # "absent" =>
              /\ records'[r].limit = records[r].limit
              /\ records'[r].reserved = records[r].reserved

FinancialHistory == [][HistoryStep]_vars
=============================================================================
