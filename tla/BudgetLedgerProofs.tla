------------------------- MODULE BudgetLedgerProofs -------------------------
(***************************************************************************)
(* Proofs about the budget ledger.  LedgerStep says what any operation may *)
(* do to one reservation; the invariants follow from it, and the cap from  *)
(* facts about sums counted as sets of units.                              *)
(***************************************************************************)
EXTENDS BudgetLedger, FiniteSetTheorems, TLAPS

-----------------------------------------------------------------------------
(* Sums. *)

(* The units of any assignment of amounts form a finite set. *)
LEMMA UnitsFinite ==
    ASSUME NEW f
    PROVE  IsFiniteSet(Units(f)) /\ Total(f) \in Nat
<1>1. IsFiniteSet(1..MaxAmount)
    BY FS_Interval, LedgerConstants
<1>2. IsFiniteSet(Reservations \X (1..MaxAmount))
    BY <1>1, FS_Product, LedgerConstants
<1>3. IsFiniteSet(Units(f))
    <2>1. Units(f) \in SUBSET (Reservations \X (1..MaxAmount))
        BY DEF Units
    <2>2. QED BY <1>2, <2>1, FS_Subset
<1>4. QED BY <1>3, FS_CardinalityType DEF Total

(* A sum is monotone in its terms. *)
LEMMA TotalMonotone ==
    ASSUME NEW f \in [Reservations -> Nat], NEW g \in [Reservations -> Nat],
           \A r \in Reservations : f[r] <= g[r]
    PROVE  Total(f) <= Total(g)
<1>1. Units(f) \in SUBSET Units(g)
    BY LedgerConstants DEF Units
<1>2. QED BY <1>1, UnitsFinite, FS_Subset DEF Total

(* A sum grows by no more than the one term that does. *)
LEMMA TotalAdd ==
    ASSUME NEW f \in [Reservations -> Nat], NEW g \in [Reservations -> Nat],
           NEW r \in Reservations, NEW a \in Nat, f[r] <= a,
           \A q \in Reservations \ {r} : f[q] <= g[q]
    PROVE  Total(f) <= Total(g) + a
<1> DEFINE new == {r} \X (1..a)
<1>1. IsFiniteSet(new) /\ Cardinality(new) = a
    <2>1. IsFiniteSet({r}) /\ Cardinality({r}) = 1
        BY FS_Singleton
    <2>2. IsFiniteSet(1..a) /\ Cardinality(1..a) = a
        BY FS_Interval
    <2>3. IsFiniteSet(new) /\ Cardinality(new) = Cardinality({r}) * Cardinality(1..a)
        BY <2>1, <2>2, FS_Product
    <2>4. QED BY <2>1, <2>2, <2>3
<1>2. Units(f) \in SUBSET (Units(g) \cup new)
    BY LedgerConstants DEF Units
<1>3. /\ IsFiniteSet(Units(g) \cup new)
      /\ Cardinality(Units(g) \cup new) =
            Cardinality(Units(g)) + Cardinality(new) - Cardinality(Units(g) \cap new)
    BY <1>1, UnitsFinite, FS_Union
<1>4. Cardinality(Units(g) \cap new) \in Nat
    BY <1>1, FS_Intersection, FS_CardinalityType
<1>5. Cardinality(Units(f)) <= Cardinality(Units(g) \cup new)
    BY <1>2, <1>3, FS_Subset
<1>6. /\ Total(f) = Cardinality(Units(f)) /\ Total(f) \in Nat
      /\ Total(g) = Cardinality(Units(g)) /\ Total(g) \in Nat
    BY UnitsFinite DEF Total
<1>7. Cardinality(Units(g) \cup new) <= Total(g) + a
    BY <1>1, <1>3, <1>4, <1>6
<1>8. Cardinality(Units(g) \cup new) \in Nat
    BY <1>3, FS_CardinalityType
<1> QED BY <1>5, <1>6, <1>7, <1>8

-----------------------------------------------------------------------------
(* What an operation may do to one reservation. *)

(* What holds of every record: its dates are in order and a settlement,    *)
(* with its reason, is there only once it is settled.                      *)
RecordOK(k) ==
    /\ k.status = "absent" <=> k.limit = None
    /\ k.status = "absent" => k.dispatch = None
    /\ k.created <= k.updated /\ k.updated <= now
    /\ k.status \in {"absent", "active"} => k.reason = None
    /\ k.reason = Expired => k.dispatch = None

RecordsOK ==
    /\ now \in Instants
    /\ records \in [Reservations -> Records]
    /\ \A r \in Reservations : RecordOK(records[r])

Fenced(k, n) ==
    /\ k.status = "active" /\ k.dispatch = None
    /\ \E d \in Dispatches : n = [k EXCEPT !.dispatch = d]

Renewed(k, n) == k.status = "active" /\ n = [k EXCEPT !.updated = now]

Charged(k, n) ==
    /\ k.status = "active"
    /\ \E amount \in Amounts, reason \in Reasons \cup {None}, at \in k.created..now :
         n = [k EXCEPT !.status = "reconciled", !.actual = amount,
                       !.reason = reason, !.updated = at]

Freed(k, n) ==
    /\ k.status = "active"
    /\ \E reason \in Reasons \cup {Expired}, at \in k.created..now :
         /\ reason = Expired => k.dispatch = None
         /\ n = [k EXCEPT !.status = "released", !.reason = reason, !.updated = at]

Kept(k, n) == n = k \/ Fenced(k, n) \/ Renewed(k, n) \/ Charged(k, n) \/ Freed(k, n)

Settled(k) == k.status \in {"reconciled", "released"}

Posted(r) ==
    \/ /\ outbox'[r] = outbox[r]
       /\ records'[r] = records[r] \/ ~Settled(records'[r])
    \/ /\ Settled(records'[r])
       /\ outbox[r] \in {NoSettlement, outbox'[r]}
       /\ \E kind \in Kinds : /\ outbox'[r] = Settlement(records'[r], kind)
                              /\ kind = "released" <=> records'[r].status = "released"

(* A reservation is created where it fits, beside what cleanup left.       *)
Admitted(r, l, a) ==
    /\ records[r].status = "absent"
    /\ records'[r] = NewRecord(l, a)
    /\ outbox'[r] = outbox[r]
    /\ Fits(l, a)
    /\ \A q \in Reservations \ {r} : records'[q].limit = l => records'[q] = Reaped({l})[q]

LedgerStep ==
    /\ records' \in [Reservations -> Records]
    /\ outbox' = [r \in Reservations |-> outbox'[r]]
    /\ now' \in Instants /\ now <= now'
    /\ published \subseteq published'
    /\ published' \subseteq published \cup {r \in Reservations : outbox[r] # NoSettlement}
    /\ \A r \in Reservations :
         \/ Kept(records[r], records'[r]) /\ Posted(r)
         \/ \E l \in Limits, a \in Amounts : Admitted(r, l, a)

(* Keeping a record keeps its type. *)
LEMMA KeptType ==
    ASSUME RecordsOK, NEW r \in Reservations, NEW n, Kept(records[r], n)
    PROVE  n \in Records
<1> DEFINE k == records[r]
<1>1. k \in Records /\ now \in Instants /\ now \in Nat /\ MaxClock \in Nat
    BY LedgerConstants DEF RecordsOK, Instants
<1>2. k.created \in Nat /\ k.created..now \subseteq Instants
    BY <1>1 DEF Records, Instants
<1> HIDE DEF k
<1>3. CASE n = k
    BY <1>1, <1>3
<1>4. CASE Fenced(k, n)
    BY <1>1, <1>4 DEF Fenced, Records
<1>5. CASE Renewed(k, n)
    BY <1>1, <1>5 DEF Renewed, Records
<1>6. CASE Charged(k, n)
    BY <1>1, <1>2, <1>6, LedgerConstants DEF Charged, Records, Statuses
<1>7. CASE Freed(k, n)
    BY <1>1, <1>2, <1>7 DEF Freed, Records, Statuses
<1> QED BY <1>3, <1>4, <1>5, <1>6, <1>7 DEF Kept, k

(* Creating one too. *)
LEMMA NewRecordType ==
    ASSUME RecordsOK, NEW l \in Limits, NEW a \in Amounts
    PROVE  NewRecord(l, a) \in Records
BY LedgerConstants DEF RecordsOK, NewRecord, Records, Statuses

(* Cleanup releases, and posts, only leases that nobody dispatched. *)
LEMMA ReapStep ==
    ASSUME RecordsOK, NEW ls, NEW r \in Reservations,
           records'[r] = Reaped(ls)[r],
           Post(Lapsed(ls), Reaped(ls), "released")
    PROVE  Kept(records[r], records'[r]) /\ Posted(r)
<1>1. CASE r \in Lapsed(ls)
    <2>1. /\ records[r].status = "active" /\ records[r].dispatch = None
          /\ records'[r] = [records[r] EXCEPT !.status = "released",
                                              !.reason = Expired, !.updated = now]
        BY <1>1 DEF Lapsed, Reaped, ReleasedRecord
    <2>2. /\ records[r] \in Records /\ now \in Nat
          /\ records[r].created <= records[r].updated /\ records[r].updated <= now
        BY LedgerConstants DEF RecordsOK, RecordOK, Instants
    <2>3. now \in records[r].created..now
        BY <2>2 DEF Records, Instants
    <2>4. Freed(records[r], records'[r])
        BY <2>1, <2>3 DEF Freed
    <2>5. records'[r].status = "released"
        BY <2>1, <2>2 DEF Records
    <2>6. Posted(r)
        BY <1>1, <2>5 DEF Post, Posted, Settled, Kinds
    <2> QED BY <2>4, <2>6 DEF Kept
<1>2. CASE r \notin Lapsed(ls)
    BY <1>2 DEF Reaped, Post, Kept, Posted
<1> QED BY <1>1, <1>2

(* A step that keeps every record, and whose outbox follows, is a step of  *)
(* the ledger.                                                             *)
LEMMA KeptStep ==
    ASSUME RecordsOK,
           DOMAIN records' = Reservations, records' = [r \in Reservations |-> records'[r]],
           outbox' = [r \in Reservations |-> outbox'[r]], now' = now, published' = published,
           \A r \in Reservations : Kept(records[r], records'[r]) /\ Posted(r)
    PROVE  LedgerStep
<1>1. \A r \in Reservations : records'[r] \in Records
    BY KeptType
<1>2. now \in Nat
    BY LedgerConstants DEF RecordsOK, Instants
<1> QED BY <1>1, <1>2 DEF LedgerStep, RecordsOK

(* reserve admits one reservation, and cleans up its limit. *)
LEMMA ReserveShape ==
    ASSUME RecordsOK, NEW r \in Reservations, NEW l \in Limits, NEW a \in Amounts,
           outbox \in [Reservations -> Settlements], Reserve(r, l, a)
    PROVE  LedgerStep
<1>1. /\ Fits(l, a) /\ Reaped({l})[r].status = "absent"
      /\ Post(Lapsed({l}), Reaped({l}), "released")
      /\ records' = [Reaped({l}) EXCEPT ![r] = NewRecord(l, a)]
      /\ UNCHANGED <<now, published>>
    BY DEF Reserve
<1>2. Reaped({l}) = [q \in Reservations |-> Reaped({l})[q]]
    BY DEF Reaped
<1>3. /\ records'[r] = NewRecord(l, a)
      /\ \A q \in Reservations \ {r} : records'[q] = Reaped({l})[q]
      /\ records' = [q \in Reservations |-> records'[q]]
    BY <1>1, <1>2
<1>4. \A q \in Reservations \ {r} : Kept(records[q], records'[q]) /\ Posted(q)
    BY <1>1, <1>3, ReapStep
<1>5. records[r].status = "absent" /\ r \notin Lapsed({l})
    <2>1. CASE r \in Lapsed({l})
        <3>1. Reaped({l})[r].status = "released"
            BY <2>1 DEF Reaped, ReleasedRecord, Lapsed, RecordsOK, Records
        <3> QED BY <1>1, <3>1
    <2>2. CASE r \notin Lapsed({l})
        BY <1>1, <2>2 DEF Reaped
    <2> QED BY <2>1, <2>2
<1>6. Admitted(r, l, a)
    BY <1>1, <1>3, <1>5 DEF Admitted, Post
<1>7. records' \in [Reservations -> Records]
    BY <1>3, <1>4, KeptType, NewRecordType
<1>8. outbox' = [q \in Reservations |-> outbox'[q]] /\ now \in Nat
    BY <1>1, LedgerConstants DEF Post, RecordsOK, Instants
<1>9. \A q \in Reservations :
         \/ Kept(records[q], records'[q]) /\ Posted(q)
         \/ \E m \in Limits, b \in Amounts : Admitted(q, m, b)
    BY <1>4, <1>6
<1>10. now' \in Instants /\ now <= now' /\ published' = published
    BY <1>1, <1>8 DEF RecordsOK
<1> QED BY <1>7, <1>8, <1>9, <1>10 DEF LedgerStep

(* Cleanup alone, which a rejection leaves behind. *)
LEMMA RejectedShape ==
    ASSUME RecordsOK, outbox \in [Reservations -> Settlements], NEW ls,
           Post(Lapsed(ls), Reaped(ls), "released"), records' = Reaped(ls),
           now' = now, published' = published
    PROVE  LedgerStep
<1>1. \A r \in Reservations : Kept(records[r], records'[r]) /\ Posted(r)
    BY ReapStep
<1>2. DOMAIN records' = Reservations /\ records' = [r \in Reservations |-> records'[r]]
    BY DEF Reaped
<1>3. outbox' = [r \in Reservations |-> outbox'[r]]
    BY DEF Post
<1> QED BY <1>1, <1>2, <1>3, KeptStep

(* reserve_batch admits one for each of its limits, all different. *)
LEMMA ReserveBatchShape ==
    ASSUME RecordsOK, outbox \in [Reservations -> Settlements],
           NEW m \in Batches, NEW amounts \in [DOMAIN m -> Amounts],
           ReserveBatch(m, amounts)
    PROVE  LedgerStep
<1> DEFINE ls == {m[r] : r \in DOMAIN m}
<1>1. /\ \A r \in DOMAIN m : records[r].status = "absent" /\ Fits(m[r], amounts[r])
      /\ Post(Lapsed(ls), Reaped(ls), "released")
      /\ records' = [r \in Reservations |->
                       IF r \in DOMAIN m THEN NewRecord(m[r], amounts[r]) ELSE Reaped(ls)[r]]
      /\ UNCHANGED <<now, published>>
    BY DEF ReserveBatch
<1>2. /\ DOMAIN m \subseteq Reservations
      /\ \A r \in DOMAIN m : m[r] \in Limits
      /\ \A r, q \in DOMAIN m : m[r] = m[q] => r = q
    BY DEF Batches
<1>3. \A r \in Reservations \ DOMAIN m : Kept(records[r], records'[r]) /\ Posted(r)
    BY <1>1, ReapStep
<1>4. \A r \in DOMAIN m : Admitted(r, m[r], amounts[r])
    <2> SUFFICES ASSUME NEW r \in DOMAIN m PROVE Admitted(r, m[r], amounts[r])
        OBVIOUS
    <2>1. r \in Reservations /\ m[r] \in Limits /\ r \notin Lapsed(ls)
        BY <1>1, <1>2 DEF Lapsed
    <2>2. outbox'[r] = outbox[r]
        BY <1>1, <2>1 DEF Post
    <2>3. records'[r] = NewRecord(m[r], amounts[r])
        BY <1>1, <2>1
    <2>4. ASSUME NEW q \in Reservations \ {r}, records'[q].limit = m[r]
          PROVE  records'[q] = Reaped({m[r]})[q]
        <3>1. q \notin DOMAIN m
            <4>1. CASE q \in DOMAIN m
                <5>1. records'[q].limit = m[q]
                    BY <1>1, <4>1 DEF NewRecord
                <5> QED BY <1>2, <2>4, <4>1, <5>1
            <4> QED BY <4>1
        <3>2. records'[q] = Reaped(ls)[q]
            BY <1>1, <3>1
        <3>3. Reaped(ls)[q].limit = records[q].limit
            BY DEF Reaped, ReleasedRecord, RecordsOK, Records
        <3>4. records[q].limit = m[r]
            BY <2>4, <3>2, <3>3
        <3>5. q \in Lapsed(ls) <=> q \in Lapsed({m[r]})
            BY <3>4 DEF Lapsed
        <3> HIDE DEF ls
        <3> QED BY <3>2, <3>5 DEF Reaped
    <2> QED BY <1>1, <2>2, <2>3, <2>4 DEF Admitted
<1>5. \A r \in Reservations : records'[r] \in Records
    <2>1. ASSUME NEW r \in DOMAIN m PROVE records'[r] \in Records
        <3>1. /\ m[r] \in Limits /\ amounts[r] \in Amounts
              /\ records'[r] = NewRecord(m[r], amounts[r])
            BY <1>2, <1>4 DEF Admitted
        <3> QED BY <3>1, NewRecordType
    <2> QED BY <1>3, <2>1, KeptType
<1>6. records' \in [Reservations -> Records]
    BY <1>1, <1>5
<1>7. outbox' = [r \in Reservations |-> outbox'[r]] /\ now \in Nat
    BY <1>1, LedgerConstants DEF Post, RecordsOK, Instants
<1>8. \A r \in Reservations :
         \/ Kept(records[r], records'[r]) /\ Posted(r)
         \/ \E l \in Limits, a \in Amounts : Admitted(r, l, a)
    BY <1>2, <1>3, <1>4
<1>9. now' \in Instants /\ now <= now' /\ published' = published
    BY <1>1, <1>7 DEF RecordsOK
<1> HIDE DEF ls
<1> QED BY <1>6, <1>7, <1>8, <1>9 DEF LedgerStep

(* mark_dispatched fences what is active and unfenced. *)
LEMMA MarkDispatchedShape ==
    ASSUME RecordsOK, outbox \in [Reservations -> Settlements],
           NEW S \in SUBSET Reservations, NEW d \in Dispatches, MarkDispatched(S, d)
    PROVE  LedgerStep
<1>1. ASSUME NEW r \in Reservations
      PROVE  Kept(records[r], records'[r]) /\ Posted(r)
    <2>1. records[r] \in Records /\ outbox'[r] = outbox[r]
        BY DEF RecordsOK, MarkDispatched
    <2>2. CASE r \notin S \/ records[r].dispatch = d
        <3>1. records'[r] = records[r]
            BY <2>1, <2>2 DEF MarkDispatched, Records
        <3> QED BY <2>1, <3>1 DEF Kept, Posted
    <2>3. CASE r \in S /\ records[r].dispatch # d
        <3>1. /\ records[r].status = "active" /\ records[r].dispatch = None
              /\ records'[r] = [records[r] EXCEPT !.dispatch = d]
            BY <2>3 DEF MarkDispatched, CanDispatch
        <3>2. records'[r].status = "active"
            BY <2>1, <3>1 DEF Records
        <3> QED BY <2>1, <3>1, <3>2 DEF Kept, Fenced, Posted, Settled
    <2> QED BY <2>2, <2>3
<1>2. /\ DOMAIN records' = Reservations /\ records' = [r \in Reservations |-> records'[r]]
      /\ outbox' = [r \in Reservations |-> outbox'[r]] /\ now' = now /\ published' = published
    BY DEF MarkDispatched
<1> QED BY <1>1, <1>2, KeptStep

(* heartbeat renews an active reservation. *)
LEMMA HeartbeatShape ==
    ASSUME RecordsOK, outbox \in [Reservations -> Settlements],
           NEW q \in Reservations, Heartbeat(q)
    PROVE  LedgerStep
<1>1. /\ records[q].status = "active" /\ records' = [records EXCEPT ![q].updated = now]
      /\ outbox' = outbox /\ now' = now /\ published' = published
    BY DEF Heartbeat
<1>2. records'[q] = [records[q] EXCEPT !.updated = now]
    BY <1>1 DEF RecordsOK
<1>3. records'[q].status = "active"
    BY <1>1, <1>2 DEF RecordsOK, Records
<1>4. \A r \in Reservations \ {q} : records'[r] = records[r]
    BY <1>1 DEF RecordsOK
<1>5. \A r \in Reservations : Kept(records[r], records'[r]) /\ Posted(r)
    BY <1>1, <1>2, <1>3, <1>4 DEF Kept, Renewed, Posted, Settled
<1>6. DOMAIN records' = Reservations /\ records' = [r \in Reservations |-> records'[r]]
    BY <1>1 DEF RecordsOK
<1> QED BY <1>1, <1>5, <1>6, KeptStep

(* A release frees an active reservation, and returns any other as it is.  *)
LEMMA ReleasedKept ==
    ASSUME RecordsOK, NEW r \in Reservations, NEW reason \in Reasons,
           NEW at \in records[r].created..now, CanRelease(records[r], reason)
    PROVE  /\ Kept(records[r], ReleasedRecord(records[r], reason, at))
           /\ ReleasedRecord(records[r], reason, at).status = "released"
<1>1. records[r] \in Records
    BY DEF RecordsOK
<1>2. CASE records[r].status = "active"
    <2>1. ReleasedRecord(records[r], reason, at) =
            [records[r] EXCEPT !.status = "released", !.reason = reason, !.updated = at]
        BY <1>2 DEF ReleasedRecord
    <2>2. Freed(records[r], ReleasedRecord(records[r], reason, at))
        BY <1>2, <2>1, LedgerNames DEF Freed
    <2> QED BY <1>1, <2>1, <2>2 DEF Kept, Records
<1>3. CASE records[r].status = "released"
    BY <1>3 DEF ReleasedRecord, Kept
<1> QED BY <1>2, <1>3 DEF CanRelease

(* release_pre_provider_dispatch frees the reservations of its attempt.    *)
LEMMA ReleasePreProviderDispatchShape ==
    ASSUME RecordsOK, outbox \in [Reservations -> Settlements],
           NEW S \in SUBSET Reservations, NEW d \in Dispatches, NEW reason \in Reasons,
           NEW at \in Instants, \A r \in S : at \in Dates(r),
           ReleasePreProviderDispatch(S, d, reason, at)
    PROVE  LedgerStep
<1> DEFINE new == [r \in S |-> ReleasedRecord(records[r], reason, at)]
<1>1. /\ \A r \in S : CanRelease(records[r], reason)
      /\ Post(S, new, "released")
      /\ records' = [r \in Reservations |-> IF r \in S THEN new[r] ELSE records[r]]
      /\ now' = now /\ published' = published
    BY DEF ReleasePreProviderDispatch
<1>2. ASSUME NEW r \in Reservations
      PROVE  Kept(records[r], records'[r]) /\ Posted(r)
    <2>1. CASE r \in S
        <3>1. at \in records[r].created..now
            BY <2>1 DEF Dates
        <3>2. records'[r] = ReleasedRecord(records[r], reason, at) /\ new[r] = records'[r]
            BY <1>1, <2>1
        <3>3. Kept(records[r], records'[r]) /\ records'[r].status = "released"
            BY <1>1, <2>1, <3>1, <3>2, ReleasedKept
        <3>4. /\ outbox[r] \in {NoSettlement, Settlement(records'[r], "released")}
              /\ outbox'[r] = Settlement(records'[r], "released")
            BY <1>1, <2>1, <3>2 DEF Post
        <3> QED BY <3>3, <3>4 DEF Posted, Settled, Kinds
    <2>2. CASE r \notin S
        BY <1>1, <2>2 DEF Post, Kept, Posted
    <2> QED BY <2>1, <2>2
<1>3. DOMAIN records' = Reservations /\ records' = [r \in Reservations |-> records'[r]]
    BY <1>1
<1>4. outbox' = [r \in Reservations |-> outbox'[r]]
    BY <1>1 DEF Post
<1> QED BY <1>1, <1>2, <1>3, <1>4, KeptStep

(* A settlement of one reservation, whose record is kept, is a step.       *)
LEMMA SettleShape ==
    ASSUME RecordsOK, outbox \in [Reservations -> Settlements],
           NEW q \in Reservations, NEW n, NEW kind \in Kinds,
           Kept(records[q], n), Settled(n), kind = "released" <=> n.status = "released",
           records' = [records EXCEPT ![q] = n], Post({q}, records', kind),
           now' = now, published' = published
    PROVE  LedgerStep
<1>1. /\ records'[q] = n /\ \A r \in Reservations \ {q} : records'[r] = records[r]
      /\ DOMAIN records' = Reservations /\ records' = [r \in Reservations |-> records'[r]]
    BY DEF RecordsOK
<1>2. /\ outbox[q] \in {NoSettlement, outbox'[q]} /\ outbox'[q] = Settlement(records'[q], kind)
      /\ \A r \in Reservations \ {q} : outbox'[r] = outbox[r]
      /\ outbox' = [r \in Reservations |-> outbox'[r]]
    BY DEF Post
<1>3. \A r \in Reservations : Kept(records[r], records'[r]) /\ Posted(r)
    BY <1>1, <1>2 DEF Kept, Posted
<1> QED BY <1>1, <1>2, <1>3, KeptStep

(* reconcile charges an active reservation, dated when its call ended.     *)
LEMMA ReconcileShape ==
    ASSUME RecordsOK, outbox \in [Reservations -> Settlements],
           NEW r \in Reservations, NEW amount \in Amounts, NEW kind \in Kinds \ {"released"},
           NEW reason \in Reasons \cup {None}, NEW at \in Dates(r),
           Reconcile(r, amount, kind, reason, at)
    PROVE  LedgerStep
<1> DEFINE n == ReconciledRecord(records[r], amount, reason, at)
<1>1. /\ CanReconcile(records[r], amount, reason)
      /\ records' = [records EXCEPT ![r] = n] /\ Post({r}, records', kind)
      /\ now' = now /\ published' = published
    BY DEF Reconcile
<1>2. records[r] \in Records
    BY DEF RecordsOK
<1>3. Kept(records[r], n) /\ n.status = "reconciled"
    <2>1. CASE records[r].status = "active"
        <3>1. n = [records[r] EXCEPT !.status = "reconciled", !.actual = amount,
                                     !.reason = reason, !.updated = at]
            BY <2>1 DEF ReconciledRecord
        <3>2. Charged(records[r], n)
            BY <2>1, <3>1 DEF Charged, Dates
        <3> QED BY <1>2, <3>1, <3>2 DEF Kept, Records
    <2>2. CASE records[r].status = "reconciled"
        BY <2>2 DEF ReconciledRecord, Kept
    <2> QED BY <1>1, <2>1, <2>2 DEF CanReconcile
<1> HIDE DEF n
<1> QED BY <1>1, <1>3, SettleShape DEF Settled

(* release frees a reservation that nobody dispatched. *)
LEMMA ReleaseShape ==
    ASSUME RecordsOK, outbox \in [Reservations -> Settlements],
           NEW r \in Reservations, NEW reason \in Reasons, NEW at \in Dates(r),
           Release(r, reason, at)
    PROVE  LedgerStep
<1> DEFINE n == ReleasedRecord(records[r], reason, at)
<1>1. /\ CanRelease(records[r], reason)
      /\ records' = [records EXCEPT ![r] = n] /\ Post({r}, records', "released")
      /\ now' = now /\ published' = published
    BY DEF Release
<1>2. Kept(records[r], n) /\ n.status = "released"
    BY <1>1, ReleasedKept DEF Dates
<1> HIDE DEF n
<1> QED BY <1>1, <1>2, SettleShape DEF Settled, Kinds

(* The steps that touch no record. *)
LEMMA OtherShape ==
    ASSUME RecordsOK, outbox \in [Reservations -> Settlements],
           UNCHANGED <<records, outbox>>,
           now' = now \/ Tick,
           \/ published' = published
           \/ \E r \in Reservations : MarkSettlementEventPublished(r)
    PROVE  LedgerStep
<1>1. now \in Nat /\ MaxClock \in Nat
    BY LedgerConstants DEF RecordsOK, Instants
<1>2. now' \in Instants /\ now <= now'
    BY <1>1 DEF RecordsOK, Instants, Tick
<1>3. /\ published \subseteq published'
      /\ published' \subseteq published \cup {r \in Reservations : outbox[r] # NoSettlement}
    BY DEF MarkSettlementEventPublished
<1>4. \A r \in Reservations : Kept(records[r], records'[r]) /\ Posted(r)
    BY DEF Kept, Posted
<1> QED BY <1>2, <1>3, <1>4 DEF LedgerStep, RecordsOK

(* Every operation of the ledger is a LedgerStep. *)
LEMMA StepShape ==
    ASSUME RecordsOK, outbox \in [Reservations -> Settlements], [Next]_vars
    PROVE  LedgerStep
<1>1. ASSUME NEW r \in Reservations, NEW l \in Limits, NEW amount \in Amounts,
             Reserve(r, l, amount)
      PROVE  LedgerStep
    BY <1>1, ReserveShape
<1>2. ASSUME NEW r \in Reservations, Heartbeat(r)
      PROVE  LedgerStep
    BY <1>2, HeartbeatShape
<1>3. ASSUME NEW r \in Reservations, NEW amount \in Amounts,
             NEW kind \in Kinds \ {"released"}, NEW reason \in Reasons \cup {None},
             NEW at \in Dates(r), Reconcile(r, amount, kind, reason, at)
      PROVE  LedgerStep
    BY <1>3, ReconcileShape
<1>4. ASSUME NEW r \in Reservations, NEW reason \in Reasons, NEW at \in Dates(r),
             Release(r, reason, at)
      PROVE  LedgerStep
    BY <1>4, ReleaseShape
<1>5. ASSUME NEW r \in Reservations, MarkSettlementEventPublished(r)
      PROVE  LedgerStep
    BY <1>5, OtherShape DEF MarkSettlementEventPublished
<1>6. ASSUME NEW l \in Limits, NEW amount \in Amounts, ReserveRejected(l, amount)
      PROVE  LedgerStep
    BY <1>6, RejectedShape DEF ReserveRejected
<1>7. ASSUME NEW m \in Batches, NEW amounts \in [DOMAIN m -> Amounts],
             ReserveBatch(m, amounts)
      PROVE  LedgerStep
    BY <1>7, ReserveBatchShape
<1>8. ASSUME NEW m \in Batches, NEW amounts \in [DOMAIN m -> Amounts],
             ReserveBatchRejected(m, amounts)
      PROVE  LedgerStep
    <2>1. PICK f \in DOMAIN m : \E before \in SUBSET (DOMAIN m \ {f}) :
            LET ls == {m[r] : r \in before \cup {f}} IN
            /\ Post(Lapsed(ls), Reaped(ls), "released")
            /\ records' = Reaped(ls)
            /\ UNCHANGED <<now, published>>
        BY <1>8 DEF ReserveBatchRejected
    <2>2. PICK before \in SUBSET (DOMAIN m \ {f}) :
            LET ls == {m[r] : r \in before \cup {f}} IN
            /\ Post(Lapsed(ls), Reaped(ls), "released")
            /\ records' = Reaped(ls)
            /\ UNCHANGED <<now, published>>
        BY <2>1
    <2> DEFINE ls == {m[r] : r \in before \cup {f}}
    <2>3. /\ Post(Lapsed(ls), Reaped(ls), "released") /\ records' = Reaped(ls)
          /\ now' = now /\ published' = published
        BY <2>2
    <2> HIDE DEF ls
    <2> QED BY <2>3, RejectedShape
<1>9. ASSUME NEW b \in Bindings, NEW authority \in Authorities,
             NEW allowance \in Allowances, RegisterBudgetBinding(b, authority, allowance)
      PROVE  LedgerStep
    BY <1>9, OtherShape DEF RegisterBudgetBinding
<1>10. ASSUME NEW S \in SUBSET Reservations, NEW d \in Dispatches, MarkDispatched(S, d)
       PROVE  LedgerStep
    BY <1>10, MarkDispatchedShape
<1>11. ASSUME NEW S \in SUBSET Reservations, NEW d \in Dispatches, NEW reason \in Reasons,
              NEW at \in Instants, \A r \in S : at \in Dates(r),
              ReleasePreProviderDispatch(S, d, reason, at)
       PROVE  LedgerStep
    BY <1>11, ReleasePreProviderDispatchShape
<1>12. ASSUME Tick
       PROVE  LedgerStep
    BY <1>12, OtherShape DEF Tick
<1>13. ASSUME UNCHANGED vars
       PROVE  LedgerStep
    BY <1>13, OtherShape DEF vars
<1> QED
    BY <1>1, <1>2, <1>3, <1>4, <1>5, <1>6, <1>7, <1>8, <1>9, <1>10, <1>11, <1>12, <1>13
    DEF Next

-----------------------------------------------------------------------------
(* Records and settlements. *)

(* Every step keeps what holds of every record. *)
LEMMA RecordsStep ==
    ASSUME RecordsOK, LedgerStep
    PROVE  RecordsOK'
<1>1. /\ now \in Nat /\ now' \in Nat /\ now <= now' /\ now' \in Instants
      /\ records' \in [Reservations -> Records]
    BY LedgerConstants DEF RecordsOK, LedgerStep, Instants
<1>2. ASSUME NEW r \in Reservations
      PROVE  RecordOK(records[r])'
    <2> DEFINE k == records[r]
               n == records'[r]
    <2>1. /\ k \in Records /\ k.created \in Nat /\ k.updated \in Nat
          /\ k.status = "absent" <=> k.limit = None
          /\ k.status = "absent" => k.dispatch = None
          /\ k.created <= k.updated /\ k.updated <= now
          /\ k.status \in {"absent", "active"} => k.reason = None
          /\ k.reason = Expired => k.dispatch = None
        BY DEF RecordsOK, RecordOK, Records, Instants
    <2> DEFINE Good == /\ n.status = "absent" <=> n.limit = None
                       /\ n.status = "absent" => n.dispatch = None
                       /\ n.created <= n.updated /\ n.updated <= now
                       /\ n.status \in {"absent", "active"} => n.reason = None
                       /\ n.reason = Expired => n.dispatch = None
    <2>2. n \in Records /\ n.updated \in Nat
        BY <1>1 DEF Records, Instants
    <2> SUFFICES Good
        BY <1>1, <2>2 DEF RecordOK
    <2> HIDE DEF k, n
    <2>3. CASE n = k
        BY <2>1, <2>3
    <2>4. CASE Fenced(k, n)
        BY <2>1, <2>4, LedgerNames DEF Fenced, Records
    <2>5. CASE Renewed(k, n)
        BY <1>1, <2>1, <2>5 DEF Renewed, Records
    <2>6. CASE Charged(k, n)
        BY <1>1, <2>1, <2>6, LedgerNames DEF Charged, Records
    <2>7. CASE Freed(k, n)
        BY <1>1, <2>1, <2>7 DEF Freed, Records
    <2>8. ASSUME NEW l \in Limits, NEW a \in Amounts, Admitted(r, l, a)
          PROVE  Good
        <3>1. n = NewRecord(l, a)
            BY <2>8 DEF Admitted, n
        <3> QED BY <1>1, <3>1, LedgerNames DEF NewRecord
    <2> HIDE DEF Good
    <2> QED BY <2>3, <2>4, <2>5, <2>6, <2>7, <2>8 DEF LedgerStep, Kept, k, n
<1> QED BY <1>1, <1>2 DEF RecordsOK

(* A record and its settlement agree. *)
Agree(k, o) ==
    /\ o = NoSettlement <=> k.status \in {"absent", "active"}
    /\ o # NoSettlement => /\ o = Settlement(k, o.kind)
                           /\ o.kind = "released" <=> k.status = "released"

(* A settlement has its type, names its kind, and is one. *)
LEMMA SettlementFacts ==
    ASSUME NEW k \in Records, NEW kind \in Kinds
    PROVE  /\ Settlement(k, kind) \in Settlements
           /\ Settlement(k, kind).kind = kind
           /\ Settlement(k, kind) # NoSettlement
<1>1. /\ k.reserved \in 0..MaxAmount /\ k.actual \in 0..MaxAmount
      /\ MaxAmount \in Nat
    BY LedgerConstants DEF Records
<1>2. (IF k.status = "released" THEN k.reserved
       ELSE IF k.reserved > k.actual THEN k.reserved - k.actual ELSE 0) \in 0..MaxAmount
    BY <1>1
<1>3. Settlement(k, kind).kind = kind
    BY DEF Settlement
<1>4. NoSettlement.kind = "none" /\ "none" \notin Kinds
    BY DEF NoSettlement, Kinds
<1>5. Settlement(k, kind) \in Settlements
    BY <1>1, <1>2 DEF Settlement, Settlements, Records
<1> QED BY <1>3, <1>4, <1>5

(* Every step keeps the outbox exact. *)
LEMMA OutboxStep ==
    ASSUME RecordsOK, outbox \in [Reservations -> Settlements], OutboxExact, LedgerStep
    PROVE  outbox' \in [Reservations -> Settlements] /\ OutboxExact'
<1>1. ASSUME NEW r \in Reservations
      PROVE  /\ outbox'[r] \in Settlements
             /\ Agree(records'[r], outbox'[r])
             /\ outbox[r] # NoSettlement => outbox'[r] # NoSettlement
    <2>1. records[r] \in Records /\ records'[r] \in Records /\ outbox[r] \in Settlements
        BY DEF RecordsOK, LedgerStep
    <2>2. Agree(records[r], outbox[r])
        BY DEF OutboxExact, Agree
    <2>3. \A k \in Records : Settled(k) <=> k.status \notin {"absent", "active"}
        BY DEF Settled, Records, Statuses
    <2>4. CASE Kept(records[r], records'[r]) /\ Posted(r)
        <3>1. CASE outbox'[r] = outbox[r] /\ records'[r] = records[r]
            BY <2>1, <2>2, <3>1
        <3>2. CASE outbox'[r] = outbox[r] /\ records'[r] # records[r] /\ ~Settled(records'[r])
            <4>1. records[r].status = "active"
                BY <2>4, <3>2 DEF Kept, Fenced, Renewed, Charged, Freed
            <4> QED BY <2>1, <2>2, <2>3, <3>2, <4>1 DEF Agree
        <3>3. CASE /\ Settled(records'[r])
                   /\ \E kind \in Kinds :
                        /\ outbox'[r] = Settlement(records'[r], kind)
                        /\ kind = "released" <=> records'[r].status = "released"
            <4>1. PICK kind \in Kinds :
                    /\ outbox'[r] = Settlement(records'[r], kind)
                    /\ kind = "released" <=> records'[r].status = "released"
                BY <3>3
            <4> QED BY <2>1, <2>3, <3>3, <4>1, SettlementFacts DEF Agree
        <3> QED BY <2>4, <3>1, <3>2, <3>3 DEF Posted
    <2>5. ASSUME NEW l \in Limits, NEW a \in Amounts, Admitted(r, l, a)
          PROVE  /\ outbox'[r] \in Settlements
                 /\ Agree(records'[r], outbox'[r])
                 /\ outbox[r] # NoSettlement => outbox'[r] # NoSettlement
        <3>1. outbox'[r] = outbox[r] /\ records[r].status = "absent"
              /\ records'[r].status = "active"
            BY <2>5 DEF Admitted, NewRecord
        <3> QED BY <2>1, <2>2, <3>1 DEF Agree
    <2> QED BY <2>4, <2>5 DEF LedgerStep
<1>2. \A r \in Reservations : r \in published' => outbox'[r] # NoSettlement
    BY <1>1 DEF LedgerStep, OutboxExact
<1> QED BY <1>1, <1>2 DEF OutboxExact, Agree, LedgerStep

-----------------------------------------------------------------------------
(* Bindings. *)

BindingsOK ==
    /\ bindings \in [Bindings -> [authority : Authorities \cup {None},
                                  allowance : Allowances \cup {0},
                                  consumed : SUBSET Attempts]]
    /\ AllowanceHolds
    /\ \A b \in Bindings : bindings[b].authority = None => bindings[b].consumed = {}

(* Only reserve_batch consumes an attempt, within the allowance, and only  *)
(* a binding that is not there yet can be given one.                       *)
LEMMA BindingsStep ==
    ASSUME BindingsOK, [Next]_vars
    PROVE  BindingsOK'
<1> DEFINE T == [authority : Authorities \cup {None}, allowance : Allowances \cup {0},
                 consumed : SUBSET Attempts]
           Good(e) == /\ e \in T
                      /\ Cardinality(e.consumed) <= e.allowance
                      /\ e.authority = None => e.consumed = {}
<1>1. BindingsOK <=> bindings \in [Bindings -> T] /\ \A b \in Bindings : Good(bindings[b])
    BY DEF BindingsOK, AllowanceHolds
<1>2. BindingsOK' <=> bindings' \in [Bindings -> T] /\ \A b \in Bindings : Good(bindings'[b])
    BY DEF BindingsOK, AllowanceHolds
<1>3. ASSUME NEW b \in Bindings, NEW e, Good(e), bindings' = [bindings EXCEPT ![b] = e]
      PROVE  BindingsOK'
    <2>1. bindings \in [Bindings -> T] /\ \A c \in Bindings : Good(bindings[c])
        BY <1>1
    <2> HIDE DEF T
    <2>2. e \in T
        BY <1>3
    <2> HIDE DEF Good
    <2>3. bindings' \in [Bindings -> T] /\ \A c \in Bindings : Good(bindings'[c])
        BY <1>3, <2>1, <2>2
    <2> QED BY <1>2, <2>3
<1>4. ASSUME NEW b \in Bindings, NEW authority \in Authorities, NEW allowance \in Allowances,
             RegisterBudgetBinding(b, authority, allowance)
      PROVE  BindingsOK'
    <2> DEFINE e == [bindings[b] EXCEPT !.authority = authority, !.allowance = allowance]
    <2>1. bindings' = [bindings EXCEPT ![b] = e]
        BY <1>1, <1>4 DEF RegisterBudgetBinding
    <2>2. bindings[b] \in T /\ bindings[b].consumed = {}
        BY <1>1, <1>4 DEF RegisterBudgetBinding
    <2>3. /\ e \in T /\ e.consumed = {} /\ e.allowance = allowance
        BY <2>2
    <2>4. Cardinality(e.consumed) = 0 /\ allowance \in Nat
        BY <2>3, FS_EmptySet, LedgerConstants
    <2> HIDE DEF T, e
    <2>5. Good(e)
        BY <2>3, <2>4
    <2> QED BY <1>3, <2>1, <2>5
<1>5. ASSUME NEW b \in Bindings, NEW authority \in Authorities, NEW allowance \in Allowances,
             NEW a \in Attempts, Consume(b, authority, allowance, a)
      PROVE  BindingsOK'
    <2> DEFINE e == [bindings[b] EXCEPT !.consumed = @ \cup {a}]
    <2>1. bindings' = [bindings EXCEPT ![b] = e]
        BY <1>1, <1>5 DEF Consume
    <2>2. bindings[b] \in T /\ Cardinality(bindings[b].consumed) <= bindings[b].allowance
        BY <1>1
    <2>3. /\ e \in T /\ e.consumed = bindings[b].consumed \cup {a}
          /\ e.allowance = bindings[b].allowance /\ e.authority = authority
        BY <1>5, <2>2 DEF Consume
    <2>4. Cardinality(e.consumed) <= e.allowance
        <3>1. CASE a \in bindings[b].consumed
            <4>1. e.consumed = bindings[b].consumed
                BY <2>3, <3>1
            <4> QED BY <2>2, <2>3, <4>1
        <3>2. CASE Cardinality(bindings[b].consumed \cup {a}) <= allowance
            BY <1>5, <2>3, <3>2 DEF Consume
        <3> QED BY <1>5, <3>1, <3>2 DEF Consume
    <2>5. authority # None
        BY LedgerNames
    <2> HIDE DEF T, e
    <2>6. Good(e)
        BY <2>3, <2>4, <2>5
    <2> QED BY <1>3, <2>1, <2>6
<1>6. CASE UNCHANGED bindings
    BY <1>6 DEF BindingsOK, AllowanceHolds
<1>7. ASSUME NEW m \in Batches, NEW amounts \in [DOMAIN m -> Amounts],
             ReserveBatch(m, amounts)
      PROVE  BindingsOK'
    BY <1>5, <1>6, <1>7 DEF ReserveBatch
<1>8. CASE UNCHANGED vars
    BY <1>6, <1>8 DEF vars
<1> QED BY <1>4, <1>6, <1>7, <1>8
    DEF Next, Reserve, ReserveRejected, ReserveBatchRejected, MarkDispatched, Heartbeat,
        ReleasePreProviderDispatch, Reconcile, Release, MarkSettlementEventPublished, Tick

-----------------------------------------------------------------------------
(* The cap. *)

(* What is committed is an amount. *)
LEMMA CommittedType ==
    ASSUME RecordsOK, NEW l \in Limits, NEW t \in Instants
    PROVE  Committed(l, t) \in [Reservations -> Nat]
<1>1. \A r \in Reservations : records[r].reserved \in Nat /\ records[r].actual \in Nat
    BY LedgerConstants DEF RecordsOK, Records
<1> QED BY <1>1 DEF Committed

(* What is counted is an amount. *)
LEMMA CountedType ==
    ASSUME RecordsOK, NEW l \in Limits
    PROVE  Counted(Reaped({l}), l) \in [Reservations -> Nat]
<1>1. \A r \in Reservations : /\ Reaped({l})[r].reserved \in Nat
                              /\ Reaped({l})[r].actual \in Nat
    BY LedgerConstants DEF RecordsOK, Records, Reaped, ReleasedRecord
<1> QED BY <1>1 DEF Counted

(* What one record holds of limit l in the window that contains t. *)
Held(k, l, t) ==
    IF k.limit # l THEN 0
    ELSE IF k.status = "active" /\ Reaches(l, t, k.created) THEN k.reserved
    ELSE IF k.status = "reconciled" /\ Covers(l, t, k.updated)
         THEN IF k.actual < k.reserved THEN k.actual ELSE k.reserved
    ELSE 0

(* Committed is Held, record by record, but for what the limit misses. *)
LEMMA CommittedHeld ==
    ASSUME NEW l \in Limits, NEW t \in Instants, NEW r \in Reservations
    PROVE  /\ Committed(l, t)[r] = IF Unseen(l, r) THEN 0 ELSE Held(records[r], l, t)
           /\ Committed(l, t)'[r] = IF Unseen(l, r)' THEN 0 ELSE Held(records'[r], l, t)
<1>1. Committed(l, t)[r] = IF Unseen(l, r) THEN 0 ELSE Held(records[r], l, t)
    BY DEF Committed, Held
<1>2. Committed(l, t)'[r] = IF Unseen(l, r)' THEN 0 ELSE Held(records'[r], l, t)
    BY DEF Committed, Held
<1> QED BY <1>1, <1>2

(* A window that holds a charge can be reached from any reservation made   *)
(* no later than the charge.                                               *)
LEMMA CoversReaches ==
    ASSUME NEW l \in Limits, NEW t \in Instants, NEW u \in Instants, NEW c \in Instants,
           c <= u, Covers(l, t, u)
    PROVE  Reaches(l, t, c)
<1>1. WindowKind[l] \in WindowKinds /\ t \in Nat /\ u \in Nat /\ c \in Nat
    BY LedgerConstants DEF Instants
<1>2. Period[c] <= Period[u] /\ Period[c] \in Nat /\ Period[u] \in Nat
    BY CalendarAssumption DEF Instants
<1>3. CASE WindowKind[l] = "all_time"
    BY <1>3 DEF Reaches
<1>4. CASE WindowKind[l] = "rolling"
    BY <1>1, <1>4 DEF Reaches, Covers
<1>5. CASE WindowKind[l] = "calendar"
    BY <1>2, <1>5 DEF Reaches, Covers
<1> QED BY <1>1, <1>3, <1>4, <1>5 DEF WindowKinds

(* A charge in a window that a reservation made now can reach is counted   *)
(* now, unless the window rolls and the charge is dated now.               *)
LEMMA CoversInWindow ==
    ASSUME NEW l \in Limits, NEW t \in Instants, NEW u \in Instants, now \in Instants,
           u <= now, Covers(l, t, u), Reaches(l, t, now),
           WindowKind[l] = "rolling" => u # now
    PROVE  InWindow(l, u, now)
<1>1. /\ WindowKind[l] \in WindowKinds /\ Duration[l] \in Nat
      /\ t \in Nat /\ u \in Nat /\ now \in Nat
    BY LedgerConstants DEF Instants
<1>2. /\ Period[u] <= Period[now] /\ Period[u] \in Nat /\ Period[now] \in Nat
      /\ Period[t] \in Nat
    BY CalendarAssumption DEF Instants
<1>3. CASE WindowKind[l] = "all_time"
    BY <1>3 DEF InWindow
<1>4. CASE WindowKind[l] = "rolling"
    BY <1>1, <1>4 DEF Reaches, Covers, InWindow
<1>5. CASE WindowKind[l] = "calendar"
    <2>1. Period[u] = Period[t] /\ Period[now] <= Period[t]
        BY <1>5 DEF Covers, Reaches
    <2>2. Period[u] = Period[now]
        BY <1>2, <2>1
    <2> QED BY <1>5, <2>2 DEF InWindow
<1> QED BY <1>1, <1>3, <1>4, <1>5 DEF WindowKinds

(* A record that is kept never holds more than it did. *)
LEMMA KeptHeld ==
    ASSUME RecordsOK, NEW l \in Limits, NEW t \in Instants, NEW r \in Reservations,
           NEW n, Kept(records[r], n)
    PROVE  Held(n, l, t) <= Held(records[r], l, t)
<1> DEFINE k == records[r]
<1>1. /\ k \in Records /\ n \in Records
      /\ k.reserved \in Nat /\ n.actual \in Nat /\ k.actual \in Nat
      /\ k.created \in Instants /\ n.updated \in Instants
    BY KeptType, LedgerConstants DEF RecordsOK, Records
<1>2. Held(k, l, t) \in Nat
    BY <1>1 DEF Held
<1>3. CASE n = k
    BY <1>2, <1>3
<1> SUFFICES Held(n, l, t) <= Held(k, l, t)
    OBVIOUS
<1> HIDE DEF k
<1>4. CASE Fenced(k, n) \/ Renewed(k, n)
    <2>1. /\ n.status = "active" /\ k.status = "active" /\ n.limit = k.limit
          /\ n.created = k.created /\ n.reserved = k.reserved
        BY <1>1, <1>4 DEF Fenced, Renewed, Records
    <2>2. Held(n, l, t) = Held(k, l, t)
        BY <2>1 DEF Held
    <2> QED BY <1>2, <2>2
<1>5. CASE Charged(k, n)
    <2>1. /\ n.status = "reconciled" /\ k.status = "active" /\ n.limit = k.limit
          /\ n.reserved = k.reserved /\ k.created <= n.updated
        BY <1>1, <1>5 DEF Charged, Records, Instants
    <2>2. CASE k.limit = l /\ Covers(l, t, n.updated)
        <3>1. Reaches(l, t, k.created)
            BY <1>1, <2>1, <2>2, CoversReaches
        <3>2. Held(k, l, t) = k.reserved
            BY <2>1, <2>2, <3>1 DEF Held
        <3>3. Held(n, l, t) = IF n.actual < k.reserved THEN n.actual ELSE k.reserved
            BY <2>1, <2>2 DEF Held
        <3> QED BY <1>1, <3>2, <3>3
    <2>3. CASE ~(k.limit = l /\ Covers(l, t, n.updated))
        <3>1. Held(n, l, t) = 0
            BY <2>1, <2>3 DEF Held
        <3> QED BY <1>2, <3>1
    <2> QED BY <2>2, <2>3
<1>6. CASE Freed(k, n)
    <2>1. n.status = "released"
        BY <1>1, <1>6 DEF Freed, Records
    <2>2. Held(n, l, t) = 0
        BY <2>1 DEF Held
    <2> QED BY <1>2, <2>2
<1> QED BY <1>3, <1>4, <1>5, <1>6 DEF Kept, k

(* What cleanup leaves holds, in a window a reservation made now can       *)
(* reach, no more than the capacity check counts.                          *)
LEMMA ReapedHeld ==
    ASSUME RecordsOK, NEW l \in Limits, NEW t \in Instants, NEW q \in Reservations,
           NEW n \in Records, n = Reaped({l})[q], Reaches(l, t, now),
           WindowKind[l] = "rolling" /\ n.limit = l /\ n.status = "reconciled"
             => n.updated # now
    PROVE  Held(n, l, t) <= Counted(Reaped({l}), l)[q]
<1>1. /\ n.reserved \in Nat /\ n.actual \in Nat /\ n.updated \in Instants
      /\ now \in Instants
    BY LedgerConstants DEF Records, RecordsOK
<1>2. Counted(Reaped({l}), l)[q] =
        IF n.limit # l THEN 0
        ELSE IF n.status = "active" THEN n.reserved
        ELSE IF n.status = "reconciled" /\ InWindow(l, n.updated, now) THEN n.actual
        ELSE 0
    BY DEF Counted
<1>3. CASE n.limit = l /\ n.status = "active"
    BY <1>1, <1>2, <1>3 DEF Held
<1>4. CASE n.limit = l /\ n.status = "reconciled" /\ Covers(l, t, n.updated)
    <2>1. n.updated <= now
        <3>1. q \notin Lapsed({l})
            <4>1. CASE q \in Lapsed({l})
                <5>1. n.status = "released"
                    BY <4>1 DEF Reaped, ReleasedRecord, Lapsed, RecordsOK, Records
                <5> QED BY <1>4, <5>1
            <4> QED BY <4>1
        <3>2. n = records[q]
            BY <3>1 DEF Reaped
        <3> QED BY <3>2 DEF RecordsOK, RecordOK
    <2>2. InWindow(l, n.updated, now)
        BY <1>1, <1>4, <2>1, CoversInWindow
    <2>3. Held(n, l, t) = IF n.actual < n.reserved THEN n.actual ELSE n.reserved
        BY <1>4 DEF Held
    <2>4. Counted(Reaped({l}), l)[q] = n.actual
        BY <1>2, <1>4, <2>2
    <2> QED BY <1>1, <2>3, <2>4
<1>5. CASE ~(n.limit = l /\ (n.status = "active" \/ (n.status = "reconciled" /\ Covers(l, t, n.updated))))
    <2>1. Held(n, l, t) = 0
        BY <1>5 DEF Held
    <2>2. Counted(Reaped({l}), l)[q] \in Nat
        BY CountedType
    <2> QED BY <2>1, <2>2
<1> QED BY <1>3, <1>4, <1>5

(* What no step changes in a record it keeps. *)
LEMMA KeptFacts ==
    ASSUME NEW k \in Records, NEW n, Kept(k, n)
    PROVE  /\ n.limit = k.limit /\ n.created = k.created /\ n.reserved = k.reserved
           /\ Settled(k) => n = k
           /\ k.dispatch # None => n.dispatch = k.dispatch
<1>1. CASE n = k
    BY <1>1
<1>2. CASE Fenced(k, n)
    BY <1>2 DEF Fenced, Records, Settled
<1>3. CASE Renewed(k, n)
    BY <1>3 DEF Renewed, Records, Settled
<1>4. CASE Charged(k, n)
    BY <1>4 DEF Charged, Records, Settled
<1>5. CASE Freed(k, n)
    BY <1>5 DEF Freed, Records, Settled
<1> QED BY <1>1, <1>2, <1>3, <1>4, <1>5 DEF Kept

(* A record that is there is kept: only an absent one is admitted. *)
LEMMA PresentKept ==
    ASSUME RecordsOK, LedgerStep, NEW r \in Reservations, records[r].status # "absent"
    PROVE  Kept(records[r], records'[r]) /\ Posted(r)
BY DEF LedgerStep, Admitted

(* A charge that is missed once is missed for ever. *)
LEMMA UnseenStays ==
    ASSUME RecordsOK, LedgerStep, NEW l \in Limits, NEW r \in Reservations, Unseen(l, r)
    PROVE  Unseen(l, r)'
<1>1. PICK q \in Reservations \ {r} :
        records[q].limit = l /\ records[q].created = records[r].updated
    BY DEF Unseen
<1>2. /\ records[r] \in Records /\ records[q] \in Records
      /\ records[r].status = "reconciled" /\ records[q].status # "absent"
    BY <1>1, LedgerNames DEF RecordsOK, RecordOK, Unseen
<1>3. records'[r] = records[r]
    BY <1>2, PresentKept, KeptFacts DEF Settled
<1>4. records'[q].limit = l /\ records'[q].created = records[q].created
    BY <1>1, <1>2, PresentKept, KeptFacts
<1> QED BY <1>1, <1>3, <1>4 DEF Unseen

(* Every step keeps the cap.  Where nothing was admitted to the limit, or  *)
(* what was cannot reach the window, nothing holds more than it did; and   *)
(* where it can, Fits has counted everything that holds capacity there.    *)
LEMMA CapStep ==
    ASSUME RecordsOK, RecordsOK', LedgerStep, HardCap
    PROVE  HardCap'
<1> SUFFICES ASSUME NEW l \in Limits, NEW t \in Instants
             PROVE  Total(Committed(l, t)') <= Maximum[l]
    BY DEF HardCap, Total, Units
<1>1. Committed(l, t) \in [Reservations -> Nat] /\ Committed(l, t)' \in [Reservations -> Nat]
    <2>1. Committed(l, t) \in [Reservations -> Nat]
        BY CommittedType
    <2>2. \A r \in Reservations : records'[r].reserved \in Nat /\ records'[r].actual \in Nat
        BY LedgerConstants DEF RecordsOK, Records
    <2> QED BY <2>1, <2>2 DEF Committed
<1>2. Total(Committed(l, t)) <= Maximum[l]
    BY DEF HardCap
<1>3. /\ Total(Committed(l, t)) \in Nat /\ Total(Committed(l, t)') \in Nat
      /\ Maximum[l] \in Nat
    BY UnitsFinite, LedgerConstants
<1>4. ASSUME \A r \in Reservations : Committed(l, t)'[r] <= Committed(l, t)[r]
      PROVE  Total(Committed(l, t)') <= Maximum[l]
    <2>1. Total(Committed(l, t)') <= Total(Committed(l, t))
        BY <1>1, <1>4, TotalMonotone
    <2> QED BY <1>2, <1>3, <2>1
<1>5. \A r \in Reservations : Kept(records[r], records'[r]) =>
                                Committed(l, t)'[r] <= Committed(l, t)[r]
    <2> SUFFICES ASSUME NEW r \in Reservations, Kept(records[r], records'[r])
                 PROVE  Committed(l, t)'[r] <= Committed(l, t)[r]
        OBVIOUS
    <2>1. CASE Unseen(l, r)'
        BY <1>1, <2>1, CommittedHeld
    <2>2. CASE ~Unseen(l, r)'
        <3>1. ~Unseen(l, r)
            BY <2>2, UnseenStays
        <3> QED BY <2>2, <3>1, CommittedHeld, KeptHeld
    <2> QED BY <2>1, <2>2
<1>6. CASE \E r \in Reservations, a \in Amounts : Admitted(r, l, a) /\ Reaches(l, t, now)
    <2>1. PICK r \in Reservations, a \in Amounts : Admitted(r, l, a) /\ Reaches(l, t, now)
        BY <1>6
    <2>2. a \in Nat
        BY LedgerConstants
    <2>3. records'[r] = NewRecord(l, a) /\ records'[r].limit = l /\ records'[r].created = now
        BY <2>1 DEF Admitted, NewRecord
    <2>4. Committed(l, t)'[r] <= a
        <3>1. Held(records'[r], l, t) = a
            BY <2>1, <2>3 DEF Held, NewRecord
        <3>2. ~Unseen(l, r)'
            BY <2>3 DEF Unseen, NewRecord
        <3> QED BY <2>2, <3>1, <3>2, CommittedHeld
    <2>5. ASSUME NEW q \in Reservations \ {r}
          PROVE  Committed(l, t)'[q] <= Counted(Reaped({l}), l)[q]
        <3>1. /\ Committed(l, t)'[q] = IF Unseen(l, q)' THEN 0 ELSE Held(records'[q], l, t)
              /\ records'[q] \in Records
            BY CommittedHeld DEF RecordsOK
        <3>2. CASE records'[q].limit # l \/ Unseen(l, q)'
            <4>1. Committed(l, t)'[q] = 0
                BY <3>1, <3>2 DEF Held
            <4>2. Counted(Reaped({l}), l)[q] \in Nat
                BY CountedType
            <4> QED BY <4>1, <4>2
        <3>3. CASE records'[q].limit = l /\ ~Unseen(l, q)'
            <4>1. records'[q] = Reaped({l})[q]
                BY <2>1, <3>3 DEF Admitted
            <4>2. WindowKind[l] = "rolling" /\ records'[q].status = "reconciled"
                    => records'[q].updated # now
                BY <2>3, <3>3 DEF Unseen
            <4> QED BY <2>1, <3>1, <3>3, <4>1, <4>2, ReapedHeld
        <3> QED BY <3>2, <3>3
    <2>6. Total(Committed(l, t)') <= Total(Counted(Reaped({l}), l)) + a
        BY <1>1, <2>2, <2>4, <2>5, CountedType, TotalAdd
    <2>7. Total(Counted(Reaped({l}), l)) + a <= Maximum[l]
        BY <2>1 DEF Admitted, Fits
    <2>8. Total(Counted(Reaped({l}), l)) \in Nat
        BY UnitsFinite
    <2> QED BY <1>3, <2>2, <2>6, <2>7, <2>8
<1>7. CASE ~ \E r \in Reservations, a \in Amounts : Admitted(r, l, a) /\ Reaches(l, t, now)
    <2>1. ASSUME NEW r \in Reservations
          PROVE  Committed(l, t)'[r] <= Committed(l, t)[r]
        <3>1. ASSUME NEW m \in Limits, NEW a \in Amounts, Admitted(r, m, a)
              PROVE  Committed(l, t)'[r] = 0
            <4>1. records'[r] = NewRecord(m, a)
                BY <3>1 DEF Admitted
            <4>2. Held(records'[r], l, t) = 0
                BY <1>7, <3>1, <4>1 DEF Held, NewRecord
            <4> QED BY <4>2, CommittedHeld
        <3>2. 0 <= Committed(l, t)[r]
            BY <1>1
        <3> QED BY <1>5, <3>1, <3>2 DEF LedgerStep
    <2> QED BY <1>4, <2>1
<1> QED BY <1>6, <1>7

-----------------------------------------------------------------------------
(* The theorems. *)

LedgerInv ==
    /\ RecordsOK
    /\ outbox \in [Reservations -> Settlements]
    /\ published \subseteq Reservations
    /\ OutboxExact
    /\ BindingsOK
    /\ HardCap

(* A new ledger has reserved, charged and posted nothing. *)
LEMMA LedgerInit == Init => LedgerInv
<1> SUFFICES ASSUME Init PROVE LedgerInv
    OBVIOUS
<1>1. 0 \in Instants /\ 0 \in 0..MaxAmount
    BY LedgerConstants DEF Instants
<1>2. RecordsOK
    <2>1. NoRecord \in Records
        BY <1>1 DEF NoRecord, Records, Statuses
    <2> QED BY <1>1, <2>1, LedgerNames DEF Init, RecordsOK, RecordOK, NoRecord
<1>3. outbox \in [Reservations -> Settlements]
    <2>1. NoSettlement \in Settlements
        BY <1>1 DEF NoSettlement, Settlements, Statuses
    <2> QED BY <2>1 DEF Init
<1>4. OutboxExact
    BY DEF Init, OutboxExact, NoRecord
<1>5. BindingsOK
    <2>1. Cardinality({}) = 0
        BY FS_EmptySet
    <2> DEFINE e == [authority |-> None, allowance |-> 0, consumed |-> {}]
    <2>2. /\ e \in [authority : Authorities \cup {None}, allowance : Allowances \cup {0},
                    consumed : SUBSET Attempts]
          /\ e.consumed = {} /\ e.allowance = 0
        OBVIOUS
    <2>3. bindings = [b \in Bindings |-> e]
        BY DEF Init
    <2> HIDE DEF e
    <2> QED BY <2>1, <2>2, <2>3 DEF BindingsOK, AllowanceHolds
<1>6. HardCap
    <2> SUFFICES ASSUME NEW l \in Limits, NEW t \in Instants
                 PROVE  Total(Committed(l, t)) <= Maximum[l]
        BY DEF HardCap
    <2>1. \A r \in Reservations : Committed(l, t)[r] = 0
        BY LedgerNames DEF Init, NoRecord, Committed
    <2>2. Units(Committed(l, t)) = {}
        BY <2>1, LedgerConstants DEF Units
    <2> QED BY <2>2, FS_EmptySet, LedgerConstants DEF Total
<1> QED BY <1>2, <1>3, <1>4, <1>5, <1>6 DEF LedgerInv, Init

(* The ledger's invariant is inductive. *)
LEMMA LedgerInductive == LedgerInv /\ [Next]_vars => LedgerInv' /\ LedgerStep
<1> SUFFICES ASSUME LedgerInv, [Next]_vars PROVE LedgerInv' /\ LedgerStep
    OBVIOUS
<1>1. LedgerStep
    BY StepShape DEF LedgerInv
<1>2. RecordsOK'
    BY <1>1, RecordsStep DEF LedgerInv
<1>3. outbox' \in [Reservations -> Settlements] /\ OutboxExact'
    BY <1>1, OutboxStep DEF LedgerInv
<1>4. published' \subseteq Reservations
    BY <1>1 DEF LedgerInv, LedgerStep
<1>5. BindingsOK'
    BY BindingsStep DEF LedgerInv
<1>6. HardCap'
    BY <1>1, <1>2, CapStep DEF LedgerInv
<1> QED BY <1>1, <1>2, <1>3, <1>4, <1>5, <1>6 DEF LedgerInv

(* In every behaviour. *)
THEOREM LedgerInvariant == Spec => []LedgerInv
<1>1. Init => LedgerInv
    BY LedgerInit
<1>2. LedgerInv /\ [Next]_vars => LedgerInv'
    BY LedgerInductive
<1> QED BY <1>1, <1>2, PTL DEF Spec

(* Every variable of the ledger keeps its type: amounts stay within their  *)
(* bounds and no record or settlement is dated after the ledger's clock    *)
(* could have run.                                                         *)
THEOREM LedgerTypes == Spec => []TypeOK
<1>1. LedgerInv => TypeOK
    BY DEF LedgerInv, RecordsOK, BindingsOK, TypeOK
<1> QED BY <1>1, LedgerInvariant, PTL

(* The cap of reserve is hard for every number of reservations, limits,    *)
(* amounts and windows of each kind: whatever the order of reservations,   *)
(* cleanup and settlements dated in the past, no window of a limit is      *)
(* committed beyond its maximum.                                           *)
THEOREM LedgerHardCap == Spec => []HardCap
<1>1. LedgerInv => HardCap
    BY DEF LedgerInv
<1> QED BY <1>1, LedgerInvariant, PTL

(* A reservation has a settlement exactly when it is settled, and the      *)
(* settlement is the one its record produces.                              *)
THEOREM LedgerOutboxExact == Spec => []OutboxExact
<1>1. LedgerInv => OutboxExact
    BY DEF LedgerInv
<1> QED BY <1>1, LedgerInvariant, PTL

(* Cleanup never releases a reservation that is, or will be, dispatched.   *)
THEOREM LedgerExpiredNeverDispatched == Spec => []ExpiredNeverDispatched
<1>1. LedgerInv => ExpiredNeverDispatched
    BY DEF LedgerInv, RecordsOK, RecordOK, ExpiredNeverDispatched
<1> QED BY <1>1, LedgerInvariant, PTL

(* No binding admits more attempts than it was registered for. *)
THEOREM LedgerAllowanceHolds == Spec => []AllowanceHolds
<1>1. LedgerInv => AllowanceHolds
    BY DEF LedgerInv, BindingsOK
<1> QED BY <1>1, LedgerInvariant, PTL

(* Settled reservations, their settlements, acknowledgements and fences    *)
(* are never rewritten, by any operation.                                  *)
THEOREM LedgerFinancialHistory == Spec => FinancialHistory
<1>1. LedgerInv /\ [Next]_vars => [HistoryStep]_vars
    <2> SUFFICES ASSUME LedgerInv, [Next]_vars PROVE HistoryStep
        OBVIOUS
    <2>1. LedgerStep /\ RecordsOK /\ OutboxExact
        BY LedgerInductive DEF LedgerInv
    <2>2. ASSUME NEW r \in Reservations
          PROVE  /\ Settled(records[r]) => records'[r] = records[r]
                 /\ outbox[r] # NoSettlement => outbox'[r] = outbox[r]
                 /\ records[r].dispatch # None => records'[r].dispatch = records[r].dispatch
                 /\ records[r].status # "absent" =>
                      /\ records'[r].limit = records[r].limit
                      /\ records'[r].reserved = records[r].reserved
        <3>1. records[r] \in Records
            BY <2>1 DEF RecordsOK
        <3>2. CASE records[r].status # "absent"
            <4>1. Kept(records[r], records'[r]) /\ Posted(r)
                BY <2>1, <3>2, PresentKept
            <4>2. outbox[r] # NoSettlement => outbox'[r] = outbox[r]
                BY <4>1 DEF Posted
            <4> QED BY <3>1, <4>1, <4>2, KeptFacts
        <3>3. CASE records[r].status = "absent"
            <4>1. outbox[r] = NoSettlement
                BY <2>1, <3>3 DEF OutboxExact
            <4>2. records[r].dispatch = None
                BY <2>1, <3>3 DEF RecordsOK, RecordOK
            <4> QED BY <3>3, <4>1, <4>2 DEF Settled
        <3> QED BY <3>2, <3>3
    <2>3. published \subseteq published'
        BY <2>1 DEF LedgerStep
    <2> QED BY <2>2, <2>3 DEF HistoryStep, Settled
<1> QED BY <1>1, LedgerInvariant, PTL DEF Spec, FinancialHistory
=============================================================================
