--------------------------- MODULE MCBudgetLedger ---------------------------
(* TLC instances of the budget ledger. *)
EXTENDS BudgetLedger, TLC

CONSTANTS l1, l2

(* One rolling limit, or one limit of each of the other kinds. *)
TwoUnits == [l \in Limits |-> 2]
TwoInstants == [l \in Limits |-> 2]
Rolling == [l \in Limits |-> "rolling"]
Mixed == [l \in Limits |-> IF l = l1 THEN "all_time" ELSE "calendar"]

(* Periods of two instants. *)
Halves == [t \in 0..MaxClock |-> t \div 2]

LedgerSymmetry ==
    Permutations(Reservations) \cup Permutations(Dispatches)
        \cup Permutations(Authorities) \cup Permutations(Attempts)
=============================================================================
