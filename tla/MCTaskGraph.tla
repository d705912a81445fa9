---------------------------- MODULE MCTaskGraph ----------------------------
(* TLC instances of task graphs and groups. *)
EXTENDS TaskGraph, TLC

CONSTANTS a, b, c, f, s

(* two members and a finalizer; a failed a is retried as s *)
GroupPrereqs == [t \in {a, b, f} |-> {}]
GroupRoots == [t \in {s} |-> a]
RetryOfA == [t \in {a, b, f, s} |-> IF t = a THEN s ELSE None]

(* the member c comes first, then b, then the member a and the finalizer *)
ChainedPrereqs ==
    [t \in {a, b, c, f} |-> IF t \in {a, f} THEN {b} ELSE IF t = b THEN {c} ELSE {}]
NoRoots == [t \in {} |-> a]
NoSuccessor == [t \in Tasks |-> None]

(* workers are interchangeable; the run that uses it checks invariants only *)
WorkerSymmetry == Permutations(Workers)
=============================================================================
