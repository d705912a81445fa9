---------------------- MODULE MCSettlementPublication ----------------------
(* TLC instances of the publication of settlements. *)
EXTENDS SettlementPublication, TLC

CONSTANTS s1, s2, p1, p2

(* One session owns row 1, another the rest. *)
FirstApart == [r \in Settlements |-> IF r = 1 THEN s1 ELSE s2]

(* Two processes scan all sessions, or p2 scans session s2. *)
BothAll == [p \in Scanners |-> All]
OneScoped == [p \in Scanners |-> IF p = p1 THEN All ELSE s2]

(* Every policy admits every event, or p1's refuses those of session s2. *)
AnyRow == [p \in Scanners |-> Settlements]
SecondForeign == [p \in Scanners |-> IF p = p1 THEN {1} ELSE Settlements]
============================================================================
