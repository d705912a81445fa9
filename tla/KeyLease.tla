------------------------------ MODULE KeyLease ------------------------------
(***************************************************************************)
(* What a concurrency key promises: a lock per key.  A holder takes a free *)
(* key; a key lapses when its holder finishes, lets go or loses its lease, *)
(* and several keys may lapse at one instant.  A key never passes straight *)
(* from one holder to the next.                                            *)
(***************************************************************************)
CONSTANTS Keys, Holders, Nobody

VARIABLE holder

Init == holder = [k \in Keys |-> Nobody]

Acquire(k, t) ==
    /\ holder[k] = Nobody
    /\ holder' = [holder EXCEPT ![k] = t]

Lapse(K) == holder' = [k \in Keys |-> IF k \in K THEN Nobody ELSE holder[k]]

Next ==
    \/ \E k \in Keys, t \in Holders : Acquire(k, t)
    \/ \E K \in SUBSET Keys : Lapse(K)

Spec == Init /\ [][Next]_holder
=============================================================================
