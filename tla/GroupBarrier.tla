---------------------------- MODULE GroupBarrier ----------------------------
(***************************************************************************)
(* What a task group with a quiescence policy promises, without leases,    *)
(* rows or retries: one decision that is never revised, no work for a      *)
(* loser afterwards, and a finalizer that is released only by a success    *)
(* and only once nothing of a loser executes.                              *)
(***************************************************************************)
EXTENDS Naturals, FiniteSets

CONSTANTS Members, Required

VARIABLES
    decision,
    winners,
    running,   \* members of which something really executes
    released   \* the finalizer may run

vars == <<decision, winners, running, released>>

Losers == IF decision = "pending" THEN {} ELSE Members \ winners

Init ==
    /\ decision = "pending"
    /\ winners = {}
    /\ running = {}
    /\ released = FALSE

Start(m) ==
    /\ m \notin Losers
    /\ running' = running \cup {m}
    /\ UNCHANGED <<decision, winners, released>>

Stop(m) ==
    /\ m \in running
    /\ running' = running \ {m}
    /\ UNCHANGED <<decision, winners, released>>

(* A group that decides while nothing of its losers executes may release *)
(* its finalizer in the same transaction.                                *)
Elect ==
    /\ decision = "pending"
    /\ \/ /\ decision' = "succeeded"
          /\ \E W \in SUBSET Members : Cardinality(W) = Required /\ winners' = W
          /\ released' => running \subseteq winners'
       \/ decision' = "failed" /\ winners' = {} /\ ~released'
    /\ released' \in BOOLEAN
    /\ UNCHANGED running

Release ==
    /\ decision = "succeeded"
    /\ running \cap Losers = {}
    /\ released' = TRUE
    /\ UNCHANGED <<decision, winners, running>>

Next ==
    \/ \E m \in Members : Start(m) \/ Stop(m)
    \/ Elect
    \/ Release

Spec == Init /\ [][Next]_vars
=============================================================================
