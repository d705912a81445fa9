----------------------- MODULE SettlementPublication -----------------------
(***************************************************************************)
(* Publication of budget settlements.  The ledger's settlement outbox and  *)
(* the session store are two durability domains: a settlement is posted in *)
(* the ledger, its audit event is appended to the owning session's log,    *)
(* and only then is the row acknowledged.  Whoever posted the row may die  *)
(* in between, so RunLimitController scans the outbox before every         *)
(* reservation: all sessions, from a cursor the process keeps in memory,   *)
(* or one session, from the start.                                         *)
(*                                                                         *)
(* Every step of a scanner is the code between two awaits of               *)
(* _recover_pending_budget_settlement_pages and of the                     *)
(* publish_budget_settlement it calls; other scanners, the delivery of     *)
(* event side effects, and the deletion and creation of sessions           *)
(* interleave with it.                                                     *)
(***************************************************************************)
EXTENDS Integers, FiniteSets

CONSTANTS
    Sessions,        \* session ids
    Settlements,     \* outbox rows, numbered by (settled_at, settlement_id)
    Owner,           \* the session id of each row
    Scanners,        \* one per process and scope: a lock admits no more
    Scope,           \* the session a scanner is confined to, or All
    Preparable,      \* rows whose event passes the scanner's secret policy
    PageLimit,       \* page_limit (100 in the code)
    MaxPages,        \* max_pages of a scan of all sessions (10 in the code)
    MaxIncarnations, \* bound: sessions created under one id
    MaxCrashes,      \* bound: scanners that die
    All

ASSUME PublicationConstants ==
    /\ Settlements \subseteq Nat \ {0}
    /\ IsFiniteSet(Settlements)
    /\ Owner \in [Settlements -> Sessions]
    /\ Scope \in [Scanners -> Sessions \cup {All}]
    /\ All \notin Sessions
    /\ Preparable \in [Scanners -> SUBSET Settlements]
    /\ PageLimit \in Nat \ {0}
    /\ MaxPages \in Nat \ {0}
    /\ MaxIncarnations \in Nat \ {0}
    /\ MaxCrashes \in Nat

VARIABLES
    live,        \* the session ids that exist
    instance,    \* the last instance_id given out under each session id
    identities,  \* reservations the session store has claimed for their owner
    row,         \* the ledger: status and session_instance_id of each row
    event,       \* the audit event in its session's log: its delivery status
    cursor,      \* _global_settlement_recovery_after of each scanner, 0 if None
    scan,        \* where each scanner is
    crashes

vars == <<live, instance, identities, row, event, cursor, scan, crashes>>

RowStatuses == {"none", "reserved", "pending", "published"}
EventStatuses == {"absent", "pending", "delivered", "dead_lettered"}
Places == {"idle", "list", "load", "auth", "persist", "recheck", "ack", "fan_out"}
Cursors == Settlements \cup {0}

(* Variables of a scan: what is left of the page, the cursor, pages read.  *)
Scans == [at : Places, after : Cursors, page : SUBSET Settlements, pages : 0..MaxPages]
Idle == [at |-> "idle", after |-> 0, page |-> {}, pages |-> 0]

Init ==
    /\ live = Sessions
    /\ instance = [s \in Sessions |-> 1]
    /\ identities = {}
    /\ row = [r \in Settlements |-> [status |-> "none", instance |-> 0]]
    /\ event = [r \in Settlements |-> "absent"]
    /\ cursor = [p \in Scanners |-> 0]
    /\ scan = [p \in Scanners |-> Idle]
    /\ crashes = 0

-----------------------------------------------------------------------------
(* Reservations and their settlement. *)

(* reserve: the settlement event is bound to the session's incarnation.    *)
Reserve(r) ==
    /\ row[r].status = "none"
    /\ Owner[r] \in live
    /\ row' = [row EXCEPT ![r] = [status |-> "reserved", instance |-> instance[Owner[r]]]]
    /\ UNCHANGED <<live, instance, identities, event, cursor, scan, crashes>>

(* BudgetReservationIdentityGuard.claim, after the reservation: a run that *)
(* dies in between leaves a reservation the session store knows nothing of.*)
ClaimIdentity(r) ==
    /\ row[r].status # "none"
    /\ r \notin identities
    /\ Owner[r] \in live
    /\ row[r].instance = instance[Owner[r]]
    /\ identities' = identities \cup {r}
    /\ UNCHANGED <<live, instance, row, event, cursor, scan, crashes>>

(* The run settles the reservation, or any other caller's cleanup expires  *)
(* it: the row enters the outbox at its place, behind a cursor perhaps.    *)
Post(r) ==
    /\ row[r].status = "reserved"
    /\ row' = [row EXCEPT ![r].status = "pending"]
    /\ UNCHANGED <<live, instance, identities, event, cursor, scan, crashes>>

-----------------------------------------------------------------------------
(* Sessions. *)

(* recover_persisted_side_effects: anyone delivers a persisted event.      *)
Deliver(r) ==
    /\ event[r] = "pending"
    /\ \E outcome \in {"delivered", "dead_lettered"} :
           event' = [event EXCEPT ![r] = outcome]
    /\ UNCHANGED <<live, instance, identities, row, cursor, scan, crashes>>

(* Mutant: an inner join, which finds only reservations with an event. *)
ErasureQuiescentJoined(s) ==
    \A r \in identities : Owner[r] = s => event[r] \in {"absent", "delivered"}

(* _require_session_erasure_quiescence_unlocked, its budget clause.        *)
ErasureQuiescent(s) == \A r \in identities : Owner[r] = s => event[r] = "delivered"

(* delete_session erases the log; the identities stay. *)
DeleteSession(s) ==
    /\ s \in live
    /\ ErasureQuiescent(s)
    /\ live' = live \ {s}
    /\ event' = [r \in Settlements |-> IF Owner[r] = s THEN "absent" ELSE event[r]]
    /\ UNCHANGED <<instance, identities, row, cursor, scan, crashes>>

(* A session is created under an id that is free again. *)
CreateSession(s) ==
    /\ s \notin live
    /\ instance[s] < MaxIncarnations
    /\ live' = live \cup {s}
    /\ instance' = [instance EXCEPT ![s] = @ + 1]
    /\ UNCHANGED <<identities, row, event, cursor, scan, crashes>>

-----------------------------------------------------------------------------
(* The scan. *)

IsGlobal(p) == Scope[p] = All

(* list_pending_settlements: the first PageLimit pending rows past after.  *)
PendingAfter(p, after) ==
    {r \in Settlements : /\ row[r].status = "pending"
                         /\ r > after
                         /\ IsGlobal(p) \/ Owner[r] = Scope[p]}
Page(p, after) ==
    {r \in PendingAfter(p, after) :
        Cardinality({q \in PendingAfter(p, after) : q < r}) < PageLimit}

(* The row a scanner is at. *)
IsCurrent(p, r) == r \in scan[p].page /\ \A q \in scan[p].page : r <= q

GoTo(p, place) == scan' = [scan EXCEPT ![p].at = place]

(* An exception leaves the scan; the cursor is where the last row left it. *)
Abort(p) == scan' = [scan EXCEPT ![p] = Idle] /\ UNCHANGED cursor

(* Where a scan goes from row r: to the next row, page or caller. *)
FirstPlace(p) == IF IsGlobal(p) THEN "load" ELSE "auth"

Advance(p, r) ==
    LET rest == scan[p].page \ {r}
        done == rest = {} /\ IsGlobal(p) /\ scan[p].pages >= MaxPages
    IN  /\ scan' = [scan EXCEPT ![p] =
                       IF done THEN Idle
                       ELSE [@ EXCEPT !.page = rest, !.after = r,
                                      !.at = IF rest = {} THEN "list" ELSE FirstPlace(p)]]
        /\ cursor' = IF IsGlobal(p) THEN [cursor EXCEPT ![p] = r] ELSE cursor

(* recover_pending_budget_settlements *)
StartScan(p) ==
    /\ scan[p].at = "idle"
    /\ scan' = [scan EXCEPT ![p] = [at |-> "list", after |-> cursor[p], page |-> {}, pages |-> 0]]
    /\ UNCHANGED <<live, instance, identities, row, event, cursor, crashes>>

(* At the first row of the next page.  Only scans of all sessions count.   *)
Listed(p) ==
    [at |-> FirstPlace(p), after |-> scan[p].after, page |-> Page(p, scan[p].after),
     pages |-> IF scan[p].pages < MaxPages THEN scan[p].pages + 1 ELSE MaxPages]

(* Mutant: the cursor survives an empty page. *)
ListPageKeepingCursor(p) ==
    /\ scan[p].at = "list"
    /\ IF Page(p, scan[p].after) = {}
       THEN scan' = [scan EXCEPT ![p] = Idle]
       ELSE scan' = [scan EXCEPT ![p] = Listed(p)]
    /\ UNCHANGED <<live, instance, identities, row, event, crashes, cursor>>

(* A page is read; an empty one ends the scan and rewinds the cursor.      *)
ListPage(p) ==
    /\ scan[p].at = "list"
    /\ IF Page(p, scan[p].after) = {}
       THEN /\ scan' = [scan EXCEPT ![p] = Idle]
            /\ cursor' = [cursor EXCEPT ![p] = 0]
       ELSE /\ scan' = [scan EXCEPT ![p] = Listed(p)]
            /\ UNCHANGED cursor
    /\ UNCHANGED <<live, instance, identities, row, event, crashes>>

(* A scan of all sessions passes over the rows of sessions not found here. *)
LoadOwner(p, r) ==
    /\ scan[p].at = "load"
    /\ IF Owner[r] \in live THEN GoTo(p, "auth") /\ UNCHANGED cursor
       ELSE Advance(p, r)
    /\ UNCHANGED <<live, instance, identities, row, event, crashes>>

(* _authenticate_settlement_session *)
Authentic(r) == Owner[r] \in live /\ row[r].instance = instance[Owner[r]]

(* Mutant: the row is acknowledged first. *)
AuthenticateAcknowledging(p, r) ==
    /\ scan[p].at = "auth"
    /\ IF ~Authentic(r) THEN Abort(p)
       ELSE IF r \in Preparable[p] THEN GoTo(p, "ack") /\ UNCHANGED cursor
       ELSE IF IsGlobal(p) THEN Advance(p, r)
       ELSE Abort(p)
    /\ UNCHANGED <<live, instance, identities, row, event, crashes>>

(* Authentication, and prepare_exact_replay: a scan of all sessions keeps  *)
(* the rows that another secret policy must publish.  The scan of all      *)
(* sessions authenticates twice; the second failing is the first failing.  *)
Authenticate(p, r) ==
    /\ scan[p].at = "auth"
    /\ IF ~Authentic(r) THEN Abort(p)
       ELSE IF r \in Preparable[p] THEN GoTo(p, "persist") /\ UNCHANGED cursor
       ELSE IF IsGlobal(p) THEN Advance(p, r)
       ELSE Abort(p)
    /\ UNCHANGED <<live, instance, identities, row, event, crashes>>

(* persist_exact_replay: append_event, or the exact event is there.  A     *)
(* session that is gone is a KeyError.                                     *)
Persist(p, r) ==
    /\ scan[p].at = "persist"
    /\ IF Owner[r] \in live
       THEN /\ event' = [event EXCEPT ![r] = IF @ = "absent" THEN "pending" ELSE @]
            /\ GoTo(p, "ack") /\ UNCHANGED cursor
       ELSE /\ UNCHANGED event
            /\ IF IsGlobal(p) THEN GoTo(p, "recheck") /\ UNCHANGED cursor ELSE Abort(p)
    /\ UNCHANGED <<live, instance, identities, row, crashes>>

(* After a KeyError the owner is loaded again: gone, or the error counts.  *)
RecheckOwner(p, r) ==
    /\ scan[p].at = "recheck"
    /\ IF Owner[r] \in live THEN Abort(p) ELSE Advance(p, r)
    /\ UNCHANGED <<live, instance, identities, row, event, crashes>>

(* mark_settlement_event_published *)
Acknowledge(p, r) ==
    /\ scan[p].at = "ack"
    /\ row' = [row EXCEPT ![r].status = "published"]
    /\ GoTo(p, "fan_out")
    /\ UNCHANGED <<live, instance, identities, event, cursor, crashes>>

(* fan_out_persisted: a delivery that fails is left to recovery, one that  *)
(* is not there is an error.                                               *)
FanOut(p, r) ==
    /\ scan[p].at = "fan_out"
    /\ \/ event[r] = "absent" /\ Abort(p) /\ UNCHANGED event
       \/ /\ event[r] = "pending"
          /\ \E outcome \in {"pending", "delivered", "dead_lettered"} :
                 event' = [event EXCEPT ![r] = outcome]
          /\ Advance(p, r)
       \/ /\ event[r] \in {"delivered", "dead_lettered"}
          /\ UNCHANGED event
          /\ Advance(p, r)
    /\ UNCHANGED <<live, instance, identities, row, crashes>>

(* The process dies; its cursor was in memory only. *)
Crash(p) ==
    /\ crashes < MaxCrashes
    /\ scan[p] # Idle \/ cursor[p] # 0
    /\ scan' = [scan EXCEPT ![p] = Idle]
    /\ cursor' = [cursor EXCEPT ![p] = 0]
    /\ crashes' = crashes + 1
    /\ UNCHANGED <<live, instance, identities, row, event>>

RowStep(p, r) ==
    /\ IsCurrent(p, r)
    /\ \/ LoadOwner(p, r)
       \/ Authenticate(p, r)
       \/ Persist(p, r)
       \/ RecheckOwner(p, r)
       \/ Acknowledge(p, r)
       \/ FanOut(p, r)

ScanStep(p) == ListPage(p) \/ \E r \in Settlements : RowStep(p, r)

Next ==
    \/ \E r \in Settlements : Reserve(r) \/ ClaimIdentity(r) \/ Post(r) \/ Deliver(r)
    \/ \E s \in Sessions : DeleteSession(s) \/ CreateSession(s)
    \/ \E p \in Scanners : StartScan(p) \/ ScanStep(p) \/ Crash(p)

Spec == Init /\ [][Next]_vars

(* Reservations keep being made, each of them starts a scan of all         *)
(* sessions, and the event loop runs a scan that has begun to its end.     *)
Fairness ==
    \A p \in Scanners : /\ IsGlobal(p) => WF_vars(StartScan(p))
                        /\ WF_vars(ScanStep(p))

FairSpec == Spec /\ Fairness

-----------------------------------------------------------------------------
(* Properties. *)

(* The log of the incarnation that owns row r is gone. *)
OwnerGone(r) == Owner[r] \notin live \/ row[r].instance # instance[Owner[r]]

(* The ledger, the session store and the scanners keep their types; in     *)
(* particular no scan reads more than max_pages pages.                     *)
TypeOK ==
    /\ live \subseteq Sessions
    /\ instance \in [Sessions -> 1..MaxIncarnations]
    /\ identities \subseteq Settlements
    /\ row \in [Settlements -> [status : RowStatuses, instance : 0..MaxIncarnations]]
    /\ event \in [Settlements -> EventStatuses]
    /\ cursor \in [Scanners -> Cursors]
    /\ scan \in [Scanners -> Scans]
    /\ crashes \in 0..MaxCrashes

(* publish_budget_settlement acknowledges only what is durable: whatever   *)
(* dies, is deleted or scans at the same time, a row marked published has  *)
(* its event in the log of the session incarnation it was posted for, as   *)
(* long as that incarnation exists.                                        *)
AcknowledgedIsPersisted ==
    \A r \in Settlements :
        row[r].status = "published" => event[r] # "absent" \/ OwnerGone(r)

(* delete_session: an incarnation whose reservation the session store has  *)
(* claimed is not erased before its settlement reached the outbox; no      *)
(* claimed reservation of a session that is gone is left open.             *)
ErasureAfterSettlement ==
    \A r \in identities : OwnerGone(r) => row[r].status \in {"pending", "published"}

(* Some scan of all sessions can publish row r. *)
Reachable(r) ==
    /\ row[r].status = "pending"
    /\ ~OwnerGone(r)
    /\ \E p \in Scanners : IsGlobal(p) /\ r \in Preparable[p]

Settled(r) == row[r].status = "published" \/ OwnerGone(r)

(* recover_pending_budget_settlements: "Publish reachable settlement       *)
(* outbox rows": each of them is published, or its owner is erased,        *)
(* although every process forgets its cursor when it dies and rows appear  *)
(* behind cursors.                                                         *)
EveryReachableIsPublished == \A r \in Settlements : Reachable(r) ~> Settled(r)

(* A session was created under the id of an erased one that has a          *)
(* settlement left: at such a row every scan fails.                        *)
Conflicting(r) == row[r].status = "pending" /\ OwnerGone(r) /\ Owner[r] \in live

(* recover_pending_budget_settlements publishes every reachable row,       *)
(* unless a conflicting one stands in the way of the scans.                *)
ReachableIsPublished ==
    \A r \in Settlements :
        Reachable(r) ~> (Settled(r) \/ \E q \in Settlements : Conflicting(q))

=============================================================================
