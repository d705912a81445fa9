-------------------- MODULE SettlementPublicationProofs --------------------
(***************************************************************************)
(* Proofs about the publication of settlements, for any number of sessions,*)
(* rows, scanners and crashes, any page size and any owners.               *)
(***************************************************************************)
EXTENDS SettlementPublication, TLAPS

(* No row is bound to an incarnation that has not been created. *)
InstancesExist == \A r \in Settlements : row[r].instance <= instance[Owner[r]]

(* The session store claims reservations the ledger has made. *)
IdentitiesReserved == \A r \in identities : row[r].status # "none"

(* Only settlements are on a scanner's page or have an audit event. *)
PagesSettled ==
    \A p \in Scanners : \A r \in scan[p].page : row[r].status \in {"pending", "published"}
EventsSettled ==
    \A r \in Settlements : event[r] # "absent" => row[r].status \in {"pending", "published"}

(* What a scanner is about to acknowledge, or has, is persisted. *)
HeldIsPersisted ==
    \A p \in Scanners : \A r \in scan[p].page :
        scan[p].at \in {"ack", "fan_out"} /\ IsCurrent(p, r)
            => event[r] # "absent" \/ OwnerGone(r)

IInv ==
    /\ TypeOK
    /\ InstancesExist
    /\ IdentitiesReserved
    /\ PagesSettled
    /\ EventsSettled
    /\ HeldIsPersisted
    /\ AcknowledgedIsPersisted
    /\ ErasureAfterSettlement

-----------------------------------------------------------------------------
(* The initial states satisfy the invariant: there are no rows. *)
LEMMA InitIInv == Init => IInv
<1> USE PublicationConstants
<1>1. Init => TypeOK
  BY DEF Init, TypeOK, RowStatuses, EventStatuses, Places, Cursors, Scans, Idle
<1>2. QED
  BY <1>1 DEF Init, IInv, InstancesExist, IdentitiesReserved, PagesSettled,
     EventsSettled, HeldIsPersisted, AcknowledgedIsPersisted, ErasureAfterSettlement, Idle

(* Reserving, claiming and posting: only the row or the identities change. *)
LEMMA ReserveStep == \A r \in Settlements : IInv /\ Reserve(r) => IInv'
<1> USE PublicationConstants
<1> SUFFICES ASSUME NEW r \in Settlements, IInv, Reserve(r) PROVE IInv'
  OBVIOUS
<1>1. TypeOK'
  BY DEF IInv, TypeOK, Reserve, RowStatuses
<1>2. InstancesExist' /\ IdentitiesReserved'
  BY DEF IInv, TypeOK, InstancesExist, IdentitiesReserved, Reserve
<1>3. PagesSettled' /\ EventsSettled'
  BY DEF IInv, TypeOK, PagesSettled, EventsSettled, Reserve, Scans
<1>4. HeldIsPersisted'
  BY DEF IInv, TypeOK, PagesSettled, HeldIsPersisted, Reserve, Scans, IsCurrent, OwnerGone
<1>5. AcknowledgedIsPersisted' /\ ErasureAfterSettlement'
  BY DEF IInv, TypeOK, IdentitiesReserved, AcknowledgedIsPersisted,
     ErasureAfterSettlement, Reserve, OwnerGone
<1>6. QED
  BY <1>1, <1>2, <1>3, <1>4, <1>5 DEF IInv

(* See ReserveStep. *)
LEMMA ClaimStep == \A r \in Settlements : IInv /\ ClaimIdentity(r) => IInv'
<1> USE PublicationConstants
<1> SUFFICES ASSUME NEW r \in Settlements, IInv, ClaimIdentity(r) PROVE IInv'
  OBVIOUS
<1>1. TypeOK' /\ InstancesExist' /\ IdentitiesReserved' /\ PagesSettled' /\ EventsSettled'
  BY DEF IInv, TypeOK, InstancesExist, IdentitiesReserved, PagesSettled, EventsSettled,
     ClaimIdentity
<1>2. HeldIsPersisted' /\ AcknowledgedIsPersisted'
  BY DEF IInv, HeldIsPersisted, AcknowledgedIsPersisted, ClaimIdentity, IsCurrent, OwnerGone
<1>3. ErasureAfterSettlement'
  BY DEF IInv, ErasureAfterSettlement, ClaimIdentity, OwnerGone
<1>4. QED
  BY <1>1, <1>2, <1>3 DEF IInv

(* See ReserveStep. *)
LEMMA PostStep == \A r \in Settlements : IInv /\ Post(r) => IInv'
<1> USE PublicationConstants
<1> SUFFICES ASSUME NEW r \in Settlements, IInv, Post(r) PROVE IInv'
  OBVIOUS
<1>1. TypeOK' /\ \A q \in Settlements : row'[q].instance = row[q].instance
                                     /\ row'[q].status = IF q = r THEN "pending" ELSE row[q].status
  BY DEF IInv, TypeOK, Post, RowStatuses
<1>2. InstancesExist' /\ IdentitiesReserved' /\ PagesSettled' /\ EventsSettled'
  BY <1>1 DEF IInv, TypeOK, InstancesExist, IdentitiesReserved, PagesSettled, EventsSettled,
     Post, Scans
<1>3. HeldIsPersisted'
  BY <1>1 DEF IInv, TypeOK, HeldIsPersisted, Post, IsCurrent, OwnerGone, Scans
<1>4. AcknowledgedIsPersisted' /\ ErasureAfterSettlement'
  BY <1>1 DEF IInv, TypeOK, AcknowledgedIsPersisted, ErasureAfterSettlement, Post, OwnerGone
<1>5. QED
  BY <1>1, <1>2, <1>3, <1>4 DEF IInv

-----------------------------------------------------------------------------
(* Deliveries and sessions.  A deletion takes the events of its session    *)
(* away, and with them the incarnation.                                    *)
LEMMA DeliverStep == \A r \in Settlements : IInv /\ Deliver(r) => IInv'
<1> USE PublicationConstants
<1> SUFFICES ASSUME NEW r \in Settlements, IInv, Deliver(r) PROVE IInv'
  OBVIOUS
<1>1. TypeOK' /\ \A q \in Settlements : event'[q] = "absent" <=> event[q] = "absent"
  BY DEF IInv, TypeOK, Deliver, EventStatuses
<1>2. InstancesExist' /\ IdentitiesReserved' /\ PagesSettled' /\ EventsSettled'
  BY <1>1 DEF IInv, InstancesExist, IdentitiesReserved, PagesSettled, EventsSettled, Deliver
<1>3. HeldIsPersisted'
  BY <1>1 DEF IInv, TypeOK, HeldIsPersisted, Deliver, IsCurrent, OwnerGone, Scans
<1>4. AcknowledgedIsPersisted' /\ ErasureAfterSettlement'
  BY <1>1 DEF IInv, TypeOK, AcknowledgedIsPersisted, ErasureAfterSettlement, Deliver, OwnerGone
<1>5. QED
  BY <1>1, <1>2, <1>3, <1>4 DEF IInv

(* See DeliverStep. *)
LEMMA DeleteStep == \A s \in Sessions : IInv /\ DeleteSession(s) => IInv'
<1> USE PublicationConstants
<1> SUFFICES ASSUME NEW s \in Sessions, IInv, DeleteSession(s) PROVE IInv'
  OBVIOUS
<1>1. TypeOK' /\ InstancesExist' /\ IdentitiesReserved' /\ PagesSettled'
  BY DEF IInv, TypeOK, InstancesExist, IdentitiesReserved, PagesSettled, DeleteSession,
     EventStatuses
<1>2. EventsSettled'
  BY DEF IInv, EventsSettled, DeleteSession
<1>3. \A r \in Settlements : event[r] # "absent" \/ OwnerGone(r)
                                => event'[r] # "absent" \/ OwnerGone(r)'
  BY DEF IInv, TypeOK, DeleteSession, OwnerGone
<1>4. HeldIsPersisted'
  BY <1>3 DEF IInv, TypeOK, HeldIsPersisted, DeleteSession, IsCurrent, Scans
<1>5. AcknowledgedIsPersisted'
  BY <1>3 DEF IInv, AcknowledgedIsPersisted, DeleteSession
<1>6. ErasureAfterSettlement'
  BY DEF IInv, TypeOK, EventsSettled, ErasureAfterSettlement, DeleteSession, ErasureQuiescent,
     OwnerGone
<1>7. QED
  BY <1>1, <1>2, <1>4, <1>5, <1>6 DEF IInv

(* See DeliverStep. *)
LEMMA CreateStep == \A s \in Sessions : IInv /\ CreateSession(s) => IInv'
<1> USE PublicationConstants
<1> SUFFICES ASSUME NEW s \in Sessions, IInv, CreateSession(s) PROVE IInv'
  OBVIOUS
<1>1. TypeOK' /\ InstancesExist'
  BY DEF IInv, TypeOK, InstancesExist, CreateSession
<1>2. IdentitiesReserved' /\ PagesSettled' /\ EventsSettled'
  BY DEF IInv, IdentitiesReserved, PagesSettled, EventsSettled, CreateSession
<1>3. \A r \in Settlements : OwnerGone(r)' <=> OwnerGone(r)
  BY DEF IInv, TypeOK, InstancesExist, CreateSession, OwnerGone
<1>4. HeldIsPersisted'
  BY <1>3 DEF IInv, TypeOK, HeldIsPersisted, CreateSession, IsCurrent, Scans
<1>5. AcknowledgedIsPersisted' /\ ErasureAfterSettlement'
  BY <1>3 DEF IInv, TypeOK, AcknowledgedIsPersisted, ErasureAfterSettlement, CreateSession
<1>6. QED
  BY <1>1, <1>2, <1>3, <1>4, <1>5 DEF IInv

-----------------------------------------------------------------------------
(* Scanners. *)

(* Scanner p goes on without holding a persisted row. *)
Moved(p) ==
    /\ scan' = [scan EXCEPT ![p] = scan'[p]]
    /\ scan'[p] \in Scans
    /\ scan'[p].at \notin {"ack", "fan_out"}
    /\ \A r \in scan'[p].page : row[r].status \in {"pending", "published"}
    /\ cursor' \in [Scanners -> Cursors]

(* A scanner that moves on, and leaves the stores alone, keeps the         *)
(* invariant.                                                              *)
LEMMA MovedStep ==
    ASSUME NEW p \in Scanners, IInv, Moved(p), crashes' \in 0..MaxCrashes,
           UNCHANGED <<live, instance, identities, row, event>>
    PROVE  IInv'
<1> USE PublicationConstants
<1>1. scan' \in [Scanners -> Scans] /\ \A q \in Scanners : q # p => scan'[q] = scan[q]
  BY DEF IInv, TypeOK, Moved
<1>2. TypeOK'
  BY <1>1 DEF IInv, TypeOK, Moved
<1>3. InstancesExist' /\ IdentitiesReserved' /\ EventsSettled'
  BY DEF IInv, InstancesExist, IdentitiesReserved, EventsSettled
<1>4. PagesSettled'
  BY <1>1 DEF IInv, PagesSettled, Moved
<1>5. HeldIsPersisted'
  <2> SUFFICES ASSUME NEW q \in Scanners, NEW r \in scan'[q].page,
                      scan'[q].at \in {"ack", "fan_out"}, IsCurrent(q, r)'
               PROVE  (event[r] # "absent" \/ OwnerGone(r))'
    BY DEF HeldIsPersisted
  <2>1. q # p /\ scan'[q] = scan[q]
    BY <1>1 DEF Moved
  <2>2. QED
    BY <2>1 DEF IInv, HeldIsPersisted, IsCurrent, OwnerGone
<1>6. AcknowledgedIsPersisted' /\ ErasureAfterSettlement'
  BY DEF IInv, AcknowledgedIsPersisted, ErasureAfterSettlement, OwnerGone
<1>7. QED
  BY <1>2, <1>3, <1>4, <1>5, <1>6 DEF IInv

(* The ways a scanner moves on: an error, the next row, another place. *)
LEMMA AbortMoves ==
    ASSUME NEW p \in Scanners, IInv, Abort(p) PROVE Moved(p)
BY PublicationConstants DEF IInv, TypeOK, Abort, Moved, Idle, Scans, Places, Cursors

(* See AbortMoves. *)
LEMMA AdvanceMoves ==
    ASSUME NEW p \in Scanners, NEW r \in Settlements, IInv, Advance(p, r) PROVE Moved(p)
<1> USE PublicationConstants
<1> DEFINE rest == scan[p].page \ {r}
           done == rest = {} /\ IsGlobal(p) /\ scan[p].pages >= MaxPages
           place == IF rest = {} THEN "list" ELSE FirstPlace(p)
           moved == [scan[p] EXCEPT !.page = rest, !.after = r, !.at = place]
<1>1. scan' = [scan EXCEPT ![p] = IF done THEN Idle ELSE moved]
  BY DEF Advance
<1>2. Idle \in Scans /\ Idle.at = "idle" /\ Idle.page = {}
  BY DEF Idle, Scans, Places, Cursors
<1>3. place \in {"list", "load", "auth"}
  BY DEF FirstPlace
<1>4. scan[p] \in Scans /\ scan \in [Scanners -> Scans]
  BY DEF IInv, TypeOK
<1>5. moved \in Scans /\ moved.at = place /\ moved.page = rest
  BY <1>3, <1>4 DEF Scans, Places, Cursors
<1>6. scan'[p] = IF done THEN Idle ELSE moved
  BY <1>1, <1>4
<1>7. \A q \in rest : row[q].status \in {"pending", "published"}
  BY DEF IInv, PagesSettled
<1>8. cursor' \in [Scanners -> Cursors]
  BY DEF Advance, IInv, TypeOK, Cursors
<1> HIDE DEF rest, done, place, moved
<1>9. QED
  BY <1>1, <1>2, <1>3, <1>5, <1>6, <1>7, <1>8 DEF Moved

(* See AbortMoves. *)
LEMMA GoToMoves ==
    ASSUME NEW p \in Scanners, NEW place \in Places \ {"ack", "fan_out"},
           IInv, GoTo(p, place), UNCHANGED cursor
    PROVE  Moved(p)
BY DEF IInv, TypeOK, PagesSettled, GoTo, Moved, Scans, Places

(* A scan begins. *)
LEMMA StartStep == \A p \in Scanners : IInv /\ StartScan(p) => IInv'
<1> SUFFICES ASSUME NEW p \in Scanners, IInv, StartScan(p) PROVE IInv'
  OBVIOUS
<1> DEFINE started == [at |-> "list", after |-> cursor[p], page |-> {}, pages |-> 0]
<1>0. /\ scan \in [Scanners -> Scans] /\ cursor \in [Scanners -> Cursors]
      /\ scan' = [scan EXCEPT ![p] = started] /\ cursor' = cursor
  BY DEF IInv, TypeOK, StartScan
<1>a. started \in Scans /\ started.at = "list" /\ started.page = {}
  BY <1>0, PublicationConstants DEF Scans, Places
<1>b. scan'[p] = started
  BY <1>0
<1>1. Moved(p)
  <2> HIDE DEF started
  <2> QED BY <1>0, <1>a, <1>b DEF Moved
<1>2. QED
  BY <1>1, MovedStep DEF StartScan, IInv, TypeOK

(* A page holds pending rows only. *)
LEMMA ListStep == \A p \in Scanners : IInv /\ ListPage(p) => IInv'
<1> USE PublicationConstants
<1> SUFFICES ASSUME NEW p \in Scanners, IInv, ListPage(p) PROVE IInv'
  OBVIOUS
<1>1. Moved(p)
  <2>0. scan[p] \in Scans /\ scan \in [Scanners -> Scans] /\ cursor \in [Scanners -> Cursors]
    BY DEF IInv, TypeOK
  <2>1. CASE Page(p, scan[p].after) = {}
    BY <2>0, <2>1 DEF ListPage, Moved, Idle, Scans, Places, Cursors
  <2>2. CASE Page(p, scan[p].after) # {}
    <3>1. /\ Page(p, scan[p].after) \in SUBSET Settlements
          /\ \A r \in Page(p, scan[p].after) : row[r].status = "pending"
      BY DEF Page, PendingAfter
    <3>2. FirstPlace(p) \in {"load", "auth"}
      BY DEF FirstPlace
    <3>3. scan' = [scan EXCEPT ![p] = Listed(p)] /\ UNCHANGED cursor
      BY <2>2 DEF ListPage
    <3>4. /\ Listed(p) \in Scans
          /\ Listed(p).at = FirstPlace(p)
          /\ Listed(p).page = Page(p, scan[p].after)
      BY <2>0, <3>1, <3>2 DEF Scans, Places, Listed
    <3>5. scan'[p] = Listed(p)
      BY <2>0, <3>3
    <3>6. QED
      BY <2>0, <3>1, <3>2, <3>3, <3>4, <3>5 DEF Moved
  <2>3. QED
    BY <2>1, <2>2
<1>2. QED
  BY <1>1, MovedStep DEF ListPage, IInv, TypeOK

(* The steps of a scanner at a row that touch neither store. *)
LEMMA LookStep ==
    \A p \in Scanners, r \in Settlements :
        IInv /\ IsCurrent(p, r)
             /\ (LoadOwner(p, r) \/ Authenticate(p, r) \/ RecheckOwner(p, r))
        => IInv'
<1> SUFFICES ASSUME NEW p \in Scanners, NEW r \in Settlements, IInv, IsCurrent(p, r),
                    LoadOwner(p, r) \/ Authenticate(p, r) \/ RecheckOwner(p, r)
             PROVE  IInv'
  OBVIOUS
<1>1. /\ UNCHANGED <<live, instance, identities, row, event>>
      /\ crashes' \in 0..MaxCrashes
  BY DEF LoadOwner, Authenticate, RecheckOwner, IInv, TypeOK
<1>2. \/ Abort(p)
      \/ Advance(p, r)
      \/ GoTo(p, "auth") /\ UNCHANGED cursor
      \/ GoTo(p, "persist") /\ UNCHANGED cursor
  BY DEF LoadOwner, Authenticate, RecheckOwner
<1>3. Moved(p)
  BY <1>2, AbortMoves, AdvanceMoves, GoToMoves DEF Places
<1>4. QED
  BY <1>1, <1>3, MovedStep

(* The audit event is appended: rows only gain events. *)
LEMMA PersistStep ==
    \A p \in Scanners, r \in Settlements :
        IInv /\ IsCurrent(p, r) /\ Persist(p, r) => IInv'
<1> USE PublicationConstants
<1> SUFFICES ASSUME NEW p \in Scanners, NEW r \in Settlements, IInv, IsCurrent(p, r),
                    Persist(p, r)
             PROVE  IInv'
  OBVIOUS
<1>1. CASE Owner[r] \notin live
  <2>1. Moved(p)
    BY <1>1, AbortMoves, GoToMoves DEF Persist, Places
  <2>2. QED
    BY <1>1, <2>1, MovedStep DEF Persist, IInv, TypeOK
<1>2. CASE Owner[r] \in live
  <2>1. /\ event' = [event EXCEPT ![r] = IF @ = "absent" THEN "pending" ELSE @]
        /\ scan' = [scan EXCEPT ![p].at = "ack"]
        /\ UNCHANGED <<live, instance, identities, row, cursor, crashes>>
    BY <1>2 DEF Persist, GoTo
  <2>2. /\ event' \in [Settlements -> EventStatuses]
        /\ event'[r] # "absent"
        /\ \A q \in Settlements : event[q] # "absent" => event'[q] # "absent"
        /\ \A q \in Settlements \ {r} : event'[q] = event[q]
    BY <2>1 DEF IInv, TypeOK, EventStatuses
  <2>3. /\ scan' \in [Scanners -> Scans]
        /\ scan'[p].at = "ack"
        /\ \A q \in Scanners : scan'[q].page = scan[q].page
        /\ \A q \in Scanners \ {p} : scan'[q] = scan[q]
    <3>1. scan \in [Scanners -> Scans] /\ p \in Scanners
      BY DEF IInv, TypeOK
    <3>2. /\ [scan[p] EXCEPT !.at = "ack"] \in Scans
          /\ [scan[p] EXCEPT !.at = "ack"].at = "ack"
          /\ [scan[p] EXCEPT !.at = "ack"].page = scan[p].page
      BY <3>1 DEF Scans, Places
    <3>3. scan' = [scan EXCEPT ![p] = [scan[p] EXCEPT !.at = "ack"]]
      BY <2>1, <3>1
    <3> QED BY <3>1, <3>2, <3>3
  <2>4. TypeOK' /\ InstancesExist' /\ IdentitiesReserved' /\ PagesSettled'
    BY <2>1, <2>2, <2>3 DEF IInv, TypeOK, InstancesExist, IdentitiesReserved, PagesSettled
  <2>5. EventsSettled'
    BY <2>1, <2>2 DEF IInv, EventsSettled, PagesSettled, IsCurrent
  <2>6. HeldIsPersisted'
    <3> SUFFICES ASSUME NEW q \in Scanners, NEW t \in scan'[q].page,
                        scan'[q].at \in {"ack", "fan_out"}, IsCurrent(q, t)'
                 PROVE  (event[t] # "absent" \/ OwnerGone(t))'
      BY DEF HeldIsPersisted
    <3>0. t \in Settlements
      BY <2>3 DEF Scans
    <3>1. CASE q = p
      <4>1. t <= r /\ r <= t /\ t \in Nat /\ r \in Nat
        BY <2>3, <3>0, <3>1 DEF IsCurrent
      <4>2. QED BY <2>2, <4>1
    <3>2. CASE q # p
      BY <2>1, <2>2, <2>3, <3>0, <3>2 DEF IInv, HeldIsPersisted, IsCurrent, OwnerGone
    <3>3. QED BY <3>1, <3>2
  <2>7. AcknowledgedIsPersisted' /\ ErasureAfterSettlement'
    BY <2>1, <2>2 DEF IInv, TypeOK, AcknowledgedIsPersisted, ErasureAfterSettlement, OwnerGone
  <2>8. QED
    BY <2>4, <2>5, <2>6, <2>7 DEF IInv
<1>3. QED
  BY <1>1, <1>2

(* The row that is acknowledged is the one whose event was persisted.      *)
LEMMA AcknowledgeStep ==
    \A p \in Scanners, r \in Settlements :
        IInv /\ IsCurrent(p, r) /\ Acknowledge(p, r) => IInv'
<1> USE PublicationConstants
<1> SUFFICES ASSUME NEW p \in Scanners, NEW r \in Settlements, IInv, IsCurrent(p, r),
                    Acknowledge(p, r)
             PROVE  IInv'
  OBVIOUS
<1>1. /\ scan[p].at = "ack"
      /\ row' = [row EXCEPT ![r].status = "published"]
      /\ scan' = [scan EXCEPT ![p].at = "fan_out"]
      /\ UNCHANGED <<live, instance, identities, event, cursor, crashes>>
  BY DEF Acknowledge, GoTo
<1>2. /\ row' \in [Settlements -> [status : RowStatuses, instance : 0..MaxIncarnations]]
      /\ \A q \in Settlements : row'[q].instance = row[q].instance
      /\ row'[r].status = "published"
      /\ \A q \in Settlements \ {r} : row'[q].status = row[q].status
  BY <1>1 DEF IInv, TypeOK, RowStatuses
<1>3. /\ scan' \in [Scanners -> Scans]
      /\ \A q \in Scanners : scan'[q].page = scan[q].page
      /\ \A q \in Scanners : scan'[q].at = IF q = p THEN "fan_out" ELSE scan[q].at
  BY <1>1 DEF IInv, TypeOK, Scans, Places
<1>4. event[r] # "absent" \/ OwnerGone(r)
  BY <1>1 DEF IInv, HeldIsPersisted, IsCurrent
<1>5. TypeOK' /\ InstancesExist' /\ IdentitiesReserved' /\ PagesSettled' /\ EventsSettled'
  BY <1>1, <1>2, <1>3 DEF IInv, TypeOK, InstancesExist, IdentitiesReserved, PagesSettled,
     EventsSettled, Scans
<1>6. \A q \in Settlements : OwnerGone(q)' <=> OwnerGone(q)
  BY <1>1, <1>2 DEF OwnerGone
<1>7. HeldIsPersisted'
  <2> SUFFICES ASSUME NEW q \in Scanners, NEW t \in scan'[q].page,
                      scan'[q].at \in {"ack", "fan_out"}, IsCurrent(q, t)'
               PROVE  (event[t] # "absent" \/ OwnerGone(t))'
    BY DEF HeldIsPersisted
  <2>1. t \in Settlements /\ IsCurrent(q, t) /\ scan[q].at \in {"ack", "fan_out"}
    BY <1>1, <1>3 DEF IsCurrent, Scans
  <2>2. QED
    BY <1>1, <1>6, <2>1 DEF IInv, HeldIsPersisted, IsCurrent
<1>8. AcknowledgedIsPersisted' /\ ErasureAfterSettlement'
  BY <1>1, <1>2, <1>4, <1>6 DEF IInv, TypeOK, AcknowledgedIsPersisted, ErasureAfterSettlement
<1>9. QED
  BY <1>5, <1>7, <1>8 DEF IInv

(* Fanning out changes how far an event is delivered, and moves on. *)
LEMMA FanOutStep ==
    \A p \in Scanners, r \in Settlements : IInv /\ FanOut(p, r) => IInv'
<1> USE PublicationConstants
<1> SUFFICES ASSUME NEW p \in Scanners, NEW r \in Settlements, IInv, FanOut(p, r)
             PROVE  IInv'
  OBVIOUS
<1>1. Moved(p)
  BY AbortMoves, AdvanceMoves DEF FanOut
<1>2. /\ event' \in [Settlements -> EventStatuses]
      /\ \A q \in Settlements : event'[q] = "absent" <=> event[q] = "absent"
      /\ UNCHANGED <<live, instance, identities, row, crashes>>
  BY DEF IInv, TypeOK, FanOut, EventStatuses
<1>3. scan' \in [Scanners -> Scans] /\ \A q \in Scanners : q # p => scan'[q] = scan[q]
  BY <1>1 DEF IInv, TypeOK, Moved
<1>4. TypeOK' /\ InstancesExist' /\ IdentitiesReserved'
  BY <1>1, <1>2, <1>3 DEF IInv, TypeOK, Moved, InstancesExist, IdentitiesReserved
<1>5. PagesSettled' /\ EventsSettled'
  BY <1>1, <1>2, <1>3 DEF IInv, PagesSettled, EventsSettled, Moved
<1>6. HeldIsPersisted'
  <2> SUFFICES ASSUME NEW q \in Scanners, NEW t \in scan'[q].page,
                      scan'[q].at \in {"ack", "fan_out"}, IsCurrent(q, t)'
               PROVE  (event[t] # "absent" \/ OwnerGone(t))'
    BY DEF HeldIsPersisted
  <2>1. q # p /\ scan'[q] = scan[q] /\ t \in Settlements
    BY <1>1, <1>3 DEF Moved, Scans
  <2>2. QED
    BY <1>2, <2>1 DEF IInv, HeldIsPersisted, IsCurrent, OwnerGone
<1>7. AcknowledgedIsPersisted' /\ ErasureAfterSettlement'
  BY <1>2 DEF IInv, TypeOK, AcknowledgedIsPersisted, ErasureAfterSettlement, OwnerGone
<1>8. QED
  BY <1>4, <1>5, <1>6, <1>7 DEF IInv

(* A crash forgets a scan. *)
LEMMA CrashStep == \A p \in Scanners : IInv /\ Crash(p) => IInv'
<1> SUFFICES ASSUME NEW p \in Scanners, IInv, Crash(p) PROVE IInv'
  OBVIOUS
<1>1. Moved(p)
  BY PublicationConstants DEF IInv, TypeOK, Crash, Moved, Idle, Scans, Places, Cursors
<1>2. crashes' \in 0..MaxCrashes
  BY PublicationConstants DEF IInv, TypeOK, Crash
<1>3. QED
  BY <1>1, <1>2, MovedStep DEF Crash

-----------------------------------------------------------------------------
(* The invariant is inductive. *)
LEMMA NextIInv == IInv /\ [Next]_vars => IInv'
<1> SUFFICES ASSUME IInv, [Next]_vars PROVE IInv'
  OBVIOUS
<1>1. CASE UNCHANGED vars
  BY <1>1 DEF vars, IInv, TypeOK, InstancesExist, IdentitiesReserved, PagesSettled,
     EventsSettled, HeldIsPersisted, AcknowledgedIsPersisted, ErasureAfterSettlement,
     IsCurrent, OwnerGone
<1>2. CASE \E r \in Settlements : Reserve(r) \/ ClaimIdentity(r) \/ Post(r) \/ Deliver(r)
  BY <1>2, ReserveStep, ClaimStep, PostStep, DeliverStep
<1>3. CASE \E s \in Sessions : DeleteSession(s) \/ CreateSession(s)
  BY <1>3, DeleteStep, CreateStep
<1>4. CASE \E p \in Scanners : StartScan(p) \/ ScanStep(p) \/ Crash(p)
  <2>1. PICK p \in Scanners : StartScan(p) \/ ScanStep(p) \/ Crash(p)
    BY <1>4
  <2>2. CASE StartScan(p) \/ ListPage(p) \/ Crash(p)
    BY <2>2, StartStep, ListStep, CrashStep
  <2>3. CASE \E r \in Settlements : RowStep(p, r)
    BY <2>3, LookStep, PersistStep, AcknowledgeStep, FanOutStep DEF RowStep
  <2>4. QED
    BY <2>1, <2>2, <2>3 DEF ScanStep
<1>5. QED
  BY <1>1, <1>2, <1>3, <1>4 DEF Next

(* Every reachable state satisfies the invariant. *)
THEOREM PublicationInvariant == Spec => []IInv
BY InitIInv, NextIInv, PTL DEF Spec

(* Types: the cursors a process keeps are rows of the outbox. *)
THEOREM PublicationTypes == Spec => []TypeOK
<1>1. IInv => TypeOK
  BY DEF IInv
<1>2. QED
  BY <1>1, PublicationInvariant, PTL

(* publish_budget_settlement: persisted before acknowledged, whatever      *)
(* crashes, scans or is deleted meanwhile.                                 *)
THEOREM AcknowledgedOnlyWhenPersisted == Spec => []AcknowledgedIsPersisted
<1>1. IInv => AcknowledgedIsPersisted
  BY DEF IInv
<1>2. QED
  BY <1>1, PublicationInvariant, PTL

(* delete_session never erases a session with an open, claimed reservation.*)
THEOREM ErasureWaitsForSettlement == Spec => []ErasureAfterSettlement
<1>1. IInv => ErasureAfterSettlement
  BY DEF IInv
<1>2. QED
  BY <1>1, PublicationInvariant, PTL
=============================================================================
