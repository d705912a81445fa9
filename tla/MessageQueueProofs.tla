------------------------- MODULE MessageQueueProofs -------------------------
(***************************************************************************)
(* Proofs about the queue of a session: for any messages, any batch limit  *)
(* and any number of steps, runs, losses and faults.                       *)
(*                                                                         *)
(* Every step moves at most one coroutine.  RunsKept says what that means  *)
(* for the others: either the epoch moved on and they are fenced, or the   *)
(* one that moved is the owner, or nothing that they know has changed.     *)
(* RunMoves is for the steps that leave the queue alone, RunAppends for    *)
(* those that write an entry of their own.  A delivery is taken apart into *)
(* the batch (BatchFacts), the rows and the transcript that it leaves      *)
(* (DeliveredRows, DeliveredTranscript) and the properties of the queue    *)
(* that follow (DeliveredQueue).                                           *)
(***************************************************************************)
EXTENDS MessageQueue, FiniteSetTheorems, TLAPS

-----------------------------------------------------------------------------
(* The inductive invariant *)

RunRecords ==
    [at : Points, epoch : Nat, interaction : Nat, step : 0..MaxSteps, seen : Seq(Entries),
     call : Calls]
ReceiptRecords == [id : Nat \X Nat, taken : Seq(Messages), through : Keys, more : BOOLEAN]
Present == {m \in Messages : rows[m].status # "absent"}

(* The keys of the queue were given out by counting, and every message     *)
(* that was accepted has a mode.                                           *)
KeysInv ==
    \A m \in Messages : /\ rows[m].key <= Cardinality(Present)
                        /\ rows[m].status # "absent" => rows[m].mode # "none"

(* The epoch has one run. *)
OneOwner ==
    \A p, q \in Coroutines :
       runs[p].at # "idle" /\ runs[q].at # "idle" /\ Owns(p) /\ Owns(q) => p = q

(* A run that is still to be admitted has not started. *)
FreshInv == \A p \in Runs : p > admitted => runs[p].at = "idle"

(* The call that a run r makes, and the receipt c that the store has of it: *)
(* an interaction is started when there was input and only then, a drain at *)
(* the step limit takes none, and a receipt is that of the call under way.  *)
CallOK(r, c) ==
    /\ r.at \in {"loading", "deliver", "retry", "model", "settle", "commit"} => r.interaction > 0
    /\ r.at \in {"deliver", "retry"} =>
          /\ r.call.next = IF r.call.started THEN r.interaction ELSE r.interaction + 1
          /\ ~r.call.started => r.call.idle
          /\ RejectOnly(r) => ~r.call.grew
    /\ c # NoReceipt =>
          /\ r.at \in {"retry", "failed"}
          /\ c.id = DeliveryId(r)
          /\ RejectOnly(r) => c.taken = <<>>
CallInv == \A p \in Coroutines : CallOK(runs[p], receipts[p])

(* What the run that owns the epoch knows of the transcript: all of it but *)
(* the delivery whose answer was lost.  And the transcript does not end in *)
(* a tool round where the run may have queued input delivered.             *)
Quiet(entries) == entries # <<>> => entries[Len(entries)] # "tools"
SeenOK(r, c, profile, entries) ==
    /\ r.at = "loading" => r.interaction = profile
    /\ r.at \in {"model", "settle", "commit"} => r.seen = entries /\ r.interaction = profile
    /\ r.at \in {"deliver", "retry"} =>
          /\ entries = r.seen \o c.taken
          /\ profile = IF c.taken # <<>> THEN r.call.next ELSE r.interaction
    /\ r.at \in {"loading", "deliver", "retry", "settle", "commit"} => Quiet(entries)
SeenInv ==
    \A p \in Coroutines :
       Owns(p) /\ runs[p].at # "idle"
       => SeenOK(runs[p], receipts[p], session.profile, transcript)

QueueInv ==
    /\ TypeOK /\ KeysInv /\ OneOwner /\ FreshInv /\ CallInv /\ SeenInv
    /\ NoneLeftBehind /\ NoOvertaking /\ DeliveredInPlace /\ TurnsUndivided

-----------------------------------------------------------------------------
(* What the types say, and how they are kept *)

Sessions ==
    [status : {"pending", "running", "interrupting", "interrupted", "completed", "failed"},
     epoch : Nat, profile : Nat, settled : BOOLEAN]
Rows ==
    [status : {"absent", "queued", "delivered", "withdrawn", "stale", "expired"},
     mode : {"none", "next_turn", "on_idle"}, key : Keys, at : Nat,
     target : [epoch : Nat, cursor : Nat]]

LEMMA Numbers ==
    /\ Limit \in Nat /\ Limit > 0 /\ MaxSteps \in Nat /\ MaxSteps > 0
    /\ MaxRuns \in Nat /\ MaxLost \in Nat /\ MaxFaults \in Nat
    /\ Cardinality(Messages) \in Nat /\ Keys \subseteq Nat /\ 0 \in Keys
    /\ 0 \in Coroutines /\ Runs \subseteq Coroutines
  BY QueueConstants, FS_CardinalityType DEF QueueConstants, Keys, Coroutines, Runs, Recovery

(* No message looks like another entry of the transcript. *)
LEMMA MessagesApart ==
    /\ "input" \notin Messages /\ "tools" \notin Messages /\ "answer" \notin Messages
    /\ "input" \in Entries /\ "tools" \in Entries /\ "answer" \in Entries
    /\ Messages \subseteq Entries
  BY QueueConstants DEF QueueConstants, Entries

LEMMA Types ==
    ASSUME TypeOK
    PROVE  /\ session \in Sessions
           /\ transcript \in Seq(Entries) /\ Len(transcript) \in Nat
           /\ rows \in [Messages -> Rows]
           /\ \A m \in Messages : rows[m].at <= Len(transcript)
           /\ receipts \in [Coroutines -> ReceiptRecords]
           /\ runs \in [Coroutines -> RunRecords]
           /\ \A p \in Coroutines : runs[p].epoch <= session.epoch
  <1>1. /\ session \in Sessions /\ transcript \in Seq(Entries)
        /\ receipts \in [Coroutines -> ReceiptRecords] /\ Len(transcript) \in Nat
    BY DEF TypeOK, Sessions, ReceiptRecords
  <1>2. rows \in [Messages -> Rows] /\ \A m \in Messages : rows[m].at <= Len(transcript)
    BY <1>1 DEF TypeOK, Rows
  <1>3. /\ runs \in [Coroutines -> RunRecords]
        /\ \A p \in Coroutines : runs[p].epoch <= session.epoch
    BY <1>1 DEF TypeOK, RunRecords, Sessions
  <1> QED BY <1>1, <1>2, <1>3

LEMMA Typed ==
    ASSUME session' \in Sessions, transcript' \in Seq(Entries), rows' \in [Messages -> Rows],
           \A m \in Messages : rows'[m].at <= Len(transcript'),
           lapsed' \subseteq Expiring,
           receipts' \in [Coroutines -> ReceiptRecords], runs' \in [Coroutines -> RunRecords],
           \A p \in Coroutines : runs'[p].epoch <= session'.epoch,
           admitted' \in 0..MaxRuns, lost' \in 0..MaxLost, faults' \in 0..MaxFaults
    PROVE  TypeOK'
  <1>1. rows' \in [Messages -> [status : {"absent", "queued", "delivered", "withdrawn", "stale",
                                        "expired"},
                              mode : {"none", "next_turn", "on_idle"}, key : Keys,
                              at : 0..Len(transcript'), target : [epoch : Nat, cursor : Nat]]]
    BY DEF Rows
  <1>2. runs' \in [Coroutines -> [at : Points, epoch : 0..session'.epoch, interaction : Nat,
                               step : 0..MaxSteps, seen : Seq(Entries), call : Calls]]
    BY DEF RunRecords, Sessions
  <1> QED BY <1>1, <1>2 DEF TypeOK, Sessions, ReceiptRecords

(* One coroutine moves. *)
LEMMA RunTyped ==
    ASSUME TypeOK, NEW p \in Coroutines, NEW r \in RunRecords, NEW c \in ReceiptRecords,
           runs' = [runs EXCEPT ![p] = r], receipts' = [receipts EXCEPT ![p] = c],
           session' \in Sessions, session.epoch <= session'.epoch, r.epoch <= session'.epoch
    PROVE  /\ receipts' \in [Coroutines -> ReceiptRecords] /\ runs' \in [Coroutines -> RunRecords]
           /\ \A q \in Coroutines : runs'[q].epoch <= session'.epoch
  <1>1. /\ receipts \in [Coroutines -> ReceiptRecords] /\ runs \in [Coroutines -> RunRecords]
        /\ \A q \in Coroutines : runs[q].epoch <= session.epoch
        /\ session \in Sessions
    BY Types
  <1>2. receipts' \in [Coroutines -> ReceiptRecords] /\ runs' \in [Coroutines -> RunRecords]
    BY <1>1
  <1>3. \A q \in Coroutines : runs'[q] = IF q = p THEN r ELSE runs[q]
    BY <1>1
  <1>4. \A q \in Coroutines : runs[q].epoch \in Nat
    BY <1>1 DEF RunRecords
  <1>5. session.epoch \in Nat /\ session'.epoch \in Nat
    BY <1>1 DEF Sessions
  <1>6. ASSUME NEW q \in Coroutines PROVE runs'[q].epoch <= session'.epoch
    BY <1>1, <1>3, <1>4, <1>5
  <1> QED BY <1>2, <1>6

(* The records that a coroutine starts and ends with. *)
LEMMA Blank ==
    /\ Idle \in RunRecords /\ Idle.at = "idle" /\ Idle.epoch = 0
    /\ NoReceipt \in ReceiptRecords /\ NoReceipt.taken = <<>> /\ NoReceipt.id = <<0, 0>>
    /\ NoDelivery \in Calls
    /\ CallOK(Idle, NoReceipt)
  <1>1. NoDelivery \in Calls
    BY Numbers DEF NoDelivery, Calls
  <1>2. Idle \in RunRecords /\ Idle.at = "idle" /\ Idle.epoch = 0
    BY <1>1, Numbers DEF Idle, RunRecords, Points
  <1>3. NoReceipt \in ReceiptRecords /\ NoReceipt.taken = <<>> /\ NoReceipt.id = <<0, 0>>
    BY Numbers DEF NoReceipt, ReceiptRecords
  <1>4. CallOK(Idle, NoReceipt)
    BY <1>2 DEF CallOK
  <1> QED BY <1>1, <1>2, <1>3, <1>4

-----------------------------------------------------------------------------
(* What a run does with its own record *)

LEMMA CallEdited ==
    ASSUME NEW c \in Calls, NEW next \in Nat
    PROVE  LET d == [c EXCEPT !.next = next, !.batch = 0, !.started = FALSE]
           IN /\ d \in Calls /\ d.next = next /\ d.started = FALSE
              /\ d.idle = c.idle /\ d.grew = c.grew
  BY DEF Calls

LEMMA ProposedIs ==
    ASSUME NEW r \in RunRecords
    PROVE  LET q == Proposed(r)
           IN /\ q \in RunRecords /\ q.at = "deliver" /\ q.epoch = r.epoch
              /\ q.interaction = r.interaction /\ q.step = r.step /\ q.seen = r.seen
              /\ q.call.next = r.interaction + 1 /\ q.call.started = FALSE
              /\ q.call.idle = r.call.idle /\ q.call.grew = r.call.grew
  <1> DEFINE c == r.call
             d == [c EXCEPT !.next = r.interaction + 1, !.batch = 0, !.started = FALSE]
             q == [[r EXCEPT !.at = "deliver"] EXCEPT !.call = d]
  <1>1. c \in Calls /\ r.interaction + 1 \in Nat
    BY DEF RunRecords
  <1>2. /\ d \in Calls /\ d.next = r.interaction + 1 /\ d.started = FALSE
        /\ d.idle = r.call.idle /\ d.grew = r.call.grew
    BY <1>1, CallEdited
  <1>3. Proposed(r) = q
    BY <1>1 DEF Proposed, RunRecords
  <1> HIDE DEF d
  <1>4. /\ q \in RunRecords /\ q.at = "deliver" /\ q.epoch = r.epoch
        /\ q.interaction = r.interaction /\ q.step = r.step /\ q.seen = r.seen
        /\ q.call = d
    BY <1>2 DEF RunRecords, Points
  <1> QED BY <1>2, <1>3, <1>4

LEMMA DrainOK ==
    ASSUME NEW r \in RunRecords, r.interaction > 0
    PROVE  /\ Drain(r) \in RunRecords /\ CallOK(Drain(r), NoReceipt)
           /\ Drain(r).at = "deliver" /\ Drain(r).epoch = r.epoch /\ Drain(r).seen = r.seen
           /\ Drain(r).interaction = r.interaction
  <1> DEFINE c == [NoDelivery EXCEPT !.idle = TRUE]
             q == [r EXCEPT !.call = c]
  <1>1. c \in Calls /\ c.idle = TRUE /\ c.grew = FALSE
    BY Numbers DEF NoDelivery, Calls
  <1> HIDE DEF c
  <1>2. /\ q \in RunRecords /\ q.epoch = r.epoch /\ q.interaction = r.interaction
        /\ q.step = r.step /\ q.seen = r.seen /\ q.call = c
    BY <1>1 DEF RunRecords
  <1>3. Drain(r) = Proposed(q)
    BY DEF Drain, c
  <1> HIDE DEF q
  <1>4. /\ Drain(r) \in RunRecords
        /\ Drain(r).at = "deliver" /\ Drain(r).epoch = r.epoch /\ Drain(r).seen = r.seen
        /\ Drain(r).interaction = r.interaction
        /\ Drain(r).call.next = r.interaction + 1 /\ Drain(r).call.started = FALSE
        /\ Drain(r).call.idle = TRUE /\ Drain(r).call.grew = FALSE
    BY <1>1, <1>2, <1>3, ProposedIs
  <1>5. CallOK(Drain(r), NoReceipt)
    BY <1>4 DEF CallOK
  <1> QED BY <1>4, <1>5

(* The answer to a delivery leads to another batch, to the model or to the *)
(* attempt to complete, and never beyond the steps of the run.             *)
LEMMA AnsweredOK ==
    ASSUME NEW r \in RunRecords, NEW c, CallOK(r, c), r.at \in {"deliver", "retry"},
           NEW b, b.taken \in Seq(Messages), b.through \in Keys, b.more \in BOOLEAN,
           RejectOnly(r) => b.taken = <<>>
    PROVE  LET a == Answered(r, b)
           IN /\ a \in RunRecords /\ CallOK(a, NoReceipt) /\ a.epoch = r.epoch
              /\ a.at \in {"deliver", "model", "commit"} /\ a.seen = r.seen \o b.taken
              /\ a.interaction = IF b.taken # <<>> THEN r.call.next ELSE r.interaction
  <1> DEFINE got == b.taken # <<>>
             d == [r.call EXCEPT !.through = b.through, !.started = @ \/ got, !.grew = @ \/ got]
             s == [r EXCEPT !.seen = @ \o b.taken, !.interaction = IF got THEN r.call.next ELSE @,
                            !.call = d]
             done == [s EXCEPT !.call = NoDelivery]
             Leads(a) == /\ a \in RunRecords /\ CallOK(a, NoReceipt) /\ a.epoch = r.epoch
                         /\ a.at \in {"deliver", "model", "commit"} /\ a.seen = r.seen \o b.taken
                         /\ a.interaction = IF got THEN r.call.next ELSE r.interaction
  <1>1. /\ r.epoch \in Nat /\ r.interaction \in Nat /\ r.step \in 0..MaxSteps
        /\ r.seen \in Seq(Entries) /\ r.call \in Calls /\ r.step \in Nat
    BY Numbers DEF RunRecords
  <1>2. /\ r.call.next \in Nat /\ r.call.batch \in Nat /\ r.call.started \in BOOLEAN
        /\ r.call.idle \in BOOLEAN /\ r.call.grew \in BOOLEAN
    BY <1>1 DEF Calls
  <1>3. got \in BOOLEAN
    OBVIOUS
  <1>4. /\ r.interaction > 0
        /\ r.call.next = IF r.call.started THEN r.interaction ELSE r.interaction + 1
        /\ ~r.call.started => r.call.idle
        /\ r.call.idle /\ r.step >= MaxSteps => ~r.call.grew /\ ~got
    BY DEF CallOK, RejectOnly
  <1>5. Answered(r, b) =
          CASE b.more /\ s.call.started -> [s EXCEPT !.at = "deliver", !.call.batch = @ + 1]
            [] b.more /\ ~s.call.started -> Proposed(s)
            [] ~b.more /\ ~s.call.idle -> [done EXCEPT !.at = "model"]
            [] ~b.more /\ s.call.idle /\ s.call.grew -> [done EXCEPT !.at = "model", !.step = @ + 1]
            [] OTHER -> [done EXCEPT !.at = "commit"]
    BY DEF Answered
  <1>6. r.seen \o b.taken \in Seq(Entries)
    BY <1>1, MessagesApart
  <1> HIDE DEF got
  <1>7. /\ d \in Calls /\ d.next = r.call.next /\ d.batch = r.call.batch
        /\ d.started = (r.call.started \/ got)
        /\ d.idle = r.call.idle /\ d.grew = (r.call.grew \/ got)
    BY <1>1, <1>2, <1>3 DEF Calls
  <1> HIDE DEF d
  <1>8. /\ s \in RunRecords /\ s.epoch = r.epoch /\ s.seen = r.seen \o b.taken
        /\ s.interaction = (IF got THEN r.call.next ELSE r.interaction)
        /\ s.step = r.step /\ s.call = d
    BY <1>1, <1>2, <1>6, <1>7 DEF RunRecords
  <1> HIDE DEF s
  <1>9. s.interaction \in Nat /\ s.interaction > 0
    BY <1>8, <1>2, <1>1, <1>4
  <1>10. CASE b.more /\ s.call.started
    <2> DEFINE e == [d EXCEPT !.batch = @ + 1]
               a == [[s EXCEPT !.at = "deliver"] EXCEPT !.call = e]
    <2>1. Answered(r, b) = a
      BY <1>5, <1>8, <1>10 DEF RunRecords
    <2>2. /\ e \in Calls /\ e.next = d.next /\ e.started = d.started
          /\ e.idle = d.idle /\ e.grew = d.grew
      BY <1>2, <1>7 DEF Calls
    <2> HIDE DEF e
    <2>3. /\ a \in RunRecords /\ a.epoch = s.epoch /\ a.seen = s.seen /\ a.at = "deliver"
          /\ a.interaction = s.interaction /\ a.step = s.step /\ a.call = e
      BY <1>8, <2>2 DEF RunRecords, Points
    <2> HIDE DEF a
    <2>4. CallOK(a, NoReceipt)
      BY <2>2, <2>3, <1>2, <1>3, <1>4, <1>7, <1>8, <1>9, <1>10 DEF CallOK, RejectOnly
    <2>5. Leads(a)
      BY <2>3, <2>4, <1>8
    <2> QED BY <2>1, <2>5 DEF got
  <1>11. CASE b.more /\ ~s.call.started
    <2> DEFINE a == Proposed(s)
    <2>1. Answered(r, b) = a
      BY <1>5, <1>11
    <2>2. /\ a \in RunRecords /\ a.at = "deliver" /\ a.epoch = s.epoch
          /\ a.interaction = s.interaction /\ a.step = s.step /\ a.seen = s.seen
          /\ a.call.next = s.interaction + 1 /\ a.call.started = FALSE
          /\ a.call.idle = s.call.idle /\ a.call.grew = s.call.grew
      BY <1>8, ProposedIs
    <2> HIDE DEF a
    <2>3. CallOK(a, NoReceipt)
      BY <2>2, <1>2, <1>3, <1>4, <1>7, <1>8, <1>9, <1>11 DEF CallOK, RejectOnly
    <2>4. Leads(a)
      BY <2>2, <2>3, <1>8
    <2> QED BY <2>1, <2>4 DEF got
  <1>12. CASE ~b.more
    <2>1. /\ done \in RunRecords /\ done.epoch = s.epoch /\ done.seen = s.seen
          /\ done.interaction = s.interaction /\ done.step = s.step
      BY <1>8, Blank DEF RunRecords
    <2> HIDE DEF done
    <2>2. CASE s.call.idle /\ s.call.grew
      <3> DEFINE a == [done EXCEPT !.at = "model", !.step = @ + 1]
      <3>1. Answered(r, b) = a
        BY <1>5, <1>12, <2>2
      <3>2. done.step + 1 \in 0..MaxSteps
        BY <2>1, <2>2, <1>1, <1>2, <1>3, <1>4, <1>7, <1>8, Numbers
      <3>3. /\ a \in RunRecords /\ a.epoch = s.epoch /\ a.seen = s.seen
            /\ a.interaction = s.interaction /\ a.at = "model"
        BY <2>1, <3>2 DEF RunRecords, Points
      <3> HIDE DEF a
      <3>4. CallOK(a, NoReceipt)
        BY <3>3, <1>9 DEF CallOK
      <3>5. Leads(a)
        BY <3>3, <3>4, <1>8
      <3> QED BY <3>1, <3>5 DEF got
    <2>3. CASE ~(s.call.idle /\ s.call.grew)
      <3>1. PICK at \in {"model", "commit"} : Answered(r, b) = [done EXCEPT !.at = at]
        BY <1>5, <1>12, <2>3
      <3> DEFINE a == [done EXCEPT !.at = at]
      <3>2. /\ a \in RunRecords /\ a.epoch = s.epoch /\ a.seen = s.seen
            /\ a.interaction = s.interaction /\ a.at = at
        BY <2>1 DEF RunRecords, Points
      <3> HIDE DEF a
      <3>3. CallOK(a, NoReceipt)
        BY <3>2, <1>9 DEF CallOK
      <3>4. Leads(a)
        BY <3>2, <3>3, <1>8
      <3> QED BY <3>1, <3>4 DEF got, a
    <2> QED BY <2>2, <2>3
  <1> QED BY <1>10, <1>11, <1>12

-----------------------------------------------------------------------------
(* What the other runs keep when one moves *)

LEMMA RunsKept ==
    ASSUME TypeOK, OneOwner, CallInv, SeenInv,
           NEW p \in Coroutines, NEW r \in RunRecords, NEW c \in ReceiptRecords,
           runs' = [runs EXCEPT ![p] = r], receipts' = [receipts EXCEPT ![p] = c],
           session' \in Sessions, CallOK(r, c),
           r.epoch = session'.epoch /\ r.at # "idle"
              => SeenOK(r, c, session'.profile, transcript'),
           \/ session'.epoch > session.epoch
           \/ /\ session'.epoch = session.epoch
              /\ UNCHANGED transcript /\ session'.profile = session.profile
              /\ \/ r.at = "idle" \/ r.epoch # session.epoch
                 \/ runs[p].at # "idle" /\ r.epoch = runs[p].epoch
           \/ session'.epoch = session.epoch /\ Owns(p) /\ runs[p].at # "idle"
    PROVE  OneOwner' /\ CallInv' /\ SeenInv'
  <1>1. /\ receipts \in [Coroutines -> ReceiptRecords] /\ runs \in [Coroutines -> RunRecords]
        /\ \A q \in Coroutines : runs[q].epoch <= session.epoch
        /\ session \in Sessions
    BY Types
  <1>2. /\ \A q \in Coroutines : runs[q].epoch \in Nat
        /\ session.epoch \in Nat /\ session'.epoch \in Nat
    BY <1>1 DEF RunRecords, Sessions
  <1>3. /\ \A q \in Coroutines : runs'[q] = IF q = p THEN r ELSE runs[q]
        /\ \A q \in Coroutines : receipts'[q] = IF q = p THEN c ELSE receipts[q]
    BY <1>1
  <1>4. CallInv'
    BY <1>3 DEF CallInv
  <1>5. ASSUME NEW q \in Coroutines, q # p, runs[q].at # "idle", runs[q].epoch = session'.epoch
        PROVE  /\ session'.epoch = session.epoch /\ Owns(q)
               /\ UNCHANGED transcript /\ session'.profile = session.profile
               /\ ~(r.at # "idle" /\ r.epoch = session'.epoch)
    <2>1. session'.epoch = session.epoch /\ Owns(q)
      BY <1>1, <1>2, <1>5 DEF Owns
    <2>2. ~(Owns(p) /\ runs[p].at # "idle")
      BY <2>1, <1>5 DEF OneOwner
    <2> QED BY <2>1, <2>2, <1>2 DEF Owns
  <1>6. OneOwner'
    BY <1>3, <1>5 DEF OneOwner, Owns
  <1>7. SeenInv'
    <2> SUFFICES ASSUME NEW q \in Coroutines, Owns(q)', runs'[q].at # "idle"
                 PROVE  SeenOK(runs'[q], receipts'[q], session'.profile, transcript')
      BY DEF SeenInv
    <2>1. CASE q = p
      BY <2>1, <1>3 DEF Owns
    <2>2. CASE q # p
      <3>1. runs[q].at # "idle" /\ runs[q].epoch = session'.epoch
        BY <2>2, <1>3 DEF Owns
      <3>2. SeenOK(runs[q], receipts[q], session.profile, transcript)
        BY <3>1, <1>5, <2>2 DEF SeenInv
      <3> QED BY <3>1, <3>2, <1>5, <1>3, <2>2
    <2> QED BY <2>1, <2>2
  <1> QED BY <1>4, <1>6, <1>7

LEMMA FreshKept ==
    ASSUME TypeOK, FreshInv, UNCHANGED admitted,
           NEW p \in Coroutines, NEW r \in RunRecords, runs' = [runs EXCEPT ![p] = r],
           runs[p].at # "idle" \/ r.at = "idle" \/ p = Recovery
    PROVE  FreshInv'
  <1>1. \A q \in Coroutines : runs'[q] = IF q = p THEN r ELSE runs[q]
    BY Types
  <1> QED BY <1>1, Numbers DEF FreshInv, Recovery, Runs

LEMMA QueueKept ==
    ASSUME KeysInv, NoOvertaking, DeliveredInPlace, TurnsUndivided, UNCHANGED <<transcript, rows>>
    PROVE  KeysInv' /\ NoOvertaking' /\ DeliveredInPlace' /\ TurnsUndivided' /\ Queued' = Queued
  BY DEF KeysInv, Present, NoOvertaking, Earlier, DeliveredInPlace, TurnsUndivided, Queued

(* A coroutine moves and the queue does not. *)
LEMMA RunMoves ==
    ASSUME QueueInv,
           NEW p \in Coroutines, NEW r \in RunRecords, NEW c \in ReceiptRecords,
           runs' = [runs EXCEPT ![p] = r], receipts' = [receipts EXCEPT ![p] = c],
           session' \in Sessions, CallOK(r, c), r.epoch <= session'.epoch,
           session'.status = "completed" => session.status = "completed" \/ Queued = {},
           r.epoch = session'.epoch /\ r.at # "idle"
              => SeenOK(r, c, session'.profile, transcript),
           \/ session'.epoch > session.epoch
           \/ /\ session'.epoch = session.epoch /\ session'.profile = session.profile
              /\ \/ r.at = "idle" \/ r.epoch # session.epoch
                 \/ runs[p].at # "idle" /\ r.epoch = runs[p].epoch,
           runs[p].at # "idle" \/ r.at = "idle" \/ p = Recovery,
           UNCHANGED <<queue, admitted>>, lost' \in 0..MaxLost, faults' \in 0..MaxFaults
    PROVE  QueueInv'
  <1>1. UNCHANGED <<transcript, rows, lapsed>> /\ admitted' \in 0..MaxRuns
    BY DEF queue, QueueInv, TypeOK
  <1>2. session.epoch \in Nat /\ session'.epoch \in Nat /\ session.epoch <= session'.epoch
    BY Types DEF QueueInv, Sessions
  <1>3. TypeOK'
    <2>1. /\ transcript \in Seq(Entries) /\ rows \in [Messages -> Rows]
          /\ \A m \in Messages : rows[m].at <= Len(transcript)
          /\ lapsed \subseteq Expiring
      BY Types DEF QueueInv, TypeOK
    <2>2. /\ receipts' \in [Coroutines -> ReceiptRecords] /\ runs' \in [Coroutines -> RunRecords]
          /\ \A q \in Coroutines : runs'[q].epoch <= session'.epoch
      BY <1>2, RunTyped DEF QueueInv
    <2> QED BY <1>1, <2>1, <2>2, Typed
  <1>4. OneOwner' /\ CallInv' /\ SeenInv'
    BY <1>1, RunsKept DEF QueueInv
  <1>7. FreshInv'
    BY FreshKept DEF QueueInv
  <1>5. KeysInv' /\ NoOvertaking' /\ DeliveredInPlace' /\ TurnsUndivided' /\ Queued' = Queued
    BY <1>1, QueueKept DEF QueueInv
  <1>6. NoneLeftBehind'
    BY <1>5 DEF QueueInv, NoneLeftBehind
  <1> QED BY <1>3, <1>4, <1>5, <1>6, <1>7 DEF QueueInv

(* An entry that is no message is appended to the transcript. *)
LEMMA EntryAppended ==
    ASSUME TypeOK, KeysInv, NoOvertaking, DeliveredInPlace, TurnsUndivided,
           NEW entry \in {"input", "tools", "answer"},
           transcript' = Append(transcript, entry), UNCHANGED rows
    PROVE  /\ KeysInv' /\ NoOvertaking' /\ DeliveredInPlace' /\ TurnsUndivided'
           /\ transcript' \in Seq(Entries) /\ Len(transcript') = Len(transcript) + 1
           /\ transcript'[Len(transcript')] = entry
           /\ \A m \in Messages : rows'[m].at <= Len(transcript')
  <1>1. /\ transcript \in Seq(Entries) /\ Len(transcript) \in Nat /\ rows \in [Messages -> Rows]
        /\ \A m \in Messages : rows[m].at <= Len(transcript)
    BY Types
  <1>2. entry \in Entries /\ entry \notin Messages
    BY MessagesApart
  <1>3. /\ transcript' \in Seq(Entries) /\ Len(transcript') = Len(transcript) + 1
        /\ \A i \in 1..Len(transcript) : transcript'[i] = transcript[i]
        /\ transcript'[Len(transcript')] = entry
    BY <1>1, <1>2
  <1>4. KeysInv' /\ NoOvertaking'
    BY DEF KeysInv, Present, NoOvertaking, Earlier
  <1>5. DeliveredInPlace'
    <2>1. ASSUME NEW m \in Messages
          PROVE  {i \in 1..Len(transcript') : transcript'[i] = m} =
                 {i \in 1..Len(transcript) : transcript[i] = m}
      BY <1>1, <1>2, <1>3
    <2> QED BY <2>1 DEF DeliveredInPlace
  <1>6. TurnsUndivided'
    BY <1>1, <1>2, <1>3 DEF TurnsUndivided
  <1>7. \A m \in Messages : rows[m].at \in Nat
    BY <1>1 DEF Rows
  <1> QED BY <1>1, <1>3, <1>4, <1>5, <1>6, <1>7

-----------------------------------------------------------------------------
(* The steps of the queue *)

LEMMA RunsUntouched ==
    ASSUME OneOwner, FreshInv, CallInv, SeenInv,
           UNCHANGED <<session, transcript, receipts, runs, admitted>>
    PROVE  OneOwner' /\ FreshInv' /\ CallInv' /\ SeenInv'
  BY DEF OneOwner, FreshInv, CallInv, SeenInv, Owns

LEMMA PresentCounted ==
    /\ IsFiniteSet(Present) /\ Cardinality(Present) \in Nat
    /\ Cardinality(Present) <= Cardinality(Messages)
    /\ NextKey = 1 + Cardinality(Present)
    /\ \A m \in Messages \ Present : Cardinality(Present) < Cardinality(Messages)
  <1>1. Present \in SUBSET Messages /\ IsFiniteSet(Messages)
    BY QueueConstants DEF QueueConstants, Present
  <1>2. /\ IsFiniteSet(Present) /\ Cardinality(Present) <= Cardinality(Messages)
        /\ Cardinality(Messages) = Cardinality(Present) => Messages = Present
    BY <1>1, FS_Subset
  <1>3. Cardinality(Present) \in Nat
    BY <1>2, FS_CardinalityType
  <1> QED BY <1>2, <1>3, Numbers DEF NextKey, Present

LEMMA EnqueueKeeps ==
    ASSUME QueueInv, NEW m \in Messages, Enqueue(m)
    PROVE  QueueInv'
  <1>1. /\ session \in Sessions /\ transcript \in Seq(Entries) /\ Len(transcript) \in Nat
        /\ rows \in [Messages -> Rows]
        /\ \A n \in Messages : rows[n].at <= Len(transcript)
        /\ receipts \in [Coroutines -> ReceiptRecords] /\ runs \in [Coroutines -> RunRecords]
        /\ \A p \in Coroutines : runs[p].epoch <= session.epoch
    BY Types DEF QueueInv
  <1>2. UNCHANGED <<session, transcript, lapsed, receipts, runs, admitted, lost, faults>>
    BY DEF Enqueue, counts
  <1>3. PICK mode \in Modes[m], cursor \in {Len(transcript), Len(transcript) + 1} :
           rows' = [rows EXCEPT ![m] =
                [status |-> "queued", mode |-> mode, key |-> NextKey, at |-> 0,
                 target |-> IF m \in Targeted THEN [epoch |-> session.epoch, cursor |-> cursor]
                            ELSE NoTarget]]
    BY DEF Enqueue
  <1> DEFINE row == [status |-> "queued", mode |-> mode, key |-> NextKey, at |-> 0,
                     target |-> IF m \in Targeted THEN [epoch |-> session.epoch, cursor |-> cursor]
                                ELSE NoTarget]
  <1>4. mode \in {"next_turn", "on_idle"}
    BY QueueConstants DEF QueueConstants
  <1>5. rows[m].status = "absent" /\ m \in Messages \ Present
    BY DEF Enqueue, Present
  <1>6. NextKey \in Keys /\ NextKey = 1 + Cardinality(Present) /\ Cardinality(Present) \in Nat
    BY <1>5, PresentCounted, Numbers DEF Keys
  <1>7. row \in Rows /\ row.status = "queued" /\ row.mode = mode /\ row.key = NextKey /\ row.at = 0
    <2>1. row.target \in [epoch : Nat, cursor : Nat]
      BY <1>1 DEF Sessions, NoTarget
    <2> QED BY <2>1, <1>4, <1>6 DEF Rows
  <1> HIDE DEF row
  <1>8. /\ rows' \in [Messages -> Rows]
        /\ \A n \in Messages : rows'[n] = IF n = m THEN row ELSE rows[n]
    BY <1>1, <1>3, <1>7 DEF row
  <1>9. TypeOK'
    <2>1. \A n \in Messages : rows'[n].at <= Len(transcript')
      BY <1>1, <1>2, <1>7, <1>8
    <2>2. /\ lapsed \subseteq Expiring
          /\ admitted \in 0..MaxRuns /\ lost \in 0..MaxLost /\ faults \in 0..MaxFaults
      BY DEF QueueInv, TypeOK
    <2> QED BY <2>1, <2>2, <1>1, <1>2, <1>8, Typed
  <1>10. KeysInv'
    <2>1. Present' = Present \cup {m}
      BY <1>5, <1>7, <1>8 DEF Present
    <2>2. Cardinality(Present') = Cardinality(Present) + 1
      BY <2>1, <1>5, PresentCounted, FS_AddElement
    <2>3. \A n \in Messages : rows[n].key \in Nat
      BY <1>1, Numbers DEF Rows
    <2>4. ASSUME NEW n \in Messages
          PROVE  /\ rows'[n].key <= Cardinality(Present')
                 /\ rows'[n].status # "absent" => rows'[n].mode # "none"
      BY <2>2, <2>3, <1>4, <1>6, <1>7, <1>8 DEF QueueInv, KeysInv
    <2> QED BY <2>4 DEF KeysInv
  <1>11. NoOvertaking'
    <2>1. \A n \in Messages : rows[n].key \in Nat /\ rows[n].key < NextKey
      <3>1. \A n \in Messages : rows[n].key \in Nat
        BY <1>1, Numbers DEF Rows
      <3>2. \A n \in Messages : rows[n].key <= Cardinality(Present)
        BY DEF QueueInv, KeysInv
      <3> QED BY <3>1, <3>2, <1>6
    <2>2. ASSUME NEW n \in Messages, NEW k \in Messages,
                 rows'[n].status = "delivered", rows'[k].key < rows'[n].key,
                 \/ rows'[k].status = "queued"
                 \/ rows'[k].status = "delivered" /\ rows'[k].at > rows'[n].at
          PROVE  rows'[k].mode = "on_idle" /\ rows'[n].mode = "next_turn"
      <3>1. n # m /\ k # m
        BY <2>1, <2>2, <1>6, <1>7, <1>8
      <3> QED BY <3>1, <2>2, <1>8 DEF QueueInv, NoOvertaking, Earlier
    <2> QED BY <2>2 DEF NoOvertaking, Earlier
  <1>12. DeliveredInPlace'
    BY <1>2, <1>5, <1>7, <1>8 DEF QueueInv, DeliveredInPlace
  <1>13. TurnsUndivided' /\ NoneLeftBehind'
    BY <1>2 DEF QueueInv, TurnsUndivided, NoneLeftBehind, Enqueue
  <1> QED BY <1>2, <1>9, <1>10, <1>11, <1>12, <1>13, RunsUntouched DEF QueueInv

LEMMA WithdrawKeeps ==
    ASSUME QueueInv, NEW m \in Messages, Withdraw(m)
    PROVE  QueueInv'
  <1>1. /\ session \in Sessions /\ transcript \in Seq(Entries) /\ Len(transcript) \in Nat
        /\ rows \in [Messages -> Rows]
        /\ \A n \in Messages : rows[n].at <= Len(transcript)
        /\ receipts \in [Coroutines -> ReceiptRecords] /\ runs \in [Coroutines -> RunRecords]
        /\ \A p \in Coroutines : runs[p].epoch <= session.epoch
    BY Types DEF QueueInv
  <1>2. /\ UNCHANGED <<session, transcript, lapsed, receipts, runs, admitted, lost, faults>>
        /\ rows' = [rows EXCEPT ![m].status = "withdrawn"] /\ rows[m].status = "queued"
    BY DEF Withdraw, counts, Queued
  <1> DEFINE row == [rows[m] EXCEPT !.status = "withdrawn"]
  <1>3. /\ row \in Rows /\ row.status = "withdrawn" /\ row.mode = rows[m].mode
        /\ row.key = rows[m].key /\ row.at = rows[m].at
    BY <1>1 DEF Rows
  <1>4. rows' = [rows EXCEPT ![m] = row]
    BY <1>2
  <1> HIDE DEF row
  <1>5. /\ rows' \in [Messages -> Rows]
        /\ \A n \in Messages : rows'[n] = IF n = m THEN row ELSE rows[n]
    BY <1>1, <1>3, <1>4
  <1>6. TypeOK'
    <2>1. \A n \in Messages : rows'[n].at <= Len(transcript')
      BY <1>1, <1>2, <1>3, <1>5
    <2>2. /\ lapsed \subseteq Expiring
          /\ admitted \in 0..MaxRuns /\ lost \in 0..MaxLost /\ faults \in 0..MaxFaults
      BY DEF QueueInv, TypeOK
    <2> QED BY <2>1, <2>2, <1>1, <1>2, <1>5, Typed
  <1>7. KeysInv'
    <2>1. Present' = Present
      BY <1>2, <1>3, <1>5 DEF Present
    <2> QED BY <2>1, <1>2, <1>3, <1>5 DEF QueueInv, KeysInv
  <1>8. NoOvertaking'
    BY <1>3, <1>5 DEF QueueInv, NoOvertaking, Earlier
  <1>9. DeliveredInPlace'
    BY <1>2, <1>3, <1>5 DEF QueueInv, DeliveredInPlace
  <1>10. TurnsUndivided' /\ NoneLeftBehind'
    BY <1>2, <1>3, <1>5 DEF QueueInv, TurnsUndivided, NoneLeftBehind, Queued
  <1> QED BY <1>2, <1>6, <1>7, <1>8, <1>9, <1>10, RunsUntouched DEF QueueInv

LEMMA LapseKeeps ==
    ASSUME QueueInv, NEW m \in Messages, Lapse(m)
    PROVE  QueueInv'
  <1>1. /\ UNCHANGED <<session, transcript, rows, receipts, runs, admitted, lost, faults>>
        /\ lapsed' \subseteq Expiring
    BY DEF QueueInv, TypeOK, Lapse, counts
  <1>2. TypeOK'
    BY <1>1 DEF QueueInv, TypeOK
  <1>3. KeysInv' /\ NoOvertaking' /\ DeliveredInPlace' /\ TurnsUndivided' /\ Queued' = Queued
    BY <1>1, QueueKept DEF QueueInv
  <1> QED BY <1>1, <1>2, <1>3, RunsUntouched DEF QueueInv, NoneLeftBehind

-----------------------------------------------------------------------------
(* The steps of a run that leave the queue alone *)

LEMMA Counted ==
    ASSUME QueueInv
    PROVE  admitted \in 0..MaxRuns /\ lost \in 0..MaxLost /\ faults \in 0..MaxFaults
  BY DEF QueueInv, TypeOK

LEMMA LostOrFault ==
    ASSUME QueueInv
    PROVE  /\ Lost => lost' \in 0..MaxLost
           /\ Fault => faults' \in 0..MaxFaults
  BY Counted, Numbers DEF Lost, Fault

LEMMA Run ==
    ASSUME QueueInv, NEW p \in Coroutines
    PROVE  /\ runs[p] \in RunRecords /\ receipts[p] \in ReceiptRecords
           /\ runs[p].epoch \in Nat /\ runs[p].interaction \in Nat /\ runs[p].step \in 0..MaxSteps
           /\ runs[p].seen \in Seq(Entries) /\ runs[p].call \in Calls
           /\ runs[p].epoch <= session.epoch /\ CallOK(runs[p], receipts[p])
           /\ receipts = [receipts EXCEPT ![p] = receipts[p]]
           /\ runs = [runs EXCEPT ![p] = runs[p]]
           /\ session \in Sessions /\ session.epoch \in Nat
           /\ runs[p].at \notin {"retry", "failed"} => receipts[p] = NoReceipt
  <1>1. /\ session \in Sessions /\ receipts \in [Coroutines -> ReceiptRecords]
        /\ runs \in [Coroutines -> RunRecords] /\ runs[p].epoch <= session.epoch
    BY Types DEF QueueInv
  <1>2. CallOK(runs[p], receipts[p])
    BY DEF QueueInv, CallInv
  <1>3. /\ runs[p] \in RunRecords /\ receipts[p] \in ReceiptRecords
        /\ receipts = [receipts EXCEPT ![p] = receipts[p]]
        /\ runs = [runs EXCEPT ![p] = runs[p]]
    BY <1>1
  <1>4. /\ runs[p].epoch \in Nat /\ runs[p].interaction \in Nat /\ runs[p].step \in 0..MaxSteps
        /\ runs[p].seen \in Seq(Entries) /\ runs[p].call \in Calls
    BY <1>3 DEF RunRecords
  <1>5. session.epoch \in Nat
    BY <1>1 DEF Sessions
  <1>6. runs[p].at \notin {"retry", "failed"} => receipts[p] = NoReceipt
    BY <1>2 DEF CallOK
  <1> QED BY <1>1, <1>2, <1>3, <1>4, <1>5, <1>6

LEMMA AtEdited ==
    ASSUME NEW r \in RunRecords, NEW at \in Points
    PROVE  LET q == [r EXCEPT !.at = at]
           IN /\ q \in RunRecords /\ q.at = at /\ q.epoch = r.epoch
              /\ q.interaction = r.interaction /\ q.step = r.step /\ q.seen = r.seen
              /\ q.call = r.call
  BY DEF RunRecords

(* The run only goes to another place, out of its turn or to a retry. *)
LEMMA Goes ==
    ASSUME QueueInv, NEW p \in Coroutines, NEW at \in {"interrupted", "limit", "retry", "failed"},
           runs[p].at # "idle", runs' = [runs EXCEPT ![p].at = at],
           at \in {"interrupted", "limit"} => receipts[p] = NoReceipt,
           at = "retry" => runs[p].at = "deliver",
           UNCHANGED <<session, queue, receipts, admitted>>,
           lost' \in 0..MaxLost, faults' \in 0..MaxFaults
    PROVE  QueueInv'
  <1> DEFINE r == [runs[p] EXCEPT !.at = at]
             c == receipts[p]
  <1>1. /\ r \in RunRecords /\ r.at = at /\ r.epoch = runs[p].epoch
        /\ r.interaction = runs[p].interaction /\ r.step = runs[p].step /\ r.seen = runs[p].seen
        /\ r.call = runs[p].call
    <2>1. at \in Points /\ runs[p] \in RunRecords
      BY Run DEF Points
    <2> QED BY <2>1, AtEdited
  <1>2. runs' = [runs EXCEPT ![p] = r] /\ receipts' = [receipts EXCEPT ![p] = c]
    BY Run
  <1> HIDE DEF r
  <1>3. CallOK(r, c)
    <2>1. CallOK(runs[p], c) /\ (RejectOnly(r) <=> RejectOnly(runs[p]))
          /\ DeliveryId(r) = DeliveryId(runs[p])
      BY <1>1, Run DEF RejectOnly, DeliveryId
    <2>2. c # NoReceipt => at = "failed"
      BY Run
    <2>3. CASE at = "retry"
      BY <2>1, <2>2, <2>3, <1>1 DEF CallOK
    <2>4. CASE at # "retry"
      BY <2>1, <2>2, <2>4, <1>1 DEF CallOK
    <2> QED BY <2>3, <2>4
  <1>4. ASSUME r.epoch = session.epoch
        PROVE  SeenOK(r, c, session.profile, transcript)
    <2>1. SeenOK(runs[p], c, session.profile, transcript)
      BY <1>1, <1>4 DEF QueueInv, SeenInv, Owns
    <2> QED BY <2>1, <1>1 DEF SeenOK
  <1>5. session' \in Sessions /\ r.epoch <= session'.epoch /\ c \in ReceiptRecords
    BY <1>1, Run
  <1> QED BY <1>1, <1>2, <1>3, <1>4, <1>5, Counted, RunMoves

(* The run is over, with a new epoch or as it is. *)
LEMMA Over ==
    ASSUME QueueInv, NEW p \in Coroutines, Ends(p), session' \in Sessions, UNCHANGED queue,
           session'.status = "completed" => session.status = "completed" \/ Queued = {},
           session' = session \/ session'.epoch > session.epoch,
           UNCHANGED <<admitted, lost>>, faults' \in 0..MaxFaults
    PROVE  QueueInv'
  <1>1. Idle \in RunRecords /\ Idle.at = "idle" /\ Idle.epoch = 0 /\ NoReceipt \in ReceiptRecords
        /\ CallOK(Idle, NoReceipt)
    BY Blank
  <1>2. session'.epoch \in Nat /\ session.epoch \in Nat
    BY Run DEF Sessions
  <1>3. /\ runs' = [runs EXCEPT ![p] = Idle] /\ receipts' = [receipts EXCEPT ![p] = NoReceipt]
        /\ Idle.epoch <= session'.epoch
    BY <1>1, <1>2 DEF Ends
  <1>4. lost' \in 0..MaxLost
    BY Counted
  <1>5. \/ session'.epoch > session.epoch
        \/ session'.epoch = session.epoch /\ session'.profile = session.profile
    OBVIOUS
  <1> QED BY <1>1, <1>3, <1>4, <1>5, RunMoves

LEMMA SettlesOver ==
    ASSUME QueueInv, NEW p \in Coroutines,
           NEW status \in {"completed", "interrupted", "failed"}, Settles(p, status),
           UNCHANGED <<queue, counts>>, status = "completed" => Queued = {}
    PROVE  QueueInv'
  <1>1. session \in Sessions
    BY Run
  <1>2. session' \in Sessions /\ session'.epoch = session.epoch + 1 /\ session'.status = status
    <2>1. session.epoch + 1 \in Nat /\ session' = [session EXCEPT !.status = status, !.epoch = @ + 1]
      BY Run DEF Settles
    <2> QED BY <2>1, <1>1 DEF Sessions
  <1>3. session'.epoch > session.epoch
    BY <1>2, Run
  <1> QED BY <1>2, <1>3, Counted, Over DEF Settles, counts

LEMMA NoticesKeeps ==
    ASSUME QueueInv, NEW p \in Coroutines, runs[p].at \in {"settle", "commit"}, Notices(p),
           UNCHANGED <<queue, counts>>
    PROVE  QueueInv'
  BY Goes, Run, Counted DEF Notices, counts

LEMMA LoadKeeps ==
    ASSUME QueueInv, NEW p \in Coroutines, Load(p)
    PROVE  QueueInv'
  <1>1. runs[p].at = "loading" /\ receipts[p] = NoReceipt
    BY Run DEF Load
  <1>2. CASE Interrupted
    BY <1>1, <1>2, Goes, Counted DEF Load, counts
  <1>3. CASE ~Interrupted
    <2> DEFINE call == [NoDelivery EXCEPT !.next = runs[p].interaction, !.started = TRUE]
               r == [runs[p] EXCEPT !.at = "deliver", !.seen = transcript, !.call = call]
    <2>1. /\ call \in Calls /\ call.next = runs[p].interaction /\ call.started = TRUE
          /\ call.idle = FALSE
      BY Run, Numbers DEF NoDelivery, Calls
    <2> HIDE DEF call
    <2>2. transcript \in Seq(Entries)
      BY Types DEF QueueInv
    <2>3. /\ r \in RunRecords /\ r.at = "deliver" /\ r.epoch = runs[p].epoch
          /\ r.interaction = runs[p].interaction /\ r.seen = transcript /\ r.call = call
      BY <2>1, <2>2, Run DEF RunRecords, Points
    <2>4. runs' = [runs EXCEPT ![p] = r] /\ receipts' = [receipts EXCEPT ![p] = NoReceipt]
      BY <1>1, <1>3, Run DEF Load, call
    <2> HIDE DEF r
    <2>5. CallOK(r, NoReceipt)
      BY <2>1, <2>3, <1>1, Run DEF CallOK, RejectOnly
    <2>6. ASSUME r.epoch = session.epoch
          PROVE  SeenOK(r, NoReceipt, session.profile, transcript)
      <3>1. runs[p].interaction = session.profile /\ Quiet(transcript)
        BY <1>1, <2>3, <2>6 DEF QueueInv, SeenInv, SeenOK, Owns
      <3>2. transcript \o <<>> = transcript
        BY <2>2
      <3> QED BY <3>1, <3>2, <2>3, Blank DEF SeenOK
    <2>7. session' \in Sessions /\ r.epoch <= session'.epoch /\ UNCHANGED <<session, queue, counts>>
      BY <2>3, Run DEF Load
    <2> QED BY <1>1, <2>3, <2>4, <2>5, <2>6, <2>7, Blank, Counted, RunMoves DEF counts
  <1> QED BY <1>2, <1>3

LEMMA DrainKeeps ==
    ASSUME QueueInv, NEW p \in Coroutines, runs[p].at \in {"settle", "commit"}, Owns(p),
           runs' = [runs EXCEPT ![p] = Drain(@)], UNCHANGED <<queue, counts, receipts>>,
           session' \in Sessions, session'.epoch = session.epoch,
           session'.profile = session.profile, session'.status = session.status
    PROVE  QueueInv'
  <1> DEFINE r == Drain(runs[p])
  <1>1. receipts[p] = NoReceipt /\ runs[p].interaction > 0
    BY Run DEF CallOK
  <1>2. /\ r \in RunRecords /\ CallOK(r, NoReceipt)
        /\ r.at = "deliver" /\ r.epoch = runs[p].epoch /\ r.seen = runs[p].seen
        /\ r.interaction = runs[p].interaction
    BY <1>1, DrainOK, Run
  <1>3. runs' = [runs EXCEPT ![p] = r] /\ receipts' = [receipts EXCEPT ![p] = NoReceipt]
    BY <1>1, Run
  <1> HIDE DEF r
  <1>4. SeenOK(r, NoReceipt, session.profile, transcript)
    <2>1. /\ runs[p].seen = transcript /\ runs[p].interaction = session.profile
          /\ Quiet(transcript)
      BY DEF QueueInv, SeenInv, SeenOK
    <2>2. transcript \o <<>> = transcript
      BY Types DEF QueueInv
    <2> QED BY <2>1, <2>2, <1>2, Blank DEF SeenOK
  <1>5. r.epoch <= session'.epoch
    BY <1>2, Run
  <1> QED BY <1>2, <1>3, <1>4, <1>5, Blank, Counted, RunMoves DEF counts

LEMMA SettleKeeps ==
    ASSUME QueueInv, NEW p \in Coroutines, Settle(p)
    PROVE  QueueInv'
  <1>1. CASE Queued = {} /\ Settles(p, "completed")
    BY <1>1, SettlesOver DEF Settle
  <1>2. CASE /\ session' = [session EXCEPT !.settled = TRUE]
             /\ runs' = [runs EXCEPT ![p] = Drain(@)] /\ UNCHANGED receipts
    <2>1. /\ session' \in Sessions /\ session'.epoch = session.epoch
          /\ session'.profile = session.profile /\ session'.status = session.status
      BY <1>2, Run DEF Sessions
    <2> QED BY <1>2, <2>1, DrainKeeps DEF Settle
  <1>3. CASE Notices(p)
    BY <1>3, NoticesKeeps DEF Settle
  <1> QED BY <1>1, <1>2, <1>3 DEF Settle

LEMMA CommitKeeps ==
    ASSUME QueueInv, NEW p \in Coroutines, Commit(p)
    PROVE  QueueInv'
  <1>1. CASE Queued = {} /\ Settles(p, "completed")
    BY <1>1, SettlesOver DEF Commit
  <1>2. CASE runs' = [runs EXCEPT ![p] = AfterPending(@)] /\ UNCHANGED <<session, receipts>>
    <2>1. CASE runs[p].step >= MaxSteps
      <3>1. runs' = [runs EXCEPT ![p].at = "limit"]
        BY <1>2, <2>1 DEF AfterPending
      <3> QED BY <3>1, <1>2, Goes, Run, Counted DEF Commit, counts
    <2>2. CASE ~(runs[p].step >= MaxSteps)
      <3>1. runs' = [runs EXCEPT ![p] = Drain(@)]
        BY <1>2, <2>2 DEF AfterPending
      <3> QED BY <3>1, <1>2, Run, DrainKeeps DEF Commit
    <2> QED BY <2>1, <2>2
  <1>3. CASE Notices(p)
    BY <1>3, NoticesKeeps DEF Commit
  <1> QED BY <1>1, <1>2, <1>3 DEF Commit

LEMMA StopKeeps ==
    ASSUME QueueInv, NEW p \in Coroutines, Stop(p)
    PROVE  QueueInv'
  BY SettlesOver DEF Stop

LEMMA FencedKeeps ==
    ASSUME QueueInv, NEW p \in Coroutines, Fenced(p)
    PROVE  QueueInv'
  BY Over, Run, Counted DEF Fenced, counts

LEMMA CrashKeeps ==
    ASSUME QueueInv, NEW p \in Coroutines, Crash(p)
    PROVE  QueueInv'
  BY Over, Run, LostOrFault DEF Crash

LEMMA CallFailsKeeps ==
    ASSUME QueueInv, NEW p \in Coroutines, CallFails(p)
    PROVE  QueueInv'
  <1>1. PICK at \in {"retry", "failed"} \ {runs[p].at} : runs' = [runs EXCEPT ![p].at = at]
    BY DEF CallFails, Unanswered
  <1>2. runs[p].at \in {"deliver", "retry"} /\ lost' \in 0..MaxLost
    BY LostOrFault DEF CallFails, Calling, Unanswered
  <1> QED BY <1>1, <1>2, Goes, Counted DEF CallFails

LEMMA DeliveryRefusedKeeps ==
    ASSUME QueueInv, NEW p \in Coroutines, DeliveryRefused(p)
    PROVE  QueueInv'
  <1>1. receipts[p] = NoReceipt /\ runs[p].at # "idle"
    BY Run DEF DeliveryRefused, Known, Calling, CallOK
  <1> QED BY <1>1, Goes, Counted DEF DeliveryRefused, counts

LEMMA RequestInterruptKeeps ==
    ASSUME QueueInv, RequestInterrupt
    PROVE  QueueInv'
  <1> DEFINE p == Recovery
             r == runs[p]
             c == receipts[p]
  <1>1. p \in Coroutines
    BY Numbers DEF Recovery
  <1>2. /\ r \in RunRecords /\ c \in ReceiptRecords /\ CallOK(r, c) /\ session \in Sessions
        /\ r.epoch <= session.epoch
        /\ runs' = [runs EXCEPT ![p] = r] /\ receipts' = [receipts EXCEPT ![p] = c]
    BY <1>1, Run DEF RequestInterrupt
  <1>3. /\ session' \in Sessions /\ session'.epoch = session.epoch
        /\ session'.profile = session.profile /\ session'.status = "interrupting"
    BY <1>2 DEF RequestInterrupt, Sessions
  <1>4. r.epoch = session.epoch /\ r.at # "idle" => SeenOK(r, c, session.profile, transcript)
    BY <1>1 DEF QueueInv, SeenInv, Owns
  <1>5. /\ lost' \in 0..MaxLost /\ faults' \in 0..MaxFaults /\ UNCHANGED <<queue, admitted>>
        /\ p = Recovery
    BY Counted, LostOrFault DEF RequestInterrupt
  <1> HIDE DEF p, r, c
  <1> QED BY <1>1, <1>2, <1>3, <1>4, <1>5, RunMoves DEF r

LEMMA ClaimKeeps ==
    ASSUME QueueInv, Claim
    PROVE  QueueInv'
  <1> DEFINE p == Recovery
             r == [Idle EXCEPT !.at = "recovering", !.epoch = session.epoch + 1]
             c == NoReceipt
  <1>1. p \in Coroutines
    BY Numbers DEF Recovery
  <1>2. session \in Sessions /\ session.epoch + 1 \in Nat /\ session.epoch \in Nat
    BY <1>1, Run
  <1>3. r \in RunRecords /\ r.at = "recovering" /\ r.epoch = session.epoch + 1
    BY <1>2, Blank DEF RunRecords, Points
  <1>4. /\ session' \in Sessions /\ session'.epoch = session.epoch + 1
        /\ session'.profile = session.profile /\ session'.status = session.status
    BY <1>2 DEF Claim, Sessions
  <1>5. receipts[p] = NoReceipt
    BY <1>1, Run DEF Claim
  <1>6. runs' = [runs EXCEPT ![p] = r] /\ receipts' = [receipts EXCEPT ![p] = c]
    BY <1>1, <1>5, Run DEF Claim
  <1>7. /\ lost' \in 0..MaxLost /\ faults' \in 0..MaxFaults /\ UNCHANGED <<queue, admitted>>
        /\ p = Recovery
    BY Counted, LostOrFault DEF Claim
  <1> HIDE DEF p, r
  <1>8. CallOK(r, c) /\ SeenOK(r, c, session'.profile, transcript)
    BY <1>3 DEF CallOK, SeenOK
  <1>9. r.epoch <= session'.epoch /\ session'.epoch > session.epoch
    BY <1>2, <1>3, <1>4
  <1> QED BY <1>1, <1>3, <1>4, <1>6, <1>7, <1>8, <1>9, Blank, RunMoves

LEMMA RecoverKeeps ==
    ASSUME QueueInv, Recover
    PROVE  QueueInv'
  <1> DEFINE p == Recovery
             r == [runs[p] EXCEPT !.at = "interrupted"]
             c == NoReceipt
  <1>1. p \in Coroutines
    BY Numbers DEF Recovery
  <1>2. receipts[p] = NoReceipt /\ session \in Sessions /\ session.epoch \in Nat
    BY <1>1, Run DEF Recover
  <1>3. r \in RunRecords /\ r.at = "interrupted" /\ r.epoch = runs[p].epoch
    <2>1. runs[p] \in RunRecords /\ "interrupted" \in Points
      BY <1>1, Run DEF Points
    <2> QED BY <2>1, AtEdited
  <1>4. /\ session' \in Sessions /\ session'.epoch = session.epoch
        /\ session'.profile = session.profile /\ session'.status = "interrupting"
    BY <1>2 DEF Recover, Sessions
  <1>5. runs' = [runs EXCEPT ![p] = r] /\ receipts' = [receipts EXCEPT ![p] = c]
    BY <1>1, <1>2, Run DEF Recover
  <1>6. /\ lost' \in 0..MaxLost /\ faults' \in 0..MaxFaults /\ UNCHANGED <<queue, admitted>>
    BY Counted DEF Recover, counts
  <1>7. r.epoch <= session'.epoch /\ runs[p].at # "idle"
    BY <1>1, <1>3, <1>4, Run DEF Recover
  <1> HIDE DEF p, r
  <1>8. CallOK(r, c) /\ SeenOK(r, c, session'.profile, transcript)
    BY <1>3 DEF CallOK, SeenOK
  <1> QED BY <1>1, <1>3, <1>4, <1>5, <1>6, <1>7, <1>8, Blank, RunMoves

LEMMA ReplayKeeps ==
    ASSUME QueueInv, NEW p \in Coroutines, Replay(p)
    PROVE  QueueInv'
  <1> DEFINE b == receipts[p]
             r == Answered(runs[p], b)
  <1>1. /\ runs[p].at \in {"deliver", "retry"} /\ runs[p].epoch = session.epoch
        /\ b.id = DeliveryId(runs[p])
        /\ UNCHANGED <<session, queue, admitted, lost, faults>>
    BY DEF Replay, Calling, Owns, Known, counts
  <1>2. /\ runs[p] \in RunRecords /\ b \in ReceiptRecords /\ CallOK(runs[p], b)
        /\ session \in Sessions /\ runs[p].epoch <= session.epoch
    BY Run
  <1>3. b # NoReceipt
    <2>1. runs[p].call.next > 0 /\ NoReceipt.id[1] = 0
      BY <1>1, Run DEF CallOK, NoReceipt
    <2>2. b.id[1] = runs[p].call.next
      BY <1>1 DEF DeliveryId
    <2> QED BY <2>1, <2>2
  <1>4. /\ b.taken \in Seq(Messages) /\ b.through \in Keys /\ b.more \in BOOLEAN
        /\ RejectOnly(runs[p]) => b.taken = <<>>
    BY <1>2, <1>3 DEF ReceiptRecords, CallOK
  <1>5. /\ r \in RunRecords /\ CallOK(r, NoReceipt) /\ r.epoch = runs[p].epoch
        /\ r.at \in {"deliver", "model", "commit"} /\ r.seen = runs[p].seen \o b.taken
        /\ r.interaction = IF b.taken # <<>> THEN runs[p].call.next ELSE runs[p].interaction
    BY <1>1, <1>2, <1>4, AnsweredOK
  <1>6. runs' = [runs EXCEPT ![p] = r] /\ receipts' = [receipts EXCEPT ![p] = NoReceipt]
    BY DEF Replay
  <1>7. SeenOK(runs[p], b, session.profile, transcript)
    BY <1>1 DEF QueueInv, SeenInv, Owns
  <1> HIDE DEF r
  <1>8. SeenOK(r, NoReceipt, session.profile, transcript)
    <2>1. /\ transcript = r.seen /\ session.profile = r.interaction /\ Quiet(transcript)
      BY <1>1, <1>5, <1>7 DEF SeenOK
    <2>2. r.seen \o <<>> = r.seen
      BY <1>5 DEF RunRecords
    <2> QED BY <2>1, <2>2, <1>5, Blank DEF SeenOK
  <1> QED BY <1>1, <1>2, <1>5, <1>6, <1>8, Blank, Counted, RunMoves

-----------------------------------------------------------------------------
(* The steps that write the transcript *)

(* One coroutine appends an entry of its own: it owns the epoch, or begins *)
(* a new one.                                                              *)
LEMMA RunAppends ==
    ASSUME QueueInv, NEW p \in Coroutines, NEW r \in RunRecords,
           NEW entry \in {"input", "tools", "answer"},
           receipts[p] = NoReceipt, CallOK(r, NoReceipt), r.at # "idle",
           runs' = [runs EXCEPT ![p] = r], transcript' = Append(transcript, entry),
           UNCHANGED <<rows, lapsed, receipts, lost>>, admitted' \in 0..MaxRuns,
           faults' \in 0..MaxFaults, session' \in Sessions, r.epoch = session'.epoch,
           session'.status = "completed" => session.status = "completed",
           SeenOK(r, NoReceipt, session'.profile, transcript'),
           \/ session'.epoch > session.epoch
           \/ session'.epoch = session.epoch /\ Owns(p) /\ runs[p].at # "idle",
           FreshInv'
    PROVE  QueueInv'
  <1>1. receipts' = [receipts EXCEPT ![p] = NoReceipt]
    BY Run
  <1>2. /\ session.epoch \in Nat /\ session'.epoch \in Nat /\ session.epoch <= session'.epoch
        /\ r.epoch <= session'.epoch
    BY Run DEF Sessions
  <1>3. /\ KeysInv' /\ NoOvertaking' /\ DeliveredInPlace' /\ TurnsUndivided'
        /\ transcript' \in Seq(Entries)
        /\ \A m \in Messages : rows'[m].at <= Len(transcript')
    BY EntryAppended DEF QueueInv
  <1>4. TypeOK'
    <2>1. rows' \in [Messages -> Rows] /\ lapsed' \subseteq Expiring
      BY Types DEF QueueInv, TypeOK
    <2>2. /\ receipts' \in [Coroutines -> ReceiptRecords] /\ runs' \in [Coroutines -> RunRecords]
          /\ \A q \in Coroutines : runs'[q].epoch <= session'.epoch
      BY <1>1, <1>2, RunTyped, Blank DEF QueueInv
    <2> QED BY <1>3, <2>1, <2>2, Counted, Typed
  <1>5. OneOwner' /\ CallInv' /\ SeenInv'
    BY <1>1, RunsKept, Blank DEF QueueInv
  <1>6. NoneLeftBehind'
    BY DEF QueueInv, NoneLeftBehind, Queued
  <1> QED BY <1>3, <1>4, <1>5, <1>6 DEF QueueInv

LEMMA AdmitKeeps ==
    ASSUME QueueInv, NEW p \in Runs, Admit(p)
    PROVE  QueueInv'
  <1> DEFINE r == [Idle EXCEPT !.at = "loading", !.epoch = session.epoch + 1,
                               !.interaction = 1, !.step = 1]
  <1>1. /\ p \in Coroutines /\ admitted + 1 \in 0..MaxRuns /\ p = admitted + 1
        /\ admitted' = p /\ admitted \in Nat /\ p \in Nat
    BY Numbers, Counted DEF Admit, Runs
  <1>2. session \in Sessions /\ session.epoch + 1 \in Nat /\ session.epoch \in Nat
    BY <1>1, Run
  <1>3. /\ r \in RunRecords /\ r.at = "loading" /\ r.epoch = session.epoch + 1
        /\ r.interaction = 1
    <2>1. 1 \in 0..MaxSteps /\ "loading" \in Points
      BY Numbers DEF Points
    <2> QED BY <1>2, <2>1, Blank DEF RunRecords
  <1>4. /\ session' \in Sessions /\ session'.epoch = session.epoch + 1
        /\ session'.profile = 1 /\ session'.status = "running"
    BY <1>2 DEF Admit, Sessions
  <1>5. /\ runs' = [runs EXCEPT ![p] = r] /\ transcript' = Append(transcript, "input")
        /\ UNCHANGED <<rows, lapsed, receipts, lost, faults>>
    BY DEF Admit
  <1>6. receipts[p] = NoReceipt
    <2>1. runs[p].at = "idle"
      BY <1>1 DEF QueueInv, FreshInv
    <2> QED BY <2>1, <1>1, Run
  <1> HIDE DEF r
  <1>7. CallOK(r, NoReceipt)
    BY <1>3 DEF CallOK
  <1>8. SeenOK(r, NoReceipt, session'.profile, transcript')
    <2>1. transcript'[Len(transcript')] = "input"
      BY <1>5, EntryAppended DEF QueueInv
    <2> QED BY <2>1, <1>3, <1>4 DEF SeenOK, Quiet
  <1>9. FreshInv'
    <2>1. \A q \in Coroutines : q # p => runs'[q] = runs[q]
      BY <1>5, Types DEF QueueInv
    <2>2. ASSUME NEW q \in Runs, q > admitted' PROVE runs'[q].at = "idle"
      <3>1. q \in Coroutines /\ q # p /\ q > admitted
        BY <2>2, <1>1, Numbers DEF Runs
      <3> QED BY <3>1, <2>1 DEF QueueInv, FreshInv
    <2> QED BY <2>2 DEF FreshInv
  <1>10. session'.epoch > session.epoch
    BY <1>2, <1>4
  <1> QED BY <1>1, <1>3, <1>4, <1>5, <1>6, <1>7, <1>8, <1>9, <1>10, Counted, RunAppends

LEMMA ModelStepKeeps ==
    ASSUME QueueInv, NEW p \in Coroutines, ModelStep(p)
    PROVE  QueueInv'
  <1>1. /\ runs[p].at = "model" /\ Owns(p) /\ receipts[p] = NoReceipt
        /\ UNCHANGED <<session, rows, lapsed, receipts, admitted, lost, faults>>
    BY Run DEF ModelStep, counts
  <1>2. /\ runs[p].seen = transcript /\ runs[p].interaction = session.profile
        /\ runs[p].interaction > 0 /\ transcript \in Seq(Entries)
    BY <1>1, Run, Types DEF QueueInv, SeenInv, SeenOK, CallOK
  <1>3. ASSUME NEW entry \in {"tools", "answer"}, transcript' = Append(transcript, entry),
               \E r \in AfterStep([runs[p] EXCEPT !.seen = Append(@, entry)], entry) :
                  runs' = [runs EXCEPT ![p] = r]
        PROVE  QueueInv'
    <2> DEFINE s == [runs[p] EXCEPT !.seen = Append(@, entry)]
    <2>1. /\ transcript' \in Seq(Entries) /\ transcript'[Len(transcript')] = entry
          /\ KeysInv'
      BY <1>1, <1>3, EntryAppended DEF QueueInv
    <2>2. /\ s \in RunRecords /\ s.epoch = runs[p].epoch /\ s.interaction = runs[p].interaction
          /\ s.step = runs[p].step /\ s.seen = transcript'
      BY <1>2, <1>3, <2>1, Run DEF RunRecords
    <2> HIDE DEF s
    <2>3. PICK r \in RunRecords :
             /\ runs' = [runs EXCEPT ![p] = r] /\ r.epoch = s.epoch
             /\ r.interaction = s.interaction /\ r.seen = s.seen
             /\ r.at \in {"model", "limit"} \/ (r.at = "settle" /\ entry = "answer")
      <3>1. PICK r \in AfterStep(s, entry) : runs' = [runs EXCEPT ![p] = r]
        BY <1>3 DEF s
      <3>2. CASE r = TurnGoesOn(s) /\ s.step < MaxSteps
        <4>1. r = [s EXCEPT !.at = "model", !.step = @ + 1]
          BY <3>2 DEF TurnGoesOn
        <4>2. s.step + 1 \in 0..MaxSteps
          BY <3>2, <2>2, Run, Numbers
        <4>3. /\ r \in RunRecords /\ r.epoch = s.epoch
              /\ r.interaction = s.interaction /\ r.seen = s.seen /\ r.at = "model"
          BY <2>2, <4>1, <4>2 DEF RunRecords, Points
        <4> QED BY <3>1, <4>3
      <3>3. CASE r = TurnGoesOn(s) /\ ~(s.step < MaxSteps)
        <4>1. r = [s EXCEPT !.at = "limit"]
          BY <3>3 DEF TurnGoesOn
        <4>2. /\ r \in RunRecords /\ r.epoch = s.epoch
              /\ r.interaction = s.interaction /\ r.seen = s.seen /\ r.at = "limit"
          BY <2>2, <4>1 DEF RunRecords, Points
        <4> QED BY <3>1, <4>2
      <3>4. ASSUME entry = "answer", NEW at \in {"settle", "limit"}, r = [s EXCEPT !.at = at]
            PROVE  /\ r \in RunRecords /\ r.epoch = s.epoch
                   /\ r.interaction = s.interaction /\ r.seen = s.seen /\ r.at = at
        BY <2>2, <3>4 DEF RunRecords, Points
      <3> QED BY <3>1, <3>2, <3>3, <3>4 DEF AfterStep
    <2>4. CallOK(r, NoReceipt)
      BY <2>2, <2>3, <1>2 DEF CallOK
    <2>5. SeenOK(r, NoReceipt, session.profile, transcript')
      BY <2>1, <2>2, <2>3, <1>2 DEF SeenOK, Quiet
    <2>6. FreshInv'
      BY <1>1, <2>3, FreshKept DEF QueueInv
    <2> QED BY <1>1, <1>3, <2>1, <2>2, <2>3, <2>4, <2>5, <2>6, Run, Counted, RunAppends
               DEF Owns
  <1>4. CASE runs' = [runs EXCEPT ![p].at = "interrupted"] /\ UNCHANGED transcript
    BY <1>1, <1>4, Goes, Counted DEF queue
  <1> QED BY <1>3, <1>4 DEF ModelStep

LEMMA StepFailsKeeps ==
    ASSUME QueueInv, NEW p \in Coroutines, StepFails(p)
    PROVE  QueueInv'
  <1>1. /\ runs[p].at = "model" /\ Owns(p) /\ receipts[p] = NoReceipt
        /\ UNCHANGED <<session, rows, lapsed, receipts, admitted, lost>>
        /\ faults' \in 0..MaxFaults
    BY Run, LostOrFault DEF StepFails
  <1>2. /\ runs[p].seen = transcript /\ runs[p].interaction = session.profile
        /\ runs[p].interaction > 0 /\ transcript \in Seq(Entries)
    BY <1>1, Run, Types DEF QueueInv, SeenInv, SeenOK, CallOK
  <1>3. CASE runs' = [runs EXCEPT ![p].at = "failed"] /\ UNCHANGED transcript
    BY <1>1, <1>3, Goes, Counted DEF queue
  <1>4. ASSUME transcript' = Append(transcript, "answer"), NEW at \in {"failed", "interrupted"},
               runs' = [runs EXCEPT ![p].seen = Append(@, "answer"), ![p].at = at]
        PROVE  QueueInv'
    <2> DEFINE r == [runs[p] EXCEPT !.seen = Append(@, "answer"), !.at = at]
    <2>1. /\ transcript' \in Seq(Entries) /\ transcript'[Len(transcript')] = "answer"
          /\ KeysInv'
      BY <1>1, <1>4, EntryAppended DEF QueueInv
    <2>2. /\ r \in RunRecords /\ r.epoch = runs[p].epoch /\ r.interaction = runs[p].interaction
          /\ r.seen = transcript' /\ r.at = at
      BY <1>2, <1>4, <2>1, Run DEF RunRecords, Points
    <2>3. runs' = [runs EXCEPT ![p] = r]
      BY <1>4
    <2> HIDE DEF r
    <2>4. CallOK(r, NoReceipt)
      BY <2>2, <1>2 DEF CallOK
    <2>5. SeenOK(r, NoReceipt, session.profile, transcript')
      BY <2>1, <2>2, <1>2 DEF SeenOK, Quiet
    <2>6. FreshInv'
      BY <1>1, <2>2, <2>3, FreshKept DEF QueueInv
    <2> QED BY <1>1, <1>4, <2>2, <2>3, <2>4, <2>5, <2>6, Run, Counted, RunAppends DEF Owns
  <1> QED BY <1>3, <1>4 DEF StepFails

-----------------------------------------------------------------------------
(* What a batch is *)

LEMMA SeqOfSeq ==
    ASSUME NEW S, NEW n \in Nat, NEW s \in SeqOf(S, n)
    PROVE  s \in Seq(S)
  BY DEF SeqOf

LEMMA ToSetSeq ==
    ASSUME NEW S, NEW s \in Seq(S)
    PROVE  /\ ToSet(s) = {s[i] : i \in 1..Len(s)} /\ ToSet(s) \subseteq S
           /\ s = <<>> <=> ToSet(s) = {}
  <1>1. ToSet(s) = {s[i] : i \in 1..Len(s)} /\ ToSet(s) \subseteq S
    BY DEF ToSet
  <1>2. s # <<>> => 1 \in 1..Len(s)
    OBVIOUS
  <1> QED BY <1>1, <1>2

(* The first of a mode are before all the others. *)
LEMMA FirstClosed ==
    ASSUME rows \in [Messages -> Rows], NEW pending \in SUBSET Messages,
           NEW m \in pending, NEW n \in First(pending), Earlier(m, n)
    PROVE  m \in First(pending)
  <1> DEFINE A == {k \in pending : Earlier(k, m)}
             B == {k \in pending : Earlier(k, n)}
  <1>1. \A k \in Messages : rows[k].key \in Nat
    BY Numbers DEF Rows
  <1>2. n \in pending
    BY DEF First
  <1>3. A \in SUBSET B
    BY <1>1, <1>2 DEF Earlier
  <1>4. IsFiniteSet(pending)
    BY QueueConstants, FS_Subset DEF QueueConstants
  <1>5. IsFiniteSet(B)
    BY <1>4, FS_Subset
  <1>6. IsFiniteSet(A) /\ Cardinality(A) <= Cardinality(B)
    BY <1>3, <1>5, FS_Subset
  <1>7. Cardinality(A) \in Nat /\ Cardinality(B) \in Nat
    BY <1>5, <1>6, FS_CardinalityType
  <1>8. Cardinality(B) < Limit
    BY DEF First
  <1> HIDE DEF A, B
  <1>9. Cardinality(A) < Limit
    BY <1>6, <1>7, <1>8, Numbers
  <1> QED BY <1>9 DEF First, A

(* The entry at a place of an ordered sequence has those before it ahead.  *)
LEMMA Ahead ==
    ASSUME rows \in [Messages -> Rows], NEW s \in Seq(Messages),
           \A i, j \in 1..Len(s) : i < j => Earlier(s[i], s[j]),
           NEW i \in 1..Len(s)
    PROVE  Cardinality({n \in ToSet(s) : Earlier(n, s[i])}) = i - 1
  <1> DEFINE S == {n \in ToSet(s) : Earlier(n, s[i])}
             f == [j \in 1..(i - 1) |-> s[j]]
  <1>1. /\ \A k \in Messages : rows[k].key \in Nat
        /\ \A j \in 1..Len(s) : s[j] \in Messages
        /\ ToSet(s) = {s[j] : j \in 1..Len(s)} /\ Len(s) \in Nat /\ i - 1 \in Nat
    <2>1. \A k \in Messages : rows[k].key \in Nat
      BY Numbers DEF Rows
    <2>2. ToSet(s) = {s[j] : j \in 1..Len(s)}
      BY ToSetSeq
    <2> QED BY <2>1, <2>2
  <1>2. \A j \in 1..Len(s) : Earlier(s[j], s[i]) <=> j < i
    <2>1. ASSUME NEW j \in 1..Len(s), j >= i PROVE ~Earlier(s[j], s[i])
      BY <1>1, <2>1 DEF Earlier
    <2> QED BY <2>1
  <1>3. \A j, k \in 1..Len(s) : j # k => s[j] # s[k]
    <2>1. ASSUME NEW j \in 1..Len(s), NEW k \in 1..Len(s), j < k PROVE s[j] # s[k]
      BY <1>1, <2>1 DEF Earlier
    <2> QED BY <2>1
  <1>4. 1..(i - 1) \subseteq 1..Len(s) /\ \A j \in 1..(i - 1) : j < i
    BY <1>1
  <1>5. \A j \in 1..(i - 1) : s[j] \in S
    BY <1>1, <1>2, <1>4
  <1>6. \A n \in S : \E j \in 1..(i - 1) : s[j] = n
    <2> SUFFICES ASSUME NEW n \in S PROVE \E j \in 1..(i - 1) : s[j] = n
      OBVIOUS
    <2>1. PICK j \in 1..Len(s) : s[j] = n
      BY <1>1
    <2>2. j < i
      BY <2>1, <1>2
    <2> QED BY <2>1, <2>2, <1>1
  <1> HIDE DEF S
  <1>7. f \in Bijection(1..(i - 1), S)
    BY <1>3, <1>4, <1>5, <1>6 DEF Bijection, Injection, Surjection, IsInjective
  <1>8. ExistsBijection(1..(i - 1), S)
    BY <1>7 DEF ExistsBijection
  <1>9. Cardinality(S) = i - 1
    BY <1>1, <1>8, FS_CountingElements
  <1> QED BY <1>9 DEF S

(* The batch that a call is answered with: queued messages in their order, *)
(* none at the step limit, each targeted one at its place, and only those  *)
(* left out that the batch has no right or no room to take before.         *)
LEMMA BatchFacts ==
    ASSUME QueueInv, NEW p \in Coroutines, NEW b \in Batches(runs[p])
    PROVE  /\ b.taken \in Seq(Messages) /\ b.through \in Keys /\ b.more \in BOOLEAN
           /\ b.chosen \subseteq Queued /\ ToSet(b.taken) \subseteq b.chosen
           /\ \A i, j \in 1..Len(b.taken) : i < j => Earlier(b.taken[i], b.taken[j])
           /\ RejectOnly(runs[p]) => b.taken = <<>>
           /\ \A i \in 1..Len(b.taken) :
                 b.taken[i] \in Targeted
                 => rows[b.taken[i]].target.cursor = Len(transcript) + (i - 1)
           /\ \A m \in Queued, n \in ToSet(b.taken) :
                 Earlier(m, n) /\ m \notin b.chosen
                 => rows[m].mode = "on_idle" /\ rows[n].mode = "next_turn"
  <1> DEFINE r == runs[p]
             through == IF r.call.through = 0 THEN NextKey - 1 ELSE r.call.through
             next_turn == Eligible(r, "next_turn", through)
             on_idle == IF r.call.idle THEN Eligible(r, "on_idle", through) ELSE {}
             pending == Chosen(next_turn, on_idle)
             chosen == First(pending)
  <1>1. PICK taken \in SeqOf(chosen, Cardinality(chosen)) :
           /\ IsAccepted(taken, chosen)
           /\ b = [through |-> through, chosen |-> chosen, taken |-> taken,
                   more |-> (next_turn \cup on_idle) \ chosen # {}]
    BY DEF Batches
  <1>2. /\ b.through = through /\ b.chosen = chosen /\ b.taken = taken /\ b.more \in BOOLEAN
    BY <1>1
  <1>3. /\ rows \in [Messages -> Rows] /\ \A k \in Messages : rows[k].key \in Nat
        /\ transcript \in Seq(Entries) /\ Len(transcript) \in Nat
    BY Types, Numbers DEF QueueInv, Rows
  <1>4. through \in Keys
    <2>1. r.call.through \in Keys
      BY Run DEF Calls
    <2>2. NextKey - 1 \in Keys
      BY PresentCounted, Numbers DEF Keys
    <2> QED BY <2>1, <2>2
  <1>5. through \in Nat
    BY <1>4, Numbers
  <1> HIDE DEF through
  <1>6. /\ \A m \in next_turn : m \in Queued /\ rows[m].mode = "next_turn"
        /\ \A m \in on_idle : m \in Queued /\ rows[m].mode = "on_idle"
        /\ \A m \in next_turn \cup on_idle :
              rows[m].key <= through /\ (RejectOnly(r) => Rejection(m, Len(transcript)) # "none")
    BY DEF Eligible
  <1>7. Queued \subseteq Messages
    BY DEF Queued
  <1>8. \A m \in Queued : rows[m].key <= through /\ ~RejectOnly(r) =>
           /\ rows[m].mode = "next_turn" => m \in next_turn
           /\ rows[m].mode = "on_idle" /\ r.call.idle => m \in on_idle
    BY DEF Eligible
  <1>9. \A m \in Queued : rows[m].mode \in {"next_turn", "on_idle"}
    BY <1>3, <1>7 DEF QueueInv, KeysInv, Queued, Rows
  <1>10. ~r.call.idle => on_idle = {}
    OBVIOUS
  <1> HIDE DEF next_turn, on_idle
  <1>11. /\ next_turn # {} => pending = next_turn
         /\ next_turn = {} => pending = on_idle
    BY DEF Chosen
  <1>12. pending \subseteq Queued /\ pending \subseteq next_turn \cup on_idle
    BY <1>6, <1>11
  <1>13. chosen \subseteq pending /\ chosen \subseteq Messages
    BY <1>7, <1>12 DEF First
  <1> HIDE DEF pending
  <1>14. taken \in Seq(chosen) /\ taken \in Seq(Messages)
    <2>1. IsFiniteSet(chosen)
      BY <1>13, QueueConstants, FS_Subset DEF QueueConstants
    <2>2. Cardinality(chosen) \in Nat
      BY <2>1, FS_CardinalityType
    <2>3. taken \in Seq(chosen)
      BY <2>2, SeqOfSeq
    <2> HIDE DEF chosen
    <2> QED BY <2>3, <1>13
  <1> HIDE DEF chosen
  <1>15. /\ ToSet(taken) = {taken[i] : i \in 1..Len(taken)} /\ ToSet(taken) \subseteq chosen
         /\ \A i \in 1..Len(taken) : taken[i] \in chosen /\ taken[i] \in ToSet(taken)
    BY <1>14, ToSetSeq
  <1>16. \A i, j \in 1..Len(taken) : i < j => Earlier(taken[i], taken[j])
    BY <1>1 DEF IsAccepted
  <1>17. ASSUME NEW i \in 1..Len(taken)
         PROVE  Rejection(taken[i], Len(transcript) + (i - 1)) = "none"
    <2>1. Cardinality({n \in ToSet(taken) : Earlier(n, taken[i])}) = i - 1
      BY <1>3, <1>14, <1>16, Ahead
    <2>2. Rejection(taken[i], Len(transcript)
                              + Cardinality({n \in ToSet(taken) : Earlier(n, taken[i])})) = "none"
      BY <1>1, <1>15 DEF IsAccepted
    <2> QED BY <2>1, <2>2
  <1>18. RejectOnly(r) => taken = <<>>
    <2> SUFFICES ASSUME RejectOnly(r), taken # <<>> PROVE FALSE
      OBVIOUS
    <2>1. 1 \in 1..Len(taken) /\ Len(transcript) + (1 - 1) = Len(transcript)
      BY <1>14, <1>3
    <2>2. Rejection(taken[1], Len(transcript)) = "none"
      BY <2>1, <1>17
    <2>3. taken[1] \in next_turn \cup on_idle
      BY <2>1, <1>15, <1>13, <1>12
    <2> QED BY <2>2, <2>3, <1>6
  <1>19. ASSUME NEW i \in 1..Len(taken), taken[i] \in Targeted
         PROVE  rows[taken[i]].target.cursor = Len(transcript) + (i - 1)
    <2>1. rows[taken[i]].target = [epoch |-> session.epoch, cursor |-> Len(transcript) + (i - 1)]
      BY <1>17, <1>19 DEF Rejection
    <2> QED BY <2>1
  <1>20. ASSUME NEW m \in Queued, NEW n \in ToSet(taken), Earlier(m, n), m \notin chosen
         PROVE  rows[m].mode = "on_idle" /\ rows[n].mode = "next_turn"
    <2>1. ~RejectOnly(r)
      BY <1>18, <1>14, ToSetSeq
    <2>2. /\ n \in pending /\ n \in Queued /\ n \in Messages /\ m \in Messages
          /\ n \in chosen /\ rows[n].key <= through
      BY <1>15, <1>13, <1>12, <1>7, <1>6
    <2>3. rows[m].key <= through
      BY <1>20, <2>2, <1>3, <1>5 DEF Earlier
    <2>4. m \notin pending
      BY <1>20, <2>2, <1>3, <1>12, <1>7, FirstClosed DEF chosen
    <2>5. ASSUME rows[m].mode = "next_turn" PROVE FALSE
      BY <2>5, <2>1, <2>3, <2>4, <1>8, <1>11
    <2>6. ASSUME rows[n].mode = "on_idle" PROVE FALSE
      <3>1. pending = on_idle /\ r.call.idle
        BY <2>6, <2>2, <1>6, <1>10, <1>11
      <3> QED BY <3>1, <2>1, <2>3, <2>4, <2>5, <1>8, <1>9
    <2> QED BY <2>5, <2>6, <2>2, <1>9
  <1> QED BY <1>2, <1>4, <1>12, <1>13, <1>14, <1>15, <1>16, <1>18, <1>19, <1>20

(* What a delivery does to the rows. *)
LEMMA DeliveredRows ==
    ASSUME QueueInv, NEW p \in Coroutines, NEW b \in Batches(runs[p]), Delivers(runs[p], b)
    PROVE  /\ rows' \in [Messages -> Rows]
           /\ \A m \in Messages : /\ rows'[m].key = rows[m].key /\ rows'[m].mode = rows[m].mode
                                  /\ rows'[m].target = rows[m].target
           /\ \A i \in 1..Len(b.taken) : /\ rows'[b.taken[i]].status = "delivered"
                                         /\ rows'[b.taken[i]].at = Len(transcript) + i
           /\ \A m \in Messages \ ToSet(b.taken) :
                 /\ rows'[m].at = rows[m].at
                 /\ m \in b.chosen => rows'[m].status \in {"expired", "stale"}
                 /\ m \notin b.chosen => rows'[m].status = rows[m].status
  <1> DEFINE k == b.taken
             Place(m) == CHOOSE i \in 1..Len(k) : k[i] = m
  <1>1. /\ rows \in [Messages -> Rows] /\ k \in Seq(Messages) /\ Len(k) \in Nat
        /\ Len(transcript) \in Nat /\ \A m \in Messages : rows[m].key \in Nat
    <2>1. /\ rows \in [Messages -> Rows] /\ k \in Seq(Messages) /\ Len(transcript) \in Nat
      BY Types, BatchFacts DEF QueueInv
    <2>2. \A m \in Messages : rows[m].key \in Nat
      BY <2>1, Numbers DEF Rows
    <2> QED BY <2>1, <2>2
  <1>2. \A i, j \in 1..Len(k) : k[i] = k[j] => i = j
    <2>1. ASSUME NEW i \in 1..Len(k), NEW j \in 1..Len(k), i < j PROVE k[i] # k[j]
      <3>1. Earlier(k[i], k[j]) /\ k[i] \in Messages
        BY <2>1, <1>1, BatchFacts
      <3> QED BY <3>1, <1>1 DEF Earlier
    <2> QED BY <2>1
  <1>3. ToSet(k) = {k[i] : i \in 1..Len(k)}
    BY <1>1, ToSetSeq
  <1>4. \A i \in 1..Len(k) : Place(k[i]) = i
    BY <1>2
  <1>5. rows' = [m \in Messages |->
          CASE m \in ToSet(k) ->
                  [rows[m] EXCEPT !.status = "delivered", !.at = Len(transcript) + Place(m)]
            [] m \in b.chosen \ ToSet(k) ->
                  [rows[m] EXCEPT !.status = IF m \in lapsed THEN "expired" ELSE "stale"]
            [] OTHER -> rows[m]]
    BY DEF Delivers
  <1> HIDE DEF Place
  <1>6. ASSUME NEW i \in 1..Len(k)
        PROVE  /\ rows'[k[i]] = [rows[k[i]] EXCEPT !.status = "delivered",
                                                   !.at = Len(transcript) + i]
               /\ k[i] \in ToSet(k) /\ k[i] \in Messages
    <2>1. k[i] \in ToSet(k) /\ k[i] \in Messages
      BY <1>1, <1>3
    <2> QED BY <2>1, <1>4, <1>5
  <1>7. ASSUME NEW m \in Messages \ ToSet(k), m \in b.chosen
        PROVE  \E status \in {"expired", "stale"} : rows'[m] = [rows[m] EXCEPT !.status = status]
    BY <1>5, <1>7
  <1>8. ASSUME NEW m \in Messages \ ToSet(k), m \notin b.chosen
        PROVE  rows'[m] = rows[m]
    BY <1>5, <1>8
  <1>9. DOMAIN rows' = Messages /\ rows' = [m \in Messages |-> rows'[m]]
    BY <1>5
  <1>10. ASSUME NEW i \in 1..Len(k)
         PROVE  LET m == k[i]
                IN /\ rows'[m] \in Rows /\ rows'[m].status = "delivered"
                   /\ rows'[m].at = Len(transcript) + i
                   /\ rows'[m].key = rows[m].key /\ rows'[m].mode = rows[m].mode
                   /\ rows'[m].target = rows[m].target
    <2> DEFINE old == rows[k[i]]
               new == [old EXCEPT !.status = "delivered", !.at = Len(transcript) + i]
    <2>1. old \in Rows /\ rows'[k[i]] = new
      BY <1>1, <1>6
    <2>2. Len(transcript) + i \in Nat
      BY <1>1
    <2> HIDE DEF old
    <2>3. /\ new \in Rows /\ new.status = "delivered" /\ new.at = Len(transcript) + i
          /\ new.key = old.key /\ new.mode = old.mode /\ new.target = old.target
      BY <2>1, <2>2 DEF Rows
    <2> HIDE DEF new
    <2> QED BY <2>1, <2>3 DEF old
  <1>11. ASSUME NEW m \in Messages \ ToSet(k)
         PROVE  /\ rows'[m] \in Rows /\ rows'[m].at = rows[m].at
                /\ rows'[m].key = rows[m].key /\ rows'[m].mode = rows[m].mode
                /\ rows'[m].target = rows[m].target
                /\ m \in b.chosen => rows'[m].status \in {"expired", "stale"}
                /\ m \notin b.chosen => rows'[m].status = rows[m].status
    <2>1. CASE m \in b.chosen
      <3>1. PICK status \in {"expired", "stale"} : rows'[m] = [rows[m] EXCEPT !.status = status]
        BY <2>1, <1>7
      <3> DEFINE old == rows[m]
                 new == [old EXCEPT !.status = status]
      <3>2. old \in Rows
        BY <1>1
      <3> HIDE DEF old
      <3>3. /\ new \in Rows /\ new.status = status /\ new.at = old.at
            /\ new.key = old.key /\ new.mode = old.mode /\ new.target = old.target
        BY <3>2 DEF Rows
      <3> HIDE DEF new
      <3> QED BY <2>1, <3>1, <3>3 DEF old, new
    <2>2. CASE m \notin b.chosen
      BY <2>2, <1>8, <1>1
    <2> QED BY <2>1, <2>2
  <1>12. \A m \in ToSet(k) : \E i \in 1..Len(k) : m = k[i]
    BY <1>3
  <1>13. ASSUME NEW m \in Messages
         PROVE  /\ rows'[m] \in Rows /\ rows'[m].key = rows[m].key /\ rows'[m].mode = rows[m].mode
                /\ rows'[m].target = rows[m].target
    BY <1>10, <1>11, <1>12
  <1>14. rows' \in [Messages -> Rows]
    BY <1>9, <1>13
  <1> QED BY <1>10, <1>11, <1>13, <1>14

LEMMA DeliveredTranscript ==
    ASSUME QueueInv, NEW p \in Coroutines, NEW b \in Batches(runs[p]), Delivers(runs[p], b)
    PROVE  /\ transcript' = transcript \o b.taken
           /\ transcript' \in Seq(Entries) /\ Len(b.taken) \in Nat
           /\ Len(transcript') = Len(transcript) + Len(b.taken)
           /\ \A i \in 1..Len(transcript) : transcript'[i] = transcript[i]
           /\ \A i \in 1..Len(b.taken) : transcript'[Len(transcript) + i] = b.taken[i]
           /\ \A i \in 1..Len(b.taken) : b.taken[i] \in Messages /\ b.taken[i] \in ToSet(b.taken)
           /\ \A m \in ToSet(b.taken) : \E i \in 1..Len(b.taken) : b.taken[i] = m
           /\ \A j \in 1..Len(transcript') :
                 j \in 1..Len(transcript)
                 \/ \E i \in 1..Len(b.taken) : j = Len(transcript) + i
  <1>1. /\ transcript \in Seq(Entries) /\ Len(transcript) \in Nat /\ b.taken \in Seq(Messages)
        /\ transcript' = transcript \o b.taken
    BY Types, BatchFacts DEF QueueInv, Delivers
  <1>2. b.taken \in Seq(Entries)
    BY <1>1, MessagesApart
  <1>3. /\ transcript' \in Seq(Entries) /\ Len(b.taken) \in Nat
        /\ Len(transcript') = Len(transcript) + Len(b.taken)
        /\ \A i \in 1..Len(transcript) : transcript'[i] = transcript[i]
        /\ \A i \in 1..Len(b.taken) : transcript'[Len(transcript) + i] = b.taken[i]
    BY <1>1, <1>2
  <1>4. /\ \A i \in 1..Len(b.taken) : b.taken[i] \in Messages /\ b.taken[i] \in ToSet(b.taken)
        /\ \A m \in ToSet(b.taken) : \E i \in 1..Len(b.taken) : b.taken[i] = m
    BY <1>1, ToSetSeq
  <1>5. ASSUME NEW j \in 1..Len(transcript'), j \notin 1..Len(transcript)
        PROVE  \E i \in 1..Len(b.taken) : j = Len(transcript) + i
    <2>1. j - Len(transcript) \in 1..Len(b.taken) /\ j = Len(transcript) + (j - Len(transcript))
      BY <1>1, <1>3, <1>5
    <2> QED BY <2>1
  <1> QED BY <1>1, <1>3, <1>4, <1>5

(* The properties of the queue after a delivery. *)
LEMMA DeliveredQueue ==
    ASSUME QueueInv, NEW p \in Coroutines, NEW b \in Batches(runs[p]), Delivers(runs[p], b),
           Quiet(transcript)
    PROVE  /\ KeysInv' /\ NoOvertaking' /\ DeliveredInPlace' /\ TurnsUndivided'
           /\ \A m \in Messages : rows'[m].at <= Len(transcript')
  <1> DEFINE k == b.taken
             T == transcript
  <1>1. /\ \A m \in Messages : /\ rows'[m].key = rows[m].key /\ rows'[m].mode = rows[m].mode
                               /\ rows'[m].target = rows[m].target
        /\ \A i \in 1..Len(k) : rows'[k[i]].status = "delivered" /\ rows'[k[i]].at = Len(T) + i
        /\ \A m \in Messages \ ToSet(k) :
              /\ rows'[m].at = rows[m].at
              /\ m \in b.chosen => rows'[m].status \in {"expired", "stale"}
              /\ m \notin b.chosen => rows'[m].status = rows[m].status
    BY DeliveredRows
  <1>2. /\ Len(k) \in Nat /\ Len(transcript') = Len(T) + Len(k)
        /\ \A i \in 1..Len(T) : transcript'[i] = T[i]
        /\ \A i \in 1..Len(k) : transcript'[Len(T) + i] = k[i]
        /\ \A i \in 1..Len(k) : k[i] \in Messages /\ k[i] \in ToSet(k)
        /\ \A m \in ToSet(k) : \E i \in 1..Len(k) : k[i] = m
        /\ \A j \in 1..Len(transcript') :
              j \in 1..Len(T) \/ \E i \in 1..Len(k) : j = Len(T) + i
    BY DeliveredTranscript
  <1>3. /\ b.chosen \subseteq Queued /\ ToSet(k) \subseteq b.chosen
        /\ \A i, j \in 1..Len(k) : i < j => Earlier(k[i], k[j])
        /\ \A i \in 1..Len(k) : k[i] \in Targeted => rows[k[i]].target.cursor = Len(T) + (i - 1)
        /\ \A m \in Queued, n \in ToSet(k) :
              Earlier(m, n) /\ m \notin b.chosen
              => rows[m].mode = "on_idle" /\ rows[n].mode = "next_turn"
    BY BatchFacts
  <1>4. Len(T) \in Nat /\ rows \in [Messages -> Rows] /\ \A m \in Messages : rows[m].at <= Len(T)
    BY Types DEF QueueInv
  <1>5. \A m \in Messages : rows[m].key \in Nat /\ rows[m].at \in Nat
    BY <1>4, Numbers DEF Rows
  <1>6. \A m \in b.chosen : m \in Messages /\ rows[m].status = "queued"
    BY <1>3 DEF Queued
  <1>7. KeysInv'
    <2>1. \A m \in Messages : rows'[m].status = "absent" <=> rows[m].status = "absent"
      <3> SUFFICES ASSUME NEW m \in Messages
                   PROVE  rows'[m].status = "absent" <=> rows[m].status = "absent"
        OBVIOUS
      <3>1. CASE m \in ToSet(k)
        <4>1. PICK i \in 1..Len(k) : k[i] = m
          BY <3>1, <1>2
        <4> QED BY <4>1, <3>1, <1>1, <1>3, <1>6
      <3>2. CASE m \notin ToSet(k)
        BY <3>2, <1>1, <1>6
      <3> QED BY <3>1, <3>2
    <2>2. Present' = Present
      BY <2>1 DEF Present
    <2> QED BY <1>1, <2>1, <2>2 DEF QueueInv, KeysInv
  <1>8. NoOvertaking'
    <2> SUFFICES ASSUME NEW m \in Messages, NEW n \in Messages,
                        rows'[n].status = "delivered", rows[m].key < rows[n].key,
                        \/ rows'[m].status = "queued"
                        \/ rows'[m].status = "delivered" /\ rows'[m].at > rows'[n].at
                 PROVE  rows[m].mode = "on_idle" /\ rows[n].mode = "next_turn"
      BY <1>1 DEF NoOvertaking, Earlier
    <2>1. CASE n \in ToSet(k) /\ m \in ToSet(k)
      <3>1. PICK i \in 1..Len(k), j \in 1..Len(k) : k[i] = n /\ k[j] = m
        BY <2>1, <1>2
      <3>2. rows'[m].status = "delivered" /\ rows'[m].at = Len(T) + j /\ rows'[n].at = Len(T) + i
        BY <3>1, <1>1
      <3>3. i < j
        BY <3>2, <1>2, <1>4
      <3>4. rows[n].key < rows[m].key
        BY <3>1, <3>3, <1>3 DEF Earlier
      <3> QED BY <3>4, <1>5
    <2>2. CASE n \in ToSet(k) /\ m \notin ToSet(k)
      <3>1. PICK i \in 1..Len(k) : k[i] = n
        BY <2>2, <1>2
      <3>2. rows'[n].at = Len(T) + i
        BY <3>1, <1>1
      <3>3. ~(rows'[m].at > rows'[n].at)
        <4>1. rows'[m].at = rows[m].at /\ rows[m].at \in Nat /\ rows[m].at <= Len(T)
          BY <2>2, <1>1, <1>4, <1>5
        <4> QED BY <4>1, <3>2, <1>2, <1>4
      <3>4. m \in Queued /\ m \notin b.chosen
        BY <3>3, <2>2, <1>1 DEF Queued
      <3> QED BY <3>4, <2>2, <1>3 DEF Earlier
    <2>3. CASE n \notin ToSet(k)
      <3>1. n \notin b.chosen /\ rows[n].status = "delivered" /\ rows'[n].at = rows[n].at
        BY <2>3, <1>1
      <3>2. CASE m \in ToSet(k)
        BY <3>1, <3>2, <1>3, <1>6 DEF QueueInv, NoOvertaking, Earlier
      <3>3. CASE m \notin ToSet(k)
        <4>1. rows'[m].status = rows[m].status /\ rows'[m].at = rows[m].at
          BY <3>3, <1>1
        <4> QED BY <4>1, <3>1 DEF QueueInv, NoOvertaking, Earlier
      <3> QED BY <3>2, <3>3
    <2> QED BY <2>1, <2>2, <2>3
  <1>9. DeliveredInPlace'
    <2> SUFFICES ASSUME NEW m \in Messages
                 PROVE  /\ {i \in 1..Len(transcript') : transcript'[i] = m} =
                             IF rows'[m].status = "delivered" THEN {rows'[m].at} ELSE {}
                        /\ rows'[m].status = "delivered" /\ m \in Targeted
                             => rows'[m].at = rows'[m].target.cursor + 1
      BY DEF DeliveredInPlace
    <2>1. /\ {i \in 1..Len(T) : T[i] = m} =
                IF rows[m].status = "delivered" THEN {rows[m].at} ELSE {}
          /\ rows[m].status = "delivered" /\ m \in Targeted => rows[m].at = rows[m].target.cursor + 1
      BY DEF QueueInv, DeliveredInPlace
    <2>2. CASE m \in ToSet(k)
      <3>1. PICK i \in 1..Len(k) : k[i] = m
        BY <2>2, <1>2
      <3>2. rows'[m].status = "delivered" /\ rows'[m].at = Len(T) + i /\ rows[m].status = "queued"
        BY <3>1, <2>2, <1>1, <1>3, <1>6
      <3>3. \A j \in 1..Len(T) : T[j] # m
        BY <3>2, <2>1
      <3>4. \A j \in 1..Len(k) : k[j] = m => j = i
        <4>1. ASSUME NEW j \in 1..Len(k), k[j] = m, j # i PROVE FALSE
          <5>1. j < i \/ i < j
            BY <4>1, <1>2
          <5>2. Earlier(m, m)
            BY <5>1, <4>1, <3>1, <1>3
          <5> QED BY <5>2, <1>5 DEF Earlier
        <4> QED BY <4>1
      <3>5. Len(T) + i \in 1..Len(transcript') /\ transcript'[Len(T) + i] = m
        BY <3>1, <1>2, <1>4
      <3>6. ASSUME NEW j \in 1..Len(transcript'), transcript'[j] = m PROVE j = Len(T) + i
        <4>1. j \notin 1..Len(T)
          BY <3>3, <3>6, <1>2
        <4>2. PICK l \in 1..Len(k) : j = Len(T) + l
          BY <4>1, <1>2
        <4>3. k[l] = m
          BY <4>2, <3>6, <1>2
        <4> QED BY <4>2, <4>3, <3>4
      <3>7. {j \in 1..Len(transcript') : transcript'[j] = m} = {Len(T) + i}
        BY <3>5, <3>6
      <3>8. m \in Targeted => rows'[m].at = rows'[m].target.cursor + 1
        <4>1. m \in Targeted => rows[m].target.cursor = Len(T) + (i - 1)
          BY <3>1, <1>3
        <4>2. rows'[m].target = rows[m].target
          BY <1>1
        <4> QED BY <4>1, <4>2, <3>2, <1>2, <1>4
      <3> QED BY <3>2, <3>7, <3>8
    <2>3. CASE m \notin ToSet(k)
      <3>1. \A i \in 1..Len(k) : k[i] # m
        BY <2>3, <1>2
      <3>2. {i \in 1..Len(transcript') : transcript'[i] = m} = {i \in 1..Len(T) : T[i] = m}
        <4>1. 1..Len(T) \subseteq 1..Len(transcript')
          BY <1>2, <1>4
        <4>2. ASSUME NEW i \in 1..Len(transcript'), transcript'[i] = m PROVE i \in 1..Len(T)
          BY <4>2, <3>1, <1>2
        <4> QED BY <4>1, <4>2, <1>2
      <3>3. CASE m \in b.chosen
        BY <2>1, <2>3, <3>2, <3>3, <1>1, <1>6
      <3>4. CASE m \notin b.chosen
        BY <2>1, <2>3, <3>2, <3>4, <1>1
      <3> QED BY <3>3, <3>4
    <2> QED BY <2>2, <2>3
  <1>10. TurnsUndivided'
    <2> SUFFICES ASSUME NEW i \in 1..(Len(transcript') - 1), transcript'[i] = "tools"
                 PROVE  transcript'[i + 1] \notin Messages
      BY DEF TurnsUndivided
    <2>1. i \in 1..Len(transcript') /\ i \in 1..Len(T)
      <3>1. i \in 1..Len(transcript')
        BY <1>2, <1>4
      <3>2. ASSUME NEW j \in 1..Len(k), i = Len(T) + j PROVE FALSE
        <4>1. transcript'[i] = k[j] /\ k[j] \in Messages
          BY <3>2, <1>2
        <4> QED BY <4>1, MessagesApart
      <3>3. i \in 1..Len(T) \/ \E j \in 1..Len(k) : i = Len(T) + j
        BY <3>1, <1>2
      <3> QED BY <3>1, <3>2, <3>3
    <2>2. T[i] = "tools"
      BY <2>1, <1>2
    <2>3. i # Len(T)
      BY <2>1, <2>2, <1>4 DEF Quiet
    <2>4. i \in 1..(Len(T) - 1) /\ i + 1 \in 1..Len(T)
      BY <2>1, <2>3, <1>4
    <2> QED BY <2>2, <2>4, <1>2 DEF QueueInv, TurnsUndivided
  <1>11. ASSUME NEW m \in Messages PROVE rows'[m].at <= Len(transcript')
    <2>1. CASE m \in ToSet(k)
      <3>1. PICK i \in 1..Len(k) : k[i] = m
        BY <2>1, <1>2
      <3> QED BY <3>1, <1>1, <1>2, <1>4
    <2>2. CASE m \notin ToSet(k)
      BY <2>2, <1>1, <1>2, <1>4, <1>5
    <2> QED BY <2>1, <2>2
  <1> QED BY <1>7, <1>8, <1>9, <1>10, <1>11

LEMMA DeliverKeeps ==
    ASSUME QueueInv, NEW p \in Coroutines, Deliver(p)
    PROVE  QueueInv'
  <1> DEFINE o == runs[p]
  <1>1. PICK b \in Batches(o) :
           /\ Delivers(o, b)
           /\ \/ /\ runs' = [runs EXCEPT ![p] = Answered(@, b)]
                 /\ UNCHANGED <<receipts, lost>>
              \/ /\ Unanswered(p)
                 /\ receipts' = [receipts EXCEPT ![p] = Receipt(o, b)]
    BY DEF Deliver
  <1>2. /\ o.at \in {"deliver", "retry"} /\ Owns(p) /\ o.epoch = session.epoch
        /\ session.status = "running" /\ UNCHANGED <<lapsed, admitted, faults>>
    BY DEF Deliver, Calling, Owns
  <1>3. /\ o \in RunRecords /\ CallOK(o, receipts[p]) /\ session \in Sessions
        /\ o.epoch \in Nat /\ o.interaction \in Nat
        /\ receipts = [receipts EXCEPT ![p] = receipts[p]]
    BY Run
  <1>4. receipts[p] = NoReceipt
    BY <1>2, <1>3 DEF Deliver, Known, CallOK
  <1>5. /\ b.taken \in Seq(Messages) /\ b.through \in Keys /\ b.more \in BOOLEAN
        /\ RejectOnly(o) => b.taken = <<>>
    BY BatchFacts
  <1>6. o.call.next \in Nat /\ o.call.batch \in Nat
    BY Run DEF Calls
  <1>7. /\ transcript = o.seen /\ o.interaction = session.profile /\ Quiet(transcript)
    <2>1. SeenOK(o, NoReceipt, session.profile, transcript)
      BY <1>2, <1>4 DEF QueueInv, SeenInv
    <2>2. o.seen \o <<>> = o.seen
      BY <1>3 DEF RunRecords
    <2> QED BY <2>1, <2>2, <1>2, Blank DEF SeenOK
  <1>8. /\ KeysInv' /\ NoOvertaking' /\ DeliveredInPlace' /\ TurnsUndivided'
        /\ \A m \in Messages : rows'[m].at <= Len(transcript')
    BY <1>1, <1>7, DeliveredQueue
  <1>9. /\ rows' \in [Messages -> Rows] /\ transcript' \in Seq(Entries)
        /\ transcript' = transcript \o b.taken
    BY <1>1, DeliveredRows, DeliveredTranscript
  <1>10. Quiet(transcript')
    <2>1. CASE b.taken = <<>>
      BY <2>1, <1>7, <1>9, Types DEF QueueInv
    <2>2. CASE b.taken # <<>>
      <3>1. Len(b.taken) \in 1..Len(b.taken) /\ Len(transcript') = Len(transcript) + Len(b.taken)
        <4>1. Len(b.taken) \in 1..Len(b.taken)
          BY <2>2, <1>5
        <4> QED BY <4>1, <1>1, DeliveredTranscript
      <3>2. transcript'[Len(transcript')] \in Messages
        <4>1. /\ \A i \in 1..Len(b.taken) : transcript'[Len(transcript) + i] = b.taken[i]
              /\ \A i \in 1..Len(b.taken) : b.taken[i] \in Messages
          BY <1>1, DeliveredTranscript
        <4> QED BY <4>1, <3>1
      <3> QED BY <3>2, MessagesApart DEF Quiet
    <2> QED BY <2>1, <2>2
  <1>11. /\ session' \in Sessions /\ session'.epoch = session.epoch
         /\ session'.status = session.status
         /\ session'.profile = IF b.taken # <<>> THEN o.call.next ELSE o.interaction
    <2>1. CASE b.taken # <<>> /\ ~o.call.started
      <3>1. session' = [session EXCEPT !.profile = o.call.next, !.settled = FALSE]
        BY <2>1, <1>1 DEF Delivers
      <3> QED BY <2>1, <3>1, <1>3, <1>6 DEF Sessions
    <2>2. CASE ~(b.taken # <<>> /\ ~o.call.started)
      <3>1. session' = session
        BY <2>2, <1>1 DEF Delivers
      <3>2. o.call.started => o.call.next = o.interaction
        BY <1>2, <1>3 DEF CallOK
      <3> QED BY <2>2, <3>1, <3>2, <1>3, <1>7
    <2> QED BY <2>1, <2>2
  <1>12. PICK r \in RunRecords, c \in ReceiptRecords :
            /\ runs' = [runs EXCEPT ![p] = r] /\ receipts' = [receipts EXCEPT ![p] = c]
            /\ CallOK(r, c) /\ r.epoch = o.epoch
            /\ SeenOK(r, c, session'.profile, transcript')
            /\ lost' \in 0..MaxLost
    <2>1. CASE runs' = [runs EXCEPT ![p] = Answered(@, b)] /\ UNCHANGED <<receipts, lost>>
      <3> DEFINE r == Answered(o, b)
      <3>1. /\ r \in RunRecords /\ CallOK(r, NoReceipt) /\ r.epoch = o.epoch
            /\ r.at \in {"deliver", "model", "commit"} /\ r.seen = o.seen \o b.taken
            /\ r.interaction = IF b.taken # <<>> THEN o.call.next ELSE o.interaction
        BY <1>2, <1>3, <1>5, AnsweredOK
      <3>2. runs' = [runs EXCEPT ![p] = r] /\ receipts' = [receipts EXCEPT ![p] = NoReceipt]
        BY <2>1, <1>3, <1>4
      <3> HIDE DEF r
      <3>3. r.seen = transcript' /\ r.interaction = session'.profile /\ r.seen \o <<>> = r.seen
        BY <3>1, <1>7, <1>9, <1>11
      <3>4. SeenOK(r, NoReceipt, session'.profile, transcript')
        BY <3>1, <3>3, <1>10, Blank DEF SeenOK
      <3> QED BY <2>1, <3>1, <3>2, <3>4, Blank, Counted
    <2>2. CASE Unanswered(p) /\ receipts' = [receipts EXCEPT ![p] = Receipt(o, b)]
      <3>1. PICK at \in {"retry", "failed"} : runs' = [runs EXCEPT ![p].at = at]
        BY <2>2 DEF Unanswered
      <3> DEFINE r == [o EXCEPT !.at = at]
                 c == Receipt(o, b)
      <3>2. at \in Points
        BY DEF Points
      <3>3. /\ r \in RunRecords /\ r.at = at /\ r.epoch = o.epoch
            /\ r.interaction = o.interaction /\ r.step = o.step /\ r.seen = o.seen
            /\ r.call = o.call
        BY <3>2, <1>3, AtEdited
      <3>4. runs' = [runs EXCEPT ![p] = r]
        BY <3>1
      <3>5. c \in ReceiptRecords /\ c.taken = b.taken /\ c.id = DeliveryId(o)
        BY <1>5, <1>6 DEF Receipt, DeliveryId, ReceiptRecords
      <3> HIDE DEF r, c
      <3>6. CallOK(r, c)
        <4>1. DeliveryId(r) = DeliveryId(o) /\ (RejectOnly(r) <=> RejectOnly(o))
          BY <3>3 DEF DeliveryId, RejectOnly
        <4> QED BY <4>1, <3>1, <3>3, <3>5, <1>2, <1>3, <1>5 DEF CallOK
      <3>7. SeenOK(r, c, session'.profile, transcript')
        BY <3>1, <3>3, <3>5, <1>7, <1>9, <1>10, <1>11 DEF SeenOK
      <3>8. lost' \in 0..MaxLost
        BY <2>2, LostOrFault DEF Unanswered
      <3> QED BY <2>2, <3>3, <3>4, <3>5, <3>6, <3>7, <3>8 DEF c
    <2> QED BY <1>1, <2>1, <2>2
  <1>13. r.epoch <= session'.epoch /\ session.epoch <= session'.epoch
    BY <1>2, <1>3, <1>11, <1>12
  <1>14. TypeOK'
    <2>1. /\ receipts' \in [Coroutines -> ReceiptRecords] /\ runs' \in [Coroutines -> RunRecords]
          /\ \A q \in Coroutines : runs'[q].epoch <= session'.epoch
      BY <1>11, <1>12, <1>13, RunTyped DEF QueueInv
    <2>2. lapsed' \subseteq Expiring /\ admitted' \in 0..MaxRuns /\ faults' \in 0..MaxFaults
      BY <1>2 DEF QueueInv, TypeOK
    <2> QED BY <2>1, <2>2, <1>8, <1>9, <1>11, <1>12, Typed
  <1>15. OneOwner' /\ CallInv' /\ SeenInv'
    BY <1>2, <1>11, <1>12, RunsKept DEF QueueInv
  <1>16. FreshInv'
    BY <1>2, <1>12, FreshKept DEF QueueInv
  <1>17. NoneLeftBehind'
    BY <1>2, <1>11 DEF NoneLeftBehind
  <1> QED BY <1>8, <1>14, <1>15, <1>16, <1>17 DEF QueueInv

-----------------------------------------------------------------------------
(* The theorems *)

LEMMA InitQueue ==
    ASSUME Init
    PROVE  QueueInv
  <1>1. Idle \in RunRecords /\ Idle.at = "idle" /\ Idle.epoch = 0 /\ NoReceipt \in ReceiptRecords
        /\ CallOK(Idle, NoReceipt)
    BY Blank
  <1>2. Absent \in Rows /\ Absent.at = 0 /\ Absent.status = "absent" /\ Absent.key = 0
    BY Numbers DEF Absent, NoTarget, Rows
  <1>3. /\ \A p \in Coroutines : runs[p] = Idle /\ receipts[p] = NoReceipt
        /\ \A m \in Messages : rows[m] = Absent
        /\ transcript = <<>> /\ session.status = "pending" /\ session.epoch = 0
    BY DEF Init
  <1>4. TypeOK
    <2>1. /\ session \in Sessions /\ transcript \in Seq(Entries) /\ lapsed \subseteq Expiring
          /\ admitted \in 0..MaxRuns /\ lost \in 0..MaxLost /\ faults \in 0..MaxFaults
      BY Numbers DEF Init, Sessions
    <2>2. rows \in [Messages -> [status : {"absent", "queued", "delivered", "withdrawn", "stale",
                                           "expired"},
                                 mode : {"none", "next_turn", "on_idle"}, key : Keys,
                                 at : 0..Len(transcript), target : [epoch : Nat, cursor : Nat]]]
      BY <1>2, <1>3 DEF Init, Rows
    <2>3. runs \in [Coroutines -> [at : Points, epoch : 0..session.epoch, interaction : Nat,
                                   step : 0..MaxSteps, seen : Seq(Entries), call : Calls]]
      BY <1>1, <1>3 DEF Init, RunRecords
    <2>4. receipts \in [Coroutines -> ReceiptRecords]
      BY <1>1 DEF Init
    <2> QED BY <2>1, <2>2, <2>3, <2>4 DEF TypeOK, Sessions, ReceiptRecords
  <1>5. KeysInv
    BY <1>2, <1>3, PresentCounted DEF KeysInv
  <1>6. OneOwner /\ SeenInv /\ CallInv /\ FreshInv
    BY <1>1, <1>3, Numbers DEF OneOwner, SeenInv, CallInv, FreshInv
  <1>7. NoneLeftBehind /\ NoOvertaking
    BY <1>2, <1>3 DEF NoneLeftBehind, NoOvertaking
  <1>8. DeliveredInPlace /\ TurnsUndivided
    BY <1>2, <1>3 DEF DeliveredInPlace, TurnsUndivided
  <1> QED BY <1>4, <1>5, <1>6, <1>7, <1>8 DEF QueueInv

LEMMA NextQueue ==
    ASSUME QueueInv, [Next]_vars
    PROVE  QueueInv'
  <1>1. ASSUME NEW m \in Messages, Enqueue(m) \/ Withdraw(m) \/ Lapse(m)
        PROVE  QueueInv'
    BY <1>1, EnqueueKeeps, WithdrawKeeps, LapseKeeps
  <1>2. ASSUME NEW p \in Coroutines, RunStep(p)
        PROVE  QueueInv'
    BY <1>2, LoadKeeps, ModelStepKeeps, SettleKeeps, DeliverKeeps, ReplayKeeps,
       DeliveryRefusedKeeps, CommitKeeps, StopKeeps, FencedKeeps DEF RunStep
  <1>3. ASSUME NEW p \in Coroutines, StepFails(p) \/ CallFails(p) \/ Crash(p)
        PROVE  QueueInv'
    BY <1>3, StepFailsKeeps, CallFailsKeeps, CrashKeeps
  <1>4. ASSUME NEW p \in Runs, Admit(p)
        PROVE  QueueInv'
    BY <1>4, AdmitKeeps
  <1>5. CASE Claim \/ Recover \/ RequestInterrupt
    BY <1>5, ClaimKeeps, RecoverKeeps, RequestInterruptKeeps
  <1>6. CASE UNCHANGED vars
    <2>1. UNCHANGED <<session, transcript, rows, lapsed, receipts, runs, admitted, lost, faults>>
      BY <1>6 DEF vars
    <2>2. TypeOK'
      BY <2>1 DEF QueueInv, TypeOK
    <2>3. KeysInv' /\ NoOvertaking' /\ DeliveredInPlace' /\ TurnsUndivided' /\ Queued' = Queued
      BY <2>1, QueueKept DEF QueueInv
    <2> QED BY <2>1, <2>2, <2>3, RunsUntouched DEF QueueInv, NoneLeftBehind
  <1> QED BY <1>1, <1>2, <1>3, <1>4, <1>5, <1>6 DEF Next

(* Every reachable state of the queue and of its runs satisfies the        *)
(* inductive invariant.                                                    *)
THEOREM QueueInvariant == Spec => []QueueInv
  <1>1. Init => QueueInv
    BY InitQueue
  <1>2. QueueInv /\ [Next]_vars => QueueInv'
    BY NextQueue
  <1> QED BY <1>1, <1>2, PTL DEF Spec

(* The session, the queue, the receipts and the runs keep their types, and *)
(* no run takes more model steps than max_steps.                           *)
THEOREM QueueTypes == Spec => []TypeOK
  <1>1. QueueInv => TypeOK
    BY DEF QueueInv
  <1> QED BY <1>1, QueueInvariant, PTL

(* Whatever answers were lost and whoever interfered, a run that still     *)
(* owns the epoch gives the model the durable transcript, under the        *)
(* interaction that the profile names.                                     *)
THEOREM ModelAlwaysSeesTranscript == Spec => []ModelSeesTranscript
  <1>1. QueueInv => ModelSeesTranscript
    BY DEF QueueInv, SeenInv, SeenOK, ModelSeesTranscript
  <1> QED BY <1>1, QueueInvariant, PTL

(* No accepted message is left behind in the queue of a completed session. *)
THEOREM NoMessageLeftBehind == Spec => []NoneLeftBehind
  <1>1. QueueInv => NoneLeftBehind
    BY DEF QueueInv
  <1> QED BY <1>1, QueueInvariant, PTL

(* Batches, limits and delivery modes never let a message overtake an      *)
(* earlier one of its kind.                                                *)
THEOREM MessagesKeepTheirOrder == Spec => []NoOvertaking
  <1>1. QueueInv => NoOvertaking
    BY DEF QueueInv
  <1> QED BY <1>1, QueueInvariant, PTL

(* A delivered message is in the transcript once, where its row says, and  *)
(* a targeted one where its sender asked; no other message is in it.       *)
THEOREM MessagesAreDeliveredInPlace == Spec => []DeliveredInPlace
  <1>1. QueueInv => DeliveredInPlace
    BY DEF QueueInv
  <1> QED BY <1>1, QueueInvariant, PTL

(* Nothing queued comes between a tool round and the step after it. *)
THEOREM TurnsAreNotDivided == Spec => []TurnsUndivided
  <1>1. QueueInv => TurnsUndivided
    BY DEF QueueInv
  <1> QED BY <1>1, QueueInvariant, PTL

=============================================================================
