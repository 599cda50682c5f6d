------------------------ MODULE WebhookWorker_proofs ------------------------
(***************************************************************************)
(* The theorems of WebhookWorker.  Its properties are about the rows the   *)
(* tables gain and the faults; what makes them inductive is which rows a   *)
(* life of the process may still write.                                    *)
(***************************************************************************)
EXTENDS WebhookWorker, FiniteSetTheorems, WellFoundedInduction, TLAPS

\* The registrations that have no row yet for the event being delivered.
Left == IF w.pc = "dead" THEN w.subs \ {Current} ELSE w.subs

Ahead(row) == w.pc \in Handling /\ w.event = row[2] /\ row[1] \in Left

\* The rows of an event that this life of the process has seen and has not ahead
\* of it may be one more than the faults.
RowsOfThisLife ==
  \A row \in Registrations \X Events :
    db.delivered[row] + db.failed[row] <= faults + (IF TxHash(row[2]) \in w.seen /\ ~Ahead(row) THEN 1 ELSE 0)

\* A failed delivery whose dead letter is missing, which is written next.
Pending(row) == IF w.pc = "dead" /\ row \in InHand THEN 1 ELSE 0

DeadLetters ==
  \A row \in Registrations \X Events :
    /\ db.dead[row] + Pending(row) <= db.failed[row]
    /\ db.failed[row] <= db.dead[row] + faults + Pending(row)

IndInv ==
  /\ TypeOK
  /\ w.pc \in Handling => TxHash(w.event) \in w.seen
  /\ w.pc = "dead" => got \cap InHand = {}
  /\ w.pc = "down" => w.seen = {}
  /\ Cardinality(got \ InHand) <= faults
  /\ RowsOfThisLife
  /\ DeadLetters

-----------------------------------------------------------------------------
(***************************************************************************)
(* Operators.                                                              *)
(***************************************************************************)

LEMMA LeastIsMember ==
  ASSUME NEW S \in SUBSET Nat, S # {}
  PROVE  Least(S) \in S
<1>1. PICK x \in S : \A y \in S : ~(<<y, x>> \in OpToRel(<, Nat))
  BY NatLessThanWellFounded, WFMin
<1>2. \A y \in S : ~(y < x)
  BY <1>1 DEF OpToRel
<1>3. \A y \in S : x <= y
  BY <1>2
<1>4. QED
  BY <1>3 DEF Least

LEMMA WorkerType ==
  ASSUME NEW pc \in Steps, NEW seen \in SUBSET (1 .. StoreCap + 1)
  PROVE  Worker(pc, seen) \in WorkerState
<1>1. 0 \in 0 .. MaxEvents /\ 0 \in 0 .. MaxRetries
  BY NumbersAssumption
<1>2. QED
  BY <1>1 DEF Worker, WorkerState

LEMMA HashType ==
  ASSUME NEW e \in Events
  PROVE  TxHash(e) \in 1 .. StoreCap + 1
  BY NumbersAssumption DEF TxHash, Events

\* The rows that there can be are finitely many.
LEMMA RowsFinite ==
  ASSUME NEW A \in SUBSET (Registrations \X Events)
  PROVE  IsFiniteSet(A) /\ Cardinality(A) \in Nat
<1>1. IsFiniteSet(Registrations) /\ IsFiniteSet(Events)
  BY NumbersAssumption, FS_Interval DEF Registrations, Events
<1>2. IsFiniteSet(Registrations \X Events)
  BY <1>1, FS_Product
<1>3. QED
  BY <1>2, FS_Subset, FS_CardinalityType

\* What is in hand is a row.
LEMMA InHandIs ==
  ASSUME TypeOK
  PROVE  /\ w.pc \in Handling => Current \in w.subs /\ Current \in Registrations /\ w.event \in Events
                                 /\ InHand = {<<Current, w.event>>}
         /\ w.pc \notin Handling => InHand = {}
         /\ InHand \in SUBSET (Registrations \X Events)
<1>1. CASE w.pc \in Handling
  <2>1. w.subs # {} /\ w.subs \in SUBSET Registrations /\ w.event \in Events
    BY <1>1 DEF TypeOK, WorkerState
  <2>2. w.subs \in SUBSET Nat
    BY <2>1 DEF Registrations
  <2>3. Current \in w.subs
    BY <2>1, <2>2, LeastIsMember DEF Current
  <2>4. QED
    BY <1>1, <2>1, <2>3 DEF InHand
<1>2. CASE w.pc \notin Handling
  BY <1>2 DEF InHand
<1>3. QED
  BY <1>1, <1>2

\* One row more.
LEMMA OneMoreIs ==
  ASSUME TypeOK, NEW table \in Rows
  PROVE  /\ OneMore(table) \in Rows
         /\ \A row \in Registrations \X Events :
              OneMore(table)[row] = table[row] + (IF row \in InHand THEN 1 ELSE 0)
  BY DEF OneMore, Rows

\* Of the arrivals without a row, those in hand count only once they no longer are.
LEMMA ArrivalsBound ==
  ASSUME NEW A, NEW B \in SUBSET (Registrations \X Events), A \subseteq B, NEW n \in Nat, Cardinality(B) <= n
  PROVE  Cardinality(A) <= n
<1>1. IsFiniteSet(B) /\ Cardinality(B) \in Nat /\ Cardinality(A) \in Nat
  BY RowsFinite
<1>2. Cardinality(A) <= Cardinality(B)
  BY <1>1, FS_Subset
<1>3. QED
  BY <1>1, <1>2

-----------------------------------------------------------------------------
(***************************************************************************)
(* Kinds of steps.                                                         *)
(***************************************************************************)

\* The worker goes on without anything new in hand; it has seen all it had.
LEMMA IdleStep ==
  ASSUME IndInv, w' \in WorkerState, w'.pc \notin Handling, w.pc \notin Handling,
         w.seen \subseteq w'.seen, w'.pc # "down", faults' = faults \/ Fault, UNCHANGED <<feed, db, got>>
  PROVE  IndInv'
<1>1. faults' \in 0 .. MaxFaults /\ faults \in Nat /\ faults' \in Nat /\ faults <= faults'
  BY NumbersAssumption DEF IndInv, TypeOK, Fault
<1>2. TypeOK'
  BY <1>1 DEF IndInv, TypeOK, Rows, Handling
<1>3. InHand = {} /\ InHand' = {}
  BY DEF InHand
<1>4. Cardinality(got' \ InHand') <= faults'
  <2>1. Cardinality(got) <= faults /\ Cardinality(got) \in Nat
    BY <1>3, RowsFinite DEF IndInv, TypeOK
  <2>2. QED
    BY <1>1, <1>3, <2>1
<1>5. \A row \in Registrations \X Events : ~Ahead(row) /\ ~Ahead(row)' /\ Pending(row) = 0 /\ Pending(row)' = 0
  BY <1>3 DEF Ahead, Pending
<1>6. \A row \in Registrations \X Events : db.delivered[row] \in Nat /\ db.failed[row] \in Nat /\ db.dead[row] \in Nat
  BY DEF IndInv, TypeOK, Rows
<1>7. RowsOfThisLife'
  <2>1. ASSUME NEW row \in Registrations \X Events
        PROVE  db.delivered[row] + db.failed[row] <= faults' + (IF TxHash(row[2]) \in w'.seen THEN 1 ELSE 0)
    BY <1>1, <1>5, <1>6 DEF IndInv, RowsOfThisLife
  <2>2. QED
    BY <1>5, <2>1 DEF RowsOfThisLife, TxHash
<1>8. DeadLetters'
  <2>1. ASSUME NEW row \in Registrations \X Events
        PROVE  db.dead[row] <= db.failed[row] /\ db.failed[row] <= db.dead[row] + faults'
    BY <1>1, <1>5, <1>6 DEF IndInv, DeadLetters
  <2>2. QED
    BY <1>1, <1>5, <1>6, <2>1 DEF DeadLetters
<1>9. QED
  BY <1>2, <1>3, <1>4, <1>7, <1>8 DEF IndInv, Handling

\* The process or its thread ends at a fault, whatever it was about to do.
LEMMA EndStep ==
  ASSUME IndInv, w' \in WorkerState, w'.pc \notin Handling, w'.pc = "down" => w'.seen = {}, Fault,
         UNCHANGED <<feed, db, got>>
  PROVE  IndInv'
<1>1. faults' \in 0 .. MaxFaults /\ faults \in Nat /\ faults' = faults + 1
  BY NumbersAssumption DEF IndInv, TypeOK, Fault
<1>2. TypeOK'
  BY <1>1 DEF IndInv, TypeOK, Rows, Handling
<1>3. InHand' = {}
  BY DEF InHand
<1>4. Cardinality(got' \ InHand') <= faults'
  <2>1. InHand \in SUBSET (Registrations \X Events) /\ got \in SUBSET (Registrations \X Events) /\ IsFiniteSet(InHand)
        /\ Cardinality(InHand) <= 1
    <3>1. TypeOK /\ got \in SUBSET (Registrations \X Events)
      BY DEF IndInv, TypeOK
    <3>2. IsFiniteSet(InHand) /\ Cardinality(InHand) <= 1
      <4>1. CASE w.pc \in Handling
        <5>1. InHand = {<<Current, w.event>>}
          BY <3>1, <4>1, InHandIs
        <5> DEFINE x == <<Current, w.event>>
        <5>2. IsFiniteSet({x}) /\ Cardinality({x}) = 1
          <6> HIDE DEF x
          <6>1. QED
            BY FS_Singleton
        <5>3. IsFiniteSet(InHand) /\ Cardinality(InHand) = 1
          BY <5>1, <5>2
        <5>4. QED
          BY <5>3
      <4>2. CASE w.pc \notin Handling
        BY <3>1, <4>2, InHandIs, FS_EmptySet
      <4>3. QED
        BY <4>1, <4>2
    <3>3. QED
      BY <3>1, <3>2, InHandIs
  <2> DEFINE A == got \ InHand
  <2>2. IsFiniteSet(A) /\ Cardinality(A) \in Nat /\ Cardinality(A) <= faults /\ Cardinality(InHand) \in Nat
    <3>1. A \in SUBSET (Registrations \X Events)
      BY <2>1
    <3>2. QED
      BY <2>1, <3>1, RowsFinite DEF IndInv
  <2>3. Cardinality(A \cup InHand) = Cardinality(A) + Cardinality(InHand) - Cardinality(A \cap InHand)
    BY <2>1, <2>2, FS_Union
  <2>4. A \cap InHand = {} /\ got \subseteq A \cup InHand /\ A \cup InHand \in SUBSET (Registrations \X Events)
    BY <2>1
  <2>5. Cardinality(A \cap InHand) = 0
    BY <2>4, FS_EmptySet
  <2> HIDE DEF A
  <2>6. Cardinality(A \cup InHand) <= faults + 1
    BY <1>1, <2>1, <2>2, <2>3, <2>5
  <2>7. Cardinality(got) <= faults + 1
    BY <1>1, <2>4, <2>6, ArrivalsBound
  <2>8. got' \ InHand' = got
    BY <1>3
  <2>9. QED
    BY <1>1, <2>7, <2>8
<1>5. \A row \in Registrations \X Events : Pending(row) \in {0, 1} /\ Pending(row)' = 0
  BY <1>3 DEF Pending
<1>6. \A row \in Registrations \X Events : db.delivered[row] \in Nat /\ db.failed[row] \in Nat /\ db.dead[row] \in Nat
  BY DEF IndInv, TypeOK, Rows
<1>7. RowsOfThisLife'
  <2>1. ASSUME NEW row \in Registrations \X Events
        PROVE  db.delivered[row] + db.failed[row] <= faults + 1
    BY <1>1, <1>6 DEF IndInv, RowsOfThisLife
  <2>2. ASSUME NEW row \in Registrations \X Events
        PROVE  db'.delivered[row] + db'.failed[row] <= faults'
    BY <1>1, <2>1
  <2>3. QED
    BY <1>1, <1>6, <2>2 DEF RowsOfThisLife
<1>8. DeadLetters'
  <2>1. ASSUME NEW row \in Registrations \X Events
        PROVE  db.dead[row] <= db.failed[row] /\ db.failed[row] <= db.dead[row] + faults'
    BY <1>1, <1>5, <1>6 DEF IndInv, DeadLetters
  <2>2. QED
    BY <1>1, <1>5, <1>6, <2>1 DEF DeadLetters
<1>9. QED
  BY <1>2, <1>3, <1>4, <1>7, <1>8 DEF IndInv, Handling

\* A step of the others: the rows and the worker stay.
LEMMA OtherStep ==
  ASSUME IndInv, TypeOK', UNCHANGED <<w, faults, got>>,
         db'.delivered = db.delivered, db'.failed = db.failed, db'.dead = db.dead
  PROVE  IndInv'
<1>1. InHand' = InHand
  BY DEF InHand, Current
<1>2. RowsOfThisLife'
  <2>1. \A row \in Registrations \X Events : Ahead(row)' = Ahead(row)
    BY DEF Ahead, Left, Current
  <2>2. QED
    BY <2>1 DEF IndInv, RowsOfThisLife, TxHash
<1>3. DeadLetters'
  <2>1. \A row \in Registrations \X Events : Pending(row)' = Pending(row)
    BY <1>1 DEF Pending
  <2>2. QED
    BY <2>1 DEF IndInv, DeadLetters
<1>4. QED
  BY <1>1, <1>2, <1>3 DEF IndInv, Handling, TxHash

LEMMA AuthorityStep ==
  ASSUME IndInv, \/ \E verified \in BOOLEAN : Ingest(verified)
                 \/ \E e \in Events : Vote(e)
                 \/ \E enabled \in BOOLEAN : Register(enabled)
  PROVE  IndInv'
<1>1. /\ feed.last \in 0 .. MaxEvents /\ feed.verified \subseteq 1 .. feed.last /\ MaxEvents \in Nat /\ MaxRegistrations \in Nat
      /\ db.enabled \in Seq(BOOLEAN) /\ Len(db.enabled) <= MaxRegistrations
  BY NumbersAssumption DEF IndInv, TypeOK
<1>2. ASSUME NEW verified \in BOOLEAN, Ingest(verified)
      PROVE  IndInv'
  <2>1. feed'.last = feed.last + 1 /\ feed'.verified \subseteq feed.verified \cup {feed.last + 1}
        /\ feed.last < MaxEvents /\ UNCHANGED <<db, w, faults, got>>
        /\ feed' = [last |-> feed'.last, verified |-> feed'.verified]
    BY <1>2 DEF Ingest
  <2>2. feed'.last \in 0 .. MaxEvents /\ feed'.verified \subseteq 1 .. feed'.last
        /\ feed' \in [last : 0 .. MaxEvents, verified : SUBSET Events]
    BY <1>1, <2>1 DEF Events
  <2>3. TypeOK'
    BY <2>1, <2>2 DEF IndInv, TypeOK
  <2>4. QED
    BY <2>1, <2>3, OtherStep
<1>3. ASSUME NEW e \in Events, Vote(e)
      PROVE  IndInv'
  <2>1. feed' = [feed EXCEPT !.verified = @ \cup {e}] /\ e \in 1 .. feed.last /\ UNCHANGED <<db, w, faults, got>>
    BY <1>3 DEF Vote, OnPage
  <2>2. feed'.last \in 0 .. MaxEvents /\ feed'.verified \subseteq 1 .. feed'.last
    BY <1>1, <2>1
  <2>3. TypeOK'
    BY <2>1, <2>2 DEF IndInv, TypeOK
  <2>4. QED
    BY <2>1, <2>3, OtherStep
<1>4. ASSUME NEW enabled \in BOOLEAN, Register(enabled)
      PROVE  IndInv'
  <2>1. db' = [db EXCEPT !.enabled = Append(@, enabled)] /\ Len(db.enabled) < MaxRegistrations
        /\ UNCHANGED <<feed, w, faults, got>>
    BY <1>4 DEF Register
  <2>2. db'.delivered = db.delivered /\ db'.failed = db.failed /\ db'.dead = db.dead
    BY <2>1
  <2>3. db'.enabled \in Seq(BOOLEAN) /\ Len(db'.enabled) <= MaxRegistrations
    BY <1>1, <2>1
  <2>4. TypeOK'
    BY <2>1, <2>2, <2>3 DEF IndInv, TypeOK
  <2>5. QED
    BY <2>1, <2>2, <2>4, OtherStep
<1>5. QED
  BY <1>2, <1>3, <1>4

\* A step of the thread between two deliveries.
LEMMA RoundStep ==
  ASSUME IndInv, Poll \/ ReadSubscriptions \/ NextRound \/ Startup
  PROVE  IndInv'
<1>1. /\ w \in WorkerState /\ w.seen \in SUBSET (1 .. StoreCap + 1) /\ feed.verified \subseteq Events
      /\ Enabled \in SUBSET Registrations
  <2>1. Len(db.enabled) \in Nat /\ Len(db.enabled) <= MaxRegistrations /\ MaxRegistrations \in Nat
        /\ DOMAIN db.enabled = 1 .. Len(db.enabled) /\ feed.last <= MaxEvents /\ feed.last \in Nat
        /\ feed.verified \subseteq 1 .. feed.last /\ MaxEvents \in Nat
    BY NumbersAssumption DEF IndInv, TypeOK, Events
  <2>2. feed.verified \subseteq Events
    BY <2>1 DEF Events
  <2>3. Enabled \in SUBSET Registrations
    BY <2>1 DEF Enabled, Registrations
  <2>4. QED
    BY <2>2, <2>3 DEF IndInv, TypeOK, WorkerState
<1>2. CASE Poll
  <2>1. w.pc = "poll" /\ UNCHANGED <<feed, db, got>> /\ (faults' = faults \/ Fault)
        /\ \E todo \in SUBSET Events : w' = [w EXCEPT !.pc = "subscriptions", !.todo = todo]
    BY <1>1, <1>2 DEF Poll, VerifiedOnPage
  <2>2. w' \in WorkerState /\ w'.pc = "subscriptions" /\ w'.seen = w.seen
    BY <1>1, <2>1 DEF WorkerState, Steps
  <2>3. QED
    BY <2>1, <2>2, IdleStep DEF Handling
<1>3. CASE ReadSubscriptions
  <2>1. w.pc = "subscriptions" /\ UNCHANGED <<feed, db, got, faults>> /\ w' = [w EXCEPT !.pc = "pick", !.all = Enabled]
    BY <1>3 DEF ReadSubscriptions
  <2>2. w' \in WorkerState /\ w'.pc = "pick" /\ w'.seen = w.seen
    BY <1>1, <2>1 DEF WorkerState, Steps
  <2>3. QED
    BY <2>1, <2>2, IdleStep DEF Handling
<1>4. ASSUME w' = Worker("poll", w.seen), w.pc \in {"pick", "down"}, UNCHANGED <<feed, db, got, faults>>
      PROVE  IndInv'
  <2>1. w' \in WorkerState
    BY <1>1, <1>4, WorkerType DEF Steps
  <2>2. w'.pc = "poll" /\ w'.seen = w.seen
    BY <1>4 DEF Worker
  <2>3. QED
    BY <1>4, <2>1, <2>2, IdleStep DEF Handling
<1>5. NextRound => w' = Worker("poll", w.seen) /\ w.pc = "pick" /\ UNCHANGED <<feed, db, got, faults>>
  BY DEF NextRound
<1>6. Startup => w' = Worker("poll", w.seen) /\ w.pc = "down" /\ UNCHANGED <<feed, db, got, faults>>
  BY DEF Startup, IndInv
<1>7. QED
  BY <1>2, <1>3, <1>4, <1>5, <1>6

\* The process or the thread ends.
LEMMA FaultStep ==
  ASSUME IndInv, Stop \/ DatabaseFails
  PROVE  IndInv'
<1>1. w.seen \in SUBSET (1 .. StoreCap + 1)
  BY DEF IndInv, TypeOK, WorkerState
<1>2. CASE Stop
  <2>1. w' = Worker("down", {}) /\ Fault /\ UNCHANGED <<feed, db, got>>
    BY <1>2 DEF Stop
  <2>2. w' \in WorkerState
    BY <2>1, WorkerType DEF Steps
  <2>3. w'.pc = "down" /\ w'.seen = {}
    BY <2>1 DEF Worker
  <2>4. QED
    BY <2>1, <2>2, <2>3, EndStep DEF Handling
<1>3. CASE DatabaseFails
  <2>1. w' = Worker("ended", w.seen) /\ Fault /\ UNCHANGED <<feed, db, got>>
    BY <1>3 DEF DatabaseFails, End
  <2>2. w' \in WorkerState
    BY <1>1, <2>1, WorkerType DEF Steps
  <2>3. w'.pc = "ended"
    BY <2>1 DEF Worker
  <2>4. QED
    BY <2>1, <2>2, <2>3, EndStep DEF Handling
<1>4. QED
  BY <1>2, <1>3

\* What Delivering and Onward leave.
LEMMA DeliveringIs ==
  ASSUME TypeOK, NEW events \in SUBSET Events, NEW seen \in SUBSET (1 .. StoreCap + 1)
  PROVE  /\ Delivering(events) \in WorkerState
         /\ Delivering(events).pc = "pick" /\ Delivering(events).seen = w.seen
         /\ [Delivering(events) EXCEPT !.seen = seen] \in WorkerState
         /\ [Delivering(events) EXCEPT !.seen = seen].pc = "pick"
         /\ [Delivering(events) EXCEPT !.seen = seen].seen = seen
<1> DEFINE idle == Worker("pick", w.seen)
<1>1. w.seen \in SUBSET (1 .. StoreCap + 1) /\ w.all \in SUBSET Registrations
  BY DEF TypeOK, WorkerState
<1>2. idle \in WorkerState
  BY <1>1, WorkerType DEF Steps
<1>3. idle.pc = "pick" /\ idle.seen = w.seen
  BY DEF Worker
<1>4. Delivering(events) = [idle EXCEPT !.todo = events, !.all = w.all]
  BY DEF Delivering
<1> HIDE DEF idle
<1>5. Delivering(events) \in WorkerState /\ Delivering(events).pc = "pick" /\ Delivering(events).seen = w.seen
  BY <1>1, <1>2, <1>3, <1>4 DEF WorkerState
<1>6. QED
  BY <1>5 DEF WorkerState

LEMMA PickStep ==
  ASSUME IndInv, Pick
  PROVE  IndInv'
<1> DEFINE e == Least(w.todo)
           rest == w.todo \ {e}
<1>1. TypeOK /\ w \in WorkerState /\ w.pc = "pick" /\ w.todo # {} /\ w.todo \in SUBSET Events
      /\ w.all \in SUBSET Registrations /\ w.seen \in SUBSET (1 .. StoreCap + 1)
  BY DEF IndInv, TypeOK, WorkerState, Pick
<1>2. e \in w.todo /\ e \in Events /\ rest \in SUBSET Events
  <2>1. w.todo \in SUBSET Nat
    BY <1>1 DEF Events
  <2>2. QED
    BY <1>1, <2>1, LeastIsMember
<1>3. UNCHANGED <<feed, db, faults, got>>
  BY DEF Pick
<1>4. w' = IF TxHash(e) \in w.seen \/ w.all = {}
             THEN [Delivering(rest) EXCEPT !.seen = Remembered(e)]
             ELSE [w EXCEPT !.todo = rest, !.seen = Remembered(e), !.pc = "post", !.event = e, !.attempt = 1, !.subs = w.all]
  BY DEF Pick
<1>5. Remembered(e) \in SUBSET (1 .. StoreCap + 1) /\ w.seen \subseteq Remembered(e) /\ TxHash(e) \in Remembered(e)
  BY <1>1, <1>2, HashType DEF Remembered
<1> HIDE DEF e, rest
<1>6. CASE TxHash(e) \in w.seen \/ w.all = {}
  <2>1. w' \in WorkerState /\ w'.pc = "pick" /\ w'.seen = Remembered(e)
    BY <1>1, <1>2, <1>4, <1>5, <1>6, DeliveringIs
  <2>2. QED
    BY <1>1, <1>3, <1>5, <2>1, IdleStep DEF Handling
<1>7. CASE ~(TxHash(e) \in w.seen \/ w.all = {})
  <2>1. w' \in WorkerState
    <3>1. e \in 0 .. MaxEvents /\ 1 \in 0 .. MaxRetries /\ "post" \in Steps
      BY <1>2, NumbersAssumption DEF Events, Steps
    <3>2. QED
      BY <1>1, <1>2, <1>4, <1>5, <1>7, <3>1 DEF WorkerState
  <2>2. w'.pc = "post" /\ w'.seen = Remembered(e) /\ w'.event = e /\ w'.subs = w.all
    BY <1>1, <1>4, <1>7 DEF WorkerState
  <2>3. TypeOK'
    BY <1>1, <1>2, <1>3, <1>7, <2>1, <2>2 DEF TypeOK, Handling
  <2>4. InHand = {}
    BY <1>1 DEF InHand, Handling
  <2>5. Cardinality(got' \ InHand') <= faults'
    <3>1. got' \ InHand' \subseteq got /\ got \in SUBSET (Registrations \X Events) /\ faults \in Nat
      BY <1>1, <1>3, NumbersAssumption DEF TypeOK
    <3>2. Cardinality(got) <= faults
      <4>1. got = got \ InHand
        BY <2>4
      <4>2. QED
        BY <4>1 DEF IndInv
    <3>3. QED
      BY <1>3, <3>1, <3>2, ArrivalsBound
  <2>6. RowsOfThisLife'
    <3>1. ASSUME NEW row \in Registrations \X Events
          PROVE  db.delivered[row] + db.failed[row]
                   <= faults + (IF TxHash(row[2]) \in Remembered(e) /\ ~Ahead(row)' THEN 1 ELSE 0)
      <4>1. db.delivered[row] \in Nat /\ db.failed[row] \in Nat /\ faults \in Nat
        BY <1>1, NumbersAssumption DEF TypeOK, Rows
      <4>2. CASE TxHash(row[2]) \in w.seen
        <5>1. row[2] # e
          BY <1>7, <4>2
        <5>2. ~Ahead(row)'
          BY <2>2, <5>1 DEF Ahead
        <5>3. ~Ahead(row)
          BY <1>1 DEF Ahead, Handling
        <5>4. db.delivered[row] + db.failed[row] <= faults + 1
          BY <4>2, <5>3 DEF IndInv, RowsOfThisLife
        <5>5. QED
          BY <1>5, <4>2, <5>2, <5>4
      <4>3. CASE TxHash(row[2]) \notin w.seen
        <5>1. db.delivered[row] + db.failed[row] <= faults
          BY <4>1, <4>3 DEF IndInv, RowsOfThisLife
        <5>2. QED
          BY <4>1, <5>1
      <4>4. QED
        BY <4>2, <4>3
    <3>2. QED
      BY <1>3, <2>2, <3>1 DEF RowsOfThisLife, TxHash
  <2>7. DeadLetters'
    <3>1. \A row \in Registrations \X Events : Pending(row) = 0 /\ Pending(row)' = 0
      BY <1>1, <2>2 DEF Pending
    <3>2. QED
      BY <1>3, <3>1 DEF IndInv, DeadLetters
  <2>8. TxHash(w'.event) \in w'.seen
    BY <1>5, <2>2
  <2>9. QED
    BY <2>2, <2>3, <2>5, <2>6, <2>7, <2>8 DEF IndInv, TxHash
<1>8. QED
  BY <1>6, <1>7

LEMMA PostStep ==
  ASSUME IndInv, Post
  PROVE  IndInv'
<1>1. TypeOK /\ w \in WorkerState /\ w.pc = "post" /\ w.subs # {} /\ w.event \in Events
      /\ got \in SUBSET (Registrations \X Events)
  BY DEF IndInv, TypeOK, Post, Handling
<1>2. /\ UNCHANGED <<feed, db, faults>>
      /\ got' \in {got, got \cup InHand}
      /\ \E ok \in BOOLEAN : w' = IF ~ok /\ MayRetry THEN [w EXCEPT !.attempt = @ + 1]
                                  ELSE [w EXCEPT !.pc = "log", !.ok = ok]
  BY DEF Post
<1>3. /\ w' \in WorkerState /\ w'.pc \in {"post", "log"} /\ w'.seen = w.seen
      /\ w'.event = w.event /\ w'.subs = w.subs
  <2>1. PICK ok \in BOOLEAN : w' = IF ~ok /\ MayRetry THEN [w EXCEPT !.attempt = @ + 1]
                                   ELSE [w EXCEPT !.pc = "log", !.ok = ok]
    BY <1>2
  <2>2. CASE ~ok /\ MayRetry
    <3>1. w.attempt + 1 \in 0 .. MaxRetries
      BY <1>1, <2>2, NumbersAssumption DEF MayRetry, WorkerState
    <3>2. QED
      BY <1>1, <2>1, <2>2, <3>1 DEF WorkerState
  <2>3. CASE ~(~ok /\ MayRetry)
    BY <1>1, <2>1, <2>3 DEF WorkerState, Steps
  <2>4. QED
    BY <2>2, <2>3
<1>4. InHand' = InHand /\ InHand \in SUBSET (Registrations \X Events)
  BY <1>1, <1>3, InHandIs DEF InHand, Current, Handling
<1>5. TypeOK'
  BY <1>1, <1>2, <1>3, <1>4 DEF TypeOK
<1>6. got' \ InHand' = got \ InHand
  BY <1>2, <1>4
<1>7. RowsOfThisLife'
  <2>1. \A row \in Registrations \X Events : Ahead(row)' = Ahead(row)
    BY <1>1, <1>3 DEF Ahead, Left, Handling
  <2>2. QED
    BY <1>2, <1>3, <2>1 DEF IndInv, RowsOfThisLife, TxHash
<1>8. DeadLetters'
  <2>1. \A row \in Registrations \X Events : Pending(row) = 0 /\ Pending(row)' = 0
    BY <1>1, <1>3 DEF Pending
  <2>2. QED
    BY <1>2, <2>1 DEF IndInv, DeadLetters
<1>9. TxHash(w'.event) \in w'.seen
  BY <1>1, <1>3 DEF IndInv, Handling
<1>10. QED
  BY <1>2, <1>3, <1>5, <1>6, <1>7, <1>8, <1>9 DEF IndInv, TxHash

\* Where the worker is after a registration is done with.
LEMMA OnwardIs ==
  ASSUME TypeOK, w.pc \in Handling
  PROVE  /\ Onward \in WorkerState /\ Onward.seen = w.seen
         /\ \/ Onward.pc = "pick"
            \/ /\ Onward.pc = "post" /\ Onward.event = w.event
               /\ Onward.subs = w.subs \ {Current} /\ Onward.subs # {}
<1>1. w \in WorkerState /\ w.todo \in SUBSET Events /\ w.seen \in SUBSET (1 .. StoreCap + 1) /\ 1 \in 0 .. MaxRetries
  BY NumbersAssumption DEF TypeOK, WorkerState
<1> DEFINE rest == w.subs \ {Current}
<1>2. rest \in SUBSET Registrations
  BY <1>1 DEF WorkerState
<1>3. CASE rest = {}
  BY <1>1, <1>3, DeliveringIs DEF Onward
<1>4. CASE rest # {}
  <2>1. Onward = [w EXCEPT !.pc = "post", !.subs = rest, !.attempt = 1]
    BY <1>4 DEF Onward
  <2> HIDE DEF rest
  <2>2. Onward \in WorkerState /\ Onward.seen = w.seen /\ Onward.pc = "post" /\ Onward.event = w.event /\ Onward.subs = rest
    BY <1>1, <1>2, <2>1 DEF WorkerState, Steps
  <2>3. QED
    BY <1>4, <2>2 DEF rest
<1>5. QED
  BY <1>3, <1>4

\* No new arrivals, and nothing that was in hand is left among them.
LEMMA ArrivalsStep ==
  ASSUME IndInv, got' \subseteq got, got' \cap InHand = {}, faults' = faults
  PROVE  Cardinality(got' \ InHand') <= faults'
<1>1. got' \ InHand' \subseteq got \ InHand /\ got \ InHand \in SUBSET (Registrations \X Events) /\ faults \in Nat
  BY NumbersAssumption DEF IndInv, TypeOK
<1>2. QED
  BY <1>1, ArrivalsBound DEF IndInv

\* Once what is in hand has its row in the log, it is no longer ahead.
LEMMA AheadNoMore ==
  ASSUME IndInv, w.pc \in Handling, w' = Onward \/ (w' = [w EXCEPT !.pc = "dead"] /\ w.pc = "log"),
         NEW row \in Registrations \X Events, Ahead(row)'
  PROVE  Ahead(row) /\ row \notin InHand
<1>1. TypeOK /\ w \in WorkerState
  BY DEF IndInv, TypeOK
<1>2. InHand = {<<Current, w.event>>} /\ Left \in SUBSET w.subs /\ w.subs \ {Current} \subseteq Left
  BY <1>1, InHandIs DEF Left
<1>3. row = <<row[1], row[2]>>
  OBVIOUS
<1>4. CASE w' = Onward
  <2>1. /\ w'.pc = "post" /\ w'.event = w.event /\ w'.subs = w.subs \ {Current}
    BY <1>1, <1>4, OnwardIs DEF Ahead, Handling
  <2>2. w.event = row[2] /\ row[1] \in w.subs \ {Current}
    BY <2>1 DEF Ahead, Left
  <2>3. QED
    BY <1>2, <2>2 DEF Ahead
<1>5. CASE w' = [w EXCEPT !.pc = "dead"] /\ w.pc = "log"
  <2>1. w'.pc = "dead" /\ w'.event = w.event /\ w'.subs = w.subs
    BY <1>1, <1>5 DEF WorkerState
  <2>2. w.event = row[2] /\ row[1] \in w.subs \ {Current}
    BY <2>1 DEF Ahead, Left, Current
  <2>3. QED
    BY <1>2, <2>2 DEF Ahead
<1>6. QED
  BY <1>4, <1>5

LEMMA RecordDeliveryStep ==
  ASSUME IndInv, RecordDelivery
  PROVE  IndInv'
<1>1. /\ TypeOK /\ w \in WorkerState /\ w.pc = "log" /\ w.pc \in Handling /\ w.subs # {} /\ w.event \in Events
      /\ db \in [enabled : Seq(BOOLEAN), delivered : Rows, failed : Rows, dead : Rows]
      /\ faults \in Nat /\ TxHash(w.event) \in w.seen
  BY NumbersAssumption DEF IndInv, TypeOK, RecordDelivery, Handling
<1>2. /\ db' = IF w.ok THEN [db EXCEPT !.delivered = OneMore(@)] ELSE [db EXCEPT !.failed = OneMore(@)]
      /\ got' = {row \in got : db'.delivered[row] + db'.failed[row] = 0}
      /\ w' = IF w.ok THEN Onward ELSE [w EXCEPT !.pc = "dead"]
      /\ UNCHANGED <<feed, faults>>
  BY DEF RecordDelivery, Logged
<1>3. /\ OneMore(db.delivered) \in Rows /\ OneMore(db.failed) \in Rows
      /\ \A row \in Registrations \X Events :
           /\ OneMore(db.delivered)[row] = db.delivered[row] + (IF row \in InHand THEN 1 ELSE 0)
           /\ OneMore(db.failed)[row] = db.failed[row] + (IF row \in InHand THEN 1 ELSE 0)
  BY <1>1, OneMoreIs
<1>4. /\ db' \in [enabled : Seq(BOOLEAN), delivered : Rows, failed : Rows, dead : Rows]
      /\ db'.enabled = db.enabled /\ db'.dead = db.dead
      /\ w.ok => db'.delivered = OneMore(db.delivered) /\ db'.failed = db.failed
      /\ ~w.ok => db'.delivered = db.delivered /\ db'.failed = OneMore(db.failed)
  BY <1>1, <1>2, <1>3
<1>5. \A row \in Registrations \X Events :
        /\ db.delivered[row] \in Nat /\ db.failed[row] \in Nat /\ db.dead[row] \in Nat
        /\ db'.delivered[row] \in Nat /\ db'.failed[row] \in Nat
  BY <1>1, <1>4 DEF Rows
<1>6. \A row \in Registrations \X Events :
        db'.delivered[row] + db'.failed[row] = db.delivered[row] + db.failed[row] + (IF row \in InHand THEN 1 ELSE 0)
  <2>1. CASE w.ok
    BY <1>3, <1>4, <1>5, <2>1
  <2>2. CASE ~w.ok
    BY <1>3, <1>4, <1>5, <2>2
  <2>3. QED
    BY <2>1, <2>2
<1>7. InHand \in SUBSET (Registrations \X Events) /\ InHand = {<<Current, w.event>>} /\ Current \in w.subs
  BY <1>1, InHandIs
<1>8. got' \subseteq got /\ got' \cap InHand = {}
  <2>1. \A row \in InHand : db'.delivered[row] + db'.failed[row] # 0
    BY <1>5, <1>6, <1>7
  <2>2. QED
    BY <1>2, <2>1
<1>9. /\ w' \in WorkerState /\ w'.seen = w.seen
      /\ w'.pc \in Handling => w'.event = w.event /\ w'.subs # {}
      /\ w'.pc \in {"pick", "post", "dead"}
      /\ w'.pc = "dead" => ~w.ok /\ w'.subs = w.subs
      /\ ~w.ok => w'.pc = "dead"
  <2>1. CASE w.ok
    BY <1>1, <1>2, <2>1, OnwardIs DEF Handling
  <2>2. CASE ~w.ok
    BY <1>1, <1>2, <2>2 DEF WorkerState, Steps
  <2>3. QED
    BY <2>1, <2>2
<1>10. TypeOK'
  BY <1>1, <1>2, <1>4, <1>8, <1>9 DEF TypeOK
<1>11. RowsOfThisLife'
  <2>1. ASSUME NEW row \in Registrations \X Events
        PROVE  db'.delivered[row] + db'.failed[row] <= faults + (IF TxHash(row[2]) \in w.seen /\ ~Ahead(row)' THEN 1 ELSE 0)
    <3>1. Ahead(row)' => Ahead(row) /\ row \notin InHand
      BY <1>1, <1>2, AheadNoMore
    <3>2. db.delivered[row] + db.failed[row] <= faults + (IF TxHash(row[2]) \in w.seen /\ ~Ahead(row) THEN 1 ELSE 0)
      BY DEF IndInv, RowsOfThisLife
    <3>3. row \in InHand => Ahead(row) /\ row[2] = w.event
      BY <1>1, <1>7 DEF Ahead, Left
    <3>4. CASE row \in InHand
      <4>1. TxHash(row[2]) \in w.seen /\ ~Ahead(row)'
        BY <1>1, <3>1, <3>3, <3>4
      <4>2. db.delivered[row] + db.failed[row] <= faults
        BY <1>1, <1>5, <3>2, <3>3, <3>4
      <4>3. QED
        BY <1>1, <1>5, <1>6, <3>4, <4>1, <4>2
    <3>5. CASE row \notin InHand
      <4>1. db'.delivered[row] + db'.failed[row] = db.delivered[row] + db.failed[row]
        BY <1>5, <1>6, <3>5
      <4>2. CASE Ahead(row)
        <5>1. db.delivered[row] + db.failed[row] <= faults
          BY <1>1, <1>5, <3>2, <4>2
        <5>2. QED
          BY <1>1, <1>5, <4>1, <5>1
      <4>3. CASE ~Ahead(row)
        <5>1. ~Ahead(row)'
          BY <3>1, <4>3
        <5>2. QED
          BY <3>2, <4>1, <4>3, <5>1
      <4>4. QED
        BY <4>2, <4>3
    <3>6. QED
      BY <3>4, <3>5
  <2>2. QED
    BY <1>2, <1>9, <2>1 DEF RowsOfThisLife, TxHash
<1>12. InHand' = InHand \/ w'.pc # "dead"
  BY <1>1, <1>9 DEF InHand, Current, Handling
<1>13. DeadLetters'
  <2>1. ASSUME NEW row \in Registrations \X Events
        PROVE  /\ db'.dead[row] + Pending(row)' <= db'.failed[row]
               /\ db'.failed[row] <= db'.dead[row] + faults + Pending(row)'
    <3>1. Pending(row) = 0
      BY <1>1 DEF Pending
    <3>2. db.dead[row] <= db.failed[row] /\ db.failed[row] <= db.dead[row] + faults
      BY <1>1, <1>5, <3>1 DEF IndInv, DeadLetters
    <3>3. CASE w.ok
      <4>1. Pending(row)' = 0
        BY <1>9, <3>3 DEF Pending
      <4>2. QED
        BY <1>1, <1>4, <1>5, <3>2, <3>3, <4>1
    <3>4. CASE ~w.ok
      <4>1. Pending(row)' = IF row \in InHand THEN 1 ELSE 0
        BY <1>9, <1>12, <3>4 DEF Pending
      <4>2. db'.failed[row] = db.failed[row] + (IF row \in InHand THEN 1 ELSE 0)
        BY <1>3, <1>4, <3>4
      <4>3. QED
        BY <1>1, <1>4, <1>5, <3>2, <4>1, <4>2
    <3>5. QED
      BY <3>3, <3>4
  <2>2. QED
    BY <1>2, <2>1 DEF DeadLetters
<1>14. Cardinality(got' \ InHand') <= faults'
  BY <1>2, <1>8, ArrivalsStep
<1>15. w'.pc = "dead" => got' \cap InHand' = {}
  BY <1>8, <1>12
<1>16. w'.pc \in Handling => TxHash(w'.event) \in w'.seen
  BY <1>1, <1>9
<1>17. QED
  BY <1>9, <1>10, <1>11, <1>13, <1>14, <1>15, <1>16 DEF IndInv, TxHash, Handling

LEMMA RecordDeadLetterStep ==
  ASSUME IndInv, RecordDeadLetter
  PROVE  IndInv'
<1>1. /\ TypeOK /\ w \in WorkerState /\ w.pc = "dead" /\ w.pc \in Handling /\ w.subs # {} /\ w.event \in Events
      /\ db \in [enabled : Seq(BOOLEAN), delivered : Rows, failed : Rows, dead : Rows]
      /\ faults \in Nat /\ TxHash(w.event) \in w.seen /\ got \cap InHand = {}
  BY NumbersAssumption DEF IndInv, TypeOK, RecordDeadLetter, Handling
<1>2. /\ db' = [db EXCEPT !.dead = OneMore(@)]
      /\ w' = Onward /\ UNCHANGED <<feed, faults, got>>
  BY DEF RecordDeadLetter
<1>3. /\ OneMore(db.dead) \in Rows
      /\ \A row \in Registrations \X Events : OneMore(db.dead)[row] = db.dead[row] + (IF row \in InHand THEN 1 ELSE 0)
  BY <1>1, OneMoreIs
<1>4. /\ db' \in [enabled : Seq(BOOLEAN), delivered : Rows, failed : Rows, dead : Rows]
      /\ db'.enabled = db.enabled /\ db'.dead = OneMore(db.dead) /\ db'.delivered = db.delivered /\ db'.failed = db.failed
  BY <1>1, <1>2, <1>3
<1>5. \A row \in Registrations \X Events :
        /\ db.delivered[row] \in Nat /\ db.failed[row] \in Nat /\ db.dead[row] \in Nat
  BY <1>1 DEF Rows
<1>6. /\ w' \in WorkerState /\ w'.seen = w.seen
      /\ w'.pc \in {"pick", "post"}
      /\ w'.pc \in Handling => w'.event = w.event /\ w'.subs # {}
  BY <1>1, <1>2, OnwardIs DEF Handling
<1>7. TypeOK'
  BY <1>1, <1>2, <1>4, <1>6 DEF TypeOK
<1>8. RowsOfThisLife'
  <2>1. ASSUME NEW row \in Registrations \X Events
        PROVE  db.delivered[row] + db.failed[row] <= faults + (IF TxHash(row[2]) \in w.seen /\ ~Ahead(row)' THEN 1 ELSE 0)
    <3>1. Ahead(row)' => Ahead(row)
      BY <1>1, <1>2, AheadNoMore
    <3>2. db.delivered[row] + db.failed[row] <= faults + (IF TxHash(row[2]) \in w.seen /\ ~Ahead(row) THEN 1 ELSE 0)
      BY DEF IndInv, RowsOfThisLife
    <3>3. CASE Ahead(row)
      <4>1. db.delivered[row] + db.failed[row] <= faults
        BY <1>1, <1>5, <3>2, <3>3
      <4>2. QED
        BY <1>1, <1>5, <4>1
    <3>4. CASE ~Ahead(row)
      <4>1. ~Ahead(row)'
        BY <3>1, <3>4
      <4>2. QED
        BY <3>2, <3>4, <4>1
    <3>5. QED
      BY <3>3, <3>4
  <2>2. QED
    BY <1>2, <1>4, <1>6, <2>1 DEF RowsOfThisLife, TxHash
<1>9. DeadLetters'
  <2>1. ASSUME NEW row \in Registrations \X Events
        PROVE  /\ db'.dead[row] + Pending(row)' <= db'.failed[row]
               /\ db'.failed[row] <= db'.dead[row] + faults + Pending(row)'
    <3>1. Pending(row) = IF row \in InHand THEN 1 ELSE 0
      BY <1>1 DEF Pending
    <3>2. Pending(row)' = 0
      BY <1>6 DEF Pending
    <3>3. db.dead[row] + Pending(row) <= db.failed[row] /\ db.failed[row] <= db.dead[row] + faults + Pending(row)
      BY DEF IndInv, DeadLetters
    <3>4. db'.dead[row] = db.dead[row] + (IF row \in InHand THEN 1 ELSE 0)
      BY <1>3, <1>4
    <3>5. QED
      BY <1>1, <1>4, <1>5, <3>1, <3>2, <3>3, <3>4
  <2>2. QED
    BY <1>2, <2>1 DEF DeadLetters
<1>10. Cardinality(got' \ InHand') <= faults'
  BY <1>1, <1>2, ArrivalsStep
<1>11. w'.pc \in Handling => TxHash(w'.event) \in w'.seen
  BY <1>1, <1>6
<1>12. QED
  BY <1>6, <1>7, <1>8, <1>9, <1>10, <1>11 DEF IndInv, TxHash, Handling

-----------------------------------------------------------------------------
(***************************************************************************)
(* The theorems.                                                           *)
(***************************************************************************)

LEMMA InitHolds == Init => IndInv
<1> SUFFICES ASSUME Init PROVE IndInv
  OBVIOUS
<1>1. w = Worker("down", {}) /\ got = {} /\ faults = 0
  BY DEF Init
<1>2. w \in WorkerState /\ w.pc = "down" /\ w.seen = {}
  <2>1. Worker("down", {}) \in WorkerState
    BY WorkerType DEF Steps
  <2>2. QED
    BY <1>1, <2>1 DEF Worker
<1>3. NoRow \in Rows
  BY DEF NoRow, Rows
<1>4. /\ feed.last = 0 /\ feed.verified = {} /\ feed = [last |-> 0, verified |-> {}]
      /\ db = [enabled |-> <<>>, delivered |-> NoRow, failed |-> NoRow, dead |-> NoRow]
  BY DEF Init
<1>5. TypeOK
  BY <1>1, <1>2, <1>3, <1>4, NumbersAssumption DEF TypeOK, Handling
<1>6. InHand = {}
  BY <1>2 DEF InHand, Handling
<1>7. Cardinality(got \ InHand) = 0
  BY <1>1, FS_EmptySet
<1>8. \A row \in Registrations \X Events : NoRow[row] = 0 /\ Pending(row) = 0
  BY <1>2 DEF NoRow, Pending
<1>9. RowsOfThisLife /\ DeadLetters
  BY <1>1, <1>2, <1>4, <1>8 DEF RowsOfThisLife, DeadLetters
<1>10. QED
  BY <1>1, <1>2, <1>5, <1>7, <1>9 DEF IndInv, Handling

LEMMA Keeps == IndInv /\ [Next]_vars => IndInv'
<1> SUFFICES ASSUME IndInv, [Next]_vars PROVE IndInv'
  OBVIOUS
<1>1. CASE UNCHANGED vars
  <2>1. TypeOK'
    BY <1>1 DEF vars, IndInv, TypeOK
  <2>2. QED
    BY <1>1, <2>1, OtherStep DEF vars
<1>2. CASE Next
  BY <1>2, AuthorityStep, RoundStep, FaultStep, PickStep, PostStep, RecordDeliveryStep, RecordDeadLetterStep
  DEF Next, Work
<1>3. QED
  BY <1>1, <1>2

\* The worker, its tables and its memory stay in their ranges.
THEOREM TypeCorrect == Spec => []TypeOK
<1>1. IndInv => TypeOK
  BY DEF IndInv
<1>2. QED
  BY InitHolds, Keeps, <1>1, PTL DEF Spec

\* What reached a registration is logged or in hand, and a failure has its dead
\* letter, but for one per fault: for any number of events and registrations.
THEOREM AttemptsRecorded == Spec => []AttemptsAreRecorded
<1>1. IndInv => AttemptsAreRecorded
  <2> SUFFICES ASSUME IndInv PROVE AttemptsAreRecorded
    OBVIOUS
  <2>1. \A row \in Registrations \X Events :
          db.dead[row] \in Nat /\ db.failed[row] \in Nat /\ Pending(row) \in {0, 1}
    BY DEF IndInv, TypeOK, Rows, Pending
  <2>2. ASSUME NEW row \in Registrations \X Events
        PROVE  /\ db.dead[row] <= db.failed[row]
               /\ db.failed[row] <= db.dead[row] + faults + Pending(row)
    BY <2>1 DEF IndInv, DeadLetters
  <2>3. QED
    BY <2>2 DEF IndInv, AttemptsAreRecorded, Pending
<1>2. QED
  BY InitHolds, Keeps, <1>1, PTL DEF Spec

\* A registration has one row for an event per life of the process, and the lives
\* are one more than the faults.
THEOREM RowsPerLife == Spec => []OneRowPerLife
<1>1. IndInv => OneRowPerLife
  <2> SUFFICES ASSUME IndInv, NEW row \in Registrations \X Events
               PROVE  db.delivered[row] + db.failed[row] <= 1 + faults
    BY DEF OneRowPerLife
  <2>1. db.delivered[row] \in Nat /\ db.failed[row] \in Nat /\ faults \in Nat
    BY NumbersAssumption DEF IndInv, TypeOK, Rows
  <2>2. QED
    BY <2>1 DEF IndInv, RowsOfThisLife
<1>2. QED
  BY InitHolds, Keeps, <1>1, PTL DEF Spec
=============================================================================
