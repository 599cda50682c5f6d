------------------------- MODULE FLAggregator_proofs -------------------------
(***************************************************************************)
(* Proofs about FLAggregator: for any finite set of uploads and any number *)
(* of threads that serve them, failing statements and restarts.            *)
(***************************************************************************)
EXTENDS FLAggregator, FiniteSetTheorems, FunctionTheorems, SequenceTheorems, TLAPS

(***************************************************************************)
(* Types.  A version belongs to an upload that has been counted: there are *)
(* no more versions than uploads whose thread is past its Bump, and one.   *)
(***************************************************************************)

Busy(t) == th[t].pc # "idle"
BeforeBump == {"append", "insert", "count", "sum", "mix", "bump"}

\* Nothing is served before startup is over.
Quiet == phase # "serving" => \A t \in Threads : th[t] = Idle

\* Every upload is served by one thread at most.
Owned ==
  /\ \A t \in Threads : Busy(t) => th[t].upd \in sent
  /\ \A s, t \in Threads : s # t /\ Busy(s) /\ Busy(t) => th[s].upd # th[t].upd

\* The uploads that will give no version any more.
Spent == {u \in sent : \A t \in Threads : th[t].pc \in BeforeBump => th[t].upd # u}

Bounded ==
  /\ version <= Cardinality(Spent) + 1
  /\ \A v \in rows : v <= Cardinality(Spent) + 1
  /\ \A t \in Threads : th[t].saving <= version

\* One of the rows is the newest.
HasNewest == rows = {} \/ \E v \in rows : \A w \in rows : v >= w

TypeInv == TypeOK /\ Quiet /\ Owned /\ Bounded /\ HasNewest

\* What all steps of a thread that serves an upload have in common.
Moves(t) ==
  /\ Busy(t)
  /\ th' \in [Threads -> Thread]
  /\ \A s \in Threads \ {t} : th'[s] = th[s]
  /\ th'[t].pc # "idle" => th'[t].upd = th[t].upd
  /\ th'[t].pc \in BeforeBump => th[t].pc \in BeforeBump
  /\ UNCHANGED <<systemVars, clientVars>>

\* A thread that goes on, and one that returns.
LEMMA GotoMoves ==
  ASSUME TypeOK, NEW t \in Threads, NEW step \in Steps, Busy(t), Goto(t, step),
         step \in BeforeBump => th[t].pc \in BeforeBump, UNCHANGED <<systemVars, clientVars>>
  PROVE  /\ Moves(t)
         /\ th'[t].pc = step /\ th'[t].upd = th[t].upd /\ th'[t].read = th[t].read
         /\ th'[t].saving = th[t].saving
  BY DEF TypeOK, Moves, Goto, Busy, Thread

LEMMA FinishMoves ==
  ASSUME TypeOK, NEW t \in Threads, Busy(t), Finish(t), UNCHANGED <<systemVars, clientVars>>
  PROVE  Moves(t) /\ th'[t] = Idle
<1>1. 1 \in Versions
  BY UpdatesAssumption, FS_CardinalityType DEF Versions
<1>2. Idle \in Thread
  BY <1>1 DEF Idle, Thread, Steps
<1>3. QED
  BY <1>2 DEF TypeOK, Moves, Finish, Busy, Idle, BeforeBump

LEMMA SpentCounts ==
  ASSUME sent' \subseteq Updates, Spent \subseteq Spent'
  PROVE  /\ IsFiniteSet(Spent') /\ Cardinality(Spent) \in Nat /\ Cardinality(Spent') \in Nat
         /\ Cardinality(Spent) <= Cardinality(Spent') /\ Cardinality(Spent') <= Cardinality(Updates)
<1>1. Spent' \subseteq Updates
  BY DEF Spent
<1>2. IsFiniteSet(Spent') /\ Cardinality(Spent') <= Cardinality(Updates)
  BY <1>1, UpdatesAssumption, FS_Subset
<1>3. IsFiniteSet(Spent) /\ Cardinality(Spent) <= Cardinality(Spent')
  BY <1>2, FS_Subset
<1>4. QED
  BY <1>2, <1>3, FS_CardinalityType

LEMMA SpentGrows ==
  ASSUME TypeInv, NEW t \in Threads, Moves(t)
  PROVE  /\ Spent \subseteq Spent'
         /\ IsFiniteSet(Spent') /\ Cardinality(Spent) \in Nat /\ Cardinality(Spent') \in Nat
         /\ Cardinality(Spent) <= Cardinality(Spent') /\ Cardinality(Spent') <= Cardinality(Updates)
<1>1. Spent \subseteq Spent'
  BY DEF TypeInv, Owned, Busy, Moves, Spent, BeforeBump, clientVars
<1>2. sent' \subseteq Updates
  BY DEF TypeInv, TypeOK, Moves, clientVars
<1>3. QED
  BY <1>1, <1>2, SpentCounts

LEMMA MovesKeep ==
  ASSUME TypeInv, NEW t \in Threads, Moves(t)
  PROVE  Quiet' /\ Owned'
<1>1. phase = "serving"
  BY DEF TypeInv, Quiet, Moves, Busy, Idle
<1>2. Quiet'
  BY <1>1 DEF Quiet, Moves, systemVars
<1>3. \A s \in Threads : Busy(s)' => Busy(s) /\ th'[s].upd = th[s].upd
  BY DEF Moves, Busy
<1>4. Owned'
  BY <1>3 DEF TypeInv, Owned, Moves, clientVars
<1>5. QED
  BY <1>2, <1>4

\* Steps that leave the version and the rows alone.
LEMMA KeepTypes ==
  ASSUME TypeInv, NEW t \in Threads, Moves(t), UNCHANGED <<version, rows>>,
         th'[t].saving <= version, TypeOK'
  PROVE  TypeInv'
<1>1. Quiet' /\ Owned'
  BY MovesKeep
<1>2. Bounded'
  <2>1. Cardinality(Spent) \in Nat /\ Cardinality(Spent') \in Nat /\ Cardinality(Spent) <= Cardinality(Spent')
    BY SpentGrows
  <2>2. version \in Int /\ rows \subseteq Int
    BY DEF TypeInv, TypeOK, Versions
  <2>3. \A s \in Threads : th'[s].saving <= version
    BY DEF TypeInv, Bounded, Moves
  <2>4. QED
    BY <2>1, <2>2, <2>3 DEF TypeInv, Bounded
<1>3. QED
  BY <1>1, <1>2 DEF TypeInv, HasNewest

LEMMA CardinalityOfUpdates == Cardinality(Updates) \in Nat
  BY UpdatesAssumption, FS_CardinalityType

LEMMA AcceptTypes ==
  ASSUME TypeInv, NEW t \in Threads, Busy(t), Accept(t), UNCHANGED <<systemVars, clientVars>>
  PROVE  Moves(t) /\ th'[t] = Idle /\ accepted' \subseteq sent'
<1>1. th[t].upd \in sent
  BY DEF TypeInv, Owned
<1>2. QED
  BY <1>1, FinishMoves DEF TypeInv, TypeOK, Accept, clientVars

LEMMA AppendTypes ==
  ASSUME TypeInv, NEW t \in Threads, AppendUpdate(t)
  PROVE  TypeInv'
<1>1. Busy(t) /\ "insert" \in Steps
  BY DEF AppendUpdate, Busy, Steps
<1>2. Moves(t) /\ th'[t].saving = th[t].saving
  BY <1>1, GotoMoves DEF TypeInv, AppendUpdate, BeforeBump
<1>3. th[t].upd \in Updates
  BY <1>1 DEF TypeInv, Owned, TypeOK
<1>4. pending' \in Seq(Updates)
  BY <1>3, AppendProperties DEF AppendUpdate, Appended, TypeInv, TypeOK
<1>5. TypeOK'
  BY <1>2, <1>4 DEF TypeInv, TypeOK, Moves, AppendUpdate, systemVars, clientVars, modelVars, diskVars
<1>6. th'[t].saving <= version /\ UNCHANGED <<version, rows>>
  BY <1>2 DEF TypeInv, Bounded, AppendUpdate, modelVars, diskVars
<1>7. QED
  BY <1>2, <1>5, <1>6, KeepTypes

LEMMA InsertTypes ==
  ASSUME TypeInv, NEW t \in Threads, InsertUpdate(t)
  PROVE  TypeInv'
<1>1. Busy(t) /\ "count" \in Steps
  BY DEF InsertUpdate, Busy, Steps
<1>2. Moves(t) /\ th'[t].saving = th[t].saving
  BY <1>1, GotoMoves DEF TypeInv, InsertUpdate, BeforeBump
<1>3. TypeOK'
  BY <1>2 DEF TypeInv, TypeOK, Moves, InsertUpdate, systemVars, clientVars, modelVars, diskVars
<1>4. th'[t].saving <= version /\ UNCHANGED <<version, rows>>
  BY <1>2 DEF TypeInv, Bounded, InsertUpdate, modelVars, diskVars
<1>5. QED
  BY <1>2, <1>3, <1>4, KeepTypes

LEMMA OneIsLeast ==
  ASSUME TypeInv
  PROVE  Idle.saving <= version
  BY CardinalityOfUpdates DEF TypeInv, TypeOK, Versions, Idle

\* Count and SumDone return, or go on.
LEMMA AcceptKeepsTypes ==
  ASSUME TypeInv, NEW t \in Threads, Busy(t), Accept(t), pending' \in Seq(Updates),
         UNCHANGED <<systemVars, clientVars, modelVars, diskVars, failures, models>>
  PROVE  TypeInv'
<1>1. Moves(t) /\ th'[t] = Idle /\ accepted' \subseteq sent'
  BY AcceptTypes
<1>2. TypeOK'
  BY <1>1 DEF TypeInv, TypeOK, Moves, systemVars, clientVars, modelVars, diskVars
<1>3. th'[t].saving <= version /\ UNCHANGED <<version, rows>>
  BY <1>1, OneIsLeast DEF modelVars, diskVars
<1>4. QED
  BY <1>1, <1>2, <1>3, KeepTypes

LEMMA GoesOnKeepsTypes ==
  ASSUME TypeInv, NEW t \in Threads, Moves(t), th'[t].saving = th[t].saving,
         UNCHANGED <<pending, modelVars, diskVars, failures, accepted, models>>
  PROVE  TypeInv'
<1>1. TypeOK'
  BY DEF TypeInv, TypeOK, Moves, systemVars, clientVars, modelVars, diskVars
<1>2. th'[t].saving <= version /\ UNCHANGED <<version, rows>>
  BY DEF TypeInv, Bounded, modelVars, diskVars
<1>3. QED
  BY <1>1, <1>2, KeepTypes

LEMMA CountTypes ==
  ASSUME TypeInv, NEW t \in Threads, Count(t)
  PROVE  TypeInv'
<1>1. Busy(t)
  BY DEF Count, Busy
<1>2. CASE Len(pending) < MinUpdates
  BY <1>1, <1>2, AcceptKeepsTypes DEF Count, TypeInv, TypeOK
<1>3. CASE ~(Len(pending) < MinUpdates)
  <2>1. Moves(t) /\ th'[t].saving = th[t].saving
    BY <1>1, <1>3, GotoMoves DEF TypeInv, Count, BeforeBump, Steps
  <2>2. QED
    BY <1>3, <2>1, GoesOnKeepsTypes DEF Count
<1>4. QED
  BY <1>2, <1>3

\* A step along the list: what the thread reads is an element of it.
LEMMA HereIs ==
  ASSUME TypeOK, NEW t \in Threads, ~AtEnd(t)
  PROVE  /\ Len(th[t].read) + 1 \in DOMAIN pending
         /\ Here(t) = pending[Len(th[t].read) + 1] /\ Here(t) \in Updates
<1>1. th[t].read \in Seq(Updates) /\ pending \in Seq(Updates)
  BY DEF TypeOK, Thread
<1>2. Len(th[t].read) \in Nat /\ Len(pending) \in Nat /\ DOMAIN pending = 1 .. Len(pending)
  BY <1>1, LenProperties
<1>3. Len(th[t].read) + 1 \in 1 .. Len(pending)
  BY <1>2 DEF AtEnd
<1>4. QED
  BY <1>1, <1>2, <1>3, ElementOfSeq DEF Here

LEMMA WalkMoves ==
  ASSUME TypeOK, NEW t \in Threads, WalkOn(t)
  PROVE  /\ Moves(t)
         /\ th'[t].pc = th[t].pc /\ th'[t].upd = th[t].upd /\ th'[t].saving = th[t].saving
         /\ th'[t].read = Append(th[t].read, Here(t)) /\ th'[t].read \in Seq(Updates)
<1>1. th[t].read \in Seq(Updates) /\ Here(t) \in Updates
  BY HereIs DEF WalkOn, TypeOK, Thread
<1>2. Append(th[t].read, Here(t)) \in Seq(Updates)
  BY <1>1, AppendProperties
<1>3. QED
  BY <1>2 DEF TypeOK, Moves, WalkOn, Busy, Thread, clientVars, systemVars

LEMMA WalkTypes ==
  ASSUME TypeInv, NEW t \in Threads, WalkOn(t)
  PROVE  TypeInv'
<1>1. Moves(t) /\ th'[t].saving = th[t].saving
  BY WalkMoves DEF TypeInv
<1>2. QED
  BY <1>1, GoesOnKeepsTypes DEF WalkOn

\* The second walk begins.
LEMMA SumMoves ==
  ASSUME TypeOK, NEW t \in Threads, SumDone(t), th[t].read # <<>>
  PROVE  /\ Moves(t) /\ th'[t].pc = "mix" /\ th'[t].upd = th[t].upd /\ th'[t].saving = th[t].saving
         /\ th'[t].read = <<>>
<1>1. <<>> \in Seq(Updates)
  BY EmptySeq
<1>2. QED
  BY <1>1 DEF TypeOK, Moves, SumDone, Busy, Thread, Steps, BeforeBump, clientVars, systemVars

LEMMA SumTypes ==
  ASSUME TypeInv, NEW t \in Threads, SumDone(t)
  PROVE  TypeInv'
<1>1. CASE th[t].read = <<>>
  <2>1. Busy(t)
    BY DEF SumDone, Busy
  <2>2. QED
    BY <1>1, <2>1, AcceptKeepsTypes DEF SumDone, TypeInv, TypeOK
<1>2. CASE th[t].read # <<>>
  <2>1. Moves(t) /\ th'[t].saving = th[t].saving
    BY <1>2, SumMoves DEF TypeInv
  <2>2. QED
    BY <1>2, <2>1, GoesOnKeepsTypes DEF SumDone
<1>3. QED
  BY <1>1, <1>2

LEMMA MixTypes ==
  ASSUME TypeInv, NEW t \in Threads, MixDone(t)
  PROVE  TypeInv'
<1>1. Busy(t)
  BY DEF MixDone, Busy
<1>2. Moves(t) /\ th'[t].saving = th[t].saving
  BY <1>1, GotoMoves DEF TypeInv, MixDone, BeforeBump, Steps
<1>3. QED
  BY <1>2, GoesOnKeepsTypes DEF MixDone

\* The upload that gives a version gives no other.
LEMMA BumpTypes ==
  ASSUME TypeInv, NEW t \in Threads, Bump(t)
  PROVE  TypeInv'
<1>1. Busy(t) /\ th[t].pc = "bump"
  BY DEF Bump, Busy
<1>2. Moves(t) /\ th'[t].pc = "publish" /\ th'[t].saving = th[t].saving
  BY <1>1, GotoMoves DEF TypeInv, Bump, BeforeBump, Steps
<1>3. Quiet' /\ Owned'
  BY <1>2, MovesKeep
<1>4. Spent \cup {th[t].upd} \subseteq Spent' /\ th[t].upd \notin Spent
  <2>1. th[t].upd \notin Spent
    BY <1>1 DEF Spent, BeforeBump
  <2>2. th[t].upd \in sent' /\ \A s \in Threads : th'[s].pc \in BeforeBump => th'[s].upd # th[t].upd
    BY <1>1, <1>2 DEF TypeInv, Owned, Moves, Busy, BeforeBump, clientVars
  <2>3. QED
    BY <1>2, <2>1, <2>2, SpentGrows DEF Spent
<1>5. /\ Cardinality(Spent) \in Nat /\ Cardinality(Spent') \in Nat
      /\ Cardinality(Spent) + 1 <= Cardinality(Spent') /\ Cardinality(Spent') <= Cardinality(Updates)
  <2>1. IsFiniteSet(Spent') /\ Spent \subseteq Spent' /\ Cardinality(Spent) \in Nat /\ Cardinality(Spent') \in Nat
        /\ Cardinality(Spent') <= Cardinality(Updates)
    BY <1>2, SpentGrows
  <2>2. IsFiniteSet(Spent)
    BY <2>1, FS_Subset
  <2>3. Cardinality(Spent \cup {th[t].upd}) = Cardinality(Spent) + 1
    BY <1>4, <2>2, FS_AddElement
  <2>4. Cardinality(Spent \cup {th[t].upd}) <= Cardinality(Spent')
    BY <1>4, <2>1, FS_Subset
  <2>5. QED
    BY <2>1, <2>3, <2>4
<1>6. version \in Nat /\ rows \subseteq Nat /\ version' = version + 1 /\ UNCHANGED rows /\ version >= 1
  BY CardinalityOfUpdates DEF TypeInv, TypeOK, Versions, Bump, NextVersion, diskVars
<1>7. version' \in Versions
  BY <1>5, <1>6, CardinalityOfUpdates DEF TypeInv, Bounded, Versions
<1>8. TypeOK'
  BY <1>2, <1>7 DEF TypeInv, TypeOK, Moves, Bump, systemVars, clientVars, diskVars
<1>9. Bounded'
  <2>1. \A s \in Threads : th'[s].saving = th[s].saving /\ th[s].saving \in Nat
    <3>1. \A s \in Threads : th[s] \in Thread
      BY DEF TypeInv, TypeOK
    <3>2. \A s \in Threads : th[s].saving \in Versions
      BY <3>1 DEF Thread
    <3>3. Versions \subseteq Nat
      BY CardinalityOfUpdates DEF Versions
    <3>4. QED
      BY <1>2, <3>2, <3>3 DEF Moves
  <2>2. QED
    BY <1>5, <1>6, <2>1 DEF TypeInv, Bounded
<1>10. QED
  BY <1>3, <1>6, <1>8, <1>9 DEF TypeInv, HasNewest

\* What is published is what the thread mixed, under the version it finds.
LEMMA PublishMoves ==
  ASSUME TypeOK, NEW t \in Threads, Publish(t)
  PROVE  Moves(t) /\ th'[t].pc = "open" /\ th'[t].upd = th[t].upd /\ th'[t].read = th[t].read
         /\ th'[t].saving = version
  BY DEF TypeOK, Moves, Publish, Busy, Thread, Steps, BeforeBump, clientVars, systemVars

LEMMA PublishTypes ==
  ASSUME TypeInv, NEW t \in Threads, Publish(t)
  PROVE  TypeInv'
<1>1. Moves(t) /\ th'[t].saving = version
  BY PublishMoves DEF TypeInv
<1>2. th[t].read \in Seq(Updates)
  BY DEF TypeInv, TypeOK, Thread
<1>3. weights' \in Seq(Updates) /\ models' \in Seq(Seq(Updates))
  BY <1>2, AppendProperties DEF TypeInv, TypeOK, Publish
<1>4. TypeOK'
  BY <1>1, <1>3 DEF TypeInv, TypeOK, Moves, Publish, systemVars, clientVars, diskVars
<1>5. th'[t].saving <= version /\ UNCHANGED <<version, rows>>
  BY <1>1 DEF TypeInv, TypeOK, Versions, Publish, diskVars
<1>6. QED
  BY <1>1, <1>4, <1>5, KeepTypes

LEMMA ClearTypes ==
  ASSUME TypeInv, NEW t \in Threads, Clear(t)
  PROVE  TypeInv'
<1>1. Busy(t)
  BY DEF Clear, Busy
<1>2. pending' \in Seq(Updates)
  BY EmptySeq DEF Clear, Cleared
<1>3. QED
  BY <1>1, <1>2, AcceptKeepsTypes DEF Clear

\* Writing a model leaves its file empty, whole or garbled.
LEMMA TruncatedType ==
  ASSUME TypeOK, NEW v \in Versions
  PROVE  Truncated(v) \in [Versions -> Seq(Updates) \cup {NoFile, Empty, Garbled}]
  BY DEF TypeOK, Truncated

LEMMA FilledType ==
  ASSUME TypeOK, NEW v \in Versions, NEW w \in Seq(Updates)
  PROVE  Filled(v, w) \subseteq [Versions -> Seq(Updates) \cup {NoFile, Empty, Garbled}]
  BY DEF TypeOK, Filled

\* A row more has a newest row still.
LEMMA RowsKeepNewest ==
  ASSUME TypeInv, NEW v \in Versions, rows' = rows \cup {v}
  PROVE  HasNewest'
<1>1. rows \subseteq Int /\ v \in Int
  BY CardinalityOfUpdates DEF TypeInv, TypeOK, Versions
<1>2. CASE rows = {}
  BY <1>1, <1>2 DEF HasNewest
<1>3. CASE rows # {}
  <2>1. PICK u \in rows : \A w \in rows : u >= w
    BY <1>3 DEF TypeInv, HasNewest
  <2>2. CASE u >= v
    BY <2>1, <2>2 DEF HasNewest
  <2>3. CASE ~(u >= v)
    <3>1. \A w \in rows' : v >= w
      BY <1>1, <2>1, <2>3
    <3>2. QED
      BY <3>1 DEF HasNewest
  <2>4. QED
    BY <2>2, <2>3
<1>4. QED
  BY <1>2, <1>3

\* Steps that may add the row of the version the thread is saving.
LEMMA RowKeepsTypes ==
  ASSUME TypeInv, NEW t \in Threads, Moves(t), TypeOK', UNCHANGED version,
         th'[t].saving <= version, rows' \in {rows, rows \cup {th[t].saving}}
  PROVE  TypeInv'
<1>1. th[t].saving \in Versions
  BY DEF TypeInv, TypeOK, Thread
<1>2. CASE rows' = rows
  BY <1>2, KeepTypes
<1>3. CASE rows' = rows \cup {th[t].saving}
  <2>1. Cardinality(Spent) \in Nat /\ Cardinality(Spent') \in Nat /\ Cardinality(Spent) <= Cardinality(Spent')
    BY SpentGrows
  <2>2. version \in Int /\ rows \subseteq Int /\ th[t].saving \in Int
    BY <1>1 DEF TypeInv, TypeOK, Versions
  <2>3. \A s \in Threads : th'[s].saving <= version
    BY DEF TypeInv, Bounded, Moves
  <2>4. th[t].saving <= version
    BY DEF TypeInv, Bounded
  <2>5. Bounded'
    BY <1>3, <2>1, <2>2, <2>3, <2>4 DEF TypeInv, Bounded
  <2>6. QED
    BY <1>1, <1>3, <2>5, MovesKeep, RowsKeepNewest DEF TypeInv
<1>4. QED
  BY <1>2, <1>3

LEMMA SaveTypes ==
  ASSUME TypeInv, NEW t \in Threads, SaveModel(t)
  PROVE  TypeInv'
<1>1. th[t].saving \in Versions /\ th[t].read \in Seq(Updates) /\ Busy(t)
  BY DEF TypeInv, TypeOK, Thread, SaveModel, Busy
<1>2. Moves(t) /\ th'[t].saving = th[t].saving
  BY <1>1, GotoMoves DEF TypeInv, SaveModel, BeforeBump, Steps
<1>3. file' \in [Versions -> Seq(Updates) \cup {NoFile, Empty, Garbled}]
  BY <1>1, TruncatedType, FilledType DEF TypeInv, TypeOK, SaveModel
<1>4. rows' \in {rows, rows \cup {th[t].saving}}
  BY DEF SaveModel
<1>5. TypeOK'
  BY <1>1, <1>2, <1>3, <1>4 DEF TypeInv, TypeOK, Moves, SaveModel, systemVars, clientVars, modelVars
<1>6. th'[t].saving <= version /\ UNCHANGED version
  BY <1>2 DEF TypeInv, Bounded, SaveModel, modelVars
<1>7. QED
  BY <1>2, <1>4, <1>5, <1>6, RowKeepsTypes

\* What a failure leaves on disk.
LEMMA LeftIs ==
  ASSUME TypeInv, NEW t \in Threads, LeftByFailure(t)
  PROVE  /\ file' \in [Versions -> Seq(Updates) \cup {NoFile, Empty, Garbled}]
         /\ rows' \in {rows, rows \cup {th[t].saving}}
<1>1. file \in [Versions -> Seq(Updates) \cup {NoFile, Empty, Garbled}]
  BY DEF TypeInv, TypeOK
<1>2. QED
  BY <1>1 DEF LeftByFailure, diskVars

LEMMA FailsTypes ==
  ASSUME TypeInv, NEW t \in Threads, StatementFails(t)
  PROVE  TypeInv'
<1>1. Busy(t)
  BY DEF StatementFails, Busy
<1>2. Moves(t) /\ th'[t] = Idle
  BY <1>1, FinishMoves DEF TypeInv, StatementFails
<1>3. /\ file' \in [Versions -> Seq(Updates) \cup {NoFile, Empty, Garbled}]
      /\ rows' \in {rows, rows \cup {th[t].saving}}
      /\ th[t].saving \in Versions
  BY LeftIs DEF StatementFails, TypeInv, TypeOK, Thread
<1>4. TypeOK'
  BY <1>2, <1>3 DEF TypeInv, TypeOK, Moves, StatementFails, systemVars, clientVars, modelVars
<1>5. th'[t].saving <= version /\ UNCHANGED version
  BY <1>2, OneIsLeast DEF StatementFails, modelVars
<1>6. QED
  BY <1>2, <1>3, <1>4, <1>5, RowKeepsTypes

\* An upload that is refused is spent at once.
LEMMA BeginTypes ==
  ASSUME TypeInv, NEW t \in Threads, NEW u \in Updates, Begin(t, u)
  PROVE  TypeInv'
<1>. DEFINE d == [Idle EXCEPT !.pc = "append", !.upd = u]
<1>1. /\ th[t] = Idle /\ u \notin sent /\ sent' = sent \cup {u}
      /\ th' = (IF QueueHasRoom THEN [th EXCEPT ![t] = d] ELSE th)
      /\ UNCHANGED <<systemVars, pending, modelVars, diskVars, failures, accepted, models>>
      /\ phase = "serving"
  BY DEF Begin
<1>2. d \in Thread /\ d.pc = "append" /\ d.upd = u /\ d.saving = 1
  <2>1. 1 \in Versions /\ <<>> \in Seq(Updates)
    BY CardinalityOfUpdates, EmptySeq DEF Versions
  <2>2. QED
    BY <2>1 DEF Idle, Thread, Steps
<1>. HIDE DEF d
<1>3. th' \in [Threads -> Thread] /\ \A s \in Threads : th'[s] = th[s] \/ (s = t /\ th'[s] = d)
  <2>1. th \in [Threads -> Thread]
    BY DEF TypeInv, TypeOK
  <2>2. CASE QueueHasRoom
    <3>1. th' = [th EXCEPT ![t] = d]
      BY <1>1, <2>2
    <3>2. QED
      BY <1>2, <2>1, <3>1
  <2>3. CASE ~QueueHasRoom
    BY <1>1, <2>1, <2>3
  <2>4. QED
    BY <2>2, <2>3
<1>4. overlap' \in BOOLEAN
  BY Zenon DEF TypeInv, TypeOK, Begin
<1>5. TypeOK'
  BY <1>1, <1>3, <1>4 DEF TypeInv, TypeOK, systemVars, modelVars, diskVars
<1>6. Quiet'
  BY <1>1 DEF Quiet, systemVars
<1>7. Owned'
  <2>1. ~Busy(t)
    BY <1>1 DEF Busy, Idle
  <2>2. QED
    BY <1>1, <1>2, <1>3, <2>1 DEF TypeInv, Owned, Busy
<1>8. Spent \subseteq Spent'
  BY <1>1, <1>2, <1>3 DEF Spent
<1>9. Bounded'
  <2>1. Cardinality(Spent) \in Nat /\ Cardinality(Spent') \in Nat /\ Cardinality(Spent) <= Cardinality(Spent')
    BY <1>5, <1>8, SpentCounts DEF TypeOK
  <2>2. version \in Int /\ rows \subseteq Int /\ UNCHANGED <<version, rows>> /\ 1 <= version
    BY <1>1, CardinalityOfUpdates DEF TypeInv, TypeOK, Versions, modelVars, diskVars
  <2>3. \A s \in Threads : th'[s].saving <= version
    BY <1>2, <1>3, <2>2 DEF TypeInv, Bounded
  <2>4. QED
    BY <2>1, <2>2, <2>3 DEF TypeInv, Bounded
<1>10. QED
  BY <1>1, <1>5, <1>6, <1>7, <1>9 DEF TypeInv, HasNewest, diskVars

\* NewestRow names a row.
LEMMA NewestIs ==
  ASSUME TypeInv, rows # {}
  PROVE  NewestRow \in rows /\ \A v \in rows : v <= NewestRow
<1>1. \E v \in rows : \A w \in rows : v >= w
  BY DEF TypeInv, HasNewest
<1>2. NewestRow \in rows /\ \A w \in rows : NewestRow >= w
  BY <1>1 DEF NewestRow
<1>3. rows \subseteq Int
  BY CardinalityOfUpdates DEF TypeInv, TypeOK, Versions
<1>4. QED
  BY <1>2, <1>3

LEMMA LoadTypes ==
  ASSUME TypeInv, Load
  PROVE  TypeInv'
<1>1. version' \in Versions /\ weights' \in Seq(Updates) /\ version' <= Cardinality(Spent) + 1
  <2>1. CASE rows # {} /\ Readable(NewestRow)
    <3>1. NewestRow \in rows /\ NewestRow \in Versions
      BY <2>1, NewestIs DEF TypeInv, TypeOK
    <3>2. file[NewestRow] \in Seq(Updates)
      BY <2>1, <3>1 DEF TypeInv, TypeOK, Readable
    <3>3. QED
      BY <2>1, <3>1, <3>2 DEF TypeInv, Bounded, Load
  <2>2. CASE ~(rows # {} /\ Readable(NewestRow))
    BY <2>2 DEF TypeInv, TypeOK, Bounded, Load, modelVars
  <2>3. QED
    BY <2>1, <2>2
<1>2. unread' \in BOOLEAN
  BY Zenon DEF Load
<1>3. TypeOK'
  BY <1>1, <1>2 DEF TypeInv, TypeOK, Load, diskVars, clientVars
<1>4. \A t \in Threads : th[t] = Idle
  BY DEF TypeInv, Quiet, Load
<1>5. Quiet' /\ Owned'
  BY <1>4 DEF TypeInv, Quiet, Owned, Busy, Load, clientVars
<1>6. \A t \in Threads : th'[t].saving <= version'
  BY <1>1, <1>4, CardinalityOfUpdates DEF Load, Idle, Versions
<1>7. QED
  BY <1>1, <1>3, <1>5, <1>6 DEF TypeInv, Bounded, HasNewest, Spent, Load, diskVars, clientVars

LEMMA ResaveTypes ==
  ASSUME TypeInv, Resave
  PROVE  TypeInv'
<1>1. version \in Versions /\ weights \in Seq(Updates) /\ \A t \in Threads : th[t] = Idle
  BY DEF TypeInv, TypeOK, Quiet, Resave
<1>2. file' \in [Versions -> Seq(Updates) \cup {NoFile, Empty, Garbled}]
  BY <1>1, TruncatedType, FilledType DEF TypeInv, TypeOK, Resave
<1>3. rows' \in {rows, rows \cup {version}}
  BY DEF Resave
<1>4. TypeOK'
  BY <1>1, <1>2, <1>3 DEF TypeInv, TypeOK, Resave, modelVars, clientVars
<1>5. Quiet' /\ Owned'
  BY <1>1 DEF TypeInv, Quiet, Owned, Busy, Resave, clientVars
<1>6. Bounded'
  BY <1>3 DEF TypeInv, Bounded, Spent, Resave, modelVars, clientVars
<1>7. HasNewest'
  BY <1>1, <1>3, RowsKeepNewest DEF TypeInv, HasNewest
<1>8. QED
  BY <1>4, <1>5, <1>6, <1>7 DEF TypeInv

\* A version belongs to a process that is gone; the row stays.
LEMMA CrashTypes ==
  ASSUME TypeInv, Crash
  PROVE  TypeInv'
<1>1. 1 \in Versions /\ <<>> \in Seq(Updates)
  BY CardinalityOfUpdates, EmptySeq DEF Versions
<1>2. Idle \in Thread
  BY <1>1 DEF Idle, Thread, Steps
<1>3. th' = [t \in Threads |-> Idle] /\ \A t \in Threads : th'[t] = Idle
  BY DEF Crash
<1>4. TypeOK'
  BY <1>1, <1>2, <1>3 DEF TypeInv, TypeOK, Crash, diskVars, clientVars
<1>5. Quiet' /\ Owned'
  BY <1>3 DEF Quiet, Owned, Busy, Idle
<1>6. Spent \subseteq Spent'
  BY <1>3 DEF Spent, Idle, BeforeBump, Crash, clientVars
<1>7. Bounded'
  <2>1. Cardinality(Spent) \in Nat /\ Cardinality(Spent') \in Nat /\ Cardinality(Spent) <= Cardinality(Spent')
    BY <1>4, <1>6, SpentCounts DEF TypeOK
  <2>2. rows \subseteq Int /\ UNCHANGED rows /\ version' = 1
    BY CardinalityOfUpdates DEF TypeInv, TypeOK, Versions, Crash, diskVars
  <2>3. \A t \in Threads : th'[t].saving = 1
    BY <1>3 DEF Idle
  <2>4. QED
    BY <2>1, <2>2, <2>3 DEF TypeInv, Bounded
<1>8. QED
  BY <1>4, <1>5, <1>7 DEF TypeInv, HasNewest, Crash, diskVars

LEMMA TypesHoldFirst == Init => TypeInv
<1>. SUFFICES ASSUME Init PROVE TypeInv
  OBVIOUS
<1>1. 1 \in Versions /\ <<>> \in Seq(Updates) /\ <<>> \in Seq(Seq(Updates))
  BY CardinalityOfUpdates, EmptySeq DEF Versions
<1>2. Idle \in Thread
  BY <1>1 DEF Idle, Thread, Steps
<1>3. th = [t \in Threads |-> Idle] /\ \A t \in Threads : th[t] = Idle
  BY DEF Init, InitMemory
<1>4. TypeOK
  <2>1. {overlap, unread} \subseteq BOOLEAN
    BY Zenon DEF Init
  <2>2. th \in [Threads -> Thread] /\ file \in [Versions -> Seq(Updates) \cup {NoFile, Empty, Garbled}]
    BY <1>2, <1>3 DEF Init
  <2>3. QED
    BY <1>1, <2>1, <2>2 DEF Init, InitMemory, TypeOK
<1>5. Quiet /\ Owned
  BY <1>3 DEF Quiet, Owned, Busy, Idle
<1>6. Bounded
  <2>1. Spent \subseteq Updates
    BY <1>4 DEF Spent, TypeOK
  <2>2. Cardinality(Spent) \in Nat
    BY <2>1, UpdatesAssumption, FS_Subset, FS_CardinalityType
  <2>3. \A t \in Threads : th[t].saving = 1
    BY <1>3 DEF Idle
  <2>4. QED
    BY <2>2, <2>3 DEF Bounded, Init, InitMemory
<1>7. QED
  BY <1>4, <1>5, <1>6 DEF TypeInv, HasNewest, Init

LEMMA TypesKept == TypeInv /\ [Next]_vars => TypeInv'
<1>. SUFFICES ASSUME TypeInv, [Next]_vars PROVE TypeInv'
  OBVIOUS
<1>1. CASE UNCHANGED vars
  BY <1>1 DEF vars, systemVars, modelVars, diskVars, clientVars, TypeInv, TypeOK, Quiet, Owned, Busy, Bounded, Spent,
    HasNewest
<1>2. ASSUME NEW t \in Threads, Aggregate(t) PROVE TypeInv'
  BY <1>2, CountTypes, WalkTypes, SumTypes, MixTypes, BumpTypes, PublishTypes, SaveTypes, ClearTypes DEF Aggregate
<1>3. CASE Next
  BY <1>2, <1>3, BeginTypes, AppendTypes, InsertTypes, FailsTypes, LoadTypes, ResaveTypes, CrashTypes DEF Next
<1>4. QED
  BY <1>1, <1>3

\* The aggregator's state stays in its ranges, the version in what the uploads
\* so far can have brought about.
THEOREM TypeCorrect == Spec => []TypeOK
<1>1. TypeInv => TypeOK
  BY DEF TypeInv
<1>2. QED
  BY <1>1, TypesHoldFirst, TypesKept, PTL DEF Spec

-----------------------------------------------------------------------------
(***************************************************************************)
(* VersionResumes: no step brings a row that is newer than the version,    *)
(* because a thread saves under a version it has found, and startup finds  *)
(* the newest row.                                                         *)
(***************************************************************************)

LEMMA ResumesKept == TypeInv /\ VersionResumes /\ [Next]_vars => VersionResumes'
<1>. SUFFICES ASSUME TypeInv, VersionResumes, [Next]_vars, phase' # "load", ~unread', NEW v \in rows'
              PROVE  v <= version'
  BY DEF VersionResumes
<1>1. rows \subseteq Int /\ version \in Int
  BY CardinalityOfUpdates DEF TypeInv, TypeOK, Versions
<1>2. CASE Load
  <2>1. rows # {} /\ Readable(NewestRow)
    BY <1>2 DEF Load, diskVars
  <2>2. QED
    BY <1>2, <2>1, NewestIs DEF Load, diskVars
<1>3. CASE Resave
  <2>1. phase # "load" /\ rows' \subseteq rows \cup {version} /\ version' = version
    BY <1>3 DEF Resave, modelVars
  <2>2. ~unread
    BY <1>3 DEF Resave
  <2>3. \A w \in rows : w <= version
    BY <2>1, <2>2, Zenon DEF VersionResumes
  <2>4. QED
    BY <1>1, <2>1, <2>3
<1>4. CASE Crash
  BY <1>4 DEF Crash
<1>5. ASSUME NEW t \in Threads, SaveModel(t) PROVE v <= version'
  <2>1. th[t].saving <= version /\ Busy(t)
    BY <1>5 DEF TypeInv, Bounded, SaveModel, Busy
  <2>2. phase # "load"
    BY <2>1 DEF TypeInv, Quiet, Busy, Idle
  <2>3. QED
    BY <1>5, <2>1, <2>2 DEF SaveModel, VersionResumes, modelVars, systemVars
<1>6. ASSUME NEW t \in Threads, Bump(t) PROVE v <= version'
  <2>1. phase # "load"
    BY <1>6 DEF TypeInv, Quiet, Bump, Idle
  <2>2. QED
    BY <1>1, <1>6, <2>1 DEF Bump, NextVersion, VersionResumes, diskVars, systemVars
<1>7. CASE UNCHANGED <<systemVars, version, diskVars>>
  BY <1>7 DEF VersionResumes, systemVars, diskVars
<1>8. ASSUME NEW t \in Threads,
             AppendUpdate(t) \/ InsertUpdate(t) \/ Count(t) \/ WalkOn(t) \/ SumDone(t)
               \/ MixDone(t) \/ Publish(t) \/ Clear(t)
      PROVE  UNCHANGED <<systemVars, version, diskVars>>
  BY <1>8 DEF AppendUpdate, InsertUpdate, Count, WalkOn, SumDone, MixDone, Publish, Clear, modelVars
<1>9. ASSUME NEW t \in Threads, NEW u \in Updates, Begin(t, u) PROVE UNCHANGED <<systemVars, version, diskVars>>
  BY <1>9 DEF Begin, modelVars
<1>10. CASE UNCHANGED vars
  BY <1>7, <1>10 DEF vars, modelVars
<1>11. ASSUME NEW t \in Threads, StatementFails(t) PROVE v <= version'
  <2>1. th[t].saving <= version /\ Busy(t) /\ rows' \in {rows, rows \cup {th[t].saving}}
    BY <1>11, LeftIs DEF TypeInv, Bounded, StatementFails, Busy
  <2>2. phase # "load"
    BY <2>1 DEF TypeInv, Quiet, Busy, Idle
  <2>3. QED
    BY <1>11, <2>1, <2>2 DEF StatementFails, VersionResumes, modelVars, systemVars
<1>12. QED
  BY <1>2, <1>3, <1>4, <1>5, <1>6, <1>7, <1>8, <1>9, <1>10, <1>11 DEF Next, Aggregate

\* Whatever a crash interrupts, startup resumes at the newest row or beyond,
\* unless it could not read that very model.
THEOREM Resumes == Spec => []VersionResumes
<1>1. Init => VersionResumes
  BY DEF Init, InitMemory, VersionResumes
<1>2. QED
  BY <1>1, TypesHoldFirst, TypesKept, ResumesKept, PTL DEF Spec

-----------------------------------------------------------------------------
(***************************************************************************)
(* OncePerModel: a thread that walks by position reads an update at the    *)
(* place it has in the list.  After a clear the places begin again, with   *)
(* updates that no thread has read: an upload is appended once.            *)
(***************************************************************************)

OnceOnly(q) == \A i, j \in DOMAIN q : q[i] = q[j] => i = j
Uploaded(q) == Elements(q) \subseteq sent
Walks == {"sum", "mix"}

ListsOnce ==
  /\ OnceOnly(pending) /\ Uploaded(pending)
  /\ \A t \in Threads : OnceOnly(th[t].read) /\ Uploaded(th[t].read)
  /\ \A i \in DOMAIN models : OnceOnly(models[i]) /\ Uploaded(models[i])

InPlace ==
  \A t \in Threads :
    th[t].pc \in Walks => \A i \in DOMAIN th[t].read, j \in DOMAIN pending : th[t].read[i] = pending[j] => i = j

NothingRead == \A t \in Threads : th[t].pc \in {"append", "insert", "count"} => th[t].read = <<>>

\* An upload that is about to be appended is in no list.
Unknown(u) ==
  /\ u \notin Elements(pending)
  /\ \A s \in Threads : u \notin Elements(th[s].read)
  /\ \A i \in DOMAIN models : u \notin Elements(models[i])

NotYet == \A t \in Threads : th[t].pc = "append" => Unknown(th[t].upd)

OnceInv == ListsOnce /\ InPlace /\ NothingRead /\ NotYet

LEMMA EmptyElements == DOMAIN <<>> = {} /\ Elements(<<>>) = {} /\ OnceOnly(<<>>) /\ Uploaded(<<>>)
<1>1. DOMAIN <<>> = {}
  OBVIOUS
<1>2. QED
  BY <1>1 DEF Elements, OnceOnly, Uploaded

LEMMA AppendedElements ==
  ASSUME NEW S, NEW q \in Seq(S), NEW x \in S
  PROVE  /\ DOMAIN Append(q, x) = 1 .. Len(q) + 1 /\ DOMAIN q = 1 .. Len(q) /\ Len(q) \in Nat
         /\ \A i \in DOMAIN q : Append(q, x)[i] = q[i]
         /\ Append(q, x)[Len(q) + 1] = x
         /\ Elements(Append(q, x)) = Elements(q) \cup {x}
<1>1. /\ DOMAIN Append(q, x) = 1 .. Len(q) + 1 /\ DOMAIN q = 1 .. Len(q) /\ Len(q) \in Nat
      /\ \A i \in 1 .. Len(q) : Append(q, x)[i] = q[i]
      /\ Append(q, x)[Len(q) + 1] = x
  BY AppendProperties, LenProperties
<1>2. Elements(Append(q, x)) = Elements(q) \cup {x}
  <2>1. ASSUME NEW y \in Elements(Append(q, x)) PROVE y \in Elements(q) \cup {x}
    <3>1. PICK i \in 1 .. Len(q) + 1 : y = Append(q, x)[i]
      BY <1>1, <2>1 DEF Elements
    <3>2. CASE i = Len(q) + 1
      BY <1>1, <3>1, <3>2
    <3>3. CASE i # Len(q) + 1
      <4>1. i \in 1 .. Len(q)
        BY <1>1, <3>1, <3>3
      <4>2. QED
        BY <1>1, <3>1, <4>1 DEF Elements
    <3>4. QED
      BY <3>2, <3>3
  <2>2. ASSUME NEW y \in Elements(q) PROVE y \in Elements(Append(q, x))
    <3>1. PICK i \in 1 .. Len(q) : y = q[i]
      BY <1>1, <2>2 DEF Elements
    <3>2. i \in 1 .. Len(q) + 1 /\ y = Append(q, x)[i]
      BY <1>1, <3>1
    <3>3. QED
      BY <1>1, <3>2 DEF Elements
  <2>3. x \in Elements(Append(q, x))
    <3>1. Len(q) + 1 \in 1 .. Len(q) + 1
      BY <1>1
    <3>2. QED
      BY <1>1, <3>1 DEF Elements
  <2>4. QED
    BY <2>1, <2>2, <2>3
<1>3. QED
  BY <1>1, <1>2

LEMMA AppendedOnce ==
  ASSUME NEW S, NEW q \in Seq(S), NEW x \in S, OnceOnly(q), x \notin Elements(q)
  PROVE  OnceOnly(Append(q, x))
<1>1. SUFFICES ASSUME NEW i \in 1 .. Len(q) + 1, NEW j \in 1 .. Len(q) + 1, Append(q, x)[i] = Append(q, x)[j]
               PROVE  i = j
  BY AppendedElements DEF OnceOnly
<1>2. /\ DOMAIN q = 1 .. Len(q) /\ Len(q) \in Nat
      /\ \A k \in 1 .. Len(q) : Append(q, x)[k] = q[k] /\ q[k] # x
      /\ Append(q, x)[Len(q) + 1] = x
  BY AppendedElements DEF Elements
<1>3. QED
  BY <1>1, <1>2 DEF OnceOnly

\* A step of a thread that reads nothing new and makes no upload known.
LEMMA OnceKeeps ==
  ASSUME TypeInv, OnceInv, NEW t \in Threads, Moves(t),
         th'[t].read \in {th[t].read, <<>>}, th'[t].pc # "append",
         th'[t].pc \in {"insert", "count"} => th'[t].read = <<>>,
         th'[t].pc \in Walks => th'[t].read = <<>> \/ th[t].pc \in Walks,
         pending' \in {pending, <<>>}, models' \in {models, Append(models, th[t].read)}
  PROVE  OnceInv'
<1>1. sent' = sent /\ \A s \in Threads \ {t} : th'[s] = th[s]
  BY DEF Moves, clientVars
<1>2. \A s \in Threads : th'[s].read \in {th[s].read, <<>>}
  BY <1>1
<1>3. /\ models \in Seq(Seq(Updates)) /\ th[t].read \in Seq(Updates)
  BY DEF TypeInv, TypeOK, Thread
<1>4. \A i \in DOMAIN models' : (i \in DOMAIN models /\ models'[i] = models[i]) \/ models'[i] = th[t].read
  <2>1. CASE models' = models
    BY <2>1
  <2>2. CASE models' = Append(models, th[t].read)
    <3>1. DOMAIN models' = 1 .. Len(models) + 1 /\ DOMAIN models = 1 .. Len(models) /\ Len(models) \in Nat
          /\ (\A i \in DOMAIN models : models'[i] = models[i]) /\ models'[Len(models) + 1] = th[t].read
      BY <1>3, <2>2, AppendedElements
    <3>2. \A i \in DOMAIN models' : i \in DOMAIN models \/ i = Len(models) + 1
      BY <3>1
    <3>3. QED
      BY <3>1, <3>2
  <2>3. QED
    BY <2>1, <2>2
<1>5. ListsOnce'
  <2>1. OnceOnly(pending') /\ Elements(pending') \subseteq sent
    BY EmptyElements DEF OnceInv, ListsOnce, Uploaded
  <2>2. \A s \in Threads : OnceOnly(th'[s].read) /\ Elements(th'[s].read) \subseteq sent
    BY <1>2, EmptyElements DEF OnceInv, ListsOnce, Uploaded
  <2>3. \A i \in DOMAIN models' : OnceOnly(models'[i]) /\ Elements(models'[i]) \subseteq sent
    BY <1>4 DEF OnceInv, ListsOnce, Uploaded
  <2>4. QED
    BY <1>1, <2>1, <2>2, <2>3 DEF ListsOnce, OnceOnly, Uploaded, Elements
<1>6. InPlace'
  <2>1. ASSUME NEW s \in Threads, th'[s].pc \in Walks, NEW i \in DOMAIN th'[s].read, NEW j \in DOMAIN pending',
               th'[s].read[i] = pending'[j]
        PROVE  i = j
    <3>1. th'[s].read = th[s].read /\ pending' = pending
      BY <1>2, <2>1, EmptyElements
    <3>2. th[s].pc \in Walks
      BY <1>1, <2>1, <3>1, EmptyElements
    <3>3. QED
      BY <2>1, <3>1, <3>2 DEF OnceInv, InPlace
  <2>2. QED
    BY <2>1 DEF InPlace, Walks
<1>7. NothingRead'
  BY <1>1 DEF OnceInv, NothingRead
<1>8. NotYet'
  <2>1. ASSUME NEW s \in Threads, th'[s].pc = "append"
        PROVE  Unknown(th[s].upd)'
    <3>1. th'[s] = th[s] /\ Unknown(th[s].upd)
      BY <1>1, <2>1 DEF OnceInv, NotYet
    <3>2. th[s].upd \notin Elements(pending')
      BY <3>1, EmptyElements DEF Unknown
    <3>3. \A r \in Threads : th[s].upd \notin Elements(th'[r].read)
      BY <1>2, <3>1, EmptyElements DEF Unknown
    <3>4. \A i \in DOMAIN models' : th[s].upd \notin Elements(models'[i])
      BY <1>4, <3>1 DEF Unknown
    <3>5. QED
      BY <3>1, <3>2, <3>3, <3>4 DEF Unknown, Elements
  <2>2. QED
    BY <2>1 DEF NotYet
<1>9. QED
  BY <1>5, <1>6, <1>7, <1>8 DEF OnceInv

LEMMA OnceQuietSteps ==
  ASSUME TypeInv, OnceInv, NEW t \in Threads,
         InsertUpdate(t) \/ StatementFails(t) \/ Count(t) \/ SumDone(t) \/ MixDone(t) \/ Bump(t) \/ Publish(t)
           \/ SaveModel(t) \/ Clear(t)
  PROVE  OnceInv'
<1>. USE DEF TypeInv
<1>1. th[t].pc \in {"insert", "count"} => th[t].read = <<>>
  BY DEF OnceInv, NothingRead
<1>2. ASSUME Accept(t), Busy(t), pending' \in {pending, <<>>}, UNCHANGED <<systemVars, clientVars, models>>
      PROVE  OnceInv'
  <2>1. Moves(t) /\ th'[t] = Idle
    BY <1>2, AcceptTypes
  <2>2. QED
    BY <1>2, <2>1, OnceKeeps DEF Idle, Walks
<1>3. CASE InsertUpdate(t)
  <2>1. Moves(t) /\ th'[t].pc = "count" /\ th'[t].read = th[t].read
    BY <1>3, GotoMoves DEF InsertUpdate, Busy, Steps, BeforeBump
  <2>2. QED
    BY <1>1, <1>3, <2>1, OnceKeeps DEF InsertUpdate, Walks
<1>4. CASE StatementFails(t)
  <2>1. Moves(t) /\ th'[t] = Idle
    BY <1>4, FinishMoves DEF StatementFails, Busy
  <2>2. QED
    BY <1>4, <2>1, OnceKeeps DEF StatementFails, Idle, Walks
<1>5. CASE Count(t)
  <2>1. Busy(t) /\ UNCHANGED <<pending, models, systemVars, clientVars>>
    BY <1>5 DEF Count, Busy
  <2>2. CASE Len(pending) < MinUpdates
    BY <1>2, <1>5, <2>1, <2>2 DEF Count
  <2>3. CASE ~(Len(pending) < MinUpdates)
    <3>1. Moves(t) /\ th'[t].pc = "sum" /\ th'[t].read = th[t].read
      BY <1>5, <2>1, <2>3, GotoMoves DEF Count, Steps, BeforeBump
    <3>2. QED
      BY <1>1, <1>5, <2>1, <3>1, OnceKeeps DEF Count
  <2>4. QED
    BY <2>2, <2>3
<1>6. CASE SumDone(t)
  <2>1. Busy(t) /\ UNCHANGED <<pending, models, systemVars, clientVars>>
    BY <1>6 DEF SumDone, Busy
  <2>2. CASE th[t].read = <<>>
    BY <1>2, <1>6, <2>1, <2>2 DEF SumDone
  <2>3. CASE th[t].read # <<>>
    BY <1>6, <2>1, <2>3, SumMoves, OnceKeeps
  <2>4. QED
    BY <2>2, <2>3
<1>7. CASE MixDone(t)
  <2>1. Moves(t) /\ th'[t].pc = "bump" /\ th'[t].read = th[t].read
    BY <1>7, GotoMoves DEF MixDone, Busy, Steps, BeforeBump
  <2>2. QED
    BY <1>7, <2>1, OnceKeeps DEF MixDone, Walks
<1>8. CASE Bump(t)
  <2>1. Moves(t) /\ th'[t].pc = "publish" /\ th'[t].read = th[t].read
    BY <1>8, GotoMoves DEF Bump, Busy, Steps, BeforeBump
  <2>2. QED
    BY <1>8, <2>1, OnceKeeps DEF Bump, Walks
<1>9. CASE Publish(t)
  BY <1>9, PublishMoves, OnceKeeps DEF Publish, Walks
<1>10. CASE SaveModel(t)
  <2>1. Moves(t) /\ th'[t].pc \in {"fill", "row", "clear"} /\ th'[t].read = th[t].read
    BY <1>10, GotoMoves DEF SaveModel, Busy, Steps, BeforeBump
  <2>2. QED
    BY <1>10, <2>1, OnceKeeps DEF SaveModel, Walks
<1>11. CASE Clear(t)
  BY <1>2, <1>11 DEF Clear, Cleared, Busy
<1>12. QED
  BY <1>3, <1>4, <1>5, <1>6, <1>7, <1>8, <1>9, <1>10, <1>11

\* The walk reads what it has not read: it comes from a place no read update had.
LEMMA OnceWalk ==
  ASSUME TypeInv, OnceInv, NEW t \in Threads, WalkOn(t)
  PROVE  OnceInv'
<1>. DEFINE read == th[t].read
            here == Here(t)
<1>1. /\ Moves(t) /\ th'[t].pc = th[t].pc /\ th'[t].pc \in Walks /\ th'[t].read = Append(read, here)
      /\ pending' = pending /\ models' = models /\ sent' = sent
      /\ \A s \in Threads \ {t} : th'[s] = th[s]
  BY WalkMoves DEF TypeInv, WalkOn, Moves, clientVars, Walks
<1>2. /\ Len(read) + 1 \in DOMAIN pending /\ here = pending[Len(read) + 1] /\ here \in Updates
      /\ read \in Seq(Updates)
  BY HereIs DEF TypeInv, TypeOK, Thread, WalkOn
<1>. HIDE DEF read, here
<1>3. /\ DOMAIN Append(read, here) = 1 .. Len(read) + 1 /\ DOMAIN read = 1 .. Len(read) /\ Len(read) \in Nat
      /\ \A i \in DOMAIN read : Append(read, here)[i] = read[i]
      /\ Append(read, here)[Len(read) + 1] = here
      /\ Elements(Append(read, here)) = Elements(read) \cup {here}
  BY <1>2, AppendedElements
<1>4. \A i \in DOMAIN read, j \in DOMAIN pending : read[i] = pending[j] => i = j
  BY <1>1 DEF OnceInv, InPlace, read
<1>5. here \notin Elements(read) /\ here \in Elements(pending)
  <2>1. here \in Elements(pending)
    BY <1>2 DEF Elements
  <2>2. \A i \in DOMAIN read : read[i] # here
    BY <1>2, <1>3, <1>4
  <2>3. QED
    BY <2>1, <2>2 DEF Elements
<1>6. OnceOnly(Append(read, here))
  <2>1. OnceOnly(read)
    BY DEF OnceInv, ListsOnce, read
  <2>2. QED
    BY <1>2, <1>5, <2>1, AppendedOnce
<1>7. Elements(Append(read, here)) \subseteq sent
  BY <1>3, <1>5 DEF OnceInv, ListsOnce, Uploaded, read
<1>8. ListsOnce'
  <2>1. \A s \in Threads : OnceOnly(th'[s].read) /\ Elements(th'[s].read) \subseteq sent
    BY <1>1, <1>6, <1>7 DEF OnceInv, ListsOnce, Uploaded
  <2>2. QED
    BY <1>1, <2>1 DEF OnceInv, ListsOnce, OnceOnly, Uploaded, Elements
<1>9. InPlace'
  <2>1. ASSUME NEW i \in DOMAIN Append(read, here), NEW j \in DOMAIN pending, Append(read, here)[i] = pending[j]
        PROVE  i = j
    <3>1. CASE i \in DOMAIN read
      BY <1>3, <1>4, <2>1, <3>1
    <3>2. CASE i = Len(read) + 1
      BY <1>2, <1>3, <2>1, <3>2 DEF OnceInv, ListsOnce, OnceOnly
    <3>3. QED
      BY <1>3, <2>1, <3>1, <3>2
  <2>2. ASSUME NEW s \in Threads \ {t}, th[s].pc \in Walks
        PROVE  \A i \in DOMAIN th[s].read, j \in DOMAIN pending : th[s].read[i] = pending[j] => i = j
    BY <2>2 DEF OnceInv, InPlace
  <2>3. ASSUME NEW s \in Threads, th'[s].pc \in Walks
        PROVE  \A i \in DOMAIN th'[s].read, j \in DOMAIN pending' : th'[s].read[i] = pending'[j] => i = j
    <3>1. CASE s = t
      BY <1>1, <2>1, <3>1
    <3>2. CASE s # t
      BY <1>1, <2>2, <2>3, <3>2
    <3>3. QED
      BY <3>1, <3>2
  <2>4. QED
    BY <2>3 DEF InPlace, Walks
<1>10. NothingRead'
  BY <1>1 DEF OnceInv, NothingRead, Walks
<1>11. NotYet'
  <2>1. ASSUME NEW s \in Threads, th'[s].pc = "append"
        PROVE  Unknown(th[s].upd)' /\ th'[s] = th[s]
    <3>1. th'[s] = th[s] /\ Unknown(th[s].upd) /\ th[s].upd # here
      BY <1>1, <1>5, <2>1 DEF OnceInv, NotYet, Unknown, Walks
    <3>2. \A r \in Threads : th[s].upd \notin Elements(th'[r].read)
      BY <1>1, <1>3, <3>1 DEF Unknown, read
    <3>3. QED
      BY <1>1, <3>1, <3>2 DEF Unknown, Elements
  <2>2. QED
    BY <2>1 DEF NotYet
<1>12. QED
  BY <1>8, <1>9, <1>10, <1>11 DEF OnceInv

\* An upload that is appended is new to every list.
LEMMA OnceAppend ==
  ASSUME TypeInv, OnceInv, NEW t \in Threads, AppendUpdate(t)
  PROVE  OnceInv'
<1>. DEFINE u == th[t].upd
<1>1. /\ Moves(t) /\ th'[t].pc = "insert" /\ th'[t].read = th[t].read
      /\ th[t].pc = "append" /\ Busy(t)
      /\ pending' = Append(pending, u) /\ models' = models /\ sent' = sent
      /\ \A s \in Threads \ {t} : th'[s] = th[s]
  BY GotoMoves DEF TypeInv, AppendUpdate, Appended, Moves, Busy, Steps, BeforeBump, clientVars
<1>2. Unknown(u) /\ th[t].read = <<>> /\ u \in sent /\ u \in Updates /\ pending \in Seq(Updates)
  BY <1>1 DEF OnceInv, NotYet, NothingRead, TypeInv, Owned, TypeOK
<1>3. \A s \in Threads \ {t} : th[s].pc = "append" => th[s].upd # u
  BY <1>1 DEF TypeInv, Owned, Busy
<1>. HIDE DEF u
<1>4. /\ DOMAIN pending' = 1 .. Len(pending) + 1 /\ DOMAIN pending = 1 .. Len(pending) /\ Len(pending) \in Nat
      /\ \A i \in DOMAIN pending : pending'[i] = pending[i]
      /\ pending'[Len(pending) + 1] = u
      /\ Elements(pending') = Elements(pending) \cup {u}
  BY <1>1, <1>2, AppendedElements
<1>5. OnceOnly(pending') /\ Elements(pending') \subseteq sent
  <2>1. OnceOnly(pending) /\ Elements(pending) \subseteq sent /\ u \notin Elements(pending)
    BY <1>2 DEF OnceInv, ListsOnce, Uploaded, Unknown
  <2>2. QED
    BY <1>1, <1>2, <1>4, <2>1, AppendedOnce
<1>6. \A s \in Threads : th'[s].read = th[s].read
  BY <1>1
<1>7. ListsOnce'
  BY <1>1, <1>5, <1>6 DEF OnceInv, ListsOnce, OnceOnly, Uploaded, Elements
<1>8. InPlace'
  <2>1. ASSUME NEW s \in Threads, th'[s].pc \in Walks, NEW i \in DOMAIN th'[s].read, NEW j \in DOMAIN pending',
               th'[s].read[i] = pending'[j]
        PROVE  i = j
    <3>1. s # t /\ th[s].pc \in Walks /\ th'[s].read = th[s].read
      BY <1>1, <1>6, <2>1 DEF Walks
    <3>2. CASE j \in DOMAIN pending
      BY <1>4, <2>1, <3>1, <3>2 DEF OnceInv, InPlace
    <3>3. CASE j = Len(pending) + 1
      <4>1. u \in Elements(th[s].read)
        BY <1>4, <2>1, <3>1, <3>3 DEF Elements
      <4>2. QED
        BY <1>2, <4>1 DEF Unknown
    <3>4. QED
      BY <1>4, <2>1, <3>2, <3>3
  <2>2. QED
    BY <2>1 DEF InPlace, Walks
<1>9. NothingRead'
  BY <1>1, <1>2 DEF OnceInv, NothingRead
<1>10. NotYet'
  <2>1. ASSUME NEW s \in Threads, th'[s].pc = "append"
        PROVE  Unknown(th[s].upd)' /\ th'[s] = th[s]
    <3>1. th'[s] = th[s] /\ Unknown(th[s].upd) /\ th[s].upd # u
      BY <1>1, <1>3, <2>1 DEF OnceInv, NotYet
    <3>2. QED
      BY <1>1, <1>4, <1>6, <3>1 DEF Unknown, Elements
  <2>2. QED
    BY <2>1 DEF NotYet
<1>11. QED
  BY <1>7, <1>8, <1>9, <1>10 DEF OnceInv

\* An upload that begins was not sent before.
LEMMA OnceBegin ==
  ASSUME TypeInv, OnceInv, NEW t \in Threads, NEW u \in Updates, Begin(t, u)
  PROVE  OnceInv'
<1>1. /\ u \notin sent /\ sent' = sent \cup {u} /\ pending' = pending /\ models' = models
      /\ th' = (IF QueueHasRoom THEN [th EXCEPT ![t] = [Idle EXCEPT !.pc = "append", !.upd = u]] ELSE th)
      /\ th[t] = Idle
  BY DEF Begin
<1>2. \A s \in Threads : th'[s] = th[s] \/ (s = t /\ th'[s].pc = "append" /\ th'[s].upd = u /\ th'[s].read = <<>>)
  BY <1>1 DEF TypeInv, TypeOK, Idle
<1>3. \A s \in Threads : th'[s].read = th[s].read
  BY <1>1, <1>2 DEF Idle
<1>4. ListsOnce'
  BY <1>1, <1>3 DEF OnceInv, ListsOnce, OnceOnly, Uploaded, Elements
<1>5. InPlace'
  BY <1>1, <1>2 DEF OnceInv, InPlace, Walks
<1>6. NothingRead'
  BY <1>2 DEF OnceInv, NothingRead
<1>7. ASSUME NEW s \in Threads, th'[s].pc = "append"
      PROVE  Unknown(th'[s].upd)
  <2>1. CASE th'[s] = th[s]
    BY <1>7, <2>1 DEF OnceInv, NotYet
  <2>2. CASE th'[s].upd = u
    BY <1>1, <2>2 DEF OnceInv, ListsOnce, Uploaded, Unknown
  <2>3. QED
    BY <1>2, <2>1, <2>2
<1>8. NotYet'
  BY <1>1, <1>3, <1>7 DEF NotYet, Unknown, Elements
<1>9. QED
  BY <1>4, <1>5, <1>6, <1>8 DEF OnceInv

LEMMA OnceCrash ==
  ASSUME TypeInv, OnceInv, Crash
  PROVE  OnceInv'
<1>1. /\ pending' = <<>> /\ UNCHANGED <<models, sent>>
      /\ \A t \in Threads : th'[t].pc = "idle" /\ th'[t].read = <<>>
  BY DEF Crash, Idle, clientVars
<1>2. ListsOnce'
  BY <1>1, EmptyElements DEF OnceInv, ListsOnce, OnceOnly, Uploaded, Elements
<1>3. InPlace' /\ NothingRead' /\ NotYet'
  BY <1>1 DEF InPlace, Walks, NothingRead, NotYet
<1>4. QED
  BY <1>2, <1>3 DEF OnceInv

LEMMA OnceUnchanged ==
  ASSUME OnceInv, UNCHANGED <<th, pending, models, sent>>
  PROVE  OnceInv'
  BY DEF OnceInv, ListsOnce, OnceOnly, Uploaded, Elements, InPlace, Walks, NothingRead, NotYet, Unknown

LEMMA OnceHoldsFirst == Init => OnceInv
<1>. SUFFICES ASSUME Init PROVE OnceInv
  OBVIOUS
<1>1. pending = <<>> /\ models = <<>> /\ \A t \in Threads : th[t].pc = "idle" /\ th[t].read = <<>>
  BY DEF Init, InitMemory, Idle
<1>2. QED
  BY <1>1, EmptyElements DEF OnceInv, ListsOnce, InPlace, Walks, NothingRead, NotYet

LEMMA OnceKept == TypeInv /\ OnceInv /\ [Next]_vars => OnceInv'
<1>. SUFFICES ASSUME TypeInv, OnceInv, [Next]_vars PROVE OnceInv'
  OBVIOUS
<1>1. CASE UNCHANGED vars
  BY <1>1, OnceUnchanged DEF vars, clientVars
<1>2. CASE Load \/ Resave
  BY <1>2, OnceUnchanged DEF Load, Resave, clientVars
<1>3. ASSUME NEW t \in Threads, Aggregate(t) PROVE OnceInv'
  BY <1>3, OnceQuietSteps, OnceWalk DEF Aggregate
<1>4. CASE Next
  BY <1>2, <1>3, <1>4, OnceBegin, OnceAppend, OnceQuietSteps, OnceCrash DEF Next
<1>5. QED
  BY <1>1, <1>4

\* A sequence without repetition has as many elements as places.
LEMMA OnceIsCounted ==
  ASSUME NEW S, NEW q \in Seq(S), OnceOnly(q)
  PROVE  Cardinality(Elements(q)) = Len(q)
<1>1. Len(q) \in Nat /\ DOMAIN q = 1 .. Len(q) /\ q \in [1 .. Len(q) -> S]
  BY LenProperties
<1>2. q \in [1 .. Len(q) -> Elements(q)]
  BY <1>1 DEF Elements
<1>3. \A y \in Elements(q) : \E i \in 1 .. Len(q) : q[i] = y
  BY <1>1 DEF Elements
<1>4. q \in Bijection(1 .. Len(q), Elements(q))
  BY <1>1, <1>2, <1>3, Fun_IsBij DEF OnceOnly
<1>5. ExistsBijection(1 .. Len(q), Elements(q))
  BY <1>4 DEF ExistsBijection
<1>6. QED
  BY <1>1, <1>5, FS_CountingElements

\* However the list changes under a walk, no update weighs in twice in a model.
THEOREM OnceInAModel == Spec => []OncePerModel
<1>1. TypeInv /\ OnceInv => OncePerModel
  <2>. SUFFICES ASSUME TypeInv, OnceInv, NEW i \in DOMAIN models
                PROVE  Cardinality(Elements(models[i])) = Len(models[i])
    BY DEF OncePerModel
  <2>1. models[i] \in Seq(Updates) /\ OnceOnly(models[i])
    <3>1. models \in Seq(Seq(Updates))
      BY DEF TypeInv, TypeOK
    <3>2. QED
      BY <3>1, LenProperties, ElementOfSeq DEF OnceInv, ListsOnce
  <2>2. QED
    BY <2>1, OnceIsCounted
<1>2. QED
  BY <1>1, TypesHoldFirst, TypesKept, OnceHoldsFirst, OnceKept, PTL DEF Spec

-----------------------------------------------------------------------------
(***************************************************************************)
(* SerialIsExact: as long as uploads come one after the other and nothing  *)
(* fails, the list a thread walks over is the list it has counted, and     *)
(* what it clears is what it has published.                                *)
(***************************************************************************)

Serial == ~overlap /\ failures = 0
Published == {"open", "fill", "row", "clear"}
InModels == UNION {Elements(models[i]) : i \in DOMAIN models}

Alone == \A s, t \in Threads : Busy(s) /\ Busy(t) => s = t

\* Pending updates are in no model, but for those of a model that is just published.
Apart == \A i \in DOMAIN models : Elements(pending) \cap Elements(models[i]) = {}
ApartOrPublished == (\A t \in Threads : th[t].pc \notin Published) => Apart

\* What a thread has got of the list.
Stage(t) ==
  /\ th[t].pc \in Published => Elements(pending) \subseteq InModels /\ th[t].upd \in InModels
  /\ th[t].pc \in {"insert", "count", "sum", "mix", "bump", "publish"} => th[t].upd \in Elements(pending)
  /\ th[t].pc \in {"sum", "mix", "bump", "publish"} => Len(pending) >= MinUpdates
  /\ th[t].pc \in Walks =>
       Len(th[t].read) <= Len(pending) /\ \A i \in 1 .. Len(th[t].read) : th[t].read[i] = pending[i]
  /\ th[t].pc \in {"bump", "publish"} => th[t].read = pending

Exact ==
  /\ \A i \in DOMAIN models :
       /\ Len(models[i]) >= MinUpdates
       /\ \A j \in DOMAIN models : i # j => Elements(models[i]) \cap Elements(models[j]) = {}
  /\ accepted \subseteq Elements(pending) \cup InModels

SerialInv == Serial => Alone /\ ApartOrPublished /\ (\A t \in Threads : Stage(t)) /\ Exact

\* In a step of a thread that is alone, the others have nothing of the list.
LEMMA SerialStep ==
  ASSUME TypeInv, NEW t \in Threads, Moves(t), Alone,
         th'[t].pc \notin Published => Apart', Stage(t)', Exact'
  PROVE  SerialInv'
<1>1. \A s \in Threads \ {t} : th'[s] = th[s] /\ th[s].pc = "idle"
  BY DEF Moves, Alone, Busy
<1>2. Alone'
  BY <1>1 DEF Alone, Busy
<1>3. ApartOrPublished'
  BY DEF ApartOrPublished
<1>4. ASSUME NEW s \in Threads PROVE Stage(s)'
  <2>1. CASE s = t
    BY <2>1
  <2>2. CASE s # t
    BY <1>1, <2>2 DEF Stage, Published, Walks
  <2>3. QED
    BY <2>1, <2>2
<1>5. QED
  BY <1>2, <1>3, <1>4 DEF SerialInv

\* What holds of a thread that makes a step in a serial behaviour.
LEMMA SerialFacts ==
  ASSUME SerialInv, Serial, NEW t \in Threads, Busy(t)
  PROVE  Alone /\ Stage(t) /\ Exact /\ (th[t].pc \notin Published => Apart)
<1>1. Alone /\ ApartOrPublished /\ Stage(t) /\ Exact
  BY DEF SerialInv
<1>2. \A s \in Threads \ {t} : th[s].pc \notin Published
  BY <1>1 DEF Alone, Busy, Published
<1>3. QED
  BY <1>1, <1>2 DEF ApartOrPublished

LEMMA SameModels ==
  ASSUME models' = models
  PROVE  /\ InModels' = InModels
         /\ pending' = pending => Elements(pending)' = Elements(pending) /\ (Apart => Apart')
         /\ Exact /\ accepted' \subseteq Elements(pending)' \cup InModels => Exact'
<1>1. InModels' = InModels
  BY DEF InModels, Elements
<1>2. ASSUME pending' = pending PROVE Elements(pending)' = Elements(pending)
  BY <1>2 DEF Elements
<1>3. ASSUME pending' = pending, Apart PROVE Apart'
  BY <1>3 DEF Apart, Elements
<1>4. ASSUME Exact, accepted' \subseteq Elements(pending)' \cup InModels PROVE Exact'
  <2>1. ASSUME NEW i \in DOMAIN models'
        PROVE  /\ Len(models'[i]) >= MinUpdates
               /\ \A j \in DOMAIN models' : i # j => Elements(models'[i]) \cap Elements(models'[j]) = {}
    BY <1>4, <2>1 DEF Exact
  <2>2. QED
    BY <1>1, <1>4, <2>1 DEF Exact, Elements
<1>5. QED
  BY <1>1, <1>2, <1>3, <1>4

\* A step that leaves list, models and failures alone.
LEMMA SerialQuiet ==
  ASSUME TypeInv, SerialInv, Serial, NEW t \in Threads, Moves(t), UNCHANGED <<pending, models, accepted>>,
         th'[t].pc \in Published => th[t].pc \in Published, Stage(t)',
         th'[t].pc \notin Published => th[t].pc \notin Published
  PROVE  SerialInv'
<1>1. Alone /\ Exact /\ (th[t].pc \notin Published => Apart)
  BY SerialFacts DEF Moves
<1>2. Exact' /\ (th'[t].pc \notin Published => Apart')
  <2>1. pending' = pending /\ models' = models /\ accepted' = accepted
    OBVIOUS
  <2>2. accepted' \subseteq Elements(pending)' \cup InModels
    BY <1>1, <2>1, SameModels DEF Exact
  <2>3. QED
    BY <1>1, <2>1, <2>2, SameModels
<1>3. QED
  BY <1>1, <1>2, SerialStep

\* An upload is answered 200 when its update is in the list, or the list is
\* in the models.
LEMMA SerialAccept ==
  ASSUME TypeInv, SerialInv, Serial, NEW t \in Threads, Busy(t), Accept(t),
         UNCHANGED <<systemVars, clientVars, models>>,
         \/ pending' = pending /\ th[t].pc \notin Published /\ th[t].upd \in Elements(pending)
         \/ pending' = <<>> /\ th[t].pc \in Published
  PROVE  SerialInv'
<1>1. Alone /\ Stage(t) /\ Exact /\ (th[t].pc \notin Published => Apart)
  BY SerialFacts
<1>2. Moves(t) /\ th'[t].pc = "idle" /\ accepted' = accepted \cup {th[t].upd}
  BY AcceptTypes DEF Idle, Accept
<1>3. Stage(t)'
  BY <1>2 DEF Stage, Published, Walks
<1>4. Apart' /\ Exact'
  <2>1. CASE pending' = pending /\ th[t].pc \notin Published /\ th[t].upd \in Elements(pending)
    <3>1. accepted' \subseteq Elements(pending)' \cup InModels
      BY <1>1, <1>2, <2>1, SameModels DEF Exact
    <3>2. QED
      BY <1>1, <2>1, <3>1, SameModels
  <2>2. CASE pending' = <<>> /\ th[t].pc \in Published
    <3>1. Elements(pending)' = {}
      BY <2>2, EmptyElements DEF Elements
    <3>2. accepted' \subseteq InModels
      BY <1>1, <1>2, <2>2 DEF Stage, Exact
    <3>3. Apart'
      BY <3>1 DEF Apart, Elements
    <3>4. QED
      BY <1>1, <3>2, <3>3, SameModels
  <2>3. QED
    BY <2>1, <2>2
<1>5. QED
  BY <1>1, <1>2, <1>3, <1>4, SerialStep

LEMMA SerialAppend ==
  ASSUME TypeInv, OnceInv, SerialInv, Serial, NEW t \in Threads, AppendUpdate(t)
  PROVE  SerialInv'
<1>1. /\ Moves(t) /\ th'[t].pc = "insert" /\ th'[t].upd = th[t].upd
      /\ th[t].pc = "append" /\ Busy(t)
      /\ pending' = Append(pending, th[t].upd) /\ models' = models /\ accepted' = accepted
  BY GotoMoves DEF TypeInv, AppendUpdate, Appended, Busy, Steps, BeforeBump
<1>2. Unknown(th[t].upd) /\ th[t].upd \in Updates /\ pending \in Seq(Updates)
  BY <1>1 DEF OnceInv, NotYet, TypeInv, Owned, TypeOK
<1>3. Elements(pending)' = Elements(pending) \cup {th[t].upd}
  BY <1>1, <1>2, AppendedElements DEF Elements
<1>4. Alone /\ Exact /\ Apart
  BY <1>1, SerialFacts DEF Published
<1>5. Stage(t)'
  BY <1>1, <1>3 DEF Stage, Published, Walks
<1>6. Apart'
  <2>1. \A i \in DOMAIN models : (Elements(pending) \cup {th[t].upd}) \cap Elements(models[i]) = {}
    BY <1>2, <1>4 DEF Apart, Unknown
  <2>2. \A i \in DOMAIN models' : Elements(pending)' \cap Elements(models'[i]) = {}
    BY <1>1, <1>3, <2>1
  <2>3. \A i \in DOMAIN models' : Elements(models'[i]) = Elements(models[i])'
    BY DEF Elements
  <2>4. QED
    BY <2>2, <2>3 DEF Apart
<1>7. Exact'
  BY <1>1, <1>3, <1>4, SameModels DEF Exact
<1>8. QED
  BY <1>1, <1>4, <1>5, <1>6, <1>7, SerialStep

LEMMA SerialInsert ==
  ASSUME TypeInv, SerialInv, Serial, NEW t \in Threads, InsertUpdate(t)
  PROVE  SerialInv'
<1>1. /\ Moves(t) /\ th'[t].pc = "count" /\ th'[t].upd = th[t].upd
      /\ th[t].pc = "insert" /\ Busy(t)
      /\ pending' = pending /\ models' = models /\ accepted' = accepted
  BY GotoMoves DEF TypeInv, InsertUpdate, Busy, Steps, BeforeBump
<1>2. Stage(t)'
  BY <1>1, SerialFacts DEF Stage, Published, Walks, Elements
<1>3. QED
  BY <1>1, <1>2, SerialQuiet DEF Published

\* What passes the check is as long as the walks will find it.
LEMMA SerialCount ==
  ASSUME TypeInv, OnceInv, SerialInv, Serial, NEW t \in Threads, Count(t)
  PROVE  SerialInv'
<1>1. /\ th[t].pc = "count" /\ Busy(t) /\ pending' = pending /\ models' = models
      /\ UNCHANGED <<systemVars, clientVars>>
  BY DEF Count, Busy
<1>2. th[t].upd \in Elements(pending) /\ th[t].read = <<>>
  BY <1>1, SerialFacts DEF Stage, OnceInv, NothingRead
<1>3. CASE Len(pending) < MinUpdates
  BY <1>1, <1>2, <1>3, SerialAccept DEF Count, Published
<1>4. CASE ~(Len(pending) < MinUpdates)
  <2>1. Moves(t) /\ th'[t].pc = "sum" /\ th'[t].upd = th[t].upd /\ th'[t].read = <<>> /\ accepted' = accepted
    BY <1>1, <1>2, <1>4, GotoMoves DEF TypeInv, Count, Steps, BeforeBump
  <2>2. Len(pending) >= MinUpdates /\ Len(pending) \in Nat /\ Len(<<>>) = 0
    BY <1>4, NumbersAssumption, LenProperties, EmptySeq DEF TypeInv, TypeOK
  <2>3. Stage(t)'
    BY <1>1, <1>2, <2>1, <2>2 DEF Stage, Published, Elements
  <2>4. QED
    BY <1>1, <2>1, <2>3, SerialQuiet DEF Published
<1>5. QED
  BY <1>3, <1>4

LEMMA SerialWalk ==
  ASSUME TypeInv, SerialInv, Serial, NEW t \in Threads, WalkOn(t)
  PROVE  SerialInv'
<1>. DEFINE read == th[t].read
            here == Here(t)
<1>1. /\ Moves(t) /\ th'[t].pc = th[t].pc /\ th'[t].upd = th[t].upd /\ th'[t].read = Append(read, here)
      /\ th[t].pc \in Walks /\ Busy(t)
      /\ pending' = pending /\ models' = models /\ accepted' = accepted
  BY WalkMoves DEF TypeInv, WalkOn, Busy, Walks
<1>2. /\ Len(read) + 1 \in DOMAIN pending /\ here = pending[Len(read) + 1] /\ here \in Updates
      /\ read \in Seq(Updates) /\ pending \in Seq(Updates)
  BY HereIs DEF TypeInv, TypeOK, Thread, WalkOn
<1>3. Stage(t) /\ \A i \in 1 .. Len(read) : read[i] = pending[i]
  BY <1>1, SerialFacts DEF Stage
<1>. HIDE DEF read, here
<1>4. /\ Len(Append(read, here)) = Len(read) + 1 /\ Len(read) \in Nat
      /\ \A i \in 1 .. Len(read) : Append(read, here)[i] = read[i]
      /\ Append(read, here)[Len(read) + 1] = here
  BY <1>2, AppendProperties, LenProperties
<1>5. \A i \in 1 .. Len(read) + 1 : Append(read, here)[i] = pending[i]
  <2>1. ASSUME NEW i \in 1 .. Len(read) + 1 PROVE Append(read, here)[i] = pending[i]
    <3>1. i \in 1 .. Len(read) \/ i = Len(read) + 1
      BY <1>4, <2>1
    <3>2. QED
      BY <1>2, <1>3, <1>4, <3>1
  <2>2. QED
    BY <2>1
<1>6. Len(read) + 1 <= Len(pending)
  BY <1>2, <1>4, LenProperties
<1>7. Stage(t)'
  BY <1>1, <1>3, <1>4, <1>5, <1>6 DEF Stage, Published, Walks, Elements
<1>8. QED
  BY <1>1, <1>7, SerialQuiet DEF Published, Walks

LEMMA SerialSum ==
  ASSUME TypeInv, SerialInv, Serial, NEW t \in Threads, SumDone(t)
  PROVE  SerialInv'
<1>1. /\ th[t].pc = "sum" /\ Busy(t) /\ pending' = pending /\ models' = models
      /\ UNCHANGED <<systemVars, clientVars>>
  BY DEF SumDone, Busy
<1>2. th[t].upd \in Elements(pending) /\ Len(pending) >= MinUpdates /\ Len(pending) \in Nat
  BY <1>1, SerialFacts, LenProperties DEF Stage, TypeInv, TypeOK
<1>3. CASE th[t].read = <<>>
  BY <1>1, <1>2, <1>3, SerialAccept DEF SumDone, Published
<1>4. CASE th[t].read # <<>>
  <2>1. Moves(t) /\ th'[t].pc = "mix" /\ th'[t].upd = th[t].upd /\ th'[t].read = <<>> /\ accepted' = accepted
    BY <1>4, SumMoves DEF TypeInv, SumDone
  <2>2. Len(<<>>) = 0
    BY EmptySeq
  <2>3. Stage(t)'
    BY <1>1, <1>2, <2>1, <2>2 DEF Stage, Published, Elements
  <2>4. QED
    BY <1>1, <2>1, <2>3, SerialQuiet DEF Published
<1>5. QED
  BY <1>3, <1>4

\* At the end of the second walk the thread has mixed the whole list.
LEMMA SerialMix ==
  ASSUME TypeInv, SerialInv, Serial, NEW t \in Threads, MixDone(t)
  PROVE  SerialInv'
<1>1. /\ Moves(t) /\ th'[t].pc = "bump" /\ th'[t].upd = th[t].upd /\ th'[t].read = th[t].read
      /\ th[t].pc = "mix" /\ Busy(t)
      /\ pending' = pending /\ models' = models /\ accepted' = accepted
  BY GotoMoves DEF TypeInv, MixDone, Busy, Steps, BeforeBump
<1>2. Stage(t)
  BY <1>1, SerialFacts
<1>3. th[t].read = pending
  <2>1. th[t].read \in Seq(Updates) /\ pending \in Seq(Updates)
    BY DEF TypeInv, TypeOK, Thread
  <2>2. Len(th[t].read) \in Nat /\ Len(pending) \in Nat
    BY <2>1, LenProperties
  <2>3. Len(th[t].read) = Len(pending)
    BY <1>1, <1>2, <2>2 DEF Stage, Walks, MixDone, AtEnd
  <2>4. QED
    BY <1>1, <1>2, <2>1, <2>3, SeqEqual DEF Stage, Walks
<1>4. Stage(t)'
  BY <1>1, <1>2, <1>3 DEF Stage, Published, Walks, Elements
<1>5. QED
  BY <1>1, <1>4, SerialQuiet DEF Published

LEMMA SerialBump ==
  ASSUME TypeInv, SerialInv, Serial, NEW t \in Threads, Bump(t)
  PROVE  SerialInv'
<1>1. /\ Moves(t) /\ th'[t].pc = "publish" /\ th'[t].upd = th[t].upd /\ th'[t].read = th[t].read
      /\ th[t].pc = "bump" /\ Busy(t)
      /\ pending' = pending /\ models' = models /\ accepted' = accepted
  BY GotoMoves DEF TypeInv, Bump, Busy, Steps, BeforeBump
<1>2. Stage(t)'
  BY <1>1, SerialFacts DEF Stage, Published, Walks, Elements
<1>3. QED
  BY <1>1, <1>2, SerialQuiet DEF Published

\* The model is the list, which no earlier model has anything of.
LEMMA SerialPublish ==
  ASSUME TypeInv, SerialInv, Serial, NEW t \in Threads, Publish(t)
  PROVE  SerialInv'
<1>1. /\ Moves(t) /\ th'[t].pc = "open" /\ th'[t].upd = th[t].upd
      /\ th[t].pc = "publish" /\ Busy(t)
      /\ pending' = pending /\ models' = Append(models, th[t].read) /\ accepted' = accepted
  BY PublishMoves DEF TypeInv, Publish, Busy
<1>2. Alone /\ Stage(t) /\ Exact /\ Apart
  BY <1>1, SerialFacts DEF Published
<1>3. /\ th[t].read = pending /\ Len(pending) >= MinUpdates /\ th[t].upd \in Elements(pending)
      /\ pending \in Seq(Updates) /\ models \in Seq(Seq(Updates))
  BY <1>1, <1>2 DEF Stage, TypeInv, TypeOK
<1>4. /\ DOMAIN models' = 1 .. Len(models) + 1 /\ DOMAIN models = 1 .. Len(models) /\ Len(models) \in Nat
      /\ \A i \in DOMAIN models : models'[i] = models[i]
      /\ models'[Len(models) + 1] = pending
  BY <1>1, <1>3, AppendedElements
<1>5. \A i \in DOMAIN models' : i \in DOMAIN models \/ i = Len(models) + 1
  BY <1>4
<1>6. Len(models) + 1 \in DOMAIN models' /\ DOMAIN models \subseteq DOMAIN models'
  BY <1>4
<1>7. InModels' = InModels \cup Elements(pending) /\ Elements(pending)' = Elements(pending)
  <2>1. Elements(pending)' = Elements(pending)
    BY <1>1 DEF Elements
  <2>2. InModels' = UNION {Elements(models'[i]) : i \in DOMAIN models'}
    BY DEF InModels, Elements
  <2>3. QED
    BY <1>4, <1>5, <1>6, <2>1, <2>2 DEF InModels
<1>8. Stage(t)'
  BY <1>1, <1>3, <1>7 DEF Stage, Published, Walks
<1>9. Exact'
  <2>1. ASSUME NEW i \in DOMAIN models', NEW j \in DOMAIN models', i # j
        PROVE  Elements(models'[i]) \cap Elements(models'[j]) = {}
    <3>1. CASE i \in DOMAIN models /\ j \in DOMAIN models
      BY <1>2, <1>4, <2>1, <3>1 DEF Exact
    <3>2. CASE i = Len(models) + 1 /\ j \in DOMAIN models
      BY <1>2, <1>4, <3>2 DEF Apart
    <3>3. CASE j = Len(models) + 1 /\ i \in DOMAIN models
      BY <1>2, <1>4, <3>3 DEF Apart
    <3>4. QED
      BY <1>5, <2>1, <3>1, <3>2, <3>3
  <2>2. \A i \in DOMAIN models' : Len(models'[i]) >= MinUpdates
    BY <1>2, <1>3, <1>4, <1>5 DEF Exact
  <2>3. accepted' \subseteq Elements(pending)' \cup InModels'
    BY <1>1, <1>2, <1>7 DEF Exact
  <2>4. QED
    BY <2>1, <2>2, <2>3 DEF Exact, Elements
<1>10. QED
  BY <1>1, <1>2, <1>8, <1>9, SerialStep DEF Published

LEMMA SerialSave ==
  ASSUME TypeInv, SerialInv, Serial, NEW t \in Threads, SaveModel(t)
  PROVE  SerialInv'
<1>1. /\ Moves(t) /\ th'[t].pc \in {"fill", "row", "clear"} /\ th'[t].upd = th[t].upd
      /\ th[t].pc \in {"open", "fill", "row"} /\ Busy(t)
      /\ pending' = pending /\ models' = models /\ accepted' = accepted
  BY GotoMoves DEF TypeInv, SaveModel, Busy, Steps, BeforeBump
<1>2. Stage(t)'
  BY <1>1, SerialFacts, SameModels DEF Stage, Published, Walks
<1>3. QED
  BY <1>1, <1>2, SerialQuiet DEF Published

LEMMA SerialClear ==
  ASSUME TypeInv, SerialInv, Serial, NEW t \in Threads, Clear(t)
  PROVE  SerialInv'
  BY SerialAccept DEF Clear, Cleared, Published, Busy

\* An upload that begins finds every other ended.
LEMMA SerialBegin ==
  ASSUME TypeInv, SerialInv, Serial', NEW t \in Threads, NEW u \in Updates, Begin(t, u)
  PROVE  SerialInv'
<1>1. /\ pending' = pending /\ models' = models /\ accepted' = accepted /\ failures' = failures
      /\ overlap' = (overlap \/ \E s \in Threads : th[s] # Idle)
      /\ th' = (IF QueueHasRoom THEN [th EXCEPT ![t] = [Idle EXCEPT !.pc = "append", !.upd = u]] ELSE th)
  BY DEF Begin
<1>2. ~overlap' /\ failures' = 0
  BY DEF Serial
<1>3. ~overlap /\ \A s \in Threads : th[s] = Idle
  BY <1>1, <1>2, Zenon
<1>4. Serial
  BY <1>1, <1>2, <1>3 DEF Serial
<1>5. \A s \in Threads : th'[s].pc = "idle" \/ (s = t /\ th'[s].pc = "append")
  BY <1>1, <1>3 DEF TypeInv, TypeOK, Idle
<1>6. \A s \in Threads : th[s].pc = "idle"
  BY <1>3 DEF Idle
<1>7. Exact /\ Apart
  BY <1>4, <1>6 DEF SerialInv, ApartOrPublished, Published
<1>8. Alone' /\ \A s \in Threads : Stage(s)'
  BY <1>5 DEF Alone, Busy, Stage, Published, Walks
<1>9. Exact' /\ Apart'
  BY <1>1, <1>7, SameModels DEF Exact
<1>10. QED
  BY <1>8, <1>9 DEF SerialInv, ApartOrPublished

\* A crash loses the list, and with it what this process had accepted.
LEMMA SerialCrash ==
  ASSUME TypeInv, SerialInv, Serial, Crash
  PROVE  SerialInv'
<1>1. /\ pending' = <<>> /\ models' = models /\ accepted' = {}
      /\ \A s \in Threads : th'[s].pc = "idle"
  BY DEF Crash, Idle
<1>2. Alone' /\ \A s \in Threads : Stage(s)'
  BY <1>1 DEF Alone, Busy, Stage, Published, Walks
<1>3. Elements(pending)' = {}
  BY <1>1, EmptyElements DEF Elements
<1>4. Apart'
  BY <1>3 DEF Apart, Elements
<1>5. Exact'
  BY <1>1, SameModels DEF SerialInv
<1>6. QED
  BY <1>2, <1>4, <1>5 DEF SerialInv, ApartOrPublished

LEMMA SerialUnchanged ==
  ASSUME SerialInv, Serial, UNCHANGED <<th, pending, models, accepted>>
  PROVE  SerialInv'
<1>1. th' = th /\ pending' = pending /\ models' = models /\ accepted' = accepted
  OBVIOUS
<1>2. Alone /\ ApartOrPublished /\ (\A t \in Threads : Stage(t)) /\ Exact
  BY DEF SerialInv
<1>3. Alone' /\ ApartOrPublished' /\ Exact'
  BY <1>1, <1>2, SameModels DEF Alone, Busy, ApartOrPublished, Exact
<1>4. ASSUME NEW t \in Threads PROVE Stage(t)'
  <2>1. Stage(t) /\ InModels' = InModels /\ Elements(pending)' = Elements(pending)
    BY <1>1, <1>2, SameModels
  <2>2. QED
    BY <1>1, <2>1 DEF Stage
<1>5. QED
  BY <1>3, <1>4 DEF SerialInv

LEMMA SerialHoldsFirst == Init => SerialInv
<1>. SUFFICES ASSUME Init PROVE SerialInv
  OBVIOUS
<1>1. pending = <<>> /\ models = <<>> /\ accepted = {} /\ \A t \in Threads : th[t].pc = "idle"
  BY DEF Init, InitMemory, Idle
<1>2. Alone /\ \A t \in Threads : Stage(t)
  BY <1>1 DEF Alone, Busy, Stage, Published, Walks
<1>3. Apart /\ Exact
  BY <1>1, EmptyElements DEF Apart, Exact
<1>4. QED
  BY <1>2, <1>3 DEF SerialInv, ApartOrPublished

\* Once uploads have overlapped, or a statement has failed, nothing is claimed.
LEMMA SerialBefore ==
  ASSUME Serial', overlap' = overlap, failures' = failures
  PROVE  Serial
<1>1. ~overlap
  BY Zenon DEF Serial
<1>2. QED
  BY <1>1 DEF Serial

LEMMA SerialKept == TypeInv /\ OnceInv /\ SerialInv /\ [Next]_vars => SerialInv'
<1>. SUFFICES ASSUME TypeInv, OnceInv, SerialInv, [Next]_vars, Serial' PROVE SerialInv'
  BY DEF SerialInv
<1>1. CASE UNCHANGED vars
  <2>1. UNCHANGED <<th, pending, models, accepted>> /\ overlap' = overlap /\ failures' = failures
    BY <1>1 DEF vars, clientVars
  <2>2. QED
    BY <2>1, SerialBefore, SerialUnchanged
<1>2. CASE Load \/ Resave
  <2>1. UNCHANGED <<th, pending, models, accepted>> /\ overlap' = overlap /\ failures' = failures
    BY <1>2 DEF Load, Resave, clientVars
  <2>2. QED
    BY <2>1, SerialBefore, SerialUnchanged
<1>3. CASE Crash
  <2>1. overlap' = overlap /\ failures' = failures
    BY <1>3 DEF Crash, clientVars
  <2>2. QED
    BY <1>3, <2>1, SerialBefore, SerialCrash
<1>4. ASSUME NEW t \in Threads, StatementFails(t) PROVE FALSE
  BY <1>4 DEF StatementFails, Serial, TypeInv, TypeOK
<1>5. ASSUME NEW t \in Threads, AppendUpdate(t) \/ InsertUpdate(t) \/ Aggregate(t) PROVE SerialInv'
  <2>1. overlap' = overlap /\ failures' = failures
    BY <1>5 DEF AppendUpdate, InsertUpdate, Aggregate, Count, WalkOn, SumDone, MixDone, Bump, Publish,
                SaveModel, Clear, clientVars
  <2>2. Serial
    BY <2>1, SerialBefore
  <2>3. QED
    BY <1>5, <2>2, SerialAppend, SerialInsert, SerialCount, SerialWalk, SerialSum, SerialMix, SerialBump,
       SerialPublish, SerialSave, SerialClear DEF Aggregate
<1>6. CASE Next
  BY <1>2, <1>3, <1>4, <1>5, <1>6, SerialBegin DEF Next
<1>7. QED
  BY <1>1, <1>6

\* Uploads that neither overlap nor fail are aggregated exactly: each model has
\* MinUpdates or more, no update is in two, and none that was accepted is lost.
THEOREM SerialExact == Spec => []SerialIsExact
<1>1. SerialInv => SerialIsExact
  BY DEF SerialInv, Serial, Exact, InModels, SerialIsExact
<1>2. QED
  BY <1>1, TypesHoldFirst, TypesKept, OnceHoldsFirst, OnceKept, SerialHoldsFirst, SerialKept, PTL DEF Spec

=============================================================================
