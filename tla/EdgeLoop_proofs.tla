--------------------------- MODULE EdgeLoop_proofs ---------------------------
(***************************************************************************)
(* Theorems about EdgeLoop, for any number of start requests, threads and  *)
(* events: as long as no two starts overlap, one thread of the loop is     *)
(* alive at most and a stop takes hold.                                    *)
(***************************************************************************)
EXTENDS EdgeLoop, FiniteSetTheorems, TLAPS

\* Starts that may still make a thread.
Starting == {r \in Requests : req[r] \in {"clear", "create"}}

\* The bound on the threads counts the starts under way.
Counted == IsFiniteSet(UnderWay) /\ Len(threads) + Cardinality(Starting) <= MaxStarts

Newest == current = Len(threads) /\ \A r \in Requests : req[r] = "start" => current >= 1

\* What holds of each thread.
Sound(t) ==
  /\ t.at = "send" => Count = 0 \/ t.sent < Count
  /\ t.at = "new" => ~t.held

\* As long as no two starts overlap: all threads but the newest are over, it is
\* over too while a start has not made a thread yet, and new exactly while the
\* start that made it is under way; and a thread that was to stop and is not
\* over finds the event set.
Alone ==
  /\ \A r, s \in UnderWay : r = s
  /\ \A i \in 1 .. Len(threads) - 1 : threads[i].at = "over"
  /\ \A r \in Starting : \A i \in 1 .. Len(threads) : threads[i].at = "over"
  /\ \A r \in Requests : req[r] = "start" => threads[current].at = "new"
  /\ current >= 1 /\ threads[current].at = "new" => \E r \in Requests : req[r] = "start"
  /\ \A i \in 1 .. Len(threads) : threads[i].at \in {"test", "send"} /\ threads[i].held => stop
  /\ \A i \in 1 .. Len(threads) : threads[i].late = 0

\* The inductive invariant.
IndInv ==
  /\ TypeOK
  /\ Counted
  /\ Newest
  /\ \A i \in 1 .. Len(threads) : Sound(threads[i])
  /\ ~overlapped => Alone

-----------------------------------------------------------------------------
(***************************************************************************)
(* Facts the steps share.                                                  *)
(***************************************************************************)

LEMMA Shapes ==
  ASSUME NumbersAssumption, TypeOK
  PROVE  /\ Count \in Nat /\ MaxStarts \in Nat
         /\ Len(threads) \in Nat /\ DOMAIN threads = 1 .. Len(threads)
         /\ \A i \in 1 .. Len(threads) : threads[i] \in Thread
         /\ current \in 0 .. Len(threads)
         /\ req \in [Requests -> {"idle", "clear", "create", "start"}]
<1>1. threads \in Seq(Thread)
  BY DEF TypeOK
<1>2. Len(threads) \in Nat /\ DOMAIN threads = 1 .. Len(threads) /\ \A i \in 1 .. Len(threads) : threads[i] \in Thread
  BY <1>1
<1>3. QED
  BY <1>2 DEF NumbersAssumption, TypeOK

LEMMA StartingFinite ==
  ASSUME IsFiniteSet(UnderWay)
  PROVE  IsFiniteSet(Starting) /\ Cardinality(Starting) \in Nat /\ Cardinality(Starting) <= Cardinality(UnderWay)
         /\ Cardinality(UnderWay) \in Nat
<1>1. Starting \in SUBSET UnderWay
  BY DEF Starting, UnderWay
<1>2. QED
  BY <1>1, FS_Subset, FS_CardinalityType

LEMMA InitHolds ==
  ASSUME NumbersAssumption, Init
  PROVE  IndInv
<1>1. Count \in Nat /\ MaxStarts \in Nat /\ Len(threads) = 0
  BY DEF Init, NumbersAssumption
<1>2. TypeOK
  <2>1. threads = <<>> /\ threads \in Seq(Thread)
    BY DEF Init
  <2>2. stop \in BOOLEAN /\ overlapped \in BOOLEAN
    BY DEF Init
  <2>3. req \in [Requests -> {"idle", "clear", "create", "start"}]
    BY DEF Init
  <2>4. current \in 0 .. Len(threads) /\ Len(threads) <= MaxStarts
    BY <1>1 DEF Init
  <2>5. QED
    BY <2>1, <2>2, <2>3, <2>4 DEF TypeOK
<1>3. UnderWay = {} /\ Starting = {}
  BY DEF Init, UnderWay, Starting
<1>4. Counted
  BY <1>1, <1>3, FS_EmptySet DEF Counted
<1>5. Newest
  BY <1>1 DEF Init, Newest
<1>6. Alone
  BY <1>1, <1>3 DEF Alone, Init
<1>7. QED
  BY <1>1, <1>2, <1>4, <1>5, <1>6 DEF IndInv

-----------------------------------------------------------------------------
(***************************************************************************)
(* The steps.                                                              *)
(***************************************************************************)

LEMMA CheckStartKeeps ==
  ASSUME NumbersAssumption, IndInv, NEW r \in Requests, CheckStart(r)
  PROVE  IndInv'
<1>1. TypeOK
  BY DEF IndInv
<1>2. /\ req[r] = "idle" /\ current \notin Live /\ Len(threads) + Cardinality(UnderWay) < MaxStarts
      /\ req' = [req EXCEPT ![r] = "clear"] /\ overlapped' = (overlapped \/ UnderWay # {})
      /\ UNCHANGED <<stop, current, threads>>
  BY DEF CheckStart, MayStart
<1>3. /\ req' \in [Requests -> {"idle", "clear", "create", "start"}] /\ req'[r] = "clear"
      /\ \A s \in Requests : s # r => req'[s] = req[s]
  BY <1>1, <1>2, Shapes
<1>4. overlapped \in BOOLEAN
  BY <1>1 DEF TypeOK
<1>5. overlapped' \in BOOLEAN
  BY <1>2, <1>4
<1>6. TypeOK'
  BY <1>1, <1>2, <1>3, <1>5 DEF TypeOK
<1>7. UnderWay' = UnderWay \cup {r} /\ r \notin UnderWay
  BY <1>2, <1>3 DEF UnderWay
<1>8. Starting' = Starting \cup {r} /\ r \notin Starting
  BY <1>2, <1>3 DEF Starting
<1>9. Counted'
  <2>1. IsFiniteSet(UnderWay) /\ Len(threads) \in Nat /\ MaxStarts \in Nat
    BY <1>1, Shapes DEF IndInv, Counted
  <2>2. IsFiniteSet(UnderWay')
    BY <1>7, <2>1, FS_AddElement
  <2>3. /\ Cardinality(Starting) \in Nat /\ Cardinality(UnderWay) \in Nat
        /\ Cardinality(Starting) <= Cardinality(UnderWay) /\ IsFiniteSet(Starting)
    BY <2>1, StartingFinite
  <2>4. Cardinality(Starting') = Cardinality(Starting) + 1
    BY <1>8, <2>3, FS_AddElement
  <2>5. Len(threads) + (Cardinality(Starting) + 1) <= MaxStarts
    BY <1>2, <2>1, <2>3
  <2>6. QED
    BY <1>2, <2>2, <2>4, <2>5 DEF Counted
<1>10. Newest'
  BY <1>2, <1>3 DEF IndInv, Newest
<1>11. \A i \in 1 .. Len(threads) : Sound(threads[i])
  BY DEF IndInv
\* A newest thread that is new has its start under way.
<1>12. ASSUME ~overlapped, UnderWay = {}
       PROVE  Alone'
  <2>1. Alone /\ \A s \in Requests : req[s] = "idle"
    BY <1>1, <1>12, Shapes DEF IndInv, UnderWay
  <2>2. ~(current >= 1 /\ threads[current].at = "new")
    BY <2>1 DEF Alone
  <2>3. ASSUME NEW i \in 1 .. Len(threads)
        PROVE  threads[i].at = "over"
    <3>1. CASE i = Len(threads)
      <4>1. i = current /\ current >= 1 /\ i \in DOMAIN threads /\ threads[i] \in Thread
        BY <1>1, <3>1, Shapes DEF IndInv, Newest
      <4>2. threads[i].at # "new" /\ threads[i].at \notin {"test", "send"}
        BY <1>2, <2>2, <4>1 DEF Live
      <4>3. QED
        BY <4>1, <4>2 DEF Thread
    <3>2. CASE i # Len(threads)
      <4>1. i \in 1 .. Len(threads) - 1
        <5>1. Len(threads) \in Nat
          BY <1>1, Shapes
        <5>2. QED
          BY <3>2, <5>1
      <4>2. QED
        BY <2>1, <4>1 DEF Alone
    <3>3. QED
      BY <3>1, <3>2
  <2>4. \A s \in Requests : s # r => req'[s] = "idle"
    BY <1>3, <2>1
  <2>5. UnderWay' = {r}
    BY <1>7, <1>12
  <2>6. \A s \in Requests : req'[s] # "start"
    BY <1>3, <2>4
  <2>7. \A i \in 1 .. Len(threads) : threads[i].late = 0 /\ (threads[i].at \in {"test", "send"} /\ threads[i].held => stop)
    BY <2>1 DEF Alone
  <2>8. \A i \in 1 .. Len(threads) - 1 : threads[i].at = "over"
    BY <2>1 DEF Alone
  <2>9. QED
    BY <1>2, <2>2, <2>3, <2>5, <2>6, <2>7, <2>8 DEF Alone
<1>13. QED
  BY <1>2, <1>6, <1>9, <1>10, <1>11, <1>12 DEF IndInv, Sound

LEMMA ClearStopKeeps ==
  ASSUME NumbersAssumption, IndInv, NEW r \in Requests, ClearStop(r)
  PROVE  IndInv'
<1>1. TypeOK
  BY DEF IndInv
<1>2. /\ req[r] = "clear" /\ stop' = FALSE /\ req' = [req EXCEPT ![r] = "create"]
      /\ UNCHANGED <<current, threads, overlapped>>
  BY DEF ClearStop
<1>3. /\ req' \in [Requests -> {"idle", "clear", "create", "start"}] /\ req'[r] = "create"
      /\ \A s \in Requests : s # r => req'[s] = req[s]
  BY <1>1, <1>2, Shapes
<1>4. TypeOK'
  BY <1>1, <1>2, <1>3 DEF TypeOK
<1>5. UnderWay' = UnderWay /\ Starting' = Starting /\ r \in Starting
  BY <1>2, <1>3 DEF UnderWay, Starting
<1>6. Counted' /\ Newest'
  BY <1>2, <1>3, <1>5 DEF IndInv, Counted, Newest
<1>7. ASSUME ~overlapped
      PROVE  Alone'
  <2>1. Alone
    BY <1>7 DEF IndInv
  <2>2. \A i \in 1 .. Len(threads) : threads[i].at = "over"
    BY <1>5, <2>1 DEF Alone
  <2>3. \A s \in Requests : req'[s] = "start" <=> req[s] = "start"
    BY <1>2, <1>3
  <2>4. \A i \in 1 .. Len(threads) : threads[i].at \notin {"test", "send"}
    BY <2>2
  <2>5. \A a, b \in UnderWay : a = b
    BY <2>1 DEF Alone
  <2>6. QED
    BY <1>2, <1>5, <2>1, <2>2, <2>3, <2>4, <2>5 DEF Alone
<1>8. QED
  BY <1>2, <1>4, <1>6, <1>7 DEF IndInv, Sound

LEMMA CreateThreadKeeps ==
  ASSUME NumbersAssumption, IndInv, NEW r \in Requests, CreateThread(r)
  PROVE  IndInv'
<1> DEFINE new == [at |-> "new", sent |-> 0, held |-> FALSE, late |-> 0]
           n == Len(threads)
<1>1. TypeOK
  BY DEF IndInv
<1>2. /\ req[r] = "create" /\ req' = [req EXCEPT ![r] = "start"] /\ threads' = Append(threads, new)
      /\ current' = Len(threads') /\ UNCHANGED <<stop, overlapped>>
  BY DEF CreateThread
<1>3. /\ req' \in [Requests -> {"idle", "clear", "create", "start"}] /\ req'[r] = "start"
      /\ \A s \in Requests : s # r => req'[s] = req[s]
  BY <1>1, <1>2, Shapes
<1>4. new \in Thread /\ Sound(new) /\ new.at = "new" /\ new.late = 0 /\ ~new.held
  BY <1>1, Shapes DEF Thread, Sound
<1> HIDE DEF new
<1>5. /\ threads' \in Seq(Thread) /\ Len(threads') = n + 1 /\ threads'[n + 1] = new
      /\ \A i \in 1 .. n : threads'[i] = threads[i]
  BY <1>1, <1>2, <1>4 DEF TypeOK
<1>6. UnderWay' = UnderWay /\ Starting' = Starting \ {r} /\ r \in Starting
  BY <1>2, <1>3 DEF UnderWay, Starting
<1>7. n \in Nat /\ MaxStarts \in Nat
  BY <1>1, Shapes
<1>8. Len(threads') + Cardinality(Starting') <= MaxStarts /\ Cardinality(Starting') \in Nat
  <2>1. IsFiniteSet(Starting) /\ Cardinality(Starting) \in Nat
    BY StartingFinite DEF IndInv, Counted
  <2>2. IsFiniteSet(Starting') /\ Cardinality(Starting') = Cardinality(Starting) - 1
    BY <1>6, <2>1, FS_RemoveElement
  <2>3. Cardinality(Starting') \in Nat
    BY <2>2, FS_CardinalityType
  <2>4. n + Cardinality(Starting) <= MaxStarts
    BY DEF IndInv, Counted
  <2>5. QED
    BY <1>5, <1>7, <2>1, <2>2, <2>3, <2>4
<1>9. Counted'
  BY <1>6, <1>8 DEF IndInv, Counted
<1>10. Len(threads') <= MaxStarts /\ current' \in 0 .. Len(threads') /\ current' = n + 1
  BY <1>2, <1>5, <1>7, <1>8
<1>11. TypeOK'
  BY <1>1, <1>2, <1>3, <1>5, <1>10 DEF TypeOK
<1>12. Newest'
  BY <1>5, <1>7, <1>10 DEF Newest
<1>13. \A i \in 1 .. n + 1 : Sound(threads'[i])
  <2>1. TAKE i \in 1 .. n + 1
  <2>2. i = n + 1 \/ i \in 1 .. n
    BY <1>7
  <2>3. QED
    BY <1>4, <1>5, <2>2 DEF IndInv
<1>14. ASSUME ~overlapped
       PROVE  Alone'
  <2>1. Alone
    BY <1>14 DEF IndInv
  <2>2. \A i \in 1 .. n : threads'[i].at = "over" /\ threads'[i].late = 0
    BY <1>5, <1>6, <2>1 DEF Alone
  <2>3. UnderWay = {r}
    BY <1>2, <2>1 DEF Alone, UnderWay
  <2>4. Starting' = {}
    BY <1>6, <2>3 DEF Starting, UnderWay
  <2>5. \A i \in 1 .. n + 1 : threads'[i].late = 0 /\ threads'[i].at \notin {"test", "send"}
    <3>1. TAKE i \in 1 .. n + 1
    <3>2. i = n + 1 \/ i \in 1 .. n
      BY <1>7
    <3>3. QED
      BY <1>4, <1>5, <2>2, <3>2
  <2>6. threads'[current'].at = "new"
    BY <1>4, <1>5, <1>10
  <2>7. \A i \in 1 .. Len(threads') - 1 : threads'[i].at = "over"
    BY <1>5, <1>7, <2>2
  <2>8. \A a, b \in UnderWay' : a = b
    BY <1>6, <2>3
  <2>9. QED
    BY <1>3, <1>5, <2>4, <2>5, <2>6, <2>7, <2>8 DEF Alone
<1>15. QED
  BY <1>2, <1>5, <1>9, <1>11, <1>12, <1>13, <1>14 DEF IndInv, Sound

\* A step that leaves the number of threads and the requests alone, and of each
\* thread's state changes nothing that Alone does not allow for.
LEMMA ThreadsMoved ==
  ASSUME NumbersAssumption, IndInv, threads' \in Seq(Thread), Len(threads') = Len(threads),
         UNCHANGED <<current, req, overlapped>>, stop' \in BOOLEAN,
         \A i \in 1 .. Len(threads) : Sound(threads'[i]),
         ~overlapped => \A i \in 1 .. Len(threads) :
           /\ threads'[i].at = "new" <=> threads[i].at = "new"
           /\ threads[i].at = "over" => threads'[i].at = "over"
           /\ threads'[i].late = 0
           /\ threads'[i].at \in {"test", "send"} /\ threads'[i].held => stop'
  PROVE  IndInv'
<1>1. TypeOK
  BY DEF IndInv
<1>2. TypeOK'
  BY <1>1 DEF TypeOK
<1>3. UnderWay' = UnderWay /\ Starting' = Starting
  BY DEF UnderWay, Starting
<1>4. Counted' /\ Newest'
  BY <1>3 DEF IndInv, Counted, Newest
<1>5. ASSUME ~overlapped
      PROVE  Alone'
  <2>1. Alone
    BY <1>5 DEF IndInv
  <2>2. Len(threads) \in Nat /\ current = Len(threads) /\ \A q \in Requests : req[q] = "start" => current >= 1
    BY <1>1, Shapes DEF IndInv, Newest
  <2>3. \A i \in 1 .. Len(threads) - 1 : i \in 1 .. Len(threads)
    BY <2>2
  <2>4. current >= 1 => current \in 1 .. Len(threads)
    BY <2>2
  <2>5. \A a, b \in UnderWay' : a = b
    BY <1>3, <2>1 DEF Alone
  <2>6. \A i \in 1 .. Len(threads) - 1 : threads'[i].at = "over"
    BY <1>5, <2>1, <2>3 DEF Alone
  <2>7. \A q \in Starting : \A i \in 1 .. Len(threads) : threads'[i].at = "over"
    BY <1>5, <2>1 DEF Alone
  <2>8. \A q \in Requests : req[q] = "start" => threads'[current].at = "new"
    BY <1>5, <2>1, <2>2, <2>4 DEF Alone
  <2>9. current >= 1 /\ threads'[current].at = "new" => \E q \in Requests : req[q] = "start"
    BY <1>5, <2>1, <2>4 DEF Alone
  <2>10. \A i \in 1 .. Len(threads) : threads'[i].late = 0 /\ (threads'[i].at \in {"test", "send"} /\ threads'[i].held => stop')
    BY <1>5
  <2>11. QED
    BY <1>3, <2>5, <2>6, <2>7, <2>8, <2>9, <2>10 DEF Alone
<1>6. QED
  BY <1>2, <1>4, <1>5 DEF IndInv, Sound

LEMMA StopKeeps ==
  ASSUME NumbersAssumption, IndInv, Stop
  PROVE  IndInv'
<1>1. TypeOK
  BY DEF IndInv
<1>2. Len(threads) \in Nat /\ DOMAIN threads = 1 .. Len(threads) /\ \A i \in 1 .. Len(threads) : threads[i] \in Thread
  BY <1>1, Shapes
<1>3. ASSUME NEW i \in 1 .. Len(threads)
      PROVE  /\ threads'[i] \in Thread /\ threads'[i].at = threads[i].at /\ threads'[i].sent = threads[i].sent
             /\ threads'[i].late = threads[i].late
             /\ threads'[i].held => threads[i].held \/ i \in Live
  <2>1. threads'[i] = [threads[i] EXCEPT !.held = @ \/ (i \in Live /\ UnderWay = {})]
    BY <1>2 DEF Stop
  <2>2. threads[i] \in Thread
    BY <1>2
  <2>3. threads'[i].held = (threads[i].held \/ (i \in Live /\ UnderWay = {}))
    BY <2>1, <2>2 DEF Thread
  <2>4. /\ threads'[i] \in Thread /\ threads'[i].at = threads[i].at /\ threads'[i].sent = threads[i].sent
        /\ threads'[i].late = threads[i].late
    BY <2>1, <2>2 DEF Thread
  <2>5. QED
    BY <2>3, <2>4
<1>4. threads' \in Seq(Thread) /\ Len(threads') = Len(threads)
  <2> DEFINE n == Len(threads)
  <2>1. n \in Nat /\ threads' \in [1 .. n -> Thread]
    BY <1>2, <1>3 DEF Stop
  <2> HIDE DEF n
  <2>2. threads' \in Seq(Thread) /\ Len(threads') = n
    BY <2>1
  <2>3. QED
    BY <2>2 DEF n
<1>5. ASSUME NEW i \in 1 .. Len(threads)
      PROVE  Sound(threads'[i])
  BY <1>2, <1>3 DEF IndInv, Sound, Live
<1>6. stop' = TRUE /\ UNCHANGED <<current, req, overlapped>>
  BY DEF Stop
<1>7. ~overlapped => \A i \in 1 .. Len(threads) : threads[i].late = 0
  BY DEF IndInv, Alone
<1>8. QED
  BY <1>3, <1>4, <1>5, <1>6, <1>7, ThreadsMoved

LEMMA RunKeeps ==
  ASSUME NumbersAssumption, IndInv, NEW i \in 1 .. MaxStarts, Run(i)
  PROVE  IndInv'
<1>1. TypeOK
  BY DEF IndInv
<1>2. /\ Count \in Nat /\ Len(threads) \in Nat /\ DOMAIN threads = 1 .. Len(threads)
      /\ \A k \in 1 .. Len(threads) : threads[k] \in Thread
  BY <1>1, Shapes
<1>3. i \in 1 .. Len(threads) /\ threads[i] \in Thread /\ Sound(threads[i])
  BY <1>2 DEF Run, IndInv
<1>4. stop \in BOOLEAN /\ threads \in Seq(Thread)
  BY <1>1 DEF TypeOK
<1>5. UNCHANGED <<stop, current, req, overlapped>>
  BY DEF Run, Test, Send
<1>6. PICK t \in Thread :
        /\ threads' = [threads EXCEPT ![i] = t] /\ Sound(t) /\ t.held = threads[i].held
        /\ t.at \in {"test", "send", "over"} /\ threads[i].at \in {"test", "send"}
        /\ t.late = threads[i].late \/ (~stop /\ threads[i].held)
  <2>1. CASE Test(i)
    <3> DEFINE t == [threads[i] EXCEPT !.at = IF GoesOn(i) THEN "send" ELSE "over",
                                       !.late = IF GoesOn(i) /\ threads[i].held THEN 1 ELSE @]
    <3>1. threads' = [threads EXCEPT ![i] = t] /\ threads[i].at = "test"
      BY <1>3, <2>1 DEF Test
    <3>9. threads[i].late \in 0 .. 1 /\ 1 \in 0 .. 1
      BY <1>3 DEF Thread
    <3>10. \A at \in {"new", "test", "send", "over"}, l \in 0 .. 1 : [threads[i] EXCEPT !.at = at, !.late = l] \in Thread
      BY <1>3 DEF Thread
    <3>2. t \in Thread
      BY <3>9, <3>10
    <3>3. t.at = (IF GoesOn(i) THEN "send" ELSE "over") /\ t.sent = threads[i].sent
      BY <1>3 DEF Thread
    <3>6. t.held = threads[i].held
      BY <1>3 DEF Thread
    <3>4. t.late = threads[i].late \/ (GoesOn(i) /\ threads[i].held)
      BY <1>3 DEF Thread
    <3> HIDE DEF t
    <3>5. Sound(t)
      BY <3>3 DEF Sound, GoesOn
    <3>7. t.late = threads[i].late \/ (~stop /\ threads[i].held)
      BY <3>4 DEF GoesOn
    <3>8. QED
      BY <3>1, <3>2, <3>3, <3>5, <3>6, <3>7
  <2>2. CASE Send(i)
    <3>1. PICK at \in AfterBody : threads' = [threads EXCEPT ![i].at = at, ![i].sent = SentAfter(i)]
      BY <2>2 DEF Send
    <3>2. threads[i].at = "send" /\ at \in {"test", "over"}
      BY <2>2, <3>1 DEF Send, AfterBody
    <3> DEFINE t == [threads[i] EXCEPT !.at = at, !.sent = SentAfter(i)]
    <3>3. threads' = [threads EXCEPT ![i] = t]
      BY <1>3, <1>4, <3>1
    <3>4. SentAfter(i) \in 0 .. Count
      BY <1>2, <1>3, <3>2 DEF SentAfter, Sound, Thread
    <3>5. t \in Thread
      BY <1>3, <3>2, <3>4 DEF Thread
    <3>6. t.at = at /\ t.held = threads[i].held /\ t.late = threads[i].late
      BY <1>3 DEF Thread
    <3> HIDE DEF t
    <3>7. Sound(t)
      BY <3>2, <3>6 DEF Sound
    <3>8. QED
      BY <3>2, <3>3, <3>5, <3>6, <3>7
  <2>3. QED
    BY <2>1, <2>2 DEF Run
<1>7. threads' \in Seq(Thread) /\ Len(threads') = Len(threads)
  BY <1>3, <1>4, <1>6
<1>8. \A k \in 1 .. Len(threads) : threads'[k] = IF k = i THEN t ELSE threads[k]
  BY <1>3, <1>4, <1>6
<1>9. \A k \in 1 .. Len(threads) : Sound(threads'[k])
  BY <1>6, <1>8 DEF IndInv
<1>10. ASSUME ~overlapped, NEW k \in 1 .. Len(threads)
       PROVE  /\ threads'[k].at = "new" <=> threads[k].at = "new"
              /\ threads[k].at = "over" => threads'[k].at = "over"
              /\ threads'[k].late = 0
              /\ threads'[k].at \in {"test", "send"} /\ threads'[k].held => stop'
  <2>1. Alone
    BY <1>10 DEF IndInv
  <2>2. threads[k].late = 0 /\ (threads[k].at \in {"test", "send"} /\ threads[k].held => stop)
    BY <2>1 DEF Alone
  <2>3. CASE k # i
    BY <1>5, <1>8, <2>2, <2>3
  <2>4. CASE k = i
    <3>1. threads'[k] = t
      BY <1>8, <2>4
    <3>2. threads[i].held => stop
      BY <1>6, <2>2, <2>4
    <3>3. t.held => stop
      BY <1>6, <3>2
    <3>4. t.late = 0
      BY <1>6, <2>2, <2>4, <3>2
    <3>5. QED
      BY <1>5, <1>6, <2>4, <3>1, <3>3, <3>4
  <2>5. QED
    BY <2>3, <2>4
<1>11. stop' \in BOOLEAN
  BY <1>4, <1>5
<1>12. QED
  BY <1>5, <1>7, <1>9, <1>10, <1>11, ThreadsMoved

LEMMA StartThreadKeeps ==
  ASSUME NumbersAssumption, IndInv, NEW r \in Requests, StartThread(r)
  PROVE  IndInv'
<1>1. TypeOK
  BY DEF IndInv
<1>2. /\ Len(threads) \in Nat /\ DOMAIN threads = 1 .. Len(threads)
      /\ \A k \in 1 .. Len(threads) : threads[k] \in Thread
      /\ req \in [Requests -> {"idle", "clear", "create", "start"}]
  BY <1>1, Shapes
<1>3. /\ req[r] = "start" /\ threads' = Started /\ req' = [req EXCEPT ![r] = "idle"]
      /\ UNCHANGED <<stop, current, overlapped>>
  BY DEF StartThread
<1>4. current = Len(threads) /\ current >= 1
  BY <1>3 DEF IndInv, Newest
<1>5. current \in 1 .. Len(threads) /\ threads[current] \in Thread /\ Sound(threads[current])
  BY <1>2, <1>4 DEF IndInv
<1> DEFINE t == [threads[current] EXCEPT !.at = IF @ = "new" THEN "test" ELSE @]
<1>6. threads' = [threads EXCEPT ![current] = t]
  BY <1>3 DEF Started
<1>7. /\ t \in Thread /\ t.sent = threads[current].sent /\ t.late = threads[current].late
      /\ t.at = (IF threads[current].at = "new" THEN "test" ELSE threads[current].at)
  BY <1>5 DEF Thread
<1>8. t.held = threads[current].held
  BY <1>5 DEF Thread
<1> HIDE DEF t
<1>9. Sound(t)
  BY <1>5, <1>7, <1>8 DEF Sound
<1>10. threads \in Seq(Thread)
  BY <1>1 DEF TypeOK
<1>11. threads' \in Seq(Thread) /\ Len(threads') = Len(threads)
  BY <1>5, <1>6, <1>7, <1>10
<1>12. \A k \in 1 .. Len(threads) : threads'[k] = IF k = current THEN t ELSE threads[k]
  BY <1>5, <1>6, <1>10
<1>13. /\ req' \in [Requests -> {"idle", "clear", "create", "start"}] /\ req'[r] = "idle"
       /\ \A s \in Requests : s # r => req'[s] = req[s]
  BY <1>2, <1>3
<1>14. TypeOK'
  BY <1>1, <1>3, <1>11, <1>13 DEF TypeOK
<1>15. UnderWay' = UnderWay \ {r} /\ Starting' = Starting /\ r \in UnderWay
  BY <1>3, <1>13 DEF UnderWay, Starting
<1>16. Counted'
  <2>1. IsFiniteSet(UnderWay)
    BY DEF IndInv, Counted
  <2>2. IsFiniteSet(UnderWay')
    BY <1>15, <2>1, FS_RemoveElement
  <2>3. QED
    BY <1>11, <1>15, <2>2 DEF IndInv, Counted
<1>17. Newest'
  BY <1>3, <1>4, <1>11, <1>13 DEF IndInv, Newest
<1>18. \A k \in 1 .. Len(threads) : Sound(threads'[k])
  BY <1>9, <1>12 DEF IndInv
<1>19. ASSUME ~overlapped
       PROVE  Alone'
  <2>1. Alone
    BY <1>19 DEF IndInv
  <2>2. threads[current].at = "new"
    BY <1>3, <2>1 DEF Alone
  <2>3. t.at = "test" /\ ~t.held /\ t.late = 0
    BY <1>5, <1>7, <1>8, <2>1, <2>2 DEF Sound, Alone
  <2>4. UnderWay = {r}
    BY <1>15, <2>1 DEF Alone
  <2>5. UnderWay' = {} /\ Starting' = {}
    BY <1>3, <1>15, <2>4 DEF UnderWay, Starting
  <2>6. \A s \in Requests : req'[s] # "start"
    BY <2>5 DEF UnderWay
  <2>7. ASSUME NEW k \in 1 .. Len(threads) - 1
        PROVE  threads'[k].at = "over"
    <3> DEFINE n == Len(threads)
    <3>3. n \in Nat /\ current = n /\ k \in 1 .. n - 1
      BY <1>2, <1>4
    <3> HIDE DEF n
    <3>4. k # current /\ k \in 1 .. n
      BY <3>3
    <3>1. k # current /\ k \in 1 .. Len(threads)
      BY <3>4 DEF n
    <3>2. QED
      BY <1>12, <2>1, <3>1 DEF Alone
  <2>8. ASSUME NEW k \in 1 .. Len(threads)
        PROVE  threads'[k].late = 0 /\ (threads'[k].at \in {"test", "send"} /\ threads'[k].held => stop)
    BY <1>12, <2>1, <2>3 DEF Alone
  <2>9. threads'[current].at = "test"
    BY <1>5, <1>12, <2>3
  <2>10. QED
    BY <1>3, <1>11, <2>5, <2>6, <2>7, <2>8, <2>9 DEF Alone
<1>20. QED
  BY <1>3, <1>11, <1>14, <1>16, <1>17, <1>18, <1>19 DEF IndInv, Sound

LEMMA Keeps ==
  ASSUME NumbersAssumption, IndInv, [Next]_vars
  PROVE  IndInv'
<1>1. CASE UNCHANGED vars
  BY <1>1 DEF vars, IndInv, TypeOK, Counted, Newest, Alone, Sound, UnderWay, Starting
<1>2. CASE Next
  BY <1>2, CheckStartKeeps, ClearStopKeeps, CreateThreadKeeps, StartThreadKeeps, RunKeeps, StopKeeps DEF Next, Serve
<1>3. QED
  BY <1>1, <1>2

-----------------------------------------------------------------------------
(***************************************************************************)
(* What follows of the properties.                                         *)
(***************************************************************************)

\* Only the newest thread can be alive.
LEMMA HoldsOneAtATime ==
  ASSUME NumbersAssumption, IndInv
  PROVE  OneAtATime
<1>1. SUFFICES ASSUME ~overlapped
               PROVE  Cardinality(Live) <= 1
  BY DEF OneAtATime
<1>2. Alone /\ TypeOK
  BY <1>1 DEF IndInv
<1>3. Len(threads) \in Nat /\ DOMAIN threads = 1 .. Len(threads)
  BY <1>2, Shapes
<1>4. ASSUME NEW i \in Live
      PROVE  i = Len(threads)
  <2>1. i \in 1 .. Len(threads) /\ threads[i].at # "over"
    BY <1>3 DEF Live
  <2>2. i \notin 1 .. Len(threads) - 1
    BY <1>2, <2>1 DEF Alone
  <2> DEFINE n == Len(threads)
  <2>3. n \in Nat /\ i \in 1 .. n /\ i \notin 1 .. n - 1
    BY <1>3, <2>1, <2>2
  <2> HIDE DEF n
  <2>4. i = n
    BY <2>3
  <2>5. QED
    BY <2>4 DEF n
<1>5. Live \in SUBSET {Len(threads)}
  BY <1>4
<1>6. IsFiniteSet({Len(threads)}) /\ Cardinality({Len(threads)}) = 1
  BY FS_Singleton
<1>7. QED
  BY <1>5, <1>6, FS_Subset

LEMMA HoldsStopTakesHold ==
  ASSUME NumbersAssumption, IndInv
  PROVE  StopTakesHold
<1>1. DOMAIN threads = 1 .. Len(threads)
  BY Shapes DEF IndInv
<1>2. QED
  BY <1>1 DEF IndInv, Alone, StopTakesHold
=============================================================================
