---------------------- MODULE AuthorityGateway_proofs ----------------------
(***************************************************************************)
(* The theorems of AuthorityGateway.  What relates the deque to the log    *)
(* holds between two submissions; in the middle of one the deque is the    *)
(* tail that the log is about to have.                                     *)
(***************************************************************************)
EXTENDS AuthorityGateway, FiniteSetTheorems, SequenceTheorems, TLAPS

SameEnvs(a, b) == Len(a) = Len(b) /\ \A i \in 1 .. Len(a) : a[i].env = b[i].env

DistinctEnvs(a) == \A i, j \in 1 .. Len(a) : a[i].env = a[j].env => i = j

\* The lock is held exactly between the search for a duplicate and the write.
Holding ==
  \A t \in Threads :
    /\ pc[t] \in {"verify", "persist"} <=> lock = t
    /\ pc[t] # "idle" => serving[t] \in Envelopes

\* What is being verified is not in the deque.
Fresh == \A t \in Threads : pc[t] = "verify" => \A i \in 1 .. Len(store) : store[i].env # serving[t]

\* What is about to be written has no votes, and nothing written has.
Unvoted ==
  /\ \A t \in Threads : pc[t] = "persist" => Len(store) > 0 /\ store[Len(store)].no = 0
  /\ \A i \in 1 .. Len(log) : log[i].no = 0

\* The votes against the documents of a frame.
Against(d) == cast[<<FrameOf[d.env], "no">>]

Shared(docs) ==
  \A i \in 1 .. Len(docs) :
    /\ docs[i].no <= Against(docs[i])
    /\ \A j \in 1 .. Len(docs) :
         i # j /\ FrameOf[docs[i].env] = FrameOf[docs[j].env] => docs[i].no + docs[j].no <= Against(docs[i])

Announcing(e) == {t \in Threads : pc[t] = "announce" /\ serving[t] = e}

Notified == \A e \in Envelopes : announced[e] + Cardinality(Announcing(e)) <= written[e]

LogTail == LastOf(log, MaxInMemory)

\* The tail of the log once the newest document is written.
NextTail == LastOf(Append(log, store[Len(store)]), MaxInMemory)

Remembers ==
  failures = 0 =>
    /\ ~openLine
    /\ DistinctEnvs(LogTail)
    /\ (\A t \in Threads : pc[t] # "persist") => SameEnvs(store, LogTail)
    /\ (\E t \in Threads : pc[t] = "persist") => SameEnvs(store, NextTail) /\ DistinctEnvs(store)

IndInv == TypeOK /\ Holding /\ Fresh /\ Unvoted /\ Shared(store) /\ Notified /\ Remembers

-----------------------------------------------------------------------------
(***************************************************************************)
(* Tails of sequences.                                                     *)
(***************************************************************************)

\* How many elements LastOf drops.
Dropped(len, n) == IF len > n THEN len - n ELSE 0

LEMMA LastOfIs ==
  ASSUME NEW T, NEW s \in Seq(T), NEW n \in Nat \ {0}
  PROVE  LET k == Dropped(Len(s), n)
             q == LastOf(s, n) IN
         /\ q \in Seq(T) /\ Len(q) = Len(s) - k /\ Len(q) <= n /\ k \in Nat /\ k <= Len(s)
         /\ \A i \in 1 .. Len(q) : q[i] = s[k + i] /\ k + i \in 1 .. Len(s)
<1> DEFINE len == Len(s)
           k == Dropped(len, n)
           q == LastOf(s, n)
<1>1. len \in Nat
  OBVIOUS
<1>2. k \in Nat /\ k <= len /\ len - k <= n
  <2> HIDE DEF len
  <2>1. QED
    BY <1>1 DEF Dropped
<1>3. q = SubSeq(s, k + 1, len)
  <2>1. (IF len > n THEN len - n + 1 ELSE 1) = k + 1
    <3> HIDE DEF len
    <3>1. QED
      BY <1>1 DEF Dropped
  <2>2. QED
    BY <2>1 DEF LastOf
<1>4. CASE k < len
  <2>1. /\ k + 1 \in 1 .. len + 1 /\ len \in k .. len
    <3> HIDE DEF len, k
    <3>1. QED
      BY <1>1, <1>2
  <2>2. /\ SubSeq(s, k + 1, len) \in Seq(T) /\ Len(SubSeq(s, k + 1, len)) = len - k
        /\ \A i \in 1 .. len - k : SubSeq(s, k + 1, len)[i] = s[k + i]
    <3>1. \A i \in 1 .. len : s[i] \in T
      OBVIOUS
    <3>2. s \in Seq(T) /\ len = Len(s)
      OBVIOUS
    <3> HIDE DEF len, k
    <3>3. QED
      BY <1>1, <1>2, <1>4, <2>1, <3>1, <3>2
  <2>3. \A i \in 1 .. len - k : k + i \in 1 .. len
    <3> HIDE DEF len, k
    <3>1. QED
      BY <1>1, <1>2
  <2> HIDE DEF k, q
  <2>4. QED
    BY <1>2, <1>3, <2>2, <2>3 DEF k, q
<1>5. CASE ~(k < len)
  <2>1. k = len /\ len = 0
    <3>1. k = len
      <4> HIDE DEF len, k
      <4>1. QED
        BY <1>1, <1>2, <1>5
    <3>2. k = len => len = 0
      <4> HIDE DEF len
      <4>1. QED
        BY <1>1 DEF Dropped
    <3>3. QED
      BY <3>1, <3>2
  <2>2. s = <<>>
    BY <2>1
  <2>3. q = <<>>
    BY <1>3, <2>1, <2>2
  <2> HIDE DEF k, q
  <2>4. QED
    BY <1>2, <2>1, <2>3 DEF k, q, len
<1>6. QED
  BY <1>4, <1>5

LEMMA AppendIs ==
  ASSUME NEW T, NEW s \in Seq(T), NEW d \in T
  PROVE  /\ Append(s, d) \in Seq(T) /\ Len(s) \in Nat /\ Len(Append(s, d)) = Len(s) + 1
         /\ Append(s, d)[Len(s) + 1] = d /\ \A i \in 1 .. Len(s) : Append(s, d)[i] = s[i]
         /\ \A i \in 1 .. Len(s) + 1 : i = Len(s) + 1 \/ i \in 1 .. Len(s)
<1> DEFINE n == Len(s)
<1>1. n \in Nat
  OBVIOUS
<1>2. \A i \in 1 .. n + 1 : i = n + 1 \/ i \in 1 .. n
  <2> HIDE DEF n
  <2>1. QED
    BY <1>1
<1>3. QED
  BY <1>1, <1>2

\* The newest element is the one pushed; the others were there.
LEMMA PushIs ==
  ASSUME NEW T, NEW s \in Seq(T), NEW d \in T, NEW n \in Nat \ {0}
  PROVE  LET q == LastOf(Append(s, d), n) IN
         /\ q \in Seq(T) /\ Len(q) \in 1 .. n /\ q[Len(q)] = d
         /\ \A i \in 1 .. Len(q) : q[i] = d \/ \E j \in 1 .. Len(s) : q[i] = s[j]
<1> DEFINE p == Append(s, d)
           q == LastOf(p, n)
           ls == Len(s)
           lp == Len(p)
           lq == Len(q)
           k == Dropped(lp, n)
<1>1. p \in Seq(T) /\ ls \in Nat /\ lp = ls + 1 /\ p[ls + 1] = d /\ (\A i \in 1 .. ls : p[i] = s[i])
      /\ \A i \in 1 .. ls + 1 : i = ls + 1 \/ i \in 1 .. ls
  BY AppendIs
<1>2. /\ q \in Seq(T) /\ lq = lp - k /\ lq <= n /\ k \in Nat /\ k <= lp
      /\ \A i \in 1 .. lq : q[i] = p[k + i] /\ k + i \in 1 .. lp
  BY <1>1, LastOfIs
<1>3. k < lp
  <2> HIDE DEF lp
  <2>1. lp \in Nat \ {0}
    BY <1>1
  <2>2. QED
    BY <2>1 DEF Dropped
<1> HIDE DEF p, q, k, ls, lp, lq
<1>4. lq \in 1 .. n /\ k + lq = ls + 1
  BY <1>1, <1>2, <1>3
<1>5. q[lq] = d
  BY <1>1, <1>2, <1>4
<1>6. ASSUME NEW i \in 1 .. lq
      PROVE  q[i] = d \/ \E j \in 1 .. ls : q[i] = s[j]
  <2>1. q[i] = p[k + i] /\ k + i \in 1 .. ls + 1
    BY <1>1, <1>2
  <2>2. k + i = ls + 1 \/ k + i \in 1 .. ls
    BY <1>1, <2>1
  <2>3. QED
    BY <1>1, <2>1, <2>2
<1>7. QED
  BY <1>2, <1>4, <1>5, <1>6 DEF p, q, ls, lq

\* A tail of a push onto a tail is the tail of the push.
LEMMA PushSame ==
  ASSUME NEW a \in Seq(Doc), NEW s \in Seq(Doc), NEW d \in Doc, NEW n \in Nat \ {0}, SameEnvs(a, LastOf(s, n))
  PROVE  SameEnvs(LastOf(Append(a, d), n), LastOf(Append(s, d), n))
<1> DEFINE pa == Append(a, d)
           ps == Append(s, d)
           qa == LastOf(pa, n)
           qs == LastOf(ps, n)
           q == LastOf(s, n)
           la == Len(a)
           ls == Len(s)
           k == Dropped(ls, n)
           ka == Dropped(la + 1, n)
           ks == Dropped(ls + 1, n)
<1>1. pa \in Seq(Doc) /\ la \in Nat /\ Len(pa) = la + 1 /\ pa[la + 1] = d /\ (\A i \in 1 .. la : pa[i] = a[i])
      /\ \A i \in 1 .. la + 1 : i = la + 1 \/ i \in 1 .. la
  BY AppendIs
<1>2. ps \in Seq(Doc) /\ ls \in Nat /\ Len(ps) = ls + 1 /\ ps[ls + 1] = d /\ (\A i \in 1 .. ls : ps[i] = s[i])
  BY AppendIs
<1>3. Len(qa) = la + 1 - ka /\ \A i \in 1 .. Len(qa) : qa[i] = pa[ka + i] /\ ka + i \in 1 .. la + 1
  <2>1. /\ Len(qa) = Len(pa) - Dropped(Len(pa), n) /\ Dropped(Len(pa), n) \in Nat
        /\ \A i \in 1 .. Len(qa) : qa[i] = pa[Dropped(Len(pa), n) + i] /\ Dropped(Len(pa), n) + i \in 1 .. Len(pa)
    BY <1>1, LastOfIs
  <2>2. Len(pa) = la + 1 /\ la \in Nat
    BY <1>1
  <2> HIDE DEF pa, qa, la
  <2>3. Dropped(Len(pa), n) = ka
    BY <2>2
  <2> HIDE DEF ka
  <2>4. QED
    BY <2>1, <2>2, <2>3
<1>4. Len(qs) = ls + 1 - ks /\ \A i \in 1 .. Len(qs) : qs[i] = ps[ks + i] /\ ks + i \in 1 .. ls + 1
  <2>1. /\ Len(qs) = Len(ps) - Dropped(Len(ps), n) /\ Dropped(Len(ps), n) \in Nat
        /\ \A i \in 1 .. Len(qs) : qs[i] = ps[Dropped(Len(ps), n) + i] /\ Dropped(Len(ps), n) + i \in 1 .. Len(ps)
    BY <1>2, LastOfIs
  <2>2. Len(ps) = ls + 1 /\ ls \in Nat
    BY <1>2
  <2> HIDE DEF ps, qs, ls
  <2>3. Dropped(Len(ps), n) = ks
    BY <2>2
  <2> HIDE DEF ks
  <2>4. QED
    BY <2>1, <2>2, <2>3
<1>5. Len(q) = ls - k /\ \A i \in 1 .. Len(q) : q[i] = s[k + i] /\ k + i \in 1 .. ls
  BY LastOfIs
<1>6. la = Len(q) /\ \A i \in 1 .. la : a[i].env = q[i].env
  BY DEF SameEnvs
<1>7. ks = k + ka /\ k \in Nat /\ ka \in Nat
  <2>1. la = ls - k /\ ls \in Nat /\ la \in Nat
    BY <1>1, <1>2, <1>5, <1>6
  <2> HIDE DEF la, ls
  <2>2. QED
    BY <2>1 DEF Dropped
<1> HIDE DEF pa, ps, qa, qs, q, la, ls, k, ka, ks
<1>8. Len(qa) = Len(qs)
  BY <1>1, <1>2, <1>3, <1>4, <1>5, <1>6, <1>7
<1>9. ASSUME NEW i \in 1 .. Len(qa)
      PROVE  qa[i].env = qs[i].env
  <2>1. qa[i] = pa[ka + i] /\ qs[i] = ps[k + (ka + i)] /\ ka + i \in 1 .. la + 1 /\ i \in Int
    <3>1. qs[i] = ps[ks + i] /\ qa[i] = pa[ka + i] /\ ka + i \in 1 .. la + 1
      BY <1>3, <1>4, <1>8
    <3>2. Len(qa) \in Int /\ i \in Int
      BY <1>1, <1>3, <1>7
    <3>3. ks + i = k + (ka + i)
      BY <1>7, <3>2
    <3>4. QED
      BY <3>1, <3>2, <3>3
  <2>2. CASE ka + i = la + 1
    <3>1. k + (la + 1) = ls + 1
      BY <1>1, <1>2, <1>5, <1>6, <1>7
    <3>2. QED
      BY <1>1, <1>2, <2>1, <2>2, <3>1
  <2>3. CASE ka + i \in 1 .. la
    <3>1. a[ka + i].env = q[ka + i].env /\ q[ka + i] = s[k + (ka + i)] /\ k + (ka + i) \in 1 .. ls
      BY <1>5, <1>6, <2>3
    <3>2. QED
      BY <1>1, <1>2, <2>1, <2>3, <3>1
  <2>4. QED
    BY <1>1, <2>1, <2>2, <2>3
<1>10. QED
  BY <1>8, <1>9 DEF SameEnvs, qa, qs, pa, ps

\* A push of a new envelope keeps the envelopes distinct.
LEMMA PushDistinct ==
  ASSUME NEW a \in Seq(Doc), NEW d \in Doc, NEW n \in Nat \ {0}, DistinctEnvs(a), \A i \in 1 .. Len(a) : a[i].env # d.env
  PROVE  DistinctEnvs(LastOf(Append(a, d), n))
<1> DEFINE p == Append(a, d)
           q == LastOf(p, n)
           l == Len(a)
           k == Dropped(Len(p), n)
<1>1. p \in Seq(Doc) /\ l \in Nat /\ Len(p) = l + 1 /\ p[l + 1] = d /\ (\A i \in 1 .. l : p[i] = a[i])
      /\ \A i \in 1 .. l + 1 : i = l + 1 \/ i \in 1 .. l
  BY AppendIs
<1>2. Len(q) = Len(p) - k /\ k \in Nat /\ \A i \in 1 .. Len(q) : q[i] = p[k + i] /\ k + i \in 1 .. Len(p)
  BY <1>1, LastOfIs
<1>3. \A i, j \in 1 .. l : a[i].env = a[j].env => i = j
  BY DEF DistinctEnvs
<1>4. \A i \in 1 .. l : a[i].env # d.env
  OBVIOUS
<1> HIDE DEF p, q, l, k
<1>5. \A i, j \in 1 .. l + 1 : p[i].env = p[j].env => i = j
  BY <1>1, <1>3, <1>4
<1>6. ASSUME NEW i \in 1 .. Len(q), NEW j \in 1 .. Len(q), q[i].env = q[j].env
      PROVE  i = j
  <2>1. k + i \in 1 .. l + 1 /\ k + j \in 1 .. l + 1 /\ p[k + i].env = p[k + j].env
    BY <1>1, <1>2, <1>6
  <2>2. k + i = k + j
    BY <1>5, <2>1
  <2>3. Len(q) \in Int
    BY <1>1, <1>2
  <2>4. QED
    BY <1>2, <2>2, <2>3
<1>7. QED
  BY <1>6 DEF DistinctEnvs, q, p

LEMMA SameIsSymmetric ==
  ASSUME NEW a, NEW b, SameEnvs(a, b)
  PROVE  SameEnvs(b, a) /\ (DistinctEnvs(a) <=> DistinctEnvs(b))
  BY DEF SameEnvs, DistinctEnvs

\* What a tail keeps shares no more votes.
LEMMA SharedLast ==
  ASSUME NEW s \in Seq(Doc), NEW n \in Nat \ {0}, Shared(s)
  PROVE  Shared(LastOf(s, n))
<1> DEFINE q == LastOf(s, n)
           l == Len(s)
           k == Dropped(l, n)
<1>1. k \in Nat /\ Len(q) = l - k /\ l \in Nat /\ \A i \in 1 .. Len(q) : q[i] = s[k + i] /\ k + i \in 1 .. l
  BY LastOfIs
<1>2. \A i \in 1 .. l :
        /\ s[i].no <= Against(s[i])
        /\ \A j \in 1 .. l : i # j /\ FrameOf[s[i].env] = FrameOf[s[j].env] => s[i].no + s[j].no <= Against(s[i])
  BY DEF Shared
<1> HIDE DEF q, k, l
<1>3. ASSUME NEW i \in 1 .. Len(q)
      PROVE  /\ q[i].no <= Against(q[i])
             /\ \A j \in 1 .. Len(q) : i # j /\ FrameOf[q[i].env] = FrameOf[q[j].env] => q[i].no + q[j].no <= Against(q[i])
  <2>1. q[i] = s[k + i] /\ k + i \in 1 .. l
    BY <1>1
  <2>2. \A j \in 1 .. Len(q) : q[j] = s[k + j] /\ k + j \in 1 .. l /\ (i # j => k + i # k + j)
    BY <1>1
  <2>3. QED
    BY <1>2, <2>1, <2>2
<1>4. QED
  BY <1>3 DEF Shared, q

-----------------------------------------------------------------------------
(***************************************************************************)
(* Types, and what the moves of one thread leave alone.                    *)
(***************************************************************************)

LEMMA DocFields ==
  ASSUME TypeOK, NEW d \in Doc
  PROVE  /\ d.env \in Envelopes /\ d.no \in Nat /\ FrameOf[d.env] \in Frames
         /\ Against(d) \in Nat
<1>1. d.env \in Envelopes /\ d.no \in Nat
  BY DEF Doc
<1>2. FrameOf[d.env] \in Frames
  BY <1>1, BodyAssumption
<1>3. cast[<<FrameOf[d.env], "no">>] \in Nat
  BY <1>2 DEF TypeOK, Votes
<1>4. QED
  BY <1>1, <1>2, <1>3 DEF Against

LEMMA NewDocIs ==
  ASSUME TypeOK, NEW e \in Envelopes, NEW verdict \in Verdicts
  PROVE  NewDoc(e, verdict) \in Doc /\ NewDoc(e, verdict).env = e /\ NewDoc(e, verdict).no = 0
<1>1. InitialStatus(e, verdict) \in Statuses
  BY DEF InitialStatus, Statuses
<1>2. NextHeight \in Nat
  <2>1. Len(store) \in Nat
    BY DEF TypeOK
  <2>2. QED
    BY <2>1 DEF NextHeight
<1>3. (IF VoteThreshold > 1 THEN VoteThreshold ELSE 1) \in Nat
  BY NumbersAssumption
<1>4. QED
  BY <1>1, <1>2, <1>3 DEF NewDoc, Doc

LEMMA CountedIs ==
  ASSUME NEW d \in Doc, NEW vote \in Votes
  PROVE  /\ Counted(d, vote) \in Doc /\ Counted(d, vote).env = d.env
         /\ Counted(d, vote).no = IF vote = "no" THEN d.no + 1 ELSE d.no
<1> DEFINE yes == IF vote = "yes" THEN d.yes + 1 ELSE d.yes
           no  == IF vote = "no" THEN d.no + 1 ELSE d.no
           status == IF yes >= VoteThreshold /\ yes > no THEN "verified" ELSE d.status
<1>1. yes \in Nat /\ no \in Nat /\ status \in Statuses
  BY DEF Doc, Statuses
<1>2. Counted(d, vote) = [d EXCEPT !.yes = yes, !.no = no, !.status = status]
  BY DEF Counted
<1> HIDE DEF yes, no, status
<1>3. [d EXCEPT !.yes = yes, !.no = no, !.status = status] \in Doc
  BY <1>1 DEF Doc
<1>4. /\ [d EXCEPT !.yes = yes, !.no = no, !.status = status].env = d.env
      /\ [d EXCEPT !.yes = yes, !.no = no, !.status = status].no = no
  BY DEF Doc
<1>5. QED
  BY <1>2, <1>3, <1>4 DEF no

\* A thread that does not enter or leave the announcement changes nothing
\* about who is about to announce what.
LEMMA SameAnnouncements ==
  ASSUME IndInv, NEW t \in Threads, pc[t] # "announce", pc'[t] # "announce",
         \A u \in Threads \ {t} : pc'[u] = pc[u] /\ serving'[u] = serving[u],
         UNCHANGED <<written, announced>>
  PROVE  Notified'
<1>1. \A e \in Envelopes : Announcing(e)' = Announcing(e)
  BY DEF Announcing
<1>2. \A e \in Envelopes : announced[e] + Cardinality(Announcing(e)) <= written[e]
  BY DEF IndInv, Notified
<1>3. \A e \in Envelopes : announced'[e] + Cardinality(Announcing(e)') <= written'[e]
  BY <1>1, <1>2
<1>4. QED
  BY <1>3 DEF Notified

\* A thread that moves outside the lock leaves deque and log as they were.
LEMMA QuietMove ==
  ASSUME IndInv, NEW t \in Threads, pc[t] # "persist", pc'[t] # "persist",
         \A u \in Threads \ {t} : pc'[u] = pc[u],
         UNCHANGED <<store, diskVars, failures, cast>>
  PROVE  Unvoted' /\ Shared(store)' /\ Remembers'
<1> USE DEF IndInv, diskVars
<1>1. \A u \in Threads : pc'[u] = "persist" <=> pc[u] = "persist"
  OBVIOUS
<1>2. Unvoted'
  BY <1>1 DEF Unvoted
<1>3. Shared(store)'
  BY DEF Shared, Against
<1>4. Remembers'
  BY <1>1 DEF Remembers, LogTail, NextTail
<1>5. QED
  BY <1>2, <1>3, <1>4

LEMMA BeginKeeps ==
  ASSUME IndInv, NEW t \in Threads, NEW e \in Envelopes, Begin(t, e)
  PROVE  IndInv'
<1> USE DEF Begin, Goto
<1>1. pc' = [pc EXCEPT ![t] = "waiting"] /\ serving' = [serving EXCEPT ![t] = e]
      /\ pc \in [Threads -> Steps] /\ serving \in [Threads -> Envelopes \cup {NoEnvelope}] /\ pc[t] = "idle"
  BY DEF IndInv, TypeOK
<1>2. TypeOK'
  <2>1. pc' \in [Threads -> Steps] /\ serving' \in [Threads -> Envelopes \cup {NoEnvelope}]
    BY <1>1 DEF Steps
  <2>2. requests' \in 0 .. MaxRequests
    BY NumbersAssumption DEF IndInv, TypeOK
  <2>3. QED
    BY <2>1, <2>2 DEF IndInv, TypeOK, diskVars, histVars
<1>3. Holding'
  BY <1>1 DEF IndInv, Holding
<1>4. Fresh'
  BY <1>1 DEF IndInv, Fresh
<1>5. Notified'
  BY <1>1, SameAnnouncements DEF histVars
<1>6. Unvoted' /\ Shared(store)' /\ Remembers'
  BY <1>1, QuietMove DEF histVars
<1>7. QED
  BY <1>2, <1>3, <1>4, <1>5, <1>6 DEF IndInv

LEMMA AnswerDuplicateKeeps ==
  ASSUME IndInv, NEW t \in Threads, AnswerDuplicate(t)
  PROVE  IndInv'
<1> USE DEF AnswerDuplicate, Goto
<1>1. pc' = [pc EXCEPT ![t] = "done"] /\ pc \in [Threads -> Steps] /\ pc[t] = "waiting"
  BY DEF IndInv, TypeOK
<1>2. TypeOK'
  <2>1. pc' \in [Threads -> Steps]
    BY <1>1 DEF Steps
  <2>2. QED
    BY <2>1 DEF IndInv, TypeOK, diskVars, histVars, bounds
<1>3. Holding'
  BY <1>1 DEF IndInv, Holding
<1>4. Fresh'
  BY <1>1 DEF IndInv, Fresh
<1>5. Notified'
  BY <1>1, SameAnnouncements DEF histVars
<1>6. Unvoted' /\ Shared(store)' /\ Remembers'
  BY <1>1, QuietMove DEF histVars, bounds
<1>7. QED
  BY <1>2, <1>3, <1>4, <1>5, <1>6 DEF IndInv

LEMMA AcceptNewKeeps ==
  ASSUME IndInv, NEW t \in Threads, AcceptNew(t)
  PROVE  IndInv'
<1> USE DEF AcceptNew, Goto
<1>1. pc' = [pc EXCEPT ![t] = "verify"] /\ pc \in [Threads -> Steps] /\ pc[t] = "waiting"
  BY DEF IndInv, TypeOK
<1>2. TypeOK'
  <2>1. pc' \in [Threads -> Steps]
    BY <1>1 DEF Steps
  <2>2. QED
    BY <2>1 DEF IndInv, TypeOK, diskVars, histVars, bounds
<1>3. \A u \in Threads : pc[u] \notin {"verify", "persist"}
  BY NamesAssumption DEF IndInv, Holding
<1>4. Holding'
  BY <1>1, <1>3 DEF IndInv, Holding
<1>5. Fresh'
  <2>1. \A i \in 1 .. Len(store) : store[i].env # serving[t]
    BY DEF IndInv, TypeOK, Known
  <2>2. \A u \in Threads : pc'[u] = "verify" => u = t
    BY <1>1, <1>3
  <2>3. QED
    BY <2>1, <2>2 DEF Fresh
<1>6. Notified'
  BY <1>1, SameAnnouncements DEF histVars
<1>7. Unvoted' /\ Shared(store)' /\ Remembers'
  BY <1>1, QuietMove DEF histVars, bounds
<1>8. QED
  BY <1>2, <1>4, <1>5, <1>6, <1>7 DEF IndInv

LEMMA AnswerKeeps ==
  ASSUME IndInv, NEW t \in Threads, Answer(t)
  PROVE  IndInv'
<1> USE DEF Answer, Goto
<1>1. pc' = [pc EXCEPT ![t] = "idle"] /\ serving' = [serving EXCEPT ![t] = NoEnvelope]
      /\ pc \in [Threads -> Steps] /\ serving \in [Threads -> Envelopes \cup {NoEnvelope}] /\ pc[t] = "done"
  BY DEF IndInv, TypeOK
<1>2. TypeOK'
  <2>1. pc' \in [Threads -> Steps] /\ serving' \in [Threads -> Envelopes \cup {NoEnvelope}]
    BY <1>1 DEF Steps
  <2>2. QED
    BY <2>1 DEF IndInv, TypeOK, diskVars, histVars, bounds
<1>3. Holding'
  BY <1>1 DEF IndInv, Holding
<1>4. Fresh'
  BY <1>1 DEF IndInv, Fresh
<1>5. Notified'
  BY <1>1, SameAnnouncements DEF histVars
<1>6. Unvoted' /\ Shared(store)' /\ Remembers'
  BY <1>1, QuietMove DEF histVars, bounds
<1>7. QED
  BY <1>2, <1>3, <1>4, <1>5, <1>6 DEF IndInv

-----------------------------------------------------------------------------
(***************************************************************************)
(* Under the lock: verify, write, announce.                                *)
(***************************************************************************)

LEMMA VerifyKeeps ==
  ASSUME IndInv, NEW t \in Threads, Verify(t)
  PROVE  IndInv'
<1>1. /\ pc' = [pc EXCEPT ![t] = "persist"] /\ pc \in [Threads -> Steps] /\ pc[t] = "verify"
      /\ serving[t] \in Envelopes /\ lock = t
      /\ UNCHANGED <<serving, lock, log, openLine, requests, failures, restarts, cast, written, announced>>
  BY DEF Verify, Goto, IndInv, TypeOK, Holding, diskVars, histVars, bounds
<1>2. PICK verdict \in Verdicts : store' = Push(store, NewDoc(serving[t], verdict))
  BY DEF Verify
<1> DEFINE d == NewDoc(serving[t], verdict)
           p == Append(store, d)
<1>3. d \in Doc /\ d.env = serving[t] /\ d.no = 0
  BY <1>1, NewDocIs DEF IndInv
<1>4. store \in Seq(Doc) /\ log \in Seq(Doc) /\ MaxInMemory \in Nat \ {0}
  BY NumbersAssumption DEF IndInv, TypeOK
<1> HIDE DEF d
<1>5. store' = LastOf(p, MaxInMemory)
  BY <1>2 DEF Push, d
<1>6. store' \in Seq(Doc) /\ Len(store') \in 1 .. MaxInMemory /\ store'[Len(store')] = d
  <2> DEFINE q == LastOf(p, MaxInMemory)
  <2>1. q \in Seq(Doc) /\ Len(q) \in 1 .. MaxInMemory /\ q[Len(q)] = d
    BY <1>3, <1>4, PushIs
  <2> HIDE DEF q
  <2>2. store' = q
    BY <1>5 DEF q
  <2>3. QED
    BY <2>1, <2>2
<1>7. TypeOK'
  <2>1. pc' \in [Threads -> Steps]
    BY <1>1 DEF Steps
  <2>2. Len(store') <= MaxInMemory
    BY <1>4, <1>6
  <2>3. QED
    BY <1>1, <1>6, <2>1, <2>2 DEF IndInv, TypeOK
<1>8. \A u \in Threads : pc[u] \in {"verify", "persist"} => u = t
  BY <1>1 DEF IndInv, Holding
<1>9. Holding'
  BY <1>1 DEF IndInv, Holding
<1>10. Fresh'
  BY <1>1, <1>8 DEF Fresh
<1>11. Unvoted'
  <2>1. Len(store') > 0 /\ store'[Len(store')].no = 0
    BY <1>3, <1>4, <1>6
  <2>2. QED
    BY <1>1, <2>1 DEF IndInv, Unvoted
<1>12. Shared(store)'
  <2>1. /\ p \in Seq(Doc) /\ Len(store) \in Nat /\ Len(p) = Len(store) + 1
        /\ p[Len(store) + 1] = d /\ (\A i \in 1 .. Len(store) : p[i] = store[i] /\ store[i] \in Doc)
        /\ \A i \in 1 .. Len(store) + 1 : i = Len(store) + 1 \/ i \in 1 .. Len(store)
    BY <1>3, <1>4, AppendIs
  <2>2. \A i \in 1 .. Len(p) : p[i] \in Doc /\ p[i].no \in Nat /\ Against(p[i]) \in Nat
    BY <1>3, <2>1, DocFields DEF IndInv
  <2>3. \A i \in 1 .. Len(store) :
          /\ store[i].no <= Against(store[i])
          /\ \A j \in 1 .. Len(store) :
               i # j /\ FrameOf[store[i].env] = FrameOf[store[j].env] => store[i].no + store[j].no <= Against(store[i])
    BY DEF IndInv, Shared
  <2>4. \A x, y \in Doc : FrameOf[x.env] = FrameOf[y.env] => Against(x) = Against(y)
    BY DEF Against
  <2> HIDE DEF p
  <2>5. ASSUME NEW i \in 1 .. Len(p)
        PROVE  p[i].no <= Against(p[i])
    BY <1>3, <2>1, <2>2, <2>3
  <2>6. ASSUME NEW i \in 1 .. Len(p), NEW j \in 1 .. Len(p), i # j, FrameOf[p[i].env] = FrameOf[p[j].env]
        PROVE  p[i].no + p[j].no <= Against(p[i])
    <3>1. Against(p[i]) = Against(p[j])
      BY <2>2, <2>4, <2>6
    <3>2. CASE i = Len(store) + 1
      BY <1>3, <2>1, <2>2, <2>5, <3>1, <3>2
    <3>3. CASE j = Len(store) + 1
      BY <1>3, <2>1, <2>2, <2>5, <3>1, <3>3
    <3>4. CASE i \in 1 .. Len(store) /\ j \in 1 .. Len(store)
      BY <2>1, <2>3, <2>6, <3>4
    <3>5. QED
      BY <2>1, <3>2, <3>3, <3>4
  <2>7. Shared(p)
    BY <2>5, <2>6 DEF Shared
  <2>8. Shared(LastOf(p, MaxInMemory))
    BY <1>4, <2>1, <2>7, SharedLast
  <2>9. QED
    BY <1>1, <1>5, <2>8 DEF Shared, Against
<1>13. Notified'
  BY <1>1, SameAnnouncements
<1>14. Remembers'
  <2> SUFFICES ASSUME failures = 0
               PROVE  /\ ~openLine /\ DistinctEnvs(LogTail)
                      /\ SameEnvs(store', NextTail') /\ DistinctEnvs(store')
    BY <1>1 DEF Remembers, LogTail
  <2>1. ~openLine /\ DistinctEnvs(LogTail) /\ SameEnvs(store, LogTail)
    BY <1>1, <1>8 DEF IndInv, Remembers
  <2>2. SameEnvs(LastOf(Append(store, d), MaxInMemory), LastOf(Append(log, d), MaxInMemory))
    BY <1>3, <1>4, <2>1, PushSame DEF LogTail
  <2>3. NextTail' = LastOf(Append(log, d), MaxInMemory)
    BY <1>1, <1>6 DEF NextTail
  <2>4. DistinctEnvs(store)
    BY <2>1, SameIsSymmetric
  <2>5. \A i \in 1 .. Len(store) : store[i].env # d.env
    BY <1>1, <1>3 DEF IndInv, Fresh
  <2>6. DistinctEnvs(LastOf(Append(store, d), MaxInMemory))
    BY <1>3, <1>4, <2>4, <2>5, PushDistinct
  <2>7. QED
    BY <1>5, <2>1, <2>2, <2>3, <2>6
<1>15. QED
  BY <1>7, <1>9, <1>10, <1>11, <1>12, <1>13, <1>14 DEF IndInv

\* What Announcing is after one thread entered it.
LEMMA OneMoreAnnouncing ==
  ASSUME IndInv, NEW t \in Threads, pc[t] # "announce", pc' = [pc EXCEPT ![t] = "announce"], UNCHANGED serving
  PROVE  \A e \in Envelopes :
           /\ Cardinality(Announcing(e)) \in Nat /\ Cardinality(Announcing(e)') \in Nat
           /\ Cardinality(Announcing(e)') = Cardinality(Announcing(e)) + (IF e = serving[t] THEN 1 ELSE 0)
<1> SUFFICES ASSUME NEW e \in Envelopes
             PROVE  /\ Cardinality(Announcing(e)) \in Nat /\ Cardinality(Announcing(e)') \in Nat
                    /\ Cardinality(Announcing(e)') = Cardinality(Announcing(e)) + (IF e = serving[t] THEN 1 ELSE 0)
  OBVIOUS
<1>1. pc \in [Threads -> Steps]
  BY DEF IndInv, TypeOK
<1>2. Announcing(e)' = IF e = serving[t] THEN Announcing(e) \cup {t} ELSE Announcing(e)
  BY <1>1 DEF Announcing
<1>3. t \notin Announcing(e)
  BY DEF Announcing
<1>4. IsFiniteSet(Announcing(e))
  <2>1. Announcing(e) \subseteq Threads
    BY DEF Announcing
  <2>2. QED
    BY <2>1, NamesAssumption, FS_Subset
<1> HIDE DEF Announcing
<1>5. Cardinality(Announcing(e)) \in Nat
  BY <1>4, FS_CardinalityType
<1>6. Cardinality(Announcing(e) \cup {t}) = Cardinality(Announcing(e)) + 1
  BY <1>3, <1>4, FS_AddElement
<1>7. CASE e = serving[t]
  BY <1>2, <1>5, <1>6, <1>7
<1>8. CASE e # serving[t]
  BY <1>2, <1>5, <1>8
<1>9. QED
  BY <1>7, <1>8

LEMMA OneLessAnnouncing ==
  ASSUME IndInv, NEW t \in Threads, pc[t] = "announce", pc' = [pc EXCEPT ![t] = "done"], UNCHANGED serving
  PROVE  \A e \in Envelopes :
           /\ Cardinality(Announcing(e)) \in Nat /\ Cardinality(Announcing(e)') \in Nat
           /\ Cardinality(Announcing(e)') = Cardinality(Announcing(e)) - (IF e = serving[t] THEN 1 ELSE 0)
<1> SUFFICES ASSUME NEW e \in Envelopes
             PROVE  /\ Cardinality(Announcing(e)) \in Nat /\ Cardinality(Announcing(e)') \in Nat
                    /\ Cardinality(Announcing(e)') = Cardinality(Announcing(e)) - (IF e = serving[t] THEN 1 ELSE 0)
  OBVIOUS
<1>1. pc \in [Threads -> Steps]
  BY DEF IndInv, TypeOK
<1>2. Announcing(e)' = IF e = serving[t] THEN Announcing(e) \ {t} ELSE Announcing(e)
  BY <1>1 DEF Announcing
<1>3. e = serving[t] => t \in Announcing(e)
  BY DEF Announcing
<1>4. IsFiniteSet(Announcing(e))
  <2>1. Announcing(e) \subseteq Threads
    BY DEF Announcing
  <2>2. QED
    BY <2>1, NamesAssumption, FS_Subset
<1> HIDE DEF Announcing
<1>5. Cardinality(Announcing(e)) \in Nat
  BY <1>4, FS_CardinalityType
<1>6. CASE e = serving[t]
  <2>1. IsFiniteSet(Announcing(e) \ {t}) /\ Cardinality(Announcing(e) \ {t}) = Cardinality(Announcing(e)) - 1
    BY <1>3, <1>4, <1>6, FS_RemoveElement
  <2>2. Cardinality(Announcing(e) \ {t}) \in Nat
    BY <2>1, FS_CardinalityType
  <2>3. QED
    BY <1>2, <1>5, <1>6, <2>1, <2>2
<1>7. CASE e # serving[t]
  BY <1>2, <1>5, <1>7
<1>8. QED
  BY <1>6, <1>7

LEMMA PersistKeeps ==
  ASSUME IndInv, NEW t \in Threads, Persist(t)
  PROVE  IndInv'
<1> USE DEF Persist, Goto
<1> DEFINE d == store[Len(store)]
<1>1. /\ pc' = [pc EXCEPT ![t] = "announce"] /\ pc \in [Threads -> Steps] /\ pc[t] = "persist"
      /\ written' = [written EXCEPT ![serving[t]] = @ + 1] /\ written \in [Envelopes -> Nat]
      /\ serving[t] \in Envelopes /\ lock = t /\ lock' = Free
      /\ UNCHANGED <<serving, store, requests, failures, restarts, cast, announced>>
  BY DEF IndInv, TypeOK, Holding, bounds
<1>2. log' = (IF openLine THEN log ELSE Append(log, d)) /\ openLine' = FALSE
  BY DEF WriteLine
<1>3. store \in Seq(Doc) /\ log \in Seq(Doc) /\ MaxInMemory \in Nat \ {0}
  BY NumbersAssumption DEF IndInv, TypeOK
<1>4. d \in Doc /\ d.no = 0
  <2>1. Len(store) > 0 /\ d.no = 0
    BY <1>1 DEF IndInv, Unvoted
  <2>2. Len(store) \in Nat
    BY <1>3
  <2>3. Len(store) \in 1 .. Len(store)
    BY <2>1, <2>2
  <2>4. QED
    BY <1>3, <2>1, <2>3
<1> HIDE DEF d
<1>5. /\ Append(log, d) \in Seq(Doc) /\ Len(log) \in Nat /\ Len(Append(log, d)) = Len(log) + 1
      /\ Append(log, d)[Len(log) + 1] = d /\ (\A i \in 1 .. Len(log) : Append(log, d)[i] = log[i])
      /\ \A i \in 1 .. Len(log) + 1 : i = Len(log) + 1 \/ i \in 1 .. Len(log)
  BY <1>3, <1>4, AppendIs
<1>6. TypeOK'
  <2>1. pc' \in [Threads -> Steps]
    BY <1>1 DEF Steps
  <2>2. written' \in [Envelopes -> Nat]
    BY <1>1
  <2>3. log' \in Seq(Doc) /\ openLine' \in BOOLEAN
    BY <1>2, <1>3, <1>5
  <2>4. QED
    BY <1>1, <2>1, <2>2, <2>3 DEF IndInv, TypeOK
<1>7. \A u \in Threads : pc[u] \in {"verify", "persist"} => u = t
  BY <1>1 DEF IndInv, Holding
<1>8. Holding'
  BY <1>1, <1>7, NamesAssumption DEF IndInv, Holding
<1>9. Fresh'
  BY <1>1, <1>7 DEF Fresh
<1>10. Unvoted'
  <2>1. \A i \in 1 .. Len(log) : log[i].no = 0
    BY DEF IndInv, Unvoted
  <2>2. \A i \in 1 .. Len(log') : log'[i].no = 0
    <3>1. CASE openLine
      BY <1>2, <2>1, <3>1
    <3>2. CASE ~openLine
      <4>1. log' = Append(log, d)
        BY <1>2, <3>2
      <4>2. \A i \in 1 .. Len(log) + 1 : Append(log, d)[i].no = 0
        BY <1>4, <1>5, <2>1
      <4>3. QED
        BY <1>5, <4>1, <4>2
    <3>3. QED
      BY <3>1, <3>2
  <2>3. \A u \in Threads : pc'[u] # "persist"
    BY <1>1, <1>7
  <2>4. QED
    BY <2>2, <2>3 DEF Unvoted
<1>11. Shared(store)'
  BY <1>1 DEF IndInv, Shared, Against
<1>12. Notified'
  <2>1. ASSUME NEW e \in Envelopes
        PROVE  announced'[e] + Cardinality(Announcing(e)') <= written'[e]
    <3>1. announced[e] + Cardinality(Announcing(e)) <= written[e] /\ announced[e] \in Nat /\ written[e] \in Nat
      BY DEF IndInv, Notified, TypeOK
    <3>2. /\ Cardinality(Announcing(e)) \in Nat
          /\ Cardinality(Announcing(e)') = Cardinality(Announcing(e)) + (IF e = serving[t] THEN 1 ELSE 0)
      BY <1>1, OneMoreAnnouncing
    <3>3. announced'[e] = announced[e] /\ written'[e] = written[e] + (IF e = serving[t] THEN 1 ELSE 0)
      BY <1>1
    <3>4. QED
      BY <3>1, <3>2, <3>3
  <2>2. QED
    BY <2>1 DEF Notified
<1>13. Remembers'
  <2> SUFFICES ASSUME failures = 0
               PROVE  ~openLine' /\ DistinctEnvs(LogTail') /\ SameEnvs(store', LogTail')
    <3>1. \A u \in Threads : pc'[u] # "persist"
      BY <1>1, <1>7
    <3>2. QED
      BY <1>1, <3>1 DEF Remembers
  <2>1. ~openLine /\ SameEnvs(store, NextTail) /\ DistinctEnvs(store)
    BY <1>1 DEF IndInv, Remembers
  <2>2. LogTail' = NextTail
    BY <1>2, <2>1 DEF LogTail, NextTail, d
  <2>3. DistinctEnvs(NextTail)
    BY <2>1, SameIsSymmetric
  <2>4. QED
    BY <1>1, <1>2, <2>1, <2>2, <2>3
<1>14. QED
  BY <1>6, <1>8, <1>9, <1>10, <1>11, <1>12, <1>13 DEF IndInv

LEMMA PersistFailsKeeps ==
  ASSUME IndInv, NEW t \in Threads, PersistFails(t)
  PROVE  IndInv'
<1> USE DEF PersistFails, Goto
<1>1. /\ pc' = [pc EXCEPT ![t] = "done"] /\ pc \in [Threads -> Steps] /\ pc[t] = "persist"
      /\ lock = t /\ lock' = Free /\ failures' = failures + 1 /\ failures < MaxFailures
      /\ UNCHANGED <<serving, store, log, requests, restarts, cast, written, announced>>
  BY DEF IndInv, TypeOK, Holding, TearLine, histVars
<1>2. failures' \in 0 .. MaxFailures /\ failures' # 0
  BY <1>1, NumbersAssumption DEF IndInv, TypeOK
<1>3. TypeOK'
  <2>1. pc' \in [Threads -> Steps]
    BY <1>1 DEF Steps
  <2>2. openLine' \in BOOLEAN
    BY DEF IndInv, TypeOK, TearLine
  <2>3. QED
    BY <1>1, <1>2, <2>1, <2>2 DEF IndInv, TypeOK
<1>4. \A u \in Threads : pc[u] \in {"verify", "persist"} => u = t
  BY <1>1 DEF IndInv, Holding
<1>5. Holding'
  BY <1>1, <1>4, NamesAssumption DEF IndInv, Holding
<1>6. Fresh'
  BY <1>1, <1>4 DEF Fresh
<1>7. Unvoted'
  BY <1>1, <1>4 DEF IndInv, Unvoted
<1>8. Shared(store)'
  BY <1>1 DEF IndInv, Shared, Against
<1>9. Notified'
  BY <1>1, SameAnnouncements
<1>10. Remembers'
  BY <1>2 DEF Remembers
<1>11. QED
  BY <1>3, <1>5, <1>6, <1>7, <1>8, <1>9, <1>10 DEF IndInv

LEMMA AnnounceKeeps ==
  ASSUME IndInv, NEW t \in Threads, Announce(t)
  PROVE  IndInv'
<1> USE DEF Announce, Goto
<1>1. /\ pc' = [pc EXCEPT ![t] = "done"] /\ pc \in [Threads -> Steps] /\ pc[t] = "announce"
      /\ announced' = [announced EXCEPT ![serving[t]] = @ + 1] /\ announced \in [Envelopes -> Nat]
      /\ serving[t] \in Envelopes
      /\ UNCHANGED <<serving, lock, store, log, openLine, requests, failures, restarts, cast, written>>
  BY DEF IndInv, TypeOK, Holding, diskVars, bounds
<1>2. TypeOK'
  <2>1. pc' \in [Threads -> Steps] /\ announced' \in [Envelopes -> Nat]
    BY <1>1 DEF Steps
  <2>2. QED
    BY <1>1, <2>1 DEF IndInv, TypeOK
<1>3. Holding'
  BY <1>1 DEF IndInv, Holding
<1>4. Fresh'
  BY <1>1 DEF IndInv, Fresh
<1>5. Notified'
  <2>1. ASSUME NEW e \in Envelopes
        PROVE  announced'[e] + Cardinality(Announcing(e)') <= written'[e]
    <3>1. announced[e] + Cardinality(Announcing(e)) <= written[e] /\ announced[e] \in Nat /\ written[e] \in Nat
      BY DEF IndInv, Notified, TypeOK
    <3>2. /\ Cardinality(Announcing(e)) \in Nat
          /\ Cardinality(Announcing(e)') = Cardinality(Announcing(e)) - (IF e = serving[t] THEN 1 ELSE 0)
      BY <1>1, OneLessAnnouncing
    <3>3. announced'[e] = announced[e] + (IF e = serving[t] THEN 1 ELSE 0) /\ written'[e] = written[e]
      BY <1>1
    <3>4. QED
      BY <3>1, <3>2, <3>3
  <2>2. QED
    BY <2>1 DEF Notified
<1>6. Unvoted' /\ Shared(store)' /\ Remembers'
  BY <1>1, QuietMove DEF diskVars
<1>7. QED
  BY <1>2, <1>3, <1>4, <1>5, <1>6 DEF IndInv

-----------------------------------------------------------------------------
(***************************************************************************)
(* Votes, restarts and the first state.                                    *)
(***************************************************************************)

LEMMA VoteKeeps ==
  ASSUME IndInv, NEW f \in Frames, NEW vote \in Votes, Vote(f, vote)
  PROVE  IndInv'
<1> USE DEF Vote
<1> DEFINE n == Len(store)
<1>1. /\ store \in Seq(Doc) /\ n \in Nat /\ n <= MaxInMemory /\ DOMAIN store = 1 .. n
      /\ (\A i \in 1 .. n : store[i] \in Doc) /\ cast \in [Frames \X Votes -> Nat] /\ lock = Free
      /\ cast' = [cast EXCEPT ![<<f, vote>>] = @ + 1]
      /\ UNCHANGED <<pc, serving, lock, log, openLine, requests, failures, restarts, written, announced>>
  BY DEF IndInv, TypeOK, threadVars, diskVars, bounds
<1>2. store' = [i \in 1 .. n |-> IF i \in Target(f) THEN Counted(store[i], vote) ELSE store[i]]
  BY <1>1
<1>3. \A i \in 1 .. n : Counted(store[i], vote) \in Doc /\ Counted(store[i], vote).env = store[i].env
                        /\ Counted(store[i], vote).no = IF vote = "no" THEN store[i].no + 1 ELSE store[i].no
  BY <1>1, CountedIs
<1>4. store' \in [1 .. n -> Doc]
  BY <1>1, <1>2, <1>3
<1> HIDE DEF n
<1>5. store' \in Seq(Doc) /\ Len(store') = n
  <2>1. n \in Nat
    BY <1>1
  <2>2. QED
    BY <1>4, <2>1
<1>6. /\ \A i \in 1 .. n : store'[i].env = store[i].env
      /\ \A i \in 1 .. n : i \notin Target(f) => store'[i].no = store[i].no
      /\ \A i \in 1 .. n : store'[i].no = IF i \in Target(f) /\ vote = "no" THEN store[i].no + 1 ELSE store[i].no
  BY <1>2, <1>3
<1>7. TypeOK'
  <2>1. cast' \in [Frames \X Votes -> Nat]
    BY <1>1
  <2>2. QED
    BY <1>1, <1>5, <2>1 DEF IndInv, TypeOK
<1>8. \A u \in Threads : pc[u] \notin {"verify", "persist"}
  BY <1>1, NamesAssumption DEF IndInv, Holding
<1>9. Holding'
  BY <1>1 DEF IndInv, Holding
<1>10. Fresh'
  BY <1>1, <1>8 DEF Fresh
<1>11. Unvoted'
  BY <1>1, <1>8 DEF IndInv, Unvoted
<1>12. Shared(store)'
  <2>1. \A i, j \in Target(f) : i = j
    <3>1. \A i \in Target(f) : i \in 1 .. n /\ FrameOf[store[i].env] = f
                               /\ \A j \in 1 .. i - 1 : FrameOf[store[j].env] # f
      BY <1>1 DEF Target
    <3>2. ASSUME NEW i \in Target(f), NEW j \in Target(f), i < j
          PROVE  FALSE
      <4>1. i \in 1 .. j - 1
        BY <1>1, <3>1, <3>2
      <4>2. QED
        BY <3>1, <4>1
    <3> HIDE DEF Target
    <3>3. \A i, j \in Target(f) : i \in Int /\ j \in Int
      BY <1>1, <3>1
    <3>4. QED
      BY <3>2, <3>3
  <2>2. \A i \in Target(f) : FrameOf[store[i].env] = f
    BY DEF Target
  <2>3. \A i \in 1 .. n :
          /\ store[i].no <= Against(store[i])
          /\ \A j \in 1 .. n :
               i # j /\ FrameOf[store[i].env] = FrameOf[store[j].env] => store[i].no + store[j].no <= Against(store[i])
    BY DEF IndInv, Shared, n
  <2>4. \A i \in 1 .. n : store[i].no \in Nat /\ Against(store[i]) \in Nat /\ FrameOf[store[i].env] \in Frames
    BY <1>1, DocFields DEF IndInv
  <2>5. \A i \in 1 .. n :
          cast'[<<FrameOf[store'[i].env], "no">>] =
            IF FrameOf[store[i].env] = f /\ vote = "no" THEN Against(store[i]) + 1 ELSE Against(store[i])
    <3> SUFFICES ASSUME NEW i \in 1 .. n
                 PROVE  cast'[<<FrameOf[store'[i].env], "no">>] =
                          IF FrameOf[store[i].env] = f /\ vote = "no" THEN Against(store[i]) + 1 ELSE Against(store[i])
      OBVIOUS
    <3>1. <<FrameOf[store[i].env], "no">> \in Frames \X Votes /\ store'[i].env = store[i].env
      BY <1>6, <2>4 DEF Votes
    <3>2. QED
      BY <1>1, <3>1 DEF Against
  <2>6. \A i \in 1 .. n : store'[i].no <= cast'[<<FrameOf[store'[i].env], "no">>]
    BY <1>6, <2>2, <2>3, <2>4, <2>5
  <2>7. ASSUME NEW i \in 1 .. n, NEW j \in 1 .. n, i # j, FrameOf[store'[i].env] = FrameOf[store'[j].env]
        PROVE  store'[i].no + store'[j].no <= cast'[<<FrameOf[store'[i].env], "no">>]
    <3>1. FrameOf[store[i].env] = FrameOf[store[j].env]
      BY <1>6, <2>7
    <3>2. store[i].no + store[j].no <= Against(store[i])
      BY <2>3, <2>7, <3>1
    <3>3. i \notin Target(f) \/ j \notin Target(f)
      BY <2>1, <2>7
    <3>4. i \in Target(f) \/ j \in Target(f) => FrameOf[store[i].env] = f
      BY <2>2, <3>1
    <3>5. QED
      BY <1>6, <2>4, <2>5, <3>2, <3>3, <3>4
  <2>8. QED
    BY <1>5, <2>6, <2>7 DEF Shared, Against
<1>13. Notified'
  BY <1>1 DEF IndInv, Notified, Announcing
<1>14. Remembers'
  <2> SUFFICES ASSUME failures = 0
               PROVE  ~openLine /\ DistinctEnvs(LogTail) /\ SameEnvs(store', LogTail)
    BY <1>1, <1>8 DEF Remembers, LogTail
  <2>1. ~openLine /\ DistinctEnvs(LogTail) /\ SameEnvs(store, LogTail)
    BY <1>8 DEF IndInv, Remembers
  <2>2. QED
    BY <1>5, <1>6, <2>1 DEF SameEnvs, n
<1>15. QED
  BY <1>7, <1>9, <1>10, <1>11, <1>12, <1>13, <1>14 DEF IndInv

LEMMA RestartKeeps ==
  ASSUME IndInv, Restart
  PROVE  IndInv'
<1> USE DEF Restart
<1>1. /\ pc' = [t \in Threads |-> "idle"] /\ serving' = [t \in Threads |-> NoEnvelope] /\ lock' = Free
      /\ store' = LogTail /\ restarts' = restarts + 1 /\ restarts < MaxRestarts
      /\ UNCHANGED <<log, openLine, requests, failures, cast, written, announced>>
  BY DEF LoadExisting, LogTail, diskVars, histVars
<1>2. log \in Seq(Doc) /\ MaxInMemory \in Nat \ {0}
  BY NumbersAssumption DEF IndInv, TypeOK
<1> DEFINE k == Dropped(Len(log), MaxInMemory)
<1>3. /\ LogTail \in Seq(Doc) /\ Len(LogTail) <= MaxInMemory
      /\ \A i \in 1 .. Len(LogTail) : LogTail[i] = log[k + i] /\ k + i \in 1 .. Len(log)
  BY <1>2, LastOfIs DEF LogTail
<1>4. \A t \in Threads : pc'[t] = "idle"
  BY <1>1
<1>5. TypeOK'
  <2>1. pc' \in [Threads -> Steps] /\ serving' \in [Threads -> Envelopes \cup {NoEnvelope}]
    BY <1>1 DEF Steps
  <2>2. restarts' \in 0 .. MaxRestarts
    BY <1>1, NumbersAssumption DEF IndInv, TypeOK
  <2>3. QED
    BY <1>1, <1>3, <2>1, <2>2 DEF IndInv, TypeOK
<1>6. Holding'
  BY <1>1, <1>4, NamesAssumption DEF Holding
<1>7. Fresh'
  BY <1>4 DEF Fresh
<1>8. Unvoted'
  BY <1>1, <1>4 DEF IndInv, Unvoted
<1>9. Shared(store)'
  <2>1. \A i \in 1 .. Len(LogTail) : LogTail[i] \in Doc /\ LogTail[i].no = 0
    BY <1>2, <1>3 DEF IndInv, Unvoted
  <2>2. \A i \in 1 .. Len(LogTail) : Against(LogTail[i]) \in Nat
    BY <2>1, DocFields DEF IndInv
  <2> HIDE DEF LogTail
  <2>3. Shared(LogTail)
    BY <2>1, <2>2 DEF Shared
  <2>4. QED
    BY <1>1, <2>3 DEF Shared, Against
<1>10. Notified'
  <2>1. ASSUME NEW e \in Envelopes
        PROVE  announced'[e] + Cardinality(Announcing(e)') <= written'[e]
    <3>1. announced[e] + Cardinality(Announcing(e)) <= written[e] /\ announced[e] \in Nat /\ written[e] \in Nat
      BY DEF IndInv, Notified, TypeOK
    <3>2. Cardinality(Announcing(e)) \in Nat
      <4>1. Announcing(e) \subseteq Threads
        BY DEF Announcing
      <4>2. QED
        BY <4>1, NamesAssumption, FS_Subset, FS_CardinalityType
    <3>3. Announcing(e)' = {}
      BY <1>4 DEF Announcing
    <3>4. Cardinality(Announcing(e)') = 0
      BY <3>3, FS_EmptySet
    <3>5. QED
      BY <1>1, <3>1, <3>2, <3>4
  <2>2. QED
    BY <2>1 DEF Notified
<1>11. Remembers'
  <2>1. failures = 0 => ~openLine /\ DistinctEnvs(LogTail)
    BY DEF IndInv, Remembers
  <2>2. SameEnvs(LogTail, LogTail)
    BY DEF SameEnvs
  <2>3. LogTail' = LogTail
    BY <1>1 DEF LogTail
  <2>4. QED
    BY <1>1, <1>4, <2>1, <2>2, <2>3 DEF Remembers
<1>12. QED
  BY <1>5, <1>6, <1>7, <1>8, <1>9, <1>10, <1>11 DEF IndInv

LEMMA InitHolds ==
  ASSUME Init
  PROVE  IndInv
<1> USE DEF Init
<1>1. \A t \in Threads : pc[t] = "idle"
  OBVIOUS
<1>2. <<>> \in Seq(Doc) /\ Len(<<>>) = 0 /\ MaxInMemory \in Nat \ {0}
  BY NumbersAssumption
<1>3. TypeOK
  <2>1. requests \in 0 .. MaxRequests /\ failures \in 0 .. MaxFailures /\ restarts \in 0 .. MaxRestarts
    BY NumbersAssumption
  <2>2. store \in Seq(Doc) /\ log \in Seq(Doc) /\ Len(store) <= MaxInMemory
    BY <1>2
  <2>3. QED
    BY <2>1, <2>2 DEF TypeOK, Steps
<1>4. Holding /\ Fresh
  BY <1>1, NamesAssumption DEF Holding, Fresh
<1>5. Unvoted /\ Shared(store)
  BY <1>1 DEF Unvoted, Shared
<1>6. Notified
  <2>1. \A e \in Envelopes : Announcing(e) = {}
    BY <1>1 DEF Announcing
  <2>2. \A e \in Envelopes : Cardinality(Announcing(e)) = 0
    BY <2>1, FS_EmptySet
  <2>3. \A e \in Envelopes : announced[e] = 0 /\ written[e] = 0
    OBVIOUS
  <2>4. QED
    BY <2>2, <2>3 DEF Notified
<1>7. Remembers
  <2>1. Len(LogTail) = 0
    <3>1. \A i \in Nat : i - Dropped(i, MaxInMemory) <= i /\ Dropped(i, MaxInMemory) \in Nat
      BY <1>2 DEF Dropped
    <3>2. Len(LogTail) = Len(log) - Dropped(Len(log), MaxInMemory) /\ LogTail \in Seq(Doc)
      <4>1. log \in Seq(Doc)
        BY <1>2
      <4>2. QED
        BY <1>2, <4>1, LastOfIs DEF LogTail
    <3> HIDE DEF LogTail
    <3>3. QED
      BY <1>2, <3>1, <3>2
  <2>2. DistinctEnvs(LogTail) /\ SameEnvs(store, LogTail)
    <3> HIDE DEF LogTail
    <3>1. QED
      BY <1>2, <2>1 DEF DistinctEnvs, SameEnvs
  <2>3. QED
    BY <1>1, <2>2 DEF Remembers
<1>8. QED
  BY <1>3, <1>4, <1>5, <1>6, <1>7 DEF IndInv

LEMMA StutterKeeps ==
  ASSUME IndInv, UNCHANGED vars
  PROVE  IndInv'
<1> USE DEF vars, threadVars, diskVars, bounds, histVars, IndInv
<1>1. TypeOK' /\ Holding' /\ Fresh' /\ Unvoted'
  BY DEF TypeOK, Holding, Fresh, Unvoted
<1>2. Shared(store)' /\ Notified'
  BY DEF Shared, Against, Notified, Announcing
<1>3. Remembers'
  BY DEF Remembers, LogTail, NextTail
<1>4. QED
  BY <1>1, <1>2, <1>3

LEMMA Inductive == Spec => []IndInv
<1>1. Init => IndInv
  BY InitHolds
<1>2. IndInv /\ [Next]_vars => IndInv'
  <2> SUFFICES ASSUME IndInv, [Next]_vars
               PROVE  IndInv'
    OBVIOUS
  <2>1. CASE \E t \in Threads, e \in Envelopes : Begin(t, e)
    BY <2>1, BeginKeeps
  <2>2. ASSUME NEW t \in Threads, Handle(t)
        PROVE  IndInv'
    BY <2>2, AnswerDuplicateKeeps, AcceptNewKeeps, VerifyKeeps, PersistKeeps, PersistFailsKeeps,
       AnnounceKeeps, AnswerKeeps DEF Handle
  <2>3. CASE \E f \in Frames, vote \in Votes : Vote(f, vote)
    BY <2>3, VoteKeeps
  <2>4. CASE Restart
    BY <2>4, RestartKeeps
  <2>5. CASE UNCHANGED vars
    BY <2>5, StutterKeeps
  <2>6. QED
    BY <2>1, <2>2, <2>3, <2>4, <2>5 DEF Next
<1>3. QED
  BY <1>1, <1>2, PTL DEF Spec

-----------------------------------------------------------------------------
(***************************************************************************)
(* The theorems.                                                           *)
(***************************************************************************)

\* The gateway's state is what its handlers take it for: the deque never
\* exceeds maxlen, and the log holds documents.
THEOREM TypeCorrect == Spec => []TypeOK
<1>1. IndInv => TypeOK
  BY DEF IndInv
<1>2. QED
  BY <1>1, Inductive, PTL

\* As long as the disk works, load_existing brings back exactly the documents
\* that the deque held when the process died with the lock free.
THEOREM TailRemembered == Spec => []MemoryIsLogTail
<1>1. IndInv => MemoryIsLogTail
  <2> SUFFICES ASSUME IndInv, failures = 0, lock = Free
               PROVE  EnvsOf(store) = EnvsOf(LogTail)
    BY DEF MemoryIsLogTail, LogTail
  <2>1. \A t \in Threads : pc[t] # "persist"
    BY NamesAssumption DEF IndInv, Holding
  <2>2. SameEnvs(store, LogTail)
    BY <2>1 DEF IndInv, Remembers
  <2>3. store \in Seq(Doc) /\ LogTail \in Seq(Doc)
    BY NumbersAssumption, LastOfIs DEF IndInv, TypeOK, LogTail
  <2>4. DOMAIN store = 1 .. Len(store) /\ DOMAIN LogTail = 1 .. Len(LogTail)
    BY <2>3
  <2> HIDE DEF LogTail
  <2>5. QED
    BY <2>2, <2>4 DEF SameEnvs, EnvsOf
<1>2. QED
  BY <1>1, Inductive, PTL

\* ingest_submission stores an envelope once, over retries, evictions from the
\* deque and restarts, as long as the disk works.
THEOREM StoredOnce == Spec => []OncePerEnvelope
<1>1. IndInv => OncePerEnvelope
  <2> SUFFICES ASSUME IndInv, failures = 0
               PROVE  \A i, j \in DOMAIN store : store[i].env = store[j].env => i = j
    BY DEF OncePerEnvelope
  <2>1. DOMAIN store = 1 .. Len(store)
    BY DEF IndInv, TypeOK
  <2>2. CASE \E t \in Threads : pc[t] = "persist"
    BY <2>1, <2>2 DEF IndInv, Remembers, DistinctEnvs
  <2>3. CASE \A t \in Threads : pc[t] # "persist"
    <3>1. SameEnvs(store, LogTail) /\ DistinctEnvs(LogTail)
      BY <2>3 DEF IndInv, Remembers
    <3>2. DistinctEnvs(store)
      BY <3>1, SameIsSymmetric
    <3>3. QED
      BY <2>1, <3>2 DEF DistinctEnvs
  <2>4. QED
    BY <2>2, <2>3
<1>2. QED
  BY <1>1, Inductive, PTL

\* broadcast_tendermint runs for an envelope at most as often as persist_event
\* wrote it, whatever fails and however many threads submit it.
THEOREM WrittenBeforeAnnounced == Spec => []AnnouncedIsWritten
<1>1. IndInv => AnnouncedIsWritten
  <2> SUFFICES ASSUME IndInv, NEW e \in Envelopes
               PROVE  announced[e] <= written[e]
    BY DEF AnnouncedIsWritten
  <2>1. announced[e] + Cardinality(Announcing(e)) <= written[e] /\ announced[e] \in Nat /\ written[e] \in Nat
    BY DEF IndInv, Notified, TypeOK
  <2>2. Cardinality(Announcing(e)) \in Nat
    <3>1. Announcing(e) \subseteq Threads
      BY DEF Announcing
    <3>2. QED
      BY <3>1, NamesAssumption, FS_Subset, FS_CardinalityType
  <2>3. QED
    BY <2>1, <2>2
<1>2. QED
  BY <1>1, Inductive, PTL

\* grpc_vote_event counts a vote for one document: two documents of a frame
\* never hold more no votes between them than were cast on it.
THEOREM OneVoteOneDocument == Spec => []VotesCountOnce
<1>1. IndInv => VotesCountOnce
  <2>1. ASSUME IndInv
        PROVE  DOMAIN store = 1 .. Len(store)
    BY <2>1 DEF IndInv, TypeOK
  <2>2. QED
    BY <2>1 DEF IndInv, Shared, Against, VotesCountOnce
<1>2. QED
  BY <1>1, Inductive, PTL

=============================================================================
