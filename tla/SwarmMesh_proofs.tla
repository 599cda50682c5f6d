-------------------------- MODULE SwarmMesh_proofs --------------------------
(***************************************************************************)
(* Proofs, for every set of nodes and envelopes and every bound, of the    *)
(* safety properties of SwarmMesh.                                         *)
(***************************************************************************)
EXTENDS SwarmMesh, TLAPS

(***************************************************************************)
(* The buffers, as sets of the envelopes they hold.                        *)
(***************************************************************************)

\* Appending to a subscription buffer adds exactly the new envelope.
LEMMA ElementsAppend ==
  ASSUME NEW S, NEW q \in Seq(S), NEW x \in S
  PROVE  /\ Append(q, x) \in Seq(S)
         /\ Elements(Append(q, x)) = Elements(q) \cup {x}
<1>1. DOMAIN Append(q, x) = 1 .. Len(q) + 1 /\ DOMAIN q = 1 .. Len(q)
  OBVIOUS
<1>2. \A i \in 1 .. Len(q) : Append(q, x)[i] = q[i]
  OBVIOUS
<1>3. Append(q, x)[Len(q) + 1] = x
  OBVIOUS
<1> QED
  BY <1>1, <1>2, <1>3 DEF Elements

\* Taking the head of a subscription buffer removes no other envelope.
LEMMA ElementsTail ==
  ASSUME NEW S, NEW q \in Seq(S), q # <<>>
  PROVE  /\ Head(q) \in S /\ Tail(q) \in Seq(S)
         /\ Head(q) \in Elements(q)
         /\ Elements(Tail(q)) \subseteq Elements(q)
         /\ Elements(q) \subseteq Elements(Tail(q)) \cup {Head(q)}
<1>1. Len(q) \in Nat \ {0} /\ DOMAIN q = 1 .. Len(q) /\ Head(q) = q[1]
  OBVIOUS
<1>2. Head(q) \in S /\ Tail(q) \in Seq(S) /\ Head(q) \in Elements(q)
  BY <1>1 DEF Elements
<1>3. DOMAIN Tail(q) = 1 .. Len(q) - 1
  OBVIOUS
<1>4. \A i \in 1 .. Len(q) - 1 : Tail(q)[i] = q[i + 1]
  OBVIOUS
<1>5. Elements(Tail(q)) \subseteq Elements(q)
  BY <1>1, <1>3, <1>4 DEF Elements
<1>6. ASSUME NEW i \in DOMAIN q, i # 1
      PROVE  q[i] \in Elements(Tail(q))
  <2>1. i - 1 \in 1 .. Len(q) - 1 /\ Tail(q)[i - 1] = q[i]
    BY <1>1, <1>4, <1>6
  <2> QED
    BY <2>1, <1>3 DEF Elements
<1>7. Elements(q) \subseteq Elements(Tail(q)) \cup {Head(q)}
  BY <1>1, <1>6 DEF Elements
<1> QED
  BY <1>2, <1>5, <1>7

-----------------------------------------------------------------------------
(***************************************************************************)
(* Type correctness.                                                       *)
(***************************************************************************)

LEMMA CallFacts ==
  ASSUME TypeOK, NEW n \in Nodes, NEW t \in Topics
  PROVE  /\ call[n][t] \in Calls
         /\ call[n][t].phase \in Phases \cup {"idle"}
         /\ call[n][t].phase # "idle" => call[n][t] \in [env : Envelopes, phase : Phases]
         /\ call[n][t].phase = "idle" <=> call[n][t] = IdleCall
BY DEF TypeOK, Calls, Phases, IdleCall

LEMMA TakenFacts ==
  ASSUME TypeOK, NEW n \in Nodes, NEW t \in Topics, Taken(n, t)
  PROVE  /\ Next1(n, t) \in Envelopes
         /\ Next1(n, t) \in Elements(inbox[n][t])
         /\ inbox' \in [Nodes -> [Topics -> Seq(Envelopes)]]
         /\ \A m \in Nodes, u \in Topics :
              Elements(inbox[m][u]) \subseteq
                Elements(inbox'[m][u]) \cup (IF m = n THEN {Next1(n, t)} ELSE {})
         /\ \A m \in Nodes, u \in Topics :
              Elements(inbox'[m][u]) \subseteq Elements(inbox[m][u])
<1>1. inbox[n][t] \in Seq(Envelopes) /\ inbox[n][t] # <<>>
  BY DEF TypeOK, Taken
<1>2. inbox' \in [Nodes -> [Topics -> Seq(Envelopes)]]
  BY <1>1, ElementsTail DEF TypeOK, Taken
<1>3. inbox'[n][t] = Tail(inbox[n][t])
  BY DEF TypeOK, Taken
<1>4. \A m \in Nodes, u \in Topics : ~(m = n /\ u = t) => inbox'[m][u] = inbox[m][u]
  BY DEF TypeOK, Taken
<1> QED
  BY <1>1, <1>2, <1>3, <1>4, ElementsTail DEF Next1

LEMMA OfferType ==
  ASSUME TypeOK, NEW n \in Nodes, NEW t \in Topics, NEW e \in Envelopes,
         inbox' = [inbox EXCEPT ![n][t] = Append(@, e)]
  PROVE  /\ inbox' \in [Nodes -> [Topics -> Seq(Envelopes)]]
         /\ inbox'[n][t] = Append(inbox[n][t], e)
         /\ \A m \in Nodes, u \in Topics : ~(m = n /\ u = t) => inbox'[m][u] = inbox[m][u]
BY DEF TypeOK

\* An outstanding call changes only its phase.
LEMMA PhaseType ==
  ASSUME TypeOK, NEW n \in Nodes, NEW t \in Topics, NEW p \in Phases,
         call[n][t].phase \in Phases,
         call' = [call EXCEPT ![n][t].phase = p]
  PROVE  /\ call' \in [Nodes -> [Topics -> Calls]]
         /\ call'[n][t] = [env |-> call[n][t].env, phase |-> p]
         /\ call[n][t].env \in Envelopes
         /\ \A m \in Nodes, u \in Topics : ~(m = n /\ u = t) => call'[m][u] = call[m][u]
<1>1. call[n][t] \in [env : Envelopes, phase : Phases]
  BY DEF TypeOK, Calls, Phases, IdleCall
<1>2. [call[n][t] EXCEPT !.phase = p] = [env |-> call[n][t].env, phase |-> p]
  BY <1>1
<1>3. call' = [call EXCEPT ![n] = [call[n] EXCEPT ![t] = [env |-> call[n][t].env, phase |-> p]]]
  BY <1>2
<1>4. [env |-> call[n][t].env, phase |-> p] \in Calls
  BY <1>1 DEF Calls
<1> QED
  BY <1>1, <1>3, <1>4 DEF TypeOK

LEMMA TypeInit == Init => TypeOK
BY NumbersAssumption DEF Init, TypeOK, Calls, Topics, Never

LEMMA TypeStep == TypeOK /\ [Next]_vars => TypeOK'
<1> SUFFICES ASSUME TypeOK, [Next]_vars
             PROVE  TypeOK'
  OBVIOUS
<1> USE TopicAssumption
<1>1. ASSUME NEW n \in Nodes, NEW e \in Envelopes, Ingest(n, e)
      PROVE  TypeOK'
  <2>1. TopicOf[e] \in Topics
    OBVIOUS
  <2>2. inbox' \in [Nodes -> [Topics -> Seq(Envelopes)]] /\ lost' \in SUBSET Envelopes
    <3>1. CASE HasRoom(n, TopicOf[e])
      BY <1>1, <2>1, <3>1, OfferType DEF TypeOK, Ingest
    <3>2. CASE ~HasRoom(n, TopicOf[e])
      BY <1>1, <3>2 DEF TypeOK, Ingest
    <3> QED
      BY <3>1, <3>2
  <2>4. origin' \in [Envelopes -> Nodes \cup {NoNode}] /\ mesh' \in SUBSET Envelopes
    BY <1>1 DEF TypeOK, Ingest
  <2>5. UNCHANGED <<now, crashes, up, call, seen, lastPost, attempted>>
    BY <1>1 DEF Ingest
  <2> QED
    BY <2>2, <2>4, <2>5 DEF TypeOK
<1>2. ASSUME NEW n \in Nodes, NEW e \in Envelopes, Deliver(n, e)
      PROVE  TypeOK'
  <2>1. inbox' \in [Nodes -> [Topics -> Seq(Envelopes)]]
    BY <1>2 DEF TypeOK, Deliver
  <2> QED
    BY <1>2, <2>1 DEF TypeOK, Deliver, netVars, histVars
<1>3. ASSUME NEW n \in Nodes, NEW t \in Topics, SkipDuplicate(n, t)
      PROVE  TypeOK'
  BY <1>3, TakenFacts DEF TypeOK, SkipDuplicate, netVars, histVars
<1>4. ASSUME NEW n \in Nodes, NEW t \in Topics, SkipForeign(n, t)
      PROVE  TypeOK'
  BY <1>4, TakenFacts DEF TypeOK, SkipForeign, MarkSeen, netVars, histVars
<1>5. ASSUME NEW n \in Nodes, NEW t \in Topics, StartForward(n, t)
      PROVE  TypeOK'
  <2>1. Next1(n, t) \in Envelopes /\ inbox' \in [Nodes -> [Topics -> Seq(Envelopes)]]
    BY <1>5, TakenFacts DEF StartForward
  <2>2. call' \in [Nodes -> [Topics -> Calls]]
    BY <1>5, <2>1 DEF TypeOK, StartForward, Calls, Phases
  <2> QED
    BY <1>5, <2>1, <2>2 DEF TypeOK, StartForward, MarkSeen, netVars
<1>6. ASSUME NEW n \in Nodes, NEW t \in Topics, ForwardDone(n, t)
      PROVE  TypeOK'
  BY <1>6 DEF TypeOK, ForwardDone, Hangup, Calls, netVars
<1>7. ASSUME NEW n \in Nodes, NEW t \in Topics, ForwardTimeout(n, t)
      PROVE  TypeOK'
  BY <1>7 DEF TypeOK, ForwardTimeout, Hangup, Calls, netVars, histVars
<1>8. ASSUME NEW n \in Nodes, NEW t \in Topics, Serve(n, t)
      PROVE  TypeOK'
  <2>1. call' \in [Nodes -> [Topics -> Calls]]
    BY <1>8, PhaseType DEF Serve, Phases
  <2> QED
    BY <1>8, <2>1 DEF TypeOK, Serve, netVars, histVars
<1>9. ASSUME NEW n \in Nodes, NEW t \in Topics, NEW r \in {"ok", "error"}, Reply(n, t, r)
      PROVE  TypeOK'
  <2>1. call' \in [Nodes -> [Topics -> Calls]]
    BY <1>9, PhaseType DEF Reply, Phases
  <2> QED
    BY <1>9, <2>1 DEF TypeOK, Reply, netVars, histVars
<1>10. ASSUME NEW n \in Nodes, Cleanup(n)
       PROVE  TypeOK'
  BY <1>10 DEF TypeOK, Cleanup, netVars, histVars
<1>11. CASE Tick
  BY <1>11 DEF TypeOK, Tick, nodeVars, netVars, histVars
<1>12. ASSUME NEW n \in Nodes, Crash(n)
       PROVE  TypeOK'
  <2>1. lost' \in SUBSET Envelopes
    BY <1>12 DEF TypeOK, Crash, Waiting
  <2> QED
    BY <1>12, <2>1 DEF TypeOK, Crash, Calls, netVars
<1>13. ASSUME NEW n \in Nodes, Restart(n)
       PROVE  TypeOK'
  BY <1>13 DEF TypeOK, Restart, netVars, histVars
<1>14. CASE UNCHANGED vars
  BY <1>14 DEF TypeOK, vars, nodeVars, netVars, histVars
<1> QED
  BY <1>1, <1>2, <1>3, <1>4, <1>5, <1>6, <1>7, <1>8, <1>9, <1>10, <1>11,
     <1>12, <1>13, <1>14 DEF Next, NodeNext, Receive, ForwardReturns

\* Every reachable state of the mesh is well typed.
THEOREM TypeCorrect == Spec => []TypeOK
<1>1. Init => TypeOK
  BY TypeInit
<1>2. TypeOK /\ [Next]_vars => TypeOK'
  BY TypeStep
<1> QED
  BY <1>1, <1>2, PTL DEF Spec

-----------------------------------------------------------------------------
(***************************************************************************)
(* The inductive invariant.  A step that only moves a call disturbs one    *)
(* conjunct; a step that takes a message off a buffer disturbs three.      *)
(***************************************************************************)

LEMMA IndInvInit == Init => IndInv
<1> SUFFICES ASSUME Init PROVE IndInv
  OBVIOUS
<1>1. TypeOK
  BY TypeInit
<1>2. OnlyOriginForwards
  BY DEF Init, OnlyOriginForwards
<1>3. NothingBeforeIngest
  BY DEF Init, NothingBeforeIngest, Elements
<1>4. Remembered /\ DedupWindow
  BY DEF Init, Remembered, DedupWindow, Never
<1>5. MarkedIsAttempted /\ NoSilentSkip
  BY NamesAssumption DEF Init, MarkedIsAttempted, NoSilentSkip
<1> QED
  BY <1>1, <1>2, <1>3, <1>4, <1>5 DEF IndInv

\* A step that changes nothing but one goroutine's call, and leaves it idle or
\* on the same envelope, keeps every conjunct.
LEMMA CallStep ==
  ASSUME IndInv, TypeOK', NEW n \in Nodes, NEW t \in Topics,
         UNCHANGED <<now, origin, mesh, inbox, seen, lastPost, attempted, lost>>,
         \A m \in Nodes, u \in Topics : ~(m = n /\ u = t) => call'[m][u] = call[m][u],
         \/ call'[n][t] = IdleCall
         \/ call[n][t] # IdleCall /\ call'[n][t].env = call[n][t].env
  PROVE  IndInv'
<1>1. OnlyOriginForwards'
  BY DEF IndInv, OnlyOriginForwards
<1>2. (NothingBeforeIngest /\ Remembered /\ DedupWindow /\ MarkedIsAttempted /\ NoSilentSkip)'
  BY DEF IndInv, NothingBeforeIngest, Remembered, DedupWindow, MarkedIsAttempted, NoSilentSkip
<1> QED
  BY <1>1, <1>2 DEF IndInv

\* A message is added to a buffer: by its origin, or by the mesh.
LEMMA OfferStep ==
  ASSUME IndInv, TypeOK', NEW n \in Nodes, NEW e \in Envelopes, e \in mesh,
         inbox' = [inbox EXCEPT ![n][TopicOf[e]] = Append(@, e)],
         UNCHANGED <<now, origin, mesh, call, seen, lastPost, attempted, lost>>
  PROVE  IndInv'
<1> DEFINE t == TopicOf[e]
<1>1. t \in Topics
  BY TopicAssumption
<1>2. /\ inbox'[n][t] = Append(inbox[n][t], e)
      /\ \A m \in Nodes, u \in Topics : ~(m = n /\ u = t) => inbox'[m][u] = inbox[m][u]
  BY <1>1, OfferType DEF IndInv
<1>3. Elements(inbox'[n][t]) = Elements(inbox[n][t]) \cup {e}
  BY <1>1, <1>2, ElementsAppend DEF IndInv, TypeOK
<1>4. NothingBeforeIngest'
  BY <1>2, <1>3 DEF IndInv, NothingBeforeIngest
<1>5. \A m \in Nodes, u \in Topics : Elements(inbox[m][u]) \subseteq Elements(inbox'[m][u])
  BY <1>2, <1>3
<1>6. NoSilentSkip'
  <2> SUFFICES ASSUME NEW d \in Envelopes, origin[d] # NoNode
               PROVE  d \in attempted \cup lost \cup Elements(inbox'[origin[d]][TopicOf[d]])
    BY DEF NoSilentSkip
  <2>1. origin[d] \in Nodes /\ TopicOf[d] \in Topics
    BY TopicAssumption DEF IndInv, TypeOK
  <2> QED
    BY <1>5, <2>1 DEF IndInv, NoSilentSkip
<1>7. (OnlyOriginForwards /\ Remembered /\ DedupWindow /\ MarkedIsAttempted)'
  BY DEF IndInv, OnlyOriginForwards, Remembered, DedupWindow, MarkedIsAttempted
<1> QED
  BY <1>4, <1>6, <1>7 DEF IndInv

LEMMA IngestStep ==
  ASSUME IndInv, TypeOK', NEW n \in Nodes, NEW e \in Envelopes, Ingest(n, e)
  PROVE  IndInv'
<1> DEFINE t == TopicOf[e]
<1>1. t \in Topics /\ n # NoNode
  BY TopicAssumption, NamesAssumption
<1>2. /\ origin[e] = NoNode /\ origin'[e] = n
      /\ \A d \in Envelopes : d # e => origin'[d] = origin[d]
      /\ mesh' = mesh \cup {e}
      /\ UNCHANGED <<now, call, seen, lastPost, attempted>>
  BY DEF Ingest, IndInv, TypeOK
<1>3. /\ e \in lost' \cup Elements(inbox'[n][t])
      /\ lost \subseteq lost'
      /\ \A m \in Nodes, u \in Topics :
           /\ Elements(inbox[m][u]) \subseteq Elements(inbox'[m][u])
           /\ Elements(inbox'[m][u]) \subseteq Elements(inbox[m][u]) \cup {e}
  <2>1. CASE HasRoom(n, t)
    <3>1. inbox' = [inbox EXCEPT ![n][t] = Append(@, e)] /\ lost' = lost
      BY <2>1 DEF Ingest
    <3>2. /\ inbox'[n][t] = Append(inbox[n][t], e)
          /\ \A m \in Nodes, u \in Topics : ~(m = n /\ u = t) => inbox'[m][u] = inbox[m][u]
      BY <1>1, <3>1, OfferType DEF IndInv
    <3>3. inbox[n][t] \in Seq(Envelopes)
      BY <1>1 DEF IndInv, TypeOK
    <3>4. Elements(inbox'[n][t]) = Elements(inbox[n][t]) \cup {e}
      BY <3>2, <3>3, ElementsAppend
    <3> QED
      BY <3>1, <3>2, <3>4
  <2>2. CASE ~HasRoom(n, t)
    <3>1. lost' = lost \cup {e} /\ inbox' = inbox
      BY <2>2 DEF Ingest
    <3> QED
      BY <3>1
  <2> QED
    BY <2>1, <2>2
<1>4. OnlyOriginForwards'
  <2> SUFFICES ASSUME NEW m \in Nodes, NEW u \in Topics, call[m][u] # IdleCall
               PROVE  origin'[call[m][u].env] = m
    BY <1>2 DEF OnlyOriginForwards
  <2>1. call[m][u].env \in Envelopes /\ origin[call[m][u].env] = m
    BY DEF IndInv, OnlyOriginForwards, TypeOK, Calls
  <2> QED
    BY <1>2, <2>1, NamesAssumption
<1>5. NothingBeforeIngest'
  <2> SUFFICES ASSUME NEW d \in Envelopes, origin'[d] = NoNode
               PROVE  /\ d \notin mesh'
                      /\ \A m \in Nodes : seen'[m][d] = Never
                      /\ \A m \in Nodes, u \in Topics : d \notin Elements(inbox'[m][u])
    BY DEF NothingBeforeIngest
  <2>1. d # e /\ origin[d] = NoNode
    BY <1>1, <1>2
  <2> QED
    BY <1>2, <1>3, <2>1 DEF IndInv, NothingBeforeIngest
<1>6. (Remembered /\ DedupWindow)'
  BY <1>2 DEF IndInv, Remembered, DedupWindow
<1>7. MarkedIsAttempted'
  BY <1>2 DEF IndInv, MarkedIsAttempted, NothingBeforeIngest
<1>8. NoSilentSkip'
  <2> SUFFICES ASSUME NEW d \in Envelopes, origin'[d] # NoNode
               PROVE  d \in attempted' \cup lost' \cup Elements(inbox'[origin'[d]][TopicOf[d]])
    BY DEF NoSilentSkip
  <2>1. CASE d = e
    BY <1>2, <1>3, <2>1
  <2>2. CASE d # e
    <3>1. origin'[d] = origin[d] /\ origin[d] \in Nodes /\ TopicOf[d] \in Topics
      BY <1>2, <2>2, TopicAssumption DEF IndInv, TypeOK
    <3> QED
      BY <1>2, <1>3, <3>1 DEF IndInv, NoSilentSkip
  <2> QED
    BY <2>1, <2>2
<1> QED
  BY <1>4, <1>5, <1>6, <1>7, <1>8 DEF IndInv

\* A goroutine takes the head e of a buffer and, unless it is the POSTing
\* origin, leaves `attempted' alone: e is then a duplicate or foreign.
LEMMA SkipStep ==
  ASSUME IndInv, TypeOK', NEW n \in Nodes, NEW t \in Topics,
         SkipDuplicate(n, t) \/ SkipForeign(n, t)
  PROVE  IndInv'
<1> DEFINE e == Next1(n, t)
<1>1. Taken(n, t) /\ UNCHANGED <<now, origin, mesh, call, lastPost, attempted, lost>>
  BY DEF SkipDuplicate, SkipForeign, netVars, histVars
<1>2. /\ e \in Envelopes /\ e \in Elements(inbox[n][t])
      /\ \A m \in Nodes, u \in Topics :
           /\ Elements(inbox[m][u]) \subseteq
                Elements(inbox'[m][u]) \cup (IF m = n THEN {e} ELSE {})
           /\ Elements(inbox'[m][u]) \subseteq Elements(inbox[m][u])
  BY <1>1, TakenFacts DEF IndInv
<1>3. origin[e] # NoNode
  BY <1>2 DEF IndInv, NothingBeforeIngest
<1>4. \/ seen' = seen /\ seen[n][e] # Never
      \/ seen' = [seen EXCEPT ![n][e] = now] /\ origin[e] # n
  BY DEF IsOrigin, SkipDuplicate, SkipForeign, MarkSeen
<1>5. OnlyOriginForwards'
  BY <1>1 DEF IndInv, OnlyOriginForwards
<1>6. \A m \in Nodes, d \in Envelopes :
        \/ seen'[m][d] = seen[m][d]
        \/ m = n /\ d = e /\ seen'[m][d] = now /\ origin[e] # n
  <2>1. CASE seen' = seen
    BY <2>1
  <2>2. CASE seen' = [seen EXCEPT ![n][e] = now] /\ origin[e] # n
    BY <1>2, <2>2 DEF IndInv, TypeOK
  <2> QED
    BY <1>4, <2>1, <2>2
<1>7. NothingBeforeIngest'
  BY <1>1, <1>2, <1>3, <1>6 DEF IndInv, NothingBeforeIngest
<1>8. (Remembered /\ DedupWindow)'
  <2>1. now \in Nat
    BY DEF IndInv, TypeOK
  <2> QED
    BY <1>1, <1>6, <2>1 DEF IndInv, Remembered, DedupWindow, Never
<1>9. MarkedIsAttempted'
  BY <1>1, <1>6 DEF IndInv, MarkedIsAttempted
<1>10. NoSilentSkip'
  <2> SUFFICES ASSUME NEW d \in Envelopes, origin[d] # NoNode
               PROVE  d \in attempted \cup lost \cup Elements(inbox'[origin[d]][TopicOf[d]])
    BY <1>1 DEF NoSilentSkip
  <2>1. origin[d] \in Nodes /\ TopicOf[d] \in Topics
    BY TopicAssumption DEF IndInv, TypeOK
  <2>2. d \in attempted \cup lost \cup Elements(inbox[origin[d]][TopicOf[d]])
    BY DEF IndInv, NoSilentSkip
  <2>3. CASE d = e /\ origin[e] = n
    BY <1>4, <2>3, <1>2 DEF IndInv, MarkedIsAttempted
  <2>4. CASE ~(d = e /\ origin[e] = n)
    BY <1>2, <2>1, <2>2, <2>4
  <2> QED
    BY <2>3, <2>4
<1> QED
  BY <1>5, <1>7, <1>8, <1>9, <1>10 DEF IndInv

LEMMA StartForwardStep ==
  ASSUME IndInv, TypeOK', NEW n \in Nodes, NEW t \in Topics, StartForward(n, t)
  PROVE  IndInv'
<1> DEFINE e == Next1(n, t)
<1>1. Taken(n, t) /\ UNCHANGED <<now, origin, mesh, lost>>
  BY DEF StartForward, netVars
<1>2. /\ e \in Envelopes /\ e \in Elements(inbox[n][t])
      /\ \A m \in Nodes, u \in Topics :
           /\ Elements(inbox[m][u]) \subseteq
                Elements(inbox'[m][u]) \cup (IF m = n THEN {e} ELSE {})
           /\ Elements(inbox'[m][u]) \subseteq Elements(inbox[m][u])
  BY <1>1, TakenFacts DEF IndInv
<1>3. origin[e] = n /\ n # NoNode
  BY NamesAssumption DEF StartForward, IsOrigin
<1>4. \A m \in Nodes, d \in Envelopes :
        IF m = n /\ d = e THEN seen'[m][d] = now /\ lastPost'[m][d] = now
                          ELSE seen'[m][d] = seen[m][d] /\ lastPost'[m][d] = lastPost[m][d]
  BY <1>2 DEF StartForward, MarkSeen, IndInv, TypeOK
<1>5. attempted' = attempted \cup {e}
  BY DEF StartForward
<1>6. OnlyOriginForwards'
  <2>1. call'[n][t].env = e
    BY DEF StartForward, IndInv, TypeOK
  <2>2. \A m \in Nodes, u \in Topics : ~(m = n /\ u = t) => call'[m][u] = call[m][u]
    BY DEF StartForward, IndInv, TypeOK
  <2> QED
    BY <1>1, <1>3, <2>1, <2>2 DEF IndInv, OnlyOriginForwards
<1>7. NothingBeforeIngest'
  BY <1>1, <1>2, <1>3, <1>4 DEF IndInv, NothingBeforeIngest
<1>8. (Remembered /\ DedupWindow)'
  <2>1. now \in Nat
    BY DEF IndInv, TypeOK
  <2> QED
    BY <1>1, <1>4, <2>1 DEF IndInv, Remembered, DedupWindow, Never
<1>9. MarkedIsAttempted'
  BY <1>1, <1>4, <1>5 DEF IndInv, MarkedIsAttempted
<1>10. NoSilentSkip'
  <2> SUFFICES ASSUME NEW d \in Envelopes, origin[d] # NoNode
               PROVE  d \in attempted' \cup lost \cup Elements(inbox'[origin[d]][TopicOf[d]])
    BY <1>1 DEF NoSilentSkip
  <2>1. origin[d] \in Nodes /\ TopicOf[d] \in Topics
    BY TopicAssumption DEF IndInv, TypeOK
  <2> QED
    BY <1>2, <1>5, <2>1 DEF IndInv, NoSilentSkip
<1> QED
  BY <1>6, <1>7, <1>8, <1>9, <1>10 DEF IndInv

\* cleanupLoop forgets only what is older than the window.
LEMMA CleanupStep ==
  ASSUME IndInv, TypeOK', NEW n \in Nodes, Cleanup(n)
  PROVE  IndInv'
<1>1. UNCHANGED <<now, origin, mesh, inbox, call, lastPost, attempted, lost>>
  BY DEF Cleanup, netVars, histVars
<1>2. \A m \in Nodes, d \in Envelopes :
        \/ seen'[m][d] = seen[m][d]
        \/ seen'[m][d] = Never /\ seen[m][d] # Never /\ seen[m][d] < now - RedispatchTimeout
  BY DEF Cleanup, Expired, IndInv, TypeOK
<1>3. (NothingBeforeIngest /\ MarkedIsAttempted)'
  BY <1>1, <1>2 DEF IndInv, NothingBeforeIngest, MarkedIsAttempted
<1>4. now \in Nat /\ RedispatchTimeout \in Nat
  BY NumbersAssumption DEF IndInv, TypeOK
<1>5. Remembered'
  BY <1>1, <1>2, <1>4 DEF IndInv, Remembered, Never
<1>6. DedupWindow'
  <2> SUFFICES ASSUME NEW m \in Nodes, NEW d \in Envelopes,
                      lastPost[m][d] # Never, now - lastPost[m][d] <= RedispatchTimeout
               PROVE  seen'[m][d] # Never
    BY <1>1 DEF DedupWindow
  <2>1. seen[m][d] # Never /\ lastPost[m][d] <= seen[m][d]
    BY DEF IndInv, DedupWindow, Remembered
  <2>2. lastPost[m][d] \in Nat /\ seen[m][d] \in Nat
    BY <2>1 DEF IndInv, TypeOK
  <2> QED
    BY <1>2, <1>4, <2>1, <2>2
<1>7. (OnlyOriginForwards /\ NoSilentSkip)'
  BY <1>1 DEF IndInv, OnlyOriginForwards, NoSilentSkip
<1> QED
  BY <1>3, <1>5, <1>6, <1>7 DEF IndInv

LEMMA TickStep ==
  ASSUME IndInv, TypeOK', Tick
  PROVE  IndInv'
<1>1. now \in Nat /\ RedispatchTimeout \in Nat /\ now' = now + 1
  BY NumbersAssumption DEF IndInv, TypeOK, Tick
<1>2. UNCHANGED <<origin, mesh, inbox, call, seen, lastPost, attempted, lost>>
  BY DEF Tick, nodeVars, netVars, histVars
<1>3. \A m \in Nodes, d \in Envelopes :
        seen[m][d] \in Nat \cup {Never} /\ lastPost[m][d] \in Nat \cup {Never}
  BY DEF IndInv, TypeOK
<1>4. (Remembered /\ DedupWindow)'
  BY <1>1, <1>2, <1>3 DEF IndInv, Remembered, DedupWindow, Never
<1>5. (OnlyOriginForwards /\ NothingBeforeIngest /\ MarkedIsAttempted /\ NoSilentSkip)'
  BY <1>2 DEF IndInv, OnlyOriginForwards, NothingBeforeIngest, MarkedIsAttempted, NoSilentSkip
<1> QED
  BY <1>4, <1>5 DEF IndInv

\* A crash empties one node's memory; what it had accepted and not yet POSTed
\* becomes lost.
LEMMA CrashStep ==
  ASSUME IndInv, TypeOK', NEW n \in Nodes, Crash(n)
  PROVE  IndInv'
<1>1. UNCHANGED <<now, origin, mesh, attempted>> /\ lost' = lost \cup (Waiting(n) \ attempted)
  BY DEF Crash, netVars
<1>2. \A m \in Nodes, d \in Envelopes :
        IF m = n THEN seen'[m][d] = Never /\ lastPost'[m][d] = Never
                 ELSE seen'[m][d] = seen[m][d] /\ lastPost'[m][d] = lastPost[m][d]
  BY DEF Crash, IndInv, TypeOK
<1>3. \A m \in Nodes, u \in Topics :
        IF m = n THEN inbox'[m][u] = <<>> /\ call'[m][u] = IdleCall
                 ELSE inbox'[m][u] = inbox[m][u] /\ call'[m][u] = call[m][u]
  BY DEF Crash, IndInv, TypeOK
<1>4. Elements(<<>>) = {}
  BY DEF Elements
<1>5. OnlyOriginForwards'
  BY <1>1, <1>3 DEF IndInv, OnlyOriginForwards
<1>6. NothingBeforeIngest'
  BY <1>1, <1>2, <1>3, <1>4 DEF IndInv, NothingBeforeIngest
<1>7. (Remembered /\ DedupWindow /\ MarkedIsAttempted)'
  <2>1. now \in Nat
    BY DEF IndInv, TypeOK
  <2> QED
    BY <1>1, <1>2, <2>1 DEF IndInv, Remembered, DedupWindow, MarkedIsAttempted, Never
<1>8. NoSilentSkip'
  <2> SUFFICES ASSUME NEW d \in Envelopes, origin[d] # NoNode
               PROVE  d \in attempted \cup lost' \cup Elements(inbox'[origin[d]][TopicOf[d]])
    BY <1>1 DEF NoSilentSkip
  <2>1. origin[d] \in Nodes /\ TopicOf[d] \in Topics
    BY TopicAssumption DEF IndInv, TypeOK
  <2>2. d \in attempted \cup lost \cup Elements(inbox[origin[d]][TopicOf[d]])
    BY DEF IndInv, NoSilentSkip
  <2>3. CASE origin[d] = n
    BY <1>1, <2>2, <2>3 DEF Waiting
  <2>4. CASE origin[d] # n
    BY <1>1, <1>3, <2>1, <2>2, <2>4
  <2> QED
    BY <2>3, <2>4
<1> QED
  BY <1>5, <1>6, <1>7, <1>8 DEF IndInv

LEMMA IndInvStep == IndInv /\ [Next]_vars => IndInv'
<1> SUFFICES ASSUME IndInv, [Next]_vars
             PROVE  IndInv'
  OBVIOUS
<1>0. TypeOK /\ TypeOK'
  BY TypeStep DEF IndInv
<1>1. ASSUME NEW n \in Nodes, NEW e \in Envelopes, Ingest(n, e)
      PROVE  IndInv'
  BY <1>0, <1>1, IngestStep
<1>2. ASSUME NEW n \in Nodes, NEW e \in Envelopes, Deliver(n, e)
      PROVE  IndInv'
  BY <1>0, <1>2, OfferStep DEF Deliver, netVars, histVars
<1>3. ASSUME NEW n \in Nodes, NEW t \in Topics, Receive(n, t)
      PROVE  IndInv'
  BY <1>0, <1>3, SkipStep, StartForwardStep DEF Receive
<1>4. ASSUME NEW n \in Nodes, NEW t \in Topics, ForwardReturns(n, t)
      PROVE  IndInv'
  <2>1. /\ UNCHANGED <<now, origin, mesh, inbox, seen, lastPost, attempted, lost>>
        /\ call' = [call EXCEPT ![n][t] = IdleCall]
    BY <1>4 DEF ForwardReturns, ForwardDone, ForwardTimeout, Hangup, netVars, histVars
  <2>2. /\ call'[n][t] = IdleCall
        /\ \A m \in Nodes, u \in Topics : ~(m = n /\ u = t) => call'[m][u] = call[m][u]
    BY <1>0, <2>1 DEF TypeOK
  <2> QED
    BY <1>0, <2>1, <2>2, CallStep
<1>5. ASSUME NEW n \in Nodes, NEW t \in Topics, NEW p \in Phases,
             UNCHANGED <<now, origin, mesh, inbox, seen, lastPost, attempted, lost>>,
             call[n][t].phase \in Phases, call' = [call EXCEPT ![n][t].phase = p]
      PROVE  IndInv'
  <2>1. call[n][t] # IdleCall
    BY <1>5 DEF IdleCall, Phases
  <2>2. /\ call'[n][t].env = call[n][t].env
        /\ \A m \in Nodes, u \in Topics : ~(m = n /\ u = t) => call'[m][u] = call[m][u]
    BY <1>0, <1>5, PhaseType
  <2> QED
    BY <1>0, <1>5, <2>1, <2>2, CallStep
<1>6. ASSUME NEW n \in Nodes, NEW t \in Topics, Serve(n, t)
      PROVE  IndInv'
  BY <1>5, <1>6 DEF Serve, Phases, netVars, histVars
<1>7. ASSUME NEW n \in Nodes, NEW t \in Topics, NEW r \in {"ok", "error"}, Reply(n, t, r)
      PROVE  IndInv'
  BY <1>5, <1>7 DEF Reply, Phases, netVars, histVars
<1>8. ASSUME NEW n \in Nodes, Cleanup(n)
      PROVE  IndInv'
  BY <1>0, <1>8, CleanupStep
<1>9. CASE Tick
  BY <1>0, <1>9, TickStep
<1>10. ASSUME NEW n \in Nodes, Crash(n)
       PROVE  IndInv'
  BY <1>0, <1>10, CrashStep
<1>11. ASSUME UNCHANGED <<now, origin, mesh, inbox, call, seen, lastPost, attempted, lost>>
       PROVE  IndInv'
  BY <1>0, <1>11 DEF IndInv, OnlyOriginForwards, NothingBeforeIngest, Remembered,
     DedupWindow, MarkedIsAttempted, NoSilentSkip
<1>12. ASSUME NEW n \in Nodes, Restart(n)
       PROVE  IndInv'
  BY <1>11, <1>12 DEF Restart, netVars, histVars
<1>13. CASE UNCHANGED vars
  BY <1>11, <1>13 DEF vars, nodeVars, netVars, histVars
<1> QED
  BY <1>1, <1>2, <1>3, <1>4, <1>6, <1>7, <1>8, <1>9, <1>10, <1>12, <1>13
     DEF Next, NodeNext

THEOREM Invariance == Spec => []IndInv
<1> QED
  BY IndInvInit, IndInvStep, PTL DEF Spec

-----------------------------------------------------------------------------
(***************************************************************************)
(* The properties the runs check on small meshes.                          *)
(***************************************************************************)

\* Whatever the mesh duplicates or reorders, a node POSTs only envelopes its
\* own clients handed to it (subscriptionLoop).
THEOREM OriginForwards == Spec => []OnlyOriginForwards
<1>1. IndInv => OnlyOriginForwards
  BY DEF IndInv
<1> QED
  BY Invariance, <1>1, PTL

\* A running node remembers each envelope it POSTed for at least
\* RedispatchTimeout (markSeen and cleanupLoop).
THEOREM Window == Spec => []DedupWindow
<1>1. IndInv => DedupWindow
  BY DEF IndInv
<1> QED
  BY Invariance, <1>1, PTL

\* The only ways an accepted envelope can miss its POST are a full buffer and
\* a crash of its origin.
THEOREM NoneSkipped == Spec => []NoSilentSkip
<1>1. IndInv => NoSilentSkip
  BY DEF IndInv
<1> QED
  BY Invariance, <1>1, PTL

\* One process never starts two POSTs of an envelope within RedispatchTimeout.
THEOREM RedispatchSpaced == Spec => NoEarlyRedispatch
<1>1. IndInv /\ [Next]_vars =>
        [\A n \in Nodes, t \in Topics :
           (call[n][t] = IdleCall /\ call'[n][t] # IdleCall) =>
             LET e == call'[n][t].env IN
               lastPost[n][e] = Never \/ now - lastPost[n][e] > RedispatchTimeout]_vars
  <2> SUFFICES ASSUME IndInv, Next, NEW n \in Nodes, NEW t \in Topics,
                      call[n][t] = IdleCall, call'[n][t] # IdleCall
               PROVE  \/ lastPost[n][call'[n][t].env] = Never
                      \/ now - lastPost[n][call'[n][t].env] > RedispatchTimeout
    BY DEF vars
  <2>1. TypeOK /\ DedupWindow
    BY DEF IndInv
  <2>2. StartForward(n, t)
    <3>1. ASSUME UNCHANGED call PROVE FALSE
      BY <3>1
    <3>2. ASSUME NEW m \in Nodes, NEW u \in Topics, StartForward(m, u)
          PROVE  m = n /\ u = t
      BY <2>1, <3>2 DEF TypeOK, StartForward
    <3>3. ASSUME NEW m \in Nodes, NEW u \in Topics, ForwardReturns(m, u)
          PROVE  FALSE
      <4>1. call' = [call EXCEPT ![m][u] = IdleCall]
        BY <3>3 DEF ForwardReturns, ForwardDone, ForwardTimeout, Hangup
      <4> QED
        BY <2>1, <4>1 DEF TypeOK
    <3>8. ASSUME NEW m \in Nodes, Crash(m)
          PROVE  FALSE
      <4>1. call' = [call EXCEPT ![m] = [v \in Topics |-> IdleCall]]
        BY <3>8 DEF Crash
      <4> QED
        BY <2>1, <4>1 DEF TypeOK
    <3>4. ASSUME NEW m \in Nodes, NEW u \in Topics, NEW p \in Phases,
                 call[m][u].phase \in Phases, call' = [call EXCEPT ![m][u].phase = p]
          PROVE  FALSE
      <4>1. ~(m = n /\ u = t)
        BY <3>4 DEF IdleCall, Phases
      <4> QED
        BY <2>1, <3>4, <4>1, PhaseType
    <3>5. ASSUME NEW m \in Nodes, NEW u \in Topics, NEW r \in {"ok", "error"},
                 Serve(m, u) \/ Reply(m, u, r)
          PROVE  FALSE
      BY <3>4, <3>5 DEF Serve, Reply, Phases
    <3>6. CASE Tick
      BY <3>1, <3>6 DEF Tick, nodeVars
    <3>7. ASSUME NEW m \in Nodes,
                 \/ \E e \in Envelopes : Ingest(m, e) \/ Deliver(m, e)
                 \/ Cleanup(m) \/ Restart(m)
                 \/ \E u \in Topics : SkipDuplicate(m, u) \/ SkipForeign(m, u)
          PROVE  FALSE
      BY <3>1, <3>7 DEF Ingest, Deliver, Cleanup, Restart, SkipDuplicate, SkipForeign
    <3> QED
      BY <3>2, <3>3, <3>5, <3>6, <3>7, <3>8 DEF Next, NodeNext, Receive
  <2>3. /\ call'[n][t].env = Next1(n, t)
        /\ seen[n][Next1(n, t)] = Never
        /\ Next1(n, t) \in Envelopes
    BY <2>1, <2>2, TakenFacts DEF StartForward, MarkSeen, TypeOK
  <2>4. now \in Nat /\ RedispatchTimeout \in Nat
        /\ lastPost[n][Next1(n, t)] \in Nat \cup {Never}
    BY <2>1, <2>3, NumbersAssumption DEF TypeOK
  <2> QED
    BY <2>1, <2>3, <2>4 DEF DedupWindow, Never
<1> QED
  BY Invariance, <1>1, PTL DEF Spec, NoEarlyRedispatch

=============================================================================
