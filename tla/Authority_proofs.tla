-------------------------- MODULE Authority_proofs --------------------------
(***************************************************************************)
(* Proofs, for any number of handlers, connections and submissions, of the *)
(* safety properties of Authority.                                         *)
(***************************************************************************)
EXTENDS Authority, TLAPS

(***************************************************************************)
(* Confidences.                                                            *)
(***************************************************************************)

\* clampAdjustment: at most 0.2 either way.
LEMMA AdjustmentRange ==
  ASSUME NEW a \in Int
  PROVE  ClampAdjustment(a) \in -200 .. 200
BY DEF Clamp, ClampAdjustment

\* What a submission claims, and who may have made it.
LEMMA BodyFacts ==
  ASSUME NEW b \in Bodies
  PROVE  /\ Claimed(Body[b]) \in Int
         /\ Body[b].envelope \in Envelopes \cup {NoEnvelope}
         /\ Body[b].caller \in Callers
         /\ Body[b].keyOrg \in Orgs
BY BodyAssumption DEF Submission, Claimed

\* An organisation an event is filed under is one, whoever the caller.
LEMMA OrgsOfFacts ==
  ASSUME NEW b \in Bodies, Body[b].caller # "none", NEW org \in OrgsOf(Body[b])
  PROVE  org \in Orgs /\ org \in {Body[b].caller, Body[b].keyOrg, "system"}
BY BodyFacts, OrgAssumption DEF OrgsOf, Callers

-----------------------------------------------------------------------------
(***************************************************************************)
(* Type correctness.  Two actions need more than types: a caller of      *)
(* "none" is never resolved, and what is framed was stored.               *)
(***************************************************************************)

LEMMA TypeInit == Init => TypeOK
<1> SUFFICES ASSUME Init PROVE TypeOK
  OBVIOUS
<1>1. (CHOOSE b \in Bodies : TRUE) \in Bodies
  BY BodyAssumption
<1>2. body \in [Handlers -> Bodies]
  BY <1>1 DEF Init
<1>3. ev \in [Handlers -> [id : Ids \cup {NoEnvelope}, org : Orgs, conf : Int]]
  BY OrgAssumption DEF Init, InitMemory, BlankEvent
<1> QED
  BY <1>2, <1>3, BoundsAssumption DEF Init, InitMemory, TypeOK, Steps

LEMMA TypeStep ==
  ASSUME TypeOK, StoredFirst, BuiltAsClaimed, [Next]_vars
  PROVE  TypeOK'
<1> USE DEF storeVars, wsVars, bounds, Goto, Steps
<1>1. ASSUME NEW h \in Handlers, NEW b \in Bodies, Begin(h, b)
      PROVE  TypeOK'
  <2>1. [id |-> Body[b].envelope, org |-> "system", conf |-> Claimed(Body[b])]
          \in [id : Ids \cup {NoEnvelope}, org : Orgs, conf : Int]
    BY BodyFacts, OrgAssumption DEF Ids
  <2> QED
    BY <1>1, <2>1 DEF TypeOK, Begin
<1>2. ASSUME NEW h \in Handlers, ResolveOrg(h)
      PROVE  TypeOK'
  <2>1. body[h] \in Bodies /\ Body[body[h]].caller # "none"
    BY <1>2 DEF TypeOK, ResolveOrg, BuiltAsClaimed, Admitted
  <2>2. \A org \in OrgsOf(Body[body[h]]) : org \in Orgs
    BY <2>1, OrgsOfFacts
  <2> QED
    BY <1>2, <2>2 DEF TypeOK, ResolveOrg
<1>3. ASSUME NEW h \in Handlers, Classify(h)
      PROVE  TypeOK'
  <2>1. PICK a \in Adjustments \cup {0} :
          ev' = [ev EXCEPT ![h].conf = Clamp(0, 1000, ev[h].conf + ClampAdjustment(a))]
    BY <1>3 DEF Classify
  <2> DEFINE conf == Clamp(0, 1000, ev[h].conf + ClampAdjustment(a))
  <2>2. conf \in Int
    BY BoundsAssumption DEF TypeOK, Clamp, ClampAdjustment
  <2>3. ev' \in [Handlers -> [id : Ids \cup {NoEnvelope}, org : Orgs, conf : Int]]
    <3> HIDE DEF conf
    <3>1. ev' = [ev EXCEPT ![h].conf = conf]
      BY <2>1 DEF conf
    <3> QED
      BY <2>2, <3>1 DEF TypeOK
  <2> QED
    BY <1>3, <2>3 DEF TypeOK, Classify
<1>4. ASSUME NEW h \in Handlers, Store(h)
      PROVE  TypeOK'
  <2>1. PICK id \in Ids :
          /\ ev' = [ev EXCEPT ![h].id = id]
          /\ events' = Filed(id, [org |-> ev[h].org, conf |-> ev[h].conf])
    BY <1>4 DEF Store, TypeOK, Ids
  <2>2. [org |-> ev[h].org, conf |-> ev[h].conf] \in Event
    BY DEF TypeOK, Event
  <2>3. events' \in [Ids -> Event \cup {NoEvent}]
    BY <2>1, <2>2 DEF TypeOK, Filed
  <2>4. ev' \in [Handlers -> [id : Ids \cup {NoEnvelope}, org : Orgs, conf : Int]]
    BY <2>1 DEF TypeOK
  <2> QED
    BY <1>4, <2>3, <2>4 DEF TypeOK, Store
<1>5. ASSUME NEW h \in Handlers, LockClients(h)
      PROVE  TypeOK'
  BY <1>5 DEF TypeOK, LockClients, Registered
<1>6. ASSUME NEW h \in Handlers, UnlockClients(h)
      PROVE  TypeOK'
  BY <1>6 DEF TypeOK, UnlockClients
<1>7. ASSUME NEW h \in Handlers, NEW c \in Conns, WriteFrame(h, c)
      PROVE  TypeOK'
  <2>1. ev[h].id \in Ids
    BY <1>7 DEF WriteFrame, StoredFirst
  <2>2. got' \in [Conns -> SUBSET Ids]
    BY <1>7, <2>1 DEF TypeOK, WriteFrame
  <2> QED
    BY <1>7, <2>2 DEF TypeOK, WriteFrame
<1>8. ASSUME NEW h \in Handlers, NEW c \in Conns, DropClient(h, c)
      PROVE  TypeOK'
  BY <1>8 DEF TypeOK, DropClient
<1>9. ASSUME NEW h \in Handlers, Answer(h)
      PROVE  TypeOK'
  <2>1. BlankEvent \in [id : Ids \cup {NoEnvelope}, org : Orgs, conf : Int]
    BY OrgAssumption DEF BlankEvent
  <2> QED
    BY <1>9, <2>1 DEF TypeOK, Answer
<1>10. ASSUME NEW c \in Conns, NEW org \in Orgs, Connect(c, org)
       PROVE  TypeOK'
  BY <1>10 DEF TypeOK, Connect
<1>11. ASSUME NEW c \in Conns, ReadFails(c) \/ PeerStalls(c) \/ PeerResumes(c) \/ PeerVanishes(c)
       PROVE  TypeOK'
  BY <1>11 DEF TypeOK, ReadFails, PeerStalls, PeerResumes, PeerVanishes, PeerMoves
<1>12. CASE Restart
  <2>1. BlankEvent \in [id : Ids \cup {NoEnvelope}, org : Orgs, conf : Int]
    BY OrgAssumption DEF BlankEvent
  <2> QED
    BY <1>12, <2>1 DEF TypeOK, Restart
<1>13. CASE UNCHANGED vars
  BY <1>13 DEF TypeOK, vars
<1>14. ASSUME NEW h \in Handlers, NEW c \in Conns, Visit(h, c)
       PROVE  TypeOK'
  BY <1>14 DEF TypeOK, Visit
<1> QED
  BY <1>1, <1>2, <1>3, <1>4, <1>5, <1>6, <1>7, <1>8, <1>9, <1>10, <1>11, <1>12, <1>13, <1>14
     DEF Next, Handle, Peers

-----------------------------------------------------------------------------
(***************************************************************************)
(* The lock: what each action does to the broadcast in progress.           *)
(***************************************************************************)

LEMMA LockInit == Init => LockInv
BY LockAssumption DEF Init, InitMemory, LockInv, BroadcastExclusive

LEMMA LockStep ==
  ASSUME TypeOK, LockInv, [Next]_vars
  PROVE  LockInv'
<1> USE LockAssumption DEF LockInv, BroadcastExclusive, Registered, storeVars, wsVars, bounds, Goto
<1>1. ASSUME NEW h \in Handlers, NEW b \in Bodies, Begin(h, b)
      PROVE  LockInv'
  BY <1>1 DEF TypeOK, Begin
<1>2. ASSUME NEW h \in Handlers, ResolveOrg(h)
      PROVE  LockInv'
  <2>1. \A k \in Handlers : k # h => ev'[k] = ev[k]
    BY <1>2 DEF TypeOK, ResolveOrg
  <2> QED
    BY <1>2, <2>1 DEF TypeOK, ResolveOrg
<1>3. ASSUME NEW h \in Handlers, Classify(h)
      PROVE  LockInv'
  <2>1. \A k \in Handlers : k # h => ev'[k] = ev[k]
    BY <1>3 DEF TypeOK, Classify
  <2> QED
    BY <1>3, <2>1 DEF TypeOK, Classify
<1>4. ASSUME NEW h \in Handlers, Store(h)
      PROVE  LockInv'
  <2>1. \A k \in Handlers : k # h => ev'[k] = ev[k]
    BY <1>4 DEF TypeOK, Store
  <2> QED
    BY <1>4, <2>1 DEF TypeOK, Store
<1>5. ASSUME NEW h \in Handlers, LockClients(h)
      PROVE  LockInv'
  BY <1>5 DEF TypeOK, LockClients, ClientsFree
<1>6. ASSUME NEW h \in Handlers, UnlockClients(h)
      PROVE  LockInv'
  BY <1>6 DEF TypeOK, UnlockClients
<1>7. ASSUME NEW h \in Handlers, NEW c \in Conns, WriteFrame(h, c)
      PROVE  LockInv'
  BY <1>7 DEF TypeOK, WriteFrame
<1>8. ASSUME NEW h \in Handlers, NEW c \in Conns, DropClient(h, c)
      PROVE  LockInv'
  BY <1>8 DEF TypeOK, DropClient
<1>9. ASSUME NEW h \in Handlers, Answer(h)
      PROVE  LockInv'
  BY <1>9 DEF TypeOK, Answer
<1>10. ASSUME NEW c \in Conns, NEW org \in Orgs, Connect(c, org)
       PROVE  LockInv'
  BY <1>10 DEF TypeOK, Connect, ClientsFree
<1>11. ASSUME NEW c \in Conns, ReadFails(c) \/ PeerStalls(c) \/ PeerResumes(c) \/ PeerVanishes(c)
       PROVE  LockInv'
  BY <1>11 DEF TypeOK, ReadFails, ClientsFree, PeerStalls, PeerResumes, PeerVanishes, PeerMoves
<1>12. CASE Restart
  BY <1>12 DEF TypeOK, Restart
<1>13. CASE UNCHANGED vars
  BY <1>13 DEF vars
<1>14. ASSUME NEW h \in Handlers, NEW c \in Conns, Visit(h, c)
       PROVE  LockInv'
  BY <1>14 DEF TypeOK, Visit
<1> QED
  BY <1>1, <1>2, <1>3, <1>4, <1>5, <1>6, <1>7, <1>8, <1>9, <1>10, <1>11, <1>12, <1>13, <1>14
     DEF Next, Handle, Peers

-----------------------------------------------------------------------------
(***************************************************************************)
(* The store comes before the frames.                                      *)
(***************************************************************************)

LEMMA StoreInit == Init => StoreInv
BY DEF Init, InitMemory, StoreInv, StoredFirst, FramesAreStored

\* Filing an event takes no other event away.
LEMMA FiledKeeps ==
  ASSUME TypeOK, NEW id \in Ids, NEW e \in Event, events' = Filed(id, e)
  PROVE  /\ events'[id] = e
         /\ e # NoEvent
         /\ \A i \in Ids : i # id => events'[i] = events[i]
         /\ \A i \in Ids : events[i] # NoEvent => events'[i] # NoEvent
BY IdAssumption DEF TypeOK, Filed, Event

LEMMA StoreStep ==
  ASSUME TypeOK, StoreInv, [Next]_vars
  PROVE  StoreInv'
<1> USE DEF StoreInv, StoredFirst, FramesAreStored, storeVars, wsVars, bounds, Goto
<1>1. ASSUME NEW h \in Handlers, NEW b \in Bodies, Begin(h, b)
      PROVE  StoreInv'
  BY <1>1 DEF TypeOK, Begin
<1>2. ASSUME NEW h \in Handlers, ResolveOrg(h)
      PROVE  StoreInv'
  <2>1. \A k \in Handlers : k # h => ev'[k] = ev[k]
    BY <1>2 DEF TypeOK, ResolveOrg
  <2> QED
    BY <1>2, <2>1 DEF TypeOK, ResolveOrg
<1>3. ASSUME NEW h \in Handlers, Classify(h)
      PROVE  StoreInv'
  <2>1. \A k \in Handlers : k # h => ev'[k] = ev[k]
    BY <1>3 DEF TypeOK, Classify
  <2> QED
    BY <1>3, <2>1 DEF TypeOK, Classify
<1>4. ASSUME NEW h \in Handlers, Store(h)
      PROVE  StoreInv'
  <2>1. PICK id \in Ids :
          /\ ev' = [ev EXCEPT ![h].id = id]
          /\ events' = Filed(id, [org |-> ev[h].org, conf |-> ev[h].conf])
    BY <1>4 DEF Store, TypeOK, Ids
  <2>2. [org |-> ev[h].org, conf |-> ev[h].conf] \in Event
    BY DEF TypeOK, Event
  <2>3. /\ events'[id] # NoEvent
        /\ \A i \in Ids : events[i] # NoEvent => events'[i] # NoEvent
    BY <2>1, <2>2, FiledKeeps
  <2>4. ev'[h].id = id /\ \A k \in Handlers : k # h => ev'[k] = ev[k]
    BY <2>1 DEF TypeOK
  <2>5. StoredFirst'
    BY <1>4, <2>3, <2>4 DEF TypeOK, Store
  <2>6. FramesAreStored'
    BY <1>4, <2>3 DEF TypeOK, Store
  <2> QED
    BY <2>5, <2>6
<1>5. ASSUME NEW h \in Handlers, LockClients(h)
      PROVE  StoreInv'
  BY <1>5 DEF TypeOK, LockClients
<1>6. ASSUME NEW h \in Handlers, UnlockClients(h)
      PROVE  StoreInv'
  BY <1>6 DEF TypeOK, UnlockClients
<1>7. ASSUME NEW h \in Handlers, NEW c \in Conns, WriteFrame(h, c)
      PROVE  StoreInv'
  BY <1>7 DEF TypeOK, WriteFrame
<1>8. ASSUME NEW h \in Handlers, NEW c \in Conns, DropClient(h, c)
      PROVE  StoreInv'
  BY <1>8 DEF TypeOK, DropClient
<1>9. ASSUME NEW h \in Handlers, Answer(h)
      PROVE  StoreInv'
  BY <1>9 DEF TypeOK, Answer
<1>10. ASSUME NEW c \in Conns, NEW org \in Orgs, Connect(c, org)
       PROVE  StoreInv'
  BY <1>10 DEF TypeOK, Connect
<1>11. ASSUME NEW c \in Conns, ReadFails(c) \/ PeerStalls(c) \/ PeerResumes(c) \/ PeerVanishes(c)
       PROVE  StoreInv'
  BY <1>11 DEF TypeOK, ReadFails, PeerStalls, PeerResumes, PeerVanishes, PeerMoves
<1>12. CASE Restart
  BY <1>12 DEF TypeOK, Restart
<1>13. CASE UNCHANGED vars
  BY <1>13 DEF vars
<1>14. ASSUME NEW h \in Handlers, NEW c \in Conns, Visit(h, c)
       PROVE  StoreInv'
  BY <1>14 DEF Visit, StoreInv, StoredFirst, FramesAreStored
<1> QED
  BY <1>1, <1>2, <1>3, <1>4, <1>5, <1>6, <1>7, <1>8, <1>9, <1>10, <1>11, <1>12, <1>13, <1>14
     DEF Next, Handle, Peers

-----------------------------------------------------------------------------
(***************************************************************************)
(* A broadcast reaches all.  The lock is what lets a handler rely on todo: *)
(* no other handler is in the middle of a broadcast.                       *)
(***************************************************************************)

LEMMA ReachInit == Init => ReachInv
BY DEF Init, InitMemory, ReachInv, RegisteredAreOpened, VisitedAreServed, BroadcastReachesAll

LEMMA ReachStep ==
  ASSUME TypeOK, LockInv, ReachInv, [Next]_vars
  PROVE  ReachInv'
<1> USE LockAssumption, OrgAssumption
    DEF ReachInv, RegisteredAreOpened, VisitedAreServed, BroadcastReachesAll,
        storeVars, wsVars, bounds, Goto
<1>1. ASSUME NEW h \in Handlers, NEW b \in Bodies, Begin(h, b)
      PROVE  ReachInv'
  <2>1. \A k \in Handlers : k # h => ev'[k] = ev[k] /\ pc'[k] = pc[k]
    BY <1>1 DEF TypeOK, Begin
  <2>2. pc'[h] \notin {"write", "done"}
    BY <1>1 DEF TypeOK, Begin
  <2> QED
    BY <1>1, <2>1, <2>2 DEF Begin
<1>2. ASSUME NEW h \in Handlers, ResolveOrg(h) \/ Classify(h) \/ Store(h)
      PROVE  ReachInv'
  <2>1. \A k \in Handlers : k # h => ev'[k] = ev[k] /\ pc'[k] = pc[k]
    BY <1>2 DEF TypeOK, ResolveOrg, Classify, Store
  <2>2. pc'[h] \notin {"write", "done"}
    BY <1>2 DEF TypeOK, ResolveOrg, Classify, Store
  <2>3. UNCHANGED <<wsClients, socket, wsMu, todo, got, audience>>
    BY <1>2 DEF ResolveOrg, Classify, Store
  <2> QED
    BY <2>1, <2>2, <2>3
<1>3. ASSUME NEW h \in Handlers, LockClients(h)
      PROVE  ReachInv'
  <2>1. \A k \in Handlers : k # h => pc'[k] = pc[k] /\ pc[k] # "write" /\ audience'[k] = audience[k]
    BY <1>3 DEF TypeOK, LockClients, ClientsFree, LockInv, BroadcastExclusive
  <2>2. pc'[h] = "write" /\ audience'[h] = todo'
    BY <1>3 DEF TypeOK, LockClients
  <2>3. \A c \in todo' : socket[c] # "new"
    BY <1>3 DEF TypeOK, LockClients, Registered
  <2>4. UNCHANGED <<ev, wsClients, socket, got>>
    BY <1>3 DEF LockClients
  <2> QED
    BY <2>1, <2>2, <2>3, <2>4
<1>4. ASSUME NEW h \in Handlers, UnlockClients(h)
      PROVE  ReachInv'
  <2>1. \A k \in Handlers : k # h => pc'[k] = pc[k]
    BY <1>4 DEF TypeOK, UnlockClients
  <2>2. pc[h] = "write" /\ todo = {} /\ pc'[h] = "done"
    BY <1>4 DEF TypeOK, UnlockClients
  <2>3. UNCHANGED <<ev, wsClients, socket, todo, got, audience>>
    BY <1>4 DEF UnlockClients
  <2> QED
    BY <2>1, <2>2, <2>3
<1>5. ASSUME NEW h \in Handlers, NEW c \in Conns, WriteFrame(h, c)
      PROVE  ReachInv'
  <2>1. \A k \in Handlers : k # h => pc[k] # "write"
    BY <1>5 DEF LockInv, BroadcastExclusive, WriteFrame
  <2>2. socket[c] = "broken" \/ ev[h].id \in got'[c]
    BY <1>5 DEF TypeOK, WriteFrame
  <2>3. \A d \in Conns : got[d] \subseteq got'[d]
    BY <1>5 DEF TypeOK, WriteFrame
  <2>4. todo' = todo \ {c} /\ UNCHANGED <<pc, ev, wsClients, socket, audience>>
    BY <1>5 DEF WriteFrame
  <2>5. RegisteredAreOpened'
    BY <2>4
  <2>6. VisitedAreServed'
    BY <2>1, <2>2, <2>3, <2>4 DEF TypeOK
  <2>7. BroadcastReachesAll'
    BY <2>3, <2>4 DEF TypeOK
  <2> QED
    BY <2>5, <2>6, <2>7
<1>6. ASSUME NEW h \in Handlers, NEW c \in Conns, DropClient(h, c)
      PROVE  ReachInv'
  <2>1. \A k \in Handlers : k # h => pc[k] # "write"
    BY <1>6 DEF LockInv, BroadcastExclusive, DropClient
  <2>2. socket'[c] = "closed" /\ wsClients'[c] = NoOrg
    BY <1>6 DEF TypeOK, DropClient
  <2>3. \A d \in Conns : d # c => socket'[d] = socket[d] /\ wsClients'[d] = wsClients[d]
    BY <1>6 DEF TypeOK, DropClient
  <2>4. todo' = todo \ {c} /\ UNCHANGED <<pc, ev, got, audience>>
    BY <1>6 DEF DropClient
  <2>5. RegisteredAreOpened'
    BY <2>2, <2>3, <2>4
  <2>6. VisitedAreServed'
    BY <2>1, <2>2, <2>3, <2>4 DEF TypeOK
  <2>7. BroadcastReachesAll'
    BY <2>2, <2>3, <2>4 DEF TypeOK
  <2> QED
    BY <2>5, <2>6, <2>7
<1>7. ASSUME NEW h \in Handlers, Answer(h)
      PROVE  ReachInv'
  <2>1. \A k \in Handlers :
          k # h => pc'[k] = pc[k] /\ ev'[k] = ev[k] /\ audience'[k] = audience[k]
    BY <1>7 DEF TypeOK, Answer
  <2>2. pc'[h] = "idle" /\ audience'[h] = {}
    BY <1>7 DEF TypeOK, Answer
  <2>3. UNCHANGED <<wsClients, socket, todo, got>>
    BY <1>7 DEF Answer
  <2> QED
    BY <2>1, <2>2, <2>3
<1>8. ASSUME NEW c \in Conns, NEW org \in Orgs, Connect(c, org)
      PROVE  ReachInv'
  <2>1. \A h \in Handlers : c \notin audience[h]
    BY <1>8 DEF Connect
  <2>2. socket'[c] = "open"
    BY <1>8 DEF TypeOK, Connect
  <2>3. \A d \in Conns : d # c => socket'[d] = socket[d] /\ wsClients'[d] = wsClients[d]
    BY <1>8 DEF TypeOK, Connect
  <2>4. UNCHANGED <<pc, ev, todo, got, audience>>
    BY <1>8 DEF Connect
  <2> QED
    BY <2>1, <2>2, <2>3, <2>4 DEF TypeOK
<1>9. ASSUME NEW c \in Conns, ReadFails(c) \/ PeerStalls(c) \/ PeerResumes(c) \/ PeerVanishes(c)
      PROVE  ReachInv'
  <2>1. socket'[c] # "new"
    BY <1>9 DEF TypeOK, ReadFails, PeerStalls, PeerResumes, PeerVanishes, PeerMoves
  <2>2. socket'[c] \in {"open", "stalled"} => socket[c] \in {"open", "stalled"}
    BY <1>9 DEF TypeOK, ReadFails, PeerStalls, PeerResumes, PeerVanishes, PeerMoves
  <2>3. \A d \in Conns : d # c => socket'[d] = socket[d] /\ wsClients'[d] = wsClients[d]
    BY <1>9 DEF TypeOK, ReadFails, PeerStalls, PeerResumes, PeerVanishes, PeerMoves
  <2>4. UNCHANGED <<pc, ev, todo, got, audience>>
    BY <1>9 DEF ReadFails, PeerStalls, PeerResumes, PeerVanishes, PeerMoves
  <2>5. socket'[c] \in {"open", "stalled", "broken", "closed"}
    BY <1>9 DEF TypeOK, ReadFails, PeerStalls, PeerResumes, PeerVanishes, PeerMoves
  <2> QED
    BY <2>1, <2>2, <2>3, <2>4, <2>5 DEF TypeOK
<1>10. CASE Restart
  BY <1>10 DEF TypeOK, Restart
<1>11. CASE UNCHANGED vars
  BY <1>11 DEF vars
<1>12. ASSUME NEW h \in Handlers, NEW c \in Conns, Visit(h, c)
       PROVE  ReachInv'
  BY <1>12 DEF Visit
<1> QED
  BY <1>1, <1>2, <1>3, <1>4, <1>5, <1>6, <1>7, <1>8, <1>9, <1>10, <1>11, <1>12
     DEF Next, Handle, Peers

-----------------------------------------------------------------------------
(***************************************************************************)
(* What is stored is what was claimed.                                     *)
(***************************************************************************)

LEMMA ClaimInit == Init => ClaimInv
BY DEF Init, InitMemory, ClaimInv, BuiltAsClaimed, StoredAsClaimed

\* A handler that is unaware of a step holds what it held.
LEMMA BuiltElsewhere ==
  ASSUME BuiltAsClaimed, NEW k \in Handlers,
         pc'[k] = pc[k], ev'[k] = ev[k], body'[k] = body[k]
  PROVE  /\ pc'[k] \in {"resolve", "classify", "store"} => Admitted(k)'
         /\ pc'[k] \in {"classify", "store"} => Filable(k)'
         /\ pc'[k] \in {"resolve", "classify"} => ev'[k].conf = Claimed(Body[body'[k]])
         /\ pc'[k] = "store" => Adjusted(k)'
BY DEF BuiltAsClaimed, Admitted, Filable, Adjusted

\* The map changes only in Store and Restart.
LEMMA StoredElsewhere ==
  ASSUME StoredAsClaimed, events' = events
  PROVE  StoredAsClaimed'
BY DEF StoredAsClaimed

\* What a handler that has adjusted a confidence files is as some submission
\* claimed it: its own.
LEMMA FiledAsClaimed ==
  ASSUME TypeOK, BuiltAsClaimed, StoredAsClaimed, NEW h \in Handlers, Store(h)
  PROVE  StoredAsClaimed'
<1>1. PICK id \in IF ev[h].id # NoEnvelope THEN {ev[h].id} ELSE {s \in Stamps : events[s] = NoEvent} :
        events' = Filed(id, [org |-> ev[h].org, conf |-> ev[h].conf])
  BY DEF Store
<1> DEFINE e == [org |-> ev[h].org, conf |-> ev[h].conf]
           s == Body[body[h]]
<1>2. pc[h] = "store" /\ body[h] \in Bodies
  BY DEF Store, TypeOK
<1>3. id \in Ids /\ e \in Event
  BY DEF TypeOK, Ids, Event
<1>4. events'[id] = e /\ \A i \in Ids : i # id => events'[i] = events[i]
  BY <1>1, <1>3, FiledKeeps
<1>5. Admitted(h) /\ Filable(h) /\ Adjusted(h)
  BY <1>2 DEF BuiltAsClaimed
<1>6. IF id \in Stamps THEN s.envelope = NoEnvelope ELSE s.envelope = id
  <2>1. ev[h].id = s.envelope /\ s.envelope \in Envelopes \cup {NoEnvelope}
    BY <1>2, <1>5, BodyFacts DEF Admitted
  <2>2. CASE s.envelope = NoEnvelope
    BY <2>1, <2>2
  <2>3. CASE s.envelope # NoEnvelope
    BY <2>1, <2>3, IdAssumption
  <2> QED
    BY <2>2, <2>3
<1>7. /\ s.caller # "none"
      /\ e.org \in {s.caller, s.keyOrg, "system"}
      /\ e.conf \in 0 .. 1000
      /\ e.conf - Clamp(0, 1000, Claimed(s)) \in -200 .. 200
  BY <1>5 DEF Admitted, Filable, Adjusted
<1> DEFINE Claims(i, v, b) ==
             /\ IF i \in Stamps THEN Body[b].envelope = NoEnvelope ELSE Body[b].envelope = i
             /\ Body[b].caller # "none"
             /\ v.org \in {Body[b].caller, Body[b].keyOrg, "system"}
             /\ v.conf \in 0 .. 1000
             /\ v.conf - Clamp(0, 1000, Claimed(Body[b])) \in -200 .. 200
<1>8. Claims(id, e, body[h])
  BY <1>6, <1>7
<1>9. \A i \in Ids : events[i] # NoEvent => \E b \in Bodies : Claims(i, events[i], b)
  BY DEF StoredAsClaimed
<1> HIDE DEF Claims
<1>10. \A i \in Ids : events'[i] # NoEvent => \E b \in Bodies : Claims(i, events'[i], b)
  BY <1>2, <1>4, <1>8, <1>9
<1> QED
  BY <1>10 DEF StoredAsClaimed, Claims

LEMMA ClaimStep ==
  ASSUME TypeOK, ClaimInv, [Next]_vars
  PROVE  ClaimInv'
<1>0. BuiltAsClaimed /\ StoredAsClaimed
  BY DEF ClaimInv
<1> USE DEF ClaimInv, storeVars, wsVars, bounds, Goto
<1>1. ASSUME NEW h \in Handlers, NEW b \in Bodies, Begin(h, b)
      PROVE  ClaimInv'
  <2>1. \A k \in Handlers : k # h => pc'[k] = pc[k] /\ ev'[k] = ev[k] /\ body'[k] = body[k]
    BY <1>1 DEF TypeOK, Begin
  <2>2. /\ body'[h] = b
        /\ ev'[h].id = Body[b].envelope /\ ev'[h].conf = Claimed(Body[b])
        /\ pc'[h] \in {"resolve", "refuse"}
        /\ pc'[h] = "resolve" => Body[b].caller # "none"
    BY <1>1 DEF TypeOK, Begin
  <2>3. BuiltAsClaimed'
    BY <1>0, <2>1, <2>2, BuiltElsewhere DEF BuiltAsClaimed, Admitted
  <2> QED
    BY <1>0, <1>1, <2>3, StoredElsewhere DEF Begin
<1>2. ASSUME NEW h \in Handlers, ResolveOrg(h)
      PROVE  ClaimInv'
  <2>1. PICK org \in OrgsOf(Body[body[h]]) : ev' = [ev EXCEPT ![h].org = org]
    BY <1>2 DEF ResolveOrg
  <2>2. Admitted(h) /\ ev[h].conf = Claimed(Body[body[h]]) /\ body[h] \in Bodies
    BY <1>0, <1>2 DEF BuiltAsClaimed, ResolveOrg, TypeOK
  <2>3. org \in {Body[body[h]].caller, Body[body[h]].keyOrg, "system"}
    BY <2>2, OrgsOfFacts DEF Admitted
  <2>4. \A k \in Handlers : k # h => pc'[k] = pc[k] /\ ev'[k] = ev[k] /\ body'[k] = body[k]
    BY <1>2 DEF TypeOK, ResolveOrg
  <2>5. /\ ev'[h].org = org /\ ev'[h].id = ev[h].id /\ ev'[h].conf = ev[h].conf
        /\ body'[h] = body[h] /\ pc'[h] = "classify"
    BY <1>2, <2>1 DEF TypeOK, ResolveOrg
  <2>6. BuiltAsClaimed'
    BY <1>0, <2>2, <2>3, <2>4, <2>5, BuiltElsewhere DEF BuiltAsClaimed, Admitted, Filable
  <2> QED
    BY <1>0, <1>2, <2>6, StoredElsewhere DEF ResolveOrg
<1>3. ASSUME NEW h \in Handlers, Classify(h)
      PROVE  ClaimInv'
  <2>1. PICK a \in Adjustments \cup {0} :
          ev' = [ev EXCEPT ![h].conf = Clamp(0, 1000, ev[h].conf + ClampAdjustment(a))]
    BY <1>3 DEF Classify
  <2> DEFINE conf == Clamp(0, 1000, ev[h].conf + ClampAdjustment(a))
             claim == Claimed(Body[body[h]])
  <2>2. Admitted(h) /\ Filable(h) /\ ev[h].conf = claim /\ body[h] \in Bodies
    BY <1>0, <1>3 DEF BuiltAsClaimed, Classify, TypeOK
  <2>3. a \in Int /\ claim \in Int
    <3>1. a \in Int
      BY BoundsAssumption
    <3> QED
      BY <2>2, <3>1, BodyFacts
  <2>4. conf \in 0 .. 1000 /\ conf - Clamp(0, 1000, claim) \in -200 .. 200
    <3> DEFINE d == ClampAdjustment(a)
    <3>1. d \in -200 .. 200
      BY <2>3, AdjustmentRange
    <3> HIDE DEF d, claim
    <3>2. /\ Clamp(0, 1000, claim + d) \in 0 .. 1000
          /\ Clamp(0, 1000, claim + d) - Clamp(0, 1000, claim) \in -200 .. 200
      BY <2>3, <3>1 DEF Clamp
    <3> QED
      BY <2>2, <3>2 DEF d
  <2>5. ev' = [ev EXCEPT ![h].conf = conf]
    BY <2>1
  <2> HIDE DEF conf
  <2>6. /\ ev'[h].conf = conf /\ ev'[h].id = ev[h].id /\ ev'[h].org = ev[h].org
        /\ body'[h] = body[h] /\ pc'[h] = "store"
    BY <1>3, <2>5 DEF TypeOK, Classify
  <2>7. \A k \in Handlers : k # h => pc'[k] = pc[k] /\ ev'[k] = ev[k] /\ body'[k] = body[k]
    BY <1>3, <2>5 DEF TypeOK, Classify
  <2>8. Admitted(h)' /\ Filable(h)' /\ Adjusted(h)'
    BY <2>2, <2>4, <2>6 DEF Admitted, Filable, Adjusted
  <2>9. BuiltAsClaimed'
    BY <1>0, <2>6, <2>7, <2>8, BuiltElsewhere DEF BuiltAsClaimed
  <2> QED
    BY <1>0, <1>3, <2>9, StoredElsewhere DEF Classify
<1>4. ASSUME NEW h \in Handlers, Store(h)
      PROVE  ClaimInv'
  <2>1. \A k \in Handlers : k # h => pc'[k] = pc[k] /\ ev'[k] = ev[k] /\ body'[k] = body[k]
    BY <1>4 DEF TypeOK, Store
  <2>2. pc'[h] = "broadcast"
    BY <1>4 DEF TypeOK, Store
  <2>3. BuiltAsClaimed'
    BY <1>0, <2>1, <2>2, BuiltElsewhere DEF BuiltAsClaimed
  <2> QED
    BY <1>0, <1>4, <2>3, FiledAsClaimed
<1>5. ASSUME NEW h \in Handlers, LockClients(h) \/ UnlockClients(h) \/ Answer(h)
      PROVE  ClaimInv'
  <2>1. \A k \in Handlers : k # h => pc'[k] = pc[k] /\ ev'[k] = ev[k] /\ body'[k] = body[k]
    BY <1>5 DEF TypeOK, LockClients, UnlockClients, Answer
  <2>2. pc'[h] \in {"write", "done", "idle"}
    BY <1>5 DEF TypeOK, LockClients, UnlockClients, Answer
  <2>3. BuiltAsClaimed'
    BY <1>0, <2>1, <2>2, BuiltElsewhere DEF BuiltAsClaimed
  <2> QED
    BY <1>0, <1>5, <2>3, StoredElsewhere DEF LockClients, UnlockClients, Answer
<1>6. ASSUME UNCHANGED <<pc, body, ev, events>>
      PROVE  ClaimInv'
  BY <1>0, <1>6, BuiltElsewhere, StoredElsewhere DEF BuiltAsClaimed
<1>7. CASE Restart
  BY <1>7 DEF BuiltAsClaimed, StoredAsClaimed, Restart
<1> QED
  BY <1>1, <1>2, <1>3, <1>4, <1>5, <1>6, <1>7
     DEF Next, Handle, Peers, Visit, WriteFrame, DropClient, Connect, ReadFails,
         PeerStalls, PeerResumes, PeerVanishes, PeerMoves, vars

-----------------------------------------------------------------------------
(***************************************************************************)
(* The theorems.                                                           *)
(***************************************************************************)

LEMMA IndInvInit == Init => IndInv
BY TypeInit, LockInit, StoreInit, ReachInit, ClaimInit DEF IndInv

LEMMA IndInvStep == IndInv /\ [Next]_vars => IndInv'
BY TypeStep, LockStep, StoreStep, ReachStep, ClaimStep DEF IndInv, StoreInv, ClaimInv

LEMMA Invariance == Spec => []IndInv
BY IndInvInit, IndInvStep, PTL DEF Spec

\* Every handler, event and connection stays in its range, an organisation is
\* never lost on the way from the caller to the map, and a frame names an
\* event: for any number of handlers, connections and submissions.
THEOREM TypeCorrect == Spec => []TypeOK
BY Invariance, PTL DEF IndInv

\* At most one handler is in broadcastEvent's loop and it holds wsClientsMu,
\* whatever blocks or breaks meanwhile.
THEOREM BroadcastIsExclusive == Spec => []BroadcastExclusive
BY Invariance, PTL DEF IndInv, LockInv

\* A websocket client is told only of events eventsHandler has stored.
THEOREM FramesFollowStore == Spec => []FramesAreStored
BY Invariance, PTL DEF IndInv, StoreInv

\* A broadcast that is over has reached every connection that was registered
\* when it began and is still alive.
THEOREM BroadcastIsComplete == Spec => []BroadcastReachesAll
BY Invariance, PTL DEF IndInv, ReachInv

\* Whatever llm-service answers and auth-service fails to answer, an event is
\* stored with a confidence within 0.2 of what a submission claimed, in range,
\* under its caller's organisation or "system".
THEOREM StoredWithinClaim == Spec => []StoredAsClaimed
BY Invariance, PTL DEF IndInv, ClaimInv

=============================================================================
