------------------------- MODULE EventPipeline_proofs -------------------------
(***************************************************************************)
(* Theorems about EventPipeline, for any number of nodes, envelopes and    *)
(* handlers.  A step of the pipeline is a step of the swarm or leaves it   *)
(* alone, and likewise of the authority (PartSteps), so that the           *)
(* invariants of SwarmMesh_proofs and Authority_proofs hold of the parts;  *)
(* on top of them come the invariants that relate the two, and from these  *)
(* the refinement of EventLedger.                                          *)
(***************************************************************************)
EXTENDS EventPipeline, TLAPS

SwarmProofs == INSTANCE SwarmMesh_proofs
AuthProofs  == INSTANCE Authority_proofs
                 WITH Bodies <- Envelopes, Body <- [e \in Envelopes |-> RestBody(e)]

-----------------------------------------------------------------------------
(***************************************************************************)
(* Each part and the module of its proofs, instantiated alike, mean the    *)
(* same.                                                                   *)
(***************************************************************************)

LEMMA SwarmSame == (Swarm!Init <=> SwarmProofs!Init) /\ (Swarm!Next <=> SwarmProofs!Next) /\ (Swarm!IndInv <=> SwarmProofs!IndInv)
<1>1. Swarm!Init <=> SwarmProofs!Init
  BY DEF Swarm!Init, SwarmProofs!Init, Swarm!Topics, SwarmProofs!Topics, Swarm!IdleCall, SwarmProofs!IdleCall,
    Swarm!Never, SwarmProofs!Never
<1>2. Swarm!Next <=> SwarmProofs!Next
  BY DEF Swarm!Next, SwarmProofs!Next, Swarm!NodeNext, SwarmProofs!NodeNext, Swarm!Topics, SwarmProofs!Topics,
    Swarm!ForwardReturns, SwarmProofs!ForwardReturns, Swarm!Crash, SwarmProofs!Crash, Swarm!Serve,
    SwarmProofs!Serve, Swarm!Reply, SwarmProofs!Reply, Swarm!Ingest, SwarmProofs!Ingest, Swarm!Deliver,
    SwarmProofs!Deliver, Swarm!Receive, SwarmProofs!Receive, Swarm!Cleanup, SwarmProofs!Cleanup,
    Swarm!Restart, SwarmProofs!Restart, Swarm!Tick, SwarmProofs!Tick, Swarm!ForwardDone,
    SwarmProofs!ForwardDone, Swarm!ForwardTimeout, SwarmProofs!ForwardTimeout, Swarm!IdleCall,
    SwarmProofs!IdleCall, Swarm!Never, SwarmProofs!Never, Swarm!Waiting, SwarmProofs!Waiting, Swarm!netVars,
    SwarmProofs!netVars, Swarm!histVars, SwarmProofs!histVars, Swarm!ValidateIngress,
    SwarmProofs!ValidateIngress, Swarm!HasRoom, SwarmProofs!HasRoom, Swarm!SkipDuplicate,
    SwarmProofs!SkipDuplicate, Swarm!SkipForeign, SwarmProofs!SkipForeign, Swarm!StartForward,
    SwarmProofs!StartForward, Swarm!Expired, SwarmProofs!Expired, Swarm!nodeVars, SwarmProofs!nodeVars,
    Swarm!Hangup, SwarmProofs!Hangup, Swarm!Elements, SwarmProofs!Elements, Swarm!Taken, SwarmProofs!Taken,
    Swarm!Next1, SwarmProofs!Next1, Swarm!MarkSeen, SwarmProofs!MarkSeen, Swarm!IsOrigin,
    SwarmProofs!IsOrigin
<1>3. Swarm!IndInv <=> SwarmProofs!IndInv
  BY DEF Swarm!IndInv, SwarmProofs!IndInv, Swarm!TypeOK, SwarmProofs!TypeOK, Swarm!OnlyOriginForwards,
    SwarmProofs!OnlyOriginForwards, Swarm!NothingBeforeIngest, SwarmProofs!NothingBeforeIngest,
    Swarm!Remembered, SwarmProofs!Remembered, Swarm!DedupWindow, SwarmProofs!DedupWindow,
    Swarm!MarkedIsAttempted, SwarmProofs!MarkedIsAttempted, Swarm!NoSilentSkip, SwarmProofs!NoSilentSkip,
    Swarm!Topics, SwarmProofs!Topics, Swarm!Calls, SwarmProofs!Calls, Swarm!Never, SwarmProofs!Never,
    Swarm!IdleCall, SwarmProofs!IdleCall, Swarm!Elements, SwarmProofs!Elements, Swarm!Phases,
    SwarmProofs!Phases
<1>4. QED
  BY <1>1, <1>2, <1>3

LEMMA AuthSame == (Auth!Init <=> AuthProofs!Init) /\ (Auth!Next <=> AuthProofs!Next) /\ (Auth!IndInv <=> AuthProofs!IndInv)
<1>1. Auth!Init <=> AuthProofs!Init
  BY DEF Auth!Init, AuthProofs!Init, Auth!InitMemory, AuthProofs!InitMemory, Auth!BlankEvent, AuthProofs!BlankEvent,
    Auth!Ids, AuthProofs!Ids
<1>2. Auth!Next <=> AuthProofs!Next
  BY DEF Auth!Next, AuthProofs!Next, Auth!Begin, AuthProofs!Begin, Auth!Handle, AuthProofs!Handle, Auth!Answer,
    AuthProofs!Answer, Auth!Peers, AuthProofs!Peers, Auth!Restart, AuthProofs!Restart, Auth!Claimed,
    AuthProofs!Claimed, Auth!Goto, AuthProofs!Goto, Auth!Parses, AuthProofs!Parses, Auth!storeVars,
    AuthProofs!storeVars, Auth!wsVars, AuthProofs!wsVars, Auth!ResolveOrg, AuthProofs!ResolveOrg,
    Auth!Classify, AuthProofs!Classify, Auth!Store, AuthProofs!Store, Auth!LockClients,
    AuthProofs!LockClients, Auth!UnlockClients, AuthProofs!UnlockClients, Auth!Visit,
    AuthProofs!Visit, Auth!WriteFrame, AuthProofs!WriteFrame, Auth!DropClient, AuthProofs!DropClient, Auth!BlankEvent, AuthProofs!BlankEvent,
    Auth!bounds, AuthProofs!bounds, Auth!Connect, AuthProofs!Connect, Auth!ReadFails, AuthProofs!ReadFails,
    Auth!PeerStalls, AuthProofs!PeerStalls, Auth!PeerResumes, AuthProofs!PeerResumes, Auth!PeerVanishes,
    AuthProofs!PeerVanishes, Auth!Ids, AuthProofs!Ids, Auth!OrgsOf, AuthProofs!OrgsOf, Auth!Clamp,
    AuthProofs!Clamp, Auth!ClampAdjustment, AuthProofs!ClampAdjustment, Auth!Filed, AuthProofs!Filed,
    Auth!ClientsFree, AuthProofs!ClientsFree, Auth!Registered, AuthProofs!Registered, Auth!PeerMoves,
    AuthProofs!PeerMoves
<1>3. Auth!IndInv <=> AuthProofs!IndInv
  BY DEF Auth!IndInv, AuthProofs!IndInv, Auth!TypeOK, AuthProofs!TypeOK, Auth!LockInv, AuthProofs!LockInv,
    Auth!StoreInv, AuthProofs!StoreInv, Auth!ReachInv, AuthProofs!ReachInv, Auth!ClaimInv,
    AuthProofs!ClaimInv, Auth!Steps, AuthProofs!Steps, Auth!Ids, AuthProofs!Ids, Auth!Event,
    AuthProofs!Event, Auth!BroadcastExclusive, AuthProofs!BroadcastExclusive, Auth!StoredFirst,
    AuthProofs!StoredFirst, Auth!FramesAreStored, AuthProofs!FramesAreStored, Auth!RegisteredAreOpened,
    AuthProofs!RegisteredAreOpened, Auth!VisitedAreServed, AuthProofs!VisitedAreServed,
    Auth!BroadcastReachesAll, AuthProofs!BroadcastReachesAll, Auth!BuiltAsClaimed,
    AuthProofs!BuiltAsClaimed, Auth!StoredAsClaimed, AuthProofs!StoredAsClaimed, Auth!Registered,
    AuthProofs!Registered, Auth!Admitted, AuthProofs!Admitted, Auth!Filable, AuthProofs!Filable,
    Auth!Claimed, AuthProofs!Claimed, Auth!Adjusted, AuthProofs!Adjusted, Auth!Clamp, AuthProofs!Clamp
<1>4. QED
  BY <1>1, <1>2, <1>3

-----------------------------------------------------------------------------
(***************************************************************************)
(* The parts keep their invariants.                                        *)
(***************************************************************************)

\* What the pipeline adds to its parts stays in its ranges.
OwnTypes ==
  /\ client \in [Handlers -> Requesters \cup {Nobody}]
  /\ stray \in [Envelopes -> 0 .. MaxStray]
  /\ ever \in SUBSET Envelopes

LEMMA AbandonType ==
  ASSUME OwnTypes, NEW requests, Abandon(requests)
  PROVE  stray' \in [Envelopes -> 0 .. MaxStray]
<1>1. PICK kept \in SUBSET requests :
        stray' = [e \in Envelopes |-> IF e \in kept /\ stray[e] < MaxStray THEN stray[e] + 1 ELSE stray[e]]
  BY DEF Abandon
<1>2. \A e \in Envelopes : stray[e] \in 0 .. MaxStray
  BY DEF OwnTypes
<1>3. \A e \in Envelopes : (IF e \in kept /\ stray[e] < MaxStray THEN stray[e] + 1 ELSE stray[e]) \in 0 .. MaxStray
  BY <1>2, StrayAssumption
<1>4. QED
  BY <1>1, <1>3

LEMMA OwnTypesStep ==
  ASSUME OwnTypes, [Next]_vars
  PROVE  OwnTypes'
<1>1. ever' \in SUBSET Envelopes
  BY DEF Next, Remember, vars, OwnTypes
<1>2. client' \in [Handlers -> Requesters \cup {Nobody}]
  <2>1. ASSUME NEW n \in Nodes, NEW t \in Swarm!Topics, NEW h \in Handlers, ServeCall(n, t, h)
        PROVE  client' \in [Handlers -> Requesters \cup {Nobody}]
    BY <2>1 DEF ServeCall, OwnTypes, Requesters
  <2>2. ASSUME NEW h \in Handlers, AnswerCall(h)
        PROVE  client' \in [Handlers -> Requesters \cup {Nobody}]
    BY <2>2 DEF AnswerCall, OwnTypes
  <2>3. ASSUME NEW gone, Orphan(gone)
        PROVE  client' \in [Handlers -> Requesters \cup {Nobody}]
    BY <2>3 DEF Orphan, OwnTypes
  <2>4. CASE RestartAuthority
    BY <2>4 DEF RestartAuthority
  <2>5. QED
    BY <2>1, <2>2, <2>3, <2>4 DEF OwnTypes, Next, vars, SwarmStep, AuthorityStep, ServeStray, StrayDies, TimeoutCall,
      CrashNode
<1>3. stray' \in [Envelopes -> 0 .. MaxStray]
  <2>1. ASSUME NEW e \in Envelopes, stray[e] > 0, stray' = [stray EXCEPT ![e] = @ - 1]
        PROVE  stray' \in [Envelopes -> 0 .. MaxStray]
    BY <2>1, StrayAssumption DEF OwnTypes
  <2>2. ASSUME NEW e \in Envelopes, NEW h \in Handlers, ServeStray(e, h)
        PROVE  stray' \in [Envelopes -> 0 .. MaxStray]
    BY <2>1, <2>2 DEF ServeStray
  <2>3. ASSUME NEW e \in Envelopes, StrayDies(e)
        PROVE  stray' \in [Envelopes -> 0 .. MaxStray]
    BY <2>1, <2>3 DEF StrayDies
  <2>4. ASSUME NEW n \in Nodes, NEW t \in Swarm!Topics, TimeoutCall(n, t)
        PROVE  stray' \in [Envelopes -> 0 .. MaxStray]
    BY <2>4, AbandonType DEF TimeoutCall
  <2>5. ASSUME NEW n \in Nodes, CrashNode(n)
        PROVE  stray' \in [Envelopes -> 0 .. MaxStray]
    BY <2>5, AbandonType DEF CrashNode
  <2>6. QED
    BY <2>2, <2>3, <2>4, <2>5 DEF OwnTypes, Next, vars, SwarmStep, AuthorityStep, ServeCall, AnswerCall, RestartAuthority
<1>4. QED
  BY <1>1, <1>2, <1>3 DEF OwnTypes

\* A step of the pipeline, seen by the swarm and by the authority.
LEMMA PartSteps ==
  ASSUME OwnTypes, Swarm!TypeOK, [Next]_vars
  PROVE  [Swarm!Next]_(Swarm!vars) /\ [Auth!Next]_(Auth!vars)
<1> DEFINE SwarmRests == UNCHANGED Swarm!vars
           AuthRests  == UNCHANGED Auth!vars
<1>1. UNCHANGED swarmVars => SwarmRests
  BY DEF swarmVars, Swarm!vars, Swarm!nodeVars, Swarm!netVars, Swarm!histVars
<1>2. UNCHANGED authVars => AuthRests
  BY DEF authVars, Auth!vars, Auth!storeVars, Auth!wsVars, Auth!bounds
<1>3. CASE UNCHANGED vars
  BY <1>1, <1>2, <1>3 DEF vars
<1>4. CASE SwarmStep
  <2>1. Swarm!Next
    BY <1>4 DEF SwarmStep, Swarm!Next, Swarm!ForwardReturns
  <2>2. QED
    BY <1>2, <1>4, <2>1 DEF SwarmStep
<1>5. CASE AuthorityStep
  BY <1>1, <1>5 DEF AuthorityStep, Auth!Next
<1>6. ASSUME NEW n \in Nodes, NEW t \in Swarm!Topics, NEW h \in Handlers, ServeCall(n, t, h)
      PROVE  Swarm!Next /\ [Auth!Next]_(Auth!vars)
  <2>1. call[n][t].env \in Envelopes
    BY <1>6 DEF ServeCall, Swarm!Serve, Swarm!TypeOK, Swarm!Calls, Swarm!IdleCall
  <2>2. Auth!Next
    BY <1>6, <2>1 DEF ServeCall, Auth!Next
  <2>3. Swarm!Next
    BY <1>6 DEF ServeCall, Swarm!Next
  <2>4. QED
    BY <2>2, <2>3
<1>7. ASSUME NEW e \in Envelopes, NEW h \in Handlers, ServeStray(e, h)
      PROVE  SwarmRests /\ Auth!Next
  BY <1>1, <1>7 DEF ServeStray, Auth!Next
<1>8. ASSUME NEW e \in Envelopes, StrayDies(e)
      PROVE  SwarmRests /\ AuthRests
  BY <1>1, <1>2, <1>8 DEF StrayDies
<1>9. ASSUME NEW h \in Handlers, AnswerCall(h)
      PROVE  [Swarm!Next]_(Swarm!vars) /\ Auth!Next
  <2>1. Auth!Next
    BY <1>9 DEF AnswerCall, Auth!Next
  <2>2. CASE client[h] = Nobody
    BY <1>1, <1>9, <2>1, <2>2 DEF AnswerCall
  <2>3. CASE client[h] # Nobody
    <3>1. client[h][1] \in Nodes /\ client[h][2] \in Swarm!Topics
      BY <2>3 DEF OwnTypes, Requesters
    <3>2. Swarm!Reply(client[h][1], client[h][2], Result(h)) /\ Result(h) \in {"ok", "error"}
      BY <1>9, <2>3 DEF AnswerCall, Result
    <3>3. QED
      BY <2>1, <3>1, <3>2 DEF Swarm!Next
  <2>4. QED
    BY <2>2, <2>3
<1>10. ASSUME NEW n \in Nodes, NEW t \in Swarm!Topics, TimeoutCall(n, t)
       PROVE  Swarm!Next /\ AuthRests
  BY <1>2, <1>10 DEF TimeoutCall, Swarm!Next, Swarm!ForwardReturns
<1>11. ASSUME NEW n \in Nodes, CrashNode(n)
       PROVE  Swarm!Next /\ AuthRests
  BY <1>2, <1>11 DEF CrashNode, Swarm!Next
<1>12. CASE RestartAuthority
  BY <1>1, <1>12 DEF RestartAuthority, Auth!Next
<1>13. QED
  BY <1>3, <1>4, <1>5, <1>6, <1>7, <1>8, <1>9, <1>10, <1>11, <1>12 DEF Next

PartsInv == OwnTypes /\ SwarmProofs!IndInv /\ AuthProofs!IndInv

\* The assumptions of the two modules, for the bodies forwardToValidatorREST makes.
LEMMA BodiesAreSubmissions == Envelopes # {} /\ [e \in Envelopes |-> RestBody(e)] \in [Envelopes -> AuthProofs!Submission]
<1>1. ASSUME NEW e \in Envelopes
      PROVE  RestBody(e) \in AuthProofs!Submission
  <2>1. Confidence[e] \in Int /\ KeyOrg[e] \in Orgs
    BY PartsAssumption DEF PartsAssumption, Swarm!ConfidenceAssumption
  <2>2. 1000 * ((Confidence[e] * 100) \div 1000) \in Int
    BY <2>1
  <2>3. QED
    BY <2>1, <2>2 DEF RestBody, AuthProofs!Submission, AuthProofs!Callers
<1>2. QED
  BY <1>1, PartsAssumption

LEMMA SwarmAssumptions ==
  /\ SwarmProofs!NamesAssumption /\ SwarmProofs!TopicAssumption
  /\ SwarmProofs!ConfidenceAssumption /\ SwarmProofs!NumbersAssumption
  BY PartsAssumption DEF Swarm!NamesAssumption, Swarm!TopicAssumption, Swarm!ConfidenceAssumption,
    Swarm!NumbersAssumption, SwarmProofs!NamesAssumption, SwarmProofs!TopicAssumption,
    SwarmProofs!ConfidenceAssumption, SwarmProofs!NumbersAssumption, Swarm!Topics, SwarmProofs!Topics

LEMMA AuthAssumptions ==
  /\ AuthProofs!BodyAssumption /\ AuthProofs!OrgAssumption /\ AuthProofs!IdAssumption
  /\ AuthProofs!LockAssumption /\ AuthProofs!BoundsAssumption
  BY PartsAssumption, BodiesAreSubmissions DEF Auth!OrgAssumption, Auth!IdAssumption, Auth!LockAssumption,
    Auth!BoundsAssumption, AuthProofs!BodyAssumption, AuthProofs!OrgAssumption, AuthProofs!IdAssumption,
    AuthProofs!LockAssumption, AuthProofs!BoundsAssumption

LEMMA PartsInit == Init => PartsInv
<1> SUFFICES ASSUME Init PROVE PartsInv
  OBVIOUS
<1>1. OwnTypes
  BY StrayAssumption DEF Init, OwnTypes
<1>2. SwarmProofs!IndInv
  BY SwarmAssumptions, SwarmSame, SwarmProofs!IndInvInit DEF Init
<1>3. AuthProofs!IndInv
  BY AuthAssumptions, AuthSame, AuthProofs!IndInvInit DEF Init
<1>4. QED
  BY <1>1, <1>2, <1>3 DEF PartsInv

LEMMA PartsStep == PartsInv /\ [Next]_vars => PartsInv'
<1> SUFFICES ASSUME PartsInv, [Next]_vars PROVE PartsInv'
  OBVIOUS
<1>1. OwnTypes'
  BY OwnTypesStep DEF PartsInv
<1>2. [SwarmProofs!Next]_(SwarmProofs!vars) /\ [AuthProofs!Next]_(AuthProofs!vars)
  BY PartSteps, SwarmSame, AuthSame DEF PartsInv, Swarm!IndInv, Swarm!vars, SwarmProofs!vars, Auth!vars, AuthProofs!vars,
    Swarm!nodeVars, Swarm!netVars, Swarm!histVars, SwarmProofs!nodeVars, SwarmProofs!netVars, SwarmProofs!histVars,
    Auth!storeVars, Auth!wsVars, Auth!bounds, AuthProofs!storeVars, AuthProofs!wsVars, AuthProofs!bounds
<1>3. SwarmProofs!IndInv'
  BY <1>2, SwarmAssumptions, SwarmProofs!IndInvStep DEF PartsInv
<1>4. AuthProofs!IndInv'
  BY <1>2, AuthAssumptions, AuthProofs!IndInvStep DEF PartsInv
<1>5. QED
  BY <1>1, <1>3, <1>4 DEF PartsInv

\* Put together, the swarm and the authority keep all that was proved of each
\* by itself: only origins forward, nothing is skipped, what is stored is what
\* was claimed, a broadcast reaches everybody.
THEOREM PartsKeepTheirInvariants == Spec => [](TypeOK /\ Swarm!IndInv /\ Auth!IndInv)
<1>1. PartsInv => TypeOK /\ Swarm!IndInv /\ Auth!IndInv
  BY SwarmSame, AuthSame DEF PartsInv, OwnTypes, TypeOK, Swarm!IndInv, Auth!IndInv
<1>2. QED
  BY PartsInit, PartsStep, <1>1, PTL DEF Spec

-----------------------------------------------------------------------------
(***************************************************************************)
(* How the parts agree.                                                    *)
(***************************************************************************)

Parts == TypeOK /\ Swarm!IndInv /\ Auth!IndInv
Agree == AnswersMatch /\ ServedWasAccepted /\ StraysWereAccepted /\ EverWasAccepted

\* A call that is not idle is about an envelope its node accepted.
LEMMA CallIsAccepted ==
  ASSUME Parts, NEW n \in Nodes, NEW t \in Swarm!Topics, call[n][t].phase # "idle"
  PROVE  call[n][t].env \in Envelopes /\ origin[call[n][t].env] # NoNode
<1>1. call[n][t] \in Swarm!Calls /\ call[n][t] # Swarm!IdleCall
  BY DEF Parts, Swarm!IndInv, Swarm!TypeOK, Swarm!IdleCall
<1>2. call[n][t].env \in Envelopes /\ origin[call[n][t].env] = n
  BY <1>1 DEF Parts, Swarm!IndInv, Swarm!OnlyOriginForwards, Swarm!Calls
<1>3. QED
  BY <1>2, PartsAssumption DEF PartsAssumption, Swarm!NamesAssumption

\* An envelope's origin is set once.
LEMMA AcceptedStays ==
  ASSUME Parts, [Next]_vars, NEW e \in Envelopes, origin[e] # NoNode
  PROVE  origin'[e] = origin[e]
<1>1. [Swarm!Next]_(Swarm!vars)
  BY PartSteps DEF Parts, OwnTypes, TypeOK, Swarm!IndInv
<1>2. ASSUME NEW n \in Nodes, NEW f \in Envelopes, Swarm!Ingest(n, f)
      PROVE  origin'[e] = origin[e]
  BY <1>2 DEF Swarm!Ingest, Parts, Swarm!IndInv, Swarm!TypeOK
<1>3. QED
  BY <1>1, <1>2 DEF Swarm!Next, Swarm!NodeNext, Swarm!vars, Swarm!netVars, Swarm!Deliver, Swarm!Receive,
    Swarm!SkipDuplicate, Swarm!SkipForeign, Swarm!StartForward, Swarm!ForwardReturns, Swarm!ForwardDone,
    Swarm!ForwardTimeout, Swarm!Serve, Swarm!Reply, Swarm!Cleanup, Swarm!Tick, Swarm!Crash, Swarm!Restart

\* What an assignment to one goroutine's call leaves alone.
LEMMA CallUpdate ==
  ASSUME Parts, NEW n \in Nodes, NEW t \in Swarm!Topics, NEW c, call' = [call EXCEPT ![n][t] = c]
  PROVE  /\ call'[n][t] = c
         /\ \A m \in Nodes, u \in Swarm!Topics : ~(m = n /\ u = t) => call'[m][u] = call[m][u]
  BY DEF Parts, Swarm!IndInv, Swarm!TypeOK

\* The answer to one call, or its arrival.
Moved(n, t, p) == call' = [call EXCEPT ![n][t].phase = p]

LEMMA PhaseUpdate ==
  ASSUME Parts, NEW n \in Nodes, NEW t \in Swarm!Topics, NEW p, Moved(n, t, p)
  PROVE  /\ call'[n][t] \in [env : {call[n][t].env}, phase : {p}]
         /\ \A m \in Nodes, u \in Swarm!Topics : ~(m = n /\ u = t) => call'[m][u] = call[m][u]
<1>1. call[n][t] \in Swarm!Calls
  BY DEF Parts, Swarm!IndInv, Swarm!TypeOK
<1>2. call[n][t] = [env |-> call[n][t].env, phase |-> call[n][t].phase]
  BY <1>1 DEF Swarm!Calls, Swarm!IdleCall
<1>3. [call[n][t] EXCEPT !.phase = p] = [env |-> call[n][t].env, phase |-> p]
  BY <1>2
<1>4. call' = [call EXCEPT ![n] = [call[n] EXCEPT ![t] = [env |-> call[n][t].env, phase |-> p]]]
  BY <1>3 DEF Moved
<1>5. QED
  BY <1>4 DEF Parts, Swarm!IndInv, Swarm!TypeOK

\* What the swarm does by itself disturbs no call that is being served.
LEMMA ServedRest ==
  ASSUME Parts, SwarmStep, NEW n \in Nodes, NEW t \in Swarm!Topics, call[n][t].phase = "serving"
  PROVE  call'[n][t] = call[n][t]
<1>1. ASSUME NEW m \in Nodes, NEW u \in Swarm!Topics, Swarm!StartForward(m, u)
      PROVE  call'[n][t] = call[n][t]
  <2>1. call[m][u].phase = "idle"
    BY <1>1 DEF Swarm!StartForward, Swarm!Taken, Swarm!IdleCall
  <2>2. call'[n][t] = call[n][t] \/ (n = m /\ t = u)
    BY <1>1, CallUpdate DEF Swarm!StartForward
  <2>3. ~(n = m /\ t = u)
    BY <2>1
  <2>4. QED
    BY <2>2, <2>3
<1>2. ASSUME NEW m \in Nodes, NEW u \in Swarm!Topics, Swarm!ForwardDone(m, u)
      PROVE  call'[n][t] = call[n][t]
  BY <1>2, CallUpdate DEF Swarm!ForwardDone, Swarm!Hangup
<1>3. QED
  BY <1>1, <1>2 DEF SwarmStep, Swarm!NodeNext, Swarm!Ingest, Swarm!Deliver, Swarm!Receive, Swarm!SkipDuplicate,
    Swarm!SkipForeign, Swarm!Cleanup, Swarm!Tick, Swarm!Restart, Swarm!nodeVars

\* The goroutine a handler answers.
LEMMA ClientIs ==
  ASSUME Parts, NEW h \in Handlers, client[h] # Nobody
  PROVE  /\ client[h][1] \in Nodes /\ client[h][2] \in Swarm!Topics
         /\ client[h] = <<client[h][1], client[h][2]>>
  BY DEF Parts, TypeOK, Requesters

LEMMA ClientIsServed ==
  ASSUME Agree, NEW h \in Handlers, client[h] # Nobody
  PROVE  /\ call[client[h][1]][client[h][2]].phase = "serving"
         /\ call[client[h][1]][client[h][2]].env = body[h]
<1>1. call[client[h][1]][client[h][2]] = [env |-> body[h], phase |-> "serving"]
  BY DEF Agree, AnswersMatch
<1>2. QED
  BY <1>1

LEMMA AnswersMatchStep ==
  ASSUME Parts, Agree, [Next]_vars
  PROVE  AnswersMatch'
<1>1. ASSUME \A h \in Handlers : client'[h] # Nobody =>
               /\ client[h] = client'[h] /\ body'[h] = body[h]
               /\ call'[client[h][1]][client[h][2]] = call[client[h][1]][client[h][2]]
      PROVE  AnswersMatch'
  BY <1>1 DEF Agree, AnswersMatch
<1>2. ASSUME UNCHANGED <<client, body, call>>
      PROVE  AnswersMatch'
  BY <1>2 DEF Agree, AnswersMatch
<1>3. CASE SwarmStep
  <2>1. ASSUME NEW h \in Handlers, client[h] # Nobody
        PROVE  call'[client[h][1]][client[h][2]] = call[client[h][1]][client[h][2]]
    BY <1>3, <2>1, ServedRest, ClientIs, ClientIsServed
  <2>2. client' = client /\ body' = body
    BY <1>3 DEF SwarmStep, authVars
  <2>3. QED
    BY <1>1, <2>1, <2>2
<1>4. CASE AuthorityStep
  BY <1>2, <1>4 DEF AuthorityStep, swarmVars, Auth!Handle, Auth!ResolveOrg, Auth!Classify, Auth!Store, Auth!LockClients,
    Auth!UnlockClients, Auth!Visit, Auth!WriteFrame, Auth!DropClient, Auth!Peers, Auth!Connect, Auth!ReadFails, Auth!PeerStalls,
    Auth!PeerResumes, Auth!PeerVanishes, Auth!PeerMoves
<1>5. ASSUME NEW n \in Nodes, NEW t \in Swarm!Topics, NEW h \in Handlers, ServeCall(n, t, h)
      PROVE  AnswersMatch'
  <2>1. /\ call'[n][t] = [env |-> call[n][t].env, phase |-> "serving"]
        /\ \A m \in Nodes, u \in Swarm!Topics : ~(m = n /\ u = t) => call'[m][u] = call[m][u]
        /\ call[n][t].phase = "sent"
    <3>1. Moved(n, t, "serving") /\ call[n][t].phase = "sent"
      BY <1>5 DEF ServeCall, Swarm!Serve, Moved
    <3>2. call'[n][t] = [env |-> call[n][t].env, phase |-> "serving"]
      <4>1. call'[n][t] \in [env : {call[n][t].env}, phase : {"serving"}]
        BY <3>1, PhaseUpdate
      <4>2. QED
        BY <4>1
    <3>3. \A m \in Nodes, u \in Swarm!Topics : ~(m = n /\ u = t) => call'[m][u] = call[m][u]
      BY <3>1, PhaseUpdate
    <3>4. QED
      BY <3>1, <3>2, <3>3
  <2>2. \A g \in Handlers : client'[g] = IF g = h THEN <<n, t>> ELSE client[g]
    BY <1>5 DEF ServeCall, Parts, TypeOK
  <2>3. \A g \in Handlers : body'[g] = IF g = h THEN call[n][t].env ELSE body[g]
    BY <1>5 DEF ServeCall, Auth!Begin, Parts, Auth!IndInv, Auth!TypeOK
  <2>4. ASSUME NEW g \in Handlers, client[g] # Nobody
        PROVE  client[g] # <<n, t>> /\ ~(client[g][1] = n /\ client[g][2] = t)
    <3>1. call[client[g][1]][client[g][2]].phase = "serving" /\ client[g] = <<client[g][1], client[g][2]>>
      BY <2>4, ClientIs, ClientIsServed
    <3>2. QED
      BY <2>1, <3>1
  <2>5. ASSUME NEW g \in Handlers, client'[g] # Nobody
        PROVE  call'[client'[g][1]][client'[g][2]] = [env |-> body'[g], phase |-> "serving"]
    <3>1. CASE g = h
      BY <2>1, <2>2, <2>3, <3>1
    <3>2. CASE g # h
      <4>1. client'[g] = client[g] /\ body'[g] = body[g]
        BY <2>2, <2>3, <3>2
      <4>2. call'[client[g][1]][client[g][2]] = call[client[g][1]][client[g][2]]
        BY <2>1, <2>4, <2>5, <4>1, ClientIs
      <4>3. QED
        BY <2>5, <4>1, <4>2 DEF Agree, AnswersMatch
    <3>3. QED
      BY <3>1, <3>2
  <2>6. ASSUME NEW g \in Handlers, client'[g] # Nobody, NEW i \in Handlers, client'[i] = client'[g]
        PROVE  i = g
    BY <2>2, <2>4, <2>6 DEF Agree, AnswersMatch
  <2>7. QED
    BY <2>5, <2>6 DEF AnswersMatch
<1>6. ASSUME NEW e \in Envelopes, NEW h \in Handlers, ServeStray(e, h)
      PROVE  AnswersMatch'
  <2>1. client[h] = Nobody
    BY <1>6 DEF ServeStray, Auth!Begin, Agree, ServedWasAccepted
  <2>2. \A g \in Handlers : g # h => body'[g] = body[g]
    BY <1>6 DEF ServeStray, Auth!Begin, Parts, Auth!IndInv, Auth!TypeOK
  <2>3. client' = client /\ call' = call
    BY <1>6 DEF ServeStray, swarmVars
  <2>4. QED
    BY <1>1, <2>1, <2>2, <2>3
<1>7. ASSUME NEW h \in Handlers, AnswerCall(h)
      PROVE  AnswersMatch'
  <2>1. body' = body /\ \A g \in Handlers : client'[g] = IF g = h THEN Nobody ELSE client[g]
    BY <1>7 DEF AnswerCall, Auth!Answer, Parts, TypeOK
  <2>2. CASE client[h] = Nobody
    BY <1>1, <1>7, <2>1, <2>2 DEF AnswerCall, swarmVars
  <2>3. CASE client[h] # Nobody
    <3>1. \A m \in Nodes, u \in Swarm!Topics :
            ~(m = client[h][1] /\ u = client[h][2]) => call'[m][u] = call[m][u]
      <4> DEFINE n == client[h][1]
                 t == client[h][2]
                 p == Result(h)
      <4>1. Moved(n, t, p)
        BY <1>7, <2>3 DEF AnswerCall, Swarm!Reply, Moved
      <4>2. n \in Nodes /\ t \in Swarm!Topics
        BY <2>3, ClientIs
      <4> HIDE DEF n, t, p
      <4>3. \A m \in Nodes, u \in Swarm!Topics : ~(m = n /\ u = t) => call'[m][u] = call[m][u]
        BY <4>1, <4>2, PhaseUpdate
      <4>4. QED
        BY <4>3 DEF n, t
    <3>2. ASSUME NEW g \in Handlers, g # h, client[g] # Nobody
          PROVE  call'[client[g][1]][client[g][2]] = call[client[g][1]][client[g][2]]
      <4>1. client[g] # client[h]
        BY <3>2 DEF Agree, AnswersMatch
      <4>2. QED
        BY <2>3, <3>1, <3>2, <4>1, ClientIs
    <3>3. QED
      BY <1>1, <2>1, <3>2
  <2>4. QED
    BY <2>2, <2>3
<1>8. ASSUME NEW n \in Nodes, NEW t \in Swarm!Topics, TimeoutCall(n, t)
      PROVE  AnswersMatch'
  <2>1. body' = body /\ \A g \in Handlers : client'[g] = IF client[g] = <<n, t>> THEN Nobody ELSE client[g]
    BY <1>8 DEF TimeoutCall, Orphan, authVars
  <2>2. \A m \in Nodes, u \in Swarm!Topics : ~(m = n /\ u = t) => call'[m][u] = call[m][u]
    BY <1>8, CallUpdate DEF TimeoutCall, Swarm!ForwardTimeout, Swarm!Hangup
  <2>3. ASSUME NEW g \in Handlers, client'[g] # Nobody
        PROVE  client'[g] = client[g] /\ call'[client[g][1]][client[g][2]] = call[client[g][1]][client[g][2]]
    BY <2>1, <2>2, <2>3, ClientIs
  <2>4. QED
    BY <1>1, <2>1, <2>3
<1>9. ASSUME NEW n \in Nodes, CrashNode(n)
      PROVE  AnswersMatch'
  <2>1. body' = body /\ \A g \in Handlers : client'[g] = IF client[g] \in {n} \X Swarm!Topics THEN Nobody ELSE client[g]
    BY <1>9 DEF CrashNode, Orphan, authVars
  <2>2. \A m \in Nodes : m # n => call'[m] = call[m]
    BY <1>9 DEF CrashNode, Swarm!Crash, Parts, Swarm!IndInv, Swarm!TypeOK
  <2>3. ASSUME NEW g \in Handlers, client'[g] # Nobody
        PROVE  client'[g] = client[g] /\ call'[client[g][1]][client[g][2]] = call[client[g][1]][client[g][2]]
    BY <2>1, <2>2, <2>3, ClientIs
  <2>4. QED
    BY <1>1, <2>1, <2>3
<1>10. CASE RestartAuthority
  BY <1>10 DEF RestartAuthority, AnswersMatch
<1>11. ASSUME NEW e \in Envelopes, StrayDies(e)
       PROVE  AnswersMatch'
  BY <1>2, <1>11 DEF StrayDies, swarmVars, authVars
<1>12. CASE UNCHANGED vars
  BY <1>2, <1>12 DEF vars, swarmVars, authVars
<1>13. QED
  BY <1>3, <1>4, <1>5, <1>6, <1>7, <1>8, <1>9, <1>10, <1>11, <1>12 DEF Next

\* What a handler that stores puts where: its own envelope's event.
LEMMA StoreIs ==
  ASSUME Parts, Agree, NEW h \in Handlers, Auth!Store(h)
  PROVE  /\ body[h] \in Envelopes /\ origin[body[h]] # NoNode
         /\ ev' = [ev EXCEPT ![h].id = body[h]]
         /\ events'[body[h]] # NoEvent
         /\ \A e \in Envelopes : e # body[h] => events'[e] = events[e]
<1>1. body[h] \in Envelopes /\ ev[h].id = body[h] /\ origin[body[h]] # NoNode
  BY DEF Parts, Auth!IndInv, Auth!TypeOK, Agree, ServedWasAccepted, Auth!Store
<1>2. ev[h].id # NoEnvelope
  BY <1>1, PartsAssumption DEF PartsAssumption, Auth!IdAssumption
<1>3. /\ ev' = [ev EXCEPT ![h].id = body[h]]
      /\ events' = [events EXCEPT ![body[h]] = [org |-> ev[h].org, conf |-> ev[h].conf]]
  BY <1>1, <1>2 DEF Auth!Store, Auth!Filed
<1>4. [org |-> ev[h].org, conf |-> ev[h].conf] \in [org : Orgs, conf : Int]
  BY DEF Parts, Auth!IndInv, Auth!TypeOK
<1>5. body[h] \in Auth!Ids
  BY <1>1 DEF Auth!Ids
<1>6. events'[body[h]] # NoEvent
  BY <1>3, <1>4, <1>5, PartsAssumption DEF PartsAssumption, Auth!IdAssumption, Parts, Auth!IndInv, Auth!TypeOK
<1>7. QED
  BY <1>1, <1>3, <1>6 DEF Parts, Auth!IndInv, Auth!TypeOK, Auth!Ids

\* What the other steps of the authority by itself leave alone.
LEMMA OtherAuthorityStep ==
  ASSUME Parts, AuthorityStep
  PROVE  \/ \E h \in Handlers : Auth!Store(h)
         \/ /\ UNCHANGED <<events, body>>
            /\ \A h \in Handlers : ev'[h].id = ev[h].id
            /\ \A h \in Handlers : pc'[h] = "idle" <=> pc[h] = "idle"
<1>1. ASSUME NEW h \in Handlers, Auth!ResolveOrg(h) \/ Auth!Classify(h)
      PROVE  /\ UNCHANGED <<events, body>>
             /\ \A g \in Handlers : ev'[g].id = ev[g].id
             /\ \A g \in Handlers : pc'[g] = "idle" <=> pc[g] = "idle"
  <2>1. /\ UNCHANGED <<events, body>> /\ pc[h] # "idle"
        /\ \E step \in {"classify", "store"} : pc' = [pc EXCEPT ![h] = step]
    BY <1>1 DEF Auth!ResolveOrg, Auth!Classify, Auth!Goto, Auth!storeVars
  <2>2. ASSUME NEW org, ev' = [ev EXCEPT ![h].org = org]
        PROVE  \A g \in Handlers : ev'[g].id = ev[g].id
    BY <2>2 DEF Parts, Auth!IndInv, Auth!TypeOK
  <2>3. ASSUME NEW conf, ev' = [ev EXCEPT ![h].conf = conf]
        PROVE  \A g \in Handlers : ev'[g].id = ev[g].id
    BY <2>3 DEF Parts, Auth!IndInv, Auth!TypeOK
  <2>4. CASE Auth!ResolveOrg(h)
    BY <2>1, <2>2, <2>4 DEF Auth!ResolveOrg, Parts, Auth!IndInv, Auth!TypeOK
  <2>5. CASE Auth!Classify(h)
    <3>1. PICK a \in Adjustments \cup {0} :
            ev' = [ev EXCEPT ![h].conf = Auth!Clamp(0, 1000, ev[h].conf + Auth!ClampAdjustment(a))]
      BY <2>5 DEF Auth!Classify
    <3>2. QED
      BY <2>1, <2>3, <3>1 DEF Parts, Auth!IndInv, Auth!TypeOK
  <2>6. QED
    BY <1>1, <2>4, <2>5
<1>2. ASSUME NEW h \in Handlers, Auth!LockClients(h) \/ Auth!UnlockClients(h)
      PROVE  /\ UNCHANGED <<events, body, ev>>
             /\ \A g \in Handlers : pc'[g] = "idle" <=> pc[g] = "idle"
  BY <1>2 DEF Auth!LockClients, Auth!UnlockClients, Auth!Goto, Auth!storeVars, Parts, Auth!IndInv, Auth!TypeOK
<1>3. ASSUME \/ \E h \in Handlers, c \in Conns : Auth!Visit(h, c) \/ Auth!WriteFrame(h, c) \/ Auth!DropClient(h, c)
             \/ Auth!Peers
      PROVE  UNCHANGED <<events, body, ev, pc>>
  BY <1>3 DEF Auth!Visit, Auth!WriteFrame, Auth!DropClient, Auth!Peers, Auth!Connect, Auth!ReadFails, Auth!PeerStalls,
    Auth!PeerResumes, Auth!PeerVanishes, Auth!PeerMoves, Auth!storeVars
<1>4. QED
  BY <1>1, <1>2, <1>3 DEF AuthorityStep, Auth!Handle

\* A handler that begins serves the envelope of the request.
LEMMA BeginIs ==
  ASSUME Parts, NEW h \in Handlers, NEW e \in Envelopes, Auth!Begin(h, e)
  PROVE  /\ pc[h] = "idle" /\ pc'[h] # "idle" /\ body'[h] = e /\ ev'[h].id = e
         /\ \A g \in Handlers : g # h => pc'[g] = pc[g] /\ body'[g] = body[g] /\ ev'[g] = ev[g]
         /\ events' = events
<1>1. [f \in Envelopes |-> RestBody(f)][e].envelope = e
  BY DEF RestBody
<1>2. QED
  BY <1>1 DEF Auth!Begin, Auth!Goto, Auth!storeVars, Parts, Auth!IndInv, Auth!TypeOK

LEMMA ServedWasAcceptedStep ==
  ASSUME Parts, Agree, [Next]_vars
  PROVE  ServedWasAccepted'
<1> DEFINE Served(h) ==
      (pc[h] # "idle" => origin[body[h]] # NoNode /\ ev[h].id = body[h]) /\ (client[h] # Nobody => pc[h] # "idle")
<1>1. \A h \in Handlers : Served(h)
  BY DEF Agree, ServedWasAccepted
<1>2. \A h \in Handlers : body[h] \in Envelopes
  BY DEF Parts, Auth!IndInv, Auth!TypeOK
<1>3. \A e \in Envelopes : origin[e] # NoNode => origin'[e] # NoNode
  BY AcceptedStays
\* (<1>4: a handler that is left alone, but for its client that may be gone.)
<1>4. ASSUME NEW h \in Handlers, body'[h] = body[h], ev'[h].id = ev[h].id, pc'[h] = "idle" <=> pc[h] = "idle",
             client'[h] # Nobody => client'[h] = client[h]
      PROVE  Served(h)'
  BY <1>1, <1>2, <1>3, <1>4
<1>5. CASE SwarmStep \/ UNCHANGED vars \/ \E e \in Envelopes : StrayDies(e)
  BY <1>4, <1>5 DEF SwarmStep, StrayDies, authVars, vars, ServedWasAccepted
<1>6. CASE AuthorityStep
  <2>1. client' = client
    BY <1>6 DEF AuthorityStep
  <2>2. ASSUME NEW h \in Handlers, Auth!Store(h), NEW g \in Handlers
        PROVE  body'[g] = body[g] /\ ev'[g].id = ev[g].id /\ (pc'[g] = "idle" <=> pc[g] = "idle")
    <3>1. ev' = [ev EXCEPT ![h].id = body[h]] /\ ev[h].id = body[h]
      BY <1>1, <2>2, StoreIs DEF Auth!Store
    <3>2. body' = body /\ pc' = [pc EXCEPT ![h] = "broadcast"] /\ pc[h] = "store"
      BY <2>2 DEF Auth!Store, Auth!Goto
    <3>3. QED
      BY <3>1, <3>2 DEF Parts, Auth!IndInv, Auth!TypeOK
  <2>3. QED
    BY <1>4, <1>6, <2>1, <2>2, OtherAuthorityStep DEF ServedWasAccepted
<1>7. ASSUME NEW h \in Handlers, NEW e \in Envelopes, Auth!Begin(h, e), origin[e] # NoNode,
             \A g \in Handlers : g # h => client'[g] = client[g]
      PROVE  ServedWasAccepted'
  <2>1. Served(h)'
    BY <1>3, <1>7, BeginIs
  <2>2. ASSUME NEW g \in Handlers, g # h
        PROVE  Served(g)'
    BY <1>4, <1>7, <2>2, BeginIs
  <2>3. QED
    BY <2>1, <2>2 DEF ServedWasAccepted
<1>8. ASSUME NEW n \in Nodes, NEW t \in Swarm!Topics, NEW h \in Handlers, ServeCall(n, t, h)
      PROVE  ServedWasAccepted'
  <2>1. call[n][t].env \in Envelopes /\ origin[call[n][t].env] # NoNode
    BY <1>8, CallIsAccepted DEF ServeCall, Swarm!Serve
  <2>2. \A g \in Handlers : g # h => client'[g] = client[g]
    BY <1>8 DEF ServeCall, Parts, TypeOK
  <2>3. QED
    BY <1>7, <1>8, <2>1, <2>2 DEF ServeCall
<1>9. ASSUME NEW e \in Envelopes, NEW h \in Handlers, ServeStray(e, h)
      PROVE  ServedWasAccepted'
  <2>1. origin[e] # NoNode
    BY <1>9 DEF ServeStray, Agree, StraysWereAccepted
  <2>2. QED
    BY <1>7, <1>9, <2>1 DEF ServeStray
<1>10. ASSUME NEW h \in Handlers, AnswerCall(h)
       PROVE  ServedWasAccepted'
  <2>1. pc'[h] = "idle" /\ client'[h] = Nobody
    BY <1>10 DEF AnswerCall, Auth!Answer, Auth!Goto, Parts, Auth!IndInv, Auth!TypeOK, TypeOK
  <2>2. ASSUME NEW g \in Handlers, g # h
        PROVE  body'[g] = body[g] /\ ev'[g] = ev[g] /\ pc'[g] = pc[g] /\ client'[g] = client[g]
    BY <1>10, <2>2 DEF AnswerCall, Auth!Answer, Auth!Goto, Parts, Auth!IndInv, Auth!TypeOK, TypeOK
  <2>3. QED
    BY <1>4, <2>1, <2>2 DEF ServedWasAccepted
<1>11. ASSUME NEW gone, Orphan(gone), UNCHANGED authVars
       PROVE  ServedWasAccepted'
  <2>1. \A h \in Handlers : client'[h] # Nobody => client'[h] = client[h]
    BY <1>11 DEF Orphan
  <2>2. body' = body /\ ev' = ev /\ pc' = pc
    BY <1>11 DEF authVars
  <2>3. QED
    BY <1>4, <2>1, <2>2 DEF ServedWasAccepted
<1>12. CASE RestartAuthority
  BY <1>12 DEF RestartAuthority, Auth!Restart, ServedWasAccepted
<1>13. QED
  BY <1>5, <1>6, <1>8, <1>9, <1>10, <1>11, <1>12 DEF Next, TimeoutCall, CrashNode

LEMMA StraysWereAcceptedStep ==
  ASSUME Parts, Agree, [Next]_vars
  PROVE  StraysWereAccepted'
<1>1. \A e \in Envelopes : origin[e] # NoNode => origin'[e] # NoNode
  BY AcceptedStays
<1>2. ASSUME \A e \in Envelopes : stray'[e] > 0 => stray[e] > 0 \/ origin[e] # NoNode
      PROVE  StraysWereAccepted'
  BY <1>1, <1>2 DEF Agree, StraysWereAccepted
<1>3. ASSUME NEW requests \in SUBSET {e \in Envelopes : origin[e] # NoNode}, Abandon(requests)
      PROVE  StraysWereAccepted'
  <2>1. \A e \in Envelopes : stray'[e] > 0 => stray[e] > 0 \/ e \in requests
    BY <1>3 DEF Abandon
  <2>2. QED
    BY <1>2, <1>3, <2>1
<1>4. ASSUME NEW n \in Nodes, NEW t \in Swarm!Topics, TimeoutCall(n, t)
      PROVE  StraysWereAccepted'
  <2>1. call[n][t].phase = "sent" => call[n][t].env \in Envelopes /\ origin[call[n][t].env] # NoNode
    BY CallIsAccepted
  <2>2. (IF call[n][t].phase = "sent" THEN {call[n][t].env} ELSE {}) \in SUBSET {e \in Envelopes : origin[e] # NoNode}
    BY <2>1
  <2>3. QED
    BY <1>3, <1>4, <2>2 DEF TimeoutCall
<1>5. ASSUME NEW n \in Nodes, CrashNode(n)
      PROVE  StraysWereAccepted'
  <2> DEFINE cut == {e \in Envelopes : \E t \in Swarm!Topics : call[n][t] = [env |-> e, phase |-> "sent"]}
  <2>1. ASSUME NEW e \in cut
        PROVE  origin[e] # NoNode
    <3>1. PICK t \in Swarm!Topics : call[n][t] = [env |-> e, phase |-> "sent"]
      OBVIOUS
    <3>2. call[n][t].phase = "sent" /\ call[n][t].env = e
      BY <3>1
    <3>3. QED
      BY <3>2, CallIsAccepted
  <2>2. cut \in SUBSET {e \in Envelopes : origin[e] # NoNode}
    BY <2>1
  <2>3. Abandon(cut)
    BY <1>5 DEF CrashNode
  <2>4. QED
    BY <1>3, <2>2, <2>3
<1>6. ASSUME NEW e \in Envelopes, stray[e] > 0, stray' = [stray EXCEPT ![e] = @ - 1]
      PROVE  StraysWereAccepted'
  BY <1>2, <1>6 DEF Parts, TypeOK
<1>7. CASE UNCHANGED stray
  BY <1>2, <1>7
<1>8. QED
  BY <1>4, <1>5, <1>6, <1>7 DEF Next, vars, SwarmStep, AuthorityStep, ServeCall, ServeStray, StrayDies, AnswerCall,
    RestartAuthority

\* The events of the envelopes change by a store or by a restart.
LEMMA EventsChange ==
  ASSUME Parts, Agree, [Next]_vars
  PROVE  \/ \A e \in Envelopes : events'[e] = events[e]
         \/ AuthorityStep /\ \E h \in Handlers : Auth!Store(h)
         \/ RestartAuthority
<1>1. CASE AuthorityStep
  BY <1>1, OtherAuthorityStep
<1>2. ASSUME NEW h \in Handlers, AnswerCall(h)
      PROVE  events' = events
  BY <1>2 DEF AnswerCall, Auth!Answer, Auth!storeVars
<1>3. ASSUME NEW h \in Handlers, NEW e, Auth!Begin(h, e)
      PROVE  events' = events
  BY <1>3 DEF Auth!Begin, Auth!storeVars
<1>4. QED
  BY <1>1, <1>2, <1>3 DEF Next, vars, authVars, SwarmStep, ServeCall, ServeStray, StrayDies, TimeoutCall, CrashNode

LEMMA EverWasAcceptedStep ==
  ASSUME Parts, Agree, [Next]_vars
  PROVE  EverWasAccepted'
<1>1. \A e \in Envelopes : origin[e] # NoNode => origin'[e] # NoNode
  BY AcceptedStays
<1>2. CASE UNCHANGED vars
  BY <1>2 DEF vars, swarmVars, authVars, Agree, EverWasAccepted
<1>3. CASE Next
  <2>1. ever' = ever \cup {e \in Envelopes : events'[e] # NoEvent}
    BY <1>3 DEF Next, Remember
  <2>2. ASSUME NEW e \in Envelopes, events'[e] # NoEvent, events[e] = NoEvent
        PROVE  origin[e] # NoNode
    BY <2>2, EventsChange, StoreIs DEF RestartAuthority, Auth!Restart, Auth!Ids
  <2>3. QED
    BY <1>1, <2>1, <2>2 DEF Agree, EverWasAccepted
<1>4. QED
  BY <1>2, <1>3

LEMMA AgreeInit == Init => Agree
<1> SUFFICES ASSUME Init PROVE Agree
  OBVIOUS
<1>1. \A h \in Handlers : client[h] = Nobody /\ pc[h] = "idle"
  BY DEF Init, Auth!Init, Auth!InitMemory
<1>2. \A e \in Envelopes : stray[e] = 0 /\ e \notin ever /\ events[e] = NoEvent
  BY DEF Init, Auth!Init, Auth!InitMemory, Auth!Ids
<1>3. QED
  BY <1>1, <1>2 DEF Agree, AnswersMatch, ServedWasAccepted, StraysWereAccepted, EverWasAccepted

LEMMA AgreeStep == Parts /\ Agree /\ [Next]_vars => Agree'
BY AnswersMatchStep, ServedWasAcceptedStep, StraysWereAcceptedStep, EverWasAcceptedStep DEF Agree

LEMMA Invariance == Spec => [](Parts /\ Agree)
<1>1. Spec => []Parts
  BY PartsKeepTheirInvariants DEF Parts
<1>2. QED
  BY <1>1, AgreeInit, AgreeStep, PTL DEF Spec

-----------------------------------------------------------------------------
(***************************************************************************)
(* The pipeline implements the ledger.                                     *)
(***************************************************************************)

\* The refinement mapping of ImplementsLedger.
Status == [e \in Envelopes |->
             IF events[e] # NoEvent THEN "recorded"
             ELSE IF e \in ever THEN "forgotten"
             ELSE IF origin[e] # NoNode THEN "accepted" ELSE "unknown"]
Told == {e \in Envelopes : \E n \in Nodes, t \in Swarm!Topics : call[n][t] = [env |-> e, phase |-> "ok"]}

\* The ledger's actions, in terms of the mapping.
LEMMA LedgerIs ==
  /\ Ledger!LedgerInit <=> Status = [e \in Envelopes |-> "unknown"] /\ Told = {}
  /\ \A e \in Envelopes :
       Status[e] = "unknown" /\ Status' = [Status EXCEPT ![e] = "accepted"] /\ Told' = Told => Ledger!Accept(e)
  /\ \A e \in Envelopes :
       Status[e] \in {"accepted", "forgotten"} /\ Status' = [Status EXCEPT ![e] = "recorded"] /\ Told' = Told
         => Ledger!Record(e)
  /\ \A e \in Envelopes : Status[e] = "recorded" /\ Told' = Told \cup {e} /\ Status' = Status => Ledger!Tell(e)
  /\ Told' \in SUBSET Told /\ Status' = Status => Ledger!Settle
  /\ /\ Status' = [e \in Envelopes |-> IF Status[e] = "recorded" THEN "forgotten" ELSE Status[e]]
     /\ Told' = Told
     => Ledger!Forget
BY DEF Status, Told, Ledger!LedgerInit, Ledger!Accept, Ledger!Record, Ledger!Tell, Ledger!Settle, Ledger!Forget

\* As long as no event is stored or forgotten, ever stays what it is.
LEMMA EverStays ==
  ASSUME Agree, [Next]_vars, \A e \in Envelopes : events'[e] # NoEvent => events[e] # NoEvent
  PROVE  \A e \in Envelopes : e \in ever' <=> e \in ever
  BY DEF Next, Remember, vars, Agree, EverWasAccepted

LEMMA StatusStays ==
  ASSUME Agree, [Next]_vars, origin' = origin, \A e \in Envelopes : events'[e] = events[e]
  PROVE  Status' = Status
<1>1. \A e \in Envelopes : e \in ever' <=> e \in ever
  BY EverStays
<1>2. QED
  BY <1>1 DEF Status

\* A step that brings no goroutine to "ok" tells nobody anything new.
LEMMA ToldShrinks ==
  ASSUME \A n \in Nodes, t \in Swarm!Topics : call'[n][t].phase = "ok" => call'[n][t] = call[n][t]
  PROVE  Told' \in SUBSET Told
<1>1. ASSUME NEW e \in Told'
      PROVE  e \in Told
  <2>1. PICK n \in Nodes, t \in Swarm!Topics : call'[n][t] = [env |-> e, phase |-> "ok"] /\ e \in Envelopes
    BY DEF Told
  <2>2. call'[n][t].phase = "ok"
    BY <2>1
  <2>3. call[n][t] = [env |-> e, phase |-> "ok"]
    BY <2>1, <2>2
  <2>4. QED
    BY <2>1, <2>3 DEF Told
<1>2. QED
  BY <1>1

LEMMA ToldStays ==
  ASSUME call' = call
  PROVE  Told' = Told
  BY DEF Told

LEMMA IngestRefines ==
  ASSUME Parts, Agree, [Next]_vars, UNCHANGED authVars,
         NEW n \in Nodes, NEW e \in Envelopes, Swarm!Ingest(n, e)
  PROVE  Ledger!Accept(e)
<1>1. origin[e] = NoNode /\ origin' = [origin EXCEPT ![e] = n] /\ call' = call
  BY DEF Swarm!Ingest
<1>2. n # NoNode
  BY PartsAssumption DEF PartsAssumption, Swarm!NamesAssumption
<1>3. events' = events
  BY DEF authVars
<1>4. \A f \in Envelopes : f \in ever' <=> f \in ever
  BY <1>3, EverStays
<1>5. e \notin ever /\ events[e] = NoEvent
  BY <1>1 DEF Agree, EverWasAccepted
<1>6. \A f \in Envelopes : origin'[f] = IF f = e THEN n ELSE origin[f]
  BY <1>1 DEF Parts, Swarm!IndInv, Swarm!TypeOK
<1>7. Status[e] = "unknown"
  BY <1>1, <1>5 DEF Status
<1>8. Status' = [Status EXCEPT ![e] = "accepted"]
  BY <1>2, <1>3, <1>4, <1>5, <1>6 DEF Status
<1>9. QED
  BY <1>1, <1>7, <1>8, ToldStays, LedgerIs

LEMMA StoreRefines ==
  ASSUME Parts, Agree, [Next]_vars, UNCHANGED swarmVars, NEW h \in Handlers, Auth!Store(h)
  PROVE  (\E e \in Envelopes : Ledger!Record(e)) \/ (Status' = Status /\ Told' = Told)
<1>1. /\ body[h] \in Envelopes /\ origin[body[h]] # NoNode /\ events'[body[h]] # NoEvent
      /\ \A e \in Envelopes : e # body[h] => events'[e] = events[e]
  BY StoreIs
<1>2. origin' = origin /\ Told' = Told
  BY ToldStays DEF swarmVars
<1>3. \A e \in Envelopes : e # body[h] => (e \in ever' <=> e \in ever)
  BY <1>1 DEF Next, Remember, vars, Agree, EverWasAccepted
<1>4. CASE events[body[h]] # NoEvent
  BY <1>1, <1>2, <1>3, <1>4 DEF Status
<1>5. CASE events[body[h]] = NoEvent
  <2>1. Status[body[h]] \in {"accepted", "forgotten"}
    BY <1>1, <1>5 DEF Status
  <2>2. Status' = [Status EXCEPT ![body[h]] = "recorded"]
    BY <1>1, <1>2, <1>3 DEF Status
  <2>3. PICK e \in Envelopes : e = body[h]
    BY <1>1
  <2>4. Ledger!Record(e)
    BY <1>2, <2>1, <2>2, <2>3, LedgerIs
  <2>5. QED
    BY <2>4
<1>6. QED
  BY <1>4, <1>5

LEMMA AnswerRefines ==
  ASSUME Parts, Agree, [Next]_vars, NEW h \in Handlers, AnswerCall(h)
  PROVE  Ledger!Settle \/ \E e \in Envelopes : Ledger!Tell(e)
<1>1. events' = events
  BY DEF AnswerCall, Auth!Answer, Auth!storeVars
<1>2. origin' = origin
  BY DEF AnswerCall, swarmVars, Swarm!Reply, Swarm!netVars
<1>3. Status' = Status
  BY <1>1, <1>2, StatusStays
<1>4. CASE client[h] = Nobody
  <2>1. call' = call
    BY <1>4 DEF AnswerCall, swarmVars
  <2>2. QED
    BY <1>3, <2>1, ToldStays, LedgerIs
<1>5. CASE client[h] # Nobody
  <2> DEFINE n == client[h][1]
             t == client[h][2]
             p == Result(h)
  <2>1. n \in Nodes /\ t \in Swarm!Topics
    BY <1>5, ClientIs
  <2>2. Moved(n, t, p)
    BY <1>5 DEF AnswerCall, Swarm!Reply, Moved
  <2>3. call[n][t].env = body[h] /\ body[h] \in Envelopes
    BY <1>5, ClientIsServed DEF Parts, Auth!IndInv, Auth!TypeOK
  <2> HIDE DEF n, t, p
  <2>4. /\ call'[n][t] \in [env : {body[h]}, phase : {p}]
        /\ \A m \in Nodes, u \in Swarm!Topics : ~(m = n /\ u = t) => call'[m][u] = call[m][u]
    <3>1. /\ call'[n][t] \in [env : {call[n][t].env}, phase : {p}]
          /\ \A m \in Nodes, u \in Swarm!Topics : ~(m = n /\ u = t) => call'[m][u] = call[m][u]
      BY <2>1, <2>2, PhaseUpdate
    <3>2. QED
      BY <2>3, <3>1
  <2>5. CASE pc[h] # "done"
    <3>1. p = "error"
      BY <2>5 DEF p, Result
    <3>2. call'[n][t].phase = "error"
      BY <2>4, <3>1
    <3>3. Told' \in SUBSET Told
      BY <2>1, <2>4, <3>2, ToldShrinks
    <3>4. QED
      BY <1>3, <3>3, LedgerIs
  <2>6. CASE pc[h] = "done"
    <3>1. p = "ok"
      BY <2>6 DEF p, Result
    <3>2. call'[n][t] = [env |-> body[h], phase |-> "ok"]
      BY <2>4, <3>1
    <3>3. call[n][t].phase = "serving"
      BY <1>5, ClientIsServed DEF n, t
    <3>4. ASSUME NEW e \in Envelopes
          PROVE  e \in Told' <=> e \in Told \/ e = body[h]
      <4>1. call[n][t] # [env |-> e, phase |-> "ok"]
        BY <3>3
      <4>2. call'[n][t] = [env |-> e, phase |-> "ok"] <=> e = body[h]
        BY <3>2
      <4>3. QED
        BY <2>1, <2>4, <4>1, <4>2 DEF Told
    <3>5. Told' = Told \cup {body[h]}
      BY <2>3, <3>4 DEF Told
    <3>6. Status[body[h]] = "recorded"
      <4>1. ev[h].id = body[h] /\ events[ev[h].id] # NoEvent
        BY <2>6 DEF Agree, ServedWasAccepted, Parts, Auth!IndInv, Auth!StoreInv, Auth!StoredFirst
      <4>2. QED
        BY <2>3, <4>1 DEF Status
    <3>7. QED
      BY <1>3, <2>3, <3>5, <3>6, LedgerIs
  <2>7. QED
    BY <2>5, <2>6
<1>6. QED
  BY <1>4, <1>5

\* A step in which no event, no origin and no goroutine's success comes about.
LEMMA SettleRefines ==
  ASSUME Agree, [Next]_vars, UNCHANGED <<origin, events>>,
         \A n \in Nodes, t \in Swarm!Topics : call'[n][t].phase = "ok" => call'[n][t] = call[n][t]
  PROVE  Ledger!Settle
  BY StatusStays, ToldShrinks, LedgerIs

LEMMA SwarmStepRefines ==
  ASSUME Parts, Agree, [Next]_vars, SwarmStep
  PROVE  Ledger!LedgerNext
<1>1. UNCHANGED authVars /\ events' = events
  BY DEF SwarmStep, authVars
<1>2. ASSUME NEW n \in Nodes, NEW e \in Envelopes, Swarm!Ingest(n, e)
      PROVE  Ledger!LedgerNext
  BY <1>1, <1>2, IngestRefines DEF Ledger!LedgerNext
<1>3. ASSUME NEW n \in Nodes, NEW t \in Swarm!Topics, Swarm!StartForward(n, t) \/ Swarm!ForwardDone(n, t)
      PROVE  Ledger!Settle
  <2> DEFINE post == [env |-> Swarm!Next1(n, t), phase |-> "sent"]
  <2>1. origin' = origin
    BY <1>3 DEF Swarm!StartForward, Swarm!ForwardDone, Swarm!netVars
  <2>2. call'[n][t] = post \/ call'[n][t] = Swarm!IdleCall
    BY <1>3, CallUpdate DEF Swarm!StartForward, Swarm!ForwardDone, Swarm!Hangup
  <2>3. call'[n][t].phase # "ok"
    BY <2>2 DEF Swarm!IdleCall
  <2>4. \A m \in Nodes, u \in Swarm!Topics : ~(m = n /\ u = t) => call'[m][u] = call[m][u]
    BY <1>3, CallUpdate DEF Swarm!StartForward, Swarm!ForwardDone, Swarm!Hangup
  <2>5. QED
    BY <1>1, <2>1, <2>3, <2>4, SettleRefines
<1>4. ASSUME UNCHANGED <<origin, call>>
      PROVE  Ledger!Settle
  BY <1>1, <1>4, SettleRefines
<1>5. QED
  BY <1>2, <1>3, <1>4 DEF Ledger!LedgerNext, SwarmStep, Swarm!NodeNext, Swarm!Deliver, Swarm!Receive, Swarm!SkipDuplicate,
    Swarm!SkipForeign, Swarm!Cleanup, Swarm!Tick, Swarm!Restart, Swarm!nodeVars, Swarm!netVars

LEMMA RestartRefines ==
  ASSUME Agree, [Next]_vars, RestartAuthority
  PROVE  Ledger!Forget
<1>1. origin' = origin /\ Told' = Told
  BY ToldStays DEF RestartAuthority, swarmVars
<1>2. \A e \in Envelopes : events'[e] = NoEvent
  BY DEF RestartAuthority, Auth!Restart, Auth!Ids
<1>3. \A e \in Envelopes : e \in ever' <=> e \in ever
  BY <1>2, EverStays
<1>4. \A e \in Envelopes : events[e] # NoEvent => e \in ever
  BY DEF Agree, EverWasAccepted
<1>5. Status' = [e \in Envelopes |-> IF Status[e] = "recorded" THEN "forgotten" ELSE Status[e]]
  BY <1>1, <1>2, <1>3, <1>4 DEF Status
<1>6. QED
  BY <1>1, <1>5, LedgerIs

\* Every step of the pipeline is a step of the ledger, or a stutter.
LEMMA StepRefines ==
  ASSUME Parts, Agree, [Next]_vars
  PROVE  [Ledger!LedgerNext]_(Ledger!ledgerVars)
<1>1. CASE UNCHANGED vars
  <2>1. Status' = Status /\ Told' = Told
    BY <1>1, ToldStays DEF vars, swarmVars, authVars, Status
  <2>2. QED
    BY <2>1, LedgerIs DEF Ledger!LedgerNext
<1>2. CASE SwarmStep
  BY <1>2, SwarmStepRefines
<1>3. CASE AuthorityStep
  <2>1. ASSUME NEW h \in Handlers, Auth!Store(h)
        PROVE  Ledger!LedgerNext
    <3>1. (\E e \in Envelopes : Ledger!Record(e)) \/ Ledger!Settle
      BY <1>3, <2>1, StoreRefines, LedgerIs DEF AuthorityStep
    <3>2. QED
      BY <3>1 DEF Ledger!LedgerNext
  <2>2. CASE events' = events
    BY <1>3, <2>2, SettleRefines DEF AuthorityStep, swarmVars, Ledger!LedgerNext
  <2>3. QED
    BY <1>3, <2>1, <2>2, OtherAuthorityStep
<1>4. ASSUME NEW n \in Nodes, NEW t \in Swarm!Topics, NEW h \in Handlers, ServeCall(n, t, h)
      PROVE  Ledger!Settle
  <2>1. /\ call'[n][t] \in [env : {call[n][t].env}, phase : {"serving"}]
        /\ \A m \in Nodes, u \in Swarm!Topics : ~(m = n /\ u = t) => call'[m][u] = call[m][u]
    BY <1>4, PhaseUpdate DEF ServeCall, Swarm!Serve, Moved
  <2>2. call'[n][t].phase # "ok"
    BY <2>1
  <2>3. UNCHANGED <<origin, events>>
    BY <1>4 DEF ServeCall, Swarm!Serve, Swarm!netVars, Auth!Begin, Auth!storeVars
  <2>4. QED
    BY <2>1, <2>2, <2>3, SettleRefines
<1>5. ASSUME NEW e \in Envelopes, StrayDies(e) \/ \E h \in Handlers : ServeStray(e, h)
      PROVE  Ledger!Settle
  <2>1. UNCHANGED <<origin, events, call>>
    BY <1>5 DEF StrayDies, ServeStray, swarmVars, authVars, Auth!Begin, Auth!storeVars
  <2>2. QED
    BY <2>1, SettleRefines
<1>6. ASSUME NEW h \in Handlers, AnswerCall(h)
      PROVE  Ledger!LedgerNext
  BY <1>6, AnswerRefines DEF Ledger!LedgerNext
<1>7. ASSUME NEW n \in Nodes, NEW t \in Swarm!Topics, TimeoutCall(n, t)
      PROVE  Ledger!Settle
  <2>1. /\ call'[n][t].phase # "ok"
        /\ \A m \in Nodes, u \in Swarm!Topics : ~(m = n /\ u = t) => call'[m][u] = call[m][u]
    BY <1>7, CallUpdate DEF TimeoutCall, Swarm!ForwardTimeout, Swarm!Hangup, Swarm!IdleCall
  <2>2. UNCHANGED <<origin, events>>
    BY <1>7 DEF TimeoutCall, Swarm!ForwardTimeout, Swarm!netVars, authVars
  <2>3. QED
    BY <2>1, <2>2, SettleRefines
<1>8. ASSUME NEW n \in Nodes, CrashNode(n)
      PROVE  Ledger!Settle
  <2>1. \A t \in Swarm!Topics : call'[n][t].phase # "ok"
    BY <1>8 DEF CrashNode, Swarm!Crash, Swarm!IdleCall, Parts, Swarm!IndInv, Swarm!TypeOK
  <2>2. \A m \in Nodes : m # n => call'[m] = call[m]
    BY <1>8 DEF CrashNode, Swarm!Crash, Parts, Swarm!IndInv, Swarm!TypeOK
  <2>3. UNCHANGED <<origin, events>>
    BY <1>8 DEF CrashNode, Swarm!Crash, Swarm!netVars, authVars
  <2>4. QED
    BY <2>1, <2>2, <2>3, SettleRefines
<1>9. CASE RestartAuthority
  BY <1>9, RestartRefines DEF Ledger!LedgerNext
<1>10. QED
  BY <1>1, <1>2, <1>3, <1>4, <1>5, <1>6, <1>7, <1>8, <1>9 DEF Next, Ledger!LedgerNext

LEMMA InitRefines == Init => Ledger!LedgerInit
<1> SUFFICES ASSUME Init PROVE Ledger!LedgerInit
  OBVIOUS
<1>1. \A e \in Envelopes : events[e] = NoEvent /\ e \notin ever /\ origin[e] = NoNode
  BY DEF Init, Auth!Init, Auth!InitMemory, Auth!Ids, Swarm!Init
<1>2. \A n \in Nodes, t \in Swarm!Topics : call[n][t].phase = "idle"
  BY DEF Init, Swarm!Init, Swarm!IdleCall
<1>3. Told = {}
  <2>1. ASSUME NEW e \in Envelopes, NEW n \in Nodes, NEW t \in Swarm!Topics, call[n][t] = [env |-> e, phase |-> "ok"]
        PROVE  FALSE
    <3>1. call[n][t].phase = "ok"
      BY <2>1
    <3>2. QED
      BY <1>2, <3>1
  <2>2. QED
    BY <2>1 DEF Told
<1>4. Status = [e \in Envelopes |-> "unknown"]
  BY <1>1 DEF Status
<1>5. QED
  BY <1>3, <1>4, LedgerIs

\* The pipeline implements the ledger, for any number of nodes, envelopes,
\* handlers, crashes and restarts: recorded only when accepted, told of success
\* only when recorded, forgotten only as a whole.
THEOREM PipelineImplementsLedger == Spec => ImplementsLedger
<1>1. Parts /\ Agree /\ [Next]_vars => [Ledger!LedgerNext]_(Ledger!ledgerVars)
  BY StepRefines
<1>2. QED
  BY Invariance, InitRefines, <1>1, PTL DEF Spec, ImplementsLedger, Ledger!LedgerSpec

=============================================================================

