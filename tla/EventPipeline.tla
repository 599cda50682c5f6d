--------------------------- MODULE EventPipeline ---------------------------
(***************************************************************************)
(* The deployed event path: the swarm nodes (SwarmMesh) forwarding over    *)
(* HTTP (SWARM_FORWARD_MODE=http in docker-compose.yml) to the authority   *)
(* (Authority).                                                            *)
(*                                                                         *)
(* A subscription goroutine waits for the answer of the handler that       *)
(* serves its POST, or gives up after its client's timeout, in which case  *)
(* the handler works on for nobody.  Either process may die while the      *)
(* other goes on.                                                          *)
(***************************************************************************)
EXTENDS Integers, Sequences, FiniteSets

CONSTANTS
  Nodes, Envelopes, NoNode, NoEnvelope, TopicOf, Confidence, Capacity,
  RedispatchTimeout, MaxTime, MaxCrashes,
  Stamps, Orgs, NoOrg, NoEvent, Handlers, Conns, Free, Adjustments, MaxPosts,
  MaxRestarts,
  KeyOrg,     \* organisation of the api_key each envelope was accepted with
  Nobody,     \* a handler whose requester is gone
  MaxStray    \* bound on abandoned requests per envelope

ASSUME StrayAssumption == MaxStray \in Nat

VARIABLES
  now, up, origin, mesh, inbox, call, seen, crashes,
  lastPost, attempted, lost,
  pc, body, ev, events, wsClients, socket, wsMu, todo, facing, posts, restarts, got, audience,
  client,     \* the goroutine each handler answers, or Nobody
  stray,      \* requests whose sender gave up before they were read
  ever        \* history: envelopes the authority has ever stored

\* forwardToValidatorREST: the confidence goes out as a whole number of
\* percent, and once more as the fraction it was.
RestBody(e) ==
  [envelope |-> e, nested |-> FALSE, named |-> TRUE,
   conf  |-> 1000 * ((Confidence[e] * 100) \div 1000),
   confF |-> Confidence[e],
   caller |-> "internal", keyOrg |-> KeyOrg[e]]

Swarm == INSTANCE SwarmMesh
Auth  == INSTANCE Authority
           WITH Bodies <- Envelopes, Body <- [e \in Envelopes |-> RestBody(e)]

swarmVars == <<now, up, origin, mesh, inbox, call, seen, crashes,
               lastPost, attempted, lost>>
authVars  == <<pc, body, ev, events, wsClients, socket, wsMu, todo, facing, posts,
               restarts, got, audience>>
vars == <<swarmVars, authVars, client, stray, ever>>

Requesters == Nodes \X Swarm!Topics

\* The two parts' assumptions; every api_key belongs to an organisation.
ASSUME PartsAssumption ==
  /\ Swarm!NamesAssumption /\ Swarm!TopicAssumption /\ Swarm!ConfidenceAssumption /\ Swarm!NumbersAssumption
  /\ Envelopes # {} /\ KeyOrg \in [Envelopes -> Orgs]
  /\ Auth!OrgAssumption /\ Auth!IdAssumption /\ Auth!LockAssumption /\ Auth!BoundsAssumption
ASSUME ClientAssumption == Nobody \notin Requesters

TypeOK ==
  /\ Swarm!TypeOK
  /\ Auth!TypeOK
  /\ client \in [Handlers -> Requesters \cup {Nobody}]
  /\ stray \in [Envelopes -> 0 .. MaxStray]
  /\ ever \in SUBSET Envelopes

Init ==
  /\ Swarm!Init
  /\ Auth!Init
  /\ client = [h \in Handlers |-> Nobody]
  /\ stray = [e \in Envelopes |-> 0]
  /\ ever = {}

Remember == ever' = ever \cup {e \in Envelopes : events'[e] # NoEvent}

\* Handlers that worked for a goroutine in gone work for Nobody.
Orphan(gone) ==
  client' = [h \in Handlers |-> IF client[h] \in gone THEN Nobody ELSE client[h]]

\* A request whose sender is gone is still under way, or was cut off.
Abandon(requests) ==
  \E kept \in SUBSET requests :
    stray' = [e \in Envelopes |->
                IF e \in kept /\ stray[e] < MaxStray THEN stray[e] + 1 ELSE stray[e]]

-----------------------------------------------------------------------------
\* The authority reads a POST that is waiting for it.
ServeCall(n, t, h) ==
  /\ Swarm!Serve(n, t)
  /\ Auth!Begin(h, call[n][t].env)
  /\ client' = [client EXCEPT ![h] = <<n, t>>]
  /\ UNCHANGED stray

\* It reads one whose sender has given up.
ServeStray(e, h) ==
  /\ stray[e] > 0
  /\ stray' = [stray EXCEPT ![e] = @ - 1]
  /\ Auth!Begin(h, e)
  /\ UNCHANGED <<swarmVars, client>>

StrayDies(e) ==
  /\ stray[e] > 0
  /\ stray' = [stray EXCEPT ![e] = @ - 1]
  /\ UNCHANGED <<swarmVars, authVars, client>>

\* Mutant: any answer is a success.
AnyAnswer(h) == "ok"

\* Any status below 300 is a success to the forwarder.
Result(h) == IF pc[h] = "done" THEN "ok" ELSE "error"

AnswerCall(h) ==
  /\ Auth!Answer(h)
  /\ IF client[h] = Nobody
       THEN UNCHANGED swarmVars
       ELSE Swarm!Reply(client[h][1], client[h][2], Result(h))
  /\ client' = [client EXCEPT ![h] = Nobody]
  /\ UNCHANGED stray

TimeoutCall(n, t) ==
  /\ Swarm!ForwardTimeout(n, t)
  /\ Orphan({<<n, t>>})
  /\ Abandon(IF call[n][t].phase = "sent" THEN {call[n][t].env} ELSE {})
  /\ UNCHANGED authVars

CrashNode(n) ==
  /\ Swarm!Crash(n)
  /\ Orphan({n} \X Swarm!Topics)
  /\ Abandon({e \in Envelopes : \E t \in Swarm!Topics : call[n][t] = [env |-> e, phase |-> "sent"]})
  /\ UNCHANGED authVars

\* The goroutines that waited for an answer run into an error.
RestartAuthority ==
  /\ Auth!Restart
  /\ client' = [h \in Handlers |-> Nobody]
  /\ UNCHANGED <<swarmVars, stray>>

SwarmStep ==
  /\ Swarm!NodeNext \/ \E n \in Nodes, t \in Swarm!Topics : Swarm!ForwardDone(n, t)
  /\ UNCHANGED <<authVars, client, stray>>

AuthorityStep ==
  /\ (\E h \in Handlers : Auth!Handle(h)) \/ Auth!Peers
  /\ UNCHANGED <<swarmVars, client, stray>>

Next ==
  /\ \/ SwarmStep
     \/ AuthorityStep
     \/ \E n \in Nodes, t \in Swarm!Topics, h \in Handlers : ServeCall(n, t, h)
     \/ \E e \in Envelopes, h \in Handlers : ServeStray(e, h)
     \/ \E e \in Envelopes : StrayDies(e)
     \/ \E h \in Handlers : AnswerCall(h)
     \/ \E n \in Nodes, t \in Swarm!Topics : TimeoutCall(n, t)
     \/ \E n \in Nodes : CrashNode(n)
     \/ RestartAuthority
  /\ Remember

Spec == Init /\ [][Next]_vars

-----------------------------------------------------------------------------
(***************************************************************************)
(* Properties.                                                             *)
(***************************************************************************)

\* The pipeline implements the ledger: an envelope is recorded only after it
\* was accepted, through every retransmission, timeout, crash and restart, and
\* a forwarder sees success only for an envelope that was recorded.
Ledger ==
  INSTANCE EventLedger WITH
    status <- [e \in Envelopes |->
                 IF events[e] # NoEvent THEN "recorded"
                 ELSE IF e \in ever THEN "forgotten"
                 ELSE IF origin[e] # NoNode THEN "accepted" ELSE "unknown"],
    told <- {e \in Envelopes :
               \E n \in Nodes, t \in Swarm!Topics : call[n][t] = [env |-> e, phase |-> "ok"]}

ImplementsLedger == Ledger!LedgerSpec

\* swarm-node insists on a confidence between 0 and 1 (main.go:594,
\* "event.confidence must be between 0 and 1") and llm-service on an
\* adjustment "between -0.2 and 0.2" (main.py:315): the stored confidence is
\* within 0.2 of the accepted one.
ConfidenceSurvives ==
  \A e \in Envelopes :
    events[e] # NoEvent => events[e].conf - Confidence[e] \in -200 .. 200

-----------------------------------------------------------------------------
(***************************************************************************)
(* The inductive invariant: the parts' own, and how the parts agree.       *)
(***************************************************************************)

\* A handler answers the goroutine that waits for it and no other: the
\* goroutine is still in that very call, for that very envelope.
AnswersMatch ==
  \A h \in Handlers :
    client[h] # Nobody =>
      /\ call[client[h][1]][client[h][2]] = [env |-> body[h], phase |-> "serving"]
      /\ \A g \in Handlers : client[g] = client[h] => g = h

\* A handler at work serves an envelope that a node accepted, with or without
\* its sender; only a handler at work answers anybody.
ServedWasAccepted ==
  \A h \in Handlers :
    /\ pc[h] # "idle" => origin[body[h]] # NoNode /\ ev[h].id = body[h]
    /\ client[h] # Nobody => pc[h] # "idle"

StraysWereAccepted == \A e \in Envelopes : stray[e] > 0 => origin[e] # NoNode

\* What was ever stored was accepted, and what is stored was ever stored.
EverWasAccepted ==
  \A e \in Envelopes :
    /\ events[e] # NoEvent => e \in ever
    /\ e \in ever => origin[e] # NoNode

IndInv ==
  /\ TypeOK /\ Swarm!IndInv /\ Auth!IndInv
  /\ AnswersMatch /\ ServedWasAccepted /\ StraysWereAccepted /\ EverWasAccepted

=============================================================================
