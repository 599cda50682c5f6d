----------------------------- MODULE SwarmMesh -----------------------------
(***************************************************************************)
(* The swarm nodes of swarm-node/main.go: a mesh of processes that accept  *)
(* events over HTTP, publish them on two gossip topics, and let the node   *)
(* that accepted an event - and only that node - POST it to the authority. *)
(*                                                                         *)
(* Each node runs one subscription goroutine per topic; both share the     *)
(* `seen` map, which a third goroutine prunes.  A subscription goroutine   *)
(* is busy for as long as its POST is outstanding.  Everything a node      *)
(* holds is in memory and is gone after a crash; its peer identity is      *)
(* derived from a seed and survives.                                       *)
(*                                                                         *)
(* External: the gossip library (Publish and a bounded subscription        *)
(* buffer) and the HTTP connection to the authority, whose answers are     *)
(* free here and are given by module Authority in EventPipeline.           *)
(***************************************************************************)
EXTENDS Integers, Sequences, FiniteSets

CONSTANTS
  Nodes,              \* the swarm nodes (peer identities)
  Envelopes,          \* envelope identifiers the nodes may draw
  NoNode,             \* "accepted by nobody yet"
  NoEnvelope,         \* what an idle subscription goroutine works on
  TopicOf,            \* the endpoint an envelope comes in by, hence its topic
  Confidence,         \* the confidence of its body, in thousandths
  Capacity,           \* messages a gossip subscription buffers
  RedispatchTimeout,  \* age at which cleanupLoop forgets an envelope
  MaxTime,            \* bound on the clock
  MaxCrashes          \* bound on crashes

Topics == {"event", "prediction"}
Never == -1

ASSUME NamesAssumption == NoNode \notin Nodes /\ NoEnvelope \notin Envelopes
ASSUME TopicAssumption == TopicOf \in [Envelopes -> Topics]
ASSUME ConfidenceAssumption == Confidence \in [Envelopes -> Int]
ASSUME NumbersAssumption ==
  /\ Capacity \in Nat \ {0}
  /\ RedispatchTimeout \in Nat
  /\ MaxTime \in Nat
  /\ MaxCrashes \in Nat

VARIABLES
  now,         \* the clock
  up,          \* is the process running
  origin,      \* OriginPeerID of each envelope, NoNode before it exists
  mesh,        \* envelopes published and still held by the gossip layer
  inbox,       \* the subscription buffer of each node and topic
  call,        \* what each subscription goroutine is POSTing
  seen,        \* App.seen: when an envelope was marked, Never if absent
  crashes,     \* crashes so far
  lastPost,    \* history: start of this process' last POST of an envelope
  attempted,   \* history: envelopes some node has POSTed
  lost         \* history: envelopes dropped before any POST

nodeVars == <<up, inbox, call, seen>>
netVars  == <<origin, mesh>>
histVars == <<lastPost, attempted, lost>>
vars == <<now, crashes, nodeVars, netVars, histVars>>

Phases == {"sent", "serving", "ok", "error"}
IdleCall == [env |-> NoEnvelope, phase |-> "idle"]
Calls == [env : Envelopes, phase : Phases] \cup {IdleCall}

Elements(q) == {q[i] : i \in DOMAIN q}

TypeOK ==
  /\ now \in Nat
  /\ crashes \in Nat
  /\ up \in [Nodes -> BOOLEAN]
  /\ origin \in [Envelopes -> Nodes \cup {NoNode}]
  /\ mesh \in SUBSET Envelopes
  /\ inbox \in [Nodes -> [Topics -> Seq(Envelopes)]]
  /\ call \in [Nodes -> [Topics -> Calls]]
  /\ seen \in [Nodes -> [Envelopes -> Nat \cup {Never}]]
  /\ lastPost \in [Nodes -> [Envelopes -> Nat \cup {Never}]]
  /\ attempted \in SUBSET Envelopes
  /\ lost \in SUBSET Envelopes

Init ==
  /\ now = 0
  /\ crashes = 0
  /\ up = [n \in Nodes |-> TRUE]
  /\ origin = [e \in Envelopes |-> NoNode]
  /\ mesh = {}
  /\ inbox = [n \in Nodes |-> [t \in Topics |-> <<>>]]
  /\ call = [n \in Nodes |-> [t \in Topics |-> IdleCall]]
  /\ seen = [n \in Nodes |-> [e \in Envelopes |-> Never]]
  /\ lastPost = [n \in Nodes |-> [e \in Envelopes |-> Never]]
  /\ attempted = {}
  /\ lost = {}

-----------------------------------------------------------------------------
(***************************************************************************)
(* Accepting an event: handleIngest and handleIngestPrediction.            *)
(***************************************************************************)

\* validateIngress, for the one field whose value matters later on.
ValidateIngress(e) == Confidence[e] >= 0 /\ Confidence[e] <= 1000

\* The subscription buffer of the gossip library: a message that finds it full
\* is dropped.
HasRoom(n, t) == Len(inbox[n][t]) < Capacity

\* Mutant: the handler marks its own envelope before the subscription sees it.
IngestMarksSeen(n, e) ==
  /\ up[n] /\ origin[e] = NoNode
  /\ origin' = [origin EXCEPT ![e] = n]
  /\ mesh' = mesh \cup {e}
  /\ seen' = [seen EXCEPT ![n][e] = now]
  /\ HasRoom(n, TopicOf[e])
  /\ inbox' = [inbox EXCEPT ![n][TopicOf[e]] = Append(@, e)]
  /\ UNCHANGED <<now, crashes, up, call, histVars>>

\* Publish hands the message to the mesh and to the node's own subscription;
\* the client is then told 202.
Ingest(n, e) ==
  LET t == TopicOf[e] IN
  /\ up[n]
  /\ origin[e] = NoNode
  /\ ValidateIngress(e)
  /\ origin' = [origin EXCEPT ![e] = n]
  /\ mesh' = mesh \cup {e}
  /\ IF HasRoom(n, t)
       THEN inbox' = [inbox EXCEPT ![n][t] = Append(@, e)] /\ UNCHANGED lost
       ELSE lost' = lost \cup {e} /\ UNCHANGED inbox
  /\ UNCHANGED <<now, crashes, up, call, seen, lastPost, attempted>>

\* The gossip layer brings a copy to a subscription: at any time, in any order,
\* any number of times, or (by never doing it) not at all.
Deliver(n, e) ==
  LET t == TopicOf[e] IN
  /\ up[n]
  /\ e \in mesh
  /\ HasRoom(n, t)
  /\ inbox' = [inbox EXCEPT ![n][t] = Append(@, e)]
  /\ UNCHANGED <<now, crashes, up, call, seen, netVars, histVars>>

-----------------------------------------------------------------------------
(***************************************************************************)
(* One turn of subscriptionLoop.                                           *)
(***************************************************************************)

\* sub.Next returns the oldest buffered message.
Next1(n, t) == Head(inbox[n][t])

Taken(n, t) ==
  /\ up[n]
  /\ call[n][t] = IdleCall
  /\ inbox[n][t] # <<>>
  /\ inbox' = [inbox EXCEPT ![n][t] = Tail(@)]

\* markSeen: the first sighting is recorded.
MarkSeen(n, e) ==
  /\ seen[n][e] = Never
  /\ seen' = [seen EXCEPT ![n][e] = now]

\* Mutant: every node forwards what it sees first.
AnyNodeForwards(n, e) == TRUE

\* "only the origin node forwards".
IsOrigin(n, e) == origin[e] = n

\* markSeen returns false: the copy is ignored, its time is not refreshed.
SkipDuplicate(n, t) ==
  /\ Taken(n, t)
  /\ seen[n][Next1(n, t)] # Never
  /\ UNCHANGED <<now, crashes, up, call, seen, netVars, histVars>>

\* Marked, but another node is the origin.
SkipForeign(n, t) ==
  /\ Taken(n, t)
  /\ MarkSeen(n, Next1(n, t))
  /\ ~IsOrigin(n, Next1(n, t))
  /\ UNCHANGED <<now, crashes, up, call, netVars, histVars>>

\* Marked, and this node is the origin: forwardToAuthority sends its POST.
StartForward(n, t) ==
  LET e == Next1(n, t) IN
  /\ Taken(n, t)
  /\ MarkSeen(n, e)
  /\ IsOrigin(n, e)
  /\ call' = [call EXCEPT ![n][t] = [env |-> e, phase |-> "sent"]]
  /\ lastPost' = [lastPost EXCEPT ![n][e] = now]
  /\ attempted' = attempted \cup {e}
  /\ UNCHANGED <<now, crashes, up, netVars, lost>>

\* Mutant: the finished call keeps its envelope.
KeepEnvelope(n, t) == [call EXCEPT ![n][t].phase = "idle"]

\* The goroutine goes back to sub.Next.
Hangup(n, t) == [call EXCEPT ![n][t] = IdleCall]

\* The POST returns: any error is only logged, nothing is tried again.
ForwardDone(n, t) ==
  /\ up[n]
  /\ call[n][t].phase \in {"ok", "error"}
  /\ call' = Hangup(n, t)
  /\ UNCHANGED <<now, crashes, up, inbox, seen, netVars, lastPost, attempted, lost>>

\* Mutant: an HTTP client without a timeout.
NoTimeout(n, t) == FALSE

\* The HTTP client's timeout: the same error path, while the request may
\* still be on its way or be served.
ForwardTimeout(n, t) ==
  /\ up[n]
  /\ call[n][t].phase \in {"sent", "serving"}
  /\ call' = Hangup(n, t)
  /\ UNCHANGED <<now, crashes, up, inbox, seen, netVars, histVars>>

-----------------------------------------------------------------------------
(***************************************************************************)
(* The authority's side of a POST (external to this module).               *)
(***************************************************************************)

Serve(n, t) ==
  /\ call[n][t].phase = "sent"
  /\ call' = [call EXCEPT ![n][t].phase = "serving"]
  /\ UNCHANGED <<now, crashes, up, inbox, seen, netVars, histVars>>

Reply(n, t, result) ==
  /\ call[n][t].phase = "serving"
  /\ call' = [call EXCEPT ![n][t].phase = result]
  /\ UNCHANGED <<now, crashes, up, inbox, seen, netVars, histVars>>

-----------------------------------------------------------------------------
(***************************************************************************)
(* cleanupLoop, time, crash and restart.                                   *)
(***************************************************************************)

\* Mutant: entries of exactly the timeout's age go too.
ExpiredEarly(n, e) == seen[n][e] # Never /\ seen[n][e] <= now - RedispatchTimeout

Expired(n, e) == seen[n][e] # Never /\ seen[n][e] < now - RedispatchTimeout

Cleanup(n) ==
  /\ up[n]
  /\ \E e \in Envelopes : Expired(n, e)
  /\ seen' = [seen EXCEPT ![n] =
                [e \in Envelopes |-> IF Expired(n, e) THEN Never ELSE seen[n][e]]]
  /\ UNCHANGED <<now, crashes, up, inbox, call, netVars, histVars>>

Tick ==
  /\ now < MaxTime
  /\ now' = now + 1
  /\ UNCHANGED <<crashes, nodeVars, netVars, histVars>>

\* Accepted envelopes that wait in node n's own buffers.
Waiting(n) == {e \in Envelopes : origin[e] = n /\ e \in Elements(inbox[n][TopicOf[e]])}

Crash(n) ==
  /\ up[n]
  /\ crashes < MaxCrashes
  /\ crashes' = crashes + 1
  /\ up' = [up EXCEPT ![n] = FALSE]
  /\ inbox' = [inbox EXCEPT ![n] = [t \in Topics |-> <<>>]]
  /\ call' = [call EXCEPT ![n] = [t \in Topics |-> IdleCall]]
  /\ seen' = [seen EXCEPT ![n] = [e \in Envelopes |-> Never]]
  /\ lastPost' = [lastPost EXCEPT ![n] = [e \in Envelopes |-> Never]]
  /\ lost' = lost \cup (Waiting(n) \ attempted)
  /\ UNCHANGED <<now, netVars, attempted>>

\* newApp: same identity (keyFromSeed), empty memory.
Restart(n) ==
  /\ ~up[n]
  /\ up' = [up EXCEPT ![n] = TRUE]
  /\ UNCHANGED <<now, crashes, inbox, call, seen, netVars, histVars>>

-----------------------------------------------------------------------------
Receive(n, t) == SkipDuplicate(n, t) \/ SkipForeign(n, t) \/ StartForward(n, t)

ForwardReturns(n, t) == ForwardDone(n, t) \/ ForwardTimeout(n, t)

\* What the nodes, the mesh and time do by themselves.
NodeNext ==
  \/ \E n \in Nodes, e \in Envelopes : Ingest(n, e) \/ Deliver(n, e)
  \/ \E n \in Nodes, t \in Topics : Receive(n, t)
  \/ \E n \in Nodes : Cleanup(n) \/ Restart(n)
  \/ Tick

Next ==
  \/ NodeNext
  \/ \E n \in Nodes, t \in Topics : ForwardReturns(n, t)
  \/ \E n \in Nodes : Crash(n)
  \/ \E n \in Nodes, t \in Topics : Serve(n, t)
  \/ \E n \in Nodes, t \in Topics, result \in {"ok", "error"} : Reply(n, t, result)

Spec == Init /\ [][Next]_vars

\* The goroutines are scheduled and the HTTP client always returns, by its
\* timeout at the latest.  Nothing else is promised.
Fairness ==
  \A n \in Nodes, t \in Topics :
    WF_vars(Receive(n, t)) /\ WF_vars(ForwardReturns(n, t))

FairSpec == Spec /\ Fairness

-----------------------------------------------------------------------------
(***************************************************************************)
(* Properties.                                                             *)
(***************************************************************************)

\* "only the origin node forwards" (comment in subscriptionLoop): a goroutine
\* POSTs only an envelope its own node accepted, however the mesh spreads it.
OnlyOriginForwards ==
  \A n \in Nodes, t \in Topics :
    call[n][t] # IdleCall => origin[call[n][t].env] = n

\* An envelope POSTed within the last RedispatchTimeout is still remembered:
\* cleanupLoop, duplicates and the other goroutine cannot make a running node
\* forget it sooner.
DedupWindow ==
  \A n \in Nodes, e \in Envelopes :
    lastPost[n][e] # Never /\ now - lastPost[n][e] <= RedispatchTimeout
      => seen[n][e] # Never

\* An accepted envelope (the client was told 202) is never silently skipped:
\* it is POSTed, still waits in its origin's buffer, or was lost to a full
\* buffer or a crash.
NoSilentSkip ==
  \A e \in Envelopes :
    origin[e] # NoNode =>
      e \in attempted \cup lost \cup Elements(inbox[origin[e]][TopicOf[e]])

\* One process never starts two POSTs of an envelope within RedispatchTimeout.
NoEarlyRedispatch ==
  [][\A n \in Nodes, t \in Topics :
       (call[n][t] = IdleCall /\ call'[n][t] # IdleCall) =>
         LET e == call'[n][t].env IN
           lastPost[n][e] = Never \/ now - lastPost[n][e] > RedispatchTimeout]_vars

\* Every accepted envelope is eventually POSTed, or lost to a full buffer or a
\* crash of its origin: a slow or dead authority delays the loop, it does not
\* stop it.
AcceptedIsAttempted ==
  \A e \in Envelopes : (origin[e] # NoNode) ~> (e \in attempted \cup lost)

-----------------------------------------------------------------------------
(***************************************************************************)
(* The inductive invariant: what makes the properties above survive every  *)
(* single step.                                                            *)
(***************************************************************************)

\* Nothing of an envelope exists before its origin accepted it.
NothingBeforeIngest ==
  \A e \in Envelopes :
    origin[e] = NoNode =>
      /\ e \notin mesh
      /\ \A n \in Nodes : seen[n][e] = Never
      /\ \A n \in Nodes, t \in Topics : e \notin Elements(inbox[n][t])

\* Times are in the past, and an envelope is marked no earlier than POSTed.
Remembered ==
  \A n \in Nodes, e \in Envelopes :
    /\ seen[n][e] <= now
    /\ lastPost[n][e] <= now
    /\ lastPost[n][e] # Never /\ seen[n][e] # Never => lastPost[n][e] <= seen[n][e]

\* The origin marks an envelope only in the turn that POSTs it.
MarkedIsAttempted ==
  \A e \in Envelopes, n \in Nodes :
    origin[e] = n /\ seen[n][e] # Never => e \in attempted

IndInv ==
  /\ TypeOK
  /\ OnlyOriginForwards
  /\ NothingBeforeIngest
  /\ Remembered
  /\ DedupWindow
  /\ MarkedIsAttempted
  /\ NoSilentSkip

=============================================================================
