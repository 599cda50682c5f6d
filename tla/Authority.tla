----------------------------- MODULE Authority -----------------------------
(***************************************************************************)
(* The deployed authority, authority-chain/main.go: one goroutine per POST *)
(* to /galaxy/v1/events, an in-memory map of events, and the websocket     *)
(* clients that are told of every stored event of their organisation.      *)
(*                                                                         *)
(* A POST handler calls two other services before it touches the map, then *)
(* stores under eventsLock, and only after releasing it broadcasts under   *)
(* wsClientsMu.  That second lock is held while frames are written to the  *)
(* sockets of the clients, and no write has a deadline.                    *)
(*                                                                         *)
(* External: auth-service and llm-service, which may fail or answer        *)
(* anything, and the sockets, whose peers may stop reading or vanish.      *)
(***************************************************************************)
EXTENDS Integers, FiniteSets

CONSTANTS
  Bodies,     \* submissions a client may POST
  Body,       \* what each of them says: a Submission
  Envelopes,  \* envelope identifiers a submission may carry
  NoEnvelope, \* a submission without envelope_id
  Stamps,     \* nanosecond timestamps, the identifiers of such submissions
  Orgs,       \* organisations, "system" among them
  NoOrg,      \* a connection that is not in wsClients
  NoEvent,    \* an identifier the events map lacks
  Handlers,   \* goroutines that serve POSTs
  Conns,      \* websocket connections; each is opened once
  Free,       \* nobody holds wsClientsMu
  Adjustments,\* what llm-service may answer, in thousandths
  MaxPosts,   \* bound on the POSTs served
  MaxRestarts \* bound on restarts

Ids == Envelopes \cup Stamps

\* How a request is authenticated: the shared internal key, a token of an
\* organisation, or neither.
Callers == {"internal", "none"} \cup Orgs

\* keyOrg is what auth-service knows of the api_key; confF is confidence_f.
Submission ==
  [envelope : Envelopes \cup {NoEnvelope}, nested : BOOLEAN, named : BOOLEAN,
   conf : Int, confF : Int, caller : Callers, keyOrg : Orgs]

ASSUME BodyAssumption == Bodies # {} /\ Body \in [Bodies -> Submission]
ASSUME OrgAssumption == "system" \in Orgs /\ NoOrg \notin Orgs /\ {"internal", "none"} \cap Orgs = {}
ASSUME IdAssumption ==
  /\ NoEnvelope \notin Envelopes
  /\ Envelopes \cap Stamps = {}
  /\ NoEvent \notin [org : Orgs, conf : Int]
ASSUME LockAssumption == Free \notin Handlers
ASSUME BoundsAssumption == MaxPosts \in Nat /\ MaxRestarts \in Nat /\ Adjustments \subseteq Int

VARIABLES
  pc,        \* where each handler is
  body,      \* the submission it serves
  ev,        \* the Event it is building
  events,    \* the events map
  wsClients, \* the wsClients map: organisation of each registered connection
  socket,    \* state of each connection
  wsMu,      \* holder of wsClientsMu
  todo,      \* connections the broadcasting handler has yet to serve
  facing,    \* of these, the one its loop has come to, if any
  posts,     \* POSTs served so far
  restarts,  \* restarts so far
  got,       \* history: identifiers framed to each connection
  audience   \* history: connections registered for the event when its broadcast began

storeVars == <<events>>
wsVars    == <<wsClients, socket, wsMu, todo, facing, got, audience>>
bounds    == <<posts, restarts>>
vars      == <<pc, body, ev, storeVars, wsVars, bounds>>

Event == [org : Orgs, conf : Int]

Steps == {"idle", "resolve", "classify", "store", "broadcast", "write", "done", "refuse"}

TypeOK ==
  /\ pc \in [Handlers -> Steps]
  /\ body \in [Handlers -> Bodies]
  /\ ev \in [Handlers -> [id : Ids \cup {NoEnvelope}, org : Orgs, conf : Int]]
  /\ events \in [Ids -> Event \cup {NoEvent}]
  /\ wsClients \in [Conns -> Orgs \cup {NoOrg}]
  /\ socket \in [Conns -> {"new", "open", "stalled", "broken", "closed"}]
  /\ wsMu \in Handlers \cup {Free}
  /\ todo \in SUBSET Conns
  /\ facing \in SUBSET Conns
  /\ got \in [Conns -> SUBSET Ids]
  /\ audience \in [Handlers -> SUBSET Conns]
  /\ posts \in Nat
  /\ restarts \in Nat

BlankEvent == [id |-> NoEnvelope, org |-> "system", conf |-> 0]

\* The package variables as the process starts.
InitMemory ==
  /\ pc = [h \in Handlers |-> "idle"]
  /\ ev = [h \in Handlers |-> BlankEvent]
  /\ events = [id \in Ids |-> NoEvent]
  /\ wsClients = [c \in Conns |-> NoOrg]
  /\ wsMu = Free
  /\ todo = {}
  /\ facing = {}
  /\ audience = [h \in Handlers |-> {}]

Init ==
  /\ InitMemory
  /\ body \in [Handlers -> {CHOOSE b \in Bodies : TRUE}]
  /\ socket = [c \in Conns |-> "new"]
  /\ got = [c \in Conns |-> {}]
  /\ posts = 0
  /\ restarts = 0

-----------------------------------------------------------------------------
(***************************************************************************)
(* Serving a POST: eventsHandler.                                          *)
(***************************************************************************)

Clamp(low, high, v) == IF v < low THEN low ELSE IF v > high THEN high ELSE v

\* parseSubmission: the flat form falls back on confidence_f when confidence
\* is zero, and insists on a name and on a positive confidence; the nested
\* form is taken as it comes.
Claimed(s) == IF ~s.nested /\ s.conf = 0 /\ s.confF > 0 THEN s.confF ELSE s.conf
Parses(s) == s.nested \/ (s.named /\ Claimed(s) > 0)

\* Mutant: the answer of the model is taken as it comes.
TrustAdjustment(a) == a

ClampAdjustment(a) == Clamp(-200, 200, a)

Goto(h, step) == pc' = [pc EXCEPT ![h] = step]

\* 401 or 400 for a request that has no caller or does not parse.
Begin(h, b) ==
  /\ pc[h] = "idle"
  /\ posts < MaxPosts
  /\ posts' = posts + 1
  /\ body' = [body EXCEPT ![h] = b]
  /\ ev' = [ev EXCEPT ![h] = [id |-> Body[b].envelope, org |-> "system", conf |-> Claimed(Body[b])]]
  /\ Goto(h, IF Body[b].caller # "none" /\ Parses(Body[b]) THEN "resolve" ELSE "refuse")
  /\ UNCHANGED <<storeVars, wsVars, restarts>>

\* Mutant: a failed lookup leaves the organisation empty.
OrgsUnresolved(s) == IF s.caller = "internal" THEN {s.keyOrg, NoOrg} ELSE {s.caller}

\* resolveOrgID: an internal caller's api_key is looked up, and every failure
\* of the lookup means "system"; a token names its organisation.
OrgsOf(s) == IF s.caller = "internal" THEN {s.keyOrg, "system"} ELSE {s.caller}

ResolveOrg(h) ==
  /\ pc[h] = "resolve"
  /\ \E org \in OrgsOf(Body[body[h]]) :
       ev' = [ev EXCEPT ![h].org = org]
  /\ Goto(h, "classify")
  /\ UNCHANGED <<body, storeVars, wsVars, bounds>>

\* classifyEventConfidence: a failed call adjusts by nothing.
Classify(h) ==
  /\ pc[h] = "classify"
  /\ \E a \in Adjustments \cup {0} :
       ev' = [ev EXCEPT ![h].conf = Clamp(0, 1000, @ + ClampAdjustment(a))]
  /\ Goto(h, "store")
  /\ UNCHANGED <<body, storeVars, wsVars, bounds>>

\* events[event.ID] = event, whatever the map held there.
Filed(id, e) == [events EXCEPT ![id] = e]


\* The identifier is the envelope's, or the time.
Store(h) ==
  /\ pc[h] = "store"
  /\ \E id \in (IF ev[h].id # NoEnvelope THEN {ev[h].id} ELSE {s \in Stamps : events[s] = NoEvent}) :
       /\ ev' = [ev EXCEPT ![h].id = id]
       /\ events' = Filed(id, [org |-> ev[h].org, conf |-> ev[h].conf])
  /\ Goto(h, "broadcast")
  /\ UNCHANGED <<body, wsVars, bounds>>

-----------------------------------------------------------------------------
(***************************************************************************)
(* broadcastEvent.                                                         *)
(***************************************************************************)

Registered(org) == {c \in Conns : wsClients[c] = org}

\* Mutant: the lock is not taken into account.
LockIgnored == TRUE

\* wsClientsMu.Lock() returns.
ClientsFree == wsMu = Free

LockClients(h) ==
  /\ pc[h] = "broadcast"
  /\ ClientsFree
  /\ wsMu' = h
  /\ todo' = Registered(ev[h].org)
  /\ audience' = [audience EXCEPT ![h] = Registered(ev[h].org)]
  /\ Goto(h, "write")
  /\ UNCHANGED <<body, ev, storeVars, wsClients, socket, facing, got, bounds>>

\* The loop comes to the next connection, in the order of a Go map: any.  From
\* here to the end of the write it can do nothing else.
Visit(h, c) ==
  /\ pc[h] = "write"
  /\ facing = {}
  /\ c \in todo
  /\ facing' = {c}
  /\ UNCHANGED <<pc, body, ev, storeVars, wsClients, socket, wsMu, todo, got, audience, bounds>>

\* A frame is written; a peer that is gone may or may not make the write fail.
WriteFrame(h, c) ==
  /\ pc[h] = "write"
  /\ c \in facing
  /\ socket[c] \in {"open", "broken"}
  /\ todo' = todo \ {c}
  /\ facing' = {}
  /\ got' = IF socket[c] = "open" THEN [got EXCEPT ![c] = @ \cup {ev[h].id}] ELSE got
  /\ UNCHANGED <<pc, body, ev, storeVars, wsClients, socket, wsMu, audience, bounds>>

\* Mutant: the first failed write ends the broadcast.
DropAndStop(h, c) ==
  /\ pc[h] = "write" /\ c \in facing /\ socket[c] = "broken"
  /\ todo' = {}
  /\ facing' = {}
  /\ socket' = [socket EXCEPT ![c] = "closed"]
  /\ wsClients' = [wsClients EXCEPT ![c] = NoOrg]
  /\ UNCHANGED <<pc, body, ev, storeVars, wsMu, got, audience, bounds>>

\* A failed write closes and forgets the connection, and the loop goes on.
DropClient(h, c) ==
  /\ pc[h] = "write"
  /\ c \in facing
  /\ socket[c] = "broken"
  /\ todo' = todo \ {c}
  /\ facing' = {}
  /\ socket' = [socket EXCEPT ![c] = "closed"]
  /\ wsClients' = [wsClients EXCEPT ![c] = NoOrg]
  /\ UNCHANGED <<pc, body, ev, storeVars, wsMu, got, audience, bounds>>


UnlockClients(h) ==
  /\ pc[h] = "write"
  /\ todo = {}
  /\ wsMu' = Free
  /\ Goto(h, "done")
  /\ UNCHANGED <<body, ev, storeVars, wsClients, socket, todo, facing, got, audience, bounds>>

\* The answer: 201 with the event, or the error.
Answer(h) ==
  /\ pc[h] \in {"done", "refuse"}
  /\ Goto(h, "idle")
  /\ ev' = [ev EXCEPT ![h] = BlankEvent]
  /\ audience' = [audience EXCEPT ![h] = {}]
  /\ UNCHANGED <<body, storeVars, wsClients, socket, wsMu, todo, facing, got, bounds>>

-----------------------------------------------------------------------------
(***************************************************************************)
(* wsHandler, and the peers of the connections.                            *)
(***************************************************************************)

Connect(c, org) ==
  /\ socket[c] = "new"
  /\ ClientsFree
  /\ socket' = [socket EXCEPT ![c] = "open"]
  /\ wsClients' = [wsClients EXCEPT ![c] = org]
  /\ UNCHANGED <<pc, body, ev, storeVars, wsMu, todo, facing, got, audience, bounds>>

\* The read loop fails: the deferred calls unregister and close.
ReadFails(c) ==
  /\ socket[c] = "broken"
  /\ ClientsFree
  /\ socket' = [socket EXCEPT ![c] = "closed"]
  /\ wsClients' = [wsClients EXCEPT ![c] = NoOrg]
  /\ UNCHANGED <<pc, body, ev, storeVars, wsMu, todo, facing, got, audience, bounds>>

PeerMoves(c, from, to) ==
  /\ socket[c] \in from
  /\ socket' = [socket EXCEPT ![c] = to]
  /\ UNCHANGED <<pc, body, ev, storeVars, wsClients, wsMu, todo, facing, got, audience, bounds>>

PeerStalls(c)   == PeerMoves(c, {"open"}, "stalled")
PeerResumes(c)  == PeerMoves(c, {"stalled"}, "open")
PeerVanishes(c) == PeerMoves(c, {"open", "stalled"}, "broken")

\* Everything is in memory: a restart forgets the events and the clients.
Restart ==
  /\ restarts < MaxRestarts
  /\ restarts' = restarts + 1
  /\ pc' = [h \in Handlers |-> "idle"]
  /\ ev' = [h \in Handlers |-> BlankEvent]
  /\ events' = [id \in Ids |-> NoEvent]
  /\ wsClients' = [c \in Conns |-> NoOrg]
  /\ socket' = [c \in Conns |-> IF socket[c] = "new" THEN "new" ELSE "closed"]
  /\ wsMu' = Free
  /\ todo' = {}
  /\ facing' = {}
  /\ got' = [c \in Conns |-> {}]
  /\ audience' = [h \in Handlers |-> {}]
  /\ UNCHANGED <<body, posts>>

-----------------------------------------------------------------------------
\* What a handler does by itself once it has a request.
Handle(h) ==
  \/ ResolveOrg(h) \/ Classify(h) \/ Store(h)
  \/ LockClients(h) \/ UnlockClients(h)
  \/ \E c \in Conns : Visit(h, c) \/ WriteFrame(h, c) \/ DropClient(h, c)

Peers ==
  \E c \in Conns :
    \/ \E org \in Orgs : Connect(c, org)
    \/ ReadFails(c) \/ PeerStalls(c) \/ PeerResumes(c) \/ PeerVanishes(c)

Next ==
  \/ \E h \in Handlers, b \in Bodies : Begin(h, b)
  \/ \E h \in Handlers : Handle(h) \/ Answer(h)
  \/ Peers
  \/ Restart

Spec == Init /\ [][Next]_vars

\* Goroutines are scheduled, calls to the other services time out (2 s each),
\* Go's mutex hands itself over to a waiter it has starved, and a write that
\* waits for room uses it when the peer makes some.  Nothing is assumed of the
\* peers: one that stalls may stall for ever, and as the code sets no write
\* deadline, the write that meets it then never returns.
Fairness ==
  /\ \A h \in Handlers : WF_vars(Handle(h)) /\ WF_vars(Answer(h)) /\ SF_vars(LockClients(h))
  /\ \A h \in Handlers, c \in Conns : SF_vars(WriteFrame(h, c))
  /\ \A c \in Conns : WF_vars(ReadFails(c))

FairSpec == Spec /\ Fairness

-----------------------------------------------------------------------------
(***************************************************************************)
(* Properties.                                                             *)
(***************************************************************************)

\* At most one handler is inside broadcastEvent's loop, and it is the holder
\* of wsClientsMu: the one todo set is its own, every connection in it is
\* still registered for the organisation of the event, and the one it writes to
\* is among them.
BroadcastExclusive ==
  /\ \A h \in Handlers : pc[h] = "write" <=> wsMu = h
  /\ wsMu # Free => todo \subseteq Registered(ev[wsMu].org)
  /\ wsMu = Free => todo = {}
  /\ facing \subseteq todo

\* A client is told only of events the map holds: the store comes first, on
\* every path, and nothing but a restart takes an event away.
FramesAreStored ==
  \A c \in Conns : \A id \in got[c] : events[id] # NoEvent

\* One broken connection does not cut off the rest: when a broadcast is over,
\* every connection that was registered when it began and is alive has the
\* frame, however the other connections failed meanwhile.
BroadcastReachesAll ==
  \A h \in Handlers :
    pc[h] = "done" =>
      \A c \in audience[h] : socket[c] \in {"open", "stalled"} => ev[h].id \in got[c]

\* The map holds, for each envelope, what some submission that carries it
\* claimed, moved by at most 0.2 and kept between 0 and 1 (clampAdjustment,
\* clampConfidence), and files it under its caller's organisation or "system".
StoredAsClaimed ==
  \A id \in Ids :
    events[id] # NoEvent =>
      \E b \in Bodies :
        LET s == Body[b]
            claim == Clamp(0, 1000, Claimed(s)) IN
        /\ IF id \in Stamps THEN s.envelope = NoEnvelope ELSE s.envelope = id
        /\ s.caller # "none"
        /\ events[id].org \in {s.caller, s.keyOrg, "system"}
        /\ events[id].conf \in 0 .. 1000
        /\ events[id].conf - claim \in -200 .. 200

\* The holder of the lock writes to a peer that is alive and reads nothing, one
\* of the organisation whose event it broadcasts.
HeldByStalledPeer ==
  /\ wsMu # Free
  /\ \E c \in facing : socket[c] = "stalled" /\ wsClients[c] = ev[wsMu].org



-----------------------------------------------------------------------------
(***************************************************************************)
(* The inductive invariant: what holds of a handler at each of its steps.  *)
(***************************************************************************)

\* A handler that has passed the store broadcasts an identifier the map holds.
StoredFirst ==
  \A h \in Handlers :
    pc[h] \in {"broadcast", "write", "done"} =>
      ev[h].id \in Ids /\ events[ev[h].id] # NoEvent

\* Only connections that were opened are registered, or in an audience.
RegisteredAreOpened ==
  \A c \in Conns :
    socket[c] = "new" =>
      /\ wsClients[c] = NoOrg
      /\ \A h \in Handlers : c \notin audience[h]

\* During its broadcast a handler has served whom it need not visit any more.
VisitedAreServed ==
  \A h \in Handlers :
    pc[h] = "write" =>
      \A c \in audience[h] :
        \/ c \in todo
        \/ socket[c] \in {"broken", "closed"}
        \/ ev[h].id \in got[c]

\* What a handler holds before it stores it.
Admitted(h) == Body[body[h]].caller # "none" /\ ev[h].id = Body[body[h]].envelope
Filable(h)  == ev[h].org \in {Body[body[h]].caller, Body[body[h]].keyOrg, "system"}
Adjusted(h) ==
  /\ ev[h].conf \in 0 .. 1000
  /\ ev[h].conf - Clamp(0, 1000, Claimed(Body[body[h]])) \in -200 .. 200

BuiltAsClaimed ==
  \A h \in Handlers :
    /\ pc[h] \in {"resolve", "classify", "store"} => Admitted(h)
    /\ pc[h] \in {"classify", "store"} => Filable(h)
    /\ pc[h] \in {"resolve", "classify"} => ev[h].conf = Claimed(Body[body[h]])
    /\ pc[h] = "store" => Adjusted(h)

LockInv  == BroadcastExclusive
StoreInv == StoredFirst /\ FramesAreStored
ReachInv == RegisteredAreOpened /\ VisitedAreServed /\ BroadcastReachesAll
ClaimInv == BuiltAsClaimed /\ StoredAsClaimed

IndInv == TypeOK /\ LockInv /\ StoreInv /\ ReachInv /\ ClaimInv

=============================================================================
