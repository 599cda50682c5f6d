----------------------------- MODULE GatewayFeed -----------------------------
(***************************************************************************)
(* The websocket feed of the Python authority, authority-chain/gateway/    *)
(* main.py: one task per stored document walks over the list of            *)
(* subscribers and awaits a send to each, while sockets come and go and    *)
(* other walks are under way.  All of it runs on one event loop: what lies *)
(* between two awaits is one step.                                         *)
(*                                                                         *)
(* The iterator of a Python list is a position.  An element that is        *)
(* removed before it makes the walk skip the next one.                     *)
(*                                                                         *)
(* External: the peers, who may be gone before the server knows.           *)
(***************************************************************************)
EXTENDS Integers, Sequences, FiniteSets

CONSTANTS
  Subscribers, \* websocket connections
  MaxDocs      \* bound on the documents announced

\* Assumed of the constants by MCServices and by the theorems.
DocsAssumption == MaxDocs \in Nat

VARIABLES
  subscribers, \* the list
  link,        \* each connection
  walk         \* each document's task

vars == <<subscribers, link, walk>>

Docs == 1 .. MaxDocs

\* next: the position of the iterator; to: the socket a send is awaited for;
\* stale: those whose send raised; sent: the frames that went out, in order.
\* History: audience, the sockets listed when the walk began, and removals,
\* the removals from the list since.
Walk == [at : {"new", "send", "over"}, next : Nat, to : SUBSET Subscribers, stale : SUBSET Subscribers,
         sent : Seq(Subscribers), audience : SUBSET Subscribers, removals : Nat]

Listed == {subscribers[i] : i \in DOMAIN subscribers}

TypeOK ==
  /\ subscribers \in Seq(Subscribers) /\ Cardinality(Listed) = Len(subscribers)
  /\ link \in [Subscribers -> {"away", "open", "gone", "closed"}]
  /\ walk \in [Docs -> Walk]
  /\ \A d \in Docs : Cardinality(walk[d].to) = IF walk[d].at = "send" THEN 1 ELSE 0

Init ==
  /\ subscribers = <<>>
  /\ link = [s \in Subscribers |-> "away"]
  /\ walk = [d \in Docs |-> [at |-> "new", next |-> 1, to |-> {}, stale |-> {}, sent |-> <<>>,
                             audience |-> {}, removals |-> 0]]

\* Of the first i sockets, how many stay when those in gone leave.
Staying(i, gone) == Cardinality({j \in 1 .. i : subscribers[j] \notin gone})

Without(gone) ==
  [k \in 1 .. Staying(Len(subscribers), gone) |->
     subscribers[CHOOSE i \in DOMAIN subscribers : subscribers[i] \notin gone /\ Staying(i, gone) = k]]

\* The walks that are under way when sockets leave the list.
Counting(walks, gone) ==
  [d \in Docs |-> IF walks[d].at = "send"
     THEN [walks[d] EXCEPT !.removals = @ + Cardinality(gone \cap Listed)] ELSE walks[d]]

-----------------------------------------------------------------------------
(***************************************************************************)
(* tm_websocket.                                                           *)
(***************************************************************************)

Connect(s) ==
  /\ link[s] = "away"
  /\ link' = [link EXCEPT ![s] = "open"]
  /\ subscribers' = Append(subscribers, s)
  /\ UNCHANGED walk

\* The peer is gone, and neither receive_text nor a send has met it yet.
Leave(s) ==
  /\ link[s] = "open"
  /\ link' = [link EXCEPT ![s] = "gone"]
  /\ UNCHANGED <<subscribers, walk>>

\* receive_text raises; the handler takes the socket off the list, unless a
\* walk did.
Disconnect(s) ==
  /\ link[s] = "gone"
  /\ link' = [link EXCEPT ![s] = "closed"]
  /\ subscribers' = Without({s})
  /\ walk' = Counting(walk, {s})

-----------------------------------------------------------------------------
(***************************************************************************)
(* broadcast_tendermint.                                                   *)
(***************************************************************************)

\* The next turn of the loop, or its end.
Turn(w) ==
  IF w.next <= Len(subscribers)
  THEN [w EXCEPT !.at = "send", !.to = {subscribers[w.next]}, !.next = @ + 1]
  ELSE [w EXCEPT !.at = "over", !.to = {}]

\* At the end the stale sockets that are still listed are removed.
Resume(d, w) ==
  LET turned == Turn(w)
      gone == IF turned.at = "over" THEN w.stale ELSE {} IN
  /\ subscribers' = Without(gone)
  /\ walk' = Counting([walk EXCEPT ![d] = turned], gone)
  /\ UNCHANGED link

\* Tasks begin in the order in which they were scheduled.  A list that is
\* empty ends the task at once.
Begin(d) ==
  /\ walk[d].at = "new"
  /\ \A earlier \in 1 .. d - 1 : walk[earlier].at # "new"
  /\ Resume(d, [walk[d] EXCEPT !.audience = Listed])

\* Mutant: the handler of exceptions is around the loop.
FailedForAll(w, s) == [w EXCEPT !.stale = @ \cup {s}, !.next = Len(subscribers) + 1]

Failed(w, s) == [w EXCEPT !.stale = @ \cup {s}]

\* The awaited send returns, or raises because the peer is gone.
SendReturns(d) ==
  /\ walk[d].at = "send"
  /\ LET s == CHOOSE x \in walk[d].to : TRUE IN
       IF link[s] = "open"
       THEN Resume(d, [walk[d] EXCEPT !.sent = Append(@, s)])
       ELSE Resume(d, Failed(walk[d], s))

Next ==
  \/ \E s \in Subscribers : Connect(s) \/ Leave(s) \/ Disconnect(s)
  \/ \E d \in Docs : Begin(d) \/ SendReturns(d)

Spec == Init /\ [][Next]_vars

-----------------------------------------------------------------------------
(***************************************************************************)
(* Properties.                                                             *)
(***************************************************************************)

SentTo(d) == {walk[d].sent[i] : i \in DOMAIN walk[d].sent}

\* The sockets that were there all the time and were passed over.
Missed(d) == {s \in walk[d].audience : link[s] = "open"} \ SentTo(d)

\* A frame reaches every socket that stays, once, but for one socket per
\* removal that happened during the walk; those that connect meanwhile may
\* get it too.
MissedIsShifted ==
  \A d \in Docs :
    /\ Cardinality(SentTo(d)) = Len(walk[d].sent)
    /\ walk[d].at = "over" => Cardinality(Missed(d)) <= walk[d].removals
=============================================================================
