----------------------------- MODULE Predictive -----------------------------
(***************************************************************************)
(* predictive-service/main.py: the loop thread and the run-once endpoint   *)
(* make predictions of the authority's events, zone by zone, replace the   *)
(* list the service shows, and post the list to a swarm node.  The model,  *)
(* its flag and the list are module globals that every thread uses without *)
(* a lock.                                                                 *)
(*                                                                         *)
(* External: the authority, whose answer may fail; the weather service,    *)
(* between the zones; the swarm node, which may refuse a prediction; a     *)
(* model.fit that may raise; the files of the certificates, which may be   *)
(* missing.                                                                *)
(***************************************************************************)
EXTENDS Integers

CONSTANTS
  Loop,     \* the thread of _loop
  Callers,  \* pool threads that serve run-once
  Zones,    \* locations of events
  MaxLists  \* bound on the rounds begun

\* Assumed of the constants by MCServices and by the theorems.
NamesAssumption == Loop \notin Callers
ListsAssumption == MaxLists \in Nat

Makers == Callers \cup {Loop}

VARIABLES
  ready,   \* model_ready
  latest,  \* latest_predictions, and its number
  posted,  \* history: <<number of a list, zone>> that were posted, the refused
           \* ones and those that did not arrive included
  cut,     \* history: numbers of the lists a post of which raised
  begun,   \* rounds begun
  made,    \* history: lists made so far
  worker

vars == <<ready, latest, posted, cut, begun, made, worker>>

\* How the risk of a zone is found.
Means == {"model", "confidence"}
Risks == UNION {[Z -> Means] : Z \in SUBSET Zones}
Lists == [number : Nat, risk : Risks]
NoList == [number |-> 0, risk |-> [z \in {} |-> "model"]]

\* todo: the zones of the events that have no prediction yet; risk: the list so
\* far; list, left: the list it posts, and what of it is left.
Worker ==
  [at : {"idle", "fetch", "fit", "make", "assigned", "post", "over"}, trains : BOOLEAN, todo : SUBSET Zones,
   risk : Risks, list : Nat, left : SUBSET Zones]

TypeOK ==
  /\ ready \in BOOLEAN
  /\ latest \in Lists /\ posted \subseteq Nat \X Zones
  /\ {begun, made} \subseteq Nat /\ cut \subseteq Nat
  /\ worker \in [Makers -> Worker]

Resting == [at |-> "idle", trains |-> FALSE, todo |-> {}, risk |-> NoList.risk, list |-> 0, left |-> {}]

\* startup: the loop's thread begins.
Workers == [t \in Makers |-> IF t = Loop THEN [Resting EXCEPT !.at = "fetch"] ELSE Resting]

Init ==
  /\ ready = FALSE
  /\ latest = NoList
  /\ posted = {} /\ cut = {}
  /\ begun = 0 /\ made = 0
  /\ worker = Workers

-----------------------------------------------------------------------------
Call(t) ==
  /\ t \in Callers /\ worker[t].at \in {"idle", "over"}
  /\ worker' = [worker EXCEPT ![t] = [Resting EXCEPT !.at = "fetch"]]
  /\ UNCHANGED <<ready, latest, posted, cut, begun, made>>

\* _fetch_events and _fit_model's features; no event where the fetch failed.
\* trains: at least four, with both labels.
Fetch(t, zones, trains) ==
  /\ worker[t].at = "fetch" /\ begun < MaxLists
  /\ trains => zones # {}
  /\ begun' = begun + 1
  /\ worker' = [worker EXCEPT ![t] = [@ EXCEPT !.at = "fit", !.todo = zones, !.trains = trains]]
  /\ UNCHANGED <<ready, latest, posted, cut, made>>

\* A fit that raises leaves the flag alone.
Fit(t) ==
  /\ worker[t].at = "fit"
  /\ ready' \in {ready, ready \/ worker[t].trains}
  /\ worker' = [worker EXCEPT ![t].at = "make"]
  /\ UNCHANGED <<latest, posted, cut, begun, made>>

\* One zone of _make_prediction_events: the flag is read anew for each.
Predict(t, z) ==
  /\ worker[t].at = "make" /\ z \in worker[t].todo
  /\ LET means == IF ready THEN "model" ELSE "confidence"
         risk == [y \in DOMAIN worker[t].risk \cup {z} |-> IF y = z THEN means ELSE worker[t].risk[y]] IN
       worker' = [worker EXCEPT ![t].todo = @ \ {z}, ![t].risk = risk]
  /\ UNCHANGED <<ready, latest, posted, cut, begun, made>>

\* latest_predictions = ...
Assign(t) ==
  /\ worker[t].at = "make" /\ worker[t].todo = {}
  /\ latest' = [number |-> made + 1, risk |-> worker[t].risk]
  /\ made' = made + 1
  /\ worker' = [worker EXCEPT ![t].at = "assigned"]
  /\ UNCHANGED <<ready, posted, cut, begun>>

\* for pred in latest_predictions: the list the global names now, another
\* thread's perhaps.
Begin(t) ==
  /\ worker[t].at = "assigned"
  /\ worker' = [worker EXCEPT ![t] = [@ EXCEPT !.at = "post", !.list = latest.number, !.left = DOMAIN latest.risk]]
  /\ UNCHANGED <<ready, latest, posted, cut, begun, made>>

\* Mutant: a post that fails ends the round.
NoneLeft(t, z) == {}

StillLeft(t, z) == worker[t].left \ {z}

\* _publish_prediction: a refusal or an error of the request is logged and no more.
Post(t, z) ==
  /\ worker[t].at = "post" /\ z \in worker[t].left
  /\ posted' = posted \cup {<<worker[t].list, z>>}
  /\ worker' = [worker EXCEPT ![t].left = StillLeft(t, z)]
  /\ UNCHANGED <<ready, latest, cut, begun, made>>

\* What no handler catches: an answer of the authority or the weather service that
\* is not of the shape the code reads, or a certificate's file that is not there
\* when the list is posted.  The round is over, and the loop's thread with it.
Raise(t) ==
  /\ \/ worker[t].at \in {"fetch", "make"} /\ UNCHANGED cut
     \/ worker[t].at = "post" /\ worker[t].left # {} /\ cut' = cut \cup {worker[t].list}
  /\ worker' = [worker EXCEPT ![t].at = "over"]
  /\ UNCHANGED <<ready, latest, posted, begun, made>>

\* predictions_generated_counter.add: a Counter has no such method.  The loop's
\* thread ends, a caller is answered 500.
CountThem(t) ==
  /\ worker[t].at = "post" /\ worker[t].left = {}
  /\ worker' = [worker EXCEPT ![t].at = "over"]
  /\ UNCHANGED <<ready, latest, posted, cut, begun, made>>

\* The process ends and starts again, with a new loop thread.
Restart ==
  /\ ready' = FALSE
  /\ latest' = NoList
  /\ worker' = Workers
  /\ UNCHANGED <<posted, cut, begun, made>>

Next ==
  \/ \E t \in Makers :
       \/ Call(t) \/ Fit(t) \/ Assign(t) \/ Begin(t) \/ Raise(t) \/ CountThem(t)
       \/ \E zones \in SUBSET Zones, trains \in BOOLEAN : Fetch(t, zones, trains)
       \/ \E z \in Zones : Predict(t, z) \/ Post(t, z)
  \/ Restart

Spec == Init /\ [][Next]_vars

-----------------------------------------------------------------------------
(***************************************************************************)
(* Properties.                                                             *)
(***************************************************************************)

WillPost(t, z) ==
  \/ worker[t].at = "assigned"
  \/ worker[t].at = "post" /\ worker[t].list = latest.number /\ z \in worker[t].left

\* Two rounds that overlap may post one list twice and another never, but the
\* list the service shows (predictions/latest) is posted whole, or will be, unless
\* a round that was posting that very list raised.
ShownIsPosted ==
  \A z \in DOMAIN latest.risk :
    \/ <<latest.number, z>> \in posted
    \/ \E t \in Makers : WillPost(t, z)
    \/ latest.number \in cut
=============================================================================
