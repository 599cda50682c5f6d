----------------------------- MODULE EdgeSender -----------------------------
(***************************************************************************)
(* The endpoints of edge-planet/main.py that send events while the caller  *)
(* waits: emit and events send one, emit-batch sends several one after the *)
(* other and gives up at the first that fails.  What was sent before stays *)
(* sent, and every event has a fresh frame hash, so that a caller who      *)
(* repeats a batch repeats its events.                                     *)
(*                                                                         *)
(* External: the swarm node, which takes an event and answers, refuses it, *)
(* or takes it and answers too late; a caller that repeats on an error.    *)
(***************************************************************************)
EXTENDS Integers

CONSTANTS
  Calls,       \* calls under way
  BatchSize,   \* events of a batch
  MaxAttempts  \* bound on the attempts of one caller

\* Assumed of the constants by MCServices and by the theorems.
NumbersAssumption == {BatchSize, MaxAttempts} \subseteq Nat \ {0}

\* left: events to send; ok: events answered in this attempt; told: what the
\* caller was told; taken: history, events the swarm took from this caller;
\* size, attempt: of the request.
VARIABLE call

Call == [at : {"idle", "sending", "told"}, left : 0 .. BatchSize, ok : 0 .. BatchSize,
         told : {"nothing", "published", "failed"}, taken : Nat, size : 0 .. BatchSize, attempt : 0 .. MaxAttempts]

TypeOK == call \in [Calls -> Call]

Init ==
  call = [c \in Calls |-> [at |-> "idle", left |-> 0, ok |-> 0, told |-> "nothing", taken |-> 0, size |-> 0, attempt |-> 0]]

\* emit_once and submit_event send one event, emit_batch the number asked for.
Ask(c, n) ==
  /\ call[c].at = "idle"
  /\ call' = [call EXCEPT ![c] = [@ EXCEPT !.at = "sending", !.left = n, !.ok = 0, !.size = n, !.attempt = 1]]

\* The caller repeats a call that failed.
AskAgain(c) ==
  /\ call[c].at = "told" /\ call[c].told = "failed" /\ call[c].attempt < MaxAttempts
  /\ call' = [call EXCEPT ![c] = [@ EXCEPT !.at = "sending", !.left = call[c].size, !.ok = 0, !.attempt = call[c].attempt + 1]]

\* Mutant: a failure in the middle of a batch is passed over.
PassedOver(d) == [d EXCEPT !.left = @ - 1]

\* HTTPException, 502: the rest of the batch is not sent.
GivenUp(d) == [d EXCEPT !.at = "told", !.told = "failed"]

\* send_to_swarm.
Send(c) ==
  /\ call[c].at = "sending" /\ call[c].left > 0
  /\ LET d == call[c]
         arrived == [d EXCEPT !.taken = @ + 1] IN
       \E after \in {[arrived EXCEPT !.left = @ - 1, !.ok = @ + 1], GivenUp(d), GivenUp(arrived)} :
         call' = [call EXCEPT ![c] = after]

Publish(c) ==
  /\ call[c].at = "sending" /\ call[c].left = 0
  /\ call' = [call EXCEPT ![c] = [@ EXCEPT !.at = "told", !.told = "published"]]

Next ==
  \E c \in Calls :
    \/ \E n \in 1 .. BatchSize : Ask(c, n)
    \/ AskAgain(c) \/ Send(c) \/ Publish(c)

Spec == Init /\ [][Next]_call

\* A caller told of success has its events in the swarm, and a caller that
\* repeats until then has at most one batch more there for each repetition: the
\* part sent before a failure is never taken back.
ToldIsTrue ==
  \A c \in Calls :
    LET d == call[c] IN
      /\ d.told = "published" => d.taken >= d.size
      /\ d.at # "idle" => d.taken <= d.ok + (d.attempt - 1) * d.size + 1
      /\ d.told = "published" => d.taken <= d.attempt * d.size
=============================================================================
