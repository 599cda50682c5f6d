---------------------------- MODULE WebhookWorker ----------------------------
(***************************************************************************)
(* The webhook delivery service, expansion-layer/webhook-service/main.py:  *)
(* one worker thread that polls an authority, picks the verified events it *)
(* has not seen and posts each to every enabled registration, with retries,*)
(* a delivery log and a dead-letter table.                                 *)
(*                                                                         *)
(* What the worker has seen is in memory alone.  The thread has no handler *)
(* around its loop: an exception of the database ends it while the service *)
(* stays up.  A POST that timed out may have reached its target.           *)
(*                                                                         *)
(* A registration is named by its row number: what it says of tenant and   *)
(* target makes no difference, and the same may be registered twice.       *)
(*                                                                         *)
(* Events are numbered in the order the authority took them in.  Its feed  *)
(* is that of authority-chain/gateway/main.py: the newest Page documents,  *)
(* a status that votes may raise, and a tx_hash counted from the length of *)
(* a deque of StoreCap documents.                                          *)
(***************************************************************************)
EXTENDS Integers, Sequences, FiniteSets

CONSTANTS
  MaxRetries,       \* MAX_RETRIES
  Page,             \* documents per poll
  StoreCap,         \* documents the authority keeps
  MaxEvents,        \* bound on the events taken in
  MaxRegistrations, \* bound on the registrations
  MaxFaults         \* bound on failed polls, failed statements and restarts

ASSUME NumbersAssumption ==
  /\ {MaxRetries, Page, StoreCap} \subseteq Nat \ {0}
  /\ Page <= StoreCap
  /\ {MaxEvents, MaxRegistrations, MaxFaults} \subseteq Nat

VARIABLES
  feed,   \* the authority: number of the last event, and the verified ones
  db,     \* the tables: registrations, delivery log (two outcomes), dead letters
  w,      \* the worker thread and the memory of its process
  faults, \* failed polls, statements and restarts so far
  got     \* history: arrivals that have no row in the log

vars == <<feed, db, w, faults, got>>

Events == 1 .. MaxEvents
Registrations == 1 .. MaxRegistrations

\* f"TX{len(store) + 1}": no longer a name once the deque is full.
TxHash(e) == IF e > StoreCap THEN StoreCap + 1 ELSE e

OnPage(e) == e \in 1 .. feed.last /\ e > feed.last - Page

\* Both are taken up in this order: the oldest event, the first registration.
Least(S) == CHOOSE x \in S : \A y \in S : x <= y

\* Down: no process.  Ended: the service is up and its worker is not.
Steps == {"down", "ended", "poll", "subscriptions", "pick", "post", "log", "dead"}

Handling == {"post", "log", "dead"}

\* todo: verified events of the poll that are left; all: the registrations read
\* with it; event, subs: the event being delivered and the registrations that are
\* left for it; attempt: the number of the POST.
WorkerState ==
  [pc : Steps, seen : SUBSET (1 .. StoreCap + 1), todo : SUBSET Events, all : SUBSET Registrations,
   subs : SUBSET Registrations, event : 0 .. MaxEvents, attempt : 0 .. MaxRetries, ok : BOOLEAN]

Worker(pc, seen) ==
  [pc |-> pc, seen |-> seen, todo |-> {}, all |-> {}, subs |-> {}, event |-> 0, attempt |-> 0, ok |-> FALSE]

\* The rows of a table, counted.
Rows == [Registrations \X Events -> Nat]

TypeOK ==
  /\ feed \in [last : 0 .. MaxEvents, verified : SUBSET Events] /\ feed.verified \subseteq 1 .. feed.last
  /\ db \in [enabled : Seq(BOOLEAN), delivered : Rows, failed : Rows, dead : Rows]
  /\ Len(db.enabled) <= MaxRegistrations
  /\ w \in WorkerState
  /\ w.pc \in Handling => w.subs # {} /\ w.event \in Events
  /\ faults \in 0 .. MaxFaults
  /\ got \subseteq Registrations \X Events

NoRow == [row \in Registrations \X Events |-> 0]

Init ==
  /\ feed = [last |-> 0, verified |-> {}]
  /\ db = [enabled |-> <<>>, delivered |-> NoRow, failed |-> NoRow, dead |-> NoRow]
  /\ w = Worker("down", {})
  /\ faults = 0
  /\ got = {}

Fault == faults < MaxFaults /\ faults' = faults + 1

-----------------------------------------------------------------------------
(***************************************************************************)
(* The authority and the tenants.                                          *)
(***************************************************************************)

Ingest(verified) ==
  /\ feed.last < MaxEvents
  /\ feed' = [last |-> feed.last + 1,
              verified |-> feed.verified \cup (IF verified THEN {feed.last + 1} ELSE {})]
  /\ UNCHANGED <<db, w, faults, got>>

Vote(e) ==
  /\ OnPage(e) /\ e \notin feed.verified
  /\ feed' = [feed EXCEPT !.verified = @ \cup {e}]
  /\ UNCHANGED <<db, w, faults, got>>

\* register_webhook: nothing changes or removes a registration.
Register(enabled) ==
  /\ Len(db.enabled) < MaxRegistrations
  /\ db' = [db EXCEPT !.enabled = Append(@, enabled)]
  /\ UNCHANGED <<feed, w, faults, got>>

-----------------------------------------------------------------------------
(***************************************************************************)
(* The process.                                                            *)
(***************************************************************************)

Startup ==
  /\ w.pc = "down"
  /\ w' = Worker("poll", {})
  /\ UNCHANGED <<feed, db, faults, got>>

\* The process ends at any step: a crash, or a shutdown, which does not wait
\* for the daemon thread.
Stop ==
  /\ w.pc # "down"
  /\ Fault
  /\ w' = Worker("down", {})
  /\ UNCHANGED <<feed, db, got>>

\* An exception leaves the loop.
End ==
  /\ Fault
  /\ w' = Worker("ended", w.seen)
  /\ UNCHANGED <<feed, db, got>>

-----------------------------------------------------------------------------
(***************************************************************************)
(* _worker_loop: poll, read the registrations, go through the events.      *)
(***************************************************************************)

VerifiedOnPage == {e \in feed.verified : OnPage(e)}

\* _fetch_events: an error counts as an empty page.
Poll ==
  /\ w.pc = "poll"
  /\ \/ w' = [w EXCEPT !.pc = "subscriptions", !.todo = VerifiedOnPage] /\ UNCHANGED faults
     \/ w' = [w EXCEPT !.pc = "subscriptions", !.todo = {}] /\ Fault
  /\ UNCHANGED <<feed, db, got>>

Enabled == {r \in DOMAIN db.enabled : db.enabled[r]}

ReadSubscriptions ==
  /\ w.pc = "subscriptions"
  /\ w' = [w EXCEPT !.pc = "pick", !.all = Enabled]
  /\ UNCHANGED <<feed, db, faults, got>>

\* Between two events.
Delivering(events) == [Worker("pick", w.seen) EXCEPT !.todo = events, !.all = w.all]

\* Mutant: an event is remembered once it is delivered everywhere.
NothingRemembered(e) == w.seen

Remembered(e) == w.seen \cup {TxHash(e)}

\* The next event is skipped, or remembered and then delivered.
Pick ==
  /\ w.pc = "pick" /\ w.todo # {}
  /\ LET e == Least(w.todo)
         rest == w.todo \ {e} IN
       w' = IF TxHash(e) \in w.seen \/ w.all = {}
              THEN [Delivering(rest) EXCEPT !.seen = Remembered(e)]
              ELSE [w EXCEPT !.todo = rest, !.seen = Remembered(e), !.pc = "post",
                             !.event = e, !.attempt = 1, !.subs = w.all]
  /\ UNCHANGED <<feed, db, faults, got>>

\* The round is over; the next begins after a while.
NextRound ==
  /\ w.pc = "pick" /\ w.todo = {}
  /\ w' = Worker("poll", w.seen)
  /\ UNCHANGED <<feed, db, faults, got>>

-----------------------------------------------------------------------------
(***************************************************************************)
(* _deliver_one.                                                           *)
(***************************************************************************)

\* Mutant: one attempt too many.
OneMoreAttempt == w.attempt <= MaxRetries

MayRetry == w.attempt < MaxRetries

\* The registration that is tried, for the event.
Current == Least(w.subs)
InHand == IF w.pc \in Handling THEN {<<Current, w.event>>} ELSE {}

\* The target answers below 300, or it does not: it refuses, is unreachable,
\* or takes the event and answers too late.
Post ==
  /\ w.pc = "post"
  /\ \E ok, arrives \in BOOLEAN :
       /\ ok => arrives
       /\ got' = IF arrives THEN got \cup InHand ELSE got
       /\ w' = IF ~ok /\ MayRetry THEN [w EXCEPT !.attempt = @ + 1]
               ELSE [w EXCEPT !.pc = "log", !.ok = ok]
  /\ UNCHANGED <<feed, db, faults>>

\* Mutant: the loop over the registrations is left after the first.
FirstOnly == Delivering(w.todo)

\* On to the next registration, or the next event.
Onward ==
  LET rest == w.subs \ {Current} IN
    IF rest = {} THEN Delivering(w.todo)
    ELSE [w EXCEPT !.pc = "post", !.subs = rest, !.attempt = 1]

\* A row more for what is in hand.
OneMore(table) == [row \in Registrations \X Events |-> table[row] + (IF row \in InHand THEN 1 ELSE 0)]

\* Mutant: a failed delivery goes to the dead letters alone.
LoggedIfDelivered == IF w.ok THEN [db EXCEPT !.delivered = OneMore(@)] ELSE db

Logged == IF w.ok THEN [db EXCEPT !.delivered = OneMore(@)] ELSE [db EXCEPT !.failed = OneMore(@)]

\* _record_delivery, for both outcomes.
RecordDelivery ==
  /\ w.pc = "log"
  /\ db' = Logged
  /\ got' = {row \in got : Logged.delivered[row] + Logged.failed[row] = 0}
  /\ w' = IF w.ok THEN Onward ELSE [w EXCEPT !.pc = "dead"]
  /\ UNCHANGED <<feed, faults>>

RecordDeadLetter ==
  /\ w.pc = "dead"
  /\ db' = [db EXCEPT !.dead = OneMore(@)]
  /\ w' = Onward
  /\ UNCHANGED <<feed, faults, got>>

DatabaseFails == w.pc \in {"subscriptions", "log", "dead"} /\ End

-----------------------------------------------------------------------------
Work ==
  \/ Poll \/ ReadSubscriptions \/ Pick \/ NextRound
  \/ Post \/ RecordDelivery \/ RecordDeadLetter

Next ==
  \/ \E verified \in BOOLEAN : Ingest(verified)
  \/ \E e \in Events : Vote(e)
  \/ \E enabled \in BOOLEAN : Register(enabled)
  \/ Startup \/ Stop \/ DatabaseFails
  \/ Work

Spec == Init /\ [][Next]_vars

\* The thread is scheduled; every request it makes has a timeout.
FairSpec == Spec /\ WF_vars(Work)

-----------------------------------------------------------------------------
(***************************************************************************)
(* Properties.                                                             *)
(***************************************************************************)

\* "Audit logging of all delivery attempts", "Dead-letter queue for failed
\* deliveries": what reached a registration is in the log, or in hand, but for
\* one event per fault; a delivery logged as failed has its dead letter and the
\* other way round, but for one per fault.
AttemptsAreRecorded ==
  /\ Cardinality(got \ InHand) <= faults
  /\ \A row \in Registrations \X Events :
       /\ db.dead[row] <= db.failed[row]
       /\ db.failed[row] <= db.dead[row] + faults + (IF w.pc = "dead" /\ row \in InHand THEN 1 ELSE 0)

\* Redelivery is bounded: a registration has one row for an event per life of
\* the process, however often polls return it.
OneRowPerLife ==
  \A row \in Registrations \X Events : db.delivered[row] + db.failed[row] <= 1 + faults

Running == w.pc \notin {"down", "ended"}

Due(r, e) ==
  /\ w.pc = "poll" /\ TxHash(e) \notin w.seen
  /\ e \in feed.verified /\ OnPage(e)
  /\ r \in Enabled

Dealt(r, e) == db.delivered[<<r, e>>] + db.failed[<<r, e>>] >= 1 \/ ~OnPage(e) \/ ~Running

\* A verified event with a transaction hash of its own, still on the page of the
\* next poll, is delivered or given up for every enabled registration.
DueIsDealtWith ==
  \A r \in Registrations, e \in Events : e <= StoreCap => (Due(r, e) ~> Dealt(r, e))

=============================================================================
