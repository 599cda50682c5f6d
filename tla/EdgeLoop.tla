------------------------------ MODULE EdgeLoop ------------------------------
(***************************************************************************)
(* A background loop of edge-planet/main.py that endpoints start and stop: *)
(* the event stream, which sends Count events and ends, and the camera     *)
(* loop, which goes on until it is stopped (Count = 0).                    *)
(*                                                                         *)
(* The start endpoint runs on a pool thread: it looks whether the thread   *)
(* the module global names is alive, clears the stop event, creates a      *)
(* thread and makes it current, and starts it, all without a lock.  The    *)
(* stop event is shared by every thread the loop ever had.                 *)
(***************************************************************************)
EXTENDS Integers, Sequences, FiniteSets

CONSTANTS
  Requests,  \* pool threads that serve the start endpoint
  Count,     \* request.count, 0 for a loop without end
  MaxStarts  \* bound on the threads started

\* Assumed of the constants by MCServices and by the theorems.
NumbersAssumption == {Count, MaxStarts} \subseteq Nat

VARIABLES
  stop,       \* the stop event is set
  current,    \* the thread the module global names, 0 for None
  threads,    \* the threads so far
  req,        \* where each start request is
  overlapped  \* history: two start requests were under way at once

vars == <<stop, current, threads, req, overlapped>>

\* held: the stop endpoint answered while the thread was alive and no start
\* was under way; late: events begun since.
Thread == [at : {"new", "test", "send", "over"}, sent : 0 .. Count, held : BOOLEAN, late : 0 .. 1]

TypeOK ==
  /\ stop \in BOOLEAN /\ overlapped \in BOOLEAN
  /\ threads \in Seq(Thread) /\ Len(threads) <= MaxStarts
  /\ current \in 0 .. Len(threads)
  /\ req \in [Requests -> {"idle", "clear", "create", "start"}]

Init ==
  /\ stop = FALSE
  /\ current = 0
  /\ threads = <<>>
  /\ req = [r \in Requests |-> "idle"]
  /\ overlapped = FALSE

\* Thread.is_alive: started, and not over.
Live == {i \in DOMAIN threads : threads[i].at \in {"test", "send"}}

UnderWay == {r \in Requests : req[r] # "idle"}

-----------------------------------------------------------------------------
\* Mutant: a start is never refused.
NeverRefused == TRUE

MayStart == current \notin Live

\* A request that finds the loop running is answered 409 and changes nothing.
CheckStart(r) ==
  /\ req[r] = "idle"
  /\ MayStart
  /\ Len(threads) + Cardinality(UnderWay) < MaxStarts
  /\ req' = [req EXCEPT ![r] = "clear"]
  /\ overlapped' = (overlapped \/ UnderWay # {})
  /\ UNCHANGED <<stop, current, threads>>

ClearStop(r) ==
  /\ req[r] = "clear"
  /\ stop' = FALSE
  /\ req' = [req EXCEPT ![r] = "create"]
  /\ UNCHANGED <<current, threads, overlapped>>

\* The new thread is current before it runs: until then it does not count as
\* alive.
CreateThread(r) ==
  /\ req[r] = "create"
  /\ threads' = Append(threads, [at |-> "new", sent |-> 0, held |-> FALSE, late |-> 0])
  /\ current' = Len(threads')
  /\ req' = [req EXCEPT ![r] = "start"]
  /\ UNCHANGED <<stop, overlapped>>

\* _stream_thread.start(): the thread the global names, whoever created it; a
\* second start of one thread raises.
Started == [threads EXCEPT ![current].at = IF @ = "new" THEN "test" ELSE @]

StartThread(r) ==
  /\ req[r] = "start"
  /\ threads' = Started
  /\ req' = [req EXCEPT ![r] = "idle"]
  /\ UNCHANGED <<stop, current, overlapped>>

Stop ==
  /\ stop' = TRUE
  /\ threads' = [i \in DOMAIN threads |->
       [threads[i] EXCEPT !.held = @ \/ (i \in Live /\ UnderWay = {})]]
  /\ UNCHANGED <<current, req, overlapped>>

-----------------------------------------------------------------------------
\* Mutant: the stop event is looked at only once everything is sent.
GoesOnWhenStopped(i) == Count = 0 \/ threads[i].sent < Count

\* Mutant: one event more than was asked for.
OneEventMore(i) == ~stop /\ (Count = 0 \/ threads[i].sent <= Count)

GoesOn(i) == ~stop /\ (Count = 0 \/ threads[i].sent < Count)

\* The head of the loop.
Test(i) ==
  /\ threads[i].at = "test"
  /\ threads' = [threads EXCEPT
       ![i].at = IF GoesOn(i) THEN "send" ELSE "over",
       ![i].late = IF GoesOn(i) /\ threads[i].held THEN 1 ELSE @]
  /\ UNCHANGED <<stop, current, req, overlapped>>

SentAfter(i) == IF Count = 0 THEN 0 ELSE threads[i].sent + 1

\* The stream's body passes over every exception; the camera's catches only an
\* HTTPException, so an answer of the inference service or of the swarm that does
\* not parse ends its thread.
AfterBody == IF Count = 0 THEN {"test", "over"} ELSE {"test"}

\* The body: sent or not (a camera frame that is missing, not confident enough
\* or refused by the swarm), the event counts, and the thread sleeps.
Send(i) ==
  /\ threads[i].at = "send"
  /\ \E at \in AfterBody :
       threads' = [threads EXCEPT ![i].at = at, ![i].sent = SentAfter(i)]
  /\ UNCHANGED <<stop, current, req, overlapped>>

Run(i) == i \in DOMAIN threads /\ (Test(i) \/ Send(i))
Serve(r) == ClearStop(r) \/ CreateThread(r) \/ StartThread(r)

Next ==
  \/ \E r \in Requests : CheckStart(r) \/ Serve(r)
  \/ \E i \in 1 .. MaxStarts : Run(i)
  \/ Stop

Spec == Init /\ [][Next]_vars

\* Threads are scheduled; every request the body makes has a timeout.
Fairness ==
  /\ \A i \in 1 .. MaxStarts : WF_vars(Run(i))
  /\ \A r \in Requests : WF_vars(Serve(r))

FairSpec == Spec /\ Fairness

-----------------------------------------------------------------------------
(***************************************************************************)
(* Properties.                                                             *)
(***************************************************************************)

\* "stream already running": as long as no two starts overlap, at most one
\* thread of the loop is alive, over any number of starts and stops.
OneAtATime == ~overlapped => Cardinality(Live) <= 1

\* A stop that no start was under way for is final: the thread it was meant for
\* begins no further event, though later starts clear the event it set.
StopTakesHold == ~overlapped => \A i \in DOMAIN threads : threads[i].late = 0

\* Once asked to stop and left alone, every thread ends, orphans of overlapping
\* starts included.
StopEndsAll == []<>(~stop \/ UnderWay # {} \/ Live = {})

=============================================================================
