-------------------------- MODULE AuthorityGateway --------------------------
(***************************************************************************)
(* The Python authority, authority-chain/gateway/main.py: submissions over *)
(* REST and gRPC, votes over gRPC, a bounded deque of documents, and a log *)
(* of one JSON line per document that a restart reads back.                *)
(*                                                                         *)
(* store_lock is held from the search for a duplicate to the write of the  *)
(* line, the call to the LLM verifier included.  What is on disk is what   *)
(* the document was when it was written: votes change memory alone.        *)
(*                                                                         *)
(* External: the LLM verifier, which answers, fails or times out, and the  *)
(* disk, which may refuse a write, leaving part of the line or none.  A    *)
(* line that does not parse is skipped when the log is read back: of the   *)
(* log the model keeps the lines that do, and whether it ends in a part.   *)
(***************************************************************************)
EXTENDS Integers, Sequences, FiniteSets

CONSTANTS
  Envelopes,     \* envelope_id of the submissions
  Frames,        \* frame_hash values
  FrameOf,       \* the frame_hash a submission carries
  Confident,     \* submissions with a confidence of at least 0.8
  Threads,       \* what serves requests: gRPC workers and the event loop
  Free,          \* nobody holds store_lock
  NoEnvelope,    \* what an idle thread serves
  MaxInMemory,   \* MAX_IN_MEMORY
  VoteThreshold, \* VOTE_THRESHOLD
  MaxRequests,   \* bound on the submissions served
  MaxVotes,      \* bound on the votes cast
  MaxFailures,   \* bound on failed writes
  MaxRestarts    \* bound on restarts

ASSUME NamesAssumption ==
  Free \notin Threads /\ NoEnvelope \notin Envelopes /\ IsFiniteSet(Threads)
ASSUME BodyAssumption == FrameOf \in [Envelopes -> Frames] /\ Confident \subseteq Envelopes
ASSUME NumbersAssumption ==
  /\ MaxInMemory \in Nat \ {0}
  /\ VoteThreshold \in Nat
  /\ {MaxRequests, MaxVotes, MaxFailures, MaxRestarts} \subseteq Nat

VARIABLES
  pc,        \* where each thread is
  serving,   \* the envelope it serves
  lock,      \* holder of store_lock
  store,     \* the deque, oldest first
  log,       \* the lines of EVENT_LOG that parse
  openLine,  \* behind them lies a part of a line, without an end
  requests,  \* submissions so far
  failures,  \* failed writes so far
  restarts,  \* restarts so far
  cast,      \* history: votes of each kind cast on each frame
  written,   \* history: successful writes of each envelope
  announced  \* history: broadcasts scheduled for each envelope

threadVars == <<pc, serving, lock>>
diskVars   == <<log, openLine>>
bounds     == <<requests, failures, restarts>>
histVars   == <<cast, written, announced>>
vars       == <<threadVars, store, diskVars, bounds, histVars>>

Statuses == {"pending", "verified"}
\* What the verifier said, "clear" standing for no answer too.
Verdicts == {"clear", "suspicious"}
Votes == {"yes", "no"}

Doc == [env : Envelopes, height : Nat, status : Statuses, verdict : Verdicts, yes : Nat, no : Nat]

Steps == {"idle", "waiting", "verify", "persist", "announce", "done"}

TypeOK ==
  /\ pc \in [Threads -> Steps]
  /\ serving \in [Threads -> Envelopes \cup {NoEnvelope}]
  /\ lock \in Threads \cup {Free}
  /\ store \in Seq(Doc) /\ Len(store) <= MaxInMemory
  /\ log \in Seq(Doc)
  /\ openLine \in BOOLEAN
  /\ requests \in 0 .. MaxRequests /\ failures \in 0 .. MaxFailures /\ restarts \in 0 .. MaxRestarts
  /\ cast \in [Frames \X Votes -> Nat]
  /\ written \in [Envelopes -> Nat]
  /\ announced \in [Envelopes -> Nat]

Init ==
  /\ pc = [t \in Threads |-> "idle"]
  /\ serving = [t \in Threads |-> NoEnvelope]
  /\ lock = Free
  /\ store = <<>>
  /\ log = <<>>
  /\ openLine = FALSE
  /\ requests = 0 /\ failures = 0 /\ restarts = 0
  /\ cast = [ballot \in Frames \X Votes |-> 0]
  /\ written = [e \in Envelopes |-> 0]
  /\ announced = [e \in Envelopes |-> 0]

Goto(t, step) == pc' = [pc EXCEPT ![t] = step]

-----------------------------------------------------------------------------
(***************************************************************************)
(* The deque and the log.                                                  *)
(***************************************************************************)

LastOf(s, n) == SubSeq(s, IF Len(s) > n THEN Len(s) - n + 1 ELSE 1, Len(s))

\* Mutant: a deque without maxlen.
PushUnbounded(s, d) == Append(s, d)

\* deque.append with maxlen.
Push(s, d) == LastOf(Append(s, d), MaxInMemory)

\* Mutant: the oldest lines are read back, not the newest.
LoadOldest == SubSeq(log, 1, IF Len(log) > MaxInMemory THEN MaxInMemory ELSE Len(log))

LoadExisting == LastOf(log, MaxInMemory)

\* persist_event: what is written behind an unfinished line spoils with it.
WriteLine(d) ==
  /\ log' = IF openLine THEN log ELSE Append(log, d)
  /\ openLine' = FALSE

\* The write fails, with or without a part of the line on disk.
TearLine ==
  /\ openLine' \in {openLine, TRUE}
  /\ UNCHANGED log

-----------------------------------------------------------------------------
(***************************************************************************)
(* ingest_submission.                                                      *)
(***************************************************************************)

Begin(t, e) ==
  /\ pc[t] = "idle"
  /\ requests < MaxRequests
  /\ requests' = requests + 1
  /\ serving' = [serving EXCEPT ![t] = e]
  /\ Goto(t, "waiting")
  /\ UNCHANGED <<lock, store, diskVars, failures, restarts, histVars>>

\* Mutant: nothing is taken for a duplicate.
NothingKnown(e) == FALSE

Known(e) == \E i \in DOMAIN store : store[i].env = e

\* A duplicate is answered from the store.
AnswerDuplicate(t) ==
  /\ pc[t] = "waiting"
  /\ lock = Free
  /\ Known(serving[t])
  /\ Goto(t, "done")
  /\ UNCHANGED <<serving, lock, store, diskVars, bounds, histVars>>

AcceptNew(t) ==
  /\ pc[t] = "waiting"
  /\ lock = Free
  /\ ~Known(serving[t])
  /\ lock' = t
  /\ Goto(t, "verify")
  /\ UNCHANGED <<serving, store, diskVars, bounds, histVars>>

\* "If LLM says it's suspicious, downgrade"; without an answer the confidence
\* decides.
InitialStatus(e, verdict) ==
  IF e \in Confident /\ verdict # "suspicious" THEN "verified" ELSE "pending"

NextHeight == Len(store) + 1

NewDoc(e, verdict) ==
  [env |-> e, height |-> NextHeight, status |-> InitialStatus(e, verdict), verdict |-> verdict,
   yes |-> IF VoteThreshold > 1 THEN VoteThreshold ELSE 1, no |-> 0]

\* Mutant: a call without a timeout may hang.
HangingCall(t) == FALSE

\* call_llm_verifier: an answer, or none after an error or LLM_TIMEOUT; the
\* lock is held all the while.
Verify(t) ==
  /\ pc[t] = "verify"
  /\ \E verdict \in Verdicts :
       store' = Push(store, NewDoc(serving[t], verdict))
  /\ Goto(t, "persist")
  /\ UNCHANGED <<serving, lock, diskVars, bounds, histVars>>

\* The line is written and the lock released.
Persist(t) ==
  /\ pc[t] = "persist"
  /\ WriteLine(store[Len(store)])
  /\ lock' = Free
  /\ written' = [written EXCEPT ![serving[t]] = @ + 1]
  /\ Goto(t, "announce")
  /\ UNCHANGED <<serving, store, bounds, cast, announced>>

\* Mutant: a failed write is announced all the same.
FailAndGoOn(t) ==
  /\ pc[t] = "persist" /\ failures < MaxFailures /\ failures' = failures + 1
  /\ TearLine
  /\ lock' = Free
  /\ Goto(t, "announce")
  /\ UNCHANGED <<serving, store, requests, restarts, histVars>>

\* The write raises: the submitter is told of an error, the document stays in
\* the deque, nobody is notified.
PersistFails(t) ==
  /\ pc[t] = "persist"
  /\ failures < MaxFailures
  /\ failures' = failures + 1
  /\ TearLine
  /\ lock' = Free
  /\ Goto(t, "done")
  /\ UNCHANGED <<serving, store, requests, restarts, histVars>>

\* run_coroutine_threadsafe(broadcast_tendermint), after the lock is released.
Announce(t) ==
  /\ pc[t] = "announce"
  /\ announced' = [announced EXCEPT ![serving[t]] = @ + 1]
  /\ Goto(t, "done")
  /\ UNCHANGED <<serving, lock, store, diskVars, bounds, cast, written>>

Answer(t) ==
  /\ pc[t] = "done"
  /\ Goto(t, "idle")
  /\ serving' = [serving EXCEPT ![t] = NoEnvelope]
  /\ UNCHANGED <<lock, store, diskVars, bounds, histVars>>

-----------------------------------------------------------------------------
(***************************************************************************)
(* grpc_vote_event, and a restart.                                         *)
(***************************************************************************)

\* Mutant: the vote is counted for every document of the frame.
EveryTarget(f) == {i \in DOMAIN store : FrameOf[store[i].env] = f}

\* The first document of the deque with that frame.
Target(f) ==
  {i \in DOMAIN store :
     /\ FrameOf[store[i].env] = f
     /\ \A j \in 1 .. i - 1 : FrameOf[store[j].env] # f}

Counted(d, vote) ==
  LET yes == IF vote = "yes" THEN d.yes + 1 ELSE d.yes
      no  == IF vote = "no" THEN d.no + 1 ELSE d.no IN
  [d EXCEPT !.yes = yes, !.no = no,
            !.status = IF yes >= VoteThreshold /\ yes > no THEN "verified" ELSE @]

TotalVotes(f) == cast[<<f, "yes">>] + cast[<<f, "no">>]

\* One step under the lock; a frame no document carries is an error.
Vote(f, vote) ==
  /\ lock = Free
  /\ Target(f) # {}
  /\ TotalVotes(f) < MaxVotes
  /\ store' = [i \in DOMAIN store |->
                 IF i \in Target(f) THEN Counted(store[i], vote) ELSE store[i]]
  /\ cast' = [cast EXCEPT ![<<f, vote>>] = @ + 1]
  /\ UNCHANGED <<threadVars, diskVars, bounds, written, announced>>

\* The process dies and starts again: startup reads the log.
Restart ==
  /\ restarts < MaxRestarts
  /\ restarts' = restarts + 1
  /\ pc' = [t \in Threads |-> "idle"]
  /\ serving' = [t \in Threads |-> NoEnvelope]
  /\ lock' = Free
  /\ store' = LoadExisting
  /\ UNCHANGED <<diskVars, requests, failures, histVars>>

-----------------------------------------------------------------------------
Handle(t) ==
  \/ AnswerDuplicate(t) \/ AcceptNew(t) \/ Verify(t)
  \/ Persist(t) \/ PersistFails(t) \/ Announce(t) \/ Answer(t)

Next ==
  \/ \E t \in Threads, e \in Envelopes : Begin(t, e)
  \/ \E t \in Threads : Handle(t)
  \/ \E f \in Frames, vote \in Votes : Vote(f, vote)
  \/ Restart

Spec == Init /\ [][Next]_vars

\* Threads are scheduled, and the verifier's timeout ends every call to it.
FairSpec == Spec /\ \A t \in Threads : WF_vars(Handle(t))

-----------------------------------------------------------------------------
(***************************************************************************)
(* Properties.                                                             *)
(***************************************************************************)

EnvsOf(s) == [i \in DOMAIN s |-> s[i].env]

\* As long as the disk works, a restart brings back exactly the documents the
\* deque held: the deque is the tail of the log whenever the lock is free.
MemoryIsLogTail ==
  failures = 0 /\ lock = Free => EnvsOf(store) = EnvsOf(LastOf(log, MaxInMemory))

\* As long as the disk works, the deque holds an envelope once, over retries,
\* evictions and restarts.
OncePerEnvelope ==
  failures = 0 => \A i, j \in DOMAIN store : store[i].env = store[j].env => i = j

\* Nobody is notified of a document more often than it was written.
AnnouncedIsWritten == \A e \in Envelopes : announced[e] <= written[e]

\* One vote counts once: the documents of a frame share the votes cast on it.
VotesCountOnce ==
  \A f \in Frames :
    LET docs == {i \in DOMAIN store : FrameOf[store[i].env] = f} IN
      \A i, j \in docs : i # j => store[i].no + store[j].no <= cast[<<f, "no">>]

\* Every submission is answered, however slow the verifier and the others that
\* wait for the lock.
EverySubmissionAnswered ==
  \A t \in Threads : (pc[t] # "idle") ~> (pc[t] = "idle")

\* "the event is marked verified if enough yes votes are collected"
\* (.github/prompts/phase-iii-blockchain-authority.prompt.md): a document that
\* was held back is verified only by VoteThreshold approving votes.
VerifiedByYesVotes ==
  \A i \in DOMAIN store :
    LET d == store[i] IN
      d.status = "verified" /\ d.verdict = "suspicious" => cast[<<FrameOf[d.env], "yes">>] >= VoteThreshold

=============================================================================
