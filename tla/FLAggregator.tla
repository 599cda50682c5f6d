---------------------------- MODULE FLAggregator ----------------------------
(***************************************************************************)
(* The model aggregator, intelligence-layer/fl-aggregator/main.py.         *)
(*                                                                         *)
(* Uploads are served by a pool of threads.  They share a list of pending  *)
(* updates, a version and the weights, and no lock: the list that one      *)
(* thread sums up, mixes and clears is appended to and cleared by others.  *)
(* A thread may be preempted at every call, not within a statement that    *)
(* has none: each action is what happens between two such points.          *)
(*                                                                         *)
(* A model is a file, written first, and a row that names it; startup      *)
(* goes by the newest row.  Weights are abstracted to the updates they     *)
(* were mixed from, in order; <<>> are the zeros the process starts with.  *)
(*                                                                         *)
(* External: the database, whose statements may fail, and the file system. *)
(***************************************************************************)
EXTENDS Integers, Sequences, FiniteSets

CONSTANTS
  Updates,     \* what clients upload, each once
  Threads,     \* the threads that serve uploads
  NoUpdate,    \* what an idle thread serves
  NoFile, Empty, Garbled,  \* a file that is absent, truncated, unreadable
  MinUpdates,  \* MIN_UPDATES_FOR_AGG
  MaxPending,  \* MAX_PENDING_UPDATES
  MaxFailures, \* bound on failing database statements
  MaxRestarts  \* bound on restarts

ASSUME NumbersAssumption ==
  {MinUpdates, MaxPending, MaxFailures, MaxRestarts} \subseteq Nat
ASSUME UpdatesAssumption == IsFiniteSet(Updates)
ASSUME NamesAssumption ==
  NoUpdate \notin Updates /\ {NoFile, Empty, Garbled} \cap Seq(Updates) = {}

VARIABLES
  phase,    \* how far startup has come
  th,       \* what each thread is doing
  pending,  \* pending_updates
  version,  \* current_version
  weights,  \* current_weights
  file,     \* MODEL_DIR
  rows,     \* the versions in fl_model_versions
  failures, \* failed statements so far
  restarts, \* restarts so far
  sent,     \* updates uploaded so far
  accepted, \* history: updates whose upload ran to its end in this process
  models,   \* history: all weights ever published
  overlap,  \* history: two uploads were under way together
  unread    \* history: the last startup could not read the newest model

modelVars  == <<version, weights>>
diskVars   == <<file, rows>>
systemVars == <<phase, restarts, unread>>
clientVars == <<sent, overlap>>
vars == <<systemVars, th, pending, modelVars, diskVars, failures, clientVars, accepted, models>>

\* Each upload publishes at most once.
Versions == 1 .. Cardinality(Updates) + 1

Steps == {"idle", "append", "insert", "count", "sum", "mix", "bump", "publish",
          "open", "fill", "row", "clear"}

\* read is what a thread has seen in its present walk over the list: its
\* position there, and in the second walk what it has mixed.
Thread == [pc : Steps, upd : Updates \cup {NoUpdate}, read : Seq(Updates), saving : Versions]
Idle == [pc |-> "idle", upd |-> NoUpdate, read |-> <<>>, saving |-> 1]

TypeOK ==
  /\ phase \in {"load", "open", "fill", "row", "serving"}
  /\ th \in [Threads -> Thread]
  /\ pending \in Seq(Updates)
  /\ version \in Versions
  /\ weights \in Seq(Updates)
  /\ file \in [Versions -> Seq(Updates) \cup {NoFile, Empty, Garbled}]
  /\ rows \subseteq Versions
  /\ {failures, restarts} \subseteq Nat
  /\ sent \subseteq Updates /\ accepted \subseteq sent
  /\ models \in Seq(Seq(Updates))
  /\ {overlap, unread} \subseteq BOOLEAN

\* What a process starts with.
InitMemory ==
  /\ phase = "load"
  /\ th = [t \in Threads |-> Idle]
  /\ pending = <<>>
  /\ version = 1
  /\ weights = <<>>
  /\ accepted = {}

Init ==
  /\ InitMemory
  /\ file = [v \in Versions |-> NoFile]
  /\ rows = {}
  /\ failures = 0 /\ restarts = 0
  /\ sent = {}
  /\ models = <<>>
  /\ overlap = FALSE /\ unread = FALSE

Goto(t, step) == th' = [th EXCEPT ![t].pc = step]

\* The handler returns or raises: the thread is free, its locals are gone.
Finish(t) == th' = [th EXCEPT ![t] = Idle]

-----------------------------------------------------------------------------
(***************************************************************************)
(* model_update.                                                           *)
(***************************************************************************)

QueueHasRoom == Len(pending) < MaxPending

\* The check of the queue, 429 when it is full.
Begin(t, u) ==
  /\ phase = "serving"
  /\ th[t] = Idle
  /\ u \notin sent
  /\ sent' = sent \cup {u}
  /\ overlap' = (overlap \/ \E s \in Threads : th[s] # Idle)
  /\ th' = IF QueueHasRoom THEN [th EXCEPT ![t] = [Idle EXCEPT !.pc = "append", !.upd = u]] ELSE th
  /\ UNCHANGED <<systemVars, pending, modelVars, diskVars, failures, accepted, models>>

\* Mutant: the newest update comes first.
Prepended(u) == <<u>> \o pending

Appended(u) == Append(pending, u)

AppendUpdate(t) ==
  /\ th[t].pc = "append"
  /\ pending' = Appended(th[t].upd)
  /\ Goto(t, "insert")
  /\ UNCHANGED <<systemVars, modelVars, diskVars, failures, clientVars, accepted, models>>

InsertUpdate(t) ==
  /\ th[t].pc = "insert"
  /\ Goto(t, "count")
  /\ UNCHANGED <<systemVars, pending, modelVars, diskVars, failures, clientVars, accepted, models>>

\* What is on disk when a statement has raised: nothing new; or what _save_model
\* could write of a file it had truncated; or the row, when the commit did
\* arrive and its answer did not.
LeftByFailure(t) ==
  LET v == th[t].saving IN
  \/ UNCHANGED diskVars
  \/ th[t].pc = "fill" /\ file' = [file EXCEPT ![v] = Garbled] /\ UNCHANGED rows
  \/ th[t].pc = "row" /\ rows' = rows \cup {v} /\ UNCHANGED file

\* The update stays in the list, or the version advanced and the list
\* uncleared, when the client is told 500.
StatementFails(t) ==
  /\ th[t].pc \in {"insert", "open", "fill", "row"}
  /\ failures < MaxFailures
  /\ failures' = failures + 1
  /\ LeftByFailure(t)
  /\ Finish(t)
  /\ UNCHANGED <<systemVars, pending, modelVars, clientVars, accepted, models>>

-----------------------------------------------------------------------------
(***************************************************************************)
(* _maybe_aggregate.                                                       *)
(***************************************************************************)

\* The upload was answered 200.
Accept(t) == Finish(t) /\ accepted' = accepted \cup {th[t].upd}

Count(t) ==
  /\ th[t].pc = "count"
  /\ IF Len(pending) < MinUpdates
       THEN Accept(t)
       ELSE Goto(t, "sum") /\ UNCHANGED accepted
  /\ UNCHANGED <<systemVars, pending, modelVars, diskVars, failures, clientVars, models>>

\* A walk goes by position, and ends where the list ends now.
AtEnd(t) == Len(th[t].read) >= Len(pending)
Here(t)  == pending[Len(th[t].read) + 1]

WalkOn(t) ==
  /\ th[t].pc \in {"sum", "mix"} /\ ~AtEnd(t)
  /\ th' = [th EXCEPT ![t].read = Append(@, Here(t))]
  /\ UNCHANGED <<systemVars, pending, modelVars, diskVars, failures, clientVars, accepted, models>>

\* Without samples there is nothing to do; else the second walk begins.
SumDone(t) ==
  /\ th[t].pc = "sum" /\ AtEnd(t)
  /\ IF th[t].read = <<>>
       THEN Accept(t)
       ELSE th' = [th EXCEPT ![t].pc = "mix", ![t].read = <<>>] /\ UNCHANGED accepted
  /\ UNCHANGED <<systemVars, pending, modelVars, diskVars, failures, clientVars, models>>

MixDone(t) ==
  /\ th[t].pc = "mix" /\ AtEnd(t)
  /\ Goto(t, "bump")
  /\ UNCHANGED <<systemVars, pending, modelVars, diskVars, failures, clientVars, accepted, models>>

\* Mutant: the metric's increment is the version's as well.
CountedTwice == version + 2

NextVersion == version + 1

Bump(t) ==
  /\ th[t].pc = "bump"
  /\ version' = NextVersion
  /\ Goto(t, "publish")
  /\ UNCHANGED <<systemVars, pending, weights, diskVars, failures, clientVars, accepted, models>>

\* The weights are set; what _save_model is called with is read back at once,
\* the version another thread may have left there included.
Publish(t) ==
  /\ th[t].pc = "publish"
  /\ weights' = th[t].read
  /\ models' = Append(models, th[t].read)
  /\ th' = [th EXCEPT ![t].pc = "open", ![t].saving = version]
  /\ UNCHANGED <<systemVars, pending, version, diskVars, failures, clientVars, accepted>>

\* Mutant: the slice that is dropped is one update too short.
SliceDropped == SubSeq(pending, MinUpdates, Len(pending))

\* pending_updates.clear(): everything in the list, whoever put it there.
Cleared == <<>>

Clear(t) ==
  /\ th[t].pc = "clear"
  /\ pending' = Cleared
  /\ Accept(t)
  /\ UNCHANGED <<systemVars, modelVars, diskVars, failures, clientVars, models>>

-----------------------------------------------------------------------------
(***************************************************************************)
(* _save_model: write_text truncates the file and fills it; then the row.  *)
(***************************************************************************)

Truncated(v) == [file EXCEPT ![v] = Empty]

\* Two writers of one file leave the text of the last, or that with a rest of
\* the other's behind it.
Filled(v, w) ==
  {[file EXCEPT ![v] = c] : c \in IF file[v] = Empty THEN {w} ELSE {w, Garbled}}

\* The row: ON CONFLICT DO NOTHING.
SaveModel(t) ==
  LET v == th[t].saving IN
  /\ \/ th[t].pc = "open" /\ Goto(t, "fill")  /\ file' = Truncated(v) /\ UNCHANGED rows
     \/ th[t].pc = "fill" /\ Goto(t, "row")   /\ file' \in Filled(v, th[t].read) /\ UNCHANGED rows
     \/ th[t].pc = "row"  /\ Goto(t, "clear") /\ rows' = rows \cup {v} /\ UNCHANGED file
  /\ UNCHANGED <<systemVars, pending, modelVars, failures, clientVars, accepted, models>>

-----------------------------------------------------------------------------
(***************************************************************************)
(* A crash, and startup.                                                   *)
(***************************************************************************)

Crash ==
  /\ restarts < MaxRestarts
  /\ restarts' = restarts + 1
  /\ phase' = "load"
  /\ th' = [t \in Threads |-> Idle]
  /\ pending' = <<>>
  /\ version' = 1
  /\ weights' = <<>>
  /\ accepted' = {}
  /\ UNCHANGED <<diskVars, failures, clientVars, models, unread>>

\* Mutant: the oldest row decides.
OldestRow == CHOOSE v \in rows : \A w \in rows : v <= w

NewestRow == CHOOSE v \in rows : \A w \in rows : v >= w

Readable(v) == file[v] \notin {NoFile, Empty, Garbled}

\* A newest model that cannot be read is logged and passed over.
Load ==
  /\ phase = "load"
  /\ IF rows # {} /\ Readable(NewestRow)
       THEN version' = NewestRow /\ weights' = file[NewestRow]
       ELSE UNCHANGED modelVars
  /\ unread' = (rows # {} /\ ~Readable(NewestRow))
  /\ phase' = "open"
  /\ UNCHANGED <<restarts, th, pending, diskVars, failures, clientVars, accepted, models>>

\* Startup saves what it has loaded, over the file it has loaded it from.
Resave ==
  /\ \/ phase = "open" /\ phase' = "fill" /\ file' = Truncated(version) /\ UNCHANGED rows
     \/ phase = "fill" /\ phase' = "row" /\ file' \in Filled(version, weights) /\ UNCHANGED rows
     \/ phase = "row" /\ phase' = "serving" /\ rows' = rows \cup {version} /\ UNCHANGED file
  /\ UNCHANGED <<restarts, unread, th, pending, modelVars, failures, clientVars, accepted, models>>

-----------------------------------------------------------------------------
Aggregate(t) ==
  Count(t) \/ WalkOn(t) \/ SumDone(t) \/ MixDone(t) \/ Bump(t) \/ Publish(t) \/ SaveModel(t) \/ Clear(t)

Next ==
  \/ \E t \in Threads, u \in Updates : Begin(t, u)
  \/ \E t \in Threads : AppendUpdate(t) \/ InsertUpdate(t) \/ StatementFails(t) \/ Aggregate(t)
  \/ Load \/ Resave
  \/ Crash

Spec == Init /\ [][Next]_vars

-----------------------------------------------------------------------------
(***************************************************************************)
(* Properties.                                                             *)
(***************************************************************************)

Elements(q) == {q[i] : i \in DOMAIN q}

\* However the list changes under a thread that walks over it, no update
\* weighs in twice in one model.
OncePerModel ==
  \A i \in DOMAIN models : Cardinality(Elements(models[i])) = Len(models[i])

\* Startup resumes at the newest saved version or beyond, whatever the crash
\* interrupted, unless it found that very model unreadable.
VersionResumes ==
  phase # "load" /\ ~unread => \A v \in rows : v <= version

\* Uploads that do not overlap and meet no error are aggregated exactly: no
\* model mixes fewer than MinUpdates, no two models share an update, and an
\* accepted update is pending or in a model.
SerialIsExact ==
  ~overlap /\ failures = 0 =>
    /\ \A i \in DOMAIN models :
         /\ Len(models[i]) >= MinUpdates
         /\ \A j \in DOMAIN models : i # j => Elements(models[i]) \cap Elements(models[j]) = {}
    /\ accepted \subseteq Elements(pending) \cup UNION {Elements(models[i]) : i \in DOMAIN models}

\* "minimum pending updates before aggregation" (PHASE_IV_SETUP.md:53): no
\* model is published that mixes fewer.
MinimumRespected ==
  \A i \in DOMAIN models : Len(models[i]) >= MinUpdates

=============================================================================
