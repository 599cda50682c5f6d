----------------------------- MODULE Compliance -----------------------------
(***************************************************************************)
(* compliance-engine/main.py: transform applies the policies of a region   *)
(* to an event and records what it did, a line of the audit file first,    *)
(* then a row of the audit table, and answers.  Requests run on pool       *)
(* threads.  What the policies do to an event is left out.                 *)
(*                                                                         *)
(* External: the file, the database (either may fail, the one after a part *)
(* of a line, the other after it has committed), and the caller, who may   *)
(* ask again whatever became of the answer.  A record goes to the file in  *)
(* one write: two do not mix.                                              *)
(***************************************************************************)
EXTENDS Integers, FiniteSets

CONSTANTS
  Jobs,        \* events that callers hand over
  HasDatabase, \* DATABASE_URL is set
  MaxAttempts  \* bound on the requests for one event

\* Assumed of the constants by MCServices and by the theorems.
DatabaseAssumption == HasDatabase \in BOOLEAN
AttemptsAssumption == MaxAttempts \in Nat \ {0}

VARIABLES
  job,        \* what each request is at
  lines,      \* the audit file: the requests whose line reads back
  spoilt,     \* those whose line was glued to an unfinished one before it
  unfinished, \* history: those that left a line unfinished
  ragged,     \* the file ends in an unfinished line
  rows        \* the audit table

vars == <<job, lines, spoilt, unfinished, ragged, rows>>

\* A request: the event and how often it had been asked for.
Asked == Jobs \X (1 .. MaxAttempts)

TypeOK ==
  /\ job \in [Asked -> {"idle", "file", "row", "ok", "error"}]
  /\ {lines, spoilt, unfinished, rows} \subseteq SUBSET Asked
  /\ ragged \in BOOLEAN

Init ==
  /\ job = [r \in Asked |-> "idle"]
  /\ lines = {} /\ spoilt = {} /\ unfinished = {} /\ rows = {}
  /\ ragged = FALSE

-----------------------------------------------------------------------------
\* The policies are applied to a copy of the event, no exception is possible.
Transform(r) ==
  /\ job[r] = "idle"
  /\ job' = [job EXCEPT ![r] = "file"]
  /\ UNCHANGED <<lines, spoilt, unfinished, ragged, rows>>

\* A caller that was told of an error, gave up waiting or lost the answer asks
\* again; the request before may still be under way.
Ask(r) ==
  /\ \A q \in Asked : q[1] = r[1] /\ q[2] + 1 = r[2] => job[q] # "idle"
  /\ Transform(r)

Tell(r, answer) == job' = [job EXCEPT ![r] = answer]

\* Mutant: the failure to write the file is passed over.
FileSkipped(r) == job' = [job EXCEPT ![r] = "row"]

\* The exception is answered, nothing else is written.
FileFailed(r) == Tell(r, "error")

GoOn(r) == IF HasDatabase THEN job' = [job EXCEPT ![r] = "row"] ELSE Tell(r, "ok")

\* The line reaches the file; the next reader does not find it when it follows
\* an unfinished one.
Append(r) ==
  /\ IF ragged THEN spoilt' = spoilt \cup {r} /\ UNCHANGED lines
               ELSE lines' = lines \cup {r} /\ UNCHANGED spoilt
  /\ ragged' = FALSE
  /\ UNCHANGED unfinished

\* The write fails after a part of the line.
AppendPart(r) ==
  /\ unfinished' = unfinished \cup {r}
  /\ ragged' = TRUE
  /\ UNCHANGED <<lines, spoilt>>

WriteLine(r) ==
  /\ job[r] = "file"
  /\ \/ Append(r) /\ GoOn(r)
     \/ Append(r) /\ FileFailed(r)
     \/ AppendPart(r) /\ FileFailed(r)
     \/ UNCHANGED <<lines, spoilt, unfinished, ragged>> /\ FileFailed(r)
  /\ UNCHANGED rows

\* The row is committed or rolled back, and a commit may raise though the row
\* is there; the line stays.
WriteRow(r) ==
  /\ job[r] = "row"
  /\ \/ rows' = rows \cup {r} /\ Tell(r, "ok")
     \/ rows' = rows \cup {r} /\ Tell(r, "error")
     \/ UNCHANGED rows /\ Tell(r, "error")
  /\ UNCHANGED <<lines, spoilt, unfinished, ragged>>

Next == \E r \in Asked : Ask(r) \/ WriteLine(r) \/ WriteRow(r)

Spec == Init /\ [][Next]_vars

-----------------------------------------------------------------------------
(***************************************************************************)
(* Properties.                                                             *)
(***************************************************************************)

\* However requests overlap, fail and are repeated: a request that handed its
\* event on has its row and its line, and no row is without a line.  A line that
\* does not read back follows a write that failed half way, each such write
\* costs at most one.  Nothing is promised the other way: a request that failed
\* may have its line or its row, and an event asked for twice may have two.
HandedOnIsAudited ==
  /\ \A r \in Asked : job[r] = "ok" => r \in lines \cup spoilt /\ (HasDatabase => r \in rows)
  /\ rows \subseteq lines \cup spoilt
  /\ Cardinality(spoilt) + (IF ragged THEN 1 ELSE 0) <= Cardinality(unfinished)
=============================================================================
