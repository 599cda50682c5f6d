----------------------------- MODULE RateWindow -----------------------------
(***************************************************************************)
(* The sliding window of auth-service/main.py, _rate_limited, for one      *)
(* client and bucket.  A pool thread reads the clock before it takes the   *)
(* lock, so entries need not be in order of time, and an entry is dropped  *)
(* by the clock of whoever holds the lock.                                 *)
(***************************************************************************)
EXTENDS Integers, Sequences, FiniteSets, SequencesExt

CONSTANTS
  Threads,  \* pool threads that serve the bucket
  Limit,    \* limit
  Window,   \* window_seconds
  MaxTime   \* bound on the clock

\* Assumed of the constants by MCServices and by the theorems.
NumbersAssumption == {Limit, Window} \subseteq Nat \ {0} /\ MaxTime \in Nat

VARIABLES
  clock,    \* the time
  entries,  \* the deque of the bucket
  read,     \* what each thread read from the clock, -1 when it serves nothing
  late,     \* history: a later reading was let in since the thread read the clock
  let       \* history: readings of the requests let in

vars == <<clock, entries, read, late, let>>

TypeOK ==
  /\ clock \in 0 .. MaxTime
  /\ entries \in Seq(0 .. MaxTime) /\ Len(entries) <= Limit
  /\ read \in [Threads -> -1 .. MaxTime]
  /\ late \in [Threads -> BOOLEAN]
  /\ let \in Seq([at : 0 .. MaxTime, late : BOOLEAN])

Init ==
  /\ clock = 0
  /\ entries = <<>>
  /\ read = [t \in Threads |-> -1]
  /\ late = [t \in Threads |-> FALSE]
  /\ let = <<>>

Tick == clock < MaxTime /\ clock' = clock + 1 /\ UNCHANGED <<entries, read, late, let>>

ReadClock(t) ==
  /\ read[t] = -1
  /\ read' = [read EXCEPT ![t] = clock]
  /\ late' = [late EXCEPT ![t] = FALSE]
  /\ UNCHANGED <<clock, entries, let>>

\* Mutant: an entry is dropped at the window's very length.
DroppedEarly(now) == LET keep == SelectInSeq(entries, LAMBDA e : now - e < Window) IN
  IF keep = 0 THEN <<>> ELSE SubSeq(entries, keep, Len(entries))

\* Entries are dropped from the left as long as they are older than the window.
Kept(now) == LET keep == SelectInSeq(entries, LAMBDA e : now - e <= Window) IN
  IF keep = 0 THEN <<>> ELSE SubSeq(entries, keep, Len(entries))

\* Mutant: one request more than the limit.
FullAfterOneMore(kept) == Len(kept) > Limit

Full(kept) == Len(kept) >= Limit

\* The step under the lock: 429, or let in.
Enter(t) ==
  /\ read[t] # -1
  /\ LET kept == Kept(read[t]) IN
       \/ /\ Full(kept)
          /\ entries' = kept
          /\ UNCHANGED <<let, late>>
       \/ /\ ~Full(kept)
          /\ entries' = Append(kept, read[t])
          /\ let' = Append(let, [at |-> read[t], late |-> late[t]])
          /\ late' = [u \in Threads |-> late[u] \/ (read[u] # -1 /\ read[u] < read[t])]
  /\ read' = [read EXCEPT ![t] = -1]
  /\ UNCHANGED clock

Next == Tick \/ \E t \in Threads : ReadClock(t) \/ Enter(t)

Spec == Init /\ [][Next]_vars

\* Requests let in on time whose reading lies in the Window seconds up to an
\* instant.
Within(now) == {i \in DOMAIN let : ~let[i].late /\ let[i].at \in now - Window .. now}

\* In no stretch of Window seconds are more than Limit requests let in, but for
\* those a later reading had overtaken on the way to the lock.
WindowBound == \A now \in 0 .. MaxTime : Cardinality(Within(now)) <= Limit

=============================================================================
