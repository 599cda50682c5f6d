------------------------------- MODULE LlmKeys -------------------------------
(***************************************************************************)
(* llm-service/main.py: requests that ask Ollama and then OpenRouter, with *)
(* one API key after the other.  The index of the next key is shared: each *)
(* request awaits an answer between two keys, and meanwhile others take    *)
(* keys too.  A step is what a coroutine does between two awaits.          *)
(* LLM_ENABLED is true; without it no provider is asked and no key taken.  *)
(*                                                                         *)
(* External: the two providers.  "failed" is a status other than 200 or an *)
(* httpx.HTTPError, timeouts included; "empty" a 200 without content;      *)
(* "broken" a 200 whose body is not of the shape the code reads.           *)
(***************************************************************************)
EXTENDS Integers, FiniteSets

CONSTANTS
  Requests,  \* requests under way
  Providers, \* _provider_order(): Ollama before OpenRouter where it has both
  N          \* len(_api_keys); the compose file's default is none

\* Assumed of the constants by MCServices and by the theorems.
ProvidersAssumption == Providers \subseteq {"ollama", "openrouter"} /\ Providers # {}
KeysAssumption == N \in Nat

VARIABLES
  index,    \* _key_index
  uses,     \* history: how often each key was taken
  request

vars == <<index, uses, request>>

Keys == 0 .. N - 1
Replies == {"content", "empty", "failed", "broken"}
Kinds == {"analyze", "classify", "chat"}

\* sure: the confidence is at least 0.8; left: iterations left of the loop over
\* the keys; tried: the keys taken; others: history, how many keys other requests
\* took in between; empty: a key's answer was a 200 without content; by, out:
\* what answered and what it said.
Request ==
  [at : {"new", "ollama", "openrouter", "done"}, kind : Kinds, sure : BOOLEAN, left : 0 .. N,
   tried : SUBSET Keys, others : Nat, empty : BOOLEAN, by : {"nobody", "model", "fallback", "broken"},
   out : {"none", "genuine", "suspicious", "adjusted", "zero", "text", "notice", "error"}]

TypeOK ==
  /\ index \in Keys \cup {0}
  /\ uses \in [Keys -> Nat]
  /\ request \in [Requests -> Request]

Init ==
  /\ index = 0
  /\ uses = [k \in Keys |-> 0]
  /\ request = [r \in Requests |->
       [at |-> "new", kind |-> "chat", sure |-> FALSE, left |-> 0, tried |-> {}, others |-> 0,
        empty |-> FALSE, by |-> "nobody", out |-> "none"]]

-----------------------------------------------------------------------------
\* Mutant: the index is read again from the start.
SameIndex == 0

NextIndex == (index + 1) % N

\* _next_key, for request r, whose record is d: a key of the round of every other
\* request that is between two keys of its own.
TakeKey(r, d) ==
  /\ index' = NextIndex
  /\ uses' = [uses EXCEPT ![index] = @ + 1]
  /\ request' = [s \in Requests |->
       IF s = r THEN [d EXCEPT !.at = "openrouter", !.left = @ - 1, !.tried = @ \cup {index}]
       ELSE [request[s] EXCEPT !.others = IF request[s].at = "openrouter" THEN @ + 1 ELSE @]]

Answer(r, d, by, out) ==
  /\ request' = [request EXCEPT ![r] = [d EXCEPT !.at = "done", !.by = by, !.out = out]]
  /\ UNCHANGED <<index, uses>>

\* What a request is answered without a model.
Fallback(d) ==
  CASE d.kind = "analyze"  -> IF d.sure THEN "genuine" ELSE "suspicious"
    [] d.kind = "classify" -> "zero"
    [] d.kind = "chat"     -> "notice"

\* What content is turned into: a verdict that is neither word, and content
\* that does not parse, become the fallback's; JSON that is not an object, or a
\* confidence that is not a number, raises.
Readings(d) ==
  CASE d.kind = "analyze"  -> {"genuine", "suspicious", "error"}
    [] d.kind = "classify" -> {"adjusted", "zero"}
    [] d.kind = "chat"     -> {"text"}

\* Mutant: the loop over the keys ends one early.
OneKeyFewer == N - 1

Tries == N

NoModel(r, d) == Answer(r, d, "fallback", Fallback(d))

\* call_openrouter, as far as its first await; without keys there is none.
OpenRouter(r, d) == IF N = 0 THEN NoModel(r, d) ELSE TakeKey(r, [d EXCEPT !.left = Tries])

\* call_llm, as far as its first await.
Arrive(r, kind, sure) ==
  /\ request[r].at = "new"
  /\ LET d == [request[r] EXCEPT !.kind = kind, !.sure = sure] IN
       IF "ollama" \in Providers
         THEN request' = [request EXCEPT ![r] = [d EXCEPT !.at = "ollama"]] /\ UNCHANGED <<index, uses>>
         ELSE OpenRouter(r, d)

\* No exception but httpx.HTTPError is caught: the request ends in a 500.
Broken(r, reply) == reply = "broken" /\ Answer(r, request[r], "broken", "error")

Read(r, reply) == reply = "content" /\ \E out \in Readings(request[r]) : Answer(r, request[r], "model", out)

OllamaReplies(r, reply) ==
  /\ request[r].at = "ollama"
  /\ \/ Broken(r, reply)
     \/ Read(r, reply)
     \/ /\ reply \in {"empty", "failed"}
        /\ IF "openrouter" \in Providers
             THEN OpenRouter(r, request[r])
             ELSE NoModel(r, request[r])

\* An empty answer ends the loop over the keys, a failure goes on to the next.
OpenRouterReplies(r, reply) ==
  /\ request[r].at = "openrouter"
  /\ \/ Broken(r, reply)
     \/ Read(r, reply)
     \/ reply = "empty" /\ NoModel(r, [request[r] EXCEPT !.empty = TRUE])
     \/ /\ reply = "failed"
        /\ IF request[r].left > 0
             THEN TakeKey(r, request[r])
             ELSE NoModel(r, request[r])

Next ==
  \E r \in Requests :
    \/ \E kind \in Kinds, sure \in BOOLEAN : Arrive(r, kind, sure)
    \/ \E reply \in Replies : OllamaReplies(r, reply) \/ OpenRouterReplies(r, reply)

Spec == Init /\ [][Next]_vars

-----------------------------------------------------------------------------
(***************************************************************************)
(* Properties.                                                             *)
(***************************************************************************)

\* However requests interleave, a key is taken again only after every other was.
KeysInTurn == \A k \in Keys : uses[k] = uses[N - 1] + (IF k < index THEN 1 ELSE 0)

\* "key fallback": a request answered without a model has tried its keys before.
\* Of the N it leaves out at most as many as other requests took in its round (it
\* may have tried one twice then), or as many as its loop had still to take; and
\* its loop ends early only at a key whose answer was a 200 without content: the
\* keys after that one are not asked.  It is answered by its own confidence.
KeysBeforeFallback ==
  \A r \in Requests : LET d == request[r] IN
    d.by = "fallback" =>
      /\ "openrouter" \in Providers =>
           /\ Cardinality(d.tried) + d.left >= N \/ Cardinality(d.tried) + d.others >= N
           /\ d.left > 0 => d.empty
      /\ d.kind = "analyze" => (d.out = "genuine" <=> d.sure)
=============================================================================
