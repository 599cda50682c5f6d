--------------------------- MODULE Services_proofs ---------------------------
(***************************************************************************)
(* The theorems of the parts of MCServices, proved of the instances it     *)
(* puts together.  Names of definitions and lemmas begin with the name of  *)
(* the instance they are about.  A step of the services is a step of a     *)
(* part or leaves it alone (PartSteps), so what a part's steps preserve    *)
(* the services preserve.                                                  *)
(***************************************************************************)
EXTENDS MCServices, FiniteSetTheorems, WellFoundedInduction, TLAPS

\* What a step of the services is for each of its parts.
LEMMA PartSteps ==
  ASSUME [Next]_vars
  PROVE  /\ [Stream!Next]_(Stream!vars)
         /\ [Camera!Next]_(Camera!vars)
         /\ [Fed!Next]_(Fed!vars)
         /\ [Sender!Next]_call
         /\ [Auth!Next]_(Auth!vars)
         /\ [Rate!Next]_(Rate!vars)
         /\ [API!Next]_(API!vars)
         /\ [Llm!Next]_(Llm!vars)
         /\ [Pred!Next]_(Pred!vars)
         /\ [Audit!Next]_(Audit!vars)
         /\ [Feed!Next]_(Feed!vars)
<1>1. [Stream!Next]_(Stream!vars)
  BY DEF Next, vars, OthersRest, streamVars, Stream!vars
<1>2. [Camera!Next]_(Camera!vars)
  BY DEF Next, vars, OthersRest, cameraVars, Camera!vars
<1>3. [Fed!Next]_(Fed!vars)
  BY DEF Next, vars, OthersRest, fedVars, Fed!vars
<1>4. [Sender!Next]_call
  BY DEF Next, vars, OthersRest
<1>5. [Auth!Next]_(Auth!vars)
  BY DEF Next, vars, OthersRest, authVars, Auth!vars
<1>6. [Rate!Next]_(Rate!vars)
  BY DEF Next, vars, OthersRest, rateVars, Rate!vars
<1>7. [API!Next]_(API!vars)
  BY DEF Next, vars, OthersRest, apiVars, API!vars
<1>8. [Llm!Next]_(Llm!vars)
  BY DEF Next, vars, OthersRest, llmVars, Llm!vars
<1>9. [Pred!Next]_(Pred!vars)
  BY DEF Next, vars, OthersRest, predVars, Pred!vars
<1>10. [Audit!Next]_(Audit!vars)
  BY DEF Next, vars, OthersRest, auditVars, Audit!vars
<1>11. [Feed!Next]_(Feed!vars)
  BY DEF Next, vars, OthersRest, feedVars, Feed!vars
<1>12. QED
  BY <1>1, <1>2, <1>3, <1>4, <1>5, <1>6, <1>7, <1>8, <1>9, <1>10, <1>11

-----------------------------------------------------------------------------
(***************************************************************************)
(* Backend.                                                                *)
(***************************************************************************)

\* A submission counts from a value the counter had, and no counter was ever
\* above what is stored.  As long as submissions do not overlap, at most one is
\* under way, and it has read the counter as it is.
APIReadings ==
  /\ events.published <= events.stored
  /\ \A r \in Requests : submission[r] <= events.stored
  /\ ~raced =>
       \A r, s \in Requests : submission[r] # -1 => submission[r] = row /\ (submission[s] # -1 => r = s)

APIInv == API!TypeOK /\ API!QuotaIsCounted /\ APIReadings

LEMMA APIInitHolds ==
  ASSUME API!NumbersAssumption, API!Init
  PROVE  APIInv
<1>1. /\ row = 0 /\ events.stored = 0 /\ events.published = 0 /\ \A r \in Requests : submission[r] = -1
  BY DEF API!Init
<1>2. API!TypeOK
  <2>1. raced \in BOOLEAN
    BY DEF API!Init
  <2>2. 0 \in 0 .. MaxEvents /\ 0 \in 0 .. MaxDevices /\ -1 \in -1 .. MaxEvents
    BY DEF API!NumbersAssumption
  <2>3. QED
    BY <2>1, <2>2 DEF API!Init, API!TypeOK
<1>3. API!QuotaIsCounted /\ APIReadings
  BY <1>1 DEF API!NumbersAssumption, API!QuotaIsCounted, APIReadings
<1>4. QED
  BY <1>2, <1>3 DEF APIInv

LEMMA APILoadTenantStep ==
  ASSUME API!NumbersAssumption, APIInv, NEW r \in Requests, API!LoadTenant(r)
  PROVE  APIInv'
<1>1. row \in 0 .. MaxEvents /\ events.stored \in 0 .. MaxEvents /\ row <= events.stored
  BY DEF API!NumbersAssumption, APIInv, API!TypeOK, API!QuotaIsCounted
<1>2. API!TypeOK'
  <2>1. raced' \in BOOLEAN
    BY Zenon DEF APIInv, API!TypeOK, API!LoadTenant
  <2>2. submission' \in [Requests -> -1 .. MaxEvents]
    BY <1>1 DEF APIInv, API!TypeOK, API!LoadTenant
  <2>3. QED
    BY <2>1, <2>2 DEF APIInv, API!TypeOK, API!LoadTenant
<1>3. raced => raced'
  BY DEF API!LoadTenant
<1>4. API!QuotaIsCounted'
  BY <1>3 DEF APIInv, API!QuotaIsCounted, API!LoadTenant
<1>5. APIReadings'
  <2>1. \A s \in Requests : submission'[s] <= events'.stored
    BY <1>1 DEF APIInv, API!TypeOK, APIReadings, API!LoadTenant
  <2>2. ASSUME ~raced' PROVE API!UnderWay = {}
    BY <2>2 DEF API!LoadTenant
  <2>3. ASSUME ~raced', NEW s \in Requests PROVE submission'[s] # -1 => s = r
    BY <2>2, <2>3 DEF APIInv, API!TypeOK, API!UnderWay, API!LoadTenant
  <2>4. submission'[r] = row /\ row' = row
    BY DEF APIInv, API!TypeOK, API!LoadTenant
  <2>5. events'.published <= events'.stored
    BY DEF APIInv, APIReadings, API!LoadTenant
  <2>6. ASSUME ~raced', NEW s \in Requests, NEW t \in Requests, submission'[s] # -1
        PROVE  submission'[s] = row' /\ (submission'[t] # -1 => s = t)
    BY <2>3, <2>4, <2>6
  <2>7. QED
    BY <2>1, <2>5, <2>6 DEF APIReadings
<1>6. QED
  BY <1>2, <1>4, <1>5 DEF APIInv

LEMMA APISubmitStep ==
  ASSUME API!NumbersAssumption, APIInv, NEW r \in Requests, API!Submit(r)
  PROVE  APIInv'
<1>1. PICK redis \in {0, 1} :
        events' = [stored |-> events.stored + 1, published |-> events.published + redis]
  BY DEF API!Submit
<1>2. /\ events \in [stored : 0 .. MaxEvents, published : 0 .. MaxEvents]
      /\ submission \in [Requests -> -1 .. MaxEvents] /\ submission[r] # -1 /\ submission[r] < Quota
      /\ submission[r] <= events.stored /\ events.stored < MaxEvents
      /\ row' = submission[r] + 1 /\ submission' = [submission EXCEPT ![r] = -1] /\ UNCHANGED raced
  BY DEF APIInv, API!TypeOK, APIReadings, API!Submit, API!QuotaLeft, API!Counted, API!Done
<1>3. events.published + redis \in 0 .. MaxEvents /\ events.stored + 1 \in 0 .. MaxEvents
  BY <1>2 DEF API!NumbersAssumption, APIInv, APIReadings
<1>4. events'.stored = events.stored + 1 /\ events'.published = events.published + redis
  BY <1>1
<1>5. API!TypeOK'
  <2>1. submission' \in [Requests -> -1 .. MaxEvents] /\ row' \in Nat
    BY <1>2 DEF API!NumbersAssumption
  <2>2. events' \in [stored : 0 .. MaxEvents, published : 0 .. MaxEvents]
    BY <1>1, <1>3
  <2>3. QED
    BY <1>2, <2>1, <2>2 DEF APIInv, API!TypeOK, API!Submit
<1>6. ASSUME ~raced
      PROVE  /\ submission[r] = row /\ events.stored = row
             /\ \A s \in Requests : submission'[s] = -1
  BY <1>2, <1>6 DEF APIInv, API!QuotaIsCounted, APIReadings
<1>7. API!QuotaIsCounted'
  BY <1>2, <1>4, <1>6 DEF API!NumbersAssumption, API!QuotaIsCounted
<1>8. APIReadings'
  BY <1>2, <1>3, <1>4, <1>6 DEF APIInv, APIReadings
<1>9. QED
  BY <1>5, <1>7, <1>8 DEF APIInv

\* A submission that is refused, and everything that is no submission, leaves
\* the counter and the events alone.
LEMMA APIOtherStep ==
  ASSUME API!NumbersAssumption, APIInv, UNCHANGED <<row, events, raced>>, API!TypeOK',
         submission' = submission \/ \E r \in Requests : API!Done(r)
  PROVE  APIInv'
<1>1. \A s \in Requests : submission'[s] = submission[s] \/ submission'[s] = -1
  BY DEF APIInv, API!TypeOK, API!Done
<1>2. events.stored \in Nat
  BY DEF API!NumbersAssumption, APIInv, API!TypeOK
<1>3. APIReadings'
  BY <1>1, <1>2 DEF APIInv, APIReadings
<1>4. QED
  BY <1>3 DEF APIInv, API!QuotaIsCounted

LEMMA APIInductive ==
  ASSUME API!NumbersAssumption, APIInv, [API!Next]_(API!vars)
  PROVE  APIInv'
<1>1. CASE UNCHANGED API!vars
  BY <1>1 DEF API!vars, APIInv, API!TypeOK, API!QuotaIsCounted, APIReadings
<1>2. ASSUME NEW r \in Requests, API!Refuse(r) PROVE APIInv'
  <2>1. API!TypeOK'
    BY <1>2 DEF API!NumbersAssumption, APIInv, API!TypeOK, API!Refuse, API!Done
  <2>2. QED
    BY <1>2, <2>1, APIOtherStep DEF API!Refuse
<1>3. CASE API!RegisterDevice \/ API!Heartbeat
  <2>1. API!TypeOK'
    BY <1>3 DEF API!NumbersAssumption, APIInv, API!TypeOK, API!RegisterDevice, API!Heartbeat
  <2>2. QED
    BY <1>3, <2>1, APIOtherStep DEF API!RegisterDevice, API!Heartbeat
<1>4. ASSUME NEW s \in Sockets, API!Connect(s) \/ API!Disconnect(s) PROVE APIInv'
  <2>1. API!TypeOK'
    BY <1>4 DEF APIInv, API!TypeOK, API!Connect, API!Disconnect
  <2>2. QED
    BY <1>4, <2>1, APIOtherStep DEF API!Connect, API!Disconnect
<1>5. QED
  BY <1>1, <1>2, <1>3, <1>4, APILoadTenantStep, APISubmitStep DEF API!Next

\* The counter of the Phase I API never passes the quota nor what is stored, and
\* is exact while submissions come one after the other.
THEOREM QuotaKept == Spec => []QuotaIsCounted
<1>1. API!NumbersAssumption
  BY PartsAssumption DEF PartsAssumption
<1>2. Init => APIInv
  BY <1>1, APIInitHolds DEF Init, APIInit
<1>3. APIInv /\ [Next]_vars => APIInv'
  BY <1>1, PartSteps, APIInductive
<1>4. APIInv => QuotaIsCounted
  BY DEF APIInv, QuotaIsCounted
<1>5. QED
  BY <1>2, <1>3, <1>4, PTL DEF Spec

-----------------------------------------------------------------------------
(***************************************************************************)
(* LlmKeys: the shared round.                                              *)
(***************************************************************************)

\* _next_key's modulus, in linear arithmetic.
LEMMA LlmNextIndexIs ==
  ASSUME Llm!KeysAssumption, index \in Llm!Keys
  PROVE  Llm!NextIndex = IF index + 1 = N THEN 0 ELSE index + 1
BY SMTT(30) DEF Llm!KeysAssumption, Llm!NextIndex, Llm!Keys

\* How many keys are handed out before key k is, when i is the next.
LlmAway(i, k) == IF k < i THEN k - i + N ELSE k - i

\* What a request that asks the keys has taken, when `others` were taken by other
\* requests and `left` are left to it: as long as the round is not through, the
\* keys it will take are new to it; and from then on it has missed no more keys
\* than the others took.
LlmTaken(i, tried, left, others) ==
  /\ \A k \in tried : LlmAway(i, k) >= left - others
  /\ IsFiniteSet(tried)
  /\ Cardinality(tried) + left >= N \/ Cardinality(tried) + others >= N

LlmRounds ==
  \A r \in Requests : LET d == request[r] IN
    /\ d.at \in {"new", "ollama"} => d.tried = {} /\ d.others = 0
    /\ d.at = "openrouter" => LlmTaken(index, d.tried, d.left, d.others) /\ N > 0
    /\ d.by = "fallback" => d.at = "done"

LlmIInv == Llm!TypeOK /\ Llm!KeysInTurn /\ LlmRounds /\ Llm!KeysBeforeFallback

\* A key that is taken goes to the end of the round, the others come nearer.
LEMMA LlmAwayMoves ==
  ASSUME Llm!KeysAssumption, index \in Llm!Keys, NEW k \in Llm!Keys
  PROVE  LlmAway(Llm!NextIndex, k) = IF k = index THEN N - 1 ELSE LlmAway(index, k) - 1
BY LlmNextIndexIs DEF Llm!KeysAssumption, LlmAway, Llm!Keys

\* The request takes the key itself.
LEMMA LlmTakenByIt ==
  ASSUME Llm!KeysAssumption, index \in Llm!Keys, NEW tried \in SUBSET Llm!Keys,
         NEW left \in 1 .. N, NEW others \in Nat, LlmTaken(index, tried, left, others)
  PROVE  LlmTaken(Llm!NextIndex, tried \cup {index}, left - 1, others)
<1>. DEFINE c == Cardinality(tried)
            i == index
<1>1. /\ \A k \in tried : LlmAway(i, k) >= left - others
      /\ IsFiniteSet(tried) /\ c \in Nat
      /\ c + left >= N \/ c + others >= N
  BY FS_CardinalityType DEF LlmTaken
<1>2. N \in Nat /\ i \in Nat /\ i < N
  BY DEF Llm!KeysAssumption, Llm!Keys
<1>3. \A k \in tried \cup {i} : LlmAway(Llm!NextIndex, k) >= left - 1 - others
  <2>1. ASSUME NEW k \in tried \cup {i}
        PROVE  LlmAway(Llm!NextIndex, k) >= left - 1 - others
    <3>1. k \in Llm!Keys /\ k \in Nat
      BY DEF Llm!Keys
    <3>2. LlmAway(Llm!NextIndex, k) = IF k = i THEN N - 1 ELSE LlmAway(i, k) - 1
      BY <3>1, LlmAwayMoves
    <3>3. CASE k = i
      BY <1>2, <3>2, <3>3
    <3>4. CASE k # i
      <4>1. LlmAway(i, k) >= left - others /\ LlmAway(i, k) \in Int
        BY <1>1, <1>2, <2>1, <3>1, <3>4 DEF LlmAway
      <4>2. QED
        BY <3>2, <3>4, <4>1
    <3>5. QED
      BY <3>3, <3>4
  <2>2. QED
    BY <2>1
<1>4. /\ IsFiniteSet(tried \cup {i})
      /\ Cardinality(tried \cup {i}) = IF i \in tried THEN c ELSE c + 1
  BY <1>1, FS_AddElement
<1>5. CASE i \notin tried
  <2>1. Cardinality(tried \cup {i}) = c + 1
    BY <1>4, <1>5
  <2>. HIDE DEF c
  <2>2. c + 1 + (left - 1) >= N \/ c + 1 + others >= N
    BY <1>1, <1>2
  <2>3. QED
    BY <1>3, <1>4, <2>1, <2>2 DEF LlmTaken
<1>6. CASE i \in tried
  <2>1. Cardinality(tried \cup {i}) = c
    BY <1>4, <1>6
  <2>2. others >= left
    <3>1. LlmAway(i, i) = 0 /\ LlmAway(i, i) >= left - others
      BY <1>1, <1>2, <1>6 DEF LlmAway
    <3>2. QED
      BY <3>1
  <2>. HIDE DEF c
  <2>3. c + others >= N
    BY <1>1, <1>2, <2>2
  <2>4. QED
    BY <1>3, <1>4, <2>1, <2>3 DEF LlmTaken
<1>7. QED
  BY <1>5, <1>6

\* Another request takes the key.
LEMMA LlmTakenByAnother ==
  ASSUME Llm!KeysAssumption, index \in Llm!Keys, NEW tried \in SUBSET Llm!Keys,
         NEW left \in 0 .. N, NEW others \in Nat, LlmTaken(index, tried, left, others)
  PROVE  LlmTaken(Llm!NextIndex, tried, left, others + 1)
<1>. DEFINE c == Cardinality(tried)
            i == index
<1>1. /\ \A k \in tried : LlmAway(i, k) >= left - others
      /\ IsFiniteSet(tried) /\ c \in Nat
      /\ c + left >= N \/ c + others >= N
  BY FS_CardinalityType DEF LlmTaken
<1>2. N \in Nat /\ i \in Nat /\ i < N
  BY DEF Llm!KeysAssumption, Llm!Keys
<1>3. ASSUME NEW k \in tried
      PROVE  LlmAway(Llm!NextIndex, k) >= left - (others + 1)
  <2>1. k \in Llm!Keys /\ k \in Nat
    BY DEF Llm!Keys
  <2>2. LlmAway(Llm!NextIndex, k) = IF k = i THEN N - 1 ELSE LlmAway(i, k) - 1
    BY <2>1, LlmAwayMoves
  <2>3. LlmAway(i, k) >= left - others /\ LlmAway(i, k) \in Int
    BY <1>1, <1>2, <1>3, <2>1 DEF LlmAway
  <2>4. QED
    BY <1>2, <2>2, <2>3
<1>. HIDE DEF c
<1>4. c + left >= N \/ c + (others + 1) >= N
  BY <1>1, <1>2
<1>5. QED
  BY <1>1, <1>3, <1>4 DEF LlmTaken, c

\* The index of the next key goes round.
LEMMA LlmTurnStep ==
  ASSUME Llm!KeysAssumption, Llm!TypeOK, Llm!KeysInTurn, NEW r \in Requests, NEW d \in Llm!Request, Llm!TakeKey(r, d), N > 0
  PROVE  index' \in Llm!Keys /\ uses' \in [Llm!Keys -> Nat] /\ Llm!KeysInTurn'
<1>1. index \in Llm!Keys /\ uses \in [Llm!Keys -> Nat] /\ N \in Nat \ {0}
  BY DEF Llm!KeysAssumption, Llm!TypeOK, Llm!Keys
<1>2. index' = IF index + 1 = N THEN 0 ELSE index + 1
  BY <1>1, LlmNextIndexIs DEF Llm!TakeKey
<1>3. uses' = [uses EXCEPT ![index] = @ + 1]
  BY DEF Llm!TakeKey
<1>4. index' \in Llm!Keys /\ uses' \in [Llm!Keys -> Nat]
  BY <1>1, <1>2, <1>3 DEF Llm!Keys
<1>5. Llm!KeysInTurn'
  <2>1. \A k \in Llm!Keys : uses[k] = uses[N - 1] + (IF k < index THEN 1 ELSE 0)
    BY DEF Llm!KeysInTurn
  <2>2. CASE index + 1 = N
    <3>1. \A k \in Llm!Keys : uses'[k] = uses[N - 1] + 1
      BY <1>1, <1>3, <2>1, <2>2 DEF Llm!Keys
    <3>2. QED
      BY <1>1, <1>2, <2>2, <3>1 DEF Llm!KeysInTurn, Llm!Keys
  <2>3. CASE index + 1 # N
    <3>1. uses'[N - 1] = uses[N - 1]
      BY <1>1, <1>3, <2>3 DEF Llm!Keys
    <3>2. \A k \in Llm!Keys : uses'[k] = uses[N - 1] + (IF k < index + 1 THEN 1 ELSE 0)
      BY <1>1, <1>3, <2>1, <2>3 DEF Llm!Keys
    <3>3. QED
      BY <1>2, <2>3, <3>1, <3>2 DEF Llm!KeysInTurn, Llm!Keys
  <2>4. QED
    BY <2>2, <2>3
<1>6. QED
  BY <1>4, <1>5

\* What a step that changes no round's bookkeeping but of requests that took a key
\* leaves true of the answers.
LlmAnswered(d) ==
  d.by = "fallback" =>
    /\ "openrouter" \in Providers =>
         /\ Cardinality(d.tried) + d.left >= N \/ Cardinality(d.tried) + d.others >= N
         /\ d.left > 0 => d.empty
    /\ d.kind = "analyze" => (d.out = "genuine" <=> d.sure)

LEMMA LlmCardinalityIs == \A S : Llm!Cardinality(S) = Cardinality(S)
BY DEF Llm!Cardinality, Cardinality

LEMMA LlmAnsweredIs == Llm!KeysBeforeFallback <=> \A r \in Requests : LlmAnswered(request[r])
BY LlmCardinalityIs DEF Llm!KeysBeforeFallback, LlmAnswered

LlmRound(i, d) ==
  /\ d.at \in {"new", "ollama"} => d.tried = {} /\ d.others = 0
  /\ d.at = "openrouter" => LlmTaken(i, d.tried, d.left, d.others) /\ N > 0
  /\ d.by = "fallback" => d.at = "done"

LEMMA LlmRoundsIs == LlmRounds <=> \A r \in Requests : LlmRound(index, request[r])
BY DEF LlmRounds, LlmRound

\* A request that takes a key goes on with its round, and the others with theirs.
LEMMA LlmTakeKeyStep ==
  ASSUME Llm!KeysAssumption, LlmIInv, NEW r \in Requests, NEW d \in Llm!Request, Llm!TakeKey(r, d),
         N > 0, d.left \in 1 .. N, d.by # "fallback", LlmTaken(index, d.tried, d.left, d.others)
  PROVE  LlmIInv'
<1>. DEFINE mine == [d EXCEPT !.at = "openrouter", !.left = @ - 1, !.tried = @ \cup {index}]
            theirs(s) == [request[s] EXCEPT !.others = IF request[s].at = "openrouter" THEN @ + 1 ELSE @]
<1>1. Llm!TypeOK /\ Llm!KeysInTurn /\ LlmRounds /\ Llm!KeysBeforeFallback /\ index \in Llm!Keys
  BY DEF LlmIInv, Llm!TypeOK, Llm!KeysAssumption, Llm!Keys
<1>2. index' \in Llm!Keys /\ uses' \in [Llm!Keys -> Nat] /\ Llm!KeysInTurn'
  BY <1>1, LlmTurnStep
<1>3. request' = [s \in Requests |-> IF s = r THEN mine ELSE theirs(s)] /\ index' = Llm!NextIndex
  BY DEF Llm!TakeKey
<1>4. /\ mine \in Llm!Request /\ mine.at = "openrouter" /\ mine.by = d.by
      /\ mine.left = d.left - 1 /\ mine.tried = d.tried \cup {index} /\ mine.others = d.others
  <2>1. d.left - 1 \in 0 .. N
    BY DEF Llm!KeysAssumption
  <2>2. d.tried \cup {index} \in SUBSET Llm!Keys
    BY <1>1 DEF Llm!Request
  <2>3. QED
    BY <2>1, <2>2 DEF Llm!Request
<1>5. ASSUME NEW s \in Requests
      PROVE  /\ theirs(s) \in Llm!Request
             /\ theirs(s).at = request[s].at /\ theirs(s).tried = request[s].tried
             /\ theirs(s).by = request[s].by /\ theirs(s).left = request[s].left
             /\ theirs(s).kind = request[s].kind /\ theirs(s).out = request[s].out
             /\ theirs(s).sure = request[s].sure /\ theirs(s).empty = request[s].empty
             /\ theirs(s).others = IF request[s].at = "openrouter" THEN request[s].others + 1 ELSE request[s].others
  <2>1. request[s] \in Llm!Request
    BY <1>1 DEF Llm!TypeOK
  <2>2. (IF request[s].at = "openrouter" THEN request[s].others + 1 ELSE request[s].others) \in Nat
    BY <2>1 DEF Llm!Request
  <2>3. QED
    BY <2>1, <2>2 DEF Llm!Request
<1>6. Llm!TypeOK'
  BY <1>2, <1>3, <1>4, <1>5 DEF Llm!TypeOK
<1>7. ASSUME NEW s \in Requests
      PROVE  LlmRound(index', request'[s])
  <2>1. CASE s = r
    <3>1. request'[s] = mine
      BY <1>3, <2>1
    <3>2. d.tried \in SUBSET Llm!Keys /\ d.others \in Nat
      BY DEF Llm!Request
    <3>3. LlmTaken(index', mine.tried, mine.left, mine.others)
      BY <1>1, <1>3, <1>4, <3>2, LlmTakenByIt
    <3>. HIDE DEF mine
    <3>4. QED
      BY <1>4, <3>1, <3>3 DEF LlmRound
  <2>2. CASE s # r
    <3>1. request'[s] = theirs(s)
      BY <1>3, <2>2
    <3>2. LlmRound(index, request[s]) /\ request[s] \in Llm!Request
      BY <1>1, LlmRoundsIs DEF Llm!TypeOK
    <3>. HIDE DEF theirs
    <3>3. CASE request[s].at = "openrouter"
      <4>1. /\ request[s].tried \in SUBSET Llm!Keys /\ request[s].others \in Nat /\ request[s].left \in 0 .. N
            /\ LlmTaken(index, request[s].tried, request[s].left, request[s].others)
        BY <3>2, <3>3 DEF Llm!Request, LlmRound
      <4>2. LlmTaken(index', request[s].tried, request[s].left, request[s].others + 1)
        BY <1>1, <1>3, <4>1, LlmTakenByAnother
      <4>3. QED
        BY <1>5, <3>1, <3>2, <3>3, <4>2 DEF LlmRound
    <3>4. CASE request[s].at # "openrouter"
      BY <1>5, <3>1, <3>2, <3>4 DEF LlmRound
    <3>5. QED
      BY <3>3, <3>4
  <2>3. QED
    BY <2>1, <2>2
<1>8. ASSUME NEW s \in Requests
      PROVE  LlmAnswered(request'[s])
  <2>1. CASE s = r
    <3>1. request'[s] = mine
      BY <1>3, <2>1
    <3>. HIDE DEF mine
    <3>2. QED
      BY <1>4, <3>1 DEF LlmAnswered
  <2>2. CASE s # r
    <3>1. request'[s] = theirs(s)
      BY <1>3, <2>2
    <3>2. LlmAnswered(request[s]) /\ LlmRound(index, request[s])
      BY <1>1, LlmRoundsIs, LlmAnsweredIs
    <3>. HIDE DEF theirs
    <3>3. request[s].by = "fallback" => request[s].at # "openrouter"
      BY <3>2 DEF LlmRound
    <3>4. QED
      BY <1>5, <3>1, <3>2, <3>3 DEF LlmAnswered
  <2>3. QED
    BY <2>1, <2>2
<1>9. LlmRounds'
  BY <1>7 DEF LlmRounds, LlmRound
<1>10. Llm!KeysBeforeFallback'
  BY <1>8, LlmCardinalityIs DEF Llm!KeysBeforeFallback, LlmAnswered
<1>11. QED
  BY <1>2, <1>6, <1>9, <1>10 DEF LlmIInv

\* A request's record moves on without a key.
LEMMA LlmRecordStep ==
  ASSUME Llm!KeysAssumption, LlmIInv, NEW r \in Requests, NEW e \in Llm!Request,
         request' = [request EXCEPT ![r] = e], UNCHANGED <<index, uses>>,
         LlmRound(index, e), LlmAnswered(e)
  PROVE  LlmIInv'
<1>1. Llm!TypeOK /\ Llm!KeysInTurn /\ LlmRounds /\ Llm!KeysBeforeFallback
  BY DEF LlmIInv
<1>2. Llm!TypeOK' /\ Llm!KeysInTurn'
  BY <1>1 DEF Llm!TypeOK, Llm!KeysInTurn
<1>3. \A s \in Requests : request'[s] = IF s = r THEN e ELSE request[s]
  BY <1>1 DEF Llm!TypeOK
<1>4. \A s \in Requests : LlmRound(index, request[s]) /\ LlmAnswered(request[s])
  BY <1>1, LlmRoundsIs, LlmAnsweredIs
<1>5. \A s \in Requests : LlmRound(index', request'[s]) /\ LlmAnswered(request'[s])
  <2>1. ASSUME NEW s \in Requests
        PROVE  LlmRound(index', request'[s]) /\ LlmAnswered(request'[s])
    <3>1. CASE s = r
      BY <1>3, <3>1
    <3>2. CASE s # r
      BY <1>3, <1>4, <3>2
    <3>3. QED
      BY <3>1, <3>2
  <2>2. QED
    BY <2>1
<1>6. LlmRounds' /\ Llm!KeysBeforeFallback'
  BY <1>5, LlmCardinalityIs DEF LlmRounds, LlmRound, Llm!KeysBeforeFallback, LlmAnswered
<1>7. QED
  BY <1>1, <1>2, <1>6 DEF LlmIInv

\* An answer ends the request it is for.
LEMMA LlmAnswerStep ==
  ASSUME Llm!KeysAssumption, LlmIInv, NEW r \in Requests, NEW d \in Llm!Request,
         NEW by \in {"model", "broken"}, NEW out, Llm!Answer(r, d, by, out),
         out \in {"none", "genuine", "suspicious", "adjusted", "zero", "text", "notice", "error"}
  PROVE  LlmIInv'
<1>. DEFINE e == [d EXCEPT !.at = "done", !.by = by, !.out = out]
<1>1. request' = [request EXCEPT ![r] = e] /\ UNCHANGED <<index, uses>>
  BY DEF Llm!Answer
<1>2. e \in Llm!Request /\ e.at = "done" /\ e.by = by
  BY DEF Llm!Request
<1>. HIDE DEF e
<1>3. LlmRound(index, e) /\ LlmAnswered(e)
  BY <1>2 DEF LlmRound, LlmAnswered
<1>4. QED
  BY <1>1, <1>2, <1>3, LlmRecordStep

LEMMA LlmFallbackIn ==
  ASSUME NEW d \in Llm!Request
  PROVE  Llm!Fallback(d) \in {"genuine", "suspicious", "zero", "notice"}
BY DEF Llm!Fallback, Llm!Request, Llm!Kinds

\* And so does the fallback, by the confidence of the request.
LEMMA LlmNoModelStep ==
  ASSUME Llm!KeysAssumption, LlmIInv, NEW r \in Requests, NEW d \in Llm!Request, Llm!NoModel(r, d),
         "openrouter" \in Providers =>
           /\ Cardinality(d.tried) + d.left >= N \/ Cardinality(d.tried) + d.others >= N
           /\ d.left > 0 => d.empty
  PROVE  LlmIInv'
<1>. DEFINE e == [d EXCEPT !.at = "done", !.by = "fallback", !.out = Llm!Fallback(d)]
<1>1. request' = [request EXCEPT ![r] = e] /\ UNCHANGED <<index, uses>>
  BY DEF Llm!NoModel, Llm!Answer
<1>2. /\ e \in Llm!Request /\ e.at = "done" /\ e.by = "fallback" /\ e.out = Llm!Fallback(d)
      /\ e.tried = d.tried /\ e.left = d.left /\ e.others = d.others /\ e.empty = d.empty
      /\ e.kind = d.kind /\ e.sure = d.sure
  BY LlmFallbackIn DEF Llm!Request
<1>. HIDE DEF e
<1>3. d.kind = "analyze" => (Llm!Fallback(d) = "genuine" <=> d.sure)
  BY DEF Llm!Fallback
<1>4. LlmRound(index, e) /\ LlmAnswered(e)
  BY <1>2, <1>3 DEF LlmRound, LlmAnswered
<1>5. QED
  BY <1>1, <1>2, <1>4, LlmRecordStep

\* The first key of a request, or none.
LEMMA LlmOpenRouterStep ==
  ASSUME Llm!KeysAssumption, LlmIInv, NEW r \in Requests, NEW d \in Llm!Request, Llm!OpenRouter(r, d),
         d.tried = {}, d.others = 0, d.by # "fallback", N = 0 => d.left = 0
  PROVE  LlmIInv'
<1>. DEFINE e == [d EXCEPT !.left = N]
<1>0. N \in Nat /\ Cardinality({}) = 0 /\ IsFiniteSet({})
  BY FS_EmptySet DEF Llm!KeysAssumption
<1>1. CASE N = 0
  <2>1. Llm!NoModel(r, d)
    BY <1>1 DEF Llm!OpenRouter
  <2>2. QED
    BY <1>0, <1>1, <2>1, LlmNoModelStep
<1>2. CASE N # 0
  <2>1. e \in Llm!Request /\ e.left = N /\ e.tried = {} /\ e.others = 0 /\ e.by # "fallback"
    BY <1>0 DEF Llm!Request
  <2>2. Llm!TakeKey(r, e)
    BY <1>2 DEF Llm!OpenRouter, Llm!Tries
  <2>. HIDE DEF e
  <2>3. LlmTaken(index, e.tried, e.left, e.others)
    BY <1>0, <2>1 DEF LlmTaken
  <2>4. N > 0 /\ e.left \in 1 .. N
    BY <1>0, <1>2, <2>1
  <2>5. QED
    BY <2>1, <2>2, <2>3, <2>4, LlmTakeKeyStep
<1>3. QED
  BY <1>1, <1>2

LEMMA LlmReadingsIn ==
  ASSUME NEW d \in Llm!Request
  PROVE  Llm!Readings(d) \subseteq {"genuine", "suspicious", "error", "adjusted", "zero", "text"}
BY DEF Llm!Readings, Llm!Request, Llm!Kinds

LEMMA LlmArriveStep ==
  ASSUME Llm!KeysAssumption, LlmIInv, NEW r \in Requests, NEW kind \in Llm!Kinds, NEW sure \in BOOLEAN, Llm!Arrive(r, kind, sure)
  PROVE  LlmIInv'
<1>. DEFINE d == [request[r] EXCEPT !.kind = kind, !.sure = sure]
            e == [d EXCEPT !.at = "ollama"]
<1>1. LlmRounds /\ request[r] \in Llm!Request /\ request[r].at = "new"
      /\ request[r].tried = {} /\ request[r].others = 0 /\ request[r].by # "fallback"
  BY DEF LlmIInv, Llm!TypeOK, LlmRounds, Llm!Arrive
<1>2. /\ d \in Llm!Request /\ d.tried = {} /\ d.others = 0 /\ d.by # "fallback" /\ d.left \in 0 .. N
  <2>1. d.sure \in BOOLEAN
    BY <1>1, Zenon DEF Llm!Request
  <2>2. QED
    BY <1>1, <2>1 DEF Llm!Request
<1>3. CASE "ollama" \in Providers
  <2>1. request' = [request EXCEPT ![r] = e] /\ UNCHANGED <<index, uses>>
    BY <1>3 DEF Llm!Arrive
  <2>2. e \in Llm!Request /\ e.at = "ollama" /\ e.tried = {} /\ e.others = 0 /\ e.by # "fallback"
    BY <1>2 DEF Llm!Request
  <2>. HIDE DEF e
  <2>3. LlmRound(index, e) /\ LlmAnswered(e)
    BY <2>2 DEF LlmRound, LlmAnswered
  <2>4. QED
    BY <2>1, <2>2, <2>3, LlmRecordStep
<1>4. CASE "ollama" \notin Providers
  <2>1. Llm!OpenRouter(r, d)
    BY <1>4 DEF Llm!Arrive
  <2>. HIDE DEF d
  <2>2. N = 0 => d.left = 0
    BY <1>2
  <2>3. QED
    BY <1>2, <2>1, <2>2, LlmOpenRouterStep
<1>5. QED
  BY <1>3, <1>4

LEMMA LlmOllamaStep ==
  ASSUME Llm!KeysAssumption, LlmIInv, NEW r \in Requests, NEW reply \in Llm!Replies, Llm!OllamaReplies(r, reply)
  PROVE  LlmIInv'
<1>1. request[r] \in Llm!Request /\ request[r].at = "ollama" /\ request[r].tried = {} /\ request[r].others = 0
      /\ request[r].by # "fallback" /\ request[r].left \in 0 .. N
  BY DEF LlmIInv, Llm!TypeOK, LlmRounds, Llm!OllamaReplies, Llm!Request
<1>2. CASE Llm!Broken(r, reply)
  BY <1>1, <1>2, LlmAnswerStep DEF Llm!Broken
<1>3. CASE Llm!Read(r, reply)
  BY <1>1, <1>3, LlmAnswerStep, LlmReadingsIn DEF Llm!Read
<1>4. CASE "openrouter" \in Providers /\ Llm!OpenRouter(r, request[r])
  <2>1. N = 0 => request[r].left = 0
    BY <1>1
  <2>2. QED
    BY <1>1, <1>4, <2>1, LlmOpenRouterStep
<1>5. CASE "openrouter" \notin Providers /\ Llm!NoModel(r, request[r])
  BY <1>1, <1>5, LlmNoModelStep
<1>6. QED
  BY <1>2, <1>3, <1>4, <1>5 DEF Llm!OllamaReplies

LEMMA LlmOpenRouterRepliesStep ==
  ASSUME Llm!KeysAssumption, LlmIInv, NEW r \in Requests, NEW reply \in Llm!Replies, Llm!OpenRouterReplies(r, reply)
  PROVE  LlmIInv'
<1>1. /\ request[r] \in Llm!Request /\ request[r].at = "openrouter" /\ request[r].by # "fallback"
      /\ LlmTaken(index, request[r].tried, request[r].left, request[r].others) /\ N > 0
  BY DEF LlmIInv, Llm!TypeOK, LlmRounds, Llm!OpenRouterReplies
<1>2. request[r].left \in 0 .. N
  BY <1>1 DEF Llm!Request
<1>3. CASE Llm!Broken(r, reply)
  BY <1>1, <1>3, LlmAnswerStep DEF Llm!Broken
<1>4. CASE Llm!Read(r, reply)
  BY <1>1, <1>4, LlmAnswerStep, LlmReadingsIn DEF Llm!Read
<1>5. CASE Llm!NoModel(r, [request[r] EXCEPT !.empty = TRUE])
  <2>. DEFINE e == [request[r] EXCEPT !.empty = TRUE]
  <2>1. e \in Llm!Request /\ e.tried = request[r].tried /\ e.left = request[r].left /\ e.others = request[r].others /\ e.empty
    BY <1>1 DEF Llm!Request
  <2>. HIDE DEF e
  <2>2. Llm!NoModel(r, e)
    BY <1>5 DEF e
  <2>3. QED
    BY <1>1, <2>1, <2>2, LlmNoModelStep DEF LlmTaken
<1>6. CASE request[r].left > 0 /\ Llm!TakeKey(r, request[r])
  <2>1. request[r].left \in 1 .. N
    BY <1>2, <1>6 DEF Llm!KeysAssumption
  <2>2. QED
    BY <1>1, <1>6, <2>1, LlmTakeKeyStep
<1>7. CASE ~(request[r].left > 0) /\ Llm!NoModel(r, request[r])
  BY <1>1, <1>7, LlmNoModelStep DEF LlmTaken
<1>8. QED
  BY <1>3, <1>4, <1>5, <1>6, <1>7 DEF Llm!OpenRouterReplies

LEMMA LlmInitHolds ==
  ASSUME Llm!KeysAssumption, Llm!Init
  PROVE  LlmIInv
<1>1. \A r \in Requests : /\ request[r] \in Llm!Request /\ request[r].at = "new"
                           /\ request[r].tried = {} /\ request[r].others = 0 /\ request[r].by = "nobody"
  <2>. DEFINE new == [at |-> "new", kind |-> "chat", sure |-> FALSE, left |-> 0, tried |-> {},
                      others |-> 0, empty |-> FALSE, by |-> "nobody", out |-> "none"]
  <2>1. 0 \in 0 .. N
    BY DEF Llm!KeysAssumption
  <2>2. new \in Llm!Request
    BY <2>1 DEF Llm!Request, Llm!Kinds
  <2>3. new.at = "new" /\ new.tried = {} /\ new.others = 0 /\ new.by = "nobody"
    OBVIOUS
  <2>4. request = [r \in Requests |-> new]
    BY DEF Llm!Init
  <2>. HIDE DEF new
  <2>5. QED
    BY <2>2, <2>3, <2>4
<1>2. Llm!TypeOK
  BY <1>1 DEF Llm!KeysAssumption, Llm!Init, Llm!TypeOK, Llm!Keys
<1>3. Llm!KeysInTurn
  BY DEF Llm!KeysAssumption, Llm!Init, Llm!KeysInTurn, Llm!Keys
<1>4. QED
  BY <1>1, <1>2, <1>3 DEF LlmIInv, LlmRounds, Llm!KeysBeforeFallback

\* The invariant is inductive.
LEMMA LlmInductive ==
  ASSUME Llm!KeysAssumption, LlmIInv, [Llm!Next]_(Llm!vars)
  PROVE  LlmIInv'
<1>1. CASE UNCHANGED Llm!vars
  BY <1>1 DEF Llm!vars, LlmIInv, Llm!TypeOK, Llm!KeysInTurn, LlmRounds, Llm!KeysBeforeFallback, LlmTaken, LlmAway
<1>2. CASE Llm!Next
  BY <1>2, LlmArriveStep, LlmOllamaStep, LlmOpenRouterRepliesStep DEF Llm!Next
<1>3. QED
  BY <1>1, <1>2

\* The key index hands out the keys in turn, whoever asks and however requests
\* overlap; and a request that is answered without a model has tried all keys but
\* as many as other requests took in its round, or as its loop had left when a key
\* answered 200 without content.
THEOREM KeysComeFirst == Spec => [](Llm!KeysInTurn /\ KeysBeforeFallback)
<1>1. Llm!KeysAssumption
  BY PartsAssumption DEF PartsAssumption
<1>2. Init => LlmIInv
  BY <1>1, LlmInitHolds DEF Init, LlmInit
<1>3. LlmIInv /\ [Next]_vars => LlmIInv'
  BY <1>1, PartSteps, LlmInductive
<1>4. LlmIInv => Llm!KeysInTurn /\ KeysBeforeFallback
  BY DEF LlmIInv, KeysBeforeFallback
<1>5. QED
  BY <1>2, <1>3, <1>4, PTL DEF Spec

-----------------------------------------------------------------------------
(***************************************************************************)
(* Predictive.                                                             *)
(***************************************************************************)

\* A risk is a function of some of the zones.
LEMMA PredRiskFun ==
  ASSUME NEW r \in Pred!Risks
  PROVE  DOMAIN r \subseteq Zones /\ \A z \in DOMAIN r : r[z] \in Pred!Means
  BY DEF Pred!Risks

\* A prediction more: the list so far is extended or overwritten at one zone.
LEMMA PredRiskExtended ==
  ASSUME NEW r \in Pred!Risks, NEW z \in Zones, NEW means \in Pred!Means
  PROVE  [y \in DOMAIN r \cup {z} |-> IF y = z THEN means ELSE r[y]] \in Pred!Risks
<1>1. DOMAIN r \cup {z} \in SUBSET Zones
  BY PredRiskFun
<1>2. [y \in DOMAIN r \cup {z} |-> IF y = z THEN means ELSE r[y]] \in [DOMAIN r \cup {z} -> Pred!Means]
  BY PredRiskFun
<1>3. QED
  BY <1>1, <1>2 DEF Pred!Risks

LEMMA PredNoListIsList == Pred!NoList \in Pred!Lists
<1>1. Pred!NoList.risk \in [{} -> Pred!Means]
  BY DEF Pred!NoList, Pred!Means
<1>2. Pred!NoList.risk \in Pred!Risks
  BY <1>1 DEF Pred!Risks
<1>3. QED
  BY <1>2 DEF Pred!NoList, Pred!Lists

LEMMA PredWorkersAreWorkers == Pred!Workers \in [Pred!Makers -> Pred!Worker]
<1>1. Pred!Resting \in Pred!Worker
  BY PredNoListIsList DEF Pred!Resting, Pred!Worker, Pred!Lists, Pred!NoList
<1>2. QED
  BY <1>1 DEF Pred!Workers, Pred!Worker

\* The types are kept by every step.
LEMMA PredTypeStep ==
  ASSUME Pred!ListsAssumption, Pred!TypeOK, [Pred!Next]_(Pred!vars)
  PROVE  Pred!TypeOK'
<1>. USE DEF Pred!ListsAssumption, Pred!TypeOK
<1>1. ASSUME NEW t \in Pred!Makers, Pred!Call(t) PROVE Pred!TypeOK'
  <2>1. [Pred!Resting EXCEPT !.at = "fetch"] \in Pred!Worker
    BY PredNoListIsList DEF Pred!Resting, Pred!Worker, Pred!Lists, Pred!NoList
  <2>2. QED
    BY <1>1, <2>1 DEF Pred!Call
<1>2. ASSUME NEW t \in Pred!Makers, Pred!Fit(t) PROVE Pred!TypeOK'
  <2>1. worker' \in [Pred!Makers -> Pred!Worker]
    BY <1>2 DEF Pred!Fit, Pred!Worker
  <2>2. ready' \in BOOLEAN
    BY <1>2, Zenon DEF Pred!Fit, Pred!Worker
  <2>3. QED
    BY <1>2, <2>1, <2>2 DEF Pred!Fit
<1>3. ASSUME NEW t \in Pred!Makers, Pred!Assign(t) PROVE Pred!TypeOK'
  <2>1. worker' \in [Pred!Makers -> Pred!Worker]
    BY <1>3 DEF Pred!Assign, Pred!Worker
  <2>2. latest' \in Pred!Lists /\ made' \in Nat
    BY <1>3 DEF Pred!Assign, Pred!Worker, Pred!Lists
  <2>3. QED
    BY <1>3, <2>1, <2>2 DEF Pred!Assign
<1>4. ASSUME NEW t \in Pred!Makers, Pred!Begin(t) PROVE Pred!TypeOK'
  <2>1. latest.number \in Nat /\ latest.risk \in Pred!Risks
    BY DEF Pred!Lists
  <2>2. DOMAIN latest.risk \subseteq Zones
    BY <2>1, PredRiskFun
  <2>3. worker' \in [Pred!Makers -> Pred!Worker]
    BY <1>4, <2>1, <2>2 DEF Pred!Begin, Pred!Worker
  <2>4. QED
    BY <1>4, <2>3 DEF Pred!Begin
<1>5. ASSUME NEW t \in Pred!Makers, Pred!CountThem(t) PROVE Pred!TypeOK'
  BY <1>5 DEF Pred!CountThem, Pred!Worker
<1>6. ASSUME NEW t \in Pred!Makers, NEW zones \in SUBSET Zones, NEW trains \in BOOLEAN, Pred!Fetch(t, zones, trains)
      PROVE Pred!TypeOK'
  <2>. DEFINE new == [worker[t] EXCEPT !.at = "fit", !.todo = zones, !.trains = trains]
  <2>1. new \in Pred!Worker
    <3>1. new.trains \in BOOLEAN
      BY Zenon DEF Pred!Worker
    <3>2. QED
      BY <3>1 DEF Pred!Worker
  <2>2. worker' = [worker EXCEPT ![t] = new]
    BY <1>6 DEF Pred!Fetch
  <2>3. worker' \in [Pred!Makers -> Pred!Worker]
    <3>. HIDE DEF new
    <3>. QED
      BY <2>1, <2>2
  <2>4. QED
    BY <1>6, <2>3 DEF Pred!Fetch
<1>7. ASSUME NEW t \in Pred!Makers, NEW z \in Zones, Pred!Predict(t, z) PROVE Pred!TypeOK'
  <2>. DEFINE means == IF ready THEN "model" ELSE "confidence"
              risk == [y \in DOMAIN worker[t].risk \cup {z} |-> IF y = z THEN means ELSE worker[t].risk[y]]
  <2>1. worker[t].risk \in Pred!Risks /\ means \in Pred!Means
    BY DEF Pred!Worker, Pred!Means
  <2>2. risk \in Pred!Risks
    BY <2>1, PredRiskExtended
  <2>3. worker' = [worker EXCEPT ![t].todo = @ \ {z}, ![t].risk = risk]
    BY <1>7 DEF Pred!Predict
  <2>4. worker' \in [Pred!Makers -> Pred!Worker]
    <3>. HIDE DEF risk
    <3>. QED
      BY <2>2, <2>3 DEF Pred!Worker
  <2>5. QED
    BY <1>7, <2>4 DEF Pred!Predict
<1>8. ASSUME NEW t \in Pred!Makers, NEW z \in Zones, Pred!Post(t, z) PROVE Pred!TypeOK'
  <2>1. worker' \in [Pred!Makers -> Pred!Worker]
    BY <1>8 DEF Pred!Post, Pred!StillLeft, Pred!Worker
  <2>2. posted' \subseteq Nat \X Zones
    BY <1>8 DEF Pred!Post, Pred!Worker
  <2>3. QED
    BY <1>8, <2>1, <2>2 DEF Pred!Post
<1>9. CASE Pred!Restart
  BY <1>9, PredNoListIsList, PredWorkersAreWorkers DEF Pred!Restart
<1>10. CASE UNCHANGED Pred!vars
  BY <1>10 DEF Pred!vars
<1>11. ASSUME NEW t \in Pred!Makers, Pred!Raise(t) PROVE Pred!TypeOK'
  <2>1. worker' \in [Pred!Makers -> Pred!Worker]
    BY <1>11 DEF Pred!Raise, Pred!Worker
  <2>2. worker[t].list \in Nat
    BY DEF Pred!Worker
  <2>3. cut' \subseteq Nat
    BY <1>11, <2>2 DEF Pred!Raise
  <2>4. QED
    BY <1>11, <2>1, <2>3 DEF Pred!Raise
<1>12. QED
  BY <1>1, <1>2, <1>3, <1>4, <1>5, <1>6, <1>7, <1>8, <1>9, <1>10, <1>11 DEF Pred!Next

LEMMA PredInitHolds == Pred!Init => Pred!TypeOK /\ Pred!ShownIsPosted
<1>. SUFFICES ASSUME Pred!Init PROVE Pred!TypeOK /\ Pred!ShownIsPosted
  OBVIOUS
<1>1. ready \in BOOLEAN /\ posted \subseteq Nat \X Zones /\ {begun, made} \subseteq Nat /\ cut \subseteq Nat
  <2>1. posted \subseteq Nat \X Zones /\ {begun, made} \subseteq Nat /\ cut \subseteq Nat
    BY DEF Pred!Init
  <2>2. QED
    BY <2>1 DEF Pred!Init
<1>2. Pred!TypeOK
  BY <1>1, PredNoListIsList, PredWorkersAreWorkers DEF Pred!Init, Pred!TypeOK
<1>3. Pred!ShownIsPosted
  BY DEF Pred!Init, Pred!ShownIsPosted, Pred!NoList
<1>4. QED
  BY <1>2, <1>3

\* What of the shown list is left to post is posted, or in some thread's hands,
\* or a thread that had it in its hands raised.  A thread may not replace the list
\* by less, nor lose what is in its hands otherwise.
LEMMA PredShownStep == Pred!TypeOK /\ Pred!ShownIsPosted /\ [Pred!Next]_(Pred!vars) => Pred!ShownIsPosted'
<1>. SUFFICES ASSUME Pred!TypeOK, Pred!ShownIsPosted, [Pred!Next]_(Pred!vars),
                     NEW z \in DOMAIN latest'.risk, <<latest'.number, z>> \notin posted',
                     latest'.number \notin cut'
              PROVE  \E t \in Pred!Makers : Pred!WillPost(t, z)'
  BY Zenon DEF Pred!ShownIsPosted
<1>. USE DEF Pred!TypeOK
<1>1. ASSUME NEW t \in Pred!Makers, Pred!Assign(t) PROVE Pred!WillPost(t, z)'
  BY <1>1 DEF Pred!Assign, Pred!WillPost, Pred!Worker
<1>2. CASE Pred!Restart
  BY <1>2 DEF Pred!Restart, Pred!NoList
<1>3. CASE UNCHANGED <<latest, posted, cut, worker>>
  BY <1>3 DEF Pred!ShownIsPosted, Pred!WillPost
<1>4. ASSUME UNCHANGED latest, posted \subseteq posted', cut \subseteq cut'
      PROVE  \E s \in Pred!Makers : Pred!WillPost(s, z)
  BY <1>4 DEF Pred!ShownIsPosted
\* A thread that has nothing of the list in its hands may do what it likes.
<1>5. ASSUME NEW t \in Pred!Makers, UNCHANGED latest, posted \subseteq posted', cut \subseteq cut',
             ~Pred!WillPost(t, z) \/ Pred!WillPost(t, z)',
             \A s \in Pred!Makers \ {t} : worker'[s] = worker[s]
      PROVE  \E s \in Pred!Makers : Pred!WillPost(s, z)'
  <2>1. PICK s \in Pred!Makers : Pred!WillPost(s, z)
    BY <1>5, <1>4
  <2>2. CASE s = t
    BY <2>1, <2>2, <1>5
  <2>3. CASE s # t
    BY <2>1, <2>3, <1>5 DEF Pred!WillPost
  <2>4. QED
    BY <2>2, <2>3
<1>6. ASSUME NEW t \in Pred!Makers, Pred!Call(t) \/ Pred!Fit(t) \/ Pred!CountThem(t)
      PROVE  \E s \in Pred!Makers : Pred!WillPost(s, z)'
  <2>1. ~Pred!WillPost(t, z) /\ UNCHANGED <<latest, posted, cut>> /\ \A s \in Pred!Makers \ {t} : worker'[s] = worker[s]
    BY <1>6 DEF Pred!Call, Pred!Fit, Pred!CountThem, Pred!WillPost, Pred!Worker
  <2>2. QED
    BY <2>1, <1>5
<1>7. ASSUME NEW t \in Pred!Makers, Pred!Begin(t) PROVE \E s \in Pred!Makers : Pred!WillPost(s, z)'
  BY <1>7 DEF Pred!Begin, Pred!WillPost, Pred!Worker
<1>8. ASSUME NEW t \in Pred!Makers, NEW zones \in SUBSET Zones, NEW trains \in BOOLEAN, Pred!Fetch(t, zones, trains)
      PROVE  \E s \in Pred!Makers : Pred!WillPost(s, z)'
  <2>1. ~Pred!WillPost(t, z) /\ UNCHANGED <<latest, posted, cut>> /\ \A s \in Pred!Makers \ {t} : worker'[s] = worker[s]
    BY <1>8 DEF Pred!Fetch, Pred!WillPost, Pred!Worker
  <2>2. QED
    BY <2>1, <1>5
<1>9. ASSUME NEW t \in Pred!Makers, NEW y \in Zones, Pred!Predict(t, y) PROVE \E s \in Pred!Makers : Pred!WillPost(s, z)'
  <2>1. ~Pred!WillPost(t, z) /\ UNCHANGED <<latest, posted, cut>> /\ \A s \in Pred!Makers \ {t} : worker'[s] = worker[s]
    BY <1>9 DEF Pred!Predict, Pred!WillPost, Pred!Worker
  <2>2. QED
    BY <2>1, <1>5
<1>10. ASSUME NEW t \in Pred!Makers, NEW y \in Zones, Pred!Post(t, y) PROVE \E s \in Pred!Makers : Pred!WillPost(s, z)'
  <2>1. UNCHANGED <<latest, cut>> /\ posted \subseteq posted' /\ \A s \in Pred!Makers \ {t} : worker'[s] = worker[s]
    BY <1>10 DEF Pred!Post, Pred!Worker
  <2>2. Pred!WillPost(t, z) => Pred!WillPost(t, z)'
    BY <1>10 DEF Pred!Post, Pred!StillLeft, Pred!WillPost, Pred!Worker
  <2>3. QED
    BY <2>1, <2>2, <1>5
\* A round that raises has the shown list in its hands, and the list is cut, or not.
<1>11. ASSUME NEW t \in Pred!Makers, Pred!Raise(t) PROVE \E s \in Pred!Makers : Pred!WillPost(s, z)'
  <2>1. UNCHANGED <<latest, posted>> /\ \A s \in Pred!Makers \ {t} : worker'[s] = worker[s]
    BY <1>11 DEF Pred!Raise
  <2>2. cut \subseteq cut'
    BY <1>11 DEF Pred!Raise
  <2>3. CASE worker[t].at \in {"fetch", "make"}
    <3>1. ~Pred!WillPost(t, z)
      BY <2>3 DEF Pred!WillPost
    <3>2. QED
      BY <2>1, <2>2, <3>1, <1>5
  <2>4. CASE worker[t].at = "post"
    <3>1. cut' = cut \cup {worker[t].list}
      BY <1>11, <2>4 DEF Pred!Raise
    <3>2. worker[t].list # latest.number
      BY <2>1, <3>1
    <3>3. ~Pred!WillPost(t, z)
      BY <2>4, <3>2 DEF Pred!WillPost
    <3>4. QED
      BY <2>1, <2>2, <3>3, <1>5
  <2>5. QED
    BY <1>11, <2>3, <2>4 DEF Pred!Raise
<1>12. QED
  BY <1>1, <1>2, <1>3, <1>6, <1>7, <1>8, <1>9, <1>10, <1>11 DEF Pred!Next, Pred!vars

\* However rounds of the loop and of callers overlap, the list the service
\* shows has been posted whole, or a thread is about to, or one raised while it
\* posted that list.
THEOREM ShownPosted == Spec => []ShownIsPosted
<1> DEFINE Both == Pred!TypeOK /\ Pred!ShownIsPosted
<1>1. Pred!ListsAssumption
  BY PartsAssumption DEF PartsAssumption
<1>2. Init => Both
  BY <1>1, PredInitHolds DEF Init, PredInit
<1>3. Both /\ [Next]_vars => Both'
  BY <1>1, PartSteps, PredTypeStep, PredShownStep
<1>4. Both => ShownIsPosted
  BY DEF ShownIsPosted
<1> HIDE DEF Both
<1>5. QED
  BY <1>2, <1>3, <1>4, PTL DEF Spec

-----------------------------------------------------------------------------
(***************************************************************************)
(* Compliance.                                                             *)
(***************************************************************************)

\* A request that is about to write its row has written its line, and one that
\* left a line unfinished was answered an error.
AuditOrder ==
  /\ \A r \in Audit!Asked : job[r] = "row" => r \in lines \cup spoilt
  /\ \A r \in unfinished : job[r] = "error"

\* What HandedOnIsAudited says of the requests and the table.
AuditRecorded ==
  /\ \A r \in Audit!Asked : job[r] = "ok" => r \in lines \cup spoilt /\ (HasDatabase => r \in rows)
  /\ rows \subseteq lines \cup spoilt

\* And of the lines that do not read back.
AuditSpoilt ==
  /\ IsFiniteSet(spoilt) /\ IsFiniteSet(unfinished)
  /\ Cardinality(spoilt) + (IF ragged THEN 1 ELSE 0) <= Cardinality(unfinished)

AuditIndInv == Audit!TypeOK /\ AuditOrder /\ AuditRecorded /\ AuditSpoilt

LEMMA AuditCardinalityIs == \A S : Audit!Cardinality(S) = Cardinality(S)
BY DEF Audit!Cardinality, Cardinality

\* Nothing has been asked and nothing written at the start.
LEMMA AuditInitHolds ==
  ASSUME Audit!Init
  PROVE  AuditIndInv
<1>1. IsFiniteSet({}) /\ Cardinality({}) = 0
  BY FS_EmptySet
<1>2. Audit!TypeOK /\ AuditOrder /\ AuditRecorded
  BY DEF Audit!Init, Audit!TypeOK, AuditOrder, AuditRecorded
<1>3. AuditSpoilt
  BY <1>1 DEF Audit!Init, AuditSpoilt
<1>4. QED
  BY <1>2, <1>3 DEF AuditIndInv

\* What any step that moves one request on has to show of it.
LEMMA AuditRequestStep ==
  ASSUME AuditIndInv, NEW r \in Audit!Asked, NEW at \in {"file", "row", "ok", "error"},
         job' = [job EXCEPT ![r] = at], job[r] # "error",
         lines' \subseteq Audit!Asked, spoilt' \subseteq Audit!Asked, rows' \subseteq Audit!Asked,
         unfinished' \subseteq unfinished \cup {r}, ragged' \in BOOLEAN,
         lines \cup spoilt \subseteq lines' \cup spoilt', rows \subseteq rows', rows' \subseteq rows \cup {r},
         at \in {"row", "ok"} => r \in lines' \cup spoilt',
         at = "ok" => (HasDatabase => r \in rows'),
         r \in unfinished' => at = "error",
         r \in rows' => r \in lines' \cup spoilt',
         AuditSpoilt'
  PROVE  AuditIndInv'
<1>1. job \in [Audit!Asked -> {"idle", "file", "row", "ok", "error"}] /\ unfinished \subseteq Audit!Asked
  BY DEF AuditIndInv, Audit!TypeOK
<1>2. \A q \in Audit!Asked : job'[q] = IF q = r THEN at ELSE job[q]
  BY <1>1
<1>3. Audit!TypeOK'
  BY <1>1 DEF Audit!TypeOK
<1>4. AuditOrder'
  BY <1>1, <1>2 DEF AuditIndInv, AuditOrder
<1>5. AuditRecorded'
  BY <1>2 DEF AuditIndInv, AuditRecorded
<1>6. QED
  BY <1>3, <1>4, <1>5 DEF AuditIndInv

\* The lines as they are leave their count as it is.
LEMMA AuditSpoiltStays ==
  ASSUME AuditIndInv, UNCHANGED <<spoilt, unfinished, ragged>>
  PROVE  AuditSpoilt'
BY DEF AuditIndInv, AuditSpoilt

LEMMA AuditAskStep ==
  ASSUME AuditIndInv, NEW r \in Audit!Asked, Audit!Ask(r)
  PROVE  AuditIndInv'
<1>1. /\ job[r] = "idle" /\ job' = [job EXCEPT ![r] = "file"]
      /\ UNCHANGED <<lines, spoilt, unfinished, ragged, rows>>
  BY DEF Audit!Ask, Audit!Transform
<1>2. AuditSpoilt' /\ r \notin unfinished /\ (r \in rows => r \in lines \cup spoilt)
  BY <1>1, AuditSpoiltStays DEF AuditIndInv, AuditOrder, AuditRecorded
<1>3. Audit!TypeOK
  BY DEF AuditIndInv
<1>4. QED
  BY <1>1, <1>2, <1>3, AuditRequestStep DEF Audit!TypeOK

\* A line that reaches the file uses up the unfinished one it is glued to.
LEMMA AuditAppendStep ==
  ASSUME AuditIndInv, NEW r \in Audit!Asked, Audit!Append(r)
  PROVE  /\ AuditSpoilt'
         /\ lines' \subseteq Audit!Asked /\ spoilt' \subseteq Audit!Asked
         /\ unfinished' = unfinished /\ ragged' \in BOOLEAN
         /\ lines' \cup spoilt' = lines \cup spoilt \cup {r}
<1>1. AuditSpoilt /\ Audit!TypeOK
  BY DEF AuditIndInv
<1>2. /\ Cardinality(spoilt) \in Nat /\ Cardinality(unfinished) \in Nat
      /\ IsFiniteSet(spoilt \cup {r})
      /\ Cardinality(spoilt \cup {r}) = IF r \in spoilt THEN Cardinality(spoilt) ELSE Cardinality(spoilt) + 1
  BY <1>1, FS_AddElement, FS_CardinalityType DEF AuditSpoilt
<1>3. CASE ragged
  <2>1. spoilt' = spoilt \cup {r} /\ lines' = lines /\ unfinished' = unfinished /\ ragged' = FALSE
    BY <1>3 DEF Audit!Append
  <2>2. Cardinality(spoilt) + 1 <= Cardinality(unfinished)
    BY <1>1, <1>3 DEF AuditSpoilt
  <2>3. Cardinality(spoilt') <= Cardinality(unfinished') /\ Cardinality(spoilt') \in Nat
    BY <1>2, <2>1, <2>2
  <2>4. AuditSpoilt'
    BY <1>1, <1>2, <2>1, <2>3 DEF AuditSpoilt
  <2>5. QED
    BY <1>1, <2>1, <2>4 DEF Audit!TypeOK
<1>4. CASE ~ragged
  <2>1. spoilt' = spoilt /\ lines' = lines \cup {r} /\ unfinished' = unfinished /\ ragged' = FALSE
    BY <1>4 DEF Audit!Append
  <2>2. AuditSpoilt'
    BY <1>1, <1>4, <2>1 DEF AuditSpoilt
  <2>3. QED
    BY <1>1, <2>1, <2>2 DEF Audit!TypeOK
<1>5. QED
  BY <1>1, <1>3, <1>4 DEF Audit!TypeOK

\* A write that fails half way leaves one unfinished line, at most.
LEMMA AuditAppendPartStep ==
  ASSUME AuditIndInv, NEW r \in Audit!Asked, r \notin unfinished, Audit!AppendPart(r)
  PROVE  AuditSpoilt'
<1>1. spoilt' = spoilt /\ unfinished' = unfinished \cup {r} /\ ragged' = TRUE
  BY DEF Audit!AppendPart
<1>2. AuditSpoilt
  BY DEF AuditIndInv
<1>3. /\ Cardinality(spoilt) \in Nat /\ Cardinality(unfinished) \in Nat
      /\ IsFiniteSet(unfinished \cup {r}) /\ Cardinality(unfinished \cup {r}) = Cardinality(unfinished) + 1
  BY <1>2, FS_AddElement, FS_CardinalityType DEF AuditSpoilt
<1>4. Cardinality(spoilt) <= Cardinality(unfinished)
  BY <1>2, <1>3 DEF AuditSpoilt
<1>5. QED
  BY <1>1, <1>2, <1>3, <1>4 DEF AuditSpoilt

LEMMA AuditWriteLineStep ==
  ASSUME AuditIndInv, NEW r \in Audit!Asked, Audit!WriteLine(r)
  PROVE  AuditIndInv'
<1>1. /\ job[r] = "file" /\ rows' = rows /\ Audit!TypeOK
      /\ r \notin unfinished /\ rows \subseteq lines \cup spoilt
  BY DEF Audit!WriteLine, AuditIndInv, AuditOrder, AuditRecorded
<1>2. CASE Audit!Append(r) /\ (Audit!GoOn(r) \/ Audit!FileFailed(r))
  <2>1. /\ AuditSpoilt'
        /\ lines' \subseteq Audit!Asked /\ spoilt' \subseteq Audit!Asked
        /\ unfinished' = unfinished /\ ragged' \in BOOLEAN
        /\ lines' \cup spoilt' = lines \cup spoilt \cup {r}
    BY <1>2, AuditAppendStep
  <2>2. PICK at \in {"row", "ok", "error"} : job' = [job EXCEPT ![r] = at] /\ (at = "ok" => ~HasDatabase)
    BY <1>2 DEF Audit!GoOn, Audit!FileFailed, Audit!Tell
  <2>3. QED
    BY <1>1, <2>1, <2>2, AuditRequestStep DEF Audit!TypeOK
<1>3. CASE Audit!AppendPart(r) /\ Audit!FileFailed(r)
  <2>1. AuditSpoilt'
    BY <1>1, <1>3, AuditAppendPartStep
  <2>2. /\ job' = [job EXCEPT ![r] = "error"] /\ UNCHANGED <<lines, spoilt>>
        /\ unfinished' = unfinished \cup {r} /\ ragged' = TRUE
    BY <1>3 DEF Audit!AppendPart, Audit!FileFailed, Audit!Tell
  <2>3. QED
    BY <1>1, <2>1, <2>2, AuditRequestStep DEF Audit!TypeOK
<1>4. CASE UNCHANGED <<lines, spoilt, unfinished, ragged>> /\ Audit!FileFailed(r)
  <2>1. AuditSpoilt'
    BY <1>4, AuditSpoiltStays
  <2>2. job' = [job EXCEPT ![r] = "error"]
    BY <1>4 DEF Audit!FileFailed, Audit!Tell
  <2>3. QED
    BY <1>1, <1>4, <2>1, <2>2, AuditRequestStep DEF Audit!TypeOK
<1>5. QED
  BY <1>2, <1>3, <1>4 DEF Audit!WriteLine

LEMMA AuditWriteRowStep ==
  ASSUME AuditIndInv, NEW r \in Audit!Asked, Audit!WriteRow(r)
  PROVE  AuditIndInv'
<1>1. /\ job[r] = "row" /\ UNCHANGED <<lines, spoilt, unfinished, ragged>> /\ Audit!TypeOK
      /\ r \in lines \cup spoilt /\ r \notin unfinished
  BY DEF Audit!WriteRow, AuditIndInv, AuditOrder
<1>2. AuditSpoilt'
  BY <1>1, AuditSpoiltStays
<1>3. PICK at \in {"ok", "error"} :
        /\ job' = [job EXCEPT ![r] = at]
        /\ rows' = rows \cup {r} \/ (rows' = rows /\ at = "error")
  BY DEF Audit!WriteRow, Audit!Tell
<1>4. QED
  BY <1>1, <1>2, <1>3, AuditRequestStep DEF Audit!TypeOK

LEMMA AuditInductive ==
  ASSUME AuditIndInv, [Audit!Next]_(Audit!vars)
  PROVE  AuditIndInv'
<1>1. CASE UNCHANGED Audit!vars
  BY <1>1 DEF Audit!vars, AuditIndInv, Audit!TypeOK, AuditOrder, AuditRecorded, AuditSpoilt
<1>2. CASE Audit!Next
  BY <1>2, AuditAskStep, AuditWriteLineStep, AuditWriteRowStep DEF Audit!Next
<1>3. QED
  BY <1>1, <1>2

\* Whichever writes fail, half way or after the commit, and however requests are
\* repeated and overlap: a request that handed its event on has its line and its
\* row, no row lacks its line, and each line that does not read back is due to one
\* unfinished write.
THEOREM AuditKept == Spec => []HandedOnIsAudited
<1>1. Init => AuditIndInv
  BY AuditInitHolds DEF Init, AuditInit
<1>2. AuditIndInv /\ [Next]_vars => AuditIndInv'
  BY PartSteps, AuditInductive
<1>3. AuditIndInv => HandedOnIsAudited
  BY AuditCardinalityIs DEF AuditIndInv, AuditRecorded, AuditSpoilt, HandedOnIsAudited, Audit!HandedOnIsAudited
<1>4. QED
  BY <1>1, <1>2, <1>3, PTL DEF Spec

-----------------------------------------------------------------------------
(***************************************************************************)
(* EdgeSender.                                                             *)
(***************************************************************************)

\* What the swarm took of a call: all that was answered, and of every attempt
\* before this one at most what the attempt asked for.  Only the last send of
\* an attempt that failed may be uncounted.
SenderCount(d) ==
  /\ d.at = "idle" => d.told = "nothing" /\ d.taken = 0
  /\ d.at # "idle" => d.attempt >= 1 /\ d.taken >= d.ok
  /\ d.at = "sending" =>
       d.told # "published" /\ d.left + d.ok = d.size /\ d.taken <= d.ok + (d.attempt - 1) * d.size
  /\ d.at = "told" => d.told # "nothing"
  /\ d.told = "published" => d.ok = d.size /\ d.taken <= d.ok + (d.attempt - 1) * d.size
  /\ d.at = "told" /\ d.told = "failed" => d.ok < d.size /\ d.taken <= d.ok + (d.attempt - 1) * d.size + 1

SenderInv == Sender!TypeOK /\ \A c \in Calls : SenderCount(call[c])

LEMMA SenderInitHolds ==
  ASSUME Sender!NumbersAssumption, Sender!Init
  PROVE  SenderInv
  BY DEF Sender!NumbersAssumption, Sender!Init, SenderInv, Sender!TypeOK, Sender!Call, SenderCount

\* A step replaces one call by another that is typed and counted.
LEMMA SenderUpdate ==
  ASSUME SenderInv, NEW c \in Calls, NEW d \in Sender!Call, SenderCount(d), call' = [call EXCEPT ![c] = d]
  PROVE  SenderInv'
<1>1. call' \in [Calls -> Sender!Call]
  BY DEF SenderInv, Sender!TypeOK
<1>2. ASSUME NEW b \in Calls
      PROVE  SenderCount(call'[b])
  <2>1. call'[b] = d \/ call'[b] = call[b]
    BY DEF SenderInv, Sender!TypeOK
  <2>2. QED
    BY <2>1 DEF SenderInv
<1>3. QED
  BY <1>1, <1>2 DEF SenderInv, Sender!TypeOK

\* One repetition more asks for one batch more.
LEMMA SenderProduct ==
  ASSUME NEW attempt \in Nat, NEW size \in Nat
  PROVE  /\ (attempt - 1) * size \in Int
         /\ (attempt + 1 - 1) * size = (attempt - 1) * size + size
  OBVIOUS

\* Calls made of a call.
LEMMA SenderAsked ==
  ASSUME NEW d \in Sender!Call, NEW size \in 0 .. BatchSize, NEW attempt \in 0 .. MaxAttempts, 0 \in 0 .. BatchSize
  PROVE  /\ [d EXCEPT !.at = "sending", !.left = size, !.ok = 0, !.size = size, !.attempt = attempt] \in Sender!Call
         /\ [d EXCEPT !.at = "sending", !.left = size, !.ok = 0, !.attempt = attempt] \in Sender!Call
  BY DEF Sender!Call

LEMMA SenderArrived ==
  ASSUME NEW d \in Sender!Call
  PROVE  [d EXCEPT !.taken = @ + 1] \in Sender!Call
  BY DEF Sender!Call

LEMMA SenderAnswered ==
  ASSUME NEW d \in Sender!Call, d.left - 1 \in 0 .. BatchSize, d.ok + 1 \in 0 .. BatchSize
  PROVE  [d EXCEPT !.left = @ - 1, !.ok = @ + 1] \in Sender!Call
  BY DEF Sender!Call

LEMMA SenderTold ==
  ASSUME NEW d \in Sender!Call
  PROVE  Sender!GivenUp(d) \in Sender!Call /\ [d EXCEPT !.at = "told", !.told = "published"] \in Sender!Call
  BY DEF Sender!Call, Sender!GivenUp

LEMMA SenderInductive ==
  ASSUME Sender!NumbersAssumption, SenderInv, [Sender!Next]_call
  PROVE  SenderInv'
<1>1. CASE UNCHANGED call
  BY <1>1 DEF SenderInv, Sender!TypeOK
<1>2. \A c \in Calls : call[c] \in Sender!Call /\ SenderCount(call[c])
  BY DEF SenderInv, Sender!TypeOK
<1>3. BatchSize \in Nat \ {0} /\ MaxAttempts \in Nat \ {0}
  BY DEF Sender!NumbersAssumption
<1>4. ASSUME NEW c \in Calls, NEW n \in 1 .. BatchSize, Sender!Ask(c, n)
      PROVE  SenderInv'
  <2> DEFINE d == [call[c] EXCEPT !.at = "sending", !.left = n, !.ok = 0, !.size = n, !.attempt = 1]
  <2>4. call[c] \in Sender!Call /\ SenderCount(call[c]) /\ call[c].at = "idle" /\ n \in Nat \ {0}
    BY <1>2, <1>3, <1>4 DEF Sender!Ask
  <2>1. d \in Sender!Call
    <3>1. n \in 0 .. BatchSize /\ 1 \in 0 .. MaxAttempts /\ 0 \in 0 .. BatchSize
      BY <1>3
    <3>2. QED
      BY <2>4, <3>1, SenderAsked
  <2>5. /\ d.at = "sending" /\ d.left = n /\ d.ok = 0 /\ d.size = n /\ d.attempt = 1
        /\ d.taken = call[c].taken /\ d.told = call[c].told
    BY <2>4 DEF Sender!Call
  <2>6. call[c].taken = 0 /\ call[c].told = "nothing"
    BY <2>4 DEF SenderCount
  <2>2. SenderCount(d)
    <3>1. 0 <= 0 + (1 - 1) * n
      BY <2>4
    <3> HIDE DEF d
    <3>2. QED
      BY <3>1, <2>4, <2>5, <2>6 DEF SenderCount
  <2>3. call' = [call EXCEPT ![c] = d]
    BY <1>4 DEF Sender!Ask
  <2> HIDE DEF d
  <2> QED
    BY <2>1, <2>2, <2>3, SenderUpdate
<1>5. ASSUME NEW c \in Calls, Sender!AskAgain(c)
      PROVE  SenderInv'
  <2> DEFINE d == [call[c] EXCEPT !.at = "sending", !.left = call[c].size, !.ok = 0, !.attempt = call[c].attempt + 1]
  <2> DEFINE old == call[c]
  <2>5. old \in Sender!Call /\ SenderCount(old) /\ old.at = "told" /\ old.told = "failed" /\ old.attempt < MaxAttempts
    BY <1>2, <1>5 DEF Sender!AskAgain
  <2>6. /\ old.size \in 0 .. BatchSize /\ old.attempt \in 1 .. MaxAttempts /\ old.attempt + 1 \in 1 .. MaxAttempts
        /\ old.taken \in Nat /\ old.ok \in 0 .. BatchSize
    BY <1>3, <2>5 DEF Sender!Call, SenderCount
  <2>1. d \in Sender!Call
    <3>1. old.attempt + 1 \in 0 .. MaxAttempts /\ 0 \in 0 .. BatchSize
      BY <1>3, <2>6
    <3>2. QED
      BY <2>5, <2>6, <3>1, SenderAsked
  <2>7. /\ d.at = "sending" /\ d.left = old.size /\ d.ok = 0 /\ d.size = old.size /\ d.attempt = old.attempt + 1
        /\ d.taken = old.taken /\ d.told = "failed"
    BY <2>5 DEF Sender!Call
  <2>8. old.taken <= old.ok + (old.attempt - 1) * old.size + 1 /\ old.ok < old.size
    BY <2>5 DEF SenderCount
  <2>9. old.taken <= (old.attempt + 1 - 1) * old.size
    <3> DEFINE p == (old.attempt - 1) * old.size
    <3>1. p \in Int /\ (old.attempt + 1 - 1) * old.size = p + old.size
      BY <2>6, SenderProduct
    <3> HIDE DEF p
    <3>2. old.taken <= old.ok + p + 1
      BY <2>8 DEF p
    <3> HIDE DEF old
    <3>3. QED
      BY <3>1, <3>2, <2>6, <2>8
  <2>10. old.taken <= 0 + (old.attempt + 1 - 1) * old.size
    <3> DEFINE q == (old.attempt + 1 - 1) * old.size
    <3>1. q \in Int
      BY <2>6, SenderProduct
    <3> HIDE DEF q, old
    <3>2. QED
      BY <3>1, <2>9 DEF q
  <2>2. SenderCount(d)
    <3> HIDE DEF d, old
    <3>1. QED
      BY <2>6, <2>7, <2>10 DEF SenderCount
  <2>3. call' = [call EXCEPT ![c] = d]
    BY <1>5 DEF Sender!AskAgain
  <2> HIDE DEF d
  <2> QED
    BY <2>1, <2>2, <2>3, SenderUpdate
<1>6. ASSUME NEW c \in Calls, Sender!Send(c)
      PROVE  SenderInv'
  <2> DEFINE arrived == [call[c] EXCEPT !.taken = @ + 1]
             answered == [arrived EXCEPT !.left = @ - 1, !.ok = @ + 1]
  <2> DEFINE old == call[c]
             p == (old.attempt - 1) * old.size
  <2>6. old \in Sender!Call /\ SenderCount(old) /\ old.at = "sending" /\ old.left > 0
    BY <1>2, <1>6 DEF Sender!Send
  <2>7. /\ old.size \in 0 .. BatchSize /\ old.attempt \in 1 .. MaxAttempts /\ old.taken \in Nat
        /\ old.ok \in 0 .. BatchSize /\ old.left \in 1 .. BatchSize
        /\ old.told \in {"nothing", "failed"} /\ old.left + old.ok = old.size /\ old.taken >= old.ok
        /\ old.taken <= old.ok + p
    BY <1>3, <2>6 DEF Sender!Call, SenderCount
  <2>8. p \in Int
    BY <2>7, SenderProduct
  <2>1. answered \in Sender!Call /\ SenderCount(answered)
    <3>1. /\ answered.at = "sending" /\ answered.left = old.left - 1 /\ answered.ok = old.ok + 1
          /\ answered.size = old.size /\ answered.attempt = old.attempt /\ answered.taken = old.taken + 1
          /\ answered.told = old.told
      BY <2>6 DEF Sender!Call
    <3>5. old.left - 1 \in 0 .. BatchSize /\ old.ok + 1 \in 0 .. BatchSize /\ old.taken + 1 \in Nat
      BY <1>3, <2>7
    <3>6. arrived \in Sender!Call
      BY <2>6, SenderArrived
    <3>7. arrived.left = old.left /\ arrived.ok = old.ok
      BY <2>6 DEF Sender!Call
    <3>2. answered \in Sender!Call
      <4> HIDE DEF arrived, old
      <4>1. QED
        BY <3>5, <3>6, <3>7, SenderAnswered DEF answered
    <3>3. (answered.attempt - 1) * answered.size = p
      BY <3>1
    <3> HIDE DEF answered, arrived, p, old
    <3>4. QED
      BY <2>7, <2>8, <3>1, <3>2, <3>3 DEF SenderCount
  <2>2. Sender!GivenUp(call[c]) \in Sender!Call /\ SenderCount(Sender!GivenUp(call[c]))
    <3> DEFINE given == Sender!GivenUp(call[c])
    <3>1. /\ given.at = "told" /\ given.told = "failed" /\ given.left = old.left /\ given.ok = old.ok
          /\ given.size = old.size /\ given.attempt = old.attempt /\ given.taken = old.taken
      BY <2>6 DEF Sender!Call, Sender!GivenUp
    <3>2. given \in Sender!Call
      BY <2>6, SenderTold
    <3>3. (given.attempt - 1) * given.size = p
      BY <3>1
    <3> HIDE DEF given, p, old
    <3>4. SenderCount(given)
      BY <2>7, <2>8, <3>1, <3>3 DEF SenderCount
    <3>5. QED
      BY <3>2, <3>4 DEF given
  <2>3. Sender!GivenUp(arrived) \in Sender!Call /\ SenderCount(Sender!GivenUp(arrived))
    <3> DEFINE given == Sender!GivenUp(arrived)
    <3>1. /\ given.at = "told" /\ given.told = "failed" /\ given.left = old.left /\ given.ok = old.ok
          /\ given.size = old.size /\ given.attempt = old.attempt /\ given.taken = old.taken + 1
      BY <2>6 DEF Sender!Call, Sender!GivenUp
    <3>2. given \in Sender!Call
      <4>1. arrived \in Sender!Call
        BY <2>6, SenderArrived
      <4> HIDE DEF arrived
      <4>2. QED
        BY <4>1, SenderTold DEF given
    <3>3. (given.attempt - 1) * given.size = p
      BY <3>1
    <3> HIDE DEF given, p, old
    <3>4. SenderCount(given)
      BY <2>7, <2>8, <3>1, <3>3 DEF SenderCount
    <3>5. QED
      BY <3>2, <3>4 DEF given
  <2>4. \E after \in {answered, Sender!GivenUp(call[c]), Sender!GivenUp(arrived)} : call' = [call EXCEPT ![c] = after]
    BY <1>6 DEF Sender!Send
  <2> HIDE DEF arrived, answered
  <2>5. QED
    BY <2>1, <2>2, <2>3, <2>4, SenderUpdate
<1>7. ASSUME NEW c \in Calls, Sender!Publish(c)
      PROVE  SenderInv'
  <2> DEFINE d == [call[c] EXCEPT !.at = "told", !.told = "published"]
  <2>1. d \in Sender!Call
    BY <1>2, SenderTold
  <2>2. SenderCount(d)
    BY <1>2, <1>3, <1>7 DEF Sender!Call, SenderCount, Sender!Publish
  <2>3. call' = [call EXCEPT ![c] = d]
    BY <1>7 DEF Sender!Publish
  <2> HIDE DEF d
  <2> QED
    BY <2>1, <2>2, <2>3, SenderUpdate
<1>8. QED
  BY <1>1, <1>4, <1>5, <1>6, <1>7 DEF Sender!Next

\* A caller told of success has its events in the swarm, and one that repeats
\* until then at most a batch more for each repetition, for batches of any size.
THEOREM ToldTruly == Spec => []ToldIsTrue
<1>1. Sender!NumbersAssumption
  BY PartsAssumption DEF PartsAssumption
<1>2. Init => SenderInv
  BY <1>1, SenderInitHolds DEF Init, SenderInit
<1>3. SenderInv /\ [Next]_vars => SenderInv'
  BY <1>1, PartSteps, SenderInductive
<1>4. SenderInv => ToldIsTrue
  <2>1. ASSUME NEW d \in Sender!Call, SenderCount(d)
        PROVE  /\ d.told = "published" => d.taken >= d.size
               /\ d.at # "idle" => d.taken <= d.ok + (d.attempt - 1) * d.size + 1
               /\ d.told = "published" => d.taken <= d.attempt * d.size
    BY <2>1 DEF Sender!Call, SenderCount
  <2>2. QED
    BY <2>1 DEF SenderInv, Sender!TypeOK, ToldIsTrue, Sender!ToldIsTrue
<1>5. QED
  BY <1>2, <1>3, <1>4, PTL DEF Spec

-----------------------------------------------------------------------------
(***************************************************************************)
(* EdgeLearner.                                                            *)
(***************************************************************************)

\* What the invariant says of a download under way.
FedGood(d) ==
  /\ d.at = "install" =>
       /\ Fed!Past(d.got) /\ Fed!Whole(d.got)
       /\ ~d.overtaken /\ d.got.life = local.life =>
            d.got.version >= local.version /\ d.got.weights >= local.weights
  /\ d.at = "weights" =>
       /\ d.got.life = life /\ d.got.version <= served.version
       /\ ~d.got.torn => d.got.version = served.version /\ \A u \in Uploaders : up[u].at # "set"
       /\ ~d.overtaken /\ local.life = life => local.version <= d.got.version

LEMMA FedInvIs ==
  Fed!FedInv <=> /\ Fed!TypeOK /\ Fed!ServedIsPublished
                 /\ Fed!Past(local) /\ Fed!Whole(local)
                 /\ \A a \in Fed!Actors : FedGood(act[a])
  BY DEF Fed!FedInv, Fed!DownloadsAreOfThePast, Fed!OlderOnlyWhenOvertaken, FedGood

\* After a step.
LEMMA FedInvThen ==
  ASSUME Fed!TypeOK', Fed!ServedIsPublished', (Fed!Past(local) /\ Fed!Whole(local))',
         \A a \in Fed!Actors : FedGood(act[a])'
  PROVE  Fed!FedInv'
  BY DEF Fed!FedInv, Fed!DownloadsAreOfThePast, Fed!OlderOnlyWhenOvertaken, FedGood, Fed!Actors

LEMMA FedInitHolds ==
  ASSUME Fed!NumbersAssumption, Fed!Init
  PROVE  Fed!FedInv
<1>. USE DEF Fed!NumbersAssumption, Fed!Init
<1>1. Fed!Zeros \in Fed!Model /\ Fed!Initial \in Fed!Download
  BY DEF Fed!Zeros, Fed!Model, Fed!Initial, Fed!Download
<1>2. Fed!Resting \in Fed!Act /\ [Fed!Resting EXCEPT !.at = "fetch"] \in Fed!Act
  BY <1>1 DEF Fed!Resting, Fed!Act
<1>3. Fed!NoUpload \in Fed!Uploader
  BY <1>1 DEF Fed!NoUpload, Fed!Uploader
<1>4. act \in [Fed!Actors -> Fed!Act]
  BY <1>2
<1>5. Fed!TypeOK
  BY <1>1, <1>3, <1>4 DEF Fed!TypeOK
<1>6. Fed!ServedIsPublished
  BY DEF Fed!ServedIsPublished, Fed!NoUpload, Fed!Zeros
<1>7. Fed!Past(local) /\ Fed!Whole(local)
  BY DEF Fed!Past, Fed!Whole, Fed!ModelOf, Fed!Initial, Fed!Zeros
<1>8. \A a \in Fed!Actors : FedGood(act[a])
  BY DEF FedGood, Fed!Resting
<1>9. QED
  BY <1>5, <1>6, <1>7, <1>8, FedInvIs

\* A step of the aggregator that the edge cannot see.
LEMMA FedUnseen ==
  ASSUME Fed!FedInv, Fed!TypeOK', Fed!ServedIsPublished', UNCHANGED <<served, life, local, act>>,
         published \subseteq published',
         \A u \in Uploaders : up'[u].at = "set" => up[u].at = "set"
  PROVE  Fed!FedInv'
<1>1. (Fed!Past(local) /\ Fed!Whole(local))'
  BY FedInvIs DEF Fed!Past, Fed!Whole, Fed!ModelOf
<1>2. ASSUME NEW a \in Fed!Actors PROVE FedGood(act[a])'
  <2>1. FedGood(act[a])
    BY FedInvIs
  <2>2. QED
    BY <2>1 DEF FedGood, Fed!Past, Fed!Whole, Fed!ModelOf
<1>3. QED
  BY <1>1, <1>2, FedInvThen

\* A step that sets the version or the weights: neither goes back, and what is
\* half read is torn.
LEMMA FedTorn ==
  ASSUME Fed!FedInv, Fed!ServedIsPublished', UNCHANGED <<life, local>>, Fed!Tear,
         served' \in Fed!Model, served'.version >= served.version, served'.weights >= served.weights,
         waiting' \in 0 .. MaxPushes, up' \in [Uploaders -> Fed!Uploader], saved' \subseteq Fed!Model,
         published' \subseteq Fed!Model, mixed' \in Nat, published \subseteq published'
  PROVE  Fed!FedInv'
<1>1. /\ served \in Fed!Model /\ local \in Fed!Download /\ act \in [Fed!Actors -> Fed!Act] /\ life \in Nat
  BY FedInvIs DEF Fed!TypeOK
<1>2. ASSUME NEW a \in Fed!Actors
      PROVE  act'[a] \in Fed!Act /\ act'[a].at = act[a].at /\ act'[a].overtaken = act[a].overtaken
             /\ act'[a].got.version = act[a].got.version /\ act'[a].got.weights = act[a].got.weights
             /\ act'[a].got.life = act[a].got.life
             /\ (act'[a].got.torn <=> act[a].got.torn \/ act[a].at = "weights")
  <2>1. act'[a] = [act[a] EXCEPT !.got.torn = @ \/ act[a].at = "weights"]
    BY <1>2 DEF Fed!Tear
  <2>2. act[a] \in Fed!Act
    BY <1>1, <1>2
  <2> DEFINE torn == act[a].got.torn \/ act[a].at = "weights"
  <2>3. torn \in BOOLEAN
    OBVIOUS
  <2>4. \A x \in Fed!Act, y \in BOOLEAN :
          LET n == [x EXCEPT !.got.torn = y]
          IN  /\ n \in Fed!Act /\ n.at = x.at /\ n.overtaken = x.overtaken /\ n.got.version = x.got.version
              /\ n.got.weights = x.got.weights /\ n.got.life = x.got.life /\ n.got.torn = y
    BY DEF Fed!Act, Fed!Download
  <2>5. act'[a] = [act[a] EXCEPT !.got.torn = torn]
    BY <2>1
  <2> HIDE DEF torn
  <2>6. /\ act'[a] \in Fed!Act /\ act'[a].at = act[a].at /\ act'[a].overtaken = act[a].overtaken
        /\ act'[a].got.version = act[a].got.version /\ act'[a].got.weights = act[a].got.weights
        /\ act'[a].got.life = act[a].got.life /\ act'[a].got.torn = torn
    BY <2>2, <2>3, <2>4, <2>5
  <2>7. QED
    BY <2>6 DEF torn
<1>3. act' \in [Fed!Actors -> Fed!Act]
  <2>1. act' = [a \in Fed!Actors |-> act'[a]]
    BY DEF Fed!Tear
  <2>2. QED
    BY <1>2, <2>1
<1>4. Fed!TypeOK'
  BY <1>1, <1>3 DEF Fed!TypeOK, Fed!Actors, Fed!Act, Fed!Download, Fed!Model, Fed!Uploader
<1>5. served.version \in Nat /\ served.weights \in Nat /\ served'.version \in Nat /\ served'.weights \in Nat
  BY <1>1 DEF Fed!Model
<1>6. (Fed!Past(local) /\ Fed!Whole(local))'
  <2>1. local.version \in Nat /\ local.weights \in Nat
    BY <1>1 DEF Fed!Download
  <2>2. QED
    BY <1>5, <2>1, FedInvIs DEF Fed!Past, Fed!Whole, Fed!ModelOf
<1>7. ASSUME NEW a \in Fed!Actors PROVE FedGood(act[a])'
  <2>1. FedGood(act[a])
    BY FedInvIs
  <2>2. act[a].got.version \in Nat /\ act[a].got.weights \in Nat
    BY <1>1 DEF Fed!Act, Fed!Download
  <2>3. CASE act[a].at = "install"
    <3>1. (act'[a].got.torn <=> act[a].got.torn)
      BY <1>2, <2>3
    <3>2. (Fed!Past(act[a].got) /\ Fed!Whole(act[a].got))'
      BY <1>2, <1>5, <2>1, <2>2, <2>3, <3>1 DEF FedGood, Fed!Past, Fed!Whole, Fed!ModelOf
    <3>3. QED
      BY <1>2, <2>1, <2>3, <3>2 DEF FedGood
  <2>4. CASE act[a].at = "weights"
    <3>1. act'[a].got.torn
      BY <1>2, <2>4
    <3>2. QED
      BY <1>2, <1>5, <2>1, <2>2, <2>4, <3>1 DEF FedGood
  <2>5. CASE act[a].at \notin {"install", "weights"}
    BY <1>2, <2>5 DEF FedGood
  <2>6. QED
    BY <2>3, <2>4, <2>5
<1>8. QED
  BY <1>4, <1>6, <1>7, FedInvThen

\* A step of a thread of the edge that installs nothing: its own act is replaced.
LEMMA FedMoved ==
  ASSUME Fed!FedInv, NEW a \in Fed!Actors, NEW d \in Fed!Act, act' = [act EXCEPT ![a] = d], FedGood(d),
         UNCHANGED <<served, up, saved, mixed, life, published, local>>, waiting' \in 0 .. MaxPushes
  PROVE  Fed!FedInv'
<1>1. act' \in [Fed!Actors -> Fed!Act] /\ act'[a] = d /\ \A b \in Fed!Actors \ {a} : act'[b] = act[b]
  BY FedInvIs DEF Fed!TypeOK
<1>2. Fed!TypeOK'
  BY <1>1, FedInvIs DEF Fed!TypeOK, Fed!Actors, Fed!Act, Fed!Download, Fed!Model, Fed!Uploader
<1>3. Fed!ServedIsPublished' /\ (Fed!Past(local) /\ Fed!Whole(local))'
  BY FedInvIs DEF Fed!ServedIsPublished, Fed!Past, Fed!Whole, Fed!ModelOf, Fed!Zeros
<1>4. ASSUME NEW b \in Fed!Actors PROVE FedGood(act[b])'
  <2>1. FedGood(act[b]) /\ (b = a => act'[b] = d) /\ (b # a => act'[b] = act[b])
    BY <1>1, FedInvIs
  <2>2. FedGood(d)
    OBVIOUS
  <2>3. CASE b = a
    BY <2>1, <2>2, <2>3 DEF FedGood, Fed!Past, Fed!Whole, Fed!ModelOf
  <2>4. CASE b # a
    BY <2>1, <2>4 DEF FedGood, Fed!Past, Fed!Whole, Fed!ModelOf
  <2>5. QED
    BY <2>3, <2>4
<1>5. QED
  BY <1>2, <1>3, <1>4, FedInvThen

\* A file more, or one written over.
LEMMA FedWritten ==
  ASSUME NEW m, NEW S, saved \subseteq S, m \in S
  PROVE  Fed!Written(m) \subseteq S
  BY DEF Fed!Written

\* The steps of the aggregator.
LEMMA FedAggregate ==
  ASSUME Fed!NumbersAssumption, Fed!FedInv, NEW u \in Uploaders, Fed!Aggregate(u)
  PROVE  Fed!FedInv'
<1>1. /\ Fed!TypeOK /\ Fed!ServedIsPublished /\ served \in Fed!Model /\ served.version \in Nat /\ served.weights \in Nat
      /\ up \in [Uploaders -> Fed!Uploader] /\ waiting \in 0 .. MaxPushes /\ mixed \in Nat
      /\ saved \subseteq Fed!Model /\ published \subseteq Fed!Model /\ MaxPushes \in Nat
  BY FedInvIs DEF Fed!TypeOK, Fed!Model, Fed!NumbersAssumption
<1>2. CASE Fed!Mix(u)
  <2>1. up' \in [Uploaders -> Fed!Uploader] /\ \A v \in Uploaders : up'[v].at = "set" => up[v].at = "set"
    BY <1>1, <1>2 DEF Fed!Mix, Fed!Uploader
  <2>2. \A v \in Uploaders : (up[v].at = "set" => up'[v].at = "set")
                             /\ (up'[v].at = "save" => up[v].at = "save") /\ up'[v].model = up[v].model
    BY <1>1, <1>2 DEF Fed!Mix, Fed!Uploader
  <2>3. Fed!TypeOK'
    BY <1>1, <1>2, <2>1 DEF Fed!Mix, Fed!TypeOK
  <2>4. Fed!ServedIsPublished'
    BY <1>1, <1>2, <2>2 DEF Fed!Mix, Fed!ServedIsPublished
  <2>5. QED
    BY <1>2, <2>1, <2>3, <2>4, FedUnseen DEF Fed!Mix
<1>3. CASE Fed!Bump(u)
  <2>1. /\ served' \in Fed!Model /\ served'.version = served.version + 1 /\ served'.weights = served.weights
    BY <1>1, <1>3 DEF Fed!Bump, Fed!Model
  <2>2. up' \in [Uploaders -> Fed!Uploader] /\ up'[u].at = "set"
    BY <1>1, <1>3 DEF Fed!Bump, Fed!Uploader
  <2>3. \A v \in Uploaders : (up'[v].at = "save" => up[v].at = "save") /\ up'[v].model = up[v].model
    BY <1>1, <1>3 DEF Fed!Bump, Fed!Uploader
  <2>4. Fed!ServedIsPublished'
    BY <1>1, <1>3, <2>1, <2>2, <2>3 DEF Fed!Bump, Fed!ServedIsPublished
  <2>5. served'.version >= served.version /\ served'.weights >= served.weights
    BY <1>1, <2>1
  <2>6. QED
    BY <1>1, <1>3, <2>1, <2>2, <2>4, <2>5, FedTorn DEF Fed!Bump
<1>4. CASE Fed!SetWeights(u)
  <2>1. /\ served' \in Fed!Model /\ served'.version = served.version /\ served'.weights = mixed + 1 /\ mixed' = mixed + 1
    BY <1>1, <1>4 DEF Fed!SetWeights, Fed!Model
  <2>2. up' \in [Uploaders -> Fed!Uploader]
    BY <1>1, <1>4 DEF Fed!SetWeights, Fed!Uploader
  <2>3. \A v \in Uploaders : (up'[v].at = "save" => up[v].at = "save") /\ up'[v].model = up[v].model
    BY <1>1, <1>4 DEF Fed!SetWeights, Fed!Uploader
  <2>4. published' = published \cup {served'} /\ UNCHANGED saved
    BY <1>4 DEF Fed!SetWeights
  <2>5. \A m \in published \cup {served} : m \in Fed!Model /\ m.weights \in Nat /\ m.weights <= mixed
    BY <1>1 DEF Fed!ServedIsPublished, Fed!Model
  <2>6. \A m \in published' \cup {served'} : m.weights <= mixed'
    BY <1>1, <2>1, <2>4, <2>5
  <2>7. Fed!ServedIsPublished'
    BY <1>1, <2>3, <2>4, <2>6 DEF Fed!ServedIsPublished, Fed!Zeros
  <2>8. served'.version >= served.version /\ served'.weights >= served.weights
    BY <1>1, <2>1, <2>5
  <2>9. QED
    BY <1>1, <1>4, <2>1, <2>2, <2>4, <2>7, <2>8, FedTorn DEF Fed!SetWeights
<1>5. CASE Fed!CallSave(u)
  <2>1. up' \in [Uploaders -> Fed!Uploader]
    BY <1>1, <1>5 DEF Fed!CallSave, Fed!Uploader
  <2>2. up'[u].model = served /\ up'[u].at = "save" /\ \A v \in Uploaders \ {u} : up'[v] = up[v]
    BY <1>1, <1>5 DEF Fed!CallSave
  <2>3. \A v \in Uploaders : up'[v].at = "set" => up[v].at = "set"
    BY <2>2
  <2>4. published' = published \cup {served} /\ UNCHANGED <<served, saved, mixed>>
    BY <1>5 DEF Fed!CallSave
  <2>5. Fed!TypeOK'
    BY <1>1, <1>5, <2>1, <2>4 DEF Fed!CallSave, Fed!TypeOK
  <2>6. \A v \in Uploaders : up'[v].at = "save" => up'[v].model \in published'
    BY <1>1, <2>2, <2>4 DEF Fed!ServedIsPublished
  <2>7. Fed!ServedIsPublished'
    BY <1>1, <2>4, <2>6 DEF Fed!ServedIsPublished
  <2>8. QED
    BY <1>5, <2>3, <2>4, <2>5, <2>7, FedUnseen DEF Fed!CallSave
<1>6. CASE Fed!Save(u)
  <2>1. up' \in [Uploaders -> Fed!Uploader]
    <3>1. Fed!NoUpload \in Fed!Uploader
      BY DEF Fed!NoUpload, Fed!Uploader, Fed!Zeros, Fed!Model
    <3>2. QED
      BY <1>1, <1>6, <3>1 DEF Fed!Save
  <2>2. up'[u].at = "idle" /\ \A v \in Uploaders \ {u} : up'[v] = up[v]
    BY <1>1, <1>6 DEF Fed!Save, Fed!NoUpload
  <2>3. up[u].at = "save" /\ up[u].model \in published
    BY <1>1, <1>6 DEF Fed!Save, Fed!ServedIsPublished
  <2>4. saved' \subseteq published
    <3>1. saved \subseteq published
      BY <1>1 DEF Fed!ServedIsPublished
    <3>2. Fed!Written(up[u].model) \subseteq published
      BY <2>3, <3>1, FedWritten
    <3>3. QED
      BY <1>6, <3>1, <3>2 DEF Fed!Save
  <2>5. waiting' \in 0 .. MaxPushes
    BY <1>1, <1>6 DEF Fed!Save
  <2>6. \A v \in Uploaders : up'[v].at = "set" => up[v].at = "set"
    BY <2>2
  <2>7. UNCHANGED <<served, mixed, life, published, local, act>>
    BY <1>6 DEF Fed!Save
  <2>8. Fed!TypeOK'
    BY <1>1, <2>1, <2>4, <2>5, <2>7 DEF Fed!TypeOK
  <2>9. Fed!ServedIsPublished'
    <3>1. \A v \in Uploaders : up[v].at = "set" => up'[v].at = "set"
      BY <2>2, <2>3
    <3>2. \A v \in Uploaders : up'[v].at = "save" => up'[v].model \in published
      BY <1>1, <2>2 DEF Fed!ServedIsPublished
    <3>3. QED
      BY <1>1, <2>4, <2>7, <3>1, <3>2 DEF Fed!ServedIsPublished
  <2>10. QED
    BY <2>6, <2>7, <2>8, <2>9, FedUnseen
<1>7. QED
  BY <1>2, <1>3, <1>4, <1>5, <1>6 DEF Fed!Aggregate

\* After a restart no download is of the life the aggregator is in.
LEMMA FedRestart ==
  ASSUME Fed!FedInv, Fed!Restart
  PROVE  Fed!FedInv'
<1>1. /\ Fed!TypeOK /\ Fed!ServedIsPublished /\ life \in Nat /\ act \in [Fed!Actors -> Fed!Act]
      /\ published \subseteq Fed!Model
  BY FedInvIs DEF Fed!TypeOK
<1>2. life' = life + 1 /\ UNCHANGED <<mixed, published, local>> /\ waiting' = 0 /\ up' = [u \in Uploaders |-> Fed!NoUpload]
  BY DEF Fed!Restart
<1>3. PICK m \in Fed!Loadable : served' = m /\ saved' = Fed!Written(m)
  BY DEF Fed!Restart
<1>4. saved \subseteq published /\ m \in published
  BY <1>1 DEF Fed!ServedIsPublished, Fed!Loadable
<1>5. served' \in published /\ saved' \subseteq published
  BY <1>3, <1>4, FedWritten
<1>6. Fed!Resting \in Fed!Act /\ Fed!NoUpload \in Fed!Uploader
  BY DEF Fed!Resting, Fed!Act, Fed!Initial, Fed!Download, Fed!NoUpload, Fed!Uploader, Fed!Zeros, Fed!Model
<1>7. act' \in [Fed!Actors -> Fed!Act]
  BY <1>1, <1>6 DEF Fed!Restart
<1>8. up' \in [Uploaders -> Fed!Uploader]
  BY <1>2, <1>6
<1>9. Fed!TypeOK'
  <2>1. waiting' \in 0 .. MaxPushes
    <3>1. waiting \in 0 .. MaxPushes
      BY <1>1 DEF Fed!TypeOK
    <3>2. QED
      BY <1>2, <3>1, PartsAssumption DEF PartsAssumption, Fed!NumbersAssumption
  <2>2. {mixed', life'} \subseteq Nat /\ local' \in Fed!Download
    BY <1>1, <1>2 DEF Fed!TypeOK
  <2>3. QED
    BY <1>1, <1>2, <1>5, <1>7, <1>8, <2>1, <2>2 DEF Fed!TypeOK
<1>10. Fed!ServedIsPublished'
  <2>1. \A u \in Uploaders : up'[u].at = "idle"
    BY <1>2 DEF Fed!NoUpload
  <2>2. QED
    BY <1>1, <1>2, <1>5, <2>1 DEF Fed!ServedIsPublished
<1>11. (Fed!Past(local) /\ Fed!Whole(local))'
  <2>1. local.life \in Nat /\ local.life <= life
    BY <1>1, FedInvIs DEF Fed!TypeOK, Fed!Download, Fed!Past
  <2>2. QED
    BY <1>1, <1>2, <2>1, FedInvIs DEF Fed!Past, Fed!Whole, Fed!ModelOf
<1>12. ASSUME NEW a \in Fed!Actors PROVE FedGood(act[a])'
  <2>1. FedGood(act[a])
    BY FedInvIs
  <2>2. CASE act[a].at = "weights"
    <3>1. act'[a] = Fed!Resting
      BY <2>2 DEF Fed!Restart
    <3>2. QED
      BY <3>1 DEF FedGood, Fed!Resting
  <2>3. CASE act[a].at # "weights"
    <3>1. act'[a] = act[a]
      BY <2>3 DEF Fed!Restart
    <3>2. act[a].got.life \in Nat
      BY <1>1 DEF Fed!Act, Fed!Download
    <3>3. CASE act[a].at = "install"
      <4>1. act[a].got.life <= life
        BY <2>1, <3>3 DEF FedGood, Fed!Past
      <4>2. (Fed!Past(act[a].got) /\ Fed!Whole(act[a].got))'
        BY <1>1, <1>2, <2>1, <3>1, <3>2, <3>3, <4>1 DEF FedGood, Fed!Past, Fed!Whole, Fed!ModelOf
      <4>3. QED
        BY <1>2, <2>1, <3>1, <3>3, <4>2 DEF FedGood
    <3>4. CASE act[a].at # "install"
      BY <2>3, <3>1, <3>4 DEF FedGood
    <3>5. QED
      BY <3>3, <3>4
  <2>4. QED
    BY <2>2, <2>3
<1>13. QED
  BY <1>9, <1>10, <1>11, <1>12, FedInvThen

\* What is installed was good, and whoever else downloads is overtaken from now on.
LEMMA FedInstall ==
  ASSUME Fed!FedInv, NEW a \in Fed!Actors, Fed!Install(a)
  PROVE  Fed!FedInv'
<1>1. /\ Fed!TypeOK /\ Fed!ServedIsPublished /\ act \in [Fed!Actors -> Fed!Act]
      /\ act[a].at = "install" /\ local' = act[a].got /\ act[a].got \in Fed!Download
  BY FedInvIs DEF Fed!TypeOK, Fed!Install, Fed!Installed, Fed!Act
<1>2. UNCHANGED <<served, waiting, up, saved, mixed, life, published>>
  BY DEF Fed!Install, Fed!aggregatorVars
<1>3. act'[a] = Fed!Resting
  BY DEF Fed!Install
<1>4. ASSUME NEW b \in Fed!Actors \ {a}
      PROVE  /\ act'[b] \in Fed!Act /\ act'[b].at = act[b].at /\ act'[b].got = act[b].got
             /\ (act[b].at \in {"weights", "install"} => act'[b].overtaken)
  <2>1. act'[b] = [act[b] EXCEPT !.overtaken = @ \/ act[b].at \in {"weights", "install"}]
    BY <1>4 DEF Fed!Install
  <2>2. act[b] \in Fed!Act
    BY <1>1, <1>4
  <2>3. QED
    BY <2>1, <2>2 DEF Fed!Act
<1>5. act' \in [Fed!Actors -> Fed!Act]
  <2>1. Fed!Resting \in Fed!Act
    BY DEF Fed!Resting, Fed!Act, Fed!Initial, Fed!Download
  <2>2. \A b \in Fed!Actors : act'[b] \in Fed!Act
    BY <1>3, <1>4, <2>1
  <2>3. act' = [b \in Fed!Actors |-> act'[b]]
    BY DEF Fed!Install
  <2>4. QED
    BY <2>2, <2>3
<1>6. Fed!TypeOK'
  BY <1>1, <1>2, <1>5 DEF Fed!TypeOK
<1>7. Fed!ServedIsPublished'
  BY <1>1, <1>2 DEF Fed!ServedIsPublished
<1>8. FedGood(act[a])
  BY FedInvIs
<1>9. (Fed!Past(local) /\ Fed!Whole(local))'
  BY <1>1, <1>2, <1>8 DEF FedGood, Fed!Past, Fed!Whole, Fed!ModelOf
<1>10. ASSUME NEW b \in Fed!Actors PROVE FedGood(act[b])'
  <2>1. CASE b = a
    BY <1>3, <2>1 DEF FedGood, Fed!Resting
  <2>2. CASE b # a
    <3>1. FedGood(act[b])
      BY FedInvIs
    <3>2. act'[b].at = act[b].at /\ act'[b].got = act[b].got
          /\ (act[b].at \in {"weights", "install"} => act'[b].overtaken)
      BY <1>4, <2>2
    <3>3. QED
      BY <1>2, <3>1, <3>2 DEF FedGood, Fed!Past, Fed!Whole, Fed!ModelOf
  <2>3. QED
    BY <2>1, <2>2
<1>11. QED
  BY <1>6, <1>7, <1>9, <1>10, FedInvThen

LEMMA FedInductive ==
  ASSUME Fed!NumbersAssumption, Fed!FedInv, [Fed!Next]_(Fed!vars)
  PROVE  Fed!FedInv'
<1>1. CASE UNCHANGED Fed!vars
  BY <1>1, FedUnseen, FedInvIs
     DEF Fed!vars, Fed!TypeOK, Fed!ServedIsPublished, Fed!Actors, Fed!Act, Fed!Download, Fed!Model, Fed!Uploader
<1>2. /\ served \in Fed!Model /\ local \in Fed!Download /\ act \in [Fed!Actors -> Fed!Act]
      /\ waiting \in 0 .. MaxPushes /\ life \in Nat /\ Fed!ServedIsPublished
      /\ Fed!Past(local) /\ Fed!Whole(local)
  BY FedInvIs DEF Fed!TypeOK
<1>3. ASSUME NEW a \in Fed!Actors, NEW d \in Fed!Act, d.at \notin {"weights", "install"} PROVE FedGood(d)
  BY <1>3 DEF FedGood
<1>4. ASSUME NEW a \in Fed!Actors, Fed!Copy(a) PROVE Fed!FedInv'
  <2> DEFINE d == [act[a] EXCEPT !.at = "push"]
  <2>1. act[a] \in Fed!Act
    BY <1>2
  <2>2. d \in Fed!Act /\ d.at = "push"
    BY <2>1 DEF Fed!Act
  <2>3. act' = [act EXCEPT ![a] = d] /\ UNCHANGED <<served, up, saved, mixed, life, published, local, waiting>>
    BY <1>4 DEF Fed!Copy, Fed!aggregatorVars
  <2> HIDE DEF d
  <2>4. FedGood(d)
    BY <1>3, <2>2
  <2>5. QED
    BY <1>2, <2>2, <2>3, <2>4, FedMoved
<1>5. ASSUME NEW a \in Fed!Actors, Fed!Push(a) PROVE Fed!FedInv'
  <2> DEFINE d == [act[a] EXCEPT !.at = "fetch"]
  <2>1. act[a] \in Fed!Act
    BY <1>2
  <2>2. d \in Fed!Act /\ d.at = "fetch"
    BY <2>1 DEF Fed!Act
  <2>3. act' = [act EXCEPT ![a] = d] /\ UNCHANGED <<served, up, saved, mixed, life, published, local>>
    BY <1>5 DEF Fed!Push
  <2>4. waiting' \in 0 .. MaxPushes
    <3>1. waiting' = waiting \/ (waiting < MaxPushes /\ waiting' = waiting + 1)
      BY <1>5 DEF Fed!Push
    <3>2. MaxPushes \in Nat
      BY DEF Fed!NumbersAssumption
    <3>3. QED
      BY <1>2, <3>1, <3>2
  <2> HIDE DEF d
  <2>5. FedGood(d)
    BY <1>3, <2>2
  <2>6. QED
    BY <2>2, <2>3, <2>4, <2>5, FedMoved
<1>6. ASSUME NEW a \in Fed!Actors, Fed!ReadVersion(a) PROVE Fed!FedInv'
  <2> DEFINE half == \E u \in Uploaders : up[u].at = "set"
             g == [version |-> served.version, weights |-> 0, life |-> life, torn |-> half]
             d == [at |-> "weights", overtaken |-> FALSE, got |-> g]
  <2>1. g \in Fed!Download
    BY <1>2 DEF Fed!Download, Fed!Model
  <2>2. d \in Fed!Act
    BY <2>1 DEF Fed!Act
  <2>3. act' = [act EXCEPT ![a] = d] /\ UNCHANGED <<served, up, saved, mixed, life, published, local, waiting>>
    BY <1>6 DEF Fed!ReadVersion, Fed!aggregatorVars
  <2>4. FedGood(d)
    <3>1. served.version \in Nat
      BY <1>2 DEF Fed!Model
    <3>2. local.life = life => local.version <= served.version
      BY <1>2 DEF Fed!Past
    <3>3. QED
      BY <3>1, <3>2 DEF FedGood
  <2> HIDE DEF d
  <2>5. QED
    BY <1>2, <2>2, <2>3, <2>4, FedMoved
<1>7. ASSUME NEW a \in Fed!Actors, Fed!ReadWeights(a) PROVE Fed!FedInv'
  <2> DEFINE d == [act[a] EXCEPT !.at = "install", !.got.weights = served.weights]
  <2>1. act[a] \in Fed!Act /\ FedGood(act[a]) /\ act[a].at = "weights"
    BY <1>2, <1>7, FedInvIs DEF Fed!ReadWeights
  <2>2. served.weights \in Nat /\ served.version \in Nat /\ served = [version |-> served.version, weights |-> served.weights]
    BY <1>2 DEF Fed!Model
  <2>3. /\ d \in Fed!Act /\ d.at = "install" /\ d.overtaken = act[a].overtaken
        /\ d.got.weights = served.weights /\ d.got.version = act[a].got.version /\ d.got.life = act[a].got.life
        /\ d.got.torn = act[a].got.torn /\ d.got.version \in Nat
    BY <2>1, <2>2 DEF Fed!Act, Fed!Download
  <2>4. act' = [act EXCEPT ![a] = d] /\ UNCHANGED <<served, up, saved, mixed, life, published, local, waiting>>
    <3>1. act' = [act EXCEPT ![a].at = "install", ![a].got.weights = served.weights]
      BY <1>7 DEF Fed!ReadWeights
    <3>2. act' = [act EXCEPT ![a] = d]
      BY <1>2, <3>1
    <3>3. QED
      BY <1>7, <3>2 DEF Fed!ReadWeights, Fed!aggregatorVars
  <2> HIDE DEF d
  <2>5. Fed!Past(d.got)
    BY <1>2, <2>1, <2>2, <2>3 DEF FedGood, Fed!Past
  <2>6. Fed!Whole(d.got)
    <3>1. SUFFICES ASSUME ~d.got.torn PROVE Fed!ModelOf(d.got) \in published
      BY DEF Fed!Whole
    <3>2. d.got.version = served.version /\ \A u \in Uploaders : up[u].at # "set"
      BY <2>1, <2>3, <3>1 DEF FedGood
    <3>3. served \in published
      BY <1>2, <3>2 DEF Fed!ServedIsPublished
    <3>4. Fed!ModelOf(d.got) = served
      BY <2>2, <2>3, <3>2 DEF Fed!ModelOf
    <3>5. QED
      BY <3>3, <3>4
  <2>7. ~d.overtaken /\ d.got.life = local.life =>
          d.got.version >= local.version /\ d.got.weights >= local.weights
    <3>1. local.version \in Nat /\ local.weights \in Nat
      BY <1>2 DEF Fed!Download
    <3>2. QED
      BY <1>2, <2>1, <2>2, <2>3, <3>1 DEF FedGood, Fed!Past
  <2>8. FedGood(d)
    BY <2>3, <2>5, <2>6, <2>7 DEF FedGood
  <2>9. QED
    BY <1>2, <2>3, <2>4, <2>8, FedMoved
<1>8. ASSUME NEW a \in Fed!Actors, Fed!NoResponse(a) PROVE Fed!FedInv'
  <2>1. Fed!Resting \in Fed!Act /\ FedGood(Fed!Resting)
    BY DEF Fed!Resting, Fed!Act, Fed!Initial, Fed!Download, FedGood
  <2>2. act' = [act EXCEPT ![a] = Fed!Resting] /\ UNCHANGED <<served, up, saved, mixed, life, published, local, waiting>>
    BY <1>8 DEF Fed!NoResponse, Fed!aggregatorVars
  <2>3. QED
    BY <1>2, <2>1, <2>2, FedMoved
<1>9. QED
  BY <1>1, <1>4, <1>5, <1>6, <1>7, <1>8, FedAggregate, FedRestart, FedInstall DEF Fed!Next, Fed!Train

\* For any number of threads on either side: the edge has what the aggregator
\* set or saved as one model, or read across an aggregation, and goes back to an
\* older one only when it was overtaken or the aggregator began anew.
THEOREM ModelsComeInOrder == Spec => []ModelsInOrder
<1>1. Fed!NumbersAssumption
  BY PartsAssumption DEF PartsAssumption
<1>2. Init => Fed!FedInv
  BY <1>1, FedInitHolds DEF Init, FedInit
<1>3. Fed!FedInv /\ [Next]_vars => Fed!FedInv'
  BY <1>1, PartSteps, FedInductive
<1>4. Fed!FedInv => ModelsInOrder
  BY FedInvIs DEF Fed!FedInv, Fed!Whole, ModelsInOrder, Fed!ModelsInOrder
<1>5. QED
  BY <1>2, <1>3, <1>4, PTL DEF Spec

-----------------------------------------------------------------------------
(***************************************************************************)
(* AuthAccounts.                                                           *)
(***************************************************************************)

\* What a request that has read the row knows and still holds, whatever other
\* requests commit meanwhile: a row once there stays, a code once held was held.
AuthHolds(q) ==
  /\ q.at = "accept" => user.exists /\ q.code \in signed.held
  /\ q.at = "replace" => user.exists /\ q.code \in Auth!Codes
  /\ q.at = "insert" => q.code \in Auth!Codes

\* The code of the row is on its way: a request carries it, or will read it.
AuthCarries(q) == q.at = "reread" \/ (q.at = "mail" /\ q.code = user.code)
AuthOnItsWay == \E r \in Requests : AuthCarries(signUp[r])

AuthTold(m) == m.sent \cup m.answered \cup m.lost

AuthMails == [sent : SUBSET Auth!Codes, answered : SUBSET Auth!Codes, lost : SUBSET Auth!Codes]
AuthSigns == [held : SUBSET Auth!Codes, codes : SUBSET Auth!Codes, login : BOOLEAN]

AuthShapes ==
  /\ keys \in [created : 0 .. MaxKeys, active : SUBSET (1 .. MaxKeys)]
  /\ user.code \in signed.held \cup {Auth!NoCode}

AuthCodes ==
  user.exists /\ ~user.verified =>
    /\ user.code \in Auth!Codes
    /\ user.code \in AuthTold(mail) \/ AuthOnItsWay

AuthInv ==
  /\ Auth!TypeOK
  /\ AuthShapes
  /\ Auth!AccountIsWhole
  /\ ~user.exists => ~user.verified
  /\ signed.login => user.active
  /\ \A r \in Requests : AuthHolds(signUp[r])
  /\ AuthCodes

LEMMA AuthInitHolds ==
  ASSUME Auth!NumbersAssumption, Auth!Init
  PROVE  AuthInv
<1>1. MaxCodes \in Nat /\ MaxKeys \in Nat
  BY DEF Auth!NumbersAssumption
<1>2. ~user.exists /\ ~user.active /\ ~user.verified /\ user.code = 0 /\ user \in Auth!User
  BY <1>1 DEF Auth!Init, Auth!NoUser, Auth!User, Auth!NoCode
<1>3. signed.codes = {} /\ signed.login = FALSE /\ signed \in AuthSigns /\ mail \in AuthMails
  BY DEF Auth!Init, AuthSigns, AuthMails
<1>4. keys.created = 0 /\ keys.active = {}
  BY DEF Auth!Init
<1>5. AuthShapes
  BY <1>1, <1>2 DEF Auth!Init, AuthShapes, Auth!NoCode
<1>6. signUp \in [Requests -> Auth!Request] /\ \A r \in Requests : signUp[r].at = "idle"
  BY DEF Auth!Init, Auth!Idle, Auth!Request, Auth!NoCode
<1>7. Auth!TypeOK
  BY <1>1, <1>2, <1>3, <1>4, <1>6 DEF Auth!Init, Auth!TypeOK, AuthSigns, AuthMails
<1>8. Auth!AccountIsWhole
  <2>1. orgs = 0
    BY DEF Auth!Init
  <2>2. QED
    BY <1>2, <1>3, <1>4, <2>1 DEF Auth!AccountIsWhole
<1>9. \A r \in Requests : AuthHolds(signUp[r])
  BY <1>6 DEF AuthHolds
<1>10. QED
  BY <1>2, <1>3, <1>5, <1>7, <1>8, <1>9 DEF AuthInv, AuthCodes

\* A step of a request that does not commit and has no mail to send.
LEMMA AuthMoved ==
  ASSUME AuthInv, NEW r \in Requests, NEW q \in Auth!Request, AuthHolds(q), signUp[r].at \notin {"reread", "mail"},
         signUp' = [signUp EXCEPT ![r] = q], codes' \in 0 .. MaxCodes, UNCHANGED <<user, orgs, keys, mail, signed>>
  PROVE  AuthInv'
<1>1. signUp' \in [Requests -> Auth!Request] /\ signUp'[r] = q /\ \A b \in Requests : b # r => signUp'[b] = signUp[b]
  BY DEF AuthInv, Auth!TypeOK
<1>2. Auth!TypeOK'
  BY <1>1 DEF AuthInv, Auth!TypeOK, Auth!User, Auth!Request, Auth!Codes
<1>3. AuthShapes' /\ Auth!AccountIsWhole' /\ (~user.exists => ~user.verified)' /\ (signed.login => user.active)'
  BY DEF AuthInv, AuthShapes, Auth!Codes, Auth!NoCode, Auth!AccountIsWhole
<1>4. ASSUME NEW b \in Requests
      PROVE  AuthHolds(signUp[b])'
  <2>1. AuthHolds(signUp'[b])
    BY <1>1 DEF AuthInv
  <2>2. QED
    BY <2>1 DEF AuthHolds, Auth!Codes
<1>5. AuthOnItsWay => AuthOnItsWay'
  BY <1>1 DEF AuthOnItsWay, AuthCarries
<1>6. AuthCodes'
  BY <1>5 DEF AuthInv, AuthCodes, AuthTold, Auth!Codes
<1>7. QED
  BY <1>2, <1>3, <1>4, <1>6 DEF AuthInv

LEMMA AuthRegister ==
  ASSUME Auth!NumbersAssumption, AuthInv, NEW r \in Requests, Auth!Register(r) \/ Auth!Resend(r)
  PROVE  AuthInv'
<1>1. MaxCodes \in Nat /\ codes \in 0 .. MaxCodes
  BY DEF Auth!NumbersAssumption, AuthInv, Auth!TypeOK
<1>2. codes' = codes + 1 /\ codes' \in 1 .. MaxCodes
  BY <1>1 DEF Auth!Register, Auth!Resend, Auth!NewCode
<1>3. UNCHANGED <<user, orgs, keys, mail, signed>> /\ signUp[r].at = "idle"
  BY DEF Auth!Register, Auth!Resend
<1>4. PICK q \in {[at |-> "insert", code |-> codes'], [at |-> "replace", code |-> codes']} :
        signUp' = [signUp EXCEPT ![r] = q] /\ (q.at = "replace" => user.exists)
  BY DEF Auth!Register, Auth!Resend, Auth!Goto
<1>5. q \in Auth!Request /\ q.code \in Auth!Codes /\ q.at # "accept"
  BY <1>2, <1>4 DEF Auth!Request, Auth!Codes
<1>6. AuthHolds(q)
  BY <1>4, <1>5 DEF AuthHolds
<1>7. codes' \in 0 .. MaxCodes
  BY <1>2
<1>8. QED
  BY <1>3, <1>4, <1>5, <1>6, <1>7, AuthMoved

LEMMA AuthVerify ==
  ASSUME AuthInv, NEW r \in Requests, NEW c \in Auth!Codes, Auth!Verify(r, c)
  PROVE  AuthInv'
<1> DEFINE q == [at |-> "accept", code |-> c]
<1>1. q \in Auth!Request
  BY DEF Auth!Request
<1>2. AuthHolds(q)
  <2>1. user.exists /\ user.code = c
    BY DEF Auth!Verify, Auth!Good
  <2>2. c \in signed.held
    BY <2>1 DEF AuthInv, AuthShapes, Auth!Codes, Auth!NoCode
  <2>3. QED
    BY <2>1, <2>2 DEF AuthHolds
<1>3. UNCHANGED <<user, orgs, keys, mail, signed>> /\ signUp[r].at = "idle" /\ codes' = codes
  BY DEF Auth!Verify
<1>4. signUp' = [signUp EXCEPT ![r] = q]
  BY DEF Auth!Verify, Auth!Goto
<1>5. codes' \in 0 .. MaxCodes
  BY <1>3 DEF AuthInv, Auth!TypeOK
<1> HIDE DEF q
<1>6. QED
  BY <1>1, <1>2, <1>3, <1>4, <1>5, AuthMoved

\* The history of the codes, a code more held or accepted.
LEMMA AuthSignsUpdate ==
  ASSUME NEW x \in AuthSigns, NEW c \in Auth!Codes
  PROVE  LET held == [x EXCEPT !.held = @ \cup {c}]
             took == [x EXCEPT !.codes = @ \cup {c}]
         IN  /\ held \in AuthSigns /\ held.held = x.held \cup {c} /\ held.codes = x.codes /\ held.login = x.login
             /\ took \in AuthSigns /\ took.held = x.held /\ took.codes = x.codes \cup {c} /\ took.login = x.login
  BY DEF AuthSigns

\* The first of several registrations makes the account, the others find it.
LEMMA AuthInsert ==
  ASSUME AuthInv, NEW r \in Requests, Auth!Insert(r)
  PROVE  AuthInv'
<1>1. /\ signUp \in [Requests -> Auth!Request] /\ signUp[r].at = "insert" /\ signUp[r].code \in Auth!Codes
      /\ codes' = codes /\ codes \in 0 .. MaxCodes /\ UNCHANGED <<keys, mail>>
  BY DEF AuthInv, Auth!TypeOK, Auth!Insert, AuthHolds
<1>2. CASE user.exists
  <2>1. Auth!Idle \in Auth!Request /\ AuthHolds(Auth!Idle)
    BY DEF Auth!Idle, Auth!Request, Auth!NoCode, AuthHolds
  <2>2. orgs' = orgs /\ user' = user /\ signed' = signed /\ signUp' = [signUp EXCEPT ![r] = Auth!Idle]
    BY <1>2 DEF Auth!Insert, Auth!OrgWithUser, Auth!Goto, Auth!Idle
  <2>3. QED
    BY <1>1, <2>1, <2>2, AuthMoved
<1>3. CASE ~user.exists
  <2> DEFINE q == [at |-> "mail", code |-> signUp[r].code]
  <2>1. orgs' = orgs + 1 /\ orgs = 0
    BY <1>3 DEF Auth!Insert, Auth!OrgWithUser, AuthInv, Auth!AccountIsWhole
  <2>2. /\ user' = [Auth!NoUser EXCEPT !.exists = TRUE, !.code = signUp[r].code] /\ signUp' = [signUp EXCEPT ![r] = q]
        /\ signed' = [signed EXCEPT !.held = @ \cup {signUp[r].code}]
    BY <1>3 DEF Auth!Insert, Auth!Goto
  <2>3. /\ user' \in Auth!User /\ user'.exists /\ ~user'.active /\ ~user'.verified /\ user'.code = signUp[r].code
        /\ user'.code \in Auth!Codes
    BY <1>1, <2>2 DEF Auth!User, Auth!NoUser
  <2>4. q \in Auth!Request /\ q.at = "mail" /\ q.code = user'.code
    BY <1>1, <2>3 DEF Auth!Request
  <2> HIDE DEF q
  <2>5. /\ signUp' \in [Requests -> Auth!Request] /\ signUp'[r] = q
        /\ \A b \in Requests : b # r => signUp'[b] = signUp[b]
    BY <1>1, <2>2, <2>4
  <2>6. /\ signed' \in AuthSigns /\ signed'.held = signed.held \cup {signUp[r].code}
        /\ signed'.codes = signed.codes /\ signed'.login = signed.login
    <3>1. signed \in AuthSigns
      BY DEF AuthInv, Auth!TypeOK, AuthSigns
    <3>2. QED
      BY <1>1, <2>2, <3>1, AuthSignsUpdate
  <2>7. Auth!TypeOK'
    BY <1>1, <2>1, <2>3, <2>5, <2>6 DEF AuthInv, AuthSigns, Auth!TypeOK, Auth!User, Auth!Request, Auth!Codes
  <2>8. AuthShapes'
    BY <1>1, <2>3, <2>6 DEF AuthInv, AuthShapes, Auth!Codes
  <2>9. ~user.active /\ ~user.verified /\ signed.codes = {} /\ ~signed.login /\ ~(keys.created > 0)
    BY <1>3 DEF AuthInv, Auth!AccountIsWhole
  <2>10. Auth!AccountIsWhole' /\ (signed.login => user.active)' /\ (~user.exists => ~user.verified)'
    BY <1>1, <2>1, <2>3, <2>6, <2>9 DEF Auth!AccountIsWhole
  <2>11. ASSUME NEW b \in Requests
         PROVE  AuthHolds(signUp[b])'
    <3>1. CASE b = r
      BY <2>4, <2>5, <3>1 DEF AuthHolds
    <3>2. CASE b # r
      <4>1. AuthHolds(signUp'[b])
        BY <2>5, <3>2 DEF AuthInv
      <4>2. QED
        BY <1>1, <2>3, <2>6, <4>1 DEF AuthHolds, Auth!Codes
    <3>3. QED
      BY <3>1, <3>2
  <2>12. AuthOnItsWay'
    BY <2>4, <2>5 DEF AuthOnItsWay, AuthCarries
  <2>13. QED
    BY <2>3, <2>7, <2>8, <2>10, <2>11, <2>12 DEF AuthInv, AuthCodes, Auth!Codes
<1>4. QED
  BY <1>2, <1>3

\* The code that a request carries is told, or its delivery failed.
LEMMA AuthSendMail ==
  ASSUME Auth!SettingsAssumption, AuthInv, NEW r \in Requests, Auth!SendMail(r)
  PROVE  AuthInv'
<1> DEFINE c == {signUp[r].code} \ {Auth!NoCode}
<1>1. /\ signUp \in [Requests -> Auth!Request] /\ signUp[r].at = "mail"
      /\ UNCHANGED <<user, orgs, keys, codes, signed>> /\ signUp' = [signUp EXCEPT ![r] = Auth!Idle]
  BY DEF AuthInv, Auth!TypeOK, Auth!SendMail, Auth!Goto, Auth!Idle
<1>2. Auth!Idle \in Auth!Request /\ Auth!Idle.at = "idle"
  BY DEF Auth!Idle, Auth!Request, Auth!NoCode
<1>3. /\ signUp' \in [Requests -> Auth!Request] /\ signUp'[r] = Auth!Idle
      /\ \A b \in Requests : b # r => signUp'[b] = signUp[b]
  BY <1>1, <1>2
<1>4. c \in SUBSET Auth!Codes
  BY <1>1 DEF Auth!Request
<1>5. mail \in AuthMails
  BY DEF AuthInv, Auth!TypeOK, AuthMails
<1>6. PICK setting \in Settings : Auth!Deliver(setting, c)
  BY DEF Auth!SendMail
<1>7. mail' \in AuthMails /\ AuthTold(mail') = AuthTold(mail) \cup c
  <2>1. \A x \in AuthMails, y \in SUBSET Auth!Codes :
          /\ [x EXCEPT !.sent = @ \cup y] \in AuthMails /\ AuthTold([x EXCEPT !.sent = @ \cup y]) = AuthTold(x) \cup y
          /\ [x EXCEPT !.answered = @ \cup y] \in AuthMails /\ AuthTold([x EXCEPT !.answered = @ \cup y]) = AuthTold(x) \cup y
          /\ [x EXCEPT !.lost = @ \cup y] \in AuthMails /\ AuthTold([x EXCEPT !.lost = @ \cup y]) = AuthTold(x) \cup y
    BY DEF AuthMails, AuthTold
  <2> HIDE DEF c
  <2>2. \/ mail' = [mail EXCEPT !.sent = @ \cup c]
        \/ mail' = [mail EXCEPT !.answered = @ \cup c]
        \/ mail' = [mail EXCEPT !.lost = @ \cup c]
    BY <1>6 DEF Auth!Deliver
  <2>3. QED
    BY <1>4, <1>5, <2>1, <2>2
<1>8. Auth!TypeOK'
  BY <1>1, <1>3, <1>7 DEF AuthInv, AuthMails, Auth!TypeOK, Auth!User, Auth!Request, Auth!Codes
<1>9. AuthShapes'
  BY <1>1 DEF AuthInv, AuthShapes, Auth!Codes, Auth!NoCode
<1>10. Auth!AccountIsWhole' /\ (signed.login => user.active)' /\ (~user.exists => ~user.verified)'
  BY <1>1 DEF AuthInv, Auth!AccountIsWhole
<1>11. ASSUME NEW b \in Requests
       PROVE  AuthHolds(signUp[b])'
  <2>1. CASE b = r
    BY <1>2, <1>3, <2>1 DEF AuthHolds
  <2>2. CASE b # r
    <3>1. AuthHolds(signUp'[b])
      BY <1>3, <2>2 DEF AuthInv
    <3>2. QED
      BY <1>1, <3>1 DEF AuthHolds, Auth!Codes
  <2>3. QED
    BY <2>1, <2>2
<1>12. ASSUME user.exists, ~user.verified
       PROVE  user.code \in AuthTold(mail') \/ AuthOnItsWay'
  <2>1. user.code \in Auth!Codes /\ user.code # Auth!NoCode /\ (user.code \in AuthTold(mail) \/ AuthOnItsWay)
    BY <1>12 DEF AuthInv, AuthCodes, Auth!Codes, Auth!NoCode
  <2>2. CASE user.code \in AuthTold(mail)
    BY <1>7, <2>2
  <2>3. CASE signUp[r].code = user.code
    BY <1>7, <2>1, <2>3
  <2>4. CASE signUp[r].code # user.code /\ AuthOnItsWay
    <3>1. PICK b \in Requests : AuthCarries(signUp[b])
      BY <2>4 DEF AuthOnItsWay
    <3>2. b # r
      BY <1>1, <2>4, <3>1 DEF AuthCarries
    <3>3. signUp'[b] = signUp[b]
      BY <1>3, <3>2
    <3>4. QED
      BY <1>1, <3>1, <3>3 DEF AuthOnItsWay, AuthCarries
  <2>5. QED
    BY <2>1, <2>2, <2>3, <2>4
<1>13. AuthCodes'
  BY <1>1, <1>12 DEF AuthInv, AuthCodes, Auth!Codes
<1>14. QED
  BY <1>8, <1>9, <1>10, <1>11, <1>13 DEF AuthInv

LEMMA AuthAccept ==
  ASSUME AuthInv, NEW r \in Requests, Auth!Accept(r)
  PROVE  AuthInv'
<1>1. /\ signUp \in [Requests -> Auth!Request] /\ signUp[r].at = "accept" /\ signUp[r].code \in signed.held /\ user.exists
      /\ UNCHANGED <<orgs, keys, codes, mail>> /\ signUp' = [signUp EXCEPT ![r] = Auth!Idle]
  BY DEF AuthInv, Auth!TypeOK, AuthHolds, Auth!Accept, Auth!Goto, Auth!Idle
<1>2. Auth!Idle \in Auth!Request /\ Auth!Idle.at = "idle"
  BY DEF Auth!Idle, Auth!Request, Auth!NoCode
<1>3. /\ signUp' \in [Requests -> Auth!Request] /\ signUp'[r] = Auth!Idle
      /\ \A b \in Requests : b # r => signUp'[b] = signUp[b]
  BY <1>1, <1>2
<1>4. user \in Auth!User /\ signed \in AuthSigns /\ signUp[r].code \in Auth!Codes
  BY <1>1 DEF AuthInv, Auth!TypeOK, AuthSigns
<1>5. user' \in Auth!User /\ user'.exists = user.exists /\ user'.verified = TRUE /\ user'.active = TRUE
      /\ user'.code = Auth!NoCode
  BY <1>4 DEF Auth!Accept, Auth!Accepted, Auth!User
<1>6. /\ signed' \in AuthSigns /\ signed'.held = signed.held
      /\ signed'.codes = signed.codes \cup {signUp[r].code} /\ signed'.login = signed.login
  BY <1>4, AuthSignsUpdate DEF Auth!Accept
<1>7. signed' \in AuthSigns
  BY <1>6
<1>8. Auth!TypeOK'
  BY <1>1, <1>3, <1>5, <1>7 DEF AuthInv, AuthSigns, Auth!TypeOK, Auth!User, Auth!Request, Auth!Codes
<1>9. AuthShapes'
  BY <1>1, <1>5, <1>6 DEF AuthInv, AuthShapes, Auth!Codes
<1>10. orgs = 1 /\ signed.codes \subseteq signed.held
  BY <1>1 DEF AuthInv, Auth!AccountIsWhole
<1>11. Auth!AccountIsWhole' /\ (signed.login => user.active)' /\ (~user.exists => ~user.verified)'
  BY <1>1, <1>5, <1>6, <1>10 DEF Auth!AccountIsWhole
<1>12. ASSUME NEW b \in Requests
       PROVE  AuthHolds(signUp[b])'
  <2>1. CASE b = r
    BY <1>2, <1>3, <2>1 DEF AuthHolds
  <2>2. CASE b # r
    <3>1. AuthHolds(signUp'[b])
      BY <1>3, <2>2 DEF AuthInv
    <3>2. QED
      BY <1>1, <1>5, <1>6, <3>1 DEF AuthHolds, Auth!Codes
  <2>3. QED
    BY <2>1, <2>2
<1>13. QED
  BY <1>5, <1>8, <1>9, <1>11, <1>12 DEF AuthInv, AuthCodes

LEMMA AuthReplace ==
  ASSUME AuthInv, NEW r \in Requests, Auth!Replace(r)
  PROVE  AuthInv'
<1> DEFINE q == [at |-> "reread", code |-> Auth!NoCode]
<1>1. /\ signUp \in [Requests -> Auth!Request] /\ signUp[r].code \in Auth!Codes /\ user.exists
      /\ UNCHANGED <<orgs, keys, codes, mail>> /\ signUp' = [signUp EXCEPT ![r] = q]
  BY DEF AuthInv, Auth!TypeOK, AuthHolds, Auth!Replace, Auth!Goto
<1>2. q \in Auth!Request /\ q.at = "reread" /\ q.code = Auth!NoCode
  BY DEF Auth!Request
<1> HIDE DEF q
<1>3. signUp' \in [Requests -> Auth!Request] /\ signUp'[r] = q /\ \A b \in Requests : b # r => signUp'[b] = signUp[b]
  BY <1>1, <1>2
<1>4. user \in Auth!User /\ signed \in AuthSigns
  BY DEF AuthInv, Auth!TypeOK, AuthSigns
<1>5. /\ user' \in Auth!User /\ user'.exists = user.exists /\ user'.verified = user.verified
      /\ user'.active = user.active /\ user'.code = signUp[r].code
  BY <1>1, <1>4 DEF Auth!Replace, Auth!WithCode, Auth!User
<1>6. /\ signed' \in AuthSigns /\ signed'.held = signed.held \cup {signUp[r].code}
      /\ signed'.codes = signed.codes /\ signed'.login = signed.login
  BY <1>1, <1>4, AuthSignsUpdate DEF Auth!Replace
<1>7. Auth!TypeOK'
  BY <1>1, <1>3, <1>5, <1>6 DEF AuthInv, AuthSigns, Auth!TypeOK, Auth!User, Auth!Request, Auth!Codes
<1>8. AuthShapes'
  BY <1>1, <1>5, <1>6 DEF AuthInv, AuthShapes, Auth!Codes
<1>9. Auth!AccountIsWhole' /\ (signed.login => user.active)' /\ (~user.exists => ~user.verified)'
  BY <1>1, <1>5, <1>6 DEF AuthInv, Auth!AccountIsWhole
<1>10. ASSUME NEW b \in Requests
       PROVE  AuthHolds(signUp[b])'
  <2>1. CASE b = r
    BY <1>2, <1>3, <2>1 DEF AuthHolds
  <2>2. CASE b # r
    <3>1. AuthHolds(signUp'[b])
      BY <1>3, <2>2 DEF AuthInv
    <3>2. QED
      BY <1>1, <1>5, <1>6, <3>1 DEF AuthHolds, Auth!Codes
  <2>3. QED
    BY <2>1, <2>2
<1>11. AuthOnItsWay'
  BY <1>2, <1>3 DEF AuthOnItsWay, AuthCarries
<1>12. QED
  BY <1>1, <1>5, <1>7, <1>8, <1>9, <1>10, <1>11 DEF AuthInv, AuthCodes, Auth!Codes

\* The request now carries what the row has.
LEMMA AuthReread ==
  ASSUME AuthInv, NEW r \in Requests, Auth!Reread(r)
  PROVE  AuthInv'
<1> DEFINE q == [at |-> "mail", code |-> user.code]
<1>1. /\ signUp \in [Requests -> Auth!Request] /\ user \in Auth!User
      /\ UNCHANGED <<user, orgs, keys, codes, mail, signed>> /\ signUp' = [signUp EXCEPT ![r] = q]
  BY DEF AuthInv, Auth!TypeOK, Auth!Reread, Auth!Goto, Auth!RowCode
<1>2. q \in Auth!Request /\ q.at = "mail" /\ q.code = user.code
  BY <1>1 DEF Auth!Request, Auth!User
<1> HIDE DEF q
<1>3. signUp' \in [Requests -> Auth!Request] /\ signUp'[r] = q /\ \A b \in Requests : b # r => signUp'[b] = signUp[b]
  BY <1>1, <1>2
<1>4. Auth!TypeOK'
  BY <1>1, <1>3 DEF AuthInv, Auth!TypeOK, Auth!User, Auth!Request, Auth!Codes
<1>5. AuthShapes' /\ Auth!AccountIsWhole' /\ (~user.exists => ~user.verified)' /\ (signed.login => user.active)'
  BY <1>1 DEF AuthInv, AuthShapes, Auth!Codes, Auth!NoCode, Auth!AccountIsWhole
<1>6. ASSUME NEW b \in Requests
      PROVE  AuthHolds(signUp[b])'
  <2>1. AuthHolds(signUp'[b])
    BY <1>2, <1>3 DEF AuthInv, AuthHolds
  <2>2. QED
    BY <1>1, <2>1 DEF AuthHolds, Auth!Codes
<1>7. AuthOnItsWay'
  BY <1>1, <1>2, <1>3 DEF AuthOnItsWay, AuthCarries
<1>8. AuthCodes'
  BY <1>1, <1>7 DEF AuthInv, AuthCodes, Auth!Codes
<1>9. QED
  BY <1>4, <1>5, <1>6, <1>8 DEF AuthInv

\* Neither time nor a login nor a key touches what the requests know.
LEMMA AuthRowSteps ==
  ASSUME Auth!NumbersAssumption, AuthInv,
         \/ Auth!Expire \/ Auth!Login \/ Auth!CreateKey \/ \E k \in 1 .. MaxKeys : Auth!RevokeKey(k)
         \/ UNCHANGED Auth!vars
  PROVE  AuthInv'
<1>1. MaxCodes \in Nat /\ MaxKeys \in Nat
  BY DEF Auth!NumbersAssumption
<1>2. /\ user \in Auth!User /\ signed \in AuthSigns
      /\ keys \in [created : 0 .. MaxKeys, active : SUBSET (1 .. MaxKeys)] /\ keys.active \subseteq 1 .. keys.created
  BY DEF AuthInv, AuthShapes, AuthSigns, Auth!TypeOK
<1>3. UNCHANGED <<orgs, codes, mail, signUp>>
  BY DEF Auth!Expire, Auth!Login, Auth!CreateKey, Auth!RevokeKey, Auth!vars
<1>4. user' \in Auth!User /\ user'.exists = user.exists /\ user'.code = user.code
  BY <1>2 DEF Auth!Expire, Auth!Login, Auth!CreateKey, Auth!RevokeKey, Auth!vars, Auth!User
<1>5. user'.verified = user.verified /\ user'.active = user.active
  BY <1>2 DEF Auth!Expire, Auth!Login, Auth!CreateKey, Auth!RevokeKey, Auth!vars, Auth!User
<1>6. signed' \in AuthSigns /\ signed'.codes = signed.codes /\ signed'.held = signed.held
  BY <1>2 DEF AuthSigns, Auth!Expire, Auth!Login, Auth!CreateKey, Auth!RevokeKey, Auth!vars
<1>7. signed'.login => signed.login \/ user.active
  BY <1>2 DEF AuthSigns, Auth!Expire, Auth!Login, Auth!CreateKey, Auth!RevokeKey, Auth!vars
<1>8. /\ keys' \in [created : 0 .. MaxKeys, active : SUBSET (1 .. MaxKeys)]
      /\ keys'.active \subseteq 1 .. keys'.created
      /\ keys'.created > 0 => keys.created > 0 \/ Auth!HasToken
  <2>1. CASE UNCHANGED keys
    BY <1>2, <2>1
  <2>2. CASE Auth!CreateKey
    BY <1>1, <1>2, <2>2 DEF Auth!CreateKey
  <2>3. ASSUME NEW k \in 1 .. MaxKeys, Auth!RevokeKey(k)
        PROVE  <1>8!:
    BY <1>2, <2>3 DEF Auth!RevokeKey
  <2>4. QED
    BY <2>1, <2>2, <2>3 DEF Auth!Expire, Auth!Login, Auth!vars
<1>9. Auth!TypeOK'
  <2>1. signed' \in AuthSigns /\ keys'.created \in 0 .. MaxKeys
    BY <1>6, <1>8
  <2>2. QED
    BY <1>3, <1>4, <1>8, <2>1 DEF AuthInv, AuthSigns, Auth!TypeOK, Auth!User, Auth!Request, Auth!Codes
<1>10. AuthShapes'
  BY <1>3, <1>4, <1>6, <1>8 DEF AuthInv, AuthShapes, Auth!Codes, Auth!NoCode
<1>11. Auth!HasToken => user.active
  BY DEF Auth!HasToken, AuthInv, Auth!AccountIsWhole
<1>12. (signed.login => user.active)' /\ (~user.exists => ~user.verified)'
  BY <1>4, <1>5, <1>7 DEF AuthInv
<1>13. Auth!AccountIsWhole'
  BY <1>3, <1>4, <1>5, <1>6, <1>8, <1>11 DEF AuthInv, Auth!AccountIsWhole
<1>14. ASSUME NEW b \in Requests
       PROVE  AuthHolds(signUp[b])'
  <2>1. AuthHolds(signUp'[b])
    BY <1>3 DEF AuthInv
  <2>2. QED
    BY <1>3, <1>4, <1>6, <2>1 DEF AuthHolds, Auth!Codes
<1>15. AuthCodes'
  BY <1>3, <1>4, <1>5 DEF AuthInv, AuthCodes, AuthTold, AuthOnItsWay, AuthCarries, Auth!Codes
<1>16. QED
  BY <1>9, <1>10, <1>12, <1>13, <1>14, <1>15 DEF AuthInv

LEMMA AuthInductive ==
  ASSUME Auth!NumbersAssumption, Auth!SettingsAssumption, AuthInv, [Auth!Next]_(Auth!vars)
  PROVE  AuthInv'
<1>1. ASSUME NEW r \in Requests, Auth!Register(r) \/ Auth!Resend(r) \/ Auth!Handle(r)
      PROVE  AuthInv'
  BY <1>1, AuthRegister, AuthInsert, AuthSendMail, AuthAccept, AuthReplace, AuthReread DEF Auth!Handle
<1>2. ASSUME NEW r \in Requests, NEW c \in Auth!Codes, Auth!Verify(r, c)
      PROVE  AuthInv'
  BY <1>2, AuthVerify
<1>3. QED
  BY <1>1, <1>2, AuthRowSteps DEF Auth!Next

LEMMA AuthInvHolds == Spec => []AuthInv
<1>1. Auth!NumbersAssumption /\ Auth!SettingsAssumption
  BY PartsAssumption DEF PartsAssumption
<1>2. Init => AuthInv
  BY <1>1, AuthInitHolds DEF Init, AuthInit
<1>3. AuthInv /\ [Next]_vars => AuthInv'
  BY <1>1, PartSteps, AuthInductive
<1>4. QED
  BY <1>2, <1>3, PTL DEF Spec

\* An address has one account and one organization, active exactly when a code
\* that its row has held was accepted, and only then keys: for any number of
\* requests, however they overlap, whatever a deployment has for mail.
THEOREM AccountsAreWhole == Spec => []AccountIsWhole
<1>1. AuthInv => AccountIsWhole
  BY DEF AuthInv, AccountIsWhole
<1>2. QED
  BY <1>1, AuthInvHolds, PTL

\* Between requests an account that is not verified has a code, and that very
\* code was mailed or answered, or its own delivery failed, whichever of several
\* resends came last and whatever became of the others.
THEOREM CodesArrive == Spec => []CodeCanArrive
<1>1. ASSUME AuthInv, Auth!Quiet
      PROVE  ~AuthOnItsWay
  BY <1>1 DEF Auth!Quiet, AuthOnItsWay, AuthCarries
<1>2. AuthInv => CodeCanArrive
  BY <1>1 DEF AuthInv, AuthCodes, AuthTold, CodeCanArrive, Auth!CodeCanArrive, Auth!Codes, Auth!NoCode
<1>3. QED
  BY <1>2, AuthInvHolds, PTL

-----------------------------------------------------------------------------
(***************************************************************************)
(* RateWindow.                                                             *)
(***************************************************************************)

\* Every set of naturals has a least element.
LEMMA Least ==
  ASSUME NEW S \in SUBSET Nat, S # {}
  PROVE  \E x \in S : \A y \in S : x <= y
<1>1. PICK x \in S : \A y \in S : ~(<<y, x>> \in OpToRel(<, Nat))
  BY NatLessThanWellFounded, WFMin
<1>2. \A y \in S : ~(y < x)
  BY <1>1 DEF OpToRel
<1>3. QED
  BY <1>2

\* Kept is a suffix of the deque, and what it drops is older than the window.
LEMMA RateKept ==
  ASSUME Rate!TypeOK, NEW now \in Int, Window \in Nat
  PROVE  \E d \in 0 .. Len(entries) :
           /\ Rate!Kept(now) \in Seq(0 .. MaxTime)
           /\ Len(Rate!Kept(now)) = Len(entries) - d
           /\ \A k \in 1 .. Len(entries) - d : Rate!Kept(now)[k] = entries[d + k]
           /\ \A k \in 1 .. d : now - entries[k] > Window
<1> DEFINE fresh == {i \in 1 .. Len(entries) : now - entries[i] <= Window}
           keep == CHOOSE x \in fresh : \A y \in fresh : x <= y
<1>1. Rate!Kept(now) = IF (IF fresh # {} THEN keep ELSE 0) = 0 THEN <<>>
                       ELSE SubSeq(entries, IF fresh # {} THEN keep ELSE 0, Len(entries))
  BY DEF Rate!Kept, Rate!SelectInSeq, Rate!Min
<1>2. entries \in Seq(0 .. MaxTime) /\ Len(entries) \in Nat /\ \A k \in 1 .. Len(entries) : entries[k] \in 0 .. MaxTime
  <2>1. entries \in Seq(0 .. MaxTime)
    BY DEF Rate!TypeOK
  <2> DEFINE Times == 0 .. MaxTime
  <2>2. entries \in Seq(Times)
    BY <2>1
  <2> HIDE DEF Times
  <2>3. Len(entries) \in Nat /\ \A k \in 1 .. Len(entries) : entries[k] \in Times
    BY <2>2
  <2>4. QED
    BY <2>1, <2>3 DEF Times
<1>3. CASE fresh = {}
  <2>1. Rate!Kept(now) = <<>>
    BY <1>1, <1>3
  <2>2. \A k \in 1 .. Len(entries) : now - entries[k] > Window
    BY <1>2, <1>3
  <2>3. QED
    BY <1>2, <2>1, <2>2
<1>4. CASE fresh # {}
  <2>1. \E x \in fresh : \A y \in fresh : x <= y
    <3>1. fresh \in SUBSET Nat
      BY <1>2
    <3> HIDE DEF fresh
    <3>2. QED
      BY <3>1, <1>4, Least
  <2>2. keep \in fresh /\ \A y \in fresh : keep <= y
    BY <2>1
  <2>3. keep \in 1 .. Len(entries) /\ keep # 0
    BY <2>2
  <2>4. Rate!Kept(now) = SubSeq(entries, keep, Len(entries))
    BY <1>1, <1>4, <2>3
  <2>5. \A k \in 1 .. keep - 1 : now - entries[k] > Window
    <3> HIDE DEF keep
    <3>1. \A k \in 1 .. keep - 1 : k \in 1 .. Len(entries) /\ k \notin fresh /\ now - entries[k] \in Int
      <4> HIDE DEF fresh
      <4>1. \A k \in 1 .. keep - 1 : k \in 1 .. Len(entries) /\ ~(keep <= k) /\ entries[k] \in Int
        BY <1>2, <2>3
      <4>2. QED
        BY <2>2, <4>1
    <3>2. QED
      BY <3>1
  <2> HIDE DEF keep, fresh
  <2>6. /\ Rate!Kept(now) \in Seq(0 .. MaxTime)
        /\ Len(Rate!Kept(now)) = Len(entries) - (keep - 1)
        /\ \A k \in 1 .. Len(entries) - (keep - 1) : Rate!Kept(now)[k] = entries[(keep - 1) + k]
    BY <1>2, <2>3, <2>4
  <2>7. keep - 1 \in 0 .. Len(entries)
    BY <1>2, <2>3
  <2>8. QED
    BY <2>5, <2>6, <2>7
<1>5. QED
  BY <1>3, <1>4

\* The instance counts as the library does.
LEMMA RateCardinality ==
  ASSUME NEW S
  PROVE  Rate!Cardinality(S) = Cardinality(S)
  BY DEF Rate!Cardinality, Cardinality

\* What was let in was read before now, an unhurried thread's reading is not
\* before any of it, the deque is what was let in last, and of what it dropped
\* each is more than a window older than something let in.
RateRead ==
  \A u \in Threads :
    /\ read[u] <= clock
    /\ read[u] # -1 /\ ~late[u] => \A i \in 1 .. Len(let) : let[i].at <= read[u]

RateSuffix ==
  /\ Len(entries) <= Len(let)
  /\ \A k \in 1 .. Len(entries) : entries[k] = let[Len(let) - Len(entries) + k].at

RateDropped == \A i \in 1 .. Len(let) - Len(entries) : \E j \in 1 .. Len(let) : let[j].at > let[i].at + Window

RateInv ==
  /\ Rate!TypeOK
  /\ \A i \in 1 .. Len(let) : let[i].at <= clock
  /\ RateRead
  /\ RateSuffix
  /\ RateDropped
  /\ Rate!WindowBound

RateEntry == [at : 0 .. MaxTime, late : BOOLEAN]

LEMMA RateShapes ==
  ASSUME Rate!TypeOK, Rate!NumbersAssumption
  PROVE  /\ Limit \in Nat \ {0} /\ Window \in Nat \ {0} /\ MaxTime \in Nat /\ clock \in 0 .. MaxTime
         /\ entries \in Seq(0 .. MaxTime) /\ Len(entries) \in Nat /\ Len(entries) <= Limit
         /\ \A k \in 1 .. Len(entries) : entries[k] \in 0 .. MaxTime
         /\ read \in [Threads -> -1 .. MaxTime] /\ late \in [Threads -> BOOLEAN]
         /\ let \in Seq(RateEntry) /\ Len(let) \in Nat /\ DOMAIN let = 1 .. Len(let)
         /\ \A i \in 1 .. Len(let) : let[i].at \in 0 .. MaxTime
<1>1. /\ Limit \in Nat \ {0} /\ Window \in Nat \ {0} /\ MaxTime \in Nat /\ clock \in 0 .. MaxTime
      /\ entries \in Seq(0 .. MaxTime) /\ Len(entries) <= Limit
      /\ read \in [Threads -> -1 .. MaxTime] /\ late \in [Threads -> BOOLEAN] /\ let \in Seq(RateEntry)
  BY DEF Rate!TypeOK, Rate!NumbersAssumption, RateEntry
<1>2. \A k \in 1 .. Len(entries) : entries[k] \in 0 .. MaxTime
  <2> DEFINE Times == 0 .. MaxTime
  <2>1. entries \in Seq(Times)
    BY <1>1
  <2> HIDE DEF Times
  <2>2. \A k \in 1 .. Len(entries) : entries[k] \in Times
    BY <2>1
  <2>3. QED
    BY <2>2 DEF Times
<1>3. Len(let) \in Nat /\ DOMAIN let = 1 .. Len(let) /\ \A i \in 1 .. Len(let) : let[i] \in RateEntry
  BY <1>1
<1>4. \A i \in 1 .. Len(let) : let[i].at \in 0 .. MaxTime
  BY <1>3 DEF RateEntry
<1>5. Len(entries) \in Nat
  BY <1>1
<1>6. QED
  BY <1>1, <1>2, <1>3, <1>4, <1>5

LEMMA RateInitHolds ==
  ASSUME Rate!NumbersAssumption, Rate!Init
  PROVE  RateInv
<1>1. Limit \in Nat /\ MaxTime \in Nat /\ Len(let) = 0 /\ Len(entries) = 0 /\ clock = 0
  BY DEF Rate!Init, Rate!NumbersAssumption
<1>2. \A u \in Threads : read[u] = -1
  BY DEF Rate!Init
<1>3. Rate!TypeOK
  BY <1>1 DEF Rate!Init, Rate!TypeOK
<1>4. ASSUME NEW now \in 0 .. MaxTime
      PROVE  Cardinality(Rate!Within(now)) <= Limit
  <2>1. Rate!Within(now) = {}
    BY DEF Rate!Within, Rate!Init
  <2>2. QED
    BY <1>1, <2>1, FS_EmptySet
<1>5. RateRead /\ RateSuffix /\ RateDropped
  BY <1>1, <1>2 DEF RateRead, RateSuffix, RateDropped
<1>6. \A i \in 1 .. Len(let) : let[i].at <= clock
  BY <1>1
<1>7. Rate!WindowBound
  BY <1>4, RateCardinality DEF Rate!WindowBound
<1>8. QED
  BY <1>3, <1>5, <1>6, <1>7 DEF RateInv

\* The clock goes on or is read.
LEMMA RateClock ==
  ASSUME Rate!NumbersAssumption, RateInv,
         Rate!Tick \/ (\E t \in Threads : Rate!ReadClock(t)) \/ UNCHANGED Rate!vars
  PROVE  RateInv'
<1>1. Rate!TypeOK
  BY DEF RateInv
<1>2. UNCHANGED <<entries, let>>
  BY DEF Rate!Tick, Rate!ReadClock, Rate!vars
<1>3. Rate!TypeOK' /\ clock <= clock'
  <2>1. CASE Rate!Tick
    BY <1>1, <2>1, RateShapes DEF Rate!Tick, Rate!TypeOK
  <2>2. ASSUME NEW t \in Threads, Rate!ReadClock(t)
        PROVE  Rate!TypeOK' /\ clock <= clock'
    BY <1>1, <2>2, RateShapes DEF Rate!ReadClock, Rate!TypeOK
  <2>3. CASE UNCHANGED Rate!vars
    BY <1>1, <2>3, RateShapes DEF Rate!vars, Rate!TypeOK
  <2>4. QED
    BY <2>1, <2>2, <2>3
<1>4. ASSUME NEW u \in Threads
      PROVE  \/ read'[u] = read[u] /\ late'[u] = late[u]
             \/ read'[u] = clock
  BY <1>1, RateShapes DEF Rate!Tick, Rate!ReadClock, Rate!vars
<1>5. clock \in Int /\ clock' \in Int
  BY <1>1, <1>3 DEF Rate!TypeOK
<1>6. \A i \in 1 .. Len(let) : let[i].at \in Int /\ let[i].at <= clock
  BY <1>1, RateShapes DEF RateInv
<1>7. RateRead'
  <2>1. SUFFICES ASSUME NEW u \in Threads
                 PROVE  /\ read'[u] <= clock'
                        /\ read'[u] # -1 /\ ~late'[u] => \A i \in 1 .. Len(let) : let[i].at <= read'[u]
    BY <1>2 DEF RateRead
  <2>2. read[u] \in Int
    BY <1>1, RateShapes
  <2>3. CASE read'[u] = read[u] /\ late'[u] = late[u]
    BY <1>3, <1>5, <2>2, <2>3 DEF RateInv, RateRead
  <2>4. CASE read'[u] = clock
    BY <1>3, <1>5, <1>6, <2>4
  <2>5. QED
    BY <1>4, <2>3, <2>4
<1>8. RateSuffix' /\ RateDropped' /\ Rate!WindowBound'
  BY <1>2 DEF RateInv, RateSuffix, RateDropped, Rate!WindowBound, Rate!Within
<1>9. \A i \in 1 .. Len(let') : let'[i].at <= clock'
  BY <1>2, <1>3, <1>5, <1>6
<1>10. QED
  BY <1>3, <1>7, <1>8, <1>9 DEF RateInv

\* A request that is refused drops nothing: the deque holds Limit entries.
LEMMA RateRefused ==
  ASSUME Rate!NumbersAssumption, RateInv, NEW t \in Threads, read[t] # -1, Rate!Full(Rate!Kept(read[t])),
         entries' = Rate!Kept(read[t]), read' = [read EXCEPT ![t] = -1], UNCHANGED <<clock, late, let>>
  PROVE  RateInv'
<1>1. Rate!TypeOK /\ read[t] \in Int /\ Window \in Nat
  BY RateShapes DEF RateInv
<1>2. PICK d \in 0 .. Len(entries) :
           /\ entries' \in Seq(0 .. MaxTime)
           /\ Len(entries') = Len(entries) - d
           /\ \A k \in 1 .. Len(entries) - d : entries'[k] = entries[d + k]
  BY <1>1, RateKept
<1>3. Len(entries') >= Limit
  BY DEF Rate!Full
<1>4. /\ Limit \in Nat /\ Len(entries) \in Nat /\ Len(entries) <= Limit /\ Len(let) \in Nat
      /\ read \in [Threads -> -1 .. MaxTime] /\ clock \in 0 .. MaxTime /\ MaxTime \in Nat
  BY <1>1, RateShapes
<1>5. d = 0 /\ Len(entries') = Len(entries)
  BY <1>2, <1>3, <1>4
<1>6. \A k \in 1 .. Len(entries) : entries'[k] = entries[k]
  BY <1>2, <1>4, <1>5
<1>7. Rate!TypeOK'
  BY <1>1, <1>2, <1>4, <1>5 DEF Rate!TypeOK
<1>8. RateRead'
  BY <1>4 DEF RateInv, RateRead
<1>9. RateSuffix' /\ RateDropped'
  BY <1>5, <1>6 DEF RateInv, RateSuffix, RateDropped
<1>10. Rate!WindowBound' /\ \A i \in 1 .. Len(let') : let'[i].at <= clock'
  BY DEF RateInv, Rate!WindowBound, Rate!Within
<1>11. QED
  BY <1>7, <1>8, <1>9, <1>10 DEF RateInv

\* A request that is let in is on time or counts for nothing; and when it is on
\* time nothing that the deque dropped lies in a window with it.
LEMMA RateLetIn ==
  ASSUME Rate!NumbersAssumption, RateInv, NEW t \in Threads, read[t] # -1, ~Rate!Full(Rate!Kept(read[t])),
         entries' = Append(Rate!Kept(read[t]), read[t]),
         let' = Append(let, [at |-> read[t], late |-> late[t]]),
         late' = [u \in Threads |-> late[u] \/ (read[u] # -1 /\ read[u] < read[t])],
         read' = [read EXCEPT ![t] = -1], UNCHANGED clock
  PROVE  RateInv'
<1> DEFINE now == read[t]
           kept == Rate!Kept(now)
           n == Len(let)
           e == Len(entries)
<1>1. Rate!TypeOK
  BY DEF RateInv
<1>2. /\ Limit \in Nat /\ Window \in Nat /\ MaxTime \in Nat /\ clock \in 0 .. MaxTime /\ e \in Nat /\ n \in Nat
      /\ \A k \in 1 .. e : entries[k] \in 0 .. MaxTime
      /\ read \in [Threads -> -1 .. MaxTime] /\ late \in [Threads -> BOOLEAN] /\ let \in Seq(RateEntry)
      /\ \A i \in 1 .. n : let[i].at \in 0 .. MaxTime
  BY <1>1, RateShapes
<1>3. now \in 0 .. MaxTime /\ now \in Int /\ now <= clock /\ late[t] \in BOOLEAN
  BY <1>2 DEF RateInv, RateRead
<1>4. PICK d \in 0 .. e :
           /\ kept \in Seq(0 .. MaxTime)
           /\ Len(kept) = e - d
           /\ \A k \in 1 .. e - d : kept[k] = entries[d + k]
           /\ \A k \in 1 .. d : now - entries[k] > Window
  BY <1>1, <1>2, <1>3, RateKept
<1>23. n \in Nat /\ e \in Nat /\ d \in 0 .. e /\ now \in Int /\ Window \in Nat /\ Limit \in Nat /\ MaxTime \in Nat
  BY <1>2, <1>3
<1> DEFINE new == [at |-> now, late |-> late[t]]
<1>5. new \in RateEntry /\ new.at = now /\ new.late = late[t]
  BY <1>3 DEF RateEntry
<1> HIDE DEF new
<1>6. let' = Append(let, new)
  BY DEF new
<1>7. let' \in Seq(RateEntry) /\ Len(let') = n + 1 /\ let'[n + 1] = new /\ \A i \in 1 .. n : let'[i] = let[i]
  BY <1>2, <1>5, <1>6
<1> HIDE DEF kept, now
<1>8. entries' = Append(kept, now)
  BY DEF kept, now
<1>9. /\ entries' \in Seq(0 .. MaxTime) /\ Len(entries') = e - d + 1 /\ entries'[e - d + 1] = now
      /\ \A k \in 1 .. e - d : entries'[k] = kept[k]
  BY <1>3, <1>4, <1>8
<1>10. e - d < Limit
  BY <1>2, <1>4 DEF Rate!Full, kept, now
<1> HIDE DEF n, e
<1>11. read' \in [Threads -> -1 .. MaxTime] /\ late' \in [Threads -> BOOLEAN]
  BY <1>2 DEF now
<1>12. Rate!TypeOK'
  <2>1. Len(entries') <= Limit
    BY <1>2, <1>4, <1>9, <1>10
  <2>2. let' \in Seq([at : 0 .. MaxTime, late : BOOLEAN])
    BY <1>7 DEF RateEntry
  <2>3. clock' \in 0 .. MaxTime
    BY <1>2
  <2>4. QED
    BY <1>9, <1>11, <2>1, <2>2, <2>3 DEF Rate!TypeOK
<1>13. \A i \in 1 .. n + 1 : let'[i].at \in 0 .. MaxTime /\ let'[i].at <= clock
  <2>1. \A i \in 1 .. n : let[i].at <= clock
    BY DEF RateInv, n
  <2>2. QED
    BY <1>2, <1>3, <1>5, <1>7, <2>1
<1>14. RateRead'
  <2>1. SUFFICES ASSUME NEW u \in Threads
                 PROVE  /\ read'[u] <= clock
                        /\ read'[u] # -1 /\ ~late'[u] => \A i \in 1 .. n + 1 : let'[i].at <= read'[u]
    BY <1>7 DEF RateRead
  <2>2. CASE u = t
    BY <1>2, <2>2
  <2>3. CASE u # t
    <3>1. read'[u] = read[u] /\ read[u] \in Int /\ read[u] <= clock
      BY <1>2, <2>3 DEF RateInv, RateRead
    <3>4. late'[u] <=> late[u] \/ (read[u] # -1 /\ read[u] < now)
      BY Zenon DEF now
    <3>2. ASSUME read[u] # -1, ~late'[u], NEW i \in 1 .. n + 1
          PROVE  let'[i].at <= read[u]
      <4>6. ~late[u] /\ ~(read[u] < now)
        BY <3>2, <3>4
      <4>1. now <= read[u]
        BY <1>23, <3>1, <4>6
      <4>2. \A k \in 1 .. n : let[k].at <= read[u]
        BY <3>2, <4>6 DEF RateInv, RateRead, n
      <4>3. CASE i = n + 1
        BY <1>5, <1>7, <4>1, <4>3
      <4>4. CASE i \in 1 .. n
        BY <1>7, <4>2, <4>4
      <4>5. i = n + 1 \/ i \in 1 .. n
        BY <1>23
      <4>7. QED
        BY <4>3, <4>4, <4>5
    <3>3. QED
      BY <3>1, <3>2
  <2>4. QED
    BY <2>2, <2>3
<1>15. n >= e /\ \A k \in 1 .. e : entries[k] = let[n - e + k].at
  BY DEF RateInv, RateSuffix, n, e
<1>16. RateSuffix'
  <2>1. n + 1 - (e - d + 1) = n - e + d /\ e - d + 1 <= n + 1 /\ n - e + d \in Nat
    BY <1>2, <1>4, <1>15
  <2>2. ASSUME NEW k \in 1 .. e - d + 1
        PROVE  entries'[k] = let'[(n + 1) - (e - d + 1) + k].at
    <3>1. CASE k = e - d + 1
      <4>1. (n + 1) - (e - d + 1) + k = n + 1
        BY <1>23, <3>1
      <4>2. QED
        BY <1>5, <1>7, <1>9, <3>1, <4>1
    <3>2. CASE k \in 1 .. e - d
      <4>1. d + k \in 1 .. e /\ n - e + (d + k) = (n + 1) - (e - d + 1) + k /\ n - e + (d + k) \in 1 .. n
        BY <1>15, <1>23, <3>2
      <4>2. entries'[k] = entries[d + k]
        BY <1>4, <1>9, <3>2
      <4>3. QED
        BY <1>7, <1>15, <4>1, <4>2
    <3>3. k = e - d + 1 \/ k \in 1 .. e - d
      BY <1>23
    <3>4. QED
      BY <3>1, <3>2, <3>3
  <2>3. QED
    BY <1>7, <1>9, <2>1, <2>2 DEF RateSuffix
<1>17. \A i \in 1 .. n - e + d : \E j \in 1 .. n + 1 : let'[j].at > let'[i].at + Window
  <2>1. TAKE i \in 1 .. n - e + d
  <2>2. i \in 1 .. n /\ n \in 1 .. n + 1 /\ n + 1 \in 1 .. n + 1
    BY <1>2, <1>4, <1>15
  <2>3. CASE i \in 1 .. n - e
    <3>1. PICK j \in 1 .. n : let[j].at > let[i].at + Window
      BY <2>3 DEF RateInv, RateDropped, n, e
    <3>2. j \in 1 .. n + 1
      BY <1>2
    <3>3. QED
      BY <1>7, <2>2, <3>1, <3>2
  <2>4. CASE ~(i \in 1 .. n - e)
    <3>1. i - (n - e) \in 1 .. d /\ n - e + (i - (n - e)) = i /\ i - (n - e) \in 1 .. e
      BY <1>2, <1>4, <1>15, <2>4
    <3>2. entries[i - (n - e)] = let[i].at /\ now - entries[i - (n - e)] > Window
      BY <1>4, <1>15, <3>1
    <3>3. let'[n + 1].at > let'[i].at + Window
      BY <1>2, <1>3, <1>5, <1>7, <2>2, <3>2
    <3>4. QED
      BY <2>2, <3>3
  <2>5. QED
    BY <2>3, <2>4
<1>18. RateDropped'
  <2>1. (n + 1) - (e - d + 1) = n - e + d
    BY <1>23
  <2>2. \A i \in 1 .. (n + 1) - (e - d + 1) : \E j \in 1 .. n + 1 : let'[j].at > let'[i].at + Window
    BY <1>17, <2>1
  <2>3. QED
    BY <1>7, <1>9, <2>2 DEF RateDropped
<1>19. ASSUME NEW x \in 0 .. MaxTime
       PROVE  Cardinality(Rate!Within(x)') <= Limit
  <2> DEFINE S == {i \in 1 .. n + 1 : ~let'[i].late /\ let'[i].at \in x - Window .. x}
  <2>1. Rate!Within(x)' = S
    BY <1>7 DEF Rate!Within
  <2>2. CASE late[t] \/ now \notin x - Window .. x
    <3>1. n + 1 \notin S
      BY <1>5, <1>7, <2>2
    <3>2. S = Rate!Within(x)
      BY <1>2, <1>7, <3>1 DEF Rate!Within, n
    <3>3. QED
      BY <2>1, <3>2, RateCardinality DEF RateInv, Rate!WindowBound
  <2>3. CASE ~late[t] /\ now \in x - Window .. x
    <3>1. \A j \in 1 .. n : let[j].at <= now
      BY <1>3, <2>3 DEF RateInv, RateRead, n, now
    <3>2. \A j \in 1 .. n + 1 : let'[j].at <= now
      BY <1>2, <1>3, <1>5, <1>7, <3>1
    <3>3. ASSUME NEW i \in 1 .. n - e + d, i \in S
          PROVE  FALSE
      <4>1. PICK j \in 1 .. n + 1 : let'[j].at > let'[i].at + Window
        BY <1>17
      <4>2. i \in 1 .. n + 1
        BY <3>3
      <4> DEFINE one == let'[i].at
                 other == let'[j].at
      <4>3. one \in 0 .. MaxTime /\ other \in 0 .. MaxTime /\ one \in x - Window .. x /\ other <= now /\ other > one + Window
        BY <1>13, <3>2, <3>3, <4>1, <4>2
      <4> HIDE DEF one, other
      <4>4. QED
        BY <1>23, <2>3, <4>3
    <3>4. S \in SUBSET ((n - e + d + 1) .. (n + 1))
      <4>1. \A i \in S : i \in 1 .. n + 1 /\ i \notin 1 .. n - e + d
        BY <3>3
      <4> HIDE DEF S
      <4>2. \A i \in S : i \in (n - e + d + 1) .. (n + 1)
        BY <1>2, <1>4, <1>15, <4>1
      <4>3. QED
        BY <4>2
    <3> HIDE DEF S
    <3>5. n - e + d + 1 \in Int /\ n + 1 \in Int /\ ~(n - e + d + 1 > n + 1)
      BY <1>2, <1>4, <1>15
    <3>6. /\ IsFiniteSet((n - e + d + 1) .. (n + 1))
          /\ Cardinality((n - e + d + 1) .. (n + 1)) = (n + 1) - (n - e + d + 1) + 1
      BY <3>5, FS_Interval
    <3>7. (n + 1) - (n - e + d + 1) + 1 = e - d + 1
      BY <1>2, <1>4
    <3> DEFINE last == (n - e + d + 1) .. (n + 1)
    <3>11. IsFiniteSet(last) /\ Cardinality(last) = e - d + 1 /\ S \in SUBSET last
      BY <3>4, <3>6, <3>7
    <3> HIDE DEF last
    <3>8. IsFiniteSet(S) /\ Cardinality(S) <= e - d + 1
      BY <3>11, FS_Subset
    <3>9. Cardinality(S) \in Nat
      BY <3>8, FS_CardinalityType
    <3>10. QED
      <4>1. Cardinality(S) <= Limit
        BY <1>10, <1>23, <3>8, <3>9
      <4>2. QED
        BY <2>1, <4>1
  <2>4. QED
    BY <1>3, <2>2, <2>3
<1>20. Rate!WindowBound'
  BY <1>19, RateCardinality DEF Rate!WindowBound
<1>21. \A i \in 1 .. Len(let') : let'[i].at <= clock'
  BY <1>7, <1>13
<1>22. QED
  BY <1>12, <1>14, <1>16, <1>18, <1>20, <1>21 DEF RateInv

LEMMA RateInductive ==
  ASSUME Rate!NumbersAssumption, RateInv, [Rate!Next]_(Rate!vars)
  PROVE  RateInv'
<1>1. ASSUME NEW t \in Threads, Rate!Enter(t)
      PROVE  RateInv'
  BY <1>1, RateRefused, RateLetIn DEF Rate!Enter
<1>2. QED
  BY <1>1, RateClock DEF Rate!Next

\* In no stretch of Window seconds are more than Limit requests let in on time,
\* for any limit, any window and any number of threads.
THEOREM WindowKept == Spec => []WindowBound
<1>1. Rate!NumbersAssumption
  BY PartsAssumption DEF PartsAssumption
<1>2. Init => RateInv
  BY <1>1, RateInitHolds DEF Init, RateInit
<1>3. RateInv /\ [Next]_vars => RateInv'
  BY <1>1, PartSteps, RateInductive
<1>4. RateInv => WindowBound
  BY DEF RateInv, WindowBound
<1>5. QED
  BY <1>2, <1>3, <1>4, PTL DEF Spec

-----------------------------------------------------------------------------
(***************************************************************************)
(* EdgeLoop, for the stream and for the camera.  Each instance and the     *)
(* module of its proofs, instantiated alike, mean the same.                *)
(***************************************************************************)

StreamProofs == INSTANCE EdgeLoop_proofs
CameraProofs == INSTANCE EdgeLoop_proofs
                  WITH Count <- 0, stop <- camStop, current <- camCurrent,
                       threads <- camThreads, req <- camReq, overlapped <- camOverlapped

LEMMA StreamSame ==
  /\ Stream!NumbersAssumption <=> StreamProofs!NumbersAssumption
  /\ Stream!Init <=> StreamProofs!Init
  /\ [Stream!Next]_(Stream!vars) <=> [StreamProofs!Next]_(StreamProofs!vars)
<1>1. Stream!Next <=> StreamProofs!Next
  BY DEF Stream!Next, StreamProofs!Next, Stream!CheckStart, StreamProofs!CheckStart, Stream!MayStart,
    StreamProofs!MayStart, Stream!UnderWay, StreamProofs!UnderWay, Stream!Live, StreamProofs!Live,
    Stream!Serve, StreamProofs!Serve, Stream!ClearStop, StreamProofs!ClearStop, Stream!CreateThread,
    StreamProofs!CreateThread, Stream!StartThread, StreamProofs!StartThread, Stream!Started,
    StreamProofs!Started, Stream!Stop, StreamProofs!Stop, Stream!Run, StreamProofs!Run, Stream!Test,
    StreamProofs!Test, Stream!Send, StreamProofs!Send, Stream!AfterBody, StreamProofs!AfterBody,
    Stream!GoesOn, StreamProofs!GoesOn,
    Stream!SentAfter, StreamProofs!SentAfter, Stream!Cardinality, StreamProofs!Cardinality
<1>2. QED
  BY <1>1 DEF Stream!NumbersAssumption, StreamProofs!NumbersAssumption, Stream!Init, StreamProofs!Init,
    Stream!vars, StreamProofs!vars

LEMMA CameraSame ==
  /\ Camera!NumbersAssumption <=> CameraProofs!NumbersAssumption
  /\ Camera!Init <=> CameraProofs!Init
  /\ [Camera!Next]_(Camera!vars) <=> [CameraProofs!Next]_(CameraProofs!vars)
<1>1. Camera!Next <=> CameraProofs!Next
  BY DEF Camera!Next, CameraProofs!Next, Camera!CheckStart, CameraProofs!CheckStart, Camera!MayStart,
    CameraProofs!MayStart, Camera!UnderWay, CameraProofs!UnderWay, Camera!Live, CameraProofs!Live,
    Camera!Serve, CameraProofs!Serve, Camera!ClearStop, CameraProofs!ClearStop, Camera!CreateThread,
    CameraProofs!CreateThread, Camera!StartThread, CameraProofs!StartThread, Camera!Started,
    CameraProofs!Started, Camera!Stop, CameraProofs!Stop, Camera!Run, CameraProofs!Run, Camera!Test,
    CameraProofs!Test, Camera!Send, CameraProofs!Send, Camera!AfterBody, CameraProofs!AfterBody,
    Camera!GoesOn, CameraProofs!GoesOn,
    Camera!SentAfter, CameraProofs!SentAfter, Camera!Cardinality, CameraProofs!Cardinality
<1>2. QED
  BY <1>1 DEF Camera!NumbersAssumption, CameraProofs!NumbersAssumption, Camera!Init, CameraProofs!Init,
    Camera!vars, CameraProofs!vars

\* The invariants of the two loops.
LoopInv == StreamProofs!IndInv /\ CameraProofs!IndInv

LEMMA LoopInvHolds == Spec => []LoopInv
<1>1. StreamProofs!NumbersAssumption /\ CameraProofs!NumbersAssumption
  BY PartsAssumption, StreamSame, CameraSame DEF PartsAssumption
<1>2. Init => LoopInv
  BY <1>1, StreamSame, CameraSame, StreamProofs!InitHolds, CameraProofs!InitHolds DEF Init, StreamInit, CameraInit, LoopInv
<1>3. LoopInv /\ [Next]_vars => LoopInv'
  BY <1>1, PartSteps, StreamSame, CameraSame, StreamProofs!Keeps, CameraProofs!Keeps DEF LoopInv
<1>4. QED
  BY <1>2, <1>3, PTL DEF Spec

\* As long as no two starts overlap, the stream and the camera have one live
\* thread each at most.
THEOREM OneThreadAtATime == Spec => []OneAtATime
<1>1. StreamProofs!NumbersAssumption /\ CameraProofs!NumbersAssumption
  BY PartsAssumption, StreamSame, CameraSame DEF PartsAssumption
<1>2. LoopInv => StreamProofs!OneAtATime /\ CameraProofs!OneAtATime
  BY <1>1, StreamProofs!HoldsOneAtATime, CameraProofs!HoldsOneAtATime DEF LoopInv
<1>3. StreamProofs!OneAtATime <=> Stream!OneAtATime
  BY DEF StreamProofs!OneAtATime, Stream!OneAtATime, StreamProofs!Live, Stream!Live, Stream!Cardinality, StreamProofs!Cardinality
<1>4. CameraProofs!OneAtATime <=> Camera!OneAtATime
  BY DEF CameraProofs!OneAtATime, Camera!OneAtATime, CameraProofs!Live, Camera!Live, Camera!Cardinality, CameraProofs!Cardinality
<1>5. LoopInv => OneAtATime
  BY <1>2, <1>3, <1>4 DEF OneAtATime
<1>6. QED
  BY <1>5, LoopInvHolds, PTL

\* As long as no two starts overlap, a stop of the stream or of the camera is
\* final for the threads it was meant for.
THEOREM StopsHold == Spec => []StopTakesHold
<1>1. StreamProofs!NumbersAssumption /\ CameraProofs!NumbersAssumption
  BY PartsAssumption, StreamSame, CameraSame DEF PartsAssumption
<1>2. LoopInv => StreamProofs!StopTakesHold /\ CameraProofs!StopTakesHold
  BY <1>1, StreamProofs!HoldsStopTakesHold, CameraProofs!HoldsStopTakesHold DEF LoopInv
<1>3. LoopInv => StopTakesHold
  BY <1>2 DEF StopTakesHold, Stream!StopTakesHold, Camera!StopTakesHold, StreamProofs!StopTakesHold, CameraProofs!StopTakesHold
<1>4. QED
  BY <1>3, LoopInvHolds, PTL

-----------------------------------------------------------------------------
(***************************************************************************)
(* GatewayFeed: lists without repetition, and what is left of one when     *)
(* some of its elements are taken out.                                     *)
(***************************************************************************)

LEMMA FeedCardinality ==
  ASSUME NEW S
  PROVE  Feed!Cardinality(S) = Cardinality(S)
  BY DEF Feed!Cardinality, Cardinality

LEMMA ImageCardinality ==
  ASSUME NEW S, IsFiniteSet(S), NEW R, NEW f \in [S -> R], \A a, b \in S : f[a] = f[b] => a = b,
         \A t \in R : \E x \in S : f[x] = t
  PROVE  IsFiniteSet(R) /\ Cardinality(R) = Cardinality(S)
<1>1. f \in Surjection(S, R)
  BY DEF Surjection
<1>2. f \in Injection(S, R)
  BY DEF Injection, IsInjective
<1>3. QED
  BY <1>1, <1>2, FS_Surjection

Distinct(q) == \A i, j \in 1 .. Len(q) : q[i] = q[j] => i = j

LEMMA DistinctCardinality ==
  ASSUME NEW T, NEW q \in Seq(T), Distinct(q)
  PROVE  IsFiniteSet({q[i] : i \in DOMAIN q}) /\ Cardinality({q[i] : i \in DOMAIN q}) = Len(q)
<1>1. Len(q) \in Nat /\ DOMAIN q = 1 .. Len(q) /\ q \in [1 .. Len(q) -> T]
  OBVIOUS
<1>2. IsFiniteSet(1 .. Len(q)) /\ Cardinality(1 .. Len(q)) = Len(q)
  <2> DEFINE n == Len(q)
  <2>1. n \in Nat
    BY <1>1
  <2> HIDE DEF n
  <2>2. IsFiniteSet(1 .. n) /\ Cardinality(1 .. n) = n
    BY <2>1, FS_Interval
  <2>3. QED
    BY <2>2 DEF n
<1> DEFINE S == DOMAIN q
<1>3. IsFiniteSet(S) /\ Cardinality(S) = Len(q) /\ q \in [S -> T]
  BY <1>1, <1>2
<1>4. \A a, b \in S : q[a] = q[b] => a = b
  BY <1>1 DEF Distinct
<1> HIDE DEF S
<1> DEFINE R == {q[i] : i \in S}
<1>5. q \in [S -> R] /\ \A t \in R : \E x \in S : q[x] = t
  BY <1>3
<1> HIDE DEF R
<1>6. IsFiniteSet(R) /\ Cardinality(R) = Cardinality(S)
  BY <1>3, <1>4, <1>5, ImageCardinality
<1>7. QED
  BY <1>3, <1>6 DEF S, R

FeedList == subscribers \in Seq(Subscribers) /\ Distinct(subscribers)

\* The sockets among the first i that stay.
FeedStays(i, gone) == {j \in 1 .. i : subscribers[j] \notin gone}

LEMMA FeedStaysIs ==
  ASSUME NEW i \in Nat, NEW gone
  PROVE  /\ Feed!Staying(i, gone) = Cardinality(FeedStays(i, gone))
         /\ IsFiniteSet(FeedStays(i, gone))
         /\ Feed!Staying(i, gone) \in 0 .. i
<1>1. Feed!Staying(i, gone) = Cardinality(FeedStays(i, gone))
  BY FeedCardinality DEF Feed!Staying, FeedStays
<1>2. IsFiniteSet(1 .. i) /\ Cardinality(1 .. i) = i
  BY FS_Interval
<1>3. FeedStays(i, gone) \in SUBSET (1 .. i)
  BY DEF FeedStays
<1>4. IsFiniteSet(FeedStays(i, gone)) /\ Cardinality(FeedStays(i, gone)) <= i
  BY <1>2, <1>3, FS_Subset
<1>5. Cardinality(FeedStays(i, gone)) \in Nat
  BY <1>4, FS_CardinalityType
<1>6. QED
  BY <1>1, <1>4, <1>5

\* A socket that stays keeps its order among those that stay.
LEMMA FeedOrder ==
  ASSUME NEW i \in Nat, NEW j \in Nat, i < j, NEW gone, subscribers[j] \notin gone
  PROVE  Feed!Staying(i, gone) < Feed!Staying(j, gone)
<1> DEFINE A == FeedStays(i, gone)
           B == FeedStays(j, gone)
<1>1. IsFiniteSet(A) /\ IsFiniteSet(B) /\ Cardinality(A) \in Nat /\ Cardinality(B) \in Nat
  BY FeedStaysIs, FS_CardinalityType
<1>2. j \notin A /\ (A \cup {j}) \in SUBSET B
  BY DEF FeedStays
<1> HIDE DEF A, B
<1>3. Cardinality(A \cup {j}) = Cardinality(A) + 1
  BY <1>1, <1>2, FS_AddElement
<1>4. Cardinality(A \cup {j}) <= Cardinality(B)
  BY <1>1, <1>2, FS_Subset
<1>5. Cardinality(A) < Cardinality(B)
  BY <1>1, <1>3, <1>4
<1>6. QED
  BY <1>5, FeedStaysIs DEF A, B

LEMMA FeedOrderWeak ==
  ASSUME NEW i \in Nat, NEW j \in Nat, i <= j, NEW gone
  PROVE  Feed!Staying(i, gone) <= Feed!Staying(j, gone)
<1>1. FeedStays(i, gone) \in SUBSET FeedStays(j, gone)
  BY DEF FeedStays
<1>2. Cardinality(FeedStays(i, gone)) <= Cardinality(FeedStays(j, gone))
  BY <1>1, FeedStaysIs, FS_Subset
<1>3. QED
  BY <1>2, FeedStaysIs

\* Where each socket that stays ends up, and where each place came from.
LEMMA FeedWithout ==
  ASSUME FeedList, NEW gone
  PROVE  LET left == Feed!Without(gone)
             n == Len(subscribers) IN
         /\ left \in Seq(Subscribers) /\ Len(left) = Feed!Staying(n, gone)
         /\ \A i \in 1 .. n : subscribers[i] \notin gone =>
              Feed!Staying(i, gone) \in 1 .. Len(left) /\ left[Feed!Staying(i, gone)] = subscribers[i]
         /\ \A k \in 1 .. Len(left) : \E i \in 1 .. n :
              subscribers[i] \notin gone /\ Feed!Staying(i, gone) = k /\ left[k] = subscribers[i]
<1> DEFINE left == Feed!Without(gone)
           n == Len(subscribers)
           stays == FeedStays(n, gone)
           at == [i \in stays |-> Feed!Staying(i, gone)]
           m == Feed!Staying(n, gone)
<1>1. n \in Nat /\ DOMAIN subscribers = 1 .. n /\ \A i \in 1 .. n : subscribers[i] \in Subscribers
  BY DEF FeedList
<1>2. m \in Nat /\ IsFiniteSet(stays) /\ Cardinality(stays) = m
  BY <1>1, FeedStaysIs
<1>3. stays = {i \in 1 .. n : subscribers[i] \notin gone}
  BY DEF FeedStays
<1> HIDE DEF n, stays, m
<1>4. ASSUME NEW i \in stays
      PROVE  Feed!Staying(i, gone) \in 1 .. m
  <2>1. i \in Nat /\ i >= 1 /\ i <= n /\ subscribers[i] \notin gone
    BY <1>1, <1>3
  <2>2. Feed!Staying(0, gone) < Feed!Staying(i, gone) /\ Feed!Staying(0, gone) \in 0 .. 0
    BY <2>1, FeedOrder, FeedStaysIs
  <2>3. Feed!Staying(i, gone) <= m /\ Feed!Staying(i, gone) \in 0 .. i
    BY <1>1, <2>1, FeedOrderWeak, FeedStaysIs DEF m
  <2>4. QED
    BY <1>2, <2>1, <2>2, <2>3
<1>5. ASSUME NEW i \in stays, NEW j \in stays, Feed!Staying(i, gone) = Feed!Staying(j, gone)
      PROVE  i = j
  <2>1. i \in Nat /\ j \in Nat /\ subscribers[i] \notin gone /\ subscribers[j] \notin gone
    BY <1>1, <1>3
  <2>2. Feed!Staying(i, gone) \in Int
    BY <1>4
  <2>3. ~(i < j) /\ ~(j < i)
    BY <1>5, <2>1, <2>2, FeedOrder
  <2>4. QED
    BY <2>1, <2>3
\* As many places as there are sockets that stay, so each is taken.
<1>6. ASSUME NEW k \in 1 .. m
      PROVE  \E i \in stays : Feed!Staying(i, gone) = k
  <2>1. at \in [stays -> 1 .. m] /\ \A a, b \in stays : at[a] = at[b] => a = b
    BY <1>4, <1>5
  <2>2. {at[i] : i \in stays} \in SUBSET (1 .. m)
    BY <1>4
  <2>3. IsFiniteSet(1 .. m) /\ Cardinality(1 .. m) = m
    BY <1>2, FS_Interval
  <2> DEFINE places == {at[i] : i \in stays}
  <2>4. Cardinality(places) = m
    <3>1. at \in [stays -> places] /\ \A t \in places : \E x \in stays : at[x] = t
      BY <2>1
    <3> HIDE DEF at, places
    <3>2. QED
      BY <1>2, <2>1, <3>1, ImageCardinality
  <2>7. places \in SUBSET (1 .. m)
    BY <2>2
  <2>8. k \in places
    <3> HIDE DEF places
    <3>1. places = 1 .. m
      BY <2>3, <2>4, <2>7, FS_Subset
    <3>2. QED
      BY <3>1
  <2>9. QED
    BY <2>8
<1> DEFINE from(k) == CHOOSE i \in DOMAIN subscribers : subscribers[i] \notin gone /\ Feed!Staying(i, gone) = k
<1>7. ASSUME NEW k \in 1 .. m
      PROVE  from(k) \in stays /\ Feed!Staying(from(k), gone) = k
  <2>1. \E i \in DOMAIN subscribers : subscribers[i] \notin gone /\ Feed!Staying(i, gone) = k
    BY <1>1, <1>3, <1>6
  <2>2. from(k) \in DOMAIN subscribers /\ subscribers[from(k)] \notin gone /\ Feed!Staying(from(k), gone) = k
    BY <2>1
  <2>3. QED
    BY <1>1, <1>3, <2>2
<1>8. left = [k \in 1 .. m |-> subscribers[from(k)]]
  BY DEF Feed!Without, m, n
<1> HIDE DEF left, from
<1>9. left \in [1 .. m -> Subscribers]
  BY <1>1, <1>3, <1>7, <1>8
<1>10. left \in Seq(Subscribers) /\ Len(left) = m
  BY <1>2, <1>9
<1>11. ASSUME NEW i \in stays
       PROVE  left[Feed!Staying(i, gone)] = subscribers[i]
  <2>1. from(Feed!Staying(i, gone)) \in stays /\ Feed!Staying(from(Feed!Staying(i, gone)), gone) = Feed!Staying(i, gone)
    BY <1>4, <1>7
  <2>2. from(Feed!Staying(i, gone)) = i
    BY <1>5, <2>1
  <2>3. QED
    BY <1>4, <1>8, <2>2
<1>12. \A i \in 1 .. n : subscribers[i] \notin gone =>
         Feed!Staying(i, gone) \in 1 .. m /\ left[Feed!Staying(i, gone)] = subscribers[i]
  BY <1>3, <1>4, <1>11
<1>13. \A k \in 1 .. m : \E i \in 1 .. n :
         subscribers[i] \notin gone /\ Feed!Staying(i, gone) = k /\ left[k] = subscribers[i]
  BY <1>3, <1>7, <1>8
<1>14. QED
  BY <1>10, <1>12, <1>13 DEF left, n, m

LEMMA InjectionBound ==
  ASSUME NEW S, NEW T, IsFiniteSet(T), NEW f \in [S -> T], \A a, b \in S : f[a] = f[b] => a = b
  PROVE  IsFiniteSet(S) /\ Cardinality(S) <= Cardinality(T)
<1>1. f \in Injection(S, T)
  BY DEF Injection, IsInjective
<1>2. QED
  BY <1>1, FS_Injection

LEMMA FeedListed ==
  ASSUME FeedList
  PROVE  /\ Feed!Listed = {subscribers[i] : i \in 1 .. Len(subscribers)}
         /\ IsFiniteSet(Feed!Listed) /\ Cardinality(Feed!Listed) = Len(subscribers)
<1>1. DOMAIN subscribers = 1 .. Len(subscribers)
  BY DEF FeedList
<1>2. Feed!Listed = {subscribers[i] : i \in DOMAIN subscribers}
  BY DEF Feed!Listed
<1>3. IsFiniteSet({subscribers[i] : i \in DOMAIN subscribers}) /\ Cardinality({subscribers[i] : i \in DOMAIN subscribers}) = Len(subscribers)
  BY DistinctCardinality DEF FeedList
<1>4. QED
  BY <1>1, <1>2, <1>3

\* Sockets that shift from behind an iterator's place to before it: at most as
\* many as leave the list.
LEMMA FeedShifted ==
  ASSUME FeedList, NEW gone, NEW next \in Nat \ {0}
  PROVE  LET K == {i \in 1 .. Len(subscribers) : subscribers[i] \notin gone /\ i >= next /\ Feed!Staying(i, gone) < next} IN
           IsFiniteSet(K) /\ IsFiniteSet(gone \cap Feed!Listed) /\ Cardinality(K) <= Cardinality(gone \cap Feed!Listed)
<1> DEFINE n == Len(subscribers)
           K == {i \in 1 .. n : subscribers[i] \notin gone /\ i >= next /\ Feed!Staying(i, gone) < next}
           m == next - 1
           p == Feed!Staying(m, gone)
           out == {j \in 1 .. m : subscribers[j] \in gone}
           G == gone \cap Feed!Listed
<1>1. n \in Nat /\ m \in Nat /\ p \in 0 .. m
  BY FeedStaysIs DEF FeedList
<1>2. IsFiniteSet(G)
  BY FeedListed, FS_Intersection
<1>3. CASE next > n
  <2>1. K = {}
    BY <1>1, <1>3
  <2>2. Cardinality(G) \in Nat
    <3> HIDE DEF G
    <3>1. QED
      BY <1>2, FS_CardinalityType
  <2>3. IsFiniteSet(K) /\ Cardinality(K) <= Cardinality(G)
    <3> HIDE DEF K, G
    <3>1. QED
      BY <2>1, <2>2, FS_EmptySet
  <2>4. QED
    BY <1>2, <2>3
<1>4. CASE ~(next > n)
  <2>1. m \in 0 .. n /\ m < n
    BY <1>1, <1>4
  <2>2. IsFiniteSet(K) /\ Cardinality(K) <= Cardinality((p + 1) .. m)
    <3> DEFINE f == [i \in K |-> Feed!Staying(i, gone)]
               T == (p + 1) .. m
    <3>1. ASSUME NEW i \in K
          PROVE  Feed!Staying(i, gone) \in (p + 1) .. m
      <4>1. i \in Nat /\ m < i /\ subscribers[i] \notin gone /\ Feed!Staying(i, gone) < next
        BY <1>1
      <4>2. p < Feed!Staying(i, gone)
        BY <1>1, <4>1, FeedOrder
      <4>3. Feed!Staying(i, gone) \in 0 .. i
        BY <4>1, FeedStaysIs
      <4> HIDE DEF p, K
      <4>4. QED
        BY <1>1, <4>1, <4>2, <4>3
    <3>2. ASSUME NEW i \in K, NEW j \in K, Feed!Staying(i, gone) = Feed!Staying(j, gone)
          PROVE  i = j
      <4>1. i \in Nat /\ j \in Nat /\ subscribers[i] \notin gone /\ subscribers[j] \notin gone
        OBVIOUS
      <4>2. Feed!Staying(i, gone) \in 0 .. i
        BY <4>1, FeedStaysIs
      <4>3. ~(i < j) /\ ~(j < i)
        BY <3>2, <4>1, <4>2, FeedOrder
      <4>4. QED
        BY <4>1, <4>3
    <3>3. IsFiniteSet(T)
      BY <1>1, FS_Interval
    <3>4. f \in [K -> T] /\ \A i, j \in K : f[i] = f[j] => i = j
      BY <3>1, <3>2
    <3>5. QED
      <4> HIDE DEF f, K, T
      <4>1. IsFiniteSet(K) /\ Cardinality(K) <= Cardinality(T)
        BY <3>3, <3>4, InjectionBound
      <4>2. QED
        BY <4>1 DEF T
  <2>3. Cardinality((p + 1) .. m) = m - p
    <3> HIDE DEF p, m
    <3>1. p + 1 \in Int /\ m \in Int /\ p \in Int /\ p <= m
      BY <1>1
    <3>2. Cardinality((p + 1) .. m) = IF p + 1 > m THEN 0 ELSE m - (p + 1) + 1
      BY <3>1, FS_Interval
    <3>3. QED
      BY <3>1, <3>2
  <2>4. IsFiniteSet(out) /\ Cardinality(out) = m - p
    <3> DEFINE I == 1 .. m
               S == FeedStays(m, gone)
    <3>1. IsFiniteSet(I) /\ Cardinality(I) = m
      <4> HIDE DEF m
      <4>1. QED
        BY <1>1, FS_Interval
    <3>2. out = I \ S /\ I \cap S = S
      BY DEF FeedStays
    <3>3. Cardinality(S) = p
      BY <1>1, FeedStaysIs
    <3> HIDE DEF I, S, out, p, m
    <3>4. QED
      BY <3>1, <3>2, <3>3, FS_Difference
  <2>5. Cardinality(out) <= Cardinality(G)
    <3> DEFINE f == [j \in out |-> subscribers[j]]
    <3>1. \A j \in out : j \in 1 .. n /\ subscribers[j] \in G
      BY <1>1, <2>1, FeedListed
    <3>2. f \in [out -> G] /\ \A i, j \in out : f[i] = f[j] => i = j
      BY <3>1 DEF FeedList, Distinct
    <3> HIDE DEF f, G, out
    <3>3. QED
      BY <1>2, <3>2, InjectionBound
  <2>6. IsFiniteSet(K) /\ Cardinality(K) <= Cardinality(G)
    <3>1. Cardinality(G) \in Nat /\ Cardinality(K) \in Nat /\ Cardinality(out) \in Nat
      <4> HIDE DEF G, K, out
      <4>1. QED
        BY <1>2, <2>2, <2>4, FS_CardinalityType
    <3> HIDE DEF G, K, out, p, m
    <3>2. QED
      BY <1>1, <2>2, <2>3, <2>4, <2>5, <3>1
  <2>7. QED
    BY <1>2, <2>6
<1>5. QED
  BY <1>3, <1>4

-----------------------------------------------------------------------------
(***************************************************************************)
(* GatewayFeed: what a walk has left behind.                               *)
(***************************************************************************)

FeedSent(w) == {w.sent[i] : i \in DOMAIN w.sent}

\* Sockets of the audience that stay connected, lie before the iterator's place
\* and have not been sent the frame.
FeedPassed(list, links, w) ==
  {s \in w.audience : links[s] = "open" /\ \E i \in 1 .. Len(list) : i < w.next /\ list[i] = s} \ FeedSent(w)

FeedMissed(links, w) == {s \in w.audience : links[s] = "open"} \ FeedSent(w)

\* Of a walk at any time.
FeedCommon(links, w) ==
  /\ w \in Feed!Walk /\ w.next >= 1 /\ Distinct(w.sent) /\ IsFiniteSet(w.audience)
  /\ \A s \in w.audience \cup FeedSent(w) : links[s] # "away"
  /\ \A s \in w.stale : links[s] \notin {"away", "open"}

\* Between two sends: every socket that got the frame lies before the place, and
\* there are no more to which that applies though they did not than removals.
FeedReady(list, links, w) ==
  /\ FeedCommon(links, w)
  /\ \A i \in 1 .. Len(list) : list[i] \in FeedSent(w) => i < w.next
  /\ Cardinality(FeedPassed(list, links, w)) <= w.removals

\* While a send is awaited: the same, with the socket it is awaited for.
FeedSending(list, links, w) ==
  \E to \in Subscribers :
    /\ w.to = {to} /\ to \notin FeedSent(w) /\ links[to] # "away"
    /\ \A i \in 1 .. Len(list) : list[i] \in FeedSent(w) \cup {to} => i < w.next
    /\ Cardinality(FeedPassed(list, links, w) \ {to}) <= w.removals

FeedWalk(list, links, w) ==
  /\ FeedCommon(links, w)
  /\ w.at = "new" => w.sent = <<>> /\ w.to = {} /\ w.stale = {} /\ w.next = 1 /\ w.removals = 0
  /\ w.at = "send" => FeedSending(list, links, w)
  /\ w.at = "over" => w.to = {} /\ Cardinality(FeedMissed(links, w)) <= w.removals

\* Who is open is listed, and who is listed has connected.
FeedLinks(list, links) ==
  \A s \in Subscribers :
    /\ links[s] = "open" => \E i \in 1 .. Len(list) : list[i] = s
    /\ (\E i \in 1 .. Len(list) : list[i] = s) => links[s] # "away"

LinkStates == [Subscribers -> {"away", "open", "gone", "closed"}]

FeedInv ==
  /\ FeedList
  /\ link \in LinkStates /\ FeedLinks(subscribers, link)
  /\ walk \in [Feed!Docs -> Feed!Walk]
  /\ \A d \in Feed!Docs : FeedWalk(subscribers, link, walk[d])

LEMMA FeedFinite ==
  ASSUME NEW list, NEW links, NEW w, IsFiniteSet(w.audience)
  PROVE  /\ IsFiniteSet(FeedPassed(list, links, w)) /\ Cardinality(FeedPassed(list, links, w)) \in Nat
         /\ IsFiniteSet(FeedMissed(links, w)) /\ Cardinality(FeedMissed(links, w)) \in Nat
<1>1. FeedPassed(list, links, w) \in SUBSET w.audience /\ FeedMissed(links, w) \in SUBSET w.audience
  BY DEF FeedPassed, FeedMissed
<1>2. IsFiniteSet(FeedPassed(list, links, w)) /\ IsFiniteSet(FeedMissed(links, w))
  BY <1>1, FS_Subset
<1>3. QED
  BY <1>2, FS_CardinalityType

\* Fewer than a finite number.
LEMMA SubsetBound ==
  ASSUME NEW A, NEW B, IsFiniteSet(B), A \subseteq B, NEW n \in Nat, Cardinality(B) <= n
  PROVE  Cardinality(A) <= n
<1>1. IsFiniteSet(A) /\ Cardinality(A) <= Cardinality(B)
  BY FS_Subset
<1>2. Cardinality(A) \in Nat /\ Cardinality(B) \in Nat
  BY <1>1, FS_CardinalityType
<1>3. QED
  BY <1>1, <1>2

LEMMA FeedMember ==
  ASSUME NEW v \in Feed!Walk, NEW to \in SUBSET Subscribers, NEW next \in Nat
  PROVE  [v EXCEPT !.at = "send", !.to = to, !.next = next] \in Feed!Walk
  BY DEF Feed!Walk

\* The turn of the loop.
LEMMA FeedTurned ==
  ASSUME FeedList, NEW links, FeedLinks(subscribers, links), NEW w, FeedReady(subscribers, links, w)
  PROVE  /\ FeedWalk(subscribers, links, Feed!Turn(w))
         /\ Feed!Turn(w).stale = w.stale /\ Feed!Turn(w).at \in {"send", "over"}
<1> DEFINE n == Len(subscribers)
           t == Feed!Turn(w)
<1>1. n \in Nat /\ \A i \in 1 .. n : subscribers[i] \in Subscribers
  BY DEF FeedList
<1>2. w \in Feed!Walk /\ w.next \in Nat /\ w.removals \in Nat /\ w.next >= 1 /\ IsFiniteSet(w.audience)
  BY DEF FeedReady, FeedCommon, Feed!Walk
<1>3. IsFiniteSet(FeedPassed(subscribers, links, w)) /\ Cardinality(FeedPassed(subscribers, links, w)) <= w.removals
  BY <1>2, FeedFinite DEF FeedReady
<1>4. CASE w.next <= n
  <2> DEFINE to == subscribers[w.next]
  <2>1. w.next \in 1 .. n /\ to \in Subscribers
    BY <1>1, <1>2, <1>4
  <2>2. t = [w EXCEPT !.at = "send", !.to = {to}, !.next = @ + 1]
    BY <1>4 DEF Feed!Turn
  <2>3. t \in Feed!Walk
    <3>1. {to} \in SUBSET Subscribers /\ w.next + 1 \in Nat
      BY <1>2, <2>1
    <3>2. t = [w EXCEPT !.at = "send", !.to = {to}, !.next = w.next + 1]
      BY <1>2, <2>2 DEF Feed!Walk
    <3> HIDE DEF to, t
    <3>3. QED
      BY <1>2, <3>1, <3>2, FeedMember
  <2>4. /\ t.at = "send" /\ t.to = {to} /\ t.next = w.next + 1 /\ t.stale = w.stale /\ t.sent = w.sent
        /\ t.audience = w.audience /\ t.removals = w.removals
    BY <1>2, <2>2 DEF Feed!Walk
  <2> HIDE DEF t
  <2>5. FeedCommon(links, t)
    BY <1>2, <2>3, <2>4 DEF FeedReady, FeedCommon, FeedSent
  <2>6. to \notin FeedSent(w)
    BY <1>2, <2>1 DEF FeedReady
  <2>7. links[to] # "away"
    BY <2>1 DEF FeedLinks
  <2>8. ASSUME NEW i \in 1 .. n, subscribers[i] \in FeedSent(w) \cup {to}
        PROVE  i < w.next + 1
    <3>1. CASE subscribers[i] \in FeedSent(w)
      BY <1>1, <1>2, <3>1 DEF FeedReady
    <3>2. CASE subscribers[i] = to
      BY <1>1, <1>2, <2>1, <3>2 DEF FeedList, Distinct
    <3>3. QED
      BY <2>8, <3>1, <3>2
  <2>9. FeedPassed(subscribers, links, t) \ {to} \subseteq FeedPassed(subscribers, links, w)
    <3>1. ASSUME NEW i \in 1 .. n, i < w.next + 1, subscribers[i] # to
          PROVE  i < w.next
      <4>1. i # w.next
        BY <3>1
      <4>2. QED
        BY <1>1, <1>2, <3>1, <4>1
    <3>2. QED
      BY <2>4, <3>1 DEF FeedPassed, FeedSent
  <2>10. Cardinality(FeedPassed(subscribers, links, t) \ {to}) <= w.removals
    BY <1>2, <1>3, <2>9, SubsetBound
  <2>11. FeedSent(t) = FeedSent(w)
    BY <2>4 DEF FeedSent
  <2>12. FeedSending(subscribers, links, t)
    BY <2>1, <2>4, <2>6, <2>7, <2>8, <2>10, <2>11 DEF FeedSending
  <2>13. QED
    BY <2>4, <2>5, <2>12 DEF FeedWalk, t
<1>5. CASE ~(w.next <= n)
  <2>1. t = [w EXCEPT !.at = "over", !.to = {}]
    BY <1>5 DEF Feed!Turn
  <2>2. t \in Feed!Walk
    <3>1. \A v \in Feed!Walk : [v EXCEPT !.at = "over", !.to = {}] \in Feed!Walk
      BY DEF Feed!Walk
    <3>2. QED
      BY <1>2, <2>1, <3>1
  <2>3. /\ t.at = "over" /\ t.to = {} /\ t.next = w.next /\ t.stale = w.stale /\ t.sent = w.sent
        /\ t.audience = w.audience /\ t.removals = w.removals
    BY <1>2, <2>1 DEF Feed!Walk
  <2> HIDE DEF t
  <2>4. FeedCommon(links, t)
    BY <1>2, <2>2, <2>3 DEF FeedReady, FeedCommon, FeedSent
  <2>5. \A i \in 1 .. n : i < w.next
    BY <1>1, <1>2, <1>5
  <2>6. w.audience \subseteq Subscribers
    BY <1>2 DEF Feed!Walk
  <2>7. FeedMissed(links, t) \subseteq FeedPassed(subscribers, links, w)
    BY <2>3, <2>5, <2>6 DEF FeedMissed, FeedPassed, FeedSent, FeedLinks
  <2>8. Cardinality(FeedMissed(links, t)) <= w.removals
    BY <1>2, <1>3, <2>7, SubsetBound
  <2>9. QED
    BY <2>3, <2>4, <2>8 DEF FeedWalk, t
<1>6. QED
  BY <1>4, <1>5

\* A connection ends.
LEMMA FeedClosed ==
  ASSUME FeedList, NEW links, FeedLinks(subscribers, links), NEW links2,
         \A s \in Subscribers : /\ links2[s] = "open" => links[s] = "open"
                                /\ links2[s] = "away" => links[s] = "away",
         NEW w, FeedWalk(subscribers, links, w)
  PROVE  FeedWalk(subscribers, links2, w)
<1>1. /\ w \in Feed!Walk /\ w.audience \in SUBSET Subscribers /\ w.stale \in SUBSET Subscribers
      /\ w.to \in SUBSET Subscribers /\ w.sent \in Seq(Subscribers) /\ w.removals \in Nat /\ IsFiniteSet(w.audience)
  BY DEF FeedWalk, FeedCommon, Feed!Walk
<1>2. FeedSent(w) \subseteq Subscribers
  BY <1>1 DEF FeedSent
<1>3. FeedCommon(links2, w)
  BY <1>1, <1>2 DEF FeedWalk, FeedCommon
<1>4. FeedPassed(subscribers, links2, w) \subseteq FeedPassed(subscribers, links, w)
      /\ FeedMissed(links2, w) \subseteq FeedMissed(links, w)
  BY <1>1 DEF FeedPassed, FeedMissed
<1>5. IsFiniteSet(FeedPassed(subscribers, links, w)) /\ IsFiniteSet(FeedMissed(links, w))
  BY <1>1, FeedFinite
<1>6. ASSUME w.at = "send"
      PROVE  FeedSending(subscribers, links2, w)
  <2>1. PICK to \in Subscribers :
          /\ w.to = {to} /\ to \notin FeedSent(w) /\ links[to] # "away"
          /\ \A i \in 1 .. Len(subscribers) : subscribers[i] \in FeedSent(w) \cup {to} => i < w.next
          /\ Cardinality(FeedPassed(subscribers, links, w) \ {to}) <= w.removals
    BY <1>6 DEF FeedWalk, FeedSending
  <2>2. IsFiniteSet(FeedPassed(subscribers, links, w) \ {to})
    BY <1>5, FS_Subset
  <2>3. FeedPassed(subscribers, links2, w) \ {to} \subseteq FeedPassed(subscribers, links, w) \ {to}
    BY <1>4
  <2>4. Cardinality(FeedPassed(subscribers, links2, w) \ {to}) <= w.removals
    BY <1>1, <2>1, <2>2, <2>3, SubsetBound
  <2>5. QED
    BY <2>1, <2>4 DEF FeedSending
<1>7. ASSUME w.at = "over"
      PROVE  Cardinality(FeedMissed(links2, w)) <= w.removals
  BY <1>1, <1>4, <1>5, <1>7, SubsetBound DEF FeedWalk
<1>8. QED
  BY <1>3, <1>6, <1>7 DEF FeedWalk

\* A socket connects.
LEMMA FeedAdded ==
  ASSUME FeedList, NEW links \in LinkStates, FeedLinks(subscribers, links), NEW s \in Subscribers, links[s] = "away",
         \A d \in Feed!Docs : FeedWalk(subscribers, links, walk[d])
  PROVE  LET list2 == Append(subscribers, s)
             links2 == [links EXCEPT ![s] = "open"] IN
         /\ list2 \in Seq(Subscribers) /\ Distinct(list2) /\ links2 \in LinkStates /\ FeedLinks(list2, links2)
         /\ \A d \in Feed!Docs : FeedWalk(list2, links2, walk[d])
<1> DEFINE n == Len(subscribers)
           list2 == Append(subscribers, s)
           links2 == [links EXCEPT ![s] = "open"]
<1>1. n \in Nat /\ \A i \in 1 .. n : subscribers[i] \in Subscribers
  BY DEF FeedList
<1>2. /\ list2 \in Seq(Subscribers) /\ Len(list2) = n + 1 /\ list2[n + 1] = s
      /\ \A i \in 1 .. n : list2[i] = subscribers[i]
  BY DEF FeedList
<1>3. /\ links2 \in LinkStates /\ links2[s] = "open"
      /\ \A x \in Subscribers : x # s => links2[x] = links[x]
  BY DEF LinkStates
<1>4. \A i \in 1 .. n : subscribers[i] # s
  BY <1>1 DEF FeedLinks
<1>5. \A i, j \in 1 .. n : subscribers[i] = subscribers[j] => i = j
  BY DEF FeedList, Distinct
<1>6. FeedLinks(subscribers, links) <=>
        \A x \in Subscribers : /\ links[x] = "open" => \E i \in 1 .. n : subscribers[i] = x
                               /\ (\E i \in 1 .. n : subscribers[i] = x) => links[x] # "away"
  BY DEF FeedLinks
<1> HIDE DEF n, list2, links2
<1>7. \A i \in 1 .. n + 1 : i = n + 1 \/ i \in 1 .. n
  BY <1>1
<1>8. Distinct(list2)
  BY <1>1, <1>2, <1>4, <1>5, <1>7 DEF Distinct
<1>9. FeedLinks(list2, links2)
  <2>1. ASSUME NEW x \in Subscribers, links2[x] = "open"
        PROVE  \E i \in 1 .. n + 1 : list2[i] = x
    <3>1. CASE x = s
      BY <1>1, <1>2, <3>1
    <3>2. CASE x # s
      <4>1. PICK i \in 1 .. n : subscribers[i] = x
        BY <1>3, <1>6, <2>1, <3>2
      <4>2. i \in 1 .. n + 1 /\ list2[i] = x
        BY <1>1, <1>2, <4>1
      <4>3. QED
        BY <4>2
    <3>3. QED
      BY <3>1, <3>2
  <2>2. ASSUME NEW x \in Subscribers, NEW i \in 1 .. n + 1, list2[i] = x
        PROVE  links2[x] # "away"
    BY <1>2, <1>3, <1>6, <1>7, <2>2
  <2>3. QED
    BY <1>2, <2>1, <2>2 DEF FeedLinks
<1>10. ASSUME NEW d \in Feed!Docs
       PROVE  FeedWalk(list2, links2, walk[d])
  <2> DEFINE w == walk[d]
  <2>1. FeedWalk(subscribers, links, w)
    OBVIOUS
  <2> HIDE DEF w
  <2>2. /\ w \in Feed!Walk /\ w.audience \in SUBSET Subscribers /\ w.stale \in SUBSET Subscribers
        /\ w.sent \in Seq(Subscribers) /\ FeedSent(w) \subseteq Subscribers
    BY <2>1 DEF FeedWalk, FeedCommon, Feed!Walk, FeedSent
  <2>3. \A x \in w.audience \cup FeedSent(w) : x # s
    BY <2>1 DEF FeedWalk, FeedCommon
  <2>4. \A x \in w.stale : x # s
    BY <2>1 DEF FeedWalk, FeedCommon
  <2>5. FeedCommon(links2, w)
    BY <1>3, <2>1, <2>2, <2>3, <2>4 DEF FeedWalk, FeedCommon
  <2>6. FeedMissed(links2, w) = FeedMissed(links, w)
    BY <1>3, <2>2, <2>3 DEF FeedMissed
  <2>7. FeedPassed(list2, links2, w) \subseteq FeedPassed(subscribers, links, w)
    <3>1. ASSUME NEW x \in FeedPassed(list2, links2, w)
          PROVE  x \in FeedPassed(subscribers, links, w)
      <4>1. /\ x \in w.audience /\ links2[x] = "open" /\ x \notin FeedSent(w)
            /\ \E i \in 1 .. n + 1 : i < w.next /\ list2[i] = x
        BY <1>2, <3>1 DEF FeedPassed
      <4>2. PICK i \in 1 .. n + 1 : i < w.next /\ list2[i] = x
        BY <4>1
      <4>3. x # s
        BY <2>3, <4>1
      <4>4. i \in 1 .. n /\ subscribers[i] = x
        BY <1>2, <1>7, <4>2, <4>3
      <4>5. links[x] = "open"
        BY <1>3, <2>2, <4>1, <4>3
      <4>6. QED
        BY <4>1, <4>2, <4>4, <4>5 DEF FeedPassed, n
    <3>2. QED
      BY <3>1
  <2>8. ASSUME w.at = "send"
        PROVE  FeedSending(list2, links2, w)
    <3>1. PICK to \in Subscribers :
            /\ w.to = {to} /\ to \notin FeedSent(w) /\ links[to] # "away"
            /\ \A i \in 1 .. n : subscribers[i] \in FeedSent(w) \cup {to} => i < w.next
            /\ Cardinality(FeedPassed(subscribers, links, w) \ {to}) <= w.removals
      BY <2>1, <2>8 DEF FeedWalk, FeedSending, n
    <3>2. IsFiniteSet(FeedPassed(subscribers, links, w) \ {to}) /\ w.removals \in Nat
      BY <2>1, FeedFinite, FS_Subset DEF FeedWalk, FeedCommon, Feed!Walk
    <3>3. Cardinality(FeedPassed(list2, links2, w) \ {to}) <= w.removals
      <4>1. FeedPassed(list2, links2, w) \ {to} \subseteq FeedPassed(subscribers, links, w) \ {to}
        BY <2>7
      <4>2. QED
        BY <3>1, <3>2, <4>1, SubsetBound
    <3>4. to # s
      BY <3>1
    <3>5. \A i \in 1 .. n + 1 : list2[i] \in FeedSent(w) \cup {to} => i < w.next
      BY <1>2, <1>7, <2>3, <3>1, <3>4
    <3>6. links2[to] # "away"
      BY <1>3, <3>1
    <3>7. QED
      BY <1>2, <3>1, <3>3, <3>5, <3>6 DEF FeedSending
  <2>9. QED
    BY <2>1, <2>5, <2>6, <2>8 DEF FeedWalk, w
<1>11. QED
  BY <1>2, <1>3, <1>8, <1>9, <1>10 DEF list2, links2

\* A walk that is under way when sockets leave.
FeedCounted(w, gone) ==
  IF w.at = "send" THEN [w EXCEPT !.removals = @ + Cardinality(gone \cap Feed!Listed)] ELSE w

\* Sockets leave the list.
LEMMA FeedShrunk ==
  ASSUME FeedList, NEW links, FeedLinks(subscribers, links), NEW gone, \A s \in gone : links[s] # "open"
  PROVE  LET list2 == Feed!Without(gone) IN
         /\ list2 \in Seq(Subscribers) /\ Distinct(list2) /\ FeedLinks(list2, links)
         /\ \A w : FeedWalk(subscribers, links, w) => FeedWalk(list2, links, FeedCounted(w, gone))
<1> DEFINE n == Len(subscribers)
           list2 == Feed!Without(gone)
           m == Len(list2)
           St(i) == Feed!Staying(i, gone)
<1>1. n \in Nat /\ \A i \in 1 .. n : subscribers[i] \in Subscribers
  BY DEF FeedList
<1>2. list2 \in Seq(Subscribers)
  BY FeedWithout
<1>3. m \in Nat
  BY <1>2
<1>4. \A i \in 1 .. n : subscribers[i] \notin gone => St(i) \in 1 .. m /\ list2[St(i)] = subscribers[i]
  BY FeedWithout
<1>5. \A k \in 1 .. m : \E i \in 1 .. n : subscribers[i] \notin gone /\ St(i) = k /\ list2[k] = subscribers[i]
  BY FeedWithout
<1>6. \A i \in 1 .. n : St(i) \in 0 .. i
  BY <1>1, FeedStaysIs
<1>7. \A i, j \in 1 .. n : subscribers[i] = subscribers[j] => i = j
  BY DEF FeedList, Distinct
<1>8. \A x \in Subscribers : /\ links[x] = "open" => \E i \in 1 .. n : subscribers[i] = x
                             /\ (\E i \in 1 .. n : subscribers[i] = x) => links[x] # "away"
  BY DEF FeedLinks
<1> DEFINE G == gone \cap Feed!Listed
           g == Cardinality(G)
<1>9. g \in Nat
  BY FeedListed, FS_Subset, FS_CardinalityType
<1> HIDE DEF n, list2, m, St, G, g
<1>10. Distinct(list2)
  BY <1>5, <1>7 DEF Distinct, m
<1>11. FeedLinks(list2, links)
  <2>1. \A x \in Subscribers : links[x] = "open" => \E k \in 1 .. m : list2[k] = x
    BY <1>4, <1>8
  <2>2. \A x \in Subscribers : (\E k \in 1 .. m : list2[k] = x) => links[x] # "away"
    BY <1>5, <1>8
  <2>3. QED
    BY <2>1, <2>2 DEF FeedLinks, m
<1>12. ASSUME NEW w, FeedWalk(subscribers, links, w)
       PROVE  FeedWalk(list2, links, FeedCounted(w, gone))
  <2>1. /\ w \in Feed!Walk /\ w.next \in Nat \ {0} /\ w.removals \in Nat /\ IsFiniteSet(w.audience)
        /\ w.audience \in SUBSET Subscribers /\ FeedCommon(links, w)
    BY <1>12 DEF FeedWalk, FeedCommon, Feed!Walk
  <2>2. CASE w.at # "send"
    BY <1>12, <2>1, <2>2 DEF FeedWalk, FeedCounted
  <2>3. CASE w.at = "send"
    <3> DEFINE v == FeedCounted(w, gone)
    <3>1. v = [w EXCEPT !.removals = w.removals + g]
      BY <2>1, <2>3 DEF FeedCounted, g, G, Feed!Walk
    <3>2. v \in Feed!Walk
      <4>1. \A x \in Feed!Walk, c \in Nat : [x EXCEPT !.removals = c] \in Feed!Walk
        BY DEF Feed!Walk
      <4>2. w.removals + g \in Nat
        BY <1>9, <2>1
      <4>3. QED
        BY <2>1, <3>1, <4>1, <4>2
    <3>3. /\ v.at = "send" /\ v.to = w.to /\ v.next = w.next /\ v.stale = w.stale /\ v.sent = w.sent
          /\ v.audience = w.audience /\ v.removals = w.removals + g
      BY <2>1, <2>3, <3>1 DEF Feed!Walk
    <3> HIDE DEF v
    <3>4. FeedSent(v) = FeedSent(w)
      BY <3>3 DEF FeedSent
    <3>5. FeedCommon(links, v)
      BY <2>1, <3>2, <3>3, <3>4 DEF FeedCommon
    <3>6. PICK to \in Subscribers :
            /\ w.to = {to} /\ to \notin FeedSent(w) /\ links[to] # "away"
            /\ \A i \in 1 .. n : subscribers[i] \in FeedSent(w) \cup {to} => i < w.next
            /\ Cardinality(FeedPassed(subscribers, links, w) \ {to}) <= w.removals
      BY <1>12, <2>3 DEF FeedWalk, FeedSending, n
    <3>7. ASSUME NEW k \in 1 .. m, list2[k] \in FeedSent(w) \cup {to}
          PROVE  k < w.next
      <4>1. PICK i \in 1 .. n : subscribers[i] \notin gone /\ St(i) = k /\ list2[k] = subscribers[i]
        BY <1>5
      <4>2. i < w.next
        BY <3>6, <3>7, <4>1
      <4>3. k \in 0 .. i
        BY <1>6, <4>1
      <4>4. QED
        BY <1>1, <2>1, <4>2, <4>3
    <3> DEFINE K == {i \in 1 .. n : subscribers[i] \notin gone /\ i >= w.next /\ St(i) < w.next}
               A == FeedPassed(subscribers, links, w) \ {to}
               D == {s \in w.audience : \E i \in K : subscribers[i] = s}
    <3>8. IsFiniteSet(K) /\ Cardinality(K) <= g
      <4>1. FeedList /\ w.next \in Nat \ {0}
        BY <2>1
      <4>2. QED
        BY <4>1, FeedShifted DEF n, St, G, g
    <3>9. IsFiniteSet(D) /\ Cardinality(D) <= Cardinality(K)
      <4> DEFINE f == [s \in D |-> CHOOSE i \in K : subscribers[i] = s]
      <4>1. \A s \in D : f[s] \in K /\ subscribers[f[s]] = s
        OBVIOUS
      <4>2. f \in [D -> K] /\ \A a, b \in D : f[a] = f[b] => a = b
        BY <4>1
      <4> HIDE DEF f, D, K
      <4>3. QED
        BY <3>8, <4>2, InjectionBound
    <3>10. FeedPassed(list2, links, v) \ {to} \subseteq A \cup D
      <4>1. ASSUME NEW x \in FeedPassed(list2, links, v) \ {to}, x \notin D
            PROVE  x \in A
        <5>1. x \in w.audience /\ links[x] = "open" /\ x \notin FeedSent(w) /\ x # to
          BY <3>3, <3>4, <4>1 DEF FeedPassed
        <5>2. PICK k \in 1 .. m : k < w.next /\ list2[k] = x
          BY <3>3, <4>1 DEF FeedPassed, m
        <5>3. PICK i \in 1 .. n : subscribers[i] \notin gone /\ St(i) = k /\ list2[k] = subscribers[i]
          BY <1>5
        <5>4. ~(i >= w.next)
          BY <4>1, <5>1, <5>2, <5>3
        <5>5. i < w.next
          BY <1>1, <2>1, <5>4
        <5>6. QED
          BY <5>1, <5>2, <5>3, <5>5 DEF FeedPassed, n
      <4>2. QED
        BY <4>1
    <3>11. IsFiniteSet(A) /\ Cardinality(A) <= w.removals
      BY <2>1, <3>6, FeedFinite, FS_Subset
    <3> DEFINE a == Cardinality(A)
               b == Cardinality(D)
               c == Cardinality(K)
    <3>12. IsFiniteSet(A \cup D) /\ Cardinality(A \cup D) = a + b - Cardinality(A \cap D)
      BY <3>9, <3>11, FS_Union
    <3>13. a \in Nat /\ b \in Nat /\ c \in Nat /\ Cardinality(A \cap D) \in Nat
      BY <3>8, <3>9, <3>11, FS_Subset, FS_CardinalityType
    <3>14. Cardinality(A \cup D) <= w.removals + g
      <4> HIDE DEF a, b, c, A, D, K
      <4>1. a <= w.removals /\ b <= c /\ c <= g
        BY <3>8, <3>9, <3>11 DEF a, b, c
      <4>2. QED
        BY <1>9, <2>1, <3>12, <3>13, <4>1
    <3>15. Cardinality(FeedPassed(list2, links, v) \ {to}) <= w.removals + g
      <4> HIDE DEF A, D
      <4>1. w.removals + g \in Nat
        BY <1>9, <2>1
      <4>2. QED
        BY <3>10, <3>12, <3>14, <4>1, SubsetBound
    <3>16. FeedSending(list2, links, v)
      BY <3>3, <3>4, <3>6, <3>7, <3>15 DEF FeedSending, m
    <3>17. QED
      BY <3>3, <3>5, <3>16 DEF FeedWalk, v
  <2>4. QED
    BY <2>2, <2>3
<1>13. QED
  BY <1>2, <1>10, <1>11, <1>12 DEF list2

\* The awaited send returns.
LEMMA FeedReturned ==
  ASSUME FeedList, NEW links \in LinkStates, NEW w, FeedWalk(subscribers, links, w), w.at = "send",
         NEW s, s = CHOOSE x \in w.to : TRUE
  PROVE  /\ links[s] = "open" => FeedReady(subscribers, links, [w EXCEPT !.sent = Append(@, s)])
         /\ links[s] # "open" => FeedReady(subscribers, links, Feed!Failed(w, s))
<1>1. /\ w \in Feed!Walk /\ w.audience \in SUBSET Subscribers /\ w.stale \in SUBSET Subscribers
      /\ w.sent \in Seq(Subscribers) /\ w.removals \in Nat /\ IsFiniteSet(w.audience) /\ FeedCommon(links, w)
  BY DEF FeedWalk, FeedCommon, Feed!Walk
<1>2. PICK to \in Subscribers :
        /\ w.to = {to} /\ to \notin FeedSent(w) /\ links[to] # "away"
        /\ \A i \in 1 .. Len(subscribers) : subscribers[i] \in FeedSent(w) \cup {to} => i < w.next
        /\ Cardinality(FeedPassed(subscribers, links, w) \ {to}) <= w.removals
  BY DEF FeedWalk, FeedSending
<1>3. s = to
  BY <1>2
<1>4. IsFiniteSet(FeedPassed(subscribers, links, w) \ {to})
  BY <1>1, FeedFinite, FS_Subset
<1>5. ASSUME links[s] = "open"
      PROVE  FeedReady(subscribers, links, [w EXCEPT !.sent = Append(@, s)])
  <2> DEFINE v == [w EXCEPT !.sent = Append(w.sent, s)]
             n == Len(w.sent)
  <2>1. Append(w.sent, s) \in Seq(Subscribers)
    BY <1>1, <1>2, <1>3
  <2>2. v \in Feed!Walk
    <3>1. \A x \in Feed!Walk, q \in Seq(Subscribers) : [x EXCEPT !.sent = q] \in Feed!Walk
      BY DEF Feed!Walk
    <3>2. QED
      BY <1>1, <2>1, <3>1
  <2>3. /\ v.sent = Append(w.sent, s) /\ v.next = w.next /\ v.stale = w.stale
        /\ v.audience = w.audience /\ v.removals = w.removals
    BY <1>1 DEF Feed!Walk
  <2>4. /\ n \in Nat /\ Len(v.sent) = n + 1 /\ v.sent[n + 1] = s
        /\ \A i \in 1 .. n : v.sent[i] = w.sent[i]
    BY <1>1, <1>2, <1>3, <2>3
  <2>5. \A i, j \in 1 .. n : w.sent[i] = w.sent[j] => i = j
    BY <1>1 DEF FeedCommon, Distinct
  <2>6. FeedSent(w) = {w.sent[i] : i \in 1 .. n}
    BY <1>1 DEF FeedSent
  <2>7. DOMAIN v.sent = 1 .. n + 1
    BY <2>1, <2>3, <2>4
  <2> HIDE DEF n, v
  <2>8. \A i \in 1 .. n + 1 : i = n + 1 \/ i \in 1 .. n
    BY <2>4
  <2>9. FeedSent(v) = FeedSent(w) \cup {s}
    <3>1. \A i \in 1 .. n : i \in 1 .. n + 1
      BY <2>4
    <3>2. n + 1 \in 1 .. n + 1
      BY <2>4
    <3>3. QED
      BY <2>4, <2>6, <2>7, <2>8, <3>1, <3>2 DEF FeedSent
  <2>10. Distinct(v.sent)
    <3>1. \A i \in 1 .. n : w.sent[i] # s
      BY <1>2, <1>3, <2>6
    <3>2. QED
      BY <2>4, <2>5, <2>8, <3>1 DEF Distinct
  <2>11. FeedCommon(links, v)
    BY <1>1, <1>5, <2>2, <2>3, <2>9, <2>10 DEF FeedCommon
  <2>12. FeedPassed(subscribers, links, v) \subseteq FeedPassed(subscribers, links, w) \ {to}
    BY <1>3, <2>3, <2>9 DEF FeedPassed
  <2>13. Cardinality(FeedPassed(subscribers, links, v)) <= w.removals
    BY <1>1, <1>2, <1>4, <2>12, SubsetBound
  <2>14. FeedReady(subscribers, links, v)
    BY <1>2, <1>3, <2>3, <2>9, <2>11, <2>13 DEF FeedReady
  <2>15. QED
    BY <2>14 DEF v
<1>6. ASSUME links[s] # "open"
      PROVE  FeedReady(subscribers, links, Feed!Failed(w, s))
  <2> DEFINE v == Feed!Failed(w, s)
  <2>1. v = [w EXCEPT !.stale = w.stale \cup {s}]
    BY DEF Feed!Failed
  <2>2. v \in Feed!Walk
    <3>1. \A x \in Feed!Walk, q \in SUBSET Subscribers : [x EXCEPT !.stale = q] \in Feed!Walk
      BY DEF Feed!Walk
    <3>2. w.stale \cup {s} \in SUBSET Subscribers
      BY <1>1, <1>2, <1>3
    <3>3. QED
      BY <1>1, <2>1, <3>1, <3>2
  <2>3. /\ v.sent = w.sent /\ v.next = w.next /\ v.stale = w.stale \cup {s}
        /\ v.audience = w.audience /\ v.removals = w.removals
    BY <1>1, <2>1 DEF Feed!Walk
  <2> HIDE DEF v
  <2>4. FeedSent(v) = FeedSent(w)
    BY <2>3 DEF FeedSent
  <2>5. links[s] \notin {"away", "open"}
    BY <1>2, <1>3, <1>6
  <2>6. FeedCommon(links, v)
    BY <1>1, <2>2, <2>3, <2>4, <2>5 DEF FeedCommon
  <2>7. FeedPassed(subscribers, links, v) \subseteq FeedPassed(subscribers, links, w) \ {to}
    BY <1>3, <1>6, <2>3, <2>4 DEF FeedPassed
  <2>8. Cardinality(FeedPassed(subscribers, links, v)) <= w.removals
    BY <1>1, <1>2, <1>4, <2>7, SubsetBound
  <2>9. FeedReady(subscribers, links, v)
    BY <1>2, <2>3, <2>4, <2>6, <2>8 DEF FeedReady
  <2>10. QED
    BY <2>9 DEF v
<1>7. QED
  BY <1>5, <1>6

\* A walk begins.
LEMMA FeedBegun ==
  ASSUME FeedList, NEW links, FeedLinks(subscribers, links), NEW w, FeedWalk(subscribers, links, w), w.at = "new"
  PROVE  FeedReady(subscribers, links, [w EXCEPT !.audience = Feed!Listed])
<1> DEFINE v == [w EXCEPT !.audience = Feed!Listed]
<1>1. w \in Feed!Walk /\ w.sent = <<>> /\ w.stale = {} /\ w.next = 1 /\ w.removals = 0 /\ FeedCommon(links, w)
  BY DEF FeedWalk, FeedCommon
<1>2. /\ IsFiniteSet(Feed!Listed) /\ Feed!Listed \in SUBSET Subscribers
      /\ Feed!Listed = {subscribers[i] : i \in 1 .. Len(subscribers)}
  BY FeedListed DEF FeedList
<1>3. v \in Feed!Walk
  <2>1. \A x \in Feed!Walk, q \in SUBSET Subscribers : [x EXCEPT !.audience = q] \in Feed!Walk
    BY DEF Feed!Walk
  <2>2. QED
    BY <1>1, <1>2, <2>1
<1>4. /\ v.sent = <<>> /\ v.next = 1 /\ v.stale = {}
      /\ v.audience = Feed!Listed /\ v.removals = 0
  BY <1>1 DEF Feed!Walk
<1> HIDE DEF v
<1>5. FeedSent(v) = {}
  BY <1>4 DEF FeedSent
<1>6. Distinct(v.sent)
  BY <1>4 DEF Distinct
<1>7. FeedCommon(links, v)
  <2>1. \A x \in Feed!Listed : links[x] # "away"
    BY <1>2 DEF FeedLinks
  <2>2. QED
    BY <1>2, <1>3, <1>4, <1>5, <1>6, <2>1 DEF FeedCommon
<1>8. FeedPassed(subscribers, links, v) = {}
  <2>1. \A i \in 1 .. Len(subscribers) : ~(i < 1)
    BY DEF FeedList
  <2>2. QED
    BY <1>4, <2>1 DEF FeedPassed
<1>9. Cardinality(FeedPassed(subscribers, links, v)) = 0
  BY <1>8, FS_EmptySet
<1>10. FeedReady(subscribers, links, v)
  BY <1>4, <1>5, <1>7, <1>9 DEF FeedReady
<1>11. QED
  BY <1>10 DEF v

\* What all the walks become when sockets leave.
LEMMA FeedCounting ==
  ASSUME NEW walks \in [Feed!Docs -> Feed!Walk], NEW gone
  PROVE  \A d \in Feed!Docs : Feed!Counting(walks, gone)[d] = FeedCounted(walks[d], gone)
<1>1. Feed!Cardinality(gone \cap Feed!Listed) = Cardinality(gone \cap Feed!Listed)
  BY FeedCardinality
<1>2. QED
  BY <1>1 DEF Feed!Counting, FeedCounted

LEMMA FeedRemoved ==
  ASSUME FeedList, link \in LinkStates, FeedLinks(subscribers, link'), link' \in LinkStates,
         NEW walks \in [Feed!Docs -> Feed!Walk], \A d \in Feed!Docs : FeedWalk(subscribers, link', walks[d]),
         NEW gone, \A s \in gone : link'[s] # "open",
         subscribers' = Feed!Without(gone), walk' = Feed!Counting(walks, gone)
  PROVE  FeedInv'
<1> DEFINE links == link'
<1>1. links \in LinkStates /\ FeedLinks(subscribers, links) /\ \A d \in Feed!Docs : FeedWalk(subscribers, links, walks[d])
  OBVIOUS
<1>2. \A s \in gone : links[s] # "open"
  OBVIOUS
<1> HIDE DEF links
<1>3. /\ subscribers' \in Seq(Subscribers) /\ Distinct(subscribers') /\ FeedLinks(subscribers', links)
      /\ \A w : FeedWalk(subscribers, links, w) => FeedWalk(subscribers', links, FeedCounted(w, gone))
  BY <1>1, <1>2, FeedShrunk
<1>4. \A d \in Feed!Docs : walk'[d] = FeedCounted(walks[d], gone)
  BY FeedCounting
<1>5. \A d \in Feed!Docs : FeedWalk(subscribers', links, walk'[d])
  BY <1>1, <1>3, <1>4
<1>6. walk' \in [Feed!Docs -> Feed!Walk]
  <2>1. \A d \in Feed!Docs : walk'[d] \in Feed!Walk
    BY <1>5 DEF FeedWalk, FeedCommon
  <2>2. walk' = [d \in Feed!Docs |-> walk'[d]]
    BY DEF Feed!Counting
  <2>3. QED
    BY <2>1, <2>2
<1>7. QED
  BY <1>1, <1>3, <1>5, <1>6 DEF FeedInv, FeedList, Feed!Docs, links

\* The walk goes on, or ends and removes the stale.
LEMMA FeedResumed ==
  ASSUME FeedInv, NEW d \in Feed!Docs, NEW w, FeedReady(subscribers, link, w), Feed!Resume(d, w)
  PROVE  FeedInv'
<1> DEFINE turned == Feed!Turn(w)
           walks == [walk EXCEPT ![d] = turned]
           gone == IF turned.at = "over" THEN w.stale ELSE {}
<1>1. FeedWalk(subscribers, link, turned)
  BY FeedTurned DEF FeedInv
<1>2. turned \in Feed!Walk
  BY <1>1 DEF FeedWalk, FeedCommon
<1>3. walks \in [Feed!Docs -> Feed!Walk] /\ \A e \in Feed!Docs : FeedWalk(subscribers, link, walks[e])
  <2> HIDE DEF turned
  <2>1. QED
    BY <1>1, <1>2 DEF FeedInv
<1>4. \A s \in gone : link[s] # "open"
  BY DEF FeedReady, FeedCommon
<1>5. subscribers' = Feed!Without(gone) /\ walk' = Feed!Counting(walks, gone) /\ link' = link
  BY DEF Feed!Resume
<1> HIDE DEF turned, walks, gone
<1>6. QED
  BY <1>3, <1>4, <1>5, FeedRemoved DEF FeedInv

LEMMA FeedInitHolds ==
  ASSUME Feed!Init
  PROVE  FeedInv
<1> DEFINE w == [at |-> "new", next |-> 1, to |-> {}, stale |-> {}, sent |-> <<>>, audience |-> {}, removals |-> 0]
<1>1. /\ subscribers = <<>> /\ link = [s \in Subscribers |-> "away"] /\ walk = [d \in Feed!Docs |-> w]
  BY DEF Feed!Init
<1>2. FeedList /\ Len(subscribers) = 0
  BY <1>1 DEF FeedList, Distinct
<1>3. link \in LinkStates
  BY <1>1 DEF LinkStates
<1>4. FeedLinks(subscribers, link)
  BY <1>1 DEF FeedLinks
<1>5. w \in Feed!Walk
  BY DEF Feed!Walk
<1>6. FeedCommon(link, w)
  <2>1. FeedSent(w) = {}
    BY DEF FeedSent
  <2>2. Distinct(w.sent)
    BY DEF Distinct
  <2>3. IsFiniteSet(w.audience)
    BY FS_EmptySet
  <2>4. QED
    BY <1>5, <2>1, <2>2, <2>3 DEF FeedCommon
<1>7. FeedWalk(subscribers, link, w)
  BY <1>6 DEF FeedWalk
<1> HIDE DEF w
<1>8. walk \in [Feed!Docs -> Feed!Walk] /\ \A d \in Feed!Docs : FeedWalk(subscribers, link, walk[d])
  BY <1>1, <1>5, <1>7
<1>9. QED
  BY <1>2, <1>3, <1>4, <1>8 DEF FeedInv

LEMMA FeedInductive ==
  ASSUME FeedInv, [Feed!Next]_(Feed!vars)
  PROVE  FeedInv'
<1>1. CASE UNCHANGED Feed!vars
  BY <1>1 DEF FeedInv, Feed!vars, FeedList, Feed!Docs
<1>2. ASSUME NEW s \in Subscribers, Feed!Connect(s)
      PROVE  FeedInv'
  <2>1. /\ link[s] = "away" /\ link' = [link EXCEPT ![s] = "open"]
        /\ subscribers' = Append(subscribers, s) /\ walk' = walk
    BY <1>2 DEF Feed!Connect
  <2>2. /\ subscribers' \in Seq(Subscribers) /\ Distinct(subscribers') /\ link' \in LinkStates
        /\ FeedLinks(subscribers', link') /\ \A d \in Feed!Docs : FeedWalk(subscribers', link', walk[d])
    BY <2>1, FeedAdded DEF FeedInv
  <2>3. QED
    BY <2>1, <2>2 DEF FeedInv, FeedList, Feed!Docs
<1>3. ASSUME NEW s \in Subscribers, Feed!Leave(s)
      PROVE  FeedInv'
  <2>1. /\ link[s] = "open" /\ link' = [link EXCEPT ![s] = "gone"] /\ subscribers' = subscribers /\ walk' = walk
    BY <1>3 DEF Feed!Leave
  <2> DEFINE links == link'
  <2>2. links \in LinkStates /\ \A x \in Subscribers : /\ links[x] = "open" => link[x] = "open"
                                                       /\ links[x] = "away" => link[x] = "away"
    BY <2>1 DEF FeedInv, LinkStates
  <2> HIDE DEF links
  <2>3. FeedLinks(subscribers, links) /\ \A d \in Feed!Docs : FeedWalk(subscribers, links, walk[d])
    <3>1. FeedLinks(subscribers, links)
      BY <2>2 DEF FeedInv, FeedLinks
    <3>2. QED
      BY <2>2, <3>1, FeedClosed DEF FeedInv
  <2>4. QED
    BY <2>1, <2>2, <2>3 DEF FeedInv, FeedList, Feed!Docs, links
<1>4. ASSUME NEW s \in Subscribers, Feed!Disconnect(s)
      PROVE  FeedInv'
  <2>1. /\ link[s] = "gone" /\ link' = [link EXCEPT ![s] = "closed"]
        /\ subscribers' = Feed!Without({s}) /\ walk' = Feed!Counting(walk, {s})
    BY <1>4 DEF Feed!Disconnect
  <2> DEFINE links == link'
  <2>2. links \in LinkStates /\ links[s] = "closed"
        /\ \A x \in Subscribers : /\ links[x] = "open" => link[x] = "open"
                                  /\ links[x] = "away" => link[x] = "away"
    BY <2>1 DEF FeedInv, LinkStates
  <2> HIDE DEF links
  <2>3. FeedLinks(subscribers, links) /\ \A d \in Feed!Docs : FeedWalk(subscribers, links, walk[d])
    <3>1. FeedLinks(subscribers, links)
      BY <2>2 DEF FeedInv, FeedLinks
    <3>2. QED
      BY <2>2, <3>1, FeedClosed DEF FeedInv
  <2>4. \A x \in {s} : links[x] # "open"
    BY <2>2
  <2> USE DEF links
  <2>5. QED
    BY <2>1, <2>2, <2>3, <2>4, FeedRemoved DEF FeedInv
<1>5. ASSUME NEW d \in Feed!Docs, Feed!Begin(d)
      PROVE  FeedInv'
  <2>1. walk[d].at = "new" /\ Feed!Resume(d, [walk[d] EXCEPT !.audience = Feed!Listed])
    BY <1>5 DEF Feed!Begin
  <2>2. FeedReady(subscribers, link, [walk[d] EXCEPT !.audience = Feed!Listed])
    BY <2>1, FeedBegun DEF FeedInv
  <2>3. QED
    BY <2>1, <2>2, FeedResumed
<1>6. ASSUME NEW d \in Feed!Docs, Feed!SendReturns(d)
      PROVE  FeedInv'
  <2> DEFINE s == CHOOSE x \in walk[d].to : TRUE
  <2>1. /\ walk[d].at = "send"
        /\ link[s] = "open" => Feed!Resume(d, [walk[d] EXCEPT !.sent = Append(@, s)])
        /\ link[s] # "open" => Feed!Resume(d, Feed!Failed(walk[d], s))
    BY <1>6 DEF Feed!SendReturns
  <2>2. /\ link[s] = "open" => FeedReady(subscribers, link, [walk[d] EXCEPT !.sent = Append(@, s)])
        /\ link[s] # "open" => FeedReady(subscribers, link, Feed!Failed(walk[d], s))
    BY <2>1, FeedReturned DEF FeedInv
  <2> HIDE DEF s
  <2>3. QED
    BY <2>1, <2>2, FeedResumed
<1>7. QED
  BY <1>1, <1>2, <1>3, <1>4, <1>5, <1>6 DEF Feed!Next

LEMMA FeedHolds ==
  ASSUME FeedInv
  PROVE  Feed!TypeOK /\ Feed!MissedIsShifted
<1>1. \A S : Feed!Cardinality(S) = Cardinality(S)
  BY FeedCardinality
<1>2. Feed!Cardinality(Feed!Listed) = Len(subscribers)
  BY <1>1, FeedListed DEF FeedInv
<1>3. ASSUME NEW d \in Feed!Docs
      PROVE  Cardinality(walk[d].to) = IF walk[d].at = "send" THEN 1 ELSE 0
  <2>1. FeedWalk(subscribers, link, walk[d]) /\ walk[d].at \in {"new", "send", "over"}
    BY DEF FeedInv, Feed!Walk
  <2>2. CASE walk[d].at = "send"
    <3>1. PICK to \in Subscribers : walk[d].to = {to}
      BY <2>1, <2>2 DEF FeedWalk, FeedSending
    <3>2. QED
      BY <2>2, <3>1, FS_Singleton
  <2>3. CASE walk[d].at # "send"
    <3>1. walk[d].to = {}
      BY <2>1, <2>3 DEF FeedWalk
    <3>2. QED
      BY <2>3, <3>1, FS_EmptySet
  <2>4. QED
    BY <2>2, <2>3
<1>4. Feed!TypeOK
  BY <1>1, <1>2, <1>3 DEF Feed!TypeOK, FeedInv, FeedList, LinkStates
<1>5. ASSUME NEW d \in Feed!Docs
      PROVE  /\ Cardinality(Feed!SentTo(d)) = Len(walk[d].sent)
             /\ walk[d].at = "over" => Cardinality(Feed!Missed(d)) <= walk[d].removals
  <2>1. FeedWalk(subscribers, link, walk[d]) /\ walk[d].sent \in Seq(Subscribers) /\ Distinct(walk[d].sent)
    BY DEF FeedInv, FeedWalk, FeedCommon, Feed!Walk
  <2>2. Feed!SentTo(d) = FeedSent(walk[d]) /\ Feed!Missed(d) = FeedMissed(link, walk[d])
    BY DEF Feed!SentTo, Feed!Missed, FeedSent, FeedMissed
  <2>3. Cardinality(FeedSent(walk[d])) = Len(walk[d].sent)
    BY <2>1, DistinctCardinality DEF FeedSent
  <2>4. QED
    BY <2>1, <2>2, <2>3 DEF FeedWalk
<1>6. QED
  BY <1>1, <1>4, <1>5 DEF Feed!MissedIsShifted

\* A frame reaches every socket that stays but for one per removal during the
\* walk, and none twice, for any number of sockets and of documents.
THEOREM MissedAtMostRemoved == Spec => []MissedIsShifted
<1>1. Init => FeedInv
  BY FeedInitHolds DEF Init, FeedInit
<1>2. FeedInv /\ [Next]_vars => FeedInv'
  BY PartSteps, FeedInductive
<1>3. FeedInv => MissedIsShifted
  BY FeedHolds DEF MissedIsShifted
<1>4. QED
  BY <1>1, <1>2, <1>3, PTL DEF Spec

-----------------------------------------------------------------------------
(***************************************************************************)
(* The types of all parts, which the parts' invariants contain.            *)
(***************************************************************************)

ServicesInv ==
  /\ LoopInv /\ Fed!FedInv /\ SenderInv /\ AuthInv /\ RateInv /\ APIInv /\ LlmIInv
  /\ Pred!TypeOK /\ AuditIndInv /\ FeedInv

LEMMA ServicesInitHolds == Init => ServicesInv
<1>1. Init => LoopInv
  BY PartsAssumption, StreamSame, CameraSame, StreamProofs!InitHolds, CameraProofs!InitHolds
  DEF PartsAssumption, Init, StreamInit, CameraInit, LoopInv
<1>2. Init => Fed!FedInv /\ SenderInv /\ AuthInv
  BY PartsAssumption, FedInitHolds, SenderInitHolds, AuthInitHolds
  DEF PartsAssumption, Init, FedInit, SenderInit, AuthInit
<1>3. Init => RateInv /\ APIInv /\ LlmIInv
  BY PartsAssumption, RateInitHolds, APIInitHolds, LlmInitHolds
  DEF PartsAssumption, Init, RateInit, APIInit, LlmInit
<1>4. Init => Pred!TypeOK /\ AuditIndInv /\ FeedInv
  BY PartsAssumption, PredInitHolds, AuditInitHolds, FeedInitHolds
  DEF PartsAssumption, Init, PredInit, AuditInit, FeedInit
<1>5. QED
  BY <1>1, <1>2, <1>3, <1>4 DEF ServicesInv

LEMMA ServicesInductive == ServicesInv /\ [Next]_vars => ServicesInv'
<1> SUFFICES ASSUME ServicesInv, [Next]_vars PROVE ServicesInv'
  OBVIOUS
<1>1. LoopInv'
  <2>1. StreamProofs!NumbersAssumption /\ CameraProofs!NumbersAssumption
    BY PartsAssumption, StreamSame, CameraSame DEF PartsAssumption
  <2>2. QED
    BY <2>1, PartSteps, StreamSame, CameraSame, StreamProofs!Keeps, CameraProofs!Keeps DEF ServicesInv, LoopInv
<1>2. Fed!FedInv' /\ SenderInv' /\ AuthInv'
  BY PartsAssumption, PartSteps, FedInductive, SenderInductive, AuthInductive DEF PartsAssumption, ServicesInv
<1>3. RateInv' /\ APIInv' /\ LlmIInv'
  BY PartsAssumption, PartSteps, RateInductive, APIInductive, LlmInductive DEF PartsAssumption, ServicesInv
<1>4. Pred!TypeOK' /\ AuditIndInv' /\ FeedInv'
  BY PartsAssumption, PartSteps, PredTypeStep, AuditInductive, FeedInductive DEF PartsAssumption, ServicesInv
<1>5. QED
  BY <1>1, <1>2, <1>3, <1>4 DEF ServicesInv

\* Every part keeps its types.
THEOREM TypesHold == Spec => []TypeOK
<1>1. ServicesInv => TypeOK
  <2> SUFFICES ASSUME ServicesInv PROVE TypeOK
    OBVIOUS
  <2>1. StreamProofs!TypeOK /\ CameraProofs!TypeOK
    BY DEF ServicesInv, LoopInv, StreamProofs!IndInv, CameraProofs!IndInv
  <2>2. Stream!TypeOK
    BY <2>1 DEF StreamProofs!TypeOK, Stream!TypeOK, StreamProofs!Thread, Stream!Thread
  <2>3. Camera!TypeOK
    BY <2>1 DEF CameraProofs!TypeOK, Camera!TypeOK, CameraProofs!Thread, Camera!Thread
  <2>4. Fed!TypeOK /\ Sender!TypeOK /\ Auth!TypeOK /\ Rate!TypeOK /\ API!TypeOK /\ Llm!TypeOK /\ Pred!TypeOK
        /\ Audit!TypeOK
    BY DEF ServicesInv, Fed!FedInv, SenderInv, AuthInv, RateInv, APIInv, LlmIInv, AuditIndInv
  <2>5. Feed!TypeOK
    BY FeedHolds DEF ServicesInv
  <2>6. QED
    BY <2>2, <2>3, <2>4, <2>5 DEF TypeOK
<1>2. QED
  BY ServicesInitHolds, ServicesInductive, <1>1, PTL DEF Spec
=============================================================================
