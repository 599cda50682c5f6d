----------------------------- MODULE MCServices -----------------------------
(***************************************************************************)
(* The services around the authority: the edge planet, the accounts and    *)
(* the quota of the Phase I API, the LLM keys, the predictions, the        *)
(* compliance engine and the websocket feed of the Python authority.  No   *)
(* two of the parts share a variable, so the run explores each with the    *)
(* others at rest: the states are a sum of theirs, not a product.          *)
(***************************************************************************)
EXTENDS Integers, Sequences, FiniteSets

CONSTANTS
  Requests, Callers,
  Count, MaxStarts, Learner, Uploaders, MaxModels, MaxPushes, MaxLives, Calls, BatchSize, MaxAttempts,
  MaxCodes, MaxKeys, Settings, Threads, Limit, Window, MaxTime, Sockets, Quota, MaxDevices, MaxEvents,
  Providers, N, Loop, Zones, MaxLists, HasDatabase,
  Subscribers, MaxDocs

VARIABLES
  stop, current, threads, req, overlapped,
  camStop, camCurrent, camThreads, camReq, camOverlapped,
  served, waiting, up, saved, mixed, life, published, local, act,
  call,
  user, orgs, keys, signUp, codes, mail, signed,
  clock, entries, read, late, let,
  row, events, devices, sockets, submission, raced,
  index, uses, request,
  ready, latest, posted, cut, begun, made, worker,
  job, lines, spoilt, unfinished, ragged, rows,
  subscribers, link, walk

Stream == INSTANCE EdgeLoop
Camera == INSTANCE EdgeLoop WITH Count <- 0, stop <- camStop, current <- camCurrent,
            threads <- camThreads, req <- camReq, overlapped <- camOverlapped
Fed    == INSTANCE EdgeLearner WITH made <- mixed
Sender == INSTANCE EdgeSender
Auth   == INSTANCE AuthAccounts WITH req <- signUp
Rate   == INSTANCE RateWindow
API    == INSTANCE Backend WITH req <- submission, overlapped <- raced
Llm    == INSTANCE LlmKeys
Pred   == INSTANCE Predictive
Audit  == INSTANCE Compliance WITH Jobs <- Calls
Feed   == INSTANCE GatewayFeed

ASSUME PartsAssumption ==
  /\ Stream!NumbersAssumption /\ Camera!NumbersAssumption /\ Fed!NamesAssumption /\ Fed!NumbersAssumption
  /\ Sender!NumbersAssumption /\ Auth!NumbersAssumption /\ Auth!SettingsAssumption
  /\ Rate!NumbersAssumption /\ API!NumbersAssumption
  /\ Llm!ProvidersAssumption /\ Llm!KeysAssumption /\ Pred!NamesAssumption /\ Pred!ListsAssumption
  /\ Audit!DatabaseAssumption /\ Audit!AttemptsAssumption /\ Feed!DocsAssumption

streamVars == <<stop, current, threads, req, overlapped>>
cameraVars == <<camStop, camCurrent, camThreads, camReq, camOverlapped>>
fedVars    == <<served, waiting, up, saved, mixed, life, published, local, act>>
authVars   == <<user, orgs, keys, signUp, codes, mail, signed>>
rateVars   == <<clock, entries, read, late, let>>
apiVars    == <<row, events, devices, sockets, submission, raced>>
llmVars    == <<index, uses, request>>
predVars   == <<ready, latest, posted, cut, begun, made, worker>>
auditVars  == <<job, lines, spoilt, unfinished, ragged, rows>>
feedVars   == <<subscribers, link, walk>>
vars == <<streamVars, cameraVars, fedVars, call, authVars, rateVars, apiVars, llmVars, predVars, auditVars,
          feedVars>>

StreamInit == Stream!Init
CameraInit == Camera!Init
FedInit == Fed!Init
SenderInit == Sender!Init
AuthInit == Auth!Init
RateInit == Rate!Init
APIInit == API!Init
LlmInit == Llm!Init
PredInit == Pred!Init
AuditInit == Audit!Init
FeedInit == Feed!Init

Init ==
  /\ StreamInit /\ CameraInit /\ FedInit /\ SenderInit
  /\ AuthInit /\ RateInit /\ APIInit
  /\ LlmInit /\ PredInit /\ AuditInit /\ FeedInit

OthersRest(part) ==
  /\ IF part = "stream" THEN TRUE ELSE StreamInit /\ UNCHANGED streamVars
  /\ IF part = "camera" THEN TRUE ELSE CameraInit /\ UNCHANGED cameraVars
  /\ IF part = "fed"    THEN TRUE ELSE FedInit /\ UNCHANGED fedVars
  /\ IF part = "sender" THEN TRUE ELSE SenderInit /\ UNCHANGED call
  /\ IF part = "auth"   THEN TRUE ELSE AuthInit /\ UNCHANGED authVars
  /\ IF part = "rate"   THEN TRUE ELSE RateInit /\ UNCHANGED rateVars
  /\ IF part = "api"    THEN TRUE ELSE APIInit /\ UNCHANGED apiVars
  /\ IF part = "llm"    THEN TRUE ELSE LlmInit /\ UNCHANGED llmVars
  /\ IF part = "pred"   THEN TRUE ELSE PredInit /\ UNCHANGED predVars
  /\ IF part = "audit"  THEN TRUE ELSE AuditInit /\ UNCHANGED auditVars
  /\ IF part = "feed"   THEN TRUE ELSE FeedInit /\ UNCHANGED feedVars

Next ==
  \/ OthersRest("stream") /\ Stream!Next
  \/ OthersRest("camera") /\ Camera!Next
  \/ OthersRest("fed")    /\ Fed!Next
  \/ OthersRest("sender") /\ Sender!Next
  \/ OthersRest("auth")   /\ Auth!Next
  \/ OthersRest("rate")   /\ Rate!Next
  \/ OthersRest("api")    /\ API!Next
  \/ OthersRest("llm")    /\ Llm!Next
  \/ OthersRest("pred")   /\ Pred!Next
  \/ OthersRest("audit")  /\ Audit!Next
  \/ OthersRest("feed")   /\ Feed!Next

Spec == Init /\ [][Next]_vars /\ Stream!Fairness /\ Camera!Fairness

-----------------------------------------------------------------------------
\* The types of all parts.
TypeOK ==
  /\ Stream!TypeOK /\ Camera!TypeOK /\ Fed!TypeOK /\ Sender!TypeOK
  /\ Auth!TypeOK /\ Rate!TypeOK /\ API!TypeOK
  /\ Llm!TypeOK /\ Pred!TypeOK /\ Audit!TypeOK /\ Feed!TypeOK

\* EdgeLoop, for the stream and the camera.
OneAtATime == Stream!OneAtATime /\ Camera!OneAtATime
StopTakesHold == Stream!StopTakesHold /\ Camera!StopTakesHold
StopEndsAll == Stream!StopEndsAll /\ Camera!StopEndsAll

\* EdgeLearner and EdgeSender.
ModelsInOrder == Fed!ModelsInOrder
ToldIsTrue == Sender!ToldIsTrue

\* AuthAccounts, RateWindow and Backend.
AccountIsWhole == Auth!AccountIsWhole
CodeCanArrive == Auth!CodeCanArrive
WindowBound == Rate!WindowBound
QuotaIsCounted == API!QuotaIsCounted
QuotaEnforced == API!QuotaEnforced

\* LlmKeys.
KeysBeforeFallback == Llm!KeysBeforeFallback

\* Predictive.
ShownIsPosted == Pred!ShownIsPosted

\* Compliance.
HandedOnIsAudited == Audit!HandedOnIsAudited

\* GatewayFeed.
MissedIsShifted == Feed!MissedIsShifted
=============================================================================
