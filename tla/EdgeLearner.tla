----------------------------- MODULE EdgeLearner -----------------------------
(***************************************************************************)
(* The federated learner of edge-planet/main.py against the aggregator of  *)
(* fl-aggregator/main.py.  The loop thread and the train-once endpoint of  *)
(* the edge copy the local model, train, push the update and fetch the     *)
(* global model; the lock covers the copy and the installation alone.  The *)
(* aggregator's threads set the version and then the weights, and a        *)
(* download reads the one and then the other, without a lock.              *)
(*                                                                         *)
(* The aggregator by itself is FLAggregator; here it is what a download    *)
(* can see of it.  Weights are numbered in the order they were set, 0 are  *)
(* the zeros a process starts with.                                        *)
(***************************************************************************)
EXTENDS Integers, FiniteSets

CONSTANTS
  Learner,     \* the thread of _fl_loop
  Callers,     \* pool threads of the edge that serve train-once
  Uploaders,   \* pool threads of the aggregator that serve uploads
  MaxModels,   \* bound on the models aggregated
  MaxPushes,   \* bound on the updates that wait together
  MaxLives     \* bound on the restarts of the aggregator

\* Assumed of the constants by MCServices and by the theorems.
NamesAssumption == Learner \notin Callers
NumbersAssumption == {MaxModels, MaxPushes, MaxLives} \subseteq Nat

VARIABLES
  served,    \* current_version and current_weights of the aggregator
  waiting,   \* its pending updates
  up,        \* what each of its threads does
  saved,     \* the models on its disk
  made,      \* models aggregated so far
  life,      \* restarts of the aggregator so far
  published, \* history: the models whose version and weights were set together,
             \* or saved as one
  local,     \* _fl_version and _fl_weights of the edge, and where they are from
  act        \* what each thread of the edge does

vars == <<served, waiting, up, saved, made, life, published, local, act>>

Actors == Callers \cup {Learner}

Model == [version : Nat, weights : Nat]
Zeros == [version |-> 1, weights |-> 0]

\* What a download has brought, and of its history the life of the aggregator
\* it was read in, and whether the model changed under the reader.
Download == [version : Nat, weights : Nat, life : Nat, torn : BOOLEAN]

\* overtaken: history, another thread installed a model since this one's
\* download began.
Act == [at : {"idle", "push", "fetch", "weights", "install"}, got : Download, overtaken : BOOLEAN]

Uploader == [at : {"idle", "bump", "set", "call", "save"}, model : Model]

TypeOK ==
  /\ served \in Model
  /\ waiting \in 0 .. MaxPushes
  /\ up \in [Uploaders -> Uploader]
  /\ saved \subseteq Model /\ published \subseteq Model
  /\ {made, life} \subseteq Nat
  /\ local \in Download
  /\ act \in [Actors -> Act]

Initial == [version |-> 1, weights |-> 0, life |-> 0, torn |-> FALSE]
Resting == [at |-> "idle", got |-> Initial, overtaken |-> FALSE]
NoUpload == [at |-> "idle", model |-> Zeros]

\* The edge's loop begins with a fetch.
Init ==
  /\ served = Zeros
  /\ waiting = 0
  /\ up = [u \in Uploaders |-> NoUpload]
  /\ saved = {Zeros}
  /\ made = 0 /\ life = 0
  /\ published = {Zeros}
  /\ local = Initial
  /\ act = [a \in Actors |-> IF a = Learner THEN [Resting EXCEPT !.at = "fetch"] ELSE Resting]

aggregatorVars == <<served, waiting, up, saved, made, life, published>>

-----------------------------------------------------------------------------
(***************************************************************************)
(* The aggregator.                                                         *)
(***************************************************************************)

\* A thread finds enough updates and mixes them.
Mix(u) ==
  /\ up[u].at = "idle"
  /\ waiting > 0
  /\ made + Cardinality({v \in Uploaders : up[v].at \in {"bump", "set"}}) < MaxModels
  /\ up' = [up EXCEPT ![u].at = "bump"]
  /\ UNCHANGED <<served, waiting, saved, made, life, published, local, act>>

\* A download that has read the version and not the weights is torn.
Tear == act' = [a \in Actors |-> [act[a] EXCEPT !.got.torn = @ \/ act[a].at = "weights"]]

Bump(u) ==
  /\ up[u].at = "bump"
  /\ served' = [served EXCEPT !.version = @ + 1]
  /\ up' = [up EXCEPT ![u].at = "set"]
  /\ Tear
  /\ UNCHANGED <<waiting, saved, made, life, published, local>>

\* The weights follow the version, whatever it is by now.
SetWeights(u) ==
  /\ up[u].at = "set"
  /\ made' = made + 1
  /\ served' = [served EXCEPT !.weights = made + 1]
  /\ published' = published \cup {served'}
  /\ up' = [up EXCEPT ![u].at = "call"]
  /\ Tear
  /\ UNCHANGED <<waiting, saved, life, local>>

\* The arguments of _save_model: another thread may have set either meanwhile.
CallSave(u) ==
  /\ up[u].at = "call"
  /\ up' = [up EXCEPT ![u] = [at |-> "save", model |-> served]]
  /\ published' = published \cup {served}
  /\ UNCHANGED <<served, waiting, saved, made, life, local, act>>

\* The file of a version is written over.
Written(m) == {n \in saved : n.version # m.version} \cup {m}

\* _save_model, and clear(); or an error, after the model was saved or before.
Save(u) ==
  /\ up[u].at = "save"
  /\ \/ saved' = Written(up[u].model) /\ waiting' = 0
     \/ saved' \in {saved, Written(up[u].model)} /\ UNCHANGED waiting
  /\ up' = [up EXCEPT ![u] = NoUpload]
  /\ UNCHANGED <<served, made, life, published, local, act>>

\* Startup loads the newest model, or passes over one it cannot read and
\* begins at version 1 with zeros.
Loadable == {Zeros} \cup {m \in saved : \A n \in saved : n.version <= m.version}

\* What is in memory is gone, the downloads under way with it.
Restart ==
  /\ life < MaxLives
  /\ life' = life + 1
  /\ waiting' = 0
  /\ up' = [u \in Uploaders |-> NoUpload]
  /\ \E m \in Loadable : served' = m /\ saved' = Written(m)
  /\ act' = [a \in Actors |-> IF act[a].at = "weights" THEN Resting ELSE act[a]]
  /\ UNCHANGED <<made, published, local>>

-----------------------------------------------------------------------------
(***************************************************************************)
(* The edge planet.                                                        *)
(***************************************************************************)

\* The local model is copied and trained; an update does not say what it was
\* trained from.
Copy(a) ==
  /\ act[a].at = "idle"
  /\ act' = [act EXCEPT ![a].at = "push"]
  /\ UNCHANGED <<aggregatorVars, local>>

\* _push_local_update: accepted, or refused or lost on the way; an answer that
\* is lost or late makes no difference, errors are logged.
Push(a) ==
  /\ act[a].at = "push"
  /\ \/ waiting < MaxPushes /\ waiting' = waiting + 1
     \/ UNCHANGED waiting
  /\ act' = [act EXCEPT ![a].at = "fetch"]
  /\ UNCHANGED <<served, up, saved, made, life, published, local>>

\* _fetch_global_model is served: model_latest reads the version.
ReadVersion(a) ==
  /\ act[a].at = "fetch"
  /\ act' = [act EXCEPT ![a] =
       [at |-> "weights", overtaken |-> FALSE,
        got |-> [version |-> served.version, weights |-> 0, life |-> life,
                 torn |-> \E u \in Uploaders : up[u].at = "set"]]]
  /\ UNCHANGED <<aggregatorVars, local>>

\* And the weights.
ReadWeights(a) ==
  /\ act[a].at = "weights"
  /\ act' = [act EXCEPT ![a].at = "install", ![a].got.weights = served.weights]
  /\ UNCHANGED <<aggregatorVars, local>>

\* There is no response, or none of use.
NoResponse(a) ==
  /\ act[a].at \in {"fetch", "weights"}
  /\ act' = [act EXCEPT ![a] = Resting]
  /\ UNCHANGED <<aggregatorVars, local>>

\* Mutant: the version is set, the weights are not.
VersionOnly(a) == [act[a].got EXCEPT !.weights = local.weights]

\* Under the lock, both or neither.
Installed(a) == act[a].got

Install(a) ==
  /\ act[a].at = "install"
  /\ local' = Installed(a)
  /\ act' = [b \in Actors |->
               IF b = a THEN Resting
               ELSE [act[b] EXCEPT !.overtaken = @ \/ act[b].at \in {"weights", "install"}]]
  /\ UNCHANGED aggregatorVars

Aggregate(u) == Mix(u) \/ Bump(u) \/ SetWeights(u) \/ CallSave(u) \/ Save(u)
Train(a) == Copy(a) \/ Push(a) \/ ReadVersion(a) \/ ReadWeights(a) \/ NoResponse(a) \/ Install(a)

Next ==
  \/ \E u \in Uploaders : Aggregate(u)
  \/ Restart
  \/ \E a \in Actors : Train(a)

Spec == Init /\ [][Next]_vars

-----------------------------------------------------------------------------
(***************************************************************************)
(* Properties.                                                             *)
(***************************************************************************)

ModelOf(d) == [version |-> d.version, weights |-> d.weights]

\* What is installed goes back, in version or in weights, only when another
\* thread's has overtaken it or the aggregator restarted in between.
OlderOnlyWhenOvertaken ==
  \A a \in Actors :
    act[a].at = "install" /\ ~act[a].overtaken /\ act[a].got.life = local.life =>
      act[a].got.version >= local.version /\ act[a].got.weights >= local.weights

\* The edge trains from what the aggregator set or saved as one model, and
\* reports its version, unless an aggregation was between its version and its
\* weights during the download; and it goes back to an older model only as above.
ModelsInOrder ==
  /\ ~local.torn => ModelOf(local) \in published
  /\ OlderOnlyWhenOvertaken

-----------------------------------------------------------------------------
(***************************************************************************)
(* The inductive invariant.                                                *)
(***************************************************************************)

\* The version and the weights are of one model except between the two
\* assignments, and what is saved or to be saved is such a model.
ServedIsPublished ==
  /\ (\A u \in Uploaders : up[u].at # "set") => served \in published
  /\ Zeros \in published /\ saved \subseteq published
  /\ \A u \in Uploaders : up[u].at = "save" => up[u].model \in published
  /\ \A m \in published \cup {served} : m.weights <= made

\* A download was of the model served then, which has only grown since.
Past(d) ==
  /\ d.life <= life
  /\ d.life = life => d.version <= served.version /\ d.weights <= served.weights

Whole(d) == ~d.torn => ModelOf(d) \in published

DownloadsAreOfThePast ==
  /\ Past(local) /\ Whole(local)
  /\ \A a \in Actors :
       /\ act[a].at = "install" => Past(act[a].got) /\ Whole(act[a].got)
       /\ act[a].at = "weights" =>
            /\ act[a].got.life = life /\ act[a].got.version <= served.version
            /\ ~act[a].got.torn =>
                 /\ act[a].got.version = served.version
                 /\ \A u \in Uploaders : up[u].at # "set"
            /\ ~act[a].overtaken /\ local.life = life => local.version <= act[a].got.version

FedInv == TypeOK /\ ServedIsPublished /\ DownloadsAreOfThePast /\ OlderOnlyWhenOvertaken

=============================================================================
