---------------------------- MODULE MCSwarmMesh ----------------------------
(***************************************************************************)
(* Small instances of SwarmMesh: the values of its function constants.     *)
(***************************************************************************)
EXTENDS SwarmMesh

CONSTANTS e1, e2, e3

\* e1 and e2 come in as events, e3 as a prediction.
MCTopicOf == [e \in Envelopes |-> IF e = e3 THEN "prediction" ELSE "event"]

\* A usual and a certain confidence.
MCConfidence == [e \in Envelopes |-> IF e = e1 THEN 300 ELSE 1000]
=============================================================================
