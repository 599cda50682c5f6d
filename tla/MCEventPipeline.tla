-------------------------- MODULE MCEventPipeline --------------------------
(***************************************************************************)
(* Small pipelines: one or two nodes, two envelopes, two handlers.         *)
(***************************************************************************)
EXTENDS EventPipeline, TLC

CONSTANTS e1, e2

MCTopicOf == [e \in Envelopes |-> "event"]

\* 0.3 and 0: both are confidences the ingress accepts.
MCConfidence == [e \in Envelopes |-> IF e = e1 THEN 300 ELSE 0]
MCKeyOrg == [e \in Envelopes |-> "acme"]
MCOrgs == {"system", "acme"}
MCHandlerSymmetry == Permutations(Handlers)
=============================================================================
