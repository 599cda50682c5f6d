---------------------------- MODULE EventLedger ----------------------------
(***************************************************************************)
(* What the swarm and the authority promise together, without saying how:  *)
(* a record of accepted envelopes.                                         *)
(*                                                                         *)
(* An envelope is recorded only after a node accepted it; recording it     *)
(* again changes nothing; a forwarder is told of success only for an       *)
(* envelope that was recorded.  The record is volatile: it may be          *)
(* forgotten as a whole, and an accepted envelope may never reach it.      *)
(***************************************************************************)
CONSTANT Envelopes

VARIABLES
  status,  \* how far each envelope has come
  told     \* envelopes whose forwarder is being told of success

ledgerVars == <<status, told>>

Statuses == {"unknown", "accepted", "recorded", "forgotten"}

LedgerTypeOK ==
  /\ status \in [Envelopes -> Statuses]
  /\ told \in SUBSET Envelopes

LedgerInit ==
  /\ status = [e \in Envelopes |-> "unknown"]
  /\ told = {}

Accept(e) ==
  /\ status[e] = "unknown"
  /\ status' = [status EXCEPT ![e] = "accepted"]
  /\ UNCHANGED told

Record(e) ==
  /\ status[e] \in {"accepted", "forgotten"}
  /\ status' = [status EXCEPT ![e] = "recorded"]
  /\ UNCHANGED told

Tell(e) ==
  /\ status[e] = "recorded"
  /\ told' = told \cup {e}
  /\ UNCHANGED status

\* Forwarders move on; several do when a node dies.
Settle ==
  /\ told' \in SUBSET told
  /\ UNCHANGED status

Forget ==
  /\ status' = [e \in Envelopes |-> IF status[e] = "recorded" THEN "forgotten" ELSE status[e]]
  /\ UNCHANGED told

LedgerNext ==
  \/ \E e \in Envelopes : Accept(e) \/ Record(e) \/ Tell(e)
  \/ Settle
  \/ Forget

LedgerSpec == LedgerInit /\ [][LedgerNext]_ledgerVars

=============================================================================
