--------------------------- MODULE MCWebhookWorker ---------------------------
(***************************************************************************)
(* Two registrations; three events against a store of two.                 *)
(***************************************************************************)
EXTENDS WebhookWorker
=============================================================================
