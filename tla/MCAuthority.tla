---------------------------- MODULE MCAuthority ----------------------------
(***************************************************************************)
(* A small authority: submissions of every shape, two handlers, and a few  *)
(* websocket clients.                                                      *)
(***************************************************************************)
EXTENDS Authority, TLC

CONSTANTS e1, flat, twin, bare, small, anon

Sub(env, nested, conf, confF, caller, keyOrg) ==
  [envelope |-> env, nested |-> nested, named |-> TRUE, conf |-> conf, confF |-> confF,
   caller |-> caller, keyOrg |-> keyOrg]

\* flat and twin carry the same envelope, as a repeated POST does; bare has no
\* envelope and an impossible confidence, which the nested form lets through.
MCBody ==
  [b \in Bodies |->
     CASE b = flat  -> Sub(e1, FALSE, 900, 0, "internal", "acme")
       [] b = twin  -> Sub(e1, FALSE, 0, 300, "internal", "acme")
       [] b = bare  -> Sub(NoEnvelope, TRUE, 1500, 0, "acme", "system")
       [] b = small -> Sub(NoEnvelope, FALSE, 0, 0, "internal", "acme")
       [] b = anon  -> Sub(e1, TRUE, 500, 0, "none", "acme")]

MCOrgs == {"system", "acme"}
MCAdjustments == {-900, 100}
MCConnSymmetry == Permutations(Conns) \cup Permutations(Handlers)
=============================================================================
