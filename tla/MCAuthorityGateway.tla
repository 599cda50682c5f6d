------------------------- MODULE MCAuthorityGateway -------------------------
(***************************************************************************)
(* Three envelopes, two of them on one frame, against a deque of two.      *)
(***************************************************************************)
EXTENDS AuthorityGateway, TLC

CONSTANTS e1, e2, e3, f1, f2

MCFrameOf == [e \in Envelopes |-> IF e = e3 THEN f2 ELSE f1]
MCThreadSymmetry == Permutations(Threads)
=============================================================================
