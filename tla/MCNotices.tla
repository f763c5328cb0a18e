------------------------------ MODULE MCNotices -----------------------------
(* One row in the directory at startup, one that arrives, two drafters.   *)
EXTENDS Notices, TLC

DrafterSymmetry == Permutations(Drafters)
=============================================================================
