---------------------------- MODULE MCAutoDraft ----------------------------
(* AutoDraft for TLC: ids are interchangeable in its safety properties. *)
EXTENDS AutoDraft, TLC
IdSymmetry == Permutations(Ids)
=============================================================================
