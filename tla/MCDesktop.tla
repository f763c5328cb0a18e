------------------------------ MODULE MCDesktop -----------------------------
(* One row, two goroutines that change what is shown.                     *)
EXTENDS Desktop, TLC

ChangerSymmetry == Permutations(Changers)
=============================================================================
