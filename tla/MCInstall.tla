------------------------------ MODULE MCInstall ------------------------------
(* Two starts of the program on a machine with an earlier install.        *)
EXTENDS Install, TLC

ProcSymmetry == Permutations(Procs)
=============================================================================
