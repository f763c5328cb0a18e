------------------------------- MODULE MCAuth -------------------------------
(* Auth for TLC: slots, accounts and goroutines are interchangeable in its *)
(* safety properties.                                                      *)
EXTENDS Auth, TLC
AuthSymmetry == Permutations(Slots) \cup Permutations(Accounts) \cup Permutations(Threads)
=============================================================================
