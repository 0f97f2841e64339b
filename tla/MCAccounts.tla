----------------------------- MODULE MCAccounts -----------------------------
(* Accounts with threads that TLC may exchange. *)
EXTENDS Accounts, TLC

Symmetry == Permutations(Threads)
=============================================================================
