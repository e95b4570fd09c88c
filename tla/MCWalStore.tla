----------------------------- MODULE MCWalStore -----------------------------
(* Instances of WalStore for TLC.                                          *)
EXTENDS WalStore, TLC

Symmetric == Permutations(Val)
=============================================================================
