---------------------------- MODULE MCBinding ----------------------------
(* Small instances of TransactionBinding.  Calls, frames and tenants are     *)
(* interchangeable.                                                          *)
EXTENDS TransactionBinding, TLC

CONSTANTS t1, t2, t3, f1, f2, i1, i2

Interchangeable == Permutations(Tasks) \cup Permutations(Frames) \cup Permutations(Ids)
=============================================================================
