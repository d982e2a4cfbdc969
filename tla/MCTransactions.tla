-------------------------- MODULE MCTransactions --------------------------
(* Small instances of TransactionFrames: a root and a few calls inside it,   *)
(* which are interchangeable.                                                *)
EXTENDS TransactionFrames, TLC

CONSTANTS top, c1, c2, c3

InnerCalls == Permutations(Frames \ {Top})
=============================================================================
