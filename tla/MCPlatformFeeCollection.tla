---------------------- MODULE MCPlatformFeeCollection ----------------------
(***************************************************************************)
(* Instances of PlatformFeeCollection for TLC.                             *)
(***************************************************************************)
EXTENDS PlatformFeeCollection, FiniteSets, TLC

CONSTANTS r1, r2, walletA, walletB

OwnTerms == (r1 :> walletA) @@ (r2 :> walletB)   \* fees that differ
SameTerms == [r \in Row |-> walletA]     \* same wallet and amount

Symmetry == Permutations(Collector) \cup Permutations(Token)
=============================================================================
