-------------------------- MODULE MCCashbackPayout --------------------------
(***************************************************************************)
(* Instances of CashbackPayout for TLC.                                    *)
(***************************************************************************)
EXTENDS CashbackPayout, TLC

CONSTANTS e1, e2, e3

\* With a cap of 4: e1 and e2 together exceed it, and a correction, e3, brings
\* the balance back under it.
MixedLamports == (e1 :> 2) @@ (e2 :> 3) @@ (e3 :> -2)

Symmetry == Permutations(Bot) \cup Permutations(Payout)
=============================================================================
