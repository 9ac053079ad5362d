--------------------------- MODULE FeeSettlement ---------------------------
(***************************************************************************)
(* What the asynchronous platform-fee bridge promises for every cashback   *)
(* ledger row, whatever collectors, leases and databases do underneath:    *)
(* at most one signed transfer is ever handed to the network for a row,    *)
(* and cashback is earned only by a transfer the chain has confirmed.      *)
(* PlatformFeeCollection implements it.                                    *)
(***************************************************************************)

CONSTANTS Row,      \* execution keys of cashback ledger rows
          Tx        \* signed fee transfers

VARIABLES outcome,  \* [Row -> Outcome]: what has become of the row's fee
          wire,     \* [Row -> SUBSET Tx]: transfers ever handed to the network
          landed    \* SUBSET Tx: transfers the chain confirmed

vars == <<outcome, wire, landed>>

Outcome == {"none", "open", "collected", "abandoned"}

Init ==
  /\ outcome \in [Row -> {"none", "open"}]
  /\ wire \in [Row -> {{}} \cup {{t} : t \in Tx}]
  /\ \A r \in Row : outcome[r] = "none" => wire[r] = {}
  /\ landed = {}

\* A landed Rust buy owes a fee.
Open(r) ==
  /\ outcome[r] = "none"
  /\ outcome' = [outcome EXCEPT ![r] = "open"]
  /\ UNCHANGED <<wire, landed>>

\* The only transfer of the row reaches the network. A collector that lost its
\* lease may do this after another one gave the row up.
Send(r, t) ==
  /\ outcome[r] \in {"open", "abandoned"}
  /\ wire[r] = {}
  /\ wire' = [wire EXCEPT ![r] = {t}]
  /\ UNCHANGED <<outcome, landed>>

Land(t) ==
  /\ \E r \in Row : t \in wire[r]
  /\ landed' = landed \cup {t}
  /\ UNCHANGED <<outcome, wire>>

Collect(r) ==
  /\ outcome[r] = "open"
  /\ wire[r] \cap landed # {}
  /\ outcome' = [outcome EXCEPT ![r] = "collected"]
  /\ UNCHANGED <<wire, landed>>

Abandon(r) ==
  /\ outcome[r] = "open"
  /\ outcome' = [outcome EXCEPT ![r] = "abandoned"]
  /\ UNCHANGED <<wire, landed>>

Next ==
  \/ \E r \in Row : Open(r) \/ Collect(r) \/ Abandon(r)
  \/ \E r \in Row, t \in Tx : Send(r, t)
  \/ \E t \in Tx : Land(t)

Spec == Init /\ [][Next]_vars
=============================================================================
