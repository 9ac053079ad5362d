--------------------------- MODULE BalanceLedger ---------------------------
(***************************************************************************)
(* The buys of the Rust worker that run at the same time on one copy       *)
(* wallet (executor.rs handle_inner, with the wallet-balance guard on) and *)
(* what keeps them within its funds: the cached on-chain balance, which    *)
(* refreshers replace, and the ledger of reservations beside it            *)
(* (balance_cache.rs).  Time is a clock of coarse ticks; no delay of an    *)
(* executor, an answer or the chain is bounded.                            *)
(***************************************************************************)
EXTENDS Naturals, FiniteSets

CONSTANTS
  Executor,    \* runs of handle_inner past their earlier guards, one buy each
  Refresher,   \* the refresh loop and the snapshot reloader
  Spend,       \* estimated_total_spend_lamports of each executor
  Funds,       \* lamports of the wallet at the start
  Reconcile,   \* RESERVATION_RECONCILE_MS
  Stale,       \* stale_after_ms of the cached balance
  MaxTime      \* bound on the clock

LedgerAssumption ==
  /\ IsFiniteSet(Executor)
  /\ Spend \in [Executor -> Nat \ {0}]
  /\ Funds \in Nat /\ Stale \in Nat
  /\ Reconcile \in Nat \ {0} /\ MaxTime \in Nat

VARIABLES
  now,
  funds,      \* lamports of the wallet on chain
  cache,      \* balances[wallet]: lamports, fetched; or not known
  answer,     \* the answer each refresher is waiting for
  ledger,     \* reservations[wallet]: lamports, expires; zero lamports if absent
  stage,      \* where each executor is
  since,      \* when it reserved
  tx,         \* its transaction
  lapsed      \* history: whose reservation ended before the balance showed its transaction

vars == <<now, funds, cache, answer, ledger, stage, since, tx, lapsed>>

\* A balance carries, as history, the transactions that had landed when it was read.
Time == 0 .. MaxTime
Unknown == [known |-> FALSE, lamports |-> 0, fetched |-> 0, seen |-> {}]
NoAnswer == [open |-> FALSE, lamports |-> 0, seen |-> {}]
NoEntry == [lamports |-> 0, expires |-> 0]

TypeOK ==
  /\ now \in Time
  /\ funds \in Nat
  /\ cache \in [known : BOOLEAN, lamports : Nat, fetched : Time, seen : SUBSET Executor]
  /\ answer \in [Refresher -> [open : BOOLEAN, lamports : Nat, seen : SUBSET Executor]]
  /\ ledger \in [lamports : Nat, expires : Nat]
  /\ stage \in [Executor -> {"idle", "held", "sending", "done"}]
  /\ since \in [Executor -> Time]
  /\ tx \in [Executor -> {"none", "pending", "landed", "dead"}]
  /\ lapsed \subseteq Executor

Init ==
  /\ now = 0 /\ funds = Funds
  /\ cache \in {Unknown, [known |-> TRUE, lamports |-> Funds, fetched |-> 0, seen |-> {}]}
  /\ answer = [f \in Refresher |-> NoAnswer]
  /\ ledger = NoEntry
  /\ stage = [e \in Executor |-> "idle"]
  /\ since = [e \in Executor |-> 0]
  /\ tx = [e \in Executor |-> "none"]
  /\ lapsed = {}

-----------------------------------------------------------------------------
(* check_and_reserve, release_reservation *)

\* Reservations whose time is over although their transaction can still be sent or
\* can still land, or has landed and the balance at hand does not show it.
Lapsed ==
  {e \in Executor :
     /\ since[e] + Reconcile <= now
     /\ \/ stage[e] = "held" \/ tx[e] = "pending"
        \/ tx[e] = "landed" /\ cache.known /\ e \notin cache.seen}

\* Saturating subtraction.
Minus(a, b) == IF a > b THEN a - b ELSE 0

\* prune_expired_reservations: the entry is dropped when its time is over.
Pruned == IF ledger.expires > now THEN ledger ELSE NoEntry

\* Mutant: a refresh is taken to know about the reservations of before.
Available_RefreshReconciles ==
  Minus(cache.lamports, IF ledger.expires > cache.fetched + Reconcile
                        THEN Pruned.lamports ELSE 0)

Available == Minus(cache.lamports, Pruned.lamports)

Fresh == cache.known /\ now - cache.fetched <= Stale

\* Mutant: the entry keeps the expiry of its first reservation.
Reserved_FirstExpiry(e) ==
  [lamports |-> Pruned.lamports + Spend[e],
   expires |-> IF Pruned.lamports = 0 THEN now + Reconcile ELSE Pruned.expires]

Reserved(e) ==
  [lamports |-> Pruned.lamports + Spend[e], expires |-> now + Reconcile]

\* An earlier guard of handle_inner ends the run: a stale queue entry, the plan,
\* the key, the blockhash, the building, a limit on spend or shape.
Refuse(e) ==
  /\ stage[e] = "idle"
  /\ stage' = [stage EXCEPT ![e] = "done"]
  /\ UNCHANGED <<now, funds, cache, answer, ledger, since, tx, lapsed>>

\* The last guard; a refusal prunes the ledger too.
Reserve(e) ==
  /\ stage[e] = "idle"
  /\ IF Fresh /\ Available >= Spend[e]
     THEN /\ ledger' = Reserved(e)
          /\ stage' = [stage EXCEPT ![e] = "held"]
          /\ since' = [since EXCEPT ![e] = now]
     ELSE /\ ledger' = IF cache.known THEN Pruned ELSE ledger
          /\ stage' = [stage EXCEPT ![e] = "done"]
          /\ UNCHANGED since
  /\ UNCHANGED <<now, funds, cache, answer, tx, lapsed>>

Released(e) ==
  IF Minus(ledger.lamports, Spend[e]) = 0 THEN NoEntry
  ELSE [ledger EXCEPT !.lamports = Minus(@, Spend[e])]

\* Signing, serialising, the size guard, the simulation or the dry run ends
\* the run: the reservation is dropped uncommitted.
GiveUp(e) ==
  /\ stage[e] = "held"
  /\ ledger' = Released(e)
  /\ stage' = [stage EXCEPT ![e] = "done"]
  /\ UNCHANGED <<now, funds, cache, answer, since, tx, lapsed>>

\* Mutant: a transaction whose fanout reported an error frees its reservation.
AfterFanout_Releases(e, ok) == IF ok THEN ledger ELSE Released(e)

\* The reservation was committed just before the fanout: its result leaves it.
AfterFanout(e, ok) == ledger

Fanout(e) ==
  /\ stage[e] = "held"
  /\ stage' = [stage EXCEPT ![e] = "sending"]
  /\ tx' = [tx EXCEPT ![e] = "pending"]
  /\ UNCHANGED <<now, funds, cache, answer, ledger, since, lapsed>>

\* Some lane acknowledged the transaction, or all report errors.
Result(e) ==
  /\ stage[e] = "sending"
  /\ \E ok \in BOOLEAN : ledger' = AfterFanout(e, ok)
  /\ stage' = [stage EXCEPT ![e] = "done"]
  /\ UNCHANGED <<now, funds, cache, answer, since, tx, lapsed>>

-----------------------------------------------------------------------------
(* refresh_once *)

\* The node answers with the balance of this moment.
Ask(f) ==
  /\ ~answer[f].open
  /\ answer' = [answer EXCEPT ![f] = [open |-> TRUE, lamports |-> funds,
                                      seen |-> {e \in Executor : tx[e] = "landed"}]]
  /\ UNCHANGED <<now, funds, cache, ledger, stage, since, tx, lapsed>>

\* The answer arrives and replaces the cached balances, in which this wallet is
\* missing when it was not listed; or the call fails.
Store(f) ==
  /\ answer[f].open
  /\ answer' = [answer EXCEPT ![f] = NoAnswer]
  /\ cache' \in {cache, Unknown, [known |-> TRUE, lamports |-> answer[f].lamports,
                                  fetched |-> now, seen |-> answer[f].seen]}
  /\ UNCHANGED <<now, funds, ledger, stage, since, tx>>
  /\ lapsed' = lapsed \cup Lapsed'

-----------------------------------------------------------------------------
(* The chain and the clock *)

\* A transaction the wallet can no longer pay fails.
Land(e) ==
  /\ tx[e] = "pending"
  /\ Spend[e] <= funds
  /\ tx' = [tx EXCEPT ![e] = "landed"]
  /\ funds' = funds - Spend[e]
  /\ UNCHANGED <<now, cache, answer, ledger, stage, since, lapsed>>

Die(e) ==
  /\ tx[e] = "pending"
  /\ tx' = [tx EXCEPT ![e] = "dead"]
  /\ UNCHANGED <<now, funds, cache, answer, ledger, stage, since, lapsed>>

Tick ==
  /\ now < MaxTime /\ now' = now + 1
  /\ UNCHANGED <<funds, cache, answer, ledger, stage, since, tx>>
  /\ lapsed' = lapsed \cup Lapsed'

Next ==
  \/ \E e \in Executor :
       Refuse(e) \/ Reserve(e) \/ GiveUp(e) \/ Fanout(e) \/ Result(e) \/ Land(e) \/ Die(e)
  \/ \E f \in Refresher : Ask(f) \/ Store(f)
  \/ Tick

Spec == Init /\ [][Next]_vars

-----------------------------------------------------------------------------
(* Properties *)

\* The lamports the executors of S spend, one by one, and their number.
Lamports(S) == UNION {{e} \X (1 .. Spend[e]) : e \in S}
Total(S) == Cardinality(Lamports(S))

\* What may still be taken from the wallet.
Outstanding == {e \in Executor : tx[e] = "pending" \/ stage[e] = "held"}

\* The transactions under way never ask for more than the wallet holds, however
\* buys run at the same time, refresh answers come late or out of order, fanouts
\* report errors and reservations are given up (check_and_reserve,
\* WalletBalanceReservation): only a reservation whose time ended while its
\* transaction could still land, or had landed unseen by the cached balance, may
\* be spent a second time, and by no more than its own amount.
NoOverdraft == Total(Outstanding) <= funds + Total(lapsed)

-----------------------------------------------------------------------------
(* The inductive invariant *)

\* Counted while its reservation lasts and was not given up.
Kept(e) == stage[e] = "held" \/ tx[e] # "none"
Counted == {e \in Executor : Kept(e) /\ since[e] + Reconcile > now}

\* Given up after its time: what it dropped was the reservation of others.
Eaten == {e \in lapsed : stage[e] = "done" /\ tx[e] = "none"}

\* What has landed and a balance does not show.
Missing(seen) == {e \in Executor : tx[e] = "landed" /\ e \notin seen}

StageInv(e) ==
  /\ since[e] <= now
  /\ stage[e] \in {"idle", "held"} => tx[e] = "none"
  /\ stage[e] = "sending" => tx[e] # "none"

\* The ledger covers the counted reservations and lasts as long as they do.
Covered ==
  /\ Total(Counted) <= Pruned.lamports + Total(Eaten)
  /\ ledger.lamports = 0 \/ \A e \in Counted : since[e] + Reconcile <= ledger.expires

\* An old balance misses at most what has landed since it was read.
BalanceInv(lamports, seen) ==
  /\ \A e \in seen : tx[e] = "landed"
  /\ lamports <= funds + Total(Missing(seen))

LedgerInv ==
  /\ TypeOK
  /\ \A e \in Executor : StageInv(e)
  /\ \A f \in Refresher : answer[f].open => BalanceInv(answer[f].lamports, answer[f].seen)
  /\ cache.known => BalanceInv(cache.lamports, cache.seen)
  /\ Lapsed \subseteq lapsed
  /\ Covered /\ NoOverdraft
=============================================================================
