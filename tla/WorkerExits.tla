----------------------------- MODULE WorkerExits -----------------------------
(***************************************************************************)
(* One copy buy of the Rust worker and the sells that follow it            *)
(* (executor.rs, live.rs): the guards and the reservation before the buy,  *)
(* the trailing schedule or the auto-sell after it, the auto-sell at an    *)
(* observed sell of the target. A token balance is asked of an RPC that    *)
(* may be behind, and a send whose answer is lost may still land.          *)
(* Tokens, lamports and percents are small numbers; delays are left out.   *)
(***************************************************************************)
EXTENDS Naturals, FiniteSets, SequencesExt, FiniteSetsExt

CONSTANTS
  Bought, Held,   \* the tokens of the buy, and what the wallet may hold already
  Plan,           \* trailing plans: [basis, steps], the steps in percent
  MaxSteps,       \* TRAILING_SELL_MAX_STEPS
  Fee,            \* fees, tips and rent of the buy
  MaxTargets,     \* bound: observed sells of the target
  Null

VARIABLES
  options,        \* the settings that matter here
  coin,           \* the route of the buy and the cashback flag of its curve
  asked, spend,   \* the planned spend, and the spend of the build
  reserved,       \* the reservation in the wallet's cached balance
  buy, buyFate,   \* where handle_inner is, and the transaction on the chain
  held, past,     \* the token balance, and every balance an RPC may still report
  context,        \* a sell context of the target is cached
  targets,        \* observed sells so far
  trail,          \* handle_trailing_sell_results
  auto,           \* handle_auto_sell after the buy and after a sell of the target
  flights         \* sells under way

settings == <<options, coin, asked>>
order == <<spend, reserved, buy, buyFate>>
chain == <<held, past, flights>>
vars == <<settings, order, chain, context, targets, trail, auto>>

Seller == {"auto", "target"}
Options ==
  [trailing : BOOLEAN, auto : BOOLEAN, failOpen : BOOLEAN, max : {0, 1}, min : {2}, total : {0, 4},
   small : {"skip", "floor"}, guard : BOOLEAN, balance : {3, 9}, plan : Plan]
Coin == [migrated : BOOLEAN, minOut : {0, 1}, cashback : BOOLEAN]
Idle == [pc |-> "none", amount |-> 0]
Flight(by, at, amount) == [by |-> by, at |-> at, amount |-> amount]

TypeOK ==
  /\ options \in Options /\ coin \in Coin /\ asked \in Nat
  /\ spend \in Nat /\ reserved \in {"none", "held", "kept"}
  /\ buy \in {"queued", "built", "sending", "sent", "over"}
  /\ buyFate \in {"none", "flying", "landed", "failed"}
  /\ held \in Nat /\ held \in past /\ past \subseteq Nat
  /\ trail.pc \in {"none", "confirm", "step", "balance", "send", "over"}
  /\ trail.opt \in Nat \cup {Null} /\ trail.sold \in Nat
  /\ auto \in [Seller -> [pc : {"none", "balance", "send", "over"}, amount : Nat]]
  /\ flights \subseteq [by : Seller \cup {"trail"}, at : Nat, amount : Nat]

-----------------------------------------------------------------------------
(* Amounts *)

\* What is left of the original position before the i-th step, in percent.
Remaining(steps, i) ==
  LET before == FoldLeft(LAMBDA a, b : a + b, 0, SubSeq(steps, 1, i - 1))
  IN IF before >= 100 THEN 0 ELSE 100 - before

OriginalToRemaining(steps) ==
  LET live == {i \in DOMAIN steps : Remaining(steps, i) > 0}
  IN [i \in live |-> (Min({steps[i], Remaining(steps, i)}) * 100) \div Remaining(steps, i)]

EffectiveSteps(plan) ==
  LET steps == IF plan.basis = "remaining" THEN plan.steps ELSE OriginalToRemaining(plan.steps)
      valid == SelectSeq(steps, LAMBDA p : p > 0 /\ p <= 100)
  IN SubSeq(valid, 1, Min({MaxSteps, Len(valid)}))

\* Of a plan it is assumed what the filter leaves: steps of 1 to 100 percent.
ExitsAssumption ==
  /\ Bought \in Nat \ {0} /\ Held \subseteq Nat /\ Fee \in Nat /\ MaxTargets \in Nat
  /\ Null \notin Nat
  /\ \A plan \in Plan :
       /\ plan.basis \in {"remaining", "original"} /\ plan.steps \in Seq(1 .. 100)
       /\ EffectiveSteps(plan) \in Seq(1 .. 100)

StepAmount(balance, percent) == (balance * percent) \div 100

\* A migrated pool: no more than what the buy was sure to bring.
AutoAmount(balance) ==
  IF coin.migrated /\ coin.minOut > 0 THEN Min({balance, coin.minOut}) ELSE balance

\* The spend after the floor of a migrated pool, Null to skip.
SpendAfterFloor ==
  CASE ~ coin.migrated \/ asked >= options.min -> asked
    [] coin.migrated /\ asked < options.min /\ options.small = "floor" -> options.min
    [] OTHER -> Null

OverMaxCopy(amount) == options.max > 0 /\ amount > options.max
OverTotal(amount) == options.total > 0 /\ amount + Fee > options.total

Steps == EffectiveSteps(options.plan)

-----------------------------------------------------------------------------
(* The buy *)

Init ==
  /\ options \in Options /\ coin \in Coin /\ asked \in {1, 2, 3}
  /\ spend = 0 /\ reserved = "none" /\ buy = "queued" /\ buyFate = "none"
  /\ held \in Held /\ past = {held} /\ flights = {}
  /\ context = FALSE /\ targets = 0
  /\ trail = [pc |-> "none", at |-> 0, opt |-> Null, amount |-> 0, sold |-> 0,
              base |-> Null, first |-> 0]
  /\ auto = [s \in Seller |-> Idle]

\* Mutant: the maximum is compared with the spend before the floor.
Guards_BeforeFloor ==
  /\ buy = "queued"
  /\ \/ SpendAfterFloor # Null /\ ~ OverMaxCopy(asked) /\ buy' = "built" /\ spend' = SpendAfterFloor
     \/ buy' = "over" /\ UNCHANGED spend
  /\ UNCHANGED <<settings, reserved, buyFate, chain, context, targets, trail, auto>>

\* handle_inner up to the build: a request too old, not allowed, over a limit, without key
\* or blockhash is a row that says so.
Guards ==
  /\ buy = "queued"
  /\ \/ /\ SpendAfterFloor # Null /\ ~ OverMaxCopy(SpendAfterFloor)
        /\ buy' = "built" /\ spend' = SpendAfterFloor
     \/ buy' = "over" /\ UNCHANGED spend
  /\ UNCHANGED <<settings, reserved, buyFate, chain, context, targets, trail, auto>>

\* The balance guard may be switched off: then nothing is compared and nothing reserved.
Reserve(amount) ==
  /\ options.guard => amount <= options.balance
  /\ reserved' = IF options.guard THEN "held" ELSE reserved

\* Mutant: the balance is reserved for the bare spend.
Build_BareSpend ==
  /\ buy = "built"
  /\ \/ ~ OverTotal(spend) /\ Reserve(spend) /\ buy' = "sending"
     \/ buy' = "over" /\ UNCHANGED reserved
  /\ UNCHANGED <<settings, spend, buyFate, chain, context, targets, trail, auto>>

\* The guards on the built transaction, and check_and_reserve for all it may cost, unless
\* copy_wallet_balance_guard is off.
Build ==
  /\ buy = "built"
  /\ \/ ~ OverTotal(spend) /\ Reserve(spend + Fee) /\ buy' = "sending"
     \/ buy' = "over" /\ UNCHANGED reserved
  /\ UNCHANGED <<settings, spend, buyFate, chain, context, targets, trail, auto>>

\* A failed simulation, a dry run or a transaction too long returns the reservation; a
\* send keeps one that was made, whatever its answer.
KeepReservation == reserved' = IF reserved = "held" THEN "kept" ELSE reserved
SignSend ==
  /\ buy = "sending"
  /\ \/ buy' = "over" /\ reserved' = "none" /\ UNCHANGED buyFate
     \/ buy' = "sent" /\ KeepReservation /\ buyFate' = "flying"
     \/ buy' = "over" /\ KeepReservation /\ buyFate' \in {"none", "flying"}
  /\ UNCHANGED <<settings, spend, chain, context, targets, trail, auto>>

\* handle_copy_execution_request: a buy that was sent gets its schedule, else its auto-sell.
SpawnExits ==
  /\ buy = "sent" /\ buy' = "over"
  /\ LET trails == options.trailing /\ Steps # <<>>
     IN /\ trail' = IF trails THEN [trail EXCEPT !.pc = "confirm", !.at = 1] ELSE trail
        /\ auto' = IF ~ trails /\ options.auto THEN [auto EXCEPT !["auto"].pc = "balance"] ELSE auto
  /\ UNCHANGED <<settings, spend, reserved, buyFate, chain, context, targets>>

\* A sell of the target on the curve: its context is kept, and the wallet sells too.
ObserveSell ==
  /\ targets < MaxTargets /\ targets' = targets + 1
  /\ ~ coin.migrated
  /\ context' = (context \/ options.auto \/ options.trailing)
  /\ auto' = IF options.auto /\ auto["target"].pc = "none"
             THEN [auto EXCEPT !["target"].pc = "balance"] ELSE auto
  /\ UNCHANGED <<settings, order, chain, trail>>

-----------------------------------------------------------------------------
(* The trailing schedule *)

\* The wait for the buy's confirmation: it ends well only if the buy landed.
TrailConfirm ==
  /\ trail.pc = "confirm"
  /\ \/ buyFate = "landed" /\ trail' = [trail EXCEPT !.pc = "step"]
     \/ trail' = [trail EXCEPT !.pc = "over"]
  /\ UNCHANGED <<settings, order, chain, context, targets, auto>>

Next_(t) == [t EXCEPT !.pc = IF t.at = Len(Steps) THEN "over" ELSE "step", !.at = @ + 1]

\* A step that cannot be built, simulated or read is a row of its own.
TrailSkip ==
  /\ trail.pc \in {"step", "balance", "send"}
  /\ trail' = Next_(trail)
  /\ UNCHANGED <<settings, order, chain, context, targets, auto>>

\* Mutant: an unanswered question about the curve counts as no.
TrailGuard_Open ==
  /\ trail.pc = "step" /\ \E flag \in {coin.cashback, Null} : flag # TRUE
  /\ trail' = [trail EXCEPT !.pc = "balance"]
  /\ UNCHANGED <<settings, order, chain, context, targets, auto>>

\* cashback_sell_guard: the flag is read of the route or asked of an RPC that may not answer.
TrailGuard ==
  /\ trail.pc = "step" /\ (~ coin.cashback \/ (options.failOpen /\ ~ coin.migrated))
  /\ trail' = [trail EXCEPT !.pc = "balance"]
  /\ UNCHANGED <<settings, order, chain, context, targets, auto>>

\* Mutant: what was sold before is not taken off a balance that may be old.
TrailRead_Old ==
  /\ trail.pc = "balance"
  /\ \E balance \in past \ {0} :
       LET amount == StepAmount(balance, Steps[trail.at])
       IN amount > 0 /\ trail' = [trail EXCEPT !.pc = "send", !.amount = amount,
                                    !.base = IF trail.sold = 0 THEN balance ELSE @,
                                    !.first = IF trail.sold = 0 THEN trail.at ELSE @]
  /\ UNCHANGED <<settings, order, chain, context, targets, auto>>

\* The least of the balance an RPC reports and of what the sells so far have left.
TrailRead ==
  /\ trail.pc = "balance"
  /\ \E balance \in past \ {0} :
       LET sellable == Min({balance} \cup ({trail.opt} \ {Null}))
           amount == StepAmount(sellable, Steps[trail.at])
       IN amount > 0 /\ trail' = [trail EXCEPT !.pc = "send", !.amount = amount,
                                    !.base = IF trail.sold = 0 THEN sellable ELSE @,
                                    !.first = IF trail.sold = 0 THEN trail.at ELSE @]
  /\ UNCHANGED <<settings, order, chain, context, targets, auto>>

\* A sell that is answered counts as sold; one without an answer may be under way.
TrailSend ==
  /\ trail.pc = "send"
  /\ \/ /\ trail' = Next_([trail EXCEPT !.sold = @ + trail.amount,
                             !.opt = (IF @ = Null THEN trail.base ELSE @) - trail.amount])
        /\ flights' = flights \cup {Flight("trail", trail.at, trail.amount)}
     \/ /\ trail' = Next_(trail)
        /\ flights' \in {flights, flights \cup {Flight("trail", trail.at, trail.amount)}}
  /\ UNCHANGED <<settings, order, held, past, context, targets, auto>>

-----------------------------------------------------------------------------
(* The auto-sells *)

\* On the curve a sell needs the target's sell context; a migrated pool reuses the buy's.
AutoRead(s) ==
  /\ auto[s].pc = "balance"
  /\ \/ /\ coin.migrated \/ context
        /\ \E balance \in past \ {0} :
             auto' = [auto EXCEPT ![s] = [pc |-> "send", amount |-> AutoAmount(balance)]]
     \/ auto' = [auto EXCEPT ![s] = [Idle EXCEPT !.pc = "over"]]
  /\ UNCHANGED <<settings, order, chain, context, targets, trail>>

AutoSend(s) ==
  /\ auto[s].pc = "send"
  /\ auto' = [auto EXCEPT ![s] = [Idle EXCEPT !.pc = "over"]]
  /\ flights' \in {flights, flights \cup {Flight(s, 0, auto[s].amount)}}
  /\ UNCHANGED <<settings, order, held, past, context, targets, trail>>

\* The worker ends; its tasks are kept nowhere.
WorkerEnds ==
  /\ \/ trail.pc \notin {"none", "over"} \/ \E s \in Seller : auto[s].pc \notin {"none", "over"}
  /\ trail' = IF trail.pc = "none" THEN trail ELSE [trail EXCEPT !.pc = "over"]
  /\ auto' = [s \in Seller |-> IF auto[s].pc = "none" THEN auto[s] ELSE [Idle EXCEPT !.pc = "over"]]
  /\ UNCHANGED <<settings, order, chain, context, targets>>

-----------------------------------------------------------------------------
(* The chain *)

Balance(n) == held' = n /\ past' = past \cup {n}

BuyLands ==
  /\ buyFate = "flying"
  /\ \/ buyFate' = "landed" /\ Balance(held + Bought)
     \/ buyFate' = "failed" /\ UNCHANGED <<held, past>>
  /\ UNCHANGED <<settings, spend, reserved, buy, flights, context, targets, trail, auto>>

\* A sell of more than there is fails; one may be dropped.
SellLands(f) ==
  /\ flights' = flights \ {f}
  /\ f.amount <= held /\ Balance(held - f.amount)
  /\ UNCHANGED <<settings, order, context, targets, trail, auto>>

SellFails(f) ==
  /\ flights' = flights \ {f}
  /\ UNCHANGED <<settings, order, held, past, context, targets, trail, auto>>

Next ==
  \/ Guards \/ Build \/ SignSend \/ SpawnExits \/ ObserveSell
  \/ TrailConfirm \/ TrailSkip \/ TrailGuard \/ TrailRead \/ TrailSend
  \/ \E s \in Seller : AutoRead(s) \/ AutoSend(s)
  \/ WorkerEnds \/ BuyLands
  \/ \E f \in flights : SellLands(f) \/ SellFails(f)

Spec == Init /\ [][Next]_vars

-----------------------------------------------------------------------------
(* Properties *)

\* What is kept of a balance by the steps from first to last.
Kept(steps, balance, first, last) ==
  LET kept[i \in Nat] ==
        IF i < first THEN balance ELSE kept[i - 1] - StepAmount(kept[i - 1], steps[i])
  IN kept[last]

\* The worker spends and sells as planned (executor.rs 2029-2273, 2505-2603, 2833-3026):
\* a buy that may be under way is within its limits, floored or not, and, where the
\* balance guard is on, reserved in full; and the sells of a schedule that were answered
\* take no more than the steps so far allow of the balance at the first of them, however
\* old the balances it reads later, from a landed buy only and, unless told otherwise, not
\* from a cashback coin.
PlannedAmountsOnly ==
  /\ buyFate # "none" =>
       /\ ~ OverMaxCopy(spend) /\ ~ OverTotal(spend)
       /\ options.guard => reserved = "kept" /\ spend + Fee <= options.balance
  /\ trail.sold > 0 =>
       /\ trail.sold + Kept(Steps, trail.base, trail.first, trail.at - 1) <= trail.base
       /\ buyFate = "landed"
       /\ coin.cashback => options.failOpen /\ ~ coin.migrated

-----------------------------------------------------------------------------
(* The inductive invariant *)

\* The limits a buy has passed where it is.
OrderInv ==
  /\ buy \in {"queued", "built", "sending"} => buyFate = "none"
  /\ buy \in {"queued", "built", "sending", "sent"} => trail.pc = "none"
  /\ buy \in {"built", "sending", "sent"} \/ buyFate # "none" => ~ OverMaxCopy(spend)
  /\ buy \in {"sending", "sent"} \/ buyFate # "none" =>
       ~ OverTotal(spend) /\ (options.guard => spend + Fee <= options.balance)
  /\ options.guard /\ buy = "sending" => reserved \in {"held", "kept"}
  /\ options.guard /\ buyFate # "none" => reserved = "kept"

\* The balances are numbers, and so is what the sells under way take of them.
ChainInv ==
  /\ held \in Nat /\ past \subseteq Nat
  /\ \A f \in flights : f.amount \in Nat
  /\ auto \in [Seller -> [pc : {"none", "balance", "send", "over"}, amount : Nat]]

Trail ==
  [pc : {"none", "confirm", "step", "balance", "send", "over"}, at : Nat, opt : Nat \cup {Null},
   amount : Nat, sold : Nat, base : Nat \cup {Null}, first : Nat]

\* Where a schedule is: its steps sell from a landed buy, and past the guard only what may
\* be sold; what it sold it has taken off the balance it began with, and the next amount
\* is at most the step's share of the rest.
Sellable == coin.cashback => options.failOpen /\ ~ coin.migrated
TrailInv ==
  /\ trail \in Trail
  /\ trail.pc \in {"none", "confirm"} => trail.sold = 0
  /\ trail.pc \notin {"none", "over"} => trail.at \in 1 .. Len(Steps)
  /\ trail.pc \in {"step", "balance", "send"} => buyFate = "landed"
  /\ trail.pc \in {"balance", "send"} => Sellable
  /\ trail.sold = 0 => trail.opt = Null
  /\ trail.pc = "send" =>
       /\ trail.amount > 0
       /\ trail.sold = 0 =>
            /\ trail.base \in Nat /\ trail.first = trail.at
            /\ trail.amount = StepAmount(trail.base, Steps[trail.at])
       /\ trail.sold > 0 => trail.amount <= StepAmount(trail.opt, Steps[trail.at])
  /\ trail.sold > 0 =>
       /\ buyFate = "landed" /\ Sellable
       /\ trail.base \in Nat /\ trail.opt \in Nat /\ trail.sold + trail.opt = trail.base
       /\ trail.first \in 1 .. trail.at - 1 /\ trail.at <= Len(Steps) + 1
       /\ Kept(Steps, trail.base, trail.first, trail.at - 1) \in 0 .. trail.opt

ExitsInv ==
  /\ options \in Options /\ coin \in Coin /\ asked \in Nat /\ spend \in Nat
  /\ OrderInv /\ ChainInv /\ TrailInv
=============================================================================
