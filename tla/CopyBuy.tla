------------------------------ MODULE CopyBuy ------------------------------
(***************************************************************************)
(* The copy buy of one bot process: the feeds drop repeated signals and    *)
(* start one sendCopyTradeSimulationAlert per copying chat, which passes   *)
(* the guards, reserves the daily budget, sends the order and releases the *)
(* guards. One target wallet; a step runs from one await to the next. The  *)
(* configuration is the one with the most awaits: signals raced between    *)
(* providers beside the webhook, a wallet reserve and a pre-buy snapshot,  *)
(* and inline confirmation.                                                *)
(***************************************************************************)
EXTENDS Integers, Sequences, FiniteSets

CONSTANTS
  Chat,          \* subscribers that copy the target wallet
  Repeat,        \* the chats with copyTradeRetryFailedBuys, "Copy Repeat Buys"
  Signal,        \* observed buys: [tx, coin]; one transaction may buy several coins
  Delivery,      \* bound: signals taken from a feed
  NoSignal,
  Amount,        \* [Chat -> Nat]: copyAmountSol
  DailyCap,      \* COPY_TRADE_DAILY_SOL_CAP; 0 is no cap
  CacheSize,     \* entries of seenEvents and of the race tracker: 1000
  MaxDays,       \* bound on UTC days
  MaxLost,       \* bound on accepted sends whose every answer is an error
  MaxStops,      \* bound on emergency stops
  MaxRestarts    \* bound

ASSUME CopyBuyAssumption ==
  /\ Repeat \subseteq Chat
  /\ NoSignal \notin Signal
  /\ Amount \in [Chat -> Nat \ {0}]
  /\ DailyCap \in Nat
  /\ CacheSize \in Nat \ {0}
  /\ MaxDays \in Nat \ {0}
  /\ {MaxLost, MaxStops, MaxRestarts} \subseteq Nat

Order == Delivery \X Chat
Tx == {s.tx : s \in Signal}
Coin == {s.coin : s \in Signal}

VARIABLES
  raced, seen,    \* race tracker and seenEvents, oldest first
  semantic,       \* copyBuySemanticSubmissionGuard: <<chat, coin>>
  inflight,       \* copyBuySubmissionGuard: <<chat, tx>>
  spent,          \* [Chat -> Nat]: copyTradeDailySolBudget of budgetDay
  budgetDay,
  signal,         \* [Delivery -> Signal]
  pc,             \* [Order -> Control]
  holds,          \* copyBuySemanticReserved ("coin") and copyBuyReserved ("tx")
  ok,             \* orders whose result is ok
  reservedOn,     \* the day an order reserved budget, 0 if it did not
  chain,          \* [Order -> Fate] of its transaction
  past,           \* deliveries to earlier processes
  lost,           \* history: accepted sends whose every answer was an error
  unconfirmed,    \* history: orders whose confirmation was an exception
  today, stopped, letThrough, stops, restarts

memory == <<raced, seen, semantic, inflight, spent, budgetDay>>
runs == <<signal, pc, holds, ok, reservedOn>>
fates == <<chain, lost, unconfirmed>>
world == <<past, today, stopped, letThrough, stops, restarts>>
vars == <<memory, runs, fates, world>>

Control == {"idle", "received", "coinHandled", "skipping", "balance", "building", "sending",
            "confirming", "recording", "done", "gone"}
Ended == {"idle", "coinHandled", "done", "gone"}
Fate == {"none", "flying", "landed", "reverted", "expired"}

TypeOK ==
  /\ raced \in Seq(Signal) /\ seen \in Seq(Tx)
  /\ Len(raced) <= CacheSize /\ Len(seen) <= CacheSize
  /\ semantic \subseteq Chat \X Coin
  /\ inflight \subseteq Chat \X Tx
  /\ spent \in [Chat -> Nat]
  /\ budgetDay \in 0 .. MaxDays
  /\ signal \in [Delivery -> Signal \cup {NoSignal}]
  /\ pc \in [Order -> Control]
  /\ holds \in [Order -> SUBSET {"coin", "tx"}]
  /\ ok \subseteq Order
  /\ reservedOn \in [Order -> 0 .. MaxDays]
  /\ chain \in [Order -> Fate]
  /\ past \subseteq Delivery
  /\ today \in 1 .. MaxDays
  /\ stopped \in BOOLEAN
  /\ letThrough \subseteq Order
  /\ lost \subseteq Order /\ unconfirmed \subseteq Order
  /\ stops \in 0 .. MaxStops /\ restarts \in 0 .. MaxRestarts

Init ==
  /\ raced = <<>> /\ seen = <<>>
  /\ semantic = {} /\ inflight = {}
  /\ spent = [c \in Chat |-> 0] /\ budgetDay = 0
  /\ signal = [d \in Delivery |-> NoSignal]
  /\ pc = [o \in Order |-> "idle"]
  /\ holds = [o \in Order |-> {}]
  /\ ok = {}
  /\ reservedOn = [o \in Order |-> 0]
  /\ chain = [o \in Order |-> "none"]
  /\ past = {}
  /\ today = 1
  /\ stopped = FALSE /\ letThrough = {}
  /\ lost = {} /\ unconfirmed = {}
  /\ stops = 0 /\ restarts = 0

-----------------------------------------------------------------------------
(* The process-wide memory *)

Members(q) == {q[i] : i \in 1 .. Len(q)}

\* rememberEvent and the race tracker drop their oldest entry at the limit.
Remember(q, key) ==
  IF Len(q) < CacheSize THEN Append(q, key) ELSE Append(Tail(q), key)

CoinKey(o) == <<o[2], signal[o[1]].coin>>
TxKey(o) == <<o[2], signal[o[1]].tx>>

\* resetIfNewDay
SpentToday(c) == IF budgetDay = today THEN spent[c] ELSE 0
WithinCap(c, spentSol) == DailyCap = 0 \/ spentSol + Amount[c] <= DailyCap

Goto(o, label) == pc' = [pc EXCEPT ![o] = label]

-----------------------------------------------------------------------------
(* A signal arrives: one sendCopyTradeSimulationAlert for every chat       *)

\* Mutant: the coin guard is not consulted.
TakesCoin_Always(c, s) == c \notin Repeat /\ WithinCap(c, SpentToday(c))

\* Chats that reserve the coin: the risk checks passed and the coin is free.
TakesCoin(c, s) ==
  /\ c \notin Repeat
  /\ WithinCap(c, SpentToday(c))
  /\ <<c, s.coin>> \notin semantic

FirstAwait(c, s) ==
  CASE ~WithinCap(c, SpentToday(c)) -> "skipping"
    [] WithinCap(c, SpentToday(c)) /\ c \notin Repeat /\ ~TakesCoin(c, s) -> "coinHandled"
    [] OTHER -> IF stopped THEN "skipping" ELSE "balance"

\* Up to the first await of every chat.
Begin(d, s) ==
  /\ spent' = [c \in Chat |-> SpentToday(c)]
  /\ budgetDay' = today
  /\ semantic' = semantic \cup {<<c, s.coin>> : c \in {x \in Chat : TakesCoin(x, s)}}
  /\ pc' = [o \in Order |-> IF o[1] = d THEN FirstAwait(o[2], s) ELSE pc[o]]
  /\ holds' = [o \in Order |-> IF o[1] = d /\ TakesCoin(o[2], s) THEN {"coin"} ELSE holds[o]]

\* A PumpPortal or Geyser feed: the first provider to report the signal wins,
\* and the runs start at once.
Race(d, s) ==
  /\ signal[d] = NoSignal
  /\ s \notin Members(raced)
  /\ raced' = Remember(raced, s)
  /\ IF s.tx \in Members(seen)
     THEN UNCHANGED <<seen, semantic, spent, budgetDay, signal, pc, holds>>
     ELSE /\ seen' = Remember(seen, s.tx)
          /\ signal' = [signal EXCEPT ![d] = s]
          /\ Begin(d, s)
  /\ UNCHANGED <<inflight, ok, reservedOn, fates, world>>

\* The Helius webhook and the Yellowstone stream do not race: the event is
\* remembered, then logged and shown to the buy-pressure watchers.
Receive(d, s) ==
  /\ signal[d] = NoSignal
  /\ s.tx \notin Members(seen)
  /\ seen' = Remember(seen, s.tx)
  /\ signal' = [signal EXCEPT ![d] = s]
  /\ pc' = [o \in Order |-> IF o[1] = d THEN "received" ELSE pc[o]]
  /\ UNCHANGED <<raced, semantic, inflight, spent, budgetDay, holds, ok, reservedOn,
                 fates, world>>

Start(d) ==
  /\ \A c \in Chat : pc[<<d, c>>] = "received"
  /\ Begin(d, signal[d])
  /\ UNCHANGED <<raced, seen, inflight, signal, ok, reservedOn, fates, world>>

-----------------------------------------------------------------------------
(* The rest of sendCopyTradeSimulationAlert *)

\* Mutants: finally releases the guards of whoever holds them; the coin of
\* a failed buy stays reserved.
Released_Unflagged(o) ==
  /\ semantic' = IF o \in ok THEN semantic ELSE semantic \ {CoinKey(o)}
  /\ inflight' = inflight \ {TxKey(o)}
  /\ holds' = [holds EXCEPT ![o] = {}]
Released_KeepsCoin(o) ==
  /\ UNCHANGED semantic
  /\ inflight' = IF "tx" \in holds[o] THEN inflight \ {TxKey(o)} ELSE inflight
  /\ holds' = [holds EXCEPT ![o] = {}]

\* The finally block: a coin that was bought stays reserved.
Released(o) ==
  /\ semantic' = IF "coin" \in holds[o] /\ o \notin ok THEN semantic \ {CoinKey(o)} ELSE semantic
  /\ inflight' = IF "tx" \in holds[o] THEN inflight \ {TxKey(o)} ELSE inflight
  /\ holds' = [holds EXCEPT ![o] = {}]

\* The trading wallet cannot cover the buy, or its balance is unknown.
ReserveBlocked(o) ==
  /\ pc[o] = "balance"
  /\ Goto(o, "skipping")
  /\ UNCHANGED <<memory, signal, holds, ok, reservedOn, fates, world>>

\* "copy buy is already in flight"
AlreadyInFlight(o) ==
  /\ pc[o] = "balance"
  /\ TxKey(o) \in inflight
  /\ Released(o)
  /\ Goto(o, "done")
  /\ UNCHANGED <<raced, seen, spent, budgetDay, signal, ok, reservedOn, fates, world>>

\* Mutant: the budget is not checked again after the await.
Affordable_Before(c) == TRUE

Affordable(c) == WithinCap(c, SpentToday(c))

\* In-flight guard, final gate and budget in one go.
Reserve(o) ==
  /\ pc[o] = "balance"
  /\ TxKey(o) \notin inflight
  /\ inflight' = inflight \cup {TxKey(o)}
  /\ holds' = [holds EXCEPT ![o] = @ \cup {"tx"}]
  /\ \/ stopped /\ Goto(o, "skipping") /\ UNCHANGED <<spent, budgetDay, reservedOn>>
     \/ /\ ~stopped
        /\ budgetDay' = today
        /\ \/ /\ ~Affordable(o[2])
              /\ spent' = [c \in Chat |-> SpentToday(c)]
              /\ Goto(o, "skipping")
              /\ UNCHANGED reservedOn
           \/ /\ Affordable(o[2])
              /\ spent' = [c \in Chat |->
                             SpentToday(c) + IF c = o[2] THEN Amount[c] ELSE 0]
              /\ reservedOn' = [reservedOn EXCEPT ![o] = today]
              /\ Goto(o, "building")
  /\ UNCHANGED <<raced, seen, semantic, signal, ok, fates, world>>

\* Mutant: the gate was evaluated before the transaction was built.
GatePassed_Early(o) == TRUE

\* directExecutionGate, evaluated and checked after the build.
GatePassed(o) == ~stopped

\* buildDirectSolanaPayload answered: no payload, a closed gate, or on to
\* the blockhash and the simulation.
Build(o) ==
  /\ pc[o] = "building"
  /\ \/ Goto(o, "recording")
     \/ GatePassed(o) /\ Goto(o, "sending")
  /\ UNCHANGED <<memory, signal, holds, ok, reservedOn, fates, world>>

\* sendRawTransactionFanout; the transaction may have been accepted by an
\* endpoint although every answer is an error.
Send(o) ==
  /\ pc[o] = "sending"
  /\ \/ Goto(o, "recording") /\ UNCHANGED <<chain, lost>>
     \/ /\ chain' = [chain EXCEPT ![o] = "flying"]
        /\ \/ Goto(o, "confirming") /\ UNCHANGED lost
           \/ /\ Cardinality(lost) < MaxLost
              /\ lost' = lost \cup {o}
              /\ Goto(o, "recording")
  /\ UNCHANGED <<memory, signal, holds, ok, reservedOn, unconfirmed, world>>

\* A known error is a failed result; an exception, at any time and of the
\* blockhash's expiry too, is a submitted one.
Confirm(o) ==
  /\ pc[o] = "confirming"
  /\ \/ chain[o] = "reverted" /\ UNCHANGED <<ok, unconfirmed>>
     \/ chain[o] = "landed" /\ ok' = ok \cup {o} /\ UNCHANGED unconfirmed
     \/ ok' = ok \cup {o} /\ unconfirmed' = unconfirmed \cup {o}
  /\ Goto(o, "recording")
  /\ UNCHANGED <<memory, signal, holds, reservedOn, chain, lost, world>>

\* The record and the Telegram message are written; finally.
Finish(o) ==
  /\ pc[o] \in {"skipping", "recording"}
  /\ Released(o)
  /\ Goto(o, "done")
  /\ UNCHANGED <<raced, seen, spent, budgetDay, signal, ok, reservedOn, fates, world>>

-----------------------------------------------------------------------------
(* Environment *)

Decide(o) ==
  /\ chain[o] = "flying"
  /\ \E fate \in {"landed", "reverted", "expired"} : chain' = [chain EXCEPT ![o] = fate]
  /\ UNCHANGED <<memory, runs, lost, unconfirmed, world>>

NextDay ==
  /\ today < MaxDays
  /\ today' = today + 1
  /\ UNCHANGED <<memory, runs, fates, past, stopped, letThrough, stops, restarts>>

\* activateCopyTradeEmergencyStop and clearCopyTradeEmergencyStop: the flag.
EmergencyStop ==
  /\ ~stopped
  /\ stops < MaxStops
  /\ stops' = stops + 1
  /\ stopped' = TRUE
  /\ letThrough' = {o \in Order : pc[o] = "sending"}
  /\ UNCHANGED <<memory, runs, fates, past, today, restarts>>

Resume ==
  /\ stopped
  /\ stopped' = FALSE
  /\ letThrough' = {}
  /\ UNCHANGED <<memory, runs, fates, past, today, stops, restarts>>

Restart ==
  /\ restarts < MaxRestarts
  /\ restarts' = restarts + 1
  /\ raced' = <<>> /\ seen' = <<>>
  /\ semantic' = {} /\ inflight' = {}
  /\ spent' = [c \in Chat |-> 0] /\ budgetDay' = 0
  /\ pc' = [o \in Order |-> IF pc[o] \in Ended THEN pc[o] ELSE "gone"]
  /\ holds' = [o \in Order |-> {}]
  /\ past' = {d \in Delivery : signal[d] # NoSignal}
  /\ UNCHANGED <<signal, ok, reservedOn, fates, today, stopped, letThrough,
                 stops>>

-----------------------------------------------------------------------------
Step(o) ==
  \/ ReserveBlocked(o) \/ AlreadyInFlight(o) \/ Reserve(o)
  \/ Build(o) \/ Send(o) \/ Confirm(o) \/ Finish(o)

Next ==
  \/ \E d \in Delivery, s \in Signal : Race(d, s) \/ Receive(d, s)
  \/ \E d \in Delivery : Start(d)
  \/ \E o \in Order : Step(o) \/ Decide(o)
  \/ NextDay \/ EmergencyStop \/ Resume \/ Restart

Spec == Init /\ [][Next]_vars

\* Every await is answered.
FairSpec == Spec /\ \A o \in Order : WF_vars(Step(o)) /\ WF_vars(Start(o[1]))

-----------------------------------------------------------------------------
(* Properties *)

Live == {o \in Order : o[1] \notin past /\ signal[o[1]] # NoSignal}
Bought(o) == chain[o] \in {"flying", "landed"}

\* The two guards hold exactly what the runs of this process reserved: nothing
\* leaks on any of the early returns, and no finally block frees the
\* reservation of another run.
GuardsMatchRuns ==
  /\ semantic = {CoinKey(o) : o \in {x \in Live : "coin" \in holds[x] \/ (x \in ok /\ x[2] \notin Repeat)}}
  /\ inflight = {TxKey(o) : o \in {x \in Live : "tx" \in holds[x]}}
  /\ \A o, q \in Live : o # q /\ "tx" \in holds[o] \cap holds[q] => TxKey(o) # TxKey(q)

\* Without repeat buys a chat buys a coin at most once per process, whatever
\* was evicted from the caches and however earlier attempts failed; only a buy
\* that was accepted although every answer was an error frees its coin.
OneBuyPerCoin ==
  \A o, q \in Live \ lost :
    o # q /\ o[2] \notin Repeat /\ Bought(o) /\ Bought(q) => CoinKey(o) # CoinKey(q)

\* What a chat reserved on one day stays under its cap, although the cap is
\* first checked several awaits before the reservation.
Spenders(c) == {o \in Live : o[2] = c /\ reservedOn[o] = today}
ReservedToday(c) == Amount[c] * Cardinality(Spenders(c))
DailyCapHolds == DailyCap # 0 => \A c \in Chat : ReservedToday(c) <= DailyCap

\* An emergency stop holds back every order that had not yet passed the gate.
StopHoldsBack ==
  [][\A o \in Order : stopped /\ chain[o] = "none" /\ chain'[o] # "none" => o \in letThrough]_vars

\* A coin that was reserved is free again or was bought: it stays blocked only by
\* a buy that landed, or by one whose confirmation ended in an exception, of
\* which the program does not learn whether it landed.
CoinFreedOrBought ==
  \A c \in Chat, coin \in Coin :
    <<c, coin>> \in semantic ~>
      \/ <<c, coin>> \notin semantic
      \/ \E o \in Live \cap ok :
           CoinKey(o) = <<c, coin>> /\ (chain[o] = "landed" \/ o \in unconfirmed)

-----------------------------------------------------------------------------
(* The inductive invariant *)

Reserves(o) == o \in Live /\ ("coin" \in holds[o] \/ (o \in ok /\ o[2] \notin Repeat))
Flies(o) == o \in Live /\ "tx" \in holds[o]

\* GuardsMatchRuns, key by key, and one run for each reserved coin.
GuardInv ==
  /\ \A o \in Order : Reserves(o) => CoinKey(o) \in semantic
  /\ \A k \in semantic : \E o \in Order : Reserves(o) /\ CoinKey(o) = k
  /\ \A o, q \in Order : o # q /\ Reserves(o) /\ Reserves(q) => CoinKey(o) # CoinKey(q)
  /\ \A o \in Order : Flies(o) => TxKey(o) \in inflight
  /\ \A k \in inflight : \E o \in Order : Flies(o) /\ TxKey(o) = k
  /\ \A o, q \in Order : o # q /\ Flies(o) /\ Flies(q) => TxKey(o) # TxKey(q)

\* A run holds its coin from the first check to the end, and nothing once it
\* has ended; only an order past the gate is sent after an emergency stop.
OrderInv(o) ==
  /\ signal[o[1]] = NoSignal => pc[o] = "idle"
  /\ o[1] \in past => signal[o[1]] # NoSignal /\ pc[o] \in Ended
  /\ pc[o] \in Ended \cup {"received"} => holds[o] = {}
  /\ pc[o] = "balance" => "tx" \notin holds[o]
  /\ "coin" \in holds[o] => o[2] \notin Repeat
  /\ pc[o] \in {"balance", "building", "sending", "confirming"} /\ o[2] \notin Repeat =>
       "coin" \in holds[o]
  /\ o \in ok => pc[o] \in {"recording", "done", "gone"}
  /\ chain[o] # "none" => pc[o] \in {"confirming", "recording", "done", "gone"}
  /\ stopped /\ pc[o] = "sending" => o \in letThrough

IInv ==
  /\ TypeOK
  /\ \A o \in Order : OrderInv(o)
  /\ GuardInv

\* A buy that may have landed is still awaited, known, or was answered with
\* errors only.
KnownBuys ==
  \A o \in Order :
    o \in Live /\ Bought(o) => pc[o] = "confirming" \/ o \in ok \/ o \in lost

\* The running total of the day covers what the orders of this process reserved,
\* and never passed the cap; no order is ahead of its day.
BudgetInv ==
  /\ budgetDay <= today
  /\ \A o \in Order : /\ reservedOn[o] <= today
                      /\ signal[o[1]] = NoSignal => reservedOn[o] = 0
  /\ \A c \in Chat :
       /\ IsFiniteSet(Spenders(c))
       /\ ReservedToday(c) <= SpentToday(c)
       /\ DailyCap # 0 => SpentToday(c) <= DailyCap
=============================================================================
