--------------------------- MODULE TrailingSells ---------------------------
(***************************************************************************)
(* The timed exits of the bot (index.ts): a copy buy, its own or one the   *)
(* Rust worker recorded, is awaited, and then sold in steps.  The schedule *)
(* lives in memory only; each step passes the execution gate, is sent,     *)
(* recorded and reported before the next one is due.                       *)
(***************************************************************************)
EXTENDS Naturals, Sequences

CONSTANTS
  Buy,          \* recorded copy buys
  NoBuy,
  Rust,         \* those sent by the Rust worker
  Position,     \* trailingSellScheduleKey: chat, trading wallet and coin of a buy
  Schedule,     \* runs of scheduleCopyTradeTrailingSellsAfterConfirmation
  Steps,        \* steps of the trailing-sell configuration
  CacheSize,    \* limit of rustTrailingSellExecutionKeys
  MaxFaults,    \* bound on Telegram or recorder errors
  MaxStops,     \* bound on emergency stops
  MaxRestarts   \* bound on shutdowns

TrailingAssumption ==
  /\ Rust \subseteq Buy /\ NoBuy \notin Buy /\ DOMAIN Position = Buy
  /\ Steps \in Nat /\ CacheSize \in Nat \ {0}
  /\ MaxFaults \in Nat /\ MaxStops \in Nat /\ MaxRestarts \in Nat

VARIABLES
  chain,       \* fate of each buy: open, landed, failed
  status,      \* of its execution record: submitted, confirmed, expired, failed
  remembered,  \* rustTrailingSellExecutionKeys, oldest first
  handed,      \* own buys handed to a schedule, in this process
  active,      \* activeTrailingSellSchedules
  stage, buy, step,   \* of each schedule
  gate,        \* the stop as the schedule captured it (directGate), for Rust buys
  late,        \* schedules whose order passed the gate before the last stop
  sold,        \* steps each schedule has sent
  stopped,     \* copyTradeEmergencyStopped
  shutting,    \* isShuttingDown
  faults, stops, restarts

control == <<stage, buy, step, gate>>
limits == <<faults, stops, restarts>>
vars == <<chain, status, remembered, handed, active, control, late, sold, stopped, shutting,
          limits>>

Stage == {"idle", "confirming", "exits", "announcing", "top", "delayed",
          "building", "sending", "reporting", "reporting skip", "settling", "done"}

\* Stages in which the schedule holds its position.
Running == {"announcing", "top", "delayed", "building", "sending", "reporting",
            "reporting skip", "settling"}

TypeOK ==
  /\ chain \in [Buy -> {"open", "landed", "failed"}]
  /\ status \in [Buy -> {"submitted", "confirmed", "expired", "failed"}]
  /\ remembered \in Seq(Rust) /\ Len(remembered) <= CacheSize
  /\ handed \subseteq Buy \ Rust
  /\ active \subseteq {Position[b] : b \in Buy}
  /\ stage \in [Schedule -> Stage]
  /\ buy \in [Schedule -> Buy \cup {NoBuy}]
  /\ step \in [Schedule -> 1 .. Steps + 1]
  /\ gate \in [Schedule -> BOOLEAN]
  /\ late \subseteq Schedule
  /\ sold \in [Schedule -> SUBSET (1 .. Steps)]
  /\ stopped \in BOOLEAN /\ shutting \in BOOLEAN
  /\ faults \in 0 .. MaxFaults /\ stops \in 0 .. MaxStops /\ restarts \in 0 .. MaxRestarts

Init ==
  /\ chain = [b \in Buy |-> "open"]
  /\ status = [b \in Buy |-> "submitted"]
  /\ remembered = <<>> /\ handed = {} /\ active = {} /\ late = {}
  /\ stage = [s \in Schedule |-> "idle"]
  /\ buy = [s \in Schedule |-> NoBuy]
  /\ step = [s \in Schedule |-> 1]
  /\ gate = [s \in Schedule |-> FALSE]
  /\ sold = [s \in Schedule |-> {}]
  /\ stopped = FALSE /\ shutting = FALSE
  /\ faults = 0 /\ stops = 0 /\ restarts = 0

-----------------------------------------------------------------------------
(* Picking up buys *)

Goto(s, label) == stage' = [stage EXCEPT ![s] = label]

\* rememberRustTrailingSellExecution: the oldest key is forgotten at the limit.
Remember(b) ==
  LET keys == Append(remembered, b) IN
  IF Len(keys) > CacheSize THEN Tail(keys) ELSE keys

Known(b) == \E i \in 1 .. Len(remembered) : remembered[i] = b

\* pollRustTrailingSellExecutions delivers a row, perhaps again.  A row whose
\* buy failed, or that no active copy target matches, is remembered and dropped.
PickUp(s, b) ==
  /\ b \in Rust /\ ~shutting /\ stage[s] = "idle" /\ ~Known(b)
  /\ remembered' = Remember(b)
  /\ \/ stage' = [stage EXCEPT ![s] = "confirming"]
     \/ stage' = [stage EXCEPT ![s] = "done"]
  /\ buy' = [buy EXCEPT ![s] = b]
  /\ gate' = [gate EXCEPT ![s] = stopped]
  /\ UNCHANGED <<chain, status, handed, active, step, late, sold, stopped, shutting, limits>>

\* sendCopyTradeSimulationAlert hands over a buy it has just sent.
HandOver(s, b) ==
  /\ b \notin Rust /\ b \notin handed /\ stage[s] = "idle"
  /\ handed' = handed \cup {b}
  /\ Goto(s, "confirming")
  /\ buy' = [buy EXCEPT ![s] = b]
  /\ UNCHANGED <<chain, status, remembered, active, step, gate, late, sold, stopped,
                 shutting, limits>>

\* Mutant: a timeout is taken for a confirmation.
Confirmed_Timeout(b) == chain[b] # "failed"

Confirmed(b) == chain[b] = "landed"

\* scheduleCopyTradeTrailingSellsAfterConfirmation: the buy is confirmed, or it
\* failed, the wait is over, or the bot shuts down.
AwaitBuy(s) ==
  /\ stage[s] = "confirming"
  /\ \/ Confirmed(buy[s]) /\ Goto(s, "exits")
     \/ Goto(s, "done")
  /\ UNCHANGED <<chain, status, remembered, handed, active, buy, step, gate, late, sold,
                 stopped, shutting, limits>>

\* What the record of a buy says when its confirmation was awaited.
Verdict(b) ==
  IF Confirmed(b) THEN {"confirmed", "expired"}
  ELSE IF chain[b] = "failed" THEN {"failed", "expired"} ELSE {"expired"}

\* watchSubmittedCopyTradeBuy: an own buy that was answered when it was sent is
\* confirmed in the background, and its record brought up to date.
WatchBuy(s) ==
  /\ stage[s] = "confirming" /\ buy[s] \notin Rust
  /\ \E v \in Verdict(buy[s]) :
       /\ status' = [status EXCEPT ![buy[s]] = v]
       /\ Goto(s, IF v = "confirmed" THEN "exits" ELSE "done")
  /\ UNCHANGED <<chain, remembered, handed, active, buy, step, gate, late, sold, stopped,
                 shutting, limits>>

\* Mutant: the running schedules of the position are not asked for.
Free_Ignored(p) == TRUE

Free(p) == p \notin active

\* scheduleCopyTradePostConfirmationExits: a buy-pressure watcher takes the
\* exit of an own buy; an empty schedule, or one of the position that is
\* running already, ends this one.
Exits(s) ==
  LET p == Position[buy[s]] IN
  /\ stage[s] = "exits"
  /\ \/ /\ Steps > 0 /\ Free(p)
        /\ active' = active \cup {p} /\ Goto(s, "announcing")
     \/ (buy[s] \notin Rust \/ Steps = 0 \/ ~Free(p)) /\ Goto(s, "done") /\ UNCHANGED active
  /\ UNCHANGED <<chain, status, remembered, handed, buy, step, gate, late, sold, stopped,
                 shutting, limits>>

\* The alert about the schedule was sent, or failed: an error is logged.
Announced(s) ==
  /\ stage[s] = "announcing" /\ Goto(s, "top")
  /\ UNCHANGED <<chain, status, remembered, handed, active, buy, step, gate, late, sold,
                 stopped,
                 shutting, limits>>

-----------------------------------------------------------------------------
(* runTrailingSellSchedule, buildAndNotifyTrailingSell *)

\* Mutant: an error leaves the position taken (no finally).
Left_OnSuccess(s) == IF step[s] > Steps THEN active \ {Position[buy[s]]} ELSE active

\* The finally block.
Left(s) == active \ {Position[buy[s]]}

Finish(s) == Goto(s, "done") /\ active' = Left(s) /\ UNCHANGED step

\* Mutant: the step is not counted.
NextStep_Repeats(s) == Goto(s, "top") /\ UNCHANGED <<active, step>>

NextStep(s) == Goto(s, "top") /\ step' = [step EXCEPT ![s] = @ + 1] /\ UNCHANGED active

Top(s) ==
  /\ stage[s] = "top"
  /\ IF shutting \/ step[s] > Steps THEN Finish(s)
     ELSE Goto(s, "delayed") /\ UNCHANGED <<active, step>>
  /\ UNCHANGED <<chain, status, remembered, handed, buy, gate, late, sold, stopped,
                 shutting, limits>>

\* The delay of the step is over; shutdown has cleared the timers.  The live
\* gate, the risk check and the fee are asked now.
Due(s) ==
  /\ stage[s] = "delayed" /\ ~shutting
  /\ \/ ~stopped /\ Goto(s, "building")
     \/ Goto(s, "reporting skip")
  /\ UNCHANGED <<chain, status, remembered, handed, active, buy, step, gate, late, sold,
                 stopped,
                 shutting, limits>>

\* Mutant: every schedule is sent under the gate captured at its start.
GateOpen_Captured(s) == ~gate[s]

\* The gate the order is sent under: captured at the pick-up of a Rust buy
\* (rustTrailingSellDirectExecutionGate), asked now for an own one.
GateOpen(s) == IF buy[s] \in Rust THEN ~gate[s] ELSE ~stopped

\* The transaction is built and handed to sendSolanaDirectTransaction, or not.
Built(s) ==
  /\ stage[s] = "building"
  /\ \/ GateOpen(s) /\ Goto(s, "sending")
     \/ Goto(s, "reporting skip")   \* no balance, no route, or the gate is closed
  /\ UNCHANGED <<chain, status, remembered, handed, active, buy, step, gate, late, sold,
                 stopped,
                 shutting, limits>>

SendSell(s) ==
  /\ stage[s] = "sending"
  /\ sold' = [sold EXCEPT ![s] = @ \cup {step[s]}]
  /\ Goto(s, "reporting")
  /\ UNCHANGED <<chain, status, remembered, handed, active, buy, step, gate, late, stopped,
                 shutting, limits>>

\* recordCopyTradeExecution and sendTelegramMessage; an error of either leaves
\* the loop, and with it the steps that were still to come.
Report(s) ==
  /\ stage[s] \in {"reporting", "reporting skip"}
  /\ \/ stage[s] = "reporting" /\ Goto(s, "settling") /\ UNCHANGED <<active, step, faults>>
     \/ NextStep(s) /\ UNCHANGED faults
     \/ faults < MaxFaults /\ faults' = faults + 1 /\ Finish(s)
  /\ UNCHANGED <<chain, status, remembered, handed, buy, gate, late, sold, stopped,
                 shutting, stops,
                 restarts>>

\* The sell is awaited before the next step; its fate is not looked at.
Settled(s) ==
  /\ stage[s] = "settling" /\ NextStep(s)
  /\ UNCHANGED <<chain, status, remembered, handed, buy, gate, late, sold, stopped,
                 shutting, limits>>

-----------------------------------------------------------------------------
(* The rest of the system *)

Decide(b) ==
  /\ chain[b] = "open"
  /\ \E fate \in {"landed", "failed"} : chain' = [chain EXCEPT ![b] = fate]
  /\ UNCHANGED <<status, remembered, handed, active, control, late, sold, stopped, shutting,
                 limits>>

\* activateCopyTradeEmergencyStop.  A Rust order that is being built and an own
\* one that has passed the gate are not held back any more.
EmergencyStop ==
  /\ ~stopped /\ stops < MaxStops
  /\ stopped' = TRUE /\ stops' = stops + 1
  /\ late' = {s \in Schedule : \/ stage[s] = "sending"
                               \/ stage[s] = "building" /\ buy[s] \in Rust}
  /\ UNCHANGED <<chain, status, remembered, handed, active, control, sold, shutting,
                 faults, restarts>>

Resume ==
  /\ stopped /\ stopped' = FALSE /\ late' = {}
  /\ UNCHANGED <<chain, status, remembered, handed, active, control, sold, shutting, limits>>

Shutdown ==
  /\ ~shutting /\ restarts < MaxRestarts /\ restarts' = restarts + 1
  /\ shutting' = TRUE
  /\ UNCHANGED <<chain, status, remembered, handed, active, control, late, sold, stopped,
                 faults, stops>>

\* process.exit, and the next start.  Schedules are not kept anywhere.
Restart ==
  /\ shutting /\ shutting' = FALSE
  /\ remembered' = <<>> /\ active' = {} /\ late' = {}
  /\ stage' = [s \in Schedule |-> IF stage[s] = "idle" THEN "idle" ELSE "done"]
  /\ UNCHANGED <<chain, status, handed, buy, step, gate, sold, stopped, limits>>

Step(s) ==
  \/ AwaitBuy(s) \/ WatchBuy(s) \/ Exits(s) \/ Announced(s) \/ Top(s) \/ Due(s) \/ Built(s)
  \/ SendSell(s) \/ Report(s) \/ Settled(s)

Next ==
  \/ \E s \in Schedule, b \in Buy : PickUp(s, b) \/ HandOver(s, b)
  \/ \E s \in Schedule : Step(s)
  \/ \E b \in Buy : Decide(b)
  \/ EmergencyStop \/ Resume \/ Shutdown \/ Restart

Spec == Init /\ [][Next]_vars

\* Timers fire and awaited calls answer or time out; the process does exit.
FairSpec ==
  /\ Spec /\ \A s \in Schedule : WF_vars(Step(s))
  /\ WF_vars(Restart)

-----------------------------------------------------------------------------
(* Properties *)

\* activeTrailingSellSchedules holds exactly the positions of the running
\* schedules, one each: an early end of any kind frees its position, and two
\* buys of one coin are never sold by overlapping schedules.
OneSchedulePerPosition ==
  LET holders == {s \in Schedule : stage[s] \in Running} IN
  /\ active = {Position[buy[s]] : s \in holders}
  /\ \A s, t \in holders : s # t => Position[buy[s]] # Position[buy[t]]

\* No step is sold for a buy that did not land (waitForSignatureConfirmationResult
\* before scheduleCopyTradePostConfirmationExits), nor out of turn, and the
\* record of a buy that is being sold never calls it failed or expired.
SoldOnlyAfterLanding ==
  \A s \in Schedule :
    sold[s] # {} => /\ chain[buy[s]] = "landed"
                    /\ status[buy[s]] \in {"submitted", "confirmed"}
                    /\ \A n \in sold[s] : n <= step[s]

Sends(s) == sold'[s] # sold[s]

\* While the emergency stop is active only orders leave that were past their
\* gate when it was pressed, at most one per schedule; and a schedule picked up
\* under a stop sells nothing, even after the stop is cleared, because its gate
\* was captured then.
StopHoldsSellsBack ==
  [][\A s \in Schedule :
       Sends(s) => /\ ~stopped \/ s \in late
                   /\ ~gate[s]]_vars

\* Every picked-up buy reaches the end of its schedule, sold out or given up.
SchedulesEnd == \A s \in Schedule : (stage[s] # "idle") ~> (stage[s] = "done")
=============================================================================
