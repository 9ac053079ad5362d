# Verification of Hermes Trader

Hermes Trader is a Telegram copy-trading bot for Pump/PumpSwap tokens on Solana.
A Node process (`src/src`) polls Telegram, listens to wallet feeds, copies the buys
of watched wallets, schedules exits and keeps a cashback ledger in Supabase. A Rust
worker (`src/tools/jito-shredstream-rs`) decodes ShredStream entries and sends the
fast copy buys itself. A Next.js dashboard reads what both of them record.

This project models, in TLA+, the parts of that system where several actors, crashes
or lost answers decide about money: the collection of platform fees, the payout of
cashback, the copy buy and its durable record, the exits that follow it in the bot and in
the worker, the control of the worker by the bot, the worker's queue, reservations and
send lanes, the wallet feeds, the subscriber store, the Telegram dialogue, and the way of
an execution row into the database. Each module is checked with TLC on small instances,
and the main safety properties of eight of them are proved with TLAPS for all instances.

Contents: [inventory](#1-inventory), [plan](#2-plan), [modules and
code](#3-modules-and-the-code), [runs](#4-runs-bounds-and-fairness),
[proofs](#5-what-is-proved), [limits](#6-what-is-only-checked-and-what-is-not-modelled).

## 1. Inventory

### Components, their state and operations

| Component | State | Operations | Status |
|---|---|---|---|
| Platform-fee collection (`index.ts` 5515-5644, 5981-6383; `cashback.ts`) | rows of `telegram_cashback_ledger`: cashback status, collection status, attempts, signed payload, lease | seed a row for a landed Rust buy; claim due rows under a lease; sign, persist, broadcast, confirm, settle; rebroadcast after a restart | partly (not the row tail) |
| Cashback payout (`cashback.ts` 1193-1294) | ledger entries, `telegram_cashback_payouts` (one open payout per wallet) | summary, create payout, transfer, mark entries paid, mark payout submitted/confirmed/failed | modelled |
| Cashback rates and admin (`cashback-admin.ts`, `platform-fee.ts`) | rate overrides | look up, set | not modelled |
| Copy buy of the bot (`index.ts` 1988-2462, 2883-3392; `copytrade-guard`, `copytrade-signal-race`, `copytrade-risk-controls`, `direct-solana`) | race tracker, `seenEvents`, two submission guards, daily budget, emergency flag | race and dedupe a signal, check gates, reserve, build, send, confirm, release | partly (direct path) |
| Durable record of copy buys (`copytrade-idempotency.ts`; `index.ts` 1300-1400) | JSON file or Supabase table, the choice of one for the process | claim, reclaim a failed one, mark submitted or failed, fall back to the file | modelled |
| Buy-pressure exit (`index.ts` 3805-4269; `copytrade-buy-pressure.ts`) | map of watchers, timers, running triggers, whole-map JSON file behind a save queue | start, count a buy, claim, sell, complete, time out, recover | modelled |
| Trailing sells of the bot (`index.ts` 4376-4713, 6534-6641) | active schedules, remembered rows | schedule, wait, gate, sell, notify | modelled |
| Emergency stop, hot snapshot (`index.ts` 835-991, 1639-1691; `copytrade-hot-snapshot.ts`; `live.rs`, `telegram_snapshot.rs`) | flag, stop file, sequence, key files, snapshot file; the worker's snapshot and keys | stop, resume, change a setting, publish, reload command, worker start and reload | partly (profiles as a set of wallets) |
| Rust executor and balance reservations (`executor.rs`, `balance_cache.rs`, `live.rs`) | two-lane queue, cached balances, reservation ledger | enqueue, execute, reserve, commit, release, refresh | modelled |
| Rust exits and Sender tips (`executor.rs`) | in-memory tasks; the settings of the start | trailing sells, auto-sells; choose lanes, tips and fees, collect answers | modelled |
| Rust decoding and transaction building | none beyond a transaction | parse, plan, build | not modelled |
| Rust caches (blockhash, priority fee, RPC back-off) | last value and its age | refresh, read | not modelled |
| Subscriber store (`subscribers.ts`, `subscribers-supabase.ts`) | wallets and settings per chat, in memory and in a file or four tables | some thirty mutations, load | partly (not the recorder, imports and encryption) |
| Telegram commands (`commands.ts`, `telegram.ts`) | offset, pending questions, messages with buttons | poll, handle an update | partly (one verified chat; no wording) |
| Wallet feeds (`yellowstone`, `geyser`, `pumpportal`, `shredstream-wallet-observer`, `helius`) | connection, reconnect timer, watch list | start, stop, set wallets, lose, reconnect | partly (not the webhook and the parsers) |
| Execution rows: the sidecar (`sync-local-copy-executions-to-supabase.mjs`) | cursor file, context of lines, enrichment queue, dead-letter file | read, store raw rows, commit, enrich, refresh | partly (of the scripts, only the sidecar) |
| Execution modes and canary gates, latency records, other notifications | configuration; appended measurements | - | not modelled |
| Database schema (`supabase/migrations`) | columns, unique indexes | - | partly (ledger and payouts) |
| Dashboard, earlier workers, other scripts | - | - | not modelled |

### How they interact

- Feeds and the Helius webhook call `handleWalletTradeSignal` / `handleHeliusSwap` in
  the bot, concurrently: each runs to its next `await` and others run in between.
- A confirmed buy of the bot starts either a buy-pressure watcher or, when the watcher
  is refused, trailing sells.
- The bot publishes subscribers, settings and the emergency stop to the Rust worker as
  a snapshot file, and restarts the worker with a shell command for most changes.
- The worker appends its executions to a file as JSON lines; the sidecar stores them in
  Supabase with what the chain says of them; the bot reads the file or the table and, for
  each landed buy, schedules trailing sells and seeds a fee collection.
- A collected fee makes cashback claimable; a chat claims it by a Telegram button.
- The bot can overlap with its successor during a deployment, so everything kept in
  Supabase or on the chain is shared by two processes; what is in memory is not.

### What makes it hard

- **Await interleavings.** State checked before an `await` is used after it, in the
  submission guards, the budget, the watcher map, the ledger rows.
- **Lost answers.** A transaction whose send throws may have landed; a database call
  that throws may have been applied.
- **Crashes** between the steps of one operation: between signing, persisting and
  sending; between a transfer and the rows that record it; between truncating and
  writing a file.
- **Redelivery.** Telegram updates, webhook signals and execution rows come again.
- **Leases and timeouts** that a slow holder overruns.
- **Bounded memory.** Dedupe caches of 1000 entries forget.

### What makes each component correct

- *Fee collection:* a row is charged by at most one transfer; cashback becomes
  claimable only after it confirmed; a settled row stays settled; rows do
  not get stuck.
- *Payout:* an entry is marked paid only for SOL that arrived, and is not paid twice,
  unless a send threw although it landed or a list was settled by another process before
  its payout was inserted; reports of payouts are true; an unsettled payout stays open.
- *Copy buy:* a coin is bought once; guards are neither leaked nor freed by a stranger;
  the daily cap holds; a stop holds back what has not passed the gate; a coin stays
  blocked only by a buy that landed, or of which no confirmation was heard.
- *Buy-pressure exit:* a watcher sells once, across restarts; none is forgotten; all end.
- *Hot snapshot:* an acknowledged stop is effective and survives crashes; the last
  command wins; the worker has its keys and comes to follow the settings.
- *Durable record:* two claims of one key in one store never both lead to an order; the
  record tells whether an order went out.
- *Trailing sells:* one schedule per chat, wallet and coin; nothing sold for a buy that did
  not land; a stop holds back every order that has not passed its gate; schedules end.
- *Reservations:* the transactions under way never ask for more than the wallet holds and
  the reservations that lapsed too early amount to.
- *Executor queue:* no wake-up is lost; what found room in the queue is handled.
- *Worker's exits:* a buy is within its limits and, with the balance guard on, reserved in
  full; a schedule sells no more than its steps allow, however old the balances it reads.
- *Send lanes:* under any settings the start accepts, a buy reaches a lane and pays it.
- *Feeds:* a feed with wallets to watch comes back after every loss.
- *Subscriber store:* what a command acknowledged stands, in memory and after a restart,
  whatever becomes of commands about other wallets, keys and settings.
- *Dialogue:* a setting is saved only as the last prompt named it; a button is meant to
  act on the wallet its message named (it need not: a finding).
- *Execution rows:* no line the durable cursor has passed is unaccounted for.

PROJECT.json lists each hazard at its line with the properties that cover it.

## 2. Plan

Done, in this order:

1. `FeeSettlement` (abstract) and `PlatformFeeCollection`, which implements it.
2. `CashbackPayout`.
3. `CopyBuy`.
4. `BuyPressureExit`.
5. `HotSnapshot`, composing the bot's update loop with the Rust worker.
6. `BalanceLedger` and `ExecutionQueue`: check-and-reserve under concurrent executors,
   refreshes and expiry; the bounded two-lane queue.
7. `TrailingSells` for the bot, `WorkerExits` for the worker.
8. `BuyRecord`: the JSON and the Supabase store with reclaim and sticky fallback.
9. `ExecutionRows`: the JSON-lines writer, the sidecar's reader and the table;
   `SubscriberStore`.
10. `SendLanes`, `TelegramDialogue`, `WalletFeeds`.

Open, in the order of what they would add:

- the exits composed with `CopyBuy` and with each other (`BuyPressureExit`,
  `TrailingSells`, `WorkerExits` sell one position; which of them does is decided by
  settings and by one refusal, and each is modelled with the others as an alternative);
- the bot's own reader of the local JSONL file, beside `ExecutionRows`;
- the Helius webhook's registration, beside `WalletFeeds`;
- pure modules against reference definitions: cashback and fee arithmetic, snapshot
  filters and profile merging, risk caps, copy-spend and slippage arithmetic;
- abstract specifications of the durable buy record and of the sidecar's table, with
  refinement proofs like the one of `PlatformFeeCollection`: every safety property of a
  run is stated by a theorem by now, but only one component is shown to implement a
  specification of what it promises.

## 3. Modules and the code

A step of every module is the code from one `await` (or lock) to the next. A call to
the database, the chain or the file system is one step that may succeed, fail before it
took effect, or fail after it; a crash loses what is in memory. Where a definition has
an alternative ending in a suffix (`Claimed_...`, `Released_KeepsCoin`), the
alternative is a plausible bug, used to see that the properties notice it; `Next` never
uses it.

### FeeSettlement, PlatformFeeCollection, MCPlatformFeeCollection

`row[r]` is a ledger row, `entry[c]` the copy a collector got when it claimed the row,
`pc[c]` where it is in `processRustAsyncPlatformFeeCollection`. `SeedLookup`/`SeedAccrue`
are the two calls of seeding; `Claim` is `claimPlatformFeeCollections` (a conditional
update that takes free and expired leases); `Prepare` signs, `Persist` stores the signed
bytes, `Broadcast` sends, `MarkSubmitted` records; `Retry` and `Restore` are the two catch
blocks; `Rebroadcast` is the submitted branch; `Await` and the three `Settle...` are the
confirmation. Every write goes through `Stored`, which writes nothing when the lease token
no longer matches, and `Finish`, which adds lost answers. `ExpireLease`, the blockhash
queue and the chain are the environment. A transaction is its terms and its blockhash: two
rows with equal terms signed over one blockhash are the *same* transaction.

`FeeSettlement` is what the bridge promises, without collectors, leases or retries: one
transfer per row and no collection without a landed transfer. The mapping takes a row's
collection status to `outcome` and the landed transactions to `landed`.

### CashbackPayout, MCCashbackPayout

One chat and wallet. `SeeBalance`, `SeeNoOpenPayout` and `Refuse` are the guards of
`claimCashback`, `List` the second read of the ledger, `Create` the insert that the unique
index of open payouts admits, `Send`/`Confirm` the transfer, `MarkSubmitted`,
`MarkLedgerPaid`, `MarkConfirmed`, `Report` the calls in order, `Record` the catch block.
`covers[p]` is history: the entries whose sum a payout was created for. So are the two
exceptions the properties make: `unheard`, the payouts whose send threw although their
transfer was undecided or had landed, and `stale`, those created from a list whose entries
another process had settled meanwhile. The code repeats both.

### CopyBuy, MCCopyBuy

An order is a delivery of a signal times a chat copying the wallet. `Race` and `Receive`
are the two ways in (race tracker, `seenEvents`), `Start` the webhook's path; `Begin` is
`sendCopyTradeSimulationAlert` up to its first await (semantic guard, first cap check),
`Reserve` the reservation of guard and budget after the balance read, `Build` the gate
and the transaction, `Send` the fanout, `Confirm` the confirmation, `Finish` the `finally`
block. `Released` is what that block frees. `past` marks deliveries to earlier processes.
`lost` and `unconfirmed` are history: sends that were accepted although every endpoint
answered with an error, which free their coin, and orders whose confirmation threw, which
are answered `ok` and keep it.

### BuyPressureExit

`active`, `timer` and `task` are the three maps of the code, `saves` its queue of
whole-map snapshots (the snapshot is taken when a save is *called*), `file` the JSON file.
`StartWatcher` registers, `Trade` counts an observed buy, `Fire` and `Claim` start a
trigger, `Sell` hands the sale to the network, `Finish` releases the claim or removes the
watcher, `TimerFires` is both timers, `Load`/`Loaded` the recovery. `Trade`'s set stands
for the filters on mint, own buys and older buys. Shutdown is `Crash`: it waits for no
save. A timer is taken not to fire before its expiry (the code compares wall clock with a
monotonic timer); the eviction of counted keys after a hundred buys is left out; one buy
is delivered once at a time.

### HotSnapshot

`inbox` holds the updates in Telegram's order, `confirmed` what the last `getUpdates`
acknowledged, `offset` what the poller took up: a crash goes back from the second to the
first. `bot` is where the one handler is: `opening`/`writing` the stop file (written in
place: it is `torn` in between), `refreshing` (building the snapshot from flag and
store), `keys`, `snapshot` (temporary file and rename), `reloading` (the shell command).
`command` is the update or the startup refresh. The worker is `starting` (snapshot read,
keys not), `running`, `refreshing` (a new snapshot is read, balances are awaited),
`swapping` (keys replaced, snapshot not yet). `queue` is the set of wallets with a buy
waiting; `Execute` covers sending and skipping. `halted`, `lost` and `stale` are history.

Live trading is taken as enabled, `JITO_TELEGRAM_SNAPSHOT_PATH` and the key-file directory
as set. Two settings
stand for thirty: one that triggers the reload command and one that does not. The
subscriber store is taken as durable. The fingerprint's time stamp is left out: the model
treats two snapshots of one sequence and content as equal, and reloading an equal
one would change nothing. A load that fails (`live.rs:1088`) keeps the old snapshot and is
a step that changes nothing.

### BuyRecord

`table` and `file` are the two stores, a status and a transaction by key; `fallback` is the
process's `useFallback`; `handled` the coins of the semantic guard. A buyer is a run of
`sendCopyTradeSimulationAlert`. `awaits` is chosen at the start: a provider that claims
before it sends, or the direct path, which sends first and persists afterwards without
awaiting it. `Begin` passes the guard; `InsertRow`, `MeetRow`, `ReadRow`, `ReclaimRow` are
`claimBuy` and `reclaimFailed` on Supabase, call by call (insert, conflict, look at the row,
conditional update); `ClaimInFile` is the same on the file, which is one step under its
lock; `MarkRow`/`MarkInFile` complete or fail the record, and any of these calls, on either
store, may fail; `ActivateFallback` makes the file
the store; `Restart` forgets guard, runs and the choice of store.

### TrailingSells

`PickUp` is a row of the Rust worker delivered by the poller, perhaps again; `HandOver` a
buy of the bot itself. `AwaitBuy`/`WatchBuy` await the buy, `Exits` is
`scheduleCopyTradePostConfirmationExits` with its registry `active`, `Top`/`Due`/`Built`/
`SendSell`/`Report`/`Settled` are one step of `runTrailingSellSchedule` between its awaits,
and `Left` its `finally`. `gate` is the stop as `rustTrailingSellDirectExecutionGate`
captured it; `late` (history) are the orders that had passed their gate when a stop came.
`Shutdown` and `Restart` lose every schedule: they are kept nowhere. How much a step sells
is left to the quoting code.

### BalanceLedger, ExecutionQueue

`BalanceLedger` is `check_and_reserve`, the commit and the drop of a reservation
(`balance_cache.rs`), called by concurrent `handle_inner`s, with refreshers whose answers
are old, late or out of order. Time is a clock of a few ticks. The usable age of a balance
and the expiry of a reservation are constants; how long an executor, an answer or a landing
takes is not bounded. `lapsed` is history: the executors whose reservation ended while
their transaction could still land, or had landed and the cached balance did not show it.

`ExecutionQueue` is `CopyExecutionRequestQueue`: two lanes under one capacity and tokio's
`Notify`, which stores one permit. A worker is `popping`, `registering`, `waiting`,
`handling` or `finishing`; `fate` is history.

### WorkerExits, SendLanes

`WorkerExits` follows one buy: `Guards`, `Build` and `SignSend` are `handle_inner` with the
floor, the maxima and, unless `JITO_COPY_WALLET_BALANCE_GUARD` switches it off
(`options.guard`), the balance check and the reservation; `SpawnExits` starts the trailing
schedule or the auto-sell; `ObserveSell` is the target's sell. `TrailConfirm`,
`TrailGuard`, `TrailRead`, `TrailSend` and `TrailSkip` are one step of the schedule;
`AutoRead`/`AutoSend` the two auto-sells. `past` holds every balance the wallet has had: an
RPC may report any of them. `flights` are sells under way, which may land after their
answer was lost.

`SendLanes` chooses a configuration, refuses it as the worker's start does (`Accepted`,
following `executor.rs` lane by lane), and sends one buy or sell: `UsesLane`, `Ends` and
`Fanned` are the endpoints, `BuyTips`, `SellTips` and `Transfers` what the transaction
pays, `SelectedFee` and `AccountFee` the priority fee, `Answer` the collection of answers.

### SubscriberStore, TelegramDialogue

`mem` is a chat's record in memory and `db` what is kept of it: a map from items (mode,
settings, target, copied and watched wallets, trading wallets, active key) to values. A
command puts a new record in `next` and the writes it takes in `todo`: the file is one
rewrite in place (`torn` in between), Supabase one call after another. `Written`, `Answer`
and `Fail` are what becomes of a call; `Reloaded` is what a load would make of what is
kept, the adoption of older versions included; `want` (history) is what was acknowledged.

`TelegramDialogue` has one message with a button at a time (`shown`) and the two pending
questions of `commands.ts` (`copyInput`, `walletInput`), each with its expiry. A button
carries a place in a list; `Chosen` looks it up when it is pressed, and `pressed` (history) is the
last message whose button did something with the wallet it did it to. `asked` is the last
prompt to confirm.

### ExecutionRows

A line is two blocks, the second with the newline, so that a reader can find a file
between them. `Produce`, `Flush`, `WorkerDies` and `Rotate` are the writer (`live.rs`);
`Start`, `Stat`, `Read`, `PersistMalformed`, `Raw`, `Commit`, `Refresh`, `Enrich`, `Save`
are the sidecar: `cursor` in memory, `saved` on disk (replaced by rename), `saving` the
writes under way, `seen` the lines kept as context, `queue` the enrichments, `dead` the
dead-letter file, `cached` what an RPC answered. `Read` is one call of `readBatch`, the
context and the rows of its batch (`ReadBatch`, `LinesAt`, `Scoped`, `Merged`); the four
writers of the table differ in what they overwrite (`Over`, `Inserted`, `Enriched`).

### WalletFeeds

One feed of a kind chosen at the start. `held` is the stream the code holds, `conn` where
each connection is (an ended stream's event comes later), `timer` the reconnect timer the
code can still clear and `strays` those it cannot. The four `...Connect` operators are the
four implementations; `Change` is a new watch list.

### MCBookkeeping, MCScheduling, MCExecution

Components that share no state are checked in one run: `part` is chosen in the initial
state and only that component moves, so the run is the disjoint union of their state
spaces and a property speaks of the part it names. `MCBookkeeping` extends `BuyRecord` and
holds `SubscriberStore`, `TelegramDialogue` and `BalanceLedger`; `MCScheduling` extends
`TrailingSells` and holds `ExecutionQueue` and `WalletFeeds`; `MCExecution` holds
`ExecutionRows`, `WorkerExits` and `SendLanes`. The sets the components range over
(executions, wallets, keys, amounts, plans, fees) are CONSTANTS of these modules, given values in the
.cfg, so that the theorems about the composed specification hold for all of them; the
assumption of each component is repeated there under a name for TLC to evaluate.

### Notes from modelling

- The snapshot keeps no subscriber at all while a daily cap is configured: the caller
  passes no `dailySpentSolByChatId`, and `dailySpentSolForChat` then returns null, which
  `snapshotSubscriber` treats as blocked. It fails closed.
- Two subscribers who copy one target with one trading wallet and different settings make
  every load of the snapshot fail (`telegram_snapshot.rs`, conflicting duplicate profile):
  the running worker keeps the old one, a restarted worker does not start.
- The chat's answer to a stop says "in this running bot process" (`commands.ts:294`); the
  file makes it last longer than that.
- `setMode` ends a pause made with `/stop` in both stores; `SubscriberStore` does so too.
- The worker's `CopyExecutionRequestQueue` refuses a copy buy as well when the low lane
  has filled the common capacity.

## 4. Runs, bounds and fairness

| Run | Question | Properties | States |
|---|---|---|---|
| `platform_fee_collection` | Two collectors, one row, crashes, lost answers, overrun leases | `PersistedBeforeBroadcast`, `ClaimableOnlyAfterConfirmation`, `LedgerAgreesWithCollection`, `SettledRowsStaySettled`, `PromiseKept` (the refinement of `FeeSettlement`) | 41,965 |
| `platform_fee_liveness` | A legacy row beside a new one: rows move on | `PendingRowsAdvance`, `DecidedRowsSettle` | 44,078 |
| `platform_fee_shared_transfer` | *finding*: two rows of one wallet become claimable through one transfer | `SeparateTransferPerRow` | about 4,000 |
| `cashback` | Two processes, three entries (one negative), three faults, a send that throws although it lands | `PaidEntriesWereTransferred`, `ReportedPayoutsArePaid`, `EntriesPaidOnce`, `UnsettledPayoutStaysOpen` | 1,102,540 |
| `copy_buy` | Three signals of two coins, caches of one entry, a cap, midnight, a stop, a restart, a send answered with errors only | `GuardsMatchRuns`, `OneBuyPerCoin`, `DailyCapHolds`, `StopHoldsBack`, `CoinFreedOrBought` | 542,197 |
| `buy_pressure` | Two watchers, a buy, timers, a failed save, a restart | `SoldOnce`, `SoldNeverResumes`, `ChangesAreSaved`, `WatchersEnd` | 343,868 |
| `buy_pressure_lost_fallback` | *finding*: a refused claim leaves a watcher without its timeout | `FallbackArmed` | about 100 |
| `hot_snapshot` | Two updates, two faults, with and without the reload command | `StopIsEffective`, `ProfilesHaveKeys`, `LastCommandWins`, `ExecutorFollows` | 587,078 |
| `bookkeeping` | Three buyers of one coin; three commands on a store; five updates of a chat; three executors and two refreshers on one wallet | `BoughtOncePerStore`, `RecordTellsOutcome`, `AcknowledgedStands`, `SavedAsAsked`, `NoOverdraft` | 1,421,803 |
| `dialogue_buttons` | *finding*: a button removes another wallet than its message names | `RemovesWhatItNamed` | about 41,000 |
| `scheduling` | Two schedules of one position; five requests and two workers; each kind of feed | `OneSchedulePerPosition`, `SoldOnlyAfterLanding`, `StopHoldsSellsBack`, `SchedulesEnd`, `NoLostWakeup`, `QueuedIsHandled`, `FeedsReturn` | 148,594 |
| `execution` | Two executions through the file into the table; one buy and its sells; every lane mode | `NothingSkipped`, `PlannedAmountsOnly`, `BuysPayTheirLanes` | 1,061,626 |

**Findings.** Each is a difference between the code and what a line of the repository
says or means to do, with its place in PROJECT.json. Three of them have a run that refutes
the sentence. The others were met while modelling: the model does what the code does
there, and where a property would be refuted by it the property says what it leaves out
(`Crossed` keys in `BoughtOncePerStore`, `Sturdy` feeds in `FeedsReturn`, `unheard` and
`stale` payouts in `EntriesPaidOnce`, `lost` and `unconfirmed` orders in `OneBuyPerCoin` and
`CoinFreedOrBought`, `lapsed` reservations in `NoOverdraft`, a torn file in
`AcknowledgedStands`). A finding whose
code is not modelled says so.

**Bounds.** They are constants in the guards (`Max...`, `Steps`, `CacheSize`, `Capacity`;
`Delivery`, `Payout`, `Token`, `Schedule`, `Buyer` bound how often
something is begun). They are chosen so that every race has the actors it needs:

- two collectors (or processes) are enough for a lease to be overrun and taken over; three
  faults allow a crash, a lost answer and a lost write in one history; four tokens let
  each collector claim twice;
- a payout needs three entries to have a claim, a correction and an accrual in between,
  and three payouts for a failed, a blocked and a second one;
- the copy buy starts in two ways: with one signal taken by an earlier process, and a
  midnight, a stop and a restart still to come; or with three signals to come on a day
  when nothing else happens. Its caches forget after one entry, so that eviction happens
  at once, and the cap admits one of the two buys;
- two watchers show that whole-map snapshots of one do not undo the other;
- two updates of the snapshot are a stop and a resume, or a stop and a setting; two faults
  a crash of each process, or a failed call and a crash;
- three buyers let a failed claim be reclaimed while a third one waits; two orders of one
  coin, one that may be repeated, give a coin key and a transaction key;
- three store commands are an addition, a change of another thing and a removal, with a
  failed call and a crash in between; two wallets show that each stands for itself;
- five updates are two questions, an answer, a confirmation and one more; or two messages
  with buttons, their presses and a change of the list;
- the ledger's amounts are 2, 1 and 1 of 3 lamports, so that any two fit but not all; as
  shipped (120 s each) a reservation lasts as long as a balance is usable, two ticks, and
  the clock passes that by one, so that reservations lapse;
- two schedules, one of a Rust buy and one of the bot's own, meet at one position; two
  steps give a gate between them; the cache of remembered rows forgets after one;
- five requests fill a queue of two with two workers busy, one is refused, one is unarmed;
- four connections let an old one, its event, a new one and a stray timer's one coexist;
- two versions of two executions in three lines, chunks of one and of two lines, one
  trouble (crash, failed call or death of the writer) at every point.

The theorems below drop the bounds for the properties they cover. Symmetry is used in
runs without liveness properties, and only for sets whose members no constant tells apart.

**Fairness.**

- *Fee collection:* weak fairness for each collector's steps and for the expiry of a lease
  whose holder has left the row; strong fairness for claiming a row. Every await of the
  handler returns or throws, a lease has an end, and the poller is an interval timer that
  lists the due rows again and again, so a row that is due time after time is listed while
  it is. Nothing is assumed of the chain: `DecidedRowsSettle` starts from its verdict. The
  number of faults is bounded, i.e. they stop at some point.
- *Copy buy:* weak fairness of each order's steps: awaits return, and confirmation has a
  timeout. Nothing is assumed of feeds or of the chain.
- *Buy-pressure exit:* weak fairness of the store, of recovery, of sales, timers and
  triggers: saves answer, time passes, the process is started again.
- *Hot snapshot:* weak fairness of the bot's and of the worker's steps together: calls
  return, both are services that are restarted, the reloader is an interval, and loads of
  a snapshot do not fail for ever. Nothing is assumed of Telegram, of crashes or of the
  stream.
- *Trailing sells:* weak fairness of each schedule's steps, whose timers fire and whose
  awaits return or time out, and of `Restart`, since a shutdown ends in `process.exit`.
  Nothing is assumed of the chain: an undecided buy is given up after its wait.
- *Executor queue:* weak fairness of each worker: the runtime polls the task, and a handler
  returns. A low-lane request could starve under endless copy buys; the requests of the
  instance are finitely many.
- *Feeds:* weak fairness of timers, of the answer to a connection attempt and of the event
  of an ended stream. Losses and changes of the list are bounded, i.e. they stop.
- The remaining components have safety properties only, and no fairness.

Deadlock checking is off everywhere: the models stop where the system has nothing left to
do (all deliveries used up, all rows settled, all schedules over), and in `HotSnapshot`
also where the bot does not start again from a torn stop file.

## 5. What is proved

The proofs are in the `...Proofs` modules and hold for every value of the constants that
satisfies the named assumption of the module (finiteness where needed, distinct markers,
positive limits).

**PlatformFeeCollectionProofs.** `Inductive` establishes `IInv`; `TypeCorrect`,
`BytesFirst`, `ChargedOnce`, `EarnedByConfirmation`, `LifecyclesAgree` and
`VerdictsAreFinal` follow. The safety properties are not inductive because a collector acts
on a copy of the row, possibly after its lease was taken over. `IInv` therefore says
what it may still believe (`Remembers`: bytes once persisted never change and a
transfer once sent stays sent, lease or no lease) and what it has achieved where
(`Progressed`); that tokens are unique (`LeasesDiffer`) makes the token check a fence. The
proof separates the acting collector, the row it writes and the bystanders (`Assemble`),
so that each action is one lemma about one row.

`KeepsThePromise` is the refinement `PromiseKept`: the initial states map to the initial
state of `FeeSettlement`, and each action to one of its steps or to none. Seeding a row
is `Open`, its first broadcast `Send`, the chain's yes `Land`, the settlements `Collect` and
`Abandon`; everything else (claims, leases, retries, restarts, saved bytes, a transfer sent
again, the payout) leaves the mapped state alone. `VerdictsAreFinal` is what makes a
settlement the first one, `ChargedOnce` what makes a broadcast the first or a stutter.

**CashbackPayoutProofs.** All of it is for any number of processes, faults and lost
confirmations. `ClaimsInOrder` is the first invariant: a claim knows which payout row is its
own and that its transfer landed before it marks entries; `NothingLost` and `ReportsAreTrue`
follow. `PayoutsApart` adds that a payout stays open until its entries are marked, and that
no two payouts that are open or have left cover one entry; `PaidOnce` and `OpenUntilSettled`
follow. It excepts the payouts the code does repeat: the `unheard` ones, recorded as failed
although they may land (the finding at `cashback.ts:1287`), and the `stale` ones.
`OneProcessRepeatsNothing` says that with one process, as `README.md:95` asks, there are
none of the second kind. Then only the lost confirmation is left.

**CopyBuyProofs.** `IInv` gives each guard key exactly one live run; `TypeCorrect`,
`GuardsExact` and `StopHolds` follow. `BoughtOnce` adds `KnownBuys`: a buy
that may have landed is still awaited, known, or `lost`, that is, accepted although every
endpoint answered with an error. The code frees the coin of such a buy; whatever their
number, no other buy of the coin is repeated. `CapHolds` is `DailyCapHolds` for any caps and
amounts. Its invariant (`BudgetInv`) relates the counter of a chat to the *sum* of what its
runs of that day reserved, across midnight and a restart; the sum over a set of runs is
taken apart and put together by lemmas on adding and removing one run.

**BuyPressureExitProofs.** `SellsOnce` and `NeverResumed`. The invariant ties the
watcher in memory, its run, the file and *every queued snapshot* together: once a sale is
allowed, neither the file nor a save still in the queue offers the watcher as waiting
(`NotOffered`); for a claim still in the queue the saves behind it offer it neither
(`CallInv`). `SavesKeepUp` is `ChangesAreSaved`: as long as no save was refused, the last
snapshot queued, or the file if none is, is the map as it is now.

**HotSnapshotProofs.** `TypeCorrect` (the poller never confirms what it has not taken
up), `KeysLoaded`, `StopStands` and `LastStands`. `KeysLoaded` carries the order key
files, snapshot file, worker's keys, worker's snapshot (`KeysFirst`). `StopStands`
distinguishes a stop on its way (`Stopping`: flag before file before snapshot) from an
acknowledged one, which has emptied the draft, the file and, given the reload command,
the worker (`Emptied`). `LastStands` says that the stop file records some prefix of
the updates that redelivery cannot go back behind (`Recorded`), from two lemmas on how a
prefix's last command changes with one more update.

**BookkeepingProofs.** Four components, one argument each; the invariants of the last three
stand at the end of their modules.

- *BuyRecord:* `TypeCorrect`, `BuysOncePerStore`, `RecordsTellOutcomes` and `VerdictsStay`
  (a verdict is never rewritten except by a new claim). The invariant says where a run can
  be and what its results mean (`Runs`), that what a run holds is registered in the store
  its claim went to (`Registered`), that no two runs hold one key in one store
  (`Exclusive`), and that a row's status agrees with the orders sent (`Truthful`). Keys that
  were claimed in one store and completed in the other are exempt throughout: the code
  grants them twice.
- *BalanceLedger:* `NeverOverdrawn` is `NoOverdraft` for any number of executors and
  refreshers, any amounts, any usable age and expiry, and any delays. A cached or answered
  balance exceeds the wallet by at most what has landed since it was read (`BalanceInv`);
  the ledger covers the reservations whose time is not over (`Counted`, `Covered`), but for
  what a lapsed executor dropped of the reservations of others when it gave up (`Eaten`).
  So whatever asks for lamports twice is the amount of a `lapsed` executor. That there are
  such is the finding at `balance_cache.rs:207`: a balance is usable for
  `JITO_COPY_WALLET_BALANCE_STALE_MS`, 120 s unless set, and a reservation is dropped after
  `RESERVATION_RECONCILE_MS`, 120 s too, whether or not the balance shows the transaction.
  Balances are read again every second, so this takes an RPC that is out, or an executor or
  a landing that takes that long. The sums are cardinalities, taken apart one executor at a
  time (`TotalAdds`, `TotalRemoves`, `TotalSplits`).
- *TelegramDialogue:* `SavesWhatWasAsked`. A value waiting to be confirmed is the one the
  last prompt named (`AskedInv`), in spite of questions that replace each other, expire and
  are answered late. Nothing is proved of buttons: they act on places in lists that change
  (`dialogue_buttons`).
- *SubscriberStore:* `StandsAcrossRestarts`. A command under way changes only what it is
  about and each of its items is written or still to be written (`UnderWay`); what was
  acknowledged is in memory *and* stored, and neither the target in memory nor the stored
  one can bring a removed wallet back when the state is loaded (`Standing`).

**SchedulingProofs.** *TrailingSells:* `TypeCorrect`, `PositionsHeldOnce`,
`NothingSoldUnlanded` and `SellsHeldBack`. The registry is exact because a schedule takes
its position and leaves it in single steps of the event loop (`Owned`); that a schedule past
its wait has a landed buy whose record does not say otherwise (`Sound`) carries the second;
that a captured gate is open for whoever is building or sending (`Gated`) the third.
*ExecutionQueue:* `QueueTypeCorrect` and `WakeupsKept`. With the types `NoLostWakeup` is
inductive as it stands: every step that leaves something queued leaves the stored permit or
an active worker, although `Notify` stores one permit for any number of notifications.

**ExecutionProofs.**

- *SendLanes:* `PaysItsLanes`. A buy sends its lanes and their tips in one step and only
  collects answers afterwards (`BuyInv`); the work is in the configuration. Each mode is led
  by a lane that an accepted configuration has (`EveryModeLed`), a lane's account is paid
  the highest tip asked for it (`TransfersPay`), and the chosen fee stays between zero and
  the maximum whatever the source says (`FeeBounds`).
- *WorkerExits:* `SellsAsPlanned`. A buy that may be under way has passed the limits before
  its reservation and, with the balance guard on, the balance check at it (`OrderInv`). For
  the trailing schedule (`TrailInv`): what it believes it still holds is the balance it
  began with less what it sold, and that is at least what the plan keeps after these steps.
  A step's amount is at most its share of that belief, and shares are monotone
  (`StepShare`), so a balance that is too old or too new makes it sell less. `Kept`, what a
  plan keeps, is a recursive function; that it is what its equation says follows by
  induction over numbers as sets (`AllNumbers`), since the library's induction theorems
  cannot be instantiated.

  What the steps of a plan are (`EffectiveSteps`, a `SelectSeq`) is opaque to the provers:
  `ExitsAssumption` says that they are a sequence of percentages, and TLC evaluates it for
  the plans of the run.
- *ExecutionRows:* `NothingLeftOut` is `NothingSkipped`, for any number of executions, of
  lines and of failures, and any sizes of a chunk, a batch and the context. The property
  speaks of the saved cursor only and is far from inductive: what is saved comes from the
  cursor in memory, that from a batch read some steps ago or from a queue of enrichments,
  and a rotation, a death or a refresh can fall between any two of them. The inductive
  invariant `RowsInv` therefore says the same of *every* cursor: the saved one
  (`SavedInv`), the one in memory, the one of the batch under way (`BatchInv`) and the one
  being written (`SavingInv`). `CursorOf` is what it says: the cursor is in its file, at the
  beginning of a line or behind a reported one (`Placed`); what it has passed and does not
  parse was reported; what it has passed and parses is in the table, or pending where the
  chain has not been asked (`Covered`).

  With REST, in the first file, the table must also not go back: a row is written by the
  raw upsert, the refreshes and the enrichments in any order. There `Current` says that a
  passed row is at least as new in the table or pending, and the invariant adds that
  whatever could still overwrite it is no older: the queued enrichments (`QueueInv`) and the
  last copies in the context (`ContextOf`), because the worker writes the copies of a row
  in order (`Ordered`). `RowsInv` was checked by TLC on the instance of
  the run before it was proved.

  The proof has three layers. The first is what the operators on a text do: where a line
  begins (`BeginOf`), what stays of the ends, beginnings and lines when a text grows
  (`AppendedText`) and when a window of it is read; that the lines of a batch are the sound
  ones between the two places, each once and in order; that the scoped context contains
  every row of the batch (`ScopedRest`, by counting). The second is about one cursor: what
  happens to `CursorOf` when the file grows, the table changes, or the cursor moves on with
  new pending rows. The third has one lemma per action (`DecideKeeps` to `SaveKeeps`),
  joined in `RowsStep`.

## 6. What is only checked, and what is not modelled

Only model-checked:

- all liveness (`PendingRowsAdvance`, `DecidedRowsSettle`, `CoinFreedOrBought`,
  `WatchersEnd`, `ExecutorFollows`, `SchedulesEnd`, `QueuedIsHandled`, `FeedsReturn`),
  which the prover does not reach;
- what a plan's steps are (`SelectSeq`), and the amounts in `CashbackPayout`'s types.

Some things the models make visible and no property forbids, because the code promises
nothing:

- a fee transfer whose blockhash expired unseen leaves its row submitted for ever;
- a collector that lost its lease may still send the transfer of a row that was given up:
  the fee is taken and the cashback stays void;
- a payout whose process dies after the insert stays pending and blocks the wallet;
- a payout whose send threw is recorded as failed and its entries are claimable again,
  although the transfer may land;
- a coin whose buy expired unconfirmed stays blocked until the process ends, and one whose
  buy was accepted by an endpoint that answered with an error does not;
- with the wallet-balance guard off nothing is reserved, and buys at the same time may ask
  for more than the wallet holds;
- a button acts on the wallet at its place in the list as it is when it is pressed;
- after a restart a signal delivered again is bought again: nothing durable is read before
  a direct buy;
- a stop that fails between the flag and the snapshot is in force in the bot and not in
  the worker, and the chat gets no answer;
- a setting change that restarts the worker drops its queued buys and its in-memory exits;
- a restart, or an error of Telegram or of the recorder, ends a trailing schedule with the
  rest of the position unsold;
- a command that was refused because one of its calls failed may still take effect at the
  next load.

Not modelled, and why:

- *Transaction bytes* (decoding, instruction building, signing, quoting): no state beyond
  one transaction; amounts and verdicts enter the models as inputs.
- *Cashback rates and administration, risk caps, execution modes and canary gates:* pure
  functions of the configuration and of an operator's command line.
- *Caches of the worker and latency records:* a replaced value, or an appended measurement,
  that no decision of the modelled parts reads back.
- *The bot's local readers of the JSONL file*, which keep their offset in memory, and the
  Helius webhook's registration: their flaws are listed as findings.
- *A file truncated in place between the sidecar's stat and read:* the model's file is
  rotated, not rewritten.
- *The PumpPortal execution path:* an external service builds and sends the transaction.
  Its claim of the durable record is part of `BuyRecord`.
- *Import and encryption of trading keys, verification of chats, nicknames of copied
  wallets, wording:* no property here is about them.
- *Dashboard, database policies and views, reports, deployment, experiments:* readers of
  what the modelled parts record. *Earlier workers* are superseded copies.
