----------------------------- MODULE HotSnapshot -----------------------------
(***************************************************************************)
(* How the Telegram bot governs the Rust copy worker.  The bot takes its   *)
(* updates one after the other; each that changes what may be traded ends  *)
(* in a new snapshot file, written after the signer key files it refers    *)
(* to, and for most reasons in a command that restarts the worker.  The    *)
(* worker reads the file when it starts and polls it afterwards.  An       *)
(* emergency stop is remembered in a file of its own.  Both processes      *)
(* crash and restart; a step below runs from one await to the next.        *)
(***************************************************************************)
EXTENDS Naturals, Sequences

CONSTANTS
  Wallet,       \* local trading wallets, each with its copy settings
  MaxCommands,  \* bound: updates sent to the bot
  MaxFaults     \* bound: crashes of either process and failed calls

ASSUME SnapshotAssumption == MaxCommands \in Nat /\ MaxFaults \in Nat

VARIABLES
  inbox,      \* the updates sent so far; update_id is the index
  confirmed,  \* updates Telegram will not deliver again
  offset,     \* updates the poller has taken up
  batch,      \* end of the batch the poller fetched last
  bot,        \* where the bot is between two awaits
  command,    \* the update it handles
  stopped,    \* copyTradeEmergencyStopped
  stopFile,   \* the emergency-stop file
  config,     \* subscriber store: the wallets that are set up to copy
  sequence,   \* copyTradeHotPathSnapshotSequence
  draft,      \* the snapshot the bot is publishing
  keyFiles,   \* wallets whose signer key file exists
  file,       \* the snapshot file
  worker,     \* where the worker, or its snapshot reloader, is
  runtime,    \* the snapshot the worker trades by
  keypairs,   \* wallets it can sign for
  loaded,     \* the snapshot its reloader is about to install
  queue,      \* wallets with a copy buy waiting for an executor
  reloads,    \* COPY_TRADE_HOT_SNAPSHOT_RELOAD_COMMAND is set
  halted,     \* history: an emergency stop was acknowledged, no resume handled since
  lost,       \* history: the last emergency command could not be saved
  stale,      \* history: the last command failed before its snapshot was published
  faults

telegram == <<inbox, confirmed, offset, batch>>
memory == <<stopped, sequence, draft>>
disk == <<stopFile, config, keyFiles, file>>
rust == <<worker, runtime, keypairs, loaded, queue>>
history == <<halted, lost, stale>>
vars == <<telegram, bot, command, memory, disk, rust, reloads, history, faults>>

Emergency == {"copytrade.emergency_stop", "copytrade.emergency_resume"}

\* One change that restarts the worker, and one that is left to its poll; either
\* may bring a wallet into the snapshot or take it out (its caps, its targets).
Setting == {"subscriber.setCopyTradeWalletEnabled", "subscriber.setCopyTradeBuySlippage"}

Startup == [reason |-> "startup", wallets |-> {}]
Command == [reason : Emergency, wallets : {{}}]
             \cup [reason : Setting, wallets : {{w} : w \in Wallet}]

Snapshot == [sequence : Nat, stopped : BOOLEAN, profiles : SUBSET Wallet]
NoSnapshot == [sequence |-> 0, stopped |-> TRUE, profiles |-> {}]

Handling == {"opening", "writing", "refreshing", "keys", "snapshot", "reloading"}

TypeOK ==
  /\ inbox \in Seq(Command)
  /\ confirmed \in Nat /\ offset \in Nat /\ batch \in Nat
  /\ confirmed <= offset /\ offset <= batch /\ batch <= Len(inbox)
  /\ bot \in {"down", "idle"} \cup Handling
  /\ command \in Command \cup {Startup}
  /\ stopped \in BOOLEAN
  /\ stopFile \in {"inactive", "active", "torn"}
  /\ config \subseteq Wallet
  /\ sequence \in Nat
  /\ draft \in Snapshot /\ file \in Snapshot
  /\ keyFiles \subseteq Wallet
  /\ worker \in {"down", "starting", "running", "refreshing", "swapping"}
  /\ runtime \in Snapshot /\ loaded \in Snapshot
  /\ keypairs \subseteq Wallet
  /\ queue \subseteq Wallet
  /\ reloads \in BOOLEAN
  /\ halted \in BOOLEAN /\ lost \in BOOLEAN /\ stale \in BOOLEAN
  /\ faults \in 0 .. MaxFaults

Init ==
  /\ inbox = <<>>
  /\ confirmed = 0 /\ offset = 0 /\ batch = 0
  /\ bot = "down"
  /\ command = Startup
  /\ stopped = FALSE
  /\ stopFile = "inactive"
  /\ config \in SUBSET Wallet
  /\ sequence = 0
  /\ draft = NoSnapshot
  /\ keyFiles = {}
  /\ file = NoSnapshot
  /\ worker = "down"
  /\ runtime = NoSnapshot
  /\ keypairs = {}
  /\ loaded = NoSnapshot
  /\ queue = {}
  /\ reloads \in BOOLEAN
  /\ halted = FALSE /\ lost = FALSE /\ stale = FALSE
  /\ faults = 0

Fault == faults < MaxFaults /\ faults' = faults + 1

-----------------------------------------------------------------------------
(* The bot's updates *)

\* A chat presses a button.
Press ==
  /\ Len(inbox) < MaxCommands
  /\ \E c \in Command : inbox' = Append(inbox, c)
  /\ UNCHANGED <<confirmed, offset, batch, bot, command, memory, disk, rust, reloads, history, faults>>

\* The process starts; it exits again on an emergency-stop file it cannot parse.
Boot ==
  /\ bot = "down"
  /\ stopFile # "torn"
  /\ stopped' = (stopFile = "active")
  /\ bot' = "refreshing"
  /\ UNCHANGED <<telegram, command, sequence, draft, disk, rust, reloads, history, faults>>

\* Mutant: a batch is confirmed as soon as it was fetched.
Confirmed_AtFetch == Len(inbox)

\* The offset given to getUpdates confirms every earlier update.
Confirmed == offset

\* pollOnce, once its last batch is handled
Poll ==
  /\ bot = "idle"
  /\ offset = batch
  /\ batch' = Len(inbox)
  /\ confirmed' = Confirmed
  /\ UNCHANGED <<inbox, offset, bot, command, memory, disk, rust, reloads, history, faults>>

\* handleUpdate: an emergency command sets the flag before it is saved; any
\* other change goes to the subscriber store.
Handle ==
  /\ bot = "idle"
  /\ offset < batch
  /\ offset' = offset + 1
  /\ command' = inbox[offset + 1]
  /\ IF command'.reason \in Emergency
       THEN /\ stopped' = (command'.reason = "copytrade.emergency_stop")
            /\ halted' = (halted /\ stopped')
            /\ bot' = "opening"
       ELSE UNCHANGED <<stopped, halted>> /\ bot' = "refreshing"
  /\ config' = (config \ command'.wallets) \cup (command'.wallets \ config)
  /\ UNCHANGED <<inbox, confirmed, batch, sequence, draft, stopFile, keyFiles, file, rust,
                 reloads, lost, stale, faults>>

-----------------------------------------------------------------------------
(* Handling an update *)

\* The command throws: at startup that ends the process, later the poller logs it.
Fails ==
  /\ Fault
  /\ bot' = IF command = Startup THEN "down" ELSE "idle"
  /\ stale' = TRUE

\* persistCopyTradeEmergencyStop[Cleared]: writeFile truncates the file ...
OpenStopFile ==
  /\ bot = "opening"
  /\ \/ stopFile' = "torn" /\ bot' = "writing" /\ UNCHANGED <<lost, stale, faults>>
     \/ Fails /\ lost' = TRUE /\ UNCHANGED stopFile
  /\ UNCHANGED <<telegram, command, memory, config, keyFiles, file, rust, reloads, halted>>

\* ... and writes it.
WriteStopFile ==
  /\ bot = "writing"
  /\ \/ /\ stopFile' = IF stopped THEN "active" ELSE "inactive"
        /\ bot' = "refreshing"
        /\ lost' = FALSE
        /\ UNCHANGED <<stale, faults>>
     \/ Fails /\ lost' = TRUE /\ UNCHANGED stopFile
  /\ UNCHANGED <<telegram, command, memory, config, keyFiles, file, rust, reloads, halted>>

\* Mutant: the stop keeps the subscribers.
Profiles_Kept(isStopped, wallets) == wallets

\* createCopyTradeHotPathSnapshot: no subscribers while stopped.
Profiles(isStopped, wallets) == IF isStopped THEN {} ELSE wallets

\* refreshCopyTradeHotPathSnapshot
Refresh ==
  /\ bot = "refreshing"
  /\ sequence' = sequence + 1
  /\ draft' = [sequence |-> sequence', stopped |-> stopped, profiles |-> Profiles(stopped, config)]
  /\ bot' = "keys"
  /\ UNCHANGED <<telegram, command, stopped, disk, rust, reloads, history, faults>>

\* Mutant: the key files are left to the next start.
KeysWritten_AtStartup(wallets) == IF command = Startup THEN keyFiles \cup wallets ELSE keyFiles

\* Key files are added, never removed.
KeysWritten(wallets) == keyFiles \cup wallets

\* writeCopyTradeHotSnapshotKeypairFiles: one wallet after the other
WriteKeys ==
  /\ bot = "keys"
  /\ \/ keyFiles' = KeysWritten(draft.profiles) /\ bot' = "snapshot" /\ UNCHANGED <<stale, faults>>
     \/ Fails /\ \E some \in SUBSET draft.profiles : keyFiles' = keyFiles \cup some
  /\ UNCHANGED <<telegram, command, memory, stopFile, config, file, rust, reloads, halted, lost>>

\* Mutant: the emergency stop is left to the worker's poll.
ReloadNeeded_NotOnStop(reason) ==
  reason \in {"startup", "copytrade.emergency_resume", "subscriber.setCopyTradeWalletEnabled"}

\* copyTradeHotSnapshotReloadNeeded
ReloadNeeded(reason) ==
  reason \in {"startup", "subscriber.setCopyTradeWalletEnabled"} \cup Emergency

\* The command is done: its chat is told, and the poller goes on.
Completes ==
  /\ bot' = "idle"
  /\ stale' = FALSE
  /\ halted' = (halted \/ command.reason = "copytrade.emergency_stop")

\* writeCopyTradeHotPathSnapshotFile: a temporary file, renamed
WriteSnapshot ==
  /\ bot = "snapshot"
  /\ \/ /\ file' = draft
        /\ IF reloads /\ ReloadNeeded(command.reason)
             THEN bot' = "reloading" /\ UNCHANGED <<halted, stale>>
             ELSE Completes
        /\ UNCHANGED faults
     \/ Fails /\ UNCHANGED <<file, halted>>
  /\ UNCHANGED <<telegram, command, memory, stopFile, config, keyFiles, rust, reloads, lost>>

\* The worker's memory is gone: its snapshot, its keys, the buys it had queued.
WorkerEnds ==
  /\ worker' = "down"
  /\ runtime' = NoSnapshot
  /\ keypairs' = {}
  /\ loaded' = NoSnapshot
  /\ queue' = {}

\* runCopyTradeHotSnapshotReloadCommand: systemctl restart; when it fails or
\* times out, the worker may have been restarted all the same.
Reload ==
  /\ bot = "reloading"
  /\ \/ WorkerEnds /\ Completes /\ UNCHANGED faults
     \/ Fails /\ (WorkerEnds \/ UNCHANGED rust) /\ UNCHANGED halted
  /\ UNCHANGED <<telegram, command, memory, disk, reloads, lost>>

\* The process dies. Telegram delivers what it has not seen confirmed again.
Crash ==
  /\ bot # "down"
  /\ Fault
  /\ bot' = "down"
  /\ command' = Startup
  /\ stopped' = FALSE
  /\ sequence' = 0
  /\ draft' = NoSnapshot
  /\ offset' = confirmed /\ batch' = confirmed
  /\ UNCHANGED <<inbox, confirmed, disk, rust, reloads, history>>

-----------------------------------------------------------------------------
(* The worker *)

\* run: without a snapshot file it exits
Start ==
  /\ worker = "down"
  /\ file # NoSnapshot
  /\ runtime' = file
  /\ worker' = "starting"
  /\ UNCHANGED <<telegram, bot, command, memory, disk, keypairs, loaded, queue, reloads, history, faults>>

LoadKeypairs ==
  /\ worker = "starting"
  /\ keypairs' = runtime.profiles \cap keyFiles
  /\ worker' = "running"
  /\ UNCHANGED <<telegram, bot, command, memory, disk, runtime, loaded, queue, reloads, history, faults>>

\* Mutant: only the sequence is compared.
Differs_Sequence(next, current) == next.sequence # current.sequence

\* fingerprint: the sequence and the checksum of the content
Differs(next, current) == next # current

\* spawn_telegram_snapshot_reloader, up to the refresh of the wallet balances. A snapshot
\* that cannot be loaded changes nothing: the timer tries again (a stuttering step).
ReadSnapshot ==
  /\ worker = "running"
  /\ Differs(file, runtime)
  /\ loaded' = file
  /\ worker' = "refreshing"
  /\ UNCHANGED <<telegram, bot, command, memory, disk, runtime, keypairs, queue, reloads, history, faults>>

\* Mutant: the keys of the snapshot that is replaced are kept instead.
Replaced_Old == runtime.profiles \cap keyFiles

\* The key files the new snapshot names, read when it was read.
Replaced == loaded.profiles \cap keyFiles

\* replace_snapshot_keypairs
ReplaceKeypairs ==
  /\ worker = "refreshing"
  /\ keypairs' = Replaced
  /\ worker' = "swapping"
  /\ UNCHANGED <<telegram, bot, command, memory, disk, runtime, loaded, queue, reloads, history, faults>>

StoreRuntime ==
  /\ worker = "swapping"
  /\ runtime' = loaded
  /\ loaded' = NoSnapshot
  /\ worker' = "running"
  /\ UNCHANGED <<telegram, bot, command, memory, disk, keypairs, queue, reloads, history, faults>>

\* A buy of a target is seen in the stream, and queued for each wallet copying it.
Detect(w) ==
  /\ worker \in {"running", "refreshing", "swapping"}
  /\ w \in runtime.profiles
  /\ queue' = queue \cup {w}
  /\ UNCHANGED <<telegram, bot, command, memory, disk, worker, runtime, keypairs, loaded, reloads, history, faults>>

\* An executor sends the buy, or skips it: too old, or no key for the wallet.
Execute(w) ==
  /\ w \in queue
  /\ queue' = queue \ {w}
  /\ UNCHANGED <<telegram, bot, command, memory, disk, worker, runtime, keypairs, loaded, reloads, history, faults>>

WorkerCrash ==
  /\ worker # "down"
  /\ Fault
  /\ WorkerEnds
  /\ UNCHANGED <<telegram, bot, command, memory, disk, reloads, history>>

-----------------------------------------------------------------------------
BotStep == \/ Boot \/ Poll \/ Handle \/ OpenStopFile \/ WriteStopFile \/ Refresh
           \/ WriteKeys \/ WriteSnapshot \/ Reload
WorkerStep == Start \/ LoadKeypairs \/ ReadSnapshot \/ ReplaceKeypairs \/ StoreRuntime

Next ==
  \/ Press
  \/ BotStep
  \/ Crash
  \/ WorkerStep
  \/ \E w \in Wallet : Detect(w) \/ Execute(w)
  \/ WorkerCrash

Spec == Init /\ [][Next]_vars

\* The bot's calls return and it is started again when it died; the worker is a
\* service that is restarted, and its reloader runs on a timer, whose loads do not
\* fail forever.
FairSpec == Spec /\ WF_vars(BotStep) /\ WF_vars(WorkerStep)

-----------------------------------------------------------------------------
(* Properties *)

\* While an acknowledged emergency stop stands, nothing is bought: with the reload
\* command the worker trades no wallet and has no buy left in its queue, through
\* any crash; without it every snapshot it can still load is an empty one.
StopIsEffective ==
  halted =>
    /\ file.profiles = {}
    /\ bot # "down" => stopped
    /\ reloads => runtime.profiles = {} /\ loaded.profiles = {} /\ queue = {}

\* A wallet the worker copies for has its key loaded. Only the reloader, between
\* its two stores, may have dropped the key of a wallet it is about to drop.
ProfilesHaveKeys ==
  /\ worker \in {"running", "refreshing"} => runtime.profiles \subseteq keypairs
  /\ worker = "swapping" => loaded.profiles \subseteq keypairs

\* The last emergency command among the first n updates is a stop.
StopIsLast(n) ==
  \E i \in 1 .. n :
    /\ inbox[i].reason = "copytrade.emergency_stop"
    /\ \A j \in i .. n : inbox[j].reason # "copytrade.emergency_resume"

\* Once every update is handled, the flag in memory and the file a restart reads
\* both say what was pressed last, however often updates were delivered again;
\* unless saving it failed.
LastCommandWins ==
  bot = "idle" /\ offset = Len(inbox) /\ ~lost =>
    /\ stopped = StopIsLast(Len(inbox))
    /\ stopFile = IF stopped THEN "active" ELSE "inactive"

\* Whenever the bot is at rest and its last command did not fail, the worker comes
\* to trade by the settings as they are, although no signal reaches it other than
\* the file.
ExecutorFollows ==
  []<>(bot = "idle" /\ ~stale =>
         /\ worker = "running"
         /\ runtime.profiles = IF stopped THEN {} ELSE config)
=============================================================================
