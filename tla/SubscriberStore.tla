--------------------------- MODULE SubscriberStore ---------------------------
(***************************************************************************)
(* The subscriber store of the bot: one chat's record in memory, kept in a *)
(* JSON file that is rewritten in place or in four tables of Supabase that *)
(* are written call by call. Commands come one after another (pollOnce); a *)
(* call may fail, a process may end between two calls, and the next one    *)
(* loads what was kept. A record maps items to values, and every write     *)
(* copies a set of items of the new record.                                *)
(***************************************************************************)
EXTENDS Naturals, Sequences

CONSTANTS
  Wallet,        \* wallets to watch and to copy
  Key,           \* trading wallets
  Setting,       \* values of the scalar settings
  Default,       \* what makeSubscriber and resetCopyTradeExecutionSettings set
  Null,
  TradingState,  \* a copy_target_wallet_address of "trading_wallets_v1:..."
  StateKey,      \* the trading wallets it holds
  MaxCalls,      \* bound on commands
  MaxFailures,   \* bound on failed calls
  MaxRestarts    \* bound

StoreAssumption ==
  /\ Default \in Setting
  /\ Null \notin Wallet /\ TradingState \notin Wallet \cup {Null}
  /\ StateKey \subseteq Key
  /\ {MaxCalls, MaxFailures, MaxRestarts} \subseteq Nat

Copy(w) == <<"copy", w>>
Watch(w) == <<"watch", w>>
Trading(k) == <<"key", k>>
Target == <<"row", "target">>
Active == <<"row", "active">>
Settings == <<"row", "settings">>
Copies == {Copy(w) : w \in Wallet}
Keys == {Trading(k) : k \in Key}
Mode == <<"row", "mode">>
Row == {Target, Active, Settings, Mode}
Item == Row \cup Copies \cup Keys \cup {Watch(w) : w \in Wallet}
Kept == Copies \cup Keys \cup {Settings, Mode}

VARIABLES
  backend,     \* TELEGRAM_SUBSCRIBERS_STORE: "json" or "supabase"
  mem,         \* the record in memory
  db,          \* the file or the rows
  torn,        \* the file does not parse
  todo,        \* writes of the command under way
  next,        \* its record, and Empty between commands
  subject,     \* the items it is about
  want,        \* what the last command about an item left acknowledged, or Null
  commands, failures, restarts

vars == <<backend, mem, db, torn, todo, next, subject, want, commands, failures, restarts>>

Empty ==
  [i \in Item |-> CASE i = Settings -> Default [] i = Mode -> "none"
                    [] i \in {Target, Active} -> Null
                    [] i \in Copies -> "none" [] OTHER -> FALSE]

KeysOf(r) == {k \in Key : r[Trading(k)]}
Copied(r) == {w \in Wallet : r[Copy(w)] # "none"}
First(keys) == IF keys = {} THEN Null ELSE CHOOSE k \in keys : TRUE
HeldOrFirst(k, keys) == IF k \in keys THEN k ELSE First(keys)

\* A copy target beside an empty list of copy wallets comes from an older
\* version and becomes one; it leaves the watched wallets. The same field once
\* held the trading wallets too. The file's target is otherwise not read.
Loaded(r) ==
  LET adopted == IF Copied(r) = {} /\ r[Target] \in Wallet THEN {r[Target]} ELSE {}
      keys == KeysOf(r) \cup (IF r[Target] = TradingState THEN StateKey ELSE {})
  IN [i \in Item |->
       CASE i = Target ->
              IF r[Target] # TradingState /\ (backend = "supabase" \/ adopted # {})
              THEN r[Target] ELSE Null
         [] i = Active -> HeldOrFirst(r[Active], keys)
         [] i \in {Copy(w) : w \in adopted} -> "on"
         [] i \in {Watch(w) : w \in adopted} -> FALSE
         [] i \in Keys -> i[2] \in keys
         [] OTHER -> r[i]]

\* What a process that starts now has in memory; an unreadable file only warns.
Reloaded == IF torn THEN Empty ELSE Loaded(db)

\* An empty store, a row with an old target, or one with old trading wallets.
Init ==
  /\ backend \in {"json", "supabase"}
  /\ db \in {[Empty EXCEPT ![Target] = t] :
               t \in {Null} \cup Wallet \cup (IF backend = "supabase" THEN {TradingState} ELSE {})}
  /\ mem = Loaded(db)
  /\ torn = FALSE
  /\ todo = <<>> /\ next = Empty /\ subject = {}
  /\ want = [i \in Item |-> Null]
  /\ commands = 0 /\ failures = 0 /\ restarts = 0

-----------------------------------------------------------------------------
(* The commands. Supabase is written before the memory changes; the file   *)
(* store changes the memory and then writes all of it.                     *)

With(i, v) == [mem EXCEPT ![i] = v]

Mutate(record, about, writes) ==
  /\ todo = <<>>
  /\ commands < MaxCalls
  /\ commands' = commands + 1
  /\ next' = record /\ subject' = about
  /\ IF backend = "json" THEN mem' = record /\ todo' = <<Item>>
                         ELSE UNCHANGED mem /\ todo' = writes
  /\ UNCHANGED <<backend, db, torn, want, failures, restarts>>

\* setMode ends a pause, setNotificationsPaused ends the mode.
SetMode(v) == Mutate(With(Mode, v), {Mode}, <<Row>>)
SetNotificationsPaused(paused) ==
  Mutate(With(Mode, CASE paused -> "paused" [] mem[Mode] = "paused" -> "none"
                       [] OTHER -> mem[Mode]), {Mode}, <<Row>>)

\* A verified chat again: only the database store ends a pause.
Add ==
  Mutate(IF backend = "supabase" /\ mem[Mode] = "paused" THEN With(Mode, "none") ELSE mem,
          {Mode}, <<Row>>)

\* The copy amount, slippage, fees, exits and the cashback wallet
WithSetting(v) == With(Settings, v)
SetSetting(v) == Mutate(WithSetting(v), {Settings}, <<Row>>)
WithDefaults == With(Settings, Default)
ResetCopyTradeExecutionSettings == Mutate(WithDefaults, {Settings}, <<Row>>)

\* watchWallet, and renameWallet of a watched one
WithWatched(w) == With(Watch(w), TRUE)
WatchWallet(w) == Mutate(WithWatched(w), {Watch(w)}, <<Row, {Watch(w)}>>)

TargetWithout(w) == IF mem[Target] = w THEN Null ELSE mem[Target]
WithoutWatched(w) == [mem EXCEPT ![Watch(w)] = FALSE, ![Target] = TargetWithout(w)]
UnwatchWallet(w) == Mutate(WithoutWatched(w), {Watch(w)}, <<Row, {Watch(w)}>>)

\* A wallet that is copied already keeps its switch.
WithCopied(w) == [mem EXCEPT ![Copy(w)] = IF @ = "off" THEN "off" ELSE "on", ![Target] = w]
WatchCopyTradeWallet(w) == Mutate(WithCopied(w), {Copy(w)}, <<Row, {Copy(w)}>>)

WithSwitched(w, v) == With(Copy(w), v)
SetCopyTradeWalletEnabled(w, v) ==
  /\ w \in Copied(mem)
  /\ Mutate(WithSwitched(w, v), {Copy(w)}, <<Row, {Copy(w)}>>)

\* A schedule or a nickname is saved with the switch as it is.
SetCopyTradeWalletTrailingSellConfig(w) ==
  /\ w \in Copied(mem)
  /\ Mutate(mem, {Copy(w)}, <<Row, {Copy(w)}>>)

\* Mutant: the removed wallet stays the copy target.
WithoutCopied_KeepsTarget(w) == With(Copy(w), "none")

WithoutCopied(w) == [mem EXCEPT ![Copy(w)] = "none", ![Target] = TargetWithout(w)]
UnwatchCopyTradeWallet(w) == Mutate(WithoutCopied(w), {Copy(w)}, <<Row, {Copy(w)}>>)

WithoutCopies ==
  [i \in Item |-> IF i \in Copies THEN "none" ELSE IF i = Target THEN Null ELSE mem[i]]
UnwatchAllCopyTradeWallets ==
  /\ Copied(mem) # {}
  /\ Mutate(WithoutCopies, Copies, <<Row, Copies>>)

\* setCopyTargetWallet: a wallet copied already is not written again.
WithTarget(w) ==
  IF w = Null \/ w \in Copied(mem)
  THEN With(Target, w)
  ELSE [mem EXCEPT ![Copy(w)] = "on", ![Target] = w]
SetCopyTargetWallet(w) ==
  IF w = Null \/ w \in Copied(mem)
  THEN Mutate(WithTarget(w), {}, <<Row>>)
  ELSE Mutate(WithTarget(w), {Copy(w)}, <<Row, {Copy(w)}>>)

WithTrading(k) == [mem EXCEPT ![Trading(k)] = TRUE, ![Active] = k]
SetTradingWallet(k) == Mutate(WithTrading(k), {Trading(k)}, <<Row, {Trading(k)}>>)

\* setActiveTradingWallet and, of the active wallet, renameTradingWallet
WithActive(k) == With(Active, k)
SetActiveTradingWallet(k) ==
  /\ k \in KeysOf(mem)
  /\ Mutate(WithActive(k), {Trading(k)}, <<Row, {Trading(k)}>>)

\* The key's row goes first.
WithoutTrading(k) ==
  [mem EXCEPT ![Trading(k)] = FALSE, ![Active] = HeldOrFirst(@, KeysOf(mem) \ {k})]
RemoveTradingWallet(k) ==
  /\ k \in KeysOf(mem)
  /\ Mutate(WithoutTrading(k), {Trading(k)}, <<{Trading(k)}, Row>>)

WithoutKeys == [i \in Item |-> IF i \in Keys THEN FALSE ELSE IF i = Active THEN Null ELSE mem[i]]
RemoveAllTradingWallets ==
  /\ KeysOf(mem) # {}
  /\ Mutate(WithoutKeys, Keys, <<Keys, Row>>)

-----------------------------------------------------------------------------
(* The writes                                                              *)

Written(items) == [i \in Item |-> IF i \in items THEN next[i] ELSE db[i]]

\* A call is answered; after the last one the command is done.
Answer ==
  /\ todo # <<>>
  /\ db' = Written(Head(todo))
  /\ torn' = FALSE
  /\ todo' = Tail(todo)
  /\ IF Tail(todo) = <<>>
     THEN /\ mem' = next
          /\ want' = [i \in Item |-> IF i \in subject THEN next[i] ELSE want[i]]
          /\ next' = Empty /\ subject' = {}
     ELSE UNCHANGED <<mem, want, next, subject>>
  /\ UNCHANGED <<backend, commands, failures, restarts>>

\* The call under way was carried out, or not, or left half a file.
Halted ==
  /\ \/ UNCHANGED <<db, torn>>
     \/ db' = Written(Head(todo)) /\ torn' = FALSE
     \/ backend = "json" /\ torn' = TRUE /\ UNCHANGED db
  /\ todo' = <<>> /\ next' = Empty /\ subject' = {}
  /\ want' = [i \in Item |-> IF torn' \/ i \in subject THEN Null ELSE want[i]]

\* The call throws, and with it the command; the memory stays as it is.
Fail ==
  /\ todo # <<>>
  /\ failures < MaxFailures
  /\ failures' = failures + 1
  /\ Halted
  /\ UNCHANGED <<backend, mem, commands, restarts>>

\* The process ends, between two calls or in one, and the next one loads.
Restart ==
  /\ restarts < MaxRestarts
  /\ restarts' = restarts + 1
  /\ IF todo = <<>> THEN UNCHANGED <<db, torn, todo, next, subject, want>> ELSE Halted
  /\ mem' = IF torn' THEN Empty ELSE Loaded(db')
  /\ UNCHANGED <<backend, commands, failures>>

-----------------------------------------------------------------------------
Next ==
  \/ \E v \in {"none", "alerts"} : SetMode(v)
  \/ \E paused \in BOOLEAN : SetNotificationsPaused(paused)
  \/ Add
  \/ \E v \in Setting : SetSetting(v)
  \/ ResetCopyTradeExecutionSettings
  \/ \E w \in Wallet :
       \/ WatchWallet(w) \/ UnwatchWallet(w)
       \/ WatchCopyTradeWallet(w) \/ UnwatchCopyTradeWallet(w)
       \/ \E v \in {"on", "off"} : SetCopyTradeWalletEnabled(w, v)
       \/ SetCopyTradeWalletTrailingSellConfig(w)
  \/ \E w \in Wallet \cup {Null} : SetCopyTargetWallet(w)
  \/ UnwatchAllCopyTradeWallets
  \/ \E k \in Key : SetTradingWallet(k) \/ SetActiveTradingWallet(k) \/ RemoveTradingWallet(k)
  \/ RemoveAllTradingWallets
  \/ Answer \/ Fail \/ Restart

Spec == Init /\ [][Next]_vars

-----------------------------------------------------------------------------
(* Properties *)

TypeOK ==
  /\ backend \in {"json", "supabase"}
  /\ torn \in BOOLEAN
  /\ DOMAIN mem = Item /\ DOMAIN db = Item /\ DOMAIN next = Item /\ DOMAIN want = Item
  /\ mem[Active] \in Key \cup {Null} /\ mem[Target] \in Wallet \cup {Null}
  /\ todo \in Seq(SUBSET Item) /\ subject \subseteq Item
  /\ commands \in 0 .. MaxCalls /\ failures \in 0 .. MaxFailures /\ restarts \in 0 .. MaxRestarts

\* What a command left acknowledged stands, in memory and across a restart,
\* until a command about the same wallet, key or setting is given: whatever
\* becomes of the commands about others, a removed copy wallet or trading
\* wallet does not come back and a stored one does not get lost. (A watched
\* wallet may move to the copy wallets at a load.)
AcknowledgedStands ==
  \A i \in Kept : want[i] # Null /\ (todo = <<>> \/ i \notin subject) =>
     mem[i] = want[i] /\ Reloaded[i] = want[i]

-----------------------------------------------------------------------------
(* The inductive invariant *)

Typed ==
  /\ DOMAIN mem = Item /\ DOMAIN db = Item /\ DOMAIN next = Item /\ DOMAIN want = Item
  /\ todo \in Seq(SUBSET Item) /\ subject \subseteq Item /\ torn \in BOOLEAN
  /\ \A k \in Key : {mem[Trading(k)], db[Trading(k)], next[Trading(k)]} \subseteq BOOLEAN
  /\ {mem[Target], next[Target]} \subseteq Wallet \cup {Null}
  /\ db[Target] \in Wallet \cup {Null, TradingState}

\* A command changes nothing it is not about, writes what it is about and the
\* target, and leaves no removed wallet as the target.
UnderWay ==
  todo # <<>> =>
    /\ \A i \in Kept \ subject : next[i] = mem[i]
    /\ \A i \in subject \cup {Target} : db[i] = next[i] \/ \E n \in 1 .. Len(todo) : i \in todo[n]
    /\ \A w \in Wallet : Copy(w) \in subject /\ next[Copy(w)] = "none" => next[Target] # w

\* What stands is in memory and written, and the target cannot bring a removed
\* wallet back.
Stands(i) == want[i] # Null /\ (todo = <<>> \/ i \notin subject)

Standing ==
  /\ \A i \in Kept : Stands(i) => mem[i] = want[i] /\ db[i] = want[i]
  /\ \A w \in Wallet : Stands(Copy(w)) /\ want[Copy(w)] = "none" =>
       mem[Target] # w /\ db[Target] # w /\ (todo # <<>> => next[Target] # w)
  /\ (\E i \in Item : want[i] # Null) => ~torn /\ db[Target] # TradingState

StoreInv == Typed /\ UnderWay /\ Standing
=============================================================================
