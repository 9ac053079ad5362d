-------------------------- MODULE TelegramDialogue --------------------------
(***************************************************************************)
(* The Telegram commands of one verified chat. Updates are handled one     *)
(* after another; an update that was handled before a restart may be       *)
(* delivered again, which is a second press of the same button. Buttons    *)
(* under a message name a wallet by its place in a list, and the place is  *)
(* looked up when the button is pressed. A text is the answer to a pending *)
(* question, which only the memory of the process knows.                   *)
(***************************************************************************)
EXTENDS Integers, Sequences, FiniteSets, SequencesExt

CONSTANTS
  Wallet,      \* addresses to copy, as numbers: the list is sorted by address
  MaxKeys,     \* bound on trading wallets created
  Amount,      \* numbers a chat may send
  Cap,         \* the live-trading caps
  Inherited,   \* a setting that was never saved
  Null,
  MaxUpdates,  \* bound on updates handled
  MaxFailures, \* bound on store calls that throw
  MaxRestarts  \* bound

DialogueAssumption ==
  /\ Wallet \subseteq Nat /\ Amount \subseteq Nat /\ Cap \in Nat
  /\ {MaxKeys, MaxUpdates, MaxFailures, MaxRestarts} \subseteq Nat

Execution == {"buy_slippage", "buy_pressure_timeout"}
CopySetting == Execution \cup {"copy_amount"}
WalletAction == {"watch_wallet", "unwatch_wallet", "rename_wallet", "copytrade_wallet",
                 "rename_copytrade_wallet", "cashback_payout_wallet"}
Question == [action : CopySetting \cup {"rename_trading_wallet"}, wallet : {Null}]
              \cup [action : {"trailing_steps"}, wallet : Wallet]
Text == ({"wallet"} \X Wallet) \cup ({"number"} \X Amount) \cup {<<"steps", 0>>}

VARIABLES
  mode,            \* of token alerts, or "paused"
  copied, off,     \* copyTradeWallets, and those that are switched off
  steps,           \* wallets with a schedule of their own
  watched, payout,
  keys, active,    \* trading wallets by creation, and the one in use
  named,           \* keys with a nickname
  created,
  setting,         \* [CopySetting -> Amount or Inherited]
  stopped,         \* the emergency stop
  copyInput,       \* pendingCopyInputs: [question, value, late], or Null
  walletInput,     \* pendingWalletInputs: [action, late], or Null
  shown,           \* one message with a button that can be pressed: what it says
  asked,           \* the last "Confirm" prompt: [setting, value]
  pressed,         \* the last button that did something: [message, wallet it acted on], or Null
  updates, failures, restarts

lists == <<copied, off, steps, watched, payout, keys, active, named, created>>
questions == <<copyInput, walletInput, asked>>
counters == <<failures, restarts>>
vars == <<mode, lists, setting, stopped, questions, shown, pressed, updates, counters>>

Init ==
  /\ mode = "none"
  /\ copied = {} /\ off = {} /\ steps = {} /\ watched = {} /\ payout = Null
  /\ keys = {} /\ active = Null /\ named = {} /\ created = 0
  /\ setting = [s \in CopySetting |-> Inherited]
  /\ stopped = FALSE
  /\ copyInput = Null /\ walletInput = Null /\ asked = Null
  /\ shown = Null /\ pressed = Null
  /\ updates = 0 /\ failures = 0 /\ restarts = 0

-----------------------------------------------------------------------------
Sorted(set) == SetToSortSeq(set, <)
ListOf(kind) == IF kind \in {"select", "remove_key"} THEN Sorted(keys) ELSE Sorted(copied)

Update == updates < MaxUpdates /\ updates' = updates + 1

\* The store call is carried out, or throws and the update is dropped.
Store == \/ UNCHANGED counters
         \/ failures < MaxFailures /\ failures' = failures + 1 /\ UNCHANGED restarts
Stored == failures' = failures

-----------------------------------------------------------------------------
(* Questions and their answers                                             *)

\* Mutant: a question keeps the value that waits for a confirmation.
SetPendingCopyInput_KeepsValue(q) ==
  copyInput' = [question |-> q, late |-> FALSE,
                value |-> IF copyInput = Null THEN Null ELSE copyInput.value]

SetPendingCopyInput(q) == copyInput' = [question |-> q, value |-> Null, late |-> FALSE]

\* The buttons that ask for an amount, a setting, a nickname or a schedule.
AskCopyInput(q) ==
  /\ Update
  /\ IF q.action = "trailing_steps"
     THEN shown # Null /\ shown.kind = "trail" /\ shown.index <= Cardinality(copied)
          /\ q.wallet = Sorted(copied)[shown.index]
     ELSE TRUE
  /\ SetPendingCopyInput(q)
  /\ UNCHANGED <<mode, lists, setting, stopped, walletInput, asked, shown, pressed, counters>>

AskWalletInput(a) ==
  /\ Update
  /\ walletInput' = [action |-> a, late |-> FALSE]
  /\ UNCHANGED <<mode, lists, setting, stopped, copyInput, asked, shown, pressed, counters>>

\* Ten minutes pass.
Expire ==
  /\ \/ walletInput # Null /\ ~walletInput.late
     \/ copyInput # Null /\ ~copyInput.late
  /\ walletInput' = IF walletInput = Null THEN Null ELSE [walletInput EXCEPT !.late = TRUE]
  /\ copyInput' = IF copyInput = Null THEN Null ELSE [copyInput EXCEPT !.late = TRUE]
  /\ UNCHANGED <<mode, lists, setting, stopped, asked, shown, pressed, updates, counters>>

\* The question is dropped before the store is called. Nicknames of copied and
\* watched wallets are not kept here.
SaveWallet(action, w) ==
  /\ Store
  /\ copied' = IF Stored /\ action = "copytrade_wallet" THEN copied \cup {w} ELSE copied
  /\ watched' = CASE Stored /\ action = "watch_wallet" -> watched \cup {w}
                  [] Stored /\ action = "unwatch_wallet" -> watched \ {w}
                  [] OTHER -> watched
  /\ payout' = IF Stored /\ action = "cashback_payout_wallet" THEN w ELSE payout
  /\ UNCHANGED <<off, steps, keys, active, named, created>>

\* handlePendingWalletInput: a wallet question is answered first.
AnswerWallet(text) ==
  /\ Update
  /\ walletInput # Null
  /\ IF walletInput.late \/ text[1] # "wallet"
     THEN /\ walletInput' = IF walletInput.late THEN Null ELSE walletInput
          /\ UNCHANGED <<lists, counters>>
     ELSE walletInput' = Null /\ SaveWallet(walletInput.action, text[2])
  /\ UNCHANGED <<mode, setting, stopped, copyInput, asked, shown, pressed>>

\* /watch, /unwatch and /renamewallet with an address, whatever is pending
WatchCommand(a, w) ==
  /\ Update
  /\ a \in {"watch_wallet", "unwatch_wallet", "rename_wallet"}
  /\ SaveWallet(a, w)
  /\ UNCHANGED <<mode, setting, stopped, questions, shown, pressed>>

\* Mutant: the cap is checked for the copy amount only.
Accepted_NoCap(q, text) == text[1] = "number" /\ text[2] > 0

\* parseSlippageInput, parsePriorityFeeInput, parseDurationMs and the caps
Accepted(q, text) ==
  /\ text[1] = "number" /\ text[2] > 0
  /\ q.action # "buy_pressure_timeout" => text[2] <= Cap

\* handlePendingCopyInput: numbers wait for a confirmation, nicknames and
\* schedules are saved at once. The nickname goes to the wallet in use now.
AnswerCopy(text) ==
  /\ Update
  /\ walletInput = Null /\ copyInput # Null
  /\ LET q == copyInput.question IN
     CASE copyInput.late ->
            copyInput' = Null /\ UNCHANGED <<lists, counters, asked>>
       [] ~copyInput.late /\ q.action = "rename_trading_wallet" ->
            /\ copyInput' = Null
            /\ Store
            /\ named' = IF Stored /\ active # Null THEN named \cup {active} ELSE named
            /\ UNCHANGED <<copied, off, steps, watched, payout, keys, active, created, asked>>
       [] ~copyInput.late /\ q.action = "trailing_steps" ->
            /\ IF q.wallet \notin copied \/ text[1] = "steps"
               THEN copyInput' = Null ELSE UNCHANGED copyInput
            /\ IF q.wallet \in copied /\ text[1] = "steps"
               THEN Store /\ steps' = IF Stored THEN steps \cup {q.wallet} ELSE steps
               ELSE UNCHANGED <<steps, counters>>
            /\ UNCHANGED <<copied, off, watched, payout, keys, active, named, created, asked>>
       [] OTHER ->
            /\ IF Accepted(q, text)
               THEN /\ copyInput' = [copyInput EXCEPT !.value = text[2]]
                    /\ asked' = [setting |-> q.action, value |-> text[2]]
               ELSE UNCHANGED <<copyInput, asked>>
            /\ UNCHANGED <<lists, counters>>
  /\ UNCHANGED <<mode, setting, stopped, walletInput, shown, pressed>>

\* confirmPendingCopyInput
ConfirmPending ==
  /\ Update
  /\ copyInput # Null
  /\ CASE copyInput.late -> copyInput' = Null /\ UNCHANGED <<setting, counters>>
       [] ~copyInput.late /\ copyInput.value = Null -> UNCHANGED <<copyInput, setting, counters>>
       [] OTHER ->
            /\ copyInput' = Null
            /\ Store
            /\ setting' = IF Stored
                          THEN [setting EXCEPT ![copyInput.question.action] = copyInput.value]
                          ELSE setting
  /\ UNCHANGED <<mode, lists, stopped, walletInput, asked, shown, pressed>>

CancelPending ==
  /\ Update
  /\ copyInput' = Null
  /\ UNCHANGED <<mode, lists, setting, stopped, walletInput, asked, shown, pressed, counters>>

ResetSettings ==
  /\ Update
  /\ Store
  /\ setting' = IF Stored THEN [s \in CopySetting |-> IF s \in Execution THEN Inherited ELSE setting[s]]
                ELSE setting
  /\ UNCHANGED <<mode, lists, stopped, questions, shown, pressed>>

\* /start, /stop, and the alert switches, which end a pause as well
SetMode(m) ==
  /\ Update
  /\ Store
  /\ mode' = IF Stored THEN m ELSE mode
  /\ UNCHANGED <<lists, setting, stopped, questions, shown, pressed>>

StartNotifications == mode = "paused" /\ SetMode("none")
StopNotifications == SetMode("paused")
ChangeMode == \E m \in {"none", "alerts"} : SetMode(m)

EmergencyButton(stop) ==
  /\ Update
  /\ stopped' = stop
  /\ UNCHANGED <<mode, lists, setting, questions, shown, pressed, counters>>

-----------------------------------------------------------------------------
(* Messages with buttons                                                   *)

\* The message about the wallet at a place of a list.
Show(kind, i) ==
  /\ Update
  /\ i \in 1 .. Len(ListOf(kind))
  /\ shown' = [kind |-> kind, index |-> i, wallet |-> ListOf(kind)[i]]
  /\ UNCHANGED <<mode, lists, setting, stopped, questions, pressed, counters>>

ShowKeyPicker(i) == Show("select", i)
ShowKeyRemoval(i) == Show("remove_key", i)
ShowCopyRemoval(i) == Show("remove_copy", i)
ShowToggle(i) == Show("toggle", i)
ShowTrail(i) == Show("trail", i)

\* The wallet at the button's place now.
Chosen == ListOf(shown.kind)[shown.index]

\* The button of the message, pressed once or again, while its place exists.
Pressed(kind) ==
  /\ Update
  /\ shown # Null /\ shown.kind = kind
  /\ shown.index \in 1 .. Len(ListOf(kind))
  /\ Store
  /\ pressed' = IF Stored THEN [message |-> shown, wallet |-> Chosen] ELSE pressed
  /\ UNCHANGED <<mode, setting, stopped, questions, shown, watched, payout, created>>

SelectTradingWallet ==
  /\ Pressed("select")
  /\ active' = IF Stored THEN Chosen ELSE active
  /\ UNCHANGED <<copied, off, steps, keys, named>>

\* The next active wallet is the oldest of the rest.
RemoveTradingWallet ==
  /\ Pressed("remove_key")
  /\ LET rest == keys \ {Chosen} IN
     IF Stored
     THEN /\ keys' = rest /\ named' = named \ {Chosen}
          /\ active' = CASE active \in rest -> active
                         [] active \notin rest /\ rest # {} -> Sorted(rest)[1]
                         [] OTHER -> Null
     ELSE UNCHANGED <<keys, named, active>>
  /\ UNCHANGED <<copied, off, steps>>

RemoveCopyWallet ==
  /\ Pressed("remove_copy")
  /\ IF Stored
     THEN copied' = copied \ {Chosen} /\ off' = off \ {Chosen} /\ steps' = steps \ {Chosen}
     ELSE UNCHANGED <<copied, off, steps>>
  /\ UNCHANGED <<keys, active, named>>

\* The switch is turned from whatever it is now.
ToggleCopyTrading ==
  /\ Pressed("toggle")
  /\ off' = CASE Stored /\ Chosen \in off -> off \ {Chosen}
              [] Stored /\ Chosen \notin off -> off \cup {Chosen}
              [] OTHER -> off
  /\ UNCHANGED <<copied, steps, keys, active, named>>

\* Switching or rebasing a schedule saves one of its own, a reset drops it.
TrailButton ==
  /\ Pressed("trail")
  /\ steps' \in IF Stored THEN {steps \cup {Chosen}, steps \ {Chosen}} ELSE {steps}
  /\ UNCHANGED <<copied, off, keys, active, named>>

RemoveAllCopies ==
  /\ Update
  /\ Store
  /\ IF Stored THEN copied' = {} /\ off' = {} /\ steps' = {} ELSE UNCHANGED <<copied, off, steps>>
  /\ UNCHANGED <<watched, payout, keys, active, named, created>>
  /\ UNCHANGED <<mode, setting, stopped, questions, shown, pressed>>

RemoveAllKeys ==
  /\ Update
  /\ Store
  /\ IF Stored THEN keys' = {} /\ active' = Null /\ named' = {} ELSE UNCHANGED <<keys, active, named>>
  /\ UNCHANGED <<copied, off, steps, watched, payout, created>>
  /\ UNCHANGED <<mode, setting, stopped, questions, shown, pressed>>

\* createLocalTradingWallet: without "new", only when there is none.
CreateKey(new) ==
  /\ Update
  /\ active = Null \/ new
  /\ created < MaxKeys
  /\ Store
  /\ IF Stored
     THEN created' = created + 1 /\ keys' = keys \cup {created'} /\ active' = created'
     ELSE UNCHANGED <<created, keys, active>>
  /\ UNCHANGED <<copied, off, steps, watched, payout, named>>
  /\ UNCHANGED <<mode, setting, stopped, questions, shown, pressed>>

\* The pending questions are lost, the messages in the chat are not.
Restart ==
  /\ restarts < MaxRestarts
  /\ restarts' = restarts + 1
  /\ copyInput' = Null /\ walletInput' = Null
  /\ UNCHANGED <<mode, lists, setting, stopped, asked, shown, pressed, updates, failures>>

-----------------------------------------------------------------------------
Next ==
  \/ \E q \in Question : AskCopyInput(q)
  \/ \E a \in WalletAction : AskWalletInput(a)
  \/ \E text \in Text : AnswerWallet(text) \/ AnswerCopy(text)
  \/ \E a \in WalletAction, w \in Wallet : WatchCommand(a, w)
  \/ ConfirmPending \/ CancelPending \/ ResetSettings
  \/ StartNotifications \/ StopNotifications \/ ChangeMode
  \/ \E stop \in BOOLEAN : EmergencyButton(stop)
  \/ \E i \in 1 .. MaxKeys : ShowKeyPicker(i) \/ ShowKeyRemoval(i)
  \/ \E i \in 1 .. Cardinality(Wallet) : ShowCopyRemoval(i) \/ ShowToggle(i) \/ ShowTrail(i)
  \/ SelectTradingWallet \/ RemoveTradingWallet \/ RemoveCopyWallet
  \/ ToggleCopyTrading \/ TrailButton
  \/ RemoveAllCopies \/ RemoveAllKeys
  \/ \E new \in BOOLEAN : CreateKey(new)
  \/ Expire \/ Restart

Spec == Init /\ [][Next]_vars

-----------------------------------------------------------------------------
(* Properties *)

TypeOK ==
  /\ copied \subseteq Wallet /\ off \subseteq copied /\ steps \subseteq Wallet
  /\ watched \subseteq Wallet /\ payout \in Wallet \cup {Null}
  /\ keys \subseteq 1 .. MaxKeys /\ active \in keys \cup {Null} /\ named \subseteq keys
  /\ setting \in [CopySetting -> Amount \cup {Inherited}]
  /\ mode \in {"none", "alerts", "paused"}
  /\ created \in 0 .. MaxKeys /\ stopped \in BOOLEAN
  /\ copyInput # Null => copyInput.question \in Question
  /\ walletInput # Null => walletInput.action \in WalletAction
  /\ updates \in 0 .. MaxUpdates /\ failures \in 0 .. MaxFailures /\ restarts \in 0 .. MaxRestarts

\* A live-trading setting is saved only as the last confirmation prompt named
\* it, setting and value, within the caps; whatever questions were asked,
\* replaced, expired or forgotten in between.
SavedAsAsked ==
  [][\A s \in CopySetting : setting'[s] \notin {setting[s], Inherited} =>
       /\ asked = [setting |-> s, value |-> setting'[s]]
       /\ s # "buy_pressure_timeout" => setting'[s] <= Cap]_vars

\* What the program says of its buttons, "Remove <wallet>?" above "Confirm
\* Remove", and "That trading wallet is no longer available" when the wallet has
\* gone: a removal takes the wallet its message named, or none.
RemovesWhatItNamed ==
  pressed # Null /\ pressed.message.kind \in {"remove_key", "remove_copy"} =>
    pressed.wallet = pressed.message.wallet

-----------------------------------------------------------------------------
(* The inductive invariant *)

\* A value that waits for its confirmation is the one the last prompt named.
AskedInv ==
  copyInput # Null =>
    /\ copyInput \in [question : Question, value : Amount \cup {Null}, late : BOOLEAN]
    /\ copyInput.value # Null =>
         /\ copyInput.question.action \in CopySetting
         /\ asked = [setting |-> copyInput.question.action, value |-> copyInput.value]
         /\ copyInput.question.action # "buy_pressure_timeout" => copyInput.value <= Cap

DialogueInv ==
  /\ setting \in [CopySetting -> Amount \cup {Inherited}]
  /\ AskedInv
=============================================================================
