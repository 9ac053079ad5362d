--------------------------- MODULE MCBookkeeping ---------------------------
(***************************************************************************)
(* What is kept of orders, chats and lamports. The parts share no state    *)
(* and are model-checked one at a time: part is chosen once, and only its  *)
(* component moves.  BuyRecord is the module extended here.                *)
(***************************************************************************)
EXTENDS BuyRecord

CONSTANTS
  Parts,                                                          \* the parts that run
  k1, t1, t2,                                                     \* coin, transactions of the buys
  Wallet, Key, StateKey, Setting, Default, Nothing, TradingState, MaxCalls,
  MaxFailedCalls,                                                 \* SubscriberStore
  Address, MaxKeys, Amount, Cap, Inherited, MaxUpdates,           \* TelegramDialogue
  x1, Executor, Refresher, Spend, Funds, Reconcile, Stale, MaxTime        \* BalanceLedger

VARIABLES
  part,
  backend, mem, db, torn, todo, next, subject, want, commands, failedCalls, reloads,
  mode, copied, off, steps, watched, payout, keys, inUse, named, created, setting, emergency,
  copyInput, walletInput, shown, asked, pressed, updates, storeFailures, chatRestarts,
  now, funds, cache, answer, ledger, ledgerStage, since, tx, lapsed

Order(coin, trigger, repeat) == [coin |-> coin, tx |-> trigger, repeat |-> repeat]

TwoOrders == {Order(k1, t2, FALSE), Order(k1, t1, TRUE)}

SpendOfEach == [e \in Executor |-> IF e = x1 THEN 2 ELSE 1]

\* Refreshers are alike, and so are the executors that spend the same.
Model == INSTANCE TLC
Symmetry == Model!Permutations(Refresher) \cup Model!Permutations(Executor \ {x1})

Store == INSTANCE SubscriberStore WITH
  Null <- Nothing, MaxFailures <- MaxFailedCalls, failures <- failedCalls, restarts <- reloads

Dialogue == INSTANCE TelegramDialogue WITH
  Wallet <- Address, Null <- Nothing, MaxFailures <- MaxFailedCalls, active <- inUse,
  stopped <- emergency, failures <- storeFailures, restarts <- chatRestarts

Ledger == INSTANCE BalanceLedger WITH stage <- ledgerStage

ASSUME RecordConstants == RecordAssumption
ASSUME StoreConstants == Store!StoreAssumption
ASSUME DialogueConstants == Dialogue!DialogueAssumption
ASSUME LedgerConstants == Ledger!LedgerAssumption

storeVars ==
  <<backend, mem, db, torn, todo, next, subject, want, commands, failedCalls, reloads>>
dialogueVars ==
  <<mode, copied, off, steps, watched, payout, keys, inUse, named, created, setting, emergency,
    copyInput, walletInput, shown, asked, pressed, updates, storeFailures, chatRestarts>>
ledgerVars == <<now, funds, cache, answer, ledger, ledgerStage, since, tx, lapsed>>
allVars == <<part, vars, storeVars, dialogueVars, ledgerVars>>

InitOfAll ==
  /\ part \in Parts
  /\ Init /\ (part # "record" => awaits)
  /\ Store!Init /\ (part # "store" => backend = "json" /\ mem[Store!Target] = Nothing)
  /\ Dialogue!Init
  /\ Ledger!Init /\ (part # "ledger" => cache.known)

RecordNext ==
  part = "record" /\ Next /\ UNCHANGED <<part, storeVars, dialogueVars, ledgerVars>>
StoreNext ==
  part = "store" /\ Store!Next /\ UNCHANGED <<part, vars, dialogueVars, ledgerVars>>
DialogueNext ==
  part = "dialogue" /\ Dialogue!Next /\ UNCHANGED <<part, vars, storeVars, ledgerVars>>
LedgerNext ==
  part = "ledger" /\ Ledger!Next /\ UNCHANGED <<part, vars, storeVars, dialogueVars>>

NextOfAll == RecordNext \/ StoreNext \/ DialogueNext \/ LedgerNext

SpecOfAll == InitOfAll /\ [][NextOfAll]_allVars

-----------------------------------------------------------------------------
(* The properties of the three other parts, and all types *)

TypeOfAll == TypeOK /\ Store!TypeOK /\ Dialogue!TypeOK /\ Ledger!TypeOK

\* SubscriberStore: what was acknowledged stands in memory and across a restart.
AcknowledgedStands == Store!AcknowledgedStands

\* TelegramDialogue: settings are saved only as the last prompt named them.
SavedAsAsked == Dialogue!SavedAsAsked

\* TelegramDialogue: a removal takes the wallet its message named, or none.
RemovesWhatItNamed == Dialogue!RemovesWhatItNamed

\* BalanceLedger: concurrent buys count on the same lamports only after a lapse.
NoOverdraft == Ledger!NoOverdraft
=============================================================================
