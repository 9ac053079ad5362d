----------------------------- MODULE BuyRecord -----------------------------
(***************************************************************************)
(* The durable record of copy buys (copytrade-idempotency.ts) and the two  *)
(* ways index.ts uses it.  A provider that is not direct claims the record *)
(* before it sends; the direct path sends first and persists the record    *)
(* afterwards without awaiting it.  The record is kept in Supabase, and,   *)
(* once the table was found missing or incompatible, in a local file.      *)
(* The buys are those of one chat and one copied wallet.                   *)
(***************************************************************************)
EXTENDS Naturals

CONSTANTS
  Buyer,        \* runs of sendCopyTradeSimulationAlert, each used once
  Request,      \* what they buy: records [coin, tx, repeat]
  NoRequest,
  NoTx,
  MaxRestarts,  \* bound on restarts of the bot
  MaxFaults     \* bound on calls that throw, applied or not, and on fallbacks

RecordAssumption ==
  /\ \A q \in Request : DOMAIN q = {"coin", "tx", "repeat"} /\ q.repeat \in BOOLEAN
  /\ NoRequest \notin Request
  /\ MaxRestarts \in Nat /\ MaxFaults \in Nat

VARIABLES
  awaits,      \* the provider waits for its claim (it is not a direct one)
  table,       \* telegram_copytrade_buy_idempotency: status and tx by key
  file,        \* the local JSON file: the same
  fallback,    \* useFallback of this process
  handled,     \* coins of copyBuySemanticSubmissionGuard
  stage,       \* where each buyer is
  req,         \* its request
  ok,          \* the result it got
  via,         \* the stores its claim and its completion went to
  bought,      \* buyers whose order was executed
  restarts, faults

vars == <<awaits, table, file, fallback, handled, stage, req, ok, via, bought,
          restarts, faults>>

\* copyTradeBuyIdempotencyKey: with Copy Repeat Buys the key names the transaction.
BuyKey(q) == [coin |-> q.coin, tx |-> IF q.repeat THEN q.tx ELSE NoTx]

Keys == {BuyKey(q) : q \in Request}
Status == {"claimed", "submitted", "failed"}
Row == [status : Status \cup {"none"}, tx : {q.tx : q \in Request} \cup {NoTx}]
NoRow == [status |-> "none", tx |-> NoTx]
Stage == {"idle", "claim", "reading", "reclaim", "send", "mark", "done"}

TypeOK ==
  /\ awaits \in BOOLEAN /\ fallback \in BOOLEAN
  /\ table \in [Keys -> Row] /\ file \in [Keys -> Row]
  /\ handled \subseteq {q.coin : q \in Request}
  /\ stage \in [Buyer -> Stage]
  /\ req \in [Buyer -> Request \cup {NoRequest}]
  /\ ok \in [Buyer -> BOOLEAN]
  /\ via \in [Buyer -> SUBSET {"table", "file"}]
  /\ bought \subseteq Buyer
  /\ restarts \in 0 .. MaxRestarts /\ faults \in 0 .. MaxFaults

Init ==
  /\ awaits \in BOOLEAN
  /\ table = [k \in Keys |-> NoRow] /\ file = table
  /\ fallback = FALSE /\ handled = {} /\ bought = {}
  /\ stage = [b \in Buyer |-> "idle"]
  /\ req = [b \in Buyer |-> NoRequest]
  /\ ok = [b \in Buyer |-> FALSE]
  /\ via = [b \in Buyer |-> {}]
  /\ restarts = 0 /\ faults = 0

-----------------------------------------------------------------------------
(* The run around the record *)

Goto(b, label) == stage' = [stage EXCEPT ![b] = label]
Fault == faults < MaxFaults /\ faults' = faults + 1

\* A direct buy without repeat takes its coin in memory; with repeat only one
\* run at a time has the transaction (copyBuySubmissionGuard).
MaySend(q) ==
  IF q.repeat THEN \A b \in Buyer : stage[b] = "send" => req[b] # q
              ELSE q.coin \notin handled

Begin(b, q) ==
  /\ stage[b] = "idle"
  /\ req' = [req EXCEPT ![b] = q]
  /\ IF awaits THEN Goto(b, "claim") /\ UNCHANGED handled
     ELSE /\ MaySend(q)
          /\ handled' = IF q.repeat THEN handled ELSE handled \cup {q.coin}
          /\ Goto(b, "send")
  /\ UNCHANGED <<awaits, table, file, fallback, ok, via, bought, restarts, faults>>

\* An awaited claim that is refused, or throws, ends the run before the send;
\* a deferred one is only logged.
Refused(b) == Goto(b, "done") /\ UNCHANGED via

Granted(b, store) ==
  /\ Goto(b, IF awaits THEN "send" ELSE "mark")
  /\ via' = [via EXCEPT ![b] = {store}]

\* The order goes out, or a later gate, the budget or the building refuses it.
Send(b) ==
  /\ stage[b] = "send"
  /\ \E r \in BOOLEAN :
       /\ ok' = [ok EXCEPT ![b] = r]
       /\ bought' = IF r THEN bought \cup {b} ELSE bought
       /\ handled' = IF awaits \/ r \/ req[b].repeat THEN handled
                     ELSE handled \ {req[b].coin}
       /\ \/ Goto(b, IF awaits THEN "mark" ELSE "claim")
          \/ ~awaits /\ ~r /\ Goto(b, "done")   \* refused before the send: no record
  /\ UNCHANGED <<awaits, table, file, fallback, req, via, restarts, faults>>

-----------------------------------------------------------------------------
(* claimBuy *)

Claimed(q) == [status |-> "claimed", tx |-> q.tx]

\* Mutant: a record in any state may be claimed again.
Reclaimable_Any(q, row) == q.repeat

\* retryFailed is the setting allowRepeat and the key are made from.
Reclaimable(q, row) == q.repeat /\ row.status = "failed"

\* Records of the file that stand in the way of a claim: the one with its key,
\* and without repeat every record of the coin.
Rivals(q) ==
  {k \in Keys : file[k].status # "none" /\ (k = BuyKey(q) \/ (~q.repeat /\ k.coin = q.coin))}

\* createJsonCopyTradeBuyIdempotencyStore.claimBuy; the queue and the rename make it
\* atomic, and a file that cannot be read or written leaves it as it is.
ClaimInFile(b) ==
  LET q == req[b] IN
  /\ stage[b] = "claim" /\ fallback
  /\ \/ /\ Rivals(q) = {} \/ Reclaimable(q, file[BuyKey(q)])
        /\ file' = [file EXCEPT ![BuyKey(q)] = Claimed(q)]
        /\ Granted(b, "file") /\ UNCHANGED faults
     \/ /\ Rivals(q) # {} /\ ~Reclaimable(q, file[BuyKey(q)])
        /\ Refused(b) /\ UNCHANGED <<file, faults>>
     \/ Fault /\ Refused(b) /\ UNCHANGED file
  /\ UNCHANGED <<awaits, table, fallback, handled, req, ok, bought, restarts>>

\* The primary key, and the unique index over the observed signature.
Conflict(q) ==
  \/ table[BuyKey(q)].status # "none"
  \/ \E k \in Keys : table[k].status # "none" /\ table[k].tx = q.tx

InsertRow(b) ==
  LET q == req[b] IN
  /\ stage[b] = "claim" /\ ~fallback /\ ~Conflict(q)
  /\ \/ /\ table' = [table EXCEPT ![BuyKey(q)] = Claimed(q)]
        /\ Granted(b, "table") /\ UNCHANGED faults
     \/ /\ Fault /\ Refused(b)   \* the call throws, applied or not
        /\ table' \in {table, [table EXCEPT ![BuyKey(q)] = Claimed(q)]}
  /\ UNCHANGED <<awaits, file, fallback, handled, req, ok, bought, restarts>>

\* A unique violation: only a repeat has something to do with the existing row.
MeetRow(b) ==
  /\ stage[b] = "claim" /\ ~fallback /\ Conflict(req[b])
  /\ IF req[b].repeat THEN Goto(b, "reading") /\ UNCHANGED via ELSE Refused(b)
  /\ UNCHANGED <<awaits, table, file, fallback, handled, req, ok, bought, restarts, faults>>

ReadRow(b) ==
  /\ stage[b] = "reading"
  /\ \/ /\ Reclaimable(req[b], table[BuyKey(req[b])])
        /\ Goto(b, "reclaim") /\ UNCHANGED <<via, faults>>
     \/ ~Reclaimable(req[b], table[BuyKey(req[b])]) /\ Refused(b) /\ UNCHANGED faults
     \/ Fault /\ Refused(b)
  /\ UNCHANGED <<awaits, table, file, fallback, handled, req, ok, bought, restarts>>

\* Mutant: the update that takes a failed row over does not ask for its status.
StillFailed_Skipped(row) == TRUE

StillFailed(row) == row.status = "failed"

ReclaimRow(b) ==
  LET q == req[b]
      taken == [table EXCEPT ![BuyKey(q)] = Claimed(q)] IN
  /\ stage[b] = "reclaim"
  /\ IF StillFailed(table[BuyKey(q)])
     THEN \/ table' = taken /\ Granted(b, "table") /\ UNCHANGED faults
          \/ Fault /\ Refused(b) /\ table' \in {table, taken}
     ELSE Refused(b) /\ UNCHANGED <<table, faults>>
  /\ UNCHANGED <<awaits, file, fallback, handled, req, ok, bought, restarts>>

-----------------------------------------------------------------------------
(* completeBuy, failBuy *)

\* Mutant: the result is not looked at.
Marked_IgnoresResult(store, b) ==
  LET k == BuyKey(req[b]) IN
  IF store[k].status = "none" THEN store ELSE [store EXCEPT ![k].status = "submitted"]

\* The status is written by key alone; a store without the record is left as it is.
Marked(store, b) ==
  LET k == BuyKey(req[b]) IN
  IF store[k].status = "none" THEN store
  ELSE [store EXCEPT ![k].status = IF ok[b] THEN "submitted" ELSE "failed"]

MarkInFile(b) ==
  /\ stage[b] = "mark" /\ fallback
  /\ \/ /\ file' = Marked(file, b) /\ via' = [via EXCEPT ![b] = @ \cup {"file"}]
        /\ UNCHANGED faults
     \/ Fault /\ UNCHANGED <<file, via>>
  /\ Goto(b, "done")
  /\ UNCHANGED <<awaits, table, fallback, handled, req, ok, bought, restarts>>

MarkRow(b) ==
  /\ stage[b] = "mark" /\ ~fallback
  /\ \/ table' = Marked(table, b) /\ UNCHANGED faults
     \/ Fault /\ table' \in {table, Marked(table, b)}
  /\ Goto(b, "done")
  /\ UNCHANGED <<awaits, file, fallback, handled, req, ok, via, bought, restarts>>

\* activateFallback: an insert or a completion finds the table missing or its
\* provider constraint violated; the call is repeated on the file, for good.
ActivateFallback(b) ==
  /\ stage[b] \in {"claim", "mark"} /\ ~fallback
  /\ Fault /\ fallback' = TRUE
  /\ UNCHANGED <<awaits, table, file, handled, stage, req, ok, via, bought, restarts>>

\* The process ends: its runs, its guard and its choice of store are forgotten.
Restart ==
  /\ restarts < MaxRestarts /\ restarts' = restarts + 1
  /\ fallback' = FALSE /\ handled' = {}
  /\ stage' = [b \in Buyer |-> IF stage[b] = "idle" THEN "idle" ELSE "done"]
  /\ UNCHANGED <<awaits, table, file, req, ok, via, bought, faults>>

Step(b) ==
  \/ Send(b) \/ ClaimInFile(b) \/ InsertRow(b) \/ MeetRow(b) \/ ReadRow(b)
  \/ ReclaimRow(b) \/ MarkInFile(b) \/ MarkRow(b)

Next ==
  \/ \E b \in Buyer : \E q \in Request : Begin(b, q)
  \/ \E b \in Buyer : Step(b) \/ ActivateFallback(b)
  \/ Restart

Spec == Init /\ [][Next]_vars

-----------------------------------------------------------------------------
(* Properties *)

KeyOf(b) == BuyKey(req[b])

\* A buyer completed in the file what it had claimed in the table.
Crossed(k) == \E b \in Buyer : req[b] # NoRequest /\ KeyOf(b) = k /\ via[b] = {"table", "file"}

\* A provider that waits for its claim executes at most one order per key and
\* store, whatever crashes, lost answers and retries of failed buys happen
\* (claimBuy's insert and reclaimFailed's update).  The exception is a key
\* claimed in Supabase and completed in the file after activateFallback.
BoughtOncePerStore ==
  awaits =>
    \A b, c \in bought :
      b # c /\ KeyOf(b) = KeyOf(c) /\ ~Crossed(KeyOf(b)) => via[b] \cap via[c] = {}

\* A record marked submitted belongs to an executed order, and, where the claim
\* is awaited, one marked failed to none: what a later retry relies on.
RecordTellsOutcome ==
  \A k \in Keys, s \in {"table", "file"} :
    LET row == IF s = "table" THEN table[k] ELSE file[k]
        holders == {b \in bought : KeyOf(b) = k} IN
    /\ row.status = "submitted" => holders # {}
    /\ row.status = "failed" /\ awaits /\ ~Crossed(k) => \A b \in holders : s \notin via[b]

\* The statuses of a store only move as a register of claims allows: one claim,
\* one verdict, and after a failure another claim.
RegisterStep(old, new) ==
  \A k \in Keys :
    \/ new[k].status = old[k].status
    \/ old[k].status \in {"none", "failed"} /\ new[k].status = "claimed"
    \/ old[k].status = "claimed" /\ new[k].status \in {"submitted", "failed"}

\* No late completion rewrites a verdict: a row of Supabase never leaves
\* submitted, and a failed one only by a new claim.
VerdictsStand == [][RegisterStep(table, table')]_vars
=============================================================================
