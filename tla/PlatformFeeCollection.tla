----------------------- MODULE PlatformFeeCollection -----------------------
(***************************************************************************)
(* The Node-side bridge that collects the platform fee of a Rust copy buy  *)
(* after the buy landed: any number of collector processes poll a shared   *)
(* ledger table, lease one row at a time, sign a transfer, persist its     *)
(* bytes, broadcast them, and settle the row by what the chain reports.    *)
(* Every update is fenced by the lease token taken when the row was        *)
(* claimed.  A step below runs from one await to the next.                 *)
(***************************************************************************)
EXTENDS Naturals

CONSTANTS
  Row,          \* execution keys of ledger rows
  Collector,    \* processes running the poller
  Token, NoToken,   \* lease tokens: a process id and a random UUID
  Legacy,       \* rows submitted by the release that kept no signed bytes
  Terms,        \* [Row -> _]: copy wallet, treasury and lamports of a row's fee
  NoTx, NoJob,
  MaxAttempts,  \* COPY_TRADE_RUST_ASYNC_PLATFORM_FEE_MAX_ATTEMPTS
  MaxSlot,      \* bound: blockhashes are 0 .. MaxSlot
  MaxFaults     \* bound: crashes, lost responses, outages and overrun leases

ASSUME CollectionAssumption ==
  /\ MaxAttempts \in Nat \ {0}
  /\ MaxSlot \in Nat
  /\ MaxFaults \in Nat
  /\ Legacy \subseteq Row
  /\ NoToken \notin Token
  /\ NoTx \notin [terms : {Terms[r] : r \in Row}, blockhash : 0 .. MaxSlot]
  /\ NoJob \notin Row

VARIABLES
  row,       \* the ledger table
  pc,        \* where each collector is between two awaits
  job,       \* the row each collector works on
  entry,     \* the row as it was when the collector claimed it
  transfer,  \* the signed transfer the collector holds
  wire,      \* [Row -> SUBSET Tx]: what has been handed to the network
  chain,     \* [Tx -> Fate]
  slot,      \* latest blockhash
  faults

vars == <<row, pc, job, entry, transfer, wire, chain, slot, faults>>
local == <<pc, job, entry, transfer>>
network == <<wire, chain, slot>>

\* A Solana transfer is its message: equal messages have equal signatures.
Tx == [terms : {Terms[r] : r \in Row}, blockhash : 0 .. MaxSlot]
Fate == {"open", "landed", "reverted", "expired"}

Collection == {"none", "pending", "submitted", "confirmed", "failed"}
Status == {"none", "pending", "claimable", "paid", "voided"}
Entry == [status : Status, collection : Collection, attempts : 0 .. MaxAttempts,
          signature : Tx \cup {NoTx}, transaction : Tx \cup {NoTx},
          lease : Token \cup {NoToken}, expired : BOOLEAN]
Control == {"idle", "seeding", "claimed", "prepared", "persisted", "broadcast",
            "confirming", "confirmed", "timedOut", "reverted", "erred", "restoring"}

Absent == [status |-> "none", collection |-> "none", attempts |-> 0,
           signature |-> NoTx, transaction |-> NoTx, lease |-> NoToken, expired |-> FALSE]

\* buildPendingPlatformFeeCashbackAccrual
PendingAccrual == [Absent EXCEPT !.status = "pending", !.collection = "pending"]

LegacySubmitted(r) ==
  [PendingAccrual EXCEPT !.collection = "submitted", !.attempts = 1,
                         !.signature = [terms |-> Terms[r], blockhash |-> 0]]

TypeOK ==
  /\ row \in [Row -> Entry]
  /\ pc \in [Collector -> Control]
  /\ job \in [Collector -> Row \cup {NoJob}]
  /\ entry \in [Collector -> Entry]
  /\ transfer \in [Collector -> Tx \cup {NoTx}]
  /\ wire \in [Row -> SUBSET Tx]
  /\ chain \in [Tx -> Fate]
  /\ slot \in 0 .. MaxSlot
  /\ faults \in 0 .. MaxFaults

Init ==
  /\ row = [r \in Row |-> IF r \in Legacy THEN LegacySubmitted(r) ELSE Absent]
  /\ wire = [r \in Row |-> IF r \in Legacy THEN {LegacySubmitted(r).signature} ELSE {}]
  /\ pc = [c \in Collector |-> "idle"]
  /\ job = [c \in Collector |-> NoJob]
  /\ entry = [c \in Collector |-> Absent]
  /\ transfer = [c \in Collector |-> NoTx]
  /\ chain = [t \in Tx |-> "open"]
  /\ slot = 0
  /\ faults = 0

-----------------------------------------------------------------------------
(* Helpers *)

Fault == faults < MaxFaults /\ faults' = faults + 1

Goto(c, label) ==
  /\ pc' = [pc EXCEPT ![c] = label]
  /\ UNCHANGED <<job, entry, transfer>>

\* The collector is done with the row and forgets it.
Leave(c) ==
  /\ pc' = [pc EXCEPT ![c] = "idle"]
  /\ job' = [job EXCEPT ![c] = NoJob]
  /\ entry' = [entry EXCEPT ![c] = Absent]
  /\ transfer' = [transfer EXCEPT ![c] = NoTx]

\* expectedLeaseToken of an update still matches the row.
Held(c) == row[job[c]].lease = entry[c].lease

Released(e) == [e EXCEPT !.lease = NoToken, !.expired = FALSE]

\* Mutant: the update is not fenced by the lease token.
Stored_Unfenced(c, e) == [row EXCEPT ![job[c]] = e]

\* updatePlatformFeeCollection: the row afterwards, when the update reaches it.
Stored(c, e) == IF Held(c) THEN [row EXCEPT ![job[c]] = e] ELSE row

\* An update after which the collector is done, whether or not it matched. If
\* the call throws, the row may have been updated all the same.
Finish(c, e, handler) ==
  \/ row' = Stored(c, e) /\ Leave(c) /\ UNCHANGED faults
  \/ Fault /\ row' \in {row, Stored(c, e)} /\ Goto(c, handler)

\* Mutant: the cashback status is left as it was.
Voided_KeepsStatus(e) == Released([e EXCEPT !.collection = "failed"])

Voided(e) == Released([e EXCEPT !.collection = "failed", !.status = "voided"])

\* The pending path catches errors itself; the submitted path leaves them to
\* processRustAsyncPlatformFeeCollectionRows.
Handler(c) == IF entry[c].collection = "pending" THEN "erred" ELSE "restoring"

\* Mutant: the try is not counted.
NextAttempts_NotCounted(c) == entry[c].attempts

NextAttempts(c) == entry[c].attempts + 1

-----------------------------------------------------------------------------
(* seedRustAsyncPlatformFeeCollection *)

\* No ledger row exists for the execution key when it is looked up.
SeedLookup(c, r) ==
  /\ pc[c] = "idle"
  /\ row[r] = Absent
  /\ pc' = [pc EXCEPT ![c] = "seeding"]
  /\ job' = [job EXCEPT ![c] = r]
  /\ UNCHANGED <<row, entry, transfer, network, faults>>

\* Mutant: the upsert merges duplicates.
SeedAccrue_Overwrites(c) ==
  /\ pc[c] = "seeding"
  /\ row' = [row EXCEPT ![job[c]] = PendingAccrual]
  /\ Leave(c)
  /\ UNCHANGED <<network, faults>>

\* accrue: an upsert on the execution key that ignores duplicates.
SeedAccrue(c) ==
  /\ pc[c] = "seeding"
  /\ row' = IF row[job[c]] = Absent THEN [row EXCEPT ![job[c]] = PendingAccrual] ELSE row
  /\ Leave(c)
  /\ UNCHANGED <<network, faults>>

-----------------------------------------------------------------------------
(* processRustAsyncPlatformFeeCollectionRows *)

\* Mutants: the lease is not looked at; submitted rows are left out.
Claimable_IgnoresLease(r) == row[r].collection \in {"pending", "submitted"}
Claimable_PendingOnly(r) ==
  /\ row[r].collection = "pending"
  /\ row[r].lease = NoToken \/ row[r].expired

\* claimPlatformFeeCollections: one conditional UPDATE that returns the row.
Claimable(r) ==
  /\ row[r].collection \in {"pending", "submitted"}
  /\ row[r].lease = NoToken \/ row[r].expired

Unused(k) ==
  /\ \A r \in Row : row[r].lease # k
  /\ \A c \in Collector : entry[c].lease # k

Claim(c, r, k) ==
  /\ pc[c] = "idle"
  /\ Claimable(r)
  /\ Unused(k)
  /\ LET leased == [row[r] EXCEPT !.lease = k, !.expired = FALSE]
     IN  /\ row' = [row EXCEPT ![r] = leased]
         /\ \/ /\ pc' = [pc EXCEPT ![c] = "claimed"]
               /\ job' = [job EXCEPT ![c] = r]
               /\ entry' = [entry EXCEPT ![c] = leased]
               /\ UNCHANGED <<transfer, faults>>
            \/ Fault /\ UNCHANGED local        \* the answer is lost
  /\ UNCHANGED network

\* The catch around a row: put the claimed status back and release the lease.
Restore(c) ==
  /\ pc[c] = "restoring"
  /\ \/ /\ row' = Stored(c, Released([row[job[c]] EXCEPT !.collection = entry[c].collection]))
        /\ UNCHANGED faults
     \/ Fault /\ UNCHANGED row
  /\ Leave(c)
  /\ UNCHANGED network

-----------------------------------------------------------------------------
(* processRustAsyncPlatformFeeCollection *)

\* A pending row out of attempts or without a local wallet is given up at once.
\* Wallets come and go with the subscriber list, so either answer is possible.
GiveUp(c) ==
  /\ pc[c] = "claimed"
  /\ entry[c].collection = "pending" \/ entry[c].signature = NoTx
  /\ Finish(c, Voided(row[job[c]]), "restoring")
  /\ UNCHANGED network

\* Mutant: every try signs a transfer of its own.
Prepare_SignsAnew(c) ==
  /\ pc[c] = "claimed"
  /\ entry[c].collection = "pending"
  /\ entry[c].attempts < MaxAttempts
  /\ pc' = [pc EXCEPT ![c] = "prepared"]
  /\ transfer' = [transfer EXCEPT ![c] = [terms |-> Terms[job[c]], blockhash |-> slot]]
  /\ UNCHANGED <<row, job, entry, network, faults>>

\* A persisted transfer is used as it is; otherwise one is signed over the
\* latest blockhash.
Prepare(c) ==
  /\ pc[c] = "claimed"
  /\ entry[c].collection = "pending"
  /\ entry[c].attempts < MaxAttempts
  /\ pc' = [pc EXCEPT ![c] = "prepared"]
  /\ transfer' = [transfer EXCEPT ![c] =
       IF entry[c].transaction # NoTx THEN entry[c].transaction
       ELSE [terms |-> Terms[job[c]], blockhash |-> slot]]
  /\ UNCHANGED <<row, job, entry, network, faults>>

PrepareFails(c) ==
  /\ pc[c] = "claimed"
  /\ entry[c].collection = "pending"
  /\ entry[c].attempts < MaxAttempts
  /\ entry[c].transaction = NoTx
  /\ Goto(c, "erred")
  /\ UNCHANGED <<row, network, faults>>

Persist(c) ==
  /\ pc[c] = "prepared"
  /\ LET e == [row[job[c]] EXCEPT !.collection = "pending",
                                  !.signature = transfer[c], !.transaction = transfer[c]]
     IN  \/ row' = Stored(c, e) /\ Held(c) /\ Goto(c, "persisted") /\ UNCHANGED faults
         \/ ~Held(c) /\ Leave(c) /\ UNCHANGED <<row, faults>>
         \/ Fault /\ row' \in {row, Stored(c, e)} /\ Goto(c, "erred")
  /\ UNCHANGED network

\* sendRawTransaction with preflight: accepted, accepted with the answer lost,
\* or refused. Preflight refuses a transfer the chain has decided or forgotten.
Broadcast(c) ==
  /\ pc[c] = "persisted"
  /\ \/ /\ chain[transfer[c]] = "open"
        /\ wire' = [wire EXCEPT ![job[c]] = @ \cup {transfer[c]}]
        /\ \/ Goto(c, "broadcast") /\ UNCHANGED faults
           \/ Goto(c, "erred") /\ Fault
     \/ Goto(c, "erred") /\ UNCHANGED <<wire, faults>>
  /\ UNCHANGED <<row, chain, slot>>

\* The result of this update is not looked at.
MarkSubmitted(c) ==
  /\ pc[c] = "broadcast"
  /\ LET e == [row[job[c]] EXCEPT !.collection = "submitted", !.signature = transfer[c],
                                  !.attempts = NextAttempts(c)]
     IN  \/ row' = Stored(c, e) /\ Goto(c, "confirming") /\ UNCHANGED faults
         \/ Fault /\ row' \in {row, Stored(c, e)} /\ Goto(c, "erred")
  /\ UNCHANGED network

\* The catch of the pending path: terminal by count or by the error's text.
Retry(c) ==
  /\ pc[c] = "erred"
  /\ LET e == [row[job[c]] EXCEPT !.collection = "pending", !.attempts = NextAttempts(c)]
     IN  \/ Finish(c, Voided(e), "restoring")
         \/ NextAttempts(c) < MaxAttempts /\ Finish(c, Released(e), "restoring")
  /\ UNCHANGED network

\* A submitted row is broadcast again, errors ignored, and confirmed.
Rebroadcast(c) ==
  /\ pc[c] = "claimed"
  /\ entry[c].collection = "submitted"
  /\ entry[c].signature # NoTx
  /\ pc' = [pc EXCEPT ![c] = "confirming"]
  /\ transfer' = [transfer EXCEPT ![c] = entry[c].signature]
  /\ \/ entry[c].transaction # NoTx
          /\ wire' = [wire EXCEPT ![job[c]] = @ \cup {entry[c].transaction}]
     \/ UNCHANGED wire
  /\ UNCHANGED <<row, job, entry, chain, slot, faults>>

-----------------------------------------------------------------------------
(* confirmRustAsyncPlatformFeeTransfer *)

\* Mutant: a status of any commitment counts as a confirmation.
Await_Unconfirmed(c) ==
  /\ pc[c] = "confirming"
  /\ chain[transfer[c]] \in {"open", "landed"}
  /\ Goto(c, "confirmed")
  /\ UNCHANGED <<row, network, faults>>

\* waitForSignatureConfirmationResult. It times out on a transfer the chain has
\* decided only when the RPC fails or the process is shutting down.
Await(c) ==
  /\ pc[c] = "confirming"
  /\ \/ chain[transfer[c]] = "landed" /\ Goto(c, "confirmed") /\ UNCHANGED faults
     \/ chain[transfer[c]] = "reverted" /\ Goto(c, "reverted") /\ UNCHANGED faults
     \/ chain[transfer[c]] \in {"open", "expired"} /\ Goto(c, "timedOut") /\ UNCHANGED faults
     \/ Fault /\ Goto(c, "timedOut")
  /\ UNCHANGED <<row, network>>

SettleConfirmed(c) ==
  /\ pc[c] = "confirmed"
  /\ Finish(c, Released([row[job[c]] EXCEPT !.collection = "confirmed", !.status = "claimable",
                                            !.signature = transfer[c]]), Handler(c))
  /\ UNCHANGED network

SettleTimedOut(c) ==
  /\ pc[c] = "timedOut"
  /\ Finish(c, Released([row[job[c]] EXCEPT !.collection = "submitted",
                                            !.signature = transfer[c]]), Handler(c))
  /\ UNCHANGED network

SettleReverted(c) ==
  /\ pc[c] = "reverted"
  /\ Finish(c, Voided([row[job[c]] EXCEPT !.signature = transfer[c]]), Handler(c))
  /\ UNCHANGED network

-----------------------------------------------------------------------------
(* Environment *)

Crash(c) ==
  /\ pc[c] # "idle"
  /\ Fault
  /\ Leave(c)
  /\ UNCHANGED <<row, network>>

Abandoned(r) == \A c \in Collector : entry[c].lease # row[r].lease

\* leaseDurationMs passes: after a crash, or under a collector still at work.
ExpireLease(r) ==
  /\ row[r].lease # NoToken
  /\ ~row[r].expired
  /\ row' = [row EXCEPT ![r].expired = TRUE]
  /\ IF Abandoned(r) THEN UNCHANGED faults ELSE Fault
  /\ UNCHANGED <<local, network>>

\* markLedgerPaid by a cashback payout.
MarkLedgerPaid(r) ==
  /\ row[r].status = "claimable"
  /\ row' = [row EXCEPT ![r].status = "paid"]
  /\ UNCHANGED <<local, network, faults>>

Sent(t) == \E r \in Row : t \in wire[r]

\* The chain confirms a transfer, which takes longer than the slot it was signed in.
Execute(t, fate) ==
  /\ Sent(t)
  /\ t.blockhash < slot
  /\ chain[t] = "open"
  /\ chain' = [chain EXCEPT ![t] = fate]
  /\ UNCHANGED <<row, local, wire, slot, faults>>

NextBlockhash ==
  /\ slot < MaxSlot
  /\ slot' = slot + 1
  /\ UNCHANGED <<row, local, wire, chain, faults>>

\* The blockhash of a transfer is too old: it can never execute.
Expire(t) ==
  /\ Sent(t)
  /\ chain[t] = "open"
  /\ t.blockhash < slot
  /\ chain' = [chain EXCEPT ![t] = "expired"]
  /\ UNCHANGED <<row, local, wire, slot, faults>>

-----------------------------------------------------------------------------
Step(c) ==
  \/ SeedAccrue(c)
  \/ GiveUp(c) \/ Prepare(c) \/ PrepareFails(c) \/ Persist(c) \/ Broadcast(c)
  \/ MarkSubmitted(c) \/ Retry(c) \/ Rebroadcast(c) \/ Await(c)
  \/ SettleConfirmed(c) \/ SettleTimedOut(c) \/ SettleReverted(c) \/ Restore(c)

Poll(c) ==
  \/ \E r \in Row : SeedLookup(c, r)
  \/ \E r \in Row, k \in Token : Claim(c, r, k)

Environment ==
  \/ \E c \in Collector : Crash(c)
  \/ \E r \in Row : ExpireLease(r) \/ MarkLedgerPaid(r)
  \/ \E t \in Tx : Execute(t, "landed") \/ Execute(t, "reverted") \/ Expire(t)
  \/ NextBlockhash

Next ==
  \/ \E c \in Collector : Step(c) \/ Poll(c)
  \/ Environment

Spec == Init /\ [][Next]_vars

(***************************************************************************)
(* Fairness: setInterval keeps polling and every await returns; an expired *)
(* or released row is claimed again by some collector.                     *)
(***************************************************************************)
Fairness ==
  /\ \A c \in Collector : WF_vars(Step(c))
  /\ \A r \in Row : SF_vars(\E c \in Collector, k \in Token : Claim(c, r, k))
  /\ \A r \in Row : WF_vars(Abandoned(r) /\ ExpireLease(r))

FairSpec == Spec /\ Fairness

-----------------------------------------------------------------------------
(* Properties *)

\* Everything a row ever put on the wire is the one transfer its row names:
\* the signed bytes are persisted before they are broadcast, and every retry,
\* by whichever collector, sends the same bytes.
PersistedBeforeBroadcast ==
  \A r \in Row : wire[r] \subseteq {row[r].signature}

\* No row is charged twice, however many collectors tried it.
AtMostOneTransfer ==
  \A r \in Row : \A t, u \in wire[r] : t = u

\* Cashback becomes claimable only after the row's own fee transfer confirmed.
ClaimableOnlyAfterConfirmation ==
  \A r \in Row : row[r].status \in {"claimable", "paid"} =>
    /\ row[r].signature \in wire[r]
    /\ chain[row[r].signature] = "landed"

\* "sends a separate SystemProgram.transfer ... and makes cashback claimable only
\* after that fee transfer confirms" (README.md:117): two claimable rows were paid
\* for by two transfers. Refuted when two rows owe the same amount from the same
\* wallet and are signed over the same blockhash: the messages are equal, so are
\* the signatures, and the chain executes them once.
SeparateTransferPerRow ==
  \A r, q \in Row :
    row[r].status = "claimable" /\ row[q].status = "claimable" /\ row[r].signature = row[q].signature
      => r = q

\* The two lifecycles of a row, cashback and fee collection, never disagree,
\* and a settled row is owned by nobody.
LedgerAgreesWithCollection ==
  \A r \in Row :
    /\ row[r].status = "none" <=> row[r].collection = "none"
    /\ row[r].status = "pending" <=> row[r].collection \in {"pending", "submitted"}
    /\ row[r].status \in {"claimable", "paid"} <=> row[r].collection = "confirmed"
    /\ row[r].status = "voided" <=> row[r].collection = "failed"
    /\ row[r].collection \in {"confirmed", "failed"} => row[r].lease = NoToken

\* A settled row is never collected again: no late answer of a collector that
\* lost its lease reopens it or turns one verdict into the other.
Settled(r) == row[r].collection \in {"confirmed", "failed"}
SettledRowsStaySettled ==
  [][\A r \in Row : Settled(r) =>
       row'[r] = row[r] \/ row'[r] = [row[r] EXCEPT !.status = "paid"]]_vars

\* The collection implements what the bridge promises for each row.
Outcome(collection) ==
  CASE collection = "none" -> "none"
    [] collection \in {"pending", "submitted"} -> "open"
    [] collection = "confirmed" -> "collected"
    [] collection = "failed" -> "abandoned"

Promise == INSTANCE FeeSettlement WITH
  outcome <- [r \in Row |-> Outcome(row[r].collection)],
  landed <- {t \in Tx : chain[t] = "landed"}

PromiseKept == Promise!Spec

\* A row waiting for its transfer to be sent does not wait for ever: it is
\* submitted or, out of attempts, given up.
PendingRowsAdvance ==
  \A r \in Row : row[r].collection = "pending" ~> row[r].collection # "pending"

\* Once the chain has decided the transfer of a submitted row, the row is
\* settled, even if the collector that sent it is gone.
DecidedRowsSettle ==
  \A r \in Row :
    (row[r].collection = "submitted" /\ chain[row[r].signature] \in {"landed", "reverted"})
      ~> Settled(r)

-----------------------------------------------------------------------------
(* The inductive invariant *)

Working == Control \ {"idle", "seeding"}
Signed == {"prepared", "persisted", "broadcast", "confirming", "confirmed", "timedOut", "reverted"}
OnTheWire == {"broadcast", "confirming", "confirmed", "timedOut", "reverted"}

\* A row e names one transfer and has put no other on the wire; only a legacy
\* row has a transfer without bytes; only open rows are leased; the cashback
\* status follows the collection and is earned by a landed transfer.
RowOK(r, e) ==
  /\ wire[r] \subseteq {e.signature}
  /\ e.transaction # NoTx => e.transaction = e.signature /\ e.collection # "none"
  /\ e.lease # NoToken => e.collection \in {"pending", "submitted"}
  /\ e.collection = "submitted" => e.signature \in wire[r]
  /\ r \in Legacy => e.collection \notin {"none", "pending"}
  /\ r \notin Legacy /\ e.transaction = NoTx => wire[r] = {}
  /\ e.status = "none" <=> e.collection = "none"
  /\ e.status = "pending" <=> e.collection \in {"pending", "submitted"}
  /\ e.status \in {"claimable", "paid"} <=> e.collection = "confirmed"
  /\ e.status = "voided" <=> e.collection = "failed"
  /\ e.collection = "confirmed" =>
       e.signature \in wire[r] /\ chain[e.signature] = "landed"

\* What a collector remembers of its row stays true of it, lease or no lease:
\* bytes once persisted never change and a transfer once sent stays sent.
Remembers(c) ==
  /\ entry[c].collection \in {"pending", "submitted"}
  /\ entry[c].collection = "pending" => job[c] \notin Legacy
  /\ entry[c].collection = "submitted" => entry[c].signature \in wire[job[c]]
  /\ entry[c].transaction # NoTx => /\ row[job[c]].transaction = entry[c].transaction
                                    /\ entry[c].signature = entry[c].transaction
  /\ pc[c] \in {"claimed", "prepared"} /\ Held(c) =>
       row[job[c]].transaction = entry[c].transaction

Progressed(c) ==
  /\ pc[c] \in {"prepared", "persisted", "broadcast", "erred"} => entry[c].collection = "pending"
  /\ entry[c].collection = "pending" /\ pc[c] \notin {"claimed", "restoring"} =>
       entry[c].attempts < MaxAttempts
  /\ pc[c] \in Signed => transfer[c] \in Tx
  /\ pc[c] = "prepared" /\ entry[c].transaction # NoTx => transfer[c] = entry[c].transaction
  /\ pc[c] \in {"persisted", "broadcast"} => row[job[c]].transaction = transfer[c]
  /\ pc[c] \in OnTheWire => transfer[c] \in wire[job[c]]
  /\ pc[c] = "confirmed" => chain[transfer[c]] = "landed"

CollectorInv(c) ==
  /\ pc[c] = "idle" => job[c] = NoJob
  /\ pc[c] # "idle" => job[c] \in Row
  /\ pc[c] \in {"idle", "seeding"} => entry[c] = Absent
  /\ pc[c] \in Working => entry[c].lease \in Token /\ Remembers(c) /\ Progressed(c)

LeasesDiffer ==
  \A c, d \in Collector :
    entry[c].lease = entry[d].lease /\ entry[c].lease # NoToken => c = d

IInv ==
  /\ TypeOK
  /\ \A r \in Row : RowOK(r, row[r])
  /\ \A c \in Collector : CollectorInv(c)
  /\ LeasesDiffer
=============================================================================
