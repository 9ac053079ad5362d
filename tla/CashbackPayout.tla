--------------------------- MODULE CashbackPayout ---------------------------
(***************************************************************************)
(* The claim of one chat and trading wallet: claimCashback reads the       *)
(* ledger, opens a payout row, sends the SOL and only then marks the       *)
(* listed ledger entries paid.  Each Bot is a process that polls Telegram  *)
(* and handles one update after another; a restarted or overlapping        *)
(* process is handed the same update again.  A step runs from one await to *)
(* the next.                                                               *)
(***************************************************************************)
EXTENDS Integers, FiniteSets, FiniteSetsExt

CONSTANTS
  Bot,
  Entry,        \* ledger entries of the wallet
  Lamports,     \* [Entry -> Int]: cashback of an entry; a manual adjustment may be negative
  Payout,       \* bound: ids of payout rows
  NoPayout,
  MinClaim,     \* CASHBACK_MIN_CLAIM_SOL
  DailyCap,     \* CASHBACK_MAX_PAYOUT_SOL_PER_DAY; 0 is no cap
  MaxFaults,    \* bound: crashes and database calls that throw
  MaxTimeouts   \* bound: payouts whose send throws while its transfer is undecided or landed

ASSUME PayoutAssumption ==
  /\ Lamports \in [Entry -> Int]
  /\ NoPayout \notin Payout
  /\ MinClaim \in Nat
  /\ DailyCap \in Nat
  /\ MaxFaults \in Nat
  /\ MaxTimeouts \in Nat

VARIABLES
  ledger,    \* [Entry -> LedgerStatus]
  payout,    \* [Payout -> PayoutRow]: the payout table
  transfer,  \* [Payout -> Fate]: the payout's transfer on the chain
  covers,    \* [Payout -> SUBSET Entry]: the entries whose sum the payout pays
  pc,        \* where each bot is between two awaits
  listed,    \* claimableEntries of its claim
  mine,      \* payout row of its claim
  faults,
  unheard,   \* history: payouts whose send threw although the transfer was undecided or landed
  stale      \* history: payouts created from a list that was no longer claimable

vars == <<ledger, payout, transfer, covers, pc, listed, mine, faults, unheard, stale>>
local == <<pc, listed, mine>>
history == <<unheard, stale>>

LedgerStatus == {"none", "claimable", "paid"}
PayoutStatus == {"none", "pending", "submitted", "confirmed", "failed"}
PayoutRow == [status : PayoutStatus, amount : Nat]
Fate == {"none", "flying", "landed", "dropped"}
Control == {"idle", "balanceSeen", "payoutsSeen", "summarised", "listed", "created", "sending",
            "sent", "submitted", "paid", "confirmed", "failing", "recording"}

TypeOK ==
  /\ ledger \in [Entry -> LedgerStatus]
  /\ payout \in [Payout -> PayoutRow]
  /\ transfer \in [Payout -> Fate]
  /\ covers \in [Payout -> SUBSET Entry]
  /\ pc \in [Bot -> Control]
  /\ listed \in [Bot -> SUBSET Entry]
  /\ mine \in [Bot -> Payout \cup {NoPayout}]
  /\ faults \in 0 .. MaxFaults
  /\ unheard \subseteq Payout /\ Cardinality(unheard) <= MaxTimeouts
  /\ stale \subseteq Payout

Init ==
  /\ ledger = [e \in Entry |-> "none"]
  /\ payout = [p \in Payout |-> [status |-> "none", amount |-> 0]]
  /\ transfer = [p \in Payout |-> "none"]
  /\ covers = [p \in Payout |-> {}]
  /\ pc = [b \in Bot |-> "idle"]
  /\ listed = [b \in Bot |-> {}]
  /\ mine = [b \in Bot |-> NoPayout]
  /\ faults = 0
  /\ unheard = {}
  /\ stale = {}

-----------------------------------------------------------------------------
(* Helpers *)

Fault == faults < MaxFaults /\ faults' = faults + 1

Goto(b, label) ==
  /\ pc' = [pc EXCEPT ![b] = label]
  /\ UNCHANGED <<listed, mine>>

\* claimCashback returns or throws.
Leave(b) ==
  /\ pc' = [pc EXCEPT ![b] = "idle"]
  /\ listed' = [listed EXCEPT ![b] = {}]
  /\ mine' = [mine EXCEPT ![b] = NoPayout]

Claimable == {e \in Entry : ledger[e] = "claimable"}
Balance(E) == MapThenSumSet(LAMBDA e : Lamports[e], E)

Open(p) == payout[p].status \in {"pending", "submitted"}

\* Mutant: a payout that was never marked submitted does not count.
NoneOpen_Submitted == \A p \in Payout : payout[p].status # "submitted"

NoneOpen == \A p \in Payout : ~Open(p)

SetStatus(b, status) == [payout EXCEPT ![mine[b]].status = status]

-----------------------------------------------------------------------------
(* getSummary reads the ledger and the payouts at the same time *)

SeeBalance(b) ==
  /\ pc[b] \in {"idle", "payoutsSeen"}
  /\ Balance(Claimable) >= MinClaim
  /\ DailyCap = 0 \/ Balance(Claimable) <= DailyCap
  /\ Goto(b, IF pc[b] = "idle" THEN "balanceSeen" ELSE "summarised")
  /\ UNCHANGED <<ledger, payout, transfer, covers, faults, history>>

SeeNoOpenPayout(b) ==
  /\ pc[b] \in {"idle", "balanceSeen"}
  /\ NoneOpen
  /\ Goto(b, IF pc[b] = "idle" THEN "payoutsSeen" ELSE "summarised")
  /\ UNCHANGED <<ledger, payout, transfer, covers, faults, history>>

\* unavailable or below_threshold.
Refuse(b) ==
  /\ \/ pc[b] = "balanceSeen" /\ ~NoneOpen
     \/ /\ pc[b] = "payoutsSeen"
        /\ \/ Balance(Claimable) < MinClaim
           \/ DailyCap # 0 /\ Balance(Claimable) > DailyCap
  /\ Leave(b)
  /\ UNCHANGED <<ledger, payout, transfer, covers, faults, history>>

\* listClaimableEntries reads the ledger once more.
List(b) ==
  /\ pc[b] = "summarised"
  /\ pc' = [pc EXCEPT ![b] = "listed"]
  /\ listed' = [listed EXCEPT ![b] = Claimable]
  /\ UNCHANGED <<ledger, payout, transfer, covers, mine, faults, history>>

\* One open payout per chat and wallet; amount_lamports > 0.
Insertable(b) == NoneOpen /\ Balance(listed[b]) > 0

\* createPayout, outside the try: a refused insert ends the claim, and so does
\* an answer that is lost after the row was inserted.
Create(b, p) ==
  /\ pc[b] = "listed"
  /\ payout[p].status = "none"
  /\ Insertable(b)
  /\ payout' = [payout EXCEPT ![p] = [status |-> "pending", amount |-> Balance(listed[b])]]
  /\ covers' = [covers EXCEPT ![p] = listed[b]]
  /\ \/ /\ pc' = [pc EXCEPT ![b] = "created"]
        /\ mine' = [mine EXCEPT ![b] = p]
        /\ UNCHANGED <<listed, faults>>
     \/ Fault /\ Leave(b)
  /\ stale' = IF listed[b] \subseteq Claimable THEN stale ELSE stale \cup {p}
  /\ UNCHANGED <<ledger, transfer, unheard>>

CreateRefused(b) ==
  /\ pc[b] = "listed"
  /\ ~Insertable(b)
  /\ Leave(b)
  /\ UNCHANGED <<ledger, payout, transfer, covers, faults, history>>

-----------------------------------------------------------------------------
(* sendCashbackPayout: sendAndConfirmTransaction *)

\* The keys, the amount or the preflight are bad, or the transfer is on its way.
Send(b) ==
  /\ pc[b] = "created"
  /\ \/ Goto(b, "failing") /\ UNCHANGED transfer
     \/ Goto(b, "sending") /\ transfer' = [transfer EXCEPT ![mine[b]] = "flying"]
  /\ UNCHANGED <<ledger, payout, covers, faults, history>>

\* Mutant: the signature is used as soon as the transfer is sent.
Confirm_Optimistic(b) ==
  /\ pc[b] = "sending"
  /\ Goto(b, "sent")
  /\ UNCHANGED <<ledger, payout, transfer, covers, faults, history>>

\* It returns the signature of a confirmed transfer and throws on any other
\* end, also when it only lost sight of the transfer.
Confirm(b) ==
  /\ pc[b] = "sending"
  /\ \/ transfer[mine[b]] = "landed" /\ Goto(b, "sent") /\ UNCHANGED unheard
     \/ transfer[mine[b]] = "dropped" /\ Goto(b, "failing") /\ UNCHANGED unheard
     \/ /\ transfer[mine[b]] \in {"flying", "landed"}
        /\ Cardinality(unheard) < MaxTimeouts
        /\ unheard' = unheard \cup {mine[b]}
        /\ Goto(b, "failing")
  /\ UNCHANGED <<ledger, payout, transfer, covers, faults, stale>>

-----------------------------------------------------------------------------
(* Bookkeeping of a sent payout: every call may throw, applied or not *)

MarkSubmitted(b) ==
  /\ pc[b] = "sent"
  /\ \/ payout' = SetStatus(b, "submitted") /\ Goto(b, "submitted") /\ UNCHANGED faults
     \/ Fault /\ payout' \in {payout, SetStatus(b, "submitted")} /\ Goto(b, "recording")
  /\ UNCHANGED <<ledger, transfer, covers, history>>

MarkPaidOf(E) == [e \in Entry |-> IF e \in E THEN "paid" ELSE ledger[e]]

\* Mutant: whatever is claimable now is marked.
MarkedPaid_Claimable(b) == MarkPaidOf(Claimable)

\* markLedgerPaid updates the listed ids, whatever their status is now.
MarkedPaid(b) == MarkPaidOf(listed[b])

MarkLedgerPaid(b) ==
  /\ pc[b] = "submitted"
  /\ \/ ledger' = MarkedPaid(b) /\ Goto(b, "paid") /\ UNCHANGED faults
     \/ Fault /\ ledger' \in {ledger, MarkedPaid(b)} /\ Goto(b, "recording")
  /\ UNCHANGED <<payout, transfer, covers, history>>

MarkConfirmed(b) ==
  /\ pc[b] = "paid"
  /\ \/ payout' = SetStatus(b, "confirmed") /\ Goto(b, "confirmed") /\ UNCHANGED faults
     \/ Fault /\ payout' \in {payout, SetStatus(b, "confirmed")} /\ Goto(b, "recording")
  /\ UNCHANGED <<ledger, transfer, covers, history>>

\* The closing getSummary is inside the try as well.
Report(b) ==
  /\ pc[b] = "confirmed"
  /\ \/ Leave(b) /\ UNCHANGED faults
     \/ Fault /\ Goto(b, "recording")
  /\ UNCHANGED <<ledger, payout, transfer, covers, history>>

\* Mutant: every failed claim closes its payout.
CaughtStatus_Failed(b) == "failed"

\* The catch: a payout whose signature is known stays open.
CaughtStatus(b) == IF pc[b] = "recording" THEN "submitted" ELSE "failed"

Record(b) ==
  /\ pc[b] \in {"failing", "recording"}
  /\ \/ payout' = SetStatus(b, CaughtStatus(b)) /\ UNCHANGED faults
     \/ Fault /\ payout' \in {payout, SetStatus(b, CaughtStatus(b))}
  /\ Leave(b)
  /\ UNCHANGED <<ledger, transfer, covers, history>>

-----------------------------------------------------------------------------
(* Environment *)

\* A trade, a collected platform fee or a manual adjustment.
Accrue(e) ==
  /\ ledger[e] = "none"
  /\ ledger' = [ledger EXCEPT ![e] = "claimable"]
  /\ UNCHANGED <<payout, transfer, covers, local, faults, history>>

\* The chain confirms the transfer, or it can never execute.
Decide(p) ==
  /\ transfer[p] = "flying"
  /\ transfer' \in {[transfer EXCEPT ![p] = "landed"], [transfer EXCEPT ![p] = "dropped"]}
  /\ UNCHANGED <<ledger, payout, covers, local, faults, history>>

Crash(b) ==
  /\ pc[b] # "idle"
  /\ Fault
  /\ Leave(b)
  /\ UNCHANGED <<ledger, payout, transfer, covers, history>>

-----------------------------------------------------------------------------
Step(b) ==
  \/ Refuse(b) \/ List(b) \/ CreateRefused(b) \/ \E p \in Payout : Create(b, p)
  \/ Send(b) \/ Confirm(b)
  \/ MarkSubmitted(b) \/ MarkLedgerPaid(b) \/ MarkConfirmed(b) \/ Report(b) \/ Record(b)

Next ==
  \/ \E b \in Bot : SeeBalance(b) \/ SeeNoOpenPayout(b) \/ Step(b) \/ Crash(b)
  \/ \E e \in Entry : Accrue(e)
  \/ \E p \in Payout : Decide(p)

Spec == Init /\ [][Next]_vars

-----------------------------------------------------------------------------
(* Properties *)

\* An entry is marked paid only for SOL that arrived: whatever overlapping
\* claims, crashes and database errors do, the user never loses a balance.
PaidEntriesWereTransferred ==
  \A e \in Entry : ledger[e] = "paid" =>
    \E p \in Payout : e \in covers[p] /\ transfer[p] = "landed"

\* The payout table can be trusted as far as it goes: the reconciliation report
\* counts submitted and confirmed payouts as paid, and they are; a confirmed
\* payout has left none of its entries claimable.
ReportedPayoutsArePaid ==
  \A p \in Payout :
    /\ payout[p].status \in {"submitted", "confirmed"} => transfer[p] = "landed"
    /\ payout[p].status = "confirmed" => \A e \in covers[p] : ledger[e] = "paid"

\* No entry is paid out by two transfers, whatever the processes, crashes and
\* failed calls: a claim that stops half-way leaves its payout open, and an open
\* payout blocks the next claim. Two kinds of payout may repeat an earlier one:
\* one whose send threw although it landed is recorded as failed, which frees its
\* entries; and one may be created from a list that another process has settled
\* meanwhile.
LandedPayouts == {p \in Payout : transfer[p] = "landed"}
EntriesPaidOnce ==
  \A p, q \in LandedPayouts \ (unheard \cup stale) : p # q => covers[p] \cap covers[q] = {}

\* SOL that left for entries still claimable is accounted for by an open payout,
\* whatever happened to the process that sent it, unless the send itself threw.
Started(p) == transfer[p] \in {"flying", "landed"}
UnsettledPayoutStaysOpen ==
  \A p \in Payout \ unheard :
    Started(p) /\ (\E e \in covers[p] : ledger[e] = "claimable") => Open(p)

-----------------------------------------------------------------------------
(* The inductive invariants *)

HasPayout == {"created", "sending", "sent", "submitted", "paid", "confirmed", "failing", "recording"}
KnowsLanded == {"sent", "submitted", "paid", "confirmed", "recording"}

\* A payout row before and after its creation, whoever works on it.
PayoutInv(p) ==
  /\ payout[p].status = "none" => transfer[p] = "none" /\ covers[p] = {}
  /\ payout[p].status \in {"submitted", "confirmed"} => transfer[p] = "landed"
  /\ payout[p].status = "confirmed" => \A e \in covers[p] : ledger[e] = "paid"
  /\ \A e \in covers[p] : ledger[e] # "none"

ClaimInv(b) ==
  /\ \A e \in listed[b] : ledger[e] # "none"
  /\ pc[b] \in HasPayout =>
       /\ mine[b] \in Payout
       /\ payout[mine[b]].status # "none"
       /\ covers[mine[b]] = listed[b]
  /\ pc[b] = "created" => transfer[mine[b]] = "none"
  /\ pc[b] \in KnowsLanded => transfer[mine[b]] = "landed"
  /\ pc[b] \in {"paid", "confirmed"} => \A e \in listed[b] : ledger[e] = "paid"

OwnPayout ==
  \A b, c \in Bot :
    b # c /\ pc[b] \in HasPayout /\ pc[c] \in HasPayout => mine[b] # mine[c]

ClaimsInv ==
  /\ \A p \in Payout : PayoutInv(p)
  /\ \A b \in Bot : ClaimInv(b)
  /\ OwnPayout
  /\ \A e \in Entry : ledger[e] = "paid" =>
       \E p \in Payout : e \in covers[p] /\ transfer[p] = "landed"

\* Until its entries are marked paid a payout stays open, and a send known to
\* have failed has moved nothing.
OpenClaimInv(b) ==
  /\ pc[b] \in {"created", "sending", "sent", "submitted"} => Open(mine[b])
  /\ pc[b] = "failing" => ~Started(mine[b]) \/ mine[b] \in unheard

\* Payouts that were created from a current list and whose end is heard of.
Sound == Payout \ (unheard \cup stale)
Distinct ==
  \A p, q \in Sound :
    p # q /\ (Open(p) \/ Started(p)) /\ (Open(q) \/ Started(q)) => covers[p] \cap covers[q] = {}

PaidOnceInv ==
  /\ \A b \in Bot : OpenClaimInv(b)
  /\ UnsettledPayoutStaysOpen
  /\ Distinct

\* With one process nobody settles what it has listed.
OneProcess == \A b, c \in Bot : b = c
ListIsCurrent ==
  /\ \A b \in Bot : pc[b] = "listed" => listed[b] \subseteq Claimable
  /\ stale = {}
=============================================================================
