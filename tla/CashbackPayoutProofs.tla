------------------------ MODULE CashbackPayoutProofs ------------------------
(***************************************************************************)
(* Nothing is marked paid without SOL having arrived, and no entry is paid *)
(* twice but by a payout whose end was not heard of or whose list was out  *)
(* of date, for any number of processes, entries, payouts and faults.      *)
(***************************************************************************)
EXTENDS CashbackPayout, TLAPS

-----------------------------------------------------------------------------
(* Types *)

\* What the sum of a listing may be: a set, whatever the lamports are.
Sum == {0} \cup {Balance(E) : E \in SUBSET Entry}
Paying == [status : PayoutStatus, amount : Sum]

Shape ==
  /\ ledger \in [Entry -> LedgerStatus]
  /\ payout \in [Payout -> Paying]
  /\ transfer \in [Payout -> Fate]
  /\ covers \in [Payout -> SUBSET Entry]
  /\ pc \in [Bot -> Control]
  /\ listed \in [Bot -> SUBSET Entry]
  /\ mine \in [Bot -> Payout \cup {NoPayout}]

\* An update of a payout's status changes nothing else.
LEMMA StatusSet ==
  ASSUME Shape, NEW b \in Bot, NEW status \in PayoutStatus
  PROVE  /\ SetStatus(b, status) \in [Payout -> Paying]
         /\ \A p \in Payout : SetStatus(b, status)[p].status =
              IF p = mine[b] THEN status ELSE payout[p].status
<1>1. ASSUME NEW p \in Payout
      PROVE  /\ [payout[p] EXCEPT !.status = status] \in Paying
             /\ [payout[p] EXCEPT !.status = status].status = status
  BY DEF Shape, Paying
<1> QED
  BY <1>1 DEF Shape, SetStatus

LEMMA ShapeStep == Shape /\ [Next]_vars => Shape'
<1> SUFFICES ASSUME Shape, [Next]_vars PROVE Shape'
  OBVIOUS
<1> USE DEF Shape, Control, LedgerStatus, Fate
<1>1. ASSUME NEW b \in Bot, SeeBalance(b) \/ SeeNoOpenPayout(b) PROVE Shape'
  BY <1>1 DEF SeeBalance, SeeNoOpenPayout, Goto
<1>2. ASSUME NEW b \in Bot, Refuse(b) \/ CreateRefused(b) \/ Report(b) \/ Crash(b) PROVE Shape'
  BY <1>2 DEF Refuse, CreateRefused, Report, Crash, Leave, Goto
<1>3. ASSUME NEW b \in Bot, List(b) PROVE Shape'
  BY <1>3 DEF List, Claimable
<1>4. ASSUME NEW b \in Bot, NEW p \in Payout, Create(b, p) PROVE Shape'
  <2>1. [status |-> "pending", amount |-> Balance(listed[b])] \in Paying
    BY DEF Paying, PayoutStatus, Sum
  <2>2. payout' \in [Payout -> Paying] /\ covers' \in [Payout -> SUBSET Entry]
    BY <1>4, <2>1 DEF Create
  <2>3. /\ pc' \in [Bot -> Control] /\ listed' \in [Bot -> SUBSET Entry]
        /\ mine' \in [Bot -> Payout \cup {NoPayout}]
    BY <1>4 DEF Create, Leave
  <2> QED
    BY <1>4, <2>2, <2>3 DEF Create
<1>5. ASSUME NEW b \in Bot, Send(b) \/ Confirm(b) PROVE Shape'
  BY <1>5 DEF Send, Confirm, Goto
<1>6. ASSUME NEW b \in Bot, MarkSubmitted(b) \/ MarkConfirmed(b) PROVE Shape'
  <2>1. payout' \in [Payout -> Paying]
    BY <1>6, StatusSet DEF MarkSubmitted, MarkConfirmed, PayoutStatus
  <2> QED
    BY <1>6, <2>1 DEF MarkSubmitted, MarkConfirmed, Goto
<1>7. ASSUME NEW b \in Bot, MarkLedgerPaid(b) PROVE Shape'
  <2>1. ledger' \in [Entry -> LedgerStatus]
    BY <1>7 DEF MarkLedgerPaid, MarkedPaid, MarkPaidOf
  <2> QED
    BY <1>7, <2>1 DEF MarkLedgerPaid, Goto
<1>8. ASSUME NEW b \in Bot, Record(b) PROVE Shape'
  <2>1. payout' \in [Payout -> Paying]
    BY <1>8, StatusSet DEF Record, CaughtStatus, PayoutStatus
  <2> QED
    BY <1>8, <2>1 DEF Record, Leave
<1>9. ASSUME NEW e \in Entry, Accrue(e) PROVE Shape'
  BY <1>9 DEF Accrue, local
<1>10. ASSUME NEW p \in Payout, Decide(p) PROVE Shape'
  BY <1>10 DEF Decide, local
<1>11. CASE UNCHANGED vars
  BY <1>11 DEF vars
<1> QED
  BY <1>1, <1>2, <1>3, <1>4, <1>5, <1>6, <1>7, <1>8, <1>9, <1>10, <1>11 DEF Next, Step

-----------------------------------------------------------------------------
(* Paid entries, any number of processes *)

Others(b) ==
  \A c \in Bot : c # b => pc'[c] = pc[c] /\ listed'[c] = listed[c] /\ mine'[c] = mine[c]

\* A step of one process that keeps the tables.
LEMMA TablesKept ==
  ASSUME ClaimsInv, UNCHANGED <<ledger, payout, transfer, covers>>, NEW b \in Bot, Others(b),
         ClaimInv(b)',
         pc'[b] \in HasPayout => pc[b] \in HasPayout /\ mine'[b] = mine[b]
  PROVE  ClaimsInv'
<1>1. \A p \in Payout : PayoutInv(p)'
  BY DEF ClaimsInv, PayoutInv
<1>2. \A c \in Bot : ClaimInv(c)'
  BY DEF ClaimsInv, ClaimInv, Others
<1>3. OwnPayout'
  BY DEF ClaimsInv, OwnPayout, Others
<1> QED
  BY <1>1, <1>2, <1>3 DEF ClaimsInv

\* A step of a process that writes the row of its own payout.
LEMMA OwnRowWritten ==
  ASSUME Shape, ClaimsInv, UNCHANGED <<ledger, transfer, covers>>, NEW b \in Bot, Others(b),
         pc[b] \in HasPayout, NEW m \in Payout, m = mine[b],
         \A p \in Payout : p # m => payout'[p] = payout[p],
         PayoutInv(m)', payout'[m].status # "none",
         ClaimInv(b)',
         pc'[b] \in HasPayout => mine'[b] = mine[b]
  PROVE  ClaimsInv'
<1>1. \A p \in Payout : PayoutInv(p)'
  BY DEF ClaimsInv, PayoutInv
<1>2. ASSUME NEW c \in Bot PROVE ClaimInv(c)'
  <2>1. CASE c # b
    BY <2>1 DEF ClaimsInv, ClaimInv, OwnPayout, Others
  <2> QED
    BY <2>1
<1>3. OwnPayout'
  BY DEF ClaimsInv, OwnPayout, Others
<1> QED
  BY <1>1, <1>2, <1>3 DEF ClaimsInv

LEMMA CreateKeeps ==
  ASSUME Shape, ClaimsInv, NEW b \in Bot, NEW p \in Payout, Create(b, p)
  PROVE  ClaimsInv'
<1>1. /\ payout[p].status = "none" /\ transfer[p] = "none" /\ pc[b] = "listed"
      /\ payout'[p].status = "pending"
      /\ covers'[p] = listed[b]
      /\ \A q \in Payout : q # p => payout'[q] = payout[q] /\ covers'[q] = covers[q]
      /\ UNCHANGED <<ledger, transfer>>
      /\ Others(b)
  BY DEF Shape, ClaimsInv, PayoutInv, Create, Others, Leave
<1>2. ASSUME NEW q \in Payout PROVE PayoutInv(q)'
  BY <1>1 DEF ClaimsInv, PayoutInv, ClaimInv
<1>3. \/ pc'[b] = "created" /\ mine'[b] = p /\ listed'[b] = listed[b]
      \/ pc'[b] = "idle" /\ listed'[b] = {}
  BY DEF Create, Leave, Shape
<1>4. ASSUME NEW c \in Bot PROVE ClaimInv(c)'
  <2>1. CASE c # b
    BY <1>1, <2>1 DEF ClaimsInv, ClaimInv, Others
  <2>2. CASE c = b
    BY <1>1, <1>3, <2>2 DEF ClaimsInv, ClaimInv, HasPayout, KnowsLanded
  <2> QED
    BY <2>1, <2>2
<1>5. OwnPayout'
  BY <1>1, <1>3 DEF ClaimsInv, ClaimInv, OwnPayout, Others, HasPayout
<1>6. \A e \in Entry : ledger'[e] = "paid" =>
        \E q \in Payout : e \in covers'[q] /\ transfer'[q] = "landed"
  BY <1>1 DEF ClaimsInv
<1> QED
  BY <1>2, <1>4, <1>5, <1>6 DEF ClaimsInv

LEMMA SendKeeps ==
  ASSUME Shape, ClaimsInv, NEW b \in Bot, Send(b)
  PROVE  ClaimsInv'
<1>1. /\ pc[b] = "created" /\ mine[b] \in Payout /\ transfer[mine[b]] = "none"
      /\ payout[mine[b]].status # "none"
      /\ pc'[b] \in {"failing", "sending"} /\ UNCHANGED <<listed, mine>> /\ Others(b)
      /\ UNCHANGED <<ledger, payout, covers>>
      /\ \A q \in Payout : q # mine[b] => transfer'[q] = transfer[q]
  BY DEF Shape, ClaimsInv, ClaimInv, Send, Goto, Others, HasPayout
<1>2. \A q \in Payout : PayoutInv(q)'
  BY <1>1 DEF ClaimsInv, PayoutInv
<1>3. ASSUME NEW c \in Bot PROVE ClaimInv(c)'
  BY <1>1 DEF ClaimsInv, ClaimInv, OwnPayout, Others, HasPayout, KnowsLanded
<1>4. OwnPayout'
  BY <1>1 DEF ClaimsInv, OwnPayout, Others, HasPayout
<1>5. \A e \in Entry : ledger'[e] = "paid" =>
        \E q \in Payout : e \in covers'[q] /\ transfer'[q] = "landed"
  BY <1>1 DEF ClaimsInv
<1> QED
  BY <1>2, <1>3, <1>4, <1>5 DEF ClaimsInv

\* The entries of a claim whose transfer landed are marked paid.
LEMMA MarkKeeps ==
  ASSUME Shape, ClaimsInv, NEW b \in Bot, MarkLedgerPaid(b)
  PROVE  ClaimsInv'
<1>1. /\ pc[b] = "submitted" /\ mine[b] \in Payout /\ transfer[mine[b]] = "landed"
      /\ covers[mine[b]] = listed[b]
      /\ payout[mine[b]].status # "none"
      /\ UNCHANGED <<payout, transfer, covers, listed, mine>> /\ Others(b)
      /\ \/ ledger' = MarkPaidOf(listed[b]) /\ pc'[b] \in {"paid", "recording"}
         \/ UNCHANGED ledger /\ pc'[b] = "recording"
  BY DEF Shape, ClaimsInv, ClaimInv, MarkLedgerPaid, MarkedPaid, Goto, Others, HasPayout, KnowsLanded
<1>2. \A e \in Entry :
        /\ ledger[e] # "none" => ledger'[e] # "none"
        /\ ledger[e] = "paid" => ledger'[e] = "paid"
        /\ ledger'[e] = "paid" => ledger[e] = "paid" \/ e \in listed[b]
        /\ pc'[b] = "paid" /\ e \in listed[b] => ledger'[e] = "paid"
  BY <1>1 DEF MarkPaidOf, Shape
<1>3. \A q \in Payout : PayoutInv(q)'
  BY <1>1, <1>2 DEF ClaimsInv, PayoutInv, Shape
<1>4. ASSUME NEW c \in Bot PROVE ClaimInv(c)'
  <2>1. listed[c] \subseteq Entry
    BY DEF Shape
  <2>2. CASE c # b
    BY <1>1, <1>2, <2>1, <2>2 DEF ClaimsInv, ClaimInv, Others
  <2>3. CASE c = b
    BY <1>1, <1>2, <2>1, <2>3 DEF ClaimsInv, ClaimInv, HasPayout, KnowsLanded
  <2> QED
    BY <2>2, <2>3
<1>5. OwnPayout'
  BY <1>1 DEF ClaimsInv, OwnPayout, Others, HasPayout
<1>6. \A e \in Entry : ledger'[e] = "paid" =>
        \E q \in Payout : e \in covers'[q] /\ transfer'[q] = "landed"
  BY <1>1, <1>2 DEF ClaimsInv
<1> QED
  BY <1>3, <1>4, <1>5, <1>6 DEF ClaimsInv

\* The three updates of a payout's status.
LEMMA StatusKeeps ==
  ASSUME Shape, ClaimsInv, NEW b \in Bot, MarkSubmitted(b) \/ MarkConfirmed(b) \/ Record(b)
  PROVE  ClaimsInv'
<1>1. PICK m \in Payout : m = mine[b] /\ payout[m].status # "none" /\ covers[m] = listed[b]
  BY DEF ClaimsInv, ClaimInv, HasPayout, MarkSubmitted, MarkConfirmed, Record
<1>2. /\ pc[b] \in HasPayout /\ UNCHANGED <<ledger, transfer, covers>> /\ Others(b)
      /\ PayoutInv(m)
  BY DEF ClaimsInv, HasPayout, Others, MarkSubmitted, MarkConfirmed, Record, Goto, Leave, Shape
<1>3. CASE MarkSubmitted(b)
  <2>1. /\ transfer[m] = "landed"
        /\ payout' \in {payout, SetStatus(b, "submitted")}
        /\ pc'[b] \in {"submitted", "recording"} /\ UNCHANGED <<listed, mine>>
    BY <1>1, <1>3 DEF MarkSubmitted, Goto, Shape, ClaimsInv, ClaimInv, KnowsLanded
  <2>2. /\ \A p \in Payout : p # m => payout'[p] = payout[p]
        /\ payout'[m].status \in {payout[m].status, "submitted"}
    BY <1>1, <2>1 DEF SetStatus, Shape, Paying
  <2>3. PayoutInv(m)'
    BY <1>2, <2>1, <2>2 DEF PayoutInv
  <2>4. ClaimInv(b)'
    BY <1>1, <1>2, <2>1, <2>2 DEF ClaimsInv, ClaimInv, HasPayout, KnowsLanded
  <2> QED
    BY <1>1, <1>2, <2>1, <2>2, <2>3, <2>4, OwnRowWritten
<1>4. CASE MarkConfirmed(b)
  <2>1. /\ transfer[m] = "landed" /\ \A e \in covers[m] : ledger[e] = "paid"
        /\ payout' \in {payout, SetStatus(b, "confirmed")}
        /\ pc'[b] \in {"confirmed", "recording"} /\ UNCHANGED <<listed, mine>>
    BY <1>1, <1>4 DEF MarkConfirmed, Goto, Shape, ClaimsInv, ClaimInv, KnowsLanded
  <2>2. /\ \A p \in Payout : p # m => payout'[p] = payout[p]
        /\ payout'[m].status \in {payout[m].status, "confirmed"}
    BY <1>1, <2>1 DEF SetStatus, Shape, Paying
  <2>3. PayoutInv(m)'
    BY <1>2, <2>1, <2>2 DEF PayoutInv
  <2>4. ClaimInv(b)'
    BY <1>1, <1>2, <2>1, <2>2 DEF ClaimsInv, ClaimInv, HasPayout, KnowsLanded
  <2> QED
    BY <1>1, <1>2, <2>1, <2>2, <2>3, <2>4, OwnRowWritten
<1>5. CASE Record(b)
  <2>1. /\ pc[b] = "recording" => transfer[m] = "landed"
        /\ payout' \in {payout, SetStatus(b, CaughtStatus(b))}
        /\ CaughtStatus(b) = IF pc[b] = "recording" THEN "submitted" ELSE "failed"
        /\ pc'[b] = "idle" /\ listed'[b] = {}
    BY <1>1, <1>5 DEF Record, CaughtStatus, Leave, Shape, ClaimsInv, ClaimInv, KnowsLanded
  <2>2. /\ \A p \in Payout : p # m => payout'[p] = payout[p]
        /\ payout'[m].status \in {payout[m].status, CaughtStatus(b)}
    BY <1>1, <2>1 DEF SetStatus, Shape, Paying
  <2>3. PayoutInv(m)' /\ payout'[m].status # "none"
    BY <1>1, <1>2, <2>1, <2>2 DEF PayoutInv
  <2>4. ClaimInv(b)'
    BY <2>1 DEF ClaimInv, HasPayout, KnowsLanded
  <2>5. pc'[b] \notin HasPayout
    BY <2>1 DEF HasPayout
  <2> QED
    BY <1>1, <1>2, <2>2, <2>3, <2>4, <2>5, OwnRowWritten
<1> QED
  BY <1>3, <1>4, <1>5

LEMMA ClaimsStep == Shape /\ ClaimsInv /\ [Next]_vars => ClaimsInv'
<1> SUFFICES ASSUME Shape, ClaimsInv, [Next]_vars PROVE ClaimsInv'
  OBVIOUS
<1>1. ASSUME NEW b \in Bot,
             SeeBalance(b) \/ SeeNoOpenPayout(b) \/ Refuse(b) \/ List(b) \/ CreateRefused(b) \/ Crash(b)
      PROVE  ClaimsInv'
  <2>1. UNCHANGED <<ledger, payout, transfer, covers>> /\ Others(b)
    BY <1>1 DEF SeeBalance, SeeNoOpenPayout, Refuse, List, CreateRefused, Crash, Goto, Leave, Others, Shape
  <2>2. /\ pc'[b] \in {"idle", "balanceSeen", "payoutsSeen", "summarised", "listed"}
        /\ \/ listed'[b] \in {{}, listed[b]}
           \/ listed'[b] = Claimable
    BY <1>1 DEF SeeBalance, SeeNoOpenPayout, Refuse, List, CreateRefused, Crash, Goto, Leave, Shape
  <2>3. ClaimInv(b)'
    BY <2>1, <2>2 DEF ClaimsInv, ClaimInv, HasPayout, KnowsLanded, Claimable
  <2>4. pc'[b] \notin HasPayout
    BY <2>2 DEF HasPayout
  <2> QED
    BY <2>1, <2>3, <2>4, TablesKept
<1>2. ASSUME NEW b \in Bot, Confirm(b) \/ Report(b) PROVE ClaimsInv'
  <2>1. UNCHANGED <<ledger, payout, transfer, covers>> /\ Others(b)
    BY <1>2 DEF Confirm, Report, Goto, Leave, Others, Shape
  <2>2. /\ pc[b] \in {"sending", "confirmed"}
        /\ \/ /\ UNCHANGED <<listed, mine>> /\ pc'[b] \in {"failing", "sent", "recording"}
              /\ pc'[b] # "failing" => transfer[mine[b]] = "landed"
           \/ pc'[b] = "idle" /\ listed'[b] = {}
    BY <1>2 DEF Confirm, Report, Goto, Leave, Shape, ClaimsInv, ClaimInv, KnowsLanded
  <2>3. ClaimInv(b)'
    BY <2>1, <2>2 DEF ClaimsInv, ClaimInv, HasPayout, KnowsLanded
  <2>4. pc'[b] \in HasPayout => pc[b] \in HasPayout /\ mine'[b] = mine[b]
    BY <2>2 DEF HasPayout
  <2> QED
    BY <2>1, <2>3, <2>4, TablesKept
<1>3. ASSUME NEW b \in Bot, NEW p \in Payout, Create(b, p) PROVE ClaimsInv'
  BY <1>3, CreateKeeps
<1>4. ASSUME NEW b \in Bot, Send(b) PROVE ClaimsInv'
  BY <1>4, SendKeeps
<1>5. ASSUME NEW b \in Bot, MarkLedgerPaid(b) PROVE ClaimsInv'
  BY <1>5, MarkKeeps
<1>6. ASSUME NEW b \in Bot, MarkSubmitted(b) \/ MarkConfirmed(b) \/ Record(b) PROVE ClaimsInv'
  BY <1>6, StatusKeeps
<1>7. ASSUME NEW e \in Entry, Accrue(e) PROVE ClaimsInv'
  <2>1. /\ UNCHANGED <<payout, transfer, covers, pc, listed, mine>>
        /\ ledger[e] = "none" /\ ledger'[e] = "claimable"
        /\ \A f \in Entry : f # e => ledger'[f] = ledger[f]
    BY <1>7 DEF Accrue, local, Shape
  <2>2. \A p \in Payout : PayoutInv(p)'
    BY <2>1 DEF ClaimsInv, PayoutInv, Shape
  <2>3. \A b \in Bot : ClaimInv(b)'
    BY <2>1 DEF ClaimsInv, ClaimInv, Shape
  <2> QED
    BY <2>1, <2>2, <2>3 DEF ClaimsInv, OwnPayout
<1>8. ASSUME NEW p \in Payout, Decide(p) PROVE ClaimsInv'
  <2>1. /\ UNCHANGED <<ledger, payout, covers, pc, listed, mine>>
        /\ transfer[p] = "flying"
        /\ \A q \in Payout : q # p => transfer'[q] = transfer[q]
    BY <1>8 DEF Decide, local, Shape
  <2>2. \A q \in Payout : PayoutInv(q)'
    BY <2>1 DEF ClaimsInv, PayoutInv
  <2>3. \A b \in Bot : ClaimInv(b)'
    BY <2>1 DEF ClaimsInv, ClaimInv, HasPayout, KnowsLanded
  <2>4. \A e \in Entry : ledger'[e] = "paid" =>
          \E q \in Payout : e \in covers'[q] /\ transfer'[q] = "landed"
    BY <2>1 DEF ClaimsInv
  <2> QED
    BY <2>1, <2>2, <2>3, <2>4 DEF ClaimsInv, OwnPayout
<1>9. CASE UNCHANGED vars
  BY <1>9 DEF vars, ClaimsInv, PayoutInv, ClaimInv, OwnPayout
<1> QED
  BY <1>1, <1>2, <1>3, <1>4, <1>5, <1>6, <1>7, <1>8, <1>9 DEF Next, Step

LEMMA InitInv == Init => Shape /\ ClaimsInv
<1> SUFFICES ASSUME Init PROVE Shape /\ ClaimsInv
  OBVIOUS
<1>1. Shape
  BY DEF Init, Shape, LedgerStatus, Paying, PayoutStatus, Sum, Fate, Control
<1>2. ClaimsInv
  BY DEF Init, ClaimsInv, PayoutInv, ClaimInv, OwnPayout, HasPayout, KnowsLanded
<1> QED
  BY <1>1, <1>2

\* Payouts and claims stay in order, whatever the processes and faults.
THEOREM ClaimsInOrder == Spec => [](Shape /\ ClaimsInv)
<1>1. Shape /\ ClaimsInv /\ [Next]_vars => (Shape /\ ClaimsInv)'
  BY ShapeStep, ClaimsStep
<1> QED
  BY InitInv, <1>1, PTL DEF Spec

\* claimCashback marks no entry paid whose SOL has not arrived.
THEOREM NothingLost == Spec => []PaidEntriesWereTransferred
<1>1. ClaimsInv => PaidEntriesWereTransferred
  BY DEF ClaimsInv, PaidEntriesWereTransferred
<1> QED
  BY <1>1, ClaimsInOrder, PTL

\* Payouts reported as paid are paid, and a confirmed one has settled its entries.
THEOREM ReportsAreTrue == Spec => []ReportedPayoutsArePaid
<1>1. ClaimsInv => ReportedPayoutsArePaid
  BY DEF ClaimsInv, PayoutInv, ReportedPayoutsArePaid
<1> QED
  BY <1>1, ClaimsInOrder, PTL

-----------------------------------------------------------------------------
(* Entries paid once, any number of processes *)

\* A step that opens no payout, starts no transfer and makes no covered entry
\* claimable.
NothingOpened ==
  /\ UNCHANGED <<covers, stale>> /\ unheard \subseteq unheard'
  /\ \A p \in Payout : Started(p)' => Started(p) \/ (Open(p) /\ Open(p)')
  /\ \A p \in Payout : Open(p)' => Open(p) \/ Started(p)
  /\ \A p \in Payout : \A e \in covers[p] : ledger'[e] = "claimable" => ledger[e] = "claimable"
  /\ \A p \in Payout \ unheard' : Open(p) /\ Started(p)' =>
       Open(p)' \/ \A e \in covers[p] : ledger'[e] # "claimable"

LEMMA StayApart ==
  ASSUME PaidOnceInv, NothingOpened
  PROVE  UnsettledPayoutStaysOpen' /\ Distinct'
<1>1. Distinct'
  BY DEF NothingOpened, PaidOnceInv, Distinct, Sound
<1>2. UnsettledPayoutStaysOpen'
  BY DEF NothingOpened, PaidOnceInv, UnsettledPayoutStaysOpen
<1> QED
  BY <1>1, <1>2

\* A payout is created when no other is open, so what it covers, if it is
\* claimable, is covered by no payout that is on its way.
LEMMA CreateKeepsPaidOnce ==
  ASSUME Shape, ClaimsInv, PaidOnceInv, NEW b \in Bot, NEW p \in Payout, Create(b, p)
  PROVE  PaidOnceInv'
<1>1. /\ pc[b] = "listed" /\ NoneOpen
      /\ payout[p].status = "none" /\ transfer[p] = "none"
      /\ payout'[p].status = "pending"
      /\ covers'[p] = listed[b]
      /\ \A q \in Payout : q # p => payout'[q] = payout[q] /\ covers'[q] = covers[q]
      /\ UNCHANGED <<ledger, transfer, unheard>>
      /\ stale' = IF listed[b] \subseteq Claimable THEN stale ELSE stale \cup {p}
      /\ \/ pc'[b] = "created" /\ mine'[b] = p
         \/ pc'[b] = "idle"
      /\ Others(b)
  BY DEF Shape, ClaimsInv, PayoutInv, Create, Insertable, Leave, Others
<1>2. ~Started(p)' /\ Open(p)'
  BY <1>1 DEF Started, Open
<1>3. ASSUME NEW c \in Bot PROVE OpenClaimInv(c)'
  <2>1. CASE c = b
    BY <1>1, <1>2, <2>1 DEF OpenClaimInv
  <2>2. CASE c # b
    <3>1. pc[c] \in HasPayout => mine[c] \in Payout /\ mine[c] # p
      BY <1>1 DEF ClaimsInv, ClaimInv
    <3> QED
      BY <1>1, <2>2, <3>1 DEF PaidOnceInv, OpenClaimInv, Others, HasPayout, Open, Started
  <2> QED
    BY <2>1, <2>2
<1>4. UnsettledPayoutStaysOpen'
  BY <1>1, <1>2 DEF PaidOnceInv, UnsettledPayoutStaysOpen, Open, Started
<1>5. ASSUME NEW q \in Sound', q # p, p \in Sound', Open(q)' \/ Started(q)'
      PROVE  covers'[q] \cap covers'[p] = {}
  <2>1. q \in Payout /\ q \notin unheard /\ Started(q) /\ ~Open(q)
    BY <1>1, <1>5 DEF Sound, NoneOpen, Open, Started
  <2>2. \A e \in covers[q] : ledger[e] # "claimable"
    BY <2>1 DEF PaidOnceInv, UnsettledPayoutStaysOpen
  <2>3. listed[b] \subseteq Claimable
    BY <1>1, <1>5 DEF Sound
  <2> QED
    BY <1>1, <1>5, <2>2, <2>3, <2>1 DEF Claimable
<1>6. ASSUME NEW q \in Sound', NEW r \in Sound', q # p, r # p, q # r,
             Open(q)' \/ Started(q)', Open(r)' \/ Started(r)'
      PROVE  covers'[q] \cap covers'[r] = {}
  BY <1>1, <1>6 DEF PaidOnceInv, Distinct, Sound, Open, Started
<1>7. Distinct'
  BY <1>5, <1>6 DEF Distinct
<1> QED
  BY <1>3, <1>4, <1>7 DEF PaidOnceInv

\* A step of one process that writes at most its own row, or none.
LEMMA OthersStayOpen ==
  ASSUME Shape, ClaimsInv, PaidOnceInv, NEW b \in Bot, Others(b), unheard \subseteq unheard',
         \A q \in Payout : q # mine[b] \/ pc[b] \notin HasPayout =>
           payout'[q] = payout[q] /\ transfer'[q] = transfer[q]
  PROVE  \A c \in Bot : c # b => OpenClaimInv(c)'
<1> SUFFICES ASSUME NEW c \in Bot, c # b PROVE OpenClaimInv(c)'
  OBVIOUS
<1>1. pc[c] \in HasPayout => /\ mine[c] \in Payout
                             /\ payout'[mine[c]] = payout[mine[c]]
                             /\ transfer'[mine[c]] = transfer[mine[c]]
  BY DEF ClaimsInv, ClaimInv, OwnPayout
<1> QED
  BY <1>1 DEF PaidOnceInv, OpenClaimInv, Others, HasPayout, Open, Started

LEMMA StatusKeepsPaidOnce ==
  ASSUME Shape, ClaimsInv, PaidOnceInv, NEW b \in Bot,
         MarkSubmitted(b) \/ MarkConfirmed(b) \/ Record(b)
  PROVE  PaidOnceInv'
<1>1. PICK m \in Payout : m = mine[b] /\ covers[m] = listed[b]
  BY DEF ClaimsInv, ClaimInv, HasPayout, MarkSubmitted, MarkConfirmed, Record
<1>2. UNCHANGED <<ledger, transfer, covers, unheard, stale>> /\ Others(b)
  BY DEF MarkSubmitted, MarkConfirmed, Record, history, Goto, Leave, Others, Shape
<1>3. PICK status \in PayoutStatus :
        /\ payout' \in {payout, SetStatus(b, status)}
        /\ pc[b] \in {"sent", "recording"} => status = "submitted"
        /\ pc[b] = "paid" => status = "confirmed"
        /\ pc[b] = "failing" => status = "failed"
        /\ pc[b] \in {"sent", "recording", "paid", "failing"}
        /\ pc'[b] = "submitted" => payout' = SetStatus(b, status)
  BY DEF MarkSubmitted, MarkConfirmed, Record, CaughtStatus, PayoutStatus, Goto, Leave, Shape
<1>4. /\ \A q \in Payout : q # m => payout'[q] = payout[q]
      /\ payout'[m].status \in {payout[m].status, status}
      /\ pc'[b] = "submitted" => payout'[m].status = status
  BY <1>1, <1>3 DEF SetStatus, Shape, Paying
<1>5. \/ pc'[b] = "idle"
      \/ /\ pc'[b] \in {"submitted", "confirmed", "recording"} /\ UNCHANGED <<listed, mine>>
         /\ pc'[b] = "submitted" => pc[b] = "sent"
  BY DEF MarkSubmitted, MarkConfirmed, Record, Goto, Leave, Shape
<1>6. OpenClaimInv(b)'
  BY <1>1, <1>3, <1>4, <1>5 DEF OpenClaimInv, Open
<1>7. \A c \in Bot : c # b => OpenClaimInv(c)'
  BY <1>1, <1>2, <1>3, <1>4, OthersStayOpen DEF HasPayout
<1>8. \A q \in Payout \ unheard' : Open(q) /\ Started(q)' =>
        Open(q)' \/ \A e \in covers[q] : ledger'[e] # "claimable"
  <2>1. Started(m)' = Started(m) /\ (pc[b] = "failing" => ~Started(m) \/ m \in unheard)
    BY <1>1, <1>2 DEF PaidOnceInv, OpenClaimInv, Started
  <2>2. pc[b] = "paid" => \A e \in covers[m] : ledger[e] = "paid"
    BY <1>1 DEF ClaimsInv, ClaimInv
  <2> QED
    BY <1>2, <1>3, <1>4, <2>1, <2>2 DEF Open
<1>9. \A q \in Payout : Open(q)' => Open(q) \/ Started(q)
  <2>1. pc[b] \in {"sent", "recording"} => Started(m)
    BY <1>1 DEF ClaimsInv, ClaimInv, KnowsLanded, Started
  <2> QED
    BY <1>3, <1>4, <2>1 DEF Open
<1>10. UnsettledPayoutStaysOpen' /\ Distinct'
  <2>1. NothingOpened
    BY <1>2, <1>8, <1>9 DEF NothingOpened, Started
  <2> QED
    BY <2>1, StayApart
<1> QED
  BY <1>6, <1>7, <1>10 DEF PaidOnceInv

\* Reading, leaving and marking entries paid: no payout changes.
LEMMA ReadKeepsPaidOnce ==
  ASSUME Shape, ClaimsInv, PaidOnceInv, NEW b \in Bot, Others(b),
         UNCHANGED <<payout, transfer, covers, stale>>,
         \/ UNCHANGED unheard
         \/ pc'[b] = "failing" /\ unheard' = unheard \cup {mine[b]},
         \A e \in Entry : ledger'[e] = "claimable" => ledger[e] = "claimable",
         OpenClaimInv(b)'
  PROVE  PaidOnceInv'
<1>1. \A c \in Bot : c # b => OpenClaimInv(c)'
  BY OthersStayOpen
<1>2. UnsettledPayoutStaysOpen' /\ Distinct'
  <2>1. \A p \in Payout : covers[p] \subseteq Entry
    BY DEF Shape
  <2>2. NothingOpened
    BY <2>1 DEF NothingOpened, Started, Open
  <2> QED
    BY <2>2, StayApart
<1> QED
  BY <1>1, <1>2 DEF PaidOnceInv

LEMMA PaidOnceStep == Shape /\ ClaimsInv /\ PaidOnceInv /\ [Next]_vars => PaidOnceInv'
<1> SUFFICES ASSUME Shape, ClaimsInv, PaidOnceInv, [Next]_vars PROVE PaidOnceInv'
  OBVIOUS
<1>1. ASSUME NEW b \in Bot,
             SeeBalance(b) \/ SeeNoOpenPayout(b) \/ Refuse(b) \/ List(b) \/ CreateRefused(b)
             \/ Crash(b) \/ Report(b)
      PROVE  PaidOnceInv'
  <2>1. UNCHANGED <<ledger, payout, transfer, covers, unheard, stale>> /\ Others(b)
    BY <1>1 DEF SeeBalance, SeeNoOpenPayout, Refuse, List, CreateRefused, Crash, Report, history,
       Goto, Leave, Others, Shape
  <2>2. pc'[b] \in {"idle", "balanceSeen", "payoutsSeen", "summarised", "listed", "recording"}
    BY <1>1 DEF SeeBalance, SeeNoOpenPayout, Refuse, List, CreateRefused, Crash, Report, Goto, Leave, Shape
  <2>3. OpenClaimInv(b)'
    BY <2>2 DEF OpenClaimInv
  <2> QED
    BY <2>1, <2>3, ReadKeepsPaidOnce
<1>2. ASSUME NEW b \in Bot, NEW p \in Payout, Create(b, p) PROVE PaidOnceInv'
  BY <1>2, CreateKeepsPaidOnce
<1>3. ASSUME NEW b \in Bot, Send(b) PROVE PaidOnceInv'
  <2>1. PICK m \in Payout :
          /\ m = mine[b] /\ mine'[b] = m /\ pc[b] = "created" /\ transfer[m] = "none" /\ Others(b)
          /\ UNCHANGED <<ledger, payout, covers, unheard, stale>>
          /\ \A q \in Payout : q # m => transfer'[q] = transfer[q]
          /\ \/ pc'[b] = "failing" /\ transfer'[m] = "none"
             \/ pc'[b] = "sending" /\ transfer'[m] = "flying"
    BY <1>3 DEF Shape, ClaimsInv, ClaimInv, Send, Goto, HasPayout, Others, history
  <2>2. Open(m) /\ Open(m)'
    BY <2>1 DEF PaidOnceInv, OpenClaimInv, Open
  <2>3. OpenClaimInv(b)'
    BY <2>1, <2>2 DEF OpenClaimInv, Started
  <2>4. \A c \in Bot : c # b => OpenClaimInv(c)'
    BY <2>1, OthersStayOpen DEF HasPayout
  <2>5. UnsettledPayoutStaysOpen' /\ Distinct'
    <3>1. NothingOpened
      BY <2>1, <2>2 DEF NothingOpened, Started, Open
    <3> QED
      BY <3>1, StayApart
  <2> QED
    BY <2>3, <2>4, <2>5 DEF PaidOnceInv
<1>4. ASSUME NEW b \in Bot, Confirm(b) PROVE PaidOnceInv'
  <2>1. /\ UNCHANGED <<ledger, payout, transfer, covers, mine, listed, stale>> /\ pc[b] = "sending"
        /\ Others(b)
        /\ \/ pc'[b] = "sent" /\ UNCHANGED unheard
           \/ pc'[b] = "failing" /\ transfer[mine[b]] = "dropped" /\ UNCHANGED unheard
           \/ pc'[b] = "failing" /\ unheard' = unheard \cup {mine[b]}
    BY <1>4 DEF Confirm, Goto, Shape, Others
  <2>2. OpenClaimInv(b)'
    BY <2>1 DEF PaidOnceInv, OpenClaimInv, Open, Started
  <2> QED
    BY <2>1, <2>2, ReadKeepsPaidOnce
<1>5. ASSUME NEW b \in Bot, MarkLedgerPaid(b) PROVE PaidOnceInv'
  <2>1. /\ UNCHANGED <<payout, transfer, covers, mine, listed, unheard, stale>> /\ pc[b] = "submitted"
        /\ Others(b) /\ pc'[b] \in {"paid", "recording"}
        /\ \A e \in Entry : ledger'[e] = "claimable" => ledger[e] = "claimable"
    BY <1>5 DEF MarkLedgerPaid, MarkedPaid, MarkPaidOf, Goto, Shape, Others, history
  <2>2. OpenClaimInv(b)'
    BY <2>1 DEF OpenClaimInv
  <2> QED
    BY <2>1, <2>2, ReadKeepsPaidOnce
<1>6. ASSUME NEW b \in Bot, MarkSubmitted(b) \/ MarkConfirmed(b) \/ Record(b) PROVE PaidOnceInv'
  BY <1>6, StatusKeepsPaidOnce
<1>7. ASSUME NEW e \in Entry, Accrue(e) PROVE PaidOnceInv'
  <2>1. /\ UNCHANGED <<payout, transfer, covers, pc, listed, mine, unheard, stale>>
        /\ ledger[e] = "none"
        /\ \A f \in Entry : f # e => ledger'[f] = ledger[f]
    BY <1>7 DEF Accrue, local, history, Shape
  <2>2. \A p \in Payout : \A f \in covers[p] : f # e /\ f \in Entry
    BY <2>1 DEF ClaimsInv, PayoutInv, Shape
  <2>3. \A b \in Bot : OpenClaimInv(b)'
    BY <2>1 DEF PaidOnceInv, OpenClaimInv, Open, Started
  <2>4. UnsettledPayoutStaysOpen' /\ Distinct'
    <3>1. NothingOpened
      BY <2>1, <2>2 DEF NothingOpened, Started, Open
    <3> QED
      BY <3>1, StayApart
  <2> QED
    BY <2>3, <2>4 DEF PaidOnceInv
<1>8. ASSUME NEW p \in Payout, Decide(p) PROVE PaidOnceInv'
  <2>1. /\ UNCHANGED <<ledger, payout, covers, pc, listed, mine, unheard, stale>>
        /\ transfer[p] = "flying"
        /\ \A q \in Payout : q # p => transfer'[q] = transfer[q]
    BY <1>8 DEF Decide, local, history, Shape
  <2>2. \A q \in Payout : Started(q)' => Started(q)
    BY <2>1 DEF Started
  <2>3. ASSUME NEW b \in Bot PROVE OpenClaimInv(b)'
    <3>1. pc[b] = "failing" => mine[b] \in Payout
      BY DEF ClaimsInv, ClaimInv, HasPayout
    <3> QED
      BY <2>1, <2>2, <3>1 DEF PaidOnceInv, OpenClaimInv, Open
  <2>4. UnsettledPayoutStaysOpen' /\ Distinct'
    <3>1. NothingOpened
      BY <2>1, <2>2 DEF NothingOpened, Open
    <3> QED
      BY <3>1, StayApart
  <2> QED
    BY <2>3, <2>4 DEF PaidOnceInv
<1>9. CASE UNCHANGED vars
  BY <1>9 DEF vars, PaidOnceInv, OpenClaimInv, UnsettledPayoutStaysOpen, Distinct, Sound, Started, Open
<1> QED
  BY <1>1, <1>2, <1>3, <1>4, <1>5, <1>6, <1>7, <1>8, <1>9 DEF Next, Step

\* Payouts stay open and apart, whatever the processes, crashes and database
\* errors.
THEOREM PayoutsApart == Spec => [](Shape /\ ClaimsInv /\ PaidOnceInv)
<1>1. Init => PaidOnceInv
  BY DEF Init, PaidOnceInv, OpenClaimInv, UnsettledPayoutStaysOpen, Distinct, Sound, Started, Open
<1>2. (Shape /\ ClaimsInv /\ PaidOnceInv) /\ [Next]_vars => (Shape /\ ClaimsInv /\ PaidOnceInv)'
  BY ShapeStep, ClaimsStep, PaidOnceStep
<1> QED
  BY InitInv, <1>1, <1>2, PTL DEF Spec

\* claimCashback pays no entry twice, but by a payout whose send threw although
\* it landed or one created from a list another process had settled.
THEOREM PaidOnce == Spec => []EntriesPaidOnce
<1>1. PaidOnceInv => EntriesPaidOnce
  BY DEF PaidOnceInv, Distinct, Sound, EntriesPaidOnce, LandedPayouts, Started
<1> QED
  BY <1>1, PayoutsApart, PTL

\* SOL on its way, or arrived, for entries that can still be claimed is held
\* against the next claim by an open payout, unless its send threw.
THEOREM OpenUntilSettled == Spec => []UnsettledPayoutStaysOpen
<1>1. PaidOnceInv => UnsettledPayoutStaysOpen
  BY DEF PaidOnceInv
<1> QED
  BY <1>1, PayoutsApart, PTL

-----------------------------------------------------------------------------
(* One process, as README.md:95 asks for *)

LEMMA ListStep ==
  ASSUME OneProcess, Shape, ListIsCurrent, [Next]_vars
  PROVE  ListIsCurrent'
<1>1. ASSUME NEW b \in Bot, SeeBalance(b) \/ SeeNoOpenPayout(b) \/ Step(b) \/ Crash(b)
      PROVE  ListIsCurrent'
  <2>1. \A c \in Bot : c = b
    BY DEF OneProcess
  <2>2. pc'[b] = "listed" => List(b)
    BY <1>1 DEF SeeBalance, SeeNoOpenPayout, Step, Crash, Refuse, CreateRefused, Create, Send, Confirm,
       MarkSubmitted, MarkLedgerPaid, MarkConfirmed, Report, Record, Goto, Leave, Shape
  <2>3. List(b) => listed'[b] = Claimable /\ Claimable' = Claimable
    BY DEF List, Claimable, Shape
  <2>4. stale' = {}
    BY <1>1 DEF ListIsCurrent, SeeBalance, SeeNoOpenPayout, Step, Crash, Refuse, List, CreateRefused,
       Create, Send, Confirm, MarkSubmitted, MarkLedgerPaid, MarkConfirmed, Report, Record, history
  <2> QED
    BY <2>1, <2>2, <2>3, <2>4 DEF ListIsCurrent
<1>2. ASSUME NEW e \in Entry, Accrue(e) PROVE ListIsCurrent'
  BY <1>2 DEF Accrue, local, history, ListIsCurrent, Claimable, Shape
<1>3. ASSUME NEW p \in Payout, Decide(p) PROVE ListIsCurrent'
  BY <1>3 DEF Decide, local, history, ListIsCurrent, Claimable
<1>4. CASE UNCHANGED vars
  BY <1>4 DEF vars, ListIsCurrent, Claimable
<1> QED
  BY <1>1, <1>2, <1>3, <1>4 DEF Next

\* In the one running instance the README asks for, no list is out of date: the
\* only payouts that may repeat an entry are those whose send threw.
THEOREM OneProcessRepeatsNothing ==
  ASSUME OneProcess
  PROVE  Spec => []( /\ stale = {}
                     /\ \A p, q \in LandedPayouts \ unheard : p # q => covers[p] \cap covers[q] = {})
<1>1. Init => Shape /\ ListIsCurrent
  BY InitInv DEF Init, ListIsCurrent
<1>2. (Shape /\ ListIsCurrent) /\ [Next]_vars => (Shape /\ ListIsCurrent)'
  BY OneProcess, ShapeStep, ListStep
<1>3. ListIsCurrent /\ EntriesPaidOnce =>
        /\ stale = {}
        /\ \A p, q \in LandedPayouts \ unheard : p # q => covers[p] \cap covers[q] = {}
  BY DEF ListIsCurrent, EntriesPaidOnce
<1> QED
  BY <1>1, <1>2, <1>3, PaidOnce, PTL DEF Spec
=============================================================================
