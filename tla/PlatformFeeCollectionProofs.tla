-------------------- MODULE PlatformFeeCollectionProofs --------------------
(***************************************************************************)
(* Safety of the platform-fee collection for every set of rows, of         *)
(* collectors and of tokens, and every bound.  IInv is inductive:          *)
(* an update either reaches its row, and then only because its collector   *)
(* still holds the lease, or changes nothing.                              *)
(***************************************************************************)
EXTENDS PlatformFeeCollection, TLAPS

\* What no step takes back: persisted bytes, a sent transfer, a confirmation.
Keeps(r) ==
  /\ row[r].transaction # NoTx => row'[r].transaction = row[r].transaction
  /\ wire[r] \subseteq wire'[r]
  /\ \A t \in Tx : chain[t] = "landed" => chain'[t] = "landed"

SameLocals(d) ==
  pc'[d] = pc[d] /\ job'[d] = job[d] /\ entry'[d] = entry[d] /\ transfer'[d] = transfer[d]

\* A collector that still holds the lease after the step sees the bytes it knows.
SeesItsBytes(d) ==
  pc[d] \in {"claimed", "prepared"} /\ Held(d)' => row'[job[d]].transaction = entry[d].transaction

\* A collector at rest during a step keeps its invariant, whatever others did.
LEMMA BystanderInv ==
  ASSUME IInv, NEW d \in Collector, SameLocals(d), SeesItsBytes(d),
         \A r \in Row : Keeps(r)
  PROVE  CollectorInv(d)'
<1> USE DEF Working, Signed, OnTheWire
<1>1. CollectorInv(d) /\ (pc[d] # "idle" => job[d] \in Row)
  BY DEF IInv, CollectorInv
<1>2. CASE pc[d] \in {"idle", "seeding"}
  BY <1>1, <1>2 DEF CollectorInv, SameLocals
<1>3. CASE pc[d] \in Working
  <2>1. Keeps(job[d]) /\ Remembers(d) /\ Progressed(d)
    BY <1>1, <1>3 DEF CollectorInv
  <2>2. Remembers(d)'
    BY <1>1, <1>3, <2>1 DEF Remembers, Keeps, SameLocals, SeesItsBytes
  <2>3. wire[job[d]] \subseteq wire'[job[d]] /\ NoTx \notin Tx
    BY <2>1, CollectionAssumption DEF Keeps, Tx
  <2>4. Progressed(d)'
    BY <1>1, <1>3, <2>1, <2>3 DEF Progressed, Keeps, SameLocals
  <2> QED
    BY <1>1, <1>3, <2>2, <2>4 DEF CollectorInv, SameLocals
<1> QED
  BY <1>2, <1>3 DEF IInv, TypeOK, Control

\* What collector c may write over its row, if its lease still holds.
Admissible(c, e) ==
  /\ pc[c] \in Working
  /\ e \in Entry
  /\ Held(c) => /\ e.lease \in {row[job[c]].lease, NoToken}
                /\ row[job[c]].transaction # NoTx => e.transaction = row[job[c]].transaction
                /\ RowOK(job[c], e)

\* A fenced update by collector c: either it reaches the row, and then no one
\* else holds the row's lease, or nothing is written.
Updates(c, e) ==
  /\ Admissible(c, e)
  /\ row' \in {row, Stored(c, e)}
  /\ UNCHANGED <<wire, chain>>

\* A fenced update keeps every row in order and disturbs no other collector.
LEMMA UpdateKeeps ==
  ASSUME IInv, NEW c \in Collector, NEW e, Updates(c, e)
  PROVE  /\ row' \in [Row -> Entry]
         /\ \A r \in Row : RowOK(r, row[r])' /\ Keeps(r)
         /\ \A d \in Collector \ {c} : SameLocals(d) => SeesItsBytes(d)
<1> USE DEF Working, Control
<1>1. /\ job[c] \in Row /\ row \in [Row -> Entry]
      /\ entry[c].lease \in Token /\ NoToken \notin Token
  BY CollectionAssumption DEF IInv, TypeOK, CollectorInv, Updates, Admissible
<1>2. CASE row' = row
  <2>1. \A r \in Row : RowOK(r, row[r])' /\ Keeps(r)
    BY <1>2 DEF Updates, Admissible, IInv, RowOK, Keeps
  <2>2. \A d \in Collector : SameLocals(d) => SeesItsBytes(d)
    BY <1>2 DEF SameLocals, SeesItsBytes, Held, IInv, CollectorInv, Remembers
  <2> QED
    BY <1>1, <1>2, <2>1, <2>2
<1>3. CASE Held(c) /\ row' = [row EXCEPT ![job[c]] = e]
  <2>1. row' \in [Row -> Entry]
    BY <1>1, <1>3 DEF Updates, Admissible
  <2>2. \A r \in Row : row'[r] = IF r = job[c] THEN e ELSE row[r]
    BY <1>1, <1>3
  <2>3. \A r \in Row : RowOK(r, row[r])' /\ Keeps(r)
    BY <1>3, <2>2 DEF Updates, Admissible, IInv, RowOK, Keeps
  <2>4. ASSUME NEW d \in Collector \ {c}, SameLocals(d)
        PROVE  SeesItsBytes(d)
    <3>1. SUFFICES ASSUME pc[d] \in {"claimed", "prepared"}, Held(d)'
                   PROVE  row'[job[d]].transaction = entry[d].transaction
      BY DEF SeesItsBytes
    <3>2. job[d] \in Row /\ entry[d].lease \in Token /\ Remembers(d)
      BY <3>1 DEF IInv, CollectorInv
    <3>3. row'[job[d]].lease = entry[d].lease
      BY <2>4, <3>1 DEF Held, SameLocals
    <3>4. job[d] # job[c]
      BY <1>1, <1>3, <2>2, <3>2, <3>3 DEF Updates, Admissible, Held, IInv, LeasesDiffer
    <3> QED
      BY <2>2, <3>1, <3>2, <3>3, <3>4 DEF Remembers, Held
  <2> QED
    BY <2>1, <2>3, <2>4
<1> QED
  BY <1>2, <1>3 DEF Updates, Admissible, Stored

\* The parts of IInv once a step of collector c is accounted for.
LEMMA Assemble ==
  ASSUME IInv, NEW c \in Collector, TypeOK', LeasesDiffer', CollectorInv(c)',
         \A r \in Row : RowOK(r, row[r])' /\ Keeps(r),
         \A d \in Collector \ {c} : SameLocals(d) /\ SeesItsBytes(d)
  PROVE  IInv'
<1>1. \A d \in Collector \ {c} : CollectorInv(d)'
  BY BystanderInv
<1> QED
  BY <1>1 DEF IInv

\* Going on to the next await moves one program counter.
LEMMA GotoLocals ==
  ASSUME IInv, NEW c \in Collector, NEW label \in Control, Goto(c, label)
  PROVE  /\ pc' \in [Collector -> Control] /\ UNCHANGED <<job, entry, transfer>>
         /\ pc'[c] = label
         /\ LeasesDiffer'
         /\ \A d \in Collector \ {c} : SameLocals(d)
BY DEF IInv, TypeOK, Goto, LeasesDiffer, SameLocals

\* A collector that leaves its row holds nothing.
LEMMA LeaveLocals ==
  ASSUME IInv, NEW c \in Collector, Leave(c)
  PROVE  /\ pc' \in [Collector -> Control] /\ job' \in [Collector -> Row \cup {NoJob}]
         /\ entry' \in [Collector -> Entry] /\ transfer' \in [Collector -> Tx \cup {NoTx}]
         /\ LeasesDiffer' /\ CollectorInv(c)'
         /\ \A d \in Collector \ {c} : SameLocals(d)
<1>1. Absent \in Entry /\ Absent.lease = NoToken
  BY CollectionAssumption DEF Absent, Entry, Status, Collection
<1>2. /\ pc' \in [Collector -> Control] /\ job' \in [Collector -> Row \cup {NoJob}]
      /\ entry' \in [Collector -> Entry] /\ transfer' \in [Collector -> Tx \cup {NoTx}]
      /\ \A d \in Collector \ {c} : SameLocals(d)
  BY <1>1 DEF IInv, TypeOK, Leave, Control, SameLocals
<1>3. CollectorInv(c)'
  BY <1>1 DEF IInv, TypeOK, Leave, CollectorInv, Working
<1>4. LeasesDiffer'
  BY <1>1 DEF IInv, TypeOK, Leave, LeasesDiffer
<1> QED
  BY <1>2, <1>3, <1>4

\* The local state of a collector that goes on with its row.
LEMMA WorkingInv ==
  ASSUME IInv, NEW c \in Collector, pc[c] \in Working
  PROVE  /\ job[c] \in Row /\ row[job[c]] \in Entry /\ entry[c] \in Entry
         /\ entry[c].lease \in Token /\ NoToken \notin Token /\ NoTx \notin Tx
         /\ RowOK(job[c], row[job[c]]) /\ Remembers(c) /\ Progressed(c)
         /\ Held(c) => row[job[c]].collection \in {"pending", "submitted"}
                      /\ row[job[c]].status = "pending"
<1>1. /\ job[c] \in Row /\ row[job[c]] \in Entry /\ entry[c] \in Entry
      /\ entry[c].lease \in Token /\ NoToken \notin Token /\ NoTx \notin Tx
      /\ RowOK(job[c], row[job[c]]) /\ Remembers(c) /\ Progressed(c)
  BY CollectionAssumption DEF IInv, TypeOK, CollectorInv, Working, Control, Tx
<1> QED
  BY <1>1 DEF RowOK, Held

\* The rows the ledger starts from are rows.
LEMMA FreshType ==
  /\ Absent \in Entry /\ Absent.status = "none" /\ Absent.collection = "none"
  /\ Absent.lease = NoToken /\ Absent.transaction = NoTx
  /\ PendingAccrual \in Entry /\ PendingAccrual.lease = NoToken
  /\ PendingAccrual.status = "pending" /\ PendingAccrual.collection = "pending"
  /\ PendingAccrual.transaction = NoTx
  /\ \A r \in Row :
       /\ LegacySubmitted(r) \in Entry /\ LegacySubmitted(r).signature \in Tx
       /\ LegacySubmitted(r).status = "pending" /\ LegacySubmitted(r).lease = NoToken
       /\ LegacySubmitted(r).collection = "submitted"
       /\ LegacySubmitted(r).transaction = NoTx
<1>0. 0 \in 0 .. MaxAttempts /\ 1 \in 0 .. MaxAttempts /\ 0 \in 0 .. MaxSlot
  BY CollectionAssumption
<1>1. /\ Absent \in Entry /\ Absent.status = "none" /\ Absent.collection = "none"
      /\ Absent.lease = NoToken /\ Absent.transaction = NoTx
  BY <1>0 DEF Absent, Entry, Status, Collection
<1>2. /\ PendingAccrual \in Entry /\ PendingAccrual.lease = NoToken
      /\ PendingAccrual.status = "pending" /\ PendingAccrual.collection = "pending"
      /\ PendingAccrual.transaction = NoTx
  BY <1>1 DEF PendingAccrual, Entry, Status, Collection
<1>3. ASSUME NEW r \in Row
      PROVE  /\ LegacySubmitted(r) \in Entry /\ LegacySubmitted(r).signature \in Tx
             /\ LegacySubmitted(r).status = "pending" /\ LegacySubmitted(r).lease = NoToken
             /\ LegacySubmitted(r).collection = "submitted"
             /\ LegacySubmitted(r).transaction = NoTx
  <2>1. [terms |-> Terms[r], blockhash |-> 0] \in Tx
    BY <1>0 DEF Tx
  <2> QED
    BY <1>0, <1>2, <2>1 DEF LegacySubmitted, Entry, Collection
<1> QED
  BY <1>1, <1>2, <1>3

\* Releasing a row, whatever else is written, keeps it a row.
LEMMA ReleasedType ==
  ASSUME NEW e \in Entry
  PROVE  /\ Released(e) \in Entry
         /\ Released(e).lease = NoToken
         /\ Released(e).status = e.status /\ Released(e).collection = e.collection
         /\ Released(e).signature = e.signature /\ Released(e).transaction = e.transaction
         /\ Voided(e) \in Entry
         /\ Voided(e).lease = NoToken
         /\ Voided(e).status = "voided" /\ Voided(e).collection = "failed"
         /\ Voided(e).signature = e.signature /\ Voided(e).transaction = e.transaction
BY DEF Released, Voided, Entry, Status, Collection

\* An update in order that also releases the lease may be written.
LEMMA ReleasedAdmissible ==
  ASSUME IInv, NEW c \in Collector, pc[c] \in Working, NEW e \in Entry,
         e.transaction = row[job[c]].transaction, Held(c) => RowOK(job[c], e)
  PROVE  Admissible(c, Released(e))
<1>1. /\ Released(e) \in Entry /\ Released(e).lease = NoToken
      /\ Released(e).status = e.status /\ Released(e).collection = e.collection
      /\ Released(e).signature = e.signature /\ Released(e).transaction = e.transaction
  BY ReleasedType
<1>2. Held(c) => RowOK(job[c], Released(e))
  BY <1>1 DEF RowOK
<1> QED
  BY <1>1, <1>2 DEF Admissible

\* A row may be voided over the transfer it names.
LEMMA VoidedAdmissible ==
  ASSUME IInv, NEW c \in Collector, pc[c] \in Working, NEW e \in Entry,
         e.transaction = row[job[c]].transaction, e.signature = row[job[c]].signature
  PROVE  Admissible(c, Voided(e))
<1>1. /\ Voided(e) \in Entry /\ Voided(e).lease = NoToken
      /\ Voided(e).status = "voided" /\ Voided(e).collection = "failed"
      /\ Voided(e).signature = e.signature /\ Voided(e).transaction = e.transaction
  BY ReleasedType
<1>2. RowOK(job[c], row[job[c]])
  BY WorkingInv
<1>3. RowOK(job[c], Voided(e))
  BY <1>1, <1>2 DEF RowOK
<1> QED
  BY <1>1, <1>3 DEF Admissible

\* The update that ends a collector's turn with its row preserves the invariant.
LEMMA FinishInv ==
  ASSUME IInv, NEW c \in Collector, NEW e, NEW handler \in {"erred", "restoring"},
         Admissible(c, e), Finish(c, e, handler), UNCHANGED network,
         handler = "erred" => entry[c].collection = "pending" /\ entry[c].attempts < MaxAttempts
  PROVE  IInv'
<1>1. Updates(c, e) /\ faults' \in 0 .. MaxFaults /\ UNCHANGED <<wire, chain, slot>>
  BY CollectionAssumption DEF Finish, Updates, network, Fault, IInv, TypeOK
<1>2. /\ row' \in [Row -> Entry]
      /\ \A r \in Row : RowOK(r, row[r])' /\ Keeps(r)
      /\ \A d \in Collector \ {c} : SameLocals(d) => SeesItsBytes(d)
  BY <1>1, UpdateKeeps
<1>3. CASE Leave(c)
  <2>1. TypeOK'
    BY <1>1, <1>2, <1>3, LeaveLocals DEF IInv, TypeOK
  <2> QED
    BY <1>2, <1>3, <2>1, LeaveLocals, Assemble
<1>4. CASE Goto(c, handler)
  <2>1. /\ pc' \in [Collector -> Control] /\ UNCHANGED <<job, entry, transfer>>
        /\ pc'[c] = handler /\ LeasesDiffer'
        /\ \A d \in Collector \ {c} : SameLocals(d)
    BY <1>4, GotoLocals DEF Control
  <2>2. TypeOK'
    BY <1>1, <1>2, <2>1 DEF IInv, TypeOK
  <2>3. pc[c] \in Working /\ Keeps(job[c])
    BY <1>1, <1>2, WorkingInv DEF Updates, Admissible
  <2>4. Remembers(c)' /\ Progressed(c)'
    BY <2>1, <2>3, WorkingInv, <1>1
       DEF Remembers, Progressed, Keeps, Updates, Admissible, Signed, OnTheWire
  <2>5. CollectorInv(c)'
    BY <2>1, <2>3, <2>4, WorkingInv DEF CollectorInv, Working
  <2> QED
    BY <1>2, <2>1, <2>2, <2>5, Assemble
<1> QED
  BY <1>3, <1>4 DEF Finish

\* Giving a row up voids it and ends its collection.
LEMMA GiveUpInv ==
  ASSUME IInv, NEW c \in Collector, GiveUp(c)
  PROVE  IInv'
<1>1. pc[c] \in Working
  BY DEF GiveUp, Working, Control
<1>2. Admissible(c, Voided(row[job[c]]))
  BY <1>1, WorkingInv, VoidedAdmissible
<1> QED
  BY <1>2, FinishInv DEF GiveUp

\* A failed try is counted, and the row voided or released for another one.
LEMMA RetryInv ==
  ASSUME IInv, NEW c \in Collector, Retry(c)
  PROVE  IInv'
<1> DEFINE e == [row[job[c]] EXCEPT !.collection = "pending", !.attempts = NextAttempts(c)]
<1>1. pc[c] \in Working /\ pc[c] = "erred"
  BY DEF Retry, Working, Control
<1>2. entry[c].collection = "pending" /\ entry[c].attempts < MaxAttempts /\ job[c] \notin Legacy
  BY <1>1, WorkingInv DEF Progressed, Remembers
<1>3. NextAttempts(c) \in 0 .. MaxAttempts
  BY <1>1, <1>2, WorkingInv, CollectionAssumption DEF NextAttempts, Entry
<1>4. /\ e \in Entry /\ e.collection = "pending" /\ e.status = row[job[c]].status
      /\ e.signature = row[job[c]].signature /\ e.transaction = row[job[c]].transaction
  BY <1>1, <1>3, WorkingInv DEF Entry, Collection
<1> HIDE DEF e
<1>5. Held(c) => RowOK(job[c], e)
  BY <1>1, <1>2, <1>4, WorkingInv DEF RowOK
<1>6. Admissible(c, Voided(e)) /\ Admissible(c, Released(e))
  BY <1>1, <1>4, <1>5, VoidedAdmissible, ReleasedAdmissible
<1> QED
  BY <1>6, FinishInv, <1>2 DEF Retry, e

\* A landed transfer settles the row as confirmed and claimable.
LEMMA SettleConfirmedInv ==
  ASSUME IInv, NEW c \in Collector, SettleConfirmed(c)
  PROVE  IInv'
<1> DEFINE e == [row[job[c]] EXCEPT !.collection = "confirmed", !.status = "claimable",
                                    !.signature = transfer[c]]
<1>1. pc[c] \in Working /\ pc[c] = "confirmed"
  BY DEF SettleConfirmed, Working, Control
<1>2. transfer[c] \in Tx /\ transfer[c] \in wire[job[c]] /\ chain[transfer[c]] = "landed"
  BY <1>1, WorkingInv DEF Progressed, Signed, OnTheWire
<1>3. /\ e \in Entry /\ e.collection = "confirmed" /\ e.status = "claimable"
      /\ e.signature = row[job[c]].signature /\ e.signature = transfer[c]
      /\ e.transaction = row[job[c]].transaction
  BY <1>1, <1>2, WorkingInv DEF Entry, Collection, Status, RowOK
<1> HIDE DEF e
<1>4. /\ Released(e) \in Entry /\ Released(e).lease = NoToken
      /\ Released(e).status = "claimable" /\ Released(e).collection = "confirmed"
      /\ Released(e).signature = e.signature /\ Released(e).transaction = e.transaction
  BY <1>3, ReleasedType
<1>7. RowOK(job[c], Released(e))
  BY <1>1, <1>2, <1>3, <1>4, WorkingInv DEF RowOK
<1>6. Admissible(c, Released(e))
  BY <1>1, <1>3, <1>4, <1>7 DEF Admissible
<1>5. Handler(c) \in {"erred", "restoring"}
      /\ (Handler(c) = "erred" => entry[c].collection = "pending" /\ entry[c].attempts < MaxAttempts)
  BY <1>1, WorkingInv DEF Handler, Progressed
<1> QED
  BY <1>5, <1>6, FinishInv DEF SettleConfirmed, e

\* A transfer not confirmed in time leaves the row submitted.
LEMMA SettleTimedOutInv ==
  ASSUME IInv, NEW c \in Collector, SettleTimedOut(c)
  PROVE  IInv'
<1> DEFINE e == [row[job[c]] EXCEPT !.collection = "submitted", !.signature = transfer[c]]
<1>1. pc[c] \in Working /\ pc[c] = "timedOut"
  BY DEF SettleTimedOut, Working, Control
<1>2. transfer[c] \in Tx /\ transfer[c] \in wire[job[c]]
  BY <1>1, WorkingInv DEF Progressed, Signed, OnTheWire
<1>3. /\ e \in Entry /\ e.collection = "submitted" /\ e.status = row[job[c]].status
      /\ e.signature = row[job[c]].signature /\ e.signature = transfer[c]
      /\ e.transaction = row[job[c]].transaction
  BY <1>1, <1>2, WorkingInv DEF Entry, Collection, RowOK
<1> HIDE DEF e
<1>4. Held(c) => RowOK(job[c], e)
  BY <1>1, <1>2, <1>3, WorkingInv DEF RowOK
<1>6. Admissible(c, Released(e))
  BY <1>1, <1>3, <1>4, ReleasedAdmissible
<1>5. Handler(c) \in {"erred", "restoring"}
      /\ (Handler(c) = "erred" => entry[c].collection = "pending" /\ entry[c].attempts < MaxAttempts)
  BY <1>1, WorkingInv DEF Handler, Progressed
<1> QED
  BY <1>5, <1>6, FinishInv DEF SettleTimedOut, e

\* A transfer that landed with an error voids the row.
LEMMA SettleRevertedInv ==
  ASSUME IInv, NEW c \in Collector, SettleReverted(c)
  PROVE  IInv'
<1> DEFINE e == [row[job[c]] EXCEPT !.signature = transfer[c]]
<1>1. pc[c] \in Working /\ pc[c] = "reverted"
  BY DEF SettleReverted, Working, Control
<1>2. transfer[c] \in Tx /\ transfer[c] \in wire[job[c]]
  BY <1>1, WorkingInv DEF Progressed, Signed, OnTheWire
<1>3. /\ e \in Entry /\ e.signature = row[job[c]].signature
      /\ e.transaction = row[job[c]].transaction
  BY <1>1, <1>2, WorkingInv DEF Entry, RowOK
<1> HIDE DEF e
<1>6. Admissible(c, Voided(e))
  BY <1>1, <1>3, VoidedAdmissible
<1>5. Handler(c) \in {"erred", "restoring"}
      /\ (Handler(c) = "erred" => entry[c].collection = "pending" /\ entry[c].attempts < MaxAttempts)
  BY <1>1, WorkingInv DEF Handler, Progressed
<1> QED
  BY <1>5, <1>6, FinishInv DEF SettleReverted, e

\* The outer catch puts the claimed status back.
LEMMA RestoreInv ==
  ASSUME IInv, NEW c \in Collector, Restore(c)
  PROVE  IInv'
<1> DEFINE e == [row[job[c]] EXCEPT !.collection = entry[c].collection]
<1>1. pc[c] \in Working
  BY DEF Restore, Working, Control
<1>2. /\ e \in Entry /\ e.collection = entry[c].collection /\ e.status = row[job[c]].status
      /\ e.signature = row[job[c]].signature /\ e.transaction = row[job[c]].transaction
      /\ e.lease = row[job[c]].lease
  BY <1>1, WorkingInv DEF Entry, Collection
<1> HIDE DEF e
<1>3. Held(c) => RowOK(job[c], e)
  BY <1>1, <1>2, WorkingInv DEF RowOK, Remembers
<1>4. Admissible(c, Released(e))
  BY <1>1, <1>2, <1>3, ReleasedAdmissible
<1>5. Updates(c, Released(e)) /\ Leave(c) /\ faults' \in 0 .. MaxFaults /\ UNCHANGED slot
  BY <1>4, CollectionAssumption DEF Restore, Updates, network, Fault, IInv, TypeOK, e
<1>6. /\ row' \in [Row -> Entry]
      /\ \A r \in Row : RowOK(r, row[r])' /\ Keeps(r)
      /\ \A d \in Collector \ {c} : SameLocals(d) => SeesItsBytes(d)
  BY <1>5, UpdateKeeps
<1>7. TypeOK'
  BY <1>5, <1>6, LeaveLocals DEF IInv, TypeOK, Updates
<1> QED
  BY <1>5, <1>6, <1>7, LeaveLocals, Assemble

\* The signed transfer reaches the row before it reaches the network.
LEMMA PersistInv ==
  ASSUME IInv, NEW c \in Collector, Persist(c)
  PROVE  IInv'
<1> DEFINE e == [row[job[c]] EXCEPT !.collection = "pending",
                                    !.signature = transfer[c], !.transaction = transfer[c]]
<1>1. pc[c] \in Working /\ pc[c] = "prepared"
  BY DEF Persist, Working, Control
<1>2. /\ transfer[c] \in Tx /\ entry[c].collection = "pending" /\ job[c] \notin Legacy
      /\ entry[c].attempts < MaxAttempts
      /\ entry[c].transaction # NoTx => transfer[c] = entry[c].transaction
      /\ Held(c) => row[job[c]].transaction = entry[c].transaction
  BY <1>1, WorkingInv DEF Progressed, Remembers, Signed
<1>3. /\ e \in Entry /\ e.collection = "pending" /\ e.status = row[job[c]].status
      /\ e.signature = transfer[c] /\ e.transaction = transfer[c] /\ e.lease = row[job[c]].lease
  BY <1>1, <1>2, WorkingInv DEF Entry, Collection
<1> HIDE DEF e
<1>4. Held(c) => row[job[c]].transaction \in {NoTx, transfer[c]}
  BY <1>2
<1>5. Admissible(c, e)
  BY <1>1, <1>2, <1>3, <1>4, WorkingInv DEF Admissible, RowOK
<1>6. /\ row' \in {row, Stored(c, e)} /\ UNCHANGED <<wire, chain, slot>>
      /\ faults' \in 0 .. MaxFaults
  BY CollectionAssumption DEF Persist, network, Fault, IInv, TypeOK, e
<1>7. /\ row' \in [Row -> Entry]
      /\ \A r \in Row : RowOK(r, row[r])' /\ Keeps(r)
      /\ \A d \in Collector \ {c} : SameLocals(d) => SeesItsBytes(d)
  BY <1>5, <1>6, UpdateKeeps DEF Updates
<1>8. CASE Leave(c)
  <2>1. TypeOK'
    BY <1>6, <1>7, <1>8, LeaveLocals DEF IInv, TypeOK
  <2> QED
    BY <1>7, <1>8, <2>1, LeaveLocals, Assemble
<1>9. ASSUME NEW label \in {"persisted", "erred"}, Goto(c, label),
             label = "persisted" => Held(c) /\ row' = Stored(c, e)
      PROVE  IInv'
  <2>1. /\ pc' \in [Collector -> Control] /\ UNCHANGED <<job, entry, transfer>>
        /\ pc'[c] = label /\ LeasesDiffer'
        /\ \A d \in Collector \ {c} : SameLocals(d)
    BY <1>9, GotoLocals DEF Control
  <2>2. TypeOK'
    BY <1>6, <1>7, <2>1 DEF IInv, TypeOK
  <2>3. label = "persisted" => row'[job[c]].transaction = transfer[c]
    BY <1>1, <1>3, <1>9, WorkingInv DEF Stored, IInv, TypeOK
  <2>4. Remembers(c)' /\ Progressed(c)'
    BY <1>1, <1>2, <1>7, <2>1, <2>3, WorkingInv
       DEF Remembers, Progressed, Keeps, Signed, OnTheWire
  <2>5. CollectorInv(c)'
    BY <1>1, <2>1, <2>4, WorkingInv DEF CollectorInv, Working, Control
  <2> QED
    BY <1>7, <2>1, <2>2, <2>5, Assemble
<1> QED
  BY <1>8, <1>9 DEF Persist, e

\* The row is marked submitted after its transfer was accepted.
LEMMA MarkSubmittedInv ==
  ASSUME IInv, NEW c \in Collector, MarkSubmitted(c)
  PROVE  IInv'
<1> DEFINE e == [row[job[c]] EXCEPT !.collection = "submitted", !.signature = transfer[c],
                                    !.attempts = NextAttempts(c)]
<1>1. pc[c] \in Working /\ pc[c] = "broadcast"
  BY DEF MarkSubmitted, Working, Control
<1>2. /\ transfer[c] \in Tx /\ transfer[c] \in wire[job[c]]
      /\ row[job[c]].transaction = transfer[c]
      /\ entry[c].collection = "pending" /\ entry[c].attempts < MaxAttempts
  BY <1>1, WorkingInv DEF Progressed, Signed, OnTheWire
<1>3. NextAttempts(c) \in 0 .. MaxAttempts
  BY <1>1, <1>2, WorkingInv, CollectionAssumption DEF NextAttempts, Entry
<1>4. /\ e \in Entry /\ e.collection = "submitted" /\ e.status = row[job[c]].status
      /\ e.signature = transfer[c] /\ e.transaction = row[job[c]].transaction
      /\ e.lease = row[job[c]].lease
  BY <1>1, <1>2, <1>3, WorkingInv DEF Entry, Collection
<1> HIDE DEF e
<1>5. Admissible(c, e)
  BY <1>1, <1>2, <1>4, WorkingInv DEF Admissible, RowOK
<1>6. /\ row' \in {row, Stored(c, e)} /\ UNCHANGED <<wire, chain, slot>>
      /\ faults' \in 0 .. MaxFaults
  BY CollectionAssumption DEF MarkSubmitted, network, Fault, IInv, TypeOK, e
<1>7. /\ row' \in [Row -> Entry]
      /\ \A r \in Row : RowOK(r, row[r])' /\ Keeps(r)
      /\ \A d \in Collector \ {c} : SameLocals(d) => SeesItsBytes(d)
  BY <1>5, <1>6, UpdateKeeps DEF Updates
<1>8. PICK label \in {"confirming", "erred"} : Goto(c, label)
  BY DEF MarkSubmitted
<1>9. /\ pc' \in [Collector -> Control] /\ UNCHANGED <<job, entry, transfer>>
      /\ pc'[c] = label /\ LeasesDiffer'
      /\ \A d \in Collector \ {c} : SameLocals(d)
  BY <1>8, GotoLocals DEF Control
<1>10. TypeOK'
  BY <1>6, <1>7, <1>9 DEF IInv, TypeOK
<1>11. Remembers(c)' /\ Progressed(c)'
  BY <1>1, <1>2, <1>6, <1>7, <1>9, WorkingInv
     DEF Remembers, Progressed, Keeps, Signed, OnTheWire
<1>12. CollectorInv(c)'
  BY <1>1, <1>9, <1>11, WorkingInv DEF CollectorInv, Working, Control
<1> QED
  BY <1>7, <1>9, <1>10, <1>12, Assemble

\* A step that writes no row and takes nothing back from the network keeps the
\* rows in order.
LEMMA NetworkKeeps ==
  ASSUME IInv, row' = row, wire' \in [Row -> SUBSET Tx], chain' \in [Tx -> Fate],
         \A r \in Row : wire[r] \subseteq wire'[r] /\ wire'[r] \subseteq {row[r].signature}
                        /\ (wire'[r] = wire[r] \/ row[r].transaction # NoTx),
         \A t \in Tx : chain[t] = "landed" => chain'[t] = "landed"
  PROVE  /\ \A r \in Row : RowOK(r, row[r])' /\ Keeps(r)
         /\ \A d \in Collector : SameLocals(d) => SeesItsBytes(d)
<1>1. ASSUME NEW r \in Row
      PROVE  RowOK(r, row[r])' /\ Keeps(r)
  <2>1. RowOK(r, row[r]) /\ row[r].signature \in Tx \cup {NoTx} /\ wire[r] \subseteq Tx
    BY DEF IInv, TypeOK, Entry
  <2> QED
    BY <2>1 DEF RowOK, Keeps
<1>2. ASSUME NEW d \in Collector, SameLocals(d)
      PROVE  SeesItsBytes(d)
  BY <1>2 DEF SameLocals, SeesItsBytes, Held, IInv, CollectorInv, Remembers, Working, Control
<1> QED
  BY <1>1, <1>2

\* A step that leaves rows and network alone keeps the rows in order.
LEMMA LocalKeeps ==
  ASSUME IInv, UNCHANGED <<row, wire, chain>>
  PROVE  /\ \A r \in Row : RowOK(r, row[r])' /\ Keeps(r)
         /\ \A d \in Collector : SameLocals(d) => SeesItsBytes(d)
<1>1. /\ wire \in [Row -> SUBSET Tx] /\ chain \in [Tx -> Fate]
      /\ \A r \in Row : wire[r] \subseteq {row[r].signature}
  BY DEF IInv, TypeOK, RowOK
<1> QED
  BY <1>1, NetworkKeeps

\* Only the transfer the row already stores reaches the network.
LEMMA BroadcastInv ==
  ASSUME IInv, NEW c \in Collector, Broadcast(c)
  PROVE  IInv'
<1>1. pc[c] \in Working /\ pc[c] = "persisted"
  BY DEF Broadcast, Working, Control
<1>2. /\ transfer[c] \in Tx /\ row[job[c]].transaction = transfer[c]
      /\ row[job[c]].signature = transfer[c]
      /\ entry[c].collection = "pending" /\ entry[c].attempts < MaxAttempts
  BY <1>1, WorkingInv DEF Progressed, Signed, RowOK
<1>3. PICK label \in {"broadcast", "erred"} :
        /\ Goto(c, label)
        /\ (wire' = wire /\ label = "erred") \/ wire' = [wire EXCEPT ![job[c]] = @ \cup {transfer[c]}]
  BY DEF Broadcast
<1>4. /\ pc' \in [Collector -> Control] /\ UNCHANGED <<job, entry, transfer>>
      /\ pc'[c] = label /\ LeasesDiffer'
      /\ \A d \in Collector \ {c} : SameLocals(d)
  BY <1>3, GotoLocals DEF Control
<1>5. UNCHANGED <<row, chain, slot>> /\ faults' \in 0 .. MaxFaults
  BY CollectionAssumption DEF Broadcast, Fault, IInv, TypeOK
<1>6. /\ wire' \in [Row -> SUBSET Tx]
      /\ \A r \in Row : wire[r] \subseteq wire'[r] /\ wire'[r] \subseteq {row[r].signature}
                        /\ (wire'[r] = wire[r] \/ row[r].transaction # NoTx)
      /\ label = "broadcast" => transfer[c] \in wire'[job[c]]
  BY <1>1, <1>2, <1>3, WorkingInv DEF IInv, TypeOK, RowOK
<1>7. /\ \A r \in Row : RowOK(r, row[r])' /\ Keeps(r)
      /\ \A d \in Collector : SameLocals(d) => SeesItsBytes(d)
  BY <1>5, <1>6, NetworkKeeps DEF IInv, TypeOK
<1>8. TypeOK'
  BY <1>4, <1>5, <1>6 DEF IInv, TypeOK
<1>9. Remembers(c)' /\ Progressed(c)'
  BY <1>1, <1>2, <1>4, <1>5, <1>6, WorkingInv DEF Remembers, Progressed, Signed, OnTheWire
<1>10. CollectorInv(c)'
  BY <1>1, <1>4, <1>9, WorkingInv DEF CollectorInv, Working, Control
<1> QED
  BY <1>4, <1>7, <1>8, <1>10, Assemble

\* A submitted row's transfer is sent again: the bytes are those on the wire.
LEMMA RebroadcastInv ==
  ASSUME IInv, NEW c \in Collector, Rebroadcast(c)
  PROVE  IInv'
<1>1. pc[c] \in Working /\ pc[c] = "claimed" /\ entry[c].collection = "submitted"
  BY DEF Rebroadcast, Working, Control
<1>2. /\ entry[c].signature \in wire[job[c]] /\ entry[c].signature \in Tx
      /\ entry[c].transaction # NoTx => entry[c].transaction = entry[c].signature
  BY <1>1, WorkingInv DEF Remembers, IInv, TypeOK
<1>3. UNCHANGED <<row, chain, slot, job, entry, faults>> /\ wire' = wire
  <2>1. wire' \in {wire, [wire EXCEPT ![job[c]] = @ \cup {entry[c].signature}]}
    BY <1>2 DEF Rebroadcast
  <2>2. wire[job[c]] \cup {entry[c].signature} = wire[job[c]]
    BY <1>2
  <2>3. wire' = wire
    <3>1. job[c] \in Row /\ wire = [r \in Row |-> wire[r]]
      BY <1>1, WorkingInv DEF IInv, TypeOK
    <3> QED
      BY <2>1, <2>2, <3>1
  <2>4. UNCHANGED <<row, chain, slot, job, entry, faults>>
    BY DEF Rebroadcast
  <2> QED
    BY <2>3, <2>4
<1>4. /\ pc' = [pc EXCEPT ![c] = "confirming"]
      /\ transfer' = [transfer EXCEPT ![c] = entry[c].signature]
  BY DEF Rebroadcast
<1>5. /\ \A r \in Row : RowOK(r, row[r])' /\ Keeps(r)
      /\ \A d \in Collector : SameLocals(d) => SeesItsBytes(d)
  BY <1>3, LocalKeeps
<1>6. TypeOK' /\ LeasesDiffer' /\ \A d \in Collector \ {c} : SameLocals(d)
  BY <1>2, <1>3, <1>4 DEF IInv, TypeOK, Control, LeasesDiffer, SameLocals
<1>7. Remembers(c)' /\ Progressed(c)'
  BY <1>1, <1>2, <1>3, <1>4, WorkingInv DEF Remembers, Progressed, Signed, OnTheWire, IInv, TypeOK
<1>8. CollectorInv(c)'
  BY <1>1, <1>3, <1>4, <1>7, WorkingInv DEF CollectorInv, Working, Control, IInv, TypeOK
<1> QED
  BY <1>5, <1>6, <1>8, Assemble

\* The transfer is the persisted one or a new one over the latest blockhash.
LEMMA PrepareInv ==
  ASSUME IInv, NEW c \in Collector, Prepare(c)
  PROVE  IInv'
<1> DEFINE t == IF entry[c].transaction # NoTx THEN entry[c].transaction
                ELSE [terms |-> Terms[job[c]], blockhash |-> slot]
<1>1. pc[c] \in Working /\ pc[c] = "claimed" /\ entry[c].collection = "pending"
      /\ entry[c].attempts < MaxAttempts
  BY DEF Prepare, Working, Control
<1>2. t \in Tx /\ (entry[c].transaction # NoTx => t = entry[c].transaction)
  BY <1>1, WorkingInv DEF Entry, Tx, IInv, TypeOK
<1>3. /\ UNCHANGED <<row, wire, chain, slot, job, entry, faults>>
      /\ pc' = [pc EXCEPT ![c] = "prepared"] /\ transfer' = [transfer EXCEPT ![c] = t]
  BY DEF Prepare, network
<1> HIDE DEF t
<1>5. /\ \A r \in Row : RowOK(r, row[r])' /\ Keeps(r)
      /\ \A d \in Collector : SameLocals(d) => SeesItsBytes(d)
  BY <1>3, LocalKeeps
<1>6. TypeOK' /\ LeasesDiffer' /\ \A d \in Collector \ {c} : SameLocals(d)
  BY <1>2, <1>3 DEF IInv, TypeOK, Control, LeasesDiffer, SameLocals
<1>7. Remembers(c)' /\ Progressed(c)'
  BY <1>1, <1>2, <1>3, WorkingInv
     DEF Remembers, Progressed, Held, Signed, OnTheWire, IInv, TypeOK
<1>8. CollectorInv(c)'
  BY <1>1, <1>3, <1>7, WorkingInv DEF CollectorInv, Working, Control, IInv, TypeOK
<1> QED
  BY <1>5, <1>6, <1>8, Assemble

\* Steps of a collector that move on without writing anything.
LEMMA MoveOnInv ==
  ASSUME IInv, NEW c \in Collector, NEW label \in Control, Goto(c, label),
         UNCHANGED <<row, wire, chain, slot>>, faults' \in 0 .. MaxFaults,
         \/ /\ pc[c] = "claimed" /\ label = "erred"
            /\ entry[c].collection = "pending" /\ entry[c].attempts < MaxAttempts
         \/ /\ pc[c] = "confirming" /\ label \in {"confirmed", "timedOut", "reverted"}
            /\ label = "confirmed" => chain[transfer[c]] = "landed"
  PROVE  IInv'
<1>1. pc[c] \in Working
  BY DEF Working, Control
<1>2. /\ pc' \in [Collector -> Control] /\ UNCHANGED <<job, entry, transfer>>
      /\ pc'[c] = label /\ LeasesDiffer'
      /\ \A d \in Collector \ {c} : SameLocals(d)
  BY GotoLocals
<1>3. /\ \A r \in Row : RowOK(r, row[r])' /\ Keeps(r)
      /\ \A d \in Collector : SameLocals(d) => SeesItsBytes(d)
  BY LocalKeeps
<1>4. TypeOK'
  BY <1>2 DEF IInv, TypeOK
<1>5. Remembers(c)' /\ Progressed(c)'
  BY <1>1, <1>2, WorkingInv DEF Remembers, Progressed, Signed, OnTheWire
<1>6. CollectorInv(c)'
  BY <1>1, <1>2, <1>5, WorkingInv DEF CollectorInv, Working, Control
<1> QED
  BY <1>2, <1>3, <1>4, <1>6, Assemble

\* A crash loses what the collector remembers and nothing else.
LEMMA CrashInv ==
  ASSUME IInv, NEW c \in Collector, Leave(c), UNCHANGED <<row, wire, chain, slot>>,
         faults' \in 0 .. MaxFaults
  PROVE  IInv'
<1>1. TypeOK'
  BY LeaveLocals DEF IInv, TypeOK
<1> QED
  BY <1>1, LocalKeeps, LeaveLocals, Assemble

\* Looking a row up before it is created touches the collector only.
LEMMA SeedLookupInv ==
  ASSUME IInv, NEW c \in Collector, NEW r \in Row, SeedLookup(c, r)
  PROVE  IInv'
<1>1. /\ pc[c] = "idle" /\ UNCHANGED <<row, wire, chain, slot, entry, transfer, faults>>
      /\ pc' = [pc EXCEPT ![c] = "seeding"] /\ job' = [job EXCEPT ![c] = r]
  BY DEF SeedLookup, network
<1>2. TypeOK' /\ LeasesDiffer' /\ \A d \in Collector \ {c} : SameLocals(d)
  BY <1>1 DEF IInv, TypeOK, Control, LeasesDiffer, SameLocals
<1>3. CollectorInv(c)'
  BY <1>1 DEF IInv, TypeOK, CollectorInv, Working
<1> QED
  BY <1>1, <1>2, <1>3, LocalKeeps, Assemble

\* Seeding creates a row only where there is none, so it disturbs no other.
LEMMA SeedAccrueInv ==
  ASSUME IInv, NEW c \in Collector, SeedAccrue(c)
  PROVE  IInv'
<1>1. job[c] \in Row /\ Leave(c) /\ UNCHANGED <<wire, chain, slot, faults>>
  BY DEF SeedAccrue, IInv, CollectorInv, network
<1>2. CASE row' = row
  BY <1>1, <1>2, CrashInv DEF IInv, TypeOK
<1>3. CASE row[job[c]] = Absent /\ row' = [row EXCEPT ![job[c]] = PendingAccrual]
  <2>1. /\ PendingAccrual \in Entry /\ PendingAccrual.transaction = NoTx
        /\ PendingAccrual.status = "pending" /\ PendingAccrual.collection = "pending"
        /\ PendingAccrual.lease = NoToken
        /\ Absent.transaction = NoTx /\ Absent.collection = "none"
    BY FreshType
  <2>2. \A r \in Row : row'[r] = IF r = job[c] THEN PendingAccrual ELSE row[r]
    BY <1>1, <1>3 DEF IInv, TypeOK
  <2>3. \A r \in Row : RowOK(r, row[r])' /\ Keeps(r)
    BY <1>1, <1>3, <2>1, <2>2 DEF IInv, RowOK, Keeps
  <2>4. ASSUME NEW d \in Collector, SameLocals(d)
        PROVE  SeesItsBytes(d)
    <3>1. SUFFICES ASSUME pc[d] \in {"claimed", "prepared"}, Held(d)'
                   PROVE  row'[job[d]].transaction = entry[d].transaction
      BY DEF SeesItsBytes
    <3>2. job[d] \in Row /\ entry[d].lease # NoToken /\ Remembers(d)
      BY <3>1, WorkingInv DEF Working, Control
    <3>3. row'[job[d]].lease = entry[d].lease
      BY <2>4, <3>1 DEF Held, SameLocals
    <3>4. row'[job[d]] = row[job[d]]
      BY <2>1, <2>2, <3>2, <3>3
    <3> QED
      BY <3>1, <3>2, <3>3, <3>4 DEF Remembers, Held
  <2>5. TypeOK'
    BY <1>1, <1>3, <2>1, LeaveLocals DEF IInv, TypeOK
  <2> QED
    BY <1>1, <2>3, <2>4, <2>5, LeaveLocals, Assemble
<1> QED
  BY <1>2, <1>3 DEF SeedAccrue

\* A claim takes a row no live lease protects, under a token nobody holds.
LEMMA ClaimInv ==
  ASSUME IInv, NEW c \in Collector, NEW r \in Row, NEW k \in Token, Claim(c, r, k)
  PROVE  IInv'
<1> DEFINE leased == [row[r] EXCEPT !.lease = k, !.expired = FALSE]
<1>1. /\ pc[c] = "idle" /\ Claimable(r) /\ Unused(k)
      /\ row' = [row EXCEPT ![r] = leased] /\ UNCHANGED <<wire, chain, slot>>
  BY DEF Claim, network
<1>2. row[r] \in Entry /\ RowOK(r, row[r]) /\ k # NoToken /\ NoTx \notin Tx
  BY CollectionAssumption DEF IInv, TypeOK, Tx
<1>3. /\ leased \in Entry /\ leased.lease = k /\ leased.status = row[r].status
      /\ leased.collection = row[r].collection /\ leased.signature = row[r].signature
      /\ leased.transaction = row[r].transaction
  BY <1>2 DEF Entry
<1> HIDE DEF leased
<1>4. \A q \in Row : row'[q] = IF q = r THEN leased ELSE row[q]
  BY <1>1 DEF IInv, TypeOK
<1>5. \A q \in Row : RowOK(q, row[q])' /\ Keeps(q)
  BY <1>1, <1>2, <1>3, <1>4 DEF IInv, RowOK, Keeps, Claimable
<1>6. ASSUME NEW d \in Collector, SameLocals(d)
      PROVE  SeesItsBytes(d)
  BY <1>1, <1>3, <1>4, <1>6, WorkingInv
     DEF SameLocals, SeesItsBytes, Held, Remembers, Working, Control, Unused
<1>7. row' \in [Row -> Entry] /\ faults' \in 0 .. MaxFaults
  BY <1>1, <1>3, CollectionAssumption DEF Claim, Fault, IInv, TypeOK
<1>8. CASE UNCHANGED local
  <2>1. TypeOK' /\ LeasesDiffer' /\ \A d \in Collector : SameLocals(d)
    BY <1>1, <1>7, <1>8 DEF local, IInv, TypeOK, LeasesDiffer, SameLocals
  <2>2. CollectorInv(c)'
    BY <1>1, <1>8 DEF local, IInv, CollectorInv, Working
  <2> QED
    BY <1>5, <1>6, <2>1, <2>2, Assemble
<1>9. CASE /\ pc' = [pc EXCEPT ![c] = "claimed"] /\ job' = [job EXCEPT ![c] = r]
           /\ entry' = [entry EXCEPT ![c] = leased] /\ UNCHANGED transfer
  <2>1. TypeOK' /\ \A d \in Collector \ {c} : SameLocals(d)
    BY <1>1, <1>3, <1>7, <1>9 DEF IInv, TypeOK, Control, SameLocals
  <2>2. LeasesDiffer'
    BY <1>1, <1>3, <1>9 DEF IInv, TypeOK, LeasesDiffer, Unused
  <2>3. /\ pc'[c] = "claimed" /\ job'[c] = r /\ entry'[c] = leased
    BY <1>9 DEF IInv, TypeOK
  <2>4. Remembers(c)' /\ Progressed(c)'
    BY <1>1, <1>2, <1>3, <1>4, <2>3
       DEF Remembers, Progressed, Held, Signed, OnTheWire, Claimable, RowOK
  <2>5. CollectorInv(c)'
    BY <1>3, <2>3, <2>4 DEF CollectorInv, Working
  <2> QED
    BY <1>5, <1>6, <2>1, <2>2, <2>5, Assemble
<1> QED
  BY <1>8, <1>9 DEF Claim, leased

\* Steps of the environment: no collector moves.
LEMMA EnvironmentInv ==
  ASSUME IInv, UNCHANGED local, TypeOK',
         \A r \in Row : RowOK(r, row[r])' /\ Keeps(r),
         \A d \in Collector : SeesItsBytes(d)
  PROVE  IInv'
<1>1. \A d \in Collector : SameLocals(d)
  BY DEF local, SameLocals
<1>2. \A d \in Collector : CollectorInv(d)'
  BY <1>1, BystanderInv
<1> QED
  BY <1>2 DEF local, IInv, LeasesDiffer

\* An expired lease is still a lease; a paid row is still a confirmed one.
LEMMA LedgerStepInv ==
  ASSUME IInv, NEW r \in Row, ExpireLease(r) \/ MarkLedgerPaid(r)
  PROVE  IInv'
<1> DEFINE Same(e) == /\ e.lease = row[r].lease /\ e.collection = row[r].collection
                      /\ e.signature = row[r].signature /\ e.transaction = row[r].transaction
                      /\ \/ e.status = row[r].status
                         \/ row[r].status = "claimable" /\ e.status = "paid"
<1>0. row[r] \in Entry
  BY DEF IInv, TypeOK
<1>1. PICK e \in Entry : row' = [row EXCEPT ![r] = e] /\ Same(e)
  <2>1. CASE ExpireLease(r)
    <3>1. row' = [row EXCEPT ![r] = [row[r] EXCEPT !.expired = TRUE]]
      BY <2>1 DEF ExpireLease
    <3>2. [row[r] EXCEPT !.expired = TRUE] \in Entry /\ Same([row[r] EXCEPT !.expired = TRUE])
      BY <1>0 DEF Entry
    <3> QED
      BY <3>1, <3>2
  <2>2. CASE MarkLedgerPaid(r)
    <3>1. /\ row[r].status = "claimable"
          /\ row' = [row EXCEPT ![r] = [row[r] EXCEPT !.status = "paid"]]
      BY <2>2 DEF MarkLedgerPaid
    <3>2. [row[r] EXCEPT !.status = "paid"] \in Entry /\ Same([row[r] EXCEPT !.status = "paid"])
      BY <1>0, <3>1 DEF Entry, Status
    <3> QED
      BY <3>1, <3>2
  <2> QED
    BY <2>1, <2>2
<1>2. UNCHANGED local /\ UNCHANGED <<wire, chain, slot>> /\ faults' \in 0 .. MaxFaults
  BY CollectionAssumption DEF ExpireLease, MarkLedgerPaid, Fault, network, IInv, TypeOK
<1>3. \A q \in Row : row'[q] = IF q = r THEN e ELSE row[q]
  BY <1>1 DEF IInv, TypeOK
<1>4. \A q \in Row : RowOK(q, row[q])' /\ Keeps(q)
  BY <1>1, <1>2, <1>3 DEF IInv, RowOK, Keeps
<1>5. TypeOK'
  BY <1>1, <1>2 DEF local, IInv, TypeOK
<1>6. ASSUME NEW d \in Collector
      PROVE  SeesItsBytes(d)
  BY <1>1, <1>2, <1>3, WorkingInv DEF local, SeesItsBytes, Held, Remembers, Working, Control
<1> QED
  BY <1>2, <1>4, <1>5, <1>6, EnvironmentInv

\* The chain decides a transfer once.
LEMMA NetworkStepInv ==
  ASSUME IInv, UNCHANGED <<row, local, wire, faults>>, slot' \in 0 .. MaxSlot,
         chain' \in [Tx -> Fate], \A t \in Tx : chain[t] = "landed" => chain'[t] = "landed"
  PROVE  IInv'
<1>1. \A d \in Collector : SameLocals(d)
  BY DEF local, SameLocals
<1>2. /\ wire' \in [Row -> SUBSET Tx]
      /\ \A r \in Row : wire[r] \subseteq {row[r].signature}
  BY DEF IInv, TypeOK, RowOK
<1>3. /\ \A r \in Row : RowOK(r, row[r])' /\ Keeps(r)
      /\ \A d \in Collector : SeesItsBytes(d)
  BY <1>1, <1>2, NetworkKeeps
<1>4. TypeOK'
  BY DEF local, IInv, TypeOK
<1> QED
  BY <1>3, <1>4, EnvironmentInv

-----------------------------------------------------------------------------
\* The initial states satisfy the invariant: legacy rows are submitted and on
\* the wire, all the others are absent.
LEMMA InitInv == Init => IInv
<1> SUFFICES ASSUME Init PROVE IInv
  OBVIOUS
<1>1. TypeOK
  BY FreshType, CollectionAssumption DEF Init, TypeOK, Control, Fate
<1>2. \A r \in Row : RowOK(r, row[r])
  BY FreshType DEF Init, RowOK
<1>3. (\A c \in Collector : CollectorInv(c)) /\ LeasesDiffer
  BY FreshType DEF Init, CollectorInv, LeasesDiffer, Working
<1> QED
  BY <1>1, <1>2, <1>3 DEF IInv

\* Every step of a collector at work on a row preserves the invariant.
LEMMA CollectorStepInv ==
  ASSUME IInv, NEW c \in Collector, Step(c)
  PROVE  IInv'
<1>1. CASE SeedAccrue(c)      BY <1>1, SeedAccrueInv
<1>2. CASE GiveUp(c)          BY <1>2, GiveUpInv
<1>3. CASE Prepare(c)         BY <1>3, PrepareInv
<1>4. CASE PrepareFails(c)
  BY <1>4, MoveOnInv DEF PrepareFails, network, Control, IInv, TypeOK
<1>5. CASE Persist(c)         BY <1>5, PersistInv
<1>6. CASE Broadcast(c)       BY <1>6, BroadcastInv
<1>7. CASE MarkSubmitted(c)   BY <1>7, MarkSubmittedInv
<1>8. CASE Retry(c)           BY <1>8, RetryInv
<1>9. CASE Rebroadcast(c)     BY <1>9, RebroadcastInv
<1>10. CASE Await(c)
  <2>1. /\ pc[c] = "confirming" /\ UNCHANGED <<row, wire, chain, slot>>
        /\ faults' \in 0 .. MaxFaults
    BY <1>10, CollectionAssumption DEF Await, Fault, network, IInv, TypeOK
  <2>2. PICK label \in {"confirmed", "timedOut", "reverted"} :
          Goto(c, label) /\ (label = "confirmed" => chain[transfer[c]] = "landed")
    BY <1>10 DEF Await
  <2> QED
    BY <2>1, <2>2, MoveOnInv DEF Control
<1>11. CASE SettleConfirmed(c)  BY <1>11, SettleConfirmedInv
<1>12. CASE SettleTimedOut(c)   BY <1>12, SettleTimedOutInv
<1>13. CASE SettleReverted(c)   BY <1>13, SettleRevertedInv
<1>14. CASE Restore(c)          BY <1>14, RestoreInv
<1> QED
  BY <1>1, <1>2, <1>3, <1>4, <1>5, <1>6, <1>7, <1>8, <1>9, <1>10, <1>11, <1>12,
     <1>13, <1>14 DEF Step

\* IInv is inductive.
LEMMA NextInv == IInv /\ [Next]_vars => IInv'
<1> SUFFICES ASSUME IInv, [Next]_vars PROVE IInv'
  OBVIOUS
<1>1. CASE \E c \in Collector : Step(c)
  BY <1>1, CollectorStepInv
<1>2. CASE \E c \in Collector : Poll(c)
  BY <1>2, SeedLookupInv, ClaimInv DEF Poll
<1>3. ASSUME NEW c \in Collector, Crash(c) PROVE IInv'
  BY <1>3, CrashInv, CollectionAssumption DEF Crash, Fault, network, IInv, TypeOK
<1>4. CASE \E r \in Row : ExpireLease(r) \/ MarkLedgerPaid(r)
  BY <1>4, LedgerStepInv
<1>5. ASSUME NEW t \in Tx, NEW fate \in {"landed", "reverted", "expired"},
             chain[t] = "open", chain' = [chain EXCEPT ![t] = fate],
             UNCHANGED <<row, local, wire, slot, faults>>
      PROVE  IInv'
  BY <1>5, NetworkStepInv DEF IInv, TypeOK, Fate
<1>6. CASE \E t \in Tx : Execute(t, "landed") \/ Execute(t, "reverted") \/ Expire(t)
  BY <1>5, <1>6 DEF Execute, Expire
<1>7. CASE NextBlockhash
  <2>1. slot' \in 0 .. MaxSlot /\ UNCHANGED <<row, local, wire, chain, faults>>
    BY <1>7, CollectionAssumption DEF NextBlockhash, IInv, TypeOK
  <2> QED
    BY <2>1, NetworkStepInv DEF IInv, TypeOK
<1>8. CASE UNCHANGED vars
  BY <1>8, NetworkStepInv DEF vars, local, IInv, TypeOK
<1> QED
  BY <1>1, <1>2, <1>3, <1>4, <1>6, <1>7, <1>8 DEF Next, Environment

\* IInv holds in every reachable state, so each of its parts does.
THEOREM Inductive == Spec => []IInv
BY InitInv, NextInv, PTL DEF Spec

\* Every variable keeps its type: no update writes a count above MaxAttempts or
\* a status outside the two enumerations of the ledger.
THEOREM TypeCorrect == Spec => []TypeOK
<1>1. IInv => TypeOK
  BY DEF IInv
<1> QED
  BY <1>1, Inductive, PTL

\* Whatever any number of collectors do, only the transfer a row names is sent.
THEOREM BytesFirst == Spec => []PersistedBeforeBroadcast
<1>1. IInv => PersistedBeforeBroadcast
  BY DEF IInv, RowOK, PersistedBeforeBroadcast
<1> QED
  BY <1>1, Inductive, PTL

\* No row is ever charged by two transfers.
THEOREM ChargedOnce == Spec => []AtMostOneTransfer
<1>1. IInv => AtMostOneTransfer
  BY DEF IInv, RowOK, AtMostOneTransfer
<1> QED
  BY <1>1, Inductive, PTL

\* Cashback is earned by a landed transfer of its own row, and by nothing else.
THEOREM EarnedByConfirmation == Spec => []ClaimableOnlyAfterConfirmation
<1>1. IInv => ClaimableOnlyAfterConfirmation
  BY DEF IInv, TypeOK, Entry, RowOK, ClaimableOnlyAfterConfirmation
<1> QED
  BY <1>1, Inductive, PTL

\* The cashback status and the fee collection of a row never disagree.
THEOREM LifecyclesAgree == Spec => []LedgerAgreesWithCollection
<1>1. IInv => LedgerAgreesWithCollection
  BY DEF IInv, RowOK, LedgerAgreesWithCollection
<1> QED
  BY <1>1, Inductive, PTL

-----------------------------------------------------------------------------
\* A row that is settled keeps its verdict in this step.
Stays(r) == Settled(r) => \/ row'[r] = row[r]
                          \/ row'[r] = [row[r] EXCEPT !.status = "paid"]

\* A fenced update reaches only an unsettled row, for only those are leased.
LEMMA FencedStays ==
  ASSUME IInv, NEW c \in Collector, pc[c] \in Working, NEW e, row' \in {row, Stored(c, e)}
  PROVE  \A r \in Row : Stays(r)
<1>1. job[c] \in Row /\ (Held(c) => ~Settled(job[c]))
  BY WorkingInv DEF Settled
<1>2. CASE row' = row
  BY <1>2 DEF Stays
<1>3. CASE Held(c) /\ row' = [row EXCEPT ![job[c]] = e]
  BY <1>1, <1>3 DEF Stays, IInv, TypeOK
<1> QED
  BY <1>2, <1>3 DEF Stored

\* No step of a collector at work touches a settled row.
LEMMA StepStays ==
  ASSUME IInv, NEW c \in Collector, Step(c)
  PROVE  \A r \in Row : Stays(r)
<1>1. CASE SeedAccrue(c)
  <2>1. job[c] \in Row /\ (row[job[c]] = Absent => ~Settled(job[c]))
    BY <1>1, FreshType DEF SeedAccrue, IInv, CollectorInv, Settled
  <2> QED
    BY <1>1, <2>1 DEF SeedAccrue, Stays, IInv, TypeOK
<1>2. CASE ~SeedAccrue(c)
  <2>1. pc[c] \in Working
    BY <1>2 DEF Step, Working, Control, GiveUp, Prepare, PrepareFails, Persist, Broadcast,
       MarkSubmitted, Retry, Rebroadcast, Await, SettleConfirmed, SettleTimedOut,
       SettleReverted, Restore
  <2>2. PICK e : row' \in {row, Stored(c, e)}
    BY <1>2 DEF Step, GiveUp, Prepare, PrepareFails, Persist, Broadcast, MarkSubmitted,
       Retry, Rebroadcast, Await, SettleConfirmed, SettleTimedOut, SettleReverted,
       Restore, Finish
  <2> QED
    BY <2>1, <2>2, FencedStays
<1> QED
  BY <1>1, <1>2

\* No step at all reopens or overturns a settled row.
LEMMA NextStays ==
  ASSUME IInv, [Next]_vars
  PROVE  \A r \in Row : Stays(r)
<1>1. CASE \E c \in Collector : Step(c)
  BY <1>1, StepStays
<1>2. ASSUME NEW c \in Collector, NEW r \in Row, NEW k \in Token, Claim(c, r, k)
      PROVE  \A q \in Row : Stays(q)
  <2>1. ~Settled(r) /\ \A q \in Row : q # r => row'[q] = row[q]
    BY <1>2 DEF Claim, Claimable, Settled, IInv, TypeOK
  <2> QED
    BY <2>1 DEF Stays
<1>3. ASSUME NEW r \in Row, ExpireLease(r)
      PROVE  \A q \in Row : Stays(q)
  <2>1. ~Settled(r) /\ \A q \in Row : q # r => row'[q] = row[q]
    BY <1>3 DEF ExpireLease, Settled, IInv, TypeOK, RowOK
  <2> QED
    BY <2>1 DEF Stays
<1>4. ASSUME NEW r \in Row, MarkLedgerPaid(r)
      PROVE  \A q \in Row : Stays(q)
  BY <1>4 DEF MarkLedgerPaid, Stays, IInv, TypeOK
<1>5. CASE row' = row
  BY <1>5 DEF Stays
<1> QED
  BY <1>1, <1>2, <1>3, <1>4, <1>5
     DEF Next, Poll, Environment, SeedLookup, Crash, Execute, Expire, NextBlockhash, vars

\* A verdict on a row is final, apart from its cashback being paid.
THEOREM VerdictsAreFinal == Spec => SettledRowsStaySettled
<1>1. IInv /\ [Next]_vars
        => [\A r \in Row : Settled(r) =>
              row'[r] = row[r] \/ row'[r] = [row[r] EXCEPT !.status = "paid"]]_vars
  BY NextStays DEF Stays
<1> QED
  BY <1>1, Inductive, PTL DEF Spec, SettledRowsStaySettled

-----------------------------------------------------------------------------
(* The refinement: what a step does to the promise's variables *)

\* A step that settles or opens at most row q, and sends and lands nothing.
Moves(q) ==
  /\ q \in Row /\ UNCHANGED <<wire, chain>>
  /\ row' \in [Row -> Entry]
  /\ \A r \in Row \ {q} : row'[r].collection = row[r].collection
  /\ row[q].collection = "none" => row'[q].collection \in {"none", "pending"}
  /\ row'[q].collection = "none" => row[q].collection = "none"

Rest == UNCHANGED <<wire, chain>> /\ \A r \in Row : row'[r].collection = row[r].collection

\* A step at rest leaves the promise as it is.
LEMMA RestStutters ==
  ASSUME Rest PROVE UNCHANGED Promise!vars
<1>1. [r \in Row |-> Outcome(row[r].collection)]' = [r \in Row |-> Outcome(row[r].collection)]
  BY DEF Rest
<1>2. {t \in Tx : chain[t] = "landed"}' = {t \in Tx : chain[t] = "landed"}
  BY DEF Rest
<1> QED
  BY <1>1, <1>2 DEF Rest, Promise!vars

\* A row goes from absent to open, and from open to the verdict its transfer
\* justifies; a verdict stands (NextStays).
LEMMA MovesPromise ==
  ASSUME IInv, IInv', [Next]_vars, NEW q, Moves(q)
  PROVE  [Promise!Next]_(Promise!vars)
<1> DEFINE out == [r \in Row |-> Outcome(row[r].collection)]
<1>1. /\ q \in Row /\ UNCHANGED <<wire, chain>>
      /\ {t \in Tx : chain[t] = "landed"}' = {t \in Tx : chain[t] = "landed"}
  BY DEF Moves
<1>2. out' = [out EXCEPT ![q] = Outcome(row'[q].collection)]
  BY DEF Moves
<1>3. row[q].collection \in Collection /\ row'[q].collection \in Collection
  BY DEF Moves, IInv, TypeOK, Entry
<1>4. CASE Outcome(row'[q].collection) = Outcome(row[q].collection)
  <2>1. out' = out
    BY <1>2, <1>4
  <2> QED
    BY <1>1, <2>1 DEF Promise!vars
<1>5. CASE Outcome(row'[q].collection) # Outcome(row[q].collection)
  <2>1. ~Settled(q)
    <3>1. row[q] \in Entry
      BY DEF Moves, IInv, TypeOK
    <3>2. [row[q] EXCEPT !.status = "paid"].collection = row[q].collection
      BY <3>1 DEF Entry
    <3>3. Stays(q)
      BY NextStays DEF Moves
    <3> QED
      BY <1>5, <3>2, <3>3 DEF Stays
  <2>2. CASE row[q].collection = "none"
    <3>1. row'[q].collection = "pending"
      BY <1>5, <2>2 DEF Moves
    <3>2. Promise!Open(q)
      BY <1>1, <1>2, <2>2, <3>1 DEF Promise!Open, Outcome
    <3> QED
      BY <1>1, <3>2 DEF Promise!Next
  <2>3. CASE row[q].collection \in {"pending", "submitted"}
    <3>1. row'[q].collection \in {"confirmed", "failed"}
      BY <1>3, <1>5, <2>3 DEF Moves, Outcome, Collection
    <3>2. CASE row'[q].collection = "confirmed"
      <4>1. row'[q].signature \in wire'[q] /\ chain'[row'[q].signature] = "landed"
        BY <1>1, <3>2 DEF IInv, RowOK
      <4>2. wire[q] \cap {t \in Tx : chain[t] = "landed"} # {}
        BY <1>1, <4>1 DEF IInv, TypeOK
      <4>3. Promise!Collect(q)
        BY <1>1, <1>2, <2>3, <3>2, <4>2 DEF Promise!Collect, Outcome
      <4> QED
        BY <1>1, <4>3 DEF Promise!Next
    <3>3. CASE row'[q].collection = "failed"
      <4>1. Promise!Abandon(q)
        BY <1>1, <1>2, <2>3, <3>3 DEF Promise!Abandon, Outcome
      <4> QED
        BY <1>1, <4>1 DEF Promise!Next
    <3> QED
      BY <3>1, <3>2, <3>3
  <2> QED
    BY <1>3, <2>1, <2>2, <2>3 DEF Settled, Collection
<1> QED
  BY <1>4, <1>5

\* The ledger afterwards never forgets the row of a collector at work.
LEMMA FencedMoves ==
  ASSUME IInv, IInv', NEW c \in Collector, pc[c] \in Working, NEW e,
         row' \in {row, Stored(c, e)}, e.collection # "none", UNCHANGED <<wire, chain>>
  PROVE  Moves(job[c])
<1>1. job[c] \in Row /\ row' \in [Row -> Entry]
  BY WorkingInv DEF IInv, TypeOK
<1>2. Held(c) => row[job[c]].collection # "none"
  BY WorkingInv
<1>3. CASE row' = row
  BY <1>1, <1>3 DEF Moves
<1>4. CASE Held(c) /\ row' = [row EXCEPT ![job[c]] = e]
  BY <1>1, <1>2, <1>4 DEF Moves, IInv, TypeOK
<1> QED
  BY <1>3, <1>4 DEF Stored

\* The updates of a collector at work: none of them writes an absent row.
LEMMA UpdatePromise ==
  ASSUME IInv, IInv', [Next]_vars, NEW c \in Collector, pc[c] \in Working,
         NEW e, e.collection # "none", row' \in {row, Stored(c, e)}, UNCHANGED <<wire, chain>>
  PROVE  [Promise!Next]_(Promise!vars)
BY FencedMoves, MovesPromise

\* The only transfer a row ever names reaches the network, or had done so before.
LEMMA SendPromise ==
  ASSUME IInv, NEW q \in Row, NEW t \in Tx, UNCHANGED <<row, chain>>,
         wire' = [wire EXCEPT ![q] = @ \cup {t}],
         row[q].signature = t, row[q].collection # "none"
  PROVE  [Promise!Next]_(Promise!vars)
<1> DEFINE out == [r \in Row |-> Outcome(row[r].collection)]
<1>1. out' = out /\ {u \in Tx : chain[u] = "landed"}' = {u \in Tx : chain[u] = "landed"}
  OBVIOUS
<1>2. RowOK(q, row[q]) /\ wire \in [Row -> SUBSET Tx] /\ row[q].collection \in Collection
  BY DEF IInv, TypeOK, Entry
<1>3. CASE t \in wire[q]
  <2>1. wire' = wire
    BY <1>2, <1>3
  <2> QED
    BY <1>1, <2>1 DEF Promise!vars
<1>4. CASE t \notin wire[q]
  <2>1. wire[q] = {} /\ wire' = [wire EXCEPT ![q] = {t}]
    BY <1>2, <1>4 DEF RowOK
  <2>2. out[q] \in {"open", "abandoned"}
    BY <1>2, <2>1 DEF RowOK, Outcome, Collection
  <2>3. Promise!Send(q, t)
    BY <1>1, <2>1, <2>2 DEF Promise!Send
  <2> QED
    BY <1>1, <2>3 DEF Promise!Next
<1> QED
  BY <1>3, <1>4

\* Every step of a collector at work is one of the promise, or none.
LEMMA StepPromise ==
  ASSUME IInv, IInv', [Next]_vars, NEW c \in Collector, Step(c)
  PROVE  [Promise!Next]_(Promise!vars)
<1> USE DEF Working, Control
<1>1. CASE SeedAccrue(c)
  <2>1. job[c] \in Row /\ row \in [Row -> Entry] /\ row' \in [Row -> Entry]
    BY <1>1 DEF SeedAccrue, IInv, TypeOK, CollectorInv
  <2>2. Moves(job[c])
    BY <1>1, <2>1, FreshType DEF SeedAccrue, Moves, network
  <2> QED
    BY <2>2, MovesPromise
<1>3. CASE GiveUp(c)
  <2>1. /\ pc[c] \in Working /\ UNCHANGED <<wire, chain>>
        /\ row' \in {row, Stored(c, Voided(row[job[c]]))}
    BY <1>3 DEF GiveUp, Finish, network
  <2>2. Voided(row[job[c]]).collection # "none"
    BY <2>1, WorkingInv, ReleasedType
  <2> HIDE DEF Working, Control
  <2> QED
    BY <2>1, <2>2, UpdatePromise
<1>4. CASE Retry(c)
  <2> DEFINE e == [row[job[c]] EXCEPT !.collection = "pending", !.attempts = NextAttempts(c)]
  <2>1. pc[c] \in Working /\ UNCHANGED <<wire, chain>>
    BY <1>4 DEF Retry, network
  <2>2. PICK f \in {Voided(e), Released(e)} : row' \in {row, Stored(c, f)}
    BY <1>4 DEF Retry, Finish
  <2>3. f.collection # "none"
    BY <2>1, WorkingInv DEF Voided, Released, Entry
  <2> HIDE DEF Working, Control
  <2> QED
    BY <2>1, <2>2, <2>3, UpdatePromise
<1>5. CASE SettleConfirmed(c) \/ SettleTimedOut(c) \/ SettleReverted(c)
  <2>1. pc[c] \in Working /\ UNCHANGED <<wire, chain>>
    BY <1>5 DEF SettleConfirmed, SettleTimedOut, SettleReverted, network
  <2>2. PICK f \in {Released([row[job[c]] EXCEPT !.collection = "confirmed", !.status = "claimable",
                                                 !.signature = transfer[c]]),
                    Released([row[job[c]] EXCEPT !.collection = "submitted",
                                                 !.signature = transfer[c]]),
                    Voided([row[job[c]] EXCEPT !.signature = transfer[c]])} :
          row' \in {row, Stored(c, f)}
    BY <1>5 DEF SettleConfirmed, SettleTimedOut, SettleReverted, Finish
  <2>3. f.collection # "none"
    BY <2>1, WorkingInv DEF Voided, Released, Entry
  <2> HIDE DEF Working, Control
  <2> QED
    BY <2>1, <2>2, <2>3, UpdatePromise
<1>6. CASE Restore(c)
  <2>1. pc[c] \in Working /\ UNCHANGED <<wire, chain>>
    BY <1>6 DEF Restore, network
  <2>2. PICK f \in {Released([row[job[c]] EXCEPT !.collection = entry[c].collection])} :
          row' \in {row, Stored(c, f)}
    BY <1>6 DEF Restore
  <2>3. f.collection # "none"
    BY <2>1, WorkingInv DEF Remembers, Released, Entry
  <2> HIDE DEF Working, Control
  <2> QED
    BY <2>1, <2>2, <2>3, UpdatePromise
<1>7. CASE Persist(c) \/ MarkSubmitted(c)
  <2>1. pc[c] \in Working /\ UNCHANGED <<wire, chain>>
    BY <1>7 DEF Persist, MarkSubmitted, network
  <2>2. PICK f \in {[row[job[c]] EXCEPT !.collection = "pending",
                                        !.signature = transfer[c], !.transaction = transfer[c]],
                    [row[job[c]] EXCEPT !.collection = "submitted", !.signature = transfer[c],
                                        !.attempts = NextAttempts(c)]} :
          row' \in {row, Stored(c, f)}
    BY <1>7 DEF Persist, MarkSubmitted
  <2>3. f.collection # "none"
    BY <2>1, WorkingInv DEF Entry
  <2> HIDE DEF Working, Control
  <2> QED
    BY <2>1, <2>2, <2>3, UpdatePromise
<1>8. CASE Prepare(c) \/ PrepareFails(c) \/ Await(c)
  <2>1. Rest
    BY <1>8 DEF Prepare, PrepareFails, Await, network, Rest
  <2> QED
    BY <2>1, RestStutters
<1>9. CASE Broadcast(c)
  <2>1. CASE UNCHANGED wire
    <3>1. Rest
      BY <1>9, <2>1 DEF Broadcast, Rest
    <3> QED
      BY <3>1, RestStutters
  <2>2. CASE wire' = [wire EXCEPT ![job[c]] = @ \cup {transfer[c]}]
    <3>1. /\ job[c] \in Row /\ NoTx \notin Tx /\ RowOK(job[c], row[job[c]]) /\ Progressed(c)
      BY <1>9, WorkingInv DEF Broadcast
    <3>2. /\ transfer[c] \in Tx /\ row[job[c]].signature = transfer[c]
          /\ row[job[c]].collection # "none"
      BY <1>9, <3>1 DEF Broadcast, Progressed, Signed, RowOK
    <3>3. UNCHANGED <<row, chain>>
      BY <1>9 DEF Broadcast
    <3> QED
      BY <2>2, <3>1, <3>2, <3>3, SendPromise
  <2> QED
    BY <1>9, <2>1, <2>2 DEF Broadcast
<1>10. CASE Rebroadcast(c)
  <2>1. job[c] \in Row /\ NoTx \notin Tx /\ Remembers(c)
    BY <1>10, WorkingInv DEF Rebroadcast
  <2>2. entry[c].transaction # NoTx => entry[c].transaction \in wire[job[c]]
    BY <1>10, <2>1 DEF Rebroadcast, Remembers
  <2>3. wire' = wire
    <3>1. wire \in [Row -> SUBSET Tx]
      BY DEF IInv, TypeOK
    <3>2. CASE /\ entry[c].transaction # NoTx
               /\ wire' = [wire EXCEPT ![job[c]] = @ \cup {entry[c].transaction}]
      <4>1. wire[job[c]] \cup {entry[c].transaction} = wire[job[c]]
        BY <2>2, <3>2
      <4> QED
        BY <2>1, <3>1, <3>2, <4>1
    <3> QED
      BY <1>10, <3>2 DEF Rebroadcast
  <2>4. Rest
    BY <1>10, <2>3 DEF Rebroadcast, Rest
  <2> QED
    BY <2>4, RestStutters
<1> QED
  BY <1>1, <1>3, <1>4, <1>5, <1>6, <1>7, <1>8, <1>9, <1>10 DEF Step

\* So is every step of the system: leases and crashes are invisible to the
\* promise, and a confirmation on the chain is its Land.
LEMMA NextPromise == IInv /\ IInv' /\ [Next]_vars => [Promise!Next]_(Promise!vars)
<1> SUFFICES ASSUME IInv, IInv', [Next]_vars PROVE [Promise!Next]_(Promise!vars)
  OBVIOUS
<1>1. CASE \E c \in Collector : Step(c)
  BY <1>1, StepPromise
<1>2. ASSUME NEW c \in Collector, NEW r \in Row, NEW k \in Token, Claim(c, r, k)
      PROVE  Rest
  BY <1>2 DEF Claim, Rest, network, IInv, TypeOK, Entry
<1>3. ASSUME NEW r \in Row, ExpireLease(r) \/ MarkLedgerPaid(r)
      PROVE  Rest
  BY <1>3 DEF ExpireLease, MarkLedgerPaid, Rest, network, IInv, TypeOK, Entry
<1>4. ASSUME NEW t \in Tx, Execute(t, "landed")
      PROVE  [Promise!Next]_(Promise!vars)
  <2>1. {u \in Tx : chain[u] = "landed"}' = {u \in Tx : chain[u] = "landed"} \cup {t}
    BY <1>4 DEF Execute, IInv, TypeOK
  <2>2. Promise!Land(t)
    BY <1>4, <2>1 DEF Execute, Sent, Promise!Land
  <2> QED
    BY <2>2 DEF Promise!Next
<1>5. ASSUME NEW t \in Tx, Execute(t, "reverted") \/ Expire(t)
      PROVE  UNCHANGED Promise!vars
  <2>1. {u \in Tx : chain[u] = "landed"}' = {u \in Tx : chain[u] = "landed"}
    BY <1>5 DEF Execute, Expire, IInv, TypeOK
  <2>2. [r \in Row |-> Outcome(row[r].collection)]' = [r \in Row |-> Outcome(row[r].collection)]
    BY <1>5 DEF Execute, Expire
  <2> QED
    BY <1>5, <2>1, <2>2 DEF Execute, Expire, Promise!vars
<1>6. CASE \/ \E c \in Collector : Crash(c) \/ \E r \in Row : SeedLookup(c, r)
           \/ NextBlockhash
           \/ UNCHANGED vars
  <2>1. Rest
    BY <1>6 DEF Crash, SeedLookup, NextBlockhash, vars, network, Rest
  <2> QED
    BY <2>1, RestStutters
<1> QED
  BY <1>1, <1>2, <1>3, <1>4, <1>5, <1>6, RestStutters DEF Next, Poll, Environment

\* A ledger starts with absent rows that owe nothing yet and with legacy rows
\* whose one transfer is out.
LEMMA InitPromise == Init => Promise!Init
<1> SUFFICES ASSUME Init PROVE Promise!Init
  OBVIOUS
<1>1. \A r \in Row : /\ Outcome(row[r].collection) \in {"none", "open"}
                     /\ wire[r] = {} \/ \E t \in Tx : wire[r] = {t}
                     /\ Outcome(row[r].collection) = "none" => wire[r] = {}
  BY FreshType DEF Init, Outcome
<1>2. {t \in Tx : chain[t] = "landed"} = {}
  BY DEF Init
<1>3. wire \in [Row -> {{}} \cup {{t} : t \in Tx}]
  BY <1>1 DEF Init
<1> QED
  BY <1>1, <1>2, <1>3 DEF Promise!Init

\* The collection implements the promise of FeeSettlement: seen through what has
\* become of each fee, what was sent and what landed, every behaviour of any
\* number of collectors is one of the promise's.
THEOREM KeepsThePromise == Spec => PromiseKept
<1>1. Init => Promise!Init
  BY InitPromise
<1>2. IInv /\ IInv' /\ [Next]_vars => [Promise!Next]_(Promise!vars)
  BY NextPromise
<1> QED
  BY <1>1, <1>2, Inductive, PTL DEF Spec, PromiseKept, Promise!Spec
=============================================================================
