-------------------------- MODULE BookkeepingProofs --------------------------
(***************************************************************************)
(* Proofs about what is kept of orders, lamports and chats. First the      *)
(* durable record of copy buys, for any number of runs and requests and    *)
(* any bound on restarts and faults; then the reservations of lamports,    *)
(* for any number of executors and refreshers, any spends and any delays;  *)
(* then the Telegram dialogue and the store of one chat, for any wallets,  *)
(* keys, amounts, settings and failures.                                   *)
(***************************************************************************)
EXTENDS MCBookkeeping, Sequences, FiniteSetTheorems, TLAPS

-----------------------------------------------------------------------------
(* BuyRecord *)

\* A run whose claim was granted and whose verdict is not written.
Busy(b) == stage[b] = "mark" \/ (awaits /\ stage[b] = "send")

\* Where a run is says what it has done.
Runs ==
  \A b \in Buyer :
    /\ stage[b] = "idle" => via[b] = {} /\ b \notin bought
    /\ stage[b] # "idle" => req[b] \in Request
    /\ stage[b] \in {"claim", "reading", "reclaim"} => via[b] = {}
    /\ stage[b] = "send" => b \notin bought
    /\ awaits /\ stage[b] \in {"claim", "reading", "reclaim"} => b \notin bought
    /\ stage[b] = "send" /\ ~awaits => via[b] = {}
    /\ ok[b] <=> b \in bought
    /\ Busy(b) => via[b] = {"table"} \/ (via[b] = {"file"} /\ fallback)

\* The row of a busy run is its own, and claimed.
Registered ==
  \A b \in Buyer : Busy(b) /\ "table" \in via[b] =>
    /\ table[KeyOf(b)].status = "claimed"
    /\ \A c \in Buyer : c # b /\ Busy(c) /\ "table" \in via[c] => KeyOf(c) # KeyOf(b)

\* A run that may still execute its order under its claim in s, or has.
Claimant(b, s) == s \in via[b] /\ (Busy(b) \/ b \in bought)

\* Where claims are awaited a key of a store has one claimant, and its record
\* does not invite another.
Exclusive(store, s) ==
  awaits =>
    \A b \in Buyer : Claimant(b, s) /\ ~Crossed(KeyOf(b)) =>
      /\ store[KeyOf(b)].status \in {"claimed", "submitted"}
      /\ \A c \in Buyer : c # b /\ Claimant(c, s) => KeyOf(c) # KeyOf(b)

Truthful(store) ==
  \A k \in Keys : store[k].status = "submitted" => \E b \in bought : KeyOf(b) = k

IInv ==
  /\ TypeOK /\ Runs /\ Registered
  /\ Exclusive(table, "table") /\ Exclusive(file, "file")
  /\ Truthful(table) /\ Truthful(file)

LEMMA InitInv == RecordAssumption /\ Init => IInv
  <1> SUFFICES ASSUME RecordAssumption, Init PROVE IInv
    OBVIOUS
  <1>1. TypeOK
    <2>1. NoRow \in Row
      BY DEF NoRow, Row
    <2>2. table \in [Keys -> Row] /\ file \in [Keys -> Row]
      BY <2>1 DEF Init
    <2>3. stage \in [Buyer -> Stage] /\ via \in [Buyer -> SUBSET {"table", "file"}]
      BY DEF Init, Stage
    <2>4. req \in [Buyer -> Request \cup {NoRequest}] /\ ok \in [Buyer -> BOOLEAN]
      BY DEF Init
    <2>5. restarts \in 0 .. MaxRestarts /\ faults \in 0 .. MaxFaults
      BY DEF Init, RecordAssumption
    <2>6. awaits \in BOOLEAN /\ fallback \in BOOLEAN
      BY DEF Init
    <2>7. handled \subseteq {q.coin : q \in Request} /\ bought \subseteq Buyer
      BY DEF Init
    <2> QED
      BY <2>2, <2>3, <2>4, <2>5, <2>6, <2>7 DEF TypeOK
  <1>2. Runs
    BY DEF Init, Runs, Busy
  <1>4. Registered /\ Exclusive(table, "table") /\ Exclusive(file, "file")
    BY DEF Init, Registered, Exclusive, Claimant
  <1>3. Truthful(table) /\ Truthful(file)
    BY DEF Init, Truthful, NoRow
  <1> QED
    BY <1>1, <1>2, <1>3, <1>4 DEF IInv

LEMMA KeyType == ASSUME NEW q \in Request PROVE BuyKey(q) \in Keys
  BY DEF Keys

\* A run goes on without touching a store; it is granted nothing.
LEMMA QuietInv ==
  ASSUME IInv, NEW b \in Buyer, NEW label \in {"reading", "reclaim", "done"},
         stage[b] \in {"claim", "reading", "reclaim"} \/ label = "done",
         stage[b] # "idle",
         stage' = [stage EXCEPT ![b] = label],
         faults' \in 0 .. MaxFaults,
         UNCHANGED <<awaits, table, file, fallback, handled, req, ok, via, bought, restarts>>
  PROVE IInv'
  <1> USE DEF IInv
  <1>1. TypeOK'
    <2>1. stage' \in [Buyer -> Stage]
      BY DEF TypeOK, Stage
    <2> QED
      BY <2>1 DEF TypeOK
  <1>2. stage'[b] = label /\ \A c \in Buyer : c # b => stage'[c] = stage[c]
    BY DEF TypeOK
  <1>3. \A c \in Buyer : Busy(c)' => Busy(c)
    BY <1>2 DEF Busy
  <1>4. Runs'
    BY <1>2, <1>3 DEF Runs
  <1>5. Registered'
    BY <1>3 DEF Registered, KeyOf
  <1>6. \A c \in Buyer : \A s : Claimant(c, s)' => Claimant(c, s)
    BY <1>3 DEF Claimant
  <1>7. \A k : Crossed(k)' <=> Crossed(k)
    BY DEF Crossed, KeyOf
  <1>8. Exclusive(table, "table")' /\ Exclusive(file, "file")'
    BY <1>6, <1>7 DEF Exclusive, KeyOf
  <1>9. Truthful(table)' /\ Truthful(file)'
    BY DEF Truthful, KeyOf
  <1> QED
    BY <1>1, <1>4, <1>5, <1>8, <1>9

LEMMA BeginInv ==
  ASSUME IInv, NEW b \in Buyer, NEW q \in Request, Begin(b, q)
  PROVE IInv'
  <1> USE DEF IInv
  <1>1. PICK label \in {"claim", "send"} :
          stage' = [stage EXCEPT ![b] = label] /\ (label = "send" <=> ~awaits)
    BY DEF Begin, Goto
  <1>2. /\ stage[b] = "idle" /\ req' = [req EXCEPT ![b] = q]
        /\ UNCHANGED <<awaits, table, file, fallback, ok, via, bought, restarts, faults>>
    BY DEF Begin
  <1>3. handled' \subseteq {r.coin : r \in Request}
    BY DEF Begin, TypeOK
  <1>4. TypeOK'
    <2>1. stage' \in [Buyer -> Stage] /\ req' \in [Buyer -> Request \cup {NoRequest}]
      BY <1>1, <1>2 DEF TypeOK, Stage
    <2> QED
      BY <1>2, <1>3, <2>1 DEF TypeOK
  <1>5. /\ stage'[b] = label /\ req'[b] = q /\ via[b] = {} /\ b \notin bought
        /\ \A c \in Buyer : c # b => stage'[c] = stage[c] /\ req'[c] = req[c]
    BY <1>1, <1>2 DEF TypeOK, Runs
  <1>6. ~Busy(b)' /\ \A c \in Buyer : c # b => (Busy(c)' <=> Busy(c))
    BY <1>1, <1>2, <1>5 DEF Busy
  <1>7. Runs'
    BY <1>1, <1>2, <1>5, <1>6 DEF Runs
  <1>8. \A c \in Buyer : c # b => KeyOf(c)' = KeyOf(c)
    BY <1>5 DEF KeyOf
  <1>9. Registered'
    BY <1>2, <1>6, <1>8 DEF Registered
  <1>10. \A c \in Buyer : \A s : ~Claimant(b, s)'
           /\ (c # b => (Claimant(c, s)' <=> Claimant(c, s)))
    BY <1>2, <1>5, <1>6 DEF Claimant
  <1>11. \A k : Crossed(k) => Crossed(k)'
    BY <1>2, <1>5, <1>8 DEF Crossed
  <1>12. Exclusive(table, "table")' /\ Exclusive(file, "file")'
    BY <1>2, <1>8, <1>10, <1>11 DEF Exclusive
  <1>13. Truthful(table)' /\ Truthful(file)'
    BY <1>2, <1>5, <1>8 DEF Truthful, TypeOK
  <1> QED
    BY <1>4, <1>7, <1>9, <1>12, <1>13

LEMMA SendInv ==
  ASSUME IInv, NEW b \in Buyer, Send(b)
  PROVE IInv'
  <1> USE DEF IInv
  <1>1. PICK r \in BOOLEAN, label \in {"mark", "claim", "done"} :
          /\ ok' = [ok EXCEPT ![b] = r]
          /\ bought' = IF r THEN bought \cup {b} ELSE bought
          /\ stage' = [stage EXCEPT ![b] = label]
          /\ label = "mark" <=> awaits
          /\ label = "done" => ~r
    BY DEF Send, Goto
  <1>2. /\ stage[b] = "send" /\ b \notin bought /\ req[b] \in Request
        /\ UNCHANGED <<awaits, table, file, fallback, req, via, restarts, faults>>
    BY DEF Send, Runs
  <1>3. handled' \subseteq {q.coin : q \in Request}
    BY DEF Send, TypeOK
  <1>4. TypeOK'
    <2>1. stage' \in [Buyer -> Stage] /\ ok' \in [Buyer -> BOOLEAN] /\ bought' \subseteq Buyer
      BY <1>1 DEF TypeOK, Stage
    <2> QED
      BY <1>2, <1>3, <2>1 DEF TypeOK
  <1>5. /\ stage'[b] = label /\ (ok'[b] <=> r) /\ (b \in bought' <=> r)
        /\ \A c \in Buyer : c # b => /\ stage'[c] = stage[c] /\ ok'[c] = ok[c]
                                     /\ c \in bought' <=> c \in bought
    BY <1>1, <1>2 DEF TypeOK
  <1>6. \A c \in Buyer : Busy(c)' <=> Busy(c)
    BY <1>1, <1>2, <1>5 DEF Busy
  <1>7. Runs'
    BY <1>1, <1>2, <1>5, <1>6 DEF Runs
  <1>8. \A c \in Buyer : KeyOf(c)' = KeyOf(c)
    BY <1>2 DEF KeyOf
  <1>9. Registered'
    BY <1>2, <1>6, <1>8 DEF Registered
  <1>10. awaits => \A c \in Buyer : \A s : Claimant(c, s)' => Claimant(c, s)
    BY <1>1, <1>2, <1>5, <1>6 DEF Claimant, Busy
  <1>11. \A k : Crossed(k) => Crossed(k)'
    BY <1>2 DEF Crossed, KeyOf
  <1>12. Exclusive(table, "table")' /\ Exclusive(file, "file")'
    BY <1>2, <1>8, <1>10, <1>11 DEF Exclusive
  <1>13. Truthful(table)' /\ Truthful(file)'
    BY <1>1, <1>2, <1>8 DEF Truthful, TypeOK
  <1> QED
    BY <1>4, <1>7, <1>9, <1>12, <1>13

\* A claim is granted where the record invites one: no run holds the key there.
LEMMA GrantInv ==
  ASSUME IInv, NEW b \in Buyer, stage[b] \in {"claim", "reclaim"}, Granted(b, "table"),
         NEW k, k = KeyOf(b), table[k].status \in {"none", "failed"},
         table' = [table EXCEPT ![k] = Claimed(req[b])],
         UNCHANGED <<awaits, file, fallback, handled, req, ok, bought, restarts, faults>>
  PROVE IInv'
  <1> USE DEF IInv
  <1>1. PICK label \in {"send", "mark"} :
          stage' = [stage EXCEPT ![b] = label] /\ (label = "send" <=> awaits)
    BY DEF Granted, Goto
  <1>2. via' = [via EXCEPT ![b] = {"table"}] /\ via[b] = {} /\ req[b] \in Request
        /\ (awaits => b \notin bought)
    BY DEF Granted, Runs
  <1>3. k \in Keys /\ Claimed(req[b]) \in Row /\ Claimed(req[b]).status = "claimed"
    BY <1>2, KeyType DEF KeyOf, Claimed, Row, Status
  <1>4. TypeOK'
    <2>1. stage' \in [Buyer -> Stage] /\ via' \in [Buyer -> SUBSET {"table", "file"}]
      BY <1>1, <1>2 DEF TypeOK, Stage
    <2>2. table' \in [Keys -> Row]
      BY <1>3 DEF TypeOK
    <2> QED
      BY <2>1, <2>2 DEF TypeOK
  <1>5. /\ stage'[b] = label /\ via'[b] = {"table"}
        /\ \A c \in Buyer : c # b => stage'[c] = stage[c] /\ via'[c] = via[c]
        /\ table'[k].status = "claimed"
        /\ \A j \in Keys : j # k => table'[j] = table[j]
    BY <1>1, <1>2, <1>3 DEF TypeOK
  <1>6. ~Busy(b) /\ Busy(b)' /\ \A c \in Buyer : c # b => (Busy(c)' <=> Busy(c))
    BY <1>1, <1>5 DEF Busy
  <1>7. Runs'
    BY <1>1, <1>2, <1>5, <1>6 DEF Runs
  <1>8. \A c \in Buyer : KeyOf(c)' = KeyOf(c)
    BY DEF KeyOf
  <1>9. \A c \in Buyer : Busy(c) \/ c \in bought \/ via[c] # {} => req[c] \in Request
          /\ KeyOf(c) \in Keys
    BY KeyType DEF Runs, KeyOf, Busy
  <1>10. Registered'
    <2>1. \A c \in Buyer : Busy(c) /\ "table" \in via[c] => KeyOf(c) # k
      BY DEF Registered
    <2> QED
      BY <1>5, <1>6, <1>8, <1>9, <2>1 DEF Registered
  <1>11. \A c \in Buyer : \A s : c # b => (Claimant(c, s)' <=> Claimant(c, s))
    BY <1>5, <1>6 DEF Claimant
  <1>12. \A j : Crossed(j)' <=> Crossed(j)
    BY <1>2, <1>5, <1>8 DEF Crossed
  <1>13. Exclusive(table, "table")'
    <2>1. awaits /\ ~Crossed(k) => \A c \in Buyer : Claimant(c, "table") => KeyOf(c) # k
      BY DEF Exclusive
    <2>2. Claimant(b, "table")'
      BY <1>5, <1>6 DEF Claimant
    <2> QED
      BY <1>5, <1>8, <1>9, <1>11, <1>12, <2>1, <2>2 DEF Exclusive, Claimant
  <1>14. Exclusive(file, "file")'
    BY <1>5, <1>8, <1>11, <1>12 DEF Exclusive, Claimant
  <1>15. Truthful(table)' /\ Truthful(file)'
    BY <1>5, <1>8 DEF Truthful, TypeOK
  <1> QED
    BY <1>4, <1>7, <1>10, <1>13, <1>14, <1>15

LEMMA GrantInFileInv ==
  ASSUME IInv, NEW b \in Buyer, stage[b] = "claim", Granted(b, "file"),
         NEW k, k = KeyOf(b), file[k].status \in {"none", "failed"},
         file' = [file EXCEPT ![k] = Claimed(req[b])], fallback,
         UNCHANGED <<awaits, table, fallback, handled, req, ok, bought, restarts, faults>>
  PROVE IInv'
  <1> USE DEF IInv
  <1>1. PICK label \in {"send", "mark"} :
          stage' = [stage EXCEPT ![b] = label] /\ (label = "send" <=> awaits)
    BY DEF Granted, Goto
  <1>2. via' = [via EXCEPT ![b] = {"file"}] /\ via[b] = {} /\ req[b] \in Request
        /\ (awaits => b \notin bought)
    BY DEF Granted, Runs
  <1>3. k \in Keys /\ Claimed(req[b]) \in Row /\ Claimed(req[b]).status = "claimed"
    BY <1>2, KeyType DEF KeyOf, Claimed, Row, Status
  <1>4. TypeOK'
    <2>1. stage' \in [Buyer -> Stage] /\ via' \in [Buyer -> SUBSET {"table", "file"}]
      BY <1>1, <1>2 DEF TypeOK, Stage
    <2>2. file' \in [Keys -> Row]
      BY <1>3 DEF TypeOK
    <2> QED
      BY <2>1, <2>2 DEF TypeOK
  <1>5. /\ stage'[b] = label /\ via'[b] = {"file"}
        /\ \A c \in Buyer : c # b => stage'[c] = stage[c] /\ via'[c] = via[c]
        /\ file'[k].status = "claimed"
        /\ \A j \in Keys : j # k => file'[j] = file[j]
    BY <1>1, <1>2, <1>3 DEF TypeOK
  <1>6. ~Busy(b) /\ Busy(b)' /\ \A c \in Buyer : c # b => (Busy(c)' <=> Busy(c))
    BY <1>1, <1>5 DEF Busy
  <1>7. Runs'
    BY <1>1, <1>2, <1>5, <1>6 DEF Runs
  <1>8. \A c \in Buyer : KeyOf(c)' = KeyOf(c)
    BY DEF KeyOf
  <1>9. \A c \in Buyer : Busy(c) \/ c \in bought \/ via[c] # {} => KeyOf(c) \in Keys
    BY KeyType DEF Runs, KeyOf, Busy
  <1>10. Registered'
    BY <1>5, <1>6, <1>8 DEF Registered
  <1>11. \A c \in Buyer : \A s : c # b => (Claimant(c, s)' <=> Claimant(c, s))
    BY <1>5, <1>6 DEF Claimant
  <1>12. \A j : Crossed(j)' <=> Crossed(j)
    BY <1>2, <1>5, <1>8 DEF Crossed
  <1>13. Exclusive(file, "file")'
    <2>1. awaits /\ ~Crossed(k) => \A c \in Buyer : Claimant(c, "file") => KeyOf(c) # k
      BY DEF Exclusive
    <2>2. Claimant(b, "file")'
      BY <1>5, <1>6 DEF Claimant
    <2> QED
      BY <1>5, <1>8, <1>9, <1>11, <1>12, <2>1, <2>2 DEF Exclusive, Claimant
  <1>14. Exclusive(table, "table")'
    BY <1>5, <1>8, <1>11, <1>12 DEF Exclusive, Claimant
  <1>15. Truthful(table)' /\ Truthful(file)'
    BY <1>5, <1>8 DEF Truthful, TypeOK
  <1> QED
    BY <1>4, <1>7, <1>10, <1>13, <1>14, <1>15

\* The call that claims throws, and may have been applied: the record then
\* belongs to nobody.
LEMMA LostClaimInv ==
  ASSUME IInv, NEW b \in Buyer, stage[b] \in {"claim", "reclaim"},
         stage' = [stage EXCEPT ![b] = "done"],
         NEW k, k = KeyOf(b), table[k].status \in {"none", "failed"},
         table' = [table EXCEPT ![k] = Claimed(req[b])],
         faults' \in 0 .. MaxFaults,
         UNCHANGED <<awaits, file, fallback, handled, req, ok, via, bought, restarts>>
  PROVE IInv'
  <1> USE DEF IInv
  <1>1. via[b] = {} /\ req[b] \in Request
    BY DEF Runs
  <1>2. k \in Keys /\ Claimed(req[b]) \in Row /\ Claimed(req[b]).status = "claimed"
    BY <1>1, KeyType DEF KeyOf, Claimed, Row, Status
  <1>3. TypeOK'
    <2>1. stage' \in [Buyer -> Stage]
      BY DEF TypeOK, Stage
    <2>2. table' \in [Keys -> Row]
      BY <1>2 DEF TypeOK
    <2> QED
      BY <2>1, <2>2 DEF TypeOK
  <1>4. /\ stage'[b] = "done" /\ \A c \in Buyer : c # b => stage'[c] = stage[c]
        /\ table'[k].status = "claimed"
        /\ \A j \in Keys : j # k => table'[j] = table[j]
    BY <1>2 DEF TypeOK
  <1>5. \A c \in Buyer : Busy(c)' => Busy(c)
    BY <1>4 DEF Busy
  <1>6. Runs'
    BY <1>4, <1>5 DEF Runs
  <1>7. \A c \in Buyer : KeyOf(c)' = KeyOf(c)
    BY DEF KeyOf
  <1>8. \A c \in Buyer : via[c] # {} => KeyOf(c) \in Keys
    BY KeyType DEF Runs, KeyOf
  <1>9. Registered'
    BY <1>4, <1>5, <1>7, <1>8 DEF Registered
  <1>10. \A c \in Buyer : \A s : Claimant(c, s)' => Claimant(c, s)
    BY <1>5 DEF Claimant
  <1>11. \A j : Crossed(j)' <=> Crossed(j)
    BY <1>7 DEF Crossed
  <1>12. Exclusive(table, "table")'
    <2>1. \A c \in Buyer : Claimant(c, "table") => KeyOf(c) \in Keys
      BY <1>8 DEF Claimant
    <2> QED
      BY <1>4, <1>7, <1>10, <1>11, <2>1 DEF Exclusive
  <1>13. Exclusive(file, "file")'
    BY <1>7, <1>10, <1>11 DEF Exclusive
  <1>14. Truthful(table)' /\ Truthful(file)'
    BY <1>4, <1>7 DEF Truthful, TypeOK
  <1> QED
    BY <1>3, <1>6, <1>9, <1>12, <1>13, <1>14

LEMMA FaultType ==
  ASSUME RecordAssumption, TypeOK, UNCHANGED faults \/ Fault
  PROVE faults' \in 0 .. MaxFaults
  <1>1. faults \in 0 .. MaxFaults /\ MaxFaults \in Nat
    BY DEF TypeOK, RecordAssumption
  <1> QED
    BY <1>1 DEF Fault

LEMMA ClaimInFileInv ==
  ASSUME RecordAssumption, IInv, NEW b \in Buyer, ClaimInFile(b)
  PROVE IInv'
  <1>1. /\ stage[b] = "claim" /\ fallback /\ req[b] \in Request
        /\ UNCHANGED <<awaits, table, fallback, handled, req, ok, bought, restarts>>
    BY DEF ClaimInFile, IInv, Runs
  <1>2. CASE Refused(b) /\ UNCHANGED file
    <2>1. faults' \in 0 .. MaxFaults
      BY FaultType DEF ClaimInFile, IInv
    <2> QED
      BY <1>1, <1>2, <2>1, QuietInv DEF Refused, Goto
  <1>3. CASE /\ Rivals(req[b]) = {} \/ Reclaimable(req[b], file[BuyKey(req[b])])
             /\ file' = [file EXCEPT ![BuyKey(req[b])] = Claimed(req[b])]
             /\ Granted(b, "file") /\ UNCHANGED faults
    <2>1. BuyKey(req[b]) \in Keys /\ file[BuyKey(req[b])] \in Row
      BY <1>1, KeyType DEF IInv, TypeOK
    <2>2. file[KeyOf(b)].status \in {"none", "failed"}
      BY <1>3, <2>1 DEF Rivals, Reclaimable, KeyOf, Row
    <2> QED
      BY <1>1, <1>3, <2>2, GrantInFileInv DEF KeyOf
  <1> QED
    BY <1>2, <1>3 DEF ClaimInFile

LEMMA InsertRowInv ==
  ASSUME RecordAssumption, IInv, NEW b \in Buyer, InsertRow(b)
  PROVE IInv'
  <1>1. /\ stage[b] = "claim" /\ ~fallback /\ table[KeyOf(b)].status = "none"
        /\ UNCHANGED <<awaits, file, fallback, handled, req, ok, bought, restarts>>
    BY DEF InsertRow, Conflict, KeyOf
  <1>2. faults' \in 0 .. MaxFaults
    BY FaultType DEF InsertRow, IInv
  <1>3. CASE /\ table' = [table EXCEPT ![KeyOf(b)] = Claimed(req[b])]
             /\ Granted(b, "table") /\ UNCHANGED faults
    BY <1>1, <1>3, GrantInv
  <1>4. CASE Refused(b) /\ table' = table
    BY <1>1, <1>2, <1>4, QuietInv DEF Refused, Goto
  <1>5. CASE Refused(b) /\ table' = [table EXCEPT ![KeyOf(b)] = Claimed(req[b])]
    BY <1>1, <1>2, <1>5, LostClaimInv DEF Refused, Goto
  <1> QED
    BY <1>3, <1>4, <1>5 DEF InsertRow, KeyOf

LEMMA MeetRowInv ==
  ASSUME IInv, NEW b \in Buyer, MeetRow(b)
  PROVE IInv'
  <1>1. /\ stage[b] = "claim"
        /\ UNCHANGED <<awaits, table, file, fallback, handled, req, ok, bought, restarts,
             faults>>
    BY DEF MeetRow
  <1>2. faults' \in 0 .. MaxFaults
    BY <1>1 DEF IInv, TypeOK
  <1>3. PICK label \in {"reading", "done"} : stage' = [stage EXCEPT ![b] = label] /\ via' = via
    BY DEF MeetRow, Refused, Goto
  <1> QED
    BY <1>1, <1>2, <1>3, QuietInv

LEMMA ReadRowInv ==
  ASSUME RecordAssumption, IInv, NEW b \in Buyer, ReadRow(b)
  PROVE IInv'
  <1>1. /\ stage[b] = "reading"
        /\ UNCHANGED <<awaits, table, file, fallback, handled, req, ok, bought, restarts>>
    BY DEF ReadRow
  <1>2. faults' \in 0 .. MaxFaults
    BY FaultType DEF ReadRow, IInv
  <1>3. PICK label \in {"reclaim", "done"} : stage' = [stage EXCEPT ![b] = label] /\ via' = via
    BY DEF ReadRow, Refused, Goto
  <1> QED
    BY <1>1, <1>2, <1>3, QuietInv

LEMMA ReclaimRowInv ==
  ASSUME RecordAssumption, IInv, NEW b \in Buyer, ReclaimRow(b)
  PROVE IInv'
  <1>1. /\ stage[b] = "reclaim"
        /\ UNCHANGED <<awaits, file, fallback, handled, req, ok, bought, restarts>>
    BY DEF ReclaimRow
  <1>2. faults' \in 0 .. MaxFaults
    BY FaultType DEF ReclaimRow, IInv
  <1>3. CASE Refused(b) /\ table' = table
    BY <1>1, <1>2, <1>3, QuietInv DEF Refused, Goto
  <1>4. CASE /\ table[KeyOf(b)].status = "failed" /\ UNCHANGED faults
             /\ table' = [table EXCEPT ![KeyOf(b)] = Claimed(req[b])] /\ Granted(b, "table")
    BY <1>1, <1>4, GrantInv
  <1>5. CASE /\ table[KeyOf(b)].status = "failed" /\ Refused(b)
             /\ table' = [table EXCEPT ![KeyOf(b)] = Claimed(req[b])]
    BY <1>1, <1>2, <1>5, LostClaimInv DEF Refused, Goto
  <1> QED
    BY <1>3, <1>4, <1>5 DEF ReclaimRow, StillFailed, KeyOf

\* The verdict is written over a row that is still the run's own.
LEMMA MarkRowInv ==
  ASSUME RecordAssumption, IInv, NEW b \in Buyer, MarkRow(b)
  PROVE IInv'
  <1> USE DEF IInv
  <1> DEFINE k == KeyOf(b)
  <1>1. /\ stage[b] = "mark" /\ ~fallback /\ stage' = [stage EXCEPT ![b] = "done"]
        /\ UNCHANGED <<awaits, file, fallback, handled, req, ok, via, bought, restarts>>
    BY DEF MarkRow, Goto
  <1>2. faults' \in 0 .. MaxFaults
    BY FaultType DEF MarkRow
  <1>3. CASE table' = table
    BY <1>1, <1>2, <1>3, QuietInv
  <1>4. CASE table' = Marked(table, b)
    <2>1. Busy(b) /\ via[b] = {"table"} /\ req[b] \in Request /\ k \in Keys
      BY <1>1, KeyType DEF Runs, Busy, KeyOf
    <2>2. table[k].status = "claimed" /\ table[k] \in Row
      BY <2>1 DEF Registered, TypeOK
    <2>3. table' = [table EXCEPT ![k].status = IF ok[b] THEN "submitted" ELSE "failed"]
      BY <1>4, <2>2 DEF Marked, KeyOf
    <2>4. /\ table'[k].status = IF ok[b] THEN "submitted" ELSE "failed"
          /\ table'[k] \in Row
          /\ \A j \in Keys : j # k => table'[j] = table[j]
      BY <2>1, <2>2, <2>3 DEF TypeOK, Row, Status
    <2>5. TypeOK'
      <3>1. stage' \in [Buyer -> Stage]
        BY <1>1 DEF TypeOK, Stage
      <3>2. table' \in [Keys -> Row]
        BY <2>3, <2>4 DEF TypeOK
      <3> QED
        BY <1>1, <1>2, <3>1, <3>2 DEF TypeOK
    <2>6. stage'[b] = "done" /\ \A c \in Buyer : c # b => stage'[c] = stage[c]
      BY <1>1 DEF TypeOK
    <2>7. ~Busy(b)' /\ \A c \in Buyer : Busy(c)' => Busy(c)
      BY <1>1, <2>6 DEF Busy
    <2>8. Runs'
      BY <1>1, <2>6, <2>7 DEF Runs
    <2>9. \A c \in Buyer : /\ KeyOf(c)' = KeyOf(c)
                           /\ via[c] # {} => KeyOf(c) \in Keys
      BY <1>1, KeyType DEF KeyOf, Runs
    <2>10. Registered'
      <3>1. \A c \in Buyer : c # b /\ Busy(c) /\ "table" \in via[c] => KeyOf(c) # k
        BY <2>1 DEF Registered
      <3> QED
        BY <1>1, <2>4, <2>7, <2>9, <3>1 DEF Registered
    <2>11. \A c \in Buyer : \A s : Claimant(c, s)' => Claimant(c, s)
      BY <1>1, <2>7 DEF Claimant
    <2>12. \A j : Crossed(j)' <=> Crossed(j)
      BY <1>1, <2>9 DEF Crossed
    <2>13. Exclusive(table, "table")'
      <3>1. Claimant(b, "table")
        BY <2>1 DEF Claimant
      <3>2. awaits => \A c \in Buyer : c # b /\ Claimant(c, "table") /\ ~Crossed(KeyOf(c)) =>
              KeyOf(c) # k
        BY <3>1 DEF Exclusive
      <3>3. Claimant(b, "table")' => table'[k].status = "submitted"
        BY <1>1, <2>4, <2>7 DEF Claimant, Runs
      <3>4. \A c \in Buyer : Claimant(c, "table") => KeyOf(c) \in Keys
        BY <2>9 DEF Claimant
      <3> QED
        BY <1>1, <2>4, <2>9, <2>11, <2>12, <3>2, <3>3, <3>4 DEF Exclusive
    <2>14. Exclusive(file, "file")'
      BY <1>1, <2>9, <2>11, <2>12 DEF Exclusive
    <2>15. Truthful(table)' /\ Truthful(file)'
      BY <1>1, <2>4, <2>9 DEF Truthful, TypeOK, Runs
    <2> QED
      BY <2>5, <2>8, <2>10, <2>13, <2>14, <2>15
  <1> QED
    BY <1>3, <1>4 DEF MarkRow

\* A run that claimed in the table and completes in the file crosses its key.
LEMMA MarkedInFileInv ==
  ASSUME RecordAssumption, IInv, NEW b \in Buyer, stage[b] = "mark", fallback,
         file' = Marked(file, b), via' = [via EXCEPT ![b] = @ \cup {"file"}], Goto(b, "done"),
         UNCHANGED <<awaits, table, fallback, handled, req, ok, bought, restarts, faults>>
  PROVE IInv'
  <1> USE DEF IInv
  <1> DEFINE k == KeyOf(b)
             verdict == IF ok[b] THEN "submitted" ELSE "failed"
  <1>1. /\ stage[b] = "mark" /\ fallback /\ stage' = [stage EXCEPT ![b] = "done"]
        /\ via' = [via EXCEPT ![b] = @ \cup {"file"}] /\ file' = Marked(file, b)
        /\ UNCHANGED <<awaits, table, fallback, handled, req, ok, bought, restarts, faults>>
    BY DEF Goto
  <1>2. /\ Busy(b) /\ req[b] \in Request /\ k \in Keys /\ file[k] \in Row
        /\ via[b] \in {{"table"}, {"file"}}
    BY <1>1, KeyType DEF Runs, Busy, KeyOf, TypeOK
  <1>3. /\ file'[k].status = IF file[k].status = "none" THEN "none" ELSE verdict
        /\ file' \in [Keys -> Row]
        /\ \A j \in Keys : j # k => file'[j] = file[j]
    <2>1. CASE file[k].status = "none"
      BY <1>1, <2>1 DEF Marked, KeyOf, TypeOK
    <2>2. CASE file[k].status # "none"
      <3>1. file' = [file EXCEPT ![k].status = verdict]
        BY <1>1, <2>2 DEF Marked, KeyOf
      <3>2. [file[k] EXCEPT !.status = verdict] \in Row
        BY <1>2 DEF Row, Status
      <3> QED
        BY <1>2, <2>2, <3>1, <3>2 DEF TypeOK, Row
    <2> QED
      BY <2>1, <2>2
  <1>4. TypeOK'
    <2>1. stage' \in [Buyer -> Stage] /\ via' \in [Buyer -> SUBSET {"table", "file"}]
      BY <1>1 DEF TypeOK, Stage
    <2> QED
      BY <1>1, <1>3, <2>1 DEF TypeOK
  <1>5. /\ stage'[b] = "done" /\ via'[b] = via[b] \cup {"file"}
        /\ \A c \in Buyer : c # b => stage'[c] = stage[c] /\ via'[c] = via[c]
    BY <1>1 DEF TypeOK
  <1>6. ~Busy(b)' /\ \A c \in Buyer : Busy(c)' => Busy(c)
    BY <1>1, <1>5 DEF Busy
  <1>7. Runs'
    BY <1>1, <1>5, <1>6 DEF Runs
  <1>8. \A c \in Buyer : /\ KeyOf(c)' = KeyOf(c)
                         /\ via[c] # {} => KeyOf(c) \in Keys
    BY <1>1, KeyType DEF KeyOf, Runs
  <1>9. Registered'
    BY <1>1, <1>5, <1>6, <1>8 DEF Registered
  <1>10. \A c \in Buyer : /\ Claimant(c, "table")' => Claimant(c, "table")
                          /\ c # b /\ Claimant(c, "file")' => Claimant(c, "file")
    BY <1>1, <1>5, <1>6 DEF Claimant
  <1>11. \A j : Crossed(j) => Crossed(j)'
    <2>1. \A c \in Buyer : via[c] = {"table", "file"} => via'[c] = {"table", "file"}
      BY <1>5
    <2> QED
      BY <1>1, <1>8, <2>1 DEF Crossed
  <1>12. Exclusive(table, "table")'
    BY <1>1, <1>8, <1>10, <1>11 DEF Exclusive
  <1>13. Exclusive(file, "file")'
    <2>0. \A c \in Buyer : Claimant(c, "file") => KeyOf(c) \in Keys
      BY <1>8 DEF Claimant
    <2>1. CASE via[b] = {"table"} /\ req[b] # NoRequest
      <3>1. Crossed(k)'
        BY <1>1, <1>5, <1>8, <2>1 DEF Crossed
      <3> QED
        BY <1>1, <1>3, <1>8, <1>10, <1>11, <2>0, <3>1 DEF Exclusive
    <2>2. CASE via[b] = {"file"}
      <3>1. Claimant(b, "file")
        BY <1>2, <2>2 DEF Claimant
      <3>2. awaits => \A c \in Buyer : c # b /\ Claimant(c, "file") /\ ~Crossed(KeyOf(c)) =>
              KeyOf(c) # k
        BY <3>1 DEF Exclusive
      <3>3. awaits /\ Claimant(b, "file")' /\ ~Crossed(k) =>
              /\ file'[k].status = "submitted"
              /\ \A c \in Buyer : c # b /\ Claimant(c, "file") => KeyOf(c) # k
        BY <1>1, <1>3, <1>6, <3>1 DEF Claimant, Runs, Exclusive
      <3> QED
        BY <1>1, <1>3, <1>8, <1>10, <1>11, <2>0, <3>2, <3>3 DEF Exclusive
    <2> QED
      BY <1>2, <2>1, <2>2 DEF RecordAssumption
  <1>14. Truthful(table)' /\ Truthful(file)'
    BY <1>1, <1>3, <1>8 DEF Truthful, TypeOK, Runs
  <1> QED
    BY <1>4, <1>7, <1>9, <1>12, <1>13, <1>14

LEMMA MarkInFileInv ==
  ASSUME RecordAssumption, IInv, NEW b \in Buyer, MarkInFile(b)
  PROVE IInv'
  <1>1. /\ stage[b] = "mark" /\ fallback /\ Goto(b, "done")
        /\ UNCHANGED <<awaits, table, fallback, handled, req, ok, bought, restarts>>
    BY DEF MarkInFile
  <1>2. CASE /\ file' = Marked(file, b) /\ via' = [via EXCEPT ![b] = @ \cup {"file"}]
             /\ UNCHANGED faults
    BY <1>1, <1>2, MarkedInFileInv
  <1>3. CASE Fault /\ UNCHANGED <<file, via>>
    <2>1. faults' \in 0 .. MaxFaults
      BY <1>3, FaultType DEF IInv
    <2> QED
      BY <1>1, <1>3, <2>1, QuietInv DEF Goto
  <1> QED
    BY <1>2, <1>3 DEF MarkInFile

LEMMA FallbackInv ==
  ASSUME RecordAssumption, IInv, NEW b \in Buyer, ActivateFallback(b)
  PROVE IInv'
  <1> USE DEF IInv
  <1>1. /\ fallback' = TRUE
        /\ UNCHANGED <<awaits, table, file, handled, stage, req, ok, via, bought, restarts>>
    BY DEF ActivateFallback
  <1>2. faults' \in 0 .. MaxFaults
    BY FaultType DEF ActivateFallback
  <1>3. TypeOK'
    BY <1>1, <1>2 DEF TypeOK
  <1>4. Runs' /\ Registered'
    BY <1>1 DEF Runs, Registered, Busy, KeyOf
  <1>5. Exclusive(table, "table")' /\ Exclusive(file, "file")'
    BY <1>1 DEF Exclusive, Claimant, Busy, Crossed, KeyOf
  <1>6. Truthful(table)' /\ Truthful(file)'
    BY <1>1 DEF Truthful, KeyOf
  <1> QED
    BY <1>3, <1>4, <1>5, <1>6

LEMMA RestartInv ==
  ASSUME RecordAssumption, IInv, Restart
  PROVE IInv'
  <1> USE DEF IInv
  <1>1. /\ fallback' = FALSE /\ handled' = {}
        /\ stage' = [b \in Buyer |-> IF stage[b] = "idle" THEN "idle" ELSE "done"]
        /\ UNCHANGED <<awaits, table, file, req, ok, via, bought, faults>>
    BY DEF Restart
  <1>2. TypeOK'
    <2>1. restarts' \in 0 .. MaxRestarts
      BY DEF Restart, RecordAssumption, TypeOK
    <2>2. stage' \in [Buyer -> Stage]
      BY <1>1 DEF Stage
    <2> QED
      BY <1>1, <2>1, <2>2 DEF TypeOK
  <1>3. \A b \in Buyer : /\ stage'[b] \in {"idle", "done"}
                         /\ stage'[b] = "idle" <=> stage[b] = "idle"
    BY <1>1
  <1>4. \A b \in Buyer : ~Busy(b)'
    BY <1>3 DEF Busy
  <1>5. Runs'
    BY <1>1, <1>3, <1>4 DEF Runs
  <1>6. Registered'
    BY <1>4 DEF Registered
  <1>7. \A b \in Buyer : \A s : Claimant(b, s)' => Claimant(b, s)
    BY <1>1, <1>4 DEF Claimant
  <1>8. \A k : Crossed(k)' <=> Crossed(k)
    BY <1>1 DEF Crossed, KeyOf
  <1>9. Exclusive(table, "table")' /\ Exclusive(file, "file")'
    BY <1>1, <1>7, <1>8 DEF Exclusive, KeyOf
  <1>10. Truthful(table)' /\ Truthful(file)'
    BY <1>1 DEF Truthful, KeyOf
  <1> QED
    BY <1>2, <1>5, <1>6, <1>9, <1>10

LEMMA Inductive == RecordAssumption /\ IInv /\ [Next]_vars => IInv'
  <1> SUFFICES ASSUME RecordAssumption, IInv, [Next]_vars PROVE IInv'
    OBVIOUS
  <1>1. ASSUME NEW b \in Buyer, NEW q \in Request, Begin(b, q) PROVE IInv'
    BY <1>1, BeginInv
  <1>2. ASSUME NEW b \in Buyer, Step(b) PROVE IInv'
    BY <1>2, SendInv, ClaimInFileInv, InsertRowInv, MeetRowInv, ReadRowInv, ReclaimRowInv,
       MarkInFileInv, MarkRowInv DEF Step
  <1>3. ASSUME NEW b \in Buyer, ActivateFallback(b) PROVE IInv'
    BY <1>3, FallbackInv
  <1>4. CASE Restart
    BY <1>4, RestartInv
  <1>5. CASE UNCHANGED vars
    <2>1. TypeOK' /\ Runs' /\ Registered'
      BY <1>5 DEF vars, IInv, TypeOK, Runs, Registered, Busy, KeyOf
    <2>2. Exclusive(table, "table")' /\ Exclusive(file, "file")'
      BY <1>5 DEF vars, IInv, Exclusive, Claimant, Busy, Crossed, KeyOf
    <2>3. Truthful(table)' /\ Truthful(file)'
      BY <1>5 DEF vars, IInv, Truthful, KeyOf
    <2> QED
      BY <2>1, <2>2, <2>3 DEF IInv
  <1> QED
    BY <1>1, <1>2, <1>3, <1>4, <1>5 DEF Next

THEOREM Invariance ==
  ASSUME RecordAssumption
  PROVE Spec => []IInv
  <1>1. IInv /\ [Next]_vars => IInv'
    BY Inductive
  <1>2. Init => IInv
    BY InitInv
  <1> QED
    BY <1>1, <1>2, PTL DEF Spec

\* The records and the runs keep their types.
THEOREM TypeCorrect ==
  ASSUME RecordAssumption
  PROVE Spec => []TypeOK
  <1>1. IInv => TypeOK
    BY DEF IInv
  <1> QED
    BY <1>1, Invariance, PTL

\* A provider that waits for its claim buys once per key and store
\* (claimBuy, reclaimFailed).
THEOREM BuysOncePerStore ==
  ASSUME RecordAssumption
  PROVE Spec => []BoughtOncePerStore
  <1>1. IInv => BoughtOncePerStore
    <2> SUFFICES ASSUME IInv, awaits, NEW b \in bought, NEW c \in bought, b # c,
                        KeyOf(b) = KeyOf(c), ~Crossed(KeyOf(b)),
                        NEW s \in via[b], s \in via[c]
                 PROVE FALSE
      BY DEF BoughtOncePerStore
    <2>1. b \in Buyer /\ c \in Buyer /\ s \in {"table", "file"}
      BY DEF IInv, TypeOK
    <2>2. Claimant(b, s) /\ Claimant(c, s)
      BY DEF Claimant
    <2> QED
      BY <2>1, <2>2 DEF IInv, Exclusive
  <1> QED
    BY <1>1, Invariance, PTL

\* A record never tells an executed order for a failed one, where its claim was
\* awaited, nor a submission that did not happen (completeBuy, failBuy).
THEOREM RecordsTellOutcomes ==
  ASSUME RecordAssumption
  PROVE Spec => []RecordTellsOutcome
  <1>1. IInv => RecordTellsOutcome
    <2> SUFFICES ASSUME IInv, NEW k \in Keys, NEW s \in {"table", "file"}
                 PROVE LET row == IF s = "table" THEN table[k] ELSE file[k]
                           holders == {b \in bought : KeyOf(b) = k} IN
                       /\ row.status = "submitted" => holders # {}
                       /\ row.status = "failed" /\ awaits /\ ~Crossed(k) =>
                            \A b \in holders : s \notin via[b]
      BY DEF RecordTellsOutcome
    <2>1. ASSUME NEW b \in bought, KeyOf(b) = k, s \in via[b]
          PROVE b \in Buyer /\ Claimant(b, s)
      BY <2>1 DEF IInv, TypeOK, Claimant
    <2>2. CASE s = "table"
      BY <2>1, <2>2 DEF IInv, Truthful, Exclusive
    <2>3. CASE s = "file"
      BY <2>1, <2>3 DEF IInv, Truthful, Exclusive
    <2> QED
      BY <2>2, <2>3
  <1> QED
    BY <1>1, Invariance, PTL

\* The table is a register of claims: a late completion never rewrites a
\* verdict, although completions are written by key alone.
THEOREM VerdictsStay ==
  ASSUME RecordAssumption
  PROVE Spec => VerdictsStand
  <1>1. IInv /\ [Next]_vars => RegisterStep(table, table') \/ UNCHANGED vars
    <2> SUFFICES ASSUME IInv, Next, NEW k \in Keys
                 PROVE \/ table'[k].status = table[k].status
                       \/ table[k].status \in {"none", "failed"} /\ table'[k].status = "claimed"
                       \/ table[k].status = "claimed"
                            /\ table'[k].status \in {"submitted", "failed"}
      BY DEF RegisterStep
    <2> USE DEF IInv
    <2> DEFINE Reclaims == table[k].status \in {"none", "failed"}
          /\ table'[k].status = "claimed"
    <2>1. ASSUME NEW b \in Buyer, table' = [table EXCEPT ![BuyKey(req[b])] = Claimed(req[b])],
                 table[BuyKey(req[b])].status \in {"none", "failed"}
          PROVE table'[k] = table[k] \/ Reclaims
      <3>1. CASE k = BuyKey(req[b])
        <4>1. table'[k] = Claimed(req[b])
          BY <2>1, <3>1 DEF TypeOK
        <4> QED
          BY <2>1, <3>1, <4>1 DEF Claimed
      <3>2. CASE k # BuyKey(req[b])
        BY <2>1, <3>2 DEF TypeOK
      <3> QED
        BY <3>1, <3>2
    <2>2. ASSUME NEW b \in Buyer, InsertRow(b)
          PROVE table' = table \/ table'[k] = table[k] \/ Reclaims
      <3>1. table[BuyKey(req[b])].status = "none"
        BY <2>2 DEF InsertRow, Conflict
      <3>2. table' = table \/ table' = [table EXCEPT ![BuyKey(req[b])] = Claimed(req[b])]
        BY <2>2 DEF InsertRow
      <3> QED
        BY <2>1, <3>1, <3>2
    <2>3. ASSUME NEW b \in Buyer, ReclaimRow(b)
          PROVE table' = table \/ table'[k] = table[k] \/ Reclaims
      <3>1. \/ table' = table
            \/ /\ table' = [table EXCEPT ![BuyKey(req[b])] = Claimed(req[b])]
               /\ table[BuyKey(req[b])].status = "failed"
        BY <2>3 DEF ReclaimRow, StillFailed
      <3> QED
        BY <2>1, <3>1
    <2>4. ASSUME NEW b \in Buyer, MarkRow(b), table' # table
          PROVE \/ table'[k] = table[k]
                \/ table[k].status = "claimed" /\ table'[k].status \in {"submitted", "failed"}
      <3>1. Busy(b) /\ via[b] = {"table"} /\ KeyOf(b) \in Keys
        BY <2>4, KeyType DEF MarkRow, Runs, Busy, KeyOf
      <3>2. table[KeyOf(b)].status = "claimed" /\ table[KeyOf(b)] \in Row
        BY <3>1 DEF Registered, TypeOK
      <3>3. table' = [table EXCEPT ![KeyOf(b)].status = IF ok[b] THEN "submitted" ELSE "failed"]
        BY <2>4, <3>2 DEF MarkRow, Marked, KeyOf
      <3> QED
        BY <3>1, <3>2, <3>3 DEF TypeOK, Row
    <2>5. CASE table' = table
      BY <2>5
    <2> QED
      BY <2>2, <2>3, <2>4, <2>5 DEF Next, Step, Begin, Send, ClaimInFile, MeetRow, ReadRow,
         MarkInFile, ActivateFallback, Restart
  <1>2. IInv /\ [Next]_vars => [RegisterStep(table, table')]_vars
    BY <1>1
  <1> QED
    BY <1>2, Invariance, PTL DEF Spec, VerdictsStand

-----------------------------------------------------------------------------
(* BalanceLedger: sums *)

\* The instance has the operators of FiniteSets for its own.
LEMMA SameSets ==
  \A S : Ledger!Cardinality(S) = Cardinality(S) /\ (Ledger!IsFiniteSet(S) <=> IsFiniteSet(S))
BY DEF Cardinality, Ledger!Cardinality, IsFiniteSet, Ledger!IsFiniteSet

\* The spend of one executor.
LEMMA OneSpend ==
  ASSUME Ledger!LedgerAssumption, NEW e \in Executor
  PROVE  /\ Spend[e] \in Nat /\ Spend[e] > 0
         /\ IsFiniteSet({e} \X (1 .. Spend[e]))
         /\ Cardinality({e} \X (1 .. Spend[e])) = Spend[e]
<1>1. Spend[e] \in Nat /\ Spend[e] > 0
  BY DEF Ledger!LedgerAssumption
<1>2. IsFiniteSet({e}) /\ Cardinality({e}) = 1
  BY FS_Singleton
<1>3. IsFiniteSet(1 .. Spend[e]) /\ Cardinality(1 .. Spend[e]) = Spend[e]
  <2>1. 1 \in Int /\ Spend[e] \in Int /\ ~(1 > Spend[e]) /\ Spend[e] - 1 + 1 = Spend[e]
    BY <1>1
  <2> QED
    BY <2>1, FS_Interval
<1>4. /\ IsFiniteSet({e} \X (1 .. Spend[e]))
      /\ Cardinality({e} \X (1 .. Spend[e])) = 1 * Spend[e]
  BY <1>2, <1>3, FS_Product
<1> QED
  BY <1>1, <1>4

\* Lamports are counted one by one: sums of spends behave as cardinalities.
LEMMA TotalType ==
  ASSUME Ledger!LedgerAssumption, NEW S \in SUBSET Executor
  PROVE  IsFiniteSet(Ledger!Lamports(S)) /\ Ledger!Total(S) \in Nat
<1> DEFINE f == [e \in S |-> {e} \X (1 .. Spend[e])]
           T == {{e} \X (1 .. Spend[e]) : e \in S}
<1>1. IsFiniteSet(S)
  BY FS_Subset, SameSets DEF Ledger!LedgerAssumption
<1>2. f \in Surjection(S, T)
  BY DEF Surjection
<1>3. IsFiniteSet(T)
  <2> HIDE DEF f, T
  <2> QED
    BY <1>1, <1>2, FS_Surjection
<1>4. \A x \in T : IsFiniteSet(x)
  BY OneSpend
<1>5. IsFiniteSet(UNION T)
  <2> HIDE DEF T
  <2> QED
    BY <1>3, <1>4, FS_UNION
<1> QED
  BY <1>5, FS_CardinalityType, SameSets DEF Ledger!Lamports, Ledger!Total

LEMMA TotalOfNone == Ledger!Total({}) = 0
<1>1. Ledger!Lamports({}) = {}
  BY DEF Ledger!Lamports
<1> QED
  BY <1>1, FS_EmptySet, SameSets DEF Ledger!Total

LEMMA TotalGrows ==
  ASSUME Ledger!LedgerAssumption, NEW S \in SUBSET Executor,
         NEW T \in SUBSET S
  PROVE  Ledger!Total(T) <= Ledger!Total(S)
<1>1. Ledger!Lamports(T) \in SUBSET Ledger!Lamports(S)
  BY DEF Ledger!Lamports
<1>2. IsFiniteSet(Ledger!Lamports(S))
  BY TotalType
<1> QED
  BY <1>1, <1>2, FS_Subset, SameSets DEF Ledger!Total

LEMMA TotalSplits ==
  ASSUME Ledger!LedgerAssumption, NEW S \in SUBSET Executor, NEW T \in SUBSET Executor, S \cap T = {}
  PROVE  Ledger!Total(S \cup T) = Ledger!Total(S) + Ledger!Total(T)
<1>1. /\ Ledger!Lamports(S \cup T) = Ledger!Lamports(S) \cup Ledger!Lamports(T)
      /\ Ledger!Lamports(S) \cap Ledger!Lamports(T) = {}
  BY DEF Ledger!Lamports
<1>2. IsFiniteSet(Ledger!Lamports(S)) /\ IsFiniteSet(Ledger!Lamports(T))
        /\ Ledger!Total(S) \in Nat /\ Ledger!Total(T) \in Nat
  BY TotalType
<1>3. Cardinality(Ledger!Lamports(S) \cup Ledger!Lamports(T)) =
        Cardinality(Ledger!Lamports(S)) + Cardinality(Ledger!Lamports(T)) - Cardinality({})
  BY <1>1, <1>2, FS_Union
<1>4. Cardinality({}) = 0
  BY FS_EmptySet
<1>5. Ledger!Total(S \cup T) = Ledger!Total(S) + Ledger!Total(T) - 0
  BY <1>1, <1>3, <1>4, SameSets DEF Ledger!Total
<1> QED
  BY <1>2, <1>5

LEMMA TotalOfOne ==
  ASSUME Ledger!LedgerAssumption, NEW e \in Executor
  PROVE  Ledger!Total({e}) = Spend[e]
<1>1. Ledger!Lamports({e}) = {e} \X (1 .. Spend[e])
  BY DEF Ledger!Lamports
<1> QED
  BY <1>1, OneSpend, SameSets DEF Ledger!Total

LEMMA TotalAdds ==
  ASSUME Ledger!LedgerAssumption, NEW S \in SUBSET Executor, NEW e \in Executor, e \notin S
  PROVE  Ledger!Total(S \cup {e}) = Ledger!Total(S) + Spend[e]
<1>1. {e} \in SUBSET Executor /\ S \cap {e} = {}
  OBVIOUS
<1> QED
  BY <1>1, TotalSplits, TotalOfOne

LEMMA TotalRemoves ==
  ASSUME Ledger!LedgerAssumption, NEW S \in SUBSET Executor, NEW e \in S
  PROVE  Ledger!Total(S) = Ledger!Total(S \ {e}) + Spend[e]
<1>1. S \ {e} \in SUBSET Executor /\ e \notin S \ {e} /\ (S \ {e}) \cup {e} = S
        /\ e \in Executor
  OBVIOUS
<1> QED
  BY <1>1, TotalAdds

-----------------------------------------------------------------------------
(* BalanceLedger: the invariant *)

LEMMA SetsOfExecutors ==
  /\ Ledger!Counted \in SUBSET Executor /\ Ledger!Outstanding \in SUBSET Executor
  /\ Ledger!Lapsed \in SUBSET Executor
  /\ \A s : Ledger!Missing(s) \in SUBSET Executor
<1>1. Ledger!Counted \subseteq Executor
  BY DEF Ledger!Counted
<1>2. Ledger!Outstanding \subseteq Executor
  BY DEF Ledger!Outstanding
<1>3. Ledger!Lapsed \subseteq Executor
  BY DEF Ledger!Lapsed
<1>4. \A s : Ledger!Missing(s) \subseteq Executor
  BY DEF Ledger!Missing
<1> QED
  BY <1>1, <1>2, <1>3, <1>4

LEMMA LedgerInit == Ledger!LedgerAssumption /\ Ledger!Init => Ledger!LedgerInv
<1> SUFFICES ASSUME Ledger!LedgerAssumption, Ledger!Init PROVE Ledger!LedgerInv
  OBVIOUS
<1>1. /\ Ledger!Counted = {} /\ Ledger!Outstanding = {} /\ Ledger!Lapsed = {} /\ lapsed = {}
      /\ Ledger!Eaten = {} /\ \A s : Ledger!Missing(s) = {}
  BY DEF Ledger!Init, Ledger!Counted, Ledger!Kept, Ledger!Outstanding, Ledger!Lapsed,
     Ledger!Eaten, Ledger!Missing
<1>2. 0 \in Ledger!Time /\ Ledger!Pruned = Ledger!NoEntry /\ funds \in Nat /\ Funds \in Nat
  BY DEF Ledger!Init, Ledger!LedgerAssumption, Ledger!Time, Ledger!Pruned, Ledger!NoEntry
<1>3. Ledger!TypeOK
  <2>1. cache \in [known : BOOLEAN, lamports : Nat, fetched : Ledger!Time, seen : SUBSET Executor]
    <3>1. CASE cache = Ledger!Unknown
      BY <1>2, <3>1, Zenon DEF Ledger!Unknown
    <3>2. CASE cache = [known |-> TRUE, lamports |-> Funds, fetched |-> 0, seen |-> {}]
      BY <1>2, <3>2, Zenon
    <3> QED
      BY <3>1, <3>2 DEF Ledger!Init
  <2>2. answer \in [Refresher -> [open : BOOLEAN, lamports : Nat, seen : SUBSET Executor]]
    BY DEF Ledger!Init, Ledger!NoAnswer
  <2>3. ledger \in [lamports : Nat, expires : Nat]
    BY DEF Ledger!Init, Ledger!NoEntry
  <2>4. /\ ledgerStage \in [Executor -> {"idle", "held", "sending", "done"}]
        /\ since \in [Executor -> Ledger!Time]
        /\ tx \in [Executor -> {"none", "pending", "landed", "dead"}]
        /\ lapsed \subseteq Executor
    BY <1>2 DEF Ledger!Init
  <2> QED
    BY <1>2, <2>1, <2>2, <2>3, <2>4 DEF Ledger!TypeOK, Ledger!Init
<1>4. \A e \in Executor : Ledger!StageInv(e)
  BY DEF Ledger!Init, Ledger!StageInv
<1>5. \A f \in Refresher : ~answer[f].open
  BY DEF Ledger!Init, Ledger!NoAnswer
<1>6. Ledger!Covered
  BY <1>1, <1>2, TotalOfNone DEF Ledger!Covered, Ledger!NoEntry
<1>7. ASSUME cache.known PROVE Ledger!BalanceInv(cache.lamports, cache.seen)
  <2>1. cache.lamports = funds /\ cache.seen = {}
    BY <1>7 DEF Ledger!Init, Ledger!Unknown
  <2>2. Ledger!Total(Ledger!Missing(cache.seen)) = 0
    BY <1>1, TotalOfNone
  <2> QED
    BY <1>2, <2>1, <2>2 DEF Ledger!BalanceInv
<1>8. Ledger!NoOverdraft
  BY <1>1, <1>2, TotalOfNone DEF Ledger!NoOverdraft
<1> QED
  BY <1>1, <1>3, <1>4, <1>5, <1>6, <1>7, <1>8 DEF Ledger!LedgerInv

\* The balances in use and under way stay what they were while nothing lands.
LEMMA BalancesKept ==
  ASSUME UNCHANGED <<funds, cache, answer>>,
         \A x \in Executor : tx'[x] = "landed" <=> tx[x] = "landed",
         Ledger!LedgerInv
  PROVE  /\ (\A f \in Refresher :
               answer[f].open => Ledger!BalanceInv(answer[f].lamports, answer[f].seen))'
         /\ (cache.known => Ledger!BalanceInv(cache.lamports, cache.seen))'
<1>1. /\ cache.lamports \in Nat /\ cache.seen \in SUBSET Executor
      /\ \A f \in Refresher : answer[f].lamports \in Nat /\ answer[f].seen \in SUBSET Executor
  BY DEF Ledger!LedgerInv, Ledger!TypeOK
<1>2. ASSUME NEW f \in Refresher, answer'[f].open
      PROVE  Ledger!BalanceInv(answer[f].lamports, answer[f].seen)'
  <2>1. Ledger!BalanceInv(answer[f].lamports, answer[f].seen)
    BY <1>2 DEF Ledger!LedgerInv
  <2> DEFINE l == answer[f].lamports
             s == answer[f].seen
  <2>2. l' = l /\ s' = s /\ l \in Nat /\ s \in SUBSET Executor
    BY <1>1
  <2>3. Ledger!Missing(s)' = Ledger!Missing(s)
    BY <2>2 DEF Ledger!Missing
  <2> QED
    BY <2>1, <2>2, <2>3 DEF Ledger!BalanceInv, Ledger!Total
<1>3. ASSUME cache'.known PROVE Ledger!BalanceInv(cache.lamports, cache.seen)'
  <2>1. Ledger!BalanceInv(cache.lamports, cache.seen)
    BY <1>3 DEF Ledger!LedgerInv
  <2>2. Ledger!Missing(cache.seen)' = Ledger!Missing(cache.seen)
    BY <1>1 DEF Ledger!Missing
  <2> QED
    BY <1>1, <2>1, <2>2 DEF Ledger!BalanceInv, Ledger!Total
<1> QED
  BY <1>2, <1>3

\* The ledger and the clock stay, and no reservation is counted anew.
LEMMA CoveredKept ==
  ASSUME Ledger!LedgerAssumption, Ledger!TypeOK, Ledger!TypeOK', Ledger!Covered,
         UNCHANGED <<now, ledger, since>>, Ledger!Counted' \subseteq Ledger!Counted,
         Ledger!Eaten \subseteq Ledger!Eaten'
  PROVE  Ledger!Covered'
<1>1. /\ Ledger!Counted \in SUBSET Executor /\ Ledger!Counted' \in SUBSET Ledger!Counted
      /\ Ledger!Eaten' \in SUBSET Executor /\ Ledger!Eaten \in SUBSET Ledger!Eaten'
  BY DEF Ledger!Counted, Ledger!Eaten, Ledger!TypeOK
<1>2. /\ Ledger!Total(Ledger!Counted') <= Ledger!Total(Ledger!Counted)
      /\ Ledger!Total(Ledger!Eaten) <= Ledger!Total(Ledger!Eaten')
  BY <1>1, TotalGrows
<1>3. /\ Ledger!Total(Ledger!Counted') \in Nat /\ Ledger!Total(Ledger!Counted) \in Nat
      /\ Ledger!Total(Ledger!Eaten') \in Nat /\ Ledger!Total(Ledger!Eaten) \in Nat
  <2>1. Ledger!Counted' \in SUBSET Executor /\ Ledger!Eaten \in SUBSET Executor
    BY <1>1
  <2> QED
    BY <1>1, <2>1, TotalType
<1>4. Ledger!Pruned' = Ledger!Pruned /\ Ledger!Pruned.lamports \in Nat
  BY DEF Ledger!Pruned, Ledger!NoEntry, Ledger!TypeOK
<1>5. /\ Ledger!Total(Ledger!Counted)' = Ledger!Total(Ledger!Counted')
      /\ Ledger!Total(Ledger!Eaten)' = Ledger!Total(Ledger!Eaten')
  BY DEF Ledger!Total
<1> QED
  BY <1>2, <1>3, <1>4, <1>5 DEF Ledger!Covered

\* No more is outstanding than before.
LEMMA OverdraftKept ==
  ASSUME Ledger!LedgerAssumption, Ledger!TypeOK, Ledger!TypeOK', Ledger!NoOverdraft,
         funds' = funds, Ledger!Outstanding' \subseteq Ledger!Outstanding,
         lapsed \subseteq lapsed'
  PROVE  Ledger!NoOverdraft'
<1>1. /\ Ledger!Outstanding \in SUBSET Executor
      /\ Ledger!Outstanding' \in SUBSET Ledger!Outstanding
      /\ Ledger!Outstanding' \in SUBSET Executor
      /\ lapsed' \in SUBSET Executor /\ lapsed \in SUBSET lapsed' /\ lapsed \in SUBSET Executor
  BY DEF Ledger!Outstanding, Ledger!TypeOK
<1>2. /\ Ledger!Total(Ledger!Outstanding') <= Ledger!Total(Ledger!Outstanding)
      /\ Ledger!Total(lapsed) <= Ledger!Total(lapsed')
  BY <1>1, TotalGrows
<1>3. /\ Ledger!Total(Ledger!Outstanding') \in Nat /\ Ledger!Total(Ledger!Outstanding) \in Nat
      /\ Ledger!Total(lapsed') \in Nat /\ Ledger!Total(lapsed) \in Nat
  BY <1>1, TotalType
<1>4. /\ Ledger!Total(Ledger!Outstanding)' = Ledger!Total(Ledger!Outstanding')
      /\ Ledger!Total(lapsed)' = Ledger!Total(lapsed') /\ funds \in Nat
  BY DEF Ledger!Total, Ledger!TypeOK
<1> QED
  BY <1>2, <1>3, <1>4 DEF Ledger!NoOverdraft

LEMMA LapsedThen == Ledger!Lapsed' \subseteq Executor
BY DEF Ledger!Lapsed

LEMMA LedgerTypeStep == Ledger!LedgerAssumption /\ Ledger!TypeOK /\ [Ledger!Next]_(Ledger!vars) =>
                          Ledger!TypeOK'
<1> SUFFICES ASSUME Ledger!LedgerAssumption, Ledger!TypeOK,
                    [Ledger!Next]_(Ledger!vars) PROVE Ledger!TypeOK'
  OBVIOUS
<1>0. \A a, b \in Nat : Ledger!Minus(a, b) \in Nat
  BY DEF Ledger!Minus
<1>1. /\ Ledger!Pruned \in [lamports : Nat, expires : Nat]
      /\ Ledger!NoEntry \in [lamports : Nat, expires : Nat]
      /\ \A e \in Executor : Ledger!Reserved(e) \in [lamports : Nat, expires : Nat]
      /\ \A e \in Executor : Ledger!Released(e) \in [lamports : Nat, expires : Nat]
      /\ \A e \in Executor : Spend[e] \in Nat
  BY <1>0 DEF Ledger!Pruned, Ledger!NoEntry, Ledger!Reserved, Ledger!Released, Ledger!TypeOK,
     Ledger!LedgerAssumption, Ledger!Time
<1>2. ASSUME NEW e \in Executor, NEW x \in {"idle", "held", "sending", "done"}
      PROVE  [ledgerStage EXCEPT ![e] = x] \in [Executor -> {"idle", "held", "sending", "done"}]
  BY DEF Ledger!TypeOK
<1>3. ASSUME NEW e \in Executor, NEW x \in {"none", "pending", "landed", "dead"}
      PROVE  [tx EXCEPT ![e] = x] \in [Executor -> {"none", "pending", "landed", "dead"}]
  BY DEF Ledger!TypeOK
<1>4. ASSUME NEW e \in Executor PROVE [since EXCEPT ![e] = now] \in [Executor -> Ledger!Time]
  BY DEF Ledger!TypeOK
<1>5. ASSUME NEW e \in Executor, Ledger!Refuse(e) PROVE Ledger!TypeOK'
  BY <1>2, <1>5 DEF Ledger!TypeOK, Ledger!Refuse
<1>6. ASSUME NEW e \in Executor, Ledger!Reserve(e) PROVE Ledger!TypeOK'
  <2>1. ledger' \in [lamports : Nat, expires : Nat]
    BY <1>1, <1>6 DEF Ledger!TypeOK, Ledger!Reserve
  <2>2. /\ ledgerStage' \in [Executor -> {"idle", "held", "sending", "done"}]
        /\ since' \in [Executor -> Ledger!Time]
    BY <1>2, <1>4, <1>6 DEF Ledger!TypeOK, Ledger!Reserve
  <2> QED
    BY <1>6, <2>1, <2>2 DEF Ledger!TypeOK, Ledger!Reserve
<1>7. ASSUME NEW e \in Executor, Ledger!GiveUp(e) PROVE Ledger!TypeOK'
  BY <1>1, <1>2, <1>7 DEF Ledger!TypeOK, Ledger!GiveUp
<1>8. ASSUME NEW e \in Executor, Ledger!Fanout(e) PROVE Ledger!TypeOK'
  BY <1>2, <1>3, <1>8 DEF Ledger!TypeOK, Ledger!Fanout
<1>9. ASSUME NEW e \in Executor, Ledger!Result(e) PROVE Ledger!TypeOK'
  BY <1>2, <1>9 DEF Ledger!TypeOK, Ledger!Result, Ledger!AfterFanout
<1>10. ASSUME NEW e \in Executor, Ledger!Land(e) \/ Ledger!Die(e) PROVE Ledger!TypeOK'
  <2>1. funds' \in Nat
    BY <1>1, <1>10 DEF Ledger!Land, Ledger!Die, Ledger!TypeOK
  <2>2. tx' \in [Executor -> {"none", "pending", "landed", "dead"}]
    BY <1>3, <1>10 DEF Ledger!Land, Ledger!Die
  <2> QED
    BY <1>10, <2>1, <2>2 DEF Ledger!TypeOK, Ledger!Land, Ledger!Die
<1>11. ASSUME NEW f \in Refresher, Ledger!Ask(f) PROVE Ledger!TypeOK'
  BY <1>11 DEF Ledger!TypeOK, Ledger!Ask
<1>12. ASSUME NEW f \in Refresher, Ledger!Store(f) PROVE Ledger!TypeOK'
  <2>1. Ledger!NoAnswer \in [open : BOOLEAN, lamports : Nat, seen : SUBSET Executor]
    BY DEF Ledger!NoAnswer
  <2>2. answer' \in [Refresher -> [open : BOOLEAN, lamports : Nat, seen : SUBSET Executor]]
    BY <1>12, <2>1 DEF Ledger!TypeOK, Ledger!Store
  <2>3. cache' \in [known : BOOLEAN, lamports : Nat, fetched : Ledger!Time,
                seen : SUBSET Executor]
    <3>1. /\ answer[f].lamports \in Nat /\ answer[f].seen \in SUBSET Executor
          /\ now \in Ledger!Time /\ 0 \in Ledger!Time
      BY DEF Ledger!TypeOK, Ledger!Time, Ledger!LedgerAssumption
    <3>3. Ledger!Unknown \in [known : BOOLEAN, lamports : Nat, fetched : Ledger!Time,
                             seen : SUBSET Executor]
      BY <3>1, Zenon DEF Ledger!Unknown
    <3>2. [known |-> TRUE, lamports |-> answer[f].lamports, fetched |-> now,
           seen |-> answer[f].seen]
            \in [known : BOOLEAN, lamports : Nat, fetched : Ledger!Time,
                seen : SUBSET Executor]
      BY <3>1, Zenon
    <3> QED
      BY <1>12, <3>2, <3>3 DEF Ledger!TypeOK, Ledger!Store
  <2>4. lapsed' \subseteq Executor
    BY <1>12, LapsedThen DEF Ledger!TypeOK, Ledger!Store
  <2> QED
    BY <1>12, <2>2, <2>3, <2>4 DEF Ledger!TypeOK, Ledger!Store
<1>13. CASE Ledger!Tick
  <2>1. lapsed' \subseteq Executor
    BY <1>13, LapsedThen DEF Ledger!TypeOK, Ledger!Tick
  <2> QED
    BY <1>13, <2>1 DEF Ledger!TypeOK, Ledger!Tick, Ledger!Time, Ledger!LedgerAssumption
<1>14. CASE UNCHANGED Ledger!vars
  BY <1>14 DEF Ledger!TypeOK, Ledger!vars
<1> QED
  BY <1>5, <1>6, <1>7, <1>8, <1>9, <1>10, <1>11, <1>12, <1>13, <1>14
  DEF Ledger!Next

\* A step that only moves executors along: nothing is reserved, released or taken.
LEMMA MovesKept ==
  ASSUME Ledger!LedgerAssumption, Ledger!LedgerInv, Ledger!TypeOK',
         UNCHANGED <<now, funds, cache, answer, ledger, since, lapsed>>,
         \A x \in Executor : Ledger!StageInv(x)',
         Ledger!Counted' \subseteq Ledger!Counted, Ledger!Eaten \subseteq Ledger!Eaten',
         Ledger!Lapsed' \subseteq Ledger!Lapsed,
         Ledger!Outstanding' \subseteq Ledger!Outstanding,
         \A x \in Executor : tx'[x] = "landed" <=> tx[x] = "landed"
  PROVE  Ledger!LedgerInv'
<1>1. Ledger!Covered' /\ Ledger!NoOverdraft' /\ Ledger!Lapsed' \subseteq lapsed'
  BY CoveredKept, OverdraftKept DEF Ledger!LedgerInv
<1> QED
  BY <1>1, BalancesKept DEF Ledger!LedgerInv

LEMMA RefuseKeeps ==
  ASSUME Ledger!LedgerAssumption, Ledger!LedgerInv, Ledger!TypeOK', NEW e \in Executor,
         Ledger!Refuse(e)
  PROVE  Ledger!LedgerInv'
<1>1. /\ ledgerStage[e] = "idle" /\ tx[e] = "none" /\ ledgerStage'[e] = "done"
      /\ \A x \in Executor \ {e} : ledgerStage'[x] = ledgerStage[x]
      /\ UNCHANGED <<now, funds, cache, answer, ledger, since, tx, lapsed>>
  BY DEF Ledger!Refuse, Ledger!StageInv, Ledger!TypeOK, Ledger!LedgerInv
<1>2. \A x \in Executor : Ledger!StageInv(x)'
  BY <1>1 DEF Ledger!StageInv, Ledger!LedgerInv
<1>3. Ledger!Counted' \subseteq Ledger!Counted
  BY <1>1 DEF Ledger!Counted, Ledger!Kept
<1>4. Ledger!Eaten \subseteq Ledger!Eaten'
  BY <1>1 DEF Ledger!Eaten, Ledger!LedgerInv, Ledger!TypeOK
<1>5. Ledger!Lapsed' \subseteq Ledger!Lapsed
  BY <1>1 DEF Ledger!Lapsed
<1>6. Ledger!Outstanding' \subseteq Ledger!Outstanding
  BY <1>1 DEF Ledger!Outstanding
<1> QED
  BY <1>1, <1>2, <1>3, <1>4, <1>5, <1>6, MovesKept

LEMMA FanoutKeeps ==
  ASSUME Ledger!LedgerAssumption, Ledger!LedgerInv, Ledger!TypeOK', NEW e \in Executor,
         Ledger!Fanout(e)
  PROVE  Ledger!LedgerInv'
<1>1. /\ ledgerStage[e] = "held" /\ tx[e] = "none" /\ ledgerStage'[e] = "sending"
      /\ tx'[e] = "pending"
      /\ \A x \in Executor \ {e} : ledgerStage'[x] = ledgerStage[x] /\ tx'[x] = tx[x]
      /\ UNCHANGED <<now, funds, cache, answer, ledger, since, lapsed>>
  BY DEF Ledger!Fanout, Ledger!StageInv, Ledger!TypeOK, Ledger!LedgerInv
<1>2. \A x \in Executor : Ledger!StageInv(x)'
  BY <1>1 DEF Ledger!StageInv, Ledger!LedgerInv
<1>3. Ledger!Counted' \subseteq Ledger!Counted
  BY <1>1 DEF Ledger!Counted, Ledger!Kept
<1>4. Ledger!Eaten \subseteq Ledger!Eaten'
  BY <1>1 DEF Ledger!Eaten, Ledger!LedgerInv, Ledger!TypeOK
<1>5. Ledger!Lapsed' \subseteq Ledger!Lapsed
  BY <1>1 DEF Ledger!Lapsed
<1>6. Ledger!Outstanding' \subseteq Ledger!Outstanding
  BY <1>1 DEF Ledger!Outstanding
<1> QED
  BY <1>1, <1>2, <1>3, <1>4, <1>5, <1>6, MovesKept

LEMMA ResultKeeps ==
  ASSUME Ledger!LedgerAssumption, Ledger!LedgerInv, Ledger!TypeOK', NEW e \in Executor,
         Ledger!Result(e)
  PROVE  Ledger!LedgerInv'
<1>1. /\ ledgerStage[e] = "sending" /\ tx[e] # "none" /\ ledgerStage'[e] = "done"
      /\ \A x \in Executor \ {e} : ledgerStage'[x] = ledgerStage[x]
      /\ UNCHANGED <<now, funds, cache, answer, ledger, since, tx, lapsed>>
  BY DEF Ledger!Result, Ledger!AfterFanout, Ledger!StageInv, Ledger!TypeOK, Ledger!LedgerInv
<1>2. \A x \in Executor : Ledger!StageInv(x)'
  BY <1>1 DEF Ledger!StageInv, Ledger!LedgerInv
<1>3. Ledger!Counted' \subseteq Ledger!Counted
  BY <1>1 DEF Ledger!Counted, Ledger!Kept
<1>4. Ledger!Eaten \subseteq Ledger!Eaten'
  BY <1>1 DEF Ledger!Eaten, Ledger!LedgerInv, Ledger!TypeOK
<1>5. Ledger!Lapsed' \subseteq Ledger!Lapsed
  BY <1>1 DEF Ledger!Lapsed
<1>6. Ledger!Outstanding' \subseteq Ledger!Outstanding
  BY <1>1 DEF Ledger!Outstanding
<1> QED
  BY <1>1, <1>2, <1>3, <1>4, <1>5, <1>6, MovesKept

LEMMA DieKeeps ==
  ASSUME Ledger!LedgerAssumption, Ledger!LedgerInv, Ledger!TypeOK', NEW e \in Executor,
         Ledger!Die(e)
  PROVE  Ledger!LedgerInv'
<1>1. /\ tx[e] = "pending" /\ ledgerStage[e] \notin {"idle", "held"} /\ tx'[e] = "dead"
      /\ \A x \in Executor \ {e} : tx'[x] = tx[x]
      /\ UNCHANGED <<now, funds, cache, answer, ledger, since, ledgerStage, lapsed>>
  BY DEF Ledger!Die, Ledger!StageInv, Ledger!TypeOK, Ledger!LedgerInv
<1>2. \A x \in Executor : Ledger!StageInv(x)'
  BY <1>1 DEF Ledger!StageInv, Ledger!LedgerInv
<1>3. Ledger!Counted' \subseteq Ledger!Counted
  BY <1>1 DEF Ledger!Counted, Ledger!Kept
<1>4. Ledger!Eaten \subseteq Ledger!Eaten'
  BY <1>1 DEF Ledger!Eaten, Ledger!LedgerInv, Ledger!TypeOK
<1>5. Ledger!Lapsed' \subseteq Ledger!Lapsed
  BY <1>1 DEF Ledger!Lapsed
<1>6. Ledger!Outstanding' \subseteq Ledger!Outstanding
  BY <1>1 DEF Ledger!Outstanding
<1> QED
  BY <1>1, <1>2, <1>3, <1>4, <1>5, <1>6, MovesKept

\* What a buy finds available was left over by every earlier one, but for what lapsed.
LEMMA RoomForOne ==
  ASSUME Ledger!LedgerAssumption, Ledger!LedgerInv, NEW e \in Executor,
         Ledger!Fresh, Ledger!Available >= Spend[e]
  PROVE  Ledger!Total(Ledger!Outstanding) + Spend[e] <= funds + Ledger!Total(lapsed)
<1> DEFINE O == Ledger!Outstanding
           M == Ledger!Missing(cache.seen)
           C == Ledger!Counted
           L == Ledger!Lapsed
           E == Ledger!Eaten
<1>1. cache.lamports <= funds + Ledger!Total(M)
  BY DEF Ledger!Fresh, Ledger!LedgerInv, Ledger!BalanceInv
<1>2. /\ O \in SUBSET Executor /\ M \in SUBSET Executor /\ C \in SUBSET Executor
      /\ L \in SUBSET Executor /\ E \in SUBSET Executor /\ lapsed \in SUBSET Executor
  <2>1. E \in SUBSET Executor /\ lapsed \in SUBSET Executor
    BY DEF Ledger!Eaten, Ledger!LedgerInv, Ledger!TypeOK
  <2> QED
    BY <2>1, SetsOfExecutors
<1>3. O \cup M \subseteq C \cup L
  <2> SUFFICES ASSUME NEW x \in Executor, x \in O \/ x \in M, x \notin C PROVE x \in L
    BY <1>2
  <2>1. Ledger!Kept(x)
    BY DEF Ledger!Outstanding, Ledger!Missing, Ledger!Kept
  <2>2. since[x] + Reconcile <= now
    BY <2>1 DEF Ledger!Counted, Ledger!LedgerInv, Ledger!TypeOK, Ledger!Time,
       Ledger!LedgerAssumption
  <2> QED
    BY <2>2 DEF Ledger!Lapsed, Ledger!Outstanding, Ledger!Missing, Ledger!Fresh
<1>4. O \cap M = {}
  BY DEF Ledger!Outstanding, Ledger!Missing, Ledger!LedgerInv, Ledger!StageInv
<1>5. C \cap L = {} /\ E \cap L = {} /\ E \cup L \subseteq lapsed
  <2>1. C \cap L = {}
    BY DEF Ledger!Counted, Ledger!Lapsed, Ledger!LedgerInv, Ledger!TypeOK, Ledger!Time,
       Ledger!LedgerAssumption
  <2>2. E \cap L = {}
    BY DEF Ledger!Eaten, Ledger!Lapsed
  <2>3. E \subseteq lapsed /\ L \subseteq lapsed
    BY DEF Ledger!Eaten, Ledger!LedgerInv
  <2> QED
    BY <2>1, <2>2, <2>3
<1>6. Ledger!Total(C) <= Ledger!Pruned.lamports + Ledger!Total(E)
  BY DEF Ledger!LedgerInv, Ledger!Covered
<1>7. /\ Ledger!Pruned.lamports \in Nat /\ cache.lamports \in Nat /\ funds \in Nat
      /\ Spend[e] \in Nat /\ Spend[e] > 0
  BY OneSpend DEF Ledger!TypeOK, Ledger!Pruned, Ledger!NoEntry, Ledger!LedgerInv
<1>8. Ledger!Pruned.lamports + Spend[e] <= cache.lamports
  BY <1>7 DEF Ledger!Available, Ledger!Minus
<1> HIDE DEF O, M, C, L, E
<1>9. /\ Ledger!Total(O \cup M) = Ledger!Total(O) + Ledger!Total(M)
      /\ Ledger!Total(C \cup L) = Ledger!Total(C) + Ledger!Total(L)
      /\ Ledger!Total(E \cup L) = Ledger!Total(E) + Ledger!Total(L)
  BY <1>2, <1>4, <1>5, TotalSplits
<1>10. /\ Ledger!Total(O \cup M) <= Ledger!Total(C \cup L)
       /\ Ledger!Total(E \cup L) <= Ledger!Total(lapsed)
  <2>1. C \cup L \in SUBSET Executor /\ O \cup M \in SUBSET (C \cup L)
          /\ E \cup L \in SUBSET lapsed
    BY <1>2, <1>3, <1>5
  <2> QED
    BY <1>2, <2>1, TotalGrows
<1>11. /\ Ledger!Total(O) \in Nat /\ Ledger!Total(M) \in Nat /\ Ledger!Total(C) \in Nat
       /\ Ledger!Total(L) \in Nat /\ Ledger!Total(E) \in Nat /\ Ledger!Total(lapsed) \in Nat
  BY <1>2, TotalType
<1>12. Ledger!Total(O) + Spend[e] <= funds + Ledger!Total(lapsed)
  BY <1>1, <1>6, <1>7, <1>8, <1>9, <1>10, <1>11
<1> QED
  BY <1>12 DEF O

LEMMA ReserveKeeps ==
  ASSUME Ledger!LedgerAssumption, Ledger!LedgerInv, Ledger!TypeOK', NEW e \in Executor,
         Ledger!Reserve(e)
  PROVE  Ledger!LedgerInv'
<1>0. /\ ledgerStage[e] = "idle" /\ tx[e] = "none" /\ ~Ledger!Kept(e)
      /\ UNCHANGED <<now, funds, cache, answer, tx, lapsed>>
      /\ now \in Nat /\ Reconcile \in Nat /\ Reconcile > 0
  BY DEF Ledger!Reserve, Ledger!StageInv, Ledger!Kept, Ledger!LedgerAssumption, Ledger!TypeOK,
     Ledger!Time, Ledger!LedgerInv
<1>1. /\ (\A f \in Refresher :
            answer[f].open => Ledger!BalanceInv(answer[f].lamports, answer[f].seen))'
      /\ (cache.known => Ledger!BalanceInv(cache.lamports, cache.seen))'
  BY <1>0, BalancesKept
<1>2. CASE Ledger!Fresh /\ Ledger!Available >= Spend[e]
  <2>1. /\ ledger' = Ledger!Reserved(e) /\ ledgerStage'[e] = "held" /\ since'[e] = now
        /\ \A x \in Executor \ {e} : ledgerStage'[x] = ledgerStage[x] /\ since'[x] = since[x]
    BY <1>2 DEF Ledger!Reserve, Ledger!TypeOK, Ledger!LedgerInv
  <2>2. \A x \in Executor : Ledger!StageInv(x)'
    BY <1>0, <2>1 DEF Ledger!StageInv, Ledger!LedgerInv
  <2>3. Ledger!Outstanding' = Ledger!Outstanding \cup {e} /\ e \notin Ledger!Outstanding
    BY <1>0, <2>1 DEF Ledger!Outstanding
  <2>4. Ledger!Counted' = Ledger!Counted \cup {e} /\ e \notin Ledger!Counted
    BY <1>0, <2>1 DEF Ledger!Counted, Ledger!Kept
  <2>5. Ledger!Eaten' = Ledger!Eaten /\ Ledger!Eaten \in SUBSET Executor
          /\ lapsed \in SUBSET Executor
    BY <1>0, <2>1 DEF Ledger!Eaten, Ledger!LedgerInv, Ledger!TypeOK
  <2>6. Ledger!Lapsed' \subseteq lapsed'
    <3>1. Ledger!Lapsed' \subseteq Ledger!Lapsed
      BY <1>0, <2>1 DEF Ledger!Lapsed
    <3> QED
      BY <1>0, <3>1 DEF Ledger!LedgerInv
  <2>7. /\ Ledger!Outstanding \in SUBSET Executor /\ Ledger!Counted \in SUBSET Executor
        /\ Spend[e] \in Nat /\ Ledger!Total(Ledger!Counted) \in Nat
        /\ Ledger!Total(Ledger!Eaten) \in Nat
    BY <2>5, OneSpend, TotalType, SetsOfExecutors
  <2>8. /\ Ledger!Total(Ledger!Outstanding') = Ledger!Total(Ledger!Outstanding) + Spend[e]
        /\ Ledger!Total(Ledger!Counted') = Ledger!Total(Ledger!Counted) + Spend[e]
    BY <2>3, <2>4, <2>7, TotalAdds
  <2>9. Ledger!NoOverdraft'
    BY <1>0, <1>2, <2>8, RoomForOne DEF Ledger!NoOverdraft, Ledger!Total
  <2>10. Ledger!Covered'
    <3>1. /\ ledger'.lamports = Ledger!Pruned.lamports + Spend[e]
          /\ ledger'.expires = now + Reconcile
      BY <2>1 DEF Ledger!Reserved
    <3>2. Ledger!Pruned' = ledger'
      BY <1>0, <3>1 DEF Ledger!Pruned
    <3>3. Ledger!Total(Ledger!Counted)' <= Ledger!Pruned'.lamports + Ledger!Total(Ledger!Eaten)'
      <4>1. Ledger!Total(Ledger!Counted) <= Ledger!Pruned.lamports + Ledger!Total(Ledger!Eaten)
              /\ Ledger!Pruned.lamports \in Nat
        BY DEF Ledger!Covered, Ledger!TypeOK, Ledger!Pruned, Ledger!NoEntry, Ledger!LedgerInv
      <4>2. /\ Ledger!Total(Ledger!Counted)' = Ledger!Total(Ledger!Counted')
            /\ Ledger!Total(Ledger!Eaten)' = Ledger!Total(Ledger!Eaten)
        BY <2>5 DEF Ledger!Total
      <4> QED
        BY <2>7, <2>8, <3>1, <3>2, <4>1, <4>2
    <3>4. \A x \in Executor : since'[x] <= now /\ since'[x] \in Nat
      BY <1>0, <2>1 DEF Ledger!StageInv, Ledger!TypeOK, Ledger!Time, Ledger!LedgerInv
    <3>5. \A x \in Executor : since'[x] + Reconcile <= ledger'.expires
      BY <1>0, <3>1, <3>4
    <3> QED
      BY <3>3, <3>5 DEF Ledger!Covered, Ledger!Counted
  <2> QED
    BY <1>1, <2>2, <2>6, <2>9, <2>10 DEF Ledger!LedgerInv
<1>3. CASE ~(Ledger!Fresh /\ Ledger!Available >= Spend[e])
  <2>1. /\ ledger' \in {ledger, Ledger!Pruned} /\ ledgerStage'[e] = "done" /\ since' = since
        /\ \A x \in Executor \ {e} : ledgerStage'[x] = ledgerStage[x]
    BY <1>3 DEF Ledger!Reserve, Ledger!TypeOK, Ledger!LedgerInv
  <2>2. \A x \in Executor : Ledger!StageInv(x)'
    BY <1>0, <2>1 DEF Ledger!StageInv, Ledger!LedgerInv
  <2>3. Ledger!Outstanding' \subseteq Ledger!Outstanding
    BY <1>0, <2>1 DEF Ledger!Outstanding
  <2>4. Ledger!Counted' = Ledger!Counted
    BY <1>0, <2>1 DEF Ledger!Counted, Ledger!Kept
  <2>5. Ledger!Eaten \subseteq Ledger!Eaten'
    BY <1>0, <2>1 DEF Ledger!Eaten, Ledger!LedgerInv, Ledger!TypeOK
  <2>6. Ledger!Lapsed' \subseteq lapsed'
    <3>1. Ledger!Lapsed' \subseteq Ledger!Lapsed
      BY <1>0, <2>1 DEF Ledger!Lapsed
    <3> QED
      BY <1>0, <3>1 DEF Ledger!LedgerInv
  <2>7. Ledger!NoOverdraft'
    BY <1>0, <2>3, OverdraftKept DEF Ledger!LedgerInv
  <2>8. Ledger!Pruned' = Ledger!Pruned /\ ledger'.expires \in Nat /\ ledger.expires \in Nat
          /\ (ledger'.lamports = 0 \/ ledger' = ledger)
    BY <1>0, <2>1 DEF Ledger!Pruned, Ledger!NoEntry, Ledger!LedgerInv, Ledger!TypeOK
  <2>9. Ledger!Covered'
    <3>1. /\ Ledger!Eaten' \in SUBSET Executor /\ Ledger!Eaten \in SUBSET Ledger!Eaten'
          /\ Ledger!Eaten \in SUBSET Executor
      BY <2>5 DEF Ledger!Eaten, Ledger!TypeOK
    <3>2. Ledger!Total(Ledger!Eaten) <= Ledger!Total(Ledger!Eaten')
      BY <3>1, TotalGrows
    <3>3. /\ Ledger!Total(Ledger!Eaten') \in Nat /\ Ledger!Total(Ledger!Eaten) \in Nat
          /\ Ledger!Total(Ledger!Counted) \in Nat /\ Ledger!Pruned.lamports \in Nat
      BY <3>1, TotalType, SetsOfExecutors DEF Ledger!Pruned, Ledger!NoEntry, Ledger!LedgerInv,
         Ledger!TypeOK
    <3>4. /\ Ledger!Total(Ledger!Counted)' = Ledger!Total(Ledger!Counted)
          /\ Ledger!Total(Ledger!Eaten)' = Ledger!Total(Ledger!Eaten')
      BY <2>4 DEF Ledger!Total
    <3>5. Ledger!Total(Ledger!Counted)' <= Ledger!Pruned'.lamports + Ledger!Total(Ledger!Eaten)'
      BY <2>8, <3>2, <3>3, <3>4 DEF Ledger!Covered, Ledger!LedgerInv
    <3> QED
      BY <2>1, <2>4, <2>8, <3>5 DEF Ledger!Covered, Ledger!LedgerInv
  <2> QED
    BY <1>1, <2>2, <2>6, <2>7, <2>9 DEF Ledger!LedgerInv
<1> QED
  BY <1>2, <1>3

\* A reservation given up in time leaves the sum; one given up late is eaten from it.
LEMMA GiveUpKeeps ==
  ASSUME Ledger!LedgerAssumption, Ledger!LedgerInv, Ledger!TypeOK', NEW e \in Executor,
         Ledger!GiveUp(e)
  PROVE  Ledger!LedgerInv'
<1>1. /\ ledgerStage[e] = "held" /\ tx[e] = "none" /\ ledgerStage'[e] = "done"
      /\ ledger' = Ledger!Released(e)
      /\ \A x \in Executor \ {e} : ledgerStage'[x] = ledgerStage[x]
      /\ UNCHANGED <<now, funds, cache, answer, since, tx, lapsed>>
  BY DEF Ledger!GiveUp, Ledger!StageInv, Ledger!TypeOK, Ledger!LedgerInv
<1>2. \A x \in Executor : Ledger!StageInv(x)'
  BY <1>1 DEF Ledger!StageInv, Ledger!LedgerInv
<1>3. Ledger!Outstanding' \subseteq Ledger!Outstanding
  BY <1>1 DEF Ledger!Outstanding
<1>4. Ledger!Lapsed' \subseteq lapsed'
  <2>1. Ledger!Lapsed' \subseteq Ledger!Lapsed
    BY <1>1 DEF Ledger!Lapsed
  <2> QED
    BY <1>1, <2>1 DEF Ledger!LedgerInv
<1>5. Ledger!NoOverdraft'
  BY <1>1, <1>3, OverdraftKept DEF Ledger!LedgerInv
<1>6. /\ ledger.lamports \in Nat /\ ledger.expires \in Nat /\ now \in Nat
      /\ Spend[e] \in Nat /\ Spend[e] > 0 /\ Reconcile \in Nat
      /\ \A x \in Executor : since[x] \in Nat
  BY OneSpend DEF Ledger!LedgerInv, Ledger!TypeOK, Ledger!Time, Ledger!LedgerAssumption
<1>7. /\ ledger'.lamports = Ledger!Minus(ledger.lamports, Spend[e])
      /\ ledger'.lamports = 0 \/ ledger'.expires = ledger.expires
      /\ ledger'.expires \in Nat
  <2>1. CASE Ledger!Minus(ledger.lamports, Spend[e]) = 0
    BY <1>1, <2>1 DEF Ledger!Released, Ledger!NoEntry
  <2>2. CASE Ledger!Minus(ledger.lamports, Spend[e]) # 0
    BY <1>1, <1>6, <2>2 DEF Ledger!Released, Ledger!LedgerInv, Ledger!TypeOK
  <2> QED
    BY <2>1, <2>2
<1>8. /\ Ledger!Eaten \in SUBSET Executor /\ Ledger!Counted \in SUBSET Executor
      /\ Ledger!Total(Ledger!Eaten) \in Nat /\ Ledger!Total(Ledger!Counted) \in Nat
  <2>1. Ledger!Eaten \in SUBSET Executor
    BY DEF Ledger!Eaten, Ledger!LedgerInv, Ledger!TypeOK
  <2> QED
    BY <2>1, SetsOfExecutors, TotalType
<1>9. ledger'.lamports = 0 \/ \A x \in Ledger!Counted' : since'[x] + Reconcile <= ledger'.expires
  <2>1. Ledger!Counted' \subseteq Ledger!Counted
    BY <1>1 DEF Ledger!Counted, Ledger!Kept
  <2>2. ledger.lamports = 0 => ledger'.lamports = 0
    BY <1>6, <1>7 DEF Ledger!Minus
  <2> QED
    BY <1>1, <1>7, <2>1, <2>2 DEF Ledger!LedgerInv, Ledger!Covered
<1>10. CASE since[e] + Reconcile > now
  <2>1. e \in Ledger!Counted /\ Ledger!Counted' = Ledger!Counted \ {e}
    BY <1>1, <1>10 DEF Ledger!Counted, Ledger!Kept
  <2>2. Ledger!Eaten \subseteq Ledger!Eaten' /\ Ledger!Eaten' \in SUBSET Executor
    BY <1>1 DEF Ledger!Eaten, Ledger!LedgerInv, Ledger!TypeOK
  <2>3. /\ Ledger!Total(Ledger!Counted) = Ledger!Total(Ledger!Counted \ {e}) + Spend[e]
        /\ Ledger!Total(Ledger!Counted \ {e}) \in Nat
        /\ Ledger!Total(Ledger!Eaten) <= Ledger!Total(Ledger!Eaten')
        /\ Ledger!Total(Ledger!Eaten') \in Nat
    <3>1. /\ Ledger!Counted \ {e} \in SUBSET Executor
          /\ Ledger!Eaten \in SUBSET Ledger!Eaten'
      BY <1>8, <2>2
    <3> QED
      BY <1>8, <2>1, <2>2, <3>1, TotalRemoves, TotalGrows, TotalType
  <2>4. Ledger!Total(Ledger!Counted) <= ledger.lamports + Ledger!Total(Ledger!Eaten)
    <3>1. Ledger!Total(Ledger!Counted) <= Ledger!Pruned.lamports + Ledger!Total(Ledger!Eaten)
      BY DEF Ledger!LedgerInv, Ledger!Covered
    <3>2. Ledger!Pruned.lamports \in Nat /\ Ledger!Pruned.lamports <= ledger.lamports
      BY <1>6 DEF Ledger!Pruned, Ledger!NoEntry
    <3> QED
      BY <1>6, <1>8, <3>1, <3>2
  <2>5. ledger'.lamports = 0 \/ ledger'.expires > now
    <3>1. ledger.lamports = 0 \/ since[e] + Reconcile <= ledger.expires
      BY <2>1 DEF Ledger!LedgerInv, Ledger!Covered
    <3> QED
      BY <1>6, <1>7, <1>10, <3>1 DEF Ledger!Minus
  <2>6. Ledger!Pruned'.lamports = ledger'.lamports
    BY <1>1, <2>5 DEF Ledger!Pruned, Ledger!NoEntry
  <2>7. /\ Ledger!Total(Ledger!Counted)' = Ledger!Total(Ledger!Counted \ {e})
        /\ Ledger!Total(Ledger!Eaten)' = Ledger!Total(Ledger!Eaten')
    BY <2>1 DEF Ledger!Total
  <2>8. Ledger!Total(Ledger!Counted)' <= Ledger!Pruned'.lamports + Ledger!Total(Ledger!Eaten)'
    BY <1>6, <1>7, <1>8, <2>3, <2>4, <2>6, <2>7 DEF Ledger!Minus
  <2>9. Ledger!Covered'
    BY <1>9, <2>8 DEF Ledger!Covered
  <2> QED
    BY <1>1, <1>2, <1>4, <1>5, <2>9, BalancesKept DEF Ledger!LedgerInv
<1>11. CASE ~(since[e] + Reconcile > now)
  <2>1. Ledger!Counted' = Ledger!Counted
    BY <1>1, <1>11 DEF Ledger!Counted, Ledger!Kept
  <2>2. e \in lapsed
    BY <1>1, <1>6, <1>11 DEF Ledger!Lapsed, Ledger!LedgerInv
  <2>3. Ledger!Eaten' = Ledger!Eaten \cup {e} /\ e \notin Ledger!Eaten
    BY <1>1, <2>2 DEF Ledger!Eaten, Ledger!LedgerInv, Ledger!TypeOK
  <2>4. Ledger!Total(Ledger!Eaten \cup {e}) = Ledger!Total(Ledger!Eaten) + Spend[e]
    BY <1>8, <2>3, TotalAdds
  <2>5. /\ Ledger!Total(Ledger!Counted)' = Ledger!Total(Ledger!Counted)
        /\ Ledger!Total(Ledger!Eaten)' = Ledger!Total(Ledger!Eaten) + Spend[e]
    BY <2>1, <2>3, <2>4 DEF Ledger!Total
  <2>6. /\ Ledger!Pruned'.lamports \in Nat /\ Ledger!Pruned.lamports \in Nat
        /\ Ledger!Pruned.lamports <= Ledger!Pruned'.lamports + Spend[e]
    <3>1. CASE ledger.expires > now
      <4>1. Ledger!Pruned.lamports = ledger.lamports
        BY <3>1 DEF Ledger!Pruned
      <4>2. Ledger!Pruned'.lamports = ledger'.lamports
        BY <1>1, <1>7, <3>1 DEF Ledger!Pruned, Ledger!NoEntry
      <4> QED
        BY <1>6, <1>7, <4>1, <4>2 DEF Ledger!Minus
    <3>2. CASE ~(ledger.expires > now)
      <4>1. Ledger!Pruned.lamports = 0
        BY <3>2 DEF Ledger!Pruned, Ledger!NoEntry
      <4>2. Ledger!Pruned'.lamports \in Nat
        BY DEF Ledger!Pruned, Ledger!NoEntry, Ledger!TypeOK
      <4> QED
        BY <1>6, <4>1, <4>2
    <3> QED
      BY <3>1, <3>2
  <2>7. Ledger!Total(Ledger!Counted) <= Ledger!Pruned.lamports + Ledger!Total(Ledger!Eaten)
    BY DEF Ledger!LedgerInv, Ledger!Covered
  <2>8. Ledger!Total(Ledger!Counted)' <= Ledger!Pruned'.lamports + Ledger!Total(Ledger!Eaten)'
    BY <1>6, <1>8, <2>5, <2>6, <2>7
  <2>9. Ledger!Covered'
    BY <1>9, <2>8 DEF Ledger!Covered
  <2> QED
    BY <1>1, <1>2, <1>4, <1>5, <2>9, BalancesKept DEF Ledger!LedgerInv
<1> QED
  BY <1>10, <1>11

LEMMA AskKeeps ==
  ASSUME Ledger!LedgerAssumption, Ledger!LedgerInv, Ledger!TypeOK', NEW f \in Refresher,
         Ledger!Ask(f)
  PROVE  Ledger!LedgerInv'
<1>1. UNCHANGED <<now, funds, cache, ledger, ledgerStage, since, tx, lapsed>>
  BY DEF Ledger!Ask
<1>2. /\ \A s : Ledger!Missing(s)' = Ledger!Missing(s)
      /\ Ledger!Counted' = Ledger!Counted /\ Ledger!Outstanding' = Ledger!Outstanding
      /\ Ledger!Pruned' = Ledger!Pruned /\ Ledger!Eaten' = Ledger!Eaten
      /\ Ledger!Lapsed' = Ledger!Lapsed
  BY <1>1 DEF Ledger!Missing, Ledger!Counted, Ledger!Kept, Ledger!Outstanding, Ledger!Pruned,
     Ledger!Eaten, Ledger!Lapsed
<1>3. (\A e \in Executor : Ledger!StageInv(e))' /\ Ledger!Covered' /\ Ledger!NoOverdraft'
        /\ Ledger!Lapsed' \subseteq lapsed'
  BY <1>1, <1>2 DEF Ledger!StageInv, Ledger!Covered, Ledger!NoOverdraft, Ledger!Total,
     Ledger!LedgerInv
<1>4. (cache.known => Ledger!BalanceInv(cache.lamports, cache.seen))'
  <2>1. Ledger!Missing(cache.seen)' = Ledger!Missing(cache.seen)
    BY <1>1 DEF Ledger!Missing
  <2> QED
    BY <1>1, <2>1 DEF Ledger!BalanceInv, Ledger!Total, Ledger!LedgerInv
<1>5. ASSUME NEW g \in Refresher, answer'[g].open
      PROVE  Ledger!BalanceInv(answer[g].lamports, answer[g].seen)'
  <2>1. CASE g # f
    <3>1. answer'[g] = answer[g]
      BY <2>1 DEF Ledger!Ask, Ledger!LedgerInv, Ledger!TypeOK
    <3>2. Ledger!Missing(answer[g].seen)' = Ledger!Missing(answer[g].seen)
      BY <1>1, <3>1 DEF Ledger!Missing
    <3> QED
      BY <1>1, <1>5, <3>1, <3>2 DEF Ledger!BalanceInv, Ledger!Total, Ledger!LedgerInv
  <2>2. CASE g = f
    <3>1. /\ answer'[f].seen = {e \in Executor : tx[e] = "landed"}
          /\ answer'[f].lamports = funds /\ funds \in Nat
      BY DEF Ledger!Ask, Ledger!LedgerInv, Ledger!TypeOK
    <3>2. Ledger!Missing(answer[f].seen)' = {}
      BY <1>1, <3>1 DEF Ledger!Missing
    <3>3. Ledger!Total(Ledger!Missing(answer[f].seen))' = 0
      <4>1. Ledger!Total(Ledger!Missing(answer[f].seen))' =
              Ledger!Total(Ledger!Missing(answer[f].seen)')
        BY DEF Ledger!Total
      <4> QED
        BY <3>2, <4>1, TotalOfNone
    <3> QED
      BY <1>1, <2>2, <3>1, <3>3 DEF Ledger!BalanceInv
  <2> QED
    BY <2>1, <2>2
<1> QED
  BY <1>3, <1>4, <1>5 DEF Ledger!LedgerInv

\* A new balance shows less or more than the last: what it misses has lapsed or is counted.
LEMMA StoreKeeps ==
  ASSUME Ledger!LedgerAssumption, Ledger!LedgerInv, Ledger!TypeOK', NEW f \in Refresher,
         Ledger!Store(f)
  PROVE  Ledger!LedgerInv'
<1>1. /\ UNCHANGED <<now, funds, ledger, ledgerStage, since, tx>>
      /\ lapsed' = lapsed \cup Ledger!Lapsed'
  BY DEF Ledger!Store
<1>2. /\ Ledger!Counted' \subseteq Ledger!Counted
      /\ Ledger!Outstanding' \subseteq Ledger!Outstanding
      /\ Ledger!Eaten \subseteq Ledger!Eaten'
  BY <1>1 DEF Ledger!Counted, Ledger!Kept, Ledger!Outstanding, Ledger!Eaten
<1>3. Ledger!Covered' /\ Ledger!NoOverdraft'
  BY <1>1, <1>2, CoveredKept, OverdraftKept DEF Ledger!LedgerInv
<1>4. (\A e \in Executor : Ledger!StageInv(e))' /\ Ledger!Lapsed' \subseteq lapsed'
  BY <1>1 DEF Ledger!StageInv, Ledger!LedgerInv
<1>5. (cache.known => Ledger!BalanceInv(cache.lamports, cache.seen))'
  <2>1. CASE cache' = cache
    <3>1. Ledger!Missing(cache.seen)' = Ledger!Missing(cache.seen)
      BY <1>1, <2>1 DEF Ledger!Missing
    <3> QED
      BY <1>1, <2>1, <3>1 DEF Ledger!BalanceInv, Ledger!Total, Ledger!LedgerInv
  <2>2. CASE cache' = Ledger!Unknown
    BY <2>2 DEF Ledger!Unknown
  <2>3. CASE cache' = [known |-> TRUE, lamports |-> answer[f].lamports, fetched |-> now,
                       seen |-> answer[f].seen]
    <3>1. Ledger!BalanceInv(answer[f].lamports, answer[f].seen)
      BY DEF Ledger!Store, Ledger!LedgerInv
    <3>2. cache'.lamports = answer[f].lamports /\ cache'.seen = answer[f].seen
      BY <2>3
    <3>3. Ledger!Missing(cache.seen)' = Ledger!Missing(answer[f].seen)
      BY <1>1, <3>2 DEF Ledger!Missing
    <3> QED
      BY <1>1, <3>1, <3>2, <3>3 DEF Ledger!BalanceInv, Ledger!Total
  <2> QED
    BY <2>1, <2>2, <2>3 DEF Ledger!Store
<1>6. ASSUME NEW g \in Refresher, answer'[g].open
      PROVE  Ledger!BalanceInv(answer[g].lamports, answer[g].seen)'
  <2>1. g # f /\ answer'[g] = answer[g]
    BY <1>6 DEF Ledger!Store, Ledger!LedgerInv, Ledger!TypeOK, Ledger!NoAnswer
  <2>2. Ledger!Missing(answer[g].seen)' = Ledger!Missing(answer[g].seen)
    BY <1>1, <2>1 DEF Ledger!Missing
  <2> QED
    BY <1>1, <1>6, <2>1, <2>2 DEF Ledger!BalanceInv, Ledger!Total, Ledger!LedgerInv
<1> QED
  BY <1>3, <1>4, <1>5, <1>6 DEF Ledger!LedgerInv

\* What lands moves from what may be taken to what old balances do not show.
LEMMA LandKeeps ==
  ASSUME Ledger!LedgerAssumption, Ledger!LedgerInv, Ledger!TypeOK', NEW e \in Executor,
         Ledger!Land(e)
  PROVE  Ledger!LedgerInv'
<1>1. /\ tx[e] = "pending" /\ ledgerStage[e] \notin {"idle", "held"} /\ tx'[e] = "landed"
      /\ \A x \in Executor \ {e} : tx'[x] = tx[x]
      /\ UNCHANGED <<now, cache, answer, ledger, since, ledgerStage, lapsed>>
      /\ Spend[e] <= funds /\ funds' = funds - Spend[e]
      /\ funds \in Nat /\ Spend[e] \in Nat
  <2>1. Ledger!StageInv(e) /\ tx \in [Executor -> {"none", "pending", "landed", "dead"}]
          /\ funds \in Nat
    BY DEF Ledger!LedgerInv, Ledger!TypeOK
  <2>2. Spend[e] \in Nat
    BY OneSpend
  <2> QED
    BY <2>1, <2>2 DEF Ledger!Land, Ledger!StageInv
<1>2. \A x \in Executor : Ledger!StageInv(x)'
  BY <1>1 DEF Ledger!StageInv, Ledger!LedgerInv
<1>3. Ledger!Covered'
  <2>1. Ledger!Counted' \subseteq Ledger!Counted
    BY <1>1 DEF Ledger!Counted, Ledger!Kept
  <2>2. Ledger!Eaten \subseteq Ledger!Eaten'
    BY <1>1 DEF Ledger!Eaten, Ledger!LedgerInv, Ledger!TypeOK
  <2> QED
    BY <1>1, <2>1, <2>2, CoveredKept DEF Ledger!LedgerInv
<1>4. Ledger!Lapsed' \subseteq lapsed'
  <2>1. Ledger!Lapsed' \subseteq Ledger!Lapsed
    BY <1>1 DEF Ledger!Lapsed
  <2> QED
    BY <1>1, <2>1 DEF Ledger!LedgerInv
<1>5. Ledger!NoOverdraft'
  <2>1. /\ Ledger!Outstanding' = Ledger!Outstanding \ {e} /\ e \in Ledger!Outstanding
        /\ Ledger!Outstanding \in SUBSET Executor
    BY <1>1 DEF Ledger!Outstanding
  <2>2. /\ Ledger!Total(Ledger!Outstanding) = Ledger!Total(Ledger!Outstanding \ {e}) + Spend[e]
        /\ Ledger!Total(Ledger!Outstanding \ {e}) \in Nat /\ Ledger!Total(lapsed) \in Nat
    BY <2>1, TotalRemoves, TotalType DEF Ledger!LedgerInv, Ledger!TypeOK
  <2>3. /\ Ledger!Total(Ledger!Outstanding)' = Ledger!Total(Ledger!Outstanding \ {e})
        /\ Ledger!Total(lapsed)' = Ledger!Total(lapsed)
    BY <1>1, <2>1 DEF Ledger!Total
  <2> QED
    BY <1>1, <2>2, <2>3 DEF Ledger!NoOverdraft, Ledger!LedgerInv
<1>6. ASSUME NEW l \in Nat, NEW s \in SUBSET Executor, Ledger!BalanceInv(l, s)
      PROVE  /\ \A x \in s : tx'[x] = "landed"
             /\ l <= funds' + Ledger!Total(Ledger!Missing(s) \cup {e})
  <2>1. e \notin s /\ e \notin Ledger!Missing(s) /\ Ledger!Missing(s) \in SUBSET Executor
    BY <1>1, <1>6 DEF Ledger!BalanceInv, Ledger!Missing
  <2>2. /\ Ledger!Total(Ledger!Missing(s) \cup {e}) = Ledger!Total(Ledger!Missing(s)) + Spend[e]
        /\ Ledger!Total(Ledger!Missing(s)) \in Nat
    BY <2>1, TotalAdds, TotalType
  <2> QED
    BY <1>1, <1>6, <2>1, <2>2 DEF Ledger!BalanceInv
<1>7. ASSUME NEW f \in Refresher, answer'[f].open
      PROVE  Ledger!BalanceInv(answer[f].lamports, answer[f].seen)'
  <2>1. answer[f].lamports \in Nat /\ answer[f].seen \in SUBSET Executor
    BY DEF Ledger!LedgerInv, Ledger!TypeOK
  <2>2. Ledger!BalanceInv(answer[f].lamports, answer[f].seen)
    BY <1>1, <1>7 DEF Ledger!LedgerInv
  <2>3. Ledger!Missing(answer[f].seen)' = Ledger!Missing(answer[f].seen) \cup {e}
    BY <1>1, <2>2 DEF Ledger!Missing, Ledger!BalanceInv
  <2> QED
    BY <1>1, <1>6, <2>1, <2>2, <2>3 DEF Ledger!BalanceInv, Ledger!Total
<1>8. ASSUME cache'.known PROVE Ledger!BalanceInv(cache.lamports, cache.seen)'
  <2>1. cache.lamports \in Nat /\ cache.seen \in SUBSET Executor
    BY DEF Ledger!LedgerInv, Ledger!TypeOK
  <2>2. Ledger!BalanceInv(cache.lamports, cache.seen)
    BY <1>1, <1>8 DEF Ledger!LedgerInv
  <2>3. Ledger!Missing(cache.seen)' = Ledger!Missing(cache.seen) \cup {e}
    BY <1>1, <2>2 DEF Ledger!Missing, Ledger!BalanceInv
  <2> QED
    BY <1>1, <1>6, <2>1, <2>2, <2>3 DEF Ledger!BalanceInv, Ledger!Total
<1> QED
  BY <1>2, <1>3, <1>4, <1>5, <1>7, <1>8 DEF Ledger!LedgerInv

LEMMA TickKeeps ==
  ASSUME Ledger!LedgerAssumption, Ledger!LedgerInv, Ledger!TypeOK', Ledger!Tick
  PROVE  Ledger!LedgerInv'
<1>1. /\ now' = now + 1 /\ now \in Nat /\ Reconcile \in Nat
      /\ UNCHANGED <<funds, cache, answer, ledger, ledgerStage, since, tx>>
      /\ lapsed' = lapsed \cup Ledger!Lapsed'
      /\ ledger.lamports \in Nat /\ ledger.expires \in Nat
      /\ \A e \in Executor : since[e] \in Nat
  BY DEF Ledger!Tick, Ledger!LedgerInv, Ledger!TypeOK, Ledger!Time, Ledger!LedgerAssumption
<1>2. \A e \in Executor : Ledger!StageInv(e)'
  BY <1>1 DEF Ledger!StageInv, Ledger!LedgerInv
<1>3. Ledger!NoOverdraft'
  <2>1. Ledger!Outstanding' \subseteq Ledger!Outstanding
    BY <1>1 DEF Ledger!Outstanding
  <2> QED
    BY <1>1, <2>1, OverdraftKept DEF Ledger!LedgerInv
<1>4. /\ Ledger!Counted' \subseteq Ledger!Counted /\ Ledger!Eaten \subseteq Ledger!Eaten'
      /\ Ledger!Eaten' \in SUBSET Executor /\ Ledger!Counted' \in SUBSET Executor
  BY <1>1 DEF Ledger!Counted, Ledger!Kept, Ledger!Eaten, Ledger!TypeOK
<1>5. /\ Ledger!Total(Ledger!Counted') <= Ledger!Total(Ledger!Counted)
      /\ Ledger!Total(Ledger!Eaten) <= Ledger!Total(Ledger!Eaten')
      /\ Ledger!Total(Ledger!Counted') \in Nat /\ Ledger!Total(Ledger!Counted) \in Nat
      /\ Ledger!Total(Ledger!Eaten') \in Nat /\ Ledger!Total(Ledger!Eaten) \in Nat
  <2>1. /\ Ledger!Counted \in SUBSET Executor /\ Ledger!Counted' \in SUBSET Ledger!Counted
        /\ Ledger!Eaten \in SUBSET Executor /\ Ledger!Eaten \in SUBSET Ledger!Eaten'
    BY <1>4, SetsOfExecutors
  <2> QED
    BY <1>4, <2>1, TotalGrows, TotalType
<1>6. /\ Ledger!Total(Ledger!Counted)' = Ledger!Total(Ledger!Counted')
      /\ Ledger!Total(Ledger!Eaten)' = Ledger!Total(Ledger!Eaten')
  BY <1>1 DEF Ledger!Total
<1>7. ledger.lamports = 0 \/ \A e \in Ledger!Counted' : /\ since[e] + Reconcile <= ledger.expires
                                                      /\ since[e] + Reconcile > now + 1
  BY <1>1, <1>4 DEF Ledger!LedgerInv, Ledger!Covered, Ledger!Counted
<1>8. Ledger!Total(Ledger!Counted) <= Ledger!Pruned.lamports + Ledger!Total(Ledger!Eaten)
  BY DEF Ledger!LedgerInv, Ledger!Covered
<1>9. Ledger!Total(Ledger!Counted)' <= Ledger!Pruned'.lamports + Ledger!Total(Ledger!Eaten)'
  <2>1. CASE ledger.expires > now + 1
    <3>1. Ledger!Pruned' = ledger /\ Ledger!Pruned = ledger
      BY <1>1, <2>1 DEF Ledger!Pruned
    <3> QED
      BY <1>1, <1>5, <1>6, <1>8, <3>1
  <2>2. CASE ~(ledger.expires > now + 1) /\ ledger.lamports = 0
    <3>1. Ledger!Pruned'.lamports = 0 /\ Ledger!Pruned.lamports = 0
      BY <1>1, <2>2 DEF Ledger!Pruned, Ledger!NoEntry
    <3> QED
      BY <1>5, <1>6, <1>8, <3>1
  <2>3. CASE ~(ledger.expires > now + 1) /\ ledger.lamports # 0
    <3>1. Ledger!Counted' = {}
      BY <1>1, <1>4, <1>7, <2>3
    <3>2. Ledger!Pruned'.lamports \in Nat
      BY DEF Ledger!Pruned, Ledger!NoEntry, Ledger!TypeOK
    <3> QED
      BY <1>5, <1>6, <3>1, <3>2, TotalOfNone
  <2> QED
    BY <2>1, <2>2, <2>3
<1>10. Ledger!Covered'
  BY <1>1, <1>7, <1>9 DEF Ledger!Covered
<1> QED
  BY <1>1, <1>2, <1>3, <1>10, BalancesKept DEF Ledger!LedgerInv

LEMMA LedgerStep ==
  Ledger!LedgerAssumption /\ Ledger!LedgerInv /\ [Ledger!Next]_(Ledger!vars) => Ledger!LedgerInv'
<1> SUFFICES ASSUME Ledger!LedgerAssumption, Ledger!LedgerInv, [Ledger!Next]_(Ledger!vars)
             PROVE  Ledger!LedgerInv'
  OBVIOUS
<1>0. Ledger!TypeOK'
  BY LedgerTypeStep DEF Ledger!LedgerInv
<1>1. ASSUME NEW e \in Executor,
             Ledger!Refuse(e) \/ Ledger!Reserve(e) \/ Ledger!GiveUp(e) \/ Ledger!Fanout(e)
             \/ Ledger!Result(e) \/ Ledger!Land(e) \/ Ledger!Die(e)
      PROVE  Ledger!LedgerInv'
  BY <1>0, <1>1, RefuseKeeps, ReserveKeeps, GiveUpKeeps, FanoutKeeps, ResultKeeps, LandKeeps,
     DieKeeps
<1>2. ASSUME NEW f \in Refresher, Ledger!Ask(f) \/ Ledger!Store(f) PROVE Ledger!LedgerInv'
  BY <1>0, <1>2, AskKeeps, StoreKeeps
<1>3. CASE Ledger!Tick
  BY <1>0, <1>3, TickKeeps
<1>4. CASE UNCHANGED Ledger!vars
  <2>1. UNCHANGED <<now, funds, cache, answer, ledger, ledgerStage, since, tx, lapsed>>
    BY <1>4 DEF Ledger!vars
  <2>2. \A x \in Executor : Ledger!StageInv(x)'
    BY <2>1 DEF Ledger!LedgerInv, Ledger!StageInv
  <2>3. /\ Ledger!Counted' = Ledger!Counted /\ Ledger!Eaten' = Ledger!Eaten
        /\ Ledger!Lapsed' = Ledger!Lapsed /\ Ledger!Outstanding' = Ledger!Outstanding
    BY <2>1 DEF Ledger!Counted, Ledger!Kept, Ledger!Eaten, Ledger!Lapsed, Ledger!Outstanding
  <2> QED
    BY <1>0, <2>1, <2>2, <2>3, MovesKept
<1> QED
  BY <1>1, <1>2, <1>3, <1>4 DEF Ledger!Next

LEMMA LedgerInvariance ==
  ASSUME Ledger!LedgerAssumption
  PROVE  Ledger!Spec => []Ledger!LedgerInv
<1>1. Ledger!LedgerInv /\ [Ledger!Next]_(Ledger!vars) => Ledger!LedgerInv'
  BY LedgerStep
<1>2. Ledger!Init => Ledger!LedgerInv
  BY LedgerInit
<1> QED
  BY <1>1, <1>2, PTL DEF Ledger!Spec

-----------------------------------------------------------------------------
(* TelegramDialogue *)

\* The steps that neither ask, confirm nor forget a question.
LEMMA DialogueFrame ==
  ASSUME Dialogue!DialogueInv, UNCHANGED <<setting, copyInput, asked>>
  PROVE  Dialogue!DialogueInv'
BY DEF Dialogue!DialogueInv, Dialogue!AskedInv

LEMMA AskCopyInputKeeps ==
  ASSUME Dialogue!DialogueInv, NEW q \in Dialogue!Question, Dialogue!AskCopyInput(q)
  PROVE  Dialogue!DialogueInv'
<1>1. /\ UNCHANGED <<setting, asked>>
      /\ copyInput' = [question |-> q, value |-> Nothing, late |-> FALSE]
  BY DEF Dialogue!AskCopyInput, Dialogue!SetPendingCopyInput
<1>2. copyInput' \in [question : Dialogue!Question, value : Amount \cup {Nothing},
        late : BOOLEAN]
  BY <1>1, Zenon
<1>3. Dialogue!AskedInv'
  BY <1>1, <1>2 DEF Dialogue!AskedInv
<1> QED
  BY <1>1, <1>3 DEF Dialogue!DialogueInv

\* An answer is accepted for a setting, within its cap, and named in the prompt.
LEMMA AnswerCopyKeeps ==
  ASSUME Dialogue!DialogueInv, NEW text \in Dialogue!Text, Dialogue!AnswerCopy(text)
  PROVE  Dialogue!DialogueInv'
<1> DEFINE q == copyInput.question
<1>1. UNCHANGED setting
  BY DEF Dialogue!AnswerCopy
<1>2. CASE copyInput' = Nothing
  BY <1>1, <1>2 DEF Dialogue!DialogueInv, Dialogue!AskedInv
<1>3. CASE UNCHANGED <<copyInput, asked>>
  BY <1>1, <1>3, DialogueFrame
<1>4. CASE /\ copyInput # Nothing /\ ~copyInput.late
           /\ q.action \notin {"rename_trading_wallet", "trailing_steps"}
           /\ Dialogue!Accepted(q, text)
           /\ copyInput' = [copyInput EXCEPT !.value = text[2]]
           /\ asked' = [setting |-> q.action, value |-> text[2]]
  <2>1. /\ copyInput \in [question : Dialogue!Question, value : Amount \cup {Nothing},
             late : BOOLEAN]
        /\ q \in Dialogue!Question
    BY <1>4 DEF Dialogue!DialogueInv, Dialogue!AskedInv
  <2>2. q.action \in Dialogue!CopySetting
    BY <1>4, <2>1 DEF Dialogue!Question
  <2>3. text[1] = "number" /\ text[2] \in Amount
          /\ (q.action # "buy_pressure_timeout" => text[2] <= Cap)
    BY <1>4 DEF Dialogue!Accepted, Dialogue!Text
  <2>4. /\ copyInput' \in [question : Dialogue!Question, value : Amount \cup {Nothing},
             late : BOOLEAN]
        /\ copyInput'.question = q /\ copyInput'.value = text[2]
    BY <1>4, <2>1, <2>3
  <2>5. Dialogue!AskedInv'
    BY <1>4, <2>2, <2>3, <2>4 DEF Dialogue!AskedInv
  <2> QED
    BY <1>1, <2>5 DEF Dialogue!DialogueInv
<1>5. copyInput # Nothing
  BY DEF Dialogue!AnswerCopy
<1> QED
  BY <1>2, <1>3, <1>4, <1>5 DEF Dialogue!AnswerCopy

LEMMA ConfirmKeeps ==
  ASSUME Dialogue!DialogueInv, Dialogue!ConfirmPending
  PROVE  Dialogue!DialogueInv'
<1>1. UNCHANGED asked
  BY DEF Dialogue!ConfirmPending
<1>2. CASE UNCHANGED <<copyInput, setting>>
  BY <1>1, <1>2, DialogueFrame
<1>3. CASE copyInput' = Nothing /\ UNCHANGED setting
  BY <1>1, <1>3 DEF Dialogue!DialogueInv, Dialogue!AskedInv
<1>4. CASE /\ copyInput # Nothing /\ copyInput.value # Nothing /\ copyInput' = Nothing
           /\ setting' = [setting EXCEPT ![copyInput.question.action] = copyInput.value]
  <2>1. copyInput.question.action \in Dialogue!CopySetting /\ copyInput.value \in Amount
    BY <1>4 DEF Dialogue!DialogueInv, Dialogue!AskedInv
  <2>2. setting' \in [Dialogue!CopySetting -> Amount \cup {Inherited}]
    BY <1>4, <2>1 DEF Dialogue!DialogueInv
  <2> QED
    BY <1>1, <1>4, <2>2 DEF Dialogue!DialogueInv, Dialogue!AskedInv
<1> QED
  BY <1>2, <1>3, <1>4 DEF Dialogue!ConfirmPending

LEMMA ExpireKeeps ==
  ASSUME Dialogue!DialogueInv, Dialogue!Expire
  PROVE  Dialogue!DialogueInv'
<1>1. UNCHANGED <<setting, asked>>
  BY DEF Dialogue!Expire
<1>2. CASE copyInput = Nothing
  BY <1>1, <1>2, DialogueFrame DEF Dialogue!Expire
<1>3. CASE copyInput # Nothing
  <2>1. /\ copyInput \in [question : Dialogue!Question, value : Amount \cup {Nothing},
             late : BOOLEAN]
        /\ copyInput' = [copyInput EXCEPT !.late = TRUE]
    BY <1>3 DEF Dialogue!Expire, Dialogue!DialogueInv, Dialogue!AskedInv
  <2>2. /\ copyInput' \in [question : Dialogue!Question, value : Amount \cup {Nothing},
             late : BOOLEAN]
        /\ copyInput'.question = copyInput.question /\ copyInput'.value = copyInput.value
    BY <2>1, Zenon
  <2>3. Dialogue!AskedInv'
    BY <1>1, <1>3, <2>2 DEF Dialogue!AskedInv, Dialogue!DialogueInv
  <2> QED
    BY <1>1, <2>3 DEF Dialogue!DialogueInv
<1> QED
  BY <1>2, <1>3

LEMMA ResetKeeps ==
  ASSUME Dialogue!DialogueInv, Dialogue!ResetSettings
  PROVE  Dialogue!DialogueInv'
<1>1. UNCHANGED <<copyInput, asked>>
  BY DEF Dialogue!ResetSettings, Dialogue!questions
<1>2. setting' \in [Dialogue!CopySetting -> Amount \cup {Inherited}]
  BY DEF Dialogue!ResetSettings, Dialogue!DialogueInv
<1> QED
  BY <1>1, <1>2 DEF Dialogue!DialogueInv, Dialogue!AskedInv

LEMMA DialogueStep == Dialogue!DialogueInv /\ [Dialogue!Next]_(Dialogue!vars) =>
                        Dialogue!DialogueInv'
<1> SUFFICES ASSUME Dialogue!DialogueInv,
                    [Dialogue!Next]_(Dialogue!vars) PROVE Dialogue!DialogueInv'
  OBVIOUS
<1>1. ASSUME NEW q \in Dialogue!Question, Dialogue!AskCopyInput(q) PROVE Dialogue!DialogueInv'
  BY <1>1, AskCopyInputKeeps
<1>2. ASSUME NEW a \in Dialogue!WalletAction,
             Dialogue!AskWalletInput(a) PROVE Dialogue!DialogueInv'
  BY <1>2, DialogueFrame DEF Dialogue!AskWalletInput
<1>3. ASSUME NEW text \in Dialogue!Text, Dialogue!AnswerWallet(text) PROVE Dialogue!DialogueInv'
  BY <1>3, DialogueFrame DEF Dialogue!AnswerWallet
<1>4. ASSUME NEW text \in Dialogue!Text, Dialogue!AnswerCopy(text) PROVE Dialogue!DialogueInv'
  BY <1>4, AnswerCopyKeeps
<1>5. ASSUME NEW a \in Dialogue!WalletAction, NEW w \in Address,
             Dialogue!WatchCommand(a, w) PROVE Dialogue!DialogueInv'
  BY <1>5, DialogueFrame DEF Dialogue!WatchCommand, Dialogue!questions
<1>6. CASE Dialogue!ConfirmPending
  BY <1>6, ConfirmKeeps
<1>7. CASE Dialogue!CancelPending
  BY <1>7 DEF Dialogue!CancelPending, Dialogue!DialogueInv, Dialogue!AskedInv
<1>8. CASE Dialogue!ResetSettings
  BY <1>8, ResetKeeps
<1>9. CASE Dialogue!StartNotifications \/ Dialogue!StopNotifications \/ Dialogue!ChangeMode
  <2>1. ASSUME NEW m, Dialogue!SetMode(m) PROVE Dialogue!DialogueInv'
    BY <2>1, DialogueFrame DEF Dialogue!SetMode, Dialogue!questions
  <2> QED
    BY <1>9, <2>1 DEF Dialogue!StartNotifications, Dialogue!StopNotifications,
       Dialogue!ChangeMode
<1>10. ASSUME NEW stop \in BOOLEAN, Dialogue!EmergencyButton(stop) PROVE Dialogue!DialogueInv'
  BY <1>10, DialogueFrame DEF Dialogue!EmergencyButton, Dialogue!questions
<1>11. ASSUME NEW i, \/ Dialogue!ShowKeyPicker(i) \/ Dialogue!ShowKeyRemoval(i)
                     \/ Dialogue!ShowCopyRemoval(i) \/ Dialogue!ShowToggle(i)
                     \/ Dialogue!ShowTrail(i)
       PROVE  Dialogue!DialogueInv'
  BY <1>11, DialogueFrame DEF Dialogue!ShowKeyPicker, Dialogue!ShowKeyRemoval,
     Dialogue!ShowCopyRemoval, Dialogue!ShowToggle, Dialogue!ShowTrail, Dialogue!Show,
     Dialogue!questions
<1>12. CASE \/ Dialogue!SelectTradingWallet \/ Dialogue!RemoveTradingWallet
            \/ Dialogue!RemoveCopyWallet
            \/ Dialogue!ToggleCopyTrading \/ Dialogue!TrailButton
  BY <1>12, DialogueFrame DEF Dialogue!SelectTradingWallet, Dialogue!RemoveTradingWallet,
     Dialogue!RemoveCopyWallet, Dialogue!ToggleCopyTrading, Dialogue!TrailButton,
     Dialogue!Pressed, Dialogue!questions
<1>13. CASE Dialogue!RemoveAllCopies \/ Dialogue!RemoveAllKeys
  BY <1>13, DialogueFrame DEF Dialogue!RemoveAllCopies, Dialogue!RemoveAllKeys,
     Dialogue!questions
<1>14. ASSUME NEW new \in BOOLEAN, Dialogue!CreateKey(new) PROVE Dialogue!DialogueInv'
  BY <1>14, DialogueFrame DEF Dialogue!CreateKey, Dialogue!questions
<1>15. CASE Dialogue!Expire
  BY <1>15, ExpireKeeps
<1>16. CASE Dialogue!Restart
  BY <1>16 DEF Dialogue!Restart, Dialogue!DialogueInv, Dialogue!AskedInv
<1>17. CASE UNCHANGED Dialogue!vars
  BY <1>17, DialogueFrame DEF Dialogue!vars, Dialogue!questions
<1> QED
  BY <1>1, <1>2, <1>3, <1>4, <1>5, <1>6, <1>7, <1>8, <1>9, <1>10, <1>11, <1>12, <1>13, <1>14,
     <1>15, <1>16, <1>17 DEF Dialogue!Next

\* Only a confirmation and a reset change a setting.
LEMMA SettingMoves ==
  ASSUME Dialogue!DialogueInv, [Dialogue!Next]_(Dialogue!vars), ~Dialogue!ConfirmPending,
         ~Dialogue!ResetSettings
  PROVE  UNCHANGED setting
<1>1. CASE \/ \E q \in Dialogue!Question : Dialogue!AskCopyInput(q)
           \/ \E a \in Dialogue!WalletAction : Dialogue!AskWalletInput(a)
           \/ \E text \in Dialogue!Text : Dialogue!AnswerWallet(text)
                \/ Dialogue!AnswerCopy(text)
           \/ \E a \in Dialogue!WalletAction, w \in Address : Dialogue!WatchCommand(a, w)
           \/ Dialogue!CancelPending
           \/ Dialogue!StartNotifications \/ Dialogue!StopNotifications \/ Dialogue!ChangeMode
           \/ \E stop \in BOOLEAN : Dialogue!EmergencyButton(stop)
  BY <1>1 DEF Dialogue!AskCopyInput, Dialogue!AskWalletInput, Dialogue!AnswerWallet,
     Dialogue!AnswerCopy, Dialogue!WatchCommand, Dialogue!CancelPending,
              Dialogue!StartNotifications, Dialogue!StopNotifications, Dialogue!ChangeMode,
              Dialogue!SetMode, Dialogue!EmergencyButton
<1>2. CASE \/ \E i : Dialogue!ShowKeyPicker(i) \/ Dialogue!ShowKeyRemoval(i)
           \/ \E i : Dialogue!ShowCopyRemoval(i) \/ Dialogue!ShowToggle(i)
                \/ Dialogue!ShowTrail(i)
  BY <1>2 DEF Dialogue!ShowKeyPicker, Dialogue!ShowKeyRemoval, Dialogue!ShowCopyRemoval,
     Dialogue!ShowToggle, Dialogue!ShowTrail, Dialogue!Show
<1>3. CASE \/ Dialogue!SelectTradingWallet \/ Dialogue!RemoveTradingWallet
                \/ Dialogue!RemoveCopyWallet
           \/ Dialogue!ToggleCopyTrading \/ Dialogue!TrailButton
  BY <1>3 DEF Dialogue!SelectTradingWallet, Dialogue!RemoveTradingWallet,
     Dialogue!RemoveCopyWallet, Dialogue!ToggleCopyTrading,
              Dialogue!TrailButton, Dialogue!Pressed
<1>4. CASE \/ Dialogue!RemoveAllCopies \/ Dialogue!RemoveAllKeys
                \/ (\E new \in BOOLEAN : Dialogue!CreateKey(new))
           \/ Dialogue!Expire \/ Dialogue!Restart \/ UNCHANGED Dialogue!vars
  BY <1>4 DEF Dialogue!RemoveAllCopies, Dialogue!RemoveAllKeys, Dialogue!CreateKey,
     Dialogue!Expire, Dialogue!Restart, Dialogue!vars
<1> QED
  BY <1>1, <1>2, <1>3, <1>4 DEF Dialogue!Next

LEMMA SavesAsAsked ==
  ASSUME Dialogue!DialogueInv, [Dialogue!Next]_(Dialogue!vars), NEW s \in Dialogue!CopySetting,
         setting'[s] \notin {setting[s], Inherited}
  PROVE  /\ asked = [setting |-> s, value |-> setting'[s]]
         /\ s # "buy_pressure_timeout" => setting'[s] <= Cap
<1>1. CASE Dialogue!ConfirmPending
  <2>1. /\ copyInput # Nothing /\ copyInput.value # Nothing
        /\ setting' = [setting EXCEPT ![copyInput.question.action] = copyInput.value]
    BY <1>1 DEF Dialogue!ConfirmPending
  <2>2. s = copyInput.question.action /\ setting'[s] = copyInput.value
    BY <2>1 DEF Dialogue!DialogueInv
  <2> QED
    BY <2>1, <2>2 DEF Dialogue!DialogueInv, Dialogue!AskedInv
<1>2. CASE Dialogue!ResetSettings
  BY <1>2 DEF Dialogue!ResetSettings
<1>3. CASE ~Dialogue!ConfirmPending /\ ~Dialogue!ResetSettings
  BY <1>3, SettingMoves
<1> QED
  BY <1>1, <1>2, <1>3

LEMMA DialogueInit == Dialogue!Init => Dialogue!DialogueInv
BY DEF Dialogue!Init, Dialogue!DialogueInv, Dialogue!AskedInv

-----------------------------------------------------------------------------
(* SubscriberStore *)

\* The kinds of items.
LEMMA Items ==
  /\ \A w \in Wallet : Store!Copy(w) \in Store!Kept /\ Store!Copy(w) \in Store!Item
       /\ Store!Copy(w) \in Store!Copies
  /\ \A w \in Wallet : Store!Watch(w) \in Store!Item /\ Store!Watch(w) \notin Store!Kept
  /\ \A k \in Key : Store!Trading(k) \in Store!Kept /\ Store!Trading(k) \in Store!Item
       /\ Store!Trading(k) \in Store!Keys
  /\ Store!Kept \subseteq Store!Item /\ Store!Row \subseteq Store!Item
       /\ Store!Copies \subseteq Store!Kept /\ Store!Keys \subseteq Store!Kept
  /\ Store!Target \in Store!Row /\ Store!Active \in Store!Row /\ Store!Settings \in Store!Row
       /\ Store!Mode \in Store!Row
  /\ Store!Target \notin Store!Kept /\ Store!Active \notin Store!Kept
       /\ Store!Settings \in Store!Kept /\ Store!Mode \in Store!Kept
BY DEF Store!Copy, Store!Watch, Store!Trading, Store!Target, Store!Active, Store!Settings,
   Store!Mode, Store!Row, Store!Item, Store!Kept, Store!Copies, Store!Keys

LEMMA Distinct ==
  /\ Store!Target # Store!Active /\ Store!Target # Store!Settings /\ Store!Target # Store!Mode
       /\ Store!Active # Store!Settings
  /\ Store!Active # Store!Mode /\ Store!Settings # Store!Mode
  /\ \A w \in Wallet : /\ Store!Copy(w) \notin Store!Row /\ Store!Copy(w) \notin Store!Keys
                       /\ Store!Watch(w) \notin Store!Row /\ Store!Watch(w) \notin Store!Keys
                            /\ Store!Watch(w) \notin Store!Copies
  /\ \A k \in Key : Store!Trading(k) \notin Store!Row /\ Store!Trading(k) \notin Store!Copies
  /\ \A w, v \in Wallet : (Store!Copy(w) = Store!Copy(v) => w = v)
       /\ Store!Copy(w) # Store!Watch(v)
  /\ \A k, h \in Key : Store!Trading(k) = Store!Trading(h) => k = h
  /\ \A w \in Wallet, k \in Key : Store!Copy(w) # Store!Trading(k)
       /\ Store!Watch(w) # Store!Trading(k)
BY DEF Store!Copy, Store!Watch, Store!Trading, Store!Target, Store!Active, Store!Settings,
   Store!Mode, Store!Row, Store!Copies, Store!Keys

LEMMA NoWrites == <<>> \in Seq(SUBSET Store!Item)
OBVIOUS

LEMMA EmptyTyped ==
  /\ DOMAIN Store!Empty = Store!Item /\ Store!Empty[Store!Target] = Nothing
  /\ \A k \in Key : Store!Empty[Store!Trading(k)] = FALSE
BY Items, Distinct DEF Store!Empty, Store!Row

\* A load keeps every item that the old uses of the target do not touch.
LEMMA LoadStands ==
  ASSUME NEW r, r[Store!Target] # TradingState, \A k \in Key : r[Store!Trading(k)] \in BOOLEAN,
         NEW i \in Store!Kept,
         \A w \in Wallet : i = Store!Copy(w) /\ r[i] = "none" => r[Store!Target] # w
  PROVE  Store!Loaded(r)[i] = r[i]
<1>1. i \in Store!Item /\ i # Store!Target /\ i # Store!Active
  BY Items
<1>2. CASE i \in Store!Copies
  <2>1. PICK w \in Wallet : i = Store!Copy(w)
    BY <1>2 DEF Store!Copies
  <2>2. \A v \in Wallet : i = Store!Copy(v) => v = w
    BY <2>1, Distinct
  <2>3. i \notin Store!Keys /\ \A v \in Wallet : i # Store!Watch(v)
    BY <2>1, Distinct
  <2>4. Store!Copied(r) = {} => r[i] = "none"
    BY <2>1 DEF Store!Copied
  <2>5. ~(Store!Copied(r) = {} /\ r[Store!Target] = w)
    BY <2>1, <2>4
  <2> QED
    BY <1>1, <2>1, <2>2, <2>3, <2>5 DEF Store!Loaded
<1>3. CASE i \in Store!Keys
  <2>1. PICK k \in Key : i = Store!Trading(k)
    BY <1>3 DEF Store!Keys
  <2>2. \A v \in Wallet : i # Store!Copy(v) /\ i # Store!Watch(v)
    BY <2>1, Distinct
  <2>3. i[2] = k
    BY <2>1 DEF Store!Trading
  <2>4. k \in Store!KeysOf(r) <=> r[i]
    BY <2>1 DEF Store!KeysOf
  <2>5. Store!Loaded(r)[i] = (i[2] \in Store!KeysOf(r))
    BY <1>1, <1>3, <2>2 DEF Store!Loaded
  <2>6. r[i] \in BOOLEAN
    BY <2>1
  <2> QED
    BY <2>3, <2>4, <2>5, <2>6
<1>4. CASE i \in {Store!Settings, Store!Mode}
  <2>1. i \notin Store!Keys /\ \A v \in Wallet : i # Store!Copy(v) /\ i # Store!Watch(v)
    BY <1>4, Items, Distinct DEF Store!Keys
  <2> QED
    BY <1>1, <2>1 DEF Store!Loaded
<1> QED
  BY <1>2, <1>3, <1>4 DEF Store!Kept

LEMMA LoadTyped ==
  ASSUME Store!StoreAssumption, NEW r, r[Store!Target] \in Wallet \cup {Nothing, TradingState}
  PROVE  /\ DOMAIN Store!Loaded(r) = Store!Item
         /\ \A k \in Key : Store!Loaded(r)[Store!Trading(k)] \in BOOLEAN
         /\ Store!Loaded(r)[Store!Target] \in Wallet \cup {Nothing}
         /\ Store!Loaded(r)[Store!Target] \in {r[Store!Target], Nothing}
<1>1. DOMAIN Store!Loaded(r) = Store!Item
  BY DEF Store!Loaded
<1>2. ASSUME NEW k \in Key PROVE Store!Loaded(r)[Store!Trading(k)] \in BOOLEAN
  <2>1. /\ Store!Trading(k) \in Store!Item /\ Store!Trading(k) \in Store!Keys
             /\ Store!Trading(k) # Store!Target /\ Store!Trading(k) # Store!Active
        /\ \A v \in Wallet : Store!Trading(k) # Store!Copy(v)
             /\ Store!Trading(k) # Store!Watch(v)
    BY Items, Distinct
  <2> QED
    BY <2>1 DEF Store!Loaded
<1>3. Store!Target \in Store!Item
  BY Items
<1>4. (Store!Loaded(r)[Store!Target] = r[Store!Target] /\ r[Store!Target] # TradingState)
        \/ Store!Loaded(r)[Store!Target] = Nothing
  <2> DEFINE adopted == IF Store!Copied(r) = {} /\ r[Store!Target] \in Wallet
                        THEN {r[Store!Target]} ELSE {}
             keeps == r[Store!Target] # TradingState /\ (backend = "supabase" \/ adopted # {})
  <2>1. /\ Store!Target # Store!Active /\ Store!Target \notin Store!Keys
        /\ \A v \in Wallet : Store!Target # Store!Copy(v) /\ Store!Target # Store!Watch(v)
    BY Items, Distinct
  <2>2. Store!Loaded(r)[Store!Target] = IF keeps THEN r[Store!Target] ELSE Nothing
    BY <1>3, <2>1 DEF Store!Loaded
  <2> HIDE DEF keeps
  <2>3. CASE keeps
    BY <2>2, <2>3 DEF keeps
  <2> QED
    BY <2>2, <2>3
<1> QED
  BY <1>1, <1>2, <1>4

LEMMA StoreInit == Store!StoreAssumption /\ Store!Init => Store!StoreInv
<1> SUFFICES ASSUME Store!StoreAssumption, Store!Init PROVE Store!StoreInv
  OBVIOUS
<1>1. PICK t \in Wallet \cup {Nothing, TradingState} :
             db = [Store!Empty EXCEPT ![Store!Target] = t]
  BY DEF Store!Init
<1>2. /\ DOMAIN db = Store!Item /\ db[Store!Target] = t /\ \A k \in Key :
           db[Store!Trading(k)] = FALSE
  BY <1>1, Items, Distinct, EmptyTyped
<1>3. /\ DOMAIN mem = Store!Item /\ mem[Store!Target] \in Wallet \cup {Nothing}
      /\ \A k \in Key : mem[Store!Trading(k)] \in BOOLEAN
  BY <1>2, LoadTyped DEF Store!Init
<1>4. Store!Typed
  <2>1. DOMAIN next = Store!Item /\ DOMAIN want = Store!Item /\ next[Store!Target] = Nothing
    BY EmptyTyped DEF Store!Init
  <2>2. \A k \in Key : next[Store!Trading(k)] = FALSE
    BY EmptyTyped DEF Store!Init
  <2>3. todo = <<>> /\ subject = {} /\ torn = FALSE
    BY DEF Store!Init
  <2>4. todo \in Seq(SUBSET Store!Item) /\ subject \subseteq Store!Item /\ torn \in BOOLEAN
    BY <2>3, NoWrites
  <2> QED
    BY <1>2, <1>3, <2>1, <2>2, <2>4 DEF Store!Typed
<1>5. \A i \in Store!Item : want[i] = Nothing
  BY DEF Store!Init
<1>6. Store!Standing
  BY <1>5, Items DEF Store!Standing, Store!Stands
<1> QED
  BY <1>4, <1>6 DEF Store!StoreInv, Store!UnderWay, Store!Init

\* What a command may make of the record: it differs from the memory only in what
\* it is about, its writes carry that and the target, a wallet it removes is not
\* the target, and a target it sets is a wallet that stays copied.
Fits(record, about, writes) ==
  /\ about \in SUBSET Store!Item /\ writes \in Seq(SUBSET Store!Item)
  /\ DOMAIN record = Store!Item
  /\ \A k \in Key : record[Store!Trading(k)] \in BOOLEAN
  /\ record[Store!Target] \in Wallet \cup {Nothing}
  /\ \A i \in Store!Kept \ about : record[i] = mem[i]
  /\ \A i \in about \cup {Store!Target} : \E n \in 1 .. Len(writes) : i \in writes[n]
  /\ \A w \in Wallet : Store!Copy(w) \in about /\ record[Store!Copy(w)] = "none" =>
       record[Store!Target] # w
  /\ \A w \in Wallet : record[Store!Target] = w =>
       mem[Store!Target] = w \/ Store!Copy(w) \in about \/ mem[Store!Copy(w)] # "none"

\* A command that fits begins.
LEMMA MutateKeeps ==
  ASSUME Store!StoreInv, NEW record, NEW about, NEW writes,
         Fits(record, about, writes), Store!Mutate(record, about, writes)
  PROVE  Store!StoreInv'
<1>1. /\ todo = <<>> /\ next' = record /\ subject' = about
      /\ db' = db /\ torn' = torn /\ want' = want
      /\ \/ mem' = record /\ todo' = <<Store!Item>>
         \/ mem' = mem /\ todo' = writes
  BY DEF Store!Mutate
<1>2. /\ todo' \in Seq(SUBSET Store!Item)
      /\ \A i \in about \cup {Store!Target} : \E n \in 1 .. Len(todo') : i \in todo'[n]
  <2>1. Store!Item \in SUBSET Store!Item /\ <<Store!Item>> \in Seq(SUBSET Store!Item)
          /\ Len(<<Store!Item>>) = 1 /\ <<Store!Item>>[1] = Store!Item
    OBVIOUS
  <2>2. about \cup {Store!Target} \subseteq Store!Item
    BY Items DEF Fits
  <2>3. CASE todo' = <<Store!Item>>
    BY <2>1, <2>2, <2>3
  <2> QED
    BY <1>1, <2>3 DEF Fits
<1>3. Store!Typed'
  BY <1>1, <1>2 DEF Store!StoreInv, Store!Typed, Fits
<1>4. todo' # <<>>
  <2>1. PICK n \in 1 .. Len(todo') : Store!Target \in todo'[n]
    BY <1>2
  <2> QED
    BY <2>1
<1>5. Store!UnderWay'
  BY <1>1, <1>2 DEF Store!UnderWay, Fits
<1>6. \A i \in Store!Kept : Store!Stands(i)' => Store!Stands(i) /\ i \notin about
        /\ mem'[i] = mem[i] /\ record[i] = mem[i]
  BY <1>1, <1>4 DEF Store!Stands, Fits
<1>7. \A i \in Store!Kept : Store!Stands(i)' => mem'[i] = want'[i] /\ db'[i] = want'[i]
  BY <1>1, <1>6 DEF Store!StoreInv, Store!Standing
<1>8. ASSUME NEW w \in Wallet, Store!Stands(Store!Copy(w))', want'[Store!Copy(w)] = "none"
      PROVE  mem'[Store!Target] # w /\ db'[Store!Target] # w /\ next'[Store!Target] # w
  <2>1. Store!Stands(Store!Copy(w)) /\ Store!Copy(w) \notin about
          /\ want[Store!Copy(w)] = "none"
    BY <1>1, <1>6, <1>8, Items
  <2>2. mem[Store!Copy(w)] = "none" /\ mem[Store!Target] # w /\ db[Store!Target] # w
    BY <2>1, Items DEF Store!StoreInv, Store!Standing
  <2>3. record[Store!Target] # w
    BY <2>1, <2>2 DEF Fits
  <2> QED
    BY <1>1, <2>2, <2>3
<1>9. (\E i \in Store!Item : want'[i] # Nothing) => ~torn' /\ db'[Store!Target] # TradingState
  BY <1>1 DEF Store!StoreInv, Store!Standing
<1>10. Store!Standing'
  BY <1>7, <1>8, <1>9 DEF Store!Standing
<1> QED
  BY <1>3, <1>5, <1>10 DEF Store!StoreInv

\* Writes that carry what a command is about.
LEMMA RowWrites ==
  ASSUME NEW about \in SUBSET Store!Row
  PROVE  /\ <<Store!Row>> \in Seq(SUBSET Store!Item)
         /\ \A i \in about \cup {Store!Target} : \E n \in 1 .. Len(<<Store!Row>>) :
              i \in <<Store!Row>>[n]
<1>1. Store!Row \subseteq Store!Item /\ Store!Target \in Store!Row
  BY Items
<1>2. Len(<<Store!Row>>) = 1 /\ <<Store!Row>>[1] = Store!Row
  OBVIOUS
<1>3. \A i \in about \cup {Store!Target} : 1 \in 1 .. Len(<<Store!Row>>)
        /\ i \in <<Store!Row>>[1]
  BY <1>1, <1>2
<1>4. <<Store!Row>> \in Seq(SUBSET Store!Item)
  BY <1>1
<1> QED
  BY <1>3, <1>4

LEMMA RowAndWrites ==
  ASSUME NEW about \in SUBSET Store!Item
  PROVE  /\ <<Store!Row, about>> \in Seq(SUBSET Store!Item)
              /\ <<about, Store!Row>> \in Seq(SUBSET Store!Item)
         /\ \A i \in about \cup {Store!Target} :
              /\ \E n \in 1 .. Len(<<Store!Row, about>>) : i \in <<Store!Row, about>>[n]
              /\ \E n \in 1 .. Len(<<about, Store!Row>>) : i \in <<about, Store!Row>>[n]
<1>1. Store!Row \subseteq Store!Item /\ Store!Target \in Store!Row
  BY Items
<1>2. /\ Len(<<Store!Row, about>>) = 2 /\ <<Store!Row, about>>[1] = Store!Row
           /\ <<Store!Row, about>>[2] = about
      /\ Len(<<about, Store!Row>>) = 2 /\ <<about, Store!Row>>[1] = about
           /\ <<about, Store!Row>>[2] = Store!Row
  OBVIOUS
<1>3. <<Store!Row, about>> \in Seq(SUBSET Store!Item)
        /\ <<about, Store!Row>> \in Seq(SUBSET Store!Item)
  BY <1>1
<1>4. 1 \in 1 .. Len(<<Store!Row, about>>) /\ 2 \in 1 .. Len(<<Store!Row, about>>)
      /\ 1 \in 1 .. Len(<<about, Store!Row>>) /\ 2 \in 1 .. Len(<<about, Store!Row>>)
  BY <1>2
<1>5. ASSUME NEW i \in about \cup {Store!Target}
      PROVE  /\ \E n \in 1 .. Len(<<Store!Row, about>>) : i \in <<Store!Row, about>>[n]
             /\ \E n \in 1 .. Len(<<about, Store!Row>>) : i \in <<about, Store!Row>>[n]
  <2>1. CASE i \in about
    BY <1>2, <1>4, <2>1
  <2>2. CASE i = Store!Target
    BY <1>1, <1>2, <1>4, <2>2
  <2> QED
    BY <2>1, <2>2
<1> QED
  BY <1>3, <1>5

\* What every command starts from.
LEMMA Before ==
  ASSUME Store!StoreInv
  PROVE  /\ DOMAIN mem = Store!Item /\ mem[Store!Target] \in Wallet \cup {Nothing}
         /\ \A k \in Key : mem[Store!Trading(k)] \in BOOLEAN
BY DEF Store!StoreInv, Store!Typed

\* The commands about the row: one write, and nothing removed.
LEMMA RowCommandKeeps ==
  ASSUME Store!StoreInv, NEW i \in {Store!Mode, Store!Settings}, NEW v,
         Store!Mutate(Store!With(i, v), {i}, <<Store!Row>>)
  PROVE  Store!StoreInv'
<1> DEFINE record == Store!With(i, v)
<1>1. i \in Store!Item /\ i \in Store!Row /\ {i} \in SUBSET Store!Row
        /\ {i} \in SUBSET Store!Item /\ i # Store!Target
  BY Items, Distinct
<1>2. /\ \A w \in Wallet : Store!Copy(w) # i
      /\ \A k \in Key : Store!Trading(k) # i /\ Store!Trading(k) \in Store!Item
  BY <1>1, Items, Distinct
<1>3. DOMAIN record = Store!Item /\ \A j \in Store!Item \ {i} : record[j] = mem[j]
  BY Before DEF Store!With
<1>4. Fits(record, {i}, <<Store!Row>>)
  BY <1>1, <1>2, <1>3, Before, Items, RowWrites DEF Fits
<1> QED
  BY <1>4, MutateKeeps

LEMMA SameRowKeeps ==
  ASSUME Store!StoreInv, NEW i \in Store!Item, Store!Mutate(mem, {i}, <<Store!Row, {i}>>),
         i \in Store!Copies => mem[i] # "none"
  PROVE  Store!StoreInv'
<1>1. {i} \in SUBSET Store!Item
  OBVIOUS
<1>2. \A w \in Wallet : Store!Copy(w) = i => mem[Store!Copy(w)] # "none"
  BY Items
<1>3. Fits(mem, {i}, <<Store!Row, {i}>>)
  BY <1>1, <1>2, Before, RowAndWrites DEF Fits
<1> QED
  BY <1>3, MutateKeeps

LEMMA ModeKeeps ==
  ASSUME Store!StoreInv, Store!Mutate(mem, {Store!Mode}, <<Store!Row>>)
  PROVE  Store!StoreInv'
<1>1. {Store!Mode} \in SUBSET Store!Row /\ {Store!Mode} \in SUBSET Store!Item
  BY Items
<1>2. \A w \in Wallet : Store!Copy(w) # Store!Mode
  BY Items, Distinct
<1>3. Fits(mem, {Store!Mode}, <<Store!Row>>)
  BY <1>1, <1>2, Before, RowWrites DEF Fits
<1> QED
  BY <1>3, MutateKeeps

\* The commands about one wallet.
LEMMA WatchKeeps ==
  ASSUME Store!StoreAssumption, Store!StoreInv, NEW w \in Wallet, Store!WatchWallet(w)
           \/ Store!UnwatchWallet(w)
  PROVE  Store!StoreInv'
<1>1. /\ {Store!Watch(w)} \in SUBSET Store!Item /\ Store!Watch(w) \notin Store!Kept
           /\ Store!Watch(w) # Store!Target /\ Store!Watch(w) \in Store!Item
      /\ Store!Target \in Store!Item /\ Store!Target \notin Store!Kept
      /\ \A v \in Wallet : Store!Copy(v) # Store!Watch(w)
      /\ \A k \in Key : Store!Trading(k) # Store!Watch(w) /\ Store!Trading(k) # Store!Target
           /\ Store!Trading(k) \in Store!Item
  BY Items, Distinct
<1>2. CASE Store!WatchWallet(w)
  <2>1. /\ DOMAIN Store!WithWatched(w) = Store!Item
        /\ \A j \in Store!Item \ {Store!Watch(w)} : Store!WithWatched(w)[j] = mem[j]
    BY Before DEF Store!WithWatched, Store!With
  <2>2. Fits(Store!WithWatched(w), {Store!Watch(w)}, <<Store!Row, {Store!Watch(w)}>>)
    BY <1>1, <2>1, Before, Items, RowAndWrites DEF Fits
  <2> QED
    BY <1>2, <2>2, MutateKeeps DEF Store!WatchWallet
<1>3. CASE Store!UnwatchWallet(w)
  <2>1. /\ DOMAIN Store!WithoutWatched(w) = Store!Item
        /\ \A j \in Store!Item \ {Store!Watch(w), Store!Target} :
             Store!WithoutWatched(w)[j] = mem[j]
        /\ Store!WithoutWatched(w)[Store!Target] = Store!TargetWithout(w)
    BY <1>1, Before DEF Store!WithoutWatched
  <2>2. Store!TargetWithout(w) \in {mem[Store!Target], Nothing} /\ \A v \in Wallet : v # Nothing
    BY DEF Store!TargetWithout, Store!StoreAssumption
  <2>3. Fits(Store!WithoutWatched(w), {Store!Watch(w)}, <<Store!Row, {Store!Watch(w)}>>)
    BY <1>1, <2>1, <2>2, Before, Items, RowAndWrites DEF Fits
  <2> QED
    BY <1>3, <2>3, MutateKeeps DEF Store!UnwatchWallet
<1> QED
  BY <1>2, <1>3

LEMMA CopyKeeps ==
  ASSUME Store!StoreAssumption, Store!StoreInv, NEW w \in Wallet,
         \/ Store!WatchCopyTradeWallet(w) \/ Store!UnwatchCopyTradeWallet(w)
         \/ \E v \in {"on", "off"} : Store!SetCopyTradeWalletEnabled(w, v)
         \/ Store!SetCopyTradeWalletTrailingSellConfig(w)
  PROVE  Store!StoreInv'
<1>1. /\ {Store!Copy(w)} \in SUBSET Store!Item /\ Store!Copy(w) # Store!Target
           /\ Store!Copy(w) \in Store!Item
      /\ Store!Target \in Store!Item /\ Store!Target \notin Store!Kept
      /\ \A v \in Wallet : Store!Copy(v) = Store!Copy(w) => v = w
      /\ \A k \in Key : Store!Trading(k) # Store!Copy(w) /\ Store!Trading(k) # Store!Target
           /\ Store!Trading(k) \in Store!Item
  BY Items, Distinct
<1>2. CASE Store!WatchCopyTradeWallet(w)
  <2>1. /\ DOMAIN Store!WithCopied(w) = Store!Item
        /\ \A j \in Store!Item \ {Store!Copy(w), Store!Target} : Store!WithCopied(w)[j] = mem[j]
        /\ Store!WithCopied(w)[Store!Target] = w
             /\ Store!WithCopied(w)[Store!Copy(w)] \in {"on", "off"}
    BY <1>1, Before DEF Store!WithCopied
  <2>2. Fits(Store!WithCopied(w), {Store!Copy(w)}, <<Store!Row, {Store!Copy(w)}>>)
    BY <1>1, <2>1, Before, Items, RowAndWrites DEF Fits
  <2> QED
    BY <1>2, <2>2, MutateKeeps DEF Store!WatchCopyTradeWallet
<1>3. CASE Store!UnwatchCopyTradeWallet(w)
  <2>1. /\ DOMAIN Store!WithoutCopied(w) = Store!Item
        /\ \A j \in Store!Item \ {Store!Copy(w), Store!Target} :
             Store!WithoutCopied(w)[j] = mem[j]
        /\ Store!WithoutCopied(w)[Store!Target] = Store!TargetWithout(w)
    BY <1>1, Before DEF Store!WithoutCopied
  <2>2. /\ Store!TargetWithout(w) \in {mem[Store!Target], Nothing} /\ Store!TargetWithout(w) # w
        /\ \A v \in Wallet : v # Nothing
    BY DEF Store!TargetWithout, Store!StoreAssumption
  <2>3. Fits(Store!WithoutCopied(w), {Store!Copy(w)}, <<Store!Row, {Store!Copy(w)}>>)
    BY <1>1, <2>1, <2>2, Before, Items, RowAndWrites DEF Fits
  <2> QED
    BY <1>3, <2>3, MutateKeeps DEF Store!UnwatchCopyTradeWallet
<1>4. CASE \E v \in {"on", "off"} : Store!SetCopyTradeWalletEnabled(w, v)
  <2>1. PICK v \in {"on", "off"} :
          Store!Mutate(Store!WithSwitched(w, v), {Store!Copy(w)},
                       <<Store!Row, {Store!Copy(w)}>>)
    BY <1>4 DEF Store!SetCopyTradeWalletEnabled
  <2>2. /\ DOMAIN Store!WithSwitched(w, v) = Store!Item
        /\ \A j \in Store!Item \ {Store!Copy(w)} : Store!WithSwitched(w, v)[j] = mem[j]
        /\ Store!WithSwitched(w, v)[Store!Copy(w)] # "none"
    BY <1>1, Before DEF Store!WithSwitched, Store!With
  <2>3. Fits(Store!WithSwitched(w, v), {Store!Copy(w)}, <<Store!Row, {Store!Copy(w)}>>)
    BY <1>1, <2>2, Before, Items, RowAndWrites DEF Fits
  <2> QED
    BY <2>1, <2>3, MutateKeeps
<1>5. CASE Store!SetCopyTradeWalletTrailingSellConfig(w)
  BY <1>1, <1>5, SameRowKeeps DEF Store!SetCopyTradeWalletTrailingSellConfig, Store!Copied
<1> QED
  BY <1>2, <1>3, <1>4, <1>5

LEMMA ClearCopiesKeeps ==
  ASSUME Store!StoreAssumption, Store!StoreInv, Store!UnwatchAllCopyTradeWallets
  PROVE  Store!StoreInv'
<1>1. /\ Store!Copies \in SUBSET Store!Item /\ Store!Target \notin Store!Copies
           /\ Store!Target \in Store!Item /\ Store!Target \notin Store!Kept
      /\ \A k \in Key : Store!Trading(k) \notin Store!Copies /\ Store!Trading(k) # Store!Target
           /\ Store!Trading(k) \in Store!Item
      /\ \A w \in Wallet : w # Nothing
  BY Items, Distinct DEF Store!StoreAssumption
<1>2. /\ DOMAIN Store!WithoutCopies = Store!Item /\ Store!WithoutCopies[Store!Target] = Nothing
      /\ \A j \in Store!Item \ (Store!Copies \cup {Store!Target}) :
           Store!WithoutCopies[j] = mem[j]
  BY <1>1 DEF Store!WithoutCopies
<1>3. Fits(Store!WithoutCopies, Store!Copies, <<Store!Row, Store!Copies>>)
  BY <1>1, <1>2, Before, Items, RowAndWrites DEF Fits
<1> QED
  BY <1>3, MutateKeeps DEF Store!UnwatchAllCopyTradeWallets

LEMMA TargetKeeps ==
  ASSUME Store!StoreAssumption, Store!StoreInv, NEW w \in Wallet \cup {Nothing},
         Store!SetCopyTargetWallet(w)
  PROVE  Store!StoreInv'
<1>1. /\ Store!Target \in Store!Item /\ Store!Target \notin Store!Kept
      /\ \A v \in Wallet : v # Nothing
      /\ \A k \in Key : Store!Trading(k) # Store!Target /\ Store!Trading(k) \in Store!Item
  BY Items, Distinct DEF Store!StoreAssumption
<1>2. CASE w = Nothing \/ w \in Store!Copied(mem)
  <2>1. DOMAIN Store!WithTarget(w) = Store!Item /\ Store!WithTarget(w)[Store!Target] = w
        /\ \A j \in Store!Item \ {Store!Target} : Store!WithTarget(w)[j] = mem[j]
    BY <1>1, <1>2, Before DEF Store!WithTarget, Store!With
  <2>2. {} \in SUBSET Store!Row /\ {} \in SUBSET Store!Item
    OBVIOUS
  <2>3. \A v \in Wallet : w = v => mem[Store!Copy(v)] # "none"
    BY <1>1, <1>2 DEF Store!Copied
  <2>4. Fits(Store!WithTarget(w), {}, <<Store!Row>>)
    BY <1>1, <2>1, <2>2, <2>3, Before, Items, RowWrites DEF Fits
  <2> QED
    BY <1>2, <2>4, MutateKeeps DEF Store!SetCopyTargetWallet
<1>3. CASE ~(w = Nothing \/ w \in Store!Copied(mem))
  <2>1. /\ w \in Wallet /\ {Store!Copy(w)} \in SUBSET Store!Item
             /\ Store!Copy(w) # Store!Target /\ Store!Copy(w) \in Store!Item
        /\ \A v \in Wallet : Store!Copy(v) = Store!Copy(w) => v = w
        /\ \A k \in Key : Store!Trading(k) # Store!Copy(w)
    BY <1>3, Items, Distinct
  <2>2. /\ DOMAIN Store!WithTarget(w) = Store!Item /\ Store!WithTarget(w)[Store!Target] = w
        /\ Store!WithTarget(w)[Store!Copy(w)] = "on"
        /\ \A j \in Store!Item \ {Store!Target, Store!Copy(w)} : Store!WithTarget(w)[j] = mem[j]
    BY <1>1, <1>3, <2>1, Before DEF Store!WithTarget
  <2>3. Fits(Store!WithTarget(w), {Store!Copy(w)}, <<Store!Row, {Store!Copy(w)}>>)
    BY <1>1, <2>1, <2>2, Before, Items, RowAndWrites DEF Fits
  <2> QED
    BY <1>3, <2>3, MutateKeeps DEF Store!SetCopyTargetWallet
<1> QED
  BY <1>2, <1>3

\* The commands about trading wallets leave the target alone.
LEMMA KeyFits ==
  ASSUME Store!StoreInv, NEW record, NEW about, about \subseteq Store!Keys,
         DOMAIN record = Store!Item,
         \A j \in Store!Item \ (about \cup {Store!Active}) : record[j] = mem[j],
         \A k \in Key : record[Store!Trading(k)] \in BOOLEAN
  PROVE  Fits(record, about, <<Store!Row, about>>) /\ Fits(record, about, <<about, Store!Row>>)
<1>1. /\ about \in SUBSET Store!Item /\ Store!Target \in Store!Item
           /\ Store!Target \notin about /\ Store!Target # Store!Active
      /\ Store!Active \notin Store!Kept /\ Store!Kept \subseteq Store!Item
      /\ \A w \in Wallet : Store!Copy(w) \notin about
  BY Items, Distinct
<1>2. record[Store!Target] = mem[Store!Target] /\ \A i \in Store!Kept \ about :
        record[i] = mem[i]
  BY <1>1
<1> QED
  BY <1>1, <1>2, Before, RowAndWrites DEF Fits

LEMMA KeyKeeps ==
  ASSUME Store!StoreInv, NEW k \in Key, Store!SetTradingWallet(k)
           \/ Store!SetActiveTradingWallet(k) \/ Store!RemoveTradingWallet(k)
  PROVE  Store!StoreInv'
<1>1. /\ {Store!Trading(k)} \subseteq Store!Keys /\ Store!Trading(k) \in Store!Item
           /\ Store!Active \in Store!Item
      /\ \A h \in Key : Store!Trading(h) # Store!Active /\ Store!Trading(h) \in Store!Item
  BY Items, Distinct
<1>2. CASE Store!SetTradingWallet(k)
  <2>1. /\ DOMAIN Store!WithTrading(k) = Store!Item
             /\ Store!WithTrading(k)[Store!Trading(k)] = TRUE
        /\ \A j \in Store!Item \ ({Store!Trading(k)} \cup {Store!Active}) :
             Store!WithTrading(k)[j] = mem[j]
    BY <1>1, Before DEF Store!WithTrading
  <2>2. \A h \in Key : Store!WithTrading(k)[Store!Trading(h)] \in BOOLEAN
    BY <1>1, <2>1, Before
  <2>3. Fits(Store!WithTrading(k), {Store!Trading(k)}, <<Store!Row, {Store!Trading(k)}>>)
    BY <1>1, <2>1, <2>2, KeyFits
  <2> QED
    BY <1>2, <2>3, MutateKeeps DEF Store!SetTradingWallet
<1>3. CASE Store!SetActiveTradingWallet(k)
  <2>1. /\ DOMAIN Store!WithActive(k) = Store!Item
        /\ \A j \in Store!Item \ {Store!Active} : Store!WithActive(k)[j] = mem[j]
    BY <1>1, Before DEF Store!WithActive, Store!With
  <2>2. \A h \in Key : Store!WithActive(k)[Store!Trading(h)] \in BOOLEAN
    BY <1>1, <2>1, Before
  <2>3. Fits(Store!WithActive(k), {Store!Trading(k)}, <<Store!Row, {Store!Trading(k)}>>)
    BY <1>1, <2>1, <2>2, KeyFits
  <2> QED
    BY <1>3, <2>3, MutateKeeps DEF Store!SetActiveTradingWallet
<1>4. CASE Store!RemoveTradingWallet(k)
  <2>1. /\ DOMAIN Store!WithoutTrading(k) = Store!Item
             /\ Store!WithoutTrading(k)[Store!Trading(k)] = FALSE
        /\ \A j \in Store!Item \ ({Store!Trading(k)} \cup {Store!Active}) :
             Store!WithoutTrading(k)[j] = mem[j]
    BY <1>1, Before DEF Store!WithoutTrading
  <2>2. \A h \in Key : Store!WithoutTrading(k)[Store!Trading(h)] \in BOOLEAN
    BY <1>1, <2>1, Before
  <2>3. Fits(Store!WithoutTrading(k), {Store!Trading(k)}, <<{Store!Trading(k)}, Store!Row>>)
    BY <1>1, <2>1, <2>2, KeyFits
  <2> QED
    BY <1>4, <2>3, MutateKeeps DEF Store!RemoveTradingWallet
<1> QED
  BY <1>2, <1>3, <1>4

LEMMA ClearKeysKeeps ==
  ASSUME Store!StoreInv, Store!RemoveAllTradingWallets
  PROVE  Store!StoreInv'
<1>1. \A h \in Key : Store!Trading(h) \in Store!Keys /\ Store!Trading(h) \in Store!Item
  BY Items
<1>2. /\ DOMAIN Store!WithoutKeys = Store!Item /\ \A i \in Store!Item \cap Store!Keys :
           Store!WithoutKeys[i] = FALSE
      /\ \A j \in Store!Item \ (Store!Keys \cup {Store!Active}) : Store!WithoutKeys[j] = mem[j]
  BY DEF Store!WithoutKeys
<1>3. \A h \in Key : Store!WithoutKeys[Store!Trading(h)] \in BOOLEAN
  BY <1>1, <1>2
<1>4. Fits(Store!WithoutKeys, Store!Keys, <<Store!Keys, Store!Row>>)
  BY <1>2, <1>3, KeyFits
<1> QED
  BY <1>4, MutateKeeps DEF Store!RemoveAllTradingWallets

\* A call is answered.
LEMMA AnswerKeeps ==
  ASSUME Store!StoreAssumption, Store!StoreInv, Store!Answer
  PROVE  Store!StoreInv'
<1>1. /\ todo # <<>> /\ todo \in Seq(SUBSET Store!Item) /\ torn' = FALSE /\ todo' = Tail(todo)
      /\ db' = [i \in Store!Item |-> IF i \in Head(todo) THEN next[i] ELSE db[i]]
      /\ Store!Target \in Store!Item /\ Store!Kept \subseteq Store!Item
           /\ subject \subseteq Store!Item
  BY Items DEF Store!Answer, Store!Written, Store!StoreInv, Store!Typed
<1>2. /\ DOMAIN db' = Store!Item /\ todo' \in Seq(SUBSET Store!Item)
      /\ db'[Store!Target] \in {next[Store!Target], db[Store!Target]}
      /\ \A k \in Key : db'[Store!Trading(k)] \in BOOLEAN
  <2>1. \A k \in Key : db'[Store!Trading(k)] \in {next[Store!Trading(k)], db[Store!Trading(k)]}
    BY <1>1, Items
  <2> QED
    BY <1>1, <2>1 DEF Store!StoreInv, Store!Typed
<1>3. \A i \in Store!Kept \ subject : next[i] = mem[i]
  BY <1>1 DEF Store!StoreInv, Store!UnderWay
<1>4. \A i \in subject \cup {Store!Target} : db'[i] = next[i] \/ \E n \in 1 .. Len(todo') :
        i \in todo'[n]
  <2> SUFFICES ASSUME NEW i \in subject \cup {Store!Target}, db'[i] # next[i]
               PROVE  \E n \in 1 .. Len(todo') : i \in todo'[n]
    OBVIOUS
  <2>1. i \in Store!Item /\ i \notin Head(todo) /\ db[i] # next[i]
    BY <1>1
  <2>2. PICK n \in 1 .. Len(todo) : i \in todo[n]
    BY <1>1, <2>1 DEF Store!StoreInv, Store!UnderWay
  <2>3. n # 1
    BY <1>1, <2>1, <2>2
  <2>4. n - 1 \in 1 .. Len(todo') /\ todo'[n - 1] = todo[n]
    BY <1>1, <2>2, <2>3
  <2> QED
    BY <2>2, <2>4
<1>5. \A i \in Store!Kept : Store!Stands(i) /\ i \notin subject => mem[i] = want[i]
        /\ db'[i] = want[i] /\ next[i] = want[i]
  BY <1>1, <1>3 DEF Store!StoreInv, Store!Standing
<1>6. next[Store!Target] \in Wallet \cup {Nothing} /\ next[Store!Target] # TradingState
  BY DEF Store!StoreInv, Store!Typed, Store!StoreAssumption
<1>7. CASE Tail(todo) = <<>>
  <2>1. /\ mem' = next /\ next' = Store!Empty /\ subject' = {}
        /\ want' = [i \in Store!Item |-> IF i \in subject THEN next[i] ELSE want[i]]
    BY <1>7 DEF Store!Answer
  <2>2. \A i \in subject \cup {Store!Target} : db'[i] = next[i]
    <3>1. todo' = <<>> /\ 1 .. Len(todo') = {}
      BY <1>1, <1>7
    <3> QED
      BY <1>4, <3>1
  <2>3. Store!Typed'
    BY <1>1, <1>2, <1>6, <2>1, EmptyTyped DEF Store!StoreInv, Store!Typed
  <2>4. \A i \in Store!Kept : Store!Stands(i)' => mem'[i] = want'[i] /\ db'[i] = want'[i]
    <3> SUFFICES ASSUME NEW i \in Store!Kept, Store!Stands(i)' PROVE mem'[i] = want'[i]
                          /\ db'[i] = want'[i]
      OBVIOUS
    <3>1. CASE i \in subject
      BY <1>1, <2>1, <2>2, <3>1
    <3>2. CASE i \notin subject
      BY <1>1, <1>5, <2>1, <3>2 DEF Store!Stands
    <3> QED
      BY <3>1, <3>2
  <2>5. \A w \in Wallet : Store!Stands(Store!Copy(w))' /\ want'[Store!Copy(w)] = "none" =>
          next[Store!Target] # w
    <3> SUFFICES ASSUME NEW w \in Wallet, Store!Stands(Store!Copy(w))',
                        want'[Store!Copy(w)] = "none"
                 PROVE  next[Store!Target] # w
      OBVIOUS
    <3>0. Store!Copy(w) \in Store!Item
      BY Items
    <3>1. CASE Store!Copy(w) \in subject
      BY <1>1, <2>1, <3>0, <3>1 DEF Store!StoreInv, Store!UnderWay
    <3>2. CASE Store!Copy(w) \notin subject
      BY <1>1, <2>1, <3>0, <3>2 DEF Store!StoreInv, Store!Standing, Store!Stands
    <3> QED
      BY <3>1, <3>2
  <2>6. mem'[Store!Target] = next[Store!Target] /\ db'[Store!Target] = next[Store!Target]
          /\ todo' = <<>>
    BY <1>1, <1>7, <2>1, <2>2
  <2>7. Store!Standing'
    BY <1>1, <1>6, <2>4, <2>5, <2>6 DEF Store!Standing
  <2> QED
    BY <2>3, <2>6, <2>7 DEF Store!StoreInv, Store!UnderWay
<1>8. CASE Tail(todo) # <<>>
  <2>1. UNCHANGED <<mem, want, next, subject>>
    BY <1>8 DEF Store!Answer
  <2>2. Store!Typed'
    BY <1>1, <1>2, <1>6, <2>1 DEF Store!StoreInv, Store!Typed
  <2>3. Store!UnderWay'
    BY <1>1, <1>4, <2>1 DEF Store!StoreInv, Store!UnderWay
  <2>4. \A i \in Store!Item : Store!Stands(i)' => Store!Stands(i) /\ i \notin subject
    BY <1>1, <1>8, <2>1 DEF Store!Stands
  <2>5. \A i \in Store!Kept : Store!Stands(i)' => mem'[i] = want'[i] /\ db'[i] = want'[i]
    BY <1>1, <1>5, <2>1, <2>4
  <2>6. \A w \in Wallet : Store!Stands(Store!Copy(w))' /\ want'[Store!Copy(w)] = "none" =>
          mem'[Store!Target] # w /\ db'[Store!Target] # w /\ next'[Store!Target] # w
    BY <1>1, <1>2, <2>1, <2>4, Items DEF Store!StoreInv, Store!Standing
  <2>7. (\E i \in Store!Item : want'[i] # Nothing) => ~torn' /\ db'[Store!Target] # TradingState
    BY <1>1, <1>2, <1>6, <2>1 DEF Store!StoreInv, Store!Standing
  <2>8. Store!Standing'
    BY <2>5, <2>6, <2>7 DEF Store!Standing
  <2> QED
    BY <2>2, <2>3, <2>8 DEF Store!StoreInv
<1> QED
  BY <1>7, <1>8

\* What is kept when a call fails or a process ends: what stands is written.
LEMMA KeptWhenHalted ==
  ASSUME Store!StoreAssumption, Store!StoreInv,
         IF todo = <<>> THEN UNCHANGED <<db, torn, todo, next, subject, want>> ELSE Store!Halted
  PROVE  /\ todo' = <<>> /\ DOMAIN db' = Store!Item /\ DOMAIN next' = Store!Item
              /\ DOMAIN want' = Store!Item
         /\ subject' \subseteq Store!Item /\ torn' \in BOOLEAN
         /\ \A k \in Key : db'[Store!Trading(k)] \in BOOLEAN
              /\ next'[Store!Trading(k)] \in BOOLEAN
         /\ db'[Store!Target] \in Wallet \cup {Nothing, TradingState}
              /\ next'[Store!Target] \in Wallet \cup {Nothing}
         /\ \A i \in Store!Item : want'[i] # Nothing => ~torn' /\ want'[i] = want[i]
              /\ Store!Stands(i)
         /\ \A i \in Store!Kept : want'[i] # Nothing => db'[i] = want'[i]
         /\ \A w \in Wallet : want'[Store!Copy(w)] # Nothing /\ want'[Store!Copy(w)] = "none" =>
              db'[Store!Target] # w
         /\ (\E i \in Store!Item : want'[i] # Nothing) => db'[Store!Target] # TradingState
<1>1. CASE todo = <<>>
  <2>1. UNCHANGED <<db, torn, todo, next, subject, want>>
    BY <1>1
  <2>2. \A i \in Store!Item : want[i] # Nothing => Store!Stands(i)
    BY <1>1 DEF Store!Stands
  <2> QED
    BY <1>1, <2>1, <2>2, Items DEF Store!StoreInv, Store!Typed, Store!Standing
<1>2. CASE todo # <<>>
  <2>1. /\ todo' = <<>> /\ next' = Store!Empty /\ subject' = {}
        /\ want' = [i \in Store!Item |-> IF torn' \/ i \in subject THEN Nothing ELSE want[i]]
    BY <1>2 DEF Store!Halted
  <2>2. \/ db' = db /\ torn' \in BOOLEAN
        \/ /\ torn' = FALSE
           /\ db' = [i \in Store!Item |-> IF i \in Head(todo) THEN next[i] ELSE db[i]]
    BY <1>2 DEF Store!Halted, Store!Written, Store!StoreInv, Store!Typed
  <2>3. torn' \in BOOLEAN /\ DOMAIN db' = Store!Item
    BY <2>2 DEF Store!StoreInv, Store!Typed
  <2>4. \A i \in Store!Item : db'[i] \in {db[i], next[i]}
    BY <2>2
  <2>5. \A k \in Key : db'[Store!Trading(k)] \in BOOLEAN /\ next'[Store!Trading(k)] \in BOOLEAN
    <3> SUFFICES ASSUME NEW k \in Key
                 PROVE  db'[Store!Trading(k)] \in BOOLEAN /\ next'[Store!Trading(k)] \in BOOLEAN
      OBVIOUS
    <3>1. db'[Store!Trading(k)] \in {db[Store!Trading(k)], next[Store!Trading(k)]}
      BY <2>4, Items
    <3> QED
      BY <2>1, <3>1, EmptyTyped DEF Store!StoreInv, Store!Typed
  <2>6. \A i \in Store!Item : want'[i] # Nothing => ~torn' /\ want'[i] = want[i]
          /\ i \notin subject /\ Store!Stands(i)
    BY <2>1, <2>3 DEF Store!Stands
  <2>7. \A i \in Store!Kept : want'[i] # Nothing => db'[i] = want'[i]
    BY <1>2, <2>4, <2>6, Items DEF Store!StoreInv, Store!Standing, Store!UnderWay
  <2>8. db'[Store!Target] \in {db[Store!Target], next[Store!Target]}
          /\ next[Store!Target] # TradingState
    BY <2>4, Items DEF Store!StoreInv, Store!Typed, Store!StoreAssumption
  <2>9. \A w \in Wallet : want'[Store!Copy(w)] # Nothing /\ want'[Store!Copy(w)] = "none" =>
          db'[Store!Target] # w
    BY <1>2, <2>6, <2>8, Items DEF Store!StoreInv, Store!Standing
  <2>10. (\E i \in Store!Item : want'[i] # Nothing) => db'[Store!Target] # TradingState
    BY <2>6, <2>8 DEF Store!StoreInv, Store!Standing
  <2>11. db'[Store!Target] \in Wallet \cup {Nothing, TradingState}
           /\ next'[Store!Target] \in Wallet \cup {Nothing}
    BY <2>1, <2>8, EmptyTyped DEF Store!StoreInv, Store!Typed
  <2> QED
    BY <2>1, <2>3, <2>5, <2>6, <2>7, <2>9, <2>10, <2>11, EmptyTyped
<1> QED
  BY <1>1, <1>2

LEMMA FailKeeps ==
  ASSUME Store!StoreAssumption, Store!StoreInv, Store!Fail
  PROVE  Store!StoreInv'
<1>1. /\ todo # <<>> /\ Store!Halted /\ mem' = mem
      /\ IF todo = <<>> THEN UNCHANGED <<db, torn, todo, next, subject, want>> ELSE Store!Halted
  BY DEF Store!Fail
<1>2. todo' \in Seq(SUBSET Store!Item)
  BY <1>1, KeptWhenHalted
<1>3. Store!Typed'
  <2> HIDE DEF Store!Typed
  <2>1. DOMAIN mem = Store!Item /\ mem[Store!Target] \in Wallet \cup {Nothing} /\ \A k \in Key :
          mem[Store!Trading(k)] \in BOOLEAN
    BY DEF Store!StoreInv, Store!Typed
  <2> QED
    BY <1>1, <1>2, <2>1, KeptWhenHalted DEF Store!Typed
<1>4. \A i \in Store!Item : Store!Stands(i)' => Store!Stands(i) /\ want'[i] # Nothing
        /\ want'[i] = want[i]
  BY <1>1, KeptWhenHalted DEF Store!Stands
<1>5. \A i \in Store!Kept : Store!Stands(i)' => mem'[i] = want'[i] /\ db'[i] = want'[i]
  BY <1>1, <1>4, KeptWhenHalted, Items DEF Store!StoreInv, Store!Standing
<1>6. \A w \in Wallet : Store!Stands(Store!Copy(w))' /\ want'[Store!Copy(w)] = "none" =>
        mem'[Store!Target] # w /\ db'[Store!Target] # w
  BY <1>1, <1>4, KeptWhenHalted, Items DEF Store!StoreInv, Store!Standing
<1>7. Store!Standing'
  BY <1>1, <1>5, <1>6, KeptWhenHalted DEF Store!Standing
<1> QED
  BY <1>1, <1>3, <1>7, KeptWhenHalted DEF Store!StoreInv, Store!UnderWay

\* The next process loads what was kept, and that is what stands.
LEMMA RestartKeeps ==
  ASSUME Store!StoreAssumption, Store!StoreInv, Store!Restart
  PROVE  Store!StoreInv'
<1>1. /\ IF todo = <<>> THEN UNCHANGED <<db, torn, todo, next, subject, want>> ELSE Store!Halted
      /\ mem' = (IF torn' THEN Store!Empty ELSE Store!Loaded(db'))
  BY DEF Store!Restart
<1>2. todo' \in Seq(SUBSET Store!Item) /\ todo' = <<>>
  <2>1. todo' = <<>>
    BY <1>1, KeptWhenHalted
  <2> QED
    BY <2>1, NoWrites
<1>3. /\ DOMAIN mem' = Store!Item /\ \A k \in Key : mem'[Store!Trading(k)] \in BOOLEAN
      /\ mem'[Store!Target] \in Wallet \cup {Nothing}
           /\ mem'[Store!Target] \in {db'[Store!Target], Nothing}
  <2>1. db'[Store!Target] \in Wallet \cup {Nothing, TradingState}
    BY <1>1, KeptWhenHalted
  <2> QED
    BY <1>1, <2>1, LoadTyped, EmptyTyped
<1>4. Store!Typed'
  BY <1>1, <1>2, <1>3, KeptWhenHalted DEF Store!Typed
<1>5. \A i \in Store!Item : Store!Stands(i)' => want'[i] # Nothing /\ ~torn'
  BY <1>1, KeptWhenHalted DEF Store!Stands
<1>6. ASSUME NEW i \in Store!Kept, Store!Stands(i)' PROVE mem'[i] = want'[i]
               /\ db'[i] = want'[i]
  <2>1. i \in Store!Item /\ want'[i] # Nothing /\ ~torn'
    BY <1>5, <1>6, Items
  <2>2. db'[i] = want'[i] /\ db'[Store!Target] # TradingState /\ \A k \in Key :
          db'[Store!Trading(k)] \in BOOLEAN
    BY <1>1, <2>1, KeptWhenHalted
  <2>3. \A w \in Wallet : i = Store!Copy(w) /\ db'[i] = "none" => db'[Store!Target] # w
    BY <1>1, <2>1, <2>2, KeptWhenHalted
  <2>4. Store!Loaded(db')[i] = db'[i]
    BY <2>2, <2>3, LoadStands
  <2> QED
    BY <1>1, <2>1, <2>2, <2>4
<1>7. \A w \in Wallet : Store!Stands(Store!Copy(w))' /\ want'[Store!Copy(w)] = "none" =>
        mem'[Store!Target] # w /\ db'[Store!Target] # w
  BY <1>1, <1>3, <1>5, KeptWhenHalted, Items DEF Store!StoreAssumption
<1>8. Store!Standing'
  BY <1>1, <1>2, <1>5, <1>6, <1>7, KeptWhenHalted DEF Store!Standing
<1> QED
  BY <1>2, <1>4, <1>8 DEF Store!StoreInv, Store!UnderWay

LEMMA StoreStep ==
  Store!StoreAssumption /\ Store!StoreInv /\ [Store!Next]_(Store!vars) => Store!StoreInv'
<1> SUFFICES ASSUME Store!StoreAssumption, Store!StoreInv,
                    [Store!Next]_(Store!vars) PROVE Store!StoreInv'
  OBVIOUS
<1>1. ASSUME NEW v, Store!SetMode(v) PROVE Store!StoreInv'
  BY <1>1, RowCommandKeeps DEF Store!SetMode
<1>2. ASSUME NEW paused, Store!SetNotificationsPaused(paused) PROVE Store!StoreInv'
  BY <1>2, RowCommandKeeps DEF Store!SetNotificationsPaused
<1>3. ASSUME Store!Add PROVE Store!StoreInv'
  <2>1. Store!Mutate(Store!With(Store!Mode, "none"), {Store!Mode}, <<Store!Row>>)
          \/ Store!Mutate(mem, {Store!Mode}, <<Store!Row>>)
    BY <1>3 DEF Store!Add
  <2> QED
    BY <2>1, RowCommandKeeps, ModeKeeps
<1>4. ASSUME NEW v, Store!SetSetting(v) PROVE Store!StoreInv'
  BY <1>4, RowCommandKeeps DEF Store!SetSetting, Store!WithSetting
<1>5. ASSUME Store!ResetCopyTradeExecutionSettings PROVE Store!StoreInv'
  BY <1>5, RowCommandKeeps DEF Store!ResetCopyTradeExecutionSettings, Store!WithDefaults
<1>6. CASE UNCHANGED Store!vars
  <2>1. UNCHANGED <<mem, db, torn, todo, next, subject, want>>
    BY <1>6 DEF Store!vars
  <2>2. Store!Typed' /\ Store!UnderWay'
    BY <2>1 DEF Store!StoreInv, Store!Typed, Store!UnderWay
  <2>3. Store!Standing'
    BY <2>1 DEF Store!StoreInv, Store!Standing, Store!Stands
  <2> QED
    BY <2>2, <2>3 DEF Store!StoreInv
<1>7. ASSUME NEW w \in Wallet,
             \/ Store!WatchWallet(w) \/ Store!UnwatchWallet(w)
             \/ Store!WatchCopyTradeWallet(w) \/ Store!UnwatchCopyTradeWallet(w)
             \/ \E v \in {"on", "off"} : Store!SetCopyTradeWalletEnabled(w, v)
             \/ Store!SetCopyTradeWalletTrailingSellConfig(w)
      PROVE  Store!StoreInv'
  BY <1>7, WatchKeeps, CopyKeeps
<1>8. CASE \/ \E w \in Wallet \cup {Nothing} : Store!SetCopyTargetWallet(w)
           \/ Store!UnwatchAllCopyTradeWallets
  BY <1>8, TargetKeeps, ClearCopiesKeeps
<1>9. CASE \/ \E k \in Key : Store!SetTradingWallet(k) \/ Store!SetActiveTradingWallet(k)
                \/ Store!RemoveTradingWallet(k)
           \/ Store!RemoveAllTradingWallets
  BY <1>9, KeyKeeps, ClearKeysKeeps
<1>10. CASE Store!Answer \/ Store!Fail \/ Store!Restart
  BY <1>10, AnswerKeeps, FailKeeps, RestartKeeps
<1> QED
  BY <1>1, <1>2, <1>3, <1>4, <1>5, <1>6, <1>7, <1>8, <1>9, <1>10 DEF Store!Next

LEMMA StoreInvariance ==
  ASSUME Store!StoreAssumption
  PROVE  Store!Spec => []Store!StoreInv
<1>1. Store!StoreInv /\ [Store!Next]_(Store!vars) => Store!StoreInv'
  BY StoreStep
<1>2. Store!Init => Store!StoreInv
  BY StoreInit
<1> QED
  BY <1>1, <1>2, PTL DEF Store!Spec

\* What stands in memory and in the store also survives a load.
LEMMA StandsAsAcknowledged ==
  ASSUME Store!StoreInv
  PROVE  Store!AcknowledgedStands
<1> SUFFICES ASSUME NEW i \in Store!Kept, Store!Stands(i)
             PROVE  mem[i] = want[i] /\ Store!Reloaded[i] = want[i]
  BY DEF Store!AcknowledgedStands, Store!Stands
<1>1. i \in Store!Item /\ mem[i] = want[i] /\ db[i] = want[i] /\ want[i] # Nothing
  BY Items DEF Store!StoreInv, Store!Standing, Store!Stands
<1>2. ~torn /\ db[Store!Target] # TradingState /\ \A k \in Key :
        db[Store!Trading(k)] \in BOOLEAN
  BY <1>1 DEF Store!StoreInv, Store!Standing, Store!Typed
<1>3. \A w \in Wallet : i = Store!Copy(w) /\ db[i] = "none" => db[Store!Target] # w
  BY <1>1 DEF Store!StoreInv, Store!Standing
<1>4. Store!Loaded(db)[i] = db[i]
  BY <1>2, <1>3, LoadStands
<1> QED
  BY <1>1, <1>2, <1>4 DEF Store!Reloaded

-----------------------------------------------------------------------------
(* The parts together *)

LEMMA LedgerMoves == [NextOfAll]_allVars => [Ledger!Next]_(Ledger!vars)
BY DEF NextOfAll, RecordNext, StoreNext, DialogueNext, LedgerNext, allVars, ledgerVars,
   Ledger!vars

\* Concurrent buys count on the same lamports only after a reservation lapsed, and
\* by no more than the lapsed amount, for any number of executors and refreshers,
\* any spends and funds, any expiry and age of a balance, and any delay of an
\* executor, an answer or the chain.
THEOREM NeverOverdrawn == SpecOfAll => []NoOverdraft
<1>1. InitOfAll => Ledger!Init
  BY DEF InitOfAll
<1>2. Ledger!Spec => []Ledger!LedgerInv
  BY LedgerConstants, LedgerInvariance
<1>3. Ledger!LedgerInv => NoOverdraft
  BY DEF Ledger!LedgerInv, NoOverdraft
<1> QED
  BY <1>1, <1>2, <1>3, LedgerMoves, PTL DEF SpecOfAll, Ledger!Spec

LEMMA DialogueMoves == [NextOfAll]_allVars => [Dialogue!Next]_(Dialogue!vars)
BY DEF NextOfAll, RecordNext, StoreNext, DialogueNext, LedgerNext, allVars, dialogueVars,
       Dialogue!vars, Dialogue!lists, Dialogue!questions, Dialogue!counters

LEMMA StoreMoves == [NextOfAll]_allVars => [Store!Next]_(Store!vars)
BY DEF NextOfAll, RecordNext, StoreNext, DialogueNext, LedgerNext, allVars, storeVars,
   Store!vars

LEMMA DialogueInvariance == SpecOfAll => []Dialogue!DialogueInv
<1>1. InitOfAll => Dialogue!DialogueInv
  BY DialogueInit DEF InitOfAll
<1>2. Dialogue!DialogueInv /\ [NextOfAll]_allVars => Dialogue!DialogueInv'
  BY DialogueMoves, DialogueStep
<1> QED
  BY <1>1, <1>2, PTL DEF SpecOfAll

\* A setting is saved only as the last confirmation prompt named it, and within
\* its cap, for any amounts, caps, questions and restarts.
THEOREM SavesWhatWasAsked == SpecOfAll => SavedAsAsked
<1>1. Dialogue!DialogueInv /\ [NextOfAll]_allVars =>
        [\A s \in Dialogue!CopySetting : setting'[s] \notin {setting[s], Inherited} =>
           /\ asked = [setting |-> s, value |-> setting'[s]]
           /\ s # "buy_pressure_timeout" => setting'[s] <= Cap]_(Dialogue!vars)
  BY DialogueMoves, SavesAsAsked
<1> QED
  BY <1>1, DialogueInvariance, PTL DEF SpecOfAll, SavedAsAsked, Dialogue!SavedAsAsked

\* What a command left acknowledged stands in memory and across a restart, for
\* any wallets, keys and settings, failed calls and restarts.
THEOREM StandsAcrossRestarts == SpecOfAll => []AcknowledgedStands
<1>1. InitOfAll => Store!StoreInv
  BY StoreConstants, StoreInit DEF InitOfAll
<1>2. Store!StoreInv /\ [NextOfAll]_allVars => Store!StoreInv'
  BY StoreConstants, StoreMoves, StoreStep
<1>3. Store!StoreInv => AcknowledgedStands
  BY StandsAsAcknowledged DEF AcknowledgedStands
<1> QED
  BY <1>1, <1>2, <1>3, PTL DEF SpecOfAll
=============================================================================
