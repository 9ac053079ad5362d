------------------------- MODULE HotSnapshotProofs -------------------------
(***************************************************************************)
(* An acknowledged emergency stop stays effective, the worker has the keys *)
(* of the wallets it trades, and the last emergency command is the one     *)
(* that is remembered, for any wallets and any number of commands, crashes *)
(* and failed calls.                                                       *)
(***************************************************************************)
EXTENDS HotSnapshot, SequenceTheorems, TLAPS

-----------------------------------------------------------------------------
(* Type correctness *)

LEMMA SnapshotTyped ==
  /\ NoSnapshot \in Snapshot
  /\ NoSnapshot.profiles = {}
  /\ \A s \in Snapshot : s.sequence \in Nat /\ s.stopped \in BOOLEAN /\ s.profiles \in SUBSET Wallet
BY DEF NoSnapshot, Snapshot

LEMMA CommandTyped ==
  \A c \in Command : c.wallets \in SUBSET Wallet /\ c.reason \in Emergency \cup Setting
BY DEF Command, Emergency, Setting

\* What a handled update is, and that it was fetched.
LEMMA HandleTyped ==
  ASSUME TypeOK, Handle
  PROVE  /\ offset + 1 \in 1 .. Len(inbox)
         /\ command' = inbox[offset + 1]
         /\ command' \in Command
         /\ bot' \in {"opening", "refreshing"}
<1>1. offset + 1 \in 1 .. Len(inbox)
  BY DEF TypeOK, Handle
<1> QED
  BY <1>1 DEF TypeOK, Handle

\* The Boolean variables, apart: no backend does them well beside the others.
Flags ==
  /\ stopped \in BOOLEAN /\ reloads \in BOOLEAN
  /\ halted \in BOOLEAN /\ lost \in BOOLEAN /\ stale \in BOOLEAN

LEMMA FlagStep ==
  ASSUME TypeOK, [Next]_vars
  PROVE  Flags'
<1> USE DEF Flags, TypeOK, telegram, memory, disk, rust, history
<1>1. CASE Press \/ Boot \/ Poll \/ Refresh \/ Crash \/ WorkerCrash \/ UNCHANGED vars
  BY <1>1 DEF Press, Boot, Poll, Refresh, Crash, WorkerCrash, vars
<1>2. CASE Handle
  BY <1>2 DEF Handle
<1>3. CASE OpenStopFile \/ WriteStopFile
  BY <1>3 DEF OpenStopFile, WriteStopFile, Fails
<1>4. CASE WriteKeys
  BY <1>4 DEF WriteKeys, Fails
<1>5. CASE WriteSnapshot \/ Reload
  BY <1>5 DEF WriteSnapshot, Reload, Completes, Fails
<1>6. CASE WorkerStep
  BY <1>6 DEF WorkerStep, Start, LoadKeypairs, ReadSnapshot, ReplaceKeypairs, StoreRuntime
<1>7. CASE \E w \in Wallet : Detect(w) \/ Execute(w)
  BY <1>7 DEF Detect, Execute
<1> QED
  BY <1>1, <1>2, <1>3, <1>4, <1>5, <1>6, <1>7 DEF Next, BotStep

LEMMA TypeStep ==
  ASSUME TypeOK, [Next]_vars
  PROVE  TypeOK'
<1>0. Flags'
  BY FlagStep
<1> USE SnapshotTyped, CommandTyped, SnapshotAssumption, <1>0
<1> USE DEF telegram, memory, disk, rust, history, Flags
<1>1. CASE Press
  <2>1. PICK c \in Command : inbox' = Append(inbox, c)
    BY <1>1 DEF Press
  <2>2. inbox' \in Seq(Command) /\ Len(inbox') = Len(inbox) + 1
    BY <2>1 DEF TypeOK
  <2> QED
    BY <1>1, <2>2 DEF Press, TypeOK
<1>2. CASE Boot
  BY <1>2 DEF Boot, TypeOK, Handling
<1>3. CASE Poll
  BY <1>3 DEF Poll, Confirmed, TypeOK
<1>4. CASE Handle
  <2>1. offset' \in Nat /\ confirmed' <= offset' /\ offset' <= batch' /\ batch' <= Len(inbox')
    BY <1>4 DEF Handle, TypeOK
  <2>2. stopped' \in BOOLEAN /\ halted' \in BOOLEAN
    BY <1>4 DEF Handle, TypeOK
  <2>3. command' \in Command /\ config' \in SUBSET Wallet
    BY <1>4, HandleTyped DEF Handle, TypeOK
  <2>4. bot' \in Handling
    BY <1>4 DEF Handle, Handling
  <2>5. UNCHANGED <<inbox, confirmed, batch, sequence, draft, stopFile, keyFiles, file, rust,
                    reloads, lost, stale, faults>>
    BY <1>4 DEF Handle
  <2> QED
    BY <2>1, <2>2, <2>3, <2>4, <2>5 DEF TypeOK
<1>5. CASE OpenStopFile
  BY <1>5 DEF OpenStopFile, Fails, Fault, TypeOK, Handling
<1>6. CASE WriteStopFile
  BY <1>6 DEF WriteStopFile, Fails, Fault, TypeOK, Handling
<1>7. CASE Refresh
  <2>1. draft' \in Snapshot
    BY <1>7 DEF Refresh, Profiles, Snapshot, TypeOK
  <2> QED
    BY <1>7, <2>1 DEF Refresh, TypeOK, Handling
<1>8. CASE WriteKeys
  BY <1>8 DEF WriteKeys, KeysWritten, Fails, Fault, TypeOK, Handling
<1>9. CASE WriteSnapshot
  BY <1>9 DEF WriteSnapshot, Completes, Fails, Fault, TypeOK, Handling
<1>10. CASE Reload
  BY <1>10 DEF Reload, WorkerEnds, Completes, Fails, Fault, TypeOK, Handling
<1>11. CASE Crash
  BY <1>11 DEF Crash, Fault, TypeOK
<1>12. CASE WorkerStep
  BY <1>12 DEF WorkerStep, Start, LoadKeypairs, ReadSnapshot, ReplaceKeypairs, Replaced,
               StoreRuntime, TypeOK
<1>13. CASE \E w \in Wallet : Detect(w) \/ Execute(w)
  BY <1>13 DEF Detect, Execute, TypeOK
<1>14. CASE WorkerCrash
  BY <1>14 DEF WorkerCrash, WorkerEnds, Fault, TypeOK
<1>15. CASE UNCHANGED vars
  BY <1>15 DEF vars, TypeOK
<1> QED
  BY <1>1, <1>2, <1>3, <1>4, <1>5, <1>6, <1>7, <1>8, <1>9, <1>10, <1>11, <1>12, <1>13,
     <1>14, <1>15 DEF Next, BotStep

LEMMA TypeInit == Init => TypeOK
<1> SUFFICES ASSUME Init PROVE TypeOK
  OBVIOUS
<1>1. Flags
  BY DEF Init, Flags
<1> QED
  BY <1>1, SnapshotTyped, SnapshotAssumption DEF Init, TypeOK, Flags

\* Every variable keeps its type: TypeOK holds for every instance.
THEOREM TypeCorrect == Spec => []TypeOK
<1> QED
  BY TypeInit, TypeStep, PTL DEF Spec

-----------------------------------------------------------------------------
(* The keys of the wallets that are traded *)

\* Key files come before the snapshots that name them, on disk and in the worker.
KeysFirst ==
  /\ bot = "snapshot" => draft.profiles \subseteq keyFiles
  /\ file.profiles \subseteq keyFiles
  /\ runtime.profiles \subseteq keyFiles
  /\ loaded.profiles \subseteq keyFiles
  /\ ProfilesHaveKeys

LEMMA KeysInit == Init => KeysFirst
BY SnapshotTyped DEF Init, KeysFirst, ProfilesHaveKeys

LEMMA KeysStep ==
  ASSUME KeysFirst, [Next]_vars
  PROVE  KeysFirst'
<1> USE SnapshotTyped
<1> USE DEF KeysFirst, ProfilesHaveKeys, telegram, memory, disk, rust
<1>1. CASE Press \/ Boot \/ Poll \/ Refresh \/ Crash \/ UNCHANGED vars
  BY <1>1 DEF Press, Boot, Poll, Refresh, Crash, vars
<1>2. CASE Handle \/ OpenStopFile \/ WriteStopFile
  BY <1>2 DEF Handle, OpenStopFile, WriteStopFile, Fails
<1>3. CASE WriteKeys
  BY <1>3 DEF WriteKeys, KeysWritten, Fails
<1>4. CASE WriteSnapshot
  BY <1>4 DEF WriteSnapshot, Completes, Fails
<1>5. CASE Reload \/ WorkerCrash
  BY <1>5 DEF Reload, WorkerCrash, WorkerEnds, Completes, Fails
<1>6. CASE Start \/ LoadKeypairs \/ ReadSnapshot
  BY <1>6 DEF Start, LoadKeypairs, ReadSnapshot
<1>7. CASE ReplaceKeypairs \/ StoreRuntime
  BY <1>7 DEF ReplaceKeypairs, Replaced, StoreRuntime
<1>8. CASE \E w \in Wallet : Detect(w) \/ Execute(w)
  BY <1>8 DEF Detect, Execute
<1> QED
  BY <1>1, <1>2, <1>3, <1>4, <1>5, <1>6, <1>7, <1>8 DEF Next, BotStep, WorkerStep

\* The worker never trades a wallet it cannot sign for, whichever of the two
\* processes dies in between: ProfilesHaveKeys holds for every instance.
THEOREM KeysLoaded == Spec => []ProfilesHaveKeys
<1>1. KeysFirst => ProfilesHaveKeys
  BY DEF KeysFirst
<1> QED
  BY <1>1, KeysInit, KeysStep, PTL DEF Spec

-----------------------------------------------------------------------------
(* The emergency stop *)

\* What an acknowledged stop has emptied.
Emptied ==
  /\ bot \in {"keys", "snapshot"} => draft.profiles = {}
  /\ file.profiles = {}
  /\ reloads => runtime.profiles = {} /\ loaded.profiles = {} /\ queue = {}

\* A stop on its way to its acknowledgement; the flag and the file agree with it
\* from the moment it is saved, the snapshot from the moment it is written.
Stopping ==
  /\ bot = "down" => command = Startup
  /\ bot \in {"opening", "writing"} => stopped = (command.reason = "copytrade.emergency_stop")
  /\ bot \in Handling /\ command.reason = "copytrade.emergency_stop" => stopped
  /\ bot \in {"refreshing", "keys", "snapshot", "reloading"}
       /\ command.reason = "copytrade.emergency_stop" => stopFile = "active"
  /\ bot \in {"keys", "snapshot"} /\ stopped => draft.profiles = {}
  /\ bot = "reloading" /\ stopped => file.profiles = {}

Halting ==
  /\ Stopping
  /\ halted => Emptied /\ stopFile \in {"active", "torn"} /\ (bot # "down" => stopped)

LEMMA HaltingInit == Init => Halting
BY DEF Init, Halting, Stopping, Handling, Startup

LEMMA StoppingStep ==
  ASSUME TypeOK, Stopping, [Next]_vars
  PROVE  Stopping'
<1> USE DEF Stopping, Handling, telegram, memory, disk
<1>1. CASE Press \/ Poll \/ Crash \/ UNCHANGED vars
  BY <1>1 DEF Press, Poll, Crash, vars
<1>2. CASE Boot
  BY <1>2 DEF Boot, Startup
<1>3. CASE Handle
  BY <1>3 DEF Handle, Emergency
<1>4. CASE OpenStopFile
  BY <1>4 DEF OpenStopFile, Fails
<1>5. CASE WriteStopFile
  BY <1>5 DEF WriteStopFile, Fails
<1>6. CASE Refresh
  BY <1>6 DEF Refresh, Profiles
<1>7. CASE WriteKeys
  BY <1>7 DEF WriteKeys, Fails
<1>8. CASE WriteSnapshot
  BY <1>8 DEF WriteSnapshot, Completes, Fails
<1>9. CASE Reload
  BY <1>9 DEF Reload, Completes, Fails
<1>10. CASE WorkerStep \/ WorkerCrash
  BY <1>10 DEF WorkerStep, Start, LoadKeypairs, ReadSnapshot, ReplaceKeypairs, StoreRuntime,
               WorkerCrash
<1>11. CASE \E w \in Wallet : Detect(w) \/ Execute(w)
  BY <1>11 DEF Detect, Execute
<1> QED
  BY <1>1, <1>2, <1>3, <1>4, <1>5, <1>6, <1>7, <1>8, <1>9, <1>10, <1>11 DEF Next, BotStep

LEMMA HaltingStep ==
  ASSUME TypeOK, Halting, [Next]_vars
  PROVE  Halting'
<1>0. Stopping /\ Stopping'
  BY StoppingStep DEF Halting
<1> SUFFICES ASSUME halted'
             PROVE  /\ Emptied'
                    /\ stopFile' \in {"active", "torn"}
                    /\ bot' # "down" => stopped'
  BY <1>0 DEF Halting
<1> USE SnapshotTyped
<1> USE DEF Halting, Emptied, telegram, memory, disk, rust
<1>1. CASE Press
  BY <1>1 DEF Press, history
<1>18. CASE Poll
  BY <1>18 DEF Poll, history
<1>14. CASE Crash
  BY <1>14 DEF Crash, history
<1>15. CASE UNCHANGED vars
  BY <1>15 DEF vars, history
<1>2. CASE Boot
  BY <1>2 DEF Boot, history
<1>3. CASE Handle
  BY <1>3 DEF Handle
<1>4. CASE OpenStopFile
  BY <1>4 DEF OpenStopFile, Fails
<1>5. CASE WriteStopFile
  BY <1>5 DEF WriteStopFile, Fails
<1>6. CASE Refresh
  BY <1>6 DEF Refresh, Profiles, history
<1>7. CASE WriteKeys
  BY <1>7 DEF WriteKeys, Fails
<1>8. CASE WriteSnapshot
  BY <1>0, <1>8 DEF WriteSnapshot, Stopping, Handling, Completes, Fails, ReloadNeeded, Emergency
<1>9. CASE Reload
  BY <1>0, <1>9 DEF Reload, Stopping, Handling, WorkerEnds, Completes, Fails
<1>10. CASE Start
  BY <1>10 DEF Start, history
<1>11. CASE LoadKeypairs
  BY <1>11 DEF LoadKeypairs, history
<1>19. CASE ReplaceKeypairs
  BY <1>19 DEF ReplaceKeypairs, history
<1>16. CASE ReadSnapshot
  BY <1>16 DEF ReadSnapshot, history
<1>17. CASE StoreRuntime
  BY <1>17 DEF StoreRuntime, history
<1>12. CASE \E w \in Wallet : Detect(w) \/ Execute(w)
  <2>1. PICK w \in Wallet : Detect(w) \/ Execute(w)
    BY <1>12
  <2>2. CASE Detect(w)
    BY <2>2 DEF Detect, history
  <2>3. CASE Execute(w)
    BY <2>3 DEF Execute, history
  <2> QED
    BY <2>1, <2>2, <2>3
<1>13. CASE WorkerCrash
  BY <1>13 DEF WorkerCrash, WorkerEnds, history
<1> QED
  BY <1>1, <1>2, <1>3, <1>4, <1>5, <1>6, <1>7, <1>8, <1>9, <1>10, <1>11, <1>12, <1>13,
     <1>14, <1>15, <1>16, <1>17, <1>18, <1>19
     DEF Next, BotStep, WorkerStep

\* An acknowledged stop stands, through crashes of both processes and failed
\* calls, until a resume is handled: StopIsEffective holds for every instance.
THEOREM StopStands == Spec => []StopIsEffective
<1>1. Halting => StopIsEffective
  BY DEF Halting, Emptied, StopIsEffective
<1>2. Init => TypeOK /\ Halting
  BY TypeInit, HaltingInit
<1>3. TypeOK /\ Halting /\ [Next]_vars => TypeOK' /\ Halting'
  BY TypeStep, HaltingStep
<1> QED
  BY <1>1, <1>2, <1>3, PTL DEF Spec

-----------------------------------------------------------------------------
(* The last emergency command *)

\* What the stop file says of the flag, and of the first n updates.
Flag == IF stopped THEN "active" ELSE "inactive"
Word(n) == IF StopIsLast(n) THEN "active" ELSE "inactive"

\* The file records some prefix of the updates, one that Telegram will not make
\* the bot go back behind; while a command is being saved, the flag is ahead of it.
Recorded ==
  /\ bot \in {"opening", "writing"} => Flag = Word(offset)
  /\ ~lost /\ stopFile # "torn" =>
       \E n \in confirmed .. Len(inbox) :
         stopFile = Word(n) /\ (bot \in {"opening", "writing"} \/ n >= offset)
  /\ ~lost /\ bot \notin {"down", "opening", "writing"} => stopFile = Flag

\* A prefix keeps its last command when the inbox only grows.
LEMMA WordKept ==
  ASSUME TypeOK, NEW n \in 0 .. Len(inbox), UNCHANGED inbox \/ Press
  PROVE  Word(n)' = Word(n)
<1>1. CASE UNCHANGED inbox
  BY <1>1 DEF Word, StopIsLast
<1>2. CASE Press
  <2>1. PICK c \in Command : inbox' = Append(inbox, c)
    BY <1>2 DEF Press
  <2>2. \A i \in 1 .. n : inbox'[i] = inbox[i]
    BY <2>1 DEF TypeOK
  <2>3. StopIsLast(n)' <=> StopIsLast(n)
    BY <2>2 DEF StopIsLast
  <2> QED
    BY <2>3 DEF Word
<1> QED
  BY <1>1, <1>2

\* One more update: a stop, a resume, or one that leaves the last command as it was.
LEMMA WordNext ==
  ASSUME TypeOK, NEW n \in 1 .. Len(inbox)
  PROVE  /\ inbox[n].reason = "copytrade.emergency_stop" => Word(n) = "active"
         /\ inbox[n].reason = "copytrade.emergency_resume" => Word(n) = "inactive"
         /\ inbox[n].reason \notin Emergency => Word(n) = Word(n - 1)
<1>1. ASSUME inbox[n].reason = "copytrade.emergency_stop"
      PROVE  StopIsLast(n)
  <2>1. \A j \in n .. n : inbox[j].reason # "copytrade.emergency_resume"
    BY <1>1
  <2> QED
    BY <1>1, <2>1 DEF StopIsLast
<1>2. ASSUME inbox[n].reason = "copytrade.emergency_resume"
      PROVE  ~StopIsLast(n)
  BY <1>2 DEF StopIsLast
<1>3. ASSUME inbox[n].reason \notin Emergency
      PROVE  StopIsLast(n) <=> StopIsLast(n - 1)
  <2>1. 1 .. n = (1 .. (n - 1)) \cup {n} /\ n \notin 1 .. (n - 1)
    OBVIOUS
  <2>2. \A i \in 1 .. (n - 1) : i .. n = (i .. (n - 1)) \cup {n}
    OBVIOUS
  <2> QED
    BY <1>3, <2>1, <2>2 DEF StopIsLast, Emergency
<1> QED
  BY <1>1, <1>2, <1>3 DEF Word

LEMMA RecordedInit == Init => Recorded
<1> SUFFICES ASSUME Init PROVE Recorded
  OBVIOUS
<1>1. ~StopIsLast(0) /\ Len(inbox) = 0
  BY DEF Init, StopIsLast
<1> QED
  BY <1>1 DEF Init, Recorded, Word

LEMMA RecordedStep ==
  ASSUME TypeOK, Recorded, [Next]_vars
  PROVE  Recorded'
<1> USE DEF telegram, memory, disk, rust, history
<1>0. offset \in 0 .. Len(inbox) /\ confirmed \in 0 .. offset /\ Len(inbox) \in Nat
  BY DEF TypeOK
<1>a. ASSUME UNCHANGED inbox, NEW n \in 0 .. Len(inbox)
      PROVE  Word(n)' = Word(n)
  BY <1>a, WordKept
<1>1. CASE Press
  <2>1. Len(inbox') = Len(inbox) + 1
    BY <1>1 DEF Press, TypeOK
  <2>2. \A n \in 0 .. Len(inbox) : Word(n)' = Word(n)
    BY <1>1, WordKept
  <2>3. Flag' = Flag
    BY <1>1 DEF Press, Flag
  <2> QED
    BY <1>0, <1>1, <2>1, <2>2, <2>3 DEF Press, Recorded
<1>2. CASE Boot
  <2>1. stopFile \in {"active", "inactive"}
    BY <1>2 DEF Boot, TypeOK
  <2>2. Flag' = stopFile'
    BY <1>2, <2>1 DEF Boot, Flag
  <2> QED
    BY <1>0, <1>a, <1>2, <2>2 DEF Boot, Recorded
<1>3. CASE Poll
  <2>1. Flag' = Flag
    BY <1>3 DEF Poll, Flag
  <2> QED
    BY <1>0, <1>a, <1>3, <2>1 DEF Poll, Confirmed, Recorded
<1>4. CASE Handle
  <2>0. offset + 1 \in 1 .. Len(inbox) /\ command' = inbox[offset + 1] /\ offset' = offset + 1
    BY <1>4, HandleTyped DEF Handle
  <2>1. UNCHANGED <<inbox, confirmed, stopFile, lost>> /\ bot = "idle"
    BY <1>4 DEF Handle
  <2>2. CASE command'.reason \in Emergency
    <3>1. bot' = "opening" /\ (stopped' <=> command'.reason = "copytrade.emergency_stop")
      BY <1>4, <2>2 DEF Handle
    <3>2. Flag' = Word(offset + 1)
      BY <2>0, <2>2, <3>1, WordNext DEF Flag, Emergency
    <3>3. Word(offset)' = Word(offset + 1)
      BY <1>a, <2>0, <2>1
    <3> QED
      BY <1>0, <1>a, <2>0, <2>1, <3>1, <3>2, <3>3 DEF Recorded
  <2>3. CASE command'.reason \notin Emergency
    <3>1. bot' = "refreshing" /\ Flag' = Flag
      BY <1>4, <2>3 DEF Handle, Flag
    <3>2. Word(offset + 1) = Word(offset)
      BY <1>0, <2>0, <2>3, WordNext
    <3> QED
      BY <1>0, <1>a, <2>0, <2>1, <3>1, <3>2 DEF Recorded
  <2> QED
    BY <2>2, <2>3
<1>5. CASE OpenStopFile
  <2>1. Flag' = Flag
    BY <1>5 DEF OpenStopFile, Flag
  <2> QED
    BY <1>0, <1>a, <1>5, <2>1 DEF OpenStopFile, Fails, Recorded
<1>6. CASE WriteStopFile
  <2>1. Flag' = Flag
    BY <1>6 DEF WriteStopFile, Flag
  <2>2. CASE bot' = "refreshing"
    <3>1. stopFile' = Flag /\ Flag = Word(offset) /\ UNCHANGED <<inbox, confirmed, offset>>
      BY <1>6, <2>2 DEF WriteStopFile, Fails, Flag, Recorded
    <3> QED
      BY <1>0, <1>a, <2>1, <2>2, <3>1 DEF Recorded
  <2>3. CASE bot' # "refreshing"
    BY <1>6, <2>3 DEF WriteStopFile, Fails, Recorded
  <2> QED
    BY <2>2, <2>3
<1>7. CASE Crash
  BY <1>0, <1>a, <1>7 DEF Crash, Recorded
<1>8. ASSUME Refresh \/ WriteKeys \/ WriteSnapshot \/ Reload
      PROVE  Recorded'
  <2>1. UNCHANGED <<inbox, confirmed, offset, stopped, stopFile, lost>>
    BY <1>8 DEF Refresh, WriteKeys, WriteSnapshot, Reload
  <2>2. bot \notin {"down", "opening", "writing"} /\ bot' \notin {"opening", "writing"}
    BY <1>8 DEF Refresh, WriteKeys, WriteSnapshot, Reload, Completes, Fails
  <2>3. Flag' = Flag
    BY <2>1 DEF Flag
  <2> QED
    BY <1>0, <1>a, <2>1, <2>2, <2>3 DEF Recorded
<1>9. ASSUME UNCHANGED <<inbox, confirmed, offset, bot, stopped, stopFile, lost>>
      PROVE  Recorded'
  <2>1. Flag' = Flag
    BY <1>9 DEF Flag
  <2> QED
    BY <1>0, <1>a, <1>9, <2>1 DEF Recorded
<1>10. CASE WorkerStep \/ WorkerCrash
  BY <1>9, <1>10 DEF WorkerStep, Start, LoadKeypairs, ReadSnapshot, ReplaceKeypairs,
                     StoreRuntime, WorkerCrash
<1>11. CASE \E w \in Wallet : Detect(w) \/ Execute(w)
  BY <1>9, <1>11 DEF Detect, Execute
<1>12. CASE UNCHANGED vars
  BY <1>9, <1>12 DEF vars
<1> QED
  BY <1>1, <1>2, <1>3, <1>4, <1>5, <1>6, <1>7, <1>8, <1>10, <1>11, <1>12 DEF Next, BotStep

LEMMA RecordedLast ==
  ASSUME TypeOK, Recorded
  PROVE  LastCommandWins
<1> SUFFICES ASSUME bot = "idle", offset = Len(inbox), ~lost
             PROVE  /\ stopped = StopIsLast(Len(inbox))
                    /\ stopFile = Flag
  BY DEF LastCommandWins, Flag
<1>1. stopFile = Flag
  BY DEF Recorded
<1>2. stopFile # "torn"
  BY <1>1 DEF Flag
<1>3. PICK n \in confirmed .. Len(inbox) : stopFile = Word(n) /\ n >= offset
  BY <1>2 DEF Recorded
<1>4. n = Len(inbox)
  BY <1>3 DEF TypeOK
<1>5. Flag = Word(Len(inbox))
  BY <1>1, <1>3, <1>4
<1>6. stopped <=> StopIsLast(Len(inbox))
  BY <1>5 DEF Flag, Word
<1>7. stopped \in BOOLEAN /\ StopIsLast(Len(inbox)) \in BOOLEAN
  BY DEF TypeOK, StopIsLast
<1> QED
  BY <1>1, <1>6, <1>7

\* What was pressed last is what is remembered, in memory and for the next start,
\* whatever is delivered again after a crash: LastCommandWins holds for every instance.
THEOREM LastStands == Spec => []LastCommandWins
<1>1. TypeOK /\ Recorded => LastCommandWins
  BY RecordedLast
<1>2. Init => TypeOK /\ Recorded
  BY TypeInit, RecordedInit
<1>3. TypeOK /\ Recorded /\ [Next]_vars => TypeOK' /\ Recorded'
  BY TypeStep, RecordedStep
<1> QED
  BY <1>1, <1>2, <1>3, PTL DEF Spec
=============================================================================
