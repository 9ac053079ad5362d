----------------------- MODULE BuyPressureExitProofs -----------------------
(***************************************************************************)
(* A watcher sells at most once, and is never resumed after its sale, for  *)
(* any number of watchers, buys, failed saves and restarts.                *)
(***************************************************************************)
EXTENDS BuyPressureExit, FiniteSetTheorems, TLAPS

-----------------------------------------------------------------------------
(* The queue of saves *)

\* A call goes to the end of the queue and moves no other call.
LEMMA SaveAppends ==
  ASSUME NEW step, NEW w, NEW run, NEW map, saves \in Seq(Call), Save(step, w, run, map)
  PROVE  /\ Len(saves) \in Nat
         /\ Len(saves') = Len(saves) + 1
         /\ \A i \in 1 .. Len(saves) : saves'[i] = saves[i]
         /\ saves'[Len(saves) + 1] =
              [step |-> step, watcher |-> w, run |-> run, snapshot |-> map]
  BY DEF Save

\* An answer takes the first call and moves the others up.
LEMMA AnswerShifts ==
  ASSUME NEW step, NEW ok, saves \in Seq(Call), Answer(step, ok)
  PROVE  /\ Len(saves) \in Nat \ {0}
         /\ Len(saves') = Len(saves) - 1
         /\ Head(saves) = saves[1] /\ saves[1].step = step
         /\ saves[1] \in Call
         /\ \A i \in 1 .. Len(saves') : i + 1 \in 1 .. Len(saves) /\ saves'[i] = saves[i + 1]
         /\ saves' \in Seq(Call)
  BY DEF Answer

-----------------------------------------------------------------------------
(* Type correctness *)

Steps == {"load", "start", "count", "claim", "drop", "done"}

LEMMA EntryTyped ==
  /\ None \in Entry
  /\ \A S \in SUBSET Buy : Waiting(S) \in Entry /\ Claimed(S) \in Entry
  /\ \A e \in Entry : e # None => e.seen \in SUBSET Buy
BY DEF Entry, WatcherRecord, Waiting, Claimed

LEMMA SaveTyped ==
  ASSUME saves \in Seq(Call), NEW step \in Steps, NEW w \in Watcher \cup {None},
         NEW run \in Run, NEW map \in [Watcher -> Entry], Save(step, w, run, map)
  PROVE  saves' \in Seq(Call)
<1>1. [step |-> step, watcher |-> w, run |-> run, snapshot |-> map] \in Call
  BY DEF Call, Steps
<1> QED
  BY <1>1 DEF Save

LEMMA AnswerTyped ==
  ASSUME TypeOK, NEW step, NEW ok, Answer(step, ok)
  PROVE  /\ saves' \in Seq(Call)
         /\ file' \in [Watcher -> Entry]
         /\ failures' \in 0 .. MaxFailures
         /\ Head(saves) \in Call
<1>1. saves' \in Seq(Call) /\ Head(saves) \in Call
  BY AnswerShifts DEF TypeOK
<1>2. Head(saves).snapshot \in [Watcher -> Entry]
  BY <1>1 DEF Call
<1> QED
  BY <1>1, <1>2, BuyPressureAssumption DEF TypeOK, Answer

LEMMA ClaimTyped ==
  ASSUME saves \in Seq(Call), task \in [Watcher -> Task],
         NEW map \in [Watcher -> Entry], NEW timers \in [Watcher -> TimerKind],
         NEW w \in Watcher, NEW seen \in SUBSET Buy, NEW run \in Run,
         Claim(map, timers, w, seen, run)
  PROVE  /\ active' \in [Watcher -> Entry]
         /\ timer' \in [Watcher -> TimerKind]
         /\ task' \in [Watcher -> Task]
         /\ saves' \in Seq(Call)
<1>1. active' \in [Watcher -> Entry]
  BY EntryTyped DEF Claim
<1>2. timer' \in [Watcher -> TimerKind]
  BY DEF Claim, TimerKind
<1>3. task' \in [Watcher -> Task]
  <2>1. [at |-> "claiming", seen |-> seen, run |-> run] \in Task
    BY DEF Task, TriggerRecord
  <2> QED
    BY <2>1 DEF Claim
<1>4. saves' \in Seq(Call)
  BY <1>1, SaveTyped DEF Claim, Steps
<1> QED
  BY <1>1, <1>2, <1>3, <1>4

LEMMA FireTyped ==
  ASSUME TypeOK, NEW w \in Watcher, NEW seen \in SUBSET Buy, NEW run \in Run,
         Fire(w, seen, run)
  PROVE  /\ active' \in [Watcher -> Entry]
         /\ timer' \in [Watcher -> TimerKind]
         /\ task' \in [Watcher -> Task]
         /\ saves' \in Seq(Call)
         /\ ended' \subseteq Watcher
<1>1. CASE w \in live
  BY <1>1, ClaimTyped DEF Fire, TypeOK
<1>2. CASE w \notin live
  <2>1. active' \in [Watcher -> Entry] /\ timer' \in [Watcher -> TimerKind]
    BY <1>2, EntryTyped DEF Fire, DropLapsed, TypeOK, TimerKind
  <2>2. saves' \in Seq(Call)
    BY <1>2, <2>1, SaveTyped DEF Fire, DropLapsed, TypeOK, Steps
  <2> QED
    BY <1>2, <2>1, <2>2 DEF Fire, DropLapsed, TypeOK
<1> QED
  BY <1>1, <1>2

LEMMA ContinueTyped ==
  ASSUME todo \in [Buy -> Seq(Trigger)], busy \subseteq Buy, NEW run,
         Continue(run) \/ Abort(run)
  PROVE  todo' \in [Buy -> Seq(Trigger)] /\ busy' \subseteq Buy
<1>1. CASE Continue(run)
  BY <1>1 DEF Continue
<1>2. CASE Abort(run)
  <2>1. \A b \in Buy : (IF b = run THEN <<>> ELSE todo[b]) \in Seq(Trigger)
    OBVIOUS
  <2> QED
    BY <1>2, <2>1 DEF Abort
<1> QED
  BY <1>1, <1>2

LEMMA ForgetTyped ==
  ASSUME TypeOK, Forget
  PROVE  /\ phase' \in {"down", "loading", "running"}
         /\ started' \in [Watcher -> Start]
         /\ active' \in [Watcher -> Entry]
         /\ timer' \in [Watcher -> TimerKind]
         /\ task' \in [Watcher -> Task]
         /\ todo' \in [Buy -> Seq(Trigger)]
         /\ busy' \subseteq Buy
         /\ saves' \in Seq(Call)
<1>1. started' \in [Watcher -> Start]
  BY DEF Forget, TypeOK, Start
<1>2. /\ active' \in [Watcher -> Entry]
      /\ timer' \in [Watcher -> TimerKind]
      /\ task' \in [Watcher -> Task]
  BY DEF Forget, Entry, TimerKind, Task, TriggerRecord
<1>3. todo' \in [Buy -> Seq(Trigger)] /\ saves' \in Seq(Call)
  <2>1. <<>> \in Seq(Trigger) /\ <<>> \in Seq(Call)
    OBVIOUS
  <2> QED
    BY <2>1 DEF Forget
<1> QED
  BY <1>1, <1>2, <1>3 DEF Forget

\* The map after a buy was counted.
LEMMA CountedTyped ==
  ASSUME TypeOK, NEW b \in Buy, NEW S \in SUBSET Countable(b)
  PROVE  Counted(b, S) \in [Watcher -> Entry]
<1>1. ASSUME NEW w \in S
      PROVE  Waiting(active[w].seen \cup {b}) \in Entry
  <2>1. w \in Watcher /\ active[w] # None
    BY <1>1 DEF Countable, InMemory
  <2>2. active[w].seen \in SUBSET Buy
    BY <2>1, EntryTyped DEF TypeOK
  <2> QED
    BY <2>2, EntryTyped
<1>2. \A w \in Watcher : active[w] \in Entry
  BY DEF TypeOK
<1> QED
  BY <1>1, <1>2, EntryTyped DEF Counted

\* The triggers of a buy, in the order of the map.
LEMMA OrdersTyped ==
  ASSUME NEW S \in SUBSET Watcher, S # {}, NEW order \in Orders(S)
  PROVE  /\ order \in Seq(S)
         /\ Len(order) \in Nat \ {0}
         /\ \A i \in 1 .. Len(order) : order[i] \in S
<1>1. IsFiniteSet(S)
  BY FS_Subset, BuyPressureAssumption
<1>2. Cardinality(S) \in Nat \ {0}
  BY <1>1, FS_CardinalityType, FS_EmptySet
<1>3. order \in [1 .. Cardinality(S) -> S]
  BY DEF Orders
<1>4. order \in Seq(S) /\ Len(order) = Cardinality(S)
  BY <1>2, <1>3
<1> QED
  BY <1>2, <1>3, <1>4

LEMMA TradeTyped ==
  ASSUME TypeOK, NEW b \in Buy, NEW S \in SUBSET Countable(b), Trade(b, S)
  PROVE  TypeOK'
<1> DEFINE map == Counted(b, S)
           timers == [w \in Watcher |-> IF w \in Lapsed THEN "none" ELSE timer[w]]
           triggered == Triggered(S, map)
<1>1. map \in [Watcher -> Entry] /\ timers \in [Watcher -> TimerKind]
  BY CountedTyped DEF TypeOK, TimerKind
<1>2. S \subseteq Watcher /\ Lapsed \subseteq Watcher /\ b \in Run
  BY DEF Countable, InMemory, Lapsed, Run
<1>3. /\ active' \in [Watcher -> Entry]
      /\ timer' \in [Watcher -> TimerKind]
      /\ task' \in [Watcher -> Task]
      /\ saves' \in Seq(Call)
      /\ todo' \in [Buy -> Seq(Trigger)]
  <2>1. CASE active' = map /\ timer' = timers /\ Save("count", None, b, map) /\ UNCHANGED <<task, todo>>
    BY <2>1, <1>1, <1>2, SaveTyped DEF TypeOK, Steps
  <2>2. ASSUME triggered # {}, NEW order \in Orders(triggered),
               Claim(map, timers, order[1], map[order[1]].seen, b),
               todo' = [todo EXCEPT ![b] =
                  [i \in 1 .. Len(order) - 1 |->
                     [watcher |-> order[i + 1], seen |-> map[order[i + 1]].seen]]]
        PROVE  <1>3!:
    <3>1. triggered \subseteq Watcher
      BY <1>2 DEF Triggered
    <3>2. /\ Len(order) \in Nat \ {0}
          /\ \A i \in 1 .. Len(order) : order[i] \in triggered
      BY <2>2, <3>1, OrdersTyped
    <3>3. \A w \in triggered : map[w].seen \in Qualifying
      BY DEF Triggered
    <3>4. order[1] \in Watcher /\ map[order[1]].seen \in SUBSET Buy
      BY <3>1, <3>2, <3>3 DEF Qualifying
    <3>5. \A i \in 1 .. Len(order) - 1 :
            [watcher |-> order[i + 1], seen |-> map[order[i + 1]].seen] \in Trigger
      <4>1. ASSUME NEW i \in 1 .. Len(order) - 1
            PROVE  order[i + 1] \in triggered
        BY <3>2
      <4> QED
        BY <4>1, <3>1, <3>3 DEF Trigger
    <3>6. [i \in 1 .. Len(order) - 1 |->
             [watcher |-> order[i + 1], seen |-> map[order[i + 1]].seen]] \in Seq(Trigger)
      BY <3>2, <3>5
    <3>7. todo' \in [Buy -> Seq(Trigger)]
      BY <2>2, <3>6 DEF TypeOK
    <3> HIDE DEF map, timers, triggered
    <3> QED
      BY <2>2, <1>1, <1>2, <3>4, <3>7, ClaimTyped DEF TypeOK
  <2> QED
    BY <2>1, <2>2 DEF Trade
<1>4. busy' \subseteq Buy /\ ended' \subseteq Watcher
  BY <1>2 DEF Trade, TypeOK
<1> QED
  BY <1>3, <1>4 DEF Trade, TypeOK, clock

LEMMA TaskMoved ==
  ASSUME task \in [Watcher -> Task], NEW w, task[w] # None,
         NEW place \in {"selling", "sold", "completing", "failing"},
         task' = [task EXCEPT ![w].at = place]
  PROVE  task' \in [Watcher -> Task]
<1>1. CASE w \in Watcher
  <2>1. task[w] \in [at : {"claiming", "selling", "sold", "completing", "failing"},
                     seen : SUBSET Buy, run : Run]
    BY <1>1 DEF Task, TriggerRecord
  <2>2. [task[w] EXCEPT !.at = place] \in Task
    BY <2>1 DEF Task, TriggerRecord
  <2> QED
    BY <1>1, <2>2
<1>2. CASE w \notin Watcher
  BY <1>2
<1> QED
  BY <1>1, <1>2

\* A queued claim or completion belongs to a run that waits for it.
LEMMA CallAwaited ==
  ASSUME IInv, saves # <<>>
  PROVE  LET w == Head(saves).watcher IN
         /\ Head(saves) \in Call
         /\ Head(saves).step = "claim" => w \in Watcher /\ At(w, {"claiming"})
         /\ Head(saves).step = "done" => w \in Watcher /\ At(w, {"completing", "failing"})
         /\ Head(saves).step = "start" => w \in Watcher
<1>1. saves \in Seq(Call) /\ Head(saves) = saves[1] /\ 1 \in 1 .. Len(saves)
  BY DEF IInv, TypeOK
<1>2. CallInv(1)
  BY <1>1 DEF IInv
<1> QED
  BY <1>1, <1>2 DEF CallInv

LEMMA TypeStep == IInv /\ [Next]_vars => TypeOK'
<1> SUFFICES ASSUME IInv, Next PROVE TypeOK'
  BY DEF vars, memory, clock, TypeOK, IInv
<1>0. TypeOK
  BY DEF IInv
<1> USE DEF clock
<1>1. ASSUME NEW w \in Watcher, StartWatcher(w) PROVE TypeOK'
  <2>1. active' \in [Watcher -> Entry]
    BY <1>0, <1>1, EntryTyped DEF StartWatcher, TypeOK
  <2>2. saves' \in Seq(Call)
    BY <1>0, <1>1, <2>1, SaveTyped DEF StartWatcher, TypeOK, Steps, Run
  <2> QED
    BY <1>0, <1>1, <2>1, <2>2 DEF StartWatcher, TypeOK, Start, TimerKind
<1>2. ASSUME NEW w \in Watcher, StartDeclined(w) PROVE TypeOK'
  <2>1. started' \in [Watcher -> Start]
    BY <1>0, <1>2 DEF StartDeclined, TypeOK, Start
  <2> QED
    BY <1>0, <1>2, <2>1 DEF StartDeclined, TypeOK, memory
<1>3. CASE StartPersisted
  BY <1>0, <1>3, AnswerTyped DEF StartPersisted, TypeOK, Start
<1>4. CASE StartRefused
  BY <1>0, <1>4, AnswerTyped, EntryTyped DEF StartRefused, TypeOK, Start, TimerKind
<1>5. CASE ClaimPersisted
  <2>1. saves # <<>> /\ Head(saves).step = "claim"
    BY <1>5 DEF ClaimPersisted, Answer
  <2>2. task' \in [Watcher -> Task]
    BY <1>0, <1>5, <2>1, CallAwaited, TaskMoved DEF ClaimPersisted, At, TypeOK
  <2> QED
    BY <1>0, <1>5, <2>2, AnswerTyped DEF ClaimPersisted, TypeOK
<1>6. CASE ClaimRefused
  <2> DEFINE w == Head(saves).watcher
  <2>1. saves # <<>> /\ Head(saves).step = "claim"
    BY <1>6 DEF ClaimRefused, Answer
  <2>2. w \in Watcher /\ task[w].seen \in SUBSET Buy
    BY <1>0, <2>1, CallAwaited DEF At, TypeOK, Task, TriggerRecord
  <2>3. active' \in [Watcher -> Entry]
    BY <1>0, <1>6, <2>2, EntryTyped DEF ClaimRefused, TypeOK
  <2>4. timer' \in [Watcher -> TimerKind] /\ task' \in [Watcher -> Task]
    BY <1>0, <1>6 DEF ClaimRefused, TypeOK, TimerKind, Task, TriggerRecord
  <2>5. todo' \in [Buy -> Seq(Trigger)] /\ busy' \subseteq Buy
    BY <1>0, <1>6, ContinueTyped DEF ClaimRefused, TypeOK
  <2> QED
    BY <1>0, <1>6, <2>3, <2>4, <2>5, AnswerTyped DEF ClaimRefused, TypeOK
<1>7. ASSUME NEW ok \in BOOLEAN, CountAnswered(ok) \/ DropAnswered(ok) PROVE TypeOK'
  <2>1. todo' \in [Buy -> Seq(Trigger)] /\ busy' \subseteq Buy
    BY <1>0, <1>7, ContinueTyped DEF CountAnswered, DropAnswered, TypeOK
  <2> QED
    BY <1>0, <1>7, <2>1, AnswerTyped DEF CountAnswered, DropAnswered, TypeOK
<1>8. ASSUME NEW ok \in BOOLEAN, Finished(ok) PROVE TypeOK'
  <2>1. todo' \in [Buy -> Seq(Trigger)] /\ busy' \subseteq Buy
    BY <1>0, <1>8, ContinueTyped DEF Finished, TypeOK
  <2>2. task' \in [Watcher -> Task]
    BY <1>0, <1>8 DEF Finished, TypeOK, Task, TriggerRecord
  <2> QED
    BY <1>0, <1>8, <2>1, <2>2, AnswerTyped DEF Finished, TypeOK
<1>9. ASSUME NEW w \in Watcher, Sell(w) PROVE TypeOK'
  <2>1. sells' \in [Watcher -> 0 .. 2]
    BY <1>0, <1>9 DEF Sell, TypeOK
  <2> QED
    BY <1>0, <1>9, <2>1, TaskMoved DEF Sell, TypeOK
<1>10. ASSUME NEW w \in Watcher, NEW outcome \in {"completing", "failing"}, Finish(w, outcome)
       PROVE  TypeOK'
  <2>1. active' \in [Watcher -> Entry] /\ task' \in [Watcher -> Task]
    BY <1>0, <1>10, TaskMoved, EntryTyped DEF Finish, TypeOK
  <2>2. task[w].run \in Run
    BY <1>0, <1>10 DEF Finish, TypeOK, Task, TriggerRecord
  <2>3. saves' \in Seq(Call)
    BY <1>0, <1>10, <2>1, <2>2, SaveTyped DEF Finish, TypeOK, Steps
  <2> QED
    BY <1>0, <1>10, <2>1, <2>3 DEF Finish, TypeOK
<1>11. ASSUME NEW b \in Buy, NEW S \in SUBSET Countable(b), Trade(b, S) PROVE TypeOK'
  BY <1>0, <1>11, TradeTyped
<1>12. ASSUME NEW b \in Buy, NextTrigger(b) PROVE TypeOK'
  <2>1. Head(todo[b]) \in Trigger /\ Tail(todo[b]) \in Seq(Trigger)
    BY <1>0, <1>12 DEF NextTrigger, TypeOK
  <2>2. todo' \in [Buy -> Seq(Trigger)]
    BY <1>0, <1>12, <2>1 DEF NextTrigger, TypeOK
  <2>3. /\ Head(todo[b]).watcher \in Watcher
        /\ Head(todo[b]).seen \in SUBSET Buy
        /\ b \in Run
    BY <2>1 DEF Trigger, Qualifying, Run
  <2>4. CASE Triggerable(Head(todo[b]).watcher)
    BY <1>0, <1>12, <2>2, <2>3, <2>4, FireTyped DEF NextTrigger, TypeOK
  <2>5. CASE ~Triggerable(Head(todo[b]).watcher)
    BY <1>0, <1>12, <2>2, <2>5 DEF NextTrigger, TypeOK
  <2> QED
    BY <2>4, <2>5
<1>13. ASSUME NEW w \in Watcher, TimerFires(w) PROVE TypeOK'
  <2>1. CASE IsWaiting(active[w]) /\ Fire(w, active[w].seen, Timer)
    <3>1. active[w].seen \in SUBSET Buy /\ Timer \in Run
      BY <1>0, <2>1, EntryTyped DEF IsWaiting, TypeOK, Run
    <3> QED
      BY <1>0, <1>13, <2>1, <3>1, FireTyped DEF TimerFires, TypeOK
  <2>2. CASE /\ timer' = [timer EXCEPT ![w] = "none"]
             /\ UNCHANGED <<active, task, saves, ended>>
    BY <1>0, <1>13, <2>2 DEF TimerFires, TypeOK, TimerKind
  <2> QED
    BY <1>13, <2>1, <2>2 DEF TimerFires
<1>14. CASE Crash
  <2>1. restarts' \in 0 .. MaxRestarts
    BY <1>0, <1>14, BuyPressureAssumption DEF Crash, TypeOK
  <2> QED
    BY <1>0, <1>14, <2>1, ForgetTyped DEF Crash, TypeOK
<1>15. CASE Load
  <2>1. active' \in [Watcher -> Entry]
    <3>1. \A w \in Watcher : Resumable(file[w]) => file[w].seen \in SUBSET Buy
      BY <1>0, EntryTyped DEF TypeOK, Resumable, IsWaiting
    <3> QED
      BY <1>15, <3>1, EntryTyped DEF Load
  <2>2. timer' \in [Watcher -> TimerKind]
    BY <1>15 DEF Load, ResumedTimer, TimerKind
  <2>3. saves' \in Seq(Call)
    BY <1>0, <1>15, <2>1, SaveTyped DEF Load, TypeOK, Steps, Run
  <2> QED
    BY <1>0, <1>15, <2>1, <2>2, <2>3 DEF Load, TypeOK
<1>16. CASE Loaded
  BY <1>0, <1>16, AnswerTyped DEF Loaded, TypeOK
<1>17. CASE LoadRefused
  <2>1. failures' \in 0 .. MaxFailures
    BY <1>0, <1>17, BuyPressureAssumption DEF LoadRefused, TypeOK
  <2> QED
    BY <1>0, <1>17, <2>1, ForgetTyped DEF LoadRefused, TypeOK
<1>18. ASSUME NEW w \in Watcher, Expire(w) \/ Toggle(w) PROVE TypeOK'
  BY <1>0, <1>18 DEF Expire, Toggle, TypeOK, memory
<1> QED
  BY <1>1, <1>2, <1>3, <1>4, <1>5, <1>6, <1>7, <1>8, <1>9, <1>10, <1>11, <1>12, <1>13,
     <1>14, <1>15, <1>16, <1>17, <1>18 DEF Next, Store, SellRun

-----------------------------------------------------------------------------
(* The invariant *)

Safe ==
  /\ \A w \in Watcher : WatcherInv(w)
  /\ \A i \in 1 .. Len(saves) : CallInv(i)
  /\ DownInv

Awaited(step) == step \in {"claim", "done"}

\* A new call keeps the queue in order: no run that waits is disturbed, no
\* claimed watcher is offered, and the caller waits for nothing else.
LEMMA QueueGrows ==
  ASSUME IInv, NEW step, NEW c, NEW run, NEW map, Save(step, c, run, map),
         \A i \in 1 .. Len(saves) : Awaited(saves[i].step) =>
           /\ task'[saves[i].watcher] = task[saves[i].watcher]
           /\ ~IsWaiting(map[saves[i].watcher])
           /\ Awaited(step) => saves[i].watcher # c,
         step \in {"start", "claim", "done"} => c \in Watcher,
         step = "claim" => At(c, {"claiming"})' /\ ~IsWaiting(map[c]),
         step = "done" => At(c, {"completing", "failing"})'
  PROVE  \A i \in 1 .. Len(saves') : CallInv(i)'
<1>1. saves \in Seq(Call)
  BY DEF IInv, TypeOK
<1>2. /\ Len(saves) \in Nat
      /\ Len(saves') = Len(saves) + 1
      /\ \A i \in 1 .. Len(saves) : saves'[i] = saves[i]
      /\ saves'[Len(saves) + 1] =
           [step |-> step, watcher |-> c, run |-> run, snapshot |-> map]
  BY <1>1, SaveAppends
<1>3. ASSUME NEW i \in 1 .. Len(saves) PROVE CallInv(i)'
  <2>1. CallInv(i) /\ saves'[i] = saves[i]
    BY <1>2 DEF IInv
  <2>2. saves[i].step = "claim" =>
          \A j \in i .. Len(saves') : ~IsWaiting(saves'[j].snapshot[saves[i].watcher])
    <3>1. ASSUME NEW j \in i .. Len(saves'), saves[i].step = "claim"
          PROVE  ~IsWaiting(saves'[j].snapshot[saves[i].watcher])
      <4>1. CASE j \in i .. Len(saves)
        BY <1>2, <2>1, <3>1, <4>1 DEF CallInv
      <4>2. CASE j = Len(saves) + 1
        BY <1>2, <3>1, <4>2 DEF Awaited
      <4> QED
        BY <1>2, <4>1, <4>2
    <3> QED
      BY <3>1
  <2>3. ASSUME NEW j \in 1 .. Len(saves'), i # j, Awaited(saves[i].step), Awaited(saves'[j].step)
        PROVE  saves'[j].watcher # saves[i].watcher
    <3>1. CASE j \in 1 .. Len(saves)
      BY <1>2, <2>1, <2>3, <3>1 DEF CallInv, Awaited
    <3>2. CASE j = Len(saves) + 1
      BY <1>2, <2>3, <3>2
    <3> QED
      BY <1>2, <3>1, <3>2
  <2> QED
    BY <2>1, <2>2, <2>3 DEF CallInv, At, Awaited
<1>4. ASSUME NEW i, i = Len(saves) + 1 PROVE CallInv(i)'
  <2>1. ASSUME NEW j \in 1 .. Len(saves'), i # j, Awaited(step), Awaited(saves'[j].step)
        PROVE  saves'[j].watcher # c
    BY <1>2, <1>4, <2>1
  <2> QED
    BY <1>2, <1>4, <2>1 DEF CallInv, Awaited
<1> QED
  BY <1>2, <1>3, <1>4

\* An answer disturbs only the run it answers.
LEMMA QueueShrinks ==
  ASSUME IInv, NEW step, NEW ok, Answer(step, ok),
         \A w \in Watcher :
           w # Head(saves).watcher \/ ~Awaited(Head(saves).step) => task'[w] = task[w]
  PROVE  \A i \in 1 .. Len(saves') : CallInv(i)'
<1>1. saves \in Seq(Call)
  BY DEF IInv, TypeOK
<1>2. /\ Len(saves) \in Nat \ {0}
      /\ Len(saves') = Len(saves) - 1
      /\ Head(saves) = saves[1]
      /\ \A i \in 1 .. Len(saves') : i + 1 \in 1 .. Len(saves) /\ saves'[i] = saves[i + 1]
  BY <1>1, AnswerShifts
<1>3. ASSUME NEW i \in 1 .. Len(saves') PROVE CallInv(i)'
  <2>1. CallInv(i + 1) /\ saves'[i] = saves[i + 1] /\ CallInv(1)
    BY <1>2 DEF IInv
  <2>2. Awaited(saves[i + 1].step) => task'[saves[i + 1].watcher] = task[saves[i + 1].watcher]
    BY <1>2, <2>1 DEF CallInv, Awaited
  <2>3. ASSUME NEW j \in i .. Len(saves')
        PROVE  saves'[j] = saves[j + 1] /\ j + 1 \in i + 1 .. Len(saves)
    BY <1>2
  <2>4. ASSUME NEW j \in 1 .. Len(saves'), i # j
        PROVE  saves'[j] = saves[j + 1] /\ j + 1 \in 1 .. Len(saves) /\ i + 1 # j + 1
    BY <1>2, <2>4
  <2> QED
    BY <2>1, <2>2, <2>3, <2>4 DEF CallInv, At, Awaited
<1> QED
  BY <1>3

\* What the queue holds for a watcher after a call.
LEMMA OffersGrow ==
  ASSUME IInv, NEW step, NEW c, NEW run, NEW map, Save(step, c, run, map),
         NEW w, UNCHANGED file
  PROVE  /\ NotOffered(w) /\ ~IsWaiting(map[w]) => NotOffered(w)'
         /\ (\A i \in 1 .. Len(saves) : saves[i].snapshot[w] = None) /\ map[w] = None =>
              \A i \in 1 .. Len(saves') : saves'[i].snapshot[w] = None
<1>1. saves \in Seq(Call)
  BY DEF IInv, TypeOK
<1>2. /\ Len(saves) \in Nat
      /\ Len(saves') = Len(saves) + 1
      /\ \A i \in 1 .. Len(saves) : saves'[i] = saves[i]
      /\ saves'[Len(saves) + 1] =
           [step |-> step, watcher |-> c, run |-> run, snapshot |-> map]
  BY <1>1, SaveAppends
<1>3. \A i \in 1 .. Len(saves') : i \in 1 .. Len(saves) \/ i = Len(saves) + 1
  BY <1>2
<1> QED
  BY <1>2, <1>3 DEF NotOffered, IsWaiting

\* ... and after an answer.
LEMMA OffersShrink ==
  ASSUME IInv, NEW step, NEW ok, Answer(step, ok), NEW w
  PROVE  /\ NotOffered(w) => NotOffered(w)'
         /\ file[w] = None /\ (\A i \in 1 .. Len(saves) : saves[i].snapshot[w] = None) =>
              /\ file'[w] = None
              /\ \A i \in 1 .. Len(saves') : saves'[i].snapshot[w] = None
<1>1. saves \in Seq(Call)
  BY DEF IInv, TypeOK
<1>2. /\ Len(saves) \in Nat \ {0}
      /\ Head(saves) = saves[1]
      /\ \A i \in 1 .. Len(saves') : i + 1 \in 1 .. Len(saves) /\ saves'[i] = saves[i + 1]
      /\ file' \in {file, saves[1].snapshot}
  BY <1>1, AnswerShifts DEF Answer
<1>3. 1 \in 1 .. Len(saves)
  BY <1>2
<1> QED
  BY <1>2, <1>3 DEF NotOffered, IsWaiting

\* A step that leaves the queue alone disturbs no run that waits for a save.
LEMMA QueueStays ==
  ASSUME IInv, UNCHANGED saves,
         \A i \in 1 .. Len(saves) : Awaited(saves[i].step) =>
           task'[saves[i].watcher] = task[saves[i].watcher]
  PROVE  \A i \in 1 .. Len(saves') : CallInv(i)'
<1>1. ASSUME NEW i \in 1 .. Len(saves') PROVE CallInv(i)'
  BY <1>1 DEF IInv, CallInv, At, Awaited
<1> QED
  BY <1>1

-----------------------------------------------------------------------------
(* Watchers that a step does not sell *)

LEMMA EntryKinds ==
  /\ ~IsWaiting(None) /\ ~IsClaimed(None)
  /\ \A S : ~IsClaimed(Waiting(S)) /\ ~IsWaiting(Claimed(S))
  /\ \A e \in Entry : e = None \/ IsWaiting(e) \/ IsClaimed(e)
BY DEF IsWaiting, IsClaimed, Waiting, Claimed, Entry, WatcherRecord

\* What a step that sells nothing may do to a watcher in the map: nothing,
\* delete it, or change it while it waits and no run has it.
Mild(v, map) ==
  \/ map[v] \in {None, active[v]}
  \/ IsWaiting(active[v]) /\ task[v] = None /\ ~IsClaimed(map[v])

LEMMA KeptByCall ==
  ASSUME IInv, NEW v \in Watcher, NEW step, NEW c, NEW run, NEW map,
         Save(step, c, run, map), UNCHANGED file, active'[v] = map[v], Mild(v, map),
         task'[v] = task[v], sells'[v] = sells[v], started'[v] = "no" => started[v] = "no"
  PROVE  WatcherInv(v)'
<1>1. WatcherInv(v)
  BY DEF IInv
<1>2. Committed(v)' => Committed(v)
  BY DEF Committed, At
<1>3. IsWaiting(map[v]) => IsWaiting(active[v])
  BY EntryKinds DEF Mild
<1>4. Committed(v)' => NotOffered(v)' /\ ~IsWaiting(active[v])'
  BY <1>1, <1>2, <1>3, OffersGrow DEF WatcherInv
<1>5. started'[v] = "no" => NotBegun(v)'
  <2>1. SUFFICES ASSUME NotBegun(v) PROVE NotBegun(v)'
    BY <1>1 DEF WatcherInv
  <2>2. map[v] = None
    BY <2>1, EntryKinds DEF NotBegun, Mild
  <2> QED
    BY <2>1, <2>2, OffersGrow DEF NotBegun
<1>6. task[v] # None => ~IsWaiting(map[v])
  BY <1>1, <1>3 DEF WatcherInv
<1>7. IsClaimed(map[v]) => task[v] # None
  BY <1>1, EntryKinds DEF WatcherInv, Mild
<1>8. At(v, {"completing", "failing"}) => map[v] = None
  BY <1>1, EntryKinds DEF WatcherInv, Mild, At
<1> QED
  BY <1>1, <1>4, <1>5, <1>6, <1>7, <1>8 DEF WatcherInv, At, IsWaiting, IsClaimed

LEMMA KeptByAnswer ==
  ASSUME IInv, NEW v \in Watcher, NEW step, NEW ok, Answer(step, ok),
         active'[v] \in {None, active[v]},
         task'[v] = task[v], sells'[v] = sells[v], started'[v] = "no" => started[v] = "no"
  PROVE  WatcherInv(v)'
<1>1. WatcherInv(v)
  BY DEF IInv
<1>2. IsWaiting(active[v])' => IsWaiting(active[v])
  BY EntryKinds DEF IsWaiting
<1>3. Committed(v)' => NotOffered(v)' /\ ~IsWaiting(active[v])'
  BY <1>1, <1>2, OffersShrink DEF WatcherInv, Committed, At
<1>4. started'[v] = "no" => NotBegun(v)'
  BY <1>1, OffersShrink DEF WatcherInv, NotBegun
<1> QED
  BY <1>1, <1>2, <1>3, <1>4 DEF WatcherInv, At, IsWaiting, IsClaimed

LEMMA KeptIdle ==
  ASSUME IInv, NEW v \in Watcher, UNCHANGED <<saves, file>>, active'[v] = active[v],
         task'[v] = task[v], sells'[v] = sells[v], started'[v] = "no" => started[v] = "no"
  PROVE  WatcherInv(v)'
BY DEF IInv, WatcherInv, Committed, NotOffered, NotBegun, At, IsWaiting, IsClaimed

Quiet ==
  /\ \A w \in Watcher : WatcherInv(w)
  /\ \A i \in 1 .. Len(saves) : CallInv(i)

\* A waited-for save belongs to a watcher some run has.
LEMMA AwaitedRuns ==
  ASSUME IInv, NEW i \in 1 .. Len(saves), Awaited(saves[i].step)
  PROVE  LET v == saves[i].watcher IN
         /\ v \in Watcher /\ task[v] # None /\ ~IsWaiting(active[v])
         /\ At(v, {"claiming", "completing", "failing"})
<1>1. CallInv(i)
  BY DEF IInv
<1>2. saves[i].watcher \in Watcher /\ At(saves[i].watcher, {"claiming", "completing", "failing"})
  BY <1>1 DEF CallInv, Awaited, At
<1> QED
  BY <1>2 DEF IInv, WatcherInv, At

\* Mild changes of the map offer no watcher that a run has.
LEMMA MildKeepsQueue ==
  ASSUME IInv, NEW map, NEW i \in 1 .. Len(saves), Awaited(saves[i].step),
         \A v \in Watcher : Mild(v, map)
  PROVE  ~IsWaiting(map[saves[i].watcher])
BY AwaitedRuns, EntryKinds DEF Mild

\* A waiting watcher is not sold, and no run has it.
LEMMA TriggerableWaits ==
  ASSUME IInv, NEW w \in Watcher, Triggerable(w)
  PROVE  /\ IsWaiting(active[w]) /\ task[w] = None /\ sells[w] = 0
         /\ started[w] # "no"
<1>1. active[w] \in Entry /\ active[w] # None /\ task[w] = None /\ sells[w] \in 0 .. 2
  BY DEF IInv, TypeOK, Triggerable
<1>2. WatcherInv(w)
  BY DEF IInv
<1>3. IsWaiting(active[w])
  BY <1>1, <1>2, EntryKinds DEF WatcherInv
<1> QED
  BY <1>1, <1>2, <1>3 DEF WatcherInv, NotBegun, Committed

\* The claim of a waiting watcher, after mild changes of the map.
LEMMA ClaimSafe ==
  ASSUME IInv, NEW map, map \in [Watcher -> Entry], NEW timers, NEW w \in Watcher, NEW seen,
         NEW run, Claim(map, timers, w, seen, run), UNCHANGED <<started, file, sells>>,
         seen \in SUBSET Buy, run \in Run,
         \A v \in Watcher : Mild(v, map), Triggerable(w)
  PROVE  Quiet'
<1>1. /\ task \in [Watcher -> Task] /\ saves \in Seq(Call)
      /\ active' = [map EXCEPT ![w] = Claimed(seen)]
      /\ task' = [task EXCEPT ![w] = [at |-> "claiming", seen |-> seen, run |-> run]]
      /\ Save("claim", w, run, active')
  BY DEF IInv, TypeOK, Claim
<1>2. /\ IsWaiting(active[w]) /\ task[w] = None /\ sells[w] = 0
      /\ started[w] # "no"
  BY TriggerableWaits
<1>3. ASSUME NEW v \in Watcher, v # w PROVE WatcherInv(v)'
  <2>1. active'[v] = map[v] /\ task'[v] = task[v]
    BY <1>1, <1>3
  <2>2. Mild(v, active')
    BY <2>1 DEF Mild
  <2> QED
    BY <1>1, <2>1, <2>2, KeptByCall
<1>4. ~IsWaiting(active[w])'
  <2>1. active'[w] = Claimed(seen)
    BY <1>1
  <2> QED
    BY <2>1, EntryKinds DEF IsWaiting
<1>5. task'[w] # None /\ At(w, {"claiming"})'
  <2>1. [at |-> "claiming", seen |-> seen, run |-> run] \in TriggerRecord
    BY DEF TriggerRecord
  <2> QED
    BY <1>1, <2>1, BuyPressureAssumption DEF At
<1>6. \A i \in 1 .. Len(saves) : Awaited(saves[i].step) =>
        /\ task'[saves[i].watcher] = task[saves[i].watcher]
        /\ ~IsWaiting(active'[saves[i].watcher])
        /\ saves[i].watcher # w
  <2>1. ASSUME NEW i \in 1 .. Len(saves), Awaited(saves[i].step)
        PROVE  /\ saves[i].watcher \in Watcher /\ saves[i].watcher # w
               /\ ~IsWaiting(map[saves[i].watcher])
    BY <2>1, <1>2, AwaitedRuns, MildKeepsQueue
  <2> QED
    BY <1>1, <2>1
<1>7. WatcherInv(w)'
  BY <1>1, <1>2, <1>4, <1>5 DEF WatcherInv, Committed, At
<1>8. \A i \in 1 .. Len(saves') : CallInv(i)'
  BY <1>1, <1>4, <1>6, <1>5, QueueGrows DEF IsWaiting
<1> QED
  BY <1>3, <1>7, <1>8 DEF Quiet

\* A call that is not awaited by a run, with mild changes of the map.
LEMMA MildCallSafe ==
  ASSUME IInv, NEW step, NEW c, NEW run, NEW map, Save(step, c, run, map),
         ~Awaited(step), step = "start" => c \in Watcher,
         UNCHANGED <<file, task, sells>>,
         \A v \in Watcher : Mild(v, map) /\ active'[v] = map[v],
         \A v \in Watcher : started'[v] = "no" => started[v] = "no"
  PROVE  Quiet'
<1>1. \A v \in Watcher : WatcherInv(v)'
  BY KeptByCall
<1>2. \A i \in 1 .. Len(saves) : Awaited(saves[i].step) => ~IsWaiting(map[saves[i].watcher])
  BY MildKeepsQueue
<1>3. \A i \in 1 .. Len(saves') : CallInv(i)'
  BY <1>2, QueueGrows DEF Awaited
<1> QED
  BY <1>1, <1>3 DEF Quiet

LEMMA MildAnswerSafe ==
  ASSUME IInv, NEW step, NEW ok, Answer(step, ok), UNCHANGED <<task, sells>>,
         \A v \in Watcher : active'[v] \in {None, active[v]},
         \A v \in Watcher : started'[v] = "no" => started[v] = "no"
  PROVE  Quiet'
<1>1. \A v \in Watcher : WatcherInv(v)'
  BY KeptByAnswer
<1>2. \A i \in 1 .. Len(saves') : CallInv(i)'
  BY QueueShrinks
<1> QED
  BY <1>1, <1>2 DEF Quiet

LEMMA IdleSafe ==
  ASSUME IInv, UNCHANGED <<saves, file, active, task, sells>>,
         \A v \in Watcher : started'[v] = "no" => started[v] = "no"
  PROVE  Quiet'
<1>1. \A v \in Watcher : WatcherInv(v)'
  BY KeptIdle
<1>2. \A i \in 1 .. Len(saves') : CallInv(i)'
  BY QueueStays
<1> QED
  BY <1>1, <1>2 DEF Quiet

LEMMA FireSafe ==
  ASSUME IInv, NEW w \in Watcher, NEW seen \in SUBSET Buy, NEW run \in Run,
         Fire(w, seen, run), Triggerable(w), UNCHANGED <<started, file, sells>>
  PROVE  Quiet'
<1>1. active \in [Watcher -> Entry]
  BY DEF IInv, TypeOK
<1>2. CASE w \in live
  <2>1. \A v \in Watcher : Mild(v, active)
    BY DEF Mild
  <2> QED
    BY <1>1, <1>2, <2>1, ClaimSafe DEF Fire
<1>3. CASE w \notin live
  <2>1. active' = [active EXCEPT ![w] = None] /\ Save("drop", w, run, active')
    BY <1>3 DEF Fire, DropLapsed
  <2>2. \A v \in Watcher : Mild(v, active')
    BY <1>1, <2>1 DEF Mild
  <2>3. UNCHANGED task
    BY <1>3 DEF Fire, DropLapsed
  <2>4. ~Awaited("drop") /\ UNCHANGED <<file, task, sells, started>>
    BY <2>3 DEF Awaited
  <2> QED
    BY <2>1, <2>2, <2>4, MildCallSafe
<1> QED
  BY <1>2, <1>3

\* A crash leaves the file, and nothing that could offer a sold watcher.
LEMMA ForgetSafe ==
  ASSUME IInv, Forget, UNCHANGED <<file, sells>>
  PROVE  Quiet'
<1>1. /\ saves' = <<>>
      /\ \A v \in Watcher : task'[v] = None /\ active'[v] = None
      /\ \A v \in Watcher : started'[v] = "no" => started[v] = "no"
  BY DEF Forget
<1>2. ASSUME NEW v \in Watcher PROVE WatcherInv(v)'
  <2>1. WatcherInv(v) /\ sells'[v] = sells[v] /\ file'[v] = file[v]
    BY DEF IInv
  <2>2. ~IsWaiting(active[v])' /\ ~IsClaimed(active[v])'
    BY <1>1, EntryKinds DEF IsWaiting, IsClaimed
  <2>3. Committed(v)' => NotOffered(v)'
    BY <1>1, <2>1 DEF WatcherInv, Committed, NotOffered, At, IsWaiting
  <2>4. started'[v] = "no" => NotBegun(v)'
    BY <1>1, <2>1 DEF WatcherInv, NotBegun
  <2> QED
    BY <1>1, <2>1, <2>2, <2>3, <2>4 DEF WatcherInv, At
<1>3. \A i \in 1 .. Len(saves') : CallInv(i)'
  BY <1>1
<1> QED
  BY <1>2, <1>3 DEF Quiet

-----------------------------------------------------------------------------
(* Each action of a watcher keeps the invariant *)

LEMMA StartSafe ==
  ASSUME IInv, NEW w \in Watcher, StartWatcher(w)
  PROVE  Quiet'
<1>1. /\ active' = [active EXCEPT ![w] = Waiting({})]
      /\ Save("start", w, Timer, active')
      /\ started' = [started EXCEPT ![w] = "persisting"]
      /\ UNCHANGED <<file, task, sells>>
      /\ active \in [Watcher -> Entry] /\ started \in [Watcher -> Start]
  BY DEF StartWatcher, IInv, TypeOK
<1>2. active[w] = None /\ task[w] = None /\ sells[w] = 0
  BY DEF StartWatcher, IInv, WatcherInv, NotBegun
<1>3. ASSUME NEW v \in Watcher, v # w PROVE WatcherInv(v)'
  <2>1. active'[v] = active[v] /\ Mild(v, active')
    BY <1>1, <1>3 DEF Mild
  <2> QED
    BY <1>1, <1>3, <2>1, KeptByCall
<1>4. WatcherInv(w)'
  <2>1. ~Committed(w)' /\ task'[w] = None /\ started'[w] # "no" /\ sells'[w] = 0
    BY <1>1, <1>2 DEF Committed, At
  <2>2. ~IsClaimed(active[w])'
    BY <1>1, EntryKinds DEF IsClaimed
  <2> QED
    BY <2>1, <2>2 DEF WatcherInv, At
<1>5. ASSUME NEW i \in 1 .. Len(saves), Awaited(saves[i].step)
      PROVE  ~IsWaiting(active'[saves[i].watcher])
  <2>1. saves[i].watcher \in Watcher \ {w} /\ ~IsWaiting(active[saves[i].watcher])
    BY <1>2, <1>5, AwaitedRuns
  <2> QED
    BY <1>1, <2>1
<1>6. \A i \in 1 .. Len(saves') : CallInv(i)'
  <2>1. ~Awaited("start") /\ UNCHANGED task
    BY <1>1 DEF Awaited
  <2> QED
    BY <1>1, <1>5, <2>1, QueueGrows
<1> QED
  BY <1>3, <1>4, <1>6 DEF Quiet

\* A sale is sent for a claimed watcher whose claim is in the file.
LEMMA SellSafe ==
  ASSUME IInv, NEW w \in Watcher, Sell(w)
  PROVE  Quiet'
<1>1. /\ task' = [task EXCEPT ![w].at = "sold"]
      /\ sells' = [sells EXCEPT ![w] = IF @ < 2 THEN @ + 1 ELSE @]
      /\ UNCHANGED <<active, saves, file, started>>
      /\ task \in [Watcher -> Task] /\ sells \in [Watcher -> 0 .. 2]
  BY DEF Sell, IInv, TypeOK
<1>2. /\ WatcherInv(w) /\ At(w, {"selling"}) /\ sells[w] = 0
      /\ ~At(w, {"claiming", "completing", "failing"})
  BY DEF Sell, IInv, WatcherInv, At
<1>3. \A v \in Watcher : v # w => WatcherInv(v)'
  BY <1>1, KeptIdle
<1>4. WatcherInv(w)'
  <2>1. NotOffered(w)' /\ ~IsWaiting(active[w])'
    BY <1>1, <1>2 DEF WatcherInv, Committed, At, NotOffered, IsWaiting
  <2>2. task'[w].at = "sold" /\ sells'[w] = 1
    BY <1>1, <1>2 DEF At, Task, TriggerRecord
  <2>3. started'[w] # "no"
    BY <1>1, <1>2 DEF WatcherInv, NotBegun, At
  <2>4. IsClaimed(active[w])' => task'[w] # None
    <3>1. [task[w] EXCEPT !.at = "sold"] \in TriggerRecord
      BY <1>1, <1>2 DEF At, Task, TriggerRecord
    <3> QED
      BY <1>1, <3>1, BuyPressureAssumption
  <2> QED
    BY <2>1, <2>2, <2>3, <2>4 DEF WatcherInv, At
<1>5. ASSUME NEW i \in 1 .. Len(saves), Awaited(saves[i].step)
      PROVE  task'[saves[i].watcher] = task[saves[i].watcher]
  <2>1. saves[i].watcher # w
    BY <1>2, <1>5, AwaitedRuns
  <2> QED
    BY <1>1, <2>1
<1>6. \A i \in 1 .. Len(saves') : CallInv(i)'
  BY <1>1, <1>5, QueueStays
<1> QED
  BY <1>3, <1>4, <1>6 DEF Quiet

LEMMA FinishSafe ==
  ASSUME IInv, NEW w \in Watcher, NEW outcome \in {"completing", "failing"}, Finish(w, outcome)
  PROVE  Quiet'
<1>1. /\ active' = [active EXCEPT ![w] = None]
      /\ task' = [task EXCEPT ![w].at = outcome]
      /\ Save("done", w, task[w].run, active')
      /\ UNCHANGED <<file, started, sells>>
      /\ task \in [Watcher -> Task] /\ active \in [Watcher -> Entry]
  BY DEF Finish, IInv, TypeOK
<1>2. /\ WatcherInv(w) /\ At(w, {"selling", "sold"})
      /\ ~At(w, {"claiming", "completing", "failing"})
  BY DEF Finish, IInv, At
<1>3. ASSUME NEW v \in Watcher, v # w PROVE WatcherInv(v)'
  <2>1. active'[v] = active[v] /\ Mild(v, active') /\ task'[v] = task[v]
    BY <1>1, <1>3 DEF Mild
  <2> QED
    BY <1>1, <2>1, KeptByCall
<1>4. active'[w] = None /\ task'[w].at = outcome /\ task'[w] # None
  <2>1. [task[w] EXCEPT !.at = outcome] \in TriggerRecord
    BY <1>1, <1>2 DEF At, Task, TriggerRecord
  <2> QED
    BY <1>1, <2>1, BuyPressureAssumption DEF TriggerRecord
<1>5. ~IsWaiting(active[w])' /\ ~IsClaimed(active[w])' /\ ~IsWaiting(active'[w])
  BY <1>4, EntryKinds DEF IsWaiting, IsClaimed
<1>6. WatcherInv(w)'
  <2>1. NotOffered(w)'
    BY <1>1, <1>2, <1>5, OffersGrow DEF WatcherInv, Committed, At
  <2>2. started'[w] # "no" /\ sells'[w] <= 1
    BY <1>1, <1>2 DEF WatcherInv, NotBegun, At
  <2> QED
    BY <1>4, <1>5, <2>1, <2>2 DEF WatcherInv, At
<1>7. ASSUME NEW i \in 1 .. Len(saves), Awaited(saves[i].step)
      PROVE  /\ task'[saves[i].watcher] = task[saves[i].watcher]
             /\ ~IsWaiting(active'[saves[i].watcher])
             /\ saves[i].watcher # w
  <2>1. saves[i].watcher \in Watcher \ {w} /\ ~IsWaiting(active[saves[i].watcher])
    BY <1>2, <1>7, AwaitedRuns
  <2> QED
    BY <1>1, <2>1
<1>8. At(w, {"completing", "failing"})'
  BY <1>4 DEF At
<1>9. \A i \in 1 .. Len(saves') : CallInv(i)'
  BY <1>1, <1>7, <1>8, QueueGrows
<1> QED
  BY <1>3, <1>6, <1>9 DEF Quiet

-----------------------------------------------------------------------------
(* The answers of the store *)

LEMMA ClaimPersistedSafe ==
  ASSUME IInv, ClaimPersisted, NEW w \in Watcher, w = Head(saves).watcher
  PROVE  Quiet'
<1>1. /\ Answer("claim", TRUE) /\ w = saves[1].watcher /\ saves[1].step = "claim"
      /\ Head(saves) = saves[1]
      /\ file' = saves[1].snapshot
      /\ task' = [task EXCEPT ![w].at = "selling"]
      /\ UNCHANGED <<active, sells, started>>
      /\ task \in [Watcher -> Task]
      /\ 1 \in 1 .. Len(saves)
      /\ Len(saves') = Len(saves) - 1
      /\ \A i \in 1 .. Len(saves') : i + 1 \in 1 .. Len(saves) /\ saves'[i] = saves[i + 1]
  <2>1. Answer("claim", TRUE) /\ saves \in Seq(Call)
    BY DEF ClaimPersisted, IInv, TypeOK
  <2>2. /\ Len(saves) \in Nat \ {0} /\ Len(saves') = Len(saves) - 1
        /\ Head(saves) = saves[1] /\ saves[1].step = "claim"
        /\ \A i \in 1 .. Len(saves') : i + 1 \in 1 .. Len(saves) /\ saves'[i] = saves[i + 1]
    BY <2>1, AnswerShifts
  <2> QED
    BY <2>1, <2>2 DEF ClaimPersisted, Answer, IInv, TypeOK
<1>2. /\ w \in Watcher /\ WatcherInv(w) /\ At(w, {"claiming"}) /\ sells[w] = 0
      /\ \A j \in 1 .. Len(saves) : ~IsWaiting(saves[j].snapshot[w])
  BY <1>1 DEF IInv, CallInv, WatcherInv, At
<1>3. ASSUME NEW v \in Watcher, v # w PROVE WatcherInv(v)'
  BY <1>1, <1>3, KeptByAnswer
<1>4. task'[w].at = "selling" /\ task'[w] # None
  <2>1. [task[w] EXCEPT !.at = "selling"] \in TriggerRecord
    BY <1>1, <1>2 DEF At, Task, TriggerRecord
  <2> QED
    BY <1>1, <1>2, <2>1, BuyPressureAssumption DEF TriggerRecord
<1>5. NotOffered(w)'
  BY <1>1, <1>2 DEF NotOffered, IsWaiting
<1>6. ~IsWaiting(active[w])' /\ started'[w] # "no"
  BY <1>1, <1>2 DEF WatcherInv, At, IsWaiting, NotBegun
<1>7. WatcherInv(w)'
  BY <1>1, <1>2, <1>4, <1>5, <1>6 DEF WatcherInv, At
<1>8. \A i \in 1 .. Len(saves') : CallInv(i)'
  <2>1. \A v \in Watcher : v # w \/ ~Awaited(Head(saves).step) => task'[v] = task[v]
    BY <1>1 DEF Awaited
  <2> QED
    BY <1>1, <2>1, QueueShrinks
<1> QED
  BY <1>3, <1>7, <1>8 DEF Quiet

LEMMA ClaimRefusedSafe ==
  ASSUME IInv, ClaimRefused, NEW w \in Watcher, w = Head(saves).watcher
  PROVE  Quiet'
<1>1. /\ Answer("claim", FALSE) /\ saves # <<>> /\ Head(saves).step = "claim"
      /\ active' = [active EXCEPT ![w] = Waiting(task[w].seen)]
      /\ task' = [task EXCEPT ![w] = None]
      /\ UNCHANGED <<sells, started>>
      /\ task \in [Watcher -> Task] /\ active \in [Watcher -> Entry]
  BY DEF ClaimRefused, Answer, IInv, TypeOK
<1>2. w \in Watcher /\ At(w, {"claiming"}) /\ WatcherInv(w)
  BY <1>1, CallAwaited DEF IInv
<1>3. ASSUME NEW v \in Watcher, v # w PROVE WatcherInv(v)'
  BY <1>1, <1>3, KeptByAnswer
<1>4. sells'[w] = 0 /\ task'[w] = None /\ started'[w] # "no"
  BY <1>1, <1>2 DEF WatcherInv, NotBegun, At
<1>5. ~IsClaimed(active[w])'
  BY <1>1, <1>2, EntryKinds DEF IsClaimed
<1>6. WatcherInv(w)'
  BY <1>4, <1>5 DEF WatcherInv, Committed, At
<1>7. \A i \in 1 .. Len(saves') : CallInv(i)'
  <2>1. \A v \in Watcher : v # w \/ ~Awaited(Head(saves).step) => task'[v] = task[v]
    BY <1>1 DEF Awaited
  <2> QED
    BY <1>1, <2>1, QueueShrinks
<1> QED
  BY <1>3, <1>6, <1>7 DEF Quiet

LEMMA FinishedSafe ==
  ASSUME IInv, NEW ok \in BOOLEAN, Finished(ok),
         NEW w \in Watcher, w = Head(saves).watcher
  PROVE  Quiet'
<1>1. /\ Answer("done", ok) /\ saves # <<>> /\ Head(saves).step = "done"
      /\ task' = [task EXCEPT ![w] = None]
      /\ UNCHANGED <<active, sells, started>>
      /\ task \in [Watcher -> Task]
  BY DEF Finished, Answer, IInv, TypeOK
<1>2. /\ w \in Watcher /\ At(w, {"completing", "failing"}) /\ WatcherInv(w)
      /\ active[w] = None
  BY <1>1, CallAwaited DEF IInv, WatcherInv
<1>3. ASSUME NEW v \in Watcher, v # w PROVE WatcherInv(v)'
  BY <1>1, <1>3, KeptByAnswer
<1>4. task'[w] = None /\ active'[w] = None /\ started'[w] # "no" /\ sells'[w] <= 1
  BY <1>1, <1>2 DEF WatcherInv, NotBegun, At
<1>5. NotOffered(w)'
  BY <1>1, <1>2, OffersShrink DEF WatcherInv, Committed, At
<1>6. WatcherInv(w)'
  BY <1>4, <1>5, EntryKinds DEF WatcherInv, At, IsWaiting, IsClaimed
<1>7. \A i \in 1 .. Len(saves') : CallInv(i)'
  <2>1. \A v \in Watcher : v # w \/ ~Awaited(Head(saves).step) => task'[v] = task[v]
    BY <1>1 DEF Awaited
  <2> QED
    BY <1>1, <2>1, QueueShrinks
<1> QED
  BY <1>3, <1>6, <1>7 DEF Quiet

-----------------------------------------------------------------------------
(* A buy, a timer and a restart *)

LEMMA CountedMild ==
  ASSUME IInv, NEW b \in Buy, NEW S \in SUBSET Countable(b), NEW v \in Watcher
  PROVE  /\ Mild(v, Counted(b, S))
         /\ v \in S => Triggerable(v)
<1>1. WatcherInv(v) /\ active[v] \in Entry
  BY DEF IInv, TypeOK
<1>2. v \in S => IsWaiting(active[v]) /\ task[v] = None
  <2>1. v \in S => active[v] # None /\ ~active[v].claimed /\ active[v] \in WatcherRecord
    BY <1>1 DEF Countable, InMemory, Entry
  <2>2. v \in S => IsWaiting(active[v])
    BY <2>1 DEF IsWaiting, WatcherRecord
  <2> QED
    BY <1>1, <2>2 DEF WatcherInv
<1>3. v \in S => Triggerable(v)
  BY <1>2, EntryKinds DEF Triggerable
<1>4. CASE v \in Lapsed \/ v \notin S
  <2>1. Counted(b, S)[v] \in {None, active[v]}
    BY <1>4 DEF Counted
  <2> QED
    BY <1>3, <2>1 DEF Mild
<1>5. CASE v \in S /\ v \notin Lapsed
  <2>1. Counted(b, S)[v] = Waiting(active[v].seen \cup {b})
    BY <1>5 DEF Counted
  <2> QED
    BY <1>2, <1>3, <1>5, <2>1, EntryKinds DEF Mild
<1> QED
  BY <1>4, <1>5

\* A buy claims the first watcher it triggers, and offers no sold one again.
LEMMA TradeSafe ==
  ASSUME IInv, NEW b \in Buy, NEW S \in SUBSET Countable(b), Trade(b, S)
  PROVE  Quiet'
<1> DEFINE map == Counted(b, S)
           timers == [w \in Watcher |-> IF w \in Lapsed THEN "none" ELSE timer[w]]
           triggered == Triggered(S, map)
<1>1. map \in [Watcher -> Entry] /\ \A v \in Watcher : Mild(v, map)
  BY CountedTyped, CountedMild DEF IInv
<1>2. UNCHANGED <<started, file, sells>>
  BY DEF Trade
<1>3. CASE active' = map /\ Save("count", None, b, map) /\ UNCHANGED task
  <2>1. ~Awaited("count")
    BY DEF Awaited
  <2>2. \A v \in Watcher : active'[v] = map[v]
    BY <1>3
  <2> HIDE DEF map
  <2> QED
    BY <1>1, <1>2, <1>3, <2>1, <2>2, MildCallSafe
<1>4. ASSUME triggered # {}, NEW order \in Orders(triggered),
             Claim(map, timers, order[1], map[order[1]].seen, b)
      PROVE  Quiet'
  <2>1. triggered \subseteq S /\ S \subseteq Watcher
    BY DEF Triggered, Countable, InMemory
  <2>2. order[1] \in triggered
    BY <1>4, <2>1, OrdersTyped
  <2>3. order[1] \in Watcher /\ Triggerable(order[1])
    BY <2>1, <2>2, CountedMild
  <2>4. map[order[1]].seen \in SUBSET Buy
    BY <2>2 DEF Triggered, Qualifying
  <2>5. b \in Run
    BY DEF Run
  <2> HIDE DEF map, timers, triggered
  <2> QED
    BY <1>1, <1>2, <1>4, <2>3, <2>4, <2>5, ClaimSafe
<1> QED
  BY <1>3, <1>4 DEF Trade

\* A restart resumes no sold watcher.
LEMMA LoadSafe ==
  ASSUME IInv, Load
  PROVE  Quiet'
<1>1. /\ active' = [w \in Watcher |-> IF Resumable(file[w]) THEN Waiting(file[w].seen) ELSE None]
      /\ Save("load", None, Timer, active')
      /\ UNCHANGED <<file, task, sells, started>>
      /\ saves = <<>> /\ \A w \in Watcher : task[w] = None
  BY DEF Load, IInv, DownInv
<1>2. ASSUME NEW v \in Watcher PROVE WatcherInv(v)'
  <2>1. WatcherInv(v)
    BY DEF IInv
  <2>2. active'[v] = IF IsWaiting(file[v]) THEN Waiting(file[v].seen) ELSE None
    BY <1>1 DEF Resumable
  <2>3. ~IsClaimed(active[v])'
    BY <2>2, EntryKinds DEF IsClaimed
  <2>4. Committed(v)' => ~IsWaiting(active[v])' /\ NotOffered(v)'
    <3>1. SUFFICES ASSUME Committed(v)' PROVE ~IsWaiting(active[v])' /\ NotOffered(v)'
      OBVIOUS
    <3>2. NotOffered(v)
      BY <1>1, <2>1, <3>1 DEF Committed, At, WatcherInv
    <3>3. active'[v] = None
      BY <2>2, <3>2 DEF NotOffered
    <3> QED
      BY <1>1, <3>2, <3>3, EntryKinds, OffersGrow DEF IsWaiting
  <2>5. started'[v] = "no" => NotBegun(v)'
    <3>1. SUFFICES ASSUME NotBegun(v) PROVE NotBegun(v)'
      BY <1>1, <2>1 DEF WatcherInv
    <3>2. active'[v] = None
      BY <2>2, <3>1, EntryKinds DEF NotBegun
    <3> QED
      BY <1>1, <3>1, <3>2, OffersGrow DEF NotBegun
  <2> QED
    BY <1>1, <2>1, <2>3, <2>4, <2>5 DEF WatcherInv, At
<1>3. \A i \in 1 .. Len(saves') : CallInv(i)'
  <2>1. ~Awaited("load") /\ \A i \in 1 .. Len(saves) : FALSE
    BY <1>1 DEF Awaited
  <2> QED
    BY <1>1, <2>1, QueueGrows
<1> QED
  BY <1>2, <1>3 DEF Quiet

-----------------------------------------------------------------------------
(* The invariant *)

LEMMA QuietStep == IInv /\ [Next]_vars => Quiet'
<1> SUFFICES ASSUME IInv, [Next]_vars PROVE Quiet'
  OBVIOUS
<1>1. ASSUME NEW w \in Watcher, StartWatcher(w) PROVE Quiet'
  BY <1>1, StartSafe
<1>2. ASSUME NEW w \in Watcher, StartDeclined(w) PROVE Quiet'
  BY <1>2, IdleSafe DEF StartDeclined, memory, IInv, TypeOK
<1>3. CASE StartPersisted
  BY <1>3, MildAnswerSafe DEF StartPersisted, IInv, TypeOK
<1>4. CASE StartRefused
  BY <1>4, MildAnswerSafe DEF StartRefused, IInv, TypeOK
<1>5. CASE ClaimPersisted \/ ClaimRefused
  <2>1. saves # <<>> /\ Head(saves).step = "claim"
    BY <1>5 DEF ClaimPersisted, ClaimRefused, Answer
  <2>2. Head(saves).watcher \in Watcher
    BY <2>1, CallAwaited
  <2> QED
    BY <1>5, <2>2, ClaimPersistedSafe, ClaimRefusedSafe
<1>6. ASSUME NEW ok \in BOOLEAN, CountAnswered(ok) \/ DropAnswered(ok) PROVE Quiet'
  BY <1>6, MildAnswerSafe DEF CountAnswered, DropAnswered
<1>7. ASSUME NEW ok \in BOOLEAN, Finished(ok) PROVE Quiet'
  <2>1. saves # <<>> /\ Head(saves).step = "done"
    BY <1>7 DEF Finished, Answer
  <2>2. Head(saves).watcher \in Watcher
    BY <2>1, CallAwaited
  <2> QED
    BY <1>7, <2>2, FinishedSafe
<1>8. ASSUME NEW w \in Watcher, SellRun(w) PROVE Quiet'
  BY <1>8, SellSafe, FinishSafe DEF SellRun
<1>9. ASSUME NEW b \in Buy, NEW S \in SUBSET Countable(b), Trade(b, S) PROVE Quiet'
  BY <1>9, TradeSafe
<1>10. ASSUME NEW b \in Buy, NextTrigger(b) PROVE Quiet'
  <2> DEFINE next == Head(todo[b])
  <2>1. next \in Trigger
    BY <1>10 DEF NextTrigger, IInv, TypeOK
  <2>2. next.watcher \in Watcher /\ next.seen \in SUBSET Buy /\ b \in Run
    BY <2>1 DEF Trigger, Qualifying, Run
  <2>3. UNCHANGED <<started, file, sells>>
    BY <1>10 DEF NextTrigger
  <2>4. CASE Triggerable(next.watcher) /\ Fire(next.watcher, next.seen, b)
    BY <2>2, <2>3, <2>4, FireSafe
  <2>5. CASE UNCHANGED <<active, task, saves>>
    BY <2>3, <2>5, IdleSafe
  <2> QED
    BY <1>10, <2>4, <2>5 DEF NextTrigger
<1>11. ASSUME NEW w \in Watcher, TimerFires(w) PROVE Quiet'
  <2>1. UNCHANGED <<started, file, sells>>
    BY <1>11 DEF TimerFires
  <2>2. CASE IsWaiting(active[w]) /\ Triggerable(w) /\ Fire(w, active[w].seen, Timer)
    <3>1. active[w].seen \in SUBSET Buy /\ Timer \in Run
      BY <2>2, EntryTyped DEF IInv, TypeOK, IsWaiting, Run
    <3> QED
      BY <2>1, <2>2, <3>1, FireSafe
  <2>3. CASE UNCHANGED <<active, task, saves>>
    BY <2>1, <2>3, IdleSafe
  <2> QED
    BY <1>11, <2>2, <2>3 DEF TimerFires
<1>12. CASE Crash \/ LoadRefused
  BY <1>12, ForgetSafe DEF Crash, LoadRefused
<1>13. CASE Load
  BY <1>13, LoadSafe
<1>14. CASE Loaded
  BY <1>14, MildAnswerSafe DEF Loaded
<1>15. ASSUME NEW w \in Watcher, Expire(w) \/ Toggle(w) PROVE Quiet'
  BY <1>15, IdleSafe DEF Expire, Toggle, memory
<1>16. CASE UNCHANGED vars
  BY <1>16, IdleSafe DEF vars, memory
<1> QED
  BY <1>1, <1>2, <1>3, <1>4, <1>5, <1>6, <1>7, <1>8, <1>9, <1>10, <1>11, <1>12, <1>13,
     <1>14, <1>15, <1>16 DEF Next, Store

\* A process that is down keeps no run, timer, trigger or save.
LEMMA DownStep == IInv /\ [Next]_vars => DownInv'
<1> SUFFICES ASSUME IInv, [Next]_vars, phase' = "down" PROVE DownInv'
  BY DEF DownInv
<1>1. CASE Forget
  BY <1>1 DEF Forget, DownInv
<1>2. CASE phase = "down"
  <2>1. /\ saves = <<>>
        /\ \A w \in Watcher : task[w] = None /\ timer[w] = "none"
        /\ \A b \in Buy : todo[b] = <<>>
    BY <1>2 DEF IInv, DownInv
  <2>2. CASE UNCHANGED memory
    BY <2>1, <2>2 DEF memory, DownInv
  <2>3. ASSUME NEW w \in Watcher, StartWatcher(w) \/ SellRun(w) \/ TimerFires(w) PROVE FALSE
    BY <1>2, <2>1, <2>3 DEF StartWatcher, SellRun, Sell, Finish, TimerFires
  <2>4. ASSUME NEW b \in Buy, NextTrigger(b) \/ \E S \in SUBSET Countable(b) : Trade(b, S)
        PROVE  FALSE
    BY <1>2, <2>1, <2>4 DEF NextTrigger, Trade
  <2>5. CASE Store \/ Crash \/ Load
    BY <1>2, <2>1, <2>5 DEF Store, StartPersisted, StartRefused, ClaimPersisted, ClaimRefused,
       Loaded, LoadRefused, CountAnswered, DropAnswered, Finished, Answer, Crash, Load
  <2> QED
    BY <2>2, <2>3, <2>4, <2>5 DEF Next, StartDeclined, Expire, Toggle, vars
<1>3. CASE phase # "down" /\ ~Forget
  BY <1>3 DEF Next, vars, StartWatcher, StartDeclined, SellRun, Sell, Finish, TimerFires,
     Expire, Toggle, NextTrigger, Trade, Store, StartPersisted, StartRefused, ClaimPersisted,
     ClaimRefused, Loaded, LoadRefused, CountAnswered, DropAnswered, Finished, Crash, Load
<1> QED
  BY <1>1, <1>2, <1>3

LEMMA InitInv == Init => IInv
<1> SUFFICES ASSUME Init PROVE IInv
  OBVIOUS
<1>1. <<>> \in Seq(Trigger) /\ <<>> \in Seq(Call) /\ Len(saves) = 0
  BY DEF Init
<1>2. TypeOK
  BY <1>1, BuyPressureAssumption, EntryTyped DEF Init, TypeOK, Start, TimerKind, Task
<1>3. ASSUME NEW w \in Watcher PROVE WatcherInv(w)
  BY <1>1, <1>3, EntryKinds
     DEF Init, WatcherInv, Committed, At, NotBegun
<1> QED
  BY <1>1, <1>2, <1>3 DEF Init, IInv, DownInv

\* Every reachable state has every watcher in order: not waiting once committed,
\* claimed only while a run has it, and its claim in the file before its sale.
THEOREM Inductive == Spec => []IInv
<1>1. IInv /\ [Next]_vars => IInv'
  BY TypeStep, QuietStep, DownStep DEF IInv, Quiet
<1> QED
  BY InitInv, <1>1, PTL DEF Spec

\* The state keeps its types.
THEOREM TypeCorrect == Spec => []TypeOK
<1>1. IInv => TypeOK
  BY DEF IInv
<1> QED
  BY <1>1, Inductive, PTL

\* triggerCopyTradeBuyPressureSell sells a watcher once, whatever buys, timers,
\* retries, refused saves, crashes and restarts there are.
THEOREM SellsOnce == Spec => []SoldOnce
<1>1. IInv => SoldOnce
  BY DEF IInv, WatcherInv, SoldOnce
<1> QED
  BY <1>1, Inductive, PTL

\* loadCopyTradeBuyPressureSellWatchers is never offered a sold watcher, by the
\* file or by a save that is still queued.
THEOREM NeverResumed == Spec => []SoldNeverResumes
<1>1. IInv => SoldNeverResumes
  BY DEF IInv, WatcherInv, SoldNeverResumes, Committed, NotOffered
<1> QED
  BY <1>1, Inductive, PTL

-----------------------------------------------------------------------------
(* The last save holds the map *)

LEMMA SavedIsLatest ==
  ASSUME IInv, NEW step, NEW w, NEW run, Save(step, w, run, active')
  PROVE  LatestIsActive'
<1>1. saves \in Seq(Call)
  BY DEF IInv, TypeOK
<1>2. saves' # <<>> /\ saves'[Len(saves')].snapshot = active'
  BY <1>1 DEF Save
<1> QED
  BY <1>2 DEF LatestIsActive, Latest

LEMMA AnsweredIsLatest ==
  ASSUME IInv, LatestIsActive, NEW step, NEW ok \in BOOLEAN, Answer(step, ok),
         ok => UNCHANGED active, phase # "down"
  PROVE  LatestIsActive'
<1>1. saves \in Seq(Call) /\ failures \in Nat
  BY BuyPressureAssumption DEF IInv, TypeOK
<1>2. CASE ~ok
  BY <1>1, <1>2 DEF Answer, LatestIsActive
<1>3. CASE ok
  <2>1. /\ file' = Head(saves).snapshot /\ UNCHANGED <<failures, active>>
        /\ saves # <<>> /\ saves' = Tail(saves)
    BY <1>3 DEF Answer
  <2>2. CASE Len(saves) = 1
    <3>1. saves' = <<>> /\ Head(saves) = saves[Len(saves)]
      BY <1>1, <2>1, <2>2
    <3> QED
      BY <2>1, <3>1 DEF LatestIsActive, Latest
  <2>3. CASE Len(saves) # 1
    <3>1. saves' # <<>> /\ saves'[Len(saves')] = saves[Len(saves)]
      <4>1. /\ Len(saves) \in Nat \ {0} /\ Len(saves') = Len(saves) - 1
            /\ \A i \in 1 .. Len(saves') : saves'[i] = saves[i + 1]
        BY <1>1, AnswerShifts
      <4>2. Len(saves') \in 1 .. Len(saves')
        BY <2>3, <4>1
      <4>3. saves'[Len(saves')] = saves[Len(saves') + 1]
        BY <4>1, <4>2
      <4> QED
        BY <2>3, <4>1, <4>3
    <3> QED
      BY <2>1, <3>1 DEF LatestIsActive, Latest
  <2> QED
    BY <2>2, <2>3
<1> QED
  BY <1>2, <1>3

\* Every step that changes the map queues a save of it in the same turn, and a
\* save that answers leaves the last of the queue the last.
LEMMA LatestStep == IInv /\ LatestIsActive /\ [Next]_vars => LatestIsActive'
<1> SUFFICES ASSUME IInv, LatestIsActive, [Next]_vars PROVE LatestIsActive'
  OBVIOUS
<1>1. ASSUME NEW w, NEW seen, NEW run, NEW map, NEW timers,
             Claim(map, timers, w, seen, run) \/ Fire(w, seen, run)
      PROVE  LatestIsActive'
  BY <1>1, SavedIsLatest DEF Claim, Fire, DropLapsed
<1>2. CASE UNCHANGED <<active, saves, file, failures>> /\ (phase' # "down" => phase # "down")
  BY <1>2 DEF LatestIsActive, Latest
<1>3. ASSUME NEW w \in Watcher, StartWatcher(w) PROVE LatestIsActive'
  BY <1>3, SavedIsLatest DEF StartWatcher
<1>4. ASSUME NEW w \in Watcher, SellRun(w) PROVE LatestIsActive'
  <2>1. CASE Sell(w)
    BY <1>2, <2>1 DEF Sell
  <2>2. ASSUME NEW outcome, Finish(w, outcome) PROVE LatestIsActive'
    BY <2>2, SavedIsLatest DEF Finish
  <2> QED
    BY <1>4, <2>1, <2>2 DEF SellRun
<1>5. ASSUME NEW w \in Watcher, TimerFires(w) PROVE LatestIsActive'
  BY <1>1, <1>2, <1>5 DEF TimerFires
<1>6. ASSUME NEW b \in Buy, NextTrigger(b) PROVE LatestIsActive'
  BY <1>1, <1>2, <1>6 DEF NextTrigger
<1>7. ASSUME NEW b \in Buy, NEW S \in SUBSET Countable(b), Trade(b, S) PROVE LatestIsActive'
  <2>1. \/ active' = Counted(b, S) /\ Save("count", None, b, Counted(b, S))
        \/ \E map, timers, order, seen : Claim(map, timers, order[1], seen, b)
    BY <1>7 DEF Trade
  <2> QED
    BY <1>1, <2>1, SavedIsLatest
<1>8. CASE Crash \/ LoadRefused
  BY <1>8 DEF Crash, LoadRefused, Forget, LatestIsActive
<1>9. CASE Load
  BY <1>9, SavedIsLatest DEF Load
<1>10. CASE /\ saves # <<>>
            /\ \E step \in Steps, ok \in BOOLEAN : Answer(step, ok) /\ (ok => UNCHANGED active)
  <2>1. phase # "down"
    BY <1>10 DEF IInv, DownInv
  <2> QED
    BY <1>10, <2>1, AnsweredIsLatest
<1>11. CASE Store /\ ~LoadRefused
  <2>1. \E step \in Steps, ok \in BOOLEAN : Answer(step, ok) /\ (ok => UNCHANGED active)
    BY <1>11 DEF Store, StartPersisted, StartRefused, ClaimPersisted, ClaimRefused, Loaded,
       CountAnswered, DropAnswered, Finished, Steps
  <2> QED
    BY <1>10, <2>1 DEF Answer
<1>12. ASSUME NEW w \in Watcher, StartDeclined(w) \/ Expire(w) \/ Toggle(w)
       PROVE  LatestIsActive'
  BY <1>2, <1>12 DEF StartDeclined, Expire, Toggle, memory
<1>13. CASE UNCHANGED vars
  BY <1>2, <1>13 DEF vars, memory
<1> QED
  BY <1>3, <1>4, <1>5, <1>6, <1>7, <1>8, <1>9, <1>11, <1>12, <1>13 DEF Next

\* While no save is refused, a store at rest has written the map as it is: what
\* a restart would load is what the process knows.
THEOREM SavesKeepUp == Spec => []ChangesAreSaved
<1>1. Init => LatestIsActive
  BY DEF Init, LatestIsActive, Latest
<1>2. LatestIsActive => ChangesAreSaved
  BY DEF LatestIsActive, Latest, ChangesAreSaved
<1> QED
  BY <1>1, <1>2, LatestStep, Inductive, PTL DEF Spec
=============================================================================
