-------------------------- MODULE BuyPressureExit --------------------------
(***************************************************************************)
(* Buy-pressure exits: after a confirmed copy buy a watcher counts         *)
(* follow-on buys of the coin and sells on buy pressure or on its timeout. *)
(* Watchers live in a map and are saved, whole, to a JSON file through a   *)
(* queue; a sale is claimed in the file before it is sent. A step runs     *)
(* from one await to the next; the process may crash and reload the file.  *)
(***************************************************************************)
EXTENDS Integers, Sequences, FiniteSets

CONSTANTS
  Watcher,      \* one per confirmed copy buy with the exit enabled, on one coin
  Buy,          \* observed follow-on buys of that coin
  MinBuys,      \* COPY_TRADE_BUY_PRESSURE_SELL_MIN_BUYS
  None,         \* no watcher, no run
  Timer,        \* the run of a trigger that a timer started
  MaxFailures,  \* bound on failed saves
  MaxRestarts   \* bound

Run == Buy \cup {Timer}
WatcherRecord == [seen : SUBSET Buy, claimed : BOOLEAN]
TriggerRecord == [at : {"claiming", "selling", "sold", "completing", "failing"},
                  seen : SUBSET Buy, run : Run]

ASSUME BuyPressureAssumption ==
  /\ IsFiniteSet(Watcher)
  /\ None \notin Watcher \cup Buy \cup WatcherRecord \cup TriggerRecord
  /\ Timer \notin Buy
  /\ {MinBuys, MaxFailures, MaxRestarts} \subseteq Nat

VARIABLES
  phase,     \* of the process: "down", "loading" or "running"
  started,   \* [Watcher -> Start]: what startCopyTradeBuyPressureSellWatcher did
  active,    \* [Watcher -> Entry]: activeBuyPressureSellWatchers
  timer,     \* [Watcher -> TimerKind]: buyPressureSellTimers
  task,      \* [Watcher -> Task]: activeBuyPressureSellTriggers and their runs
  todo,      \* [Buy -> Seq(Trigger)]: triggers its handler has yet to await
  busy,      \* buys whose handler awaits a save or a trigger
  saves,     \* the queue of the store, each with its snapshot and caller
  file,      \* [Watcher -> Entry]: COPY_TRADE_BUY_PRESSURE_SELL_STATE_PATH
  live,      \* watchers whose subscriber exists and is live
  expired,   \* watchers past expiresAtMs
  sells,     \* [Watcher -> 0 .. 2]: sale transactions handed to the network
  ended,     \* watchers the code has let go of
  failures, restarts

memory == <<active, timer, task, todo, busy, saves>>
clock == <<live, expired>>
vars == <<phase, started, memory, file, clock, sells, ended, failures, restarts>>

Start == {"no", "persisting", "watching", "trailing", "lost"}
TimerKind == {"none", "timeout", "retry"}
Entry == {None} \cup WatcherRecord
Qualifying == {S \in SUBSET Buy : Cardinality(S) >= MinBuys}
Trigger == [watcher : Watcher, seen : Qualifying]
Task == {None} \cup TriggerRecord
Call == [step : {"load", "start", "count", "claim", "drop", "done"},
         watcher : Watcher \cup {None}, run : Run, snapshot : [Watcher -> Entry]]

TypeOK ==
  /\ phase \in {"down", "loading", "running"}
  /\ started \in [Watcher -> Start]
  /\ active \in [Watcher -> Entry]
  /\ timer \in [Watcher -> TimerKind]
  /\ task \in [Watcher -> Task]
  /\ todo \in [Buy -> Seq(Trigger)]
  /\ busy \subseteq Buy
  /\ saves \in Seq(Call)
  /\ file \in [Watcher -> Entry]
  /\ live \subseteq Watcher /\ expired \subseteq Watcher
  /\ sells \in [Watcher -> 0 .. 2]
  /\ ended \subseteq Watcher
  /\ failures \in 0 .. MaxFailures /\ restarts \in 0 .. MaxRestarts

Init ==
  /\ phase = "running"
  /\ started = [w \in Watcher |-> "no"]
  /\ active = [w \in Watcher |-> None] /\ file = active
  /\ timer = [w \in Watcher |-> "none"]
  /\ task = [w \in Watcher |-> None]
  /\ todo = [b \in Buy |-> <<>>] /\ busy = {}
  /\ saves = <<>>
  /\ live = Watcher /\ expired = {}
  /\ sells = [w \in Watcher |-> 0]
  /\ ended = {}
  /\ failures = 0 /\ restarts = 0

-----------------------------------------------------------------------------
(* The map, the timers and the store *)

Waiting(seen) == [seen |-> seen, claimed |-> FALSE]
Claimed(seen) == [seen |-> seen, claimed |-> TRUE]
IsWaiting(e) == e # None /\ e.claimed = FALSE
IsClaimed(e) == e # None /\ e.claimed = TRUE

\* Mutant: the save holds the watcher as it was before the claim.
Save_BeforeClaim(step, w, run, map) ==
  saves' = Append(saves, [step |-> step, watcher |-> w, run |-> run,
    snapshot |-> IF step = "claim" THEN active ELSE map])

\* store.save takes its snapshot of the map when it is called.
Save(step, w, run, map) ==
  saves' = Append(saves, [step |-> step, watcher |-> w, run |-> run, snapshot |-> map])

\* A save answers; saves run one at a time in the order of their calls.
Answer(step, ok) ==
  /\ saves # <<>> /\ Head(saves).step = step
  /\ saves' = Tail(saves)
  /\ \/ ok /\ file' = Head(saves).snapshot /\ UNCHANGED failures
     \/ ~ok /\ failures < MaxFailures /\ failures' = failures + 1 /\ UNCHANGED file

\* The handler of a buy goes on when what it awaited returns, and stops when it throws.
Continue(run) == busy' = busy \ {run} /\ UNCHANGED todo
Abort(run) ==
  /\ busy' = busy \ {run}
  /\ todo' = [b \in Buy |-> IF b = run THEN <<>> ELSE todo[b]]

-----------------------------------------------------------------------------
(* startCopyTradeBuyPressureSellWatcher *)

StartWatcher(w) ==
  /\ phase = "running" /\ started[w] = "no" /\ w \in live
  /\ active' = [active EXCEPT ![w] = Waiting({})]
  /\ timer' = [timer EXCEPT ![w] = "timeout"]
  /\ Save("start", w, Timer, active')
  /\ started' = [started EXCEPT ![w] = "persisting"]
  /\ UNCHANGED <<phase, task, todo, busy, file, clock, sells, ended, failures, restarts>>

\* No watcher: scheduleCopyTradePostConfirmationExits schedules trailing sells.
StartDeclined(w) ==
  /\ phase = "running" /\ started[w] = "no" /\ w \notin live
  /\ started' = [started EXCEPT ![w] = "trailing"]
  /\ UNCHANGED <<phase, memory, file, clock, sells, ended, failures, restarts>>

StartPersisted ==
  /\ Answer("start", TRUE)
  /\ started' = [started EXCEPT ![Head(saves).watcher] = "watching"]
  /\ UNCHANGED <<phase, active, timer, task, todo, busy, clock, sells, ended, restarts>>

StartRefused ==
  /\ Answer("start", FALSE)
  /\ LET w == Head(saves).watcher IN
     /\ timer' = [timer EXCEPT ![w] = "none"]
     /\ active' = [active EXCEPT ![w] = None]
     /\ started' = [started EXCEPT ![w] = "trailing"]
  /\ UNCHANGED <<phase, task, todo, busy, clock, sells, ended, restarts>>

-----------------------------------------------------------------------------
(* triggerCopyTradeBuyPressureSell *)

Claim(map, timers, w, seen, run) ==
  /\ active' = [map EXCEPT ![w] = Claimed(seen)]
  /\ task' = [task EXCEPT ![w] = [at |-> "claiming", seen |-> seen, run |-> run]]
  /\ timer' = [timers EXCEPT ![w] = "none"]
  /\ Save("claim", w, run, active')

DropLapsed(w, run) ==
  /\ active' = [active EXCEPT ![w] = None]
  /\ timer' = [timer EXCEPT ![w] = "none"]
  /\ ended' = ended \cup {w}
  /\ Save("drop", w, run, active')
  /\ UNCHANGED task

\* What the trigger does before it first awaits, unless it returns at once.
Triggerable(w) == active[w] # None /\ task[w] = None
Fire(w, seen, run) ==
  IF w \in live THEN Claim(active, timer, w, seen, run) /\ UNCHANGED ended
                ELSE DropLapsed(w, run)

ClaimPersisted ==
  /\ Answer("claim", TRUE)
  /\ task' = [task EXCEPT ![Head(saves).watcher].at = "selling"]
  /\ UNCHANGED <<phase, started, active, timer, todo, busy, clock, sells, ended, restarts>>

\* The watcher of the call is put back and a timer five seconds ahead replaces
\* the one for its expiry.
ClaimRefused ==
  /\ Answer("claim", FALSE)
  /\ LET w == Head(saves).watcher IN
     /\ active' = [active EXCEPT ![w] = Waiting(task[w].seen)]
     /\ timer' = [timer EXCEPT ![w] = "retry"]
     /\ task' = [task EXCEPT ![w] = None]
  /\ Continue(Head(saves).run)
  /\ UNCHANGED <<phase, started, clock, sells, ended, restarts>>

DropAnswered(ok) ==
  /\ Answer("drop", ok)
  /\ IF ok THEN Continue(Head(saves).run) ELSE Abort(Head(saves).run)
  /\ UNCHANGED <<phase, started, active, timer, task, clock, sells, ended, restarts>>

\* buildAndNotifyBuyPressureSell hands the sale to the network ...
Sell(w) ==
  /\ task[w] # None /\ task[w].at = "selling"
  /\ sells' = [sells EXCEPT ![w] = IF @ < 2 THEN @ + 1 ELSE @]
  /\ task' = [task EXCEPT ![w].at = "sold"]
  /\ UNCHANGED <<phase, started, active, timer, todo, busy, saves, file, clock, ended, failures, restarts>>

\* ... and reports it, or a gate or a balance check stops it, or it throws.
Finish(w, outcome) ==
  /\ task[w] # None /\ task[w].at \in {"selling", "sold"}
  /\ active' = [active EXCEPT ![w] = None]
  /\ task' = [task EXCEPT ![w].at = outcome]
  /\ ended' = ended \cup {w}
  /\ Save("done", w, task[w].run, active')
  /\ UNCHANGED <<phase, started, timer, todo, busy, file, clock, sells, failures, restarts>>

\* A failed save is only logged; an error of the sale reaches the handler.
Finished(ok) ==
  /\ Answer("done", ok)
  /\ LET w == Head(saves).watcher IN
     /\ task' = [task EXCEPT ![w] = None]
     /\ IF task[w].at = "failing" THEN Abort(task[w].run) ELSE Continue(task[w].run)
  /\ UNCHANGED <<phase, started, active, timer, clock, sells, ended, restarts>>

-----------------------------------------------------------------------------
(* handleCopyTradeBuyPressureTrade *)

InMemory == {w \in Watcher : active[w] # None}
Lapsed == InMemory \ live

\* Watchers a buy may count for: the others ignore it.
Countable(b) == {w \in InMemory \cap live : ~active[w].claimed /\ b \notin active[w].seen}

\* applyCopyTradeBuyPressureTrade, and the deletion of lapsed watchers.
Counted(b, S) ==
  [w \in Watcher |-> IF w \in Lapsed THEN None
                     ELSE IF w \in S THEN Waiting(active[w].seen \cup {b})
                     ELSE active[w]]

Triggered(S, map) == {w \in S : map[w].seen \in Qualifying}

Orders(S) == {f \in [1 .. Cardinality(S) -> S] : \A i, j \in DOMAIN f : i # j => f[i] # f[j]}

\* The buy counts for the watchers in S, it is older than the others' copy buy
\* or their own. The first trigger starts in the same step.
Trade(b, S) ==
  /\ phase = "running" /\ b \notin busy /\ todo[b] = <<>>
  /\ S \subseteq Countable(b) /\ S \cup Lapsed # {}
  /\ busy' = busy \cup {b}
  /\ ended' = ended \cup Lapsed
  /\ LET map == Counted(b, S)
         timers == [w \in Watcher |-> IF w \in Lapsed THEN "none" ELSE timer[w]]
         triggered == Triggered(S, map)
     IN \/ /\ triggered = {}
           /\ active' = map /\ timer' = timers
           /\ Save("count", None, b, map)
           /\ UNCHANGED <<task, todo>>
        \/ \E order \in Orders(triggered) :
             /\ triggered # {}
             /\ Claim(map, timers, order[1], map[order[1]].seen, b)
             /\ todo' = [todo EXCEPT ![b] =
                  [i \in 1 .. Len(order) - 1 |->
                     [watcher |-> order[i + 1], seen |-> map[order[i + 1]].seen]]]
  /\ UNCHANGED <<phase, started, file, clock, sells, failures, restarts>>

CountAnswered(ok) ==
  /\ Answer("count", ok)
  /\ Continue(Head(saves).run)
  /\ UNCHANGED <<phase, started, active, timer, task, clock, sells, ended, restarts>>

\* The handler's next trigger has the watcher as it was when the buy arrived.
NextTrigger(b) ==
  /\ b \notin busy /\ todo[b] # <<>>
  /\ todo' = [todo EXCEPT ![b] = Tail(@)]
  /\ LET next == Head(todo[b]) IN
     IF Triggerable(next.watcher)
     THEN Fire(next.watcher, next.seen, b) /\ busy' = busy \cup {b}
     ELSE UNCHANGED <<active, timer, task, busy, saves, ended>>
  /\ UNCHANGED <<phase, started, file, clock, sells, failures, restarts>>

-----------------------------------------------------------------------------
(* scheduleBuyPressureSellTimeout *)

TimerFires(w) ==
  /\ timer[w] # "none" /\ (timer[w] = "timeout" => w \in expired)
  /\ IF IsWaiting(active[w]) /\ w \in expired /\ Triggerable(w)
     THEN Fire(w, active[w].seen, Timer)
     ELSE /\ timer' = [timer EXCEPT ![w] = "none"]
          /\ UNCHANGED <<active, task, saves, ended>>
  /\ UNCHANGED <<phase, started, todo, busy, file, clock, sells, failures, restarts>>

-----------------------------------------------------------------------------
(* The process and its surroundings *)

Forget ==
  /\ phase' = "down"
  /\ active' = [w \in Watcher |-> None]
  /\ timer' = [w \in Watcher |-> "none"]
  /\ task' = [w \in Watcher |-> None]
  /\ todo' = [b \in Buy |-> <<>>] /\ busy' = {}
  /\ saves' = <<>>
  /\ started' = [w \in Watcher |-> IF started[w] = "persisting" THEN "lost" ELSE started[w]]

\* A crash, or a shutdown: both abandon the saves that have not run.
Crash ==
  /\ phase # "down" /\ restarts < MaxRestarts
  /\ Forget
  /\ restarts' = restarts + 1
  /\ UNCHANGED <<file, clock, sells, ended, failures>>

\* Mutant: claimed watchers are resumed too.
Resumable_All(e) == e # None

Resumable(e) == IsWaiting(e)

\* Mutant: a restart forgets the timeouts.
ResumedTimer_None(e) == "none"

ResumedTimer(e) == IF Resumable(e) THEN "timeout" ELSE "none"

\* loadCopyTradeBuyPressureSellWatchers
Load ==
  /\ phase = "down"
  /\ phase' = "loading"
  /\ active' = [w \in Watcher |-> IF Resumable(file[w]) THEN Waiting(file[w].seen) ELSE None]
  /\ timer' = [w \in Watcher |-> ResumedTimer(file[w])]
  /\ ended' = ended \cup {w \in Watcher : file[w] # None /\ ~Resumable(file[w])}
  /\ Save("load", None, Timer, active')
  /\ UNCHANGED <<started, task, todo, busy, file, clock, sells, failures, restarts>>

Loaded ==
  /\ Answer("load", TRUE)
  /\ phase' = "running"
  /\ UNCHANGED <<started, active, timer, task, todo, busy, clock, sells, ended, restarts>>

\* The top-level await throws and the process exits.
LoadRefused ==
  /\ saves # <<>> /\ Head(saves).step = "load"
  /\ failures < MaxFailures /\ failures' = failures + 1
  /\ Forget
  /\ UNCHANGED <<file, clock, sells, ended, restarts>>

Expire(w) ==
  /\ started[w] # "no" /\ w \notin expired
  /\ expired' = expired \cup {w}
  /\ UNCHANGED <<phase, started, memory, file, live, sells, ended, failures, restarts>>

\* The subscription lapses or is paid again.
Toggle(w) ==
  /\ live' = IF w \in live THEN live \ {w} ELSE live \cup {w}
  /\ UNCHANGED <<phase, started, memory, file, expired, sells, ended, failures, restarts>>

Store ==
  \/ StartPersisted \/ StartRefused
  \/ ClaimPersisted \/ ClaimRefused
  \/ Loaded \/ LoadRefused
  \/ \E ok \in BOOLEAN : CountAnswered(ok) \/ DropAnswered(ok) \/ Finished(ok)

SellRun(w) == Sell(w) \/ \E outcome \in {"completing", "failing"} : Finish(w, outcome)

Next ==
  \/ \E w \in Watcher :
       StartWatcher(w) \/ StartDeclined(w) \/ SellRun(w) \/ TimerFires(w) \/ Expire(w) \/ Toggle(w)
  \/ \E b \in Buy : NextTrigger(b) \/ \E S \in SUBSET Countable(b) : Trade(b, S)
  \/ Store \/ Crash \/ Load

Spec == Init /\ [][Next]_vars

\* The file system answers, time passes, and a sale returns or throws.
FairSpec ==
  /\ Spec
  /\ WF_vars(Store) /\ WF_vars(Load)
  /\ \A w \in Watcher : WF_vars(SellRun(w)) /\ WF_vars(TimerFires(w)) /\ WF_vars(Expire(w))
  /\ \A b \in Buy : WF_vars(NextTrigger(b))

-----------------------------------------------------------------------------
(* Properties *)

\* A watcher sells once, whatever buy, timer, retry or restart triggers it
\* ("timeout fallback and buy-pressure trigger race can only claim once",
\* test/copytrade-buy-pressure.test.mjs:201).
SoldOnce == \A w \in Watcher : sells[w] <= 1

\* The file never offers a sold watcher to a restart, and no queued save will:
\* the claim reached the file before the sale was sent, failed saves included.
SoldNeverResumes ==
  \A w \in Watcher : sells[w] > 0 =>
    /\ ~IsWaiting(file[w])
    /\ \A i \in 1 .. Len(saves) : ~IsWaiting(saves[i].snapshot[w])

\* Every change of the map is followed by a save that records it.
ChangesAreSaved ==
  failures = 0 /\ saves = <<>> /\ phase = "running" => file = active

\* While saves succeed, every watcher leaves the file: sold, stopped or dropped.
WatchersEnd == [](failures = 0) => \A w \in Watcher : file[w] # None ~> file[w] = None

\* "or sells on the configured timeout as a fallback" (README.md:108): a waiting
\* watcher has a timer. Refuted by a refused claim, whose five-second timer
\* replaces the timeout and is not set again when it fires before the expiry.
FallbackArmed == \A w \in Watcher : IsWaiting(active[w]) => timer[w] # "none"

-----------------------------------------------------------------------------
(* The inductive invariant behind SoldOnce and SoldNeverResumes *)

At(w, places) == task[w] # None /\ task[w].at \in places

\* The sale of w was sent, or is past the claim that allows it.
Committed(w) == sells[w] > 0 \/ At(w, {"selling", "sold", "completing", "failing"})

NotOffered(w) ==
  /\ ~IsWaiting(file[w])
  /\ \A i \in 1 .. Len(saves) : ~IsWaiting(saves[i].snapshot[w])

NotBegun(w) ==
  /\ active[w] = None /\ task[w] = None /\ sells[w] = 0 /\ file[w] = None
  /\ \A i \in 1 .. Len(saves) : saves[i].snapshot[w] = None

WatcherInv(w) ==
  /\ Committed(w) => NotOffered(w) /\ ~IsWaiting(active[w])
  /\ task[w] # None => ~IsWaiting(active[w])
  /\ IsClaimed(active[w]) => task[w] # None
  /\ At(w, {"completing", "failing"}) => active[w] = None
  /\ At(w, {"claiming", "selling"}) => sells[w] = 0
  /\ started[w] = "no" => NotBegun(w)
  /\ sells[w] <= 1

\* A queued claim is waited for by its run, and no later save offers its
\* watcher; a run waits for one save.
CallInv(i) ==
  LET w == saves[i].watcher IN
  /\ saves[i].step \in {"start", "claim", "done"} => w \in Watcher
  /\ saves[i].step = "claim" =>
       /\ At(w, {"claiming"})
       /\ \A j \in i .. Len(saves) : ~IsWaiting(saves[j].snapshot[w])
  /\ saves[i].step = "done" => At(w, {"completing", "failing"})
  /\ \A j \in 1 .. Len(saves) :
       i # j /\ {saves[i].step, saves[j].step} \subseteq {"claim", "done"} => saves[j].watcher # w

DownInv ==
  phase = "down" =>
    /\ saves = <<>>
    /\ \A w \in Watcher : task[w] = None /\ timer[w] = "none"
    /\ \A b \in Buy : todo[b] = <<>>

IInv ==
  /\ TypeOK
  /\ \A w \in Watcher : WatcherInv(w)
  /\ \A i \in 1 .. Len(saves) : CallInv(i)
  /\ DownInv

-----------------------------------------------------------------------------
(* The inductive invariant behind ChangesAreSaved *)

\* What the file holds once every queued save has answered.
Latest == IF saves = <<>> THEN file ELSE saves[Len(saves)].snapshot

\* No refused save has put a watcher back or taken one away behind the store.
LatestIsActive == failures = 0 /\ phase # "down" => Latest = active
=============================================================================
