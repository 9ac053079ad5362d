--------------------------- MODULE ExecutionQueue ---------------------------
(***************************************************************************)
(* The queue between the Rust worker's main loop and its executor workers  *)
(* (live.rs CopyExecutionRequestQueue): two lanes under one capacity, and  *)
(* tokio's Notify, which remembers at most one notification that nobody    *)
(* was waiting for.                                                        *)
(***************************************************************************)
EXTENDS Naturals, Sequences

CONSTANTS
  Request,    \* runtime requests of the main loop
  Copy,       \* those of the lane copy_buy: allowed, wouldBuy and a buy
  Unarmed,    \* sells for which no target-sell auto-sell is armed
  Worker,
  NoRequest,
  Capacity

QueueAssumption ==
  /\ Copy \cup Unarmed \subseteq Request /\ Copy \cap Unarmed = {}
  /\ NoRequest \notin Request
  /\ Capacity \in Nat \ {0}

VARIABLES
  high, low,   \* high_priority, low_priority
  permit,      \* the notification Notify has stored
  mode,        \* where each worker is in its loop
  job,         \* its request
  busy,        \* busy_workers
  fate         \* what became of each request

vars == <<high, low, permit, mode, job, busy, fate>>

TypeOK ==
  /\ high \in Seq(Copy) /\ low \in Seq(Request \ Copy)
  /\ permit \in BOOLEAN
  /\ mode \in [Worker -> {"popping", "registering", "waiting", "handling", "finishing"}]
  /\ job \in [Worker -> Request \cup {NoRequest}]
  /\ busy \in Nat
  /\ fate \in [Request -> {"new", "written", "dropped", "queued", "taken", "handled"}]

Init ==
  /\ high = <<>> /\ low = <<>> /\ permit = FALSE /\ busy = 0
  /\ mode = [w \in Worker |-> "popping"]
  /\ job = [w \in Worker |-> NoRequest]
  /\ fate = [r \in Request |-> "new"]

-----------------------------------------------------------------------------

Waiting == {w \in Worker : mode[w] = "waiting"}

\* Mutant: a notification that finds nobody waiting is lost.
NotifyOne_Forgets ==
  /\ permit' = FALSE
  /\ IF Waiting = {} THEN UNCHANGED mode
     ELSE \E w \in Waiting : mode' = [mode EXCEPT ![w] = "popping"]

\* notify_one: one waiting worker is woken, or the notification is stored.
NotifyOne ==
  IF Waiting = {} THEN permit' = TRUE /\ UNCHANGED mode
  ELSE /\ \E w \in Waiting : mode' = [mode EXCEPT ![w] = "popping"]
       /\ UNCHANGED permit

\* Mutant: each lane has the capacity for itself.
Full_PerLane(r) == Len(IF r \in Copy THEN high ELSE low) >= Capacity

Full(r) == Len(high) + Len(low) >= Capacity

\* enqueue_or_write_copy_execution, try_enqueue
Enqueue(r) ==
  /\ fate[r] = "new"
  /\ \/ /\ r \in Unarmed
        /\ fate' = [fate EXCEPT ![r] = "written"] /\ UNCHANGED <<high, low, permit, mode>>
     \/ /\ r \notin Unarmed /\ Full(r)
        /\ fate' = [fate EXCEPT ![r] = "dropped"] /\ UNCHANGED <<high, low, permit, mode>>
     \/ /\ r \notin Unarmed /\ ~Full(r)
        /\ fate' = [fate EXCEPT ![r] = "queued"]
        /\ high' = IF r \in Copy THEN Append(high, r) ELSE high
        /\ low' = IF r \in Copy THEN low ELSE Append(low, r)
        /\ NotifyOne
  /\ UNCHANGED <<job, busy>>

Take(w, r) ==
  /\ mode' = [mode EXCEPT ![w] = "handling"]
  /\ job' = [job EXCEPT ![w] = r]
  /\ fate' = [fate EXCEPT ![r] = "taken"]
  /\ busy' = busy + 1

\* pop_ready_request: the high lane first; recv goes on to wait if both are empty.
Pop(w) ==
  /\ mode[w] = "popping"
  /\ \/ high # <<>> /\ Take(w, Head(high)) /\ high' = Tail(high) /\ UNCHANGED low
     \/ high = <<>> /\ low # <<>> /\ Take(w, Head(low)) /\ low' = Tail(low) /\ UNCHANGED high
     \/ /\ high = <<>> /\ low = <<>>
        /\ mode' = [mode EXCEPT ![w] = "registering"] /\ UNCHANGED <<high, low, job, fate, busy>>
  /\ UNCHANGED permit

\* notified().await: a stored notification is used up at once.
Register(w) ==
  /\ mode[w] = "registering"
  /\ mode' = [mode EXCEPT ![w] = IF permit THEN "popping" ELSE "waiting"]
  /\ permit' = FALSE
  /\ UNCHANGED <<high, low, job, busy, fate>>

\* handle_copy_execution_request: skipped as stale, refused, sent or failed.
Handle(w) ==
  /\ mode[w] = "handling"
  /\ mode' = [mode EXCEPT ![w] = "finishing"]
  /\ fate' = [fate EXCEPT ![job[w]] = "handled"]
  /\ job' = [job EXCEPT ![w] = NoRequest]
  /\ UNCHANGED <<high, low, permit, busy>>

FinishWorker(w) ==
  /\ mode[w] = "finishing"
  /\ mode' = [mode EXCEPT ![w] = "popping"]
  /\ busy' = IF busy = 0 THEN 0 ELSE busy - 1
  /\ UNCHANGED <<high, low, permit, job, fate>>

Work(w) == Pop(w) \/ Register(w) \/ Handle(w) \/ FinishWorker(w)

Next == (\E r \in Request : Enqueue(r)) \/ (\E w \in Worker : Work(w))

Spec == Init /\ [][Next]_vars

\* The runtime polls every worker, and a handler returns.
FairSpec == Spec /\ \A w \in Worker : WF_vars(Work(w))

-----------------------------------------------------------------------------
(* Properties *)

\* As long as a request is queued some worker is going to look at the queue,
\* or the next one that registers will: no wake-up is lost, although
\* notify_one stores a single permit (recv, try_enqueue).
NoLostWakeup ==
  (high # <<>> \/ low # <<>>) =>
    permit \/ \E w \in Worker : mode[w] \in {"popping", "handling", "finishing"}

\* Every request that found room is handled.
QueuedIsHandled == \A r \in Request : (fate[r] = "queued") ~> (fate[r] = "handled")
=============================================================================
