-------------------------- MODULE SchedulingProofs --------------------------
(***************************************************************************)
(* Proofs about what waits for its turn. First the timed exits of the bot, *)
(* for any number of buys, positions, schedules and steps and any bound on *)
(* faults and restarts; then the queue of the Rust worker, for any number  *)
(* of requests and workers and any capacity.                               *)
(***************************************************************************)
EXTENDS MCScheduling, SequenceTheorems, TLAPS

-----------------------------------------------------------------------------
(* TrailingSells *)

\* A buy belongs to the schedule that took it: an own buy to one only, and
\* nothing has touched its record before.
Owned ==
  /\ \A s \in Schedule :
       /\ stage[s] = "idle" => sold[s] = {} /\ ~gate[s]
       /\ stage[s] # "idle" => buy[s] \in Buy
       /\ stage[s] # "idle" /\ buy[s] \notin Rust => buy[s] \in handed /\ ~gate[s]
  /\ \A s, t \in Schedule :
       s # t /\ stage[s] # "idle" /\ stage[t] # "idle" /\ buy[s] = buy[t] => buy[s] \in Rust
  /\ \A b \in Buy : b \in Rust \/ b \notin handed => status[b] = "submitted"

\* What a schedule knows of its buy, and where its steps stand.
Landed(s) == chain[buy[s]] = "landed" /\ status[buy[s]] \in {"submitted", "confirmed"}

Sound ==
  \A s \in Schedule :
    /\ stage[s] = "confirming" => sold[s] = {} /\ status[buy[s]] = "submitted"
    /\ stage[s] \in Running \cup {"exits"} => Landed(s)
    /\ sold[s] # {} => Landed(s)
    /\ \A n \in sold[s] : n <= step[s]
    /\ stage[s] \in Running \ {"announcing", "top"} => step[s] <= Steps

\* An order that goes out under a stop had passed its gate before.
Gated ==
  \A s \in Schedule :
    /\ stage[s] = "sending" => ~gate[s] /\ (stopped => s \in late)
    /\ stage[s] = "building" /\ buy[s] \in Rust /\ stopped => s \in late

IInv == TypeOK /\ Owned /\ Sound /\ Gated /\ OneSchedulePerPosition

LEMMA InitInv == TrailingAssumption /\ Init => IInv
  <1> SUFFICES ASSUME TrailingAssumption, Init PROVE IInv
    OBVIOUS
  <1>1. TypeOK
    <2>1. remembered \in Seq(Rust) /\ Len(remembered) <= CacheSize
      BY EmptySeq DEF Init, TrailingAssumption
    <2>2. /\ chain \in [Buy -> {"open", "landed", "failed"}]
          /\ status \in [Buy -> {"submitted", "confirmed", "expired", "failed"}]
          /\ buy \in [Schedule -> Buy \cup {NoBuy}]
      BY DEF Init
    <2>3. /\ stage \in [Schedule -> Stage]
          /\ gate \in [Schedule -> BOOLEAN]
          /\ sold \in [Schedule -> SUBSET (1 .. Steps)]
      BY DEF Init, Stage
    <2>4. step \in [Schedule -> 1 .. Steps + 1]
      BY DEF Init, TrailingAssumption
    <2>5. faults \in 0 .. MaxFaults /\ stops \in 0 .. MaxStops /\ restarts \in 0 .. MaxRestarts
      BY DEF Init, TrailingAssumption
    <2>6. /\ handed \subseteq Buy \ Rust /\ active \subseteq {Position[b] : b \in Buy}
          /\ late \subseteq Schedule /\ stopped \in BOOLEAN /\ shutting \in BOOLEAN
      BY DEF Init
    <2> QED
      BY <2>1, <2>2, <2>3, <2>4, <2>5, <2>6 DEF TypeOK
  <1>2. Owned
    BY DEF Init, Owned
  <1>3. Sound /\ Gated
    BY DEF Init, Sound, Gated, Running
  <1>4. OneSchedulePerPosition
    BY DEF Init, OneSchedulePerPosition, Running
  <1> QED
    BY <1>1, <1>2, <1>3, <1>4 DEF IInv

Labels(s, label) ==
  /\ label \in Stage \ {"idle", "confirming"}
  /\ label \in Running \cup {"exits"} => Landed(s)
  /\ label \in Running \ {"announcing", "top"} => step[s] <= Steps
  /\ label = "sending" => ~gate[s] /\ (stopped => s \in late)
  /\ label = "building" /\ buy[s] \in Rust /\ stopped => s \in late

\* A schedule goes on and keeps, or does not have, its position.
LEMMA MoveInv ==
  ASSUME IInv, NEW s \in Schedule, NEW label, stage[s] # "idle", Labels(s, label),
         stage' = [stage EXCEPT ![s] = label],
         stage[s] \in Running <=> label \in Running,
         faults' \in 0 .. MaxFaults,
         UNCHANGED <<chain, status, remembered, handed, active, buy, step, gate, late, sold,
                     stopped, shutting, stops, restarts>>
  PROVE IInv'
  <1> USE DEF IInv
  <1>1. TypeOK'
    BY DEF TypeOK, Labels
  <1>2. /\ stage'[s] = label
        /\ \A t \in Schedule : t # s => stage'[t] = stage[t]
    BY DEF TypeOK
  <1>3. Owned'
    BY <1>2 DEF Owned, Labels
  <1>4. Sound'
    BY <1>2 DEF Sound, Landed, Labels
  <1>5. Gated'
    BY <1>2 DEF Gated, Labels
  <1>6. OneSchedulePerPosition'
    <2>1. {t \in Schedule : stage'[t] \in Running} = {t \in Schedule : stage[t] \in Running}
      BY <1>2
    <2> QED
      BY <2>1 DEF OneSchedulePerPosition
  <1> QED
    BY <1>1, <1>3, <1>4, <1>5, <1>6

\* A schedule that ends frees its position.
LEMMA FinishInv ==
  ASSUME IInv, NEW s \in Schedule, stage[s] \in Running, Finish(s),
         faults' \in 0 .. MaxFaults,
         UNCHANGED <<chain, status, remembered, handed, buy, gate, late, sold,
                     stopped, shutting, stops, restarts>>
  PROVE IInv'
  <1> USE DEF IInv
  <1>1. /\ stage' = [stage EXCEPT ![s] = "done"]
        /\ active' = active \ {Position[buy[s]]} /\ step' = step
    BY DEF Finish, Goto, Left
  <1>2. TypeOK'
    BY <1>1 DEF TypeOK, Stage
  <1>3. /\ stage'[s] = "done"
        /\ \A t \in Schedule : t # s => stage'[t] = stage[t]
    BY <1>1 DEF TypeOK
  <1>4. stage[s] # "idle" /\ stage[s] # "confirming"
    BY DEF Running
  <1>5. Owned'
    BY <1>1, <1>3, <1>4 DEF Owned
  <1>6. Sound'
    BY <1>1, <1>3 DEF Sound, Landed, Running
  <1>7. Gated'
    BY <1>1, <1>3 DEF Gated
  <1>8. OneSchedulePerPosition'
    <2>1. {t \in Schedule : stage'[t] \in Running}
            = {t \in Schedule : stage[t] \in Running} \ {s}
      BY <1>3 DEF Running
    <2> QED
      BY <1>1, <2>1 DEF OneSchedulePerPosition
  <1> QED
    BY <1>2, <1>5, <1>6, <1>7, <1>8

LEMMA NextStepInv ==
  ASSUME TrailingAssumption, IInv, NEW s \in Schedule,
         stage[s] \in Running \ {"announcing", "top"}, NextStep(s),
         faults' \in 0 .. MaxFaults,
         UNCHANGED <<chain, status, remembered, handed, buy, gate, late, sold,
                     stopped, shutting, stops, restarts>>
  PROVE IInv'
  <1> USE DEF IInv
  <1>1. /\ stage' = [stage EXCEPT ![s] = "top"]
        /\ active' = active /\ step' = [step EXCEPT ![s] = @ + 1]
    BY DEF NextStep, Goto
  <1>2. step[s] <= Steps /\ step[s] \in 1 .. Steps + 1 /\ Steps \in Nat
    BY DEF Sound, TypeOK, TrailingAssumption
  <1>3. TypeOK'
    <2>1. step[s] + 1 \in 1 .. Steps + 1
      BY <1>2
    <2>2. step' \in [Schedule -> 1 .. Steps + 1]
      BY <1>1, <2>1 DEF TypeOK
    <2>3. stage' \in [Schedule -> Stage]
      BY <1>1 DEF TypeOK, Stage
    <2> QED
      BY <1>1, <2>2, <2>3 DEF TypeOK
  <1>4. /\ stage'[s] = "top" /\ step'[s] = step[s] + 1
        /\ \A t \in Schedule : t # s => stage'[t] = stage[t] /\ step'[t] = step[t]
    BY <1>1 DEF TypeOK
  <1>5. stage[s] # "idle" /\ stage[s] # "confirming" /\ "top" \in Running
    BY DEF Running
  <1>6. Owned'
    BY <1>1, <1>4, <1>5 DEF Owned
  <1>7. Sound'
    <2> SUFFICES ASSUME NEW t \in Schedule
                 PROVE /\ stage'[t] = "confirming" => sold[t] = {} /\ status[buy[t]] = "submitted"
                       /\ stage'[t] \in Running \cup {"exits"} => Landed(t)
                       /\ sold[t] # {} => Landed(t)
                       /\ \A n \in sold[t] : n <= step'[t]
                       /\ stage'[t] \in Running \ {"announcing", "top"} => step'[t] <= Steps
      BY DEF Sound, Landed
    <2>1. CASE t # s
      BY <1>4, <2>1 DEF Sound
    <2>2. CASE t = s
      <3>1. \A n \in sold[s] : n <= step[s] + 1
        BY <1>2 DEF Sound, TypeOK
      <3> QED
        BY <1>4, <1>5, <2>2, <3>1 DEF Sound
    <2> QED
      BY <2>1, <2>2
  <1>8. Gated'
    BY <1>1, <1>4 DEF Gated
  <1>9. OneSchedulePerPosition'
    <2>1. {t \in Schedule : stage'[t] \in Running} = {t \in Schedule : stage[t] \in Running}
      BY <1>4, <1>5
    <2> QED
      BY <1>1, <2>1 DEF OneSchedulePerPosition
  <1> QED
    BY <1>3, <1>6, <1>7, <1>8, <1>9

-----------------------------------------------------------------------------
(* One lemma per action *)

LEMMA RememberType ==
  ASSUME TrailingAssumption, TypeOK, NEW b \in Rust
  PROVE Remember(b) \in Seq(Rust) /\ Len(Remember(b)) <= CacheSize
  <1> DEFINE keys == Append(remembered, b)
  <1>1. keys \in Seq(Rust) /\ Len(keys) = Len(remembered) + 1 /\ keys # <<>>
    <2>1. remembered \in Seq(Rust)
      BY DEF TypeOK
    <2>2. keys \in Seq(Rust) /\ Len(keys) = Len(remembered) + 1
      BY <2>1, AppendProperties
    <2> QED
      BY <2>1, <2>2, LenProperties, EmptySeq
  <1>2. CASE Len(keys) > CacheSize
    <2>1. Tail(keys) \in Seq(Rust) /\ Len(Tail(keys)) = Len(keys) - 1
      BY <1>1, HeadTailProperties
    <2> QED
      BY <1>1, <1>2, <2>1, LenProperties DEF Remember, TypeOK, TrailingAssumption
  <1>3. CASE ~(Len(keys) > CacheSize)
    BY <1>1, <1>3 DEF Remember, TypeOK, TrailingAssumption
  <1> QED
    BY <1>2, <1>3

LEMMA PickUpInv ==
  ASSUME TrailingAssumption, IInv, NEW s \in Schedule, NEW b \in Buy, PickUp(s, b)
  PROVE IInv'
  <1> USE DEF IInv
  <1>1. PICK label \in {"confirming", "done"} :
          /\ stage' = [stage EXCEPT ![s] = label]
          /\ b \in Rust /\ stage[s] = "idle" /\ remembered' = Remember(b)
          /\ buy' = [buy EXCEPT ![s] = b] /\ gate' = [gate EXCEPT ![s] = stopped]
          /\ UNCHANGED <<chain, status, handed, active, step, late, sold, stopped, shutting,
                         faults, stops, restarts>>
    BY DEF PickUp, limits
  <1>2. TypeOK'
    <2>1. remembered' \in Seq(Rust) /\ Len(remembered') <= CacheSize
      BY <1>1, RememberType
    <2>2. stage' \in [Schedule -> Stage]
      BY <1>1 DEF TypeOK, Stage
    <2>3. buy' \in [Schedule -> Buy \cup {NoBuy}] /\ gate' \in [Schedule -> BOOLEAN]
      BY <1>1 DEF TypeOK
    <2> QED
      BY <1>1, <2>1, <2>2, <2>3 DEF TypeOK
  <1>3. /\ stage'[s] = label /\ buy'[s] = b /\ sold[s] = {}
        /\ \A t \in Schedule : t # s => /\ stage'[t] = stage[t] /\ buy'[t] = buy[t]
                                        /\ gate'[t] = gate[t]
    BY <1>1 DEF TypeOK, Owned
  <1>4. status[b] = "submitted"
    BY <1>1 DEF Owned
  <1>5. Owned'
    BY <1>1, <1>3 DEF Owned
  <1>6. Sound'
    BY <1>1, <1>3, <1>4 DEF Sound, Landed, Running
  <1>7. Gated'
    BY <1>1, <1>3 DEF Gated
  <1>8. OneSchedulePerPosition'
    <2>1. {t \in Schedule : stage'[t] \in Running} = {t \in Schedule : stage[t] \in Running}
      BY <1>1, <1>3 DEF Running
    <2>2. \A t \in Schedule : stage[t] \in Running => t # s
      BY <1>1 DEF Running
    <2> QED
      BY <1>1, <1>3, <2>1, <2>2 DEF OneSchedulePerPosition
  <1> QED
    BY <1>2, <1>5, <1>6, <1>7, <1>8

LEMMA HandOverInv ==
  ASSUME IInv, NEW s \in Schedule, NEW b \in Buy, HandOver(s, b)
  PROVE IInv'
  <1> USE DEF IInv
  <1>1. /\ stage' = [stage EXCEPT ![s] = "confirming"]
        /\ b \notin Rust /\ b \notin handed /\ stage[s] = "idle" /\ handed' = handed \cup {b}
        /\ buy' = [buy EXCEPT ![s] = b]
        /\ UNCHANGED <<chain, status, remembered, active, step, gate, late, sold, stopped,
                       shutting, faults, stops, restarts>>
    BY DEF HandOver, Goto, limits
  <1>2. TypeOK'
    BY <1>1 DEF TypeOK, Stage
  <1>3. /\ stage'[s] = "confirming" /\ buy'[s] = b /\ sold[s] = {} /\ ~gate[s]
        /\ \A t \in Schedule : t # s => stage'[t] = stage[t] /\ buy'[t] = buy[t]
    BY <1>1 DEF TypeOK, Owned
  <1>4. status[b] = "submitted"
    BY <1>1 DEF Owned
  <1>5. Owned'
    <2>1. \A t \in Schedule : t # s /\ stage[t] # "idle" => buy[t] # b
      BY <1>1 DEF Owned
    <2> QED
      BY <1>1, <1>3, <2>1 DEF Owned
  <1>6. Sound'
    BY <1>1, <1>3, <1>4 DEF Sound, Landed, Running
  <1>7. Gated'
    BY <1>1, <1>3 DEF Gated
  <1>8. OneSchedulePerPosition'
    <2>1. {t \in Schedule : stage'[t] \in Running} = {t \in Schedule : stage[t] \in Running}
      BY <1>1, <1>3 DEF Running
    <2>2. \A t \in Schedule : stage[t] \in Running => t # s
      BY <1>1 DEF Running
    <2> QED
      BY <1>1, <1>3, <2>1, <2>2 DEF OneSchedulePerPosition
  <1> QED
    BY <1>2, <1>5, <1>6, <1>7, <1>8

\* Confirming a buy: its schedule ends, or goes on because the buy landed.
LEMMA AwaitBuyInv ==
  ASSUME IInv, NEW s \in Schedule, AwaitBuy(s)
  PROVE IInv'
  <1>1. PICK label \in {"exits", "done"} :
          stage' = [stage EXCEPT ![s] = label] /\ (label = "exits" => Confirmed(buy[s]))
    BY DEF AwaitBuy, Goto
  <1>2. stage[s] = "confirming" /\ label \notin Running /\ stage[s] \notin Running
    BY DEF AwaitBuy, Running
  <1>3. Labels(s, label)
    BY <1>1, <1>2 DEF Labels, Landed, Confirmed, Stage, IInv, Sound
  <1>4. faults' \in 0 .. MaxFaults
    BY DEF AwaitBuy, limits, IInv, TypeOK
  <1> QED
    BY <1>1, <1>2, <1>3, <1>4, MoveInv DEF AwaitBuy, limits

LEMMA WatchBuyInv ==
  ASSUME IInv, NEW s \in Schedule, WatchBuy(s)
  PROVE IInv'
  <1> USE DEF IInv
  <1>1. PICK v \in Verdict(buy[s]) :
          /\ status' = [status EXCEPT ![buy[s]] = v]
          /\ stage' = [stage EXCEPT ![s] = IF v = "confirmed" THEN "exits" ELSE "done"]
    BY DEF WatchBuy, Goto
  <1>2. /\ stage[s] = "confirming" /\ buy[s] \notin Rust /\ sold[s] = {} /\ buy[s] \in Buy
        /\ UNCHANGED <<chain, remembered, handed, active, buy, step, gate, late, sold, stopped,
                       shutting, faults, stops, restarts>>
    BY DEF WatchBuy, limits, Owned, Sound
  <1>3. v \in {"confirmed", "expired", "failed"} /\ (v = "confirmed" => chain[buy[s]] = "landed")
    BY DEF Verdict, Confirmed
  <1>4. /\ stage'[s] = IF v = "confirmed" THEN "exits" ELSE "done"
        /\ status'[buy[s]] = v
        /\ \A t \in Schedule : t # s => stage'[t] = stage[t]
        /\ \A b \in Buy : b # buy[s] => status'[b] = status[b]
    BY <1>1, <1>2 DEF TypeOK
  <1>5. \A t \in Schedule : t # s /\ stage[t] # "idle" => buy[t] # buy[s] /\ buy[t] \in Buy
    BY <1>2 DEF Owned
  <1>6. TypeOK'
    BY <1>1, <1>2, <1>3 DEF TypeOK, Stage
  <1>7. Owned'
    BY <1>2, <1>4 DEF Owned
  <1>8. Sound'
    <2> SUFFICES ASSUME NEW t \in Schedule
                 PROVE /\ stage'[t] = "confirming" => sold[t] = {} /\ status'[buy[t]] = "submitted"
                       /\ stage'[t] \in Running \cup {"exits"} => Landed(t)'
                       /\ sold[t] # {} => Landed(t)'
                       /\ \A n \in sold[t] : n <= step[t]
                       /\ stage'[t] \in Running \ {"announcing", "top"} => step[t] <= Steps
      BY <1>2 DEF Sound
    <2>1. CASE t = s
      BY <1>2, <1>3, <1>4, <2>1 DEF Sound, Landed, Running
    <2>2. CASE t # s /\ stage[t] # "idle"
      BY <1>2, <1>4, <1>5, <2>2 DEF Sound, Landed
    <2>3. CASE t # s /\ stage[t] = "idle"
      BY <1>2, <1>4, <2>3 DEF Sound, Owned, Running
    <2> QED
      BY <2>1, <2>2, <2>3
  <1>9. Gated'
    BY <1>2, <1>4 DEF Gated
  <1>10. OneSchedulePerPosition'
    <2>1. {t \in Schedule : stage'[t] \in Running} = {t \in Schedule : stage[t] \in Running}
      BY <1>2, <1>4 DEF Running
    <2> QED
      BY <1>2, <2>1 DEF OneSchedulePerPosition
  <1> QED
    BY <1>6, <1>7, <1>8, <1>9, <1>10

\* The position is taken only if no running schedule has it.
LEMMA ExitsInv ==
  ASSUME IInv, NEW s \in Schedule, Exits(s)
  PROVE IInv'
  <1> USE DEF IInv
  <1> DEFINE p == Position[buy[s]]
  <1>0. /\ stage[s] = "exits" /\ buy[s] \in Buy
        /\ UNCHANGED <<chain, status, remembered, handed, buy, step, gate, late, sold, stopped,
                       shutting, faults, stops, restarts>>
    BY DEF Exits, limits, Owned
  <1>1. CASE stage' = [stage EXCEPT ![s] = "done"] /\ active' = active
    <2>1. Labels(s, "done") /\ stage[s] \notin Running /\ "done" \notin Running
      BY <1>0 DEF Labels, Stage, Running, Sound
    <2>2. faults' \in 0 .. MaxFaults
      BY <1>0 DEF TypeOK
    <2> QED
      BY <1>0, <1>1, <2>1, <2>2, MoveInv
  <1>2. CASE /\ p \notin active /\ active' = active \cup {p}
             /\ stage' = [stage EXCEPT ![s] = "announcing"]
    <2>1. TypeOK'
      <3>1. stage' \in [Schedule -> Stage]
        BY <1>2 DEF TypeOK, Stage
      <3>2. active' \subseteq {Position[b] : b \in Buy}
        BY <1>0, <1>2 DEF TypeOK
      <3> QED
        BY <1>0, <3>1, <3>2 DEF TypeOK
    <2>2. /\ stage'[s] = "announcing"
          /\ \A t \in Schedule : t # s => stage'[t] = stage[t]
      BY <1>2 DEF TypeOK
    <2>3. Owned'
      BY <1>0, <2>2 DEF Owned
    <2>4. Sound'
      BY <1>0, <2>2 DEF Sound, Landed
    <2>5. Gated'
      BY <1>0, <2>2 DEF Gated
    <2>6. OneSchedulePerPosition'
      <3>1. {t \in Schedule : stage'[t] \in Running}
              = {t \in Schedule : stage[t] \in Running} \cup {s}
        BY <2>2 DEF Running
      <3>2. \A t \in Schedule : stage[t] \in Running => Position[buy[t]] # p
        BY <1>2 DEF OneSchedulePerPosition
      <3> QED
        BY <1>0, <1>2, <3>1, <3>2 DEF OneSchedulePerPosition
    <2> QED
      BY <2>1, <2>3, <2>4, <2>5, <2>6
  <1> QED
    BY <1>1, <1>2 DEF Exits, Goto, Free

LEMMA AnnouncedInv ==
  ASSUME IInv, NEW s \in Schedule, Announced(s)
  PROVE IInv'
  <1>1. stage[s] = "announcing" /\ stage[s] \in Running /\ "top" \in Running
    BY DEF Announced, Running
  <1>2. Labels(s, "top")
    BY <1>1 DEF Labels, Stage, IInv, Sound
  <1>3. faults' \in 0 .. MaxFaults
    BY DEF Announced, limits, IInv, TypeOK
  <1> QED
    BY <1>1, <1>2, <1>3, MoveInv DEF Announced, Goto, limits

LEMMA TopInv ==
  ASSUME TrailingAssumption, IInv, NEW s \in Schedule, Top(s)
  PROVE IInv'
  <1>1. stage[s] = "top" /\ stage[s] \in Running /\ "delayed" \in Running
    BY DEF Top, Running
  <1>2. /\ faults' \in 0 .. MaxFaults
        /\ UNCHANGED <<chain, status, remembered, handed, buy, gate, late, sold,
                       stopped, shutting, stops, restarts>>
    BY DEF Top, limits, IInv, TypeOK
  <1>3. CASE shutting \/ step[s] > Steps
    BY <1>1, <1>2, <1>3, FinishInv DEF Top
  <1>4. CASE ~(shutting \/ step[s] > Steps)
    <2>1. stage' = [stage EXCEPT ![s] = "delayed"] /\ active' = active /\ step' = step
      BY <1>4 DEF Top, Goto
    <2>2. step[s] \in 1 .. Steps + 1
      BY DEF IInv, TypeOK
    <2>3. step[s] <= Steps
      BY <1>4, <2>2 DEF TrailingAssumption
    <2>4. Labels(s, "delayed")
      BY <1>1, <2>3 DEF Labels, Stage, IInv, Sound
    <2> QED
      BY <1>1, <1>2, <2>1, <2>4, MoveInv
  <1> QED
    BY <1>3, <1>4

\* The live gate is asked: a schedule that goes on does so without a stop.
LEMMA DueInv ==
  ASSUME IInv, NEW s \in Schedule, Due(s)
  PROVE IInv'
  <1>1. PICK label \in {"building", "reporting skip"} :
          stage' = [stage EXCEPT ![s] = label] /\ (label = "building" => ~stopped)
    BY DEF Due, Goto
  <1>2. stage[s] = "delayed" /\ stage[s] \in Running /\ label \in Running
    BY DEF Due, Running
  <1>3. Labels(s, label)
    BY <1>1, <1>2 DEF Labels, Stage, IInv, Sound
  <1>4. faults' \in 0 .. MaxFaults
    BY DEF Due, limits, IInv, TypeOK
  <1> QED
    BY <1>1, <1>2, <1>3, <1>4, MoveInv DEF Due, limits

\* A Rust order passes its captured gate, an own one the live gate.
LEMMA BuiltInv ==
  ASSUME IInv, NEW s \in Schedule, Built(s)
  PROVE IInv'
  <1>1. PICK label \in {"sending", "reporting skip"} :
          stage' = [stage EXCEPT ![s] = label] /\ (label = "sending" => GateOpen(s))
    BY DEF Built, Goto
  <1>2. stage[s] = "building" /\ stage[s] \in Running /\ label \in Running
    BY DEF Built, Running
  <1>3. label = "sending" => ~gate[s] /\ (stopped => s \in late)
    BY <1>1, <1>2 DEF GateOpen, IInv, Owned, Gated
  <1>4. Labels(s, label)
    BY <1>2, <1>3 DEF Labels, Stage, IInv, Sound
  <1>5. faults' \in 0 .. MaxFaults
    BY DEF Built, limits, IInv, TypeOK
  <1> QED
    BY <1>1, <1>2, <1>4, <1>5, MoveInv DEF Built, limits

LEMMA SendSellInv ==
  ASSUME TrailingAssumption, IInv, NEW s \in Schedule, SendSell(s)
  PROVE IInv'
  <1> USE DEF IInv
  <1>1. /\ stage[s] = "sending" /\ stage[s] \in Running
        /\ stage' = [stage EXCEPT ![s] = "reporting"]
        /\ sold' = [sold EXCEPT ![s] = @ \cup {step[s]}]
        /\ UNCHANGED <<chain, status, remembered, handed, active, buy, step, gate, late, stopped,
                       shutting, faults, stops, restarts>>
    BY DEF SendSell, Goto, limits, Running
  <1>2. Landed(s) /\ step[s] \in 1 .. Steps
    <2>1. step[s] \in 1 .. Steps + 1 /\ Steps \in Nat
      BY DEF TypeOK, TrailingAssumption
    <2>2. Landed(s) /\ step[s] <= Steps
      BY <1>1 DEF Sound
    <2> QED
      BY <2>1, <2>2
  <1>3. TypeOK'
    <2>1. sold' \in [Schedule -> SUBSET (1 .. Steps)]
      BY <1>1, <1>2 DEF TypeOK
    <2>2. stage' \in [Schedule -> Stage]
      BY <1>1 DEF TypeOK, Stage
    <2> QED
      BY <1>1, <2>1, <2>2 DEF TypeOK
  <1>4. /\ stage'[s] = "reporting" /\ sold'[s] = sold[s] \cup {step[s]}
        /\ \A t \in Schedule : t # s => stage'[t] = stage[t] /\ sold'[t] = sold[t]
    BY <1>1 DEF TypeOK
  <1>5. Owned'
    BY <1>1, <1>4 DEF Owned
  <1>6. Sound'
    <2> SUFFICES ASSUME NEW t \in Schedule
                 PROVE /\ stage'[t] = "confirming" => sold'[t] = {} /\ status[buy[t]] = "submitted"
                       /\ stage'[t] \in Running \cup {"exits"} => Landed(t)
                       /\ sold'[t] # {} => Landed(t)
                       /\ \A n \in sold'[t] : n <= step[t]
                       /\ stage'[t] \in Running \ {"announcing", "top"} => step[t] <= Steps
      BY <1>1 DEF Sound, Landed
    <2>1. CASE t # s
      BY <1>4, <2>1 DEF Sound
    <2>2. CASE t = s
      <3>1. \A n \in sold'[s] : n <= step[s]
        BY <1>2, <1>4 DEF Sound
      <3> QED
        BY <1>2, <1>4, <2>2, <3>1
    <2> QED
      BY <2>1, <2>2
  <1>7. Gated'
    BY <1>1, <1>4 DEF Gated
  <1>8. OneSchedulePerPosition'
    <2>1. {t \in Schedule : stage'[t] \in Running} = {t \in Schedule : stage[t] \in Running}
      BY <1>1, <1>4 DEF Running
    <2> QED
      BY <1>1, <2>1 DEF OneSchedulePerPosition
  <1> QED
    BY <1>3, <1>5, <1>6, <1>7, <1>8

LEMMA ReportInv ==
  ASSUME TrailingAssumption, IInv, NEW s \in Schedule, Report(s)
  PROVE IInv'
  <1>1. /\ stage[s] \in {"reporting", "reporting skip"}
        /\ stage[s] \in Running \ {"announcing", "top"} /\ "settling" \in Running
        /\ UNCHANGED <<chain, status, remembered, handed, buy, gate, late, sold,
                       stopped, shutting, stops, restarts>>
    BY DEF Report, Running
  <1>2. faults' \in 0 .. MaxFaults
    <2>1. faults \in 0 .. MaxFaults /\ MaxFaults \in Nat
      BY DEF IInv, TypeOK, TrailingAssumption
    <2>2. faults' = faults \/ (faults < MaxFaults /\ faults' = faults + 1)
      BY DEF Report
    <2> QED
      BY <2>1, <2>2
  <1>3. CASE Goto(s, "settling") /\ UNCHANGED <<active, step, faults>>
    <2>1. Labels(s, "settling")
      BY <1>1 DEF Labels, Stage, IInv, Sound
    <2> QED
      BY <1>1, <1>2, <1>3, <2>1, MoveInv DEF Goto
  <1>4. CASE NextStep(s)
    BY <1>1, <1>2, <1>4, NextStepInv
  <1>5. CASE Finish(s)
    BY <1>1, <1>2, <1>5, FinishInv
  <1> QED
    BY <1>3, <1>4, <1>5 DEF Report

LEMMA SettledInv ==
  ASSUME TrailingAssumption, IInv, NEW s \in Schedule, Settled(s)
  PROVE IInv'
  <1>1. /\ stage[s] \in Running \ {"announcing", "top"}
        /\ UNCHANGED <<chain, status, remembered, handed, buy, gate, late, sold,
                       stopped, shutting, stops, restarts>>
    BY DEF Settled, Running, limits
  <1>2. faults' \in 0 .. MaxFaults
    BY DEF Settled, limits, IInv, TypeOK
  <1> QED
    BY <1>1, <1>2, NextStepInv DEF Settled

\* A buy is decided once, so what a schedule knows of its buy stays true.
LEMMA DecideInv ==
  ASSUME IInv, NEW b \in Buy, Decide(b)
  PROVE IInv'
  <1> USE DEF IInv
  <1>1. PICK outcome \in {"landed", "failed"} : chain' = [chain EXCEPT ![b] = outcome]
    BY DEF Decide
  <1>2. /\ chain[b] = "open"
        /\ UNCHANGED <<status, remembered, handed, active, stage, buy, step, gate, late, sold,
                       stopped, shutting, faults, stops, restarts>>
    BY DEF Decide, control, limits
  <1>3. TypeOK'
    BY <1>1, <1>2 DEF TypeOK
  <1>4. \A s \in Schedule : Landed(s) => Landed(s)'
    BY <1>1, <1>2 DEF Landed, TypeOK
  <1>5. Owned' /\ Gated' /\ OneSchedulePerPosition'
    BY <1>2 DEF Owned, Gated, OneSchedulePerPosition
  <1>6. Sound'
    BY <1>2, <1>4 DEF Sound
  <1> QED
    BY <1>3, <1>5, <1>6

LEMMA StopInv ==
  ASSUME TrailingAssumption, IInv, EmergencyStop \/ Resume \/ Shutdown
  PROVE IInv'
  <1> USE DEF IInv
  <1>1. UNCHANGED <<chain, status, remembered, handed, active, stage, buy, step, gate, sold, faults>>
    BY DEF EmergencyStop, Resume, Shutdown, control, limits
  <1>2. TypeOK'
    <2>1. stops' \in 0 .. MaxStops /\ restarts' \in 0 .. MaxRestarts
      <3>1. /\ stops \in 0 .. MaxStops /\ MaxStops \in Nat
            /\ restarts \in 0 .. MaxRestarts /\ MaxRestarts \in Nat
        BY DEF TypeOK, TrailingAssumption
      <3>2. /\ stops' = stops \/ (stops < MaxStops /\ stops' = stops + 1)
            /\ restarts' = restarts \/ (restarts < MaxRestarts /\ restarts' = restarts + 1)
        BY DEF EmergencyStop, Resume, Shutdown, limits
      <3> QED
        BY <3>1, <3>2
    <2>2. remembered' = remembered /\ stopped' \in BOOLEAN /\ shutting' \in BOOLEAN
      BY DEF EmergencyStop, Resume, Shutdown, TypeOK
    <2>3. late' \subseteq Schedule
      BY DEF EmergencyStop, Resume, Shutdown, TypeOK
    <2> QED
      BY <1>1, <2>1, <2>2, <2>3 DEF TypeOK
  <1>3. Owned' /\ Sound' /\ OneSchedulePerPosition'
    BY <1>1 DEF Owned, Sound, Landed, OneSchedulePerPosition
  <1>4. Gated'
    BY <1>1 DEF Gated, EmergencyStop, Resume, Shutdown
  <1> QED
    BY <1>2, <1>3, <1>4

LEMMA RestartInv ==
  ASSUME TrailingAssumption, IInv, Restart
  PROVE IInv'
  <1> USE DEF IInv
  <1>1. /\ stage' = [s \in Schedule |-> IF stage[s] = "idle" THEN "idle" ELSE "done"]
        /\ remembered' = <<>> /\ active' = {} /\ late' = {} /\ shutting' = FALSE
        /\ UNCHANGED <<chain, status, handed, buy, step, gate, sold, stopped, faults, stops, restarts>>
    BY DEF Restart, limits
  <1>2. TypeOK'
    <2>1. remembered' \in Seq(Rust) /\ Len(remembered') <= CacheSize
      BY <1>1, EmptySeq DEF TrailingAssumption
    <2>2. stage' \in [Schedule -> Stage]
      BY <1>1 DEF Stage
    <2> QED
      BY <1>1, <2>1, <2>2 DEF TypeOK
  <1>3. \A s \in Schedule : /\ stage'[s] \in {"idle", "done"}
                            /\ stage'[s] = "idle" <=> stage[s] = "idle"
    BY <1>1
  <1>4. Owned'
    BY <1>1, <1>3 DEF Owned
  <1>5. Sound'
    BY <1>1, <1>3 DEF Sound, Landed, Running
  <1>6. Gated'
    BY <1>3 DEF Gated
  <1>7. OneSchedulePerPosition'
    BY <1>1, <1>3 DEF OneSchedulePerPosition, Running
  <1> QED
    BY <1>2, <1>4, <1>5, <1>6, <1>7

-----------------------------------------------------------------------------

LEMMA Inductive == TrailingAssumption /\ IInv /\ [Next]_vars => IInv'
  <1> SUFFICES ASSUME TrailingAssumption, IInv, [Next]_vars PROVE IInv'
    OBVIOUS
  <1>1. ASSUME NEW s \in Schedule, NEW b \in Buy, PickUp(s, b) \/ HandOver(s, b) PROVE IInv'
    BY <1>1, PickUpInv, HandOverInv
  <1>2. ASSUME NEW s \in Schedule, Step(s) PROVE IInv'
    BY <1>2, AwaitBuyInv, WatchBuyInv, ExitsInv, AnnouncedInv, TopInv, DueInv, BuiltInv,
       SendSellInv, ReportInv, SettledInv DEF Step
  <1>3. ASSUME NEW b \in Buy, Decide(b) PROVE IInv'
    BY <1>3, DecideInv
  <1>4. CASE EmergencyStop \/ Resume \/ Shutdown \/ Restart
    BY <1>4, StopInv, RestartInv
  <1>5. CASE UNCHANGED vars
    BY <1>5 DEF vars, control, limits, IInv, TypeOK, Owned, Sound, Landed, Gated,
                OneSchedulePerPosition
  <1> QED
    BY <1>1, <1>2, <1>3, <1>4, <1>5 DEF Next

THEOREM Invariance ==
  ASSUME TrailingAssumption
  PROVE Spec => []IInv
  <1>1. IInv /\ [Next]_vars => IInv'
    BY Inductive
  <1>2. Init => IInv
    BY InitInv
  <1> QED
    BY <1>1, <1>2, PTL DEF Spec

\* Every schedule is in one of its stages, with a step of its configuration, and
\* the remembered keys never exceed their limit (rememberRustTrailingSellExecution).
THEOREM TypeCorrect ==
  ASSUME TrailingAssumption
  PROVE Spec => []TypeOK
  <1>1. IInv => TypeOK
    BY DEF IInv
  <1> QED
    BY <1>1, Invariance, PTL

\* Two buys of one coin are never sold by overlapping schedules, and no end of a
\* schedule leaves its position taken (activeTrailingSellSchedules).
THEOREM PositionsHeldOnce ==
  ASSUME TrailingAssumption
  PROVE Spec => []OneSchedulePerPosition
  <1>1. IInv => OneSchedulePerPosition
    BY DEF IInv
  <1> QED
    BY <1>1, Invariance, PTL

\* What is sold was bought on chain, in turn, and its record does not deny it
\* (scheduleCopyTradeTrailingSellsAfterConfirmation, watchSubmittedCopyTradeBuy).
THEOREM NothingSoldUnlanded ==
  ASSUME TrailingAssumption
  PROVE Spec => []SoldOnlyAfterLanding
  <1>1. IInv => SoldOnlyAfterLanding
    BY DEF IInv, Sound, Landed, SoldOnlyAfterLanding
  <1> QED
    BY <1>1, Invariance, PTL

\* A sell leaves under an emergency stop only if it was past its gate when the
\* stop was pressed, and never under a captured stop.
THEOREM SellsHeldBack ==
  ASSUME TrailingAssumption
  PROVE Spec => StopHoldsSellsBack
  <1>1. ASSUME IInv, [Next]_vars, NEW s \in Schedule, Sends(s)
        PROVE (~stopped \/ s \in late) /\ ~gate[s]
    <2>1. stage[s] = "sending"
      BY <1>1 DEF Sends, Next, vars, PickUp, HandOver, Step, AwaitBuy, WatchBuy, Exits, Announced,
                  Top, Due, Built, SendSell, Report, Settled, Decide, EmergencyStop, Resume,
                  Shutdown, Restart, IInv, TypeOK
    <2> QED
      BY <1>1, <2>1 DEF IInv, Gated
  <1>2. IInv /\ [Next]_vars =>
          [\A s \in Schedule :
             Sends(s) => /\ ~stopped \/ s \in late
                         /\ ~gate[s]]_vars
    BY <1>1
  <1> QED
    BY <1>2, Invariance, PTL DEF Spec, StopHoldsSellsBack
-----------------------------------------------------------------------------
(* ExecutionQueue *)

QueueInv == Queue!TypeOK /\ Queue!NoLostWakeup

LEMMA QueueInit == Queue!Init => QueueInv
  <1> SUFFICES ASSUME Queue!Init PROVE QueueInv
    OBVIOUS
  <1>1. Queue!TypeOK
    <2>0. high \in Seq(Copy) /\ low \in Seq(Request \ Copy)
      BY EmptySeq DEF Queue!Init
    <2>1. permit \in BOOLEAN /\ busy \in Nat
      BY DEF Queue!Init
    <2>2. mode \in [Worker -> {"popping", "registering", "waiting", "handling", "finishing"}]
      BY DEF Queue!Init
    <2>3. job \in [Worker -> Request \cup {NoRequest}]
      BY DEF Queue!Init
    <2>4. fate \in [Request -> {"new", "written", "dropped", "queued", "taken", "handled"}]
      BY DEF Queue!Init
    <2> QED
      BY <2>0, <2>1, <2>2, <2>3, <2>4 DEF Queue!TypeOK
  <1>2. Queue!NoLostWakeup
    BY DEF Queue!Init, Queue!NoLostWakeup
  <1> QED
    BY <1>1, <1>2 DEF QueueInv

\* A notification wakes a worker, or is stored for the next that registers.
LEMMA Notified ==
  ASSUME Queue!TypeOK, Queue!NotifyOne
  PROVE /\ permit' \in BOOLEAN
        /\ mode' \in [Worker -> {"popping", "registering", "waiting", "handling", "finishing"}]
        /\ permit' \/ \E w \in Worker : mode'[w] = "popping"
  <1>1. CASE Queue!Waiting = {}
    BY <1>1 DEF Queue!NotifyOne, Queue!TypeOK
  <1>2. CASE Queue!Waiting # {}
    <2>1. PICK w \in Queue!Waiting : mode' = [mode EXCEPT ![w] = "popping"]
      BY <1>2 DEF Queue!NotifyOne
    <2>2. w \in Worker
      BY DEF Queue!Waiting
    <2> QED
      BY <1>2, <2>1, <2>2 DEF Queue!NotifyOne, Queue!TypeOK
  <1> QED
    BY <1>1, <1>2

LEMMA EnqueueKeeps ==
  ASSUME QueueInv, NEW r \in Request, Queue!Enqueue(r)
  PROVE QueueInv'
  <1> USE DEF QueueInv
  <1>1. CASE UNCHANGED <<high, low, permit, mode>>
    <2>1. fate' \in [Request -> {"new", "written", "dropped", "queued", "taken", "handled"}]
      BY DEF Queue!Enqueue, Queue!TypeOK
    <2> QED
      BY <1>1, <2>1 DEF Queue!Enqueue, Queue!TypeOK, Queue!NoLostWakeup
  <1>2. CASE ~Queue!Full(r) /\ r \notin Unarmed
    <2>1. /\ fate' = [fate EXCEPT ![r] = "queued"]
          /\ high' = IF r \in Copy THEN Append(high, r) ELSE high
          /\ low' = IF r \in Copy THEN low ELSE Append(low, r)
          /\ Queue!NotifyOne /\ UNCHANGED <<job, busy>>
      BY <1>2 DEF Queue!Enqueue
    <2>2. high' \in Seq(Copy) /\ low' \in Seq(Request \ Copy)
      BY <2>1 DEF Queue!TypeOK
    <2> QED
      BY <2>1, <2>2, Notified DEF Queue!TypeOK, Queue!NoLostWakeup
  <1> QED
    BY <1>1, <1>2 DEF Queue!Enqueue

LEMMA TakeTyped ==
  ASSUME Queue!TypeOK, NEW w \in Worker, NEW r \in Request, Queue!Take(w, r)
  PROVE /\ mode' = [mode EXCEPT ![w] = "handling"]
        /\ job' \in [Worker -> Request \cup {NoRequest}]
        /\ busy' \in Nat
        /\ fate' \in [Request -> {"new", "written", "dropped", "queued", "taken", "handled"}]
  BY DEF Queue!Take, Queue!TypeOK

LEMMA PopKeeps ==
  ASSUME Queue!QueueAssumption, QueueInv, NEW w \in Worker, Queue!Pop(w)
  PROVE QueueInv'
  <1> USE DEF QueueInv
  <1>1. CASE high # <<>> /\ Queue!Take(w, Head(high)) /\ high' = Tail(high) /\ UNCHANGED low
    <2>1. Head(high) \in Request /\ Tail(high) \in Seq(Copy)
      BY <1>1 DEF Queue!TypeOK, Queue!QueueAssumption
    <2>2. Queue!TypeOK' /\ mode'[w] = "handling"
      BY <1>1, <2>1, TakeTyped DEF Queue!Pop, Queue!TypeOK
    <2> QED
      BY <2>2 DEF Queue!NoLostWakeup
  <1>2. CASE low # <<>> /\ Queue!Take(w, Head(low)) /\ low' = Tail(low) /\ UNCHANGED high
    <2>1. Head(low) \in Request /\ Tail(low) \in Seq(Request \ Copy)
      BY <1>2 DEF Queue!TypeOK
    <2>2. Queue!TypeOK' /\ mode'[w] = "handling"
      BY <1>2, <2>1, TakeTyped DEF Queue!Pop, Queue!TypeOK
    <2> QED
      BY <2>2 DEF Queue!NoLostWakeup
  <1>3. CASE /\ high = <<>> /\ low = <<>>
             /\ mode' = [mode EXCEPT ![w] = "registering"]
             /\ UNCHANGED <<high, low, job, fate, busy>>
    BY <1>3 DEF Queue!Pop, Queue!TypeOK, Queue!NoLostWakeup
  <1> QED
    BY <1>1, <1>2, <1>3 DEF Queue!Pop

\* The worker that goes to sleep finds no stored notification; then, by the
\* invariant, another one looks at the queue if there is anything in it.
LEMMA RegisterKeeps ==
  ASSUME QueueInv, NEW w \in Worker, Queue!Register(w)
  PROVE QueueInv'
  <1> USE DEF QueueInv
  <1>1. Queue!TypeOK'
    BY DEF Queue!Register, Queue!TypeOK
  <1>2. CASE permit
    <2>1. mode'[w] = "popping"
      BY <1>2 DEF Queue!Register, Queue!TypeOK
    <2> QED
      BY <1>1, <2>1 DEF Queue!NoLostWakeup
  <1>3. CASE ~permit
    <2> SUFFICES ASSUME high # <<>> \/ low # <<>>
                 PROVE \E v \in Worker : mode'[v] \in {"popping", "handling", "finishing"}
      BY <1>1 DEF Queue!Register, Queue!NoLostWakeup
    <2>1. PICK v \in Worker : mode[v] \in {"popping", "handling", "finishing"}
      BY <1>3 DEF Queue!NoLostWakeup
    <2>2. v # w /\ mode'[v] = mode[v]
      BY <2>1 DEF Queue!Register, Queue!TypeOK
    <2> QED
      BY <2>1, <2>2
  <1> QED
    BY <1>2, <1>3 DEF Queue!TypeOK

LEMMA HandleKeeps ==
  ASSUME QueueInv, NEW w \in Worker, Queue!Handle(w) \/ Queue!FinishWorker(w)
  PROVE QueueInv'
  <1> USE DEF QueueInv
  <1>1. Queue!TypeOK'
    BY DEF Queue!Handle, Queue!FinishWorker, Queue!TypeOK
  <1>2. mode'[w] \in {"popping", "finishing"}
    BY DEF Queue!Handle, Queue!FinishWorker, Queue!TypeOK
  <1> QED
    BY <1>1, <1>2 DEF Queue!NoLostWakeup

LEMMA QueueStep == Queue!QueueAssumption /\ QueueInv /\ [Queue!Next]_(Queue!vars) => QueueInv'
  <1> SUFFICES ASSUME Queue!QueueAssumption, QueueInv, [Queue!Next]_(Queue!vars) PROVE QueueInv'
    OBVIOUS
  <1>1. ASSUME NEW r \in Request, Queue!Enqueue(r) PROVE QueueInv'
    BY <1>1, EnqueueKeeps
  <1>2. ASSUME NEW w \in Worker, Queue!Work(w) PROVE QueueInv'
    BY <1>2, PopKeeps, RegisterKeeps, HandleKeeps DEF Queue!Work
  <1>3. CASE UNCHANGED Queue!vars
    BY <1>3 DEF Queue!vars, QueueInv, Queue!TypeOK, Queue!NoLostWakeup
  <1> QED
    BY <1>1, <1>2, <1>3 DEF Queue!Next

THEOREM QueueInvariance ==
  ASSUME Queue!QueueAssumption
  PROVE Queue!Spec => []QueueInv
  <1>1. QueueInv /\ [Queue!Next]_(Queue!vars) => QueueInv'
    BY QueueStep
  <1> QED
    BY QueueInit, <1>1, PTL DEF Queue!Spec

\* The lanes hold requests of their kind only, and every worker is where its
\* loop can be (live.rs copy_execution_queue_lane, recv).
THEOREM QueueTypeCorrect ==
  ASSUME Queue!QueueAssumption
  PROVE Queue!Spec => []Queue!TypeOK
  <1>1. QueueInv => Queue!TypeOK
    BY DEF QueueInv
  <1> QED
    BY <1>1, QueueInvariance, PTL

LEMMA QueueWakeups == ASSUME Queue!QueueAssumption PROVE Queue!Spec => []Queue!NoLostWakeup
  <1>1. QueueInv => Queue!NoLostWakeup
    BY DEF QueueInv
  <1> QED
    BY <1>1, QueueInvariance, PTL

-----------------------------------------------------------------------------
(* The two together *)

LEMMA PartsMove == [NextOfAll]_allVars => [Next]_vars /\ [Queue!Next]_(Queue!vars)
  BY DEF NextOfAll, QueueNext, SellsNext, FeedsNext, allVars, queueVars, Queue!vars

\* However many workers wait and requests arrive, no request stays in the queue
\* with every worker asleep and no notification stored (recv, try_enqueue).
THEOREM WakeupsKept == SpecOfAll => []NoLostWakeup
  <1>1. InitOfAll => Queue!Init
    BY DEF InitOfAll
  <1>2. Queue!Spec => []Queue!NoLostWakeup
    BY QueueConstants, QueueWakeups
  <1> QED
    BY <1>1, <1>2, PartsMove, PTL DEF SpecOfAll, Queue!Spec, NoLostWakeup

\* The schedules keep what was proved of them when the queue and the feeds
\* run beside them.
THEOREM SchedulesBesideQueue == SpecOfAll => [](OneSchedulePerPosition /\ SoldOnlyAfterLanding)
  <1>1. InitOfAll => Init
    BY DEF InitOfAll
  <1>2. Spec => []OneSchedulePerPosition /\ []SoldOnlyAfterLanding
    BY TrailingConstants, PositionsHeldOnce, NothingSoldUnlanded
  <1> QED
    BY <1>1, <1>2, PartsMove, PTL DEF SpecOfAll, Spec
=============================================================================
