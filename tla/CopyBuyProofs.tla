--------------------------- MODULE CopyBuyProofs ---------------------------
(***************************************************************************)
(* The guards of the copy buy are exact, a coin is bought once by a chat   *)
(* without repeat buys, and an emergency stop holds back what had not yet  *)
(* passed the gate: for any number of chats, signals, deliveries, stops    *)
(* and restarts, and any size of the caches.                               *)
(***************************************************************************)
EXTENDS CopyBuy, FiniteSetTheorems, TLAPS

-----------------------------------------------------------------------------
(* Type correctness *)

\* The caches keep their limit.
LEMMA Remembered ==
  ASSUME NEW S, NEW q \in Seq(S), Len(q) <= CacheSize, NEW key \in S
  PROVE  Remember(q, key) \in Seq(S) /\ Len(Remember(q, key)) <= CacheSize
<1>1. CacheSize \in Nat \ {0}
  BY CopyBuyAssumption
<1>2. CASE Len(q) < CacheSize
  BY <1>1, <1>2 DEF Remember
<1>3. CASE ~(Len(q) < CacheSize)
  <2>1. Len(q) = CacheSize /\ q # <<>>
    BY <1>1, <1>3
  <2>2. Tail(q) \in Seq(S) /\ Len(Tail(q)) = CacheSize - 1
    BY <2>1
  <2> QED
    BY <1>1, <1>3, <2>2 DEF Remember
<1> QED
  BY <1>2, <1>3

LEMMA SpentTyped ==
  ASSUME TypeOK
  PROVE  \A c \in Chat : SpentToday(c) \in Nat /\ SpentToday(c) + Amount[c] \in Nat
BY CopyBuyAssumption DEF TypeOK, SpentToday

LEMMA BeginTyped ==
  ASSUME TypeOK, NEW d \in Delivery, NEW s \in Signal, Begin(d, s)
  PROVE  /\ semantic' \subseteq Chat \X Coin
         /\ spent' \in [Chat -> Nat] /\ budgetDay' \in 0 .. MaxDays
         /\ pc' \in [Order -> Control] /\ holds' \in [Order -> SUBSET {"coin", "tx"}]
<1>1. s.coin \in Coin
  BY DEF Coin
<1>2. \A c \in Chat : FirstAwait(c, s) \in Control
  BY DEF FirstAwait, Control
<1>3. \A o \in Order : o[2] \in Chat
  BY DEF Order
<1>4. semantic' \subseteq Chat \X Coin
  BY <1>1 DEF Begin, TypeOK
<1>5. spent' \in [Chat -> Nat] /\ budgetDay' \in 0 .. MaxDays
  <2>1. today \in 0 .. MaxDays
    BY CopyBuyAssumption DEF TypeOK
  <2> QED
    BY <2>1, SpentTyped DEF Begin
<1>6. pc' \in [Order -> Control]
  BY <1>2, <1>3 DEF Begin, TypeOK
<1>7. holds' \in [Order -> SUBSET {"coin", "tx"}]
  BY DEF Begin, TypeOK
<1> QED
  BY <1>4, <1>5, <1>6, <1>7

LEMMA ReleasedTyped ==
  ASSUME TypeOK, NEW o \in Order, Released(o)
  PROVE  /\ semantic' \subseteq semantic /\ inflight' \subseteq inflight
         /\ holds' \in [Order -> SUBSET {"coin", "tx"}]
BY DEF TypeOK, Released

LEMMA KeysTyped ==
  ASSUME TypeOK, NEW o \in Order, signal[o[1]] # NoSignal
  PROVE  CoinKey(o) \in Chat \X Coin /\ TxKey(o) \in Chat \X Tx
BY DEF TypeOK, Order, CoinKey, TxKey, Coin, Tx

LEMMA TypeStep == IInv /\ [Next]_vars => TypeOK'
<1> SUFFICES ASSUME IInv, [Next]_vars PROVE TypeOK'
  OBVIOUS
<1>0. TypeOK
  BY DEF IInv
<1> USE DEF memory, runs, fates, world, Goto
<1>1. ASSUME NEW d \in Delivery, NEW s \in Signal, Race(d, s) PROVE TypeOK'
  <2>1. raced' \in Seq(Signal) /\ Len(raced') <= CacheSize
    BY <1>0, <1>1, Remembered DEF TypeOK, Race
  <2>2. CASE s.tx \in Members(seen)
    BY <1>0, <1>1, <2>1, <2>2 DEF TypeOK, Race
  <2>3. CASE s.tx \notin Members(seen)
    <3>1. s.tx \in Tx
      BY DEF Tx
    <3>2. seen' \in Seq(Tx) /\ Len(seen') <= CacheSize
      BY <1>0, <1>1, <2>3, <3>1, Remembered DEF TypeOK, Race
    <3>3. Begin(d, s) /\ signal' \in [Delivery -> Signal \cup {NoSignal}]
      BY <1>0, <1>1, <2>3 DEF TypeOK, Race
    <3> QED
      BY <1>0, <1>1, <2>1, <3>2, <3>3, BeginTyped DEF TypeOK, Race
  <2> QED
    BY <2>2, <2>3
<1>2. ASSUME NEW d \in Delivery, NEW s \in Signal, Receive(d, s) PROVE TypeOK'
  <2>1. s.tx \in Tx
    BY DEF Tx
  <2>2. seen' \in Seq(Tx) /\ Len(seen') <= CacheSize
    BY <1>0, <1>2, <2>1, Remembered DEF TypeOK, Receive
  <2>3. signal' \in [Delivery -> Signal \cup {NoSignal}] /\ pc' \in [Order -> Control]
    BY <1>0, <1>2 DEF TypeOK, Receive, Control
  <2> QED
    BY <1>0, <1>2, <2>2, <2>3 DEF TypeOK, Receive
<1>3. ASSUME NEW d \in Delivery, Start(d) PROVE TypeOK'
  <2>1. CASE signal[d] \in Signal
    BY <1>0, <1>3, <2>1, BeginTyped DEF TypeOK, Start
  <2>2. CASE signal[d] \notin Signal
    <3>1. Chat = {}
      <4>1. SUFFICES ASSUME NEW c \in Chat PROVE FALSE
        OBVIOUS
      <4>2. <<d, c>> \in Order /\ pc[<<d, c>>] = "received"
        BY <1>3 DEF Order, Start
      <4> QED
        BY <1>0, <2>2, <4>2 DEF IInv, OrderInv, TypeOK
    <3>2. Order = {}
      BY <3>1 DEF Order
    <3>3. /\ semantic' = semantic /\ pc' = [o \in Order |-> "idle"]
          /\ holds' = [o \in Order |-> {}] /\ spent' = [c \in Chat |-> 0]
          /\ budgetDay' = today
      BY <1>3, <3>1, <3>2 DEF Start, Begin
    <3> QED
      BY <1>0, <1>3, <3>1, <3>2, <3>3, CopyBuyAssumption DEF TypeOK, Start
  <2> QED
    BY <2>1, <2>2
<1>4. ASSUME NEW o \in Order, ReserveBlocked(o) \/ Build(o) PROVE TypeOK'
  BY <1>0, <1>4 DEF TypeOK, ReserveBlocked, Build, Control
<1>5. ASSUME NEW o \in Order, AlreadyInFlight(o) \/ Finish(o) PROVE TypeOK'
  BY <1>0, <1>5, ReleasedTyped DEF TypeOK, AlreadyInFlight, Finish, Control
<1>6. ASSUME NEW o \in Order, Reserve(o) PROVE TypeOK'
  <2>1. TxKey(o) \in Chat \X Tx
    BY <1>0, <1>6, KeysTyped DEF IInv, OrderInv, Reserve
  <2>2. /\ inflight' \subseteq Chat \X Tx
        /\ holds' \in [Order -> SUBSET {"coin", "tx"}]
        /\ pc' \in [Order -> Control]
    BY <1>0, <1>6, <2>1 DEF TypeOK, Reserve, Control
  <2>3. spent' \in [Chat -> Nat]
    <3>1. \A c \in Chat : SpentToday(c) + (IF c = o[2] THEN Amount[c] ELSE 0) \in Nat
      BY <1>0, SpentTyped
    <3>2. \/ spent' = spent
          \/ spent' = [c \in Chat |-> SpentToday(c)]
          \/ spent' = [c \in Chat |-> SpentToday(c) + (IF c = o[2] THEN Amount[c] ELSE 0)]
      BY <1>6 DEF Reserve
    <3>3. spent \in [Chat -> Nat] /\ \A c \in Chat : SpentToday(c) \in Nat
      BY <1>0, SpentTyped DEF TypeOK
    <3> HIDE DEF SpentToday
    <3> QED
      BY <3>1, <3>2, <3>3
  <2>4. budgetDay' \in 0 .. MaxDays /\ reservedOn' \in [Order -> 0 .. MaxDays]
    <3>1. today \in 0 .. MaxDays /\ budgetDay \in 0 .. MaxDays
            /\ reservedOn \in [Order -> 0 .. MaxDays]
      BY <1>0, CopyBuyAssumption DEF TypeOK
    <3>2. budgetDay' \in {budgetDay, today}
      BY <1>6 DEF Reserve
    <3>3. reservedOn' = reservedOn \/ reservedOn' = [reservedOn EXCEPT ![o] = today]
      BY <1>6 DEF Reserve
    <3> QED
      BY <3>1, <3>2, <3>3
  <2> QED
    BY <1>0, <1>6, <2>2, <2>3, <2>4 DEF TypeOK, Reserve
<1>7. ASSUME NEW o \in Order, Send(o) PROVE TypeOK'
  <2>1. pc' \in [Order -> Control] /\ chain' \in [Order -> Fate]
    BY <1>0, <1>7 DEF TypeOK, Send, Control, Fate
  <2>2. lost' \subseteq Order
    BY <1>0, <1>7 DEF TypeOK, Send
  <2> QED
    BY <1>0, <1>7, <2>1, <2>2 DEF TypeOK, Send
<1>8. ASSUME NEW o \in Order, Confirm(o) PROVE TypeOK'
  BY <1>0, <1>8 DEF TypeOK, Confirm, Control
<1>9. ASSUME NEW o \in Order, Decide(o) PROVE TypeOK'
  BY <1>0, <1>9 DEF TypeOK, Decide, Fate
<1>10. CASE NextDay
  BY <1>0, <1>10, CopyBuyAssumption DEF TypeOK, NextDay
<1>11. CASE EmergencyStop \/ Resume
  <2>1. stopped' \in BOOLEAN /\ letThrough' \subseteq Order
    BY <1>0, <1>11 DEF TypeOK, EmergencyStop, Resume
  <2>2. stops' \in 0 .. MaxStops
    BY <1>0, <1>11, CopyBuyAssumption DEF TypeOK, EmergencyStop, Resume
  <2> QED
    BY <1>0, <1>11, <2>1, <2>2 DEF TypeOK, EmergencyStop, Resume
<1>12. CASE Restart
  <2>1. <<>> \in Seq(Signal) /\ <<>> \in Seq(Tx) /\ Len(<<>>) <= CacheSize
    BY CopyBuyAssumption
  <2>2. pc' \in [Order -> Control]
    BY <1>0, <1>12 DEF TypeOK, Restart, Control
  <2> QED
    BY <1>0, <1>12, <2>1, <2>2, CopyBuyAssumption DEF TypeOK, Restart
<1>13. CASE UNCHANGED vars
  BY <1>0, <1>13 DEF TypeOK, vars
<1> QED
  BY <1>1, <1>2, <1>3, <1>4, <1>5, <1>6, <1>7, <1>8, <1>9, <1>10, <1>11, <1>12, <1>13
     DEF Next, Step

-----------------------------------------------------------------------------
(* One order *)

\* What a run decides before its first await.
LEMMA BeginOrdered ==
  ASSUME TypeOK, NEW d \in Delivery, NEW s \in Signal, Begin(d, s),
         NEW x \in Order, OrderInv(x), x[1] = d, d \notin past,
         pc[x] \in {"idle", "received"}, signal'[d] # NoSignal, UNCHANGED <<ok, chain, world>>
  PROVE  OrderInv(x)'
<1>1. holds[x] = {} /\ x \notin ok /\ chain[x] = "none"
  BY DEF OrderInv, Ended, TypeOK
<1>2. pc'[x] = FirstAwait(x[2], s)
  BY DEF Begin
<1>3. holds'[x] = IF TakesCoin(x[2], s) THEN {"coin"} ELSE {}
  BY <1>1 DEF Begin
<1>4. pc'[x] \in {"skipping", "coinHandled", "balance"}
  BY <1>2 DEF FirstAwait
<1>5. pc'[x] = "coinHandled" => ~TakesCoin(x[2], s)
  BY <1>2 DEF FirstAwait
<1>6. pc'[x] = "balance" /\ x[2] \notin Repeat => TakesCoin(x[2], s)
  BY <1>2 DEF FirstAwait
<1>7. TakesCoin(x[2], s) => x[2] \notin Repeat
  BY DEF TakesCoin
<1>8. x \notin ok' /\ chain'[x] = "none" /\ x[1] \notin past'
  BY <1>1 DEF world
<1> HIDE DEF TakesCoin, FirstAwait
<1> QED
  BY <1>3, <1>4, <1>5, <1>6, <1>7, <1>8 DEF OrderInv, Ended

\* A run that is on its way belongs to this process and has its signal.
LEMMA RunsAreLive ==
  ASSUME IInv, NEW o \in Order, pc[o] \notin Ended
  PROVE  o \in Live
BY DEF IInv, OrderInv, Live, Ended

LEMMA OrderStep == IInv /\ [Next]_vars => \A x \in Order : OrderInv(x)'
<1> SUFFICES ASSUME IInv, [Next]_vars, NEW x \in Order PROVE OrderInv(x)'
  OBVIOUS
<1>0. TypeOK /\ OrderInv(x) /\ x[1] \in Delivery
  BY DEF IInv, Order
<1> USE DEF memory, runs, fates, world, Goto
<1>1. ASSUME NEW d \in Delivery, NEW s \in Signal, Race(d, s) PROVE OrderInv(x)'
  <2>1. CASE s.tx \in Members(seen)
    BY <1>0, <1>1, <2>1 DEF Race, OrderInv
  <2>2. CASE s.tx \notin Members(seen)
    <3>1. Begin(d, s) /\ signal' = [signal EXCEPT ![d] = s] /\ signal[d] = NoSignal
      BY <1>1, <2>2 DEF Race
    <3>2. UNCHANGED <<ok, chain, world>>
      BY <1>1 DEF Race
    <3>3. CASE x[1] = d
      <4>1. pc[x] = "idle" /\ d \notin past
        BY <1>0, <3>1, <3>3 DEF OrderInv
      <4>2. signal'[d] # NoSignal
        BY <1>0, <3>1, CopyBuyAssumption DEF TypeOK
      <4> QED
        BY <1>0, <3>1, <3>2, <3>3, <4>1, <4>2, BeginOrdered
    <3>4. CASE x[1] # d
      <4>1. pc'[x] = pc[x] /\ holds'[x] = holds[x] /\ signal'[x[1]] = signal[x[1]]
        BY <1>0, <3>1, <3>4 DEF Begin, TypeOK
      <4> QED
        BY <1>0, <3>2, <4>1 DEF OrderInv
    <3> QED
      BY <3>3, <3>4
  <2> QED
    BY <2>1, <2>2
<1>2. ASSUME NEW d \in Delivery, NEW s \in Signal, Receive(d, s) PROVE OrderInv(x)'
  <2>1. signal' = [signal EXCEPT ![d] = s] /\ signal[d] = NoSignal
    BY <1>2 DEF Receive
  <2>2. UNCHANGED <<holds, ok, chain, world>>
    BY <1>2 DEF Receive
  <2>3. CASE x[1] = d
    <3>1. pc[x] = "idle" /\ d \notin past /\ holds[x] = {}
      BY <1>0, <2>1, <2>3 DEF OrderInv, Ended
    <3>2. x \notin ok /\ chain[x] = "none"
      BY <1>0, <3>1 DEF OrderInv, TypeOK
    <3>3. pc'[x] = "received" /\ signal'[x[1]] # NoSignal
      BY <1>0, <1>2, <2>1, <2>3, CopyBuyAssumption DEF Receive, TypeOK
    <3> QED
      BY <2>2, <2>3, <3>1, <3>2, <3>3 DEF OrderInv, Ended
  <2>4. CASE x[1] # d
    <3>1. pc'[x] = pc[x] /\ signal'[x[1]] = signal[x[1]]
      BY <1>0, <1>2, <2>1, <2>4 DEF Receive, TypeOK
    <3> QED
      BY <1>0, <2>2, <3>1 DEF OrderInv
  <2> QED
    BY <2>3, <2>4
<1>3. ASSUME NEW d \in Delivery, Start(d) PROVE OrderInv(x)'
  <2>1. Begin(d, signal[d]) /\ UNCHANGED <<signal, ok, chain, world>>
    BY <1>3 DEF Start
  <2>2. CASE x[1] = d
    <3>1. x = <<d, x[2]>> /\ x[2] \in Chat
      BY <2>2 DEF Order
    <3>2. pc[x] = "received"
      BY <1>3, <3>1 DEF Start
    <3>3. signal[d] \in Signal /\ signal[d] # NoSignal /\ d \notin past
      BY <1>0, <2>2, <3>2 DEF OrderInv, TypeOK, Ended
    <3> QED
      BY <1>0, <2>1, <2>2, <3>2, <3>3, BeginOrdered
  <2>3. CASE x[1] # d
    <3>1. pc'[x] = pc[x] /\ holds'[x] = holds[x]
      BY <1>0, <2>1, <2>3 DEF Begin, TypeOK
    <3> QED
      BY <1>0, <2>1, <3>1 DEF OrderInv
  <2> QED
    BY <2>2, <2>3
<1>4. ASSUME NEW o \in Order, ReserveBlocked(o) \/ Build(o) PROVE OrderInv(x)'
  <2>1. o # x => pc'[x] = pc[x]
    BY <1>0, <1>4 DEF ReserveBlocked, Build, TypeOK
  <2>2. UNCHANGED <<signal, holds, ok, chain, world>>
    BY <1>4 DEF ReserveBlocked, Build
  <2>3. CASE o # x
    BY <1>0, <2>1, <2>2, <2>3 DEF OrderInv
  <2>4. CASE o = x /\ ReserveBlocked(o)
    <3>1. pc[x] = "balance" /\ pc'[x] = "skipping"
      BY <1>0, <2>4 DEF ReserveBlocked, TypeOK
    <3> QED
      BY <1>0, <2>2, <3>1 DEF OrderInv, Ended
  <2>5. CASE o = x /\ Build(o)
    <3>1. /\ pc[x] = "building"
          /\ pc'[x] = "recording" \/ (pc'[x] = "sending" /\ ~stopped)
      BY <1>0, <2>5 DEF Build, GatePassed, TypeOK
    <3> QED
      BY <1>0, <2>2, <3>1 DEF OrderInv, Ended
  <2> QED
    BY <1>4, <2>3, <2>4, <2>5
<1>5. ASSUME NEW o \in Order, AlreadyInFlight(o) \/ Finish(o) PROVE OrderInv(x)'
  <2>1. UNCHANGED <<signal, ok, chain, world>>
    BY <1>5 DEF AlreadyInFlight, Finish
  <2>2. holds' = [holds EXCEPT ![o] = {}] /\ pc' = [pc EXCEPT ![o] = "done"]
    BY <1>5 DEF AlreadyInFlight, Finish, Released
  <2>3. CASE o # x
    BY <1>0, <2>1, <2>2, <2>3 DEF OrderInv, TypeOK
  <2>4. CASE o = x
    <3>1. pc[x] \in {"balance", "skipping", "recording"}
      BY <1>5, <2>4 DEF AlreadyInFlight, Finish
    <3>2. pc'[x] = "done" /\ holds'[x] = {}
      BY <1>0, <2>2, <2>4 DEF TypeOK
    <3> QED
      BY <1>0, <2>1, <3>1, <3>2 DEF OrderInv, Ended
  <2> QED
    BY <2>3, <2>4
<1>6. ASSUME NEW o \in Order, Reserve(o) PROVE OrderInv(x)'
  <2>1. UNCHANGED <<signal, ok, chain, world>>
    BY <1>6 DEF Reserve
  <2>2. /\ holds' = [holds EXCEPT ![o] = @ \cup {"tx"}]
        /\ pc[o] = "balance"
        /\ pc' = [pc EXCEPT ![o] = "skipping"] \/ pc' = [pc EXCEPT ![o] = "building"]
    BY <1>6 DEF Reserve
  <2>3. CASE o # x
    BY <1>0, <2>1, <2>2, <2>3 DEF OrderInv, TypeOK
  <2>4. CASE o = x
    <3>1. pc'[x] \in {"skipping", "building"} /\ holds'[x] = holds[x] \cup {"tx"}
      BY <1>0, <2>2, <2>4 DEF TypeOK
    <3> QED
      BY <1>0, <2>1, <2>2, <2>4, <3>1 DEF OrderInv, Ended
  <2> QED
    BY <2>3, <2>4
<1>7. ASSUME NEW o \in Order, Send(o) PROVE OrderInv(x)'
  <2>1. UNCHANGED <<signal, holds, ok, world>>
    BY <1>7 DEF Send
  <2>2. CASE o # x
    <3>1. pc'[x] = pc[x] /\ chain'[x] = chain[x]
      BY <1>0, <1>7, <2>2 DEF Send, TypeOK
    <3> QED
      BY <1>0, <2>1, <3>1 DEF OrderInv
  <2>3. CASE o = x
    <3>1. pc[x] = "sending" /\ pc'[x] \in {"recording", "confirming"}
      BY <1>0, <1>7, <2>3 DEF Send, TypeOK
    <3> QED
      BY <1>0, <2>1, <3>1 DEF OrderInv, Ended
  <2> QED
    BY <2>2, <2>3
<1>8. ASSUME NEW o \in Order, Confirm(o) PROVE OrderInv(x)'
  <2>1. UNCHANGED <<signal, holds, chain, world>> /\ (ok' = ok \/ ok' = ok \cup {o})
    BY <1>8 DEF Confirm
  <2>2. CASE o # x
    <3>1. pc'[x] = pc[x] /\ (x \in ok' <=> x \in ok)
      BY <1>0, <1>8, <2>1, <2>2 DEF Confirm, TypeOK
    <3> QED
      BY <1>0, <2>1, <3>1 DEF OrderInv
  <2>3. CASE o = x
    <3>1. pc[x] = "confirming" /\ pc'[x] = "recording"
      BY <1>0, <1>8, <2>3 DEF Confirm, TypeOK
    <3> QED
      BY <1>0, <2>1, <3>1 DEF OrderInv, Ended
  <2> QED
    BY <2>2, <2>3
<1>9. ASSUME NEW o \in Order, Decide(o) PROVE OrderInv(x)'
  <2>1. UNCHANGED <<signal, pc, holds, ok, world>>
    BY <1>9 DEF Decide
  <2>2. chain'[x] = chain[x] \/ chain[x] = "flying"
    BY <1>0, <1>9 DEF Decide, TypeOK
  <2> QED
    BY <1>0, <2>1, <2>2 DEF OrderInv
<1>10. CASE NextDay
  BY <1>0, <1>10 DEF OrderInv, NextDay
<1>11. CASE EmergencyStop \/ Resume
  <2>1. UNCHANGED <<signal, pc, holds, ok, chain, past>>
    BY <1>11 DEF EmergencyStop, Resume
  <2>2. stopped' /\ pc[x] = "sending" => x \in letThrough'
    BY <1>11 DEF EmergencyStop, Resume
  <2> QED
    BY <1>0, <2>1, <2>2 DEF OrderInv
<1>12. CASE Restart
  <2>1. UNCHANGED <<signal, ok, chain, stopped, letThrough>>
    BY <1>12 DEF Restart
  <2>2. holds'[x] = {} /\ (pc'[x] = IF pc[x] \in Ended THEN pc[x] ELSE "gone")
    BY <1>12 DEF Restart
  <2>3. x[1] \in past' => signal[x[1]] # NoSignal
    BY <1>12 DEF Restart
  <2>4. pc'[x] \in Ended
    BY <2>2 DEF Ended
  <2> QED
    BY <1>0, <2>1, <2>2, <2>3, <2>4 DEF OrderInv, Ended
<1>13. CASE UNCHANGED vars
  BY <1>0, <1>13 DEF OrderInv, vars
<1> QED
  BY <1>1, <1>2, <1>3, <1>4, <1>5, <1>6, <1>7, <1>8, <1>9, <1>10, <1>11, <1>12, <1>13
     DEF Next, Step

-----------------------------------------------------------------------------
(* The guards *)

\* A step that changes neither a guard nor who holds one.
LEMMA GuardFrame ==
  ASSUME GuardInv, UNCHANGED <<semantic, inflight>>,
         \A x \in Order : (Reserves(x)' <=> Reserves(x)) /\ (Flies(x)' <=> Flies(x)),
         \A x \in Order : Reserves(x) => CoinKey(x)' = CoinKey(x),
         \A x \in Order : Flies(x) => TxKey(x)' = TxKey(x)
  PROVE  GuardInv'
<1> HIDE DEF Reserves, Flies, CoinKey, TxKey
<1> QED
  BY DEF GuardInv

LEMMA GuardUnchanged ==
  ASSUME GuardInv, UNCHANGED <<semantic, inflight, signal, holds, ok, past>>
  PROVE  GuardInv'
<1>1. \A x \in Order : (Reserves(x)' <=> Reserves(x)) /\ (Flies(x)' <=> Flies(x))
  BY DEF Reserves, Flies, Live
<1>2. \A x \in Order : CoinKey(x)' = CoinKey(x) /\ TxKey(x)' = TxKey(x)
  BY DEF CoinKey, TxKey
<1> QED
  BY <1>1, <1>2, GuardFrame

\* Every chat that reserves the coin of a signal found it free.
LEMMA BeginGuards ==
  ASSUME TypeOK, GuardInv, NEW d \in Delivery, NEW s \in Signal, Begin(d, s),
         signal' = [signal EXCEPT ![d] = s],
         \A x \in Order : x[1] = d => holds[x] = {} /\ x \notin ok,
         d \notin past, UNCHANGED <<inflight, ok, past>>
  PROVE  GuardInv'
<1>0. s # NoSignal /\ \A x \in Order : x[1] \in Delivery /\ x[2] \in Chat /\ x = <<x[1], x[2]>>
  BY CopyBuyAssumption DEF Order
<1>1. \A x \in Order : x[1] # d => /\ Reserves(x)' <=> Reserves(x)
                                   /\ Flies(x)' <=> Flies(x)
                                   /\ CoinKey(x)' = CoinKey(x) /\ TxKey(x)' = TxKey(x)
  BY <1>0 DEF TypeOK, Begin, Reserves, Flies, Live, CoinKey, TxKey
<1>2. \A x \in Order : x[1] = d => /\ ~Reserves(x) /\ ~Flies(x) /\ ~Flies(x)'
                                   /\ Reserves(x)' <=> TakesCoin(x[2], s)
                                   /\ CoinKey(x)' = <<x[2], s.coin>>
  <2> SUFFICES ASSUME NEW x \in Order, x[1] = d
               PROVE  /\ ~Reserves(x) /\ ~Flies(x) /\ ~Flies(x)'
                      /\ Reserves(x)' <=> TakesCoin(x[2], s)
                      /\ CoinKey(x)' = <<x[2], s.coin>>
    OBVIOUS
  <2>1. holds[x] = {} /\ x \notin ok /\ signal'[x[1]] = s
    BY <1>0 DEF TypeOK
  <2>2. holds'[x] = IF TakesCoin(x[2], s) THEN {"coin"} ELSE {}
    BY <2>1 DEF Begin
  <2>3. x \in Live' /\ x \notin ok'
    BY <1>0, <2>1 DEF Live
  <2> HIDE DEF TakesCoin
  <2>4. Reserves(x)' <=> TakesCoin(x[2], s)
    BY <2>2, <2>3 DEF Reserves
  <2>5. ~Flies(x)'
    BY <2>2 DEF Flies
  <2> QED
    BY <2>1, <2>4, <2>5 DEF Reserves, Flies, CoinKey
<1>3. \A c \in Chat : TakesCoin(c, s) => <<c, s.coin>> \notin semantic
  BY DEF TakesCoin
<1>4. semantic' = semantic \cup {<<c, s.coin>> : c \in {y \in Chat : TakesCoin(y, s)}}
  BY DEF Begin
<1>5. \A c \in Chat : <<d, c>> \in Order /\ <<d, c>>[1] = d /\ <<d, c>>[2] = c
  BY DEF Order
<1> HIDE DEF Reserves, Flies, CoinKey, TxKey, TakesCoin
<1>6. \A x \in Order : Reserves(x)' => CoinKey(x)' \in semantic'
  BY <1>0, <1>1, <1>2, <1>4 DEF GuardInv
<1>7. \A k \in semantic' : \E x \in Order : Reserves(x)' /\ CoinKey(x)' = k
  <2> SUFFICES ASSUME NEW k \in semantic'
               PROVE  \E x \in Order : Reserves(x)' /\ CoinKey(x)' = k
    OBVIOUS
  <2>1. CASE k \in semantic
    <3>1. PICK x \in Order : Reserves(x) /\ CoinKey(x) = k
      BY <2>1 DEF GuardInv
    <3> QED
      BY <1>1, <1>2, <3>1
  <2>2. CASE k \notin semantic
    <3>1. PICK c \in Chat : TakesCoin(c, s) /\ k = <<c, s.coin>>
      BY <1>4, <2>2
    <3>2. Reserves(<<d, c>>)' /\ CoinKey(<<d, c>>)' = k
      BY <1>2, <1>5, <3>1
    <3> QED
      BY <1>5, <3>2
  <2> QED
    BY <2>1, <2>2
<1>8. \A o, q \in Order : o # q /\ Reserves(o)' /\ Reserves(q)' => CoinKey(o)' # CoinKey(q)'
  <2> SUFFICES ASSUME NEW o \in Order, NEW q \in Order, o # q, Reserves(o)', Reserves(q)'
               PROVE  CoinKey(o)' # CoinKey(q)'
    OBVIOUS
  <2>1. CASE o[1] # d /\ q[1] # d
    BY <1>1, <2>1 DEF GuardInv
  <2>2. CASE o[1] = d /\ q[1] # d
    <3>1. CoinKey(o)' \notin semantic /\ CoinKey(q)' \in semantic
      BY <1>0, <1>1, <1>2, <1>3, <2>2 DEF GuardInv
    <3> QED
      BY <3>1
  <2>3. CASE o[1] # d /\ q[1] = d
    <3>1. CoinKey(q)' \notin semantic /\ CoinKey(o)' \in semantic
      BY <1>0, <1>1, <1>2, <1>3, <2>3 DEF GuardInv
    <3> QED
      BY <3>1
  <2>4. CASE o[1] = d /\ q[1] = d
    BY <1>0, <1>2, <2>4
  <2> QED
    BY <2>1, <2>2, <2>3, <2>4
<1>9. \A x \in Order : (Flies(x)' <=> Flies(x)) /\ (Flies(x) => TxKey(x)' = TxKey(x))
  BY <1>1, <1>2
<1> QED
  BY <1>6, <1>7, <1>8, <1>9 DEF GuardInv

\* finally frees the reservations of its own run only.
LEMMA ReleasedGuards ==
  ASSUME IInv, NEW o \in Order, pc[o] \notin Ended, Released(o), UNCHANGED <<signal, ok, past>>
  PROVE  GuardInv'
<1>0. TypeOK /\ GuardInv /\ OrderInv(o) /\ o \in Live
  BY RunsAreLive DEF IInv
<1>1. \A x \in Order : CoinKey(x)' = CoinKey(x) /\ TxKey(x)' = TxKey(x)
  BY DEF CoinKey, TxKey
<1>2. \A x \in Order : x # o => (Reserves(x)' <=> Reserves(x)) /\ (Flies(x)' <=> Flies(x))
  BY <1>0 DEF TypeOK, Released, Reserves, Flies, Live
<1>3. holds'[o] = {}
  BY <1>0 DEF Released, TypeOK
<1>4. ~Flies(o)'
  BY <1>3 DEF Flies
<1>5. inflight' = IF Flies(o) THEN inflight \ {TxKey(o)} ELSE inflight
  BY <1>0 DEF Released, Flies
<1>6. \/ ~Reserves(o)' /\ Reserves(o) /\ semantic' = semantic \ {CoinKey(o)}
      \/ (Reserves(o)' <=> Reserves(o)) /\ semantic' = semantic
  BY <1>0, <1>3 DEF Released, Reserves, OrderInv, Live
<1> HIDE DEF Reserves, Flies, CoinKey, TxKey
<1>7. /\ \A x \in Order : Flies(x)' => TxKey(x)' \in inflight'
      /\ \A k \in inflight' : \E x \in Order : Flies(x)' /\ TxKey(x)' = k
      /\ \A x, q \in Order : x # q /\ Flies(x)' /\ Flies(q)' => TxKey(x)' # TxKey(q)'
  BY <1>0, <1>1, <1>2, <1>4, <1>5 DEF GuardInv
<1>8. /\ \A x \in Order : Reserves(x)' => CoinKey(x)' \in semantic'
      /\ \A k \in semantic' : \E x \in Order : Reserves(x)' /\ CoinKey(x)' = k
      /\ \A x, q \in Order : x # q /\ Reserves(x)' /\ Reserves(q)' => CoinKey(x)' # CoinKey(q)'
  BY <1>0, <1>1, <1>2, <1>6 DEF GuardInv
<1> QED
  BY <1>7, <1>8 DEF GuardInv

LEMMA ReserveGuards ==
  ASSUME IInv, NEW o \in Order, Reserve(o)
  PROVE  GuardInv'
<1>0. TypeOK /\ GuardInv /\ OrderInv(o) /\ o \in Live
  BY RunsAreLive DEF IInv, Reserve, Ended
<1>1. /\ TxKey(o) \notin inflight /\ inflight' = inflight \cup {TxKey(o)}
      /\ holds' = [holds EXCEPT ![o] = @ \cup {"tx"}]
      /\ UNCHANGED <<semantic, signal, ok, past>>
  BY DEF Reserve, world
<1>2. \A x \in Order : CoinKey(x)' = CoinKey(x) /\ TxKey(x)' = TxKey(x)
  BY <1>1 DEF CoinKey, TxKey
<1>3. \A x \in Order : Reserves(x)' <=> Reserves(x)
  BY <1>0, <1>1 DEF TypeOK, Reserves, Live
<1>4. \A x \in Order : Flies(x)' <=> Flies(x) \/ x = o
  BY <1>0, <1>1 DEF TypeOK, Flies, Live
<1> HIDE DEF Reserves, Flies, CoinKey, TxKey
<1>5. /\ \A x \in Order : Flies(x)' => TxKey(x)' \in inflight'
      /\ \A k \in inflight' : \E x \in Order : Flies(x)' /\ TxKey(x)' = k
      /\ \A x, q \in Order : x # q /\ Flies(x)' /\ Flies(q)' => TxKey(x)' # TxKey(q)'
  BY <1>0, <1>1, <1>2, <1>4 DEF GuardInv
<1> QED
  BY <1>0, <1>1, <1>2, <1>3, <1>5 DEF GuardInv

LEMMA GuardStep == IInv /\ [Next]_vars => GuardInv'
<1> SUFFICES ASSUME IInv, [Next]_vars PROVE GuardInv'
  OBVIOUS
<1>0. TypeOK /\ GuardInv /\ \A x \in Order : OrderInv(x) /\ x[1] \in Delivery
  BY DEF IInv, Order
<1> USE DEF memory, runs, fates, world
<1>1. ASSUME NEW d \in Delivery, NEW s \in Signal, Race(d, s) PROVE GuardInv'
  <2>1. CASE s.tx \in Members(seen)
    BY <1>0, <1>1, <2>1, GuardUnchanged DEF Race
  <2>2. CASE s.tx \notin Members(seen)
    <3>1. Begin(d, s) /\ signal' = [signal EXCEPT ![d] = s] /\ signal[d] = NoSignal
      BY <1>1, <2>2 DEF Race
    <3>2. UNCHANGED <<inflight, ok, past>>
      BY <1>1 DEF Race
    <3>3. \A x \in Order : x[1] = d => holds[x] = {} /\ x \notin ok
      BY <1>0, <3>1 DEF OrderInv, Ended
    <3>4. CASE Order = {}
      <4>1. Chat = {}
        <5>1. \A c \in Chat : <<d, c>> \in Order
          BY DEF Order
        <5> QED
          BY <3>4, <5>1
      <4>2. semantic' = semantic
        BY <3>1, <4>1 DEF Begin
      <4> QED
        BY <1>0, <3>2, <3>4, <4>2 DEF GuardInv
    <3>5. CASE Order # {}
      <4>1. PICK c \in Chat : <<d, c>> \in Order
        BY <3>5 DEF Order
      <4>2. d \notin past
        BY <1>0, <3>1, <4>1 DEF OrderInv
      <4> QED
        BY <1>0, <3>1, <3>2, <3>3, <4>2, BeginGuards
    <3> QED
      BY <3>4, <3>5
  <2> QED
    BY <2>1, <2>2
<1>2. ASSUME NEW d \in Delivery, NEW s \in Signal, Receive(d, s) PROVE GuardInv'
  <2>1. signal' = [signal EXCEPT ![d] = s] /\ signal[d] = NoSignal
    BY <1>2 DEF Receive
  <2>2. UNCHANGED <<semantic, inflight, holds, ok, past>>
    BY <1>2 DEF Receive
  <2>3. \A x \in Order : x[1] = d => holds[x] = {} /\ x \notin ok
    BY <1>0, <2>1 DEF OrderInv, Ended
  <2>4. \A x \in Order : (Reserves(x)' <=> Reserves(x)) /\ (Flies(x)' <=> Flies(x))
    BY <1>0, <2>1, <2>2, <2>3 DEF TypeOK, Reserves, Flies, Live
  <2>5. \A x \in Order : Reserves(x) => CoinKey(x)' = CoinKey(x)
    BY <1>0, <2>1, <2>3 DEF TypeOK, Reserves, Live, CoinKey
  <2>6. \A x \in Order : Flies(x) => TxKey(x)' = TxKey(x)
    BY <1>0, <2>1, <2>3 DEF TypeOK, Flies, Live, TxKey
  <2> QED
    BY <1>0, <2>2, <2>4, <2>5, <2>6, GuardFrame
<1>3. ASSUME NEW d \in Delivery, Start(d) PROVE GuardInv'
  <2>1. Begin(d, signal[d]) /\ UNCHANGED <<signal, inflight, ok, past>>
    BY <1>3 DEF Start
  <2>2. CASE Order = {}
    <3>1. Chat = {}
      <4>1. \A c \in Chat : <<d, c>> \in Order
        BY DEF Order
      <4> QED
        BY <2>2, <4>1
    <3>2. semantic' = semantic
      BY <2>1, <3>1 DEF Begin
    <3> QED
      BY <1>0, <2>1, <2>2, <3>2 DEF GuardInv
  <2>3. CASE Order # {}
    <3>1. PICK c \in Chat : <<d, c>> \in Order
      BY <2>3 DEF Order
    <3>2. pc[<<d, c>>] = "received"
      BY <1>3, <3>1 DEF Start
    <3>3. d \notin past /\ signal[d] \in Signal
      BY <1>0, <3>1, <3>2 DEF OrderInv, TypeOK, Ended
    <3>4. \A x \in Order : x[1] = d => holds[x] = {} /\ x \notin ok
      <4> SUFFICES ASSUME NEW x \in Order, x[1] = d PROVE holds[x] = {} /\ x \notin ok
        OBVIOUS
      <4>1. x = <<d, x[2]>> /\ x[2] \in Chat
        BY DEF Order
      <4>2. pc[x] = "received"
        BY <1>3, <4>1 DEF Start
      <4> QED
        BY <1>0, <4>2 DEF OrderInv
    <3>5. signal' = [signal EXCEPT ![d] = signal[d]]
      BY <1>0, <2>1 DEF TypeOK
    <3> QED
      BY <1>0, <2>1, <3>3, <3>4, <3>5, BeginGuards
  <2> QED
    BY <2>2, <2>3
<1>4. ASSUME NEW o \in Order, ReserveBlocked(o) \/ Build(o) \/ Send(o) \/ Decide(o)
      PROVE GuardInv'
  BY <1>0, <1>4, GuardUnchanged DEF ReserveBlocked, Build, Send, Decide
<1>5. ASSUME NEW o \in Order, AlreadyInFlight(o) \/ Finish(o) PROVE GuardInv'
  BY <1>0, <1>5, ReleasedGuards DEF AlreadyInFlight, Finish, Ended
<1>6. ASSUME NEW o \in Order, Reserve(o) PROVE GuardInv'
  BY <1>6, ReserveGuards
<1>7. ASSUME NEW o \in Order, Confirm(o) PROVE GuardInv'
  <2>1. UNCHANGED <<semantic, inflight, signal, holds, past>>
    BY <1>7 DEF Confirm
  <2>2. ok' = ok \/ ok' = ok \cup {o}
    BY <1>7 DEF Confirm
  <2>3. o[2] \in Repeat \/ "coin" \in holds[o]
    BY <1>0, <1>7 DEF Confirm, OrderInv
  <2>4. \A x \in Order : (Reserves(x)' <=> Reserves(x)) /\ (Flies(x)' <=> Flies(x))
    BY <2>1, <2>2, <2>3 DEF Reserves, Flies, Live
  <2>5. \A x \in Order : CoinKey(x)' = CoinKey(x) /\ TxKey(x)' = TxKey(x)
    BY <2>1 DEF CoinKey, TxKey
  <2> QED
    BY <1>0, <2>1, <2>4, <2>5, GuardFrame
<1>8. CASE NextDay \/ EmergencyStop \/ Resume
  BY <1>0, <1>8, GuardUnchanged DEF NextDay, EmergencyStop, Resume
<1>9. CASE Restart
  <2>1. Live' = {}
    BY <1>0, <1>9 DEF Restart, Live
  <2>2. \A x \in Order : ~Reserves(x)' /\ ~Flies(x)'
    BY <2>1 DEF Reserves, Flies
  <2> QED
    BY <1>9, <2>2 DEF Restart, GuardInv
<1>10. CASE UNCHANGED vars
  BY <1>0, <1>10, GuardUnchanged DEF vars
<1> QED
  BY <1>1, <1>2, <1>3, <1>4, <1>5, <1>6, <1>7, <1>8, <1>9, <1>10 DEF Next, Step

-----------------------------------------------------------------------------
(* Theorems *)

LEMMA InitInv == Init => IInv
<1> SUFFICES ASSUME Init PROVE IInv
  OBVIOUS
<1>1. TypeOK
  <2>1. <<>> \in Seq(Signal) /\ <<>> \in Seq(Tx) /\ Len(<<>>) <= CacheSize
    BY CopyBuyAssumption
  <2>2. 0 \in 0 .. MaxDays /\ 1 \in 1 .. MaxDays
    BY CopyBuyAssumption
  <2>3. 0 \in 0 .. MaxStops /\ 0 \in 0 .. MaxRestarts
    BY CopyBuyAssumption
  <2>4. /\ pc \in [Order -> Control] /\ chain \in [Order -> Fate]
        /\ holds \in [Order -> SUBSET {"coin", "tx"}]
    BY DEF Init, Control, Fate
  <2>5. spent \in [Chat -> Nat] /\ signal \in [Delivery -> Signal \cup {NoSignal}]
    BY DEF Init
  <2>6. reservedOn \in [Order -> 0 .. MaxDays]
    BY <2>2 DEF Init
  <2> QED
    BY <2>1, <2>2, <2>3, <2>4, <2>5, <2>6 DEF Init, TypeOK
<1>2. \A o \in Order : OrderInv(o)
  BY DEF Init, OrderInv, Ended, Order
<1>3. GuardInv
  BY DEF Init, GuardInv, Reserves, Flies, Live, Order
<1> QED
  BY <1>1, <1>2, <1>3 DEF IInv

\* The invariant is inductive.
THEOREM Inductive == Spec => []IInv
<1>1. Init => IInv
  BY InitInv
<1>2. IInv /\ [Next]_vars => IInv'
  BY TypeStep, OrderStep, GuardStep DEF IInv
<1> QED
  BY <1>1, <1>2, PTL DEF Spec

\* Every variable keeps its type: the caches their limit, the guards keys of
\* known chats, coins and transactions.
THEOREM TypeCorrect == Spec => []TypeOK
<1>1. IInv => TypeOK
  BY DEF IInv
<1> QED
  BY <1>1, Inductive, PTL

\* The semantic and the submission guard hold exactly the reservations of the
\* runs of this process: no early return of sendCopyTradeSimulationAlert leaks
\* one, and no finally block frees the reservation of another run.
THEOREM GuardsExact == Spec => []GuardsMatchRuns
<1>1. IInv => GuardsMatchRuns
  <2> SUFFICES ASSUME IInv PROVE GuardsMatchRuns
    OBVIOUS
  <2>1. Live \subseteq Order
    BY DEF Live
  <2>2. semantic = {CoinKey(o) : o \in {x \in Live : "coin" \in holds[x] \/ (x \in ok /\ x[2] \notin Repeat)}}
    <3>1. \A k \in semantic : \E o \in Order : Reserves(o) /\ CoinKey(o) = k
      BY DEF IInv, GuardInv
    <3>2. \A o \in Order : Reserves(o) => CoinKey(o) \in semantic
      BY DEF IInv, GuardInv
    <3> HIDE DEF Live, CoinKey
    <3> QED
      BY <2>1, <3>1, <3>2 DEF Reserves
  <2>3. inflight = {TxKey(o) : o \in {x \in Live : "tx" \in holds[x]}}
    <3>1. \A k \in inflight : \E o \in Order : Flies(o) /\ TxKey(o) = k
      BY DEF IInv, GuardInv
    <3>2. \A o \in Order : Flies(o) => TxKey(o) \in inflight
      BY DEF IInv, GuardInv
    <3> HIDE DEF Live, TxKey
    <3> QED
      BY <2>1, <3>1, <3>2 DEF Flies
  <2>4. \A o, q \in Live : o # q /\ "tx" \in holds[o] \cap holds[q] => TxKey(o) # TxKey(q)
    BY <2>1 DEF IInv, GuardInv, Flies
  <2> QED
    BY <2>2, <2>3, <2>4 DEF GuardsMatchRuns
<1> QED
  BY <1>1, Inductive, PTL

\* An emergency stop holds back every order that had not passed the gate of
\* sendDirectCopyTrade when it was activated.
THEOREM StopHolds == Spec => StopHoldsBack
<1> DEFINE HeldBack == \A o \in Order :
      stopped /\ chain[o] = "none" /\ chain'[o] # "none" => o \in letThrough
<1>1. IInv /\ [Next]_vars => HeldBack
  <2> SUFFICES ASSUME IInv, [Next]_vars, NEW o \in Order, stopped, o \notin letThrough
               PROVE  chain[o] = "none" => chain'[o] = "none"
    BY DEF HeldBack
  <2>1. TypeOK /\ pc[o] # "sending"
    BY DEF IInv, OrderInv
  <2>2. ASSUME NEW q \in Order, Send(q) PROVE chain[o] = "none" => chain'[o] = "none"
    BY <2>1, <2>2 DEF Send, TypeOK
  <2>3. ASSUME NEW q \in Order, Decide(q) PROVE chain[o] = "none" => chain'[o] = "none"
    BY <2>1, <2>3 DEF Decide, TypeOK
  <2>4. CASE chain' = chain
    BY <2>4
  <2>5. \/ \E q \in Order : Send(q) \/ Decide(q)
        \/ chain' = chain
    BY DEF Next, Step, vars, fates, Race, Receive, Start, ReserveBlocked, AlreadyInFlight,
           Reserve, Build, Confirm, Finish, NextDay, EmergencyStop, Resume, Restart
  <2> QED
    BY <2>2, <2>3, <2>4, <2>5
<1>2. HeldBack => [HeldBack]_vars
  OBVIOUS
<1> QED
  BY <1>1, <1>2, Inductive, PTL DEF Spec, StopHoldsBack

LEMMA KnownStep ==
  ASSUME IInv, KnownBuys, [Next]_vars
  PROVE  KnownBuys'
<1> SUFFICES ASSUME NEW x \in Order, (x \in Live)', Bought(x)'
             PROVE  pc'[x] = "confirming" \/ x \in ok' \cup lost'
  BY DEF KnownBuys
<1>0. TypeOK /\ OrderInv(x) /\ x[1] \in Delivery
  BY DEF IInv, Order
<1>1. Bought(x) /\ x \in Live => pc[x] = "confirming" \/ x \in ok \cup lost
  BY DEF KnownBuys
<1>2. (signal[x[1]] = NoSignal \/ pc[x] = "received") => chain[x] = "none"
  BY <1>0 DEF OrderInv, TypeOK
<1>3. ASSUME UNCHANGED <<chain, past>>, signal[x[1]] # NoSignal
      PROVE  Bought(x) /\ x \in Live
  BY <1>3 DEF Bought, Live
<1>4. chain' = chain => Bought(x)
  BY DEF Bought
<1> USE DEF memory, runs, fates, world, Goto
<1>5. ASSUME NEW d \in Delivery,
             Start(d) \/ \E s \in Signal : Race(d, s) \/ Receive(d, s)
      PROVE  pc'[x] = "confirming" \/ x \in ok' \cup lost'
  <2>1. UNCHANGED <<chain, past, ok, lost>>
    BY <1>5 DEF Race, Receive, Start
  <2>2. chain[x] # "none"
    BY <1>4, <2>1 DEF Bought
  <2>3. pc[x] = "confirming" \/ x \in ok \cup lost
    BY <1>1, <1>2, <1>3, <2>1, <2>2
  <2>4. x[1] = d => pc[x] \in {"idle", "received"} \/ pc'[x] = pc[x]
    <3>1. x = <<x[1], x[2]>> /\ x[2] \in Chat
      BY DEF Order
    <3> QED
      BY <1>0, <1>5, <3>1 DEF Race, Receive, Start, OrderInv
  <2>5. x[1] # d => pc'[x] = pc[x]
    BY <1>0, <1>5 DEF Race, Receive, Start, Begin, TypeOK
  <2>6. pc[x] \notin {"idle", "received"}
    BY <1>0, <2>2 DEF OrderInv
  <2> QED
    BY <2>1, <2>3, <2>4, <2>5, <2>6
<1>6. ASSUME NEW o \in Order, ReserveBlocked(o) \/ AlreadyInFlight(o) \/ Reserve(o)
                              \/ Build(o) \/ Finish(o)
      PROVE  pc'[x] = "confirming" \/ x \in ok' \cup lost'
  <2>1. UNCHANGED <<chain, past, ok, signal, lost>>
    BY <1>6 DEF ReserveBlocked, AlreadyInFlight, Reserve, Build, Finish
  <2>2. pc[x] = "confirming" \/ x \in ok \cup lost
    BY <1>1, <1>3, <2>1 DEF Live
  <2>3. pc[x] = "confirming" => pc'[x] = pc[x]
    BY <1>0, <1>6 DEF ReserveBlocked, AlreadyInFlight, Reserve, Build, Finish, TypeOK
  <2> QED
    BY <2>1, <2>2, <2>3
<1>7. ASSUME NEW o \in Order, Send(o) PROVE pc'[x] = "confirming" \/ x \in ok' \cup lost'
  <2>1. UNCHANGED <<past, ok, signal>> /\ lost \subseteq lost'
    BY <1>7 DEF Send
  <2>2. CASE o = x /\ chain' = chain
    <3>1. chain[x] # "none" /\ pc[x] = "sending"
      BY <1>4, <1>7, <2>2 DEF Send, Bought
    <3> QED
      BY <1>0, <3>1 DEF OrderInv
  <2>3. CASE o = x /\ chain' # chain
    BY <1>0, <1>7, <2>3 DEF Send, TypeOK
  <2>4. CASE o # x
    <3>1. chain'[x] = chain[x] /\ pc'[x] = pc[x]
      BY <1>0, <1>7, <2>4 DEF Send, TypeOK
    <3> QED
      BY <1>1, <2>1, <3>1 DEF Bought, Live
  <2> QED
    BY <2>2, <2>3, <2>4
<1>8. ASSUME NEW o \in Order, Confirm(o) PROVE pc'[x] = "confirming" \/ x \in ok' \cup lost'
  <2>1. UNCHANGED <<chain, past, signal, lost>>
    BY <1>8 DEF Confirm
  <2>2. pc[x] = "confirming" \/ x \in ok \cup lost
    BY <1>1, <1>3, <2>1 DEF Live
  <2>3. CASE o = x
    <3>1. chain[x] # "reverted"
      BY <1>4, <2>1 DEF Bought
    <3> QED
      BY <1>8, <2>3, <3>1 DEF Confirm
  <2>4. CASE o # x
    <3>1. pc'[x] = pc[x] /\ (x \in ok \cup lost => x \in ok' \cup lost')
      BY <1>0, <1>8, <2>4 DEF Confirm, TypeOK
    <3> QED
      BY <2>2, <3>1
  <2> QED
    BY <2>3, <2>4
<1>9. ASSUME NEW o \in Order, Decide(o) PROVE pc'[x] = "confirming" \/ x \in ok' \cup lost'
  <2>1. UNCHANGED <<past, pc, ok, signal, lost>>
    BY <1>9 DEF Decide
  <2>2. Bought(x)
    BY <1>0, <1>9 DEF Decide, Bought, TypeOK
  <2> QED
    BY <1>1, <2>1, <2>2 DEF Live
<1>10. CASE NextDay \/ EmergencyStop \/ Resume \/ UNCHANGED vars
  <2>1. UNCHANGED <<chain, past, pc, ok, signal, lost>>
    BY <1>10 DEF NextDay, EmergencyStop, Resume, vars
  <2> QED
    BY <1>1, <1>3, <2>1 DEF Live
<1>11. CASE Restart
  BY <1>0, <1>11 DEF Restart, Live
<1> QED
  BY <1>5, <1>6, <1>7, <1>8, <1>9, <1>10, <1>11 DEF Next, Step

\* Without repeat buys a chat buys a coin at most once per process, whatever the
\* caches evicted, whatever confirmations threw and however often a send was
\* accepted although every answer was an error: only a buy of the last kind
\* leaves its coin open to another.
THEOREM BoughtOnce == Spec => []OneBuyPerCoin
<1>1. Init => KnownBuys
  BY DEF Init, KnownBuys, Live, Order
<1>2. IInv /\ KnownBuys /\ [Next]_vars => KnownBuys'
  BY KnownStep
<1>3. IInv /\ KnownBuys => OneBuyPerCoin
  <2> SUFFICES ASSUME IInv, KnownBuys, NEW o \in Live \ lost, NEW q \in Live \ lost, o # q,
                      o[2] \notin Repeat, Bought(o), Bought(q), CoinKey(o) = CoinKey(q)
               PROVE  FALSE
    BY DEF OneBuyPerCoin
  <2>1. o \in Order /\ q \in Order /\ q[2] = o[2]
    BY DEF Live, CoinKey
  <2>2. \A x \in {o, q} : Reserves(x)
    BY <2>1 DEF IInv, OrderInv, KnownBuys, Reserves
  <2> QED
    BY <2>1, <2>2 DEF IInv, GuardInv
<1> QED
  BY <1>1, <1>2, <1>3, Inductive, PTL DEF Spec

-----------------------------------------------------------------------------
(* The daily cap *)

LEMMA FewerCostLess ==
  ASSUME NEW a \in Nat, NEW m \in Nat, NEW n \in Nat, m <= n
  PROVE  a * m <= a * n
BY SMT

\* A step on which no order reserves, and the running total is carried over.
LEMMA BudgetKept ==
  ASSUME TypeOK, TypeOK', BudgetInv,
         today' = today, budgetDay' <= today, reservedOn' = reservedOn,
         \A o \in Order : signal'[o[1]] = NoSignal => signal[o[1]] = NoSignal,
         \A o \in Order : (o \in Live)' /\ reservedOn[o] = today => o \in Live,
         \A c \in Chat : SpentToday(c)' = SpentToday(c)
  PROVE  BudgetInv'
<1>1. ASSUME NEW c \in Chat
      PROVE  IsFiniteSet(Spenders(c))' /\ ReservedToday(c)' <= SpentToday(c)'
  <2>1. Spenders(c)' \subseteq Spenders(c) /\ IsFiniteSet(Spenders(c))
    BY DEF Spenders, Live, BudgetInv
  <2>2. /\ IsFiniteSet(Spenders(c)') /\ IsFiniteSet(Spenders(c))
        /\ Cardinality(Spenders(c)') \in Nat /\ Cardinality(Spenders(c)) \in Nat
        /\ Cardinality(Spenders(c)') <= Cardinality(Spenders(c))
    BY <2>1, FS_Subset, FS_CardinalityType
  <2>3. Amount[c] \in Nat /\ SpentToday(c) \in Nat
    BY CopyBuyAssumption, SpentTyped
  <2>4. /\ Amount[c] * Cardinality(Spenders(c)') <= Amount[c] * Cardinality(Spenders(c))
        /\ Amount[c] * Cardinality(Spenders(c)') \in Nat
        /\ Amount[c] * Cardinality(Spenders(c)) \in Nat
    BY <2>2, <2>3, FewerCostLess
  <2>5. ReservedToday(c) <= SpentToday(c)
    BY DEF BudgetInv
  <2> QED
    BY <2>2, <2>3, <2>4, <2>5 DEF ReservedToday
<1> QED
  BY <1>1 DEF BudgetInv

LEMMA NobodyCopies ==
  ASSUME Chat = {}, TypeOK, today' = today, budgetDay' = today
  PROVE  BudgetInv'
<1>1. Order = {}
  BY DEF Order
<1>2. budgetDay' <= today'
  BY CopyBuyAssumption DEF TypeOK
<1> QED
  BY <1>1, <1>2 DEF BudgetInv

\* What a signal finds spent is what it leaves spent, and its orders are new.
LEMMA BeginBudget ==
  ASSUME TypeOK, TypeOK', BudgetInv, NEW d \in Delivery, NEW s, Begin(d, s),
         signal' = [signal EXCEPT ![d] = s], UNCHANGED <<past, today, reservedOn>>,
         s # NoSignal, d \in past => signal[d] # NoSignal
  PROVE  BudgetInv'
<1>1. \A c \in Chat : SpentToday(c)' = SpentToday(c)
  BY DEF Begin, SpentToday
<1>2. \A o \in Order : signal'[o[1]] = NoSignal => signal[o[1]] = NoSignal
  BY DEF Order, TypeOK
<1>3. \A o \in Order : (o \in Live)' /\ reservedOn[o] = today => o \in Live
  <2>1. \A o \in Order : signal[o[1]] = NoSignal => reservedOn[o] # today
    BY DEF BudgetInv, TypeOK
  <2> QED
    BY <2>1 DEF Live
<1>4. budgetDay' <= today
  BY CopyBuyAssumption DEF Begin, TypeOK
<1> QED
  BY <1>1, <1>2, <1>3, <1>4, BudgetKept

\* The order that reserves is within the cap at the moment it does, whatever
\* was reserved while it awaited its balance.
LEMMA ReserveBudget ==
  ASSUME IInv, TypeOK', BudgetInv, NEW o \in Order, Reserve(o)
  PROVE  BudgetInv'
<1>0. TypeOK
  BY DEF IInv
<1>1. /\ UNCHANGED <<signal, past, today>> /\ budgetDay' <= today
      /\ today \in 1 .. MaxDays /\ o[2] \in Chat
  BY <1>0, CopyBuyAssumption DEF Reserve, runs, world, TypeOK, BudgetInv, Order
<1>2. Live' = Live
  BY <1>1 DEF Live
<1>3. CASE /\ reservedOn' = reservedOn
           /\ \/ UNCHANGED <<spent, budgetDay>>
              \/ budgetDay' = today /\ spent' = [c \in Chat |-> SpentToday(c)]
  <2>1. \A c \in Chat : SpentToday(c)' = SpentToday(c)
    BY <1>1, <1>3 DEF SpentToday
  <2> QED
    BY <1>0, <1>1, <1>2, <1>3, <2>1, BudgetKept
<1>4. CASE /\ Affordable(o[2]) /\ budgetDay' = today
           /\ spent' = [c \in Chat |-> SpentToday(c) + IF c = o[2] THEN Amount[c] ELSE 0]
           /\ reservedOn' = [reservedOn EXCEPT ![o] = today]
  <2>1. ASSUME NEW c \in Chat
        PROVE  /\ SpentToday(c)' = SpentToday(c) + (IF c = o[2] THEN Amount[c] ELSE 0)
               /\ SpentToday(c) \in Nat /\ Amount[c] \in Nat
    BY <1>0, <1>1, <1>4, SpentTyped, CopyBuyAssumption DEF SpentToday
  <2>2. ASSUME NEW c \in Chat, DailyCap # 0 PROVE SpentToday(c)' <= DailyCap
    BY <1>4, <2>1, <2>2 DEF Affordable, WithinCap, BudgetInv
  <2>3. ASSUME NEW c \in Chat, c # o[2]
        PROVE  IsFiniteSet(Spenders(c))' /\ ReservedToday(c)' <= SpentToday(c)'
    <3>1. Spenders(c)' = Spenders(c)
      BY <1>1, <1>2, <1>4, <2>3, <1>0 DEF Spenders, Live, TypeOK
    <3> QED
      BY <2>1, <2>3, <3>1 DEF ReservedToday, BudgetInv
  <2>4. IsFiniteSet(Spenders(o[2]))' /\ ReservedToday(o[2])' <= SpentToday(o[2])'
    <3> DEFINE S == Spenders(o[2])
               n == Cardinality(S)
               a == Amount[o[2]]
    <3>1. IsFiniteSet(S) /\ n \in Nat /\ a \in Nat /\ a * n <= SpentToday(o[2])
      BY <1>1, <2>1, FS_CardinalityType DEF BudgetInv, ReservedToday
    <3>2. S' \subseteq S \cup {o}
      BY <1>0, <1>1, <1>2, <1>4 DEF Spenders, Live, TypeOK
    <3>3. /\ IsFiniteSet(S \cup {o}) /\ Cardinality(S \cup {o}) <= n + 1
          /\ Cardinality(S \cup {o}) \in Nat
      <4> HIDE DEF S
      <4>1. /\ IsFiniteSet(S \cup {o})
            /\ Cardinality(S \cup {o}) = Cardinality(S) \/ Cardinality(S \cup {o}) = Cardinality(S) + 1
        BY <3>1, FS_AddElement
      <4> QED
        BY <3>1, <4>1, FS_CardinalityType
    <3>4. /\ IsFiniteSet(S') /\ Cardinality(S') <= Cardinality(S \cup {o})
          /\ Cardinality(S') \in Nat
      BY <3>2, <3>3, FS_Subset, FS_CardinalityType
    <3>5. Cardinality(S') <= n + 1
      BY <3>1, <3>3, <3>4
    <3>6. a * Cardinality(S') <= a * (n + 1)
      BY <3>1, <3>4, <3>5, FewerCostLess
    <3>7. a * (n + 1) = a * n + a /\ a * n \in Nat
      BY <3>1
    <3>8. SpentToday(o[2])' = SpentToday(o[2]) + a /\ SpentToday(o[2]) \in Nat
      BY <1>1, <2>1
    <3>9. ReservedToday(o[2])' = a * Cardinality(S') /\ a * Cardinality(S') \in Nat
      BY <3>1, <3>4 DEF ReservedToday
    <3> HIDE DEF S, n, a
    <3> QED
      BY <3>1, <3>4, <3>6, <3>7, <3>8, <3>9 DEF S
  <2>5. \A x \in Order : /\ reservedOn'[x] <= today'
                         /\ signal'[x[1]] = NoSignal => reservedOn'[x] = 0
    <3>1. signal[o[1]] # NoSignal
      BY DEF Reserve, IInv, OrderInv
    <3> QED
      BY <1>0, <1>1, <1>4, <3>1 DEF BudgetInv, TypeOK
  <2> QED
    BY <1>1, <2>2, <2>3, <2>4, <2>5 DEF BudgetInv
<1> QED
  BY <1>3, <1>4 DEF Reserve

LEMMA BudgetStep == IInv /\ TypeOK' /\ BudgetInv /\ [Next]_vars => BudgetInv'
<1> SUFFICES ASSUME IInv, TypeOK', BudgetInv, [Next]_vars
             PROVE  BudgetInv'
  OBVIOUS
<1>0. TypeOK /\ budgetDay <= today
  BY DEF IInv, BudgetInv
<1>q. ASSUME UNCHANGED <<spent, budgetDay, reservedOn, signal, past, today>>
      PROVE  BudgetInv'
  <2>1. Live' = Live /\ \A c \in Chat : SpentToday(c)' = SpentToday(c)
    BY <1>q DEF Live, SpentToday
  <2> QED
    BY <1>0, <1>q, <2>1, BudgetKept
<1>1. ASSUME NEW d \in Delivery, NEW s \in Signal, Race(d, s) PROVE BudgetInv'
  <2>1. CASE Begin(d, s) /\ signal' = [signal EXCEPT ![d] = s]
    <3>1. s # NoSignal /\ UNCHANGED <<past, today, reservedOn>>
      BY <1>1, CopyBuyAssumption DEF Race, world
    <3>2. CASE d \in past
      <4>1. CASE Chat = {}
        BY <1>0, <2>1, <3>1, <4>1, NobodyCopies DEF Begin
      <4>2. CASE Chat # {}
        <5>1. PICK c \in Chat : TRUE
          BY <4>2
        <5>2. <<d, c>> \in Order
          BY DEF Order
        <5>3. signal[d] # NoSignal
          BY <3>2, <5>2 DEF IInv, OrderInv
        <5> QED
          BY <1>0, <2>1, <3>1, <5>3, BeginBudget
      <4> QED
        BY <4>1, <4>2
    <3> QED
      BY <1>0, <2>1, <3>1, <3>2, BeginBudget
  <2>2. CASE UNCHANGED <<seen, semantic, spent, budgetDay, signal, pc, holds>>
    BY <1>1, <1>q, <2>2 DEF Race, world
  <2> QED
    BY <1>1, <2>1, <2>2 DEF Race
<1>2. ASSUME NEW d \in Delivery, NEW s \in Signal, Receive(d, s) PROVE BudgetInv'
  <2>1. /\ UNCHANGED <<spent, budgetDay, reservedOn, past, today>>
        /\ signal' = [signal EXCEPT ![d] = s] /\ s # NoSignal
    BY <1>2, CopyBuyAssumption DEF Receive, world
  <2>2. \A o \in Order : signal'[o[1]] = NoSignal => signal[o[1]] = NoSignal
    BY <1>0, <2>1 DEF Order, TypeOK
  <2>3. \A o \in Order : (o \in Live)' /\ reservedOn[o] = today => o \in Live
    <3>1. \A o \in Order : signal[o[1]] = NoSignal => reservedOn[o] # today
      BY <1>0 DEF BudgetInv, TypeOK
    <3> QED
      BY <2>1, <3>1 DEF Live
  <2>4. \A c \in Chat : SpentToday(c)' = SpentToday(c)
    BY <2>1 DEF SpentToday
  <2> QED
    BY <1>0, <2>1, <2>2, <2>3, <2>4, BudgetKept
<1>3. ASSUME NEW d \in Delivery, Start(d) PROVE BudgetInv'
  <2>1. /\ Begin(d, signal[d]) /\ UNCHANGED <<signal, past, today, reservedOn>>
        /\ signal' = [signal EXCEPT ![d] = signal[d]]
    BY <1>0, <1>3 DEF Start, world, TypeOK
  <2>2. CASE Chat = {}
    BY <1>0, <2>1, <2>2, NobodyCopies DEF Begin
  <2>3. CASE Chat # {}
    <3>1. PICK c \in Chat : TRUE
      BY <2>3
    <3>2. <<d, c>> \in Order /\ pc[<<d, c>>] = "received"
      BY <1>3 DEF Order, Start
    <3>3. signal[d] # NoSignal
      BY <3>2 DEF IInv, OrderInv
    <3> QED
      BY <1>0, <2>1, <3>3, BeginBudget
  <2> QED
    BY <2>2, <2>3
<1>4. ASSUME NEW o \in Order, Step(o) PROVE BudgetInv'
  <2>1. CASE Reserve(o)
    BY <2>1, ReserveBudget
  <2>2. CASE \/ ReserveBlocked(o) \/ AlreadyInFlight(o)
             \/ Build(o) \/ Send(o) \/ Confirm(o) \/ Finish(o)
    BY <1>q, <2>2 DEF ReserveBlocked, AlreadyInFlight, Build, Send, Confirm, Finish,
                      memory, runs, fates, world
  <2> QED
    BY <1>4, <2>1, <2>2 DEF Step
<1>5. ASSUME NEW o \in Order, Decide(o) PROVE BudgetInv'
  BY <1>5, <1>q DEF Decide, memory, runs, fates, world
<1>6. ASSUME NextDay PROVE BudgetInv'
  <2>1. /\ today' = today + 1 /\ today \in Nat /\ budgetDay \in Nat
        /\ UNCHANGED <<budgetDay, reservedOn, signal>>
    BY <1>0, <1>6 DEF NextDay, memory, runs, TypeOK
  <2>2. \A o \in Order : reservedOn[o] <= today /\ reservedOn[o] \in Nat
    BY <1>0 DEF BudgetInv, TypeOK
  <2>3. budgetDay' <= today' /\ budgetDay' # today'
    BY <1>0, <2>1
  <2>4. \A o \in Order : reservedOn'[o] <= today' /\ reservedOn'[o] # today'
    BY <2>1, <2>2
  <2>5. ASSUME NEW c \in Chat
        PROVE  Spenders(c)' = {} /\ SpentToday(c)' = 0 /\ Amount[c] \in Nat
    BY <2>3, <2>4, CopyBuyAssumption DEF Spenders, Live, SpentToday
  <2>6. ASSUME NEW c \in Chat
        PROVE  IsFiniteSet(Spenders(c))' /\ ReservedToday(c)' = 0
    BY <2>5, <2>6, FS_EmptySet DEF ReservedToday
  <2> QED
    BY <2>1, <2>3, <2>4, <2>5, <2>6, CopyBuyAssumption DEF BudgetInv
<1>7. ASSUME EmergencyStop \/ Resume PROVE BudgetInv'
  BY <1>7, <1>q DEF EmergencyStop, Resume, memory, runs
<1>8. ASSUME Restart PROVE BudgetInv'
  <2>1. /\ budgetDay' = 0 /\ today' = today /\ today \in Nat /\ today >= 1
        /\ UNCHANGED <<reservedOn, signal>>
        /\ past' = {d \in Delivery : signal[d] # NoSignal}
    BY <1>0, <1>8 DEF Restart, TypeOK
  <2>2. ASSUME NEW c \in Chat
        PROVE  Spenders(c)' = {} /\ SpentToday(c)' = 0 /\ Amount[c] \in Nat
    BY <2>1, CopyBuyAssumption DEF Spenders, Live, SpentToday, Order
  <2>3. ASSUME NEW c \in Chat
        PROVE  IsFiniteSet(Spenders(c))' /\ ReservedToday(c)' = 0
    BY <2>2, <2>3, FS_EmptySet DEF ReservedToday
  <2> QED
    BY <2>1, <2>2, <2>3, CopyBuyAssumption DEF BudgetInv
<1>9. ASSUME UNCHANGED vars PROVE BudgetInv'
  BY <1>9, <1>q DEF vars, memory, runs, fates, world
<1> QED
  BY <1>1, <1>2, <1>3, <1>4, <1>5, <1>6, <1>7, <1>8, <1>9 DEF Next

\* What a chat reserved on one day stays under its cap, although
\* the wallet is awaited between the first check of the cap and the reservation,
\* and although the day may turn or the process restart in between.
THEOREM CapHolds == Spec => []DailyCapHolds
<1>1. Init => BudgetInv
  <2> SUFFICES ASSUME Init PROVE BudgetInv
    OBVIOUS
  <2>1. ASSUME NEW c \in Chat
        PROVE  Spenders(c) = {} /\ SpentToday(c) = 0 /\ Amount[c] \in Nat
    BY CopyBuyAssumption DEF Init, Spenders, Live, SpentToday
  <2>2. ASSUME NEW c \in Chat
        PROVE  IsFiniteSet(Spenders(c)) /\ ReservedToday(c) = 0
    BY <2>1, <2>2, FS_EmptySet DEF ReservedToday
  <2> QED
    BY <2>1, <2>2, CopyBuyAssumption DEF BudgetInv, Init
<1>2. IInv /\ IInv' => TypeOK'
  BY DEF IInv
<1>3. TypeOK /\ BudgetInv => DailyCapHolds
  <2> SUFFICES ASSUME TypeOK, BudgetInv, DailyCap # 0, NEW c \in Chat
               PROVE  ReservedToday(c) <= DailyCap
    BY DEF DailyCapHolds
  <2>1. /\ ReservedToday(c) <= SpentToday(c) /\ SpentToday(c) <= DailyCap
        /\ IsFiniteSet(Spenders(c))
    BY DEF BudgetInv
  <2>2. Cardinality(Spenders(c)) \in Nat /\ Amount[c] \in Nat /\ SpentToday(c) \in Nat
    BY <2>1, FS_CardinalityType, SpentTyped, CopyBuyAssumption
  <2>3. Amount[c] * Cardinality(Spenders(c)) \in Nat
    BY <2>2
  <2> QED
    BY <2>1, <2>2, <2>3, CopyBuyAssumption DEF ReservedToday
<1> QED
  BY <1>1, <1>2, <1>3, BudgetStep, Inductive, TypeCorrect, PTL DEF Spec, IInv
=============================================================================
