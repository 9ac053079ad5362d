----------------------------- MODULE MCCopyBuy -----------------------------
(***************************************************************************)
(* Instances of CopyBuy for TLC.                                           *)
(***************************************************************************)
EXTENDS CopyBuy

CONSTANTS t1, t2, k1, k2, d1, d2, d3

Buy(t, k) == [tx |-> t, coin |-> k]

\* Two buys of one coin, and a transaction that buys two coins.
ThreeBuys == {Buy(t1, k1), Buy(t2, k1), Buy(t1, k2)}

EvenAmount == [c \in Chat |-> 2]

\* Two starts: a process that took one signal already and whose days, stops and
\* restarts are to come, or three signals in a day on which nothing else happens.
SomeInit ==
  /\ raced = <<>> /\ seen = <<>> /\ semantic = {} /\ inflight = {}
  /\ spent = [c \in Chat |-> 0] /\ budgetDay = 0
  /\ holds = [o \in Order |-> {}] /\ reservedOn = [o \in Order |-> 0]
  /\ ok = {} /\ letThrough = {} /\ chain = [o \in Order |-> "none"]
  /\ stopped = FALSE /\ lost = {} /\ unconfirmed = {}
  /\ \/ /\ today = 1 /\ stops = 0 /\ restarts = 0
        /\ past = {d3}
        /\ signal = [d \in Delivery |-> IF d = d3 THEN Buy(t2, k1) ELSE NoSignal]
        /\ pc = [o \in Order |-> IF o[1] = d3 THEN "gone" ELSE "idle"]
     \/ /\ today = MaxDays /\ stops = MaxStops /\ restarts = MaxRestarts
        /\ past = {}
        /\ signal = [d \in Delivery |-> NoSignal]
        /\ pc = [o \in Order |-> "idle"]

\* The deliveries are alike, so that they may be used in their order.
Unused == {d \in {d1, d2, d3} : signal[d] = NoSignal}
FirstUnused ==
  IF d1 \in Unused THEN {d1} ELSE IF d2 \in Unused THEN {d2} ELSE Unused

SomeNext ==
  \/ \E d \in FirstUnused, s \in Signal : Race(d, s) \/ Receive(d, s)
  \/ \E d \in Delivery : Start(d)
  \/ \E o \in Order : Step(o) \/ Decide(o)
  \/ NextDay \/ EmergencyStop \/ Resume \/ Restart

\* FairSpec from these starts.
SomeFairSpec ==
  /\ SomeInit /\ [][SomeNext]_vars
  /\ \A o \in Order : WF_vars(Step(o)) /\ WF_vars(Start(o[1]))
=============================================================================
