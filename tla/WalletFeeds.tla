---------------------------- MODULE WalletFeeds ----------------------------
(***************************************************************************)
(* The streams on which the bot watches wallets: one feed of the kinds     *)
(* yellowstone, geyser, pumpportal and shredstream, its connection, its    *)
(* reconnect timer, and a watch list that changes under it. Every step is  *)
(* the code between two events of the event loop.                          *)
(***************************************************************************)
EXTENDS Naturals, FiniteSets

CONSTANTS
  Feed,        \* the kinds of feed that may run, of the four above
  WatchLists,  \* the watch lists users may ask for
  Stream,      \* bound: connections at a time, numbered
  NoStream,
  MaxChanges,  \* bound: changes of the watch list
  MaxLosses    \* bound: streams that break and connections that fail

FeedsAssumption ==
  /\ Feed \subseteq {"yellowstone", "geyser", "pumpportal", "shredstream"}
  /\ {} \in WatchLists /\ Stream \subseteq Nat /\ NoStream \notin Stream
  /\ MaxChanges \in Nat /\ MaxLosses \in Nat

VARIABLES
  feed,        \* the kind that runs
  running,     \* running, started, shouldReconnect
  wanted,      \* activeWallets, wallets, currentSubscriptionMethods
  held,        \* stream, ws; for shredstream the reading loop
  conn,        \* where each connection is
  subs,        \* the list it was last subscribed to
  newest,      \* yellowstone: the connect() of the newest subscriptionGeneration
  timer,       \* the reconnect timer the code can still clear
  strays,      \* timers it cannot clear any more
  restarting,  \* pumpportal: intentionalRestart
  touched,     \* history: the list changed while the feed was down
  changes, losses

vars ==
  <<feed, running, wanted, held, conn, subs, newest, timer, strays, restarting, touched, changes, losses>>

\* "lost": ended by the other side, the event is still to come; "left": closed
\* by the bot, its close event to come; "dead": ended, and still held.
TypeOK ==
  /\ feed \in Feed /\ running \in BOOLEAN /\ wanted \in WatchLists
  /\ held \in Stream \cup {NoStream} /\ newest \in Stream \cup {NoStream}
  /\ conn \in [Stream -> {"free", "dialing", "open", "lost", "left", "dead"}]
  /\ subs \in [Stream -> WatchLists]
  /\ timer \in BOOLEAN /\ strays \in Nat /\ restarting \in BOOLEAN /\ touched \in BOOLEAN
  /\ changes \in 0 .. MaxChanges /\ losses \in 0 .. MaxLosses

Init ==
  /\ feed \in Feed /\ wanted \in WatchLists
  /\ running = FALSE /\ held = NoStream /\ newest = NoStream
  /\ conn = [s \in Stream |-> "free"] /\ subs = [s \in Stream |-> {}]
  /\ timer = FALSE /\ strays = 0 /\ restarting = FALSE /\ touched = FALSE
  /\ changes = 0 /\ losses = 0

-----------------------------------------------------------------------------

Holding == held # NoStream
Live == Holding /\ conn[held] = "open" /\ subs[held] = wanted

\* PumpPortal always has the migrations to listen to.
Wants(list) == list # {} \/ feed = "pumpportal"

\* The connection a new one is made with.
Fresh(old, s) == old[s] = "free" /\ \A t \in Stream : old[t] = "free" => s <= t

\* The held stream after destroy() or close(), events of open ones to come.
LetGo ==
  IF ~Holding THEN conn
  ELSE [conn EXCEPT ![held] = IF @ = "dead" THEN "free" ELSE IF @ = "lost" THEN "lost" ELSE "left"]

\* yellowstone connect: newer than every other, it drops the held stream first.
YellowstoneConnect(list) ==
  /\ timer' = FALSE /\ held' = NoStream
  /\ IF running' /\ list # {}
     THEN \E s \in Stream : Fresh(LetGo, s) /\ newest' = s /\ conn' = [LetGo EXCEPT ![s] = "dialing"]
     ELSE newest' = NoStream /\ conn' = LetGo
  /\ UNCHANGED <<subs, strays, restarting>>

\* geyser connect: nothing while a connection is under way or a stream is held.
GeyserConnect(list) ==
  /\ IF ~running' \/ list = {} \/ Holding \/ (\E s \in Stream : conn[s] = "dialing")
     THEN UNCHANGED conn
     ELSE \E s \in Stream : Fresh(conn, s) /\ conn' = [conn EXCEPT ![s] = "dialing"]
  /\ UNCHANGED <<held, subs, newest, strays, restarting>>

\* pumpportal connect: a new socket replaces ws, whatever the old one does.
PumpPortalConnect(old) ==
  /\ \E s \in Stream :
       /\ Fresh(old, s) /\ held' = s
       /\ conn' = [t \in Stream |-> IF t = s THEN "dialing" ELSE IF old[t] = "dead" THEN "free" ELSE old[t]]
  /\ UNCHANGED <<subs, newest>>

\* shredstream startLoop: one reading loop, if there is anything to look for.
ShredstreamLoop(list) ==
  /\ IF ~running' \/ list = {} \/ Holding THEN UNCHANGED <<held, conn, subs>>
     ELSE \E s \in Stream :
            /\ Fresh(conn, s) /\ held' = s
            /\ conn' = [conn EXCEPT ![s] = "open"]
            /\ subs' = [subs EXCEPT ![s] = list]
  /\ UNCHANGED <<newest, restarting>>

\* start of each feed, at the end of the boot
Start ==
  /\ ~running /\ ~Holding /\ ~timer /\ strays = 0 /\ changes = 0
  /\ \A s \in Stream : conn[s] = "free"
  /\ running' = TRUE
  /\ CASE feed = "yellowstone" -> YellowstoneConnect(wanted)
       [] feed = "geyser" -> GeyserConnect(wanted) /\ UNCHANGED timer
       [] feed = "pumpportal" -> PumpPortalConnect(conn) /\ UNCHANGED <<timer, strays, restarting>>
       [] feed = "shredstream" -> ShredstreamLoop(wanted) /\ UNCHANGED <<timer, strays>>
  /\ UNCHANGED <<feed, wanted, touched, changes, losses>>

\* stop of each feed, on the way out of the process
Stop ==
  /\ running /\ running' = FALSE
  /\ timer' = FALSE
  /\ IF feed = "geyser"
     THEN conn' = (IF Holding THEN [conn EXCEPT ![held] = "free"] ELSE conn) /\ held' = NoStream
     ELSE conn' = LetGo /\ held' = (IF feed = "yellowstone" THEN NoStream ELSE held)
  /\ UNCHANGED <<feed, wanted, subs, newest, strays, restarting, touched, changes, losses>>

-----------------------------------------------------------------------------
(* The watch list changes: onWalletWatchlistChange *)

\* geyser writeSubscription: a stream that has ended takes the write for nothing.
Resubscribed(list) == IF conn[held] = "open" THEN [subs EXCEPT ![held] = list] ELSE subs

\* geyser setWallets
GeyserWallets(list) ==
  CASE list = {} ->
         /\ held' = NoStream /\ conn' = (IF Holding THEN [conn EXCEPT ![held] = "free"] ELSE conn)
         /\ UNCHANGED <<subs, newest, timer, strays, restarting>>
    [] list # {} /\ Holding ->
         subs' = Resubscribed(list) /\ UNCHANGED <<held, conn, newest, timer, strays, restarting>>
    [] OTHER -> GeyserConnect(list) /\ UNCHANGED timer

\* pumpportal setSubscriptionMethods: the old socket is closed, and its close
\* event is to be ignored, even if it has come already.
PumpPortalWallets ==
  /\ timer' = FALSE /\ UNCHANGED strays
  /\ restarting' = (restarting \/ Holding)
  /\ PumpPortalConnect(LetGo)

Change(list) ==
  /\ running /\ changes < MaxChanges /\ changes' = changes + 1
  /\ list # wanted /\ wanted' = list
  /\ touched' = (touched \/ (Wants(wanted) /\ ~Live))
  /\ UNCHANGED <<feed, running, losses>>
  /\ CASE feed = "yellowstone" -> YellowstoneConnect(list)
       [] feed = "geyser" -> GeyserWallets(list)
       [] feed = "pumpportal" -> PumpPortalWallets
       [] feed = "shredstream" /\ Holding ->
            /\ subs' = [subs EXCEPT ![held] = list]
            /\ UNCHANGED <<held, conn, newest, timer, strays, restarting>>
       [] feed = "shredstream" /\ ~Holding -> ShredstreamLoop(list) /\ UNCHANGED <<timer, strays>>

-----------------------------------------------------------------------------
(* What comes back *)

\* Mutant: the ended stream is kept when the timer is set.
GeyserAgain_KeepsStream(s) ==
  /\ timer' = (timer \/ (running /\ wanted # {}))
  /\ conn' = [conn EXCEPT ![s] = IF @ = "dialing" THEN "free" ELSE "dead"]
  /\ UNCHANGED held

\* geyser scheduleReconnect: a timer that runs already stands for this loss too.
GeyserAgain(s) ==
  IF ~running \/ timer \/ wanted = {}
  THEN conn' = [conn EXCEPT ![s] = IF s = held THEN "dead" ELSE "free"] /\ UNCHANGED <<held, timer>>
  ELSE /\ timer' = TRUE /\ held' = NoStream
       /\ conn' = [t \in Stream |-> IF t \in {s, held} THEN "free" ELSE conn[t]]

\* client.connect and subscribe return, or the socket opens.
Dialled(s) ==
  /\ conn[s] = "dialing"
  /\ IF feed = "yellowstone" /\ (~running \/ newest # s)
     THEN conn' = [conn EXCEPT ![s] = "free"] /\ UNCHANGED <<held, subs>>
     ELSE /\ conn' = [conn EXCEPT ![s] = "open"]
          /\ subs' = [subs EXCEPT ![s] = wanted]
          /\ held' = IF feed = "pumpportal" THEN held ELSE s
  /\ UNCHANGED <<feed, running, wanted, newest, timer, strays, restarting, touched, changes, losses>>

\* They throw, or the socket is refused: its close event is still to come.
Refused(s) ==
  /\ conn[s] = "dialing" /\ losses < MaxLosses /\ losses' = losses + 1
  /\ CASE feed = "geyser" -> GeyserAgain(s)
       [] feed = "yellowstone" ->
            timer' = running /\ conn' = [conn EXCEPT ![s] = "free"] /\ UNCHANGED held
       [] feed = "pumpportal" -> conn' = [conn EXCEPT ![s] = "lost"] /\ UNCHANGED <<held, timer>>
  /\ UNCHANGED <<feed, running, wanted, subs, newest, strays, restarting, touched, changes>>

Lose(s) ==
  /\ conn[s] = "open" /\ losses < MaxLosses /\ losses' = losses + 1
  /\ conn' = [conn EXCEPT ![s] = "lost"]
  /\ UNCHANGED <<feed, running, wanted, held, subs, newest, timer, strays, restarting, touched, changes>>

\* pumpportal on close
PumpPortalClosed ==
  IF restarting \/ ~running
  THEN restarting' = FALSE /\ UNCHANGED <<timer, strays>>
  ELSE timer' = TRUE /\ strays' = strays + (IF timer THEN 1 ELSE 0) /\ UNCHANGED restarting

\* The error, end or close event of a stream, or the end of the reading loop.
Ended(s) ==
  /\ conn[s] \in {"lost", "left"}
  /\ CASE feed = "geyser" -> GeyserAgain(s) /\ UNCHANGED <<strays, restarting>>
       [] feed = "shredstream" ->
            /\ conn' = [conn EXCEPT ![s] = "free"] /\ held' = NoStream
            /\ strays' = strays + (IF running THEN 1 ELSE 0) /\ UNCHANGED <<timer, restarting>>
       [] OTHER ->
            /\ conn' = [conn EXCEPT ![s] = IF s = held THEN "dead" ELSE "free"] /\ UNCHANGED held
            /\ IF feed = "pumpportal" THEN PumpPortalClosed
               ELSE timer' = running /\ UNCHANGED <<strays, restarting>>
  /\ UNCHANGED <<feed, running, wanted, subs, newest, touched, changes, losses>>

\* The reconnect timer fires.
TimerFires ==
  /\ timer
  /\ UNCHANGED <<feed, running, wanted, touched, changes, losses>>
  /\ IF feed = "geyser" THEN timer' = FALSE /\ GeyserConnect(wanted)
     ELSE IF feed = "yellowstone" THEN YellowstoneConnect(wanted)
     ELSE timer' = FALSE /\ PumpPortalConnect(conn) /\ UNCHANGED <<strays, restarting>>

\* So does one that was overwritten, and the timer of the reading loop.
StrayFires ==
  /\ strays > 0 /\ strays' = strays - 1
  /\ UNCHANGED <<feed, running, wanted, timer, touched, changes, losses>>
  /\ IF feed = "pumpportal" THEN PumpPortalConnect(conn) /\ UNCHANGED restarting
     ELSE ShredstreamLoop(wanted)

Next ==
  \/ Start \/ Stop \/ TimerFires \/ StrayFires
  \/ \E list \in WatchLists : Change(list)
  \/ \E s \in Stream : Dialled(s) \/ Refused(s) \/ Lose(s) \/ Ended(s)

Spec == Init /\ [][Next]_vars

\* Calls return and events are delivered; a timer fires.
FairSpec ==
  /\ Spec
  /\ WF_vars(TimerFires) /\ WF_vars(StrayFires)
  /\ \A s \in Stream : WF_vars(Dialled(s)) /\ WF_vars(Ended(s))

-----------------------------------------------------------------------------
(* Property *)

Sturdy == feed \in {"yellowstone", "shredstream"} \/ ~touched

\* A feed that runs and has wallets to watch is subscribed to them again, after
\* every loss, refused connection and change of the list; geyser and pumpportal
\* only as long as the list did not change while they were down.
FeedsReturn ==
  (running /\ Wants(wanted) /\ Sturdy) ~> (Live \/ ~(running /\ Wants(wanted) /\ Sturdy))
=============================================================================
