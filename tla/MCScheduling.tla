---------------------------- MODULE MCScheduling ----------------------------
(***************************************************************************)
(* What waits for its turn: the trailing sells of the bot, the requests of *)
(* the Rust worker, and the feeds that wait to connect again. They share   *)
(* no state and are model-checked one at a time: part is chosen once, and  *)
(* only its component moves.  TrailingSells is the module extended here.   *)
(***************************************************************************)
EXTENDS TrailingSells

CONSTANTS
  Request, Copy, Unarmed, Worker, NoRequest, Capacity,        \* ExecutionQueue
  x1, x2, NoStream, MaxChanges, MaxLosses                     \* WalletFeeds

VARIABLES
  part,
  high, low, permit, mode, job, busy, fate,                   \* ExecutionQueue
  feed, running, wanted, held, conn, subs, newest, timer, strays, restarting, touched,
  changes, losses                                             \* WalletFeeds

Queue == INSTANCE ExecutionQueue

\* The buys are of one coin.
OnePosition == [b \in Buy |-> "position"]

Feeds == INSTANCE WalletFeeds WITH
  Feed <- {"yellowstone", "geyser", "pumpportal", "shredstream"},
  WatchLists <- {{}, {x1}, {x1, x2}}, Stream <- 1 .. 4

ASSUME QueueConstants == Queue!QueueAssumption
ASSUME TrailingConstants == TrailingAssumption
ASSUME FeedsConstants == Feeds!FeedsAssumption

queueVars == <<high, low, permit, mode, job, busy, fate>>
feedsVars ==
  <<feed, running, wanted, held, conn, subs, newest, timer, strays, restarting, touched, changes, losses>>
allVars == <<part, queueVars, vars, feedsVars>>

InitOfAll ==
  /\ part \in {"queue", "sells", "feeds"}
  /\ Queue!Init
  /\ Init
  /\ Feeds!Init
  /\ wanted = {x1} /\ (part # "feeds" => feed = "geyser")

QueueNext == part = "queue" /\ Queue!Next /\ UNCHANGED <<part, vars, feedsVars>>
SellsNext == part = "sells" /\ Next /\ UNCHANGED <<part, queueVars, feedsVars>>

FeedsNext == part = "feeds" /\ Feeds!Next /\ UNCHANGED <<part, queueVars, vars>>

NextOfAll == QueueNext \/ SellsNext \/ FeedsNext

SpecOfAll == InitOfAll /\ [][NextOfAll]_allVars

\* The fairness of ExecutionQueue!FairSpec, FairSpec of TrailingSells and WalletFeeds!FairSpec.
FairSpecOfAll ==
  /\ SpecOfAll
  /\ \A w \in Worker : WF_allVars(part = "queue" /\ Queue!Work(w) /\ UNCHANGED <<part, vars, feedsVars>>)
  /\ \A s \in Schedule : WF_allVars(part = "sells" /\ Step(s) /\ UNCHANGED <<part, queueVars, feedsVars>>)
  /\ WF_allVars(part = "sells" /\ Restart /\ UNCHANGED <<part, queueVars, feedsVars>>)
  /\ WF_allVars(part = "feeds" /\ Feeds!TimerFires /\ UNCHANGED <<part, queueVars, vars>>)
  /\ WF_allVars(part = "feeds" /\ Feeds!StrayFires /\ UNCHANGED <<part, queueVars, vars>>)
  /\ \A c \in 1 .. 4 :
       /\ WF_allVars(part = "feeds" /\ Feeds!Dialled(c) /\ UNCHANGED <<part, queueVars, vars>>)
       /\ WF_allVars(part = "feeds" /\ Feeds!Ended(c) /\ UNCHANGED <<part, queueVars, vars>>)

-----------------------------------------------------------------------------
(* The properties of the two other parts, and all types *)

TypeOfAll == Queue!TypeOK /\ TypeOK /\ Feeds!TypeOK

\* ExecutionQueue: a queued request has a worker that will look for it.
NoLostWakeup == Queue!NoLostWakeup

\* ExecutionQueue: a request that found room is handled.
QueuedIsHandled == Queue!QueuedIsHandled

\* WalletFeeds: a feed comes back after every loss.
FeedsReturn == Feeds!FeedsReturn
=============================================================================
