----------------------------- MODULE MCExecution -----------------------------
(***************************************************************************)
(* The Rust worker's executions: where a transaction is sent, what is      *)
(* bought and sold again, and the way of its record into the database.     *)
(* The three components share no state and are model-checked one at a      *)
(* time: part is chosen once, and only its component moves.                *)
(***************************************************************************)
EXTENDS Naturals, FiniteSets, Sequences, TLC

CONSTANTS
  Buys, End, Null,
  BatchRows, Chunks, Recent, Backfill, Keep, MaxLines, MaxQueue, MaxTroubles,
  Bought, Held, Plan, MaxSteps, Fee, MaxTargets,
  Fees

VARIABLES
  part,
  decided, done, writing, file, ino, rest, chunk, saved, origin, cursor, saving, seen, batch,
  rows, pc, queue, cached, table, dead, troubles,              \* ExecutionRows
  options, coin, asked, spend, reserved, buy, buyFate, held, past, context, targets, trail,
  auto, flights,                                               \* WorkerExits
  config, role, fee, transfers, left, outcome, result          \* SendLanes

Rows == INSTANCE ExecutionRows WITH Buy <- Buys, Context <- Keep, context <- seen

Landed == [b \in Buys |-> "landed"]

Plans == {[basis |-> "original", steps |-> <<50, 25, 40>>],
          [basis |-> "remaining", steps |-> <<50, 50>>]}

Exits == INSTANCE WorkerExits

Lanes == INSTANCE SendLanes

ASSUME RowsConstants == Rows!RowsAssumption
ASSUME ExitsConstants == Exits!ExitsAssumption
ASSUME LanesConstants == Lanes!LanesAssumption

rowsVars ==
  <<decided, done, writing, file, ino, rest, chunk, saved, origin, cursor, saving, seen, batch,
    rows, pc, queue, cached, table, dead, troubles>>
exitsVars ==
  <<options, coin, asked, spend, reserved, buy, buyFate, held, past, context, targets, trail,
    auto, flights>>
lanesVars == <<config, role, fee, transfers, left, outcome, result>>
vars == <<part, rowsVars, exitsVars, lanesVars>>

\* The limits of a buy do not matter to the sells: they vary where nothing is sold, and are
\* wide where something is.
LimitsOrSells ==
  \/ ~ options.trailing /\ ~ options.auto
  \/ /\ options.max = 0 /\ options.total = 0 /\ options.small = "skip" /\ options.balance = 9
     /\ options.guard /\ asked = 2

LargestChunk(n) == \A m \in Chunks : m <= n

\* The parts that do not move hold one of their initial values; the CLI path of the sidecar
\* reads by the larger chunks only.
Init ==
  /\ part \in {"rows", "exits", "lanes"}
  /\ Rows!Init /\ Exits!Init /\ Lanes!Init
  /\ part = "exits" => LimitsOrSells
  /\ part # "exits" =>
       /\ options = CHOOSE o \in Exits!Options : TRUE
       /\ coin = CHOOSE c \in Exits!Coin : TRUE
       /\ asked = 1 /\ held = 0
  /\ rest \/ LargestChunk(chunk)
  /\ part # "rows" => rest /\ LargestChunk(chunk)

\* With chunks of one line there are two lines at most: stumps and lines longer than a chunk
\* need no more.
RowsNext ==
  /\ part = "rows" /\ Rows!Next
  /\ chunk = 2 => Cardinality(done') <= 2
  /\ UNCHANGED <<part, exitsVars, lanesVars>>
ExitsNext == part = "exits" /\ Exits!Next /\ UNCHANGED <<part, rowsVars, lanesVars>>
LanesNext == part = "lanes" /\ Lanes!Next /\ UNCHANGED <<part, rowsVars, exitsVars>>

Next == RowsNext \/ ExitsNext \/ LanesNext

Spec == Init /\ [][Next]_vars

\* Executions are told apart by nothing but their names.
Symmetry == Permutations(Buys)

-----------------------------------------------------------------------------
(* The properties of the parts, and their types *)

TypeOK == Rows!TypeOK /\ Exits!TypeOK /\ Lanes!TypeOK

\* ExecutionRows: every line the saved cursor has passed is accounted for.
NothingSkipped == Rows!NothingSkipped

\* WorkerExits: the worker spends and sells as planned, however old what it reads.
PlannedAmountsOnly == Exits!PlannedAmountsOnly

\* SendLanes: a buy goes to lanes, and pays each what it asks for.
BuysPayTheirLanes == Lanes!BuysPayTheirLanes
=============================================================================
