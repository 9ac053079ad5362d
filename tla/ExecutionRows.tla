--------------------------- MODULE ExecutionRows ---------------------------
(***************************************************************************)
(* The way of an execution row from the Rust worker to the table of        *)
(* executions. live.rs appends JSON lines to a file; the sidecar           *)
(* sync-local-copy-executions-to-supabase.mjs reads them with a durable    *)
(* cursor, stores the raw rows and afterwards what the chain says of them. *)
(* A line is two blocks, the second with the newline: a reader can find    *)
(* the file between them, and a worker that dies there leaves a stump that *)
(* the next line is appended to.                                           *)
(***************************************************************************)
EXTENDS Naturals, FiniteSets, Sequences, FiniteSetsExt

CONSTANTS
  Buy,            \* executions, each the key of one row of the table
  End,            \* what becomes of each on the chain
  BatchRows,      \* maxBatchRows
  Chunks,         \* the values of maxBatchBytes, in blocks
  Recent,         \* recentLimit
  Backfill,       \* newRowBackfill
  Context,        \* contextLimit
  MaxLines, MaxQueue, MaxTroubles,   \* bounds
  Null

\* The buy's line, a later copy of it with the auto-sell, and its confirmation.
Line == [kind : {"row"}, buy : Buy, ver : 1 .. 2] \cup [kind : {"side"}, buy : Buy, ver : {1}]
Block == [line : Line, half : 1 .. 2]
Item == [buy : Buy, ver : 1 .. 2, side : BOOLEAN]
Cursor == [ino : Nat, at : Nat, skip : BOOLEAN, anchor : Block \cup {Null}, pending : SUBSET Item]
Saving == [by : {"main", "refresh", "enrich"}, cursor : Cursor]
Batch == [lines : Seq(Line), bad : SUBSET (Nat \X Nat), cursor : Cursor \cup {Null}]

RowsAssumption ==
  /\ End \in [Buy -> {"landed", "failed"}]
  /\ \A n \in {BatchRows, Recent, Context, MaxLines, MaxQueue} : n \in Nat \ {0}
  /\ Chunks \subseteq Nat \ {0, 1} /\ Backfill \in Nat
  /\ BatchRows <= Recent /\ Recent <= Context
  /\ MaxTroubles \in Nat
  /\ Null \notin Nat \cup Line \cup Block \cup Cursor \cup Saving

VARIABLES
  decided,        \* the buys the chain has decided on
  done, writing,  \* the worker's lines, and the one its buffer still holds half of
  file, ino,      \* the JSONL file and its identity
  rest, chunk,    \* whether Supabase is reached by REST; maxBatchBytes
  saved,          \* the cursor file
  origin,         \* where the first start of the sidecar began to read this file
  cursor,         \* this.cursor
  saving,         \* updateCursor between its updater and the rename
  context, batch, rows, pc,   \* the loop of main
  queue,          \* enrichmentQueue: sets of rows
  cached,         \* confirmedTransactionCache
  table,          \* copytrade_local_executions
  dead,           \* where the lines of the dead-letter file were found
  troubles        \* deaths, lost lines, failed lookups and rotations so far

worker == <<decided, done, writing, file, ino>>
settings == <<rest, chunk>>
loop == <<context, batch, rows, pc>>
sidecar == <<saved, origin, cursor, saving, loop, queue, cached>>
store == <<table, dead>>
vars == <<worker, settings, sidecar, store, troubles>>

TypeOK ==
  /\ decided \subseteq Buy
  /\ done \subseteq Line /\ writing \in Line \cup {Null}
  /\ file \in Seq(Block) /\ ino \in Nat /\ rest \in BOOLEAN /\ chunk \in Chunks
  /\ saved \in Cursor \cup {Null} /\ origin \in Nat \cup {Null}
  /\ cursor \in Cursor \cup {Null}
  /\ saving \in Saving \cup {Null}
  /\ context \in Seq(Line) /\ batch \in Batch /\ rows \subseteq Item
  /\ pc \in {"down", "stat", "read", "letter", "raw", "commit", "refresh"}
  /\ queue \in Seq(SUBSET Item) /\ cached \subseteq Buy
  /\ table \in [Buy -> [ver : 0 .. 2, chain : {"none", "submitted", "landed", "failed"}]]

-----------------------------------------------------------------------------
(* Lines and rows *)

Ends(text) == {i \in DOMAIN text : text[i].half = 2}
Begin(text, end) == Max({0} \cup {i \in Ends(text) : i < end})
Whole(text, end) ==
  /\ end - Begin(text, end) = 2
  /\ text[end - 1].line = text[end].line /\ text[end - 1].half = 1

\* The lines that end at some places of a text, in their order.
LinesAt(text, ends) ==
  LET upto[n \in 0 .. Len(text)] ==
        IF n = 0 THEN <<>>
        ELSE IF n \in ends THEN Append(upto[n - 1], text[n].line) ELSE upto[n - 1]
  IN upto[Len(text)]

\* What a crash within a rewrite in place would leave: no JSON, so no cursor.
Torn == [ino |-> 0, at |-> 0, skip |-> FALSE, anchor |-> Null, pending |-> {}]
NoBatch == [lines |-> <<>>, bad |-> {}, cursor |-> Null]

\* The complete lines of one chunk after the cursor. A line longer than the chunk is
\* reported once and then skipped up to its newline; a last line without one waits.
ReadBatch(c) ==
  LET text == SubSeq(file, c.at + 1, Min({c.at + chunk, Len(file)}))
      ends == {i \in Ends(text) : Cardinality({j \in Ends(text) : j <= i}) <= BatchRows}
      own  == {i \in ends : ~ c.skip \/ Begin(text, i) > 0}
      Past(n, skip) == [c EXCEPT !.at = @ + n, !.skip = skip, !.anchor = text[n]]
  IN CASE ends # {} ->
            [lines |-> LinesAt(text, {i \in own : Whole(text, i)}),
             bad |-> {<<ino, c.at + Begin(text, i)>> : i \in {j \in own : ~ Whole(text, j)}},
             cursor |-> Past(Max(ends), FALSE)]
       [] ends = {} /\ text # <<>> /\ (c.skip \/ Len(file) > c.at + Len(text)) ->
            [lines |-> <<>>, bad |-> IF c.skip THEN {} ELSE {<<ino, c.at>>},
             cursor |-> Past(Len(text), TRUE)]
       [] OTHER -> NoBatch

Copies(lines, b) == {i \in DOMAIN lines : lines[i].kind = "row" /\ lines[i].buy = b}
Confirmed(lines) == {lines[i].buy : i \in {j \in DOMAIN lines : lines[j].kind = "side"}}

\* The last copy of each row, with its confirmation if the lines hold it.
Merged(lines) ==
  {[buy |-> b, ver |-> lines[Max(Copies(lines, b))].ver, side |-> b \in Confirmed(lines)] :
     b \in {c \in Buy : Copies(lines, c) # {}}}

\* The lines from the n-th last execution on.
Scoped(lines, n) ==
  LET all == {i \in DOMAIN lines : lines[i].kind = "row"}
      last == {i \in all : Cardinality({j \in all : j >= i}) <= n}
  IN IF last = {} THEN <<>> ELSE SubSeq(lines, Min(last), Len(lines))

\* Of two rows with one key the later stands.
Over(new, old) == new \cup {r \in old : \A s \in new : s.buy # r.buy}

\* What main stores of a batch: the rows of its last executions and those that a
\* confirmation in it belongs to.
BatchRowsOf(lines, seen) ==
  LET new == Cardinality({i \in DOMAIN lines : lines[i].kind = "row"})
  IN Over({r \in Merged(seen) : r.buy \in Confirmed(lines)},
          Merged(Scoped(seen, Min({Recent, Max({1, new + Backfill})}))))

\* What a refresh looks up: the last execution, and those without a confirmation.
RefreshRows(seen) == Over({r \in Merged(seen) : ~ r.side}, Merged(Scoped(seen, 1)))

BuyStatus(b) == IF b \in decided THEN End[b] ELSE "submitted"

\* The chain's word on a row: from its confirmation, else from the cache or the RPC.
ChainReport(r, heard) == IF r.side \/ r.buy \in heard THEN BuyStatus(r.buy) ELSE "submitted"
Enriched(items, heard) ==
  [b \in Buy |-> IF \E r \in items : r.buy = b
                 THEN LET r == CHOOSE x \in items : x.buy = b
                      IN [ver |-> r.ver, chain |-> ChainReport(r, heard)]
                 ELSE table[b]]

\* Raw rows leave a row that is already there alone.
Inserted(items) ==
  [b \in Buy |-> IF table[b].ver = 0 /\ \E r \in items : r.buy = b
                 THEN [ver |-> (CHOOSE r \in items : r.buy = b).ver, chain |-> "none"]
                 ELSE table[b]]
-----------------------------------------------------------------------------
(* The worker *)

Trouble == troubles < MaxTroubles /\ troubles' = troubles + 1

Init ==
  /\ decided = {} /\ done = {} /\ writing = Null /\ file = <<>> /\ ino = 1
  /\ rest \in BOOLEAN /\ chunk \in Chunks
  /\ saved = Null /\ origin = Null /\ cursor = Null /\ saving = Null
  /\ context = <<>> /\ batch = NoBatch /\ rows = {} /\ pc = "down" /\ queue = <<>> /\ cached = {}
  /\ table = [b \in Buy |-> [ver |-> 0, chain |-> "none"]] /\ dead = {}
  /\ troubles = 0

Decide(b) ==
  /\ b \notin decided /\ \E line \in done : line.buy = b
  /\ decided' = decided \cup {b}
  /\ UNCHANGED <<done, writing, file, ino, settings, sidecar, store, troubles>>

\* A result line is written up to the buffer's end, or as a whole, or found no room in
\* the writer's queue.
Produce(line) ==
  /\ writing = Null /\ line \notin done /\ Cardinality(done) < MaxLines
  /\ line # [kind |-> "row", buy |-> line.buy, ver |-> 1] =>
       [kind |-> "row", buy |-> line.buy, ver |-> 1] \in done
  /\ line.kind = "side" => line.buy \in decided
  /\ done' = done \cup {line}
  /\ \/ writing' = line /\ file' = Append(file, [line |-> line, half |-> 1]) /\ UNCHANGED troubles
     \/ /\ file' = file \o <<[line |-> line, half |-> 1], [line |-> line, half |-> 2]>>
        /\ UNCHANGED <<writing, troubles>>
     \/ Trouble /\ UNCHANGED <<file, writing>>
  /\ UNCHANGED <<decided, ino, settings, sidecar, store>>

Flush ==
  /\ writing # Null
  /\ file' = Append(file, [line |-> writing, half |-> 2]) /\ writing' = Null
  /\ UNCHANGED <<decided, done, ino, settings, sidecar, store, troubles>>

\* The worker dies with the rest of a line in its buffer.
WorkerDies ==
  /\ writing # Null /\ Trouble /\ writing' = Null
  /\ UNCHANGED <<decided, done, file, ino, settings, sidecar, store>>

\* The log is rotated: the path names a new file.
Rotate ==
  /\ Trouble /\ writing = Null /\ file # <<>>
  /\ file' = <<>> /\ ino' = ino + 1
  /\ UNCHANGED <<decided, done, writing, settings, sidecar, store>>
-----------------------------------------------------------------------------
(* The sidecar *)

\* Where a sidecar without a cursor begins: at its last executions.
RecentStart ==
  LET starts == {i \in Ends(file) : Whole(file, i) /\ file[i].line.kind = "row"}
      last == {i \in starts : Cardinality({j \in starts : j >= i}) <= Recent}
  IN IF last = {} THEN Len(file) ELSE Min(last) - 2

\* initialize, and the pending rows are looked up again.
Start ==
  /\ pc = "down" /\ pc' = "stat"
  /\ LET known == saved \notin {Null, Torn}
         same == known /\ saved.ino = ino
         start == CASE same /\ saved.at <= Len(file) -> saved.at
                    [] known /\ ~ (same /\ saved.at <= Len(file)) -> 0
                    [] OTHER -> RecentStart
         pending == IF known THEN saved.pending ELSE {}
     IN /\ cursor' = [ino |-> ino, at |-> start, skip |-> same /\ saved.skip,
                      anchor |-> IF same THEN saved.anchor ELSE Null, pending |-> pending]
        /\ queue' = IF pending = {} THEN <<>> ELSE <<pending>>
        /\ origin' = CASE saved = Null -> start
                     [] saved # Null /\ start = 0 -> 0
                     [] OTHER -> origin
  /\ context' = <<>> /\ batch' = NoBatch /\ rows' = {} /\ cached' = {} /\ saving' = Null
  /\ UNCHANGED <<worker, settings, saved, store, troubles>>

Dead == /\ pc' = "down" /\ cursor' = Null /\ context' = <<>> /\ batch' = NoBatch /\ rows' = {}
        /\ queue' = <<>> /\ cached' = {} /\ saving' = Null
        /\ Trouble

\* Mutant: the cursor file is rewritten in place.
Die_Torn ==
  /\ pc # "down" /\ Dead
  /\ saved' \in {saved} \cup (IF saving = Null THEN {} ELSE {Torn, saving.cursor})
  /\ UNCHANGED <<worker, settings, origin, store>>

\* It is killed, or an error of the loop ends it; the rename is done or not.
Die ==
  /\ pc # "down" /\ Dead
  /\ saved' \in {saved} \cup (IF saving = Null THEN {} ELSE {saving.cursor})
  /\ UNCHANGED <<worker, settings, origin, store>>

\* Another file, a shorter one, or one with other bytes before the cursor: from its start.
Stat ==
  /\ pc = "stat" /\ pc' = "read"
  /\ LET same == /\ cursor.ino = ino /\ cursor.at <= Len(file)
                 /\ cursor.at > 0 /\ cursor.anchor # Null => file[cursor.at] = cursor.anchor
     IN IF same THEN UNCHANGED <<cursor, context, origin>>
        ELSE /\ cursor' = [cursor EXCEPT !.ino = ino, !.at = 0, !.skip = FALSE, !.anchor = Null]
             /\ context' = <<>> /\ origin' = 0
  /\ UNCHANGED <<worker, settings, saved, saving, batch, rows, queue, cached, store, troubles>>

Read ==
  /\ pc = "read"
  /\ LET read == ReadBatch(cursor)
         seen == context \o read.lines
         kept == SubSeq(seen, Max({1, Len(seen) - Context + 1}), Len(seen))
     IN /\ batch' = read
        /\ context' = kept
        /\ rows' = BatchRowsOf(read.lines, kept)
        /\ pc' = IF read.cursor = Null THEN "refresh" ELSE "letter"
  /\ UNCHANGED <<worker, settings, saved, origin, cursor, saving, queue, cached, store, troubles>>

PersistMalformed ==
  /\ pc = "letter" /\ pc' = "raw"
  /\ dead' = dead \cup batch.bad
  /\ UNCHANGED <<worker, settings, saved, origin, cursor, saving, context, batch, rows, queue,
                 cached, table, troubles>>

\* An RPC call answers for some of the buys; what it said is kept in memory.
Heard(heard) == cached' = cached \cup (heard \cap decided)

\* Mutant: the loop goes on after a failed upsert.
Raw_GoesOn ==
  /\ pc = "raw" /\ pc' = "commit"
  /\ \E stored \in BOOLEAN : table' = IF stored THEN Inserted(rows) ELSE table
  /\ UNCHANGED <<worker, settings, saved, origin, cursor, saving, context, batch, rows, queue,
                 cached, dead, troubles>>

\* syncRows: raw by REST, or enriched at once by the CLI. A failed call, also one whose
\* answer was lost, ends the process.
Raw ==
  /\ pc = "raw"
  /\ \E heard \in SUBSET Buy :
       /\ table' = IF rest THEN Inserted(rows) ELSE Enriched(rows, heard \cup cached)
       /\ IF rest THEN heard = {} /\ UNCHANGED cached ELSE heard \cap cached = {} /\ Heard(heard)
  /\ pc' = "commit"
  /\ UNCHANGED <<worker, settings, saved, origin, cursor, saving, context, batch, rows, queue,
                 dead, troubles>>

\* Mutant: a commit replaces the pending rows.
Commit_Replaces ==
  /\ pc = "commit" /\ saving = Null
  /\ saving' = [by |-> "main",
                cursor |-> [batch.cursor EXCEPT !.pending = IF rest THEN rows ELSE {}]]
  /\ UNCHANGED <<worker, settings, saved, origin, cursor, loop, queue, cached, store, troubles>>

Commit ==
  /\ pc = "commit" /\ saving = Null
  /\ saving' = [by |-> "main",
                cursor |-> [batch.cursor EXCEPT
                              !.pending = IF rest THEN Over(rows, cursor.pending) ELSE cursor.pending]]
  /\ UNCHANGED <<worker, settings, saved, origin, cursor, loop, queue, cached, store, troubles>>

Acknowledging == IF saving = Null THEN FALSE ELSE saving.by = "enrich"

\* A refresh is due: its rows are pending first.
Refresh ==
  /\ pc = "refresh" /\ saving = Null /\ context # <<>> /\ Len(queue) < MaxQueue
  /\ saving' = [by |-> "refresh",
                cursor |-> [cursor EXCEPT !.pending = Over(RefreshRows(context), @)]]
  /\ UNCHANGED <<worker, settings, saved, origin, cursor, loop, queue, cached, store, troubles>>

NoRefresh ==
  /\ pc = "refresh" /\ (saving = Null \/ Acknowledging) /\ pc' = "stat"
  /\ UNCHANGED <<worker, settings, saved, origin, cursor, saving, context, batch, rows, queue,
                 cached, store, troubles>>

\* The rows at the head of the queue are looked up and merged into the table.
Enrich ==
  /\ pc # "down" /\ queue # <<>> /\ saving = Null
  /\ \E heard \in SUBSET ({r.buy : r \in {x \in Head(queue) : ~ x.side}} \ cached) :
       Heard(heard) /\ table' = Enriched(Head(queue), heard \cup cached)
  /\ saving' = [by |-> "enrich", cursor |-> [cursor EXCEPT !.pending = @ \ Head(queue)]]
  /\ UNCHANGED <<worker, settings, saved, origin, cursor, loop, queue, dead, troubles>>

\* A failed lookup is only logged, whether it reached the table or not; so is an
\* acknowledgement that cannot be written.
EnrichFails ==
  /\ pc # "down" /\ queue # <<>> /\ Trouble
  /\ queue' = Tail(queue)
  /\ IF Acknowledging
     THEN saving' = Null /\ UNCHANGED table
     ELSE table' \in {table, Enriched(Head(queue), cached)} /\ UNCHANGED saving
  /\ UNCHANGED <<worker, settings, saved, origin, cursor, loop, cached, dead>>

\* The cursor file is replaced, and its writer goes on.
Save ==
  /\ saving # Null
  /\ saved' = saving.cursor /\ cursor' = saving.cursor /\ saving' = Null
  /\ CASE saving.by = "main" ->
            /\ queue' = IF rest /\ rows # {} THEN Append(queue, rows) ELSE queue
            /\ pc' = "refresh" /\ batch' = NoBatch /\ rows' = {}
       [] saving.by = "refresh" ->
            queue' = Append(queue, RefreshRows(context)) /\ pc' = "stat" /\ UNCHANGED <<batch, rows>>
       [] saving.by = "enrich" -> queue' = Tail(queue) /\ UNCHANGED <<pc, batch, rows>>
  /\ UNCHANGED <<worker, settings, origin, context, cached, store, troubles>>
Next ==
  \/ \E b \in Buy : Decide(b)
  \/ \E line \in Line : Produce(line)
  \/ Flush \/ WorkerDies \/ Rotate
  \/ Start \/ Die \/ Stat \/ Read \/ PersistMalformed \/ Raw \/ Commit \/ Refresh \/ NoRefresh
  \/ Enrich \/ EnrichFails \/ Save

Spec == Init /\ [][Next]_vars
-----------------------------------------------------------------------------
(* Properties *)

\* Whether the saved cursor speaks of the file that is there now.
SavedHere ==
  /\ saved # Null /\ saved.ino = ino /\ saved.at <= Len(file)
  /\ saved.at > 0 /\ saved.anchor # Null => file[saved.at] = saved.anchor

\* Every complete line the saved cursor has passed (sync main 2111-2161) is accounted for
\* across crashes, failed calls, stumps, oversized lines and rotation: an execution is in
\* the table, in the passed copy or a later one or with one pending; a row the chain was
\* not asked about is pending; and what does not parse is in the dead-letter file.
NothingSkipped ==
  SavedHere =>
    \A end \in {i \in Ends(file) : i <= saved.at /\ Begin(file, i) >= origin} :
      LET line == file[end].line
          pending == {r \in saved.pending : r.buy = line.buy}
      IN IF Whole(file, end)
         THEN line.kind = "row" =>
                /\ table[line.buy].ver > 0
                /\ rest /\ ino = 1 => table[line.buy].ver >= line.ver \/ \E r \in pending : r.ver >= line.ver
                /\ table[line.buy].chain = "none" => pending # {}
         ELSE <<ino, Begin(file, end)>> \in dead
=============================================================================
