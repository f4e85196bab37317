------------------------------ MODULE QueryLog ------------------------------
(***************************************************************************)
(* Statistics and the query log (src/src/stats.rs, the writer task of      *)
(* src/src/main.rs, the query_log table of src/src/db.rs): what a query    *)
(* leaves behind when it has been answered, on its way through counters    *)
(* and rings in memory and through a bounded queue to a table that is      *)
(* pruned.  Queries are recorded concurrently; each lock of Stats is taken *)
(* and released in a step of its own.                                      *)
(***************************************************************************)
EXTENDS Integers, Sequences, FiniteSetsExt

CONSTANTS
  Tasks,        \* queries handled at the same time
  Domains,      \* names asked for
  Blocked,      \* those the filter blocks
  Window,       \* SERIES_WINDOW
  Output,       \* SERIES_OUTPUT
  TopTrackCap,  \* TOP_TRACK_CAP
  RecentCap,    \* RECENT_CAPACITY
  QueueCap,     \* capacity of the channel to the writer
  BatchCap,     \* how many entries recv_many takes
  MaxRows,      \* MAX_ROWS
  Worlds        \* what is explored: see World

\* Which settings and names there are, and how often things happen at most.
World == [modes : SUBSET BOOLEAN, names : SUBSET Domains,
          queries : Nat, clock : Nat, restarts : Nat, clears : Nat]

ASSUME QueryLogAssumption ==
  /\ IsFiniteSet(Domains) /\ Blocked \subseteq Domains
  /\ {Window, Output, QueueCap, BatchCap, RecentCap} \subseteq Nat \ {0}
  /\ Output <= Window
  /\ {TopTrackCap, MaxRows} \subseteq Nat
  /\ Worlds \subseteq World

VARIABLES
  world,     \* the one of Worlds that is explored; it never changes
  logging,   \* setting query_log is not Off
  clock,     \* seconds since the process started
  task,      \* [Tasks -> the query being recorded and the next step]
  series,    \* [buckets, last]: the ring of queries per second
  top,       \* [{"domains", "blocked"} -> [Domains -> count]], 0 for none
  recent,    \* the ring of recent queries
  queue,     \* the channel to the writer
  writer,    \* [pc, buf]
  rows,      \* table query_log: [ids -> entries]
  clearing,  \* the locks clear_log has still to take
  restarts, clears, queries,
  perSec, asked, done  \* history: queries by second, by name, and finished

memory == <<task, series, top, recent, queue, writer, clearing, perSec, asked>>
bounds == <<restarts, clears, queries>>
vars == <<world, logging, clock, memory, rows, bounds, done>>

Tables == {"domains", "blocked"}
Idle == [pc |-> "idle"]
NoCounts == [t \in Tables |-> [d \in Domains |-> 0]]

NoSeries == [buckets |-> [i \in 0 .. Window - 1 |-> 0], last |-> 0]

Init ==
  /\ world \in Worlds
  /\ logging \in world.modes
  /\ clock = 0
  /\ task = [t \in Tasks |-> Idle]
  /\ series = NoSeries /\ top = NoCounts /\ recent = <<>> /\ clearing = <<>>
  /\ queue = <<>> /\ writer = [pc |-> "recv", buf |-> <<>>]
  /\ perSec = [s \in 0 .. world.clock |-> 0] /\ asked = NoCounts
  /\ rows = <<>> /\ done = {}
  /\ restarts = 0 /\ clears = 0 /\ queries = 0

-----------------------------------------------------------------------------
(* The ring of queries per second. *)

\* Mutant of Bump: the bucket of the new second is not emptied.
BumpKeeps(s, sec) ==
  LET gap   == IF sec - s.last < Window THEN sec - s.last ELSE Window
      stale == {(s.last + i) % Window : i \in 1 .. gap - 1}
      clean == [i \in 0 .. Window - 1 |-> IF i \in stale THEN 0 ELSE s.buckets[i]]
  IN  [buckets |-> [clean EXCEPT ![sec % Window] = @ + 1], last |-> sec]

Bump(s, sec) ==
  LET gap   == IF sec - s.last < Window THEN sec - s.last ELSE Window
      stale == {(s.last + i) % Window : i \in 1 .. gap}
      clean == [i \in 0 .. Window - 1 |-> IF i \in stale THEN 0 ELSE s.buckets[i]]
  IN  [buckets |-> [clean EXCEPT ![sec % Window] = @ + 1], last |-> sec]

\* recent and qps: the second sec as the dashboard sees it.
Bucket(sec) == IF sec > series.last THEN 0 ELSE series.buckets[sec % Window]

-----------------------------------------------------------------------------
(* Recording a query: record_stat and Stats::record. *)

\* The query has been answered; the setting is read.
Begin(t, d) ==
  /\ task[t] = Idle /\ queries < world.queries
  /\ queries' = queries + 1
  /\ task' = [task EXCEPT ![t] =
       [pc |-> "count", name |-> d, log |-> logging, e |-> [n |-> queries', after |-> done]]]
  /\ UNCHANGED <<world, logging, clock, series, top, recent, queue, writer, clearing, rows,
                 restarts, clears, perSec, asked, done>>

Finish(t) ==
  /\ task' = [task EXCEPT ![t] = Idle]
  /\ done' = done \cup {task[t].e.n}

Goto(t, l) == task' = [task EXCEPT ![t].pc = l] /\ done' = done

\* The ring, with the time taken while it is locked.  The counters, which only
\* grow, are left out.
Count(t) ==
  /\ task[t].pc = "count"
  /\ series' = Bump(series, clock)
  /\ perSec' = [perSec EXCEPT ![clock] = @ + 1]
  /\ IF ~task[t].log THEN Finish(t)
     ELSE Goto(t, IF task[t].name \in Blocked THEN "blocked" ELSE "domains")
  /\ UNCHANGED <<world, logging, clock, top, recent, queue, writer, clearing, rows, bounds, asked>>

\* Mutant of Tracked: a full table counts nothing any more.
TrackedIfRoom(c, d) ==
  IF Cardinality({x \in Domains : c[x] > 0}) < TopTrackCap
  THEN [c EXCEPT ![d] = @ + 1] ELSE c

\* One more query for d in a table that tracks so many names.
Tracked(c, d) ==
  IF Cardinality({x \in Domains : c[x] > 0}) < TopTrackCap \/ c[d] > 0
  THEN [c EXCEPT ![d] = @ + 1] ELSE c

Track(t, table) ==
  /\ task[t].pc = table
  /\ top' = [top EXCEPT ![table] = Tracked(@, task[t].name)]
  /\ asked' = [asked EXCEPT ![table][task[t].name] = @ + 1]
  /\ Goto(t, IF table = "blocked" THEN "domains" ELSE "recent")
  /\ UNCHANGED <<world, logging, clock, series, recent, queue, writer, clearing, rows, bounds, perSec>>

Remember(t) ==
  /\ task[t].pc = "recent"
  /\ recent' = Append(IF Len(recent) = RecentCap THEN Tail(recent) ELSE recent, task[t].e)
  /\ Goto(t, "send")
  /\ UNCHANGED <<world, logging, clock, series, top, queue, writer, clearing, rows, bounds, perSec, asked>>

\* log_query: what does not fit is dropped.
LogQuery(t) ==
  /\ task[t].pc = "send"
  /\ queue' = IF Len(queue) < QueueCap THEN Append(queue, task[t].e) ELSE queue
  /\ Finish(t)
  /\ UNCHANGED <<world, logging, clock, series, top, recent, writer, clearing, rows, bounds, perSec, asked>>

Record(t) ==
  \/ Count(t) \/ Remember(t) \/ LogQuery(t)
  \/ \E table \in Tables : Track(t, table)

-----------------------------------------------------------------------------
(* The writer. *)

MaxId == Max({0} \cup DOMAIN rows)

\* prune_query_log.
Pruned(k) == [i \in {j \in DOMAIN rows : j > MaxId - k} |-> rows[i]]

Batch == IF Len(queue) < BatchCap THEN Len(queue) ELSE BatchCap

\* recv_many waits for the first entry.
Recv ==
  /\ writer.pc = "recv" /\ queue # <<>>
  /\ writer' = [pc |-> "insert", buf |-> writer.buf \o SubSeq(queue, 1, Batch)]
  /\ queue' = SubSeq(queue, Batch + 1, Len(queue))
  /\ UNCHANGED <<world, logging, clock, task, series, top, recent, clearing, rows, bounds, perSec, asked, done>>

\* SQLite gives a new row the id after the largest one in the table.
Inserted ==
  [i \in DOMAIN rows \cup (MaxId + 1 .. MaxId + Len(writer.buf)) |->
     IF i \in DOMAIN rows THEN rows[i] ELSE writer.buf[i - MaxId]]

\* Mutant of Insert: the buffer is handed on and kept.
InsertKeeps ==
  /\ writer.pc = "insert"
  /\ rows' = Inserted
  /\ writer' = [writer EXCEPT !.pc = "prune"]
  /\ UNCHANGED <<world, logging, clock, task, series, top, recent, queue, clearing, bounds, perSec, asked, done>>

\* insert_queries, one transaction; the buffer was taken.
Insert ==
  /\ writer.pc = "insert"
  /\ rows' = Inserted
  /\ writer' = [pc |-> "prune", buf |-> <<>>]
  /\ UNCHANGED <<world, logging, clock, task, series, top, recent, queue, clearing, bounds, perSec, asked, done>>

\* Mutant of InsertFails: the task ends.
InsertStops ==
  /\ writer.pc = "insert"
  /\ writer' = [pc |-> "stopped", buf |-> <<>>]
  /\ UNCHANGED <<world, logging, clock, task, series, top, recent, queue, clearing, rows, bounds, perSec, asked, done>>

\* The transaction fails and the batch is gone.
InsertFails ==
  /\ writer.pc = "insert"
  /\ writer' = [pc |-> "prune", buf |-> <<>>]
  /\ UNCHANGED <<world, logging, clock, task, series, top, recent, queue, clearing, rows, bounds, perSec, asked, done>>

\* Mutant of Prune: as many rows go as are to stay.
PruneWrong ==
  /\ writer.pc = "prune"
  /\ rows' = [i \in {j \in DOMAIN rows : j > MaxRows} |-> rows[i]]
  /\ writer' = [writer EXCEPT !.pc = "recv"]
  /\ UNCHANGED <<world, logging, clock, task, series, top, recent, queue, clearing, bounds, perSec, asked, done>>

Prune ==
  /\ writer.pc = "prune"
  /\ rows' = Pruned(MaxRows)
  /\ writer' = [writer EXCEPT !.pc = "recv"]
  /\ UNCHANGED <<world, logging, clock, task, series, top, recent, queue, clearing, bounds, perSec, asked, done>>

\* Its result is not looked at.
PruneFails ==
  /\ writer.pc = "prune"
  /\ writer' = [writer EXCEPT !.pc = "recv"]
  /\ UNCHANGED <<world, logging, clock, task, series, top, recent, queue, clearing, rows, bounds, perSec, asked, done>>

Write == Recv \/ Insert \/ InsertFails \/ Prune \/ PruneFails

-----------------------------------------------------------------------------
(* Requests, time and restarts. *)

SetLogging(b) ==
  /\ logging' = b
  /\ UNCHANGED <<world, clock, memory, rows, bounds, done>>

\* clear_query_log.
ClearQueryLog ==
  /\ clears < world.clears /\ clears' = clears + 1
  /\ rows' = Pruned(0)
  /\ UNCHANGED <<world, logging, clock, memory, restarts, queries, done>>

\* clear_stats: clear_log takes three locks one after the other.
ClearStats ==
  /\ clearing = <<>> /\ clears < world.clears /\ clears' = clears + 1
  /\ clearing' = <<"recent", "domains", "blocked">>
  /\ UNCHANGED <<world, logging, clock, task, series, top, recent, queue, writer, rows,
                 restarts, queries, perSec, asked, done>>

ClearOne ==
  /\ clearing # <<>> /\ clearing' = Tail(clearing)
  /\ LET c == Head(clearing)
     IN  IF c = "recent" THEN recent' = <<>> /\ UNCHANGED <<top, asked>>
         ELSE /\ top' = [top EXCEPT ![c] = [d \in Domains |-> 0]]
              /\ asked' = [asked EXCEPT ![c] = [d \in Domains |-> 0]]
              /\ recent' = recent
  /\ UNCHANGED <<world, logging, clock, task, series, queue, writer, rows, bounds, perSec, done>>

Tick ==
  /\ clock < world.clock /\ clock' = clock + 1
  /\ UNCHANGED <<world, logging, memory, rows, bounds, done>>

\* The process stops, whether it is asked to or not, and starts again: the
\* table is what is left.
Restart ==
  /\ restarts < world.restarts /\ restarts' = restarts + 1
  /\ clock' = 0
  /\ task' = [t \in Tasks |-> Idle]
  /\ series' = NoSeries /\ top' = NoCounts /\ recent' = <<>> /\ clearing' = <<>>
  /\ queue' = <<>> /\ writer' = [pc |-> "recv", buf |-> <<>>]
  /\ perSec' = [s \in 0 .. world.clock |-> 0] /\ asked' = NoCounts
  /\ UNCHANGED <<world, logging, rows, clears, queries, done>>

Next ==
  \/ \E t \in Tasks : Record(t) \/ \E d \in world.names : Begin(t, d)
  \/ Write \/ ClearOne
  \/ \E b \in world.modes : SetLogging(b)
  \/ ClearQueryLog \/ ClearStats \/ Tick \/ Restart

\* Tasks that can go on do.
Fairness ==
  /\ WF_vars(Write) /\ WF_vars(ClearOne)
  /\ \A t \in Tasks : WF_vars(Record(t))

Spec == Init /\ [][Next]_vars /\ Fairness

-----------------------------------------------------------------------------
(* Properties. *)

\* The ring never shows another count for a second than there were queries in
\* it, to a dashboard that took the time up to Window - Output seconds before
\* it got the lock (recent, qps): slots are emptied in time however long no
\* query came.
SeriesExact ==
  \A now \in 0 .. clock :
    clock - now <= Window - Output =>
      \A s \in 0 .. now : s > now - Output => Bucket(s) = perSec[s]

\* A name in the table of top names has been counted every time since the
\* table was cleared, and one is missing only from a full table (record
\* tests the size and the key under one lock).
TopExact ==
  \A t \in Tables : \A d \in Domains :
    \/ top[t][d] = asked[t][d]
    \/ top[t][d] = 0 /\ Cardinality({x \in Domains : top[t][x] > 0}) = TopTrackCap

\* a may be logged before b: it is another query, and was not begun after b
\* was finished.
Before(a, b) == a.n # b.n /\ b.n \notin a.after

Ordered(s) == \A i, j \in 1 .. Len(s) : i < j => Before(s[i], s[j])

\* No query is logged twice, whatever fails, and none before another that was
\* finished when it came in: what query_log_page relies on when it sorts by id
\* instead of by time.  The same holds of the recent queries.  The ids are
\* consecutive, on which pruning rests (prune_query_log counts ids, not rows),
\* and every buffer on the way keeps its bound.
LogLinear ==
  /\ Ordered(recent)
  /\ Ordered(writer.buf \o queue)
  /\ \A i \in DOMAIN rows :
       /\ \A j \in DOMAIN rows : i < j => Before(rows[i], rows[j])
       /\ \A k \in 1 .. Len(writer.buf \o queue) : Before(rows[i], (writer.buf \o queue)[k])
  /\ \A i, j \in DOMAIN rows : i .. j \subseteq DOMAIN rows
  /\ Len(queue) <= QueueCap /\ Len(writer.buf) <= BatchCap /\ Len(recent) <= RecentCap

\* The ids that a step deletes, and those it leaves.
Deleted == DOMAIN rows \ DOMAIN rows'
Kept == DOMAIN rows \ Deleted

\* Rows do not change and new ones come last.  They are deleted oldest first,
\* by the writer never one of the newest MaxRows, and after its pruning no
\* more than those are left.
KeepsNewest ==
  [][/\ \A i \in Kept : rows'[i] = rows[i]
     /\ \A i \in DOMAIN rows' \ DOMAIN rows : \A j \in DOMAIN rows : j < i
     /\ \A i \in Deleted, j \in Kept : i < j
     /\ Deleted = {} \/ clears' > clears \/ Cardinality(Kept) >= MaxRows
     /\ writer.pc = "prune" /\ rows' # rows => Cardinality(DOMAIN rows') <= MaxRows]_vars

\* What was queued is written or given up: no failure stops the writer.
Drained == <>[](queue = <<>> /\ writer = [pc |-> "recv", buf |-> <<>>])

=============================================================================
