--------------------------- MODULE QueryLogProofs ---------------------------
(***************************************************************************)
(* Proofs about QueryLog for any number of queries recorded at a time, any *)
(* names, any window of the ring and any bounds on the tables, the         *)
(* channel, the batches and the rows: the dashboard's numbers are exact,   *)
(* the log is in an order in which the queries can have come, and pruning  *)
(* takes away the oldest rows only.                                        *)
(***************************************************************************)
EXTENDS QueryLog, FiniteSetTheorems, SequenceTheorems, TLAPS

\* The query a task is recording.
Steps == {"count", "blocked", "domains", "recent", "send"}
Entry == [n : Nat, after : SUBSET Nat]
Recording == [pc : Steps, name : Domains, log : BOOLEAN, e : Entry]

\* What a task is doing, and the counts by name and second.
StatsTypes ==
  /\ world \in World /\ clock \in 0 .. world.clock /\ logging \in BOOLEAN
  /\ queries \in Nat /\ done \in SUBSET Nat
  /\ task \in [Tasks -> {Idle} \cup Recording]
  /\ top \in [Tables -> [Domains -> Nat]] /\ asked \in [Tables -> [Domains -> Nat]]
  /\ clearing \in {<<>>, <<"blocked">>, <<"domains", "blocked">>,
                   <<"recent", "domains", "blocked">>}

\* The slots of the seconds that the ring still covers hold their counts;
\* after the last of them there was no query.
RingInv ==
  /\ series \in [buckets : [0 .. Window - 1 -> Nat], last : 0 .. clock]
  /\ perSec \in [0 .. world.clock -> Nat]
  /\ \A s \in 0 .. world.clock :
       /\ s > series.last => perSec[s] = 0
       /\ s <= series.last /\ s > series.last - Window
            => series.buckets[s % Window] = perSec[s]

\* How many names a table tracks.
Tracks(c) == Cardinality({x \in Domains : c[x] > 0})

\* The counts c are those of a, up to names missing from a full table.
Counts(c, a) ==
  /\ Tracks(c) <= TopTrackCap
  /\ \A d \in Domains : c[d] = a[d] \/ (c[d] = 0 /\ Tracks(c) = TopTrackCap)

\* So it is for every table.
TopInv == \A t \in Tables : Counts(top[t], asked[t])

\* A query that was begun when q had come in; of those it came after, d says
\* that they were finished.
Begun(x, q, d) == x \in Entry /\ x.n <= q /\ x.after \subseteq d

\* A query on its way to the log, or there, is finished.
Logged(x, q, d) == Begun(x, q, d) /\ x.n \in d

\* One that is being recorded is not, and is another than those of the other
\* tasks.
TasksInv ==
  /\ \A n \in done : n <= queries
  /\ \A t \in Tasks :
       task[t] # Idle => Begun(task[t].e, queries, done) /\ task[t].e.n \notin done
  /\ \A t, u \in Tasks :
       t # u /\ task[t] # Idle /\ task[u] # Idle => task[t].e.n # task[u].e.n

\* A task that has still to remember its query.
Early(t) == task[t] # Idle /\ task[t].pc # "send"

\* The recent queries are in order, and none comes twice.
RecentInv ==
  /\ recent \in Seq(Entry) /\ Len(recent) <= RecentCap
  /\ \A i \in 1 .. Len(recent) : Begun(recent[i], queries, done)
  /\ \A i \in 1 .. Len(recent), t \in Tasks : Early(t) => recent[i].n # task[t].e.n
  /\ Ordered(recent)

\* The entries on their way to the table.
Waiting == writer.buf \o queue

\* They are finished and in order; the writer has a batch only to insert it.
WaitingInv ==
  /\ queue \in Seq(Entry) /\ Len(queue) <= QueueCap
  /\ writer \in [pc : {"recv", "insert", "prune"}, buf : Seq(Entry)]
  /\ Len(writer.buf) <= BatchCap /\ (writer.pc # "insert" => writer.buf = <<>>)
  /\ \A i \in 1 .. Len(Waiting) : Logged(Waiting[i], queries, done)
  /\ Ordered(Waiting)

\* The ids are those from lo to hi.
IdsAre(lo, hi) == lo \in Nat \ {0} /\ hi \in Nat /\ DOMAIN rows = lo .. hi

\* So are the rows, on consecutive ids and before all that waits.
RowsInv ==
  /\ \E lo \in Nat, hi \in Nat : IdsAre(lo, hi)
  /\ \A i \in DOMAIN rows :
       /\ Logged(rows[i], queries, done)
       /\ \A j \in DOMAIN rows : i < j => Before(rows[i], rows[j])
       /\ \A k \in 1 .. Len(Waiting) : Before(rows[i], Waiting[k])

\* The inductive invariant.
QueryLogInv ==
  StatsTypes /\ RingInv /\ TopInv /\ TasksInv /\ RecentInv /\ WaitingInv /\ RowsInv

-----------------------------------------------------------------------------
(* Remainders. *)

\* Division with remainder.
LEMMA Parts ==
  ASSUME NEW a \in Nat, NEW w \in Nat \ {0}
  PROVE  /\ a % w \in 0 .. w - 1 /\ a \div w \in Nat
         /\ a = (w * (a \div w)) + (a % w)
  OBVIOUS

\* Different multiples of w are w apart, at least.
LEMMA Multiples ==
  ASSUME NEW w \in Nat \ {0}, NEW x \in Int, NEW y \in Int, x < y
  PROVE  (w * x) + w <= w * y
  OBVIOUS

\* A multiple of w does not change the remainder.
LEMMA Remainder ==
  ASSUME NEW w \in Nat \ {0}, NEW q \in Nat, NEW r \in 0 .. w - 1
  PROVE  ((w * q) + r) % w = r
<1> DEFINE a == (w * q) + r
<1> DEFINE p == a \div w  m == a % w
<1>1. a \in Nat
  OBVIOUS
<1>2. m \in 0 .. w - 1 /\ p \in Nat /\ a = (w * p) + m
  BY <1>1, Parts, Zenon
<1>3. a = (w * q) + r
  OBVIOUS
<1> HIDE DEF a, p, m
<1>4. CASE p = q
  <2>1. (w * p) + m = (w * p) + r
    BY <1>2, <1>3, <1>4, Zenon
  <2>2. w * p \in Int
    BY <1>2
  <2>3. m = r
    BY <1>2, <2>1, <2>2
  <2> QED  BY <2>3, Zenon DEF m, a
<1>5. CASE p < q
  <2>1. (w * p) + w <= w * q
    BY <1>2, <1>5, Multiples
  <2>2. w * p \in Int /\ w * q \in Int
    BY <1>2
  <2> QED  BY <1>2, <1>3, <2>1, <2>2
<1>6. CASE q < p
  <2>1. (w * q) + w <= w * p
    BY <1>2, <1>6, Multiples
  <2>2. w * p \in Int /\ w * q \in Int
    BY <1>2
  <2> QED  BY <1>2, <1>3, <2>1, <2>2
<1> QED  BY <1>2, <1>4, <1>5, <1>6

\* Of w seconds in a row no two share a slot of the ring.
LEMMA Apart ==
  ASSUME NEW w \in Nat \ {0}, NEW a \in Nat, NEW b \in Nat, a < b, b - a < w
  PROVE  a % w # b % w
<1> SUFFICES ASSUME a % w = b % w PROVE FALSE
  OBVIOUS
<1> DEFINE p == a \div w  q == b \div w  r == a % w
<1>1. p \in Nat /\ q \in Nat /\ r \in 0 .. w - 1 /\ a = (w * p) + r /\ b = (w * q) + r
  BY Parts, Zenon
<1> HIDE DEF p, q, r
<1>2. p < q
  <2>1. CASE p = q
    BY <1>1, <2>1
  <2>2. CASE q < p
    <3>1. (w * q) + w <= w * p
      BY <1>1, <2>2, Multiples
    <3> QED  BY <1>1, <3>1
  <2> QED  BY <1>1, <2>1, <2>2
<1>3. (w * p) + w <= w * q
  BY <1>1, <1>2, Multiples
<1> QED  BY <1>1, <1>3

\* w seconds in a row use every slot of the ring.
LEMMA Covers ==
  ASSUME NEW w \in Nat \ {0}, NEW a \in Nat, NEW r \in 0 .. w - 1
  PROVE  \E i \in 1 .. w : (a + i) % w = r
<1> DEFINE q == a \div w  m == a % w
<1>1. m \in 0 .. w - 1 /\ q \in Nat /\ a = (w * q) + m
  BY Parts, Zenon
<1> HIDE DEF q, m
<1>2. w * q \in Nat /\ w * (q + 1) = (w * q) + w
  BY <1>1
<1>3. CASE m < r
  <2>1. r - m \in 1 .. w /\ a + (r - m) = (w * q) + r
    BY <1>1, <1>2, <1>3
  <2>2. ((w * q) + r) % w = r
    BY <1>1, Remainder, Zenon
  <2> QED  BY <2>1, <2>2, Zenon
<1>4. CASE r <= m
  <2>1. (r - m) + w \in 1 .. w /\ a + ((r - m) + w) = (w * (q + 1)) + r
    BY <1>1, <1>2, <1>4
  <2>2. q + 1 \in Nat
    BY <1>1
  <2>3. ((w * (q + 1)) + r) % w = r
    BY <2>2, Remainder, Zenon
  <2> QED  BY <2>1, <2>3, Zenon
<1> QED  BY <1>1, <1>3, <1>4

-----------------------------------------------------------------------------
(* The ring of queries per second. *)

\* Series::bump empties the slots of the seconds since the last query, and
\* those only.
LEMMA BumpOK ==
  ASSUME StatsTypes, RingInv, series' = Bump(series, clock),
         perSec' = [perSec EXCEPT ![clock] = @ + 1], UNCHANGED <<world, clock>>
  PROVE  RingInv'
<1> DEFINE L     == series.last
           B     == series.buckets
           gap   == IF clock - L < Window THEN clock - L ELSE Window
           stale == {(L + i) % Window : i \in 1 .. gap}
           clean == [i \in 0 .. Window - 1 |-> IF i \in stale THEN 0 ELSE B[i]]
<1>1. Window \in Nat \ {0} /\ clock \in 0 .. world.clock /\ world.clock \in Nat /\ clock \in Nat
  BY QueryLogAssumption DEF StatsTypes, World
<1>2. /\ L \in 0 .. clock /\ B \in [0 .. Window - 1 -> Nat]
      /\ perSec \in [0 .. world.clock -> Nat]
  BY Zenon DEF RingInv
<1>3. \A s \in 0 .. world.clock :
        /\ s > L => perSec[s] = 0
        /\ s <= L /\ s > L - Window => B[s % Window] = perSec[s]
  BY Zenon DEF RingInv
<1>4. series' = [buckets |-> [clean EXCEPT ![clock % Window] = @ + 1], last |-> clock]
  BY Zenon DEF Bump
<1>5. gap \in Nat /\ gap <= Window /\ (gap < Window => gap = clock - L)
      /\ (gap = clock - L \/ (gap = Window /\ clock - L >= Window))
  BY <1>1, <1>2
<1>6. \A s \in Nat : s % Window \in 0 .. Window - 1
  BY <1>1, Parts, Zenon
<1>7. \A i \in 0 .. Window - 1 : clean[i] = IF i \in stale THEN 0 ELSE B[i]
  BY Zenon
<1>8. \A x : x \in stale <=> \E i \in 1 .. gap : x = (L + i) % Window
  BY Zenon
<1>9. clean \in [0 .. Window - 1 -> Nat]
  BY <1>2, Zenon
<1> HIDE DEF L, B, gap, stale, clean
<1>10. ASSUME NEW s \in 0 .. world.clock, s <= clock, s > clock - Window
       PROVE  clean[s % Window] = perSec[s]
  <2>1. s \in Nat /\ s % Window \in 0 .. Window - 1
    BY <1>1, <1>6
  <2>2. CASE s <= L
    <3>1. gap = clock - L /\ s > L - Window
      BY <1>1, <1>2, <1>5, <1>10, <2>1, <2>2
    <3>2. ASSUME NEW i \in 1 .. gap PROVE s % Window # (L + i) % Window
      <4>1. L + i \in Nat /\ s < L + i /\ (L + i) - s < Window
        BY <1>1, <1>2, <1>10, <2>1, <2>2, <3>1
      <4> QED  BY <1>1, <2>1, <4>1, Apart, Zenon
    <3>3. s % Window \notin stale
      BY <1>8, <3>2, Zenon
    <3>4. B[s % Window] = perSec[s]
      BY <1>3, <2>2, <3>1, Zenon
    <3> QED  BY <1>7, <2>1, <3>3, <3>4, Zenon
  <2>3. CASE s > L
    <3>1. perSec[s] = 0
      BY <1>3, <2>3, Zenon
    <3>2. s % Window \in stale
      <4>1. CASE gap = clock - L
        <5>1. s - L \in 1 .. gap /\ L + (s - L) = s
          BY <1>1, <1>2, <1>10, <2>1, <2>3, <4>1
        <5> QED  BY <1>8, <5>1, Zenon
      <4>2. CASE gap = Window
        <5>1. L \in Nat
          BY <1>1, <1>2
        <5>2. \E i \in 1 .. Window : (L + i) % Window = s % Window
          BY <1>1, <2>1, <5>1, Covers, Zenon
        <5> QED  BY <1>8, <4>2, <5>2, Zenon
      <4> QED  BY <1>5, <4>1, <4>2, Zenon
    <3> QED  BY <1>7, <2>1, <3>1, <3>2, Zenon
  <2> QED  BY <1>1, <1>2, <2>1, <2>2, <2>3
<1>11. /\ series'.last = clock
       /\ series'.buckets = [clean EXCEPT ![clock % Window] = @ + 1]
  BY <1>4
<1>12. clean[clock % Window] + 1 \in Nat /\ clock % Window \in 0 .. Window - 1
  <2>1. clock % Window \in 0 .. Window - 1
    BY <1>1, <1>6, Zenon
  <2>2. clean[clock % Window] \in Nat
    BY <1>9, <2>1, Zenon
  <2> QED  BY <2>1, <2>2
<1>13. /\ series'.buckets \in [0 .. Window - 1 -> Nat]
       /\ series'.buckets[clock % Window] = clean[clock % Window] + 1
       /\ \A i \in 0 .. Window - 1 : i # clock % Window => series'.buckets[i] = clean[i]
  BY <1>9, <1>11, <1>12, Zenon
<1>14. /\ perSec' \in [0 .. world.clock -> Nat] /\ perSec'[clock] = perSec[clock] + 1
       /\ \A s \in 0 .. world.clock : s # clock => perSec'[s] = perSec[s]
  BY <1>1, <1>2
<1>15. ASSUME NEW s \in 0 .. world.clock, s > clock PROVE perSec'[s] = 0
  <2>1. s # clock /\ s > L
    BY <1>1, <1>2, <1>15
  <2> QED  BY <1>3, <1>14, <2>1, Zenon
<1>16. ASSUME NEW s \in 0 .. world.clock, s <= clock, s > clock - Window
       PROVE  series'.buckets[s % Window] = perSec'[s]
  <2>1. clean[s % Window] = perSec[s]
    BY <1>10, <1>16, Zenon
  <2>2. CASE s = clock
    BY <1>13, <1>14, <2>1, <2>2, Zenon
  <2>3. CASE s # clock
    <3>1. s \in Nat /\ s < clock /\ clock - s < Window /\ s % Window \in 0 .. Window - 1
      BY <1>1, <1>6, <1>16, <2>3
    <3>2. s % Window # clock % Window
      BY <1>1, <3>1, Apart, Zenon
    <3> QED  BY <1>13, <1>14, <2>1, <2>3, <3>1, <3>2, Zenon
  <2> QED  BY <2>2, <2>3, Zenon
<1>17. series' \in [buckets : [0 .. Window - 1 -> Nat], last : 0 .. clock]
  BY <1>1, <1>4, <1>11, <1>13
<1> QED  BY <1>11, <1>14, <1>15, <1>16, <1>17, Zenon DEF RingInv

\* A ring that was just made.
LEMMA NewRingOK ==
  ASSUME world \in World, clock = 0, series = NoSeries,
         perSec = [s \in 0 .. world.clock |-> 0]
  PROVE  RingInv
<1>1. Window \in Nat \ {0} /\ world.clock \in Nat
  BY QueryLogAssumption, Zenon DEF World
<1>2. series.last = 0 /\ series.buckets = [i \in 0 .. Window - 1 |-> 0]
      /\ series \in [buckets : [0 .. Window - 1 -> Nat], last : 0 .. 0]
  BY DEF NoSeries
<1>3. \A s \in 0 .. world.clock : perSec[s] = 0 /\ s % Window \in 0 .. Window - 1
  BY <1>1, Parts
<1>4. perSec \in [0 .. world.clock -> Nat]
  BY <1>1, Zenon
<1> QED  BY <1>2, <1>3, <1>4 DEF RingInv

\* Time that goes by leaves the ring as it is.
LEMMA RingKept ==
  ASSUME StatsTypes, RingInv, UNCHANGED <<world, series, perSec>>, clock' \in Nat, clock' >= clock
  PROVE  RingInv'
<1>1. clock \in Nat
  BY DEF StatsTypes, World
<1>2. series' \in [buckets : [0 .. Window - 1 -> Nat], last : 0 .. clock']
  BY <1>1 DEF RingInv
<1> QED  BY <1>2, Zenon DEF RingInv

\* What the dashboard reads.
LEMMA RingShows == StatsTypes /\ RingInv => SeriesExact
<1> SUFFICES ASSUME StatsTypes, RingInv, NEW now \in 0 .. clock, clock - now <= Window - Output,
                    NEW s \in 0 .. now, s > now - Output
             PROVE  Bucket(s) = perSec[s]
  BY Zenon DEF SeriesExact
<1>1. /\ Window \in Nat /\ Output \in Nat /\ clock \in Nat /\ world.clock \in Nat
      /\ clock <= world.clock
  BY QueryLogAssumption DEF StatsTypes, World
<1>2. series.last \in Nat /\ series.last <= clock
  BY <1>1 DEF RingInv
<1>3. s \in 0 .. world.clock /\ s \in Nat /\ s > series.last - Window
  BY <1>1, <1>2
<1>4. CASE s > series.last
  BY <1>3, <1>4, Zenon DEF RingInv, Bucket
<1>5. CASE ~(s > series.last)
  <2>1. s <= series.last
    BY <1>2, <1>3, <1>5
  <2> QED  BY <1>3, <1>5, <2>1, Zenon DEF RingInv, Bucket
<1> QED  BY <1>4, <1>5, Zenon

-----------------------------------------------------------------------------
(* The tables of top names. *)

\* A table tracks finitely many names.
LEMMA TracksType ==
  ASSUME NEW c
  PROVE  IsFiniteSet({x \in Domains : c[x] > 0}) /\ Tracks(c) \in Nat
<1>1. IsFiniteSet(Domains)
  BY QueryLogAssumption, Zenon
<1>2. {x \in Domains : c[x] > 0} \in SUBSET Domains
  BY Zenon
<1>3. IsFiniteSet({x \in Domains : c[x] > 0})
  BY <1>1, <1>2, FS_Subset, Zenon
<1> QED  BY <1>3, FS_CardinalityType, Zenon DEF Tracks

\* A name more is tracked only where there is room.
LEMMA TrackedOK ==
  ASSUME NEW c \in [Domains -> Nat], NEW a \in [Domains -> Nat], NEW d \in Domains, Counts(c, a)
  PROVE  /\ Tracked(c, d) \in [Domains -> Nat]
         /\ Counts(Tracked(c, d), [a EXCEPT ![d] = @ + 1])
<1> DEFINE c1 == [c EXCEPT ![d] = @ + 1]  a1 == [a EXCEPT ![d] = @ + 1]
           P(f) == {x \in Domains : f[x] > 0}
<1>1. /\ a1 \in [Domains -> Nat] /\ a1[d] = a[d] + 1 /\ \A x \in Domains : x # d => a1[x] = a[x]
      /\ c1 \in [Domains -> Nat] /\ c1[d] = c[d] + 1 /\ \A x \in Domains : x # d => c1[x] = c[x]
  OBVIOUS
<1>2. TopTrackCap \in Nat /\ IsFiniteSet(P(c)) /\ Tracks(c) \in Nat /\ Tracks(c1) \in Nat
  BY QueryLogAssumption, TracksType, Zenon
<1>3. Tracked(c, d) = IF Tracks(c) < TopTrackCap \/ c[d] > 0 THEN c1 ELSE c
  BY Zenon DEF Tracked, Tracks
<1>4. P(c1) = P(c) \cup {d}
  BY <1>1
<1>5. Tracks(c1) = IF c[d] > 0 THEN Tracks(c) ELSE Tracks(c) + 1
  <2>1. Tracks(c1) = IF d \in P(c) THEN Cardinality(P(c)) ELSE Cardinality(P(c)) + 1
    BY <1>2, <1>4, FS_AddElement, Zenon DEF Tracks
  <2>2. Cardinality(P(c)) = Tracks(c) /\ (d \in P(c) <=> c[d] > 0)
    BY Zenon DEF Tracks
  <2> QED  BY <2>1, <2>2, Zenon
<1>6. /\ Tracks(c) <= TopTrackCap
      /\ \A x \in Domains : c[x] = a[x] \/ (c[x] = 0 /\ Tracks(c) = TopTrackCap)
  BY Zenon DEF Counts
<1>7. c[d] \in Nat /\ a[d] \in Nat
  OBVIOUS
<1> HIDE DEF c1, a1
<1>8. CASE Tracks(c) < TopTrackCap
  <2>1. Tracked(c, d) = c1 /\ Tracks(c1) <= TopTrackCap
    BY <1>2, <1>3, <1>5, <1>8
  <2>2. \A x \in Domains : c[x] = a[x]
    BY <1>2, <1>6, <1>8
  <2>3. \A x \in Domains : c1[x] = a1[x]
    BY <1>1, <2>2, Zenon
  <2> QED  BY <1>1, <2>1, <2>3, Zenon DEF Counts, a1
<1>9. CASE ~(Tracks(c) < TopTrackCap) /\ c[d] > 0
  <2>1. Tracked(c, d) = c1 /\ Tracks(c1) = TopTrackCap /\ Tracks(c) = TopTrackCap
    BY <1>2, <1>3, <1>5, <1>6, <1>9
  <2>2. c1[d] = a1[d]
    <3>1. c[d] # 0
      BY <1>7, <1>9
    <3> QED  BY <1>1, <1>6, <3>1, Zenon
  <2>3. \A x \in Domains : c1[x] = a1[x] \/ c1[x] = 0
    BY <1>1, <1>6, <2>2, Zenon
  <2>4. Tracks(c1) <= TopTrackCap
    BY <1>2, <2>1
  <2> QED  BY <1>1, <2>1, <2>3, <2>4, Zenon DEF Counts, a1
<1>10. CASE ~(Tracks(c) < TopTrackCap) /\ ~(c[d] > 0)
  <2>1. Tracked(c, d) = c /\ Tracks(c) = TopTrackCap /\ c[d] = 0
    BY <1>2, <1>3, <1>6, <1>7, <1>10
  <2>2. \A x \in Domains : c[x] = a1[x] \/ c[x] = 0
    BY <1>1, <1>6, <2>1, Zenon
  <2> QED  BY <1>6, <2>1, <2>2, Zenon DEF Counts, a1
<1> QED  BY <1>8, <1>9, <1>10, Zenon

\* An empty table tracks nothing, rightly.
LEMMA NoCountsOK ==
  LET none == [d \in Domains |-> 0] IN none \in [Domains -> Nat] /\ Counts(none, none)
<1> DEFINE none == [d \in Domains |-> 0]
<1>1. {x \in Domains : none[x] > 0} = {}
  OBVIOUS
<1>2. Tracks(none) = 0 /\ 0 <= TopTrackCap
  BY <1>1, FS_EmptySet, QueryLogAssumption DEF Tracks
<1>3. none \in [Domains -> Nat]
  OBVIOUS
<1> QED  BY <1>2, <1>3, Zenon DEF Counts

\* The invariant of the tables says what top_n shows.
LEMMA TopShows == TopInv => TopExact
  BY Zenon DEF TopInv, TopExact, Counts, Tracks

-----------------------------------------------------------------------------
(* What a step leaves as it is. *)

\* A step that leaves the counters and the tasks alone keeps their invariants.
LEMMA StatsKept ==
  ASSUME StatsTypes, RingInv, TopInv, TasksInv,
         UNCHANGED <<world, clock, task, top, asked, clearing, series, perSec, queries, done>>,
         logging' \in BOOLEAN
  PROVE  StatsTypes' /\ RingInv' /\ TopInv' /\ TasksInv'
<1>1. StatsTypes' /\ TopInv'
  BY Zenon DEF StatsTypes, TopInv
<1>2. RingInv'
  BY Zenon DEF RingInv
<1>3. TasksInv'
  BY Zenon DEF TasksInv
<1> QED  BY <1>1, <1>2, <1>3, Zenon

\* More queries have come in or are finished.
Grows == queries \in Nat /\ queries' \in Nat /\ queries <= queries' /\ done \subseteq done'

\* As queries come in and are finished, what was begun or logged stays so.
LEMMA StillBegun ==
  ASSUME Grows, NEW x
  PROVE  /\ Begun(x, queries, done) => Begun(x, queries', done')
         /\ Logged(x, queries, done) => Logged(x, queries', done')
<1>1. ASSUME Begun(x, queries, done) PROVE Begun(x, queries', done')
  <2>1. x \in Entry /\ x.n \in Nat /\ x.n <= queries /\ x.after \subseteq done
    BY <1>1, Zenon DEF Begun, Entry
  <2>2. x.n <= queries'
    BY <2>1 DEF Grows
  <2> QED  BY <2>1, <2>2, Zenon DEF Begun, Grows
<1> QED  BY <1>1, Zenon DEF Logged, Grows

\* A step that does not touch the recent queries keeps their invariant, if no
\* task goes back to remembering its query.
LEMMA RecentKept ==
  ASSUME RecentInv, Grows, UNCHANGED recent,
         \A t \in Tasks : Early(t)' => \/ Early(t) /\ task'[t].e.n = task[t].e.n
                                       \/ task'[t].e.n > queries
  PROVE  RecentInv'
<1>1. \A i \in 1 .. Len(recent) : Begun(recent[i], queries', done')
  BY StillBegun, Zenon DEF RecentInv
<1>2. ASSUME NEW i \in 1 .. Len(recent), NEW t \in Tasks, Early(t)'
      PROVE  recent[i].n # task'[t].e.n
  <2>1. CASE Early(t) /\ task'[t].e.n = task[t].e.n
    BY <2>1, Zenon DEF RecentInv
  <2>2. CASE task'[t].e.n > queries
    <3>1. Begun(recent[i], queries, done)
      BY Zenon DEF RecentInv
    <3>2. recent[i].n \in Nat /\ recent[i].n <= queries /\ queries \in Nat
      BY <3>1, Zenon DEF Begun, Entry, Grows
    <3> QED  BY <2>2, <3>2
  <2> QED  BY <1>2, <2>1, <2>2, Zenon
<1> QED  BY <1>1, <1>2, Zenon DEF RecentInv, Ordered

\* So does one that touches neither the channel nor the writer.
LEMMA WaitingKept ==
  ASSUME WaitingInv, Grows, UNCHANGED <<queue, writer>>
  PROVE  WaitingInv'
<1>1. Waiting' = Waiting
  BY Zenon DEF Waiting
<1>2. \A i \in 1 .. Len(Waiting) : Logged(Waiting[i], queries', done')
  BY StillBegun, Zenon DEF WaitingInv
<1>3. Ordered(Waiting)'
  BY <1>1, Zenon DEF WaitingInv, Ordered
<1> QED  BY <1>1, <1>2, <1>3, Zenon DEF WaitingInv

\* And one that leaves the table alone and lets nothing older wait for it.
LEMMA RowsKept ==
  ASSUME RowsInv, Grows, UNCHANGED rows,
         \A k \in 1 .. Len(Waiting') : \A i \in DOMAIN rows : Before(rows[i], Waiting'[k])
  PROVE  RowsInv'
<1>1. \A i \in DOMAIN rows : Logged(rows[i], queries', done')
  BY StillBegun, Zenon DEF RowsInv
<1>2. (\E lo \in Nat, hi \in Nat : IdsAre(lo, hi))'
  BY Zenon DEF RowsInv, IdsAre
<1> QED  BY <1>1, <1>2, Zenon DEF RowsInv

\* A step of the statistics.
LEMMA LogKept ==
  ASSUME WaitingInv, RowsInv, Grows, UNCHANGED <<queue, writer, rows>>
  PROVE  WaitingInv' /\ RowsInv'
<1>1. Waiting' = Waiting
  BY Zenon DEF Waiting
<1>2. RowsInv'
  BY <1>1, RowsKept, Zenon DEF RowsInv
<1> QED  BY <1>2, WaitingKept, Zenon

-----------------------------------------------------------------------------
(* Tasks. *)

\* A task at one of the steps of record holds a query.
LEMMA TaskType ==
  ASSUME StatsTypes, NEW t \in Tasks, task[t].pc \in Steps
  PROVE  /\ task[t] # Idle /\ task[t] \in Recording
         /\ task[t].e \in Entry /\ task[t].name \in Domains /\ task[t].log \in BOOLEAN
<1>1. Idle.pc \notin Steps
  BY Zenon DEF Idle, Steps
<1>2. task[t] \in {Idle} \cup Recording
  BY Zenon DEF StatsTypes
<1>3. task[t] # Idle /\ task[t] \in Recording
  BY <1>1, <1>2, Zenon
<1> QED  BY <1>3, Zenon DEF Recording

\* A task goes on with its query.
LEMMA GotoOK ==
  ASSUME StatsTypes, TasksInv, NEW t \in Tasks, task[t].pc \in Steps, NEW l \in Steps, Goto(t, l),
         UNCHANGED queries
  PROVE  /\ task' \in [Tasks -> {Idle} \cup Recording] /\ done' \in SUBSET Nat
         /\ TasksInv' /\ Grows
         /\ task'[t] # Idle /\ task'[t].pc = l /\ task'[t].e = task[t].e
         /\ \A u \in Tasks \ {t} : task'[u] = task[u]
<1>1. task[t] \in Recording /\ task[t] # Idle
  BY TaskType, Zenon
<1>2. task \in [Tasks -> {Idle} \cup Recording] /\ queries \in Nat /\ done \in SUBSET Nat
  BY Zenon DEF StatsTypes
<1>3. task' = [task EXCEPT ![t] = [task[t] EXCEPT !.pc = l]] /\ done' = done
  BY Zenon DEF Goto
<1>4. [task[t] EXCEPT !.pc = l] \in Recording /\ [task[t] EXCEPT !.pc = l].pc = l
      /\ [task[t] EXCEPT !.pc = l].e = task[t].e
  BY <1>1, Zenon DEF Recording
<1>5. Idle.pc # l
  BY Zenon DEF Idle, Steps
<1>6. /\ task' \in [Tasks -> {Idle} \cup Recording]
      /\ task'[t].pc = l /\ task'[t].e = task[t].e
      /\ \A u \in Tasks \ {t} : task'[u] = task[u]
  BY <1>2, <1>3, <1>4, Zenon
<1>7. task'[t] # Idle
  BY <1>5, <1>6, Zenon
<1>8. Grows
  BY <1>2, <1>3 DEF Grows
<1>9. \A u \in Tasks : (task'[u] # Idle <=> task[u] # Idle) /\ (task[u] # Idle => task'[u].e = task[u].e)
  BY <1>1, <1>6, <1>7, Zenon
<1>10. TasksInv'
  <2>1. \A n \in done' : n <= queries'
    BY <1>3, Zenon DEF TasksInv
  <2>2. \A u \in Tasks :
          task'[u] # Idle => Begun(task'[u].e, queries', done') /\ task'[u].e.n \notin done'
    <3> SUFFICES ASSUME NEW u \in Tasks, task'[u] # Idle
                 PROVE  Begun(task'[u].e, queries', done') /\ task'[u].e.n \notin done'
      OBVIOUS
    <3>1. task[u] # Idle /\ task'[u].e = task[u].e
      BY <1>9, Zenon
    <3>2. Begun(task[u].e, queries, done) /\ task[u].e.n \notin done
      BY <3>1, Zenon DEF TasksInv
    <3> QED  BY <1>3, <3>1, <3>2
  <2>3. \A u, v \in Tasks :
          u # v /\ task'[u] # Idle /\ task'[v] # Idle => task'[u].e.n # task'[v].e.n
    <3> SUFFICES ASSUME NEW u \in Tasks, NEW v \in Tasks, u # v, task'[u] # Idle, task'[v] # Idle
                 PROVE  task'[u].e.n # task'[v].e.n
      OBVIOUS
    <3>1. task[u] # Idle /\ task[v] # Idle /\ task'[u].e = task[u].e /\ task'[v].e = task[v].e
      BY <1>9, Zenon
    <3>2. task[u].e.n # task[v].e.n
      BY <3>1, Zenon DEF TasksInv
    <3> QED  BY <3>1, <3>2, Zenon
  <2> QED  BY <2>1, <2>2, <2>3, Zenon DEF TasksInv
<1> QED  BY <1>2, <1>3, <1>6, <1>7, <1>8, <1>10, Zenon

\* A task is through with its query.
LEMMA FinishOK ==
  ASSUME StatsTypes, TasksInv, NEW t \in Tasks, task[t].pc \in Steps, Finish(t), UNCHANGED queries
  PROVE  /\ task' \in [Tasks -> {Idle} \cup Recording] /\ done' \in SUBSET Nat
         /\ TasksInv' /\ Grows /\ task[t].e.n \in done'
         /\ task'[t] = Idle /\ \A u \in Tasks \ {t} : task'[u] = task[u]
<1>1. task[t] \in Recording /\ task[t] # Idle /\ task[t].e \in Entry
  BY TaskType, Zenon
<1>2. task \in [Tasks -> {Idle} \cup Recording] /\ queries \in Nat /\ done \in SUBSET Nat
  BY Zenon DEF StatsTypes
<1>3. task' = [task EXCEPT ![t] = Idle] /\ done' = done \cup {task[t].e.n}
  BY Zenon DEF Finish
<1>4. task[t].e.n \in Nat /\ task[t].e.n <= queries
  BY <1>1, Zenon DEF Entry, TasksInv, Begun
<1>5. /\ task' \in [Tasks -> {Idle} \cup Recording] /\ task'[t] = Idle
      /\ \A u \in Tasks \ {t} : task'[u] = task[u]
  BY <1>2, <1>3, Zenon
<1>6. done' \in SUBSET Nat /\ done \subseteq done' /\ task[t].e.n \in done'
  BY <1>2, <1>3, <1>4, Zenon
<1>7. Grows
  BY <1>2, <1>6 DEF Grows
<1>8. \A n \in done' : n <= queries'
  BY <1>3, <1>4, Zenon DEF TasksInv
<1>9. ASSUME NEW u \in Tasks, task'[u] # Idle
      PROVE  Begun(task'[u].e, queries', done') /\ task'[u].e.n \notin done'
  <2>1. u # t /\ task'[u] = task[u] /\ task[u] # Idle
    BY <1>5, <1>9, Zenon
  <2>2. Begun(task[u].e, queries, done) /\ task[u].e.n \notin done /\ task[u].e.n # task[t].e.n
    BY <1>1, <2>1, Zenon DEF TasksInv
  <2>3. Begun(task[u].e, queries', done')
    BY <1>7, <2>2, StillBegun, Zenon
  <2> QED  BY <1>3, <2>1, <2>2, <2>3
<1>10. \A u, v \in Tasks :
         u # v /\ task'[u] # Idle /\ task'[v] # Idle => task'[u].e.n # task'[v].e.n
  BY <1>5, Zenon DEF TasksInv
<1>11. TasksInv'
  BY <1>8, <1>9, <1>10, Zenon DEF TasksInv
<1> QED  BY <1>5, <1>6, <1>7, <1>11, Zenon

\* A query comes in.
LEMMA BeginOK ==
  ASSUME QueryLogInv, NEW t \in Tasks, NEW d \in world.names, Begin(t, d)
  PROVE  QueryLogInv'
<1> DEFINE e == [n |-> queries + 1, after |-> done]
           q == [pc |-> "count", name |-> d, log |-> logging, e |-> e]
<1>1. StatsTypes /\ RingInv /\ TopInv /\ TasksInv /\ RecentInv /\ WaitingInv /\ RowsInv
  BY Zenon DEF QueryLogInv
<1>2. task \in [Tasks -> {Idle} \cup Recording] /\ queries \in Nat /\ done \in SUBSET Nat /\ world \in World
  BY <1>1, Zenon DEF StatsTypes
<1>3. /\ queries' = queries + 1 /\ task' = [task EXCEPT ![t] = q]
      /\ UNCHANGED <<world, clock, series, top, recent, queue, writer, clearing, rows, perSec, asked, done>>
  BY Zenon DEF Begin
<1>4. d \in Domains /\ logging \in BOOLEAN
  BY <1>1, Zenon DEF StatsTypes, World
<1>5. e \in Entry /\ e.n = queries + 1 /\ e.after = done
  BY <1>2 DEF Entry
<1> HIDE DEF e
<1>6. q \in Recording /\ q.e = e /\ q.pc = "count"
  BY <1>4, <1>5, Zenon DEF Recording, Steps
<1>7. q # Idle
  BY <1>6, Zenon DEF Idle
<1> HIDE DEF q
<1>8. /\ task' \in [Tasks -> {Idle} \cup Recording] /\ task'[t] = q
      /\ \A u \in Tasks \ {t} : task'[u] = task[u]
  BY <1>2, <1>3, <1>6, Zenon
<1>9. Grows /\ queries' \in Nat
  BY <1>2, <1>3 DEF Grows
<1>10. StatsTypes' /\ TopInv'
  <2>1. logging' = logging
    BY Zenon DEF Begin
  <2> QED  BY <1>1, <1>3, <1>8, <1>9, <2>1, Zenon DEF StatsTypes, TopInv
<1>11. RingInv'
  BY <1>1, <1>3, Zenon DEF RingInv
<1>12. TasksInv'
  <2>1. \A n \in done : n \in Nat /\ n <= queries
    BY <1>1, <1>2, Zenon DEF TasksInv
  <2>2. \A n \in done : n <= queries' /\ n # queries + 1
    BY <1>2, <1>3, <2>1
  <2>3. ASSUME NEW u \in Tasks \ {t}, task'[u] # Idle
        PROVE  /\ Begun(task'[u].e, queries', done') /\ task'[u].e.n \notin done'
               /\ task'[u].e.n # e.n
    <3>1. task'[u] = task[u] /\ task[u] # Idle
      BY <1>8, <2>3, Zenon
    <3>2. Begun(task[u].e, queries, done) /\ task[u].e.n \notin done
      BY <1>1, <3>1, Zenon DEF TasksInv
    <3>3. Begun(task[u].e, queries', done')
      BY <1>9, <3>2, StillBegun, Zenon
    <3>4. task[u].e.n # e.n
      BY <1>2, <1>5, <3>2 DEF Begun, Entry
    <3> QED  BY <1>3, <3>1, <3>2, <3>3, <3>4
  <2>4. Begun(e, queries', done') /\ e.n \notin done'
    BY <1>2, <1>3, <1>5, <2>2 DEF Begun
  <2>5. \A n \in done' : n <= queries'
    BY <1>3, <2>2, Zenon
  <2>6. \A u \in Tasks :
          task'[u] # Idle => Begun(task'[u].e, queries', done') /\ task'[u].e.n \notin done'
    BY <1>6, <1>8, <2>3, <2>4, Zenon
  <2>7. \A u, v \in Tasks :
          u # v /\ task'[u] # Idle /\ task'[v] # Idle => task'[u].e.n # task'[v].e.n
    <3> SUFFICES ASSUME NEW u \in Tasks, NEW v \in Tasks, u # v, task'[u] # Idle, task'[v] # Idle
                 PROVE  task'[u].e.n # task'[v].e.n
      OBVIOUS
    <3>1. CASE u = t \/ v = t
      BY <1>6, <1>8, <2>3, <3>1, Zenon
    <3>2. CASE u # t /\ v # t
      <4>1. task'[u] = task[u] /\ task'[v] = task[v]
        BY <1>8, <3>2, Zenon
      <4>2. task[u].e.n # task[v].e.n
        BY <1>1, <4>1, Zenon DEF TasksInv
      <4> QED  BY <4>1, <4>2, Zenon
    <3> QED  BY <3>1, <3>2, Zenon
  <2> QED  BY <2>5, <2>6, <2>7, Zenon DEF TasksInv
<1>13. RecentInv'
  <2>1. ASSUME NEW u \in Tasks, Early(u)'
        PROVE  (Early(u) /\ task'[u].e.n = task[u].e.n) \/ task'[u].e.n > queries
    <3>1. CASE u = t
      BY <1>2, <1>5, <1>6, <1>8, <3>1
    <3>2. CASE u # t
      BY <1>8, <2>1, <3>2, Zenon DEF Early
    <3> QED  BY <3>1, <3>2, Zenon
  <2> QED  BY <1>1, <1>3, <1>9, <2>1, RecentKept, Zenon
<1>14. WaitingInv' /\ RowsInv'
  BY <1>1, <1>3, <1>9, LogKept, Zenon
<1> QED  BY <1>10, <1>11, <1>12, <1>13, <1>14, Zenon DEF QueryLogInv

\* The tables a task goes through.
LEMMA TaskGoesOn ==
  ASSUME QueryLogInv, NEW t \in Tasks, task[t].pc \in Steps, task[t].pc # "send",
         UNCHANGED <<queries, recent, queue, writer, rows>>,
         Finish(t) \/ \E l \in Steps : Goto(t, l)
  PROVE  /\ task' \in [Tasks -> {Idle} \cup Recording] /\ done' \in SUBSET Nat
         /\ TasksInv' /\ RecentInv' /\ WaitingInv' /\ RowsInv'
<1>1. StatsTypes /\ TasksInv /\ RecentInv /\ WaitingInv /\ RowsInv
  BY Zenon DEF QueryLogInv
<1>2. /\ task' \in [Tasks -> {Idle} \cup Recording] /\ done' \in SUBSET Nat
      /\ TasksInv' /\ Grows
      /\ task'[t] = Idle \/ task'[t].e = task[t].e
      /\ \A u \in Tasks \ {t} : task'[u] = task[u]
  BY <1>1, GotoOK, FinishOK, Zenon
<1>3. task[t] # Idle
  BY <1>1, TaskType, Zenon
<1>4. ASSUME NEW u \in Tasks, Early(u)' PROVE Early(u) /\ task'[u].e.n = task[u].e.n
  BY <1>2, <1>3, <1>4, Zenon DEF Early
<1>5. RecentInv'
  BY <1>1, <1>2, <1>4, RecentKept, Zenon
<1> QED  BY <1>1, <1>2, <1>5, LogKept, Zenon

\* Counting a query in the ring keeps the invariant.
LEMMA CountOK ==
  ASSUME QueryLogInv, NEW t \in Tasks, Count(t)
  PROVE  QueryLogInv'
<1>1. StatsTypes /\ RingInv /\ TopInv
  BY Zenon DEF QueryLogInv
<1>2. /\ task[t].pc = "count" /\ series' = Bump(series, clock)
      /\ perSec' = [perSec EXCEPT ![clock] = @ + 1]
      /\ UNCHANGED <<world, logging, clock, top, recent, queue, writer, clearing, rows, queries, asked>>
  BY Zenon DEF Count, bounds
<1>3. task[t].pc \in Steps /\ task[t].pc # "send" /\ {"blocked", "domains"} \subseteq Steps
  BY <1>2, Zenon DEF Steps
<1>4. Finish(t) \/ \E l \in Steps : Goto(t, l)
  BY <1>3, Zenon DEF Count
<1>5. /\ task' \in [Tasks -> {Idle} \cup Recording] /\ done' \in SUBSET Nat
      /\ TasksInv' /\ RecentInv' /\ WaitingInv' /\ RowsInv'
  BY <1>2, <1>3, <1>4, TaskGoesOn, Zenon
<1>6. RingInv'
  BY <1>1, <1>2, BumpOK, Zenon
<1>7. StatsTypes' /\ TopInv'
  BY <1>1, <1>2, <1>5, Zenon DEF StatsTypes, TopInv
<1> QED  BY <1>5, <1>6, <1>7, Zenon DEF QueryLogInv

\* Counting its name in a table keeps it.
LEMMA TrackOK ==
  ASSUME QueryLogInv, NEW t \in Tasks, NEW table \in Tables, Track(t, table)
  PROVE  QueryLogInv'
<1> DEFINE d == task[t].name
<1>1. StatsTypes /\ RingInv /\ TopInv
  BY Zenon DEF QueryLogInv
<1>2. /\ task[t].pc = table
      /\ top' = [top EXCEPT ![table] = Tracked(@, d)]
      /\ asked' = [asked EXCEPT ![table][d] = @ + 1]
      /\ UNCHANGED <<world, logging, clock, series, recent, queue, writer, clearing, rows, queries, perSec>>
  BY Zenon DEF Track, bounds
<1>3. task[t].pc \in Steps /\ task[t].pc # "send" /\ {"domains", "recent"} \subseteq Steps
  BY <1>2, Zenon DEF Steps, Tables
<1>4. \E l \in Steps : Goto(t, l)
  BY <1>3, Zenon DEF Track
<1>5. /\ task' \in [Tasks -> {Idle} \cup Recording] /\ done' \in SUBSET Nat
      /\ TasksInv' /\ RecentInv' /\ WaitingInv' /\ RowsInv'
  BY <1>2, <1>3, <1>4, TaskGoesOn, Zenon
<1>6. d \in Domains /\ top[table] \in [Domains -> Nat] /\ asked[table] \in [Domains -> Nat]
  BY <1>1, <1>3, TaskType, Zenon DEF StatsTypes
<1>7. Counts(top[table], asked[table])
  BY <1>1, Zenon DEF TopInv
<1> DEFINE c1 == Tracked(top[table], d)  a1 == [asked[table] EXCEPT ![d] = @ + 1]
<1>8. c1 \in [Domains -> Nat] /\ Counts(c1, a1)
  BY <1>6, <1>7, TrackedOK, Zenon
<1>9. a1 \in [Domains -> Nat]
  BY <1>6
<1>10. top' = [top EXCEPT ![table] = c1] /\ asked' = [asked EXCEPT ![table] = a1]
  BY <1>2, Zenon
<1> HIDE DEF c1, a1, d
<1>11. /\ top' \in [Tables -> [Domains -> Nat]] /\ asked' \in [Tables -> [Domains -> Nat]]
       /\ top'[table] = c1 /\ asked'[table] = a1
       /\ \A u \in Tables \ {table} : top'[u] = top[u] /\ asked'[u] = asked[u]
  BY <1>1, <1>8, <1>9, <1>10, Zenon DEF StatsTypes
<1>12. TopInv'
  BY <1>1, <1>8, <1>11, Zenon DEF TopInv
<1>13. StatsTypes'
  BY <1>1, <1>2, <1>5, <1>11, Zenon DEF StatsTypes
<1>14. RingInv'
  BY <1>1, <1>2, Zenon DEF RingInv
<1> QED  BY <1>5, <1>12, <1>13, <1>14, Zenon DEF QueryLogInv

\* An entry that comes last.
LEMMA AppendOrdered ==
  ASSUME NEW s \in Seq(Entry), NEW e \in Entry, Ordered(s),
         \A i \in 1 .. Len(s) : Before(s[i], e)
  PROVE  Ordered(Append(s, e))
<1>1. /\ Len(s) \in Nat /\ Len(Append(s, e)) = Len(s) + 1
      /\ \A i \in 1 .. Len(s) : Append(s, e)[i] = s[i]
      /\ Append(s, e)[Len(s) + 1] = e
  BY AppendProperties, LenProperties
<1> SUFFICES ASSUME NEW i \in 1 .. Len(Append(s, e)), NEW j \in 1 .. Len(Append(s, e)), i < j
             PROVE  Before(Append(s, e)[i], Append(s, e)[j])
  BY Zenon DEF Ordered
<1>2. i \in 1 .. Len(s) /\ (j \in 1 .. Len(s) \/ j = Len(s) + 1)
  BY <1>1
<1>3. CASE j \in 1 .. Len(s)
  BY <1>1, <1>2, <1>3, Zenon DEF Ordered
<1>4. CASE j = Len(s) + 1
  BY <1>1, <1>2, <1>4, Zenon
<1> QED  BY <1>2, <1>3, <1>4, Zenon

\* So does remembering it among the recent queries, of which the oldest goes.
LEMMA RememberOK ==
  ASSUME QueryLogInv, NEW t \in Tasks, Remember(t)
  PROVE  QueryLogInv'
<1> DEFINE e == task[t].e
           s == IF Len(recent) = RecentCap THEN Tail(recent) ELSE recent
<1>1. StatsTypes /\ RingInv /\ TopInv /\ TasksInv /\ RecentInv /\ WaitingInv /\ RowsInv
  BY Zenon DEF QueryLogInv
<1>2. /\ task[t].pc = "recent" /\ recent' = Append(s, e) /\ Goto(t, "send")
      /\ UNCHANGED <<world, logging, clock, series, top, queue, writer, clearing, rows, queries, perSec, asked>>
  BY Zenon DEF Remember, bounds
<1>3. task[t].pc \in Steps /\ "send" \in Steps
  BY <1>2, Zenon DEF Steps
<1>4. /\ task' \in [Tasks -> {Idle} \cup Recording] /\ done' \in SUBSET Nat
      /\ TasksInv' /\ Grows
      /\ task'[t] # Idle /\ task'[t].pc = "send" /\ task'[t].e = e
      /\ \A u \in Tasks \ {t} : task'[u] = task[u]
  BY <1>1, <1>2, <1>3, GotoOK, Zenon
<1>5. task[t] # Idle /\ e \in Entry /\ Begun(e, queries, done) /\ Early(t)
  <2>1. task[t] # Idle /\ e \in Entry /\ "recent" # "send"
    BY <1>1, <1>3, TaskType, Zenon
  <2> QED  BY <1>1, <1>2, <2>1, Zenon DEF TasksInv, Early
<1>6. recent \in Seq(Entry) /\ Len(recent) \in Nat /\ Len(recent) <= RecentCap /\ RecentCap \in Nat \ {0}
  BY <1>1, LenProperties, QueryLogAssumption, Zenon DEF RecentInv
<1> DEFINE k == IF Len(recent) = RecentCap THEN 1 ELSE 0
<1>7. /\ s \in Seq(Entry) /\ Len(s) = Len(recent) - k /\ k \in {0, 1} /\ Len(s) < RecentCap /\ Len(s) \in Nat
      /\ \A i \in 1 .. Len(s) : i + k \in 1 .. Len(recent) /\ s[i] = recent[i + k]
  <2>1. CASE Len(recent) = RecentCap
    <3>1. recent # <<>>
      BY <1>6, <2>1, Zenon
    <3>2. /\ Tail(recent) \in Seq(Entry) /\ Len(Tail(recent)) = Len(recent) - 1
          /\ \A i \in 1 .. Len(Tail(recent)) : Tail(recent)[i] = recent[i + 1]
      BY <1>6, <3>1, HeadTailProperties, Zenon
    <3>3. s = Tail(recent) /\ k = 1
      BY <2>1, Zenon
    <3> HIDE DEF s, k
    <3> QED  BY <1>6, <3>2, <3>3
  <2>2. CASE Len(recent) # RecentCap
    <3>1. s = recent /\ k = 0
      BY <2>2, Zenon
    <3> HIDE DEF s, k
    <3> QED  BY <1>6, <2>2, <3>1
  <2> QED  BY <2>1, <2>2, Zenon
<1> HIDE DEF s, k, e
<1>8. \A i \in 1 .. Len(s) : /\ Begun(s[i], queries, done) /\ s[i].n # e.n
                             /\ \A u \in Tasks : Early(u) => s[i].n # task[u].e.n
  BY <1>1, <1>5, <1>7, Zenon DEF RecentInv, e
<1>9. \A i \in 1 .. Len(s) : Before(s[i], e)
  <2>1. e.n \notin done
    BY <1>1, <1>5, Zenon DEF TasksInv, e
  <2> QED  BY <1>8, <2>1, Zenon DEF Before, Begun
<1>10. Ordered(s)
  <2> SUFFICES ASSUME NEW i \in 1 .. Len(s), NEW j \in 1 .. Len(s), i < j PROVE Before(s[i], s[j])
    BY Zenon DEF Ordered
  <2>1. i + k < j + k
    BY <1>7
  <2> QED  BY <1>1, <1>7, <2>1, Zenon DEF RecentInv, Ordered
<1>11. /\ recent' \in Seq(Entry) /\ Len(recent') = Len(s) + 1 /\ recent'[Len(s) + 1] = e
       /\ \A i \in 1 .. Len(s) : recent'[i] = s[i]
  <2>1. /\ Append(s, e) \in Seq(Entry) /\ Len(Append(s, e)) = Len(s) + 1
        /\ Append(s, e)[Len(s) + 1] = e /\ \A i \in 1 .. Len(s) : Append(s, e)[i] = s[i]
    BY <1>5, <1>7, AppendProperties
  <2> QED  BY <1>2, <2>1, Zenon
<1>12. \A i \in 1 .. Len(recent') : i \in 1 .. Len(s) \/ i = Len(s) + 1
  BY <1>7, <1>11
<1>13. \A i \in 1 .. Len(recent') : Begun(recent'[i], queries', done')
  <2>1. \A i \in 1 .. Len(recent') : Begun(recent'[i], queries, done)
    BY <1>5, <1>8, <1>11, <1>12, Zenon
  <2> QED  BY <1>4, <2>1, StillBegun, Zenon
<1>14. ASSUME NEW i \in 1 .. Len(recent'), NEW u \in Tasks, Early(u)'
       PROVE  recent'[i].n # task'[u].e.n
  <2>1. u # t /\ task'[u] = task[u] /\ Early(u)
    BY <1>4, <1>14, Zenon DEF Early
  <2>2. e.n # task[u].e.n
    BY <1>1, <1>5, <2>1, Zenon DEF TasksInv, Early, e
  <2>3. CASE i \in 1 .. Len(s)
    BY <1>8, <1>11, <2>1, <2>3, Zenon
  <2>4. CASE i = Len(s) + 1
    BY <1>11, <2>1, <2>2, <2>4, Zenon
  <2> QED  BY <1>12, <2>3, <2>4, Zenon
<1>15. Ordered(Append(s, e))
  BY <1>5, <1>7, <1>9, <1>10, AppendOrdered, Zenon
<1>16. RecentInv'
  <2>1. Len(recent') <= RecentCap
    BY <1>6, <1>7, <1>11
  <2>2. Ordered(recent')
    BY <1>2, <1>15, Zenon
  <2> QED  BY <1>11, <1>13, <1>14, <2>1, <2>2, Zenon DEF RecentInv, Ordered
<1>17. StatsTypes' /\ TopInv'
  BY <1>1, <1>2, <1>4, Zenon DEF StatsTypes, TopInv
<1>18. RingInv'
  BY <1>1, <1>2, Zenon DEF RingInv
<1> QED  BY <1>1, <1>2, <1>4, <1>16, <1>17, <1>18, LogKept, Zenon DEF QueryLogInv

\* Where the entries that wait are.
LEMMA WaitingParts ==
  ASSUME WaitingInv
  PROVE  /\ queue \in Seq(Entry) /\ writer.buf \in Seq(Entry) /\ Waiting \in Seq(Entry)
         /\ Len(queue) \in Nat /\ Len(writer.buf) \in Nat
         /\ Len(Waiting) = Len(writer.buf) + Len(queue)
         /\ \A k \in 1 .. Len(writer.buf) : k \in 1 .. Len(Waiting) /\ Waiting[k] = writer.buf[k]
         /\ \A k \in 1 .. Len(queue) :
              Len(writer.buf) + k \in 1 .. Len(Waiting) /\ Waiting[Len(writer.buf) + k] = queue[k]
<1>1. queue \in Seq(Entry) /\ writer.buf \in Seq(Entry)
  BY Zenon DEF WaitingInv
<1>2. Len(queue) \in Nat /\ Len(writer.buf) \in Nat
  BY <1>1, LenProperties, Zenon
<1>3. /\ Waiting \in Seq(Entry) /\ Len(Waiting) = Len(writer.buf) + Len(queue)
      /\ \A i \in 1 .. Len(writer.buf) + Len(queue) :
           Waiting[i] = IF i <= Len(writer.buf) THEN writer.buf[i] ELSE queue[i - Len(writer.buf)]
  BY <1>1, ConcatProperties, Zenon DEF Waiting
<1> HIDE DEF Waiting
<1>4. ASSUME NEW k \in 1 .. Len(writer.buf)
      PROVE  k \in 1 .. Len(Waiting) /\ Waiting[k] = writer.buf[k]
  BY <1>2, <1>3
<1>5. ASSUME NEW k \in 1 .. Len(queue)
      PROVE  Len(writer.buf) + k \in 1 .. Len(Waiting) /\ Waiting[Len(writer.buf) + k] = queue[k]
  <2>1. /\ Len(writer.buf) + k \in 1 .. Len(writer.buf) + Len(queue)
        /\ ~(Len(writer.buf) + k <= Len(writer.buf)) /\ (Len(writer.buf) + k) - Len(writer.buf) = k
    BY <1>2
  <2> QED  BY <1>3, <2>1, Zenon
<1> QED  BY <1>1, <1>2, <1>3, <1>4, <1>5, Zenon

\* What is sent to the channel comes last among what waits.
LEMMA AppendLast ==
  ASSUME NEW a \in Seq(Entry), NEW b \in Seq(Entry), NEW e \in Entry
  PROVE  a \o Append(b, e) = Append(a \o b, e)
OBVIOUS

\* What is logged comes before what is still being recorded.
LEMMA LoggedBefore ==
  ASSUME NEW x, NEW q, NEW d, NEW e, Logged(x, q, d), e.n \notin d
  PROVE  Before(x, e)
BY Zenon DEF Logged, Begun, Before

\* Sending it to the writer, or dropping it where the channel is full, keeps
\* the invariant.
LEMMA LogQueryOK ==
  ASSUME QueryLogInv, NEW t \in Tasks, LogQuery(t)
  PROVE  QueryLogInv'
<1> DEFINE e == task[t].e
<1>1. StatsTypes /\ RingInv /\ TopInv /\ TasksInv /\ RecentInv /\ WaitingInv /\ RowsInv
  BY Zenon DEF QueryLogInv
<1>2. /\ task[t].pc = "send" /\ Finish(t)
      /\ queue' = IF Len(queue) < QueueCap THEN Append(queue, e) ELSE queue
      /\ UNCHANGED <<world, logging, clock, series, top, recent, writer, clearing, rows, queries, perSec, asked>>
  BY Zenon DEF LogQuery, bounds
<1>3. task[t].pc \in Steps
  BY <1>2, Zenon DEF Steps
<1>4. /\ task' \in [Tasks -> {Idle} \cup Recording] /\ done' \in SUBSET Nat
      /\ TasksInv' /\ Grows /\ e.n \in done'
      /\ task'[t] = Idle /\ \A u \in Tasks \ {t} : task'[u] = task[u]
  BY <1>1, <1>2, <1>3, FinishOK, Zenon
<1>5. task[t] # Idle /\ e \in Entry /\ Begun(e, queries, done) /\ e.n \notin done
  BY <1>1, <1>3, TaskType, Zenon DEF TasksInv
<1> HIDE DEF e
<1>6. RecentInv'
  <2>1. ASSUME NEW u \in Tasks, Early(u)' PROVE Early(u) /\ task'[u].e.n = task[u].e.n
    BY <1>4, <2>1, Zenon DEF Early
  <2> QED  BY <1>1, <1>2, <1>4, <2>1, RecentKept, Zenon
<1>7. StatsTypes' /\ TopInv'
  BY <1>1, <1>2, <1>4, Zenon DEF StatsTypes, TopInv
<1>8. RingInv'
  BY <1>1, <1>2, Zenon DEF RingInv
<1>9. WaitingInv' /\ RowsInv'
  <2>1. CASE ~(Len(queue) < QueueCap)
    BY <1>1, <1>2, <1>4, <2>1, LogKept, Zenon
  <2>2. CASE Len(queue) < QueueCap
    <3>1. queue \in Seq(Entry) /\ writer.buf \in Seq(Entry) /\ Waiting \in Seq(Entry) /\ Len(queue) \in Nat
      BY <1>1, WaitingParts, Zenon
    <3>2. queue' = Append(queue, e)
      BY <1>2, <2>2, Zenon
    <3>3. /\ queue' \in Seq(Entry) /\ Len(queue') = Len(queue) + 1
      BY <1>5, <3>1, <3>2, AppendProperties
    <3>4. Waiting' = Append(Waiting, e)
      <4>1. writer.buf \o Append(queue, e) = Append(writer.buf \o queue, e)
        BY <1>5, <3>1, AppendLast, Zenon
      <4> QED  BY <1>2, <3>2, <4>1, Zenon DEF Waiting
    <3>5. /\ Len(Waiting) \in Nat /\ Len(Waiting') = Len(Waiting) + 1
          /\ \A i \in 1 .. Len(Waiting) : Waiting'[i] = Waiting[i]
          /\ Waiting'[Len(Waiting) + 1] = e
      <4>1. /\ Len(Waiting) \in Nat /\ Len(Append(Waiting, e)) = Len(Waiting) + 1
            /\ \A i \in 1 .. Len(Waiting) : Append(Waiting, e)[i] = Waiting[i]
            /\ Append(Waiting, e)[Len(Waiting) + 1] = e
        BY <1>5, <3>1, AppendProperties, LenProperties
      <4> QED  BY <3>4, <4>1, Zenon
    <3>6. \A i \in 1 .. Len(Waiting') : i \in 1 .. Len(Waiting) \/ i = Len(Waiting) + 1
      BY <3>5
    <3>7. Logged(e, queries', done')
      BY <1>4, <1>5, StillBegun, Zenon DEF Logged
    <3>8. \A i \in 1 .. Len(Waiting) : Logged(Waiting[i], queries, done)
      BY <1>1, Zenon DEF WaitingInv
    <3>9. \A i \in 1 .. Len(Waiting) : Logged(Waiting[i], queries', done')
      BY <1>4, <3>8, StillBegun, Zenon
    <3>10. \A i \in 1 .. Len(Waiting') : Logged(Waiting'[i], queries', done')
      BY <3>5, <3>6, <3>7, <3>9, Zenon
    <3>11. Ordered(Append(Waiting, e))
      <4>1. Ordered(Waiting)
        BY <1>1, Zenon DEF WaitingInv
      <4>2. \A i \in 1 .. Len(Waiting) : Before(Waiting[i], e)
        BY <1>5, <3>8, LoggedBefore, Zenon
      <4> QED  BY <1>5, <3>1, <4>1, <4>2, AppendOrdered, Zenon
    <3>12. WaitingInv'
      <4>1. Len(queue') <= QueueCap
        BY <2>2, <3>1, <3>3, QueryLogAssumption
      <4>2. Ordered(Waiting')
        BY <3>4, <3>11, Zenon
      <4> QED  BY <1>1, <1>2, <3>3, <3>10, <4>1, <4>2, Zenon DEF WaitingInv, Ordered
    <3>13. \A k \in 1 .. Len(Waiting') : \A i \in DOMAIN rows : Before(rows[i], Waiting'[k])
      <4>1. \A i \in DOMAIN rows : Before(rows[i], e)
        BY <1>1, <1>5, LoggedBefore, Zenon DEF RowsInv
      <4>2. \A k \in 1 .. Len(Waiting) : \A i \in DOMAIN rows : Before(rows[i], Waiting[k])
        BY <1>1, Zenon DEF RowsInv
      <4> QED  BY <3>5, <3>6, <4>1, <4>2, Zenon
    <3> QED  BY <1>1, <1>2, <1>4, <3>12, <3>13, RowsKept, Zenon
  <2> QED  BY <2>1, <2>2, Zenon
<1> QED  BY <1>4, <1>6, <1>7, <1>8, <1>9, Zenon DEF QueryLogInv

-----------------------------------------------------------------------------
(* The writer. *)

\* A step that leaves the statistics and the tasks as they are.
LEMMA LogStep ==
  ASSUME QueryLogInv, WaitingInv', RowsInv',
         UNCHANGED <<world, logging, clock, task, series, top, recent, clearing, queries, perSec, asked, done>>
  PROVE  QueryLogInv'
<1>1. StatsTypes /\ RingInv /\ TopInv /\ TasksInv /\ RecentInv
  BY Zenon DEF QueryLogInv
<1>2. StatsTypes' /\ RingInv' /\ TopInv' /\ TasksInv'
  <2>1. logging' \in BOOLEAN
    BY <1>1, Zenon DEF StatsTypes
  <2> QED  BY <1>1, <2>1, StatsKept, Zenon
<1>3. RecentInv'
  BY <1>1, Zenon DEF RecentInv, Early, Ordered
<1> QED  BY <1>2, <1>3, Zenon DEF QueryLogInv

\* Nothing came in.
LEMMA SameGrows ==
  ASSUME QueryLogInv, UNCHANGED <<queries, done>>
  PROVE  Grows
<1>1. queries \in Nat
  BY Zenon DEF QueryLogInv, StatsTypes
<1> QED  BY <1>1 DEF Grows

\* The ids are consecutive, and the largest is found.
LEMMA Ids ==
  ASSUME RowsInv
  PROVE  \E lo \in Nat \ {0} : MaxId \in Nat /\ DOMAIN rows = lo .. MaxId
<1>1. PICK l \in Nat, h \in Nat : IdsAre(l, h)
  BY Zenon DEF RowsInv
<1>2. l \in Nat \ {0} /\ h \in Nat /\ DOMAIN rows = l .. h
  BY <1>1, Zenon DEF IdsAre
<1> DEFINE S == {0} \cup DOMAIN rows
           m == IF l <= h THEN h ELSE 0
           lo == IF l <= h THEN l ELSE 1
<1>3. m \in S /\ m \in Nat /\ \A y \in S : y \in Nat /\ m >= y
  BY <1>2
<1>4. lo \in Nat \ {0} /\ DOMAIN rows = lo .. m
  BY <1>2
<1>5. MaxId = CHOOSE x \in S : \A y \in S : x >= y
  BY Zenon DEF MaxId, Max
<1> HIDE DEF S, m, lo
<1>6. MaxId \in S /\ \A y \in S : MaxId >= y
  BY <1>3, <1>5, Zenon
<1>7. MaxId = m
  BY <1>3, <1>6
<1> QED  BY <1>3, <1>4, <1>7, Zenon

\* The writer's batch is the head of the channel, so what waits is the same.
LEMMA RecvOK ==
  ASSUME QueryLogInv, Recv
  PROVE  QueryLogInv'
<1>1. WaitingInv /\ RowsInv
  BY Zenon DEF QueryLogInv
<1>2. /\ writer.pc = "recv" /\ writer' = [pc |-> "insert", buf |-> writer.buf \o SubSeq(queue, 1, Batch)]
      /\ queue' = SubSeq(queue, Batch + 1, Len(queue))
      /\ UNCHANGED <<world, logging, clock, task, series, top, recent, clearing, rows, queries, perSec, asked, done>>
  BY Zenon DEF Recv, bounds
<1>3. queue \in Seq(Entry) /\ Len(queue) \in Nat /\ writer.buf = <<>> /\ Len(queue) <= QueueCap
  <2>1. writer.pc # "insert"
    BY <1>2, Zenon
  <2> QED  BY <1>1, <2>1, WaitingParts, Zenon DEF WaitingInv
<1>4. Batch \in 0 .. Len(queue) /\ Batch <= BatchCap /\ Batch \in Nat
  BY <1>3, QueryLogAssumption DEF Batch
<1> DEFINE a == SubSeq(queue, 1, Batch)  b == SubSeq(queue, Batch + 1, Len(queue))
<1>5. a \in Seq(Entry) /\ Len(a) = Batch /\ b \in Seq(Entry) /\ Len(b) = Len(queue) - Batch
  BY <1>3, <1>4
<1>6. a \o b = queue
  <2>1. a \o b = SubSeq(queue, 1, Len(queue))
    <3>1. /\ 1 \in 1 .. Len(queue) + 1 /\ Batch \in 1 - 1 .. Len(queue)
          /\ Len(queue) \in Batch .. Len(queue)
      BY <1>3, <1>4
    <3> QED  BY <1>3, <3>1, ConcatAdjacentSubSeq, Zenon
  <2> QED  BY <1>3, <2>1, SubSeqFull, Zenon
<1> HIDE DEF a, b
<1>7. writer' = [pc |-> "insert", buf |-> a] /\ queue' = b
  <2>1. <<>> \o a = a
    BY <1>5, ConcatEmptySeq, Zenon
  <2> QED  BY <1>2, <1>3, <2>1, Zenon DEF a, b
<1>8. Waiting' = Waiting
  <2>1. writer'.buf = a
    BY <1>7, Zenon
  <2>2. Waiting' = queue
    BY <1>6, <1>7, <2>1, Zenon DEF Waiting
  <2>3. Waiting = queue
    BY <1>3, ConcatEmptySeq, Zenon DEF Waiting
  <2> QED  BY <2>2, <2>3, Zenon
<1>9. WaitingInv'
  <2>1. /\ writer' \in [pc : {"recv", "insert", "prune"}, buf : Seq(Entry)]
        /\ writer'.buf = a /\ writer'.pc = "insert"
    BY <1>5, <1>7, Zenon
  <2>2. Len(writer'.buf) <= BatchCap /\ Len(queue') <= QueueCap /\ queue' \in Seq(Entry)
    BY <1>3, <1>4, <1>5, <1>7, <2>1, QueryLogAssumption
  <2>3. /\ \A i \in 1 .. Len(Waiting') : Logged(Waiting'[i], queries', done')
        /\ Ordered(Waiting')
    BY <1>1, <1>2, <1>8, Zenon DEF WaitingInv
  <2> QED  BY <2>1, <2>2, <2>3, Zenon DEF WaitingInv, Ordered
<1>10. RowsInv'
  <2>1. Grows
    BY <1>2, SameGrows, Zenon
  <2> QED  BY <1>1, <1>2, <1>8, <2>1, RowsKept, Zenon DEF RowsInv
<1> QED  BY <1>2, <1>9, <1>10, LogStep, Zenon

\* The writer has given its buffer away: the queue is what waits.
LEMMA BufferGone ==
  ASSUME WaitingInv, writer' \in [pc : {"recv", "prune"}, buf : {<<>>}],
         UNCHANGED <<queue, queries, done>>
  PROVE  /\ WaitingInv' /\ Len(Waiting') = Len(queue)
         /\ \A k \in 1 .. Len(queue) :
              /\ Len(writer.buf) + k \in 1 .. Len(Waiting)
              /\ Waiting'[k] = Waiting[Len(writer.buf) + k]
<1> DEFINE n == Len(writer.buf)
<1>1. /\ queue \in Seq(Entry) /\ n \in Nat /\ Len(queue) \in Nat
      /\ \A k \in 1 .. Len(queue) : n + k \in 1 .. Len(Waiting) /\ Waiting[n + k] = queue[k]
  BY WaitingParts, Zenon
<1>2. writer'.buf = <<>> /\ writer' \in [pc : {"recv", "insert", "prune"}, buf : Seq(Entry)]
  <2>1. <<>> \in Seq(Entry)
    BY EmptySeq, Zenon
  <2> DEFINE none == <<>>
  <2>2. none \in Seq(Entry) /\ writer' \in [pc : {"recv", "prune"}, buf : {none}]
    BY <2>1, Zenon
  <2> HIDE DEF none
  <2>3. writer'.buf = none /\ writer' \in [pc : {"recv", "insert", "prune"}, buf : Seq(Entry)]
    BY <2>2, Zenon
  <2> QED  BY <2>3, Zenon DEF none
<1>3. Waiting' = queue
  <2>1. <<>> \o queue = queue
    BY <1>1, ConcatEmptySeq, Zenon
  <2> QED  BY <1>2, <2>1, Zenon DEF Waiting
<1> HIDE DEF n
<1>4. \A k \in 1 .. Len(queue) : Waiting'[k] = Waiting[n + k]
  BY <1>1, <1>3, Zenon
<1>5. \A k \in 1 .. Len(Waiting') : Logged(Waiting'[k], queries', done')
  BY <1>1, <1>3, Zenon DEF WaitingInv
<1>6. Ordered(Waiting')
  <2> SUFFICES ASSUME NEW i \in 1 .. Len(queue), NEW j \in 1 .. Len(queue), i < j
               PROVE  Before(queue[i], queue[j])
    BY <1>3, Zenon DEF Ordered
  <2>1. n + i < n + j
    BY <1>1
  <2> QED  BY <1>1, <2>1, Zenon DEF WaitingInv, Ordered
<1>7. Len(writer'.buf) <= BatchCap /\ Len(queue') <= QueueCap /\ queue' \in Seq(Entry)
  <2>1. Len(<<>>) = 0 /\ 0 <= BatchCap
    BY QueryLogAssumption
  <2> QED  BY <1>2, <2>1, Zenon DEF WaitingInv
<1> QED  BY <1>1, <1>2, <1>3, <1>4, <1>5, <1>6, <1>7, Zenon DEF WaitingInv, Ordered, n

\* insert_queries: the batch gets the next ids.
LEMMA InsertedIds ==
  ASSUME RowsInv, WaitingInv
  PROVE  \E lo \in Nat \ {0} :
           /\ MaxId \in Nat /\ DOMAIN rows = lo .. MaxId
           /\ DOMAIN Inserted = lo .. MaxId + Len(writer.buf)
           /\ \A i \in DOMAIN rows : i \in DOMAIN Inserted /\ Inserted[i] = rows[i]
           /\ \A i \in DOMAIN Inserted \ DOMAIN rows :
                /\ i - MaxId \in 1 .. Len(writer.buf) /\ Inserted[i] = writer.buf[i - MaxId]
                /\ \A j \in DOMAIN rows : j < i
<1>1. PICK l \in Nat \ {0} : MaxId \in Nat /\ DOMAIN rows = l .. MaxId
  BY Ids, Zenon
<1> DEFINE M == MaxId  n == Len(writer.buf) lo1 == IF l <= M + 1 THEN l ELSE M + 1
<1>2. n \in Nat
  BY WaitingParts, Zenon
<1>3. /\ DOMAIN Inserted = DOMAIN rows \cup (M + 1 .. M + n)
      /\ \A i \in DOMAIN rows \cup (M + 1 .. M + n) :
           Inserted[i] = IF i \in DOMAIN rows THEN rows[i] ELSE writer.buf[i - M]
  BY Zenon DEF Inserted
<1> HIDE DEF M, n
<1>4. M \in Nat /\ DOMAIN rows = l .. M
  BY <1>1, Zenon DEF M
<1>5. /\ lo1 \in Nat \ {0} /\ DOMAIN rows = lo1 .. M
      /\ DOMAIN Inserted = lo1 .. M + n
  BY <1>2, <1>3, <1>4
<1>6. \A i \in DOMAIN Inserted \ DOMAIN rows : i - M \in 1 .. n /\ \A j \in DOMAIN rows : j < i
  BY <1>2, <1>4, <1>5
<1> HIDE DEF lo1
<1>7. \A i \in DOMAIN rows : i \in DOMAIN Inserted /\ Inserted[i] = rows[i]
  BY <1>3, Zenon
<1>8. \A i \in DOMAIN Inserted \ DOMAIN rows : Inserted[i] = writer.buf[i - M]
  BY <1>3, Zenon
<1> QED  BY <1>4, <1>5, <1>6, <1>7, <1>8, Zenon DEF M, n

\* The batch becomes rows on the ids after the largest, in its order.
LEMMA InsertOK ==
  ASSUME QueryLogInv, Insert
  PROVE  QueryLogInv'
<1> DEFINE n == Len(writer.buf)
<1>1. StatsTypes /\ WaitingInv /\ RowsInv
  BY Zenon DEF QueryLogInv
<1>2. /\ rows' = Inserted /\ writer' = [pc |-> "prune", buf |-> <<>>]
      /\ UNCHANGED <<world, logging, clock, task, series, top, recent, queue, clearing, queries, perSec, asked, done>>
  BY Zenon DEF Insert, bounds
<1>3. PICK lo \in Nat \ {0} :
        /\ MaxId \in Nat /\ DOMAIN rows = lo .. MaxId
        /\ DOMAIN rows' = lo .. MaxId + n
        /\ \A i \in DOMAIN rows : i \in DOMAIN rows' /\ rows'[i] = rows[i]
        /\ \A i \in DOMAIN rows' \ DOMAIN rows :
             /\ i - MaxId \in 1 .. n /\ rows'[i] = writer.buf[i - MaxId]
             /\ \A j \in DOMAIN rows : j < i
  <2> HIDE DEF n
  <2> QED  BY <1>1, <1>2, InsertedIds, Zenon DEF n
<1>4. /\ WaitingInv' /\ Len(Waiting') = Len(queue)
      /\ \A k \in 1 .. Len(queue) : n + k \in 1 .. Len(Waiting) /\ Waiting'[k] = Waiting[n + k]
  <2>1. writer' \in [pc : {"recv", "prune"}, buf : {<<>>}]
    BY <1>2, Zenon
  <2> QED  BY <1>1, <1>2, <2>1, BufferGone, Zenon
<1>5. /\ n \in Nat /\ Len(queue) \in Nat
      /\ \A k \in 1 .. n : k \in 1 .. Len(Waiting) /\ Waiting[k] = writer.buf[k]
  BY <1>1, WaitingParts, Zenon
<1> HIDE DEF n
<1>6. \A i \in DOMAIN rows' \ DOMAIN rows :
        /\ i \in Nat /\ i - MaxId \in 1 .. n /\ i - MaxId \in 1 .. Len(Waiting) /\ rows'[i] = Waiting[i - MaxId]
        /\ \A j \in DOMAIN rows : j < i
  <2>1. \A i \in DOMAIN rows' : i \in Nat
    BY <1>3, <1>5
  <2> QED  BY <1>3, <1>5, <2>1, Zenon
<1>7. ASSUME NEW i \in DOMAIN rows' PROVE Logged(rows'[i], queries', done')
  BY <1>1, <1>2, <1>3, <1>6, Zenon DEF WaitingInv, RowsInv
<1>8. ASSUME NEW i \in DOMAIN rows', NEW j \in DOMAIN rows', i < j
      PROVE  Before(rows'[i], rows'[j])
  <2>1. CASE i \in DOMAIN rows /\ j \in DOMAIN rows
    BY <1>1, <1>3, <1>8, <2>1, Zenon DEF RowsInv
  <2>2. CASE i \in DOMAIN rows /\ j \notin DOMAIN rows
    BY <1>1, <1>3, <1>6, <2>2, Zenon DEF RowsInv
  <2>3. CASE i \notin DOMAIN rows /\ j \in DOMAIN rows
    <3>1. j < i /\ i \in Nat /\ j \in Nat
      BY <1>3, <1>6, <2>3
    <3> QED  BY <1>8, <3>1
  <2>4. CASE i \notin DOMAIN rows /\ j \notin DOMAIN rows
    <3>1. i - MaxId < j - MaxId
      BY <1>3, <1>6, <1>8, <2>4
    <3> QED  BY <1>1, <1>6, <2>4, <3>1, Zenon DEF WaitingInv, Ordered
  <2> QED  BY <2>1, <2>2, <2>3, <2>4, Zenon
<1>9. ASSUME NEW i \in DOMAIN rows', NEW k \in 1 .. Len(Waiting')
      PROVE  Before(rows'[i], Waiting'[k])
  <2>1. k \in 1 .. Len(queue) /\ n + k \in 1 .. Len(Waiting) /\ Waiting'[k] = Waiting[n + k]
    BY <1>4, Zenon
  <2>2. CASE i \in DOMAIN rows
    BY <1>1, <1>3, <2>1, <2>2, Zenon DEF RowsInv
  <2>3. CASE i \notin DOMAIN rows
    <3>1. i - MaxId < n + k
      BY <1>3, <1>5, <1>6, <2>1, <2>3
    <3> QED  BY <1>1, <1>6, <2>1, <2>3, <3>1, Zenon DEF WaitingInv, Ordered
  <2> QED  BY <2>2, <2>3, Zenon
<1>10. \E l \in Nat, h \in Nat : l \in Nat \ {0} /\ h \in Nat /\ DOMAIN rows' = l .. h
  <2>1. MaxId + n \in Nat /\ lo \in Nat
    BY <1>3, <1>5
  <2> QED  BY <1>3, <2>1, Zenon
<1>11. RowsInv'
  BY <1>7, <1>8, <1>9, <1>10, Zenon DEF RowsInv, IdsAre
<1> QED  BY <1>2, <1>4, <1>11, LogStep, Zenon

\* A batch that cannot be inserted is lost as a whole.
LEMMA InsertFailsOK ==
  ASSUME QueryLogInv, InsertFails
  PROVE  QueryLogInv'
<1>1. WaitingInv /\ RowsInv
  BY Zenon DEF QueryLogInv
<1>2. /\ writer' = [pc |-> "prune", buf |-> <<>>]
      /\ UNCHANGED <<world, logging, clock, task, series, top, recent, queue, clearing, rows, queries, perSec, asked, done>>
  BY Zenon DEF InsertFails, bounds
<1>3. writer' \in [pc : {"recv", "prune"}, buf : {<<>>}]
  BY <1>2, Zenon
<1>4. /\ WaitingInv' /\ Len(Waiting') = Len(queue)
      /\ \A k \in 1 .. Len(queue) :
           /\ Len(writer.buf) + k \in 1 .. Len(Waiting)
           /\ Waiting'[k] = Waiting[Len(writer.buf) + k]
  BY <1>1, <1>2, <1>3, BufferGone, Zenon
<1>5. \A k \in 1 .. Len(Waiting') : \A i \in DOMAIN rows : Before(rows[i], Waiting'[k])
  BY <1>1, <1>4, Zenon DEF RowsInv
<1>6. RowsInv'
  BY <1>1, <1>2, <1>5, SameGrows, RowsKept, Zenon
<1> QED  BY <1>2, <1>4, <1>6, LogStep, Zenon

\* Rows are deleted from the oldest on.
LEMMA PrunedIds ==
  ASSUME RowsInv, NEW k \in Nat
  PROVE  \E lo \in Nat \ {0}, l \in Nat \ {0} :
           /\ MaxId \in Nat /\ DOMAIN rows = lo .. MaxId /\ DOMAIN Pruned(k) = l .. MaxId
           /\ lo <= l /\ l > MaxId - k /\ (l = lo \/ l = MaxId - k + 1)
           /\ \A i \in DOMAIN Pruned(k) : i \in DOMAIN rows /\ Pruned(k)[i] = rows[i]
<1>1. PICK lo \in Nat \ {0} : MaxId \in Nat /\ DOMAIN rows = lo .. MaxId
  BY Ids, Zenon
<1> DEFINE M == MaxId  l == IF lo > M - k THEN lo ELSE M - k + 1
<1>2. /\ DOMAIN Pruned(k) = {j \in DOMAIN rows : j > M - k}
      /\ \A i \in {j \in DOMAIN rows : j > M - k} : Pruned(k)[i] = rows[i]
  BY Zenon DEF Pruned
<1> HIDE DEF M
<1>3. M \in Nat /\ DOMAIN rows = lo .. M
  BY <1>1, Zenon DEF M
<1>4. l \in Nat \ {0} /\ lo <= l /\ l > M - k /\ (l = lo \/ l = M - k + 1)
  BY <1>3
<1>5. {j \in DOMAIN rows : j > M - k} = l .. M
  BY <1>3
<1> HIDE DEF l
<1>6. \A i \in DOMAIN Pruned(k) : i \in DOMAIN rows /\ Pruned(k)[i] = rows[i]
  BY <1>2, Zenon
<1> QED  BY <1>2, <1>3, <1>4, <1>5, <1>6, Zenon DEF M

\* Pruning leaves the newest rows, on consecutive ids.
LEMMA PrunedOK ==
  ASSUME QueryLogInv, NEW k \in Nat, rows' = Pruned(k), Waiting' = Waiting, UNCHANGED <<queries, done>>
  PROVE  RowsInv'
<1>1. RowsInv
  BY Zenon DEF QueryLogInv
<1>2. /\ \E l \in Nat, h \in Nat : l \in Nat \ {0} /\ h \in Nat /\ DOMAIN rows' = l .. h
      /\ \A i \in DOMAIN rows' : i \in DOMAIN rows /\ rows'[i] = rows[i]
  <2>1. PICK l \in Nat \ {0} :
          /\ MaxId \in Nat /\ DOMAIN Pruned(k) = l .. MaxId
          /\ \A i \in DOMAIN Pruned(k) : i \in DOMAIN rows /\ Pruned(k)[i] = rows[i]
    BY <1>1, PrunedIds, Zenon
  <2>2. l \in Nat
    OBVIOUS
  <2> QED  BY <2>1, <2>2, Zenon
<1>3. \A i \in DOMAIN rows' : Logged(rows'[i], queries', done')
  BY <1>1, <1>2, Zenon DEF RowsInv
<1>4. \A i \in DOMAIN rows', j \in DOMAIN rows' : i < j => Before(rows'[i], rows'[j])
  BY <1>1, <1>2, Zenon DEF RowsInv
<1>5. \A i \in DOMAIN rows' : \A n \in 1 .. Len(Waiting') : Before(rows'[i], Waiting'[n])
  BY <1>1, <1>2, Zenon DEF RowsInv
<1> QED  BY <1>2, <1>3, <1>4, <1>5, Zenon DEF RowsInv, IdsAre

\* The writer's pruning keeps the invariant, whether or not it fails.
LEMMA PruneOK ==
  ASSUME QueryLogInv, Prune \/ PruneFails
  PROVE  QueryLogInv'
<1>1. WaitingInv /\ RowsInv
  BY Zenon DEF QueryLogInv
<1>2. /\ writer.pc = "prune" /\ writer' = [writer EXCEPT !.pc = "recv"]
      /\ rows' = Pruned(MaxRows) \/ rows' = rows
      /\ UNCHANGED <<world, logging, clock, task, series, top, recent, queue, clearing, queries, perSec, asked, done>>
  BY Zenon DEF Prune, PruneFails, bounds
<1>3. writer \in [pc : {"recv", "insert", "prune"}, buf : Seq(Entry)] /\ writer.buf = <<>>
  <2>1. writer.pc # "insert"
    BY <1>2, Zenon
  <2> QED  BY <1>1, <2>1, Zenon DEF WaitingInv
<1>4. writer' \in [pc : {"recv", "prune"}, buf : {<<>>}] /\ writer'.buf = writer.buf
  BY <1>2, <1>3, Zenon
<1>5. WaitingInv' /\ Waiting' = Waiting
  BY <1>1, <1>2, <1>4, BufferGone, Zenon DEF Waiting
<1>6. RowsInv'
  <2>1. CASE rows' = Pruned(MaxRows)
    <3>1. MaxRows \in Nat
      BY QueryLogAssumption, Zenon
    <3> QED  BY <1>2, <1>5, <2>1, <3>1, PrunedOK, Zenon
  <2>2. CASE rows' = rows
    <3>1. Grows
      BY <1>2, SameGrows, Zenon
    <3> QED  BY <1>1, <1>5, <2>2, <3>1, RowsKept, Zenon DEF RowsInv
  <2> QED  BY <1>2, <2>1, <2>2, Zenon
<1> QED  BY <1>2, <1>5, <1>6, LogStep, Zenon

-----------------------------------------------------------------------------
(* Requests, time and restarts. *)

\* A step that leaves the tasks, the recent queries and the log.
LEMMA OtherStep ==
  ASSUME QueryLogInv, StatsTypes', RingInv', TopInv',
         UNCHANGED <<task, recent, queue, writer, rows, queries, done>>
  PROVE  QueryLogInv'
<1>1. TasksInv /\ RecentInv /\ WaitingInv /\ RowsInv
  BY Zenon DEF QueryLogInv
<1>2. TasksInv'
  BY <1>1, Zenon DEF TasksInv
<1>3. RecentInv'
  BY <1>1, Zenon DEF RecentInv, Early, Ordered
<1>4. WaitingInv' /\ RowsInv'
  BY <1>1, SameGrows, LogKept, Zenon
<1> QED  BY <1>2, <1>3, <1>4, Zenon DEF QueryLogInv

\* clear empties one table after the other, while queries come in.
LEMMA ClearOneOK ==
  ASSUME QueryLogInv, ClearOne
  PROVE  QueryLogInv'
<1> DEFINE c == Head(clearing)  none == [d \in Domains |-> 0]
<1>1. StatsTypes /\ RingInv /\ TopInv /\ TasksInv /\ RecentInv /\ WaitingInv /\ RowsInv
  BY Zenon DEF QueryLogInv
<1>2. /\ clearing # <<>> /\ clearing' = Tail(clearing)
      /\ IF c = "recent" THEN recent' = <<>> /\ UNCHANGED <<top, asked>>
         ELSE /\ top' = [top EXCEPT ![c] = none]
              /\ asked' = [asked EXCEPT ![c] = none]
              /\ recent' = recent
      /\ UNCHANGED <<world, logging, clock, task, series, queue, writer, rows, queries, perSec, done>>
  BY Zenon DEF ClearOne, bounds
<1>3. /\ c \in {"recent", "domains", "blocked"}
      /\ clearing' \in {<<>>, <<"blocked">>, <<"domains", "blocked">>, <<"recent", "domains", "blocked">>}
  <2>1. clearing \in {<<"blocked">>, <<"domains", "blocked">>, <<"recent", "domains", "blocked">>}
    BY <1>1, <1>2, Zenon DEF StatsTypes
  <2>2. CASE clearing = <<"blocked">>
    BY <1>2, <2>2
  <2>3. CASE clearing = <<"domains", "blocked">>
    BY <1>2, <2>3
  <2>4. CASE clearing = <<"recent", "domains", "blocked">>
    BY <1>2, <2>4
  <2> QED  BY <2>1, <2>2, <2>3, <2>4, Zenon
<1>4. none \in [Domains -> Nat] /\ Counts(none, none)
  BY NoCountsOK, Zenon
<1> HIDE DEF c, none
<1>5. RingInv'
  BY <1>1, <1>2, Zenon DEF RingInv
<1>6. CASE c = "recent"
  <2>1. recent' = <<>> /\ UNCHANGED <<top, asked>>
    BY <1>2, <1>6, Zenon
  <2>2. StatsTypes' /\ TopInv'
    BY <1>1, <1>2, <1>3, <2>1, Zenon DEF StatsTypes, TopInv
  <2>3. RecentInv'
    <3>1. recent' \in Seq(Entry) /\ Len(recent') = 0 /\ Len(recent') <= RecentCap /\ 1 .. Len(recent') = {}
      BY <2>1, QueryLogAssumption
    <3> QED  BY <3>1, Zenon DEF RecentInv, Ordered
  <2>4. TasksInv'
    BY <1>1, <1>2, Zenon DEF TasksInv
  <2>5. WaitingInv' /\ RowsInv'
    BY <1>1, <1>2, SameGrows, LogKept, Zenon
  <2> QED  BY <1>5, <2>2, <2>3, <2>4, <2>5, Zenon DEF QueryLogInv
<1>7. CASE c # "recent"
  <2>1. /\ top' = [top EXCEPT ![c] = none] /\ asked' = [asked EXCEPT ![c] = none]
        /\ recent' = recent /\ c \in Tables
    <3>1. c \in Tables
      BY <1>3, <1>7, Zenon DEF Tables
    <3> QED  BY <1>2, <1>7, <3>1, Zenon
  <2>2. /\ top' \in [Tables -> [Domains -> Nat]] /\ asked' \in [Tables -> [Domains -> Nat]]
        /\ top'[c] = none /\ asked'[c] = none
        /\ \A u \in Tables \ {c} : top'[u] = top[u] /\ asked'[u] = asked[u]
    BY <1>1, <1>4, <2>1, Zenon DEF StatsTypes
  <2>3. TopInv'
    BY <1>1, <1>4, <2>2, Zenon DEF TopInv
  <2>4. StatsTypes'
    BY <1>1, <1>2, <1>3, <2>2, Zenon DEF StatsTypes
  <2> QED  BY <1>2, <1>5, <2>1, <2>3, <2>4, OtherStep, Zenon
<1> QED  BY <1>6, <1>7, Zenon

\* A process that has just started; the table may be older.
Started ==
  /\ world \in World /\ clock = 0 /\ logging \in BOOLEAN
  /\ queries \in Nat /\ done \in SUBSET Nat /\ \A n \in done : n <= queries
  /\ task = [t \in Tasks |-> Idle]
  /\ series = NoSeries /\ top = NoCounts /\ recent = <<>> /\ clearing = <<>>
  /\ queue = <<>> /\ writer = [pc |-> "recv", buf |-> <<>>]
  /\ perSec = [s \in 0 .. world.clock |-> 0] /\ asked = NoCounts
  /\ RowsInv

\* A process that starts has the invariant, with whatever rows it finds.
LEMMA StartedOK == Started => QueryLogInv
<1> SUFFICES ASSUME Started PROVE QueryLogInv
  OBVIOUS
<1> USE DEF Started
<1> DEFINE none == [d \in Domains |-> 0]
<1>1. none \in [Domains -> Nat] /\ Counts(none, none)
  BY NoCountsOK, Zenon
<1>2. NoCounts = [t \in Tables |-> none]
  BY Zenon DEF NoCounts
<1> HIDE DEF none
<1>3. /\ top \in [Tables -> [Domains -> Nat]] /\ asked \in [Tables -> [Domains -> Nat]]
      /\ \A t \in Tables : top[t] = none /\ asked[t] = none
  BY <1>1, <1>2, Zenon
<1>4. TopInv
  BY <1>1, <1>3, Zenon DEF TopInv
<1>5. clock \in 0 .. world.clock
  BY DEF World
<1>6. task \in [Tasks -> {Idle} \cup Recording] /\ \A t \in Tasks : task[t] = Idle
  BY Zenon
<1>7. StatsTypes
  BY <1>3, <1>5, <1>6, Zenon DEF StatsTypes
<1>8. RingInv
  BY NewRingOK, Zenon
<1>9. TasksInv
  BY <1>6, Zenon DEF TasksInv
<1>10. RecentInv
  <2>1. recent \in Seq(Entry) /\ Len(recent) <= RecentCap /\ 1 .. Len(recent) = {}
    BY QueryLogAssumption
  <2> QED  BY <2>1, Zenon DEF RecentInv, Ordered
<1>11. WaitingInv
  <2>1. 1 .. Len(Waiting) = {}
    BY DEF Waiting
  <2>2. /\ queue \in Seq(Entry) /\ Len(queue) <= QueueCap
        /\ writer.buf = <<>> /\ Len(writer.buf) <= BatchCap
        /\ writer \in [pc : {"recv", "insert", "prune"}, buf : Seq(Entry)]
    BY QueryLogAssumption
  <2> QED  BY <2>1, <2>2, Zenon DEF WaitingInv, Ordered
<1> QED  BY <1>4, <1>7, <1>8, <1>9, <1>10, <1>11, Zenon DEF QueryLogInv

\* The same of the state after a step.
LEMMA StartsOK == Started' => QueryLogInv'
  BY StartedOK, PTL

\* The first process starts with an empty table.
LEMMA QueryLogInitOK == Init => QueryLogInv
<1> SUFFICES ASSUME Init PROVE Started
  BY StartedOK, Zenon
<1>1. world \in World /\ logging \in BOOLEAN
  BY QueryLogAssumption, Zenon DEF Init, World
<1>2. rows = <<>> /\ DOMAIN rows = {} /\ done = {} /\ queries \in Nat
  BY DEF Init
<1>3. RowsInv
  <2>1. IdsAre(1, 0)
    BY <1>2 DEF IdsAre
  <2> QED  BY <1>2, <2>1, Zenon DEF RowsInv
<1> QED  BY <1>1, <1>2, <1>3, Zenon DEF Init, Started

\* After a restart the rows are there, and nothing else.
LEMMA RestartOK ==
  ASSUME QueryLogInv, Restart
  PROVE  QueryLogInv'
<1>1. StatsTypes /\ TasksInv /\ RowsInv
  BY Zenon DEF QueryLogInv
<1>2. RowsInv'
  <2>1. Grows /\ UNCHANGED rows
    BY SameGrows, Zenon DEF Restart
  <2>2. 1 .. Len(Waiting') = {}
    BY DEF Waiting, Restart
  <2> QED  BY <1>1, <2>1, <2>2, RowsKept, Zenon
<1>3. /\ world' \in World /\ logging' \in BOOLEAN /\ queries' \in Nat /\ done' \in SUBSET Nat
      /\ \A n \in done' : n <= queries'
  BY <1>1, Zenon DEF Restart, StatsTypes, TasksInv
<1>4. Started'
  BY <1>2, <1>3, Zenon DEF Started, Restart
<1> QED  BY <1>4, StartsOK, Zenon

\* The administrator's requests and the clock keep the invariant.
LEMMA RequestOK ==
  ASSUME QueryLogInv, ClearQueryLog \/ ClearStats \/ Tick \/ \E b \in world.modes : SetLogging(b)
  PROVE  QueryLogInv'
<1>1. StatsTypes /\ RingInv /\ TopInv /\ TasksInv /\ RecentInv /\ WaitingInv /\ RowsInv
  BY Zenon DEF QueryLogInv
<1>2. CASE ClearQueryLog
  <2>1. /\ rows' = Pruned(0)
        /\ UNCHANGED <<world, logging, clock, task, series, top, recent, clearing, queries, perSec, asked, done>>
        /\ UNCHANGED <<queue, writer>>
    BY <1>2, Zenon DEF ClearQueryLog, memory
  <2>2. WaitingInv' /\ Waiting' = Waiting
    BY <1>1, <2>1, SameGrows, WaitingKept, Zenon DEF Waiting
  <2>3. 0 \in Nat
    OBVIOUS
  <2> QED  BY <2>1, <2>2, <2>3, PrunedOK, LogStep, Zenon
<1>3. CASE ClearStats
  <2>1. StatsTypes' /\ RingInv' /\ TopInv'
    BY <1>1, <1>3, Zenon DEF ClearStats, StatsTypes, RingInv, TopInv
  <2> QED  BY <1>3, <2>1, OtherStep, Zenon DEF ClearStats
<1>4. CASE Tick
  <2>1. /\ clock < world.clock /\ clock' = clock + 1
        /\ UNCHANGED <<world, logging, task, series, top, recent, queue, writer, clearing, perSec, asked, rows, queries, done>>
    BY <1>4, Zenon DEF Tick, memory, bounds
  <2>2. clock' \in 0 .. world'.clock /\ clock' \in Nat /\ clock' >= clock
    BY <1>1, <2>1 DEF StatsTypes, World
  <2>3. StatsTypes' /\ TopInv'
    BY <1>1, <2>1, <2>2, Zenon DEF StatsTypes, TopInv
  <2>4. RingInv'
    BY <1>1, <2>1, <2>2, RingKept, Zenon
  <2> QED  BY <2>1, <2>3, <2>4, OtherStep, Zenon
<1>5. CASE \E b \in world.modes : SetLogging(b)
  <2>1. /\ logging' \in world.modes
        /\ UNCHANGED <<world, clock, task, series, top, recent, queue, writer, clearing, perSec, asked, rows, queries, done>>
    BY <1>5, Zenon DEF SetLogging, memory, bounds
  <2>2. logging' \in BOOLEAN
    BY <1>1, <2>1, Zenon DEF StatsTypes, World
  <2>3. StatsTypes' /\ RingInv' /\ TopInv'
    BY <1>1, <2>1, <2>2, StatsKept, Zenon
  <2> QED  BY <2>1, <2>3, OtherStep, Zenon
<1> QED  BY <1>2, <1>3, <1>4, <1>5, Zenon

\* Every step keeps the invariant.
LEMMA QueryLogStep == QueryLogInv /\ [Next]_vars => QueryLogInv'
<1> SUFFICES ASSUME QueryLogInv, [Next]_vars PROVE QueryLogInv'
  OBVIOUS
<1>1. ASSUME NEW t \in Tasks, Record(t) PROVE QueryLogInv'
  BY <1>1, CountOK, RememberOK, LogQueryOK, TrackOK, Zenon DEF Record
<1>2. ASSUME NEW t \in Tasks, NEW d \in world.names, Begin(t, d) PROVE QueryLogInv'
  BY <1>2, BeginOK, Zenon
<1>3. CASE Write
  BY <1>3, RecvOK, InsertOK, InsertFailsOK, PruneOK, Zenon DEF Write
<1>4. CASE ClearOne
  BY <1>4, ClearOneOK, Zenon
<1>5. CASE ClearQueryLog \/ ClearStats \/ Tick \/ \E b \in world.modes : SetLogging(b)
  BY <1>5, RequestOK, Zenon
<1>6. CASE Restart
  BY <1>6, RestartOK, Zenon
<1>7. CASE UNCHANGED vars
  <2>1. UNCHANGED <<world, logging, clock, task, series, top, recent, queue, writer, clearing, perSec, asked, rows, queries, done>>
    BY <1>7, Zenon DEF vars, memory, bounds
  <2>2. StatsTypes' /\ RingInv' /\ TopInv'
    BY <2>1, Zenon DEF QueryLogInv, StatsTypes, RingInv, TopInv
  <2> QED  BY <2>1, <2>2, OtherStep, Zenon
<1> QED  BY <1>1, <1>2, <1>3, <1>4, <1>5, <1>6, <1>7, Zenon DEF Next

\* So it holds throughout.
LEMMA QueryLogAlways == Spec => []QueryLogInv
  BY QueryLogInitOK, QueryLogStep, PTL DEF Spec

-----------------------------------------------------------------------------
(* What the invariant shows. *)

\* The invariant says what LogLinear does: ids without gaps, in order.
LEMMA LogShows == QueryLogInv => LogLinear
<1> SUFFICES ASSUME QueryLogInv PROVE LogLinear
  OBVIOUS
<1>1. RecentInv /\ WaitingInv /\ RowsInv
  BY Zenon DEF QueryLogInv
<1>2. \A i \in DOMAIN rows, j \in DOMAIN rows : i .. j \subseteq DOMAIN rows
  <2>1. PICK lo \in Nat \ {0} : MaxId \in Nat /\ DOMAIN rows = lo .. MaxId
    BY <1>1, Ids, Zenon
  <2> QED  BY <2>1
<1> QED  BY <1>1, <1>2, Zenon DEF LogLinear, RecentInv, WaitingInv, RowsInv, Waiting

\* The dashboard shows the queries of the last seconds, second by second
\* (SeriesExact): whatever the size of the ring, however long nobody asks, and
\* however many queries are recorded at the same time.
THEOREM SecondsExact == Spec => []SeriesExact
<1>1. QueryLogInv => SeriesExact
  BY RingShows, Zenon DEF QueryLogInv
<1> QED  BY <1>1, QueryLogAlways, PTL

\* Of the names a table tracks, top_n shows all queries since it was cleared,
\* and a name is missing only from a full table (TopExact): whatever the cap,
\* and however the locks of record and clear_log are taken in turn.
THEOREM NamesExact == Spec => []TopExact
<1>1. QueryLogInv => TopExact
  BY TopShows, Zenon DEF QueryLogInv
<1> QED  BY <1>1, QueryLogAlways, PTL

\* The log is in an order in which the queries can have come, each of them in
\* it once, on consecutive ids; no buffer on the way exceeds its bound
\* (LogLinear).
THEOREM LogInOrder == Spec => []LogLinear
  BY LogShows, QueryLogAlways, PTL

\* How many rows are left when rows are deleted up to the k newest.
LEMMA PrunedCount ==
  ASSUME RowsInv, NEW k \in Nat, rows' = Pruned(k)
  PROVE  /\ DOMAIN rows' \subseteq DOMAIN rows /\ Cardinality(DOMAIN rows') \in 0 .. k
         /\ \A i \in DOMAIN rows' : rows'[i] = rows[i]
         /\ \A i \in DOMAIN rows \ DOMAIN rows', j \in DOMAIN rows' : i < j
         /\ DOMAIN rows \subseteq DOMAIN rows' \/ Cardinality(DOMAIN rows') = k
<1>1. PICK lo \in Nat \ {0}, l \in Nat \ {0} :
        /\ MaxId \in Nat /\ DOMAIN rows = lo .. MaxId /\ DOMAIN rows' = l .. MaxId
        /\ lo <= l /\ l > MaxId - k /\ (l = lo \/ l = MaxId - k + 1)
        /\ \A i \in DOMAIN rows' : i \in DOMAIN rows /\ rows'[i] = rows[i]
  BY PrunedIds, Zenon
<1>2. Cardinality(DOMAIN rows') = IF l > MaxId THEN 0 ELSE MaxId - l + 1
  <2>1. l \in Int /\ MaxId \in Int
    BY <1>1
  <2> QED  BY <1>1, <2>1, FS_Interval, Zenon
<1>3. Cardinality(DOMAIN rows') \in 0 .. k
  BY <1>1, <1>2
<1>4. \A i \in DOMAIN rows \ DOMAIN rows', j \in DOMAIN rows' : i < j
  BY <1>1
<1>5. DOMAIN rows \subseteq DOMAIN rows' \/ Cardinality(DOMAIN rows') = k
  BY <1>1, <1>2
<1> QED  BY <1>1, <1>3, <1>4, <1>5, Zenon

\* What Next does to the table.
LEMMA RowSteps ==
  ASSUME [Next]_vars
  PROVE  \/ UNCHANGED rows
         \/ rows' = Inserted /\ writer.pc = "insert"
         \/ rows' = Pruned(MaxRows)
         \/ rows' = Pruned(0) /\ clears' = clears + 1
<1>1. ASSUME NEW t \in Tasks, Record(t) PROVE UNCHANGED rows
  BY <1>1, Zenon DEF Record, Count, Track, Remember, LogQuery
<1>2. ASSUME NEW t \in Tasks, NEW d \in world.names, Begin(t, d) PROVE UNCHANGED rows
  BY <1>2, Zenon DEF Begin
<1>3. CASE Recv \/ InsertFails \/ PruneFails
  BY <1>3, Zenon DEF Recv, InsertFails, PruneFails
<1>4. CASE ClearOne \/ ClearStats \/ Tick \/ Restart \/ UNCHANGED vars
  BY <1>4, Zenon DEF ClearOne, ClearStats, Tick, Restart, vars
<1>5. ASSUME NEW b \in world.modes, SetLogging(b) PROVE UNCHANGED rows
  BY <1>5, Zenon DEF SetLogging
<1>6. CASE Insert \/ Prune \/ ClearQueryLog
  BY <1>6, Zenon DEF Insert, Prune, ClearQueryLog
<1> QED  BY <1>1, <1>2, <1>3, <1>4, <1>5, <1>6, Zenon DEF Next, Write

ClearsCount == clears \in Nat

\* The number of clears is a number.
LEMMA ClearsStep == ClearsCount /\ [Next]_vars => ClearsCount'
<1> SUFFICES ASSUME [Next]_vars PROVE clears' = clears \/ clears' = clears + 1
  BY DEF ClearsCount
<1>1. ASSUME NEW t \in Tasks, Record(t) PROVE UNCHANGED clears
  BY <1>1, Zenon DEF Record, Count, Track, Remember, LogQuery, bounds
<1>2. ASSUME NEW t \in Tasks, NEW d \in world.names, Begin(t, d) PROVE UNCHANGED clears
  BY <1>2, Zenon DEF Begin
<1>3. CASE Write
  BY <1>3, Zenon DEF Write, Recv, Insert, InsertFails, Prune, PruneFails, bounds
<1>4. CASE ClearOne \/ ClearQueryLog \/ ClearStats \/ Tick \/ Restart \/ UNCHANGED vars
  BY <1>4, Zenon DEF ClearOne, ClearQueryLog, ClearStats, Tick, Restart, vars, bounds
<1>5. ASSUME NEW b \in world.modes, SetLogging(b) PROVE UNCHANGED clears
  BY <1>5, Zenon DEF SetLogging, bounds
<1> QED  BY <1>1, <1>2, <1>3, <1>4, <1>5, Zenon DEF Next

\* The table only loses its oldest rows, and by pruning none of the newest
\* MaxRows; after it no more are left (KeepsNewest).  prune_query_log counts
\* ids, which is right because they are consecutive: LogInOrder.
THEOREM NewestKept == Spec => KeepsNewest
<1> DEFINE Step ==
      /\ \A i \in Kept : rows'[i] = rows[i]
      /\ \A i \in DOMAIN rows' \ DOMAIN rows : \A j \in DOMAIN rows : j < i
      /\ \A i \in Deleted, j \in Kept : i < j
      /\ Deleted = {} \/ clears' > clears \/ Cardinality(Kept) >= MaxRows
      /\ writer.pc = "prune" /\ rows' # rows => Cardinality(DOMAIN rows') <= MaxRows
<1>1. QueryLogInv /\ ClearsCount /\ [Next]_vars => Step
  <2> SUFFICES ASSUME QueryLogInv, clears \in Nat, [Next]_vars PROVE Step
    BY Zenon DEF ClearsCount
  <2>1. RowsInv /\ WaitingInv /\ MaxRows \in Nat
    BY QueryLogAssumption, Zenon DEF QueryLogInv
  <2>2. CASE UNCHANGED rows
    <3>1. Deleted = {} /\ DOMAIN rows' \ DOMAIN rows = {}
      BY <2>2, Zenon DEF Deleted
    <3> QED  BY <2>2, <3>1, Zenon DEF Kept
  <2>3. CASE rows' = Inserted /\ writer.pc = "insert"
    <3>1. /\ \A i \in DOMAIN rows : i \in DOMAIN rows' /\ rows'[i] = rows[i]
          /\ \A i \in DOMAIN rows' \ DOMAIN rows : \A j \in DOMAIN rows : j < i
      BY <2>1, <2>3, InsertedIds, Zenon
    <3>2. Deleted = {} /\ writer.pc # "prune"
      BY <2>3, <3>1, Zenon DEF Deleted
    <3> QED  BY <3>1, <3>2, Zenon DEF Kept
  <2>4. ASSUME NEW k \in Nat, k <= MaxRows, rows' = Pruned(k), k = MaxRows \/ clears' > clears
        PROVE  Step
    <3>1. /\ DOMAIN rows' \subseteq DOMAIN rows /\ Cardinality(DOMAIN rows') \in 0 .. k
          /\ \A i \in DOMAIN rows' : rows'[i] = rows[i]
          /\ \A i \in DOMAIN rows \ DOMAIN rows', j \in DOMAIN rows' : i < j
          /\ DOMAIN rows \subseteq DOMAIN rows' \/ Cardinality(DOMAIN rows') = k
      BY <2>1, <2>4, PrunedCount, Zenon
    <3>2. Kept = DOMAIN rows' /\ DOMAIN rows' \ DOMAIN rows = {}
      BY <3>1, Zenon DEF Kept, Deleted
    <3>3. Cardinality(DOMAIN rows') <= MaxRows
      BY <2>1, <2>4, <3>1
    <3>4. Deleted = {} \/ clears' > clears \/ Cardinality(Kept) >= MaxRows
      <4>1. Deleted = {} \/ clears' > clears \/ Cardinality(Kept) = MaxRows
        BY <2>4, <3>1, <3>2, Zenon DEF Deleted
      <4> QED  BY <2>1, <4>1
    <3> QED  BY <3>1, <3>2, <3>3, <3>4, Zenon DEF Deleted
  <2>5. CASE rows' = Pruned(MaxRows)
    <3>1. MaxRows <= MaxRows
      BY <2>1
    <3> QED  BY <2>1, <2>4, <2>5, <3>1, Zenon
  <2>6. CASE rows' = Pruned(0) /\ clears' = clears + 1
    <3>1. 0 <= MaxRows /\ 0 \in Nat /\ clears' > clears
      BY <2>1, <2>6
    <3> QED  BY <2>4, <2>6, <3>1, Zenon
  <2> QED  BY <2>2, <2>3, <2>5, <2>6, RowSteps, Zenon
<1>2. Init => ClearsCount
  BY DEF Init, ClearsCount
<1> QED  BY <1>1, <1>2, QueryLogAlways, ClearsStep, PTL DEF Spec, KeepsNewest

=============================================================================
