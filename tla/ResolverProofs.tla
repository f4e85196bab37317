--------------------------- MODULE ResolverProofs ---------------------------
(***************************************************************************)
(* Proofs about Resolver for any number of queries and keys, every cache   *)
(* size and TTL, and whatever the administrator puts in place meanwhile.   *)
(***************************************************************************)
EXTENDS Resolver, FiniteSetTheorems, TLAPS

-----------------------------------------------------------------------------
(* The inductive invariant. *)

Waiting == {"wait", "put", "dead"}
Answered == {"put", "dead"}

\* What is live is something the administrator can put in place.
WorldInv ==
  /\ world \in Worlds /\ clock \in Nat
  /\ store \in world.stores /\ filter \in world.filters
  /\ cond \in world.conds /\ upstream \in world.upstreams
  /\ bounds \in world.bounds

TaskType ==
  /\ pc \in [Queries -> Labels]
  /\ key \in [Queries -> SUBSET Keys]
  /\ asked \in [Queries -> Nat]
  /\ handle \in [Queries -> SUBSET world.bounds]
  /\ mine \in [Queries -> BOOLEAN]
  /\ reply \in [Queries -> SUBSET [ttl : world.ttls, at : Nat]]
  /\ held \in [Queries -> SUBSET {"local", "blocked"}]

\* A query that waits holds a cache, the live one unless it was replaced, is
\* answered after it looked that cache up, and dies if the cache is one whose
\* settings make clamp panic.
QueryOK(q) ==
  /\ handle[q] # {} <=> pc[q] \in Waiting
  /\ reply[q] # {} <=> pc[q] \in Answered
  /\ asked[q] <= clock
  /\ mine[q] => handle[q] = {bounds}
  /\ \A r \in reply[q] : asked[q] <= r.at /\ r.at <= clock
  /\ pc[q] = "dead" => \E b \in handle[q] : Panics(b)

\* What is recorded of a key still holds, it is never that the key is local,
\* and nothing is left of it once the filter has been asked.
HeldOK(q) ==
  /\ held[q] \subseteq {"blocked"}
  /\ held[q] # {} => pc[q] = "filter"
  /\ \A k \in key[q] : held[q] \subseteq Facts(k, store, filter)

TaskInv == TaskType /\ \A q \in Queries : QueryOK(q) /\ HeldOK(q)

\* No entry lives longer than its TTL, counted from the answer, and the time
\* it spent in files.
Due(e) == e.expires <= e.fetched + e.lived + e.shelved

Timely(m) == \A e \in m : Due(e)

MapInv ==
  /\ map \subseteq Entry
  /\ IsFiniteSet(map)
  /\ Cardinality(map) <= bounds.cap
  /\ \A e, d \in map : e.key = d.key => e = d

\* The lines of a cache file.
Line == [entry : Entry, ttl : Nat, at : Nat]

\* The file holds entries of one map, as they were when it was written.
FileInv ==
  /\ file \subseteq Line
  /\ IsFiniteSet(file)
  /\ \A p, r \in file : p.entry.key = r.entry.key => p = r
  /\ \A p \in file : p.at <= clock /\ p.at + p.ttl = p.entry.expires /\ Due(p.entry)

AgeInv == Timely(map)

AnswerOK(a) ==
  /\ a.kind \in Kinds
  /\ a.held # {} => a.kind \in {"local", "mdns", "blocked"}

AnswerInv == \A a \in answer : AnswerOK(a) /\ a.fresh

ResolverInv ==
  WorldInv /\ TaskInv /\ MapInv /\ FileInv /\ AgeInv /\ AnswerInv

-----------------------------------------------------------------------------
(* The bookkeeping of one query. *)

\* The configuration in force is one the administrator can have set.
LEMMA WorldTypes ==
  ASSUME WorldInv
  PROVE  /\ filter \in Filter /\ store \subseteq Keys /\ cond \subseteq Keys
         /\ upstream \subseteq {TRUE} /\ bounds \in Bounds
         /\ world.bounds \subseteq Bounds /\ world.ttls \subseteq SUBSET Nat
<1>1. /\ world \in World
      /\ store \in world.stores /\ filter \in world.filters /\ cond \in world.conds
      /\ upstream \in world.upstreams /\ bounds \in world.bounds
  BY ResolverAssumption, Zenon DEF WorldInv
<1>2. /\ world.stores \subseteq SUBSET Keys /\ world.filters \subseteq Filter
      /\ world.conds \subseteq SUBSET Keys /\ world.upstreams \subseteq SUBSET {TRUE}
      /\ world.bounds \subseteq Bounds /\ world.ttls \subseteq SUBSET Nat
  BY <1>1, Zenon DEF World
<1> QED  BY <1>1, <1>2, Zenon

\* What the other queries do is nothing of this one's business.
LEMMA OwnQuery ==
  ASSUME TaskInv, NEW q \in Queries, TaskType',
         \A v \in Queries \ {q} :
           /\ pc'[v] = pc[v] /\ key'[v] = key[v] /\ asked'[v] = asked[v]
           /\ handle'[v] = handle[v] /\ mine'[v] = mine[v]
           /\ reply'[v] = reply[v] /\ held'[v] = held[v],
         clock' = clock, store' = store, filter' = filter, bounds' = bounds,
         QueryOK(q)', HeldOK(q)'
  PROVE  TaskInv'
<1>1. ASSUME NEW v \in Queries \ {q}
      PROVE  QueryOK(v)' /\ HeldOK(v)'
  <2>1. QueryOK(v)'
    BY <1>1, Zenon DEF TaskInv, QueryOK
  <2>2. HeldOK(v)'
    BY <1>1, Zenon DEF TaskInv, HeldOK, Facts
  <2> QED  BY <2>1, <2>2
<1> QED  BY <1>1, Zenon DEF TaskInv

\* A query that is answered is forgotten.
LEMMA FinishTask ==
  ASSUME WorldInv, TaskInv, NEW q \in Queries, NEW a, Finish(q, a),
         world' = world, clock' = clock, store' = store, filter' = filter,
         bounds' = bounds
  PROVE  TaskInv'
<1>1. TaskType'
  BY Zenon DEF Finish, Goto, TaskInv, TaskType, Labels
<1>2. /\ pc'[q] = "idle" /\ key'[q] = {} /\ asked'[q] = 0 /\ handle'[q] = {}
      /\ mine'[q] = FALSE /\ reply'[q] = {} /\ held'[q] = {}
  BY Zenon DEF Finish, Goto, TaskInv, TaskType
<1>3. QueryOK(q)'
  BY <1>2 DEF QueryOK, Waiting, Answered, WorldInv
<1>4. HeldOK(q)'
  BY <1>2, Zenon DEF HeldOK
<1>5. \A v \in Queries \ {q} :
        /\ pc'[v] = pc[v] /\ key'[v] = key[v] /\ asked'[v] = asked[v]
        /\ handle'[v] = handle[v] /\ mine'[v] = mine[v]
        /\ reply'[v] = reply[v] /\ held'[v] = held[v]
  BY Zenon DEF Finish, Goto, TaskInv, TaskType
<1> QED  BY <1>1, <1>3, <1>4, <1>5, OwnQuery, Zenon

\* A query that goes on keeps what it has, provided the filter let it.
LEMMA MoveTask ==
  ASSUME TaskInv, NEW q \in Queries, NEW label \in Labels, MoveOn(q, label),
         held[q] = {},
         label \in Waiting <=> pc[q] \in Waiting,
         label \in Answered <=> pc[q] \in Answered,
         label = "dead" => \E b \in handle[q] : Panics(b),
         world' = world, clock' = clock, store' = store, filter' = filter,
         bounds' = bounds
  PROVE  TaskInv'
<1>1. TaskType'
  BY Zenon DEF MoveOn, Goto, TaskInv, TaskType
<1>2. /\ pc'[q] = label
      /\ key' = key /\ asked' = asked /\ handle' = handle /\ mine' = mine
      /\ reply' = reply /\ held' = held
  BY Zenon DEF MoveOn, Goto, TaskInv, TaskType
<1>3. QueryOK(q)' /\ HeldOK(q)'
  BY <1>2, Zenon DEF TaskInv, QueryOK, HeldOK
<1>4. \A v \in Queries \ {q} : pc'[v] = pc[v]
  BY Zenon DEF MoveOn, Goto, TaskInv, TaskType
<1> QED  BY <1>1, <1>2, <1>3, <1>4, OwnQuery, Zenon

\* Nothing is held of a query past the filter, and an answer that is given
\* when nothing is held, or by the filter, is in order.
LEMMA AnswerGiven ==
  ASSUME NEW kind \in Kinds, NEW facts, NEW fresh \in BOOLEAN,
         facts = {} \/ kind \in {"local", "mdns", "blocked"},
         answer' = Answer(kind, facts, fresh)
  PROVE  fresh => AnswerInv'
<1>1. ASSUME NEW a \in answer'
      PROVE  a = [kind |-> kind, held |-> facts, fresh |-> fresh]
  BY <1>1, Zenon DEF Answer
<1>2. ASSUME NEW a \in answer'
      PROVE  a.kind = kind /\ a.held = facts /\ a.fresh = fresh
  BY <1>1, <1>2
<1> QED  BY <1>2, Zenon DEF AnswerInv, AnswerOK

\* A step that answers nobody says nothing about an answer.
LEMMA AnswerSilent == Silent => AnswerInv'
  BY Zenon DEF Silent, AnswerInv

\* The cache is as it was.
LEMMA CacheFrame ==
  ASSUME MapInv, FileInv, AgeInv, UNCHANGED <<clock, map, bounds, file>>
  PROVE  MapInv' /\ FileInv' /\ AgeInv'
  BY Zenon DEF MapInv, FileInv, AgeInv, Timely, Due

\* The configuration is as it was.
LEMMA WorldFrame ==
  ASSUME WorldInv, world' = world, clock' = clock, UNCHANGED confVars, bounds' = bounds
  PROVE  WorldInv'
  BY Zenon DEF WorldInv, confVars

-----------------------------------------------------------------------------
(* The steps of a query that leave the cache alone. *)

\* A query that has passed the filter can be answered in any way.
LEMMA FinishPast ==
  ASSUME ResolverInv, NEW q \in Queries, NEW kind \in Kinds,
         pc[q] # "filter" \/ kind = "blocked" \/ held[q] = {},
         FinishAs(q, kind), world' = world, clock' = clock, UNCHANGED <<confVars, cacheVars>>
  PROVE  ResolverInv'
<1>1. Finish(q, Answer(kind, held[q], TRUE)) /\ answer' = Answer(kind, held[q], TRUE)
  BY Zenon DEF FinishAs, Finish
<1>2. TaskInv'
  BY <1>1, FinishTask, Zenon DEF ResolverInv, confVars, cacheVars
<1>3. held[q] = {} \/ kind = "blocked"
  BY Zenon DEF ResolverInv, TaskInv, HeldOK
<1>4. AnswerInv'
  BY <1>1, <1>3, AnswerGiven, Zenon
<1>5. WorldInv' /\ MapInv' /\ FileInv' /\ AgeInv'
  BY CacheFrame, WorldFrame, Zenon DEF ResolverInv, cacheVars
<1> QED  BY <1>2, <1>4, <1>5, Zenon DEF ResolverInv

\* A query that waits for nobody goes on to a label where it does not
\* wait either.
LEMMA MovePast ==
  ASSUME ResolverInv, NEW q \in Queries, NEW label \in Labels \ Waiting,
         pc[q] \notin Waiting, held[q] = {},
         MoveOn(q, label), world' = world, clock' = clock, UNCHANGED <<confVars, cacheVars>>
  PROVE  ResolverInv'
<1>1. TaskInv'
  <2>1. /\ label \in Labels /\ label \notin Answered /\ pc[q] \notin Answered
        /\ label # "dead"
    BY DEF Waiting, Answered
  <2> QED  BY <2>1, MoveTask, Zenon DEF ResolverInv, confVars, cacheVars
<1>2. AnswerInv'
  BY AnswerSilent, Zenon DEF MoveOn
<1>3. WorldInv' /\ MapInv' /\ FileInv' /\ AgeInv'
  BY CacheFrame, WorldFrame, Zenon DEF ResolverInv, cacheVars
<1> QED  BY <1>1, <1>2, <1>3, Zenon DEF ResolverInv

\* A query that is answered at once reports what holds of its key; one that
\* goes on is not for a local name.
LEMMA BeginInv ==
  ASSUME ResolverInv, world' = world, NEW q \in Queries, NEW k \in Keys, Begin(q, k)
  PROVE  ResolverInv'
<1> DEFINE facts == Facts(k, store, filter)
<1>1. pc[q] = "idle" /\ clock' = clock /\ UNCHANGED <<confVars, cacheVars>>
  BY Zenon DEF Begin
<1>2. WorldInv' /\ MapInv' /\ FileInv' /\ AgeInv'
  BY <1>1, CacheFrame, WorldFrame, Zenon DEF ResolverInv, cacheVars
<1>3. ASSUME NEW kind \in {"blocked", "mdns", "local"},
             answer' = Answer(kind, facts, TRUE), UNCHANGED taskVars
      PROVE  ResolverInv'
  <2>1. AnswerInv'
    BY <1>3, AnswerGiven, Zenon DEF Kinds
  <2>2. TaskInv'
    BY <1>1, <1>3, Zenon
    DEF ResolverInv, TaskInv, TaskType, QueryOK, HeldOK, Facts, taskVars, confVars, cacheVars
  <2> QED  BY <1>2, <2>1, <2>2, Zenon DEF ResolverInv
<1>4. ASSUME k \notin store, Goto(q, "filter"), key' = [key EXCEPT ![q] = {k}],
             held' = [held EXCEPT ![q] = facts], Silent,
             UNCHANGED <<asked, handle, mine, reply>>
      PROVE  ResolverInv'
  <2>1. facts \subseteq {"blocked"}
    BY <1>4 DEF Facts
  <2>2. TaskType'
    BY <1>4, <2>1 DEF ResolverInv, TaskInv, TaskType, Goto, Labels
  <2>3. pc'[q] = "filter" /\ key'[q] = {k} /\ held'[q] = facts
    BY <1>4, Zenon DEF ResolverInv, TaskInv, TaskType, Goto
  <2>4. QueryOK(q)'
    BY <1>1, <1>4, <2>3 DEF ResolverInv, TaskInv, QueryOK, Waiting, Answered, cacheVars
  <2>5. HeldOK(q)'
    BY <1>1, <2>1, <2>3, Zenon DEF HeldOK, Facts, confVars
  <2>6. \A v \in Queries \ {q} : pc'[v] = pc[v] /\ key'[v] = key[v] /\ held'[v] = held[v]
    BY <1>4, Zenon DEF ResolverInv, TaskInv, TaskType, Goto
  <2>7. TaskInv'
    BY <1>1, <1>4, <2>2, <2>4, <2>5, <2>6, OwnQuery, Zenon
    DEF ResolverInv, confVars, cacheVars
  <2> QED  BY <1>2, <1>4, <2>7, AnswerSilent, Zenon DEF ResolverInv
<1> QED  BY <1>3, <1>4, Zenon DEF Begin

\* The filter turns away what has been blocked all along.
LEMMA FilterStepInv ==
  ASSUME ResolverInv, world' = world, NEW q \in Queries, FilterStep(q)
  PROVE  ResolverInv'
<1>1. pc[q] = "filter" /\ clock' = clock /\ UNCHANGED <<confVars, cacheVars>>
  BY Zenon DEF FilterStep
<1>2. PICK k \in key[q] :
        CASE Decide(filter, k) = "ip" -> FinishAs(q, "rewritten")
          [] Decide(filter, k) = "name" ->
               \/ FinishAs(q, "rewritten")
               \/ upstream # {} /\ MoveOn(q, "rewrite")
          [] Decide(filter, k) = "block" -> FinishAs(q, "blocked")
          [] Decide(filter, k) = "allow" -> MoveOn(q, "cond")
          [] Decide(filter, k) = "pass" ->
               IF k \in world.suspicious THEN FinishAs(q, "dangerous") ELSE MoveOn(q, "cond")
  BY Zenon DEF FilterStep
<1>3. Decide(filter, k) # "block" => held[q] = {}
  BY DEF ResolverInv, TaskInv, HeldOK, Facts
<1>4. \/ FinishAs(q, "blocked")
      \/ /\ Decide(filter, k) # "block"
         /\ \/ FinishAs(q, "rewritten") \/ FinishAs(q, "dangerous")
            \/ MoveOn(q, "rewrite") \/ MoveOn(q, "cond")
  <2>1. Decide(filter, k) \in {"ip", "name", "allow", "block", "pass"}
    BY DEF Decide
  <2> QED  BY <1>2, <2>1, Zenon
<1>5. \A kind \in {"blocked", "rewritten", "dangerous"} : kind \in Kinds
  BY DEF Kinds
<1>6. \A label \in {"rewrite", "cond"} : label \in Labels \ Waiting
  BY DEF Labels, Waiting
<1>7. pc[q] \notin Waiting
  BY <1>1 DEF Waiting
<1> QED  BY <1>1, <1>3, <1>4, <1>5, <1>6, <1>7, FinishPast, MovePast

\* A rewrite, a conditional forwarder, the lack of an upstream and a failing
\* one answer the query; otherwise it goes on.
LEMMA PassingInv ==
  ASSUME ResolverInv, world' = world, NEW q \in Queries,
         \/ RewriteReply(q) \/ CondStep(q) \/ UpstreamStep(q) \/ ServFail(q)
         \/ \E kind \in {"conditional", "servfail"} : CondReply(q, kind)
  PROVE  ResolverInv'
<1>1. pc[q] \in {"rewrite", "cond", "upstream", "wait", "condWait"}
  BY Zenon DEF RewriteReply, CondStep, UpstreamStep, ServFail, CondReply
<1>2. clock' = clock /\ UNCHANGED <<confVars, cacheVars>>
  BY Zenon DEF RewriteReply, CondStep, UpstreamStep, ServFail, CondReply
<1>3. pc[q] # "filter"
  BY <1>1
<1>4. held[q] = {}
  BY <1>3, Zenon DEF ResolverInv, TaskInv, HeldOK
<1>5. \/ \E kind \in {"rewritten", "conditional", "servfail", "refused"} : FinishAs(q, kind)
      \/ /\ pc[q] \in {"cond", "upstream"}
         /\ \E label \in {"condWait", "upstream", "cache"} : MoveOn(q, label)
  BY Zenon DEF RewriteReply, CondStep, UpstreamStep, ServFail, CondReply
<1>6. \A kind \in {"rewritten", "conditional", "servfail", "refused"} : kind \in Kinds
  BY DEF Kinds
<1>7. \A label \in {"condWait", "upstream", "cache"} : label \in Labels \ Waiting
  BY DEF Labels, Waiting
<1>8. pc[q] \in {"cond", "upstream"} => pc[q] \notin Waiting
  BY DEF Waiting
<1> QED  BY <1>2, <1>3, <1>4, <1>5, <1>6, <1>7, <1>8, FinishPast, MovePast

\* An answer is stamped with the time it arrives at.
LEMMA UpstreamReplyInv ==
  ASSUME ResolverInv, world' = world, NEW q \in Queries, NEW ttl \in world.ttls,
         UpstreamReply(q, ttl)
  PROVE  ResolverInv'
<1>1. /\ pc[q] = "wait" /\ Goto(q, "put") /\ Silent
      /\ reply' = [reply EXCEPT ![q] = {[ttl |-> ttl, at |-> clock]}]
      /\ key' = key /\ asked' = asked /\ handle' = handle /\ mine' = mine /\ held' = held
      /\ clock' = clock /\ UNCHANGED <<confVars, cacheVars>>
  BY Zenon DEF UpstreamReply
<1>2. WorldInv' /\ MapInv' /\ FileInv' /\ AgeInv'
  BY <1>1, CacheFrame, WorldFrame, Zenon DEF ResolverInv, cacheVars
<1>3. TaskType'
  BY <1>1 DEF ResolverInv, WorldInv, TaskInv, TaskType, Goto, Labels
<1>4. pc'[q] = "put" /\ reply'[q] = {[ttl |-> ttl, at |-> clock]}
  BY <1>1, Zenon DEF ResolverInv, TaskInv, TaskType, Goto
<1>5. QueryOK(q)'
  <2>1. \A r \in reply'[q] : r.at = clock
    BY <1>4
  <2>2. QueryOK(q) /\ bounds' = bounds /\ clock \in Nat
    BY <1>1, Zenon DEF ResolverInv, WorldInv, TaskInv, cacheVars
  <2>3. "put" \in Waiting /\ "put" \in Answered /\ "wait" \in Waiting /\ reply'[q] # {}
    BY <1>4 DEF Waiting, Answered
  <2>4. handle[q] # {} /\ asked[q] <= clock /\ clock <= clock /\ (mine[q] => handle[q] = {bounds})
    BY <1>1, <2>2, <2>3 DEF QueryOK
  <2> QED  BY <1>1, <1>4, <2>1, <2>2, <2>3, <2>4, Zenon DEF QueryOK
<1>6. HeldOK(q)'
  <2>1. held[q] = {}
    BY <1>1 DEF ResolverInv, TaskInv, HeldOK
  <2>2. held'[q] = {}
    BY <1>1, <2>1
  <2> QED  BY <2>2, Zenon DEF HeldOK
<1>7. \A v \in Queries \ {q} : pc'[v] = pc[v] /\ reply'[v] = reply[v]
  BY <1>1, Zenon DEF ResolverInv, TaskInv, TaskType, Goto
<1>8. TaskInv'
  BY <1>1, <1>3, <1>5, <1>6, <1>7, OwnQuery, Zenon DEF ResolverInv, confVars, cacheVars
<1> QED  BY <1>1, <1>2, <1>8, AnswerSilent, Zenon DEF ResolverInv

-----------------------------------------------------------------------------
(* The cache. *)

\* Fewer entries are no worse.
LEMMA MapShrinks ==
  ASSUME WorldInv, MapInv, AgeInv, map' \subseteq map, bounds' = bounds
  PROVE  MapInv' /\ AgeInv'
<1>1. IsFiniteSet(map') /\ Cardinality(map') <= Cardinality(map)
  BY FS_Subset, Zenon DEF MapInv
<1>2. Cardinality(map') \in Nat /\ Cardinality(map) \in Nat /\ bounds.cap \in Nat
  BY <1>1, FS_CardinalityType, WorldTypes DEF MapInv, Bounds
<1>3. Cardinality(map') <= bounds'.cap
  BY <1>1, <1>2 DEF MapInv
<1>4. MapInv'
  BY <1>1, <1>3, Zenon DEF MapInv
<1>5. AgeInv'
  BY Zenon DEF AgeInv, Timely
<1> QED  BY <1>4, <1>5

\* get returns an entry that has not expired, so one that is younger than the
\* TTL it was stored with and the time it spent in files.
LEMMA CacheStepInv ==
  ASSUME ResolverInv, world' = world, NEW q \in Queries, CacheStep(q)
  PROVE  ResolverInv'
<1>1. PICK k \in key[q] :
        /\ map' = AfterGet(map, k, clock)
        /\ \/ \E e \in Hit(map, k, clock) :
                Finish(q, Answer("cached", held[q], clock - e.fetched < e.lived + e.shelved))
           \/ /\ Hit(map, k, clock) = {}
              /\ Goto(q, "wait")
              /\ asked' = [asked EXCEPT ![q] = clock]
              /\ handle' = [handle EXCEPT ![q] = {bounds}]
              /\ mine' = [mine EXCEPT ![q] = TRUE]
              /\ Silent
              /\ UNCHANGED <<key, reply, held>>
  BY Zenon DEF CacheStep
<1>2. pc[q] = "cache" /\ clock' = clock /\ UNCHANGED <<confVars, bounds, file>>
  BY Zenon DEF CacheStep
<1>3. WorldInv' /\ FileInv'
  BY <1>2, WorldFrame, Zenon DEF ResolverInv, FileInv
<1>4. MapInv' /\ AgeInv'
  BY <1>1, <1>2, MapShrinks, Zenon DEF ResolverInv, AfterGet
<1>5. held[q] = {}
  BY <1>2 DEF ResolverInv, TaskInv, HeldOK
<1>6. ASSUME NEW e \in Hit(map, k, clock),
             Finish(q, Answer("cached", held[q], clock - e.fetched < e.lived + e.shelved))
      PROVE  ResolverInv'
  <2>1. e \in Entry /\ e.expires > clock /\ clock \in Nat
    BY <1>6, Zenon DEF Hit, Live, ResolverInv, MapInv, WorldInv
  <2>2. clock - e.fetched < e.lived + e.shelved
    <3>1. Due(e)
      BY <1>6, Zenon DEF Hit, Live, ResolverInv, AgeInv, Timely
    <3> QED  BY <2>1, <3>1 DEF Due, Entry
  <2>3. AnswerInv'
    <3>1. answer' = Answer("cached", {}, clock - e.fetched < e.lived + e.shelved)
      BY <1>5, <1>6, Zenon DEF Finish
    <3>2. "cached" \in Kinds /\ (clock - e.fetched < e.lived + e.shelved) \in BOOLEAN
      BY DEF Kinds
    <3> QED  BY <2>2, <3>1, <3>2, AnswerGiven, Zenon
  <2>4. TaskInv'
    BY <1>2, <1>6, FinishTask, Zenon DEF ResolverInv, confVars
  <2> QED  BY <1>3, <1>4, <2>3, <2>4, Zenon DEF ResolverInv
<1>7. ASSUME Goto(q, "wait"), asked' = [asked EXCEPT ![q] = clock],
             handle' = [handle EXCEPT ![q] = {bounds}],
             mine' = [mine EXCEPT ![q] = TRUE], Silent, UNCHANGED <<key, reply, held>>
      PROVE  ResolverInv'
  <2>1. TaskType'
    BY <1>7 DEF ResolverInv, WorldInv, TaskInv, TaskType, Goto, Labels
  <2>2. pc'[q] = "wait" /\ asked'[q] = clock /\ handle'[q] = {bounds} /\ mine'[q] = TRUE
    BY <1>7, Zenon DEF ResolverInv, TaskInv, TaskType, Goto
  <2>3. QueryOK(q) /\ HeldOK(q) /\ clock \in Nat
    BY Zenon DEF ResolverInv, WorldInv, TaskInv
  <2>4. QueryOK(q)'
    BY <1>2, <1>7, <2>2, <2>3 DEF QueryOK, Waiting, Answered
  <2>5. HeldOK(q)'
    BY <1>2, <1>5, <1>7, <2>2 DEF HeldOK
  <2>6. \A v \in Queries \ {q} :
          /\ pc'[v] = pc[v] /\ asked'[v] = asked[v]
          /\ handle'[v] = handle[v] /\ mine'[v] = mine[v]
    BY <1>7, Zenon DEF ResolverInv, TaskInv, TaskType, Goto
  <2>7. TaskInv'
    BY <1>2, <1>7, <2>1, <2>4, <2>5, <2>6, OwnQuery, Zenon DEF ResolverInv, confVars
  <2> QED  BY <1>3, <1>4, <1>7, <2>7, AnswerSilent, Zenon DEF ResolverInv
<1> QED  BY <1>1, <1>6, <1>7, Zenon

\* The TTL an answer is stored with is a number of seconds.
LEMMA ClampType ==
  ASSUME NEW b \in Bounds, NEW ttl \in SUBSET Nat
  PROVE  Clamp(b, ttl) \in Nat
<1>1. b.min \in Nat /\ b.max \in Nat /\ Larger(b.min, 1) \in Nat
  BY DEF Bounds, Larger
<1>2. ttl # {} => (CHOOSE x \in ttl : TRUE) \in Nat
  BY Zenon
<1>3. (IF ttl = {} THEN NegativeTtl ELSE CHOOSE x \in ttl : TRUE) \in Nat
  BY <1>2, ResolverAssumption, Zenon
<1> QED  BY <1>1, <1>3, Zenon DEF Clamp

\* put keeps to the cap and to one entry for a key, and counts the TTL from
\* the lookup, which was before the answer.
LEMMA PutFacts ==
  ASSUME WorldInv, MapInv, NEW k \in Keys, NEW ttl \in SUBSET Nat,
         NEW now \in Nat, NEW at \in Nat, now <= at,
         map' = Put(map, bounds, k, ttl, now, at), bounds' = bounds
  PROVE  MapInv' /\ (Timely(map) => Timely(map'))
<1> DEFINE kept == IF Cardinality(map) >= bounds.cap THEN Live(map, now) ELSE map
           life == Clamp(bounds, ttl)
           new == [key |-> k, fetched |-> at, expires |-> now + life, lived |-> life,
                   shelved |-> 0]
           others == {e \in kept : e.key # k}
<1>1. bounds \in Bounds /\ bounds.cap \in Nat /\ life \in Nat
  BY WorldTypes, ClampType DEF Bounds
<1>2. kept \subseteq map /\ others \subseteq kept /\ others \subseteq map
  BY Zenon DEF Live
<1>3. /\ IsFiniteSet(kept) /\ IsFiniteSet(others)
      /\ Cardinality(kept) <= Cardinality(map) /\ Cardinality(others) <= Cardinality(kept)
  BY <1>2, FS_Subset, Zenon DEF MapInv
<1>4. Cardinality(map) \in Nat /\ Cardinality(kept) \in Nat /\ Cardinality(others) \in Nat
  BY <1>3, FS_CardinalityType, Zenon DEF MapInv
<1>5. new \in Entry /\ new.key = k /\ Due(new)
  <2>1. now + life \in Nat /\ now + life <= at + life + 0
    BY <1>1
  <2> QED  BY <1>1, <2>1 DEF Entry, Due
<1>6. CASE Cardinality(kept) >= bounds.cap /\ map' = kept
  <2>1. Cardinality(map') <= bounds'.cap
    BY <1>1, <1>3, <1>4, <1>6 DEF MapInv
  <2>2. MapInv'
    BY <1>2, <1>3, <1>6, <2>1, Zenon DEF MapInv
  <2> QED  BY <1>2, <1>6, <2>2, Zenon DEF Timely
<1>7. CASE ~(Cardinality(kept) >= bounds.cap) /\ map' = others \cup {new}
  <2>1. /\ IsFiniteSet(others \cup {new})
        /\ Cardinality(others \cup {new}) <= Cardinality(others) + 1
    <3>1. /\ IsFiniteSet(others \cup {new})
          /\ \/ Cardinality(others \cup {new}) = Cardinality(others)
             \/ Cardinality(others \cup {new}) = Cardinality(others) + 1
      BY <1>3, FS_AddElement, Zenon
    <3> QED  BY <1>4, <3>1
  <2>2. IsFiniteSet(map') /\ Cardinality(map') <= bounds'.cap
    <3>1. Cardinality(others \cup {new}) \in Nat
      BY <2>1, FS_CardinalityType, Zenon
    <3> HIDE DEF new, others, kept
    <3> QED  BY <1>1, <1>3, <1>4, <1>7, <2>1, <3>1
  <2>3. map' \subseteq Entry /\ \A e, d \in map' : e.key = d.key => e = d
    <3>1. \A e \in others : e \in Entry /\ e.key # k
      BY <1>2, Zenon DEF MapInv
    <3>2. \A e, d \in others : e.key = d.key => e = d
      BY <1>2, Zenon DEF MapInv
    <3> HIDE DEF new, others, kept
    <3> QED  BY <1>5, <1>7, <3>1, <3>2, Zenon
  <2>4. Timely(map) => Timely(map')
    <3> HIDE DEF new, others, kept
    <3> QED  BY <1>2, <1>5, <1>7, Zenon DEF Timely
  <2> QED  BY <2>2, <2>3, <2>4, Zenon DEF MapInv
<1> QED  BY <1>6, <1>7, Zenon DEF Put

\* A put into the cache the query looked up, if that is still the live one.
LEMMA PutStepInv ==
  ASSUME ResolverInv, world' = world, NEW q \in Queries, PutStep(q)
  PROVE  ResolverInv'
<1>1. PICK b \in handle[q], r \in reply[q], k \in key[q] :
        IF Panics(b)
        THEN MoveOn(q, "dead") /\ UNCHANGED map
        ELSE /\ FinishAs(q, "forwarded")
             /\ map' = IF mine[q] THEN Put(map, b, k, r.ttl, asked[q], r.at) ELSE map
  BY Zenon DEF PutStep
<1>2. pc[q] = "put" /\ clock' = clock /\ UNCHANGED <<confVars, bounds, file>>
  BY Zenon DEF PutStep
<1>3. WorldInv' /\ FileInv'
  BY <1>2, WorldFrame, Zenon DEF ResolverInv, FileInv
<1>4. held[q] = {}
  BY <1>2 DEF ResolverInv, TaskInv, HeldOK
<1>5. CASE Panics(b) /\ MoveOn(q, "dead") /\ map' = map
  <2>1. /\ "dead" \in Labels
        /\ "dead" \in Waiting <=> pc[q] \in Waiting
        /\ "dead" \in Answered <=> pc[q] \in Answered
    BY <1>2 DEF Labels, Waiting, Answered
  <2>2. TaskInv'
    BY <1>2, <1>4, <1>5, <2>1, MoveTask, Zenon DEF ResolverInv, confVars
  <2>3. MapInv' /\ AgeInv'
    BY <1>2, <1>5, Zenon DEF ResolverInv, MapInv, AgeInv, Timely
  <2> QED  BY <1>3, <1>5, <2>2, <2>3, AnswerSilent, Zenon DEF ResolverInv, MoveOn
<1>6. ASSUME FinishAs(q, "forwarded"),
             map' = IF mine[q] THEN Put(map, b, k, r.ttl, asked[q], r.at) ELSE map
      PROVE  ResolverInv'
  <2>1. TaskInv'
    BY <1>2, <1>6, FinishTask, Zenon DEF ResolverInv, FinishAs, confVars
  <2>2. AnswerInv'
    <3>1. answer' = Answer("forwarded", {}, TRUE) /\ "forwarded" \in Kinds
      BY <1>4, <1>6, Zenon DEF FinishAs, Finish, Kinds
    <3> QED  BY <3>1, AnswerGiven, Zenon
  <2>3. MapInv' /\ (Timely(map) => Timely(map'))
    <3>1. CASE ~mine[q]
      BY <1>2, <1>6, <3>1, Zenon DEF ResolverInv, MapInv
    <3>2. CASE mine[q]
      <4>1. b = bounds /\ asked[q] <= r.at
        <5>1. QueryOK(q)
          BY Zenon DEF ResolverInv, TaskInv
        <5> QED  BY <3>2, <5>1 DEF QueryOK
      <4>2. k \in Keys /\ asked[q] \in Nat /\ r \in [ttl : world.ttls, at : Nat]
        BY Zenon DEF ResolverInv, TaskInv, TaskType
      <4>3. r.ttl \in SUBSET Nat /\ r.at \in Nat
        BY <4>2, WorldTypes DEF ResolverInv
      <4>4. map' = Put(map, bounds, k, r.ttl, asked[q], r.at)
        BY <1>6, <3>2, <4>1
      <4> QED  BY <1>2, <4>1, <4>2, <4>3, <4>4, PutFacts, Zenon DEF ResolverInv
    <3> QED  BY <3>1, <3>2
  <2>4. AgeInv'
    BY <1>2, <2>3, Zenon DEF ResolverInv, AgeInv
  <2> QED  BY <1>3, <2>1, <2>2, <2>3, <2>4, Zenon DEF ResolverInv
<1> QED  BY <1>1, <1>5, <1>6, Zenon

-----------------------------------------------------------------------------
(* Time and the administrator. *)

\* Time passes and nothing else changes.
LEMMA TickInv ==
  ASSUME ResolverInv, world' = world, Tick
  PROVE  ResolverInv'
<1>1. /\ clock' = clock + 1 /\ Silent /\ UNCHANGED <<confVars, cacheVars, taskVars>>
  BY Zenon DEF Tick
<1>2. clock \in Nat /\ clock' \in Nat
  BY <1>1 DEF ResolverInv, WorldInv
<1>3. WorldInv' /\ MapInv' /\ AgeInv'
  BY <1>1, <1>2, Zenon DEF ResolverInv, WorldInv, MapInv, AgeInv, Timely, Due,
                           confVars, cacheVars
<1>6. FileInv'
  <2>1. \A p \in file : p.at \in Nat /\ p.at <= clock
    BY Zenon DEF ResolverInv, FileInv, Line
  <2>2. \A p \in file : p.at <= clock + 1
    BY <1>2, <2>1
  <2> QED  BY <1>1, <2>2, Zenon DEF ResolverInv, FileInv, cacheVars
<1>4. TaskType' /\ \A q \in Queries : HeldOK(q)'
  BY <1>1, Zenon DEF ResolverInv, TaskInv, TaskType, HeldOK, Facts, confVars, taskVars
<1>5. ASSUME NEW q \in Queries
      PROVE  QueryOK(q)'
  <2>1. /\ asked[q] \in Nat /\ \A r \in reply[q] : r.at \in Nat
        /\ QueryOK(q)
    BY DEF ResolverInv, TaskInv, TaskType
  <2>2. asked[q] <= clock + 1 /\ \A r \in reply[q] : r.at <= clock + 1
    BY <1>2, <2>1 DEF QueryOK
  <2> QED  BY <1>1, <2>1, <2>2, Zenon DEF QueryOK, cacheVars, taskVars
<1> QED  BY <1>1, <1>3, <1>4, <1>5, <1>6, AnswerSilent, Zenon DEF ResolverInv, TaskInv

\* A new store or filter takes away what no longer holds of the keys asked
\* for.
LEMMA SwapInv ==
  ASSUME ResolverInv, world' = world, store' \in world.stores, filter' \in world.filters,
         Silent, Keep(store', filter'),
         UNCHANGED <<clock, cond, upstream, cacheVars, pc, key, asked, handle, mine, reply>>
  PROVE  ResolverInv'
<1>1. WorldInv' /\ MapInv' /\ FileInv' /\ AgeInv'
  BY CacheFrame, Zenon DEF ResolverInv, WorldInv, cacheVars
<1>2. ASSUME NEW q \in Queries
      PROVE  /\ held'[q] \subseteq held[q]
             /\ \A k \in key[q] : held'[q] \subseteq Facts(k, store', filter')
  BY <1>2, Zenon DEF Keep
<1>3. held' \in [Queries -> SUBSET {"local", "blocked"}]
  <2>1. \A q \in Queries : held[q] \in SUBSET {"local", "blocked"}
    BY Zenon DEF ResolverInv, TaskInv, TaskType
  <2>2. held' = [q \in Queries |-> held'[q]]
    BY Zenon DEF Keep
  <2> QED  BY <1>2, <2>1, <2>2, Zenon
<1>4. TaskType'
  BY <1>3, Zenon DEF ResolverInv, TaskInv, TaskType
<1>5. ASSUME NEW q \in Queries
      PROVE  QueryOK(q)' /\ HeldOK(q)'
  <2>1. QueryOK(q)'
    BY Zenon DEF ResolverInv, TaskInv, QueryOK, cacheVars
  <2>2. HeldOK(q)
    BY Zenon DEF ResolverInv, TaskInv
  <2>3. held'[q] \subseteq {"blocked"} /\ (held'[q] # {} => pc'[q] = "filter")
    BY <1>2, <2>2, Zenon DEF HeldOK
  <2>4. \A k \in key'[q] : held'[q] \subseteq Facts(k, store, filter)'
    BY <1>2, Zenon DEF Facts
  <2> QED  BY <2>1, <2>3, <2>4, Zenon DEF HeldOK
<1> QED  BY <1>1, <1>4, <1>5, AnswerSilent, Zenon DEF ResolverInv, TaskInv

\* A new cache is empty, and the queries that wait hold another.
LEMMA NewCacheInv ==
  ASSUME ResolverInv, world' = world, NEW b \in world.bounds, NewCache(b)
  PROVE  ResolverInv'
<1>1. /\ bounds' = b /\ map' = {} /\ mine' = [q \in Queries |-> FALSE] /\ Silent
      /\ UNCHANGED <<clock, confVars, file, pc, key, asked, handle, reply, held>>
  BY Zenon DEF NewCache
<1>2. WorldInv'
  BY <1>1, Zenon DEF ResolverInv, WorldInv, confVars
<1>3. MapInv'
  <2>1. b.cap \in Nat
    BY WorldTypes DEF ResolverInv, Bounds
  <2>2. IsFiniteSet({}) /\ Cardinality({}) = 0
    BY FS_EmptySet
  <2>3. Cardinality({}) <= b.cap
    BY <2>1, <2>2
  <2> QED  BY <1>1, <2>2, <2>3, Zenon DEF MapInv
<1>4. FileInv' /\ AgeInv'
  BY <1>1, Zenon DEF ResolverInv, FileInv, AgeInv, Timely
<1>5. TaskInv'
  BY <1>1, Zenon DEF ResolverInv, TaskInv, TaskType, QueryOK, HeldOK, Facts, confVars
<1> QED  BY <1>1, <1>2, <1>3, <1>4, <1>5, AnswerSilent, Zenon DEF ResolverInv

\* The forwarders, the upstream and clear_stats concern no query under way.
LEMMA OtherSwapInv ==
  ASSUME ResolverInv, world' = world,
         \/ \E c \in world.conds : SwapConditional(c)
         \/ \E u \in world.upstreams : SwapUpstream(u)
         \/ Clear
  PROVE  ResolverInv'
<1>1. /\ clock' = clock /\ store' = store /\ filter' = filter /\ bounds' = bounds
      /\ file' = file /\ map' \subseteq map
      /\ UNCHANGED taskVars /\ Silent
  BY Zenon DEF SwapConditional, SwapUpstream, Clear, cacheVars, confVars
<1>2. WorldInv'
  BY Zenon DEF ResolverInv, WorldInv, SwapConditional, SwapUpstream, Clear, cacheVars, confVars
<1>3. MapInv' /\ AgeInv'
  BY <1>1, MapShrinks, Zenon DEF ResolverInv
<1>4. FileInv'
  BY <1>1, Zenon DEF ResolverInv, FileInv
<1>5. TaskInv'
  BY <1>1, Zenon DEF ResolverInv, TaskInv, TaskType, QueryOK, HeldOK, Facts, taskVars
<1> QED  BY <1>1, <1>2, <1>3, <1>4, <1>5, AnswerSilent, Zenon DEF ResolverInv

-----------------------------------------------------------------------------
(* The life of the process. *)

\* The file lists each entry of the map that is still alive once, with the
\* time it has left.
LEMMA SavedFacts ==
  ASSUME WorldInv, MapInv, AgeInv
  PROVE  /\ Saved(map, clock) \subseteq Line
         /\ IsFiniteSet(Saved(map, clock))
         /\ \A p, r \in Saved(map, clock) : p.entry.key = r.entry.key => p = r
         /\ \A p \in Saved(map, clock) :
              p.at = clock /\ p.at + p.ttl = p.entry.expires /\ Due(p.entry)
<1> DEFINE line(e) == [entry |-> e, ttl |-> e.expires - clock, at |-> clock]
           alive == Live(map, clock)
           f == [e \in alive |-> line(e)]
<1>1. alive \subseteq map /\ Saved(map, clock) = {line(e) : e \in alive}
  BY Zenon DEF Saved, Live
<1>2. IsFiniteSet(alive)
  BY <1>1, FS_Subset, Zenon DEF MapInv
<1>3. f \in Surjection(alive, Saved(map, clock))
  BY <1>1 DEF Surjection
<1>4. IsFiniteSet(Saved(map, clock))
  BY <1>2, <1>3, FS_Surjection
<1>5. \A e \in alive : e \in Entry /\ e.expires > clock /\ clock \in Nat /\ e.expires \in Nat
  BY DEF Live, MapInv, WorldInv, Entry
<1>6. ASSUME NEW p \in Saved(map, clock)
      PROVE  /\ p \in Line /\ p.entry \in map /\ p = line(p.entry)
             /\ p.at = clock /\ p.at + p.ttl = p.entry.expires
  <2>1. PICK e \in alive : p = line(e)
    BY <1>1, Zenon
  <2>2. e.expires - clock \in Nat /\ clock + (e.expires - clock) = e.expires
    BY <1>5
  <2> QED  BY <1>1, <1>5, <2>1, <2>2 DEF Line
<1>7. ASSUME NEW p \in Saved(map, clock), NEW r \in Saved(map, clock),
             p.entry.key = r.entry.key
      PROVE  p = r
  <2>1. p.entry = r.entry
    BY <1>6, <1>7, Zenon DEF MapInv
  <2> QED  BY <1>6, <2>1, Zenon
<1>8. \A p \in Saved(map, clock) : Due(p.entry)
  BY <1>6, Zenon DEF AgeInv, Timely
<1> QED  BY <1>4, <1>6, <1>7, <1>8, Zenon

\* What is loaded fits the cache, with one entry for a key, and each lives on
\* by the time the file lay there.
LEMMA RestoredFacts ==
  ASSUME NEW f, f \subseteq Line, IsFiniteSet(f),
         \A p, r \in f : p.entry.key = r.entry.key => p = r,
         NEW b \in Bounds, NEW now \in Nat, NEW m \in Restored(f, b, now),
         \A p \in f : p.at <= now /\ p.at + p.ttl = p.entry.expires /\ Due(p.entry)
  PROVE  /\ m \subseteq Entry
         /\ IsFiniteSet(m) /\ Cardinality(m) <= b.cap
         /\ \A e, d \in m : e.key = d.key => e = d
         /\ Timely(m)
<1> DEFINE again(p) == [key |-> p.entry.key, fetched |-> p.entry.fetched,
                        expires |-> now + p.ttl, lived |-> p.entry.lived,
                        shelved |-> p.entry.shelved + (now - p.at)]
<1>1. PICK S \in SUBSET f : Cardinality(S) <= b.cap /\ m = {again(p) : p \in S}
  BY Zenon DEF Restored
<1> DEFINE g == [p \in S |-> again(p)]
<1>2. IsFiniteSet(S)
  BY FS_Subset, Zenon
<1>3. g \in Surjection(S, m)
  <2>1. \A p \in S : g[p] = again(p) /\ again(p) \in m
    BY <1>1, Zenon
  <2>2. \A e \in m : \E p \in S : e = again(p)
    BY <1>1, Zenon
  <2> HIDE DEF again
  <2> QED  BY <2>1, <2>2, Zenon DEF Surjection
<1>4. IsFiniteSet(m) /\ Cardinality(m) <= Cardinality(S)
  BY <1>2, <1>3, FS_Surjection
<1>5. Cardinality(m) \in Nat /\ Cardinality(S) \in Nat /\ b.cap \in Nat
  BY <1>2, <1>4, FS_CardinalityType DEF Bounds
<1>6. Cardinality(m) <= b.cap
  BY <1>1, <1>4, <1>5
<1>7. ASSUME NEW p \in S
      PROVE  again(p) \in Entry /\ again(p).key = p.entry.key /\ Due(again(p))
  <2>1. p.entry \in Entry /\ p.ttl \in Nat /\ p.at \in Nat
    BY Zenon DEF Line
  <2>2. /\ p.entry.key \in Keys /\ p.entry.fetched \in Nat /\ p.entry.expires \in Nat
        /\ p.entry.lived \in Nat /\ p.entry.shelved \in Nat
    BY <2>1 DEF Entry
  <2>3. p.at <= now /\ p.at + p.ttl <= p.entry.fetched + p.entry.lived + p.entry.shelved
    BY <1>1, Zenon DEF Due
  <2>4. /\ now + p.ttl \in Nat /\ p.entry.shelved + (now - p.at) \in Nat
        /\ now + p.ttl <= p.entry.fetched + p.entry.lived + (p.entry.shelved + (now - p.at))
    BY <2>1, <2>2, <2>3
  <2> QED  BY <2>2, <2>4 DEF Entry, Due
<1> HIDE DEF again
<1>8. m \subseteq Entry /\ Timely(m)
  BY <1>1, <1>7, Zenon DEF Timely
<1>9. ASSUME NEW e \in m, NEW d \in m, e.key = d.key
      PROVE  e = d
  <2>1. PICK p \in S, r \in S : e = again(p) /\ d = again(r)
    BY <1>1, Zenon
  <2>2. p.entry.key = r.entry.key
    BY <1>7, <1>9, <2>1, Zenon
  <2>3. p = r
    BY <2>2, Zenon
  <2> QED  BY <2>1, <2>3, Zenon
<1> QED  BY <1>4, <1>6, <1>8, <1>9, Zenon

\* The process starts without queries, at any later time, with what it finds
\* in a file that is in order.
LEMMA StartInv ==
  ASSUME WorldInv, world' = world, NEW t \in Nat, clock <= t, Start(file', t),
         file' \subseteq Line, IsFiniteSet(file'),
         \A p, r \in file' : p.entry.key = r.entry.key => p = r,
         \A p \in file' : p.at <= clock /\ p.at + p.ttl = p.entry.expires /\ Due(p.entry)
  PROVE  ResolverInv'
<1>1. clock' = t /\ map' \in Restored(file', bounds, t) /\ bounds' = bounds /\ UNCHANGED confVars
  BY Zenon DEF Start
<1>2. WorldInv'
  BY <1>1, Zenon DEF WorldInv, confVars
<1>3. TaskType'
  BY DEF Start, TaskType, Labels
<1>4. ASSUME NEW q \in Queries
      PROVE  QueryOK(q)' /\ HeldOK(q)'
  <2>1. /\ pc'[q] = "idle" /\ key'[q] = {} /\ asked'[q] = 0 /\ handle'[q] = {}
        /\ mine'[q] = FALSE /\ reply'[q] = {} /\ held'[q] = {} /\ clock' \in Nat
    BY <1>2, Zenon DEF Start, WorldInv
  <2>2. QueryOK(q)'
    BY <2>1 DEF QueryOK, Waiting, Answered
  <2> QED  BY <2>1, <2>2, Zenon DEF HeldOK
<1>5. \A p \in file' : p.at <= t
  <2>1. clock \in Nat /\ \A p \in file' : p.at \in Nat
    BY Zenon DEF WorldInv, Line
  <2> QED  BY <2>1
<1>6. FileInv'
  BY <1>1, <1>5, Zenon DEF FileInv
<1>7. bounds \in Bounds
  BY WorldTypes
<1>8. MapInv' /\ AgeInv'
  BY <1>1, <1>5, <1>7, RestoredFacts, Zenon DEF MapInv, AgeInv
<1> QED  BY <1>2, <1>3, <1>4, <1>6, <1>8, AnswerSilent, Zenon DEF ResolverInv, TaskInv, Start

\* What a shutdown saves is what the next start finds, however long the
\* server is down.
LEMMA ShutdownInv ==
  ASSUME ResolverInv, world' = world, NEW t \in Nat, clock <= t, Shutdown(t)
  PROVE  ResolverInv'
<1>1. file' = Saved(map, clock) /\ Start(file', t)
  BY Zenon DEF Shutdown
<1>2. WorldInv /\ MapInv /\ AgeInv /\ clock \in Nat
  BY Zenon DEF ResolverInv, WorldInv
<1>3. /\ file' \subseteq Line /\ IsFiniteSet(file')
      /\ \A p, r \in file' : p.entry.key = r.entry.key => p = r
      /\ \A p \in file' : p.at = clock /\ p.at + p.ttl = p.entry.expires /\ Due(p.entry)
  BY <1>1, <1>2, SavedFacts, Zenon
<1>4. \A p \in file' : p.at <= clock
  BY <1>2, <1>3
<1> QED  BY <1>1, <1>2, <1>3, <1>4, StartInv, Zenon

\* A crash brings back the file of an earlier shutdown.
LEMMA CrashInv ==
  ASSUME ResolverInv, world' = world, NEW t \in Nat, clock <= t, Crash(t)
  PROVE  ResolverInv'
<1>1. file' = file /\ Start(file', t)
  BY Zenon DEF Crash
<1> QED  BY <1>1, StartInv, Zenon DEF ResolverInv, FileInv

-----------------------------------------------------------------------------
(* The theorems. *)

\* The server starts with no query under way.
LEMMA ResolverInit == Init => ResolverInv
<1> SUFFICES ASSUME Init PROVE ResolverInv
  OBVIOUS
<1>1. WorldInv
  BY DEF Init, WorldInv
<1>2. TaskType
  BY DEF Init, TaskType, Labels
<1>3. ASSUME NEW q \in Queries
      PROVE  QueryOK(q) /\ HeldOK(q)
  BY DEF Init, QueryOK, HeldOK, Waiting, Answered
<1>4. MapInv
  <2>1. bounds.cap \in Nat
    BY <1>1, WorldTypes DEF Bounds
  <2>2. IsFiniteSet({}) /\ Cardinality({}) = 0
    BY FS_EmptySet
  <2>3. Cardinality({}) <= bounds.cap
    BY <2>1, <2>2
  <2> QED  BY <2>2, <2>3, Zenon DEF Init, MapInv
<1>5. FileInv /\ AgeInv /\ AnswerInv
  BY FS_EmptySet, Zenon DEF Init, FileInv, AgeInv, Timely, AnswerInv
<1> QED  BY <1>1, <1>2, <1>3, <1>4, <1>5, Zenon DEF ResolverInv, TaskInv

\* Every step of Resolver keeps the invariant.
LEMMA ResolverStep == ResolverInv /\ [Next]_vars => ResolverInv'
<1> SUFFICES ASSUME ResolverInv, [Next]_vars PROVE ResolverInv'
  OBVIOUS
<1>1. CASE UNCHANGED vars
  <2>1. WorldInv' /\ MapInv' /\ FileInv' /\ AgeInv'
    BY <1>1, CacheFrame, WorldFrame, Zenon DEF ResolverInv, vars, cacheVars
  <2>2. TaskInv'
    BY <1>1, Zenon DEF ResolverInv, TaskInv, TaskType, QueryOK, HeldOK, Facts,
                       vars, confVars, cacheVars, taskVars
  <2>3. AnswerInv'
    BY <1>1, Zenon DEF ResolverInv, AnswerInv, AnswerOK, vars, cacheVars
  <2> QED  BY <2>1, <2>2, <2>3, Zenon DEF ResolverInv
<1>2. CASE Next
  <2>1. world' = world
    BY <1>2, Zenon DEF Next
  <2>2. ASSUME NEW q \in Queries, Step(q)
        PROVE  ResolverInv'
    BY <2>1, <2>2, FilterStepInv, PassingInv, CacheStepInv, PutStepInv, UpstreamReplyInv, Zenon
    DEF Step
  <2>3. ASSUME NEW q \in Queries, NEW k \in Keys, Begin(q, k)
        PROVE  ResolverInv'
    BY <2>1, <2>3, BeginInv
  <2>4. ASSUME NEW s \in world.stores, SwapStore(s)
        PROVE  ResolverInv'
    BY <2>1, <2>4, SwapInv, Zenon DEF SwapStore, ResolverInv, WorldInv
  <2>5. ASSUME NEW f \in world.filters, SwapFilter(f)
        PROVE  ResolverInv'
    BY <2>1, <2>5, SwapInv, Zenon DEF SwapFilter, ResolverInv, WorldInv
  <2>6. ASSUME NEW t \in clock .. world.maxClock, Shutdown(t) \/ Crash(t)
        PROVE  ResolverInv'
    <3>1. clock \in Nat /\ world.maxClock \in Nat
      BY ResolverAssumption, Zenon DEF ResolverInv, WorldInv, World
    <3>2. t \in Nat /\ clock <= t
      BY <3>1
    <3> QED  BY <2>1, <2>6, <3>2, ShutdownInv, CrashInv, Zenon
  <2> QED
    BY <1>2, <2>1, <2>2, <2>3, <2>4, <2>5, <2>6, TickInv, NewCacheInv, OtherSwapInv, Zenon
    DEF Next
<1> QED  BY <1>1, <1>2

\* The inductive invariant holds all along.
THEOREM ResolverInvariance == Spec => []ResolverInv
  BY ResolverInit, ResolverStep, PTL DEF Spec

\* However the puts of slow queries, replaced caches, shutdowns and crashes
\* interleave, DnsCache holds one entry for a key and at most cap, and none
\* outlives its TTL, counted from the answer, by more than the time it spent
\* in files.
THEOREM CacheSound == Spec => []CacheInv
<1>1. ResolverInv => CacheInv
  <2> SUFFICES ASSUME ResolverInv PROVE CacheInv
    OBVIOUS
  <2>1. /\ clock \in Nat /\ filter \in Filter /\ {store, cond} \subseteq SUBSET Keys
        /\ upstream \subseteq {TRUE} /\ bounds \in Bounds
    BY WorldTypes, Zenon DEF ResolverInv, WorldInv
  <2>2. /\ map \subseteq Entry /\ Cardinality(map) <= bounds.cap
        /\ \A e, d \in map : e.key = d.key => e = d
        /\ \A e \in map : e.expires <= e.fetched + e.lived + e.shelved
    BY Zenon DEF ResolverInv, MapInv, AgeInv, Timely, Due
  <2>3. pc \in [Queries -> Labels] /\ \A a \in answer : a.kind \in Kinds
    BY Zenon DEF ResolverInv, TaskInv, TaskType, AnswerInv, AnswerOK
  <2>4. \A q \in Queries :
          /\ handle[q] # {} <=> pc[q] \in {"wait", "put", "dead"}
          /\ reply[q] # {} <=> pc[q] \in {"put", "dead"}
          /\ asked[q] <= clock
    BY Zenon DEF ResolverInv, TaskInv, QueryOK, Waiting, Answered
  <2> QED  BY <2>1, <2>2, <2>3, <2>4, Zenon DEF CacheInv
<1> QED  BY <1>1, ResolverInvariance, PTL

\* resolve_query never gives an answer from the cache that is older than the
\* TTL it was stored with and the time between the save and the load of the
\* file that brought it over a restart, if one did.
THEOREM AnswersFresh == Spec => []FreshAnswers
<1>1. ResolverInv => FreshAnswers
  BY Zenon DEF ResolverInv, AnswerInv, FreshAnswers
<1> QED  BY <1>1, ResolverInvariance, PTL

\* A name that is local or blocked all the while it is resolved is never taken
\* from the cache or sent to an upstream.
THEOREM ConfigIsFirst == Spec => []ConfigFirst
<1>1. ResolverInv => ConfigFirst
  <2> SUFFICES ASSUME ResolverInv PROVE ConfigFirst
    OBVIOUS
  <2>1. ASSUME NEW a \in answer, a.held # {}
        PROVE  a.kind \in {"local", "mdns", "blocked"} /\ a.kind \notin External
    BY <2>1 DEF ResolverInv, AnswerInv, AnswerOK, External
  <2>2. ASSUME NEW q \in Queries, held[q] \cap {"local", "blocked"} # {}
        PROVE  pc[q] = "filter"
    BY <2>2, Zenon DEF ResolverInv, TaskInv, HeldOK
  <2> QED  BY <2>1, <2>2, Zenon DEF ConfigFirst
<1> QED  BY <1>1, ResolverInvariance, PTL

\* Every cache is made by DnsCache::new.
MadeByNew ==
  \A w \in Worlds : \A b \in w.bounds :
    \E size, min, max \in Nat : b = NewBounds(size, min, max)

\* DnsCache::new rules out every panic of clamp but the one for a
\* cache_min_ttl above cache_max_ttl, also for a query that holds a cache
\* which was replaced while it waited.
THEOREM DiesOfSettings == ASSUME MadeByNew PROVE Spec => []DiesOnlyOfSettings
<1>1. ASSUME MadeByNew, ResolverInv
      PROVE  DiesOnlyOfSettings
  <2> SUFFICES ASSUME NEW q \in Queries, pc[q] = "dead"
               PROVE  \E b \in handle[q] : b.min > b.max
    BY Zenon DEF DiesOnlyOfSettings
  <2>1. PICK b \in handle[q] : Panics(b)
    BY <1>1, Zenon DEF ResolverInv, TaskInv, QueryOK
  <2>2. b \in world.bounds /\ world \in Worlds
    BY <1>1, Zenon DEF ResolverInv, WorldInv, TaskInv, TaskType
  <2>3. PICK size \in Nat, min \in Nat, max \in Nat : b = NewBounds(size, min, max)
    BY <1>1, <2>2, Zenon DEF MadeByNew
  <2>4. b.min = min /\ b.max = Larger(max, 1)
    BY <2>3, Zenon DEF NewBounds
  <2>5. min > Larger(max, 1)
    BY <2>1, <2>4 DEF Panics, Larger
  <2> QED  BY <2>4, <2>5
<1> QED  BY <1>1, ResolverInvariance, PTL

=============================================================================
