------------------------------ MODULE Resolver ------------------------------
(***************************************************************************)
(* The way of a query through resolve_query (src/src/dns/resolve.rs): ASN  *)
(* blocking, mDNS, local zones, filter, conditional forwarders, cache and  *)
(* upstream, while the administrator replaces what the query is looked up  *)
(* in, other queries fill the cache, and the server is stopped or crashes. *)
(*                                                                         *)
(* Each shared copy is read in a step of its own; only the waits for an    *)
(* upstream are long.  The clock also runs while the server is down.       *)
(***************************************************************************)
EXTENDS DnsCache

CONSTANTS
  Queries,      \* tasks that resolve queries
  Worlds        \* what can happen around the queries, see World

\* A filter: the keys its rewrites (to an address or to a name), allow rules,
\* deny rules and enabled blocklists cover, and blocking_enabled.
Filter == [toIp : SUBSET Keys, toName : SUBSET Keys, allow : SUBSET Keys,
           deny : SUBSET Keys, listed : SUBSET Keys, on : BOOLEAN]

\* One of the surroundings that are explored: the zone stores (the sets of
\* keys they answer), filters, conditional forwarders (the sets of keys they
\* cover), upstreams ({} is authoritative only) and cache settings that can
\* be put in place, the names mDNS may have discovered and those the
\* homograph check objects to, the TTLs of upstream answers (optional, {}
\* without records) and a bound on the clock.
World == [stores : SUBSET SUBSET Keys, filters : SUBSET Filter,
          conds : SUBSET SUBSET Keys, upstreams : SUBSET SUBSET {TRUE},
          bounds : SUBSET Bounds, mdns : SUBSET Keys, suspicious : SUBSET Keys,
          ttls : SUBSET SUBSET Nat, maxClock : Nat]

ASSUME ResolverAssumption ==
  /\ Worlds \subseteq World
  /\ \A w \in Worlds :
       /\ \A f \in w.filters : f.toIp \cap f.toName = {}
       /\ \A ttl \in w.ttls : \A m, n \in ttl : m = n
  /\ NegativeTtl \in Nat

VARIABLES
  world,         \* the surroundings, chosen at the start
  clock,
  store, filter, cond, upstream,   \* the live copies
  map, bounds,   \* the answer cache: its entries and its settings
  file,          \* optional: the entries saved at the last shutdown
  pc,            \* [Queries -> next step]
  key,           \* [Queries -> optional: the key asked for]
  asked,         \* [Queries -> when the cache was looked up]
  handle,        \* [Queries -> optional: the bounds of the cache it holds]
  mine,          \* [Queries -> that cache is still the live one]
  reply,         \* [Queries -> optional: TTL and time of the upstream answer]
  held,          \* [Queries -> what was true of the key all along]
  answer         \* optional: the answer given in the last step

confVars == <<store, filter, cond, upstream>>
cacheVars == <<map, bounds, file>>
taskVars == <<pc, key, asked, handle, mine, reply, held>>
vars == <<world, clock, confVars, cacheVars, taskVars, answer>>

Labels == {"idle", "filter", "rewrite", "cond", "condWait", "upstream", "cache",
           "wait", "put", "dead"}

Kinds == {"blocked", "mdns", "local", "rewritten", "dangerous", "conditional",
          "cached", "forwarded", "servfail", "refused"}

\* The answer to a query of which facts held all along; fresh says, of one
\* from the cache, that it was younger than the TTL it was stored with and
\* the time it was shelved.  The ones nothing is said about below are not
\* remembered.
Answer(kind, facts, fresh) ==
  IF kind = "cached" \/ facts # {} THEN {[kind |-> kind, held |-> facts, fresh |-> fresh]}
  ELSE {}

Silent == answer' = {}

-----------------------------------------------------------------------------
(* FilterSet::decide: rewrite, then allow, then block. *)

Decide(f, k) ==
  IF k \in f.toIp THEN "ip"
  ELSE IF k \in f.toName THEN "name"
  ELSE IF k \in f.allow THEN "allow"
  ELSE IF f.on /\ k \in f.listed \cup f.deny THEN "block"
  ELSE "pass"

\* What is true of a key now, of what held records.
Facts(k, s, f) ==
  {x \in {"local", "blocked"} :
     (x = "local" /\ k \in s) \/ (x = "blocked" /\ Decide(f, k) = "block")}

Init ==
  /\ world \in Worlds
  /\ clock = 0
  /\ store \in world.stores /\ filter \in world.filters
  /\ cond \in world.conds /\ upstream \in world.upstreams
  /\ bounds \in world.bounds /\ map = {} /\ file = {}
  /\ pc = [q \in Queries |-> "idle"]
  /\ key = [q \in Queries |-> {}]
  /\ asked = [q \in Queries |-> 0]
  /\ handle = [q \in Queries |-> {}]
  /\ mine = [q \in Queries |-> FALSE]
  /\ reply = [q \in Queries |-> {}]
  /\ held = [q \in Queries |-> {}]
  /\ answer = {}

-----------------------------------------------------------------------------
(* The steps of a query. *)

Goto(q, label) == pc' = [pc EXCEPT ![q] = label]

\* The query is answered and forgotten.
Finish(q, a) ==
  /\ answer' = a
  /\ Goto(q, "idle")
  /\ key' = [key EXCEPT ![q] = {}]
  /\ asked' = [asked EXCEPT ![q] = 0]
  /\ handle' = [handle EXCEPT ![q] = {}]
  /\ mine' = [mine EXCEPT ![q] = FALSE]
  /\ reply' = [reply EXCEPT ![q] = {}]
  /\ held' = [held EXCEPT ![q] = {}]

FinishAs(q, kind) == Finish(q, Answer(kind, held[q], TRUE))

MoveOn(q, label) ==
  /\ Goto(q, label)
  /\ Silent
  /\ UNCHANGED <<key, asked, handle, mine, reply, held>>

\* resolve_query up to the lookup in the store: a client of a blocked AS, a
\* name found by mDNS, a name of a local zone, or none of them.
Begin(q, k) ==
  /\ pc[q] = "idle"
  /\ LET facts == Facts(k, store, filter)
         now(kind) == answer' = Answer(kind, facts, TRUE) /\ UNCHANGED taskVars
     IN  \/ now("blocked")
         \/ k \in world.mdns /\ now("mdns")
         \/ k \in store /\ now("local")
         \/ /\ k \notin store
            /\ Goto(q, "filter")
            /\ key' = [key EXCEPT ![q] = {k}]
            /\ held' = [held EXCEPT ![q] = facts]
            /\ Silent
            /\ UNCHANGED <<asked, handle, mine, reply>>
  /\ UNCHANGED <<clock, confVars, cacheVars>>

\* Mutant of FilterStep: names in the cache are answered from it first.
FilterStepCached(q) ==
  /\ pc[q] = "filter"
  /\ \E k \in key[q] :
       IF Hit(map, k, clock) # {} THEN FinishAs(q, "cached")
       ELSE CASE Decide(filter, k) = "block" -> FinishAs(q, "blocked")
              [] OTHER -> MoveOn(q, "cond")
  /\ UNCHANGED <<clock, confVars, cacheVars>>

\* resolve_external, the filter.  A rewrite to a name is completed by the
\* upstream, if there is one and the type is A or AAAA.
FilterStep(q) ==
  /\ pc[q] = "filter"
  /\ \E k \in key[q] :
       CASE Decide(filter, k) = "ip" -> FinishAs(q, "rewritten")
         [] Decide(filter, k) = "name" ->
              \/ FinishAs(q, "rewritten")
              \/ upstream # {} /\ MoveOn(q, "rewrite")
         [] Decide(filter, k) = "block" -> FinishAs(q, "blocked")
         [] Decide(filter, k) = "allow" -> MoveOn(q, "cond")
         [] Decide(filter, k) = "pass" ->
              IF k \in world.suspicious THEN FinishAs(q, "dangerous") ELSE MoveOn(q, "cond")
  /\ UNCHANGED <<clock, confVars, cacheVars>>

RewriteReply(q) ==
  /\ pc[q] = "rewrite"
  /\ FinishAs(q, "rewritten")
  /\ UNCHANGED <<clock, confVars, cacheVars>>

\* Conditional forwarders: asked whatever the resolution mode, never cached.
CondStep(q) ==
  /\ pc[q] = "cond"
  /\ MoveOn(q, IF key[q] \subseteq cond THEN "condWait" ELSE "upstream")
  /\ UNCHANGED <<clock, confVars, cacheVars>>

CondReply(q, kind) ==
  /\ pc[q] = "condWait"
  /\ FinishAs(q, kind)
  /\ UNCHANGED <<clock, confVars, cacheVars>>

UpstreamStep(q) ==
  /\ pc[q] = "upstream"
  /\ IF upstream = {} THEN FinishAs(q, "refused") ELSE MoveOn(q, "cache")
  /\ UNCHANGED <<clock, confVars, cacheVars>>

\* state.cache() and get.
CacheStep(q) ==
  /\ pc[q] = "cache"
  /\ \E k \in key[q] :
       /\ map' = AfterGet(map, k, clock)
       /\ \/ \E e \in Hit(map, k, clock) :
               Finish(q, Answer("cached", held[q], clock - e.fetched < e.lived + e.shelved))
          \/ /\ Hit(map, k, clock) = {}
             /\ Goto(q, "wait")
             /\ asked' = [asked EXCEPT ![q] = clock]
             /\ handle' = [handle EXCEPT ![q] = {bounds}]
             /\ mine' = [mine EXCEPT ![q] = TRUE]
             /\ Silent
             /\ UNCHANGED <<key, reply, held>>
  /\ UNCHANGED <<clock, confVars, bounds, file>>

\* The upstream fails or times out: put returns at once.
ServFail(q) ==
  /\ pc[q] = "wait"
  /\ FinishAs(q, "servfail")
  /\ UNCHANGED <<clock, confVars, cacheVars>>

\* It answers.
UpstreamReply(q, ttl) ==
  /\ pc[q] = "wait"
  /\ reply' = [reply EXCEPT ![q] = {[ttl |-> ttl, at |-> clock]}]
  /\ Goto(q, "put")
  /\ Silent
  /\ UNCHANGED <<clock, confVars, cacheVars, key, asked, handle, mine, held>>

\* cache.put with the time of the lookup.  What goes into a cache that has
\* been replaced meanwhile is lost.
PutStep(q) ==
  /\ pc[q] = "put"
  /\ \E b \in handle[q], r \in reply[q], k \in key[q] :
       IF Panics(b)
       THEN MoveOn(q, "dead") /\ UNCHANGED map
       ELSE /\ FinishAs(q, "forwarded")
            /\ map' = IF mine[q] THEN Put(map, b, k, r.ttl, asked[q], r.at) ELSE map
  /\ UNCHANGED <<clock, confVars, bounds, file>>

Step(q) ==
  \/ FilterStep(q) \/ RewriteReply(q) \/ CondStep(q) \/ UpstreamStep(q)
  \/ CacheStep(q) \/ ServFail(q) \/ PutStep(q)
  \/ \E ttl \in world.ttls : UpstreamReply(q, ttl)
  \/ \E kind \in {"conditional", "servfail"} : CondReply(q, kind)

-----------------------------------------------------------------------------
(* Time, the administrator, and the life of the process. *)

Tick ==
  /\ clock < world.maxClock
  /\ clock' = clock + 1
  /\ Silent
  /\ UNCHANGED <<confVars, cacheVars, taskVars>>

\* What stays true of the keys asked for under a new store and filter.
Keep(s, f) ==
  held' = [q \in Queries |-> {x \in held[q] : \A k \in key[q] : x \in Facts(k, s, f)}]

\* reload_store, reload_filter, reload_conditional put a new copy in place.
SwapStore(s) ==
  /\ store' = s
  /\ Silent
  /\ Keep(s, filter)
  /\ UNCHANGED <<clock, filter, cond, upstream, cacheVars, pc, key, asked, handle, mine, reply>>

SwapFilter(f) ==
  /\ filter' = f
  /\ Silent
  /\ Keep(store, f)
  /\ UNCHANGED <<clock, store, cond, upstream, cacheVars, pc, key, asked, handle, mine, reply>>

SwapConditional(c) ==
  /\ cond' = c
  /\ Silent
  /\ UNCHANGED <<clock, store, filter, upstream, cacheVars, taskVars>>

\* apply_settings replaces the upstream and, later, the cache.
SwapUpstream(u) ==
  /\ upstream' = u
  /\ Silent
  /\ UNCHANGED <<clock, store, filter, cond, cacheVars, taskVars>>

NewCache(b) ==
  /\ bounds' = b
  /\ Silent
  /\ map' = {}
  /\ mine' = [q \in Queries |-> FALSE]
  /\ UNCHANGED <<clock, confVars, file, pc, key, asked, handle, reply, held>>

\* clear_stats.
Clear ==
  /\ Silent
  /\ map' = {}
  /\ UNCHANGED <<clock, confVars, bounds, file, taskVars>>

\* The process ends and starts again: what it was doing is gone, and the
\* cache is filled from the file f.  It is now t: it may have been down long.
Start(f, t) ==
  /\ clock' = t
  /\ map' \in Restored(f, bounds, t)
  /\ pc' = [q \in Queries |-> "idle"]
  /\ key' = [q \in Queries |-> {}]
  /\ asked' = [q \in Queries |-> 0]
  /\ handle' = [q \in Queries |-> {}]
  /\ mine' = [q \in Queries |-> FALSE]
  /\ reply' = [q \in Queries |-> {}]
  /\ held' = [q \in Queries |-> {}]
  /\ Silent
  /\ UNCHANGED <<confVars, bounds>>

\* A shutdown saves the cache; the file stays.
Shutdown(t) ==
  /\ file' = Saved(map, clock)
  /\ Start(file', t)

\* A crash, or a shutdown whose save failed: the file of an earlier one is
\* read again.
Crash(t) ==
  /\ Start(file, t)
  /\ UNCHANGED file

\* (To replace a copy by an equal one changes nothing.)
Next ==
  /\ UNCHANGED world
  /\ \/ \E q \in Queries : Step(q)
     \/ \E q \in Queries, k \in Keys : Begin(q, k)
     \/ Tick
     \/ \E s \in world.stores \ {store} : SwapStore(s)
     \/ \E f \in world.filters \ {filter} : SwapFilter(f)
     \/ \E c \in world.conds \ {cond} : SwapConditional(c)
     \/ \E u \in world.upstreams \ {upstream} : SwapUpstream(u)
     \/ \E b \in world.bounds : NewCache(b)
     \/ Clear
     \/ \E t \in clock .. world.maxClock : Shutdown(t) \/ Crash(t)

Spec == Init /\ [][Next]_vars

-----------------------------------------------------------------------------
(* Properties. *)

\* Types, and the cache: one entry for a key, never more than cap, none that
\* lives longer than its TTL, counted from the answer, and the time it spent
\* in files, however the puts of slow queries, replaced caches, shutdowns and
\* crashes interleave.
CacheInv ==
  /\ clock \in Nat
  /\ filter \in Filter /\ {store, cond} \subseteq SUBSET Keys /\ upstream \subseteq {TRUE}
  /\ bounds \in Bounds /\ map \subseteq Entry
  /\ pc \in [Queries -> Labels]
  /\ \A a \in answer : a.kind \in Kinds
  /\ \A q \in Queries :
       /\ handle[q] # {} <=> pc[q] \in {"wait", "put", "dead"}
       /\ reply[q] # {} <=> pc[q] \in {"put", "dead"}
       /\ asked[q] <= clock
  /\ Cardinality(map) <= bounds.cap
  /\ \A e, d \in map : e.key = d.key => e = d
  /\ \A e \in map : e.expires <= e.fetched + e.lived + e.shelved

\* An answer from the cache is younger than the TTL it was stored with.  One
\* that save and load carried over a restart may be older by the time between
\* the two and no more: the time the server was down or, after a crash that
\* brings back an old file, the time since that was written.
FreshAnswers == \A a \in answer : a.fresh

External == {"cached", "forwarded", "conditional"}

\* A name that was local, or blocked by the filter, from the moment it was
\* asked for is never taken from the cache or sent to an upstream, although
\* it may have been cached before the zone or the rule was added.
ConfigFirst ==
  /\ \A a \in answer : a.held \cap {"local", "blocked"} # {} => a.kind \notin External
  /\ \A a \in answer : "local" \in a.held => a.kind \in {"local", "mdns", "blocked"}
  /\ \A q \in Queries : held[q] \cap {"local", "blocked"} # {} => pc[q] = "filter"

\* put panics in clamp, and the query with it, only if cache_min_ttl is set
\* above cache_max_ttl: with zeros, and with a cache replaced while the query
\* waits, it does not.
DiesOnlyOfSettings ==
  \A q \in Queries : pc[q] = "dead" => \E b \in handle[q] : b.min > b.max

=============================================================================
