------------------------------ MODULE DnsCache ------------------------------
(***************************************************************************)
(* The answer cache in front of the upstream (src/src/dns/cache.rs), as    *)
(* operators on its map.                                                   *)
(*                                                                         *)
(* A map is a set of entries, at most one for each key (name and type).    *)
(* fetched is when the upstream gave the answer, lived the TTL it was      *)
(* stored with and shelved the time it has spent in files, between being   *)
(* saved and being loaded; they are there for the properties.              *)
(***************************************************************************)
EXTENDS Integers, FiniteSets

CONSTANTS
  Keys,         \* names with their record type
  NegativeTtl   \* NEGATIVE_TTL

\* The settings of a cache.
Bounds == [cap : Nat, min : Nat, max : Nat]

Entry == [key : Keys, fetched : Nat, expires : Nat, lived : Nat, shelved : Nat]

Larger(a, b) == IF a < b THEN b ELSE a

\* Mutant of NewBounds: max_ttl is taken as it is.
NewBoundsRaw(size, min, max) == [cap |-> Larger(size, 1), min |-> min, max |-> max]

\* DnsCache::new, of the cache_size, cache_min_ttl and cache_max_ttl settings.
NewBounds(size, min, max) ==
  [cap |-> Larger(size, 1), min |-> min, max |-> Larger(max, 1)]

Live(m, now) == {e \in m : e.expires > now}

\* get: the entry found, if any ...
Hit(m, k, now) == {e \in Live(m, now) : e.key = k}

\* ... and what becomes of the map: an expired entry is removed.
AfterGet(m, k, now) == {e \in m : e.key = k => e.expires > now}

\* Rust's clamp panics on these.
Panics(b) == Larger(b.min, 1) > b.max

\* The TTL an answer is stored with: ttl is the smallest of its records, {}
\* if it has none.
Clamp(b, ttl) ==
  LET raw == IF ttl = {} THEN NegativeTtl ELSE CHOOSE x \in ttl : TRUE
  IN  IF raw < Larger(b.min, 1) THEN Larger(b.min, 1)
      ELSE IF raw > b.max THEN b.max ELSE raw

\* Mutant of Put: a full cache is not looked after.
PutAlways(m, b, k, ttl, now, at) ==
  {e \in m : e.key # k} \cup
    {[key |-> k, fetched |-> at, expires |-> now + Clamp(b, ttl),
      lived |-> Clamp(b, ttl), shelved |-> 0]}

\* put, for an answer that is not SERVFAIL: now is when the query was made,
\* at when it was answered.  A cache still full after the expired entries have
\* been dropped takes nothing, not even a new answer for a key it has.
Put(m, b, k, ttl, now, at) ==
  LET kept == IF Cardinality(m) >= b.cap THEN Live(m, now) ELSE m
      new  == [key |-> k, fetched |-> at, expires |-> now + Clamp(b, ttl),
               lived |-> Clamp(b, ttl), shelved |-> 0]
  IN  IF Cardinality(kept) >= b.cap THEN kept
      ELSE {e \in kept : e.key # k} \cup {new}

\* Mutant of Saved: the whole TTL is written.
SavedWhole(m, now) == {[entry |-> e, ttl |-> e.lived, at |-> now] : e \in Live(m, now)}

\* save: what is written at shutdown, with the seconds each has left.  at is
\* for the properties: the file does not say when it was written.
Saved(m, now) == {[entry |-> e, ttl |-> e.expires - now, at |-> now] : e \in Live(m, now)}

\* load: the maps that can result, as the file lists entries in any order.
\* The seconds left are counted from now, whenever the file was written.
Restored(file, b, now) ==
  LET again(p) == [key |-> p.entry.key, fetched |-> p.entry.fetched,
                   expires |-> now + p.ttl, lived |-> p.entry.lived,
                   shelved |-> p.entry.shelved + (now - p.at)]
  IN  {{again(p) : p \in S} :
         S \in {T \in SUBSET file :
                  /\ Cardinality(T) <= b.cap
                  /\ Cardinality(T) = b.cap \/ T = file}}

=============================================================================
