----------------------------- MODULE DhcpLease -----------------------------
(***************************************************************************)
(* The lease table of the DHCP server and the pure allocation policy over  *)
(* it (src/src/dhcp/lease.rs, and the dhcp_leases queries of               *)
(* src/src/db.rs).                                                         *)
(*                                                                         *)
(* An address is a natural number, its value as u128; V4Addrs and V6Addrs  *)
(* are disjoint because the code keeps the family beside the number.       *)
(* The database lists leases and reservations in the order of the TEXT of  *)
(* the address ("10" before "9"), which is TextRank.  An optional value    *)
(* (Rust's Option) is a set with at most one element.                      *)
(***************************************************************************)
EXTENDS Integers

CONSTANTS
  Clients,      \* client identifiers (MAC, option 61 or DUID), normalised
  V4Addrs,      \* IPv4 addresses
  V6Addrs,      \* IPv6 addresses
  TextRank,     \* [Addrs -> Nat], order of the addresses as strings
  ScopeIds,     \* ids a dhcp_scopes row can have
  Ids,          \* ids a dhcp_leases row can have: 1..MaxId, the bound on rowids
  MaxV6Scan     \* MAX_V6_SCAN

Families == {"v4", "v6"}
Addrs == V4Addrs \cup V6Addrs
AddrsOf(f) == IF f = "v4" THEN V4Addrs ELSE V6Addrs

ASSUME AddrAssumption ==
  /\ V4Addrs \subseteq Nat
  /\ V6Addrs \subseteq Nat
  /\ V4Addrs \cap V6Addrs = {}
  /\ \A f \in Families : \A a, b \in AddrsOf(f) : a .. b \subseteq AddrsOf(f)
ASSUME RankAssumption == TextRank \in [Addrs -> Nat]
ASSUME IdAssumption == ScopeIds \subseteq Nat /\ Ids \subseteq Nat
ASSUME ScanAssumption == MaxV6Scan \in Nat \ {0}

(***************************************************************************)
(* Released and Expired are never stored: RELEASE deletes the row and      *)
(* expiry is a comparison with the clock.                                  *)
(***************************************************************************)
LeaseState == {"offered", "active", "declined"}

\* A row of dhcp_leases.
Lease == [id : Nat, scope : ScopeIds, ip : Addrs, client : Clients,
          state : LeaseState, expires : Nat]

WithId(l, id) ==
  [id |-> id, scope |-> l.scope, ip |-> l.ip, client |-> l.client,
   state |-> l.state, expires |-> l.expires]

WithState(l, st) ==
  [id |-> l.id, scope |-> l.scope, ip |-> l.ip, client |-> l.client,
   state |-> st, expires |-> l.expires]

\* The UNIQUE (scope_id, ip) key of a row.
Key(l) == <<l.scope, l.ip>>

\* A row of dhcp_reservations.
Reservation == [scope : ScopeIds, client : Clients, ip : Addrs]

LeaseExpired(l, now) == l.expires <= now

IsHolding(l, now) ==
  /\ l.state \in {"active", "offered"}
  /\ ~LeaseExpired(l, now)

\* The first of a set of addresses in the order the database lists them.
FirstListed(S) == {a \in S : \A b \in S : TextRank[a] <= TextRank[b]}

Lowest(S) == {a \in S : \A b \in S : a <= b}

\* The pool [range_start, range_end]: empty when a bound is of the wrong
\* family or the bounds are reversed.
Pool(sc) ==
  IF {sc.lo, sc.hi} \subseteq AddrsOf(sc.family) THEN sc.lo .. sc.hi ELSE {}

\* The prefix of the pool the scan for a free address looks at.
Scanned(sc) ==
  IF sc.family = "v4" THEN Pool(sc)
  ELSE {a \in Pool(sc) : a < sc.lo + MaxV6Scan}

\* Mutant of Used: the leases of the other clients are forgotten.
UsedReservedOnly(rs, ls, c, now) == {r.ip : r \in rs}

\* Off-limits to client c: reserved, or held by another client.
Used(rs, ls, c, now) ==
  {r.ip : r \in rs} \cup
  {l.ip : l \in {m \in ls : IsHolding(m, now) /\ m.client # c}}

(***************************************************************************)
(* The address for client c: {} when there is none.  A reservation wins,   *)
(* then the client's own lease, then the address it asks for, then the     *)
(* lowest free one.                                                        *)
(***************************************************************************)
Allocate(sc, rs, ls, c, requested, now) ==
  LET reserved == {r.ip : r \in {q \in rs : q.client = c}}
      free     == Pool(sc) \ Used(rs, ls, c, now)
      own      == {l.ip : l \in {m \in ls : m.client = c /\ IsHolding(m, now)}}
  IN  IF reserved # {} THEN FirstListed(reserved)
      ELSE IF own \cap free # {} THEN FirstListed(own \cap free)
      ELSE IF requested \cap free # {} THEN requested \cap free
      ELSE Lowest(Scanned(sc) \cap free)

(***************************************************************************)
(* INSERT ... ON CONFLICT (scope_id, ip) DO UPDATE for each of rows: a row *)
(* of the same key is overwritten and keeps its id, a new row takes an id  *)
(* one above the largest in the table (SQLite's INTEGER PRIMARY KEY        *)
(* without AUTOINCREMENT, so the largest id is used again once its row is  *)
(* gone).  The set of the tables that can result.                          *)
(***************************************************************************)
FreshIds(ls, fresh) ==
  {f \in [fresh -> Ids] :
    /\ \A w \in fresh : \A l \in ls : l.id < f[w]
    /\ \A w \in fresh : \/ f[w] = 1
                        \/ \E l \in ls : l.id = f[w] - 1
                        \/ \E v \in fresh : f[v] = f[w] - 1
    /\ \A v, w \in fresh : f[v] = f[w] => v = w}

UpsertLeases(ls, rows) ==
  LET keep  == {l \in ls : \A w \in rows : Key(l) # Key(w)}
      fresh == {w \in rows : \A l \in ls : Key(l) # Key(w)}
      over  == {WithId(p[1], p[2].id) :
                  p \in {q \in rows \X ls : Key(q[1]) = Key(q[2])}}
  IN  {keep \cup over \cup {WithId(w, f[w]) : w \in fresh} :
         f \in FreshIds(ls, fresh)}

DeleteLeases(ls, ids) == {l \in ls : l.id \notin ids}

\* Mutant of PruneExpired: the last second of a lease is cut off.
PruneEarly(ls, now) == {l \in ls : ~(l.expires <= now + 1)}

\* Whole seconds: an expiry is stored as "...:SSZ" and compared as text with
\* a clock that carries nanoseconds, which sorts before the bare second, so a
\* row goes one second after the last one it covers.
PruneExpired(ls, now) == {l \in ls : ~(l.expires < now)}

=============================================================================
