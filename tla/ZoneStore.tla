----------------------------- MODULE ZoneStore -----------------------------
(***************************************************************************)
(* The authoritative store (src/src/store.rs): which view a client is in,  *)
(* which zone answers for a name, wildcards, the split-horizon override,   *)
(* the CNAME chase within a zone, and the outgoing zone transfer.          *)
(*                                                                         *)
(* A name is the sequence of its labels, the leftmost first.  A client is  *)
(* the views whose networks hold its address and those its location        *)
(* matches.  This module has the operators; Zones has the steps.           *)
(***************************************************************************)
EXTENDS Integers, FiniteSets, Sequences

CONSTANTS
  Apexes,    \* names of zones, none of them a wildcard
  Chars,     \* [Apexes -> Nat]: their lengths as strings
  Names,     \* names asked for
  Types,     \* record types, "CNAME" and "SOA" among them
  Views,     \* the views by ascending priority, then id: a sequence
  DefaultView,   \* the one that cannot be deleted
  Clients,   \* [nets, geo : subsets of the views]
  MaxRows,   \* a bound on the rows in the database
  DynUpdates,   \* DynDNS updates: [token, name, data]
  Rows,      \* rows the records table can be given
  MaxDepth   \* CNAMEs followed: 8

\* A row of the records table: view is optional, {} for all views; data is a
\* name for a CNAME.
Row(z, n, t, v, d, e) ==
  [zone |-> z, name |-> n, type |-> t, view |-> v, data |-> d, enabled |-> e]

ViewSet == {Views[i] : i \in DOMAIN Views}

ASSUME RowAssumption ==
  /\ \A r \in Rows :
       /\ r.zone \in Apexes /\ r.type \in Types \ {"SOA"} /\ r.enabled \in BOOLEAN
       /\ r.view = {} \/ \E v \in ViewSet : r.view = {v}
  /\ \A c \in Clients : c.nets \cup c.geo \subseteq ViewSet
  /\ DefaultView \in ViewSet /\ MaxDepth \in Nat /\ MaxRows \in Nat

\* Name::zone_of: n is the apex z or a name below it.
ZoneOf(z, n) == Len(z) <= Len(n) /\ z = SubSeq(n, Len(n) - Len(z) + 1, Len(n))

\* A zone has a name, and the name of a zone inside it is a longer string.
ASSUME NameAssumption ==
  /\ Apexes \subseteq Seq(STRING) \ {<<>>} /\ Chars \in [Apexes -> Nat]
  /\ \A y, z \in Apexes : ZoneOf(z, y) /\ y # z => Chars[z] < Chars[y]
  /\ \A u \in DynUpdates : u.name \in Seq(STRING)

-----------------------------------------------------------------------------
(* Operators. *)

Enabled(t) == {z \in Apexes : TRUE \in t.zones[z]}

\* build_from: the store for the tables t, in which zones maps an apex to its
\* enabled flag, {} if there is no such zone.
Build(t) ==
  [views |-> t.views, zones |-> Enabled(t),
   rows |-> {r \in t.rows : r.enabled /\ r.zone \in Enabled(t)}]

\* view_for: the first view the client matches, if any.
ViewFor(s, c) ==
  LET hits == {i \in DOMAIN Views : Views[i] \in s.views \cap (c.nets \cup c.geo)}
  IN  {Views[i] : i \in {j \in hits : \A k \in hits : j <= k}}

\* zone_for: the zones are sorted by their number of labels, most first, and
\* the first one that n is in is taken.
ZoneFor(s, n) ==
  LET over == {a \in s.zones : ZoneOf(a, n)}
  IN  {a \in over : \A b \in over : Len(b) <= Len(a)}

\* Mutant of Resolve: the rows for all views are added to those for the view.
ResolveBoth(rs, v, t) == {r \in rs : r.type = t /\ r.view \in {{}, v}}

\* resolve: the rows for the view hide those for all views.
Resolve(rs, v, t) ==
  LET specific == {r \in rs : r.type = t /\ r.view = v}
  IN  IF specific # {} THEN specific ELSE {r \in rs : r.type = t /\ r.view = {}}

At(s, z, n) == {r \in s.rows : r.zone = z /\ r.name = n}

Wild(n, i) == <<"*">> \o SubSeq(n, i, Len(n))

\* records_at: the rows of the name, or else of the nearest wildcard above it.
RecordsAt(s, z, n) ==
  LET levels == {i \in 2 .. Len(n) : At(s, z, Wild(n, i)) # {}}
  IN  IF At(s, z, n) # {} THEN At(s, z, n)
      ELSE UNION {At(s, z, Wild(n, i)) : i \in {j \in levels : \A k \in levels : j <= k}}

TypesOf(rs) == {r.type : r \in rs}

\* Everything visible at a name: the answer to ANY.
Visible(rs, v) == UNION {Resolve(rs, v, t) : t \in TypesOf(rs)}

\* Mutant of Axfr: the rows of the client's view are left out.
AxfrPublic(s, z, c) ==
  {[owner |-> r.name, row |-> r] : r \in {q \in s.rows : q.zone = z /\ q.view = {}}}

\* axfr, without the SOA at both ends: what is visible at each owner.  The
\* location of the client is not looked up.
Axfr(s, z, c) ==
  LET v == ViewFor(s, [nets |-> c.nets, geo |-> {}])
  IN  {[owner |-> r.name, row |-> r] :
         r \in UNION {Visible(At(s, z, n), v) : n \in {q.name : q \in s.rows}}}

AnyOutcome(recs, v) == IF Visible(recs, v) = {} THEN "NoData" ELSE "Authoritative"

\* lookup up to the CNAMEs: the outcome and the rows of the answer.  "chase"
\* stands for a CNAME that is to be followed; the SOA is not a row.
FirstAnswer(s, z, v, n, t) ==
  LET recs == RecordsAt(s, z, n)
      ans(kind, rs) == [outcome |-> kind, rows |-> rs]
  IN  IF t = "SOA" /\ n = z THEN ans("Authoritative", {})
      ELSE IF recs = {} THEN ans("NxDomain", {})
      ELSE IF t = "ANY" THEN ans(AnyOutcome(recs, v), Visible(recs, v))
      ELSE IF Resolve(recs, v, t) # {} THEN ans("Authoritative", Resolve(recs, v, t))
      ELSE IF Resolve(recs, v, "CNAME") # {} THEN ans("chase", Resolve(recs, v, "CNAME"))
      ELSE ans("NoData", {})

=============================================================================
