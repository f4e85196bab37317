---------------------------- MODULE ZonesProofs -----------------------------
(***************************************************************************)
(* Proofs about Zones for any zones, views, records, clients and names,    *)
(* and any bound on the CNAMEs followed.                                   *)
(***************************************************************************)
EXTENDS Zones, TLAPS

-----------------------------------------------------------------------------
(* The inductive invariant. *)

\* The store is that of the tables.
StoreInv == store = Build(tables) /\ tables.zones \in [Apexes -> SUBSET BOOLEAN]

\* A link of an answer: rows of the store, at the name asked for or at the
\* target of a CNAME.
Link == [owner : Names \cup {r.data : r \in store.rows}, rows : SUBSET store.rows]

\* A lookup works on one query; while it follows CNAMEs, the last link holds
\* nothing else.
LookupInv ==
  /\ pc \in {"idle", "chase", "done"}
  /\ pc = "idle" => query = {} /\ answers = <<>>
  /\ \A p, q \in query : p = q
  /\ answers \in Seq(Link)
  /\ pc = "chase" => answers # <<>> /\ \A r \in LastLink.rows : r.type = "CNAME"

\* The record of a DynDNS update is in the zone the update chose.
DynInv ==
  \A u \in last.dyn :
    /\ u.name \in Seq(STRING)
    /\ \E z \in DynZone(u.name) : \E r \in tables.rows :
         r.zone = z /\ r.name = u.name /\ r.type = "A" /\ r.view = u.view /\ r.data = u.data

ZonesInv == StoreInv /\ LookupInv /\ DynInv /\ SplitHorizon /\ AnswerChain

-----------------------------------------------------------------------------
(* The operators of the store. *)

\* Two suffixes of a name that are as long are the same.
LEMMA SuffixSame ==
  ASSUME NEW a \in Seq(STRING), NEW b \in Seq(STRING), NEW n, Len(a) = Len(b),
         ZoneOf(a, n), ZoneOf(b, n)
  PROVE  a = b
  BY Zenon DEF ZoneOf

\* zone_for has one answer at most.
LEMMA ZoneForOne ==
  ASSUME NEW s, s.zones \subseteq Apexes, NEW n, NEW a \in ZoneFor(s, n), NEW b \in ZoneFor(s, n)
  PROVE  a = b
<1>1. ZoneOf(a, n) /\ ZoneOf(b, n) /\ Len(a) <= Len(b) /\ Len(b) <= Len(a)
  BY Zenon DEF ZoneFor
<1>2. a \in Seq(STRING) /\ b \in Seq(STRING)
  BY NameAssumption, Zenon DEF ZoneFor
<1>3. Len(a) = Len(b)
  BY <1>1, <1>2
<1> QED  BY <1>1, <1>2, <1>3, SuffixSame

\* The string match of dyndns_set_address and the label match of zone_of are
\* the same.
LEMMA MatchesSame ==
  ASSUME NEW n \in Seq(STRING), NEW z \in Apexes
  PROVE  EndsWith(n, z) <=> ZoneOf(z, n)
<1>1. z \in Seq(STRING) /\ Len(z) \in Nat \ {0} /\ Len(n) \in Nat
  BY NameAssumption
<1>2. n = z => ZoneOf(z, n)
  BY <1>1 DEF ZoneOf
<1>3. ASSUME NEW k \in 2 .. Len(n), z = SubSeq(n, k, Len(n)) PROVE ZoneOf(z, n)
  <2>1. Len(z) = Len(n) - k + 1
    BY <1>1, <1>3
  <2>2. Len(z) <= Len(n) /\ Len(n) - Len(z) + 1 = k
    BY <1>1, <2>1
  <2> QED  BY <1>3, <2>2 DEF ZoneOf
<1>4. ASSUME ZoneOf(z, n) PROVE EndsWith(n, z)
  <2> DEFINE k == Len(n) - Len(z) + 1
  <2>1. k \in 1 .. Len(n) /\ z = SubSeq(n, k, Len(n))
    BY <1>1, <1>4 DEF ZoneOf
  <2>2. CASE k = 1
    BY <2>1, <2>2 DEF EndsWith
  <2>3. CASE k # 1
    <3>1. k \in 2 .. Len(n)
      BY <1>1, <2>1, <2>3
    <3> QED  BY <2>1, <3>1, Zenon DEF EndsWith
  <2> QED  BY <2>2, <2>3
<1> QED  BY <1>2, <1>3, <1>4, Zenon DEF EndsWith

\* The labels of a suffix.
LEMMA SuffixLabels ==
  ASSUME NEW n \in Seq(STRING), NEW z \in Seq(STRING), ZoneOf(z, n), NEW d \in Nat,
         d = Len(n) - Len(z), NEW k \in Nat, 1 <= k, k <= Len(z)
  PROVE  z[k] = n[d + k]
<1>1. Len(n) \in Nat /\ Len(z) \in Nat
  OBVIOUS
<1>2. z = SubSeq(n, d + 1, Len(n))
  BY DEF ZoneOf
<1>3. k \in 1 .. (Len(n) - d)
  BY <1>1
<1>4. SubSeq(n, d + 1, Len(n))[k] = n[d + k]
  BY <1>1, <1>3
<1> QED  BY <1>2, <1>4, Zenon

\* Of two zones that a name is in, the one with fewer labels is the one of the
\* shorter string.
LEMMA LengthsSame ==
  ASSUME NEW n \in Seq(STRING), NEW y \in Apexes, NEW z \in Apexes, ZoneOf(y, n), ZoneOf(z, n)
  PROVE  Len(z) <= Len(y) <=> Chars[z] <= Chars[y]
<1>1. /\ y \in Seq(STRING) /\ z \in Seq(STRING) /\ Len(y) \in Nat /\ Len(z) \in Nat
      /\ Chars[y] \in Nat /\ Chars[z] \in Nat
  BY NameAssumption
<1>2. ASSUME NEW a \in Apexes, NEW b \in Apexes, ZoneOf(a, n), ZoneOf(b, n), Len(a) < Len(b)
      PROVE  Chars[a] < Chars[b]
  <2>1. /\ a \in Seq(STRING) /\ b \in Seq(STRING) /\ Len(a) \in Nat /\ Len(b) \in Nat
        /\ Len(n) \in Nat /\ Len(a) <= Len(n) /\ Len(b) <= Len(n)
        /\ a = SubSeq(n, Len(n) - Len(a) + 1, Len(n)) /\ b = SubSeq(n, Len(n) - Len(b) + 1, Len(n))
    BY <1>2, NameAssumption DEF ZoneOf
  <2> DEFINE d == Len(b) - Len(a)
             e == Len(n) - Len(b)
             c == SubSeq(b, d + 1, Len(b))
  <2>2. d \in Nat /\ e \in Nat /\ d + e \in Nat /\ d + e = Len(n) - Len(a) /\ e = Len(n) - Len(b)
    BY <1>2, <2>1
  <2>3. c \in Seq(STRING) /\ Len(c) = Len(a)
    BY <1>2, <2>1
  <2>4. ASSUME NEW i \in 1 .. Len(a) PROVE c[i] = a[i]
    <3>1. i \in Nat /\ 1 <= i /\ i <= Len(a) /\ d + i \in Nat /\ 1 <= d + i /\ d + i <= Len(b)
      BY <2>1, <2>2, <2>4
    <3>2. c[i] = b[d + i]
      BY <2>1, <3>1
    <3> HIDE DEF c, d, e
    <3>3. b[d + i] = n[e + (d + i)]
      <4>1. ZoneOf(b, n) /\ b \in Seq(STRING) /\ e \in Nat /\ e = Len(n) - Len(b)
        BY <1>2, <2>1, <2>2, Zenon
      <4> QED  BY <3>1, <4>1, SuffixLabels, SMT
    <3>4. a[i] = n[(d + e) + i]
      <4>1. PICK f \in Nat : f = d + e
        BY <2>2, Zenon
      <4>2. ZoneOf(a, n) /\ a \in Seq(STRING) /\ f = Len(n) - Len(a)
        BY <1>2, <2>1, <2>2, <4>1, Zenon
      <4>3. a[i] = n[f + i]
        <5>1. i \in Nat /\ 1 <= i /\ i <= Len(a)
          BY <3>1, Zenon
        <5> QED  BY <4>2, <5>1, SuffixLabels, Zenon
      <4> QED  BY <4>1, <4>3, Zenon
    <3>5. e + (d + i) = (d + e) + i
      BY <2>2, <3>1
    <3> QED  BY <3>2, <3>3, <3>4, <3>5, Zenon
  <2>5. c = a
    <3> HIDE DEF c
    <3>1. a \in Seq(STRING) /\ \A i \in 1 .. Len(a) : c[i] = a[i]
      BY <2>1, <2>4, Zenon
    <3> QED  BY <2>3, <3>1
  <2>6. ZoneOf(a, b) /\ a # b
    BY <1>2, <2>1, <2>5 DEF ZoneOf
  <2> QED  BY <2>6, NameAssumption, Zenon
<1>3. CASE Len(y) = Len(z)
  <2>1. y = z
    BY <1>1, <1>3, SuffixSame, Zenon
  <2> QED  BY <1>1, <2>1
<1> QED  BY <1>1, <1>2, <1>3

\* While every zone is enabled, an update goes to the zone that answers.
LEMMA ZonesAgree ==
  ASSUME NEW n \in Seq(STRING), store.zones = {a \in Apexes : Exists(a)}
  PROVE  ZoneFor(store, n) = DynZone(n)
<1>1. {a \in store.zones : ZoneOf(a, n)} = {a \in Apexes : Exists(a) /\ EndsWith(n, a)}
  BY MatchesSame, Zenon
<1>2. \A a, b \in {c \in store.zones : ZoneOf(c, n)} : Len(a) <= Len(b) <=> Chars[a] <= Chars[b]
  BY LengthsSame, Zenon
<1> QED  BY <1>1, <1>2, Zenon DEF ZoneFor, DynZone

\* resolve: rows of the type, of the view or of all views, and of all views
\* only if the view has none.
LEMMA ResolveFacts ==
  ASSUME NEW rs, NEW v, NEW t, NEW r \in Resolve(rs, v, t)
  PROVE  /\ r \in rs /\ r.type = t /\ r.view \in {{}, v}
         /\ r.view = {} /\ v # {} => ~\E o \in rs : o.type = t /\ o.view = v
  BY Zenon DEF Resolve

\* An ANY query sees the rows a query for their type would see.
LEMMA VisibleFacts ==
  ASSUME NEW rs, NEW v, NEW r
  PROVE  r \in Visible(rs, v) <=> r \in Resolve(rs, v, r.type)
<1>1. r \in Visible(rs, v) <=> \E t \in TypesOf(rs) : r \in Resolve(rs, v, t)
  BY Zenon DEF Visible
<1>2. r \in Resolve(rs, v, r.type) => r.type \in TypesOf(rs)
  BY ResolveFacts, Zenon DEF TypesOf
<1> QED  BY <1>1, <1>2, ResolveFacts

\* records_at returns all the rows of one owner.
LEMMA RecordsAtFacts ==
  ASSUME NEW s, NEW z, NEW n, NEW r \in RecordsAt(s, z, n)
  PROVE  /\ r \in s.rows /\ r.zone = z
         /\ RecordsAt(s, z, n) = At(s, z, r.name)
<1> DEFINE levels == {i \in 2 .. Len(n) : At(s, z, Wild(n, i)) # {}}
           nearest == {j \in levels : \A k \in levels : j <= k}
<1>1. CASE At(s, z, n) # {}
  BY <1>1, Zenon DEF RecordsAt, At
<1>2. CASE At(s, z, n) = {}
  <2>1. RecordsAt(s, z, n) = UNION {At(s, z, Wild(n, i)) : i \in nearest}
    BY <1>2, Zenon DEF RecordsAt
  <2>2. PICK i \in nearest : r \in At(s, z, Wild(n, i))
    BY <2>1, Zenon
  <2>3. \A j \in nearest : j = i
    BY SMT
  <2>4. RecordsAt(s, z, n) = At(s, z, Wild(n, i))
    BY <2>1, <2>3, Zenon
  <2> QED  BY <2>2, <2>4, Zenon DEF At
<1> QED  BY <1>1, <1>2

\* lookup up to the CNAMEs: what it returns it has resolved at the name, and
\* only an authoritative outcome, or CNAMEs to follow, come with rows.
LEMMA FirstAnswerFacts ==
  ASSUME NEW s, NEW z, NEW v, NEW n, NEW t, NEW a, a = FirstAnswer(s, z, v, n, t)
  PROVE  /\ \A r \in a.rows : r \in Resolve(RecordsAt(s, z, n), v, r.type)
         /\ a.outcome \in {"Authoritative", "NoData", "NxDomain", "chase"}
         /\ a.rows # {} => a.outcome \in {"Authoritative", "chase"}
         /\ a.outcome = "chase" => a.rows # {} /\ \A r \in a.rows : r.type = "CNAME"
<1> DEFINE recs == RecordsAt(s, z, n)
           cnames == Resolve(recs, v, "CNAME")
<1>1. \/ \E kind \in {"Authoritative", "NoData", "NxDomain"} :
            a = [outcome |-> kind, rows |-> {}]
      \/ a = [outcome |-> AnyOutcome(recs, v), rows |-> Visible(recs, v)]
      \/ a = [outcome |-> "Authoritative", rows |-> Resolve(recs, v, t)]
      \/ cnames # {} /\ a = [outcome |-> "chase", rows |-> cnames]
  BY Zenon DEF FirstAnswer
<1>2. CASE \E kind \in {"Authoritative", "NoData", "NxDomain"} :
             a = [outcome |-> kind, rows |-> {}]
  BY <1>2
<1>3. CASE a = [outcome |-> AnyOutcome(recs, v), rows |-> Visible(recs, v)]
  <2>1. a.rows = Visible(recs, v) /\ a.outcome = AnyOutcome(recs, v)
    BY <1>3
  <2>2. a.outcome \in {"Authoritative", "NoData"} /\ (a.rows # {} => a.outcome = "Authoritative")
    BY <2>1, Zenon DEF AnyOutcome
  <2>3. a.outcome # "chase"
    BY <2>2
  <2> QED  BY <2>1, <2>2, <2>3, VisibleFacts, Zenon
<1>4. CASE a = [outcome |-> "Authoritative", rows |-> Resolve(recs, v, t)]
  <2>1. a.rows = Resolve(recs, v, t) /\ a.outcome = "Authoritative" /\ a.outcome # "chase"
    BY <1>4
  <2>2. \A r \in a.rows : r \in Resolve(recs, v, r.type)
    BY <2>1, ResolveFacts
  <2> QED  BY <2>1, <2>2, Zenon
<1>5. CASE cnames # {} /\ a = [outcome |-> "chase", rows |-> cnames]
  <2>1. a.rows = cnames /\ a.outcome = "chase"
    BY <1>5
  <2>2. \A r \in a.rows : r.type = "CNAME" /\ r \in Resolve(recs, v, r.type)
    BY <2>1, ResolveFacts
  <2> QED  BY <1>5, <2>1, <2>2, Zenon
<1> QED  BY <1>1, <1>2, <1>3, <1>4, <1>5, Zenon

\* What split horizon asks of a row told to the query q.
RowOK(q, r) ==
  /\ {r.zone} = ZoneFor(store, q.name)
  /\ r.enabled /\ TRUE \in tables.zones[r.zone]
  /\ r.view \in {{}, q.view}
  /\ r.view = {} /\ q.view # {} =>
       ~\E o \in store.rows : /\ o.zone = r.zone /\ o.name = r.name
                              /\ o.type = r.type /\ o.view = q.view

\* It holds of whatever is resolved in the zone of the name asked for, at any
\* name and for any type.
LEMMA ResolvedRow ==
  ASSUME StoreInv, NEW q, NEW z \in ZoneFor(store, q.name), NEW n, NEW t,
         NEW r \in Resolve(RecordsAt(store, z, n), q.view, t)
  PROVE  RowOK(q, r) /\ r \in store.rows /\ r.type = t
<1> DEFINE recs == RecordsAt(store, z, n)
<1>1. /\ r \in recs /\ r.type = t /\ r.view \in {{}, q.view}
      /\ r.view = {} /\ q.view # {} => ~\E o \in recs : o.type = t /\ o.view = q.view
  BY ResolveFacts
<1>2. r \in store.rows /\ r.zone = z /\ recs = At(store, z, r.name)
  BY <1>1, RecordsAtFacts
<1>3. store.zones \in SUBSET Apexes /\ r.enabled /\ TRUE \in tables.zones[r.zone]
  <2>1. /\ store.zones = Enabled(tables)
        /\ store.rows = {x \in tables.rows : x.enabled /\ x.zone \in Enabled(tables)}
    BY Zenon DEF StoreInv, Build
  <2> QED  BY <1>2, <2>1, Zenon DEF Enabled
<1>4. {r.zone} = ZoneFor(store, q.name)
  BY <1>2, <1>3, ZoneForOne
<1>5. \A o \in store.rows : o.zone = r.zone /\ o.name = r.name => o \in recs
  BY <1>2, Zenon DEF At
<1> QED  BY <1>1, <1>2, <1>3, <1>4, <1>5, Zenon DEF RowOK

-----------------------------------------------------------------------------
(* The lookup. *)

\* While the tables and the store stay, split horizon is a matter of each row
\* of the answer.
LEMMA RowsSplit ==
  ASSUME tables' = tables, store' = store,
         \A q \in query' : \A i \in DOMAIN answers' : \A r \in answers'[i].rows : RowOK(q, r)
  PROVE  SplitHorizon'
<1>1. ASSUME NEW q \in query', NEW i \in DOMAIN answers', NEW r \in answers'[i].rows
      PROVE  /\ {r.zone} = ZoneFor(store', q.name)
             /\ r.enabled /\ TRUE \in tables'.zones[r.zone]
             /\ r.view \in {{}, q.view}
             /\ r.view = {} /\ q.view # {} =>
                  ~\E o \in store'.rows : /\ o.zone = r.zone /\ o.name = r.name
                                          /\ o.type = r.type /\ o.view = q.view
  <2>1. RowOK(q, r)
    BY <1>1, Zenon
  <2> QED  BY <2>1, Zenon DEF RowOK
<1>2. \A n : ZoneFor(store, n)' = ZoneFor(store', n)
  BY Zenon DEF ZoneFor
<1> QED  BY <1>1, <1>2, Zenon DEF SplitHorizon, ZoneFor

\* A step that touches neither the tables nor the store, and makes no DynDNS
\* update.
LEMMA StoreFrame ==
  ASSUME StoreInv, DynInv, tables' = tables, store' = store, last'.dyn \in {last.dyn, {}}
  PROVE  StoreInv' /\ DynInv' /\ Link' = Link
<1>1. StoreInv'
  BY Zenon DEF StoreInv, Build, Enabled
<1>2. DynInv'
  BY Zenon DEF DynInv, DynZone, Exists
<1> QED  BY <1>1, <1>2, Zenon DEF Link

\* The first answer is one link, at the name asked for, or none.
LEMMA AskInv ==
  ASSUME ZonesInv, NEW c \in Clients, NEW n \in Names, NEW t \in Types \cup {"ANY"}, Ask(c, n, t)
  PROVE  ZonesInv'
<1> DEFINE v == ViewFor(store, c)
           q == [name |-> n, type |-> t, view |-> v]
<1>1. /\ pc = "idle" /\ last' = last /\ tables' = tables /\ store' = store /\ query' = {q}
  BY Zenon DEF Ask
<1>2. StoreInv' /\ DynInv' /\ Link' = Link
  BY <1>1, StoreFrame, Zenon DEF ZonesInv
<1>3. q.name = n /\ q.type = t /\ q.view = v
  BY Zenon
<1>4. CASE pc' = "done" /\ outcome' = {"NotAuthoritative"} /\ answers' = <<>>
  <2>1. answers' \in Seq(Link) /\ Len(answers') = 0 /\ DOMAIN answers' = {}
    BY <1>4
  <2>2. pc' \notin {"idle", "chase"} /\ pc' \in {"idle", "chase", "done"}
    BY <1>4
  <2>3. LookupInv'
    BY <1>1, <1>2, <2>1, <2>2, Zenon DEF LookupInv
  <2>4. SplitHorizon'
    BY <2>1, Zenon DEF SplitHorizon
  <2>5. AnswerChain'
    BY <1>4, <2>1, RowAssumption DEF AnswerChain
  <2> QED  BY <1>2, <2>3, <2>4, <2>5, Zenon DEF ZonesInv
<1>5. ASSUME NEW z \in ZoneFor(store, n), NEW a, a = FirstAnswer(store, z, v, n, t),
             answers' = IF a.rows = {} THEN <<>> ELSE <<[owner |-> n, rows |-> a.rows]>>,
             pc' = IF a.outcome = "chase" THEN "chase" ELSE "done",
             outcome' = IF a.outcome = "chase" THEN {"Authoritative"} ELSE {a.outcome}
      PROVE  ZonesInv'
  <2>1. /\ \A r \in a.rows : r \in Resolve(RecordsAt(store, z, n), v, r.type)
        /\ a.outcome \in {"Authoritative", "NoData", "NxDomain", "chase"}
        /\ a.rows # {} => a.outcome \in {"Authoritative", "chase"}
        /\ a.outcome = "chase" => a.rows # {} /\ \A r \in a.rows : r.type = "CNAME"
    BY <1>5, FirstAnswerFacts
  <2>2. \A r \in a.rows : RowOK(q, r) /\ r \in store.rows
    BY <1>3, <1>5, <2>1, ResolvedRow DEF ZonesInv
  <2>3. /\ pc' \in {"idle", "chase", "done"} /\ pc' # "idle"
        /\ pc' = "chase" <=> a.outcome = "chase"
        /\ outcome' \subseteq {"Authoritative", "NoData", "NxDomain"}
        /\ a.rows # {} => outcome' = {"Authoritative"}
    BY <1>5, <2>1
  <2>4. CASE a.rows = {}
    <3>1. answers' = <<>> /\ answers' \in Seq(Link) /\ Len(answers') = 0 /\ DOMAIN answers' = {}
      BY <1>5, <2>4
    <3>2. LookupInv'
      BY <1>1, <1>2, <2>1, <2>3, <2>4, <3>1, Zenon DEF LookupInv
    <3>3. SplitHorizon'
      BY <3>1, Zenon DEF SplitHorizon
    <3>4. AnswerChain'
      BY <2>3, <3>1, RowAssumption DEF AnswerChain
    <3> QED  BY <1>2, <3>2, <3>3, <3>4, Zenon DEF ZonesInv
  <2>5. CASE a.rows # {}
    <3> DEFINE link == [owner |-> n, rows |-> a.rows]
    <3>1. link \in Link /\ link.owner = n /\ link.rows = a.rows
      BY <2>2 DEF Link
    <3> HIDE DEF link
    <3>2. /\ answers' = <<link>> /\ answers' \in Seq(Link) /\ Len(answers') = 1
          /\ answers'[1] = link /\ DOMAIN answers' = {1} /\ answers' # <<>>
      <4>1. answers' = <<link>>
        BY <1>5, <2>5, Zenon DEF link
      <4> QED  BY <3>1, <4>1
    <3>3. LookupInv'
      BY <1>1, <1>2, <2>1, <2>3, <3>1, <3>2, Zenon DEF LookupInv, LastLink
    <3>4. SplitHorizon'
      <4>1. \A p \in query' : \A i \in DOMAIN answers' : \A r \in answers'[i].rows : RowOK(p, r)
        BY <1>1, <2>2, <3>1, <3>2
      <4> QED  BY <1>1, <4>1, RowsSplit, Zenon
    <3>5. AnswerChain'
      BY <1>1, <1>3, <2>3, <2>5, <3>1, <3>2, RowAssumption DEF AnswerChain
    <3> QED  BY <1>2, <3>3, <3>4, <3>5, Zenon DEF ZonesInv
  <2> QED  BY <2>4, <2>5
<1> QED  BY <1>4, <1>5, Zenon DEF Ask

\* One round of the loop over CNAMEs adds a link that the last one points to,
\* or ends it.
LEMMA ChaseInv ==
  ASSUME ZonesInv, Chase
  PROVE  ZonesInv'
<1>1. /\ pc = "chase" /\ tables' = tables /\ store' = store /\ query' = query
      /\ outcome' = outcome /\ last' = last
  BY Zenon DEF Chase
<1>2. PICK q \in query : \E z \in ZoneFor(store, q.name) : \E cname \in LastLink.rows :
        LET target == cname.data
            trecs  == RecordsAt(store, z, target)
            direct == Resolve(trecs, q.view, q.type)
            nextc  == Resolve(trecs, q.view, "CNAME")
            stop   == pc' = "done" /\ UNCHANGED answers
        IN  IF TooDeep(Len(answers)) \/ ~ZoneOf(z, target) \/ trecs = {} THEN stop
            ELSE IF direct # {} THEN Follow(target, direct) /\ pc' = "done"
            ELSE IF nextc = {} THEN stop
            ELSE Follow(target, nextc) /\ UNCHANGED pc
  BY Zenon DEF Chase
<1>3. PICK z \in ZoneFor(store, q.name), cname \in LastLink.rows :
        \/ pc' = "done" /\ answers' = answers
        \/ \E t \in {q.type, "CNAME"} :
             /\ ~TooDeep(Len(answers))
             /\ Follow(cname.data, Resolve(RecordsAt(store, z, cname.data), q.view, t))
             /\ \/ pc' = "done"
                \/ /\ pc' = "chase" /\ t = "CNAME"
  BY <1>1, <1>2, Zenon
<1>4. StoreInv' /\ DynInv' /\ Link' = Link
  BY <1>1, StoreFrame, Zenon DEF ZonesInv
<1>5. /\ \A p \in query : p = q
      /\ answers \in Seq(Link) /\ answers # <<>> /\ \A r \in LastLink.rows : r.type = "CNAME"
  BY <1>1, Zenon DEF ZonesInv, LookupInv
<1>6. /\ outcome = {"Authoritative"} /\ Len(answers) <= MaxDepth + 1
      /\ answers[1].owner = q.name
      /\ \A i \in 2 .. Len(answers) :
           \E r \in answers[i - 1].rows : r.type = "CNAME" /\ r.data = answers[i].owner
  BY <1>5, Zenon DEF ZonesInv, AnswerChain
<1>7. \A i \in DOMAIN answers : \A r \in answers[i].rows : RowOK(q, r)
  BY Zenon DEF ZonesInv, SplitHorizon, RowOK
<1>8. CASE pc' = "done" /\ answers' = answers
  <2>1. pc' \notin {"idle", "chase"} /\ pc' \in {"idle", "chase", "done"}
    BY <1>8
  <2>2. LookupInv'
    BY <1>1, <1>4, <1>5, <1>8, <2>1, Zenon DEF LookupInv
  <2>3. SplitHorizon'
    BY <1>1, <1>5, <1>7, <1>8, RowsSplit, Zenon
  <2>4. AnswerChain'
    BY <1>1, <1>5, <1>6, <1>8 DEF AnswerChain, LastLink
  <2> QED  BY <1>4, <2>2, <2>3, <2>4, Zenon DEF ZonesInv
<1>9. ASSUME NEW t \in {q.type, "CNAME"}, ~TooDeep(Len(answers)),
             Follow(cname.data, Resolve(RecordsAt(store, z, cname.data), q.view, t)),
             pc' = "done" \/ (pc' = "chase" /\ t = "CNAME")
      PROVE  ZonesInv'
  <2> DEFINE rs == Resolve(RecordsAt(store, z, cname.data), q.view, t)
             link == [owner |-> cname.data, rows |-> rs]
             n == Len(answers)
  <2>1. ASSUME NEW r \in rs
        PROVE  RowOK(q, r) /\ r \in store.rows /\ r.type = t
    <3>1. \A m, u : \A x \in Resolve(RecordsAt(store, z, m), q.view, u) :
            RowOK(q, x) /\ x \in store.rows /\ x.type = u
      BY ResolvedRow, Zenon DEF ZonesInv
    <3> QED  BY <2>1, <3>1, Zenon
  <2>2. LastLink \in Link /\ n \in Nat /\ n >= 1
    BY <1>5 DEF LastLink
  <2>3. link \in Link /\ link.owner = cname.data /\ link.rows = rs
    <3>1. cname \in store.rows
      BY <2>2, Zenon DEF Link
    <3> QED  BY <2>1, <3>1, Zenon DEF Link
  <2> HIDE DEF link
  <2>4. answers' = Append(answers, link)
    BY <1>9, Zenon DEF Follow, link
  <2>5. /\ answers' \in Seq(Link) /\ Len(answers') = n + 1 /\ answers' # <<>>
        /\ answers'[n + 1] = link
        /\ \A i \in 1 .. n : answers'[i] = answers[i]
        /\ DOMAIN answers' = 1 .. (n + 1) /\ DOMAIN answers = 1 .. n
    BY <1>5, <2>2, <2>3, <2>4
  <2>6. LastLink' = link
    BY <2>5, Zenon DEF LastLink
  <2>7. LookupInv'
    <3>1. pc' \in {"idle", "chase", "done"} /\ pc' # "idle" /\ (pc' = "chase" => t = "CNAME")
      BY <1>9
    <3> QED  BY <1>1, <1>4, <1>5, <2>1, <2>3, <2>5, <2>6, <3>1, Zenon DEF LookupInv
  <2>8. SplitHorizon'
    <3>1. ASSUME NEW i \in DOMAIN answers', NEW r \in answers'[i].rows
          PROVE  RowOK(q, r)
      <4>1. CASE i = n + 1
        BY <2>1, <2>3, <2>5, <3>1, <4>1, Zenon
      <4>2. CASE i \in 1 .. n
        BY <1>7, <2>5, <3>1, <4>2, Zenon
      <4>3. i = n + 1 \/ i \in 1 .. n
        BY <2>2, <2>5, <3>1
      <4> QED  BY <4>1, <4>2, <4>3
    <3> QED  BY <1>1, <1>5, <3>1, RowsSplit, Zenon
  <2>9. AnswerChain'
    <3>1. Len(answers') <= MaxDepth + 1
      BY <1>9, <2>2, <2>5, RowAssumption DEF TooDeep
    <3>2. answers'[1].owner = q.name
      BY <1>6, <2>2, <2>5
    <3>3. ASSUME NEW i \in 2 .. Len(answers')
          PROVE  \E r \in answers'[i - 1].rows : r.type = "CNAME" /\ r.data = answers'[i].owner
      <4>1. CASE i = n + 1
        <5>1. answers'[i - 1] = LastLink /\ answers'[i] = link
          BY <2>2, <2>5, <4>1 DEF LastLink
        <5> QED  BY <1>5, <2>3, <5>1, Zenon
      <4>2. CASE i # n + 1
        <5>1. i \in 2 .. n /\ answers'[i - 1] = answers[i - 1] /\ answers'[i] = answers[i]
          BY <2>2, <2>5, <3>3, <4>2
        <5> QED  BY <1>6, <5>1, Zenon
      <4> QED  BY <4>1, <4>2
    <3>4. \A r \in LastLink'.rows : r.type \in {q.type, "CNAME"}
      BY <1>9, <2>1, <2>3, <2>6, Zenon
    <3>5. outcome' \subseteq {"Authoritative", "NoData", "NxDomain", "NotAuthoritative"}
      BY <1>1, <1>6, Zenon
    <3> QED  BY <1>1, <1>5, <1>6, <3>1, <3>2, <3>3, <3>4, <3>5, Zenon DEF AnswerChain
  <2> QED  BY <1>4, <2>7, <2>8, <2>9, Zenon DEF ZonesInv
<1> QED  BY <1>3, <1>8, <1>9, Zenon

\* A lookup that returns is forgotten.
LEMMA ReturnInv ==
  ASSUME ZonesInv, Return
  PROVE  ZonesInv'
<1>1. /\ pc' = "idle" /\ query' = {} /\ answers' = <<>> /\ outcome' = {}
      /\ tables' = tables /\ store' = store /\ last' = last
  BY Zenon DEF Return
<1>2. StoreInv' /\ DynInv'
  BY <1>1, StoreFrame, Zenon DEF ZonesInv
<1>3. LookupInv'
  <2>1. <<>> \in Seq(Link') /\ "idle" # "chase"
    OBVIOUS
  <2> QED  BY <1>1, <2>1, Zenon DEF LookupInv
<1>4. SplitHorizon' /\ AnswerChain'
  BY <1>1, Zenon DEF SplitHorizon, AnswerChain
<1> QED  BY <1>2, <1>3, <1>4, Zenon DEF ZonesInv

\* What neither edits nor looks up, Settle among it.
LEMMA QuietInv ==
  ASSUME ZonesInv, tables' = tables, store' = store, UNCHANGED lookupVars,
         last'.dyn \in {last.dyn, {}}
  PROVE  ZonesInv'
<1>1. tables' = tables /\ store' = store /\ UNCHANGED lookupVars
  BY Zenon
<1>2. StoreInv' /\ DynInv' /\ Link' = Link
  BY <1>1, StoreFrame, Zenon DEF ZonesInv
<1>3. LookupInv'
  BY <1>1, <1>2, Zenon DEF ZonesInv, LookupInv, LastLink, lookupVars
<1>4. SplitHorizon'
  <2>1. \A q \in query' : \A i \in DOMAIN answers' : \A r \in answers'[i].rows : RowOK(q, r)
    <3>1. query' = query /\ answers' = answers
      BY <1>1, Zenon DEF lookupVars
    <3>2. \A q \in query : \A i \in DOMAIN answers : \A r \in answers[i].rows : RowOK(q, r)
      BY Zenon DEF ZonesInv, SplitHorizon, RowOK
    <3> QED  BY <3>1, <3>2, Zenon
  <2> QED  BY <1>1, <2>1, RowsSplit, Zenon
<1>5. AnswerChain'
  BY <1>1, Zenon DEF ZonesInv, AnswerChain, LastLink, lookupVars
<1> QED  BY <1>2, <1>3, <1>4, <1>5, Zenon DEF ZonesInv

-----------------------------------------------------------------------------
(* The edits. *)

\* What a step does to the serials.
SerialStep ==
  \A z \in Apexes :
    LET served(t) == {r \in t.rows : r.zone = z /\ r.enabled}
    IN  (tables.zones[z] # {} /\ tables'.zones[z] # {} /\ ~last'.gone /\
         (served(tables) # served(tables') \/ tables.zones[z] # tables'.zones[z]))
        => z \in last'.bumped

\* What an edit saves: zones it does not bump it leaves alone, or makes or
\* deletes, and a DynDNS update leaves its record in the zone it chose.
EditOK(t, Z, gone, dyn) ==
  /\ t.zones \in [Apexes -> SUBSET BOOLEAN]
  /\ gone \/ \A z \in Apexes \ Z :
       /\ t.zones[z] = tables.zones[z] \/ t.zones[z] = {} \/ tables.zones[z] = {}
       /\ t.zones[z] # {} => {r \in t.rows : r.zone = z} = {r \in tables.rows : r.zone = z}
  /\ dyn # {} => t.zones = tables.zones
  /\ \A u \in dyn :
       /\ u.name \in Seq(STRING)
       /\ \E z \in DynZone(u.name) : \E r \in t.rows :
            /\ r.zone = z /\ r.name = u.name /\ r.type = "A"
            /\ r.view = u.view /\ r.data = u.data

\* Nothing is looked up while the tables are edited.
LEMMA SaveInv ==
  ASSUME ZonesInv, pc = "idle", NEW t, NEW Z, NEW gone, NEW dyn, Save(t, Z, gone, dyn),
         EditOK(t, Z, gone, dyn)
  PROVE  ZonesInv' /\ SerialStep
<1>1. /\ tables' = t /\ store' = Build(t) /\ UNCHANGED lookupVars
      /\ last' = [bumped |-> Z, gone |-> gone, dyn |-> dyn]
  BY Zenon DEF Save
<1>2. last'.bumped = Z /\ last'.gone = gone /\ last'.dyn = dyn
  BY <1>1
<1>3. pc' = "idle" /\ query' = {} /\ answers' = <<>>
  BY <1>1, Zenon DEF ZonesInv, LookupInv, lookupVars
<1>4. StoreInv'
  BY <1>1, Zenon DEF StoreInv, Build, Enabled, EditOK
<1>5. LookupInv'
  <2>1. <<>> \in Seq(Link') /\ "idle" # "chase"
    OBVIOUS
  <2> QED  BY <1>3, <2>1, Zenon DEF LookupInv
<1>6. SplitHorizon' /\ AnswerChain'
  BY <1>3, Zenon DEF SplitHorizon, AnswerChain
<1>7. DynInv'
  <2>1. ASSUME NEW u \in dyn
        PROVE  DynZone(u.name)' = DynZone(u.name)
    <3>1. t.zones = tables.zones
      BY <2>1, Zenon DEF EditOK
    <3>2. tables'.zones = tables.zones
      BY <1>1, <3>1, Zenon
    <3> QED  BY <3>2, Zenon DEF DynZone, Exists
  <2>2. ASSUME NEW u \in dyn
        PROVE  /\ u.name \in Seq(STRING)
               /\ \E z \in DynZone(u.name)' : \E r \in tables'.rows :
                    /\ r.zone = z /\ r.name = u.name /\ r.type = "A"
                    /\ r.view = u.view /\ r.data = u.data
    <3>1. tables'.rows = t.rows
      BY <1>1, Zenon
    <3>2. /\ u.name \in Seq(STRING)
          /\ \E z \in DynZone(u.name) : \E r \in t.rows :
               /\ r.zone = z /\ r.name = u.name /\ r.type = "A"
               /\ r.view = u.view /\ r.data = u.data
      BY <2>2, Zenon DEF EditOK
    <3> QED  BY <2>1, <2>2, <3>1, <3>2, Zenon
  <2> QED  BY <1>2, <2>2, Zenon DEF DynInv
<1>8. SerialStep
  <2> SUFFICES ASSUME NEW z \in Apexes, z \notin Z, ~gone, tables.zones[z] # {}, t.zones[z] # {}
               PROVE  /\ {r \in tables.rows : r.zone = z /\ r.enabled}
                           = {r \in t.rows : r.zone = z /\ r.enabled}
                      /\ tables.zones[z] = t.zones[z]
    BY <1>1, <1>2, Zenon DEF SerialStep
  <2>1. /\ {r \in t.rows : r.zone = z} = {r \in tables.rows : r.zone = z}
        /\ t.zones[z] = tables.zones[z]
    BY Zenon DEF EditOK
  <2> QED  BY <2>1, Zenon
<1> QED  BY <1>4, <1>5, <1>6, <1>7, <1>8, Zenon DEF ZonesInv

\* The handlers that change rows of one zone, r.zone, and bump its serial.
LEMMA RowsOK ==
  ASSUME StoreInv, NEW rs, NEW y,
         \A r : r \in rs /\ r \notin tables.rows => r.zone = y,
         \A r \in tables.rows \ rs : r.zone = y
  PROVE  EditOK(WithRows(rs), {y}, FALSE, {})
<1>1. WithRows(rs).zones = tables.zones /\ WithRows(rs).rows = rs
  BY Zenon DEF WithRows
<1>2. \A z \in Apexes \ {y} : {r \in rs : r.zone = z} = {r \in tables.rows : r.zone = z}
  BY Zenon
<1> QED  BY <1>1, <1>2, Zenon DEF EditOK, StoreInv

\* The edits of single records, and the import of a zone file.
LEMMA RecordEdits ==
  ASSUME ZonesInv, pc = "idle",
         \/ \E r \in Rows : CreateRecord(r)
         \/ \E r \in tables.rows : DeleteRecord(r)
         \/ \E r \in tables.rows, s \in Rows : UpdateRecord(r, s)
         \/ \E r \in Rows, replace \in BOOLEAN : ImportZone(r, replace)
  PROVE  ZonesInv' /\ SerialStep
<1>0. StoreInv
  BY Zenon DEF ZonesInv
<1>1. ASSUME NEW r \in Rows, CreateRecord(r)
      PROVE  ZonesInv' /\ SerialStep
  <2>1. Save(WithRows(InsertRow(tables.rows, r)), {r.zone}, FALSE, {})
    BY <1>1, Zenon DEF CreateRecord
  <2>2. EditOK(WithRows(InsertRow(tables.rows, r)), {r.zone}, FALSE, {})
    BY <1>0, RowsOK, Zenon DEF InsertRow
  <2> QED  BY <2>1, <2>2, SaveInv, Zenon
<1>2. ASSUME NEW r \in tables.rows, DeleteRecord(r)
      PROVE  ZonesInv' /\ SerialStep
  <2>1. Save(WithRows(tables.rows \ {r}), {r.zone}, FALSE, {})
    BY <1>2, Zenon DEF DeleteRecord
  <2>2. EditOK(WithRows(tables.rows \ {r}), {r.zone}, FALSE, {})
    BY <1>0, RowsOK, Zenon
  <2> QED  BY <2>1, <2>2, SaveInv, Zenon
<1>3. ASSUME NEW r \in tables.rows, NEW s \in Rows, UpdateRecord(r, s)
      PROVE  ZonesInv' /\ SerialStep
  <2>1. Save(WithRows(ReplaceRow(tables.rows, r, s)), {r.zone}, FALSE, {}) /\ s.zone = r.zone
    BY <1>3, Zenon DEF UpdateRecord
  <2>2. EditOK(WithRows(ReplaceRow(tables.rows, r, s)), {r.zone}, FALSE, {})
    BY <1>0, <2>1, RowsOK, Zenon DEF ReplaceRow
  <2> QED  BY <2>1, <2>2, SaveInv, Zenon
<1>4. ASSUME NEW r \in Rows, NEW replace \in BOOLEAN, ImportZone(r, replace)
      PROVE  ZonesInv' /\ SerialStep
  <2> DEFINE rs == ImportRows(tables.rows, r.zone, Parsed(r), replace)
  <2>1. Save(WithRows(rs), {r.zone}, FALSE, {})
    BY <1>4, Zenon DEF ImportZone
  <2>2. /\ \A x : x \in rs /\ x \notin tables.rows => x.zone = r.zone
        /\ \A x \in tables.rows \ rs : x.zone = r.zone
    BY Zenon DEF ImportRows, Parsed
  <2> HIDE DEF rs
  <2>3. EditOK(WithRows(rs), {r.zone}, FALSE, {})
    BY <1>0, <2>2, RowsOK, Zenon
  <2> QED  BY <2>1, <2>3, SaveInv, Zenon
<1> QED  BY <1>1, <1>2, <1>3, <1>4

\* The handlers that change views or the flag of one zone.
LEMMA ZoneEdits ==
  ASSUME ZonesInv, pc = "idle",
         \/ \E v \in ViewSet : CreateView(v) \/ DeleteView(v)
         \/ \E z \in Apexes : CreateZone(z) \/ DeleteZone(z) \/ \E e \in BOOLEAN : UpdateZone(z, e)
  PROVE  ZonesInv' /\ SerialStep
<1>0. tables.zones \in [Apexes -> SUBSET BOOLEAN]
  BY Zenon DEF ZonesInv, StoreInv
<1>1. ASSUME NEW v, CreateView(v) \/ DeleteView(v)
      PROVE  ZonesInv' /\ SerialStep
  <2>1. \A vs, rs : WithView(vs, rs).zones = tables.zones /\ WithView(vs, rs).rows = rs
    BY Zenon DEF WithView
  <2>2. CASE CreateView(v)
    <3> DEFINE t == WithView(tables.views \cup {v}, tables.rows)
    <3>1. Save(t, {}, FALSE, {})
      BY <2>2, Zenon DEF CreateView
    <3>2. EditOK(t, {}, FALSE, {})
      BY <1>0, <2>1, Zenon DEF EditOK
    <3> QED  BY <3>1, <3>2, SaveInv, Zenon
  <2>3. CASE DeleteView(v)
    <3> DEFINE t == WithView(tables.views \ {v}, {r \in tables.rows : r.view # {v}})
    <3>1. Save(t, {}, TRUE, {})
      BY <2>3, Zenon DEF DeleteView
    <3>2. EditOK(t, {}, TRUE, {})
      BY <1>0, <2>1, Zenon DEF EditOK
    <3> QED  BY <3>1, <3>2, SaveInv, Zenon
  <2> QED  BY <1>1, <2>2, <2>3, Zenon
<1>2. ASSUME NEW z \in Apexes, NEW e \in SUBSET BOOLEAN, NEW rs, NEW Z,
             \A y \in Apexes \ {z} : {r \in rs : r.zone = y} = {r \in tables.rows : r.zone = y},
             z \in Z \/ e = {}
      PROVE  EditOK(WithZone(z, e, rs), Z, FALSE, {})
  <2> DEFINE t == WithZone(z, e, rs)
  <2>1. t.zones = [tables.zones EXCEPT ![z] = e] /\ t.rows = rs
    BY Zenon DEF WithZone
  <2>2. /\ t.zones \in [Apexes -> SUBSET BOOLEAN] /\ t.zones[z] = e
        /\ \A y \in Apexes \ {z} : t.zones[y] = tables.zones[y]
    BY <1>0, <2>1
  <2> HIDE DEF t
  <2>3. ASSUME NEW y \in Apexes \ Z
        PROVE  /\ t.zones[y] = tables.zones[y] \/ t.zones[y] = {}
               /\ t.zones[y] # {} => {r \in t.rows : r.zone = y} = {r \in tables.rows : r.zone = y}
    <3>1. CASE y = z
      BY <1>2, <2>2, <2>3, <3>1, Zenon
    <3>2. CASE y # z
      BY <1>2, <2>1, <2>2, <3>2, Zenon
    <3> QED  BY <3>1, <3>2, Zenon
  <2> QED
    <3>1. EditOK(t, Z, FALSE, {})
      BY <2>2, <2>3, Zenon DEF EditOK
    <3> QED  BY <3>1, Zenon DEF t
<1>3. ASSUME NEW z \in Apexes, CreateZone(z)
      PROVE  ZonesInv' /\ SerialStep
  <2> DEFINE rs == InsertRow(tables.rows, ApexNs(z))
             on == {TRUE}
             Z  == {z}
  <2>1. ApexNs(z).zone = z
    BY DEF ApexNs, Row
  <2>2. \A y \in Apexes \ {z} : {r \in rs : r.zone = y} = {r \in tables.rows : r.zone = y}
    BY <2>1, Zenon DEF InsertRow
  <2>3. Save(WithZone(z, on, rs), Z, FALSE, {})
    BY <1>3, Zenon DEF CreateZone
  <2>4. on \in SUBSET BOOLEAN /\ z \in Z
    BY Zenon
  <2> HIDE DEF rs, on, Z
  <2>5. EditOK(WithZone(z, on, rs), Z, FALSE, {})
    BY <1>2, <2>2, <2>4, Zenon
  <2> QED  BY <2>3, <2>5, SaveInv, Zenon
<1>4. ASSUME NEW z \in Apexes, NEW e \in BOOLEAN, UpdateZone(z, e)
      PROVE  ZonesInv' /\ SerialStep
  <2>1. Save(WithZone(z, {e}, tables.rows), {z}, FALSE, {})
    BY <1>4, Zenon DEF UpdateZone
  <2>2. {e} \in SUBSET BOOLEAN /\ z \in {z}
    BY Zenon
  <2>3. EditOK(WithZone(z, {e}, tables.rows), {z}, FALSE, {})
    BY <1>2, <2>2, Zenon
  <2> QED  BY <2>1, <2>3, SaveInv, Zenon
<1>5. ASSUME NEW z \in Apexes, DeleteZone(z)
      PROVE  ZonesInv' /\ SerialStep
  <2> DEFINE rs == {r \in tables.rows : r.zone # z}
  <2>1. Save(WithZone(z, {}, rs), {}, FALSE, {})
    BY <1>5, Zenon DEF DeleteZone
  <2>2. \A y \in Apexes \ {z} : {r \in rs : r.zone = y} = {r \in tables.rows : r.zone = y}
    BY Zenon
  <2>3. {} \in SUBSET BOOLEAN
    BY Zenon
  <2> HIDE DEF rs
  <2>4. EditOK(WithZone(z, {}, rs), {}, FALSE, {})
    BY <1>2, <2>2, <2>3, Zenon
  <2> QED  BY <2>1, <2>4, SaveInv, Zenon
<1> QED  BY <1>1, <1>3, <1>4, <1>5, Zenon

\* A DynDNS update leaves the record it found, changed or made in the table.
LEMMA NicUpdateInv ==
  ASSUME ZonesInv, pc = "idle", NEW u \in DynUpdates, NicUpdate(u)
  PROVE  ZonesInv' /\ SerialStep
<1> DEFINE n == u.name
           v == TokenView(u)
           d == u.data
           upd == [name |-> n, view |-> v, data |-> d]
<1>0. tables.zones \in [Apexes -> SUBSET BOOLEAN] /\ StoreInv
  BY Zenon DEF ZonesInv, StoreInv
<1>1. PICK z \in DynZone(n) :
        LET existing == {r \in tables.rows : r.zone = z /\ r.name = n /\ r.type = "A" /\ r.view = v}
        IN  \/ /\ existing = {}
               /\ Save(WithRows(InsertRow(tables.rows, Row(z, n, "A", v, d, TRUE))), {z}, FALSE, {upd})
            \/ \E r \in existing :
                 IF r.data = d THEN Save(tables, {}, FALSE, {upd})
                 ELSE Save(WithRows(ReplaceRow(tables.rows, r, Row(z, n, "A", v, d, r.enabled))),
                           {z}, FALSE, {upd})
  BY Zenon DEF NicUpdate, DynDnsSetAddress
<1> HIDE DEF v
<1>2. upd.name = n /\ upd.view = v /\ upd.data = d
  BY Zenon
<1>3. \A e : LET r == Row(z, n, "A", v, d, e)
             IN  r.zone = z /\ r.name = n /\ r.type = "A" /\ r.view = v /\ r.data = d
  BY DEF Row
<1>4. ASSUME NEW rs, EditOK(WithRows(rs), {z}, FALSE, {}), NEW e, Row(z, n, "A", v, d, e) \in rs
      PROVE  EditOK(WithRows(rs), {z}, FALSE, {upd})
  <2>1. WithRows(rs).zones = tables.zones /\ WithRows(rs).rows = rs
    BY Zenon DEF WithRows
  <2> HIDE DEF upd
  <2>2. \E r \in WithRows(rs).rows : /\ r.zone = z /\ r.name = upd.name /\ r.type = "A"
                                     /\ r.view = upd.view /\ r.data = upd.data
    BY <1>2, <1>3, <1>4, <2>1, Zenon
  <2>3. \A w \in {upd} :
          /\ w.name \in Seq(STRING)
          /\ \E y \in DynZone(w.name) : \E r \in WithRows(rs).rows :
               /\ r.zone = y /\ r.name = w.name /\ r.type = "A"
               /\ r.view = w.view /\ r.data = w.data
    BY <1>2, <2>2, NameAssumption, Zenon
  <2> QED  BY <1>4, <2>1, <2>3, Zenon DEF EditOK
<1> HIDE DEF upd
<1>5. CASE Save(WithRows(InsertRow(tables.rows, Row(z, n, "A", v, d, TRUE))), {z}, FALSE, {upd})
  <2> DEFINE rs == InsertRow(tables.rows, Row(z, n, "A", v, d, TRUE))
  <2>1. EditOK(WithRows(rs), {z}, FALSE, {})
    BY <1>0, <1>3, RowsOK, Zenon DEF InsertRow
  <2>2. Row(z, n, "A", v, d, TRUE) \in rs
    BY Zenon DEF InsertRow
  <2> HIDE DEF rs
  <2>3. EditOK(WithRows(rs), {z}, FALSE, {upd})
    BY <1>4, <2>1, <2>2, Zenon
  <2> QED  BY <1>5, <2>3, SaveInv, Zenon DEF rs
<1>6. ASSUME NEW r \in tables.rows, r.zone = z, r.name = n, r.type = "A", r.view = v, r.data = d,
             Save(tables, {}, FALSE, {upd})
      PROVE  ZonesInv' /\ SerialStep
  <2>1. EditOK(tables, {}, FALSE, {upd})
    BY <1>0, <1>2, <1>6, NameAssumption, Zenon DEF EditOK
  <2> QED  BY <1>6, <2>1, SaveInv, Zenon
<1>7. ASSUME NEW r \in tables.rows, r.zone = z,
             Save(WithRows(ReplaceRow(tables.rows, r, Row(z, n, "A", v, d, r.enabled))),
                  {z}, FALSE, {upd})
      PROVE  ZonesInv' /\ SerialStep
  <2> DEFINE rs == ReplaceRow(tables.rows, r, Row(z, n, "A", v, d, r.enabled))
  <2>1. EditOK(WithRows(rs), {z}, FALSE, {})
    BY <1>0, <1>3, <1>7, RowsOK, Zenon DEF ReplaceRow
  <2>2. Row(z, n, "A", v, d, r.enabled) \in rs
    BY Zenon DEF ReplaceRow
  <2> HIDE DEF rs
  <2>3. EditOK(WithRows(rs), {z}, FALSE, {upd})
    BY <1>4, <2>1, <2>2, Zenon
  <2> QED  BY <1>7, <2>3, SaveInv, Zenon DEF rs
<1> QED  BY <1>1, <1>5, <1>6, <1>7, Zenon

-----------------------------------------------------------------------------
(* The invariant, and what follows from it. *)

\* An empty database serves nothing.
LEMMA ZonesInit ==
  ASSUME Init
  PROVE  ZonesInv
<1>1. /\ pc = "idle" /\ query = {} /\ answers = <<>> /\ store = Build(tables)
      /\ tables = [views |-> {DefaultView}, zones |-> [z \in Apexes |-> {}], rows |-> {}]
      /\ last = [bumped |-> {}, gone |-> FALSE, dyn |-> {}]
  BY Zenon DEF Init, NoEdit
<1>2. last.dyn = {}
  BY <1>1
<1>3. tables.zones \in [Apexes -> SUBSET BOOLEAN]
  BY <1>1
<1>4. answers \in Seq(Link) /\ pc # "chase" /\ pc \in {"idle", "chase", "done"}
  BY <1>1
<1>5. StoreInv /\ LookupInv /\ DynInv
  BY <1>1, <1>2, <1>3, <1>4, Zenon DEF StoreInv, LookupInv, DynInv
<1>6. SplitHorizon /\ AnswerChain
  BY <1>1, Zenon DEF SplitHorizon, AnswerChain
<1> QED  BY <1>5, <1>6, Zenon DEF ZonesInv

\* Every step keeps the invariant, and no serial is left behind.
LEMMA ZonesStep ==
  ASSUME ZonesInv, [Next]_vars
  PROVE  ZonesInv' /\ [SerialStep]_vars
<1>1. ASSUME tables' = tables
      PROVE  SerialStep
  BY <1>1, Zenon DEF SerialStep
<1>2. ASSUME NEW c \in Clients, NEW n \in Names, NEW t \in Types \cup {"ANY"}, Ask(c, n, t)
      PROVE  ZonesInv' /\ SerialStep
  BY <1>1, <1>2, AskInv, Zenon DEF Ask
<1>3. CASE Chase
  BY <1>1, <1>3, ChaseInv, Zenon DEF Chase
<1>4. CASE Return
  BY <1>1, <1>4, ReturnInv, Zenon DEF Return
<1>5. CASE Settle
  <2>1. last'.dyn = {}
    BY <1>5, Zenon DEF Settle, NoEdit
  <2> QED  BY <1>1, <1>5, <2>1, QuietInv, Zenon DEF Settle
<1>6. CASE Edit
  BY <1>6, ZoneEdits, RecordEdits, NicUpdateInv, Zenon DEF Edit
<1>7. CASE UNCHANGED vars
  <2>1. tables' = tables /\ store' = store /\ last' = last /\ UNCHANGED lookupVars
    BY <1>7, Zenon DEF vars
  <2> QED  BY <1>7, <2>1, QuietInv, Zenon
<1> QED  BY <1>2, <1>3, <1>4, <1>5, <1>6, <1>7, Zenon DEF Next

\* The store is always the one built from the tables, a lookup under way has
\* so far collected links of its chain, and every DynDNS update has its row.
THEOREM ZonesInvariance == Spec => []ZonesInv
  BY ZonesInit, ZonesStep, PTL DEF Spec

\* Whatever the zones, views and records, lookup tells a client enabled
\* records of the zone that covers the name and of its own view, or of all
\* views where its own has none of the type.
THEOREM HorizonSplit == Spec => []SplitHorizon
<1>1. ZonesInv => SplitHorizon
  BY Zenon DEF ZonesInv
<1> QED  BY <1>1, ZonesInvariance, PTL

\* Whatever loops the CNAMEs form, lookup follows them link by link from the
\* name asked for and stops within its bound.
THEOREM AnswersChained == Spec => []AnswerChain
<1>1. ZonesInv => AnswerChain
  BY Zenon DEF ZonesInv
<1> QED  BY <1>1, ZonesInvariance, PTL

\* Every handler that changes what a zone serves bumps its serial, but for
\* the deletion of a view.
THEOREM SerialsFollow == Spec => SerialFollows
<1>1. ZonesInv /\ [Next]_vars => [SerialStep]_vars
  BY ZonesStep
<1> QED  BY <1>1, ZonesInvariance, PTL DEF Spec, SerialFollows, SerialStep

\* While nothing is disabled, the update and the lookup choose one zone, and
\* the record is what resolve finds there.
THEOREM UpdatesServed == Spec => []DynDnsServed
<1>1. ASSUME ZonesInv PROVE DynDnsServed
  <2> SUFFICES ASSUME \A z \in Apexes : tables.zones[z] # {FALSE},
                      \A r \in tables.rows : r.enabled,
                      NEW u \in last.dyn, NEW c \in Clients,
                      LET v == ViewFor(store, c)
                      IN  \/ v = u.view
                          \/ /\ u.view = {}
                             /\ ~\E r \in tables.rows :
                                  r.name = u.name /\ r.type = "A" /\ r.view = v
               PROVE  \E z \in ZoneFor(store, u.name) :
                        \E r \in FirstAnswer(store, z, ViewFor(store, c), u.name, "A").rows :
                          r.data = u.data
    BY Zenon DEF DynDnsServed
  <2> DEFINE n == u.name
             v == ViewFor(store, c)
  <2>0. n \in Seq(STRING)
    BY <1>1, Zenon DEF ZonesInv, DynInv
  <2>1. PICK z \in DynZone(n), r \in tables.rows :
          r.zone = z /\ r.name = n /\ r.type = "A" /\ r.view = u.view /\ r.data = u.data
    BY <1>1, Zenon DEF ZonesInv, DynInv
  <2>2. /\ store.zones = Enabled(tables)
        /\ store.rows = {x \in tables.rows : x.enabled /\ x.zone \in Enabled(tables)}
        /\ tables.zones \in [Apexes -> SUBSET BOOLEAN]
    BY <1>1, Zenon DEF ZonesInv, StoreInv, Build
  <2>3. Enabled(tables) = {a \in Apexes : Exists(a)}
    <3>1. ASSUME NEW a \in Apexes PROVE TRUE \in tables.zones[a] <=> Exists(a)
      <4>1. tables.zones[a] \in SUBSET BOOLEAN /\ tables.zones[a] # {FALSE}
        BY <2>2, Zenon
      <4> QED  BY <4>1, Zenon DEF Exists
    <3> QED  BY <3>1, Zenon DEF Enabled
  <2>4. ZoneFor(store, n) = DynZone(n)
    BY <2>0, <2>2, <2>3, ZonesAgree, Zenon
  <2>5. z \in Enabled(tables)
    BY <2>1, <2>3, Zenon DEF DynZone
  <2> HIDE DEF v
  <2>6. r \in RecordsAt(store, z, n) /\ RecordsAt(store, z, n) = At(store, z, n)
    BY <2>1, <2>2, <2>5, Zenon DEF RecordsAt, At
  <2>7. r \in Resolve(RecordsAt(store, z, n), v, "A")
    <3>1. \A o \in RecordsAt(store, z, n) : o \in tables.rows /\ o.name = n
      BY <2>2, <2>6, Zenon DEF At
    <3> QED  BY <2>1, <2>6, <3>1, Zenon DEF Resolve, v
  <2>8. FirstAnswer(store, z, v, n, "A").rows = Resolve(RecordsAt(store, z, n), v, "A")
    <3>1. "A" # "SOA" /\ "A" # "ANY"
      OBVIOUS
    <3>2. FirstAnswer(store, z, v, n, "A")
            = [outcome |-> "Authoritative", rows |-> Resolve(RecordsAt(store, z, n), v, "A")]
      BY <2>6, <2>7, <3>1, Zenon DEF FirstAnswer
    <3> QED  BY <3>2
  <2> QED  BY <2>1, <2>4, <2>7, <2>8, Zenon DEF v
<1> QED  BY <1>1, ZonesInvariance, PTL

-----------------------------------------------------------------------------
(* Zone transfers, for any store. *)

\* What a row of the primary becomes at a secondary.
Copied(z, r) == Row(z, r.name, r.type, {}, r.data, TRUE)

CopiedSet(z, rs) == {Copied(z, r) : r \in rs}

\* What is visible are rows of the set.
LEMMA VisibleSet ==
  ASSUME NEW rs, NEW v
  PROVE  Visible(rs, v) = {r \in rs : r \in Resolve(rs, v, r.type)}
<1>1. ASSUME NEW r, r \in Resolve(rs, v, r.type) PROVE r \in rs
  BY <1>1, Zenon DEF Resolve
<1>2. ASSUME NEW r PROVE r \in Visible(rs, v) <=> r \in Resolve(rs, v, r.type)
  BY VisibleFacts, Zenon
<1> QED  BY <1>1, <1>2, Zenon

\* At each owner the secondary has what the client sees there.
LEMMA SecondaryAt ==
  ASSUME NEW s, NEW z, NEW c, c.geo = {}, NEW m
  PROVE  At(Secondary(s, z, c), z, m) = CopiedSet(z, Visible(At(s, z, m), ViewFor(s, c)))
<1> DEFINE v == ViewFor(s, c)
           seen == UNION {Visible(At(s, z, n), v) : n \in {q.name : q \in s.rows}}
           entry(r) == [owner |-> r.name, row |-> r]
           made(x) == Row(z, x.owner, x.row.type, {}, x.row.data, TRUE)
<1>1. ViewFor(s, [nets |-> c.nets, geo |-> {}]) = v
  BY Zenon DEF ViewFor
<1>2. Axfr(s, z, c) = {entry(r) : r \in seen}
  BY <1>1, Zenon DEF Axfr
<1> HIDE DEF v
<1>3. \A y : y \in Secondary(s, z, c).rows <=> \E r \in seen : y = Copied(z, r)
  <2>1. Secondary(s, z, c).rows = {made(x) : x \in Axfr(s, z, c)}
    BY Zenon DEF Secondary
  <2>2. \A r : made(entry(r)) = Copied(z, r)
    <3>1. ASSUME NEW r PROVE entry(r).owner = r.name /\ entry(r).row = r
      BY Zenon
    <3> HIDE DEF entry
    <3> QED  BY <3>1, Zenon DEF Copied
  <2> HIDE DEF seen, entry, made
  <2> QED  BY <1>2, <2>1, <2>2, Zenon
<1>4. ASSUME NEW n, NEW r, r \in Visible(At(s, z, n), v)
      PROVE  r \in s.rows /\ r.name = n
  <2>1. r \in At(s, z, n)
    BY <1>4, VisibleSet, Zenon
  <2> QED  BY <2>1, Zenon DEF At
<1>5. \A r : Copied(z, r).zone = z /\ Copied(z, r).name = r.name
  BY DEF Copied, Row
<1>6. ASSUME NEW r PROVE r \in seen <=> r \in Visible(At(s, z, r.name), v)
  <2>1. r \in seen <=> \E q \in s.rows : r \in Visible(At(s, z, q.name), v)
    BY Zenon
  <2> HIDE DEF seen
  <2>2. ASSUME NEW q \in s.rows, r \in Visible(At(s, z, q.name), v)
        PROVE  r \in Visible(At(s, z, r.name), v)
    <3>1. r.name = q.name
      BY <1>4, <2>2, Zenon
    <3> QED  BY <2>2, <3>1, Zenon
  <2>3. ASSUME r \in Visible(At(s, z, r.name), v) PROVE r \in seen
    <3>1. r \in s.rows
      BY <1>4, <2>3, Zenon
    <3> QED  BY <2>1, <2>3, <3>1, Zenon
  <2> QED  BY <2>1, <2>2, <2>3, Zenon
<1> HIDE DEF seen
<1>7. ASSUME NEW y
      PROVE  y \in At(Secondary(s, z, c), z, m)
               <=> y \in CopiedSet(z, Visible(At(s, z, m), v))
  <2>1. y \in At(Secondary(s, z, c), z, m)
          <=> y \in Secondary(s, z, c).rows /\ y.zone = z /\ y.name = m
    BY Zenon DEF At
  <2>2. ASSUME NEW r \in seen, y = Copied(z, r), y.name = m
        PROVE  y \in CopiedSet(z, Visible(At(s, z, m), v))
    <3>1. r.name = m /\ r \in Visible(At(s, z, r.name), v)
      BY <1>5, <1>6, <2>2, Zenon
    <3>2. r \in Visible(At(s, z, m), v)
      BY <3>1, Zenon
    <3> QED  BY <2>2, <3>2, Zenon DEF CopiedSet
  <2>3. ASSUME NEW r \in Visible(At(s, z, m), v), y = Copied(z, r)
        PROVE  y \in Secondary(s, z, c).rows /\ y.zone = z /\ y.name = m
    <3>1. r.name = m
      BY <1>4, <2>3, Zenon
    <3>2. r \in seen
      BY <1>6, <2>3, <3>1, Zenon
    <3> QED  BY <1>3, <1>5, <2>3, <3>1, <3>2, Zenon
  <2>4. y \in CopiedSet(z, Visible(At(s, z, m), v))
          <=> \E r \in Visible(At(s, z, m), v) : y = Copied(z, r)
    BY Zenon DEF CopiedSet
  <2> QED  BY <1>3, <2>1, <2>2, <2>3, <2>4, Zenon
<1> QED  BY <1>7, Zenon DEF v

\* What is at a name at the primary is at the same name, or under the same
\* wildcard, at the secondary, if the client sees anything of it.
LEMMA SecondaryRecords ==
  ASSUME NEW s, NEW z, NEW c, c.geo = {}, NEW n,
         Visible(RecordsAt(s, z, n), ViewFor(s, c)) # {}
  PROVE  RecordsAt(Secondary(s, z, c), z, n)
           = CopiedSet(z, Visible(RecordsAt(s, z, n), ViewFor(s, c)))
<1> DEFINE v == ViewFor(s, c)
           there == Secondary(s, z, c)
           levels(x) == {i \in 2 .. Len(n) : At(x, z, Wild(n, i)) # {}}
           nearest(x) == {j \in levels(x) : \A k \in levels(x) : j <= k}
<1>1. /\ \A m : At(there, z, m) = CopiedSet(z, Visible(At(s, z, m), v))
      /\ \A rs : CopiedSet(z, rs) = {} <=> rs = {}
      /\ \A rs : Visible(rs, v) # {} => rs # {}
  <2>1. \A m : At(there, z, m) = CopiedSet(z, Visible(At(s, z, m), v))
    BY SecondaryAt, Zenon
  <2>2. \A rs : CopiedSet(z, rs) = {} <=> rs = {}
    BY Zenon DEF CopiedSet
  <2>3. \A rs : Visible(rs, v) # {} => rs # {}
    BY VisibleSet, Zenon
  <2> QED  BY <2>1, <2>2, <2>3, Zenon
<1> HIDE DEF v, there
<1>2. CASE At(s, z, n) # {}
  <2>1. RecordsAt(s, z, n) = At(s, z, n) /\ Visible(At(s, z, n), v) # {}
    BY <1>2, Zenon DEF RecordsAt, v
  <2>2. At(there, z, n) # {}
    BY <1>1, <2>1, Zenon
  <2> QED  BY <1>1, <2>1, <2>2, Zenon DEF RecordsAt, v, there
<1>3. CASE At(s, z, n) = {}
  <2>1. At(there, z, n) = {}
    BY <1>1, <1>3, Zenon
  <2>2. /\ RecordsAt(s, z, n) = UNION {At(s, z, Wild(n, i)) : i \in nearest(s)}
        /\ RecordsAt(there, z, n) = UNION {At(there, z, Wild(n, i)) : i \in nearest(there)}
    BY <1>3, <2>1, Zenon DEF RecordsAt
  <2>3. PICK i \in nearest(s) : TRUE
    <3>1. RecordsAt(s, z, n) # {}
      BY <1>1, Zenon DEF v
    <3> HIDE DEF nearest
    <3> QED  BY <2>2, <3>1, Zenon
  <2>4. \A j \in nearest(s) : j = i
    BY SMT
  <2>5. RecordsAt(s, z, n) = At(s, z, Wild(n, i))
    <3>1. i \in nearest(s)
      BY <2>3, Zenon
    <3> HIDE DEF nearest
    <3>2. nearest(s) = {i}
      BY <2>4, <3>1, Zenon
    <3> QED  BY <2>2, <3>2, Zenon
  <2>6. i \in 2 .. Len(n) /\ \A k \in levels(s) : i <= k
    BY <2>3, Zenon
  <2>7. \A k \in levels(there) : k \in levels(s)
    BY <1>1, Zenon
  <2>8. i \in levels(there)
    <3>1. Visible(At(s, z, Wild(n, i)), v) # {}
      BY <2>5, Zenon DEF v
    <3> QED  BY <1>1, <2>6, <3>1, Zenon
  <2> HIDE DEF levels
  <2>9. nearest(there) = {i}
    <3>1. i \in nearest(there)
      BY <2>6, <2>7, <2>8, Zenon
    <3>2. \A j \in nearest(there) : j = i
      <4>1. levels(there) \subseteq 2 .. Len(n)
        BY Zenon DEF levels
      <4> QED  BY <3>1, <4>1, SMT
    <3> HIDE DEF nearest
    <3> QED  BY <3>1, <3>2, Zenon
  <2> HIDE DEF nearest
  <2>10. RecordsAt(there, z, n) = At(there, z, Wild(n, i))
    BY <2>2, <2>9, Zenon
  <2> QED  BY <1>1, <2>5, <2>10, Zenon DEF v, there
<1> QED  BY <1>2, <1>3, Zenon

\* To whoever has no view of its own, a secondary gives the copies of what
\* the client sees at the primary, type by type.
LEMMA SecondaryResolve ==
  ASSUME NEW rs, NEW v, NEW z, NEW t
  PROVE  LET copies == CopiedSet(z, Visible(rs, v))
         IN  /\ Resolve(copies, {}, t) = CopiedSet(z, Resolve(rs, v, t))
             /\ Visible(copies, {}) = copies
<1> DEFINE copies == CopiedSet(z, Visible(rs, v))
<1>1. \A r : Copied(z, r).type = r.type /\ Copied(z, r).view = {}
  BY DEF Copied, Row
<1>2. \A x \in copies : x.view = {}
  BY <1>1, Zenon DEF CopiedSet
<1>3. \A r, k : r \in Visible(rs, v) /\ r.type = k <=> r \in Resolve(rs, v, k)
  <2>1. ASSUME NEW r PROVE r \in Visible(rs, v) <=> r \in Resolve(rs, v, r.type)
    BY VisibleFacts, Zenon
  <2>2. ASSUME NEW r, NEW k, r \in Resolve(rs, v, k) PROVE r.type = k
    BY <2>2, Zenon DEF Resolve
  <2> QED  BY <2>1, <2>2, Zenon
<1>4. \A x : x \in copies <=> \E r \in Visible(rs, v) : x = Copied(z, r)
  BY Zenon DEF CopiedSet
<1> HIDE DEF copies
<1>5. \A k : Resolve(copies, {}, k) = {x \in copies : x.type = k}
  BY <1>2, Zenon DEF Resolve
<1>6. Resolve(copies, {}, t) = CopiedSet(z, Resolve(rs, v, t))
  <2>1. ASSUME NEW x \in copies, x.type = t
        PROVE  x \in CopiedSet(z, Resolve(rs, v, t))
    <3>1. PICK r \in Visible(rs, v) : x = Copied(z, r)
      BY <1>4, Zenon
    <3>2. r \in Resolve(rs, v, t)
      BY <1>1, <1>3, <2>1, <3>1, Zenon
    <3> QED  BY <3>1, <3>2, Zenon DEF CopiedSet
  <2>2. ASSUME NEW r \in Resolve(rs, v, t)
        PROVE  Copied(z, r) \in copies /\ Copied(z, r).type = t
    BY <1>1, <1>3, <1>4, Zenon
  <2>3. ASSUME NEW x
        PROVE  x \in Resolve(copies, {}, t) <=> x \in CopiedSet(z, Resolve(rs, v, t))
    <3>1. x \in Resolve(copies, {}, t) <=> x \in copies /\ x.type = t
      BY <1>5, Zenon
    <3>2. x \in CopiedSet(z, Resolve(rs, v, t)) <=> \E r \in Resolve(rs, v, t) : x = Copied(z, r)
      BY Zenon DEF CopiedSet
    <3> QED  BY <2>1, <2>2, <3>1, <3>2, Zenon
  <2> QED  BY <2>3, Zenon
<1>7. Visible(copies, {}) = copies
  <2>1. Visible(copies, {}) = {x \in copies : x \in Resolve(copies, {}, x.type)}
    BY VisibleSet, Zenon
  <2> QED  BY <1>5, <2>1, Zenon
<1> QED  BY <1>6, <1>7, Zenon DEF copies

\* A client that sees anything at a name gets the same answer from a
\* secondary filled from what the client may transfer.  This holds of every
\* store, whichever way the records came into it.
THEOREM TransfersFaithful == Spec => []TransferFaithful
<1>1. TransferFaithful
  <2> SUFFICES ASSUME NEW c \in Clients, NEW z \in store.zones, NEW n \in Names, c.geo = {},
                      Visible(RecordsAt(store, z, n), ViewFor(store, c)) # {},
                      NEW t \in Types \cup {"ANY"}
               PROVE  LET here == FirstAnswer(store, z, ViewFor(store, c), n, t)
                          copy == FirstAnswer(Secondary(store, z, c), z, {}, n, t)
                      IN  here.outcome = copy.outcome /\ Data(here.rows) = Data(copy.rows)
    BY Zenon DEF TransferFaithful
  <2> DEFINE v == ViewFor(store, c)
             there == Secondary(store, z, c)
             recs == RecordsAt(store, z, n)
             copies == CopiedSet(z, Visible(recs, v))
             ans(kind, rs) == [outcome |-> kind, rows |-> rs]
             here == FirstAnswer(store, z, v, n, t)
             copy == FirstAnswer(there, z, {}, n, t)
  <2>1. RecordsAt(there, z, n) = copies
    BY SecondaryRecords, Zenon
  <2>2. /\ \A k : Resolve(copies, {}, k) = CopiedSet(z, Resolve(recs, v, k))
        /\ Visible(copies, {}) = copies
    BY SecondaryResolve
  <2>3. recs # {} /\ copies # {}
    <3>1. recs # {}
      BY VisibleSet, Zenon
    <3>2. copies # {}
      BY Zenon DEF CopiedSet
    <3> QED  BY <3>1, <3>2, Zenon
  <2>4. \A rs : Data(CopiedSet(z, rs)) = Data(rs) /\ (CopiedSet(z, rs) = {} <=> rs = {})
    <3>1. \A r : Copied(z, r).type = r.type /\ Copied(z, r).data = r.data
      BY DEF Copied, Row
    <3>2. ASSUME NEW rs, NEW x
          PROVE  x \in Data(CopiedSet(z, rs)) <=> x \in Data(rs)
      <4>1. x \in Data(rs) <=> \E r \in rs : x = [type |-> r.type, data |-> r.data]
        BY Zenon DEF Data
      <4>2. x \in Data(CopiedSet(z, rs))
              <=> \E r \in rs : x = [type |-> Copied(z, r).type, data |-> Copied(z, r).data]
        BY Zenon DEF Data, CopiedSet
      <4> QED  BY <3>1, <4>1, <4>2, Zenon
    <3>3. \A rs : Data(CopiedSet(z, rs)) = Data(rs)
      BY <3>2, Zenon DEF Data
    <3> QED  BY <3>3, Zenon DEF CopiedSet
  <2>5. \A kind, rs : ans(kind, rs).outcome = kind /\ ans(kind, rs).rows = rs
    OBVIOUS
  <2>6. AnyOutcome(recs, v) = "Authoritative" /\ AnyOutcome(copies, {}) = "Authoritative"
    BY <2>2, <2>3, Zenon DEF AnyOutcome
  <2>7. \E kind, rs : here = ans(kind, rs) /\ copy = ans(kind, CopiedSet(z, rs))
    <3>0. copies = CopiedSet(z, Visible(recs, v))
      BY Zenon
    <3> HIDE DEF ans, recs, v, there, copies
    <3>1. CASE t = "SOA" /\ n = z
      BY <2>4, <3>1, Zenon DEF FirstAnswer, ans, recs, v, there
    <3>2. CASE ~(t = "SOA" /\ n = z) /\ t = "ANY"
      BY <2>1, <2>2, <2>3, <2>6, <3>0, <3>2, Zenon DEF FirstAnswer, ans, recs, v, there
    <3>3. CASE ~(t = "SOA" /\ n = z) /\ t # "ANY"
      BY <2>1, <2>2, <2>3, <2>4, <3>3, Zenon DEF FirstAnswer, ans, recs, v, there
    <3> QED  BY <3>1, <3>2, <3>3, Zenon
  <2> HIDE DEF ans, here, copy, copies, there, recs, v
  <2>8. here.outcome = copy.outcome /\ Data(here.rows) = Data(copy.rows)
    <3>1. PICK kind, rs : here = ans(kind, rs) /\ copy = ans(kind, CopiedSet(z, rs))
      BY <2>7, Zenon
    <3>2. /\ here.outcome = kind /\ here.rows = rs
          /\ copy.outcome = kind /\ copy.rows = CopiedSet(z, rs)
      BY <2>5, <3>1, Zenon
    <3> QED  BY <2>4, <3>2, Zenon
  <2> QED  BY <2>8, Zenon DEF here, copy, there, v
<1> QED  BY <1>1, PTL

=============================================================================
