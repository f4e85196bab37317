------------------------------- MODULE Zones -------------------------------
(***************************************************************************)
(* Authoritative zones: the handlers that edit views, zones and records    *)
(* (src/src/web/api.rs, dyndns.rs and their queries in src/src/db.rs), and *)
(* the lookups in the store (src/src/store.rs) built from them.            *)
(*                                                                         *)
(* An edit is one step here, the rebuilding of the store included;         *)
(* LiveConfig takes that apart.  A lookup works on the store it began      *)
(* with, so the edits wait for it.  Of a serial number the model keeps     *)
(* whether the last edit changed it.                                       *)
(***************************************************************************)
EXTENDS ZoneStore

VARIABLES
  tables,    \* [views, zones, rows]: the database
  store,     \* what Build makes of it
  last,      \* history: the last edit: the zones bumped, a view deleted, a DynDNS update
  pc,        \* "idle" | "chase" | "done"
  query,     \* optional: [name, type, view] of the lookup
  answers,   \* its answer so far, a sequence of [owner, rows]
  outcome    \* optional: its Outcome

lookupVars == <<pc, query, answers, outcome>>
vars == <<tables, store, last, lookupVars>>

NoEdit == [bumped |-> {}, gone |-> FALSE, dyn |-> {}]

Init ==
  /\ tables = [views |-> {DefaultView}, zones |-> [z \in Apexes |-> {}], rows |-> {}]
  /\ store = Build(tables)
  /\ last = NoEdit
  /\ pc = "idle" /\ query = {} /\ answers = <<>> /\ outcome = {}

-----------------------------------------------------------------------------
(* Edits. *)

Exists(z) == tables.zones[z] # {}

\* What an edit leaves behind: new tables, a new store, the zones Z bumped.
Save(t, Z, gone, dyn) ==
  /\ Cardinality(t.rows) <= MaxRows
  /\ tables' = t
  /\ store' = Build(t)
  /\ last' = [bumped |-> Z, gone |-> gone, dyn |-> dyn]
  /\ UNCHANGED lookupVars

WithRows(rs) == [views |-> tables.views, zones |-> tables.zones, rows |-> rs]

WithZone(z, e, rs) ==
  [views |-> tables.views, zones |-> [tables.zones EXCEPT ![z] = e], rows |-> rs]

WithView(vs, rs) == [views |-> vs, zones |-> tables.zones, rows |-> rs]

\* Db::create_record.
InsertRow(rs, r) == rs \cup {r}

\* Db::update_record: it sets the columns that are given, one at a time,
\* under the lock of the connection.
ReplaceRow(rs, r, s) == (rs \ {r}) \cup {s}

\* Db::import_records, a transaction.
ImportRows(rs, z, new, replace) == {r \in rs : replace => r.zone # z} \cup new

CreateView(v) ==
  /\ v \notin tables.views
  /\ Save(WithView(tables.views \cup {v}, tables.rows), {}, FALSE, {})

\* The records of the view go with it (ON DELETE CASCADE).
DeleteView(v) ==
  /\ v \in tables.views \ {DefaultView}
  /\ Save(WithView(tables.views \ {v}, {r \in tables.rows : r.view # {v}}), {}, TRUE, {})

\* A zone begins with an NS record at its apex.
ApexNs(z) == Row(z, z, "NS", {}, <<"ns">> \o z, TRUE)

CreateZone(z) ==
  /\ ~Exists(z)
  /\ Save(WithZone(z, {TRUE}, InsertRow(tables.rows, ApexNs(z))), {z}, FALSE, {})

UpdateZone(z, e) ==
  /\ Exists(z)
  /\ Save(WithZone(z, {e}, tables.rows), {z}, FALSE, {})

DeleteZone(z) ==
  /\ Exists(z)
  /\ Save(WithZone(z, {}, {r \in tables.rows : r.zone # z}), {}, FALSE, {})

\* A record can be given only to a zone and a view that exist.
Allowed(r) == Exists(r.zone) /\ r.view \subseteq tables.views

CreateRecord(r) ==
  /\ Allowed(r) /\ r.enabled
  /\ Save(WithRows(InsertRow(tables.rows, r)), {r.zone}, FALSE, {})

\* Mutant of UpdateRecord: the serial is left alone.
UpdateRecordQuietly(r, s) ==
  /\ r \in tables.rows /\ Allowed(s)
  /\ s.zone = r.zone /\ s.type = r.type
  /\ Save(WithRows(ReplaceRow(tables.rows, r, s)), {}, FALSE, {})

\* Everything of a record but its zone and its type can be changed.
UpdateRecord(r, s) ==
  /\ r \in tables.rows /\ Allowed(s)
  /\ s.zone = r.zone /\ s.type = r.type
  /\ Save(WithRows(ReplaceRow(tables.rows, r, s)), {r.zone}, FALSE, {})

DeleteRecord(r) ==
  /\ r \in tables.rows
  /\ Save(WithRows(tables.rows \ {r}), {r.zone}, FALSE, {})

\* parse_zonefile: the SOA and types that are not supported are skipped, and
\* what is left is for all views.
Parsed(r) == {q \in {r} : q.type \in Types \ {"SOA"} /\ q.view = {} /\ q.enabled}

\* import_zone of a file with one record.
ImportZone(r, replace) ==
  /\ Exists(r.zone) /\ Parsed(r) # {}
  /\ Save(WithRows(ImportRows(tables.rows, r.zone, Parsed(r), replace)),
          {r.zone}, FALSE, {})

\* host == zn || host.ends_with(".zn"): the string n ends in z, after a dot.
EndsWith(n, z) == n = z \/ \E k \in 2 .. Len(n) : z = SubSeq(n, k, Len(n))

\* Mutant of DynZone: the shortest match.
DynZoneShortest(n) ==
  LET matches == {z \in Apexes : Exists(z) /\ EndsWith(n, z)}
  IN  {z \in matches : \A y \in matches : Chars[z] <= Chars[y]}

\* The zone a DynDNS update goes to, enabled or not: the longest string that
\* matches.
DynZone(n) ==
  LET matches == {z \in Apexes : Exists(z) /\ EndsWith(n, z)}
  IN  {z \in matches : \A y \in matches : Chars[y] <= Chars[z]}

\* dyndns_set_address, then reload_store if it changed something: the record
\* of that name, type and view is pointed at d, or one is created.
DynDnsSetAddress(n, v, d) ==
  \E z \in DynZone(n) :
    LET existing == {r \in tables.rows : r.zone = z /\ r.name = n /\ r.type = "A" /\ r.view = v}
        update   == {[name |-> n, view |-> v, data |-> d]}
    IN  \/ /\ existing = {}
           /\ Save(WithRows(InsertRow(tables.rows, Row(z, n, "A", v, d, TRUE))), {z}, FALSE, update)
        \/ \E r \in existing :
             IF r.data = d THEN Save(tables, {}, FALSE, update)
             ELSE Save(WithRows(ReplaceRow(tables.rows, r, Row(z, n, "A", v, d, r.enabled))),
                       {z}, FALSE, update)

\* dyndns_auth and the checks on what it finds: the token is enabled, and it
\* owns the name.
DynDnsAuth(u) == u.token.enabled /\ u.name \in u.token.hostnames

\* A token outlives its view, and is for all views from then on (ON DELETE
\* SET NULL).
TokenView(u) == u.token.view \cap tables.views

\* nic_update for one name and one address; a name that is not the token's or
\* that no zone covers is "nohost" and changes nothing.
NicUpdate(u) ==
  /\ DynDnsAuth(u)
  /\ DynDnsSetAddress(u.name, TokenView(u), u.data)

Edit ==
  /\ pc = "idle" /\ last = NoEdit
  /\ \/ \E v \in ViewSet : CreateView(v) \/ DeleteView(v)
     \/ \E z \in Apexes : CreateZone(z) \/ DeleteZone(z) \/ \E e \in BOOLEAN : UpdateZone(z, e)
     \/ \E r \in Rows : CreateRecord(r)
     \/ \E r \in tables.rows : DeleteRecord(r)
     \/ \E r \in tables.rows, s \in Rows : UpdateRecord(r, s)
     \/ \E r \in Rows, replace \in BOOLEAN : ImportZone(r, replace)
     \/ \E u \in DynUpdates : NicUpdate(u)

-----------------------------------------------------------------------------
(* The lookup. *)

Ask(c, n, t) ==
  LET v == ViewFor(store, c)
  IN  /\ pc = "idle" /\ last = NoEdit
      /\ query' = {[name |-> n, type |-> t, view |-> v]}
      /\ \/ /\ ZoneFor(store, n) = {}
            /\ pc' = "done" /\ outcome' = {"NotAuthoritative"} /\ answers' = <<>>
         \/ \E z \in ZoneFor(store, n) :
              LET a == FirstAnswer(store, z, v, n, t)
              IN  /\ answers' = IF a.rows = {} THEN <<>> ELSE <<[owner |-> n, rows |-> a.rows]>>
                  /\ pc' = IF a.outcome = "chase" THEN "chase" ELSE "done"
                  /\ outcome' = IF a.outcome = "chase" THEN {"Authoritative"} ELSE {a.outcome}
      /\ UNCHANGED <<tables, store, last>>

\* Mutant of TooDeep: nothing ends a loop of CNAMEs.
NeverTooDeep(depth) == FALSE

TooDeep(depth) == depth > MaxDepth

Follow(target, rs) == answers' = Append(answers, [owner |-> target, rows |-> rs])

LastLink == answers[Len(answers)]

\* One round of the loop: the target of a CNAME just added (of the last one,
\* in an order the database does not fix) is looked up in the same zone.
Chase ==
  /\ pc = "chase"
  /\ \E q \in query : \E z \in ZoneFor(store, q.name) :
     \E cname \in LastLink.rows :
       LET target == cname.data
           trecs  == RecordsAt(store, z, target)
           direct == Resolve(trecs, q.view, q.type)
           nextc  == Resolve(trecs, q.view, "CNAME")
           stop   == pc' = "done" /\ UNCHANGED answers
       IN  IF TooDeep(Len(answers)) \/ ~ZoneOf(z, target) \/ trecs = {} THEN stop
           ELSE IF direct # {} THEN Follow(target, direct) /\ pc' = "done"
           ELSE IF nextc = {} THEN stop
           ELSE Follow(target, nextc) /\ UNCHANGED pc
  /\ UNCHANGED <<tables, store, query, outcome, last>>

Return ==
  /\ pc = "done"
  /\ pc' = "idle" /\ query' = {} /\ answers' = <<>> /\ outcome' = {}
  /\ UNCHANGED <<tables, store, last>>

\* The last edit has been looked at by the properties and is forgotten; the
\* code has no such step.
Settle ==
  /\ last # NoEdit
  /\ last' = NoEdit
  /\ UNCHANGED <<tables, store, lookupVars>>

Next ==
  \/ \E c \in Clients, n \in Names, t \in Types \cup {"ANY"} : Ask(c, n, t)
  \/ Chase
  \/ Return
  \/ Edit
  \/ Settle

Spec == Init /\ [][Next]_vars

-----------------------------------------------------------------------------
(* Properties. *)

\* Split horizon, along the whole chain of CNAMEs and through wildcards: a
\* client is told records of its own view or of all views, from the zone that
\* covers the name and no other, none that is disabled, and one of all views
\* only if its own view has none of that type there.
SplitHorizon ==
  \A q \in query : \A i \in DOMAIN answers : \A r \in answers[i].rows :
    /\ {r.zone} = ZoneFor(store, q.name)
    /\ r.enabled /\ TRUE \in tables.zones[r.zone]
    /\ r.view \in {{}, q.view}
    /\ r.view = {} /\ q.view # {} =>
         ~\E o \in store.rows : /\ o.zone = r.zone /\ o.name = r.name
                                /\ o.type = r.type /\ o.view = q.view

\* The answer is a chain that begins at the name asked for, in which each
\* link but the last is a CNAME to the next one's owner, and it is short
\* whatever loops the records form; only an authoritative outcome has one.
AnswerChain ==
  \A q \in query :
    /\ outcome \subseteq {"Authoritative", "NoData", "NxDomain", "NotAuthoritative"}
    /\ answers # <<>> => outcome = {"Authoritative"}
    /\ Len(answers) <= MaxDepth + 1
    /\ answers # <<>> => answers[1].owner = q.name
    /\ \A i \in 2 .. Len(answers) :
         \E r \in answers[i - 1].rows : r.type = "CNAME" /\ r.data = answers[i].owner
    /\ pc = "done" /\ Len(answers) > 1 =>
         \A r \in LastLink.rows : r.type \in {q.type, "CNAME"}

\* The store of a secondary filled from a transfer: the records are for all
\* views, whatever they were at the primary.
Secondary(s, z, c) ==
  [views |-> {}, zones |-> {z},
   rows |-> {Row(z, x.owner, x.row.type, {}, x.row.data, TRUE) : x \in Axfr(s, z, c)}]

Data(rs) == {[type |-> r.type, data |-> r.data] : r \in rs}

\* A transfer is complete: where a client sees anything at a name, a
\* secondary it has filled answers the same as the primary, for every type,
\* wildcards and names both zones hold included.  (Where it sees nothing, a
\* row for another view still makes the name exist at the primary.)
TransferFaithful ==
  pc = "idle" =>
    \A c \in Clients, z \in store.zones, n \in Names :
      LET v     == ViewFor(store, c)
          there == Secondary(store, z, c)
      IN  (c.geo = {} /\ ZoneFor(store, n) = {z} /\ Visible(RecordsAt(store, z, n), v) # {}) =>
            \A t \in Types \cup {"ANY"} :
              LET here == FirstAnswer(store, z, v, n, t)
                  copy == FirstAnswer(there, z, {}, n, t)
              IN  here.outcome = copy.outcome /\ Data(here.rows) = Data(copy.rows)

\* "Called on any change to the zone or its records" says bump_serial, and
\* the secondaries look at nothing else: what a zone serves never changes
\* under the same serial, whichever handler changes it -- but for the
\* deletion of a view, which takes records along and bumps nothing.
SerialFollows ==
  [][\A z \in Apexes :
       LET served(t) == {r \in t.rows : r.zone = z /\ r.enabled}
       IN  (tables.zones[z] # {} /\ tables'.zones[z] # {} /\ ~last'.gone /\
            (served(tables) # served(tables') \/ tables.zones[z] # tables'.zones[z]))
           => z \in last'.bumped]_vars

\* A DynDNS update that is answered "good" or "nochg" is what the clients of
\* its view are told from then on, provided that nothing is disabled: the
\* update and the lookup choose the same zone and the same record.
DynDnsServed ==
  (/\ \A z \in Apexes : tables.zones[z] # {FALSE}
   /\ \A r \in tables.rows : r.enabled) =>
    \A u \in last.dyn : \A c \in Clients :
      LET v     == ViewFor(store, c)
          other == \E r \in tables.rows : r.name = u.name /\ r.type = "A" /\ r.view = v
      IN  (v = u.view \/ (u.view = {} /\ ~other)) =>
            \E z \in ZoneFor(store, u.name) :
              \E r \in FirstAnswer(store, z, v, u.name, "A").rows : r.data = u.data

=============================================================================
