----------------------------- MODULE DhcpServer -----------------------------
(***************************************************************************)
(* The DHCP server: one serving loop per bound socket (v4_loop, v6_loop),  *)
(* the lease sweeper and the administrator's edits, all over one database. *)
(*                                                                         *)
(* A loop handles one message at a time, but handle_v4 and handle_v6 make  *)
(* a separate, separately locked database call for the scopes, for the     *)
(* reservations, for the leases and for the write, so every other actor    *)
(* can run between two of them.  pc[l] says which call comes next.         *)
(***************************************************************************)
EXTENDS DhcpLease

CONSTANTS
  Loops,          \* one per socket
  LoopFamily,     \* [Loops -> Families]
  LoopIface,      \* [Loops -> optional [name, addr]]: SO_BINDTODEVICE sockets
  Links,          \* addresses of relays and interfaces, for scope selection
  Messages,       \* the DHCP messages that can arrive
  ScopeInputs,    \* scopes an administrator can store
  InitScopes,     \* the scopes stored when the server starts
  ResIds,         \* ids of dhcp_reservations rows: bounds their number
  OfferHoldSecs,  \* OFFER_HOLD_SECS
  MaxTime         \* bound on the clock

(***************************************************************************)
(* A row of dhcp_scopes without its id.  name is its rank: scopes are      *)
(* listed by name.  subnet is the set of link addresses it contains.       *)
(***************************************************************************)
Scope == [name : Nat, enabled : BOOLEAN, family : Families,
          subnet : SUBSET Links, iface : SUBSET Nat,
          lo : Addrs, hi : Addrs, secs : Nat]

V4Types == {"discover", "request", "release", "decline", "inform"}
V6Types == {"solicit", "request", "renew", "rebind", "release", "decline"}

\* req is option 50, ciaddr and giaddr are empty when 0.0.0.0.
Message == [type : V4Types \cup V6Types, client : Clients,
            req : SUBSET Addrs, ciaddr : SUBSET Addrs, giaddr : SUBSET Links]

\* What validate_scope accepts: both bounds are of the family it states.
ValidScope(in) == {in.lo, in.hi} \subseteq AddrsOf(in.family)

ASSUME LoopAssumption ==
  /\ LoopFamily \in [Loops -> Families]
  /\ LoopIface \in [Loops -> SUBSET [name : Nat, addr : SUBSET Links]]
ASSUME InputAssumption ==
  /\ Messages \subseteq Message
  /\ ScopeInputs \subseteq Scope
  /\ InitScopes \in [ScopeIds -> SUBSET Scope]
  /\ \A s, t \in ScopeIds : \A r \in InitScopes[s], q \in InitScopes[t] :
       s = t \/ r.name = q.name => s = t /\ r = q
ASSUME TimeAssumption == OfferHoldSecs \in Nat /\ MaxTime \in Nat

VARIABLES
  scopes,        \* [ScopeIds -> optional Scope]: table dhcp_scopes
  reservations,  \* [ResIds -> optional Reservation]: table dhcp_reservations
  leases,        \* set of Lease: table dhcp_leases
  now,           \* the clock, in seconds
  pc,            \* [Loops -> where the handler of the loop is]
  msg,           \* [Loops -> the message being handled, or {}]
  scope,         \* [Loops -> copy of the selected scope, or {}]
  seenRes,       \* [Loops -> reservations read]
  seenLeases,    \* [Loops -> leases read]
  work,          \* [Loops -> rows the next write is about]
  bound,         \* [Clients -> the address the client may use, and until when]
  overridden     \* keys whose assignment an administrator, or a late datagram
                 \* of the client it was for, has overruled

dbVars == <<scopes, reservations, leases>>
loopVars == <<pc, msg, scope, seenRes, seenLeases, work>>
vars == <<scopes, reservations, leases, now, pc, msg, scope, seenRes,
          seenLeases, work, bound, overridden>>

PcValues == {"recv", "scoped", "reserved", "leased",
             "persist", "reply", "delete", "decline"}

\* The lease a client was given in its last ACK or REPLY.
Binding == [scope : ScopeIds, ip : Addrs, until : Nat]

Init ==
  /\ scopes = InitScopes
  /\ reservations = [i \in ResIds |-> {}]
  /\ leases = {}
  /\ now = 0
  /\ pc = [l \in Loops |-> "recv"]
  /\ msg = [l \in Loops |-> {}]
  /\ scope = [l \in Loops |-> {}]
  /\ seenRes = [l \in Loops |-> {}]
  /\ seenLeases = [l \in Loops |-> {}]
  /\ work = [l \in Loops |-> {}]
  /\ bound = [c \in Clients |-> {}]
  /\ overridden = {}

-----------------------------------------------------------------------------
(* Scope selection. *)

ScopeRows ==
  UNION {{[id |-> s, row |-> r] : r \in scopes[s]} : s \in ScopeIds}

FirstNamed(S) == {p \in S : \A q \in S : p.row.name <= q.row.name}

Enabled(f) == {p \in ScopeRows : p.row.enabled /\ p.row.family = f}

\* Relay's subnet, then the scope pinned to the interface, then the subnet of
\* the interface, then the first enabled scope.
SelectV4Scope(giaddr, iface) ==
  LET relayed == {p \in Enabled("v4") : p.row.subnet \cap giaddr # {}}
      pinned  == {p \in Enabled("v4") : \E i \in iface : i.name \in p.row.iface}
      onLink  == {p \in Enabled("v4") :
                    \E i \in iface : i.addr \cap p.row.subnet # {}}
  IN  IF relayed # {} THEN FirstNamed(relayed)
      ELSE IF pinned # {} THEN FirstNamed(pinned)
      ELSE IF onLink # {} THEN FirstNamed(onLink)
      ELSE FirstNamed(Enabled("v4"))

SelectScope(l, m) ==
  IF LoopFamily[l] = "v4" THEN SelectV4Scope(m.giaddr, LoopIface[l])
                          ELSE FirstNamed(Enabled("v6"))

-----------------------------------------------------------------------------
(* The handler of one message. *)

Goto(l, label, rows) ==
  /\ pc' = [pc EXCEPT ![l] = label]
  /\ work' = [work EXCEPT ![l] = rows]
  /\ seenRes' = [seenRes EXCEPT ![l] = {}]
  /\ seenLeases' = [seenLeases EXCEPT ![l] = {}]
  /\ UNCHANGED <<msg, scope>>

\* The handler returns and the loop waits for the next datagram.
Done(l) ==
  /\ pc' = [pc EXCEPT ![l] = "recv"]
  /\ msg' = [msg EXCEPT ![l] = {}]
  /\ scope' = [scope EXCEPT ![l] = {}]
  /\ seenRes' = [seenRes EXCEPT ![l] = {}]
  /\ seenLeases' = [seenLeases EXCEPT ![l] = {}]
  /\ work' = [work EXCEPT ![l] = {}]

\* A client that sends one of these has stopped using its address.
GivesUp(m) == m.type \in {"discover", "solicit", "release", "decline"}

\* The datagram is the last thing its client has sent.
InTime(m) ==
  /\ bound' = IF GivesUp(m) THEN [bound EXCEPT ![m.client] = {}] ELSE bound
  /\ UNCHANGED overridden

\* The datagram was delayed or doubled, and its client uses an address it got
\* since.  The handler cannot tell: it makes the client's row an offer, or
\* takes it away.
Late(m) ==
  /\ GivesUp(m)
  /\ overridden' = overridden \cup {<<b.scope, b.ip>> : b \in bound[m.client]}
  /\ UNCHANGED bound

\* A datagram arrives and the scopes are read; no scope, no reply.
Receive(l, m) ==
  /\ pc[l] = "recv"
  /\ m.type \in (IF LoopFamily[l] = "v4" THEN V4Types ELSE V6Types)
  /\ IF SelectScope(l, m) = {}
     THEN UNCHANGED loopVars
     ELSE /\ pc' = [pc EXCEPT ![l] = "scoped"]
          /\ msg' = [msg EXCEPT ![l] = {m}]
          /\ scope' = [scope EXCEPT ![l] = SelectScope(l, m)]
          /\ UNCHANGED <<seenRes, seenLeases, work>>
  /\ InTime(m) \/ Late(m)
  /\ UNCHANGED <<dbVars, now>>

ReadReservations(l) ==
  /\ pc[l] = "scoped"
  /\ pc' = [pc EXCEPT ![l] = "reserved"]
  /\ seenRes' = [seenRes EXCEPT ![l] =
       {r \in UNION {reservations[i] : i \in ResIds} :
          \E p \in scope[l] : r.scope = p.id}]
  /\ UNCHANGED <<dbVars, now, msg, scope, seenLeases, work, bound, overridden>>

ReadLeases(l) ==
  /\ pc[l] = "reserved"
  /\ pc' = [pc EXCEPT ![l] = "leased"]
  /\ seenLeases' = [seenLeases EXCEPT ![l] =
       {r \in leases : \E p \in scope[l] : r.scope = p.id}]
  /\ UNCHANGED <<dbVars, now, msg, scope, seenRes, work, bound, overridden>>

\* Only the v4 handler passes on the address the client asks for; an address
\* of the other family (from a reservation) counts as none.
Allocated(l, m, p) ==
  Allocate(p.row, seenRes[l], seenLeases[l], m.client,
           IF LoopFamily[l] = "v4" THEN m.req ELSE {}, now)
    \cap AddrsOf(LoopFamily[l])

NewRow(p, m, ip, st, secs) ==
  [id |-> 0, scope |-> p.id, ip |-> ip, client |-> m.client,
   state |-> st, expires |-> now + secs]

MinSecs(a, b) == IF a <= b THEN a ELSE b

\* Option 50, else the address being renewed.
Desired(m) == IF m.req # {} THEN m.req ELSE m.ciaddr

\* The ways to answer a REQUEST positively.
Granted(l, m, p) ==
  {ip \in Allocated(l, m, p) : LoopFamily[l] = "v6" \/ Desired(m) \subseteq {ip}}

\* DISCOVER or SOLICIT with an address to offer.
Offer(l) ==
  /\ pc[l] = "leased"
  /\ \E m \in msg[l], p \in scope[l] :
       /\ m.type \in {"discover", "solicit"}
       /\ \E ip \in Allocated(l, m, p) :
            Goto(l, "persist",
                 {NewRow(p, m, ip, "offered", MinSecs(p.row.secs, OfferHoldSecs))})
  /\ UNCHANGED <<dbVars, now, bound, overridden>>

\* Mutant of Grant: the ACK is sent without the row being stored first.
GrantUnsaved(l) ==
  /\ pc[l] = "leased"
  /\ \E m \in msg[l], p \in scope[l] :
       /\ m.type \in {"request", "renew", "rebind"}
       /\ \E ip \in Granted(l, m, p) :
            Goto(l, "reply", {NewRow(p, m, ip, "active", p.row.secs)})
  /\ UNCHANGED <<dbVars, now, bound, overridden>>

\* REQUEST, RENEW or REBIND that will be answered with an ACK or a REPLY.
Grant(l) ==
  /\ pc[l] = "leased"
  /\ \E m \in msg[l], p \in scope[l] :
       /\ m.type \in {"request", "renew", "rebind"}
       /\ \E ip \in Granted(l, m, p) :
            Goto(l, "persist", {NewRow(p, m, ip, "active", p.row.secs)})
  /\ UNCHANGED <<dbVars, now, bound, overridden>>

\* The v4 answer to any other REQUEST; a client that gets it drops its address.
Nak(l) ==
  /\ pc[l] = "leased"
  /\ LoopFamily[l] = "v4"
  /\ \E m \in msg[l], p \in scope[l] :
       /\ m.type = "request"
       /\ Granted(l, m, p) = {}
       /\ bound' = [bound EXCEPT ![m.client] = {}]
  /\ Done(l)
  /\ UNCHANGED <<dbVars, now, overridden>>

\* No address: the v4 DISCOVER and every v6 message stay unanswered.
NoAddress(l) ==
  /\ pc[l] = "leased"
  /\ \E m \in msg[l], p \in scope[l] :
       /\ m.type \in {"discover", "solicit", "request", "renew", "rebind"}
       /\ m.type = "request" => LoopFamily[l] = "v6"
       /\ Allocated(l, m, p) = {}
  /\ Done(l)
  /\ UNCHANGED <<dbVars, now, bound, overridden>>

Inform(l) ==
  /\ pc[l] = "leased"
  /\ \E m \in msg[l] : m.type = "inform"
  /\ Done(l)
  /\ UNCHANGED <<dbVars, now, bound, overridden>>

\* Mutant of Mine: the leases of every client of the scope.
MineUnfiltered(l, m) == seenLeases[l]

Mine(l, m) == {r \in seenLeases[l] : r.client = m.client}

\* RELEASE and DECLINE: every lease read of this client; the v6 handler
\* deletes for both.
GiveBack(l) ==
  /\ pc[l] = "leased"
  /\ \E m \in msg[l] :
       /\ m.type \in {"release", "decline"}
       /\ IF Mine(l, m) = {} THEN Done(l)
          ELSE IF m.type = "decline" /\ LoopFamily[l] = "v4"
          THEN Goto(l, "decline", {WithState(r, "declined") : r \in Mine(l, m)})
          ELSE Goto(l, "delete", Mine(l, m))
  /\ UNCHANGED <<dbVars, now, bound, overridden>>

\* persist_v4_lease and persist_v6_lease; the foreign key needs the scope.
Persist(l) ==
  /\ pc[l] = "persist"
  /\ \A w \in work[l] : scopes[w.scope] # {}
  /\ leases' \in UpsertLeases(leases, work[l])
  /\ pc' = [pc EXCEPT ![l] = "reply"]
  /\ UNCHANGED <<scopes, reservations, now, msg, scope, seenRes, seenLeases,
                 work, bound, overridden>>

\* What build_v4_reply and build_v6_reply say of an address: yiaddr or IA_NA,
\* and a lease time that runs out with the row.
Told(w) == [scope |-> w.scope, ip |-> w.ip, until |-> w.expires]

\* The OFFER or ACK reaches the client, which may use an acknowledged address.
Reply(l) ==
  /\ pc[l] = "reply"
  /\ bound' = [c \in Clients |->
       LET given == {w \in work[l] : w.client = c /\ w.state = "active"}
       IN  IF given = {} THEN bound[c]
           ELSE {Told(w) : w \in given}]
  /\ Done(l)
  /\ UNCHANGED <<dbVars, now, overridden>>

DeleteReleased(l) ==
  /\ pc[l] = "delete"
  /\ leases' = DeleteLeases(leases, {w.id : w \in work[l]})
  /\ Done(l)
  /\ UNCHANGED <<scopes, reservations, now, bound, overridden>>

MarkDeclined(l) ==
  /\ pc[l] = "decline"
  /\ \A w \in work[l] : scopes[w.scope] # {}
  /\ leases' \in UpsertLeases(leases, work[l])
  /\ Done(l)
  /\ UNCHANGED <<scopes, reservations, now, bound, overridden>>

(***************************************************************************)
(* The handler stops where it is: a database call fails (a foreign key, a  *)
(* busy file), the reply cannot be sent or is lost on the way.  A crash    *)
(* and restart of the process is this step for every loop.                 *)
(***************************************************************************)
Abort(l) ==
  /\ pc[l] # "recv"
  /\ Done(l)
  /\ UNCHANGED <<dbVars, now, bound, overridden>>

-----------------------------------------------------------------------------
(* The clock, the sweeper and the administrator. *)

Tick ==
  /\ now < MaxTime
  /\ now' = now + 1
  /\ UNCHANGED <<dbVars, loopVars, bound, overridden>>

Sweep ==
  /\ PruneExpired(leases, now) # leases
  /\ leases' = PruneExpired(leases, now)
  /\ UNCHANGED <<scopes, reservations, now, loopVars, bound, overridden>>

\* name is UNIQUE.
NameFree(in, s) ==
  \A t \in ScopeIds \ {s} : \A r \in scopes[t] : r.name # in.name

\* The new id is one above the largest, as for leases.
CreateScope(s, in) ==
  /\ \A t \in ScopeIds : scopes[t] # {} => t < s
  /\ s = 1 \/ \E t \in ScopeIds : t = s - 1 /\ scopes[t] # {}
  /\ ValidScope(in)
  /\ NameFree(in, s)
  /\ scopes' = [scopes EXCEPT ![s] = {in}]
  /\ UNCHANGED <<reservations, leases, now, loopVars, bound, overridden>>

WithFamily(in, f) ==
  [name |-> in.name, enabled |-> in.enabled, family |-> f, subnet |-> in.subnet,
   iface |-> in.iface, lo |-> in.lo, hi |-> in.hi, secs |-> in.secs]

\* The stored family stays, whatever family the input was validated for.
\* Shorter leases overrule the promises made under the longer ones.
UpdateScope(s, in) ==
  /\ scopes[s] # {}
  /\ ValidScope(in)
  /\ NameFree(in, s)
  /\ scopes' = [scopes EXCEPT ![s] = {WithFamily(in, r.family) : r \in scopes[s]}]
  /\ overridden' = IF \E r \in scopes[s] : in.secs < r.secs
                   THEN overridden \cup ({s} \X Addrs) ELSE overridden
  /\ UNCHANGED <<reservations, leases, now, loopVars, bound>>

\* ON DELETE CASCADE removes the reservations and the leases.
DeleteScope(s) ==
  /\ scopes[s] # {}
  /\ scopes' = [scopes EXCEPT ![s] = {}]
  /\ reservations' = [i \in ResIds |-> {r \in reservations[i] : r.scope # s}]
  /\ leases' = {r \in leases : r.scope # s}
  /\ overridden' = overridden \cup ({s} \X Addrs)
  /\ UNCHANGED <<now, loopVars, bound>>

CreateReservation(i, r) ==
  /\ reservations[i] = {}
  /\ scopes[r.scope] # {}
  /\ reservations' = [reservations EXCEPT ![i] = {r}]
  /\ overridden' = overridden \cup {<<r.scope, r.ip>>}
  /\ UNCHANGED <<scopes, leases, now, loopVars, bound>>

\* The scope of a reservation never changes.
UpdateReservation(i, c, ip) ==
  /\ reservations[i] # {}
  /\ reservations' = [reservations EXCEPT ![i] =
       {[scope |-> r.scope, client |-> c, ip |-> ip] : r \in reservations[i]}]
  /\ overridden' = overridden \cup {<<r.scope, ip>> : r \in reservations[i]}
  /\ UNCHANGED <<scopes, leases, now, loopVars, bound>>

DeleteReservation(i) ==
  /\ reservations[i] # {}
  /\ reservations' = [reservations EXCEPT ![i] = {}]
  /\ UNCHANGED <<scopes, leases, now, loopVars, bound, overridden>>

DeleteLease(id) ==
  /\ \E r \in leases : r.id = id
  /\ leases' = DeleteLeases(leases, {id})
  /\ overridden' = overridden \cup {Key(r) : r \in {q \in leases : q.id = id}}
  /\ UNCHANGED <<scopes, reservations, now, loopVars, bound>>

Handle(l) ==
  \/ ReadReservations(l) \/ ReadLeases(l)
  \/ Offer(l) \/ Grant(l) \/ Nak(l) \/ NoAddress(l) \/ Inform(l) \/ GiveBack(l)
  \/ Persist(l) \/ Reply(l) \/ DeleteReleased(l) \/ MarkDeclined(l)

Admin ==
  \/ \E s \in ScopeIds, in \in ScopeInputs : CreateScope(s, in) \/ UpdateScope(s, in)
  \/ \E s \in ScopeIds : DeleteScope(s)
  \/ \E i \in ResIds, r \in Reservation : CreateReservation(i, r)
  \/ \E i \in ResIds, c \in Clients, ip \in Addrs : UpdateReservation(i, c, ip)
  \/ \E i \in ResIds : DeleteReservation(i)
  \/ \E id \in Ids : DeleteLease(id)

Next ==
  \/ \E l \in Loops, m \in Messages : Receive(l, m)
  \/ \E l \in Loops : Handle(l) \/ Abort(l)
  \/ Tick
  \/ Sweep
  \/ Admin

Spec == Init /\ [][Next]_vars

-----------------------------------------------------------------------------
(* Properties. *)

TypeOK ==
  /\ scopes \in [ScopeIds -> SUBSET Scope]
  /\ reservations \in [ResIds -> SUBSET Reservation]
  /\ leases \subseteq Lease
  /\ now \in Nat
  /\ pc \in [Loops -> PcValues]
  /\ msg \in [Loops -> SUBSET Message]
  /\ scope \in [Loops -> SUBSET [id : ScopeIds, row : Scope]]
  /\ seenRes \in [Loops -> SUBSET Reservation]
  /\ seenLeases \in [Loops -> SUBSET Lease]
  /\ work \in [Loops -> SUBSET Lease]
  /\ bound \in [Clients -> SUBSET Binding]
  /\ overridden \subseteq (ScopeIds \X Addrs)

\* Two clients never both have a lease of the same address that is still
\* running, unless an administrator has overruled its assignment (reserved
\* it, deleted its lease or its scope, or shortened the leases of the scope)
\* or a late DISCOVER, SOLICIT, RELEASE or DECLINE of the client has.
\* handle_v4 and handle_v6 decide on rows and a clock they read earlier.
NoDoubleBinding ==
  \A c, d \in Clients : \A b \in bound[c], e \in bound[d] :
    (/\ c # d
     /\ b.scope = e.scope /\ b.ip = e.ip
     /\ b.until > now /\ e.until > now)
    => <<b.scope, b.ip>> \in overridden

\* What a client was told is on record: a running lease in the hands of a
\* client is an active row of that client that lasts at least as long.  This
\* is why persist_v4_lease comes before send_v4.
BindingRecorded ==
  \A c \in Clients : \A b \in bound[c] :
    (b.until > now /\ <<b.scope, b.ip>> \notin overridden) =>
      \E r \in leases : /\ Key(r) = <<b.scope, b.ip>>
                        /\ r.client = c
                        /\ r.state = "active"
                        /\ r.expires >= b.until

RowsKept ==
  \A r \in leases :
    IsHolding(r, now) =>
      \/ \E q \in leases' : Key(q) = Key(r) /\ q.client = r.client
      \/ Key(r) \in overridden'
      \/ \E l \in Loops : \E m \in msg[l] :
           m.client = r.client /\ m.type \in {"release", "decline"}

\* A client that holds an address, offered or active, keeps its row until the
\* row expires: only a RELEASE or DECLINE of that client, or an administrator,
\* takes the row away or turns it over to another client.  Neither the sweeper
\* nor a handler working on rows it read earlier may.  Like NoDoubleBinding it
\* says nothing of an address that has been overridden.
HolderKeepsRow == [][RowsKept]_vars

=============================================================================
