---------------------------- MODULE DhcpServerInv ----------------------------
(***************************************************************************)
(* Why the handlers of one serving loop may work on rows they read         *)
(* earlier: the inductive invariant behind NoDoubleBinding,                *)
(* BindingRecorded and HolderKeepsRow when there is a single loop.         *)
(***************************************************************************)
EXTENDS DhcpServer

SingleLoop == \A k, l \in Loops : k = l

\* The UNIQUE constraints of the three tables.
TablesOK ==
  /\ \A s, t \in ScopeIds : \A r \in scopes[s], q \in scopes[t] :
       s = t \/ r.name = q.name => s = t /\ r = q
  /\ \A r, q \in leases : r.id = q.id \/ Key(r) = Key(q) => r = q

\* Whatever is, or was when last read, reserved counts as overruled.
ReservedOverridden ==
  /\ \A i \in ResIds : \A r \in reservations[i] : <<r.scope, r.ip>> \in overridden
  /\ \A l \in Loops : pc[l] \in {"reserved", "leased"} =>
       \A r \in seenRes[l], p \in scope[l] :
         r.scope = p.id /\ <<r.scope, r.ip>> \in overridden

\* The client uses no address, or only ones whose assignment is overruled.
LetGo(c) == \A b \in bound[c] : <<b.scope, b.ip>> \in overridden

\* The message and the copy of the scope that a handler works on.
HandlerOK ==
  \A l \in Loops :
    /\ \A m, n \in msg[l] : m = n
    /\ \A p, q \in scope[l] : p = q
    /\ pc[l] # "recv" => msg[l] # {} /\ scope[l] # {}
    /\ \A m \in msg[l] : GivesUp(m) => LetGo(m.client)
    /\ \A p \in scope[l] :
         \/ \A a \in Addrs : <<p.id, a>> \in overridden
         \/ scopes[p.id] # {} /\ \A r \in scopes[p.id] : p.row.secs <= r.secs

\* No lease a client holds outlasts one granted now.
LeaseLengths ==
  \A c \in Clients : \A b \in bound[c] :
    <<b.scope, b.ip>> \notin overridden =>
      /\ scopes[b.scope] # {}
      /\ \A r \in scopes[b.scope] : b.until <= now + r.secs
      /\ \A l \in Loops : \A p \in scope[l] :
           p.id = b.scope => b.until <= now + p.row.secs

\* The leases read still describe the table: rows may have gone since, none
\* has come or changed.
SnapshotOK ==
  \A l \in Loops : pc[l] = "leased" =>
    /\ \A r \in leases : \A p \in scope[l] : r.scope = p.id => r \in seenLeases[l]
    /\ \A q \in seenLeases[l], r \in leases :
         q.id = r.id \/ Key(q) = Key(r) => q = r
    /\ \A q, r \in seenLeases[l] : q.id = r.id \/ Key(q) = Key(r) => q = r

\* The row about to be written takes nothing from another client and never
\* cuts short what its own client was given.
PersistOK ==
  \A l \in Loops : pc[l] \in {"persist", "reply"} =>
    /\ \A v, w \in work[l] : v = w
    /\ \A w \in work[l] :
         /\ w.state \in {"offered", "active"}
         /\ w.state = "offered" => LetGo(w.client)
         /\ \E p \in scope[l] : w.scope = p.id /\ w.expires <= now + p.row.secs
         /\ (pc[l] = "persist" /\ Key(w) \notin overridden) =>
              /\ \A r \in leases :
                   Key(r) = Key(w) /\ r.client # w.client => ~IsHolding(r, now)
              /\ \A b \in bound[w.client] :
                   <<b.scope, b.ip>> = Key(w) /\ w.state = "active"
                     => b.until <= w.expires

\* Between the write and the reply the row stays.
ReplyOK ==
  \A l \in Loops : pc[l] = "reply" =>
    \A w \in work[l] :
      (w.state = "active" /\ w.expires > now /\ Key(w) \notin overridden) =>
        \E r \in leases : /\ Key(r) = Key(w)
                          /\ r.client = w.client
                          /\ r.state = "active"
                          /\ r.expires >= w.expires

\* RELEASE and DECLINE only reach rows of the client that sent them.
GiveBackOK ==
  \A l \in Loops : pc[l] \in {"delete", "decline"} =>
    /\ \A m \in msg[l] : m.type \in {"release", "decline"}
    /\ \A v, w \in work[l] : Key(v) = Key(w) => v = w
    /\ \A w \in work[l], m \in msg[l] : w.client = m.client
    /\ \A w \in work[l], r \in leases :
         w.id = r.id \/ Key(w) = Key(r) => r.client = w.client

\* The conjunction is inductive for a single loop, and holds only because
\* the loop finishes one message before it takes the next.
IndInv ==
  /\ TypeOK
  /\ TablesOK
  /\ ReservedOverridden
  /\ HandlerOK
  /\ LeaseLengths
  /\ SnapshotOK
  /\ PersistOK
  /\ ReplyOK
  /\ GiveBackOK
  /\ BindingRecorded

-----------------------------------------------------------------------------
(* The abstract view: who holds which address at this moment. *)

Holders ==
  [k \in ScopeIds \X Addrs |->
     {c \in Clients : \E b \in bound[c] : <<b.scope, b.ip>> = k /\ b.until > now}]

Book == INSTANCE AddressBook
  WITH Addresses <- ScopeIds \X Addrs, holders <- Holders, overruled <- overridden

\* The server implements the address book: to its clients, all the reading,
\* writing and replying of handle_v4 and handle_v6 looks like single steps
\* that give an address nobody else holds.
KeepsBook == Book!Spec

=============================================================================
