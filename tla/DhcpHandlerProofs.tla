------------------------- MODULE DhcpHandlerProofs --------------------------
(***************************************************************************)
(* Lemmas for the proofs about DhcpServer: the facts about allocation and  *)
(* the lease table; and that the steps of a serving loop, from the message *)
(* it receives to its writes and its answer, keep the inductive invariant  *)
(* IndInv.                                                                 *)
(***************************************************************************)
EXTENDS DhcpServerInv, TLAPS

-----------------------------------------------------------------------------
(* The lease table and the allocation policy. *)

\* allocate returns an address reserved for the client, or one that no other
\* client holds and that is not reserved.
LEMMA AllocateSafe ==
  ASSUME NEW sc, NEW rs, NEW ls, NEW c, NEW req, NEW t,
         NEW ip \in Allocate(sc, rs, ls, c, req, t)
  PROVE  \/ \E r \in rs : r.client = c /\ r.ip = ip
         \/ \A k \in ls : k.ip = ip /\ IsHolding(k, t) => k.client = c
<1> DEFINE reserved == {r.ip : r \in {q \in rs : q.client = c}}
           free     == Pool(sc) \ Used(rs, ls, c, t)
           own      == {k.ip : k \in {m \in ls : m.client = c /\ IsHolding(m, t)}}
<1>1. CASE reserved # {}
  <2>1. ip \in FirstListed(reserved)
    BY <1>1, Zenon DEF Allocate
  <2> QED  BY <2>1, Zenon DEF FirstListed
<1>2. CASE reserved = {}
  <2>1. ip \in free
    BY <1>2, Zenon DEF Allocate, FirstListed, Lowest
  <2>2. ip \notin {k.ip : k \in {m \in ls : IsHolding(m, t) /\ m.client # c}}
    BY <2>1, Zenon DEF Used
  <2> QED  BY <2>2, Zenon
<1> QED  BY <1>1, <1>2, Zenon

\* upsert_dhcp_lease keeps the keys and ids unique, leaves every row of
\* another key alone and leaves a row with the new contents for each row given.
LEMMA UpsertFacts ==
  ASSUME NEW ls \in SUBSET Lease, NEW rows \in SUBSET Lease,
         \A r, q \in ls : r.id = q.id \/ Key(r) = Key(q) => r = q,
         \A v, w \in rows : Key(v) = Key(w) => v = w,
         NEW T \in UpsertLeases(ls, rows)
  PROVE  /\ T \subseteq Lease
         /\ \A r, q \in T : r.id = q.id \/ Key(r) = Key(q) => r = q
         /\ \A r \in ls : (\A w \in rows : Key(r) # Key(w)) => r \in T
         /\ \A w \in rows : \E q \in T : /\ Key(q) = Key(w) /\ q.client = w.client
                                         /\ q.state = w.state /\ q.expires = w.expires
         /\ \A q \in T : \/ q \in ls /\ \A w \in rows : Key(q) # Key(w)
                         \/ \E w \in rows : /\ Key(q) = Key(w) /\ q.client = w.client
                                            /\ q.state = w.state /\ q.expires = w.expires
<1> DEFINE keep  == {k \in ls : \A w \in rows : Key(k) # Key(w)}
           fresh == {w \in rows : \A k \in ls : Key(k) # Key(w)}
           over  == {WithId(p[1], p[2].id) :
                       p \in {q \in rows \X ls : Key(q[1]) = Key(q[2])}}
<1>1. PICK f \in FreshIds(ls, fresh) :
         T = keep \cup over \cup {WithId(w, f[w]) : w \in fresh}
  BY Zenon DEF UpsertLeases
<1> DEFINE new == {WithId(w, f[w]) : w \in fresh}
<1>2. /\ f \in [fresh -> Nat]
      /\ \A w \in fresh : \A k \in ls : k.id < f[w]
      /\ \A v, w \in fresh : f[v] = f[w] => v = w
  BY <1>1, IdAssumption, Zenon DEF FreshIds
<1>3. \A q \in over : \E w \in rows, k \in ls :
         /\ Key(k) = Key(w) /\ q = WithId(w, k.id)
         /\ q \in Lease /\ q.id = k.id
         /\ Key(q) = Key(w) /\ q.client = w.client
         /\ q.state = w.state /\ q.expires = w.expires
  BY DEF Lease, Key, WithId
<1>4. \A q \in new : \E w \in fresh :
         /\ q = WithId(w, f[w]) /\ q \in Lease /\ q.id = f[w]
         /\ Key(q) = Key(w) /\ q.client = w.client
         /\ q.state = w.state /\ q.expires = w.expires
  BY <1>2 DEF Lease, Key, WithId
<1>5. T \subseteq Lease
  BY <1>1, <1>3, <1>4, Zenon
<1>6. \A w \in rows : \E q \in T : /\ Key(q) = Key(w) /\ q.client = w.client
                                   /\ q.state = w.state /\ q.expires = w.expires
  <2> SUFFICES ASSUME NEW w \in rows
               PROVE  \E q \in T : /\ Key(q) = Key(w) /\ q.client = w.client
                                   /\ q.state = w.state /\ q.expires = w.expires
    OBVIOUS
  <2>1. CASE w \in fresh
    <3>1. WithId(w, f[w]) \in T
      BY <2>1, <1>1, Zenon
    <3> QED  BY <3>1, Zenon DEF Lease, Key, WithId
  <2>2. CASE w \notin fresh
    <3>1. PICK k \in ls : Key(k) = Key(w)
      BY <2>2, Zenon
    <3>2. /\ <<w, k>> \in rows \X ls /\ <<w, k>>[1] = w /\ <<w, k>>[2] = k
      OBVIOUS
    <3>3. WithId(w, k.id) \in over
      BY <3>1, <3>2, Zenon
    <3>4. WithId(w, k.id) \in T
      BY <3>3, <1>1, Zenon
    <3>5. /\ Key(WithId(w, k.id)) = Key(w) /\ WithId(w, k.id).client = w.client
          /\ WithId(w, k.id).state = w.state /\ WithId(w, k.id).expires = w.expires
      BY Zenon DEF Key, WithId
    <3> QED  BY <3>4, <3>5, Zenon
  <2> QED  BY <2>1, <2>2, Zenon
<1>7. \A q \in T : \/ q \in ls /\ \A w \in rows : Key(q) # Key(w)
                   \/ \E w \in rows : /\ Key(q) = Key(w) /\ q.client = w.client
                                      /\ q.state = w.state /\ q.expires = w.expires
  BY <1>1, <1>3, <1>4
<1>8. ASSUME NEW r \in T, NEW q \in T, r.id = q.id \/ Key(r) = Key(q)
      PROVE  r = q
  <2>1. CASE r \in keep /\ q \in keep
    BY <2>1, <1>8, Zenon
  <2>2. ASSUME NEW a \in keep, NEW b \in over
        PROVE  a.id # b.id /\ Key(a) # Key(b)
    <3>1. PICK w \in rows, k \in ls : Key(k) = Key(w) /\ b.id = k.id /\ Key(b) = Key(w)
      BY <1>3
    <3>2. Key(a) # Key(w)
      OBVIOUS
    <3>3. a \in ls
      OBVIOUS
    <3> QED  BY <3>1, <3>2, <3>3, Zenon
  <2>3. ASSUME NEW a \in keep \cup over, NEW b \in new
        PROVE  a.id # b.id /\ Key(a) # Key(b)
    <3>1. PICK w \in fresh : b.id = f[w] /\ Key(b) = Key(w)
      BY <1>4, Zenon
    <3>2. PICK k \in ls : a.id = k.id /\ Key(a) = Key(k)
      BY <1>3
    <3>3. k.id < f[w] /\ Key(k) # Key(w) /\ k.id \in Nat /\ f[w] \in Nat
      BY <1>2, Zenon DEF Lease
    <3> QED  BY <3>1, <3>2, <3>3
  <2>4. CASE r \in over /\ q \in over
    <3>1. PICK w \in rows, k \in ls :
             Key(k) = Key(w) /\ r = WithId(w, k.id) /\ r.id = k.id /\ Key(r) = Key(w)
      BY <2>4, <1>3
    <3>2. PICK v \in rows, j \in ls :
             Key(j) = Key(v) /\ q = WithId(v, j.id) /\ q.id = j.id /\ Key(q) = Key(v)
      BY <2>4, <1>3
    <3>3. k = j
      BY <3>1, <3>2, <1>8
    <3>4. w = v
      BY <3>1, <3>2, <3>3, Zenon
    <3> QED  BY <3>1, <3>2, <3>3, <3>4, Zenon
  <2>5. CASE r \in new /\ q \in new
    <3>1. PICK w \in fresh : r = WithId(w, f[w]) /\ r.id = f[w] /\ Key(r) = Key(w)
      BY <2>5, <1>4, Zenon
    <3>2. PICK v \in fresh : q = WithId(v, f[v]) /\ q.id = f[v] /\ Key(q) = Key(v)
      BY <2>5, <1>4, Zenon
    <3>3. w = v
      BY <3>1, <3>2, <1>2, <1>8
    <3> QED  BY <3>1, <3>2, <3>3, Zenon
  <2> QED  BY <2>1, <2>2, <2>3, <2>4, <2>5, <1>1, <1>8, Zenon
<1>9. \A r \in ls : (\A w \in rows : Key(r) # Key(w)) => r \in T
  BY <1>1, Zenon
<1> QED  BY <1>5, <1>6, <1>7, <1>8, <1>9, Zenon

-----------------------------------------------------------------------------
(* The initial state, and the steps of a serving loop up to its decision. *)

\* The server starts with the invariant.
LEMMA InitInv == Init => IndInv
<1> SUFFICES ASSUME Init PROVE IndInv
  OBVIOUS
<1> USE DEF Init
<1>1. TypeOK
  BY InputAssumption, Zenon DEF TypeOK, PcValues
<1>2. TablesOK
  BY InputAssumption DEF TablesOK
<1>3. ReservedOverridden /\ HandlerOK /\ LeaseLengths /\ BindingRecorded
  BY Zenon DEF ReservedOverridden, HandlerOK, LeaseLengths, BindingRecorded
<1>4. SnapshotOK /\ PersistOK /\ ReplyOK /\ GiveBackOK
  BY Zenon DEF SnapshotOK, PersistOK, ReplyOK, GiveBackOK
<1> QED  BY <1>1, <1>2, <1>3, <1>4, Zenon DEF IndInv

\* A step that touches neither the tables of scopes and leases nor what the
\* clients hold leaves what is recorded as it was.
LEMMA TablesFrame ==
  ASSUME IndInv, UNCHANGED <<scopes, leases, now, bound, overridden>>
  PROVE  TablesOK' /\ BindingRecorded'
<1>1. TablesOK'
  BY DEF IndInv, TablesOK, Key
<1>2. BindingRecorded'
  BY Zenon DEF IndInv, BindingRecorded, Key
<1> QED  BY <1>1, <1>2, Zenon

\* A handler at work keeps its message and its copy of the scope.
LEMMA HandlerFrame ==
  ASSUME IndInv, \A k \in Loops : pc[k] # "recv",
         UNCHANGED <<scopes, now, bound, overridden, msg, scope>>
  PROVE  HandlerOK' /\ LeaseLengths'
<1>1. HandlerOK'
  BY DEF IndInv, HandlerOK, GivesUp, LetGo
<1>2. LeaseLengths'
  BY Zenon DEF IndInv, LeaseLengths
<1> QED  BY <1>1, <1>2, Zenon

\* What the invariant says of one step of a handler is true when no handler
\* is at that step.
LEMMA OtherSteps ==
  ASSUME IndInv
  PROVE  /\ (\A k \in Loops : pc'[k] # "leased") => SnapshotOK'
         /\ (\A k \in Loops : pc'[k] \notin {"persist", "reply"}) => PersistOK'
         /\ (\A k \in Loops : pc'[k] # "reply") => ReplyOK'
         /\ (\A k \in Loops : pc'[k] \notin {"delete", "decline"}) => GiveBackOK'
         /\ (\A k \in Loops : pc'[k] \notin {"reserved", "leased"})
              /\ UNCHANGED <<reservations, overridden>> => ReservedOverridden'
<1>1. /\ (\A k \in Loops : pc'[k] # "leased") => SnapshotOK'
      /\ (\A k \in Loops : pc'[k] # "reply") => ReplyOK'
  BY Zenon DEF SnapshotOK, ReplyOK
<1>2. (\A k \in Loops : pc'[k] \notin {"persist", "reply"}) => PersistOK'
  BY Zenon DEF PersistOK
<1>3. (\A k \in Loops : pc'[k] \notin {"delete", "decline"}) => GiveBackOK'
  BY Zenon DEF GiveBackOK
<1>4. (\A k \in Loops : pc'[k] \notin {"reserved", "leased"})
         /\ UNCHANGED <<reservations, overridden>> => ReservedOverridden'
  BY Zenon DEF IndInv, ReservedOverridden
<1> QED  BY <1>1, <1>2, <1>3, <1>4, Zenon

\* A handler that returns leaves its loop idle.
LEMMA Returned ==
  ASSUME SingleLoop, IndInv, NEW l \in Loops, Done(l),
         leases' \subseteq Lease, bound' \in [Clients -> SUBSET Binding],
         UNCHANGED <<scopes, reservations, now, overridden>>
  PROVE  /\ TypeOK' /\ ReservedOverridden' /\ HandlerOK'
         /\ SnapshotOK' /\ PersistOK' /\ ReplyOK' /\ GiveBackOK'
         /\ \A k \in Loops : scope'[k] = {}
<1>1. TypeOK'
  BY Zenon DEF Done, IndInv, TypeOK, PcValues
<1>2. \A k \in Loops : pc'[k] = "recv" /\ msg'[k] = {} /\ scope'[k] = {}
  BY Zenon DEF Done, SingleLoop, IndInv, TypeOK
<1>3. HandlerOK'
  BY <1>2, Zenon DEF HandlerOK
<1>4. ReservedOverridden' /\ SnapshotOK' /\ PersistOK' /\ ReplyOK' /\ GiveBackOK'
  BY <1>2, OtherSteps, Zenon
<1> QED  BY <1>1, <1>2, <1>3, <1>4, Zenon

\* A handler that returns without a write, having at most told its client to
\* drop its address.
LEMMA FinishInv ==
  ASSUME SingleLoop, IndInv, NEW l \in Loops, Done(l),
         UNCHANGED <<dbVars, now, overridden>>,
         bound' \in [Clients -> SUBSET Binding],
         \A c \in Clients : bound'[c] \subseteq bound[c]
  PROVE  IndInv'
<1> USE DEF dbVars
<1>1. leases \subseteq Lease
  BY Zenon DEF IndInv, TypeOK
<1>2. /\ TypeOK' /\ ReservedOverridden' /\ HandlerOK'
      /\ SnapshotOK' /\ PersistOK' /\ ReplyOK' /\ GiveBackOK'
      /\ \A k \in Loops : scope'[k] = {}
  BY <1>1, Returned, Zenon
<1>3. TablesOK'
  BY DEF IndInv, TablesOK, Key
<1>4. LeaseLengths'
  BY <1>2, Zenon DEF IndInv, LeaseLengths
<1>5. BindingRecorded'
  BY Zenon DEF IndInv, BindingRecorded, Key
<1> QED  BY <1>2, <1>3, <1>4, <1>5, Zenon DEF IndInv

\* The scope selected is one row of the table.
LEMMA SelectedScope ==
  ASSUME TypeOK, TablesOK, NEW l \in Loops, NEW m \in Message
  PROVE  /\ \A p \in SelectScope(l, m) : p.id \in ScopeIds /\ p.row \in scopes[p.id]
         /\ SelectScope(l, m) \subseteq [id : ScopeIds, row : Scope]
         /\ \A p, q \in SelectScope(l, m) : p = q
<1>1. \A p \in ScopeRows : /\ p.id \in ScopeIds /\ p.row \in scopes[p.id]
                           /\ p \in [id : ScopeIds, row : Scope]
  BY DEF ScopeRows, TypeOK
<1>2. \A S \in SUBSET ScopeRows : /\ FirstNamed(S) \subseteq ScopeRows
                                  /\ \A p, q \in FirstNamed(S) : p = q
  <2> SUFFICES ASSUME NEW S \in SUBSET ScopeRows, NEW p \in FirstNamed(S),
                      NEW q \in FirstNamed(S)
               PROVE  p = q
    BY Zenon DEF FirstNamed
  <2>1. p \in ScopeRows /\ q \in ScopeRows /\ p.row.name <= q.row.name /\ q.row.name <= p.row.name
    BY Zenon DEF FirstNamed
  <2>2. p.row \in Scope /\ q.row \in Scope
    BY <2>1, <1>1, Zenon
  <2>3. p.row.name = q.row.name
    BY <2>1, <2>2 DEF Scope
  <2>4. p.id = q.id /\ p.row = q.row
    BY <2>1, <2>3, <1>1, Zenon DEF TablesOK
  <2> QED  BY <2>1, <2>4, <1>1
<1>3. PICK S \in SUBSET ScopeRows : SelectScope(l, m) = FirstNamed(S)
  BY Zenon DEF SelectScope, SelectV4Scope, Enabled
<1> QED  BY <1>1, <1>2, <1>3, Zenon

\* A datagram makes its client give up what it gives up by sending it, or
\* overrules what the client has if it comes late.
LEMMA ReceiveInv ==
  ASSUME SingleLoop, IndInv, NEW l \in Loops, NEW m \in Messages, Receive(l, m)
  PROVE  IndInv'
<1> USE DEF dbVars, loopVars
<1>1. m \in Message /\ m.client \in Clients
  BY InputAssumption, Zenon DEF Message
<1>2. bound' \in [Clients -> SUBSET Binding] /\ \A c \in Clients : bound'[c] \subseteq bound[c]
  BY <1>1, Zenon DEF Receive, InTime, Late, IndInv, TypeOK
<1>11. overridden \subseteq overridden' /\ overridden' \in SUBSET (ScopeIds \X Addrs)
  <2>1. \A b \in bound[m.client] : <<b.scope, b.ip>> \in ScopeIds \X Addrs
    BY <1>1 DEF IndInv, TypeOK, Binding
  <2>2. overridden \in SUBSET (ScopeIds \X Addrs)
    BY Zenon DEF IndInv, TypeOK
  <2> QED  BY <2>1, <2>2, Zenon DEF Receive, InTime, Late
<1>12. UNCHANGED <<scopes, reservations, leases, now>>
  BY Zenon DEF Receive
<1>13. GivesUp(m) => LetGo(m.client)'
  <2>1. CASE InTime(m)
    <3>1. bound \in [Clients -> SUBSET Binding]
      BY Zenon DEF IndInv, TypeOK
    <3>2. GivesUp(m) => bound'[m.client] = {}
      BY <1>1, <2>1, <3>1, Zenon DEF InTime
    <3> QED  BY <3>2, Zenon DEF LetGo
  <2>2. CASE Late(m)
    BY <2>2, Zenon DEF Late, LetGo
  <2> QED  BY <2>1, <2>2, Zenon DEF Receive
<1>3. /\ \A p \in SelectScope(l, m) : p.id \in ScopeIds /\ p.row \in scopes[p.id]
      /\ SelectScope(l, m) \subseteq [id : ScopeIds, row : Scope]
      /\ \A p, q \in SelectScope(l, m) : p = q
  BY <1>1, SelectedScope, Zenon DEF IndInv
<1>7. \A k \in Loops : pc'[k] \in {"recv", "scoped"}
  BY DEF Receive, SingleLoop, IndInv, TypeOK
<1>4. BindingRecorded'
  BY <1>2, <1>11, <1>12, Zenon DEF IndInv, BindingRecorded, Key
<1>5. TablesOK' /\ ReservedOverridden'
  <2>1. TablesOK'
    BY <1>12 DEF IndInv, TablesOK, Key
  <2>2. ReservedOverridden'
    BY <1>7, <1>11, <1>12, Zenon DEF IndInv, ReservedOverridden
  <2> QED  BY <2>1, <2>2, Zenon
<1>6. TypeOK'
  BY <1>1, <1>2, <1>3, <1>11, <1>12 DEF Receive, IndInv, TypeOK, PcValues
<1>8. SnapshotOK' /\ PersistOK' /\ ReplyOK' /\ GiveBackOK'
  BY <1>7, Zenon DEF SnapshotOK, PersistOK, ReplyOK, GiveBackOK
<1>9. HandlerOK'
  <2>1. CASE SelectScope(l, m) = {}
    <3>1. UNCHANGED <<pc, msg, scope>>
      BY <2>1, Zenon DEF Receive
    <3>2. \A k \in Loops : \A n \in msg[k] : n.client \in Clients
      BY DEF IndInv, TypeOK, Message
    <3>3. \A c \in Clients : LetGo(c) => LetGo(c)'
      BY <1>2, <1>11, Zenon DEF LetGo
    <3>4. \A k \in Loops : \A n \in msg[k] : GivesUp(n) => LetGo(n.client)'
      BY <3>2, <3>3, Zenon DEF IndInv, HandlerOK
    <3>5. \A k \in Loops : \A p \in scope[k] :
            \/ \A a \in Addrs : <<p.id, a>> \in overridden'
            \/ scopes[p.id] # {} /\ \A r \in scopes[p.id] : p.row.secs <= r.secs
      BY <1>11 DEF IndInv, HandlerOK
    <3>6. \A k \in Loops : /\ \A x, y \in msg[k] : x = y
                           /\ \A x, y \in scope[k] : x = y
                           /\ pc[k] # "recv" => msg[k] # {} /\ scope[k] # {}
      BY Zenon DEF IndInv, HandlerOK
    <3> QED  BY <1>12, <3>1, <3>4, <3>5, <3>6, Zenon DEF HandlerOK, GivesUp, LetGo
  <2>2. CASE SelectScope(l, m) # {}
    <3>1. \A k \in Loops : msg'[k] = {m} /\ scope'[k] = SelectScope(l, m)
      BY <2>2 DEF Receive, SingleLoop, IndInv, TypeOK
    <3>2. GivesUp(m) => LetGo(m.client)'
      BY <1>13, Zenon
    <3>3. \A p \in SelectScope(l, m) :
            scopes'[p.id] # {} /\ \A r \in scopes'[p.id] : p.row.secs <= r.secs
      BY <1>3, <1>12 DEF IndInv, TablesOK, TypeOK, Scope
    <3> QED  BY <1>3, <2>2, <3>1, <3>2, <3>3, Zenon DEF HandlerOK, GivesUp, LetGo
  <2> QED  BY <2>1, <2>2, Zenon
<1>10. LeaseLengths'
  BY <1>2, <1>3, <1>11, <1>12 DEF Receive, SingleLoop, IndInv, LeaseLengths, TypeOK
<1> QED  BY <1>4, <1>5, <1>6, <1>8, <1>9, <1>10, Zenon DEF IndInv

\* The reservations read are overruled keys, as those in the table are.
LEMMA ReadReservationsInv ==
  ASSUME SingleLoop, IndInv, NEW l \in Loops, ReadReservations(l)
  PROVE  IndInv'
<1>1. TypeOK'
  BY DEF ReadReservations, dbVars, IndInv, TypeOK, PcValues
<1>2. \A k \in Loops : k = l /\ pc[k] = "scoped" /\ pc'[k] = "reserved"
  BY Zenon DEF ReadReservations, SingleLoop, IndInv, TypeOK
<1>3. UNCHANGED <<scopes, reservations, leases, now, bound, overridden, msg, scope>>
  BY Zenon DEF ReadReservations, dbVars
<1>4. TablesOK' /\ BindingRecorded' /\ HandlerOK' /\ LeaseLengths'
  BY <1>2, <1>3, TablesFrame, HandlerFrame, Zenon
<1>5. ReservedOverridden'
  BY <1>2 DEF ReadReservations, dbVars, IndInv, ReservedOverridden, HandlerOK, TypeOK
<1>6. SnapshotOK' /\ PersistOK' /\ ReplyOK' /\ GiveBackOK'
  BY <1>2, OtherSteps, Zenon
<1> QED  BY <1>1, <1>4, <1>5, <1>6, Zenon DEF IndInv

\* At the moment they are read the leases are the table.
LEMMA ReadLeasesInv ==
  ASSUME SingleLoop, IndInv, NEW l \in Loops, ReadLeases(l)
  PROVE  IndInv'
<1>1. TypeOK'
  BY Zenon DEF ReadLeases, dbVars, IndInv, TypeOK, PcValues
<1>2. /\ \A k \in Loops : k = l /\ pc[k] = "reserved" /\ pc'[k] = "leased"
      /\ seenLeases'[l] = {r \in leases : \E p \in scope[l] : r.scope = p.id}
  BY Zenon DEF ReadLeases, SingleLoop, IndInv, TypeOK
<1>3. UNCHANGED <<scopes, reservations, leases, now, bound, overridden, msg, scope, seenRes>>
  BY Zenon DEF ReadLeases, dbVars
<1>4. TablesOK' /\ BindingRecorded' /\ HandlerOK' /\ LeaseLengths'
  BY <1>2, <1>3, TablesFrame, HandlerFrame, Zenon
<1>5. ReservedOverridden'
  BY <1>2, <1>3 DEF IndInv, ReservedOverridden
<1>6. SnapshotOK'
  BY <1>2, <1>3 DEF SnapshotOK, IndInv, TablesOK, Key
<1>7. PersistOK' /\ ReplyOK' /\ GiveBackOK'
  BY <1>2, OtherSteps, Zenon
<1> QED  BY <1>1, <1>4, <1>5, <1>6, <1>7, Zenon DEF IndInv

-----------------------------------------------------------------------------
(* The decisions: to offer an address, to grant it, to take back rows. *)

\* What allocate returned may be written down for the client.
LEMMA AllocatedFree ==
  ASSUME IndInv, NEW l \in Loops, pc[l] = "leased",
         NEW m \in msg[l], NEW p \in scope[l], NEW ip \in Allocated(l, m, p)
  PROVE  /\ ip \in Addrs
         /\ <<p.id, ip>> \notin overridden =>
              \A r \in leases : (Key(r) = <<p.id, ip>> /\ r.client # m.client)
                                  => ~IsHolding(r, now)
<1>1. ip \in Addrs
  BY Zenon DEF Allocated, AddrsOf, Addrs
<1>2. ASSUME <<p.id, ip>> \notin overridden,
             NEW r \in leases, Key(r) = <<p.id, ip>>, r.client # m.client
      PROVE  ~IsHolding(r, now)
  <2>1. r.scope = p.id /\ r.ip = ip
    BY <1>2, Zenon DEF Key
  <2>2. r \in seenLeases[l]
    BY <2>1, Zenon DEF IndInv, SnapshotOK
  <2>3. \A q \in seenRes[l] : q.scope = p.id /\ <<q.scope, q.ip>> \in overridden
    BY Zenon DEF IndInv, ReservedOverridden
  <2>4. PICK req : ip \in Allocate(p.row, seenRes[l], seenLeases[l], m.client, req, now)
    BY Zenon DEF Allocated
  <2>5. \/ \E q \in seenRes[l] : q.client = m.client /\ q.ip = ip
        \/ \A k \in seenLeases[l] : k.ip = ip /\ IsHolding(k, now) => k.client = m.client
    BY <2>4, AllocateSafe
  <2> QED  BY <1>2, <2>1, <2>2, <2>3, <2>5, Zenon
<1> QED  BY <1>1, <1>2, Zenon

\* The decision of Offer and of Grant.
LEMMA DecideInv ==
  ASSUME SingleLoop, IndInv, NEW l \in Loops, pc[l] = "leased",
         NEW m \in msg[l], NEW p \in scope[l], NEW ip \in Allocated(l, m, p),
         NEW st \in {"offered", "active"}, NEW secs \in Nat, secs <= p.row.secs,
         st = "offered" => GivesUp(m), st = "active" => secs = p.row.secs,
         Goto(l, "persist", {NewRow(p, m, ip, st, secs)}),
         UNCHANGED <<dbVars, now, bound, overridden>>
  PROVE  IndInv'
<1> DEFINE row == NewRow(p, m, ip, st, secs)
<1>1. /\ m.client \in Clients /\ p.id \in ScopeIds /\ p.row.secs \in Nat /\ now \in Nat
  BY DEF IndInv, TypeOK, Message, Scope
<1>2. ip \in Addrs
  BY AllocatedFree, Zenon
<1>3. /\ row \in Lease
      /\ row.client = m.client /\ row.state = st /\ row.scope = p.id
      /\ row.expires = now + secs /\ Key(row) = <<p.id, ip>>
  BY <1>1, <1>2 DEF NewRow, Lease, LeaseState, Key
<1> HIDE DEF row
<1>4. TypeOK'
  BY <1>3, Zenon DEF Goto, dbVars, row, IndInv, TypeOK, PcValues
<1>5. \A k \in Loops : k = l /\ pc[k] # "recv" /\ pc'[k] = "persist" /\ work'[k] = {row}
  BY Zenon DEF Goto, row, SingleLoop, IndInv, TypeOK
<1>6. UNCHANGED <<scopes, reservations, leases, now, bound, overridden, msg, scope>>
  BY Zenon DEF Goto, dbVars
<1>7. TablesOK' /\ BindingRecorded' /\ HandlerOK' /\ LeaseLengths'
  BY <1>5, <1>6, TablesFrame, HandlerFrame, Zenon
<1>8. ReservedOverridden' /\ SnapshotOK' /\ ReplyOK' /\ GiveBackOK'
  BY <1>5, <1>6, OtherSteps, Zenon
<1>9. PersistOK'
  <2>1. row.state \in {"offered", "active"} /\ row.expires <= now + p.row.secs
    BY <1>1, <1>3
  <2>2. row.state = "offered" => LetGo(row.client)
    BY <1>3, Zenon DEF IndInv, HandlerOK
  <2>3. Key(row) \notin overridden =>
          \A r \in leases : Key(r) = Key(row) /\ r.client # row.client => ~IsHolding(r, now)
    BY <1>3, AllocatedFree, Zenon
  <2>4. ASSUME Key(row) \notin overridden, row.state = "active", NEW b \in bound[row.client],
               <<b.scope, b.ip>> = Key(row)
        PROVE  b.until <= row.expires
    BY <1>1, <1>3, <2>4 DEF IndInv, LeaseLengths, TypeOK
  <2>5. row.state = "offered" =>
          \A b \in bound'[row.client] : <<b.scope, b.ip>> \in overridden'
    BY <1>6, <2>2, Zenon DEF LetGo
  <2>6. \E q \in scope'[l] : row.scope = q.id /\ row.expires <= now' + q.row.secs
    BY <1>3, <1>6, <2>1, Zenon
  <2>7. Key(row) \notin overridden' =>
          \A r \in leases' : Key(r) = Key(row) /\ r.client # row.client => ~IsHolding(r, now')
    BY <1>6, <2>3, Zenon
  <2>8. Key(row) \notin overridden' =>
          \A b \in bound'[row.client] :
            <<b.scope, b.ip>> = Key(row) /\ row.state = "active" => b.until <= row.expires
    BY <1>6, <2>4, Zenon
  <2> QED  BY <1>5, <2>1, <2>5, <2>6, <2>7, <2>8, Zenon DEF PersistOK, LetGo
<1> QED  BY <1>4, <1>7, <1>8, <1>9, Zenon DEF IndInv

\* An OFFER goes to a client that has given up its address, or whose
\* DISCOVER came late.
LEMMA OfferInv ==
  ASSUME SingleLoop, IndInv, NEW l \in Loops, Offer(l)
  PROVE  IndInv'
<1>1. PICK m \in msg[l], p \in scope[l] :
        /\ m.type \in {"discover", "solicit"}
        /\ \E ip \in Allocated(l, m, p) :
             Goto(l, "persist",
                  {NewRow(p, m, ip, "offered", MinSecs(p.row.secs, OfferHoldSecs))})
  BY Zenon DEF Offer
<1>2. PICK ip \in Allocated(l, m, p) :
        Goto(l, "persist", {NewRow(p, m, ip, "offered", MinSecs(p.row.secs, OfferHoldSecs))})
  BY <1>1, Zenon
<1>3. /\ MinSecs(p.row.secs, OfferHoldSecs) \in Nat
      /\ MinSecs(p.row.secs, OfferHoldSecs) <= p.row.secs
  BY TimeAssumption DEF IndInv, TypeOK, Scope, MinSecs
<1>4. GivesUp(m)
  BY <1>1, Zenon DEF GivesUp
<1>5. pc[l] = "leased" /\ UNCHANGED <<dbVars, now, bound, overridden>>
  BY Zenon DEF Offer
<1> QED  BY <1>2, <1>3, <1>4, <1>5, DecideInv, Zenon

\* An ACK never cuts short what its client was given.
LEMMA GrantInv ==
  ASSUME SingleLoop, IndInv, NEW l \in Loops, Grant(l)
  PROVE  IndInv'
<1>1. PICK m \in msg[l], p \in scope[l] :
        \E ip \in Granted(l, m, p) :
          Goto(l, "persist", {NewRow(p, m, ip, "active", p.row.secs)})
  BY Zenon DEF Grant
<1>2. PICK ip \in Allocated(l, m, p) :
        Goto(l, "persist", {NewRow(p, m, ip, "active", p.row.secs)})
  BY <1>1, Zenon DEF Granted
<1>3. p.row.secs \in Nat /\ p.row.secs <= p.row.secs
  BY DEF IndInv, TypeOK, Scope
<1>4. pc[l] = "leased" /\ UNCHANGED <<dbVars, now, bound, overridden>>
  BY Zenon DEF Grant
<1> QED  BY <1>2, <1>3, <1>4, DecideInv, Zenon

\* RELEASE and DECLINE pick rows of their own client.
LEMMA GiveBackInv ==
  ASSUME SingleLoop, IndInv, NEW l \in Loops, GiveBack(l)
  PROVE  IndInv'
<1> USE DEF dbVars
<1>1. PICK m \in msg[l] :
        /\ m.type \in {"release", "decline"}
        /\ \/ Done(l)
           \/ Goto(l, "decline", {WithState(r, "declined") : r \in Mine(l, m)})
           \/ Goto(l, "delete", Mine(l, m))
  BY Zenon DEF GiveBack
<1>2. pc[l] = "leased" /\ UNCHANGED <<dbVars, now, bound, overridden>>
  BY Zenon DEF GiveBack
<1>3. CASE Done(l)
  <2>1. bound' \in [Clients -> SUBSET Binding] /\ \A c \in Clients : bound'[c] \subseteq bound[c]
    BY <1>2, Zenon DEF IndInv, TypeOK
  <2> QED  BY <1>2, <1>3, <2>1, FinishInv, Zenon
<1>4. ASSUME NEW lab \in {"decline", "delete"}, NEW rows \in SUBSET Lease,
             Goto(l, lab, rows),
             \A w \in rows : \E q \in Mine(l, m) :
               w.id = q.id /\ Key(w) = Key(q) /\ w.client = q.client,
             \A v, w \in rows : Key(v) = Key(w) => v = w
      PROVE  IndInv'
  <2>1. TypeOK'
    BY <1>2, <1>4, Zenon DEF Goto, IndInv, TypeOK, PcValues
  <2>2. \A k \in Loops : k = l /\ pc[k] # "recv" /\ pc'[k] = lab /\ work'[k] = rows
    BY <1>2, <1>4 DEF Goto, SingleLoop, IndInv, TypeOK
  <2>3. UNCHANGED <<scopes, reservations, leases, now, bound, overridden, msg, scope>>
    BY <1>2, <1>4, Zenon DEF Goto
  <2>4. TablesOK' /\ BindingRecorded' /\ HandlerOK' /\ LeaseLengths'
    BY <2>2, <2>3, TablesFrame, HandlerFrame, Zenon
  <2>5. ReservedOverridden' /\ SnapshotOK' /\ ReplyOK' /\ PersistOK'
    BY <2>2, <2>3, OtherSteps, Zenon
  <2>6. \A n \in msg[l] : n = m
    BY Zenon DEF IndInv, HandlerOK
  <2>7. \A w \in rows : w.client = m.client
    BY <1>4 DEF Mine
  <2>8. ASSUME NEW w \in rows, NEW r \in leases, w.id = r.id \/ Key(w) = Key(r)
        PROVE  r.client = w.client
    <3>1. PICK q \in Mine(l, m) : w.id = q.id /\ Key(w) = Key(q) /\ w.client = q.client
      BY <1>4, Zenon
    <3>2. q \in seenLeases[l]
      BY <3>1, Zenon DEF Mine
    <3>3. q = r
      BY <1>2, <2>8, <3>1, <3>2, Zenon DEF IndInv, SnapshotOK
    <3> QED  BY <3>1, <3>3, Zenon
  <2>9. GiveBackOK'
    <3> SUFFICES ASSUME NEW k \in Loops
                 PROVE  /\ \A n \in msg'[k] : n.type \in {"release", "decline"}
                        /\ \A v, w \in work'[k] : Key(v) = Key(w) => v = w
                        /\ \A w \in work'[k], n \in msg'[k] : w.client = n.client
                        /\ \A w \in work'[k], r \in leases' :
                             w.id = r.id \/ Key(w) = Key(r) => r.client = w.client
      BY Zenon DEF GiveBackOK, Key
    <3>1. k = l /\ work'[k] = rows /\ msg'[k] = msg[l] /\ leases' = leases
      BY <2>2, <2>3, Zenon
    <3> QED  BY <1>1, <1>4, <2>6, <2>7, <2>8, <3>1, Zenon
  <2> QED  BY <2>1, <2>4, <2>5, <2>9, Zenon DEF IndInv
<1>5. /\ Mine(l, m) \in SUBSET Lease
      /\ \A v, w \in Mine(l, m) : Key(v) = Key(w) => v = w
  BY <1>2, Zenon DEF Mine, IndInv, TypeOK, SnapshotOK
<1>6. CASE Goto(l, "delete", Mine(l, m))
  BY <1>4, <1>5, <1>6, Zenon
<1>7. CASE Goto(l, "decline", {WithState(r, "declined") : r \in Mine(l, m)})
  <2> DEFINE rows == {WithState(r, "declined") : r \in Mine(l, m)}
  <2>1. \A w \in rows : \E q \in Mine(l, m) :
          /\ w = WithState(q, "declined") /\ w \in Lease
          /\ w.id = q.id /\ Key(w) = Key(q) /\ w.client = q.client
    BY <1>5 DEF WithState, Lease, LeaseState, Key
  <2>2. \A v, w \in rows : Key(v) = Key(w) => v = w
    BY <1>5, <2>1
  <2> HIDE DEF rows
  <2>3. rows \in SUBSET Lease
    BY <2>1, Zenon
  <2>4. Goto(l, "decline", rows)
    BY <1>7, Zenon DEF rows
  <2> QED  BY <1>4, <2>1, <2>2, <2>3, <2>4
<1> QED  BY <1>1, <1>3, <1>6, <1>7, Zenon

-----------------------------------------------------------------------------
(* The writes to the lease table, and the answer. *)

\* The write overwrites at most an old row of its own client or a row that
\* no longer holds the address.
LEMMA PersistInv ==
  ASSUME SingleLoop, IndInv, NEW l \in Loops, Persist(l)
  PROVE  IndInv'
<1> USE DEF dbVars
<1>1. /\ pc[l] = "persist" /\ pc' = [pc EXCEPT ![l] = "reply"]
      /\ leases' \in UpsertLeases(leases, work[l])
      /\ UNCHANGED <<scopes, reservations, now, msg, scope, seenRes, seenLeases,
                     work, bound, overridden>>
  BY Zenon DEF Persist
<1>2. /\ leases \in SUBSET Lease /\ work[l] \in SUBSET Lease
      /\ \A r, q \in leases : r.id = q.id \/ Key(r) = Key(q) => r = q
      /\ \A v, w \in work[l] : Key(v) = Key(w) => v = w
  BY <1>1 DEF IndInv, TypeOK, TablesOK, PersistOK
<1>3. /\ leases' \subseteq Lease
      /\ \A r, q \in leases' : r.id = q.id \/ Key(r) = Key(q) => r = q
      /\ \A r \in leases : (\A w \in work[l] : Key(r) # Key(w)) => r \in leases'
      /\ \A w \in work[l] : \E q \in leases' :
           /\ Key(q) = Key(w) /\ q.client = w.client
           /\ q.state = w.state /\ q.expires = w.expires
  BY <1>1, <1>2, UpsertFacts
<1>4. \A k \in Loops : k = l /\ pc[k] # "recv" /\ pc'[k] = "reply"
  BY <1>1, Zenon DEF SingleLoop, IndInv, TypeOK
<1>5. TypeOK'
  BY <1>1, <1>3, Zenon DEF IndInv, TypeOK, PcValues
<1>6. TablesOK'
  BY <1>1, <1>3 DEF IndInv, TablesOK, Key
<1>7. HandlerOK' /\ LeaseLengths'
  BY <1>1, <1>4, HandlerFrame, Zenon
<1>8. ReservedOverridden' /\ SnapshotOK' /\ GiveBackOK'
  BY <1>1, <1>4, OtherSteps, Zenon
<1>9. PersistOK'
  BY <1>1, <1>4 DEF IndInv, PersistOK, LetGo
<1>10. ReplyOK'
  <2>1. \A w \in work[l] : w.expires \in Nat
    BY <1>2, Zenon DEF Lease
  <2> QED  BY <1>1, <1>3, <1>4, <2>1 DEF ReplyOK, Key
<1>11. BindingRecorded'
  <2> SUFFICES ASSUME NEW c \in Clients, NEW b \in bound[c], b.until > now,
                      <<b.scope, b.ip>> \notin overridden
               PROVE  \E r \in leases' : /\ Key(r) = <<b.scope, b.ip>>
                                         /\ r.client = c
                                         /\ r.state = "active"
                                         /\ r.expires >= b.until
    BY <1>1, Zenon DEF BindingRecorded, Key
  <2>1. PICK r \in leases : /\ Key(r) = <<b.scope, b.ip>> /\ r.client = c
                            /\ r.state = "active" /\ r.expires >= b.until
    BY Zenon DEF IndInv, BindingRecorded
  <2>2. CASE \A w \in work[l] : Key(r) # Key(w)
    BY <1>3, <2>1, <2>2, Zenon
  <2>3. ASSUME NEW w \in work[l], Key(r) = Key(w)
        PROVE  \E q \in leases' : /\ Key(q) = <<b.scope, b.ip>> /\ q.client = c
                                  /\ q.state = "active" /\ q.expires >= b.until
    <3>1. IsHolding(r, now)
      BY <2>1 DEF IsHolding, LeaseExpired, IndInv, TypeOK, Lease, Binding
    <3>2. w.client = c
      BY <1>1, <2>1, <2>3, <3>1 DEF IndInv, PersistOK
    <3>3. w.state = "active" /\ b.until <= w.expires
      BY <1>1, <2>1, <2>3, <3>2 DEF IndInv, PersistOK, LetGo
    <3>4. PICK q \in leases' : /\ Key(q) = Key(w) /\ q.client = w.client
                               /\ q.state = w.state /\ q.expires = w.expires
      BY <1>3, Zenon
    <3>5. w.expires \in Nat /\ b.until \in Nat
      BY <1>2 DEF Lease, IndInv, TypeOK, Binding
    <3> QED  BY <2>1, <2>3, <3>2, <3>3, <3>4, <3>5, Zenon
  <2> QED  BY <2>2, <2>3, Zenon
<1> QED  BY <1>5, <1>6, <1>7, <1>8, <1>9, <1>10, <1>11, Zenon DEF IndInv

\* The client learns of a row that is there.
LEMMA ReplyInv ==
  ASSUME SingleLoop, IndInv, NEW l \in Loops, Reply(l)
  PROVE  IndInv'
<1> USE DEF dbVars
<1>1. pc[l] = "reply" /\ Done(l) /\ UNCHANGED <<dbVars, now, overridden>>
  BY Zenon DEF Reply
<1>2. ASSUME NEW c \in Clients, NEW b \in bound'[c]
      PROVE  \/ b \in bound[c]
             \/ \E w \in work[l] : /\ w.client = c /\ w.state = "active"
                                   /\ b = [scope |-> w.scope, ip |-> w.ip, until |-> w.expires]
  BY <1>2, Zenon DEF Reply, Told
<1>3. bound' \in [Clients -> SUBSET Binding]
  <2>1. \A c \in Clients : bound[c] \subseteq Binding
    BY Zenon DEF IndInv, TypeOK
  <2>2. \A w \in work[l] : [scope |-> w.scope, ip |-> w.ip, until |-> w.expires] \in Binding
    BY DEF IndInv, TypeOK, Lease, Binding
  <2>3. \A c \in Clients : bound'[c] \subseteq Binding
    BY <1>2, <2>1, <2>2
  <2>4. bound' = [c \in Clients |-> bound'[c]]
    BY Zenon DEF Reply
  <2> QED  BY <2>3, <2>4, Zenon
<1>4. leases' = leases /\ leases \subseteq Lease /\ UNCHANGED <<scopes, reservations>>
  BY <1>1, Zenon DEF IndInv, TypeOK
<1>5. /\ TypeOK' /\ ReservedOverridden' /\ HandlerOK'
      /\ SnapshotOK' /\ PersistOK' /\ ReplyOK' /\ GiveBackOK'
      /\ \A k \in Loops : scope'[k] = {}
  BY <1>1, <1>3, <1>4, Returned, Zenon
<1>6. TablesOK'
  BY <1>4 DEF IndInv, TablesOK, Key
<1>7. ASSUME NEW c \in Clients, NEW b \in bound'[c], <<b.scope, b.ip>> \notin overridden
      PROVE  /\ scopes[b.scope] # {}
             /\ \A r \in scopes[b.scope] : b.until <= now + r.secs
  <2>1. CASE b \in bound[c]
    BY <1>7, <2>1, Zenon DEF IndInv, LeaseLengths
  <2>2. ASSUME NEW w \in work[l],
               b = [scope |-> w.scope, ip |-> w.ip, until |-> w.expires]
        PROVE  /\ scopes[b.scope] # {}
               /\ \A r \in scopes[b.scope] : b.until <= now + r.secs
    <3>1. b.scope = w.scope /\ b.ip = w.ip /\ b.until = w.expires /\ w.ip \in Addrs
          /\ w.expires \in Nat /\ w.scope \in ScopeIds
      BY <2>2 DEF IndInv, TypeOK, Lease
    <3>2. PICK p \in scope[l] : w.scope = p.id /\ w.expires <= now + p.row.secs
      BY <1>1, Zenon DEF IndInv, PersistOK
    <3>3. scopes[p.id] # {} /\ \A r \in scopes[p.id] : p.row.secs <= r.secs
      BY <1>7, <3>1, <3>2, Zenon DEF IndInv, HandlerOK
    <3>4. p.row.secs \in Nat /\ now \in Nat /\ \A r \in scopes[p.id] : r.secs \in Nat
      BY <3>1, <3>2 DEF IndInv, TypeOK, Scope
    <3> QED  BY <3>1, <3>2, <3>3, <3>4
  <2> QED  BY <1>2, <2>1, <2>2, Zenon
<1>8. LeaseLengths'
  BY <1>1, <1>5, <1>7, Zenon DEF LeaseLengths
<1>9. BindingRecorded'
  <2> SUFFICES ASSUME NEW c \in Clients, NEW b \in bound'[c], b.until > now,
                      <<b.scope, b.ip>> \notin overridden
               PROVE  \E r \in leases : /\ Key(r) = <<b.scope, b.ip>>
                                        /\ r.client = c
                                        /\ r.state = "active"
                                        /\ r.expires >= b.until
    BY <1>1, Zenon DEF BindingRecorded, Key
  <2>1. CASE b \in bound[c]
    BY <2>1, Zenon DEF IndInv, BindingRecorded
  <2>2. ASSUME NEW w \in work[l], w.client = c, w.state = "active",
               b = [scope |-> w.scope, ip |-> w.ip, until |-> w.expires]
        PROVE  \E r \in leases : /\ Key(r) = <<b.scope, b.ip>> /\ r.client = c
                                 /\ r.state = "active" /\ r.expires >= b.until
    <3>1. Key(w) = <<b.scope, b.ip>> /\ b.until = w.expires
      BY <2>2, Zenon DEF Key
    <3> QED  BY <1>1, <2>2, <3>1, Zenon DEF IndInv, ReplyOK
  <2> QED  BY <1>2, <2>1, <2>2, Zenon
<1> QED  BY <1>5, <1>6, <1>8, <1>9, Zenon DEF IndInv

\* RELEASE and DECLINE change or remove only rows of a client that no longer
\* uses an address, or whose assignment is overruled.
LEMMA WriteBackInv ==
  ASSUME SingleLoop, IndInv, NEW l \in Loops, pc[l] \in {"delete", "decline"}, Done(l),
         UNCHANGED <<scopes, reservations, now, bound, overridden>>,
         leases' \subseteq Lease,
         \A r, q \in leases' : r.id = q.id \/ Key(r) = Key(q) => r = q,
         \A r \in leases \ leases' : \A m \in msg[l] : r.client = m.client
  PROVE  IndInv'
<1>1. bound' \in [Clients -> SUBSET Binding]
  BY Zenon DEF IndInv, TypeOK
<1>2. /\ TypeOK' /\ ReservedOverridden' /\ HandlerOK'
      /\ SnapshotOK' /\ PersistOK' /\ ReplyOK' /\ GiveBackOK'
      /\ \A k \in Loops : scope'[k] = {}
  BY <1>1, Returned, Zenon
<1>3. TablesOK'
  BY DEF IndInv, TablesOK, Key
<1>4. LeaseLengths'
  BY <1>2, Zenon DEF IndInv, LeaseLengths
<1>5. PICK m \in msg[l] : TRUE
  BY Zenon DEF IndInv, HandlerOK
<1>6. LetGo(m.client)
  BY DEF IndInv, HandlerOK, GiveBackOK, GivesUp
<1>7. BindingRecorded'
  BY <1>5, <1>6 DEF IndInv, BindingRecorded, Key, LetGo
<1> QED  BY <1>2, <1>3, <1>4, <1>7, Zenon DEF IndInv

\* The rows a RELEASE deletes are those of a client without an address.
LEMMA DeleteReleasedInv ==
  ASSUME SingleLoop, IndInv, NEW l \in Loops, DeleteReleased(l)
  PROVE  IndInv'
<1>1. /\ pc[l] = "delete" /\ Done(l)
      /\ leases' = {k \in leases : k.id \notin {w.id : w \in work[l]}}
      /\ UNCHANGED <<scopes, reservations, now, bound, overridden>>
  BY Zenon DEF DeleteReleased, DeleteLeases
<1>2. \A r \in leases \ leases' : \A m \in msg[l] : r.client = m.client
  <2> SUFFICES ASSUME NEW r \in leases \ leases', NEW m \in msg[l]
               PROVE  r.client = m.client
    OBVIOUS
  <2>1. PICK w \in work[l] : w.id = r.id
    BY <1>1, Zenon
  <2> QED  BY <1>1, <2>1 DEF IndInv, GiveBackOK
<1>3. /\ leases' \subseteq Lease
      /\ \A r, q \in leases' : r.id = q.id \/ Key(r) = Key(q) => r = q
  BY <1>1, Zenon DEF IndInv, TypeOK, TablesOK
<1> QED  BY <1>1, <1>2, <1>3, WriteBackInv, Zenon

\* The rows a DECLINE rewrites are those of a client without an address.
LEMMA MarkDeclinedInv ==
  ASSUME SingleLoop, IndInv, NEW l \in Loops, MarkDeclined(l)
  PROVE  IndInv'
<1>1. /\ pc[l] = "decline" /\ Done(l)
      /\ leases' \in UpsertLeases(leases, work[l])
      /\ UNCHANGED <<scopes, reservations, now, bound, overridden>>
  BY Zenon DEF MarkDeclined
<1>2. /\ leases \in SUBSET Lease /\ work[l] \in SUBSET Lease
      /\ \A r, q \in leases : r.id = q.id \/ Key(r) = Key(q) => r = q
      /\ \A v, w \in work[l] : Key(v) = Key(w) => v = w
  BY <1>1, Zenon DEF IndInv, TypeOK, TablesOK, GiveBackOK
<1>3. /\ leases' \subseteq Lease
      /\ \A r, q \in leases' : r.id = q.id \/ Key(r) = Key(q) => r = q
      /\ \A r \in leases : (\A w \in work[l] : Key(r) # Key(w)) => r \in leases'
  BY <1>1, <1>2, UpsertFacts
<1>4. \A r \in leases \ leases' : \A m \in msg[l] : r.client = m.client
  <2> SUFFICES ASSUME NEW r \in leases \ leases', NEW m \in msg[l]
               PROVE  r.client = m.client
    OBVIOUS
  <2>1. PICK w \in work[l] : Key(w) = Key(r)
    BY <1>3, Zenon
  <2> QED  BY <1>1, <2>1 DEF IndInv, GiveBackOK
<1> QED  BY <1>1, <1>3, <1>4, WriteBackInv, Zenon

=============================================================================
