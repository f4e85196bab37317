-------------------------- MODULE DhcpServerProofs --------------------------
(***************************************************************************)
(* Proofs about DhcpServer for any number of clients, addresses, scopes    *)
(* and rows and every bound on the clock: with one serving loop no address *)
(* is ever in the hands of two clients.                                    *)
(***************************************************************************)
EXTENDS DhcpHandlerProofs

-----------------------------------------------------------------------------
(* Time, the sweeper and the administrator. *)

\* Time only lets rows expire.
LEMMA TickInv ==
  ASSUME IndInv, Tick
  PROVE  IndInv'
<1> USE DEF Tick, dbVars, loopVars
<1>1. now \in Nat /\ now' = now + 1
  BY Zenon DEF IndInv, TypeOK
<1>2. TypeOK'
  BY <1>1 DEF IndInv, TypeOK
<1>3. TablesOK' /\ ReservedOverridden' /\ HandlerOK'
  BY DEF IndInv, TablesOK, ReservedOverridden, HandlerOK, Key, GivesUp, LetGo
<1>4. SnapshotOK' /\ GiveBackOK'
  BY DEF IndInv, SnapshotOK, GiveBackOK, Key
<1>5. /\ \A r \in leases : r.expires \in Nat
      /\ \A l \in Loops : \A w \in work[l] : w.expires \in Nat
      /\ \A l \in Loops : \A p \in scope[l] : p.row.secs \in Nat
      /\ \A c \in Clients : \A b \in bound[c] : b.until \in Nat /\ b.scope \in ScopeIds
      /\ \A s \in ScopeIds : \A r \in scopes[s] : r.secs \in Nat
  BY DEF IndInv, TypeOK, Lease, Binding, Scope
<1>6. LeaseLengths'
  BY <1>1, <1>5 DEF IndInv, LeaseLengths
<1>7. \A r \in leases : IsHolding(r, now') => IsHolding(r, now)
  BY <1>1, <1>5 DEF IsHolding, LeaseExpired
<1>8. PersistOK'
  <2>1. \A l \in Loops : \A w \in work[l] : \A p \in scope[l] :
          w.expires <= now + p.row.secs => w.expires <= now' + p.row.secs
    BY <1>1, <1>5
  <2>2. PersistOK
    BY Zenon DEF IndInv
  <2> QED  BY <1>7, <2>1, <2>2 DEF PersistOK, Key, IsHolding, LeaseExpired, LetGo
<1>9. ReplyOK'
  BY <1>1, <1>5 DEF IndInv, ReplyOK, Key
<1>10. BindingRecorded'
  BY <1>1, <1>5 DEF IndInv, BindingRecorded, Key
<1> QED  BY <1>2, <1>3, <1>4, <1>6, <1>8, <1>9, <1>10, Zenon DEF IndInv

\* Rows that go away behind the back of the handlers are expired or overruled.
LEMMA RowsGone ==
  ASSUME IndInv, UNCHANGED <<now, loopVars, bound>>, overridden \subseteq overridden',
         leases' \subseteq leases,
         \A r \in leases \ leases' : r.expires < now \/ Key(r) \in overridden'
  PROVE  /\ \A r, q \in leases' : r.id = q.id \/ Key(r) = Key(q) => r = q
         /\ SnapshotOK' /\ PersistOK' /\ ReplyOK' /\ GiveBackOK' /\ BindingRecorded'
<1> USE DEF loopVars
<1>1. \A r, q \in leases' : r.id = q.id \/ Key(r) = Key(q) => r = q
  BY Zenon DEF IndInv, TablesOK
<1>2. /\ now \in Nat /\ \A r \in leases : r.expires \in Nat
      /\ \A l \in Loops : \A w \in work[l] : w.expires \in Nat
      /\ \A c \in Clients : \A b \in bound[c] : b.until \in Nat
  BY DEF IndInv, TypeOK, Lease, Binding
<1>3. SnapshotOK' /\ GiveBackOK'
  BY DEF IndInv, SnapshotOK, GiveBackOK, Key
<1>4. PersistOK'
  BY DEF IndInv, PersistOK, Key, IsHolding, LeaseExpired, LetGo
<1>5. ReplyOK'
  BY <1>2 DEF IndInv, ReplyOK, Key
<1>6. BindingRecorded'
  BY <1>2 DEF IndInv, BindingRecorded, Key
<1> QED  BY <1>1, <1>2, <1>3, <1>4, <1>5, <1>6, Zenon

\* Sweep, DeleteLease and the edits of reservations leave the scopes alone.
LEMMA SameScopes ==
  ASSUME IndInv, UNCHANGED <<scopes, now, loopVars, bound>>,
         overridden \subseteq overridden', overridden' \subseteq ScopeIds \X Addrs,
         leases' \subseteq leases,
         \A r \in leases \ leases' : r.expires < now \/ Key(r) \in overridden',
         reservations' \in [ResIds -> SUBSET Reservation],
         \A i \in ResIds : \A r \in reservations'[i] : <<r.scope, r.ip>> \in overridden'
  PROVE  IndInv'
<1> USE DEF loopVars
<1>1. /\ \A r, q \in leases' : r.id = q.id \/ Key(r) = Key(q) => r = q
      /\ SnapshotOK' /\ PersistOK' /\ ReplyOK' /\ GiveBackOK' /\ BindingRecorded'
  BY RowsGone, Zenon
<1>2. TypeOK'
  BY Zenon DEF IndInv, TypeOK
<1>3. TablesOK'
  BY <1>1, Zenon DEF IndInv, TablesOK, Key
<1>4. ReservedOverridden'
  BY Zenon DEF IndInv, ReservedOverridden
<1>5. HandlerOK' /\ LeaseLengths'
  BY DEF IndInv, HandlerOK, LeaseLengths, GivesUp, LetGo
<1> QED  BY <1>1, <1>2, <1>3, <1>4, <1>5, Zenon DEF IndInv

\* The sweeper removes only what has expired.
LEMMA SweepInv ==
  ASSUME IndInv, Sweep
  PROVE  IndInv'
<1>1. leases' = {r \in leases : ~(r.expires < now)}
  BY Zenon DEF Sweep, PruneExpired
<1>2. /\ UNCHANGED <<scopes, now, loopVars, bound>> /\ overridden' = overridden
      /\ reservations' = reservations
  BY Zenon DEF Sweep
<1> QED  BY <1>1, <1>2, SameScopes, Zenon DEF IndInv, TypeOK, ReservedOverridden

\* An administrator who deletes a lease overrules its key.
LEMMA DeleteLeaseInv ==
  ASSUME IndInv, NEW id \in Ids, DeleteLease(id)
  PROVE  IndInv'
<1>1. /\ leases' = {r \in leases : r.id \notin {id}}
      /\ overridden' = overridden \cup {Key(r) : r \in {q \in leases : q.id = id}}
      /\ UNCHANGED <<scopes, now, loopVars, bound>> /\ reservations' = reservations
  BY Zenon DEF DeleteLease, DeleteLeases
<1>2. overridden' \subseteq ScopeIds \X Addrs
  BY <1>1 DEF IndInv, TypeOK, Lease, Key
<1> QED  BY <1>1, <1>2, SameScopes, Zenon DEF IndInv, TypeOK, ReservedOverridden

\* An administrator who reserves an address overrules its key.
LEMMA ReservationsInv ==
  ASSUME IndInv,
         \/ \E i \in ResIds, r \in Reservation : CreateReservation(i, r)
         \/ \E i \in ResIds, c \in Clients, ip \in Addrs : UpdateReservation(i, c, ip)
         \/ \E i \in ResIds : DeleteReservation(i)
  PROVE  IndInv'
<1>1. UNCHANGED <<scopes, now, loopVars, bound>> /\ leases' = leases
  BY Zenon DEF CreateReservation, UpdateReservation, DeleteReservation
<1>2. \A i \in ResIds : \A r \in reservations[i] :
        r \in Reservation /\ <<r.scope, r.ip>> \in overridden
  BY Zenon DEF IndInv, TypeOK, ReservedOverridden
<1>3. /\ overridden \subseteq overridden' /\ overridden' \subseteq ScopeIds \X Addrs
      /\ reservations' \in [ResIds -> SUBSET Reservation]
      /\ \A j \in ResIds : \A q \in reservations'[j] : <<q.scope, q.ip>> \in overridden'
  <2>1. ASSUME NEW i \in ResIds, NEW r \in Reservation, CreateReservation(i, r)
        PROVE  <1>3!:
    BY <1>2, <2>1 DEF CreateReservation, IndInv, TypeOK, Reservation
  <2>2. ASSUME NEW i \in ResIds, NEW c \in Clients, NEW ip \in Addrs,
               UpdateReservation(i, c, ip)
        PROVE  <1>3!:
    <3> DEFINE new == {[scope |-> r.scope, client |-> c, ip |-> ip] : r \in reservations[i]}
    <3>1. \A q \in new : q \in Reservation /\ <<q.scope, q.ip>> \in overridden'
      <4> SUFFICES ASSUME NEW r \in reservations[i]
                   PROVE  /\ [scope |-> r.scope, client |-> c, ip |-> ip] \in Reservation
                          /\ <<r.scope, ip>> \in overridden'
        OBVIOUS
      <4>1. r.scope \in ScopeIds
        BY <1>2, Zenon DEF Reservation
      <4> QED  BY <2>2, <4>1, Zenon DEF UpdateReservation, Reservation
    <3>2. reservations' = [reservations EXCEPT ![i] = new]
      BY <2>2, Zenon DEF UpdateReservation
    <3> HIDE DEF new
    <3>3. /\ overridden \subseteq overridden'
          /\ overridden' \subseteq ScopeIds \X Addrs
      BY <1>2, <2>2 DEF UpdateReservation, IndInv, TypeOK, Reservation
    <3> QED  BY <1>2, <3>1, <3>2, <3>3, Zenon DEF IndInv, TypeOK
  <2>3. ASSUME NEW i \in ResIds, DeleteReservation(i)
        PROVE  <1>3!:
    BY <1>2, <2>3, Zenon DEF DeleteReservation, IndInv, TypeOK
  <2> QED  BY <2>1, <2>2, <2>3, Zenon
<1> QED  BY <1>1, <1>3, SameScopes, Zenon

\* A stuttering step changes nothing.
LEMMA StutterInv ==
  ASSUME IndInv, UNCHANGED vars
  PROVE  IndInv'
<1> USE DEF vars
<1>1. TypeOK' /\ TablesOK' /\ ReservedOverridden' /\ HandlerOK' /\ LeaseLengths'
  BY DEF IndInv, TypeOK, TablesOK, ReservedOverridden, HandlerOK, LeaseLengths, Key, GivesUp, LetGo
<1>2. SnapshotOK' /\ PersistOK' /\ ReplyOK' /\ GiveBackOK' /\ BindingRecorded'
  <2>1. UNCHANGED <<now, loopVars, bound>> /\ leases' = leases /\ overridden' = overridden
    BY Zenon DEF loopVars
  <2> QED  BY <2>1, RowsGone, Zenon
<1> QED  BY <1>1, <1>2, Zenon DEF IndInv

-----------------------------------------------------------------------------
(* The scopes, and the theorems. *)

\* A new scope has no leases, and no handler works on it.
LEMMA CreateScopeInv ==
  ASSUME IndInv, NEW s \in ScopeIds, NEW in \in ScopeInputs, CreateScope(s, in)
  PROVE  IndInv'
<1> USE DEF loopVars
<1>1. /\ scopes' = [scopes EXCEPT ![s] = {in}] /\ in \in Scope /\ NameFree(in, s)
      /\ UNCHANGED <<now, loopVars, bound>> /\ leases' = leases
      /\ reservations' = reservations /\ overridden' = overridden
  BY InputAssumption, Zenon DEF CreateScope
<1>2. scopes[s] = {}
  BY IdAssumption DEF CreateScope
<1>3. SnapshotOK' /\ PersistOK' /\ ReplyOK' /\ GiveBackOK' /\ BindingRecorded'
  BY <1>1, RowsGone, Zenon
<1>4. TypeOK' /\ ReservedOverridden'
  BY <1>1, Zenon DEF IndInv, TypeOK, ReservedOverridden
<1>5. TablesOK'
  BY <1>1 DEF IndInv, TypeOK, TablesOK, NameFree, Key
<1>6. \A t \in ScopeIds : scopes[t] # {} => scopes'[t] = scopes[t]
  BY <1>1, <1>2, Zenon DEF IndInv, TypeOK
<1>7. HandlerOK'
  BY <1>1, <1>6 DEF IndInv, TypeOK, HandlerOK, GivesUp, LetGo
<1>8. LeaseLengths'
  BY <1>1, <1>6 DEF IndInv, TypeOK, LeaseLengths, Binding
<1> QED  BY <1>3, <1>4, <1>5, <1>7, <1>8, Zenon DEF IndInv

\* Shorter leases overrule the whole scope; longer ones break no promise.
LEMMA UpdateScopeInv ==
  ASSUME IndInv, NEW s \in ScopeIds, NEW in \in ScopeInputs, UpdateScope(s, in)
  PROVE  IndInv'
<1> USE DEF loopVars
<1> DEFINE new == {WithFamily(in, r.family) : r \in scopes[s]}
<1>1. /\ scopes' = [scopes EXCEPT ![s] = new] /\ in \in Scope /\ NameFree(in, s)
      /\ UNCHANGED <<now, loopVars, bound>> /\ leases' = leases
      /\ reservations' = reservations
      /\ overridden' = IF \E r \in scopes[s] : in.secs < r.secs
                       THEN overridden \cup ({s} \X Addrs) ELSE overridden
      /\ scopes[s] # {}
  BY InputAssumption, Zenon DEF UpdateScope
<1>2. \A r, q \in scopes[s] : r = q
  BY Zenon DEF IndInv, TablesOK
<1>3. /\ new # {} /\ \A r, q \in new : r = q
      /\ \A q \in new : q \in Scope /\ q.name = in.name /\ q.secs = in.secs
  <2>1. \A r \in scopes[s] : r \in Scope
    BY Zenon DEF IndInv, TypeOK
  <2>2. \A r \in scopes[s] : /\ WithFamily(in, r.family) \in Scope
                             /\ WithFamily(in, r.family).name = in.name
                             /\ WithFamily(in, r.family).secs = in.secs
    BY <1>1, <2>1, Zenon DEF WithFamily, Scope
  <2> QED  BY <1>1, <1>2, <2>2, Zenon
<1> HIDE DEF new
<1>4. overridden \subseteq overridden' /\ overridden' \subseteq ScopeIds \X Addrs
  BY <1>1, Zenon DEF IndInv, TypeOK
<1>5. SnapshotOK' /\ PersistOK' /\ ReplyOK' /\ GiveBackOK' /\ BindingRecorded'
  BY <1>1, <1>4, RowsGone, Zenon
<1>6. TypeOK' /\ ReservedOverridden'
  BY <1>1, <1>3, <1>4 DEF IndInv, TypeOK, ReservedOverridden
<1>7. TablesOK'
  BY <1>1, <1>3 DEF IndInv, TypeOK, TablesOK, NameFree, Key
<1>8. \/ \A a \in Addrs : <<s, a>> \in overridden'
      \/ \A r \in scopes[s], q \in scopes'[s] : r.secs <= q.secs
  BY <1>1, <1>3 DEF IndInv, TypeOK, Scope
<1>9. /\ scopes'[s] # {} /\ \A t \in ScopeIds \ {s} : scopes'[t] = scopes[t]
      /\ \A t \in ScopeIds : \A r \in scopes[t] : r.secs \in Nat
      /\ \A r \in scopes'[s] : r.secs \in Nat
  BY <1>1, <1>3 DEF IndInv, TypeOK, Scope
<1>10. HandlerOK'
  <2>1. ASSUME NEW l \in Loops, NEW p \in scope[l]
        PROVE  \/ \A a \in Addrs : <<p.id, a>> \in overridden'
               \/ scopes'[p.id] # {} /\ \A r \in scopes'[p.id] : p.row.secs <= r.secs
    <3>1. \/ \A a \in Addrs : <<p.id, a>> \in overridden
          \/ scopes[p.id] # {} /\ \A r \in scopes[p.id] : p.row.secs <= r.secs
      BY Zenon DEF IndInv, HandlerOK
    <3>2. p.id \in ScopeIds /\ p.row.secs \in Nat
      BY DEF IndInv, TypeOK, Scope
    <3> QED  BY <1>1, <1>4, <1>8, <1>9, <3>1, <3>2
  <2> QED  BY <1>1, <1>4, <2>1, Zenon DEF IndInv, HandlerOK, GivesUp, LetGo
<1>11. LeaseLengths'
  <2> SUFFICES ASSUME NEW c \in Clients, NEW b \in bound[c],
                      <<b.scope, b.ip>> \notin overridden'
               PROVE  /\ scopes'[b.scope] # {}
                      /\ \A r \in scopes'[b.scope] : b.until <= now + r.secs
                      /\ \A l \in Loops : \A p \in scope[l] :
                           p.id = b.scope => b.until <= now + p.row.secs
    BY <1>1, Zenon DEF LeaseLengths
  <2>1. b.scope \in ScopeIds /\ b.ip \in Addrs /\ b.until \in Nat /\ now \in Nat
    BY DEF IndInv, TypeOK, Binding
  <2>2. /\ scopes[b.scope] # {}
        /\ \A r \in scopes[b.scope] : b.until <= now + r.secs
        /\ \A l \in Loops : \A p \in scope[l] :
             p.id = b.scope => b.until <= now + p.row.secs
    BY <1>4, Zenon DEF IndInv, LeaseLengths
  <2>3. CASE b.scope # s
    BY <1>9, <2>1, <2>2, <2>3, Zenon
  <2>4. CASE b.scope = s
    <3>1. \A r \in scopes[s], q \in scopes'[s] : r.secs <= q.secs
      BY <1>8, <2>1, <2>4, Zenon
    <3> QED  BY <1>9, <2>1, <2>2, <2>4, <3>1
  <2> QED  BY <2>3, <2>4, Zenon
<1> QED  BY <1>5, <1>6, <1>7, <1>10, <1>11, Zenon DEF IndInv

\* Deleting a scope overrules all of it.
LEMMA DeleteScopeInv ==
  ASSUME IndInv, NEW s \in ScopeIds, DeleteScope(s)
  PROVE  IndInv'
<1> USE DEF loopVars
<1>1. /\ scopes' = [scopes EXCEPT ![s] = {}]
      /\ reservations' = [i \in ResIds |-> {r \in reservations[i] : r.scope # s}]
      /\ leases' = {r \in leases : r.scope # s}
      /\ overridden' = overridden \cup ({s} \X Addrs)
      /\ UNCHANGED <<now, loopVars, bound>>
  BY Zenon DEF DeleteScope
<1>2. overridden \subseteq overridden' /\ \A a \in Addrs : <<s, a>> \in overridden'
  BY <1>1, Zenon
<1>3. \A r \in leases \ leases' : Key(r) \in overridden'
  BY <1>1, <1>2, Zenon DEF IndInv, TypeOK, Lease, Key
<1>4. /\ \A r, q \in leases' : r.id = q.id \/ Key(r) = Key(q) => r = q
      /\ SnapshotOK' /\ PersistOK' /\ ReplyOK' /\ GiveBackOK' /\ BindingRecorded'
  BY <1>1, <1>2, <1>3, RowsGone, Zenon
<1>5. TypeOK'
  BY <1>1, Zenon DEF IndInv, TypeOK
<1>6. ReservedOverridden'
  BY <1>1, <1>2, Zenon DEF IndInv, ReservedOverridden
<1>7. \A t \in ScopeIds : t = s \/ scopes'[t] = scopes[t]
  BY <1>1, Zenon DEF IndInv, TypeOK
<1>8. TablesOK'
  BY <1>1, <1>4, SMTT(20) DEF IndInv, TypeOK, TablesOK, Key
<1>9. HandlerOK'
  BY <1>1, <1>2, <1>7, SMTT(20) DEF IndInv, TypeOK, HandlerOK, GivesUp, LetGo
<1>10. LeaseLengths'
  BY <1>1, <1>2, <1>7 DEF IndInv, TypeOK, LeaseLengths, Binding
<1> QED  BY <1>4, <1>5, <1>6, <1>8, <1>9, <1>10, Zenon DEF IndInv

\* Every step of a server with one serving loop preserves the invariant.
LEMMA StepInv ==
  ASSUME SingleLoop, IndInv, [Next]_vars
  PROVE  IndInv'
<1>1. ASSUME NEW l \in Loops, NEW m \in Messages, Receive(l, m)
      PROVE  IndInv'
  BY <1>1, ReceiveInv, Zenon
<1>2. ASSUME NEW l \in Loops, Handle(l)
      PROVE  IndInv'
  <2>1. CASE ReadReservations(l)  BY <2>1, ReadReservationsInv, Zenon
  <2>2. CASE ReadLeases(l)        BY <2>2, ReadLeasesInv, Zenon
  <2>3. CASE Offer(l)             BY <2>3, OfferInv, Zenon
  <2>4. CASE Grant(l)             BY <2>4, GrantInv, Zenon
  <2>5. CASE Nak(l)
    <3>1. Done(l) /\ UNCHANGED <<dbVars, now, overridden>>
      BY <2>5, Zenon DEF Nak
    <3>2. bound' \in [Clients -> SUBSET Binding] /\ \A c \in Clients : bound'[c] \subseteq bound[c]
      BY <2>5, Zenon DEF Nak, IndInv, TypeOK
    <3> QED  BY <3>1, <3>2, FinishInv, Zenon
  <2>6. CASE NoAddress(l) \/ Inform(l)
    <3>1. Done(l) /\ UNCHANGED <<dbVars, now, overridden>> /\ bound' = bound
      BY <2>6, Zenon DEF NoAddress, Inform
    <3> QED  BY <3>1, FinishInv, Zenon DEF IndInv, TypeOK
  <2>7. CASE GiveBack(l)          BY <2>7, GiveBackInv, Zenon
  <2>8. CASE Persist(l)           BY <2>8, PersistInv, Zenon
  <2>9. CASE Reply(l)             BY <2>9, ReplyInv, Zenon
  <2>10. CASE DeleteReleased(l)   BY <2>10, DeleteReleasedInv, Zenon
  <2>11. CASE MarkDeclined(l)     BY <2>11, MarkDeclinedInv, Zenon
  <2> QED  BY <1>2, <2>1, <2>2, <2>3, <2>4, <2>5, <2>6, <2>7, <2>8, <2>9, <2>10, <2>11, Zenon
           DEF Handle
<1>3. ASSUME NEW l \in Loops, Abort(l)
      PROVE  IndInv'
  <2>1. Done(l) /\ UNCHANGED <<dbVars, now, overridden>> /\ bound' = bound
    BY <1>3, Zenon DEF Abort
  <2> QED  BY <2>1, FinishInv, Zenon DEF IndInv, TypeOK
<1>4. CASE Tick   BY <1>4, TickInv, Zenon
<1>5. CASE Sweep  BY <1>5, SweepInv, Zenon
<1>6. CASE Admin
  BY <1>6, CreateScopeInv, UpdateScopeInv, DeleteScopeInv, ReservationsInv, DeleteLeaseInv, Zenon
  DEF Admin
<1>7. CASE UNCHANGED vars  BY <1>7, StutterInv, Zenon
<1> QED  BY <1>1, <1>2, <1>3, <1>4, <1>5, <1>6, <1>7, Zenon DEF Next

-----------------------------------------------------------------------------
(* The theorems. *)

\* The invariant holds throughout.
THEOREM Invariance == ASSUME SingleLoop PROVE Spec => []IndInv
<1>1. IndInv /\ [Next]_vars => IndInv'
  BY StepInv, Zenon
<1> QED  BY <1>1, InitInv, PTL DEF Spec

\* What a client was told by handle_v4 or handle_v6 stays on record.
THEOREM BindingsRecorded == ASSUME SingleLoop PROVE Spec => []BindingRecorded
<1>1. IndInv => BindingRecorded
  BY Zenon DEF IndInv
<1> QED  BY <1>1, Invariance, PTL

\* With one serving loop, handle_v4 and handle_v6 never give one address to
\* two clients at a time, whatever the administrator, the sweeper, lost
\* replies, failed writes and restarts do in between.
THEOREM NoDoubleBindings == ASSUME SingleLoop PROVE Spec => []NoDoubleBinding
<1>1. IndInv => NoDoubleBinding
  <2> SUFFICES ASSUME IndInv, NEW c \in Clients, NEW d \in Clients,
                      NEW b \in bound[c], NEW e \in bound[d],
                      b.scope = e.scope, b.ip = e.ip, b.until > now, e.until > now,
                      <<b.scope, b.ip>> \notin overridden
               PROVE  c = d
    BY Zenon DEF NoDoubleBinding
  <2>1. PICK r \in leases : Key(r) = <<b.scope, b.ip>> /\ r.client = c
    BY Zenon DEF IndInv, BindingRecorded
  <2>2. PICK q \in leases : Key(q) = <<b.scope, b.ip>> /\ q.client = d
    BY DEF IndInv, BindingRecorded
  <2> QED  BY <2>1, <2>2 DEF IndInv, TablesOK
<1> QED  BY <1>1, Invariance, PTL

\* With one serving loop, the row of a client that holds an address goes to
\* nobody else and is not swept: it is the client's until it expires, the
\* client gives it back or an administrator steps in.
THEOREM HoldersKeepRows == ASSUME SingleLoop PROVE Spec => HolderKeepsRow
<1>1. ASSUME IndInv, [Next]_vars
      PROVE  [RowsKept]_vars
  <2> SUFFICES ASSUME NEW r \in leases, IsHolding(r, now),
                      ~ \E q \in leases' : Key(q) = Key(r) /\ q.client = r.client,
                      Key(r) \notin overridden'
               PROVE  \E l \in Loops : \E m \in msg[l] :
                        m.client = r.client /\ m.type \in {"release", "decline"}
    BY Zenon DEF RowsKept
  <2>0. r \notin leases'
    OBVIOUS
  <2>1. ASSUME NEW l \in Loops, Persist(l)
        PROVE  FALSE
    <3>1. /\ pc[l] = "persist" /\ leases' \in UpsertLeases(leases, work[l])
          /\ overridden' = overridden
      BY <2>1, Zenon DEF Persist
    <3>2. /\ leases \in SUBSET Lease /\ work[l] \in SUBSET Lease
          /\ \A s, q \in leases : s.id = q.id \/ Key(s) = Key(q) => s = q
          /\ \A v, w \in work[l] : Key(v) = Key(w) => v = w
      BY <1>1, <3>1, SMTT(20) DEF IndInv, TypeOK, TablesOK, PersistOK
    <3>3. PICK w \in work[l] : Key(r) = Key(w)
      BY <2>0, <3>1, <3>2, UpsertFacts
    <3>4. PICK q \in leases' : Key(q) = Key(w) /\ q.client = w.client
      BY <3>1, <3>2, UpsertFacts
    <3>5. w.client # r.client
      BY <3>3, <3>4, Zenon
    <3> QED  BY <1>1, <3>1, <3>3, <3>5 DEF IndInv, PersistOK
  <2>2. ASSUME NEW l \in Loops, DeleteReleased(l) \/ MarkDeclined(l)
        PROVE  \E m \in msg[l] : m.client = r.client /\ m.type \in {"release", "decline"}
    <3>1. pc[l] \in {"delete", "decline"}
      BY <2>2, Zenon DEF DeleteReleased, MarkDeclined
    <3>2. PICK m \in msg[l] : TRUE
      BY <1>1, <3>1 DEF IndInv, HandlerOK
    <3>3. \E w \in work[l] : w.id = r.id \/ Key(w) = Key(r)
      <4>1. CASE DeleteReleased(l)
        BY <2>0, <4>1, Zenon DEF DeleteReleased, DeleteLeases
      <4>2. CASE MarkDeclined(l)
        <5>1. pc[l] = "decline" /\ leases' \in UpsertLeases(leases, work[l])
          BY <4>2, Zenon DEF MarkDeclined
        <5>2. /\ leases \in SUBSET Lease /\ work[l] \in SUBSET Lease
              /\ \A s, q \in leases : s.id = q.id \/ Key(s) = Key(q) => s = q
              /\ \A v, w \in work[l] : Key(v) = Key(w) => v = w
          BY <1>1, <5>1, Zenon DEF IndInv, TypeOK, TablesOK, GiveBackOK
        <5> QED  BY <2>0, <5>1, <5>2, UpsertFacts
      <4> QED  BY <2>2, <4>1, <4>2, Zenon
    <3> QED  BY <1>1, <3>1, <3>2, <3>3 DEF IndInv, GiveBackOK
  <2>3. CASE Sweep
    <3>1. r.expires < now
      BY <2>0, <2>3, Zenon DEF Sweep, PruneExpired
    <3> QED  BY <1>1, <3>1 DEF IsHolding, LeaseExpired, IndInv, TypeOK, Lease
  <2>4. CASE Admin
    <3>1. ASSUME NEW s \in ScopeIds, DeleteScope(s)
          PROVE  FALSE
      BY <1>1, <2>0, <3>1, Zenon DEF DeleteScope, IndInv, TypeOK, Lease, Key
    <3>2. ASSUME NEW id \in Ids, DeleteLease(id)
          PROVE  FALSE
      BY <2>0, <3>2, Zenon DEF DeleteLease, DeleteLeases
    <3> QED
      BY <2>0, <2>4, <3>1, <3>2, Zenon
      DEF Admin, CreateScope, UpdateScope, CreateReservation, UpdateReservation,
          DeleteReservation
  <2>5. CASE leases' = leases
    BY <2>0, <2>5, Zenon
  <2> QED
    BY <1>1, <2>1, <2>2, <2>3, <2>4, <2>5, Zenon
    DEF Next, Handle, Receive, ReadReservations, ReadLeases, Offer, Grant, Nak, NoAddress,
        Inform, GiveBack, Reply, Abort, Tick, vars, dbVars
<1> QED  BY <1>1, Invariance, PTL DEF Spec, HolderKeepsRow

\* Only a reply changes hands: every other step leaves the bindings alone,
\* takes some away, or lets time pass.
LEMMA HoldersLapse ==
  ASSUME TypeOK, bound' \in [Clients -> SUBSET Binding], now' \in Nat, now <= now',
         \A c \in Clients : bound'[c] \subseteq bound[c], overridden' = overridden
  PROVE  Book!Lapse
<1>1. Holders' \in [ScopeIds \X Addrs -> SUBSET Clients]
  BY Zenon DEF Holders
<1>2. ASSUME NEW k \in ScopeIds \X Addrs, NEW c \in Clients, c \in Holders'[k]
      PROVE  c \in Holders[k]
  <2>1. PICK b \in bound'[c] : <<b.scope, b.ip>> = k /\ b.until > now'
    BY <1>2, Zenon DEF Holders
  <2>2. b \in bound[c] /\ b.until \in Nat /\ now \in Nat
    BY <2>1 DEF TypeOK, Binding
  <2>3. b.until > now
    BY <2>1, <2>2
  <2> QED  BY <2>1, <2>2, <2>3, Zenon DEF Holders
<1>3. \A k \in ScopeIds \X Addrs : Holders'[k] \subseteq Holders[k]
  BY <1>1, <1>2, Zenon
<1> QED  BY <1>1, <1>3, Zenon DEF Book!Lapse

\* A reply gives its client an address that is on record as the client's, so
\* nobody else holds it.
LEMMA ReplyGives ==
  ASSUME IndInv, NEW l \in Loops, Reply(l)
  PROVE  Book!Next
<1> DEFINE given(c) == {w \in work[l] : w.client = c /\ w.state = "active"}
<1>1. /\ pc[l] = "reply" /\ UNCHANGED <<dbVars, now, overridden>>
      /\ bound' = [c \in Clients |-> IF given(c) = {} THEN bound[c]
                                      ELSE {Told(w) : w \in given(c)}]
  BY Zenon DEF Reply
<1>2. /\ \A v, w \in work[l] : v = w
      /\ \A w \in work[l] : w \in Lease
      /\ now \in Nat
  BY <1>1, Zenon DEF IndInv, TypeOK, PersistOK
<1>3. CASE \A c \in Clients : given(c) = {}
  <2>1. bound' = bound
    BY <1>1, <1>3, Zenon DEF IndInv, TypeOK
  <2>2. Book!Lapse
    BY <1>1, <2>1, HoldersLapse DEF IndInv, TypeOK
  <2> QED  BY <2>2, Zenon DEF Book!Next
<1>4. CASE \E c \in Clients : given(c) # {}
  <2>1. PICK c \in Clients, w \in work[l] : w.client = c /\ w.state = "active"
    BY <1>4, Zenon
  <2>2. given(c) = {w} /\ \A d \in Clients \ {c} : given(d) = {}
    BY <1>2, <2>1, Zenon
  <2>3. bound'[c] = {Told(w)} /\ \A d \in Clients \ {c} : bound'[d] = bound[d]
    BY <1>1, <2>2, Zenon
  <2>4. /\ Told(w).scope = w.scope /\ Told(w).ip = w.ip /\ Told(w).until = w.expires
        /\ Key(w) = <<w.scope, w.ip>> /\ Key(w) \in ScopeIds \X Addrs
        /\ w.expires \in Nat /\ now' = now
    BY <1>1, <1>2, Zenon DEF Told, Key, Lease
  <2> HIDE DEF given
  <2>5. \A k \in ScopeIds \X Addrs :
          Holders'[k] = IF k = Key(w) /\ w.expires > now THEN Holders[k] \cup {c}
                        ELSE Holders[k] \ {c}
    <3>1. ASSUME NEW k \in ScopeIds \X Addrs, NEW d \in Clients
          PROVE  d \in Holders'[k] <=>
                   \/ d # c /\ d \in Holders[k]
                   \/ d = c /\ k = Key(w) /\ w.expires > now
      <4>1. CASE d = c
        BY <2>3, <2>4, <4>1, Zenon DEF Holders
      <4>2. CASE d # c
        BY <2>3, <2>4, <4>2, Zenon DEF Holders
      <4> QED  BY <4>1, <4>2, Zenon
    <3>2. \A k \in ScopeIds \X Addrs : Holders[k] \subseteq Clients /\ Holders'[k] \subseteq Clients
      BY Zenon DEF Holders
    <3> QED  BY <3>1, <3>2, <2>1, Zenon
  <2>6. CASE w.expires > now
    <3>1. Key(w) \in overridden \/ Holders[Key(w)] \subseteq {c}
      <4> SUFFICES ASSUME Key(w) \notin overridden, NEW d \in Clients, d \in Holders[Key(w)]
                   PROVE  d = c
        BY <2>4, Zenon DEF Holders
      <4>1. PICK r \in leases : Key(r) = Key(w) /\ r.client = c
        BY <1>1, <2>1, <2>6, Zenon DEF IndInv, ReplyOK
      <4>2. PICK b \in bound[d] : <<b.scope, b.ip>> = Key(w) /\ b.until > now
        BY <2>4, Zenon DEF Holders
      <4>3. PICK q \in leases : Key(q) = Key(w) /\ q.client = d
        BY <4>2 DEF IndInv, BindingRecorded
      <4> QED  BY <4>1, <4>3, Zenon DEF IndInv, TablesOK
    <3>2. Holders' = [k \in ScopeIds \X Addrs |->
                       IF k = Key(w) THEN Holders[k] \cup {c} ELSE Holders[k] \ {c}]
      BY <2>5, <2>6, Zenon DEF Holders
    <3>3. Book!Give(c, Key(w))
      BY <1>1, <3>1, <3>2, Zenon DEF Book!Give
    <3> QED  BY <2>4, <3>3, Zenon DEF Book!Next
  <2>7. CASE ~(w.expires > now)
    <3>1. Holders' \in [ScopeIds \X Addrs -> SUBSET Clients]
      BY Zenon DEF Holders
    <3>2. \A k \in ScopeIds \X Addrs : Holders'[k] \subseteq Holders[k]
      BY <2>5, <2>7, Zenon
    <3> QED  BY <1>1, <3>1, <3>2, Zenon DEF Book!Next, Book!Lapse
  <2> QED  BY <2>6, <2>7, Zenon
<1> QED  BY <1>3, <1>4, Zenon

\* With one serving loop, the server implements AddressBook: seen from its
\* clients, handle_v4 and handle_v6 give out an address in one step, and only
\* when nobody else holds it.
THEOREM ImplementsBook == ASSUME SingleLoop PROVE Spec => KeepsBook
<1>1. Init => Book!Init
  BY DEF Init, Book!Init, Holders
<1>2. ASSUME IndInv, IndInv', [Next]_vars
      PROVE  [Book!Next]_(Book!vars)
  <2>0. /\ bound \in [Clients -> SUBSET Binding] /\ bound' \in [Clients -> SUBSET Binding]
        /\ now \in Nat /\ now' \in Nat /\ TypeOK
    BY <1>2, Zenon DEF IndInv, TypeOK
  <2>1. CASE UNCHANGED <<bound, now, overridden>>
    BY <2>1, Zenon DEF Book!vars, Holders
  <2>2. ASSUME NEW l \in Loops, NEW m \in Messages, Receive(l, m)
        PROVE  Book!Next
    <3>1. now' = now
      BY <2>2, Zenon DEF Receive
    <3>2. CASE InTime(m)
      <4>1. \A c \in Clients : bound'[c] \subseteq bound[c]
        BY <2>0, <3>2, Zenon DEF InTime
      <4>2. Book!Lapse
        BY <2>0, <3>1, <3>2, <4>1, HoldersLapse DEF InTime
      <4> QED  BY <4>2, Zenon DEF Book!Next
    <3>3. CASE Late(m)
      BY <3>1, <3>3, Zenon DEF Late, Book!Next, Book!Overrule, Holders
    <3> QED  BY <2>2, <3>2, <3>3, Zenon DEF Receive
  <2>3. ASSUME NEW l \in Loops, Nak(l)
        PROVE  Book!Lapse
    <3>1. \A c \in Clients : bound'[c] \subseteq bound[c]
      BY <2>0, <2>3, Zenon DEF Nak
    <3> QED  BY <2>0, <2>3, <3>1, HoldersLapse DEF Nak
  <2>4. ASSUME NEW l \in Loops, Reply(l)
        PROVE  Book!Next
    BY <1>2, <2>4, ReplyGives, Zenon
  <2>5. CASE Tick
    BY <2>0, <2>5, HoldersLapse DEF Tick, Book!Next
  <2>6. CASE Admin
    <3>1. overridden \subseteq overridden' /\ UNCHANGED <<bound, now>>
      BY <2>6, Zenon DEF Admin, CreateScope, UpdateScope, DeleteScope, CreateReservation,
                  UpdateReservation, DeleteReservation, DeleteLease
    <3> QED  BY <3>1, Zenon DEF Book!Next, Book!Overrule, Holders
  <2> QED
    BY <1>2, <2>1, <2>2, <2>3, <2>4, <2>5, <2>6, Zenon
    DEF Next, Handle, ReadReservations, ReadLeases, Offer, Grant, NoAddress, Inform,
        GiveBack, Persist, DeleteReleased, MarkDeclined, Abort, Sweep, vars, Book!Next
<1> QED  BY <1>1, <1>2, Invariance, PTL DEF Spec, KeepsBook, Book!Spec

=============================================================================
