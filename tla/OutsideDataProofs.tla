-------------------------- MODULE OutsideDataProofs -------------------------
(***************************************************************************)
(* Proofs about the data that the server downloads, whatever is edited,    *)
(* fails or starts anew meanwhile.  SecondaryZones: a serial names the     *)
(* data that the primary had under it, until an administrator edits zones  *)
(* by hand (SerialNamesData).  Filtering: a list holds what was published  *)
(* at its own URL (EntriesOwn).                                            *)
(***************************************************************************)
EXTENDS SecondaryZones, Filtering, TLAPS

-----------------------------------------------------------------------------
(* SecondaryZones. *)

USE DEF Shell, Edited, Own, Data, Zone, Labels, AllRequests, Tasks, Optional

\* The server starts with zones that came from the primary.
LEMMA SecondaryInit ==
  ASSUME StartsReplicated, Init
  PROVE  Replicating
<1>1. TypeOK
  BY SecondaryAssumption DEF StartsReplicated, Init, TypeOK, NoZones, Stored
<1>2. \A t \in Tasks : \A z \in ZoneIds : loaded[t][z] = {}
  BY Zenon DEF Init, Stored, NoZones
<1>3. \A z \in ZoneIds : \A r \in zones[z] : Faithful(r)
  BY Zenon DEF StartsReplicated, Init, Faithful
<1>4. \A z \in ZoneIds : \A q \in served[z] :
        \E r \in zones[z] : q = [serial |-> r.serial, data |-> r.data]
  BY Zenon DEF Init, Stored
<1>5. \A z \in ZoneIds : \A q \in served[z] : FaithfulCopy(q)
  BY <1>3, <1>4 DEF Faithful, FaithfulCopy
<1> QED
  BY <1>1, <1>2, <1>3, <1>5, SecondaryAssumption
  DEF Replicating, StartsReplicated, Init

\* A table of faithful rows makes a store of faithful rows.
LEMMA StoredFaithful ==
  ASSUME NEW t \in [ZoneIds -> SUBSET Zone],
         \A z \in ZoneIds : \A r \in t[z] : Faithful(r)
  PROVE  /\ Stored(t) \in [ZoneIds -> SUBSET [serial : Nat, data : Data]]
         /\ \A z \in ZoneIds : \A q \in Stored(t)[z] : FaithfulCopy(q)
<1>1. \A z \in ZoneIds : \A q \in Stored(t)[z] :
        \E r \in t[z] : q = [serial |-> r.serial, data |-> r.data]
  BY Zenon DEF Stored
<1>2. Stored(t) \in [ZoneIds -> SUBSET [serial : Nat, data : Data]]
  BY DEF Stored
<1> QED  BY <1>1, <1>2 DEF Faithful, FaithfulCopy

\* So does a table of which not all could be read.
LEMMA PartFaithful ==
  ASSUME NEW t \in [ZoneIds -> SUBSET Zone], NEW R,
         \A z \in ZoneIds : \A r \in t[z] : Faithful(r)
  PROVE  /\ StoredPart(t, R) \in [ZoneIds -> SUBSET [serial : Nat, data : Data]]
         /\ \A z \in ZoneIds : \A q \in StoredPart(t, R)[z] : FaithfulCopy(q)
<1> DEFINE W(r, z) == [serial |-> r.serial, data |-> IF z \in R THEN r.data ELSE Shell]
<1>1. ASSUME NEW z \in ZoneIds, NEW q \in StoredPart(t, R)[z]
      PROVE  q \in [serial : Nat, data : Data] /\ FaithfulCopy(q)
  <2>1. PICK r \in t[z] : q = W(r, z)
    BY Zenon DEF StoredPart
  <2>2. r \in Zone /\ Faithful(r)
    OBVIOUS
  <2>3. q.serial = r.serial /\ q.data \in {r.data, Shell}
    BY <2>1, Zenon
  <2> QED  BY <2>1, <2>2, <2>3, Zenon DEF Faithful, FaithfulCopy
<1>2. \A z \in ZoneIds : StoredPart(t, R)[z] \subseteq [serial : Nat, data : Data]
  BY <1>1, Zenon
<1>3. StoredPart(t, R) \in [ZoneIds -> SUBSET [serial : Nat, data : Data]]
  BY <1>2, Zenon DEF StoredPart
<1> QED  BY <1>1, <1>3, Zenon

\* The empty store of an idle task.
LEMMA NoneFaithful ==
  /\ Stored(NoZones) \in [ZoneIds -> SUBSET [serial : Nat, data : Data]]
  /\ \A z \in ZoneIds : Stored(NoZones)[z] = {}
  BY Zenon DEF Stored, NoZones

\* The end of a request or of a check leaves a task with empty hands.
LEMMA FinishSecondary ==
  ASSUME Replicating, NEW t \in Tasks, Finish(t)
  PROVE  /\ pc' \in [Tasks -> Labels]
         /\ req' \in [Tasks -> AllRequests \cup {"none", "poll"}]
         /\ zid' \in [Tasks -> SUBSET ZoneIds]
         /\ got' \in [Tasks -> Nat]
         /\ loaded' \in [Tasks -> [ZoneIds -> SUBSET [serial : Nat, data : Data]]]
         /\ \A u \in Tasks : Optional(zid'[u])
         /\ \A u \in Tasks : \A z \in ZoneIds : \A r \in loaded'[u][z] : FaithfulCopy(r)
         /\ \A u \in Tasks : got'[u] <= primary /\ pc'[u] # "write"
<1>1. /\ loaded' = [loaded EXCEPT ![t] = Stored(NoZones)]
      /\ zid' = [zid EXCEPT ![t] = {}]
      /\ got' = [got EXCEPT ![t] = 0]
      /\ req' = [req EXCEPT ![t] = "none"]
      /\ pc' = [pc EXCEPT ![t] = IF t = "poll" THEN "next" ELSE "idle"]
  BY Zenon DEF Finish, Goto
<1>2. TypeOK BY Zenon DEF Replicating
<1>3. /\ pc' \in [Tasks -> Labels]
      /\ req' \in [Tasks -> AllRequests \cup {"none", "poll"}]
      /\ zid' \in [Tasks -> SUBSET ZoneIds]
      /\ got' \in [Tasks -> Nat]
      /\ \A u \in Tasks : Optional(zid'[u])
  BY <1>1, <1>2, Zenon DEF TypeOK
<1>4. loaded' \in [Tasks -> [ZoneIds -> SUBSET [serial : Nat, data : Data]]]
  BY <1>1, <1>2, NoneFaithful, Zenon DEF TypeOK
<1>5. \A u \in Tasks : \A z \in ZoneIds : \A r \in loaded'[u][z] : FaithfulCopy(r)
  BY <1>1, <1>2, NoneFaithful, Zenon DEF TypeOK, Replicating
<1>6. \A u \in Tasks : got'[u] <= primary /\ pc'[u] # "write"
  BY <1>1, <1>2 DEF TypeOK, Replicating
<1> QED  BY <1>3, <1>4, <1>5, <1>6, Zenon

\* Stamping last_check leaves serial and records alone.
LEMMA StatusFaithful ==
  ASSUME Replicating, NEW Z, NEW t, t = SetSecondaryStatus(zones, Z)
  PROVE  /\ t \in [ZoneIds -> SUBSET Zone]
         /\ \A z \in ZoneIds : Optional(t[z])
         /\ \A z \in ZoneIds : \A r \in t[z] : r.secondary /\ Faithful(r)
<1>1. TypeOK BY Zenon DEF Replicating
<1>2. t = [z \in ZoneIds |-> IF z \in Z THEN {WithDue(r, FALSE) : r \in zones[z]} ELSE zones[z]]
  BY Zenon DEF SetSecondaryStatus
<1>3. ASSUME NEW z \in ZoneIds, NEW q \in t[z]
      PROVE  q \in Zone /\ q.secondary /\ Faithful(q)
  <2>1. PICK r \in zones[z] : q = r \/ q = WithDue(r, FALSE)
    BY <1>2, Zenon
  <2>2. r \in Zone /\ r.secondary /\ Faithful(r)
    BY <1>1, Zenon DEF TypeOK, Replicating
  <2>3. CASE q = WithDue(r, FALSE)
    <3>1. q.secondary = r.secondary /\ q.serial = r.serial /\ q.data = r.data
      BY <2>3, Zenon DEF WithDue
    <3>2. q \in Zone
      BY <2>2, <2>3, Zenon DEF WithDue
    <3>3. Faithful(q)
      BY <2>2, <3>1, Zenon DEF Faithful
    <3> QED  BY <2>2, <3>1, <3>2, <3>3, Zenon
  <2> QED  BY <2>1, <2>2, <2>3, Zenon
<1>4. ASSUME NEW z \in ZoneIds PROVE Optional(t[z])
  <2>1. \A q, r \in zones[z] : q = r
    BY <1>1, Zenon DEF TypeOK
  <2>2. CASE z \in Z
    <3>1. t[z] = {WithDue(r, FALSE) : r \in zones[z]}
      BY <1>2, <2>2, Zenon
    <3> QED  BY <2>1, <3>1, Zenon
  <2>3. CASE z \notin Z
    BY <1>2, <2>1, <2>3, Zenon
  <2> QED  BY <2>2, <2>3, Zenon
<1>5. t \in [ZoneIds -> SUBSET Zone]
  <2>1. \A z \in ZoneIds : t[z] \subseteq Zone
    BY <1>3, Zenon
  <2> QED  BY <1>2, <2>1, Zenon
<1> QED  BY <1>3, <1>4, <1>5, Zenon

\* A transfer stores contents under the serial they had at the primary.
LEMMA ReplaceFaithful ==
  ASSUME Replicating, NEW Z, NEW s \in Nat, s <= primary,
         NEW t, t = ReplaceSecondaryZone(zones, Z, s)
  PROVE  /\ t \in [ZoneIds -> SUBSET Zone]
         /\ \A z \in ZoneIds : Optional(t[z])
         /\ \A z \in ZoneIds : \A r \in t[z] : r.secondary /\ Faithful(r)
<1> DEFINE W(r) == [secondary |-> r.secondary, serial |-> s, data |-> s, due |-> r.due]
<1>1. TypeOK BY Zenon DEF Replicating
<1>2. t = [z \in ZoneIds |-> IF z \in Z THEN {W(r) : r \in zones[z]} ELSE zones[z]]
  BY Zenon DEF ReplaceSecondaryZone
<1>3. ASSUME NEW z \in ZoneIds, NEW q \in t[z]
      PROVE  q \in Zone /\ q.secondary /\ Faithful(q)
  <2>1. PICK r \in zones[z] : q = r \/ q = W(r)
    BY <1>2
  <2>2. r \in Zone /\ r.secondary /\ Faithful(r)
    BY <1>1, Zenon DEF TypeOK, Replicating
  <2>3. CASE q = W(r)
    <3>1. q.secondary = r.secondary /\ q.serial = s /\ q.data = s
      BY <2>3, Zenon
    <3>2. q \in Zone
      BY <2>2, <2>3, Zenon
    <3>3. Faithful(q)
      BY <3>1, Zenon DEF Faithful
    <3> QED  BY <2>2, <3>1, <3>2, <3>3, Zenon
  <2> QED  BY <2>1, <2>2, <2>3, Zenon
<1>4. ASSUME NEW z \in ZoneIds PROVE Optional(t[z])
  <2>1. \A q, r \in zones[z] : q = r
    BY <1>1, Zenon DEF TypeOK
  <2>2. CASE z \in Z
    <3>1. t[z] = {W(r) : r \in zones[z]}
      BY <1>2, <2>2, Zenon
    <3> HIDE DEF W
    <3> QED  BY <2>1, <3>1, Zenon
  <2>3. CASE z \notin Z
    BY <1>2, <2>1, <2>3, Zenon
  <2> QED  BY <2>2, <2>3, Zenon
<1>5. t \in [ZoneIds -> SUBSET Zone]
  <2>1. \A z \in ZoneIds : t[z] \subseteq Zone
    BY <1>3, Zenon
  <2> QED  BY <1>2, <2>1, Zenon
<1> QED  BY <1>3, <1>4, <1>5, Zenon

\* The invariant, in the parts the actions touch.
TasksOK ==
  /\ pc \in [Tasks -> Labels]
  /\ req \in [Tasks -> AllRequests \cup {"none", "poll"}]
  /\ zid \in [Tasks -> SUBSET ZoneIds]
  /\ got \in [Tasks -> Nat]
  /\ loaded \in [Tasks -> [ZoneIds -> SUBSET [serial : Nat, data : Data]]]
  /\ \A t \in Tasks : Optional(zid[t])
  /\ \A t \in Tasks : \A z \in ZoneIds : \A r \in loaded[t][z] : FaithfulCopy(r)
  /\ \A t \in Tasks : got[t] <= primary /\ pc[t] # "write"

ZonesOK ==
  /\ zones \in [ZoneIds -> SUBSET Zone]
  /\ \A z \in ZoneIds : Optional(zones[z])
  /\ \A z \in ZoneIds : \A r \in zones[z] : r.secondary /\ Faithful(r)

ServedOK ==
  /\ served \in [ZoneIds -> SUBSET [serial : Nat, data : Data]]
  /\ \A z \in ZoneIds : \A r \in served[z] : FaithfulCopy(r)

TodoOK ==
  /\ todo \subseteq [id : ZoneIds, serial : Nat, due : BOOLEAN]
  /\ \A s \in todo : s.serial <= primary

PrimaryOK == primary \in Nat /\ primary >= 1 /\ restarts \in Nat

\* They make it up.
LEMMA InvParts ==
  Replicating <=> TasksOK /\ ZonesOK /\ ServedOK /\ TodoOK /\ PrimaryOK
  BY Zenon DEF Replicating, TypeOK, TasksOK, ZonesOK, ServedOK, TodoOK, PrimaryOK

\* Faithful and FaithfulCopy depend on the primary alone.
LEMMA FaithfulSame ==
  ASSUME primary' = primary, NEW r
  PROVE  /\ Faithful(r)' = Faithful(r)
         /\ FaithfulCopy(r)' = FaithfulCopy(r)
  BY Zenon DEF Faithful, FaithfulCopy

\* A step that leaves a part and the primary alone keeps the part.
LEMMA PartsSame ==
  ASSUME primary' = primary
  PROVE  /\ UNCHANGED taskVars /\ TasksOK => TasksOK'
         /\ UNCHANGED zones /\ ZonesOK => ZonesOK'
         /\ UNCHANGED served /\ ServedOK => ServedOK'
         /\ UNCHANGED todo /\ TodoOK => TodoOK'
         /\ UNCHANGED restarts /\ PrimaryOK => PrimaryOK'
<1>1. UNCHANGED taskVars /\ TasksOK => TasksOK'
  BY FaithfulSame, Zenon DEF TasksOK, taskVars
<1>2. UNCHANGED zones /\ ZonesOK => ZonesOK'
  BY FaithfulSame, Zenon DEF ZonesOK
<1>3. UNCHANGED served /\ ServedOK => ServedOK'
  BY FaithfulSame, Zenon DEF ServedOK
<1> QED  BY <1>1, <1>2, <1>3, Zenon DEF TodoOK, PrimaryOK

\* A task that only moves on, or has received something of the primary.
LEMMA MoveOK ==
  ASSUME TasksOK, primary' = primary, NEW t \in Tasks, NEW l \in Labels \ {"write"},
         Goto(t, l), UNCHANGED <<req, zid, loaded>>,
         NEW g \in Nat, g <= primary, got' = got \/ got' = [got EXCEPT ![t] = g]
  PROVE  TasksOK'
<1>1. /\ pc' \in [Tasks -> Labels]
      /\ got' \in [Tasks -> Nat]
      /\ \A u \in Tasks : got'[u] <= primary /\ pc'[u] # "write"
  BY DEF TasksOK, Goto
<1>2. \A u \in Tasks : \A z \in ZoneIds : \A r \in loaded'[u][z] : FaithfulCopy(r)'
  BY FaithfulSame, Zenon DEF TasksOK
<1> QED  BY <1>1, <1>2, Zenon DEF TasksOK

\* FinishSecondary, in terms of the parts.
LEMMA FinishOK ==
  ASSUME Replicating, primary' = primary, NEW t \in Tasks, Finish(t)
  PROVE  TasksOK'
<1>1. \A u \in Tasks : \A z \in ZoneIds : \A r \in loaded'[u][z] : FaithfulCopy(r)'
  BY FinishSecondary, FaithfulSame, Zenon
<1> QED  BY <1>1, FinishSecondary, Zenon DEF TasksOK

\* A request begins that is not about to write.
LEMMA BeginOK ==
  ASSUME TasksOK, NEW t \in Workers, NEW r, NEW z \in ZoneIds,
         NEW l \in Labels \ {"write"}, Begin(t, r, z, l)
  PROVE  TasksOK' /\ UNCHANGED <<primary, served, todo, restarts>>
<1>1. /\ pc' = [pc EXCEPT ![t] = l] /\ req' = [req EXCEPT ![t] = r]
      /\ zid' = [zid EXCEPT ![t] = {z}] /\ r \in AllRequests
      /\ UNCHANGED <<primary, served, got, loaded, todo, restarts>>
  BY SecondaryAssumption, Zenon DEF Begin, Goto
<1>2. /\ pc' \in [Tasks -> Labels]
      /\ req' \in [Tasks -> AllRequests \cup {"none", "poll"}]
      /\ zid' \in [Tasks -> SUBSET ZoneIds]
      /\ \A u \in Tasks : Optional(zid'[u])
      /\ \A u \in Tasks : pc'[u] # "write"
  BY <1>1 DEF TasksOK
<1>3. \A u \in Tasks : \A y \in ZoneIds : \A q \in loaded'[u][y] : FaithfulCopy(q)'
  BY <1>1, FaithfulSame, Zenon DEF TasksOK
<1> QED  BY <1>1, <1>2, <1>3, Zenon DEF TasksOK

\* The steps of transfer and reload_store.
LEMMA StepOK ==
  ASSUME Replicating, NEW t \in Tasks, Step(t) \/ Fail(t)
  PROVE  Replicating'
<1>0. TasksOK /\ ZonesOK /\ ServedOK /\ TodoOK /\ PrimaryOK
  BY InvParts, Zenon
<1> SUFFICES TasksOK' /\ ZonesOK' /\ ServedOK' /\ TodoOK' /\ PrimaryOK'
  BY InvParts, PTL
<1>1. CASE Axfr(t)
  <2>0. /\ Goto(t, "replace") /\ "replace" \in Labels \ {"write"}
        /\ got' = [got EXCEPT ![t] = primary] /\ primary \in Nat /\ primary <= primary
        /\ UNCHANGED <<primary, req, zid, loaded>>
    BY <1>0, <1>1 DEF Axfr, PrimaryOK
  <2> HIDE DEF Labels, Tasks
  <2>1. TasksOK'
    BY <1>0, <2>0, MoveOK, Zenon
  <2> QED  BY <1>0, <1>1, <2>1, PartsSame, Zenon DEF Axfr
<1>2. CASE Replace(t)
  <2>1. TasksOK'
    BY <1>0, <1>2, MoveOK, Zenon DEF Replace, PrimaryOK
  <2>2. got[t] \in Nat /\ got[t] <= primary
    BY <1>0, Zenon DEF TasksOK
  <2>3. ZonesOK'
    BY <1>2, <2>2, ReplaceFaithful, FaithfulSame DEF Replace, ZonesOK
  <2> QED  BY <1>0, <1>2, <2>1, <2>3, PartsSame, Zenon DEF Replace
<1>3. CASE Status(t)
  <2>1. TasksOK'
    BY <1>0, <1>3, MoveOK, Zenon DEF Status, PrimaryOK
  <2>3. ZonesOK'
    BY <1>3, StatusFaithful, FaithfulSame DEF Status, ZonesOK
  <2> QED  BY <1>0, <1>3, <2>1, <2>3, PartsSame, Zenon DEF Status
<1>4. ASSUME NEW S, loaded' = [loaded EXCEPT ![t] = S], Goto(t, "swap"),
             S \in [ZoneIds -> SUBSET [serial : Nat, data : Data]],
             \A z \in ZoneIds : \A q \in S[z] : FaithfulCopy(q),
             UNCHANGED <<primary, zones, served, req, zid, got, todo, restarts>>
      PROVE  TasksOK' /\ ZonesOK' /\ ServedOK' /\ TodoOK' /\ PrimaryOK'
  <2>2. pc' = [pc EXCEPT ![t] = "swap"]
    BY <1>4, Zenon DEF Goto
  <2>3. \A u \in Tasks : \A z \in ZoneIds : \A r \in loaded'[u][z] : FaithfulCopy(r)'
    BY <1>0, <1>4, FaithfulSame, Zenon DEF TasksOK
  <2>4. loaded' \in [Tasks -> [ZoneIds -> SUBSET [serial : Nat, data : Data]]]
    BY <1>0, <1>4, Zenon DEF TasksOK
  <2>5. pc' \in [Tasks -> Labels] /\ \A u \in Tasks : pc'[u] # "write"
    BY <1>0, <2>2, Zenon DEF TasksOK
  <2>6. TasksOK'
    BY <1>0, <1>4, <2>3, <2>4, <2>5, Zenon DEF TasksOK
  <2> QED  BY <1>0, <1>4, <2>6, PartsSame, Zenon
<1>10. CASE Load(t)
  <2>1. /\ Stored(zones) \in [ZoneIds -> SUBSET [serial : Nat, data : Data]]
        /\ \A z \in ZoneIds : \A q \in Stored(zones)[z] : FaithfulCopy(q)
    BY <1>0, StoredFaithful, Zenon DEF ZonesOK
  <2> QED  BY <1>4, <1>10, <2>1, Zenon DEF Load
<1>11. CASE LoadPart(t)
  <2>1. PICK S \in StoredParts(zones) : loaded' = [loaded EXCEPT ![t] = S]
    BY <1>11, Zenon DEF LoadPart
  <2>2. /\ S \in [ZoneIds -> SUBSET [serial : Nat, data : Data]]
        /\ \A z \in ZoneIds : \A q \in S[z] : FaithfulCopy(q)
    <3>1. CASE S = Stored(NoZones)
      BY <3>1, NoneFaithful, Zenon
    <3>2. CASE \E R \in SUBSET ZoneIds : S = StoredPart(zones, R)
      BY <1>0, <3>2, PartFaithful DEF ZonesOK
    <3> QED  BY <2>1, <3>1, <3>2, Zenon DEF StoredParts
  <2> QED  BY <1>4, <1>11, <2>1, <2>2, Zenon DEF LoadPart
<1>5. CASE Swap(t)
  <2>1. TasksOK'
    BY <1>5, FinishOK, Zenon DEF Swap
  <2>2. ServedOK'
    BY <1>0, <1>5, FaithfulSame DEF Swap, ServedOK, TasksOK
  <2> QED  BY <1>0, <1>5, <2>1, <2>2, PartsSame, Zenon DEF Swap
<1>6. CASE RecordError(t)
  <2>1. TasksOK'
    BY <1>6, FinishOK, Zenon DEF RecordError
  <2>2. ZonesOK'
    BY <1>6, StatusFaithful, FaithfulSame DEF RecordError, ZonesOK
  <2> QED  BY <1>0, <1>6, <2>1, <2>2, PartsSame, Zenon DEF RecordError
<1>7. CASE Error(t)
  <2>1. Error(t)
    BY <1>7, Zenon
  <2>2. CASE req[t] \in {"poll", "create_secondary"}
    <3>1. Goto(t, "failed") /\ UNCHANGED <<primary, req, zid, got, loaded>>
      BY <2>1, <2>2, Zenon DEF Error
    <3>2. TasksOK'
      BY <1>0, <3>1, MoveOK, Zenon DEF PrimaryOK
    <3> QED  BY <1>0, <2>1, <3>2, PartsSame, Zenon DEF Error
  <2>3. CASE req[t] \notin {"poll", "create_secondary"}
    <3>1. TasksOK'
      BY <2>1, <2>3, FinishOK, Zenon DEF Error
    <3> QED  BY <1>0, <2>1, <3>1, PartsSame, Zenon DEF Error
  <2> QED  BY <2>2, <2>3, Zenon
<1>8. CASE Write(t)
  BY <1>0, <1>8, Zenon DEF Write, TasksOK
<1>9. CASE Unrecorded(t)
  <2>1. TasksOK'
    BY <1>9, FinishOK, Zenon DEF Unrecorded
  <2> QED  BY <1>0, <1>9, <2>1, PartsSame, Zenon DEF Unrecorded
<1> QED
  BY <1>1, <1>2, <1>3, <1>5, <1>6, <1>7, <1>8, <1>9, <1>10, <1>11, Zenon
  DEF Step, Fail, ReplaceGone

\* The poll loop works on serials the primary has had.
LEMMA PollOK ==
  ASSUME Replicating, Poll
  PROVE  Replicating'
<1>0. TasksOK /\ ZonesOK /\ ServedOK /\ TodoOK /\ PrimaryOK /\ "poll" \in Tasks
  BY InvParts, Zenon
<1> SUFFICES TasksOK' /\ ZonesOK' /\ ServedOK' /\ TodoOK' /\ PrimaryOK'
  BY InvParts, PTL
<1>1. CASE PollList
  <2>1. TasksOK'
    BY <1>0, <1>1, MoveOK, Zenon DEF PollList, PrimaryOK
  <2>2. ASSUME NEW s \in todo'
        PROVE  s \in [id : ZoneIds, serial : Nat, due : BOOLEAN] /\ s.serial <= primary
    <3>0. PICK z \in ZoneIds :
            \E r \in zones[z] : s = [id |-> z, serial |-> r.serial, due |-> r.due]
      BY <1>1, Zenon DEF PollList
    <3>1. PICK r \in zones[z] : s = [id |-> z, serial |-> r.serial, due |-> r.due]
      BY <3>0, Zenon
    <3>2. r \in Zone /\ r.serial <= primary
      BY <1>0, Zenon DEF ZonesOK, Faithful
    <3> QED  BY <3>1, <3>2, Zenon
  <2>3. TodoOK'
    BY <1>1, <2>2, Zenon DEF PollList, TodoOK
  <2> QED  BY <1>0, <1>1, <2>1, <2>3, PartsSame, Zenon DEF PollList
<1>2. CASE PollEnd
  <2>1. TasksOK'
    BY <1>0, <1>2, MoveOK, Zenon DEF PollEnd, PrimaryOK
  <2> QED  BY <1>0, <1>2, <2>1, PartsSame, Zenon DEF PollEnd
<1>3. CASE PollSoa
  <2>1. TasksOK'
    BY <1>0, <1>3, MoveOK, Zenon DEF PollSoa, PrimaryOK
  <2> QED  BY <1>0, <1>3, <2>1, PartsSame, Zenon DEF PollSoa
<1>4. CASE PollStamp
  <2>1. TasksOK'
    BY <1>0, <1>4, FinishOK, Zenon DEF PollStamp
  <2>2. ZonesOK'
    BY <1>4, StatusFaithful, FaithfulSame DEF PollStamp, ZonesOK
  <2> QED  BY <1>0, <1>4, <2>1, <2>2, PartsSame, Zenon DEF PollStamp
<1>5. ASSUME NEW s \in todo, PollSkip(s)
      PROVE  TasksOK' /\ ZonesOK' /\ ServedOK' /\ TodoOK' /\ PrimaryOK'
  <2>1. TodoOK'
    BY <1>0, <1>5, Zenon DEF PollSkip, TodoOK
  <2> QED  BY <1>0, <1>5, <2>1, PartsSame, Zenon DEF PollSkip
<1>6. ASSUME NEW s \in todo, PollCheck(s)
      PROVE  TasksOK' /\ ZonesOK' /\ ServedOK' /\ TodoOK' /\ PrimaryOK'
  <2>1. TodoOK'
    BY <1>0, <1>6, Zenon DEF PollCheck, TodoOK
  <2>2. s.id \in ZoneIds /\ s.serial \in Nat /\ s.serial <= primary
    BY <1>0, Zenon DEF TodoOK
  <2>3. /\ pc' = [pc EXCEPT !["poll"] = "soa"] /\ req' = [req EXCEPT !["poll"] = "poll"]
        /\ zid' = [zid EXCEPT !["poll"] = {s.id}]
        /\ got' = [got EXCEPT !["poll"] = s.serial]
        /\ UNCHANGED <<primary, zones, served, loaded, restarts>>
    BY <1>6, Zenon DEF PollCheck, Goto
  <2>4. /\ pc' \in [Tasks -> Labels] /\ \A u \in Tasks : pc'[u] # "write"
        /\ req' \in [Tasks -> AllRequests \cup {"none", "poll"}]
        /\ zid' \in [Tasks -> SUBSET ZoneIds] /\ \A u \in Tasks : Optional(zid'[u])
        /\ got' \in [Tasks -> Nat] /\ \A u \in Tasks : got'[u] <= primary
    BY <1>0, <2>2, <2>3 DEF TasksOK
  <2>5. \A u \in Tasks : \A z \in ZoneIds : \A r \in loaded'[u][z] : FaithfulCopy(r)'
    BY <1>0, <2>3, FaithfulSame, Zenon DEF TasksOK
  <2>6. TasksOK'
    BY <1>0, <2>3, <2>4, <2>5, Zenon DEF TasksOK
  <2> QED  BY <1>0, <2>1, <2>3, <2>6, PartsSame, Zenon
<1> QED  BY <1>1, <1>2, <1>3, <1>4, <1>5, <1>6, Zenon DEF Poll

\* An administrator who edits nothing by hand makes, refreshes and deletes
\* secondaries.
LEMMA AdminOK ==
  ASSUME touched' = "primary", Replicating, NEW t \in Workers, Admin(t)
  PROVE  Replicating'
<1>0. TasksOK /\ ZonesOK /\ ServedOK /\ TodoOK /\ PrimaryOK
  BY InvParts, Zenon
<1> SUFFICES TasksOK' /\ ZonesOK' /\ ServedOK' /\ TodoOK' /\ PrimaryOK'
  BY InvParts, PTL
<1>1. PICK z \in ZoneIds :
        \/ CreateSecondary(t, z) \/ RefreshSecondary(t, z) \/ CreateZone(t, z)
        \/ DeleteZone(t, z) \/ DeleteRecord(t, z)
        \/ \E r \in AllRequests : LookUp(t, r, z)
  BY Zenon DEF Admin
<1>2. CASE CreateSecondary(t, z)
  <2>1. TasksOK' /\ UNCHANGED <<primary, served, todo, restarts>>
    BY <1>0, <1>2, BeginOK, Zenon DEF CreateSecondary
  <2> DEFINE new == [secondary |-> TRUE, serial |-> 1, data |-> Shell, due |-> TRUE]
  <2>2. zones' = [zones EXCEPT ![z] = {new}]
    BY <1>2, Zenon DEF CreateSecondary
  <2>3. new \in Zone /\ new.secondary /\ Faithful(new)
    BY <1>0, Zenon DEF Faithful, PrimaryOK
  <2> HIDE DEF new
  <2>4. ZonesOK'
    BY <1>0, <2>1, <2>2, <2>3, FaithfulSame DEF ZonesOK
  <2> QED  BY <1>0, <2>1, <2>4, PartsSame, Zenon
<1>3. CASE RefreshSecondary(t, z)
  <2>1. TasksOK' /\ UNCHANGED <<primary, served, todo, restarts>>
    BY <1>0, <1>3, BeginOK, Zenon DEF RefreshSecondary
  <2> QED  BY <1>0, <1>3, <2>1, PartsSame, Zenon DEF RefreshSecondary
<1>4. CASE DeleteZone(t, z)
  <2>1. TasksOK' /\ UNCHANGED <<primary, served, todo, restarts>>
    BY <1>0, <1>4, BeginOK, Zenon DEF DeleteZone
  <2>2. ZonesOK'
    BY <1>0, <1>4, <2>1, FaithfulSame, Zenon DEF DeleteZone, ZonesOK
  <2> QED  BY <1>0, <2>1, <2>2, PartsSame, Zenon
<1>5. ~CreateZone(t, z) /\ ~DeleteRecord(t, z) /\ \A r \in AllRequests : ~LookUp(t, r, z)
  BY Zenon DEF ByHand, CreateZone, DeleteRecord, LookUp, Begin
<1> QED  BY <1>1, <1>2, <1>3, <1>4, <1>5, Zenon

\* The passing of time, the primary and a restart.
LEMMA WorldOK ==
  ASSUME Replicating,
         PrimaryChanges \/ Restart \/ (\E z \in ZoneIds : Elapse(z)) \/ UNCHANGED vars
  PROVE  Replicating'
<1>0. TasksOK /\ ZonesOK /\ ServedOK /\ TodoOK /\ PrimaryOK
  BY InvParts, Zenon
<1> SUFFICES TasksOK' /\ ZonesOK' /\ ServedOK' /\ TodoOK' /\ PrimaryOK'
  BY InvParts, PTL
<1>1. CASE PrimaryChanges
  <2>1. /\ primary \in Nat /\ primary' = primary + 1
        /\ UNCHANGED <<zones, served, pc, req, zid, got, loaded, todo, restarts>>
    BY <1>0, <1>1, Zenon DEF PrimaryChanges, taskVars, PrimaryOK
  <2>2. ASSUME NEW r, r.serial \in Nat
        PROVE  (Faithful(r) => Faithful(r)') /\ (FaithfulCopy(r) => FaithfulCopy(r)')
    BY <2>1, <2>2 DEF Faithful, FaithfulCopy
  <2>3. PrimaryOK' /\ TodoOK'
    BY <1>0, <2>1 DEF PrimaryOK, TodoOK
  <2>4. ZonesOK'
    BY <1>0, <2>1, <2>2 DEF ZonesOK
  <2>5. ServedOK'
    BY <1>0, <2>1, <2>2 DEF ServedOK
  <2>6. \A u \in Tasks : \A z \in ZoneIds : \A r \in loaded'[u][z] : FaithfulCopy(r)'
    BY <1>0, <2>1, <2>2 DEF TasksOK
  <2>7. TasksOK'
    BY <1>0, <2>1, <2>6 DEF TasksOK
  <2> QED  BY <2>3, <2>4, <2>5, <2>7, Zenon
<1>2. CASE Restart
  <2>1. PrimaryOK' /\ TodoOK' /\ primary' = primary
    BY <1>0, <1>2 DEF Restart, PrimaryOK, TodoOK
  <2>2. ZonesOK'
    BY <1>0, <1>2, PartsSame, Zenon DEF Restart
  <2>3. ServedOK'
    BY <1>0, <1>2, StoredFaithful, FaithfulSame, Zenon DEF Restart, ZonesOK, ServedOK
  <2>4. TasksOK'
    BY <1>0, <1>2, NoneFaithful DEF Restart, TasksOK, PrimaryOK
  <2> QED  BY <2>1, <2>2, <2>3, <2>4, Zenon
<1>3. ASSUME NEW z \in ZoneIds, Elapse(z)
      PROVE  TasksOK' /\ ZonesOK' /\ ServedOK' /\ TodoOK' /\ PrimaryOK'
  <2>1. /\ zones' = [zones EXCEPT ![z] = {WithDue(r, TRUE) : r \in zones[z]}]
        /\ UNCHANGED <<primary, served, taskVars, todo, restarts>>
    BY <1>3, Zenon DEF Elapse
  <2>2. ASSUME NEW r \in zones[z]
        PROVE  WithDue(r, TRUE) \in Zone /\ WithDue(r, TRUE).secondary /\ Faithful(WithDue(r, TRUE))
    <3>1. r \in Zone /\ r.secondary /\ Faithful(r)
      BY <1>0, Zenon DEF ZonesOK
    <3>2. /\ WithDue(r, TRUE).secondary = r.secondary
          /\ WithDue(r, TRUE).serial = r.serial /\ WithDue(r, TRUE).data = r.data
      BY Zenon DEF WithDue
    <3>3. WithDue(r, TRUE) \in Zone
      BY <3>1, Zenon DEF WithDue
    <3>4. Faithful(WithDue(r, TRUE))
      BY <3>1, <3>2, Zenon DEF Faithful
    <3> QED  BY <3>1, <3>2, <3>3, <3>4, Zenon
  <2>4. ASSUME NEW y \in ZoneIds
        PROVE  /\ Optional(zones'[y])
               /\ \A q \in zones'[y] : q \in Zone /\ q.secondary /\ Faithful(q)
    <3>1. CASE y = z
      <4>1. zones'[y] = {WithDue(r, TRUE) : r \in zones[z]}
        BY <1>0, <2>1, <3>1, Zenon DEF ZonesOK
      <4>2. \A r, q \in zones[z] : r = q
        BY <1>0, Zenon DEF ZonesOK
      <4> QED  BY <2>2, <4>1, <4>2, Zenon
    <3>2. CASE y # z
      BY <1>0, <2>1, <3>2, Zenon DEF ZonesOK
    <3> QED  BY <3>1, <3>2, Zenon
  <2>5. zones' \in [ZoneIds -> SUBSET Zone]
    <3>1. \A y \in ZoneIds : zones'[y] \subseteq Zone
      BY <2>4, Zenon
    <3> QED  BY <1>0, <2>1, <3>1, Zenon DEF ZonesOK
  <2>3. ZonesOK'
    BY <2>1, <2>4, <2>5, FaithfulSame, Zenon DEF ZonesOK
  <2> QED  BY <1>0, <2>1, <2>3, PartsSame, Zenon
<1>4. CASE UNCHANGED vars
  BY <1>0, <1>4, PartsSame, Zenon DEF vars, taskVars
<1> QED  BY <1>1, <1>2, <1>3, <1>4, Zenon

\* An edit by hand is never forgotten.
LEMMA TouchedStays ==
  ASSUME [Next]_vars, touched' = "primary"
  PROVE  touched = "primary"
<1>1. ASSUME NEW t \in Tasks, Step(t) \/ Fail(t)
      PROVE  touched' = touched
  BY <1>1, Zenon
  DEF Step, Fail, Axfr, Replace, ReplaceGone, Status, RecordError, Load, Swap, Write,
      Unrecorded, LoadPart, Error
<1>2. ASSUME NEW t \in Workers, Admin(t)
      PROVE  touched = "primary"
  BY <1>2, Zenon
  DEF Admin, CreateSecondary, RefreshSecondary, CreateZone, DeleteZone, DeleteRecord,
      LookUp, Begin
<1>3. CASE Poll
  BY <1>3, Zenon DEF Poll, PollList, PollEnd, PollSoa, PollStamp, PollSkip, PollCheck
<1>4. CASE PrimaryChanges \/ Restart \/ (\E z \in ZoneIds : Elapse(z)) \/ UNCHANGED vars
  BY <1>4, Zenon DEF PrimaryChanges, Restart, Elapse, vars
<1> QED  BY <1>1, <1>2, <1>3, <1>4, Zenon DEF Next

\* Every step keeps the inductive invariant.
LEMMA SecondaryNext ==
  ASSUME SecondaryInv, [Next]_vars
  PROVE  SecondaryInv'
<1> SUFFICES ASSUME touched' = "primary"
             PROVE  Replicating'
  BY Zenon DEF SecondaryInv
<1>1. Replicating
  BY TouchedStays, Zenon DEF SecondaryInv
<1> QED  BY <1>1, StepOK, PollOK, AdminOK, WorldOK, Zenon DEF Next

\* Until an administrator edits zones by hand, the tables, the store and the
\* copies in flight of src/src/dns/secondary.rs come from the primary.
THEOREM SecondaryInvariant ==
  ASSUME StartsReplicated
  PROVE  Spec => []SecondaryInv
<1>1. Init => SecondaryInv
  BY SecondaryInit, Zenon DEF SecondaryInv
<1>2. SecondaryInv /\ [Next]_vars => SecondaryInv'
  BY SecondaryNext, Zenon
<1> QED  BY <1>1, <1>2, PTL DEF Spec

\* So a serial tells the contents of a zone, in the tables and in the store:
\* the comparison of serials in poll_loop is enough.
THEOREM SerialsNameData ==
  ASSUME StartsReplicated
  PROVE  Spec => []SerialNamesData
<1>1. SecondaryInv => SerialNamesData
  BY Zenon DEF SecondaryInv, SerialNamesData, Replicating
<1> QED  BY <1>1, SecondaryInvariant, PTL

HIDE DEF Shell, Edited, Own, Data, Zone, Labels, AllRequests, Tasks, Optional

-----------------------------------------------------------------------------
(* Filtering: the inductive invariant. *)

Job == [id : ListIds, url : Urls]

FilteringTypes ==
  /\ lists \in [ListIds -> SUBSET List]
  /\ rules \in [RuleIds -> SUBSET Rule] /\ rewrites \in [RewriteIds -> SUBSET Rewrite]
  /\ remote \in [Urls -> SUBSET Domains] /\ \A u \in Urls : remote[u] \in Versions[u]
  /\ stage \in [Callers -> Stages] /\ queued \in [Callers -> SUBSET ListIds]
  /\ job \in [Callers -> SUBSET Job] /\ fetched \in [Callers -> SUBSET SUBSET Domains]

\* A task at stage p with the ids T queued works on at most the row in J, and what
\* it has downloaded is a version of that row's list.
WorkOK(p, T, J, G) ==
  /\ J # {} <=> p \in {"fetch", "store"}
  /\ G # {} <=> p = "store"
  /\ T # {} <=> p \in {"row", "fetch", "store"}
  /\ \A j, k \in J : j = k
  /\ \A j \in J, d \in G : d \in Versions[j.url]

CallersOK == \A t \in Callers : WorkOK(stage[t], queued[t], job[t], fetched[t])

\* The id a task works on still names the list it read, or is crossed.
JobsOwn == \A t \in Callers : \A j \in job[t] :
             j.id \notin crossed => \A l \in lists[j.id] : l.url = j.url

UrlsUnique ==
  \A i \in ListIds, k \in ListIds : \A l \in lists[i], m \in lists[k] :
    i = k \/ l.url = m.url => i = k /\ l = m

OwnVersion(l) == IF l.updated THEN l.entries \in Versions[l.url] ELSE l.entries = {}

ListsOwn == \A i \in ListIds \ crossed : \A l \in lists[i] : OwnVersion(l)

FilteringInv == FilteringTypes /\ CallersOK /\ JobsOwn /\ UrlsUnique /\ ListsOwn

-----------------------------------------------------------------------------
(* The steps of a task. *)

\* The task t moves on to where WorkOK holds; nobody else moves.
Moves(t) ==
  /\ FilteringTypes'
  /\ \A s \in Callers \ {t} : /\ stage'[s] = stage[s] /\ queued'[s] = queued[s]
                            /\ job'[s] = job[s] /\ fetched'[s] = fetched[s]
  /\ WorkOK(stage'[t], queued'[t], job'[t], fetched'[t])

\* A task that leaves the lists alone has the row it had, or one it has read.
LEMMA TaskMoves ==
  ASSUME FilteringInv, NEW t \in Callers, Moves(t), UNCHANGED <<lists, crossed>>,
         \A j \in job'[t] : j \in job[t] \/ \E l \in lists[j.id] : l.url = j.url
  PROVE  FilteringInv'
<1>1. CallersOK'
  BY Zenon DEF Moves, FilteringInv, CallersOK
<1>2. JobsOwn'
  <2> SUFFICES ASSUME NEW s \in Callers, NEW j \in job'[s], j.id \notin crossed, NEW l \in lists[j.id]
               PROVE  l.url = j.url
    BY Zenon DEF JobsOwn
  <2>1. CASE j \in job[s]
    BY <2>1, Zenon DEF FilteringInv, JobsOwn
  <2>2. CASE j \notin job[s]
    <3>1. s = t
      BY <2>2, Zenon DEF Moves
    <3>2. PICK m \in lists[j.id] : m.url = j.url
      BY <2>2, <3>1, Zenon
    <3>3. job' \in [Callers -> SUBSET Job]
      BY Zenon DEF Moves, FilteringTypes
    <3>4. j.id \in ListIds
      BY <3>3 DEF Job
    <3>5. UrlsUnique
      BY Zenon DEF FilteringInv
    <3> QED  BY <3>2, <3>4, <3>5 DEF UrlsUnique
  <2> QED  BY <2>1, <2>2, Zenon
<1>3. UrlsUnique'
  BY DEF FilteringInv, UrlsUnique
<1>4. ListsOwn'
  BY Zenon DEF FilteringInv, ListsOwn
<1> QED  BY <1>1, <1>2, <1>3, <1>4, Zenon DEF Moves, FilteringInv

\* A task that changes the lists holds no row afterwards, and the rows that
\* others hold have kept their URLs.
LEMMA ListsChange ==
  ASSUME FilteringInv, NEW t \in Callers, Moves(t), job'[t] = {},
         UrlsUnique', ListsOwn',
         \A s \in Callers : \A j \in job[s] : j.id \notin crossed' =>
           /\ j.id \notin crossed
           /\ \A l \in lists'[j.id] : \E m \in lists[j.id] : m.url = l.url
  PROVE  FilteringInv'
<1>1. CallersOK'
  BY Zenon DEF Moves, FilteringInv, CallersOK
<1>2. JobsOwn'
  <2> SUFFICES ASSUME NEW s \in Callers, NEW j \in job'[s], (j.id \notin crossed)', NEW l \in lists'[j.id]
               PROVE  l.url = j.url
    BY Zenon DEF JobsOwn
  <2>1. j \in job[s]
    BY Zenon DEF Moves
  <2>2. PICK m \in lists[j.id] : m.url = l.url
    BY <2>1, Zenon
  <2>3. m.url = j.url
    BY <2>1, <2>2, Zenon DEF FilteringInv, JobsOwn
  <2> QED  BY <2>2, <2>3, Zenon
<1> QED  BY <1>1, <1>2, Zenon DEF Moves, FilteringInv

\* What is left of a task's work when it goes on to the next list.
LEMMA NextListMoves ==
  ASSUME FilteringInv, NEW t \in Callers, NEW i, NextList(t, i), UNCHANGED <<rules, rewrites, remote>>,
         lists' \in [ListIds -> SUBSET List]
  PROVE  Moves(t) /\ job'[t] = {}
<1>1. FilteringTypes
  BY Zenon DEF FilteringInv
<1>2. /\ stage'[t] \in {"load", "row"} /\ (stage'[t] = "row" <=> queued'[t] # {})
      /\ job'[t] = {} /\ fetched'[t] = {}
  BY <1>1, Zenon DEF NextList, Reach, FilteringTypes
<1>3. stage' \in [Callers -> Stages]
  BY <1>1, Zenon DEF NextList, Reach, FilteringTypes, Stages
<1>4. queued' \in [Callers -> SUBSET ListIds]
  BY <1>1, Zenon DEF NextList, FilteringTypes
<1>5. job' \in [Callers -> SUBSET Job] /\ fetched' \in [Callers -> SUBSET SUBSET Domains]
  BY <1>1, Zenon DEF NextList, FilteringTypes
<1>6. \A s \in Callers \ {t} : /\ stage'[s] = stage[s] /\ queued'[s] = queued[s]
                             /\ job'[s] = job[s] /\ fetched'[s] = fetched[s]
  BY <1>1, Zenon DEF NextList, Reach, FilteringTypes
<1>7. FilteringTypes'
  BY <1>1, <1>3, <1>4, <1>5, Zenon DEF FilteringTypes
<1>8. WorkOK(stage'[t], queued'[t], job'[t], fetched'[t])
  BY <1>2, Zenon DEF WorkOK
<1> QED  BY <1>2, <1>6, <1>7, <1>8, Zenon DEF Moves

\* A request finds its task idle, with no row.
LEMMA RequestMoves ==
  ASSUME FilteringInv, NEW t \in Callers, NEW p \in {"load", "row"}, Request(t, p),
         NEW T \in SUBSET ListIds, p = "row" <=> T # {},
         queued' = [queued EXCEPT ![t] = T],
         lists' \in [ListIds -> SUBSET List],
         rules' \in [RuleIds -> SUBSET Rule], rewrites' \in [RewriteIds -> SUBSET Rewrite]
  PROVE  Moves(t) /\ job'[t] = {}
<1>1. FilteringTypes
  BY Zenon DEF FilteringInv
<1>2. stage[t] = "idle" /\ stage' = [stage EXCEPT ![t] = p] /\ job' = job /\ fetched' = fetched /\ remote' = remote
  BY Zenon DEF Request, Reach
<1>3. job[t] = {} /\ fetched[t] = {}
  BY <1>2, Zenon DEF FilteringInv, CallersOK, WorkOK
<1>4. stage' \in [Callers -> Stages] /\ stage'[t] = p /\ \A s \in Callers \ {t} : stage'[s] = stage[s]
  BY <1>1, <1>2, Zenon DEF FilteringTypes, Stages
<1>5. /\ queued' \in [Callers -> SUBSET ListIds] /\ queued'[t] = T
      /\ \A s \in Callers \ {t} : queued'[s] = queued[s]
  BY <1>1, Zenon DEF FilteringTypes
<1>6. FilteringTypes'
  BY <1>1, <1>2, <1>4, <1>5, Zenon DEF FilteringTypes
<1>7. WorkOK(stage'[t], queued'[t], job'[t], fetched'[t])
  BY <1>2, <1>3, <1>4, <1>5, Zenon DEF WorkOK
<1> QED  BY <1>2, <1>3, <1>4, <1>5, <1>6, <1>7, Zenon DEF Moves

\* refresh_one up to the transaction, and the reload.
LEMMA GoInv ==
  ASSUME FilteringInv, NEW t \in Callers, Go(t) \/ Trouble(t)
  PROVE  FilteringInv'
<1>1. FilteringTypes /\ WorkOK(stage[t], queued[t], job[t], fetched[t])
  BY Zenon DEF FilteringInv, CallersOK
<1>2. ASSUME NEW i \in ListIds, ReadRow(t, i) PROVE FilteringInv'
  <2>1. CASE lists[i] = {}
    <3>1. NextList(t, i) /\ UNCHANGED <<tables, remote, crossed>>
      BY <1>2, <2>1, Zenon DEF ReadRow
    <3>2. UNCHANGED <<lists, rules, rewrites, remote, crossed>>
      BY <3>1, Zenon DEF tables
    <3>3. Moves(t) /\ job'[t] = {}
      BY <1>1, <3>1, <3>2, NextListMoves, Zenon DEF FilteringTypes
    <3> QED  BY <3>2, <3>3, TaskMoves, Zenon
  <2>2. CASE lists[i] # {}
    <3>1. /\ stage[t] = "row" /\ stage' = [stage EXCEPT ![t] = "fetch"]
          /\ job' = [job EXCEPT ![t] = {[id |-> i, url |-> l.url] : l \in lists[i]}]
          /\ UNCHANGED <<queued, fetched, lists, rules, rewrites, remote, crossed>>
      BY <1>2, <2>2, Zenon DEF ReadRow, Reach, tables
    <3> DEFINE J == {[id |-> i, url |-> l.url] : l \in lists[i]}
    <3>2. J \in SUBSET Job /\ J # {}
      <4>1. \A l \in lists[i] : l.url \in Urls
        BY <1>1 DEF FilteringTypes, List
      <4>2. \A l \in lists[i] : [id |-> i, url |-> l.url] \in Job
        BY <4>1, Zenon DEF Job
      <4> QED  BY <2>2, <4>2, Zenon
    <3>3. UrlsUnique
      BY Zenon DEF FilteringInv
    <3>4. \A j, k \in J : j = k
      BY <3>3, Zenon DEF UrlsUnique
    <3>5. \A j \in J : \E l \in lists[j.id] : l.url = j.url
      OBVIOUS
    <3> HIDE DEF J
    <3>6. /\ job' \in [Callers -> SUBSET Job] /\ job'[t] = J
          /\ stage' \in [Callers -> Stages] /\ stage'[t] = "fetch"
          /\ \A s \in Callers \ {t} : job'[s] = job[s] /\ stage'[s] = stage[s]
      BY <1>1, <3>1, <3>2, Zenon DEF FilteringTypes, Stages, J
    <3>7. FilteringTypes'
      BY <1>1, <3>1, <3>6, Zenon DEF FilteringTypes
    <3>8. fetched[t] = {}
      BY <1>1, <3>1, Zenon DEF WorkOK
    <3>9. WorkOK(stage'[t], queued'[t], job'[t], fetched'[t])
      BY <1>1, <3>1, <3>2, <3>4, <3>6, <3>8, Zenon DEF WorkOK
    <3>10. Moves(t)
      BY <3>1, <3>6, <3>7, <3>9, Zenon DEF Moves
    <3> QED  BY <3>1, <3>5, <3>6, <3>10, TaskMoves, Zenon
  <2> QED  BY <2>1, <2>2, Zenon
<1>3. ASSUME Fetched(t) PROVE FilteringInv'
  <2>1. /\ stage[t] = "fetch" /\ stage' = [stage EXCEPT ![t] = "store"]
        /\ fetched' = [fetched EXCEPT ![t] = {remote[j.url] : j \in job[t]}]
        /\ UNCHANGED <<queued, job, lists, rules, rewrites, remote, crossed>>
    BY <1>3, Zenon DEF Fetched, Reach, tables
  <2> DEFINE G == {remote[j.url] : j \in job[t]}
  <2>2. job[t] # {} /\ queued[t] # {} /\ \A j, k \in job[t] : j = k
    BY <1>1, <2>1, Zenon DEF WorkOK
  <2>3. job[t] \in SUBSET Job
    BY <1>1, Zenon DEF FilteringTypes
  <2>4. G \in SUBSET SUBSET Domains /\ \A j \in job[t], d \in G : d \in Versions[j.url]
    BY <1>1, <2>2, <2>3 DEF FilteringTypes, Job
  <2>5. G # {}
    BY <2>2, Zenon
  <2> HIDE DEF G
  <2>6. /\ fetched' \in [Callers -> SUBSET SUBSET Domains] /\ fetched'[t] = G
        /\ stage' \in [Callers -> Stages] /\ stage'[t] = "store"
        /\ \A s \in Callers \ {t} : fetched'[s] = fetched[s] /\ stage'[s] = stage[s]
    BY <1>1, <2>1, <2>4, Zenon DEF FilteringTypes, Stages, G
  <2>7. FilteringTypes'
    BY <1>1, <2>1, <2>6, Zenon DEF FilteringTypes
  <2>8. WorkOK(stage'[t], queued'[t], job'[t], fetched'[t])
    BY <2>1, <2>2, <2>4, <2>5, <2>6, Zenon DEF WorkOK
  <2>9. Moves(t)
    BY <2>1, <2>6, <2>7, <2>8, Zenon DEF Moves
  <2> QED  BY <2>1, <2>9, TaskMoves, Zenon
<1>4. ASSUME StoreEntries(t) PROVE FilteringInv'
  <2>1. PICK j \in job[t], d \in fetched[t] : lists' = ReplaceEntries(j.id, d) /\ NextList(t, j.id)
    BY <1>4, Zenon DEF StoreEntries
  <2>2. UNCHANGED <<rules, rewrites, remote, crossed>>
    BY <1>4, Zenon DEF StoreEntries
  <2>3. j \in Job /\ j.id \in ListIds /\ d \in SUBSET Domains /\ d \in Versions[j.url]
    <3>1. job[t] \in SUBSET Job /\ fetched[t] \in SUBSET SUBSET Domains
      BY <1>1, Zenon DEF FilteringTypes
    <3>2. d \in Versions[j.url]
      BY <1>1, Zenon DEF WorkOK
    <3> QED  BY <3>1, <3>2, Zenon DEF Job
  <2>4. lists' = [lists EXCEPT ![j.id] = {[l EXCEPT !.entries = d, !.updated = TRUE] : l \in lists[j.id]}]
    BY <2>1, Zenon DEF ReplaceEntries
  <2>5. lists' \in [ListIds -> SUBSET List]
    <3> DEFINE R == {[l EXCEPT !.entries = d, !.updated = TRUE] : l \in lists[j.id]}
    <3>1. lists \in [ListIds -> SUBSET List]
      BY <1>1, Zenon DEF FilteringTypes
    <3>2. ASSUME NEW l \in lists[j.id] PROVE [l EXCEPT !.entries = d, !.updated = TRUE] \in List
      <4>1. l \in List
        BY <2>3, <3>1, Zenon
      <4> QED  BY <2>3, <4>1, Zenon DEF List
    <3>3. R \in SUBSET List
      BY <3>2, Zenon
    <3> HIDE DEF R
    <3> QED  BY <2>4, <3>1, <3>3, Zenon DEF R
  <2>6. ASSUME NEW i \in ListIds, NEW l \in lists'[i]
        PROVE  \E m \in lists[i] : /\ m.url = l.url /\ m.enabled = l.enabled
                                   /\ i = j.id => l.updated /\ l.entries = d
                                   /\ i # j.id => l = m
    <3>1. CASE i = j.id
      <4>1. PICK m \in lists[i] : l = [m EXCEPT !.entries = d, !.updated = TRUE]
        BY <1>1, <2>3, <2>4, <2>6, <3>1, Zenon DEF FilteringTypes
      <4>2. m \in List
        BY <1>1, Zenon DEF FilteringTypes
      <4> QED  BY <3>1, <4>1, <4>2, Zenon DEF List
    <3>2. CASE i # j.id
      BY <1>1, <2>3, <2>4, <2>6, <3>2, Zenon DEF FilteringTypes
    <3> QED  BY <3>1, <3>2, Zenon
  <2>7. UrlsUnique'
    <3> SUFFICES ASSUME NEW i \in ListIds, NEW k \in ListIds, NEW l \in lists'[i], NEW m \in lists'[k],
                        i = k \/ l.url = m.url
                 PROVE  i = k /\ l = m
      BY Zenon DEF UrlsUnique
    <3>1. l \in List /\ m \in List
      BY <2>5, Zenon
    <3>2. PICK x \in lists[i] : /\ x.url = l.url /\ x.enabled = l.enabled
                                /\ i = j.id => l.updated /\ l.entries = d
                                /\ i # j.id => l = x
      BY <2>6, Zenon
    <3>3. PICK y \in lists[k] : /\ y.url = m.url /\ y.enabled = m.enabled
                                /\ k = j.id => m.updated /\ m.entries = d
                                /\ k # j.id => m = y
      BY <2>6, Zenon
    <3>4. i = k /\ x = y
      BY <3>2, <3>3 DEF FilteringInv, UrlsUnique
    <3> QED  BY <3>1, <3>2, <3>3, <3>4 DEF List
  <2>8. ListsOwn'
    <3> SUFFICES ASSUME NEW i \in ListIds \ crossed, NEW l \in lists'[i] PROVE OwnVersion(l)
      BY <2>2, Zenon DEF ListsOwn
    <3>1. PICK m \in lists[i] : /\ m.url = l.url /\ m.enabled = l.enabled
                                /\ i = j.id => l.updated /\ l.entries = d
                                /\ i # j.id => l = m
      BY <2>6, Zenon
    <3>2. CASE i = j.id
      <4>1. m.url = j.url
        BY <3>1, <3>2, Zenon DEF FilteringInv, JobsOwn
      <4> QED  BY <2>3, <3>1, <3>2, <4>1, Zenon DEF OwnVersion
    <3>3. CASE i # j.id
      BY <3>1, <3>3, Zenon DEF FilteringInv, ListsOwn
    <3> QED  BY <3>2, <3>3, Zenon
  <2>9. Moves(t) /\ job'[t] = {}
    BY <2>1, <2>2, <2>5, NextListMoves, Zenon
  <2>10. job \in [Callers -> SUBSET Job]
    BY <1>1, Zenon DEF FilteringTypes
  <2>11. \A s \in Callers : \A k \in job[s] : k.id \in ListIds
    BY <2>10 DEF Job
  <2>12. \A s \in Callers : \A k \in job[s] : \A l \in lists'[k.id] : \E m \in lists[k.id] : m.url = l.url
    BY <2>6, <2>11, Zenon
  <2> QED  BY <2>2, <2>7, <2>8, <2>9, <2>12, ListsChange, Zenon
<1>5. ASSUME FetchFails(t) \/ \E i \in ListIds : DbFails(t, i) PROVE FilteringInv'
  <2>1. PICK i : NextList(t, i)
    BY <1>5, Zenon DEF FetchFails, DbFails
  <2>2. UNCHANGED <<lists, rules, rewrites, remote, crossed>>
    BY <1>5, Zenon DEF FetchFails, DbFails, tables
  <2>3. Moves(t) /\ job'[t] = {}
    BY <1>1, <2>1, <2>2, NextListMoves, Zenon DEF FilteringTypes
  <2> QED  BY <2>2, <2>3, TaskMoves, Zenon
<1>6. ASSUME (\E failed \in SUBSET {"lists", "rules", "rewrites"} : LoadFilter(t, failed)) \/ SwapFilter(t)
      PROVE  FilteringInv'
  <2>1. PICK p \in {"swap", "idle"} : stage' = [stage EXCEPT ![t] = p]
    BY <1>6, Zenon DEF LoadFilter, SwapFilter, Reach
  <2>2. stage[t] \in {"load", "swap"} /\ UNCHANGED <<queued, job, fetched, lists, rules, rewrites, remote, crossed>>
    BY <1>6, Zenon DEF LoadFilter, SwapFilter, tables
  <2>3. stage' \in [Callers -> Stages] /\ stage'[t] = p /\ \A s \in Callers \ {t} : stage'[s] = stage[s]
    BY <1>1, <2>1, Zenon DEF FilteringTypes, Stages
  <2>4. FilteringTypes'
    BY <1>1, <2>2, <2>3, Zenon DEF FilteringTypes
  <2>5. WorkOK(stage'[t], queued'[t], job'[t], fetched'[t])
    BY <1>1, <2>2, <2>3, Zenon DEF WorkOK
  <2>6. Moves(t)
    BY <2>2, <2>3, <2>4, <2>5, Zenon DEF Moves
  <2> QED  BY <2>2, <2>6, TaskMoves, Zenon
<1> QED  BY <1>2, <1>3, <1>4, <1>5, <1>6, Zenon DEF Go, Trouble

-----------------------------------------------------------------------------
(* The requests, the world outside. *)

\* create_blocklist: the row is new, and the id is crossed if someone still
\* works on a list that had it.
LEMMA CreateListInv ==
  ASSUME FilteringInv, NEW t \in Callers, NEW i \in ListIds, NEW u \in Urls, NEW b \in BOOLEAN,
         CreateList(t, i, u, b)
  PROVE  FilteringInv'
<1> DEFINE new == [url |-> u, enabled |-> TRUE, updated |-> FALSE, entries |-> {}]
<1>1. FilteringTypes /\ UrlsUnique
  BY Zenon DEF FilteringInv
<1>2. new \in List /\ new.url = u /\ OwnVersion(new)
  BY Zenon DEF List, OwnVersion
<1>3. lists' = [lists EXCEPT ![i] = {new}]
  BY Zenon DEF CreateList, InsertList
<1>4. \A k \in ListIds : \A l \in lists[k] : l.url # u
  <2>1. DOMAIN lists = ListIds
    BY <1>1, Zenon DEF FilteringTypes
  <2> QED  BY <2>1, Zenon DEF CreateList, Present
<1> HIDE DEF new
<1>5. /\ lists' \in [ListIds -> SUBSET List] /\ lists'[i] = {new}
      /\ \A k \in ListIds \ {i} : lists'[k] = lists[k]
  BY <1>1, <1>2, <1>3, Zenon DEF FilteringTypes
<1>6. UrlsUnique'
  <2> SUFFICES ASSUME NEW k \in ListIds, NEW n \in ListIds, NEW l \in lists'[k], NEW m \in lists'[n],
                      k = n \/ l.url = m.url
               PROVE  k = n /\ l = m
    BY Zenon DEF UrlsUnique
  <2>1. CASE k = i /\ n = i
    BY <1>5, <2>1, Zenon
  <2>2. CASE k # i /\ n # i
    BY <1>1, <1>5, <2>2 DEF UrlsUnique
  <2>3. CASE k = i /\ n # i
    BY <1>2, <1>4, <1>5, <2>3, Zenon
  <2>4. CASE k # i /\ n = i
    BY <1>2, <1>4, <1>5, <2>4, Zenon
  <2> QED  BY <2>1, <2>2, <2>3, <2>4, Zenon
<1>7. crossed \subseteq crossed' \cup {i} /\ ((\E s \in Callers : \E j \in job[s] : j.id = i) => i \in crossed')
  BY Zenon DEF CreateList
<1>8. ListsOwn'
  <2> SUFFICES ASSUME NEW k \in ListIds, k \notin crossed', NEW l \in lists'[k] PROVE OwnVersion(l)
    BY Zenon DEF ListsOwn
  <2>1. CASE k = i
    BY <1>2, <1>5, <2>1, Zenon
  <2>2. CASE k # i
    BY <1>5, <1>7, <2>2, Zenon DEF FilteringInv, ListsOwn
  <2> QED  BY <2>1, <2>2, Zenon
<1>9. Moves(t) /\ job'[t] = {}
  <2> DEFINE p == IF b THEN "row" ELSE "load"
             T == IF b THEN {i} ELSE {}
  <2>1. Request(t, p) /\ queued' = [queued EXCEPT ![t] = T] /\ UNCHANGED <<rules, rewrites>>
    BY Zenon DEF CreateList
  <2>2. p \in {"load", "row"} /\ T \in SUBSET ListIds /\ (p = "row" <=> T # {})
    OBVIOUS
  <2> HIDE DEF p, T
  <2> QED  BY <1>1, <1>5, <2>1, <2>2, RequestMoves, Zenon DEF FilteringTypes
<1>10. \A s \in Callers : \A j \in job[s] : j.id \in ListIds
  <2>1. job \in [Callers -> SUBSET Job]
    BY <1>1, Zenon DEF FilteringTypes
  <2> QED  BY <2>1 DEF Job
<1>11. \A s \in Callers : \A j \in job[s] : j.id \notin crossed' =>
          j.id \notin crossed /\ \A l \in lists'[j.id] : \E m \in lists[j.id] : m.url = l.url
  BY <1>5, <1>7, <1>10, Zenon
<1> QED  BY <1>6, <1>8, <1>9, <1>11, ListsChange, Zenon

\* update_blocklist and delete_blocklist leave rows with the URL and the
\* entries they had.
LEMMA EditListInv ==
  ASSUME FilteringInv, NEW t \in Callers, NEW i \in ListIds,
         DeleteList(t, i) \/ \E on \in BOOLEAN : EnableList(t, i, on)
  PROVE  FilteringInv'
<1>1. FilteringTypes /\ UrlsUnique
  BY Zenon DEF FilteringInv
<1>2. PICK on \in BOOLEAN, R \in SUBSET lists[i] :
        lists' = [lists EXCEPT ![i] = {[l EXCEPT !.enabled = on] : l \in R}]
  <2>1. CASE DeleteList(t, i)
    <3>1. lists' = [lists EXCEPT ![i] = {}]
      BY <2>1, Zenon DEF DeleteList, Delete
    <3>2. {} = {[l EXCEPT !.enabled = TRUE] : l \in {}}
      OBVIOUS
    <3> QED  BY <3>1, <3>2, Zenon
  <2>2. CASE \E on \in BOOLEAN : EnableList(t, i, on)
    BY <2>2, Zenon DEF EnableList, UpdateList
  <2> QED  BY <2>1, <2>2, Zenon
<1> DEFINE N == {[l EXCEPT !.enabled = on] : l \in R}
<1>3. ASSUME NEW l \in N
      PROVE  /\ l \in List
             /\ \E m \in lists[i] : /\ m.url = l.url /\ m.updated = l.updated
                                    /\ m.entries = l.entries /\ l.enabled = on
  <2>1. PICK m \in lists[i] : l = [m EXCEPT !.enabled = on]
    OBVIOUS
  <2>2. m \in List
    BY <1>1, Zenon DEF FilteringTypes
  <2> QED  BY <2>1, <2>2, Zenon DEF List
<1> HIDE DEF N
<1>4. N \in SUBSET List
  BY <1>3, Zenon
<1>5. /\ lists' \in [ListIds -> SUBSET List] /\ lists'[i] = N
      /\ \A k \in ListIds \ {i} : lists'[k] = lists[k]
  BY <1>1, <1>2, <1>4, Zenon DEF FilteringTypes, N
<1>6. ASSUME NEW k \in ListIds, NEW l \in lists'[k]
      PROVE  \E m \in lists[k] : /\ m.url = l.url /\ m.updated = l.updated
                                 /\ m.entries = l.entries
                                 /\ IF k = i THEN l.enabled = on ELSE l = m
  BY <1>3, <1>5, Zenon
<1>7. UrlsUnique'
  <2> SUFFICES ASSUME NEW k \in ListIds, NEW n \in ListIds, NEW l \in lists'[k], NEW m \in lists'[n],
                      k = n \/ l.url = m.url
               PROVE  k = n /\ l = m
    BY Zenon DEF UrlsUnique
  <2>1. l \in List /\ m \in List
    BY <1>5, Zenon
  <2>2. PICK x \in lists[k] : /\ x.url = l.url /\ x.updated = l.updated /\ x.entries = l.entries
                              /\ IF k = i THEN l.enabled = on ELSE l = x
    BY <1>6, Zenon
  <2>3. PICK y \in lists[n] : /\ y.url = m.url /\ y.updated = m.updated /\ y.entries = m.entries
                              /\ IF n = i THEN m.enabled = on ELSE m = y
    BY <1>6, Zenon
  <2>4. k = n /\ x = y
    BY <1>1, <2>2, <2>3 DEF UrlsUnique
  <2> QED  BY <2>1, <2>2, <2>3, <2>4 DEF List
<1>8. UNCHANGED <<rules, rewrites, queued, crossed>> /\ Request(t, "load")
  BY Zenon DEF DeleteList, EnableList
<1>9. ListsOwn'
  <2> SUFFICES ASSUME NEW k \in ListIds \ crossed, NEW l \in lists'[k] PROVE OwnVersion(l)
    BY <1>8, Zenon DEF ListsOwn
  <2>1. PICK m \in lists[k] : m.url = l.url /\ m.updated = l.updated /\ m.entries = l.entries
    BY <1>6, Zenon
  <2>2. OwnVersion(m)
    BY Zenon DEF FilteringInv, ListsOwn
  <2> QED  BY <2>1, <2>2, Zenon DEF OwnVersion
<1>10. Moves(t) /\ job'[t] = {}
  <2>1. queued[t] = {} /\ queued' = [queued EXCEPT ![t] = {}]
    <3>1. stage[t] = "idle"
      BY <1>8, Zenon DEF Request
    <3>2. queued[t] = {}
      BY <3>1, Zenon DEF FilteringInv, CallersOK, WorkOK
    <3> QED  BY <1>1, <1>8, <3>2, Zenon DEF FilteringTypes
  <2> QED  BY <1>1, <1>5, <1>8, <2>1, RequestMoves, Zenon DEF FilteringTypes
<1>11. job \in [Callers -> SUBSET Job]
  BY <1>1, Zenon DEF FilteringTypes
<1>12. \A s \in Callers : \A j \in job[s] : j.id \in ListIds
  BY <1>11 DEF Job
<1>13. \A s \in Callers : \A j \in job[s] : \A l \in lists'[j.id] : \E m \in lists[j.id] : m.url = l.url
  BY <1>6, <1>12, Zenon
<1> QED  BY <1>7, <1>8, <1>9, <1>10, <1>13, ListsChange, Zenon

\* The requests on rules and rewrites, and those that only refresh.
LEMMA OtherRequestInv ==
  ASSUME FilteringInv, NEW t \in Callers, NEW p \in {"load", "row"}, Request(t, p),
         NEW T \in SUBSET ListIds, p = "row" <=> T # {},
         queued' = [queued EXCEPT ![t] = T], UNCHANGED <<lists, crossed>>,
         rules' \in [RuleIds -> SUBSET Rule], rewrites' \in [RewriteIds -> SUBSET Rewrite]
  PROVE  FilteringInv'
<1>1. lists \in [ListIds -> SUBSET List]
  BY Zenon DEF FilteringInv, FilteringTypes
<1>2. Moves(t) /\ job'[t] = {}
  BY <1>1, RequestMoves, Zenon
<1> QED  BY <1>2, TaskMoves, Zenon

\* refresh_all_lists and the periodic refresh.
LEMMA RefreshAllInv ==
  ASSUME FilteringInv, NEW t \in Callers, NEW ids \in SUBSET ListIds, RefreshAll(t, ids)
  PROVE  FilteringInv'
<1>1. FilteringTypes /\ WorkOK(stage[t], queued[t], job[t], fetched[t])
  BY Zenon DEF FilteringInv, CallersOK
<1> DEFINE p == IF ids = {} THEN "load" ELSE "row"
<1>2. /\ stage[t] = "idle" /\ stage' = [stage EXCEPT ![t] = p] /\ queued' = [queued EXCEPT ![t] = ids]
      /\ UNCHANGED <<lists, rules, rewrites, remote, job, fetched, crossed>>
  BY Zenon DEF RefreshAll, Reach, tables
<1>3. p \in Stages /\ p \in {"load", "row"} /\ (p = "row" <=> ids # {})
  BY Zenon DEF Stages
<1>4. job[t] = {} /\ fetched[t] = {}
  BY <1>1, <1>2, Zenon DEF WorkOK
<1> HIDE DEF p
<1>5. /\ stage' \in [Callers -> Stages] /\ stage'[t] = p
      /\ queued' \in [Callers -> SUBSET ListIds] /\ queued'[t] = ids
      /\ \A s \in Callers \ {t} : stage'[s] = stage[s] /\ queued'[s] = queued[s]
  BY <1>1, <1>2, <1>3, Zenon DEF FilteringTypes
<1>6. FilteringTypes'
  BY <1>1, <1>2, <1>5, Zenon DEF FilteringTypes
<1>7. WorkOK(stage'[t], queued'[t], job'[t], fetched'[t])
  BY <1>2, <1>3, <1>4, <1>5, Zenon DEF WorkOK
<1>8. Moves(t)
  BY <1>2, <1>5, <1>6, <1>7, Zenon DEF Moves
<1> QED  BY <1>2, <1>4, <1>8, TaskMoves, Zenon

\* Every request of the administrator keeps the invariant.
LEMMA AdminInv ==
  ASSUME FilteringInv, NEW t \in Admins, AdminRequest(t)
  PROVE  FilteringInv'
<1>1. FilteringTypes /\ t \in Callers /\ WorkOK(stage[t], queued[t], job[t], fetched[t])
  BY Zenon DEF FilteringInv, CallersOK, Callers
<1>2. ASSUME stage[t] = "idle", UNCHANGED queued PROVE queued' = [queued EXCEPT ![t] = {}]
  <2>1. queued[t] = {}
    BY <1>1, <1>2, Zenon DEF WorkOK
  <2> QED  BY <1>1, <1>2, <2>1, Zenon DEF FilteringTypes
<1>3. ASSUME Request(t, "load"), UNCHANGED <<lists, queued, crossed>>,
             rules' \in [RuleIds -> SUBSET Rule], rewrites' \in [RewriteIds -> SUBSET Rewrite]
      PROVE  FilteringInv'
  <2>1. stage[t] = "idle"
    BY <1>3, Zenon DEF Request
  <2>2. queued' = [queued EXCEPT ![t] = {}]
    BY <1>2, <1>3, <2>1, Zenon
  <2> QED  BY <1>1, <1>3, <2>2, OtherRequestInv, Zenon
<1>4. ASSUME NEW i \in ListIds, RefreshList(t, i) PROVE FilteringInv'
  <2>1. Request(t, "row") /\ UNCHANGED <<lists, rules, rewrites, crossed>>
        /\ queued' = [queued EXCEPT ![t] = {i}]
    BY <1>4, Zenon DEF RefreshList, tables
  <2>2. rules' \in [RuleIds -> SUBSET Rule] /\ rewrites' \in [RewriteIds -> SUBSET Rewrite]
    BY <1>1, <2>1, Zenon DEF FilteringTypes
  <2>3. {i} \in SUBSET ListIds /\ {i} # {}
    OBVIOUS
  <2> QED  BY <1>1, <2>1, <2>2, <2>3, OtherRequestInv, Zenon
<1>5. ASSUME RefreshAllLists(t) PROVE FilteringInv'
  <2>1. PICK ids \in {EnabledIds, {}} : RefreshAll(t, ids)
    BY <1>5, Zenon DEF RefreshAllLists
  <2>2. ids \in SUBSET ListIds
    BY Zenon DEF EnabledIds
  <2> QED  BY <1>1, <2>1, <2>2, RefreshAllInv, Zenon
<1>6. ASSUME NEW i \in RuleIds, DeleteRule(t, i) \/ \E r \in Rules : CreateRule(t, i, r)
      PROVE  FilteringInv'
  <2>1. Request(t, "load") /\ UNCHANGED <<lists, rewrites, queued, crossed>>
    BY <1>6, Zenon DEF DeleteRule, CreateRule
  <2>2. \E R \in SUBSET Rule : rules' = [rules EXCEPT ![i] = R]
    <3>1. \A r \in Rules : {r} \in SUBSET Rule
      BY FilteringAssumption, Zenon
    <3> QED  BY <1>6, <3>1, Zenon DEF DeleteRule, CreateRule, Delete, InsertRule
  <2>3. rules' \in [RuleIds -> SUBSET Rule] /\ rewrites' \in [RewriteIds -> SUBSET Rewrite]
    BY <1>1, <2>1, <2>2, Zenon DEF FilteringTypes
  <2> QED  BY <1>3, <2>1, <2>3, Zenon
<1>7. ASSUME NEW i \in RewriteIds,
             DeleteRewrite(t, i) \/ \E w \in Rewrites : CreateRewrite(t, i, w) \/ UpdateRewrite(t, i, w)
      PROVE  FilteringInv'
  <2>1. Request(t, "load") /\ UNCHANGED <<lists, rules, queued, crossed>>
    BY <1>7, Zenon DEF DeleteRewrite, CreateRewrite, UpdateRewrite
  <2>2. \A w \in Rewrites : w \in Rewrite /\ [w EXCEPT !.enabled = TRUE] \in Rewrite
    <3>1. Rewrites \subseteq Rewrite
      BY FilteringAssumption, Zenon
    <3> QED  BY <3>1, Zenon DEF Rewrite
  <2>3. \E R \in SUBSET Rewrite : rewrites' = [rewrites EXCEPT ![i] = R]
    <3>1. CASE DeleteRewrite(t, i)
      BY <3>1, Zenon DEF DeleteRewrite, Delete
    <3>2. ASSUME NEW w \in Rewrites, CreateRewrite(t, i, w)
          PROVE  \E R \in SUBSET Rewrite : rewrites' = [rewrites EXCEPT ![i] = R]
      <4>1. rewrites' = [rewrites EXCEPT ![i] = {[w EXCEPT !.enabled = TRUE]}]
        BY <3>2, Zenon DEF CreateRewrite, InsertRewrite
      <4> QED  BY <2>2, <4>1, Zenon
    <3>3. ASSUME NEW w \in Rewrites, UpdateRewrite(t, i, w)
          PROVE  \E R \in SUBSET Rewrite : rewrites' = [rewrites EXCEPT ![i] = R]
      <4>1. rewrites' = [rewrites EXCEPT ![i] = {w : x \in rewrites[i]}]
        BY <3>3, Zenon DEF UpdateRewrite, ChangeRewrite
      <4>2. {w : x \in rewrites[i]} \in SUBSET Rewrite
        BY <2>2, Zenon
      <4> QED  BY <4>1, <4>2, Zenon
    <3> QED  BY <1>7, <3>1, <3>2, <3>3, Zenon
  <2>4. rules' \in [RuleIds -> SUBSET Rule] /\ rewrites' \in [RewriteIds -> SUBSET Rewrite]
    BY <1>1, <2>1, <2>3, Zenon DEF FilteringTypes
  <2> QED  BY <1>3, <2>1, <2>4, Zenon
<1>8. ASSUME NEW on \in BOOLEAN, SetRefreshHours(t, on) PROVE FilteringInv'
  <2>1. Request(t, "load") /\ UNCHANGED <<lists, rules, rewrites, queued, crossed>>
    BY <1>8, Zenon DEF SetRefreshHours, tables
  <2>2. rules' \in [RuleIds -> SUBSET Rule] /\ rewrites' \in [RewriteIds -> SUBSET Rewrite]
    BY <1>1, <2>1, Zenon DEF FilteringTypes
  <2> QED  BY <1>3, <2>1, <2>2, Zenon
<1> QED  BY <1>1, <1>4, <1>5, <1>6, <1>7, <1>8, CreateListInv, EditListInv, Zenon DEF AdminRequest

\* At the start there are no lists and nobody refreshes one.
LEMMA FilteringInit == FilterInit => FilteringInv
<1> SUFFICES ASSUME FilterInit PROVE FilteringInv
  OBVIOUS
<1>1. FilteringTypes
  BY Zenon DEF FilterInit, FilteringTypes, Stages
<1>2. CallersOK /\ JobsOwn
  BY Zenon DEF FilterInit, CallersOK, WorkOK, JobsOwn
<1>3. UrlsUnique /\ ListsOwn
  BY Zenon DEF FilterInit, UrlsUnique, ListsOwn
<1> QED  BY <1>1, <1>2, <1>3, Zenon DEF FilteringInv

\* A restart leaves the tables; no work survives it.
LEMMA RestartInv ==
  ASSUME FilteringInv, RestartFilter
  PROVE  FilteringInv'
<1>1. UNCHANGED <<lists, rules, rewrites, remote, crossed>>
  BY Zenon DEF RestartFilter, tables
<1>2. /\ stage' \in [Callers -> {"idle"}] /\ queued' \in [Callers -> {{}}]
      /\ job' \in [Callers -> {{}}] /\ fetched' \in [Callers -> {{}}]
  BY Zenon DEF RestartFilter
<1>3. FilteringTypes'
  BY <1>1, <1>2, Zenon DEF FilteringInv, FilteringTypes, Stages
<1>4. CallersOK' /\ JobsOwn'
  BY <1>2, Zenon DEF CallersOK, WorkOK, JobsOwn
<1>5. UrlsUnique'
  BY <1>1 DEF FilteringInv, UrlsUnique
<1>6. ListsOwn'
  BY <1>1, Zenon DEF FilteringInv, ListsOwn
<1> QED  BY <1>3, <1>4, <1>5, <1>6, Zenon DEF FilteringInv

\* New contents of a URL are one of its versions.
LEMMA PublishInv ==
  ASSUME FilteringInv, NEW u \in Urls, NEW d \in Versions[u], Publish(u, d)
  PROVE  FilteringInv'
<1>1. UNCHANGED <<lists, rules, rewrites, stage, queued, job, fetched, crossed>> /\ remote' = [remote EXCEPT ![u] = d]
  BY Zenon DEF Publish, tables, callerVars
<1>2. d \in SUBSET Domains
  BY FilteringAssumption, Zenon
<1>3. remote' \in [Urls -> SUBSET Domains] /\ \A v \in Urls : remote'[v] \in Versions[v]
  BY <1>1, <1>2, Zenon DEF FilteringInv, FilteringTypes
<1>4. FilteringTypes'
  BY <1>1, <1>3, Zenon DEF FilteringInv, FilteringTypes
<1>5. CallersOK' /\ JobsOwn'
  BY <1>1, Zenon DEF FilteringInv, CallersOK, JobsOwn
<1>6. UrlsUnique'
  BY <1>1 DEF FilteringInv, UrlsUnique
<1>7. ListsOwn'
  BY <1>1, Zenon DEF FilteringInv, ListsOwn
<1> QED  BY <1>4, <1>5, <1>6, <1>7, Zenon DEF FilteringInv

\* Every step of Filtering keeps the invariant.
LEMMA FilteringStep ==
  ASSUME FilteringInv, [FilterNext]_filterVars
  PROVE  FilteringInv'
<1>1. CASE UNCHANGED filterVars
  <2>1. UNCHANGED <<lists, rules, rewrites, remote, stage, queued, job, fetched, crossed>>
    BY <1>1, Zenon DEF filterVars, tables, callerVars
  <2>2. FilteringTypes' /\ CallersOK' /\ JobsOwn'
    BY <2>1, Zenon DEF FilteringInv, FilteringTypes, CallersOK, JobsOwn
  <2>3. UrlsUnique'
    BY <2>1 DEF FilteringInv, UrlsUnique
  <2>4. ListsOwn'
    BY <2>1, Zenon DEF FilteringInv, ListsOwn
  <2> QED  BY <2>2, <2>3, <2>4, Zenon DEF FilteringInv
<1>2. CASE AutoRefresh \/ AutoRefreshUnread
  <2>1. Periodic \in Callers /\ EnabledIds \in SUBSET ListIds
    BY Zenon DEF Callers, EnabledIds
  <2>2. PICK ids \in {EnabledIds, {}} : RefreshAll(Periodic, ids)
    BY <1>2, Zenon DEF AutoRefresh, AutoRefreshUnread
  <2>3. ids \in SUBSET ListIds
    BY <2>1, Zenon
  <2> QED  BY <2>1, <2>2, <2>3, RefreshAllInv, Zenon
<1>3. ASSUME NEW t \in Callers, Go(t) \/ Trouble(t) PROVE FilteringInv'
  BY <1>3, GoInv, Zenon
<1>4. ASSUME NEW t \in Admins, AdminRequest(t) PROVE FilteringInv'
  BY <1>4, AdminInv, Zenon
<1>5. ASSUME NEW u \in Urls, NEW d \in Versions[u], Publish(u, d) PROVE FilteringInv'
  BY <1>5, PublishInv, Zenon
<1>6. CASE RestartFilter
  BY <1>6, RestartInv, Zenon
<1> QED  BY <1>1, <1>2, <1>3, <1>4, <1>5, <1>6, Zenon DEF FilterNext

\* However many callers refresh lists at a time, whatever downloads and writes
\* fail and whenever the process restarts, a list that fetch_one refreshed
\* holds one whole version of what its own URL published, and no URL is on two
\* lists (EntriesOwn); but for the list that took over the id of one that was
\* being downloaded.
THEOREM EntriesOwned == FilterSpec => []EntriesOwn
<1>1. FilteringInv => EntriesOwn
  <2> SUFFICES ASSUME FilteringInv PROVE EntriesOwn
    OBVIOUS
  <2>1. \A t \in Callers : /\ job[t] # {} <=> stage[t] \in {"fetch", "store"}
                           /\ queued[t] # {} <=> stage[t] \in {"row", "fetch", "store"}
    BY Zenon DEF FilteringInv, CallersOK, WorkOK
  <2>2. /\ lists \in [ListIds -> SUBSET List]
        /\ rules \in [RuleIds -> SUBSET Rule] /\ rewrites \in [RewriteIds -> SUBSET Rewrite]
        /\ stage \in [Callers -> Stages] /\ queued \in [Callers -> SUBSET ListIds]
    BY Zenon DEF FilteringInv, FilteringTypes
  <2>3. UrlsUnique
    BY Zenon DEF FilteringInv
  <2>4. \A i \in ListIds \ crossed : \A l \in lists[i] :
          IF l.updated THEN l.entries \in Versions[l.url] ELSE l.entries = {}
    BY Zenon DEF FilteringInv, ListsOwn, OwnVersion
  <2> QED  BY <2>1, <2>2, <2>3, <2>4, Zenon DEF UrlsUnique, EntriesOwn
<1>2. FilterInit => FilteringInv
  BY FilteringInit, Zenon
<1>3. FilteringInv /\ [FilterNext]_filterVars => FilteringInv'
  BY FilteringStep, Zenon
<1> QED  BY <1>1, <1>2, <1>3, PTL DEF FilterSpec

=============================================================================
