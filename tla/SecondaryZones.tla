--------------------------- MODULE SecondaryZones ---------------------------
(***************************************************************************)
(* Secondary zones: the poll loop of src/src/dns/secondary.rs, the         *)
(* administrator's requests on zones, the zones table and the store the    *)
(* resolver answers from, against a primary that changes its zone.         *)
(*                                                                         *)
(* One zone is replicated.  The primary raises its serial with every       *)
(* change, so its contents at serial k are written k.  Every database call *)
(* is one step; the poll loop and the requests interleave between them.    *)
(***************************************************************************)
EXTENDS Integers

CONSTANTS
  ZoneIds,       \* ids a zones row can have
  Requests,      \* the requests an administrator makes
  Workers,       \* tasks of the web server
  InitZones,     \* the tables the server can start with
  FailAt,        \* the calls that can fail
  FirstSerial,   \* serial of the primary when the server starts
  MaxSerial,     \* bound on every serial
  MaxRestarts    \* bound on the restarts of the process

AllRequests == {"create_secondary", "refresh", "create_zone", "delete_zone",
                "update_zone", "update_record", "delete_record"}

Tasks == Workers \cup {"poll"}

(***************************************************************************)
(* The records of a zone: those of the primary at a serial, none (the      *)
(* shell create_secondary makes), or some an administrator has edited; Own *)
(* are those of a zone that is not a secondary.                            *)
(***************************************************************************)
Shell == 0
Edited == -1
Own == -2
Data == {Shell, Edited, Own} \cup Nat

\* A row of zones with, for a secondary, the row of secondary_zones: due says
\* that last_check is missing or refresh_secs old.
Zone == [secondary : BOOLEAN, serial : Nat, data : Data, due : BOOLEAN]

ASSUME SecondaryAssumption ==
  /\ ZoneIds \subseteq Nat
  /\ Requests \subseteq AllRequests
  /\ "poll" \notin Workers
  /\ FailAt \subseteq {"soa", "axfr", "replace", "status", "load", "stamp", "failed"}
  /\ InitZones \subseteq [ZoneIds -> SUBSET Zone]
  /\ FirstSerial \in Nat /\ MaxSerial \in Nat /\ MaxRestarts \in Nat

VARIABLES
  primary,   \* serial, and so contents, of the zone at the primary
  zones,     \* [ZoneIds -> optional Zone]: the tables
  served,    \* the zones of the store the resolver answers from
  pc,        \* [Tasks -> next step]
  req,       \* [Tasks -> what the task is doing]
  zid,       \* [Tasks -> optional zone id the task works on]
  got,       \* [Tasks -> the serial of the transfer it has received]
  loaded,    \* [Tasks -> the zones it has read to rebuild the store]
  todo,      \* the rows the poll loop has listed and not yet looked at
  restarts,
  touched    \* history: "hand" once an administrator has edited zones by hand

vars == <<primary, zones, served, pc, req, zid, got, loaded, todo, restarts, touched>>
taskVars == <<pc, req, zid, got, loaded>>

Labels == {"idle", "next", "soa", "stamp", "axfr", "replace", "status", "failed",
           "write", "load", "swap"}

NoZones == [z \in ZoneIds |-> {}]

\* What ZoneStore::load keeps of a row.
Stored(t) == [z \in ZoneIds |-> {[serial |-> r.serial, data |-> r.data] : r \in t[z]}]

\* The stores it builds when reads fail: those of the records of the zones
\* not in R, which leaves them empty, or that of the list of zones.
StoredPart(t, R) == [z \in ZoneIds |->
  {[serial |-> r.serial, data |-> IF z \in R THEN r.data ELSE Shell] : r \in t[z]}]
StoredParts(t) == {Stored(NoZones)} \cup {StoredPart(t, R) : R \in SUBSET ZoneIds}

Init ==
  /\ primary = FirstSerial
  /\ zones \in InitZones
  /\ served = Stored(zones)
  /\ pc = [t \in Tasks |-> "idle"]
  /\ req = [t \in Tasks |-> "none"]
  /\ zid = [t \in Tasks |-> {}]
  /\ got = [t \in Tasks |-> 0]
  /\ loaded = [t \in Tasks |-> Stored(NoZones)]
  /\ todo = {}
  /\ restarts = 0
  /\ touched = "primary"

-----------------------------------------------------------------------------
(* The tables. *)

WithDue(r, d) ==
  [secondary |-> r.secondary, serial |-> r.serial, data |-> r.data, due |-> d]

\* set_secondary_status stamps last_check.
SetSecondaryStatus(t, Z) == [z \in ZoneIds |->
  IF z \in Z THEN {WithDue(r, FALSE) : r \in t[z]} ELSE t[z]]

\* A local change of the zone or, if edit, of a record of it: bump_serial.
Bump(t, Z, edit) == [z \in ZoneIds |->
  IF z \in Z THEN {[secondary |-> r.secondary, serial |-> r.serial + 1,
                    data |-> IF edit /\ r.secondary THEN Edited ELSE r.data,
                    due |-> r.due] : r \in t[z]}
  ELSE t[z]]

\* replace_secondary_zone: by id, and without asking whether the zone is a
\* secondary.
ReplaceSecondaryZone(t, Z, s) == [z \in ZoneIds |->
  IF z \in Z THEN {[secondary |-> r.secondary, serial |-> s, data |-> s,
                    due |-> r.due] : r \in t[z]}
  ELSE t[z]]

\* An INTEGER PRIMARY KEY without AUTOINCREMENT: one above the largest.
NewId(z) ==
  /\ \A y \in ZoneIds : zones[y] # {} => y < z
  /\ z = 1 \/ \E y \in ZoneIds : y = z - 1 /\ zones[y] # {}

-----------------------------------------------------------------------------
(* Steps of a task. *)

Goto(t, label) == pc' = [pc EXCEPT ![t] = label]

\* The request is answered, or the poll loop goes on to the next row.
Finish(t) ==
  /\ Goto(t, IF t = "poll" THEN "next" ELSE "idle")
  /\ zid' = [zid EXCEPT ![t] = {}]
  /\ got' = [got EXCEPT ![t] = 0]
  /\ loaded' = [loaded EXCEPT ![t] = Stored(NoZones)]
  /\ req' = [req EXCEPT ![t] = "none"]

\* transfer: the AXFR answer arrives, with its own SOA.
Axfr(t) ==
  /\ pc[t] = "axfr"
  /\ Goto(t, "replace")
  /\ got' = [got EXCEPT ![t] = primary]
  /\ UNCHANGED <<primary, zones, served, req, zid, loaded, todo, restarts, touched>>

\* Mutant of Replace: the serial is asked for again instead of taken from
\* the transfer.
ReplaceRequeried(t) ==
  /\ pc[t] = "replace"
  /\ \E z \in zid[t] : zones[z] # {}
  /\ zones' = [z \in ZoneIds |->
       IF z \in zid[t] THEN {[secondary |-> r.secondary, serial |-> primary,
                              data |-> got[t], due |-> r.due] : r \in zones[z]}
       ELSE zones[z]]
  /\ Goto(t, "status")
  /\ UNCHANGED <<primary, served, req, zid, got, loaded, todo, restarts, touched>>

\* Mutant of Replace: the records are replaced and the serial is kept.
ReplaceKeepsSerial(t) ==
  /\ pc[t] = "replace"
  /\ \E z \in zid[t] : zones[z] # {}
  /\ zones' = [z \in ZoneIds |->
       IF z \in zid[t] THEN {[secondary |-> r.secondary, serial |-> r.serial,
                              data |-> got[t], due |-> r.due] : r \in zones[z]}
       ELSE zones[z]]
  /\ Goto(t, "status")
  /\ UNCHANGED <<primary, served, req, zid, got, loaded, todo, restarts, touched>>

Replace(t) ==
  /\ pc[t] = "replace"
  /\ \E z \in zid[t] : zones[z] # {}
  /\ zones' = ReplaceSecondaryZone(zones, zid[t], got[t])
  /\ Goto(t, "status")
  /\ UNCHANGED <<primary, served, req, zid, got, loaded, todo, restarts, touched>>

Status(t) ==
  /\ pc[t] = "status"
  /\ zones' = SetSecondaryStatus(zones, zid[t])
  /\ Goto(t, "load")
  /\ UNCHANGED <<primary, served, req, zid, got, loaded, todo, restarts, touched>>

\* reload_store reads the tables under the lock of the database ...
Load(t) ==
  /\ pc[t] = "load"
  /\ loaded' = [loaded EXCEPT ![t] = Stored(zones)]
  /\ Goto(t, "swap")
  /\ UNCHANGED <<primary, zones, served, req, zid, got, todo, restarts, touched>>

\* A query of it that fails counts as one that returns nothing.
LoadPart(t) ==
  /\ pc[t] = "load" /\ "load" \in FailAt
  /\ \E S \in StoredParts(zones) : loaded' = [loaded EXCEPT ![t] = S]
  /\ Goto(t, "swap")
  /\ UNCHANGED <<primary, zones, served, req, zid, got, todo, restarts, touched>>

\* ... and puts the new store in place later.
Swap(t) ==
  /\ pc[t] = "swap"
  /\ served' = loaded[t]
  /\ Finish(t)
  /\ UNCHANGED <<primary, zones, todo, restarts, touched>>

\* transfer fails: refresh_secondary answers 502 and leaves last_check alone,
\* poll_loop and create_secondary go on to record the error.
Error(t) ==
  /\ IF req[t] \in {"poll", "create_secondary"}
     THEN Goto(t, "failed") /\ UNCHANGED <<req, zid, got, loaded>>
     ELSE Finish(t)
  /\ UNCHANGED <<primary, zones, served, todo, restarts, touched>>

\* The stamp, or the error, could not be recorded: nobody looks at that.
Unrecorded(t) ==
  /\ pc[t] \in {"stamp", "failed"}
  /\ Finish(t)
  /\ UNCHANGED <<primary, zones, served, todo, restarts, touched>>

\* A call to the primary or to the database fails.
Fail(t) ==
  /\ pc[t] \in FailAt
  /\ \/ Unrecorded(t)
     \/ LoadPart(t)
     \/ pc[t] \notin {"stamp", "failed", "load"} /\ Error(t)

\* The records of a zone that is gone fail their foreign key.
ReplaceGone(t) ==
  /\ pc[t] = "replace"
  /\ \A z \in zid[t] : zones[z] = {}
  /\ Error(t)

\* record_error, and the error path of create_secondary.
RecordError(t) ==
  /\ pc[t] = "failed"
  /\ zones' = SetSecondaryStatus(zones, zid[t])
  /\ Finish(t)
  /\ UNCHANGED <<primary, served, todo, restarts, touched>>

-----------------------------------------------------------------------------
(* The poll loop. *)

\* list_secondaries.
PollList ==
  /\ pc["poll"] = "idle"
  /\ todo' = UNION {{[id |-> z, serial |-> r.serial, due |-> r.due] :
                       r \in {q \in zones[z] : q.secondary}} : z \in ZoneIds}
  /\ Goto("poll", "next")
  /\ UNCHANGED <<primary, zones, served, req, zid, got, loaded, restarts, touched>>

\* A row that is not due.
PollSkip(s) ==
  /\ pc["poll"] = "next"
  /\ s \in todo /\ ~s.due
  /\ todo' = todo \ {s}
  /\ UNCHANGED <<primary, zones, served, taskVars, restarts, touched>>

\* A row that is due, or has become so since it was listed.
PollCheck(s) ==
  /\ pc["poll"] = "next"
  /\ s \in todo
  /\ todo' = todo \ {s}
  /\ Goto("poll", "soa")
  /\ req' = [req EXCEPT !["poll"] = "poll"]
  /\ zid' = [zid EXCEPT !["poll"] = {s.id}]
  /\ got' = [got EXCEPT !["poll"] = s.serial]
  /\ UNCHANGED <<primary, zones, served, loaded, restarts, touched>>

PollEnd ==
  /\ pc["poll"] = "next"
  /\ todo = {}
  /\ Goto("poll", "idle")
  /\ UNCHANGED <<primary, zones, served, req, zid, got, loaded, todo, restarts, touched>>

\* Mutant of PollSoa: off by one.
PollSoaLate ==
  /\ pc["poll"] = "soa"
  /\ Goto("poll", IF primary > got["poll"] + 1 THEN "axfr" ELSE "stamp")
  /\ UNCHANGED <<primary, zones, served, req, zid, got, loaded, todo, restarts, touched>>

\* The answer of the primary is compared with the serial that was listed.
PollSoa ==
  /\ pc["poll"] = "soa"
  /\ Goto("poll", IF primary # got["poll"] THEN "axfr" ELSE "stamp")
  /\ UNCHANGED <<primary, zones, served, req, zid, got, loaded, todo, restarts, touched>>

PollStamp ==
  /\ pc["poll"] = "stamp"
  /\ zones' = SetSecondaryStatus(zones, zid["poll"])
  /\ Finish("poll")
  /\ UNCHANGED <<primary, served, todo, restarts, touched>>

Poll ==
  \/ PollList \/ PollEnd \/ PollSoa \/ PollStamp
  \/ \E s \in todo : PollSkip(s) \/ PollCheck(s)

-----------------------------------------------------------------------------
(* The administrator. *)

\* The requests that change zones otherwise than by a transfer.
ByHand == {"create_zone", "update_zone", "update_record", "delete_record"}

Begin(t, r, z, label) ==
  /\ t # "poll" /\ pc[t] = "idle"
  /\ r \in Requests
  /\ Goto(t, label)
  /\ req' = [req EXCEPT ![t] = r]
  /\ zid' = [zid EXCEPT ![t] = {z}]
  /\ touched' = IF r \in ByHand THEN "hand" ELSE touched
  /\ UNCHANGED <<primary, served, got, loaded, todo, restarts>>

\* The name is UNIQUE: the zone must not be there yet.
CreateSecondary(t, z) ==
  /\ NewId(z)
  /\ \A y \in ZoneIds : \A r \in zones[y] : ~r.secondary
  /\ zones' = [zones EXCEPT ![z] =
       {[secondary |-> TRUE, serial |-> 1, data |-> Shell, due |-> TRUE]}]
  /\ Begin(t, "create_secondary", z, "axfr")

RefreshSecondary(t, z) ==
  /\ \E r \in zones[z] : r.secondary
  /\ Begin(t, "refresh", z, "axfr")
  /\ UNCHANGED zones

\* Another zone; the NS record bumps the serial.
CreateZone(t, z) ==
  /\ NewId(z)
  /\ \A y \in ZoneIds : \A r \in zones[y] : r.secondary
  /\ zones' = [zones EXCEPT ![z] =
       {[secondary |-> FALSE, serial |-> 2, data |-> Own, due |-> FALSE]}]
  /\ Begin(t, "create_zone", z, "load")

DeleteZone(t, z) ==
  /\ zones' = [zones EXCEPT ![z] = {}]
  /\ Begin(t, "delete_zone", z, "load")

HasRecords(z) == \E r \in zones[z] : r.data # Shell

\* update_zone and update_record look the zone or the record up and change it
\* later; neither asks whether the zone is a secondary.
LookUp(t, r, z) ==
  /\ r \in {"update_zone", "update_record"}
  /\ IF r = "update_zone" THEN zones[z] # {} ELSE HasRecords(z)
  /\ Begin(t, r, z, "write")
  /\ UNCHANGED zones

\* A record that is gone by then fails the request.
Write(t) ==
  /\ pc[t] = "write"
  /\ \A z \in zid[t] : \A r \in zones[z] : r.serial < MaxSerial
  /\ IF req[t] = "update_zone" \/ \E z \in zid[t] : HasRecords(z)
     THEN /\ zones' = Bump(zones, zid[t], req[t] = "update_record")
          /\ Goto(t, "load")
          /\ UNCHANGED <<req, zid, got, loaded>>
     ELSE Finish(t) /\ UNCHANGED zones
  /\ UNCHANGED <<primary, served, todo, restarts, touched>>

\* Nor does delete_record.
DeleteRecord(t, z) ==
  /\ \A r \in zones[z] : r.serial < MaxSerial
  /\ zones' = IF HasRecords(z) THEN Bump(zones, {z}, TRUE) ELSE zones
  /\ Begin(t, "delete_record", z, "load")

Admin(t) ==
  \E z \in ZoneIds :
    \/ CreateSecondary(t, z) \/ RefreshSecondary(t, z) \/ CreateZone(t, z)
    \/ DeleteZone(t, z) \/ DeleteRecord(t, z)
    \/ \E r \in AllRequests : LookUp(t, r, z)

-----------------------------------------------------------------------------
(* The primary, time, and restarts of the process. *)

PrimaryChanges ==
  /\ primary < MaxSerial
  /\ primary' = primary + 1
  /\ UNCHANGED <<zones, served, taskVars, todo, restarts, touched>>

\* refresh_secs have passed since last_check.
Elapse(z) ==
  /\ \E r \in zones[z] : r.secondary /\ ~r.due
  /\ zones' = [zones EXCEPT ![z] = {WithDue(r, TRUE) : r \in zones[z]}]
  /\ UNCHANGED <<primary, served, taskVars, todo, restarts, touched>>

\* main loads the store before anything runs.
Restart ==
  /\ restarts < MaxRestarts
  /\ restarts' = restarts + 1
  /\ served' = Stored(zones)
  /\ pc' = [t \in Tasks |-> "idle"]
  /\ req' = [t \in Tasks |-> "none"]
  /\ zid' = [t \in Tasks |-> {}]
  /\ got' = [t \in Tasks |-> 0]
  /\ loaded' = [t \in Tasks |-> Stored(NoZones)]
  /\ todo' = {}
  /\ UNCHANGED <<primary, zones, touched>>

Step(t) ==
  \/ Axfr(t) \/ Replace(t) \/ ReplaceGone(t) \/ Status(t) \/ RecordError(t)
  \/ Load(t) \/ Swap(t) \/ Write(t)

Next ==
  \/ Poll
  \/ \E t \in Tasks : Step(t) \/ Fail(t)
  \/ \E t \in Workers : Admin(t)
  \/ \E z \in ZoneIds : Elapse(z)
  \/ PrimaryChanges
  \/ Restart

(***************************************************************************)
(* Tasks keep running and time passes; the poll loop's questions to the    *)
(* primary and its writes of records fail at times but not for ever.  What *)
(* comes after these may always fail.                                      *)
(***************************************************************************)
Fairness ==
  /\ WF_vars(Poll \/ Step("poll") \/ Fail("poll"))
  /\ \A t \in Workers : WF_vars(Step(t) \/ Fail(t))
  /\ \A z \in ZoneIds : WF_vars(Elapse(z))
  /\ SF_vars(PollSoa) /\ SF_vars(Axfr("poll")) /\ SF_vars(Replace("poll"))

Spec == Init /\ [][Next]_vars

FairSpec == Spec /\ Fairness

-----------------------------------------------------------------------------
(* Properties. *)

Optional(S) == \A a, b \in S : a = b

TypeOK ==
  /\ primary \in Nat
  /\ zones \in [ZoneIds -> SUBSET Zone]
  /\ served \in [ZoneIds -> SUBSET [serial : Nat, data : Data]]
  /\ pc \in [Tasks -> Labels]
  /\ req \in [Tasks -> AllRequests \cup {"none", "poll"}]
  /\ zid \in [Tasks -> SUBSET ZoneIds]
  /\ got \in [Tasks -> Nat]
  /\ loaded \in [Tasks -> [ZoneIds -> SUBSET [serial : Nat, data : Data]]]
  /\ todo \subseteq [id : ZoneIds, serial : Nat, due : BOOLEAN]
  /\ restarts \in Nat
  /\ \A z \in ZoneIds : Optional(zones[z])
  /\ \A t \in Tasks : Optional(zid[t])

Faithful(r) ==
  /\ r.serial <= primary
  /\ r.data = r.serial \/ (r.data = Shell /\ r.serial = 1)

FaithfulCopy(q) == q.serial <= primary /\ q.data \in {q.serial, Shell}

\* The serial of a secondary tells its contents as long as only transfers
\* touch the zones: whatever transfers overlap, a zone that carries serial k,
\* in the tables or in the store, holds what the primary had at serial k, or
\* nothing at all: not yet transferred (at serial 1 alone) or, in the store,
\* not read.  The poll loop relies on it when it compares nothing but serials.
SerialNamesData ==
  touched = "primary" =>
    \A z \in ZoneIds :
      /\ \A r \in zones[z] : Faithful(r)
      /\ \A r \in served[z] : FaithfulCopy(r)

\* The tables, the store and the copies the tasks work on come from the
\* primary.
Replicating ==
  /\ TypeOK
  /\ \A z \in ZoneIds : \A r \in zones[z] : r.secondary /\ Faithful(r)
  /\ \A z \in ZoneIds : \A r \in served[z] : FaithfulCopy(r)
  /\ \A t \in Tasks : \A z \in ZoneIds : \A r \in loaded[t][z] : FaithfulCopy(r)
  /\ \A t \in Tasks : got[t] <= primary /\ pc[t] # "write"
  /\ \A s \in todo : s.serial <= primary
  /\ primary >= 1

\* The inductive invariant: so they do until an administrator edits by hand.
SecondaryInv == touched = "primary" => Replicating

\* When it holds at the start: the zones came from the primary.
StartsReplicated ==
  /\ FirstSerial >= 1
  /\ \A t \in InitZones : \A z \in ZoneIds : \A r, q \in t[z] :
       /\ r = q
       /\ r.secondary
       /\ r.serial <= FirstSerial
       /\ r.data = r.serial \/ (r.data = Shell /\ r.serial = 1)

\* Whatever the administrator does, the serial of a secondary keeps coming
\* back to that of its primary: that much the poll loop can see.
SerialConverges ==
  \A z \in ZoneIds : []<>(\A r \in zones[z] : r.secondary => r.serial = primary)

\* A secondary nobody edits keeps catching up with its primary, through
\* failed and overlapping transfers and restarts: poll_loop refreshes it when
\* the serial of the primary changes.
Converges ==
  \A z \in ZoneIds :
    []<>(touched = "primary" => \A r \in zones[z] : r.secondary => r.data = primary)

=============================================================================
