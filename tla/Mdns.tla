-------------------------------- MODULE Mdns --------------------------------
(***************************************************************************)
(* mDNS discovery (src/src/dns/mdns.rs): the registry of *.local hosts,    *)
(* the listener that fills it by walking the DNS-SD graph of the link over *)
(* a network that loses messages, the supervisor that starts and stops the *)
(* listener, and the settings both read whenever they need them.           *)
(*                                                                         *)
(* An aborted listener first finishes the message it is working on; late   *)
(* holds what it has still to insert.  All of the state is in memory: a    *)
(* restart is the initial state.                                           *)
(***************************************************************************)
EXTENDS Integers, Sequences, FiniteSets

CONSTANTS
  Meta,         \* SERVICES_META
  Names,        \* service types, service instances and host names
  Hosts,        \* the names among them that are flat *.local names
  V4, V6,       \* addresses
  LanAddrs,     \* those is_lan_addr accepts
  Graph,        \* [Questions -> the PTR and SRV records they are answered with]
  LinkStates,   \* [Hosts -> the addresses of the host]: what the link can be like
  Chatter,      \* questions other clients are heard to ask
  MdnsTtl,      \* mdns_ttl
  QueriedCap    \* QUERIED_CAP

Addrs == V4 \cup V6
Questions == (Names \cup {Meta}) \X {"PTR", "SRV", "A", "AAAA"}
Link == [name : Names \cup {Meta}, type : {"PTR", "SRV"}, data : Names]
Address == [name : Names, type : {"A", "AAAA"}, data : Addrs]
Message == [records : SUBSET (Link \cup Address), asks : SUBSET Questions]

ASSUME MdnsAssumption ==
  /\ IsFiniteSet(Names) /\ Hosts \subseteq Names /\ LanAddrs \subseteq Addrs
  /\ V4 \cap V6 = {}
  /\ Graph \in [Questions -> SUBSET Link]
  /\ LinkStates \subseteq [Hosts -> SUBSET Addrs]
  /\ Chatter \subseteq Questions
  /\ MdnsTtl \in Nat \ {0} /\ QueriedCap \in Nat

VARIABLES
  enabled, publish,  \* settings mdns_enabled and mdns_publish_public
  link,              \* [Hosts -> the addresses the host has now]
  reg,               \* [Hosts -> [ips, left]]: the registry, left until it expires
  sup,               \* next step of the supervisor
  lastPublic,        \* the policy it saw last
  listener,          \* its next step: "none", "bind", "select", "learn"
  pend,              \* <<host, address>> pairs it has still to insert
  follow,            \* questions it will ask then
  queried,           \* questions asked in this cycle
  wire,              \* questions of its that will be answered or lost
  late,              \* what aborted listeners have still to insert
  raced              \* history: see LanOnly

listenerVars == <<listener, pend, follow, queried, wire, late>>
mdnsVars == <<enabled, publish, link, reg, sup, lastPublic, listenerVars, raced>>

MdnsInit ==
  /\ enabled \in BOOLEAN /\ publish \in BOOLEAN
  /\ link \in LinkStates
  /\ reg = [h \in Hosts |-> [ips |-> {}, left |-> 0]]
  /\ sup = "tick" /\ lastPublic = publish
  /\ listener = "none" /\ pend = {} /\ follow = {} /\ queried = {} /\ wire = {} /\ late = {}
  /\ raced = FALSE

-----------------------------------------------------------------------------
(* The registry. *)

\* insert: one expiry for all the addresses of a host.
Inserted(r, h, ip) == [r EXCEPT ![h] = [ips |-> @.ips \cup {ip}, left |-> MdnsTtl]]

\* Mutant of Lookup: the expiry is not looked at.
LookupAny(h) == reg[h].ips

Lookup(h) == IF reg[h].left > 0 THEN reg[h].ips ELSE {}

\* reverse: any fresh host that has the address.
Reverse(ip) == {h \in Hosts : reg[h].left > 0 /\ ip \in reg[h].ips}

\* mdns_answer, for a name under the zone that is configured and for a PTR
\* question.
Answers(h) == IF enabled THEN Lookup(h) ELSE {}
Pointers(ip) == IF enabled THEN Reverse(ip) ELSE {}

Cleared == [h \in Hosts |-> [ips |-> {}, left |-> 0]]

-----------------------------------------------------------------------------
(* What the listener makes of a message. *)

HostsFromMessage(m) ==
  {<<r.name, r.data>> : r \in {a \in m.records : a.type \in {"A", "AAAA"} /\ a.name \in Hosts}}

\* What each record, and each question of another client, makes it want to
\* ask.
Wanted(m) ==
  (UNION {CASE r.type = "PTR" /\ r.name = Meta -> {<<r.data, "PTR">>}
            [] r.type = "PTR" /\ r.name # Meta -> {<<r.data, "SRV">>}
            [] r.type = "SRV" -> {<<r.data, "A">>, <<r.data, "AAAA">>}
            [] OTHER -> {} : r \in m.records})
  \cup {q \in Hosts \X {"A", "AAAA"} :
          \E a \in m.asks : a[1] = q[1] /\ a[2] \in {"A", "AAAA"}}

\* Mutant of FollowUps: the set of questions asked grows without a bound.
FollowUpsUncapped(m) == {Wanted(m) \ queried}

\* follow_up_questions: what has not been asked in this cycle, as far as there
\* is room; the records come in any order, A goes before AAAA.
FollowUps(m) ==
  LET room == QueriedCap - Cardinality(queried)
      new  == Wanted(m) \ queried
  IN  {S \in SUBSET new :
         /\ Cardinality(S) <= room
         /\ Cardinality(S) = room \/ S = new
         /\ \A q \in S : q[2] = "AAAA" => <<q[1], "A">> \in S \cup queried}

\* The policy in force, read once for a message.
Publishable(ip) == publish \/ ip \in LanAddrs

\* learn_and_plan up to the first insertion; the listener was waiting in
\* select!.
Receive(m) ==
  /\ listener = "select"
  /\ listener' = "learn"
  /\ pend' = {p \in HostsFromMessage(m) : Publishable(p[2])}
  /\ \E S \in FollowUps(m) : follow' = S /\ queried' = queried \cup S

Insert(p) ==
  /\ listener = "learn" /\ p \in pend
  /\ reg' = Inserted(reg, p[1], p[2])
  /\ pend' = pend \ {p}
  /\ UNCHANGED <<enabled, publish, link, sup, lastPublic, listener, follow, queried, wire,
                 late, raced>>

\* An aborted listener comes to the end of its message.
LateInsert(p) ==
  /\ p \in late
  /\ reg' = Inserted(reg, p[1], p[2])
  /\ late' = late \ {p}
  /\ UNCHANGED <<enabled, publish, link, sup, lastPublic, listener, pend, follow, queried,
                 wire, raced>>

\* The records q is answered with when the hosts have the addresses l; nobody
\* answers a question that has none.
OnLink(l, q) ==
  LET family == CASE q[2] = "A" -> V4 [] q[2] = "AAAA" -> V6 [] OTHER -> {}
  IN  Graph[q] \cup {[name |-> q[1], type |-> q[2], data |-> ip] :
                       ip \in IF q[1] \in Hosts THEN l[q[1]] \cap family ELSE {}}

Records(q) == OnLink(link, q)

\* The follow-up questions are sent and the listener waits again.
Ask ==
  /\ listener = "learn" /\ pend = {}
  /\ wire' = wire \cup {q \in follow : Records(q) # {}}
  /\ listener' = "select" /\ follow' = {}
  /\ UNCHANGED <<enabled, publish, link, reg, sup, lastPublic, pend, queried, late, raced>>

\* Mutant of NewCycle: what was asked once is never asked again.
NewCycleKeeps ==
  /\ listener = "select"
  /\ wire' = wire \cup {<<Meta, "PTR">>}
  /\ UNCHANGED <<enabled, publish, link, reg, sup, lastPublic, listener, pend, follow, queried,
                 late, raced>>

\* The 30 s tick of run.
NewCycle ==
  /\ listener = "select"
  /\ queried' = {}
  /\ wire' = wire \cup {<<Meta, "PTR">>}
  /\ UNCHANGED <<enabled, publish, link, reg, sup, lastPublic, listener, pend, follow, late, raced>>

\* The start of run: both sockets are bound and the first question is sent ...
Bind ==
  /\ listener = "bind"
  /\ listener' = "select" /\ wire' = {<<Meta, "PTR">>} /\ queried' = {}
  /\ UNCHANGED <<enabled, publish, link, reg, sup, lastPublic, pend, follow, late, raced>>

\* ... or one cannot be bound and the task returns.
BindFails ==
  /\ listener = "bind"
  /\ listener' = "none"
  /\ UNCHANGED <<enabled, publish, link, reg, sup, lastPublic, pend, follow, queried, wire, late, raced>>

-----------------------------------------------------------------------------
(* The link. *)

Unheard == UNCHANGED <<enabled, publish, link, reg, sup, lastPublic, late, raced>>

\* A question is answered by unicast.
Respond(q) ==
  /\ q \in wire
  /\ wire' = wire \ {q}
  /\ Receive([records |-> Records(q), asks |-> {}])
  /\ Unheard

\* The question or its answer is lost.
Lose(q) ==
  /\ q \in wire
  /\ wire' = wire \ {q}
  /\ UNCHANGED <<listener, pend, follow, queried>>
  /\ Unheard

\* A host announces its addresses, or another client asks a question.
Overhear ==
  /\ \/ \E h \in Hosts :
          /\ link[h] # {}
          /\ Receive([asks |-> {}, records |->
               {[name |-> h, type |-> IF ip \in V4 THEN "A" ELSE "AAAA", data |-> ip] :
                  ip \in link[h]}])
     \/ \E q \in Chatter : Receive([records |-> {}, asks |-> {q}])
  /\ wire' = wire
  /\ Unheard

\* Hosts come, go and change their addresses.
Move(l) ==
  /\ link' = l
  /\ UNCHANGED <<enabled, publish, reg, sup, lastPublic, listenerVars, raced>>

\* Time passes.
TimePasses ==
  /\ \E h \in Hosts : reg[h].left > 0
  /\ reg' = [h \in Hosts |->
       [ips |-> reg[h].ips, left |-> IF reg[h].left > 0 THEN reg[h].left - 1 ELSE 0]]
  /\ UNCHANGED <<enabled, publish, link, sup, lastPublic, listenerVars, raced>>

-----------------------------------------------------------------------------
(* The supervisor and the settings. *)

Public(S) == {p \in S : p[2] \notin LanAddrs}

\* What raced becomes when the registry is cleared and the supervisor takes
\* the policy to be p.
RacedAfter(p, onTheWay) == ~p /\ (publish \/ Public(onTheWay) # {})

\* A tick: start or stop the listener.
Supervise ==
  /\ sup = "tick" /\ sup' = "policy"
  /\ CASE listener = "none" /\ enabled ->
            listener' = "bind" /\ UNCHANGED <<reg, pend, follow, queried, wire, late, raced>>
       [] listener # "none" /\ ~enabled ->
            /\ listener' = "none"
            /\ late' = late \cup pend
            /\ pend' = {} /\ follow' = {} /\ queried' = {} /\ wire' = {}
            /\ reg' = Cleared
            /\ raced' = RacedAfter(lastPublic, late')
       [] OTHER -> UNCHANGED <<reg, listenerVars, raced>>
  /\ UNCHANGED <<enabled, publish, link, lastPublic>>

\* Mutant of CheckPolicy: the change is noted and the registry kept.
CheckPolicyKeeps ==
  /\ sup = "policy" /\ sup' = "tick"
  /\ lastPublic' = publish
  /\ raced' = IF publish = lastPublic THEN raced ELSE RacedAfter(publish, pend \cup late)
  /\ UNCHANGED <<enabled, publish, link, reg, listenerVars>>

\* The rest of the tick: forget everything if the policy is another than the
\* last time.
CheckPolicy ==
  /\ sup = "policy" /\ sup' = "tick"
  /\ lastPublic' = publish
  /\ reg' = IF publish = lastPublic THEN reg ELSE Cleared
  /\ raced' = IF publish = lastPublic THEN raced ELSE RacedAfter(publish, pend \cup late)
  /\ UNCHANGED <<enabled, publish, link, listenerVars>>

SetEnabled(b) ==
  /\ enabled' = b
  /\ UNCHANGED <<publish, link, reg, sup, lastPublic, listenerVars, raced>>

SetPublish(b) ==
  /\ publish' = b
  /\ raced' = (raced \/ (b /\ ~lastPublic))
  /\ UNCHANGED <<enabled, link, reg, sup, lastPublic, listenerVars>>

Listen ==
  \/ \E p \in pend : Insert(p)
  \/ Ask

MdnsNext ==
  \/ Listen \/ NewCycle \/ Bind \/ BindFails
  \/ \E p \in late : LateInsert(p)
  \/ \E q \in wire : Respond(q) \/ Lose(q)
  \/ Overhear \/ TimePasses
  \/ \E l \in LinkStates \ {link} : Move(l)
  \/ Supervise \/ CheckPolicy
  \/ SetEnabled(~enabled) \/ SetPublish(~publish)

\* The questions that may be answered.
Answerable == {q \in Questions : \E l \in LinkStates : OnLink(l, q) # {}}

(***************************************************************************)
(* Tasks run and time passes.  select! picks any branch that is ready, so  *)
(* a busy link does not starve the tick for ever; the link loses messages, *)
(* and a socket is in use, but not every time.                             *)
(***************************************************************************)
MdnsFairness ==
  /\ WF_mdnsVars(Listen) /\ WF_mdnsVars(Supervise) /\ WF_mdnsVars(CheckPolicy)
  /\ WF_mdnsVars(TimePasses)
  /\ WF_mdnsVars(\E p \in late : LateInsert(p))
  /\ SF_mdnsVars(Bind \/ NewCycle)
  /\ \A q \in Answerable : SF_mdnsVars(Respond(q))

MdnsSpec == MdnsInit /\ [][MdnsNext]_mdnsVars /\ MdnsFairness

-----------------------------------------------------------------------------
(* Properties. *)

\* Types; the set of questions already asked stays within QUERIED_CAP.
RegistryInv ==
  /\ enabled \in BOOLEAN /\ publish \in BOOLEAN /\ lastPublic \in BOOLEAN
  /\ link \in LinkStates
  /\ reg \in [Hosts -> [ips : SUBSET Addrs, left : 0 .. MdnsTtl]]
  /\ sup \in {"tick", "policy"} /\ listener \in {"none", "bind", "select", "learn"}
  /\ (pend \cup late) \subseteq Hosts \X Addrs
  /\ (follow \cup wire) \subseteq Questions
  /\ queried \subseteq Questions /\ Cardinality(queried) <= QueriedCap

\* Under the LAN-only policy, as the supervisor knows it, the registry holds
\* no public address, unless the policy was switched to public and back
\* behind its back, or a message read under the public policy was still being
\* worked on when it cleared the registry.
LanOnly ==
  ~lastPublic /\ ~raced => \A h \in Hosts : reg[h].ips \subseteq LanAddrs

\* An address that stays on the link, and may be published, is found again
\* and again, by name and by address, while mDNS is enabled, whatever is lost
\* on the way: run forgets in every cycle what it has asked, and supervise
\* starts it anew when its sockets could not be bound.
Discovered ==
  \A h \in Hosts : \A ip \in Addrs :
    <>[](enabled /\ ip \in link[h] /\ (publish \/ ip \in LanAddrs))
      => []<>(ip \in Answers(h) /\ h \in Pointers(ip))

\* A host that is no longer heard of, because it has left or because mDNS is
\* disabled, is forgotten for good, although an aborted listener may still
\* insert it after the supervisor has cleared the registry.
Forgotten ==
  \A h \in Hosts : (<>[]~enabled \/ <>[](link[h] = {})) => <>[](Lookup(h) = {})

=============================================================================
