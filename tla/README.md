# Nomina in TLA+

A verification development of Nomina, the split-horizon DNS and DHCP server in
this repository (`src/`): TLA+ models of its components, TLC configurations
that check them on small instances, and TLAPS proofs of what matters most for
instances of any size. `PROJECT.json` lists the components, the runs, the
properties with a mutation of the code model that each of them detects, the
source lines behind every definition, the hazards the properties are aimed at
and the theorems.

## The system and its models

One process serves DNS and DHCP, a web API for the administrator, and some
periodic tasks. All of them share a SQLite database behind one lock and a set
of in-memory copies in `AppState`: the zone store, the filter, the conditional
forwarders, the upstream, the answer cache, the settings, the mDNS registry and
the statistics. A handler reads and writes the database in single calls and
swaps a copy in a single assignment; between two of these anything else can
happen. That is the grain of every model here: one database call, one swap of a
copy, one message in or out is a step, and a variable `pc` (`stage` in
`Filtering`, `listener` and `sup` in `Mdns`) holds the place of a task between its
steps. An action that abstracts several statements covers only
what runs under one lock.

| Module | Models | Code |
| --- | --- | --- |
| `DhcpLease` | lease rows, which addresses are off-limits, the allocation policy, the upsert | `dhcp/lease.rs`, `db.rs`, `migrations/0003_dhcp` |
| `DhcpAllocate` | the probing loop of `allocate`, one probe a step | `dhcp/lease.rs` |
| `DhcpServer` | serving loops, every message type of both families, sweeper, administrator | `dhcp/server.rs`, `v4.rs`, `v6.rs`, `web/api.rs` |
| `DhcpServerInv` | the inductive invariant, the mapping to the address book | |
| `AddressBook` | what a DHCP server promises, abstractly | |
| `SecondaryZones` | poll loop, transfers, requests on zones, a primary (external) | `dns/secondary.rs`, `web/api.rs`, `db.rs` |
| `ZoneStore` | the store built from the tables, lookups in it, contents of a transfer | `store.rs`, `dns/axfr.rs` |
| `Zones` | edits of views, zones and records, DynDNS, and queries between them | `web/api.rs`, `web/dyndns.rs`, `db.rs`, `dns/resolve.rs` |
| `LiveConfig` | database against live copies, every reloading handler in its steps | `state.rs`, `web/api.rs`, `web/dyndns.rs`, `dhcp/server.rs` |
| `DnsCache` | the answer cache: lookup, insertion, bounds, persistence | `dns/cache.rs` |
| `Resolver` | the way of a query through the pipeline | `dns/resolve.rs`, `filter.rs`, `dns/upstream.rs`, `dns/conditional.rs` |
| `Filtering` | blocklists, downloads, rules, rewrites, the filter built from them | `filter.rs`, `web/api.rs`, `web/fetch.rs`, `main.rs` |
| `Auth` | setup, login and its throttle, sessions, password change | `web/auth.rs`, `web/api.rs`, `state.rs`, `db.rs` |
| `Mdns` | registry, listener, supervisor, a link that loses messages | `dns/mdns.rs`, `dns/resolve.rs` |
| `QueryLog` | counts per second, top names, recent queries, queue, batch writer, pruning | `stats.rs`, `state.rs`, `db.rs`, `main.rs` |

`MC*` modules and `.cfg` files are the instances; `*Proofs` modules hold the
theorems. Operators written "Mutant of ..." just before a definition are
plausible mistakes in it that some property must detect; no specification uses
them.

Conventions used throughout: an optional value is a set of at most one element,
as are a row looked up by id and a local variable that is only there for part
of a handler; a request picks its inputs from small sets; a failing database
call or download is an action of its own; history variables (`bound`,
`overridden`, `touched`, `raced`, `held`, `current`, `last`, ...) record what a
property needs and no guard of the code reads.

### How the parts interact

`LiveConfig` ties the parts together: it has every handler that edits a table
and then rebuilds a copy, with the tables and copies reduced to versions. What
a version of the zone tables means is in `Zones`, one of the filter tables in
`Filtering`; there a write and its reload are as close as `LiveConfig` shows
them to be (`Zones` reloads with the edit, `Filtering` in steps of its own).
`Resolver` is the reader of all copies at once: every copy may be replaced
between any two steps of a query. `DhcpServer` writes leases; the DNS record it
registers for a lease is one of `LiveConfig`'s requests. `SecondaryZones` and
the DynDNS endpoint change the zone tables from outside the administrator's hands.

## What the runs show

| Run | Configuration | Outcome |
| --- | --- | --- |
| `dhcp_server` | `MCDhcpServer`, `DhcpServer.cfg` | passes, 827 k states |
| `dhcp_two_sockets` | `MCDhcpServer`, `DhcpTwoSockets.cfg` | violates `NoDoubleBinding` |
| `dhcp_allocate` | `MCDhcpAllocate`, `DhcpAllocate.cfg` | passes |
| `secondary` | `MCSecondaryZones`, `Secondary.cfg` | passes, 252 k states |
| `live_config` | `MCLiveConfig`, `LiveConfig.cfg` | passes, 460 k states |
| `live_race` | `MCLiveConfig`, `LiveConfigRace.cfg` | violates `ServesStored` |
| `resolver` | `MCResolver`, `Resolver.cfg` | passes, 970 k states |
| `zones` | `MCZones`, `Zones.cfg` | passes, 607 k states |
| `auth` | `MCAuth`, `Auth.cfg` | passes, 96 k states |
| `filtering` | `MCFiltering`, `Filtering.cfg` | passes, 239 k states |
| `mdns` | `MCMdns`, `Mdns.cfg` | passes, 77 k states |
| `query_log` | `MCQueryLog`, `QueryLog.cfg` | passes, 437 k states |

**DHCP.** One loop serves two clients that compete for the one address of a
scope, beside the sweeper, failing calls, restarts and an administrator who
edits scopes, reservations and leases between any two calls of the loop. No two
clients hold running leases of an address (`NoDoubleBinding`), what a client
was told is on record for as long as it was told (`BindingRecorded`, the last
conjunct of the inductive `IndInv` that the run checks), and only
its client or an administrator takes a row away from its holder
(`HolderKeepsRow`). `KeepsBook` says all of it at once: under the mapping
`Holders` the server implements `AddressBook`. A DISCOVER, SOLICIT, RELEASE or
DECLINE arrives in time, from a client that has given its address up
(`InTime`), or it was delayed or doubled and its client uses an address it got
since (`Late`); the handlers cannot tell the two apart. `overridden` marks the
addresses whose assignment an administrator overruled, by a reservation or a
deletion, or a late message did: the code promises nothing there, and the
properties say nothing of such an address from then on, for good.
One address is the case in which every message is in conflict with every other;
larger pools are the business of `dhcp_allocate` and of the proofs. The
instance speaks IPv4; the IPv6 messages go through the same actions, and the
theorems cover both families. Time is
bounded by `MaxTime`, enough for a lease to be given, expire and be given again.

With two sockets, each with a loop of its own (`server.rs:185`), two loops read
the leases (`server.rs:281`) before either writes (`server.rs:326`) and both
acknowledge the same address: the violation run, and a finding.

`dhcp_allocate` runs the probing loop on every table of leases and reservations
over three IPv4 and three IPv6 addresses, with pools that are full, empty,
reversed and wider than the addresses, and a scan limit that binds for IPv6. It
returns what `Allocate` describes (`ScanFindsAllocation`), and it
returns (`AllocateReturns`).

**Secondary zones.** One zone, the poll loop, one request at a time of any kind,
each call failing now and then, one restart, a primary that moves on once. As
long as only transfers touch the zone, its serial tells its contents, in the
tables and in the store (`SerialNamesData`, with the inductive
`SecondaryInv`), and it keeps catching up with the primary (`Converges`).
Whatever the administrator edits by hand, the serial keeps coming back to that
of the primary (`SerialConverges`); the contents need not, because the poll
loop compares nothing but serials. `touched` is the history variable that tells
the two situations apart.

**Live configuration.** One request at a time beside the periodic refresh, any
step failing, restarts, also restarts that find the database unreadable or the
upstream impossible to build (`BadStarts`; `main.rs:230`): what is served is what
is stored (`ServesStored`) except for the copies whose last load failed or was
left out, which `behind` names until the next load of them. These copies are
exempt, so the property does not show that they recover; the store and the
forwarders recover with the next request that reloads them, and the filter with
the periodic refresh, if that is switched on and stays so (`FilterHeals`). The
period is 0 by default (`models.rs:433`) and `main.rs:324` then refreshes nothing:
the model has both cases, and with 0 nothing heals. Updates of the settings
change the blocking flag, or the period and the resolver settings together
(`McUpdates`). With two requests at a time `live_race` finds two reloads that
swap in the opposite order of their reads, after which the store stays behind
the tables until the next change: a finding.

**Zones.** A zone, a zone inside it, two views (one chosen by network or by
location), a wildcard, a CNAME loop and a CNAME out of the zone; every sequence
of edits that keeps at most four records, and every query about the result.
`SplitHorizon`: a client sees records of its own view or of all views, from the
covering zone, the general ones only where its view has none. `AnswerChain`:
the answer is one chain of CNAMEs from the name asked, and short. `TransferFaithful`:
a secondary filled by a transfer answers like its primary. `DynDnsServed`: what
an update was told is what clients are then told, as long as nothing is disabled.
The two sides choose the zone by different code, and by different definitions
here: `DynZone` takes the zone name that is the longest string (`Chars`) among
those the host name ends with, `ZoneFor` the one with the most labels. `SerialFollows`: nothing a
zone serves changes under the same serial, save by the deletion of a view.

**Resolver and cache.** Two queries on their way, in one of three worlds. In the
first every copy is replaced between any two steps of a query while the clock
stands still; in the second the configuration is fixed, time passes, upstreams
are slow, and a cache of at most one entry is replaced, cleared, saved at
shutdown and reloaded; in the third the cache is replaced by one whose TTL bounds
contradict each other. `ConfigFirst`: a name that was local or blocked from the
moment it was asked for never reaches cache or upstream. `CacheInv`: one entry
a key, never more than the bound, none outliving its TTL. The clock runs on while
the server is down, and the file says how many seconds an entry has left, not
since when (`cache.rs:154`, `cache.rs:195`): `shelved` is the time an entry has
spent in files. `FreshAnswers`: no hit is older than its TTL and that time,
whether the file was loaded once or, after a crash, again. `DiesOnlyOfSettings`: a query panics in `put` only when
`cache_min_ttl` exceeds `cache_max_ttl`. Splitting the worlds loses only
combinations in which an entry ages across a change of zones or filter; the
cache does not read those copies.

**Filtering.** Two lists that share a domain, a wildcard, an allow rule, a
rewrite; overlapping refreshes, edits during a download, failures, restarts.
A list holds one whole version of its own URL, unless its id was reused during
a download (`EntriesOwn`), and once edits, failures and publications stop, and
the periodic refresh is switched on and stays so (`refreshing`), the live filter
decides every name as meant (`FilterConverges`). With the refresh switched off,
as it is by default, it need not.

**Accounts.** Two requests at a time, two passwords, two sessions, a threshold
of two. One account whatever setups race (`OneAdmin`); concurrent logins
overshoot the threshold by fewer than there are requests (`ThrottleBound`); a
session is opened only on a password that was right at some moment of the login
(`LoginLinear`); only its own expiry or its own request ends a session
(`SessionKept`); lockouts end (`LockEnds`); expired sessions leave the table
(`SessionsPruned`).

**mDNS.** One service on one host with a private and a public address, which
comes and goes, on a link that loses questions and answers; a second client's
questions are overheard; sockets cannot be bound at times; both settings change
at any moment; an aborted listener inserts what it was working on after the
registry was cleared. The answer about all services carries the instance and its
host along, and the address takes a follow-up question. There is one more question to ask than `QueriedCap`
admits, so the cap binds, but it does not hold this host back: that a crowded
link starves a name cycle after cycle is not exercised. An address that stays is found again and again, by
name and by address (`Discovered`); one that is gone, or all when mDNS is
disabled, is forgotten for good (`Forgotten`); under the LAN-only policy no
public address is in the registry, outside the two races `raced` names
(`LanOnly`).

**Statistics and query log.** Two concurrent queries, in one of three worlds:
seconds go by (a ring of three slots and a clock that laps it), two names
compete for one place in the tables, the log is written, cleared and restarted
with every call failing at times. In the second world the tables are also
cleared. The counts per second are exact for any
dashboard that is not slower than the spare slots allow (`SeriesExact`); a name
in the top table is counted exactly and one is missing only from a full table
(`TopExact`); nothing is logged twice or before a query that was finished when
it came in, buffers keep their bounds and row ids are consecutive (`LogLinear`);
on that rests pruning by id, which removes the oldest only (`KeepsNewest`); the queue drains (`Drained`). The three worlds share no state
but the tasks: the ring, the tables and the log are separate fields behind
separate locks.

## Fairness

Every fairness assumption but one is on something the runtime or the outside
world does by itself. The one is the periodic refresh of the blocklists, which
the administrator has to switch on: its action is enabled only while the period
is not 0, so fairness demands nothing of it otherwise, and `FilterHeals` and
`FilterConverges` have as a hypothesis that it stays on.

- A task that has begun goes on (weak fairness on its steps): the executor runs
  ready tasks, and no lock is held across an await. This holds for `Auth`,
  `Filtering`, `SecondaryZones`, `LiveConfig`'s refresh, `Mdns` and `QueryLog`.
- Periodic tasks come round and time passes (weak fairness on the poll, the
  refresh while it is switched on, the purge, the supervisor and the ticks).
- What may fail does not fail for ever (strong fairness): the poll loop's SOA
  query, transfer and write of the records in `SecondaryZones` (what comes after
  the write may always fail); the load of the filter
  in `LiveConfig`; binding and each answerable question in `Mdns`. Without it
  nothing converges, since a primary that is never reachable is never copied.
  `Filtering` needs none, because there failures are counted by `MaxEvents`.
- No request of an administrator or a client is assumed to come.

## What is proved

TLAPS proves these for every value of the constants that satisfies the named
assumptions; the run given checks them on its instance.

| Theorem | States | Run |
| --- | --- | --- |
| `DhcpServerProofs!Invariance` | `Spec => []IndInv` | `dhcp_server` |
| `DhcpServerProofs!BindingsRecorded` | `Spec => []BindingRecorded` | `dhcp_server` |
| `DhcpServerProofs!NoDoubleBindings` | `Spec => []NoDoubleBinding` | `dhcp_server` |
| `DhcpServerProofs!HoldersKeepRows` | `Spec => HolderKeepsRow` | `dhcp_server` |
| `DhcpServerProofs!ImplementsBook` | `Spec => KeepsBook` (refinement of `AddressBook`) | `dhcp_server` |
| `OneStepProofs!ScanCorrect` | the probing loop returns `Allocate` | `dhcp_allocate` |
| `OneStepProofs!LiveTyped` | `Spec => []TypeOK` of `LiveConfig` | `live_config` |
| `OneStepProofs!StoredServed` | `Spec => []ServesStored` | `live_config` |
| `ResolverProofs!ConfigIsFirst` | `Spec => []ConfigFirst` | `resolver` |
| `ResolverProofs!CacheSound` | `Spec => []CacheInv` | `resolver` |
| `ResolverProofs!AnswersFresh` | `Spec => []FreshAnswers` | `resolver` |
| `ResolverProofs!DiesOfSettings` | `Spec => []DiesOnlyOfSettings` | `resolver` |
| `ZonesProofs!HorizonSplit` | `Spec => []SplitHorizon` | `zones` |
| `ZonesProofs!AnswersChained` | `Spec => []AnswerChain` | `zones` |
| `ZonesProofs!SerialsFollow` | `Spec => SerialFollows` | `zones` |
| `ZonesProofs!UpdatesServed` | `Spec => []DynDnsServed` | `zones` |
| `ZonesProofs!TransfersFaithful` | `Spec => []TransferFaithful` | `zones` |
| `AuthMdnsProofs!OneAccount` | `Spec => []OneAdmin` | `auth` |
| `AuthMdnsProofs!ThrottleBounded` | `Spec => []ThrottleBound` | `auth` |
| `AuthMdnsProofs!LoginsLinear` | `Spec => []LoginLinear` | `auth` |
| `AuthMdnsProofs!SessionsKept` | `Spec => SessionKept` | `auth` |
| `OutsideDataProofs!SecondaryInvariant` | `Spec => []SecondaryInv` | `secondary` |
| `OutsideDataProofs!SerialsNameData` | `Spec => []SerialNamesData` | `secondary` |
| `OutsideDataProofs!EntriesOwned` | `FilterSpec => []EntriesOwn` | `filtering` |
| `AuthMdnsProofs!QuestionsBounded` | `MdnsSpec => []RegistryInv` | `mdns` |
| `AuthMdnsProofs!LanKept` | `MdnsSpec => []LanOnly` | `mdns` |
| `QueryLogProofs!SecondsExact` | `Spec => []SeriesExact` | `query_log` |
| `QueryLogProofs!NamesExact` | `Spec => []TopExact` | `query_log` |
| `QueryLogProofs!LogInOrder` | `Spec => []LogLinear` | `query_log` |
| `QueryLogProofs!NewestKept` | `Spec => KeepsNewest` | `query_log` |

`ResolverInvariance`, `ZonesInvariance`, `AuthInvariance` and `MdnsInvariance` of
the same modules state the inductive invariants the others rest on. Two proof
modules are about two components each: `OutsideDataProofs` about secondary zones
and blocklists, which are copies of data from elsewhere, and `AuthMdnsProofs`
about accounts and mDNS. The components share no state; that one module extends
both is why the variables and specifications of `Filtering` and `Mdns` have names
of their own (`stage`, `FilterSpec`, `MdnsSpec`).

**DHCP.** All five theorems assume `SingleLoop`: without it `NoDoubleBinding` is
false, as `dhcp_two_sockets` shows. `NoDoubleBinding` is not inductive. It
follows from `BindingRecorded` (two running leases of an address would be two
rows with one key), which holds after a reply because the row was written
before it (`ReplyOK`), which needs that the row written took nothing from
another holder (`PersistOK`), which needs that the leases the decision was made
on still describe the table (`SnapshotOK`). `SnapshotOK` survives because the
only other writers delete rows or mark the address `overridden`, and because one
loop finishes a message before it takes the next. `LeaseLengths` bounds what
clients hold by what the scope grants now, so that a renewal never shortens a
lease; `ReservedOverridden`, `HandlerOK` and `GiveBackOK` say the same kind of
thing of reservations, the message in hand, and RELEASE and DECLINE: while a
handler works for a client, that client has let go of its address, or the address
is `overridden` (`LetGo`). The
modules follow the argument: `DhcpHandlerProofs` has the facts about `Allocate`
(`AllocateSafe`) and the upsert (`UpsertFacts`) and the steps of a serving loop,
from the message to its writes and its answer; `DhcpServerProofs` has
the clock, the sweeper and the administrator, and the theorems. For the
refinement the reply of a granted
lease maps to `Give`, the passing of time and the giving up of an address to
`Lapse`, the administrator's edits to `Overrule`, and all else to stuttering.

**Allocation.** `FindInv` says which part of the pool has been probed and that
no earlier candidate was free; it is inductive as it stands.

**Live configuration.** `LiveInv` says which handler can be at which label and
what it holds there; it holds for any number of workers and gives `TypeOK`.
`ServesStored` says nothing while a handler is at work, so it is not inductive:
`Serving` says of every label which copies may still differ from the database
there and that what the handler has read is still current. The second half needs
`OneWorker`, one request at a time beside the periodic refresh; with two it is
false, as `live_race` shows. The refresh may run beside it because it touches
nothing but the filter.

**Resolver.** `ResolverInv` says of each query what it holds at which label: the
cache it looked up, live or replaced (`QueryOK`), the reply and when it came, and
that what was recorded of the name still holds (`HeldOK`). With it the steps of
`DnsCache` keep the map within its capacity with one entry a key (`MapInv`), and
no entry outlives its TTL counted from the answer, and the time it was shelved
(`AgeInv`), because the time given to `put` is never later than that of the answer.
The saved file is part of the invariant (`FileInv`), since a restart makes a cache
of it, at any later time. `DiesOfSettings`
assumes `MadeByNew`: the bounds of every cache come out of `DnsCache::new`.

**Zones.** `StoreInv` says that the store is the one built from the tables.
`LookupInv` gives the shape of a lookup in progress, without which neither
`SplitHorizon` nor `AnswerChain` is inductive: the last link of a chain that goes
on holds CNAMEs only. `DynInv` says that the record of the last DynDNS update is
in the zone the update chose; that the lookup chooses the same zone is
`ZonesAgree`: of two suffixes of a name the one with more labels is below the
other and so the longer string, and two suffixes with as many labels are the same
(`SuffixSame`). `SerialFollows` is shown edit
by edit from what each saves (`EditOK`). `TransferFaithful` is a fact about
`Build`, `RecordsAt`, `Resolve` and `Axfr`, which the invariant carries to every
reachable store.

**Auth.** `ThrottleBound` alone is not inductive: the throttle checks first and
counts later. `ThrottleInv` adds the attempts it let through and has not judged
(`Judging`) to the count. `AccountInv` adds to `OneAdmin` that no request is about
to open a session before there is an account, `SeenInv` to `LoginLinear` what a
login has seen at each of its steps, and `RequestInv` what a request carries.

**Secondary zones.** `SecondaryInv` adds to `SerialNamesData` what the tasks have
in hand: the serials they fetched, the copies they loaded and the list the poll
loop is working through all come from the primary. It assumes
`StartsReplicated`: the zones found at the start came from the primary.

**Blocklists.** `EntriesOwn` speaks of the lists; `FilteringInv` adds what the
callers have in hand. Until the id it read is `crossed` (has passed to another
list), a caller's job names the URL of the list as it is (`JobsOwn`), and what it
has fetched is a whole version of that URL (`WorkOK`), so what it stores is the
list's own. No request changes the URL of a list, so only a deletion followed by a
creation on the same id can come between.

**mDNS.** `LanOnly` is not inductive: a listener has addresses in hand that it read
under another policy, also one that was aborted. `PolicyKept` says of those, too,
that they are no public ones while the supervisor knows the LAN-only policy, and
that the setting has not moved on to public, unless `raced`.

**Statistics and query log.** `RingInv` says that a slot of the ring holds the count
of the one second of the last `Window` that maps to it, and that after the last
bump there was no query. It is kept because the slots of `Window` seconds in a row
are all different (`Apart`) and all there are (`Covers`), the two facts about
remainders on which zeroing the seconds gone by rests. `TopInv` adds to
`TopExact` that no table exceeds its cap. For the log, `TasksInv` says that a query being recorded
is none of the finished ones, so it may come after everything that is queued or
stored; `WaitingInv` takes the batch and the channel as one sequence, of which
`Recv` only moves the border, and `RowsInv` has the ids as an interval that
inserting extends and pruning shortens. `NewestKept` rests on that interval: to
count ids is to count rows.

Assumptions on constants are in the modules that declare them (`AddrAssumption`,
`RankAssumption`, `IdAssumption`, `ScanAssumption` in `DhcpLease`;
`LoopAssumption`, `InputAssumption`, `TimeAssumption` in `DhcpServer`;
`ArgsAssumption` in `DhcpAllocate`; `SecondaryAssumption` in `SecondaryZones`;
`ConfigAssumption` in `LiveConfig`; `ResolverAssumption` in `Resolver`;
`RowAssumption`, `NameAssumption` in `ZoneStore`; `AuthAssumption` in `Auth`; `FilteringAssumption`
in `Filtering`; `MdnsAssumption` in `Mdns`; `QueryLogAssumption` in
`QueryLog`): addresses, ids and ranks are numbers, the addresses of a family are contiguous and apart from the
other's, the scan limit is positive, names of zones are sequences of labels, the name of a
zone inside another is the longer string,
requests served at a time are finitely many, and so are the names that hosts
announce and clients ask for, whose number a cap is compared with; inputs are of
their types. Each
inductive invariant was checked with TLC on the instance of its run before it
was proved.

## What is only model-checked

Liveness (`AllocateReturns`, `FilterHeals`, `LockEnds`, `SessionsPruned` and the
others stated with `~>` or `<>`) and everything that needs `ENABLED` is beyond the
prover. So is induction over data; no theorem here needs it, since a lookup that
follows CNAMEs and the probing of a pool are step by step in the models. Every
safety invariant and action property that a passing run checks has a theorem,
for `DhcpServer`, `LiveConfig` and `SecondaryZones` under the conditions named above;
what the runs alone show is liveness, and for one instance each.

## Abstractions and bounds

- A closure given to the database runs under its lock and is one step. Closures
  of several statements outside a transaction are not split on a crash.
- *DHCP*: leases last one or two units of time and `MaxTime` is three; options and
  hostnames are left out.
- *Secondary zones*: `due` stands for `last_check` and `refresh_secs`; serials do
  not wrap; the primary starts at `FirstSerial = 2`, so that the serial 1 of a
  shell is not by chance its own.
- *Live configuration*: two values for a table or a setting, of which 0 stands for
  an empty table and for a period of 0.
- *Resolver*: the clock is that of the world and runs on while the server is down,
  to 3 in the world where it runs, with TTLs of 1 and 2.
- *Zones*: a serial is only "bumped"; names are canonical; identical rows are one;
  no zone is named after a wildcard (hickory does not count the `*` as a label);
  `update_view` is left to `LiveConfig`; an update names one host and one
  address; tokens are given.
- *Filtering*: `MaxEvents` bounds requests, publications, failures and restarts
  together; the lists of a refresh are taken in any order; the flag that switches
  blocking is `LiveConfig`'s; of the period only whether it is 0 matters;
  `last_error` is left out.
- *Auth*: one user name, so one throttle key; a wrong CSRF token is a refusal that
  changes nothing; a token is reused only when nobody holds it; a tick is far
  longer than a second, so that texts that differ in fractions of a second are
  compared as if they did not.
- *mDNS*: `MdnsTtl = 1`; one name for the zone; all of it is memory, so a restart is
  the initial state; the dashboard's snapshot is read-only.
- *Query log*: growing counters, latencies and the tables behind the map are left
  out, as is the masking of addresses.
- `SYMMETRY` is used over clients (`dhcp_server`) and queries (`resolver`), which
  no definition tells apart, and only in runs without liveness properties.
- `CHECK_DEADLOCK FALSE` is used in `dhcp_allocate`, whose loop ends, and in
  `filtering`, where a server with the refresh switched off waits for requests.

## Findings and observations

Two runs end in a violation of what the repository says of itself:

- `dhcp_two_sockets`: `lease.rs:63` puts every lease of another client off-limits;
  two serving loops can acknowledge one address to two clients.
- `live_race`: `store.rs:4` says the store is rebuilt and swapped after any change;
  of two concurrent reloads (`state.rs:238`) the older may be swapped in last.

Behaviours met while modelling that the models keep, and that the exceptions in
the properties stem from. They are what the code does, not defects claimed:

- *DHCP.* A declined address is allocated again (`lease.rs:130`, against
  `models.rs:533`). RELEASE deletes by an id read earlier (`dhcp/server.rs:435`).
  A DISCOVER that comes late makes a running lease an offer with a short hold
  (`dhcp/server.rs:300`), and a reservation wins over the holder of its address
  (`lease.rs:63`): in both cases another client can be given the address.
- *Settings.* `put_settings` stores the whole row it read, so of two concurrent
  updates one is lost (`api.rs:1368`); so is one of two password changes.
- *Secondary zones.* A transfer that fails between its write and the reload leaves
  the store behind (`secondary.rs:83`). A shell has serial 1 and is not fetched from
  a primary at serial 1 (`secondary.rs:131`). `update_record` and `delete_record`
  change a secondary's records (`api.rs:1248`, against `docs/api-contract.md:428`),
  and nothing restores them until the primary's serial changes. A zone id reused
  during a transfer receives the old zone's records (`db.rs:1850`).
- *Zones.* `delete_view` takes records along without a new serial (`db.rs:630`). A
  name that only has names below it is NXDOMAIN. The NSEC bitmap lists the types of
  all views (`store.rs:478`). A DynDNS update also writes into what is disabled, and
  answers 911 without a reload when a later write of it fails (`dyndns.rs:143`).
- *Cache.* `clamp` panics when `cache_min_ttl > cache_max_ttl` (`cache.rs:106`). A
  hit carries the original TTLs. The time a server is down does not count against a
  saved answer (`cache.rs:195`), and after a crash the file of the last orderly
  shutdown is loaded again (`main.rs:410`).
- *Resolution.* A name that moves from one copy to another while it is being
  resolved, from the zones to the filter say, can be missed by both
  (`resolve.rs:380`); `ConfigFirst` is about names that stay.
- *Filter.* Deny rules are off while blocking is disabled (`filter.rs:133`, against
  `docs/api-contract.md:287`). A `*.` entry of a list matches no name exactly
  (`filter.rs:134`). A part of the filter whose table cannot be read is built empty
  (`filter.rs:72`), and with the period of the refresh at 0 it stays so until a
  request reloads it. A list id reused during a download receives the old list.
- *Accounts.* Sessions survive a change of the password.
- *mDNS.* The policy switched to public and back between two ticks of the supervisor
  goes unnoticed (`mdns.rs:344`), and a message read before the registry was cleared
  is inserted after (`mdns.rs:323`). Expired addresses stay in their entry, and the
  next insertion for the host revives them (`mdns.rs:34`).
- *Query log.* The queue is not flushed at shutdown; entries still queued reappear
  after a clear; a prune that fails leaves more than `MAX_ROWS` rows until the next.

## Not modelled

- *DNS transports and the request handler*: socket I/O and message layout around
  `resolve_query`. The allow-list and the TSIG check of a transfer keep no state.
- *DNSSEC signing, TSIG*: cryptography and canonical encoding of one answer; pure
  functions out of TLC's reach. Switching signing on is an edit in `LiveConfig`.
- *DHCP wire formats*: the codecs have no state; the models take what the handlers
  take from a message.
- *Web router, management allow-list, audit log*: a stateless filter and an
  append-only table nothing reads back.
- *TLS, privileges, start-up, migrations, configuration file*: run once, before
  anything concurrent exists.
- *Load balancing and the homograph check*: the order of the addresses in an
  answer, rotated by a counter, and a predicate on names.
- *The map of the dashboard*: its tables and the worker that resolves blocked
  domains for it feed nothing but a display.
- *The web interface*: keeps no state the server relies on.

What remains is stateless, encoding, display, or runs once before anything
concurrent exists.
