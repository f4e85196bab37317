----------------------------- MODULE LiveConfig -----------------------------
(***************************************************************************)
(* The copies of the configuration the query path works on (AppState in    *)
(* src/src/state.rs: zone store, filter, conditional forwarders, settings, *)
(* upstream, cache) against the database they are built from, under the    *)
(* handlers of src/src/web that edit the database and rebuild a copy, the  *)
(* DynDNS endpoint, the DNS registration of the DHCP server and the        *)
(* periodic refresh of the blocklists.                                     *)
(*                                                                         *)
(* Each database call and each assignment to a shared copy is a step of    *)
(* its own; pc says which comes next.  What a table or a field of the      *)
(* settings holds is one of Values.                                        *)
(***************************************************************************)
EXTENDS Integers

CONSTANTS
  Workers,       \* tasks that serve requests
  Requests,      \* what they are asked to do
  Values,        \* what a table or a settings field can hold; 0, nothing
  Updates,       \* the updates of the settings that are asked for
  FailAt,        \* the steps that can fail
  BadStarts      \* what cannot be built at a start: sets of copies

Parts == {"store", "filter", "conditional"}

\* The settings that matter here: blocking_enabled, blocklist_refresh_hours
\* (0, the default, is never), and those the upstream, the conditional
\* forwarders and the cache are built with.
Fields == {"blocking", "hours", "resolver"}
Settings == [Fields -> Values]

\* An update: new values for any of the fields.
SettingsUpdate == UNION {[F -> Values] : F \in SUBSET Fields}

\* An edit of zones, records, views, keys or imports; of rules, rewrites or
\* blocklists; of conditional forwarders; and the requests of several steps.
AllRequests == {"store", "filter", "conditional", "refresh", "settings",
                "dyndns", "register_dns"}

Empty == 0

Tasks == Workers \cup {"auto"}

Labels == {"idle", "second", "secondSame", "ptr", "fetch", "writeRow", "apply",
           "upstream", "loadStore", "swapStore", "blocking", "loadFilter",
           "swapFilter", "opts", "loadCond", "swapCond", "cache"}

ASSUME ConfigAssumption ==
  /\ Requests \subseteq AllRequests
  /\ "auto" \notin Workers
  /\ FailAt \subseteq Labels
  /\ Updates \subseteq SettingsUpdate
  /\ BadStarts \subseteq SUBSET (Parts \cup {"upstream"})
  /\ 0 \in Values

VARIABLES
  tables,       \* [Parts -> Values]: the tables each copy is built from
  row,          \* the settings row
  settings,     \* the live settings
  upstream,     \* optional: what the upstream resolver was built with
  store,        \* the zone tables the store was built from
  filter,       \* the tables, and the blocking flag, of the filter
  conditional,  \* the tables, and the settings, of the conditional forwarders
  cache,        \* the settings of the answer cache
  pc,           \* [Tasks -> Labels]
  req,          \* [Tasks -> request]
  myRow,        \* [Tasks -> optional: the settings put_settings works on]
  myOpt,        \* [Tasks -> optional: the live setting a reload has read]
  loaded,       \* [Tasks -> optional: the copy a reload has built]
  behind        \* parts but the filter whose reload failed or was left out

dbVars == <<tables, row>>
liveVars == <<settings, upstream, store, filter, conditional, cache>>
taskVars == <<pc, req, myRow, myOpt, loaded>>
vars == <<tables, row, settings, upstream, store, filter, conditional, cache,
          pc, req, myRow, myOpt, loaded, behind>>

\* A copy built from the tables of p and the optional setting O.
Copy(p, O) == [tables |-> tables[p], opt |-> O]

\* main builds every copy before anything is served.  Those in bad cannot be
\* built: the server starts without an upstream, and with an empty copy.
Loaded(bad) ==
  LET from(p, O) == IF p \in bad THEN [tables |-> Empty, opt |-> O] ELSE Copy(p, O)
  IN  /\ settings' = row
      /\ upstream' = IF "upstream" \in bad THEN {} ELSE {row["resolver"]}
      /\ store' = from("store", {}).tables
      /\ filter' = from("filter", {row["blocking"]})
      /\ conditional' = from("conditional", {row["resolver"]})
      /\ cache' = row["resolver"]
      /\ behind' = bad \ {"filter"}

Init ==
  \E v \in Values :
    /\ tables = [p \in Parts |-> v]
    /\ row = [f \in Fields |-> v]
    /\ settings = row
    /\ upstream = {v}
    /\ store = v
    /\ filter = [tables |-> v, opt |-> {v}]
    /\ conditional = filter
    /\ cache = v
    /\ pc = [t \in Tasks |-> "idle"]
    /\ req = [t \in Tasks |-> "none"]
    /\ myRow = [t \in Tasks |-> {}]
    /\ myOpt = [t \in Tasks |-> {}]
    /\ loaded = [t \in Tasks |-> {}]
    /\ behind = {}

\* Task t, busy with request r, goes on to label.
Goto(t, r, label) ==
  /\ pc' = [pc EXCEPT ![t] = label]
  /\ req' = [req EXCEPT ![t] = IF label = "idle" THEN "none" ELSE r]

-----------------------------------------------------------------------------
(* Requests that edit tables. *)

\* Where the reload of a part starts.
Reload(p) == CASE p = "store" -> "loadStore"
               [] p = "filter" -> "blocking"
               [] p = "conditional" -> "opts"

\* Mutant of Edit: the handler forgets to rebuild the copy.
EditOnly(t, p, v) ==
  /\ pc[t] = "idle" /\ t # "auto"
  /\ p \in Requests
  /\ tables' = [tables EXCEPT ![p] = v]
  /\ UNCHANGED <<row, liveVars, taskVars, behind>>

\* create_, update_ and delete_ handlers: one database call, then the reload.
Edit(t, p, v) ==
  /\ pc[t] = "idle" /\ t # "auto"
  /\ p \in Requests
  /\ tables' = [tables EXCEPT ![p] = v]
  /\ Goto(t, p, Reload(p))
  /\ UNCHANGED <<row, liveVars, myRow, myOpt, loaded, behind>>

ViewEdit(t, v) == Edit(t, "store", v)
ZoneEdit(t, v) == Edit(t, "store", v)
ZoneImport(t, v) == Edit(t, "store", v)
KeyEdit(t, v) == Edit(t, "store", v)
RecordEdit(t, v) == Edit(t, "store", v)
ListEdit(t, v) == Edit(t, "filter", v)
RuleEdit(t, v) == Edit(t, "filter", v)
RewriteEdit(t, v) == Edit(t, "filter", v)
ForwarderEdit(t, v) == Edit(t, "conditional", v)

\* nic_update with an IPv4 and an IPv6 address: the first is written, or was
\* there already.
DynDnsFirst(t, v) ==
  /\ pc[t] = "idle" /\ t # "auto"
  /\ "dyndns" \in Requests
  /\ tables' = [tables EXCEPT !["store"] = v]
  /\ Goto(t, "dyndns", IF v = tables["store"] THEN "secondSame" ELSE "second")
  /\ UNCHANGED <<row, liveVars, myRow, myOpt, loaded, behind>>

\* The second; the store is rebuilt if either changed.
DynDnsSecond(t, v) ==
  /\ pc[t] \in {"second", "secondSame"}
  /\ tables' = [tables EXCEPT !["store"] = v]
  /\ Goto(t, req[t], IF pc[t] = "secondSame" /\ v = tables["store"] THEN "idle"
                                                            ELSE "loadStore")
  /\ UNCHANGED <<row, liveVars, myRow, myOpt, loaded, behind>>

\* register_dns: the address record, whether it changed or not ...
RegisterDns(t, v) ==
  /\ pc[t] = "idle" /\ t # "auto"
  /\ "register_dns" \in Requests
  /\ tables' = [tables EXCEPT !["store"] = v]
  /\ Goto(t, "register_dns", "loadStore")
  /\ UNCHANGED <<row, liveVars, myRow, myOpt, loaded, behind>>

\* ... and, after the reload, the PTR record.
RegisterPtr(t, v) ==
  /\ pc[t] = "ptr"
  /\ tables' = [tables EXCEPT !["store"] = v]
  /\ behind' = IF v = tables["store"] THEN behind ELSE behind \cup {"store"}
  /\ Goto(t, req[t], "idle")
  /\ UNCHANGED <<row, liveVars, myRow, myOpt, loaded>>

\* refresh_blocklist and create_blocklist (a list without entries, then its
\* first download) by request, refresh_all_lists every blocklist_refresh_hours
\* of the live settings, if that is not 0.
Refresh(t) ==
  /\ pc[t] = "idle"
  /\ IF t = "auto" THEN settings["hours"] # 0 ELSE "refresh" \in Requests
  /\ Goto(t, "refresh", "fetch")
  /\ UNCHANGED <<dbVars, liveVars, myRow, myOpt, loaded, behind>>

\* Mutant of Fetched: no reload after the entries have been stored.
FetchedOnly(t, v) ==
  /\ pc[t] = "fetch"
  /\ tables' = [tables EXCEPT !["filter"] = v]
  /\ Goto(t, req[t], "idle")
  /\ UNCHANGED <<row, liveVars, myRow, myOpt, loaded, behind>>

\* refresh_one: the list as downloaded replaces the entries stored.  The
\* filter is reloaded whether it could be downloaded (v is new) or not.
Fetched(t, v) ==
  /\ pc[t] = "fetch"
  /\ tables' = [tables EXCEPT !["filter"] = v]
  /\ Goto(t, req[t], "blocking")
  /\ UNCHANGED <<row, liveVars, myRow, myOpt, loaded, behind>>

-----------------------------------------------------------------------------
(* put_settings and apply_settings. *)

\* The row with the fields of the request u changed.
Updated(u) == [f \in Fields |-> IF f \in DOMAIN u THEN u[f] ELSE row[f]]

\* The row is read and the fields of the request changed in the copy.
PutSettings(t, u) ==
  /\ pc[t] = "idle" /\ t # "auto"
  /\ "settings" \in Requests
  /\ myRow' = [myRow EXCEPT ![t] = {Updated(u)}]
  /\ Goto(t, "settings", "writeRow")
  /\ UNCHANGED <<dbVars, liveVars, myOpt, loaded, behind>>

WriteRow(t) ==
  /\ pc[t] = "writeRow"
  /\ row' \in myRow[t]
  /\ Goto(t, req[t], "apply")
  /\ UNCHANGED <<tables, liveVars, myRow, myOpt, loaded, behind>>

ApplySettings(t) ==
  /\ pc[t] = "apply"
  /\ settings' \in myRow[t]
  /\ Goto(t, req[t], "upstream")
  /\ UNCHANGED <<dbVars, upstream, store, filter, conditional, cache,
                 myRow, myOpt, loaded, behind>>

\* Upstream::build; an error leaves the server without an upstream.
BuildUpstream(t) ==
  /\ pc[t] = "upstream"
  /\ \/ upstream' = {r["resolver"] : r \in myRow[t]} /\ behind' = behind \ {"upstream"}
     \/ "upstream" \in FailAt /\ upstream' = {} /\ behind' = behind \cup {"upstream"}
  /\ Goto(t, req[t], "blocking")
  /\ UNCHANGED <<dbVars, settings, store, filter, conditional, cache,
                 myRow, myOpt, loaded>>

NewCache(t) ==
  /\ pc[t] = "cache"
  /\ cache' \in {r["resolver"] : r \in myRow[t]}
  /\ Goto(t, req[t], "idle")
  /\ myRow' = [myRow EXCEPT ![t] = {}]
  /\ UNCHANGED <<dbVars, settings, upstream, store, filter, conditional,
                 myOpt, loaded, behind>>

-----------------------------------------------------------------------------
(* reload_store, reload_filter and reload_conditional. *)

Load(t, label, p, next) ==
  /\ pc[t] = label
  /\ loaded' = [loaded EXCEPT ![t] = {Copy(p, myOpt[t])}]
  /\ myOpt' = [myOpt EXCEPT ![t] = {}]
  /\ behind' = behind \ {p}
  /\ Goto(t, req[t], next)
  /\ UNCHANGED <<dbVars, liveVars, myRow>>

\* A query that fails counts as an empty table: the copy is put in place all
\* the same.
LoadEmpty(t, label, p, next) ==
  /\ label \in FailAt
  /\ pc[t] = label
  /\ loaded' = [loaded EXCEPT ![t] = {[tables |-> Empty, opt |-> myOpt[t]]}]
  /\ myOpt' = [myOpt EXCEPT ![t] = {}]
  /\ behind' = behind \cup ({p} \ {"filter"})
  /\ Goto(t, req[t], next)
  /\ UNCHANGED <<dbVars, liveVars, myRow>>

LoadStore(t) == Load(t, "loadStore", "store", "swapStore")
LoadFilter(t) == Load(t, "loadFilter", "filter", "swapFilter")
LoadConditional(t) == Load(t, "loadCond", "conditional", "swapCond")

\* Mutant of ReadSetting: the copy is built without its setting.
ReadNothing(t, label, f, next) ==
  /\ pc[t] = label
  /\ Goto(t, req[t], next)
  /\ UNCHANGED <<dbVars, liveVars, myRow, myOpt, loaded, behind>>

\* The setting the copy depends on is read before the tables are.
ReadSetting(t, label, f, next) ==
  /\ pc[t] = label
  /\ myOpt' = [myOpt EXCEPT ![t] = {settings[f]}]
  /\ Goto(t, req[t], next)
  /\ UNCHANGED <<dbVars, liveVars, myRow, loaded, behind>>

ReadBlocking(t) == ReadSetting(t, "blocking", "blocking", "loadFilter")
ReadOpts(t) == ReadSetting(t, "opts", "resolver", "loadCond")

AfterStore(t) == IF req[t] = "register_dns" THEN "ptr" ELSE "idle"
AfterFilter(t) == IF req[t] = "settings" THEN "opts" ELSE "idle"
AfterConditional(t) == IF req[t] = "settings" THEN "cache" ELSE "idle"

Unload(t) == loaded' = [loaded EXCEPT ![t] = {}]

SwapStore(t) ==
  /\ pc[t] = "swapStore"
  /\ store' \in {c.tables : c \in loaded[t]}
  /\ Unload(t)
  /\ Goto(t, req[t], AfterStore(t))
  /\ UNCHANGED <<dbVars, settings, upstream, filter, conditional, cache, myRow, myOpt, behind>>

SwapFilter(t) ==
  /\ pc[t] = "swapFilter"
  /\ filter' \in loaded[t]
  /\ Unload(t)
  /\ Goto(t, req[t], AfterFilter(t))
  /\ UNCHANGED <<dbVars, settings, upstream, store, conditional, cache, myRow, myOpt, behind>>

SwapConditional(t) ==
  /\ pc[t] = "swapCond"
  /\ conditional' \in loaded[t]
  /\ Unload(t)
  /\ Goto(t, req[t], AfterConditional(t))
  /\ UNCHANGED <<dbVars, settings, upstream, store, filter, cache, myRow, myOpt, behind>>

-----------------------------------------------------------------------------
(* Failures and restarts. *)

\* A database call that writes fails: the handler returns the error, and
\* register_dns logs it.
Fail(t, label, lost) ==
  /\ label \in FailAt
  /\ pc[t] = label
  /\ Goto(t, req[t], "idle")
  /\ behind' = behind \cup lost
  /\ myRow' = [myRow EXCEPT ![t] = {}]
  /\ UNCHANGED <<dbVars, liveVars, myOpt, loaded>>

Failure(t) ==
  \/ Fail(t, "second", {"store"})
  \/ Fail(t, "secondSame", {})
  \/ Fail(t, "ptr", {})
  \/ Fail(t, "writeRow", {})
  \/ LoadEmpty(t, "loadStore", "store", "swapStore")
  \/ LoadEmpty(t, "loadFilter", "filter", "swapFilter")
  \/ LoadEmpty(t, "loadCond", "conditional", "swapCond")

Restart(bad) ==
  /\ pc' = [t \in Tasks |-> "idle"]
  /\ Loaded(bad)
  /\ req' = [t \in Tasks |-> "none"]
  /\ myRow' = [t \in Tasks |-> {}]
  /\ myOpt' = [t \in Tasks |-> {}]
  /\ loaded' = [t \in Tasks |-> {}]
  /\ UNCHANGED dbVars

Request(t) ==
  \/ \E u \in Updates : PutSettings(t, u)
  \/ \E v \in Values :
    \/ ViewEdit(t, v) \/ ZoneEdit(t, v) \/ ZoneImport(t, v) \/ KeyEdit(t, v)
    \/ RecordEdit(t, v) \/ ListEdit(t, v) \/ RuleEdit(t, v) \/ RewriteEdit(t, v)
    \/ ForwarderEdit(t, v)
    \/ DynDnsFirst(t, v) \/ RegisterDns(t, v)

Step(t) ==
  \/ WriteRow(t) \/ ApplySettings(t) \/ BuildUpstream(t) \/ NewCache(t)
  \/ ReadBlocking(t) \/ ReadOpts(t)
  \/ LoadStore(t) \/ LoadFilter(t) \/ LoadConditional(t)
  \/ SwapStore(t) \/ SwapFilter(t) \/ SwapConditional(t)
  \/ \E v \in Values : DynDnsSecond(t, v) \/ RegisterPtr(t, v) \/ Fetched(t, v)

Next ==
  \/ \E t \in Workers : Request(t)
  \/ \E t \in Tasks : Refresh(t) \/ Step(t) \/ Failure(t)
  \/ \E bad \in BadStarts : Restart(bad)

Spec == Init /\ [][Next]_vars

(***************************************************************************)
(* While it is switched on, the timer of the periodic refresh keeps        *)
(* firing; what has begun goes on; the database does not fail the refresh  *)
(* for ever.                                                               *)
(***************************************************************************)
FairSpec ==
  /\ Spec
  /\ WF_vars(Refresh("auto")) /\ WF_vars(Step("auto"))
  /\ SF_vars(LoadFilter("auto"))

-----------------------------------------------------------------------------
(* Properties. *)

\* Types.  The filter and the conditional forwarders are always built with
\* one value of their setting; the locals of a task are there exactly while
\* its handler needs them.
TypeOK ==
  /\ tables \in [Parts -> Values]
  /\ row \in Settings /\ settings \in Settings
  /\ upstream \subseteq Values
  /\ store \in Values /\ cache \in Values
  /\ {filter, conditional} \subseteq [tables : Values, opt : {{v} : v \in Values}]
  /\ pc \in [Tasks -> Labels]
  /\ req \in [Tasks -> AllRequests \cup {"none"}]
  /\ myRow \in [Tasks -> SUBSET Settings]
  /\ \A t \in Tasks :
       /\ myRow[t] # {} <=> req[t] = "settings"
       /\ loaded[t] # {} <=> pc[t] \in {"swapStore", "swapFilter", "swapCond"}
       /\ req[t] = "none" <=> pc[t] = "idle"
  /\ myOpt \in [Tasks -> SUBSET Values]
  /\ loaded \in [Tasks -> SUBSET [tables : Values, opt : SUBSET Values]]
  /\ behind \subseteq {"store", "conditional", "upstream"}

Quiet == \A t \in Workers : pc[t] = "idle"

FilterFresh == filter = Copy("filter", {row["blocking"]})

\* What is served is what is stored: between requests the live settings, the
\* store, the conditional forwarders, the upstream and the cache are those
\* of the database, unless a step of the last reload, or of the start, failed
\* or register_dns has added a PTR record since.  put_settings,
\* for one, rebuilds five copies from three different sources.
ServesStored ==
  Quiet =>
    /\ settings = row
    /\ cache = row["resolver"]
    /\ upstream = {row["resolver"]} \/ "upstream" \in behind
    /\ store = tables["store"] \/ "store" \in behind
    /\ conditional.tables = tables["conditional"] \/ "conditional" \in behind
    /\ conditional.opt = {row["resolver"]}

\* A filter left behind by a failed reload or by two reloads at once is
\* brought up to date by the periodic refresh of the blocklists, if that is
\* switched on and stays so, once the administrator rests and the server stays
\* up: reload_filter is called whether the lists changed or not.  Nothing of
\* the kind exists for the store, nor for the filter at the default setting.
FilterHeals ==
  /\ <>[](Quiet /\ settings["hours"] # 0)
  /\ <>[][\A bad \in BadStarts : ~Restart(bad)]_vars
  => []<>(pc["auto"] = "idle" /\ FilterFresh)

=============================================================================
