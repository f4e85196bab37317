----------------------------- MODULE Filtering -----------------------------
(***************************************************************************)
(* Blocklists, block rules and rewrites: the tables, the downloads that    *)
(* fill the lists (refresh_one and its callers in src/src/web/api.rs, the  *)
(* periodic refresh of src/src/main.rs) and the filter built from them     *)
(* (src/src/filter.rs).                                                    *)
(*                                                                         *)
(* A refresh reads the row, downloads for up to a minute and stores what   *)
(* it got under the id it read; between these steps the list can be        *)
(* edited, deleted, refreshed by someone else, or its id given to another  *)
(* list.  A reload reads the tables in one step and puts the new filter in *)
(* place in another.  Of the settings only blocklist_refresh_hours is      *)
(* state, as on or off (0, the default); the blocking flag is LiveConfig's *)
(* matter and the constant Blocking here.                                  *)
(***************************************************************************)
EXTENDS Integers, FiniteSets

CONSTANTS
  Domains,      \* lower-case names without the trailing dot, "*." ones included
  Strip,        \* [Domains -> Domains]: without the prefix "*."
  Suffixes,     \* [Domains -> the domain and its parent domains]
  TextRank,     \* [Domains -> Nat]: order of the domains as strings
  Urls,         \* where lists can be downloaded
  Versions,     \* [Urls -> the parsed contents a list can have over time]
  ListIds, RuleIds, RewriteIds,   \* row ids: 1..n, which bounds the tables
  Rules,        \* the block rules that can be entered
  Rewrites,     \* the rewrites that can be entered
  Blocking,     \* settings.blocking_enabled
  Admins,       \* tasks that serve requests of administrators
  MaxEvents     \* bound on requests, new versions, failures and restarts

Periodic == "auto"        \* the periodic refresh

\* The tasks that refresh lists or reload the filter.
Callers == Admins \cup {Periodic}

\* Rows without their ids.  updated says that last_updated is set.
List == [url : Urls, enabled : BOOLEAN, updated : BOOLEAN, entries : SUBSET Domains]
Rule == [domain : Domains, action : {"allow", "deny"}]
Rewrite == [domain : Domains, target : {"ip", "name"}, enabled : BOOLEAN]

ASSUME FilteringAssumption ==
  /\ Strip \in [Domains -> Domains] /\ Suffixes \in [Domains -> SUBSET Domains]
  /\ TextRank \in [Domains -> Nat]
  /\ Versions \in [Urls -> SUBSET SUBSET Domains]
  /\ Rules \subseteq Rule /\ Rewrites \subseteq Rewrite
  /\ Blocking \in BOOLEAN /\ Periodic \notin Admins /\ MaxEvents \in Nat

VARIABLES
  lists, rules, rewrites,   \* [ids -> optional row]: the tables
  refreshing,   \* blocklist_refresh_hours > 0
  remote,       \* [Urls -> the present contents]
  filter,       \* the live filter
  stage,        \* [Callers -> next step]
  queued,       \* [Callers -> ids of the lists still to refresh]
  job,          \* [Callers -> optional: the row refresh_one works on]
  fetched,      \* [Callers -> optional: the domains downloaded]
  built,        \* [Callers -> optional: the filter about to be put in place]
  crossed,      \* ids given to a new list while a task worked on the old one
  events        \* how many events have happened

tables == <<lists, rules, rewrites>>
callerVars == <<stage, queued, job, fetched, built>>
filterVars == <<tables, refreshing, remote, filter, callerVars, crossed, events>>

-----------------------------------------------------------------------------
(* The queries of db.rs. *)

Present(table) == UNION {table[i] : i \in DOMAIN table}

Delete(table, i) == [table EXCEPT ![i] = {}]

InsertList(i, u) ==
  [lists EXCEPT ![i] =
     {[url |-> u, enabled |-> TRUE, updated |-> FALSE, entries |-> {}]}]

UpdateList(i, on) == [lists EXCEPT ![i] = {[l EXCEPT !.enabled = on] : l \in @}]

\* A transaction.  If the list is gone the first insert breaks the foreign key
\* and the rest is rolled back.
ReplaceEntries(i, d) ==
  [lists EXCEPT ![i] = {[l EXCEPT !.entries = d, !.updated = TRUE] : l \in @}]

EnabledBlockDomains(rows) == UNION {l.entries : l \in {m \in rows : m.enabled}}

InsertRule(i, r) == [rules EXCEPT ![i] = {r}]

RuleDomains(rows, action) == {r.domain : r \in {q \in rows : q.action = action}}

InsertRewrite(i, w) == [rewrites EXCEPT ![i] = {[w EXCEPT !.enabled = TRUE]}]

ChangeRewrite(i, w) == [rewrites EXCEPT ![i] = {w : x \in @}]

EnabledRewrites(rows) == {w \in rows : w.enabled}

-----------------------------------------------------------------------------
(* FilterSet. *)

\* domain_covers: the pattern's domain itself and everything below it.
Covers(p, n) == Strip[p] \in Suffixes[n]

\* FilterSet::build_from.  A table whose query fails counts as empty.
Build(failed) ==
  LET rows(name, table) == IF name \in failed THEN {} ELSE Present(table)
  IN  [blocked  |-> EnabledBlockDomains(rows("lists", lists)),
       deny     |-> RuleDomains(rows("rules", rules), "deny"),
       allow    |-> RuleDomains(rows("rules", rules), "allow"),
       rewrites |-> EnabledRewrites(rows("rewrites", rewrites))]

\* FilterSet::decide.  Lists match exactly, rules and rewrites cover; of
\* several rewrites the first in the order of the domains is taken.
Decide(f, n) ==
  LET rw == {w \in f.rewrites : Covers(w.domain, n)}
  IN  IF rw # {}
      THEN {w.target : w \in {v \in rw : \A x \in rw : TextRank[v.domain] <= TextRank[x.domain]}}
      ELSE IF \E p \in f.allow : Covers(p, n) THEN {"allow"}
      ELSE IF Blocking /\ (n \in f.blocked \/ \E p \in f.deny : Covers(p, n)) THEN {"block"}
      ELSE {"pass"}

FilterInit ==
  /\ lists = [i \in ListIds |-> {}]
  /\ rules = [i \in RuleIds |-> {}]
  /\ rewrites = [i \in RewriteIds |-> {}]
  /\ refreshing \in BOOLEAN
  /\ remote \in {r \in [Urls -> SUBSET Domains] : \A u \in Urls : r[u] \in Versions[u]}
  /\ filter = Build({})
  /\ stage = [t \in Callers |-> "idle"]
  /\ queued = [t \in Callers |-> {}]
  /\ job = [t \in Callers |-> {}]
  /\ fetched = [t \in Callers |-> {}]
  /\ built = [t \in Callers |-> {}]
  /\ crossed = {}
  /\ events = 0

Event == events < MaxEvents /\ events' = events + 1

Reach(t, label) == stage' = [stage EXCEPT ![t] = label]

-----------------------------------------------------------------------------
(* refresh_one, for each list of queued, then reload_filter. *)

\* Mutant of NextList: the filter is not reloaded after a refresh.
NextListNoReload(t, i) ==
  LET rest == queued[t] \ {i}
  IN  /\ queued' = [queued EXCEPT ![t] = rest]
      /\ job' = [job EXCEPT ![t] = {}]
      /\ fetched' = [fetched EXCEPT ![t] = {}]
      /\ Reach(t, IF rest = {} THEN "idle" ELSE "row")
      /\ UNCHANGED built

\* One list is dealt with, well or not; the next one, or the reload.
NextList(t, i) ==
  LET rest == queued[t] \ {i}
  IN  /\ queued' = [queued EXCEPT ![t] = rest]
      /\ job' = [job EXCEPT ![t] = {}]
      /\ fetched' = [fetched EXCEPT ![t] = {}]
      /\ Reach(t, IF rest = {} THEN "load" ELSE "row")
      /\ UNCHANGED built

\* The row is read; if it is gone, or cannot be read, there is nothing to do.
ReadRow(t, i) ==
  /\ stage[t] = "row" /\ i \in queued[t]
  /\ IF lists[i] = {} THEN NextList(t, i)
     ELSE /\ job' = [job EXCEPT ![t] = {[id |-> i, url |-> l.url] : l \in lists[i]}]
          /\ Reach(t, "fetch")
          /\ UNCHANGED <<queued, fetched, built>>
  /\ UNCHANGED <<tables, refreshing, remote, filter, crossed, events>>

\* fetch_blocklist succeeds.
Fetched(t) ==
  /\ stage[t] = "fetch"
  /\ fetched' = [fetched EXCEPT ![t] = {remote[j.url] : j \in job[t]}]
  /\ Reach(t, "store")
  /\ UNCHANGED <<tables, refreshing, remote, filter, queued, job, built, crossed, events>>

\* Mutant of FetchFails: what is left of the download is stored.
FetchFailsEmpty(t) ==
  /\ stage[t] = "fetch"
  /\ Event
  /\ fetched' = [fetched EXCEPT ![t] = {{}}]
  /\ Reach(t, "store")
  /\ UNCHANGED <<tables, refreshing, remote, filter, queued, job, built, crossed>>

\* It fails: only last_error is set.
FetchFails(t) ==
  /\ stage[t] = "fetch"
  /\ Event
  /\ \E j \in job[t] : NextList(t, j.id)
  /\ UNCHANGED <<tables, refreshing, remote, filter, crossed>>

StoreEntries(t) ==
  /\ stage[t] = "store"
  /\ \E j \in job[t], d \in fetched[t] : lists' = ReplaceEntries(j.id, d) /\ NextList(t, j.id)
  /\ UNCHANGED <<rules, rewrites, refreshing, remote, filter, crossed, events>>

\* The row cannot be read, or the transaction fails: refresh_one goes on.
DbFails(t, i) ==
  /\ stage[t] \in {"row", "store"} /\ i \in queued[t]
  /\ \A j \in job[t] : j.id = i
  /\ Event
  /\ NextList(t, i)
  /\ UNCHANGED <<tables, refreshing, remote, filter, crossed>>

\* reload_filter, the reading.
LoadFilter(t, failed) ==
  /\ stage[t] = "load"
  /\ IF failed = {} THEN UNCHANGED events ELSE Event
  /\ built' = [built EXCEPT ![t] = {Build(failed)}]
  /\ Reach(t, "swap")
  /\ UNCHANGED <<tables, refreshing, remote, filter, queued, job, fetched, crossed>>

SwapFilter(t) ==
  /\ stage[t] = "swap"
  /\ filter' \in built[t]
  /\ built' = [built EXCEPT ![t] = {}]
  /\ Reach(t, "idle")
  /\ UNCHANGED <<tables, refreshing, remote, queued, job, fetched, crossed, events>>

\* refresh_all_lists: the lists enabled now, none if they cannot be read.
RefreshAll(t, ids) ==
  /\ stage[t] = "idle"
  /\ queued' = [queued EXCEPT ![t] = ids]
  /\ Reach(t, IF ids = {} THEN "load" ELSE "row")
  /\ UNCHANGED <<tables, refreshing, remote, filter, job, fetched, built, crossed>>

EnabledIds == {i \in ListIds : \E l \in lists[i] : l.enabled}

\* The periodic refresh, if it is switched on when its sleep is over: nothing
\* limits how often it runs.
AutoRefresh == refreshing /\ RefreshAll(Periodic, EnabledIds) /\ UNCHANGED events
AutoRefreshUnread == refreshing /\ RefreshAll(Periodic, {}) /\ Event

-----------------------------------------------------------------------------
(* Requests.  Each changes its table in one database call and goes on. *)

Request(t, label) ==
  /\ stage[t] = "idle"
  /\ Event
  /\ Reach(t, label)
  /\ UNCHANGED <<remote, filter, job, fetched, built>>

\* SQLite gives a new row the id after the largest one in the table.
NextId(table, i) ==
  /\ \A j \in DOMAIN table : table[j] # {} => j < i
  /\ i # 1 => table[i - 1] # {}

\* create_blocklist.  The URL is unique.
CreateList(t, i, u, refreshNow) ==
  /\ NextId(lists, i)
  /\ \A l \in Present(lists) : l.url # u
  /\ lists' = InsertList(i, u)
  /\ queued' = [queued EXCEPT ![t] = IF refreshNow THEN {i} ELSE {}]
  /\ crossed' = IF \E s \in Callers : \E j \in job[s] : j.id = i
                THEN crossed \cup {i} ELSE crossed \ {i}
  /\ Request(t, IF refreshNow THEN "row" ELSE "load")
  /\ UNCHANGED <<rules, rewrites, refreshing>>

\* update_blocklist.
EnableList(t, i, on) ==
  /\ lists' = UpdateList(i, on)
  /\ Request(t, "load")
  /\ UNCHANGED <<rules, rewrites, refreshing, queued, crossed>>

\* delete_blocklist.  The entries go with the row.
DeleteList(t, i) ==
  /\ lists' = Delete(lists, i)
  /\ Request(t, "load")
  /\ UNCHANGED <<rules, rewrites, refreshing, queued, crossed>>

RefreshList(t, i) ==
  /\ queued' = [queued EXCEPT ![t] = {i}]
  /\ Request(t, "row")
  /\ UNCHANGED <<tables, refreshing, crossed>>

RefreshAllLists(t) == Event /\ \E ids \in {EnabledIds, {}} : RefreshAll(t, ids)

CreateRule(t, i, r) ==
  /\ NextId(rules, i)
  /\ rules' = InsertRule(i, r)
  /\ Request(t, "load")
  /\ UNCHANGED <<lists, rewrites, refreshing, queued, crossed>>

DeleteRule(t, i) ==
  /\ rules' = Delete(rules, i)
  /\ Request(t, "load")
  /\ UNCHANGED <<lists, rewrites, refreshing, queued, crossed>>

CreateRewrite(t, i, w) ==
  /\ NextId(rewrites, i)
  /\ rewrites' = InsertRewrite(i, w)
  /\ Request(t, "load")
  /\ UNCHANGED <<lists, rules, refreshing, queued, crossed>>

UpdateRewrite(t, i, w) ==
  /\ rewrites' = ChangeRewrite(i, w)
  /\ Request(t, "load")
  /\ UNCHANGED <<lists, rules, refreshing, queued, crossed>>

DeleteRewrite(t, i) ==
  /\ rewrites' = Delete(rewrites, i)
  /\ Request(t, "load")
  /\ UNCHANGED <<lists, rules, refreshing, queued, crossed>>

\* put_settings, of the period; apply_settings goes on to reload the filter.
SetRefreshHours(t, on) ==
  /\ refreshing' = on
  /\ Request(t, "load")
  /\ UNCHANGED <<tables, queued, crossed>>

-----------------------------------------------------------------------------
(* The world outside. *)

Publish(u, d) ==
  /\ remote[u] # d
  /\ Event
  /\ remote' = [remote EXCEPT ![u] = d]
  /\ UNCHANGED <<tables, refreshing, filter, callerVars, crossed>>

\* The process stops anywhere and starts with a filter of the stored tables.
RestartFilter ==
  /\ Event
  /\ filter' = Build({})
  /\ stage' = [t \in Callers |-> "idle"]
  /\ queued' = [t \in Callers |-> {}]
  /\ job' = [t \in Callers |-> {}]
  /\ fetched' = [t \in Callers |-> {}]
  /\ built' = [t \in Callers |-> {}]
  /\ UNCHANGED <<tables, refreshing, remote, crossed>>

Go(t) ==
  \/ \E i \in ListIds : ReadRow(t, i)
  \/ Fetched(t) \/ StoreEntries(t) \/ LoadFilter(t, {}) \/ SwapFilter(t)

Trouble(t) ==
  \/ FetchFails(t)
  \/ \E i \in ListIds : DbFails(t, i)
  \/ \E p \in {"lists", "rules", "rewrites"} : LoadFilter(t, {p})

AdminRequest(t) ==
  \/ \E i \in ListIds, u \in Urls, b \in BOOLEAN : CreateList(t, i, u, b)
  \/ \E i \in ListIds, b \in BOOLEAN : EnableList(t, i, b)
  \/ \E i \in ListIds : DeleteList(t, i) \/ RefreshList(t, i)
  \/ RefreshAllLists(t)
  \/ \E i \in RuleIds, r \in Rules : CreateRule(t, i, r)
  \/ \E i \in RuleIds : DeleteRule(t, i)
  \/ \E i \in RewriteIds, w \in Rewrites : CreateRewrite(t, i, w) \/ UpdateRewrite(t, i, w)
  \/ \E i \in RewriteIds : DeleteRewrite(t, i)
  \/ \E b \in BOOLEAN : SetRefreshHours(t, b)

FilterNext ==
  \/ \E t \in Callers : Go(t) \/ Trouble(t)
  \/ AutoRefresh \/ AutoRefreshUnread
  \/ \E t \in Admins : AdminRequest(t)
  \/ \E u \in Urls : \E d \in Versions[u] : Publish(u, d)
  \/ RestartFilter

\* The runtime runs every task; a download ends, as it has a timeout, and the
\* period of the refresh, while it has one, is over some day.
FilterFairness ==
  /\ \A t \in Callers : WF_filterVars(Go(t))
  /\ WF_filterVars(AutoRefresh)

FilterSpec == FilterInit /\ [][FilterNext]_filterVars /\ FilterFairness

-----------------------------------------------------------------------------
(* Properties. *)

Stages == {"idle", "row", "fetch", "store", "load", "swap"}

\* Types; and a list that was ever refreshed holds one whole version of its
\* own URL, however downloads overlap, fail or are cut off by a restart; one
\* that was not is empty.  Except where a download was under way when its id
\* passed to another list: then that list gets the old one's domains.
EntriesOwn ==
  /\ lists \in [ListIds -> SUBSET List]
  /\ rules \in [RuleIds -> SUBSET Rule] /\ rewrites \in [RewriteIds -> SUBSET Rewrite]
  /\ stage \in [Callers -> Stages] /\ queued \in [Callers -> SUBSET ListIds]
  /\ \A t \in Callers :
       /\ job[t] # {} <=> stage[t] \in {"fetch", "store"}
       /\ queued[t] # {} <=> stage[t] \in {"row", "fetch", "store"}
  /\ \A i \in ListIds, k \in ListIds : \A l \in lists[i], m \in lists[k] :
       i = k \/ l.url = m.url => i = k /\ l = m
  /\ \A i \in ListIds \ crossed : \A l \in lists[i] :
       IF l.updated THEN l.entries \in Versions[l.url] ELSE l.entries = {}

\* What the administrator means: the domains of every enabled list as they
\* are published now, under the rules and rewrites stored.
Meant ==
  [Build({}) EXCEPT !.blocked = UNION {remote[l.url] : l \in {m \in Present(lists) : m.enabled}}]

\* Once edits, failures and new versions stop, and the periodic refresh stays
\* switched on, the live filter decides every name as it is meant to, for
\* ever: the refresh makes good every overtaken reload, failed download and
\* list filled under a reused id.  Switched off, as it is by default, nothing
\* does: that assumption cannot be left out.
FilterConverges ==
  <>[]refreshing => <>[](\A n \in Domains : Decide(filter, n) = Decide(Meant, n))

=============================================================================
