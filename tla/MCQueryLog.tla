----------------------------- MODULE MCQueryLog -----------------------------
(***************************************************************************)
(* Small instances of QueryLog, explored in one run: the seconds go by and *)
(* nothing is logged; two names compete for one place in the tables, also  *)
(* while they are cleared; the log is written, cleared and restarted.      *)
(***************************************************************************)
EXTENDS QueryLog

McSeconds == [modes |-> {FALSE}, names |-> {"a"},
              queries |-> 4, clock |-> 6, restarts |-> 1, clears |-> 0]
McNames == [modes |-> {TRUE}, names |-> {"a", "b"},
            queries |-> 3, clock |-> 0, restarts |-> 0, clears |-> 0]
McCleared == [McNames EXCEPT !.queries = 2, !.clears = 1]
McLog == [modes |-> BOOLEAN, names |-> {"a"},
          queries |-> 3, clock |-> 0, restarts |-> 1, clears |-> 1]

McWorlds == {McSeconds, McNames, McCleared, McLog}
=============================================================================
