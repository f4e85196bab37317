----------------------------- MODULE MCResolver -----------------------------
(***************************************************************************)
(* Small instances of Resolver.                                            *)
(***************************************************************************)
EXTENDS Resolver, TLC

McSymmetry == Permutations(Queries)

McFilter(ip, name, allow, deny, listed, on) ==
  [toIp |-> ip, toName |-> name, allow |-> allow, deny |-> deny, listed |-> listed, on |-> on]

\* Every decision for some key: pass, block, both rewrites, allow.
McFilters == {McFilter({}, {}, {}, {}, {}, TRUE),
              McFilter({}, {}, {}, {"a"}, {"b"}, TRUE),
              McFilter({"a"}, {"b"}, {}, {}, {"a"}, FALSE),
              McFilter({}, {}, {"b"}, {}, {"a", "b"}, TRUE)}

\* Everything is replaced all the time; the clock stands still.
McChanging == [stores |-> {{}, {"a"}}, filters |-> McFilters, conds |-> {{}, {"b"}},
               upstreams |-> {{TRUE}, {}}, bounds |-> {NewBounds(2, 1, 2)},
               mdns |-> {"b"}, suspicious |-> {"b"}, ttls |-> {{}}, maxClock |-> 0]

\* Time passes, and nothing but the cache is replaced: at most one entry,
\* kept for 1 or for 2.
McAgeing == [stores |-> {{}}, filters |-> {McFilter({}, {}, {}, {}, {}, TRUE)},
             conds |-> {{}}, upstreams |-> {{TRUE}},
             bounds |-> {NewBounds(0, 0, 0), NewBounds(1, 1, 2)},
             mdns |-> {}, suspicious |-> {}, ttls |-> {{2}}, maxClock |-> 3]

\* The cache is replaced by one whose bounds contradict each other.
McContradicting == [McAgeing EXCEPT !.bounds = {NewBounds(1, 1, 2), NewBounds(1, 2, 1)},
                                    !.maxClock = 0]

McWorlds == {McChanging, McAgeing, McContradicting}
=============================================================================
