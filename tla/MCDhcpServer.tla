---------------------------- MODULE MCDhcpServer ----------------------------
(***************************************************************************)
(* Small instances of DhcpServer.  Addresses 9, 10 and 11 are listed as    *)
(* 10, 11, 9, as their texts sort.                                         *)
(***************************************************************************)
EXTENDS DhcpServerInv, TLC

CONSTANTS c1, c2

McClients == {c1, c2}
McV4 == 9 .. 11
McTextRank == [a \in Addrs |-> CASE a = 10 -> 1 [] a = 11 -> 2 [] OTHER -> 3]
McFamilyV4 == [l \in Loops |-> "v4"]
McNoIface == [l \in Loops |-> {}]

McScope == [name |-> 1, enabled |-> TRUE, family |-> "v4", subnet |-> {},
            iface |-> {}, lo |-> 9, hi |-> 10, secs |-> 2]

Msg(t, c, req, ci) ==
  [type |-> t, client |-> c, req |-> req, ciaddr |-> ci, giaddr |-> {}]

\* Each v4 message type from each client.
McMessages == {Msg(t, c, {}, {}) : t \in V4Types, c \in Clients}

\* One address to compete for, behind a scope that can be shortened, renamed
\* and disabled.
McNarrow == [McScope EXCEPT !.hi = 9]
McInitScopes == [s \in ScopeIds |-> {McNarrow}]
McScopeInputs ==
  {[McNarrow EXCEPT !.secs = 1], [McNarrow EXCEPT !.name = 2, !.enabled = FALSE]}

\* Two v4 sockets that serve the same scope: one of v4_listen and one bound
\* to the interface (1) the scope is pinned to.
McPinned == [s \in ScopeIds |-> {[McScope EXCEPT !.iface = {1}]}]
McTwoSockets == [l \in Loops |-> IF l = 1 THEN {} ELSE {[name |-> 1, addr |-> {}]}]
McRequests == {Msg("request", c, {}, {}) : c \in Clients}

Symmetry == Permutations(Clients)
=============================================================================
