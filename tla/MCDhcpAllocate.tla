--------------------------- MODULE MCDhcpAllocate ---------------------------
(***************************************************************************)
(* DhcpAllocate over every table of leases and reservations of three       *)
(* IPv4 and three IPv6 addresses that two clients can have.                *)
(***************************************************************************)
EXTENDS DhcpAllocate, FiniteSets

CONSTANTS c1, c2

McRank == [a \in Addrs |-> IF a % 2 = 0 THEN 100 - a ELSE 200 - a]

McRow(ip, c, exp) ==
  [id |-> ip, scope |-> 1, ip |-> ip, client |-> c, state |-> "active", expires |-> exp]

\* Each address is free, held by c1, held by c2, or once held by c2.
McTables(S) ==
  {{McRow(a, IF f[a] = 1 THEN c1 ELSE c2, IF f[a] = 3 THEN 1 ELSE 2) :
      a \in {b \in S : f[b] # 0}} : f \in [S -> 0 .. 3]}

McReserved(S) ==
  {{}} \cup {{[scope |-> 1, client |-> c, ip |-> a]} : c \in {c1, c2}, a \in S}

McArgs(f, S, B) ==
  {[sc |-> [family |-> f, lo |-> b[1], hi |-> b[2]], rs |-> rs, ls |-> ls,
    client |-> c1, requested |-> q, now |-> 1] :
     b \in B, rs \in McReserved(S), ls \in McTables(S), q \in {{}} \cup {{a} : a \in S}}

McAllArgs ==
  McArgs("v4", V4Addrs, {<<1, 3>>, <<2, 3>>, <<3, 1>>, <<1, 12>>}) \cup
  McArgs("v6", V6Addrs, {<<11, 13>>})
=============================================================================
