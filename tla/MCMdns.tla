------------------------------- MODULE MCMdns -------------------------------
(***************************************************************************)
(* A small instance of Mdns: one service on one host, which has a private  *)
(* and a public address, or is gone.                                       *)
(***************************************************************************)
EXTENDS Mdns

Rec(n, t, d) == [name |-> n, type |-> t, data |-> d]

\* The answer about all services brings along the instance of the type and
\* its host; nobody answers the questions this makes superfluous.
McGraph == [q \in Questions |->
  IF q = <<"meta", "PTR">>
  THEN {Rec("meta", "PTR", "type"), Rec("type", "PTR", "inst"), Rec("inst", "SRV", "host")}
  ELSE {}]

McChatter == {<<"host", "A">>}

McLinkStates == [{"host"} -> {{}, {"lan", "pub"}}]
=============================================================================
