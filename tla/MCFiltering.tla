---------------------------- MODULE MCFiltering ----------------------------
(***************************************************************************)
(* A small instance of Filtering: a domain x, its subdomain a.x and the    *)
(* wildcard of x, in two lists that share a.x.                             *)
(***************************************************************************)
EXTENDS Filtering

McDomains == {"x", "a.x", "*.x"}
McStrip == [d \in Domains |-> IF d = "*.x" THEN "x" ELSE d]
McSuffixes == [d \in Domains |-> {d, "x"}]
McRank == [d \in Domains |-> CASE d = "*.x" -> 1 [] d = "a.x" -> 2 [] OTHER -> 3]
McVersions == [u \in Urls |-> IF u = 1 THEN {{"x"}, {"x", "a.x"}} ELSE {{"a.x"}}]
McRules == {[domain |-> "*.x", action |-> "allow"]}
McRewrites == {[domain |-> "a.x", target |-> "ip", enabled |-> b] : b \in BOOLEAN}
=============================================================================
