------------------------------ MODULE MCZones ------------------------------
(***************************************************************************)
(* A small instance of Zones: a zone z, a zone c.z inside it, two views, a *)
(* wildcard, a loop of CNAMEs and one that leaves the zone.                *)
(***************************************************************************)
EXTENDS Zones

McZ == <<"z">>
McC == <<"c", "z">>
McApexes == {McZ, McC}
McChars == [z \in McApexes |-> IF z = McZ THEN 1 ELSE 3]
McNames == {<<"z">>, <<"a", "z">>, <<"x", "b", "z">>, <<"a", "c", "z">>, <<"o">>}
McTypes == {"A", "CNAME", "SOA", "NS"}
McViews == <<"in", "all">>
McClients == {[nets |-> {"in", "all"}, geo |-> {}], [nets |-> {"all"}, geo |-> {}],
              [nets |-> {"all"}, geo |-> {"in"}]}
McToken(enabled, hosts, view) == [enabled |-> enabled, hostnames |-> hosts, view |-> view]
McUpdate(token, n, d) == [token |-> token, name |-> n, data |-> d]

\* Two updates that go through; a token that is disabled, one for another name.
McDynUpdates == {McUpdate(McToken(TRUE, {<<"a", "c", "z">>}, {"in"}), <<"a", "c", "z">>, <<"5">>),
                 McUpdate(McToken(TRUE, {<<"a", "z">>}, {}), <<"a", "z">>, <<"3">>),
                 McUpdate(McToken(FALSE, {<<"a", "z">>}, {}), <<"a", "z">>, <<"6">>),
                 McUpdate(McToken(TRUE, {<<"a", "z">>}, {}), <<"b", "z">>, <<"6">>)}

McRows ==
  {Row(McZ, <<"a", "z">>, "A", {}, <<"1">>, TRUE),
   Row(McZ, <<"a", "z">>, "A", {}, <<"1">>, FALSE),
   Row(McZ, <<"a", "z">>, "A", {"in"}, <<"2">>, TRUE),
   Row(McZ, <<"a", "z">>, "CNAME", {"all"}, <<"x", "b", "z">>, TRUE),
   Row(McZ, <<"*", "b", "z">>, "CNAME", {}, <<"a", "z">>, TRUE),
   Row(McZ, <<"*", "z">>, "CNAME", {}, <<"o">>, TRUE),
   Row(McC, <<"*", "c", "z">>, "A", {}, <<"4">>, TRUE)}
=============================================================================
