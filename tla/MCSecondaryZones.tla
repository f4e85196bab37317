-------------------------- MODULE MCSecondaryZones --------------------------
(***************************************************************************)
(* Small instances of SecondaryZones.                                      *)
(***************************************************************************)
EXTENDS SecondaryZones

McRow(s, d) == [secondary |-> TRUE, serial |-> s, data |-> d, due |-> TRUE]

\* Nothing yet, or a zone transferred before the start.
McStart == {NoZones} \cup {[NoZones EXCEPT ![1] = {McRow(2, 2)}]}
=============================================================================
