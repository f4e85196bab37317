---------------------------- MODULE MCLiveConfig ----------------------------
(* Small instances of LiveConfig. *)
EXTENDS LiveConfig

\* The refresh is switched on and off together with the resolver settings,
\* which have nothing to do with it.
McUpdates == [{"blocking"} -> Values] \cup
             {[f \in {"hours", "resolver"} |-> v] : v \in Values}

\* All goes well, the upstream cannot be built, the database fails.
McBadStarts == {{}, {"upstream"}, Parts}
=============================================================================
