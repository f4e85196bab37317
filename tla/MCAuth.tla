------------------------------- MODULE MCAuth -------------------------------
(***************************************************************************)
(* A small instance of Auth: two requests at a time, a lockout after two   *)
(* failures, at most two sessions.                                        *)
(***************************************************************************)
EXTENDS Auth

McWorkers == {"w1", "w2"}
McPasswords == {"p", "q"}
=============================================================================
