---------------------------- MODULE AddressBook ----------------------------
(***************************************************************************)
(* What a DHCP server promises, with nothing of how it keeps the promise:  *)
(* a book of who holds which address.  An address is given to a client     *)
(* only while nobody else holds it, unless its assignment was overruled,   *)
(* by an administrator or by its client itself.                            *)
(***************************************************************************)
CONSTANTS
  Clients,    \* those that may hold an address
  Addresses   \* what is given out

VARIABLES
  holders,    \* [Addresses -> the clients that hold the address now]
  overruled   \* addresses whose assignment was interfered with

vars == <<holders, overruled>>

Init ==
  /\ holders = [a \in Addresses |-> {}]
  /\ overruled = {}

\* A client is given an address and lets go of any other.
Give(c, a) ==
  /\ a \in overruled \/ holders[a] \subseteq {c}
  /\ holders' = [b \in Addresses |->
       IF b = a THEN holders[b] \cup {c} ELSE holders[b] \ {c}]
  /\ UNCHANGED overruled

\* Leases run out or are given back, any number of them at a time.
Lapse ==
  /\ holders' \in [Addresses -> SUBSET Clients]
  /\ \A a \in Addresses : holders'[a] \subseteq holders[a]
  /\ UNCHANGED overruled

Overrule ==
  /\ overruled \subseteq overruled'
  /\ UNCHANGED holders

Next ==
  \/ \E c \in Clients, a \in Addresses : Give(c, a)
  \/ Lapse
  \/ Overrule

Spec == Init /\ [][Next]_vars

=============================================================================
