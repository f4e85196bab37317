---------------------------- MODULE DhcpAllocate ----------------------------
(***************************************************************************)
(* lease::allocate step by step: the early returns and the probing loop,   *)
(* with its two counters and its two ways to stop.  DhcpLease!Allocate says *)
(* what address it has to find; DhcpServer uses that definition.           *)
(***************************************************************************)
EXTENDS DhcpLease

CONSTANT Args   \* the arguments allocate is called with

\* The arguments of a call; the scope is what allocate reads of it.
Call == [sc : [family : Families, lo : Addrs, hi : Addrs],
         rs : SUBSET Reservation, ls : SUBSET Lease, client : Clients,
         requested : SUBSET Addrs, now : Nat]

ASSUME ArgsAssumption == Args \subseteq Call

VARIABLES
  args,     \* the arguments
  phase,    \* the step of the policy that comes next
  n,        \* the address the loop probes
  probed,   \* how many it has given up on
  result    \* {} or {address}

avars == <<args, phase, n, probed, result>>

used == Used(args.rs, args.ls, args.client, args.now)

AllocateInit ==
  /\ args \in Args
  /\ phase = "reservation"
  /\ n = 0 /\ probed = 0
  /\ result = {}

Return(r) ==
  /\ result' = r
  /\ phase' = "done"
  /\ UNCHANGED <<args, n, probed>>

Continue(next) ==
  /\ phase' = next
  /\ UNCHANGED <<args, n, probed, result>>

\* 1. A reservation wins outright.
Reserved ==
  LET mine == {r.ip : r \in {q \in args.rs : q.client = args.client}}
  IN  /\ phase = "reservation"
      /\ IF mine # {} THEN Return(FirstListed(mine)) ELSE Continue("range")

\* The pool has to be a range of the family of the scope.
CheckRange ==
  /\ phase = "range"
  /\ IF Pool(args.sc) = {} THEN Return({}) ELSE Continue("own")

\* 2. The client's own lease.
ReuseOwn ==
  LET own == {l.ip : l \in {m \in args.ls : m.client = args.client /\ IsHolding(m, args.now)}}
      ok  == {a \in own : a \in Pool(args.sc) /\ a \notin used}
  IN  /\ phase = "own"
      /\ IF ok # {} THEN Return(FirstListed(ok)) ELSE Continue("requested")

\* 3. The address asked for; else the loop starts at the bottom of the pool.
HonorRequested ==
  LET ok == {a \in args.requested : a \in Pool(args.sc) /\ a \notin used}
  IN  /\ phase = "requested"
      /\ IF ok # {} THEN Return(ok)
         ELSE /\ phase' = "scan"
              /\ n' = args.sc.lo
              /\ probed' = 0
              /\ UNCHANGED <<args, result>>

\* Mutant of Probe: the loop stops before it has looked at the last address.
ProbeTooShort ==
  /\ phase = "scan"
  /\ IF n = args.sc.hi THEN Return({})
     ELSE IF n \notin used THEN Return({n})
     ELSE /\ n' = n + 1
          /\ probed' = probed + 1
          /\ phase' = IF args.sc.family = "v6" /\ probed' >= MaxV6Scan
                      THEN "done" ELSE "scan"
          /\ UNCHANGED <<args, result>>

\* Mutant of Probe: the candidate does not advance past a taken address.
ProbeStuck ==
  /\ phase = "scan"
  /\ IF n \notin used THEN Return({n})
     ELSE IF n = args.sc.hi THEN Return({})
     ELSE /\ UNCHANGED <<args, phase, n, probed, result>>

\* 4. One turn of the loop.
Probe ==
  /\ phase = "scan"
  /\ IF n \notin used THEN Return({n})
     ELSE IF n = args.sc.hi THEN Return({})
     ELSE /\ n' = n + 1
          /\ probed' = probed + 1
          /\ phase' = IF args.sc.family = "v6" /\ probed' >= MaxV6Scan
                      THEN "done" ELSE "scan"
          /\ UNCHANGED <<args, result>>

AllocateNext == Reserved \/ CheckRange \/ ReuseOwn \/ HonorRequested \/ Probe

AllocateSpec == AllocateInit /\ [][AllocateNext]_avars /\ WF_avars(AllocateNext)

-----------------------------------------------------------------------------

AllocateTypeOK ==
  /\ args \in Call
  /\ phase \in {"reservation", "range", "own", "requested", "scan", "done"}
  /\ n \in Nat /\ probed \in Nat
  /\ result \subseteq Addrs

\* The loop finds exactly the address of the policy: none is overlooked by an
\* early stop, none is taken beyond the end of the pool or of the part of an
\* IPv6 pool that is searched.
ScanFindsAllocation ==
  phase = "done" =>
    result = Allocate(args.sc, args.rs, args.ls, args.client, args.requested, args.now)

\* Why: what has been probed is taken, and nothing better is left.
ScanInv ==
  LET free == Pool(args.sc) \ used
      own  == {l.ip : l \in {m \in args.ls : m.client = args.client /\ IsHolding(m, args.now)}}
  IN
  /\ phase # "done" => result = {}
  /\ phase \in {"range", "own", "requested", "scan"} =>
       {r.ip : r \in {q \in args.rs : q.client = args.client}} = {}
  /\ phase \in {"own", "requested", "scan"} => Pool(args.sc) # {}
  /\ phase \in {"requested", "scan"} => own \cap free = {}
  /\ phase = "scan" =>
       /\ args.requested \cap free = {}
       /\ n \in Pool(args.sc)
       /\ probed = n - args.sc.lo
       /\ args.sc.family = "v6" => probed < MaxV6Scan
       /\ \A a \in args.sc.lo .. (n - 1) : a \in used

\* The inductive invariant of the loop.
FindInv == AllocateTypeOK /\ ScanInv /\ ScanFindsAllocation

\* allocate returns, however large the pool: the loop always ends.
AllocateReturns == <>(phase = "done")

=============================================================================
