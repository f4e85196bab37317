--------------------------- MODULE OneStepProofs ----------------------------
(***************************************************************************)
(* Why the other modules may take as one step what the code does in        *)
(* several.  DhcpServer takes a call of lease::allocate as one step: the   *)
(* loop of DhcpAllocate finds the address the policy asks for, for pools   *)
(* of any size, any MAX_V6_SCAN and any tables.  Zones takes an edit and   *)
(* the reload that follows as one step: after the handlers of LiveConfig   *)
(* what is served is what is stored, whatever the tables hold and whatever *)
(* fails, as long as requests come one at a time.                          *)
(***************************************************************************)
EXTENDS DhcpAllocate, LiveConfig, TLAPS

-----------------------------------------------------------------------------
(* The loop of allocate. *)

\* A pool that is not empty runs from lo to hi.
LEMMA PoolRange ==
  ASSUME AllocateTypeOK, Pool(args.sc) # {}
  PROVE  /\ args.sc.lo \in Nat /\ args.sc.hi \in Nat /\ args.sc.lo <= args.sc.hi
         /\ Pool(args.sc) = args.sc.lo .. args.sc.hi
         /\ Pool(args.sc) \subseteq Addrs
<1>1. args.sc \in [family : Families, lo : Addrs, hi : Addrs]
  BY DEF AllocateTypeOK, Call
<1>2. /\ Pool(args.sc) = args.sc.lo .. args.sc.hi
      /\ {args.sc.lo, args.sc.hi} \subseteq AddrsOf(args.sc.family)
  BY DEF Pool
<1>3. /\ args.sc.lo \in Nat /\ args.sc.hi \in Nat
      /\ args.sc.lo .. args.sc.hi \subseteq AddrsOf(args.sc.family)
  BY <1>1, <1>2, AddrAssumption, Zenon DEF Families, AddrsOf, Addrs
<1>4. args.sc.lo <= args.sc.hi
  BY <1>2, <1>3
<1> QED  BY <1>2, <1>3, <1>4 DEF AddrsOf, Addrs

\* allocate starts with nothing decided.
LEMMA FindInit == AllocateInit => FindInv
<1> SUFFICES ASSUME AllocateInit PROVE FindInv
  OBVIOUS
<1>1. AllocateTypeOK
  BY ArgsAssumption DEF AllocateInit, AllocateTypeOK
<1>2. ScanInv /\ ScanFindsAllocation
  BY DEF AllocateInit, ScanInv, ScanFindsAllocation
<1> QED  BY <1>1, <1>2 DEF FindInv

\* Every turn either settles the policy or rules its current choice out.
LEMMA FindStep == FindInv /\ [AllocateNext]_avars => FindInv'
<1> SUFFICES ASSUME FindInv, [AllocateNext]_avars PROVE FindInv'
  OBVIOUS
<1> DEFINE free == Pool(args.sc) \ used
           own  == {k.ip : k \in {m \in args.ls : m.client = args.client /\ IsHolding(m, args.now)}}
           mine == {r.ip : r \in {q \in args.rs : q.client = args.client}}
           spec == Allocate(args.sc, args.rs, args.ls, args.client, args.requested, args.now)
<1>1. /\ AllocateTypeOK /\ args \in Call
      /\ args.requested \subseteq Addrs
      /\ mine \subseteq Addrs /\ own \subseteq Addrs
  BY DEF FindInv, AllocateTypeOK, Call, Reservation, Lease
<1>2. spec = IF mine # {} THEN FirstListed(mine)
             ELSE IF own \cap free # {} THEN FirstListed(own \cap free)
             ELSE IF args.requested \cap free # {} THEN args.requested \cap free
             ELSE Lowest(Scanned(args.sc) \cap free)
  BY DEF Allocate, used
<1>3. ASSUME NEW S \in SUBSET Addrs
      PROVE  FirstListed(S) \subseteq Addrs
  BY DEF FirstListed
<1>4. ASSUME NEW r \in SUBSET Addrs, Return(r), r = spec
      PROVE  FindInv'
  <2>1. AllocateTypeOK'
    BY <1>1, <1>4 DEF Return, AllocateTypeOK
  <2>2. ScanInv'
    BY <1>4 DEF Return, ScanInv
  <2>3. ScanFindsAllocation'
    BY <1>4 DEF Return, ScanFindsAllocation
  <2> QED  BY <2>1, <2>2, <2>3 DEF FindInv
<1>5. ASSUME NEW next \in {"range", "own", "requested"}, Continue(next), phase # "done",
             mine = {}, next \in {"own", "requested"} => Pool(args.sc) # {},
             next = "requested" => own \cap free = {}
      PROVE  FindInv'
  <2>1. AllocateTypeOK'
    BY <1>1, <1>5 DEF Continue, AllocateTypeOK
  <2>2. ScanInv'
    BY <1>5 DEF Continue, FindInv, ScanInv, used
  <2>3. ScanFindsAllocation'
    BY <1>5 DEF Continue, ScanFindsAllocation
  <2> QED  BY <2>1, <2>2, <2>3 DEF FindInv
<1>6. CASE Reserved
  BY <1>1, <1>2, <1>3, <1>4, <1>5, <1>6 DEF Reserved
<1>7. CASE CheckRange
  <2>1. phase = "range" /\ mine = {}
    BY <1>7 DEF CheckRange, FindInv, ScanInv
  <2>2. CASE Pool(args.sc) = {}
    <3>1. spec = {}
      BY <1>2, <2>1, <2>2 DEF Lowest, Scanned
    <3> QED  BY <1>4, <1>7, <2>2, <3>1 DEF CheckRange
  <2>3. CASE Pool(args.sc) # {}
    BY <1>5, <1>7, <2>1, <2>3 DEF CheckRange
  <2> QED  BY <2>2, <2>3
<1>8. CASE ReuseOwn
  <2>1. phase = "own" /\ mine = {} /\ Pool(args.sc) # {}
    BY <1>8 DEF ReuseOwn, FindInv, ScanInv
  <2>2. {a \in own : a \in Pool(args.sc) /\ a \notin used} = own \cap free
    OBVIOUS
  <2> QED  BY <1>1, <1>2, <1>3, <1>4, <1>5, <1>8, <2>1, <2>2, Zenon DEF ReuseOwn
<1>9. CASE HonorRequested
  <2>1. phase = "requested" /\ mine = {} /\ Pool(args.sc) # {} /\ own \cap free = {}
    BY <1>9 DEF HonorRequested, FindInv, ScanInv
  <2>2. {a \in args.requested : a \in Pool(args.sc) /\ a \notin used}
          = args.requested \cap free
    OBVIOUS
  <2>3. CASE args.requested \cap free # {}
    BY <1>1, <1>2, <1>4, <1>9, <2>1, <2>2, <2>3 DEF HonorRequested
  <2>4. CASE args.requested \cap free = {}
    <3>1. /\ phase' = "scan" /\ n' = args.sc.lo /\ probed' = 0
          /\ UNCHANGED <<args, result>>
      BY <1>9, <2>2, <2>4 DEF HonorRequested
    <3>2. args.sc.lo \in Pool(args.sc) /\ args.sc.lo \in Nat
      BY <1>1, <2>1, PoolRange
    <3>3. AllocateTypeOK'
      BY <1>1, <3>1, <3>2 DEF AllocateTypeOK
    <3>4. ScanInv'
      <4>1. /\ probed' = n' - args.sc.lo /\ probed' < MaxV6Scan
            /\ \A a \in args.sc.lo .. (n' - 1) : a \in used
        BY <3>1, <3>2, ScanAssumption
      <4>2. result' = {}
        BY <2>1, <3>1 DEF FindInv, ScanInv
      <4> QED  BY <2>1, <2>4, <3>1, <3>2, <4>1, <4>2, Zenon DEF ScanInv, used
    <3>5. ScanFindsAllocation'
      BY <3>1 DEF ScanFindsAllocation
    <3> QED  BY <3>3, <3>4, <3>5 DEF FindInv
  <2> QED  BY <2>3, <2>4
<1>10. CASE Probe
  <2>1. /\ phase = "scan" /\ mine = {} /\ Pool(args.sc) # {} /\ own \cap free = {}
        /\ args.requested \cap free = {} /\ n \in Pool(args.sc)
        /\ probed = n - args.sc.lo
        /\ args.sc.family = "v6" => probed < MaxV6Scan
        /\ \A a \in args.sc.lo .. (n - 1) : a \in used
        /\ result = {}
    BY <1>10 DEF Probe, FindInv, ScanInv
  <2>2. /\ args.sc.lo \in Nat /\ args.sc.hi \in Nat /\ args.sc.lo <= args.sc.hi
        /\ Pool(args.sc) = args.sc.lo .. args.sc.hi /\ Pool(args.sc) \subseteq Addrs
        /\ n \in Nat /\ probed \in Nat /\ MaxV6Scan \in Nat
    BY <1>1, <2>1, PoolRange, ScanAssumption DEF AllocateTypeOK
  <2>3. spec = Lowest(Scanned(args.sc) \cap free)
    BY <1>2, <2>1
  <2>4. CASE n \notin used
    <3>1. n \in Scanned(args.sc)
      <4>1. args.sc.family \in {"v4", "v6"}
        BY <1>1 DEF Call, Families
      <4>2. args.sc.family = "v6" => n < args.sc.lo + MaxV6Scan
        BY <2>1, <2>2
      <4> QED  BY <2>1, <4>1, <4>2 DEF Scanned
    <3>2. Lowest(Scanned(args.sc) \cap free) = {n}
      <4>1. n \in Scanned(args.sc) \cap free
        BY <2>1, <2>4, <3>1
      <4>2. \A a \in Scanned(args.sc) \cap free : a \in Nat /\ n <= a
        BY <2>1, <2>2 DEF Scanned
      <4> QED  BY <2>2, <4>1, <4>2 DEF Lowest
    <3>3. Return({n})
      BY <1>10, <2>4 DEF Probe
    <3> QED  BY <1>4, <2>1, <2>2, <2>3, <3>2, <3>3, Zenon
  <2>5. CASE n \in used /\ n = args.sc.hi
    <3>1. \A a \in Pool(args.sc) : a \in used
      BY <2>1, <2>2, <2>5
    <3>2. Lowest(Scanned(args.sc) \cap free) = {}
      BY <3>1 DEF Lowest, Scanned
    <3>3. Return({})
      BY <1>10, <2>5 DEF Probe
    <3> QED  BY <1>4, <2>3, <3>2, <3>3
  <2>6. CASE n \in used /\ n # args.sc.hi
    <3>1. /\ n' = n + 1 /\ probed' = probed + 1
          /\ phase' = IF args.sc.family = "v6" /\ probed' >= MaxV6Scan THEN "done" ELSE "scan"
          /\ UNCHANGED <<args, result>>
      BY <1>10, <2>6 DEF Probe
    <3>2. AllocateTypeOK'
      BY <1>1, <2>2, <3>1 DEF AllocateTypeOK
    <3>3. \A a \in args.sc.lo .. (n' - 1) : a \in used
      BY <2>1, <2>2, <2>6, <3>1
    <3>4. /\ n' \in Pool(args.sc) /\ probed' = n' - args.sc.lo
      <4>1. n \in args.sc.lo .. args.sc.hi /\ probed = n - args.sc.lo
        BY <2>1, <2>2, Zenon
      <4>2. n + 1 \in args.sc.lo .. args.sc.hi /\ probed + 1 = (n + 1) - args.sc.lo
        <5>1. n < args.sc.hi
          BY <2>2, <2>6, <4>1
        <5> QED  BY <2>2, <4>1, <5>1
      <4> QED  BY <2>2, <3>1, <4>2, Zenon
    <3>5. ScanInv'
      <4>1. phase' = "scan" /\ args.sc.family = "v6" => probed' < MaxV6Scan
        BY <2>2, <3>1
      <4> QED  BY <2>1, <3>1, <3>3, <3>4, <4>1 DEF ScanInv, used
    <3>6. ASSUME phase' = "done"
          PROVE  spec = {}
      <4>1. args.sc.family = "v6" /\ probed + 1 >= MaxV6Scan
        BY <3>1, <3>6
      <4>2. \A a \in Scanned(args.sc) : a \in used
        BY <2>1, <2>2, <3>1, <3>3, <4>1 DEF Scanned
      <4> QED  BY <2>3, <4>2 DEF Lowest
    <3>7. ScanFindsAllocation'
      BY <2>1, <3>1, <3>6 DEF ScanFindsAllocation
    <3> QED  BY <3>2, <3>5, <3>7 DEF FindInv
  <2> QED  BY <2>4, <2>5, <2>6
<1>11. CASE UNCHANGED avars
  BY <1>11 DEF avars, FindInv, AllocateTypeOK, ScanInv, ScanFindsAllocation, used
<1> QED  BY <1>6, <1>7, <1>8, <1>9, <1>10, <1>11 DEF AllocateNext

\* The loop of lease::allocate returns the address of the policy for every
\* pool, every table and every bound on the IPv6 scan.
THEOREM ScanCorrect == AllocateSpec => []ScanFindsAllocation
<1>1. FindInv => ScanFindsAllocation
  BY DEF FindInv
<1> QED  BY <1>1, FindInit, FindStep, PTL DEF AllocateSpec

-----------------------------------------------------------------------------
(* LiveConfig: types, and which handler is where. *)

\* The database and the live copies.
DataOK ==
  /\ tables \in [Parts -> Values]
  /\ row \in Settings /\ settings \in Settings
  /\ upstream \subseteq Values
  /\ store \in Values /\ cache \in Values
  /\ filter \in [tables : Values, opt : {{v} : v \in Values}]
  /\ conditional \in [tables : Values, opt : {{v} : v \in Values}]
  /\ behind \subseteq {"store", "conditional", "upstream"}

\* A task t at label p of request q, with the locals R, O and L: which
\* handler gets to which label, and what it holds there.
TaskOK(t, p, q, R, O, L) ==
  /\ p \in Labels /\ q \in AllRequests \cup {"none"} /\ R \subseteq Settings /\ O \subseteq Values
  /\ L \subseteq [tables : Values, opt : SUBSET Values]
  /\ R # {} <=> q = "settings"
  /\ \A r, s \in R : r = s
  /\ L # {} <=> p \in {"swapStore", "swapFilter", "swapCond"}
  /\ q = "none" <=> p = "idle"
  /\ p \in {"writeRow", "apply", "upstream", "cache"} => q = "settings"
  /\ p \in {"blocking", "loadFilter", "swapFilter"} => q \in {"filter", "refresh", "settings"}
  /\ p \in {"opts", "loadCond", "swapCond"} => q \in {"conditional", "settings"}
  /\ p \in {"second", "secondSame"} => q = "dyndns"
  /\ p = "fetch" => q = "refresh"
  /\ p \in {"loadStore", "swapStore"} => q \in {"store", "dyndns", "register_dns"}
  /\ p = "ptr" => q = "register_dns"
  /\ t = "auto" => q \in {"none", "refresh"}
  /\ p \in {"loadFilter", "loadCond"} => \E v \in Values : O = {v}
  /\ p \in {"swapFilter", "swapCond"} => \A c \in L : \E v \in Values : c.opt = {v}

TasksOK ==
  /\ pc \in [Tasks -> Labels]
  /\ req \in [Tasks -> AllRequests \cup {"none"}]
  /\ myRow \in [Tasks -> SUBSET Settings]
  /\ myOpt \in [Tasks -> SUBSET Values]
  /\ loaded \in [Tasks -> SUBSET [tables : Values, opt : SUBSET Values]]
  /\ \A t \in Tasks : TaskOK(t, pc[t], req[t], myRow[t], myOpt[t], loaded[t])

LiveInv == DataOK /\ TasksOK

-----------------------------------------------------------------------------
(* What is served, when there is one worker. *)

\* One administrator, or a script that waits for each answer.
OneWorker == \E w : Workers = {w}

\* The worker is at label p of request q with the locals R, O and L: each
\* copy is that of the database until the worker has come to where it is
\* replaced, and what the worker is about to put there is, too.
Served(p, q, R, O, L) ==
  /\ settings = row \/ p = "apply"
  /\ upstream = {row["resolver"]} \/ "upstream" \in behind \/ p \in {"apply", "upstream"}
  /\ cache = row["resolver"] \/ (q = "settings" /\ p # "writeRow")
  /\ conditional.opt = {row["resolver"]} \/ (q = "settings" /\ p \notin {"writeRow", "cache"})
  /\ \/ conditional.tables = tables["conditional"] \/ "conditional" \in behind
     \/ p \in {"opts", "loadCond", "swapCond"}
  /\ \/ store = tables["store"] \/ "store" \in behind
     \/ p \in {"second", "loadStore", "swapStore"}
  /\ p # "writeRow" => R \subseteq {row}
  /\ p = "loadCond" => O = {row["resolver"]}
  /\ p = "swapCond" =>
       \A c \in L : /\ c.opt = {row["resolver"]}
                    /\ c.tables = tables["conditional"] \/ "conditional" \in behind
  /\ p = "swapStore" => \A c \in L : c.tables = tables["store"] \/ "store" \in behind

Serving == \A t \in Workers : Served(pc[t], req[t], myRow[t], myOpt[t], loaded[t])

-----------------------------------------------------------------------------
(* The steps of a task. *)

\* The step takes task t to label p of request q, with the locals R, O, L.
Moves(t, p, q, R, O, L) ==
  /\ pc' = [pc EXCEPT ![t] = p]
  /\ req' = [req EXCEPT ![t] = q]
  /\ myRow' = [myRow EXCEPT ![t] = R]
  /\ myOpt' = [myOpt EXCEPT ![t] = O]
  /\ loaded' = [loaded EXCEPT ![t] = L]

\* What a step does to one task leaves the others alone.
LEMMA TaskStep ==
  ASSUME TasksOK, NEW t \in Tasks, NEW p, NEW q, NEW R, NEW O, NEW L,
         Moves(t, p, q, R, O, L), TaskOK(t, p, q, R, O, L)
  PROVE  /\ TasksOK'
         /\ pc'[t] = p /\ req'[t] = q /\ myRow'[t] = R /\ myOpt'[t] = O /\ loaded'[t] = L
         /\ \A u \in Tasks \ {t} :
              /\ pc'[u] = pc[u] /\ req'[u] = req[u] /\ myRow'[u] = myRow[u]
              /\ myOpt'[u] = myOpt[u] /\ loaded'[u] = loaded[u]
<1>1. /\ p \in Labels /\ q \in AllRequests \cup {"none"} /\ R \in SUBSET Settings
      /\ O \in SUBSET Values /\ L \in SUBSET [tables : Values, opt : SUBSET Values]
  BY Zenon DEF TaskOK
<1>2. /\ pc' \in [Tasks -> Labels]
      /\ req' \in [Tasks -> AllRequests \cup {"none"}]
      /\ myRow' \in [Tasks -> SUBSET Settings]
      /\ myOpt' \in [Tasks -> SUBSET Values]
      /\ loaded' \in [Tasks -> SUBSET [tables : Values, opt : SUBSET Values]]
  BY <1>1, Zenon DEF TasksOK, Moves
<1>3. /\ pc'[t] = p /\ req'[t] = q /\ myRow'[t] = R /\ myOpt'[t] = O /\ loaded'[t] = L
      /\ \A u \in Tasks \ {t} :
           /\ pc'[u] = pc[u] /\ req'[u] = req[u] /\ myRow'[u] = myRow[u]
           /\ myOpt'[u] = myOpt[u] /\ loaded'[u] = loaded[u]
  BY DEF TasksOK, Moves
<1>4. ASSUME NEW u \in Tasks
      PROVE  TaskOK(u, pc'[u], req'[u], myRow'[u], myOpt'[u], loaded'[u])
  <2>1. CASE u = t
    BY <1>3, <2>1, Zenon
  <2>2. CASE u # t
    BY <1>3, <2>2, Zenon DEF TasksOK
  <2> QED  BY <2>1, <2>2, Zenon
<1> QED  BY <1>2, <1>3, <1>4, Zenon DEF TasksOK

\* The periodic refresh does nothing but refresh.
LEMMA AutoLabels ==
  ASSUME TasksOK
  PROVE  pc["auto"] \in {"idle", "fetch", "blocking", "loadFilter", "swapFilter"}
<1>1. "auto" \in Tasks
  BY Zenon DEF Tasks
<1>2. TaskOK("auto", pc["auto"], req["auto"], myRow["auto"], myOpt["auto"], loaded["auto"])
  BY <1>1, Zenon DEF TasksOK
<1> QED  BY <1>2 DEF TaskOK, Labels

\* With one worker, what is served depends on where that one is.
LEMMA WorkerServes ==
  ASSUME OneWorker, NEW t \in Workers
  PROVE  /\ Serving <=> Served(pc[t], req[t], myRow[t], myOpt[t], loaded[t])
         /\ Serving' <=> Served(pc[t], req[t], myRow[t], myOpt[t], loaded[t])'
<1>1. \A u \in Workers : u = t
  BY Zenon DEF OneWorker
<1> QED  BY <1>1, Zenon DEF Serving

\* The copies, and the tables they are built from, but for the filter.
servedVars == <<settings, row, upstream, store, cache, conditional, behind>>

\* The refresh in the background touches the filter alone.
LEMMA AutoServes ==
  ASSUME Serving, UNCHANGED servedVars,
         tables'["store"] = tables["store"], tables'["conditional"] = tables["conditional"],
         \A u \in Workers : /\ pc'[u] = pc[u] /\ req'[u] = req[u] /\ myRow'[u] = myRow[u]
                            /\ myOpt'[u] = myOpt[u] /\ loaded'[u] = loaded[u]
  PROVE  Serving'
<1>1. /\ settings' = settings /\ row' = row /\ upstream' = upstream /\ store' = store
      /\ cache' = cache /\ conditional' = conditional /\ behind' = behind
  BY Zenon DEF servedVars
<1>2. ASSUME NEW u \in Workers
      PROVE  Served(pc[u], req[u], myRow[u], myOpt[u], loaded[u])'
  <2>1. Served(pc[u], req[u], myRow[u], myOpt[u], loaded[u])
    BY <1>2, Zenon DEF Serving
  <2>2. /\ pc'[u] = pc[u] /\ req'[u] = req[u] /\ myRow'[u] = myRow[u]
        /\ myOpt'[u] = myOpt[u] /\ loaded'[u] = loaded[u]
    BY <1>2, Zenon
  <2> QED  BY <1>1, <2>1, <2>2 DEF Served
<1> QED  BY <1>2, Zenon DEF Serving

\* A worker at idle holds nothing.
LEMMA IdleTask ==
  ASSUME TasksOK, NEW t \in Tasks, pc[t] = "idle"
  PROVE  req[t] = "none" /\ myRow[t] = {} /\ loaded[t] = {}
<1>1. TaskOK(t, pc[t], req[t], myRow[t], myOpt[t], loaded[t])
  BY Zenon DEF TasksOK
<1> QED  BY <1>1 DEF TaskOK

\* A task at any other label is a worker.
LEMMA IsWorker ==
  ASSUME TasksOK, NEW t \in Tasks,
         pc[t] \notin {"idle", "fetch", "blocking", "loadFilter", "swapFilter"} \/ t # "auto"
  PROVE  t \in Workers
  BY AutoLabels, Zenon DEF Tasks

\* A step of task t keeps the invariants if it keeps them for t.
LEMMA TaskServes ==
  ASSUME LiveInv, NEW t \in Tasks, NEW p, NEW q, NEW R, NEW O, NEW L,
         Moves(t, p, q, R, O, L), TaskOK(t, p, q, R, O, L), DataOK',
         (/\ t \in Workers /\ Served(pc[t], req[t], myRow[t], myOpt[t], loaded[t])
          /\ pc'[t] = p /\ req'[t] = q /\ myRow'[t] = R /\ myOpt'[t] = O /\ loaded'[t] = L)
           => Served(pc[t], req[t], myRow[t], myOpt[t], loaded[t])',
         t \notin Workers =>
           /\ UNCHANGED servedVars
           /\ tables'["store"] = tables["store"] /\ tables'["conditional"] = tables["conditional"]
  PROVE  LiveInv' /\ (OneWorker /\ Serving => Serving')
<1>1. /\ TasksOK'
      /\ pc'[t] = p /\ req'[t] = q /\ myRow'[t] = R /\ myOpt'[t] = O /\ loaded'[t] = L
      /\ \A u \in Tasks \ {t} :
           /\ pc'[u] = pc[u] /\ req'[u] = req[u] /\ myRow'[u] = myRow[u]
           /\ myOpt'[u] = myOpt[u] /\ loaded'[u] = loaded[u]
  <2>1. TasksOK
    BY Zenon DEF LiveInv
  <2> QED  BY <2>1, TaskStep
<1>2. ASSUME OneWorker, Serving, t \in Workers PROVE Serving'
  BY <1>1, <1>2, WorkerServes, Zenon
<1>3. ASSUME Serving, t \notin Workers PROVE Serving'
  <2>1. \A u \in Workers : u \in Tasks \ {t}
    BY <1>3, Zenon DEF Tasks
  <2> QED  BY <1>1, <1>3, <2>1, AutoServes, Zenon
<1> QED  BY <1>1, <1>2, <1>3, Zenon DEF LiveInv

\* A step that goes on and leaves the locals alone.
LEMMA GotoMoves ==
  ASSUME LiveInv, NEW t \in Tasks, NEW q, NEW p, Goto(t, q, p), UNCHANGED <<myRow, myOpt, loaded>>
  PROVE  Moves(t, p, IF p = "idle" THEN "none" ELSE q, myRow[t], myOpt[t], loaded[t])
<1>1. /\ myRow' = [myRow EXCEPT ![t] = myRow[t]] /\ myOpt' = [myOpt EXCEPT ![t] = myOpt[t]]
      /\ loaded' = [loaded EXCEPT ![t] = loaded[t]]
  BY DEF LiveInv, TasksOK
<1> QED  BY <1>1, Zenon DEF Moves, Goto

\* What a step does not assign stays as it is.
LEMMA SameLocals ==
  ASSUME LiveInv, NEW t \in Tasks
  PROVE  /\ myRow = [myRow EXCEPT ![t] = myRow[t]] /\ myOpt = [myOpt EXCEPT ![t] = myOpt[t]]
         /\ loaded = [loaded EXCEPT ![t] = loaded[t]]
  BY DEF LiveInv, TasksOK

\* A write to the tables of part p is one to those of no other.
LEMMA TablesEdit ==
  ASSUME LiveInv, NEW p \in Parts, NEW v \in Values, tables' = [tables EXCEPT ![p] = v],
         UNCHANGED <<row, liveVars>>, behind' \subseteq {"store", "conditional", "upstream"}
  PROVE  /\ DataOK'
         /\ tables'[p] = v /\ \A o \in Parts \ {p} : tables'[o] = tables[o]
         /\ row' = row /\ settings' = settings /\ upstream' = upstream /\ store' = store
         /\ conditional' = conditional /\ cache' = cache
<1>1. tables \in [Parts -> Values] /\ behind \subseteq {"store", "conditional", "upstream"}
  BY Zenon DEF LiveInv, DataOK
<1>2. /\ tables' \in [Parts -> Values]
      /\ tables'[p] = v /\ \A o \in Parts \ {p} : tables'[o] = tables[o]
  BY <1>1
<1>3. DataOK'
  BY <1>2, Zenon DEF LiveInv, DataOK, liveVars
<1> QED  BY <1>2, <1>3, Zenon DEF liveVars

\* The conclusion about a step.
Keeps == LiveInv' /\ (OneWorker /\ Serving => Serving')

\* A handler that edits tables: the copy is not that of the database until
\* the reload, where the handler goes.
LEMMA EditStep ==
  ASSUME LiveInv, NEW t \in Tasks, NEW p \in Parts, NEW v \in Values, Edit(t, p, v)
  PROVE  Keeps
<1>1. /\ pc[t] = "idle" /\ t # "auto" /\ tables' = [tables EXCEPT ![p] = v]
      /\ UNCHANGED <<row, liveVars, behind>>
      /\ Goto(t, p, Reload(p)) /\ UNCHANGED <<myRow, myOpt, loaded>>
  BY Zenon DEF Edit
<1>2. req[t] = "none" /\ myRow[t] = {} /\ loaded[t] = {} /\ t \in Workers
  BY <1>1, IdleTask, IsWorker, Zenon DEF LiveInv
<1>3. Reload(p) \in {"loadStore", "blocking", "opts"} /\ Reload(p) # "idle"
  BY DEF Reload, Parts
<1>4. Moves(t, Reload(p), p, {}, myOpt[t], {})
  BY <1>1, <1>2, <1>3, SameLocals, Zenon DEF Moves, Goto
<1>5. TaskOK(t, Reload(p), p, {}, myOpt[t], {})
  <2>1. myOpt[t] \subseteq Values
    BY DEF LiveInv, TasksOK
  <2> QED  BY <1>1, <2>1 DEF TaskOK, Reload, Parts, Labels, AllRequests
<1>6. /\ DataOK' /\ behind' = behind /\ \A o \in Parts \ {p} : tables'[o] = tables[o]
      /\ row' = row /\ settings' = settings /\ upstream' = upstream /\ store' = store
      /\ conditional' = conditional /\ cache' = cache
  <2>1. behind' \subseteq {"store", "conditional", "upstream"}
    BY <1>1, Zenon DEF LiveInv, DataOK
  <2> QED  BY <1>1, <2>1, TablesEdit, Zenon
<1>7. ASSUME Served(pc[t], req[t], myRow[t], myOpt[t], loaded[t]),
             pc'[t] = Reload(p), req'[t] = p, myRow'[t] = {}, loaded'[t] = {}
      PROVE  Served(pc[t], req[t], myRow[t], myOpt[t], loaded[t])'
  <2>1. /\ tables'["store"] = tables["store"] \/ pc'[t] = "loadStore"
        /\ tables'["conditional"] = tables["conditional"] \/ pc'[t] = "opts"
    BY <1>6, <1>7 DEF Reload, Parts
  <2> QED  BY <1>1, <1>2, <1>3, <1>6, <1>7, <2>1, Zenon DEF Served
<1> QED  BY <1>2, <1>4, <1>5, <1>6, <1>7, TaskServes, Zenon DEF Keeps

\* The first address of a DynDNS update.
LEMMA DynDnsFirstStep ==
  ASSUME LiveInv, NEW t \in Tasks, NEW v \in Values, DynDnsFirst(t, v)
  PROVE  Keeps
<1> DEFINE next == IF v = tables["store"] THEN "secondSame" ELSE "second"
<1>0. TaskOK(t, pc[t], req[t], myRow[t], myOpt[t], loaded[t])
  BY Zenon DEF LiveInv, TasksOK
<1>1. /\ pc[t] = "idle" /\ t # "auto" /\ UNCHANGED behind
      /\ tables' = [tables EXCEPT !["store"] = v] /\ UNCHANGED <<row, liveVars>>
      /\ Goto(t, "dyndns", next) /\ UNCHANGED <<myRow, myOpt, loaded>>
  BY Zenon DEF DynDnsFirst
<1>2. next \in {"second", "secondSame"} /\ (v # tables["store"] => next = "second")
  OBVIOUS
<1> HIDE DEF next
<1>3. Moves(t, next, "dyndns", myRow[t], myOpt[t], loaded[t])
  BY <1>1, <1>2, SameLocals, Zenon DEF Moves, Goto
<1>4. TaskOK(t, next, "dyndns", myRow[t], myOpt[t], loaded[t])
  BY <1>0, <1>1, <1>2, Zenon DEF TaskOK, Labels, AllRequests
<1>5. /\ DataOK' /\ behind' = behind
      /\ tables'["store"] = v /\ tables'["conditional"] = tables["conditional"]
      /\ row' = row /\ settings' = settings /\ upstream' = upstream /\ store' = store
      /\ conditional' = conditional /\ cache' = cache
  <2>1. behind' \subseteq {"store", "conditional", "upstream"} /\ "store" \in Parts
    BY <1>1, Zenon DEF LiveInv, DataOK, Parts
  <2> QED  BY <1>1, <2>1, TablesEdit, Zenon DEF Parts
<1>6. ASSUME Served(pc[t], req[t], myRow[t], myOpt[t], loaded[t]),
             pc'[t] = next, req'[t] = "dyndns",
             myRow'[t] = myRow[t], myOpt'[t] = myOpt[t], loaded'[t] = loaded[t]
      PROVE  Served(pc[t], req[t], myRow[t], myOpt[t], loaded[t])'
  <2>1. req[t] = "none"
    BY <1>0, <1>1, Zenon DEF TaskOK
  <2> QED  BY <1>1, <1>2, <1>5, <1>6, <2>1, Zenon DEF Served
<1>7. t \in Workers
  BY <1>1, IsWorker, Zenon DEF LiveInv
<1> QED  BY <1>3, <1>4, <1>5, <1>6, <1>7, TaskServes, Zenon DEF Keeps

\* The second.
LEMMA DynDnsSecondStep ==
  ASSUME LiveInv, NEW t \in Tasks, NEW v \in Values, DynDnsSecond(t, v)
  PROVE  Keeps
<1> DEFINE next == IF pc[t] = "secondSame" /\ v = tables["store"] THEN "idle" ELSE "loadStore"
<1>0. TaskOK(t, pc[t], req[t], myRow[t], myOpt[t], loaded[t])
  BY Zenon DEF LiveInv, TasksOK
<1>1. /\ pc[t] \in {"second", "secondSame"} /\ UNCHANGED behind
      /\ tables' = [tables EXCEPT !["store"] = v] /\ UNCHANGED <<row, liveVars>>
      /\ Goto(t, req[t], next) /\ UNCHANGED <<myRow, myOpt, loaded>>
  BY Zenon DEF DynDnsSecond
<1>2. \/ next = "loadStore"
      \/ next = "idle" /\ pc[t] = "secondSame" /\ v = tables["store"]
  OBVIOUS
<1> HIDE DEF next
<1>3. Moves(t, next, IF next = "idle" THEN "none" ELSE req[t], myRow[t], myOpt[t], loaded[t])
  BY <1>1, SameLocals, Zenon DEF Moves, Goto
<1>4. TaskOK(t, next, IF next = "idle" THEN "none" ELSE req[t], myRow[t], myOpt[t], loaded[t])
  BY <1>0, <1>1, <1>2, Zenon DEF TaskOK, Labels, AllRequests
<1>5. /\ DataOK' /\ behind' = behind
      /\ tables'["store"] = v /\ tables'["conditional"] = tables["conditional"]
      /\ row' = row /\ settings' = settings /\ upstream' = upstream /\ store' = store
      /\ conditional' = conditional /\ cache' = cache
  <2>1. behind' \subseteq {"store", "conditional", "upstream"} /\ "store" \in Parts
    BY <1>1, Zenon DEF LiveInv, DataOK, Parts
  <2> QED  BY <1>1, <2>1, TablesEdit, Zenon DEF Parts
<1>6. ASSUME Served(pc[t], req[t], myRow[t], myOpt[t], loaded[t]),
             pc'[t] = next, req'[t] = IF next = "idle" THEN "none" ELSE req[t],
             myRow'[t] = myRow[t], myOpt'[t] = myOpt[t], loaded'[t] = loaded[t]
      PROVE  Served(pc[t], req[t], myRow[t], myOpt[t], loaded[t])'
  <2>1. req[t] = "dyndns"
    BY <1>0, <1>1, Zenon DEF TaskOK
  <2> QED  BY <1>1, <1>2, <1>5, <1>6, <2>1, Zenon DEF Served
<1>7. t \in Workers
  BY <1>1, IsWorker, Zenon DEF LiveInv
<1> QED  BY <1>3, <1>4, <1>5, <1>6, <1>7, TaskServes, Zenon DEF Keeps

\* The address record of a lease.
LEMMA RegisterDnsStep ==
  ASSUME LiveInv, NEW t \in Tasks, NEW v \in Values, RegisterDns(t, v)
  PROVE  Keeps
<1>0. TaskOK(t, pc[t], req[t], myRow[t], myOpt[t], loaded[t])
  BY Zenon DEF LiveInv, TasksOK
<1>1. /\ pc[t] = "idle" /\ t # "auto" /\ UNCHANGED behind
      /\ tables' = [tables EXCEPT !["store"] = v] /\ UNCHANGED <<row, liveVars>>
      /\ Goto(t, "register_dns", "loadStore") /\ UNCHANGED <<myRow, myOpt, loaded>>
  BY Zenon DEF RegisterDns
<1>3. Moves(t, "loadStore", "register_dns", myRow[t], myOpt[t], loaded[t])
  BY <1>1, SameLocals, Zenon DEF Moves, Goto
<1>4. TaskOK(t, "loadStore", "register_dns", myRow[t], myOpt[t], loaded[t])
  BY <1>0, <1>1, Zenon DEF TaskOK, Labels, AllRequests
<1>5. /\ DataOK' /\ behind' = behind
      /\ tables'["store"] = v /\ tables'["conditional"] = tables["conditional"]
      /\ row' = row /\ settings' = settings /\ upstream' = upstream /\ store' = store
      /\ conditional' = conditional /\ cache' = cache
  <2>1. behind' \subseteq {"store", "conditional", "upstream"} /\ "store" \in Parts
    BY <1>1, Zenon DEF LiveInv, DataOK, Parts
  <2> QED  BY <1>1, <2>1, TablesEdit, Zenon DEF Parts
<1>6. ASSUME Served(pc[t], req[t], myRow[t], myOpt[t], loaded[t]),
             pc'[t] = "loadStore", req'[t] = "register_dns",
             myRow'[t] = myRow[t], myOpt'[t] = myOpt[t], loaded'[t] = loaded[t]
      PROVE  Served(pc[t], req[t], myRow[t], myOpt[t], loaded[t])'
  <2>1. req[t] = "none"
    BY <1>0, <1>1, Zenon DEF TaskOK
  <2> QED  BY <1>1, <1>5, <1>6, <2>1, Zenon DEF Served
<1>7. t \in Workers
  BY <1>1, IsWorker, Zenon DEF LiveInv
<1> QED  BY <1>3, <1>4, <1>5, <1>6, <1>7, TaskServes, Zenon DEF Keeps

\* The PTR record of a lease, which no reload follows.
LEMMA RegisterPtrStep ==
  ASSUME LiveInv, NEW t \in Tasks, NEW v \in Values, RegisterPtr(t, v)
  PROVE  Keeps
<1>0. TaskOK(t, pc[t], req[t], myRow[t], myOpt[t], loaded[t])
  BY Zenon DEF LiveInv, TasksOK
<1>1. /\ pc[t] = "ptr"
      /\ behind' = IF v = tables["store"] THEN behind ELSE behind \cup {"store"}
      /\ tables' = [tables EXCEPT !["store"] = v] /\ UNCHANGED <<row, liveVars>>
      /\ Goto(t, req[t], "idle") /\ UNCHANGED <<myRow, myOpt, loaded>>
  BY Zenon DEF RegisterPtr
<1>3. Moves(t, "idle", "none", myRow[t], myOpt[t], loaded[t])
  BY <1>1, SameLocals, Zenon DEF Moves, Goto
<1>4. TaskOK(t, "idle", "none", myRow[t], myOpt[t], loaded[t])
  BY <1>0, <1>1, Zenon DEF TaskOK, Labels, AllRequests
<1>5. /\ DataOK' /\ behind \subseteq behind' /\ (v = tables["store"] \/ "store" \in behind')
      /\ tables'["store"] = v /\ tables'["conditional"] = tables["conditional"]
      /\ row' = row /\ settings' = settings /\ upstream' = upstream /\ store' = store
      /\ conditional' = conditional /\ cache' = cache
  <2>1. behind' \subseteq {"store", "conditional", "upstream"} /\ "store" \in Parts
    BY <1>1 DEF LiveInv, DataOK, Parts
  <2> QED  BY <1>1, <2>1, TablesEdit, Zenon DEF Parts
<1>6. ASSUME Served(pc[t], req[t], myRow[t], myOpt[t], loaded[t]),
             pc'[t] = "idle", req'[t] = "none",
             myRow'[t] = myRow[t], myOpt'[t] = myOpt[t], loaded'[t] = loaded[t]
      PROVE  Served(pc[t], req[t], myRow[t], myOpt[t], loaded[t])'
  <2>1. req[t] = "register_dns"
    BY <1>0, <1>1, Zenon DEF TaskOK
  <2> QED  BY <1>1, <1>5, <1>6, <2>1, Zenon DEF Served
<1>7. t \in Workers
  BY <1>1, IsWorker, Zenon DEF LiveInv
<1> QED  BY <1>3, <1>4, <1>5, <1>6, <1>7, TaskServes, Zenon DEF Keeps

\* A refresh of the blocklists begins, by request or by itself.
LEMMA RefreshStep ==
  ASSUME LiveInv, NEW t \in Tasks, Refresh(t)
  PROVE  Keeps
<1>0. TaskOK(t, pc[t], req[t], myRow[t], myOpt[t], loaded[t])
  BY Zenon DEF LiveInv, TasksOK
<1>1. /\ pc[t] = "idle" /\ UNCHANGED <<dbVars, liveVars, behind>>
      /\ Goto(t, "refresh", "fetch")
      /\ UNCHANGED <<myRow, myOpt, loaded>>
  BY Zenon DEF Refresh
<1>2. Moves(t, "fetch", "refresh", myRow[t], myOpt[t], loaded[t])
  BY <1>1, GotoMoves
<1>3. TaskOK(t, "fetch", "refresh", myRow[t], myOpt[t], loaded[t])
  BY <1>0, <1>1, Zenon DEF TaskOK, Labels, AllRequests
<1>4. DataOK'
  BY <1>1, Zenon DEF LiveInv, DataOK, dbVars, liveVars
<1>5. ASSUME Served(pc[t], req[t], myRow[t], myOpt[t], loaded[t]),
             pc'[t] = "fetch", req'[t] = "refresh",
             myRow'[t] = myRow[t], myOpt'[t] = myOpt[t], loaded'[t] = loaded[t]
      PROVE  Served(pc[t], req[t], myRow[t], myOpt[t], loaded[t])'
  <2>1. req[t] = "none"
    BY <1>0, <1>1, Zenon DEF TaskOK
  <2> QED  BY <1>1, <1>5, <2>1, Zenon DEF Served, dbVars, liveVars
<1>6. /\ UNCHANGED servedVars
      /\ tables'["store"] = tables["store"] /\ tables'["conditional"] = tables["conditional"]
  BY <1>1, Zenon DEF servedVars, dbVars, liveVars
<1> QED  BY <1>2, <1>3, <1>4, <1>5, <1>6, TaskServes, Zenon DEF Keeps

\* The entries of a blocklist are stored.
LEMMA FetchedStep ==
  ASSUME LiveInv, NEW t \in Tasks, NEW v \in Values, Fetched(t, v)
  PROVE  Keeps
<1>0. TaskOK(t, pc[t], req[t], myRow[t], myOpt[t], loaded[t])
  BY Zenon DEF LiveInv, TasksOK
<1>1. /\ pc[t] = "fetch" /\ UNCHANGED behind
      /\ tables' = [tables EXCEPT !["filter"] = v] /\ UNCHANGED <<row, liveVars>>
      /\ Goto(t, req[t], "blocking") /\ UNCHANGED <<myRow, myOpt, loaded>>
  BY Zenon DEF Fetched
<1>3. Moves(t, "blocking", req[t], myRow[t], myOpt[t], loaded[t])
  BY <1>1, SameLocals, Zenon DEF Moves, Goto
<1>4. TaskOK(t, "blocking", req[t], myRow[t], myOpt[t], loaded[t])
  BY <1>0, <1>1, Zenon DEF TaskOK, Labels
<1>5. /\ DataOK' /\ behind' = behind
      /\ tables'["store"] = tables["store"] /\ tables'["conditional"] = tables["conditional"]
      /\ row' = row /\ settings' = settings /\ upstream' = upstream /\ store' = store
      /\ conditional' = conditional /\ cache' = cache
  <2>1. behind' \subseteq {"store", "conditional", "upstream"} /\ "filter" \in Parts
    BY <1>1, Zenon DEF LiveInv, DataOK, Parts
  <2> QED  BY <1>1, <2>1, TablesEdit, Zenon DEF Parts
<1>6. ASSUME Served(pc[t], req[t], myRow[t], myOpt[t], loaded[t]),
             pc'[t] = "blocking", req'[t] = req[t],
             myRow'[t] = myRow[t], myOpt'[t] = myOpt[t], loaded'[t] = loaded[t]
      PROVE  Served(pc[t], req[t], myRow[t], myOpt[t], loaded[t])'
  BY <1>1, <1>5, <1>6, Zenon DEF Served
<1>7. /\ UNCHANGED servedVars
      /\ tables'["store"] = tables["store"] /\ tables'["conditional"] = tables["conditional"]
  BY <1>5, Zenon DEF servedVars
<1> QED  BY <1>3, <1>4, <1>5, <1>6, <1>7, TaskServes, Zenon DEF Keeps

-----------------------------------------------------------------------------
(* put_settings and apply_settings. *)

\* put_settings reads the row and works on a copy.
LEMMA PutSettingsStep ==
  ASSUME LiveInv, NEW t \in Tasks, NEW u \in Updates, PutSettings(t, u)
  PROVE  Keeps
<1>0. TaskOK(t, pc[t], req[t], myRow[t], myOpt[t], loaded[t])
  BY Zenon DEF LiveInv, TasksOK
<1>1. /\ pc[t] = "idle" /\ t # "auto" /\ UNCHANGED <<dbVars, liveVars, behind>>
      /\ myRow' = [myRow EXCEPT ![t] = {Updated(u)}]
      /\ Goto(t, "settings", "writeRow")
      /\ UNCHANGED <<myOpt, loaded>>
  BY Zenon DEF PutSettings
<1>2. Moves(t, "writeRow", "settings", {Updated(u)}, myOpt[t], loaded[t])
  BY <1>1, SameLocals, Zenon DEF Moves, Goto
<1>3. TaskOK(t, "writeRow", "settings", {Updated(u)}, myOpt[t], loaded[t])
  <2>1. PICK F \in SUBSET Fields : u \in [F -> Values]
    BY ConfigAssumption, Zenon DEF SettingsUpdate
  <2>2. \A f \in Fields : (IF f \in DOMAIN u THEN u[f] ELSE row[f]) \in Values
    BY <2>1, Zenon DEF LiveInv, DataOK, Settings
  <2>3. Updated(u) \in Settings
    BY <2>2, Zenon DEF Updated, Settings
  <2> QED  BY <1>0, <1>1, <2>3, Zenon DEF TaskOK, Labels, AllRequests
<1>4. DataOK'
  BY <1>1, Zenon DEF LiveInv, DataOK, dbVars, liveVars
<1>5. ASSUME Served(pc[t], req[t], myRow[t], myOpt[t], loaded[t]),
             pc'[t] = "writeRow", req'[t] = "settings",
             myRow'[t] = {Updated(u)}, myOpt'[t] = myOpt[t], loaded'[t] = loaded[t]
      PROVE  Served(pc[t], req[t], myRow[t], myOpt[t], loaded[t])'
  <2>1. req[t] = "none"
    BY <1>0, <1>1, Zenon DEF TaskOK
  <2>2. UNCHANGED <<settings, upstream, store, cache, conditional, row, tables, behind>>
    BY <1>1, Zenon DEF dbVars, liveVars
  <2> QED  BY <1>1, <1>5, <2>1, <2>2 DEF Served
<1>6. t \in Workers
  BY <1>1, IsWorker, Zenon DEF LiveInv
<1> QED  BY <1>2, <1>3, <1>4, <1>5, <1>6, TaskServes, Zenon DEF Keeps

\* It is stored.
LEMMA WriteRowStep ==
  ASSUME LiveInv, NEW t \in Tasks, WriteRow(t)
  PROVE  Keeps
<1>0. TaskOK(t, pc[t], req[t], myRow[t], myOpt[t], loaded[t])
  BY Zenon DEF LiveInv, TasksOK
<1>1. /\ pc[t] = "writeRow" /\ row' \in myRow[t] /\ UNCHANGED <<tables, liveVars, behind>>
      /\ Goto(t, req[t], "apply")
      /\ UNCHANGED <<myRow, myOpt, loaded>>
  BY Zenon DEF WriteRow
<1>2. Moves(t, "apply", req[t], myRow[t], myOpt[t], loaded[t])
  BY <1>1, GotoMoves, Zenon
<1>3. TaskOK(t, "apply", req[t], myRow[t], myOpt[t], loaded[t])
  BY <1>0, <1>1, Zenon DEF TaskOK, Labels, AllRequests
<1>4. DataOK'
  BY <1>0, <1>1, Zenon DEF LiveInv, DataOK, TaskOK, liveVars
<1>5. ASSUME Served(pc[t], req[t], myRow[t], myOpt[t], loaded[t]),
             pc'[t] = "apply", req'[t] = req[t],
             myRow'[t] = myRow[t], myOpt'[t] = myOpt[t], loaded'[t] = loaded[t]
      PROVE  Served(pc[t], req[t], myRow[t], myOpt[t], loaded[t])'
  <2>1. req[t] = "settings" /\ myRow[t] \subseteq {row'}
    BY <1>0, <1>1, Zenon DEF TaskOK
  <2> QED  BY <1>1, <1>5, <2>1, Zenon DEF Served, liveVars
<1>6. t \in Workers
  BY <1>1, IsWorker, Zenon DEF LiveInv
<1> QED  BY <1>2, <1>3, <1>4, <1>5, <1>6, TaskServes, Zenon DEF Keeps

\* It is made the live settings.
LEMMA ApplySettingsStep ==
  ASSUME LiveInv, NEW t \in Tasks, ApplySettings(t)
  PROVE  Keeps
<1>0. TaskOK(t, pc[t], req[t], myRow[t], myOpt[t], loaded[t])
  BY Zenon DEF LiveInv, TasksOK
<1>1. /\ pc[t] = "apply" /\ settings' \in myRow[t]
      /\ UNCHANGED <<dbVars, upstream, store, filter, conditional, cache, behind>>
      /\ Goto(t, req[t], "upstream")
      /\ UNCHANGED <<myRow, myOpt, loaded>>
  BY Zenon DEF ApplySettings
<1>2. Moves(t, "upstream", req[t], myRow[t], myOpt[t], loaded[t])
  BY <1>1, GotoMoves, Zenon
<1>3. TaskOK(t, "upstream", req[t], myRow[t], myOpt[t], loaded[t])
  BY <1>0, <1>1, Zenon DEF TaskOK, Labels, AllRequests
<1>4. DataOK'
  <2>1. settings' \in Settings
    BY <1>0, <1>1, Zenon DEF TaskOK
  <2> QED  BY <1>1, <2>1, Zenon DEF LiveInv, DataOK, dbVars
<1>5. ASSUME Served(pc[t], req[t], myRow[t], myOpt[t], loaded[t]),
             pc'[t] = "upstream", req'[t] = req[t],
             myRow'[t] = myRow[t], myOpt'[t] = myOpt[t], loaded'[t] = loaded[t]
      PROVE  Served(pc[t], req[t], myRow[t], myOpt[t], loaded[t])'
  <2>1. req[t] = "settings" /\ myRow[t] # {}
    BY <1>0, <1>1, Zenon DEF TaskOK
  <2>2. myRow[t] = {row}
    <3>1. myRow[t] \subseteq {row}
      BY <1>1, <1>5, Zenon DEF Served
    <3> QED  BY <2>1, <3>1, Zenon
  <2>3. settings' = row
    BY <1>1, <2>2, Zenon
  <2> QED  BY <1>1, <1>5, <2>1, <2>2, <2>3, Zenon DEF Served, dbVars
<1>6. t \in Workers
  BY <1>1, IsWorker, Zenon DEF LiveInv
<1> QED  BY <1>2, <1>3, <1>4, <1>5, <1>6, TaskServes, Zenon DEF Keeps

\* The upstream is rebuilt, or there is none.
LEMMA BuildUpstreamStep ==
  ASSUME LiveInv, NEW t \in Tasks, BuildUpstream(t)
  PROVE  Keeps
<1>0. TaskOK(t, pc[t], req[t], myRow[t], myOpt[t], loaded[t])
  BY Zenon DEF LiveInv, TasksOK
<1>1. /\ pc[t] = "upstream"
      /\ \/ upstream' = {r["resolver"] : r \in myRow[t]} /\ behind' = behind \ {"upstream"}
         \/ upstream' = {} /\ behind' = behind \cup {"upstream"}
      /\ UNCHANGED <<dbVars, settings, store, filter, conditional, cache>>
      /\ Goto(t, req[t], "blocking")
      /\ UNCHANGED <<myRow, myOpt, loaded>>
  BY Zenon DEF BuildUpstream
<1>2. Moves(t, "blocking", req[t], myRow[t], myOpt[t], loaded[t])
  BY <1>1, GotoMoves, Zenon
<1>3. TaskOK(t, "blocking", req[t], myRow[t], myOpt[t], loaded[t])
  BY <1>0, <1>1, Zenon DEF TaskOK, Labels, AllRequests
<1>4. DataOK'
  <2>1. \A r \in myRow[t] : r["resolver"] \in Values
    <3>1. myRow[t] \subseteq [Fields -> Values] /\ "resolver" \in Fields
      BY <1>0, Zenon DEF TaskOK, Settings, Fields
    <3> QED  BY <3>1, Zenon
  <2>2. upstream' \subseteq Values
    <3>1. upstream' = {} \/ upstream' = {r["resolver"] : r \in myRow[t]}
      BY <1>1, Zenon
    <3> QED  BY <2>1, <3>1, Zenon
  <2>3. behind' \subseteq {"store", "conditional", "upstream"}
    BY <1>1, Zenon DEF LiveInv, DataOK
  <2> QED  BY <1>1, <2>2, <2>3, Zenon DEF LiveInv, DataOK, dbVars
<1>5. ASSUME Served(pc[t], req[t], myRow[t], myOpt[t], loaded[t]),
             pc'[t] = "blocking", req'[t] = req[t],
             myRow'[t] = myRow[t], myOpt'[t] = myOpt[t], loaded'[t] = loaded[t]
      PROVE  Served(pc[t], req[t], myRow[t], myOpt[t], loaded[t])'
  <2>1. req[t] = "settings" /\ myRow[t] # {}
    BY <1>0, <1>1, Zenon DEF TaskOK
  <2>2. myRow[t] = {row}
    <3>1. myRow[t] \subseteq {row}
      BY <1>1, <1>5, Zenon DEF Served
    <3> QED  BY <2>1, <3>1, Zenon
  <2>3. upstream' = {row["resolver"]} \/ "upstream" \in behind'
    BY <1>1, <2>2
  <2>4. \A p \in {"store", "conditional"} : p \in behind => p \in behind'
    BY <1>1
  <2> QED  BY <1>1, <1>5, <2>1, <2>2, <2>3, <2>4, Zenon DEF Served, dbVars
<1>6. t \in Workers
  BY <1>1, IsWorker, Zenon DEF LiveInv
<1> QED  BY <1>2, <1>3, <1>4, <1>5, <1>6, TaskServes, Zenon DEF Keeps

\* The cache is made anew, which is the end of it.
LEMMA NewCacheStep ==
  ASSUME LiveInv, NEW t \in Tasks, NewCache(t)
  PROVE  Keeps
<1>0. TaskOK(t, pc[t], req[t], myRow[t], myOpt[t], loaded[t])
  BY Zenon DEF LiveInv, TasksOK
<1>1. /\ pc[t] = "cache" /\ cache' \in {r["resolver"] : r \in myRow[t]}
      /\ UNCHANGED <<dbVars, settings, upstream, store, filter, conditional, behind>>
      /\ Goto(t, req[t], "idle")
      /\ myRow' = [myRow EXCEPT ![t] = {}]
      /\ UNCHANGED <<myOpt, loaded>>
  BY Zenon DEF NewCache
<1>2. Moves(t, "idle", "none", {}, myOpt[t], loaded[t])
  BY <1>1, SameLocals, Zenon DEF Moves, Goto
<1>3. TaskOK(t, "idle", "none", {}, myOpt[t], loaded[t])
  BY <1>0, <1>1, Zenon DEF TaskOK, Labels, AllRequests
<1>4. DataOK'
  <2>1. \A r \in myRow[t] : r["resolver"] \in Values
    <3>1. myRow[t] \subseteq [Fields -> Values] /\ "resolver" \in Fields
      BY <1>0, Zenon DEF TaskOK, Settings, Fields
    <3> QED  BY <3>1, Zenon
  <2>2. cache' \in Values
    BY <1>1, <2>1, Zenon
  <2> QED  BY <1>1, <2>2, Zenon DEF LiveInv, DataOK, dbVars
<1>5. ASSUME Served(pc[t], req[t], myRow[t], myOpt[t], loaded[t]),
             pc'[t] = "idle", req'[t] = "none",
             myRow'[t] = {}, myOpt'[t] = myOpt[t], loaded'[t] = loaded[t]
      PROVE  Served(pc[t], req[t], myRow[t], myOpt[t], loaded[t])'
  <2>1. req[t] = "settings" /\ myRow[t] # {}
    BY <1>0, <1>1, Zenon DEF TaskOK
  <2>2. myRow[t] = {row}
    <3>1. myRow[t] \subseteq {row}
      BY <1>1, <1>5, Zenon DEF Served
    <3> QED  BY <2>1, <3>1, Zenon
  <2>3. cache' = row["resolver"]
    BY <1>1, <2>2, Zenon
  <2> QED  BY <1>1, <1>5, <2>1, <2>3, Zenon DEF Served, dbVars
<1>6. t \in Workers
  BY <1>1, IsWorker, Zenon DEF LiveInv
<1> QED  BY <1>2, <1>3, <1>4, <1>5, <1>6, TaskServes, Zenon DEF Keeps

-----------------------------------------------------------------------------
(* The reloads. *)

\* The setting of the filter is read ...
LEMMA ReadBlockingStep ==
  ASSUME LiveInv, NEW t \in Tasks, ReadBlocking(t)
  PROVE  Keeps
<1>0. TaskOK(t, pc[t], req[t], myRow[t], myOpt[t], loaded[t])
  BY Zenon DEF LiveInv, TasksOK
<1>1. /\ pc[t] = "blocking" /\ UNCHANGED <<dbVars, liveVars, behind>>
      /\ myOpt' = [myOpt EXCEPT ![t] = {settings["blocking"]}]
      /\ Goto(t, req[t], "loadFilter")
      /\ UNCHANGED <<myRow, loaded>>
  BY Zenon DEF ReadBlocking, ReadSetting
<1>2. Moves(t, "loadFilter", req[t], myRow[t], {settings["blocking"]}, loaded[t])
  BY <1>1, SameLocals, Zenon DEF Moves, Goto
<1>3. TaskOK(t, "loadFilter", req[t], myRow[t], {settings["blocking"]}, loaded[t])
  <2>1. settings["blocking"] \in Values
    BY DEF LiveInv, DataOK, Settings, Fields
  <2> QED  BY <1>0, <1>1, <2>1, Zenon DEF TaskOK, Labels
<1>4. DataOK'
  BY <1>1, Zenon DEF LiveInv, DataOK, dbVars, liveVars
<1>5. ASSUME Served(pc[t], req[t], myRow[t], myOpt[t], loaded[t]),
             pc'[t] = "loadFilter", req'[t] = req[t],
             myRow'[t] = myRow[t], myOpt'[t] = {settings["blocking"]}, loaded'[t] = loaded[t]
      PROVE  Served(pc[t], req[t], myRow[t], myOpt[t], loaded[t])'
  BY <1>1, <1>5, Zenon DEF Served, dbVars, liveVars
<1>6. /\ UNCHANGED servedVars
      /\ tables'["store"] = tables["store"] /\ tables'["conditional"] = tables["conditional"]
  BY <1>1, Zenon DEF LiveInv, DataOK, servedVars, dbVars, liveVars
<1> QED  BY <1>2, <1>3, <1>4, <1>5, <1>6, TaskServes, Zenon DEF Keeps

\* ... and that of the conditional forwarders.
LEMMA ReadOptsStep ==
  ASSUME LiveInv, NEW t \in Tasks, ReadOpts(t)
  PROVE  Keeps
<1>0. TaskOK(t, pc[t], req[t], myRow[t], myOpt[t], loaded[t])
  BY Zenon DEF LiveInv, TasksOK
<1>1. /\ pc[t] = "opts" /\ UNCHANGED <<dbVars, liveVars, behind>>
      /\ myOpt' = [myOpt EXCEPT ![t] = {settings["resolver"]}]
      /\ Goto(t, req[t], "loadCond")
      /\ UNCHANGED <<myRow, loaded>>
  BY Zenon DEF ReadOpts, ReadSetting
<1>2. Moves(t, "loadCond", req[t], myRow[t], {settings["resolver"]}, loaded[t])
  BY <1>1, SameLocals, Zenon DEF Moves, Goto
<1>3. TaskOK(t, "loadCond", req[t], myRow[t], {settings["resolver"]}, loaded[t])
  <2>1. settings["resolver"] \in Values
    BY DEF LiveInv, DataOK, Settings, Fields
  <2> QED  BY <1>0, <1>1, <2>1, Zenon DEF TaskOK, Labels
<1>4. DataOK'
  BY <1>1, Zenon DEF LiveInv, DataOK, dbVars, liveVars
<1>5. ASSUME Served(pc[t], req[t], myRow[t], myOpt[t], loaded[t]),
             pc'[t] = "loadCond", req'[t] = req[t],
             myRow'[t] = myRow[t], myOpt'[t] = {settings["resolver"]}, loaded'[t] = loaded[t]
      PROVE  Served(pc[t], req[t], myRow[t], myOpt[t], loaded[t])'
  BY <1>1, <1>5, Zenon DEF Served, dbVars, liveVars
<1>6. t \in Workers
  BY <1>1, IsWorker, Zenon DEF LiveInv
<1> QED  BY <1>2, <1>3, <1>4, <1>5, <1>6, TaskServes, Zenon DEF Keeps

\* The store is put in place ...
LEMMA SwapStoreStep ==
  ASSUME LiveInv, NEW t \in Tasks, SwapStore(t)
  PROVE  Keeps
<1>0. TaskOK(t, pc[t], req[t], myRow[t], myOpt[t], loaded[t])
  BY Zenon DEF LiveInv, TasksOK
<1>1. /\ pc[t] = "swapStore" /\ store' \in {c.tables : c \in loaded[t]}
      /\ UNCHANGED <<dbVars, settings, upstream, filter, conditional, cache, behind>>
      /\ Unload(t) /\ Goto(t, req[t], AfterStore(t))
      /\ UNCHANGED <<myRow, myOpt>>
  BY Zenon DEF SwapStore
<1>2. Moves(t, AfterStore(t), IF req[t] = "register_dns" THEN req[t] ELSE "none",
            myRow[t], myOpt[t], {})
  BY <1>0, <1>1, Zenon DEF Moves, Goto, LiveInv, TasksOK, AfterStore, Unload
<1>3. TaskOK(t, AfterStore(t), IF req[t] = "register_dns" THEN req[t] ELSE "none",
             myRow[t], myOpt[t], {})
  BY <1>0, <1>1, Zenon DEF TaskOK, Labels, AllRequests, AfterStore
<1>4. DataOK'
  <2>1. store' \in Values
    BY <1>0, <1>1 DEF TaskOK
  <2> QED  BY <1>1, <2>1, Zenon DEF LiveInv, DataOK, dbVars
<1>5. ASSUME Served(pc[t], req[t], myRow[t], myOpt[t], loaded[t]),
             pc'[t] = AfterStore(t), req'[t] = IF req[t] = "register_dns" THEN req[t] ELSE "none",
             myRow'[t] = myRow[t], myOpt'[t] = myOpt[t], loaded'[t] = {}
      PROVE  Served(pc[t], req[t], myRow[t], myOpt[t], loaded[t])'
  BY <1>0, <1>1, <1>5, Zenon DEF Served, TaskOK, LiveInv, DataOK, dbVars, AfterStore
<1>6. t \in Workers
  BY <1>1, IsWorker, Zenon DEF LiveInv
<1> QED  BY <1>2, <1>3, <1>4, <1>5, <1>6, TaskServes, Zenon DEF Keeps

\* ... the filter ...
LEMMA SwapFilterStep ==
  ASSUME LiveInv, NEW t \in Tasks, SwapFilter(t)
  PROVE  Keeps
<1>0. TaskOK(t, pc[t], req[t], myRow[t], myOpt[t], loaded[t])
  BY Zenon DEF LiveInv, TasksOK
<1>1. /\ pc[t] = "swapFilter" /\ filter' \in loaded[t]
      /\ UNCHANGED <<dbVars, settings, upstream, store, conditional, cache, behind>>
      /\ Unload(t) /\ Goto(t, req[t], AfterFilter(t))
      /\ UNCHANGED <<myRow, myOpt>>
  BY Zenon DEF SwapFilter
<1>2. Moves(t, AfterFilter(t), IF req[t] = "settings" THEN req[t] ELSE "none",
            myRow[t], myOpt[t], {})
  BY <1>0, <1>1, Zenon DEF Moves, Goto, LiveInv, TasksOK, AfterFilter, Unload
<1>3. TaskOK(t, AfterFilter(t), IF req[t] = "settings" THEN req[t] ELSE "none",
             myRow[t], myOpt[t], {})
  BY <1>0, <1>1, Zenon DEF TaskOK, Labels, AllRequests, AfterFilter
<1>4. DataOK'
  <2>1. /\ filter' \in [tables : Values, opt : SUBSET Values]
        /\ \E v \in Values : filter'.opt = {v}
    BY <1>0, <1>1, Zenon DEF TaskOK
  <2>2. filter' \in [tables : Values, opt : {{v} : v \in Values}]
    BY <2>1
  <2> QED  BY <1>1, <2>2, Zenon DEF LiveInv, DataOK, dbVars
<1>5. ASSUME Served(pc[t], req[t], myRow[t], myOpt[t], loaded[t]),
             pc'[t] = AfterFilter(t), req'[t] = IF req[t] = "settings" THEN req[t] ELSE "none",
             myRow'[t] = myRow[t], myOpt'[t] = myOpt[t], loaded'[t] = {}
      PROVE  Served(pc[t], req[t], myRow[t], myOpt[t], loaded[t])'
  BY <1>0, <1>1, <1>5, Zenon DEF Served, TaskOK, LiveInv, DataOK, dbVars, AfterFilter
<1>6. /\ UNCHANGED servedVars
      /\ tables'["store"] = tables["store"] /\ tables'["conditional"] = tables["conditional"]
  BY <1>1, Zenon DEF LiveInv, DataOK, servedVars, dbVars
<1> QED  BY <1>2, <1>3, <1>4, <1>5, <1>6, TaskServes, Zenon DEF Keeps

\* ... and the conditional forwarders.
LEMMA SwapConditionalStep ==
  ASSUME LiveInv, NEW t \in Tasks, SwapConditional(t)
  PROVE  Keeps
<1>0. TaskOK(t, pc[t], req[t], myRow[t], myOpt[t], loaded[t])
  BY Zenon DEF LiveInv, TasksOK
<1>1. /\ pc[t] = "swapCond" /\ conditional' \in loaded[t]
      /\ UNCHANGED <<dbVars, settings, upstream, store, filter, cache, behind>>
      /\ Unload(t) /\ Goto(t, req[t], AfterConditional(t))
      /\ UNCHANGED <<myRow, myOpt>>
  BY Zenon DEF SwapConditional
<1>2. Moves(t, AfterConditional(t), IF req[t] = "settings" THEN req[t] ELSE "none",
            myRow[t], myOpt[t], {})
  BY <1>0, <1>1, Zenon DEF Moves, Goto, LiveInv, TasksOK, AfterConditional, Unload
<1>3. TaskOK(t, AfterConditional(t), IF req[t] = "settings" THEN req[t] ELSE "none",
             myRow[t], myOpt[t], {})
  BY <1>0, <1>1, Zenon DEF TaskOK, Labels, AllRequests, AfterConditional
<1>4. DataOK'
  <2>1. /\ conditional' \in [tables : Values, opt : SUBSET Values]
        /\ \E v \in Values : conditional'.opt = {v}
    BY <1>0, <1>1, Zenon DEF TaskOK
  <2>2. conditional' \in [tables : Values, opt : {{v} : v \in Values}]
    BY <2>1
  <2> QED  BY <1>1, <2>2, Zenon DEF LiveInv, DataOK, dbVars
<1>5. ASSUME Served(pc[t], req[t], myRow[t], myOpt[t], loaded[t]),
             pc'[t] = AfterConditional(t), req'[t] = IF req[t] = "settings" THEN req[t] ELSE "none",
             myRow'[t] = myRow[t], myOpt'[t] = myOpt[t], loaded'[t] = {}
      PROVE  Served(pc[t], req[t], myRow[t], myOpt[t], loaded[t])'
  BY <1>0, <1>1, <1>5, Zenon DEF Served, TaskOK, LiveInv, DataOK, dbVars, AfterConditional
<1>6. t \in Workers
  BY <1>1, IsWorker, Zenon DEF LiveInv
<1> QED  BY <1>2, <1>3, <1>4, <1>5, <1>6, TaskServes, Zenon DEF Keeps

\* A copy is built, of empty tables if they cannot be read.
LEMMA LoadStep ==
  ASSUME LiveInv, NEW t \in Tasks, NEW label, NEW p, NEW next,
         \/ label = "loadStore" /\ p = "store" /\ next = "swapStore"
         \/ label = "loadFilter" /\ p = "filter" /\ next = "swapFilter"
         \/ label = "loadCond" /\ p = "conditional" /\ next = "swapCond",
         Load(t, label, p, next) \/ LoadEmpty(t, label, p, next)
  PROVE  Keeps
<1>0. TaskOK(t, pc[t], req[t], myRow[t], myOpt[t], loaded[t])
  BY Zenon DEF LiveInv, TasksOK
<1>1. PICK c : /\ c \in [tables : Values, opt : SUBSET Values] /\ c.opt = myOpt[t]
               /\ loaded' = [loaded EXCEPT ![t] = {c}]
               /\ \/ c.tables = tables[p] /\ behind' = behind \ {p}
                  \/ behind' = behind \cup ({p} \ {"filter"})
  <2>1. p \in Parts /\ tables[p] \in Values /\ Empty \in Values /\ myOpt[t] \in SUBSET Values
    BY <1>0, ConfigAssumption, Zenon DEF LiveInv, DataOK, Parts, Empty, TaskOK
  <2>2. CASE Load(t, label, p, next)
    <3>1. Copy(p, myOpt[t]) \in [tables : Values, opt : SUBSET Values]
      BY <2>1, Zenon DEF Copy
    <3>2. Copy(p, myOpt[t]).tables = tables[p] /\ Copy(p, myOpt[t]).opt = myOpt[t]
      BY DEF Copy
    <3> QED  BY <2>2, <3>1, <3>2, Zenon DEF Load
  <2>3. CASE LoadEmpty(t, label, p, next)
    <3> DEFINE c == [tables |-> Empty, opt |-> myOpt[t]]
    <3>1. c \in [tables : Values, opt : SUBSET Values] /\ c.opt = myOpt[t]
      BY <2>1
    <3>2. loaded' = [loaded EXCEPT ![t] = {c}] /\ behind' = behind \cup ({p} \ {"filter"})
      BY <2>3, Zenon DEF LoadEmpty
    <3> QED  BY <3>1, <3>2, Zenon
  <2> QED  BY <2>2, <2>3, Zenon
<1>2. /\ pc[t] = label /\ myOpt' = [myOpt EXCEPT ![t] = {}] /\ Goto(t, req[t], next)
      /\ UNCHANGED <<dbVars, liveVars, myRow>>
  BY Zenon DEF Load, LoadEmpty
<1>3. Moves(t, next, req[t], myRow[t], {}, {c})
  <2>1. next # "idle" /\ myRow' = [myRow EXCEPT ![t] = myRow[t]]
    BY <1>2 DEF LiveInv, TasksOK
  <2> QED  BY <1>1, <1>2, <2>1, Zenon DEF Moves, Goto
<1>4. TaskOK(t, next, req[t], myRow[t], {}, {c})
  BY <1>0, <1>1, <1>2, Zenon DEF TaskOK, Labels
<1>5. DataOK'
  <2>1. behind' \subseteq {"store", "conditional", "upstream"}
    BY <1>1, Zenon DEF LiveInv, DataOK
  <2> QED  BY <1>2, <2>1, Zenon DEF LiveInv, DataOK, dbVars, liveVars
<1>6. ASSUME Served(pc[t], req[t], myRow[t], myOpt[t], loaded[t]),
             pc'[t] = next, req'[t] = req[t],
             myRow'[t] = myRow[t], myOpt'[t] = {}, loaded'[t] = {c}
      PROVE  Served(pc[t], req[t], myRow[t], myOpt[t], loaded[t])'
  BY <1>1, <1>2, <1>6, Zenon DEF Served, dbVars, liveVars
<1>7. ASSUME t \notin Workers
      PROVE  /\ UNCHANGED servedVars
             /\ tables'["store"] = tables["store"] /\ tables'["conditional"] = tables["conditional"]
  <2>1. label = "loadFilter"
    BY <1>2, <1>7, IsWorker DEF LiveInv
  <2>2. behind' = behind
    BY <1>1, <2>1 DEF LiveInv, DataOK
  <2> QED  BY <1>2, <2>2, Zenon DEF dbVars, liveVars, servedVars
<1> QED  BY <1>3, <1>4, <1>5, <1>6, <1>7, TaskServes, Zenon DEF Keeps

-----------------------------------------------------------------------------
(* Failures and restarts. *)

\* A write that fails ends the handler; only in the middle of a DynDNS update
\* is there something to reload, and it is left out.
LEMMA FailStep ==
  ASSUME LiveInv, NEW t \in Tasks, NEW label, NEW lost,
         \/ label = "second" /\ lost = {"store"}
         \/ label \in {"secondSame", "ptr", "writeRow"} /\ lost = {},
         Fail(t, label, lost)
  PROVE  Keeps
<1>0. TaskOK(t, pc[t], req[t], myRow[t], myOpt[t], loaded[t])
  BY Zenon DEF LiveInv, TasksOK
<1>1. /\ pc[t] = label /\ behind' = behind \cup lost /\ UNCHANGED <<dbVars, liveVars>>
      /\ Goto(t, req[t], "idle")
      /\ myRow' = [myRow EXCEPT ![t] = {}]
      /\ UNCHANGED <<myOpt, loaded>>
  BY Zenon DEF Fail
<1>2. Moves(t, "idle", "none", {}, myOpt[t], loaded[t])
  BY <1>0, <1>1 DEF Moves, Goto, LiveInv, TasksOK
<1>3. TaskOK(t, "idle", "none", {}, myOpt[t], loaded[t])
  BY <1>0, <1>1, Zenon DEF TaskOK, Labels
<1>4. DataOK'
  <2>1. behind' \subseteq {"store", "conditional", "upstream"}
    BY <1>1, Zenon DEF LiveInv, DataOK
  <2> QED  BY <1>1, <2>1, Zenon DEF LiveInv, DataOK, dbVars, liveVars
<1>5. ASSUME Served(pc[t], req[t], myRow[t], myOpt[t], loaded[t]),
             pc'[t] = "idle", req'[t] = "none",
             myRow'[t] = {}, myOpt'[t] = myOpt[t], loaded'[t] = loaded[t]
      PROVE  Served(pc[t], req[t], myRow[t], myOpt[t], loaded[t])'
  BY <1>0, <1>1, <1>5, Zenon DEF Served, TaskOK, dbVars, liveVars
<1>6. t \in Workers
  BY <1>1, IsWorker DEF LiveInv
<1> QED  BY <1>2, <1>3, <1>4, <1>5, <1>6, TaskServes, Zenon DEF Keeps

\* main builds every copy from the database, or notes that it could not.
LEMMA RestartStep ==
  ASSUME LiveInv, NEW bad \in BadStarts, Restart(bad)
  PROVE  Keeps
<1>1. /\ Loaded(bad) /\ UNCHANGED dbVars
      /\ pc' = [t \in Tasks |-> "idle"] /\ req' = [t \in Tasks |-> "none"]
      /\ myRow' = [t \in Tasks |-> {}] /\ myOpt' = [t \in Tasks |-> {}]
      /\ loaded' = [t \in Tasks |-> {}]
  BY Zenon DEF Restart
<1> DEFINE from(p, O) == IF p \in bad THEN [tables |-> Empty, opt |-> O] ELSE Copy(p, O)
<1>2. /\ tables' = tables /\ row' = row /\ settings' = row
      /\ upstream' = IF "upstream" \in bad THEN {} ELSE {row["resolver"]}
      /\ store' = from("store", {}).tables /\ cache' = row["resolver"]
      /\ filter' = from("filter", {row["blocking"]})
      /\ conditional' = from("conditional", {row["resolver"]})
      /\ behind' = bad \ {"filter"}
  BY <1>1, Zenon DEF Loaded, dbVars
<1>3. /\ tables["store"] \in Values /\ tables["filter"] \in Values
      /\ tables["conditional"] \in Values
      /\ row["resolver"] \in Values /\ row["blocking"] \in Values /\ Empty \in Values
  BY ConfigAssumption DEF LiveInv, DataOK, Parts, Settings, Fields, Empty
<1>9. ASSUME NEW p, NEW O
      PROVE  from(p, O) = [tables |-> IF p \in bad THEN Empty ELSE tables[p], opt |-> O]
  BY Zenon DEF Copy
<1> HIDE DEF from
<1>10. /\ store' = IF "store" \in bad THEN Empty ELSE tables["store"]
       /\ conditional'.tables = IF "conditional" \in bad THEN Empty ELSE tables["conditional"]
       /\ conditional'.opt = {row["resolver"]}
  BY <1>2, <1>9
<1>4. DataOK'
  <2>1. filter' \in [tables : Values, opt : {{v} : v \in Values}]
    <3>1. (IF "filter" \in bad THEN Empty ELSE tables["filter"]) \in Values
      BY <1>3, Zenon
    <3> QED  BY <1>2, <1>3, <1>9, <3>1, Zenon
  <2>2. conditional' \in [tables : Values, opt : {{v} : v \in Values}]
    <3>1. (IF "conditional" \in bad THEN Empty ELSE tables["conditional"]) \in Values
      BY <1>3, Zenon
    <3> QED  BY <1>2, <1>3, <1>9, <3>1, Zenon
  <2>3. upstream' \subseteq Values /\ behind' \subseteq {"store", "conditional", "upstream"}
    BY <1>2, <1>3, ConfigAssumption, Zenon DEF Parts
  <2>4. store' \in Values
    BY <1>3, <1>10, Zenon
  <2> QED  BY <1>2, <1>3, <2>1, <2>2, <2>3, <2>4, Zenon DEF LiveInv, DataOK
<1>5. \A t \in Tasks : /\ pc'[t] = "idle" /\ req'[t] = "none" /\ myRow'[t] = {}
                       /\ myOpt'[t] = {} /\ loaded'[t] = {}
  BY <1>1, Zenon
<1>6. \A t : TaskOK(t, "idle", "none", {}, {}, {})
  BY DEF TaskOK, Labels
<1>7. TasksOK'
  <2>1. /\ pc' \in [Tasks -> Labels] /\ req' \in [Tasks -> AllRequests \cup {"none"}]
    BY <1>1 DEF Labels
  <2>2. /\ myRow' \in [Tasks -> SUBSET Settings] /\ myOpt' \in [Tasks -> SUBSET Values]
        /\ loaded' \in [Tasks -> SUBSET [tables : Values, opt : SUBSET Values]]
    BY <1>1, Zenon
  <2> QED  BY <1>5, <1>6, <2>1, <2>2, Zenon DEF TasksOK
<1>8. Serving'
  <2>1. ASSUME NEW t \in Tasks
        PROVE  Served(pc[t], req[t], myRow[t], myOpt[t], loaded[t])'
    BY <1>2, <1>5, <1>10 DEF Served
  <2> QED  BY <2>1, Zenon DEF Serving, Tasks
<1> QED  BY <1>4, <1>7, <1>8, Zenon DEF Keeps, LiveInv

-----------------------------------------------------------------------------
(* The theorems about LiveConfig. *)

\* main has built every copy when the first request comes.
LEMMA LiveInit == Init => LiveInv /\ Serving
<1> SUFFICES ASSUME Init PROVE LiveInv /\ Serving
  OBVIOUS
<1>1. PICK v \in Values :
        /\ tables = [p \in Parts |-> v] /\ row = [f \in Fields |-> v] /\ settings = row
        /\ upstream = {v} /\ store = v /\ filter = [tables |-> v, opt |-> {v}]
        /\ conditional = filter /\ cache = v
        /\ pc = [t \in Tasks |-> "idle"] /\ req = [t \in Tasks |-> "none"]
        /\ myRow = [t \in Tasks |-> {}] /\ myOpt = [t \in Tasks |-> {}]
        /\ loaded = [t \in Tasks |-> {}] /\ behind = {}
  BY Zenon DEF Init
<1>2. DataOK
  BY <1>1, Zenon DEF DataOK, Settings
<1>3. \A t \in Tasks : /\ pc[t] = "idle" /\ req[t] = "none" /\ myRow[t] = {}
                       /\ myOpt[t] = {} /\ loaded[t] = {}
  BY <1>1, Zenon
<1>4. \A t : TaskOK(t, "idle", "none", {}, {}, {})
  BY DEF TaskOK, Labels
<1>5. TasksOK
  <2>1. /\ pc \in [Tasks -> Labels] /\ req \in [Tasks -> AllRequests \cup {"none"}]
    BY <1>1 DEF Labels
  <2>2. /\ myRow \in [Tasks -> SUBSET Settings] /\ myOpt \in [Tasks -> SUBSET Values]
        /\ loaded \in [Tasks -> SUBSET [tables : Values, opt : SUBSET Values]]
    BY <1>1, Zenon
  <2> QED  BY <1>3, <1>4, <2>1, <2>2, Zenon DEF TasksOK
<1>6. Serving
  <2>1. ASSUME NEW t \in Tasks
        PROVE  Served(pc[t], req[t], myRow[t], myOpt[t], loaded[t])
    BY <1>1, <1>3 DEF Served, Parts, Fields
  <2> QED  BY <2>1, Zenon DEF Serving, Tasks
<1> QED  BY <1>2, <1>5, <1>6, Zenon DEF LiveInv

\* Every step keeps the invariants.
LEMMA LiveStep == ASSUME LiveInv, [Next]_vars PROVE Keeps
<1>1. ASSUME NEW t \in Workers, Request(t) PROVE Keeps
  <2>1. t \in Tasks /\ "store" \in Parts /\ "filter" \in Parts /\ "conditional" \in Parts
    BY <1>1, Zenon DEF Tasks, Parts
  <2>2. \/ \E u \in Updates : PutSettings(t, u)
        \/ \E v \in Values : \/ \E p \in Parts : Edit(t, p, v)
                             \/ DynDnsFirst(t, v) \/ RegisterDns(t, v)
    BY <1>1, <2>1, Zenon DEF Request, ViewEdit, ZoneEdit, ZoneImport, KeyEdit, RecordEdit,
       ListEdit, RuleEdit, RewriteEdit, ForwarderEdit
  <2>3. ASSUME NEW v \in Values, NEW p \in Parts, Edit(t, p, v) PROVE Keeps
    BY <2>1, <2>3, EditStep, Zenon
  <2>4. CASE \E u \in Updates : PutSettings(t, u)
    BY <2>1, <2>4, PutSettingsStep, Zenon
  <2>5. ASSUME NEW v \in Values, DynDnsFirst(t, v) PROVE Keeps
    BY <2>1, <2>5, DynDnsFirstStep, Zenon
  <2>6. ASSUME NEW v \in Values, RegisterDns(t, v) PROVE Keeps
    BY <2>1, <2>6, RegisterDnsStep, Zenon
  <2> QED  BY <2>2, <2>3, <2>4, <2>5, <2>6, Zenon
<1>2. ASSUME NEW t \in Tasks, Step(t) PROVE Keeps
  <2>1. CASE WriteRow(t) \/ ApplySettings(t) \/ BuildUpstream(t) \/ NewCache(t)
    BY <1>2, <2>1, WriteRowStep, ApplySettingsStep, BuildUpstreamStep, NewCacheStep, Zenon
  <2>2. CASE ReadBlocking(t) \/ ReadOpts(t)
    BY <1>2, <2>2, ReadBlockingStep, ReadOptsStep, Zenon
  <2>3. CASE LoadStore(t) \/ LoadFilter(t) \/ LoadConditional(t)
    BY <1>2, <2>3, LoadStep DEF LoadStore, LoadFilter, LoadConditional
  <2>4. CASE SwapStore(t) \/ SwapFilter(t) \/ SwapConditional(t)
    BY <1>2, <2>4, SwapStoreStep, SwapFilterStep, SwapConditionalStep, Zenon
  <2>5. CASE \E v \in Values : DynDnsSecond(t, v) \/ RegisterPtr(t, v) \/ Fetched(t, v)
    BY <1>2, <2>5, DynDnsSecondStep, RegisterPtrStep, FetchedStep, Zenon
  <2> QED  BY <1>2, <2>1, <2>2, <2>3, <2>4, <2>5, Zenon DEF Step
<1>3. ASSUME NEW t \in Tasks, Failure(t) PROVE Keeps
  <2>1. CASE \/ Fail(t, "second", {"store"}) \/ Fail(t, "secondSame", {})
             \/ Fail(t, "ptr", {}) \/ Fail(t, "writeRow", {})
    BY <1>3, <2>1, FailStep
  <2>2. CASE \/ LoadEmpty(t, "loadStore", "store", "swapStore")
             \/ LoadEmpty(t, "loadFilter", "filter", "swapFilter")
             \/ LoadEmpty(t, "loadCond", "conditional", "swapCond")
    BY <1>3, <2>2, LoadStep
  <2> QED  BY <1>3, <2>1, <2>2, Zenon DEF Failure
<1>4. CASE UNCHANGED vars
  <2>1. LiveInv'
    BY <1>4, Zenon DEF vars, LiveInv, DataOK, TasksOK
  <2>2. ASSUME Serving PROVE Serving'
    <3>1. UNCHANGED servedVars /\ UNCHANGED <<tables, pc, req, myRow, myOpt, loaded>>
      BY <1>4, Zenon DEF vars, servedVars
    <3> QED  BY <2>2, <3>1, AutoServes
  <2> QED  BY <2>1, <2>2, Zenon DEF Keeps
<1> QED  BY <1>1, <1>2, <1>3, <1>4, RefreshStep, RestartStep, Zenon DEF Next

\* Whatever the number of workers and whatever fails, the copies are built
\* with one value of their setting and a handler has its locals exactly while
\* it needs them.
THEOREM LiveTyped == Spec => []TypeOK
<1>1. Init => LiveInv
  BY LiveInit
<1>2. LiveInv /\ [Next]_vars => LiveInv'
  BY LiveStep DEF Keeps
<1>3. LiveInv => TypeOK
  <2> SUFFICES ASSUME LiveInv PROVE TypeOK
    OBVIOUS
  <2>1. \A t \in Tasks : /\ myRow[t] # {} <=> req[t] = "settings"
                         /\ loaded[t] # {} <=> pc[t] \in {"swapStore", "swapFilter", "swapCond"}
                         /\ req[t] = "none" <=> pc[t] = "idle"
    BY Zenon DEF LiveInv, TasksOK, TaskOK
  <2> QED  BY <2>1, Zenon DEF TypeOK, LiveInv, DataOK, TasksOK
<1> QED  BY <1>1, <1>2, <1>3, PTL DEF Spec

\* What one worker leaves behind is what is stored.
THEOREM StoredServed == ASSUME OneWorker PROVE Spec => []ServesStored
<1>1. Init => LiveInv /\ Serving
  BY LiveInit
<1>2. LiveInv /\ Serving /\ [Next]_vars => (LiveInv /\ Serving)'
  BY LiveStep DEF Keeps
<1>3. LiveInv /\ Serving => ServesStored
  <2> SUFFICES ASSUME LiveInv, Serving, Quiet
               PROVE  /\ settings = row
                      /\ cache = row["resolver"]
                      /\ upstream = {row["resolver"]} \/ "upstream" \in behind
                      /\ store = tables["store"] \/ "store" \in behind
                      /\ conditional.tables = tables["conditional"] \/ "conditional" \in behind
                      /\ conditional.opt = {row["resolver"]}
    BY Zenon DEF ServesStored
  <2>1. PICK w \in Workers : TRUE
    BY Zenon DEF OneWorker
  <2>2. pc[w] = "idle" /\ req[w] = "none"
    <3>1. pc[w] = "idle" /\ w \in Tasks /\ TasksOK
      BY Zenon DEF Quiet, Tasks, LiveInv
    <3> QED  BY <3>1, IdleTask
  <2>3. Served("idle", "none", myRow[w], myOpt[w], loaded[w])
    BY <2>2, Zenon DEF Serving
  <2> QED  BY <2>3 DEF Served
<1> QED  BY <1>1, <1>2, <1>3, PTL DEF Spec

=============================================================================
