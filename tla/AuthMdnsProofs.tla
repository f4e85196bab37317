--------------------------- MODULE AuthMdnsProofs ---------------------------
(***************************************************************************)
(* Proofs about the two components that keep tables of strangers in        *)
(* memory.  Auth: the sessions and the failed attempts to log in, for any  *)
(* number of requests at a time, passwords and sessions, and every session *)
(* length, lockout window and threshold.  Mdns: the registry of the hosts  *)
(* that announced themselves, for any hosts, names and addresses.          *)
(***************************************************************************)
EXTENDS Auth, Mdns, FiniteSetTheorems, TLAPS

-----------------------------------------------------------------------------
(* Auth. *)

Pcs == {"idle", "lookup", "judge", "session", "delete", "change", "set"}

Requests == [pc : Pcs, given : SUBSET Passwords, row : SUBSET Passwords,
             token : SUBSET Tokens]

TypeInv ==
  /\ users \subseteq [id : Nat, password : Passwords]
  /\ sessions \in [Tokens -> SUBSET Int]
  /\ failures \subseteq [count : Nat, age : Nat]
  /\ req \in [Workers -> Requests]
  /\ current \in [Workers -> SUBSET Passwords]

\* What each request carries from one of its steps to the next.
RequestInv ==
  \A w \in Workers :
    /\ req[w].pc \in {"lookup", "judge", "session", "set"} => req[w].given # {}
    /\ req[w].pc = "delete" => \E t \in Tokens : req[w] = Request("delete", {}, {}, {t})

\* There is no session, and no request that needs one or is about to open
\* one, before there is an account.
AccountInv ==
  /\ \A u, v \in users : u = v
  /\ users = {} =>
       /\ \A t \in Tokens : sessions[t] = {}
       /\ \A w \in Workers : /\ req[w].pc \in {"idle", "lookup", "judge"}
                             /\ req[w].pc = "judge" => req[w].row = {}

\* A login has seen the password stored now, and the row it read.
SeenInv ==
  \A w \in Workers :
    /\ req[w].pc \in Login => Stored \subseteq current[w]
    /\ req[w].pc = "judge" => req[w].row \subseteq current[w]
    /\ req[w].pc = "session" => req[w].given \subseteq current[w]

\* The attempts that the throttle let through and has not counted yet.
Judging == {w \in Workers : req[w].pc \in {"lookup", "judge"}}

\* The bound leaves room for each of them to fail.
ThrottleInv ==
  \A f \in failures : f.count + Cardinality(Judging) < Threshold + Cardinality(Workers)

AuthInv == TypeInv /\ RequestInv /\ AccountInv /\ SeenInv /\ ThrottleInv

-----------------------------------------------------------------------------
(* Counting the attempts under way. *)

\* The number of attempts under way is at most the number of requests.
LEMMA JudgingBound ==
  /\ IsFiniteSet(Judging) /\ Cardinality(Judging) \in Nat
  /\ Cardinality(Workers) \in Nat /\ Cardinality(Judging) <= Cardinality(Workers)
<1>1. Judging \subseteq Workers
  BY Zenon DEF Judging
<1> QED  BY <1>1, AuthAssumption, FS_Subset, FS_CardinalityType, Zenon

\* It is no larger once some have been judged, and at least one smaller when
\* one of them was.
LEMMA JudgingShrinks ==
  ASSUME Judging' \subseteq Judging
  PROVE  /\ Cardinality(Judging') \in Nat
         /\ Cardinality(Judging') <= Cardinality(Judging)
         /\ \A w \in Judging \ Judging' : Cardinality(Judging') < Cardinality(Judging)
<1>1. /\ IsFiniteSet(Judging) /\ Cardinality(Judging) \in Nat
  BY JudgingBound, Zenon
<1>2. /\ IsFiniteSet(Judging') /\ Cardinality(Judging') \in Nat
      /\ Cardinality(Judging') <= Cardinality(Judging)
  BY <1>1, FS_Subset, FS_CardinalityType, Zenon
<1>3. ASSUME NEW w \in Judging \ Judging'
      PROVE  Cardinality(Judging') < Cardinality(Judging)
  <2>1. /\ IsFiniteSet(Judging \ {w})
        /\ Cardinality(Judging \ {w}) = Cardinality(Judging) - 1
    BY <1>1, FS_RemoveElement, Zenon
  <2>2. Judging' \subseteq Judging \ {w}
    OBVIOUS
  <2>3. Cardinality(Judging') <= Cardinality(Judging \ {w})
    BY <2>1, <2>2, FS_Subset, Zenon
  <2> QED  BY <1>1, <1>2, <2>1, <2>3
<1> QED  BY <1>2, <1>3, Zenon

\* As long as no failure is added, attempts may end.
LEMMA ThrottleKept ==
  ASSUME TypeInv, ThrottleInv, Judging' \subseteq Judging,
         \A g \in failures' : \E f \in failures : g.count = f.count
  PROVE  ThrottleInv'
<1>1. /\ Cardinality(Judging) \in Nat /\ Cardinality(Workers) \in Nat
      /\ Cardinality(Judging') \in Nat /\ Cardinality(Judging') <= Cardinality(Judging)
  BY JudgingBound, JudgingShrinks, Zenon
<1> SUFFICES ASSUME NEW g \in failures'
             PROVE  g.count + Cardinality(Judging') < Threshold + Cardinality(Workers)
  BY Zenon DEF ThrottleInv
<1>2. PICK f \in failures : g.count = f.count
  OBVIOUS
<1>3. f.count \in Nat /\ f.count + Cardinality(Judging) < Threshold + Cardinality(Workers)
  BY Zenon DEF TypeInv, ThrottleInv
<1> QED  BY <1>1, <1>2, <1>3, AuthAssumption

-----------------------------------------------------------------------------
(* The invariant. *)

\* The server starts without an account.
LEMMA AuthInit == Init => AuthInv
<1> SUFFICES ASSUME Init PROVE AuthInv
  OBVIOUS
<1>1. TypeInv
  BY Zenon DEF Init, TypeInv, Requests, Pcs, Idle, Request
<1>2. RequestInv /\ SeenInv
  BY Zenon DEF Init, RequestInv, SeenInv, Login, Idle, Request
<1>3. AccountInv
  BY Zenon DEF Init, AccountInv, Idle, Request
<1>4. ThrottleInv
  BY Zenon DEF Init, ThrottleInv
<1> QED  BY <1>1, <1>2, <1>3, <1>4, Zenon DEF AuthInv

\* A step that writes neither the account nor the throttle, and ends or
\* starts no attempt to log in: what is left to see is the request itself.
LEMMA OwnRequest ==
  ASSUME AuthInv, NEW w \in Workers, NEW r \in Requests, Goto(w, r),
         users' = users, failures' = failures,
         sessions' \in [Tokens -> SUBSET Int], users = {} => sessions' = sessions,
         current' \in [Workers -> SUBSET Passwords],
         \A v \in Workers \ {w} : current'[v] = current[v],
         r.pc \notin Login \cup {"set"},
         r.pc = "delete" => \E t \in Tokens : r = Request("delete", {}, {}, {t}),
         users = {} => r.pc = "idle"
  PROVE  AuthInv'
<1>1. \A v \in Workers : req'[v] = IF v = w THEN r ELSE req[v]
  BY Zenon DEF Goto, AuthInv, TypeInv
<1>2. TypeInv'
  BY Zenon DEF Goto, AuthInv, TypeInv
<1>3. RequestInv'
  BY <1>1, Zenon DEF AuthInv, RequestInv, Login
<1>4. AccountInv'
  BY <1>1, Zenon DEF AuthInv, AccountInv, Login
<1>5. SeenInv'
  BY <1>1, Zenon DEF AuthInv, SeenInv, Login, Stored
<1>6. Judging' \subseteq Judging
  BY <1>1, Zenon DEF Judging, Login
<1>7. ThrottleInv'
  BY <1>6, ThrottleKept, Zenon DEF AuthInv
<1> QED  BY <1>2, <1>3, <1>4, <1>5, <1>7, Zenon DEF AuthInv

\* setup makes the only account, in the step that finds none.
LEMMA SetupInv ==
  ASSUME AuthInv, NEW w \in Workers, NEW p \in Passwords, Setup(w, p)
  PROVE  AuthInv'
<1> DEFINE r == Request("session", {p}, {p}, {})
<1>1. r \in Requests /\ r.pc = "session" /\ r.given = {p}
  BY Zenon DEF Request, Requests, Pcs
<1>2. /\ users = {} /\ req[w].pc = "idle" /\ req' = [req EXCEPT ![w] = r]
      /\ current' = [Saw(p) EXCEPT ![w] = {p}]
      /\ UNCHANGED <<sessions, failures>>
  BY Zenon DEF Setup, Goto, At
<1>3. users' = {[id |-> 1, password |-> p]}
  BY FS_EmptySet DEF Setup, CreateUser
<1> HIDE DEF r
<1>4. \A v \in Workers : req'[v] = IF v = w THEN r ELSE req[v]
  BY <1>2, Zenon DEF AuthInv, TypeInv
<1>5. \A v \in Workers : current'[v] = IF v = w THEN {p}
                                       ELSE IF req[v].pc \in Login THEN current[v] \cup {p} ELSE {}
  BY <1>2, Zenon DEF Saw
<1>6. TypeInv'
  <2>1. current' \in [Workers -> SUBSET Passwords]
    BY <1>2, <1>5, Zenon DEF Saw, AuthInv, TypeInv
  <2> QED  BY <1>1, <1>2, <1>3, <2>1 DEF AuthInv, TypeInv
<1>7. RequestInv'
  BY <1>1, <1>4, Zenon DEF AuthInv, RequestInv
<1>8. AccountInv'
  BY <1>3, Zenon DEF AccountInv
<1>9. SeenInv'
  <2>1. Stored' = {p}
    BY <1>3 DEF Stored
  <2> QED  BY <1>1, <1>4, <1>5, <2>1, Zenon DEF AuthInv, SeenInv, Login
<1>10. Judging' \subseteq Judging
  BY <1>1, <1>4, Zenon DEF Judging
<1>11. ThrottleInv'
  BY <1>2, <1>10, ThrottleKept, Zenon DEF AuthInv
<1> QED  BY <1>6, <1>7, <1>8, <1>9, <1>11, Zenon DEF AuthInv

\* login passes the throttle only below the threshold, which leaves room for
\* every request there can be at a time.
LEMMA LoginBeginInv ==
  ASSUME AuthInv, NEW w \in Workers, NEW p \in Passwords, LoginBegin(w, p)
  PROVE  AuthInv'
<1> DEFINE r == Request("lookup", {p}, {}, {})
<1>1. r \in Requests /\ r.pc = "lookup" /\ r.given = {p}
  BY Zenon DEF Request, Requests, Pcs
<1>2. /\ ~Locked /\ failures' = Forget /\ req' = [req EXCEPT ![w] = r]
      /\ current' = [current EXCEPT ![w] = Stored]
      /\ UNCHANGED <<users, sessions>>
  BY Zenon DEF LoginBegin, Goto
<1> HIDE DEF r
<1>3. \A v \in Workers : /\ req'[v] = IF v = w THEN r ELSE req[v]
                         /\ current'[v] = IF v = w THEN Stored ELSE current[v]
  BY <1>2, Zenon DEF AuthInv, TypeInv
<1>4. Stored \subseteq Passwords /\ Stored' = Stored
  BY <1>2, Zenon DEF Stored, AuthInv, TypeInv
<1>5. TypeInv'
  BY <1>1, <1>2, <1>4, Zenon DEF AuthInv, TypeInv, Forget
<1>6. RequestInv'
  BY <1>1, <1>3, Zenon DEF AuthInv, RequestInv
<1>7. AccountInv'
  BY <1>1, <1>2, <1>3 DEF AuthInv, AccountInv
<1>8. SeenInv'
  BY <1>1, <1>3, <1>4, Zenon DEF AuthInv, SeenInv
<1>9. ThrottleInv'
  <2>1. \A f \in failures' : f.count \in Nat /\ f.count < Threshold
    BY <1>2, AuthAssumption DEF Locked, Forget, AuthInv, TypeInv
  <2>2. /\ Cardinality(Judging') \in Nat /\ Cardinality(Workers) \in Nat
        /\ Cardinality(Judging') <= Cardinality(Workers)
    <3>1. Judging' \subseteq Workers
      BY Zenon DEF Judging
    <3> QED  BY <3>1, AuthAssumption, FS_Subset, FS_CardinalityType, Zenon
  <2> QED  BY <2>1, <2>2, AuthAssumption DEF ThrottleInv
<1> QED  BY <1>5, <1>6, <1>7, <1>8, <1>9, Zenon DEF AuthInv

\* The row read is a password the login has seen.
LEMMA LoginLookupInv ==
  ASSUME AuthInv, NEW w \in Workers, LoginLookup(w)
  PROVE  AuthInv'
<1> DEFINE r == Request("judge", req[w].given, Stored, {})
<1>1. Stored \subseteq Passwords /\ (users = {} => Stored = {})
  BY Zenon DEF Stored, AuthInv, TypeInv
<1>2. r \in Requests /\ r.pc = "judge" /\ r.given = req[w].given /\ r.row = Stored
  BY <1>1, Zenon DEF Request, Requests, Pcs, AuthInv, TypeInv
<1>3. /\ req[w].pc = "lookup" /\ req' = [req EXCEPT ![w] = r]
      /\ UNCHANGED <<users, sessions, failures, current>>
  BY Zenon DEF LoginLookup, Goto, At
<1> HIDE DEF r
<1>4. \A v \in Workers : req'[v] = IF v = w THEN r ELSE req[v]
  BY <1>3, Zenon DEF AuthInv, TypeInv
<1>5. TypeInv'
  BY <1>2, <1>3, Zenon DEF AuthInv, TypeInv
<1>6. RequestInv'
  BY <1>2, <1>3, <1>4, Zenon DEF AuthInv, RequestInv
<1>7. AccountInv'
  BY <1>1, <1>2, <1>3, <1>4 DEF AuthInv, AccountInv
<1>8. SeenInv'
  <2>1. Stored' = Stored
    BY <1>3, Zenon DEF Stored
  <2> QED  BY <1>2, <1>3, <1>4, <2>1 DEF AuthInv, SeenInv, Login
<1>9. Judging' \subseteq Judging
  BY <1>3, <1>4, Zenon DEF Judging
<1>10. ThrottleInv'
  BY <1>3, <1>9, ThrottleKept, Zenon DEF AuthInv
<1> QED  BY <1>5, <1>6, <1>7, <1>8, <1>10, Zenon DEF AuthInv

\* A login that is let in gave the password of the row it read; one that is
\* turned away is counted, and no longer under way.
LEMMA LoginJudgeInv ==
  ASSUME AuthInv, NEW w \in Workers, LoginJudge(w)
  PROVE  AuthInv'
<1>0. req[w].pc = "judge" /\ UNCHANGED <<users, sessions>> /\ Stored' = Stored
  BY Zenon DEF LoginJudge, At, Stored
<1>1. CASE req[w].given = req[w].row
  <2> DEFINE r == Request("session", req[w].given, req[w].row, {})
  <2>1. r \in Requests /\ r.pc = "session" /\ r.given = req[w].given
    BY Zenon DEF Request, Requests, Pcs, AuthInv, TypeInv
  <2>2. failures' = {} /\ req' = [req EXCEPT ![w] = r] /\ current' = current
    BY <1>1, Zenon DEF LoginJudge, Goto, VerifyPassword
  <2> HIDE DEF r
  <2>3. \A v \in Workers : req'[v] = IF v = w THEN r ELSE req[v]
    BY <2>2, Zenon DEF AuthInv, TypeInv
  <2>4. TypeInv'
    BY <1>0, <2>1, <2>2, Zenon DEF AuthInv, TypeInv
  <2>5. RequestInv'
    BY <1>0, <2>1, <2>3, Zenon DEF AuthInv, RequestInv
  <2>6. users # {}
    BY <1>0, <1>1, Zenon DEF AuthInv, RequestInv, AccountInv
  <2>7. AccountInv'
    BY <1>0, <2>6, Zenon DEF AuthInv, AccountInv
  <2>8. SeenInv'
    BY <1>0, <1>1, <2>1, <2>2, <2>3 DEF AuthInv, SeenInv, Login
  <2>9. ThrottleInv'
    BY <2>2, Zenon DEF ThrottleInv
  <2> QED  BY <2>4, <2>5, <2>7, <2>8, <2>9, Zenon DEF AuthInv
<1>2. CASE req[w].given # req[w].row
  <2>1. Idle \in Requests /\ Idle.pc = "idle"
    BY Zenon DEF Idle, Request, Requests, Pcs
  <2>2. /\ RecordLoginFailure /\ req' = [req EXCEPT ![w] = Idle]
        /\ current' = [current EXCEPT ![w] = {}]
    BY <1>2, Zenon DEF LoginJudge, Goto, VerifyPassword
  <2>3. \A v \in Workers : /\ req'[v] = IF v = w THEN Idle ELSE req[v]
                           /\ v # w => current'[v] = current[v]
    BY <2>2, Zenon DEF AuthInv, TypeInv
  <2>4. \A g \in failures' : \/ g = [count |-> 1, age |-> 0]
                             \/ \E f \in failures : g = [count |-> f.count + 1, age |-> 0]
    BY <2>2, Zenon DEF RecordLoginFailure, Forget
  <2>5. TypeInv'
    <3>1. failures' \subseteq [count : Nat, age : Nat]
      BY <2>4 DEF AuthInv, TypeInv
    <3> QED  BY <1>0, <2>1, <2>2, <3>1, Zenon DEF AuthInv, TypeInv
  <2>6. RequestInv'
    BY <2>1, <2>3, Zenon DEF AuthInv, RequestInv
  <2>7. AccountInv'
    BY <1>0, <2>1, <2>3, Zenon DEF AuthInv, AccountInv
  <2>8. SeenInv'
    BY <1>0, <2>1, <2>3, Zenon DEF AuthInv, SeenInv, Login
  <2>9. ThrottleInv'
    <3>1. Judging' \subseteq Judging /\ w \in Judging \ Judging'
      BY <1>0, <2>1, <2>3, Zenon DEF Judging
    <3>2. /\ Cardinality(Judging') \in Nat /\ Cardinality(Judging) \in Nat
          /\ Cardinality(Workers) \in Nat
          /\ Cardinality(Judging') < Cardinality(Judging)
          /\ Cardinality(Judging) <= Cardinality(Workers)
      BY <3>1, JudgingBound, JudgingShrinks, Zenon
    <3>3. ASSUME NEW g \in failures'
          PROVE  g.count + Cardinality(Judging') < Threshold + Cardinality(Workers)
      <4>1. CASE g = [count |-> 1, age |-> 0]
        BY <3>2, <4>1, AuthAssumption
      <4>2. ASSUME NEW f \in failures, g = [count |-> f.count + 1, age |-> 0]
            PROVE  g.count + Cardinality(Judging') < Threshold + Cardinality(Workers)
        <5>1. f.count \in Nat /\ g.count = f.count + 1
          BY <4>2, Zenon DEF AuthInv, TypeInv
        <5>2. f.count + Cardinality(Judging) < Threshold + Cardinality(Workers)
          BY Zenon DEF AuthInv, ThrottleInv
        <5> QED  BY <3>2, <5>1, <5>2, AuthAssumption
      <4> QED  BY <2>4, <4>1, <4>2, Zenon
    <3> QED  BY <3>3, Zenon DEF ThrottleInv
  <2> QED  BY <2>5, <2>6, <2>7, <2>8, <2>9, Zenon DEF AuthInv
<1> QED  BY <1>1, <1>2, Zenon

\* start_session, resolve_session and delete_session leave the account alone,
\* and need one.
LEMMA SessionInv ==
  ASSUME AuthInv, NEW w \in Workers,
         \/ StartSession(w) \/ DeleteSession(w)
         \/ \E t \in Tokens, op \in {"delete", "change"} : ResolveSession(w, t, op)
  PROVE  AuthInv'
<1>0. Idle \in Requests /\ Idle.pc = "idle"
  BY Zenon DEF Idle, Request, Requests, Pcs
<1>1. CASE StartSession(w)
  <2>1. /\ req[w].pc = "session" /\ Goto(w, Idle) /\ users' = users /\ failures' = failures
        /\ current' \in [Workers -> SUBSET Passwords]
        /\ \A v \in Workers \ {w} : current'[v] = current[v]
    BY <1>1, Zenon DEF StartSession, At, AuthInv, TypeInv
  <2>2. sessions' \in [Tokens -> SUBSET Int]
    BY <1>1, AuthAssumption DEF StartSession, CreateSession, AuthInv, TypeInv
  <2>3. users # {}
    BY <2>1, Zenon DEF AuthInv, AccountInv
  <2> QED  BY <1>0, <2>1, <2>2, <2>3, OwnRequest, Zenon DEF Login
<1>2. CASE DeleteSession(w)
  <2>1. /\ req[w].pc = "delete" /\ Goto(w, Idle)
        /\ users' = users /\ failures' = failures /\ current' = current
        /\ current' \in [Workers -> SUBSET Passwords]
        /\ sessions' = [t \in Tokens |-> IF t \in req[w].token THEN {} ELSE sessions[t]]
    BY <1>2, Zenon DEF DeleteSession, At, AuthInv, TypeInv
  <2>2. sessions' \in [Tokens -> SUBSET Int]
    BY <2>1, Zenon DEF AuthInv, TypeInv
  <2>3. users # {}
    BY <2>1, Zenon DEF AuthInv, AccountInv
  <2> QED  BY <1>0, <2>1, <2>2, <2>3, OwnRequest, Zenon DEF Login
<1>3. ASSUME NEW t \in Tokens, NEW op \in {"delete", "change"}, ResolveSession(w, t, op)
      PROVE  AuthInv'
  <2>1. PICK left \in sessions[t] :
          Goto(w, Request(IF left < 0 THEN "delete" ELSE op, {}, {}, {t}))
    BY <1>3, Zenon DEF ResolveSession, SessionRow
  <2>2. PICK pc \in {"delete", "change"} : Goto(w, Request(pc, {}, {}, {t}))
    BY <2>1, Zenon
  <2>3. /\ Request(pc, {}, {}, {t}) \in Requests /\ Request(pc, {}, {}, {t}).pc = pc
    BY Zenon DEF Request, Requests, Pcs
  <2>4. /\ users' = users /\ sessions' = sessions /\ failures' = failures
        /\ current' = current /\ current' \in [Workers -> SUBSET Passwords]
    BY <1>3, Zenon DEF ResolveSession, AuthInv, TypeInv
  <2>5. users # {} /\ sessions' \in [Tokens -> SUBSET Int]
    BY <2>1, <2>4, Zenon DEF AuthInv, AccountInv, TypeInv
  <2> QED  BY <2>2, <2>3, <2>4, <2>5, OwnRequest, Zenon DEF Login
<1> QED  BY <1>1, <1>2, <1>3, Zenon

\* A request that may set the password needs an account, and carries the new
\* password.
LEMMA ChangePasswordCheckInv ==
  ASSUME AuthInv, NEW w \in Workers, NEW old \in Passwords, NEW new \in Passwords,
         ChangePasswordCheck(w, old, new)
  PROVE  AuthInv'
<1>0. /\ req[w].pc = "change" /\ users' = users /\ sessions' = sessions
      /\ failures' = failures /\ current' = current
      /\ sessions' \in [Tokens -> SUBSET Int] /\ current' \in [Workers -> SUBSET Passwords]
  BY Zenon DEF ChangePasswordCheck, At, AuthInv, TypeInv
<1>1. CASE Goto(w, Idle)
  <2>1. Idle \in Requests /\ Idle.pc = "idle"
    BY Zenon DEF Idle, Request, Requests, Pcs
  <2> QED  BY <1>0, <1>1, <2>1, OwnRequest, Zenon DEF Login
<1>2. CASE Goto(w, Request("set", {new}, Stored, req[w].token))
  <2> DEFINE r == Request("set", {new}, Stored, req[w].token)
  <2>1. Stored \subseteq Passwords /\ Stored' = Stored
    BY <1>0, Zenon DEF Stored, AuthInv, TypeInv
  <2>2. r \in Requests /\ r.pc = "set" /\ r.given = {new}
    BY <2>1, Zenon DEF Request, Requests, Pcs, AuthInv, TypeInv
  <2>3. req' = [req EXCEPT ![w] = r]
    BY <1>2, Zenon DEF Goto
  <2> HIDE DEF r
  <2>4. \A v \in Workers : req'[v] = IF v = w THEN r ELSE req[v]
    BY <2>3, Zenon DEF AuthInv, TypeInv
  <2>5. TypeInv'
    BY <1>0, <2>2, <2>3, Zenon DEF AuthInv, TypeInv
  <2>6. RequestInv'
    BY <2>2, <2>4, Zenon DEF AuthInv, RequestInv
  <2>7. AccountInv'
    BY <1>0, Zenon DEF AuthInv, AccountInv
  <2>8. SeenInv'
    BY <1>0, <2>1, <2>2, <2>4, Zenon DEF AuthInv, SeenInv, Login
  <2>9. Judging' \subseteq Judging
    BY <2>2, <2>4, Zenon DEF Judging
  <2>10. ThrottleInv'
    BY <1>0, <2>9, ThrottleKept, Zenon DEF AuthInv
  <2> QED  BY <2>5, <2>6, <2>7, <2>8, <2>10, Zenon DEF AuthInv
<1> QED  BY <1>1, <1>2, Zenon DEF ChangePasswordCheck

\* Every login under way sees a new password.
LEMMA SetPasswordInv ==
  ASSUME AuthInv, NEW w \in Workers, SetPassword(w)
  PROVE  AuthInv'
<1>1. PICK p \in req[w].given :
        /\ users' = {[id |-> u.id, password |-> p] : u \in users}
        /\ current' = Saw(p)
  BY Zenon DEF SetPassword
<1>2. /\ req[w].pc = "set" /\ req' = [req EXCEPT ![w] = Idle]
      /\ UNCHANGED <<sessions, failures>>
  BY Zenon DEF SetPassword, At, Goto
<1>3. Idle \in Requests /\ Idle.pc = "idle" /\ p \in Passwords
  BY Zenon DEF Idle, Request, Requests, Pcs, AuthInv, TypeInv
<1>4. \A v \in Workers : req'[v] = IF v = w THEN Idle ELSE req[v]
  BY <1>2, Zenon DEF AuthInv, TypeInv
<1>5. \A v \in Workers : current'[v] = IF req[v].pc \in Login THEN current[v] \cup {p} ELSE {}
  BY <1>1, Zenon DEF Saw
<1>6. TypeInv'
  <2>1. current' \in [Workers -> SUBSET Passwords]
    BY <1>1, <1>3, Zenon DEF Saw, AuthInv, TypeInv
  <2>2. users' \subseteq [id : Nat, password : Passwords]
    BY <1>1, <1>3 DEF AuthInv, TypeInv
  <2> QED  BY <1>2, <1>3, <2>1, <2>2, Zenon DEF AuthInv, TypeInv
<1>7. RequestInv'
  BY <1>3, <1>4, Zenon DEF AuthInv, RequestInv
<1>8. AccountInv'
  <2>1. users # {} /\ \A u, v \in users : u = v
    BY <1>2, Zenon DEF AuthInv, AccountInv
  <2>2. users' # {} /\ \A u, v \in users' : u = v
    BY <1>1, <2>1, Zenon
  <2> QED  BY <2>2, Zenon DEF AccountInv
<1>9. SeenInv'
  <2>1. Stored' \subseteq {p}
    BY <1>1 DEF Stored
  <2> QED  BY <1>3, <1>4, <1>5, <2>1, Zenon DEF AuthInv, SeenInv, Login
<1>10. Judging' \subseteq Judging
  BY <1>3, <1>4, Zenon DEF Judging
<1>11. ThrottleInv'
  BY <1>2, <1>10, ThrottleKept, Zenon DEF AuthInv
<1> QED  BY <1>6, <1>7, <1>8, <1>9, <1>11, Zenon DEF AuthInv

\* The purge and the passing of time remove or age what is there: they make
\* no session, and count no failure.
LEMMA TimeInv ==
  ASSUME AuthInv, PruneSessions \/ Tick
  PROVE  AuthInv'
<1>1. users' = users /\ req' = req /\ current' = current
  BY Zenon DEF PruneSessions, Tick
<1>2. /\ sessions' \in [Tokens -> SUBSET Int]
      /\ \A t \in Tokens : sessions[t] = {} => sessions'[t] = {}
  BY DEF PruneSessions, Tick, AuthInv, TypeInv
<1>3. \A g \in failures' : /\ g \in [count : Nat, age : Nat]
                           /\ \E f \in failures : g.count = f.count
  <2>1. CASE PruneSessions
    BY <2>1, Zenon DEF PruneSessions, AuthInv, TypeInv
  <2>2. CASE Tick
    <3>1. \A f \in failures : f.count \in Nat /\ f.age \in Nat
      BY Zenon DEF AuthInv, TypeInv
    <3> QED  BY <2>2, <3>1 DEF Tick
  <2> QED  BY <2>1, <2>2, Zenon
<1>4. TypeInv'
  BY <1>1, <1>2, <1>3, Zenon DEF AuthInv, TypeInv
<1>5. RequestInv' /\ SeenInv'
  BY <1>1, Zenon DEF AuthInv, RequestInv, SeenInv, Stored
<1>6. AccountInv'
  BY <1>1, <1>2, Zenon DEF AuthInv, AccountInv
<1>7. Judging' \subseteq Judging
  BY <1>1, Zenon DEF Judging
<1>8. ThrottleInv'
  BY <1>3, <1>7, ThrottleKept, Zenon DEF AuthInv
<1> QED  BY <1>4, <1>5, <1>6, <1>8, Zenon DEF AuthInv

\* Every step keeps the invariant.
LEMMA AuthStep == AuthInv /\ [Next]_vars => AuthInv'
<1> SUFFICES ASSUME AuthInv, [Next]_vars PROVE AuthInv'
  OBVIOUS
<1>1. ASSUME NEW w \in Workers, Step(w)
      PROVE  AuthInv'
  BY <1>1, LoginLookupInv, LoginJudgeInv, SessionInv, ChangePasswordCheckInv, SetPasswordInv, Zenon
  DEF Step
<1>2. ASSUME NEW w \in Workers, NEW p \in Passwords, Setup(w, p) \/ LoginBegin(w, p)
      PROVE  AuthInv'
  BY <1>2, SetupInv, LoginBeginInv, Zenon
<1>3. ASSUME NEW w \in Workers, NEW t \in Tokens, NEW op \in {"delete", "change"},
             ResolveSession(w, t, op)
      PROVE  AuthInv'
  BY <1>3, SessionInv, Zenon
<1>4. CASE PruneSessions \/ Tick
  BY <1>4, TimeInv, Zenon
<1>5. CASE UNCHANGED vars
  <2>1. TypeInv' /\ RequestInv' /\ AccountInv' /\ SeenInv'
    BY <1>5, Zenon DEF vars, AuthInv, TypeInv, RequestInv, AccountInv, SeenInv, Stored
  <2>2. ThrottleInv'
    BY <1>5, Zenon DEF vars, AuthInv, ThrottleInv, Judging
  <2> QED  BY <2>1, <2>2, Zenon DEF AuthInv
<1> QED  BY <1>1, <1>2, <1>3, <1>4, <1>5, Zenon DEF Next

\* The invariant holds throughout.
THEOREM AuthInvariance == Spec => []AuthInv
BY AuthInit, AuthStep, PTL DEF Spec

-----------------------------------------------------------------------------
(* What it implies. *)

\* However many setups race, there is one account at most, and no session
\* before there is one: setup counts and inserts under one lock.
THEOREM OneAccount == Spec => []OneAdmin
<1>1. AuthInv => OneAdmin
  <2> SUFFICES ASSUME AuthInv PROVE Cardinality(users) <= 1
    BY Zenon DEF OneAdmin, AuthInv, AccountInv
  <2>1. CASE users = {}
    BY <2>1, FS_EmptySet
  <2>2. ASSUME NEW u \in users
        PROVE  Cardinality(users) <= 1
    <3>1. users = {u}
      BY Zenon DEF AuthInv, AccountInv
    <3>2. Cardinality({u}) = 1
      BY FS_Singleton, Zenon
    <3> QED  BY <3>1, <3>2
  <2> QED  BY <2>1, <2>2, Zenon
<1> QED  BY <1>1, AuthInvariance, PTL

\* The throttle of login overshoots by fewer failures than there are
\* requests at a time.
THEOREM ThrottleBounded == Spec => []ThrottleBound
<1>1. AuthInv => ThrottleBound
  <2> SUFFICES ASSUME AuthInv, NEW f \in failures
               PROVE  f.count < Threshold + Cardinality(Workers)
    BY Zenon DEF ThrottleBound
  <2>1. f.count \in Nat /\ f.count + Cardinality(Judging) < Threshold + Cardinality(Workers)
    BY Zenon DEF AuthInv, TypeInv, ThrottleInv
  <2> QED  BY <2>1, JudgingBound, AuthAssumption
<1> QED  BY <1>1, AuthInvariance, PTL

\* A login that opens a session gave a password that was the account's while
\* the login was under way, whatever change_password did meanwhile.
THEOREM LoginsLinear == Spec => []LoginLinear
<1>1. AuthInv => LoginLinear
  BY Zenon DEF AuthInv, SeenInv, LoginLinear, At
<1> QED  BY <1>1, AuthInvariance, PTL

\* Only logout, with the session's own cookie, takes away a session that has
\* time left.
THEOREM SessionsKept == Spec => SessionKept
<1> DEFINE Kept == \A t \in Tokens :
                     (\E left \in sessions[t] : left >= 0) /\ sessions'[t] = {} =>
                       \E w \in Workers : req[w] = Request("delete", {}, {}, {t})
<1>1. ASSUME AuthInv, [Next]_vars
      PROVE  [Kept]_vars
  <2> SUFFICES ASSUME NEW t \in Tokens, NEW left \in sessions[t], left >= 0,
                      sessions'[t] = {}
               PROVE  \E w \in Workers : req[w] = Request("delete", {}, {}, {t})
    OBVIOUS
  <2>1. ASSUME NEW w \in Workers, DeleteSession(w)
        PROVE  req[w] = Request("delete", {}, {}, {t})
    <3>1. t \in req[w].token /\ req[w].pc = "delete"
      BY <2>1, Zenon DEF DeleteSession, At
    <3>2. PICK s \in Tokens : req[w] = Request("delete", {}, {}, {s})
      BY <1>1, <3>1, Zenon DEF AuthInv, RequestInv
    <3>3. req[w].token = {s}
      BY <3>2 DEF Request
    <3> QED  BY <3>1, <3>2, <3>3, Zenon
  <2>2. ASSUME NEW w \in Workers, StartSession(w)
        PROVE  FALSE
    BY <1>1, <2>2, Zenon DEF StartSession, CreateSession, AuthInv, TypeInv
  <2>3. CASE PruneSessions
    BY <2>3, Zenon DEF PruneSessions
  <2>4. CASE Tick
    BY <2>4 DEF Tick
  <2>5. CASE sessions' = sessions
    BY <2>5, Zenon
  <2> QED
    BY <1>1, <2>1, <2>2, <2>3, <2>4, <2>5, Zenon
    DEF Next, Step, LoginLookup, LoginJudge, ChangePasswordCheck, SetPassword, Setup,
        LoginBegin, ResolveSession, vars
<1> QED  BY <1>1, AuthInvariance, PTL DEF Spec, SessionKept

-----------------------------------------------------------------------------
(* Mdns: the inductive invariant. *)

\* What is on its way into the registry keeps to the policy too.
PolicyKept ==
  ~lastPublic /\ ~raced =>
    /\ ~publish /\ Public(pend \cup late) = {}
    /\ \A h \in Hosts : reg[h].ips \subseteq LanAddrs

MdnsInv == RegistryInv /\ PolicyKept

Registry == [Hosts -> [ips : SUBSET Addrs, left : 0 .. MdnsTtl]]

\* There are finitely many questions, so a set of them has a size.
LEMMA QuestionsFinite ==
  ASSUME NEW S \in SUBSET Questions
  PROVE  IsFiniteSet(S) /\ Cardinality(S) \in Nat
<1> DEFINE Types == {"PTR", "SRV", "A", "AAAA"}
<1>1. IsFiniteSet(Names \cup {Meta})
  BY MdnsAssumption, FS_AddElement, Zenon
<1>2. IsFiniteSet(Types)
  <2>1. Types = (({"PTR"} \cup {"SRV"}) \cup {"A"}) \cup {"AAAA"}
    OBVIOUS
  <2>2. IsFiniteSet({"PTR"} \cup {"SRV"})
    BY FS_Singleton, FS_AddElement, Zenon
  <2>3. IsFiniteSet(({"PTR"} \cup {"SRV"}) \cup {"A"})
    BY <2>2, FS_AddElement, Zenon
  <2>4. IsFiniteSet((({"PTR"} \cup {"SRV"}) \cup {"A"}) \cup {"AAAA"})
    BY <2>3, FS_AddElement, Zenon
  <2> QED  BY <2>1, <2>4, Zenon
<1>3. IsFiniteSet(Questions)
  BY <1>1, <1>2, FS_Product, Zenon DEF Questions
<1>4. IsFiniteSet(S)
  BY <1>3, FS_Subset, Zenon
<1> QED  BY <1>4, FS_CardinalityType, Zenon

\* insert.
LEMMA InsertedOK ==
  ASSUME reg \in Registry, NEW h \in Hosts, NEW ip \in Addrs
  PROVE  /\ Inserted(reg, h, ip) \in Registry
         /\ \A k \in Hosts : Inserted(reg, h, ip)[k].ips \subseteq reg[k].ips \cup {ip}
<1>1. MdnsTtl \in 0 .. MdnsTtl
  BY MdnsAssumption
<1> QED  BY <1>1, Zenon DEF Inserted, Registry

\* An empty registry is one, and holds no address.
LEMMA ClearedOK == Cleared \in Registry /\ \A h \in Hosts : Cleared[h].ips = {}
<1>1. 0 \in 0 .. MdnsTtl
  BY MdnsAssumption
<1> QED  BY <1>1, Zenon DEF Cleared, Registry

\* What a question is answered with.
LEMMA RecordsOK ==
  ASSUME RegistryInv, NEW q \in Questions
  PROVE  [records |-> Records(q), asks |-> {}] \in Message
<1>1. link \in [Hosts -> SUBSET Addrs] /\ Graph[q] \subseteq Link /\ Hosts \subseteq Names
  BY MdnsAssumption, Zenon DEF RegistryInv
<1>2. ASSUME q[1] \in Hosts, NEW ip \in link[q[1]], q[2] = "A" \/ q[2] = "AAAA"
      PROVE  [name |-> q[1], type |-> q[2], data |-> ip] \in Address
  <2>1. q[1] \in Names /\ ip \in Addrs
    BY <1>1, <1>2, Zenon
  <2> QED  BY <1>2, <2>1, Zenon DEF Address
<1>3. Records(q) \subseteq Link \cup Address
  <2> DEFINE family == CASE q[2] = "A" -> V4 [] q[2] = "AAAA" -> V6 [] OTHER -> {}
  <2> DEFINE own == IF q[1] \in Hosts THEN link[q[1]] \cap family ELSE {}
  <2>1. \A ip \in own : q[1] \in Hosts /\ ip \in link[q[1]] /\ (q[2] = "A" \/ q[2] = "AAAA")
    OBVIOUS
  <2>2. Records(q) = Graph[q] \cup {[name |-> q[1], type |-> q[2], data |-> ip] : ip \in own}
    BY Zenon DEF Records, OnLink
  <2> HIDE DEF own
  <2>3. \A ip \in own : [name |-> q[1], type |-> q[2], data |-> ip] \in Address
    BY <1>2, <2>1, Zenon
  <2> QED  BY <1>1, <2>2, <2>3, Zenon
<1> QED  BY <1>3, Zenon DEF Message

\* What the listener makes of a message.
LEMMA MessageOK ==
  ASSUME NEW m \in Message
  PROVE  HostsFromMessage(m) \subseteq Hosts \X Addrs /\ Wanted(m) \subseteq Questions
<1>1. m.records \subseteq Link \cup Address
  BY Zenon DEF Message
<1>2. ASSUME NEW r \in m.records PROVE
        /\ r.type \in {"A", "AAAA"} => r.data \in Addrs
        /\ r.type \in {"PTR", "SRV"} => r.data \in Names
  BY <1>1, Zenon DEF Link, Address
<1>3. HostsFromMessage(m) \subseteq Hosts \X Addrs
  BY <1>2 DEF HostsFromMessage
<1> DEFINE asks(r) == CASE r.type = "PTR" /\ r.name = Meta -> {<<r.data, "PTR">>}
                         [] r.type = "PTR" /\ r.name # Meta -> {<<r.data, "SRV">>}
                         [] r.type = "SRV" -> {<<r.data, "A">>, <<r.data, "AAAA">>}
                         [] OTHER -> {}
<1>4. ASSUME NEW r \in m.records PROVE asks(r) \subseteq Questions
  <2>1. r.data \in Names =>
          {<<r.data, "PTR">>, <<r.data, "SRV">>, <<r.data, "A">>, <<r.data, "AAAA">>} \subseteq Questions
    BY DEF Questions
  <2>2. r.type = "PTR" \/ r.type = "SRV" => r.data \in Names
    BY <1>2, Zenon
  <2>3. CASE r.type = "PTR"
    BY <2>1, <2>2, <2>3, Zenon
  <2>4. CASE r.type = "SRV"
    BY <2>1, <2>2, <2>4, Zenon
  <2>5. CASE ~(r.type = "PTR" \/ r.type = "SRV")
    BY <2>5, Zenon
  <2> QED  BY <2>3, <2>4, <2>5, Zenon
<1>5. Hosts \X {"A", "AAAA"} \subseteq Questions
  BY MdnsAssumption, Zenon DEF Questions
<1>6. Wanted(m) \subseteq Questions
  <2> DEFINE others == {q \in Hosts \X {"A", "AAAA"} :
                          \E a \in m.asks : a[1] = q[1] /\ a[2] \in {"A", "AAAA"}}
  <2>1. others \subseteq Questions
    BY <1>5, Zenon
  <2>2. Wanted(m) = (UNION {asks(r) : r \in m.records}) \cup others
    BY Zenon DEF Wanted
  <2> HIDE DEF asks, others
  <2> QED  BY <1>4, <2>1, <2>2, Zenon
<1> QED  BY <1>3, <1>6, Zenon

\* The questions asked in a cycle stay within QUERIED_CAP.
LEMMA FollowUpsOK ==
  ASSUME RegistryInv, NEW m \in Message, NEW S \in FollowUps(m)
  PROVE  /\ S \subseteq Questions
         /\ queried \cup S \subseteq Questions /\ Cardinality(queried \cup S) <= QueriedCap
<1>1. S \subseteq Wanted(m) \ queried /\ Cardinality(S) <= QueriedCap - Cardinality(queried)
  BY Zenon DEF FollowUps
<1>2. S \in SUBSET Questions /\ queried \in SUBSET Questions /\ queried \cap S = {}
  BY <1>1, MessageOK, Zenon DEF RegistryInv
<1>3. /\ IsFiniteSet(S) /\ Cardinality(S) \in Nat
      /\ IsFiniteSet(queried) /\ Cardinality(queried) \in Nat
  BY <1>2, QuestionsFinite, Zenon
<1>4. Cardinality(queried \cup S) = Cardinality(queried) + Cardinality(S) - Cardinality(queried \cap S)
  BY <1>3, FS_Union, Zenon
<1>5. Cardinality(queried \cap S) = 0
  BY <1>2, FS_EmptySet, Zenon
<1>6. Cardinality(queried \cup S) <= QueriedCap
  BY <1>1, <1>3, <1>4, <1>5, MdnsAssumption
<1> QED  BY <1>2, <1>6, Zenon

\* learn_and_plan: the invariant after a message.
LEMMA ReceiveOK ==
  ASSUME MdnsInv, NEW m \in Message, Receive(m), Unheard, wire' \subseteq wire
  PROVE  MdnsInv'
<1>1. /\ listener' = "learn" /\ pend' = {p \in HostsFromMessage(m) : Publishable(p[2])}
      /\ UNCHANGED <<enabled, publish, link, reg, sup, lastPublic, late, raced>>
  BY Zenon DEF Receive, Unheard
<1>2. follow' \subseteq Questions /\ queried' \subseteq Questions /\ Cardinality(queried') <= QueriedCap
  BY FollowUpsOK, Zenon DEF Receive, MdnsInv
<1>3. pend' \subseteq Hosts \X Addrs
  BY <1>1, MessageOK, Zenon
<1>4. /\ (pend' \cup late') \subseteq Hosts \X Addrs
      /\ (follow' \cup wire') \subseteq Questions
  BY <1>1, <1>2, <1>3, Zenon DEF MdnsInv, RegistryInv
<1>5. RegistryInv'
  BY <1>1, <1>2, <1>4, Zenon DEF MdnsInv, RegistryInv
<1>6. ~publish => \A p \in pend' : p[2] \in LanAddrs
  BY <1>1, Zenon DEF Publishable
<1>7. PolicyKept'
  BY <1>1, <1>6, Zenon DEF MdnsInv, PolicyKept, Public
<1> QED  BY <1>5, <1>7, Zenon DEF MdnsInv

\* One more address in the registry, of those on their way.
LEMMA InsertOK ==
  ASSUME MdnsInv, NEW p \in pend \cup late, reg' = Inserted(reg, p[1], p[2]),
         pend' \subseteq pend, late' \subseteq late,
         UNCHANGED <<enabled, publish, link, sup, lastPublic, listener, follow, queried, wire, raced>>
  PROVE  MdnsInv'
<1>1. p[1] \in Hosts /\ p[2] \in Addrs /\ reg \in Registry
  <2>1. p \in Hosts \X Addrs /\ reg \in Registry
    BY Zenon DEF MdnsInv, RegistryInv, Registry
  <2> QED  BY <2>1, Zenon
<1>2. reg' \in Registry /\ \A k \in Hosts : reg'[k].ips \subseteq reg[k].ips \cup {p[2]}
  <2>1. /\ Inserted(reg, p[1], p[2]) \in Registry
        /\ \A k \in Hosts : Inserted(reg, p[1], p[2])[k].ips \subseteq reg[k].ips \cup {p[2]}
    BY <1>1, InsertedOK
  <2> QED  BY <2>1, Zenon
<1>3. (pend' \cup late') \subseteq Hosts \X Addrs
  BY Zenon DEF MdnsInv, RegistryInv
<1>4. RegistryInv'
  BY <1>2, <1>3, Zenon DEF MdnsInv, RegistryInv, Registry
<1>5. PolicyKept'
  <2> SUFFICES ASSUME ~lastPublic, ~raced
               PROVE  /\ ~publish' /\ Public(pend' \cup late') = {}
                      /\ \A h \in Hosts : reg'[h].ips \subseteq LanAddrs
    BY Zenon DEF PolicyKept
  <2>1. /\ ~publish /\ Public(pend \cup late) = {}
        /\ \A h \in Hosts : reg[h].ips \subseteq LanAddrs
    BY Zenon DEF MdnsInv, PolicyKept
  <2>2. p[2] \in LanAddrs
    BY <2>1, Zenon DEF Public
  <2>3. Public(pend' \cup late') = {}
    BY <2>1, Zenon DEF Public
  <2> QED  BY <1>2, <2>1, <2>2, <2>3, Zenon
<1> QED  BY <1>4, <1>5, Zenon DEF MdnsInv

\* A step that leaves the registry and what is on its way into it.
LEMMA RegistryKept ==
  ASSUME MdnsInv,
         UNCHANGED <<publish, reg, lastPublic, pend, late, raced>>,
         enabled' \in BOOLEAN, link' \in LinkStates, sup' \in {"tick", "policy"},
         listener' \in {"none", "bind", "select", "learn"},
         follow' \subseteq Questions, wire' \subseteq Questions,
         queried' = {} \/ queried' = queried
  PROVE  MdnsInv'
<1>1. Cardinality(queried') <= QueriedCap /\ queried' \subseteq Questions
  <2>1. CASE queried' = {}
    <3>1. Cardinality(queried') = 0
      BY <2>1, FS_EmptySet, Zenon
    <3> QED  BY <2>1, <3>1, MdnsAssumption
  <2>2. CASE queried' = queried
    BY <2>2, Zenon DEF MdnsInv, RegistryInv
  <2> QED  BY <2>1, <2>2, Zenon
<1>2. RegistryInv'
  BY <1>1, Zenon DEF MdnsInv, RegistryInv
<1>3. PolicyKept'
  BY Zenon DEF MdnsInv, PolicyKept
<1> QED  BY <1>2, <1>3, Zenon DEF MdnsInv

\* At the start the registry is empty and nothing is under way.
LEMMA MdnsInitOK == MdnsInit => MdnsInv
<1> SUFFICES ASSUME MdnsInit PROVE MdnsInv
  OBVIOUS
<1>1. reg = Cleared
  BY Zenon DEF MdnsInit, Cleared
<1>2. reg \in Registry /\ \A h \in Hosts : reg[h].ips = {}
  BY <1>1, ClearedOK, Zenon
<1>3. Cardinality(queried) = 0 /\ 0 <= QueriedCap
  BY FS_EmptySet, MdnsAssumption DEF MdnsInit
<1>4. RegistryInv
  BY <1>2, <1>3, Zenon DEF MdnsInit, RegistryInv, Registry
<1>5. PolicyKept
  BY <1>2, Zenon DEF MdnsInit, PolicyKept, Public
<1> QED  BY <1>4, <1>5, Zenon DEF MdnsInv

\* Every step of the supervisor, the listener and the hosts, and every request
\* of the administrator, keeps the invariant: what a step adds to the registry
\* was read under the policy the supervisor knows, or the step sets raced.
LEMMA MdnsStep ==
  ASSUME MdnsInv, [MdnsNext]_mdnsVars
  PROVE  MdnsInv'
<1>1. /\ enabled \in BOOLEAN /\ publish \in BOOLEAN /\ lastPublic \in BOOLEAN
      /\ link \in LinkStates /\ sup \in {"tick", "policy"}
      /\ listener \in {"none", "bind", "select", "learn"}
      /\ follow \subseteq Questions /\ wire \subseteq Questions
      /\ pend \subseteq Hosts \X Addrs /\ late \subseteq Hosts \X Addrs
      /\ queried \subseteq Questions /\ Cardinality(queried) <= QueriedCap
  BY Zenon DEF MdnsInv, RegistryInv
<1>2. CASE UNCHANGED mdnsVars
  BY <1>1, <1>2, RegistryKept, Zenon DEF mdnsVars, listenerVars
<1>3. ASSUME NEW p \in pend, Insert(p) PROVE MdnsInv'
  BY <1>3, InsertOK, Zenon DEF Insert
<1>4. ASSUME NEW p \in late, LateInsert(p) PROVE MdnsInv'
  BY <1>4, InsertOK, Zenon DEF LateInsert
<1>5. CASE Ask
  <2>1. wire' \subseteq Questions /\ follow' = {} /\ listener' = "select"
    BY <1>1, <1>5, Zenon DEF Ask
  <2> QED  BY <1>1, <1>5, <2>1, RegistryKept, Zenon DEF Ask
<1>6. CASE NewCycle \/ Bind
  <2>1. <<Meta, "PTR">> \in Questions
    BY Zenon DEF Questions
  <2>2. wire' \subseteq Questions /\ listener' = "select" /\ queried' = {}
        /\ UNCHANGED <<enabled, publish, link, reg, sup, lastPublic, pend, follow, late, raced>>
    BY <1>1, <1>6, <2>1, Zenon DEF NewCycle, Bind
  <2> QED  BY <1>1, <2>2, RegistryKept, Zenon
<1>7. CASE BindFails
  BY <1>1, <1>7, RegistryKept, Zenon DEF BindFails
<1>8. ASSUME NEW q \in wire, Respond(q) PROVE MdnsInv'
  <2>1. [records |-> Records(q), asks |-> {}] \in Message
    BY <1>1, RecordsOK, Zenon DEF MdnsInv
  <2>2. wire' \subseteq wire
    BY <1>8, Zenon DEF Respond
  <2> QED  BY <1>8, <2>1, <2>2, ReceiveOK, Zenon DEF Respond
<1>9. ASSUME NEW q \in wire, Lose(q) PROVE MdnsInv'
  <2>1. wire' \subseteq Questions
    BY <1>1, <1>9, Zenon DEF Lose
  <2> QED  BY <1>1, <1>9, <2>1, RegistryKept, Zenon DEF Lose, Unheard
<1>10. CASE Overhear
  <2>1. wire' \subseteq wire /\ Unheard
    BY <1>10, Zenon DEF Overhear
  <2>2. ASSUME NEW h \in Hosts
        PROVE  [asks |-> {}, records |->
                 {[name |-> h, type |-> IF ip \in V4 THEN "A" ELSE "AAAA", data |-> ip] :
                    ip \in link[h]}] \in Message
    <3>1. link[h] \subseteq Addrs /\ h \in Names
      BY <1>1, MdnsAssumption, Zenon
    <3>2. \A ip \in link[h] : [name |-> h, type |-> IF ip \in V4 THEN "A" ELSE "AAAA", data |-> ip] \in Address
      BY <3>1, Zenon DEF Address
    <3> DEFINE R == {[name |-> h, type |-> IF ip \in V4 THEN "A" ELSE "AAAA", data |-> ip] : ip \in link[h]}
    <3>3. R \subseteq Link \cup Address
      BY <3>2, Zenon
    <3> HIDE DEF R
    <3>4. [asks |-> {}, records |-> R] \in Message
      BY <3>3, Zenon DEF Message
    <3> QED  BY <3>4, Zenon DEF R
  <2>3. \A q \in Chatter : [records |-> {}, asks |-> {q}] \in Message
    BY MdnsAssumption, Zenon DEF Message
  <2>4. \E m \in Message : Receive(m)
    BY <1>10, <2>2, <2>3, Zenon DEF Overhear
  <2> QED  BY <2>1, <2>4, ReceiveOK, Zenon
<1>11. ASSUME NEW l \in LinkStates, Move(l) PROVE MdnsInv'
  BY <1>1, <1>11, RegistryKept, Zenon DEF Move, listenerVars
<1>12. ASSUME NEW b \in BOOLEAN, SetEnabled(b) PROVE MdnsInv'
  BY <1>1, <1>12, RegistryKept, Zenon DEF SetEnabled, listenerVars
<1>13. ASSUME NEW b \in BOOLEAN, SetPublish(b) PROVE MdnsInv'
  <2>1. publish' = b /\ UNCHANGED <<enabled, link, reg, sup, lastPublic, listener, pend, follow, queried, wire, late>>
        /\ (raced' <=> (raced \/ (b /\ ~lastPublic)))
    BY <1>13, Zenon DEF SetPublish, listenerVars
  <2>2. RegistryInv'
    BY <2>1, Zenon DEF MdnsInv, RegistryInv
  <2>3. PolicyKept'
    BY <2>1, Zenon DEF MdnsInv, PolicyKept
  <2> QED  BY <2>2, <2>3, Zenon DEF MdnsInv
<1>14. CASE TimePasses
  <2>1. UNCHANGED <<enabled, publish, link, sup, lastPublic, listener, pend, follow, queried, wire, late, raced>>
    BY <1>14, Zenon DEF TimePasses, listenerVars
  <2>2. reg' \in Registry /\ \A h \in Hosts : reg'[h].ips = reg[h].ips
    <3>1. reg \in Registry
      BY Zenon DEF MdnsInv, RegistryInv, Registry
    <3> QED  BY <1>14, <3>1, MdnsAssumption DEF TimePasses, Registry
  <2>3. RegistryInv'
    BY <2>1, <2>2, Zenon DEF MdnsInv, RegistryInv, Registry
  <2>4. PolicyKept'
    BY <2>1, <2>2, Zenon DEF MdnsInv, PolicyKept
  <2> QED  BY <2>3, <2>4, Zenon DEF MdnsInv
<1>15. CASE Supervise
  <2>1. sup' = "policy" /\ UNCHANGED <<enabled, publish, link, lastPublic>>
    BY <1>15, Zenon DEF Supervise
  <2>2. CASE listener = "none" /\ enabled
    <3>1. listener' = "bind" /\ UNCHANGED <<reg, pend, follow, queried, wire, late, raced>>
      BY <1>15, <2>2, Zenon DEF Supervise
    <3> QED  BY <1>1, <2>1, <3>1, RegistryKept, Zenon
  <2>3. CASE listener # "none" /\ ~enabled
    <3>1. /\ listener' = "none" /\ late' = late \cup pend /\ pend' = {} /\ follow' = {}
          /\ queried' = {} /\ wire' = {} /\ reg' = Cleared
          /\ raced' = RacedAfter(lastPublic, late')
      BY <1>15, <2>3, Zenon DEF Supervise
    <3>2. reg' \in Registry /\ \A h \in Hosts : reg'[h].ips = {}
      BY <3>1, ClearedOK, Zenon
    <3>3. Cardinality(queried') <= QueriedCap
      BY <3>1, FS_EmptySet, MdnsAssumption
    <3>4. RegistryInv'
      BY <1>1, <2>1, <3>1, <3>2, <3>3, Zenon DEF RegistryInv, Registry
    <3>5. PolicyKept'
      BY <2>1, <3>1, <3>2, Zenon DEF PolicyKept, RacedAfter, Public
    <3> QED  BY <3>4, <3>5, Zenon DEF MdnsInv
  <2>4. CASE ~(listener = "none" /\ enabled) /\ ~(listener # "none" /\ ~enabled)
    <3>1. UNCHANGED <<reg, listener, pend, follow, queried, wire, late, raced>>
      BY <1>15, <2>4, Zenon DEF Supervise, listenerVars
    <3> QED  BY <1>1, <2>1, <3>1, RegistryKept, Zenon
  <2> QED  BY <2>2, <2>3, <2>4, Zenon
<1>16. CASE CheckPolicy
  <2>1. /\ sup' = "tick" /\ lastPublic' = publish
        /\ UNCHANGED <<enabled, publish, link, listener, pend, follow, queried, wire, late>>
    BY <1>16, Zenon DEF CheckPolicy, listenerVars
  <2>2. CASE publish = lastPublic
    <3>1. UNCHANGED <<reg, raced, lastPublic>>
      BY <1>16, <2>1, <2>2, Zenon DEF CheckPolicy
    <3> QED  BY <1>1, <2>1, <3>1, RegistryKept, Zenon
  <2>3. CASE publish # lastPublic
    <3>1. reg' = Cleared /\ raced' = RacedAfter(publish, pend \cup late)
      BY <1>16, <2>3, Zenon DEF CheckPolicy
    <3>2. reg' \in Registry /\ \A h \in Hosts : reg'[h].ips = {}
      BY <3>1, ClearedOK, Zenon
    <3>3. RegistryInv'
      BY <1>1, <2>1, <3>2, Zenon DEF MdnsInv, RegistryInv, Registry
    <3>4. PolicyKept'
      BY <2>1, <3>1, <3>2, Zenon DEF PolicyKept, RacedAfter, Public
    <3> QED  BY <3>3, <3>4, Zenon DEF MdnsInv
  <2> QED  BY <2>2, <2>3, Zenon
<1>17. (~enabled) \in BOOLEAN /\ (~publish) \in BOOLEAN
  BY Zenon
<1>18. CASE SetEnabled(~enabled) \/ SetPublish(~publish)
  BY <1>12, <1>13, <1>17, <1>18, Zenon
<1> QED  BY <1>2, <1>3, <1>4, <1>5, <1>6, <1>7, <1>8, <1>9, <1>10, <1>11, <1>14, <1>15, <1>16,
            <1>18, Zenon DEF MdnsNext, Listen

\* The invariant holds throughout.
THEOREM MdnsInvariance == MdnsSpec => []MdnsInv
<1>1. MdnsInit => MdnsInv
  BY MdnsInitOK, Zenon
<1>2. MdnsInv /\ [MdnsNext]_mdnsVars => MdnsInv'
  BY MdnsStep, Zenon
<1> QED  BY <1>1, <1>2, PTL DEF MdnsSpec

\* Whatever hosts announce and whatever is lost on the way, run asks at most
\* QUERIED_CAP questions in a cycle (RegistryInv).
THEOREM QuestionsBounded == MdnsSpec => []RegistryInv
<1>1. MdnsInv => RegistryInv
  BY Zenon DEF MdnsInv
<1> QED  BY <1>1, MdnsInvariance, PTL

\* However the policy is switched, and however late an aborted listener
\* inserts what it had read, under the LAN-only policy the registry holds no
\* public address, but for the two races that LanOnly names.
THEOREM LanKept == MdnsSpec => []LanOnly
<1>1. MdnsInv => LanOnly
  BY Zenon DEF MdnsInv, PolicyKept, LanOnly
<1> QED  BY <1>1, MdnsInvariance, PTL

=============================================================================
