-------------------------------- MODULE Auth --------------------------------
(***************************************************************************)
(* The administrator's account: setup, login with its throttle, sessions,  *)
(* logout and the change of the password (src/src/web/api.rs,              *)
(* src/src/web/auth.rs, the throttle of src/src/state.rs, the users and    *)
(* sessions of src/src/db.rs, the purge of src/src/main.rs).               *)
(*                                                                         *)
(* Requests run concurrently and every call to the database is a step of   *)
(* its own, as it is between two awaits.  A password is a model value and  *)
(* stands for its hash too.  Time is kept as ages: a failure is "age"      *)
(* ticks old, a session has so many ticks left, -1 when it has expired.    *)
(* There is one user name, so one throttle key.                            *)
(***************************************************************************)
EXTENDS Integers, FiniteSets

CONSTANTS
  Workers,     \* requests served at a time
  Passwords,
  Tokens,      \* bounds the sessions at a time
  Ttl,         \* SESSION_TTL_SECS, in ticks
  Window,      \* LOCKOUT_WINDOW, in ticks
  Threshold    \* LOCKOUT_THRESHOLD

ASSUME AuthAssumption ==
  /\ IsFiniteSet(Workers)
  /\ Ttl \in Nat /\ Window \in Nat /\ Threshold \in Nat \ {0}

VARIABLES
  users,      \* the users table: [id, password]
  sessions,   \* [Tokens -> optional ticks left]: the sessions table
  failures,   \* optional [count, age]: LoginThrottle
  req,        \* [Workers -> a request]: what each worker is at
  current     \* [Workers -> the passwords the account had since its login began]

vars == <<users, sessions, failures, req, current>>

\* A request: the password given, the user row read, the session cookie.
Request(pc, p, row, t) == [pc |-> pc, given |-> p, row |-> row, token |-> t]
Idle == Request("idle", {}, {}, {})

Init ==
  /\ users = {}
  /\ sessions = [t \in Tokens |-> {}]
  /\ failures = {}
  /\ req = [w \in Workers |-> Idle]
  /\ current = [w \in Workers |-> {}]

Goto(w, r) == req' = [req EXCEPT ![w] = r]
At(w, pc) == req[w].pc = pc

\* The password the account has, if there is one.
Stored == {u.password : u \in users}

Login == {"lookup", "judge", "session"}

\* The account now has the password p: every login under way has seen it.
\* (current is history, for LoginLinear.)
Saw(p) == [v \in Workers |-> IF req[v].pc \in Login THEN current[v] \cup {p} ELSE {}]

-----------------------------------------------------------------------------
(* The throttle. *)

Elapsed(f) == f.age > Window
Locked == \E f \in failures : ~Elapsed(f) /\ f.count >= Threshold
Forget == {f \in failures : ~Elapsed(f)}

RecordLoginFailure ==
  failures' = IF Forget = {} THEN {[count |-> 1, age |-> 0]}
              ELSE {[count |-> f.count + 1, age |-> 0] : f \in Forget}

-----------------------------------------------------------------------------
(* The queries, and the hash of a password. *)

CreateUser(p) == users \cup {[id |-> Cardinality(users) + 1, password |-> p]}

CreateSession(t) == [sessions EXCEPT ![t] = {Ttl}]

\* Db::session: the time a session has left, if there is one.
SessionRow(t) == sessions[t]

\* A row that is not there has no password to match.
VerifyPassword(given, row) == row = given

-----------------------------------------------------------------------------
(* setup, login. *)

\* Mutant of Setup: an account is made whether there is one or not.
SetupAgain(w, p) ==
  /\ At(w, "idle")
  /\ users' = CreateUser(p)
  /\ Goto(w, Request("session", {p}, {p}, {}))
  /\ current' = [Saw(p) EXCEPT ![w] = {p}]
  /\ UNCHANGED <<sessions, failures>>

\* The count and the insertion are one closure, under the connection's lock.
Setup(w, p) ==
  /\ At(w, "idle")
  /\ users = {}
  /\ users' = CreateUser(p)
  /\ Goto(w, Request("session", {p}, {p}, {}))
  /\ current' = [Saw(p) EXCEPT ![w] = {p}]
  /\ UNCHANGED <<sessions, failures>>

\* Mutant of LoginBegin: an attempt while locked out starts the window again.
LoginBeginRefreshes(w, p) ==
  /\ At(w, "idle")
  /\ \/ /\ Locked
        /\ failures' = {[count |-> f.count, age |-> 0] : f \in failures}
        /\ UNCHANGED <<req, current>>
     \/ /\ ~Locked
        /\ failures' = Forget
        /\ Goto(w, Request("lookup", {p}, {}, {}))
        /\ current' = [current EXCEPT ![w] = Stored]
  /\ UNCHANGED <<users, sessions>>

\* Mutant of LoginBegin: the throttle is not asked.
LoginBeginUnchecked(w, p) ==
  /\ At(w, "idle")
  /\ failures' = Forget
  /\ Goto(w, Request("lookup", {p}, {}, {}))
  /\ current' = [current EXCEPT ![w] = Stored]
  /\ UNCHANGED <<users, sessions>>

\* is_locked_out forgets an entry that is old; a locked-out attempt is turned
\* away without a trace.
LoginBegin(w, p) ==
  /\ At(w, "idle")
  /\ ~Locked
  /\ failures' = Forget
  /\ Goto(w, Request("lookup", {p}, {}, {}))
  /\ current' = [current EXCEPT ![w] = Stored]
  /\ UNCHANGED <<users, sessions>>

LoginLookup(w) ==
  /\ At(w, "lookup")
  /\ Goto(w, Request("judge", req[w].given, Stored, {}))
  /\ UNCHANGED <<users, sessions, failures, current>>

\* Mutant of LoginJudge: an account that is not there has no wrong password.
LoginJudgeLoose(w) ==
  /\ At(w, "judge")
  /\ \/ /\ req[w].row \subseteq req[w].given
        /\ failures' = {}
        /\ Goto(w, Request("session", req[w].given, req[w].row, {}))
        /\ UNCHANGED current
     \/ /\ ~(req[w].row \subseteq req[w].given)
        /\ RecordLoginFailure
        /\ Goto(w, Idle)
        /\ current' = [current EXCEPT ![w] = {}]
  /\ UNCHANGED <<users, sessions>>

LoginJudge(w) ==
  /\ At(w, "judge")
  /\ \/ /\ VerifyPassword(req[w].given, req[w].row)
        /\ failures' = {}
        /\ Goto(w, Request("session", req[w].given, req[w].row, {}))
        /\ UNCHANGED current
     \/ /\ ~VerifyPassword(req[w].given, req[w].row)
        /\ RecordLoginFailure
        /\ Goto(w, Idle)
        /\ current' = [current EXCEPT ![w] = {}]
  /\ UNCHANGED <<users, sessions>>

\* start_session.  The token is new: nobody has it, in the table or in hand.
StartSession(w) ==
  /\ At(w, "session")
  /\ \E t \in Tokens :
       /\ sessions[t] = {} /\ \A v \in Workers : t \notin req[v].token
       /\ sessions' = CreateSession(t)
  /\ Goto(w, Idle)
  /\ current' = [current EXCEPT ![w] = {}]
  /\ UNCHANGED <<users, failures>>

-----------------------------------------------------------------------------
(* Requests that carry a session. *)

\* resolve_session: refused without a trace if there is no such session; an
\* expired one is deleted in a step of its own.
ResolveSession(w, t, op) ==
  /\ At(w, "idle")
  /\ \E left \in SessionRow(t) :
       Goto(w, Request(IF left < 0 THEN "delete" ELSE op, {}, {}, {t}))
  /\ UNCHANGED <<users, sessions, failures, current>>

\* logout, and the end of an expired session.
DeleteSession(w) ==
  /\ At(w, "delete")
  /\ sessions' = [t \in Tokens |-> IF t \in req[w].token THEN {} ELSE sessions[t]]
  /\ Goto(w, Idle)
  /\ UNCHANGED <<users, failures, current>>

\* change_password up to its last call: the password given is compared with
\* the one stored.
ChangePasswordCheck(w, old, new) ==
  /\ At(w, "change")
  /\ Goto(w, IF VerifyPassword({old}, Stored) THEN Request("set", {new}, Stored, req[w].token) ELSE Idle)
  /\ UNCHANGED <<users, sessions, failures, current>>

\* set_password.
SetPassword(w) ==
  /\ At(w, "set")
  /\ \E p \in req[w].given :
       /\ users' = {[id |-> u.id, password |-> p] : u \in users}
       /\ current' = Saw(p)
  /\ Goto(w, Idle)
  /\ UNCHANGED <<sessions, failures>>

-----------------------------------------------------------------------------
(* Time, and the hourly purge. *)

\* Mutant of PruneSessions: it compares the wrong way round.
PruneLive ==
  /\ \E t \in Tokens : \E left \in sessions[t] : left >= 0
  /\ sessions' = [t \in Tokens |-> {left \in sessions[t] : left < 0}]
  /\ UNCHANGED <<users, failures, req, current>>

\* Mutant of PruneSessions: it is off by one.
PruneLate ==
  /\ \E t \in Tokens : -1 \in sessions[t]
  /\ sessions' = [t \in Tokens |-> {left \in sessions[t] : left >= -1}]
  /\ UNCHANGED <<users, failures, req, current>>

PruneSessions ==
  /\ \E t \in Tokens : -1 \in sessions[t]
  /\ sessions' = [t \in Tokens |-> {left \in sessions[t] : left >= 0}]
  /\ UNCHANGED <<users, failures, req, current>>

Tick ==
  /\ failures' = {[count |-> f.count, age |-> IF Elapsed(f) THEN f.age ELSE f.age + 1] :
                    f \in failures}
  /\ sessions' = [t \in Tokens |-> {IF left < 0 THEN left ELSE left - 1 : left \in sessions[t]}]
  /\ UNCHANGED <<users, req, current>>

Step(w) ==
  \/ LoginLookup(w) \/ LoginJudge(w) \/ StartSession(w)
  \/ DeleteSession(w)
  \/ \E old, new \in Passwords : ChangePasswordCheck(w, old, new)
  \/ SetPassword(w)

Next ==
  \/ \E w \in Workers :
       \/ Step(w)
       \/ \E p \in Passwords : Setup(w, p) \/ LoginBegin(w, p)
       \/ \E t \in Tokens, op \in {"delete", "change"} : ResolveSession(w, t, op)
  \/ PruneSessions
  \/ Tick

\* Time passes, a handler that has begun goes on, the purge comes round.
Spec ==
  /\ Init /\ [][Next]_vars
  /\ WF_vars(Tick) /\ WF_vars(PruneSessions)
  /\ \A w \in Workers : WF_vars(Step(w))

-----------------------------------------------------------------------------
(* Properties. *)

\* Two setups at once make one account: whoever loses the race is told that
\* setup is complete, and no session exists before there is an account.
OneAdmin ==
  /\ Cardinality(users) <= 1
  /\ users = {} => \A t \in Tokens : sessions[t] = {}

\* The throttle checks first and counts later, with a lookup and a hash in
\* between: concurrent attempts can overshoot the threshold, by fewer than
\* there are requests at a time, and no further.
ThrottleBound ==
  \A f \in failures : f.count < Threshold + Cardinality(Workers)

\* A login is judged by the row it read, and opens its session later: the
\* password given was the account's at some moment of the login.
LoginLinear ==
  \A w \in Workers : At(w, "session") => req[w].given \subseteq current[w]

\* A lockout ends, however many attempts go on being made meanwhile.
LockEnds == Locked ~> ~Locked

\* A session that has expired leaves the table, whether or not its cookie is
\* ever presented again.
SessionsPruned == \A t \in Tokens : -1 \in sessions[t] ~> sessions[t] = {}

\* A session that is still running ends by its own expiry or by a request of
\* its own: nothing else, the purge least of all, takes it away.
SessionKept ==
  [][\A t \in Tokens :
       (\E left \in sessions[t] : left >= 0) /\ sessions'[t] = {} =>
         \E w \in Workers : req[w] = Request("delete", {}, {}, {t})]_vars

=============================================================================
