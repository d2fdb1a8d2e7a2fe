------------------------------ MODULE Sessions ------------------------------
(****************************************************************************)
(* Sessions of users (core/auth): logging in with a password or through a    *)
(* provider, refreshing, logging out, and the nightly cleanup, which all     *)
(* servers start and one of them does under a lock in Redis. A refresh token *)
(* carries its own expiry; the row of the session has another, which the     *)
(* cleanup goes by. Whoever deletes users works beside all this.             *)
(****************************************************************************)
EXTENDS Integers, FiniteSets, FiniteSetsExt

CONSTANTS
  Count,               \* bound: requests of any plan
  Emails, First,       \* First is the email of a user with a password
  People,              \* at the providers
  Instances, NoInstance,
  ShortLife, LongLife, \* of refresh tokens, in ticks of the clock
  Batch,               \* sessions that the cleanup reads at once
  Plans                \* bounds: databases, how far the servers' zone is ahead of UTC, requests,
                       \* their kinds, cleanups, the clock, sessions at the start, those that
                       \* cannot be deleted, and troubles

Requests == 1 .. Count
Nobody == Count + 1           \* no user
Given == Count + 2            \* a session there may be from the start
ASSUME SessionsAssumption ==
  /\ Count \in Nat /\ Batch \in Nat \ {0} /\ First \in Emails /\ NoInstance \notin Instances
  /\ {ShortLife, LongLife} \subseteq Nat

\* The sessions that are there at the start have ids of their own.
ASSUME PlansAssumption ==
  \A p \in Plans : /\ p.old \subseteq Nat \ 0 .. Count /\ p.zone \in Int
                   /\ {p.requests, p.cleanups, p.time, p.troubles} \subseteq Nat
                   /\ p.requests <= Count

VARIABLES
  database, clock,
  users,      \* user_definition: [id, email]; user 0 has a password
  accounts,   \* oauth_account_definition: [who, user]
  sessions,   \* session_definition: [id, user, expires, remember]
  tokens,     \* refresh tokens that were given out
  out,        \* sessions whose logout was answered
  req,        \* requests
  cleaner,    \* the cleanup of each server
  lock,       \* session:cleanup:lock
  started, cleanups, troubles,
  plan,       \* one of Plans
  history     \* what excuses a property: <<kind, session>>

rows == <<users, accounts, sessions>>
cleaning == <<cleaner, lock, cleanups>>
bounds == <<database, plan, started, troubles>>
vars == <<rows, clock, tokens, out, req, cleaning, bounds, history>>

Life(remember) == IF remember THEN LongLife ELSE ShortLife
Sessions(id) == {s \in sessions : s.id = id}
Lives(user) == \E u \in users : u.id = user
Goto(r, label) == req' = [req EXCEPT ![r].pc = label]
End(r, answer) == req' = [req EXCEPT ![r] = [@ EXCEPT !.pc = "ended", !.answer = answer]]
\* The next step of r, for the user that was found.
As(r, user, label) == req' = [req EXCEPT ![r] = [@ EXCEPT !.pc = label, !.user = user]]

-----------------------------------------------------------------------------
(* Requests *)

NoRequest == [pc |-> "none", op |-> "none", who |-> "none", email |-> First, user |-> Nobody, session |-> 0,
              expires |-> 0, remember |-> FALSE, late |-> FALSE, answer |-> "none"]
Arrive(request) ==
  /\ started < plan.requests /\ started' = started + 1
  /\ request.op \in plan.ops
  /\ req' = [req EXCEPT ![started + 1] = request]
  /\ UNCHANGED <<rows, clock, tokens, out, cleaning, database, plan, troubles, history>>

Begin ==
  \/ \E email \in Emails, remember \in BOOLEAN :
       Arrive([NoRequest EXCEPT !.pc = "password", !.op = "login", !.email = email, !.remember = remember,
                                !.session = started + 1])
  \/ \E t \in tokens :
       Arrive([NoRequest EXCEPT !.pc = "verify", !.op = "refresh", !.session = t.session, !.expires = t.expires,
                                !.late = t.session \in out])
  \/ \E t \in tokens, by \in {t.user : t \in tokens} :
       Arrive([NoRequest EXCEPT !.pc = "guard", !.op = "logout", !.session = t.session, !.expires = t.expires,
                                !.user = by])

\* A provider sends somebody back: an error of its own, or a callback without a
\* code or for a provider without a configuration, comes no further.
Callback ==
  \E who \in People, email \in Emails :
    Arrive([NoRequest EXCEPT !.pc = "provider", !.op = "oauth", !.who = who, !.email = email, !.remember = TRUE,
                             !.session = started + 1])

\* The provider changes the code for a token and the token for who it is; it
\* may know no email.
AskProvider(r) ==
  /\ req[r].pc = "provider"
  /\ Goto(r, "account") \/ End(r, "failed")
  /\ UNCHANGED <<rows, clock, tokens, out, cleaning, bounds, history>>

\* login: only users with a password get through.
CheckPassword(r) ==
  /\ req[r].pc = "password"
  /\ IF [id |-> 0, email |-> req[r].email] \in users THEN As(r, 0, "session") ELSE End(r, "failed")
  /\ UNCHANGED <<rows, clock, tokens, out, cleaning, bounds, history>>

\* findOrCreateUser: the account and its user, or the user with the email, or a
\* new user, and then the account for the next time.
FindAccount(r) ==
  /\ req[r].pc = "account"
  /\ IF \E a \in accounts : a.who = req[r].who
     THEN As(r, (CHOOSE a \in accounts : a.who = req[r].who).user, "linked")
     ELSE Goto(r, "email")
  /\ UNCHANGED <<rows, clock, tokens, out, cleaning, bounds, history>>

FindLinked(r) ==
  /\ req[r].pc = "linked"
  /\ IF Lives(req[r].user) THEN Goto(r, "session") ELSE End(r, "failed")
  /\ UNCHANGED <<rows, clock, tokens, out, cleaning, bounds, history>>

FindEmail(r) ==
  /\ req[r].pc = "email"
  /\ IF \E u \in users : u.email = req[r].email
     THEN As(r, (CHOOSE u \in users : u.email = req[r].email).id, "link")
     ELSE Goto(r, "create")
  /\ UNCHANGED <<rows, clock, tokens, out, cleaning, bounds, history>>

\* The email is unique.
CreateUser(r) ==
  /\ req[r].pc = "create"
  /\ IF \E u \in users : u.email = req[r].email THEN End(r, "failed") /\ UNCHANGED users
     ELSE users' = users \cup {[id |-> r, email |-> req[r].email]} /\ As(r, r, "link")
  /\ UNCHANGED <<accounts, sessions, clock, tokens, out, cleaning, bounds, history>>

\* Mutant: an account that is there already is not an error.
MutantLink(r) ==
  /\ req[r].pc = "link"
  /\ accounts' = IF \E a \in accounts : a.who = req[r].who THEN accounts
                 ELSE accounts \cup {[who |-> req[r].who, user |-> req[r].user]}
  /\ Goto(r, "session")
  /\ UNCHANGED <<users, sessions, clock, tokens, out, cleaning, bounds, history>>

\* The account is unique. Only PostgreSQL has a foreign key for its user: the
\* one asked for, SET NULL of a column that is not null, is refused by MySQL.
Link(r) ==
  /\ req[r].pc = "link"
  /\ IF (\E a \in accounts : a.who = req[r].who) \/ (database = "postgres" /\ ~Lives(req[r].user))
     THEN End(r, "failed") /\ UNCHANGED accounts
     ELSE accounts' = accounts \cup {[who |-> req[r].who, user |-> req[r].user]} /\ Goto(r, "session")
  /\ UNCHANGED <<users, sessions, clock, tokens, out, cleaning, bounds, history>>

InsertSession(r) ==
  /\ req[r].pc = "session"
  /\ IF database /= "mongodb" /\ ~Lives(req[r].user) THEN End(r, "failed") /\ UNCHANGED sessions
     ELSE LET expires == clock + Life(req[r].remember) IN
          /\ sessions' = sessions \cup {[id |-> r, user |-> req[r].user, expires |-> expires, remember |-> req[r].remember]}
          /\ req' = [req EXCEPT ![r] = [@ EXCEPT !.pc = "sign", !.expires = expires]]
  /\ UNCHANGED <<users, accounts, clock, tokens, out, cleaning, bounds, history>>

\* The tokens are given out. A refresh that is not to be remembered gives the
\* same refresh token back. One that outlives its session was signed late.
Sign(r) ==
  /\ req[r].pc = "sign"
  /\ LET expires == clock + Life(req[r].remember)
         same == req[r].op = "refresh" /\ ~req[r].remember
     IN
     /\ tokens' = IF same THEN tokens
                  ELSE tokens \cup {[session |-> req[r].session, user |-> req[r].user, expires |-> expires]}
     /\ history' = IF ~same /\ expires > req[r].expires THEN history \cup {<<"late", req[r].session>>} ELSE history
  /\ End(r, "tokens")
  /\ UNCHANGED <<rows, clock, out, cleaning, bounds>>

\* logout: who asks is the user of the access token, if there still is one.
Guard(r) ==
  /\ req[r].pc = "guard"
  /\ IF Lives(req[r].user) THEN Goto(r, "verify") ELSE End(r, "failed")
  /\ UNCHANGED <<rows, clock, tokens, out, cleaning, bounds, history>>

Verify(r) ==
  /\ req[r].pc = "verify"
  /\ IF clock < req[r].expires THEN Goto(r, "find") ELSE End(r, "failed")
  /\ UNCHANGED <<rows, clock, tokens, out, cleaning, bounds, history>>

FindSession(r) ==
  /\ req[r].pc = "find"
  /\ LET found == {s \in Sessions(req[r].session) : req[r].op = "logout" => s.user = req[r].user} IN
     IF found = {} THEN End(r, "failed")
     ELSE \E s \in found :
            req' = [req EXCEPT ![r] = [@ EXCEPT !.user = s.user, !.remember = s.remember,
                                                !.pc = IF req[r].op = "logout" THEN "delete" ELSE "extend"]]
  /\ UNCHANGED <<rows, clock, tokens, out, cleaning, bounds, history>>

\* Mutant: the row of the session keeps its expiry.
MutantStays(r) ==
  /\ req[r].pc = "extend"
  /\ req' = [req EXCEPT ![r] = [@ EXCEPT !.pc = "sign", !.expires = clock + Life(req[r].remember)]]
  /\ UNCHANGED <<rows, clock, tokens, out, cleaning, bounds, history>>

\* Mutant: a row that is gone is written again.
MutantUpsert(r) ==
  /\ req[r].pc = "extend"
  /\ LET expires == clock + Life(req[r].remember) IN
       /\ sessions' = (sessions \ Sessions(req[r].session)) \cup
            {[id |-> req[r].session, user |-> req[r].user, expires |-> expires, remember |-> req[r].remember]}
       /\ req' = [req EXCEPT ![r] = [@ EXCEPT !.pc = "sign", !.expires = expires]]
  /\ UNCHANGED <<users, accounts, clock, tokens, out, cleaning, bounds, history>>

\* refreshToken: the session is extended; a row that is gone meanwhile is not
\* missed.
Extend(r) ==
  /\ req[r].pc = "extend"
  /\ LET expires == clock + Life(req[r].remember) IN
       /\ sessions' = {IF s.id = req[r].session THEN [s EXCEPT !.expires = expires] ELSE s : s \in sessions}
       /\ req' = [req EXCEPT ![r] = [@ EXCEPT !.pc = "sign", !.expires = expires]]
  /\ UNCHANGED <<users, accounts, clock, tokens, out, cleaning, bounds, history>>

DeleteSession(r) ==
  /\ req[r].pc = "delete"
  /\ sessions' = sessions \ Sessions(req[r].session)
  /\ out' = out \cup {req[r].session}
  /\ End(r, "done")
  /\ UNCHANGED <<users, accounts, clock, tokens, cleaning, bounds, history>>

-----------------------------------------------------------------------------
(* The cleanup *)

Idle == [pc |-> "idle", now |-> 0, batch |-> {}, full |-> FALSE]
At(i, label) == cleaner' = [cleaner EXCEPT ![i].pc = label]

\* The cron job of one server: whoever does not get the lock leaves it.
StartCleanup(i) ==
  /\ cleaner[i].pc = "idle" /\ cleanups < plan.cleanups
  /\ cleanups' = cleanups + 1
  /\ IF lock.by = NoInstance \/ lock.over
     THEN /\ lock' = [by |-> i, over |-> FALSE]
          /\ cleaner' = [cleaner EXCEPT ![i] = [Idle EXCEPT !.pc = "find", !.now = clock]]
     ELSE UNCHANGED <<cleaner, lock>>
  /\ UNCHANGED <<rows, clock, tokens, out, req, bounds, history>>

\* MySQL is given the expiry in the time of the servers' zone; the cleanup compares
\* what the row says with a time of UTC.
Zone == IF database = "mysql" THEN plan.zone ELSE 0
Noted(s) == s.expires + Zone
Expired(i) == {s.id : s \in {s \in sessions : Noted(s) < cleaner[i].now}}

\* Mutant: the loop does not end with the last session.
MutantFindExpired(i) ==
  /\ cleaner[i].pc = "find" /\ Expired(i) /= {}
  /\ \E batch \in SUBSET Expired(i) :
       /\ Cardinality(batch) = Min({Batch, Cardinality(Expired(i))})
       /\ cleaner' = [cleaner EXCEPT ![i] = [@ EXCEPT !.pc = "delete", !.batch = batch,
                                                     !.full = Cardinality(batch) = Batch]]
  /\ UNCHANGED <<rows, clock, tokens, out, req, lock, cleanups, bounds, history>>

\* The next expired sessions, in no order.
FindExpired(i) ==
  /\ cleaner[i].pc = "find"
  /\ \E batch \in SUBSET Expired(i) :
       /\ Cardinality(batch) = Min({Batch, Cardinality(Expired(i))})
       /\ cleaner' = [cleaner EXCEPT ![i] = [@ EXCEPT !.pc = IF batch = {} THEN "release" ELSE "delete",
                                                     !.batch = batch, !.full = Cardinality(batch) = Batch]]
  /\ UNCHANGED <<rows, clock, tokens, out, req, lock, cleanups, bounds, history>>

\* After the last of a batch: another one, if this one was full.
Then(left, full) == IF left /= {} THEN "delete" ELSE IF full THEN "find" ELSE "release"
Without(i, id) ==
  LET left == cleaner[i].batch \ {id} IN
  [cleaner EXCEPT ![i] = [@ EXCEPT !.batch = left, !.pc = Then(left, cleaner[i].full)]]

\* Requests that have found this session and will extend it.
Extending(id) == \E r \in Requests : req[r].op = "refresh" /\ req[r].session = id /\ req[r].pc \in {"extend", "sign"}

\* One that cannot be deleted is left, with a warning, as is one that is gone.
DeleteExpired(i) ==
  /\ cleaner[i].pc = "delete"
  /\ \E id \in cleaner[i].batch :
       /\ sessions' = IF id \in plan.stuck THEN sessions ELSE sessions \ Sessions(id)
       /\ cleaner' = Without(i, id)
       /\ history' = IF Extending(id) \/ \E s \in Sessions(id) : Noted(s) >= cleaner[i].now
                     THEN history \cup {<<"crossed", id>>} ELSE history
  /\ UNCHANGED <<users, accounts, clock, tokens, out, req, lock, cleanups, bounds>>

\* The lock is given back by whoever has it.
EndCleanup(i) ==
  /\ cleaner[i].pc = "release"
  /\ lock' = IF lock.by = i THEN [by |-> NoInstance, over |-> FALSE] ELSE lock
  /\ cleaner' = [cleaner EXCEPT ![i] = Idle]
  /\ UNCHANGED <<rows, clock, tokens, out, req, cleanups, bounds, history>>

-----------------------------------------------------------------------------
(* What else happens *)

Tick ==
  /\ clock < plan.time /\ clock' = clock + 1
  /\ UNCHANGED <<rows, tokens, out, req, cleaning, bounds, history>>

Trouble == troubles < plan.troubles /\ troubles' = troubles + 1 /\ UNCHANGED <<database, plan, started>>

\* A query fails, or the provider does.
Fail(r) ==
  /\ req[r].pc \notin {"none", "verify", "sign", "ended"}
  /\ Trouble
  /\ End(r, "failed")
  /\ UNCHANGED <<rows, clock, tokens, out, cleaning, history>>

\* A call of the cleanup fails: reading the sessions, which ends it, deleting
\* one, or releasing the lock, which stays until its hour is over.
FailCleanup(i) ==
  /\ Trouble
  /\ \/ /\ cleaner[i].pc = "find"
        /\ At(i, "release")
     \/ /\ cleaner[i].pc = "delete"
        /\ \E id \in cleaner[i].batch : cleaner' = Without(i, id)
     \/ cleaner[i].pc = "release" /\ cleaner' = [cleaner EXCEPT ![i] = Idle]
  /\ UNCHANGED <<rows, clock, tokens, out, req, lock, cleanups, history>>

\* An hour is over while the lock is held, or the server died with it.
Lapse ==
  /\ lock.by /= NoInstance /\ ~lock.over
  /\ Trouble
  /\ lock' = [lock EXCEPT !.over = TRUE]
  /\ \E kept \in {cleaner[lock.by], Idle} : cleaner' = [cleaner EXCEPT ![lock.by] = kept]
  /\ UNCHANGED <<rows, clock, tokens, out, req, cleanups, history>>

\* A user is deleted by an administrator. SQL takes the sessions along, MongoDB
\* nothing; PostgreSQL refuses while there is an account.
DeleteUser(u) ==
  /\ u \in users
  /\ database = "postgres" => \A a \in accounts : a.user /= u.id
  /\ Trouble
  /\ users' = users \ {u}
  /\ sessions' = IF database = "mongodb" THEN sessions ELSE {s \in sessions : s.user /= u.id}
  /\ UNCHANGED <<accounts, clock, tokens, out, req, cleaning, history>>

-----------------------------------------------------------------------------
Init ==
  /\ plan \in Plans /\ database \in plan.databases
  /\ clock = 1
  /\ users = {[id |-> 0, email |-> First]} /\ accounts = {}
  /\ sessions = {[id |-> id, user |-> 0, expires |-> IF id = Given THEN 1 + LongLife ELSE 0, remember |-> TRUE] :
                   id \in plan.old}
  /\ tokens = {[session |-> s.id, user |-> 0, expires |-> s.expires] : s \in {s \in sessions : s.id = Given}}
  /\ out = {} /\ history = {}
  /\ req = [r \in Requests |-> NoRequest]
  /\ cleaner = [i \in Instances |-> Idle] /\ lock = [by |-> NoInstance, over |-> FALSE]
  /\ started = 0 /\ cleanups = 0 /\ troubles = 0

Step(r) ==
  \/ CheckPassword(r) \/ AskProvider(r) \/ FindAccount(r) \/ FindLinked(r) \/ FindEmail(r) \/ CreateUser(r) \/ Link(r)
  \/ InsertSession(r) \/ Sign(r) \/ Guard(r) \/ Verify(r) \/ FindSession(r) \/ Extend(r) \/ DeleteSession(r)
CleanStep(i) == FindExpired(i) \/ DeleteExpired(i) \/ EndCleanup(i)
Next ==
  \/ Begin \/ Callback \/ Tick \/ Lapse \/ \E u \in users : DeleteUser(u)
  \/ \E r \in Requests : Step(r) \/ Fail(r)
  \/ \E i \in Instances : StartCleanup(i) \/ CleanStep(i) \/ FailCleanup(i)
Spec == Init /\ [][Next]_vars

\* The database answers or fails.
FairSpec == Spec /\ (\A r \in Requests : WF_vars(Step(r))) /\ (\A i \in Instances : WF_vars(CleanStep(i)))

-----------------------------------------------------------------------------
(* Properties *)

Excused(kind, x) == <<kind, x>> \in history

\* A refresh token that has not run out, of a user who is there and has not
\* logged out, has its session: the cleanup takes none that is in use. Excused:
\* a session that ran out before it was extended and a token signed late. With
\* MySQL, on servers west of UTC, the promise ends earlier, by as much as they are.
West == IF Zone < 0 THEN -Zone ELSE 0
TokensServe ==
  \A t \in tokens : clock + West < t.expires /\ Lives(t.user) /\ t.session \notin out =>
    Sessions(t.session) /= {} \/ Excused("crossed", t.session) \/ Excused("late", t.session)

\* Once a logout is answered, no refresh that begins after it is given tokens,
\* whatever refresh was under way meanwhile: that one, which may have found the
\* session before, writes no row that was deleted. (It is itself answered.)
LogoutSticks ==
  \A r \in Requests : req[r].op = "refresh" /\ req[r].answer = "tokens" => ~req[r].late

\* Whoever comes from a provider is the same user every time, also twice at
\* once, with another email, and when that user was deleted meanwhile.
OneSelf ==
  \A r, q \in Requests :
    req[r].op = "oauth" /\ req[q].op = "oauth" /\ req[r].who = req[q].who
      /\ req[r].answer = "tokens" /\ req[q].answer = "tokens" =>
    req[r].user = req[q].user

\* Every request and every cleanup ends, unless a whole batch cannot be deleted.
AllEnd ==
  Cardinality(plan.stuck) < Batch =>
    <>[]((\A r \in Requests : req[r].pc \in {"none", "ended"}) /\ \A i \in Instances : cleaner[i].pc = "idle")
=============================================================================
