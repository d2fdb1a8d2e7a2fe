--------------------------- MODULE SessionsProofs ---------------------------
(****************************************************************************)
(* Proofs about Sessions for every number of requests, people, servers and  *)
(* plans: its types, that a logout sticks, that a person from a provider    *)
(* stays one user, and that a refresh token has its session.                *)
(****************************************************************************)
EXTENDS Sessions, TLAPS

-----------------------------------------------------------------------------
UserIds == {0} \cup Requests

Labels == {"none", "password", "provider", "account", "linked", "email", "create", "link",
           "session", "sign", "guard", "verify", "find", "extend", "delete", "ended"}

Request ==
  [pc : Labels, op : {"none", "login", "oauth", "refresh", "logout"},
   who : People \cup {"none"}, email : Emails, user : UserIds \cup {Nobody},
   session : Nat, expires : Nat, remember : BOOLEAN, late : BOOLEAN,
   answer : {"none", "failed", "tokens", "done"}]

Cleaner == [pc : {"idle", "find", "delete", "release"}, now : Nat, batch : SUBSET Nat,
            full : BOOLEAN]

\* Every variable has its type.
TypeOK ==
  /\ plan \in Plans /\ clock \in Nat
  /\ users \subseteq [id : UserIds, email : Emails]
  /\ accounts \subseteq [who : People, user : UserIds]
  /\ sessions \subseteq [id : Nat, user : UserIds, expires : Nat, remember : BOOLEAN]
  /\ tokens \subseteq [session : Nat, user : UserIds, expires : Nat]
  /\ out \subseteq Nat
  /\ req \in [Requests -> Request]
  /\ cleaner \in [Instances -> Cleaner]
  /\ lock \in [by : Instances \cup {NoInstance}, over : BOOLEAN]
  /\ started \in Nat /\ cleanups \in Nat /\ troubles \in Nat
  /\ history \subseteq {"late", "crossed"} \X Nat

\* The steps that a request of each kind takes.
Steps ==
  [none    |-> {"none"},
   login   |-> {"password", "session", "sign", "ended"},
   oauth   |-> {"provider", "account", "linked", "email", "create", "link", "session", "sign",
                "ended"},
   refresh |-> {"verify", "find", "extend", "sign", "ended"},
   logout  |-> {"guard", "verify", "find", "delete", "ended"}]

\* A request takes the steps of its kind, has not begun before it arrived, ends
\* with its answer, and writes for a user; a provider knows who comes.
RequestsSound ==
  \A r \in Requests : /\ req[r].pc \in Steps[req[r].op]
                      /\ r > started => req[r].pc = "none"
                      /\ req[r].answer # "none" => req[r].pc = "ended"
                      /\ req[r].pc \in {"linked", "link", "session", "sign", "extend", "delete"} =>
                           req[r].user # Nobody
                      /\ req[r].op = "oauth" => req[r].who \in People

-----------------------------------------------------------------------------
(* Logging out *)

\* A session that a request makes is there when its row is.
Made(id) == id \in Requests => /\ req[id].op \in {"login", "oauth"}
                               /\ req[id].pc \in {"sign", "ended"}

\* The ids of sessions that rows, tokens and requests know are of rows that were
\* inserted, once: a session that is made has the id of its request.
SessionsMade ==
  /\ \A s \in sessions : Made(s.id)
  /\ \A t \in tokens : Made(t.session)
  /\ \A id \in out : Made(id)
  /\ \A r \in Requests :
       /\ req[r].op \in {"login", "oauth"} => req[r].session = r
       /\ req[r].op \in {"refresh", "logout"} => Made(req[r].session)

\* A session that was logged out of has no row, and the refreshes that came
\* after it do not get past looking for it.
LogoutHolds ==
  /\ \A id \in out : Sessions(id) = {}
  /\ \A r \in Requests : req[r].late =>
       /\ req[r].op = "refresh" /\ req[r].session \in out
       /\ req[r].pc \in {"verify", "find", "ended"} /\ req[r].answer # "tokens"

-----------------------------------------------------------------------------
(* People from providers *)

\* One account for each person, and whoever is logged in through it is its user.
AccountsHold ==
  /\ \A a, b \in accounts : a.who = b.who => a = b
  /\ \A r \in Requests :
       req[r].op = "oauth" /\ (req[r].pc \in {"linked", "session", "sign"} \/ req[r].answer = "tokens") =>
         [who |-> req[r].who, user |-> req[r].user] \in accounts

-----------------------------------------------------------------------------
(* Tokens *)

\* A user that a request makes is there after it asked for the email.
Born(user) == user \in Requests => /\ req[user].op = "oauth"
                                   /\ req[user].pc \in {"link", "session", "sign", "ended"}

UsersBorn ==
  /\ \A u, v \in users : u.id = v.id => u = v
  /\ \A u \in users : Born(u.id)
  /\ \A a \in accounts : Born(a.user)
  /\ \A s \in sessions : Born(s.user)
  /\ \A t \in tokens : Born(t.user)
  /\ \A r \in Requests : Born(req[r].user)

\* The row of a session is one, lives no longer than a session made now would,
\* and the cleanup goes by a time that is over.
RowsSound ==
  /\ \A s, z \in sessions : s.id = z.id => s = z
  /\ \A s \in sessions : s.expires <= clock + Life(s.remember)
  /\ \A i \in Instances : cleaner[i].now <= clock
  /\ \A r \in Requests : req[r].pc = "extend" =>
       \A s \in Sessions(req[r].session) : s.remember = req[r].remember

\* What takes a row away rightly.
Gone(id, user) == \/ ~Lives(user) \/ id \in out
                  \/ Excused("crossed", id) \/ Excused("late", id)

\* Something that is given out until `expires`, less what servers west of UTC are off,
\* has its session.
Served(id, user, expires) ==
  \/ clock + West >= expires \/ Gone(id, user)
  \/ \E s \in Sessions(id) : s.user = user /\ s.expires >= expires

TokensServed ==
  /\ \A t \in tokens : Served(t.session, t.user, t.expires)
  /\ \A r \in Requests :
       /\ req[r].pc = "sign" => Served(req[r].session, req[r].user, req[r].expires)
       /\ req[r].pc = "extend" =>
            \/ Gone(req[r].session, req[r].user)
            \/ \E s \in Sessions(req[r].session) : s.user = req[r].user

IInv == /\ TypeOK /\ RequestsSound /\ SessionsMade /\ LogoutHolds /\ AccountsHold
        /\ UsersBorn /\ RowsSound /\ TokensServed

-----------------------------------------------------------------------------
(* What the operators of the model do to a request *)

LEMMA ConstantTypes ==
  /\ Count \in Nat /\ Batch \in Nat /\ ShortLife \in Nat /\ LongLife \in Nat
  /\ Requests \subseteq Nat /\ 0 \notin Requests /\ Nobody \notin Requests
  /\ First \in Emails /\ NoInstance \notin Instances
  BY SessionsAssumption DEF Requests, Nobody

LEMMA LifeType == \A remember : Life(remember) \in Nat
  BY ConstantTypes DEF Life

LEMMA WestType == ASSUME TypeOK PROVE West \in Nat /\ Zone \in Int /\ Zone + West >= 0
<1>1. plan.zone \in Int
  BY PlansAssumption DEF TypeOK
<1> QED
  BY <1>1 DEF West, Zone

LEMMA WestKept == ASSUME UNCHANGED <<database, plan>> PROVE West' = West
  BY DEF West, Zone

\* Only the request r has changed, and not in what it arrived with.
Only(r) ==
  /\ req' \in [Requests -> Request]
  /\ \A q \in Requests : q # r => req'[q] = req[q]
  /\ req'[r].op = req[r].op /\ req'[r].who = req[r].who
  /\ req'[r].session = req[r].session /\ req'[r].late = req[r].late

LEMMA GotoEffect ==
  ASSUME req \in [Requests -> Request], NEW r \in Requests, NEW label \in Labels, Goto(r, label)
  PROVE  /\ Only(r) /\ req'[r].pc = label
         /\ req'[r].user = req[r].user /\ req'[r].answer = req[r].answer
         /\ req'[r].expires = req[r].expires /\ req'[r].remember = req[r].remember
<1>1. req[r] \in Request /\ req'[r] = [req[r] EXCEPT !.pc = label]
  BY DEF Goto
<1>2. req'[r] \in Request
  BY <1>1 DEF Request
<1> QED
  BY <1>1, <1>2 DEF Goto, Only, Request

LEMMA EndEffect ==
  ASSUME req \in [Requests -> Request], NEW r \in Requests,
         NEW answer \in {"none", "failed", "tokens", "done"}, End(r, answer)
  PROVE  /\ Only(r) /\ req'[r].pc = "ended" /\ req'[r].answer = answer
         /\ req'[r].user = req[r].user
         /\ req'[r].expires = req[r].expires /\ req'[r].remember = req[r].remember
<1>1. req[r] \in Request /\ req'[r] = [req[r] EXCEPT !.pc = "ended", !.answer = answer]
  BY DEF End
<1>2. req'[r] \in Request
  BY <1>1 DEF Request, Labels
<1> QED
  BY <1>1, <1>2 DEF End, Only, Request

LEMMA AsEffect ==
  ASSUME req \in [Requests -> Request], NEW r \in Requests, NEW label \in Labels,
         NEW user \in UserIds, As(r, user, label)
  PROVE  /\ Only(r) /\ req'[r].pc = label /\ req'[r].user = user
         /\ req'[r].answer = req[r].answer
         /\ req'[r].expires = req[r].expires /\ req'[r].remember = req[r].remember
<1>1. req[r] \in Request /\ req'[r] = [req[r] EXCEPT !.pc = label, !.user = user]
  BY DEF As
<1>2. req'[r] \in Request
  BY <1>1 DEF Request
<1> QED
  BY <1>1, <1>2 DEF As, Only, Request

\* A request that goes on to sign until `expires`.
LEMMA SignEffect ==
  ASSUME req \in [Requests -> Request], NEW r \in Requests, NEW expires \in Nat,
         req' = [req EXCEPT ![r] = [@ EXCEPT !.pc = "sign", !.expires = expires]]
  PROVE  /\ Only(r) /\ req'[r].pc = "sign" /\ req'[r].expires = expires
         /\ req'[r].user = req[r].user /\ req'[r].answer = req[r].answer
         /\ req'[r].remember = req[r].remember
<1>1. req[r] \in Request /\ req'[r] = [req[r] EXCEPT !.pc = "sign", !.expires = expires]
  OBVIOUS
<1>2. req'[r] \in Request
  BY <1>1 DEF Request, Labels
<1> QED
  BY <1>1, <1>2 DEF Only, Request

\* A request that has found its session.
Found(r, s, label) ==
  req' = [req EXCEPT ![r] = [@ EXCEPT !.user = s.user, !.remember = s.remember, !.pc = label]]

LEMMA FoundEffect ==
  ASSUME TypeOK, NEW r \in Requests, NEW s \in sessions, NEW label \in Labels, Found(r, s, label)
  PROVE  /\ Only(r) /\ req'[r].pc = label /\ req'[r].expires = req[r].expires
         /\ req'[r].user = s.user /\ req'[r].answer = req[r].answer
         /\ req'[r].remember = s.remember
<1>1. /\ req \in [Requests -> Request] /\ req[r] \in Request
      /\ s \in [id : Nat, user : UserIds, expires : Nat, remember : BOOLEAN]
  BY DEF TypeOK
<1>2. req'[r] = [req[r] EXCEPT !.user = s.user, !.remember = s.remember, !.pc = label]
  BY <1>1 DEF Found
<1>3. req'[r] \in Request
  BY <1>1, <1>2 DEF Request
<1> QED
  BY <1>1, <1>2, <1>3 DEF Found, Only, Request

\* A request that arrives.
LEMMA ArriveEffect ==
  ASSUME TypeOK, NEW request \in Request, Arrive(request)
  PROVE  /\ started + 1 \in Requests /\ started' = started + 1
         /\ req' \in [Requests -> Request] /\ req'[started + 1] = request
         /\ \A q \in Requests : q # started + 1 => req'[q] = req[q]
         /\ UNCHANGED <<rows, clock, tokens, out, cleaning, database, plan, troubles, history>>
<1>1. plan.requests \in Nat /\ plan.requests <= Count
  BY PlansAssumption DEF TypeOK
<1> QED
  BY <1>1, ConstantTypes DEF Arrive, TypeOK, Requests

-----------------------------------------------------------------------------
(* Steps that only read *)

\* What a request learns from the rows it reads: r goes from one step to the
\* next, for a user that it has found.
Learns(r) ==
  LET from == req[r].pc
      to   == req'[r].pc
      same == req'[r].user = req[r].user /\ req'[r].remember = req[r].remember
      known == req'[r].remember = req[r].remember
  IN
  \/ from = "password" /\ to = "session" /\ req'[r].user = 0 /\ known
  \/ from = "provider" /\ to = "account" /\ same
  \/ from = "account" /\ to = "linked" /\ known
     /\ \E a \in accounts : a.who = req[r].who /\ req'[r].user = a.user
  \/ from = "account" /\ to = "email" /\ same
  \/ from = "linked" /\ to = "session" /\ same
  \/ from = "email" /\ to = "link" /\ known /\ \E u \in users : req'[r].user = u.id
  \/ from = "email" /\ to = "create" /\ same
  \/ from = "guard" /\ to = "verify" /\ same
  \/ from = "verify" /\ to = "find" /\ same
  \/ /\ from = "find" /\ to = IF req[r].op = "logout" THEN "delete" ELSE "extend"
     /\ \E s \in Sessions(req[r].session) : req'[r].user = s.user /\ req'[r].remember = s.remember

\* r only reads, or fails.
Reads(r) ==
  /\ Only(r) /\ req[r].pc \notin {"none", "ended", "sign"}
  /\ req'[r].expires = req[r].expires
  /\ UNCHANGED <<rows, clock, tokens, out, cleaning, database, plan, started, history>>
  /\ troubles' \in Nat
  /\ \/ req'[r].answer = req[r].answer /\ Learns(r)
     \/ req'[r].pc = "ended" /\ req'[r].answer = "failed" /\ req'[r].user = req[r].user
        /\ req'[r].remember = req[r].remember

LEMMA ReadingSteps ==
  ASSUME TypeOK, NEW r \in Requests,
         \/ CheckPassword(r) \/ AskProvider(r) \/ FindAccount(r) \/ FindLinked(r) \/ FindEmail(r)
         \/ Guard(r) \/ Verify(r) \/ FindSession(r) \/ Fail(r)
  PROVE  Reads(r)
<1>0. req \in [Requests -> Request] /\ troubles \in Nat /\ req[r] \in Request
  BY DEF TypeOK
<1> USE DEF bounds, Labels, UserIds
<1>1. CASE CheckPassword(r)
  <2>1. CASE As(r, 0, "session")
    BY <1>0, <1>1, <2>1, AsEffect DEF CheckPassword, Reads, Learns
  <2>2. CASE End(r, "failed")
    BY <1>0, <1>1, <2>2, EndEffect DEF CheckPassword, Reads
  <2> QED
    BY <1>1, <2>1, <2>2 DEF CheckPassword
<1>2. CASE AskProvider(r)
  <2>1. CASE Goto(r, "account")
    BY <1>0, <1>2, <2>1, GotoEffect DEF AskProvider, Reads, Learns
  <2>2. CASE End(r, "failed")
    BY <1>0, <1>2, <2>2, EndEffect DEF AskProvider, Reads
  <2> QED
    BY <1>2, <2>1, <2>2 DEF AskProvider
<1>3. CASE FindAccount(r)
  <2>1. CASE \E a \in accounts : a.who = req[r].who
    <3> DEFINE a == CHOOSE a \in accounts : a.who = req[r].who
    <3>1. a \in accounts /\ a.who = req[r].who
      BY <2>1
    <3>2. As(r, a.user, "linked")
      BY <1>3, <2>1 DEF FindAccount
    <3>3. a.user \in UserIds
      BY <3>1 DEF TypeOK
    <3> HIDE DEF a
    <3> QED
      BY <1>0, <1>3, <3>1, <3>2, <3>3, AsEffect DEF FindAccount, Reads, Learns
  <2>2. CASE ~\E a \in accounts : a.who = req[r].who
    BY <1>0, <1>3, <2>2, GotoEffect DEF FindAccount, Reads, Learns
  <2> QED
    BY <2>1, <2>2
<1>4. CASE FindLinked(r)
  <2>1. CASE Goto(r, "session")
    BY <1>0, <1>4, <2>1, GotoEffect DEF FindLinked, Reads, Learns
  <2>2. CASE End(r, "failed")
    BY <1>0, <1>4, <2>2, EndEffect DEF FindLinked, Reads
  <2> QED
    BY <1>4, <2>1, <2>2 DEF FindLinked
<1>5. CASE FindEmail(r)
  <2>1. CASE \E u \in users : u.email = req[r].email
    <3> DEFINE u == CHOOSE u \in users : u.email = req[r].email
    <3>1. u \in users
      BY <2>1
    <3>2. As(r, u.id, "link")
      BY <1>5, <2>1 DEF FindEmail
    <3>3. u.id \in UserIds
      BY <3>1 DEF TypeOK
    <3> HIDE DEF u
    <3> QED
      BY <1>0, <1>5, <3>1, <3>2, <3>3, AsEffect DEF FindEmail, Reads, Learns
  <2>2. CASE ~\E u \in users : u.email = req[r].email
    BY <1>0, <1>5, <2>2, GotoEffect DEF FindEmail, Reads, Learns
  <2> QED
    BY <2>1, <2>2
<1>6. CASE Guard(r)
  <2>1. CASE Goto(r, "verify")
    BY <1>0, <1>6, <2>1, GotoEffect DEF Guard, Reads, Learns
  <2>2. CASE End(r, "failed")
    BY <1>0, <1>6, <2>2, EndEffect DEF Guard, Reads
  <2> QED
    BY <1>6, <2>1, <2>2 DEF Guard
<1>7. CASE Verify(r)
  <2>1. CASE Goto(r, "find")
    BY <1>0, <1>7, <2>1, GotoEffect DEF Verify, Reads, Learns
  <2>2. CASE End(r, "failed")
    BY <1>0, <1>7, <2>2, EndEffect DEF Verify, Reads
  <2> QED
    BY <1>7, <2>1, <2>2 DEF Verify
<1>8. CASE FindSession(r)
  <2> DEFINE found == {s \in Sessions(req[r].session) : req[r].op = "logout" => s.user = req[r].user}
             label == IF req[r].op = "logout" THEN "delete" ELSE "extend"
  <2>1. CASE End(r, "failed")
    BY <1>0, <1>8, <2>1, EndEffect DEF FindSession, Reads
  <2>2. CASE \E s \in found : req' = [req EXCEPT ![r] = [@ EXCEPT !.user = s.user, !.remember = s.remember,
                                                                  !.pc = label]]
    <3>1. PICK s \in found : req' = [req EXCEPT ![r] = [@ EXCEPT !.user = s.user, !.remember = s.remember,
                                                                   !.pc = label]]
      BY <2>2
    <3>2. s \in sessions /\ s \in Sessions(req[r].session)
      BY <3>1 DEF Sessions
    <3>3. label \in Labels
      OBVIOUS
    <3>4. /\ Only(r) /\ req'[r].pc = label /\ req'[r].expires = req[r].expires
          /\ req'[r].user = s.user /\ req'[r].answer = req[r].answer
          /\ req'[r].remember = s.remember
      <4> HIDE DEF label, found
      <4>1. Found(r, s, label)
        BY <3>1 DEF Found
      <4> QED
        BY <4>1, <3>2, <3>3, FoundEffect
    <3>5. req[r].pc = "find" /\ UNCHANGED <<rows, clock, tokens, out, cleaning, bounds, history>>
      BY <1>8 DEF FindSession
    <3> QED
      BY <1>0, <3>2, <3>4, <3>5 DEF Reads, Learns
  <2> QED
    BY <1>8, <2>1, <2>2 DEF FindSession
<1>9. CASE Fail(r)
  BY <1>0, <1>9, EndEffect DEF Fail, Trouble, Reads
<1> QED
  BY <1>1, <1>2, <1>3, <1>4, <1>5, <1>6, <1>7, <1>8, <1>9

\* Reading keeps everything: what is learned from rows that are sound is sound.
LEMMA ReadsKeep == ASSUME IInv, NEW r \in Requests, Reads(r) PROVE IInv'
<1> USE DEF IInv
<1>0. /\ req \in [Requests -> Request] /\ req[r] \in Request
      /\ \A q \in Requests : q # r => req'[q] = req[q]
      /\ Only(r) /\ UNCHANGED <<users, accounts, sessions, clock, tokens, out, cleaner, history>>
      /\ UNCHANGED <<database, plan>> /\ req'[r].pc \notin {"none", "sign"} /\ req'[r].answer # "tokens"
      /\ req[r].answer = "none" /\ req[r].pc \notin {"none", "ended", "sign"}
  BY DEF Reads, Learns, Only, rows, cleaning, RequestsSound, TypeOK
<1>1. TypeOK'
  BY <1>0 DEF Reads, Only, TypeOK, rows, cleaning
<1>2. RequestsSound'
  <2>1. req'[r].pc \in Steps[req'[r].op]
    BY <1>0 DEF Reads, Learns, Only, RequestsSound, Steps, Request
  <2>2. req'[r].pc \in {"linked", "link", "session", "sign", "extend", "delete"} =>
          req'[r].user # Nobody
    <3>1. \A user \in UserIds : user # Nobody
      BY ConstantTypes DEF UserIds, Nobody
    <3> QED
      BY <1>0, <3>1 DEF Reads, Learns, RequestsSound, Sessions, UserIds, TypeOK
  <2> QED
    BY <1>0, <2>1, <2>2 DEF Reads, Only, RequestsSound
<1>3. \A id : Made(id) => Made(id)'
  BY <1>0 DEF Made, Only
<1>4. SessionsMade'
  BY <1>0, <1>3 DEF SessionsMade, Only
<1>5. \A id : Sessions(id)' = Sessions(id)
  BY <1>0 DEF Sessions
<1>6. LogoutHolds'
  <2>1. ASSUME req[r].late PROVE req'[r].pc \in {"verify", "find", "ended"}
    BY <1>0, <2>1 DEF Reads, Learns, LogoutHolds
  <2> QED
    BY <1>0, <1>5, <2>1 DEF LogoutHolds, Only
<1>7. AccountsHold'
  <2>1. ASSUME req[r].op = "oauth", req'[r].pc \in {"linked", "session", "sign"}
        PROVE  [who |-> req[r].who, user |-> req'[r].user] \in accounts
    <3>1. CASE req'[r].pc = "linked"
      <4>1. PICK a \in accounts : a.who = req[r].who /\ req'[r].user = a.user
        BY <1>0, <3>1 DEF Reads, Learns
      <4>2. a = [who |-> a.who, user |-> a.user]
        BY DEF TypeOK
      <4> QED
        BY <4>1, <4>2
    <3>2. CASE req'[r].pc = "session"
      BY <1>0, <2>1, <3>2 DEF Reads, Learns, AccountsHold, RequestsSound, Steps
    <3> QED
      BY <1>0, <2>1, <3>1, <3>2
  <2> QED
    BY <1>0, <2>1 DEF AccountsHold, Only
<1>8. UsersBorn'
  <2>1. \A user : Born(user) => Born(user)'
    BY <1>0 DEF Born, Only, Reads, Learns
  <2>2. Born(req[r].user)'
    <3>1. Born(0)
      BY ConstantTypes DEF Born
    <3>2. \/ req'[r].user \in {0, req[r].user}
          \/ \E a \in accounts : req'[r].user = a.user
          \/ \E u \in users : req'[r].user = u.id
          \/ \E s \in sessions : req'[r].user = s.user
      BY <1>0 DEF Reads, Learns, Sessions
    <3>3. Born(req'[r].user)
      BY <3>1, <3>2 DEF UsersBorn
    <3> QED
      BY <1>0, <3>3 DEF Born, Only, Reads, Learns
  <2>3. \A q \in Requests : Born(req[q].user)'
    <3>1. ASSUME NEW q \in Requests, q # r PROVE Born(req[q].user)'
      <4>1. Born(req[q].user) /\ req'[q] = req[q]
        BY <1>0, <3>1 DEF UsersBorn
      <4> QED
        BY <1>0, <4>1 DEF Born, Only, Reads, Learns
    <3> QED
      BY <2>2, <3>1
  <2> QED
    BY <1>0, <2>1, <2>3 DEF UsersBorn
<1>9. RowsSound'
  <2>1. ASSUME req'[r].pc = "extend", NEW s \in Sessions(req[r].session)
        PROVE  s.remember = req'[r].remember
    BY <1>0, <2>1 DEF Reads, Learns, RowsSound, Sessions
  <2> QED
    BY <1>0, <1>5, <2>1 DEF RowsSound, Only
<1>10. TokensServed'
  <2>1. \A id, user : Gone(id, user)' = Gone(id, user)
    BY <1>0 DEF Gone, Lives, Excused
  <2>2. \A id, user, expires : Served(id, user, expires)' = Served(id, user, expires)
    <3>1. West' = West /\ clock' = clock
      BY <1>0, WestKept
    <3> QED
      BY <1>5, <2>1, <3>1 DEF Served
  <2>3. ASSUME req'[r].pc = "extend"
        PROVE  \E s \in Sessions(req[r].session) : s.user = req'[r].user
    BY <1>0, <2>3 DEF Reads, Learns
  <2> QED
    BY <1>0, <1>5, <2>1, <2>2, <2>3 DEF TokensServed, Only
<1> QED
  BY <1>1, <1>2, <1>4, <1>6, <1>7, <1>8, <1>9, <1>10

-----------------------------------------------------------------------------
(* Steps that write *)

\* A new request knows only sessions and users that are there.
LEMMA ArriveKeeps ==
  ASSUME IInv, NEW request \in Request, Arrive(request),
         request.pc \in Steps[request.op],
         request.pc \in {"password", "provider", "verify", "guard"}, request.answer = "none",
         request.op \in {"login", "oauth"} => request.session = started + 1,
         request.op \in {"refresh", "logout"} => Made(request.session),
         request.op = "oauth" => request.who \in People,
         Born(request.user),
         request.late => /\ request.op = "refresh" /\ request.session \in out
                         /\ request.pc = "verify"
  PROVE  IInv'
<1> USE DEF IInv
<1> DEFINE n == started + 1
<1>0. /\ n \in Requests /\ started' = n /\ started \in Nat /\ Requests \subseteq Nat
      /\ req' \in [Requests -> Request] /\ req'[n] = request
      /\ \A q \in Requests : q # n => req'[q] = req[q]
      /\ UNCHANGED <<rows, clock, tokens, out, cleaning, database, plan, troubles, history>>
      /\ UNCHANGED <<users, accounts, sessions, cleaner, lock, cleanups>>
  BY ArriveEffect, ConstantTypes DEF TypeOK, rows, cleaning
<1>1. req[n].pc = "none" /\ req \in [Requests -> Request]
  BY <1>0 DEF RequestsSound, TypeOK
<1> HIDE DEF n
<1>2. \A id : Made(id) => id # n /\ Made(id)'
  BY <1>0, <1>1 DEF Made
<1>3. \A user : Born(user) => user # n /\ Born(user)'
  BY <1>0, <1>1 DEF Born
<1>4. TypeOK'
  BY <1>0 DEF TypeOK
<1>5. RequestsSound'
  <2>1. /\ req'[n].pc \in Steps[req'[n].op] /\ req'[n].answer = "none"
        /\ req'[n].op = "oauth" => req'[n].who \in People
    BY <1>0
  <2>2. ASSUME NEW q \in Requests, q > started' PROVE q # n /\ q > started
    BY <1>0, <2>2, ConstantTypes DEF n
  <2> QED
    BY <1>0, <2>1, <2>2, ConstantTypes DEF RequestsSound
<1>6. SessionsMade'
  <2>1. \A q \in Requests : /\ req'[q].op \in {"login", "oauth"} => req'[q].session = q
                            /\ req'[q].op \in {"refresh", "logout"} => Made(req'[q].session)
    BY <1>0 DEF SessionsMade, n
  <2>2. \A q \in Requests : req'[q].op \in {"refresh", "logout"} => Made(req[q].session)'
    BY <1>0, <1>1, <2>1 DEF Made
  <2> QED
    BY <1>0, <1>2, <2>1, <2>2 DEF SessionsMade
<1>7. \A id : Sessions(id)' = Sessions(id)
  BY <1>0 DEF Sessions
<1>8. LogoutHolds'
  BY <1>0, <1>7 DEF LogoutHolds
<1>9. AccountsHold'
  BY <1>0 DEF AccountsHold
<1>10. UsersBorn'
  <2>1. \A q \in Requests : Born(req'[q].user)
    BY <1>0 DEF UsersBorn
  <2>2. \A q \in Requests : Born(req[q].user)'
    BY <1>0, <1>1, <2>1 DEF Born
  <2> QED
    BY <1>0, <1>3, <2>2 DEF UsersBorn
<1>11. RowsSound'
  BY <1>0, <1>7 DEF RowsSound
<1>12. TokensServed'
  <2>1. \A id, user : Gone(id, user)' = Gone(id, user)
    BY <1>0 DEF Gone, Lives, Excused
  <2>2. \A id, user, expires : Served(id, user, expires)' = Served(id, user, expires)
    BY <1>0, <1>7, <2>1, WestKept DEF Served
  <2> QED
    BY <1>0, <1>7, <2>1, <2>2 DEF TokensServed
<1> QED
  BY <1>4, <1>5, <1>6, <1>8, <1>9, <1>10, <1>11, <1>12

LEMMA ArrivalsKeep == ASSUME IInv, Begin \/ Callback PROVE IInv'
<1> USE DEF IInv
<1>0. /\ NoRequest \in Request /\ Born(0) /\ Born(Nobody) /\ started + 1 \in Nat
  BY ConstantTypes DEF NoRequest, Request, Labels, UserIds, Born, TypeOK
<1>1. ASSUME NEW email \in Emails, NEW remember \in BOOLEAN,
             Arrive([NoRequest EXCEPT !.pc = "password", !.op = "login", !.email = email,
                                      !.remember = remember, !.session = started + 1])
      PROVE  IInv'
  <2> DEFINE q == [NoRequest EXCEPT !.pc = "password", !.op = "login", !.email = email,
                                    !.remember = remember, !.session = started + 1]
  <2>1. /\ q \in Request /\ q.pc = "password" /\ q.op = "login" /\ q.answer = "none"
        /\ q.session = started + 1 /\ q.user = Nobody /\ q.late = FALSE
    BY <1>0 DEF Request, Labels, NoRequest
  <2>2. Arrive(q)
    BY <1>1
  <2> HIDE DEF q
  <2>3. q.pc \in Steps[q.op]
    BY <2>1 DEF Steps
  <2> QED
    BY <1>0, <2>1, <2>2, <2>3, ArriveKeeps
<1>2. ASSUME NEW t \in tokens,
             Arrive([NoRequest EXCEPT !.pc = "verify", !.op = "refresh", !.session = t.session,
                                      !.expires = t.expires, !.late = t.session \in out])
      PROVE  IInv'
  <2> DEFINE q == [NoRequest EXCEPT !.pc = "verify", !.op = "refresh", !.session = t.session,
                                    !.expires = t.expires, !.late = t.session \in out]
  <2>1. t.session \in Nat /\ t.expires \in Nat /\ Made(t.session)
    BY DEF TypeOK, SessionsMade
  <2>2. /\ q \in Request /\ q.pc = "verify" /\ q.op = "refresh" /\ q.answer = "none"
        /\ q.session = t.session /\ q.user = Nobody /\ (q.late => t.session \in out)
    <3>1. CASE t.session \in out
      <4>1. q = [NoRequest EXCEPT !.pc = "verify", !.op = "refresh", !.session = t.session,
                                  !.expires = t.expires, !.late = TRUE]
        BY <3>1
      <4> HIDE DEF q
      <4> QED
        BY <1>0, <2>1, <3>1, <4>1 DEF Request, Labels, NoRequest
    <3>2. CASE t.session \notin out
      <4>1. q = [NoRequest EXCEPT !.pc = "verify", !.op = "refresh", !.session = t.session,
                                  !.expires = t.expires, !.late = FALSE]
        <5>1. (t.session \in out) = FALSE
          BY <3>2
        <5> QED
          BY <5>1, Zenon
      <4> HIDE DEF q
      <4> QED
        BY <1>0, <2>1, <4>1 DEF Request, Labels, NoRequest
    <3> QED
      BY <3>1, <3>2
  <2>3. Arrive(q)
    BY <1>2
  <2> HIDE DEF q
  <2>4. q.pc \in Steps[q.op]
    BY <2>2 DEF Steps
  <2> QED
    BY <1>0, <2>1, <2>2, <2>3, <2>4, ArriveKeeps
<1>3. ASSUME NEW t \in tokens, NEW z \in tokens,
             Arrive([NoRequest EXCEPT !.pc = "guard", !.op = "logout", !.session = t.session,
                                      !.expires = t.expires, !.user = z.user])
      PROVE  IInv'
  <2> DEFINE q == [NoRequest EXCEPT !.pc = "guard", !.op = "logout", !.session = t.session,
                                    !.expires = t.expires, !.user = z.user]
  <2>1. /\ t.session \in Nat /\ t.expires \in Nat /\ Made(t.session)
        /\ z.user \in UserIds /\ Born(z.user)
    BY DEF TypeOK, SessionsMade, UsersBorn
  <2>2. /\ q \in Request /\ q.pc = "guard" /\ q.op = "logout" /\ q.answer = "none"
        /\ q.session = t.session /\ q.user = z.user /\ q.late = FALSE
    BY <1>0, <2>1 DEF Request, Labels, NoRequest
  <2>3. Arrive(q)
    BY <1>3
  <2> HIDE DEF q
  <2>4. q.pc \in Steps[q.op]
    BY <2>2 DEF Steps
  <2> QED
    BY <1>0, <2>1, <2>2, <2>3, <2>4, ArriveKeeps
<1>4. ASSUME NEW who \in People, NEW email \in Emails,
             Arrive([NoRequest EXCEPT !.pc = "provider", !.op = "oauth", !.who = who,
                                      !.email = email, !.remember = TRUE, !.session = started + 1])
      PROVE  IInv'
  <2> DEFINE q == [NoRequest EXCEPT !.pc = "provider", !.op = "oauth", !.who = who,
                                    !.email = email, !.remember = TRUE, !.session = started + 1]
  <2>1. /\ q \in Request /\ q.pc = "provider" /\ q.op = "oauth" /\ q.answer = "none"
        /\ q.who \in People /\ q.session = started + 1 /\ q.user = Nobody /\ q.late = FALSE
    BY <1>0 DEF Request, Labels, NoRequest
  <2>2. Arrive(q)
    BY <1>4
  <2> HIDE DEF q
  <2>3. q.pc \in Steps[q.op]
    BY <2>1 DEF Steps
  <2> QED
    BY <1>0, <2>1, <2>2, <2>3, ArriveKeeps
<1>5. ASSUME Begin PROVE IInv'
  BY <1>1, <1>2, <1>3, <1>5 DEF Begin
<1>6. ASSUME Callback PROVE IInv'
  BY <1>4, <1>6 DEF Callback
<1> QED
  BY <1>5, <1>6

\* The operation of a request, by its step.
LEMMA OpOfStep ==
  ASSUME TypeOK, RequestsSound, NEW r \in Requests
  PROVE  /\ req[r].pc \in {"create", "link"} => req[r].op = "oauth"
         /\ req[r].pc = "session" => req[r].op \in {"login", "oauth"}
         /\ req[r].pc = "sign" => req[r].op \in {"login", "oauth", "refresh"}
         /\ req[r].pc = "extend" => req[r].op = "refresh"
         /\ req[r].pc = "delete" => req[r].op = "logout"
<1>1. req[r] \in Request /\ req[r].pc \in Steps[req[r].op]
  BY DEF TypeOK, RequestsSound
<1> QED
  BY <1>1 DEF Steps, Request

\* r takes its last steps, in which users and sessions that it made stay made.
Moves(r) ==
  /\ Only(r) /\ UNCHANGED started
  /\ req[r].pc \in {"create", "link", "session", "sign", "extend", "delete"}
  /\ \/ req[r].pc = "create" /\ req'[r].pc = "link" /\ req'[r].user \in Requests
     \/ req[r].pc = "link" /\ req'[r].pc = "session" /\ req'[r].user = req[r].user
     \/ req[r].pc \in {"session", "extend"} /\ req'[r].pc = "sign" /\ req'[r].user = req[r].user
     \/ req[r].pc \in {"sign", "delete"} /\ req'[r].pc = "ended" /\ req'[r].user = req[r].user
  /\ req'[r].answer = req[r].answer \/ req'[r].pc = "ended"

LEMMA MovesKeep ==
  ASSUME IInv, NEW r \in Requests, Moves(r)
  PROVE  /\ RequestsSound'
         /\ \A id : Made(id) => Made(id)'
         /\ \A user : Born(user) => Born(user)'
<1> USE DEF IInv
<1>1. /\ req \in [Requests -> Request] /\ req[r] \in Request
      /\ req'[r].pc \in Steps[req'[r].op]
  BY OpOfStep DEF Moves, Only, Steps, TypeOK
<1>2. RequestsSound'
  <2>1. \A user \in Requests : user # Nobody
    BY ConstantTypes
  <2>2. req'[r].user # Nobody
    BY <2>1 DEF Moves, RequestsSound
  <2> QED
    BY <1>1, <2>2 DEF Moves, Only, RequestsSound
<1>3. \A id : Made(id) => Made(id)'
  BY DEF Made, Moves, Only
<1>4. \A user : Born(user) => Born(user)'
  BY DEF Born, Moves, Only
<1> QED
  BY <1>2, <1>3, <1>4

\* What was served is served while rows are only added and nobody comes back.
LEMMA ServedStays ==
  ASSUME TypeOK, TypeOK', UNCHANGED <<database, plan>>, clock <= clock', out \subseteq out',
         history \subseteq history', NEW id, NEW user, NEW expires \in Nat, Lives(user)' => Lives(user)
  PROVE  /\ Gone(id, user) => Gone(id, user)'
         /\ sessions \subseteq sessions' =>
              (Served(id, user, expires) => Served(id, user, expires)')
<1>1. Gone(id, user) => Gone(id, user)'
  BY DEF Gone, Excused
<1>2. /\ clock \in Nat /\ clock' \in Nat /\ West \in Nat /\ West' = West
  BY WestType, WestKept DEF TypeOK
<1>3. clock + West >= expires => clock' + West' >= expires
  <2>1. \A a, b, w \in Nat : a <= b /\ a + w >= expires => b + w >= expires
    OBVIOUS
  <2>2. clock + West >= expires => clock' + West >= expires
    BY <1>2, <2>1
  <2> QED
    BY <1>2, <2>2
<1> QED
  BY <1>1, <1>2, <1>3 DEF Served, Sessions

\* What the request q has at hand has its session.
HandServed(q) ==
  /\ req[q].pc = "sign" => Served(req[q].session, req[q].user, req[q].expires)
  /\ req[q].pc = "extend" =>
       \/ Gone(req[q].session, req[q].user)
       \/ \E s \in Sessions(req[q].session) : s.user = req[q].user

\* The tokens and the requests but r are served as before by a step that takes
\* no row away.
LEMMA TokensStay ==
  ASSUME IInv, TypeOK', NEW r \in Requests, Only(r), UNCHANGED <<database, plan>>,
         clock <= clock', sessions \subseteq sessions',
         out \subseteq out', history \subseteq history',
         \A user : Born(user) => (Lives(user)' => Lives(user))
  PROVE  /\ \A t \in tokens : Served(t.session, t.user, t.expires)'
         /\ \A q \in Requests : q # r => HandServed(q)'
<1> USE DEF IInv
<1>1. \A t \in tokens : Served(t.session, t.user, t.expires)'
  <2> TAKE t \in tokens
  <2>1. Born(t.user) /\ t.expires \in Nat /\ Served(t.session, t.user, t.expires)
    BY DEF UsersBorn, TokensServed, TypeOK
  <2> QED
    BY <2>1, ServedStays
<1>2. ASSUME NEW q \in Requests, q # r PROVE HandServed(q)'
  <2>1. req'[q] = req[q]
    BY <1>2 DEF Only
  <2>2. Born(req[q].user) /\ req[q].expires \in Nat
    <3>1. req[q] \in Request
      BY DEF TypeOK
    <3> QED
      BY <3>1 DEF UsersBorn, Request
  <2>3. ASSUME req'[q].pc = "sign" PROVE Served(req[q].session, req[q].user, req[q].expires)'
    <3>1. Served(req[q].session, req[q].user, req[q].expires)
      BY <2>1, <2>3 DEF TokensServed
    <3> QED
      BY <2>1, <2>2, <3>1, ServedStays
  <2>4. ASSUME req'[q].pc = "extend"
        PROVE  (\/ Gone(req[q].session, req[q].user)
                \/ \E s \in Sessions(req[q].session) : s.user = req[q].user)'
    <3>1. \/ Gone(req[q].session, req[q].user)
          \/ \E s \in Sessions(req[q].session) : s.user = req[q].user
      BY <2>1, <2>4 DEF TokensServed
    <3>2. Gone(req[q].session, req[q].user) => Gone(req[q].session, req[q].user)'
      BY <2>1, <2>2, ServedStays
    <3> QED
      BY <2>1, <3>1, <3>2 DEF Sessions
  <2> QED
    BY <2>3, <2>4 DEF HandServed
<1> QED
  BY <1>1, <1>2

LEMMA CreateUserKeeps == ASSUME IInv, NEW r \in Requests, CreateUser(r) PROVE IInv'
<1> USE DEF IInv
<1>0. req \in [Requests -> Request] /\ req[r] \in Request /\ troubles \in Nat
  BY DEF TypeOK
<1>1. CASE \E u \in users : u.email = req[r].email
  <2>1. Reads(r)
    BY <1>0, <1>1, EndEffect DEF CreateUser, Reads, bounds, rows
  <2> QED
    BY <2>1, ReadsKeep
<1>2. CASE ~\E u \in users : u.email = req[r].email
  <2> DEFINE new == [id |-> r, email |-> req[r].email]
  <2>1. /\ users' = users \cup {new} /\ req[r].pc = "create"
        /\ UNCHANGED <<accounts, sessions, clock, tokens, out, cleaner, lock, cleanups, history>>
        /\ UNCHANGED <<database, plan, started, troubles>> /\ As(r, r, "link")
    BY <1>2 DEF CreateUser, cleaning, bounds
  <2>2. /\ Only(r) /\ req'[r].pc = "link" /\ req'[r].user = r /\ req'[r].answer = req[r].answer
    BY <1>0, <2>1, AsEffect DEF Labels, UserIds
  <2>3. Moves(r)
    BY <2>1, <2>2 DEF Moves
  <2>4. RequestsSound' /\ (\A id : Made(id) => Made(id)') /\ (\A user : Born(user) => Born(user)')
    BY <2>3, MovesKeep
  <2>5. ~Born(r) /\ Born(r)' /\ req[r].op = "oauth"
    BY <2>1, <2>2, OpOfStep DEF Born, Only
  <2>6. TypeOK'
    <3>1. new \in [id : UserIds, email : Emails]
      BY <1>0 DEF UserIds, Request
    <3> HIDE DEF new
    <3> QED
      BY <2>1, <2>2, <3>1 DEF TypeOK, Only
  <2>7. \A id : Sessions(id)' = Sessions(id)
    BY <2>1 DEF Sessions
  <2>8. SessionsMade'
    BY <2>1, <2>2, <2>4 DEF SessionsMade, Only
  <2>9. LogoutHolds'
    BY <2>1, <2>2, <2>7 DEF LogoutHolds, Only
  <2>10. AccountsHold'
    BY <2>1, <2>2 DEF AccountsHold, Only, RequestsSound
  <2>11. UsersBorn'
    <3>1. \A u, v \in users' : u.id = v.id => u = v
      BY <2>1, <2>5 DEF UsersBorn
    <3>2. \A u \in users' : Born(u.id)'
      BY <2>1, <2>4, <2>5 DEF UsersBorn
    <3>3. \A q \in Requests : Born(req[q].user)'
      BY <2>2, <2>4, <2>5 DEF UsersBorn, Only
    <3> QED
      BY <2>1, <2>4, <3>1, <3>2, <3>3 DEF UsersBorn
  <2>12. RowsSound'
    BY <2>1, <2>2, <2>7 DEF RowsSound, Only
  <2>13. TokensServed'
    <3>1. \A user : Born(user) => (Lives(user)' => Lives(user))
      BY <2>1, <2>5 DEF Lives
    <3>2. clock <= clock'
      BY <2>1 DEF TypeOK
    <3> QED
      BY <2>1, <2>2, <2>6, <3>1, <3>2, TokensStay DEF TokensServed, HandServed
  <2> QED
    BY <2>4, <2>6, <2>8, <2>9, <2>10, <2>11, <2>12, <2>13
<1> QED
  BY <1>1, <1>2

LEMMA LinkKeeps == ASSUME IInv, NEW r \in Requests, Link(r) PROVE IInv'
<1> USE DEF IInv
<1>0. req \in [Requests -> Request] /\ req[r] \in Request /\ troubles \in Nat
  BY DEF TypeOK
<1>1. CASE End(r, "failed") /\ UNCHANGED accounts
  <2>1. Reads(r)
    BY <1>0, <1>1, EndEffect DEF Link, Reads, bounds, rows
  <2> QED
    BY <2>1, ReadsKeep
<1>2. CASE /\ ~\E a \in accounts : a.who = req[r].who
           /\ accounts' = accounts \cup {[who |-> req[r].who, user |-> req[r].user]}
           /\ Goto(r, "session")
  <2> DEFINE new == [who |-> req[r].who, user |-> req[r].user]
  <2>1. /\ accounts' = accounts \cup {new} /\ req[r].pc = "link"
        /\ UNCHANGED <<users, sessions, clock, tokens, out, cleaner, lock, cleanups, history>>
        /\ UNCHANGED <<database, plan, started, troubles>>
    BY <1>2 DEF Link, cleaning, bounds
  <2>2. /\ Only(r) /\ req'[r].pc = "session" /\ req'[r].user = req[r].user
        /\ req'[r].answer = req[r].answer
    BY <1>0, <1>2, GotoEffect DEF Labels
  <2>3. Moves(r)
    BY <2>1, <2>2 DEF Moves
  <2>4. RequestsSound' /\ (\A id : Made(id) => Made(id)') /\ (\A user : Born(user) => Born(user)')
    BY <2>3, MovesKeep
  <2>5. req[r].op = "oauth" /\ Born(req[r].user)
    BY <2>1, OpOfStep DEF UsersBorn
  <2>6. new \in [who : People, user : UserIds]
    BY <1>0, <2>1, <2>5 DEF Request, RequestsSound
  <2>7. TypeOK'
    <3> HIDE DEF new
    <3> QED
      BY <2>1, <2>2, <2>6 DEF TypeOK, Only
  <2>8. \A id : Sessions(id)' = Sessions(id)
    BY <2>1 DEF Sessions
  <2>9. SessionsMade'
    BY <2>1, <2>2, <2>4 DEF SessionsMade, Only
  <2>10. LogoutHolds'
    BY <2>1, <2>2, <2>8 DEF LogoutHolds, Only
  <2>11. AccountsHold'
    <3>1. \A a, b \in accounts' : a.who = b.who => a = b
      BY <1>2, <2>1 DEF AccountsHold
    <3> QED
      BY <2>1, <2>2, <3>1 DEF AccountsHold, Only
  <2>12. UsersBorn'
    <3>1. \A q \in Requests : Born(req[q].user)'
      BY <2>2, <2>4 DEF UsersBorn, Only
    <3> QED
      BY <2>1, <2>4, <2>5, <3>1 DEF UsersBorn
  <2>13. RowsSound'
    BY <2>1, <2>2, <2>8 DEF RowsSound, Only
  <2>14. TokensServed'
    <3>1. \A user : Lives(user)' = Lives(user)
      BY <2>1 DEF Lives
    <3>2. clock <= clock'
      BY <2>1 DEF TypeOK
    <3> QED
      BY <2>1, <2>2, <2>7, <3>1, <3>2, TokensStay DEF TokensServed, HandServed
  <2> QED
    BY <2>4, <2>7, <2>9, <2>10, <2>11, <2>12, <2>13, <2>14
<1> QED
  BY <1>1, <1>2 DEF Link

LEMMA InsertSessionKeeps == ASSUME IInv, NEW r \in Requests, InsertSession(r) PROVE IInv'
<1> USE DEF IInv
<1>0. req \in [Requests -> Request] /\ req[r] \in Request /\ troubles \in Nat /\ clock \in Nat
  BY DEF TypeOK
<1> DEFINE expires == clock + Life(req[r].remember)
           new == [id |-> r, user |-> req[r].user, expires |-> expires, remember |-> req[r].remember]
<1>1. CASE End(r, "failed") /\ UNCHANGED sessions
  <2>1. Reads(r)
    BY <1>0, <1>1, EndEffect DEF InsertSession, Reads, bounds, rows
  <2> QED
    BY <2>1, ReadsKeep
<1>2. CASE /\ sessions' = sessions \cup {new}
           /\ req' = [req EXCEPT ![r] = [@ EXCEPT !.pc = "sign", !.expires = expires]]
  <2>0. expires \in Nat
    BY <1>0, LifeType
  <2>1. /\ sessions' = sessions \cup {new} /\ req[r].pc = "session"
        /\ UNCHANGED <<users, accounts, clock, tokens, out, cleaner, lock, cleanups, history>>
        /\ UNCHANGED <<database, plan, started, troubles>>
    BY <1>2 DEF InsertSession, cleaning, bounds
  <2>2. /\ Only(r) /\ req'[r].pc = "sign" /\ req'[r].user = req[r].user
        /\ req'[r].answer = req[r].answer /\ req'[r].expires = expires
    <3> HIDE DEF expires
    <3> QED
      BY <1>0, <1>2, <2>0, SignEffect
  <2>3. Moves(r)
    BY <2>1, <2>2 DEF Moves
  <2>4. RequestsSound' /\ (\A id : Made(id) => Made(id)') /\ (\A user : Born(user) => Born(user)')
    BY <2>3, MovesKeep
  <2>5. /\ ~Made(r) /\ Made(r)' /\ req[r].session = r /\ req[r].op \in {"login", "oauth"}
    BY <2>1, <2>2, OpOfStep DEF Made, SessionsMade, Only
  <2>6. /\ new \in [id : Nat, user : UserIds, expires : Nat, remember : BOOLEAN]
        /\ new.id = r /\ new.user = req[r].user /\ new.remember = req[r].remember
        /\ new.expires = expires
    BY <1>0, <2>0, <2>1, ConstantTypes DEF Request, RequestsSound
  <2>7. new.expires <= clock + Life(new.remember)
    BY <1>0, <2>0, <2>6, LifeType
  <2> HIDE DEF new
  <2>8. TypeOK'
    BY <2>1, <2>2, <2>6 DEF TypeOK, Only
  <2>9. \A id : id # r => Sessions(id)' = Sessions(id)
    BY <2>1, <2>6 DEF Sessions
  <2>10. SessionsMade'
    BY <2>1, <2>2, <2>4, <2>5, <2>6 DEF SessionsMade, Only
  <2>11. LogoutHolds'
    BY <2>1, <2>2, <2>5, <2>9 DEF LogoutHolds, Only, SessionsMade
  <2>12. AccountsHold'
    BY <2>1, <2>2 DEF AccountsHold, Only, RequestsSound
  <2>13. UsersBorn'
    <3>1. \A q \in Requests : Born(req[q].user)'
      BY <2>2, <2>4 DEF UsersBorn, Only
    <3>2. Born(new.user)
      BY <2>6 DEF UsersBorn
    <3> QED
      BY <2>1, <2>4, <3>1, <3>2 DEF UsersBorn
  <2>14. RowsSound'
    <3>1. \A s, z \in sessions' : s.id = z.id => s = z
      BY <2>1, <2>5, <2>6 DEF RowsSound, SessionsMade
    <3>2. \A s \in sessions' : s.expires <= clock' + Life(s.remember)
      BY <2>1, <2>7 DEF RowsSound
    <3>3. \A i \in Instances : cleaner'[i].now <= clock'
      BY <2>1 DEF RowsSound
    <3>4. ASSUME NEW q \in Requests, req'[q].pc = "extend"
          PROVE  \A s \in Sessions(req[q].session)' : s.remember = req'[q].remember
      <4>1. q # r /\ req'[q] = req[q]
        BY <2>2, <3>4 DEF Only
      <4>2. req[q].op = "refresh"
        BY <3>4, <4>1, OpOfStep
      <4>3. Made(req[q].session)
        BY <4>2 DEF SessionsMade
      <4>4. req[q].session # r
        BY <2>5, <4>3
      <4> QED
        BY <2>9, <3>4, <4>1, <4>4 DEF RowsSound
    <3> QED
      BY <3>1, <3>2, <3>3, <3>4 DEF RowsSound
  <2>15. TokensServed'
    <3>1. \A user : Lives(user)' = Lives(user)
      BY <2>1 DEF Lives
    <3>2. clock <= clock'
      BY <1>0, <2>1
    <3>3. new \in Sessions(r)'
      BY <2>1, <2>6 DEF Sessions
    <3>4. HandServed(r)'
      BY <2>0, <2>2, <2>5, <2>6, <3>3 DEF HandServed, Served, Only
    <3> QED
      BY <2>1, <2>2, <2>8, <3>1, <3>2, <3>4, TokensStay DEF TokensServed, HandServed
  <2> QED
    BY <2>4, <2>8, <2>10, <2>11, <2>12, <2>13, <2>14, <2>15
<1> QED
  BY <1>1, <1>2 DEF InsertSession

LEMMA SignKeeps == ASSUME IInv, NEW r \in Requests, Sign(r) PROVE IInv'
<1> USE DEF IInv
<1> DEFINE expires == clock + Life(req[r].remember)
           new == [session |-> req[r].session, user |-> req[r].user, expires |-> expires]
           same == req[r].op = "refresh" /\ ~req[r].remember
<1>0. /\ req \in [Requests -> Request] /\ req[r] \in Request /\ clock \in Nat
      /\ expires \in Nat /\ req[r].expires \in Nat /\ req[r].session \in Nat
  BY LifeType DEF TypeOK, Request
<1>1. /\ req[r].pc = "sign"
      /\ UNCHANGED <<users, accounts, sessions, clock, out, cleaner, lock, cleanups>>
      /\ UNCHANGED <<database, plan, started, troubles>>
  BY DEF Sign, rows, cleaning, bounds
<1>2. /\ Only(r) /\ req'[r].pc = "ended" /\ req'[r].user = req[r].user
      /\ req'[r].answer = "tokens"
  BY <1>0, EndEffect DEF Sign
<1>3. Moves(r)
  BY <1>1, <1>2 DEF Moves
<1>4. RequestsSound' /\ (\A id : Made(id) => Made(id)') /\ (\A user : Born(user) => Born(user)')
  BY <1>3, MovesKeep
<1>5. /\ tokens \subseteq tokens' /\ tokens' \subseteq tokens \cup {new}
      /\ history \subseteq history' /\ history' \subseteq history \cup {<<"late", req[r].session>>}
      /\ new \in tokens' \ tokens => expires <= req[r].expires \/ <<"late", req[r].session>> \in history'
  <2>1. CASE same
    BY <2>1 DEF Sign
  <2>2. CASE ~same
    BY <1>0, <2>2 DEF Sign
  <2> QED
    BY <2>1, <2>2
<1>6. /\ new \in [session : Nat, user : UserIds, expires : Nat]
      /\ new.session = req[r].session /\ new.user = req[r].user /\ new.expires = expires
  BY <1>0, <1>1 DEF Request, RequestsSound
<1>7. Made(new.session) /\ Born(new.user)
  <2>1. Made(req[r].session)
    BY <1>1, OpOfStep DEF Made, SessionsMade
  <2> QED
    BY <1>6, <2>1 DEF UsersBorn
<1> HIDE DEF new, expires, same
<1>8. TypeOK'
  BY <1>0, <1>1, <1>2, <1>5, <1>6 DEF TypeOK, Only
<1>9. \A id : Sessions(id)' = Sessions(id)
  BY <1>1 DEF Sessions
<1>10. SessionsMade'
  BY <1>1, <1>2, <1>4, <1>5, <1>7 DEF SessionsMade, Only
<1>11. LogoutHolds'
  BY <1>1, <1>2, <1>9 DEF LogoutHolds, Only
<1>12. AccountsHold'
  BY <1>1, <1>2 DEF AccountsHold, Only
<1>13. UsersBorn'
  <2>1. \A q \in Requests : Born(req[q].user)'
    BY <1>2, <1>4 DEF UsersBorn, Only
  <2> QED
    BY <1>1, <1>4, <1>5, <1>7, <2>1 DEF UsersBorn
<1>14. RowsSound'
  BY <1>1, <1>2, <1>9 DEF RowsSound, Only
<1>15. TokensServed'
  <2>1. \A user : Lives(user)' = Lives(user)
    BY <1>1 DEF Lives
  <2>2. clock <= clock'
    BY <1>0, <1>1
  <2>3. /\ \A t \in tokens : Served(t.session, t.user, t.expires)'
        /\ \A q \in Requests : q # r => HandServed(q)'
    BY <1>1, <1>2, <1>5, <1>8, <2>1, <2>2, TokensStay
  <2>4. ASSUME NEW t \in tokens', t \notin tokens PROVE Served(t.session, t.user, t.expires)'
    <3>1. /\ t = new /\ t.session = req[r].session /\ t.user = req[r].user /\ t.expires = expires
          /\ expires <= req[r].expires \/ <<"late", t.session>> \in history'
      BY <1>5, <1>6, <2>4
    <3>2. CASE <<"late", t.session>> \in history'
      BY <3>2 DEF Served, Gone, Excused
    <3>3. CASE expires <= req[r].expires
      <4>1. Served(t.session, t.user, req[r].expires)
        BY <1>1, <3>1 DEF TokensServed
      <4>2. Served(t.session, t.user, t.expires)
        BY <1>0, <3>1, <3>3, <4>1, WestType DEF Served, Sessions, TypeOK
      <4> QED
        BY <1>0, <1>1, <1>5, <1>8, <2>1, <2>2, <3>1, <4>2, ServedStays
    <3> QED
      BY <3>1, <3>2, <3>3
  <2>5. HandServed(r)'
    BY <1>2 DEF HandServed
  <2> QED
    BY <1>5, <2>3, <2>4, <2>5 DEF TokensServed, HandServed
<1> QED
  BY <1>4, <1>8, <1>10, <1>11, <1>12, <1>13, <1>14, <1>15

\* Extending a session changes its expiry only, to a later one.
LEMMA ExtendKeeps == ASSUME IInv, NEW r \in Requests, Extend(r) PROVE IInv'
<1> USE DEF IInv
<1> DEFINE expires == clock + Life(req[r].remember)
           Extended(s) == IF s.id = req[r].session THEN [s EXCEPT !.expires = expires] ELSE s
<1>0. /\ req \in [Requests -> Request] /\ req[r] \in Request /\ clock \in Nat /\ expires \in Nat
      /\ sessions \subseteq [id : Nat, user : UserIds, expires : Nat, remember : BOOLEAN]
  BY LifeType DEF TypeOK
<1>1. /\ req[r].pc = "extend" /\ sessions' = {Extended(s) : s \in sessions}
      /\ UNCHANGED <<users, accounts, clock, tokens, out, cleaner, lock, cleanups, history>>
      /\ UNCHANGED <<database, plan, started, troubles>>
  BY DEF Extend, cleaning, bounds
<1>2. /\ Only(r) /\ req'[r].pc = "sign" /\ req'[r].user = req[r].user
      /\ req'[r].answer = req[r].answer /\ req'[r].expires = expires
  <2>1. req' = [req EXCEPT ![r] = [@ EXCEPT !.pc = "sign", !.expires = expires]]
    BY DEF Extend
  <2> HIDE DEF expires
  <2> QED
    BY <1>0, <2>1, SignEffect
<1>3. Moves(r)
  BY <1>1, <1>2 DEF Moves
<1>4. RequestsSound' /\ (\A id : Made(id) => Made(id)') /\ (\A user : Born(user) => Born(user)')
  BY <1>3, MovesKeep
<1>5. \A s \in sessions : s.id = req[r].session => s.remember = req[r].remember
  BY <1>1 DEF RowsSound, Sessions
<1>6. \A s \in sessions : /\ Extended(s).id = s.id /\ Extended(s).user = s.user
                          /\ Extended(s).remember = s.remember
                          /\ Extended(s) \in [id : Nat, user : UserIds, expires : Nat, remember : BOOLEAN]
                          /\ Extended(s).expires = IF s.id = req[r].session THEN expires ELSE s.expires
  <2> HIDE DEF expires
  <2> QED
    BY <1>0
<1>7. \A s \in sessions : /\ s.expires <= Extended(s).expires
                          /\ Extended(s).expires <= clock + Life(s.remember)
  <2> HIDE DEF Extended
  <2> TAKE s \in sessions
  <2>1. s.expires \in Nat /\ s.expires <= clock + Life(s.remember)
    BY <1>0 DEF RowsSound
  <2>2. CASE s.id = req[r].session
    <3>1. Extended(s).expires = expires /\ Life(s.remember) = Life(req[r].remember)
      BY <1>5, <1>6, <2>2
    <3> QED
      BY <1>0, <2>1, <3>1
  <2>3. CASE s.id # req[r].session
    BY <1>6, <2>1, <2>3
  <2> QED
    BY <2>2, <2>3
<1> HIDE DEF expires, Extended
<1>8. TypeOK'
  BY <1>0, <1>1, <1>2, <1>6 DEF TypeOK, Only
<1>9. SessionsMade'
  BY <1>1, <1>2, <1>4, <1>6 DEF SessionsMade, Only
<1>10. LogoutHolds'
  <2>1. \A id \in out : Sessions(id)' = {}
    BY <1>1, <1>6 DEF Sessions, LogoutHolds
  <2> QED
    BY <1>1, <1>2, <2>1 DEF LogoutHolds, Only
<1>11. AccountsHold'
  <2>1. req[r].op = "refresh"
    BY <1>1, OpOfStep
  <2> QED
    BY <1>1, <1>2, <2>1 DEF AccountsHold, Only
<1>12. UsersBorn'
  <2>1. \A q \in Requests : Born(req[q].user)'
    BY <1>2, <1>4 DEF UsersBorn, Only
  <2> QED
    BY <1>1, <1>4, <1>6, <2>1 DEF UsersBorn
<1>13. RowsSound'
  <2>1. \A s, z \in sessions' : s.id = z.id => s = z
    BY <1>1, <1>6 DEF RowsSound
  <2>2. \A s \in sessions' : s.expires <= clock' + Life(s.remember)
    BY <1>1, <1>6, <1>7
  <2>3. ASSUME NEW q \in Requests, req'[q].pc = "extend"
        PROVE  \A s \in Sessions(req[q].session)' : s.remember = req'[q].remember
    <3>1. q # r /\ req'[q] = req[q]
      BY <1>2, <2>3 DEF Only
    <3>2. \A s \in sessions : s.id = req[q].session => s.remember = req[q].remember
      BY <2>3, <3>1 DEF RowsSound, Sessions
    <3> QED
      BY <1>1, <1>6, <3>1, <3>2 DEF Sessions
  <2> QED
    BY <1>1, <2>1, <2>2, <2>3 DEF RowsSound
<1>14. TokensServed'
  <2>1. \A id, user : Gone(id, user) => Gone(id, user)'
    BY <1>1 DEF Gone, Lives, Excused
  <2>2. \A id, user : \A e \in Nat : Served(id, user, e) => Served(id, user, e)'
    <3> TAKE id, user
    <3> TAKE e \in Nat
    <3>1. ASSUME NEW s \in Sessions(id), s.user = user, s.expires >= e
          PROVE  \E z \in Sessions(id)' : z.user = user /\ z.expires >= e
      <4>1. s \in sessions /\ s.id = id
        BY <3>1 DEF Sessions
      <4>2. Extended(s) \in sessions' /\ Extended(s).id = id /\ Extended(s).user = user
        BY <1>1, <1>6, <3>1, <4>1
      <4>3. Extended(s).expires >= e
        BY <1>0, <1>6, <1>7, <3>1, <4>1
      <4> QED
        BY <4>2, <4>3 DEF Sessions
    <3> QED
      BY <1>1, <2>1, <3>1, WestKept DEF Served
  <2>3. \A t \in tokens : Served(t.session, t.user, t.expires)'
    BY <2>2 DEF TokensServed, TypeOK
  <2>4. HandServed(r)'
    <3>1. CASE Gone(req[r].session, req[r].user)
      BY <1>2, <2>1, <3>1 DEF HandServed, Served, Only
    <3>2. ASSUME NEW s \in Sessions(req[r].session), s.user = req[r].user PROVE HandServed(r)'
      <4>1. s \in sessions /\ s.id = req[r].session
        BY <3>2 DEF Sessions
      <4>2. /\ Extended(s) \in sessions' /\ Extended(s).id = req'[r].session
            /\ Extended(s).user = req'[r].user /\ Extended(s).expires >= req'[r].expires
        BY <1>0, <1>1, <1>2, <1>6, <3>2, <4>1 DEF Only
      <4> QED
        BY <1>2, <4>2 DEF HandServed, Served, Sessions
    <3> QED
      BY <1>1, <3>1, <3>2 DEF TokensServed
  <2>5. ASSUME NEW q \in Requests, q # r PROVE HandServed(q)'
    <3>1. req'[q] = req[q] /\ req[q].expires \in Nat
      BY <1>0, <1>2, <2>5 DEF Only, Request
    <3>2. \A s \in Sessions(req[q].session) : \E z \in Sessions(req[q].session)' : z.user = s.user
      BY <1>1, <1>6, <3>1 DEF Sessions
    <3> QED
      BY <2>1, <2>2, <3>1, <3>2 DEF HandServed, TokensServed
  <2> QED
    BY <1>1, <2>3, <2>4, <2>5 DEF TokensServed, HandServed
<1> QED
  BY <1>4, <1>8, <1>9, <1>10, <1>11, <1>12, <1>13, <1>14

\* What was served is served by a step that takes rows away for a reason.
LEMMA ServedKept ==
  ASSUME TypeOK, TypeOK', UNCHANGED <<database, plan>>, clock <= clock', out \subseteq out',
         history \subseteq history', sessions' \subseteq sessions,
         NEW id, NEW user, NEW expires \in Nat, Lives(user)' => Lives(user),
         \A s \in sessions \ sessions' : s.id = id /\ s.user = user /\ s.expires >= expires =>
           Gone(id, user)' \/ clock' + West >= expires,
         Served(id, user, expires)
  PROVE  Served(id, user, expires)'
<1>1. Gone(id, user) => Gone(id, user)'
  BY DEF Gone, Excused
<1>2. /\ clock \in Nat /\ clock' \in Nat /\ West \in Nat /\ West' = West
  BY WestType, WestKept DEF TypeOK
<1>3. clock + West >= expires => clock' + West' >= expires
  <2>1. \A a, b, w \in Nat : a <= b /\ a + w >= expires => b + w >= expires
    OBVIOUS
  <2>2. clock + West >= expires => clock' + West >= expires
    BY <1>2, <2>1
  <2> QED
    BY <1>2, <2>2
<1> QED
  BY <1>1, <1>2, <1>3 DEF Served, Sessions

LEMMA DeleteSessionKeeps == ASSUME IInv, NEW r \in Requests, DeleteSession(r) PROVE IInv'
<1> USE DEF IInv
<1>0. /\ req \in [Requests -> Request] /\ req[r] \in Request /\ clock \in Nat
      /\ req[r].session \in Nat
  BY DEF TypeOK, Request
<1>1. /\ req[r].pc = "delete" /\ sessions' = sessions \ Sessions(req[r].session)
      /\ out' = out \cup {req[r].session}
      /\ UNCHANGED <<users, accounts, clock, tokens, cleaner, lock, cleanups, history>>
      /\ UNCHANGED <<database, plan, started, troubles>>
  BY DEF DeleteSession, cleaning, bounds
<1>2. /\ Only(r) /\ req'[r].pc = "ended" /\ req'[r].user = req[r].user
      /\ req'[r].answer = "done"
  BY <1>0, EndEffect DEF DeleteSession
<1>3. Moves(r)
  BY <1>1, <1>2 DEF Moves
<1>4. RequestsSound' /\ (\A id : Made(id) => Made(id)') /\ (\A user : Born(user) => Born(user)')
  BY <1>3, MovesKeep
<1>5. req[r].op = "logout" /\ Made(req[r].session)
  BY <1>1, OpOfStep DEF SessionsMade
<1>6. TypeOK'
  BY <1>0, <1>1, <1>2 DEF TypeOK, Only
<1>7. SessionsMade'
  BY <1>1, <1>2, <1>4, <1>5 DEF SessionsMade, Only
<1>8. LogoutHolds'
  <2>1. \A id \in out' : Sessions(id)' = {}
    BY <1>1 DEF Sessions, LogoutHolds
  <2> QED
    BY <1>1, <1>2, <1>5, <2>1 DEF LogoutHolds, Only
<1>9. AccountsHold'
  BY <1>1, <1>2, <1>5 DEF AccountsHold, Only
<1>10. UsersBorn'
  <2>1. \A q \in Requests : Born(req[q].user)'
    BY <1>2, <1>4 DEF UsersBorn, Only
  <2> QED
    BY <1>1, <1>4, <2>1 DEF UsersBorn
<1>11. RowsSound'
  BY <1>1, <1>2 DEF RowsSound, Only, Sessions
<1>12. TokensServed'
  <2>1. \A id, user : Gone(id, user) => Gone(id, user)'
    BY <1>1 DEF Gone, Lives, Excused
  <2>2. \A s \in sessions \ sessions' : \A user : Gone(s.id, user)'
    BY <1>1 DEF Sessions, Gone
  <2>3. \A user : Lives(user)' = Lives(user)
    BY <1>1 DEF Lives
  <2>4. \A id, user : \A expires \in Nat : Served(id, user, expires) => Served(id, user, expires)'
    BY <1>0, <1>1, <1>6, <2>2, <2>3, ServedKept
  <2>5. \A t \in tokens : Served(t.session, t.user, t.expires)'
    BY <2>4 DEF TokensServed, TypeOK
  <2>6. HandServed(r)'
    BY <1>2 DEF HandServed
  <2>7. ASSUME NEW q \in Requests, q # r PROVE HandServed(q)'
    <3>1. req'[q] = req[q] /\ req[q].expires \in Nat
      BY <1>0, <1>2, <2>7 DEF Only, Request
    <3>2. \A s \in Sessions(req[q].session) :
            Gone(req[q].session, req[q].user)' \/ s \in Sessions(req[q].session)'
      BY <2>2, <3>1 DEF Sessions
    <3> QED
      BY <2>1, <2>4, <3>1, <3>2 DEF HandServed, TokensServed
  <2> QED
    BY <1>1, <2>5, <2>6, <2>7 DEF TokensServed, HandServed
<1> QED
  BY <1>4, <1>6, <1>7, <1>8, <1>9, <1>10, <1>11, <1>12

-----------------------------------------------------------------------------
(* The cleanup, and what else happens *)

\* A step that leaves the requests, users and accounts alone, takes away rows for
\* a reason only, and keeps the time of the cleanups in the past.
LEMMA AroundKeeps ==
  ASSUME IInv, TypeOK', UNCHANGED <<accounts, tokens, out, req, started, database, plan>>,
         users' \subseteq users, sessions' \subseteq sessions, clock <= clock',
         history \subseteq history', \A i \in Instances : cleaner'[i].now <= clock',
         \A s \in sessions \ sessions' :
           \/ Gone(s.id, s.user)'
           \/ /\ s.expires <= clock' + West
              /\ \A q \in Requests : req[q].pc = "extend" => req[q].session # s.id
  PROVE  IInv'
<1> USE DEF IInv
<1>0. req' = req /\ clock \in Nat /\ clock' \in Nat /\ req \in [Requests -> Request]
  BY DEF TypeOK
<1>1. RequestsSound' /\ SessionsMade' /\ AccountsHold'
  BY DEF RequestsSound, SessionsMade, AccountsHold, Made
<1>2. \A user : Lives(user)' => Lives(user)
  BY DEF Lives
<1>3. LogoutHolds'
  BY DEF LogoutHolds, Sessions
<1>4. UsersBorn'
  BY DEF UsersBorn, Born
<1>5. RowsSound'
  <2>1. \A s \in sessions : s.expires <= clock' + Life(s.remember)
    <3> TAKE s \in sessions
    <3>1. s.expires <= clock + Life(s.remember) /\ s.expires \in Nat /\ Life(s.remember) \in Nat
      BY LifeType DEF RowsSound, TypeOK
    <3> QED
      BY <1>0, <3>1
  <2> QED
    BY <2>1 DEF RowsSound, Sessions
<1>6. TokensServed'
  <2>1. \A id, user : Gone(id, user) => Gone(id, user)'
    BY <1>2 DEF Gone, Excused
  <2>2. ASSUME NEW id, NEW user, NEW expires \in Nat, Served(id, user, expires)
        PROVE  Served(id, user, expires)'
    <3>1. ASSUME NEW s \in sessions \ sessions', s.id = id, s.user = user, s.expires >= expires
          PROVE  Gone(id, user)' \/ clock' + West >= expires
      <4>1. s.expires \in Nat /\ West \in Nat
        BY WestType DEF TypeOK
      <4> QED
        BY <1>0, <3>1, <4>1
    <3> QED
      BY <1>2, <2>2, <3>1, ServedKept
  <2>3. \A t \in tokens : Served(t.session, t.user, t.expires)'
    BY <2>2 DEF TokensServed, TypeOK
  <2>4. ASSUME NEW q \in Requests PROVE HandServed(q)'
    <3>1. req[q].expires \in Nat
      BY <1>0 DEF Request
    <3>2. ASSUME req[q].pc = "extend", NEW s \in Sessions(req[q].session), s.user = req[q].user
          PROVE  Gone(req[q].session, req[q].user)' \/ s \in Sessions(req[q].session)'
      BY <1>0, <3>2 DEF Sessions
    <3> QED
      BY <1>0, <2>1, <2>2, <3>1, <3>2 DEF HandServed, TokensServed
  <2> QED
    BY <2>3, <2>4 DEF TokensServed, HandServed
<1> QED
  BY <1>1, <1>3, <1>4, <1>5, <1>6

LEMMA CleanerTypes ==
  ASSUME cleaner \in [Instances -> Cleaner], clock \in Nat, NEW i \in Instances
  PROVE  /\ Idle \in Cleaner /\ [Idle EXCEPT !.pc = "find", !.now = clock] \in Cleaner
         /\ [Idle EXCEPT !.pc = "find", !.now = clock].now = clock /\ Idle.now = 0
         /\ \A c \in Cleaner : [cleaner EXCEPT ![i] = c] \in [Instances -> Cleaner]
         /\ \A label \in {"idle", "find", "delete", "release"}, batch \in SUBSET Nat :
              \A c \in Cleaner :
                /\ [c EXCEPT !.pc = label] \in Cleaner
                /\ [c EXCEPT !.batch = batch, !.pc = label] \in Cleaner
                /\ [c EXCEPT !.pc = label].now = c.now
                /\ [c EXCEPT !.batch = batch, !.pc = label].now = c.now
<1>1. Idle \in Cleaner /\ Idle.now = 0
  BY DEF Idle, Cleaner
<1>2. /\ [Idle EXCEPT !.pc = "find", !.now = clock] \in Cleaner
      /\ [Idle EXCEPT !.pc = "find", !.now = clock].now = clock
  BY DEF Idle, Cleaner
<1>3. \A c \in Cleaner : [cleaner EXCEPT ![i] = c] \in [Instances -> Cleaner]
  OBVIOUS
<1>4. ASSUME NEW label \in {"idle", "find", "delete", "release"}, NEW batch \in SUBSET Nat, NEW c \in Cleaner
      PROVE  /\ [c EXCEPT !.pc = label] \in Cleaner
             /\ [c EXCEPT !.batch = batch, !.pc = label] \in Cleaner
             /\ [c EXCEPT !.pc = label].now = c.now
             /\ [c EXCEPT !.batch = batch, !.pc = label].now = c.now
  BY DEF Cleaner
<1> QED
  BY <1>1, <1>2, <1>3, <1>4

LEMMA WithoutType ==
  ASSUME cleaner \in [Instances -> Cleaner], NEW i \in Instances, NEW id
  PROVE  \E c \in Cleaner : Without(i, id) = [cleaner EXCEPT ![i] = c] /\ c.now = cleaner[i].now
<1> DEFINE left == cleaner[i].batch \ {id}
           c == [cleaner[i] EXCEPT !.batch = left, !.pc = Then(left, cleaner[i].full)]
<1>1. Then(left, cleaner[i].full) \in {"idle", "find", "delete", "release"}
  BY DEF Then
<1>2. left \in SUBSET Nat
  BY DEF Cleaner
<1>3. Without(i, id) = [cleaner EXCEPT ![i] = c]
  BY DEF Without
<1> HIDE DEF left
<1>4. c \in Cleaner /\ c.now = cleaner[i].now
  BY <1>1, <1>2 DEF Cleaner
<1> QED
  BY <1>3, <1>4

\* Taking the lock, reading a batch and giving the lock back change no row.
LEMMA CleaningKeeps ==
  ASSUME IInv, NEW i \in Instances,
         StartCleanup(i) \/ FindExpired(i) \/ EndCleanup(i) \/ FailCleanup(i)
  PROVE  IInv'
<1> USE DEF IInv
<1>0. /\ cleaner \in [Instances -> Cleaner] /\ cleaner[i] \in Cleaner /\ clock \in Nat
      /\ cleanups \in Nat /\ troubles \in Nat /\ cleaner[i].batch \in SUBSET Nat
      /\ \A j \in Instances : cleaner[j].now <= clock
  BY DEF TypeOK, Cleaner, RowsSound
<1>1. UNCHANGED <<users, accounts, sessions, clock, tokens, out, req, history, database, plan, started>>
  BY DEF StartCleanup, FindExpired, EndCleanup, FailCleanup, Trouble, rows, bounds
<1>2. /\ cleaner' = cleaner \/ \E c \in Cleaner : /\ cleaner' = [cleaner EXCEPT ![i] = c]
                                                  /\ c.now \in {0, clock, cleaner[i].now}
      /\ lock' \in [by : Instances \cup {NoInstance}, over : BOOLEAN]
      /\ cleanups' \in Nat /\ troubles' \in Nat
  <2> DEFINE Good == cleaner' = cleaner \/ \E c \in Cleaner : /\ cleaner' = [cleaner EXCEPT ![i] = c]
                                                              /\ c.now \in {0, clock, cleaner[i].now}
  <2>1. CASE StartCleanup(i)
    <3>1. Good
      BY <1>0, <2>1, CleanerTypes DEF StartCleanup
    <3>2. lock' \in [by : Instances \cup {NoInstance}, over : BOOLEAN]
      <4>1. [by |-> i, over |-> FALSE] \in [by : Instances \cup {NoInstance}, over : BOOLEAN]
        OBVIOUS
      <4> QED
        BY <2>1, <4>1 DEF StartCleanup, TypeOK
    <3> QED
      BY <1>0, <2>1, <3>1, <3>2 DEF StartCleanup, bounds
  <2>2. CASE FindExpired(i)
    <3>1. PICK batch \in SUBSET Expired(i) :
                 cleaner' = [cleaner EXCEPT ![i] =
                   [@ EXCEPT !.pc = IF batch = {} THEN "release" ELSE "delete",
                             !.batch = batch, !.full = Cardinality(batch) = Batch]]
      BY <2>2 DEF FindExpired
    <3> DEFINE c == [cleaner[i] EXCEPT !.pc = IF batch = {} THEN "release" ELSE "delete",
                                       !.batch = batch, !.full = Cardinality(batch) = Batch]
    <3>2. batch \in SUBSET Nat
      BY DEF Expired, TypeOK
    <3>3. c \in Cleaner /\ c.now = cleaner[i].now
      BY <1>0, <3>2 DEF Cleaner
    <3>4. cleaner' = [cleaner EXCEPT ![i] = c]
      BY <3>1
    <3> HIDE DEF c
    <3> QED
      BY <1>0, <2>2, <3>3, <3>4 DEF FindExpired, TypeOK, bounds
  <2>3. CASE EndCleanup(i)
    <3>1. Good
      BY <1>0, <2>3, CleanerTypes DEF EndCleanup
    <3> QED
      BY <1>0, <2>3, <3>1 DEF EndCleanup, TypeOK, bounds
  <2>4. CASE FailCleanup(i)
    <3>1. ASSUME At(i, "release") PROVE Good
      <4> DEFINE c == [cleaner[i] EXCEPT !.pc = "release"]
      <4>1. c \in Cleaner /\ c.now = cleaner[i].now
        BY <1>0, CleanerTypes
      <4>2. cleaner' = [cleaner EXCEPT ![i] = c]
        BY <3>1 DEF At
      <4> HIDE DEF c
      <4> QED
        BY <4>1, <4>2
    <3>2. ASSUME NEW id \in cleaner[i].batch, cleaner' = Without(i, id) PROVE Good
      BY <1>0, <3>2, WithoutType
    <3>3. ASSUME cleaner' = [cleaner EXCEPT ![i] = Idle] PROVE Good
      BY <1>0, <3>3, CleanerTypes
    <3>4. Good
      BY <2>4, <3>1, <3>2, <3>3 DEF FailCleanup
    <3> QED
      BY <1>0, <2>4, <3>4 DEF FailCleanup, Trouble, TypeOK
  <2> QED
    BY <2>1, <2>2, <2>3, <2>4
<1>3. cleaner' \in [Instances -> Cleaner] /\ \A j \in Instances : cleaner'[j].now <= clock
  BY <1>0, <1>2
<1>4. TypeOK'
  BY <1>1, <1>2, <1>3 DEF TypeOK
<1> QED
  BY <1>0, <1>1, <1>3, <1>4, AroundKeeps

\* The cleanup takes a session that has run out, or says that it crossed a refresh.
LEMMA DeleteExpiredKeeps == ASSUME IInv, NEW i \in Instances, DeleteExpired(i) PROVE IInv'
<1> USE DEF IInv
<1>0. /\ cleaner \in [Instances -> Cleaner] /\ cleaner[i].now \in Nat /\ clock \in Nat
      /\ \A j \in Instances : cleaner[j].now <= clock
  BY DEF TypeOK, Cleaner, RowsSound
<1>1. PICK id \in cleaner[i].batch :
         /\ sessions' = IF id \in plan.stuck THEN sessions ELSE sessions \ Sessions(id)
         /\ cleaner' = Without(i, id)
         /\ history' = IF Extending(id) \/ \E s \in Sessions(id) : Noted(s) >= cleaner[i].now
                       THEN history \cup {<<"crossed", id>>} ELSE history
  BY DEF DeleteExpired
<1>2. UNCHANGED <<users, accounts, clock, tokens, out, req, lock, cleanups, database, plan, started,
                troubles>>
  BY DEF DeleteExpired, bounds
<1>3. /\ sessions' \subseteq sessions /\ history \subseteq history'
      /\ history' \subseteq history \cup {<<"crossed", id>>} /\ id \in Nat
      /\ \A s \in sessions \ sessions' : s.id = id
  <2>1. id \in Nat
    BY DEF TypeOK, Cleaner
  <2> QED
    BY <1>1, <2>1 DEF Sessions
<1>4. /\ cleaner' \in [Instances -> Cleaner]
      /\ \A j \in Instances : cleaner'[j].now <= clock'
  <2>1. PICK c \in Cleaner : Without(i, id) = [cleaner EXCEPT ![i] = c] /\ c.now = cleaner[i].now
    BY <1>0, WithoutType
  <2> QED
    BY <1>0, <1>1, <1>2, <2>1
<1>5. TypeOK'
  BY <1>2, <1>3, <1>4 DEF TypeOK
<1>6. ASSUME NEW s \in sessions \ sessions'
      PROVE  \/ Gone(s.id, s.user)'
             \/ /\ s.expires <= clock' + West
                /\ \A q \in Requests : req[q].pc = "extend" => req[q].session # s.id
  <2>1. s \in Sessions(id) /\ s.id = id /\ s.expires \in Nat
    BY <1>3 DEF Sessions, TypeOK
  <2>2. CASE Extending(id) \/ \E z \in Sessions(id) : Noted(z) >= cleaner[i].now
    BY <1>1, <2>1, <2>2 DEF Gone, Excused
  <2>3. CASE ~(Extending(id) \/ \E z \in Sessions(id) : Noted(z) >= cleaner[i].now)
    <3>0. Zone \in Int /\ West \in Nat /\ Zone + West >= 0
      BY WestType
    <3>1. s.expires < cleaner[i].now + West
      BY <1>0, <2>1, <2>3, <3>0 DEF Noted
    <3>2. \A q \in Requests : req[q].pc = "extend" => req[q].session # id
      BY <2>3, OpOfStep DEF Extending
    <3> QED
      BY <1>0, <1>2, <2>1, <3>0, <3>1, <3>2
  <2> QED
    BY <2>2, <2>3
<1> QED
  BY <1>0, <1>2, <1>3, <1>4, <1>5, <1>6, AroundKeeps

\* A user who is deleted takes the sessions along, or leaves them.
LEMMA DeleteUserKeeps == ASSUME IInv, NEW u \in users, DeleteUser(u) PROVE IInv'
<1> USE DEF IInv
<1>1. /\ UNCHANGED <<accounts, clock, tokens, out, req, cleaner, lock, cleanups, history, database, plan,
                  started>>
      /\ users' = users \ {u} /\ troubles' \in Nat /\ sessions' \subseteq sessions
      /\ \A s \in sessions \ sessions' : s.user = u.id
  BY DEF DeleteUser, Trouble, cleaning, TypeOK
<1>2. TypeOK'
  BY <1>1 DEF TypeOK
<1>3. ~Lives(u.id)'
  BY <1>1 DEF Lives, UsersBorn
<1>4. \A s \in sessions \ sessions' : Gone(s.id, s.user)'
  BY <1>1, <1>3 DEF Gone
<1>5. clock <= clock' /\ \A i \in Instances : cleaner'[i].now <= clock'
  BY <1>1 DEF TypeOK, RowsSound
<1> QED
  BY <1>1, <1>2, <1>4, <1>5, AroundKeeps

LEMMA TickKeeps == ASSUME IInv, Tick PROVE IInv'
<1> USE DEF IInv
<1>1. /\ UNCHANGED <<users, accounts, sessions, tokens, out, req, cleaner, lock, cleanups, history>>
      /\ UNCHANGED <<database, plan, started, troubles>> /\ clock' = clock + 1 /\ clock \in Nat
  BY DEF Tick, rows, cleaning, bounds, TypeOK
<1>2. TypeOK'
  BY <1>1 DEF TypeOK
<1>3. \A i \in Instances : cleaner'[i].now <= clock'
  <2> TAKE i \in Instances
  <2>1. cleaner[i].now \in Nat /\ cleaner[i].now <= clock
    BY DEF TypeOK, Cleaner, RowsSound
  <2> QED
    BY <1>1, <2>1
<1> QED
  BY <1>1, <1>2, <1>3, AroundKeeps

LEMMA LapseKeeps == ASSUME IInv, Lapse PROVE IInv'
<1> USE DEF IInv
<1>1. /\ UNCHANGED <<users, accounts, sessions, clock, tokens, out, req, cleanups, history, database, plan,
                  started>>
      /\ lock' = [lock EXCEPT !.over = TRUE]
      /\ \E kept \in {cleaner[lock.by], Idle} : cleaner' = [cleaner EXCEPT ![lock.by] = kept]
  BY DEF Lapse, Trouble, rows
<1>0. lock.by \in Instances /\ troubles' \in Nat
  <2>1. lock \in [by : Instances \cup {NoInstance}, over : BOOLEAN] /\ troubles \in Nat
    BY DEF TypeOK
  <2> QED
    BY <2>1 DEF Lapse, Trouble
<1>2. /\ clock \in Nat /\ cleaner \in [Instances -> Cleaner]
      /\ \A i \in Instances : cleaner[i].now <= clock
  BY DEF TypeOK, RowsSound
<1>3. cleaner' \in [Instances -> Cleaner] /\ \A i \in Instances : cleaner'[i].now <= clock
  <2>1. Idle \in Cleaner /\ Idle.now <= clock
    BY <1>2 DEF Idle, Cleaner
  <2>2. PICK c \in Cleaner : cleaner' = [cleaner EXCEPT ![lock.by] = c] /\ c.now <= clock
    BY <1>0, <1>1, <1>2, <2>1
  <2> QED
    BY <1>0, <1>2, <2>2
<1>4. lock' \in [by : Instances \cup {NoInstance}, over : BOOLEAN]
  BY <1>1 DEF TypeOK
<1>5. TypeOK'
  BY <1>0, <1>1, <1>3, <1>4 DEF TypeOK
<1> QED
  BY <1>1, <1>2, <1>3, <1>5, AroundKeeps

-----------------------------------------------------------------------------
(* The theorems *)

\* The rows there are at the start.
LEMMA InitKeeps == Init => IInv
<1> SUFFICES ASSUME Init PROVE IInv
  OBVIOUS
<1>1. /\ plan \in Plans /\ plan.old \subseteq Nat \ 0 .. Count /\ clock = 1 /\ Given \in Nat
  BY PlansAssumption, ConstantTypes DEF Init, Given
<1>2. \A s \in sessions : /\ s \in [id : Nat, user : UserIds, expires : Nat, remember : BOOLEAN]
                          /\ s.id \in plan.old /\ s.user = 0 /\ s.remember = TRUE
                          /\ s.expires = IF s.id = Given THEN 1 + LongLife ELSE 0
  <2> TAKE s \in sessions
  <2>1. PICK id \in plan.old : s = [id |-> id, user |-> 0,
                                   expires |-> IF id = Given THEN 1 + LongLife ELSE 0, remember |-> TRUE]
    BY DEF Init
  <2>2. id \in Nat /\ (IF id = Given THEN 1 + LongLife ELSE 0) \in Nat
    BY <1>1, ConstantTypes
  <2> QED
    BY <2>1, <2>2 DEF UserIds
<1>3. \A t \in tokens : /\ t \in [session : Nat, user : UserIds, expires : Nat]
                        /\ t.user = 0
                        /\ \E s \in sessions : s.id = t.session /\ s.expires = t.expires
  BY <1>1, <1>2, ConstantTypes DEF Init, UserIds
<1>4. /\ \A id \in plan.old : id \notin Requests
      /\ 0 \notin Requests /\ Nobody \notin Requests
  BY <1>1, ConstantTypes DEF Requests
<1>5. NoRequest \in Request
  BY ConstantTypes DEF NoRequest, Request, Labels, UserIds
<1>6. TypeOK
  <2>1. users \subseteq [id : UserIds, email : Emails]
    BY ConstantTypes DEF Init, UserIds
  <2>2. cleaner \in [Instances -> Cleaner]
    BY DEF Init, Idle, Cleaner
  <2>3. lock \in [by : Instances \cup {NoInstance}, over : BOOLEAN]
    BY DEF Init
  <2> QED
    BY <1>1, <1>2, <1>3, <1>5, <2>1, <2>2, <2>3 DEF Init, TypeOK
<1>7. \A r \in Requests : req[r] = NoRequest
  BY DEF Init
<1>8. RequestsSound
  <2>1. /\ NoRequest.pc = "none" /\ NoRequest.op = "none" /\ NoRequest.answer = "none"
        /\ Steps["none"] = {"none"}
    BY DEF NoRequest, Steps
  <2> QED
    BY <1>7, <2>1 DEF RequestsSound
<1>9. SessionsMade
  BY <1>2, <1>3, <1>4, <1>7 DEF Init, SessionsMade, Made, NoRequest
<1>10. LogoutHolds /\ AccountsHold
  BY <1>7 DEF Init, LogoutHolds, AccountsHold, NoRequest
<1>11. UsersBorn
  BY <1>2, <1>3, <1>4, <1>7 DEF Init, UsersBorn, Born, NoRequest
<1>12. RowsSound
  <2>1. \A s, z \in sessions : s.id = z.id => s = z
    BY <1>2
  <2>2. \A s \in sessions : s.expires <= clock + Life(s.remember)
    BY <1>1, <1>2, ConstantTypes DEF Life
  <2>3. \A i \in Instances : cleaner[i].now <= clock
    BY <1>1 DEF Init, Idle
  <2> QED
    BY <1>7, <2>1, <2>2, <2>3 DEF RowsSound, NoRequest
<1>13. TokensServed
  <2>1. ASSUME NEW t \in tokens PROVE Served(t.session, t.user, t.expires)
    <3>1. PICK s \in sessions : s.id = t.session /\ s.expires = t.expires
      BY <1>3
    <3>2. s.user = t.user /\ s.expires >= t.expires
      BY <1>2, <1>3, <3>1
    <3> QED
      BY <3>1, <3>2 DEF Served, Sessions
  <2> QED
    BY <1>7, <2>1 DEF TokensServed, NoRequest
<1> QED
  BY <1>6, <1>8, <1>9, <1>10, <1>11, <1>12, <1>13 DEF IInv

\* The inductive invariant holds in every state.
LEMMA IInvAlways == Spec => []IInv
<1>1. IInv /\ [Next]_vars => IInv'
  <2> SUFFICES ASSUME IInv, [Next]_vars PROVE IInv'
    OBVIOUS
  <2>1. ASSUME NEW r \in Requests, Step(r) PROVE IInv'
    <3>1. TypeOK
      BY DEF IInv
    <3>2. CASE \/ CheckPassword(r) \/ AskProvider(r) \/ FindAccount(r) \/ FindLinked(r)
              \/ FindEmail(r) \/ Guard(r) \/ Verify(r) \/ FindSession(r)
      BY <3>1, <3>2, ReadingSteps, ReadsKeep
    <3> QED
      BY <2>1, <3>2, CreateUserKeeps, LinkKeeps, InsertSessionKeeps, SignKeeps, ExtendKeeps,
         DeleteSessionKeeps DEF Step
  <2>2. ASSUME NEW r \in Requests, Fail(r) PROVE IInv'
    BY <2>2, ReadingSteps, ReadsKeep DEF IInv
  <2>3. ASSUME NEW i \in Instances, StartCleanup(i) \/ CleanStep(i) \/ FailCleanup(i) PROVE IInv'
    BY <2>3, CleaningKeeps, DeleteExpiredKeeps DEF CleanStep
  <2>4. ASSUME UNCHANGED vars PROVE IInv'
    <3>1. /\ UNCHANGED <<users, accounts, sessions, clock, tokens, out, req, cleaner, lock, cleanups>>
          /\ UNCHANGED <<database, plan, started, troubles, history>>
      BY <2>4 DEF vars, rows, cleaning, bounds
    <3>2. TypeOK' /\ clock <= clock' /\ \A i \in Instances : cleaner'[i].now <= clock'
      BY <3>1 DEF IInv, TypeOK, RowsSound
    <3> QED
      BY <3>1, <3>2, AroundKeeps
  <2> QED
    BY <2>1, <2>2, <2>3, <2>4, ArrivalsKeep, TickKeeps, LapseKeeps, DeleteUserKeeps DEF Next
<1> QED
  BY <1>1, InitKeeps, PTL DEF Spec

\* Every variable has its type.
THEOREM TypeCorrect == Spec => []TypeOK
<1>1. IInv => TypeOK
  BY DEF IInv
<1> QED
  BY <1>1, IInvAlways, PTL

\* Once a logout is answered its session gives no more tokens: a refresh that
\* comes after it finds no row, and none is written again.
THEOREM LogoutIsFinal == Spec => []LogoutSticks
<1>1. IInv => LogoutSticks
  BY DEF IInv, LogoutHolds, LogoutSticks
<1> QED
  BY <1>1, IInvAlways, PTL

\* Whoever comes from a provider is the same user every time.
THEOREM PersonIsOneUser == Spec => []OneSelf
<1>1. IInv => OneSelf
  <2> SUFFICES ASSUME IInv, NEW r \in Requests, NEW q \in Requests, req[r].op = "oauth",
                      req[q].op = "oauth", req[r].who = req[q].who,
                      req[r].answer = "tokens", req[q].answer = "tokens"
               PROVE  req[r].user = req[q].user
    BY DEF OneSelf
  <2> DEFINE a == [who |-> req[r].who, user |-> req[r].user]
             b == [who |-> req[q].who, user |-> req[q].user]
  <2>1. a \in accounts /\ b \in accounts
    BY DEF IInv, AccountsHold
  <2>2. a = b
    BY <2>1 DEF IInv, AccountsHold
  <2> QED
    BY <2>2
<1> QED
  BY <1>1, IInvAlways, PTL

\* A refresh token that has not run out, nor will within the hours that MySQL's servers
\* are west of UTC, has its session, unless the session's
\* user is gone, it was logged out of, the cleanup crossed a refresh of it, or the
\* token was signed late.
THEOREM TokensHaveSessions == Spec => []TokensServe
<1>1. IInv => TokensServe
  <2> SUFFICES ASSUME IInv, NEW t \in tokens, clock + West < t.expires, Lives(t.user), t.session \notin out
               PROVE  Sessions(t.session) /= {} \/ Excused("crossed", t.session) \/ Excused("late", t.session)
    BY DEF TokensServe
  <2>1. Served(t.session, t.user, t.expires) /\ t.expires \in Nat /\ clock \in Nat /\ West \in Nat
    BY WestType DEF IInv, TokensServed, TypeOK
  <2> QED
    BY <2>1 DEF Served, Gone
<1> QED
  BY <1>1, IInvAlways, PTL
==============================================================================
