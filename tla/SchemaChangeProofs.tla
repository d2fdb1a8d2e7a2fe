------------------------- MODULE SchemaChangeProofs -------------------------
(****************************************************************************)
(* That changes of the schema on two instances never run at once, for any   *)
(* number of instances, sessions and changes in flight.                     *)
(****************************************************************************)
EXTENDS SchemaChange, FiniteSetTheorems, TLAPS

\* What the proof needs of the types.
Shape == /\ DOMAIN call = Calls
         /\ \A c \in Calls : "pc" \in DOMAIN call[c] /\ "inst" \in DOMAIN call[c]

Waits(label) == label \in {"idle", "acquire"}

\* A step after which the same changes run, on the same instances.
Stays ==
  /\ Shape'
  /\ \A c \in Calls : Waits(call'[c].pc) <=> Waits(call[c].pc)
  /\ \A c \in Calls : ~Waits(call[c].pc) => call'[c].inst = call[c].inst

LEMMA OneStays ==
  ASSUME Shape, NEW c \in Calls, NEW e,
         "pc" \in DOMAIN e, "inst" \in DOMAIN e,
         Waits(e.pc) <=> Waits(call[c].pc),
         ~Waits(call[c].pc) => e.inst = call[c].inst, call' = [call EXCEPT ![c] = e]
  PROVE  Stays
  BY DEF Shape, Stays

LEMMA FailsStays ==
  ASSUME Shape, NEW c \in Calls, ~Waits(call[c].pc), NEW why, Fails(c, why)
  PROVE  Stays
<1> DEFINE e == [Ended(call[c]) EXCEPT !.pc = IF call[c].created THEN "compensate" ELSE "release",
                     !.result = why]
<1>1. call' = [call EXCEPT ![c] = e]
  BY DEF Fails, Shape
<1>2. DOMAIN e = DOMAIN call[c] /\ e.inst = call[c].inst /\ e.pc \in {"compensate", "release"}
  BY DEF Ended, Shape
<1> QED  BY <1>1, <1>2, OneStays DEF Waits, Shape

LEMMA GotoStays ==
  ASSUME Shape, NEW c \in Calls, ~Waits(call[c].pc), NEW l, ~Waits(l), Goto(c, l)
  PROVE  Stays
  BY DEF Goto, Shape, Stays

LEMMA PlanStays ==
  ASSUME Shape, NEW c \in Calls, ~Waits(call[c].pc), NEW w, Plan(c, w)
  PROVE  Stays
  BY DEF Plan, Shape, Stays, Waits

LEMMA AnswerStays ==
  ASSUME Shape, NEW c \in Calls, ~Waits(call[c].pc), NEW a, Answer(c, a)
  PROVE  Stays
  BY DEF Answer, Shape, Stays, Waits

LEMMA PutStays ==
  ASSUME Shape, NEW c \in Calls, ~Waits(call[c].pc), NEW j, NEW row, NEW new,
         Put(c, j, row, new)
  PROVE  Stays
  BY DEF Put, Shape, Stays, Waits

\* Ended and what follows it in Commit keep the instance too.
LEMMA CommitStays ==
  ASSUME Shape, NEW c \in Calls, Commit(c)
  PROVE  Stays
<1> DEFINE e == [Ended(call[c]) EXCEPT
       !.pc = IF call[c].want.single THEN "single" ELSE "release",
       !.result = IF call[c].want.single THEN "none" ELSE "ok"]
<1>1. call' = [call EXCEPT ![c] = e] /\ call[c].pc = "commit"
  BY DEF Commit, Shape
<1>2. DOMAIN e = DOMAIN call[c] /\ e.inst = call[c].inst /\ e.pc \in {"single", "release"}
  BY DEF Ended, Shape
<1> QED  BY <1>1, <1>2, OneStays DEF Waits, Shape

-----------------------------------------------------------------------------
(* The inductive invariant.                                                 *)

\* A server's lock is counted exactly while a session owns it.
LockOK ==
  /\ lock \in [Readers -> [owner : Sessions \cup {NoSession}, count : Nat]]
  /\ \A r \in Readers : lock[r].owner = NoSession <=> lock[r].count = 0

\* The only lock is owned by the instance of every running change, and granted
\* as often as there are changes: a release that misses it leaves it too high,
\* never too low.
Guarded ==
  OneReader /\ ~closed =>
    \A r \in Readers :
      /\ \A c \in Running : lock[r].owner # NoSession /\ call[c].inst = lock[r].owner[1]
      /\ Cardinality(Running) <= lock[r].count

IInv == Shape /\ LockOK /\ Guarded

\* A session is not the absence of one.
LEMMA SessionsExist == NoSession \notin Sessions
  BY DEF Sessions, NoSession

\* Running is finite.
LEMMA RunningFinite == IsFiniteSet(Running) /\ Cardinality(Running) \in Nat
<1>1. Running \subseteq Calls  BY DEF Running
<1> QED  BY <1>1, CallsAssumption, FS_Subset, FS_CardinalityType

\* A step of no consequence for the lock.
LEMMA StaysInv ==
  ASSUME IInv, Stays, lock' = lock, closed' = closed
  PROVE  IInv'
<1>1. Running' = Running  BY DEF Running, Stays, Waits
<1>2. \A c \in Running : call'[c].inst = call[c].inst  BY DEF Running, Stays, Waits
<1>3. Guarded'  BY <1>1, <1>2 DEF IInv, Guarded, OneReader
<1> QED  BY <1>3 DEF IInv, LockOK, Stays

\* No lock loses more than one grant, and none its owner before the last.
Lowered ==
  \A q \in Readers : /\ lock'[q].count >= lock[q].count - 1
                     /\ lock'[q].owner = lock[q].owner \/ lock[q].count = 1

\* A change stops running; the lock still counts the others.
LEMMA StopInv ==
  ASSUME IInv, NEW c \in Calls, ~Waits(call[c].pc), call' = [call EXCEPT ![c] = Idle],
         closed' = closed, LockOK',
         Lowered
  PROVE  IInv'
<1>1. Shape'  BY DEF IInv, Shape, Idle
<1>2. Running' = Running \ {c} /\ c \in Running
  BY DEF IInv, Shape, Running, Waits, Idle
<1>3. \A d \in Running' : d \in Running /\ call'[d].inst = call[d].inst
  BY <1>2 DEF IInv, Shape, Running
<1>4. Cardinality(Running') = Cardinality(Running) - 1
  BY <1>2, RunningFinite, FS_RemoveElement
<1>5. ASSUME OneReader, ~closed, NEW r \in Readers
      PROVE  /\ \A d \in Running' : lock'[r].owner # NoSession
                                   /\ call'[d].inst = lock'[r].owner[1]
             /\ Cardinality(Running') <= lock'[r].count
  <2>1. Cardinality(Running) <= lock[r].count
        /\ \A d \in Running : lock[r].owner # NoSession /\ call[d].inst = lock[r].owner[1]
    BY <1>5 DEF IInv, Guarded
  <2>2. lock[r].count \in Nat /\ lock'[r].count \in Nat
    BY DEF IInv, LockOK
  <2>3. Cardinality(Running') <= lock'[r].count
    BY <1>4, <1>5, <2>1, <2>2, RunningFinite DEF Lowered
  <2>4. CASE lock[r].count = 1
    <3>1. Cardinality(Running') = 0
      BY <1>2, <1>4, <2>1, <2>4, RunningFinite, FS_EmptySet
    <3>2. IsFiniteSet(Running')  BY <1>2, RunningFinite, FS_RemoveElement
    <3>3. Running' = {}  BY <3>1, <3>2, FS_EmptySet
    <3> QED  BY <2>3, <3>3
  <2>5. CASE lock'[r].owner = lock[r].owner
    BY <1>3, <2>1, <2>3, <2>5
  <2> QED  BY <1>5, <2>4, <2>5 DEF Lowered
<1>6. Guarded'  BY <1>5 DEF Guarded, OneReader
<1> QED  BY <1>1, <1>6 DEF IInv

-----------------------------------------------------------------------------
(* The actions that touch the lock.                                         *)

\* A grant: the session owns the lock and is counted once more.
LEMMA LockedOK ==
  ASSUME LockOK, NEW r \in Readers, NEW s \in Sessions, CanLock(r, s),
         lock' = Locked(r, s)
  PROVE  /\ LockOK'
         /\ lock'[r].owner = s /\ lock'[r].count = lock[r].count + 1
         /\ lock[r].owner # NoSession => lock[r].owner = s
<1>1. lock' = [lock EXCEPT ![r] = [owner |-> s, count |-> lock[r].count + 1]]
  BY DEF Locked, LockOK
<1>2. lock[r].count \in Nat  BY DEF LockOK
<1>3. lock'[r].owner = s /\ lock'[r].count = lock[r].count + 1
  BY <1>1 DEF LockOK
<1>4. lock' \in [Readers -> [owner : Sessions \cup {NoSession}, count : Nat]]
  BY <1>1, <1>2 DEF LockOK
<1>5. ASSUME NEW q \in Readers
      PROVE  lock'[q].owner = NoSession <=> lock'[q].count = 0
  <2>1. CASE q = r  BY <1>2, <1>3, <2>1, SessionsExist
  <2>2. CASE q # r  BY <1>1, <2>2 DEF LockOK
  <2> QED  BY <2>1, <2>2
<1>6. lock[r].owner # NoSession => lock[r].owner = s  BY DEF CanLock
<1> QED  BY <1>3, <1>4, <1>5, <1>6 DEF LockOK

\* A release: at most one grant less, and the owner stays until the last one.
LEMMA UnlockedOK ==
  ASSUME LockOK, NEW r \in Readers, NEW s \in Sessions, lock' = Unlocked(r, s)
  PROVE  LockOK' /\ Lowered
<1>1. \A q \in Readers : lock[q].count \in Nat /\ lock[q].count >= lock[q].count - 1
  BY DEF LockOK
<1>2. CASE lock[r].owner # s
  <2>1. lock' = lock  BY <1>2 DEF Unlocked
  <2> QED  BY <1>1, <2>1 DEF LockOK, Lowered
<1>3. CASE lock[r].owner = s
  <2>1. lock[r].count # 0  BY <1>3, SessionsExist DEF LockOK
  <2>2. CASE lock[r].count = 1
    <3>1. lock' = [lock EXCEPT ![r] = NoLock]
      BY <1>3, <2>2 DEF Unlocked, LockOK
    <3>2. LockOK'  BY <3>1 DEF LockOK, NoLock
    <3> QED  BY <1>1, <2>2, <3>1, <3>2 DEF LockOK, NoLock, Lowered
  <2>3. CASE lock[r].count # 1
    <3>1. lock' = [lock EXCEPT ![r] = [owner |-> s, count |-> lock[r].count - 1]]
      BY <1>3, <2>3 DEF Unlocked, LockOK
    <3>2. lock[r].count - 1 \in Nat \ {0}
      BY <1>1, <2>1, <2>3
    <3>3. /\ lock'[r].owner = s /\ lock'[r].count = lock[r].count - 1
          /\ lock'[r] \in [owner : Sessions \cup {NoSession}, count : Nat]
      BY <1>1, <1>3, <2>1, <3>1, <3>2 DEF LockOK
    <3>4. \A q \in Readers \ {r} : lock'[q] = lock[q]
      BY <3>1 DEF LockOK
    <3>5. LockOK'
      BY <1>1, <2>3, <3>1, <3>3, <3>4, SessionsExist DEF LockOK
    <3> QED  BY <1>1, <1>3, <3>3, <3>4, <3>5 DEF Lowered
  <2> QED  BY <2>2, <2>3
<1> QED  BY <1>2, <1>3

\* The instance of a session that FreeOn finds.
LEMMA FreeOnInstance ==
  ASSUME NEW r, NEW i, NEW s \in FreeOn(r, i)
  PROVE  s \in Sessions /\ s[1] = i
  BY DEF FreeOn

LEMMA AcquireInv ==
  ASSUME IInv, NEW c \in Calls, Acquire(c)
  PROVE  IInv'
<1>1. PICK r \in Readers, s \in Sessions :
        s \in FreeOn(r, call[c].inst) /\ CanLock(r, s) /\ lock' = Locked(r, s)
  BY DEF Acquire
<1>2. /\ LockOK'
      /\ lock'[r].owner = s /\ lock'[r].count = lock[r].count + 1
      /\ lock[r].owner # NoSession => lock[r].owner = s
  BY <1>1, LockedOK DEF IInv
<1>3. call' = [call EXCEPT ![c].pc = "begin"] /\ call[c].pc = "acquire" /\ closed' = closed
  BY DEF Acquire, Goto
<1>4. Shape'  BY <1>3 DEF IInv, Shape
<1>5. Running' = Running \cup {c} /\ c \notin Running
  BY <1>3 DEF IInv, Shape, Running
<1>6. \A d \in Calls : call'[d].inst = call[d].inst
  BY <1>3 DEF IInv, Shape
<1>7. Cardinality(Running') = Cardinality(Running) + 1
  BY <1>5, RunningFinite, FS_AddElement
<1>8. ASSUME OneReader, ~closed, NEW q \in Readers
      PROVE  /\ \A d \in Running' : lock'[q].owner # NoSession
                                   /\ call'[d].inst = lock'[q].owner[1]
             /\ Cardinality(Running') <= lock'[q].count
  <2>1. q = r  BY <1>8 DEF OneReader
  <2>2. /\ Cardinality(Running) <= lock[r].count
        /\ \A d \in Running : lock[r].owner # NoSession /\ call[d].inst = lock[r].owner[1]
    BY <1>8 DEF IInv, Guarded
  <2>3. lock[r].count \in Nat  BY DEF IInv, LockOK
  <2>4. Cardinality(Running') <= lock'[r].count
    BY <1>2, <1>7, <2>2, <2>3, RunningFinite
  <2>5. s[1] = call[c].inst  BY <1>1, FreeOnInstance
  <2>6. ASSUME NEW d \in Running'
        PROVE  lock'[r].owner # NoSession /\ call'[d].inst = lock'[r].owner[1]
    <3>1. d \in Calls  BY DEF Running
    <3>2. CASE d = c  BY <1>2, <1>6, <2>5, <3>1, <3>2, SessionsExist
    <3>3. CASE d # c  BY <1>2, <1>5, <1>6, <2>2, <3>1, <3>3
    <3> QED  BY <3>2, <3>3
  <2> QED  BY <2>1, <2>4, <2>6
<1>9. Guarded'  BY <1>3, <1>8 DEF Guarded, OneReader
<1> QED  BY <1>2, <1>4, <1>9 DEF IInv

LEMMA RowFailsInv ==
  ASSUME IInv, NEW c \in Calls, RowFails(c)
  PROVE  IInv'
<1>1. PICK r \in Readers, s \in Sessions :
        s \in FreeOn(r, call[c].inst) /\ CanLock(r, s) /\ lock' = Locked(r, s)
  BY DEF RowFails
<1>2. /\ LockOK'
      /\ lock'[r].owner = s /\ lock'[r].count = lock[r].count + 1
      /\ lock[r].owner # NoSession => lock[r].owner = s
  BY <1>1, LockedOK DEF IInv
<1>3. call' = [call EXCEPT ![c] = Idle] /\ call[c].pc = "acquire" /\ closed' = closed
  BY DEF RowFails
<1>4. Shape'  BY <1>3 DEF IInv, Shape, Idle
<1>5. Running' = Running /\ c \notin Running
  BY <1>3 DEF IInv, Shape, Running, Idle
<1>6. \A d \in Running : call'[d].inst = call[d].inst
  BY <1>3, <1>5 DEF IInv, Shape, Running
<1>7. ASSUME OneReader, ~closed, NEW q \in Readers
      PROVE  /\ \A d \in Running' : lock'[q].owner # NoSession
                                   /\ call'[d].inst = lock'[q].owner[1]
             /\ Cardinality(Running') <= lock'[q].count
  <2>1. q = r  BY <1>7 DEF OneReader
  <2>2. /\ Cardinality(Running) <= lock[r].count
        /\ \A d \in Running : lock[r].owner # NoSession /\ call[d].inst = lock[r].owner[1]
    BY <1>7 DEF IInv, Guarded
  <2>3. lock[r].count \in Nat  BY DEF IInv, LockOK
  <2>4. Cardinality(Running') <= lock'[r].count
    BY <1>2, <1>5, <2>2, <2>3, RunningFinite
  <2> QED  BY <1>2, <1>5, <1>6, <2>1, <2>2, <2>4
<1>8. Guarded'  BY <1>3, <1>7 DEF Guarded, OneReader
<1> QED  BY <1>2, <1>4, <1>8 DEF IInv

LEMMA ReleaseInv ==
  ASSUME IInv, NEW c \in Calls, Release(c) \/ Unreleased(c)
  PROVE  IInv'
<1>1. /\ call' = [call EXCEPT ![c] = Idle] /\ closed' = closed
      /\ call[c].pc = "release"
  BY DEF Release, Unreleased, poolVars
<1>2. LockOK' /\ Lowered
  <2>1. CASE Release(c)
    <3>1. PICK r \in Readers, s \in Sessions : lock' = Unlocked(r, s)
      BY <2>1, FreeOnInstance DEF Release
    <3> QED  BY <3>1, UnlockedOK DEF IInv
  <2>2. CASE Unreleased(c)
    <3>1. lock' = lock  BY <2>2 DEF Unreleased, poolVars
    <3> QED  BY <3>1 DEF IInv, LockOK, Lowered
  <2> QED  BY <2>1, <2>2
<1>3. ~Waits(call[c].pc)  BY <1>1 DEF Waits
<1>4. call' = [call EXCEPT ![c] = Idle] /\ closed' = closed  BY <1>1
<1> QED  BY <1>2, <1>3, <1>4, StopInv

\* A request that waits for the lock, before and after.
LEMMA WaitInv ==
  ASSUME IInv, NEW c \in Calls, NEW e,
         "pc" \in DOMAIN e, "inst" \in DOMAIN e, Waits(e.pc), Waits(call[c].pc),
         call' = [call EXCEPT ![c] = e], lock' = lock, closed' = closed
  PROVE  IInv'
  BY OneStays, StaysInv DEF IInv

LEMMA AskInv ==
  ASSUME IInv, NEW c \in Calls, NEW i, NEW want, NEW j, Ask(c, i, want, j)
  PROVE  IInv'
<1> DEFINE e == [Idle EXCEPT !.pc = "acquire", !.inst = i, !.want = want, !.id = j]
<1>1. /\ call' = [call EXCEPT ![c] = e] /\ lock' = lock /\ closed' = closed
      /\ call[c].pc = "idle"
  BY DEF Ask, poolVars
<1>2. "pc" \in DOMAIN e /\ "inst" \in DOMAIN e /\ e.pc = "acquire"
  BY DEF Idle
<1> QED  BY <1>1, <1>2, WaitInv DEF Waits

LEMMA RefuseInv ==
  ASSUME IInv, NEW c \in Calls, Refuse(c)
  PROVE  IInv'
<1>1. /\ call' = [call EXCEPT ![c] = Idle] /\ lock' = lock /\ closed' = closed
      /\ call[c].pc = "acquire"
  BY DEF Refuse, poolVars
<1>2. "pc" \in DOMAIN Idle /\ "inst" \in DOMAIN Idle /\ Idle.pc = "idle"
  BY DEF Idle
<1> QED  BY <1>1, <1>2, WaitInv DEF Waits

\* The lock of a closed session goes, and no promise is made any more.
LEMMA CloseInv ==
  ASSUME IInv, NEW r \in Readers, NEW s \in Sessions, Close(r, s)
  PROVE  IInv'
<1>1. lock' = [lock EXCEPT ![r] = NoLock] /\ closed' = TRUE /\ call' = call
  BY DEF Close
<1>2. LockOK'  BY <1>1 DEF IInv, LockOK, NoLock
<1> QED  BY <1>1, <1>2 DEF IInv, Shape, Guarded

\* A process that dies takes its changes and its sessions with it: either all
\* that run, or none.
LEMMA CrashInv ==
  ASSUME IInv, NEW i \in Instances, Crash(i)
  PROVE  IInv'
<1> DEFINE mine == {s \in Sessions : s[1] = i}
<1>1. /\ call' = [c \in Calls |-> IF call[c].inst = i THEN Idle ELSE call[c]]
      /\ lock' = [r \in Readers |-> IF lock[r].owner \in mine THEN NoLock ELSE lock[r]]
      /\ closed' = closed
  BY DEF Crash
<1>2. Shape'  BY <1>1 DEF IInv, Shape, Idle
<1>3. LockOK'  BY <1>1 DEF IInv, LockOK, NoLock
<1>4. Running' = {c \in Running : call[c].inst # i}
  BY <1>1 DEF Running, Idle
<1>5. \A c \in Running' : call'[c].inst = call[c].inst
  BY <1>1, <1>4 DEF Running
<1>6. ASSUME OneReader, ~closed, NEW r \in Readers
      PROVE  /\ \A c \in Running' : lock'[r].owner # NoSession
                                   /\ call'[c].inst = lock'[r].owner[1]
             /\ Cardinality(Running') <= lock'[r].count
  <2>1. /\ Cardinality(Running) <= lock[r].count
        /\ \A c \in Running : lock[r].owner # NoSession /\ call[c].inst = lock[r].owner[1]
    BY <1>6 DEF IInv, Guarded
  <2>2. CASE lock[r].owner \in mine
    <3>1. Running' = {}  BY <1>4, <2>1, <2>2
    <3>2. lock'[r].count \in Nat  BY <1>3 DEF LockOK
    <3> QED  BY <3>1, <3>2, FS_EmptySet
  <2>3. CASE lock[r].owner \notin mine
    <3>1. lock'[r] = lock[r]  BY <1>1, <2>3
    <3>2. lock[r].owner \in Sessions \cup {NoSession}  BY DEF IInv, LockOK
    <3>3. Running' = Running  BY <1>4, <2>1, <2>3, <3>2
    <3> QED  BY <1>5, <2>1, <3>1, <3>3
  <2> QED  BY <2>2, <2>3
<1>7. Guarded'  BY <1>1, <1>6 DEF Guarded, OneReader
<1> QED  BY <1>2, <1>3, <1>7 DEF IInv

-----------------------------------------------------------------------------
(* Every step.                                                              *)

LEMMA InitInv == Init => IInv
<1> SUFFICES ASSUME Init PROVE IInv  OBVIOUS
<1>1. Shape  BY DEF Init, Shape, Idle
<1>2. LockOK  BY DEF Init, LockOK, NoLock
<1>3. Running = {}  BY DEF Init, Running, Idle
<1>4. Guarded  BY <1>2, <1>3, FS_EmptySet DEF Guarded, LockOK
<1> QED  BY <1>1, <1>2, <1>4 DEF IInv

\* What a change does between the grant and the release.
LEMMA WorkStays ==
  ASSUME Shape, NEW c \in Calls,
         \/ Begin(c) \/ Look(c) \/ Duplicate(c) \/ NoMismatch(c) \/ Mismatch(c) \/ Read(c)
         \/ WriteCreate(c) \/ WriteUpdate(c) \/ WriteDelete(c)
         \/ MigrateCreate(c) \/ MigrateUpdate(c) \/ MigrateDelete(c)
         \/ ExecuteCreate(c) \/ ExecuteBatch(c) \/ ExecuteOne(c)
         \/ Commit(c) \/ SingleCreate(c) \/ SingleUpdate(c)
         \/ Compensate(c) \/ Uncompensated(c) \/ Starve(c)
         \/ QueryFails(c) \/ Unseen(c) \/ WriteTorn(c) \/ DropFails(c) \/ CommitFails(c)
  PROVE  Stays /\ lock' = lock /\ closed' = closed
<1> DEFINE Calm == lock' = lock /\ closed' = closed
<1>1. CASE Begin(c)
  <2>1. Calm /\ call[c].pc = "begin"  BY <1>1 DEF Begin, poolVars
  <2>2. PICK s : call' = [call EXCEPT ![c] =
          [call[c] EXCEPT !.session = s,
                          !.pc = IF call[c].want.op = "create" THEN "look" ELSE "check"]]
    BY <1>1 DEF Begin, Shape
  <2> DEFINE e == [call[c] EXCEPT !.session = s,
                     !.pc = IF call[c].want.op = "create" THEN "look" ELSE "check"]
  <2>3. DOMAIN e = DOMAIN call[c] /\ e.inst = call[c].inst /\ e.pc \in {"look", "check"}
    BY DEF Shape
  <2>4. Waits(e.pc) <=> Waits(call[c].pc)  BY <2>1, <2>3 DEF Waits
  <2>5. Stays  BY <2>2, <2>3, <2>4, OneStays DEF Shape
  <2> QED  BY <2>1, <2>5
<1>2. CASE Look(c)
  <2>1. Calm /\ call[c].pc = "look"  BY <1>2 DEF Look, poolVars
  <2> QED  BY <1>2, <2>1 DEF Look, Shape, Stays, Waits
<1>3. CASE Duplicate(c)
  <2>1. Calm /\ ~Waits(call[c].pc) /\ Fails(c, "error")  BY <1>3 DEF Duplicate, poolVars, Waits
  <2> QED  BY <2>1, FailsStays
<1>4. CASE NoMismatch(c)
  <2>1. Calm /\ ~Waits(call[c].pc) /\ Goto(c, "write") /\ ~Waits("write")
    BY <1>4 DEF NoMismatch, poolVars, Waits
  <2> QED  BY <2>1, GotoStays
<1>5. CASE Mismatch(c)
  <2>1. Calm /\ call[c].pc = "check"  BY <1>5 DEF Mismatch, poolVars
  <2> QED  BY <1>5, <2>1 DEF Mismatch, Goto, Shape, Stays, Waits
<1>6. CASE Read(c)
  <2>1. Calm /\ ~Waits(call[c].pc)  BY <1>6 DEF Read, poolVars, Waits
  <2>2. CASE Fails(c, "error")  BY <2>1, <2>2, FailsStays
  <2>3. CASE ~Fails(c, "error")  BY <1>6, <2>1, <2>3 DEF Read, Shape, Stays, Waits
  <2> QED  BY <2>2, <2>3
<1>7. CASE WriteCreate(c)
  <2>1. Calm /\ ~Waits(call[c].pc)  BY <1>7 DEF WriteCreate, poolVars, Waits
  <2>2. Fails(c, "error") \/ \E j, row : Put(c, j, row, row)  BY <1>7 DEF WriteCreate
  <2> QED  BY <2>1, <2>2, FailsStays, PutStays
<1>8. CASE WriteUpdate(c)
  <2>1. Calm /\ ~Waits(call[c].pc)  BY <1>8 DEF WriteUpdate, poolVars, Waits
  <2>2. Fails(c, "error") \/ \E j, row, new : Put(c, j, row, new)  BY <1>8 DEF WriteUpdate
  <2> QED  BY <2>1, <2>2, FailsStays, PutStays
<1>9. CASE WriteDelete(c)
  <2>1. Calm /\ ~Waits(call[c].pc) /\ Put(c, call[c].id, NoRow, NoRow)
    BY <1>9 DEF WriteDelete, poolVars, Waits
  <2> QED  BY <2>1, PutStays
<1>10. CASE MigrateCreate(c)
  <2>1. Calm /\ ~Waits(call[c].pc) /\ \E w : Plan(c, w)
    BY <1>10 DEF MigrateCreate, poolVars, Waits
  <2> QED  BY <2>1, PlanStays
<1>11. CASE MigrateUpdate(c)
  <2>1. Calm /\ ~Waits(call[c].pc) /\ \E w : Plan(c, w)
    BY <1>11 DEF MigrateUpdate, poolVars, Waits
  <2> QED  BY <2>1, PlanStays
<1>12. CASE MigrateDelete(c)
  <2>1. Calm /\ call[c].pc = "migrate"  BY <1>12 DEF MigrateDelete, poolVars
  <2> QED  BY <1>12, <2>1 DEF MigrateDelete, Shape, Stays, Waits
<1>13. CASE ExecuteCreate(c)
  <2>1. Calm /\ ~Waits(call[c].pc)  BY <1>13 DEF ExecuteCreate, poolVars, Waits
  <2>2. Fails(c, "error") \/ \E w : Plan(c, w)  BY <1>13 DEF ExecuteCreate
  <2> QED  BY <2>1, <2>2, FailsStays, PlanStays
<1>14. CASE ExecuteBatch(c)
  <2>1. Calm /\ ~Waits(call[c].pc)  BY <1>14 DEF ExecuteBatch, Diffing, poolVars, Waits
  <2>2. Fails(c, "error") \/ \E w : Plan(c, w)  BY <1>14 DEF ExecuteBatch
  <2> QED  BY <2>1, <2>2, FailsStays, PlanStays
<1>15. CASE ExecuteOne(c)
  <2>1. Calm /\ ~Waits(call[c].pc)  BY <1>15 DEF ExecuteOne, Diffing, poolVars, Waits
  <2>2. Fails(c, "error") \/ \E w : Plan(c, w)  BY <1>15 DEF ExecuteOne
  <2> QED  BY <2>1, <2>2, FailsStays, PlanStays
<1>16. CASE Commit(c)
  <2>1. Calm  BY <1>16 DEF Commit, poolVars
  <2> QED  BY <1>16, <2>1, CommitStays
<1>17. CASE SingleCreate(c)
  <2>1. Calm /\ ~Waits(call[c].pc)  BY <1>17 DEF SingleCreate, poolVars, Waits
  <2>2. Fails(c, "error") \/ \E a : Answer(c, a)  BY <1>17 DEF SingleCreate
  <2> QED  BY <2>1, <2>2, FailsStays, AnswerStays
<1>18. CASE SingleUpdate(c)
  <2>1. Calm /\ ~Waits(call[c].pc)  BY <1>18 DEF SingleUpdate, Waits
  <2>2. Fails(c, "error") \/ \E a : Answer(c, a)  BY <1>18 DEF SingleUpdate
  <2> QED  BY <2>1, <2>2, FailsStays, AnswerStays
<1>19. CASE Compensate(c)
  <2>1. Calm /\ ~Waits(call[c].pc) /\ Goto(c, "release") /\ ~Waits("release")
    BY <1>19 DEF Compensate, poolVars, Waits
  <2> QED  BY <2>1, GotoStays
<1>20. CASE Uncompensated(c)
  <2>1. Calm /\ ~Waits(call[c].pc) /\ Goto(c, "release") /\ ~Waits("release")
    BY <1>20 DEF Uncompensated, poolVars, Waits
  <2> QED  BY <2>1, GotoStays
<1>21. CASE Starve(c)
  <2>1. Calm /\ ~Waits(call[c].pc) /\ Fails(c, "error")  BY <1>21 DEF Starve, poolVars, Waits
  <2> QED  BY <2>1, FailsStays
<1>22. CASE QueryFails(c)
  <2>1. Calm /\ ~Waits(call[c].pc) /\ Fails(c, "error")  BY <1>22 DEF QueryFails, poolVars, Waits
  <2> QED  BY <2>1, FailsStays
<1>23. CASE Unseen(c)
  <2>1. Calm /\ call[c].pc \in {"check", "migrate"}  BY <1>23 DEF Unseen, poolVars
  <2> QED  BY <1>23, <2>1 DEF Unseen, Shape, Stays, Waits
<1>24. CASE WriteTorn(c)
  <2>1. Calm /\ ~Waits(call[c].pc) /\ Fails(c, "error")  BY <1>24 DEF WriteTorn, poolVars, Waits
  <2> QED  BY <2>1, FailsStays
<1>25. CASE DropFails(c)
  <2>1. Calm /\ ~Waits(call[c].pc) /\ Fails(c, "error")  BY <1>25 DEF DropFails, poolVars, Waits
  <2> QED  BY <2>1, FailsStays
<1>26. CASE CommitFails(c)
  <2>1. Calm /\ ~Waits(call[c].pc) /\ Fails(c, "unsure")  BY <1>26 DEF CommitFails, poolVars, Waits
  <2> QED  BY <2>1, FailsStays
<1> QED  BY <1>1, <1>2, <1>3, <1>4, <1>5, <1>6, <1>7, <1>8, <1>9, <1>10, <1>11, <1>12,
            <1>13, <1>14, <1>15, <1>16, <1>17, <1>18, <1>19, <1>20, <1>21, <1>22, <1>23,
            <1>24, <1>25, <1>26

LEMMA NextInv ==
  ASSUME IInv, [Next]_vars
  PROVE  IInv'
<1>1. ASSUME NEW c \in Calls, AskCreate(c) \/ AskUpdate(c) \/ AskDelete(c)
      PROVE  IInv'
  <2>1. \E i, want, j : Ask(c, i, want, j)
    <3>1. CASE AskCreate(c)  BY <3>1 DEF AskCreate
    <3>2. CASE AskUpdate(c)  BY <3>2 DEF AskUpdate
    <3>3. CASE AskDelete(c)  BY <3>3 DEF AskDelete
    <3> QED  BY <1>1, <3>1, <3>2, <3>3
  <2> QED  BY <2>1, AskInv
<1>2. ASSUME NEW c \in Calls, Advance(c) \/ Breakdown(c)
      PROVE  IInv'
  <2>1. CASE Acquire(c)  BY <2>1, AcquireInv
  <2>2. CASE Refuse(c)  BY <2>2, RefuseInv
  <2>3. CASE RowFails(c)  BY <2>3, RowFailsInv
  <2>4. CASE Release(c) \/ Unreleased(c)  BY <2>4, ReleaseInv
  <2>5. CASE ~(Acquire(c) \/ Refuse(c) \/ RowFails(c) \/ Release(c) \/ Unreleased(c))
    <3>1. Stays /\ lock' = lock /\ closed' = closed
      BY <1>2, <2>5, WorkStays DEF IInv, Advance, Breakdown
    <3> QED  BY <3>1, StaysInv
  <2> QED  BY <2>1, <2>2, <2>3, <2>4, <2>5
<1>3. CASE \E r \in Readers, s \in Sessions : Close(r, s)  BY <1>3, CloseInv
<1>4. CASE \E i \in Instances : Crash(i)  BY <1>4, CrashInv
<1>5. CASE UNCHANGED vars
  BY <1>5 DEF vars, IInv, Shape, LockOK, Guarded, Running
<1> QED  BY <1>1, <1>2, <1>3, <1>4, <1>5 DEF Next

LEMMA InvOneInstance == IInv => OneInstance
<1> SUFFICES ASSUME IInv, OneReader, ~closed, NEW c \in Running, NEW d \in Running
             PROVE  call[c].inst = call[d].inst
  BY DEF OneInstance
<1>1. PICK r \in Readers : TRUE  BY ReadersAssumption
<1> QED  BY <1>1 DEF IInv, Guarded

\* With one server to lock on, and as long as the pool closes no session that
\* holds the lock, changes of two instances never run at once, whatever sessions
\* take and release it, however many queries are lost and processes die.
THEOREM OneInstanceHolds == Spec => []OneInstance
<1>1. Init => IInv  BY InitInv
<1>2. IInv /\ [Next]_vars => IInv'  BY NextInv
<1>3. IInv => OneInstance  BY InvOneInstance
<1> QED  BY <1>1, <1>2, <1>3, PTL DEF Spec

-----------------------------------------------------------------------------
(* What a change that has answered has done to its table.                   *)

\* A work list is a record of its five parts.
WorkFine(w) ==
  /\ w = [create |-> w.create, foreign |-> w.foreign, rename |-> w.rename,
          drops |-> w.drops, adds |-> w.adds]
  /\ w.create \in BOOLEAN /\ w.foreign \in BOOLEAN /\ w.rename \in BOOLEAN

\* No two columns of a table have the same name.
Distinct(cols) == \A k, l \in cols : k.name = l.name => k = l

RowFine(r)   == r.there \in BOOLEAN /\ (r.there => r.name \in Names) /\ Distinct(r.cols)
TableFine(p) == p = [there |-> p.there, cols |-> p.cols] /\ p.there \in BOOLEAN

CallsShaped ==
  DOMAIN call = Calls /\ \A c \in Calls : DOMAIN call[c] = DOMAIN Idle /\ WorkFine(call[c].todo)
RowsShaped    == DOMAIN rows = Ids /\ \A j \in Ids : RowFine(rows[j])
TablesShaped  == DOMAIN phys = Names /\ \A n \in Names : TableFine(phys[n])
PendingShaped == \A c \in Calls : call[c].pending => call[c].id \in Ids /\ RowFine(call[c].row)

\* What a request can ask for.
Asked(me) ==
  /\ me.want.op \in {"create", "update", "delete"}
  /\ me.want.op # "delete" => me.want.name \in Names
  /\ me.want.op # "create" => me.id \in Ids
  /\ me.want.op = "update" => ~me.want.related
  /\ me.want.op = "delete" => ~me.want.single
  /\ me.want.related \in BOOLEAN

\* A request that waits for the lock has done nothing yet.
Untouched(me) ==
  /\ ~me.auto /\ ~me.pending /\ ~me.drop /\ ~me.created /\ ~me.saw /\ ~me.blind
  /\ ~me.agreed

AskedShaped ==
  \A c \in Calls : /\ call[c].pc # "idle" => Asked(call[c])
                   /\ call[c].pc = "acquire" => Untouched(call[c])

\* One change runs.
Alone == \A c, d \in Running : c = d

Full(cols) == [there |-> TRUE, cols |-> NamesOf(cols)]

\* The table is what the metadata after the write say.
Ready(me, ps) == ps[me.new.name] = Full(me.new.cols)

\* The rows are the new ones, or will be when the transaction commits.
Kept(me, rs) ==
  (me.pending => me.row = me.new) /\ (~me.pending => rs[me.id] = me.new)

\* How far a creation has come that started without a physical table or, on MySQL,
\* has dropped it.
Making(me, rs, ps) ==
  /\ me.pc \notin {"single", "release"} => ~me.drop
  /\ me.pc = "check" /\ ~me.saw => ~ps[me.want.name].there
  /\ me.pc \in {"write", "migrate"} => ~ps[me.want.name].there
  /\ me.pc \in {"migrate", "execute", "commit", "single"} =>
       me.id \in Ids /\ me.new.there /\ me.new.name = me.want.name
  /\ me.pc \in {"migrate", "execute", "commit"} => Kept(me, rs)
  /\ me.pc = "execute" => me.todo.create \/ Ready(me, ps)
  /\ me.pc = "commit" => Ready(me, ps)
  /\ me.pc = "compensate" => me.result # "ok"
  /\ me.pc = "single" \/ (me.pc = "release" /\ me.result = "ok") => Agree(rs[me.id], ps)

\* How far a creation has come, on the dialect d with the rows rs and the tables
\* ps; nothing is claimed once a query for a table has been lost, or when a table
\* without metadata is dropped at the commit.
CreateFine(d, me, rs, ps) ==
  me.want.op = "create" =>
    /\ me.pc \in {"begin", "look", "check"} => ~me.drop
    /\ me.pc = "execute" => /\ me.todo.create \/ me.todo.foreign
                            /\ ~me.todo.rename /\ me.todo.drops = {} /\ me.todo.adds = {}
    /\ ~me.blind /\ ~(d = "postgres" /\ me.saw) => Making(me, rs, ps)

\* The columns of the new metadata that the old do not have bear new names.
Changed(me) ==
  /\ Distinct(me.old.cols) /\ me.new.there /\ me.new.name \in Names
  /\ \A k \in me.new.cols \ me.old.cols : k.name \notin NamesOf(me.old.cols)

\* The name that the table of an update bears.
Bearer(me) == IF me.todo.rename THEN me.old.name ELSE me.new.name

\* The statements that are left turn the table into the new one, unless the next
\* of them fails because the table has been renamed.
Halfway(me, ps) ==
  /\ ~me.todo.create /\ ~me.todo.foreign
  /\ me.todo.rename => me.old.name # me.new.name
  /\ ps[Bearer(me)].there
  /\ (ps[Bearer(me)].cols \ me.todo.drops) \cup me.todo.adds = NamesOf(me.new.cols)
  /\ me.old.name # me.new.name /\ ~me.todo.rename => ps[me.old.name] = Gone

\* How far an update has come that started in agreement.
Updating(d, me, rs, ps) ==
  /\ me.pc \in {"write", "migrate", "execute"} => rs[me.id] = me.old /\ me.old.there
  /\ me.pc \in {"write", "migrate"} => Agree(me.old, ps)
  /\ me.pc = "execute" => Halfway(me, ps) /\ (d = "postgres" => Agree(me.old, ps))
  /\ me.pc \in {"migrate", "execute", "commit"} => Changed(me) /\ me.pending /\ me.row = me.new
  /\ me.pc = "commit" => Ready(me, ps)
  /\ \/ me.pc = "single"
     \/ me.pc = "release" /\ me.result = "ok"
     \/ me.pc = "release" /\ me.result = "error" /\ d = "postgres"
     => Agree(rs[me.id], ps)

\* How far an update has come.
UpdateFine(d, me, rs, ps) ==
  me.want.op = "update" =>
    /\ ~me.auto /\ ~me.drop /\ ~me.blind /\ ~me.created
    /\ me.pc \notin {"look", "compensate"}
    /\ me.pc \in {"write", "migrate", "execute"} => me.old.name \in Names
    /\ me.pc \in {"begin", "check"} => ~me.agreed
    /\ me.agreed /\ Identified(me) => Updating(d, me, rs, ps)

\* How far a deletion has come.
DeleteFine(d, me, rs, ps) ==
  me.want.op = "delete" =>
    /\ ~me.created /\ me.pc \notin {"look", "execute", "single", "compensate"}
    /\ d = "postgres" => ~me.auto
    /\ me.pc \in {"begin", "check"} => ~me.agreed
    /\ me.pc = "write" => rs[me.id] = me.old
    /\ me.pc \in {"write", "migrate", "commit"} => me.old.name \in Names
    /\ me.pc \in {"migrate", "commit"} =>
         (me.pending => me.row = NoRow) /\ (~me.pending => ~rs[me.id].there)
    /\ me.pc = "commit" /\ ~me.blind => ~ps[me.old.name].there \/ me.drop
    /\ me.pc = "release" /\ me.result = "ok" /\ ~me.blind =>
         ~rs[me.id].there /\ ~ps[me.old.name].there
    /\ /\ d = "postgres" /\ me.agreed
       /\ me.pc \in {"write", "migrate"} \/ (me.pc = "release" /\ me.result = "error")
       => Agree(rs[me.id], ps)

Fine(d, me, rs, ps) ==
  CreateFine(d, me, rs, ps) /\ UpdateFine(d, me, rs, ps) /\ DeleteFine(d, me, rs, ps)

Progress == \A c \in Running : Fine(dialect, call[c], rows, phys)

Shapes == CallsShaped /\ RowsShaped /\ TablesShaped /\ PendingShaped /\ AskedShaped

\* Nothing is said once two changes have run at once.
HonestInv == ~overlapped => plan \in Plans /\ Shapes /\ Alone /\ Progress

-----------------------------------------------------------------------------
(* What the helpers of the model change in a call.                          *)

\* Nothing but call c has moved.
OnlyMoves(c) ==
  /\ DOMAIN call' = Calls /\ DOMAIN call'[c] = DOMAIN Idle
  /\ \A d \in Calls : d # c => call'[d] = call[d]

SameAim(a, b) ==
  b.want = a.want /\ b.saw = a.saw /\ b.old = a.old /\ b.agreed = a.agreed

SameTrx(a, b) ==
  /\ b.id = a.id /\ b.new = a.new /\ b.auto = a.auto /\ b.drop = a.drop
  /\ b.pending = a.pending /\ b.row = a.row

LEMMA GotoEffect ==
  ASSUME CallsShaped, NEW c \in Calls, NEW l, Goto(c, l)
  PROVE  /\ OnlyMoves(c) /\ SameAim(call[c], call'[c]) /\ SameTrx(call[c], call'[c])
         /\ call'[c].todo = call[c].todo /\ call'[c].created = call[c].created
         /\ call'[c].blind = call[c].blind /\ call'[c].result = call[c].result
         /\ call'[c].pc = l
<1>1. call' = [call EXCEPT ![c] = [call[c] EXCEPT !.pc = l]]
  BY DEF Goto, CallsShaped
<1> QED
  BY <1>1 DEF CallsShaped, OnlyMoves, SameAim, SameTrx, Idle

LEMMA PlanEffect ==
  ASSUME CallsShaped, NEW c \in Calls, NEW w, Plan(c, w)
  PROVE  /\ OnlyMoves(c) /\ SameAim(call[c], call'[c]) /\ SameTrx(call[c], call'[c])
         /\ call'[c].todo = w
         /\ call'[c].created = (call[c].created \/ (call[c].want.op = "create" /\ w = NoWork))
         /\ call'[c].blind = call[c].blind /\ call'[c].result = call[c].result
         /\ call'[c].pc = IF w = NoWork THEN "commit" ELSE "execute"
<1> DEFINE made == call[c].created \/ (call[c].want.op = "create" /\ w = NoWork)
           next == IF w = NoWork THEN "commit" ELSE "execute"
<1>1. call' = [call EXCEPT ![c] = [call[c] EXCEPT !.todo = w, !.pc = next, !.created = made]]
  BY DEF Plan, CallsShaped
<1> HIDE DEF made, next
<1>2. /\ call'[c].todo = w /\ call'[c].created = made /\ call'[c].pc = next
      /\ OnlyMoves(c) /\ SameAim(call[c], call'[c]) /\ SameTrx(call[c], call'[c])
      /\ call'[c].blind = call[c].blind /\ call'[c].result = call[c].result
  BY <1>1 DEF CallsShaped, OnlyMoves, SameAim, SameTrx, Idle
<1> QED
  BY <1>2 DEF made, next

LEMMA AnswerEffect ==
  ASSUME CallsShaped, NEW c \in Calls, NEW a, Answer(c, a)
  PROVE  /\ OnlyMoves(c) /\ SameAim(call[c], call'[c]) /\ SameTrx(call[c], call'[c])
         /\ call'[c].todo = call[c].todo /\ call'[c].created = call[c].created
         /\ call'[c].blind = call[c].blind /\ call'[c].result = a
         /\ call'[c].pc = "release"
<1>1. call' = [call EXCEPT ![c] = [call[c] EXCEPT !.pc = "release", !.result = a]]
  BY DEF Answer, CallsShaped
<1> QED
  BY <1>1 DEF CallsShaped, OnlyMoves, SameAim, SameTrx, Idle

LEMMA PutEffect ==
  ASSUME CallsShaped, NEW c \in Calls, NEW j, NEW row, NEW new, Put(c, j, row, new)
  PROVE  /\ OnlyMoves(c) /\ SameAim(call[c], call'[c])
         /\ call'[c].id = j /\ call'[c].new = new /\ call'[c].auto = call[c].auto
         /\ call'[c].drop = call[c].drop
         /\ call'[c].pending = ~call[c].auto
         /\ call'[c].row = IF call[c].auto THEN NoRow ELSE row
         /\ call'[c].todo = call[c].todo /\ call'[c].created = call[c].created
         /\ call'[c].blind = call[c].blind /\ call'[c].result = call[c].result
         /\ call'[c].pc = "migrate"
         /\ rows' = IF call[c].auto THEN [rows EXCEPT ![j] = row] ELSE rows
<1> DEFINE r == IF call[c].auto THEN NoRow ELSE row
           p == ~call[c].auto
<1>1. call' = [call EXCEPT ![c] = [call[c] EXCEPT !.pc = "migrate", !.id = j, !.new = new,
                                                  !.row = r, !.pending = p]]
  BY DEF Put, CallsShaped
<1>2. rows' = IF call[c].auto THEN [rows EXCEPT ![j] = row] ELSE rows
  BY DEF Put
<1> HIDE DEF r, p
<1>3. /\ OnlyMoves(c) /\ SameAim(call[c], call'[c])
      /\ call'[c].id = j /\ call'[c].new = new /\ call'[c].auto = call[c].auto
      /\ call'[c].drop = call[c].drop /\ call'[c].pending = p /\ call'[c].row = r
      /\ call'[c].todo = call[c].todo /\ call'[c].created = call[c].created
      /\ call'[c].blind = call[c].blind /\ call'[c].result = call[c].result
      /\ call'[c].pc = "migrate"
  BY <1>1 DEF CallsShaped, OnlyMoves, SameAim, Idle
<1> QED
  BY <1>2, <1>3 DEF r, p

\* A transaction that has ended, at a new label and with a new result.
LEMMA EndedEffect ==
  ASSUME CallsShaped, NEW c \in Calls, NEW l, NEW a,
         call' = [call EXCEPT ![c] = [Ended(call[c]) EXCEPT !.pc = l, !.result = a]]
  PROVE  /\ OnlyMoves(c) /\ SameAim(call[c], call'[c])
         /\ call'[c].id = call[c].id /\ call'[c].new = call[c].new
         /\ ~call'[c].auto /\ ~call'[c].drop /\ ~call'[c].pending /\ call'[c].row = NoRow
         /\ call'[c].todo = NoWork /\ call'[c].created = call[c].created
         /\ call'[c].blind = call[c].blind /\ call'[c].result = a
         /\ call'[c].pc = l
  BY DEF Ended, CallsShaped, OnlyMoves, SameAim, Idle

LEMMA FailsEffect ==
  ASSUME CallsShaped, NEW c \in Calls, NEW why, Fails(c, why)
  PROVE  /\ OnlyMoves(c) /\ SameAim(call[c], call'[c])
         /\ call'[c].id = call[c].id /\ call'[c].new = call[c].new
         /\ ~call'[c].auto /\ ~call'[c].drop /\ ~call'[c].pending /\ call'[c].row = NoRow
         /\ call'[c].todo = NoWork /\ call'[c].created = call[c].created
         /\ call'[c].blind = call[c].blind /\ call'[c].result = why
         /\ call'[c].pc = IF call[c].created THEN "compensate" ELSE "release"
<1> DEFINE l == IF call[c].created THEN "compensate" ELSE "release"
<1>1. call' = [call EXCEPT ![c] = [Ended(call[c]) EXCEPT !.pc = l, !.result = why]]
  BY DEF Fails, CallsShaped
<1> HIDE DEF l
<1>2. /\ OnlyMoves(c) /\ SameAim(call[c], call'[c])
      /\ call'[c].id = call[c].id /\ call'[c].new = call[c].new
      /\ ~call'[c].auto /\ ~call'[c].drop /\ ~call'[c].pending /\ call'[c].row = NoRow
      /\ call'[c].todo = NoWork /\ call'[c].created = call[c].created
      /\ call'[c].blind = call[c].blind /\ call'[c].result = why
      /\ call'[c].pc = l
  BY <1>1, EndedEffect
<1> QED
  BY <1>2 DEF l

\* Column names. What is left of the old columns and what is new make up the
\* names of the new ones, when the added columns have new names.
LEMMA DiffNames ==
  ASSUME NEW old, NEW new, Distinct(old),
         \A k \in new \ old : k.name \notin NamesOf(old)
  PROVE  (NamesOf(old) \ NamesOf(old \ new)) \cup (NamesOf(new \ old) \ NamesOf(old)) = NamesOf(new)
<1> DEFINE lhs == (NamesOf(old) \ NamesOf(old \ new)) \cup (NamesOf(new \ old) \ NamesOf(old))
<1>1. ASSUME NEW n \in lhs PROVE n \in NamesOf(new)
  BY <1>1 DEF NamesOf
<1>2. ASSUME NEW n \in NamesOf(new) PROVE n \in lhs
  <2>1. PICK k \in new : n = k.name
    BY <1>2 DEF NamesOf
  <2>2. CASE k \in old
    <3>1. n \in NamesOf(old)
      BY <2>1, <2>2 DEF NamesOf
    <3>2. n \notin NamesOf(old \ new)
      BY <2>1, <2>2 DEF NamesOf, Distinct
    <3> QED
      BY <3>1, <3>2
  <2>3. CASE k \notin old
    <3>1. n \in NamesOf(new \ old) /\ n \notin NamesOf(old)
      BY <2>1, <2>3 DEF NamesOf
    <3> QED
      BY <3>1
  <2> QED
    BY <2>2, <2>3
<1> QED
  BY <1>1, <1>2

\* Columns that are inserted have the names they were asked for, each once.
LEMMA InsertedNames ==
  ASSUME NEW names
  PROVE  /\ \A k \in Inserted(names) : k.name \in names
         /\ Distinct(Inserted(names))
<1> DEFINE G(n) == [name |-> n, id |-> CHOOSE g \in 0 .. 2 : [name |-> n, id |-> g] \notin Known]
<1>1. Inserted(names) = {G(n) : n \in names}
  BY DEF Inserted
<1>2. \A n \in names : G(n).name = n
  OBVIOUS
<1> HIDE DEF G
<1> QED
  BY <1>1, <1>2 DEF Distinct

\* The work of an update is a work list, and applied to a table with the old
\* columns it gives one with the new.
LEMMA DiffWorkIs ==
  ASSUME NEW old, NEW new
  PROVE  /\ WorkFine(DiffWork(old, new))
         /\ DiffWork(old, new).create = FALSE /\ DiffWork(old, new).foreign = FALSE
         /\ DiffWork(old, new).rename = (old.name # new.name)
         /\ DiffWork(old, new).drops = NamesOf(old.cols \ new.cols)
         /\ DiffWork(old, new).adds = NamesOf(new.cols \ old.cols) \ NamesOf(old.cols)
<1> DEFINE renamed == old.name # new.name
           drops == NamesOf(old.cols \ new.cols)
           adds  == NamesOf(new.cols \ old.cols) \ NamesOf(old.cols)
<1>1. DiffWork(old, new) = [NoWork EXCEPT !.rename = renamed, !.drops = drops, !.adds = adds]
  BY DEF DiffWork
<1>2. renamed \in BOOLEAN
  OBVIOUS
<1> HIDE DEF renamed, drops, adds
<1>3. DiffWork(old, new) = [create |-> FALSE, foreign |-> FALSE, rename |-> renamed,
                            drops |-> drops, adds |-> adds]
  BY <1>1 DEF NoWork
<1>4. /\ WorkFine(DiffWork(old, new))
      /\ DiffWork(old, new).create = FALSE /\ DiffWork(old, new).foreign = FALSE
      /\ DiffWork(old, new).rename = renamed
      /\ DiffWork(old, new).drops = drops /\ DiffWork(old, new).adds = adds
  BY <1>2, <1>3 DEF WorkFine
<1> QED
  BY <1>4 DEF renamed, drops, adds

LEMMA CreateWorkIs ==
  ASSUME NEW c \in Calls, call[c].want.related \in BOOLEAN
  PROVE  /\ WorkFine(CreateWork(c))
         /\ phys[NewName(c)].there => CreateWork(c) = NoWork
         /\ ~phys[NewName(c)].there =>
              /\ CreateWork(c).create = TRUE /\ CreateWork(c).foreign = call[c].want.related
              /\ CreateWork(c).rename = FALSE
              /\ CreateWork(c).drops = {} /\ CreateWork(c).adds = {}
  BY DEF CreateWork, NoWork, WorkFine

LEMMA NoWorkIs ==
  /\ WorkFine(NoWork)
  /\ \A w : WorkFine(w) => (w = NoWork <=> /\ ~w.create /\ ~w.foreign /\ ~w.rename
                                           /\ w.drops = {} /\ w.adds = {})
  BY DEF NoWork, WorkFine

-----------------------------------------------------------------------------
(* Every step of a change keeps its promise.                                *)

LEMMA OnlyCreate ==
  ASSUME NEW d, NEW me, NEW rs, NEW ps, me.want.op = "create"
  PROVE  UpdateFine(d, me, rs, ps) /\ DeleteFine(d, me, rs, ps)
  BY DEF UpdateFine, DeleteFine

LEMMA OnlyUpdate ==
  ASSUME NEW d, NEW me, NEW rs, NEW ps, me.want.op = "update"
  PROVE  CreateFine(d, me, rs, ps) /\ DeleteFine(d, me, rs, ps)
  BY DEF CreateFine, DeleteFine

LEMMA OnlyDelete ==
  ASSUME NEW d, NEW me, NEW rs, NEW ps, me.want.op = "delete"
  PROVE  CreateFine(d, me, rs, ps) /\ UpdateFine(d, me, rs, ps)
  BY DEF CreateFine, UpdateFine

\* A change runs, keeping its promise, and has asked for something sensible.
Runs(c) ==
  /\ Shapes /\ Asked(call[c]) /\ call[c].pc \notin {"idle", "acquire"}
  /\ Fine(dialect, call[c], rows, phys)

FineAfter(c) == Fine(dialect, call'[c], rows', phys')

\* An error rolls back: nothing is claimed of a creation, nor on MySQL, nor when
\* the answer of the COMMIT is lost; elsewhere nothing has changed so far.
LEMMA FailsFine ==
  ASSUME NEW c \in Calls, Runs(c), NEW why, Fails(c, why), why # "ok",
         \/ call[c].want.op = "create" \/ ~Postgres \/ why # "error"
         \/ /\ rows' = rows /\ phys' = phys
            /\ call[c].pc \in {"begin", "look", "check", "write", "migrate", "execute", "single"}
  PROVE  FineAfter(c)
<1>1. /\ SameAim(call[c], call'[c]) /\ call'[c].id = call[c].id /\ call'[c].new = call[c].new
      /\ ~call'[c].auto /\ ~call'[c].drop /\ ~call'[c].pending
      /\ call'[c].created = call[c].created /\ call'[c].blind = call[c].blind
      /\ call'[c].result = why
      /\ call'[c].pc = IF call[c].created THEN "compensate" ELSE "release"
  BY FailsEffect DEF Runs, Shapes
<1>2. CASE call[c].want.op = "create"
  <2>1. call'[c].want.op = "create"
    BY <1>1, <1>2 DEF SameAim
  <2>2. Making(call'[c], rows', phys')
    BY <1>1 DEF Making
  <2>3. CreateFine(dialect, call'[c], rows', phys')
    BY <1>1, <2>2 DEF CreateFine
  <2> QED
    BY <2>1, <2>3, OnlyCreate DEF FineAfter, Fine
<1>3. CASE call[c].want.op = "update"
  <2>1. call'[c].want.op = "update" /\ call'[c].want = call[c].want
    BY <1>1, <1>3 DEF SameAim
  <2>2. UpdateFine(dialect, call[c], rows, phys)
    BY DEF Runs, Fine
  <2>3. call'[c].pc = "release" /\ ~call[c].created /\ ~call[c].blind
    BY <1>1, <1>3, <2>2 DEF UpdateFine
  <2>4. ASSUME call'[c].agreed, Identified(call'[c]) PROVE Updating(dialect, call'[c], rows', phys')
    <3>1. call[c].agreed /\ Identified(call[c])
      BY <1>1, <2>4 DEF SameAim, Identified
    <3>2. Updating(dialect, call[c], rows, phys) /\ call[c].pc \notin {"begin", "check", "look"}
      BY <1>3, <2>2, <3>1 DEF UpdateFine
    <3>3. why = "error" /\ Postgres => Agree(rows'[call'[c].id], phys')
      <4> SUFFICES ASSUME why = "error", Postgres PROVE Agree(rows[call[c].id], phys)
        BY <1>1, <1>3
      <4>1. call[c].pc \in {"write", "migrate", "execute", "single"}
        BY <1>3, <3>2
      <4> QED
        BY <3>2, <4>1 DEF Updating, Postgres
    <3> QED
      BY <1>1, <2>3, <3>3 DEF Updating, Postgres
  <2>5. UpdateFine(dialect, call'[c], rows', phys')
    BY <1>1, <2>3, <2>4 DEF UpdateFine
  <2> QED
    BY <2>1, <2>5, OnlyUpdate DEF FineAfter, Fine
<1>4. CASE call[c].want.op = "delete"
  <2>1. call'[c].want.op = "delete" /\ call'[c].agreed = call[c].agreed
    BY <1>1, <1>4 DEF SameAim
  <2>2. DeleteFine(dialect, call[c], rows, phys)
    BY DEF Runs, Fine
  <2>3. call'[c].pc = "release" /\ ~call[c].created
        /\ call[c].pc \notin {"look", "execute", "single", "compensate"}
    BY <1>1, <1>4, <2>2 DEF DeleteFine
  <2>4. why = "error" /\ Postgres /\ call[c].agreed => Agree(rows'[call'[c].id], phys')
    BY <1>1, <1>4, <2>2, <2>3 DEF DeleteFine, Postgres
  <2>5. DeleteFine(dialect, call'[c], rows', phys')
    BY <1>1, <2>1, <2>3, <2>4 DEF DeleteFine, Postgres
  <2> QED
    BY <2>1, <2>5, OnlyDelete DEF FineAfter, Fine
<1> QED
  BY <1>2, <1>3, <1>4 DEF Runs, Asked

\* The transaction begins, and createTable looks for the table.
LEMMA BeginFine ==
  ASSUME NEW c \in Calls, Runs(c), Begin(c) \/ Look(c)
  PROVE  FineAfter(c) /\ OnlyMoves(c) /\ call'[c].todo = call[c].todo
         /\ call'[c].pending = call[c].pending /\ call'[c].row = call[c].row
         /\ call'[c].id = call[c].id /\ call'[c].want = call[c].want
<1>u. CallsShaped /\ rows' = rows /\ phys' = phys
  BY DEF Runs, Shapes, Begin, Look, metaVars
<1>1. CASE Begin(c)
  <2>1. PICK s : call' = [call EXCEPT ![c] =
          [call[c] EXCEPT !.session = s,
                          !.pc = IF call[c].want.op = "create" THEN "look" ELSE "check"]]
    BY <1>1, <1>u DEF Begin, CallsShaped
  <2>2. OnlyMoves(c) /\ SameAim(call[c], call'[c]) /\ SameTrx(call[c], call'[c])
        /\ call'[c].todo = call[c].todo /\ call'[c].created = call[c].created
        /\ call'[c].blind = call[c].blind
        /\ call'[c].pc = IF call[c].want.op = "create" THEN "look" ELSE "check"
    BY <1>u, <2>1 DEF CallsShaped, OnlyMoves, SameAim, SameTrx, Idle
  <2>3. CreateFine(dialect, call'[c], rows', phys')
    BY <1>1, <1>u, <2>2 DEF Begin, Runs, Fine, CreateFine, Making, SameAim, SameTrx
  <2>4. UpdateFine(dialect, call'[c], rows', phys')
    BY <1>1, <1>u, <2>2 DEF Begin, Runs, Fine, UpdateFine, SameAim, SameTrx
  <2>5. DeleteFine(dialect, call'[c], rows', phys')
    BY <1>1, <1>u, <2>2 DEF Begin, Runs, Fine, DeleteFine, SameAim, SameTrx
  <2> QED
    BY <2>2, <2>3, <2>4, <2>5 DEF FineAfter, Fine, SameTrx, SameAim
<1>2. CASE Look(c)
  <2>1. call' = [call EXCEPT ![c] = [call[c] EXCEPT !.saw = phys[call[c].want.name].there,
                                                    !.pc = "check"]]
    BY <1>2, <1>u DEF Look, CallsShaped
  <2>2. OnlyMoves(c) /\ call'[c].want = call[c].want /\ call'[c].agreed = call[c].agreed
        /\ SameTrx(call[c], call'[c])
        /\ call'[c].todo = call[c].todo /\ call'[c].created = call[c].created
        /\ call'[c].saw = phys[call[c].want.name].there /\ call'[c].pc = "check"
    BY <1>u, <2>1 DEF CallsShaped, OnlyMoves, SameTrx, Idle
  <2>3. CreateFine(dialect, call'[c], rows', phys')
    BY <1>2, <1>u, <2>2 DEF Look, Runs, Fine, CreateFine, Making, SameTrx
  <2>4. UpdateFine(dialect, call'[c], rows', phys') /\ DeleteFine(dialect, call'[c], rows', phys')
    BY <1>2, <1>u, <2>2 DEF Look, Runs, Fine, UpdateFine, DeleteFine, SameTrx
  <2> QED
    BY <2>2, <2>3, <2>4 DEF FineAfter, Fine, SameTrx
<1> QED
  BY <1>1, <1>2

\* A stray table is there or not; on MySQL it goes at once.
LEMMA CheckFine ==
  ASSUME NEW c \in Calls, Runs(c), NoMismatch(c) \/ Mismatch(c)
  PROVE  FineAfter(c) /\ OnlyMoves(c) /\ call'[c].todo = call[c].todo
         /\ call'[c].pending = call[c].pending /\ call'[c].row = call[c].row
         /\ call'[c].id = call[c].id /\ call'[c].want = call[c].want
<1>u. CallsShaped /\ call[c].want.op = "create" /\ call[c].pc = "check" /\ ~call[c].drop
      /\ CreateFine(dialect, call[c], rows, phys) /\ call[c].want.name \in Names
  BY DEF Runs, Shapes, NoMismatch, Mismatch, Fine, CreateFine, Asked
<1>1. CASE Goto(c, "write") /\ phys' = phys /\ rows' = rows
             /\ (call[c].saw => ~phys[call[c].want.name].there)
  <2>1. /\ OnlyMoves(c) /\ SameAim(call[c], call'[c]) /\ SameTrx(call[c], call'[c])
        /\ call'[c].todo = call[c].todo /\ call'[c].created = call[c].created
        /\ call'[c].blind = call[c].blind /\ call'[c].pc = "write"
    BY <1>1, <1>u, GotoEffect
  <2>2. CreateFine(dialect, call'[c], rows', phys')
    BY <1>1, <1>u, <2>1 DEF CreateFine, Making, SameAim, SameTrx
  <2> QED
    BY <1>u, <2>1, <2>2, OnlyCreate DEF FineAfter, Fine, SameTrx, SameAim
<1>2. CASE Mismatch(c) /\ phys[call[c].want.name].there
  <2> DEFINE pg == Postgres
             my == ~Postgres
  <2>1. call' = [call EXCEPT ![c] = [call[c] EXCEPT !.pc = "write", !.drop = pg, !.auto = my]]
    BY <1>2, <1>u DEF Mismatch, CallsShaped
  <2>2. /\ phys' = IF Postgres THEN phys ELSE [phys EXCEPT ![call[c].want.name] = Gone]
        /\ call[c].saw
    BY <1>2 DEF Mismatch
  <2> HIDE DEF pg, my
  <2>3. OnlyMoves(c) /\ SameAim(call[c], call'[c]) /\ call'[c].drop = pg
        /\ call'[c].todo = call[c].todo /\ call'[c].blind = call[c].blind
        /\ call'[c].pending = call[c].pending /\ call'[c].row = call[c].row
        /\ call'[c].id = call[c].id /\ call'[c].pc = "write"
    BY <1>u, <2>1 DEF CallsShaped, OnlyMoves, SameAim, Idle
  <2>4. ~Postgres => ~pg
    BY DEF pg
  <2>5. ~Postgres => ~phys'[call[c].want.name].there
    BY <1>u, <2>2 DEF Runs, Shapes, TablesShaped, Gone
  <2>6. CreateFine(dialect, call'[c], rows', phys')
    BY <1>u, <2>2, <2>3, <2>4, <2>5 DEF CreateFine, Making, SameAim, Postgres
  <2> QED
    BY <1>u, <2>3, <2>6, OnlyCreate DEF FineAfter, Fine, SameAim
<1>3. NoMismatch(c) \/ (Mismatch(c) /\ ~phys[call[c].want.name].there)
        => Goto(c, "write") /\ phys' = phys /\ rows' = rows
             /\ (call[c].saw => ~phys[call[c].want.name].there)
  BY DEF NoMismatch, Mismatch, metaVars
<1> QED
  BY <1>1, <1>2, <1>3

\* The current metadata are read, and compared with the table.
LEMMA ReadFine ==
  ASSUME NEW c \in Calls, Runs(c), Read(c), rows[call[c].id].there
  PROVE  FineAfter(c) /\ OnlyMoves(c) /\ call'[c].todo = call[c].todo
         /\ call'[c].pending = call[c].pending /\ call'[c].row = call[c].row
         /\ call'[c].id = call[c].id /\ call'[c].want = call[c].want
<1> DEFINE ended == call[c].want.related /\ ~Postgres
           agree == Agree(rows[call[c].id], phys)
<1>u. /\ CallsShaped /\ rows' = rows /\ phys' = phys
      /\ call[c].want.op \in {"update", "delete"} /\ call[c].pc = "check"
      /\ call[c].want.op = "update" => ~call[c].want.related
      /\ call[c].id \in Ids /\ RowFine(rows[call[c].id])
  BY DEF Runs, Shapes, RowsShaped, Asked, Read, metaVars
<1>1. call' = [call EXCEPT ![c] = [call[c] EXCEPT !.pc = "write", !.old = rows[call[c].id],
                                                  !.auto = ended, !.agreed = agree]]
  BY <1>u DEF Read, CallsShaped
<1>2. /\ call[c].want.op = "update" => ~ended
      /\ Postgres => ~ended
      /\ agree => Agree(rows[call[c].id], phys)
  BY <1>u
<1> HIDE DEF ended, agree
<1>3. /\ OnlyMoves(c) /\ call'[c].want = call[c].want /\ call'[c].id = call[c].id
      /\ call'[c].old = rows[call[c].id] /\ call'[c].auto = ended /\ call'[c].agreed = agree
      /\ call'[c].drop = call[c].drop /\ call'[c].blind = call[c].blind
      /\ call'[c].created = call[c].created /\ call'[c].todo = call[c].todo
      /\ call'[c].pending = call[c].pending /\ call'[c].row = call[c].row
      /\ call'[c].pc = "write"
  BY <1>1, <1>u DEF CallsShaped, OnlyMoves, Idle
<1>4. CASE call[c].want.op = "update"
  <2>1. Updating(dialect, call'[c], rows', phys') \/ ~call'[c].agreed
    BY <1>u, <1>2, <1>3 DEF Updating
  <2>2. UpdateFine(dialect, call'[c], rows', phys')
    BY <1>u, <1>2, <1>3, <1>4, <2>1 DEF UpdateFine, Runs, Fine, RowFine, Read
  <2> QED
    BY <1>3, <1>4, <2>2, OnlyUpdate DEF FineAfter, Fine
<1>5. CASE call[c].want.op = "delete"
  <2>1. DeleteFine(dialect, call'[c], rows', phys')
    BY <1>u, <1>2, <1>3, <1>5 DEF DeleteFine, Runs, Fine, RowFine, Postgres
  <2> QED
    BY <1>3, <1>5, <2>1, OnlyDelete DEF FineAfter, Fine
<1> QED
  BY <1>3, <1>4, <1>5, <1>u

-----------------------------------------------------------------------------
(* The metadata rows are written.                                           *)

\* A step of call c leaves everything in its shape.
Sound(c) ==
  /\ OnlyMoves(c) /\ WorkFine(call'[c].todo) /\ Asked(call'[c]) /\ call'[c].pc # "acquire"
  /\ call'[c].pending => call'[c].id \in Ids /\ RowFine(call'[c].row)
  /\ RowsShaped' /\ TablesShaped'

\* A written row with distinct names, in the transaction or, on MySQL, without.
LEMMA PutSound ==
  ASSUME NEW c \in Calls, Runs(c), NEW j \in Ids, NEW row, NEW new, Put(c, j, row, new),
         RowFine(row), phys' = phys, call[c].want.op # "create" => j = call[c].id
  PROVE  Sound(c)
<1>1. /\ OnlyMoves(c) /\ SameAim(call[c], call'[c])
      /\ call'[c].id = j /\ call'[c].todo = call[c].todo /\ call'[c].pc = "migrate"
      /\ call'[c].row = IF call[c].auto THEN NoRow ELSE row
      /\ rows' = IF call[c].auto THEN [rows EXCEPT ![j] = row] ELSE rows
  BY PutEffect DEF Runs, Shapes
<1>2. RowFine(NoRow)
  BY DEF RowFine, NoRow, Distinct
<1>3. RowsShaped'
  BY <1>1 DEF Runs, Shapes, RowsShaped
<1>4. TablesShaped'
  BY DEF Runs, Shapes, TablesShaped
<1>5. Asked(call'[c])
  BY <1>1 DEF Runs, Asked, SameAim
<1> QED
  BY <1>1, <1>2, <1>3, <1>4, <1>5 DEF Sound, Runs, Shapes, CallsShaped

\* A rollback leaves everything in its shape.
LEMMA FailsSound ==
  ASSUME NEW c \in Calls, Runs(c), NEW why, Fails(c, why), RowsShaped', TablesShaped'
  PROVE  Sound(c)
<1>1. /\ OnlyMoves(c) /\ SameAim(call[c], call'[c]) /\ call'[c].id = call[c].id
      /\ ~call'[c].pending /\ call'[c].todo = NoWork
      /\ call'[c].pc \in {"compensate", "release"}
  BY FailsEffect DEF Runs, Shapes
<1>2. Asked(call'[c])
  BY <1>1 DEF Runs, Asked, SameAim
<1> QED
  BY <1>1, <1>2, NoWorkIs DEF Sound

LEMMA SameShapes ==
  ASSUME Shapes
  PROVE  /\ rows' = rows => RowsShaped'
         /\ phys' = phys => TablesShaped'
  BY DEF Shapes, RowsShaped, TablesShaped

LEMMA WriteCreateFine ==
  ASSUME NEW c \in Calls, Runs(c), WriteCreate(c)
  PROVE  FineAfter(c) /\ Sound(c)
<1>u. /\ call[c].want.op = "create" /\ call[c].pc = "write" /\ phys' = phys
      /\ CreateFine(dialect, call[c], rows, phys) /\ call[c].want.name \in Names
  BY DEF Runs, WriteCreate, Fine, Asked
<1>1. CASE Fails(c, "error") /\ rows' = rows
  BY <1>1, <1>u, FailsFine, FailsSound, SameShapes DEF Runs
<1>2. CASE ~(Fails(c, "error") /\ rows' = rows)
  <2> DEFINE j   == CHOOSE k \in NewIds : TRUE
             row == [there |-> TRUE, cols |-> Inserted(call[c].want.fresh), name |-> call[c].want.name]
  <2>1. NewIds # {} /\ Put(c, j, row, row)
    BY <1>2 DEF WriteCreate
  <2>2. j \in Ids
    BY <2>1 DEF NewIds
  <2>3. row.there = TRUE /\ row.name = call[c].want.name /\ RowFine(row)
    BY <1>u, InsertedNames DEF RowFine
  <2> HIDE DEF j, row
  <2>4. Sound(c)
    BY <1>u, <2>1, <2>2, <2>3, PutSound
  <2>5. /\ SameAim(call[c], call'[c]) /\ call'[c].id = j /\ call'[c].new = row
        /\ call'[c].drop = call[c].drop /\ call'[c].pending = ~call[c].auto
        /\ call'[c].row = IF call[c].auto THEN NoRow ELSE row
        /\ call'[c].blind = call[c].blind /\ call'[c].pc = "migrate"
        /\ rows' = IF call[c].auto THEN [rows EXCEPT ![j] = row] ELSE rows
    BY <2>1, PutEffect DEF Runs, Shapes
  <2>6. Kept(call'[c], rows')
    BY <2>2, <2>5 DEF Kept, Runs, Shapes, RowsShaped
  <2>7. ASSUME Making(call[c], rows, phys) PROVE Making(call'[c], rows', phys')
    BY <1>u, <2>2, <2>3, <2>5, <2>6, <2>7 DEF Making, SameAim
  <2>8. CreateFine(dialect, call'[c], rows', phys')
    BY <1>u, <2>5, <2>7 DEF CreateFine, SameAim
  <2> QED
    BY <1>u, <2>4, <2>5, <2>8, OnlyCreate DEF FineAfter, Fine, SameAim
<1> QED
  BY <1>1, <1>2

\* What is left of the columns and the inserted ones make a row of distinct
\* names; where nothing has overlapped, it is also what is handed on.
LEMMA WriteUpdateFine ==
  ASSUME NEW c \in Calls, Runs(c), WriteUpdate(c)
  PROVE  FineAfter(c) /\ Sound(c)
<1> DEFINE id   == call[c].id
           want == call[c].want
           seen == IF Postgres THEN rows[id].cols ELSE call[c].old.cols
           left == rows[id].cols \ (seen \ want.keep)
           cols == Inserted(want.fresh)
           row  == [there |-> TRUE, cols |-> left \cup cols, name |-> want.name]
           new  == IF Postgres THEN row ELSE [row EXCEPT !.cols = (seen \cap want.keep) \cup cols]
<1>u. /\ want.op = "update" /\ call[c].pc = "write" /\ phys' = phys /\ id \in Ids
      /\ UpdateFine(dialect, call[c], rows, phys) /\ want.name \in Names
      /\ RowFine(rows[id])
  BY DEF Runs, WriteUpdate, Fine, Asked, Shapes, RowsShaped
<1>1. CASE Fails(c, "error") /\ rows' = rows
  BY <1>1, <1>u, FailsFine, FailsSound, SameShapes DEF Runs
<1>2. CASE ~(Fails(c, "error") /\ rows' = rows)
  <2>1. NamesOf(left) \cap want.fresh = {} /\ Put(c, id, row, new)
    BY <1>2 DEF WriteUpdate
  <2>2. row.there = TRUE /\ row.name = want.name /\ row.cols = left \cup cols
    OBVIOUS
  <2>3. Distinct(row.cols)
    <3>1. \A k \in left : k.name \notin want.fresh
      BY <2>1 DEF NamesOf
    <3>2. Distinct(left)
      BY <1>u DEF RowFine, Distinct
    <3>3. Distinct(cols) /\ \A k \in cols : k.name \in want.fresh
      BY InsertedNames
    <3> HIDE DEF left, cols
    <3> QED
      BY <3>1, <3>2, <3>3 DEF Distinct
  <2>4. RowFine(row)
    BY <1>u, <2>2, <2>3 DEF RowFine
  <2>5. rows[id] = call[c].old => new = row
    <3> SUFFICES ASSUME rows[id] = call[c].old PROVE new = row
      OBVIOUS
    <3>1. seen = rows[id].cols /\ seen \cap want.keep = left
      OBVIOUS
    <3> QED
      BY <3>1
  <2>6. rows[id] = call[c].old => \A k \in row.cols \ call[c].old.cols : k.name \in want.fresh
    BY InsertedNames
  <2> HIDE DEF row, new, left, cols, seen
  <2>7. Sound(c)
    BY <1>u, <2>1, <2>4, PutSound
  <2>8. /\ SameAim(call[c], call'[c]) /\ call'[c].id = id /\ call'[c].new = new
        /\ call'[c].auto = call[c].auto /\ call'[c].drop = call[c].drop
        /\ call'[c].pending = ~call[c].auto
        /\ call'[c].row = IF call[c].auto THEN NoRow ELSE row
        /\ call'[c].blind = call[c].blind /\ call'[c].created = call[c].created
        /\ call'[c].pc = "migrate"
        /\ rows' = IF call[c].auto THEN [rows EXCEPT ![id] = row] ELSE rows
    BY <2>1, PutEffect DEF Runs, Shapes
  <2>9. ASSUME call[c].agreed, Identified(call[c])
        PROVE  Updating(dialect, call'[c], rows', phys')
    <3>1. /\ ~call[c].auto /\ rows[id] = call[c].old /\ call[c].old.there
          /\ Agree(call[c].old, phys)
      BY <1>u, <2>9 DEF UpdateFine, Updating
    <3>2. Changed(call'[c])
      BY <1>u, <2>2, <2>5, <2>6, <2>8, <2>9, <3>1 DEF Changed, RowFine, SameAim, Identified
    <3>3. /\ rows' = rows /\ call'[c].pending /\ call'[c].row = call'[c].new
          /\ call'[c].pc = "migrate" /\ call'[c].old = call[c].old /\ call'[c].id = id
      BY <2>5, <2>8, <3>1 DEF SameAim
    <3> QED
      BY <1>u, <3>1, <3>2, <3>3 DEF Updating
  <2>10. UpdateFine(dialect, call'[c], rows', phys')
    BY <1>u, <2>8, <2>9 DEF UpdateFine, SameAim, Identified
  <2> QED
    BY <1>u, <2>7, <2>8, <2>10, OnlyUpdate DEF FineAfter, Fine, SameAim
<1> QED
  BY <1>1, <1>2

LEMMA WriteDeleteFine ==
  ASSUME NEW c \in Calls, Runs(c), WriteDelete(c)
  PROVE  FineAfter(c) /\ Sound(c)
<1>u. /\ call[c].want.op = "delete" /\ call[c].pc = "write" /\ phys' = phys /\ call[c].id \in Ids
      /\ DeleteFine(dialect, call[c], rows, phys) /\ Put(c, call[c].id, NoRow, NoRow)
  BY DEF Runs, WriteDelete, Fine, Asked
<1>1. RowFine(NoRow) /\ NoRow.there = FALSE
  BY DEF RowFine, NoRow, Distinct
<1>2. Sound(c)
  BY <1>u, <1>1, PutSound
<1>3. /\ SameAim(call[c], call'[c]) /\ call'[c].id = call[c].id
      /\ call'[c].auto = call[c].auto /\ call'[c].drop = call[c].drop
      /\ call'[c].pending = ~call[c].auto /\ call'[c].row = NoRow
      /\ call'[c].created = call[c].created /\ call'[c].pc = "migrate"
      /\ rows' = IF call[c].auto THEN [rows EXCEPT ![call[c].id] = NoRow] ELSE rows
  BY <1>u, PutEffect DEF Runs, Shapes
<1>4. call[c].auto => rows'[call[c].id] = NoRow
  BY <1>u, <1>3 DEF Runs, Shapes, RowsShaped
<1>5. DeleteFine(dialect, call'[c], rows', phys')
  BY <1>u, <1>1, <1>3, <1>4 DEF DeleteFine, SameAim
<1> QED
  BY <1>u, <1>2, <1>3, <1>5, OnlyDelete DEF FineAfter, Fine, SameAim

\* Rows inserted outside the transaction, up to the failure.
LEMMA WriteTornFine ==
  ASSUME NEW c \in Calls, Runs(c), WriteTorn(c)
  PROVE  FineAfter(c) /\ Sound(c)
<1>1. /\ call[c].want.op = "create" /\ Fails(c, "error") /\ phys' = phys
      /\ call[c].want.name \in Names
  BY DEF WriteTorn, Runs, Asked
<1>2. PICK part \in SUBSET Inserted(call[c].want.fresh) :
        rows' = [rows EXCEPT ![CHOOSE j \in NewIds : TRUE] =
                   [there |-> TRUE, cols |-> part, name |-> call[c].want.name]]
  BY DEF WriteTorn
<1>3. Distinct(part)
  BY InsertedNames DEF Distinct
<1>4. RowFine([there |-> TRUE, cols |-> part, name |-> call[c].want.name])
  BY <1>1, <1>3 DEF RowFine
<1>5. RowsShaped'
  BY <1>2, <1>4 DEF Runs, Shapes, RowsShaped
<1> QED
  BY <1>1, <1>5, FailsFine, FailsSound, SameShapes DEF Runs

-----------------------------------------------------------------------------
(* The physical tables follow.                                              *)

\* A plan of statements leaves the rest of the call as it is.
LEMMA PlanSound ==
  ASSUME NEW c \in Calls, Runs(c), NEW w, Plan(c, w), WorkFine(w), rows' = rows, TablesShaped'
  PROVE  Sound(c)
<1>1. /\ OnlyMoves(c) /\ SameAim(call[c], call'[c]) /\ SameTrx(call[c], call'[c])
      /\ call'[c].todo = w /\ call'[c].pc \in {"commit", "execute"}
  BY PlanEffect DEF Runs, Shapes
<1>2. Asked(call'[c]) /\ RowsShaped'
  BY <1>1, SameShapes DEF Runs, Asked, SameAim, SameTrx
<1>3. call'[c].pending => call'[c].id \in Ids /\ RowFine(call'[c].row)
  BY <1>1 DEF Runs, Shapes, PendingShaped, SameTrx
<1> QED
  BY <1>1, <1>2, <1>3 DEF Sound

\* Nothing is claimed of an update that did not start in agreement.
LEMMA PlanLoose ==
  ASSUME NEW c \in Calls, Runs(c), NEW w, Plan(c, w), call[c].want.op = "update",
         call[c].agreed /\ Identified(call[c]) => Updating(dialect, call'[c], rows', phys'),
         call[c].pc \in {"migrate", "execute"}
  PROVE  FineAfter(c)
<1>1. /\ SameAim(call[c], call'[c]) /\ SameTrx(call[c], call'[c])
      /\ call'[c].created = (call[c].created \/ (call[c].want.op = "create" /\ w = NoWork))
      /\ call'[c].blind = call[c].blind /\ call'[c].pc \in {"commit", "execute"}
  BY PlanEffect DEF Runs, Shapes
<1>2. UpdateFine(dialect, call'[c], rows', phys')
  BY <1>1 DEF Runs, Fine, UpdateFine, SameAim, SameTrx, Identified
<1> QED
  BY <1>1, <1>2, OnlyUpdate DEF FineAfter, Fine, SameAim

LEMMA MigrateCreateFine ==
  ASSUME NEW c \in Calls, Runs(c), MigrateCreate(c)
  PROVE  FineAfter(c) /\ Sound(c)
<1> DEFINE w == CreateWork(c)
           n == call[c].want.name
<1>u. /\ call[c].want.op = "create" /\ call[c].pc = "migrate" /\ phys' = phys /\ rows' = rows
      /\ CreateFine(dialect, call[c], rows, phys) /\ Plan(c, w) /\ NewName(c) = n
      /\ call[c].want.related \in BOOLEAN
  BY DEF Runs, MigrateCreate, Fine, Asked, metaVars, NewName
<1>1. /\ WorkFine(w)
      /\ phys[n].there => w = NoWork
      /\ ~phys[n].there => w.create = TRUE /\ w.rename = FALSE /\ w.drops = {} /\ w.adds = {}
  BY <1>u, CreateWorkIs
<1> HIDE DEF w
<1>2. Sound(c)
  BY <1>u, <1>1, PlanSound, SameShapes DEF Runs
<1>3. /\ SameAim(call[c], call'[c]) /\ SameTrx(call[c], call'[c]) /\ call'[c].todo = w
      /\ call'[c].blind = call[c].blind /\ call'[c].pc = IF w = NoWork THEN "commit" ELSE "execute"
  BY <1>u, PlanEffect DEF Runs, Shapes
<1>4. ASSUME Making(call[c], rows, phys) PROVE Making(call'[c], rows', phys')
  <2>1. ~phys[n].there
    BY <1>u, <1>4 DEF Making
  <2>2. w.create /\ ~w.rename /\ w.drops = {} /\ w.adds = {} /\ call'[c].pc = "execute"
    BY <1>1, <1>3, <2>1, NoWorkIs
  <2> QED
    BY <1>u, <1>3, <1>4, <2>2 DEF Making, Kept, SameAim, SameTrx
<1>5. CreateFine(dialect, call'[c], rows', phys')
  BY <1>u, <1>1, <1>3, <1>4 DEF CreateFine, SameAim
<1> QED
  BY <1>u, <1>2, <1>3, <1>5, OnlyCreate DEF FineAfter, Fine, SameAim

LEMMA MigrateUpdateFine ==
  ASSUME NEW c \in Calls, Runs(c), MigrateUpdate(c)
  PROVE  FineAfter(c) /\ Sound(c)
<1> DEFINE old == call[c].old
           new == call[c].new
           w   == IF phys[old.name].there THEN DiffWork(old, new) ELSE CreateWork(c)
<1>u. /\ call[c].want.op = "update" /\ call[c].pc = "migrate" /\ phys' = phys /\ rows' = rows
      /\ UpdateFine(dialect, call[c], rows, phys) /\ Plan(c, w)
      /\ call[c].want.related \in BOOLEAN
  BY DEF Runs, MigrateUpdate, Fine, Asked, metaVars
<1>1. WorkFine(w)
  BY <1>u, CreateWorkIs, DiffWorkIs
<1>2. Sound(c)
  <2> HIDE DEF w
  <2> QED
    BY <1>u, <1>1, PlanSound, SameShapes DEF Runs
<1>3. /\ SameAim(call[c], call'[c]) /\ SameTrx(call[c], call'[c]) /\ call'[c].todo = w
      /\ call'[c].pc = IF w = NoWork THEN "commit" ELSE "execute"
  <2> HIDE DEF w
  <2> QED
    BY <1>u, PlanEffect DEF Runs, Shapes
<1>4. ASSUME call[c].agreed, Identified(call[c])
      PROVE  Updating(dialect, call'[c], rows', phys')
  <2>1. /\ rows[call[c].id] = old /\ old.there /\ Agree(old, phys)
        /\ Changed(call[c]) /\ call[c].pending /\ call[c].row = new
    BY <1>u, <1>4 DEF UpdateFine, Updating
  <2>2. phys[old.name].there /\ phys[old.name].cols = NamesOf(old.cols)
    BY <2>1 DEF Agree
  <2>3. /\ w.create = FALSE /\ w.foreign = FALSE /\ w.rename = (old.name # new.name)
        /\ w.drops = NamesOf(old.cols \ new.cols)
        /\ w.adds = NamesOf(new.cols \ old.cols) \ NamesOf(old.cols)
    BY <2>2, DiffWorkIs
  <2>4. (NamesOf(old.cols) \ w.drops) \cup w.adds = NamesOf(new.cols)
    BY <2>1, <2>3, DiffNames DEF Changed
  <2> HIDE DEF w
  <2>5. CASE w = NoWork
    <3>1. old.name = new.name /\ w.drops = {} /\ w.adds = {}
      BY <1>1, <2>3, <2>5, NoWorkIs
    <3>2. phys[new.name] = Full(new.cols)
      BY <2>1, <2>4, <3>1 DEF Agree, Full
    <3> QED
      BY <1>u, <1>3, <2>1, <2>5, <3>2 DEF Updating, Ready, Changed, SameAim, SameTrx
  <2>6. CASE w # NoWork
    <3>1. Halfway(call'[c], phys')
      <4>1. /\ call'[c].todo = w /\ call'[c].old = old /\ call'[c].new = new /\ phys' = phys
        BY <1>u, <1>3 DEF SameAim, SameTrx
      <4>2. CASE old.name # new.name
        <5>1. w.rename /\ Bearer(call'[c]) = old.name
          BY <2>3, <4>1, <4>2 DEF Bearer
        <5> QED
          BY <2>2, <2>3, <2>4, <4>1, <4>2, <5>1 DEF Halfway
      <4>3. CASE old.name = new.name
        <5>1. ~w.rename /\ Bearer(call'[c]) = old.name
          BY <2>3, <4>1, <4>3 DEF Bearer
        <5> QED
          BY <2>2, <2>3, <2>4, <4>1, <4>3, <5>1 DEF Halfway
      <4> QED
        BY <4>2, <4>3
    <3> QED
      BY <1>u, <1>3, <2>1, <2>6, <3>1 DEF Updating, Changed, SameAim, SameTrx
  <2> QED
    BY <2>5, <2>6
<1>5. FineAfter(c)
  <2> HIDE DEF w
  <2> QED
    BY <1>u, <1>4, PlanLoose
<1> QED
  BY <1>2, <1>5

LEMMA MigrateDeleteFine ==
  ASSUME NEW c \in Calls, Runs(c), MigrateDelete(c)
  PROVE  FineAfter(c) /\ Sound(c)
<1> DEFINE n  == call[c].old.name
           id == call[c].id
           there == phys[n].there
<1>u. /\ call[c].want.op = "delete" /\ call[c].pc = "migrate" /\ CallsShaped /\ id \in Ids
      /\ DeleteFine(dialect, call[c], rows, phys) /\ n \in Names
      /\ RowFine(NoRow) /\ NoRow.there = FALSE
  BY DEF Runs, MigrateDelete, Fine, Asked, Shapes, DeleteFine, RowFine, NoRow, Distinct
<1>1. CASE there /\ ~Postgres
  <2>1. /\ rows' = Written(c) /\ phys' = [phys EXCEPT ![n] = Gone]
        /\ call' = [call EXCEPT ![c] = [call[c] EXCEPT !.pc = "commit", !.auto = TRUE,
                                                       !.pending = FALSE, !.row = NoRow]]
    BY <1>1, <1>u DEF MigrateDelete, CallsShaped
  <2>2. /\ OnlyMoves(c) /\ SameAim(call[c], call'[c]) /\ call'[c].id = id
        /\ call'[c].drop = call[c].drop /\ ~call'[c].pending
        /\ call'[c].created = call[c].created /\ call'[c].pc = "commit"
        /\ call'[c].todo = call[c].todo
    BY <1>u, <2>1 DEF CallsShaped, OnlyMoves, SameAim, Idle
  <2>3. ~rows'[id].there /\ RowsShaped'
    BY <1>1, <1>u, <2>1 DEF DeleteFine, Written, Aborted, Runs, Shapes, RowsShaped
  <2>4. ~phys'[n].there /\ TablesShaped'
    BY <1>u, <2>1 DEF Runs, Shapes, TablesShaped, TableFine, Gone
  <2>5. DeleteFine(dialect, call'[c], rows', phys')
    BY <1>1, <1>u, <2>2, <2>3, <2>4 DEF DeleteFine, SameAim, Postgres
  <2>6. Sound(c)
    BY <1>u, <2>2, <2>3, <2>4 DEF Sound, Runs, Asked, SameAim, CallsShaped
  <2> QED
    BY <1>u, <2>2, <2>5, <2>6, OnlyDelete DEF FineAfter, Fine, SameAim
<1>2. CASE ~(there /\ ~Postgres)
  <2>1. /\ rows' = rows /\ phys' = phys
        /\ call' = [call EXCEPT ![c] = [call[c] EXCEPT !.pc = "commit", !.drop = there]]
    BY <1>2, <1>u DEF MigrateDelete, CallsShaped, metaVars
  <2>a. there => phys[n].there
    OBVIOUS
  <2>b. phys[n].there => there
    OBVIOUS
  <2> HIDE DEF there
  <2>2. /\ OnlyMoves(c) /\ SameAim(call[c], call'[c]) /\ call'[c].id = id
        /\ call'[c].drop = there /\ call'[c].auto = call[c].auto
        /\ call'[c].pending = call[c].pending /\ call'[c].row = call[c].row
        /\ call'[c].created = call[c].created /\ call'[c].pc = "commit"
        /\ call'[c].todo = call[c].todo
    BY <1>u, <2>1 DEF CallsShaped, OnlyMoves, SameAim, Idle
  <2>3. DeleteFine(dialect, call'[c], rows', phys')
    BY <1>2, <1>u, <2>1, <2>2, <2>b DEF DeleteFine, SameAim, Postgres
  <2>4. Sound(c)
    BY <1>u, <2>1, <2>2, SameShapes DEF Sound, Runs, Asked, SameAim, CallsShaped, Shapes, PendingShaped
  <2> QED
    BY <1>u, <2>2, <2>3, <2>4, OnlyDelete DEF FineAfter, Fine, SameAim
<1> QED
  BY <1>1, <1>2

\* MySQL: the rows are committed although the statement fails.
LEMMA DropFailsFine ==
  ASSUME NEW c \in Calls, Runs(c), DropFails(c)
  PROVE  FineAfter(c) /\ Sound(c)
<1>1. Fails(c, "error") /\ ~Postgres /\ phys' = phys /\ rows' = Written(c)
  BY DEF DropFails
<1>2. RowsShaped'
  BY <1>1 DEF Written, Runs, Shapes, RowsShaped, PendingShaped
<1> QED
  BY <1>1, <1>2, FailsFine, FailsSound, SameShapes DEF Runs

\* The query for the table is lost, and nothing is promised any more.
LEMMA UnseenFine ==
  ASSUME NEW c \in Calls, Runs(c), Unseen(c)
  PROVE  FineAfter(c) /\ Sound(c)
<1>u. CallsShaped /\ rows' = rows /\ phys' = phys
  BY DEF Runs, Shapes, Unseen, metaVars
<1>1. PICK l \in {"write", "commit"} :
        /\ call' = [call EXCEPT ![c] = [call[c] EXCEPT !.pc = l, !.blind = TRUE]]
        /\ \/ call[c].want.op = "create" /\ l = "write"
           \/ call[c].want.op = "delete" /\ l = "commit" /\ call[c].pc = "migrate"
  BY <1>u DEF Unseen, CallsShaped
<1>2. /\ OnlyMoves(c) /\ SameAim(call[c], call'[c]) /\ SameTrx(call[c], call'[c])
      /\ call'[c].todo = call[c].todo /\ call'[c].created = call[c].created
      /\ call'[c].blind /\ call'[c].pc = l
  BY <1>u, <1>1 DEF CallsShaped, OnlyMoves, SameAim, SameTrx, Idle
<1>3. Sound(c)
  BY <1>u, <1>2, SameShapes DEF Sound, Runs, Asked, SameAim, SameTrx, CallsShaped, Shapes, PendingShaped
<1>4. CASE call[c].want.op = "create"
  BY <1>1, <1>2, <1>3, <1>4, OnlyCreate DEF FineAfter, Fine, CreateFine, SameAim
<1>5. CASE call[c].want.op = "delete"
  <2>1. DeleteFine(dialect, call'[c], rows', phys')
    BY <1>u, <1>1, <1>2, <1>5 DEF Runs, Fine, DeleteFine, SameAim, SameTrx
  <2> QED
    BY <1>2, <1>3, <1>5, <2>1, OnlyDelete DEF FineAfter, Fine, SameAim
<1> QED
  BY <1>1, <1>4, <1>5

-----------------------------------------------------------------------------
(* The statements on the physical tables.                                   *)

\* A creation that goes on as planned.
LEMMA PlanMaking ==
  ASSUME NEW c \in Calls, Runs(c), NEW w, Plan(c, w), call[c].want.op = "create",
         WorkFine(w), ~w.rename /\ w.drops = {} /\ w.adds = {},
         Making(call[c], rows, phys) => Making(call'[c], rows', phys')
  PROVE  FineAfter(c)
<1>1. /\ SameAim(call[c], call'[c]) /\ call'[c].todo = w /\ call'[c].blind = call[c].blind
      /\ call'[c].pc = IF w = NoWork THEN "commit" ELSE "execute"
  BY PlanEffect DEF Runs, Shapes
<1>2. call'[c].pc = "execute" => w.create \/ w.foreign
  BY <1>1, NoWorkIs
<1>3. CreateFine(dialect, call'[c], rows', phys')
  BY <1>1, <1>2 DEF Runs, Fine, CreateFine, SameAim
<1> QED
  BY <1>1, <1>3, OnlyCreate DEF FineAfter, Fine, SameAim

\* An update whose statements are run one after the other goes on.
LEMMA PlanHalfway ==
  ASSUME NEW c \in Calls, Runs(c), NEW w, Plan(c, w), WorkFine(w), rows' = rows, TablesShaped',
         Updating(dialect, call[c], rows, phys), call[c].pc = "execute",
         Halfway(call'[c], phys'), ~Postgres \/ w = NoWork
  PROVE  Updating(dialect, call'[c], rows', phys')
<1>1. /\ SameAim(call[c], call'[c]) /\ SameTrx(call[c], call'[c]) /\ call'[c].todo = w
      /\ call'[c].pc = IF w = NoWork THEN "commit" ELSE "execute"
  BY PlanEffect DEF Runs, Shapes
<1>2. Changed(call[c]) /\ call[c].new.name \in Names
  BY DEF Updating, Changed
<1>3. w = NoWork => Ready(call'[c], phys')
  <2> SUFFICES ASSUME w = NoWork PROVE Ready(call'[c], phys')
    OBVIOUS
  <2> DEFINE t == phys'[call'[c].new.name]
  <2>1. ~w.rename /\ w.drops = {} /\ w.adds = {} /\ Bearer(call'[c]) = call'[c].new.name
    BY <1>1, NoWorkIs DEF Bearer
  <2>2. t.there /\ t.cols = NamesOf(call'[c].new.cols)
    BY <1>1, <2>1 DEF Halfway
  <2>3. TableFine(t)
    BY <1>1, <1>2 DEF TablesShaped, SameTrx
  <2> QED
    BY <2>2, <2>3 DEF TableFine, Ready, Full
<1> QED
  BY <1>1, <1>2, <1>3 DEF Updating, Changed, SameAim, SameTrx, Postgres

\* Other columns, or another name, for a table.
LEMMA ColsShaped ==
  ASSUME TablesShaped, NEW n \in Names, NEW cols, phys' = [phys EXCEPT ![n].cols = cols]
  PROVE  /\ TablesShaped' /\ phys'[n] = [there |-> phys[n].there, cols |-> cols]
         /\ \A m \in Names : m # n => phys'[m] = phys[m]
<1>1. TableFine(phys[n])
  BY DEF TablesShaped
<1>a. [phys[n] EXCEPT !.cols = cols] = [there |-> phys[n].there, cols |-> cols]
  BY <1>1 DEF TableFine
<1>b. phys' = [phys EXCEPT ![n] = [phys[n] EXCEPT !.cols = cols]]
  BY DEF TablesShaped
<1>2. phys' = [phys EXCEPT ![n] = [there |-> phys[n].there, cols |-> cols]]
  BY <1>a, <1>b
<1>3. TableFine([there |-> phys[n].there, cols |-> cols])
  BY <1>1 DEF TableFine
<1> QED
  BY <1>2, <1>3 DEF TablesShaped

LEMMA RenamedShaped ==
  ASSUME TablesShaped, NEW c \in Calls, call[c].old.name \in Names, phys' = Renamed(c)
  PROVE  /\ TablesShaped' /\ phys'[call[c].old.name] = Gone
         /\ call[c].new.name \in Names /\ call[c].new.name # call[c].old.name =>
              phys'[call[c].new.name] = phys[call[c].old.name]
<1>1. TableFine(phys[call[c].old.name]) /\ TableFine(Gone)
  BY DEF TablesShaped, TableFine, Gone
<1> QED
  BY <1>1 DEF Renamed, TablesShaped

\* The work list v differs from w in one part only: what it has done.
Besides(f, v, w) == \A g \in {"create", "foreign", "rename", "drops", "adds"} \ {f} : v[g] = w[g]

LEMMA WorkLeft ==
  ASSUME NEW w, WorkFine(w), NEW x
  PROVE  /\ LET v == [w EXCEPT !.create = x]
            IN  x \in BOOLEAN => WorkFine(v) /\ v.create = x /\ Besides("create", v, w)
         /\ LET v == [w EXCEPT !.rename = x]
            IN  x \in BOOLEAN => WorkFine(v) /\ v.rename = x /\ Besides("rename", v, w)
         /\ LET v == [w EXCEPT !.drops = x]
            IN  WorkFine(v) /\ v.drops = x /\ Besides("drops", v, w)
         /\ LET v == [w EXCEPT !.adds = x]
            IN  WorkFine(v) /\ v.adds = x /\ Besides("adds", v, w)
<1>1. PICK a, b, r, d, e :
        /\ w = [create |-> a, foreign |-> b, rename |-> r, drops |-> d, adds |-> e]
        /\ a \in BOOLEAN /\ b \in BOOLEAN /\ r \in BOOLEAN
  BY DEF WorkFine
<1>2. LET v == [w EXCEPT !.create = x]
      IN  x \in BOOLEAN => WorkFine(v) /\ v.create = x /\ Besides("create", v, w)
  <2>1. [w EXCEPT !.create = x] =
          [create |-> x, foreign |-> b, rename |-> r, drops |-> d, adds |-> e]
    BY <1>1
  <2> QED
    BY <1>1, <2>1 DEF WorkFine, Besides
<1>3. LET v == [w EXCEPT !.rename = x]
      IN  x \in BOOLEAN => WorkFine(v) /\ v.rename = x /\ Besides("rename", v, w)
  <2>1. [w EXCEPT !.rename = x] =
          [create |-> a, foreign |-> b, rename |-> x, drops |-> d, adds |-> e]
    BY <1>1
  <2> QED
    BY <1>1, <2>1 DEF WorkFine, Besides
<1>4. LET v == [w EXCEPT !.drops = x]
      IN  WorkFine(v) /\ v.drops = x /\ Besides("drops", v, w)
  <2>1. [w EXCEPT !.drops = x] =
          [create |-> a, foreign |-> b, rename |-> r, drops |-> x, adds |-> e]
    BY <1>1
  <2> QED
    BY <1>1, <2>1 DEF WorkFine, Besides
<1>5. LET v == [w EXCEPT !.adds = x]
      IN  WorkFine(v) /\ v.adds = x /\ Besides("adds", v, w)
  <2>1. [w EXCEPT !.adds = x] =
          [create |-> a, foreign |-> b, rename |-> r, drops |-> d, adds |-> x]
    BY <1>1
  <2> QED
    BY <1>1, <2>1 DEF WorkFine, Besides
<1> QED
  BY <1>2, <1>3, <1>4, <1>5

LEMMA ExecuteCreateFine ==
  ASSUME NEW c \in Calls, Runs(c), ExecuteCreate(c)
  PROVE  FineAfter(c) /\ Sound(c)
<1> DEFINE n == NewName(c)
           w == call[c].todo
           no == FALSE
           v == [w EXCEPT !.create = no]
<1>u. /\ call[c].pc = "execute" /\ rows' = rows /\ WorkFine(w) /\ Shapes
      /\ CreateFine(dialect, call[c], rows, phys) /\ UpdateFine(dialect, call[c], rows, phys)
      /\ call[c].want.op \in {"create", "update"}
      /\ call[c].want.op = "create" => n = call[c].want.name /\ n \in Names
  BY DEF Runs, ExecuteCreate, Fine, Asked, Shapes, CallsShaped, DeleteFine, NewName
<1>1. CASE Fails(c, "error") /\ phys' = phys
  BY <1>1, <1>u, FailsFine, FailsSound, SameShapes
<1>2. CASE /\ w.create /\ Plan(c, v)
           /\ phys' = [phys EXCEPT ![n] = [there |-> TRUE, cols |-> NamesOf(call[c].new.cols)]]
  <2>a. no \in BOOLEAN /\ ~no
    OBVIOUS
  <2> HIDE DEF no
  <2>b. WorkFine(v) /\ v.create = no /\ Besides("create", v, w)
    BY <1>u, <2>a, WorkLeft
  <2> HIDE DEF v
  <2>1. /\ WorkFine(v) /\ ~v.create /\ v.foreign = w.foreign /\ v.rename = w.rename
        /\ v.drops = w.drops /\ v.adds = w.adds
    BY <2>a, <2>b DEF Besides
  <2>2. TablesShaped' /\ (n \in Names => phys'[n] = Full(call[c].new.cols))
    BY <1>u, <1>2 DEF Shapes, TablesShaped, TableFine, Full
  <2>3. Sound(c)
    BY <1>u, <1>2, <2>1, <2>2, PlanSound
  <2>4. CASE call[c].want.op = "create"
    <3>1. /\ SameAim(call[c], call'[c]) /\ SameTrx(call[c], call'[c])
          /\ call'[c].pc \in {"commit", "execute"}
      BY <1>u, <1>2, PlanEffect DEF Shapes
    <3>2. ASSUME Making(call[c], rows, phys) PROVE Making(call'[c], rows', phys')
      <4>1. /\ ~call[c].drop /\ call[c].id \in Ids /\ call[c].new.there
            /\ call[c].new.name = call[c].want.name /\ Kept(call[c], rows)
        BY <1>u, <3>2 DEF Making
      <4>2. Ready(call'[c], phys')
        BY <1>u, <2>2, <2>4, <3>1, <4>1 DEF Ready, SameTrx
      <4> QED
        BY <1>u, <3>1, <4>1, <4>2 DEF Making, Kept, SameAim, SameTrx
    <3>3. ~v.rename /\ v.drops = {} /\ v.adds = {}
      BY <1>u, <2>1, <2>4 DEF CreateFine
    <3> QED
      BY <1>2, <2>1, <2>3, <2>4, <3>2, <3>3, PlanMaking
  <2>5. CASE call[c].want.op = "update"
    <3>1. ~(call[c].agreed /\ Identified(call[c]))
      BY <1>u, <1>2, <2>5 DEF UpdateFine, Updating, Halfway
    <3> QED
      BY <1>u, <1>2, <2>3, <2>5, <3>1, PlanLoose
  <2> QED
    BY <1>u, <2>4, <2>5
<1>3. CASE w.foreign /\ ~w.create /\ Plan(c, NoWork) /\ phys' = phys
  <2>1. Sound(c)
    BY <1>u, <1>3, PlanSound, SameShapes, NoWorkIs
  <2>2. CASE call[c].want.op = "create"
    <3>1. /\ SameAim(call[c], call'[c]) /\ SameTrx(call[c], call'[c])
          /\ call'[c].pc = "commit"
      BY <1>u, <1>3, PlanEffect DEF Shapes
    <3>2. ASSUME Making(call[c], rows, phys) PROVE Making(call'[c], rows', phys')
      BY <1>u, <1>3, <3>1, <3>2 DEF Making, Kept, Ready, SameAim, SameTrx
    <3> QED
      BY <1>3, <2>1, <2>2, <3>2, NoWorkIs, PlanMaking
  <2>3. CASE call[c].want.op = "update"
    <3>1. ~(call[c].agreed /\ Identified(call[c]))
      BY <1>u, <1>3, <2>3 DEF UpdateFine, Updating, Halfway
    <3> QED
      BY <1>u, <1>3, <2>1, <2>3, <3>1, PlanLoose
  <2> QED
    BY <1>u, <2>2, <2>3
<1> QED
  BY <1>1, <1>2, <1>3 DEF ExecuteCreate

\* What an update that started in agreement runs its statements on.
LEMMA DiffingUpdate ==
  ASSUME NEW c \in Calls, Runs(c), Diffing(c)
  PROVE  /\ call[c].want.op = "update" /\ call[c].pc = "execute" /\ call[c].old.name \in Names
         /\ call[c].agreed /\ Identified(call[c]) =>
              /\ Updating(dialect, call[c], rows, phys) /\ Halfway(call[c], phys)
              /\ call[c].new.name \in Names
              /\ ~call[c].todo.rename /\ call[c].old.name # call[c].new.name =>
                   ~phys[call[c].old.name].there /\ phys[call[c].old.name].cols = {}
<1>1. call[c].want.op = "update" /\ call[c].pc = "execute"
  BY DEF Runs, Asked, Diffing, Fine, CreateFine, DeleteFine
<1>2. UpdateFine(dialect, call[c], rows, phys)
  BY DEF Runs, Fine
<1>3. call[c].old.name \in Names
  BY <1>1, <1>2 DEF UpdateFine
<1>4. ASSUME call[c].agreed, Identified(call[c])
      PROVE  /\ Updating(dialect, call[c], rows, phys) /\ Halfway(call[c], phys)
             /\ call[c].new.name \in Names
  BY <1>1, <1>2, <1>4 DEF UpdateFine, Updating, Changed
<1> QED
  BY <1>1, <1>3, <1>4 DEF Halfway, Gone

\* PostgreSQL: all statements, or none.
LEMMA ExecuteBatchFine ==
  ASSUME NEW c \in Calls, Runs(c), ExecuteBatch(c)
  PROVE  FineAfter(c) /\ Sound(c)
<1> DEFINE old  == call[c].old
           new  == call[c].new
           w    == call[c].todo
           cols == (phys[old.name].cols \ w.drops) \cup w.adds
<1>u. /\ Diffing(c) /\ rows' = rows /\ Shapes /\ WorkFine(w)
      /\ call[c].want.op = "update" /\ call[c].pc = "execute" /\ old.name \in Names
  BY DiffingUpdate DEF ExecuteBatch, Runs, Shapes, CallsShaped
<1>1. CASE Fails(c, "error") /\ phys' = phys
  BY <1>1, <1>u, FailsFine, FailsSound, SameShapes
<1>2. CASE ~(Fails(c, "error") /\ phys' = phys)
  <2>1. /\ phys[old.name].there /\ Plan(c, NoWork)
        /\ w.rename => w.drops = {} /\ w.adds = {}
        /\ phys' = IF w.rename THEN Renamed(c) ELSE [phys EXCEPT ![old.name].cols = cols]
    BY <1>2 DEF ExecuteBatch
  <2>2. /\ SameAim(call[c], call'[c]) /\ SameTrx(call[c], call'[c]) /\ call'[c].todo = NoWork
    BY <1>u, <2>1, PlanEffect DEF Shapes
  <2>3. /\ ~call'[c].todo.create /\ ~call'[c].todo.foreign /\ ~call'[c].todo.rename
        /\ call'[c].todo.drops = {} /\ call'[c].todo.adds = {}
        /\ Bearer(call'[c]) = new.name /\ call'[c].old = old /\ call'[c].new = new
    BY <2>2 DEF NoWork, Bearer, SameAim, SameTrx
  <2>4. CASE w.rename
    <3>1. /\ TablesShaped' /\ phys'[old.name] = Gone
          /\ new.name \in Names /\ new.name # old.name => phys'[new.name] = phys[old.name]
      BY <1>u, <2>1, <2>4, RenamedShaped DEF Shapes
    <3>2. ASSUME call[c].agreed, Identified(call[c])
          PROVE  Updating(dialect, call[c], rows, phys) /\ Halfway(call'[c], phys')
      <4>1. /\ Updating(dialect, call[c], rows, phys) /\ Halfway(call[c], phys) /\ new.name \in Names
        BY <1>u, <3>2, DiffingUpdate
      <4>2. /\ old.name # new.name /\ phys'[new.name] = phys[old.name]
            /\ (phys[old.name].cols \ w.drops) \cup w.adds = NamesOf(new.cols)
        BY <2>4, <3>1, <4>1 DEF Halfway, Bearer
      <4> QED
        BY <2>1, <2>3, <2>4, <3>1, <4>1, <4>2 DEF Halfway
    <3> QED
      BY <1>u, <2>1, <3>1, <3>2, NoWorkIs, PlanHalfway, PlanLoose, PlanSound
  <2>5. CASE ~w.rename
    <3> HIDE DEF cols
    <3>1. TablesShaped' /\ phys'[old.name] = [there |-> phys[old.name].there, cols |-> cols]
      BY <1>u, <2>1, <2>5, ColsShaped DEF Shapes
    <3>2. ASSUME call[c].agreed, Identified(call[c])
          PROVE  Updating(dialect, call[c], rows, phys) /\ Halfway(call'[c], phys')
      <4>1. /\ Updating(dialect, call[c], rows, phys) /\ Halfway(call[c], phys)
            /\ old.name = new.name
        BY <1>u, <2>1, <2>5, <3>2, DiffingUpdate
      <4>2. cols = NamesOf(new.cols)
        BY <2>5, <4>1 DEF Halfway, Bearer, cols
      <4> QED
        BY <2>1, <2>3, <3>1, <4>1, <4>2 DEF Halfway
    <3> QED
      BY <1>u, <2>1, <3>1, <3>2, NoWorkIs, PlanHalfway, PlanLoose, PlanSound
  <2> QED
    BY <2>4, <2>5
<1> QED
  BY <1>1, <1>2

\* MySQL: one statement.
LEMMA ExecuteOneFine ==
  ASSUME NEW c \in Calls, Runs(c), ExecuteOne(c)
  PROVE  FineAfter(c) /\ Sound(c)
<1> DEFINE old == call[c].old
           new == call[c].new
           w   == call[c].todo
<1>u. /\ Diffing(c) /\ rows' = rows /\ Shapes /\ WorkFine(w) /\ ~Postgres
      /\ call[c].want.op = "update" /\ call[c].pc = "execute" /\ old.name \in Names
      /\ ~w.create /\ ~w.foreign
  BY DiffingUpdate DEF ExecuteOne, Diffing, Runs, Shapes, CallsShaped
<1>1. CASE Fails(c, "error") /\ phys' = phys
  BY <1>1, <1>u, FailsFine, FailsSound, SameShapes
<1>2. ASSUME NEW v, WorkFine(v), Plan(c, v), TablesShaped',
             call[c].agreed /\ Identified(call[c]) => 
               (call'[c].todo = v /\ call'[c].old = old /\ call'[c].new = new =>
                  Halfway(call'[c], phys'))
      PROVE  FineAfter(c) /\ Sound(c)
  <2>1. /\ SameAim(call[c], call'[c]) /\ SameTrx(call[c], call'[c]) /\ call'[c].todo = v
    BY <1>u, <1>2, PlanEffect DEF Shapes
  <2>2. ASSUME call[c].agreed, Identified(call[c])
        PROVE  Updating(dialect, call[c], rows, phys) /\ Halfway(call'[c], phys')
    BY <1>u, <1>2, <2>1, <2>2, DiffingUpdate DEF SameAim, SameTrx
  <2> QED
    BY <1>u, <1>2, <2>2, PlanHalfway, PlanLoose, PlanSound
<1>3. CASE w.rename /\ CanRename(c) /\ phys' = Renamed(c) /\ Plan(c, [w EXCEPT !.rename = FALSE])
  <2> DEFINE no == FALSE
             v  == [w EXCEPT !.rename = no]
  <2>1. Plan(c, v) /\ no \in BOOLEAN /\ ~no
    BY <1>3
  <2> HIDE DEF no
  <2>2. WorkFine(v) /\ v.rename = no /\ Besides("rename", v, w)
    BY <1>u, <2>1, WorkLeft
  <2> HIDE DEF v
  <2>3. /\ ~v.rename /\ ~v.create /\ ~v.foreign /\ v.drops = w.drops /\ v.adds = w.adds
    BY <1>u, <2>1, <2>2 DEF Besides
  <2>4. /\ TablesShaped' /\ phys'[old.name] = Gone
        /\ new.name \in Names /\ new.name # old.name => phys'[new.name] = phys[old.name]
    BY <1>3, <1>u, RenamedShaped DEF Shapes
  <2>5. ASSUME call[c].agreed, Identified(call[c]),
               call'[c].todo = v, call'[c].old = old, call'[c].new = new
        PROVE  Halfway(call'[c], phys')
    <3>1. Halfway(call[c], phys) /\ new.name \in Names
      BY <1>u, <2>5, DiffingUpdate
    <3>2. Bearer(call[c]) = old.name /\ Bearer(call'[c]) = new.name /\ phys'[new.name] = phys[old.name]
      BY <1>3, <2>3, <2>4, <2>5, <3>1 DEF Bearer, Halfway
    <3> QED
      BY <1>3, <2>3, <2>4, <2>5, <3>1, <3>2 DEF Halfway
  <2> QED
    BY <1>2, <2>1, <2>2, <2>4, <2>5
<1>4. ASSUME NEW k \in w.drops, ~w.rename, k \in phys[old.name].cols,
             phys' = [phys EXCEPT ![old.name].cols = @ \ {k}], Plan(c, [w EXCEPT !.drops = @ \ {k}])
      PROVE  FineAfter(c) /\ Sound(c)
  <2> DEFINE cols == phys[old.name].cols \ {k}
             x == w.drops \ {k}
             v == [w EXCEPT !.drops = x]
  <2>1. Plan(c, v) /\ phys' = [phys EXCEPT ![old.name].cols = cols]
    BY <1>4
  <2> HIDE DEF x, cols
  <2>2. WorkFine(v) /\ v.drops = x /\ Besides("drops", v, w)
    BY <1>u, WorkLeft
  <2> HIDE DEF v
  <2>3. /\ ~v.rename /\ ~v.create /\ ~v.foreign /\ v.drops = w.drops \ {k} /\ v.adds = w.adds
    BY <1>u, <1>4, <2>2 DEF Besides, x
  <2>4. /\ TablesShaped' /\ phys'[old.name] = [there |-> phys[old.name].there, cols |-> cols]
    BY <1>u, <2>1, ColsShaped DEF Shapes
  <2>5. ASSUME call[c].agreed, Identified(call[c]),
               call'[c].todo = v, call'[c].old = old, call'[c].new = new
        PROVE  Halfway(call'[c], phys')
    <3>1. Halfway(call[c], phys) /\ new.name = old.name
      BY <1>4, <1>u, <2>5, DiffingUpdate
    <3>2. Bearer(call[c]) = old.name /\ Bearer(call'[c]) = old.name
      BY <1>4, <2>3, <2>5, <3>1 DEF Bearer
    <3>3. (cols \ v.drops) \cup v.adds = (phys[old.name].cols \ w.drops) \cup w.adds
      BY <1>4, <2>3 DEF cols
    <3> QED
      BY <1>4, <2>3, <2>4, <2>5, <3>1, <3>2, <3>3 DEF Halfway
  <2> QED
    BY <1>2, <2>1, <2>2, <2>4, <2>5
<1>5. ASSUME NEW k \in w.adds, ~w.rename, w.drops = {}, phys[old.name].there, k \notin phys[old.name].cols,
             phys' = [phys EXCEPT ![old.name].cols = @ \cup {k}], Plan(c, [w EXCEPT !.adds = @ \ {k}])
      PROVE  FineAfter(c) /\ Sound(c)
  <2> DEFINE cols == phys[old.name].cols \cup {k}
             x == w.adds \ {k}
             v == [w EXCEPT !.adds = x]
  <2>1. Plan(c, v) /\ phys' = [phys EXCEPT ![old.name].cols = cols]
    BY <1>5
  <2> HIDE DEF x, cols
  <2>2. WorkFine(v) /\ v.adds = x /\ Besides("adds", v, w)
    BY <1>u, WorkLeft
  <2> HIDE DEF v
  <2>3. /\ ~v.rename /\ ~v.create /\ ~v.foreign /\ v.drops = {} /\ v.adds = w.adds \ {k}
    BY <1>u, <1>5, <2>2 DEF Besides, x
  <2>4. /\ TablesShaped' /\ phys'[old.name] = [there |-> phys[old.name].there, cols |-> cols]
    BY <1>u, <2>1, ColsShaped DEF Shapes
  <2>5. ASSUME call[c].agreed, Identified(call[c]),
               call'[c].todo = v, call'[c].old = old, call'[c].new = new
        PROVE  Halfway(call'[c], phys')
    <3>1. Halfway(call[c], phys) /\ new.name = old.name
      BY <1>5, <1>u, <2>5, DiffingUpdate
    <3>2. Bearer(call[c]) = old.name /\ Bearer(call'[c]) = old.name
      BY <1>5, <2>3, <2>5, <3>1 DEF Bearer
    <3>3. (cols \ v.drops) \cup v.adds = (phys[old.name].cols \ w.drops) \cup w.adds
      BY <1>5, <2>3 DEF cols
    <3> QED
      BY <1>5, <2>3, <2>4, <2>5, <3>1, <3>2, <3>3 DEF Halfway
  <2> QED
    BY <1>2, <2>1, <2>2, <2>4, <2>5
<1> QED
  BY <1>1, <1>3, <1>4, <1>5 DEF ExecuteOne

-----------------------------------------------------------------------------
(* The commit, what follows it, and the steps that touch no table.          *)

\* A step that leaves the request, its row and what is left to do as they are.
LEMMA KeepsSound ==
  ASSUME NEW c \in Calls, Runs(c), OnlyMoves(c), call'[c].todo = call[c].todo,
         call'[c].pending = call[c].pending, call'[c].row = call[c].row,
         call'[c].id = call[c].id, call'[c].want = call[c].want,
         call'[c].pc # "acquire", RowsShaped', TablesShaped'
  PROVE  Sound(c)
<1>1. Asked(call'[c])
  BY DEF Runs, Asked
<1> QED
  BY <1>1 DEF Sound, Runs, Shapes, CallsShaped, PendingShaped

\* What a commit writes has its shape.
LEMMA CommittedShaped ==
  ASSUME NEW c \in Calls, Runs(c), Committed(c)
  PROVE  RowsShaped' /\ TablesShaped'
<1>1. RowsShaped'
  BY DEF Committed, Written, Runs, Shapes, RowsShaped, PendingShaped
<1>2. TablesShaped'
  BY DEF Committed, Runs, Shapes, TablesShaped, TableFine, Gone
<1> QED
  BY <1>1, <1>2

LEMMA DroppedShaped ==
  ASSUME TablesShaped, NEW n, phys' = [phys EXCEPT ![n] = Gone] \/ phys' = phys
  PROVE  TablesShaped'
<1>1. TableFine(Gone)
  BY DEF TableFine, Gone
<1> QED
  BY <1>1 DEF TablesShaped

LEMMA CommitFine ==
  ASSUME NEW c \in Calls, Runs(c), Commit(c)
  PROVE  FineAfter(c) /\ Sound(c)
<1> DEFINE l  == IF call[c].want.single THEN "single" ELSE "release"
           a  == IF call[c].want.single THEN "none" ELSE "ok"
           id == call[c].id
<1>u. /\ call[c].pc = "commit" /\ CallsShaped /\ Committed(c)
      /\ rows' = Written(c)
      /\ phys' = IF call[c].drop THEN [phys EXCEPT ![Target(c)] = Gone] ELSE phys
      /\ CreateFine(dialect, call[c], rows, phys)
      /\ UpdateFine(dialect, call[c], rows, phys)
      /\ DeleteFine(dialect, call[c], rows, phys)
  BY DEF Runs, Commit, Committed, Shapes, Fine
<1>v. CallsShaped
  BY <1>u
<1>1. call' = [call EXCEPT ![c] = [Ended(call[c]) EXCEPT !.pc = l, !.result = a]]
  BY <1>v DEF Commit, CallsShaped
<1>2. /\ l \in {"single", "release"}
      /\ a \in {"none", "ok"} /\ (a = "ok" => l = "release")
      /\ call[c].want.op = "delete" => l = "release" /\ a = "ok"
  BY DEF Runs, Asked
<1> HIDE DEF l, a
<1>3. /\ OnlyMoves(c) /\ SameAim(call[c], call'[c])
      /\ call'[c].id = id /\ call'[c].new = call[c].new
      /\ ~call'[c].auto /\ ~call'[c].drop /\ ~call'[c].pending
      /\ call'[c].todo = NoWork /\ call'[c].created = call[c].created
      /\ call'[c].blind = call[c].blind /\ call'[c].result = a /\ call'[c].pc = l
  <2> HIDE DEF id
  <2>1. /\ OnlyMoves(c) /\ SameAim(call[c], call'[c])
        /\ call'[c].id = call[c].id /\ call'[c].new = call[c].new
        /\ ~call'[c].auto /\ ~call'[c].drop /\ ~call'[c].pending /\ call'[c].row = NoRow
        /\ call'[c].todo = NoWork /\ call'[c].created = call[c].created
        /\ call'[c].blind = call[c].blind /\ call'[c].result = a /\ call'[c].pc = l
    BY <1>1, <1>v, EndedEffect
  <2> QED
    BY <2>1 DEF id
<1>4. Sound(c)
  <2>1. Asked(call'[c]) /\ l # "acquire"
    BY <1>2, <1>3 DEF Runs, Asked, SameAim
  <2> QED
    BY <1>u, <1>3, <2>1, CommittedShaped, NoWorkIs DEF Sound
<1>5. CASE call[c].want.op = "create"
  <2>1. ASSUME ~call[c].blind, Making(call[c], rows, phys) PROVE Making(call'[c], rows', phys')
    <3>1. /\ phys' = phys /\ id \in Ids /\ call[c].new.there /\ call[c].new.name = call[c].want.name
          /\ Kept(call[c], rows) /\ Ready(call[c], phys)
      BY <1>u, <2>1 DEF Making
    <3>2. rows'[id] = call[c].new
      BY <1>u, <2>1, <3>1 DEF Kept, Written, Aborted, Runs, Shapes, RowsShaped
    <3>3. Agree(rows'[id], phys')
      BY <3>1, <3>2 DEF Agree, Ready, Full
    <3> QED
      BY <1>2, <1>3, <3>1, <3>3 DEF Making, SameAim
  <2>2. CreateFine(dialect, call'[c], rows', phys')
    BY <1>2, <1>3, <1>5, <1>u, <2>1 DEF CreateFine, SameAim
  <2> QED
    BY <1>3, <1>4, <1>5, <2>2, OnlyCreate DEF FineAfter, Fine, SameAim
<1>6. CASE call[c].want.op = "update"
  <2>1. ASSUME call[c].agreed, Identified(call[c])
        PROVE  Updating(dialect, call'[c], rows', phys')
    <3>1. /\ phys' = phys /\ ~call[c].blind /\ call[c].pending /\ call[c].row = call[c].new
          /\ Changed(call[c]) /\ Ready(call[c], phys) /\ id \in Ids
      BY <1>u, <1>6, <2>1 DEF UpdateFine, Updating, Runs, Asked
    <3>2. rows'[id] = call[c].new
      BY <1>u, <3>1 DEF Written, Aborted, Runs, Shapes, RowsShaped
    <3>3. Agree(rows'[id], phys')
      BY <3>1, <3>2 DEF Agree, Ready, Full, Changed
    <3> QED
      BY <1>2, <1>3, <3>3 DEF Updating
  <2>2. UpdateFine(dialect, call'[c], rows', phys')
    BY <1>2, <1>3, <1>6, <1>u, <2>1 DEF UpdateFine, SameAim, Identified
  <2> QED
    BY <1>3, <1>4, <1>6, <2>2, OnlyUpdate DEF FineAfter, Fine, SameAim
<1>7. CASE call[c].want.op = "delete"
  <2>1. ASSUME ~call[c].blind
        PROVE  ~rows'[id].there /\ ~phys'[call[c].old.name].there
    <3>1. /\ (call[c].pending => call[c].row = NoRow) /\ (~call[c].pending => ~rows[id].there)
          /\ ~phys[call[c].old.name].there \/ call[c].drop
          /\ call[c].old.name \in Names /\ id \in Ids /\ Target(c) = call[c].old.name
      BY <1>u, <1>7, <2>1 DEF DeleteFine, Target, Runs, Asked
    <3>2. ~rows'[id].there
      BY <1>u, <2>1, <3>1 DEF Written, Aborted, NoRow, Runs, Shapes, RowsShaped
    <3>3. ~phys'[call[c].old.name].there
      BY <1>u, <3>1 DEF Gone, Runs, Shapes, TablesShaped
    <3> QED
      BY <3>2, <3>3
  <2>2. DeleteFine(dialect, call'[c], rows', phys')
    BY <1>2, <1>3, <1>7, <1>u, <2>1 DEF DeleteFine, SameAim
  <2> QED
    BY <1>3, <1>4, <1>7, <2>2, OnlyDelete DEF FineAfter, Fine, SameAim
<1> QED
  BY <1>5, <1>6, <1>7 DEF Runs, Asked

\* The answer of COMMIT is lost, with or without its effect.
LEMMA CommitFailsFine ==
  ASSUME NEW c \in Calls, Runs(c), CommitFails(c)
  PROVE  FineAfter(c) /\ Sound(c)
<1>1. Fails(c, "unsure") /\ (Committed(c) \/ (rows' = rows /\ phys' = phys))
  BY DEF CommitFails, metaVars
<1>2. RowsShaped' /\ TablesShaped'
  BY <1>1, CommittedShaped, SameShapes DEF Runs
<1> QED
  BY <1>1, <1>2, FailsFine, FailsSound

\* The errors before the commit.
LEMMA ErrorFine ==
  ASSUME NEW c \in Calls, Runs(c), Fails(c, "error"), rows' = rows, phys' = phys,
         call[c].pc \in {"begin", "look", "check", "write", "migrate", "execute", "single"}
  PROVE  FineAfter(c) /\ Sound(c)
  BY FailsFine, FailsSound, SameShapes DEF Runs

LEMMA SingleFine ==
  ASSUME NEW c \in Calls, Runs(c), SingleCreate(c) \/ SingleUpdate(c)
  PROVE  FineAfter(c) /\ Sound(c)
<1>u. /\ call[c].pc = "single" /\ rows' = rows /\ phys' = phys
      /\ call[c].want.op \in {"create", "update"} /\ RowsShaped' /\ TablesShaped'
      /\ CreateFine(dialect, call[c], rows, phys) /\ UpdateFine(dialect, call[c], rows, phys)
  BY SameShapes DEF SingleCreate, SingleUpdate, metaVars, Runs, Fine
<1>1. CASE Fails(c, "error")
  BY <1>1, <1>u, ErrorFine
<1>2. ASSUME NEW a, Answer(c, a) PROVE FineAfter(c) /\ Sound(c)
  <2>1. /\ OnlyMoves(c) /\ SameAim(call[c], call'[c]) /\ SameTrx(call[c], call'[c])
        /\ call'[c].todo = call[c].todo /\ call'[c].created = call[c].created
        /\ call'[c].blind = call[c].blind /\ call'[c].pc = "release"
    BY <1>2, AnswerEffect DEF Runs, Shapes
  <2>2. Sound(c)
    BY <1>u, <2>1, KeepsSound DEF SameAim, SameTrx
  <2>3. CreateFine(dialect, call'[c], rows', phys')
    BY <1>u, <2>1 DEF CreateFine, Making, SameAim, SameTrx
  <2>4. UpdateFine(dialect, call'[c], rows', phys')
    BY <1>u, <2>1 DEF UpdateFine, Updating, SameAim, SameTrx, Identified
  <2>5. DeleteFine(dialect, call'[c], rows', phys')
    BY <1>u, <2>1 DEF DeleteFine, SameAim
  <2> QED
    BY <2>2, <2>3, <2>4, <2>5 DEF FineAfter, Fine
<1>3. Fails(c, "error") \/ \E a : Answer(c, a)
  BY DEF SingleCreate, SingleUpdate
<1> QED
  BY <1>1, <1>2, <1>3

\* A creation that failed drops its table again, or not.
LEMMA CompensateFine ==
  ASSUME NEW c \in Calls, Runs(c), Compensate(c) \/ Uncompensated(c)
  PROVE  FineAfter(c) /\ Sound(c)
<1>u. /\ call[c].pc = "compensate" /\ rows' = rows /\ Goto(c, "release")
      /\ call[c].want.op = "create" /\ CreateFine(dialect, call[c], rows, phys)
  BY DEF Compensate, Uncompensated, metaVars, Runs, Fine, Asked, UpdateFine, DeleteFine
<1>1. TablesShaped'
  <2>1. phys' = [phys EXCEPT ![call[c].want.name] = Gone] \/ phys' = phys
    BY DEF Compensate, Uncompensated, metaVars
  <2> QED
    BY <2>1, DroppedShaped DEF Runs, Shapes
<1>2. /\ OnlyMoves(c) /\ SameAim(call[c], call'[c]) /\ SameTrx(call[c], call'[c])
      /\ call'[c].todo = call[c].todo /\ call'[c].created = call[c].created
      /\ call'[c].blind = call[c].blind /\ call'[c].result = call[c].result
      /\ call'[c].pc = "release"
  BY <1>u, GotoEffect DEF Runs, Shapes
<1>3. Sound(c)
  BY <1>u, <1>1, <1>2, KeepsSound, SameShapes DEF SameAim, SameTrx, Runs
<1>4. CreateFine(dialect, call'[c], rows', phys')
  BY <1>u, <1>2 DEF CreateFine, Making, SameAim, SameTrx
<1> QED
  BY <1>u, <1>2, <1>3, <1>4, OnlyCreate DEF FineAfter, Fine, SameAim

\* Every step between the grant and the release.
Works(c) ==
  \/ Begin(c) \/ Look(c) \/ Duplicate(c) \/ NoMismatch(c) \/ Mismatch(c) \/ Read(c)
  \/ WriteCreate(c) \/ WriteUpdate(c) \/ WriteDelete(c)
  \/ MigrateCreate(c) \/ MigrateUpdate(c) \/ MigrateDelete(c)
  \/ ExecuteCreate(c) \/ ExecuteBatch(c) \/ ExecuteOne(c)
  \/ Commit(c) \/ SingleCreate(c) \/ SingleUpdate(c)
  \/ Compensate(c) \/ Uncompensated(c) \/ Starve(c)
  \/ QueryFails(c) \/ Unseen(c) \/ WriteTorn(c) \/ DropFails(c) \/ CommitFails(c)

LEMMA WorkKeeps ==
  ASSUME NEW c \in Calls, Runs(c), Works(c)
  PROVE  FineAfter(c) /\ Sound(c)
<1>1. CASE Begin(c) \/ Look(c)
  <2>1. /\ rows' = rows /\ phys' = phys
    BY <1>1 DEF Begin, Look, metaVars
  <2>2. call'[c].pc # "acquire"
    BY <1>1, BeginFine DEF Begin, Look, Runs, Shapes, CallsShaped, Idle
  <2> QED
    BY <1>1, <2>1, <2>2, BeginFine, KeepsSound, SameShapes DEF Runs
<1>2. CASE NoMismatch(c) \/ Mismatch(c)
  <2>0. rows' = rows /\ (phys' = [phys EXCEPT ![call[c].want.name] = Gone] \/ phys' = phys)
    BY <1>2 DEF NoMismatch, Mismatch, metaVars
  <2>1. rows' = rows /\ TablesShaped'
    BY <2>0, DroppedShaped DEF Runs, Shapes
  <2>2. call'[c].pc # "acquire"
    BY <1>2 DEF NoMismatch, Mismatch, Goto, Runs, Shapes, CallsShaped, Idle
  <2> QED
    BY <1>2, <2>1, <2>2, CheckFine, KeepsSound, SameShapes DEF Runs
<1>3. CASE Read(c) /\ rows[call[c].id].there
  <2>1. rows' = rows /\ phys' = phys
    BY <1>3 DEF Read, metaVars
  <2>2. call'[c].pc # "acquire"
    BY <1>3 DEF Read, Runs, Shapes, CallsShaped, Idle
  <2> QED
    BY <1>3, <2>1, <2>2, ReadFine, KeepsSound, SameShapes DEF Runs
<1>4. CASE Duplicate(c) \/ (Read(c) /\ ~rows[call[c].id].there) \/ Starve(c) \/ QueryFails(c)
  <2>1. /\ Fails(c, "error") /\ rows' = rows /\ phys' = phys
        /\ call[c].pc \in {"begin", "look", "check", "write", "migrate", "execute", "single"}
    BY <1>4 DEF Duplicate, Read, Starve, QueryFails, metaVars
  <2> QED
    BY <2>1, ErrorFine
<1>5. CASE WriteCreate(c) \/ WriteUpdate(c) \/ WriteDelete(c) \/ WriteTorn(c)
  BY <1>5, WriteCreateFine, WriteUpdateFine, WriteDeleteFine, WriteTornFine
<1>6. CASE MigrateCreate(c) \/ MigrateUpdate(c) \/ MigrateDelete(c) \/ DropFails(c) \/ Unseen(c)
  BY <1>6, MigrateCreateFine, MigrateUpdateFine, MigrateDeleteFine, DropFailsFine, UnseenFine
<1>7. CASE ExecuteCreate(c) \/ ExecuteBatch(c) \/ ExecuteOne(c)
  BY <1>7, ExecuteCreateFine, ExecuteBatchFine, ExecuteOneFine
<1>8. CASE Commit(c) \/ CommitFails(c) \/ SingleCreate(c) \/ SingleUpdate(c)
  BY <1>8, CommitFine, CommitFailsFine, SingleFine
<1>9. CASE Compensate(c) \/ Uncompensated(c)
  BY <1>9, CompensateFine
<1> QED
  BY <1>1, <1>2, <1>3, <1>4, <1>5, <1>6, <1>7, <1>8, <1>9 DEF Works

-----------------------------------------------------------------------------
(* Every step of the system.                                                *)

\* The deployment and the books of the model stay as they are.
LEMMA WorkBooks ==
  ASSUME NEW c \in Calls, Works(c)
  PROVE  dialect' = dialect /\ plan' = plan /\ overlapped' = overlapped
<1>1. CASE Begin(c) \/ Look(c) \/ Duplicate(c) \/ NoMismatch(c) \/ Mismatch(c)
  BY <1>1 DEF bookVars, Begin, Look, Duplicate, NoMismatch, Mismatch
<1>2. CASE Read(c) \/ WriteCreate(c) \/ WriteUpdate(c) \/ WriteDelete(c) \/ MigrateCreate(c)
  BY <1>2 DEF bookVars, Read, WriteCreate, WriteUpdate, WriteDelete, MigrateCreate
<1>3. CASE MigrateUpdate(c) \/ MigrateDelete(c) \/ ExecuteCreate(c) \/ ExecuteBatch(c) \/ ExecuteOne(c)
  BY <1>3 DEF bookVars, MigrateUpdate, MigrateDelete, ExecuteCreate, ExecuteBatch, ExecuteOne
<1>4. CASE Commit(c) \/ SingleCreate(c) \/ SingleUpdate(c) \/ Compensate(c) \/ Uncompensated(c)
  BY <1>4 DEF bookVars, Commit, SingleCreate, SingleUpdate, Compensate, Uncompensated
<1>5. CASE Starve(c) \/ QueryFails(c) \/ Unseen(c) \/ WriteTorn(c) \/ DropFails(c)
  BY <1>5 DEF bookVars, Starve, QueryFails, Unseen, WriteTorn, DropFails
<1>6. CASE CommitFails(c)
  BY <1>6 DEF bookVars, CommitFails
<1> QED
  BY <1>1, <1>2, <1>3, <1>4, <1>5, <1>6 DEF Works

\* A sound step of a change leaves everything in its shape.
LEMMA SoundShapes ==
  ASSUME Shapes, NEW c \in Calls, Sound(c)
  PROVE  Shapes'
<1>1. CallsShaped'
  BY DEF Shapes, CallsShaped, Sound, OnlyMoves
<1>2. PendingShaped'
  BY DEF Shapes, PendingShaped, Sound, OnlyMoves
<1>3. AskedShaped'
  BY DEF Shapes, AskedShaped, Sound, OnlyMoves
<1> QED
  BY <1>1, <1>2, <1>3 DEF Shapes, Sound

LEMMA WorkHonest ==
  ASSUME HonestInv, NEW c \in Calls, Works(c)
  PROVE  HonestInv'
<1> SUFFICES ASSUME ~overlapped' PROVE (plan \in Plans /\ Shapes /\ Alone /\ Progress)'
  BY DEF HonestInv
<1>1. dialect' = dialect /\ plan' = plan /\ ~overlapped
  BY WorkBooks
<1>2. plan \in Plans /\ Shapes /\ Alone /\ Progress
  BY <1>1 DEF HonestInv
<1>3. Shape
  BY <1>2 DEF Shapes, CallsShaped, Shape, Idle
<1>4. call[c].pc \notin {"idle", "acquire"}
  BY DEF Works, Begin, Look, Duplicate, NoMismatch, Mismatch, Read, WriteCreate, WriteUpdate,
     WriteDelete, MigrateCreate, MigrateUpdate, MigrateDelete, ExecuteCreate, ExecuteBatch,
     ExecuteOne, Diffing, Commit, SingleCreate, SingleUpdate, Compensate, Uncompensated, Starve,
     QueryFails, Unseen, WriteTorn, DropFails, CommitFails
<1>5. c \in Running
  BY <1>4 DEF Running
<1>6. Runs(c)
  BY <1>2, <1>4, <1>5 DEF Runs, Shapes, AskedShaped, Progress
<1>7. FineAfter(c) /\ Sound(c)
  BY <1>6, WorkKeeps
<1>8. Running' = Running
  BY <1>3, WorkStays DEF Works, Stays, Running, Waits
<1>9. Alone'
  BY <1>2, <1>8 DEF Alone
<1>10. \A d \in Running' : d = c
  BY <1>2, <1>5, <1>8 DEF Alone
<1>11. Progress'
  BY <1>1, <1>7, <1>10 DEF Progress, FineAfter
<1> QED
  BY <1>1, <1>2, <1>7, <1>9, <1>11, SoundShapes

\* Changes that end or die, and steps that touch no change.
LEMMA QuitHonest ==
  ASSUME HonestInv, DOMAIN call' = Calls, \A d \in Calls : call'[d] = call[d] \/ call'[d] = Idle,
         rows' = rows, phys' = phys, dialect' = dialect, plan' = plan, overlapped' = overlapped
  PROVE  HonestInv'
<1> SUFFICES ASSUME ~overlapped' PROVE (plan \in Plans /\ Shapes /\ Alone /\ Progress)'
  BY DEF HonestInv
<1>1. plan \in Plans /\ Shapes /\ Alone /\ Progress
  BY DEF HonestInv
<1>2. Idle.pc = "idle" /\ ~Idle.pending /\ Idle.todo = NoWork
  BY DEF Idle
<1>3. \A d \in Running' : d \in Running /\ call'[d] = call[d]
  BY <1>2 DEF Running
<1>4. CallsShaped'
  BY <1>1, <1>2, NoWorkIs DEF Shapes, CallsShaped
<1>5. RowsShaped' /\ TablesShaped'
  BY <1>1, SameShapes
<1>6. PendingShaped'
  BY <1>1, <1>2 DEF Shapes, PendingShaped
<1>7. AskedShaped'
  BY <1>1, <1>2 DEF Shapes, AskedShaped
<1>8. Alone'
  BY <1>1, <1>3 DEF Alone
<1>9. Progress'
  BY <1>1, <1>3 DEF Progress
<1> QED
  BY <1>1, <1>4, <1>5, <1>6, <1>7, <1>8, <1>9 DEF Shapes

\* A request arrives.
LEMMA AskHonest ==
  ASSUME HonestInv, NEW c \in Calls, NEW i, NEW want, NEW j, Ask(c, i, want, j),
         plan \in Plans =>
           /\ want.op \in {"create", "update", "delete"} /\ want.related \in BOOLEAN
           /\ want.op # "delete" => want.name \in Names
           /\ want.op # "create" => j \in Ids
           /\ want.op = "update" => ~want.related
           /\ want.op = "delete" => ~want.single
  PROVE  HonestInv'
<1> SUFFICES ASSUME ~overlapped' PROVE (plan \in Plans /\ Shapes /\ Alone /\ Progress)'
  BY DEF HonestInv
<1> DEFINE e == [Idle EXCEPT !.pc = "acquire", !.inst = i, !.want = want, !.id = j]
<1>1. /\ call[c].pc = "idle" /\ call' = [call EXCEPT ![c] = e]
      /\ rows' = rows /\ phys' = phys /\ dialect' = dialect /\ plan' = plan /\ ~overlapped
  BY DEF Ask, metaVars
<1>2. plan \in Plans /\ Shapes /\ Alone /\ Progress
  BY <1>1 DEF HonestInv
<1>3. /\ DOMAIN e = DOMAIN Idle /\ e.pc = "acquire" /\ e.want = want /\ e.id = j
      /\ e.todo = NoWork /\ Untouched(e)
  BY DEF Idle, Untouched
<1> HIDE DEF e
<1>4. Asked(e) /\ ~e.pending
  BY <1>2, <1>3 DEF Asked, Untouched
<1>5. DOMAIN call' = Calls /\ call'[c] = e /\ \A d \in Calls : d # c => call'[d] = call[d]
  BY <1>1, <1>2 DEF Shapes, CallsShaped
<1>6. CallsShaped'
  BY <1>2, <1>3, <1>5, NoWorkIs DEF Shapes, CallsShaped
<1>7. PendingShaped' /\ AskedShaped'
  BY <1>2, <1>3, <1>4, <1>5 DEF Shapes, PendingShaped, AskedShaped
<1>8. \A d \in Running' : d \in Running /\ call'[d] = call[d]
  BY <1>3, <1>5 DEF Running
<1>9. Alone' /\ Progress'
  BY <1>1, <1>2, <1>8 DEF Alone, Progress
<1> QED
  BY <1>1, <1>2, <1>6, <1>7, <1>9, SameShapes DEF Shapes

\* The only change starts with nothing done.
LEMMA AcquireHonest ==
  ASSUME HonestInv, NEW c \in Calls, Acquire(c)
  PROVE  HonestInv'
<1> SUFFICES ASSUME ~overlapped' PROVE (plan \in Plans /\ Shapes /\ Alone /\ Progress)'
  BY DEF HonestInv
<1>1. /\ call[c].pc = "acquire" /\ Goto(c, "begin") /\ rows' = rows /\ phys' = phys
      /\ dialect' = dialect /\ plan' = plan /\ ~overlapped /\ Running = {}
  BY DEF Acquire, metaVars
<1>2. plan \in Plans /\ Shapes
  BY <1>1 DEF HonestInv
<1>3. Asked(call[c]) /\ Untouched(call[c])
  BY <1>1, <1>2 DEF Shapes, AskedShaped
<1>4. /\ OnlyMoves(c) /\ SameAim(call[c], call'[c]) /\ SameTrx(call[c], call'[c])
      /\ call'[c].todo = call[c].todo /\ call'[c].created = call[c].created
      /\ call'[c].blind = call[c].blind /\ call'[c].pc = "begin"
  BY <1>1, <1>2, GotoEffect DEF Shapes
<1>5. Asked(call'[c])
  BY <1>3, <1>4 DEF Asked, SameAim, SameTrx
<1>6. Sound(c)
  BY <1>1, <1>2, <1>3, <1>4, <1>5, SameShapes
     DEF Sound, Shapes, CallsShaped, SameTrx, Untouched
<1>7. \A d \in Running' : d = c
  BY <1>1, <1>4 DEF Running, OnlyMoves
<1>8. Fine(dialect', call'[c], rows', phys')
  <2>1. CreateFine(dialect', call'[c], rows', phys')
    BY <1>3, <1>4 DEF CreateFine, Making, Untouched, SameTrx, SameAim
  <2>2. UpdateFine(dialect', call'[c], rows', phys')
    BY <1>3, <1>4 DEF UpdateFine, Untouched, SameTrx, SameAim
  <2>3. DeleteFine(dialect', call'[c], rows', phys')
    BY <1>3, <1>4 DEF DeleteFine, Untouched, SameTrx, SameAim
  <2> QED
    BY <2>1, <2>2, <2>3 DEF Fine
<1>9. Alone' /\ Progress'
  BY <1>7, <1>8 DEF Alone, Progress
<1> QED
  BY <1>1, <1>2, <1>6, <1>9, SoundShapes

LEMMA InitHonest == Init => HonestInv
<1> SUFFICES ASSUME Init PROVE plan \in Plans /\ Shapes /\ Alone /\ Progress
  BY DEF HonestInv
<1>1. Running = {} /\ plan \in Plans
  BY DEF Init, Running, Idle
<1>2. CallsShaped
  BY NoWorkIs DEF Init, CallsShaped, Idle
<1>3. RowsShaped
  BY DEF Init, RowsShaped, RowFine, NoRow, Distinct
<1>4. TableFine(Gone)
  BY DEF TableFine, Gone
<1>5. TablesShaped
  BY <1>4 DEF Init, TablesShaped
<1>6. PendingShaped /\ AskedShaped
  BY DEF Init, PendingShaped, AskedShaped, Idle
<1> QED
  BY <1>1, <1>2, <1>3, <1>5, <1>6 DEF Shapes, Alone, Progress

LEMMA NextHonest ==
  ASSUME HonestInv, [Next]_vars
  PROVE  HonestInv'
<1>1. ASSUME NEW c \in Calls, AskCreate(c) PROVE HonestInv'
  <2>1. PICK i \in Instances, n \in plan.names, f \in SUBSET plan.columns,
             r \in plan.related, s \in BOOLEAN :
          Ask(c, i, [name |-> n, op |-> "create", keep |-> {}, fresh |-> f,
                     related |-> r, single |-> s], NoId)
    BY <1>1 DEF AskCreate
  <2>2. plan \in Plans => n \in Names /\ r \in BOOLEAN
    BY BoundAssumption
  <2> QED
    BY <2>1, <2>2, AskHonest
<1>2. ASSUME NEW c \in Calls, AskUpdate(c) PROVE HonestInv'
  <2>1. PICK i \in Instances, j \in Ids, n \in plan.names, s \in BOOLEAN :
          \E keep, fresh :
            Ask(c, i, [name |-> n, op |-> "update", keep |-> keep,
                       fresh |-> fresh, related |-> FALSE, single |-> s], j)
    BY <1>2 DEF AskUpdate
  <2>2. plan \in Plans => n \in Names
    BY BoundAssumption
  <2> QED
    BY <2>1, <2>2, AskHonest
<1>3. ASSUME NEW c \in Calls, AskDelete(c) PROVE HonestInv'
  <2>1. PICK i \in Instances, j \in Ids, r \in plan.related :
          Ask(c, i, [name |-> NoName, op |-> "delete", keep |-> {}, fresh |-> {},
                     related |-> r, single |-> FALSE], j)
    BY <1>3 DEF AskDelete
  <2>2. plan \in Plans => r \in BOOLEAN
    BY BoundAssumption
  <2> QED
    BY <2>1, <2>2, AskHonest
<1>4. ASSUME NEW c \in Calls, Acquire(c) PROVE HonestInv'
  BY <1>4, AcquireHonest
<1>5. ASSUME NEW c \in Calls, Works(c) PROVE HonestInv'
  BY <1>5, WorkHonest
<1>6. ASSUME rows' = rows, phys' = phys, dialect' = dialect, plan' = plan,
             overlapped' = overlapped,
             \/ call' = call
             \/ \E c \in Calls : call' = [call EXCEPT ![c] = Idle]
             \/ \E i : call' = [c \in Calls |-> IF call[c].inst = i THEN Idle ELSE call[c]]
      PROVE  HonestInv'
  <2>1. CASE overlapped
    BY <1>6, <2>1 DEF HonestInv
  <2>2. CASE ~overlapped
    <3>1. DOMAIN call = Calls
      BY <2>2 DEF HonestInv, Shapes, CallsShaped
    <3>2. DOMAIN call' = Calls /\ \A d \in Calls : call'[d] = call[d] \/ call'[d] = Idle
      BY <1>6, <3>1
    <3> QED
      BY <1>6, <3>2, QuitHonest
  <2> QED
    BY <2>1, <2>2
<1>7. ASSUME NEW c \in Calls, Refuse(c) \/ RowFails(c) \/ Release(c) \/ Unreleased(c)
      PROVE  HonestInv'
  <2>1. /\ call' = [call EXCEPT ![c] = Idle] /\ rows' = rows /\ phys' = phys
        /\ dialect' = dialect /\ plan' = plan /\ overlapped' = overlapped
    BY <1>7 DEF Refuse, RowFails, Release, Unreleased, metaVars, bookVars
  <2> QED
    BY <1>6, <2>1
<1>8. ASSUME NEW r \in Readers, NEW s \in Sessions, Close(r, s) PROVE HonestInv'
  BY <1>6, <1>8 DEF Close, metaVars, bookVars
<1>9. ASSUME NEW i \in Instances, Crash(i) PROVE HonestInv'
  <2>1. /\ call' = [c \in Calls |-> IF call[c].inst = i THEN Idle ELSE call[c]]
        /\ rows' = rows /\ phys' = phys
        /\ dialect' = dialect /\ plan' = plan /\ overlapped' = overlapped
    BY <1>9 DEF Crash, metaVars, bookVars
  <2> QED
    BY <1>6, <2>1
<1>10. CASE UNCHANGED vars
  BY <1>6, <1>10 DEF vars
<1> QED
  BY <1>1, <1>2, <1>3, <1>4, <1>5, <1>7, <1>8, <1>9, <1>10 DEF Next, Advance, Breakdown, Works

\* A change that answers with success has made the table what the metadata say,
\* whatever queries, commits, sessions and processes were lost before and during
\* it: a new table, an altered one whose change began in agreement, one dropped.
THEOREM SuccessIsHonest == Spec => []DoneMeansDone
<1>1. Init => HonestInv
  BY InitHonest
<1>2. HonestInv /\ [Next]_vars => HonestInv'
  BY NextHonest
<1>3. HonestInv => DoneMeansDone
  <2> SUFFICES ASSUME HonestInv, NEW c \in Calls, call[c].pc = "release", call[c].result = "ok",
                      ~overlapped, ~call[c].blind
               PROVE  /\ call[c].want.op = "create" =>
                           (Postgres /\ call[c].saw) \/ Agree(rows[call[c].id], phys)
                      /\ call[c].want.op = "update" =>
                           (call[c].agreed /\ Identified(call[c]) => Agree(rows[call[c].id], phys))
                      /\ call[c].want.op = "delete" =>
                           ~rows[call[c].id].there /\ ~phys[call[c].old.name].there
                      /\ call[c].want.op \in {"create", "update", "delete"}
    BY DEF DoneMeansDone
  <2>1. Fine(dialect, call[c], rows, phys) /\ Asked(call[c])
    BY DEF HonestInv, Progress, Running, Shapes, AskedShaped
  <2>2. call[c].want.op = "create" => (Postgres /\ call[c].saw) \/ Agree(rows[call[c].id], phys)
    BY <2>1 DEF Fine, CreateFine, Making, Postgres
  <2>3. call[c].want.op = "update" =>
          (call[c].agreed /\ Identified(call[c]) => Agree(rows[call[c].id], phys))
    BY <2>1 DEF Fine, UpdateFine, Updating
  <2>4. call[c].want.op = "delete" => ~rows[call[c].id].there /\ ~phys[call[c].old.name].there
    BY <2>1 DEF Fine, DeleteFine
  <2> QED
    BY <2>1, <2>2, <2>3, <2>4 DEF Asked
<1> QED
  BY <1>1, <1>2, <1>3, PTL DEF Spec

\* On PostgreSQL an update or a delete that reports an error leaves the metadata
\* and the table in agreement, if they agreed when it began: the statements that
\* failed were rolled back with it, wherever it failed.
THEOREM FailureIsHarmless == Spec => []FailureKeepsAgreement
<1>1. Init => HonestInv
  BY InitHonest
<1>2. HonestInv /\ [Next]_vars => HonestInv'
  BY NextHonest
<1>3. HonestInv => FailureKeepsAgreement
  <2> SUFFICES ASSUME HonestInv, NEW c \in Calls, call[c].pc = "release", call[c].result = "error",
                      call[c].want.op # "create", call[c].agreed, Identified(call[c]), Postgres,
                      ~overlapped
               PROVE  Agree(rows[call[c].id], phys)
    BY DEF FailureKeepsAgreement
  <2>1. Fine(dialect, call[c], rows, phys) /\ Asked(call[c])
    BY DEF HonestInv, Progress, Running, Shapes, AskedShaped
  <2>2. call[c].want.op = "update" => Agree(rows[call[c].id], phys)
    BY <2>1 DEF Fine, UpdateFine, Updating, Postgres
  <2>3. call[c].want.op = "delete" => Agree(rows[call[c].id], phys)
    BY <2>1 DEF Fine, DeleteFine, Postgres
  <2> QED
    BY <2>1, <2>2, <2>3 DEF Asked
<1> QED
  BY <1>1, <1>2, <1>3, PTL DEF Spec

=============================================================================
