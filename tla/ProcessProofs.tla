------------------------ MODULE ProcessProofs ------------------------
(****************************************************************************)
(* Proofs about the processes of a deployment: the runs, pool and children  *)
(* of one server (HandlerExecutor), for every set of runs, pool size and    *)
(* number of calls and mishaps; and the start of several servers on one     *)
(* database (Boot), for every number of them and every default data.        *)
(****************************************************************************)
EXTENDS HandlerExecutor, Boot, FiniteSetTheorems, TLAPS

-----------------------------------------------------------------------------
(* Runs and their children                                                  *)

\* What the updates of the run variables in Settle and Close do to their types.
LEMMA SettleType ==
  ASSUME outcome \in [Runs -> Outcomes], NEW rs, NEW how \in Outcomes, Settle(rs, how)
  PROVE  outcome' \in [Runs -> Outcomes]
BY DEF Settle

LEMMA CloseType ==
  ASSUME isDone \in [Runs -> BOOLEAN], timer \in [Runs -> BOOLEAN], NEW rs, Close(rs)
  PROVE  isDone' \in [Runs -> BOOLEAN] /\ timer' \in [Runs -> BOOLEAN]
BY DEF Close

LEMMA SignalType ==
  ASSUME proc \in [Children -> Procs], NEW c, Signal(c)
  PROVE  proc' \in [Children -> Procs]
BY DEF Signal, Procs

\* A sequence that is not empty has a first element and a rest.
LEMMA HeadTailType ==
  ASSUME NEW S, NEW s \in Seq(S), s # <<>>
  PROVE  Head(s) \in S /\ Tail(s) \in Seq(S)
OBVIOUS

\* The head of the queue is given a child.
LEMMA EngageType ==
  ASSUME TypeOK, NEW r \in Runs, NEW c \in Children, Engage(r, c)
  PROVE  /\ stage' \in [Runs -> Stages]
         /\ queue' \in Seq(Runs)
         /\ child' \in [Runs -> Children \cup {NoChild}]
<1>1. queue' \in Seq(Runs)
  BY HeadTailType DEF TypeOK, Engage
<1>2. QED
  BY <1>1 DEF TypeOK, Engage, Stages

\* Sending from the child, receiving in the parent, and failing what is not done.
LEMMA AppendType ==
  ASSUME NEW Msg, NEW p \in [Children -> Seq(Msg)], NEW c \in Children, NEW m \in Msg
  PROVE  [p EXCEPT ![c] = Append(@, m)] \in [Children -> Seq(Msg)]
OBVIOUS

LEMMA SendType ==
  ASSUME pipe \in [Children -> Seq(Message)], NEW c \in Children,
         NEW m \in Message, pipe' = [pipe EXCEPT ![c] = Append(@, m)]
  PROVE  pipe' \in [Children -> Seq(Message)]
BY AppendType

LEMMA ReceiveType ==
  ASSUME TypeOK, NEW c \in Children, NEW kind, Receive(c, kind)
  PROVE  /\ pipe' \in [Children -> Seq(Message)]
         /\ crossed' \subseteq Runs \X Runs
<1>1. pipe[c] \in Seq(Message) /\ pipe[c] # <<>>
  BY DEF TypeOK, Receive
<1>2. Head(pipe[c]) \in Message /\ Tail(pipe[c]) \in Seq(Message)
  BY <1>1, HeadTailType
<1>3. pipe' \in [Children -> Seq(Message)]
  BY <1>2 DEF TypeOK, Receive
<1>4. Head(pipe[c]).run \in Runs
  BY <1>2 DEF Message
<1>5. Undone(c) \subseteq Runs
  BY DEF TypeOK, Undone
<1>6. crossed' \subseteq Runs \X Runs
  BY <1>4, <1>5 DEF TypeOK, Receive
<1>7. QED
  BY <1>3, <1>6

LEMMA FailType ==
  ASSUME TypeOK, NEW c \in Children, FailUndone(c)
  PROVE  /\ isDone' \in [Runs -> BOOLEAN] /\ timer' \in [Runs -> BOOLEAN]
         /\ outcome' \in [Runs -> Outcomes]
         /\ listeners' \in [Children -> SUBSET Runs]
         /\ loan' \in [Children -> Runs \cup {NoRun}]
         /\ proc' \in [Children -> Procs]
<1>1. isDone' \in [Runs -> BOOLEAN] /\ timer' \in [Runs -> BOOLEAN]
  BY CloseType DEF TypeOK, FailUndone
<1>2. outcome' \in [Runs -> Outcomes]
  BY SettleType DEF TypeOK, FailUndone, Outcomes
<1>3. proc' \in [Children -> Procs]
  BY SignalType DEF TypeOK, FailUndone
<1>4. QED
  BY <1>1, <1>2, <1>3 DEF TypeOK, FailUndone

\* Every variable keeps its type.
LEMMA TypeStep == TypeOK /\ [Next]_vars => TypeOK'
<1> SUFFICES ASSUME TypeOK, [Next]_vars PROVE TypeOK'
  OBVIOUS
<1> USE DEF runVars, poolVars, procVars, ghosts
<1>1. ASSUME NEW r \in Runs, Acquire(r) PROVE TypeOK'
  <2>1. queue' \in Seq(Runs)
    BY <1>1 DEF TypeOK, Acquire
  <2>2. QED
    BY <1>1, <2>1 DEF TypeOK, Acquire, Stages
<1>2. ASSUME NEW r \in Runs, Timeout(r) PROVE TypeOK'
  <2>1. CASE isDone[r]
    BY <1>2, <2>1 DEF TypeOK, Timeout
  <2>2. CASE ~isDone[r]
    <3>1. isDone' \in [Runs -> BOOLEAN] /\ timer' \in [Runs -> BOOLEAN]
      BY <1>2, <2>2, CloseType DEF TypeOK, Timeout
    <3>2. outcome' \in [Runs -> Outcomes]
      BY <1>2, <2>2, SettleType DEF TypeOK, Timeout, Outcomes
    <3>3. proc' \in [Children -> Procs]
      BY <1>2, <2>2, SignalType DEF TypeOK, Timeout
    <3>4. QED
      BY <1>2, <2>2, <3>1, <3>2, <3>3 DEF TypeOK, Timeout
  <2>3. QED
    BY <2>1, <2>2 DEF TypeOK
<1>3. ASSUME NEW r \in Runs, NEW c \in Children, Start(r, c) PROVE TypeOK'
  BY <1>3, EngageType DEF TypeOK, Start
<1>4. ASSUME NEW r \in Runs, NEW c \in Children, StartOnDead(r, c) PROVE TypeOK'
  <2>1. isDone' \in [Runs -> BOOLEAN] /\ timer' \in [Runs -> BOOLEAN]
    BY <1>4, CloseType DEF TypeOK, StartOnDead
  <2>2. outcome' \in [Runs -> Outcomes]
    BY <1>4, SettleType DEF TypeOK, StartOnDead, Outcomes
  <2>3. QED
    BY <1>4, <2>1, <2>2, EngageType DEF TypeOK, StartOnDead
<1>5. ASSUME NEW r \in Runs, NEW c \in Children, StartFails(r, c) PROVE TypeOK'
  <2>1. outcome' \in [Runs -> Outcomes]
    BY <1>5, SettleType DEF TypeOK, StartFails, Outcomes
  <2>2. budget' \in [{"calls", "mishaps"} -> Nat]
    BY <1>5 DEF TypeOK, StartFails, Spend
  <2>3. QED
    BY <1>5, <2>1, <2>2, EngageType DEF TypeOK, StartFails
<1>6. ASSUME NEW c \in Children, NEW r \in Runs, NEW kind \in {"call", "throw"},
             Call(c, r, kind)
      PROVE TypeOK'
  <2>1. pipe' \in [Children -> Seq(Message)]
    BY <1>6, SendType DEF TypeOK, Call, Kinds, Message
  <2>2. budget' \in [{"calls", "mishaps"} -> Nat]
    BY <1>6 DEF TypeOK, Call, Spend
  <2>3. QED
    BY <1>6, <2>1, <2>2 DEF TypeOK, Call
<1>7. ASSUME NEW c \in Children, NEW r \in Runs, Uncaught(c, r) PROVE TypeOK'
  <2>1. pipe' \in [Children -> Seq(Message)]
    BY <1>7, SendType DEF TypeOK, Uncaught, Kinds, Message
  <2>2. QED
    BY <1>7, <2>1 DEF TypeOK, Uncaught, Procs
<1>8. ASSUME NEW c \in Children, NEW detached \in BOOLEAN, Return(c, detached) PROVE TypeOK'
  <2>1. script[c] \in Runs
    BY <1>8 DEF TypeOK, Return
  <2>2. pipe' \in [Children -> Seq(Message)]
    BY <1>8, <2>1, SendType DEF TypeOK, Return, Kinds, Message
  <2>3. QED
    BY <1>8, <2>1, <2>2 DEF TypeOK, Return
<1>9. ASSUME NEW c \in Children, Throw(c) PROVE TypeOK'
  <2>1. script[c] \in Runs
    BY <1>9 DEF TypeOK, Throw
  <2>2. pipe' \in [Children -> Seq(Message)]
    BY <1>9, <2>1, SendType DEF TypeOK, Throw, Kinds, Message
  <2>3. QED
    BY <1>9, <2>2 DEF TypeOK, Throw
<1>10. ASSUME NEW c \in Children, Crash(c) PROVE TypeOK'
  <2>1. budget' \in [{"calls", "mishaps"} -> Nat]
    BY <1>10 DEF TypeOK, Crash, Spend
  <2>2. QED
    BY <1>10, <2>1 DEF TypeOK, Crash, Dies, Procs
<1>11. ASSUME NEW c \in Children, Exit(c) PROVE TypeOK'
  BY <1>11 DEF TypeOK, Exit, Dies, Procs
<1>12. ASSUME NEW c \in Children, Disconnect(c) PROVE TypeOK'
  BY <1>12 DEF TypeOK, Disconnect, Procs
<1>13. ASSUME NEW c \in Children, OnCall(c) PROVE TypeOK'
  BY <1>13, ReceiveType DEF TypeOK, OnCall
<1>14. ASSUME NEW c \in Children, OnThrow(c) PROVE TypeOK'
  <2>1. outcome' \in [Runs -> Outcomes]
    BY <1>14, SettleType DEF TypeOK, OnThrow, Outcomes
  <2>2. QED
    BY <1>14, <2>1, ReceiveType DEF TypeOK, OnThrow
<1>15. ASSUME NEW c \in Children, OnDone(c) PROVE TypeOK'
  <2>1. isDone' \in [Runs -> BOOLEAN] /\ timer' \in [Runs -> BOOLEAN]
    BY <1>15, CloseType DEF TypeOK, OnDone
  <2>2. outcome' \in [Runs -> Outcomes]
    BY <1>15, SettleType DEF TypeOK, OnDone, Outcomes
  <2>3. /\ pipe' \in [Children -> Seq(Message)]
        /\ crossed' \subseteq Runs \X Runs
    BY <1>15, ReceiveType DEF OnDone
  <2>4. /\ listeners' \in [Children -> SUBSET Runs]
        /\ loan' \in [Children -> Runs \cup {NoRun}]
        /\ idle' \subseteq Children
    BY <1>15 DEF TypeOK, OnDone
  <2>5. QED
    BY <1>15, <2>1, <2>2, <2>3, <2>4 DEF TypeOK, OnDone
<1>16. ASSUME NEW c \in Children, OnError(c) PROVE TypeOK'
  <2>1. /\ pipe' \in [Children -> Seq(Message)]
        /\ crossed' \subseteq Runs \X Runs
    BY <1>16, ReceiveType DEF OnError
  <2>2. FailUndone(c) /\ UNCHANGED exitDue
    BY <1>16 DEF OnError
  <2>3. QED
    BY <2>1, <2>2, FailType DEF TypeOK, FailUndone
<1>17. ASSUME NEW c \in Children, OnExit(c) PROVE TypeOK'
  <2>1. FailUndone(c) /\ exitDue' \in [Children -> BOOLEAN] /\ UNCHANGED <<pipe, crossed>>
    BY <1>17 DEF TypeOK, OnExit
  <2>2. QED
    BY <2>1, FailType DEF TypeOK, FailUndone
<1>18. ASSUME NEW c \in Children, Fork(c) PROVE TypeOK'
  <2>1. pipe' \in [Children -> Seq(Message)]
    BY <1>18 DEF TypeOK, Fork
  <2>2. QED
    BY <1>18, <2>1 DEF TypeOK, Fork, Procs
<1>19. ASSUME NEW c \in Children, DropInvalid(c) PROVE TypeOK'
  BY <1>19 DEF TypeOK, DropInvalid
<1>20. ASSUME NEW c \in Children, Evict(c) PROVE TypeOK'
  BY <1>20, SignalType DEF TypeOK, Evict
<1>21. CASE UNCHANGED vars
  BY <1>21 DEF TypeOK, vars
<1>22. QED
  BY <1>1, <1>2, <1>3, <1>4, <1>5, <1>6, <1>7, <1>8, <1>9, <1>10, <1>11, <1>12, <1>13,
     <1>14, <1>15, <1>16, <1>17, <1>18, <1>19, <1>20, <1>21
     DEF Next, RunStep, ChildStep, Listen, PoolStep

\* The variables keep their types: pc, queue, pool, processes and channels.
THEOREM TypeCorrect == Spec => []TypeOK
<1>1. Init => TypeOK
  BY PoolAssumption DEF Init, TypeOK, Stages, Outcomes, Procs
<1>2. QED
  BY <1>1, TypeStep, PTL DEF Spec

-----------------------------------------------------------------------------
\* The pool's queue holds waiting runs, each once; only a started run has a timer
\* or a listener or is over.
Waiters ==
  /\ \A i \in 1 .. Len(queue) : stage[queue[i]] = "waiting"
  /\ \A i, j \in 1 .. Len(queue) : queue[i] = queue[j] => i = j
  /\ \A r \in Runs : isDone[r] \/ timer[r] => stage[r] = "started"
  /\ \A c \in Children : \A r \in listeners[c] : stage[r] = "started"

LEMMA EngageWaiters ==
  ASSUME TypeOK, Waiters, NEW r \in Runs, NEW c \in Children, Engage(r, c)
  PROVE  /\ stage[r] = "waiting" /\ ~isDone[r]
         /\ \A i \in 1 .. Len(queue') : stage'[queue'[i]] = "waiting"
         /\ \A i, j \in 1 .. Len(queue') : queue'[i] = queue'[j] => i = j
<1>1. queue \in Seq(Runs) /\ queue # <<>> /\ r = queue[1] /\ 1 \in 1 .. Len(queue)
  BY DEF TypeOK, Engage
<1>2. stage[r] = "waiting" /\ ~isDone[r]
  BY <1>1 DEF Waiters
<1>3. Len(queue') = Len(queue) - 1 /\ \A i \in 1 .. Len(queue') : queue'[i] = queue[i + 1]
  BY <1>1 DEF Engage
<1>4. \A i \in 1 .. Len(queue') : i + 1 \in 1 .. Len(queue) /\ queue'[i] \in Runs \ {r}
  BY <1>1, <1>3 DEF Waiters
<1>5. \A i \in 1 .. Len(queue') : stage'[queue'[i]] = "waiting"
  BY <1>3, <1>4 DEF Waiters, Engage, TypeOK
<1>6. \A i, j \in 1 .. Len(queue') : queue'[i] = queue'[j] => i = j
  <2> SUFFICES ASSUME NEW i \in 1 .. Len(queue'), NEW j \in 1 .. Len(queue'),
                      queue'[i] = queue'[j]
               PROVE  i = j
    OBVIOUS
  <2>1. i + 1 \in 1 .. Len(queue) /\ j + 1 \in 1 .. Len(queue)
    BY <1>4
  <2>2. queue[i + 1] = queue[j + 1]
    BY <1>3
  <2>3. \A x, y \in 1 .. Len(queue) : queue[x] = queue[y] => x = y
    BY DEF Waiters
  <2>4. i + 1 = j + 1
    BY <2>1, <2>2, <2>3, Zenon
  <2>5. i \in Int /\ j \in Int
    OBVIOUS
  <2>6. QED
    BY <2>4, <2>5
<1>7. QED
  BY <1>2, <1>5, <1>6

\* While no run has left through the catch block, who reacts to a child is the
\* run that has it on loan.
LEMMA UndoneIsLoan ==
  ASSUME TypeOK, Owned, NEW c \in Children
  PROVE  /\ OnLoan(c) => loan[c] \in Runs /\ Undone(c) = {loan[c]}
         /\ ~OnLoan(c) => Undone(c) = {}
BY RunsAssumption DEF TypeOK, Owned, Running, OnLoan, Undone

\* Only started runs are closed.
LEMMA WaitersFrame ==
  ASSUME TypeOK, Waiters, UNCHANGED <<stage, queue>>,
         \A r \in Runs : isDone'[r] => isDone[r] \/ stage[r] = "started",
         \A r \in Runs : timer'[r] => timer[r],
         \A c \in Children : listeners'[c] \subseteq listeners[c]
  PROVE  Waiters'
BY DEF Waiters, TypeOK

LEMMA CloseWaiters ==
  ASSUME TypeOK, Waiters, NEW c \in Children, Close(Undone(c)), UNCHANGED <<stage, queue>>,
         listeners' = listeners \/ listeners' = [listeners EXCEPT ![c] = {}]
  PROVE  Waiters'
<1>1. \A r \in Runs : isDone'[r] => isDone[r] \/ stage[r] = "started"
  BY DEF Close, Undone, Waiters, TypeOK
<1>2. \A r \in Runs : timer'[r] => timer[r]
  BY DEF Close, TypeOK
<1>3. \A d \in Children : listeners'[d] \subseteq listeners[d]
  BY DEF TypeOK
<1>4. QED
  BY <1>1, <1>2, <1>3, WaitersFrame

\* A loan ends: the run is done and has neither timer nor listener.
LEMMA LoanEnds ==
  ASSUME TypeOK, Owned, NEW c \in Children, OnLoan(c),
         isDone' = [isDone EXCEPT ![loan[c]] = TRUE],
         timer' = [timer EXCEPT ![loan[c]] = FALSE],
         listeners' = [listeners EXCEPT ![c] = {}],
         loan' = [loan EXCEPT ![c] = NoRun],
         UNCHANGED <<child, stage>>, idle' \subseteq idle \cup {c}
  PROVE  Owned'
<1> DEFINE r == loan[c]
<1>1. r \in Runs /\ Running(r) /\ child[r] = c
  BY DEF Owned, OnLoan, TypeOK
<1>2. \A x \in Runs : stage'[x] = stage[x] /\ child'[x] = child[x]
                      /\ (isDone'[x] <=> isDone[x] \/ x = r) /\ (timer'[x] <=> timer[x] /\ x # r)
  BY <1>1 DEF TypeOK
<1>3. \A d \in Children : loan'[d] = (IF d = c THEN NoRun ELSE loan[d])
                          /\ listeners'[d] = (IF d = c THEN {} ELSE listeners[d])
  BY DEF TypeOK
<1>4. \A x \in Runs : Running(x) /\ x # r => child[x] \in Children \ {c}
  BY DEF Owned
<1>5. \A x \in Runs : stage'[x] = "started" /\ ~isDone'[x] =>
        child'[x] \in Children /\ loan'[child'[x]] = x /\ listeners'[child'[x]] = {x} /\ timer'[x]
  BY <1>2, <1>3, <1>4 DEF Owned, Running
<1>6. \A x \in Runs : timer'[x] => stage'[x] = "started" /\ ~isDone'[x]
  BY <1>2 DEF Owned, Running
<1>7. \A d \in Children : listeners'[d] = IF loan'[d] # NoRun THEN {loan'[d]} ELSE {}
  BY <1>3 DEF Owned, OnLoan
<1>8. ASSUME NEW d \in Children, loan'[d] # NoRun
      PROVE  /\ stage'[loan'[d]] = "started" /\ ~isDone'[loan'[d]]
             /\ child'[loan'[d]] = d /\ d \notin idle'
  <2>1. d # c /\ OnLoan(d) /\ loan'[d] = loan[d]
    BY <1>3, <1>8 DEF OnLoan
  <2>2. loan[d] \in Runs /\ Running(loan[d]) /\ child[loan[d]] = d /\ d \notin idle
    BY <2>1 DEF Owned, OnLoan, TypeOK
  <2>3. QED
    BY <2>1, <2>2, <1>1, <1>2 DEF Running
<1>9. QED
  BY <1>5, <1>6, <1>7, <1>8 DEF Owned, Running, OnLoan

\* The same said of a step that closes those who react to the child.
LEMMA CloseOwned ==
  ASSUME TypeOK, Owned, NEW c \in Children, Close(Undone(c)), UNCHANGED <<child, stage>>,
         IF Undone(c) = {} THEN UNCHANGED <<listeners, loan, idle>>
         ELSE /\ listeners' = [listeners EXCEPT ![c] = {}]
              /\ loan' = [loan EXCEPT ![c] = NoRun]
              /\ idle' \subseteq idle \cup {c}
  PROVE  Owned'
<1>1. CASE ~OnLoan(c)
  <2>1. Undone(c) = {}
    BY <1>1, UndoneIsLoan
  <2>2. isDone' = isDone /\ timer' = timer /\ UNCHANGED <<listeners, loan, idle>>
    BY <2>1 DEF Close, TypeOK
  <2>3. QED
    BY <2>2 DEF Owned, Running, OnLoan
<1>2. CASE OnLoan(c)
  <2>1. loan[c] \in Runs /\ Undone(c) = {loan[c]}
    BY <1>2, UndoneIsLoan
  <2>2. /\ isDone' = [isDone EXCEPT ![loan[c]] = TRUE]
        /\ timer' = [timer EXCEPT ![loan[c]] = FALSE]
    BY <2>1 DEF Close, TypeOK
  <2>3. QED
    BY <1>2, <2>1, <2>2, LoanEnds
<1>3. QED
  BY <1>1, <1>2

\* A child is lent to a waiting run.
LEMMA LoanBegins ==
  ASSUME TypeOK, Waiters, Owned, NEW r \in Runs, NEW c \in Children, Start(r, c)
  PROVE  Owned'
<1>1. stage[r] = "waiting" /\ ~isDone[r] /\ c \in idle
  BY EngageWaiters DEF Start, Engage
<1>2. ~OnLoan(c) /\ listeners[c] = {}
  BY <1>1 DEF Owned
<1>3. listeners' = [listeners EXCEPT ![c] = {r}] /\ idle' = idle \ {c}
  BY <1>2 DEF Start, TypeOK
<1>4. \A x \in Runs : /\ stage'[x] = IF x = r THEN "started" ELSE stage[x]
                      /\ child'[x] = IF x = r THEN c ELSE child[x]
                      /\ isDone'[x] = isDone[x] /\ (timer'[x] <=> timer[x] \/ x = r)
  BY DEF Start, Engage, TypeOK
<1>5. \A d \in Children : /\ loan'[d] = IF d = c THEN r ELSE loan[d]
                          /\ listeners'[d] = IF d = c THEN {r} ELSE listeners[d]
  BY <1>3 DEF Start, TypeOK
<1>6. \A x \in Runs : Running(x) => x # r /\ child[x] # c
  <2>1. ~Running(r)
    BY <1>1 DEF Running
  <2>2. \A x \in Runs : Running(x) => loan[child[x]] = x
    BY DEF Owned
  <2>3. loan[c] = NoRun
    BY <1>2 DEF OnLoan
  <2>4. QED
    BY <2>1, <2>2, <2>3, RunsAssumption
<1>7. \A x \in Runs : stage'[x] = "started" /\ ~isDone'[x] =>
        child'[x] \in Children /\ loan'[child'[x]] = x /\ listeners'[child'[x]] = {x} /\ timer'[x]
  BY <1>4, <1>5, <1>6 DEF Owned, Running
<1>8. \A x \in Runs : timer'[x] => stage'[x] = "started" /\ ~isDone'[x]
  BY <1>1, <1>4 DEF Owned, Running
<1>9. \A d \in Children : listeners'[d] = IF loan'[d] # NoRun THEN {loan'[d]} ELSE {}
  <2> SUFFICES ASSUME NEW d \in Children
               PROVE  listeners'[d] = IF loan'[d] # NoRun THEN {loan'[d]} ELSE {}
    OBVIOUS
  <2>1. CASE d = c
    BY <2>1, <1>5, RunsAssumption
  <2>2. CASE d # c
    BY <2>2, <1>5 DEF Owned, OnLoan
  <2>3. QED
    BY <2>1, <2>2
<1>10. ASSUME NEW d \in Children, loan'[d] # NoRun
       PROVE  /\ stage'[loan'[d]] = "started" /\ ~isDone'[loan'[d]]
              /\ child'[loan'[d]] = d /\ d \notin idle'
  <2>1. CASE d = c
    BY <2>1, <1>1, <1>3, <1>4, <1>5
  <2>2. CASE d # c
    <3>1. OnLoan(d) /\ loan'[d] = loan[d]
      BY <2>2, <1>5, <1>10 DEF OnLoan
    <3>2. loan[d] \in Runs /\ Running(loan[d]) /\ child[loan[d]] = d /\ d \notin idle
      BY <3>1 DEF Owned, OnLoan, TypeOK
    <3>3. QED
      BY <3>1, <3>2, <1>3, <1>4, <1>6 DEF Running
  <2>3. QED
    BY <2>1, <2>2
<1>11. QED
  BY <1>7, <1>8, <1>9, <1>10 DEF Owned, Running, OnLoan

\* Steps that leave the runs' side alone, and lend no child that the pool has.
LEMMA Frame ==
  ASSUME Waiters, OwnChild,
         UNCHANGED <<stage, child, isDone, timer, queue, loan, listeners, leaked>>,
         \A x \in Children : OnLoan(x) /\ x \notin idle => x \notin idle'
  PROVE  Waiters' /\ OwnChild'
<1>1. Waiters'
  BY DEF Waiters
<1>2. OwnChild'
  BY DEF OwnChild, Owned, Running, OnLoan
<1>3. QED
  BY <1>1, <1>2

LEMMA OwnStep ==
  ASSUME TypeOK, Waiters, OwnChild, [Next]_vars
  PROVE  Waiters' /\ OwnChild'
<1> USE DEF runVars, poolVars, procVars, ghosts
<1> DEFINE Goal == Waiters' /\ OwnChild'
<1>1. ASSUME NEW r \in Runs, Acquire(r) PROVE Goal
  <2>1. Waiters'
    <3>1. /\ queue \in Seq(Runs) /\ Len(queue') = Len(queue) + 1
          /\ \A i \in 1 .. Len(queue) : queue'[i] = queue[i] /\ queue[i] \in Runs
          /\ queue'[Len(queue) + 1] = r
      BY <1>1 DEF Acquire, TypeOK
    <3>2. \A i \in 1 .. Len(queue) : queue[i] # r
      BY <1>1 DEF Acquire, Waiters
    <3>3. \A i \in 1 .. Len(queue') : stage'[queue'[i]] = "waiting"
      BY <1>1, <3>1, <3>2 DEF Acquire, Waiters, TypeOK
    <3>4. \A i, j \in 1 .. Len(queue') : queue'[i] = queue'[j] => i = j
      BY <3>1, <3>2 DEF Waiters
    <3>5. \A x \in Runs : isDone'[x] => stage'[x] = "started"
      BY <1>1 DEF Acquire, Waiters, TypeOK
    <3>6. \A x \in Runs : timer'[x] => stage'[x] = "started"
      BY <1>1 DEF Acquire, Waiters, TypeOK
    <3>7. \A c \in Children : \A x \in listeners'[c] : stage'[x] = "started"
      BY <1>1 DEF Acquire, Waiters, TypeOK
    <3>8. QED
      BY <3>3, <3>4, <3>5, <3>6, <3>7 DEF Waiters
  <2>2. OwnChild'
    BY <1>1 DEF OwnChild, Owned, Acquire, Running, OnLoan, TypeOK
  <2>3. QED
    BY <2>1, <2>2
<1>2. ASSUME NEW r \in Runs, Timeout(r) PROVE Goal
  <2>1. Waiters'
    BY <1>2, WaitersFrame DEF Waiters, Timeout, Close, TypeOK
  <2>2. OwnChild'
    <3> SUFFICES ASSUME Owned PROVE Owned'
      BY <1>2 DEF OwnChild, Timeout
    <3>1. Running(r) /\ child[r] \in Children /\ loan[child[r]] = r /\ OnLoan(child[r])
      BY <1>2, RunsAssumption DEF Owned, Timeout, OnLoan
    <3>2. /\ isDone' = [isDone EXCEPT ![r] = TRUE]
          /\ timer' = [timer EXCEPT ![r] = FALSE]
      <4>1. Close({r})
        BY <1>2, <3>1 DEF Timeout, Running
      <4>2. QED
        BY <4>1 DEF Close, TypeOK
    <3>3. /\ listeners' = [listeners EXCEPT ![child[r]] = {}]
          /\ loan' = [loan EXCEPT ![child[r]] = NoRun]
          /\ UNCHANGED <<child, stage, idle>>
      BY <1>2, <3>1 DEF Timeout, Running
    <3>4. QED
      BY <3>1, <3>2, <3>3, LoanEnds
  <2>3. QED
    BY <2>1, <2>2
<1>3. ASSUME NEW r \in Runs, NEW c \in Children, Start(r, c) PROVE Goal
  <2>1. stage[r] = "waiting" /\ ~isDone[r] /\ Engage(r, c)
    BY <1>3, EngageWaiters DEF Start
  <2>2. Waiters'
    BY <1>3, <2>1, EngageWaiters DEF Waiters, Start, Engage, TypeOK
  <2>3. OwnChild'
    BY <1>3, LoanBegins DEF OwnChild, Start
  <2>4. QED
    BY <2>2, <2>3
<1>4. ASSUME NEW r \in Runs, NEW c \in Children, StartOnDead(r, c) PROVE Goal
  <2>1. stage[r] = "waiting" /\ ~isDone[r] /\ Engage(r, c)
    BY <1>4, EngageWaiters DEF StartOnDead
  <2>2. stage' = [stage EXCEPT ![r] = "started"]
    BY <1>4 DEF StartOnDead, Engage
  <2>3. \A x \in Runs : isDone'[x] \/ timer'[x] => stage'[x] = "started"
    BY <1>4, <2>2 DEF StartOnDead, Close, Undone, Waiters, TypeOK
  <2>4. \A d \in Children : \A x \in listeners'[d] : stage'[x] = "started"
    BY <1>4, <2>2 DEF StartOnDead, Waiters, TypeOK
  <2>5. Waiters'
    BY <1>4, <2>1, <2>3, <2>4, EngageWaiters DEF Waiters
  <2>6. OwnChild'
    <3> SUFFICES ASSUME Owned PROVE Owned'
      BY <1>4 DEF OwnChild, StartOnDead
    <3>1. c \in idle /\ ~OnLoan(c) /\ listeners[c] = {} /\ Undone(c) = {}
      BY <1>4, UndoneIsLoan DEF StartOnDead, Engage, Owned
    <3>2. /\ isDone' = [isDone EXCEPT ![r] = TRUE]
          /\ timer' = timer /\ listeners' = listeners
      <4>1. Close({r}) /\ listeners' = [listeners EXCEPT ![c] = {}]
        BY <1>4, <3>1 DEF StartOnDead
      <4>2. ~timer[r]
        BY <2>1 DEF Waiters
      <4>3. QED
        BY <4>1, <4>2, <3>1 DEF Close, TypeOK
    <3>3. loan' = loan /\ idle' \subseteq idle /\ child' = [child EXCEPT ![r] = c]
      BY <1>4 DEF StartOnDead, Engage
    <3>4. ~Running(r) /\ \A x \in Runs : Running(x)' <=> Running(x)
      BY <2>1, <2>2, <3>2 DEF Running, TypeOK
    <3>5. \A d \in Children : OnLoan(d) => loan[d] \in Runs /\ loan[d] # r
      BY <3>4 DEF Owned, OnLoan, TypeOK
    <3>6. QED
      BY <3>2, <3>3, <3>4, <3>5 DEF Owned, OnLoan, TypeOK
  <2>7. QED
    BY <2>5, <2>6
<1>5. ASSUME NEW r \in Runs, NEW c \in Children, StartFails(r, c) PROVE Goal
  <2>1. stage[r] = "waiting" /\ ~isDone[r] /\ Engage(r, c)
    BY <1>5, EngageWaiters DEF StartFails
  <2>2. Waiters'
    BY <1>5, <2>1, EngageWaiters DEF Waiters, StartFails, Engage, TypeOK
  <2>3. OwnChild'
    BY <1>5 DEF OwnChild, StartFails
  <2>4. QED
    BY <2>2, <2>3
<1>6. ASSUME NEW c \in Children,
             \/ \E r \in Runs, kind \in Kinds : Call(c, r, kind)
             \/ \E r \in Runs : Uncaught(c, r)
             \/ \E detached \in BOOLEAN : Return(c, detached)
             \/ Throw(c) \/ Crash(c) \/ Exit(c) \/ Disconnect(c)
      PROVE Goal
  <2>1. UNCHANGED <<runVars, poolVars, listeners, leaked>>
    BY <1>6 DEF Call, Uncaught, Return, Throw, Crash, Exit, Dies, Disconnect
  <2>2. QED
    BY <2>1, Frame
<1>7. ASSUME NEW c \in Children, OnCall(c) \/ OnThrow(c) PROVE Goal
  <2>1. UNCHANGED <<stage, child, isDone, timer, poolVars, listeners, leaked>>
    BY <1>7 DEF OnCall, OnThrow
  <2>2. QED
    BY <2>1, Frame
<1>8. ASSUME NEW c \in Children, OnDone(c) PROVE Goal
  <2>1. Waiters'
    BY <1>8, CloseWaiters DEF OnDone
  <2>2. OwnChild'
    BY <1>8, CloseOwned DEF OwnChild, OnDone
  <2>3. QED
    BY <2>1, <2>2
<1>9. ASSUME NEW c \in Children, OnError(c) \/ OnExit(c) PROVE Goal
  <2>1. FailUndone(c)
    BY <1>9 DEF OnError, OnExit
  <2>2. Waiters'
    BY <2>1, CloseWaiters DEF FailUndone
  <2>3. OwnChild'
    BY <2>1, CloseOwned DEF OwnChild, FailUndone
  <2>4. QED
    BY <2>2, <2>3
<1>10. ASSUME NEW c \in Children, Fork(c) \/ DropInvalid(c) \/ Evict(c) PROVE Goal
  <2>1. UNCHANGED <<runVars, queue, loan, listeners, leaked>>
    BY <1>10 DEF Fork, DropInvalid, Evict
  <2>2. \A x \in Children : OnLoan(x) /\ x \notin idle => x \notin idle'
    BY <1>10 DEF Fork, DropInvalid, Evict
  <2>3. QED
    BY <2>1, <2>2, Frame
<1>11. CASE UNCHANGED vars
  BY <1>11, Frame DEF vars
<1>12. QED
  BY <1>1, <1>2, <1>3, <1>4, <1>5, <1>6, <1>7, <1>8, <1>9, <1>10, <1>11
     DEF Next, RunStep, ChildStep, Listen, PoolStep, Kinds

LEMMA OwnInit == Init => TypeOK /\ Waiters /\ OwnChild
<1>1. Init => TypeOK
  BY PoolAssumption DEF Init, TypeOK, Stages, Outcomes, Procs
<1>2. Init => Waiters
  BY DEF Init, Waiters
<1>3. Init => OwnChild
  BY RunsAssumption DEF Init, OwnChild, Owned, Running, OnLoan
<1>4. QED
  BY <1>1, <1>2, <1>3

\* A run that is not over has its child, its handlers and its timer to itself
\* (ChildProcessManager.setupTimeout and setupChildProcessListeners), unless a
\* run has left through the catch block of HandlerExecutorService.run().
THEOREM ChildrenOwned == Spec => []OwnChild
<1>1. TypeOK /\ Waiters /\ OwnChild /\ [Next]_vars => (TypeOK /\ Waiters /\ OwnChild)'
  BY TypeStep, OwnStep
<1>2. QED
  BY <1>1, OwnInit, PTL DEF Spec

-----------------------------------------------------------------------------
\* A promise that is settled stays settled, and Settle leaves none open.
LEMMA SettleFacts ==
  ASSUME TypeOK, NEW rs, NEW how \in {"resolved", "rejected"}, Settle(rs, how)
  PROVE  \A r \in Runs : outcome[r] # "none" \/ r \in rs => outcome'[r] # "none"
BY DEF Settle, TypeOK

\* What a step closes it also settles.
LEMMA CloseSettled ==
  ASSUME TypeOK, \A r \in Runs : isDone[r] => outcome[r] # "none",
         NEW rs, NEW how \in {"resolved", "rejected"}, Close(rs), Settle(rs, how)
  PROVE  \A r \in Runs : isDone'[r] => outcome'[r] # "none"
BY SettleFacts DEF Close, TypeOK

\* While no run has left through the catch block, one run at most handles "done",
\* and its child is still on loan.
LEMMA DoneSettles ==
  ASSUME TypeOK, Owned, NEW c \in Children, OnDone(c)
  PROVE  \/ Undone(c) = {} /\ ~OnLoan(c) /\ outcome' = outcome
         \/ OnLoan(c) /\ Settle(Undone(c), "resolved")
<1>1. CASE ~OnLoan(c)
  <2>1. Undone(c) = {}
    BY <1>1, UndoneIsLoan
  <2>2. outcome' = outcome
    BY <2>1 DEF OnDone
  <2>3. QED
    BY <1>1, <2>1, <2>2
<1>2. CASE OnLoan(c)
  <2>1. Undone(c) = {loan[c]}
    BY <1>2, UndoneIsLoan
  <2>2. Cardinality(Undone(c)) = 1
    BY <2>1, FS_Singleton
  <2>3. QED
    BY <1>2, <2>1, <2>2 DEF OnDone
<1>3. QED
  BY <1>1, <1>2

LEMMA SettledStep ==
  ASSUME TypeOK, OwnChild, DoneIsSettled, [Next]_vars
  PROVE  DoneIsSettled'
<1> USE DEF runVars, poolVars, procVars, ghosts
<1> DEFINE Good == \A r \in Runs : isDone[r] => outcome[r] # "none"
<1> SUFFICES ASSUME leaked' = {} PROVE Good'
  BY DEF DoneIsSettled
<1>0. leaked = {}
  BY DEF Next, RunStep, ChildStep, Listen, PoolStep, vars, Acquire, Timeout, Start,
         StartOnDead, StartFails, Call, Uncaught, Return, Throw, Crash, Exit, Dies,
         Disconnect, OnCall, OnThrow, OnDone, OnError, OnExit, FailUndone, Fork,
         DropInvalid, Evict
<1>a. Good /\ Owned
  BY <1>0 DEF DoneIsSettled, OwnChild
<1>1. ASSUME NEW r \in Runs, Timeout(r) PROVE Good'
  <2>1. CASE isDone[r]
    BY <1>1, <2>1, <1>a DEF Timeout
  <2>2. CASE ~isDone[r]
    BY <1>1, <2>2, <1>a, CloseSettled DEF Timeout
  <2>3. QED
    BY <2>1, <2>2
<1>2. ASSUME NEW r \in Runs, NEW c \in Children, StartOnDead(r, c) PROVE Good'
  BY <1>2, <1>a, CloseSettled DEF StartOnDead
<1>3. ASSUME NEW r \in Runs, NEW c \in Children, StartFails(r, c) PROVE Good'
  BY <1>3 DEF StartFails
<1>4. ASSUME NEW c \in Children, OnThrow(c) PROVE Good'
  BY <1>4, <1>a, SettleFacts DEF OnThrow
<1>5. ASSUME NEW c \in Children, OnDone(c) PROVE Good'
  <2>1. Close(Undone(c))
    BY <1>5 DEF OnDone
  <2>2. CASE Undone(c) = {} /\ outcome' = outcome
    BY <2>1, <2>2, <1>a DEF Close, TypeOK
  <2>3. CASE Settle(Undone(c), "resolved")
    BY <2>1, <2>3, <1>a, CloseSettled
  <2>4. QED
    BY <1>5, <1>a, <2>2, <2>3, DoneSettles
<1>6. ASSUME NEW c \in Children, OnError(c) \/ OnExit(c) PROVE Good'
  BY <1>6, <1>a, CloseSettled DEF OnError, OnExit, FailUndone
<1>7. CASE UNCHANGED <<isDone, outcome>>
  BY <1>7, <1>a
<1>8. QED
  BY <1>1, <1>2, <1>3, <1>4, <1>5, <1>6, <1>7
     DEF Next, RunStep, ChildStep, Listen, PoolStep, vars, Acquire, Start, Call, Uncaught,
         Return, Throw, Crash, Exit, Dies, Disconnect, OnCall, Fork, DropInvalid, Evict

\* No promise of run() is left open by a run that is over, unless a run has left
\* through the catch block of run().
THEOREM PromisesSettled == Spec => []DoneIsSettled
<1>1. Init => DoneIsSettled
  BY DEF Init, DoneIsSettled
<1>2. TypeOK /\ Waiters /\ OwnChild /\ DoneIsSettled /\ [Next]_vars
        => (TypeOK /\ Waiters /\ OwnChild /\ DoneIsSettled)'
  BY TypeStep, OwnStep, SettledStep
<1>3. QED
  BY <1>1, <1>2, OwnInit, PTL DEF Spec

-----------------------------------------------------------------------------
\* A script that is over and whose run is over: what it left behind is a stray.
Over(r) == r \in returned /\ isDone[r]

\* What the child of the pool still sends. Its script is that of the run that
\* has it on loan; background work belongs to scripts that have returned; so do
\* the messages on their way, but for those of the present run, whose "done" is
\* sent once, at the end of its script.
Channel(c) ==
  c \in idle \/ loan[c] # NoRun =>
    /\ proc[c] # "killed"
    /\ script[c] \in {NoRun, loan[c]}
    /\ \A x \in strays[c] : x \in returned /\ (isDone[x] \/ x = loan[c])
    /\ \A i \in 1 .. Len(pipe[c]) : pipe[c][i].run = loan[c] \/ Over(pipe[c][i].run)
    /\ \A i \in 1 .. Len(pipe[c]) : pipe[c][i].kind = "done" =>
         /\ loan[c] # NoRun /\ pipe[c][i].run = loan[c]
         /\ loan[c] \in returned /\ script[c] = NoRun
    /\ \A i, j \in 1 .. Len(pipe[c]) :
         pipe[c][i].kind = "done" /\ pipe[c][j].kind = "done" => i = j

\* A process that has ended, or not begun, runs nothing.
Resting ==
  \A c \in Children : proc[c] \in {"none", "gone", "closed"} => script[c] = NoRun /\ strays[c] = {}

LEMMA RestingStep == ASSUME TypeOK, Resting, [Next]_vars PROVE Resting'
<1> USE DEF runVars, poolVars, procVars, ghosts
<1>1. CASE UNCHANGED <<proc, script, strays>>
  BY <1>1 DEF Resting
<1>2. ASSUME NEW r \in Runs, Timeout(r) PROVE Resting'
  BY <1>2 DEF Resting, Timeout, Signal, TypeOK
<1>3. ASSUME NEW r \in Runs, NEW c \in Children, Start(r, c) PROVE Resting'
  BY <1>3 DEF Resting, Start, Engage, Valid, TypeOK
<1>4. ASSUME NEW c \in Children, NEW r \in Runs, Uncaught(c, r) PROVE Resting'
  BY <1>4 DEF Resting, Uncaught, TypeOK
<1>5. ASSUME NEW c \in Children, NEW d \in BOOLEAN, Return(c, d) PROVE Resting'
  BY <1>5 DEF Resting, Return, TypeOK
<1>6. ASSUME NEW c \in Children, Throw(c) PROVE Resting'
  BY <1>6 DEF Resting, Throw, TypeOK
<1>7. ASSUME NEW c \in Children, Exit(c) \/ Crash(c) PROVE Resting'
  <2>1. Dies(c)
    BY <1>7 DEF Exit, Crash
  <2>2. QED
    BY <2>1 DEF Resting, Dies, TypeOK
<1>8. ASSUME NEW c \in Children, OnError(c) \/ OnExit(c) PROVE Resting'
  <2>1. FailUndone(c)
    BY <1>8 DEF OnError, OnExit
  <2>2. QED
    BY <2>1 DEF Resting, FailUndone, Signal, TypeOK
<1>9. ASSUME NEW c \in Children, Fork(c) PROVE Resting'
  BY <1>9 DEF Resting, Fork, TypeOK
<1>10. ASSUME NEW c \in Children, Evict(c) PROVE Resting'
  BY <1>10 DEF Resting, Evict, Signal, TypeOK
<1>11. ASSUME NEW c \in Children, Disconnect(c) PROVE Resting'
  BY <1>11 DEF Resting, Disconnect, TypeOK
<1>12. QED
  BY <1>1, <1>2, <1>3, <1>4, <1>5, <1>6, <1>7, <1>8, <1>9, <1>10, <1>11
     DEF Next, RunStep, ChildStep, Listen, PoolStep, vars, Acquire, StartOnDead, StartFails,
         Call, OnCall, OnThrow, OnDone, DropInvalid

\* The flags only ever rise.
LEMMA Monotone ==
  ASSUME TypeOK, [Next]_vars
  PROVE  /\ leaked' = {} => leaked = {}
         /\ returned \subseteq returned'
         /\ \A r \in Runs : isDone[r] => isDone'[r]
<1> USE DEF runVars, poolVars, procVars, ghosts
<1>1. /\ leaked' = {} => leaked = {}
      /\ returned \subseteq returned'
  BY DEF Next, RunStep, ChildStep, Listen, PoolStep, vars, Acquire, Timeout, Start,
         StartOnDead, StartFails, Call, Uncaught, Return, Throw, Crash, Exit, Dies,
         Disconnect, OnCall, OnThrow, OnDone, OnError, OnExit, FailUndone, Fork,
         DropInvalid, Evict
<1>2. isDone' = isDone \/ \E rs : Close(rs)
  BY DEF Next, RunStep, ChildStep, Listen, PoolStep, vars, Acquire, Timeout, Start,
         StartOnDead, StartFails, Call, Uncaught, Return, Throw, Crash, Exit, Dies,
         Disconnect, OnCall, OnThrow, OnDone, OnError, OnExit, FailUndone, Fork,
         DropInvalid, Evict
<1>3. \A r \in Runs : isDone[r] => isDone'[r]
  BY <1>2 DEF Close, TypeOK
<1>4. QED
  BY <1>1, <1>3

\* A step that leaves a child's channel alone keeps what is known of it.
LEMMA ChannelFrame ==
  ASSUME TypeOK, NEW c \in Children, Channel(c),
         script'[c] \in {script[c], NoRun}, strays'[c] \subseteq strays[c], pipe'[c] = pipe[c],
         c \in idle' \/ loan'[c] # NoRun =>
           /\ c \in idle \/ loan[c] # NoRun
           /\ loan'[c] = loan[c] /\ proc'[c] # "killed",
         returned \subseteq returned', \A r \in Runs : isDone[r] => isDone'[r]
  PROVE  Channel(c)'
<1> SUFFICES ASSUME c \in idle' \/ loan'[c] # NoRun PROVE Channel(c)'
  BY DEF Channel
<1>1. pipe[c] \in Seq(Message) /\ strays[c] \subseteq Runs
  BY DEF TypeOK
<1>2. \A i \in 1 .. Len(pipe[c]) : pipe[c][i].run \in Runs
  <2>1. \A i \in 1 .. Len(pipe[c]) : pipe[c][i] \in Message
    BY <1>1
  <2>2. QED
    BY <2>1 DEF Message
<1>3. QED
  BY <1>1, <1>2 DEF Channel, Over

\* Reading one message keeps it too.
LEMMA ChannelTail ==
  ASSUME TypeOK, NEW c \in Children, Channel(c), pipe[c] # <<>>,
         script'[c] = script[c], strays'[c] = strays[c], pipe'[c] = Tail(pipe[c]),
         c \in idle' \/ loan'[c] # NoRun =>
           /\ c \in idle \/ loan[c] # NoRun
           /\ loan'[c] = loan[c] /\ proc'[c] # "killed",
         returned \subseteq returned', \A r \in Runs : isDone[r] => isDone'[r]
  PROVE  Channel(c)'
<1> SUFFICES ASSUME c \in idle' \/ loan'[c] # NoRun PROVE Channel(c)'
  BY DEF Channel
<1>1. pipe[c] \in Seq(Message) /\ strays[c] \subseteq Runs
  BY DEF TypeOK
<1>2. \A i \in 1 .. Len(pipe[c]) : pipe[c][i].run \in Runs
  <2>1. \A i \in 1 .. Len(pipe[c]) : pipe[c][i] \in Message
    BY <1>1
  <2>2. QED
    BY <2>1 DEF Message
<1>3. \A i \in 1 .. Len(pipe'[c]) : i + 1 \in 1 .. Len(pipe[c]) /\ pipe'[c][i] = pipe[c][i + 1]
  BY <1>1
<1>4. \A i \in 1 .. Len(pipe'[c]) : i \in Int
  OBVIOUS
<1>5. \A i, j \in 1 .. Len(pipe'[c]) :
        pipe'[c][i].kind = "done" /\ pipe'[c][j].kind = "done" => i = j
  <2> SUFFICES ASSUME NEW i \in 1 .. Len(pipe'[c]), NEW j \in 1 .. Len(pipe'[c]),
                      pipe'[c][i].kind = "done", pipe'[c][j].kind = "done"
               PROVE  i = j
    OBVIOUS
  <2>1. i + 1 = j + 1
    BY <1>3 DEF Channel
  <2>2. QED
    BY <2>1, <1>4
<1>6. QED
  BY <1>1, <1>2, <1>3, <1>5 DEF Channel, Over

\* The same for a message that a child sends.
LEMMA ChannelSend ==
  ASSUME TypeOK, NEW c \in Children, Channel(c), NEW k \in Kinds, NEW r \in Runs,
         pipe'[c] = Append(pipe[c], [kind |-> k, run |-> r]),
         script'[c] \in {script[c], NoRun},
         \A x \in strays'[c] : x \in strays[c] \/ (x \in returned' /\ x = script[c] /\ x # NoRun),
         UNCHANGED <<idle, loan>>, proc[c] # "killed" => proc'[c] # "killed",
         r \in Active(c),
         k = "done" => script[c] = r /\ script'[c] = NoRun /\ r \in returned',
         returned \subseteq returned', \A x \in Runs : isDone[x] => isDone'[x]
  PROVE  Channel(c)'
<1> DEFINE m == [kind |-> k, run |-> r]
<1> SUFFICES ASSUME c \in idle' \/ loan'[c] # NoRun PROVE Channel(c)'
  BY DEF Channel
<1>1. pipe[c] \in Seq(Message) /\ strays[c] \subseteq Runs
  BY DEF TypeOK
<1>2. \A i \in 1 .. Len(pipe[c]) : pipe[c][i].run \in Runs /\ pipe'[c][i] = pipe[c][i]
  <2>1. \A i \in 1 .. Len(pipe[c]) : pipe[c][i] \in Message
    BY <1>1
  <2>2. QED
    BY <1>1, <2>1 DEF Message
<1>3. Len(pipe'[c]) = Len(pipe[c]) + 1 /\ pipe'[c][Len(pipe[c]) + 1] = m
  BY <1>1
<1>4. \A i \in 1 .. Len(pipe'[c]) : i \in 1 .. Len(pipe[c]) \/ i = Len(pipe[c]) + 1
  BY <1>1, <1>3
<1>5. m.run = r /\ m.kind = k /\ (r = loan[c] \/ Over(r))
  BY DEF Active, Channel, Over
<1>6. \A i \in 1 .. Len(pipe'[c]) :
        \/ pipe'[c][i].run = loan'[c]
        \/ pipe'[c][i].run \in returned' /\ isDone'[pipe'[c][i].run]
  BY <1>2, <1>3, <1>4, <1>5 DEF Channel, Over
<1> r # NoRun
  BY RunsAssumption
<1>7. \A i \in 1 .. Len(pipe'[c]) : pipe'[c][i].kind = "done" =>
        /\ loan'[c] # NoRun /\ pipe'[c][i].run = loan'[c]
        /\ loan'[c] \in returned' /\ script'[c] = NoRun
  BY <1>2, <1>3, <1>4, <1>5 DEF Channel
<1>8. \A i, j \in 1 .. Len(pipe'[c]) :
        pipe'[c][i].kind = "done" /\ pipe'[c][j].kind = "done" => i = j
  BY <1>2, <1>3, <1>4, <1>5 DEF Channel
<1>9. \A x \in strays'[c] : x \in returned' /\ (isDone'[x] \/ x = loan'[c])
  BY <1>1 DEF Channel
<1>10. QED
  BY <1>6, <1>7, <1>8, <1>9 DEF Channel, Over

\* A child is lent with nothing in its channel but what strays have sent.
LEMMA ChannelStart ==
  ASSUME TypeOK, NEW c \in Children, Channel(c), NEW r \in Runs, Start(r, c), loan[c] = NoRun
  PROVE  Channel(c)'
<1>1. /\ c \in idle /\ proc[c] \in {"up", "dying"} /\ proc' = proc
      /\ UNCHANGED <<strays, pipe, returned, isDone>>
      /\ loan'[c] = r /\ script'[c] = r
  BY DEF Start, Engage, Valid, TypeOK, ghosts
<1>2. pipe[c] \in Seq(Message) /\ strays[c] \subseteq Runs
  BY DEF TypeOK
<1>3. \A i \in 1 .. Len(pipe[c]) : pipe[c][i].run \in Runs
  <2>1. \A i \in 1 .. Len(pipe[c]) : pipe[c][i] \in Message
    BY <1>2
  <2>2. QED
    BY <2>1 DEF Message
<1>4. QED
  BY <1>1, <1>2, <1>3, RunsAssumption DEF Channel, Over

\* "done" of the run that has the child: the script is over, nothing but strays
\* is left when the child goes back to the pool.
LEMMA ChannelDone ==
  ASSUME TypeOK, Owned, NEW c \in Children, Channel(c), OnDone(c), loan[c] # NoRun
  PROVE  Channel(c)'
<1> DEFINE r == loan[c]
<1>1. r \in Runs /\ Undone(c) = {r}
  BY UndoneIsLoan DEF OnLoan
<1>2. /\ pipe[c] # <<>> /\ pipe'[c] = Tail(pipe[c]) /\ pipe[c][1].kind = "done"
      /\ UNCHANGED <<script, strays, returned, proc>>
      /\ loan'[c] = NoRun
  BY <1>1 DEF OnDone, Receive, TypeOK, ghosts
<1>3. isDone'[r] /\ \A x \in Runs : isDone[x] => isDone'[x]
  BY <1>1 DEF OnDone, Close, TypeOK
<1>4. pipe[c] \in Seq(Message) /\ strays[c] \subseteq Runs /\ 1 \in 1 .. Len(pipe[c])
  BY <1>2 DEF TypeOK
<1>5. r \in returned /\ script[c] = NoRun /\ proc[c] # "killed"
  BY <1>2, <1>4 DEF Channel
<1>6. \A i \in 1 .. Len(pipe[c]) : pipe[c][i].run \in Runs
  <2>1. \A i \in 1 .. Len(pipe[c]) : pipe[c][i] \in Message
    BY <1>4
  <2>2. QED
    BY <2>1 DEF Message
<1>7. \A i \in 1 .. Len(pipe'[c]) :
        i + 1 \in 1 .. Len(pipe[c]) /\ i + 1 # 1 /\ pipe'[c][i] = pipe[c][i + 1]
  BY <1>2, <1>4
<1>8. \A i \in 1 .. Len(pipe'[c]) : pipe'[c][i].kind # "done"
  BY <1>2, <1>4, <1>7 DEF Channel
<1>9. \A i \in 1 .. Len(pipe'[c]) :
        pipe'[c][i].run \in returned' /\ isDone'[pipe'[c][i].run]
  BY <1>2, <1>3, <1>5, <1>6, <1>7 DEF Channel, Over
<1>10. \A x \in strays'[c] : x \in returned' /\ isDone'[x]
  BY <1>2, <1>3, <1>4 DEF Channel
<1>11. QED
  BY <1>2, <1>5, <1>8, <1>9, <1>10 DEF Channel, Over

LEMMA ChannelStep ==
  ASSUME TypeOK, OwnChild, Resting, leaked = {}, leaked' = {}, [Next]_vars,
         NEW d \in Children, Channel(d)
  PROVE  Channel(d)'
<1> USE DEF runVars, poolVars, procVars, ghosts
<1>a. Owned
  BY DEF OwnChild
<1>b. returned \subseteq returned' /\ \A r \in Runs : isDone[r] => isDone'[r]
  BY Monotone
<1>c. d \in idle \/ loan[d] # NoRun => proc[d] # "killed"
  BY DEF Channel
<1>d. d \in idle => loan[d] = NoRun
  BY <1>a DEF Owned, OnLoan
<1> DEFINE Same == script' = script /\ strays' = strays /\ pipe' = pipe
<1>1. ASSUME NEW r \in Runs, Acquire(r) PROVE Channel(d)'
  BY <1>1, <1>b, <1>c, ChannelFrame DEF Acquire
<1>2. ASSUME NEW r \in Runs, Timeout(r) PROVE Channel(d)'
  <2> DEFINE c == child[r]
  <2>1. Running(r) /\ c \in Children /\ loan[c] = r /\ c \notin idle
    BY <1>2, <1>a, RunsAssumption DEF Timeout, Owned, OnLoan
  <2>2. /\ loan' = [loan EXCEPT ![c] = NoRun] /\ Signal(c) /\ idle' = idle /\ Same
    BY <1>2, <2>1 DEF Timeout, Running
  <2>3. CASE d = c
    BY <2>1, <2>2, <2>3 DEF Channel, TypeOK
  <2>4. CASE d # c
    BY <2>2, <2>4, <1>b, <1>c, ChannelFrame DEF Signal, TypeOK
  <2>5. QED
    BY <2>3, <2>4
<1>3. ASSUME NEW r \in Runs, NEW c \in Children, Start(r, c) PROVE Channel(d)'
  <2>1. CASE d = c
    BY <1>3, <2>1, <1>d, ChannelStart DEF Start, Engage
  <2>2. CASE d # c
    BY <1>3, <2>2, <1>b, <1>c, ChannelFrame DEF Start, TypeOK
  <2>3. QED
    BY <2>1, <2>2
<1>4. ASSUME NEW r \in Runs, NEW c \in Children, StartOnDead(r, c) PROVE Channel(d)'
  BY <1>4, <1>b, <1>c, ChannelFrame DEF StartOnDead
<1>5. ASSUME NEW r \in Runs, NEW c \in Children, StartFails(r, c) PROVE Channel(d)'
  BY <1>5 DEF StartFails
<1>6. ASSUME NEW c \in Children, NEW r \in Runs, NEW kind \in {"call", "throw"},
             Call(c, r, kind)
      PROVE Channel(d)'
  <2>1. CASE d = c
    <3>1. /\ kind \in Kinds /\ r \in Active(c) /\ kind # "done"
          /\ pipe'[c] = Append(pipe[c], [kind |-> kind, run |-> r])
      BY <1>6 DEF Call, Kinds, TypeOK
    <3>2. UNCHANGED <<script, strays, idle, loan, proc>>
      BY <1>6 DEF Call
    <3>3. QED
      BY <2>1, <3>1, <3>2, <1>b, ChannelSend
  <2>2. CASE d # c
    BY <1>6, <2>2, <1>b, <1>c, ChannelFrame DEF Call, TypeOK
  <2>3. QED
    BY <2>1, <2>2
<1>7. ASSUME NEW c \in Children, NEW r \in Runs, Uncaught(c, r) PROVE Channel(d)'
  <2>1. CASE d = c
    <3>1. /\ "error" \in Kinds /\ r \in Active(c)
          /\ pipe'[c] = Append(pipe[c], [kind |-> "error", run |-> r]) /\ proc'[c] = "dying"
      BY <1>7 DEF Uncaught, Kinds, TypeOK
    <3>2. UNCHANGED <<script, strays, idle, loan>>
      BY <1>7 DEF Uncaught
    <3>3. QED
      BY <2>1, <3>1, <3>2, <1>b, ChannelSend
  <2>2. CASE d # c
    BY <1>7, <2>2, <1>b, <1>c, ChannelFrame DEF Uncaught, TypeOK
  <2>3. QED
    BY <2>1, <2>2
<1>8. ASSUME NEW c \in Children, NEW detached \in BOOLEAN, Return(c, detached)
      PROVE Channel(d)'
  <2>1. CASE d = c
    <3>1. script[c] # NoRun /\ script[c] \in Runs
      BY <1>8 DEF Return, TypeOK
    <3>2. /\ "done" \in Kinds /\ script[c] \in Active(c)
          /\ pipe'[c] = Append(pipe[c], [kind |-> "done", run |-> script[c]])
          /\ script'[c] = NoRun /\ script[c] \in returned'
      BY <1>8, <3>1 DEF Return, Kinds, TypeOK, Active
    <3>3. UNCHANGED <<idle, loan, proc>>
      BY <1>8 DEF Return
    <3>4. \A x \in strays'[c] : x \in strays[c] \/ (x \in returned' /\ x = script[c] /\ x # NoRun)
      <4>1. CASE detached
        BY <1>8, <4>1, <3>1, <3>2 DEF Return, TypeOK
      <4>2. CASE ~detached
        BY <1>8, <4>2 DEF Return
      <4>3. QED
        BY <4>1, <4>2
    <3>5. QED
      BY <2>1, <3>1, <3>2, <3>3, <3>4, <1>b, ChannelSend
  <2>2. CASE d # c
    BY <1>8, <2>2, <1>b, <1>c, ChannelFrame DEF Return, TypeOK
  <2>3. QED
    BY <2>1, <2>2
<1>9. ASSUME NEW c \in Children, Throw(c) PROVE Channel(d)'
  <2>1. CASE d = c
    <3>1. script[c] # NoRun /\ script[c] \in Runs
      BY <1>9 DEF Throw, TypeOK
    <3>2. /\ "error" \in Kinds /\ script[c] \in Active(c)
          /\ pipe'[c] = Append(pipe[c], [kind |-> "error", run |-> script[c]])
          /\ script'[c] = NoRun
      BY <1>9, <3>1 DEF Throw, Kinds, TypeOK, Active
    <3>3. UNCHANGED <<idle, loan, proc, strays>>
      BY <1>9 DEF Throw
    <3>4. QED
      BY <2>1, <3>1, <3>2, <3>3, <1>b, ChannelSend
  <2>2. CASE d # c
    BY <1>9, <2>2, <1>b, <1>c, ChannelFrame DEF Throw, TypeOK
  <2>3. QED
    BY <2>1, <2>2
<1>10. ASSUME NEW c \in Children, Crash(c) \/ Exit(c) PROVE Channel(d)'
  <2>1. Dies(c)
    BY <1>10 DEF Crash, Exit
  <2>2. /\ script'[d] \in {script[d], NoRun} /\ strays'[d] \subseteq strays[d]
        /\ (proc[d] # "killed" => proc'[d] # "killed")
        /\ UNCHANGED <<pipe, idle, loan>>
    BY <2>1 DEF Dies, TypeOK
  <2>3. QED
    BY <2>2, <1>b, <1>c, ChannelFrame
<1>11. ASSUME NEW c \in Children, OnCall(c) \/ OnThrow(c) PROVE Channel(d)'
  <2>1. /\ UNCHANGED <<script, strays, idle, loan, proc>>
        /\ pipe[c] # <<>> /\ pipe' = [pipe EXCEPT ![c] = Tail(@)]
    BY <1>11 DEF OnCall, OnThrow, Receive
  <2>2. CASE d = c
    BY <2>1, <2>2, <1>b, <1>c, ChannelTail DEF TypeOK
  <2>3. CASE d # c
    BY <2>1, <2>3, <1>b, <1>c, ChannelFrame DEF TypeOK
  <2>4. QED
    BY <2>2, <2>3
<1>12. ASSUME NEW c \in Children, OnDone(c) PROVE Channel(d)'
  <2>1. /\ UNCHANGED <<script, strays, proc>>
        /\ pipe[c] # <<>> /\ pipe' = [pipe EXCEPT ![c] = Tail(@)]
    BY <1>12 DEF OnDone, Receive
  <2>2. CASE d = c /\ loan[c] # NoRun
    BY <1>12, <2>2, <1>a, ChannelDone
  <2>3. CASE d = c /\ loan[c] = NoRun
    <3>1. Undone(c) = {}
      BY <2>3, <1>a, UndoneIsLoan DEF OnLoan
    <3>2. UNCHANGED <<idle, loan>>
      BY <1>12, <3>1 DEF OnDone
    <3>3. QED
      BY <2>1, <2>3, <3>2, <1>b, <1>c, ChannelTail DEF TypeOK
  <2>4. CASE d # c
    <3>1. (d \in idle' <=> d \in idle) /\ loan'[d] = loan[d]
      BY <1>12, <2>4 DEF OnDone, TypeOK
    <3>2. QED
      BY <2>1, <2>4, <3>1, <1>b, <1>c, ChannelFrame DEF TypeOK
  <2>5. QED
    BY <2>2, <2>3, <2>4
<1>13. ASSUME NEW c \in Children, OnError(c) \/ OnExit(c) PROVE Channel(d)'
  <2>1. FailUndone(c)
    BY <1>13 DEF OnError, OnExit
  <2>2. UNCHANGED <<script, strays, idle>>
    BY <2>1 DEF FailUndone
  <2>3. CASE d = c /\ loan[c] # NoRun
    <3>1. Undone(c) # {} /\ c \notin idle
      BY <2>3, <1>a, UndoneIsLoan DEF OnLoan, Owned
    <3>2. loan'[c] = NoRun
      BY <2>1, <3>1 DEF FailUndone, TypeOK
    <3>3. QED
      BY <2>2, <2>3, <3>1, <3>2 DEF Channel
  <2>4. CASE d = c /\ loan[c] = NoRun
    <3>1. Undone(c) = {}
      BY <2>4, <1>a, UndoneIsLoan DEF OnLoan
    <3>2. UNCHANGED <<loan, proc>>
      BY <2>1, <3>1 DEF FailUndone
    <3>3. pipe' = pipe \/ (pipe[c] # <<>> /\ pipe' = [pipe EXCEPT ![c] = Tail(@)])
      <4>1. CASE OnError(c)
        BY <4>1 DEF OnError, Receive
      <4>2. CASE OnExit(c)
        BY <4>2 DEF OnExit
      <4>3. QED
        BY <1>13, <4>1, <4>2
    <3>4. CASE pipe' = pipe
      BY <2>2, <2>4, <3>2, <3>4, <1>b, <1>c, ChannelFrame
    <3>5. CASE pipe[c] # <<>> /\ pipe' = [pipe EXCEPT ![c] = Tail(@)]
      BY <2>2, <2>4, <3>2, <3>5, <1>b, <1>c, ChannelTail DEF TypeOK
    <3>6. QED
      BY <3>3, <3>4, <3>5
  <2>5. CASE d # c
    <3>1. pipe'[d] = pipe[d] /\ loan'[d] = loan[d] /\ proc'[d] = proc[d]
      BY <1>13, <2>1, <2>5 DEF OnError, OnExit, Receive, FailUndone, Signal, TypeOK
    <3>2. QED
      BY <2>2, <3>1, <1>b, <1>c, ChannelFrame
  <2>6. QED
    BY <2>3, <2>4, <2>5
<1>14. ASSUME NEW c \in Children, Fork(c) PROVE Channel(d)'
  <2>1. CASE d = c
    <3>1. /\ script'[c] = NoRun /\ strays'[c] = {} /\ pipe'[c] = <<>>
          /\ proc'[c] = "up"
      BY <1>14 DEF Fork, Resting, TypeOK
    <3>2. QED
      BY <2>1, <3>1 DEF Channel
  <2>2. CASE d # c
    <3>1. (d \in idle' <=> d \in idle) /\ proc'[d] = proc[d] /\ pipe'[d] = pipe[d]
          /\ UNCHANGED <<script, strays, loan>>
      BY <1>14, <2>2 DEF Fork, TypeOK
    <3>2. QED
      BY <3>1, <1>b, <1>c, ChannelFrame
  <2>3. QED
    BY <2>1, <2>2
<1>15. ASSUME NEW c \in Children, DropInvalid(c) PROVE Channel(d)'
  BY <1>15, <1>b, <1>c, ChannelFrame DEF DropInvalid
<1>16. ASSUME NEW c \in Children, Evict(c) PROVE Channel(d)'
  <2>1. /\ idle' = idle \ {c} /\ loan' = loan /\ Same
        /\ (d # c => proc'[d] = proc[d])
    BY <1>16 DEF Evict, Signal, TypeOK
  <2>2. CASE d = c
    BY <1>16, <2>1, <2>2, <1>d DEF Channel, Evict
  <2>3. CASE d # c
    BY <2>1, <2>3, <1>b, <1>c, ChannelFrame
  <2>4. QED
    BY <2>2, <2>3
<1>17. ASSUME NEW c \in Children, Disconnect(c) PROVE Channel(d)'
  <2>1. UNCHANGED <<script, strays, pipe, idle, loan>> /\ (proc'[d] = proc[d] \/ proc'[d] = "closed")
    BY <1>17 DEF Disconnect, TypeOK
  <2>2. QED
    BY <2>1, <1>b, <1>c, ChannelFrame
<1>18. CASE UNCHANGED vars
  BY <1>18, <1>b, <1>c, ChannelFrame DEF vars
<1>19. QED
  BY <1>1, <1>2, <1>3, <1>4, <1>5, <1>6, <1>7, <1>8, <1>9, <1>10, <1>11, <1>12, <1>13,
     <1>14, <1>15, <1>16, <1>17, <1>18
     DEF Next, RunStep, ChildStep, Listen, PoolStep

\* While no run has left through the catch block, the channel of every child that
\* the pool may lend, or has lent, is in order.
Streams == Resting /\ (leaked = {} => \A c \in Children : Channel(c))

LEMMA StreamsStep ==
  ASSUME TypeOK, OwnChild, Streams, [Next]_vars
  PROVE  Streams'
<1>1. Resting'
  BY RestingStep DEF Streams
<1>2. ASSUME leaked' = {}, NEW d \in Children PROVE Channel(d)'
  <2>1. leaked = {}
    BY <1>2, Monotone
  <2>2. QED
    BY <1>2, <2>1, ChannelStep DEF Streams
<1>3. QED
  BY <1>1, <1>2 DEF Streams

\* A message meets the handler of another run only if its own run is over.
LEMMA CrossedReceive ==
  ASSUME TypeOK, Owned, NEW c \in Children, Channel(c), NEW kind, Receive(c, kind)
  PROVE  \A p \in crossed' : p \in crossed \/ (p[1] \in Runs /\ Over(p[1]))
<1> DEFINE m == Head(pipe[c]).run
<1> SUFFICES ASSUME NEW p \in crossed', p \notin crossed
             PROVE  p[1] \in Runs /\ Over(p[1])
  OBVIOUS
<1>1. PICK r \in Undone(c) \ {m} : p = <<m, r>>
  BY DEF Receive
<1>2. OnLoan(c) /\ r = loan[c]
  BY <1>1, UndoneIsLoan
<1>3. pipe[c] \in Seq(Message) /\ pipe[c] # <<>>
  BY DEF Receive, TypeOK
<1>4. 1 \in 1 .. Len(pipe[c]) /\ m = pipe[c][1].run /\ pipe[c][1] \in Message
  BY <1>3
<1>5. m \in Runs
  BY <1>4 DEF Message
<1>6. m = loan[c] \/ Over(m)
  BY <1>2, <1>4 DEF Channel, OnLoan
<1>7. QED
  BY <1>1, <1>2, <1>5, <1>6

LEMMA CrossedStep ==
  ASSUME TypeOK, OwnChild, Streams, CrossedOnlyByStray, [Next]_vars
  PROVE  CrossedOnlyByStray'
<1> USE DEF runVars, poolVars, procVars, ghosts
<1> SUFFICES ASSUME leaked' = {}, NEW p \in crossed'
             PROVE  p[1] \in returned' /\ isDone'[p[1]]
  BY DEF CrossedOnlyByStray
<1>1. /\ leaked = {} /\ returned \subseteq returned'
      /\ \A r \in Runs : isDone[r] => isDone'[r]
  BY Monotone
<1>2. /\ Owned /\ \A c \in Children : Channel(c)
      /\ \A q \in crossed : q[1] \in Runs /\ Over(q[1])
  BY <1>1 DEF OwnChild, Streams, CrossedOnlyByStray, TypeOK, Over
<1>3. \/ crossed' = crossed
      \/ \E c \in Children, kind \in Kinds : Receive(c, kind)
  BY DEF Next, RunStep, ChildStep, Listen, PoolStep, vars, Acquire, Timeout, Start,
         StartOnDead, StartFails, Call, Uncaught, Return, Throw, Crash, Exit, Dies,
         Disconnect, OnCall, OnThrow, OnDone, OnError, OnExit, Fork, DropInvalid, Evict, Kinds
<1>4. p \in crossed \/ (p[1] \in Runs /\ Over(p[1]))
  BY <1>2, <1>3, CrossedReceive
<1>5. QED
  BY <1>1, <1>2, <1>4 DEF Over

\* While no run has left through the catch block, a message of one run is
\* handled for another run (setupChildProcessListeners) only when its script has
\* returned, its run is settled, and it left work behind in the child.
THEOREM CrossedByStrays == Spec => []CrossedOnlyByStray
<1>1. Init => Streams /\ CrossedOnlyByStray
  BY DEF Init, Streams, Resting, Channel, CrossedOnlyByStray
<1>2. TypeOK /\ Waiters /\ OwnChild /\ Streams /\ CrossedOnlyByStray /\ [Next]_vars
        => (TypeOK /\ Waiters /\ OwnChild /\ Streams /\ CrossedOnlyByStray)'
  BY TypeStep, OwnStep, StreamsStep, CrossedStep
<1>3. QED
  BY <1>1, <1>2, OwnInit, PTL DEF Spec

-----------------------------------------------------------------------------
\* What LoanEndsSettled asks of the step that ends the loan of a child.
Ended(c) ==
  /\ isDone'[loan[c]] /\ outcome'[loan[c]] # "none" /\ ~timer'[loan[c]]
  /\ listeners'[c] = {}
  /\ c \in idle' => proc'[c] # "killed"

\* Closing and settling the run of a child, and taking its handlers off it.
LEMMA EndsByClose ==
  ASSUME TypeOK, NEW c \in Children, loan[c] \in Runs, NEW rs, loan[c] \in rs,
         NEW how \in {"resolved", "rejected"}, Close(rs), Settle(rs, how),
         listeners' = [listeners EXCEPT ![c] = {}],
         c \in idle' => proc'[c] # "killed"
  PROVE  Ended(c)
<1>1. isDone'[loan[c]] /\ ~timer'[loan[c]]
  BY DEF Close, TypeOK
<1>2. outcome'[loan[c]] # "none"
  BY SettleFacts
<1>3. listeners'[c] = {}
  BY DEF TypeOK
<1>4. QED
  BY <1>1, <1>2, <1>3 DEF Ended

LEMMA LoanStep ==
  ASSUME TypeOK, OwnChild, Streams, leaked = {}, [Next]_vars,
         NEW d \in Children, OnLoan(d), loan'[d] # loan[d]
  PROVE  Ended(d)
<1> USE DEF runVars, poolVars, procVars, ghosts
<1>a. Owned /\ Channel(d)
  BY DEF OwnChild, Streams
<1>b. loan[d] \in Runs /\ Undone(d) = {loan[d]} /\ d \notin idle
  BY <1>a, UndoneIsLoan DEF OnLoan, TypeOK, Owned
<1>1. ASSUME NEW r \in Runs, Timeout(r) PROVE Ended(d)
  <2> DEFINE c == child[r]
  <2>1. Running(r) /\ ~isDone[r] /\ loan[c] = r /\ c \in Children
    BY <1>1, <1>a DEF Timeout, Owned, Running
  <2>2. /\ Close({r}) /\ Settle({r}, "rejected") /\ idle' = idle
        /\ listeners' = [listeners EXCEPT ![c] = {}] /\ loan' = [loan EXCEPT ![c] = NoRun]
    BY <1>1, <2>1 DEF Timeout
  <2>3. d = c
    BY <2>2 DEF TypeOK
  <2>4. QED
    BY <2>1, <2>2, <2>3, <1>b, EndsByClose
<1>2. ASSUME NEW r \in Runs, NEW c \in Children, Start(r, c) PROVE FALSE
  BY <1>2, <1>b DEF Start, Engage, TypeOK
<1>3. ASSUME NEW c \in Children, OnDone(c) PROVE Ended(d)
  <2>1. d = c
    BY <1>3 DEF OnDone, TypeOK
  <2>2. Close(Undone(d)) /\ listeners' = [listeners EXCEPT ![d] = {}] /\ proc' = proc
    BY <1>3, <2>1, <1>b DEF OnDone
  <2>3. Settle(Undone(d), "resolved")
    BY <1>3, <2>1, <1>a, <1>b, DoneSettles
  <2>4. proc'[d] # "killed"
    BY <2>2, <1>a DEF Channel, OnLoan
  <2>5. QED
    BY <2>2, <2>3, <2>4, <1>b, EndsByClose
<1>4. ASSUME NEW c \in Children, OnError(c) \/ OnExit(c) PROVE Ended(d)
  <2>1. FailUndone(c)
    BY <1>4 DEF OnError, OnExit
  <2>2. d = c
    BY <2>1 DEF FailUndone, TypeOK
  <2>3. /\ Close(Undone(d)) /\ Settle(Undone(d), "rejected") /\ idle' = idle
        /\ listeners' = [listeners EXCEPT ![d] = {}]
    BY <2>1, <2>2, <1>b DEF FailUndone
  <2>4. QED
    BY <2>3, <1>b, EndsByClose
<1>5. CASE UNCHANGED loan
  BY <1>5
<1>6. QED
  BY <1>1, <1>2, <1>3, <1>4, <1>5
     DEF Next, RunStep, ChildStep, Listen, PoolStep, vars, Acquire, StartOnDead, StartFails,
         Call, Uncaught, Return, Throw, Crash, Exit, Dies, Disconnect, OnCall, OnThrow, Fork,
         DropInvalid, Evict

\* The step that takes a child from a run settles the run, disarms its timer and
\* removes its handlers; a child that was killed does not go back to the pool
\* (the timer, "done", "error" and exit of ChildProcessManager).
THEOREM LoansEndSettled == Spec => LoanEndsSettled
<1>1. Init => Streams
  BY DEF Init, Streams, Resting, Channel
<1>2. TypeOK /\ Waiters /\ OwnChild /\ Streams /\ [Next]_vars
        => (TypeOK /\ Waiters /\ OwnChild /\ Streams)'
  BY TypeStep, OwnStep, StreamsStep
<1> DEFINE Settles == leaked = {} => \A c \in Children :
       OnLoan(c) /\ loan'[c] # loan[c] =>
         /\ isDone'[loan[c]] /\ outcome'[loan[c]] # "none" /\ ~timer'[loan[c]]
         /\ listeners'[c] = {}
         /\ c \in idle' => proc'[c] # "killed"
<1>3. TypeOK /\ OwnChild /\ Streams /\ [Next]_vars => Settles
  BY LoanStep DEF Ended
<1>4. QED
  BY <1>1, <1>2, <1>3, OwnInit, PTL DEF Spec, LoanEndsSettled

-----------------------------------------------------------------------------
(* The start of the servers                                                 *)

Providing == {"metadata", "records", "mark"}
Provided(k) ==
  \A n \in 1 .. k :
    records[Defaults[n]] = 1 /\ (Linking(Defaults[n]) => Default[Defaults[n]].methods \subseteq refs[Defaults[n]])

\* At a default record: the records of earlier tables have been found.
AtDefault(i) ==
  /\ at[i] \in 0 .. Len(Defaults) /\ Provided(at[i])
  /\ at[i] < Len(Defaults) =>
       /\ step[i] \in {"resolve", "find", "insert", "unlink", "link"}
       /\ step[i] # "resolve" => EarlierTables(at[i] + 1) \subseteq known[i]
       /\ step[i] = "insert" => records[Current(i)] = 0
       /\ step[i] \in {"unlink", "link"} => records[Current(i)] = 1 /\ Linking(Current(i))

BootTypes ==
  /\ DOMAIN phase = Instances /\ DOMAIN step = Instances /\ DOMAIN known = Instances
  /\ at \in [Instances -> Nat]
  /\ records \in [DOMAIN Default -> Nat] /\ DOMAIN refs = DOMAIN Default
  /\ failures \in Nat

\* Unless servers initialise together one at most provides, and none once isInit
\* is set; unless a query failed, what it has behind it is there, once.
Alone ==
  /\ \A i, j \in Instances : phase[i] \in Providing /\ phase[j] \in Providing => i = j
  /\ initialised => \A i \in Instances : phase[i] \notin Providing
Written ==
  /\ \A r \in ToSet(Defaults) : records[r] \in {0, 1}
  /\ \A i \in Instances : phase[i] = "records" => AtDefault(i)
  /\ (initialised \/ \E i \in Instances : phase[i] = "mark") => Provided(Len(Defaults))
ProvisionInv ==
  BootTypes /\ ("shared" \notin history => Alone /\ (failures = 0 => Written))

\* The database script. A statement of the process i leaves the others where they
\* are, and i in the script, at its start or behind it.
Elsewhere(i) ==
  /\ \A j \in Instances \ {i} : phase'[j] = phase[j] /\ at'[j] = at[j] /\ step'[j] = step[j]
  /\ DOMAIN phase' = Instances /\ DOMAIN step' = Instances /\ at' \in [Instances -> Nat]
Scripted(i) == Elsewhere(i) /\ phase'[i] \in {"start", "script", "connect"}
Sound(i) ==
  /\ Scripted(i)
  /\ UNCHANGED <<deployment, initialised>> /\ history \subseteq history'

LEMMA AdvanceScripted ==
  ASSUME BootTypes, NEW i \in Instances, phase[i] = "script", Advance(i)
  PROVE  Scripted(i)
BY DEF BootTypes, Advance, Scripted, Elsewhere

LEMMA ThenScripted ==
  ASSUME BootTypes, NEW i \in Instances, phase[i] = "script", NEW s, Then(i, s)
  PROVE  Scripted(i)
BY DEF BootTypes, Then, Scripted, Elsewhere

LEMMA StepScripted ==
  ASSUME BootTypes, NEW i \in Instances, phase[i] = "script", NEW s, step' = [step EXCEPT ![i] = s],
         UNCHANGED <<phase, at>>
  PROVE  Scripted(i)
BY DEF BootTypes, Scripted, Elsewhere

LEMMA StaysScripted ==
  ASSUME BootTypes, NEW i \in Instances, phase[i] = "script", UNCHANGED <<phase, at, step>>
  PROVE  Scripted(i)
BY DEF BootTypes, Scripted, Elsewhere

LEMMA RestartSound ==
  ASSUME BootTypes, NEW i \in Instances, Restart(i)
  PROVE  Sound(i) /\ phase'[i] = "start"
BY DEF BootTypes, Restart, Sound, Scripted, Elsewhere

\* Each statement of the script.
LEMMA ScriptSound ==
  ASSUME BootTypes, NEW i \in Instances, InitStep(i)
  PROVE  Sound(i)
<1>1. CASE Launch(i)
  BY <1>1 DEF BootTypes, Launch, position, Sound, Scripted, Elsewhere
<1>2. CASE Finish(i)
  BY <1>2 DEF BootTypes, Finish, position, world, Sound, Scripted, Elsewhere
<1>3. CASE Look(i) \/ DropTable(i) \/ DropKey(i) \/ CreateIndexes(i) \/ AddForeignKey(i) \/ SyncIndexes(i) \/ RenameField(i) \/ UnsetField(i) \/ FindKey(i)
  <2>1. phase[i] = "script"
    BY <1>3 DEF Look, DropTable, DropKey, CreateIndexes, AddForeignKey, SyncIndexes, RenameField, UnsetField, FindKey, AtStatement
  <2>2. Advance(i) \/ \E s : Then(i, s)
    BY <1>3, Zenon DEF Look, DropTable, DropKey, CreateIndexes, AddForeignKey, SyncIndexes, RenameField, UnsetField, FindKey
  <2>3. UNCHANGED <<deployment, initialised, history>>
    BY <1>3 DEF Look, DropTable, DropKey, CreateIndexes, AddForeignKey, SyncIndexes, RenameField, UnsetField, FindKey, world
  <2>. QED BY <2>1, <2>2, <2>3, AdvanceScripted, ThenScripted DEF Sound
<1>4. CASE Rename(i) \/ DropColumn(i) \/ CreateTable(i) \/ CreateJunction(i)
  <2>1. phase[i] = "script"
    BY <1>4 DEF Rename, DropColumn, CreateTable, CreateJunction, AtStatement
  <2>2. Restart(i) \/ (Advance(i) /\ UNCHANGED <<deployment, initialised, history>>)
    BY <1>4 DEF Rename, DropColumn, CreateTable, CreateJunction, Require
  <2>. QED BY <2>1, <2>2, AdvanceScripted, RestartSound DEF Sound
<1>5. CASE CreateLinks(i) \/ CreateCollection(i) \/ AddColumns(i) \/ AddKeyColumn(i) \/ DropOldKey(i) \/ AddNewKey(i)
  <2>1. phase[i] = "script"
    BY <1>5 DEF CreateLinks, CreateCollection, AddColumns, AddKeyColumn, DropOldKey, AddNewKey, AtStatement
  <2>2. Restart(i) \/ ((\E s : Then(i, s)) /\ UNCHANGED <<deployment, initialised, history>>)
    BY <1>5 DEF CreateLinks, CreateCollection, AddColumns, AddKeyColumn, DropOldKey, AddNewKey, Require, world
  <2>. QED BY <2>1, <2>2, ThenScripted, RestartSound DEF Sound
<1>6. CASE EnumMap(i) \/ CreateType(i) \/ EnumType(i)
  <2>1. phase[i] = "script" /\ (Restart(i) \/ ((\E s : Then(i, s)) /\ UNCHANGED <<deployment, initialised, history>>))
    BY <1>6 DEF EnumMap, CreateType, EnumType, EnumStep, AtStatement, Require
  <2>. QED BY <2>1, ThenScripted, RestartSound DEF Sound
<1>7. CASE ReadLinks(i) \/ EnumText(i) \/ AddKey(i) \/ ReadActions(i) \/ RecordAction(i)
  <2>1. phase[i] = "script"
    BY <1>7 DEF ReadLinks, EnumText, AddKey, ReadActions, RecordAction, AtStatement
  <2>2. \/ Restart(i)
        \/ (\E s : step' = [step EXCEPT ![i] = s]) /\ UNCHANGED <<phase, at, deployment, initialised, history>>
    BY <1>7 DEF ReadLinks, EnumText, AddKey, ReadActions, RecordAction, Require, world
  <2>. QED BY <2>1, <2>2, StepScripted, RestartSound DEF Sound
<1>8. CASE CopyLink(i) \/ ConvertLink(i)
  <2>1. phase[i] = "script" /\ UNCHANGED <<deployment, initialised, history>>
    BY <1>8 DEF CopyLink, ConvertLink, AtStatement
  <2>2. Advance(i) \/ UNCHANGED <<phase, at, step>>
    BY <1>8 DEF CopyLink, ConvertLink
  <2>. QED BY <2>1, <2>2, AdvanceScripted, StaysScripted DEF Sound
<1>9. CASE DropType(i)
  <2>1. phase[i] = "script" /\ Then(i, "createType") /\ UNCHANGED <<deployment, initialised>> /\ history \subseteq history'
    BY <1>9 DEF DropType, AtStatement
  <2>. QED BY <2>1, ThenScripted DEF Sound
<1>10. CASE ChangeColumn(i)
  <2>1. phase[i] = "script"
    BY <1>10 DEF ChangeColumn, AtStatement
  <2>2. \/ Restart(i)
        \/ /\ (\E s : Then(i, s)) \/ UNCHANGED <<phase, at, step>>
           /\ UNCHANGED <<deployment, initialised, history>>
    BY <1>10 DEF ChangeColumn, Require, world
  <2>. QED BY <2>1, <2>2, ThenScripted, StaysScripted, RestartSound DEF Sound
<1>11. CASE ReadSchema(i)
  <2>1. phase[i] = "script"
    BY <1>11 DEF ReadSchema, AtStatement
  <2>2. /\ Advance(i) \/ ((\E s : step' = [step EXCEPT ![i] = s]) /\ UNCHANGED <<phase, at>>)
        /\ UNCHANGED <<deployment, initialised, history>>
    BY <1>11 DEF ReadSchema, world
  <2>. QED BY <2>1, <2>2, AdvanceScripted, StepScripted DEF Sound
<1>. QED BY <1>1, <1>2, <1>3, <1>4, <1>5, <1>6, <1>7, <1>8, <1>9, <1>10, <1>11 DEF InitStep

\* A query whose failure is passed over.
LEMMA SwallowSound ==
  ASSUME BootTypes, NEW i \in Instances, Swallow(i)
  PROVE  Sound(i)
<1>1. phase[i] = "script" /\ (Advance(i) \/ \E s : Then(i, s))
  BY Zenon DEF Swallow
<1>2. UNCHANGED <<deployment, initialised>> /\ history \subseteq history'
  BY DEF Swallow
<1>. QED BY <1>1, <1>2, AdvanceScripted, ThenScripted DEF Sound


\* Steps beside the records: nothing is written, but links may be added.
Beside(i) ==
  /\ Elsewhere(i) /\ DOMAIN known' = Instances /\ \A j \in Instances \ {i} : known'[j] = known[j]
  /\ UNCHANGED <<deployment, initialised, records, failures>> /\ history \subseteq history'
  /\ DOMAIN refs' = DOMAIN Default /\ \A r \in DOMAIN Default : refs[r] \subseteq refs'[r]
  /\ phase'[i] \in Providing =>
       /\ phase[i] = "metadata"
       /\ phase'[i] = "metadata" \/ (phase'[i] = "records" /\ at'[i] = 0 /\ step'[i] = "resolve")

LEMMA AtDefaults ==
  ASSUME NEW k \in 1 .. Len(Defaults)
  PROVE  k \in DOMAIN Defaults /\ Defaults[k] \in DOMAIN Default /\ Defaults[k] \in ToSet(Defaults)
<1>1. Defaults \in Seq(DOMAIN Default)
  BY DefaultsAssumption
<1>. QED BY <1>1 DEF ToSet

LEMMA ProvidedStays ==
  ASSUME NEW k \in Nat, Provided(k), UNCHANGED deployment,
         \A n \in 1 .. k : records'[Defaults[n]] = records[Defaults[n]] /\ refs[Defaults[n]] \subseteq refs'[Defaults[n]]
  PROVE  Provided(k)'
BY DEF Provided, Linking, Sql

LEMMA AtDefaultStays ==
  ASSUME NEW i, AtDefault(i), at'[i] = at[i], step'[i] = step[i], known'[i] = known[i],
         UNCHANGED <<deployment, records>>, \A r \in DOMAIN Default : refs[r] \subseteq refs'[r]
  PROVE  AtDefault(i)'
<1>. DEFINE k == at[i]
<1>1. k \in 0 .. Len(Defaults) /\ Provided(k) /\ Len(Defaults) \in Nat
  BY DefaultsAssumption DEF AtDefault
<1>2. \A n \in 1 .. k : refs[Defaults[n]] \subseteq refs'[Defaults[n]]
  <2>. SUFFICES ASSUME NEW n \in 1 .. k PROVE refs[Defaults[n]] \subseteq refs'[Defaults[n]]
    OBVIOUS
  <2>1. n \in 1 .. Len(Defaults)
    BY <1>1
  <2>. QED BY <2>1, AtDefaults
<1>3. \A n \in 1 .. at'[i] :
         records'[Defaults[n]] = 1 /\ (Linking(Defaults[n])' => Default[Defaults[n]].methods \subseteq refs'[Defaults[n]])
  BY <1>1, <1>2 DEF Provided, Linking, Sql
<1>. DEFINE r == Defaults[k + 1]
<1>4. ASSUME at'[i] < Len(Defaults)
      PROVE  /\ step'[i] \in {"resolve", "find", "insert", "unlink", "link"}
             /\ step'[i] # "resolve" => EarlierTables(at'[i] + 1) \subseteq known'[i]
             /\ step'[i] = "insert" => records'[Defaults[at'[i] + 1]] = 0
             /\ step'[i] \in {"unlink", "link"} => records'[Defaults[at'[i] + 1]] = 1 /\ Linking(Defaults[at[i] + 1])'
  <2>1. at[i] < Len(Defaults) /\ Defaults[at'[i] + 1] = r
    BY <1>4
  <2>2. /\ step[i] \in {"resolve", "find", "insert", "unlink", "link"}
        /\ step[i] # "resolve" => EarlierTables(k + 1) \subseteq known[i]
        /\ step[i] = "insert" => records[r] = 0
        /\ step[i] \in {"unlink", "link"} => records[r] = 1 /\ Linking(r)
    BY <2>1 DEF AtDefault, Current
  <2>3. Linking(Defaults[at[i] + 1])' <=> Linking(r)
    BY DEF Linking, Sql
  <2>. QED BY <2>2, <2>3
<1>5. at'[i] \in 0 .. Len(Defaults)
  BY <1>1
<1>. QED BY <1>3, <1>4, <1>5 DEF AtDefault, Provided, Current, Linking

LEMMA BesideKeeps ==
  ASSUME ProvisionInv, NEW i \in Instances, Beside(i)
  PROVE  ProvisionInv'
<1>1. BootTypes'
  BY DEF ProvisionInv, BootTypes, Beside, Elsewhere
<1>2. SUFFICES ASSUME "shared" \notin history' PROVE Alone' /\ (failures' = 0 => Written')
  BY <1>1 DEF ProvisionInv
<1>3. Alone /\ (failures = 0 => Written)
  BY <1>2 DEF ProvisionInv, Beside
<1>4. \A j \in Instances \ {i} : phase'[j] = phase[j] /\ at'[j] = at[j] /\ step'[j] = step[j] /\ known'[j] = known[j]
  BY DEF Beside, Elsewhere
<1>5. \A j \in Instances : phase'[j] \in Providing => phase[j] \in Providing
  BY <1>4 DEF Beside, Providing
<1>6. Alone'
  <2>1. \A a, b \in Instances : phase'[a] \in Providing /\ phase'[b] \in Providing => a = b
    BY <1>3, <1>5 DEF Alone
  <2>2. initialised' => \A a \in Instances : phase'[a] \notin Providing
    BY <1>3, <1>5 DEF Alone, Beside
  <2>. QED BY <2>1, <2>2 DEF Alone
<1>7. ASSUME failures' = 0 PROVE Written'
  <2>1. Written /\ records' = records
    BY <1>3, <1>7 DEF Beside
  <2>2. \A r \in ToSet(Defaults) : records'[r] \in {0, 1}
    BY <2>1 DEF Written
  <2>3. ASSUME NEW j \in Instances, phase'[j] = "records" PROVE AtDefault(j)'
    <3>1. CASE j # i
      <4>1. AtDefault(j)
        BY <1>4, <2>1, <2>3, <3>1 DEF Written
      <4>. QED BY <1>4, <3>1, <4>1, AtDefaultStays DEF Beside
    <3>2. CASE j = i
      <4>1. at'[j] = 0 /\ step'[j] = "resolve" /\ Len(Defaults) \in Nat
        BY <2>3, <3>2, DefaultsAssumption DEF Beside, Providing
      <4>. QED BY <4>1 DEF AtDefault, Provided
    <3>. QED BY <3>1, <3>2
  <2>4. ASSUME initialised' \/ \E j \in Instances : phase'[j] = "mark" PROVE Provided(Len(Defaults))'
    <3>1. initialised \/ \E j \in Instances : phase[j] = "mark"
      BY <1>4, <2>4 DEF Beside, Providing
    <3>2. Provided(Len(Defaults)) /\ Len(Defaults) \in Nat /\ UNCHANGED <<deployment, records>>
      BY <2>1, <3>1, DefaultsAssumption DEF Written, Beside
    <3>3. \A n \in 1 .. Len(Defaults) : refs[Defaults[n]] \subseteq refs'[Defaults[n]]
      BY AtDefaults DEF Beside
    <3>. QED BY <3>2, <3>3, ProvidedStays
  <2>. QED BY <2>2, <2>3, <2>4 DEF Written
<1>. QED BY <1>6, <1>7


\* A step of the one that writes the default records.
RecordStep(i) ==
  /\ Elsewhere(i) /\ DOMAIN known' = Instances
  /\ phase[i] = "records" /\ phase'[i] = "records"
  /\ UNCHANGED <<deployment, initialised, history>>
  /\ records' \in [DOMAIN Default -> Nat] /\ DOMAIN refs' = DOMAIN Default
Writes(i) == AtDefault(i)' /\ \A r \in ToSet(Defaults) : records'[r] \in {0, 1}

LEMMA RecordKeeps ==
  ASSUME ProvisionInv, NEW i \in Instances, RecordStep(i), failures' \in Nat,
         failures' = 0 => failures = 0 /\ (Written => Writes(i))
  PROVE  ProvisionInv'
<1>1. BootTypes'
  BY DEF ProvisionInv, BootTypes, RecordStep, Elsewhere
<1>2. SUFFICES ASSUME "shared" \notin history' PROVE Alone' /\ (failures' = 0 => Written')
  BY <1>1 DEF ProvisionInv
<1>3. Alone /\ (failures = 0 => Written)
  BY <1>2 DEF ProvisionInv, RecordStep
<1>4. \A j \in Instances : (phase'[j] \in Providing <=> phase[j] \in Providing) /\ (phase'[j] \in Providing => j = i)
  <2>1. \A j \in Instances : phase'[j] \in Providing <=> phase[j] \in Providing
    BY DEF RecordStep, Elsewhere
  <2>2. phase[i] \in Providing
    BY DEF RecordStep, Providing
  <2>. QED BY <1>3, <2>1, <2>2 DEF Alone
<1>5. ~initialised /\ ~initialised'
  BY <1>3 DEF Alone, RecordStep, Providing
<1>6. Alone'
  BY <1>4, <1>5 DEF Alone
<1>7. ASSUME failures' = 0 PROVE Written'
  <2>1. Writes(i)
    BY <1>3, <1>7
  <2>2. \A j \in Instances : phase'[j] \in {"records", "mark"} => j = i
    BY <1>4 DEF Providing
  <2>3. phase'[i] = "records"
    BY DEF RecordStep
  <2>. QED BY <1>5, <2>1, <2>2, <2>3 DEF Written, Writes
<1>. QED BY <1>6, <1>7

\* What holds of the record that comes next.
Behind(i, k) ==
  /\ k = at[i] + 1 /\ k \in 1 .. Len(Defaults) /\ at[i] \in Nat
  /\ Defaults[k] \in DOMAIN Default /\ Defaults[k] \in ToSet(Defaults) /\ Current(i) = Defaults[k]
  /\ \A n \in 1 .. at[i] : Defaults[n] # Defaults[k] /\ records[Defaults[n]] = 1 /\ Defaults[n] \in DOMAIN Default
  /\ \A m \in Default[Defaults[k]].methods : records[m] = 1
  /\ Default[Defaults[k]].kept => Default[Defaults[k]].methods = {}
  /\ Default[Defaults[k]].needed => Default[Defaults[k]].parents \subseteq EarlierTables(k)

LEMMA NextBehind ==
  ASSUME BootTypes, NEW i \in Instances, AtDefault(i), at[i] < Len(Defaults)
  PROVE  Behind(i, at[i] + 1)
<1>. DEFINE k == at[i] + 1
<1>1. at[i] \in Nat /\ Len(Defaults) \in Nat
  BY DefaultsAssumption DEF BootTypes
<1>2. k \in 1 .. Len(Defaults) /\ k - 1 = at[i]
  BY <1>1
<1>3. k \in DOMAIN Defaults /\ Defaults[k] \in DOMAIN Default /\ Defaults[k] \in ToSet(Defaults)
  BY <1>2, AtDefaults
<1>4. /\ Defaults[k] \notin Earlier(k) /\ Default[Defaults[k]].methods \subseteq Earlier(k)
      /\ Default[Defaults[k]].kept => Default[Defaults[k]].methods = {}
      /\ Default[Defaults[k]].needed => Default[Defaults[k]].parents \subseteq EarlierTables(k)
  BY <1>3, OrderOfDefaults
<1>5. \A n \in 1 .. at[i] : Defaults[n] \in Earlier(k) /\ records[Defaults[n]] = 1 /\ Defaults[n] \in DOMAIN Default
  <2>. SUFFICES ASSUME NEW n \in 1 .. at[i] PROVE Defaults[n] \in Earlier(k) /\ records[Defaults[n]] = 1 /\ Defaults[n] \in DOMAIN Default
    OBVIOUS
  <2>1. n \in 1 .. Len(Defaults) /\ n \in 1 .. k - 1
    BY <1>1, <1>2
  <2>2. Defaults[n] \in DOMAIN Default
    BY <2>1, AtDefaults
  <2>. QED BY <2>1, <2>2 DEF Earlier, AtDefault, Provided
<1>6. \A m \in Earlier(k) : records[m] = 1
  BY <1>2, <1>5 DEF Earlier
<1>. QED BY <1>1, <1>2, <1>3, <1>4, <1>5, <1>6 DEF Behind, Current

\* It is done with a record that is there, with its links.
LEMMA NextKeeps ==
  ASSUME BootTypes, NEW i \in Instances, AtDefault(i), at[i] < Len(Defaults), step[i] # "resolve",
         NextRecord(i), UNCHANGED deployment, known'[i] = known[i],
         \A n \in 1 .. at[i] : records'[Defaults[n]] = records[Defaults[n]] /\ refs[Defaults[n]] \subseteq refs'[Defaults[n]],
         records'[Current(i)] = 1, Linking(Current(i)) => Default[Current(i)].methods \subseteq refs'[Current(i)]
  PROVE  AtDefault(i)'
<1>. DEFINE k == at[i] + 1
<1>1. Behind(i, k)
  BY NextBehind
<1>2. at'[i] = k /\ k \in 1 .. Len(Defaults) /\ at[i] \in Nat /\ Len(Defaults) \in Nat /\ at'[i] \in 0 .. Len(Defaults)
  BY <1>1, DefaultsAssumption DEF Behind, NextRecord, BootTypes
<1>3. Provided(at[i])
  BY DEF AtDefault
<1>4. \A n \in 1 .. at'[i] :
         records'[Defaults[n]] = 1 /\ (Linking(Defaults[n])' => Default[Defaults[n]].methods \subseteq refs'[Defaults[n]])
  <2>. SUFFICES ASSUME NEW n \in 1 .. k
                PROVE  records'[Defaults[n]] = 1 /\ (Linking(Defaults[n])' => Default[Defaults[n]].methods \subseteq refs'[Defaults[n]])
    BY <1>2
  <2>1. CASE n = k
    <3>1. Defaults[n] = Current(i)
      BY <2>1 DEF Current
    <3>. QED BY <3>1 DEF Linking, Sql
  <2>2. CASE n # k
    <3>1. n \in 1 .. at[i]
      BY <1>2, <2>2
    <3>. QED BY <1>3, <3>1 DEF Provided, Linking, Sql
  <2>. QED BY <2>1, <2>2
<1>5. ASSUME at'[i] < Len(Defaults)
      PROVE  step'[i] = "resolve" \/ (step'[i] = "find" /\ EarlierTables(at'[i] + 1) \subseteq known'[i])
  <2>1. step'[i] = IF at[i] + 1 < Len(Defaults) /\ FirstOfTable(at[i] + 2) THEN "resolve" ELSE "find"
    BY DEF NextRecord, BootTypes
  <2>2. CASE FirstOfTable(at[i] + 2)
    BY <1>2, <1>5, <2>1, <2>2
  <2>3. CASE ~FirstOfTable(at[i] + 2)
    <3>1. Default[Defaults[k + 1]].table = Default[Defaults[k]].table /\ at[i] + 2 = k + 1
      BY <1>2, <2>3 DEF FirstOfTable
    <3>2. EarlierTables(k) \subseteq known[i]
      BY DEF AtDefault
    <3>3. EarlierTables(k + 1) \subseteq EarlierTables(k)
      <4>. SUFFICES ASSUME NEW r \in EarlierTables(k + 1) PROVE r \in EarlierTables(k)
        OBVIOUS
      <4>1. PICK n \in 1 .. (k + 1) - 1 : r = Defaults[n]
        BY DEF EarlierTables, Earlier
      <4>2. Default[r].table # Default[Defaults[k]].table
        BY <3>1 DEF EarlierTables
      <4>3. n \in 1 .. k - 1
        BY <1>2, <4>1, <4>2
      <4>. QED BY <4>1, <4>2, <4>3 DEF EarlierTables, Earlier
    <3>. QED BY <1>2, <2>1, <2>3, <3>2, <3>3
  <2>. QED BY <2>2, <2>3
<1>. HIDE DEF k
<1>. QED BY <1>2, <1>4, <1>5 DEF AtDefault, Provided


LEMMA NextElsewhere ==
  ASSUME BootTypes, NEW i \in Instances, NextRecord(i)
  PROVE  Elsewhere(i) /\ phase' = phase
BY DEF BootTypes, NextRecord, Elsewhere

LEMMA GotoElsewhere ==
  ASSUME BootTypes, NEW i \in Instances, NEW s, Goto(i, s)
  PROVE  Elsewhere(i) /\ phase' = phase /\ at' = at /\ step'[i] = s
BY DEF BootTypes, Goto, Elsewhere

\* The same record, one statement on.
LEMMA GotoKeeps ==
  ASSUME BootTypes, NEW i \in Instances, AtDefault(i), at[i] < Len(Defaults), NEW s, Goto(i, s),
         UNCHANGED deployment,
         \A n \in 1 .. at[i] : records'[Defaults[n]] = records[Defaults[n]] /\ refs[Defaults[n]] \subseteq refs'[Defaults[n]],
         s \in {"find", "insert", "unlink", "link"}, EarlierTables(at[i] + 1) \subseteq known'[i],
         s = "insert" => records'[Current(i)] = 0,
         s \in {"unlink", "link"} => records'[Current(i)] = 1 /\ Linking(Current(i))
  PROVE  AtDefault(i)'
<1>1. at'[i] = at[i] /\ step'[i] = s /\ at[i] \in 0 .. Len(Defaults) /\ Len(Defaults) \in Nat
  BY GotoElsewhere, DefaultsAssumption DEF AtDefault
<1>2. \A n \in 1 .. at'[i] :
         records'[Defaults[n]] = 1 /\ (Linking(Defaults[n])' => Default[Defaults[n]].methods \subseteq refs'[Defaults[n]])
  BY <1>1 DEF AtDefault, Provided, Linking, Sql
<1>3. /\ step'[i] \in {"resolve", "find", "insert", "unlink", "link"}
      /\ EarlierTables(at'[i] + 1) \subseteq known'[i]
      /\ step'[i] = "insert" => records'[Current(i)'] = 0
      /\ step'[i] \in {"unlink", "link"} => records'[Current(i)'] = 1 /\ Linking(Current(i))'
  BY <1>1 DEF Current, Linking, Sql
<1>. QED BY <1>1, <1>2, <1>3 DEF AtDefault, Provided

LEMMA ResolveKeeps ==
  ASSUME ProvisionInv, NEW i \in Instances, Resolve(i)
  PROVE  ProvisionInv'
<1>1. BootTypes /\ phase[i] = "records" /\ at[i] < Len(Defaults) /\ Goto(i, "find")
  BY DEF ProvisionInv, Resolve, AtRecord, In
<1>2. RecordStep(i) /\ UNCHANGED <<deployment, records, refs, failures>> /\ known'[i] = {r \in DOMAIN records : records[r] > 0}
  BY <1>1, GotoElsewhere DEF Resolve, RecordStep, world, BootTypes
<1>3. ASSUME Written PROVE Writes(i)
  <2>1. AtDefault(i)
    BY <1>1, <1>3 DEF Written
  <2>2. Behind(i, at[i] + 1)
    BY <1>1, <2>1, NextBehind
  <2>3. EarlierTables(at[i] + 1) \subseteq known'[i]
    <3>1. \A r \in Earlier(at[i] + 1) : r \in DOMAIN Default /\ records[r] = 1
      BY <2>2 DEF Behind, Earlier
    <3>. QED BY <1>1, <1>2, <3>1 DEF EarlierTables, BootTypes
  <2>4. AtDefault(i)'
    BY <1>1, <1>2, <2>1, <2>3, GotoKeeps
  <2>. QED BY <1>2, <1>3, <2>4 DEF Writes, Written
<1>. QED BY <1>1, <1>2, <1>3, RecordKeeps DEF BootTypes

LEMMA FindKeeps ==
  ASSUME ProvisionInv, NEW i \in Instances, Find(i)
  PROVE  ProvisionInv'
<1>1. BootTypes /\ phase[i] = "records" /\ step[i] = "find" /\ at[i] < Len(Defaults) /\ UNCHANGED <<deployment, initialised, history, boot>>
  BY DEF ProvisionInv, Find, AtRecord, In, world
<1>2. NextRecord(i) \/ Goto(i, "insert") \/ Goto(i, "unlink")
  BY DEF Find
<1>3. Elsewhere(i) /\ phase' = phase
  BY <1>1, <1>2, NextElsewhere, GotoElsewhere
<1>4. RecordStep(i) /\ UNCHANGED <<records, refs, known, failures>>
  BY <1>1, <1>3 DEF RecordStep, BootTypes, boot
<1>5. ASSUME Written PROVE Writes(i)
  <2>. DEFINE r == Current(i)
  <2>1. AtDefault(i)
    BY <1>1, <1>5 DEF Written
  <2>2. Behind(i, at[i] + 1)
    BY <1>1, <2>1, NextBehind
  <2>3. records[r] \in {0, 1} /\ r = Defaults[at[i] + 1]
    BY <1>5, <2>2 DEF Behind, Written
  <2>4. EarlierTables(at[i] + 1) \subseteq known[i]
    BY <1>1, <2>1 DEF AtDefault
  <2>5. ~LeftOut(i, r)
    BY <2>2, <2>3, <2>4 DEF LeftOut, Behind
  <2>6. CASE Untouched(r)
    <3>1. NextRecord(i) /\ records[r] = 1 /\ (Default[r].kept \/ ~Linking(r))
      BY <2>3, <2>6 DEF Find, Untouched
    <3>2. ~Linking(r)
      BY <2>2, <2>3, <3>1 DEF Linking, Behind
    <3>3. AtDefault(i)'
      BY <1>1, <1>4, <2>1, <3>1, <3>2, NextKeeps
    <3>. QED BY <1>4, <1>5, <3>3 DEF Writes, Written
  <2>7. CASE ~Untouched(r)
    <3>1. Goto(i, IF records[r] = 0 THEN "insert" ELSE "unlink")
      BY <2>5, <2>7 DEF Find
    <3>2. records[r] = 1 => Linking(r)
      BY <2>7 DEF Untouched
    <3>3. AtDefault(i)'
      <4>1. CASE records[r] = 0
        <5>1. Goto(i, "insert")
          BY <3>1, <4>1
        <5>. QED BY <1>1, <1>4, <2>1, <2>4, <4>1, <5>1, GotoKeeps
      <4>2. CASE records[r] = 1
        <5>1. Goto(i, "unlink")
          BY <3>1, <4>2
        <5>. QED BY <1>1, <1>4, <2>1, <2>4, <3>2, <4>2, <5>1, GotoKeeps
      <4>. QED BY <2>3, <4>1, <4>2
    <3>. QED BY <1>4, <1>5, <3>3 DEF Writes, Written
  <2>. QED BY <2>6, <2>7
<1>. QED BY <1>1, <1>4, <1>5, RecordKeeps DEF BootTypes

LEMMA InsertKeeps ==
  ASSUME ProvisionInv, NEW i \in Instances, Insert(i)
  PROVE  ProvisionInv'
<1>. DEFINE r == Current(i)
<1>1. /\ BootTypes /\ phase[i] = "records" /\ step[i] = "insert" /\ at[i] < Len(Defaults)
      /\ UNCHANGED <<deployment, initialised, history, known, failures>>
  BY DEF ProvisionInv, Insert, AtRecord, In, world
<1>2. NextRecord(i) \/ Goto(i, "unlink")
  BY DEF Insert
<1>3. Elsewhere(i) /\ phase' = phase
  BY <1>1, <1>2, NextElsewhere, GotoElsewhere
<1>4. RecordStep(i)
  <2>1. records' \in [DOMAIN Default -> Nat] /\ DOMAIN refs' = DOMAIN Default
    <3>1. records \in [DOMAIN Default -> Nat] /\ DOMAIN refs = DOMAIN Default
      BY <1>1 DEF BootTypes
    <3>2. UNCHANGED <<records, refs>> \/ (records' = [records EXCEPT ![r] = records[r] + 1] /\ \E x : refs' = [refs EXCEPT ![r] = x])
      BY DEF Insert
    <3>. QED BY <3>1, <3>2
  <2>. QED BY <1>1, <1>3, <2>1 DEF RecordStep, BootTypes
<1>5. ASSUME Written PROVE Writes(i)
  <2>1. AtDefault(i)
    BY <1>1, <1>5 DEF Written
  <2>2. Behind(i, at[i] + 1) /\ r = Defaults[at[i] + 1]
    BY <1>1, <2>1, NextBehind DEF Behind
  <2>3. records[r] = 0 /\ EarlierTables(at[i] + 1) \subseteq known[i]
    BY <1>1, <2>1 DEF AtDefault
  <2>4. /\ records' = [records EXCEPT ![r] = 1] /\ (\E x : refs' = [refs EXCEPT ![r] = x])
        /\ IF Linking(r) THEN Goto(i, "unlink") ELSE NextRecord(i)
    BY <2>3 DEF Insert
  <2>5. r \in DOMAIN records /\ \A n \in 1 .. at[i] : Defaults[n] # r /\ Defaults[n] \in DOMAIN Default
    BY <1>1, <2>2 DEF Behind, BootTypes
  <2>6. \A n \in 1 .. at[i] : records'[Defaults[n]] = records[Defaults[n]] /\ refs[Defaults[n]] \subseteq refs'[Defaults[n]]
    BY <1>1, <2>4, <2>5 DEF BootTypes
  <2>7. AtDefault(i)'
    <3>. HIDE DEF r
    <3>1. records'[r] = 1
      BY <2>4, <2>5
    <3>2. CASE Linking(r)
      BY <1>1, <2>1, <2>3, <2>4, <2>6, <3>1, <3>2, GotoKeeps DEF r
    <3>3. CASE ~Linking(r)
      BY <1>1, <2>1, <2>4, <2>6, <3>1, <3>3, NextKeeps DEF r
    <3>. QED BY <3>2, <3>3
  <2>8. \A x \in ToSet(Defaults) : records'[x] \in {0, 1}
    BY <1>1, <1>5, <2>4, <2>5 DEF Written, BootTypes, ToSet
  <2>. QED BY <2>7, <2>8 DEF Writes
<1>. QED BY <1>1, <1>4, <1>5, RecordKeeps DEF BootTypes


LEMMA UnlinkKeeps ==
  ASSUME ProvisionInv, NEW i \in Instances, Unlink(i)
  PROVE  ProvisionInv'
<1>. DEFINE r == Current(i)
<1>1. /\ BootTypes /\ phase[i] = "records" /\ step[i] = "unlink" /\ at[i] < Len(Defaults)
      /\ UNCHANGED <<deployment, initialised, history, records, known, failures>>
  BY DEF ProvisionInv, Unlink, AtRecord, In, world
<1>2. NextRecord(i) \/ Goto(i, "link")
  BY DEF Unlink
<1>3. Elsewhere(i) /\ phase' = phase
  BY <1>1, <1>2, NextElsewhere, GotoElsewhere
<1>4. DOMAIN refs' = DOMAIN Default
  <2>1. refs' = refs \/ refs' = [refs EXCEPT ![r] = refs[r] \ Default[r].methods]
    BY DEF Unlink
  <2>. QED BY <1>1, <2>1 DEF BootTypes
<1>5. RecordStep(i)
  BY <1>1, <1>3, <1>4 DEF RecordStep, BootTypes
<1>6. ASSUME Written PROVE Writes(i)
  <2>1. AtDefault(i)
    BY <1>1, <1>6 DEF Written
  <2>2. Behind(i, at[i] + 1) /\ r = Defaults[at[i] + 1]
    BY <1>1, <2>1, NextBehind DEF Behind
  <2>3. records[r] = 1 /\ Linking(r) /\ EarlierTables(at[i] + 1) \subseteq known[i]
    BY <1>1, <2>1 DEF AtDefault
  <2>4. \E m \in Default[r].methods : records[m] > 0
    BY <2>2, <2>3 DEF Linking, Behind
  <2>5. refs' = [refs EXCEPT ![r] = refs[r] \ Default[r].methods] /\ Goto(i, "link")
    BY <2>4 DEF Unlink
  <2>6. \A n \in 1 .. at[i] : refs[Defaults[n]] \subseteq refs'[Defaults[n]]
    BY <1>1, <2>2, <2>5 DEF Behind, BootTypes
  <2>7. AtDefault(i)'
    <3>. HIDE DEF r
    <3>. QED BY <1>1, <2>1, <2>3, <2>5, <2>6, GotoKeeps DEF r
  <2>. QED BY <1>1, <1>6, <2>7 DEF Writes, Written
<1>. QED BY <1>1, <1>5, <1>6, RecordKeeps DEF BootTypes

LEMMA LinkKeeps ==
  ASSUME ProvisionInv, NEW i \in Instances, Link(i)
  PROVE  ProvisionInv'
<1>. DEFINE r == Current(i)
            old == {m \in Default[r].methods : records[m] > 0}
<1>1. /\ BootTypes /\ phase[i] = "records" /\ step[i] = "link" /\ at[i] < Len(Defaults) /\ NextRecord(i)
      /\ UNCHANGED <<deployment, initialised, history, records, known, failures>>
      /\ refs' = [refs EXCEPT ![r] = refs[r] \cup old]
  BY DEF ProvisionInv, Link, AtRecord, In, world
<1>. HIDE DEF old
<1>2. RecordStep(i)
  BY <1>1, NextElsewhere DEF RecordStep, BootTypes
<1>3. ASSUME Written PROVE Writes(i)
  <2>1. AtDefault(i)
    BY <1>1, <1>3 DEF Written
  <2>2. Behind(i, at[i] + 1) /\ r = Defaults[at[i] + 1]
    BY <1>1, <2>1, NextBehind DEF Behind
  <2>3. records[r] = 1
    BY <1>1, <2>1 DEF AtDefault
  <2>4. Default[r].methods \subseteq old
    BY <2>2 DEF Behind, old
  <2>5. r \in DOMAIN refs
    BY <1>1, <2>2 DEF Behind, BootTypes
  <2>6. Default[r].methods \subseteq refs'[r] /\ \A n \in 1 .. at[i] : refs[Defaults[n]] \subseteq refs'[Defaults[n]]
    BY <1>1, <2>2, <2>4, <2>5 DEF Behind, BootTypes
  <2>7. AtDefault(i)'
    <3>. HIDE DEF r
    <3>. QED BY <1>1, <2>1, <2>3, <2>6, NextKeeps DEF r
  <2>. QED BY <1>1, <1>3, <2>7 DEF Writes, Written
<1>. QED BY <1>1, <1>2, <1>3, RecordKeeps DEF BootTypes

LEMMA SkipKeeps ==
  ASSUME ProvisionInv, NEW i \in Instances, Skip(i)
  PROVE  ProvisionInv'
<1>1. /\ BootTypes /\ phase[i] = "records" /\ failures' = failures + 1 /\ NextRecord(i)
      /\ UNCHANGED <<deployment, initialised, history, records, refs, known>>
  BY DEF ProvisionInv, Skip, AtRecord, In, world
<1>2. RecordStep(i)
  BY <1>1, NextElsewhere DEF RecordStep, BootTypes
<1>3. failures' \in Nat /\ failures' # 0
  BY <1>1 DEF BootTypes
<1>. QED BY <1>2, <1>3, RecordKeeps

LEMMA EnterElsewhere ==
  ASSUME BootTypes, NEW i \in Instances, NEW p, NEW s, Enter(i, p, s)
  PROVE  /\ Elsewhere(i) /\ phase'[i] = p /\ step'[i] = s /\ at'[i] = 0
         /\ DOMAIN known' = Instances /\ \A j \in Instances \ {i} : known'[j] = known[j]
BY DEF BootTypes, Enter, Elsewhere

\* A server begins to provide. Had another begun, they would share the work.
LEMMA ConnectKeeps ==
  ASSUME ProvisionInv, NEW i \in Instances, Connect(i)
  PROVE  ProvisionInv'
<1>1. BootTypes /\ phase[i] = "connect" /\ UNCHANGED <<deployment, initialised, records, refs, failures>> /\ history \subseteq history'
  BY DEF ProvisionInv, Connect
<1>2. CASE initialised
  <2>1. \E s : Enter(i, "migrate", s)
    BY <1>2 DEF Connect
  <2>2. Beside(i)
    BY <1>1, <2>1, EnterElsewhere DEF Beside, Providing, BootTypes
  <2>. QED BY <2>2, BesideKeeps
<1>3. CASE ~initialised
  <2>1. \E s : Enter(i, "metadata", s)
    BY <1>3 DEF Connect
  <2>2. Elsewhere(i) /\ phase'[i] = "metadata" /\ DOMAIN known' = Instances
    BY <1>1, <2>1, EnterElsewhere
  <2>3. BootTypes'
    BY <1>1, <2>2 DEF BootTypes, Elsewhere
  <2>4. ASSUME "shared" \notin history' PROVE Alone' /\ (failures' = 0 => Written')
    <3>1. Alone /\ (failures = 0 => Written)
      BY <1>1, <2>4 DEF ProvisionInv
    <3>2. \A j \in Instances \ {i} : phase[j] \notin Providing /\ phase'[j] = phase[j]
      BY <1>3, <2>2, <2>4 DEF Connect, Providing, Elsewhere
    <3>3. Alone'
      BY <1>1, <1>3, <3>2 DEF Alone
    <3>4. ASSUME failures' = 0 PROVE Written'
      <4>1. Written
        BY <1>1, <3>1, <3>4
      <4>2. \A j \in Instances : phase'[j] # "records" /\ phase'[j] # "mark"
        BY <2>2, <3>2 DEF Providing
      <4>3. ~initialised'
        BY <1>1, <1>3
      <4>. QED BY <1>1, <4>1, <4>2, <4>3 DEF Written
    <3>. QED BY <3>3, <3>4
  <2>. QED BY <2>3, <2>4 DEF ProvisionInv
<1>. QED BY <1>2, <1>3

\* All records are written: the server marks the database.
LEMMA ReadSettingKeeps ==
  ASSUME ProvisionInv, NEW i \in Instances, phase[i] = "records", at[i] = Len(Defaults), Enter(i, "mark", "look"),
         UNCHANGED <<world, crashes, metadata, records, refs, failures>>
  PROVE  ProvisionInv'
<1>1. BootTypes /\ UNCHANGED <<deployment, initialised, records, refs, failures, history>>
  BY DEF ProvisionInv, world
<1>2. Elsewhere(i) /\ phase'[i] = "mark" /\ DOMAIN known' = Instances
  BY <1>1, EnterElsewhere
<1>3. BootTypes'
  BY <1>1, <1>2 DEF BootTypes, Elsewhere
<1>4. ASSUME "shared" \notin history' PROVE Alone' /\ (failures' = 0 => Written')
  <2>1. Alone /\ (failures = 0 => Written)
    BY <1>1, <1>4 DEF ProvisionInv
  <2>2. \A j \in Instances \ {i} : phase[j] \notin Providing /\ phase'[j] = phase[j]
    BY <1>2, <2>1 DEF Alone, Providing, Elsewhere
  <2>3. ~initialised
    BY <2>1 DEF Alone, Providing
  <2>4. Alone'
    BY <1>1, <2>2, <2>3 DEF Alone
  <2>5. ASSUME failures' = 0 PROVE Written'
    <3>1. Written
      BY <1>1, <2>1, <2>5
    <3>2. Provided(Len(Defaults))
      BY <3>1 DEF Written, AtDefault
    <3>3. Provided(Len(Defaults))'
      BY <1>1, <3>2 DEF Provided, Linking, Sql
    <3>4. \A j \in Instances : phase'[j] # "records"
      BY <1>2, <2>2 DEF Providing
    <3>. QED BY <1>1, <3>1, <3>3, <3>4 DEF Written
  <2>. QED BY <2>4, <2>5
<1>. QED BY <1>3, <1>4 DEF ProvisionInv

LEMMA MarkKeeps ==
  ASSUME ProvisionInv, NEW i \in Instances, Mark(i)
  PROVE  ProvisionInv'
<1>1. BootTypes /\ phase[i] = "mark" /\ UNCHANGED <<deployment, records, refs, failures, history>> /\ Enter(i, "serve", "look")
  BY DEF ProvisionInv, Mark
<1>2. Elsewhere(i) /\ phase'[i] = "serve" /\ DOMAIN known' = Instances
  BY <1>1, EnterElsewhere
<1>3. BootTypes'
  BY <1>1, <1>2 DEF BootTypes, Elsewhere
<1>4. ASSUME "shared" \notin history' PROVE Alone' /\ (failures' = 0 => Written')
  <2>1. Alone /\ (failures = 0 => Written)
    BY <1>1, <1>4 DEF ProvisionInv
  <2>2. \A j \in Instances : phase'[j] \notin Providing
    BY <1>1, <1>2, <2>1 DEF Alone, Providing, Elsewhere
  <2>3. Alone'
    BY <2>2 DEF Alone
  <2>4. ASSUME failures' = 0 PROVE Written'
    <3>1. Written
      BY <1>1, <2>1, <2>4
    <3>2. Provided(Len(Defaults))
      BY <1>1, <3>1 DEF Written
    <3>3. Provided(Len(Defaults))'
      BY <1>1, <3>2 DEF Provided, Linking, Sql
    <3>. QED BY <1>1, <2>2, <3>1, <3>3 DEF Written, Providing
  <2>. QED BY <2>3, <2>4
<1>. QED BY <1>3, <1>4 DEF ProvisionInv


LEMMA SoundBeside ==
  ASSUME BootTypes, NEW i \in Instances, Sound(i), UNCHANGED boot
  PROVE  Beside(i)
BY DEF BootTypes, Sound, Scripted, Beside, Providing, boot

LEMMA AbortsBeside ==
  ASSUME BootTypes, NEW i \in Instances, Restart(i), known' = [known EXCEPT ![i] = {}],
         UNCHANGED <<records, refs, failures>>
  PROVE  Beside(i)
BY RestartSound DEF BootTypes, Sound, Scripted, Beside, Providing

\* A statement of provision that moves no phase, or to the records.
LEMMA MetadataBeside ==
  ASSUME BootTypes, NEW i \in Instances, phase[i] = "metadata",
         UNCHANGED <<deployment, initialised, history, records, refs, failures>>,
         \/ (\E s : Goto(i, s)) /\ (UNCHANGED known \/ \E x : known' = [known EXCEPT ![i] = x])
         \/ Enter(i, "records", "resolve")
         \/ (at' = [at EXCEPT ![i] = at[i] + 1] /\ UNCHANGED <<phase, known>> /\ (UNCHANGED step \/ \E s : step' = [step EXCEPT ![i] = s]))
  PROVE  Beside(i)
<1>1. CASE (\E s : Goto(i, s)) /\ (UNCHANGED known \/ \E x : known' = [known EXCEPT ![i] = x])
  BY <1>1, GotoElsewhere DEF BootTypes, Beside, Providing
<1>2. CASE Enter(i, "records", "resolve")
  BY <1>2, EnterElsewhere DEF BootTypes, Beside, Providing
<1>3. CASE at' = [at EXCEPT ![i] = at[i] + 1] /\ UNCHANGED <<phase, known>> /\ (UNCHANGED step \/ \E s : step' = [step EXCEPT ![i] = s])
  BY <1>3 DEF BootTypes, Beside, Providing, Elsewhere
<1>. QED BY <1>1, <1>2, <1>3

LEMMA MetadataSteps ==
  ASSUME BootTypes, NEW i \in Instances,
         ReadMetadata(i) \/ WriteMetadata(i) \/ SyncPhysicalSchema(i) \/ FindMetadata(i) \/ SaveMetadata(i) \/ MetadataSaved(i)
  PROVE  Beside(i)
<1>1. phase[i] = "metadata"
  BY DEF ReadMetadata, WriteMetadata, SyncPhysicalSchema, FindMetadata, SaveMetadata, MetadataSaved, In
<1>2. CASE ReadMetadata(i)
  BY <1>1, <1>2, MetadataBeside DEF ReadMetadata, world
<1>3. CASE WriteMetadata(i)
  <2>1. CASE Aborts(i)
    BY <2>1, AbortsBeside DEF Aborts
  <2>2. CASE ~Aborts(i)
    <3>1. Goto(i, "sync") /\ known' = [known EXCEPT ![i] = {}] /\ UNCHANGED <<deployment, initialised, history, records, refs, failures>>
      BY <1>3, <2>2 DEF WriteMetadata, world
    <3>. QED BY <1>1, <3>1, MetadataBeside
  <2>. QED BY <2>1, <2>2
<1>4. CASE SyncPhysicalSchema(i)
  BY <1>1, <1>4, MetadataBeside DEF SyncPhysicalSchema
<1>5. CASE FindMetadata(i)
  BY <1>1, <1>5, MetadataBeside DEF FindMetadata, world
<1>6. CASE SaveMetadata(i)
  <2>1. /\ at' = [at EXCEPT ![i] = at[i] + 1] /\ step' = [step EXCEPT ![i] = "find"]
        /\ UNCHANGED <<phase, known, deployment, initialised, history, records, refs, failures>>
    BY <1>6 DEF SaveMetadata, world
  <2>. QED BY <1>1, <2>1, MetadataBeside
<1>7. CASE MetadataSaved(i)
  BY <1>1, <1>7, MetadataBeside DEF MetadataSaved, world
<1>. QED BY <1>2, <1>3, <1>4, <1>5, <1>6, <1>7

LEMMA MigrationSteps ==
  ASSUME BootTypes, NEW i \in Instances,
         DropMetadata(i) \/ RenameMetadata(i) \/ RemoveMetadata(i) \/ MigrateData(i)
  PROVE  Beside(i)
<1>1. phase[i] = "migrate" /\ UNCHANGED <<deployment, initialised, history, records, failures>>
  BY DEF DropMetadata, RenameMetadata, RemoveMetadata, MigrateData, In, world
<1>2. CASE MigrateData(i)
  <2>1. DOMAIN refs' = DOMAIN Default /\ \A r \in DOMAIN Default : refs[r] \subseteq refs'[r]
    BY <1>2 DEF MigrateData, BootTypes
  <2>2. Enter(i, "serve", "look")
    BY <1>2 DEF MigrateData
  <2>. QED BY <1>1, <2>1, <2>2, EnterElsewhere DEF Beside, Providing
<1>3. CASE ~MigrateData(i)
  <2>1. (\E s : Goto(i, s)) /\ UNCHANGED <<refs, known>>
    BY <1>3 DEF DropMetadata, RenameMetadata, RemoveMetadata
  <2>. QED BY <1>1, <2>1, GotoElsewhere DEF Beside, Providing, BootTypes
<1>. QED BY <1>2, <1>3

LEMMA TroubleBeside ==
  ASSUME BootTypes, NEW i \in Instances, ((ScriptCrash(i) \/ Swallow(i)) /\ UNCHANGED boot) \/ Kill(i) \/ NoConnection(i)
  PROVE  Beside(i)
<1>1. CASE (ScriptCrash(i) \/ Swallow(i)) /\ UNCHANGED boot
  BY <1>1, RestartSound, SwallowSound, SoundBeside DEF ScriptCrash
<1>2. CASE Kill(i)
  BY <1>2, AbortsBeside DEF Kill
<1>3. CASE NoConnection(i)
  <2>1. Enter(i, "serve", "look") /\ UNCHANGED <<deployment, initialised, history, records, refs, failures>>
    BY <1>3 DEF NoConnection, world
  <2>. QED BY <2>1, EnterElsewhere DEF Beside, Providing, BootTypes
<1>. QED BY <1>1, <1>2, <1>3

LEMMA ProvisionStarts == BootInit => ProvisionInv
<1>. SUFFICES ASSUME BootInit PROVE ProvisionInv
  OBVIOUS
<1>1. BootTypes
  <2>1. records \in [DOMAIN Default -> {0, 1}] /\ DOMAIN refs = DOMAIN Default
    BY VersionsAssumption DEF BootInit
  <2>. QED BY <2>1 DEF BootInit, BootTypes
<1>2. \A i \in Instances : phase[i] = "start"
  BY DEF BootInit
<1>3. Alone
  BY <1>2 DEF Alone, Providing
<1>4. \A r \in ToSet(Defaults) : records[r] \in {0, 1}
  <2>1. records \in [DOMAIN Default -> {0, 1}]
    BY VersionsAssumption DEF BootInit
  <2>2. ToSet(Defaults) \subseteq DOMAIN Default
    BY DefaultsAssumption DEF ToSet
  <2>. QED BY <2>1, <2>2
<1>5. initialised => Provided(Len(Defaults))
  <2>1. initialised => \A r \in ToSet(Defaults) : records[r] = 1 /\ Default[r].methods \subseteq refs[r]
    BY VersionsAssumption DEF BootInit
  <2>2. \A n \in 1 .. Len(Defaults) : Defaults[n] \in ToSet(Defaults)
    BY AtDefaults
  <2>. QED BY <2>1, <2>2 DEF Provided
<1>6. Written
  BY <1>2, <1>4, <1>5 DEF Written
<1>. QED BY <1>1, <1>3, <1>6 DEF ProvisionInv

LEMMA ProvisionGoesOn == ProvisionInv /\ [BootNext]_bootVars => ProvisionInv'
<1>. SUFFICES ASSUME ProvisionInv, [BootNext]_bootVars PROVE ProvisionInv'
  OBVIOUS
<1>0. BootTypes
  BY DEF ProvisionInv
<1>1. CASE UNCHANGED bootVars
  BY <1>1 DEF bootVars, world, position, boot, ProvisionInv, BootTypes, Alone, Written, AtDefault, Provided, Current, Linking, Sql
<1>2. ASSUME NEW i \in Instances, ScriptStep(i) \/ Provision(i) \/ Trouble(i) PROVE ProvisionInv'
  <2>1. CASE ScriptStep(i)
    BY <1>0, <2>1, ScriptSound, SoundBeside, BesideKeeps DEF ScriptStep
  <2>2. CASE ReadMetadata(i) \/ WriteMetadata(i) \/ SyncPhysicalSchema(i) \/ FindMetadata(i) \/ SaveMetadata(i) \/ MetadataSaved(i)
    BY <1>0, <2>2, MetadataSteps, BesideKeeps
  <2>3. CASE DropMetadata(i) \/ RenameMetadata(i) \/ RemoveMetadata(i) \/ MigrateData(i)
    BY <1>0, <2>3, MigrationSteps, BesideKeeps
  <2>4. CASE Connect(i)
    BY <2>4, ConnectKeeps
  <2>5. CASE Resolve(i) \/ Find(i) \/ Insert(i) \/ Unlink(i) \/ Link(i)
    BY <2>5, ResolveKeeps, FindKeeps, InsertKeeps, UnlinkKeeps, LinkKeeps
  <2>6. CASE ReadSetting(i)
    <3>1. phase[i] = "records" /\ at[i] = Len(Defaults)
      BY <2>6 DEF ReadSetting
    <3>2. Aborts(i) \/ (Enter(i, "mark", "look") /\ UNCHANGED <<world, crashes, metadata, records, refs, failures>>)
      BY <2>6 DEF ReadSetting
    <3>3. Aborts(i) => Beside(i)
      BY <1>0, AbortsBeside DEF Aborts
    <3>. QED BY <3>1, <3>2, <3>3, BesideKeeps, ReadSettingKeeps
  <2>7. CASE Mark(i)
    BY <2>7, MarkKeeps
  <2>8. CASE ((ScriptCrash(i) \/ Swallow(i)) /\ UNCHANGED boot) \/ Kill(i) \/ NoConnection(i)
    BY <1>0, <2>8, TroubleBeside, BesideKeeps
  <2>9. CASE Skip(i)
    BY <2>9, SkipKeeps
  <2>. QED BY <1>2, <2>1, <2>2, <2>3, <2>4, <2>5, <2>6, <2>7, <2>8, <2>9 DEF Provision, Trouble
<1>. QED BY <1>1, <1>2 DEF BootNext

\* isInit says that each default record is there once, with its links: the one
\* that sets it has been through all of them since it last started.
THEOREM BootInitialises == BootSpec => []InitialisedOnce
<1>1. ProvisionInv => InitialisedOnce
  <2>. SUFFICES ASSUME ProvisionInv, initialised, failures = 0, "shared" \notin history, NEW r \in ToSet(Defaults)
                PROVE  records[r] = 1 /\ (Linking(r) => Default[r].methods \subseteq refs[r])
    BY DEF InitialisedOnce
  <2>1. Provided(Len(Defaults))
    BY DEF ProvisionInv, Written
  <2>2. PICK n \in DOMAIN Defaults : r = Defaults[n]
    BY DEF ToSet
  <2>3. n \in 1 .. Len(Defaults)
    BY <2>2, DefaultsAssumption
  <2>. QED BY <2>1, <2>2, <2>3 DEF Provided
<1>2. BootSpec => []ProvisionInv
  BY ProvisionStarts, ProvisionGoesOn, PTL DEF BootSpec
<1>. QED BY <1>1, <1>2, PTL
=============================================================================
