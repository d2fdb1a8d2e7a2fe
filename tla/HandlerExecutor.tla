--------------------------- MODULE HandlerExecutor ---------------------------
(****************************************************************************)
(* The script executor: HandlerExecutorService.run() borrows a child        *)
(* process from a pool, arms a timer, listens to the child and sends it the *)
(* script; ChildProcessManager settles the run on the first of "done",      *)
(* "error", the child's exit and the timer, and gives the child back to the *)
(* pool or destroys it. runner.ts is the program of the child.              *)
(*                                                                          *)
(* The pool (generic-pool) and the processes are external: what is modelled *)
(* of them is what run() and ChildProcessManager rely on.                   *)
(****************************************************************************)
EXTENDS Integers, Sequences, FiniteSets

CONSTANTS
  Runs,         \* calls of run(), each made once
  Children,     \* identities of child processes
  NoRun, NoChild,   \* "no run", "no child"
  PoolMin, PoolMax, \* HANDLER_EXECUTOR_POOL_MIN and _MAX
  MaxCalls,     \* bound: proxy calls ($repos, $throw, ...) of all scripts
  MaxMishaps    \* bound: crashes of a child, and runs that cannot be sent

ASSUME RunsAssumption == NoRun \notin Runs
ASSUME PoolAssumption ==
  /\ IsFiniteSet(Children) /\ NoChild \notin Children
  /\ {PoolMin, PoolMax, MaxCalls, MaxMishaps} \subseteq Nat

VARIABLES
  stage,      \* where every run is: not made, waiting for a child, started
  child,      \* the child a started run was given
  isDone,     \* the isDone flag of run(): its handlers are switched off
  timer,      \* the run's timer is armed
  outcome,    \* how the promise of run() was settled
  queue,      \* the pool's waiting acquire() calls, first come first served
  idle,       \* the pool's children that are not on loan
  loan,       \* the run a child is on loan to
  proc,       \* the process and its channel
  exitDue,    \* the process is gone and its 'exit' is still to be emitted
  listeners,  \* the runs whose handlers are on the child
  script,     \* the run whose script the child is executing
  strays,     \* runs whose script has returned and goes on in the background
  pipe,       \* messages on their way from the child, each with its run
  leaked,     \* ghost: runs that left through the catch block of run()
  crossed,    \* ghost: <<s, r>>: a message of run s was handled for run r
  returned,   \* ghost: runs whose script has returned
  budget      \* the bounds used up so far

runVars  == <<stage, child, isDone, timer, outcome>>
poolVars == <<queue, idle, loan>>
procVars == <<proc, exitDue, script, strays, pipe>>
ghosts   == <<leaked, crossed, returned>>
vars == <<runVars, poolVars, procVars, listeners, ghosts, budget>>

Stages   == {"new", "waiting", "started"}
Outcomes == {"none", "resolved", "rejected"}

\* up: running and connected; dying: up, but an uncaught exception has set the
\* 100 ms to its exit; killed: signalled; gone: ended, channel still open;
\* closed: ended and disconnected; none: this identity is not in use.
Procs == {"none", "up", "dying", "killed", "gone", "closed"}
Kinds == {"call", "throw", "done", "error"}
Message == [kind : Kinds, run : Runs]

-----------------------------------------------------------------------------
\* The handlers that still react: each returns at once when its run is done.
Undone(c) == {r \in listeners[c] : ~isDone[r]}

OnLoan(c) == loan[c] # NoRun
PoolSize  == Cardinality(idle) + Cardinality({c \in Children : OnLoan(c)})

\* The runs whose code the child may be executing.
Active(c) == strays[c] \cup ({script[c]} \ {NoRun})

\* A promise is settled once; a later resolve or reject is void.
Settle(rs, how) ==
  outcome' = [r \in Runs |-> IF r \in rs /\ outcome[r] = "none" THEN how ELSE outcome[r]]

\* isDone is set and the timer cleared.
Close(rs) ==
  /\ isDone' = [r \in Runs |-> isDone[r] \/ r \in rs]
  /\ timer' = [r \in Runs |-> timer[r] /\ r \notin rs]

\* child.kill(), on whatever is left of it.
Signal(c) == proc' = [proc EXCEPT ![c] = IF @ \in {"up", "dying"} THEN "killed" ELSE @]

Spend(what) == budget' = [budget EXCEPT ![what] = @ - 1]

-----------------------------------------------------------------------------
Init ==
  /\ stage = [r \in Runs |-> "new"]
  /\ child = [r \in Runs |-> NoChild]
  /\ isDone = [r \in Runs |-> FALSE]
  /\ timer = [r \in Runs |-> FALSE]
  /\ outcome = [r \in Runs |-> "none"]
  /\ queue = <<>>
  /\ idle = {}
  /\ loan = [c \in Children |-> NoRun]
  /\ proc = [c \in Children |-> "none"]
  /\ exitDue = [c \in Children |-> FALSE]
  /\ listeners = [c \in Children |-> {}]
  /\ script = [c \in Children |-> NoRun]
  /\ strays = [c \in Children |-> {}]
  /\ pipe = [c \in Children |-> <<>>]
  /\ leaked = {}
  /\ crossed = {}
  /\ returned = {}
  /\ budget = [calls |-> MaxCalls, mishaps |-> MaxMishaps]

-----------------------------------------------------------------------------
(* The pool *)

\* pool.acquire() in run().
Acquire(r) ==
  /\ stage[r] = "new"
  /\ stage' = [stage EXCEPT ![r] = "waiting"]
  /\ queue' = Append(queue, r)
  /\ UNCHANGED <<child, isDone, timer, outcome, idle, loan, procVars, listeners,
                 ghosts, budget>>

\* factory.create(): fork(runner.js), for a waiting run or up to the minimum. An
\* identity is used again once its process is gone and nothing refers to it.
Fork(c) ==
  /\ PoolSize < PoolMax
  /\ PoolSize < PoolMin \/ Len(queue) > Cardinality(idle)
  /\ c \notin idle /\ ~OnLoan(c) /\ listeners[c] = {}
  /\ proc[c] \in {"none", "gone", "closed"}
  /\ \A r \in Runs : timer[r] => child[r] # c
  /\ idle' = idle \cup {c}
  /\ proc' = [proc EXCEPT ![c] = "up"]
  /\ exitDue' = [exitDue EXCEPT ![c] = FALSE]
  /\ pipe' = [pipe EXCEPT ![c] = <<>>]
  /\ UNCHANGED <<runVars, queue, loan, script, strays, listeners, ghosts, budget>>

\* validate() at the borrow: not killed and connected.
Valid(c) == proc[c] \in {"up", "dying", "gone"}

\* testOnBorrow throws an invalid child away.
DropInvalid(c) ==
  /\ queue # <<>> /\ c \in idle /\ ~Valid(c)
  /\ idle' = idle \ {c}
  /\ UNCHANGED <<runVars, queue, loan, procVars, listeners, ghosts, budget>>

\* The evictor destroys a child that has been idle too long. Nobody is waiting
\* then: an idle child is handed out as soon as there is a waiter.
Evict(c) ==
  /\ queue = <<>> /\ c \in idle
  /\ idle' = idle \ {c}
  /\ Signal(c)
  /\ UNCHANGED <<runVars, queue, loan, exitDue, script, strays, pipe, listeners,
                 ghosts, budget>>

-----------------------------------------------------------------------------
(* HandlerExecutorService.run() *)

\* The child is handed over, its timer set, its listeners added.
Engage(r, c) ==
  /\ queue # <<>> /\ r = Head(queue) /\ c \in idle /\ Valid(c)
  /\ queue' = Tail(queue)
  /\ stage' = [stage EXCEPT ![r] = "started"]
  /\ child' = [child EXCEPT ![r] = c]

\* setTimeout is forgotten.
StartUntimed(r, c) ==
  /\ Engage(r, c) /\ proc[c] # "gone"
  /\ idle' = idle \ {c}
  /\ loan' = [loan EXCEPT ![c] = r]
  /\ listeners' = [listeners EXCEPT ![c] = @ \cup {r}]
  /\ script' = [script EXCEPT ![c] = r]
  /\ UNCHANGED <<isDone, timer, outcome, proc, exitDue, strays, pipe, ghosts, budget>>

\* The execute message reaches the child, which begins the script.
Start(r, c) ==
  /\ Engage(r, c) /\ proc[c] # "gone"
  /\ idle' = idle \ {c}
  /\ loan' = [loan EXCEPT ![c] = r]
  /\ timer' = [timer EXCEPT ![r] = TRUE]
  /\ listeners' = [listeners EXCEPT ![c] = @ \cup {r}]
  /\ script' = [script EXCEPT ![c] = r]
  /\ UNCHANGED <<isDone, outcome, proc, exitDue, strays, pipe, ghosts, budget>>

\* The process has ended but its channel still looks connected: child.send makes
\* the child emit 'error', and handleChildError ends the run.
StartOnDead(r, c) ==
  /\ Engage(r, c) /\ proc[c] = "gone"
  /\ idle' = idle \ {c}
  /\ Close(Undone(c) \cup {r})
  /\ Settle(Undone(c) \cup {r}, "rejected")
  /\ listeners' = [listeners EXCEPT ![c] = {}]
  /\ UNCHANGED <<loan, procVars, ghosts, budget>>

\* wrapCtx or child.send throws: the catch block releases the child and rejects.
\* The timer stays armed and the listeners stay on the child.
StartFails(r, c) ==
  /\ Engage(r, c) /\ budget.mishaps > 0
  /\ timer' = [timer EXCEPT ![r] = TRUE]
  /\ listeners' = [listeners EXCEPT ![c] = @ \cup {r}]
  /\ Settle({r}, "rejected")
  /\ leaked' = leaked \cup {r}
  /\ Spend("mishaps")
  /\ UNCHANGED <<isDone, idle, loan, procVars, crossed, returned>>

\* The handler of the timer: nobody may use the child after this.
Timeout(r) ==
  /\ timer[r]
  /\ IF isDone[r]
     THEN /\ timer' = [timer EXCEPT ![r] = FALSE]
          /\ UNCHANGED <<isDone, outcome, listeners, proc, loan>>
     ELSE LET c == child[r] IN
          /\ Close({r})
          /\ listeners' = [listeners EXCEPT ![c] = {}]
          /\ Signal(c)
          /\ loan' = [loan EXCEPT ![c] = NoRun]     \* pool.destroy(child)
          /\ Settle({r}, "rejected")
  /\ UNCHANGED <<stage, child, queue, idle, exitDue, script, strays, pipe, ghosts, budget>>

-----------------------------------------------------------------------------
(* The child: runner.ts *)

\* A proxy call. Work that the script did not await may still make calls when
\* the script has returned.
Call(c, r, kind) ==
  /\ proc[c] \in {"up", "dying"} /\ r \in Active(c) /\ budget.calls > 0
  /\ pipe' = [pipe EXCEPT ![c] = Append(@, [kind |-> kind, run |-> r])]
  /\ Spend("calls")
  /\ UNCHANGED <<runVars, poolVars, proc, exitDue, script, strays, listeners, ghosts>>

\* The script returns: "done". It may have left work behind.
Return(c, detached) ==
  /\ proc[c] \in {"up", "dying"} /\ script[c] # NoRun
  /\ pipe' = [pipe EXCEPT ![c] = Append(@, [kind |-> "done", run |-> script[c]])]
  /\ script' = [script EXCEPT ![c] = NoRun]
  /\ strays' = IF detached THEN [strays EXCEPT ![c] = @ \cup {script[c]}] ELSE strays
  /\ returned' = returned \cup {script[c]}
  /\ UNCHANGED <<runVars, poolVars, proc, exitDue, listeners, leaked, crossed, budget>>

\* The script throws: "error", and the process lives on.
Throw(c) ==
  /\ proc[c] \in {"up", "dying"} /\ script[c] # NoRun
  /\ pipe' = [pipe EXCEPT ![c] = Append(@, [kind |-> "error", run |-> script[c]])]
  /\ script' = [script EXCEPT ![c] = NoRun]
  /\ UNCHANGED <<runVars, poolVars, proc, exitDue, strays, listeners, ghosts, budget>>

\* uncaughtException, in the script or in work it left behind: "error", and the
\* process exits 100 ms later.
Uncaught(c, r) ==
  /\ proc[c] = "up" /\ r \in Active(c)
  /\ proc' = [proc EXCEPT ![c] = "dying"]
  /\ pipe' = [pipe EXCEPT ![c] = Append(@, [kind |-> "error", run |-> r])]
  /\ UNCHANGED <<runVars, poolVars, exitDue, script, strays, listeners, ghosts, budget>>

\* The process ends: signalled, after an uncaught exception, or of itself
\* (out of memory, process.exit in a script).
Dies(c) ==
  /\ proc' = [proc EXCEPT ![c] = "gone"]
  /\ exitDue' = [exitDue EXCEPT ![c] = TRUE]
  /\ script' = [script EXCEPT ![c] = NoRun]
  /\ strays' = [strays EXCEPT ![c] = {}]
  /\ UNCHANGED <<runVars, poolVars, pipe, listeners, ghosts>>

Exit(c)  == proc[c] \in {"dying", "killed"} /\ Dies(c) /\ UNCHANGED budget

Crash(c) ==
  /\ proc[c] = "up" /\ Active(c) # {} /\ budget.mishaps > 0
  /\ Dies(c) /\ Spend("mishaps")

-----------------------------------------------------------------------------
(* The listeners of ChildProcessManager *)

\* handleChildError of every handler that is not done: the child is destroyed.
FailUndone(c) ==
  /\ Close(Undone(c))
  /\ Settle(Undone(c), "rejected")
  /\ IF Undone(c) = {} THEN UNCHANGED <<listeners, loan, proc>>
     ELSE /\ listeners' = [listeners EXCEPT ![c] = {}]
          /\ loan' = [loan EXCEPT ![c] = NoRun]
          /\ IF OnLoan(c) THEN Signal(c) ELSE UNCHANGED proc
  /\ UNCHANGED <<stage, child, queue, idle, script, strays, leaked, returned, budget>>

\* A message is handled by all that listen; it knows nothing of its run.
Receive(c, kind) ==
  /\ pipe[c] # <<>> /\ Head(pipe[c]).kind = kind
  /\ pipe' = [pipe EXCEPT ![c] = Tail(@)]
  /\ crossed' = crossed \cup {<<Head(pipe[c]).run, r>> : r \in Undone(c) \ {Head(pipe[c]).run}}

\* The call is made on the run's context and answered by its call id.
OnCall(c) ==
  /\ Receive(c, "call")
  /\ UNCHANGED <<runVars, poolVars, proc, exitDue, script, strays, listeners, leaked, returned, budget>>

\* $throw gives the child back although its script goes on.
OnThrowReleases(c) ==
  /\ Receive(c, "throw")
  /\ Settle(Undone(c), "rejected")
  /\ loan' = [loan EXCEPT ![c] = NoRun]
  /\ idle' = IF OnLoan(c) THEN idle \cup {c} ELSE idle
  /\ UNCHANGED <<stage, child, isDone, timer, queue, proc, exitDue, script, strays,
                 listeners, leaked, returned, budget>>

\* $throw rejects the run's promise at once. The script is not stopped; the run
\* is not done and keeps its child.
OnThrow(c) ==
  /\ Receive(c, "throw")
  /\ Settle(Undone(c), "rejected")
  /\ UNCHANGED <<stage, child, isDone, timer, poolVars, proc, exitDue, script, strays,
                 listeners, leaked, returned, budget>>

\* "done": the child is released, then the promise resolved. A second handler of
\* the same message finds the child released, its await throws, and its promise
\* is never settled. (The first to handle it is the one that listened first.)
OnDone(c) ==
  /\ Receive(c, "done")
  /\ Close(Undone(c))
  /\ IF Undone(c) = {} THEN UNCHANGED <<listeners, loan, idle, outcome>>
     ELSE /\ listeners' = [listeners EXCEPT ![c] = {}]
          /\ loan' = [loan EXCEPT ![c] = NoRun]
          /\ idle' = IF OnLoan(c) THEN idle \cup {c} ELSE idle
          /\ IF OnLoan(c) /\ Cardinality(Undone(c)) = 1
             THEN Settle(Undone(c), "resolved") ELSE UNCHANGED outcome
  /\ UNCHANGED <<stage, child, queue, proc, exitDue, script, strays, leaked, returned, budget>>

\* "error".
OnError(c) ==
  /\ Receive(c, "error")
  /\ FailUndone(c)
  /\ UNCHANGED exitDue

\* 'exit': not ordered with the messages that are still in the channel.
OnExit(c) ==
  /\ exitDue[c]
  /\ exitDue' = [exitDue EXCEPT ![c] = FALSE]
  /\ FailUndone(c)
  /\ UNCHANGED <<pipe, crossed>>

\* The end of the channel: child.connected becomes false.
Disconnect(c) ==
  /\ proc[c] = "gone" /\ pipe[c] = <<>>
  /\ proc' = [proc EXCEPT ![c] = "closed"]
  /\ UNCHANGED <<runVars, poolVars, exitDue, script, strays, pipe, listeners, ghosts, budget>>

-----------------------------------------------------------------------------
RunStep(r) ==
  \/ Acquire(r) \/ Timeout(r)
  \/ \E c \in Children : Start(r, c) \/ StartOnDead(r, c) \/ StartFails(r, c)

ChildStep(c) ==
  \/ \E r \in Runs : Call(c, r, "call") \/ Call(c, r, "throw") \/ Uncaught(c, r)
  \/ \E detached \in BOOLEAN : Return(c, detached)
  \/ Throw(c) \/ Crash(c)

Listen(c) == OnCall(c) \/ OnThrow(c) \/ OnDone(c) \/ OnError(c) \/ OnExit(c)

PoolStep(c) == Fork(c) \/ DropInvalid(c) \/ Evict(c)

Next ==
  \/ \E r \in Runs : RunStep(r)
  \/ \E c \in Children : ChildStep(c) \/ Listen(c) \/ PoolStep(c) \/ Exit(c) \/ Disconnect(c)

Spec == Init /\ [][Next]_vars

\* Timers fire, a signalled or failing process ends, the parent reads its
\* channels, and the pool serves its queue. Nothing is assumed of a script.
Fairness ==
  /\ \A r \in Runs : WF_vars(Timeout(r))
  /\ \A r \in Runs :
       WF_vars(\E c \in Children : Start(r, c) \/ StartOnDead(r, c) \/ StartFails(r, c))
  /\ \A c \in Children : WF_vars(Exit(c)) /\ WF_vars(Listen(c)) /\ WF_vars(DropInvalid(c))
  /\ WF_vars(\E c \in Children : Fork(c))

FairSpec == Spec /\ Fairness

-----------------------------------------------------------------------------
(* Properties *)

\* Every variable has its type.
TypeOK ==
  /\ stage \in [Runs -> Stages]
  /\ child \in [Runs -> Children \cup {NoChild}]
  /\ isDone \in [Runs -> BOOLEAN]
  /\ timer \in [Runs -> BOOLEAN]
  /\ outcome \in [Runs -> Outcomes]
  /\ queue \in Seq(Runs)
  /\ idle \subseteq Children
  /\ loan \in [Children -> Runs \cup {NoRun}]
  /\ proc \in [Children -> Procs]
  /\ exitDue \in [Children -> BOOLEAN]
  /\ listeners \in [Children -> SUBSET Runs]
  /\ script \in [Children -> Runs \cup {NoRun}]
  /\ strays \in [Children -> SUBSET Runs]
  /\ pipe \in [Children -> Seq(Message)]
  /\ leaked \subseteq Runs
  /\ crossed \subseteq Runs \X Runs
  /\ returned \subseteq Runs
  /\ budget \in [{"calls", "mishaps"} -> Nat]

Running(r) == stage[r] = "started" /\ ~isDone[r]

\* The handlers of one run, its timer and its loan go together.
Owned ==
  /\ \A r \in Runs : Running(r) =>
       child[r] \in Children /\ loan[child[r]] = r /\ listeners[child[r]] = {r} /\ timer[r]
  /\ \A r \in Runs : timer[r] => Running(r)
  /\ \A c \in Children : listeners[c] = IF OnLoan(c) THEN {loan[c]} ELSE {}
  /\ \A c \in Children : OnLoan(c) => Running(loan[c]) /\ child[loan[c]] = c /\ c \notin idle

\* A run that is not done has its child to itself: the pool has it on loan to
\* this run, only this run's handlers are on it, and the timer that would end
\* the run is armed. A child without such a run has no handlers. Only the catch
\* block of run() breaks this.
OwnChild == leaked = {} => Owned

\* A promise of run() that is never settled although the run is over: only a run
\* that left through the catch block, and whose handlers then met another run's
\* "done", can cause it.
DoneIsSettled == leaked = {} => \A r \in Runs : isDone[r] => outcome[r] # "none"

\* A message of run s is handled as a message of run r, on r's context, only
\* when the script of s has returned and left work behind in the child: no child
\* goes to another run while its script runs, as after $throw it still may.
CrossedOnlyByStray == leaked = {} => \A p \in crossed : p[1] \in returned /\ isDone[p[1]]

\* A child is taken from a run only in the step that settles the run, and it
\* returns to the pool only with nobody listening to it.
LoanEndsSettled ==
  [][leaked = {} => \A c \in Children :
       OnLoan(c) /\ loan'[c] # loan[c] =>
         /\ isDone'[loan[c]] /\ outcome'[loan[c]] # "none" /\ ~timer'[loan[c]]
         /\ listeners'[c] = {}
         /\ c \in idle' => proc'[c] # "killed"]_vars

\* Every run is settled, however its script behaves: it waits for a child only
\* as long as others use theirs, and its timer ends it.
RunsSettle == \A r \in Runs : stage[r] = "waiting" ~> (outcome[r] # "none" \/ leaked # {})
==============================================================================
