--------------------------- MODULE RequestProofs ---------------------------
(****************************************************************************)
(* What runs inside one request.                                            *)
(*                                                                          *)
(* RequestContext, for every number of hooks and of moves: its type         *)
(* invariant with the bound on the runs, what a hook is given, what arrives *)
(* of a script's edits, and what runs on after the answer.                  *)
(* AgentTables, for every set of workers, tables, columns and calls: the    *)
(* tools that a chat request runs keep the schema sound, an update keeps    *)
(* what it was not told to change, and a call tells what it did.            *)
(****************************************************************************)
EXTENDS RequestContext, AgentTables, TLAPS, FiniteSetTheorems, SequenceTheorems

-----------------------------------------------------------------------------
\* intercept() is at a hook it has or behind the last, and every hook it has
\* passed, and the handler, made one run at most.
Open == IF awaited = 0 THEN 0 ELSE 1

RunsBounded ==
  /\ mode = "pre" => /\ hook \in 1 .. NumPre + 1 - Open
                     /\ Len(runs) <= hook - 1 + Open
  /\ mode = "handler" => hook = 1 /\ Len(runs) <= NumPre + Open
  /\ mode = "post" => /\ hook \in 1 .. NumPost + 1 - Open
                      /\ Len(runs) <= NumPre + hook + Open
  /\ mode = "error" => /\ hook \in 1 .. NumPost + 1 - Open
                       /\ Len(runs) <= NumPre + NumPost + hook + Open
  /\ mode = "end" => hook = 1 /\ awaited = 0

\* The type invariant with the bound on hook and runs that makes it inductive.
Typed == TypeOK /\ RunsBounded

\* Only the run that is awaited is open, it was begun in this mode, a run that
\* is resolved has no script, and a script waits for the call it awaits.
RunsSettled ==
  /\ awaited # 0 => runs[awaited].mode = mode
  /\ \A k \in DOMAIN runs :
       /\ k # awaited => runs[k].promise # "pending"
       /\ runs[k].promise \in {"undefined", "result"} => runs[k].script = "over"
       /\ runs[k].script = "queued" => runs[k].promise = "pending"
       /\ runs[k].write = "awaited" =>
            runs[k].script = "calling" \/ runs[k].promise = "rejected"

Outcome(c) == /\ mode = "post"  => c.data = data /\ c.status = "ok"
              /\ mode = "error" => c.data = "null" /\ c.status = "err"

\* The script lives, and has its copy as it was given it.
Untouched(k) == runs[k].script \in {"running", "calling"} /\ ~runs[k].edited

\* Until the awaited script has its copy, the context has what it is given; from
\* then on its copy has it, until the script changes it.
OutcomePrepared ==
  ~late /\ awaited # 0 =>
    /\ runs[awaited].script = "queued" => Outcome(ctx)
    /\ Untouched(awaited) => Outcome(runs[awaited].copy)

\* What scripts have left behind is in the context and in the awaited copy.
EditsKept ==
  ~late => /\ Arrived(ctx)
           /\ awaited # 0 /\ Untouched(awaited) => Arrived(runs[awaited].copy)

IInv == Typed /\ RunsSettled /\ OutcomePrepared /\ EditsKept

-----------------------------------------------------------------------------
(* The operators of the model *)

\* What the pipeline gives the context keeps its type.
LEMMA PreparedType == ASSUME ctx \in Ctx, data \in Datas PROVE Prepared \in Ctx
  BY DEF Prepared, Ctx, Datas

\* How many hooks a mode has.
LEMMA HookCounts ==
  /\ mode = "pre" => HookCount = NumPre
  /\ mode \in {"post", "error"} => HookCount = NumPost
  BY DEF HookCount

\* An answer is one more answer, and the end.
LEMMA AnswerType ==
  ASSUME answers \in Seq(Answers), NEW what \in Answers, Answer(what)
  PROVE  answers' \in Seq(Answers) /\ mode' = "end" /\ hook' = 1
  BY DEF Answer, GoTo

\* Merging two contexts gives a context.
LEMMA MergeType == ASSUME NEW p \in Ctx, NEW c \in Ctx PROVE Merge(p, c) \in Ctx
<1>1. MergeData(p.data, c.data) \in Datas
  BY DEF MergeData, Ctx, Datas
<1> QED
  BY <1>1 DEF Merge, Ctx, Datas

\* An edited copy is a context.
LEMMA EditsType == ASSUME NEW c \in Ctx PROVE Edits(c) \subseteq Ctx
  BY DEF Edits, Ctx, Datas

\* The end of a script settles its run, and leaves its mode and its call.
LEMMA EndedType ==
  ASSUME NEW r \in Run, NEW how \in {"undefined", "result", "rejected"}
  PROVE  /\ Ended(r, how) \in Run
         /\ Ended(r, how).mode = r.mode /\ Ended(r, how).write = r.write
         /\ Ended(r, how).script = "over"
         /\ Ended(r, how).promise = IF r.promise = "pending" THEN how ELSE r.promise
<1>1. Opening \in Ctx
  BY DEF Opening, Ctx, Datas
<1>2. Settled(r, how) \in Run /\ Settled(r, how).mode = r.mode
      /\ Settled(r, how).write = r.write
      /\ Settled(r, how).promise = IF r.promise = "pending" THEN how ELSE r.promise
  BY DEF Settled, Run
<1> QED
  BY <1>1, <1>2 DEF Ended, Run

\* Replacing one run by a run of its mode leaves the others alone.
LEMMA SetType ==
  ASSUME runs \in Seq(Run), NEW k \in DOMAIN runs, NEW r \in Run, Set(k, r)
  PROVE  /\ runs' \in Seq(Run) /\ Len(runs') = Len(runs) /\ DOMAIN runs' = DOMAIN runs
         /\ runs'[k] = r /\ \A j \in DOMAIN runs : j # k => runs'[j] = runs[j]
  BY DEF Set

\* What every step of a run has in common: intercept() does not move, one run at
\* most has changed and is of its old mode, and all have their types.
Contained(k) ==
  /\ UNCHANGED <<request, given>>
  /\ runs' \in Seq(Run) /\ Len(runs') = Len(runs) /\ DOMAIN runs' = DOMAIN runs
  /\ runs'[k].mode = runs[k].mode /\ \A j \in DOMAIN runs : j # k => runs'[j] = runs[j]
  /\ ctx' \in Ctx /\ late' \in BOOLEAN /\ moves' \in 0 .. MaxMoves
  /\ wanted' \in [body : {"old", "new", "gone"}, query : {"old", "new"}]
  /\ answers' \in Seq(Answers)

LEMMA RunStepContained ==
  ASSUME TypeOK, NEW k \in DOMAIN runs, RunStep(k) PROVE Contained(k)
<1> USE HooksAssumption DEF TypeOK
<1>0. /\ runs[k] \in Run /\ runs[k].copy \in Ctx
      /\ runs[k].copy.body \in {"old", "new", "gone"}
      /\ runs[k].copy.query \in {"old", "new"}
  <2>1. runs[k] \in Run
    OBVIOUS
  <2>2. runs[k].copy \in Ctx
    BY <2>1 DEF Run
  <2> QED
    BY <2>1, <2>2 DEF Ctx
<1>1. ASSUME Launch(k) PROVE Contained(k)
  <2> DEFINE r == [runs[k] EXCEPT !.script = "running", !.copy = ctx]
  <2>1. r \in Run /\ r.mode = runs[k].mode
    BY <1>0 DEF Run
  <2> QED
    BY <1>1, <2>1, SetType DEF Launch, Contained, request, given
<1>2. ASSUME Edit(k) PROVE Contained(k)
  <2>1. PICK c \in Edits(runs[k].copy) : Set(k, [runs[k] EXCEPT !.copy = c, !.edited = TRUE])
    BY <1>2 DEF Edit
  <2> DEFINE r == [runs[k] EXCEPT !.copy = c, !.edited = TRUE]
  <2>2. c \in Ctx
    BY <1>0, EditsType
  <2>3. r \in Run /\ r.mode = runs[k].mode
    BY <1>0, <2>2 DEF Run
  <2>4. Set(k, r)
    BY <2>1
  <2> HIDE DEF r
  <2> QED
    BY <1>2, <2>3, <2>4, SetType DEF Edit, Move, Contained, request, given
<1>3. ASSUME NEW how \in {"awaited", "detached"}, Write(k, how) PROVE Contained(k)
  <2> DEFINE r == [runs[k] EXCEPT !.write = how,
                                  !.script = IF how = "awaited" THEN "calling" ELSE @]
  <2>1. r \in Run /\ r.mode = runs[k].mode
    BY <1>0 DEF Run
  <2>2. Set(k, r)
    BY <1>3 DEF Write
  <2> HIDE DEF r
  <2> QED
    BY <1>3, <2>1, <2>2, SetType DEF Write, Move, Contained, request, given
<1>4. ASSUME Commit(k) PROVE Contained(k)
  <2> DEFINE r == [runs[k] EXCEPT !.write = "done",
                                  !.script = IF @ = "calling" THEN "running" ELSE @]
  <2>1. r \in Run /\ r.mode = runs[k].mode
    BY <1>0 DEF Run
  <2> QED
    BY <1>4, <2>1, SetType DEF Commit, Contained, request, given
<1>5. ASSUME Send(k) PROVE Contained(k)
  <2>1. answers' \in Seq(Answers) /\ moves' \in 0 .. MaxMoves
    BY <1>5 DEF Send, Move, Answers
  <2> QED
    BY <1>5, <2>1 DEF Send, Contained, request, given
<1>6. ASSUME Throw(k) PROVE Contained(k)
  <2>1. Settled(runs[k], "rejected") \in Run /\ Settled(runs[k], "rejected").mode = runs[k].mode
    BY <1>0 DEF Run, Settled
  <2> QED
    BY <1>6, <2>1, SetType DEF Throw, Move, Contained, request, given
<1>7. ASSUME NEW v \in {"undefined", "result"}, Return(k, v) PROVE Contained(k)
  <2>1. Ended(runs[k], v) \in Run /\ Ended(runs[k], v).mode = runs[k].mode
    BY <1>0, EndedType
  <2>2. Merge(ctx, runs[k].copy) \in Ctx
    BY <1>0, MergeType
  <2>3. wanted' \in [body : {"old", "new", "gone"}, query : {"old", "new"}]
    BY <1>0, <1>7 DEF Return, Left
  <2> QED
    BY <1>7, <2>1, <2>2, <2>3, SetType DEF Return, Contained, request, given
<1>8. ASSUME Fail(k) \/ Timeout(k) PROVE Contained(k)
  <2>1. Ended(runs[k], "rejected") \in Run /\ Ended(runs[k], "rejected").mode = runs[k].mode
    BY <1>0, EndedType
  <2> QED
    BY <1>8, <2>1, SetType DEF Fail, Timeout, Contained, request, given
<1> QED
  BY <1>1, <1>2, <1>3, <1>4, <1>5, <1>6, <1>7, <1>8 DEF RunStep

-----------------------------------------------------------------------------
(* Types and bounds *)

\* Every step keeps the types and the bounds.
LEMMA TypedInductive == (Init => Typed) /\ (Typed /\ [Next]_vars => Typed')
<1>0. NumPre \in Nat /\ NumPost \in Nat /\ MaxMoves \in Nat
  BY HooksAssumption
<1>1. Init => Typed
  <2> SUFFICES ASSUME Init PROVE Typed
    OBVIOUS
  <2>1. Opening \in Ctx /\ "undefined" \in Datas
    BY DEF Opening, Ctx, Datas
  <2>2. TypeOK
    <3>1. /\ runs \in Seq(Run) /\ Len(runs) = 0 /\ answers \in Seq(Answers)
          /\ wanted \in [body : {"old", "new", "gone"}, query : {"old", "new"}]
      BY DEF Init
    <3>2. /\ mode \in Modes /\ hook \in 1 .. NumPre + NumPost + 1
          /\ Len(runs) <= NumPre + 1 + 2 * NumPost /\ moves \in 0 .. MaxMoves
      BY <1>0, <3>1 DEF Init, Modes
    <3>3. ctx \in Ctx /\ data \in Datas /\ awaited \in {0} \cup DOMAIN runs
      BY <2>1 DEF Init
    <3> QED
      BY <3>1, <3>2, <3>3 DEF Init, TypeOK
  <2>3. RunsBounded
    BY <1>0 DEF Init, RunsBounded, Open
  <2> QED
    BY <2>2, <2>3 DEF Typed
<1>2. Typed /\ [Next]_vars => Typed'
  <2> SUFFICES ASSUME TypeOK, RunsBounded, [Next]_vars PROVE TypeOK' /\ RunsBounded'
    BY DEF Typed
  <2> USE <1>0
  <2>1. ASSUME Begin PROVE TypeOK' /\ RunsBounded'
    <3> DEFINE r == [mode |-> mode, script |-> "queued", promise |-> "pending",
                     copy |-> Opening, edited |-> FALSE, write |-> "none"]
    <3>1. r \in Run
      BY DEF TypeOK, Run, Opening, Ctx, Datas, Modes
    <3>2. /\ runs' = Append(runs, r) /\ runs' \in Seq(Run) /\ Len(runs') = Len(runs) + 1
          /\ awaited = 0 /\ awaited' = Len(runs) + 1 /\ awaited' \in DOMAIN runs'
          /\ UNCHANGED <<mode, hook>> /\ Len(runs) \in Nat
      BY <2>1, <3>1 DEF Begin, TypeOK
    <3> HIDE DEF r
    <3>3. ctx' \in Ctx
      BY <2>1, PreparedType DEF Begin, TypeOK
    <3>4. Open = 0 /\ Open' = 1
      BY <3>2 DEF Open
    <3>5. /\ mode \in {"pre", "handler", "post", "error"}
          /\ mode = "pre" => hook <= NumPre
          /\ mode \in {"post", "error"} => hook <= NumPost
      BY <2>1, HookCounts DEF Begin, HookDue, Hooks
    <3>6. RunsBounded' /\ Len(runs') <= NumPre + 1 + 2 * NumPost
      BY <3>2, <3>4, <3>5 DEF RunsBounded, TypeOK
    <3> QED
      BY <2>1, <3>2, <3>3, <3>6 DEF Begin, TypeOK, given
  <2>2. ASSUME awaited' = 0, Rejected, UNCHANGED <<runs, ctx, data, given, moves, late, wanted>>,
               awaited = 0 => HookDue
        PROVE  TypeOK' /\ RunsBounded'
    <3>1. Open' = 0 /\ Open \in {0, 1} /\ Len(runs) \in Nat /\ hook \in Nat
      BY <2>2 DEF Open, TypeOK
    <3>2. /\ mode = "pre" => mode' = "end" /\ hook' = 1
          /\ mode \in {"handler", "post"} => mode' = "error" /\ hook' = 1
          /\ mode = "error" => mode' = "error" /\ hook' = hook + 1
          /\ mode \in {"pre", "handler", "post", "error"}
      BY <2>2 DEF Rejected, Answer, GoTo, NextHook
    <3>3. mode = "error" => hook <= NumPost
      BY <2>2, <3>1, HookCounts DEF RunsBounded, Open, HookDue
    <3>4. RunsBounded' /\ mode' \in Modes /\ hook' \in 1 .. NumPre + NumPost + 1
      BY <2>2, <3>1, <3>2, <3>3 DEF RunsBounded, Modes
    <3>5. answers' \in Seq(Answers)
      BY <2>2, AnswerType DEF Rejected, Answers, TypeOK
    <3> QED
      BY <2>2, <3>4, <3>5 DEF TypeOK, given
  <2>3. ASSUME NEW v \in {"undefined", "result"}, Resolved(v), awaited # 0, awaited' = 0,
               UNCHANGED <<runs, given, moves, late, wanted>>
        PROVE  TypeOK' /\ RunsBounded'
    <3>1. Open' = 0 /\ Open = 1 /\ Len(runs) \in Nat /\ hook \in Nat
      BY <2>3 DEF Open, TypeOK
    <3>2. \/ mode = "pre" /\ mode' = "pre" /\ hook' = hook + 1
          \/ mode = "handler" /\ mode' = "post" /\ hook' = 1
          \/ mode \in {"post", "error"} /\ mode' = mode /\ hook' = hook + 1
          \/ mode' = "end" /\ hook' = 1
      BY <2>3 DEF Resolved, Answer, GoTo, NextHook
    <3>3. RunsBounded' /\ mode' \in Modes /\ hook' \in 1 .. NumPre + NumPost + 1
      BY <2>3, <3>1, <3>2 DEF RunsBounded, Modes
    <3>4. answers' \in Seq(Answers)
      BY <2>3, AnswerType DEF Resolved, Answers, TypeOK
    <3>5. ctx' \in Ctx /\ data' \in Datas
      BY <2>3 DEF Resolved, TypeOK, Ctx, Datas
    <3> QED
      BY <2>3, <3>3, <3>4, <3>5 DEF TypeOK, given
  <2>4. ASSUME HooksOver PROVE TypeOK' /\ RunsBounded'
    <3>1. /\ Open' = 0 /\ Open = 0 /\ Len(runs) \in Nat /\ hook \in Nat
          /\ awaited = 0 /\ awaited' = 0 /\ runs' = runs
      BY <2>4 DEF HooksOver, Open, TypeOK
    <3>2. \/ mode = "pre" /\ mode' = "handler" /\ hook' = 1
          \/ mode \in {"post", "error"} /\ mode' = "end" /\ hook' = 1
      BY <2>4 DEF HooksOver, Answer, GoTo
    <3>3. RunsBounded' /\ mode' \in Modes /\ hook' \in 1 .. NumPre + NumPost + 1
      BY <3>1, <3>2 DEF RunsBounded, Modes
    <3>4. answers' \in Seq(Answers)
      BY <2>4, AnswerType DEF HooksOver, Answers, TypeOK
    <3> QED
      BY <2>4, <3>1, <3>3, <3>4 DEF HooksOver, TypeOK, given
  <2>5. ASSUME NEW k \in DOMAIN runs, RunStep(k) PROVE TypeOK' /\ RunsBounded'
    BY <2>5, RunStepContained
       DEF Contained, TypeOK, request, given, RunsBounded, Open
  <2>6. ASSUME UNCHANGED vars PROVE TypeOK' /\ RunsBounded'
    BY <2>6 DEF vars, TypeOK, RunsBounded, Open
  <2>7. ASSUME Advance PROVE TypeOK' /\ RunsBounded'
    BY <2>2, <2>3, <2>7 DEF Advance
  <2>8. ASSUME NoTimeout PROVE TypeOK' /\ RunsBounded'
    BY <2>2, <2>8 DEF NoTimeout, HookDue
  <2> QED
    BY <2>1, <2>4, <2>5, <2>6, <2>7, <2>8 DEF Next, Pipeline
<1> QED
  BY <1>1, <1>2

\* Every variable has its type, and no more runs are made than hooks ask for.
THEOREM TypeCorrect == Spec => []TypeOK
<1>1. Typed => TypeOK
  BY DEF Typed
<1> QED
  BY <1>1, TypedInductive, PTL DEF Spec

-----------------------------------------------------------------------------
(* The awaited run and the others *)

\* One run at most is open, the awaited one, and it is of the mode that
\* intercept() is in; a script that is over or waits holds no other call.
LEMMA SettledInductive ==
  /\ Init => RunsSettled
  /\ Typed /\ RunsSettled /\ [Next]_vars => RunsSettled'
<1>1. Init => RunsSettled
  BY DEF Init, RunsSettled
<1>2. Typed /\ RunsSettled /\ [Next]_vars => RunsSettled'
  <2> SUFFICES ASSUME TypeOK, RunsBounded, RunsSettled, [Next]_vars PROVE RunsSettled'
    BY DEF Typed
  <2>1. ASSUME Begin PROVE RunsSettled'
    <3>1. /\ runs \in Seq(Run) /\ Len(runs) \in Nat /\ DOMAIN runs = 1 .. Len(runs)
          /\ DOMAIN runs' = 1 .. Len(runs) + 1 /\ awaited' = Len(runs) + 1
          /\ \A k \in DOMAIN runs : runs'[k] = runs[k]
          /\ runs'[awaited'].mode = mode /\ runs'[awaited'].promise = "pending"
          /\ runs'[awaited'].script = "queued" /\ runs'[awaited'].write = "none"
          /\ mode' = mode /\ awaited = 0
      BY <2>1 DEF Begin, TypeOK
    <3>2. \A k \in DOMAIN runs' : k \in DOMAIN runs \/ k = awaited'
      BY <3>1
    <3> QED
      BY <3>1, <3>2 DEF RunsSettled
  <2>2. ASSUME Advance PROVE RunsSettled'
    <3>1. awaited # 0 /\ awaited' = 0 /\ runs' = runs /\ runs[awaited].promise # "pending"
      BY <2>2 DEF Advance
    <3> QED
      BY <3>1 DEF RunsSettled
  <2>3. ASSUME NoTimeout \/ HooksOver PROVE RunsSettled'
    BY <2>3 DEF NoTimeout, HookDue, HooksOver, RunsSettled
  <2>4. ASSUME NEW k \in DOMAIN runs, RunStep(k) PROVE RunsSettled'
    <3>1. Contained(k) /\ runs[k] \in Run
      BY <2>4, RunStepContained DEF TypeOK
    <3>2. /\ k # awaited => runs'[k].promise # "pending"
          /\ runs'[k].promise \in {"undefined", "result"} => runs'[k].script = "over"
          /\ runs'[k].script = "queued" => runs'[k].promise = "pending"
          /\ runs'[k].write = "awaited" =>
               runs'[k].script = "calling" \/ runs'[k].promise = "rejected"
      <4> DEFINE Held(r) == /\ k # awaited => r.promise # "pending"
                            /\ r.promise \in {"undefined", "result"} => r.script = "over"
                            /\ r.script = "queued" => r.promise = "pending"
                            /\ r.write = "awaited" =>
                                 r.script = "calling" \/ r.promise = "rejected"
      <4>0. Held(runs[k]) /\ runs \in Seq(Run)
        BY DEF RunsSettled, TypeOK
      <4>1. ASSUME Launch(k) PROVE Held(runs'[k])
        BY <3>1, <4>0, <4>1 DEF Launch, Set, Run
      <4>2. ASSUME Edit(k) PROVE Held(runs'[k])
        <5>1. PICK c \in Edits(runs[k].copy) :
                     Set(k, [runs[k] EXCEPT !.copy = c, !.edited = TRUE])
          BY <4>2 DEF Edit
        <5>2. runs'[k] = [runs[k] EXCEPT !.copy = c, !.edited = TRUE]
          BY <5>1, <4>0 DEF Set
        <5> QED
          BY <3>1, <4>0, <5>2 DEF Run
      <4>3. ASSUME NEW how \in {"awaited", "detached"}, Write(k, how) PROVE Held(runs'[k])
        BY <3>1, <4>0, <4>3 DEF Write, Move, Alive, Set, Run
      <4>4. ASSUME Commit(k) PROVE Held(runs'[k])
        BY <3>1, <4>0, <4>4 DEF Commit, Set, Run
      <4>5. ASSUME Send(k) PROVE Held(runs'[k])
        BY <4>0, <4>5 DEF Send
      <4>6. ASSUME Throw(k) PROVE Held(runs'[k])
        BY <3>1, <4>0, <4>6 DEF Throw, Move, Alive, Set, Settled, Run
      <4>7. ASSUME NEW how \in {"undefined", "result", "rejected"}, Set(k, Ended(runs[k], how)),
                   runs[k].script \in {"running", "calling"},
                   how # "rejected" => runs[k].script = "running"
            PROVE  Held(runs'[k])
        <5>1. runs'[k] = Ended(runs[k], how)
          BY <4>7, <4>0 DEF Set
        <5> QED
          <6>1. /\ runs'[k].write = runs[k].write /\ runs'[k].script = "over"
                /\ runs'[k].promise = IF runs[k].promise = "pending" THEN how
                                      ELSE runs[k].promise
            BY <3>1, <5>1, EndedType
          <6>2. runs[k].promise \in {"pending", "rejected"}
            BY <3>1, <4>0, <4>7 DEF Run
          <6> QED
            BY <4>0, <4>7, <6>1, <6>2
      <4> HIDE DEF Held
      <4>8. Held(runs'[k])
        BY <2>4, <4>1, <4>2, <4>3, <4>4, <4>5, <4>6, <4>7
           DEF RunStep, Return, Fail, Timeout, Alive
      <4> QED
        BY <4>8 DEF Held
    <3> QED
      <4>1. /\ mode' = mode /\ awaited' = awaited /\ DOMAIN runs' = DOMAIN runs
            /\ runs'[k].mode = runs[k].mode
            /\ \A j \in DOMAIN runs : j # k => runs'[j] = runs[j]
        BY <3>1 DEF Contained, request
      <4>2. awaited # 0 => awaited \in DOMAIN runs
        BY DEF TypeOK
      <4>3. awaited' # 0 => runs'[awaited'].mode = mode'
        BY <4>1, <4>2 DEF RunsSettled
      <4> QED
        BY <3>2, <4>1, <4>3 DEF RunsSettled
  <2>5. ASSUME UNCHANGED vars PROVE RunsSettled'
    BY <2>5 DEF vars, RunsSettled
  <2> QED
    BY <2>1, <2>2, <2>3, <2>4, <2>5 DEF Next, Pipeline
<1> QED
  BY <1>1, <1>2

-----------------------------------------------------------------------------
(* What a script is given, and what arrives of what it leaves *)

\* While no rejected script has come back, a step of a run changes the context
\* only when the awaited script returns, and its copy is the context until the
\* script edits it.
LEMMA QuietStep ==
  ASSUME TypeOK, RunsSettled, NEW k \in DOMAIN runs, RunStep(k), ~late'
  PROVE  /\ ~late
         /\ \/ /\ ctx' = ctx /\ wanted' = wanted
               /\ runs'[k].script = "queued" => runs[k].script = "queued"
               /\ Untouched(k)' =>
                    \/ runs[k].script = "queued" /\ runs'[k].copy = ctx
                    \/ Untouched(k) /\ runs'[k].copy = runs[k].copy
            \/ /\ k = awaited /\ runs'[k].script = "over"
               /\ ctx' = Merge(ctx, runs[k].copy) /\ Left(k)
<1> DEFINE Quiet == /\ ctx' = ctx /\ wanted' = wanted
                    /\ runs'[k].script = "queued" => runs[k].script = "queued"
                    /\ Untouched(k)' =>
                         \/ runs[k].script = "queued" /\ runs'[k].copy = ctx
                         \/ Untouched(k) /\ runs'[k].copy = runs[k].copy
           Joined == /\ k = awaited /\ runs'[k].script = "over"
                     /\ ctx' = Merge(ctx, runs[k].copy) /\ Left(k)
<1>0. runs \in Seq(Run) /\ runs[k] \in Run /\ late \in BOOLEAN
  BY DEF TypeOK
<1>1. ASSUME Launch(k) PROVE ~late /\ Quiet
  BY <1>0, <1>1 DEF Launch, Set, Untouched, Run
<1>2. ASSUME Edit(k) PROVE ~late /\ Quiet
  <2>1. PICK c \in Edits(runs[k].copy) :
               Set(k, [runs[k] EXCEPT !.copy = c, !.edited = TRUE])
    BY <1>2 DEF Edit
  <2>2. runs'[k] = [runs[k] EXCEPT !.copy = c, !.edited = TRUE]
    BY <2>1, <1>0 DEF Set
  <2>3. runs'[k].edited /\ runs'[k].script = runs[k].script
    BY <2>2, <1>0 DEF Run
  <2> QED
    BY <1>2, <2>3 DEF Edit, Untouched
<1>3. ASSUME NEW how \in {"awaited", "detached"}, Write(k, how) PROVE ~late /\ Quiet
  BY <1>0, <1>3 DEF Write, Move, Alive, Set, Untouched, Run
<1>4. ASSUME Commit(k) PROVE ~late /\ Quiet
  BY <1>0, <1>4 DEF Commit, Set, Untouched, Run
<1>5. ASSUME Send(k) PROVE ~late /\ Quiet
  BY <1>5 DEF Send, Untouched
<1>6. ASSUME Throw(k) PROVE ~late /\ Quiet
  BY <1>0, <1>6 DEF Throw, Move, Alive, Set, Settled, Untouched, Run
<1>7. ASSUME NEW v \in {"undefined", "result"}, Return(k, v) PROVE ~late /\ Joined
  <2>1. ~late /\ runs[k].promise # "rejected"
    BY <1>0, <1>7 DEF Return
  <2>2. runs[k].promise = "pending"
    BY <1>0, <1>7, <2>1 DEF Return, Alive, RunsSettled, Run
  <2>3. runs'[k] = Ended(runs[k], v)
    BY <1>0, <1>7 DEF Return, Set
  <2> QED
    BY <1>0, <1>7, <2>1, <2>2, <2>3, EndedType DEF Return, RunsSettled
<1>8. ASSUME Fail(k) \/ Timeout(k) PROVE ~late /\ Quiet
  <2>1. runs'[k] = Ended(runs[k], "rejected")
    BY <1>0, <1>8 DEF Fail, Timeout, Set
  <2>2. runs'[k].script = "over"
    BY <1>0, <2>1, EndedType
  <2> QED
    BY <1>8, <2>2 DEF Fail, Timeout, Untouched
<1> QED
  BY <1>1, <1>2, <1>3, <1>4, <1>5, <1>6, <1>7, <1>8 DEF RunStep

\* A merge brings what the script left, but for deleted fields and lists.
LEMMA MergeArrives ==
  ASSUME NEW k \in DOMAIN runs, ctx' = Merge(ctx, runs[k].copy), Left(k),
         UNCHANGED listQuery
  PROVE  Arrived(ctx)'
  BY DEF Merge, Left, Arrived

\* What is given to the context before a script is the outcome it runs for, and
\* leaves $body and $query alone.
LEMMA PreparedOutcome ==
  ASSUME TypeOK, ctx' = Prepared, UNCHANGED <<mode, data, wanted, listQuery>>
  PROVE  Outcome(ctx)' /\ (Arrived(ctx) => Arrived(ctx)')
<1>1. ctx \in Ctx
  BY DEF TypeOK
<1>2. CASE mode = "handler"
  BY <1>1, <1>2 DEF Prepared, Outcome, Arrived, Ctx
<1>3. CASE mode = "post"
  BY <1>1, <1>3 DEF Prepared, Outcome, Arrived, Ctx
<1>4. CASE mode = "error"
  BY <1>1, <1>4 DEF Prepared, Outcome, Arrived, Ctx
<1>5. CASE mode \notin {"handler", "post", "error"}
  BY <1>1, <1>5 DEF Prepared, Outcome, Arrived, Ctx
<1> QED
  BY <1>2, <1>3, <1>4, <1>5

\* Every step keeps what scripts are given and what they leave.
LEMMA ContextInductive ==
  /\ Init => OutcomePrepared /\ EditsKept
  /\ IInv /\ [Next]_vars => (OutcomePrepared /\ EditsKept)'
<1>1. Init => OutcomePrepared /\ EditsKept
  BY DEF Init, Opening, OutcomePrepared, EditsKept, Arrived
<1>2. IInv /\ [Next]_vars => (OutcomePrepared /\ EditsKept)'
  <2> SUFFICES ASSUME TypeOK, RunsBounded, RunsSettled, OutcomePrepared, EditsKept, [Next]_vars
               PROVE  OutcomePrepared' /\ EditsKept'
    BY DEF IInv, Typed
  <2>1. ASSUME Begin PROVE OutcomePrepared' /\ EditsKept'
    <3>1. runs'[awaited'].script = "queued"
      BY <2>1 DEF Begin, TypeOK
    <3>2. Outcome(ctx)' /\ (Arrived(ctx) => Arrived(ctx)')
      BY <2>1, PreparedOutcome DEF Begin, given
    <3>3. late' = late
      BY <2>1 DEF Begin
    <3> QED
      BY <3>1, <3>2, <3>3 DEF OutcomePrepared, EditsKept, Untouched
  <2>2. ASSUME Advance PROVE OutcomePrepared' /\ EditsKept'
    <3>1. awaited' = 0 /\ UNCHANGED <<wanted, listQuery, late>>
      BY <2>2 DEF Advance, given
    <3>2. ctx'.body = ctx.body /\ ctx'.query = ctx.query
      BY <2>2 DEF Advance, Resolved, TypeOK, Ctx
    <3> QED
      BY <3>1, <3>2 DEF OutcomePrepared, EditsKept, Arrived
  <2>3. ASSUME NoTimeout \/ HooksOver PROVE OutcomePrepared' /\ EditsKept'
    BY <2>3 DEF NoTimeout, HookDue, HooksOver, given, OutcomePrepared, EditsKept, Arrived
  <2>4. ASSUME NEW k \in DOMAIN runs, RunStep(k), ~late'
        PROVE  OutcomePrepared' /\ EditsKept'
    <3>1. /\ UNCHANGED <<mode, awaited, data, listQuery>>
          /\ \A j \in DOMAIN runs : j # k => runs'[j] = runs[j]
      BY <2>4, RunStepContained DEF Contained, request, given
    <3>2. awaited # 0 => awaited \in DOMAIN runs
      BY DEF TypeOK
    <3>3. /\ ~late
          /\ k = awaited \/ runs[k].script # "queued"
      BY <2>4, QuietStep DEF RunsSettled
    <3>4. CASE /\ ctx' = ctx /\ wanted' = wanted
               /\ runs'[k].script = "queued" => runs[k].script = "queued"
               /\ Untouched(k)' =>
                    \/ runs[k].script = "queued" /\ runs'[k].copy = ctx
                    \/ Untouched(k) /\ runs'[k].copy = runs[k].copy
      <4>1. CASE awaited = 0
        BY <3>1, <3>3, <3>4, <4>1 DEF OutcomePrepared, EditsKept, Arrived
      <4>2. CASE awaited # 0 /\ k # awaited
        BY <3>1, <3>2, <3>3, <3>4, <4>2
           DEF OutcomePrepared, EditsKept, Arrived, Untouched, Outcome
      <4>3. CASE k = awaited
        BY <3>1, <3>2, <3>3, <3>4, <4>3 DEF OutcomePrepared, EditsKept, Arrived, Outcome
      <4> QED
        BY <4>1, <4>2, <4>3
    <3>5. CASE /\ k = awaited /\ runs'[k].script = "over"
               /\ ctx' = Merge(ctx, runs[k].copy) /\ Left(k)
      BY <3>1, <3>5, MergeArrives DEF OutcomePrepared, EditsKept, Untouched
    <3> QED
      BY <2>4, <3>4, <3>5, QuietStep
  <2>5. ASSUME UNCHANGED vars PROVE OutcomePrepared' /\ EditsKept'
    BY <2>5 DEF vars, OutcomePrepared, EditsKept, Arrived, Untouched, Outcome
  <2>6. ASSUME late' PROVE OutcomePrepared' /\ EditsKept'
    BY <2>6 DEF OutcomePrepared, EditsKept
  <2> QED
    BY <2>1, <2>2, <2>3, <2>4, <2>5, <2>6 DEF Next, Pipeline
<1> QED
  BY <1>1, <1>2

\* The inductive invariant holds in every state.
LEMMA IInvAlways == Spec => []IInv
  BY TypedInductive, SettledInductive, ContextInductive, PTL DEF Spec, IInv

\* A post-hook is given the handler's data and the response's status, an error
\* hook no data and the error's status (dynamic.interceptor.ts:77 and :127).
THEOREM HooksAreGivenTheOutcome == Spec => []HookSeesOutcome
<1>1. IInv => HookSeesOutcome
  BY DEF IInv, Typed, TypeOK, OutcomePrepared, HookSeesOutcome, Fresh, Alive, Untouched, Outcome
<1> QED
  BY <1>1, IInvAlways, PTL

\* What a script leaves in $body and $query is in the context, and in the copy
\* of the next script (smartMergeContext).
THEOREM EditsReachTheContext == Spec => []EditsArrive
<1>1. IInv => EditsArrive
  BY DEF IInv, Typed, TypeOK, EditsKept, EditsArrive, Fresh, Alive, Untouched
<1> QED
  BY <1>1, IInvAlways, PTL

\* When the request is over, calls are begun and carried out only by scripts that
\* it had given up, or were never awaited.
THEOREM AnswerComesLast == Spec => DoneBeforeAnswer
<1>1. IInv /\ [Next]_vars =>
        [\A k \in DOMAIN runs : mode = "end" /\ runs[k].write # runs'[k].write =>
           \/ runs[k].promise = "rejected"
           \/ "detached" \in {runs[k].write, runs'[k].write}]_vars
  <2> SUFFICES ASSUME IInv, Next, NEW k \in DOMAIN runs, mode = "end",
                      runs[k].write # runs'[k].write, runs[k].promise # "rejected"
               PROVE  "detached" \in {runs[k].write, runs'[k].write}
    OBVIOUS
  <2>1. /\ TypeOK /\ RunsSettled /\ awaited = 0 /\ runs \in Seq(Run) /\ runs[k] \in Run
    BY DEF IInv, Typed, TypeOK, RunsBounded
  <2>2. k # awaited /\ runs[k].promise \in {"undefined", "result"} /\ runs[k].script = "over"
    <3>1. k # 0
      BY <2>1
    <3> QED
      BY <2>1, <3>1 DEF RunsSettled, Run
  <2>3. PICK j \in DOMAIN runs : RunStep(j)
    <3>1. ~Begin /\ ~Advance /\ ~NoTimeout /\ ~HooksOver
      BY <2>1 DEF Begin, HookDue, Hooks, Advance, NoTimeout, HooksOver
    <3> QED
      BY <3>1 DEF Next, Pipeline
  <2>4. j = k
    BY <2>1, <2>3, RunStepContained DEF Contained
  <2>5. Commit(k)
    BY <2>2, <2>3, <2>4
       DEF RunStep, Launch, Edit, Write, Move, Alive, Send, Throw, Return, Fail, Timeout
  <2>6. runs[k].write # "awaited"
    BY <2>1, <2>2 DEF RunsSettled
  <2> QED
    BY <2>5, <2>6 DEF Commit
<1> QED
  BY <1>1, IInvAlways, PTL DEF Spec, DoneBeforeAnswer

-----------------------------------------------------------------------------
(* Tools: the invariants                                                    *)

Permissions == {"create", "update", "delete"} \X BOOLEAN
Rows == STRING \cup {"old"}    \* no prover knows that a constant string is one
Keys == Workers \X Nat \X Nat
Reports == [at : Nat, ok : BOOLEAN]
Looking == {"look", "check", "conflicts", "merge"}
Changing == {"write", "begin", "change", "read"}
Points == {"idle", "item", "chunk"} \cup Looking \cup Changing
CallStates == [pc : Points, what : Calls \cup {NoCall}, at : Nat, seen : Tables \cup {Absent},
               body : Tables \cup {Absent}, view : Tables \cup {Absent}, tries : Nat, stop : BOOLEAN,
               results : Seq(Reports), flight : SUBSET Nat]

TablesTypeOK ==
  /\ tables \in [Names -> Tables \cup {Absent}] /\ rows \subseteq Rows /\ serial \in Nat
  /\ call \in [Workers -> CallStates] /\ todo \in [Workers -> Seq(Calls)]
  /\ stopped \subseteq Workers /\ granted \in [Workers -> SUBSET Permissions]
  /\ applied \subseteq Keys /\ unheard \subseteq Keys
  /\ promised \in [Names -> SUBSET Things] /\ crossed \subseteq Names /\ stumbles \in Nat

\* A call is at one of its items, which was checked before it is written.
Wished(c) ==
  IF c.what.tool = "update_tables" THEN Merged(c.seen, c.what.items[c.at])
  ELSE Body(Given(c.what.items[c.at].columns), Given(c.what.items[c.at].relations), {})
AtItem(c) ==
  LET tool == c.what.tool
      items == c.what.items
  IN /\ c.pc \in Looking \cup Changing => OnTables(tool) /\ c.at \in 1 .. Len(items)
     /\ c.pc = "item" => OnTables(tool) /\ c.at \in 1 .. Len(items) + 1
     /\ c.pc = "chunk" => c.what \in Calls /\ ~OnTables(tool) /\ c.at \in Nat \ {0} /\ c.flight \subseteq 1 .. Len(items)
     /\ c.pc \in (Looking \ {"look"}) \cup Changing /\ tool = "update_tables" => c.seen \in Tables
     /\ c.pc \in {"conflicts", "merge"} => tool /= "delete_tables"
     /\ c.pc \in {"conflicts", "merge"} \cup Changing /\ tool /= "delete_tables" => Sound(tool, items[c.at])
     /\ c.pc \in Changing /\ tool /= "delete_tables" => c.body = Wished(c)
AtItems == \A w \in Workers : AtItem(call[w])

\* What is promised of a table. A table that no change crossed has lost nothing.
Promises ==
  \A n \in Names :
    /\ tables[n] = Absent => promised[n] = {}
    /\ tables[n] /= Absent /\ n \notin crossed => tables[n].lost = {}
    /\ \A x \in promised[n] : x[1] = "column" => x[2] \notin Automatic

IdOf(w, i) == <<w, Len(todo[w]), i>>

ToolsBase == TablesTypeOK /\ AtItems
Puts(w, d) == call' = [call EXCEPT ![w] = d]

LEMMA CallIs ==
  ASSUME NEW c \in CallStates
  PROVE  /\ c.pc \in Points /\ c.what \in Calls \cup {NoCall} /\ c.at \in Nat /\ c.seen \in Tables \cup {Absent}
         /\ c.body \in Tables \cup {Absent} /\ c.view \in Tables \cup {Absent} /\ c.tries \in Nat /\ c.stop \in BOOLEAN
         /\ c.results \in Seq(Reports) /\ c.flight \subseteq Nat
  BY DEF CallStates

LEMMA CallWith ==
  ASSUME NEW c \in CallStates
  PROVE  /\ \A p \in Points : [c EXCEPT !.pc = p] \in CallStates
         /\ \A p \in Points, s \in Tables \cup {Absent} : /\ [c EXCEPT !.seen = s, !.pc = p] \in CallStates
                                                       /\ [c EXCEPT !.pc = p, !.body = s] \in CallStates
                                                       /\ [c EXCEPT !.view = s, !.pc = p] \in CallStates
         /\ \A p \in Points, b \in BOOLEAN : [c EXCEPT !.stop = b, !.pc = p] \in CallStates
         /\ \A p \in Points, n \in Nat : [c EXCEPT !.tries = n, !.pc = p] \in CallStates
         /\ \A f \in SUBSET Nat, n \in Nat : [c EXCEPT !.flight = f, !.at = n] \in CallStates
         /\ \A f \in SUBSET Nat, s \in Seq(Reports) : [c EXCEPT !.flight = f, !.results = s] \in CallStates
<1>. DEFINE P == Points
            W == Calls \cup {NoCall}
            State == Tables \cup {Absent}
            R == Seq(Reports)
<1>1. CallStates = [pc : P, what : W, at : Nat, seen : State, body : State, view : State, tries : Nat, stop : BOOLEAN,
                    results : R, flight : SUBSET Nat]
  BY DEF CallStates
<1>. HIDE DEF P, W, State, R
<1>2. /\ \A p \in P : [c EXCEPT !.pc = p] \in CallStates
      /\ \A p \in P, s \in State : /\ [c EXCEPT !.seen = s, !.pc = p] \in CallStates
                               /\ [c EXCEPT !.pc = p, !.body = s] \in CallStates
                               /\ [c EXCEPT !.view = s, !.pc = p] \in CallStates
      /\ \A p \in P, b \in BOOLEAN : [c EXCEPT !.stop = b, !.pc = p] \in CallStates
  BY <1>1
<1>3. /\ \A p \in P, n \in Nat : [c EXCEPT !.tries = n, !.pc = p] \in CallStates
      /\ \A f \in SUBSET Nat, n \in Nat : [c EXCEPT !.flight = f, !.at = n] \in CallStates
      /\ \A f \in SUBSET Nat, s \in R : [c EXCEPT !.flight = f, !.results = s] \in CallStates
  BY <1>1
<1>. QED BY <1>2, <1>3 DEF P, State, R

LEMMA RestingIs ==
  ASSUME NEW what \in Calls \cup {NoCall}
  PROVE  /\ Resting \in CallStates /\ Resting.results = <<>> /\ Resting.pc = "idle" /\ Resting.flight = {}
         /\ [Resting EXCEPT !.what = what] \in CallStates
         /\ \A n \in Nat, p \in Points : [Resting EXCEPT !.what = what, !.at = n, !.pc = p] \in CallStates
         /\ \A n \in Nat, p \in Points, s \in Seq(Reports) :
              [Resting EXCEPT !.what = what, !.at = n, !.pc = p, !.results = s] \in CallStates
<1>1. Resting \in CallStates
  BY DEF Resting, CallStates, Points
<1>2. Resting.results = <<>> /\ Resting.pc = "idle" /\ Resting.flight = {}
  BY DEF Resting
<1>. DEFINE W == Calls \cup {NoCall}
            State == Tables \cup {Absent}
            R == Seq(Reports)
<1>3. CallStates = [pc : Points, what : W, at : Nat, seen : State, body : State, view : State, tries : Nat, stop : BOOLEAN,
                    results : R, flight : SUBSET Nat]
  BY DEF CallStates
<1>4. what \in W
  OBVIOUS
<1>. HIDE DEF W, State, R
<1>5. [Resting EXCEPT !.what = what] \in CallStates
      /\ \A n \in Nat, p \in Points : [Resting EXCEPT !.what = what, !.at = n, !.pc = p] \in CallStates
  BY <1>1, <1>3, <1>4
<1>6. \A n \in Nat, p \in Points, s \in R :
        [Resting EXCEPT !.what = what, !.at = n, !.pc = p, !.results = s] \in CallStates
  BY <1>1, <1>3, <1>4
<1>. QED BY <1>1, <1>2, <1>5, <1>6 DEF R

LEMMA PutsIs ==
  ASSUME ToolsBase, NEW w \in Workers, NEW d \in CallStates, Puts(w, d)
  PROVE  /\ call' \in [Workers -> CallStates] /\ call'[w] = d
         /\ \A q \in Workers : q /= w => call'[q] = call[q]
  BY DEF ToolsBase, TablesTypeOK, Puts

LEMMA ToolTypes ==
  ASSUME ToolsBase
  PROVE  /\ tables \in [Names -> Tables \cup {Absent}] /\ rows \subseteq Rows /\ serial \in Nat
         /\ call \in [Workers -> CallStates] /\ todo \in [Workers -> Seq(Calls)]
         /\ stopped \subseteq Workers /\ granted \in [Workers -> SUBSET Permissions]
         /\ applied \subseteq Keys /\ unheard \subseteq Keys
         /\ promised \in [Names -> SUBSET Things] /\ crossed \subseteq Names /\ stumbles \in Nat
         /\ \A w \in Workers : AtItem(call[w])
  BY DEF ToolsBase, TablesTypeOK, AtItems

LEMMA ItemTypes ==
  ASSUME NEW item \in TableItems
  PROVE  /\ item.name \in Names
         /\ item.columns /= NotGiven => item.columns \subseteq STRING
         /\ item.relations /= NotGiven => item.relations \subseteq Relations
<1>. DEFINE C == SUBSET STRING
            D == C \cup {NotGiven}
            R == (SUBSET Relations) \cup {NotGiven}
<1>1. TableItems = [name : Names, columns : D, relations : R]
  BY DEF TableItems
<1>. HIDE DEF D, R
<1>2. item.name \in Names /\ item.columns \in D /\ item.relations \in R
  BY <1>1
<1>3. item.relations /= NotGiven => item.relations \subseteq Relations
  BY <1>2 DEF R
<1>. HIDE DEF C
<1>4. item.columns /= NotGiven => item.columns \in C
  BY <1>2 DEF D
<1>. QED BY <1>2, <1>3, <1>4 DEF C

\* The item a call on tables is at.
LEMMA ItemIs ==
  ASSUME NEW c \in CallStates, OnTables(c.what.tool), c.at \in 1 .. Len(c.what.items)
  PROVE  /\ c.what.items[c.at] \in TableItems /\ c.what.items \in Seq(TableItems) /\ c.what \in Calls
         /\ c.what.items[c.at].name \in Names
         /\ Given(c.what.items[c.at].columns) \subseteq STRING
         /\ Given(c.what.items[c.at].relations) \subseteq Relations
<1>1. c.what \in Calls
  BY CallIs DEF NoCall, OnTables
<1>2. c.what.items \in Seq(TableItems)
  BY <1>1 DEF Calls, OnTables
<1>3. c.what.items[c.at] \in TableItems
  BY <1>2
<1>. QED BY <1>1, <1>2, <1>3, ItemTypes DEF Given

LEMMA CallItems ==
  ASSUME NEW c \in CallStates
  PROVE  Len(c.what.items) \in Nat
<1>1. CASE c.what = NoCall
  BY <1>1 DEF NoCall
<1>2. CASE c.what \in Calls
  <2>1. c.what.items \in Seq(TableItems) \/ c.what.items \in Seq(RecordItems)
    BY <1>2 DEF Calls
  <2>. QED BY <2>1
<1>. QED BY <1>1, <1>2, CallIs

LEMMA ThingsAre ==
  ASSUME NEW columns \in SUBSET STRING, NEW relations \in SUBSET Relations
  PROVE  ThingsOf(columns, relations) \subseteq Things
<1>1. \A c \in columns : <<"column", c>> \in Things
  BY DEF Things
<1>2. \A n \in NamesOf(relations) : <<"relation", n>> \in Things
  <2>1. NamesOf(relations) \subseteq STRING
    BY DEF NamesOf, Relations
  <2>. QED BY <2>1 DEF Things
<1>. QED BY <1>1, <1>2 DEF ThingsOf

LEMMA TableIs ==
  ASSUME NEW table \in Tables
  PROVE  /\ table.columns \in SUBSET STRING /\ table.relations \in SUBSET Relations
         /\ table.ids \in SUBSET (Things \X Nat) /\ table.lost \in SUBSET Things
         /\ table = [columns |-> table.columns, relations |-> table.relations, ids |-> table.ids, lost |-> table.lost]
<1>. DEFINE C == SUBSET STRING
            R == SUBSET Relations
            I == SUBSET (Things \X Nat)
            L == SUBSET Things
<1>1. table \in [columns : C, relations : R, ids : I, lost : L]
  BY DEF Tables
<1>. HIDE DEF C, R, I, L
<1>2. /\ table.columns \in C /\ table.relations \in R /\ table.ids \in I /\ table.lost \in L
      /\ table = [columns |-> table.columns, relations |-> table.relations, ids |-> table.ids, lost |-> table.lost]
  BY <1>1
<1>. QED BY <1>2 DEF C, R, I, L

LEMMA IsTable ==
  ASSUME NEW columns \in SUBSET STRING, NEW relations \in SUBSET Relations, NEW ids \in SUBSET (Things \X Nat),
         NEW lost \in SUBSET Things
  PROVE  [columns |-> columns, relations |-> relations, ids |-> ids, lost |-> lost] \in Tables
<1>. DEFINE C == SUBSET STRING
            R == SUBSET Relations
            I == SUBSET (Things \X Nat)
            L == SUBSET Things
<1>1. columns \in C /\ relations \in R /\ ids \in I /\ lost \in L
  OBVIOUS
<1>. HIDE DEF C, R, I, L
<1>2. [columns |-> columns, relations |-> relations, ids |-> ids, lost |-> lost]
        \in [columns : C, relations : R, ids : I, lost : L]
  BY <1>1
<1>. QED BY <1>2 DEF C, R, I, L, Tables

LEMMA BodyIs ==
  ASSUME NEW columns \in SUBSET STRING, NEW relations \in SUBSET Relations, NEW ids \in SUBSET (Things \X Nat)
  PROVE  /\ Body(columns, relations, ids) \in Tables
         /\ Body(columns, relations, ids).columns = columns /\ Body(columns, relations, ids).relations = relations
         /\ Body(columns, relations, ids).ids = {row \in ids : row[1] \in ThingsOf(columns, relations)}
         /\ Body(columns, relations, ids).lost = {}
<1>. DEFINE rowsOf == {row \in ids : row[1] \in ThingsOf(columns, relations)}
<1>1. rowsOf \in SUBSET (Things \X Nat) /\ {} \in SUBSET Things
  OBVIOUS
<1>2. Body(columns, relations, ids) = [columns |-> columns, relations |-> relations, ids |-> rowsOf, lost |-> {}]
  BY DEF Body
<1>. HIDE DEF rowsOf
<1>3. Body(columns, relations, ids) \in Tables
  BY <1>1, <1>2, IsTable
<1>. QED BY <1>2, <1>3 DEF rowsOf

\* The columns of a merge.
MergedColumns(seen, item) ==
  IF item.columns = NotGiven THEN seen.columns ELSE item.columns \cup (seen.columns \ Automatic)

LEMMA MergedIs ==
  ASSUME NEW seen \in Tables, NEW item \in TableItems
  PROVE  LET columns == MergedColumns(seen, item)
             relations == MergedRelations(seen, item)
         IN /\ Merged(seen, item) \in Tables
            /\ Merged(seen, item).columns = columns /\ Merged(seen, item).relations = relations
            /\ Merged(seen, item).ids = {row \in seen.ids : row[1] \in ThingsOf(columns, relations)}
<1>1. seen.columns \in SUBSET STRING /\ seen.relations \in SUBSET Relations /\ seen.ids \in SUBSET (Things \X Nat)
  BY TableIs
<1>2. item.columns /= NotGiven => item.columns \subseteq STRING
  BY ItemTypes
<1>3. item.relations /= NotGiven => item.relations \subseteq Relations
  BY ItemTypes
<1>4. MergedColumns(seen, item) \in SUBSET STRING
  BY <1>1, <1>2 DEF MergedColumns
<1>5. MergedRelations(seen, item) \in SUBSET Relations
  BY <1>1, <1>3 DEF MergedRelations
<1>6. Merged(seen, item) = Body(MergedColumns(seen, item), MergedRelations(seen, item), seen.ids)
  BY DEF Merged, MergedColumns
<1>. DEFINE columns == MergedColumns(seen, item)
            relations == MergedRelations(seen, item)
            ids == seen.ids
<1>7. columns \in SUBSET STRING /\ relations \in SUBSET Relations /\ ids \in SUBSET (Things \X Nat)
      /\ Merged(seen, item) = Body(columns, relations, ids)
  BY <1>1, <1>4, <1>5, <1>6
<1>. HIDE DEF columns, relations, ids
<1>8. Merged(seen, item) \in Tables
  <2>1. Body(columns, relations, ids) \in Tables
    BY <1>7, BodyIs
  <2>. QED BY <1>7, <2>1
<1>9. /\ Merged(seen, item).columns = columns /\ Merged(seen, item).relations = relations
      /\ Merged(seen, item).ids = {row \in ids : row[1] \in ThingsOf(columns, relations)}
  BY <1>7 DEF Body
<1>. QED BY <1>8, <1>9 DEF columns, relations, ids

LEMMA WishedIs ==
  ASSUME NEW c \in CallStates, OnTables(c.what.tool), c.at \in 1 .. Len(c.what.items),
         c.what.tool = "update_tables" => c.seen \in Tables
  PROVE  Wished(c) \in Tables
<1>1. /\ c.what.items[c.at] \in TableItems
      /\ Given(c.what.items[c.at].columns) \subseteq STRING /\ Given(c.what.items[c.at].relations) \subseteq Relations
  BY ItemIs
<1>2. CASE c.what.tool = "update_tables"
  <2>1. Merged(c.seen, c.what.items[c.at]) \in Tables
    BY <1>1, <1>2, MergedIs
  <2>. QED BY <1>2, <2>1 DEF Wished
<1>3. CASE c.what.tool /= "update_tables"
  <2>1. {} \in SUBSET (Things \X Nat)
    OBVIOUS
  <2>. QED BY <1>1, <1>3, <2>1, BodyIs DEF Wished
<1>. QED BY <1>2, <1>3

-----------------------------------------------------------------------------
(* What the steps do to a call                                              *)

Keeps(c, d) == d.what = c.what /\ d.at = c.at /\ d.results = c.results /\ d.flight = c.flight
Begun(w, d) ==
  /\ call[w].pc = "idle" /\ todo[w] /= <<>> /\ todo' = [todo EXCEPT ![w] = Tail(@)]
  /\ UNCHANGED <<tables, promised, crossed, applied, unheard, stopped>>
  /\ d.results = <<>> /\ d.flight = {} /\ (d.pc = "idle" \/ (d.pc \in {"item", "chunk"} /\ d.at = 1))
Carried(w, d) ==
  /\ Keeps(call[w], d)
  /\ \/ call[w].pc = "item" /\ d.pc = "look"
     \/ call[w].pc = "item" /\ d.pc = "idle" /\ ~More(w)
     \/ call[w].pc \in Looking /\ d.pc \in Looking \cup {"write"}
     \/ call[w].pc \in {"write", "begin", "change"} /\ d.pc \in {"write", "begin", "change"}
Concluded(w, d, ok) ==
  /\ d.what = call[w].what /\ d.at = call[w].at + 1 /\ d.pc = "item"
  /\ d.results = Append(call[w].results, [at |-> call[w].at, ok |-> ok])
Changed(w, d) ==
  /\ call[w].pc = "change" /\ d.pc = "read" /\ Keeps(call[w], d)
  /\ \E visible \in {call[w].view, tables[Item(w).name]} : ~Refused(w, visible) /\ Apply(w, visible)
  /\ applied' = applied \cup {Id(w)} /\ UNCHANGED <<unheard, todo, stopped>>
Unchanging == UNCHANGED <<tables, promised, crossed, applied, todo, stopped>>
Chunking(c, d, ends) ==
  LET next == {i \in c.at .. c.at + BatchSize - 1 : i <= Len(c.what.items)} IN
  /\ c.pc = "chunk" /\ c.flight = {} /\ d.what = c.what /\ d.results = c.results
  /\ \/ d.pc = "idle" /\ (next = {} \/ ends)
     \/ d.pc = "chunk" /\ d.flight = next /\ d.at = c.at + BatchSize
Batched(w, d) == Chunking(call[w], d, w \in stopped)
Returns(w, d) ==
  LET c == call[w] IN
  /\ c.pc = "chunk" /\ d.pc = "chunk" /\ d.what = c.what /\ d.at = c.at
  /\ UNCHANGED <<tables, promised, crossed, todo, stopped>>
  /\ \E i \in c.flight, ok \in BOOLEAN :
       /\ d.flight = c.flight \ {i} /\ d.results = Append(c.results, [at |-> i, ok |-> ok])
       /\ \/ UNCHANGED unheard /\ applied' = IF ok THEN applied \cup {IdOf(w, i)} ELSE applied
          \/ ~ok /\ unheard' = unheard \cup {IdOf(w, i)} /\ applied' = applied \cup {IdOf(w, i)}
Stepped(w, d) ==
  /\ Puts(w, d) /\ AtItem(d)
  /\ \/ Begun(w, d)
     \/ Unchanging /\ UNCHANGED unheard /\ Carried(w, d)
     \/ Unchanging /\ UNCHANGED unheard /\ Concluded(w, d, FALSE) /\ call[w].pc \in Looking \cup {"write", "begin", "change"}
     \/ Changed(w, d)
     \/ Unchanging /\ UNCHANGED unheard /\ Concluded(w, d, TRUE) /\ call[w].pc = "read"
     \/ /\ Unchanging /\ unheard' = unheard \cup {Id(w)} /\ call[w].pc = "read"
        /\ Concluded(w, d, FALSE) \/ (Keeps(call[w], d) /\ d.pc = "write")
     \/ Unchanging /\ UNCHANGED unheard /\ Batched(w, d)
     \/ Returns(w, d)
Goes(w) == \E d \in CallStates : Stepped(w, d)

LEMMA BeginGoes ==
  ASSUME ToolsBase, NEW w \in Workers, BeginTables(w) \/ BeginRecords(w)
  PROVE  Goes(w)
<1>1. PICK start \in {"item", "chunk"} :
        /\ BeginCall(w, start) /\ todo[w] /= <<>> /\ (start = "item" <=> OnTables(Head(todo[w]).tool))
  BY DEF BeginTables, BeginRecords
<1>. DEFINE what == Head(todo[w])
            c == [Resting EXCEPT !.what = what, !.at = 1, !.pc = start]
            d == [Resting EXCEPT !.what = what]
<1>2. what \in Calls
  <2>1. todo[w] \in Seq(Calls)
    BY ToolTypes
  <2>. QED BY <1>1, <2>1
<1>3. start \in Points /\ 1 \in Nat
  BY DEF Points
<1>4. c \in CallStates /\ d \in CallStates
  BY <1>2, <1>3, RestingIs
<1>5. /\ c.pc = start /\ c.what = what /\ c.at = 1 /\ c.results = <<>> /\ c.flight = {}
      /\ d.pc = "idle" /\ d.results = <<>> /\ d.flight = {}
  BY <1>2 DEF Resting
<1>6. Puts(w, c) \/ Puts(w, d)
  BY <1>1 DEF BeginCall, Permission, Puts
<1>7. /\ call[w].pc = "idle" /\ todo' = [todo EXCEPT ![w] = Tail(@)]
      /\ UNCHANGED <<tables, promised, crossed, applied, unheard, stopped>>
  BY <1>1 DEF BeginCall, store
<1>8. Len(what.items) \in Nat
  BY <1>2, <1>4, <1>5, CallItems
<1>. HIDE DEF c, d, what
<1>9. AtItem(c)
  <2>1. 1 \in 1 .. Len(what.items) + 1 /\ 1 \in Nat \ {0}
    BY <1>8
  <2>2. start = "item" <=> OnTables(what.tool)
    BY <1>1 DEF what
  <2>. QED BY <1>2, <1>5, <2>1, <2>2 DEF AtItem, Looking, Changing
<1>10. AtItem(d)
  BY <1>5 DEF AtItem, Looking, Changing
<1>11. Begun(w, c) /\ Begun(w, d)
  BY <1>1, <1>5, <1>7 DEF Begun
<1>. QED BY <1>4, <1>6, <1>9, <1>10, <1>11 DEF Goes, Stepped

\* An item is over.
LEMMA OverGoes ==
  ASSUME ToolsBase, NEW w \in Workers, call[w].pc \in Looking \cup Changing, NEW ok \in BOOLEAN, Over(w, ok)
  PROVE  \E d \in CallStates : Puts(w, d) /\ AtItem(d) /\ Concluded(w, d, ok)
<1>. DEFINE c == call[w]
            told == Append(c.results, [at |-> c.at, ok |-> ok])
            d == [Resting EXCEPT !.what = c.what, !.at = c.at + 1, !.pc = "item", !.results = told]
<1>1. c \in CallStates /\ AtItem(c)
  BY ToolTypes
<1>2. /\ c.what \in Calls \cup {NoCall} /\ c.at + 1 \in Nat /\ told \in Seq(Reports) /\ "item" \in Points
  <2>1. c.what \in Calls \cup {NoCall} /\ c.at \in Nat /\ c.results \in Seq(Reports)
    BY <1>1, CallIs
  <2>2. [at |-> c.at, ok |-> ok] \in Reports
    BY <2>1 DEF Reports
  <2>. HIDE DEF c
  <2>. QED BY <2>1, <2>2 DEF Points
<1>3. Puts(w, d)
  BY DEF Over, Puts
<1>. HIDE DEF told, c
<1>4. d \in CallStates
  BY <1>2, RestingIs
<1>5. d.what = c.what /\ d.at = c.at + 1 /\ d.pc = "item" /\ d.results = told
  BY <1>2 DEF Resting
<1>6. OnTables(c.what.tool) /\ c.at \in 1 .. Len(c.what.items) /\ Len(c.what.items) \in Nat
  BY <1>1, CallItems DEF AtItem, c
<1>. HIDE DEF d
<1>7. AtItem(d)
  <2>1. c.at + 1 \in 1 .. Len(c.what.items) + 1
    BY <1>6
  <2>. QED BY <1>5, <1>6, <2>1 DEF AtItem, Looking, Changing
<1>8. Concluded(w, d, ok)
  BY <1>5 DEF Concluded, c, told
<1>. QED BY <1>3, <1>4, <1>7, <1>8

LEMMA FailedGoes ==
  ASSUME ToolsBase, NEW w \in Workers, call[w].pc \in Changing, NEW temporary \in BOOLEAN, FailedChange(w, temporary)
  PROVE  \E d \in CallStates :
           /\ Puts(w, d) /\ AtItem(d)
           /\ Concluded(w, d, FALSE) \/ (Keeps(call[w], d) /\ d.pc = "write")
<1>. DEFINE c == call[w]
            d == [c EXCEPT !.tries = c.tries + 1, !.pc = "write"]
<1>1. c \in CallStates /\ AtItem(c)
  BY ToolTypes
<1>2. Puts(w, d) \/ Over(w, FALSE)
  BY ToolTypes DEF FailedChange, Puts
<1>3. CASE Over(w, FALSE)
  BY <1>3, OverGoes
<1>4. CASE Puts(w, d)
  <2>1. d \in CallStates
    <3>1. c.tries + 1 \in Nat /\ "write" \in Points
      BY <1>1, CallIs DEF Points, Changing
    <3>. HIDE DEF c
    <3>. QED BY <1>1, <3>1, CallWith
  <2>2. /\ d.what = c.what /\ d.at = c.at /\ d.results = c.results /\ d.flight = c.flight
        /\ d.pc = "write" /\ d.seen = c.seen /\ d.body = c.body
    <3>. HIDE DEF c
    <3>. QED BY <1>1 DEF CallStates
  <2>3. c.pc \in Changing
    OBVIOUS
  <2>. HIDE DEF c, d
  <2>4. AtItem(d)
    BY <1>1, <2>2, <2>3 DEF AtItem, Looking, Changing, Wished
  <2>. QED BY <1>4, <2>1, <2>2, <2>4 DEF Keeps, c
<1>. QED BY <1>2, <1>3, <1>4

LEMMA GoOnIs ==
  ASSUME ToolsBase, NEW w \in Workers, NEW p \in Points, GoOn(w, p)
  PROVE  \E d \in CallStates :
           /\ Puts(w, d) /\ Keeps(call[w], d) /\ d.pc = p /\ d.seen = call[w].seen /\ d.body = call[w].body
<1>. DEFINE c == call[w]
            d == [c EXCEPT !.pc = p]
<1>1. c \in CallStates
  BY ToolTypes
<1>2. Puts(w, d)
  BY ToolTypes DEF GoOn, Puts
<1>. HIDE DEF c
<1>3. d \in CallStates
  BY <1>1, CallWith
<1>4. Keeps(c, d) /\ d.pc = p /\ d.seen = c.seen /\ d.body = c.body
  BY <1>1 DEF Keeps, CallStates
<1>. QED BY <1>2, <1>3, <1>4 DEF c

\* The loops over the items.
LEMMA NextGoes ==
  ASSUME ToolsBase, NEW w \in Workers, NextItem(w) \/ NextDeletion(w)
  PROVE  Goes(w)
<1>. DEFINE p == IF More(w) THEN "look" ELSE "idle"
<1>1. /\ call[w].pc = "item" /\ GoOn(w, p) /\ p \in Points
      /\ Unchanging /\ UNCHANGED unheard
  BY DEF NextItem, NextDeletion, Unchanging, store, turns, Points, Looking
<1>. HIDE DEF p
<1>2. PICK d \in CallStates : /\ Puts(w, d) /\ Keeps(call[w], d) /\ d.pc = p
                              /\ d.seen = call[w].seen /\ d.body = call[w].body
  BY <1>1, GoOnIs
<1>3. AtItem(call[w])
  BY ToolTypes
<1>4. CASE More(w)
  <2>1. d.pc = "look"
    BY <1>2, <1>4 DEF p
  <2>2. call[w].at \in 1 .. Len(call[w].what.items)
    <3>1. Len(call[w].what.items) \in Nat
      BY CallItems, ToolTypes
    <3>. QED BY <1>1, <1>3, <1>4, <3>1 DEF More, AtItem
  <2>3. AtItem(d)
    BY <1>1, <1>2, <1>3, <2>1, <2>2 DEF AtItem, Keeps, Looking, Changing
  <2>4. Carried(w, d)
    BY <1>1, <1>2, <2>1 DEF Carried
  <2>. QED BY <1>1, <1>2, <2>3, <2>4 DEF Goes, Stepped
<1>5. CASE ~More(w)
  <2>1. d.pc = "idle"
    BY <1>2, <1>5 DEF p
  <2>3. AtItem(d)
    BY <2>1 DEF AtItem, Keeps, Looking, Changing
  <2>4. Carried(w, d)
    BY <1>1, <1>2, <1>5, <2>1 DEF Carried
  <2>. QED BY <1>1, <1>2, <2>3, <2>4 DEF Goes, Stepped
<1>. QED BY <1>4, <1>5

\* The looks.
LEMMA LookGoes ==
  ASSUME ToolsBase, NEW w \in Workers, CheckTableExists(w) \/ LoadCurrentTable(w) \/ FindTable(w)
  PROVE  Goes(w)
<1>1. PICK exists \in BOOLEAN, p \in {"check", "write"} :
        /\ Look(w, exists, p) /\ (exists \/ Tool(w) = "create_tables") /\ (p = "write" => Tool(w) = "delete_tables")
        /\ (~exists => Tool(w) = "create_tables")
  BY DEF CheckTableExists, LoadCurrentTable, FindTable
<1>. DEFINE c == call[w]
            found == tables[Item(w).name]
            d == [c EXCEPT !.seen = found, !.pc = p]
<1>2. c.pc = "look" /\ Unchanging /\ UNCHANGED unheard
  BY <1>1 DEF Look, Unchanging, store, turns
<1>3. c \in CallStates /\ AtItem(c)
  BY ToolTypes
<1>4. \/ (found /= Absent) = exists /\ Puts(w, d)
      \/ Over(w, FALSE)
  BY <1>1, ToolTypes DEF Look, Puts
<1>5. CASE Over(w, FALSE)
  <2>1. c.pc \in Looking \cup Changing
    BY <1>2 DEF Looking
  <2>. QED BY <1>2, <1>5, <2>1, OverGoes DEF Goes, Stepped, Looking
<1>6. CASE (found /= Absent) = exists /\ Puts(w, d)
  <2>1. OnTables(c.what.tool) /\ c.at \in 1 .. Len(c.what.items)
    BY <1>2, <1>3 DEF AtItem, Looking
  <2>2. found \in Tables \cup {Absent}
    <3>1. Item(w).name \in Names
      BY <1>3, <2>1, ItemIs DEF Item
    <3>. QED BY <3>1, ToolTypes
  <2>3. p \in Points
    BY DEF Points, Looking, Changing
  <2>4. Tool(w) = "update_tables" => found \in Tables
    BY <1>1, <1>6, <2>2
  <2>. HIDE DEF c, found
  <2>5. d \in CallStates
    BY <1>3, <2>2, <2>3, CallWith
  <2>8. Keeps(c, d) /\ d.pc = p /\ d.seen = found
    BY <1>3 DEF Keeps, CallStates
  <2>. HIDE DEF d
  <2>6. AtItem(d)
    BY <1>1, <2>1, <2>4, <2>8 DEF AtItem, Keeps, Looking, Changing, Tool, c
  <2>7. Carried(w, d)
    BY <1>2, <2>8 DEF Carried, Looking, c
  <2>. QED BY <1>2, <1>6, <2>5, <2>6, <2>7 DEF Goes, Stepped
<1>. QED BY <1>4, <1>5, <1>6

\* The checks of the data.
LEMMA ValidateGoes ==
  ASSUME ToolsBase, NEW w \in Workers, ValidateTableData(w) \/ ValidateUpdateData(w)
  PROVE  Goes(w)
<1>1. PICK looks \in BOOLEAN : Validate(w, looks) /\ Tool(w) /= "delete_tables"
  <2>1. (Given(Item(w).relations) /= {}) \in BOOLEAN
        /\ (Given(Item(w).relations) /= {} /\ Sound(Tool(w), Item(w))) \in BOOLEAN
    OBVIOUS
  <2>. QED BY <2>1 DEF ValidateTableData, ValidateUpdateData
<1>. DEFINE p == IF looks THEN "conflicts" ELSE "merge"
<1>2. call[w].pc = "check" /\ Unchanging /\ UNCHANGED unheard
  BY <1>1 DEF Validate, Unchanging, store, turns
<1>3. AtItem(call[w]) /\ p \in Points
  BY ToolTypes DEF Points, Looking
<1>4. Over(w, FALSE) \/ (Sound(Tool(w), Item(w)) /\ GoOn(w, p))
  BY <1>1 DEF Validate
<1>. HIDE DEF p
<1>5. CASE Over(w, FALSE)
  <2>1. call[w].pc \in Looking \cup Changing
    BY <1>2 DEF Looking
  <2>. QED BY <1>2, <1>5, <2>1, OverGoes DEF Goes, Stepped, Looking
<1>6. CASE Sound(Tool(w), Item(w)) /\ GoOn(w, p)
  <2>1. PICK d \in CallStates : /\ Puts(w, d) /\ Keeps(call[w], d) /\ d.pc = p
                                /\ d.seen = call[w].seen /\ d.body = call[w].body
    BY <1>3, <1>6, GoOnIs
  <2>2. p \in {"conflicts", "merge"}
    BY DEF p
  <2>3. AtItem(d)
    BY <1>1, <1>2, <1>3, <1>6, <2>1, <2>2 DEF AtItem, Keeps, Looking, Changing, Tool, Item
  <2>4. Carried(w, d)
    BY <1>2, <2>1, <2>2 DEF Carried, Looking
  <2>. QED BY <1>2, <2>1, <2>3, <2>4 DEF Goes, Stepped
<1>. QED BY <1>4, <1>5, <1>6

\* The conflicts.
LEMMA ConflictsGoes ==
  ASSUME ToolsBase, NEW w \in Workers, CheckConflicts(w) \/ CheckUpdateConflicts(w)
  PROVE  Goes(w)
<1>. DEFINE c == call[w]
            e == [c EXCEPT !.stop = TRUE, !.pc = "merge"]
<1>1. c.pc = "conflicts" /\ Unchanging /\ UNCHANGED unheard
  BY DEF CheckConflicts, CheckUpdateConflicts, Unchanging, store, turns
<1>2. c \in CallStates /\ AtItem(c) /\ "merge" \in Points
  BY ToolTypes DEF Points, Looking
<1>3. Over(w, FALSE) \/ GoOn(w, "merge") \/ Puts(w, e)
  BY ToolTypes DEF CheckConflicts, CheckUpdateConflicts, Puts
<1>4. CASE Over(w, FALSE)
  <2>1. c.pc \in Looking \cup Changing
    BY <1>1 DEF Looking
  <2>. QED BY <1>1, <1>4, <2>1, OverGoes DEF Goes, Stepped, Looking
<1>5. CASE GoOn(w, "merge") \/ Puts(w, e)
  <2>1. PICK d \in CallStates : Puts(w, d) /\ Keeps(c, d) /\ d.pc = "merge" /\ d.seen = c.seen
    <3>1. CASE GoOn(w, "merge")
      BY <1>2, <3>1, GoOnIs
    <3>2. CASE Puts(w, e)
      <4>. HIDE DEF c
      <4>1. e \in CallStates
        BY <1>2, CallWith
      <4>2. Keeps(c, e) /\ e.pc = "merge" /\ e.seen = c.seen
        BY <1>2 DEF Keeps, CallStates
      <4>. QED BY <3>2, <4>1, <4>2
    <3>. QED BY <1>5, <3>1, <3>2
  <2>. HIDE DEF c
  <2>2. AtItem(d)
    BY <1>1, <1>2, <2>1 DEF AtItem, Keeps, Looking, Changing
  <2>3. Carried(w, d)
    BY <1>1, <2>1 DEF Carried, Looking, c
  <2>. QED BY <1>1, <2>1, <2>2, <2>3 DEF Goes, Stepped
<1>. QED BY <1>3, <1>4, <1>5

\* The body.
LEMMA MergeGoes ==
  ASSUME ToolsBase, NEW w \in Workers, MergeTable(w)
  PROVE  Goes(w)
<1>. DEFINE c == call[w]
            body == Wished(c)
            d == [c EXCEPT !.pc = "write", !.body = body]
<1>1. c.pc = "merge" /\ Unchanging /\ UNCHANGED unheard
  BY DEF MergeTable, Unchanging, store, turns
<1>2. c \in CallStates /\ AtItem(c) /\ "write" \in Points
  BY ToolTypes DEF Points, Changing
<1>3. Puts(w, d)
  BY ToolTypes DEF MergeTable, Puts, Wished, Tool, Item
<1>4. OnTables(c.what.tool) /\ c.at \in 1 .. Len(c.what.items) /\ c.what.tool /= "delete_tables"
      /\ Sound(c.what.tool, c.what.items[c.at]) /\ (c.what.tool = "update_tables" => c.seen \in Tables)
  BY <1>1, <1>2 DEF AtItem, Looking
<1>5. body \in Tables
  BY <1>2, <1>4, WishedIs
<1>6. body = Wished(c)
  OBVIOUS
<1>. HIDE DEF c, body
<1>7. d \in CallStates
  BY <1>2, <1>5, CallWith
<1>10. Keeps(c, d) /\ d.pc = "write" /\ d.seen = c.seen /\ d.body = body
  BY <1>2 DEF Keeps, CallStates
<1>. HIDE DEF d
<1>8. AtItem(d)
  BY <1>4, <1>6, <1>10 DEF AtItem, Keeps, Looking, Changing, Wished
<1>9. Carried(w, d)
  BY <1>1, <1>10 DEF Carried, Looking, c
<1>. QED BY <1>1, <1>3, <1>7, <1>8, <1>9 DEF Goes, Stepped

\* The lock.
LEMMA LockGoes ==
  ASSUME ToolsBase, NEW w \in Workers, TakeLock(w)
  PROVE  Goes(w)
<1>1. call[w].pc = "write" /\ Unchanging /\ UNCHANGED unheard
  BY DEF TakeLock, Unchanging, store, turns
<1>2. GoOn(w, "begin") \/ \E temporary \in BOOLEAN : FailedChange(w, temporary)
  <2>1. FALSE \in BOOLEAN
    OBVIOUS
  <2>. QED BY <2>1 DEF TakeLock
<1>3. AtItem(call[w]) /\ call[w].pc \in Changing
  BY <1>1, ToolTypes DEF Changing
<1>4. CASE GoOn(w, "begin")
  <2>1. "begin" \in Points
    BY DEF Points, Changing
  <2>2. PICK d \in CallStates : /\ Puts(w, d) /\ Keeps(call[w], d) /\ d.pc = "begin"
                                /\ d.seen = call[w].seen /\ d.body = call[w].body
    BY <1>4, <2>1, GoOnIs
  <2>3. AtItem(d)
    BY <1>1, <1>3, <2>2 DEF AtItem, Keeps, Looking, Changing, Wished
  <2>4. Carried(w, d)
    BY <1>1, <2>2 DEF Carried
  <2>. QED BY <1>1, <2>2, <2>3, <2>4 DEF Goes, Stepped
<1>5. CASE \E temporary \in BOOLEAN : FailedChange(w, temporary)
  <2>1. PICK d \in CallStates : /\ Puts(w, d) /\ AtItem(d)
                                /\ Concluded(w, d, FALSE) \/ (Keeps(call[w], d) /\ d.pc = "write")
    BY <1>3, <1>5, FailedGoes
  <2>2. Concluded(w, d, FALSE) \/ Carried(w, d)
    BY <1>1, <2>1 DEF Carried
  <2>. QED BY <1>1, <2>1, <2>2 DEF Goes, Stepped
<1>. QED BY <1>2, <1>4, <1>5

\* The transaction begins.
LEMMA BeginChangeGoes ==
  ASSUME ToolsBase, NEW w \in Workers, BeginChange(w)
  PROVE  Goes(w)
<1>. DEFINE c == call[w]
            found == tables[Item(w).name]
            d == [c EXCEPT !.view = found, !.pc = "change"]
<1>1. c.pc = "begin" /\ Unchanging /\ UNCHANGED unheard
  BY DEF BeginChange, Unchanging, store, turns
<1>2. c \in CallStates /\ AtItem(c) /\ "change" \in Points
  BY ToolTypes DEF Points, Changing
<1>3. Puts(w, d)
  BY ToolTypes DEF BeginChange, Puts
<1>4. found \in Tables \cup {Absent}
  <2>1. OnTables(c.what.tool) /\ c.at \in 1 .. Len(c.what.items)
    BY <1>1, <1>2 DEF AtItem, Changing
  <2>2. Item(w).name \in Names
    BY <1>2, <2>1, ItemIs DEF Item
  <2>. QED BY <2>2, ToolTypes
<1>. HIDE DEF c, found
<1>5. d \in CallStates
  BY <1>2, <1>4, CallWith
<1>6. Keeps(c, d) /\ d.pc = "change" /\ d.seen = c.seen /\ d.body = c.body
  BY <1>2 DEF Keeps, CallStates
<1>. HIDE DEF d
<1>7. AtItem(d)
  BY <1>1, <1>2, <1>6 DEF AtItem, Keeps, Looking, Changing, Wished
<1>8. Carried(w, d)
  BY <1>1, <1>6 DEF Carried, c
<1>. QED BY <1>1, <1>3, <1>5, <1>7, <1>8 DEF Goes, Stepped

\* The change.
LEMMA ChangeGoes ==
  ASSUME ToolsBase, NEW w \in Workers, Change(w)
  PROVE  Goes(w)
<1>1. call[w].pc = "change" /\ UNCHANGED <<todo, stopped, unheard>>
  BY DEF Change, turns
<1>2. \/ /\ \E visible \in {call[w].view, tables[Item(w).name]} : ~Refused(w, visible) /\ Apply(w, visible)
         /\ applied' = applied \cup {Id(w)} /\ GoOn(w, "read")
      \/ (\E temporary \in BOOLEAN : FailedChange(w, temporary)) /\ UNCHANGED <<tables, applied, promised, crossed>>
  <2>1. FALSE \in BOOLEAN
    OBVIOUS
  <2>. QED BY <2>1 DEF Change
<1>3. AtItem(call[w]) /\ call[w].pc \in Changing
  BY <1>1, ToolTypes DEF Changing
<1>4. CASE /\ \E visible \in {call[w].view, tables[Item(w).name]} : ~Refused(w, visible) /\ Apply(w, visible)
           /\ applied' = applied \cup {Id(w)} /\ GoOn(w, "read")
  <2>1. "read" \in Points
    BY DEF Points, Changing
  <2>2. PICK d \in CallStates : /\ Puts(w, d) /\ Keeps(call[w], d) /\ d.pc = "read"
                                /\ d.seen = call[w].seen /\ d.body = call[w].body
    BY <1>4, <2>1, GoOnIs
  <2>3. AtItem(d)
    BY <1>1, <1>3, <2>2 DEF AtItem, Keeps, Looking, Changing, Wished
  <2>4. Changed(w, d)
    BY <1>1, <1>4, <2>2 DEF Changed
  <2>. QED BY <1>1, <2>2, <2>3, <2>4 DEF Goes, Stepped
<1>5. CASE (\E temporary \in BOOLEAN : FailedChange(w, temporary)) /\ UNCHANGED <<tables, applied, promised, crossed>>
  <2>1. PICK d \in CallStates : /\ Puts(w, d) /\ AtItem(d)
                                /\ Concluded(w, d, FALSE) \/ (Keeps(call[w], d) /\ d.pc = "write")
    BY <1>3, <1>5, FailedGoes
  <2>2. Concluded(w, d, FALSE) \/ Carried(w, d)
    BY <1>1, <2>1 DEF Carried
  <2>3. Unchanging
    BY <1>1, <1>5 DEF Unchanging
  <2>. QED BY <1>1, <2>1, <2>2, <2>3 DEF Goes, Stepped
<1>. QED BY <1>2, <1>4, <1>5

\* The read-back.
LEMMA ReadGoes ==
  ASSUME ToolsBase, NEW w \in Workers, Read(w)
  PROVE  Goes(w)
<1>1. call[w].pc = "read" /\ Unchanging
  BY DEF Read, Unchanging, store, turns
<1>2. \/ Over(w, TRUE) /\ UNCHANGED unheard
      \/ unheard' = unheard \cup {Id(w)} /\ \E temporary \in BOOLEAN : FailedChange(w, temporary)
  BY DEF Read
<1>3. call[w].pc \in Changing
  BY <1>1 DEF Changing
<1>4. CASE Over(w, TRUE) /\ UNCHANGED unheard
  <2>1. TRUE \in BOOLEAN
    OBVIOUS
  <2>2. \E d \in CallStates : Puts(w, d) /\ AtItem(d) /\ Concluded(w, d, TRUE)
    BY <1>3, <1>4, <2>1, OverGoes
  <2>. QED BY <1>1, <1>4, <2>2 DEF Goes, Stepped
<1>5. CASE unheard' = unheard \cup {Id(w)} /\ \E temporary \in BOOLEAN : FailedChange(w, temporary)
  <2>1. PICK d \in CallStates : /\ Puts(w, d) /\ AtItem(d)
                                /\ Concluded(w, d, FALSE) \/ (Keeps(call[w], d) /\ d.pc = "write")
    BY <1>3, <1>5, FailedGoes
  <2>. QED BY <1>1, <1>5, <2>1 DEF Goes, Stepped
<1>. QED BY <1>2, <1>4, <1>5

\* The chunks.
LEMMA ChunkGoes ==
  ASSUME ToolsBase, NEW w \in Workers, RecordChunk(w)
  PROVE  Goes(w)
<1>. DEFINE c == call[w]
            next == {i \in c.at .. c.at + BatchSize - 1 : i <= Len(c.what.items)}
            e == [c EXCEPT !.flight = next, !.at = c.at + BatchSize]
<1>1. c.pc = "chunk" /\ c.flight = {} /\ Unchanging /\ UNCHANGED unheard
  BY DEF RecordChunk, Unchanging, store, turns
<1>2. c \in CallStates /\ AtItem(c) /\ "idle" \in Points
  BY ToolTypes DEF Points
<1>3. c.at \in Nat /\ c.at + BatchSize \in Nat \ {0} /\ next \subseteq Nat
  <2>1. BatchSize \in Nat \ {0} /\ c.at \in Nat
    BY <1>2, CallIs, TablesAssumption
  <2>. QED BY <2>1
<1>4. (GoOn(w, "idle") /\ (next = {} \/ w \in stopped)) \/ Puts(w, e)
  BY ToolTypes DEF RecordChunk, Puts
<1>5. CASE GoOn(w, "idle") /\ (next = {} \/ w \in stopped)
  <2>1. PICK d \in CallStates : Puts(w, d) /\ Keeps(c, d) /\ d.pc = "idle"
    BY <1>2, <1>5, GoOnIs
  <2>2. AtItem(d)
    BY <2>1 DEF AtItem, Looking, Changing
  <2>3. Batched(w, d)
    BY <1>1, <1>5, <2>1 DEF Batched, Chunking, Keeps
  <2>. QED BY <1>1, <2>1, <2>2, <2>3 DEF Goes, Stepped
<1>6. CASE Puts(w, e)
  <2>. DEFINE at == c.at + BatchSize
  <2>1. next \in SUBSET Nat /\ at \in Nat \ {0} /\ e = [c EXCEPT !.flight = next, !.at = at]
    BY <1>3
  <2>4. next = {i \in c.at .. c.at + BatchSize - 1 : i <= Len(c.what.items)} /\ at = c.at + BatchSize
    OBVIOUS
  <2>. HIDE DEF c, next, at
  <2>2. e \in CallStates
    BY <1>2, <2>1, CallWith
  <2>3. e.pc = c.pc /\ e.what = c.what /\ e.results = c.results /\ e.flight = next /\ e.at = at
    BY <1>2, <2>1 DEF CallStates
  <2>. HIDE DEF e
  <2>7. next \subseteq 1 .. Len(c.what.items)
    <3>1. Len(c.what.items) \in Nat /\ c.at \in Nat \ {0} /\ BatchSize \in Nat
      BY <1>1, <1>2, CallItems, TablesAssumption DEF AtItem
    <3>. QED BY <2>4, <3>1
  <2>5. AtItem(e)
    BY <1>1, <1>2, <2>1, <2>3, <2>7 DEF AtItem, Looking, Changing
  <2>6. Batched(w, e)
    BY <1>1, <2>3, <2>4 DEF Batched, Chunking, c
  <2>. QED BY <1>1, <1>6, <2>2, <2>5, <2>6 DEF Goes, Stepped
<1>. QED BY <1>4, <1>5, <1>6

\* A write comes back.
LEMMA WriteGoes ==
  ASSUME ToolsBase, NEW w \in Workers, WriteRecord(w)
  PROVE  Goes(w)
<1>. DEFINE c == call[w]
<1>1. c.pc = "chunk" /\ UNCHANGED <<tables, promised, crossed, todo, stopped>>
  BY DEF WriteRecord, turns
<1>2. PICK i \in c.flight, ok \in BOOLEAN :
        /\ call' = [call EXCEPT ![w].flight = @ \ {i}, ![w].results = Append(@, [at |-> i, ok |-> ok])]
        /\ \/ UNCHANGED unheard /\ applied' = IF ok THEN applied \cup {IdOf(w, i)} ELSE applied
           \/ ~ok /\ unheard' = unheard \cup {IdOf(w, i)} /\ applied' = applied \cup {IdOf(w, i)}
  <2>1. TRUE \in BOOLEAN /\ FALSE \in BOOLEAN
    OBVIOUS
  <2>. QED BY <2>1 DEF WriteRecord, IdOf
<1>. DEFINE left == c.flight \ {i}
            told == Append(c.results, [at |-> i, ok |-> ok])
            d == [c EXCEPT !.flight = left, !.results = told]
<1>3. c \in CallStates /\ AtItem(c)
  BY ToolTypes
<1>4. Puts(w, d)
  BY <1>2, ToolTypes DEF Puts
<1>5. left = c.flight \ {i} /\ told = Append(c.results, [at |-> i, ok |-> ok])
  OBVIOUS
<1>6. left \in SUBSET Nat /\ told \in Seq(Reports)
  <2>1. c.flight \subseteq Nat /\ c.results \in Seq(Reports)
    BY <1>3, CallIs
  <2>2. [at |-> i, ok |-> ok] \in Reports
    BY <2>1 DEF Reports
  <2>. HIDE DEF c
  <2>. QED BY <2>1, <2>2
<1>. HIDE DEF c, left, told
<1>7. d \in CallStates
  BY <1>3, <1>6, CallWith
<1>8. d.pc = c.pc /\ d.what = c.what /\ d.at = c.at /\ d.flight = left /\ d.results = told
  BY <1>3 DEF CallStates
<1>. HIDE DEF d
<1>9. AtItem(d)
  BY <1>1, <1>3, <1>5, <1>8 DEF AtItem, Looking, Changing
<1>10. Returns(w, d)
  BY <1>1, <1>2, <1>5, <1>8 DEF Returns, c
<1>. QED BY <1>4, <1>7, <1>9, <1>10 DEF Goes, Stepped

\* Every step of a worker is one of these.
LEMMA ToolGoes ==
  ASSUME ToolsBase, NEW w \in Workers, ToolStep(w)
  PROVE  Goes(w)
BY BeginGoes, NextGoes, LookGoes, ValidateGoes, ConflictsGoes, MergeGoes, LockGoes, BeginChangeGoes, ChangeGoes, ReadGoes, ChunkGoes,
   WriteGoes DEF ToolStep

-----------------------------------------------------------------------------
(* The types of a step                                                      *)

\* What the change of a table finds, and what it makes of the table.
LEMMA ChangeIs ==
  ASSUME ToolsBase, NEW w \in Workers, call[w].pc \in Changing
  PROVE  /\ Item(w).name \in Names /\ Item(w) \in TableItems /\ Item(w) = call[w].what.items[call[w].at]
         /\ Tool(w) \in {"create_tables", "update_tables", "delete_tables"}
         /\ Tool(w) /= "delete_tables" => /\ call[w].body \in Tables /\ call[w].body = Wished(call[w])
                                          /\ Sound(Tool(w), Item(w))
         /\ Tool(w) = "update_tables" => call[w].seen \in Tables
<1>. DEFINE c == call[w]
<1>1. c \in CallStates /\ AtItem(c)
  BY ToolTypes
<1>2. /\ OnTables(c.what.tool) /\ c.at \in 1 .. Len(c.what.items)
      /\ c.what.tool = "update_tables" => c.seen \in Tables
      /\ c.what.tool /= "delete_tables" => c.body = Wished(c) /\ Sound(c.what.tool, c.what.items[c.at])
  BY <1>1 DEF AtItem
<1>3. Wished(c) \in Tables
  BY <1>1, <1>2, WishedIs
<1>4. c.what.items[c.at] \in TableItems /\ c.what.items[c.at].name \in Names
  BY <1>1, <1>2, ItemIs
<1>. QED BY <1>2, <1>3, <1>4 DEF Item, Tool, OnTables

LEMMA ReplacedIs ==
  ASSUME ToolsBase, NEW now \in Tables, NEW visible \in Tables, NEW body \in Tables
  PROVE  /\ Replaced(now, visible, body) \in Tables
         /\ \A r \in Replaced(now, visible, body).relations :
              \/ r \in body.relations /\ Thing(r) \in Named(now.ids \cap body.ids) \cup Inserted(body)
              \/ r \in now.relations
<1>1. /\ now.columns \in SUBSET STRING /\ now.relations \in SUBSET Relations
      /\ now.ids \in SUBSET (Things \X Nat) /\ now.lost \in SUBSET Things
  BY TableIs
<1>2. body.columns \in SUBSET STRING /\ body.relations \in SUBSET Relations
  BY TableIs
<1>3. Remaining(now, visible, body) \subseteq now.ids
  BY DEF Remaining
<1>4. Inserted(body) \subseteq Things /\ serial + 1 \in Nat
  BY <1>2, ThingsAre, ToolTypes DEF Inserted
<1>. DEFINE left == Remaining(now, visible, body)
            written == Named(left \cap body.ids) \cup Inserted(body)
            unseen == Named(left \ body.ids)
            columns == {c \in body.columns : <<"column", c>> \in written} \cup {c \in now.columns : <<"column", c>> \in unseen}
            relations == {r \in body.relations : Thing(r) \in written} \cup {r \in now.relations : Thing(r) \in unseen}
            ids == left \cup {<<x, serial + 1>> : x \in Inserted(body)}
            lost == (now.lost \cap Named(left)) \cup (Inserted(body) \cap Named(visible.ids))
<1>5. Replaced(now, visible, body) = [columns |-> columns, relations |-> relations, ids |-> ids, lost |-> lost]
  BY DEF Replaced
<1>6. columns \in SUBSET STRING
  BY <1>1, <1>2
<1>7. relations \in SUBSET Relations
  BY <1>1, <1>2
<1>8. ids \in SUBSET (Things \X Nat)
  <2>1. \A x \in Inserted(body) : <<x, serial + 1>> \in Things \X Nat
    BY <1>4
  <2>2. left \subseteq Things \X Nat
    BY <1>1, <1>3
  <2>. HIDE DEF left
  <2>. QED BY <2>1, <2>2
<1>9. lost \in SUBSET Things
  BY <1>1, <1>4
<1>10. written \subseteq Named(now.ids \cap body.ids) \cup Inserted(body)
  <2>1. left \cap body.ids \subseteq now.ids \cap body.ids
    BY <1>3
  <2>. HIDE DEF left
  <2>. QED BY <2>1 DEF Named
<1>11. \A r \in relations : \/ r \in body.relations /\ Thing(r) \in Named(now.ids \cap body.ids) \cup Inserted(body)
                           \/ r \in now.relations
  <2>. HIDE DEF written, unseen
  <2>. QED BY <1>10
<1>. HIDE DEF columns, relations, ids, lost
<1>12. Replaced(now, visible, body).relations = relations
  BY <1>5
<1>13. Replaced(now, visible, body) \in Tables
  BY <1>5, <1>6, <1>7, <1>8, <1>9, IsTable
<1>. QED BY <1>11, <1>12, <1>13

LEMMA WithoutIs ==
  ASSUME NEW table \in Tables \cup {Absent}, NEW name
  PROVE  /\ Without(table, name) \in Tables \cup {Absent}
         /\ (Without(table, name) = Absent) <=> (table = Absent)
         /\ table /= Absent =>
              /\ Without(table, name).columns = table.columns
              /\ Without(table, name).relations = {r \in table.relations : r.target /= name}
              /\ Without(table, name).lost \subseteq table.lost
              /\ \A c : <<"column", c>> \in table.lost => <<"column", c>> \in Without(table, name).lost
<1>1. CASE table = Absent
  BY <1>1 DEF Without
<1>2. CASE table /= Absent
  <2>. DEFINE gone == {Thing(r) : r \in {x \in table.relations : x.target = name}}
              relations == {r \in table.relations : r.target /= name}
              ids == {row \in table.ids : row[1] \notin gone}
              lost == table.lost \ gone
              kept == [table EXCEPT !.relations = relations, !.ids = ids, !.lost = lost]
  <2>1. table \in Tables /\ Without(table, name) = kept
    BY <1>2 DEF Without
  <2>2. /\ table.columns \in SUBSET STRING /\ table.relations \in SUBSET Relations
        /\ table.ids \in SUBSET (Things \X Nat) /\ table.lost \in SUBSET Things
        /\ table = [columns |-> table.columns, relations |-> table.relations, ids |-> table.ids, lost |-> table.lost]
    BY <2>1, TableIs
  <2>3. \A c : <<"column", c>> \notin gone
    BY DEF Thing
  <2>4. lost \subseteq table.lost /\ \A c : <<"column", c>> \in table.lost => <<"column", c>> \in lost
    <3>. HIDE DEF gone
    <3>. QED BY <2>3
  <2>5. relations \in SUBSET Relations /\ ids \in SUBSET (Things \X Nat) /\ lost \in SUBSET Things
    <3>. HIDE DEF gone
    <3>. QED BY <2>2
  <2>. HIDE DEF relations, ids, lost
  <2>6. kept = [columns |-> table.columns, relations |-> relations, ids |-> ids, lost |-> lost]
    <3>. DEFINE C == SUBSET STRING
                R == SUBSET Relations
                I == SUBSET (Things \X Nat)
                L == SUBSET Things
    <3>1. table \in [columns : C, relations : R, ids : I, lost : L] /\ relations \in R /\ ids \in I /\ lost \in L
      BY <2>1, <2>5 DEF Tables
    <3>. HIDE DEF C, R, I, L
    <3>2. /\ kept \in [columns : C, relations : R, ids : I, lost : L]
          /\ kept.columns = table.columns /\ kept.relations = relations /\ kept.ids = ids /\ kept.lost = lost
      BY <3>1
    <3>. HIDE DEF kept
    <3>. QED BY <3>2
  <2>7. kept \in Tables
    BY <2>2, <2>5, <2>6, IsTable
  <2>8. kept.columns = table.columns /\ kept.relations = relations /\ kept.lost = lost
    BY <2>6
  <2>9. kept /= Absent
    BY <2>7, TablesAssumption
  <2>. HIDE DEF kept
  <2>. QED BY <1>2, <2>1, <2>4, <2>7, <2>8, <2>9 DEF relations
<1>. QED BY <1>1, <1>2

\* A deletion, and a change of one table.
Deletes(name) ==
  /\ tables' = [n \in Names |-> IF n = name THEN Absent ELSE Without(tables[n], name)]
  /\ promised' = [n \in Names |-> IF n = name THEN {}
                    ELSE promised[n] \ {Thing(r) :
                           r \in {x \in (IF tables[n] = Absent THEN {} ELSE tables[n].relations) : x.target = name}}]
  /\ crossed' = crossed \ {name}
Makes(w, visible, name, table) ==
  /\ tables' = [tables EXCEPT ![name] = table] /\ promised' = [promised EXCEPT ![name] = Owed(w)]
  /\ crossed' = IF tables[name] /= call[w].seen \/ visible /= call[w].seen THEN crossed \cup {name} ELSE crossed
Creates(w, body, table) ==
  /\ table.columns = body.columns /\ table.relations = body.relations /\ table.lost = {}
  /\ ~Clash(body) /\ \A r \in body.relations : tables[r.target] /= Absent

\* A creation writes every relation, to a table that is there.
LEMMA CreatesIs ==
  ASSUME ToolsBase, NEW w \in Workers, call[w].pc \in Changing, Tool(w) = "create_tables", NEW visible,
         ~Refused(w, visible)
  PROVE  LET body == call[w].body
             table == [body EXCEPT !.ids = {<<x, serial + 1>> : x \in Inserted(body)}]
         IN table \in Tables /\ Creates(w, body, table)
<1>. DEFINE item == Item(w)
            body == call[w].body
            ids == {<<x, serial + 1>> : x \in Inserted(body)}
            table == [body EXCEPT !.ids = ids]
<1>1. item \in TableItems /\ body \in Tables /\ body = Wished(call[w]) /\ item = call[w].what.items[call[w].at]
  BY ChangeIs
<1>2. body = Body(Given(item.columns), Given(item.relations), {})
  BY <1>1 DEF Wished, Tool
<1>3. Given(item.columns) \in SUBSET STRING /\ Given(item.relations) \in SUBSET Relations
      /\ {} \in SUBSET (Things \X Nat)
  BY <1>1, ItemTypes DEF Given
<1>4. ~Clash(body) /\ ~Missing(body, {}, Inserted(body))
  BY DEF Refused
<1>5. /\ body.columns \in SUBSET STRING /\ body.relations \in SUBSET Relations
      /\ body = [columns |-> body.columns, relations |-> body.relations, ids |-> body.ids, lost |-> body.lost]
  BY <1>1, TableIs
<1>6. body.ids = {} /\ body.lost = {}
  <2>. HIDE DEF body, item
  <2>. QED BY <1>2 DEF Body
<1>7. ids \in SUBSET (Things \X Nat)
  <2>. HIDE DEF body
  <2>1. Inserted(body) \subseteq Things /\ serial + 1 \in Nat
    BY <1>5, ThingsAre, ToolTypes DEF Inserted
  <2>. QED BY <2>1
<1>8. \A r \in body.relations : Thing(r) \in Inserted(body)
  <2>. HIDE DEF body
  <2>. QED BY <1>6 DEF Inserted, ThingsOf, Thing, NamesOf, Named
<1>9. \A r \in body.relations : tables[r.target] /= Absent
  <2>. HIDE DEF body
  <2>. QED BY <1>4, <1>8 DEF Missing
<1>. HIDE DEF body, ids
<1>10. table = [columns |-> body.columns, relations |-> body.relations, ids |-> ids, lost |-> {}]
  BY <1>5, <1>6
<1>11. table \in Tables
  <2>1. {} \in SUBSET Things
    OBVIOUS
  <2>. QED BY <1>5, <1>7, <1>10, <2>1, IsTable
<1>12. table.columns = body.columns /\ table.relations = body.relations /\ table.lost = {}
  BY <1>10
<1>. QED BY <1>4, <1>9, <1>11, <1>12 DEF Creates, body, ids

\* What a change makes of the tables.
LEMMA ApplyIs ==
  ASSUME ToolsBase, NEW w \in Workers, call[w].pc \in Changing,
         NEW visible \in {call[w].view, tables[Item(w).name]}, Apply(w, visible), ~Refused(w, visible)
  PROVE  LET name == Item(w).name
             now == tables[name]
             body == call[w].body
         IN \/ Tool(w) = "delete_tables" /\ Deletes(name)
            \/ UNCHANGED <<tables, promised, crossed>>
            \/ /\ Tool(w) = "create_tables" /\ now = Absent
               /\ \E table \in Tables : Creates(w, body, table) /\ Makes(w, visible, name, table)
            \/ /\ Tool(w) = "update_tables" /\ now \in Tables /\ visible \in Tables /\ body \in Tables
               /\ Makes(w, visible, name, Replaced(now, visible, body)) /\ Replaced(now, visible, body) \in Tables
               /\ ~ColumnClash(Replaced(now, visible, body))
               /\ ~Missing(body, Named(visible.ids), Named(now.ids \cap body.ids) \cup Inserted(body))
<1>. DEFINE name == Item(w).name
            now == tables[name]
            body == call[w].body
<1>1. /\ Tool(w) \in {"create_tables", "update_tables", "delete_tables"} /\ name \in Names
      /\ Tool(w) /= "delete_tables" => body \in Tables
  BY ChangeIs
<1>2. now \in Tables \cup {Absent} /\ visible \in Tables \cup {Absent}
  <2>1. call[w] \in CallStates
    BY ToolTypes
  <2>2. call[w].view \in Tables \cup {Absent}
    BY <2>1, CallIs
  <2>. QED BY <1>1, <2>2, ToolTypes
<1>3. CASE Tool(w) = "delete_tables"
  BY <1>3 DEF Apply, Deletes
<1>4. CASE Tool(w) = "create_tables"
  <2>. DEFINE table == [body EXCEPT !.ids = {<<x, serial + 1>> : x \in Inserted(body)}]
  <2>1. now = Absent
    BY <1>4 DEF Refused
  <2>2. table \in Tables /\ Creates(w, body, table)
    BY <1>4, CreatesIs
  <2>3. Makes(w, visible, name, table)
    BY <1>4, <2>1 DEF Apply, Makes
  <2>. HIDE DEF table
  <2>. QED BY <1>4, <2>1, <2>2, <2>3
<1>5. CASE Tool(w) = "update_tables" /\ now = Absent
  BY <1>5 DEF Apply
<1>6. CASE Tool(w) = "update_tables" /\ now /= Absent
  <2>1. /\ visible /= Absent /\ ~ColumnClash(Replaced(now, visible, body))
        /\ ~Missing(body, Named(visible.ids), Named(now.ids \cap body.ids) \cup Inserted(body))
    BY <1>6 DEF Refused
  <2>2. now \in Tables /\ visible \in Tables /\ body \in Tables
    BY <1>1, <1>2, <1>6, <2>1
  <2>3. Makes(w, visible, name, Replaced(now, visible, body))
    BY <1>6 DEF Apply, Makes
  <2>4. Replaced(now, visible, body) \in Tables
    <3>. HIDE DEF now, body
    <3>. QED BY <2>2, ReplacedIs
  <2>. QED BY <1>6, <2>1, <2>2, <2>3, <2>4
<1>. QED BY <1>1, <1>3, <1>4, <1>5, <1>6

LEMMA OwedIs ==
  ASSUME ToolsBase, NEW w \in Workers, call[w].pc \in Changing
  PROVE  Owed(w) \subseteq Things
<1>. DEFINE item == Item(w)
<1>1. item.name \in Names /\ item \in TableItems
  BY ChangeIs
<1>2. promised[item.name] \subseteq Things
  BY <1>1, ToolTypes
<1>3. Given(item.columns) \in SUBSET STRING /\ Given(item.relations) \in SUBSET Relations
  BY <1>1, ItemTypes DEF Given
<1>. HIDE DEF item
<1>4. ThingsOf(Given(item.columns), Given(item.relations)) \subseteq Things
  BY <1>3, ThingsAre
<1>. DEFINE before == IF item.relations = {} /\ Tool(w) = "update_tables" THEN {x \in promised[item.name] : x[1] = "column"}
                      ELSE promised[item.name]
<1>6. before \subseteq Things
  BY <1>2
<1>7. Owed(w) = before \cup ThingsOf(Given(item.columns), Given(item.relations))
  BY DEF Owed, item
<1>. HIDE DEF before
<1>. QED BY <1>4, <1>6, <1>7

LEMMA ApplyTypes ==
  ASSUME ToolsBase, NEW w \in Workers, call[w].pc \in Changing,
         NEW visible \in {call[w].view, tables[Item(w).name]}, Apply(w, visible), ~Refused(w, visible)
  PROVE  tables' \in [Names -> Tables \cup {Absent}] /\ promised' \in [Names -> SUBSET Things] /\ crossed' \subseteq Names
<1>. DEFINE name == Item(w).name
            State == Tables \cup {Absent}
<1>1. name \in Names /\ tables \in [Names -> State] /\ promised \in [Names -> SUBSET Things] /\ crossed \subseteq Names
  BY ChangeIs, ToolTypes
<1>2. \/ Deletes(name)
      \/ UNCHANGED <<tables, promised, crossed>>
      \/ \E table \in Tables : Makes(w, visible, name, table)
  BY ApplyIs
<1>3. CASE Deletes(name)
  <2>1. \A n \in Names : Without(tables[n], name) \in State
    BY <1>1, WithoutIs
  <2>2. Absent \in State
    OBVIOUS
  <2>. HIDE DEF State, name
  <2>3. tables' \in [Names -> State] /\ crossed' \subseteq Names
    BY <1>1, <1>3, <2>1, <2>2 DEF Deletes
  <2>4. promised' \in [Names -> SUBSET Things]
    <3>. DEFINE gone(n) == {Thing(r) : r \in {x \in (IF tables[n] = Absent THEN {} ELSE tables[n].relations) : x.target = name}}
    <3>1. promised' = [n \in Names |-> IF n = name THEN {} ELSE promised[n] \ gone(n)]
      BY <1>3 DEF Deletes
    <3>. HIDE DEF gone
    <3>. QED BY <1>1, <3>1
  <2>. QED BY <2>3, <2>4 DEF State
<1>4. CASE UNCHANGED <<tables, promised, crossed>>
  BY <1>1, <1>4
<1>5. CASE \E table \in Tables : Makes(w, visible, name, table)
  <2>1. PICK table \in State : Makes(w, visible, name, table)
    BY <1>5
  <2>2. Owed(w) \in SUBSET Things
    BY OwedIs
  <2>. HIDE DEF State, name
  <2>3. tables' \in [Names -> State] /\ crossed' \subseteq Names
    BY <1>1, <2>1 DEF Makes
  <2>4. promised' \in [Names -> SUBSET Things]
    BY <1>1, <2>1, <2>2 DEF Makes
  <2>. QED BY <2>3, <2>4 DEF State
<1>. QED BY <1>2, <1>3, <1>4, <1>5

\* What the steps of a worker do besides.
LEMMA SideTypes ==
  ASSUME ToolsBase, NEW w \in Workers, ToolStep(w)
  PROVE  /\ rows' \subseteq Rows /\ serial' \in Nat /\ granted' \in [Workers -> SUBSET Permissions]
         /\ stumbles' \in Nat
<1>1. rows \subseteq Rows /\ serial \in Nat /\ granted \in [Workers -> SUBSET Permissions] /\ stumbles \in Nat
  BY ToolTypes
<1>6. Stumble => stumbles' \in Nat
  BY <1>1 DEF Stumble
<1>2. CASE BeginTables(w) \/ BeginRecords(w)
  <2>1. PICK p : BeginCall(w, p) /\ todo[w] /= <<>>
    BY <1>2 DEF BeginTables, BeginRecords
  <2>2. UNCHANGED <<rows, serial, stumbles>>
    BY <2>1 DEF BeginCall, store
  <2>. DEFINE what == Head(todo[w])
  <2>3. what \in Calls
    <3>1. todo[w] \in Seq(Calls)
      BY ToolTypes
    <3>. QED BY <2>1, <3>1
  <2>4. UNCHANGED granted \/ granted' = [granted EXCEPT ![w] = @ \cup {Right(what)}]
    BY <2>1 DEF BeginCall, Permission
  <2>. HIDE DEF what
  <2>5. Right(what) \in Permissions
    <3>1. Operation(what.tool) \in {"create", "update", "delete"}
      BY DEF Operation
    <3>2. OnTables(what.tool) \in BOOLEAN
      BY DEF OnTables
    <3>. QED BY <3>1, <3>2 DEF Right, Permissions
  <2>. QED BY <1>1, <2>2, <2>4, <2>5
<1>3. CASE NextItem(w) \/ NextDeletion(w) \/ CheckTableExists(w) \/ LoadCurrentTable(w) \/ FindTable(w)
             \/ ValidateTableData(w) \/ ValidateUpdateData(w) \/ CheckConflicts(w) \/ CheckUpdateConflicts(w) \/ MergeTable(w)
             \/ TakeLock(w) \/ BeginChange(w) \/ Read(w) \/ RecordChunk(w)
  <2>1. UNCHANGED <<rows, serial, granted>>
    BY <1>3 DEF NextItem, NextDeletion, CheckTableExists, LoadCurrentTable, FindTable, Look, ValidateTableData,
      ValidateUpdateData, Validate, CheckConflicts, CheckUpdateConflicts, MergeTable, TakeLock, BeginChange, Read, RecordChunk,
      store, turns
  <2>2. UNCHANGED stumbles \/ Stumble
    BY <1>3 DEF NextItem, NextDeletion, CheckTableExists, LoadCurrentTable, FindTable, Look, ValidateTableData,
      ValidateUpdateData, Validate, CheckConflicts, CheckUpdateConflicts, MergeTable, TakeLock, BeginChange, Read, RecordChunk
  <2>. QED BY <1>1, <1>6, <2>1, <2>2
<1>4. CASE Change(w)
  <2>1. UNCHANGED <<rows, granted>> /\ (UNCHANGED serial \/ serial' = serial + 1) /\ (UNCHANGED stumbles \/ Stumble)
    BY <1>4 DEF Change, turns
  <2>. QED BY <1>1, <1>6, <2>1
<1>5. CASE WriteRecord(w)
  <2>. DEFINE c == call[w]
  <2>1. PICK i \in c.flight : \/ UNCHANGED rows \/ rows' = Written(Tool(w), c.what.items[i].name)
    BY <1>5 DEF WriteRecord
  <2>2. UNCHANGED <<serial, granted>> /\ (UNCHANGED stumbles \/ Stumble) /\ c.pc = "chunk"
    BY <1>5 DEF WriteRecord, turns
  <2>3. c \in CallStates /\ AtItem(c)
    BY ToolTypes
  <2>4. c.what \in Calls /\ ~OnTables(c.what.tool) /\ c.flight \subseteq 1 .. Len(c.what.items)
    BY <2>2, <2>3 DEF AtItem
  <2>5. c.what.items \in Seq(RecordItems)
    BY <2>4 DEF Calls, OnTables
  <2>6. c.what.items[i] \in RecordItems
    BY <2>4, <2>5
  <2>7. c.what.items[i].name \in STRING
    BY <2>6 DEF RecordItems
  <2>. HIDE DEF c
  <2>8. Written(Tool(w), c.what.items[i].name) \subseteq Rows
    BY <1>1, <2>7 DEF Written, Rows
  <2>. QED BY <1>1, <1>6, <2>1, <2>2, <2>8
<1>. QED BY <1>2, <1>3, <1>4, <1>5 DEF ToolStep

\* What a step of a worker makes of what was done.
LEMMA GoesTypes ==
  ASSUME ToolsBase, NEW w \in Workers, NEW d \in CallStates, Stepped(w, d)
  PROVE  /\ tables' \in [Names -> Tables \cup {Absent}] /\ promised' \in [Names -> SUBSET Things]
         /\ crossed' \subseteq Names /\ stopped' \subseteq Workers
         /\ applied' \subseteq Keys /\ unheard' \subseteq Keys /\ todo' \in [Workers -> Seq(Calls)]
<1>. DEFINE State == Tables \cup {Absent}
<1>1. /\ tables \in [Names -> State] /\ promised \in [Names -> SUBSET Things] /\ crossed \subseteq Names
      /\ stopped \subseteq Workers /\ applied \subseteq Keys /\ unheard \subseteq Keys /\ todo \in [Workers -> Seq(Calls)]
  BY ToolTypes
<1>2. call[w] \in CallStates
  BY ToolTypes
<1>3. \A i \in Nat : IdOf(w, i) \in Keys
  <2>1. todo[w] \in Seq(Calls)
    BY <1>1
  <2>2. Len(todo[w]) \in Nat
    BY <2>1
  <2>. QED BY <2>2 DEF IdOf, Keys
<1>4. Id(w) \in Keys
  <2>1. call[w].at \in Nat
    BY <1>2, CallIs
  <2>. QED BY <1>3, <2>1 DEF Id, IdOf
<1>5. UNCHANGED <<tables, promised, crossed>> \/ Changed(w, d)
  BY DEF Stepped, Begun, Unchanging, Returns
<1>6. tables' \in [Names -> State] /\ promised' \in [Names -> SUBSET Things] /\ crossed' \subseteq Names
  <2>1. CASE Changed(w, d)
    <3>1. PICK visible \in {call[w].view, tables[Item(w).name]} : Apply(w, visible) /\ ~Refused(w, visible)
      BY <2>1 DEF Changed
    <3>2. call[w].pc \in Changing
      BY <2>1 DEF Changed, Changing
    <3>. QED BY <3>1, <3>2, ApplyTypes
  <2>. HIDE DEF State
  <2>. QED BY <1>1, <1>5, <2>1
<1>. HIDE DEF State
<1>7. UNCHANGED stopped /\ (UNCHANGED todo \/ (todo[w] /= <<>> /\ todo' = [todo EXCEPT ![w] = Tail(@)]))
  BY DEF Stepped, Begun, Unchanging, Returns, Changed
<1>8. todo' \in [Workers -> Seq(Calls)]
  <2>1. todo[w] /= <<>> => Tail(todo[w]) \in Seq(Calls)
    <3>1. todo[w] \in Seq(Calls)
      BY <1>1
    <3>. QED BY <3>1
  <2>. QED BY <1>1, <1>7, <2>1
<1>9. UNCHANGED <<applied, unheard>> \/ (applied' = applied \cup {Id(w)} /\ UNCHANGED unheard)
      \/ (unheard' = unheard \cup {Id(w)} /\ UNCHANGED applied) \/ Returns(w, d)
  BY DEF Stepped, Begun, Unchanging, Changed
<1>10. Returns(w, d) => applied' \subseteq Keys /\ unheard' \subseteq Keys
  <2>1. call[w].flight \subseteq Nat
    BY <1>2, CallIs
  <2>. QED BY <1>1, <1>3, <2>1 DEF Returns
<1>11. applied' \subseteq Keys /\ unheard' \subseteq Keys
  BY <1>1, <1>4, <1>9, <1>10
<1>. QED BY <1>6, <1>7, <1>1, <1>8, <1>11 DEF State

LEMMA StopIs ==
  ASSUME ToolsBase, NEW w \in Workers, StopTurn(w)
  PROVE  /\ stopped' = stopped \cup {w}
         /\ UNCHANGED <<tables, rows, serial, call, todo, granted, applied, unheard, promised, crossed, stumbles>>
  BY DEF StopTurn, store

\* The steps from here on: one of a worker, a stop, or none.
LEMMA TablesSteps ==
  ASSUME ToolsBase, [TablesNext]_tablesVars
  PROVE  \/ \E w \in Workers : ToolStep(w) /\ \E d \in CallStates : Stepped(w, d)
         \/ /\ UNCHANGED <<tables, rows, serial, call, todo, granted, applied, unheard, promised, crossed, stumbles>>
            /\ (UNCHANGED stopped \/ \E w \in Workers : stopped' = stopped \cup {w})
<1>1. CASE \E w \in Workers : ToolStep(w)
  BY <1>1, ToolGoes DEF Goes
<1>2. CASE \E w \in Workers : StopTurn(w)
  BY <1>2, StopIs
<1>3. CASE UNCHANGED tablesVars
  BY <1>3 DEF tablesVars
<1>. QED BY <1>1, <1>2, <1>3 DEF TablesNext

LEMMA ToolsBaseStarts ==
  ASSUME TablesInit
  PROVE  ToolsBase
<1>. DEFINE State == Tables \cup {Absent}
<1>1. tables \in [Names -> State]
  <2>1. tables = [n \in Names |-> IF n \in DOMAIN Stored THEN Stored[n] ELSE Absent]
    BY DEF TablesInit
  <2>2. \A n \in DOMAIN Stored : Stored[n] \in State
    BY StoredAssumption
  <2>3. Absent \in State
    OBVIOUS
  <2>. HIDE DEF State
  <2>. QED BY <2>1, <2>2, <2>3
<1>2. call \in [Workers -> CallStates] /\ \A w \in Workers : call[w] = Resting
  BY RestingIs DEF TablesInit
<1>3. promised \in [Names -> SUBSET Things]
  <2>. DEFINE first(n) == ThingsOf(Stored[n].columns, Stored[n].relations)
  <2>1. promised = [n \in Names |-> IF n \in DOMAIN Stored THEN first(n) ELSE {}]
    BY DEF TablesInit
  <2>2. \A n \in DOMAIN Stored : first(n) \subseteq Things
    <3>1. \A n \in DOMAIN Stored : Stored[n].columns \in SUBSET STRING /\ Stored[n].relations \in SUBSET Relations
      BY StoredAssumption, TableIs
    <3>. QED BY <3>1, ThingsAre
  <2>. HIDE DEF first
  <2>. QED BY <2>1, <2>2
<1>4. todo \in [Workers -> Seq(Calls)]
  BY TablesAssumption DEF TablesInit
<1>8. rows \subseteq Rows
  BY DEF TablesInit, Rows
<1>5. serial \in Nat /\ stopped \subseteq Workers /\ applied \subseteq Keys
      /\ unheard \subseteq Keys /\ crossed \subseteq Names /\ stumbles \in Nat
  <2>1. serial = 0 /\ stopped = {} /\ applied = {} /\ unheard = {} /\ crossed = {} /\ stumbles = 0
    BY DEF TablesInit
  <2>. QED BY <2>1
<1>6. granted \in [Workers -> SUBSET Permissions]
  <2>1. granted = [w \in Workers |-> {}]
    BY DEF TablesInit
  <2>. QED BY <2>1
<1>7. AtItems
  <2>1. AtItem(Resting)
    BY DEF AtItem, Resting, Looking, Changing
  <2>. QED BY <1>2, <2>1 DEF AtItems
<1>. QED BY <1>1, <1>2, <1>3, <1>4, <1>5, <1>6, <1>7, <1>8 DEF ToolsBase, TablesTypeOK, State

LEMMA ToolsBaseGoesOn ==
  ASSUME ToolsBase, [TablesNext]_tablesVars
  PROVE  ToolsBase'
<1>1. CASE \E w \in Workers : ToolStep(w) /\ \E d \in CallStates : Stepped(w, d)
  <2>1. PICK w \in Workers, d \in CallStates : ToolStep(w) /\ Stepped(w, d)
    BY <1>1
  <2>2. Puts(w, d) /\ AtItem(d)
    BY <2>1 DEF Stepped
  <2>3. call' \in [Workers -> CallStates] /\ call'[w] = d /\ \A q \in Workers : q /= w => call'[q] = call[q]
    BY <2>2, PutsIs
  <2>4. \A q \in Workers : AtItem(call'[q])
    <3>1. \A q \in Workers : AtItem(call[q])
      BY ToolTypes
    <3>. QED BY <2>2, <2>3, <3>1
  <2>5. /\ rows' \subseteq Rows /\ serial' \in Nat /\ granted' \in [Workers -> SUBSET Permissions]
        /\ stumbles' \in Nat
    BY <2>1, SideTypes
  <2>6. /\ tables' \in [Names -> Tables \cup {Absent}] /\ promised' \in [Names -> SUBSET Things]
        /\ crossed' \subseteq Names /\ stopped' \subseteq Workers
        /\ applied' \subseteq Keys /\ unheard' \subseteq Keys /\ todo' \in [Workers -> Seq(Calls)]
    BY <2>1, GoesTypes
  <2>7. AtItems'
    BY <2>4 DEF AtItems
  <2>8. TablesTypeOK'
    BY <2>3, <2>5, <2>6 DEF TablesTypeOK
  <2>. QED BY <2>7, <2>8 DEF ToolsBase
<1>2. CASE /\ UNCHANGED <<tables, rows, serial, call, todo, granted, applied, unheard, promised, crossed, stumbles>>
           /\ (UNCHANGED stopped \/ \E w \in Workers : stopped' = stopped \cup {w})
  <2>1. stopped' \subseteq Workers
    BY <1>2, ToolTypes
  <2>2. AtItems'
    BY <1>2 DEF ToolsBase, AtItems
  <2>3. TablesTypeOK'
    BY <1>2, <2>1 DEF ToolsBase, TablesTypeOK
  <2>. QED BY <2>2, <2>3 DEF ToolsBase
<1>. QED BY <1>1, <1>2, TablesSteps

-----------------------------------------------------------------------------
(* The schema stays sound, and keeps what was promised                      *)

LEMMA SoundStarts ==
  ASSUME TablesInit
  PROVE  SchemaSound /\ UpdatesKeep /\ Promises
<1>1. /\ tables = [n \in Names |-> IF n \in DOMAIN Stored THEN Stored[n] ELSE Absent]
      /\ promised = [n \in Names |-> IF n \in DOMAIN Stored
                       THEN ThingsOf(Stored[n].columns, Stored[n].relations) ELSE {}]
  BY DEF TablesInit
<1>2. \A n \in DOMAIN Stored :
        /\ Stored[n] \in Tables /\ Stored[n].columns \cap Automatic = {} /\ ~Clash(Stored[n])
        /\ \A r \in Stored[n].relations : r.target \in DOMAIN Stored
        /\ Stored[n] /= Absent /\ Stored[n].lost = {}
  BY StoredAssumption, TablesAssumption
<1>3. SchemaSound
  <2>1. SUFFICES ASSUME NEW n \in Names, tables[n] /= Absent
                 PROVE  ~ColumnClash(tables[n]) /\ TargetsExist(tables[n].relations)
    BY DEF SchemaSound
  <2>2. n \in DOMAIN Stored /\ tables[n] = Stored[n]
    BY <1>1, <2>1
  <2>3. \A r \in tables[n].relations : tables[r.target] /= Absent
    <3>1. SUFFICES ASSUME NEW r \in Stored[n].relations
                   PROVE  tables[r.target] /= Absent
      BY <2>2
    <3>2. r \in Relations
      BY <1>2, <2>2, TableIs
    <3>3. r.target \in Names /\ r.target \in DOMAIN Stored
      BY <1>2, <2>2, <3>2 DEF Relations
    <3>. QED BY <1>1, <1>2, <3>3
  <2>4. ~Clash(Stored[n])
    BY <1>2, <2>2
  <2>5. ~ColumnClash(tables[n])
    BY <2>2, <2>4 DEF Clash, ColumnClash
  <2>. QED BY <2>3, <2>5 DEF TargetsExist
<1>4. UpdatesKeep
  <2>1. SUFFICES ASSUME NEW n \in Names, tables[n] /= Absent, NEW x \in promised[n]
                 PROVE  Has(tables[n], x)
    BY DEF UpdatesKeep
  <2>2. n \in DOMAIN Stored /\ tables[n] = Stored[n]
    BY <1>1, <2>1
  <2>. QED BY <1>1, <1>2, <2>2 DEF Has
<1>5. Promises
  <2>1. SUFFICES ASSUME NEW n \in Names
                 PROVE  /\ tables[n] = Absent => promised[n] = {}
                        /\ tables[n] /= Absent /\ n \notin crossed => tables[n].lost = {}
                        /\ \A x \in promised[n] : x[1] = "column" => x[2] \notin Automatic
    BY DEF Promises
  <2>2. tables[n] = Absent => promised[n] = {}
    BY <1>1, <1>2
  <2>3. tables[n] /= Absent /\ n \notin crossed => tables[n].lost = {}
    BY <1>1, <1>2
  <2>4. \A x \in promised[n] : x[1] = "column" => x[2] \notin Automatic
    <3>1. SUFFICES ASSUME NEW x \in promised[n], x[1] = "column"
                   PROVE  x[2] \notin Automatic
      OBVIOUS
    <3>2. n \in DOMAIN Stored
      BY <1>1
    <3>3. \/ \E c \in Stored[n].columns : x = <<"column", c>>
          \/ \E m \in NamesOf(Stored[n].relations) : x = <<"relation", m>>
      BY <1>1, <3>2 DEF ThingsOf
    <3>4. PICK c \in Stored[n].columns : x = <<"column", c>>
      BY <3>1, <3>3
    <3>. QED BY <1>2, <3>2, <3>4
  <2>. QED BY <2>2, <2>3, <2>4
<1>. QED BY <1>3, <1>4, <1>5

\* A change leaves the schema sound.
LEMMA SoundGoesOn ==
  ASSUME ToolsBase, SchemaSound, NEW w \in Workers, call[w].pc \in Changing,
         NEW visible \in {call[w].view, tables[Item(w).name]}, Apply(w, visible), ~Refused(w, visible)
  PROVE  SchemaSound'
<1>. DEFINE name == Item(w).name
            now == tables[name]
            body == call[w].body
            safe(table) == ~ColumnClash(table) /\ \A r \in table.relations : tables'[r.target] /= Absent
<1>1. name \in Names /\ tables \in [Names -> Tables \cup {Absent}]
  BY ChangeIs, ToolTypes
<1>2. \A n \in Names : tables[n] /= Absent =>
        ~ColumnClash(tables[n]) /\ \A r \in tables[n].relations : r.target \in Names /\ tables[r.target] /= Absent
  <2>1. \A n \in Names : tables[n] /= Absent => tables[n].relations \in SUBSET Relations
    BY <1>1, TableIs
  <2>. QED BY <2>1 DEF SchemaSound, TargetsExist, Relations
<1>3. SUFFICES \A n \in Names : tables'[n] /= Absent => safe(tables'[n])
  BY DEF SchemaSound, TargetsExist, ColumnClash, Single
<1>4. CASE Deletes(name)
  <2>1. tables' = [n \in Names |-> IF n = name THEN Absent ELSE Without(tables[n], name)]
    BY <1>4 DEF Deletes
  <2>2. SUFFICES ASSUME NEW n \in Names, tables'[n] /= Absent
                 PROVE  safe(tables'[n])
    OBVIOUS
  <2>. HIDE DEF name
  <2>3. n /= name /\ tables'[n] = Without(tables[n], name) /\ tables[n] /= Absent
    <3>1. n /= name
      BY <2>1, <2>2
    <3>2. tables'[n] = Without(tables[n], name) /\ tables[n] \in Tables \cup {Absent}
      BY <1>1, <2>1, <3>1
    <3>. QED BY <2>2, <3>1, <3>2, WithoutIs
  <2>4. /\ tables'[n].columns = tables[n].columns
        /\ tables'[n].relations = {r \in tables[n].relations : r.target /= name}
        /\ \A c : <<"column", c>> \in tables[n].lost => <<"column", c>> \in tables'[n].lost
    BY <1>1, <2>3, WithoutIs
  <2>5. ~ColumnClash(tables'[n])
    BY <1>2, <2>3, <2>4 DEF ColumnClash
  <2>6. ASSUME NEW r \in tables'[n].relations
        PROVE  tables'[r.target] /= Absent
    <3>1. r.target \in Names /\ r.target /= name /\ tables[r.target] /= Absent
      BY <1>2, <2>3, <2>4
    <3>2. tables'[r.target] = Without(tables[r.target], name)
      BY <2>1, <3>1
    <3>. QED BY <1>1, <3>1, <3>2, WithoutIs
  <2>. QED BY <2>5, <2>6
<1>5. CASE UNCHANGED <<tables, promised, crossed>>
  BY <1>2, <1>5
<1>6. ASSUME NEW table \in Tables, Makes(w, visible, name, table), ~ColumnClash(table),
             \A r \in table.relations : tables[r.target] /= Absent
      PROVE  \A n \in Names : tables'[n] /= Absent => safe(tables'[n])
  <2>1. tables' = [tables EXCEPT ![name] = table]
    BY <1>6 DEF Makes
  <2>2. table.relations \in SUBSET Relations /\ table /= Absent
    BY TableIs, TablesAssumption
  <2>. HIDE DEF name
  <2>3. \A m \in Names : tables[m] /= Absent => tables'[m] /= Absent
    BY <1>1, <2>1, <2>2
  <2>4. ASSUME NEW n \in Names, n = name
        PROVE  safe(tables'[n])
    <3>1. tables'[n] = table
      BY <1>1, <2>1, <2>4
    <3>2. \A r \in table.relations : r.target \in Names
      BY <2>2 DEF Relations
    <3>. QED BY <1>6, <2>3, <3>1, <3>2
  <2>5. ASSUME NEW n \in Names, n /= name, tables'[n] /= Absent
        PROVE  safe(tables'[n])
    <3>1. tables'[n] = tables[n]
      BY <1>1, <2>1, <2>5
    <3>. QED BY <1>2, <2>3, <2>5, <3>1
  <2>. QED BY <2>4, <2>5
<1>7. CASE \E table \in Tables : Creates(w, body, table) /\ Makes(w, visible, name, table)
  <2>1. PICK table \in Tables : Creates(w, body, table) /\ Makes(w, visible, name, table)
    BY <1>7
  <2>. HIDE DEF body, name
  <2>2. ~ColumnClash(table) /\ \A r \in table.relations : tables[r.target] /= Absent
    BY <2>1 DEF Creates, Clash, ColumnClash
  <2>. QED BY <1>6, <2>1, <2>2 DEF name
<1>8. CASE /\ now \in Tables /\ visible \in Tables /\ body \in Tables
           /\ Makes(w, visible, name, Replaced(now, visible, body)) /\ Replaced(now, visible, body) \in Tables
           /\ ~ColumnClash(Replaced(now, visible, body))
           /\ ~Missing(body, Named(visible.ids), Named(now.ids \cap body.ids) \cup Inserted(body))
  <2>1. \A r \in Replaced(now, visible, body).relations :
          \/ r \in body.relations /\ Thing(r) \in Named(now.ids \cap body.ids) \cup Inserted(body)
          \/ r \in now.relations
    <3>. HIDE DEF now, body
    <3>. QED BY <1>8, ReplacedIs
  <2>2. \A r \in now.relations : tables[r.target] /= Absent
    <3>1. now /= Absent
      BY <1>8, TablesAssumption
    <3>. QED BY <1>1, <1>2, <3>1
  <2>. HIDE DEF now, body, name
  <2>3. \A r \in Replaced(now, visible, body).relations : tables[r.target] /= Absent
    BY <1>8, <2>1, <2>2 DEF Missing
  <2>. QED BY <1>6, <1>8, <2>3 DEF name
<1>. HIDE DEF safe
<1>. QED BY <1>4, <1>5, <1>7, <1>8, ApplyIs

\* What a merge keeps.
LEMMA MergedKeeps ==
  ASSUME NEW seen \in Tables, NEW item \in TableItems
  PROVE  LET body == Merged(seen, item) IN
         /\ \A c \in Given(item.columns) : c \in body.columns
         /\ \A c \in seen.columns \ Automatic : c \in body.columns
         /\ NamesOf(Given(item.relations)) \subseteq NamesOf(body.relations)
         /\ item.relations /= {} => NamesOf(seen.relations) \subseteq NamesOf(body.relations)
<1>1. Given(item.columns) \subseteq MergedColumns(seen, item) /\ seen.columns \ Automatic \subseteq MergedColumns(seen, item)
  BY DEF Given, MergedColumns
<1>2. NamesOf(Given(item.relations)) \subseteq NamesOf(MergedRelations(seen, item))
  BY DEF Given, NamesOf, MergedRelations
<1>3. item.relations /= {} => NamesOf(seen.relations) \subseteq NamesOf(MergedRelations(seen, item))
  BY DEF NamesOf, MergedRelations
<1>. QED BY <1>1, <1>2, <1>3, MergedIs

\* A table that nobody changed between the look and the change is made as it
\* was wished: what is sent without an id has no row there, so that no column
\* is dropped under one.
LEMMA ReplacedAll ==
  ASSUME NEW seen \in Tables, NEW item \in TableItems
  PROVE  LET body == Merged(seen, item)
             table == Replaced(seen, seen, body)
         IN /\ ThingsOf(body.columns, body.relations) \subseteq ThingsOf(table.columns, table.relations)
            /\ table.lost \subseteq seen.lost
<1>. DEFINE body == Merged(seen, item)
            table == Replaced(seen, seen, body)
            things == ThingsOf(body.columns, body.relations)
<1>1. body.ids = {row \in seen.ids : row[1] \in things}
  BY MergedIs
<1>. HIDE DEF body
<1>2. Remaining(seen, seen, body) = body.ids
  BY <1>1 DEF Remaining
<1>. DEFINE written == Named(body.ids) \cup Inserted(body)
<1>3. things \subseteq written
  BY DEF Inserted
<1>4. /\ table.columns = {c \in body.columns : <<"column", c>> \in Named(body.ids \cap body.ids) \cup Inserted(body)}
                           \cup {c \in seen.columns : <<"column", c>> \in Named(body.ids \ body.ids)}
      /\ table.relations = {r \in body.relations : Thing(r) \in Named(body.ids \cap body.ids) \cup Inserted(body)}
                             \cup {r \in seen.relations : Thing(r) \in Named(body.ids \ body.ids)}
      /\ table.lost = (seen.lost \cap Named(body.ids)) \cup (Inserted(body) \cap Named(seen.ids))
  BY <1>2 DEF Replaced
<1>5. body.ids \cap body.ids = body.ids
  OBVIOUS
<1>. HIDE DEF table
<1>6. \A c \in body.columns : c \in table.columns
  <2>1. \A c \in body.columns : <<"column", c>> \in written
    BY <1>3 DEF ThingsOf
  <2>. QED BY <1>4, <1>5, <2>1
<1>7. \A r \in body.relations : r \in table.relations
  <2>1. \A r \in body.relations : Thing(r) \in written
    BY <1>3 DEF ThingsOf, Thing, NamesOf
  <2>. QED BY <1>4, <1>5, <2>1
<1>8. things \subseteq ThingsOf(table.columns, table.relations)
  BY <1>6, <1>7 DEF ThingsOf, NamesOf
<1>9. Inserted(body) \cap Named(seen.ids) = {}
  <2>1. SUFFICES ASSUME NEW x \in Inserted(body), x \in Named(seen.ids)
                 PROVE  FALSE
    OBVIOUS
  <2>2. PICK row \in seen.ids : row[1] = x
    BY <2>1 DEF Named
  <2>3. x \in things /\ x \notin Named(body.ids)
    BY <2>1 DEF Inserted
  <2>. QED BY <1>1, <2>2, <2>3 DEF Named
<1>. QED BY <1>4, <1>8, <1>9 DEF body, table

LEMMA OwedKept ==
  ASSUME ToolsBase, UpdatesKeep, Promises, NEW w \in Workers, call[w].pc \in Changing,
         Tool(w) = "update_tables", tables[Item(w).name] = call[w].seen, Item(w).name \notin crossed
  PROVE  LET table == Replaced(call[w].seen, call[w].seen, call[w].body)
         IN table.lost = {} /\ \A x \in Owed(w) : Has(table, x)
<1>. DEFINE item == Item(w)
            seen == call[w].seen
            body == Wished(call[w])
            table == Replaced(seen, seen, body)
<1>1. /\ item \in TableItems /\ item.name \in Names /\ seen \in Tables /\ body = Merged(seen, item) /\ seen /= Absent
      /\ call[w].body = body
  BY ChangeIs, TablesAssumption DEF Wished, Tool
<1>2. promised[item.name] \subseteq Things
  BY <1>1, ToolTypes
<1>3. /\ \A x \in promised[item.name] : Has(seen, x) /\ (x[1] = "column" => x[2] \notin Automatic)
      /\ seen.lost = {}
  BY <1>1 DEF UpdatesKeep, Promises
<1>4. /\ \A c \in Given(item.columns) : c \in body.columns
      /\ \A c \in seen.columns \ Automatic : c \in body.columns
      /\ NamesOf(Given(item.relations)) \subseteq NamesOf(body.relations)
      /\ item.relations /= {} => NamesOf(seen.relations) \subseteq NamesOf(body.relations)
      /\ ThingsOf(body.columns, body.relations) \subseteq ThingsOf(table.columns, table.relations)
      /\ table.lost \subseteq seen.lost
  <2>. HIDE DEF item, seen, body
  <2>. QED BY <1>1, MergedKeeps, ReplacedAll
<1>5. SUFFICES ASSUME NEW x \in Owed(w)
               PROVE  x \in ThingsOf(body.columns, body.relations)
  <2>. HIDE DEF item, seen, body, table
  <2>. QED BY <1>1, <1>3, <1>4 DEF Has, seen, table
<1>6. \/ x \in promised[item.name] /\ (item.relations = {} => x[1] = "column")
      \/ x \in ThingsOf(Given(item.columns), Given(item.relations))
  BY DEF Owed
<1>. HIDE DEF item, seen, body, table
<1>7. CASE x \in promised[item.name] /\ (item.relations = {} => x[1] = "column")
  <2>1. x \in ThingsOf(seen.columns, seen.relations) /\ (x[1] = "column" => x[2] \notin Automatic)
    BY <1>3, <1>7 DEF Has
  <2>2. CASE \E c \in seen.columns : x = <<"column", c>>
    BY <1>4, <2>1, <2>2 DEF ThingsOf
  <2>3. CASE \E n \in NamesOf(seen.relations) : x = <<"relation", n>>
    <3>1. x[1] /= "column"
      BY <2>3
    <3>. QED BY <1>4, <1>7, <2>3, <3>1 DEF ThingsOf
  <2>. QED BY <2>1, <2>2, <2>3 DEF ThingsOf
<1>8. CASE x \in ThingsOf(Given(item.columns), Given(item.relations))
  BY <1>4, <1>8 DEF ThingsOf
<1>. QED BY <1>6, <1>7, <1>8

LEMMA OwedMade ==
  ASSUME ToolsBase, Promises, NEW w \in Workers, call[w].pc \in Changing,
         Tool(w) = "create_tables", tables[Item(w).name] = Absent,
         NEW table \in Tables, Creates(w, call[w].body, table)
  PROVE  \A x \in Owed(w) : Has(table, x)
<1>. DEFINE item == Item(w)
            body == call[w].body
<1>1. item \in TableItems /\ item.name \in Names /\ body = Wished(call[w])
  BY ChangeIs
<1>2. promised[item.name] = {}
  BY <1>1 DEF Promises
<1>3. body = Body(Given(item.columns), Given(item.relations), {})
  BY <1>1 DEF Wished, Tool, Item
<1>4. body.columns = Given(item.columns) /\ body.relations = Given(item.relations)
  <2>. HIDE DEF item, body
  <2>. QED BY <1>3 DEF Body
<1>5. Owed(w) = ThingsOf(Given(item.columns), Given(item.relations))
  BY <1>2 DEF Owed
<1>. HIDE DEF item, body
<1>. QED BY <1>4, <1>5 DEF Has, Creates, body

\* What a change of one table leaves as it was promised.
LEMMA MakesKeeps ==
  ASSUME ToolsBase, UpdatesKeep, Promises, NEW w \in Workers, call[w].pc \in Changing, NEW visible, NEW table \in Tables,
         Makes(w, visible, Item(w).name, table), Tool(w) /= "delete_tables",
         Item(w).name \notin crossed' => table.lost = {} /\ \A x \in Owed(w) : Has(table, x)
  PROVE  UpdatesKeep' /\ Promises'
<1>. DEFINE name == Item(w).name
            good(n) == n \notin crossed' /\ tables'[n] /= Absent => \A x \in promised'[n] : Has(tables'[n], x)
            fair(n) == /\ tables'[n] = Absent => promised'[n] = {}
                       /\ tables'[n] /= Absent /\ n \notin crossed' => tables'[n].lost = {}
                       /\ \A x \in promised'[n] : x[1] = "column" => x[2] \notin Automatic
<1>1. name \in Names /\ tables \in [Names -> Tables \cup {Absent}] /\ promised \in [Names -> SUBSET Things]
  BY ChangeIs, ToolTypes
<1>2. \A n \in Names : /\ n \notin crossed /\ tables[n] /= Absent => \A x \in promised[n] : Has(tables[n], x)
                       /\ tables[n] = Absent => promised[n] = {}
                       /\ tables[n] /= Absent /\ n \notin crossed => tables[n].lost = {}
                       /\ \A x \in promised[n] : x[1] = "column" => x[2] \notin Automatic
  BY DEF UpdatesKeep, Promises
<1>3. SUFFICES ASSUME NEW n \in Names
               PROVE  good(n) /\ fair(n)
  BY DEF UpdatesKeep, Promises, Has, ThingsOf, NamesOf
<1>4. CASE n /= name
  <2>1. tables'[n] = tables[n] /\ promised'[n] = promised[n] /\ (n \notin crossed' => n \notin crossed)
    <3>1. Makes(w, visible, name, table)
      OBVIOUS
    <3>. HIDE DEF name
    <3>. QED BY <1>1, <1>4, <3>1 DEF Makes
  <2>. QED BY <1>2, <2>1
<1>5. CASE n = name
  <2>1. tables'[n] = table /\ promised'[n] = Owed(w) /\ table /= Absent
    <3>1. Makes(w, visible, name, table)
      OBVIOUS
    <3>. HIDE DEF name
    <3>. QED BY <1>1, <1>5, <3>1, TablesAssumption DEF Makes
  <2>2. \A x \in Owed(w) : x[1] = "column" => x[2] \notin Automatic
    <3>1. SUFFICES ASSUME NEW x \in Owed(w), x[1] = "column"
                   PROVE  x[2] \notin Automatic
      OBVIOUS
    <3>2. \/ x \in promised[Item(w).name]
          \/ \E c \in Given(Item(w).columns) : x = <<"column", c>>
          \/ \E m \in NamesOf(Given(Item(w).relations)) : x = <<"relation", m>>
      BY DEF Owed, ThingsOf
    <3>3. Given(Item(w).columns) \cap Automatic = {}
      BY ChangeIs DEF Sound
    <3>. QED BY <1>1, <1>2, <3>1, <3>2, <3>3
  <2>. QED BY <1>5, <2>1, <2>2
<1>. QED BY <1>4, <1>5

\* A change keeps what was promised of the tables.
LEMMA KeepsOn ==
  ASSUME ToolsBase, UpdatesKeep, Promises, NEW w \in Workers, call[w].pc \in Changing,
         NEW visible \in {call[w].view, tables[Item(w).name]}, Apply(w, visible), ~Refused(w, visible)
  PROVE  UpdatesKeep' /\ Promises'
<1>. DEFINE name == Item(w).name
            now == tables[name]
            seen == call[w].seen
            body == call[w].body
            good(n) == n \notin crossed' /\ tables'[n] /= Absent => \A x \in promised'[n] : Has(tables'[n], x)
            fair(n) == /\ tables'[n] = Absent => promised'[n] = {}
                       /\ tables'[n] /= Absent /\ n \notin crossed' => tables'[n].lost = {}
                       /\ \A x \in promised'[n] : x[1] = "column" => x[2] \notin Automatic
<1>1. name \in Names /\ tables \in [Names -> Tables \cup {Absent}] /\ promised \in [Names -> SUBSET Things]
      /\ crossed \subseteq Names
  BY ChangeIs, ToolTypes
<1>2. \A n \in Names : /\ n \notin crossed /\ tables[n] /= Absent => \A x \in promised[n] : Has(tables[n], x)
                       /\ tables[n] = Absent => promised[n] = {}
                       /\ tables[n] /= Absent /\ n \notin crossed => tables[n].lost = {}
                       /\ \A x \in promised[n] : x[1] = "column" => x[2] \notin Automatic
  BY DEF UpdatesKeep, Promises
<1>3. CASE Deletes(name)
  <2>. DEFINE gone(n) == {Thing(r) : r \in {x \in (IF tables[n] = Absent THEN {} ELSE tables[n].relations) : x.target = name}}
  <2>1. /\ tables' = [n \in Names |-> IF n = name THEN Absent ELSE Without(tables[n], name)]
        /\ promised' = [n \in Names |-> IF n = name THEN {} ELSE promised[n] \ gone(n)]
        /\ crossed' = crossed \ {name}
    BY <1>3 DEF Deletes
  <2>2. SUFFICES ASSUME NEW n \in Names
                 PROVE  good(n) /\ fair(n)
    BY DEF UpdatesKeep, Promises, Has, ThingsOf, NamesOf
  <2>3. CASE n = name
    <3>1. tables'[n] = Absent /\ promised'[n] = {}
      BY <2>1, <2>3
    <3>. QED BY <3>1
  <2>4. CASE n /= name
    <3>1. tables'[n] = Without(tables[n], name) /\ promised'[n] = promised[n] \ gone(n)
          /\ (n \notin crossed' => n \notin crossed)
      <4>. HIDE DEF gone, name
      <4>. QED BY <2>1, <2>4
    <3>2. tables[n] \in Tables \cup {Absent} /\ promised[n] \subseteq Things
      BY <1>1
    <3>3. (tables'[n] = Absent <=> tables[n] = Absent)
      BY <3>1, <3>2, WithoutIs
    <3>4. tables[n] /= Absent =>
            /\ tables'[n].columns = tables[n].columns
            /\ tables'[n].relations = {r \in tables[n].relations : r.target /= name}
            /\ tables'[n].lost \subseteq tables[n].lost
      BY <3>1, <3>2, WithoutIs
    <3>5. fair(n)
      <4>1. tables'[n] = Absent => promised'[n] = {}
        BY <1>2, <3>1, <3>3
      <4>2. tables'[n] /= Absent /\ n \notin crossed' => tables'[n].lost = {}
        BY <1>2, <3>1, <3>3, <3>4
      <4>3. \A x \in promised'[n] : x[1] = "column" => x[2] \notin Automatic
        BY <1>2, <3>1
      <4>. QED BY <4>1, <4>2, <4>3
    <3>6. good(n)
      <4>1. SUFFICES ASSUME n \notin crossed', tables'[n] /= Absent, NEW x \in promised'[n]
                     PROVE  Has(tables'[n], x)
        OBVIOUS
      <4>2. x \in promised[n] /\ x \notin gone(n) /\ Has(tables[n], x) /\ tables[n] /= Absent
        BY <1>2, <3>1, <3>3, <4>1
      <4>3. x \notin tables'[n].lost /\ x \in ThingsOf(tables[n].columns, tables[n].relations)
        BY <3>4, <4>2 DEF Has
      <4>4. x \in ThingsOf(tables'[n].columns, tables'[n].relations)
        <5>1. CASE \E c \in tables[n].columns : x = <<"column", c>>
          BY <3>4, <4>2, <5>1 DEF ThingsOf
        <5>2. CASE \E r \in tables[n].relations : x = Thing(r)
          <6>1. PICK r \in tables[n].relations : x = Thing(r)
            BY <5>2
          <6>2. r.target /= name
            BY <4>2, <6>1
          <6>3. r.name \in NamesOf(tables'[n].relations)
            BY <3>4, <4>2, <6>1, <6>2 DEF NamesOf
          <6>. QED BY <6>1, <6>3 DEF ThingsOf, Thing
        <5>. QED BY <4>3, <5>1, <5>2 DEF ThingsOf, Thing, NamesOf
      <4>. QED BY <4>3, <4>4 DEF Has
    <3>. QED BY <3>5, <3>6
  <2>. QED BY <2>3, <2>4
<1>4. CASE UNCHANGED <<tables, promised, crossed>>
  BY <1>4 DEF UpdatesKeep, Promises
<1>5. CASE /\ Tool(w) = "create_tables" /\ now = Absent
           /\ \E table \in Tables : Creates(w, body, table) /\ Makes(w, visible, name, table)
  <2>1. PICK table \in Tables : Creates(w, body, table) /\ Makes(w, visible, name, table)
    BY <1>5
  <2>2. \A x \in Owed(w) : Has(table, x)
    BY <1>5, <2>1, OwedMade
  <2>3. table.lost = {}
    BY <2>1 DEF Creates
  <2>. QED BY <1>5, <2>1, <2>2, <2>3, MakesKeeps
<1>6. CASE /\ Tool(w) = "update_tables" /\ now \in Tables
           /\ Makes(w, visible, name, Replaced(now, visible, body)) /\ Replaced(now, visible, body) \in Tables
  <2>1. ASSUME name \notin crossed'
        PROVE  name \notin crossed /\ now = seen /\ visible = seen
    <3>1. crossed' = IF tables[name] /= call[w].seen \/ visible /= call[w].seen THEN crossed \cup {name} ELSE crossed
      BY <1>6 DEF Makes
    <3>. QED BY <2>1, <3>1
  <2>2. name \notin crossed' => /\ Replaced(now, visible, body).lost = {}
                                /\ \A x \in Owed(w) : Has(Replaced(now, visible, body), x)
    <3>1. SUFFICES ASSUME name \notin crossed'
                   PROVE  /\ Replaced(now, visible, body).lost = {}
                          /\ \A x \in Owed(w) : Has(Replaced(now, visible, body), x)
      OBVIOUS
    <3>2. Replaced(now, visible, body) = Replaced(seen, seen, body)
      BY <2>1, <3>1
    <3>3. Replaced(seen, seen, body).lost = {} /\ \A x \in Owed(w) : Has(Replaced(seen, seen, body), x)
      BY <1>6, <2>1, <3>1, OwedKept
    <3>. QED BY <3>2, <3>3
  <2>. DEFINE table == Replaced(now, visible, body)
  <2>3. Makes(w, visible, name, table) /\ table \in Tables
        /\ (name \notin crossed' => table.lost = {} /\ \A x \in Owed(w) : Has(table, x))
    BY <1>6, <2>2
  <2>. HIDE DEF table
  <2>. QED BY <1>6, <2>3, MakesKeeps
<1>. HIDE DEF good, fair
<1>. QED BY <1>3, <1>4, <1>5, <1>6, ApplyIs

\* The invariant of the schema.
SchemaKept == ToolsBase /\ SchemaSound /\ UpdatesKeep /\ Promises

LEMMA SchemaKeptStarts ==
  ASSUME TablesInit
  PROVE  SchemaKept
BY ToolsBaseStarts, SoundStarts DEF SchemaKept

LEMMA SchemaKeptGoesOn ==
  ASSUME SchemaKept, [TablesNext]_tablesVars
  PROVE  SchemaKept'
<1>1. ToolsBase /\ SchemaSound /\ UpdatesKeep /\ Promises
  BY DEF SchemaKept
<1>2. ToolsBase'
  BY <1>1, ToolsBaseGoesOn
<1>3. CASE UNCHANGED <<tables, promised, crossed>>
  <2>1. SchemaSound'
    BY <1>1, <1>3 DEF SchemaSound, TargetsExist
  <2>2. UpdatesKeep' /\ Promises'
    BY <1>1, <1>3 DEF UpdatesKeep, Promises
  <2>. QED BY <1>2, <2>1, <2>2 DEF SchemaKept
<1>4. CASE \E w \in Workers, d \in CallStates : Changed(w, d)
  <2>1. PICK w \in Workers, d \in CallStates : Changed(w, d)
    BY <1>4
  <2>2. PICK visible \in {call[w].view, tables[Item(w).name]} : Apply(w, visible) /\ ~Refused(w, visible)
    BY <2>1 DEF Changed
  <2>3. call[w].pc \in Changing
    BY <2>1 DEF Changed, Changing
  <2>. QED BY <1>1, <1>2, <2>2, <2>3, SoundGoesOn, KeepsOn DEF SchemaKept
<1>5. \/ UNCHANGED <<tables, promised, crossed>>
      \/ \E w \in Workers, d \in CallStates : Changed(w, d)
  <2>1. CASE \E w \in Workers, d \in CallStates : Stepped(w, d)
    BY <2>1 DEF Stepped, Begun, Unchanging, Returns
  <2>. QED BY <1>1, <2>1, TablesSteps
<1>. QED BY <1>3, <1>4, <1>5

\* The variables keep their types, and each call is at one of its items.
THEOREM ToolsTypes == TablesSpec => []ToolsBase
<1>1. TablesInit => ToolsBase
  BY ToolsBaseStarts
<1>2. ToolsBase /\ [TablesNext]_tablesVars => ToolsBase'
  BY ToolsBaseGoesOn
<1>. QED BY <1>1, <1>2, PTL DEF TablesSpec

LEMMA ToolsKeep == TablesSpec => []SchemaKept
<1>1. TablesInit => SchemaKept
  BY SchemaKeptStarts
<1>2. SchemaKept /\ [TablesNext]_tablesVars => SchemaKept'
  BY SchemaKeptGoesOn
<1>. QED BY <1>1, <1>2, PTL DEF TablesSpec

\* No column has the name of the key of a relation, and every relation leads
\* to a table, whatever two conversations change at once.
THEOREM ToolsSchema == TablesSpec => []SchemaSound
<1>1. SchemaKept => SchemaSound
  BY DEF SchemaKept
<1>. QED BY <1>1, ToolsKeep, PTL

\* What was made of a table stays, until it is taken back, if nobody else
\* changed the table between the look and the change.
THEOREM ToolsUpdates == TablesSpec => []UpdatesKeep
<1>1. SchemaKept => UpdatesKeep
  BY DEF SchemaKept
<1>. QED BY <1>1, ToolsKeep, PTL

-----------------------------------------------------------------------------
(* What is told of a call                                                   *)

\* done and lost hold the items that were changed, and whose answer was lost;
\* the items of a call of w with n calls to come are <<w, n, i>>.
Clean(w, n, i, done, lost) == <<w, n, i>> \notin done /\ <<w, n, i>> \notin lost
Truthful(w, n, told, done, lost) ==
  /\ \A k \in DOMAIN told : <<w, n, told[k].at>> \notin lost => (told[k].ok <=> <<w, n, told[k].at>> \in done)
  /\ \A k, l \in DOMAIN told : told[k].at = told[l].at => k = l

\* Calls on tables tell of one item after the other.
InTurn(w, n, c, done, lost) ==
  c.pc \in {"item"} \cup Looking \cup Changing =>
    /\ Len(c.results) = c.at - 1 /\ \A k \in DOMAIN c.results : c.results[k].at = k
    /\ \A i \in Nat : i > c.at => Clean(w, n, i, done, lost)
    /\ c.pc \in {"item"} \cup Looking => Clean(w, n, c.at, done, lost)
    /\ c.pc \in {"write", "begin", "change"} /\ <<w, n, c.at>> \in done => <<w, n, c.at>> \in lost
    /\ c.pc = "read" => <<w, n, c.at>> \in done

\* Of the items of calls on records before the next chunk, each is told or under way.
Gone(c) == {c.results[k].at : k \in DOMAIN c.results}
InChunks(w, n, c, done, lost) ==
  c.pc = "chunk" =>
    /\ \A i \in c.flight : i < c.at
    /\ Gone(c) \cap c.flight = {} /\ Gone(c) \cup c.flight = {i \in 1 .. Len(c.what.items) : i < c.at}
    /\ \A i \in Nat : i \in c.flight \/ i >= c.at => Clean(w, n, i, done, lost)
Whole(c, ends) == c.pc = "idle" /\ c.results /= <<>> /\ ~ends => Len(c.results) = Len(c.what.items)
Ahead(w, n, done, lost) == \A l, i \in Nat : l < n => Clean(w, l, i, done, lost)
Honest(w, n, c, done, lost, ends) ==
  /\ Truthful(w, n, c.results, done, lost) /\ InTurn(w, n, c, done, lost) /\ InChunks(w, n, c, done, lost)
  /\ Whole(c, ends) /\ Ahead(w, n, done, lost)
Reporting == \A w \in Workers : Honest(w, Len(todo[w]), call[w], applied, unheard, w \in stopped)

\* A call begins.
LEMMA HonestBegun ==
  ASSUME NEW w, NEW n \in Nat \ {0}, NEW c \in CallStates, NEW d \in CallStates, NEW done, NEW lost, NEW ends,
         Honest(w, n, c, done, lost, ends), d.results = <<>>, d.flight = {},
         d.pc = "idle" \/ (d.pc \in {"item", "chunk"} /\ d.at = 1)
  PROVE  Honest(w, n - 1, d, done, lost, ends)
<1>1. \A i \in Nat : Clean(w, n - 1, i, done, lost)
  <2>1. n - 1 \in Nat /\ n - 1 < n /\ Ahead(w, n, done, lost)
    BY DEF Honest
  <2>. QED BY <2>1 DEF Ahead
<1>2. Truthful(w, n - 1, d.results, done, lost) /\ Whole(d, ends)
  BY DEF Truthful, Whole
<1>3. InTurn(w, n - 1, d, done, lost)
  BY <1>1 DEF InTurn, Looking, Changing
<1>4. InChunks(w, n - 1, d, done, lost)
  <2>1. Gone(d) = {}
    BY DEF Gone
  <2>. QED BY <1>1, <2>1 DEF InChunks
<1>5. Ahead(w, n - 1, done, lost)
  <2>1. Ahead(w, n, done, lost) /\ \A l \in Nat : l < n - 1 => l < n
    BY DEF Honest
  <2>. QED BY <2>1 DEF Ahead
<1>. QED BY <1>2, <1>3, <1>4, <1>5 DEF Honest

\* A call goes on with its item, or ends.
LEMMA HonestCarried ==
  ASSUME NEW w, NEW n \in Nat, NEW c \in CallStates, NEW d \in CallStates, NEW done, NEW lost, NEW ends \in BOOLEAN,
         Honest(w, n, c, done, lost, ends), Keeps(c, d), AtItem(c),
         \/ c.pc = "item" /\ d.pc = "look"
         \/ c.pc = "item" /\ d.pc = "idle" /\ (ends \/ c.at > Len(c.what.items))
         \/ c.pc \in Looking /\ d.pc \in Looking \cup {"write"}
         \/ c.pc \in {"write", "begin", "change"} /\ d.pc \in {"write", "begin", "change"}
  PROVE  Honest(w, n, d, done, lost, ends)
<1>1. Truthful(w, n, d.results, done, lost) /\ Ahead(w, n, done, lost)
  BY DEF Honest, Keeps
<1>2. InChunks(w, n, d, done, lost)
  BY DEF InChunks, Looking
<1>3. InTurn(w, n, d, done, lost)
  BY DEF Honest, InTurn, Keeps, Looking, Changing, Clean
<1>4. Whole(d, ends)
  <2>1. CASE d.pc = "idle" /\ ~ends
    <3>1. c.pc = "item" /\ c.at > Len(c.what.items)
      BY <2>1 DEF Looking
    <3>2. c.at \in 1 .. Len(c.what.items) + 1 /\ Len(c.what.items) \in Nat
      BY <3>1, CallItems DEF AtItem
    <3>3. Len(c.results) = c.at - 1
      BY <3>1 DEF Honest, InTurn
    <3>. QED BY <3>1, <3>2, <3>3 DEF Whole, Keeps
  <2>2. CASE ~(d.pc = "idle" /\ ~ends)
    BY <2>2 DEF Whole
  <2>. QED BY <2>1, <2>2
<1>. QED BY <1>1, <1>2, <1>3, <1>4 DEF Honest

\* A result more.
LEMMA Appended ==
  ASSUME NEW S, NEW s \in Seq(S), NEW e \in S
  PROVE  /\ DOMAIN Append(s, e) = DOMAIN s \cup {Len(s) + 1}
         /\ \A k \in DOMAIN s : Append(s, e)[k] = s[k]
         /\ Append(s, e)[Len(s) + 1] = e
<1>1. Len(s) \in Nat /\ DOMAIN s = 1 .. Len(s)
  OBVIOUS
<1>2. Len(Append(s, e)) = Len(s) + 1 /\ DOMAIN Append(s, e) = 1 .. Len(s) + 1
  OBVIOUS
<1>3. \A k \in 1 .. Len(s) : Append(s, e)[k] = s[k]
  OBVIOUS
<1>4. Append(s, e)[Len(s) + 1] = e
  OBVIOUS
<1>5. 1 .. Len(s) + 1 = (1 .. Len(s)) \cup {Len(s) + 1}
  BY <1>1
<1>. QED BY <1>1, <1>2, <1>3, <1>4, <1>5

\* An item is over.
LEMMA HonestConcluded ==
  ASSUME NEW w, NEW n \in Nat, NEW c \in CallStates, NEW d \in CallStates, NEW done, NEW lost, NEW new, NEW ends,
         Honest(w, n, c, done, lost, ends), c.pc \in Looking \cup Changing, NEW ok \in BOOLEAN,
         d.what = c.what, d.at = c.at + 1, d.pc = "item",
         d.results = Append(c.results, [at |-> c.at, ok |-> ok]),
         new = lost \/ new = lost \cup {<<w, n, c.at>>},
         <<w, n, c.at>> \notin new => (ok <=> <<w, n, c.at>> \in done)
  PROVE  Honest(w, n, d, done, new, ends)
<1>1. c.results \in Seq(Reports) /\ c.at \in Nat
  BY CallIs
<1>2. /\ Len(c.results) = c.at - 1 /\ \A k \in DOMAIN c.results : c.results[k].at = k
      /\ \A i \in Nat : i > c.at => Clean(w, n, i, done, lost)
  BY DEF Honest, InTurn
<1>3. \A k \in DOMAIN c.results : <<w, n, c.results[k].at>> \notin lost =>
        (c.results[k].ok <=> <<w, n, c.results[k].at>> \in done)
  BY DEF Honest, Truthful
<1>4. /\ DOMAIN d.results = 1 .. c.at /\ Len(d.results) = c.at
      /\ \A k \in 1 .. c.at - 1 : d.results[k] = c.results[k] /\ k \in DOMAIN c.results
      /\ d.results[c.at] = [at |-> c.at, ok |-> ok]
  <2>. DEFINE R == c.results
              x == [at |-> c.at, ok |-> ok]
  <2>1. R \in Seq(Reports) /\ Len(R) = c.at - 1 /\ d.results = Append(R, x) /\ c.at \in Nat
    BY <1>1, <1>2
  <2>2. x \in Reports
    BY <1>1 DEF Reports
  <2>. HIDE DEF x
  <2>. QED BY <2>1, <2>2 DEF x
<1>5. \A k \in DOMAIN d.results : d.results[k].at = k
  <2>1. SUFFICES ASSUME NEW k \in 1 .. c.at
                 PROVE  d.results[k].at = k
    BY <1>4
  <2>2. CASE k = c.at
    BY <1>4, <2>2
  <2>3. CASE k \in 1 .. c.at - 1
    BY <1>2, <1>4, <2>3
  <2>4. k = c.at \/ k \in 1 .. c.at - 1
    BY <1>1
  <2>. QED BY <2>2, <2>3, <2>4
<1>6. Truthful(w, n, d.results, done, new)
  <2>5. \A k, l \in DOMAIN d.results : d.results[k].at = d.results[l].at => k = l
    BY <1>5
  <2>1. SUFFICES ASSUME NEW k \in DOMAIN d.results, <<w, n, d.results[k].at>> \notin new
                 PROVE  d.results[k].ok <=> <<w, n, d.results[k].at>> \in done
    BY <2>5 DEF Truthful
  <2>2. CASE k = c.at
    <3>1. d.results[k].at = c.at /\ d.results[k].ok = ok
      BY <1>4, <2>2
    <3>. QED BY <2>1, <3>1
  <2>3. CASE k \in 1 .. c.at - 1
    BY <1>3, <1>4, <2>1, <2>3
  <2>4. k = c.at \/ k \in 1 .. c.at - 1
    BY <1>1, <1>4
  <2>. QED BY <2>2, <2>3, <2>4
<1>7. \A i \in Nat : i > c.at => Clean(w, n, i, done, new)
  BY <1>1, <1>2 DEF Clean
<1>8. InTurn(w, n, d, done, new)
  BY <1>1, <1>4, <1>5, <1>7 DEF InTurn, Looking, Changing
<1>9. Ahead(w, n, done, new)
  BY DEF Honest, Ahead, Clean
<1>10. InChunks(w, n, d, done, new) /\ Whole(d, ends)
  BY DEF InChunks, Whole
<1>. QED BY <1>6, <1>8, <1>9, <1>10 DEF Honest

\* The table is changed, or its answer is lost.
LEMMA HonestChanged ==
  ASSUME NEW w, NEW n \in Nat, NEW c \in CallStates, NEW d \in CallStates, NEW done, NEW lost, NEW ends,
         NEW made, NEW new, Honest(w, n, c, done, lost, ends), Keeps(c, d),
         \/ c.pc = "change" /\ d.pc = "read" /\ made = done \cup {<<w, n, c.at>>} /\ new = lost
         \/ c.pc = "read" /\ d.pc = "write" /\ made = done /\ new = lost \cup {<<w, n, c.at>>}
  PROVE  Honest(w, n, d, made, new, ends)
<1>1. c.results \in Seq(Reports) /\ c.at \in Nat /\ d.results = c.results /\ d.at = c.at
  BY CallIs DEF Keeps
<1>2. /\ Len(c.results) = c.at - 1 /\ \A k \in DOMAIN c.results : c.results[k].at = k
      /\ \A i \in Nat : i > c.at => Clean(w, n, i, done, lost)
  BY DEF Honest, InTurn, Changing
<1>3. \A k \in DOMAIN c.results : c.results[k].at < c.at
  BY <1>1, <1>2
<1>4. Truthful(w, n, d.results, made, new)
  BY <1>1, <1>3 DEF Honest, Truthful
<1>5. \A i \in Nat : i > c.at => Clean(w, n, i, made, new)
  BY <1>1, <1>2 DEF Clean
<1>6. InTurn(w, n, d, made, new)
  BY <1>1, <1>2, <1>5 DEF InTurn, Looking, Changing
<1>7. Ahead(w, n, made, new)
  BY DEF Honest, Ahead, Clean
<1>8. InChunks(w, n, d, made, new) /\ Whole(d, ends)
  BY DEF InChunks, Whole
<1>. QED BY <1>4, <1>6, <1>7, <1>8 DEF Honest

\* A sequence that tells of each of n items once has n reports.
LEMMA OneEach ==
  ASSUME NEW told \in Seq(Reports), NEW n \in Nat, \A k, l \in DOMAIN told : told[k].at = told[l].at => k = l,
         {told[k].at : k \in DOMAIN told} = 1 .. n
  PROVE  Len(told) = n
<1>. DEFINE f == [k \in 1 .. Len(told) |-> told[k].at]
<1>1. Len(told) \in Nat /\ DOMAIN told = 1 .. Len(told)
  OBVIOUS
<1>2. f \in Bijection(1 .. Len(told), 1 .. n)
  <2>1. f \in [1 .. Len(told) -> 1 .. n]
    BY <1>1
  <2>2. \A k, l \in 1 .. Len(told) : f[k] = f[l] => k = l
    BY <1>1
  <2>3. \A i \in 1 .. n : \E k \in 1 .. Len(told) : f[k] = i
    BY <1>1
  <2>. HIDE DEF f
  <2>. QED BY <2>1, <2>2, <2>3 DEF Bijection, Injection, Surjection, IsInjective
<1>3. IsFiniteSet(1 .. Len(told)) /\ Cardinality(1 .. Len(told)) = Len(told) /\ Cardinality(1 .. n) = n
  <2>1. \A m \in Nat : IsFiniteSet(1 .. m) /\ Cardinality(1 .. m) = m
    <3>1. SUFFICES ASSUME NEW m \in Nat
                   PROVE  IsFiniteSet(1 .. m) /\ Cardinality(1 .. m) = m
      OBVIOUS
    <3>2. IsFiniteSet(1 .. m) /\ Cardinality(1 .. m) = IF 1 > m THEN 0 ELSE m - 1 + 1
      BY FS_Interval
    <3>. QED BY <3>2
  <2>. QED BY <1>1, <2>1
<1>4. Cardinality(1 .. n) = Cardinality(1 .. Len(told))
  BY <1>2, <1>3, FS_Bijection DEF ExistsBijection
<1>. QED BY <1>3, <1>4

\* The next chunk, or the end of them.
LEMMA HonestChunked ==
  ASSUME NEW w, NEW n \in Nat, NEW c \in CallStates, NEW d \in CallStates, NEW done, NEW lost, NEW ends \in BOOLEAN,
         Honest(w, n, c, done, lost, ends), AtItem(c), Chunking(c, d, ends)
  PROVE  Honest(w, n, d, done, lost, ends)
<1>. DEFINE next == {i \in c.at .. c.at + BatchSize - 1 : i <= Len(c.what.items)}
<1>8. /\ c.pc = "chunk" /\ c.flight = {} /\ d.what = c.what /\ d.results = c.results
      /\ \/ d.pc = "idle" /\ (next = {} \/ ends)
         \/ d.pc = "chunk" /\ d.flight = next /\ d.at = c.at + BatchSize
  BY DEF Chunking
<1>. DEFINE len == Len(c.what.items)
<1>1. len \in Nat /\ c.at \in Nat \ {0} /\ BatchSize \in Nat \ {0}
  BY <1>8, CallItems, TablesAssumption DEF AtItem
<1>2. /\ Gone(c) = {i \in 1 .. len : i < c.at}
      /\ \A i \in Nat : i >= c.at => Clean(w, n, i, done, lost)
  BY <1>8 DEF Honest, InChunks
<1>3. Gone(d) = Gone(c)
  BY <1>8 DEF Gone
<1>4. Truthful(w, n, d.results, done, lost) /\ Ahead(w, n, done, lost)
  BY <1>8 DEF Honest
<1>5. InTurn(w, n, d, done, lost)
  BY <1>8 DEF InTurn, Looking, Changing
<1>6. InChunks(w, n, d, done, lost)
  <2>1. SUFFICES ASSUME d.pc = "chunk", d.flight = next, d.at = c.at + BatchSize
                 PROVE  InChunks(w, n, d, done, lost)
    BY <1>8 DEF InChunks
  <2>2. \A i \in next : i \in Nat /\ i >= c.at /\ i < d.at /\ i \in 1 .. len
    BY <1>1, <2>1
  <2>3. {i \in 1 .. len : i < d.at} = {i \in 1 .. len : i < c.at} \cup next
    BY <1>1, <2>1, <2>2
  <2>4. \A i \in Nat : i \in next \/ i >= d.at => Clean(w, n, i, done, lost)
    BY <1>1, <1>2, <2>1, <2>2
  <2>5. Gone(d) \cap next = {}
    BY <1>1, <1>2, <1>3, <2>2
  <2>. HIDE DEF len, next
  <2>6. {i \in 1 .. Len(d.what.items) : i < d.at} = Gone(d) \cup next
    BY <1>2, <1>3, <1>8, <2>3 DEF len
  <2>. QED BY <2>1, <2>2, <2>4, <2>5, <2>6 DEF InChunks
<1>7. Whole(d, ends)
  <2>1. SUFFICES ASSUME d.pc = "idle", ~ends
                 PROVE  Len(d.results) = len
    BY <1>8 DEF Whole
  <2>2. c.at > len
    <3>1. SUFFICES ASSUME c.at <= len
                   PROVE  FALSE
      BY <1>1
    <3>2. c.at \in next
      BY <1>1, <3>1
    <3>. QED BY <1>8, <2>1, <3>2
  <2>3. Gone(c) = 1 .. len
    BY <1>1, <1>2, <2>2
  <2>4. c.results \in Seq(Reports) /\ \A k, l \in DOMAIN c.results : c.results[k].at = c.results[l].at => k = l
    BY CallIs DEF Honest, Truthful
  <2>. HIDE DEF len
  <2>. QED BY <1>1, <1>8, <2>3, <2>4, OneEach DEF Gone
<1>. QED BY <1>4, <1>5, <1>6, <1>7 DEF Honest

\* A write comes back.
LEMMA HonestAnswers ==
  ASSUME NEW w, NEW n \in Nat, NEW c \in CallStates, NEW d \in CallStates, NEW done, NEW lost, NEW ends,
         NEW made, NEW new, Honest(w, n, c, done, lost, ends), c.pc = "chunk", d.pc = "chunk",
         d.what = c.what, d.at = c.at, NEW i \in c.flight, NEW ok \in BOOLEAN,
         d.flight = c.flight \ {i}, d.results = Append(c.results, [at |-> i, ok |-> ok]),
         \/ new = lost /\ made = IF ok THEN done \cup {<<w, n, i>>} ELSE done
         \/ ~ok /\ new = lost \cup {<<w, n, i>>} /\ made = done \cup {<<w, n, i>>}
  PROVE  Honest(w, n, d, made, new, ends)
<1>1. c.results \in Seq(Reports) /\ c.at \in Nat /\ c.flight \subseteq Nat
  BY CallIs
<1>2. /\ \A j \in c.flight : j < c.at
      /\ Gone(c) \cap c.flight = {} /\ Gone(c) \cup c.flight = {j \in 1 .. Len(c.what.items) : j < c.at}
      /\ \A j \in Nat : j \in c.flight \/ j >= c.at => Clean(w, n, j, done, lost)
  BY DEF Honest, InChunks
<1>3. /\ \A k \in DOMAIN c.results : <<w, n, c.results[k].at>> \notin lost =>
           (c.results[k].ok <=> <<w, n, c.results[k].at>> \in done)
      /\ \A k, l \in DOMAIN c.results : c.results[k].at = c.results[l].at => k = l
  BY DEF Honest, Truthful
<1>. DEFINE R == c.results
            m == Len(R) + 1
            x == [at |-> i, ok |-> ok]
<1>4. /\ DOMAIN d.results = DOMAIN R \cup {m}
      /\ \A k \in DOMAIN R : d.results[k] = R[k]
      /\ d.results[m] = x
  <2>1. R \in Seq(Reports) /\ d.results = Append(R, x)
    BY <1>1
  <2>2. x \in Reports
    BY <1>1 DEF Reports
  <2>. HIDE DEF x, R
  <2>3. /\ DOMAIN Append(R, x) = DOMAIN R \cup {Len(R) + 1}
        /\ \A k \in DOMAIN R : Append(R, x)[k] = R[k]
        /\ Append(R, x)[Len(R) + 1] = x
    BY <2>1, <2>2, Appended
  <2>. QED BY <2>1, <2>3
<1>5. x.at = i /\ x.ok = ok /\ \A k \in DOMAIN R : R[k].at \in Gone(c) /\ R[k].at /= i
  BY <1>2 DEF Gone
<1>6. Clean(w, n, i, done, lost)
  BY <1>1, <1>2
<1>7. Truthful(w, n, d.results, made, new)
  <2>1. \A k, l \in DOMAIN d.results : d.results[k].at = d.results[l].at => k = l
    <3>. HIDE DEF R, m, x
    <3>. QED BY <1>3, <1>4, <1>5 DEF R
  <2>2. SUFFICES ASSUME NEW k \in DOMAIN d.results, <<w, n, d.results[k].at>> \notin new
                 PROVE  d.results[k].ok <=> <<w, n, d.results[k].at>> \in made
    BY <2>1 DEF Truthful
  <2>3. CASE k \in DOMAIN R
    <3>1. d.results[k] = R[k] /\ R[k].at /= i /\ (<<w, n, R[k].at>> \notin lost => (R[k].ok <=> <<w, n, R[k].at>> \in done))
      BY <1>3, <1>4, <1>5, <2>3
    <3>2. /\ <<w, n, R[k].at>> \in new <=> <<w, n, R[k].at>> \in lost
          /\ <<w, n, R[k].at>> \in made <=> <<w, n, R[k].at>> \in done
      BY <3>1
    <3>. QED BY <2>2, <3>1, <3>2
  <2>4. CASE k = m
    <3>1. d.results[k].at = i /\ d.results[k].ok = ok
      BY <1>4, <1>5, <2>4
    <3>. QED BY <1>6, <2>2, <3>1 DEF Clean
  <2>. QED BY <1>4, <2>3, <2>4
<1>8. Ahead(w, n, made, new)
  BY DEF Honest, Ahead, Clean
<1>9. InChunks(w, n, d, made, new)
  <2>1. Gone(d) = Gone(c) \cup {i}
    <3>. HIDE DEF R, m, x
    <3>. QED BY <1>4, <1>5 DEF Gone, R
  <2>2. \A j \in Nat : j \in d.flight \/ j >= d.at => Clean(w, n, j, made, new)
    <3>1. SUFFICES ASSUME NEW j \in Nat, j \in d.flight \/ j >= d.at
                   PROVE  Clean(w, n, j, made, new)
      OBVIOUS
    <3>2. j /= i /\ Clean(w, n, j, done, lost)
      BY <1>1, <1>2, <3>1
    <3>. QED BY <3>2 DEF Clean
  <2>3. /\ Gone(d) \cap d.flight = {} /\ Gone(d) \cup d.flight = Gone(c) \cup c.flight
        /\ \A j \in d.flight : j < d.at
    BY <1>2, <2>1
  <2>. QED BY <1>2, <2>2, <2>3 DEF InChunks
<1>10. InTurn(w, n, d, made, new) /\ Whole(d, ends)
  BY DEF InTurn, Whole, Looking, Changing
<1>. QED BY <1>7, <1>8, <1>9, <1>10 DEF Honest

\* Nothing changes for a call when the items of others do.
LEMMA HonestApart ==
  ASSUME NEW w, NEW n \in Nat, NEW c, NEW done, NEW lost, NEW made, NEW new, NEW ends, NEW end,
         Honest(w, n, c, done, lost, ends), ends => end,
         \A l, i \in Nat : /\ <<w, l, i>> \in made <=> <<w, l, i>> \in done
                           /\ <<w, l, i>> \in new <=> <<w, l, i>> \in lost,
         c \in CallStates
  PROVE  Honest(w, n, c, made, new, end)
<1>1. c.results \in Seq(Reports) /\ c.at \in Nat
  BY CallIs
<1>2. \A k \in DOMAIN c.results : c.results[k].at \in Nat
  <2>1. \A k \in DOMAIN c.results : c.results[k] \in Reports
    BY <1>1
  <2>. QED BY <2>1 DEF Reports
<1>3. \A l, i \in Nat : Clean(w, l, i, done, lost) => Clean(w, l, i, made, new)
  BY DEF Clean
<1>4. Truthful(w, n, c.results, made, new)
  BY <1>2 DEF Honest, Truthful
<1>5. InTurn(w, n, c, made, new)
  <2>. USE <1>1, <1>3 DEF Honest, InTurn
  <2>. SUFFICES ASSUME c.pc \in {"item"} \cup Looking \cup Changing
                PROVE  /\ Len(c.results) = c.at - 1 /\ \A k \in DOMAIN c.results : c.results[k].at = k
                       /\ \A i \in Nat : i > c.at => Clean(w, n, i, made, new)
                       /\ c.pc \in {"item"} \cup Looking => Clean(w, n, c.at, made, new)
                       /\ c.pc \in {"write", "begin", "change"} /\ <<w, n, c.at>> \in made => <<w, n, c.at>> \in new
                       /\ c.pc = "read" => <<w, n, c.at>> \in made
    OBVIOUS
  <2>1. Len(c.results) = c.at - 1 /\ \A k \in DOMAIN c.results : c.results[k].at = k
    OBVIOUS
  <2>2. \A i \in Nat : i > c.at => Clean(w, n, i, made, new)
    OBVIOUS
  <2>3. c.pc \in {"item"} \cup Looking => Clean(w, n, c.at, made, new)
    OBVIOUS
  <2>4. c.pc \in {"write", "begin", "change"} /\ <<w, n, c.at>> \in made => <<w, n, c.at>> \in new
    OBVIOUS
  <2>5. c.pc = "read" => <<w, n, c.at>> \in made
    OBVIOUS
  <2>. QED BY <2>1, <2>2, <2>3, <2>4, <2>5
<1>6. InChunks(w, n, c, made, new)
  BY <1>3 DEF Honest, InChunks
<1>7. Ahead(w, n, made, new) /\ Whole(c, end)
  BY <1>3 DEF Honest, Ahead, Whole
<1>. QED BY <1>4, <1>5, <1>6, <1>7 DEF Honest

LEMMA ReportingStarts ==
  ASSUME TablesInit
  PROVE  Reporting
<1>1. SUFFICES ASSUME NEW w \in Workers
               PROVE  Honest(w, Len(todo[w]), call[w], applied, unheard, w \in stopped)
  BY DEF Reporting
<1>2. call[w] = Resting /\ applied = {} /\ unheard = {}
  BY DEF TablesInit
<1>3. Resting.pc = "idle" /\ Resting.results = <<>>
  BY DEF Resting
<1>. QED BY <1>2, <1>3 DEF Honest, Truthful, InTurn, InChunks, Whole, Ahead, Clean, Looking, Changing

\* The worker that makes a step goes on to be honest.
LEMMA HonestSteps ==
  ASSUME ToolsBase, NEW w \in Workers, NEW d \in CallStates, Stepped(w, d),
         Honest(w, Len(todo[w]), call[w], applied, unheard, w \in stopped)
  PROVE  Honest(w, Len(todo'[w]), d, applied', unheard', w \in stopped')
<1>. DEFINE c == call[w]
            n == Len(todo[w])
            ends == w \in stopped
<1>1. c \in CallStates /\ AtItem(c) /\ n \in Nat /\ ends \in BOOLEAN /\ todo \in [Workers -> Seq(Calls)]
  <2>1. todo[w] \in Seq(Calls)
    BY ToolTypes
  <2>. QED BY <2>1, ToolTypes
<1>2. Id(w) = <<w, n, c.at>>
  BY DEF Id
<1>3. CASE Begun(w, d)
  <2>1. todo[w] \in Seq(Calls) /\ todo[w] /= <<>> /\ todo'[w] = Tail(todo[w])
    BY <1>1, <1>3 DEF Begun
  <2>2. n \in Nat \ {0} /\ Len(todo'[w]) = n - 1
    BY <2>1
  <2>3. UNCHANGED <<applied, unheard, stopped>> /\ d.results = <<>> /\ d.flight = {}
        /\ (d.pc = "idle" \/ (d.pc \in {"item", "chunk"} /\ d.at = 1))
    BY <1>3 DEF Begun
  <2>. HIDE DEF c, n, ends
  <2>4. Honest(w, n, c, applied, unheard, ends)
    BY DEF c, n, ends
  <2>5. Honest(w, n - 1, d, applied, unheard, ends)
    BY <1>1, <2>2, <2>3, <2>4, HonestBegun
  <2>. QED BY <2>2, <2>3, <2>5 DEF ends
<1>4. CASE ~Begun(w, d)
  <2>1. UNCHANGED <<todo, stopped>>
    BY <1>4 DEF Stepped, Unchanging, Changed, Returns
  <2>2. Len(todo'[w]) = n /\ (w \in stopped') = ends
    BY <2>1
  <2>3. SUFFICES Honest(w, n, d, applied', unheard', ends)
    BY <2>2
  <2>4. Honest(w, n, c, applied, unheard, ends)
    OBVIOUS
  <2>5. CASE Unchanging /\ UNCHANGED unheard /\ Carried(w, d)
    <3>1. UNCHANGED <<applied, unheard>> /\ Keeps(c, d)
      BY <2>5 DEF Unchanging, Carried
    <3>2. \/ c.pc = "item" /\ d.pc = "look"
          \/ c.pc = "item" /\ d.pc = "idle" /\ (ends \/ c.at > Len(c.what.items))
          \/ c.pc \in Looking /\ d.pc \in Looking \cup {"write"}
          \/ c.pc \in {"write", "begin", "change"} /\ d.pc \in {"write", "begin", "change"}
      <4>1. Len(c.what.items) \in Nat /\ c.at \in Nat
        BY <1>1, CallItems, CallIs
      <4>2. ~More(w) => ends \/ c.at > Len(c.what.items)
        BY <4>1 DEF More
      <4>. QED BY <2>5, <4>2 DEF Carried
    <3>. HIDE DEF c, n, ends
    <3>3. Honest(w, n, d, applied, unheard, ends)
      BY <1>1, <2>4, <3>1, <3>2, HonestCarried
    <3>. QED BY <3>1, <3>3
  <2>6. CASE Unchanging /\ UNCHANGED unheard /\ Concluded(w, d, FALSE) /\ c.pc \in Looking \cup {"write", "begin", "change"}
    <3>1. UNCHANGED <<applied, unheard>> /\ c.pc \in Looking \cup Changing /\ FALSE \in BOOLEAN
          /\ d.what = c.what /\ d.at = c.at + 1 /\ d.pc = "item"
          /\ d.results = Append(c.results, [at |-> c.at, ok |-> FALSE])
      BY <2>6 DEF Unchanging, Concluded, Changing
    <3>2. <<w, n, c.at>> \notin unheard => <<w, n, c.at>> \notin applied
      BY <2>4, <2>6 DEF Honest, InTurn, Clean, Looking, Changing
    <3>. HIDE DEF c, n, ends
    <3>3. Honest(w, n, d, applied, unheard, ends)
      BY <1>1, <2>4, <3>1, <3>2, HonestConcluded
    <3>. QED BY <3>1, <3>3
  <2>7. CASE Changed(w, d)
    <3>1. c.pc = "change" /\ d.pc = "read" /\ Keeps(c, d) /\ applied' = applied \cup {<<w, n, c.at>>} /\ unheard' = unheard
      BY <1>2, <2>7 DEF Changed
    <3>. HIDE DEF c, n, ends
    <3>. QED BY <1>1, <2>4, <3>1, HonestChanged
  <2>8. CASE Unchanging /\ UNCHANGED unheard /\ Concluded(w, d, TRUE) /\ c.pc = "read"
    <3>1. UNCHANGED <<applied, unheard>> /\ c.pc \in Looking \cup Changing /\ TRUE \in BOOLEAN
          /\ d.what = c.what /\ d.at = c.at + 1 /\ d.pc = "item"
          /\ d.results = Append(c.results, [at |-> c.at, ok |-> TRUE])
      BY <2>8 DEF Unchanging, Concluded, Changing
    <3>2. <<w, n, c.at>> \in applied
      BY <2>4, <2>8 DEF Honest, InTurn, Looking, Changing
    <3>. HIDE DEF c, n, ends
    <3>3. Honest(w, n, d, applied, unheard, ends)
      BY <1>1, <2>4, <3>1, <3>2, HonestConcluded
    <3>. QED BY <3>1, <3>3
  <2>9. CASE /\ Unchanging /\ unheard' = unheard \cup {Id(w)} /\ c.pc = "read"
             /\ Concluded(w, d, FALSE) \/ (Keeps(c, d) /\ d.pc = "write")
    <3>1. applied' = applied /\ unheard' = unheard \cup {<<w, n, c.at>>} /\ c.pc = "read"
          /\ c.pc \in Looking \cup Changing /\ FALSE \in BOOLEAN
      BY <1>2, <2>9 DEF Unchanging, Changing
    <3>2. CASE Concluded(w, d, FALSE)
      <4>1. d.what = c.what /\ d.at = c.at + 1 /\ d.pc = "item"
            /\ d.results = Append(c.results, [at |-> c.at, ok |-> FALSE])
        BY <3>2 DEF Concluded
      <4>2. <<w, n, c.at>> \in unheard'
        BY <3>1
      <4>. HIDE DEF c, n, ends
      <4>3. Honest(w, n, d, applied, unheard', ends)
        BY <1>1, <2>4, <3>1, <4>1, <4>2, HonestConcluded
      <4>. QED BY <3>1, <4>3
    <3>3. CASE Keeps(c, d) /\ d.pc = "write"
      <4>. HIDE DEF c, n, ends
      <4>. QED BY <1>1, <2>4, <3>1, <3>3, HonestChanged
    <3>. QED BY <2>9, <3>2, <3>3
  <2>10. CASE Unchanging /\ UNCHANGED unheard /\ Batched(w, d)
    <3>1. UNCHANGED <<applied, unheard>> /\ Chunking(c, d, ends)
      BY <2>10 DEF Unchanging, Batched
    <3>. HIDE DEF c, n, ends
    <3>3. Honest(w, n, d, applied, unheard, ends)
      BY <1>1, <2>4, <3>1, HonestChunked
    <3>. QED BY <3>1, <3>3
  <2>11. CASE Returns(w, d)
    <3>1. c.pc = "chunk" /\ d.pc = "chunk" /\ d.what = c.what /\ d.at = c.at
      BY <2>11 DEF Returns
    <3>2. PICK i \in c.flight, ok \in BOOLEAN :
            /\ d.flight = c.flight \ {i} /\ d.results = Append(c.results, [at |-> i, ok |-> ok])
            /\ \/ unheard' = unheard /\ applied' = IF ok THEN applied \cup {<<w, n, i>>} ELSE applied
               \/ ~ok /\ unheard' = unheard \cup {<<w, n, i>>} /\ applied' = applied \cup {<<w, n, i>>}
      BY <2>11 DEF Returns, IdOf
    <3>. HIDE DEF c, n, ends
    <3>. QED BY <1>1, <2>4, <3>1, <3>2, HonestAnswers
  <2>. QED BY <1>4, <2>5, <2>6, <2>7, <2>8, <2>9, <2>10, <2>11 DEF Stepped
<1>. QED BY <1>3, <1>4

LEMMA ReportingGoesOn ==
  ASSUME ToolsBase, Reporting, [TablesNext]_tablesVars
  PROVE  Reporting'
<1>1. \A q \in Workers : Honest(q, Len(todo[q]), call[q], applied, unheard, q \in stopped)
  BY DEF Reporting
<1>2. \A q \in Workers : call[q] \in CallStates /\ Len(todo[q]) \in Nat
  <2>1. \A q \in Workers : todo[q] \in Seq(Calls)
    BY ToolTypes
  <2>. QED BY <2>1, ToolTypes
<1>3. SUFFICES \A q \in Workers : Honest(q, Len(todo'[q]), call'[q], applied', unheard', q \in stopped')
  BY DEF Reporting
<1>4. CASE \E w \in Workers, d \in CallStates : Stepped(w, d)
  <2>1. PICK w \in Workers, d \in CallStates : Stepped(w, d)
    BY <1>4
  <2>2. call'[w] = d /\ \A q \in Workers : q /= w => call'[q] = call[q]
    BY <2>1, PutsIs DEF Stepped
  <2>3. Honest(w, Len(todo'[w]), d, applied', unheard', w \in stopped')
    BY <1>1, <2>1, HonestSteps
  <2>4. stopped' = stopped /\ (todo' = todo \/ todo' = [todo EXCEPT ![w] = Tail(@)])
    BY <2>1 DEF Stepped, Begun, Unchanging, Returns, Changed
  <2>5. \A q \in Workers : q /= w => todo'[q] = todo[q]
    BY <2>4, ToolTypes
  <2>6. /\ applied' = applied \/ \E i : applied' = applied \cup {IdOf(w, i)}
        /\ unheard' = unheard \/ \E i : unheard' = unheard \cup {IdOf(w, i)}
    BY <2>1 DEF Stepped, Begun, Unchanging, Returns, Changed, Id, IdOf
  <2>7. ASSUME NEW q \in Workers, q /= w
        PROVE  Honest(q, Len(todo'[q]), call'[q], applied', unheard', q \in stopped')
    <3>1. \A l, i \in Nat : /\ <<q, l, i>> \in applied' <=> <<q, l, i>> \in applied
                            /\ <<q, l, i>> \in unheard' <=> <<q, l, i>> \in unheard
      BY <2>6, <2>7 DEF IdOf
    <3>2. Honest(q, Len(todo[q]), call[q], applied, unheard, q \in stopped)
          /\ call[q] \in CallStates /\ Len(todo[q]) \in Nat
      BY <1>1, <1>2
    <3>3. Honest(q, Len(todo[q]), call[q], applied', unheard', q \in stopped)
      BY <3>1, <3>2, HonestApart
    <3>. QED BY <2>2, <2>4, <2>5, <2>7, <3>3
  <2>. QED BY <2>2, <2>3, <2>7
<1>5. CASE /\ UNCHANGED <<tables, rows, serial, call, todo, granted, applied, unheard, promised, crossed, stumbles>>
           /\ (UNCHANGED stopped \/ \E w \in Workers : stopped' = stopped \cup {w})
  <2>1. SUFFICES ASSUME NEW q \in Workers
                 PROVE  Honest(q, Len(todo[q]), call[q], applied, unheard, q \in stopped')
    BY <1>5
  <2>2. Honest(q, Len(todo[q]), call[q], applied, unheard, q \in stopped)
        /\ call[q] \in CallStates /\ Len(todo[q]) \in Nat /\ (q \in stopped => q \in stopped')
    BY <1>1, <1>2, <1>5
  <2>3. \A l, i \in Nat : /\ <<q, l, i>> \in applied <=> <<q, l, i>> \in applied
                          /\ <<q, l, i>> \in unheard <=> <<q, l, i>> \in unheard
    OBVIOUS
  <2>. DEFINE ended == q \in stopped
              ends == q \in stopped'
  <2>4. Honest(q, Len(todo[q]), call[q], applied, unheard, ended) /\ (ended => ends)
    BY <2>2
  <2>5. Honest(q, Len(todo[q]), call[q], applied, unheard, ends)
    <3>. HIDE DEF ended, ends
    <3>. QED BY <2>2, <2>3, <2>4, HonestApart
  <2>. QED BY <2>5
<1>. QED BY <1>4, <1>5, TablesSteps

LEMMA ReportingHonest ==
  ASSUME Reporting
  PROVE  HonestReport
BY DEF Reporting, HonestReport, Honest, Truthful, Whole

\* What the model is told of a call is what was done, of each item once.
THEOREM ToolsHonest == TablesSpec => []HonestReport
<1>. DEFINE I == ToolsBase /\ Reporting
<1>1. TablesInit => I
  BY ToolsBaseStarts, ReportingStarts
<1>2. I /\ [TablesNext]_tablesVars => I'
  BY ToolsBaseGoesOn, ReportingGoesOn
<1>3. I => HonestReport
  BY ReportingHonest
<1>. QED BY <1>1, <1>2, <1>3, PTL DEF TablesSpec

=============================================================================
