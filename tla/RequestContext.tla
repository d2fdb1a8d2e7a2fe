---------------------------- MODULE RequestContext ----------------------------
(****************************************************************************)
(* One request of a dynamic route: DynamicInterceptor runs its pre-hooks,   *)
(* DynamicService its handler, DynamicInterceptor its post-hooks, or, after *)
(* a failure, the post-hooks once more in error mode. Every script gets a   *)
(* copy of the request's context; what it leaves in its copy is merged into *)
(* the context when its run is done (smartMergeContext).                    *)
(*                                                                          *)
(* A run is settled as module HandlerExecutor describes it: $throw rejects  *)
(* the run at once, and the script goes on.                                 *)
(****************************************************************************)
EXTENDS Integers, Sequences, FiniteSets

CONSTANTS
  NumPre,    \* pre-hooks of the route for this method
  NumPost,   \* post-hooks of the route for this method
  MaxMoves   \* bound: edits, calls, answers and $throws of all scripts together

ASSUME HooksAssumption == {NumPre, NumPost, MaxMoves} \subseteq Nat

VARIABLES
  mode,      \* what intercept() is doing: its hooks, the handler, its answer
  hook,      \* the hook it is at
  awaited,   \* the run it awaits, 0 when there is none
  ctx,       \* req.routeData.context
  data,      \* the variable `data` of the success path
  runs,      \* the runs of this request, in the order of their beginning
  answers,   \* what was sent, or tried to be sent, to the client
  listQuery, \* the query holds a list; never changes
  timeouts,  \* the hooks have a timeout, their own or the default's
  moves,     \* bound: moves the scripts have made
  late,      \* ghost: a script came back after its run was rejected
  wanted     \* ghost: $body and $query as the last merged script left them

vars == <<mode, hook, awaited, ctx, data, runs, answers, listQuery, timeouts,
          moves, late, wanted>>

request == <<mode, hook, awaited, data>>
given   == <<listQuery, timeouts>>

Modes == {"pre", "handler", "post", "error", "end"}
Hooks == {"pre", "post", "error"}
Datas == {"undefined", "null", "empty", "result", "edited"}
Answers == {"script", "short", "data", "observable", "error"}

\* Of the context: one field of $body, one of $query, $data, $statusCode and
\* $res. A field may be gone, $res may have become the text that its proxy
\* serialises to.
Ctx == [body : {"old", "new", "gone"}, query : {"old", "new"}, data : Datas,
        status : {"unset", "own", "ok", "err"}, res : {"gone", "live", "text"}]

\* A run: its promise, and its script with the copy it holds while it lives.
\* "calling": it waits for a call it made. "write": that call, if it made one.
Run == [mode : Modes, script : {"queued", "running", "calling", "over"},
        promise : {"pending", "undefined", "result", "rejected"},
        copy : Ctx, edited : BOOLEAN,
        write : {"none", "awaited", "detached", "done"}]

-----------------------------------------------------------------------------
\* The context as RouteDetectMiddleware makes it.
Opening == [body |-> "old", query |-> "old", data |-> "undefined", status |-> "unset",
            res |-> "gone"]

Init ==
  /\ mode = "pre" /\ hook = 1 /\ awaited = 0
  /\ ctx = Opening /\ data = "undefined"
  /\ runs = <<>> /\ answers = <<>>
  /\ listQuery \in BOOLEAN /\ timeouts \in BOOLEAN
  /\ moves = 0 /\ late = FALSE
  /\ wanted = [body |-> "old", query |-> "old"]

HookCount == CASE mode = "pre" -> NumPre [] mode \in {"post", "error"} -> NumPost [] OTHER -> 0
HookDue   == mode \in Hooks /\ hook <= HookCount /\ awaited = 0

Sent == "script" \in {answers[i] : i \in DOMAIN answers}

GoTo(m) == mode' = m /\ hook' = 1
NextHook == hook' = hook + 1 /\ UNCHANGED mode

Answer(what) == GoTo("end") /\ answers' = Append(answers, what)

-----------------------------------------------------------------------------
(* intercept() and runHandler() *)

\* The error mode leaves $data as it is.
PreparedStale ==
  CASE mode = "handler" -> [ctx EXCEPT !.res = "live"]
    [] mode = "post"    -> [ctx EXCEPT !.data = data, !.status = "ok"]
    [] mode = "error"   -> [ctx EXCEPT !.status = "err"]
    [] OTHER            -> ctx

\* What the context is given before a script: $res for the handler, $data and
\* $statusCode for the post-hooks.
Prepared ==
  CASE mode = "handler" -> [ctx EXCEPT !.res = "live"]
    [] mode = "post"    -> [ctx EXCEPT !.data = data, !.status = "ok"]
    [] mode = "error"   -> [ctx EXCEPT !.data = "null", !.status = "err"]
    [] OTHER            -> ctx

\* run() is called. The copy is made later, when the pool has given a child.
Begin ==
  /\ awaited = 0
  /\ mode = "handler" \/ (HookDue /\ timeouts)
  /\ ctx' = Prepared
  /\ runs' = Append(runs, [mode |-> mode, script |-> "queued", promise |-> "pending",
                           copy |-> Opening, edited |-> FALSE, write |-> "none"])
  /\ awaited' = Len(runs')
  /\ UNCHANGED <<mode, hook, data, answers, given, moves, late, wanted>>

\* The run is rejected. A failed pre-hook ends the request, a failed handler or
\* post-hook starts the error mode, a failed error hook is logged.
Rejected ==
  \/ mode = "pre" /\ Answer("error")
  \/ mode \in {"handler", "post"} /\ GoTo("error") /\ UNCHANGED answers
  \/ mode = "error" /\ NextHook /\ UNCHANGED answers

\* The run is resolved. A pre-hook that returns something answers the request;
\* after the handler $res is taken back, and if the handler has used it nothing
\* else is done; a post-hook replaces the data or has changed it; the result of
\* an error hook is sent, wrapped in an Observable that nobody subscribes to.
Resolved(v) ==
  \/ /\ mode = "pre" /\ UNCHANGED <<data, ctx>>
     /\ IF v = "undefined" THEN NextHook /\ UNCHANGED answers ELSE Answer("short")
  \/ /\ mode = "handler" /\ data' = v /\ ctx' = [ctx EXCEPT !.res = "gone"]
     /\ GoTo(IF Sent THEN "end" ELSE "post") /\ UNCHANGED answers
  \/ /\ mode = "post" /\ data' = IF v = "undefined" THEN ctx.data ELSE v
     /\ NextHook /\ UNCHANGED <<ctx, answers>>
  \/ /\ mode = "error" /\ UNCHANGED <<data, ctx>>
     /\ IF v = "undefined" THEN NextHook /\ UNCHANGED answers ELSE Answer("observable")

\* The await of the run ends.
Advance ==
  /\ awaited # 0 /\ awaited' = 0
  /\ LET p == runs[awaited].promise IN
       \/ p \in {"undefined", "result"} /\ Resolved(p)
       \/ p = "rejected" /\ Rejected /\ UNCHANGED <<data, ctx>>
  /\ UNCHANGED <<runs, given, moves, late, wanted>>

\* A hook that has no timeout is an error of its own, before run() is called.
NoTimeout ==
  /\ HookDue /\ ~timeouts
  /\ Rejected
  /\ UNCHANGED <<awaited, ctx, data, runs, given, moves, late, wanted>>

\* No hook is left.
HooksOver ==
  /\ mode \in Hooks /\ hook > HookCount /\ awaited = 0
  /\ \/ mode = "pre" /\ GoTo("handler") /\ UNCHANGED answers
     \/ mode = "post" /\ Answer("data")
     \/ mode = "error" /\ Answer("error")
  /\ UNCHANGED <<awaited, ctx, data, runs, given, moves, late, wanted>>

-----------------------------------------------------------------------------
(* The runs *)

Set(k, r) == runs' = [runs EXCEPT ![k] = r]
Alive(k)  == runs[k].script = "running"
Move(k)   == Alive(k) /\ moves < MaxMoves /\ moves' = moves + 1

Settled(r, how) == IF r.promise = "pending" THEN [r EXCEPT !.promise = how] ELSE r

\* The script is gone and its copy with it.
Ended(r, how) == [Settled(r, how) EXCEPT !.script = "over", !.copy = Opening, !.edited = FALSE]

\* The pool has a child: the context is copied (wrapCtx) and sent.
Launch(k) ==
  /\ runs[k].script = "queued"
  /\ Set(k, [runs[k] EXCEPT !.script = "running", !.copy = ctx])
  /\ UNCHANGED <<request, ctx, answers, given, moves, late, wanted>>

\* The script changes its copy: it sets or deletes a field of $body, sets one of
\* $query, sets $statusCode, changes $data in place.
Edits(c) ==
  {[c EXCEPT !.body = "new"], [c EXCEPT !.body = "gone"], [c EXCEPT !.query = "new"],
   [c EXCEPT !.status = "own"]}
  \cup {[d EXCEPT !.data = "edited"] : d \in {e \in {c} : e.data \in {"result", "empty"}}}

Edit(k) ==
  /\ Move(k)
  /\ \E c \in Edits(runs[k].copy) : Set(k, [runs[k] EXCEPT !.copy = c, !.edited = TRUE])
  /\ UNCHANGED <<request, ctx, answers, given, late, wanted>>

\* A call of $repos or $helpers, awaited by the script or not.
Write(k, how) ==
  /\ Move(k) /\ runs[k].write = "none"
  /\ Set(k, [runs[k] EXCEPT !.write = how,
                            !.script = IF how = "awaited" THEN "calling" ELSE @])
  /\ UNCHANGED <<request, ctx, answers, given, late, wanted>>

\* The call is made in the parent: it is carried out whatever becomes of the child.
Commit(k) ==
  /\ runs[k].write \in {"awaited", "detached"}
  /\ Set(k, [runs[k] EXCEPT !.write = "done",
                            !.script = IF @ = "calling" THEN "running" ELSE @])
  /\ UNCHANGED <<request, ctx, answers, given, moves, late, wanted>>

\* $res.json(): a call on the context's $res, if that still is one.
Send(k) ==
  /\ Move(k) /\ runs[k].copy.res # "gone" /\ ctx.res = "live"
  /\ answers = <<>>
  /\ answers' = <<"script">>
  /\ UNCHANGED <<request, ctx, runs, given, late, wanted>>

\* $throw: the run is rejected, the script goes on until the failed call of
\* $throw comes back to it (Fail).
Throw(k) ==
  /\ Move(k) /\ runs[k].promise = "pending"
  /\ Set(k, Settled(runs[k], "rejected"))
  /\ UNCHANGED <<request, ctx, answers, given, late, wanted>>

\* lodash merge({}, p || {}, c) for $data: null and undefined become an object.
MergeData(p, c) ==
  CASE c = "undefined"         -> p
    [] c \in {"null", "empty"} -> (IF p \in {"undefined", "null"} THEN "empty" ELSE p)
    [] OTHER                   -> c

\* Only the two objects that are merged deeply come back.
MergeDeepOnly(p, c) ==
  [p EXCEPT !.body = IF c.body = "gone" THEN p.body ELSE c.body,
            !.data = MergeData(p.data, c.data)]

\* smartMergeContext: a deleted field stays, a query with a list in it is not
\* merged at all, $statusCode is copied, and the proxy that the child made of
\* $res comes back as text.
Merge(p, c) ==
  [body   |-> IF c.body = "gone" THEN p.body ELSE c.body,
   query  |-> IF listQuery THEN p.query ELSE c.query,
   data   |-> MergeData(p.data, c.data),
   status |-> IF c.status = "unset" THEN p.status ELSE c.status,
   res    |-> IF c.res = "gone" THEN p.res ELSE "text"]

Left(k) == wanted' = [body |-> runs[k].copy.body, query |-> runs[k].copy.query]

\* The script does not wait for the calls it awaits.
ReturnEarly(k, v) ==
  /\ runs[k].script \in {"running", "calling"}
  /\ ctx' = Merge(ctx, runs[k].copy) /\ Left(k)
  /\ Set(k, Ended(runs[k], v))
  /\ late' = (late \/ runs[k].promise = "rejected")
  /\ UNCHANGED <<request, answers, given, moves>>

\* The script returns: its copy is merged, also when the run was rejected before.
Return(k, v) ==
  /\ Alive(k)
  /\ ctx' = Merge(ctx, runs[k].copy) /\ Left(k)
  /\ Set(k, Ended(runs[k], v))
  /\ late' = (late \/ runs[k].promise = "rejected")
  /\ UNCHANGED <<request, answers, given, moves>>

\* The script throws: nothing is merged.
Fail(k) ==
  /\ Alive(k)
  /\ Set(k, Ended(runs[k], "rejected"))
  /\ UNCHANGED <<request, ctx, answers, given, moves, late, wanted>>

\* The timer: the child is killed, the calls it made go on.
Timeout(k) ==
  /\ runs[k].script \in {"running", "calling"}
  /\ Set(k, Ended(runs[k], "rejected"))
  /\ UNCHANGED <<request, ctx, answers, given, moves, late, wanted>>

-----------------------------------------------------------------------------
RunStep(k) ==
  \/ Launch(k) \/ Edit(k) \/ Commit(k) \/ Send(k) \/ Throw(k) \/ Fail(k) \/ Timeout(k)
  \/ \E how \in {"awaited", "detached"} : Write(k, how)
  \/ \E v \in {"undefined", "result"} : Return(k, v)

Pipeline == Begin \/ Advance \/ NoTimeout \/ HooksOver

Next == Pipeline \/ \E k \in DOMAIN runs : RunStep(k)

Spec == Init /\ [][Next]_vars

-----------------------------------------------------------------------------
(* Properties *)

\* Every variable has its type; no more runs are made than hooks ask for.
TypeOK ==
  /\ mode \in Modes /\ hook \in 1 .. NumPre + NumPost + 1
  /\ runs \in Seq(Run) /\ Len(runs) <= NumPre + 1 + 2 * NumPost
  /\ awaited \in {0} \cup DOMAIN runs
  /\ ctx \in Ctx /\ data \in Datas
  /\ wanted \in [body : {"old", "new", "gone"}, query : {"old", "new"}]
  /\ answers \in Seq(Answers)
  /\ listQuery \in BOOLEAN /\ timeouts \in BOOLEAN /\ late \in BOOLEAN
  /\ moves \in 0 .. MaxMoves

\* The scripts that have their copy as they were given it.
Fresh(k) == Alive(k) /\ ~runs[k].edited

\* A hook is given the outcome it runs for: after the handler its data and the
\* response's status, after a failure no data and the error's status, unless a
\* script that $throw had rejected returned meanwhile and merged its own idea of
\* them between the call of run() and the copy.
HookSeesOutcome ==
  \A k \in DOMAIN runs : k = awaited /\ Fresh(k) /\ ~late =>
    /\ mode = "post"  => runs[k].copy.data = data /\ runs[k].copy.status = "ok"
    /\ mode = "error" => runs[k].copy.data = "null" /\ runs[k].copy.status = "err"

\* c has what the last script left in its copy of $body and $query, but for
\* deleted fields and queries with a list in them.
Arrived(c) == /\ c.body = wanted.body \/ wanted.body = "gone"
              /\ c.query = wanted.query \/ listQuery

\* What a script leaves in its copy is in the context when its run is done and
\* in the copy of the script after it, unless a rejected script came back late.
EditsArrive ==
  ~late => /\ Arrived(ctx)
           /\ \A k \in DOMAIN runs : k = awaited /\ Fresh(k) => Arrived(runs[k].copy)

\* When the request is over, no call of its scripts is begun or carried out any
\* more, but for those of the scripts it had given up ($throw, the timer), and
\* for calls that nobody awaits.
DoneBeforeAnswer ==
  [][\A k \in DOMAIN runs : mode = "end" /\ runs[k].write # runs'[k].write =>
       \/ runs[k].promise = "rejected"
       \/ "detached" \in {runs[k].write, runs'[k].write}]_vars

==============================================================================
