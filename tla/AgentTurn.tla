------------------------------ MODULE AgentTurn ------------------------------
(****************************************************************************)
(* One turn of the AI agent (modules/ai-agent/services/llm.service.ts,      *)
(* chatStream): the tools are chosen, the model is asked, its answer is     *)
(* collected chunk by chunk, the calls in it are checked, run one after the *)
(* other and told to the model, which is asked again, until it answers      *)
(* without a call, the rounds are used up, or the request is aborted.       *)
(****************************************************************************)
EXTENDS Naturals, Sequences, FiniteSets, SequencesExt, Loops

CONSTANTS
  Common,         \* COMMON_TOOLS: the tools there are
  Optional,       \* those that may be called without arguments
  Writers,        \* those that change what the others read
  None,
  Answers,        \* what a model may answer: calls with ids that are "new" or used
                  \* "again", or in its "text"
  Providers,      \* how calls are streamed: in "parts" or "whole"
  MaxIterations,  \* config.maxToolIterations
  MaxTroubles     \* bound: streams that break and tools that throw

ASSUME TurnAssumption ==
  /\ MaxIterations \in Nat
  /\ None \notin Common
  /\ Answers \subseteq [how : {"new", "again", "text"},
                       calls : Seq([tool : STRING, args : Seq(STRING)])]

VARIABLES
  provider,
  pc,        \* "choose", "ask", "answer", "call", "running" or "ended"
  round,     \* iterations
  bound,     \* currentSelectedToolNames
  messages,  \* conversationMessages: calls of the model and answers to calls
  queue,     \* toolCallIdMap: the calls of this round still to be run
  known,     \* ids in allToolCalls
  cached,    \* executedToolCalls: for a tool and its arguments, the result
  failures,  \* failedToolCalls
  shown,     \* what the client was told of each call
  aborted,   \* abortSignal
  outcome,   \* how the turn ended
  world,     \* writes made so far
  troubles   \* bound

vars == <<provider, pc, round, bound, messages, queue, known, cached, failures, shown,
          aborted, outcome, world, troubles>>
rest == <<provider, bound, aborted, outcome>>

Mark(f, keys, v) == [x \in DOMAIN f \cup keys |-> IF x \in keys THEN v ELSE f[x]]
Update(f, k, v) == Mark(f, {k}, v)
IdsOf(calls) == {c.id : c \in ToSet(calls)}

-----------------------------------------------------------------------------
(* Which tools the model gets (evaluateNeedsTools, selectToolsForRequest) *)

\* Records are changed with the tools that find them, and found with the
\* tool that describes their table.
Selected(tools) ==
  LET changes == tools \cap {"create_records", "update_records"}
      finds == IF changes \cup (tools \cap {"delete_records"}) /= {} THEN {"find_records"} ELSE {}
      details == IF changes /= {} \/ "find_records" \in tools THEN {"get_table_details"} ELSE {}
  IN IF tools = {} THEN {} ELSE tools \cup finds \cup details \cup {"get_hint"}

\* A greeting, a question that is not understood and a failing model give none.
Choose ==
  /\ pc = "choose"
  /\ \E tools \in {{}} \cup {{t} : t \in Common} : bound' = Selected(tools) \cap Common
  /\ pc' = "ask"
  /\ UNCHANGED <<provider, round, messages, queue, known, cached, failures, shown, aborted,
                 outcome, world, troubles>>

-----------------------------------------------------------------------------
(* The answer of the model *)

Chunk(id, tool, args) == [id |-> id, tool |-> tool, args |-> args]
\* A provider sends a call whole, or its name first and then its arguments in parts.
Pieces(call) ==
  IF provider = "whole" \/ call.args = <<>> THEN <<Chunk(call.id, call.tool, call.args)>>
  ELSE <<Chunk(call.id, call.tool, <<>>)>> \o [i \in DOMAIN call.args |-> Chunk(None, None, <<call.args[i]>>)]
Send(chunks, call) == chunks \o Pieces(call)
Chunks(calls) == Collect(Send, calls)

\* aggregateToolCallsFromChunks: a chunk with neither id nor name goes on with the last call.
Join(calls, chunk) ==
  IF chunk.id = None /\ chunk.tool = None /\ calls /= <<>>
  THEN [calls EXCEPT ![Len(calls)] = [@ EXCEPT !.args = calls[Len(calls)].args \o chunk.args]]
  ELSE Append(calls, chunk)
Aggregate(chunks) == Collect(Join, chunks)

\* deduplicateToolCalls: of calls of one id the first, or the first with arguments.
Keep(calls, call) ==
  LET same == {i \in DOMAIN calls : calls[i].id = call.id} IN
  IF call.id = None THEN calls
  ELSE IF same = {} THEN Append(calls, call)
  ELSE [i \in DOMAIN calls |-> IF i \in same /\ calls[i].args = <<>> THEN call ELSE calls[i]]
Deduplicate(calls) == Collect(Keep, calls)

\* validateToolCallArguments
Acceptable(call) == call.args /= <<>> \/ call.tool \in Optional

\* The calls that can be run. A tool that is not bound yet is bound now.
Valid(calls) ==
  Picked(calls, {c \in ToSet(calls) : c.tool \in bound \cup Common /\ Acceptable(c)})
Unknown(calls) ==
  Picked(calls, {c \in ToSet(calls) : c.tool /= None /\ c.tool \notin bound \cup Common})

Asked(ids) == [kind |-> "calls", ids |-> ids]
Told(id, result) == [kind |-> "result", ids |-> {id}, result |-> result]
Failed(at) == [error |-> TRUE, at |-> at]

\* Calls are shown as their names arrive, before anything of them is checked.
Announced(chunks) == {c.id : c \in ToSet(chunks)} \ {None}
Announce(ids) == Mark(shown, ids, "pending")

\* The calls are checked: those of unknown tools are answered before the
\* calls are; without a call to run the turn ends.
Take(calls, inText, announced) ==
  LET valid == Valid(calls)
      refused == Unknown(calls)
      before == messages \o [i \in DOMAIN refused |-> Told(refused[i].id, Failed(world))]
  IN
  /\ bound' = bound \cup ({c.tool : c \in ToSet(calls)} \cap Common)
  /\ shown' = Mark(Announce(announced \cup IdsOf(valid)), IdsOf(refused), "error")
  /\ IF valid = <<>>
     THEN /\ messages' = before /\ queue' = <<>>
          /\ pc' = "ended" /\ outcome' = "answered"
     ELSE /\ messages' = Append(before, Asked(IdsOf(valid)))
          /\ queue' = valid  \* toolCallIdMap: the ids differ by now
          /\ pc' = "call" /\ UNCHANGED outcome
  /\ known' = IF inText THEN known \cup IdsOf(calls) ELSE known

End(how) == pc' = "ended" /\ outcome' = how

\* The loop: the rounds are counted first, then the signal is looked at.
Ask ==
  /\ pc = "ask"
  /\ IF round = MaxIterations THEN End("too many") /\ UNCHANGED round
     ELSE /\ round' = round + 1
          /\ IF aborted THEN End("aborted") ELSE pc' = "answer" /\ UNCHANGED outcome
  /\ UNCHANGED <<provider, bound, messages, queue, known, cached, failures, shown, aborted,
                 world, troubles>>

\* Calls get the ids the provider gives them: new ones, or the ones of its
\* first answer again.
Numbered(a) ==
  [i \in DOMAIN a.calls |->
     Chunk(<<a.how, IF a.how = "again" THEN 1 ELSE round, i>>, a.calls[i].tool, a.calls[i].args)]

\* What may have been shown when the stream breaks or the signal is seen.
Heard == {{}} \cup UNION {LET chunks == Chunks(Numbered(a))
                         IN {Announced(SubSeq(chunks, 1, n)) : n \in 1 .. Len(chunks)} :
                         a \in {b \in Answers : b.how /= "text"}}

\* The whole answer arrives. Calls written as text are parsed out of the text.
Answer(a) ==
  /\ pc = "answer" /\ ~aborted
  /\ LET calls == Numbered(a)
         chunks == Chunks(calls)
     IN IF a.how = "text" THEN Take(calls, TRUE, IdsOf(calls))
        ELSE Take(Deduplicate(Aggregate(chunks)), FALSE, Announced(chunks))
  /\ UNCHANGED <<provider, round, cached, failures, aborted, world, troubles>>

\* The stream breaks after some chunks. What was collected is given up; the
\* call in the last chunk is taken, unless earlier rounds had calls.
Break(a) ==
  /\ pc = "answer" /\ ~aborted /\ troubles < MaxTroubles
  /\ a.how /= "text"
  /\ troubles' = troubles + 1
  /\ LET chunks == Chunks(Numbered(a)) IN
     \E n \in 0 .. Len(chunks) :
       LET announced == Announced(SubSeq(chunks, 1, n)) IN
       IF known /= {}
       THEN End("interrupted") /\ shown' = Announce(announced) /\ UNCHANGED <<bound, messages, queue, known>>
       ELSE Take(IF n = 0 THEN <<>> ELSE <<chunks[n]>>, FALSE, announced)
  /\ UNCHANGED <<provider, round, cached, failures, aborted, world>>

\* The model does not answer, or not to the end, and not because of its socket.
Refuse ==
  /\ pc = "answer" /\ ~aborted /\ troubles < MaxTroubles
  /\ troubles' = troubles + 1
  /\ \E ids \in Heard : shown' = Announce(ids)
  /\ End("error")
  /\ UNCHANGED <<provider, round, bound, messages, queue, known, cached, failures, aborted, world>>

\* The signal is seen at the next chunk.
NoticeAbort ==
  /\ pc = "answer" /\ aborted
  /\ \E ids \in Heard : shown' = Announce(ids)
  /\ End("aborted")
  /\ UNCHANGED <<provider, round, bound, messages, queue, known, cached, failures, aborted,
                 world, troubles>>

-----------------------------------------------------------------------------
(* The calls of a round, one after the other *)

First == queue[1]
Key(call) == <<call.tool, call.args>>  \* createToolCallCacheKey

\* A ToolMessage, unless the call has one already.
Tell(id, result) ==
  messages' = IF \E i \in DOMAIN messages : messages[i].kind = "result" /\ messages[i].ids = {id}
              THEN messages ELSE Append(messages, Told(id, result))
Show(id, error) == shown' = Update(shown, id, IF error THEN "error" ELSE "success")

Done ==
  /\ pc = "call" /\ queue = <<>>
  /\ pc' = "ask"
  /\ UNCHANGED <<rest, round, messages, queue, known, cached, failures, shown, world, troubles>>

\* Mutant: the result is at hand, and the model is not told.
MutantRepeat ==
  /\ pc = "call" /\ queue /= <<>> /\ Key(First) \in DOMAIN cached
  /\ Show(First.id, cached[Key(First)].error)
  /\ queue' = Tail(queue)
  /\ UNCHANGED <<rest, pc, round, messages, known, cached, failures, world, troubles>>

\* The same tool was called with the same arguments before.
Repeat ==
  /\ pc = "call" /\ queue /= <<>> /\ Key(First) \in DOMAIN cached
  /\ Tell(First.id, cached[Key(First)])
  /\ Show(First.id, cached[Key(First)].error)
  /\ queue' = Tail(queue)
  /\ UNCHANGED <<rest, pc, round, known, cached, failures, world, troubles>>

\* A call of an id that is in allToolCalls is left out.
Skip ==
  /\ pc = "call" /\ queue /= <<>> /\ Key(First) \notin DOMAIN cached
  /\ First.id \in known
  /\ queue' = Tail(queue)
  /\ UNCHANGED <<rest, pc, round, messages, known, cached, failures, shown, world, troubles>>

\* Mutant: the signal is not looked at before a tool is run.
MutantRun ==
  /\ pc = "call" /\ queue /= <<>> /\ Key(First) \notin DOMAIN cached
  /\ First.id \notin known
  /\ known' = known \cup {First.id}
  /\ pc' = "running"
  /\ UNCHANGED <<rest, round, messages, queue, cached, failures, shown, world, troubles>>

Run ==
  /\ pc = "call" /\ queue /= <<>> /\ Key(First) \notin DOMAIN cached
  /\ First.id \notin known /\ ~aborted
  /\ known' = known \cup {First.id}
  /\ pc' = "running"
  /\ UNCHANGED <<rest, round, messages, queue, cached, failures, shown, world, troubles>>

\* Mutant: the client is not told of a call that came too late.
MutantTooLate ==
  /\ pc = "call" /\ queue /= <<>> /\ Key(First) \notin DOMAIN cached
  /\ First.id \notin known /\ aborted
  /\ known' = known \cup {First.id}
  /\ Tell(First.id, Failed(world))
  /\ queue' = Tail(queue)
  /\ UNCHANGED <<rest, pc, round, cached, failures, shown, world, troubles>>

\* Aborted before it is run: the error is caught like one of the tool.
TooLate ==
  /\ pc = "call" /\ queue /= <<>> /\ Key(First) \notin DOMAIN cached
  /\ First.id \notin known /\ aborted
  /\ known' = known \cup {First.id}
  /\ Tell(First.id, Failed(world)) /\ Show(First.id, TRUE)
  /\ queue' = Tail(queue)
  /\ UNCHANGED <<rest, pc, round, cached, failures, world, troubles>>

\* The tool returns. A result that arrives after an abort is not kept; a
\* result that says it failed is counted.
Return ==
  /\ pc = "running"
  /\ \E failed \in BOOLEAN :
       LET key == Key(First)
           count == (IF key \in DOMAIN failures THEN failures[key] ELSE 0) + 1
       IN
       /\ world' = IF First.tool \in Writers /\ ~failed THEN world + 1 ELSE world
       /\ IF aborted
          THEN /\ Tell(First.id, Failed(world)) /\ Show(First.id, TRUE)
               /\ queue' = Tail(queue) /\ pc' = "call"
               /\ UNCHANGED <<cached, failures, outcome>>
          ELSE /\ cached' = Update(cached, key, [error |-> failed, at |-> world'])
               /\ failures' = IF failed THEN Update(failures, key, count) ELSE failures
               /\ IF failed /\ count >= 3
                  THEN End("repeated") /\ UNCHANGED <<messages, shown, queue>>
                  ELSE /\ Tell(First.id, [error |-> failed, at |-> world']) /\ Show(First.id, failed)
                       /\ queue' = Tail(queue) /\ pc' = "call" /\ UNCHANGED outcome
  /\ UNCHANGED <<provider, round, bound, known, aborted, troubles>>

Throw ==
  /\ pc = "running" /\ troubles < MaxTroubles
  /\ troubles' = troubles + 1
  /\ Tell(First.id, Failed(world)) /\ Show(First.id, TRUE)
  /\ queue' = Tail(queue) /\ pc' = "call"
  /\ UNCHANGED <<rest, round, known, cached, failures, world>>

\* The client leaves, or the turn is cancelled.
Abort ==
  /\ pc \in {"choose", "answer", "running"} /\ ~aborted
  /\ aborted' = TRUE
  /\ UNCHANGED <<provider, pc, round, bound, messages, queue, known, cached, failures, shown,
                 outcome, world, troubles>>

-----------------------------------------------------------------------------
Init ==
  /\ provider \in Providers
  /\ pc = "choose" /\ round = 0 /\ bound = {}
  /\ messages = <<>> /\ queue = <<>> /\ known = {}
  /\ cached = <<>> /\ failures = <<>> /\ shown = <<>>
  /\ aborted = FALSE /\ outcome = "none"
  /\ world = 0 /\ troubles = 0

Step == Choose \/ Ask \/ Refuse \/ NoticeAbort \/ Done \/ Repeat \/ Skip \/ Run \/ TooLate \/ Return
          \/ Throw \/ (\E a \in Answers : Answer(a) \/ Break(a))
Next == Step \/ Abort
Spec == Init /\ [][Next]_vars

-----------------------------------------------------------------------------
(* Properties *)

\* Ids a provider gave to one call only, and not parsed out of the text.
GivenOnce(id) == id[1] = "new"

\* Providers refuse a conversation in which a call of the model has no
\* answer: whenever the model is asked, every call it made is answered once,
\* after it was made. Not so calls parsed out of the text, and calls whose id
\* another call had: a result that is there is not sent again, wherever it is.
CallsAnswered ==
  pc = "answer" =>
    \A i \in DOMAIN messages : messages[i].kind = "calls" =>
      \A id \in messages[i].ids : GivenOnce(id) =>
        Cardinality({j \in i + 1 .. Len(messages) : messages[j].kind = "result" /\ messages[j].ids = {id}}) = 1

\* Whatever ends the turn, the client was told how each call ended that was
\* taken to be run, also one that an abort kept from running or whose tool
\* threw. Only of these: a call is shown when its name arrives, and one that is
\* then dropped for its arguments, or whose answer is aborted or broken off,
\* stays pending at the client for ever.
CallsSettled ==
  pc = "ended" =>
    \A i \in DOMAIN messages : messages[i].kind = "calls" =>
      \A id \in messages[i].ids : GivenOnce(id) => id \in DOMAIN shown /\ shown[id] /= "pending"

NoKey == <<>>
T == INSTANCE Turn WITH
       ended <- pc = "ended",
       stopped <- aborted,
       running <- IF pc = "running" THEN Key(First) ELSE NoKey,
       done <- DOMAIN cached

\* The turn keeps its promises about the tools.
KeepsPromises == T!Spec
=============================================================================
