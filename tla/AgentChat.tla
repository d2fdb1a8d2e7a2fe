------------------------------ MODULE AgentChat ------------------------------
(****************************************************************************)
(* One conversation with the AI agent (modules/ai-agent/services):          *)
(* ai-agent.service.ts processRequestStream, with the messages kept by      *)
(* conversation.service.ts, the summary that takes the place of old         *)
(* messages, the registry of running streams that a cancellation goes       *)
(* through, and the history that is made for the model. A request has two   *)
(* tasks: the handler, and onClose, which runs beside it once the client is *)
(* gone.                                                                    *)
(****************************************************************************)
EXTENDS Naturals, Sequences, FiniteSets, SequencesExt, Loops

CONSTANTS
  Count,        \* requests for the conversation, in the order they begin
  Instances,    \* servers
  Setups,       \* the servers the requests may come to, each with a value of
                \* config.maxConversationMessages
  Page,         \* rows a find without a limit returns (10)
  Together,     \* bound: only the first so many may be at work together, and
                \* none comes after them if they are
  MaxMishaps,   \* bound: failing queries and providers, clients that leave,
                \* summaries timed otherwise than by the database's clock;
                \* none when two requests are at work together
  Ahead         \* bound: messages that the database, by its own clock, may
                \* put no later than the summary made before them

ASSUME ChatAssumption ==
  /\ Page \in Nat \ {0} /\ Count \in Nat /\ Ahead \in Nat
  /\ Setups \subseteq [1 .. Count -> Instances] \X (Nat \ {0})

Requests == 1 .. Count
Nobody == 0

VARIABLES
  home,          \* the server of each request
  limit,         \* config.maxConversationMessages
  thread,        \* ai_message_definition, in the order of createdAt
  serial,        \* ids given to messages so far, in the order of createdAt
  conversation,  \* its summary; lastSummaryAt, as the last message that is no
                 \* later; messageCount; and the messages that are no later
                 \* than a summary made before them, and the one after these
  streams,       \* activeStreams and streamCallbacks of each server
  cancels,       \* servers a published cancellation is under way to
  stage,         \* of each task of each request
  req,           \* what the handler of a request remembers
  note,          \* what a task has read and not yet used: a number
  mishaps,       \* bound
  history        \* what happened that excuses a property

chatVars == <<home, limit, thread, serial, conversation, streams, cancels, stage, req, note, mishaps, history>>
database == <<thread, serial, conversation>>
settings == <<home, limit>>

Main(r) == <<r, "main">>
Closing(r) == <<r, "close">>
Tasks == Requests \X {"main", "close"}
Goto(t, label) == stage' = [stage EXCEPT ![t] = label]
Open(r) == stage[Main(r)] \notin {"new", "ended"}
Busy(r) == Open(r) \/ stage[Closing(r)] /= "ended"

Mishap(kind) ==
  /\ mishaps < MaxMishaps /\ "overlap" \notin history
  /\ mishaps' = mishaps + 1
  /\ history' = history \cup {kind}
Calm == UNCHANGED <<mishaps, history>>

-----------------------------------------------------------------------------
(* conversation.service.ts                                                  *)

Message(role, r, kind, n) == [id |-> serial + 1, role |-> role, of |-> r, kind |-> kind, sequence |-> n]
CreateMessage(role, r, kind, n) ==
  /\ thread' = Append(thread, Message(role, r, kind, n))
  /\ serial' = serial + 1

\* Asks for the sequences without a limit: the first page counts.
LastSequence == Max({0} \cup {thread[i].sequence : i \in 1 .. Min({Page, Len(thread)})})

Since(since) == {m \in ToSet(thread) : m.id > since}
LastOf(s, n) == SubSeq(s, IF Len(s) > n THEN Len(s) - n + 1 ELSE 1, Len(s))

\* Mutant: not reversed.
MutantRecent(since) == Reverse(LastOf(Picked(thread, Since(since)), limit))

\* getMessages with -createdAt, reversed: the last ones since then.
Recent(since) == LastOf(Picked(thread, Since(since)), limit)

-----------------------------------------------------------------------------
(* message-builder.helper.ts                                                *)

\* A question that follows a question is left out; so are errors, answers
\* without content, and answers that are not among the last twelve messages.
\* What is left are the questions and answers the model sees.
Push(built, m) ==
  IF m.role = "user"
  THEN IF built /= <<>> /\ Last(built).role = "user" THEN built ELSE Append(built, m)
  ELSE IF m.kind \in {"error", "empty"} THEN built ELSE Append(built, m)
Questions(s) == {m \in ToSet(s) : m.role = "user"}
Built(view) ==
  Collect(Push, Picked(view, Questions(view) \cup {view[i] : i \in {j \in DOMAIN view : j > Len(view) - 12}}))

\* The question the model is asked last.
Questioned(view) ==
  LET questions == Picked(Built(view), Questions(Built(view)))
  IN IF questions = <<>> THEN Nobody ELSE Last(questions).of

-----------------------------------------------------------------------------
(* stream-management.service.ts                                             *)

Unregistered(r) == IF req[r].registered THEN [streams EXCEPT ![home[r]] = Nobody] ELSE streams

\* The user cancels. The server that has the stream tells the others first;
\* one that has not, tells nobody.
Cancel(i) ==
  /\ streams[i] /= Nobody
  /\ cancels' = cancels \cup (Instances \ {i})
  /\ req' = [req EXCEPT ![streams[i]].aborted = TRUE]
  /\ streams' = [streams EXCEPT ![i] = Nobody]
  /\ UNCHANGED <<database, settings, stage, note, mishaps, history>>

\* handleCancelMessage: onClose finds the signal aborted and does nothing.
Deliver(i) ==
  /\ i \in cancels
  /\ cancels' = cancels \ {i}
  /\ req' = [r \in Requests |-> IF streams[i] = r THEN [req[r] EXCEPT !.aborted = TRUE] ELSE req[r]]
  /\ streams' = [streams EXCEPT ![i] = Nobody]
  /\ UNCHANGED <<database, settings, stage, note, mishaps, history>>

-----------------------------------------------------------------------------
(* The request up to its question                                           *)

\* The conversation is found, and the stream registered in the place of one
\* that may still be running. A conversation of somebody else is not found.
Begin(r) ==
  /\ stage[Main(r)] = "new"
  /\ LET others == {q \in Requests : Busy(q)}
         begun == {q \in Requests : stage[Main(q)] /= "new"}
     IN
     /\ begun = 1 .. r - 1
     /\ others = {} \/ (r <= Together /\ mishaps = 0)
     /\ r > Together => "overlap" \notin history
     /\ history' = history \cup (IF others /= {} THEN {"overlap"} ELSE {})
                           \cup (IF \E q \in others : home[q] = home[r] THEN {"shared"} ELSE {})
  /\ \/ /\ req' = [req EXCEPT ![r].registered = TRUE, ![r].since = conversation.since]
        /\ streams' = [streams EXCEPT ![home[r]] = r]
        /\ Goto(Main(r), "config")
     \/ Goto(Main(r), "finish") /\ UNCHANGED <<req, streams>>
  /\ UNCHANGED <<database, settings, cancels, note, mishaps>>

\* The catch of the handler: the stream is unregistered, and the error is
\* stored if the handler came as far as the last sequence.
Catch(r, kind) ==
  /\ Mishap(kind)
  /\ streams' = Unregistered(r)
  /\ Goto(Main(r), IF stage[Main(r)] \in {"config", "last"} THEN "finish" ELSE "error")
  /\ UNCHANGED <<database, settings, cancels, req, note>>

\* The configuration of the model may be gone or disabled.
Config(r) ==
  /\ stage[Main(r)] = "config"
  /\ \/ Goto(Main(r), "last")
     \/ Goto(Main(r), "finish")
  /\ UNCHANGED <<database, settings, streams, cancels, req, note, mishaps, history>>

FindLast(r) ==
  /\ stage[Main(r)] = "last"
  /\ \/ /\ req' = [req EXCEPT ![r].last = LastSequence]
        /\ Goto(Main(r), "ask")
        /\ Calm /\ UNCHANGED <<database, settings, streams, cancels, note>>
     \/ Catch(r, "unheard")

StoreQuestion(r) ==
  /\ stage[Main(r)] = "ask"
  /\ \/ /\ CreateMessage("user", r, "question", req[r].last + 1)
        /\ req' = [req EXCEPT ![r].message = serial + 1]
        /\ Goto(Main(r), "history")
        /\ Calm /\ UNCHANGED <<conversation, settings, streams, cancels, note>>
     \/ Catch(r, "unheard")

\* The messages since the last summary. The last of them must be a question;
\* if they are as many as the limit a summary is made, and the model gets the
\* last fourteen at most.
ReadHistory(r) ==
  /\ stage[Main(r)] = "history"
  /\ \/ LET found == Recent(req[r].since)
            own == Picked(thread, {m \in ToSet(thread) : m.id = req[r].message})
            view == IF \E i \in DOMAIN found : found[i].id = req[r].message THEN found ELSE found \o own
            full == Len(view) >= limit
        IN
        /\ IF Last(view).role /= "user"
           THEN Goto(Main(r), "error") /\ UNCHANGED req
           ELSE /\ Goto(Main(r), IF full THEN "summary" ELSE "stream")
                /\ req' = [req EXCEPT ![r].asked = Questioned(IF full THEN LastOf(view, Min({limit, 14})) ELSE view)]
        /\ Calm /\ UNCHANGED <<database, settings, streams, cancels, note>>
     \/ Catch(r, "unheard")

-----------------------------------------------------------------------------
(* conversation-summary.service.ts                                          *)

Fact(m) == <<m.role, m.of>>

\* The last messages are read, whatever an earlier summary covers, with the
\* earlier summary.
ReadForSummary(r) ==
  /\ stage[Main(r)] = "summary"
  /\ \/ /\ req' = [req EXCEPT ![r].covers =
                     {Fact(m) : m \in ToSet(Recent(0))} \cup {<<"user", r>>} \cup conversation.summary]
        /\ Goto(Main(r), "rewrite")
        /\ Calm /\ UNCHANGED <<database, settings, streams, cancels, note>>
     \/ Catch(r, "unsummarised")

\* lastSummaryAt is the server's time, and createdAt the database's, in whole
\* seconds on MySQL: messages before the summary may be later by it, and those
\* that come next no later.
Summarise(covers, clock) ==
  /\ conversation' = [conversation EXCEPT !.summary = covers, !.since = clock,
                        !.late = @ \cup (IF clock > serial THEN serial + 1 .. clock + 1 ELSE {})]
  /\ IF clock = serial THEN Calm ELSE Mishap("clock")

\* Mutant: the earlier summary is not told to the model.
MutantRewrite(r) ==
  /\ stage[Main(r)] = "rewrite"
  /\ \/ /\ \E clock \in conversation.since .. serial + Ahead : Summarise(req[r].covers \ conversation.summary, clock)
        /\ Goto(Main(r), "remove")
        /\ UNCHANGED <<thread, serial, settings, streams, cancels, req, note>>
     \/ Catch(r, "unsummarised")

\* The model answers, and the time of that is stored with the summary.
Rewrite(r) ==
  /\ stage[Main(r)] = "rewrite"
  /\ \/ /\ \E clock \in conversation.since .. serial + Ahead : Summarise(req[r].covers, clock)
        /\ Goto(Main(r), "remove")
        /\ UNCHANGED <<thread, serial, settings, streams, cancels, req, note>>
     \/ Catch(r, "unsummarised")

\* The question is deleted and created again, to be later than the summary.
RemoveQuestion(r) ==
  /\ stage[Main(r)] = "remove"
  /\ \/ /\ thread' = Picked(thread, {m \in ToSet(thread) : m.id /= req[r].message})
        /\ Goto(Main(r), "renew")
        /\ Calm /\ UNCHANGED <<serial, conversation, settings, streams, cancels, req, note>>
     \/ Catch(r, "unheard")

RenewQuestion(r) ==
  /\ stage[Main(r)] = "renew"
  /\ \/ /\ CreateMessage("user", r, "question", req[r].last + 1)
        /\ Goto(Main(r), "stream")
        /\ Calm /\ UNCHANGED <<conversation, settings, streams, cancels, req, note>>
     \/ Catch(r, "unheard")

-----------------------------------------------------------------------------
(* The answer                                                               *)

\* The first text or call arrives and is sent on.
Say(r) ==
  /\ stage[Main(r)] = "stream" /\ ~req[r].aborted /\ ~req[r].wrote
  /\ req' = [req EXCEPT ![r].wrote = TRUE]
  /\ UNCHANGED <<database, settings, streams, cancels, stage, note, mishaps, history>>

\* onClose: the signal is aborted, and what came so far is stored beside the
\* handler.
Close(r, wrote) ==
  /\ Mishap("left")
  /\ req' = [req EXCEPT ![r].wrote = wrote, ![r].aborted = TRUE]

\* An event cannot be written: the client is gone, or does not read.
Leave(r) ==
  /\ stage[Main(r)] = "stream" /\ ~req[r].aborted
  /\ \E wrote \in {req[r].wrote, TRUE} :
       /\ Close(r, wrote)
       /\ Goto(Closing(r), IF wrote THEN "partial" ELSE "finish")
  /\ UNCHANGED <<database, settings, streams, cancels, note>>

\* The model has answered, with nothing if nothing came. The stream is
\* unregistered, and the answer stored in the background.
ModelAnswers(r) ==
  /\ stage[Main(r)] = "stream"
  /\ streams' = Unregistered(r)
  /\ req' = [req EXCEPT ![r].open = FALSE]
  /\ Goto(Main(r), "answer")
  /\ UNCHANGED <<database, settings, cancels, note, mishaps, history>>

\* Mutant: the error is stored as well.
MutantFail(r) ==
  /\ stage[Main(r)] = "stream"
  /\ IF req[r].aborted THEN Calm ELSE Mishap("provider")
  /\ IF req[r].wrote
     THEN /\ CreateMessage("assistant", r, "error", req[r].last + 2)
          /\ Goto(Main(r), "partial") /\ UNCHANGED <<streams, req, conversation>>
     ELSE /\ streams' = Unregistered(r)
          /\ req' = [req EXCEPT ![r].open = FALSE]
          /\ Goto(Main(r), "error") /\ UNCHANGED database
  /\ UNCHANGED <<settings, cancels, note>>

\* The model fails, or the signal is seen: what came so far is stored, or the
\* error if nothing came.
Fail(r) ==
  /\ stage[Main(r)] = "stream"
  /\ IF req[r].aborted THEN Calm ELSE Mishap("provider")
  /\ IF req[r].wrote
     THEN Goto(Main(r), "partial") /\ UNCHANGED <<streams, req>>
     ELSE /\ streams' = Unregistered(r)
          /\ req' = [req EXCEPT ![r].open = FALSE]
          /\ Goto(Main(r), "error")
  /\ UNCHANGED <<database, settings, cancels, note>>

\* A failing query: it is logged, and the request goes on to its end.
GiveUp(t) ==
  /\ Mishap("unheard")
  /\ Goto(t, "finish")
  /\ UNCHANGED <<database, settings, streams, cancels, req, note>>

StoreAnswer(r) ==
  /\ stage[Main(r)] = "answer"
  /\ \/ /\ CreateMessage("assistant", r, IF req[r].wrote THEN "answer" ELSE "empty", req[r].last + 2)
        /\ Goto(Main(r), "count")
        /\ Calm /\ UNCHANGED <<conversation, settings, streams, cancels, req, note>>
     \/ GiveUp(Main(r))

\* Mutant: stored with the number of the question.
MutantStoreError(r) ==
  /\ stage[Main(r)] = "error"
  /\ \/ /\ CreateMessage("assistant", r, "error", req[r].last + 1)
        /\ Goto(Main(r), "count")
        /\ Calm /\ UNCHANGED <<conversation, settings, streams, cancels, req, note>>
     \/ GiveUp(Main(r))

StoreError(r) ==
  /\ stage[Main(r)] = "error"
  /\ \/ /\ CreateMessage("assistant", r, "error", req[r].last + 2)
        /\ Goto(Main(r), "count")
        /\ Calm /\ UNCHANGED <<conversation, settings, streams, cancels, req, note>>
     \/ GiveUp(Main(r))

\* savePartialMessage: numbered after the last message there is by then.
Partial(t) ==
  /\ stage[t] = "partial"
  /\ \/ /\ note' = [note EXCEPT ![t] = LastSequence + 2]
        /\ Goto(t, "keep")
        /\ Calm /\ UNCHANGED <<database, settings, streams, cancels, req>>
     \/ GiveUp(t)
KeepPartial(t) ==
  /\ stage[t] = "keep"
  /\ \/ /\ CreateMessage("assistant", t[1], "partial", note[t])
        /\ Goto(t, "count")
        /\ Calm /\ UNCHANGED <<conversation, settings, streams, cancels, req, note>>
     \/ GiveUp(t)

\* updateMessageCount reads, then writes.
CountMessages(t) ==
  /\ stage[t] = "count"
  /\ \/ /\ note' = [note EXCEPT ![t] = Len(thread)]
        /\ Goto(t, "store")
        /\ Calm /\ UNCHANGED <<database, settings, streams, cancels, req>>
     \/ GiveUp(t)
StoreCount(t) ==
  /\ stage[t] = "store"
  /\ \/ /\ conversation' = [conversation EXCEPT !.count = note[t]]
        /\ Goto(t, "finish")
        /\ Calm /\ UNCHANGED <<thread, serial, settings, streams, cancels, req, note>>
     \/ GiveUp(t)

\* The variables of the handler are gone when it returns.
Forgotten(r) == [req EXCEPT ![r] = [@ EXCEPT !.since = 0, !.last = 0, !.asked = Nobody, !.covers = {}]]

\* The stream is unregistered where that is still to be done, "done" or the
\* error sent, and the response ended.
Finish(t) ==
  /\ stage[t] = "finish"
  /\ streams' = IF req[t[1]].open \/ t[2] = "close" THEN Unregistered(t[1]) ELSE streams
  /\ Goto(t, "ended")
  /\ req' = IF t[2] = "main" THEN Forgotten(t[1]) ELSE req
  /\ note' = [note EXCEPT ![t] = 0]
  /\ UNCHANGED <<database, settings, cancels, mishaps, history>>

\* "done" cannot be written: what came is stored once more.
LeaveAtEnd(r) ==
  /\ stage[Main(r)] = "finish" /\ ~req[r].aborted
  /\ Close(r, req[r].wrote)
  /\ streams' = IF req[r].open THEN Unregistered(r) ELSE streams
  /\ stage' = [stage EXCEPT ![Main(r)] = "ended", ![Closing(r)] = IF req[r].wrote THEN "partial" ELSE "finish"]
  /\ UNCHANGED <<database, settings, cancels, note>>

-----------------------------------------------------------------------------
ChatInit ==
  /\ \E setup \in Setups : home = setup[1] /\ limit = setup[2]
  /\ thread = <<>> /\ serial = 0
  /\ conversation = [summary |-> {}, since |-> 0, count |-> 0, late |-> {}]
  /\ streams = [i \in Instances |-> Nobody] /\ cancels = {}
  /\ stage = [t \in Tasks |-> IF t[2] = "main" THEN "new" ELSE "ended"]
  /\ req = [r \in Requests |->
              [registered |-> FALSE, since |-> 0, last |-> 0, message |-> 0, asked |-> Nobody,
               covers |-> {}, wrote |-> FALSE, aborted |-> FALSE, open |-> TRUE]]
  /\ note = [t \in Tasks |-> 0]
  /\ mishaps = 0 /\ history = {}

Work(t) == Partial(t) \/ KeepPartial(t) \/ CountMessages(t) \/ StoreCount(t) \/ Finish(t)
Handle(r) ==
  \/ Config(r) \/ FindLast(r) \/ StoreQuestion(r) \/ ReadHistory(r)
  \/ ReadForSummary(r) \/ Rewrite(r) \/ RemoveQuestion(r) \/ RenewQuestion(r)
  \/ ModelAnswers(r) \/ Fail(r) \/ StoreAnswer(r) \/ StoreError(r)
Environment ==
  \/ \E r \in Requests : Begin(r) \/ Say(r) \/ Leave(r) \/ LeaveAtEnd(r)
  \/ \E i \in Instances : Cancel(i) \/ Deliver(i)
ChatNext == Environment \/ (\E r \in Requests : Handle(r)) \/ (\E t \in Tasks : Work(t))
ChatSpec == ChatInit /\ [][ChatNext]_chatVars

-----------------------------------------------------------------------------
(* Properties                                                               *)

Quiet == \A r \in Requests : ~Busy(r)
Spared(kinds) == history \cap kinds = {}
Of(r, role) == {i \in DOMAIN thread : thread[i].of = r /\ thread[i].role = role}

\* A question is stored once and answered once: with the answer, with what
\* came of it before it broke off or was cancelled, or with an error. Not so
\* when the client left, which stores the answer twice, or a query failed.
Answered ==
  \A r \in Requests : ~Busy(r) /\ req[r].message /= 0 /\ Spared({"left", "unheard"}) =>
    Cardinality(Of(r, "user")) = 1 /\ Cardinality(Of(r, "assistant")) = 1

\* The model is asked the question of the request, not an older one, however
\* much of the history was cut or summarised. Excused: conversations with an
\* error or an empty answer in them, which drop the next question, and
\* requests at the same time.
AsksLatest ==
  \A r \in Requests :
    stage[Main(r)] = "stream" /\ Spared({"overlap", "unheard"})
      /\ (\A i \in DOMAIN thread : thread[i].kind \notin {"error", "empty"})
    => req[r].asked = r

\* The messages of a conversation are numbered in the order they were made,
\* and counted, through cancellations, errors and summaries. Requests at the
\* same time, lost clients, failing queries and more messages than a page
\* upset it.
InOrder ==
  Quiet /\ Spared({"overlap", "left", "unheard"}) /\ Len(thread) <= Page =>
    /\ \A i, j \in DOMAIN thread : i < j => thread[i].sequence < thread[j].sequence
    /\ thread /= <<>> => conversation.count = Len(thread)

\* What the history leaves out is in the summary, which is to be "complete so
\* the agent can continue work without missing context". Lost are only the
\* messages that the clocks put no later than the summary made before them,
\* and, since the history then begins at another message, the one after these:
\* with clocks that agree, none. Between questions and answers that alternate
\* an odd number of messages comes to each question, so a limit that is even is
\* passed by one, and neither has room for the first message of all; later
\* summaries lose nothing more. A limit of one is left out: each summary then
\* reads the question alone.
NothingForgotten ==
  Spared({"overlap", "left", "unheard", "unsummarised"}) /\ limit > 1 =>
    \A i \in DOMAIN thread :
      \/ thread[i].id > conversation.since
      \/ Fact(thread[i]) \in conversation.summary
      \/ thread[i].id \in conversation.late
      \/ i = 1 /\ limit % 2 = 0

=============================================================================
