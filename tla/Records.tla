------------------------------- MODULE Records -------------------------------
(****************************************************************************)
(* The repository that scripts and default handlers use                     *)
(* (modules/dynamic-api/repositories/dynamic.repository.ts): create, update *)
(* and delete look at the table, run the checks, write the record           *)
(* (RecordWrites), read it back and announce the table to the caches; and   *)
(* the transaction in which a conversation is updated and its messages are  *)
(* deleted (modules/ai-agent/services/conversation.service.ts), by the same *)
(* repositories.                                                            *)
(****************************************************************************)
EXTENDS RecordWrites, FiniteSets

CONSTANTS
  Workloads,  \* what clients may send at a time: a request for every process
  Single,     \* tables of a single record
  Guarded     \* tables with a rule for the rows of the system: they keep their flag and
              \* "fixed", which stands for the fields that only the system may change

\* op: "create", "update", "delete" or "keep" (the transaction, which deletes
\* the rows `old` after the update); table, id and data of the record; whether
\* a new record, at any depth, is flagged as the system's; whether the fields
\* that the client asks for show the record's flag, and of which relations they
\* show the flags of the items.
ASSUME RequestsAssumption ==
  \A w \in Workloads, p \in Processes : LET q == w[p] IN
                      /\ q.op \in {"create", "update", "delete", "keep"}
                      /\ q.table \in DOMAIN Relations

VARIABLES
  request,    \* of every process
  at,         \* what a process does next
  answer,     \* "none", "ok" or "error"
  left,       \* what a keeper has listed and still has to delete
  announced,  \* tables announced to the caches
  crossed     \* (history) processes whose write met another of the same tables, or on
              \* MongoDB found the two sides of a relation in disagreement

vars == <<writes, request, at, answer, left, announced, crossed>>
repository == <<request, at, answer, left, announced, crossed>>

Init ==
  /\ database \in Databases
  /\ facts = Stored[database]
  /\ pending = [add |-> {}, del |-> {}]
  /\ open = "none" /\ owner = {}
  /\ cascadeContextMap = [t \in Tables |-> None]
  /\ knexInstance = "pool"
  /\ stack = [p \in Processes |-> <<>>]
  /\ outcome = [p \in Processes |-> <<>>]
  /\ next = Fresh /\ troubles = 0
  /\ request \in Workloads
  /\ at = [p \in Processes |-> "idle"]
  /\ answer = [p \in Processes |-> "none"]
  /\ left = [p \in Processes |-> <<>>]
  /\ announced = {} /\ crossed = {}

-----------------------------------------------------------------------------
(* Two requests meet if they write the same table while both are at work *)

Targets(t, data) == {r.target : r \in {r \in ToSet(Relations[t]) : r.name \in DOMAIN data.rels}}
Deeper(t, data) ==
  UNION {UNION {Targets(r.target, x.data) : x \in ToSet(data.rels[r.name].items)} :
           r \in {r \in ToSet(Relations[t]) : r.name \in DOMAIN data.rels}}
Around(t) == {t} \cup {r.target : r \in ToSet(Relations[t])}
Touched(q) ==
  CASE q.op = "delete" -> Around(q.table)
    [] q.op = "keep" -> Around(q.table) \cup UNION {Around(o[1]) : o \in ToSet(q.old)}
    [] OTHER -> {q.table} \cup Targets(q.table, q.data) \cup Deeper(q.table, q.data)

\* MongoDB keeps both sides of a relation, by statements that may fail apart.
SidesAgree == \A t \in Tables : \A r \in ToSet(Relations[t]) :
  {<<f[2], f[3]>> : f \in {f \in facts : f[1] = r.name}}
    = {<<f[3], f[2]>> : f \in {f \in facts : f[1] = r.back}}

AtWork(p) == at[p] \notin {"idle", "done"}
Meets(p, q) ==
  \/ Touched(request[p]) \cap Touched(request[q]) # {}
  \/ request[p].op = "keep" \/ request[q].op = "keep"

-----------------------------------------------------------------------------
(* The repository *)

Goto(p, s) == at' = [at EXCEPT ![p] = s]

Reply(p, a) ==
  /\ answer' = [answer EXCEPT ![p] = a]
  /\ Goto(p, "done")

\* Everything is read through getKnex; a transaction that is over reads nothing.
Rows(t) == {f[2] : f \in {f \in View(Current) : f[1] = t}}
SystemRows == {f[2] : f \in {f \in View(Current) : f[1] = "isSystem"}}
Unreadable == Current = "trx" /\ open # "open"

\* What a record refers to through a relation, seen from either side.
Held(conn, r, n) == IF r.inverse THEN {f[2] : f \in Referring(conn, r.column, n)}
                    ELSE {f[3] : f \in Refs(conn, r.column, n)}

\* system-protection.service.ts: the record is read with the fields the client
\* asks for, by default without the flags of what it is related to.
LosesItems(q) ==
  \E name \in q.flags \cap DOMAIN q.data.rels :
    /\ q.data.rels[name].form = "list"
    /\ \/ q.flagged
       \/ \E r \in ToSet(Relations[q.table]) :
            r.name = name /\ (Held(Current, r, q.id) \cap SystemRows) \ ItemIds(q.data.rels[name]) # {}
ChangesFixed(q) == q.table \in Guarded /\ \E k \in q.data.cols : k[1] \in {"fixed", "isSystem"}

\* (mutant: only deletions are looked at)
MutantProtected(q) ==
  IF q.op = "create" THEN q.flagged
  ELSE q.shown /\ q.id \in SystemRows /\ q.op = "delete"
Protected(q) ==
  IF q.op = "create" THEN q.flagged
  ELSE q.shown /\ q.id \in SystemRows /\ (q.op = "delete" \/ LosesItems(q) \/ ChangesFixed(q))

\* An update or delete of nothing, a second record of a single table, and what
\* the system's records are protected from are refused.
Refuses(q) ==
  \/ Unreadable
  \/ q.op # "create" /\ q.id \notin Rows(q.table)
  \/ q.table \in Single /\ q.op = "create" /\ Rows(q.table) # {}
  \/ q.table \in Single /\ q.op = "delete"
  \/ Protected(q)

\* A request arrives and reads what it checks; the transaction of a keeper opens
\* before that.
Arrive(p) ==
  LET q == request[p]
      met == {o \in Processes \ {p} : AtWork(o) /\ Meets(p, o)}
  IN /\ at[p] = "idle"
     /\ q.op = "keep" => open = "none"
     /\ crossed' = crossed \cup met \cup (IF met # {} \/ ~(Sql \/ SidesAgree) THEN {p} ELSE {})
     /\ IF q.op = "keep" /\ Sql
          THEN /\ open' = "open" /\ owner' = owner \cup {p}
          ELSE UNCHANGED <<open, owner>>
     /\ IF Refuses(q)
          THEN /\ IF q.op = "keep" THEN Goto(p, "rollback") /\ UNCHANGED answer ELSE Reply(p, "error")
               /\ UNCHANGED <<stack, service>>
          ELSE /\ Goto(p, "write")
               /\ IF q.op = "delete" THEN BeginDelete(p, q.table, q.id)
                  ELSE Begin(p, IF q.op = "create" THEN "insert" ELSE "update", q.table,
                             IF q.op = "create" THEN 0 ELSE q.id, q.data,
                             IF q.op = "keep" /\ Sql THEN "trx" ELSE knexInstance)
               /\ UNCHANGED answer
     /\ UNCHANGED <<database, facts, pending, outcome, next, troubles, request, left, announced>>

\* The write is over: the record is read back, then the table is announced. A
\* write that failed is answered without.
Announce(p) ==
  /\ at[p] \in {"write", "old"} /\ ~Active(p)
  /\ IF outcome[p] = Failed
       THEN /\ IF request[p].op = "keep" THEN Goto(p, "rollback") /\ UNCHANGED answer
               ELSE Reply(p, "error")
            /\ UNCHANGED announced
       ELSE /\ announced' = announced \cup {request[p].table}
            /\ IF request[p].op = "keep" THEN Goto(p, IF at[p] = "write" THEN "list" ELSE "sweep") /\ UNCHANGED answer
               ELSE Reply(p, "ok")
  /\ outcome' = [outcome EXCEPT ![p] = <<>>]
  /\ UNCHANGED <<database, facts, pending, open, owner, service, stack, next, troubles,
                 request, left, crossed>>

\* Reading it back fails: the write stands, the caches do not hear of it.
ReadFails(p) ==
  /\ at[p] = "write" /\ ~Active(p) /\ outcome[p] # Failed
  /\ troubles < Troubles
  /\ troubles' = troubles + 1
  /\ IF request[p].op = "keep" THEN Goto(p, "rollback") /\ UNCHANGED answer ELSE Reply(p, "error")
  /\ UNCHANGED <<database, facts, pending, open, owner, service, stack, outcome, next,
                 request, left, announced, crossed>>

-----------------------------------------------------------------------------
(* The transaction: update, then one deletion after the other, then commit *)

\* What is to be deleted is read once.
ListRows(p) ==
  /\ at[p] = "list"
  /\ IF Unreadable
       THEN Goto(p, "rollback") /\ UNCHANGED left
       ELSE /\ Goto(p, "sweep")
            /\ left' = [left EXCEPT ![p] = SelectSeq(request[p].old, LAMBDA o : o[2] \in Rows(o[1]))]
  /\ UNCHANGED <<writes, request, answer, announced, crossed>>

\* Every deletion looks for the record again and throws if it is gone.
Sweep(p) ==
  LET Deletion(o) == [request[p] EXCEPT !.op = "delete", !.table = o[1], !.id = o[2]]
  IN /\ at[p] = "sweep"
     /\ IF left[p] = <<>>
          THEN Goto(p, "commit") /\ UNCHANGED <<stack, service, left>>
          ELSE IF Refuses(Deletion(Head(left[p])))
          THEN Goto(p, "rollback") /\ UNCHANGED <<stack, service, left>>
          ELSE /\ Goto(p, "old")
               /\ left' = [left EXCEPT ![p] = Tail(@)]
               /\ BeginDelete(p, Head(left[p])[1], Head(left[p])[2])
     /\ UNCHANGED <<database, facts, pending, open, owner, outcome, next, troubles,
                    request, answer, announced, crossed>>

\* (mutant: a transaction that failed keeps its connection and its locks)
MutantClose(p) ==
  /\ owner' = owner \ {p}
  /\ UNCHANGED <<open, pending, database, service, stack, outcome, next, request, left, announced, crossed>>
Close(p) ==
  /\ open' = IF Sql THEN "over" ELSE open
  /\ owner' = owner \ {p}
  /\ pending' = [add |-> {}, del |-> {}]
  /\ UNCHANGED <<database, service, stack, outcome, next, request, left, announced, crossed>>

Commit(p) ==
  /\ at[p] = "commit"
  /\ facts' = (facts \ pending.del) \cup pending.add
  /\ Reply(p, "ok")
  /\ Close(p) /\ UNCHANGED troubles

\* Also when a query of the callback fails, or the commit itself.
Rollback(p) ==
  /\ \/ at[p] = "rollback" /\ UNCHANGED troubles
     \/ at[p] \in {"list", "sweep", "commit"} /\ troubles < Troubles /\ troubles' = troubles + 1
  /\ Reply(p, "error")
  /\ Close(p) /\ UNCHANGED facts

Engine(p) == (WriteStep(p) \/ Trouble(p)) /\ UNCHANGED repository

Step(p) ==
  \/ Arrive(p) \/ (WriteStep(p) /\ UNCHANGED repository)
  \/ Announce(p) \/ ListRows(p) \/ Sweep(p) \/ Commit(p) \/ (at[p] = "rollback" /\ Rollback(p))

Next == \E p \in Processes :
  \/ Arrive(p) \/ Engine(p) \/ Announce(p) \/ ReadFails(p)
  \/ ListRows(p) \/ Sweep(p) \/ Commit(p) \/ Rollback(p)

Spec == Init /\ [][Next]_vars

\* Statements answer, and a callback that is due runs.
FairSpec == Spec /\ \A p \in Processes : WF_vars(Step(p))

-----------------------------------------------------------------------------
(* Properties *)

\* A relation holds the rows that were named and one new row for every new
\* item, with the relations that were sent for it. What is no list and no object
\* counts on SQL only where the record's own row refers (null and scalars for the
\* other relations are ignored); MongoDB keeps a scalar as text, and has no use for
\* a new item on the side that does not refer.
Ignored(r, v) == IF Sql THEN v.form \in {"null", "scalar"} /\ (r.inverse \/ r.kind = "m2m")
                 ELSE v.form = "scalar"
RECURSIVE AsSent(_, _, _)
AsSent(t, n, data) == \A r \in ToSet(Relations[t]) :
  r.name \in DOMAIN data.rels =>
    LET v == data.rels[r.name]
        named == {b \in ItemIds(v) : Row(r.target, b) \in facts}
        new == {i \in DOMAIN v.items : v.items[i].id = 0}
        held == Held("pool", r, n)
    IN \/ Ignored(r, v)
       \/ /\ named \subseteq held
          /\ Cardinality(held) = Cardinality(named) + Cardinality(new)
          /\ \A i \in new : \E b \in held \ named :
               b >= Fresh /\ AsSent(r.target, b, v.items[i].data)

Written(p) == /\ at[p] = "write" /\ ~Active(p) /\ outcome[p] # Failed
              /\ request[p].op \in {"create", "update"}
AsRequested(p) == AsSent(request[p].table, outcome[p][1], request[p].data)

\* When a write has ended without an error, every relation that was sent, in a
\* form that its kind takes (Ignored), holds exactly what was sent, from both sides
\* and at every depth, provided that no other request wrote the same tables at the
\* time (cascade-handler.ts, relation-transformer.ts, mongo.service.ts).
WrittenAsSent == \A p \in Processes : Written(p) /\ p \notin crossed => AsRequested(p)

\* Rows that a request names, at any depth.
RECURSIVE Named(_)
Named(data) == UNION {UNION {{x.id} \cup Named(x.data) : x \in ToSet(data.rels[name].items)} :
                        name \in DOMAIN data.rels}
Subjects(q) ==
  (IF q.op = "create" THEN {} ELSE {q.id}) \cup (IF q.op = "delete" THEN {} ELSE Named(q.data))
    \cup (IF q.op = "keep" THEN {o[2] : o \in ToSet(q.old)} ELSE {})

\* Whatever fails and whoever meets: a step changes no row and no reference but
\* those of rows that a request has named, or that one has created. (What a
\* failed request has put aside may still be written by the next one.)
OthersUntouched ==
  [][\A f \in (facts \ facts') \cup (facts' \ facts) :
       \/ f[2] >= Fresh
       \/ \E p \in Processes : at[p] # "idle" /\ {f[2], f[3]} \cap Subjects(request[p]) # {}]_vars

\* As long as a record is flagged as the system's, its row stays, with the fields
\* that are its own and with the flag, whatever is written around it. Excused:
\* requests that ask for fields without the flag, on MongoDB records nested in
\* another, which nothing protects, and an update that takes the flag from a record
\* of a table without a rule (system-protection.service.ts:168): from then on it is
\* a record like any other, and may be deleted.
SystemKept ==
  [][\A f \in facts \ facts' :
       <<"isSystem", f[2], f[2]>> \in facts /\ f[1] \in Tables \cup {"fixed", "isSystem"} =>
         \E p \in Processes : LET q == request[p] IN
           \/ at[p] # "idle" /\ q.id = f[2] /\ ~q.shown
           \/ ~Sql /\ f[2] \in Named(q.data)
           \/ /\ f[1] = "isSystem" /\ q.table \notin Guarded
              /\ at[p] # "idle" /\ q.op = "update" /\ q.id = f[2] /\ <<f[1], 0>> \in q.data.cols]_vars

\* A write that lies in the transaction of another request: one that started
\* while the service used that connection.
Borrowed(p) == p \notin owner /\ Active(p) /\ Top(p).conn = "trx"

\* Every request is answered, unless a write has slipped into the transaction of
\* another: its rows stay locked, and the owner may wait for them outside.
WritesEnd ==
  \/ <>(\E p \in Processes : Borrowed(p))
  \/ \A p \in Processes : at[p] # "idle" ~> at[p] = "done"
=============================================================================
