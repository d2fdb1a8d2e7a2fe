---------------------------- MODULE RecordWrites ----------------------------
(****************************************************************************)
(* How one record and the relations sent with it are written               *)
(* (infrastructure/knex, infrastructure/mongo/services/mongo.service.ts).   *)
(*                                                                          *)
(* SQL: hooks put the relations aside in a map of the process keyed by      *)
(* table, the record's own statement runs, and a hook after it takes them   *)
(* out of the map and writes them, one statement each, new records by the   *)
(* same procedure. The connection in use is a field of the service, set and *)
(* put back by every write. MongoDB: nested records are written first, then *)
(* the document, then the other side of every relation.                     *)
(*                                                                          *)
(* The database is a set of facts: <<t, n, n>> is row n of table t, and     *)
(* <<c, a, b>> says that field c of row a holds b (a foreign key, a row of  *)
(* a junction table, or an entry of a field of a document).                 *)
(****************************************************************************)
EXTENDS Integers, Sequences, SequencesExt

CONSTANTS
  Processes,  \* the requests being served
  Databases,  \* the kinds of database: "sql", "mongodb"
  Relations,  \* the relations of every table, in their order
  Stored,     \* the facts of the database at the start
  Fresh,      \* the first free row number
  Replicas,   \* whether reads go to replicas of the SQL database
  Troubles    \* bound: statements that fail

\* name: the field; column: the field that refers (the same, unless inverse);
\* back: the field of the other side; kind: "m2o", "o2o", "o2m" or "m2m".
RelationKeys == {"name", "kind", "inverse", "column", "target", "back"}
ASSUME RelationsAssumption ==
  /\ Databases \subseteq {"sql", "mongodb"}
  /\ \A t \in DOMAIN Relations : \A i \in DOMAIN Relations[t] :
       /\ DOMAIN Relations[t][i] = RelationKeys
       /\ Relations[t][i].target \in DOMAIN Relations
       /\ Relations[t][i].kind = "o2m" => Relations[t][i].inverse
       /\ Relations[t][i].name \notin DOMAIN Relations

VARIABLES
  database,   \* the kind of database
  facts,      \* what is committed
  pending,    \* what the transaction has added and deleted
  open,       \* whether the transaction is "none", "open" or "over"
  owner,      \* the processes that run inside the transaction's callback
  cascadeContextMap, \* relations put aside, by table
  knexInstance,      \* the connection the service uses: "pool" or "trx"
  stack,      \* the writes of every process, the innermost last
  outcome,    \* of the last write of every process: <<>>, <<id>> or Failed
  next,       \* the next row number
  troubles    \* statements that have failed

store == <<facts, pending>>
service == <<cascadeContextMap, knexInstance>>
writes == <<database, facts, pending, open, owner, cascadeContextMap, knexInstance,
            stack, outcome, next, troubles>>

Sql == database = "sql"
Tables == DOMAIN Relations
None == [none |-> TRUE]
Failed == <<0>>
Row(t, n) == <<t, n, n>>

\* What a client sends for a record: whether it has fields of its own, columns
\* given as such (0 for null), and a value for some relations. A value is "null", a
\* "scalar", an "object" or a "list" of items; an item has the number of a row
\* or 0, and may be a scalar itself.
Data(plain, cols, rels) == [plain |-> plain, cols |-> cols, rels |-> rels]
NoData == Data(FALSE, {}, <<>>)
Value(form, items) == [form |-> form, items |-> items]
Given(n) == [id |-> n, scalar |-> FALSE, data |-> NoData]
New(data) == [id |-> 0, scalar |-> FALSE, data |-> data]

-----------------------------------------------------------------------------
(* The statements *)

View(conn) ==
  IF conn = "trx" THEN (facts \ pending.del) \cup pending.add ELSE facts

\* Rows that the transaction has changed are locked for everybody else.
Locked == {f[2] : f \in pending.add \cup pending.del}
Waits(conn, changed) == conn = "pool" /\ {f[2] : f \in changed} \cap Locked # {}

Store(conn, del, add) ==
  IF conn = "trx"
    THEN /\ pending' = [add |-> (pending.add \ del) \cup add, del |-> (pending.del \cup del) \ add]
         /\ UNCHANGED facts
    ELSE /\ facts' = (facts \ del) \cup add
         /\ UNCHANGED pending

\* A foreign key refers to a row; a statement on a finished transaction fails.
Refused(conn, add) ==
  \/ conn = "trx" /\ open # "open"
  \/ Sql /\ \E f \in add : \E side \in {f[2], f[3]} :
       ~\E t \in Tables : Row(t, side) \in View(conn) \cup add

Refs(conn, column, from) == {f \in View(conn) : f[1] = column /\ f[2] = from}
Referring(conn, column, to) == {f \in View(conn) : f[1] = column /\ f[3] = to}

\* The instructions that a write has still to carry out. Made stands for the
\* record that the same relation has created last.
Made == -1
Create(r, data) == [do |-> "create", table |-> r.target, rel |-> r.name, data |-> data]
Change(r, n, data) == [do |-> "change", table |-> r.target, rel |-> r.name, row |-> n, data |-> data]
Assign(c, row, to) == [do |-> "assign", column |-> c, row |-> row, to |-> to]
Clear(c, to, keep, rel) == [do |-> "clear", column |-> c, to |-> to, keep |-> keep, rel |-> rel]
Link(r, n, ids) == [do |-> "link", column |-> r.column, row |-> n, ids |-> ids, rel |-> r.name,
                    flip |-> r.inverse]
Unlink(r, n) == [do |-> "unlink", column |-> r.column, row |-> n, flip |-> r.inverse]
Look(c, n) == [do |-> "look", column |-> c, row |-> n]
Release(c, keep) == [do |-> "release", column |-> c, keep |-> keep]
Save == [do |-> "save"]
Pull(c, row, to) == [do |-> "pull", column |-> c, row |-> row, to |-> to]
Push(c, row, to) == [do |-> "push", column |-> c, row |-> row, to |-> to]
Tidy(r, n, ids) == [do |-> "tidy", relation |-> r, row |-> n, ids |-> ids]
RemoveRow(n) == [do |-> "remove", row |-> n]
Break == [do |-> "break"]

ItemIds(v) == {x.id : x \in ToSet(v.items)} \ {0}
Concat(f(_), s) == FlattenSeq([i \in DOMAIN s |-> f(s[i])])
In(t, rels) == SelectSeq(Relations[t], LAMBDA r : r.name \in DOMAIN rels)

-----------------------------------------------------------------------------
(* SQL: the record's own columns, and the relations after it *)

\* The foreign keys that transformRelationsToFK finds in what was sent. Objects
\* without id, lists, and what lies on the other side are left out.
ForeignKeys(t, data) ==
  data.cols \cup
  UNION {LET v == data.rels[r.name] IN
         IF v.form = "null" THEN {<<r.column, 0>>}
         ELSE IF v.form # "list" /\ v.items[1].id # 0 THEN {<<r.column, v.items[1].id>>}
         ELSE {} : r \in {r \in ToSet(Relations[t]) :
                r.name \in DOMAIN data.rels /\ r.kind \in {"m2o", "o2o"} /\ ~r.inverse}}

\* beforeInsert and beforeUpdate put aside what is a list or an object: null
\* reaches only the foreign keys of the record's own row.
PutAside(data) ==
  LET kept == {name \in DOMAIN data.rels : data.rels[name].form \in {"list", "object"}}
  IN [name \in kept |-> data.rels[name]]

\* handleCascadeRelations
ManyToOne(r, n, v) ==
  IF v.items = <<>> \/ v.items[1].scalar THEN <<>>
  ELSE IF v.items[1].id # 0 THEN <<Assign(r.column, n, v.items[1].id)>>
  ELSE <<Create(r, v.items[1].data), Assign(r.column, n, Made)>>

ManyToMany(r, n, v) ==
  LET new == SelectSeq(v.items, LAMBDA x : x.id = 0)
  IN IF v.form # "list" THEN <<>>
     ELSE [i \in DOMAIN new |-> Create(r, new[i].data)]
          \o <<Unlink(r, n)>> \o (IF v.items = <<>> THEN <<>> ELSE <<Link(r, n, ItemIds(v))>>)

\* (mutant: the children that are not listed keep their parent)
MutantOneToMany(r, n, v) == IF v.form # "list" THEN <<>>
  ELSE [i \in DOMAIN v.items |-> IF v.items[i].id = 0
          THEN Create(r, [v.items[i].data EXCEPT !.cols = @ \cup {<<r.column, n>>}])
          ELSE Assign(r.column, v.items[i].id, n)]

\* A scalar has no id to this branch: it makes an empty child.
OneToMany(r, n, v) ==
  LET Child(x) == IF x.id # 0 /\ ~x.scalar THEN <<Assign(r.column, x.id, n)>>
                  ELSE <<Create(r, [x.data EXCEPT !.cols = @ \cup {<<r.column, n>>}])>>
      listed == {x.id : x \in {x \in ToSet(v.items) : ~x.scalar}}
  IN IF v.form # "list" THEN <<>>
     ELSE <<Look(r.column, n), Release(r.column, listed)>> \o Concat(Child, v.items)

OneToOne(r, n, v) ==
  LET Owner(x) == (IF x.id = 0 THEN <<Create(r, x.data), Assign(r.column, Made, n)>>
                   ELSE <<Assign(r.column, x.id, n)>>)
      Owned(x) == IF x.scalar THEN <<>>
                  ELSE IF x.id # 0 THEN <<Assign(r.column, n, x.id)>>
                  ELSE <<Create(r, x.data), Assign(r.column, n, Made)>>
  IN IF v.items = <<>> THEN <<>>
     ELSE IF r.inverse THEN Concat(Owner, v.items) \o <<Clear(r.column, n, ItemIds(v), r.name)>>
     ELSE Concat(Owned, v.items)

Cascade(t, n, rels) ==
  LET Of(r) == CASE r.kind = "m2o" -> ManyToOne(r, n, rels[r.name])
                 [] r.kind = "m2m" -> ManyToMany(r, n, rels[r.name])
                 [] r.kind = "o2m" -> OneToMany(r, n, rels[r.name])
                 [] r.kind = "o2o" -> OneToOne(r, n, rels[r.name])
  IN Concat(Of, In(t, rels))

-----------------------------------------------------------------------------
(* MongoDB: nested records, the document, the other sides *)

\* processNestedRelations: only the owning side; a scalar in place of an object
\* is stored as the text it is.
Nested(t, data) ==
  LET HasData(x) == x.data.plain \/ x.data.rels # <<>>
      Item(r, x) == IF x.scalar \/ ~HasData(x) THEN <<>>
                    ELSE IF x.id = 0 THEN <<Create(r, x.data)>>
                    ELSE <<Change(r, x.id, x.data)>>
      Of(r) == LET Each(x) == Item(r, x) IN
               IF r.inverse \/ (r.kind = "m2o" /\ data.rels[r.name].form = "list") THEN <<>>
               ELSE Concat(Each, data.rels[r.name].items)
  IN Concat(Of, In(t, data.rels))

\* The ids that a relation holds once nested records are written (made: pairs
\* of a relation and the id of a record created for it).
Now(data, made, name) == ItemIds(data.rels[name]) \cup {m[2] : m \in {m \in made : m[1] = name}}

\* stripInverseRelations and the text that a scalar is leave no reference.
Document(t, n, data, made) ==
  {<<k[1], n, k[2]>> : k \in {k \in data.cols : k[2] # 0}} \cup
  UNION {{<<r.name, n, b>> : b \in Now(data, made, r.name)} :
    r \in {r \in ToSet(In(t, data.rels)) : ~r.inverse
             /\ ~(r.kind # "m2m" /\ data.rels[r.name].form = "scalar")}}

\* updateInverseRelationsOnUpdate: the fields of the old document are compared
\* with the new ones, also those that the document does not keep. An item of the
\* other side that is no id cannot be converted.
OtherSides(t, n, data, made, old) ==
  LET Old(r) == {f[3] : f \in {f \in old : f[1] = r.name}}
      Gone(r) == SetToSeq(Old(r) \ Now(data, made, r.name))
      Come(r) == SetToSeq(Now(data, made, r.name) \ Old(r))
      OneBack(r) == r.kind \in {"o2m", "o2o"}
      Of(r) == IF r.inverse /\ \E x \in ToSet(data.rels[r.name].items) : x.id = 0 THEN <<Break>>
               ELSE [i \in DOMAIN Gone(r) |->
                       IF OneBack(r) THEN Assign(r.back, Gone(r)[i], 0) ELSE Pull(r.back, Gone(r)[i], n)]
                    \o [i \in DOMAIN Come(r) |->
                       IF OneBack(r) THEN Assign(r.back, Come(r)[i], n) ELSE Push(r.back, Come(r)[i], n)]
  IN Concat(Of, In(t, data.rels))

\* cleanupInverseRelationsOnDelete: a many-to-one leaves the other side alone.
Cleanup(t, n, old) ==
  LET Held(r) == {f[3] : f \in {f \in old : f[1] = r.name}}
      Of(r) == CASE r.kind = "m2o" \/ (r.kind = "o2o" /\ Held(r) = {}) -> <<>>
                 [] r.kind = "o2o" -> <<Assign(r.back, CHOOSE b \in Held(r) : TRUE, 0)>>
                 [] OTHER -> <<Tidy(r, n, Held(r))>>
  IN Concat(Of, Relations[t]) \o <<RemoveRow(n)>>

-----------------------------------------------------------------------------
(* A write *)

Top(p) == stack[p][Len(stack[p])]
Active(p) == stack[p] # <<>>
At(p, pc) == Active(p) /\ Top(p).pc = pc

Frame(kind, t, n, data, rel, conn) ==
  [kind |-> kind, table |-> t, id |-> n, data |-> data, rel |-> rel, conn |-> conn,
   saved |-> knexInstance,
   pc |-> IF Sql THEN "write" ELSE IF kind = "insert" THEN "nest" ELSE "old",
   todo |-> <<>>, made |-> {}, last |-> 0, seen |-> {}]

\* KnexEntityManager.insert and update as far as the statement: the service's
\* connection is swapped, and the hooks put the relations aside.
Enter(kind, t, n, data, conn) ==
  IF Sql
    THEN /\ knexInstance' = conn
         /\ cascadeContextMap' = [cascadeContextMap EXCEPT ![t] =
              [rels |-> PutAside(data), id |-> IF kind = "update" THEN n ELSE 0]]
    ELSE UNCHANGED service

\* insertWithCascade and updateWithCascade take the connection of the parent, or
\* of the asynchronous context, or the one that the service uses at the moment.
Begin(p, kind, t, n, data, conn) ==
  /\ stack' = [stack EXCEPT ![p] = <<Frame(kind, t, n, data, "", conn)>>]
  /\ Enter(kind, t, n, data, conn)

\* The statement has failed: every write of the process puts back the
\* connection it found, the outermost last; what is in the map stays.
Fail(p) ==
  /\ stack' = [stack EXCEPT ![p] = <<>>]
  /\ outcome' = [outcome EXCEPT ![p] = Failed]
  /\ knexInstance' = IF Sql /\ stack[p][1].kind # "delete" THEN stack[p][1].saved ELSE knexInstance
  /\ UNCHANGED <<database, facts, pending, open, owner, cascadeContextMap, next>>

Trouble(p) ==
  /\ Active(p) /\ troubles < Troubles
  /\ troubles' = troubles + 1
  /\ Fail(p)

\* What the innermost write returns goes to the relation it was made for.
Return(p) ==
  LET f == Top(p)
      rest == Front(stack[p])
  IN IF rest = <<>>
       THEN /\ stack' = [stack EXCEPT ![p] = <<>>]
            /\ outcome' = [outcome EXCEPT ![p] = <<f.id>>]
       ELSE /\ stack' = [stack EXCEPT ![p] =
                 [rest EXCEPT ![Len(rest)].made = @ \cup {<<f.rel, f.id>>},
                              ![Len(rest)].last = f.id]]
            /\ UNCHANGED outcome

Advance(p, changes(_)) == stack' = [stack EXCEPT ![p][Len(stack[p])] = changes(Top(p))]

Number(p) == IF Top(p).kind = "insert" THEN next ELSE Top(p).id

\* The record's own statement on SQL; it does nothing to a row that is gone.
Write(p) ==
  LET f == Top(p)
      keys == ForeignKeys(f.table, f.data)
      there == f.kind = "insert" \/ Row(f.table, f.id) \in View(f.conn)
      add == {<<k[1], Number(p), k[2]>> : k \in {k \in keys : k[2] # 0}}
               \cup (IF f.kind = "insert" THEN {Row(f.table, Number(p))} ELSE {})
      del == UNION {Refs(f.conn, k[1], Number(p)) : k \in keys}
  IN /\ At(p, "write") /\ ~Waits(f.conn, {Row(f.table, Number(p))})
     /\ IF (there /\ Refused(f.conn, add)) \/ (f.conn = "trx" /\ open # "open")
          THEN Fail(p) /\ UNCHANGED troubles
          ELSE /\ IF there THEN Store(f.conn, del, add) ELSE UNCHANGED store
               /\ next' = IF f.kind = "insert" THEN next + 1 ELSE next
               /\ Advance(p, LAMBDA g : [g EXCEPT !.id = Number(p), !.pc = "cascade"])
               /\ UNCHANGED <<database, open, owner, service, outcome, troubles>>

\* handleCascadeRelations has written everything, or found nothing to write.
Finish(p, left) ==
  /\ Return(p)
  /\ knexInstance' = Top(p).saved
  /\ cascadeContextMap' = left
  /\ UNCHANGED <<database, facts, pending, open, owner, next, troubles>>

\* afterInsert and afterUpdate look the relations up by table; after an update
\* the record too is the one of the map.
TakeAside(p) ==
  LET f == Top(p)
      context == cascadeContextMap[f.table]
      n == IF f.kind = "insert" THEN f.id ELSE context.id
      todo == Cascade(f.table, n, context.rels)
  IN /\ At(p, "cascade")
     /\ IF context = None THEN Finish(p, cascadeContextMap)
        ELSE IF todo = <<>> THEN Finish(p, [cascadeContextMap EXCEPT ![f.table] = None])
        ELSE /\ Advance(p, LAMBDA g : [g EXCEPT !.pc = "run", !.todo = todo])
             /\ UNCHANGED <<database, facts, pending, open, owner, service, outcome, next, troubles>>

FinishCascade(p) ==
  /\ Sql /\ At(p, "run") /\ Top(p).todo = <<>>
  /\ Finish(p, [cascadeContextMap EXCEPT ![Top(p).table] = None])

\* updateOne reads the old document, deleteOne the one to delete.
ReadOld(p) ==
  LET old == {x \in facts : x[2] = Top(p).id}
  IN
  /\ At(p, "old")
  /\ Advance(p, LAMBDA f : [f EXCEPT !.seen = old,
       !.pc = IF f.kind = "delete" THEN "run" ELSE "nest",
       !.todo = IF f.kind = "delete" /\ old # {} THEN Cleanup(f.table, f.id, old) ELSE <<>>])
  /\ UNCHANGED <<database, facts, pending, open, owner, service, outcome, next, troubles>>

StartNested(p) ==
  /\ At(p, "nest")
  /\ Advance(p, LAMBDA f : [f EXCEPT !.pc = "run", !.todo = Append(Nested(f.table, f.data), Save)])
  /\ UNCHANGED <<database, facts, pending, open, owner, service, outcome, next, troubles>>

\* The document replaces the fields that it names, and the other sides follow.
SaveDocument(p) ==
  LET f == Top(p)
      n == Number(p)
      there == f.kind = "insert" \/ Row(f.table, n) \in facts
      named == {r.name : r \in {r \in ToSet(In(f.table, f.data.rels)) : ~r.inverse}}
                 \cup {k[1] : k \in f.data.cols}
      del == {x \in facts : x[1] \in named /\ x[2] = n}
      add == Document(f.table, n, f.data, f.made) \cup {Row(f.table, n)}
  IN /\ At(p, "run") /\ f.todo # <<>> /\ Head(f.todo).do = "save"
     /\ IF there THEN Store("pool", del, add) ELSE UNCHANGED store
     /\ next' = IF f.kind = "insert" THEN next + 1 ELSE next
     /\ Advance(p, LAMBDA g : [g EXCEPT !.id = n,
                  !.todo = OtherSides(f.table, n, f.data, f.made, IF f.kind = "insert" THEN {} ELSE f.seen)])
     /\ UNCHANGED <<database, open, owner, service, outcome, troubles>>

FinishDocument(p) ==
  /\ ~Sql /\ At(p, "run") /\ Top(p).todo = <<>>   \* also a document that is gone
  /\ Return(p)
  /\ UNCHANGED <<database, facts, pending, open, owner, service, next, troubles>>

\* A nested record is written by the same procedure.
WriteNested(p) ==
  LET f == Top(p)
      x == Head(f.todo)
      nested == [stack EXCEPT ![p][Len(stack[p])].todo = Tail(f.todo)]
      kind == IF x.do = "create" THEN "insert" ELSE "update"
      n == IF x.do = "create" THEN 0 ELSE x.row
  IN /\ At(p, "run") /\ f.todo # <<>> /\ x.do \in {"create", "change"}
     /\ stack' = [nested EXCEPT ![p] = Append(@, Frame(kind, x.table, n, x.data, x.rel, f.conn))]
     /\ Enter(kind, x.table, n, x.data, f.conn)
     /\ UNCHANGED <<database, facts, pending, open, owner, outcome, next, troubles>>

\* What an instruction deletes and adds. Without a record there is no where
\* clause to build, and the statement is refused.
Resolve(f, n) == IF n = Made THEN f.last ELSE n
Kept(f, x) == x.keep \cup {m[2] : m \in {m \in f.made : m[1] = x.rel}}
Pair(x, b) == IF x.flip THEN <<x.column, b, x.row>> ELSE <<x.column, x.row, b>>

\* (mutant: the links of every record go)
MutantDeletes(f, x) == IF x.do = "unlink" THEN {y \in View(f.conn) : y[1] = x.column} ELSE {}

Deletes(f, x) ==
  CASE x.do = "assign" -> Refs(f.conn, x.column, Resolve(f, x.row))
    [] x.do = "clear" -> {y \in Referring(f.conn, x.column, x.to) : y[2] \notin Kept(f, x)}
    [] x.do = "release" -> UNION {Refs(f.conn, x.column, n) : n \in f.seen \ x.keep}
    [] x.do = "unlink" -> IF x.flip THEN Referring(f.conn, x.column, x.row)
                          ELSE Refs(f.conn, x.column, x.row)
    [] x.do = "pull" -> {<<x.column, x.row, x.to>>}
    [] OTHER -> {}

Adds(f, x) ==
  CASE x.do = "assign" /\ Resolve(f, x.to) # 0 /\ (\E t \in Tables : Row(t, Resolve(f, x.row)) \in View(f.conn))
         -> {<<x.column, Resolve(f, x.row), Resolve(f, x.to)>>}
    [] x.do = "link" -> {Pair(x, b) : b \in x.ids \cup {m[2] : m \in {m \in f.made : m[1] = x.rel}}}
    [] x.do = "push" /\ (\E t \in Tables : Row(t, x.row) \in View(f.conn)) -> {<<x.column, x.row, x.to>>}
    [] OTHER -> {}

Nowhere(x) ==
  \/ x.do \in {"assign", "link", "unlink", "look"} /\ x.row = 0
  \/ x.do = "clear" /\ x.to = 0
  \/ x.do = "break"

Statement(p) ==
  LET f == Top(p)
      x == Head(f.todo)
  IN /\ At(p, "run") /\ f.todo # <<>>
     /\ x.do \in {"assign", "clear", "release", "link", "unlink", "look", "pull", "push", "break"}
     /\ ~Waits(f.conn, Deletes(f, x) \cup Adds(f, x))
     /\ IF Nowhere(x) \/ Refused(f.conn, Adds(f, x))
          THEN Fail(p) /\ UNCHANGED troubles
          ELSE /\ Store(f.conn, Deletes(f, x), Adds(f, x))
               /\ Advance(p, LAMBDA g : [g EXCEPT !.todo = Tail(g.todo),
                    !.seen = IF x.do = "look" THEN {y[2] : y \in Referring(f.conn, x.column, x.row)} ELSE @])
               /\ UNCHANGED <<database, open, owner, service, outcome, next, troubles>>

\* The documents that a list names, or without one those that refer here.
TidyUp(p) ==
  LET x == Head(Top(p).todo)
      r == x.relation
      ids == SetToSeq(IF x.ids # {} THEN x.ids ELSE {f[2] : f \in Referring("pool", r.back, x.row)})
  IN /\ At(p, "run") /\ Top(p).todo # <<>> /\ x.do = "tidy"
     /\ Advance(p, LAMBDA f : [f EXCEPT !.todo =
          [i \in DOMAIN ids |-> IF r.kind = "o2m" THEN Assign(r.back, ids[i], 0)
                                ELSE Pull(r.back, ids[i], x.row)] \o Tail(f.todo)])
     /\ UNCHANGED <<database, facts, pending, open, owner, service, outcome, next, troubles>>

\* deleteById; with replicas the statement is run on a new builder that has no
\* where clause. The database empties the references to a row and the junctions
\* of it.
Delete(p) ==
  LET f == Top(p)
      gone == IF Sql /\ Replicas THEN {x[2] : x \in {x \in facts : x[1] = f.table}} ELSE {f.id}
      del == {x \in View(f.conn) : x[2] \in gone \/ (Sql /\ x[3] \in gone)}
  IN /\ At(p, "run") /\ f.todo # <<>> /\ Head(f.todo).do = "remove"
     /\ ~Waits(f.conn, del)
     /\ IF f.conn = "trx" /\ open # "open"
          THEN Fail(p) /\ UNCHANGED troubles
          ELSE /\ Store(f.conn, del, {})
               /\ Return(p)
               /\ UNCHANGED <<database, open, owner, service, next, troubles>>

\* getKnex: reads, and deletions even inside a callback of a transaction, use
\* the connection that the service has at the moment.
Current == IF Sql /\ ~Replicas THEN knexInstance ELSE "pool"

BeginDelete(p, t, n) ==
  /\ stack' = [stack EXCEPT ![p] = <<[Frame("delete", t, n, NoData, "", Current) EXCEPT
       !.pc = IF Sql THEN "run" ELSE "old",
       !.todo = IF Sql THEN <<RemoveRow(n)>> ELSE <<>>]>>]
  /\ UNCHANGED service

WriteStep(p) ==
  \/ TidyUp(p) \/ Delete(p)
  \/ Write(p) \/ TakeAside(p) \/ FinishCascade(p)
  \/ ReadOld(p) \/ StartNested(p) \/ SaveDocument(p) \/ FinishDocument(p)
  \/ WriteNested(p) \/ Statement(p)
=============================================================================
