---------------------------- MODULE MongoSchema ----------------------------
(****************************************************************************)
(* Changes of the schema on MongoDB (modules/table-management/services/     *)
(* mongo-table-handler.service.ts): rows of metadata, the collection with   *)
(* its validator and indexes (mongo-schema-migration.service.ts), the lock  *)
(* of all servers (mongo-schema-migration-lock.service.ts), and what becomes *)
(* of the values in the documents. There is no transaction: a handler goes  *)
(* from one write to the next, and stops where one fails.                   *)
(****************************************************************************)
EXTENDS Naturals, FiniteSets

CONSTANTS
  Calls,         \* handlers, each on a server of its own
  NoCall,        \* holder of the lock when it is free
  Names,         \* of tables
  NoName,
  ColumnNames,
  RelationName,  \* of the one relation a table may have
  Ids,           \* ids of tables
  Plans          \* bounds: handlers that work, changes asked for, names, whether a body has
                 \* a relation and unique constraints, and troubles (failing queries, killed
                 \* servers, lapsed locks)

ASSUME MongoAssumption ==
  /\ NoCall \notin Calls /\ NoName \notin Names /\ RelationName \notin ColumnNames
  /\ \A p \in Plans : p.names \subseteq Names

VARIABLES
  tables,       \* table_definition: the name of each id, or NoName
  uniques,      \* and those with unique constraints
  columns,      \* column_definition
  relations,    \* relation_definition
  routes,       \* route_definition: path and main table
  collections,  \* of each name: is it there, validator, indexes, values in its documents
  lock,         \* schema_migration_lock: by whom, and whether it has run out
  known,        \* tables in the metadata cache of the server of each handler
  renames,      \* fields being renamed in the background
  call,         \* what each handler does
  filled,       \* columns and relations with values
  serial, started, troubles,
  plan,         \* one of Plans
  history       \* what excuses a property

rows == <<tables, uniques, columns, relations, routes>>
counted == <<serial, started, troubles, plan, history>>
vars == <<rows, collections, lock, known, renames, call, filled, counted>>

Idle == [pc |-> "idle"]
Of(t, kind) == {x \in kind : x.table = t}
Live == {t \in Ids : tables[t] /= NoName}
NamesOf(set) == {x.name : x \in set}
NoCollection == [there |-> FALSE, validator |-> {}, indexed |-> {}, values |-> {}]
Unset(values, field) == {v \in values : v.field /= field}
Goto(c, label) == call' = [call EXCEPT ![c] = [@ EXCEPT !.pc = label]]
\* What is left to do is to release the lock.
Over(c) == call' = [call EXCEPT ![c] = [pc |-> "release"]]
Working(c) == call[c].pc \notin {"idle", "acquire"}

Trouble(kind) ==
  /\ troubles < plan.troubles
  /\ troubles' = troubles + 1 /\ UNCHANGED plan
  /\ history' = history \cup {kind}

-----------------------------------------------------------------------------
(* Requests and the lock *)

Start(c, op, t, name, cols, rels, given) ==
  call' = [call EXCEPT ![c] = [pc |-> "acquire", op |-> op, table |-> t, name |-> name,
             old |-> NoName, cols |-> cols, rels |-> rels, given |-> given, seen |-> {}, todo |-> {}]]

\* Lists of columns or relations: rows that are kept, by their id and under any
\* name, and new ones, with id 0; no name twice.
Bodies(rows_, names) ==
  {body \in SUBSET [id : {0} \cup {x.id : x \in rows_}, name : names] :
     \A x, y \in body : x /= y => x.name /= y.name /\ (x.id /= y.id \/ x.id = 0)}
RelationNames == IF plan.related THEN {RelationName} ELSE {}

AskCreate(c) ==
  \E name \in plan.names, cols \in Bodies({}, ColumnNames), rels \in Bodies({}, RelationNames) :
    Start(c, "create", 0, name, cols, rels, {"columns", "relations"})

\* A body need not have both lists.
AskUpdate(c) ==
  \E t \in Live, name \in plan.names, given \in SUBSET {"columns", "relations"} :
  \E cols \in IF "columns" \in given THEN Bodies(Of(t, columns), ColumnNames) ELSE {{}},
     rels \in IF "relations" \in given THEN Bodies(Of(t, relations), RelationNames) ELSE {{}} :
    Start(c, "update", t, name, cols, rels, given)

AskDelete(c) == \E t \in Live : Start(c, "delete", t, NoName, {}, {}, {})

Ask(c) ==
  /\ call[c].pc = "idle" /\ started < plan.changes /\ c \in plan.calls
  /\ AskCreate(c) \/ AskUpdate(c) \/ AskDelete(c)
  /\ started' = started + 1
  /\ UNCHANGED <<rows, collections, lock, known, renames, filled, serial, troubles, plan, history>>

\* Mutant: the lock is taken without looking.
MutantAcquire(c) ==
  /\ call[c].pc = "acquire"
  /\ lock' = [by |-> c, over |-> FALSE] /\ Goto(c, "look")
  /\ UNCHANGED <<rows, collections, known, renames, filled, counted>>

\* One findOneAndUpdate: a lock that is free or has run out is taken; else the
\* request is refused.
Acquire(c) ==
  /\ call[c].pc = "acquire"
  /\ IF lock.by = NoCall \/ lock.over
     THEN lock' = [by |-> c, over |-> FALSE] /\ Goto(c, "look")
     ELSE call' = [call EXCEPT ![c] = Idle] /\ UNCHANGED lock
  /\ UNCHANGED <<rows, collections, known, renames, filled, counted>>

\* The handler releases the lock it took, by its token.
Release(c) ==
  /\ call[c].pc = "release"
  /\ lock' = IF lock.by = c THEN [by |-> NoCall, over |-> FALSE] ELSE lock
  /\ call' = [call EXCEPT ![c] = Idle]
  /\ UNCHANGED <<rows, collections, known, renames, filled, counted>>

\* Five minutes are over while the lock is held.
Lapse ==
  /\ lock.by /= NoCall /\ ~lock.over
  /\ Trouble("lapsed")
  /\ lock' = [lock EXCEPT !.over = TRUE]
  /\ UNCHANGED <<rows, collections, known, renames, call, filled, serial, started>>

\* The server dies, with the lock still held. It runs out later.
Die(c) ==
  /\ Working(c)
  /\ Trouble("failed")
  /\ call' = [call EXCEPT ![c] = Idle]
  /\ lock' = IF lock.by = c THEN [lock EXCEPT !.over = TRUE] ELSE lock
  /\ UNCHANGED <<rows, collections, known, renames, filled, serial, started>>

\* The metadata cache of a server is loaded.
Refresh(c) ==
  /\ c \in plan.calls
  /\ known[c] /= {tables[t] : t \in Live}
  /\ known' = [known EXCEPT ![c] = {tables[t] : t \in Live}]
  /\ UNCHANGED <<rows, collections, lock, renames, call, filled, counted>>

-----------------------------------------------------------------------------
(* createTable *)

\* A name that is taken is refused; a collection of that name without metadata
\* is dropped.
LookCreate(c) ==
  /\ call[c].pc = "look" /\ call[c].op = "create"
  /\ LET taken == \E t \in Live : tables[t] = call[c].name IN
     /\ IF taken THEN Over(c) ELSE Goto(c, "insert")
     /\ collections' = IF taken THEN collections ELSE [collections EXCEPT ![call[c].name] = NoCollection]
  /\ UNCHANGED <<rows, lock, known, renames, filled, counted>>

\* Ids that no row has. Ids bounds how many tables there are.
Unused == {t \in Ids \ Live : \A x \in columns \cup relations \cup routes : x.table /= t}

\* What the body says of unique constraints is read when the row is written.
Constrain(t) == \E some \in plan.unique : uniques' = IF some THEN uniques \cup {t} ELSE uniques \ {t}

InsertTable(c) ==
  /\ call[c].pc = "insert" /\ Unused /= {}
  /\ LET t == CHOOSE t \in Unused : TRUE IN
       /\ tables' = [tables EXCEPT ![t] = call[c].name]
       /\ Constrain(t)
       /\ call' = [call EXCEPT ![c] = [@ EXCEPT !.pc = "columns", !.table = t, !.todo = call[c].cols]]
  /\ UNCHANGED <<columns, relations, routes, collections, lock, known, renames, filled, counted>>

\* A row is updated if it is still there, or inserted.
Write(set, c, x) ==
  IF x.id = 0 THEN set \cup {[id |-> serial + 1, table |-> call[c].table, name |-> x.name]}
  ELSE {IF y.id = x.id THEN [y EXCEPT !.name = x.name] ELSE y : y \in set}
Number(x) == serial' = IF x.id = 0 THEN serial + 1 ELSE serial

WriteColumn(c) ==
  /\ call[c].pc = "columns"
  /\ IF call[c].todo = {}
     THEN /\ call' = [call EXCEPT ![c] = [@ EXCEPT
                        !.pc = IF call[c].op = "create" THEN "relations" ELSE "fields", !.todo = call[c].rels]]
          /\ UNCHANGED <<columns, serial>>
     ELSE LET x == CHOOSE x \in call[c].todo : TRUE IN
            /\ columns' = Write(columns, c, x) /\ Number(x)
            /\ call' = [call EXCEPT ![c].todo = @ \ {x}]
  /\ UNCHANGED <<tables, uniques, relations, routes, collections, lock, known, renames, filled, started, troubles,
                 plan, history>>

WriteRelation(c) ==
  /\ call[c].pc = "relations"
  /\ IF call[c].todo = {}
     THEN Goto(c, IF call[c].op = "create" THEN "route" ELSE "schema") /\ UNCHANGED <<relations, serial>>
     ELSE LET x == CHOOSE x \in call[c].todo : TRUE IN
            /\ relations' = Write(relations, c, x) /\ Number(x)
            /\ call' = [call EXCEPT ![c].todo = @ \ {x}]
  /\ UNCHANGED <<tables, uniques, columns, routes, collections, lock, known, renames, filled, started, troubles,
                 plan, history>>

\* A route is made unless the path has one.
InsertRoute(c) ==
  /\ call[c].pc = "route"
  /\ routes' = IF \E r \in routes : r.path = call[c].name THEN routes
               ELSE routes \cup {[path |-> call[c].name, table |-> call[c].table]}
  /\ Goto(c, "collection")
  /\ UNCHANGED <<tables, uniques, columns, relations, collections, lock, known, renames, filled, counted>>

\* createIndexes: MongoDB refuses the filter of every unique constraint, and
\* the first error ends it, with a warning. The relations come after that.
Indexes(t) == IF t \in uniques THEN {} ELSE NamesOf(Of(t, relations))
Described(collection, t) ==
  [collection EXCEPT !.there = TRUE, !.validator = NamesOf(Of(t, columns)), !.indexed = Indexes(t)]

\* Any other error ends it in the same way.
FailIndexes(c) ==
  /\ \/ call[c].pc = "collection" /\ ~collections[call[c].name].there
     \/ call[c].pc = "schema" /\ call[c].old \in known[c] /\ collections[call[c].old].there
  /\ Trouble("failed")
  /\ LET n == IF call[c].pc = "schema" THEN call[c].old ELSE call[c].name IN
     collections' = [collections EXCEPT ![n] = [Described(@, call[c].table) EXCEPT !.indexed = {}]]
  /\ Over(c)
  /\ UNCHANGED <<rows, lock, known, renames, filled, serial, started>>

\* One that is there already is left as it is.
CreateCollection(c) ==
  /\ call[c].pc = "collection"
  /\ LET n == call[c].name IN
     collections' = IF collections[n].there THEN collections
                    ELSE [collections EXCEPT ![n] = Described(@, call[c].table)]
  /\ Over(c)
  /\ UNCHANGED <<rows, lock, known, renames, filled, counted>>

-----------------------------------------------------------------------------
(* updateTable *)

\* The row is changed at once; the collection keeps the name it has.
LookUpdate(c) ==
  /\ call[c].pc = "look" /\ call[c].op = "update"
  /\ LET t == call[c].table
         refused == t \notin Live \/ \E u \in Live \ {t} : tables[u] = call[c].name
     IN
     IF refused THEN Over(c) /\ UNCHANGED <<tables, uniques, history>>
     ELSE /\ tables' = [tables EXCEPT ![t] = call[c].name]
          /\ Constrain(t) \/ UNCHANGED uniques
          /\ history' = IF tables[t] = call[c].name THEN history ELSE history \cup {"renamed"}
          /\ call' = [call EXCEPT ![c] = [@ EXCEPT
               !.old = tables[t], !.seen = Of(t, columns),
               !.pc = IF "columns" \in call[c].given THEN "drop" ELSE "fields",
               !.todo = {x \in Of(t, columns) : \A y \in call[c].cols : y.id /= x.id}]]
  /\ UNCHANGED <<columns, relations, routes, collections, lock, known, renames, filled, serial, started, troubles, plan>>

\* Renaming in the background that a later change of the columns meets.
Meeting == IF renames = {} THEN history ELSE history \cup {"crossed"}

\* A column that is left out: its field is unset in every document.
DropColumn(c) ==
  /\ call[c].pc = "drop" /\ call[c].todo /= {}
  /\ LET x == CHOOSE x \in call[c].todo : TRUE IN
       /\ collections' = [collections EXCEPT ![call[c].old].values = Unset(@, x.name)]
       /\ columns' = {y \in columns : y.id /= x.id}
       /\ filled' = filled \ {x.id}
       /\ call' = [call EXCEPT ![c].todo = @ \ {x}]
       /\ history' = Meeting
  /\ UNCHANGED <<tables, uniques, relations, routes, lock, known, renames, serial, started, troubles, plan>>

\* Documents that the validator would not pass without the field are not
\* changed. Which columns it requires, and their types, are left out: it may
\* refuse the change of any field it has. The update ends here, half done.
RefuseDrop(c) ==
  /\ call[c].pc = "drop" /\ call[c].todo /= {}
  /\ \E x \in call[c].todo : x.name \in collections[call[c].old].validator
  /\ history' = history \cup {"refused"}
  /\ Over(c)
  /\ UNCHANGED <<rows, collections, lock, known, renames, filled, serial, started, troubles, plan>>

\* Columns with another name: the fields are renamed in the background, one
\* after the other. Names that are passed on, and renaming that meets earlier
\* renaming, mix them up.
Rename(c) ==
  /\ call[c].pc = "drop" /\ call[c].todo = {}
  /\ LET new == {[collection |-> call[c].old, from |-> p[1].name, to |-> p[2].name] :
                   p \in {q \in call[c].seen \X call[c].cols : q[1].id = q[2].id /\ q[1].name /= q[2].name}}
         passed == \E r \in new : \E y \in call[c].cols : y.name = r.from
     IN
     /\ renames' = renames \cup new
     /\ history' = IF passed THEN history \cup {"crossed"} ELSE Meeting
  /\ call' = [call EXCEPT ![c] = [@ EXCEPT !.pc = "columns", !.todo = call[c].cols, !.seen = {}]]
  /\ UNCHANGED <<rows, collections, lock, known, filled, serial, started, troubles, plan>>

\* Mutant: documents that have the new field keep the old one.
MutantRenameField(r) ==
  /\ r \in renames
  /\ renames' = renames \ {r}
  /\ UNCHANGED <<rows, collections, lock, known, call, filled, counted>>

\* $rename: the new field is overwritten where the old one is there.
RenameField(r) ==
  /\ r \in renames
  /\ renames' = renames \ {r}
  /\ LET moved == {v \in collections[r.collection].values : v.field = r.from} IN
     collections' = IF moved = {} THEN collections
                    ELSE [collections EXCEPT ![r.collection].values =
                            (@ \ {v \in @ : v.field \in {r.from, r.to}}) \cup {[v EXCEPT !.field = r.to] : v \in moved}]
  /\ UNCHANGED <<rows, lock, known, call, filled, counted>>

\* Renaming that the validator refuses is only logged.
RefuseRename(r) ==
  /\ r \in renames
  /\ {r.from, r.to} \cap collections[r.collection].validator /= {}
  /\ renames' = renames \ {r}
  /\ history' = history \cup {"stuck"}
  /\ UNCHANGED <<rows, collections, lock, known, call, filled, serial, started, troubles, plan>>

LoseRename(r) ==
  /\ r \in renames
  /\ Trouble("failed")
  /\ renames' = renames \ {r}
  /\ UNCHANGED <<rows, collections, lock, known, call, filled, serial, started>>

\* dropRelationFieldsBeforeUpdate: the fields of all relations in the body,
\* new or not, are unset. Then the relations that are left out are deleted.
DropFields(c) ==
  /\ call[c].pc = "fields"
  /\ IF "relations" \notin call[c].given
     THEN Goto(c, "schema") /\ UNCHANGED <<relations, collections, filled>>
     ELSE LET left == {x \in Of(call[c].table, relations) : \A y \in call[c].rels : y.id /= x.id}
              fields == NamesOf(call[c].rels) \cup NamesOf(left)
          IN
          /\ collections' = [collections EXCEPT ![call[c].old].values = {v \in @ : v.field \notin fields}]
          /\ relations' = relations \ left
          /\ filled' = filled \ {x.id : x \in left}
          /\ call' = [call EXCEPT ![c] = [@ EXCEPT !.pc = "relations", !.todo = call[c].rels]]
  /\ UNCHANGED <<tables, uniques, columns, routes, lock, known, renames, counted>>

\* Mutant: the validator stays as it was.
MutantUpdateCollection(c) ==
  /\ call[c].pc = "schema"
  /\ Over(c)
  /\ collections' = [collections EXCEPT ![call[c].old].indexed = Indexes(call[c].table)]
  /\ history' = IF call[c].old \in known[c] THEN history ELSE history \cup {"unknown"}
  /\ UNCHANGED <<rows, lock, known, renames, filled, serial, started, troubles, plan>>

\* Validator and indexes follow, if this server has the table in its cache
\* and the collection is there.
UpdateCollection(c) ==
  /\ call[c].pc = "schema"
  /\ Over(c)
  /\ LET n == call[c].old IN
     IF n \in known[c]
     THEN /\ collections' = IF collections[n].there
                            THEN [collections EXCEPT ![n] = Described(@, call[c].table)] ELSE collections
          /\ UNCHANGED history
     ELSE history' = history \cup {"unknown"} /\ UNCHANGED collections
  /\ UNCHANGED <<rows, lock, known, renames, filled, serial, started, troubles, plan>>

-----------------------------------------------------------------------------
(* delete *)

\* Routes go first. The relations are looked up by a field that rows on
\* MongoDB do not have: none is found.
DeleteRoutes(c) ==
  /\ call[c].pc = "look" /\ call[c].op = "delete"
  /\ LET t == call[c].table IN
     IF t \notin Live THEN Over(c) /\ UNCHANGED routes
     ELSE /\ routes' = routes \ Of(t, routes)
          /\ call' = [call EXCEPT ![c] = [@ EXCEPT !.pc = "rows", !.old = tables[t]]]
  /\ UNCHANGED <<tables, uniques, columns, relations, collections, lock, known, renames, filled, counted>>

DeleteRows(c) ==
  /\ call[c].pc = "rows"
  /\ columns' = columns \ Of(call[c].table, columns)
  /\ tables' = [tables EXCEPT ![call[c].table] = NoName]
  /\ Goto(c, "dropping")
  /\ UNCHANGED <<uniques, relations, routes, collections, lock, known, renames, filled, counted>>

DropCollection(c) ==
  /\ call[c].pc = "dropping"
  /\ collections' = [collections EXCEPT ![call[c].old] = NoCollection]
  /\ Over(c)
  /\ UNCHANGED <<rows, lock, known, renames, filled, counted>>

-----------------------------------------------------------------------------
(* What can go wrong *)

\* A query fails. While columns and relations of a new table are written the
\* handler takes back the table, and with it the columns if it was a relation.
Fail(c) ==
  /\ Working(c) /\ call[c].pc /= "release"
  /\ Trouble("failed")
  /\ LET creating == call[c].op = "create" /\ call[c].pc \in {"columns", "relations"}
         t == call[c].table
     IN
     /\ tables' = IF creating THEN [tables EXCEPT ![t] = NoName] ELSE tables
     /\ columns' = IF creating /\ call[c].pc = "relations" THEN columns \ Of(t, columns) ELSE columns
  /\ Over(c)
  /\ UNCHANGED <<uniques, relations, routes, collections, lock, known, renames, filled, serial, started>>

\* A client fills the documents of a table, when nothing works on it.
Fill(t) ==
  /\ t \in Live /\ \A c \in Calls : ~Working(c)
  /\ LET n == tables[t]
         fields == Of(t, columns) \cup Of(t, relations)
     IN
     /\ ~({x.id : x \in fields} \subseteq filled)
     /\ collections[n].there
     /\ collections' = [collections EXCEPT ![n].values =
          {v \in @ : v.field \notin NamesOf(fields)} \cup {[field |-> x.name, of |-> x.id] : x \in fields}]
     /\ filled' = filled \cup {x.id : x \in fields}
  /\ history' = IF renames = {} THEN history ELSE history \cup {"early"}
  /\ UNCHANGED <<rows, lock, known, renames, call, serial, started, troubles, plan>>

-----------------------------------------------------------------------------
Init ==
  /\ tables = [t \in Ids |-> NoName]
  /\ uniques = {} /\ columns = {} /\ relations = {} /\ routes = {}
  /\ collections = [n \in Names |-> NoCollection]
  /\ lock = [by |-> NoCall, over |-> FALSE]
  /\ known = [c \in Calls |-> {}]
  /\ renames = {} /\ filled = {}
  /\ call = [c \in Calls |-> Idle]
  /\ serial = 0 /\ started = 0 /\ troubles = 0 /\ plan \in Plans /\ history = {}

Change(c) ==
  \/ LookCreate(c) \/ InsertTable(c) \/ WriteColumn(c) \/ WriteRelation(c) \/ InsertRoute(c) \/ CreateCollection(c)
  \/ LookUpdate(c) \/ DropColumn(c) \/ RefuseDrop(c) \/ Rename(c) \/ DropFields(c) \/ UpdateCollection(c)
  \/ DeleteRoutes(c) \/ DeleteRows(c) \/ DropCollection(c)
Step(c) == Acquire(c) \/ Change(c) \/ Release(c)
Next ==
  \/ \E c \in Calls : Ask(c) \/ Step(c) \/ Fail(c) \/ FailIndexes(c) \/ Die(c) \/ Refresh(c)
  \/ \E r \in renames : RenameField(r) \/ RefuseRename(r) \/ LoseRename(r)
  \/ Lapse \/ \E t \in Ids : Fill(t)
Spec == Init /\ [][Next]_vars

-----------------------------------------------------------------------------
(* Properties *)

Quiet == renames = {} /\ \A c \in Calls : ~Working(c)
Spared(kinds) == history \cap kinds = {}

\* One server changes the schema at a time, as long as no lock runs out.
Exclusive ==
  "lapsed" \notin history => \A c, d \in Calls : Working(c) /\ Working(d) => c = d

\* Once nothing works on it the schema agrees: a table has its collection,
\* with the validator of its rows, and the indexes of its relations unless it
\* has a unique constraint; columns and routes have their table. Excused:
\* failures, renamed tables, whose collection keeps the old name, updates that
\* the validator ended half way, and those on a server that does not know the
\* table yet.
Agreement ==
  Quiet /\ Spared({"lapsed", "failed", "renamed", "refused", "unknown"}) =>
    /\ \A t \in Live : collections[tables[t]] =
         [Described(collections[tables[t]], t) EXCEPT !.there = TRUE]
    /\ \A n \in Names : collections[n].there => \E t \in Live : tables[t] = n
    /\ \A x \in columns \cup routes : x.table \in Live

\* The values of a column that is kept are found under its name after any
\* change, also one that a validator ended, and no others are. Excused are also
\* renamings that a validator refused, those that meet, and what is written
\* before a renaming is done.
ValuesKept ==
  Quiet /\ Spared({"lapsed", "failed", "renamed", "stuck", "crossed", "early"}) =>
    \A x \in columns : x.table \in Live =>
      {v.of : v \in {v \in collections[tables[x.table]].values : v.field = x.name}}
        = IF x.id \in filled THEN {x.id} ELSE {}

=============================================================================
