----------------------------- MODULE AgentTables -----------------------------
(****************************************************************************)
(* The tools with which the agent changes tables and records                *)
(* (modules/ai-agent/utils/executors and the two workflows): a call holds   *)
(* several items; tables are created, updated and deleted one after the     *)
(* other, each through a workflow of checks, a change and retries; records  *)
(* are written in chunks whose writes run at the same time. Calls of        *)
(* several conversations run at once.                                       *)
(****************************************************************************)
EXTENDS Naturals, Sequences, FiniteSets, SequencesExt

CONSTANTS
  Workers,       \* conversations whose turns run at the same time
  Plans,         \* for each worker, the calls its model makes
  Names,         \* names of tables
  Stored,        \* the tables there are at first
  Absent, NotGiven,
  KeyOf(_),      \* the column a many-to-one relation of this name needs
  Automatic,     \* createdAt and updatedAt
  MaxRetries,    \* maxRetries of the workflows
  BatchSize,     \* batchSize of the record tools
  MaxStumbles    \* bound: failing statements

RelationKinds == {"many-to-one", "one-to-one", "one-to-many", "many-to-many"}
Relations == [name : STRING, kind : RelationKinds, target : Names, inverse : BOOLEAN]
Things == {"column", "relation"} \X STRING
\* The ids of the rows of columns and relations, and which of these had what is
\* stored for them, a column, a key or a junction table, dropped under them.
Tables == [columns : SUBSET STRING, relations : SUBSET Relations, ids : SUBSET (Things \X Nat), lost : SUBSET Things]
TableItems == [name : Names, columns : (SUBSET STRING) \cup {NotGiven}, relations : (SUBSET Relations) \cup {NotGiven}]
RecordItems == [name : STRING]
Calls == [tool : {"create_tables", "update_tables", "delete_tables"}, items : Seq(TableItems)]
           \cup [tool : {"create_records", "update_records", "delete_records"}, items : Seq(RecordItems)]

ASSUME TablesAssumption ==
  /\ MaxRetries \in Nat /\ BatchSize \in Nat \ {0}
  /\ Absent \notin Tables
  /\ Plans \subseteq [Workers -> Seq(Calls)]
  \* The name of a table stands for its id: none is deleted and made again.
  /\ \A plan \in Plans, v, w \in Workers : \A k \in DOMAIN plan[v], l \in DOMAIN plan[w] :
       plan[v][k].tool = "create_tables" /\ plan[w][l].tool = "delete_tables" =>
         \A i \in DOMAIN plan[v][k].items, j \in DOMAIN plan[w][l].items :
           plan[v][k].items[i].name /= plan[w][l].items[j].name

VARIABLES
  tables,    \* for each name, Absent or its columns and relations
  rows,      \* records there are
  serial,    \* changes of tables so far: the ids of the rows they inserted
  call,      \* of each worker, its call and the workflow of the current item
  todo,      \* calls the model will make after it
  stopped,   \* workers whose turn is stopped
  granted,   \* __permissionCache of each turn
  applied,   \* items whose change was made
  unheard,   \* those of them whose answer got lost
  promised,  \* columns and relations of each table that were made and not taken back
  crossed,   \* tables that were changed between the look and the change of a
             \* workflow, also by the change itself if it was made twice
  stumbles   \* bound

tablesVars == <<tables, rows, serial, call, todo, stopped, granted, applied, unheard, promised,
          crossed, stumbles>>
store == <<tables, rows, serial, applied, promised, crossed>>
turns == <<todo, stopped, granted>>

NoCall == [tool |-> "none", items |-> <<>>]
Resting == [pc |-> "idle", what |-> NoCall, at |-> 0, seen |-> Absent, body |-> Absent, view |-> Absent, tries |-> 0,
          stop |-> FALSE, results |-> <<>>, flight |-> {}]

Tool(w) == call[w].what.tool
Item(w) == call[w].what.items[call[w].at]
Id(w) == <<w, Len(todo[w]), call[w].at>>
GoOn(w, pc) == call' = [call EXCEPT ![w].pc = pc]

\* A statement fails: the connection, a timeout or a lock, or something else.
Stumble == stumbles < MaxStumbles /\ stumbles' = stumbles + 1

-----------------------------------------------------------------------------
(* A call begins *)

Operation(tool) == IF tool \in {"create_tables", "create_records"} THEN "create"
                   ELSE IF tool \in {"delete_tables", "delete_records"} THEN "delete" ELSE "update"
OnTables(tool) == tool \in {"create_tables", "update_tables", "delete_tables"}
Right(what) == <<Operation(what.tool), OnTables(what.tool)>>

\* executeCheckPermission: what is allowed once is allowed for the whole turn.
Permission(w, what, pc) ==
  \/ /\ w \notin stopped
     /\ granted' = [granted EXCEPT ![w] = @ \cup {Right(what)}]
     /\ call' = [call EXCEPT ![w] = [Resting EXCEPT !.what = what, !.at = 1, !.pc = pc]]
  \/ /\ w \in stopped \/ Right(what) \notin granted[w]
     /\ call' = [call EXCEPT ![w] = [Resting EXCEPT !.what = what]]
     /\ UNCHANGED granted

BeginCall(w, pc) ==
  /\ call[w].pc = "idle" /\ todo[w] /= <<>>
  /\ todo' = [todo EXCEPT ![w] = Tail(@)]
  /\ Permission(w, Head(todo[w]), pc)
  /\ UNCHANGED <<store, stopped, unheard, stumbles>>
BeginTables(w) == todo[w] /= <<>> /\ OnTables(Head(todo[w]).tool) /\ BeginCall(w, "item")
BeginRecords(w) == todo[w] /= <<>> /\ ~OnTables(Head(todo[w]).tool) /\ BeginCall(w, "chunk")

\* The loops over the items: they break off when the turn is stopped.
More(w) == call[w].at <= Len(call[w].what.items) /\ w \notin stopped
NextItem(w) ==
  /\ call[w].pc = "item" /\ Tool(w) /= "delete_tables"
  /\ GoOn(w, IF More(w) THEN "look" ELSE "idle")
  /\ UNCHANGED <<store, turns, unheard, stumbles>>
NextDeletion(w) ==
  /\ call[w].pc = "item" /\ Tool(w) = "delete_tables"
  /\ GoOn(w, IF More(w) THEN "look" ELSE "idle")
  /\ UNCHANGED <<store, turns, unheard, stumbles>>

\* An item is over; the loop goes on with the next one.
Over(w, ok) ==
  call' = [call EXCEPT ![w] = [Resting EXCEPT !.what = call[w].what, !.at = call[w].at + 1,
             !.pc = "item", !.results = Append(call[w].results, [at |-> call[w].at, ok |-> ok])]]

-----------------------------------------------------------------------------
(* The checks of a table workflow, before anything is changed *)

Given(set) == IF set = NotGiven THEN {} ELSE set
Single(r) == r.kind \in {"many-to-one", "one-to-one"}
NamesOf(relations) == {r.name : r \in relations}

\* collectTableDataValidationErrors, collectRelationValidationErrors, validateUpdateData
Sound(tool, item) ==
  /\ tool = "create_tables" => "id" \in Given(item.columns)
  /\ Given(item.columns) \cap Automatic = {}
  /\ \A r \in Given(item.relations) : ~Single(r) => r.inverse

TargetsExist(relations) == \A r \in relations : tables[r.target] /= Absent

\* The table is looked for. A failing look ends the workflow.
Look(w, exists, next) ==
  LET found == tables[Item(w).name] IN
  /\ call[w].pc = "look"
  /\ \/ /\ (found /= Absent) = exists
        /\ call' = [call EXCEPT ![w].seen = found, ![w].pc = next] /\ UNCHANGED stumbles
     \/ (found /= Absent) /= exists /\ Over(w, FALSE) /\ UNCHANGED stumbles
     \/ Stumble /\ Over(w, FALSE)
  /\ UNCHANGED <<store, turns, unheard>>

CheckTableExists(w) == Tool(w) = "create_tables" /\ Look(w, FALSE, "check")
LoadCurrentTable(w) == Tool(w) = "update_tables" /\ Look(w, TRUE, "check")
FindTable(w) == Tool(w) = "delete_tables" /\ Look(w, TRUE, "write")

\* The data, then the targets. On creation the targets are looked for although
\* the data is known to be wrong; on updates they are not.
Validate(w, looks) ==
  LET fits == Sound(Tool(w), Item(w)) /\ TargetsExist(Given(Item(w).relations)) IN
  /\ call[w].pc = "check"
  /\ \/ fits /\ GoOn(w, IF looks THEN "conflicts" ELSE "merge") /\ UNCHANGED stumbles
     \/ ~fits /\ Over(w, FALSE) /\ UNCHANGED stumbles
     \/ looks /\ Stumble /\ Over(w, FALSE)
  /\ UNCHANGED <<store, turns, unheard>>

ValidateTableData(w) ==
  Tool(w) = "create_tables" /\ Validate(w, Given(Item(w).relations) /= {})
ValidateUpdateData(w) ==
  Tool(w) = "update_tables"
    /\ Validate(w, Given(Item(w).relations) /= {} /\ Sound(Tool(w), Item(w)))

\* Relations whose key would have the name of a column. On an update the keys
\* of the relations there are do not count.
Conflicting(w) ==
  LET item == Item(w)
      there == IF call[w].seen = Absent THEN [columns |-> {}, relations |-> {}] ELSE call[w].seen
      keys == {KeyOf(r.name) : r \in {x \in there.relations : Single(x)}}
  IN {r \in item.relations :
        Single(r) /\ KeyOf(r.name) \in (there.columns \cup Given(item.columns)) \ keys}

\* A conflict does not keep the workflow from creating the table, nor does a
\* failing look for it.
CheckConflicts(w) ==
  /\ call[w].pc = "conflicts" /\ Tool(w) = "create_tables"
  /\ \/ Conflicting(w) = {} /\ GoOn(w, "merge") /\ UNCHANGED stumbles
     \/ /\ \/ Conflicting(w) /= {} /\ UNCHANGED stumbles
           \/ Stumble
        /\ call' = [call EXCEPT ![w].stop = TRUE, ![w].pc = "merge"]
  /\ UNCHANGED <<store, turns, unheard>>

\* It does keep it from updating.
CheckUpdateConflicts(w) ==
  /\ call[w].pc = "conflicts" /\ Tool(w) = "update_tables"
  /\ IF Conflicting(w) = {} THEN GoOn(w, "merge") ELSE Over(w, FALSE)
  /\ UNCHANGED <<store, turns, unheard, stumbles>>

\* What is sent: of what was read, with the ids it was read with.
ThingsOf(columns, relations) ==
  {<<"column", c>> : c \in columns} \cup {<<"relation", n>> : n \in NamesOf(relations)}
Body(columns, relations, ids) ==
  [columns |-> columns, relations |-> relations,
   ids |-> {row \in ids : row[1] \in ThingsOf(columns, relations)}, lost |-> {}]

MergedRelations(seen, item) ==
  IF item.relations = NotGiven THEN seen.relations
  ELSE IF item.relations = {} THEN {}
  ELSE item.relations \cup {r \in seen.relations : r.name \notin NamesOf(item.relations)}

\* Mutant: the columns of the call replace those of the table.
MutantMerged(seen, item) ==
  Body(IF item.columns = NotGiven THEN seen.columns ELSE item.columns, MergedRelations(seen, item), seen.ids)

\* mergeData: columns and relations by name over those that were read.
Merged(seen, item) ==
  Body(IF item.columns = NotGiven THEN seen.columns ELSE item.columns \cup (seen.columns \ Automatic),
       MergedRelations(seen, item), seen.ids)

MergeTable(w) ==
  /\ call[w].pc = "merge"
  /\ call' = [call EXCEPT ![w].pc = "write",
       ![w].body = IF Tool(w) = "update_tables" THEN Merged(call[w].seen, Item(w))
                   ELSE Body(Given(Item(w).columns), Given(Item(w).relations), {})]
  /\ UNCHANGED <<store, turns, unheard, stumbles>>

-----------------------------------------------------------------------------
(* The change, under the schema lock *)

\* shouldRetry: three attempts, if the message of the error looks temporary.
\* Deletions are not retried.
FailedChange(w, temporary) ==
  IF temporary /\ Tool(w) /= "delete_tables" /\ ~call[w].stop /\ call[w].tries + 1 < MaxRetries
  THEN call' = [call EXCEPT ![w].tries = @ + 1, ![w].pc = "write"]
  ELSE Over(w, FALSE)

\* Another change is under way, or the lock was left behind: the message does
\* not look temporary. On SQL the lock is that of a pooled session, and may let
\* in two changes (SchemaChange): it keeps none out for certain.
TakeLock(w) ==
  /\ call[w].pc = "write"
  /\ \/ GoOn(w, "begin") /\ UNCHANGED stumbles
     \/ FailedChange(w, FALSE) /\ UNCHANGED stumbles
     \/ Stumble /\ \E temporary \in BOOLEAN : FailedChange(w, temporary)
  /\ UNCHANGED <<store, turns, unheard>>

\* The transaction begins with a look at the table, which on MySQL fixes what
\* it reads from then on.
BeginChange(w) ==
  /\ call[w].pc = "begin"
  /\ call' = [call EXCEPT ![w].view = tables[Item(w).name], ![w].pc = "change"]
  /\ UNCHANGED <<store, turns, unheard, stumbles>>

\* A key of a relation that has the name of a column.
Clash(table) == \E r \in table.relations : Single(r) /\ KeyOf(r.name) \in table.columns
\* Both in the table itself: the column was not dropped.
ColumnClash(table) ==
  \E r \in table.relations :
    Single(r) /\ KeyOf(r.name) \in table.columns /\ <<"column", KeyOf(r.name)>> \notin table.lost

Thing(r) == <<"relation", r.name>>
Named(ids) == {row[1] : row \in ids}

\* What the handler makes of a body: the rows it sees that are not named by
\* their ids are deleted, those that are named are updated, and what has no id
\* is inserted, also if a row of that name was just deleted. The column is then
\* dropped with the old row, and not made for the new one, whose name was known.
Remaining(now, visible, body) == now.ids \ (visible.ids \ body.ids)
Inserted(body) == ThingsOf(body.columns, body.relations) \ Named(body.ids)
Replaced(now, visible, body) ==
  LET left == Remaining(now, visible, body)
      written == Named(left \cap body.ids) \cup Inserted(body)
      unseen == Named(left \ body.ids)
  IN
  [columns |-> {c \in body.columns : <<"column", c>> \in written}
                 \cup {c \in now.columns : <<"column", c>> \in unseen},
   relations |-> {r \in body.relations : Thing(r) \in written} \cup {r \in now.relations : Thing(r) \in unseen},
   ids |-> left \cup {<<x, serial + 1>> : x \in Inserted(body)},
   lost |-> (now.lost \cap Named(left)) \cup (Inserted(body) \cap Named(visible.ids))]

\* A relation is written to a table that is not there. One whose row is gone is
\* updated in vain; many-to-many relations are checked all the same.
Missing(body, rowsOf, written) ==
  \E r \in body.relations :
    /\ tables[r.target] = Absent
    /\ Thing(r) \in written \/ (r.kind = "many-to-many" /\ Thing(r) \notin rowsOf)

\* The row of a relation is of another kind.
Retyped(body, visible) ==
  \E r \in body.relations, x \in visible.relations :
    r.name = x.name /\ r.kind /= x.kind /\ Thing(r) \in Named(visible.ids \cap body.ids)

\* Mutant: the names are left to the checks of the workflow.
MutantRefused(w, visible) ==
  LET now == tables[Item(w).name]
      body == call[w].body
  IN
  CASE Tool(w) = "create_tables" -> now /= Absent \/ Missing(body, {}, Inserted(body))
    [] Tool(w) = "delete_tables" -> visible = Absent
    [] Tool(w) = "update_tables" ->
         IF visible = Absent THEN TRUE
         ELSE IF now = Absent THEN Inserted(body) /= {} \/ Retyped(body, visible)
         ELSE Missing(body, Named(visible.ids), Named(now.ids \cap body.ids) \cup Inserted(body))

\* The change is refused: the table is there, or is not, names clash, a target
\* is missing, the kind of a relation changes, a row is inserted beside one of
\* its name, a column is added that the table has, or dropped that it has not.
Refused(w, visible) ==
  LET now == tables[Item(w).name]
      body == call[w].body
      rowsOf == Named(visible.ids)
  IN
  CASE Tool(w) = "create_tables" -> now /= Absent \/ Clash(body) \/ Missing(body, {}, Inserted(body))
    [] Tool(w) = "delete_tables" -> visible = Absent
    [] Tool(w) = "update_tables" ->
         IF visible = Absent \/ Clash(body) THEN TRUE
         ELSE IF now = Absent THEN Inserted(body) /= {} \/ Retyped(body, visible)
         ELSE \/ Retyped(body, visible)
              \/ Missing(body, rowsOf, Named(now.ids \cap body.ids) \cup Inserted(body))
              \/ Inserted(body) \cap Named(Remaining(now, visible, body)) /= {}
              \/ ColumnClash(Replaced(now, visible, body))
              \/ \E x \in Named((now.ids \cap visible.ids) \ body.ids) : x[1] = "column" /\ x \in now.lost
              \/ \E r \in body.relations : r.kind = "one-to-many" /\ Thing(r) \in Inserted(body) \cap rowsOf

Without(table, name) ==
  IF table = Absent THEN Absent
  ELSE LET gone == {Thing(r) : r \in {x \in table.relations : x.target = name}}
       IN [table EXCEPT !.relations = {r \in table.relations : r.target /= name},
                        !.ids = {row \in table.ids : row[1] \notin gone}, !.lost = @ \ gone]

\* What the caller of the tool may count on from now on.
Owed(w) ==
  LET item == Item(w)
      before == IF item.relations = {} /\ Tool(w) = "update_tables" THEN {x \in promised[item.name] : x[1] = "column"}
                ELSE promised[item.name]
  IN before \cup ThingsOf(Given(item.columns), Given(item.relations))

Apply(w, visible) ==
  LET name == Item(w).name
      now == tables[name]
      body == call[w].body
  IN
  IF Tool(w) = "delete_tables"
  THEN /\ tables' = [n \in Names |-> IF n = name THEN Absent ELSE Without(tables[n], name)]
       /\ promised' = [n \in Names |-> IF n = name THEN {}
                         ELSE promised[n] \ {Thing(r) :
                                r \in {x \in (IF tables[n] = Absent THEN {} ELSE tables[n].relations) : x.target = name}}]
       /\ crossed' = crossed \ {name}
  ELSE IF Tool(w) = "update_tables" /\ now = Absent
  THEN UNCHANGED <<tables, promised, crossed>>  \* rows are updated that are gone
  ELSE /\ tables' = [tables EXCEPT ![name] =
                       IF now = Absent THEN [body EXCEPT !.ids = {<<x, serial + 1>> : x \in Inserted(body)}]
                       ELSE Replaced(now, visible, body)]
       /\ promised' = [promised EXCEPT ![name] = Owed(w)]
       /\ crossed' = IF now /= call[w].seen \/ visible /= call[w].seen THEN crossed \cup {name} ELSE crossed

\* The change is made in one transaction, or refused, or fails. What other
\* changes made since it began it may see or not, but not undo by chance: rows
\* are deleted and updated by their ids, and keys and targets are checked by
\* the database.
Change(w) ==
  /\ call[w].pc = "change"
  /\ \/ \E visible \in {call[w].view, tables[Item(w).name]} :
          /\ ~Refused(w, visible)
          /\ Apply(w, visible)
          /\ applied' = applied \cup {Id(w)} /\ serial' = serial + 1
          /\ GoOn(w, "read") /\ UNCHANGED stumbles
     \/ /\ \/ \E visible \in {call[w].view, tables[Item(w).name]} : Refused(w, visible)
           \/ tables[Item(w).name] = Absent /\ Tool(w) /= "create_tables"
        /\ FailedChange(w, FALSE) /\ UNCHANGED <<tables, applied, promised, crossed, serial, stumbles>>
     \/ /\ Stumble
        /\ \E temporary \in BOOLEAN : FailedChange(w, temporary)
        /\ UNCHANGED <<tables, applied, promised, crossed, serial>>
  /\ UNCHANGED <<rows, turns, unheard>>

\* The caches are told and the table is read back: a failure of that looks like
\* a failure of the change, and may be retried.
Read(w) ==
  /\ call[w].pc = "read"
  /\ \/ Over(w, TRUE) /\ UNCHANGED <<unheard, stumbles>>
     \/ /\ Stumble /\ Tool(w) /= "delete_tables"
        /\ unheard' = unheard \cup {Id(w)}
        /\ \E temporary \in BOOLEAN : FailedChange(w, temporary)
  /\ UNCHANGED <<store, turns>>

-----------------------------------------------------------------------------
(* Records, in chunks *)

\* Mutant: the last record of a chunk is in the next one, too.
MutantRecordChunk(w) ==
  /\ call[w].pc = "chunk" /\ call[w].flight = {}
  /\ LET items == call[w].what.items
         next == {i \in call[w].at .. call[w].at + BatchSize : i <= Len(items)}
     IN IF next = {} \/ w \in stopped THEN GoOn(w, "idle")
        ELSE call' = [call EXCEPT ![w].flight = next, ![w].at = @ + BatchSize]
  /\ UNCHANGED <<store, turns, unheard, stumbles>>

\* The writes of a chunk are started together.
RecordChunk(w) ==
  /\ call[w].pc = "chunk" /\ call[w].flight = {}
  /\ LET items == call[w].what.items
         next == {i \in call[w].at .. call[w].at + BatchSize - 1 : i <= Len(items)}
     IN IF next = {} \/ w \in stopped THEN GoOn(w, "idle")
        ELSE call' = [call EXCEPT ![w].flight = next, ![w].at = @ + BatchSize]
  /\ UNCHANGED <<store, turns, unheard, stumbles>>

Written(tool, record) == IF tool = "create_records" THEN rows \cup {record}
                         ELSE IF tool = "delete_records" THEN rows \ {record} ELSE rows

\* One of them comes back: done, failed, or done with a failing read-back.
WriteRecord(w) ==
  /\ call[w].pc = "chunk"
  /\ \E i \in call[w].flight :
       LET record == call[w].what.items[i].name
           id == <<w, Len(todo[w]), i>>
           back(ok) == call' = [call EXCEPT ![w].flight = @ \ {i},
                                            ![w].results = Append(@, [at |-> i, ok |-> ok])]
           there == (record \in rows) /= (Tool(w) = "create_records")
       IN \/ /\ there /\ rows' = Written(Tool(w), record) /\ applied' = applied \cup {id}
             /\ back(TRUE) /\ UNCHANGED <<unheard, stumbles>>
          \/ /\ ~there /\ back(FALSE) /\ UNCHANGED <<rows, applied, unheard, stumbles>>
          \/ Stumble /\ back(FALSE) /\ UNCHANGED <<rows, applied, unheard>>
          \/ /\ there /\ Stumble /\ Tool(w) /= "delete_records"
             /\ rows' = Written(Tool(w), record) /\ applied' = applied \cup {id}
             /\ unheard' = unheard \cup {id} /\ back(FALSE)
  /\ UNCHANGED <<tables, serial, promised, crossed, turns>>

-----------------------------------------------------------------------------
StopTurn(w) ==
  /\ w \notin stopped /\ (todo[w] /= <<>> \/ call[w].pc /= "idle")
  /\ stopped' = stopped \cup {w}
  /\ UNCHANGED <<store, call, todo, granted, unheard, stumbles>>

\* The automatic columns are none of the model's.
ASSUME StoredAssumption ==
  \A n \in DOMAIN Stored :
    /\ Stored[n] \in Tables /\ Stored[n].columns \cap Automatic = {}
    /\ ~Clash(Stored[n]) /\ \A r \in Stored[n].relations : r.target \in DOMAIN Stored
    /\ Named(Stored[n].ids) = ThingsOf(Stored[n].columns, Stored[n].relations) /\ Stored[n].lost = {}
    /\ \A row \in Stored[n].ids : row[2] = 0

TablesInit ==
  /\ tables = [n \in Names |-> IF n \in DOMAIN Stored THEN Stored[n] ELSE Absent]
  /\ rows = {"old"} /\ serial = 0
  /\ call = [w \in Workers |-> Resting]
  /\ todo \in Plans
  /\ stopped = {} /\ granted = [w \in Workers |-> {}]
  /\ applied = {} /\ unheard = {} /\ crossed = {}
  /\ promised = [n \in Names |-> IF n \in DOMAIN Stored
                   THEN ThingsOf(Stored[n].columns, Stored[n].relations) ELSE {}]
  /\ stumbles = 0

ToolStep(w) == BeginTables(w) \/ BeginRecords(w) \/ NextItem(w) \/ NextDeletion(w)
             \/ CheckTableExists(w) \/ LoadCurrentTable(w) \/ FindTable(w)
             \/ ValidateTableData(w) \/ ValidateUpdateData(w)
             \/ CheckConflicts(w) \/ CheckUpdateConflicts(w) \/ MergeTable(w) \/ TakeLock(w) \/ BeginChange(w)
             \/ Change(w) \/ Read(w) \/ RecordChunk(w) \/ WriteRecord(w)
TablesNext == \E w \in Workers : ToolStep(w) \/ StopTurn(w)
TablesSpec == TablesInit /\ [][TablesNext]_tablesVars

-----------------------------------------------------------------------------
(* Properties *)

Has(table, thing) == thing \in ThingsOf(table.columns, table.relations) \ table.lost

\* What calls made of a table and did not take back is there, with what is
\* stored in it, if nobody changed the table between the look and the change of
\* a call. Otherwise what was added in between is deleted, and what both added
\* keeps its row and loses its column, all of it reported as done.
UpdatesKeep ==
  \A n \in Names \ crossed : tables[n] /= Absent => \A x \in promised[n] : Has(tables[n], x)

\* Whatever two conversations do at once, in whatever way the lock lets them in,
\* and although a creation goes on after it has found a conflict: no table has a
\* column with the name of the key of one of its relations, but for columns that
\* were dropped under their rows, and every relation leads to a table.
SchemaSound ==
  \A n \in Names : tables[n] /= Absent =>
    ~ColumnClash(tables[n]) /\ TargetsExist(tables[n].relations)

\* What the model is told of a call: an item is reported done only if it was
\* done, in this call, and reported failed only if nothing was done, unless the
\* answer got lost; and each item is reported once, or not at all after an abort.
HonestReport ==
  \A w \in Workers :
    LET told == call[w].results
        id(i) == <<w, Len(todo[w]), i>>
    IN /\ \A k \in DOMAIN told : id(told[k].at) \notin unheard => (told[k].ok <=> id(told[k].at) \in applied)
       /\ \A k, l \in DOMAIN told : told[k].at = told[l].at => k = l
       /\ call[w].pc = "idle" /\ told /= <<>> /\ w \notin stopped => Len(told) = Len(call[w].what.items)

=============================================================================
