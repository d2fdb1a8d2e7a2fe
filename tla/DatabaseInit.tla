---------------------------- MODULE DatabaseInit ----------------------------
(****************************************************************************)
(* What every process does to the database before the application starts    *)
(* (scripts/init-db.ts): the migrations of snapshot-migration.json, then    *)
(* the tables, foreign keys and junction tables of snapshot.json, on        *)
(* PostgreSQL, MySQL and MongoDB.                                           *)
(*                                                                          *)
(* The script is a list of statements, run one by one on an autocommit      *)
(* connection, each behind a look at the database of its own. Nothing keeps *)
(* two processes from running it at once, and a process that fails or dies  *)
(* starts it again from the top.                                            *)
(****************************************************************************)
EXTENDS Integers, Sequences, SequencesExt, FiniteSets

CONSTANTS
  Instances,    \* server processes sharing the database
  Deployments,  \* DB_TYPE: a subset of {"postgres", "mysql", "mongodb"}
  Order,        \* the tables, in the order of snapshot.json
  Snapshot,     \* what snapshot.json says of each of them
  Migration,    \* what snapshot-migration.json says of each of them
  Obsolete,     \* the tables it drops
  Versions,     \* the deployments: servers, trouble to expect, database
  Moved         \* <<table, relation>> turned from a foreign key into a junction

ASSUME OrderAssumption      == Order \in Seq(DOMAIN Snapshot)
ASSUME DeploymentAssumption == Deployments \subseteq {"postgres", "mysql", "mongodb"}

Tables == ToSet(Order)

\* A column and the foreign key on it carry the name of their relation. `enum`
\* is the type of the one enum column: the values of the old version, those of
\* the snapshot, or text, in between. `cased` says that rows still hold a value
\* the snapshot spells with other capitals, `doubled` which unique groups the
\* rows would violate. `type` is the PostgreSQL type of the enum. `misfit` are
\* the columns of another type or nullability than the snapshot's, `unfit` the
\* columns, relations and enum ("enum") that the rows keep from being what the
\* snapshot says, `stale` the relations whose action on delete has changed.
NoTable == [there |-> FALSE, cols |-> {}, fks |-> {}, uniques |-> {}, indexes |-> {},
            enum |-> "none", type |-> FALSE, cased |-> FALSE, doubled |-> {},
            misfit |-> {}, unfit |-> {}, stale |-> {}]

VARIABLES
  deployment,
  origin,       \* the version deployed
  tables,       \* the physical tables (collections)
  links,        \* rows whose link is still in the old column (field)
  junction,     \* the junction table of Moved: is it there, with which rows
  initialised,  \* isInit of the first row of setting_definition
  phase,        \* of every process: "script" while it runs this script
  at,           \* how many items of the script a process has behind it
  step,         \* the statement of the item that comes next
  held,         \* what a process remembers between two statements of an item
  crashes,      \* what went wrong so far: kills, and queries that failed
  history       \* raced: two processes were in the script at once; stopped: one ended
                \* between the making of the junction and its last row; dropped: an
                \* enum column went with its type; shared: two processes wrote the
                \* default records at once; swallowed: a query failed and was passed over

position == <<at, step, held>>
world  == <<deployment, origin, tables, links, junction, initialised, history>>

Sql    == deployment # "mongodb"
Postgres == deployment = "postgres"
Nothing == [cols |-> {}, enum |-> FALSE, cased |-> FALSE, change |-> {}, rels |-> {},
            drop |-> {}, add |-> {}, plain |-> {}, extra |-> {}, stale |-> {}, rows |-> {}]

-----------------------------------------------------------------------------
(* The script as a list of items, in the order of the calls *)

Item(op, t, from, to) == [op |-> op, table |-> t, from |-> from, to |-> to]

Each(F(_)) == FlattenSeq([k \in DOMAIN Order |-> F(Order[k])])
Of(s, G(_)) == [k \in DOMAIN s |-> G(s[k])]

Drops == [k \in DOMAIN Obsolete |-> Item("dropTable", Obsolete[k], "", "")]

\* A relation that moves to a junction has its rows copied before it is removed.
Removal(t, r) ==
  IF <<t, r>> = Moved THEN <<Item("moveLinks", t, r, r), Item("removeRelation", t, r, r)>>
                      ELSE <<Item("removeRelation", t, r, r)>>

Migrations(t) ==
  Of(Migration[t].renames, LAMBDA p : Item("renameColumn", t, p[1], p[2]))
  \o Of(Migration[t].removals, LAMBDA c : Item("removeColumn", t, c, c))
  \o Of(Migration[t].relationRenames, LAMBDA p : Item("renameRelation", t, p[1], p[2]))
  \o FlattenSeq(Of(Migration[t].relationRemovals, LAMBDA r : Removal(t, r)))

Creations(t)   == <<Item("createTable", t, "", "")>>
ForeignKeys(t) == Of(SetToSeq(Snapshot[t].rels), LAMBDA r : Item("addForeignKey", t, r, r))
Junctions(t)   == IF Moved[1] = t THEN <<Item("createJunction", t, Moved[2], "")>> ELSE <<>>
\* Mutant: only new tables are made to agree with the snapshot.
MutantSyncs(t) == <<>>
Syncs(t)       == <<Item("syncTable", t, "", "")>>

SqlScript ==
  Drops \o Each(Migrations) \o Each(Creations) \o Each(ForeignKeys)
  \o Each(Junctions) \o Each(Syncs) \o Each(Junctions)

MongoScript == Drops \o Each(Migrations) \o Each(Creations)

Script == IF Sql THEN SqlScript ELSE MongoScript
Here(i) == Script[at[i] + 1]

\* Mutant: tables are created without a look whether they are there.
MutantApplies(item) ==
  CASE item.op \in {"dropTable", "syncTable"} -> tables[item.table].there
    [] item.op \in {"createTable", "addForeignKey"} -> TRUE
    [] item.op = "createJunction" -> ~junction.there
    [] OTHER -> item.from \in tables[item.table].cols
                /\ (Sql => item.to \notin tables[item.table].cols \/ item.to = item.from)

\* The look that precedes the statements of an item: does it have any?
Applies(item) ==
  LET t == tables[item.table]
  IN CASE item.op \in {"dropTable", "syncTable"} -> t.there
       [] item.op = "createTable" -> ~t.there
       [] item.op \in {"renameColumn", "renameRelation"} ->
            item.from \in t.cols /\ (Sql => item.to \notin t.cols)
       [] item.op \in {"removeColumn", "removeRelation"} ->
            item.from \in t.cols /\ (Sql \/ <<item.table, item.from>> # Moved)
       [] item.op = "moveLinks" ->
            item.from \in t.cols /\ (Sql => ~junction.there)
       [] item.op = "createJunction" -> ~junction.there
       [] item.op = "addForeignKey" -> TRUE

\* What a finished item leads to: the end of the script is the start of the
\* application.
Advance(i) ==
  /\ at' = [at EXCEPT ![i] = @ + 1]
  /\ step' = [step EXCEPT ![i] = "look"]
  /\ held' = [held EXCEPT ![i] = Nothing]
  /\ UNCHANGED phase

Copying(i) == phase[i] = "script" /\ step[i] \in {"readLinks", "copyLink"}

\* process.exit(1) or a kill, and the process manager starts the process again.
Restart(i) ==
  /\ phase' = [phase EXCEPT ![i] = "start"]
  /\ at' = [at EXCEPT ![i] = 0]
  /\ step' = [step EXCEPT ![i] = "look"]
  /\ held' = [held EXCEPT ![i] = Nothing]
  /\ history' = history \cup (IF Copying(i) THEN {"stopped"} ELSE {})
  /\ UNCHANGED <<deployment, origin, tables, links, junction, initialised>>

Then(i, s) ==
  /\ step' = [step EXCEPT ![i] = s]
  /\ UNCHANGED <<phase, at, held>>

AtStatement(i, s) == phase[i] = "script" /\ at[i] < Len(Script) /\ step[i] = s

\* A statement whose precondition the database no longer meets fails, and the
\* script with it.
Require(i, ok, after) == IF ok THEN after ELSE Restart(i)

Altered(c, t) == tables' = [tables EXCEPT ![c.table] = t]

-----------------------------------------------------------------------------
(* Statements *)

\* The process starts; an initialised database ends the script at once.
Launch(i) ==
  /\ phase[i] = "start" /\ i \in origin.servers
  /\ phase' = [phase EXCEPT ![i] = IF initialised THEN "connect" ELSE "script"]
  /\ history' = history \cup
       (IF ~initialised /\ \E j \in Instances \ {i} : phase[j] = "script" THEN {"raced"} ELSE {})
  /\ UNCHANGED <<position, deployment, origin, tables, links, junction, initialised, crashes>>

Finish(i) ==
  /\ phase[i] = "script" /\ at[i] = Len(Script)
  /\ phase' = [phase EXCEPT ![i] = "connect"]
  /\ UNCHANGED <<position, world, crashes>>

First(item) ==
  CASE item.op = "moveLinks" /\ Sql -> "createLinks"
    [] item.op \in {"renameRelation", "removeRelation"} /\ Sql -> "dropKey"
    [] OTHER -> item.op

Look(i) ==
  /\ AtStatement(i, "look")
  /\ IF Applies(Here(i)) THEN Then(i, First(Here(i))) ELSE Advance(i)
  /\ UNCHANGED <<world, crashes>>

DropTable(i) ==
  /\ AtStatement(i, "dropTable")
  /\ Altered(Here(i), NoTable)
  /\ Advance(i)
  /\ UNCHANGED <<deployment, origin, links, junction, initialised, history, crashes>>

\* RENAME COLUMN of a column or of a relation's key; keys and indexes follow.
Rename(i) ==
  LET c == Here(i)
      t == tables[c.table]
      Named(S) == IF c.from \in S THEN (S \ {c.from}) \cup {c.to} ELSE S
  IN /\ Sql /\ (AtStatement(i, "renameColumn") \/ AtStatement(i, "renameRelation"))
     /\ Require(i, c.from \in t.cols /\ c.to \notin t.cols,
          /\ Altered(c, [t EXCEPT !.cols = Named(t.cols), !.fks = Named(t.fks),
                                   !.indexes = Named(t.indexes)])
          /\ Advance(i)
          /\ UNCHANGED <<deployment, origin, links, junction, initialised, history>>)
     /\ UNCHANGED crashes

\* $rename of a field in all documents; errors are swallowed.
RenameField(i) ==
  LET c == Here(i)
      t == tables[c.table]
  IN /\ ~Sql /\ (AtStatement(i, "renameColumn") \/ AtStatement(i, "renameRelation"))
     /\ Altered(c, IF c.from \in t.cols
                     THEN [t EXCEPT !.cols = (t.cols \ {c.from}) \cup {c.to}] ELSE t)
     /\ Advance(i)
     /\ UNCHANGED <<deployment, origin, links, junction, initialised, history, crashes>>

\* DROP COLUMN, and with it the links still in the column. MySQL refuses while a
\* foreign key is on it, PostgreSQL drops that too.
DropColumn(i) ==
  LET c == Here(i)
      t == tables[c.table]
  IN /\ Sql /\ (AtStatement(i, "removeColumn") \/ AtStatement(i, "removeRelation"))
     /\ Require(i, c.from \in t.cols /\ (Postgres \/ c.from \notin t.fks),
          /\ Altered(c, [t EXCEPT !.cols = t.cols \ {c.from}, !.fks = t.fks \ {c.from},
                                   !.indexes = t.indexes \ {c.from}])
          /\ links' = IF <<c.table, c.from>> = Moved THEN {} ELSE links
          /\ Advance(i)
          /\ UNCHANGED <<deployment, origin, junction, initialised, history>>)
     /\ UNCHANGED crashes

\* $unset of a field; a relation that was converted in place stays.
UnsetField(i) ==
  LET c == Here(i)
  IN /\ ~Sql /\ (AtStatement(i, "removeColumn") \/ AtStatement(i, "removeRelation"))
     /\ Altered(c, [tables[c.table] EXCEPT !.cols = tables[c.table].cols \ {c.from}])
     /\ Advance(i)
     /\ UNCHANGED <<deployment, origin, links, junction, initialised, history, crashes>>

\* The foreign key goes before its column does; errors are swallowed (Swallow).
DropKey(i) ==
  LET c == Here(i)
  IN /\ AtStatement(i, "dropKey")
     /\ Altered(c, [tables[c.table] EXCEPT !.fks = tables[c.table].fks \ {c.from}])
     /\ Then(i, c.op)
     /\ UNCHANGED <<deployment, origin, links, junction, initialised, history, crashes>>

\* The links are carried into the junction by a CREATE TABLE, a SELECT and an
\* INSERT per row, without a transaction.
CreateLinks(i) ==
  /\ AtStatement(i, "createLinks")
  /\ Require(i, ~junction.there,
       /\ junction' = [there |-> TRUE, rows |-> {}]
       /\ Then(i, "readLinks")
       /\ UNCHANGED <<deployment, origin, tables, links, initialised, history>>)
  /\ UNCHANGED crashes

ReadLinks(i) ==
  /\ AtStatement(i, "readLinks")
  /\ Require(i, Moved[2] \in tables[Moved[1]].cols,
       /\ held' = [held EXCEPT ![i].rows = links]
       /\ step' = [step EXCEPT ![i] = "copyLink"]
       /\ UNCHANGED <<world, phase, at>>)
  /\ UNCHANGED crashes

CopyLink(i) ==
  /\ AtStatement(i, "copyLink")
  /\ IF held[i].rows = {}
       THEN Advance(i) /\ UNCHANGED junction
       ELSE LET row == CHOOSE r \in held[i].rows : TRUE
            IN /\ junction' = [junction EXCEPT !.rows = junction.rows \cup {row}]
               /\ held' = [held EXCEPT ![i].rows = held[i].rows \ {row}]
               /\ UNCHANGED <<phase, at, step>>
  /\ UNCHANGED <<deployment, origin, tables, links, initialised, history, crashes>>

\* On MongoDB the link of a document becomes a list where it stands, one
\* document at a time.
ConvertLink(i) ==
  /\ AtStatement(i, "moveLinks")
  /\ IF links = {}
       THEN Advance(i) /\ UNCHANGED <<links, junction>>
       ELSE LET row == CHOOSE r \in links : TRUE
            IN /\ junction' = [junction EXCEPT !.rows = junction.rows \cup {row}]
               /\ links' = links \ {row}
               /\ UNCHANGED <<phase, at, step, held>>
  /\ UNCHANGED <<deployment, origin, tables, initialised, history, crashes>>

\* CREATE TABLE with its columns, uniques and indexes; knex makes an enum of
\* PostgreSQL a checked text.
Created(name) ==
  LET s == Snapshot[name]
  IN [NoTable EXCEPT
      !.there = TRUE, !.cols = s.cols \cup s.rels,
      !.uniques = s.uniques, !.indexes = s.indexes \cup s.stamps,
      !.enum = CASE ~s.enum -> "none" [] Postgres -> "text" [] OTHER -> "new"]

CreateTable(i) ==
  /\ Sql /\ AtStatement(i, "createTable")
  /\ Require(i, ~tables[Here(i).table].there,
       /\ Altered(Here(i), Created(Here(i).table))
       /\ Advance(i)
       /\ UNCHANGED <<deployment, origin, links, junction, initialised, history>>)
  /\ UNCHANGED crashes

\* createCollection with the validator of the table; the indexes are left to
\* statements of their own, which a later start does not repeat.
Collected(name) ==
  LET s == Snapshot[name]
  IN [NoTable EXCEPT !.there = TRUE, !.cols = s.cols \cup s.rels,
                     !.enum = IF s.enum THEN "new" ELSE "none"]

CreateCollection(i) ==
  /\ ~Sql /\ AtStatement(i, "createTable")
  /\ Require(i, ~tables[Here(i).table].there,
       /\ Altered(Here(i), Collected(Here(i).table))
       /\ Then(i, "createIndexes")
       /\ UNCHANGED <<deployment, origin, links, junction, initialised, history>>)
  /\ UNCHANGED crashes

CreateIndexes(i) ==
  LET c == Here(i)
      s == Snapshot[c.table]
  IN /\ AtStatement(i, "createIndexes")
     /\ Altered(c, [tables[c.table] EXCEPT !.uniques = s.uniques, !.indexes = s.indexes \cup s.stamps])
     /\ Advance(i)
     /\ UNCHANGED <<deployment, origin, links, junction, initialised, history, crashes>>

\* One ALTER TABLE for a foreign key and its index; any error is taken for a key
\* that exists, also that of rows which refer to nothing.
AddForeignKey(i) ==
  LET c == Here(i)
      t == tables[c.table]
  IN /\ AtStatement(i, "addForeignKey")
     /\ Altered(c, IF c.from \in t.cols \ (t.fks \cup t.unfit)
                     THEN [t EXCEPT !.fks = t.fks \cup {c.from}, !.indexes = t.indexes \cup {c.from}]
                     ELSE t)
     /\ Advance(i)
     /\ UNCHANGED <<deployment, origin, links, junction, initialised, history, crashes>>

CreateJunction(i) ==
  /\ AtStatement(i, "createJunction")
  /\ Require(i, ~junction.there,
       /\ junction' = [there |-> TRUE, rows |-> {}]
       /\ Advance(i)
       /\ UNCHANGED <<deployment, origin, tables, links, initialised, history>>)
  /\ UNCHANGED crashes

-----------------------------------------------------------------------------
(* syncTable: the schema is read once, and the statements of the difference *)
(* follow                                                                   *)

Difference(s, t) ==
  [cols  |-> s.cols \ t.cols,
   enum  |-> s.enum /\ t.enum # "new",
   cased |-> t.enum = "old" /\ t.cased,
   change |-> s.cols \cap t.cols \cap t.misfit,
   rels  |-> (s.rels \ t.fks) \ t.cols,
   drop  |-> t.uniques \ s.uniques,
   add   |-> s.uniques \ t.uniques,
   plain |-> s.indexes \ t.indexes,
   extra |-> t.indexes \ s.indexes,
   stale |-> {},
   rows  |-> {}]

\* A many-to-many relation and a column the snapshot does not list count as
\* changes as well; without any the table is left as it is.
Changed(name) ==
  LET s == Snapshot[name]
      t == tables[name]
  IN \/ Difference(s, t) # Nothing
     \/ t.cols \ (s.cols \cup s.rels) # {}
     \/ Moved[1] = name

ReadSchema(i) ==
  LET name == Here(i).table
  IN /\ AtStatement(i, "syncTable")
     /\ IF Changed(name)
          THEN /\ held' = [held EXCEPT ![i] = Difference(Snapshot[name], tables[name])]
               /\ step' = [step EXCEPT ![i] = "addColumns"]
               /\ UNCHANGED <<phase, at>>
          ELSE Advance(i)
     /\ UNCHANGED <<world, crashes>>

\* All new columns in one ALTER TABLE; rows stand in the way of a required one.
AddColumns(i) ==
  LET c == Here(i)
      t == tables[c.table]
      new == held[i].cols
      enum == held[i].enum /\ t.enum = "none"
  IN /\ AtStatement(i, "addColumns")
     /\ Require(i, t.there /\ new \cap (t.cols \cup t.unfit) = {},
          /\ Altered(c, [t EXCEPT !.cols = t.cols \cup new,
                                   !.enum = IF enum THEN (IF Postgres THEN "text" ELSE "new") ELSE t.enum])
          /\ Then(i, IF ~held[i].enum \/ enum THEN "changeColumn"
                      ELSE IF Postgres THEN "enumText" ELSE "enumMap")
          /\ UNCHANGED <<deployment, origin, links, junction, initialised, history>>)
     /\ UNCHANGED crashes

\* PostgreSQL: the column becomes text, its values are respelled after the
\* labels its enum had when it was read, the type is dropped with all that
\* depends on it and made anew, and the column takes it again. MySQL respells
\* and modifies.
EnumStep(i, from, to, ok, t) ==
  /\ AtStatement(i, from)
  /\ Require(i, ok,
       /\ Altered(Here(i), t)
       /\ Then(i, to)
       /\ UNCHANGED <<deployment, origin, links, junction, initialised, history>>)
  /\ UNCHANGED crashes

EnumText(i) ==
  LET t == tables[Here(i).table]
  IN /\ AtStatement(i, "enumText")
     /\ Require(i, t.enum # "none",
          /\ Altered(Here(i), [t EXCEPT !.enum = "text"])
          /\ held' = [held EXCEPT ![i].cased = t.enum = "old" /\ t.cased]
          /\ step' = [step EXCEPT ![i] = "enumMap"]
          /\ UNCHANGED <<deployment, origin, links, junction, initialised, history, phase, at>>)
     /\ UNCHANGED crashes

EnumMap(i) ==
  LET t == tables[Here(i).table]
  IN EnumStep(i, "enumMap", IF Postgres THEN "dropType" ELSE "enumType", t.enum # "none",
              [t EXCEPT !.cased = t.cased /\ ~held[i].cased])

DropType(i) ==
  LET t == tables[Here(i).table]
      typed == t.type /\ t.enum \in {"old", "new"}
  IN /\ AtStatement(i, "dropType")
     /\ Altered(Here(i), [t EXCEPT !.type = FALSE,
                                   !.enum = IF typed THEN "none" ELSE t.enum,
                                   !.cased = t.cased /\ ~typed,
                                   !.unfit = IF typed THEN t.unfit \ {"enum"} ELSE t.unfit])
     /\ history' = history \cup (IF typed THEN {"dropped"} ELSE {})
     /\ Then(i, "createType")
     /\ UNCHANGED <<deployment, origin, links, junction, initialised, crashes>>

CreateType(i) ==
  LET t == tables[Here(i).table]
  IN EnumStep(i, "createType", "enumType", ~t.type, [t EXCEPT !.type = TRUE])

EnumType(i) ==
  LET t == tables[Here(i).table]
      fits == "enum" \notin t.unfit /\ (Postgres => t.type /\ ~t.cased)
  IN EnumStep(i, "enumType", "changeColumn", t.enum # "none" /\ fits, [t EXCEPT !.enum = "new"])

\* The other columns get type and nullability one after the other; the database
\* refuses what the rows do not fit.
ChangeColumn(i) ==
  LET c == Here(i)
      t == tables[c.table]
      col == CHOOSE k \in held[i].change : TRUE
  IN /\ AtStatement(i, "changeColumn")
     /\ IF held[i].change = {} THEN Then(i, "addKeyColumn") /\ UNCHANGED world
        ELSE Require(i, col \in t.cols \ t.unfit,
               /\ Altered(c, [t EXCEPT !.misfit = t.misfit \ {col}])
               /\ held' = [held EXCEPT ![i].change = held[i].change \ {col}]
               /\ UNCHANGED <<deployment, origin, links, junction, initialised, history, phase, at, step>>)
     /\ UNCHANGED crashes

\* A missing relation gets its column and then, in a second ALTER TABLE, its key.
\* A required one is refused where there are rows: its column on PostgreSQL, its
\* key on MySQL, which fills the column with a number that refers to nothing.
AddKeyColumn(i) ==
  LET c == Here(i)
      t == tables[c.table]
      r == CHOOSE k \in held[i].rels : TRUE
  IN /\ AtStatement(i, "addKeyColumn")
     /\ IF held[i].rels = {} THEN Then(i, "indexes") /\ UNCHANGED world
        ELSE Require(i, r \notin t.cols /\ (Postgres => r \notin t.unfit),
               /\ Altered(c, [t EXCEPT !.cols = t.cols \cup {r}])
               /\ Then(i, "addKey")
               /\ UNCHANGED <<deployment, origin, links, junction, initialised, history>>)
     /\ UNCHANGED crashes

AddKey(i) ==
  LET c == Here(i)
      t == tables[c.table]
      r == CHOOSE k \in held[i].rels : TRUE
  IN /\ AtStatement(i, "addKey")
     /\ Require(i, r \in t.cols \ (t.fks \cup t.unfit),
          /\ Altered(c, [t EXCEPT !.fks = t.fks \cup {r}, !.indexes = t.indexes \cup {r}])
          /\ held' = [held EXCEPT ![i].rels = held[i].rels \ {r}]
          /\ step' = [step EXCEPT ![i] = "addKeyColumn"]
          /\ UNCHANGED <<deployment, origin, links, junction, initialised, history, phase, at>>)
     /\ UNCHANGED crashes

\* Every unique and index that the snapshot does not list goes, those that
\* CREATE TABLE made for dates and keys included; what cannot be dropped or
\* added is logged. MySQL keeps the index a foreign key needs.
SyncedIndexes(i, t, lost) ==
  LET kept == IF deployment = "mysql" THEN t.fks ELSE {}
  IN [t EXCEPT
       !.uniques = (t.uniques \ held[i].drop) \cup (held[i].add \ (t.doubled \cup lost)),
       !.indexes = (t.indexes \ (held[i].extra \ kept)) \cup (held[i].plain \ lost)]

SyncIndexes(i) ==
  /\ AtStatement(i, "indexes")
  /\ Altered(Here(i), SyncedIndexes(i, tables[Here(i).table], {}))
  /\ Then(i, "readActions")
  /\ UNCHANGED <<deployment, origin, links, junction, initialised, history, crashes>>

\* syncRelationOnDeleteChanges, of a table with other changes: a key whose action
\* on delete is not the snapshot's is looked up, dropped and made anew, and then
\* relation_definition is told.
ReadActions(i) ==
  LET c == Here(i)
  IN /\ AtStatement(i, "readActions")
     /\ held' = [held EXCEPT ![i].stale = tables[c.table].stale \cap Snapshot[c.table].rels]
     /\ step' = [step EXCEPT ![i] = "findKey"]
     /\ UNCHANGED <<world, phase, at, crashes>>

StaleOf(i) == CHOOSE r \in held[i].stale : TRUE

FindKey(i) ==
  /\ AtStatement(i, "findKey")
  /\ IF held[i].stale = {} THEN Advance(i)
     ELSE Then(i, IF StaleOf(i) \in tables[Here(i).table].fks THEN "dropOldKey" ELSE "addNewKey")
  /\ UNCHANGED <<world, crashes>>

DropOldKey(i) ==
  LET t == tables[Here(i).table]
  IN /\ AtStatement(i, "dropOldKey")
     /\ Require(i, StaleOf(i) \in t.fks,
          /\ Altered(Here(i), [t EXCEPT !.fks = t.fks \ {StaleOf(i)}])
          /\ Then(i, "addNewKey")
          /\ UNCHANGED <<deployment, origin, links, junction, initialised, history>>)
     /\ UNCHANGED crashes

AddNewKey(i) ==
  LET t == tables[Here(i).table]
  IN /\ AtStatement(i, "addNewKey")
     /\ Require(i, StaleOf(i) \in t.cols \ (t.fks \cup t.unfit),
          /\ Altered(Here(i), [t EXCEPT !.fks = t.fks \cup {StaleOf(i)}])
          /\ Then(i, "recordAction")
          /\ UNCHANGED <<deployment, origin, links, junction, initialised, history>>)
     /\ UNCHANGED crashes

RecordAction(i) ==
  LET t == tables[Here(i).table]
  IN /\ AtStatement(i, "recordAction")
     /\ Altered(Here(i), [t EXCEPT !.stale = t.stale \ {StaleOf(i)}])
     /\ held' = [held EXCEPT ![i].stale = held[i].stale \ {StaleOf(i)}]
     /\ step' = [step EXCEPT ![i] = "findKey"]
     /\ UNCHANGED <<deployment, origin, links, junction, initialised, history, phase, at, crashes>>

ScriptCrash(i) ==
  /\ phase[i] = "script" /\ crashes < origin.trouble
  /\ Restart(i)
  /\ crashes' = crashes + 1

\* A query fails whose errors are caught and passed over: that of a foreign key,
\* of an index or unique, of the key of a column to rename or drop, and those of
\* the migrations on MongoDB. The script goes on without its effect.
Swallow(i) ==
  /\ phase[i] = "script" /\ at[i] < Len(Script) /\ crashes < origin.trouble
  /\ \/ /\ step[i] = "addForeignKey" \/ (~Sql /\ step[i] \notin {"look", "dropTable", "createTable", "createIndexes"})
        /\ Advance(i) /\ UNCHANGED tables
     \/ step[i] = "dropKey" /\ Then(i, Here(i).op) /\ UNCHANGED tables
     \/ /\ step[i] = "indexes"
        /\ \E lost \in held[i].add \cup held[i].plain :
             Altered(Here(i), SyncedIndexes(i, tables[Here(i).table], {lost}))
        /\ Then(i, "readActions")
  /\ crashes' = crashes + 1
  /\ history' = history \cup {"swallowed"}
  /\ UNCHANGED <<deployment, origin, links, junction, initialised>>

InitStep(i) ==
  \/ Launch(i) \/ Finish(i) \/ Look(i)
  \/ DropTable(i) \/ Rename(i) \/ RenameField(i) \/ DropColumn(i) \/ UnsetField(i) \/ DropKey(i)
  \/ CreateLinks(i) \/ ReadLinks(i) \/ CopyLink(i) \/ ConvertLink(i)
  \/ CreateTable(i) \/ CreateCollection(i) \/ CreateIndexes(i) \/ AddForeignKey(i) \/ CreateJunction(i)
  \/ ReadSchema(i) \/ AddColumns(i) \/ EnumText(i) \/ EnumMap(i) \/ DropType(i)
  \/ CreateType(i) \/ EnumType(i) \/ ChangeColumn(i) \/ AddKeyColumn(i) \/ AddKey(i) \/ SyncIndexes(i)
  \/ ReadActions(i) \/ FindKey(i) \/ DropOldKey(i) \/ AddNewKey(i) \/ RecordAction(i)

-----------------------------------------------------------------------------
(* What the script promises *)

\* The physical schema holds everything the snapshot asks for, but for keys and
\* uniques that the rows do not allow or whose query failed.
Converged ==
  /\ \A t \in ToSet(Obsolete) : ~tables[t].there
  /\ \A name \in Tables :
       LET s == Snapshot[name]
           t == tables[name]
       IN /\ t.there
          /\ Sql => /\ s.cols \cup s.rels \subseteq t.cols
                    /\ s.enum => t.enum # "none"
                    /\ \/ "swallowed" \in history
                       \/ /\ s.rels \subseteq t.fks \cup t.unfit
                          /\ s.uniques \subseteq t.uniques \cup t.doubled
=============================================================================
