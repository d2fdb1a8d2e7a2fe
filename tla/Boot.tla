-------------------------------- MODULE Boot --------------------------------
(****************************************************************************)
(* The start of a server process: the database script (DatabaseInit), then  *)
(* provision (core/bootstrap): at the first start the metadata and the      *)
(* default records are written and isInit is set, at every later one the    *)
(* migrations of the metadata and of the data run.                          *)
(*                                                                          *)
(* Metadata are written in one transaction on SQL and record by record on   *)
(* MongoDB; default records one by one on both, errors being logged. No     *)
(* lock is taken: several processes may initialise at once, and each may    *)
(* die at any statement and start again.                                    *)
(****************************************************************************)
EXTENDS DatabaseInit

CONSTANTS
  Defaults,   \* the default records, the administrator first, then as listed
  Default,    \* of each: table, constrained, parents, needed, kept, methods, inline
  Enabled     \* the records of data-migration.json (of Defaults)

\* A default record lies in `table`, where a unique constraint may guard it. It
\* refers to `parents`, looked up before any record of the table is written
\* (without them it is skipped if they are `needed`), and to `methods`, linked
\* by statements that follow its own; on MongoDB they go into the document
\* (`inline`) or nowhere. An existing record that is `kept` is left alone.
ASSUME DefaultsAssumption == Defaults \in Seq(DOMAIN Default)

\* In default-data.json each record is listed once, after the methods and the
\* routes it needs, and the records that are only created (menus) have no methods.
Earlier(k) == {Defaults[n] : n \in 1 .. k - 1}
EarlierTables(k) == {r \in Earlier(k) : Default[r].table # Default[Defaults[k]].table}
ASSUME OrderOfDefaults ==
  \A k \in DOMAIN Defaults :
    LET r == Default[Defaults[k]]
    IN /\ Defaults[k] \notin Earlier(k)
       /\ r.methods \subseteq Earlier(k) /\ (r.kept => r.methods = {})
       /\ r.needed => r.parents \subseteq EarlierTables(k)

\* A database in which isInit is set already has the default records: what a
\* later release lists besides them is not inserted any more.
ASSUME VersionsAssumption ==
  \A v \in Versions :
    /\ v.records \in [DOMAIN Default -> {0, 1}] /\ DOMAIN v.refs = DOMAIN Default
    /\ v.initialised =>
         \A r \in ToSet(Defaults) : v.records[r] = 1 /\ Default[r].methods \subseteq v.refs[r]

VARIABLES
  metadata,   \* copies of every column and relation in the metadata
  records,    \* copies of every default record
  refs,       \* the records each of them is linked to
  known,      \* what a process has found before it writes
  failures    \* default records whose query failed

boot == <<metadata, records, refs, known, failures>>
bootVars == <<world, position, phase, crashes, boot>>

-----------------------------------------------------------------------------
(* Metadata *)

\* The columns and relations that snapshot.json lists for a table, and those
\* that snapshot-migration.json renames.
Listed(t) == {<<t, n>> : n \in Snapshot[t].cols \cup Snapshot[t].rels
                               \cup (IF Moved[1] = t THEN {Moved[2]} ELSE {})}
MetaKeys == SetToSeq(UNION {Listed(t) : t \in Tables})
Renames == UNION {{<<<<t, p[1]>>, <<t, p[2]>>>> : p \in ToSet(Migration[t].relationRenames)} : t \in Tables}
ColumnRenames == UNION {{<<<<t, p[1]>>, <<t, p[2]>>>> : p \in ToSet(Migration[t].renames)} : t \in Tables}

OldOf(key) == {p[1] : p \in {q \in Renames : q[2] = key}}

Present == {k \in DOMAIN metadata : metadata[k] > 0}

Enter(i, p, s) ==
  /\ phase' = [phase EXCEPT ![i] = p]
  /\ at' = [at EXCEPT ![i] = 0]
  /\ step' = [step EXCEPT ![i] = s]
  /\ held' = [held EXCEPT ![i] = Nothing]
  /\ known' = [known EXCEPT ![i] = {}]

Goto(i, s) ==
  /\ step' = [step EXCEPT ![i] = s]
  /\ UNCHANGED <<phase, at, held>>

In(i, p, s) == phase[i] = p /\ step[i] = s

\* An exception in onModuleInit ends the process, which is started again.
Aborts(i) ==
  /\ Restart(i)
  /\ known' = [known EXCEPT ![i] = {}]
  /\ UNCHANGED <<metadata, records, refs, failures, crashes>>

\* The database answers within ten attempts, or provision is left out.
Connect(i) ==
  /\ phase[i] = "connect"
  /\ Enter(i, IF ~initialised THEN "metadata" ELSE "migrate",
              IF initialised THEN "metadata" ELSE IF Sql THEN "read" ELSE "find")
  /\ history' = history \cup
       (IF ~initialised /\ \E j \in Instances \ {i} : phase[j] \in {"metadata", "records", "mark"}
          THEN {"shared"} ELSE {})
  /\ UNCHANGED <<deployment, origin, tables, links, junction, initialised, crashes,
                 metadata, records, refs, failures>>

NoConnection(i) ==
  /\ phase[i] = "connect" /\ crashes < origin.trouble
  /\ Enter(i, "serve", "look")
  /\ crashes' = crashes + 1
  /\ UNCHANGED <<world, metadata, records, refs, failures>>

\* SQL: everything is read and written in one transaction. A row that another
\* process has committed since violates a unique constraint.
ReadMetadata(i) ==
  /\ In(i, "metadata", "read")
  /\ known' = [known EXCEPT ![i] = Present]
  /\ Goto(i, "write")
  /\ UNCHANGED <<world, crashes, metadata, records, refs, failures>>

Renamed(seen) == {k \in ToSet(MetaKeys) \ seen : OldOf(k) \cap seen # {}}

WriteMetadata(i) ==
  LET seen  == known[i]
      new   == ToSet(MetaKeys) \ seen
      moved == Renamed(seen)
  IN /\ In(i, "metadata", "write")
     /\ IF new \cap Present # {}
          THEN Aborts(i)
          ELSE /\ metadata' = [k \in DOMAIN metadata |->
                    IF k \in new THEN 1
                    ELSE IF \E n \in moved : k \in OldOf(n) THEN 0 ELSE metadata[k]]
               /\ Goto(i, "sync")
               /\ known' = [known EXCEPT ![i] = {}]
               /\ UNCHANGED <<world, crashes, records, refs, failures>>

\* Phase 4 gives the enum columns the type of their metadata; on PostgreSQL
\* that is a plain text. Errors are logged.
SyncPhysicalSchema(i) ==
  /\ In(i, "metadata", "sync")
  /\ tables' = [t \in DOMAIN tables |->
       IF Postgres /\ t \in Tables /\ tables[t].enum # "none"
         THEN [tables[t] EXCEPT !.enum = "text"] ELSE tables[t]]
  /\ Enter(i, "records", "resolve")
  /\ UNCHANGED <<deployment, origin, links, junction, initialised, history, crashes,
                 metadata, records, refs, failures>>

\* MongoDB: a relation of the new name, or its old one, is looked for and then
\* updated or inserted; only tables have a unique index that holds.
FindMetadata(i) ==
  LET key == MetaKeys[at[i] + 1]
  IN /\ In(i, "metadata", "find") /\ at[i] < Len(MetaKeys)
     /\ IF OldOf(key) \cap Present # {}
          THEN Goto(i, "rename") /\ UNCHANGED known
          ELSE IF key \in Present THEN at' = [at EXCEPT ![i] = at[i] + 1]
                                        /\ UNCHANGED <<phase, step, held, known>>
          ELSE Goto(i, "insert") /\ UNCHANGED known
     /\ UNCHANGED <<world, crashes, metadata, records, refs, failures>>

SaveMetadata(i) ==
  LET key == MetaKeys[at[i] + 1]
  IN /\ In(i, "metadata", "rename") \/ In(i, "metadata", "insert")
     /\ metadata' = [k \in DOMAIN metadata |->
          IF k = key /\ (step[i] = "insert" \/ OldOf(key) \cap Present # {}) THEN metadata[k] + 1
          ELSE IF step[i] = "rename" /\ k \in OldOf(key) THEN 0 ELSE metadata[k]]
     /\ at' = [at EXCEPT ![i] = at[i] + 1]
     /\ step' = [step EXCEPT ![i] = "find"]
     /\ UNCHANGED <<world, phase, held, known, crashes, records, refs, failures>>

MetadataSaved(i) ==
  /\ In(i, "metadata", "find") /\ at[i] = Len(MetaKeys)
  /\ Enter(i, "records", "resolve")
  /\ UNCHANGED <<world, crashes, metadata, records, refs, failures>>

-----------------------------------------------------------------------------
(* Default records *)

Current(i) == Defaults[at[i] + 1]
FirstOfTable(k) == k = 1 \/ Default[Defaults[k]].table # Default[Defaults[k - 1]].table

\* The next record; `resolve` when it is the first of its table.
NextRecord(i) ==
  /\ at' = [at EXCEPT ![i] = at[i] + 1]
  /\ step' = [step EXCEPT ![i] =
       IF at[i] + 1 < Len(Defaults) /\ FirstOfTable(at[i] + 2) THEN "resolve" ELSE "find"]
  /\ UNCHANGED <<phase, held>>

AtRecord(i, s) == In(i, "records", s) /\ at[i] < Len(Defaults)

\* transformRecords: what the records of a table refer to is looked up before
\* the first of them is written.
Resolve(i) ==
  /\ AtRecord(i, "resolve")
  /\ known' = [known EXCEPT ![i] = {r \in DOMAIN records : records[r] > 0}]
  /\ Goto(i, "find")
  /\ UNCHANGED <<world, crashes, metadata, records, refs, failures>>

\* Links that follow the record (afterUpsert of routes and hooks, SQL only), those
\* that go into the document of a hook on MongoDB, those to parents that were
\* found (a menu loses the others), and the hooks left out for want of a route.
Linking(r)     == Sql /\ Default[r].methods # {}
Inlined(i, r)  == IF ~Sql /\ Default[r].inline THEN Default[r].methods \cap known[i] ELSE {}
Found(i, r)    == Default[r].parents \cap known[i]
LeftOut(i, r)  == Default[r].needed /\ ~(Default[r].parents \subseteq known[i])
Untouched(r)   == records[r] > 0 /\ (Default[r].kept \/ ~Linking(r))

\* Mutant: a record that exists is left alone, its links included.
MutantFind(i) ==
  LET r == Current(i)
  IN /\ AtRecord(i, "find")
     /\ IF records[r] > 0 THEN NextRecord(i) ELSE Goto(i, "insert")
     /\ UNCHANGED <<world, crashes, boot>>

Find(i) ==
  LET r == Current(i)
  IN /\ AtRecord(i, "find")
     /\ IF LeftOut(i, r) \/ Untouched(r)
          THEN NextRecord(i)
          ELSE Goto(i, IF records[r] = 0 THEN "insert" ELSE "unlink")
     /\ UNCHANGED <<world, crashes, boot>>

Insert(i) ==
  LET r == Current(i)
  IN /\ AtRecord(i, "insert")
     /\ IF Default[r].constrained /\ records[r] > 0
          THEN NextRecord(i) /\ UNCHANGED <<records, refs>>
          ELSE /\ records' = [records EXCEPT ![r] = records[r] + 1]
               /\ refs' = [refs EXCEPT ![r] = refs[r] \cup Found(i, r) \cup Inlined(i, r)]
               /\ IF Linking(r) THEN Goto(i, "unlink") ELSE NextRecord(i)
     /\ UNCHANGED <<world, crashes, metadata, known, failures>>

\* afterUpsert: the links to methods are removed and written anew.
Unlink(i) ==
  LET r == Current(i)
  IN /\ AtRecord(i, "unlink")
     /\ IF \E m \in Default[r].methods : records[m] > 0
          THEN /\ refs' = [refs EXCEPT ![r] = refs[r] \ Default[r].methods]
               /\ Goto(i, "link")
          ELSE NextRecord(i) /\ UNCHANGED refs
     /\ UNCHANGED <<world, crashes, metadata, records, known, failures>>

Link(i) ==
  LET r == Current(i)
  IN /\ AtRecord(i, "link")
     /\ refs' = [refs EXCEPT ![r] = refs[r] \cup {m \in Default[r].methods : records[m] > 0}]
     /\ NextRecord(i)
     /\ UNCHANGED <<world, crashes, metadata, records, known, failures>>

\* A query fails: its record is logged and left, the rest go on.
Skip(i) ==
  /\ \E s \in {"find", "insert", "unlink", "link"} : AtRecord(i, s)
  /\ crashes < origin.trouble
  /\ crashes' = crashes + 1
  /\ failures' = failures + 1
  /\ NextRecord(i)
  /\ UNCHANGED <<world, metadata, records, refs, known>>

\* Back in onModuleInit: without a settings row there is nothing to mark.
ReadSetting(i) ==
  /\ phase[i] = "records" /\ at[i] = Len(Defaults)
  /\ IF records["setting"] = 0
       THEN Aborts(i)
       ELSE /\ Enter(i, "mark", "look")
            /\ UNCHANGED <<world, crashes, metadata, records, refs, failures>>

Mark(i) ==
  /\ phase[i] = "mark"
  /\ initialised' = TRUE
  /\ Enter(i, "serve", "look")
  /\ UNCHANGED <<deployment, origin, tables, links, junction, history, crashes,
                 metadata, records, refs, failures>>

-----------------------------------------------------------------------------
(* Later starts *)

Removed == UNION {{<<t, n>> : n \in ToSet(Migration[t].removals) \cup ToSet(Migration[t].relationRemovals)}
                  : t \in Tables}
Dropped == {k \in DOMAIN metadata : k[1] \in ToSet(Obsolete)}

\* The metadata follow snapshot-migration.json: drops, renames, removals.
DropMetadata(i) ==
  /\ In(i, "migrate", "metadata")
  /\ metadata' = [k \in DOMAIN metadata |-> IF k \in Dropped THEN 0 ELSE metadata[k]]
  /\ Goto(i, "rename")
  /\ UNCHANGED <<world, crashes, records, refs, known, failures>>

RenameMetadata(i) ==
  LET moved == {p \in Renames \cup ColumnRenames : p[1] \in Present /\ p[2] \notin Present}
  IN /\ In(i, "migrate", "rename")
     /\ metadata' = [k \in DOMAIN metadata |->
          IF \E p \in moved : p[2] = k THEN 1
          ELSE IF \E p \in moved : p[1] = k THEN 0 ELSE metadata[k]]
     /\ Goto(i, "remove")
     /\ UNCHANGED <<world, crashes, records, refs, known, failures>>

RemoveMetadata(i) ==
  /\ In(i, "migrate", "remove")
  /\ metadata' = [k \in DOMAIN metadata |-> IF k \in Removed THEN 0 ELSE metadata[k]]
  /\ Goto(i, "data")
  /\ UNCHANGED <<world, crashes, records, refs, known, failures>>

\* The records of data-migration.json that exist are updated and their methods
\* replaced by those listed (taken to be the default ones), as far as they exist.
MigrateData(i) ==
  /\ In(i, "migrate", "data")
  /\ refs' = [r \in DOMAIN refs |->
       IF r \in Enabled /\ records[r] > 0 /\ Sql
         THEN refs[r] \cup {m \in Default[r].methods : records[m] > 0} ELSE refs[r]]
  /\ Enter(i, "serve", "look")
  /\ UNCHANGED <<world, crashes, metadata, records, failures>>

-----------------------------------------------------------------------------
(* The whole *)

Kill(i) ==
  /\ phase[i] \notin {"start", "script"} /\ crashes < origin.trouble
  /\ Restart(i)
  /\ known' = [known EXCEPT ![i] = {}]
  /\ crashes' = crashes + 1
  /\ UNCHANGED <<metadata, records, refs, failures>>

BootInit ==
  /\ deployment \in Deployments
  /\ origin \in Versions
  /\ LET v == origin IN
       /\ tables = v.tables /\ links = v.links /\ initialised = v.initialised
       /\ metadata = v.metadata /\ records = v.records /\ refs = v.refs
       /\ junction = v.junction
  /\ phase = [i \in Instances |-> "start"]
  /\ at = [i \in Instances |-> 0]
  /\ step = [i \in Instances |-> "look"]
  /\ held = [i \in Instances |-> Nothing]
  /\ known = [i \in Instances |-> {}]
  /\ crashes = 0 /\ failures = 0 /\ history = {}

ScriptStep(i) == InitStep(i) /\ UNCHANGED boot

Provision(i) ==
  \/ Connect(i) \/ ReadMetadata(i) \/ WriteMetadata(i) \/ SyncPhysicalSchema(i)
  \/ FindMetadata(i) \/ SaveMetadata(i) \/ MetadataSaved(i)
  \/ Resolve(i) \/ Find(i) \/ Insert(i) \/ Unlink(i) \/ Link(i)
  \/ ReadSetting(i) \/ Mark(i)
  \/ DropMetadata(i) \/ RenameMetadata(i) \/ RemoveMetadata(i) \/ MigrateData(i)

Trouble(i) ==
  \/ (ScriptCrash(i) \/ Swallow(i)) /\ UNCHANGED boot
  \/ Kill(i) \/ NoConnection(i) \/ Skip(i)

BootNext == \E i \in Instances : ScriptStep(i) \/ Provision(i) \/ Trouble(i)

BootSpec == BootInit /\ [][BootNext]_bootVars

\* A statement returns or fails, and the process manager starts what has ended.
BootFairness == \A i \in Instances : WF_bootVars(ScriptStep(i)) /\ WF_bootVars(Provision(i))
BootFairSpec == BootSpec /\ BootFairness

-----------------------------------------------------------------------------
(* Properties *)

\* Links of the relation that moves to a junction table (moveM2oDataToM2mJunction)
\* are lost only if two scripts ran at once, or one ended between the making of
\* the junction table and the last row copied.
LinksKept ==
  \A r \in origin.links : r \in links \cup junction.rows \/ history \cap {"raced", "stopped"} # {}

\* Once no server runs the script (scripts/init-db.ts) and one is past it, the
\* database has every table, column, key and unique constraint snapshot.json
\* asks for: whatever its version was, however often a lone script was killed,
\* and whatever two that ran at once did to one another. Exempt are an enum
\* column that went with its type, a script that died while others ran, and keys
\* and unique constraints that the rows do not allow or whose failed query was
\* passed over. On the way no data are lost.
PastScript(i) == phase[i] \notin {"start", "script"}
ScriptConverges ==
  /\ LinksKept
  /\ /\ \E i \in Instances : PastScript(i)
     /\ \A i \in Instances : phase[i] # "script"
     /\ "dropped" \notin history /\ ~("raced" \in history /\ crashes > 0)
     => Converged

\* isInit (provision.service.ts) says that every default record is there, once,
\* with its links, in spite of processes killed in between; exempt are a query that
\* failed, and servers that initialise at the same time.
InitialisedOnce ==
  initialised /\ failures = 0 /\ "shared" \notin history =>
    \A r \in ToSet(Defaults) :
      /\ records[r] = 1
      /\ Linking(r) => Default[r].methods \subseteq refs[r]

\* Every server ends up serving (main.ts: init script, then app.init), but for
\* databases at which each start fails anew: on PostgreSQL those with an enum left
\* as a text whose values no longer fit, on both SQL databases those whose rows do
\* not fit the snapshot's enum or the type or nullability of a column, or a key to
\* be made for a new relation or action on delete. And two scripts can defeat each
\* other for ever: one makes the key anew that the other dropped to make it, and
\* on PostgreSQL they drop each other's enum types.
Refused(name) ==
  LET s == Snapshot[name]
      t == tables[name]
  IN \/ t.unfit \cap (s.cols \cup {"enum"} \cup t.stale) # {}
     \/ Postgres /\ t.unfit \cap (s.rels \ t.cols) # {}
     \/ Postgres /\ t.enum = "text" /\ t.cased
Doomed ==
  \/ Sql /\ \E t \in Tables : Refused(t)
  \/ /\ Cardinality(origin.servers) > 1
     /\ Postgres \/ (Sql /\ \E t \in Tables : tables[t].stale # {})
BootEnds == <>[](Doomed \/ \A i \in origin.servers : phase[i] = "serve")

=============================================================================
