---------------------------- MODULE SchemaChange ----------------------------
(****************************************************************************)
(* Changes of the database schema of the SQL deployments: createTable,      *)
(* updateTable and delete of SqlTableHandlerService, with the lock of       *)
(* SchemaMigrationLockService and the statements of                         *)
(* SqlSchemaMigrationService, on every instance of the cluster.             *)
(*                                                                          *)
(* A change writes metadata rows in a transaction (trx) and changes the     *)
(* physical tables on other sessions of the connection pool; neither the    *)
(* lock nor the tables belong to the transaction.                           *)
(****************************************************************************)
EXTENDS Integers, FiniteSets

CONSTANTS
  Instances,     \* server processes sharing one database
  Calls,         \* slots for the changes in flight: bounds how many overlap
  Master,        \* the database server that takes the writes
  Readers,       \* servers that raw SELECTs are spread over: the master, the
                 \* replicas, or both
  PoolSize,      \* sessions of an instance on every server
  PoolMin,       \* how many of them the pool never closes when idle
  Dialects,      \* DB_TYPE: a subset of {"postgres", "mysql"}
  Names, NoName, \* names of tables
  Columns,       \* names of columns, those every table has left aside
  Ids, NoId,     \* ids of rows of table_definition
  Plans          \* bounds: instances and slots that take part, bodies of the
                 \* requests, changes started, and faults (lost queries and
                 \* commits, crashes, closed sessions)

ASSUME CallsAssumption  == IsFiniteSet(Calls)
ASSUME PoolAssumption   == PoolSize \in Nat /\ PoolMin \in Nat
ASSUME NamesAssumption  == NoName \notin Names /\ NoId \notin Ids
ASSUME ReadersAssumption == Instances # {} /\ Readers # {}
ASSUME DialectAssumption == Dialects \subseteq {"postgres", "mysql"}
ASSUME BoundAssumption  ==
  \A p \in Plans : /\ p.changes \in Nat /\ p.faults \in Nat
                   /\ p.names \subseteq Names /\ p.related \subseteq BOOLEAN

Sessions  == Instances \X (1 .. PoolSize)
NoSession == <<>>
NoLock    == [owner |-> NoSession, count |-> 0]

Gone  == [there |-> FALSE, cols |-> {}]
NoRow == [there |-> FALSE, cols |-> {}, name |-> NoName]

\* A row of table_definition with its rows of column_definition. A column that
\* is deleted and inserted again has the same name and another id.
Column == [name : Columns, id : 0 .. 2]
Row    == [there : BOOLEAN, cols : SUBSET Column, name : Names \cup {NoName}]
Table  == [there : BOOLEAN, cols : SUBSET Columns]

NamesOf(cols) == {k.name : k \in cols}

\* The statements a change still has to run on the physical tables.
NoWork == [create |-> FALSE, foreign |-> FALSE, rename |-> FALSE,
           drops |-> {}, adds |-> {}]
Work   == [create : BOOLEAN, foreign : BOOLEAN, rename : BOOLEAN,
           drops : SUBSET Columns, adds : SUBSET Columns]

\* The body of a request: keep are the columns sent with their ids, fresh those
\* without; related says that foreign keys of other tables are involved.
Request == [name : Names \cup {NoName}, op : {"create", "update", "delete"},
            keep : SUBSET Column, fresh : SUBSET Columns,
            related : BOOLEAN, single : BOOLEAN]

NoRequest == [name |-> NoName, op |-> "create", keep |-> {}, fresh |-> {},
              related |-> FALSE, single |-> FALSE]

Labels == {"idle", "acquire", "begin", "look", "check", "write", "migrate",
           "execute", "commit", "single", "compensate", "release"}

\* A change, from the request to the answer.
Call == [id : Ids \cup {NoId}, pc : Labels, inst : Instances \cup {"none"}, want : Request,
         session : Sessions \cup {NoSession},
         auto : BOOLEAN,       \* MySQL: DDL in the transaction has ended it
         pending : BOOLEAN,    \* the transaction has set rows[id] to row
         row : Row,
         drop : BOOLEAN,       \* PostgreSQL: it has dropped the table
         saw : BOOLEAN,        \* hasTable of createTableInternal
         old : Row, new : Row, \* oldMetadata, and the metadata after the write
         todo : Work,
         created : BOOLEAN,    \* schemaCreated
         blind : BOOLEAN,      \* a failed query was taken for "no such table"
         result : {"none", "ok", "error", "unsure"},
         agreed : BOOLEAN]     \* ghost: the table agreed with its row before

Idle == [id |-> NoId, pc |-> "idle", inst |-> "none",
         want |-> NoRequest, session |-> NoSession, auto |-> FALSE,
         pending |-> FALSE, row |-> NoRow, drop |-> FALSE, saw |-> FALSE,
         old |-> NoRow, new |-> NoRow, todo |-> NoWork, created |-> FALSE,
         blind |-> FALSE, result |-> "none", agreed |-> FALSE]

VARIABLES
  dialect,   \* the kind of database of this deployment; never changes
  rows,      \* committed metadata
  phys,      \* the physical tables, by name
  lock,      \* the session lock on every server of Readers
  call,      \* the changes in flight
  leaked,    \* sessions held by transactions that nothing will ever end
  plan,      \* one of Plans; never changes
  started,   \* calls started so far
  faults,    \* faults so far
  overlapped,\* ghost: two changes have run at once
  closed     \* ghost: the pool has closed the session that held the lock

vars == <<dialect, rows, phys, lock, call, leaked, plan, started,
          faults, overlapped, closed>>

-----------------------------------------------------------------------------
Postgres == dialect = "postgres"

\* The changes that hold the lock, or believe so.
Running == {c \in Calls : call[c].pc \notin {"idle", "acquire"}}

\* knex.transaction() keeps a session of the master's pool until it ends; every
\* other query borrows a free one and gives it back at once.
Busy         == leaked \cup {call[c].session : c \in Calls}
FreeOn(r, i) == {s \in Sessions : s[1] = i /\ (r = Master => s \notin Busy)}
Free(c)      == FreeOn(Master, call[c].inst)

\* The table a change is about: updates keep using the old name.
Target(c) == IF call[c].want.op = "create" THEN call[c].want.name
                                           ELSE call[c].old.name

\* The name that createTable() of the migration service uses.
NewName(c) == IF call[c].want.op = "create" THEN call[c].want.name
                                            ELSE call[c].new.name

Agree(row, tables) ==
  row.there /\ tables[row.name] = [there |-> TRUE, cols |-> NamesOf(row.cols)]

Named(n) == {j \in Ids : rows[j].there /\ rows[j].name = n}

\* Row locks and the unique name of table_definition: a write waits while
\* another transaction has written the row, or a row of that name.
RowLocked(c, j)  == \E d \in Calls \ {c} : call[d].pending /\ call[d].id = j
NameLocked(c, n) == \E d \in Calls \ {c} : call[d].pending /\ call[d].row.name = n

\* PostgreSQL: the table is locked until the transaction that drops it ends.
TableLocked(c, n) == \E d \in Calls \ {c} : call[d].drop /\ Target(d) = n

\* Column ids are never used twice: not by a row, nor in what a call has read.
Known == UNION ({rows[j].cols : j \in Ids} \cup
                {call[c].old.cols \cup call[c].new.cols \cup call[c].row.cols
                   \cup call[c].want.keep : c \in Calls})

Inserted(names) ==
  {[name |-> n, id |-> CHOOSE g \in 0 .. 2 : [name |-> n, id |-> g] \notin Known] :
     n \in names}

NewIds == {j \in Ids : ~rows[j].there /\ \A c \in Calls : call[c].id # j}

Fault == faults < plan.faults /\ faults' = faults + 1

Goto(c, label) == call' = [call EXCEPT ![c].pc = label]

\* The transaction is over: what it had not committed is forgotten and its
\* session goes back to the pool.
Ended(r) == [r EXCEPT !.session = NoSession, !.auto = FALSE, !.pending = FALSE,
                      !.row = NoRow, !.drop = FALSE, !.todo = NoWork]

\* An error reaches the catch block: roll back and, once createTable() of the
\* migration service has returned, drop the physical table again.
Fails(c, why) ==
  call' = [call EXCEPT ![c] =
    [Ended(@) EXCEPT !.pc = IF call[c].created THEN "compensate" ELSE "release",
                     !.result = why]]

metaVars == <<rows, phys>>
poolVars == <<lock, leaked, closed>>
bookVars == <<dialect, plan, started, overlapped>>

-----------------------------------------------------------------------------
(* A request arrives; runWithSchemaLock.                                    *)

Ask(c, i, want, j) ==
  /\ c \in plan.calls /\ call[c].pc = "idle" /\ started < plan.changes
  /\ c = CHOOSE d \in plan.calls : call[d].pc = "idle"
  /\ i \in plan.instances /\ want.single \in plan.single
  /\ started' = started + 1
  /\ call' = [call EXCEPT ![c] = [Idle EXCEPT !.pc = "acquire", !.inst = i,
                                              !.want = want, !.id = j]]
  /\ UNCHANGED <<metaVars, poolVars, dialect, plan, faults, overlapped>>

AskCreate(c) ==
  \E i \in Instances, n \in plan.names, f \in SUBSET plan.columns,
     r \in plan.related, s \in BOOLEAN :
    Ask(c, i, [name |-> n, op |-> "create", keep |-> {}, fresh |-> f,
               related |-> r, single |-> s], NoId)

AskUpdate(c) ==
  \E i \in Instances, j \in Ids, n \in plan.names, s \in BOOLEAN :
    /\ rows[j].there
    /\ \E keep \in SUBSET rows[j].cols :
       \E fresh \in SUBSET (plan.columns \ NamesOf(keep)) :
         Ask(c, i, [name |-> n, op |-> "update", keep |-> keep,
                    fresh |-> fresh, related |-> FALSE, single |-> s], j)

AskDelete(c) ==
  \E i \in Instances, j \in Ids, r \in plan.related :
    /\ rows[j].there
    /\ Ask(c, i, [name |-> NoName, op |-> "delete", keep |-> {}, fresh |-> {},
                  related |-> r, single |-> FALSE], j)

\* pg_try_advisory_lock and GET_LOCK belong to the session that happens to run
\* them, on the server it is connected to, and are granted again to it.
CanLock(r, s) == lock[r].owner \in {NoSession, s}

Locked(r, s) == [lock EXCEPT ![r] = [owner |-> s, count |-> @.count + 1]]

Acquire(c) ==
  /\ call[c].pc = "acquire"
  /\ \E r \in Readers, s \in Sessions :
       /\ s \in FreeOn(r, call[c].inst) /\ CanLock(r, s)
       /\ lock' = Locked(r, s)
  /\ Goto(c, "begin")
  /\ overlapped' = (overlapped \/ Running # {})
  /\ UNCHANGED <<metaVars, leaked, dialect, plan, started, faults, closed>>

\* The lock is taken, or no session comes free in time.
Refuse(c) ==
  /\ call[c].pc = "acquire"
  /\ \E r \in Readers :
       LET free == FreeOn(r, call[c].inst)
       IN  free = {} \/ \E s \in free : ~CanLock(r, s)
  /\ call' = [call EXCEPT ![c] = Idle]
  /\ UNCHANGED <<metaVars, poolVars, bookVars, faults>>

\* setLockRow throws: the lock stays with the session and nobody releases it.
RowFails(c) ==
  /\ Fault
  /\ call[c].pc = "acquire"
  /\ \E r \in Readers, s \in Sessions :
       /\ s \in FreeOn(r, call[c].inst) /\ CanLock(r, s)
       /\ lock' = Locked(r, s)
  /\ call' = [call EXCEPT ![c] = Idle]
  /\ UNCHANGED <<metaVars, leaked, bookVars, closed>>

\* Mutant: the unlock ends every grant of the session.
UnlockedAtOnce(r, s) ==
  IF lock[r].owner # s THEN lock ELSE [lock EXCEPT ![r] = NoLock]

\* The unlock runs on whatever session is free: another one than the owner's
\* gets a warning from the database and the lock stays.
Unlocked(r, s) ==
  IF lock[r].owner # s THEN lock
  ELSE [lock EXCEPT ![r] = IF @.count = 1 THEN NoLock
                           ELSE [owner |-> s, count |-> @.count - 1]]

Release(c) ==
  /\ call[c].pc = "release"
  /\ \E r \in Readers : \E s \in FreeOn(r, call[c].inst) : lock' = Unlocked(r, s)
  /\ call' = [call EXCEPT ![c] = Idle]
  /\ UNCHANGED <<metaVars, leaked, bookVars, faults, closed>>

\* No session, or a lost query: the error is logged and the lock stays.
Unreleased(c) ==
  /\ call[c].pc = "release"
  /\ IF \E r \in Readers : FreeOn(r, call[c].inst) = {}
     THEN UNCHANGED faults ELSE Fault
  /\ call' = [call EXCEPT ![c] = Idle]
  /\ UNCHANGED <<metaVars, poolVars, bookVars>>

-----------------------------------------------------------------------------
(* The transaction begins and the current state is read.                    *)

Begin(c) ==
  /\ call[c].pc = "begin"
  /\ \E s \in Free(c) :
       call' = [call EXCEPT ![c] =
         [@ EXCEPT !.session = s,
                   !.pc = IF call[c].want.op = "create" THEN "look" ELSE "check"]]
  /\ UNCHANGED <<metaVars, poolVars, bookVars, faults>>

Look(c) ==
  /\ call[c].pc = "look" /\ Free(c) # {}
  /\ call' = [call EXCEPT ![c].saw = phys[call[c].want.name].there, ![c].pc = "check"]
  /\ UNCHANGED <<metaVars, poolVars, bookVars, faults>>

Duplicate(c) ==
  /\ call[c].pc = "check" /\ call[c].want.op = "create"
  /\ Named(call[c].want.name) # {}
  /\ Fails(c, "error")
  /\ UNCHANGED <<metaVars, poolVars, bookVars, faults>>

NoMismatch(c) ==
  /\ call[c].pc = "check" /\ call[c].want.op = "create"
  /\ Named(call[c].want.name) = {} /\ ~call[c].saw
  /\ Goto(c, "write")
  /\ UNCHANGED <<metaVars, poolVars, bookVars, faults>>

\* Mutant: the stray table is logged and kept.
MismatchKept(c) ==
  /\ call[c].pc = "check" /\ call[c].want.op = "create"
  /\ Named(call[c].want.name) = {} /\ call[c].saw
  /\ Goto(c, "write")
  /\ UNCHANGED <<metaVars, poolVars, bookVars, faults>>

\* A physical table without metadata is dropped through the transaction: when
\* it commits on PostgreSQL, at once on MySQL, where DDL ends the transaction.
Mismatch(c) ==
  LET n == call[c].want.name IN
  /\ call[c].pc = "check" /\ call[c].want.op = "create"
  /\ Named(n) = {} /\ call[c].saw /\ ~TableLocked(c, n)
  /\ IF phys[n].there
     THEN /\ call' = [call EXCEPT ![c].pc = "write", ![c].drop = Postgres,
                                  ![c].auto = ~Postgres]
          /\ phys' = IF Postgres THEN phys ELSE [phys EXCEPT ![n] = Gone]
     ELSE /\ Goto(c, "write") /\ UNCHANGED phys
  /\ UNCHANGED <<rows, poolVars, bookVars, faults>>

\* dropTable: when the query for the table fails, there is no table to drop.
Unseen(c) ==
  /\ Fault
  /\ \/ /\ call[c].pc = "check" /\ call[c].want.op = "create"
        /\ Named(call[c].want.name) = {} /\ call[c].saw
        /\ call' = [call EXCEPT ![c].pc = "write", ![c].blind = TRUE]
     \/ /\ call[c].pc = "migrate" /\ call[c].want.op = "delete"
        /\ call' = [call EXCEPT ![c].pc = "commit", ![c].blind = TRUE]
  /\ UNCHANGED <<metaVars, poolVars, bookVars>>

\* exists, oldMetadata. A delete that drops foreign key columns of other tables
\* has ended its transaction on MySQL before it deletes the metadata.
Read(c) ==
  LET me == call[c] IN
  /\ me.pc = "check" /\ me.want.op # "create"
  /\ IF rows[me.id].there
     THEN call' = [call EXCEPT ![c].pc = "write", ![c].old = rows[me.id],
                               ![c].auto = me.want.related /\ ~Postgres,
                               ![c].agreed = Agree(rows[me.id], phys)]
     ELSE Fails(c, "error")
  /\ UNCHANGED <<metaVars, poolVars, bookVars, faults>>

-----------------------------------------------------------------------------
(* The metadata rows are written.                                           *)

\* PostgreSQL refuses every statement of a transaction after an error, and ends
\* it with a rollback that COMMIT does not report.
Aborted(c) == Postgres /\ call[c].blind

\* The rows once the transaction has committed.
Written(c) ==
  IF call[c].pending /\ ~Aborted(c) THEN [rows EXCEPT ![call[c].id] = call[c].row] ELSE rows

\* Mutant: the rows are written outside the transaction.
PutOutside(c, j, row, new) ==
  /\ rows' = [rows EXCEPT ![j] = row]
  /\ call' = [call EXCEPT ![c].pc = "migrate", ![c].id = j, ![c].new = new]

\* rows[j] := row, in the transaction if there still is one.
Put(c, j, row, new) ==
  /\ rows' = IF call[c].auto THEN [rows EXCEPT ![j] = row] ELSE rows
  /\ call' = [call EXCEPT ![c] =
                [@ EXCEPT !.pc = "migrate", !.id = j, !.new = new,
                          !.row = IF call[c].auto THEN NoRow ELSE row,
                          !.pending = ~call[c].auto]]

WriteCreate(c) ==
  LET n == call[c].want.name IN
  /\ call[c].pc = "write" /\ call[c].want.op = "create" /\ ~NameLocked(c, n)
  /\ IF Named(n) # {} \/ Aborted(c)
     THEN Fails(c, "error") /\ UNCHANGED rows
     ELSE LET j   == CHOOSE j \in NewIds : TRUE
              row == [there |-> TRUE, cols |-> Inserted(call[c].want.fresh), name |-> n]
          IN  NewIds # {} /\ Put(c, j, row, row)
  /\ UNCHANGED <<phys, poolVars, bookVars, faults>>

\* The columns of the table that the body does not list by id are deleted, the
\* fresh ones inserted. The rows are read as committed by now on PostgreSQL, as
\* they were at the first read of the transaction on MySQL.
WriteUpdate(c) ==
  LET me   == call[c]
      seen == IF Postgres THEN rows[me.id].cols ELSE me.old.cols
      left == rows[me.id].cols \ (seen \ me.want.keep)
      cols == Inserted(me.want.fresh)
      row  == [there |-> TRUE, cols |-> left \cup cols, name |-> me.want.name]
      new  == IF Postgres THEN row
              ELSE [row EXCEPT !.cols = (seen \cap me.want.keep) \cup cols]
  IN
  /\ me.pc = "write" /\ me.want.op = "update"
  /\ ~RowLocked(c, me.id) /\ ~NameLocked(c, me.want.name)
  /\ IF \/ ~rows[me.id].there
        \/ Named(me.want.name) \ {me.id} # {}
        \/ NamesOf(left) \cap me.want.fresh # {}
     THEN Fails(c, "error") /\ UNCHANGED rows
     ELSE Put(c, me.id, row, new)
  /\ UNCHANGED <<phys, poolVars, bookVars, faults>>

WriteDelete(c) ==
  /\ call[c].pc = "write" /\ call[c].want.op = "delete"
  /\ ~RowLocked(c, call[c].id)
  /\ Put(c, call[c].id, NoRow, NoRow)
  /\ UNCHANGED <<phys, poolVars, bookVars, faults>>

\* Outside a transaction the rows of a table are inserted one by one, and a
\* failure leaves those before it.
WriteTorn(c) ==
  LET n == call[c].want.name IN
  /\ Fault /\ call[c].pc = "write" /\ call[c].want.op = "create" /\ call[c].auto
  /\ Named(n) = {} /\ NewIds # {} /\ ~NameLocked(c, n)
  /\ \E part \in SUBSET Inserted(call[c].want.fresh) :
       rows' = [rows EXCEPT ![CHOOSE j \in NewIds : TRUE] =
                  [there |-> TRUE, cols |-> part, name |-> n]]
  /\ Fails(c, "error")
  /\ UNCHANGED <<phys, poolVars, bookVars>>

-----------------------------------------------------------------------------
(* The physical tables follow, on other sessions than the transaction's.    *)

\* What there is to do, and createTable() of the migration service has returned
\* when it is nothing.
Plan(c, todo) ==
  call' = [call EXCEPT ![c].todo = todo,
                       ![c].pc = IF todo = NoWork THEN "commit" ELSE "execute",
                       ![c].created = @ \/ (call[c].want.op = "create" /\ todo = NoWork)]

\* "Table already exists, skipping creation"
CreateWork(c) ==
  IF phys[NewName(c)].there THEN NoWork
  ELSE [NoWork EXCEPT !.create = TRUE, !.foreign = call[c].want.related]

\* analyzeColumnChanges: a column is dropped for its id and created for its name.
DiffWork(old, new) ==
  [NoWork EXCEPT !.rename = old.name # new.name,
                 !.drops  = NamesOf(old.cols \ new.cols),
                 !.adds   = NamesOf(new.cols \ old.cols) \ NamesOf(old.cols)]

MigrateCreate(c) ==
  /\ call[c].pc = "migrate" /\ call[c].want.op = "create" /\ Free(c) # {}
  /\ Plan(c, CreateWork(c))
  /\ UNCHANGED <<metaVars, poolVars, bookVars, faults>>

MigrateUpdate(c) ==
  /\ call[c].pc = "migrate" /\ call[c].want.op = "update" /\ Free(c) # {}
  /\ Plan(c, IF phys[call[c].old.name].there
             THEN DiffWork(call[c].old, call[c].new) ELSE CreateWork(c))
  /\ UNCHANGED <<metaVars, poolVars, bookVars, faults>>

\* dropTable(..., trx): on MySQL the statement commits the rows first.
MigrateDelete(c) ==
  LET n == call[c].old.name IN
  /\ call[c].pc = "migrate" /\ call[c].want.op = "delete" /\ ~TableLocked(c, n)
  /\ IF phys[n].there /\ ~Postgres
     THEN /\ rows' = Written(c) /\ phys' = [phys EXCEPT ![n] = Gone]
          /\ call' = [call EXCEPT ![c].pc = "commit", ![c].auto = TRUE,
                                  ![c].pending = FALSE, ![c].row = NoRow]
     ELSE /\ call' = [call EXCEPT ![c].pc = "commit", ![c].drop = phys[n].there]
          /\ UNCHANGED metaVars
  /\ UNCHANGED <<poolVars, bookVars, faults>>

\* ... and keeps them committed when the statement itself fails.
DropFails(c) ==
  /\ Fault
  /\ call[c].pc = "migrate" /\ call[c].want.op = "delete" /\ ~Postgres
  /\ phys[call[c].old.name].there
  /\ rows' = Written(c)
  /\ Fails(c, "error")
  /\ UNCHANGED <<phys, poolVars, bookVars>>

\* The statements of createTable(), one by one.
ExecuteCreate(c) ==
  LET n == NewName(c)  w == call[c].todo IN
  /\ call[c].pc = "execute" /\ Free(c) # {}
  /\ \/ /\ w.create
        /\ IF phys[n].there
           THEN Fails(c, "error") /\ UNCHANGED phys
           ELSE /\ phys' = [phys EXCEPT ![n] =
                              [there |-> TRUE, cols |-> NamesOf(call[c].new.cols)]]
                /\ Plan(c, [w EXCEPT !.create = FALSE])
     \/ /\ w.foreign /\ ~w.create /\ ~TableLocked(c, n)
        /\ IF phys[n].there THEN Plan(c, NoWork) ELSE Fails(c, "error")
        /\ UNCHANGED phys
  /\ UNCHANGED <<rows, poolVars, bookVars, faults>>

Diffing(c) ==
  /\ call[c].pc = "execute" /\ Free(c) # {}
  /\ ~call[c].todo.create /\ ~call[c].todo.foreign
  /\ ~TableLocked(c, call[c].old.name)

Renamed(c) == [phys EXCEPT ![call[c].new.name] = phys[call[c].old.name],
                           ![call[c].old.name] = Gone]

CanRename(c) == phys[call[c].old.name].there /\ ~phys[call[c].new.name].there

\* executeBatchSQL on PostgreSQL: one transaction of its own. The statements
\* after a rename still name the old table.
ExecuteBatch(c) ==
  LET n == call[c].old.name  w == call[c].todo IN
  /\ Postgres /\ Diffing(c)
  /\ IF /\ phys[n].there
        /\ w.rename => CanRename(c) /\ w.drops = {} /\ w.adds = {}
        /\ w.drops \subseteq phys[n].cols /\ w.adds \cap phys[n].cols = {}
     THEN /\ phys' = IF w.rename THEN Renamed(c)
                     ELSE [phys EXCEPT ![n].cols = (@ \ w.drops) \cup w.adds]
          /\ Plan(c, NoWork)
     ELSE Fails(c, "error") /\ UNCHANGED phys
  /\ UNCHANGED <<rows, poolVars, bookVars, faults>>

\* ... and on MySQL: one by one, and what has been done stays when one fails.
ExecuteOne(c) ==
  LET n == call[c].old.name  w == call[c].todo IN
  /\ ~Postgres /\ Diffing(c)
  /\ \/ /\ w.rename
        /\ IF CanRename(c)
           THEN phys' = Renamed(c) /\ Plan(c, [w EXCEPT !.rename = FALSE])
           ELSE Fails(c, "error") /\ UNCHANGED phys
     \/ \E k \in w.drops :
        /\ ~w.rename
        /\ IF k \in phys[n].cols
           THEN /\ phys' = [phys EXCEPT ![n].cols = @ \ {k}]
                /\ Plan(c, [w EXCEPT !.drops = @ \ {k}])
           ELSE Fails(c, "error") /\ UNCHANGED phys
     \/ \E k \in w.adds :
        /\ ~w.rename /\ w.drops = {}
        /\ IF phys[n].there /\ k \notin phys[n].cols
           THEN /\ phys' = [phys EXCEPT ![n].cols = @ \cup {k}]
                /\ Plan(c, [w EXCEPT !.adds = @ \ {k}])
           ELSE Fails(c, "error") /\ UNCHANGED phys
  /\ UNCHANGED <<rows, poolVars, bookVars, faults>>

-----------------------------------------------------------------------------
(* The transaction commits; what follows it, and what an error undoes.      *)

Committed(c) ==
  /\ rows' = Written(c)
  /\ phys' = IF call[c].drop THEN [phys EXCEPT ![Target(c)] = Gone] ELSE phys

Commit(c) ==
  /\ call[c].pc = "commit"
  /\ Committed(c)
  /\ call' = [call EXCEPT ![c] =
       [Ended(@) EXCEPT !.pc = IF call[c].want.single THEN "single" ELSE "release",
                        !.result = IF call[c].want.single THEN "none" ELSE "ok"]]
  /\ UNCHANGED <<poolVars, bookVars, faults>>

\* The answer of COMMIT is lost, with or without its effect.
CommitFails(c) ==
  /\ Fault
  /\ call[c].pc = "commit"
  /\ Committed(c) \/ UNCHANGED metaVars
  /\ Fails(c, "unsure")
  /\ UNCHANGED <<poolVars, bookVars>>

Answer(c, result) == call' = [call EXCEPT ![c].pc = "release", ![c].result = result]

\* createTable: the default record of a single-record table.
SingleCreate(c) ==
  /\ call[c].pc = "single" /\ call[c].want.op = "create" /\ Free(c) # {}
  /\ IF phys[call[c].want.name].there THEN Answer(c, "ok") ELSE Fails(c, "error")
  /\ UNCHANGED <<metaVars, poolVars, bookVars, faults>>

\* updateTable counts the records of the table under its old name. For an empty
\* one the columns are read through a transaction that is never ended.
SingleUpdate(c) ==
  /\ call[c].pc = "single" /\ call[c].want.op = "update" /\ Free(c) # {}
  /\ \/ /\ phys[call[c].old.name].there
        /\ Answer(c, "ok") /\ UNCHANGED leaked
     \/ /\ ~phys[call[c].old.name].there
        /\ Fails(c, "error") /\ UNCHANGED leaked
     \/ /\ phys[call[c].old.name].there
        /\ \E s \in Free(c) : leaked' = leaked \cup {s}
        /\ Answer(c, IF Cardinality(Free(c)) > 1 THEN "ok" ELSE "error")
  /\ UNCHANGED <<metaVars, lock, bookVars, faults, closed>>

\* dropTable in the catch block of createTableInternal.
Compensate(c) ==
  /\ call[c].pc = "compensate" /\ Free(c) # {} /\ ~TableLocked(c, call[c].want.name)
  /\ phys' = [phys EXCEPT ![call[c].want.name] = Gone]
  /\ Goto(c, "release")
  /\ UNCHANGED <<rows, poolVars, bookVars, faults>>

Uncompensated(c) ==
  /\ call[c].pc = "compensate"
  /\ IF Free(c) = {} THEN UNCHANGED faults ELSE Fault
  /\ Goto(c, "release")
  /\ UNCHANGED <<metaVars, poolVars, bookVars>>

\* Mutant: the migration waits for a session as long as it takes.
StarveNever(c) ==
  /\ Free(c) = {} /\ call[c].pc \in {"begin", "look", "single"}
  /\ Fails(c, "error")
  /\ UNCHANGED <<metaVars, poolVars, bookVars, faults>>

\* No session comes free within acquireConnectionTimeout.
Starve(c) ==
  /\ Free(c) = {}
  /\ \/ call[c].pc \in {"begin", "look", "execute", "single"}
     \/ call[c].pc = "migrate" /\ call[c].want.op # "delete"
  /\ Fails(c, "error")
  /\ UNCHANGED <<metaVars, poolVars, bookVars, faults>>

QueryFails(c) ==
  /\ Fault
  /\ call[c].pc \in {"begin", "look", "check", "write", "migrate", "execute", "single"}
  /\ Fails(c, "error")
  /\ UNCHANGED <<metaVars, poolVars, bookVars>>

-----------------------------------------------------------------------------
(* The pool and the processes.                                              *)

\* The pool closes idle sessions above its minimum; their locks go with them.
Close(r, s) ==
  /\ Fault
  /\ s \in FreeOn(r, s[1]) /\ s[2] > PoolMin /\ lock[r].owner = s
  /\ lock' = [lock EXCEPT ![r] = NoLock]
  /\ closed' = TRUE
  /\ UNCHANGED <<metaVars, call, leaked, bookVars>>

Crash(i) ==
  /\ Fault
  /\ \E c \in Calls : call[c].pc # "idle" /\ call[c].inst = i
  /\ call' = [c \in Calls |-> IF call[c].inst = i THEN Idle ELSE call[c]]
  /\ lock' = [r \in Readers |->
                IF lock[r].owner \in {s \in Sessions : s[1] = i} THEN NoLock ELSE lock[r]]
  /\ leaked' = {s \in leaked : s[1] # i}
  /\ UNCHANGED <<metaVars, bookVars, closed>>

-----------------------------------------------------------------------------
Init ==
  /\ dialect \in Dialects /\ plan \in Plans
  /\ rows = [j \in Ids |-> NoRow]
  /\ phys = [n \in Names |-> Gone]
  /\ lock = [r \in Readers |-> NoLock]
  /\ call = [c \in Calls |-> Idle]
  /\ leaked = {} /\ started = 0 /\ faults = 0
  /\ overlapped = FALSE /\ closed = FALSE

Advance(c) ==
  \/ Acquire(c) \/ Refuse(c) \/ Begin(c) \/ Look(c)
  \/ Duplicate(c) \/ NoMismatch(c) \/ Mismatch(c) \/ Read(c)
  \/ WriteCreate(c) \/ WriteUpdate(c) \/ WriteDelete(c)
  \/ MigrateCreate(c) \/ MigrateUpdate(c) \/ MigrateDelete(c)
  \/ ExecuteCreate(c) \/ ExecuteBatch(c) \/ ExecuteOne(c)
  \/ Commit(c) \/ SingleCreate(c) \/ SingleUpdate(c)
  \/ Compensate(c) \/ Uncompensated(c) \/ Starve(c) \/ Release(c) \/ Unreleased(c)

Breakdown(c) ==
  \/ RowFails(c) \/ QueryFails(c) \/ Unseen(c) \/ WriteTorn(c) \/ DropFails(c) \/ CommitFails(c)

Next ==
  \/ \E c \in Calls : AskCreate(c) \/ AskUpdate(c) \/ AskDelete(c)
  \/ \E c \in Calls : Advance(c) \/ Breakdown(c)
  \/ \E r \in Readers, s \in Sessions : Close(r, s)
  \/ \E i \in Instances : Crash(i)

Spec == Init /\ [][Next]_vars

\* Every await of a change comes back, if only by a timeout: as long as a change
\* can go on, one does. Changes are finite, so all of them get to their end.
FairSpec == Spec /\ WF_vars(\E c \in Calls : Advance(c))

-----------------------------------------------------------------------------
TypeOK ==
  /\ dialect \in Dialects
  /\ rows \in [Ids -> Row]
  /\ phys \in [Names -> Table]
  /\ lock \in [Readers -> [owner : Sessions \cup {NoSession}, count : Nat]]
  /\ call \in [Calls -> Call]
  /\ leaked \subseteq Sessions
  /\ plan \in Plans /\ started \in 0 .. plan.changes /\ faults \in 0 .. plan.faults
  /\ overlapped \in BOOLEAN /\ closed \in BOOLEAN

\* The body lists the columns that the table has with their ids, or not at all.
\* Without its id a column is taken for a new one: its row is written again, but
\* the statements drop it and, its name being known, do not add it.
Identified(me) == me.want.fresh \cap NamesOf(me.old.cols) = {}

\* A change that answers with success has made the physical table what the
\* metadata say, whatever earlier changes and faults have left behind: unless
\* changes have overlapped, an update began on a table that already differed or
\* listed one of its columns without the id, the table to drop was not seen, or
\* PostgreSQL dropped a table without metadata under the new one.
DoneMeansDone ==
  \A c \in Calls :
    LET me == call[c] IN
    me.pc = "release" /\ me.result = "ok" /\ ~overlapped /\ ~me.blind =>
      CASE me.want.op = "create" -> (Postgres /\ me.saw) \/ Agree(rows[me.id], phys)
        [] me.want.op = "update" -> me.agreed /\ Identified(me) => Agree(rows[me.id], phys)
        [] me.want.op = "delete" -> ~rows[me.id].there /\ ~phys[me.old.name].there

\* On PostgreSQL an update or a delete that fails leaves metadata and table in
\* agreement if they were, unless the answer of its COMMIT was lost or the body
\* listed a column of the table without its id.
FailureKeepsAgreement ==
  \A c \in Calls :
    LET me == call[c] IN
    me.pc = "release" /\ me.result = "error" /\ me.want.op # "create" /\ me.agreed
      /\ Identified(me) /\ Postgres /\ ~overlapped => Agree(rows[me.id], phys)

OneReader == \A r, q \in Readers : r = q

\* With one server to lock on and no session closed under a change, changes of
\* two instances never run at once, although the lock is taken and released on
\* sessions that have nothing to do with each other.
OneInstance ==
  OneReader /\ ~closed =>
    \A c, d \in Running : call[c].inst = call[d].inst

\* Every request is answered.
EveryChangeEnds == \A c \in Calls : call[c].pc # "idle" ~> call[c].pc = "idle"
=============================================================================
