# Enfyra server: verification

TLA+ models of the Enfyra server (`src/`), the TLC runs that check them and the
proofs TLAPS checks. Paths below are relative to `src/src/` unless they start
with `/`.

The server is a NestJS application that turns tables described by metadata into
REST, GraphQL and WebSocket APIs. Several instances share one database (MySQL,
PostgreSQL or MongoDB) and one Redis. Users write hooks and handlers in
JavaScript; these run in child processes.

## 1. Inventory

| Component | State it keeps | Operations | Talks to | Module |
|---|---|---|---|---|
| Cluster caches (`infrastructure/cache`) | one copy per instance of routes, metadata, packages, gateways, storage, AI and OAuth settings; a reload lock in Redis | `reload`, `getMetadata`, `publish`, sync handlers, boot, INVALIDATE | database, Redis, GraphQL and OpenAPI rebuilds | `CacheSync` |
| Script executor (`infrastructure/handler-executor`) | pool of child processes, listeners, timers, pending promises | `run`, `setupChildProcessListeners`, `setupTimeout`, the pool; `runner.ts` in the child | request pipeline, repositories | `HandlerExecutor` |
| Request pipeline (`shared/interceptors`, `modules/dynamic-api`) | context of a request, its data and status | pre-hooks, handler, post-hooks, error mode, merge of what scripts changed, answer | executor, client | `RequestContext` |
| Schema change on SQL (`modules/table-management`, `infrastructure/knex`) | metadata rows, physical tables, session lock, transactions | create, update, delete a table; acquire and release; diff, batch, compensate | sessions of the pool, replicas | `SchemaChange` |
| Schema change on MongoDB | metadata rows, documents, validators, a lease of five minutes | create, update, delete; renames of fields in the background | MongoDB, metadata cache | `MongoSchema` |
| Boot and provision (`core/bootstrap`, `/scripts`, `/data`) | `isInit`, physical schema, metadata, default records | database script, migrations, default records | everything | `DatabaseInit`, `Boot` |
| Record writes (`infrastructure/knex`, `infrastructure/mongo`) | rows, the map of cascade contexts, the connection in use | insert, update, delete with hooks and cascades | database | `RecordWrites` |
| Repositories (`modules/dynamic-api/repositories`) | none | create, update, delete with checks, protection of system records, read-back, INVALIDATE | writes, caches | `Records` |
| AI agent, one turn (`modules/ai-agent/services/llm.service.ts`) | messages, calls and results of a turn | rounds of model and tools | provider, tools | `Turn`, `AgentTurn` |
| AI agent, tools | permissions asked for, results | workflows that create, update and delete tables; batches of records | table management, repositories | `AgentTables` |
| AI agent, conversations | messages, summary, count; registry of streams per server | question, history, summary, answer, cancellation | database, Redis, client | `AgentChat` |
| Files and storage (`modules/file-management`) | rows, objects on disk and in clouds, backups | upload, replace, edit, delete, stream | storage, client | `Files` |
| Sessions, OAuth (`core/auth`) | users, accounts, sessions; tokens outside | login, callback, refresh, logout, cleanup | database, providers, Redis lock | `Sessions` |
| Replication manager | health and position in the list of replicas | choose a reader | database | a choice in `SchemaChange` |
| Query engine, route lookup, rate limiter, WebSocket, packages, code transformer, GraphQL, OpenAPI, admin, guards | see section 7 | | | none |

What is hard in it, and what makes each component correct:

- *Caches.* A lock with a TTL and an instance id in it, at-most-once messages
  without versions, several queries per load without a transaction, crashes.
  Correct: nobody frees a foreign lock, and at rest all caches hold the database's
  rows unless something that can be named was lost.
- *Executor.* A run ends by the first of four events; messages carry no run;
  scripts may leave work behind, never return, or die. Correct: a run has its
  child to itself and is settled.
- *Requests.* Scripts work on copies that come back whenever their run is done,
  also late. Correct: hooks see the outcome they run for, edits arrive, nothing
  goes on after the answer.
- *Schema change.* Two resources, at most one of them under a transaction, a lock
  tied to a pooled session (SQL) or to a lease (MongoDB), DDL that ends transactions
  on MySQL, fields renamed after the answer. Correct: success means that both
  agree, changes exclude one another, values follow their columns, each is answered.
- *Boot.* A long script without a lock, killed between any two statements, and
  started on two servers together. Correct: it converges to the same schema, loses
  no data, and writes every default record once.
- *Record writes.* Context shared by concurrent writes of a table, connection
  swapped for every write, other sides kept by hand on MongoDB. Correct: a write's
  relations go to its own record, nothing else is touched, nobody waits for ever,
  records of the system stay.
- *Agent.* A model that may call anything, tools that fail, workflows that look
  before they lock, answers stored by two callbacks. Correct: calls are answered
  and run once, updates of tables merge, reports are true, no message is lost.
- *Files.* Row and content change in turn, with undo by hand. Correct: a row
  describes its content, nothing is left over.
- *Sessions.* Refresh races cleanup and logout, callbacks race each other.
  Correct: a valid token has its session, a logout is final, a person is one user,
  the cleanup ends.

## 2. Modules

| Module | Models | Extended by |
|---|---|---|
| `CacheSync` | one cache on all instances, its lock, messages and rebuilds | `MCCacheSync`, `CacheSyncProofs` |
| `HandlerExecutor` | runs, pool, child processes, channels | `MCHandlerExecutor`, `ProcessProofs` |
| `RequestContext` | one request with its hooks, handler and scripts | `MCRequestContext`, `RequestProofs` |
| `SchemaChange` | changes of tables on all instances (SQL) | `MCSchemaChange`, `SchemaChangeProofs` |
| `DatabaseInit` | the database script before a server starts | `Boot` |
| `Boot` | the script, then provision, on all servers | `MCBoot`, `ProcessProofs` |
| `RecordWrites` | statements of one write and of everything it cascades to | `Records` |
| `Records` | requests for records around those writes | `MCRecords` |
| `Loops` | loops over a sequence that collect another | `AgentTurn`, `AgentChat` |
| `Turn` | what a turn of the agent promises about tools (abstract) | instantiated by `AgentTurn` |
| `AgentTurn` | the loop of rounds of `llm.service.ts` | `MCAgentTurn`, `AgentProofs` |
| `AgentTables` | workflows of the agent on tables and records | `MCAgentTables`, `RequestProofs` |
| `AgentChat` | requests for one conversation on all servers | `MCAgentChat`, `AgentProofs` |
| `MongoSchema` | changes of a collection on all servers | `MCMongoSchema`, `MongoSchemaProofs` |
| `Files` | requests on files | `MCFiles`, `FilesProofs` |
| `Sessions` | logins, callbacks, refreshes, logouts, cleanup | `MCSessions`, `SessionsProofs` |

Composition: `Boot` extends `DatabaseInit` (a server provisions the database its
own script has prepared), `Records` extends `RecordWrites` (a request is checks, a
write, a read-back, an announcement; the announcement is what `CacheSync` calls
`owed`), and `AgentTurn` implements `Turn` under the mapping at its end.

Definitions named "Mutant", or commented as one, are deliberate bugs. No
specification uses them; each shows that a property would notice it.
PROJECT.json's `map` gives the lines of every other definition.

### CacheSync

`BaseCacheService` and `MetadataCacheService` differ in the order of their steps
(assign, then publish, or the reverse), so `kind` selects one initially. A call is
a program counter over acquire, load, assign, publish, announce, release; a load
reads its source tables one query at a time. The database is a version per source
table and a cache value the vector of versions read, so that a torn load is
visible. `inbox` is an instance's subscription. `Lapse` is the TTL or
`CacheService.clearAll`. `losses` records what happened that can leave a cache
stale; `StaleOnlyByLoss` says that this account is complete. A lock that lapses
under a reload is not among them: it can only make one of them happen. The first
table of the routes is the list of methods, which the route cache reads only while
it has none (`ReadOnce`): a later change of it reaches nobody before a restart, and
`Agreed` leaves it out.

From the routes two documents are built. `BuildSchema` may be refused (no metadata,
or a definition GraphQL does not accept). `Document` takes the routes, and until the
methods are there waits for their query (`drafts`), so that two may end in the wrong
order. `refused` and `late` name the instances where that is so;
`DependentsFollow` says that nothing else keeps the two behind.

### HandlerExecutor

`Acquire`, `Start`, `StartOnDead`, `StartFails` are `run()` (the last its catch
block); `Timeout` is the timer; `OnCall`, `OnThrow`, `OnDone`, `OnError`, `OnExit`
the handlers; `Fork`, `DropInvalid`, `Evict` the pool; `Call`, `Throw`, `Return`,
`Uncaught`, `Crash`, `Exit` the child. Handlers are sets, because after a run has
left through the catch block two runs may listen to one child. `leaked` marks
that case, which the safety properties exempt.

### RequestContext

`Begin`, `Resolved`, `Rejected`, `HooksOver` follow `DynamicInterceptor.intercept`
with its success path and error mode. Every script is a run with its own copy of
the context (two fields of `$body` and `$query`, `$data`, `$statusCode`, `$res`);
`Merge` is `smartMergeContext`. The settlement of a run is abstracted from
HandlerExecutor: `$throw` rejects at once while the script goes on, and a script
may come back later. Two things are taken from libraries: Nest's answer after
headers have been sent does nothing, and `$cache` and `$socket` become texts like
`$res` (not in the model, see the hazards).

### SchemaChange

One record per change in flight (`call`), a program counter over acquire, begin,
look, check, write, migrate, execute, commit, single, compensate, release. `rows`
is the committed metadata; a change's own row stays in its record until `Commit`
and is visible to no other. `phys` is changed at once, by other sessions. The dialect
is chosen initially:

- on MySQL, DDL in the transaction commits it (`auto`), so a mismatch dropped
  while creating, or foreign keys dropped while deleting, leave the rest of the
  call without a transaction (`WriteTorn`, `DropFails`), and the statements of a
  diff run one by one (`ExecuteOne`);
- on PostgreSQL a drop takes effect at commit and locks the table until then, a
  batch is a transaction of its own (`ExecuteBatch`), and an error that was
  swallowed turns COMMIT into a rollback (`Aborted`).

The lock is a record per server that raw SELECTs may go to: owner session and
count. `knex.raw` borrows any free session for one query, so `Acquire`, `Release`
and their failures choose it anew. `Close` is the pool closing an idle session,
`leaked` the transaction that updating a table to single-record opens and never
ends. Columns of tables are only those that bodies may list; attribute changes,
relations beyond "foreign keys are involved", junction tables and routes are
abstracted.

### DatabaseInit, Boot

The script (`/scripts/init-db*.ts`) is a list of items computed from the snapshot and
the migrations (`Syncs`), each a look and a few statements. A process remembers how
far it is; the process manager starts it again from the beginning after a kill or a
failed query (`Restart`). `history` tells what happened to the data: scripts raced,
one stopped inside the move to a junction table, an enum column went with its type,
default records were shared, a failed query was passed over (`Swallow`: foreign keys,
indexes and uniques, and the migrations on MongoDB are in a `try` of their own). What
the rows say of a change is a set of the table: `misfit` are columns whose type or
nullability the script has to change, `unfit` the columns, relations and enum whose
change the rows make the database refuse (`AddColumns`, `EnumType`, `ChangeColumn`,
`AddKeyColumn`, `AddKey`, `AddNewKey`; `AddForeignKey` takes the refusal for a key
that exists), `stale` relations whose action on delete has changed. Type and
nullability of a column are one step: a process that dies between the two leaves a
column that still differs. `Boot` goes on with provision: metadata (one transaction on
SQL, row by row on MongoDB), the physical synchronisation, default records with their
links, `isInit`, migrations of metadata and data.

What the properties excuse, because the code does it: an enum column whose type is
dropped goes with it; a script that dies while another runs may leave its work
half done; two servers that initialise together write records twice (nothing
excludes them); a key or unique constraint whose query failed, or which the rows
violate, stays away without a word (`foreign-keys.ts:68`). A server may never come up
(`Doomed`): rows that do not fit a narrower enum, a changed column type, a new NOT
NULL or a key to be made let every start end in `process.exit(1)`, on MySQL as on
PostgreSQL; two servers that start together may drop each other's enum types
(PostgreSQL), or the keys whose action on delete both change, over and over. Also
seen: migrations rename the metadata
of a relation whose physical column has followed the snapshot already, so that the
two differ (`metadata-migration.service.ts:351`); child menus written before their parent
stay without it (`menu-definition.processor.ts:216`); on MongoDB default routes
never get `publishedMethods`; `syncTable` drops indexes that `CREATE TABLE` and
the foreign keys have made; on-delete changes alone are never applied.

### RecordWrites, Records

The database is a set of facts (row, column or relation). `trx` is the transaction
in use, with what it has added and deleted and the rows it has locked. A process has
a stack of frames, one per nested write. `knexInstance` of the entity manager and
`cascadeContextMap` (per table) are variables of the server, as in the code, so
that two writes can meet in them. `Stored` differs on MongoDB, where both sides of
a relation are kept, by separate writes.

Deletions, and everything that is read, use the connection that the service has at
the moment (`Current`): as a rule the pool, also within the callback of a transaction
(`conversation.service.ts:258`), but the transaction of another request while its
write has put that in place. A keeper lists the messages once (`ListRows`) and is
rolled back when one of them has vanished (`Sweep`).

`WrittenAsSent` excuses requests that met another write (`cascadeContextMap` mixes
their relations, `knex.service.ts:209`) and, on MongoDB, records whose two sides
disagreed before; and what the code ignores (`Ignored`): on SQL null or a scalar for a
relation that the record's own row does not hold (`cascade-handler.ts:126`), on
MongoDB a scalar. `WritesEnd` excuses a write that borrowed another's connection. The
flag of the system is a fact of its row. `SystemKept` excuses requests whose `fields`
hide the flag: protection looks at the record as read with the client's own `fields`,
the check that system items stay in a relation bites only if their flags are asked
for, and nested records on MongoDB are written without any check. It also excuses that
an update takes the flag away where no rule of the table forbids it
(`system-protection.service.ts:168`: users, roles and others are not named), after
which the record may be deleted. "fixed" stands for all fields a table with a rule
(`Guarded`) refuses to change. Left out: an update that sets a flag; relations whose
action on delete is CASCADE or RESTRICT (all are taken to be SET NULL). Also seen:
with replicas, a wrapped update or delete loses its where clause
(`knex.service.ts:471`; `Replicas` is FALSE in the run); scalar ids in a one-to-many
relation insert empty children on SQL; scalar ids of MongoDB's many-to-one relations
are stored as texts; the single-record check races its insert; a failing read-back
skips the announcement. `hooks/hook-registry.ts` and `query-wrapper.ts` are used by
nobody.

### Turn, AgentTurn

`messages` is what the provider is sent, `shown` what the client sees of each call,
`cached` the calls that returned. A round asks the model (`Answers`, whole or in
parts, possibly broken off), collects calls, and works through their queue: refused,
repeated, too late, run. `shown` holds what was announced to the client from the
chunks (`llm.service.ts:121-137`) as well as what was taken: a call that is announced
and then dropped, aborted or broken off is never told the end of, and stays pending at
the client; `CallsSettled` is about the calls that were taken. `Turn` is the promise:
one tool at a time, never again a call that returned, none after an abort or the end.
Excused: calls parsed from text and ids that a provider gives to several calls. TLC
shows why: a call that is refused gets a ToolMessage although it is in no message of
the model (`llm.service.ts:437`), so with its id given again one call has two results,
or its result stands before it. Also seen: when all calls of a round are refused the
turn ends, although the model was told to choose another tool (`llm.service.ts:424`);
a read made before is answered from the cache after a write; of an interrupted stream
only the last chunk's call is taken.

### AgentTables

Both workflows (`table-creation-workflow.ts`, `table-update-workflow.ts`) node by
node, the change itself, retries, and the records tools' chunks. `granted`
are the permissions asked for, `promised` what was made and not taken back.
The lock is not relied on: the two queries that take it may run on one pooled
session of an instance (`schema-migration-lock.service.ts:35`), so `TakeLock` may let
any number of changes in, and `Change` reads what its transaction saw when it began
(`view`, as on MySQL) or what is there by then. `ids` are the rows of columns and
relations: rows that are seen and not named by an id are deleted, what is sent without
an id is inserted, also where a row of that name was just deleted
(`sql-table-handler.service.ts:554-599`). The schema change then drops the column with
the old row and makes none for the new one, whose name was known
(`sql-schema-migration.service.ts:628-671`); such a column is `lost`, and the tool
reports success.
`UpdatesKeep` excuses tables that two updates crossed: the update reads, merges, then
replaces by row ids, so that an addition made in between is deleted, and one that both
made loses its column, although the tool says "Merged by name." A retry after a lost
answer crosses its own change in the same way. `HonestReport` excuses lost answers: a
creation that was made is reported as failed by its retry. A creation goes on after a
detected conflict of foreign keys. A busy schema is not retried, as its message does
not match the pattern. Items have the shape that the tools' schema asks for
(`TableItems`); the tables there are at first are sound and leave the automatic
columns to the code (`StoredAssumption`).

### AgentChat

Requests for one conversation (`thread` is its messages), each with two tasks at a
`stage`: the handler, and `onClose` of its response. A registry of streams per
server, cancellations published between
servers. `history` names what went wrong (overlap, lost client, unheard failure, failed
summary). Excused: two requests at once, questions after an error or an empty
answer (they are left out of the history), pages beyond the default of ten rows
(from the eleventh message numbers repeat), and summaries that failed. Each setup of the
run joins the servers of the requests with a limit. With an odd limit
`NothingForgotten` has no exception; with an even one (the default is 10) an odd number
of messages passes the limit by one, and the first message is in neither summary nor
history (`ai-agent.service.ts:369`). The property says that this is all that is lost:
what later summaries pass over is the question that the one before stored again.
Not for a limit of 1: the summary then always reads the one question that was
just asked, and later ones pass over the answer before it. A second exception are the
clocks: `lastSummaryAt` is the time of the server (`conversation-summary.service.ts:151`),
`createdAt` that of the database, in whole seconds on MySQL (`knex.service.ts:240`),
and the history takes what is later (`conversation.service.ts:184`). Where the server
may be ahead (`Ahead`), the question created again after a summary can be no later than
it, and is then in neither. The times are small numbers; messages of one second are
read in the order they were created, which the query does not promise. A cancellation
on a server without the stream returns before it is published; publishing and aborting
are one step.

### MongoSchema

Rows, then `collections` (validator, indexes, values in documents) and `renames`, the
background work. A validator may refuse documents that lack a field, or have one of
another type, if they passed before: `RefuseDrop` ends an update half way, with an
error; `RefuseRename` leaves values under the old name, and is only logged. Types and
what is required are left out, so any field that the validator has may be refused.
`Indexes` says what `createIndexes` leaves: nothing for the relations of a table with
a unique constraint, whose filter (`$ne: null`) MongoDB refuses, although the change
reports success; any other error is `FailIndexes`. The lock is a lease that runs out
(`Lapse`), is never renewed, and is given back only with its own token. Excused:
leases that ran out, failed changes, updates that a validator ended ("refused", only
where rows and validator must agree: values are kept), renamings that it refused
("stuck"), that met a later change ("crossed") or a write ("early"), and relations:
every update that lists relations drops their fields in all documents, and logs "Will
be recreated by runtime logic" (`mongo-table-handler.service.ts:198`). Also seen: a
renamed table keeps its collection, and creating a table under the old name drops it
as a mismatch; rows of relations stay after a deletion; a server whose metadata cache
does not know the table skips the collection.

### Files

A file is a row (storage, content, size) and `objects`. A writer stores, updates,
restores and tidies step by step, and a process may be killed between any two.
Excused: two writes of one file, an insert whose read-back failed (its object is
deleted), a replacement into another storage (the old object stays), the overwritten
object of a cloud, an object deleted before its row. Also seen: MongoDB's writers look
for the storage under a key the row does not have and use the disk; so do writers on
SQL whose client asked for fields without `storageConfig` (`misses`), because
`find()` takes the fields and the page of the client's query: what they delete stays
in the cloud, which `NothingLeft` excuses. A stream that
breaks after the headers never ends the answer. One disk is shared by all servers
in the model; GCS and R2 behave as S3.

### Sessions

A clock, tokens given out (`out`), sessions with their expiry, users, accounts. Each
query is a step. Databases differ in deletion: MySQL refuses `SET NULL` on the
account's user, PostgreSQL keeps the user, MongoDB leaves the account. On MySQL a
session's expiry is stored in the local time of the server and compared with a text in
UTC (`Noted`, `zone` of a plan): on servers west of UTC the cleanup deletes sessions
early, so `TokensServe` promises a token only what is left after `West`; east of UTC
they stay longer, which harms none. `LogoutSticks` is about refreshes that begin after
the logout. Left out: that queries on SQL may run in a transaction that another
request's write has put in place of the connection, and be undone with it (see Record
writes), and a write that is done although its answer is lost. Excused: a session read
as expired while its refresh was under way ("crossed"), tokens signed that outlive the
row they were signed for ("late"), and a whole batch that cannot be deleted in
`AllEnd` (the loop then runs for ever, under the lock of all servers). Also seen: a
refresh whose session was deleted meanwhile still answers with tokens; a logout whose
user is gone fails in the guard.

## 3. Runs

| Run | Bounds | Shows |
|---|---|---|
| `cache_sync` | 2 instances, 3 reloads (two on one; of the routes a reload each), 2 tables, 1 write, 1 trouble | no foreign release, staleness has a named cause, dependents follow the routes |
| `executor` | 2 runs, pool of 1 child, 2 identities, 1 call, 2 mishaps | ownership, messages that cross runs, every run settled |
| `request_context` | 1 pre-hook, 2 post-hooks, 4 moves of scripts | outcome seen, edits arrive, nothing goes on after the answer |
| `schema_change` | 3 changes in a row on 2 names and 1 column with 1 fault, or 1 with 2; 2 with 1 fault or 3 with none, two at a time on 2 instances | changes of two instances exclude each other, success means agreement, failed updates keep it, every change ends |
| `boot` | 3 databases: empty, an older version, one with a changed action on delete, and six whose rows refuse a change; 1 server with up to 2 troubles, 2 servers with none | the script converges without losing data, default records once, a server serves in the end |
| `records` | 17 requests in all pairs, 5 related tables and a single one, SQL and MongoDB, 1 failing statement | relations as sent, system records kept, nothing else touched, requests end |
| `agent_turn` | 3 rounds, 15 answers, 2 troubles | calls answered, calls settled, `Turn` implemented |
| `agent_tables` | 2 conversations, 14 calls in all pairs, 3 record calls in all pairs, 3 retries, 2 stumbles | updates merge, schema stays sound, reports are true |
| `agent_chat` | 3 requests, 2 servers, limit of 3 or 2 messages, 2 mishaps | one answer each, the latest question asked, order and count, nothing but the first message of an even limit forgotten |
| `mongo_schema` | 2 changes at once; 2 on two names; 3 in a row; each with 1 trouble | exclusion under the lease, agreement, values kept |
| `files` | 2 requests with 2 troubles, 2 that miss parts of the row with 1, 3 with none, SQL and MongoDB, disk and 1 cloud | rows true, nothing left, readers served |
| `sessions` | 2 requests with a cleanup (also 2 hours west and 1 east of UTC), 3 refreshes or logouts, failures, 3 callbacks with 2 emails, cleanups on 2 servers with batches of 2 | tokens have sessions, logout is final, one user per person, everything ends |

Every bound is a constant: named `Max...`, `Num...`, `Count`, `Setups`, `Page`,
`Batch...`, `Troubles`, or a field of a member of `Plans`, `Workloads` or
`Versions`, from which a run chooses one initially, so that one run covers several
small systems. No run uses symmetry.

Why they are enough. The conflicts of the caches need a holder, a competitor and one
message under way on another instance, and a load that can be torn. Two runs on one
child, with the second identity for its successor, is the smallest setting in which
messages, exits and timers meet another run. Four moves let a script edit, call and
throw in any order in any hook. A change of the schema can spoil the next one
and be repaired by a third; two in flight are all a lock between two instances
needs, two sessions per instance let release meet another session than acquire,
and a third change meets the lock the first two have left. The script of the
database meets itself (killed twice) or one other. Every relation kind occurs from
both sides in `records`, and conflicts there are between two writes. Three rounds let a
call be repeated after it was answered, and a round after the last be refused. Three
questions pass the limit of the summary, once when it is 3 and twice when it is 2.
A cleanup with batches of 2 sees a full batch, a part of one and an empty one. Three
refreshes let two race a logout.

Deadlock is not checked, because all systems stop when their bounded requests are
over; that nobody waits for ever is stated as `RunsSettle`, `EveryChangeEnds`,
`BootEnds`, `WritesEnd` and `AllEnd` where waiting is possible at all. In the other
modules every step is an await with a timeout of its own.

Exemptions in `DoneMeansDone`, each a case the code has: changes overlapped; an
update that began on a table already different; one whose body lists an existing
column without its id (not `Identified`), which drops the physical column and keeps
its metadata (`sql-schema-migration.service.ts:632`); a table not seen by `dropTable`
because its query failed; and on PostgreSQL a create that finds a table without
metadata: the drop waits in the transaction, `createTable` still sees the table on
another session and skips it, and the commit then drops it. `OneInstance` supposes
one server to lock on (with replicas, raw SELECTs go round-robin,
`knex.service.ts:553-563`) and that the pool has closed no session that held the
lock. Also seen: two changes on one instance may both get the lock, if the same
pooled session runs both queries (`schema-migration-lock.service.ts:35`); a
rename together with other statements names the old table and always fails, on
MySQL after the rename.

Seen in the caches and requests: with `NODE_NAME` set, sync messages arrive on a
decorated channel and are compared with the bare key, so no instance follows the
others (`base-cache.service.ts:41`; `NodeName` is FALSE in the run); a reload that meets
the lock is dropped, and the write it was for may be in nobody's cache
(`base-cache.service.ts:87`); after `$throw` without await the script goes on
(`child-process-manager.ts:140`); edits of a `$query` that holds a list are lost
(`smart-merge.ts:28`).

## 4. Fairness

- HandlerExecutor: timers, exit of a signalled process, reading of channels, and
  the pool serving its queue. Nothing is assumed of scripts.
- SchemaChange: as long as some change can take a step one does; every await
  returns, at worst by the pool's `acquireConnectionTimeout`. Changes are finite, so
  fairness for each is not needed.
- Boot: a statement returns or fails, and the process manager starts a process
  that has ended again.
- Records: every process goes on when it can; a lock that is waited for is a
  guard, so two writes that wait for each other would be seen.
- Sessions: every request and every cleanup goes on.

All are weak: each step stays enabled until it is taken. The other runs check
safety only and assume no fairness.

## 5. Proofs

`CacheSyncProofs` (for all instances, calls, sources, bounds):

- `TypeCorrect`. `TypeOK` is inductive alone.
- `OverlapBounded`: reloads in progress number at most `lapses`, plus one while
  the lock in Redis belongs to an instance with one in progress. Inductive with
  `TypeOK`: `Acquire` needs a free lock, so nothing was guarded before; a release
  that frees a sibling's lock leaves the section itself; a crash takes its calls.
- `ReloadsExclude` is its case without lapses; `ForeignLockIsSafe` an action
  property from the form of `Unlock` and `TypeOK`.
- `DependentsFollowRoutes`: inductive once `NoDirect` says that only the metadata
  cache is filled outside a reload, and `Following` what a document that waits was
  begun from (unless it met another, it is the only one, from the routes served).
- `RestIsCurrent`, under the hypothesis `~NodeName` (with `NODE_NAME` set messages
  are dropped, and the property is false). `StaleOnlyByLoss` speaks of rest only. The
  invariant `Recovering` says of every moment that, as long as nothing was lost,
  an instance has the current version of each table, or a message with it is
  under way, or a reload that will carry it, or one is owed. `NothingAhead` (no
  cache, message or load is newer than the database) makes "current" survive an
  assignment that covers what was there; `Rewound` lets a load that begins carry
  every table.

Three modules hold the theorems of two components each, every part under a line of
its own: `ProcessProofs` (HandlerExecutor, Boot), `RequestProofs` (RequestContext,
AgentTables) and `AgentProofs` (AgentTurn, AgentChat). Names of definitions
differ between the two for that.

`ProcessProofs`, HandlerExecutor (for all runs, children, pool sizes, bounds):

- `TypeCorrect`.
- `ChildrenOwned`: `OwnChild` alone is not inductive; `Waiters` adds that the queue
  holds waiting runs, each once, and that only a started run has a timer or
  handlers, or is over.
- `PromisesSettled`, from ownership: whoever is undone on the child of a message
  is the borrower, so the one handler that acts settles the run.
- `CrossedByStrays`: `Resting` (a process that has ended executes no script) and
  `Channel` (messages in a channel come from the borrower up to its "done", or from
  strays), both needed to know whose message a handler meets.
- `LoansEndSettled`, an action property from `OwnChild`.

`ProcessProofs`, Boot (for all servers, databases, default records, kills):

- `BootInitialises`. `InitialisedOnce` speaks of the time when `isInit` is set; the
  invariant `ProvisionInv` follows the one server that provides (`Alone`: a second
  one is noted as "shared", and nobody provides once `isInit` is set) through the
  list. The records it has behind it are there, once, with their links (`Provided`),
  and at a record it has found those of earlier tables and knows whether its own
  is there (`AtDefault`). So a hook always finds its route, links always find their
  methods, and a record that is inserted was not there. A server that dies leaves
  its list (`records` are 0 or 1 wherever it stopped), and the next one begins anew.
  It needs the order of `default-data.json` (`OrderOfDefaults`: methods before
  routes before hooks, and menus without methods), and that a database in which
  `isInit` is set has its records (`VersionsAssumption`).

`RequestProofs`, RequestContext (for all numbers of post-hooks and moves of scripts):

- `TypeCorrect`, with a bound on the runs made (`RunsBounded`).
- `HooksAreGivenTheOutcome`: `HookSeesOutcome` looks at the copy a script has; the
  copy is made when the pool has a child, later. `OutcomePrepared` says the same of
  the context until then. `RunsSettled` (no run but the awaited one is open, and
  that one was begun in the present mode) shows that only a script rejected by
  `$throw` can come in between.
- `EditsReachTheContext`, by the same split (`EditsKept`).
- `AnswerComesLast`, an action property: at the end nothing is awaited, so by
  `RunsSettled` no run is open, and a resolved one has no script.

`RequestProofs`, AgentTables (for all conversations, calls, tables, retries, chunks):

- `ToolsTypes`: with the types, where each step finds a call (`AtItem`): what has
  been checked of its item, what was seen, and that what is about to be written is
  what the item asks for, merged with what was seen (`Wished`).
- `ToolsSchema` and `ToolsUpdates`, from one invariant, `SchemaKept`. `SchemaSound`
  needs no promise of the checks nor of the lock: `Refused` looks again at the table
  it changes, and whatever it lets through keeps relations and columns apart
  (`CreatesIs`, `ReplacedIs`). `UpdatesKeep` needs that nothing is promised of an
  absent table, nothing of automatic columns, because a merge takes those from the
  table, and that a table no change crossed has lost nothing (`Promises`). That last
  part holds because the body of a merge names every row it was read with
  (`ReplacedAll`).
- `ToolsHonest`, from `Reporting`, which says of each call what is told so far: one
  item after the other on tables (`InTurn`); on records each item before the next
  chunk is told or under way (`InChunks`); and calls to come have changed nothing
  (`Ahead`), because items are named by the number of calls still to come.

`SchemaChangeProofs` (for all instances, pool sizes, changes in flight, faults):

- `OneInstanceHolds`. `OneInstance` is not inductive: it does not say who holds
  the lock. `Guarded` adds that the owner is a session of the instance of every
  running change, and that the lock is granted at least as often as changes run.
  "At least", because a release on another session than the owner's leaves a
  grant behind; the count can be too high, never too low, so the owner stays as
  long as a change runs. `LockOK` (owned exactly while counted) is what makes a
  release of the last grant free it. The invariant needs only that a change has a
  step and an instance (`Shape`), not the whole of `TypeOK`.
- `SuccessIsHonest` and `FailureIsHarmless`, from one invariant, `HonestInv`, which
  claims nothing once two changes have run at once. `Progress` says of the one that
  runs how far it has come, for each step and dialect: whether its table is there,
  whether its rows are the new ones or will be at the commit, and which statements
  still separate the table from them (`Halfway`). Statements that run one by one on
  MySQL keep it, those of PostgreSQL's batch all take effect or none, and a broken
  transaction leaves old rows beside an old table.

`AgentProofs`, AgentTurn (for all tools, answers, rounds, troubles):

- `TurnKeepsPromises`: `AgentTurn` implements `Turn`. No invariant is needed: the
  mapping takes `running` from the head of the queue and `done` from the cache, and
  every action is a step of `Turn` or a stutter by its own guards.
- `TypeCorrect`, `CallsGetAnswers`, `CallsAreSettled`, from one invariant, `Inv`
  (TLC agrees with it on the run's instance). `QueueOK`: the queue has each id once,
  no result is there for a call that waits, and of those only the one that runs is
  in `known`. `CallsOK` and `ShownOK`: a call that was made waits or has its one
  result later on, and what is shown as pending waits; the queue is empty whenever the
  model is asked or the turn is over. `AgesOK`: an answer finds no id of its own
  round, so what is taken from it is new. `KeysOK`: what failed is in the cache and is
  not run again, so the branch that ends a turn after three failures of one call
  (`llm.service.ts:672`) is never reached; if it were, it would leave calls pending.
- What an answer contains depends on four loops over chunks and calls (`Collect`), each
  a recursive function. The library's induction takes an operator and cannot be
  cited, so `Induction` states it of a set of numbers and is proved by counting (a set
  without its end would map one-to-one into itself and not onto). `Iterates` gives the
  function's existence, `Reaches` its invariant: what `Chunks`, `Aggregate`,
  `Deduplicate` and `Picked` return has only ids that were given, and each once.

`AgentProofs`, AgentChat (for all requests, servers, limits, pages, mishaps):

- `ChatTypes`, with `ChatBase`: ids are given in the order of the messages and each
  once (`Dated`), and requests work alone where no overlap was noted (`Apartness`).
- `ChatAnswers`. `Answered` speaks of requests that are done; `HasStored` says at each
  stage which messages of a request there are. A summary deletes the question and
  creates it again, so there are two stages with none.
- `ChatAsks`, on `LastIs` (whoever asks finds its own question last and an answer
  before it). What the model is given is made by two loops (`Picked`, `Push`); both
  keep an end that alternates, so the last question is the request's own.
- `ChatOrder`, on `InOrderSoFar`: the number a handler has read is the last one
  (`Below`), until it stores a message with the next.
- `ChatForgetsNothing`, on `Covered`: questions and answers alternate
  (`Alternates`), messages after the last summary number at most the limit, and
  those before it are in the summary, but for the first. The argument is one of
  parity: a request begins with an even number of messages, so a history that is as
  long as the limit leaves out none when the limit is odd, and one when it is even.

`MongoSchemaProofs` (for all servers, tables, names, columns, plans):

- `OneServerAtATime`, from the invariant that a change that works holds the lock
  unless a lease has run out (`Holding`). The theorems below rest on it: whoever
  works is alone, so what a handler has looked up still holds when it writes.
- `TypeCorrect`. The type of a handler's record alone is not inductive; `Sensible`
  says for each kind of change where it may be and what it has there (a deletion is
  never at a list, what is left of a list is part of it).
- `SchemaAgrees`, in three layers. `OwnRows`: ids are given once, and the rows a
  handler names are those of its table, so a step touches no other table. `BaseInv`,
  without failures, lapses and renamed tables (an update that a validator ended keeps
  it): names are given once, a table has its collection or is being made, a collection
  has its table or is being dropped, columns and routes have their table, and each
  handler `Knows` what it found out. `FitInv`: the validator and the indexes are those
  of the rows, or somebody is at work on the table; this needs the excuses "unknown"
  and "refused" too.
- `ValuesAreKept`. `ValuesKept` speaks of rest; the invariant `StoredInv` says
  where values are while columns are written and fields renamed. A row aims at the
  name it will have (`Aim`: the one in what is left of the list, else its own), and
  its values are under the field that a renaming still has to move there (`Spot`,
  together `At`). `Placed`: at the place of each row are its values if it has any,
  and under no column's field are others. `Unmixed`: no two rows aim at one name, so
  a column that is written does not cover another. `Clear`: nothing is aimed at the
  old name of a renaming, so `$rename` takes nobody's new values. `Untangled`: no
  field is renamed twice. `Drops`: what is dropped is what the list leaves out.
  `Tidy` keeps ids of columns and relations apart.

`SessionsProofs` (for all requests, plans, servers and bounds):

- `TypeCorrect`.
- `LogoutIsFinal`: a session that was logged out of has no row (`LogoutHolds`) and
  none is made again, because only a login inserts and the id of its session is new
  (`SessionsMade`).
- `PersonIsOneUser`: the unique index keeps one account for each person, and
  whoever was let in through it is still its user (`AccountsHold`), because deleting
  a user deletes no account and changes none.
- `TokensHaveSessions`: `TokensServed` extends the promise to refreshes under way:
  what one is about to sign is in its session's row already, and what it has found
  is its user's, or there is an excuse by then. It needs that rows have unique ids
  and users (`UsersBorn`), and that no row lives longer than one made now would
  (`RowsSound`), so that a cleanup whose time is over takes only what has run out
  within `West`.

`FilesProofs` (for all numbers of requests, clouds and plans):

- `TypeCorrect`.
- `RowsAreTrue`, `NothingStays` and `ReadersAreServed`, from one invariant. The
  properties speak of files that nobody writes; the invariant says of a write under way
  where the content is that the row described (`ContentKept`: untouched until the
  old file is unlinked, in the backup from then until the row is written), and who
  will take every object away that the row does not lead to (`NothingLost`: an upload
  that may roll back, or the replacement that made it). Both rest on names
  (`ObjectsNamed`: an object has the name of its file, or of the request that
  replaces it) and on the row still being the one the write found (`RowsSound`), which
  holds because two writes of one file are excused from the moment they meet. A
  step with the storage then has to keep only what is said of its own file
  (`StoringKeeps`), and so has one that writes the row (`RecordKeeps`).

Assumptions are those declared in the modules: finite sets of calls and children,
distinct special values, natural bounds, the shape of what the agent's tools are
given (AgentTables) and the order of the default data (Boot). TLC evaluates them in
the runs.

`OverlapBound`, `DoneIsSettled`, `LoanEndsSettled` and the types of CacheSync,
HandlerExecutor and AgentTurn are proved and no longer run. Only model-checked:

- liveness (`RunsSettle`, `EveryChangeEnds`, `BootEnds`, `WritesEnd`, `AllEnd`) and
  with it ENABLED, which are out of the prover's reach;
- `ScriptConverges` of Boot: its script is a list that recursive functions compute
  from the snapshot, and what such a function computes for every input is an
  induction over data;
- `WrittenAsSent`, `SystemKept` and `OthersUntouched` of Records, whose writes are
  recursive like the records they are given (RECURSIVE operators, which a module
  with a theorem may not reach).

## 6. Plan

1. Done: all modules of section 2, and the proofs of section 5.
2. Proofs: RecordWrites, once its recursion is written as functions.
3. An abstract executor ("every call of run() is answered once") that
   HandlerExecutor implements, which RequestContext may then use; an abstract write
   that RecordWrites implements for one write at a time.
4. Algorithms: the tree of routes against a reference definition of matching, the
   sliding window of the rate limiter, the relation diff.
5. Realtime: gateways and their job queues.

## 7. Not modelled

PROJECT.json lists every component with its reason. In short: translation of
filters into SQL or pipelines and generation of GraphQL and OpenAPI documents are
pure text transformations; package installation runs another program; admin,
logging, guards and the code transformer keep no state; route lookup and the rate
limiter are small algorithms still to come; WebSocket gateways are last in the plan.
Bootstrap scripts (`bootstrap-script.service.ts`, whose `clearAll` deletes its own
lock) are left out of Boot. Libraries (knex's pool, generic-pool, Redis, the
databases' locks) are modelled only as far as the code relies on them, and marked
external in the map.

Steps left out of modelled operations. HandlerExecutor: the packages read before a
child is asked for (`handler-executor.service.ts:23`). SchemaChange: the lost answer to
a batch's own COMMIT, and a foreign key dropped on the pool outside the batch
(`sql-diff-generator.ts:363`, `:144`); a failing query that clears the lock's row
(`schema-migration-lock.service.ts:81`). Boot: settings that exist are reset to "not
initialised" while they are written again (`base-table-processor.ts:52`), and the
methods of a route that a migration replaces are taken to be the default ones.
AgentChat: a cancellation waits for its message to be published
(`stream-management.service.ts:108`).

Further hazards that no property covers: in "done" a merge that throws leaves its
run unsettled (`child-process-manager.ts:235`); `removeAllListeners` leaves the
listeners of stderr (`:62`); chunks of a streamed response may overtake its
announcement (`build-fn-proxy.ts:93`); `$cache` and `$socket` come back from a script as
texts (`smart-merge.ts:25`); a failed look in `dropTable` counts as "no such table"
(`sql-schema-migration.service.ts:521`); in the route tree the `break` of a wildcard
skips the assignment of its handler, and two parameter names at one place share a
node (`enfyra-route-engine.ts:58`).
