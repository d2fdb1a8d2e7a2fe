------------------------------ MODULE CacheSync ------------------------------
(****************************************************************************)
(* One replicated in-memory cache of the server: BaseCacheService (routes,  *)
(* websocket gateways, packages, storage, AI and OAuth configuration) and   *)
(* MetadataCacheService, on every instance of the cluster, with the Redis   *)
(* reload lock of CacheService and the Redis pub/sub of RedisPubSubService. *)
(*                                                                          *)
(* The database is a version per source table of the cache; a cache value   *)
(* is the vector of versions that a load has read.                          *)
(****************************************************************************)
EXTENDS Integers, Sequences, SequencesExt, FiniteSets

CONSTANTS
  Instances,    \* server processes sharing one Redis and one database
  Calls,        \* the reload()/getMetadata() calls that may be in flight
  Home,         \* the instance a call runs on
  Kinds,        \* which caches to look at: "route", "package", "metadata"
                \* (a base cache that installs packages after the assignment, where
                \* it may fail; one that services are built from; no base cache)
  NumSources,   \* how many tables one load reads, one query after another
  NodeName,     \* TRUE when NODE_NAME is set: keys and channels are decorated
  Free, Orphan, \* lock values: no lock; the id of a process that has died
  MaxWrites,    \* bound: committed writes
  MaxTroubles   \* bound: locks lost under a reload, failed loads, reads,
                \* publishes and releases, and crashes, all together

ASSUME CallsAssumption == IsFiniteSet(Calls) /\ Home \in [Calls -> Instances]
ASSUME KindsAssumption == Kinds \subseteq {"route", "package", "metadata"}
ASSUME LockAssumption == Free # Orphan /\ {Free, Orphan} \cap Instances = {}
ASSUME BoundAssumption ==
  /\ NumSources \in Nat \ {0} /\ NodeName \in BOOLEAN
  /\ {MaxWrites, MaxTroubles} \subseteq Nat

Sources  == 1 .. NumSources
Version  == [Sources -> Nat]
Nothing  == [s \in Sources |-> 0]     \* what an empty cache holds

Labels == {"idle", "acquire", "load", "assign", "publish", "announce",
           "release", "direct"}

VARIABLES
  kind,      \* which cache this is; never changes
  db,        \* the version of every source table
  up,        \* the instances that are running
  lock,      \* the Redis key of the reload lock: an instance id, Orphan, Free
  pc,        \* where every call is
  at,        \* the next source the call's load will query
  data,      \* what the call's load has read so far
  cache,     \* this.cache / this.inMemoryCache of every instance
  loaded,    \* cacheLoaded / inMemoryCache # null
  methods,   \* allMethods of the route cache: the version read, 0 when empty
  schema,    \* the routes the GraphQL schema was built from
  spec,      \* the routes the OpenAPI document was generated from
  drafts,    \* the routes of documents that wait for the query of the methods
  filled,    \* the instances whose SwaggerService has its methods (methodsCache)
  waiting,   \* the instances whose services wait for a first load of the routes
  inbox,     \* messages Redis has queued on an instance's subscription
  owed,      \* committed writes whose INVALIDATE is still to be emitted
  lapses,    \* ghost: locks that vanished while the reload they guard ran
  losses,    \* ghost: what has happened that can leave a cache stale
  refused,   \* ghost: the instances whose last schema was refused
  late,      \* ghost: those whose last document failed, or met another on the way
  budget     \* the bounds used up so far

depVars == <<schema, spec, drafts, filled, waiting, refused, late>>
vars == <<kind, db, up, lock, pc, at, data, cache, loaded, methods, depVars, inbox,
          owed, lapses, losses, budget>>

lockVars == <<lock, lapses>>
callVars == <<pc, at, data>>
viewVars == <<cache, loaded, methods, depVars>>

-----------------------------------------------------------------------------
Base == kind # "metadata"     \* a subclass of BaseCacheService

\* A call holds (or believes it holds) the reload lock at these labels.
Critical == {c \in Calls : pc[c] \in {"load", "assign", "publish", "announce", "release"}}

\* The lock is in Redis and a call that relies on it is running.
Guarding == \E c \in Critical : Home[c] = lock

\* The first source of the routes is the list of methods, which the route cache
\* reads as long as it has none, although a write to it starts a reload.
ReadOnce(s) == kind = "route" /\ s = 1
Reread == {s \in Sources : ~ReadOnce(s)}

Covers(v, w) == \A s \in Reread : v[s] >= w[s]

\* A call slot to run a new call in: the bound on concurrent calls.
IdleCall(i) == {c \in Calls : Home[c] = i /\ pc[c] = "idle"}

Spend(what) == budget' = [budget EXCEPT ![what] = @ - 1]
Lose(what)  == losses' = losses \cup {what}

\* An instance's cache becomes v; "crossed" when that undoes a newer read.
Store(i, v) ==
  /\ cache' = [cache EXCEPT ![i] = v]
  /\ losses' = IF Covers(v, cache[i]) THEN losses ELSE losses \cup {"crossed"}

\* The call goes on at a label where it no longer needs what it has read.
Leave(c, label) ==
  /\ pc' = [pc EXCEPT ![c] = label]
  /\ at' = [at EXCEPT ![c] = 1]
  /\ data' = [data EXCEPT ![c] = Nothing]

-----------------------------------------------------------------------------
\* All instances are about to start. The database holds what provisioning
\* wrote, version 1 of every source; a cache holds nothing.
Init ==
  /\ kind \in Kinds
  /\ db = [s \in Sources |-> 1]
  /\ up = {}
  /\ lock = Free
  /\ pc = [c \in Calls |-> "idle"]
  /\ at = [c \in Calls |-> 1]
  /\ data = [c \in Calls |-> Nothing]
  /\ cache = [i \in Instances |-> Nothing]
  /\ loaded = [i \in Instances |-> FALSE]
  /\ methods = [i \in Instances |-> 0]
  /\ schema = [i \in Instances |-> Nothing]
  /\ spec = [i \in Instances |-> Nothing]
  /\ drafts = [i \in Instances |-> <<>>]
  /\ filled = {} /\ waiting = {} /\ refused = {} /\ late = {}
  /\ inbox = [i \in Instances |-> <<>>]
  /\ owed = [i \in Instances |-> 0]
  /\ lapses = 0
  /\ losses = {}
  /\ budget = [writes |-> MaxWrites, troubles |-> MaxTroubles]

-----------------------------------------------------------------------------
(* Events that start a call *)

\* onApplicationBootstrap of the metadata cache, onMetadataLoaded of the
\* others: a starting instance subscribes and reloads.
Boot(i) ==
  /\ i \notin up
  /\ \E c \in IdleCall(i) : pc' = [pc EXCEPT ![c] = "acquire"]
  /\ up' = up \cup {i}
  /\ UNCHANGED <<kind, db, lockVars, at, data, viewVars, inbox, owed, losses, budget>>

\* Metadata that arrive from another instance are announced like those of a start
\* (METADATA_LOADED): every base cache reloads.
MetadataArrive(i) ==
  /\ Base /\ i \in up /\ budget.writes > 0
  /\ \E c \in IdleCall(i) : pc' = [pc EXCEPT ![c] = "acquire"]
  /\ Spend("writes")
  /\ UNCHANGED <<kind, db, up, lockVars, at, data, viewVars, inbox, owed, losses>>

\* DynamicRepository.create/update/delete: the write commits ...
Commit(i, s) ==
  /\ i \in up /\ budget.writes > 0
  /\ db' = [db EXCEPT ![s] = @ + 1]
  /\ owed' = [owed EXCEPT ![i] = @ + 1]
  /\ Spend("writes")
  /\ UNCHANGED <<kind, up, lockVars, callVars, viewVars, inbox, losses>>

-----------------------------------------------------------------------------
(* The services built from the routes                                       *)

\* The GraphQL schema is built from the routes at once. It is left as it was when
\* there are no metadata, or when makeExecutableSchema throws.
BuildSchema(i, v) ==
  \/ /\ schema' = [schema EXCEPT ![i] = v]
     /\ refused' = refused \ {i}
     /\ UNCHANGED budget
  \/ /\ budget.troubles > 0
     /\ refused' = refused \cup {i}
     /\ Spend("troubles")
     /\ UNCHANGED schema

\* Mutant: a document is begun only when there is none yet.
DocumentOnce(i, v) ==
  /\ IF spec[i] = Nothing /\ drafts[i] = <<>>
       THEN drafts' = [drafts EXCEPT ![i] = <<v>>]
       ELSE UNCHANGED drafts
  /\ UNCHANGED <<spec, late, filled>>

\* generateOpenApiSpec takes the routes, and as long as it has no methods awaits
\* their query before it assigns the document.
Document(i, v) ==
  /\ IF i \in filled
       THEN spec' = [spec EXCEPT ![i] = v] /\ UNCHANGED drafts
       ELSE drafts' = [drafts EXCEPT ![i] = Append(@, v)] /\ UNCHANGED spec
  /\ late' = IF drafts[i] = <<>> THEN late \ {i} ELSE late \cup {i}
  /\ UNCHANGED filled

\* Both are rebuilt on INVALIDATE and on ROUTE_LOADED, from the routes as they
\* are. Nothing listens like that to other caches.
Rebuild(i, v) ==
  IF kind = "route" THEN BuildSchema(i, v) /\ Document(i, v)
                    ELSE UNCHANGED <<schema, spec, drafts, filled, refused, late, budget>>

\* The query of the methods comes back, that of an earlier document perhaps after
\* that of a later one.
Generate(i) ==
  /\ \E k \in DOMAIN drafts[i] :
       /\ spec' = [spec EXCEPT ![i] = drafts[i][k]]
       /\ drafts' = [drafts EXCEPT ![i] = RemoveAt(@, k)]
  /\ filled' = filled \cup {i}
  /\ UNCHANGED <<kind, db, up, lockVars, callVars, cache, loaded, methods, schema, waiting,
                 refused, late, inbox, owed, losses, budget>>

\* Or it fails: the document is given up.
GenerateFails(i) ==
  /\ budget.troubles > 0
  /\ \E k \in DOMAIN drafts[i] : drafts' = [drafts EXCEPT ![i] = RemoveAt(@, k)]
  /\ late' = late \cup {i}
  /\ Spend("troubles")
  /\ UNCHANGED <<kind, db, up, lockVars, callVars, cache, loaded, methods, schema, spec,
                 filled, waiting, refused, inbox, owed, losses>>

\* ... and reload() emits INVALIDATE once the row has been read back: the cache
\* service starts a reload, the services built on it rebuild, for which they wait
\* (getRoutes) when no routes have been loaded.
Invalidate(i) ==
  /\ i \in up /\ owed[i] > 0
  /\ owed' = [owed EXCEPT ![i] = @ - 1]
  /\ \E c \in IdleCall(i) : pc' = [pc EXCEPT ![c] = "acquire"]
  /\ IF loaded[i] \/ kind # "route"
       THEN Rebuild(i, cache[i]) /\ UNCHANGED waiting
       ELSE /\ waiting' = waiting \cup {i}
            /\ UNCHANGED <<schema, spec, drafts, filled, refused, late, budget>>
  /\ UNCHANGED <<kind, db, up, lockVars, at, data, cache, loaded, methods, inbox, losses>>

\* The reload they waited for is over, whatever it came to.
Wake(i) ==
  /\ i \in waiting
  /\ waiting' = waiting \ {i}
  /\ Rebuild(i, cache[i])
  /\ UNCHANGED <<kind, db, up, lockVars, callVars, cache, loaded, methods, inbox, owed, losses>>

\* Reading the row back fails: the error leaves before this.reload().
ReadBackFails(i) ==
  /\ i \in up /\ owed[i] > 0 /\ budget.troubles > 0
  /\ owed' = [owed EXCEPT ![i] = @ - 1]
  /\ Lose("unannounced") /\ Spend("troubles")
  /\ UNCHANGED <<kind, db, up, lockVars, callVars, viewVars, inbox>>

\* ensureLoaded() of a base cache reloads under the lock; getMetadata() loads
\* without it.
Demand(i) ==
  /\ i \in up /\ ~loaded[i]
  /\ \E c \in IdleCall(i) :
       pc' = [pc EXCEPT ![c] = IF Base THEN "acquire" ELSE "direct"]
  /\ UNCHANGED <<kind, db, up, lockVars, at, data, viewVars, inbox, owed, losses, budget>>

-----------------------------------------------------------------------------
(* The steps of reload() *)

\* CacheService.acquire: SET key instanceId PX ttl NX.
Acquire(c) ==
  /\ pc[c] = "acquire" /\ lock = Free
  /\ lock' = Home[c]
  /\ pc' = [pc EXCEPT ![c] = "load"]
  /\ UNCHANGED <<kind, db, up, lapses, at, data, viewVars, inbox, owed, losses, budget>>

\* The lock is taken: reload() returns, "waiting for broadcast".
Skip(c) ==
  /\ pc[c] = "acquire" /\ lock # Free
  /\ pc' = [pc EXCEPT ![c] = "idle"]
  /\ Lose("skipped")
  /\ UNCHANGED <<kind, db, up, lockVars, at, data, viewVars, inbox, owed, budget>>

\* After the last query a base cache assigns and then publishes what it holds; the
\* metadata cache publishes what it has read and then assigns.
AfterLoad == IF Base THEN "assign" ELSE "publish"

\* One query of loadFromDb / loadMetadataFromDb. A load of the routes has whatever
\* list of methods its instance has, that another load or a message brings included.
Query(c) ==
  LET i == Home[c]
      s == at[c]
      v == IF ReadOnce(s) /\ methods[i] # 0 THEN methods[i] ELSE db[s]
  IN /\ pc[c] \in {"load", "direct"} /\ s \in Sources
     /\ methods' = IF ReadOnce(s) THEN [methods EXCEPT ![i] = v] ELSE methods
     /\ data' = [data EXCEPT ![c] = [t \in Sources |->
          IF t = s THEN v ELSE IF ReadOnce(t) THEN methods[i] ELSE data[c][t]]]
     /\ at' = [at EXCEPT ![c] = s + 1]
     /\ pc' = IF pc[c] = "load" /\ s = NumSources
               THEN [pc EXCEPT ![c] = AfterLoad] ELSE pc
     /\ UNCHANGED <<kind, db, up, lockVars, cache, loaded, depVars, inbox, owed, losses, budget>>

\* A query about one table fails in the metadata cache: the table is left out of
\* what is assigned and published.
LeaveOut(c) ==
  /\ ~Base /\ pc[c] \in {"load", "direct"} /\ at[c] \in Sources \ {1}
  /\ budget.troubles > 0
  /\ at' = [at EXCEPT ![c] = @ + 1]
  /\ pc' = IF pc[c] = "load" /\ at[c] = NumSources
            THEN [pc EXCEPT ![c] = AfterLoad] ELSE pc
  /\ Lose("failed") /\ Spend("troubles")
  /\ UNCHANGED <<kind, db, up, lockVars, data, viewVars, inbox, owed>>

\* A query, the transformation or (after the assignment of a base cache)
\* afterTransform throws: the finally block releases, nothing is published.
LoadFails(c) ==
  /\ \/ pc[c] \in {"load", "direct"}
     \/ pc[c] = "publish" /\ kind = "package"
  /\ budget.troubles > 0
  /\ Leave(c, IF pc[c] = "direct" THEN "idle" ELSE "release")
  /\ Lose("failed") /\ Spend("troubles")
  /\ UNCHANGED <<kind, db, up, lockVars, viewVars, inbox, owed>>

\* this.cache = transformData(rawData), or this.inMemoryCache = metadata.
Assign(c) ==
  /\ pc[c] = "assign"
  /\ Store(Home[c], data[c])
  /\ loaded' = [loaded EXCEPT ![Home[c]] = @ \/ ~Base]
  /\ Leave(c, IF Base THEN "publish" ELSE "release")
  /\ UNCHANGED <<kind, db, up, lockVars, methods, depVars, inbox, owed, budget>>

\* publish() before the assignment would send what the cache still holds.
PayloadHeld(c) == cache[Home[c]]

\* A base cache serialises this.cache, which a sync message may have replaced
\* meanwhile.
Payload(c) == IF Base THEN cache[Home[c]] ELSE data[c]

\* Redis appends the message to the queue of every subscriber; the publisher's
\* own copy is left out here, its handler drops it by the instance id.
Receivers(c) == up \ {Home[c]}

Publish(c) ==
  /\ pc[c] = "publish"
  /\ inbox' = [i \in Instances |->
                 IF i \in Receivers(c) THEN Append(inbox[i], Payload(c)) ELSE inbox[i]]
  /\ pc' = [pc EXCEPT ![c] = IF Base THEN "announce" ELSE "assign"]
  /\ UNCHANGED <<kind, db, up, lockVars, at, data, viewVars, owed, losses, budget>>

\* A publish that fails is logged and forgotten.
PublishFails(c) ==
  /\ pc[c] = "publish" /\ budget.troubles > 0
  /\ pc' = [pc EXCEPT ![c] = IF Base THEN "announce" ELSE "assign"]
  /\ Lose("unpublished") /\ Spend("troubles")
  /\ UNCHANGED <<kind, db, up, lockVars, at, data, viewVars, inbox, owed>>

\* cacheLoaded = true; emitLoadedEvent().
Announce(c) ==
  /\ pc[c] = "announce"
  /\ loaded' = [loaded EXCEPT ![Home[c]] = TRUE]
  /\ Rebuild(Home[c], cache[Home[c]])
  /\ pc' = [pc EXCEPT ![c] = "release"]
  /\ UNCHANGED <<kind, db, up, lockVars, at, data, cache, methods, waiting, inbox, owed, losses>>

\* A DEL without the comparison.
UnlockAny(i) == Free

\* CacheService.release: the script deletes the key if it holds this instance's
\* id. The id says nothing of the call, so it may be a later call's lock.
Unlock(i) == IF lock = i THEN Free ELSE lock

Release(c) ==
  /\ pc[c] = "release"
  /\ lock' = Unlock(Home[c])
  /\ pc' = [pc EXCEPT ![c] = "idle"]
  /\ UNCHANGED <<kind, db, up, lapses, at, data, viewVars, inbox, owed, losses, budget>>

\* Redis does not answer: release() returns false and the key stays.
ReleaseFails(c) ==
  /\ pc[c] = "release" /\ budget.troubles > 0
  /\ pc' = [pc EXCEPT ![c] = "idle"]
  /\ Spend("troubles")
  /\ UNCHANGED <<kind, db, up, lockVars, at, data, viewVars, inbox, owed, losses>>

\* loadAndCacheMetadata(): assign what was read, without lock or broadcast.
AssignDirect(c) ==
  /\ pc[c] = "direct" /\ at[c] = NumSources + 1
  /\ Store(Home[c], data[c])
  /\ loaded' = [loaded EXCEPT ![Home[c]] = TRUE]
  /\ Leave(c, "idle")
  /\ UNCHANGED <<kind, db, up, lockVars, methods, depVars, inbox, owed, budget>>

-----------------------------------------------------------------------------
(* Redis, and the processes themselves *)

\* The subscription's handler. RedisPubSubService calls it with the decorated
\* channel and the handler compares that with the bare event key, so that with
\* NODE_NAME set no message passes the test.
ChannelMatches == ~NodeName

Deliver(i) ==
  /\ i \in up /\ inbox[i] # <<>>
  /\ inbox' = [inbox EXCEPT ![i] = Tail(@)]
  /\ LET m == Head(inbox[i]) IN
       IF ChannelMatches
       THEN /\ Store(i, m)
            /\ loaded' = [loaded EXCEPT ![i] = TRUE]
            /\ methods' = IF kind = "route" THEN [methods EXCEPT ![i] = m[1]] ELSE methods
            /\ Rebuild(i, m)
            /\ UNCHANGED waiting
       ELSE UNCHANGED <<viewVars, losses, budget>>
  /\ UNCHANGED <<kind, db, up, lockVars, callVars, owed>>

\* The key's TTL runs out, or a bootstrap script reload flushes every key of
\* this server (CacheService.clearAll).
Lapse ==
  /\ lock # Free
  /\ lock' = Free
  /\ IF Guarding
     THEN budget.troubles > 0 /\ lapses' = lapses + 1 /\ Spend("troubles")
     ELSE UNCHANGED <<lapses, budget>>
  /\ UNCHANGED <<kind, db, up, callVars, viewVars, inbox, owed, losses>>

\* A process dies. Its calls, cache and subscription go with it; its lock stays
\* in Redis under an id that no process will have again.
Busy(i) == owed[i] > 0 \/ \E c \in Calls : Home[c] = i /\ pc[c] # "idle"

Crash(i) ==
  /\ i \in up /\ budget.troubles > 0
  /\ up' = up \ {i}
  /\ lock' = IF lock = i THEN Orphan ELSE lock
  /\ pc' = [c \in Calls |-> IF Home[c] = i THEN "idle" ELSE pc[c]]
  /\ at' = [c \in Calls |-> IF Home[c] = i THEN 1 ELSE at[c]]
  /\ data' = [c \in Calls |-> IF Home[c] = i THEN Nothing ELSE data[c]]
  /\ cache' = [cache EXCEPT ![i] = Nothing]
  /\ loaded' = [loaded EXCEPT ![i] = FALSE]
  /\ methods' = [methods EXCEPT ![i] = 0]
  /\ schema' = [schema EXCEPT ![i] = Nothing]
  /\ spec' = [spec EXCEPT ![i] = Nothing]
  /\ drafts' = [drafts EXCEPT ![i] = <<>>]
  /\ filled' = filled \ {i} /\ waiting' = waiting \ {i}
  /\ refused' = refused \ {i} /\ late' = late \ {i}
  /\ inbox' = [inbox EXCEPT ![i] = <<>>]
  /\ owed' = [owed EXCEPT ![i] = 0]
  /\ losses' = IF Busy(i) THEN losses \cup {"died"} ELSE losses
  /\ Spend("troubles")
  /\ UNCHANGED <<kind, db, lapses>>

-----------------------------------------------------------------------------
CallStep(c) ==
  \/ Acquire(c) \/ Skip(c) \/ Query(c) \/ LeaveOut(c) \/ LoadFails(c) \/ Assign(c)
  \/ Publish(c) \/ PublishFails(c) \/ Announce(c) \/ Release(c) \/ ReleaseFails(c)
  \/ AssignDirect(c)

InstanceStep(i) ==
  \/ Boot(i) \/ MetadataArrive(i) \/ Invalidate(i) \/ ReadBackFails(i) \/ Demand(i)
  \/ Deliver(i) \/ Crash(i) \/ Wake(i) \/ Generate(i) \/ GenerateFails(i)
  \/ \E s \in Sources : Commit(i, s)

Next == (\E c \in Calls : CallStep(c)) \/ (\E i \in Instances : InstanceStep(i)) \/ Lapse

Spec == Init /\ [][Next]_vars

-----------------------------------------------------------------------------
(* Properties *)

Losses == {"skipped", "unannounced", "failed", "unpublished", "crossed", "died"}

\* Every variable has its type.
TypeOK ==
  /\ kind \in Kinds
  /\ db \in Version
  /\ up \subseteq Instances
  /\ lock \in Instances \cup {Free, Orphan}
  /\ pc \in [Calls -> Labels]
  /\ at \in [Calls -> 1 .. NumSources + 1]
  /\ data \in [Calls -> Version]
  /\ cache \in [Instances -> Version]
  /\ loaded \in [Instances -> BOOLEAN]
  /\ methods \in [Instances -> Nat]
  /\ schema \in [Instances -> Version] /\ spec \in [Instances -> Version]
  /\ drafts \in [Instances -> Seq(Version)]
  /\ filled \subseteq Instances /\ waiting \subseteq Instances
  /\ refused \subseteq Instances /\ late \subseteq Instances
  /\ inbox \in [Instances -> Seq(Version)]
  /\ owed \in [Instances -> Nat]
  /\ lapses \in Nat
  /\ losses \subseteq Losses
  /\ budget \in [{"writes", "troubles"} -> Nat]

\* How many reloads of one cache run between acquire and release, in the whole
\* cluster: one, and one more for every time the lock vanished (TTL, flush)
\* under a running reload. The instance id in the key is all that release()
\* compares, so this is not obvious: a finished call may delete its sibling's
\* lock, but then it has left the critical section itself.
OverlapBound == Cardinality(Critical) <= lapses + (IF Guarding THEN 1 ELSE 0)

\* Nothing is running, queued or still to be announced.
Quiet == /\ \A c \in Calls : pc[c] = "idle"
         /\ \A i \in Instances : owed[i] = 0 /\ inbox[i] = <<>>

Agreed == \A i \in up : loaded[i] /\ \A s \in Reread : cache[i][s] = db[s]

\* The account of everything that can leave a cache stale. When the system has
\* come to rest, every running instance holds the database's current rows (but
\* for the list of methods, which the route cache reads once), unless a reload was
\* skipped because the lock was taken, a write was never announced, a load or a
\* publish failed, a process died at work, or an older load or message overwrote a
\* newer one. A lock that lapses under a reload, or stays behind, is no excuse of
\* its own: all it can do is to make one of those happen.
StaleOnlyByLoss == Quiet /\ losses = {} => Agreed

\* The GraphQL schema and the OpenAPI document come from the routes the instance
\* serves, except between the assignment of new routes and their ROUTE_LOADED. A
\* schema that was refused stays behind until the next rebuild, and so does a
\* document that failed, or that was on its way when another was begun.
Announcing(i) == \E c \in Calls : Home[c] = i /\ pc[c] \in {"publish", "announce"}
DependentsFollow ==
  kind = "route" =>
    \A i \in Instances :
      \/ Announcing(i)
      \/ /\ schema[i] = cache[i] \/ i \in refused
         /\ spec[i] = cache[i] \/ drafts[i] # <<>> \/ i \in late

\* A lock disappears only by its TTL or a flush, or because a call of the very
\* process that took it has finished: release() never frees a foreign lock.
ForeignLockSafe ==
  [][\A i \in Instances : lock = i /\ lock' = Free =>
       \/ Lapse
       \/ \E c \in Critical : Home[c] = i /\ pc'[c] = "idle"]_vars

==============================================================================
