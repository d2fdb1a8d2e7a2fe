--------------------------- MODULE CacheSyncProofs ---------------------------
(****************************************************************************)
(* Proofs about CacheSync for every number of instances, calls and source   *)
(* tables: its type invariant, the bound on overlapping reloads, that       *)
(* release() never frees the lock of another process, that the services     *)
(* built from the routes follow them, and that a cluster at rest is current *)
(* unless something was lost.                                               *)
(****************************************************************************)
EXTENDS CacheSync, FiniteSetTheorems, TLAPS

-----------------------------------------------------------------------------
\* An empty cache is a vector of versions.
LEMMA NothingType == Nothing \in Version
  BY DEF Nothing, Version, Sources

\* A load query replaces one component by a version of the database.
LEMMA VersionUpdate ==
  ASSUME NEW v \in Version, NEW s \in Sources, NEW n \in Nat
  PROVE  [v EXCEPT ![s] = n] \in Version
  BY DEF Version

\* A step that notes a loss or uses up a mishap keeps the types of both books.
LEMMA BooksType ==
  ASSUME TypeOK
  PROVE  /\ \A what \in Losses : Lose(what) => losses' \subseteq Losses
         /\ budget.troubles > 0 /\ Spend("troubles")
              => budget' \in [{"writes", "troubles"} -> Nat]
<1>1. ASSUME NEW what \in Losses, Lose(what) PROVE losses' \subseteq Losses
  BY <1>1 DEF TypeOK, Lose
<1>2. ASSUME budget.troubles > 0, Spend("troubles")
      PROVE  budget' \in [{"writes", "troubles"} -> Nat]
  BY <1>2 DEF TypeOK, Spend
<1> QED
  BY <1>1, <1>2

\* Taking one element out of a sequence leaves a sequence, and out of a sequence of
\* one nothing.
LEMMA RemoveAtType ==
  ASSUME NEW q \in Seq(Version), NEW k \in DOMAIN q
  PROVE  /\ q[k] \in Version /\ RemoveAt(q, k) \in Seq(Version)
         /\ \A v : q = <<v>> => q[k] = v /\ RemoveAt(q, k) = <<>>
<1>1. k \in 1 .. Len(q) /\ Len(q) \in Nat
  OBVIOUS
<1>2. SubSeq(q, 1, k - 1) \in Seq(Version) /\ SubSeq(q, k + 1, Len(q)) \in Seq(Version)
  BY <1>1
<1>3. ASSUME NEW v, q = <<v>> PROVE q[k] = v /\ RemoveAt(q, k) = <<>>
  <2>1. k = 1 /\ Len(q) = 1
    BY <1>1, <1>3
  <2>2. SubSeq(q, 1, 0) = <<>> /\ SubSeq(q, 2, 1) = <<>>
    BY <1>3
  <2> QED
    BY <1>3, <2>1, <2>2 DEF RemoveAt
<1> QED
  BY <1>1, <1>2, <1>3 DEF RemoveAt

\* What is rebuilt from routes keeps its types.
LEMMA RebuildType ==
  ASSUME TypeOK, NEW i \in Instances, NEW v \in Version, Rebuild(i, v)
  PROVE  /\ schema' \in [Instances -> Version] /\ spec' \in [Instances -> Version]
         /\ drafts' \in [Instances -> Seq(Version)] /\ filled' \subseteq Instances
         /\ refused' \subseteq Instances /\ late' \subseteq Instances
         /\ budget' \in [{"writes", "troubles"} -> Nat]
<1>1. CASE kind = "route"
  <2>1. BuildSchema(i, v) /\ Document(i, v)
    BY <1>1 DEF Rebuild
  <2>2. /\ schema' \in [Instances -> Version] /\ refused' \subseteq Instances
        /\ budget' \in [{"writes", "troubles"} -> Nat]
    BY <2>1, BooksType DEF BuildSchema, TypeOK
  <2>3. Append(drafts[i], v) \in Seq(Version)
    BY DEF TypeOK
  <2>4. /\ spec' \in [Instances -> Version] /\ drafts' \in [Instances -> Seq(Version)]
        /\ filled' \subseteq Instances /\ late' \subseteq Instances
    BY <2>1, <2>3 DEF Document, TypeOK
  <2> QED
    BY <2>2, <2>4
<1>2. CASE kind # "route"
  BY <1>2 DEF Rebuild, TypeOK
<1> QED
  BY <1>1, <1>2

\* Every handler keeps every variable in its type.
LEMMA TypeStep == TypeOK /\ [Next]_vars => TypeOK'
<1> SUFFICES ASSUME TypeOK, [Next]_vars PROVE TypeOK'
  OBVIOUS
<1> USE CallsAssumption, LockAssumption, BoundAssumption
<1>1. ASSUME NEW c \in Calls, Acquire(c) PROVE TypeOK'
  BY <1>1 DEF Acquire, TypeOK, viewVars, depVars, Labels
<1>2. ASSUME NEW c \in Calls, Skip(c) PROVE TypeOK'
  <2>1. losses' \subseteq Losses
    BY <1>2, BooksType DEF Skip, Losses
  <2> QED
    BY <1>2, <2>1 DEF Skip, TypeOK, viewVars, depVars, lockVars, Labels
<1>3. ASSUME NEW c \in Calls, Query(c) PROVE TypeOK'
  <2> DEFINE i == Home[c]
             s == at[c]
             v == IF ReadOnce(s) /\ methods[i] # 0 THEN methods[i] ELSE db[s]
             d == [t \in Sources |->
                     IF t = s THEN v ELSE IF ReadOnce(t) THEN methods[i] ELSE data[c][t]]
  <2>1. i \in Instances /\ v \in Nat /\ methods[i] \in Nat /\ data[c] \in Version
    BY <1>3 DEF Query, TypeOK, Version
  <2>2. d \in Version
    BY <2>1 DEF Version
  <2>3. /\ data' = [data EXCEPT ![c] = d]
        /\ methods' = methods \/ methods' = [methods EXCEPT ![i] = v]
    BY <1>3 DEF Query
  <2>4. data' \in [Calls -> Version]
    BY <2>2, <2>3 DEF TypeOK
  <2>5. at' \in [Calls -> 1 .. NumSources + 1]
    BY <1>3 DEF Query, TypeOK, Sources
  <2>6. pc' \in [Calls -> Labels]
    BY <1>3 DEF Query, TypeOK, AfterLoad, Labels
  <2>7. methods' \in [Instances -> Nat]
    BY <2>1, <2>3 DEF TypeOK
  <2> QED
    BY <1>3, <2>4, <2>5, <2>6, <2>7 DEF Query, TypeOK, depVars, lockVars
<1>21. ASSUME NEW c \in Calls, LeaveOut(c) PROVE TypeOK'
  <2>1. losses' \subseteq Losses /\ budget' \in [{"writes", "troubles"} -> Nat]
    BY <1>21, BooksType DEF LeaveOut, Losses
  <2>2. pc' \in [Calls -> Labels] /\ at' \in [Calls -> 1 .. NumSources + 1]
    BY <1>21 DEF LeaveOut, TypeOK, Labels, AfterLoad, Sources
  <2> QED
    BY <1>21, <2>1, <2>2 DEF LeaveOut, TypeOK, viewVars, depVars, lockVars
<1>4. ASSUME NEW c \in Calls, LoadFails(c) PROVE TypeOK'
  <2>1. losses' \subseteq Losses /\ budget' \in [{"writes", "troubles"} -> Nat]
    BY <1>4, BooksType DEF LoadFails, Losses
  <2> QED
    <3>1. /\ pc' \in [Calls -> Labels] /\ at' \in [Calls -> 1 .. NumSources + 1]
          /\ data' \in [Calls -> Version]
      BY <1>4, NothingType DEF LoadFails, TypeOK, Labels, Leave
    <3> QED
      BY <1>4, <2>1, <3>1 DEF LoadFails, TypeOK, viewVars, depVars, lockVars
<1>5. ASSUME NEW c \in Calls, Assign(c) PROVE TypeOK'
  <2>1. losses' \subseteq Losses /\ cache' \in [Instances -> Version]
    BY <1>5 DEF Assign, TypeOK, Store, Losses
  <2> QED
    <3>1. loaded' \in [Instances -> BOOLEAN]
      BY <1>5 DEF Assign, TypeOK
    <3>2. /\ pc' \in [Calls -> Labels] /\ at' \in [Calls -> 1 .. NumSources + 1]
          /\ data' \in [Calls -> Version]
      BY <1>5, NothingType DEF Assign, TypeOK, Labels, Leave
    <3> QED
      BY <1>5, <2>1, <3>1, <3>2 DEF Assign, TypeOK, lockVars, depVars
<1>6. ASSUME NEW c \in Calls, Publish(c) PROVE TypeOK'
  BY <1>6 DEF Publish, TypeOK, viewVars, depVars, lockVars, Labels, Payload
<1>7. ASSUME NEW c \in Calls, PublishFails(c) PROVE TypeOK'
  <2>1. losses' \subseteq Losses /\ budget' \in [{"writes", "troubles"} -> Nat]
    BY <1>7, BooksType DEF PublishFails, Losses
  <2>2. pc' \in [Calls -> Labels]
    BY <1>7 DEF PublishFails, TypeOK, Labels
  <2> QED
    BY <1>7, <2>1, <2>2 DEF PublishFails, TypeOK, viewVars, depVars, lockVars
<1>8. ASSUME NEW c \in Calls, Announce(c) PROVE TypeOK'
  <2>1. Home[c] \in Instances /\ cache[Home[c]] \in Version
    BY DEF TypeOK
  <2>2. /\ schema' \in [Instances -> Version] /\ spec' \in [Instances -> Version]
        /\ drafts' \in [Instances -> Seq(Version)] /\ filled' \subseteq Instances
        /\ refused' \subseteq Instances /\ late' \subseteq Instances
        /\ budget' \in [{"writes", "troubles"} -> Nat]
    BY <1>8, <2>1, RebuildType DEF Announce
  <2>3. pc' \in [Calls -> Labels] /\ loaded' \in [Instances -> BOOLEAN]
    BY <1>8 DEF Announce, TypeOK, Labels
  <2> QED
    <3>1. waiting' = waiting /\ methods' = methods /\ cache' = cache /\ losses' = losses
      BY <1>8 DEF Announce
    <3>2. /\ kind' = kind /\ db' = db /\ up' = up /\ lock' = lock /\ lapses' = lapses
          /\ at' = at /\ data' = data /\ inbox' = inbox /\ owed' = owed
      BY <1>8 DEF Announce, lockVars
    <3> QED
      BY <2>2, <2>3, <3>1, <3>2 DEF TypeOK
<1>9. ASSUME NEW c \in Calls, Release(c) PROVE TypeOK'
  BY <1>9 DEF Release, TypeOK, viewVars, depVars, Labels, Unlock
<1>10. ASSUME NEW c \in Calls, ReleaseFails(c) PROVE TypeOK'
  <2>1. budget' \in [{"writes", "troubles"} -> Nat]
    BY <1>10, BooksType DEF ReleaseFails
  <2>2. pc' \in [Calls -> Labels]
    BY <1>10 DEF ReleaseFails, TypeOK, Labels
  <2> QED
    BY <1>10, <2>1, <2>2 DEF ReleaseFails, TypeOK, viewVars, depVars, lockVars
<1>11. ASSUME NEW c \in Calls, AssignDirect(c) PROVE TypeOK'
  <2>1. losses' \subseteq Losses /\ cache' \in [Instances -> Version]
    BY <1>11 DEF AssignDirect, TypeOK, Store, Losses
  <2> QED
    <3>1. loaded' \in [Instances -> BOOLEAN]
      BY <1>11 DEF AssignDirect, TypeOK
    <3>2. /\ pc' \in [Calls -> Labels] /\ at' \in [Calls -> 1 .. NumSources + 1]
          /\ data' \in [Calls -> Version]
      BY <1>11, NothingType DEF AssignDirect, TypeOK, Labels, Leave
    <3> QED
      BY <1>11, <2>1, <3>1, <3>2 DEF AssignDirect, TypeOK, lockVars, depVars
<1>12. ASSUME NEW i \in Instances, Boot(i) PROVE TypeOK'
  BY <1>12 DEF Boot, TypeOK, viewVars, depVars, lockVars, Labels, IdleCall
<1>13. ASSUME NEW i \in Instances, NEW s \in Sources, Commit(i, s) PROVE TypeOK'
  <2>1. db \in Version /\ db[s] + 1 \in Nat
    <3>1. db \in Version
      BY DEF TypeOK
    <3> QED
      BY <3>1 DEF Version
  <2>2. db' \in Version
    BY <1>13, <2>1, VersionUpdate DEF Commit
  <2>3. budget' \in [{"writes", "troubles"} -> Nat]
    BY <1>13 DEF Commit, TypeOK, Spend
  <2> QED
    <3>1. owed' \in [Instances -> Nat]
      BY <1>13 DEF Commit, TypeOK
    <3> QED
      BY <1>13, <2>2, <2>3, <3>1 DEF Commit, TypeOK, viewVars, depVars, lockVars, callVars
<1>14. ASSUME NEW i \in Instances, Invalidate(i) PROVE TypeOK'
  <2>1. /\ schema' \in [Instances -> Version] /\ spec' \in [Instances -> Version]
        /\ drafts' \in [Instances -> Seq(Version)]
        /\ {filled', refused', late', waiting'} \subseteq SUBSET Instances
        /\ budget' \in [{"writes", "troubles"} -> Nat]
    <3>1. CASE loaded[i] \/ kind # "route"
      <4>1. Rebuild(i, cache[i]) /\ waiting' = waiting
        BY <1>14, <3>1 DEF Invalidate
      <4>2. cache[i] \in Version /\ waiting \subseteq Instances
        BY DEF TypeOK
      <4> QED
        BY <4>1, <4>2, RebuildType
    <3>2. CASE ~(loaded[i] \/ kind # "route")
      BY <1>14, <3>2 DEF Invalidate, TypeOK
    <3> QED
      BY <3>1, <3>2
  <2>2. pc' \in [Calls -> Labels] /\ owed' \in [Instances -> Nat]
    BY <1>14 DEF Invalidate, TypeOK, Labels, IdleCall
  <2> QED
    BY <1>14, <2>1, <2>2 DEF Invalidate, TypeOK, lockVars
<1>22. ASSUME NEW i \in Instances, MetadataArrive(i) PROVE TypeOK'
  <2>1. budget' \in [{"writes", "troubles"} -> Nat] /\ pc' \in [Calls -> Labels]
    BY <1>22 DEF MetadataArrive, TypeOK, Spend, Labels, IdleCall
  <2> QED
    BY <1>22, <2>1 DEF MetadataArrive, TypeOK, viewVars, depVars, lockVars
<1>23. ASSUME NEW i \in Instances, Wake(i) PROVE TypeOK'
  <2>1. cache[i] \in Version /\ waiting' \subseteq Instances
    BY <1>23 DEF Wake, TypeOK
  <2>2. /\ schema' \in [Instances -> Version] /\ spec' \in [Instances -> Version]
        /\ drafts' \in [Instances -> Seq(Version)] /\ filled' \subseteq Instances
        /\ refused' \subseteq Instances /\ late' \subseteq Instances
        /\ budget' \in [{"writes", "troubles"} -> Nat]
    BY <1>23, <2>1, RebuildType DEF Wake
  <2> QED
    BY <1>23, <2>1, <2>2 DEF Wake, TypeOK, lockVars, callVars
<1>24. ASSUME NEW i \in Instances, Generate(i) PROVE TypeOK'
  <2>1. PICK k \in DOMAIN drafts[i] : /\ spec' = [spec EXCEPT ![i] = drafts[i][k]]
                                     /\ drafts' = [drafts EXCEPT ![i] = RemoveAt(@, k)]
    BY <1>24 DEF Generate
  <2>2. drafts[i][k] \in Version /\ RemoveAt(drafts[i], k) \in Seq(Version)
    BY RemoveAtType DEF TypeOK
  <2>3. spec' \in [Instances -> Version] /\ drafts' \in [Instances -> Seq(Version)]
    BY <2>1, <2>2 DEF TypeOK
  <2>4. filled' \subseteq Instances
    BY <1>24 DEF Generate, TypeOK
  <2> QED
    <3>1. /\ UNCHANGED <<kind, db, up, lock, lapses, pc, at, data, cache, loaded, methods>>
          /\ UNCHANGED <<schema, waiting, refused, late, inbox, owed, losses, budget>>
      BY <1>24 DEF Generate, lockVars, callVars
    <3> QED
      BY <2>3, <2>4, <3>1 DEF TypeOK
<1>25. ASSUME NEW i \in Instances, GenerateFails(i) PROVE TypeOK'
  <2>1. PICK k \in DOMAIN drafts[i] : drafts' = [drafts EXCEPT ![i] = RemoveAt(@, k)]
    BY <1>25 DEF GenerateFails
  <2>2. RemoveAt(drafts[i], k) \in Seq(Version)
    BY RemoveAtType DEF TypeOK
  <2>3. drafts' \in [Instances -> Seq(Version)]
    BY <2>1, <2>2 DEF TypeOK
  <2>4. late' \subseteq Instances /\ budget' \in [{"writes", "troubles"} -> Nat]
    BY <1>25, BooksType DEF GenerateFails, TypeOK
  <2> QED
    BY <1>25, <2>3, <2>4 DEF GenerateFails, TypeOK, lockVars, callVars
<1>15. ASSUME NEW i \in Instances, ReadBackFails(i) PROVE TypeOK'
  <2>1. losses' \subseteq Losses /\ budget' \in [{"writes", "troubles"} -> Nat]
    BY <1>15, BooksType DEF ReadBackFails, Losses
  <2>2. owed' \in [Instances -> Nat]
    BY <1>15 DEF ReadBackFails, TypeOK
  <2> QED
    BY <1>15, <2>1, <2>2 DEF ReadBackFails, TypeOK, viewVars, depVars, lockVars, callVars
<1>16. ASSUME NEW i \in Instances, Demand(i) PROVE TypeOK'
  BY <1>16 DEF Demand, TypeOK, viewVars, depVars, lockVars, Labels, IdleCall
<1>17. ASSUME NEW i \in Instances, Deliver(i) PROVE TypeOK'
  <2>1. inbox[i] \in Seq(Version) /\ inbox[i] # <<>>
    BY <1>17 DEF Deliver, TypeOK
  <2>2. Head(inbox[i]) \in Version /\ Tail(inbox[i]) \in Seq(Version)
    BY <2>1
  <2>3. inbox' \in [Instances -> Seq(Version)]
    BY <1>17, <2>2 DEF Deliver, TypeOK
  <2>4. CASE ChannelMatches
    <3>1. /\ Store(i, Head(inbox[i])) /\ Rebuild(i, Head(inbox[i]))
          /\ loaded' = [loaded EXCEPT ![i] = TRUE] /\ waiting' = waiting
          /\ methods' = methods \/ methods' = [methods EXCEPT ![i] = Head(inbox[i])[1]]
      BY <1>17, <2>4 DEF Deliver
    <3>2. cache' \in [Instances -> Version] /\ losses' \subseteq Losses
      BY <3>1, <2>2 DEF TypeOK, Store, Losses
    <3>3. Head(inbox[i])[1] \in Nat
      BY <2>2 DEF Version, Sources
    <3>4. methods' \in [Instances -> Nat] /\ loaded' \in [Instances -> BOOLEAN]
      BY <3>1, <3>3 DEF TypeOK
    <3>5. /\ schema' \in [Instances -> Version] /\ spec' \in [Instances -> Version]
          /\ drafts' \in [Instances -> Seq(Version)] /\ filled' \subseteq Instances
          /\ refused' \subseteq Instances /\ late' \subseteq Instances
          /\ budget' \in [{"writes", "troubles"} -> Nat]
      BY <3>1, <2>2, RebuildType
    <3> QED
      <4>1. /\ kind' = kind /\ db' = db /\ up' = up /\ lock' = lock /\ lapses' = lapses
            /\ pc' = pc /\ at' = at /\ data' = data /\ owed' = owed
        BY <1>17 DEF Deliver, lockVars, callVars
      <4> QED
        BY <2>3, <3>1, <3>2, <3>4, <3>5, <4>1 DEF TypeOK
  <2>5. CASE ~ChannelMatches
    BY <1>17, <2>3, <2>5 DEF Deliver, TypeOK, viewVars, depVars, lockVars, callVars
  <2> QED
    BY <2>4, <2>5
<1>18. ASSUME NEW i \in Instances, Crash(i) PROVE TypeOK'
  <2>1. /\ losses' \subseteq Losses /\ budget' \in [{"writes", "troubles"} -> Nat]
        /\ owed' \in [Instances -> Nat]
    BY <1>18 DEF Crash, TypeOK, Losses, Spend
  <2>2. /\ pc' \in [Calls -> Labels] /\ at' \in [Calls -> 1 .. NumSources + 1]
        /\ data' \in [Calls -> Version]
    BY <1>18, NothingType DEF Crash, TypeOK, Labels
  <2>3. /\ cache' \in [Instances -> Version] /\ schema' \in [Instances -> Version]
        /\ loaded' \in [Instances -> BOOLEAN] /\ spec' \in [Instances -> Version]
        /\ methods' \in [Instances -> Nat]
    BY <1>18, NothingType DEF Crash, TypeOK
  <2>4. inbox' \in [Instances -> Seq(Version)] /\ drafts' \in [Instances -> Seq(Version)]
    BY <1>18 DEF Crash, TypeOK
  <2>5. {filled', waiting', refused', late'} \subseteq SUBSET Instances
    BY <1>18 DEF Crash, TypeOK
  <2> QED
    BY <1>18, <2>1, <2>2, <2>3, <2>4, <2>5 DEF Crash, TypeOK
<1>19. ASSUME Lapse PROVE TypeOK'
  <2>1. CASE Guarding
    <3>1. losses' \subseteq Losses /\ budget' \in [{"writes", "troubles"} -> Nat]
      BY <1>19, <2>1, BooksType DEF Lapse, TypeOK
    <3>2. lock' \in Instances \cup {Free, Orphan} /\ lapses' \in Nat
      BY <1>19, <2>1 DEF Lapse, TypeOK
    <3> QED
      BY <1>19, <3>1, <3>2 DEF Lapse, TypeOK, viewVars, depVars, callVars
  <2>2. CASE ~Guarding
    BY <1>19, <2>2 DEF Lapse, TypeOK, viewVars, depVars, callVars
  <2> QED
    BY <2>1, <2>2
<1>20. ASSUME UNCHANGED vars PROVE TypeOK'
  BY <1>20 DEF vars, TypeOK, lockVars, callVars, viewVars, depVars
<1> QED
  BY <1>1, <1>2, <1>3, <1>4, <1>5, <1>6, <1>7, <1>8, <1>9, <1>10, <1>11, <1>12,
     <1>13, <1>14, <1>15, <1>16, <1>17, <1>18, <1>19, <1>20, <1>21, <1>22, <1>23,
     <1>24, <1>25
     DEF Next, CallStep, InstanceStep

\* The type invariant of CacheSync.
THEOREM TypeCorrect == Spec => []TypeOK
<1>1. Init => TypeOK
  BY CallsAssumption, LockAssumption, BoundAssumption
     DEF Init, TypeOK, Version, Nothing, Sources, Labels
<1> QED
  BY <1>1, TypeStep, PTL DEF Spec

-----------------------------------------------------------------------------
\* The critical section of a finite system of calls is a finite set.
LEMMA CriticalFinite == IsFiniteSet(Critical) /\ Cardinality(Critical) \in Nat
  BY CallsAssumption, FS_Subset, FS_CardinalityType DEF Critical

\* A step that moves no call in or out of the critical section and leaves the
\* lock alone preserves the bound.
LEMMA OverlapFrame ==
  ASSUME OverlapBound, Critical' = Critical, lock' = lock, lapses' = lapses
  PROVE  OverlapBound'
  BY DEF OverlapBound, Guarding

\* A call that enters finds no lock, so nothing was guarded before; a call that
\* leaves makes room for the sibling whose lock it may have deleted.
LEMMA OverlapStep == TypeOK /\ OverlapBound /\ [Next]_vars => OverlapBound'
<1> SUFFICES ASSUME TypeOK, OverlapBound, [Next]_vars PROVE OverlapBound'
  OBVIOUS
<1> USE CallsAssumption, LockAssumption
<1>f. /\ IsFiniteSet(Critical) /\ Cardinality(Critical) \in Nat
      /\ lapses \in Nat
  BY CriticalFinite DEF TypeOK
<1>1. ASSUME NEW c \in Calls, Acquire(c) PROVE OverlapBound'
  <2>1. Critical' = Critical \cup {c} /\ c \notin Critical
    BY <1>1 DEF Acquire, Critical, TypeOK
  <2>2. Cardinality(Critical') = Cardinality(Critical) + 1
    BY <2>1, <1>f, FS_AddElement
  <2>3. ~Guarding
    BY <1>1 DEF Acquire, Guarding, Critical
  <2>4. Guarding'
    BY <1>1, <2>1 DEF Acquire, Guarding
  <2> QED
    BY <1>1, <1>f, <2>2, <2>3, <2>4 DEF Acquire, OverlapBound
<1>2. ASSUME NEW c \in Calls, Release(c) \/ ReleaseFails(c) PROVE OverlapBound'
  <2>1. Critical' = Critical \ {c} /\ c \in Critical
    BY <1>2 DEF Release, ReleaseFails, Critical, TypeOK
  <2>2. Cardinality(Critical') = Cardinality(Critical) - 1
    BY <2>1, <1>f, FS_RemoveElement
  <2>3. lapses' = lapses
    BY <1>2 DEF Release, ReleaseFails, lockVars
  <2> QED
    BY <1>f, <2>2, <2>3 DEF OverlapBound
<1>3. ASSUME NEW i \in Instances, Crash(i) PROVE OverlapBound'
  <2>1. Critical' = {c \in Critical : Home[c] # i} /\ lapses' = lapses
    BY <1>3 DEF Crash, Critical, TypeOK
  <2>2. CASE lock = i /\ Guarding
    <3>1. PICK g \in Critical : Home[g] = i
      BY <2>2 DEF Guarding
    <3>2. Critical' \subseteq Critical \ {g}
      BY <2>1, <3>1
    <3>3. IsFiniteSet(Critical \ {g}) /\ Cardinality(Critical \ {g}) = Cardinality(Critical) - 1
      BY <3>1, <1>f, FS_RemoveElement
    <3>4. Cardinality(Critical') <= Cardinality(Critical) - 1 /\ Cardinality(Critical') \in Nat
      BY <3>2, <3>3, FS_Subset, FS_CardinalityType
    <3> QED
      BY <1>f, <2>1, <2>2, <3>4 DEF OverlapBound
  <2>3. CASE ~(lock = i /\ Guarding)
    <3>1. Cardinality(Critical') <= Cardinality(Critical) /\ Cardinality(Critical') \in Nat
      BY <2>1, <1>f, FS_Subset, FS_CardinalityType
    <3>2. Guarding => Guarding'
      <4> SUFFICES ASSUME Guarding PROVE Guarding'
        OBVIOUS
      <4>1. lock # i /\ lock' = lock
        BY <2>3, <1>3 DEF Crash
      <4> QED
        BY <4>1, <2>1 DEF Guarding
    <3> QED
      BY <1>f, <2>1, <3>1, <3>2 DEF OverlapBound
  <2> QED
    BY <2>2, <2>3
<1>4. ASSUME Lapse PROVE OverlapBound'
  <2>1. Critical' = Critical
    BY <1>4 DEF Lapse, Critical, callVars
  <2>2. lapses' = lapses + (IF Guarding THEN 1 ELSE 0)
    BY <1>4, <1>f DEF Lapse
  <2> QED
    BY <1>f, <2>1, <2>2 DEF OverlapBound
<1>5. ASSUME NEW c \in Calls,
             \/ Skip(c) \/ Query(c) \/ LeaveOut(c) \/ LoadFails(c) \/ Assign(c)
             \/ Publish(c) \/ PublishFails(c) \/ Announce(c) \/ AssignDirect(c)
      PROVE OverlapBound'
  <2>1. Critical' = Critical
    <3>1. ASSUME Skip(c) \/ LoadFails(c) PROVE Critical' = Critical
      BY <3>1 DEF Skip, LoadFails, Leave, Critical, TypeOK
    <3>3. ASSUME Query(c) \/ LeaveOut(c) PROVE Critical' = Critical
      <4>1. pc' = pc \/ (pc[c] = "load" /\ pc' = [pc EXCEPT ![c] = AfterLoad])
        BY <3>3 DEF Query, LeaveOut
      <4> QED
        BY <4>1 DEF AfterLoad, Critical, TypeOK
    <3>2. ASSUME \/ Assign(c) \/ Publish(c) \/ PublishFails(c) \/ Announce(c)
                 \/ AssignDirect(c)
          PROVE  Critical' = Critical
      BY <3>2 DEF Assign, Publish, PublishFails, Announce, AssignDirect, Leave, Critical,
         TypeOK
    <3> QED
      BY <1>5, <3>1, <3>2, <3>3
  <2>2. lock' = lock /\ lapses' = lapses
    BY <1>5 DEF Skip, Query, LeaveOut, LoadFails, Assign, Publish, PublishFails, Announce,
                AssignDirect, lockVars
  <2> QED
    BY <2>1, <2>2, OverlapFrame
<1>6. ASSUME NEW i \in Instances,
             \/ Boot(i) \/ MetadataArrive(i) \/ Wake(i) \/ Generate(i) \/ GenerateFails(i)
             \/ Invalidate(i) \/ ReadBackFails(i) \/ Demand(i) \/ Deliver(i)
             \/ \E s \in Sources : Commit(i, s)
      PROVE OverlapBound'
  <2>1. Critical' = Critical
    BY <1>6 DEF Boot, MetadataArrive, Wake, Generate, GenerateFails, Invalidate,
       ReadBackFails, Demand, Deliver, Commit, IdleCall,
                callVars, Critical, TypeOK
  <2>2. lock' = lock /\ lapses' = lapses
    BY <1>6 DEF Boot, MetadataArrive, Wake, Generate, GenerateFails, Invalidate,
       ReadBackFails, Demand, Deliver, Commit, lockVars
  <2> QED
    BY <2>1, <2>2, OverlapFrame
<1>7. ASSUME UNCHANGED vars PROVE OverlapBound'
  BY <1>7, OverlapFrame DEF vars, lockVars, callVars, Critical
<1> QED
  BY <1>1, <1>2, <1>3, <1>4, <1>5, <1>6, <1>7 DEF Next, CallStep, InstanceStep

\* At any moment, at most one reload of the cache is past acquire() in the whole
\* cluster, plus one for every lock that has vanished under a running reload.
THEOREM OverlapBounded == Spec => []OverlapBound
<1>1. Init => OverlapBound
  <2> SUFFICES ASSUME Init PROVE OverlapBound
    OBVIOUS
  <2>1. Critical = {}
    BY DEF Init, Critical
  <2>2. ~Guarding
    BY <2>1 DEF Guarding
  <2> QED
    BY <2>1, <2>2, FS_EmptySet DEF Init, OverlapBound
<1> QED
  BY <1>1, TypeCorrect, OverlapStep, PTL DEF Spec

\* In particular, while no lock has ever vanished that way, reloads exclude each
\* other.
THEOREM ReloadsExclude ==
  Spec => [](lapses = 0 => \A c, d \in Critical : c = d)
<1>1. OverlapBound => (lapses = 0 => \A c, d \in Critical : c = d)
  <2> SUFFICES ASSUME OverlapBound, lapses = 0, NEW c \in Critical, NEW d \in Critical, c # d
               PROVE  FALSE
    OBVIOUS
  <2>1. Cardinality(Critical) <= 1
    BY CriticalFinite DEF OverlapBound
  <2>2. /\ IsFiniteSet(Critical \ {c})
        /\ Cardinality(Critical \ {c}) = Cardinality(Critical) - 1
    BY CriticalFinite, FS_RemoveElement
  <2>3. Critical \ {c} # {}
    OBVIOUS
  <2>4. Cardinality(Critical \ {c}) # 0
    BY <2>2, <2>3, FS_EmptySet
  <2>5. Cardinality(Critical \ {c}) \in Nat
    BY <2>2, FS_CardinalityType
  <2> QED
    BY <2>1, <2>2, <2>4, <2>5, CriticalFinite
<1> QED
  BY <1>1, OverlapBounded, PTL

-----------------------------------------------------------------------------
\* No step but the TTL, a flush, or the end of a call of the lock's own process
\* makes the lock disappear.
THEOREM ForeignLockIsSafe == Spec => ForeignLockSafe
<1> DEFINE A == \A i \in Instances : lock = i /\ lock' = Free =>
                  \/ Lapse
                  \/ \E c \in Critical : Home[c] = i /\ pc'[c] = "idle"
<1>1. TypeOK /\ [Next]_vars => [A]_vars
  <2> SUFFICES ASSUME TypeOK, Next PROVE A
    BY DEF vars
  <2> SUFFICES ASSUME NEW i \in Instances, lock = i, lock' = Free, ~Lapse
               PROVE  \E c \in Critical : Home[c] = i /\ pc'[c] = "idle"
    OBVIOUS
  <2> USE CallsAssumption, LockAssumption
  <2>1. lock # Free
    OBVIOUS
  <2>2. PICK c \in Calls : Release(c)
    <3>1. ASSUME NEW c \in Calls, CallStep(c) PROVE Release(c)
      BY <2>1, <3>1 DEF CallStep, Acquire, Skip, Query, LeaveOut, LoadFails, Assign,
         Publish,
         PublishFails, Announce, ReleaseFails, AssignDirect, lockVars
    <3>2. ASSUME NEW j \in Instances, InstanceStep(j) PROVE FALSE
      BY <2>1, <3>2 DEF InstanceStep, Boot, MetadataArrive, Wake, Generate,
         GenerateFails, Invalidate, ReadBackFails, Demand, Deliver,
         Crash, Commit, lockVars
    <3> QED
      BY <3>1, <3>2 DEF Next
  <2>3. c \in Critical /\ pc'[c] = "idle" /\ Home[c] = i
    BY <2>1, <2>2 DEF Release, Unlock, Critical, TypeOK
  <2> QED
    BY <2>3
<1> QED
  BY <1>1, TypeCorrect, PTL DEF Spec, ForeignLockSafe

-----------------------------------------------------------------------------
\* Only getMetadata() loads without the lock, and a base cache has no such call.
NoDirect == Base => \A c \in Calls : pc[c] # "direct"

\* The dependents are built from the routes that are served, or excused: a document
\* that waits for the methods is the only one, and from those routes.
Fresh(i) ==
  /\ schema[i] = cache[i] \/ i \in refused
  /\ \/ i \in late
     \/ drafts[i] = <<>> /\ spec[i] = cache[i]
     \/ drafts[i] = <<cache[i]>>

Following == kind = "route" => \A i \in Instances : Announcing(i) \/ Fresh(i)

\* The part of the invariant the dependents rest on.
Followed == TypeOK /\ NoDirect /\ Following

\* A step that leaves an instance's cache and what is built from it alone, and moves
\* none of its calls out of "publish" and "announce", keeps its dependents in step.
LEMMA FreshKept ==
  ASSUME NEW i \in Instances, Announcing(i) \/ Fresh(i),
         cache'[i] = cache[i], schema'[i] = schema[i], spec'[i] = spec[i],
         drafts'[i] = drafts[i], i \in refused' <=> i \in refused, i \in late' <=> i \in late,
         \A c \in Calls : Home[c] = i /\ pc[c] \in {"publish", "announce"}
                              => pc'[c] \in {"publish", "announce"}
  PROVE  Announcing(i)' \/ Fresh(i)'
  BY DEF Announcing, Fresh

LEMMA FollowFrame ==
  ASSUME Following, kind' = kind, cache' = cache, UNCHANGED depVars,
         \A c \in Calls : pc[c] \in {"publish", "announce"} => pc'[c] \in {"publish", "announce"}
  PROVE  Following'
<1>1. ASSUME NEW i \in Instances, Announcing(i) \/ Fresh(i) PROVE Announcing(i)' \/ Fresh(i)'
  BY <1>1, FreshKept DEF depVars
<1> QED
  BY <1>1 DEF Following

\* A rebuild from the routes that are served makes the instance's dependents fresh
\* or excuses them, and touches no other instance's.
LEMMA RebuildFreshens ==
  ASSUME TypeOK, kind = "route", NEW j \in Instances, Rebuild(j, cache'[j])
  PROVE  /\ Fresh(j)'
         /\ \A i \in Instances : i # j =>
              /\ schema'[i] = schema[i] /\ spec'[i] = spec[i] /\ drafts'[i] = drafts[i]
              /\ i \in refused' <=> i \in refused
              /\ i \in late' <=> i \in late
<1> DEFINE v == cache'[j]
<1>1. BuildSchema(j, v) /\ Document(j, v)
  BY DEF Rebuild
<1>2. /\ schema'[j] = v \/ j \in refused'
      /\ \A i \in Instances : i # j => schema'[i] = schema[i] /\ (i \in refused' <=> i \in refused)
  BY <1>1 DEF BuildSchema, TypeOK
<1>3. /\ j \in late' \/ (drafts'[j] = <<>> /\ spec'[j] = v) \/ drafts'[j] = <<v>>
      /\ \A i \in Instances : i # j => /\ spec'[i] = spec[i] /\ drafts'[i] = drafts[i]
                                       /\ (i \in late' <=> i \in late)
  <2>1. CASE drafts[j] # <<>>
    BY <1>1, <2>1 DEF Document, TypeOK
  <2>2. CASE drafts[j] = <<>> /\ j \in filled
    BY <1>1, <2>2 DEF Document, TypeOK
  <2>3. CASE drafts[j] = <<>> /\ j \notin filled
    <3>1. Append(<<>>, v) = <<v>>
      OBVIOUS
    <3> QED
      BY <1>1, <2>3, <3>1 DEF Document, TypeOK
  <2> QED
    BY <2>1, <2>2, <2>3
<1> QED
  BY <1>2, <1>3 DEF Fresh

\* No step changes which cache this is.
LEMMA KindStays ==
  ASSUME [Next]_vars
  PROVE  kind' = kind
  BY DEF Next, CallStep, InstanceStep, vars, Acquire, Skip, Query, LeaveOut, LoadFails,
     Assign, Publish,
     PublishFails, Announce, Release, ReleaseFails, AssignDirect, Boot, MetadataArrive,
     Wake, Generate, GenerateFails, Invalidate,
     ReadBackFails, Demand, Deliver, Crash, Commit, Lapse

\* Every step keeps base caches away from getMetadata()'s way of loading.
LEMMA NoDirectStep == TypeOK /\ NoDirect /\ [Next]_vars => NoDirect'
<1> SUFFICES ASSUME TypeOK, NoDirect, [Next]_vars, Base', NEW d \in Calls PROVE pc'[d] # "direct"
  BY DEF NoDirect
<1>1. kind' = kind
  BY KindStays
<1>2. Base /\ pc[d] # "direct"
  BY <1>1 DEF Base, NoDirect
<1>3. ASSUME NEW c \in Calls, CallStep(c) PROVE pc'[d] # "direct"
  BY <1>2, <1>3 DEF TypeOK, CallStep, Acquire, Skip, Query, AfterLoad, LeaveOut,
     LoadFails, Leave, Assign,
     Publish, PublishFails, Announce, Release, ReleaseFails, AssignDirect
<1>4. ASSUME NEW i \in Instances, InstanceStep(i) PROVE pc'[d] # "direct"
  BY <1>2, <1>4 DEF TypeOK, InstanceStep, Boot, MetadataArrive, Wake, Generate,
     GenerateFails, Invalidate, ReadBackFails, Demand, Deliver,
     Crash, Commit, IdleCall, callVars
<1>5. ASSUME Lapse \/ UNCHANGED vars PROVE pc'[d] # "direct"
  BY <1>2, <1>5 DEF Lapse, vars, callVars
<1> QED
  BY <1>3, <1>4, <1>5 DEF Next

\* A new assignment leaves its call at "publish"; ROUTE_LOADED, a sync message
\* and an invalidation rebuild from the very value that is served.
LEMMA FollowStep == Followed /\ [Next]_vars => Following'
<1> SUFFICES ASSUME Followed, [Next]_vars PROVE Following'
  OBVIOUS
<1> USE CallsAssumption DEF Followed
<1>1. ASSUME NEW c \in Calls,
             \/ Acquire(c) \/ Skip(c) \/ Query(c) \/ PublishFails(c) \/ Publish(c)
             \/ Release(c) \/ ReleaseFails(c) \/ LeaveOut(c)
      PROVE Following'
  <2>1. CASE Base
    <3>1. \A d \in Calls :
            pc[d] \in {"publish", "announce"} => pc'[d] \in {"publish", "announce"}
      BY <1>1, <2>1 DEF Acquire, Skip, Query, AfterLoad, PublishFails, Publish, Release,
                        ReleaseFails, LeaveOut, TypeOK, NoDirect
    <3>2. kind' = kind /\ cache' = cache /\ UNCHANGED depVars
      BY <1>1 DEF Acquire, Skip, Query, PublishFails, Publish, Release, ReleaseFails,
         LeaveOut,
                  viewVars
    <3> QED
      BY <3>1, <3>2, FollowFrame
  <2>2. CASE ~Base
    BY <1>1, <2>2 DEF Base, Following, Acquire, Skip, Query, PublishFails, Publish, Release,
                      ReleaseFails, LeaveOut
  <2> QED
    BY <2>1, <2>2
<1>2. ASSUME NEW c \in Calls, LoadFails(c) PROVE Following'
  <2>1. CASE kind = "route"
    <3>1. pc[c] \in {"load", "direct"} /\ \A d \in Calls : d # c => pc'[d] = pc[d]
      BY <1>2, <2>1 DEF LoadFails, Leave, TypeOK
    <3> QED
      BY <1>2, <3>1, FollowFrame DEF LoadFails, viewVars
  <2>2. CASE kind # "route"
    BY <1>2, <2>2 DEF LoadFails, Following
  <2> QED
    BY <2>1, <2>2
<1>3. ASSUME NEW c \in Calls, Assign(c) PROVE Following'
  <2> SUFFICES ASSUME NEW i \in Instances, kind = "route", ~Announcing(i)'
               PROVE  Fresh(i)'
    BY <1>3 DEF Assign, Following
  <2>1. pc'[c] = "publish" /\ \A d \in Calls : d # c => pc'[d] = pc[d]
    BY <1>3 DEF Assign, Leave, Base, TypeOK
  <2>2. Home[c] # i
    BY <2>1 DEF Announcing
  <2>3. cache'[i] = cache[i]
    BY <1>3, <2>2 DEF Assign, Store, TypeOK
  <2>4. Announcing(i) \/ Fresh(i)
    BY DEF Following
  <2> QED
    BY <1>3, <2>1, <2>2, <2>3, <2>4, FreshKept DEF Assign, depVars
<1>4. ASSUME NEW c \in Calls, Announce(c) PROVE Following'
  <2> SUFFICES ASSUME NEW i \in Instances, kind = "route" PROVE Announcing(i)' \/ Fresh(i)'
    BY <1>4 DEF Announce, Following
  <2>1. /\ Rebuild(Home[c], cache'[Home[c]]) /\ Home[c] \in Instances /\ cache' = cache
        /\ \A d \in Calls : d # c => pc'[d] = pc[d]
    BY <1>4 DEF Announce, TypeOK
  <2>2. CASE i = Home[c]
    BY <2>1, <2>2, RebuildFreshens
  <2>3. CASE i # Home[c]
    <3>1. Announcing(i) \/ Fresh(i)
      BY DEF Following
    <3>2. /\ schema'[i] = schema[i] /\ spec'[i] = spec[i] /\ drafts'[i] = drafts[i]
          /\ i \in refused' <=> i \in refused
          /\ i \in late' <=> i \in late
      BY <2>1, <2>3, RebuildFreshens
    <3> QED
      BY <2>1, <2>3, <3>1, <3>2, FreshKept
  <2> QED
    BY <2>2, <2>3
<1>5. ASSUME NEW c \in Calls, AssignDirect(c) PROVE Following'
  BY <1>5 DEF AssignDirect, NoDirect, Base, Following
<1>6. ASSUME NEW j \in Instances,
             \/ Boot(j) \/ MetadataArrive(j) \/ ReadBackFails(j) \/ Demand(j)
             \/ \E s \in Sources : Commit(j, s)
      PROVE Following'
  <2>1. \A d \in Calls : pc[d] \in {"publish", "announce"} => pc'[d] = pc[d]
    BY <1>6 DEF Boot, MetadataArrive, ReadBackFails, Demand, Commit, IdleCall, callVars,
       TypeOK
  <2> QED
    BY <1>6, <2>1, FollowFrame DEF Boot, MetadataArrive, ReadBackFails, Demand, Commit,
       viewVars
<1>7. ASSUME NEW j \in Instances, Invalidate(j) \/ Wake(j) PROVE Following'
  <2>1. /\ \A d \in Calls : pc[d] \in {"publish", "announce"} => pc'[d] = pc[d]
        /\ kind' = kind /\ cache' = cache
        /\ \/ Rebuild(j, cache'[j])
           \/ UNCHANGED <<schema, spec, drafts, refused, late>>
    BY <1>7 DEF Invalidate, Wake, IdleCall, TypeOK, callVars
  <2> SUFFICES ASSUME NEW i \in Instances, kind = "route" PROVE Announcing(i)' \/ Fresh(i)'
    BY <2>1 DEF Following
  <2>2. Announcing(i) \/ Fresh(i)
    BY DEF Following
  <2>3. CASE i = j /\ Rebuild(j, cache'[j])
    BY <2>3, RebuildFreshens
  <2>4. CASE i # j /\ Rebuild(j, cache'[j])
    <3>1. /\ schema'[i] = schema[i] /\ spec'[i] = spec[i] /\ drafts'[i] = drafts[i]
          /\ i \in refused' <=> i \in refused
          /\ i \in late' <=> i \in late
      BY <2>4, RebuildFreshens
    <3> QED
      BY <2>1, <2>2, <3>1, FreshKept
  <2>5. CASE UNCHANGED <<schema, spec, drafts, refused, late>>
    BY <2>1, <2>2, <2>5, FreshKept
  <2> QED
    BY <2>1, <2>3, <2>4, <2>5
<1>8. ASSUME NEW j \in Instances, Deliver(j) PROVE Following'
  <2>1. CASE ChannelMatches
    <3> SUFFICES ASSUME NEW i \in Instances, kind = "route" PROVE Announcing(i)' \/ Fresh(i)'
      BY <1>8 DEF Deliver, Following
    <3>1. Store(j, Head(inbox[j])) /\ Rebuild(j, Head(inbox[j])) /\ pc' = pc
      BY <1>8, <2>1 DEF Deliver, callVars
    <3>2. cache'[j] = Head(inbox[j]) /\ (i # j => cache'[i] = cache[i])
      BY <3>1 DEF Store, TypeOK
    <3>3. CASE i = j
      BY <3>1, <3>2, <3>3, RebuildFreshens
    <3>4. CASE i # j
      <4>1. Announcing(i) \/ Fresh(i)
        BY DEF Following
      <4>2. /\ schema'[i] = schema[i] /\ spec'[i] = spec[i] /\ drafts'[i] = drafts[i]
            /\ i \in refused' <=> i \in refused
            /\ i \in late' <=> i \in late
        BY <3>1, <3>2, <3>4, RebuildFreshens
      <4> QED
        BY <3>1, <3>2, <3>4, <4>1, <4>2, FreshKept
    <3> QED
      BY <3>3, <3>4
  <2>2. CASE ~ChannelMatches
    BY <1>8, <2>2, FollowFrame DEF Deliver, viewVars, callVars
  <2> QED
    BY <2>1, <2>2
<1>9. ASSUME NEW j \in Instances, Crash(j) PROVE Following'
  <2> SUFFICES ASSUME NEW i \in Instances, kind = "route" PROVE Announcing(i)' \/ Fresh(i)'
    BY <1>9 DEF Crash, Following
  <2>1. CASE i = j
    <3>1. schema'[i] = cache'[i] /\ spec'[i] = cache'[i] /\ drafts'[i] = <<>>
      BY <1>9, <2>1 DEF Crash, TypeOK
    <3> QED
      BY <3>1 DEF Fresh
  <2>2. CASE i # j
    <3>1. /\ cache'[i] = cache[i] /\ schema'[i] = schema[i] /\ spec'[i] = spec[i]
          /\ drafts'[i] = drafts[i] /\ (i \in refused' <=> i \in refused)
          /\ i \in late' <=> i \in late
          /\ \A c \in Calls : Home[c] = i => pc'[c] = pc[c]
      BY <1>9, <2>2 DEF Crash, TypeOK
    <3>2. Announcing(i) \/ Fresh(i)
      BY DEF Following
    <3> QED
      BY <3>1, <3>2, FreshKept
  <2> QED
    BY <2>1, <2>2
<1>10. ASSUME Lapse \/ UNCHANGED vars PROVE Following'
  BY <1>10, FollowFrame DEF Lapse, vars, viewVars, callVars
<1>11. ASSUME NEW j \in Instances, Generate(j) \/ GenerateFails(j) PROVE Following'
  <2> SUFFICES ASSUME NEW i \in Instances, kind = "route" PROVE Announcing(i)' \/ Fresh(i)'
    BY <1>11 DEF Generate, GenerateFails, Following
  <2>1. /\ pc' = pc /\ cache' = cache /\ schema' = schema /\ refused' = refused
        /\ \/ late' = late
           \/ late' = late \cup {j}
    BY <1>11 DEF Generate, GenerateFails, callVars
  <2>2. Announcing(i) \/ Fresh(i)
    BY DEF Following
  <2>3. CASE i # j
    <3>1. spec'[i] = spec[i] /\ drafts'[i] = drafts[i]
      BY <1>11, <2>3 DEF Generate, GenerateFails, TypeOK
    <3> QED
      BY <2>1, <2>2, <2>3, <3>1, FreshKept
  <2>4. CASE i = j /\ GenerateFails(j)
    <3>1. i \in late'
      BY <2>4 DEF GenerateFails
    <3> QED
      BY <2>1, <2>2, <3>1 DEF Announcing, Fresh
  <2>5. CASE i = j /\ Generate(j)
    <3>1. PICK k \in DOMAIN drafts[i] : spec'[i] = drafts[i][k] /\ drafts'[i] = RemoveAt(drafts[i], k)
      BY <2>5 DEF Generate, TypeOK
    <3>2. CASE Announcing(i) \/ i \in late
      BY <2>1, <2>2, <3>2 DEF Announcing, Fresh
    <3>3. CASE ~Announcing(i) /\ i \notin late
      <4>1. schema[i] = cache[i] \/ i \in refused
        BY <2>2, <3>3 DEF Fresh
      <4>2. drafts[i] = <<cache[i]>>
        BY <2>2, <3>1, <3>3 DEF Fresh
      <4>3. spec'[i] = cache[i] /\ drafts'[i] = <<>>
        BY <3>1, <4>2, RemoveAtType DEF TypeOK
      <4> QED
        BY <2>1, <4>1, <4>3 DEF Fresh
    <3> QED
      BY <3>2, <3>3
  <2> QED
    BY <1>11, <2>3, <2>4, <2>5
<1> QED
  BY <1>1, <1>2, <1>3, <1>4, <1>5, <1>6, <1>7, <1>8, <1>9, <1>10, <1>11
     DEF Next, CallStep, InstanceStep

\* The GraphQL schema and the OpenAPI document are built from what the instance
\* serves, except between the assignment of new routes and their ROUTE_LOADED, after
\* a refused schema, and after documents that failed or met on the way.
THEOREM DependentsFollowRoutes == Spec => []DependentsFollow
<1>1. Init => NoDirect /\ Following
  BY DEF Init, NoDirect, Following, Fresh
<1>2. TypeOK /\ NoDirect /\ Following /\ [Next]_vars => NoDirect' /\ Following'
  BY NoDirectStep, FollowStep DEF Followed
<1>3. Following => DependentsFollow
  <2>1. ASSUME NEW i \in Instances, drafts[i] = <<cache[i]>> PROVE drafts[i] # <<>>
    BY <2>1
  <2> QED
    BY <2>1 DEF Following, Fresh, DependentsFollow
<1> QED
  BY <1>1, <1>2, <1>3, TypeCorrect, PTL DEF Spec

-----------------------------------------------------------------------------
\* Nothing that was read is newer than the database.
Below(v) == \A s \in Reread : v[s] <= db[s]

\* What was read of source s is current, or is never read again.
Current(v, s) == ReadOnce(s) \/ v[s] = db[s]

CachesBelow  == \A i \in Instances : Below(cache[i])
QueuesBelow  == \A i \in Instances : \A k \in 1 .. Len(inbox[i]) : Below(inbox[i][k])
LoadsBelow   == \A c \in Calls : Below(data[c])
NothingAhead == CachesBelow /\ QueuesBelow /\ LoadsBelow

\* A call that is to load starts with the first source.
Rewound ==
  \A c \in Calls :
    pc[c] \in {"idle", "acquire", "announce", "release"} \/ (Base /\ pc[c] = "publish")
      => at[c] = 1

\* The call will still bring the current version of source s to instance i, or
\* to the instances it publishes to.
Carries(c, i, s) ==
  \/ pc[c] = "acquire"
  \/ pc[c] = "load" /\ (at[c] <= s \/ Current(data[c], s))
  \/ pc[c] = "assign" /\ Current(data[c], s) /\ (Base \/ Home[c] = i)
  \/ pc[c] = "publish" /\ Current(Payload(c), s)

\* A message with the current version of source s waits for instance i.
Queued(i, s) == \E k \in 1 .. Len(inbox[i]) : Current(inbox[i][k], s)

\* Instance i has the current version of source s, or it is on its way.
OnItsWay(i, s) ==
  \/ Current(cache[i], s)
  \/ \E j \in Instances : owed[j] > 0
  \/ \E c \in Calls : Carries(c, i, s)
  \/ Queued(i, s)

\* Instance i has loaded its cache, or is about to.
Loads == {"acquire", "load", "assign", "publish", "announce"}
Loading(i) == loaded[i] \/ \E c \in Calls : Home[c] = i /\ pc[c] \in Loads

\* As long as nothing was lost, every running instance recovers by itself.
Recovering ==
  losses = {} => \A i \in up : Loading(i) /\ \A s \in Sources : OnItsWay(i, s)

Account == TypeOK /\ NothingAhead /\ Rewound /\ Recovering

-----------------------------------------------------------------------------
\* Versions of the database only grow, so what was below stays below.
LEMMA DbGrows ==
  ASSUME TypeOK, [Next]_vars
  PROVE  \A s \in Sources : db[s] <= db'[s] /\ db[s] \in Nat
<1> \A s \in Sources : db[s] \in Nat
  BY DEF TypeOK, Version
<1>1. ASSUME NEW c \in Calls, CallStep(c) PROVE db' = db
  BY <1>1 DEF CallStep, Acquire, Skip, Query, LeaveOut, LoadFails, Assign, Publish,
     PublishFails, Announce,
     Release, ReleaseFails, AssignDirect
<1>2. ASSUME NEW i \in Instances, InstanceStep(i), ~\E s \in Sources : Commit(i, s) PROVE db' = db
  BY <1>2 DEF InstanceStep, Boot, MetadataArrive, Wake, Generate, GenerateFails,
     Invalidate, ReadBackFails, Demand, Deliver, Crash
<1>3. ASSUME NEW i \in Instances, NEW t \in Sources, Commit(i, t)
      PROVE  \A s \in Sources : db[s] <= db'[s]
  BY <1>3 DEF Commit, TypeOK, Version
<1>4. ASSUME Lapse \/ UNCHANGED vars PROVE db' = db
  BY <1>4 DEF Lapse, vars
<1> QED
  BY <1>1, <1>2, <1>3, <1>4 DEF Next

\* An instance's cache becomes a vector that is not ahead of the database: no
\* cache is ahead, and without "crossed" no cache loses a current version.
LEMMA StoreKeeps ==
  ASSUME TypeOK, NEW j \in Instances, NEW v \in Version, Store(j, v), Below(v),
         db' = db, kind' = kind, CachesBelow
  PROVE  /\ CachesBelow'
         /\ losses' = {} => losses = {}
         /\ losses' = {} => \A i \in Instances, s \in Sources :
                              Current(cache[i], s) => Current(cache[i], s)'
<1>1. cache'[j] = v /\ \A i \in Instances : i # j => cache'[i] = cache[i]
  BY DEF Store, TypeOK
<1>2. losses' = {} => losses = {} /\ Covers(v, cache[j])
  BY DEF Store
<1>3. \A s \in Sources : v[s] \in Nat /\ cache[j][s] \in Nat /\ db[s] \in Nat
  BY DEF TypeOK, Version
<1>4. CachesBelow'
  BY <1>1 DEF CachesBelow, Below, Reread, ReadOnce
<1>5. ASSUME losses' = {}, NEW i \in Instances, NEW s \in Sources, Current(cache[i], s)
      PROVE  Current(cache[i], s)'
  <2>1. CASE i = j
    BY <1>1, <1>2, <1>3, <1>5, <2>1 DEF Covers, Below, CachesBelow, Current, Reread,
       ReadOnce
  <2>2. CASE i # j
    BY <1>1, <1>5, <2>2 DEF Current, ReadOnce
  <2> QED
    BY <2>1, <2>2
<1> QED
  BY <1>2, <1>4, <1>5


\* A part the step leaves alone is no further ahead than before.
LEMMA AheadFrame ==
  ASSUME TypeOK, NothingAhead, [Next]_vars
  PROVE  /\ cache' = cache => CachesBelow'
         /\ inbox' = inbox => QueuesBelow'
         /\ data' = data => LoadsBelow'
<1>k. kind' = kind
  BY KindStays
<1> USE <1>k DEF Reread, ReadOnce
<1>1. \A s \in Sources : db[s] <= db'[s] /\ db[s] \in Nat /\ db'[s] \in Nat
  BY DbGrows, TypeStep DEF TypeOK, Version
<1>2. \A v \in Version : Below(v) => Below(v)'
  BY <1>1 DEF Below, Version
<1>3. cache' = cache => CachesBelow'
  BY <1>2 DEF NothingAhead, CachesBelow, Below, TypeOK
<1>4. inbox' = inbox => QueuesBelow'
  <2> SUFFICES ASSUME inbox' = inbox, NEW i \in Instances, NEW k \in 1 .. Len(inbox[i])
               PROVE  Below(inbox[i][k])'
    BY DEF QueuesBelow
  <2>1. inbox[i][k] \in Version /\ Below(inbox[i][k])
    BY DEF NothingAhead, QueuesBelow, TypeOK
  <2> QED
    BY <2>1, <1>2 DEF Below
<1>5. data' = data => LoadsBelow'
  BY <1>2 DEF NothingAhead, LoadsBelow, Below, TypeOK
<1> QED
  BY <1>3, <1>4, <1>5

\* The queue of a subscriber loses its head or gains what is published.
LEMMA QueueShapes ==
  ASSUME NEW q \in Seq(Version), NEW v \in Version
  PROVE  /\ Append(q, v) \in Seq(Version) /\ Len(Append(q, v)) = Len(q) + 1
         /\ \A k \in 1 .. Len(q) : Append(q, v)[k] = q[k]
         /\ Append(q, v)[Len(q) + 1] = v
         /\ q # <<>> => /\ Head(q) = q[1] /\ Head(q) \in Version /\ Tail(q) \in Seq(Version)
                        /\ Len(q) \in Nat \ {0} /\ Len(Tail(q)) = Len(q) - 1
                        /\ \A k \in 1 .. Len(Tail(q)) : Tail(q)[k] = q[k + 1]
  OBVIOUS

\* No step puts a version into a cache, a queue or a load that the database has
\* not reached.
LEMMA NothingAheadStep == TypeOK /\ NothingAhead /\ [Next]_vars => NothingAhead'
<1> SUFFICES ASSUME TypeOK, NothingAhead, [Next]_vars PROVE NothingAhead'
  OBVIOUS
<1>k. kind' = kind
  BY KindStays
<1> USE CallsAssumption, <1>k DEF Reread, ReadOnce
<1>f. /\ cache' = cache => CachesBelow'
      /\ inbox' = inbox => QueuesBelow'
      /\ data' = data => LoadsBelow'
  BY AheadFrame
<1>n. \A s \in Sources : Nothing[s] <= db[s]
  BY DEF Nothing, TypeOK, Version
<1>1. ASSUME NEW c \in Calls, Query(c) PROVE NothingAhead'
  <2>1. db' = db /\ data[c] \in Version /\ db \in Version
    BY <1>1 DEF Query, TypeOK
  <2>2. \A d \in Calls : Below(data'[d])
    <3> SUFFICES ASSUME NEW d \in Calls, NEW s \in Sources PROVE ReadOnce(s) \/ data'[d][s] <= db[s]
      BY DEF Below
    <3>1. (ReadOnce(s) \/ data[d][s] <= db[s]) /\ db[s] \in Nat
      BY <2>1 DEF NothingAhead, LoadsBelow, Below, Version, Reread
    <3>2. ReadOnce(s) \/ data'[d][s] = data[d][s] \/ data'[d][s] = db[s]
      BY <1>1, <2>1 DEF Query, TypeOK, Version
    <3> QED
      BY <3>1, <3>2
  <2>3. LoadsBelow'
    BY <2>1, <2>2 DEF LoadsBelow, Below
  <2> QED
    BY <1>1, <1>f, <2>3 DEF Query, viewVars, depVars, NothingAhead
<1>2. ASSUME NEW c \in Calls, LoadFails(c) PROVE NothingAhead'
  <2>1. LoadsBelow'
    BY <1>2, <1>n DEF LoadFails, Leave, NothingAhead, LoadsBelow, Below, TypeOK
  <2> QED
    BY <1>2, <1>f, <2>1 DEF LoadFails, viewVars, depVars, NothingAhead
<1>3. ASSUME NEW c \in Calls, Assign(c) \/ AssignDirect(c) PROVE NothingAhead'
  <2>1. db' = db /\ inbox' = inbox /\ Store(Home[c], data[c])
    BY <1>3 DEF Assign, AssignDirect
  <2>2. data' = [data EXCEPT ![c] = Nothing]
    BY <1>3 DEF Assign, AssignDirect, Leave
  <2>3. LoadsBelow'
    BY <2>1, <2>2, <1>n DEF NothingAhead, LoadsBelow, Below, TypeOK
  <2>4. CachesBelow'
    BY <2>1, StoreKeeps DEF NothingAhead, LoadsBelow, TypeOK
  <2> QED
    BY <1>f, <2>1, <2>3, <2>4 DEF NothingAhead
<1>4. ASSUME NEW c \in Calls, Publish(c) PROVE NothingAhead'
  <2>1. Payload(c) \in Version /\ Below(Payload(c)) /\ db' = db
    BY <1>4 DEF Publish, Payload, NothingAhead, CachesBelow, LoadsBelow, TypeOK
  <2>2. QueuesBelow'
    <3> SUFFICES ASSUME NEW i \in Instances, NEW k \in 1 .. Len(inbox'[i])
                 PROVE  Below(inbox'[i][k])
      BY <2>1 DEF QueuesBelow, Below
    <3>1. inbox[i] \in Seq(Version) /\ \A l \in 1 .. Len(inbox[i]) : Below(inbox[i][l])
      BY DEF NothingAhead, QueuesBelow, TypeOK
    <3>2. CASE inbox'[i] = inbox[i]
      BY <3>1, <3>2
    <3>3. CASE inbox'[i] = Append(inbox[i], Payload(c))
      <4>1. k \in 1 .. Len(inbox[i]) \/ k = Len(inbox[i]) + 1
        BY <2>1, <3>1, <3>3, QueueShapes
      <4> QED
        BY <2>1, <3>1, <3>3, <4>1, QueueShapes
    <3> QED
      BY <1>4, <3>2, <3>3 DEF Publish
  <2> QED
    BY <1>4, <1>f, <2>2 DEF Publish, viewVars, depVars, NothingAhead
<1>5. ASSUME NEW j \in Instances, Deliver(j) PROVE NothingAhead'
  <2> DEFINE q == inbox[j]
  <2>1. q \in Seq(Version) /\ q # <<>> /\ db' = db /\ inbox' = [inbox EXCEPT ![j] = Tail(q)]
    BY <1>5 DEF Deliver, TypeOK
  <2>2. \A l \in 1 .. Len(q) : Below(q[l])
    BY DEF NothingAhead, QueuesBelow
  <2>3. /\ Head(q) = q[1] /\ Head(q) \in Version /\ Len(q) \in Nat \ {0}
        /\ Len(Tail(q)) = Len(q) - 1 /\ \A k \in 1 .. Len(Tail(q)) : Tail(q)[k] = q[k + 1]
    BY <2>1, QueueShapes, NothingType
  <2>4. QueuesBelow'
    <3> SUFFICES ASSUME NEW i \in Instances, NEW k \in 1 .. Len(inbox'[i])
                 PROVE  Below(inbox'[i][k])
      BY <2>1 DEF QueuesBelow, Below
    <3>1. CASE i = j
      <4>1. inbox'[i] = Tail(q)
        BY <2>1, <3>1 DEF TypeOK
      <4>2. k + 1 \in 1 .. Len(q) /\ inbox'[i][k] = q[k + 1]
        BY <2>3, <4>1
      <4> QED
        BY <2>2, <4>2
    <3>2. CASE i # j
      BY <2>1, <3>2 DEF NothingAhead, QueuesBelow
    <3> QED
      BY <3>1, <3>2
  <2>5. CachesBelow'
    <3>1. CASE ChannelMatches
      <4>1. Store(j, Head(q)) /\ Below(Head(q))
        BY <1>5, <3>1, <2>2, <2>3 DEF Deliver
      <4> QED
        BY <2>1, <2>3, <4>1, StoreKeeps DEF NothingAhead
    <3>2. CASE ~ChannelMatches
      BY <1>5, <3>2, <1>f DEF Deliver, viewVars, depVars
    <3> QED
      BY <3>1, <3>2
  <2> QED
    BY <1>5, <1>f, <2>4, <2>5 DEF Deliver, callVars, NothingAhead
<1>6. ASSUME NEW j \in Instances, Crash(j) PROVE NothingAhead'
  <2>1. db' = db
    BY <1>6 DEF Crash
  <2>2. CachesBelow'
    BY <1>6, <1>n, <2>1 DEF Crash, NothingAhead, CachesBelow, Below, TypeOK
  <2>3. LoadsBelow'
    BY <1>6, <1>n, <2>1 DEF Crash, NothingAhead, LoadsBelow, Below, TypeOK
  <2>4. QueuesBelow'
    <3>1. \A i \in Instances : inbox'[i] = inbox[i] \/ inbox'[i] = <<>>
      BY <1>6 DEF Crash, TypeOK
    <3> QED
      BY <2>1, <3>1 DEF NothingAhead, QueuesBelow, Below
  <2> QED
    BY <2>2, <2>3, <2>4 DEF NothingAhead
<1>7. ASSUME NEW c \in Calls,
             \/ Acquire(c) \/ Skip(c) \/ LeaveOut(c) \/ PublishFails(c) \/ Announce(c)
             \/ Release(c) \/ ReleaseFails(c)
      PROVE NothingAhead'
  BY <1>7, <1>f DEF Acquire, Skip, LeaveOut, PublishFails, Announce, Release,
     ReleaseFails, viewVars, depVars,
                    NothingAhead
<1>8. ASSUME NEW j \in Instances,
             \/ Boot(j) \/ MetadataArrive(j) \/ Wake(j) \/ Generate(j) \/ GenerateFails(j)
             \/ Invalidate(j) \/ ReadBackFails(j) \/ Demand(j)
             \/ \E s \in Sources : Commit(j, s)
      PROVE NothingAhead'
  BY <1>8, <1>f DEF Boot, MetadataArrive, Wake, Generate, GenerateFails, Invalidate,
     ReadBackFails, Demand, Commit, viewVars, depVars, callVars,
                    NothingAhead
<1>9. ASSUME Lapse \/ UNCHANGED vars PROVE NothingAhead'
  BY <1>9, <1>f DEF Lapse, vars, viewVars, depVars, callVars, NothingAhead
<1> QED
  BY <1>1, <1>2, <1>3, <1>4, <1>5, <1>6, <1>7, <1>8, <1>9 DEF Next, CallStep, InstanceStep

\* A call leaves its load behind whenever it goes on to another one.
LEMMA RewoundStep == TypeOK /\ NoDirect /\ Rewound /\ [Next]_vars => Rewound'
<1> SUFFICES ASSUME TypeOK, NoDirect, Rewound, [Next]_vars, NEW d \in Calls,
                    pc'[d] \in {"idle", "acquire", "announce", "release"}
                      \/ (Base' /\ pc'[d] = "publish")
             PROVE  at'[d] = 1
  BY DEF Rewound
<1>1. kind' = kind
  BY KindStays
<1>2. Base' <=> Base
  BY <1>1 DEF Base
<1>3. ASSUME NEW c \in Calls, Acquire(c) \/ Skip(c) \/ Release(c) \/ ReleaseFails(c)
      PROVE  at'[d] = 1
  BY <1>2, <1>3 DEF TypeOK, Rewound, Acquire, Skip, Release, ReleaseFails, lockVars
<1>4. ASSUME NEW c \in Calls, Query(c) \/ LeaveOut(c) PROVE at'[d] = 1
  BY <1>2, <1>4 DEF TypeOK, Rewound, Query, LeaveOut, AfterLoad
<1>5. ASSUME NEW c \in Calls, LoadFails(c) \/ Assign(c) \/ AssignDirect(c) PROVE at'[d] = 1
  BY <1>2, <1>5 DEF TypeOK, Rewound, LoadFails, Assign, AssignDirect, Leave
<1>6. ASSUME NEW c \in Calls, Publish(c) \/ PublishFails(c) \/ Announce(c) PROVE at'[d] = 1
  BY <1>2, <1>6 DEF TypeOK, Rewound, Publish, PublishFails, Announce, lockVars
<1>7. ASSUME NEW i \in Instances, InstanceStep(i) PROVE at'[d] = 1
  BY <1>2, <1>7 DEF TypeOK, Rewound, InstanceStep, Boot, MetadataArrive, Wake, Generate,
     GenerateFails, Invalidate, ReadBackFails, Demand,
     Deliver, Crash, Commit, IdleCall, callVars
<1>8. ASSUME Lapse \/ UNCHANGED vars PROVE at'[d] = 1
  BY <1>2, <1>8 DEF Rewound, Lapse, vars, callVars
<1> QED
  BY <1>3, <1>4, <1>5, <1>6, <1>7, <1>8 DEF Next, CallStep

\* A call the step does not touch still carries what it carried, as long as its
\* instance's cache does not lose a current version.
LEMMA CarriesFrame ==
  ASSUME NEW c \in Calls, NEW i \in Instances, NEW s \in Sources, Carries(c, i, s),
         pc'[c] = pc[c], at'[c] = at[c], data'[c] = data[c], db' = db, kind' = kind,
         Current(cache[Home[c]], s) => Current(cache[Home[c]], s)'
  PROVE  Carries(c, i, s)'
  BY DEF Carries, Payload, Base, Current, ReadOnce

\* What has to be kept for an instance to stay current or on its way there.
LEMMA OnItsWayKept ==
  ASSUME NEW i \in Instances, NEW s \in Sources, OnItsWay(i, s), db' = db,
         Current(cache[i], s) => Current(cache[i], s)',
         (\E j \in Instances : owed[j] > 0) => OnItsWay(i, s)',
         Queued(i, s) => OnItsWay(i, s)',
         \A c \in Calls : Carries(c, i, s) => OnItsWay(i, s)'
  PROVE  OnItsWay(i, s)'
  BY DEF OnItsWay

LEMMA LoadingKept ==
  ASSUME NEW i \in Instances, Loading(i), loaded[i] => loaded'[i],
         \A c \in Calls : Home[c] = i /\ pc[c] \in Loads => loaded'[i] \/ pc'[c] \in Loads
  PROVE  Loading(i)'
  BY DEF Loading

\* A step that touches neither queues nor caches nor what is owed, and after
\* which every call that carries something still does, keeps the account.
LEMMA RecoveringFrame ==
  ASSUME Recovering, up' = up, db' = db, kind' = kind, cache' = cache, loaded' = loaded,
  inbox' = inbox,
         owed' = owed, losses' = losses, up \subseteq Instances,
         \A c \in Calls : pc[c] \in Loads => loaded[Home[c]] \/ pc'[c] \in Loads,
         \A c \in Calls, i \in Instances, s \in Sources :
            Carries(c, i, s) => Carries(c, i, s)'
  PROVE  Recovering'
<1> SUFFICES ASSUME losses = {}, NEW i \in up, NEW s \in Sources
             PROVE  Loading(i)' /\ OnItsWay(i, s)'
  BY BoundAssumption DEF Recovering, Sources
<1>1. Loading(i) /\ OnItsWay(i, s)
  BY DEF Recovering
<1>2. Loading(i)'
  BY <1>1, LoadingKept
<1>3. OnItsWay(i, s)'
  BY <1>1 DEF OnItsWay, Queued, Current, ReadOnce
<1> QED
  BY <1>2, <1>3

\* A call that is about to load brings everything to everyone.
LEMMA FreshCall ==
  ASSUME NEW c \in Calls, pc'[c] = "acquire"
  PROVE  /\ \A i \in Instances, s \in Sources : OnItsWay(i, s)'
         /\ Loading(Home[c])'
  BY DEF OnItsWay, Carries, Loading, Loads

\* The account survives every step. Sync messages must match their channel: with
\* NODE_NAME set they are dropped and other instances are never told.
LEMMA RecoveringStep ==
  ASSUME ~NodeName, Account, [Next]_vars
  PROVE  Recovering'
<1> USE CallsAssumption, BoundAssumption DEF Account, Current, ReadOnce
<1>u. up \subseteq Instances
  BY DEF TypeOK
<1>s. Sources # {}
  BY DEF Sources
<1>1. ASSUME NEW c \in Calls, Skip(c) \/ LeaveOut(c) \/ LoadFails(c) \/ PublishFails(c)
      PROVE Recovering'
  BY <1>1 DEF Skip, LeaveOut, LoadFails, PublishFails, Lose, Recovering
<1>2. ASSUME NEW c \in Calls, Acquire(c) PROVE Recovering'
  <2>1. at[c] = 1 /\ pc'[c] = "load"
    BY <1>2 DEF Acquire, Rewound, TypeOK
  <2>2. \A i \in Instances, s \in Sources : Carries(c, i, s)'
    BY <1>2, <2>1 DEF Acquire, Carries, Sources
  <2>3. \A d \in Calls, i \in Instances, s \in Sources : Carries(d, i, s) => Carries(d, i, s)'
    <3> SUFFICES ASSUME NEW d \in Calls, d # c, NEW i \in Instances, NEW s \in Sources,
                        Carries(d, i, s)
                 PROVE  Carries(d, i, s)'
      BY <2>2
    <3>1. pc'[d] = pc[d]
      BY <1>2 DEF Acquire, TypeOK
    <3> QED
      BY <1>2, <3>1, CarriesFrame DEF Acquire, viewVars, depVars
  <2>4. \A d \in Calls : pc[d] \in Loads => pc'[d] \in Loads
    BY <1>2 DEF Acquire, TypeOK, Loads
  <2> QED
    BY <1>2, <1>u, <2>3, <2>4, RecoveringFrame DEF Acquire, viewVars, depVars
<1>3. ASSUME NEW c \in Calls, Query(c) PROVE Recovering'
  <2>1. /\ db' = db /\ kind' = kind /\ cache' = cache
        /\ \A d \in Calls : d # c => pc'[d] = pc[d] /\ at'[d] = at[d] /\ data'[d] = data[d]
    BY <1>3 DEF Query, viewVars, depVars, TypeOK
  <2>2. /\ at'[c] = at[c] + 1 /\ at[c] \in 1 .. NumSources
        /\ ReadOnce(at[c]) \/ data'[c][at[c]] = db[at[c]]
        /\ \A s \in Sources : s # at[c] => ReadOnce(s) \/ data'[c][s] = data[c][s]
    BY <1>3 DEF Query, TypeOK, Sources, Version
  <2>3. \A i \in Instances, s \in Sources : Carries(c, i, s) => Carries(c, i, s)'
    <3> SUFFICES ASSUME NEW i \in Instances, NEW s \in Sources, Carries(c, i, s)
                 PROVE  Carries(c, i, s)'
      OBVIOUS
    <3>1. pc[c] = "load" /\ (at[c] <= s \/ Current(data[c], s))
      BY <1>3 DEF Query, Carries
    <3>2. Current(data[c], s)' \/ at'[c] <= s
      BY <2>1, <2>2, <3>1 DEF Sources
    <3>3. CASE at[c] # NumSources
      <4>1. pc'[c] = "load"
        BY <1>3, <3>1, <3>3 DEF Query
      <4> QED
        BY <2>1, <3>2, <4>1 DEF Carries
    <3>4. CASE at[c] = NumSources
      <4>1. pc'[c] = AfterLoad
        BY <1>3, <3>1, <3>4 DEF Query, TypeOK
      <4>2. Current(data[c], s)'
        BY <2>2, <3>2, <3>4 DEF Sources
      <4> QED
        BY <2>1, <4>1, <4>2 DEF Carries, AfterLoad, Payload, Base
    <3> QED
      BY <3>3, <3>4
  <2>4. \A d \in Calls, i \in Instances, s \in Sources : Carries(d, i, s) => Carries(d, i, s)'
    <3> SUFFICES ASSUME NEW d \in Calls, d # c, NEW i \in Instances, NEW s \in Sources,
                        Carries(d, i, s)
                 PROVE  Carries(d, i, s)'
      BY <2>3
    <3> QED
      BY <2>1, CarriesFrame
  <2>5. \A d \in Calls : pc[d] \in Loads => pc'[d] \in Loads
    BY <1>3 DEF Query, AfterLoad, TypeOK, Loads
  <2> QED
    BY <1>3, <1>u, <2>4, <2>5, RecoveringFrame DEF Query, viewVars, depVars
<1>4. ASSUME NEW c \in Calls, Announce(c) PROVE Recovering'
  <2> SUFFICES ASSUME losses = {}, NEW i \in up, NEW s \in Sources
               PROVE  Loading(i)' /\ OnItsWay(i, s)'
    BY <1>4, <1>s DEF Announce, Recovering
  <2>1. Loading(i) /\ OnItsWay(i, s)
    BY DEF Recovering
  <2>2. /\ \A d \in Calls : d # c => pc'[d] = pc[d]
        /\ \A d \in Calls : at'[d] = at[d] /\ data'[d] = data[d]
        /\ pc[c] = "announce"
        /\ \A j \in Instances : loaded'[j] = (j = Home[c] \/ loaded[j])
    BY <1>4 DEF Announce, TypeOK
  <2>3. Loading(i)'
    BY <1>u, <2>1, <2>2, LoadingKept
  <2>4. \A d \in Calls : Carries(d, i, s) => Carries(d, i, s)'
    <3> SUFFICES ASSUME NEW d \in Calls, Carries(d, i, s) PROVE Carries(d, i, s)'
      OBVIOUS
    <3>1. d # c
      BY <2>2 DEF Carries
    <3> QED
      BY <1>4, <1>u, <2>2, <3>1, CarriesFrame DEF Announce
  <2>5. OnItsWay(i, s)'
    BY <1>4, <2>1, <2>4 DEF Announce, OnItsWay, Queued
  <2> QED
    BY <2>3, <2>5
<1>5. ASSUME NEW c \in Calls, Release(c) \/ ReleaseFails(c) PROVE Recovering'
  <2>1. /\ pc[c] = "release" /\ db' = db /\ kind' = kind /\ cache' = cache
        /\ \A d \in Calls : d # c => pc'[d] = pc[d]
        /\ at' = at /\ data' = data
    BY <1>5 DEF Release, ReleaseFails, viewVars, depVars, lockVars, TypeOK
  <2>2. \A d \in Calls, i \in Instances, s \in Sources : Carries(d, i, s) => Carries(d, i, s)'
    <3> SUFFICES ASSUME NEW d \in Calls, NEW i \in Instances, NEW s \in Sources,
                        Carries(d, i, s)
                 PROVE  Carries(d, i, s)'
      OBVIOUS
    <3>1. d # c
      BY <2>1 DEF Carries
    <3> QED
      BY <2>1, <3>1, CarriesFrame
  <2>3. \A d \in Calls : pc[d] \in Loads => pc'[d] \in Loads
    BY <2>1 DEF Loads
  <2> QED
    BY <1>5, <1>u, <2>1, <2>2, <2>3, RecoveringFrame DEF Release, ReleaseFails, viewVars,
       depVars
<1>6. ASSUME NEW c \in Calls, Publish(c) PROVE Recovering'
  <2> SUFFICES ASSUME losses = {}, NEW i \in up, NEW s \in Sources
               PROVE  Loading(i)' /\ OnItsWay(i, s)'
    BY <1>6, <1>s DEF Publish, Recovering
  <2> DEFINE v == Payload(c)
  <2>1. Loading(i) /\ OnItsWay(i, s) /\ i \in Instances
    BY <1>u DEF Recovering
  <2>2. /\ pc[c] = "publish" /\ db' = db /\ kind' = kind /\ cache' = cache /\ loaded' = loaded
        /\ owed' = owed /\ at' = at /\ data' = data
        /\ \A d \in Calls : d # c => pc'[d] = pc[d]
        /\ pc'[c] = IF Base THEN "announce" ELSE "assign"
    BY <1>6 DEF Publish, viewVars, depVars, TypeOK
  <2>3. Loading(i)'
    BY <2>1, <2>2, LoadingKept DEF Loads
  <2>4. inbox[i] \in Seq(Version) /\ v \in Version
    BY <2>1, <2>2 DEF Payload, TypeOK
  <2>5. /\ i # Home[c] => inbox'[i] = Append(inbox[i], v)
        /\ i = Home[c] => inbox'[i] = inbox[i]
    BY <1>6, <2>1 DEF Publish, Receivers
  <2>6. Queued(i, s) => Queued(i, s)'
    <3> SUFFICES ASSUME Queued(i, s) PROVE Queued(i, s)'
      OBVIOUS
    <3>1. PICK k \in 1 .. Len(inbox[i]) : Current(inbox[i][k], s)
      BY DEF Queued
    <3>2. k \in 1 .. Len(inbox'[i]) /\ inbox'[i][k] = inbox[i][k]
      <4>1. CASE i = Home[c]
        BY <2>5, <4>1
      <4>2. CASE i # Home[c]
        <5>1. /\ inbox'[i] = Append(inbox[i], v) /\ Len(inbox'[i]) = Len(inbox[i]) + 1
              /\ inbox'[i][k] = inbox[i][k]
          BY <2>4, <2>5, <4>2, QueueShapes
        <5>2. Len(inbox[i]) \in Nat
          BY <2>4
        <5> QED
          BY <5>1, <5>2
      <4> QED
        BY <4>1, <4>2
    <3> QED
      BY <2>2, <3>1, <3>2 DEF Queued
  <2>7. ASSUME Carries(c, i, s) PROVE OnItsWay(i, s)'
    <3>1. Current(v, s)
      BY <2>2, <2>7 DEF Carries
    <3>2. CASE i # Home[c]
      <4>1. Queued(i, s)'
        <5>1. inbox'[i][Len(inbox[i]) + 1] = v /\ Len(inbox[i]) + 1 \in 1 .. Len(inbox'[i])
          BY <2>4, <2>5, <3>2, QueueShapes
        <5> QED
          BY <2>2, <3>1, <5>1 DEF Queued
      <4> QED
        BY <4>1 DEF OnItsWay
    <3>3. CASE i = Home[c] /\ Base
      BY <2>2, <3>1, <3>3 DEF Payload, OnItsWay
    <3>4. CASE i = Home[c] /\ ~Base
      <4>1. Carries(c, i, s)'
        BY <2>2, <3>1, <3>4 DEF Payload, Carries
      <4> QED
        BY <4>1 DEF OnItsWay
    <3> QED
      BY <3>2, <3>3, <3>4
  <2>8. ASSUME NEW d \in Calls, d # c, Carries(d, i, s) PROVE OnItsWay(i, s)'
    <3>1. Carries(d, i, s)'
      BY <2>1, <2>2, <2>8, CarriesFrame
    <3> QED
      BY <3>1 DEF OnItsWay
  <2>9. OnItsWay(i, s)'
    BY <2>1, <2>2, <2>6, <2>7, <2>8 DEF OnItsWay
  <2> QED
    BY <2>3, <2>9
<1>7. ASSUME NEW c \in Calls, Assign(c) \/ AssignDirect(c) PROVE Recovering'
  <2> SUFFICES ASSUME losses' = {}, NEW i \in up, NEW s \in Sources
               PROVE  Loading(i)' /\ OnItsWay(i, s)'
    BY <1>7, <1>s DEF Assign, AssignDirect, Recovering
  <2>1. /\ pc[c] \in {"assign", "direct"} /\ db' = db /\ kind' = kind /\ inbox' = inbox
        /\ owed' = owed /\ Store(Home[c], data[c])
        /\ pc[c] = "assign" => pc'[c] = IF Base THEN "publish" ELSE "release"
        /\ pc[c] = "direct" \/ ~Base => loaded'[Home[c]] = TRUE
        /\ \A j \in Instances : loaded[j] => loaded'[j]
        /\ \A d \in Calls : d # c => pc'[d] = pc[d] /\ at'[d] = at[d] /\ data'[d] = data[d]
    BY <1>7 DEF Assign, AssignDirect, Leave, TypeOK
  <2>2. /\ losses = {}
        /\ \A j \in Instances, t \in Sources : Current(cache[j], t) => Current(cache[j], t)'
    BY <2>1, StoreKeeps DEF NothingAhead, LoadsBelow, TypeOK
  <2>3. Loading(i) /\ OnItsWay(i, s) /\ i \in Instances /\ Home[c] \in Instances
    BY <1>u, <2>2 DEF Recovering
  <2>4. Loading(i)'
    BY <2>1, <2>3, LoadingKept DEF Loads
  <2>5. ASSUME Carries(c, i, s) PROVE OnItsWay(i, s)'
    <3>1. pc[c] = "assign" /\ Current(data[c], s) /\ (Base \/ Home[c] = i)
      BY <2>1, <2>5 DEF Carries
    <3>2. Current(cache[Home[c]], s)'
      BY <2>1, <2>3, <3>1 DEF Store, TypeOK
    <3>3. CASE Home[c] = i
      BY <2>1, <3>2, <3>3 DEF OnItsWay
    <3>4. CASE Base
      <4>1. Carries(c, i, s)'
        BY <2>1, <3>1, <3>2, <3>4 DEF Carries, Payload, Base
      <4> QED
        BY <4>1 DEF OnItsWay
    <3> QED
      BY <3>1, <3>3, <3>4
  <2>6. ASSUME NEW d \in Calls, d # c, Carries(d, i, s) PROVE OnItsWay(i, s)'
    <3>1. Carries(d, i, s)'
      BY <2>1, <2>2, <2>3, <2>6, CarriesFrame
    <3> QED
      BY <3>1 DEF OnItsWay
  <2>7. OnItsWay(i, s)'
    BY <2>1, <2>2, <2>3, <2>5, <2>6 DEF OnItsWay, Queued
  <2> QED
    BY <2>4, <2>7
<1>8. ASSUME NEW j \in Instances, Deliver(j) PROVE Recovering'
  <2> SUFFICES ASSUME losses' = {}, NEW i \in up, NEW s \in Sources
               PROVE  Loading(i)' /\ OnItsWay(i, s)'
    BY <1>8, <1>s DEF Deliver, Recovering
  <2> DEFINE q == inbox[j]
  <2>0. ChannelMatches
    BY DEF ChannelMatches
  <2>1. /\ q \in Seq(Version) /\ q # <<>> /\ db' = db /\ kind' = kind /\ owed' = owed
        /\ pc' = pc /\ at' = at /\ data' = data
        /\ inbox' = [inbox EXCEPT ![j] = Tail(q)]
        /\ Store(j, Head(q)) /\ \A k \in Instances : loaded[k] => loaded'[k]
    BY <1>8, <2>0 DEF Deliver, TypeOK, callVars
  <2>2. /\ Head(q) = q[1] /\ Head(q) \in Version /\ Len(q) \in Nat \ {0}
        /\ Len(Tail(q)) = Len(q) - 1 /\ \A k \in 1 .. Len(Tail(q)) : Tail(q)[k] = q[k + 1]
    BY <2>1, QueueShapes, NothingType
  <2>3. Below(Head(q))
    BY <2>2 DEF NothingAhead, QueuesBelow
  <2>4. /\ losses = {}
        /\ \A k \in Instances, t \in Sources : Current(cache[k], t) => Current(cache[k], t)'
    BY <2>1, <2>2, <2>3, StoreKeeps DEF NothingAhead
  <2>5. Loading(i) /\ OnItsWay(i, s) /\ i \in Instances
    BY <1>u, <2>4 DEF Recovering
  <2>6. Loading(i)'
    BY <2>1, <2>5, LoadingKept
  <2>7. ASSUME NEW d \in Calls, Carries(d, i, s) PROVE OnItsWay(i, s)'
    <3>1. Carries(d, i, s)'
      BY <2>1, <2>4, <2>5, <2>7, CarriesFrame
    <3> QED
      BY <3>1 DEF OnItsWay
  <2>8. ASSUME Queued(i, s) PROVE OnItsWay(i, s)'
    <3>1. PICK k \in 1 .. Len(inbox[i]) : Current(inbox[i][k], s)
      BY <2>8 DEF Queued
    <3>2. CASE i # j
      BY <2>1, <2>5, <3>1, <3>2 DEF OnItsWay, Queued
    <3>3. CASE i = j /\ k = 1
      <4>1. cache'[i] = Head(q)
        BY <2>1, <3>3 DEF Store, TypeOK
      <4> QED
        BY <2>1, <2>2, <3>1, <3>3, <4>1 DEF OnItsWay
    <3>4. CASE i = j /\ k # 1
      <4>1. inbox'[i] = Tail(q)
        BY <2>1, <3>4 DEF TypeOK
      <4>2. k - 1 \in 1 .. Len(Tail(q)) /\ Tail(q)[k - 1] = q[k]
        BY <2>2, <3>1, <3>4
      <4> QED
        BY <2>1, <3>1, <3>4, <4>1, <4>2 DEF OnItsWay, Queued
    <3> QED
      BY <3>2, <3>3, <3>4
  <2>9. OnItsWay(i, s)'
    BY <2>1, <2>4, <2>5, <2>7, <2>8 DEF OnItsWay
  <2> QED
    BY <2>6, <2>9
<1>9. ASSUME NEW j \in Instances,
             Boot(j) \/ MetadataArrive(j) \/ Invalidate(j) \/ (Demand(j) /\ Base)
      PROVE Recovering'
  <2>1. PICK c \in Calls : Home[c] = j /\ pc[c] = "idle" /\ pc' = [pc EXCEPT ![c] = "acquire"]
    BY <1>9 DEF Boot, MetadataArrive, Invalidate, Demand, IdleCall
  <2>2. /\ up' \subseteq up \cup {j} /\ losses' = losses /\ loaded' = loaded
        /\ pc'[c] = "acquire" /\ \A d \in Calls : d # c => pc'[d] = pc[d]
    BY <1>9, <2>1 DEF Boot, MetadataArrive, Invalidate, Demand, viewVars, depVars, TypeOK
  <2> SUFFICES ASSUME losses = {}, NEW i \in up' PROVE Loading(i)'
    BY <1>u, <2>2, FreshCall DEF Recovering
  <2>3. CASE i = j
    BY <2>1, <2>2, <2>3, FreshCall
  <2>4. CASE i \in up
    <3>1. Loading(i)
      BY <2>4 DEF Recovering
    <3> QED
      BY <1>u, <2>1, <2>2, <2>4, <3>1, LoadingKept DEF Loads
  <2> QED
    BY <2>2, <2>3, <2>4
<1>10. ASSUME NEW j \in Instances, Demand(j), ~Base PROVE Recovering'
  <2>1. PICK c \in Calls : pc[c] = "idle" /\ pc' = [pc EXCEPT ![c] = "direct"]
    BY <1>10 DEF Demand, IdleCall
  <2>2. \A d \in Calls : d # c => pc'[d] = pc[d]
    BY <2>1 DEF TypeOK
  <2>3. \A d \in Calls, i \in Instances, s \in Sources : Carries(d, i, s) => Carries(d, i, s)'
    <3> SUFFICES ASSUME NEW d \in Calls, NEW i \in Instances, NEW s \in Sources,
                        Carries(d, i, s)
                 PROVE  Carries(d, i, s)'
      OBVIOUS
    <3>1. d # c
      BY <2>1 DEF Carries
    <3> QED
      BY <1>10, <2>2, <3>1, CarriesFrame DEF Demand, viewVars, depVars
  <2>4. \A d \in Calls : pc[d] \in Loads => pc'[d] \in Loads
    BY <2>1, <2>2 DEF Loads
  <2> QED
    BY <1>10, <1>u, <2>3, <2>4, RecoveringFrame DEF Demand, viewVars, depVars
<1>11. ASSUME NEW j \in Instances, NEW t \in Sources, Commit(j, t) PROVE Recovering'
  <2>1. owed'[j] > 0
    BY <1>11 DEF Commit, TypeOK
  <2>2. \A i \in Instances, s \in Sources : OnItsWay(i, s)'
    BY <2>1 DEF OnItsWay
  <2> QED
    BY <1>11, <1>u, <2>2 DEF Commit, Recovering, Loading, viewVars, depVars, callVars
<1>12. ASSUME NEW j \in Instances, ReadBackFails(j) PROVE Recovering'
  BY <1>12 DEF ReadBackFails, Lose, Recovering
<1>13. ASSUME NEW j \in Instances, Crash(j) PROVE Recovering'
  <2> SUFFICES ASSUME losses' = {}, NEW i \in up', NEW s \in Sources
               PROVE  Loading(i)' /\ OnItsWay(i, s)'
    BY <1>s DEF Recovering
  <2>0. losses = {} /\ ~Busy(j) /\ i \in up /\ i # j
    BY <1>13 DEF Crash
  <2>1. /\ losses = {} /\ ~(owed[j] > 0) /\ \A c \in Calls : Home[c] = j => pc[c] = "idle"
        /\ i \in up /\ i # j
    BY <2>0 DEF Busy
  <2>2. Loading(i) /\ OnItsWay(i, s) /\ i \in Instances
    BY <1>u, <2>1 DEF Recovering
  <2>3. /\ \A c \in Calls : Home[c] # j =>
                              pc'[c] = pc[c] /\ at'[c] = at[c] /\ data'[c] = data[c]
        /\ \A k \in Instances : k # j => /\ cache'[k] = cache[k] /\ loaded'[k] = loaded[k]
                                         /\ inbox'[k] = inbox[k] /\ owed'[k] = owed[k]
        /\ db' = db /\ kind' = kind
    BY <1>13 DEF Crash, TypeOK
  <2>4. Loading(i)'
    BY <2>1, <2>2, <2>3, LoadingKept
  <2>5. \A c \in Calls : Carries(c, i, s) => Carries(c, i, s)'
    <3> SUFFICES ASSUME NEW c \in Calls, Carries(c, i, s) PROVE Carries(c, i, s)'
      OBVIOUS
    <3>1. Home[c] # j
      BY <2>1 DEF Carries
    <3> QED
      BY <2>2, <2>3, <3>1, CarriesFrame
  <2>6. OnItsWay(i, s)'
    BY <2>1, <2>2, <2>3, <2>5 DEF OnItsWay, Queued
  <2> QED
    BY <2>4, <2>6
<1>15. ASSUME NEW j \in Instances, Wake(j) \/ Generate(j) \/ GenerateFails(j) PROVE Recovering'
  <2>1. /\ up' = up /\ db' = db /\ cache' = cache /\ loaded' = loaded /\ inbox' = inbox
        /\ owed' = owed /\ losses' = losses /\ kind' = kind
        /\ pc' = pc /\ at' = at /\ data' = data
    BY <1>15 DEF Wake, Generate, GenerateFails, callVars
  <2>2. \A c \in Calls, i \in Instances, s \in Sources : Carries(c, i, s) => Carries(c, i, s)'
    BY <2>1, CarriesFrame
  <2> QED
    BY <1>u, <2>1, <2>2, RecoveringFrame
<1>14. ASSUME Lapse \/ UNCHANGED vars PROVE Recovering'
  <2>1. /\ up' = up /\ db' = db /\ cache' = cache /\ loaded' = loaded /\ inbox' = inbox
        /\ owed' = owed /\ losses' = losses /\ kind' = kind
        /\ pc' = pc /\ at' = at /\ data' = data
    BY <1>14 DEF Lapse, vars, viewVars, depVars, callVars
  <2>2. \A c \in Calls, i \in Instances, s \in Sources : Carries(c, i, s) => Carries(c, i, s)'
    BY <2>1, CarriesFrame
  <2> QED
    BY <1>u, <2>1, <2>2, RecoveringFrame
<1> QED
  BY <1>1, <1>2, <1>3, <1>4, <1>5, <1>6, <1>7, <1>8, <1>9, <1>10, <1>11, <1>12, <1>13,
     <1>14, <1>15
     DEF Next, CallStep, InstanceStep

\* The account holds in every reachable state, and at rest it says that every
\* cache is current: the staleness of a cache always has one of the listed
\* causes.
THEOREM RestIsCurrent ==
  ASSUME ~NodeName
  PROVE  Spec => []StaleOnlyByLoss
<1>1. Init => NothingAhead /\ NoDirect /\ Rewound /\ Recovering
  BY DEF Init, NothingAhead, CachesBelow, QueuesBelow, LoadsBelow, Below, Reread, Nothing,
         NoDirect, Rewound, Recovering
<1>2. /\ TypeOK /\ NoDirect /\ NothingAhead /\ Rewound /\ Recovering
      /\ [Next]_vars
      => NoDirect' /\ NothingAhead' /\ Rewound' /\ Recovering'
  BY NoDirectStep, NothingAheadStep, RewoundStep, RecoveringStep DEF Account
<1>3. TypeOK /\ Recovering => StaleOnlyByLoss
  <2> SUFFICES ASSUME TypeOK, Recovering, Quiet, losses = {}, NEW i \in up
               PROVE  loaded[i] /\ \A s \in Reread : cache[i][s] = db[s]
    BY DEF StaleOnlyByLoss, Agreed
  <2>1. i \in Instances /\ cache[i] \in Version /\ db \in Version
    BY DEF TypeOK
  <2>2. loaded[i]
    BY DEF Recovering, Loading, Quiet, Loads
  <2>3. \A s \in Reread : cache[i][s] = db[s]
    <3> SUFFICES ASSUME NEW s \in Sources, ~ReadOnce(s) PROVE cache[i][s] = db[s]
      BY DEF Reread
    <3>1. OnItsWay(i, s)
      BY DEF Recovering
    <3>2. ~\E c \in Calls : Carries(c, i, s)
      BY DEF Quiet, Carries
    <3>3. ~Queued(i, s)
      BY <2>1 DEF Quiet, Queued
    <3> QED
      BY <3>1, <3>2, <3>3 DEF OnItsWay, Quiet, Current
  <2> QED
    BY <2>2, <2>3
<1> QED
  BY <1>1, <1>2, <1>3, TypeCorrect, PTL DEF Spec
==============================================================================
