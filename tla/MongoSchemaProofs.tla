-------------------------- MODULE MongoSchemaProofs --------------------------
(****************************************************************************)
(* On MongoDB one server changes the schema at a time, for any number of    *)
(* servers and changes, as long as no lock runs out under its holder: who   *)
(* works holds the lock. Rows, validators, indexes and collections agree    *)
(* once nothing works on them: what a handler has looked up holds until it  *)
(* writes, since it is alone, and it writes rows of its own table only. The *)
(* values of a column are, at any time, under the field from which a        *)
(* renaming still has to move them to the name that the row has or gets.    *)
(****************************************************************************)
EXTENDS MongoSchema, TLAPS

Holding ==
  "lapsed" \notin history => \A c \in Calls : Working(c) => lock.by = c /\ ~lock.over
IInv == DOMAIN call = Calls /\ Holding

\* A step of a handler that has the lock, whatever it does next.
LEMMA HandlerStep ==
  ASSUME IInv, NEW c \in Calls, Working(c), NEW r, call' = [call EXCEPT ![c] = r],
         lock' = lock, history \subseteq history'
  PROVE IInv'
<1>1. DOMAIN call' = Calls
  BY DEF IInv
<1>2. ASSUME "lapsed" \notin history', NEW d \in Calls, Working(d)'
      PROVE lock'.by = d /\ ~lock'.over
  <2>1. Working(d)
    BY <1>2 DEF IInv, Working
  <2>. QED BY <1>2, <2>1 DEF IInv, Holding
<1>. QED BY <1>1, <1>2 DEF IInv, Holding

\* A step that leaves handlers and lock alone.
LEMMA OutsideStep ==
  ASSUME IInv, call' = call, lock' = lock, history \subseteq history'
  PROVE IInv'
  BY DEF IInv, Holding, Working

\* Troubles and excuses are only added.
LEMMA TroubleAdds == ASSUME NEW k, Trouble(k) PROVE history \subseteq history'
  BY DEF Trouble

LEMMA InitHolds == Init => IInv
  BY DEF Init, IInv, Holding, Working, Idle

LEMMA ChangeHolds == ASSUME IInv, NEW c \in Calls, Change(c) PROVE IInv'
<1>1. Working(c)
  BY DEF Change, LookCreate, InsertTable, WriteColumn, WriteRelation, InsertRoute, CreateCollection,
         LookUpdate, DropColumn, RefuseDrop, Rename, DropFields, UpdateCollection, DeleteRoutes, DeleteRows,
         DropCollection, Working
<1>2. lock' = lock
  BY DEF Change, LookCreate, InsertTable, WriteColumn, WriteRelation, InsertRoute, CreateCollection,
         LookUpdate, DropColumn, RefuseDrop, Rename, DropFields, UpdateCollection, DeleteRoutes, DeleteRows,
         DropCollection
<1>3. history \subseteq history'
  BY DEF Change, LookCreate, InsertTable, WriteColumn, WriteRelation, InsertRoute, CreateCollection,
         LookUpdate, DropColumn, RefuseDrop, Rename, DropFields, UpdateCollection, DeleteRoutes, DeleteRows,
         DropCollection, Meeting, counted
<1>4. \E r : call' = [call EXCEPT ![c] = r]
  <2>1. CASE LookCreate(c) \/ InsertTable(c) \/ InsertRoute(c) \/ CreateCollection(c) \/ UpdateCollection(c)
    BY <2>1 DEF LookCreate, InsertTable, InsertRoute, CreateCollection, UpdateCollection, Goto, Over
  <2>2. CASE WriteColumn(c) \/ WriteRelation(c)
    BY <2>2 DEF WriteColumn, WriteRelation, Goto
  <2>3. CASE LookUpdate(c) \/ Rename(c) \/ DropFields(c) \/ DropColumn(c)
    BY <2>3 DEF LookUpdate, Rename, DropFields, DropColumn, Goto, Over
  <2>4. CASE RefuseDrop(c) \/ DeleteRoutes(c) \/ DeleteRows(c) \/ DropCollection(c)
    BY <2>4 DEF RefuseDrop, DeleteRoutes, DeleteRows, DropCollection, Goto, Over
  <2>. QED BY <2>1, <2>2, <2>3, <2>4 DEF Change
<1>. QED BY <1>1, <1>2, <1>3, <1>4, HandlerStep

\* The lock is only taken when it is free or has run out, and then nobody works.
LEMMA AcquireHolds == ASSUME IInv, NEW c \in Calls, Acquire(c) PROVE IInv'
<1>1. history' = history
  BY DEF Acquire, counted
<1>2. CASE lock.by = NoCall \/ lock.over
  <2>1. lock'.by = c /\ ~lock'.over
    BY <1>2 DEF Acquire
  <2>2. DOMAIN call' = Calls /\ \A d \in Calls \ {c} : call'[d] = call[d]
    BY <1>2 DEF Acquire, Goto, IInv
  <2>3. ASSUME "lapsed" \notin history, NEW d \in Calls, Working(d) PROVE FALSE
    BY <1>2, <2>3, MongoAssumption DEF IInv, Holding
  <2>4. ASSUME "lapsed" \notin history', NEW d \in Calls, Working(d)' PROVE d = c
    BY <1>1, <2>2, <2>3, <2>4 DEF Working
  <2>. QED BY <2>1, <2>2, <2>4 DEF IInv, Holding
<1>3. CASE ~(lock.by = NoCall \/ lock.over)
  <2>1. call' = [call EXCEPT ![c] = Idle] /\ lock' = lock
    BY <1>3 DEF Acquire
  <2>2. \A d \in Calls : Working(d)' => Working(d)
    BY <2>1 DEF Working, Idle, IInv
  <2>. QED BY <1>1, <2>1, <2>2 DEF IInv, Holding
<1>. QED BY <1>2, <1>3

\* Who releases the lock, or dies, works no more, and nobody else did.
LEMMA LeavingHolds ==
  ASSUME IInv, NEW c \in Calls, Working(c), call' = [call EXCEPT ![c] = Idle], history \subseteq history'
  PROVE IInv'
<1>1. ASSUME "lapsed" \notin history', NEW d \in Calls, Working(d)' PROVE FALSE
  <2>1. d /= c /\ Working(d)
    BY <1>1 DEF Working, Idle, IInv
  <2>. QED BY <1>1, <2>1 DEF IInv, Holding
<1>. QED BY <1>1 DEF IInv, Holding

\* A request that came in only waits for the lock.
Asked(c) == DOMAIN call' = DOMAIN call /\ \A d \in Calls : Working(d)' => Working(d)

LEMMA StartAsks ==
  ASSUME IInv, NEW c \in Calls, NEW op, NEW t, NEW name, NEW cols, NEW rels, NEW given,
         Start(c, op, t, name, cols, rels, given)
  PROVE Asked(c)
<1>1. DOMAIN call' = DOMAIN call /\ \A d \in Calls \ {c} : call'[d] = call[d]
  BY DEF Start, IInv
<1>2. call'[c].pc = "acquire"
  BY DEF Start, IInv
<1>. QED BY <1>1, <1>2 DEF Asked, Working

LEMMA AskHolds == ASSUME IInv, NEW c \in Calls, Ask(c) PROVE IInv'
<1>1. Asked(c)
  <2>1. CASE AskCreate(c)
    <3>1. PICK name \in plan.names, cols \in Bodies({}, ColumnNames), rels \in Bodies({}, RelationNames) :
            Start(c, "create", 0, name, cols, rels, {"columns", "relations"})
      BY <2>1, Zenon DEF AskCreate
    <3>. QED BY <3>1, StartAsks
  <2>2. CASE AskUpdate(c)
    <3>1. \E t, name, given, cols, rels : Start(c, "update", t, name, cols, rels, given)
      BY <2>2, Zenon DEF AskUpdate
    <3>. QED BY <3>1, StartAsks, Zenon
  <2>3. CASE AskDelete(c)
    <3>1. PICK t \in Live : Start(c, "delete", t, NoName, {}, {}, {})
      BY <2>3, Zenon DEF AskDelete
    <3>. QED BY <3>1, StartAsks
  <2>. QED BY <2>1, <2>2, <2>3 DEF Ask
<1>2. lock' = lock /\ history' = history
  BY DEF Ask
<1>. QED BY <1>1, <1>2 DEF Asked, IInv, Holding

LEMMA NextHolds == IInv /\ [Next]_vars => IInv'
<1>. SUFFICES ASSUME IInv, [Next]_vars PROVE IInv'
  OBVIOUS
<1>1. ASSUME NEW c \in Calls, Ask(c) PROVE IInv'
  BY <1>1, AskHolds
<1>2. ASSUME NEW c \in Calls, Acquire(c) PROVE IInv'
  BY <1>2, AcquireHolds
<1>3. ASSUME NEW c \in Calls, Change(c) PROVE IInv'
  BY <1>3, ChangeHolds
<1>4. ASSUME NEW c \in Calls, Release(c) PROVE IInv'
  BY <1>4, LeavingHolds DEF Release, Working, counted
<1>5. ASSUME NEW c \in Calls, Fail(c) PROVE IInv'
  <2>1. Working(c) /\ lock' = lock /\ history \subseteq history'
    BY <1>5, TroubleAdds DEF Fail
  <2>2. call' = [call EXCEPT ![c] = [pc |-> "release"]]
    BY <1>5 DEF Fail, Over
  <2>. QED BY <2>1, <2>2, HandlerStep
<1>12. ASSUME NEW c \in Calls, FailIndexes(c) PROVE IInv'
  <2>1. Working(c) /\ lock' = lock /\ history \subseteq history'
    BY <1>12, TroubleAdds DEF FailIndexes, Working
  <2>2. call' = [call EXCEPT ![c] = [pc |-> "release"]]
    BY <1>12 DEF FailIndexes, Over
  <2>. QED BY <2>1, <2>2, HandlerStep
<1>6. ASSUME NEW c \in Calls, Die(c) PROVE IInv'
  BY <1>6, LeavingHolds, TroubleAdds DEF Die
<1>7. ASSUME NEW c \in Calls, Refresh(c) PROVE IInv'
  BY <1>7, OutsideStep DEF Refresh, counted
<1>8. ASSUME NEW r \in renames, RenameField(r) \/ RefuseRename(r) \/ LoseRename(r) PROVE IInv'
  BY <1>8, OutsideStep, TroubleAdds DEF RenameField, RefuseRename, LoseRename, counted
<1>9. CASE Lapse
  BY <1>9 DEF Lapse, Trouble, IInv, Holding
<1>10. ASSUME NEW t \in Ids, Fill(t) PROVE IInv'
  BY <1>10, OutsideStep DEF Fill
<1>11. CASE UNCHANGED vars
  BY <1>11, OutsideStep DEF vars, counted
<1>. QED BY <1>1, <1>2, <1>3, <1>4, <1>5, <1>6, <1>7, <1>8, <1>9, <1>10, <1>11, <1>12 DEF Next, Step

\* Two handlers never work at once while no lock has run out: acquire() and
\* the token of release() suffice, although nothing looks at the lock between.
THEOREM OneServerAtATime == Spec => []Exclusive
<1>1. IInv => Exclusive
  BY DEF IInv, Holding, Exclusive
<1>. QED BY <1>1, InitHolds, NextHolds, PTL DEF Spec

-----------------------------------------------------------------------------
(* What the variables hold *)

Values == [field : ColumnNames \cup {RelationName}, of : Nat]
ColumnRows == [id : Nat \ {0}, table : Ids, name : ColumnNames]
RelationRows == [id : Nat \ {0}, table : Ids, name : {RelationName}]
RouteRows == [path : Names, table : Ids]
Collections ==
  [there : BOOLEAN, validator : SUBSET ColumnNames, indexed : SUBSET {RelationName}, values : SUBSET Values]
ColumnFields == [id : Nat, name : ColumnNames]
RelationFields == [id : Nat, name : {RelationName}]
Renames == [collection : Names, from : ColumnNames, to : ColumnNames]

\* Where each kind of change may be.
Creating == {"insert", "columns", "relations", "route", "collection"}
Updating == {"drop", "columns", "fields", "relations", "schema"}
Deleting == {"rows", "dropping"}
Starting == {"acquire", "look"}
Places == Starting \cup Creating \cup Updating \cup Deleting
Handlers ==
  [pc : Places, op : {"create", "update", "delete"},
   table : Ids \cup {0}, name : Names \cup {NoName}, old : Names \cup {NoName},
   cols : SUBSET ColumnFields, rels : SUBSET RelationFields, given : SUBSET {"columns", "relations"},
   seen : SUBSET ColumnRows, todo : SUBSET (ColumnRows \cup ColumnFields \cup RelationFields)]
Resting == {Idle, [pc |-> "release"]}

\* A handler is where its change leads, with the data it has there.
Sensible(h) ==
  /\ h.pc \in Creating \ Updating => h.op = "create"
  /\ h.pc \in Updating \cap Creating => h.op \in {"create", "update"}
  /\ h.pc \in Updating \ Creating => h.op = "update"
  /\ h.pc \in Deleting => h.op = "delete"
  /\ h.op /= "delete" => h.name \in Names
  /\ h.op = "create" => \A x \in h.cols \cup h.rels : x.id = 0
  /\ h.op /= "create" => h.table \in Ids
  /\ h.op = "create" /\ h.pc \notin Starting \cup {"insert"} => h.table \in Ids
  /\ h.op /= "create" /\ h.pc \notin Starting => h.old \in Names
  /\ h.pc = "drop" => h.todo \subseteq ColumnRows
  /\ h.pc = "columns" => h.todo \subseteq h.cols
  /\ h.pc = "relations" => h.todo \subseteq h.rels

CallsOK ==
  /\ call \in [Calls -> Resting \cup Handlers]
  /\ \A c \in Calls : call[c] \in Handlers => Sensible(call[c])
TypeOK ==
  /\ tables \in [Ids -> Names \cup {NoName}] /\ uniques \subseteq Ids
  /\ columns \subseteq ColumnRows /\ relations \subseteq RelationRows /\ routes \subseteq RouteRows
  /\ collections \in [Names -> Collections]
  /\ renames \subseteq Renames
  /\ filled \subseteq Nat
  /\ serial \in Nat
  /\ plan \in Plans
  /\ CallsOK

\* Every place is one of these.
LEMMA PlaceNames ==
  Places = {"acquire", "look", "insert", "columns", "relations", "route", "collection",
            "drop", "fields", "schema", "rows", "dropping"}
  BY DEF Places, Starting, Creating, Updating, Deleting

\* A handler that is somewhere in a change has all its data.
LEMMA AtWork ==
  ASSUME CallsOK, NEW c \in Calls
  PROVE /\ call[c].pc \in Places => call[c] \in Handlers /\ Sensible(call[c])
        /\ call[c] \in Handlers => call[c].pc \in Places
        /\ call[c].pc \in Places \cup {"idle", "release"}
<1>1. call[c] \in Resting \cup Handlers
  BY DEF CallsOK
<1>2. \A h \in Resting : h.pc \in {"idle", "release"}
  BY DEF Resting, Idle
<1>3. \A h \in Handlers : h.pc \in Places
  BY DEF Handlers
<1>4. call[c] \in Handlers => Sensible(call[c])
  BY DEF CallsOK
<1>. QED BY <1>1, <1>2, <1>3, <1>4, PlaceNames

\* What a handler goes on with; the others stay where they are.
Becomes(c, h) ==
  /\ call'[c] = h
  /\ \A d \in Calls \ {c} : call'[d] = call[d]

LEMMA StepTyped ==
  ASSUME CallsOK, NEW c \in Calls, NEW h \in Resting \cup Handlers,
         h \in Handlers => Sensible(h), call' = [call EXCEPT ![c] = h]
  PROVE CallsOK' /\ Becomes(c, h)
<1>1. call' \in [Calls -> Resting \cup Handlers] /\ Becomes(c, h)
  BY DEF CallsOK, Becomes
<1>2. ASSUME NEW d \in Calls, call'[d] \in Handlers PROVE Sensible(call'[d])
  <2>1. CASE d = c
    BY <1>1, <1>2, <2>1 DEF Becomes
  <2>2. CASE d /= c
    BY <1>1, <1>2, <2>2 DEF Becomes, CallsOK
  <2>. QED BY <2>1, <2>2
<1>3. \A d \in Calls : call'[d] \in Handlers => Sensible(call'[d])
  BY <1>2
<1>. QED BY <1>1, <1>3 DEF CallsOK

\* The handler is done, one way or another.
LEMMA OverTyped ==
  ASSUME CallsOK, NEW c \in Calls, Over(c)
  PROVE CallsOK' /\ Becomes(c, [pc |-> "release"]) /\ call'[c].pc = "release" /\ call'[c] \notin Handlers
<1>1. CallsOK' /\ Becomes(c, [pc |-> "release"])
  <2>1. [pc |-> "release"] \notin Handlers
    BY PlaceNames DEF Handlers
  <2>. QED BY <2>1, StepTyped DEF Over, Resting
<1>2. call'[c].pc = "release"
  BY <1>1 DEF Becomes
<1>. QED BY <1>1, <1>2, AtWork, PlaceNames DEF Handlers

LEMMA IdleTyped ==
  ASSUME CallsOK, NEW c \in Calls, call' = [call EXCEPT ![c] = Idle]
  PROVE CallsOK' /\ Becomes(c, Idle) /\ call'[c].pc = "idle" /\ call'[c] \notin Handlers
<1>0. Idle \notin Handlers
  BY PlaceNames DEF Handlers, Idle
<1>1. CallsOK' /\ Becomes(c, Idle)
  BY <1>0, StepTyped DEF Resting
<1>. QED BY <1>0, <1>1 DEF Becomes, Idle

\* The data of a change that no later step gives up.
Same(h, g) ==
  g.op = h.op /\ g.name = h.name /\ g.cols = h.cols /\ g.rels = h.rels /\ g.given = h.given

\* What the steps change in the record of a handler.
LEMMA PlaceChanged ==
  ASSUME NEW h \in Handlers, NEW l \in Places
  PROVE LET g == [h EXCEPT !.pc = l]
        IN /\ g \in Handlers /\ Same(h, g) /\ g.pc = l
           /\ g.table = h.table /\ g.old = h.old /\ g.todo = h.todo
  BY DEF Handlers, Same

LEMMA TodoLess ==
  ASSUME NEW h \in Handlers, NEW todo \in SUBSET (ColumnRows \cup ColumnFields \cup RelationFields)
  PROVE LET g == [h EXCEPT !.todo = todo]
        IN /\ g \in Handlers /\ Same(h, g) /\ g.pc = h.pc
           /\ g.table = h.table /\ g.old = h.old /\ g.todo = todo /\ g.seen = h.seen
  BY DEF Handlers, Same


-----------------------------------------------------------------------------
(* Where each step leads its handler *)

Went(c, l) ==
  /\ call[c] \in Handlers /\ Sensible(call[c])
  /\ call'[c] \in Handlers /\ Same(call[c], call'[c]) /\ call'[c].pc = l
  /\ \A d \in Calls \ {c} : call'[d] = call[d]
Left(c) ==
  /\ call'[c] \notin Handlers /\ call'[c].pc \in {"idle", "release"}
  /\ \A d \in Calls \ {c} : call'[d] = call[d]
KeepsTable(c) == call'[c].table = call[c].table /\ call'[c].old = call[c].old

\* A step that changes the record to one that is sensible.
LEMMA Goes ==
  ASSUME CallsOK, NEW c \in Calls, call[c].pc \in Places, NEW g \in Handlers, NEW l \in Places,
         Same(call[c], g), g.pc = l, Sensible(g), call' = [call EXCEPT ![c] = g]
  PROVE CallsOK' /\ Went(c, l) /\ call'[c] = g
<1>1. CallsOK' /\ Becomes(c, g)
  BY StepTyped
<1>2. call[c] \in Handlers /\ Sensible(call[c])
  BY AtWork
<1>. QED BY <1>1, <1>2 DEF Becomes, Went

LEMMA OverLeft == ASSUME CallsOK, NEW c \in Calls, Over(c) PROVE CallsOK' /\ Left(c)
  BY OverTyped DEF Becomes, Left

LEMMA IdleLeft ==
  ASSUME CallsOK, NEW c \in Calls, call' = [call EXCEPT ![c] = Idle] PROVE CallsOK' /\ Left(c)
  BY IdleTyped DEF Becomes, Left

\* Moving on without any other change.
LEMMA GotoWent ==
  ASSUME CallsOK, NEW c \in Calls, call[c].pc \in Places, NEW l \in Places, Goto(c, l),
         \/ call[c].pc = "acquire" /\ l = "look"
         \/ call[c].pc = "look" /\ call[c].op = "create" /\ l = "insert"
         \/ call[c].op = "create" /\ call[c].pc = "relations" /\ l = "route"
         \/ call[c].op = "update" /\ call[c].pc = "relations" /\ l = "schema"
         \/ call[c].pc = "route" /\ l = "collection"
         \/ call[c].pc = "fields" /\ l = "schema"
         \/ call[c].pc = "rows" /\ l = "dropping"
  PROVE CallsOK' /\ Went(c, l) /\ KeepsTable(c) /\ call'[c].todo = call[c].todo
<1>. DEFINE g == [call[c] EXCEPT !.pc = l]
<1>1. call[c] \in Handlers /\ Sensible(call[c])
  BY AtWork
<1>2. /\ g \in Handlers /\ Same(call[c], g) /\ g.pc = l
      /\ g.table = call[c].table /\ g.old = call[c].old /\ g.todo = call[c].todo
  BY <1>1, PlaceChanged
<1>3. call' = [call EXCEPT ![c] = g]
  BY DEF Goto
<1>. HIDE DEF g
<1>4. Sensible(g)
  BY <1>1, <1>2 DEF Sensible, Same, Creating, Updating, Deleting, Starting
<1>5. CallsOK' /\ Went(c, l) /\ call'[c] = g
  BY <1>2, <1>3, <1>4, Goes
<1>. QED BY <1>2, <1>5 DEF KeepsTable

LEMMA InsertTableWent ==
  ASSUME TypeOK, NEW c \in Calls, InsertTable(c)
  PROVE \E t \in Unused :
          /\ tables' = [tables EXCEPT ![t] = call[c].name] /\ Constrain(t)
          /\ CallsOK' /\ Went(c, "columns")
          /\ call'[c].table = t /\ call'[c].old = call[c].old /\ call'[c].todo = call[c].cols
<1>. DEFINE t == CHOOSE t \in Unused : TRUE
            g == [call[c] EXCEPT !.pc = "columns", !.table = t, !.todo = call[c].cols]
<1>1. t \in Unused
  BY Zenon DEF InsertTable
<1>2. t \in Ids
  BY <1>1 DEF Unused
<1>3. tables' = [tables EXCEPT ![t] = call[c].name] /\ Constrain(t) /\ call' = [call EXCEPT ![c] = g]
  BY Zenon DEF InsertTable
<1>. HIDE DEF t
<1>4. call[c] \in Handlers /\ Sensible(call[c]) /\ call[c].pc = "insert"
  BY AtWork, PlaceNames DEF TypeOK, InsertTable
<1>5. call[c].cols \in SUBSET (ColumnRows \cup ColumnFields \cup RelationFields)
  BY <1>4 DEF Handlers
<1>6. /\ g \in Handlers /\ Same(call[c], g) /\ g.pc = "columns"
      /\ g.table = t /\ g.old = call[c].old /\ g.todo = call[c].cols
  <2>1. "columns" \in Places
    BY PlaceNames
  <2>. QED BY <2>1, <1>2, <1>4, <1>5 DEF Handlers, Same
<1>. HIDE DEF g
<1>7. Sensible(g)
  BY <1>2, <1>4, <1>6 DEF Sensible, Same, Creating, Updating, Deleting, Starting
<1>8. CallsOK' /\ Went(c, "columns") /\ call'[c] = g
  BY <1>3, <1>4, <1>6, <1>7, Goes, PlaceNames DEF TypeOK
<1>. QED BY <1>1, <1>3, <1>6, <1>8

\* Both kinds of rows are written one after the other.
LEMMA TodoWent ==
  ASSUME CallsOK, NEW c \in Calls, call[c].pc \in {"columns", "relations", "drop"},
         NEW todo \in SUBSET call[c].todo, call' = [call EXCEPT ![c].todo = todo]
  PROVE /\ CallsOK' /\ Went(c, call[c].pc) /\ KeepsTable(c)
        /\ call'[c].todo = todo /\ call'[c].seen = call[c].seen
<1>. DEFINE g == [call[c] EXCEPT !.todo = todo]
<1>1. call[c] \in Handlers /\ Sensible(call[c]) /\ call[c].pc \in Places
  BY AtWork, PlaceNames
<1>2. todo \in SUBSET (ColumnRows \cup ColumnFields \cup RelationFields)
  BY <1>1 DEF Handlers
<1>3. /\ g \in Handlers /\ Same(call[c], g) /\ g.pc = call[c].pc
      /\ g.table = call[c].table /\ g.old = call[c].old /\ g.todo = todo /\ g.seen = call[c].seen
  BY <1>1, <1>2, TodoLess
<1>4. call' = [call EXCEPT ![c] = g]
  OBVIOUS
<1>. HIDE DEF g
<1>5. Sensible(g)
  BY <1>1, <1>3 DEF Sensible, Same, Creating, Updating, Deleting, Starting
<1>6. CallsOK' /\ Went(c, call[c].pc) /\ call'[c] = g
  BY <1>1, <1>3, <1>4, <1>5, Goes
<1>. QED BY <1>3, <1>6 DEF KeepsTable

LEMMA NextListWent ==
  ASSUME CallsOK, NEW c \in Calls, NEW l \in Places, NEW todo,
         \/ call[c].pc = "columns" /\ call[c].op = "create" /\ l = "relations" /\ todo = call[c].rels
         \/ call[c].pc = "columns" /\ call[c].op /= "create" /\ l = "fields" /\ todo = call[c].rels
         \/ call[c].pc = "fields" /\ l = "relations" /\ todo = call[c].rels,
         call' = [call EXCEPT ![c] = [@ EXCEPT !.pc = l, !.todo = todo]]
  PROVE CallsOK' /\ Went(c, l) /\ KeepsTable(c) /\ call'[c].todo = todo
<1>. DEFINE g == [call[c] EXCEPT !.pc = l, !.todo = todo]
<1>1. call[c] \in Handlers /\ Sensible(call[c]) /\ call[c].pc \in Places
  BY AtWork, PlaceNames
<1>2. todo \in SUBSET (ColumnRows \cup ColumnFields \cup RelationFields)
  BY <1>1 DEF Handlers
<1>3. /\ g \in Handlers /\ Same(call[c], g) /\ g.pc = l
      /\ g.table = call[c].table /\ g.old = call[c].old /\ g.todo = todo
  BY <1>1, <1>2 DEF Handlers, Same
<1>4. call' = [call EXCEPT ![c] = g]
  OBVIOUS
<1>. HIDE DEF g
<1>5. Sensible(g)
  BY <1>1, <1>3 DEF Sensible, Same, Creating, Updating, Deleting, Starting
<1>6. CallsOK' /\ Went(c, l) /\ call'[c] = g
  BY <1>1, <1>3, <1>4, <1>5, Goes
<1>. QED BY <1>3, <1>6 DEF KeepsTable

\* What is left out of a body is dropped.
LeftOut(c) == {x \in Of(call[c].table, columns) : \A y \in call[c].cols : y.id /= x.id}

LEMMA LookUpdateWent ==
  ASSUME TypeOK, NEW c \in Calls, LookUpdate(c), ~Over(c)
  PROVE /\ call[c].table \in Live
        /\ \A u \in Live \ {call[c].table} : tables[u] /= call[c].name
        /\ Constrain(call[c].table) \/ uniques' = uniques
        /\ tables' = [tables EXCEPT ![call[c].table] = call[c].name]
        /\ history' = IF tables[call[c].table] = call[c].name THEN history ELSE history \cup {"renamed"}
        /\ CallsOK' /\ call[c].op = "update"
        /\ Went(c, "drop") \/ Went(c, "fields")
        /\ call'[c].table = call[c].table
        /\ call'[c].old = tables[call[c].table]
        /\ call'[c].todo = LeftOut(c) /\ call'[c].seen = Of(call[c].table, columns)
<1>. DEFINE t == call[c].table
            l == IF "columns" \in call[c].given THEN "drop" ELSE "fields"
            g == [call[c] EXCEPT !.old = tables[t], !.seen = Of(t, columns), !.pc = l, !.todo = LeftOut(c)]
<1>1. /\ t \in Live /\ \A u \in Live \ {t} : tables[u] /= call[c].name
      /\ tables' = [tables EXCEPT ![t] = call[c].name]
      /\ Constrain(t) \/ uniques' = uniques
      /\ history' = IF tables[t] = call[c].name THEN history ELSE history \cup {"renamed"}
      /\ call' = [call EXCEPT ![c] = g]
  BY Zenon DEF LookUpdate, LeftOut
<1>2. call[c] \in Handlers /\ Sensible(call[c]) /\ call[c].pc = "look" /\ call[c].op = "update"
  BY AtWork, PlaceNames DEF TypeOK, LookUpdate
<1>3. tables[t] \in Names
  BY <1>1 DEF TypeOK, Live
<1>4. Of(t, columns) \in SUBSET ColumnRows
  BY DEF TypeOK, Of
<1>5. LeftOut(c) \in SUBSET ColumnRows
  BY DEF TypeOK, Of, LeftOut
<1>6. /\ g \in Handlers /\ Same(call[c], g) /\ g.pc = l
      /\ g.table = call[c].table /\ g.old = tables[t] /\ g.todo = LeftOut(c) /\ g.seen = Of(t, columns)
  <2>1. l \in Places
    BY PlaceNames
  <2>. HIDE DEF l
  <2>2. LeftOut(c) \in SUBSET (ColumnRows \cup ColumnFields \cup RelationFields)
      BY <1>5
    <2>. QED BY <1>2, <1>3, <1>4, <2>1, <2>2 DEF Handlers, Same
<1>7. l \in {"drop", "fields"}
  OBVIOUS
<1>. HIDE DEF g, l
<1>8. Sensible(g)
  BY <1>2, <1>3, <1>5, <1>6, <1>7 DEF Sensible, Same, Creating, Updating, Deleting, Starting
<1>9. CallsOK' /\ Went(c, l) /\ call'[c] = g
  BY <1>1, <1>2, <1>6, <1>7, <1>8, Goes, PlaceNames DEF TypeOK
<1>. QED BY <1>1, <1>2, <1>6, <1>7, <1>9

LEMMA RenameWent ==
  ASSUME TypeOK, NEW c \in Calls, Rename(c)
  PROVE CallsOK' /\ Went(c, "columns") /\ KeepsTable(c) /\ call'[c].todo = call[c].cols
<1>. DEFINE g == [call[c] EXCEPT !.pc = "columns", !.todo = call[c].cols, !.seen = {}]
<1>1. call' = [call EXCEPT ![c] = g]
  BY Zenon DEF Rename
<1>2. call[c] \in Handlers /\ Sensible(call[c]) /\ call[c].pc = "drop"
  BY AtWork, PlaceNames DEF TypeOK, Rename
<1>3. call[c].cols \in SUBSET (ColumnRows \cup ColumnFields \cup RelationFields)
  BY <1>2 DEF Handlers
<1>4. /\ g \in Handlers /\ Same(call[c], g) /\ g.pc = "columns"
      /\ g.table = call[c].table /\ g.old = call[c].old /\ g.todo = call[c].cols
  <2>1. "columns" \in Places
    BY PlaceNames
  <2>. QED BY <2>1, <1>2, <1>3 DEF Handlers, Same
<1>. HIDE DEF g
<1>5. Sensible(g)
  BY <1>2, <1>4 DEF Sensible, Same, Creating, Updating, Deleting, Starting
<1>6. CallsOK' /\ Went(c, "columns") /\ call'[c] = g
  BY <1>1, <1>2, <1>4, <1>5, Goes, PlaceNames DEF TypeOK
<1>. QED BY <1>4, <1>6 DEF KeepsTable

LEMMA DeleteRoutesWent ==
  ASSUME TypeOK, NEW c \in Calls, DeleteRoutes(c), ~Over(c)
  PROVE /\ call[c].table \in Live
        /\ routes' = routes \ Of(call[c].table, routes)
        /\ CallsOK' /\ Went(c, "rows")
        /\ call'[c].table = call[c].table /\ call'[c].old = tables[call[c].table]
<1>. DEFINE t == call[c].table
            g == [call[c] EXCEPT !.pc = "rows", !.old = tables[t]]
<1>1. t \in Live /\ routes' = routes \ Of(t, routes) /\ call' = [call EXCEPT ![c] = g]
  BY Zenon DEF DeleteRoutes
<1>2. call[c] \in Handlers /\ Sensible(call[c]) /\ call[c].pc = "look" /\ call[c].op = "delete"
  BY AtWork, PlaceNames DEF TypeOK, DeleteRoutes
<1>3. tables[t] \in Names
  BY <1>1 DEF TypeOK, Live
<1>4. /\ g \in Handlers /\ Same(call[c], g) /\ g.pc = "rows"
      /\ g.table = call[c].table /\ g.old = tables[t] /\ g.todo = call[c].todo
  <2>1. "rows" \in Places
    BY PlaceNames
  <2>. QED BY <2>1, <1>2, <1>3 DEF Handlers, Same
<1>. HIDE DEF g
<1>5. Sensible(g)
  BY <1>2, <1>3, <1>4 DEF Sensible, Same, Creating, Updating, Deleting, Starting
<1>6. CallsOK' /\ Went(c, "rows") /\ call'[c] = g
  BY <1>1, <1>2, <1>4, <1>5, Goes, PlaceNames DEF TypeOK
<1>. QED BY <1>1, <1>4, <1>6

-----------------------------------------------------------------------------
(* Types of rows and collections *)

LEMMA NoCollectionTyped == NoCollection \in Collections
  BY DEF NoCollection, Collections

LEMMA DescribedTyped ==
  ASSUME TypeOK, NEW x \in Collections, NEW t
  PROVE /\ Described(x, t) \in Collections
        /\ Described(x, t).there
        /\ Described(x, t).validator = NamesOf(Of(t, columns))
        /\ Described(x, t).indexed = Indexes(t)
<1>1. NamesOf(Of(t, columns)) \in SUBSET ColumnNames
  BY DEF TypeOK, NamesOf, Of, ColumnRows
<1>2. Indexes(t) \in SUBSET {RelationName}
  BY DEF TypeOK, Indexes, NamesOf, Of, RelationRows
<1>. DEFINE v == NamesOf(Of(t, columns))
            i == Indexes(t)
<1>3. Described(x, t) = [x EXCEPT !.there = TRUE, !.validator = v, !.indexed = i]
  BY DEF Described
<1>. HIDE DEF v, i
<1>4. v \in SUBSET ColumnNames /\ i \in SUBSET {RelationName}
  BY <1>1, <1>2 DEF v, i
<1>5. /\ [x EXCEPT !.there = TRUE, !.validator = v, !.indexed = i] \in Collections
      /\ [x EXCEPT !.there = TRUE, !.validator = v, !.indexed = i].there
      /\ [x EXCEPT !.there = TRUE, !.validator = v, !.indexed = i].validator = v
      /\ [x EXCEPT !.there = TRUE, !.validator = v, !.indexed = i].indexed = i
  BY <1>4 DEF Collections
<1>. QED BY <1>3, <1>5 DEF v, i

\* Two collections that differ in their documents only.
Alike(x, y) == (y.there <=> x.there) /\ y.validator = x.validator /\ y.indexed = x.indexed

LEMMA ValuesTyped ==
  ASSUME NEW x \in Collections, NEW v \in SUBSET Values
  PROVE [x EXCEPT !.values = v] \in Collections /\ Alike(x, [x EXCEPT !.values = v])
  BY DEF Collections, Alike

\* Only documents of one collection change.
Docs(n, v) == collections' = [collections EXCEPT ![n].values = v]
LEMMA DocsTyped ==
  ASSUME TypeOK, NEW n \in Names, NEW v \in SUBSET Values, Docs(n, v)
  PROVE /\ collections' \in [Names -> Collections]
        /\ \A m \in Names : Alike(collections[m], collections'[m])
<1>. DEFINE x == [collections[n] EXCEPT !.values = v]
<1>0. collections \in [Names -> Collections]
  BY DEF TypeOK
<1>1. x \in Collections /\ Alike(collections[n], x)
  BY <1>0, ValuesTyped
<1>2. collections' = [collections EXCEPT ![n] = x]
  BY DEF Docs
<1>. HIDE DEF x
<1>3. collections'[n] = x /\ \A m \in Names \ {n} : collections'[m] = collections[m]
  BY <1>0, <1>2
<1>4. collections' \in [Names -> Collections]
  BY <1>0, <1>1, <1>2
<1>5. ASSUME NEW m \in Names PROVE Alike(collections[m], collections'[m])
  <2>1. CASE m = n
    BY <1>1, <1>3, <2>1
  <2>2. CASE m /= n
    BY <1>3, <2>2 DEF Alike
  <2>. QED BY <2>1, <2>2
<1>. QED BY <1>4, <1>5

\* A collection is replaced.
LEMMA Replaced ==
  ASSUME TypeOK, NEW n \in Names, NEW x \in Collections, collections' = [collections EXCEPT ![n] = x]
  PROVE /\ collections' \in [Names -> Collections]
        /\ collections'[n] = x
        /\ \A m \in Names \ {n} : collections'[m] = collections[m]
  BY DEF TypeOK

LEMMA WriteTyped ==
  ASSUME NEW N, NEW set \in SUBSET [id : Nat \ {0}, table : Ids, name : N], serial \in Nat,
         NEW c, NEW x \in [id : Nat, name : N], call[c].table \in Ids
  PROVE Write(set, c, x) \in SUBSET [id : Nat \ {0}, table : Ids, name : N]
<1>1. CASE x.id = 0
  BY <1>1 DEF Write
<1>2. CASE x.id /= 0
  BY <1>2 DEF Write
<1>. QED BY <1>1, <1>2

\* The types of what a step leaves alone.
LEMMA TypeLeft ==
  ASSUME TypeOK, CallsOK', plan' = plan
  PROVE /\ tables' = tables => tables' \in [Ids -> Names \cup {NoName}]
        /\ uniques' = uniques => uniques' \subseteq Ids
        /\ columns' = columns => columns' \subseteq ColumnRows
        /\ relations' = relations => relations' \subseteq RelationRows
        /\ routes' = routes => routes' \subseteq RouteRows
        /\ collections' = collections => collections' \in [Names -> Collections]
        /\ renames' = renames => renames' \subseteq Renames
        /\ filled' = filled => filled' \subseteq Nat
        /\ serial' = serial => serial' \in Nat
        /\ plan' \in Plans /\ CallsOK'
  BY DEF TypeOK

-----------------------------------------------------------------------------
(* Types: requests and the lock *)

LEMMA InitTyped == Init => TypeOK
<1>. SUFFICES ASSUME Init PROVE TypeOK
  OBVIOUS
<1>1. CallsOK
  <2>1. call \in [Calls -> Resting \cup Handlers]
    BY DEF Init, Resting
  <2>2. Idle \notin Handlers
    BY IdleTyped, PlaceNames DEF Handlers, Idle
  <2>. QED BY <2>1, <2>2 DEF Init, CallsOK
<1>2. collections \in [Names -> Collections]
  BY NoCollectionTyped DEF Init
<1>. QED BY <1>1, <1>2 DEF Init, TypeOK

LEMMA StartTyped ==
  ASSUME CallsOK, NEW c \in Calls, NEW op \in {"create", "update", "delete"}, NEW t \in Ids \cup {0},
         NEW name \in Names \cup {NoName}, NEW cols \in SUBSET ColumnFields,
         NEW rels \in SUBSET RelationFields, NEW given \in SUBSET {"columns", "relations"},
         op /= "delete" => name \in Names, op /= "create" => t \in Ids,
         op = "create" => \A x \in cols \cup rels : x.id = 0,
         Start(c, op, t, name, cols, rels, given)
  PROVE /\ CallsOK'
        /\ call'[c] \in Handlers /\ call'[c].pc = "acquire" /\ call'[c].op = op
        /\ call'[c].table = t /\ call'[c].cols = cols /\ call'[c].rels = rels
        /\ \A d \in Calls \ {c} : call'[d] = call[d]
<1>. DEFINE h == [pc |-> "acquire", op |-> op, table |-> t, name |-> name, old |-> NoName,
                  cols |-> cols, rels |-> rels, given |-> given, seen |-> {}, todo |-> {}]
<1>1. "acquire" \in Places
  BY PlaceNames
<1>2. /\ h \in Handlers /\ h.pc = "acquire" /\ h.op = op /\ h.table = t /\ h.name = name
      /\ h.cols = cols /\ h.rels = rels
  BY <1>1 DEF Handlers
<1>3. call' = [call EXCEPT ![c] = h]
  BY DEF Start
<1>. HIDE DEF h
<1>4. Sensible(h)
  BY <1>2 DEF Sensible, Creating, Updating, Deleting, Starting
<1>5. CallsOK' /\ Becomes(c, h)
  BY <1>2, <1>3, <1>4, StepTyped
<1>. QED BY <1>2, <1>5 DEF Becomes

\* Bodies name rows that are there, or new ones.
Unique(body) == \A x, y \in body : x /= y => x.name /= y.name /\ (x.id /= y.id \/ x.id = 0)
LEMMA BodiesTyped ==
  ASSUME NEW set, NEW N, NEW body \in Bodies(set, N)
  PROVE /\ body \subseteq [id : {0} \cup {x.id : x \in set}, name : N]
        /\ \A y \in body : y.id = 0 \/ \E x \in set : y.id = x.id
        /\ Unique(body)
  BY DEF Bodies, Unique

\* A request that came in, with a body of rows that are there.
OwnBody(set, body, t) == \A y \in body : y.id = 0 \/ \E x \in set : x.id = y.id /\ x.table = t
LEMMA AskTyped ==
  ASSUME TypeOK, NEW c \in Calls, Ask(c)
  PROVE /\ CallsOK'
        /\ call'[c] \in Handlers /\ call'[c].pc = "acquire"
        /\ OwnBody(columns, call'[c].cols, call'[c].table)
        /\ OwnBody(relations, call'[c].rels, call'[c].table)
        /\ Unique(call'[c].cols)
        /\ \A d \in Calls \ {c} : call'[d] = call[d]
<1>0. plan.names \subseteq Names
  BY MongoAssumption DEF TypeOK
<1>00. CallsOK /\ columns \in SUBSET ColumnRows /\ relations \in SUBSET RelationRows
  BY DEF TypeOK
<1>1. RelationNames \subseteq {RelationName}
  BY DEF RelationNames
\* A body, and what it holds.
<1>2. ASSUME NEW t \in Ids, NEW cols \in Bodies(Of(t, columns), ColumnNames)
      PROVE cols \in SUBSET ColumnFields /\ OwnBody(columns, cols, t) /\ Unique(cols)
  <2>1. /\ cols \subseteq [id : {0} \cup {x.id : x \in Of(t, columns)}, name : ColumnNames]
        /\ \A y \in cols : y.id = 0 \/ \E x \in Of(t, columns) : y.id = x.id
        /\ Unique(cols)
    BY BodiesTyped
  <2>2. \A x \in Of(t, columns) : x \in columns /\ x.table = t /\ x.id \in Nat
    BY <1>00 DEF Of, ColumnRows
  <2>3. {0} \cup {x.id : x \in Of(t, columns)} \subseteq Nat
    BY <2>2
  <2>4. cols \in SUBSET ColumnFields
    BY <2>1, <2>3 DEF ColumnFields
  <2>. QED BY <2>1, <2>2, <2>4 DEF OwnBody
<1>3. ASSUME NEW t \in Ids, NEW rels \in Bodies(Of(t, relations), RelationNames)
      PROVE rels \in SUBSET RelationFields /\ OwnBody(relations, rels, t)
  <2>1. /\ rels \subseteq [id : {0} \cup {x.id : x \in Of(t, relations)}, name : RelationNames]
        /\ \A y \in rels : y.id = 0 \/ \E x \in Of(t, relations) : y.id = x.id
    BY BodiesTyped
  <2>2. \A x \in Of(t, relations) : x \in relations /\ x.table = t /\ x.id \in Nat
    BY <1>00 DEF Of, RelationRows
  <2>3. {0} \cup {x.id : x \in Of(t, relations)} \subseteq Nat
    BY <2>2
  <2>4. rels \in SUBSET RelationFields
    BY <1>1, <2>1, <2>3 DEF RelationFields
  <2>. QED BY <2>1, <2>2, <2>4 DEF OwnBody
<1>4. ASSUME NEW N, NEW body \in Bodies({}, N)
      PROVE body \subseteq [id : Nat, name : N] /\ (\A y \in body : y.id = 0) /\ Unique(body)
  <2>1. /\ body \subseteq [id : {0} \cup {x.id : x \in {}}, name : N]
        /\ (\A y \in body : y.id = 0) /\ Unique(body)
    BY BodiesTyped
  <2>2. {0} \cup {x.id : x \in {}} \subseteq Nat
    OBVIOUS
  <2>. QED BY <2>1, <2>2
<1>5. CASE AskCreate(c)
  <2>1. PICK name \in plan.names, cols \in Bodies({}, ColumnNames), rels \in Bodies({}, RelationNames) :
          Start(c, "create", 0, name, cols, rels, {"columns", "relations"})
    BY <1>5, Zenon DEF AskCreate
  <2>2. cols \in SUBSET ColumnFields /\ (\A y \in cols : y.id = 0) /\ Unique(cols)
    BY <1>4 DEF ColumnFields
  <2>3. rels \in SUBSET RelationFields /\ \A y \in rels : y.id = 0
    BY <1>1, <1>4 DEF RelationFields
  <2>4. /\ CallsOK'
        /\ call'[c] \in Handlers /\ call'[c].pc = "acquire" /\ call'[c].op = "create"
        /\ call'[c].table = 0 /\ call'[c].cols = cols /\ call'[c].rels = rels
        /\ \A d \in Calls \ {c} : call'[d] = call[d]
    <3>1. name \in Names /\ \A x \in cols \cup rels : x.id = 0
      BY <1>0, <2>2, <2>3
    <3>. DEFINE given == {"columns", "relations"}
    <3>2. Start(c, "create", 0, name, cols, rels, given) /\ given \in SUBSET {"columns", "relations"}
      BY <2>1
    <3>. HIDE DEF given
    <3>. QED BY <1>00, <2>2, <2>3, <3>1, <3>2, StartTyped
  <2>. QED BY <2>2, <2>3, <2>4 DEF OwnBody
<1>6. CASE AskUpdate(c)
  <2>1. PICK t \in Live, name \in plan.names, given \in SUBSET {"columns", "relations"} :
          \E cols \in IF "columns" \in given THEN Bodies(Of(t, columns), ColumnNames) ELSE {{}},
             rels \in IF "relations" \in given THEN Bodies(Of(t, relations), RelationNames) ELSE {{}} :
            Start(c, "update", t, name, cols, rels, given)
    BY <1>6, Zenon DEF AskUpdate
  <2>2. PICK cols \in IF "columns" \in given THEN Bodies(Of(t, columns), ColumnNames) ELSE {{}},
             rels \in IF "relations" \in given THEN Bodies(Of(t, relations), RelationNames) ELSE {{}} :
            Start(c, "update", t, name, cols, rels, given)
    BY <2>1, Zenon
  <2>3. t \in Ids
    BY DEF Live
  <2>4. cols \in SUBSET ColumnFields /\ OwnBody(columns, cols, t) /\ Unique(cols)
    <3>1. CASE "columns" \in given
      BY <1>2, <2>3, <3>1
    <3>2. CASE "columns" \notin given
      BY <3>2 DEF OwnBody, Unique
    <3>. QED BY <3>1, <3>2
  <2>5. rels \in SUBSET RelationFields /\ OwnBody(relations, rels, t)
    <3>1. CASE "relations" \in given
      BY <1>3, <2>3, <3>1
    <3>2. CASE "relations" \notin given
      BY <3>2 DEF OwnBody
    <3>. QED BY <3>1, <3>2
  <2>6. /\ CallsOK'
        /\ call'[c] \in Handlers /\ call'[c].pc = "acquire" /\ call'[c].op = "update"
        /\ call'[c].table = t /\ call'[c].cols = cols /\ call'[c].rels = rels
        /\ \A d \in Calls \ {c} : call'[d] = call[d]
    <3>1. name \in Names
      BY <1>0
    <3>. QED BY <1>00, <2>2, <2>3, <2>4, <2>5, <3>1, StartTyped
  <2>. QED BY <2>4, <2>5, <2>6
<1>7. CASE AskDelete(c)
  <2>1. PICK t \in Live : Start(c, "delete", t, NoName, {}, {}, {})
    BY <1>7, Zenon DEF AskDelete
  <2>2. /\ CallsOK'
        /\ call'[c] \in Handlers /\ call'[c].pc = "acquire" /\ call'[c].op = "delete"
        /\ call'[c].table = t /\ call'[c].cols = {} /\ call'[c].rels = {}
        /\ \A d \in Calls \ {c} : call'[d] = call[d]
    <3>1. t \in Ids
      BY DEF Live
    <3>. QED BY <1>00, <2>1, <3>1, StartTyped
  <2>. QED BY <2>2 DEF OwnBody, Unique
<1>. QED BY <1>5, <1>6, <1>7 DEF Ask

LEMMA AcquireCalls ==
  ASSUME CallsOK, NEW c \in Calls, Acquire(c)
  PROVE CallsOK' /\ (Left(c) \/ (call[c].pc = "acquire" /\ Went(c, "look") /\ KeepsTable(c)))
<1>1. CASE lock.by = NoCall \/ lock.over
  <2>1. Goto(c, "look") /\ call[c].pc = "acquire"
    BY <1>1 DEF Acquire
  <2>. QED BY <2>1, GotoWent, PlaceNames
<1>2. CASE ~(lock.by = NoCall \/ lock.over)
  <2>1. call' = [call EXCEPT ![c] = Idle]
    BY <1>2 DEF Acquire
  <2>. QED BY <2>1, IdleLeft
<1>. QED BY <1>1, <1>2

-----------------------------------------------------------------------------
(* Types: every step *)

LEMMA LookCreateTyped ==
  ASSUME TypeOK, NEW c \in Calls, LookCreate(c)
  PROVE /\ TypeOK'
        /\ \/ Left(c) /\ collections' = collections
           \/ /\ \A t \in Live : tables[t] /= call[c].name
              /\ call[c].name \in Names
              /\ collections' = [collections EXCEPT ![call[c].name] = NoCollection]
              /\ Went(c, "insert") /\ KeepsTable(c) /\ call[c].op = "create"
<1>0. call[c].name \in Names /\ CallsOK
  BY AtWork, PlaceNames DEF TypeOK, LookCreate, Sensible
<1>1. CASE \E t \in Live : tables[t] = call[c].name
  <2>1. Over(c) /\ collections' = collections
    BY <1>1 DEF LookCreate
  <2>2. CallsOK' /\ Left(c)
    BY <1>0, <2>1, OverLeft
  <2>. QED BY <2>1, <2>2, TypeLeft DEF LookCreate, rows, counted, TypeOK
<1>2. CASE \A t \in Live : tables[t] /= call[c].name
  <2>1. Goto(c, "insert") /\ collections' = [collections EXCEPT ![call[c].name] = NoCollection]
    BY <1>2 DEF LookCreate
  <2>2. CallsOK' /\ Went(c, "insert") /\ KeepsTable(c)
    <3>1. call[c].pc = "look" /\ call[c].op = "create"
      BY DEF LookCreate
    <3>. QED BY <1>0, <2>1, <3>1, GotoWent, PlaceNames
  <2>3. collections' \in [Names -> Collections]
    BY <1>0, <2>1, Replaced, NoCollectionTyped
  <2>4. TypeOK'
    BY <2>2, <2>3, TypeLeft DEF LookCreate, rows, counted, TypeOK
  <2>. QED BY <1>0, <1>2, <2>1, <2>2, <2>4 DEF LookCreate
<1>. QED BY <1>1, <1>2

LEMMA InsertTableTyped == ASSUME TypeOK, NEW c \in Calls, InsertTable(c) PROVE TypeOK'
<1>1. PICK t \in Unused : tables' = [tables EXCEPT ![t] = call[c].name] /\ Constrain(t) /\ CallsOK'
  BY InsertTableWent
<1>2. call[c].name \in Names
  BY AtWork, PlaceNames DEF TypeOK, InsertTable, Sensible, Creating, Updating
<1>3. tables' \in [Ids -> Names \cup {NoName}]
  BY <1>1, <1>2 DEF TypeOK, Unused
<1>4. uniques' \subseteq Ids
  BY <1>1 DEF TypeOK, Unused, Constrain
<1>. QED BY <1>1, <1>3, <1>4, TypeLeft DEF InsertTable, counted, TypeOK

\* Writing one column or relation, or going on with the next list.
LEMMA WriteColumnTyped ==
  ASSUME TypeOK, NEW c \in Calls, WriteColumn(c)
  PROVE /\ TypeOK'
        /\ Went(c, "columns") \/ Went(c, "relations") \/ Went(c, "fields")
        /\ KeepsTable(c)
        /\ \/ columns' = columns /\ serial' = serial
           \/ \E x \in call[c].cols : columns' = Write(columns, c, x) /\ Number(x)
<1>0. CallsOK /\ call[c].pc = "columns" /\ call[c] \in Handlers /\ Sensible(call[c])
  BY AtWork, PlaceNames DEF TypeOK, WriteColumn
<1>1. CASE call[c].todo = {}
  <2>1. columns' = columns /\ serial' = serial
    BY <1>1 DEF WriteColumn
  <2>2. CallsOK' /\ (Went(c, "relations") \/ Went(c, "fields")) /\ KeepsTable(c)
    <3>1. CASE call[c].op = "create"
      <4>1. call' = [call EXCEPT ![c] = [@ EXCEPT !.pc = "relations", !.todo = call[c].rels]]
        BY <1>1, <3>1 DEF WriteColumn
      <4>. QED BY <1>0, <3>1, <4>1, NextListWent, PlaceNames
    <3>2. CASE call[c].op /= "create"
      <4>1. call' = [call EXCEPT ![c] = [@ EXCEPT !.pc = "fields", !.todo = call[c].rels]]
        BY <1>1, <3>2 DEF WriteColumn
      <4>. QED BY <1>0, <3>2, <4>1, NextListWent, PlaceNames
    <3>. QED BY <3>1, <3>2
  <2>3. TypeOK'
    BY <2>1, <2>2, TypeLeft DEF WriteColumn, TypeOK
  <2>. QED BY <2>1, <2>2, <2>3
<1>2. CASE call[c].todo /= {}
  <2>. DEFINE x == CHOOSE x \in call[c].todo : TRUE
  <2>1. x \in call[c].todo
    BY <1>2
  <2>2. columns' = Write(columns, c, x) /\ Number(x) /\ call' = [call EXCEPT ![c].todo = @ \ {x}]
    BY <1>2, Zenon DEF WriteColumn
  <2>. HIDE DEF x
  <2>3. x \in call[c].cols /\ x \in ColumnFields /\ call[c].table \in Ids
    BY <1>0, <2>1 DEF Sensible, Handlers, Starting
  <2>4. CallsOK' /\ Went(c, "columns") /\ KeepsTable(c)
    <3>. DEFINE todo == call[c].todo \ {x}
    <3>1. todo \in SUBSET call[c].todo /\ call' = [call EXCEPT ![c].todo = todo]
      BY <2>2
    <3>. HIDE DEF todo
    <3>2. CallsOK' /\ Went(c, call[c].pc) /\ KeepsTable(c)
      BY <1>0, <3>1, TodoWent
    <3>. QED BY <1>0, <3>2
  <2>5. columns' \subseteq ColumnRows
    BY <2>2, <2>3, WriteTyped DEF TypeOK, ColumnRows, ColumnFields
  <2>6. serial' \in Nat
    BY <2>2 DEF Number, TypeOK
  <2>7. TypeOK'
    BY <2>4, <2>5, <2>6, TypeLeft DEF WriteColumn, TypeOK
  <2>. QED BY <2>2, <2>3, <2>4, <2>7
<1>. QED BY <1>1, <1>2

LEMMA WriteRelationTyped ==
  ASSUME TypeOK, NEW c \in Calls, WriteRelation(c)
  PROVE /\ TypeOK'
        /\ \/ Went(c, "relations")
           \/ call[c].op = "create" /\ Went(c, "route")
           \/ call[c].op = "update" /\ Went(c, "schema")
        /\ KeepsTable(c)
        /\ \/ relations' = relations /\ serial' = serial
           \/ \E x \in call[c].rels : relations' = Write(relations, c, x) /\ Number(x)
<1>0. CallsOK /\ call[c].pc = "relations" /\ call[c] \in Handlers /\ Sensible(call[c])
  BY AtWork, PlaceNames DEF TypeOK, WriteRelation
<1>1. CASE call[c].todo = {}
  <2>1. relations' = relations /\ serial' = serial
    BY <1>1 DEF WriteRelation
  <2>2. /\ CallsOK' /\ KeepsTable(c)
        /\ (call[c].op = "create" /\ Went(c, "route")) \/ (call[c].op = "update" /\ Went(c, "schema"))
    <3>1. CASE call[c].op = "create"
      <4>1. Goto(c, "route")
        BY <1>1, <3>1 DEF WriteRelation
      <4>. QED BY <1>0, <3>1, <4>1, GotoWent, PlaceNames
    <3>2. CASE call[c].op = "update"
      <4>1. Goto(c, "schema")
        BY <1>1, <3>2 DEF WriteRelation
      <4>. QED BY <1>0, <3>2, <4>1, GotoWent, PlaceNames
    <3>. QED BY <1>0, <3>1, <3>2 DEF Sensible, Creating, Updating
  <2>3. TypeOK'
    BY <2>1, <2>2, TypeLeft DEF WriteRelation, TypeOK
  <2>. QED BY <2>1, <2>2, <2>3
<1>2. CASE call[c].todo /= {}
  <2>. DEFINE x == CHOOSE x \in call[c].todo : TRUE
  <2>1. x \in call[c].todo
    BY <1>2
  <2>2. relations' = Write(relations, c, x) /\ Number(x) /\ call' = [call EXCEPT ![c].todo = @ \ {x}]
    BY <1>2, Zenon DEF WriteRelation
  <2>. HIDE DEF x
  <2>3. x \in call[c].rels /\ x \in RelationFields /\ call[c].table \in Ids
    BY <1>0, <2>1 DEF Sensible, Handlers, Starting
  <2>4. CallsOK' /\ Went(c, "relations") /\ KeepsTable(c)
    <3>. DEFINE todo == call[c].todo \ {x}
    <3>1. todo \in SUBSET call[c].todo /\ call' = [call EXCEPT ![c].todo = todo]
      BY <2>2
    <3>. HIDE DEF todo
    <3>2. CallsOK' /\ Went(c, call[c].pc) /\ KeepsTable(c)
      BY <1>0, <3>1, TodoWent
    <3>. QED BY <1>0, <3>2
  <2>5. relations' \subseteq RelationRows
    BY <2>2, <2>3, WriteTyped DEF TypeOK, RelationRows, RelationFields
  <2>6. serial' \in Nat
    BY <2>2 DEF Number, TypeOK
  <2>7. TypeOK'
    BY <2>4, <2>5, <2>6, TypeLeft DEF WriteRelation, TypeOK
  <2>. QED BY <2>2, <2>3, <2>4, <2>7
<1>. QED BY <1>1, <1>2

LEMMA InsertRouteTyped ==
  ASSUME TypeOK, NEW c \in Calls, InsertRoute(c)
  PROVE /\ TypeOK' /\ Went(c, "collection") /\ KeepsTable(c) /\ call[c].op = "create"
        /\ routes' \subseteq routes \cup {[path |-> call[c].name, table |-> call[c].table]}
<1>0. CallsOK /\ call[c].pc = "route" /\ call[c] \in Handlers /\ Sensible(call[c])
  BY AtWork, PlaceNames DEF TypeOK, InsertRoute
<1>1. call[c].op = "create" /\ call[c].name \in Names /\ call[c].table \in Ids
  BY <1>0 DEF Sensible, Creating, Updating, Starting
<1>2. CallsOK' /\ Went(c, "collection") /\ KeepsTable(c)
  BY <1>0, GotoWent, PlaceNames DEF InsertRoute
<1>3. routes' \subseteq routes \cup {[path |-> call[c].name, table |-> call[c].table]}
  BY DEF InsertRoute
<1>4. routes' \subseteq RouteRows
  BY <1>1, <1>3 DEF TypeOK, RouteRows
<1>. QED BY <1>1, <1>2, <1>3, <1>4, TypeLeft DEF InsertRoute, counted, TypeOK

\* After the last step the collection has what the rows say, or was there.
DescribedAt(n, t) == collections' = [collections EXCEPT ![n] = Described(collections[n], t)]

LEMMA CreateCollectionTyped ==
  ASSUME TypeOK, NEW c \in Calls, CreateCollection(c)
  PROVE /\ TypeOK' /\ Left(c) /\ call[c].op = "create"
        /\ call[c].name \in Names
        /\ collections[call[c].name].there \/ DescribedAt(call[c].name, call[c].table)
<1>0. CallsOK /\ call[c].pc = "collection" /\ call[c] \in Handlers /\ Sensible(call[c])
  BY AtWork, PlaceNames DEF TypeOK, CreateCollection
<1>1. call[c].op = "create" /\ call[c].name \in Names
  BY <1>0 DEF Sensible, Creating, Updating
<1>2. CallsOK' /\ Left(c)
  BY <1>0, OverLeft DEF CreateCollection
<1>3. CASE collections[call[c].name].there
  BY <1>1, <1>2, <1>3, TypeLeft DEF CreateCollection, counted, rows, TypeOK
<1>4. CASE ~collections[call[c].name].there
  <2>1. DescribedAt(call[c].name, call[c].table)
    BY <1>4 DEF CreateCollection, DescribedAt
  <2>2. collections[call[c].name] \in Collections
    BY <1>1 DEF TypeOK
  <2>3. collections' \in [Names -> Collections]
    BY <1>1, <2>1, <2>2, DescribedTyped, Replaced DEF DescribedAt
  <2>. QED BY <1>1, <1>2, <2>1, <2>3, TypeLeft DEF CreateCollection, counted, rows, TypeOK
<1>. QED BY <1>3, <1>4

LEMMA LookUpdateTyped ==
  ASSUME TypeOK, NEW c \in Calls, LookUpdate(c)
  PROVE /\ TypeOK'
        /\ \/ Left(c) /\ tables' = tables /\ uniques' = uniques /\ history' = history
           \/ ~Over(c)
<1>0. CallsOK /\ call[c].name \in Names
  BY AtWork, PlaceNames DEF TypeOK, LookUpdate, Sensible
<1>1. CASE Over(c)
  <2>0. call'[c].pc = "release"
    BY <1>0, <1>1, OverTyped
  <2>1. tables' = tables /\ uniques' = uniques /\ history' = history
    <3>1. CASE call[c].table \notin Live \/ \E u \in Live \ {call[c].table} : tables[u] = call[c].name
      BY <3>1 DEF LookUpdate
    <3>2. CASE ~(call[c].table \notin Live \/ \E u \in Live \ {call[c].table} : tables[u] = call[c].name)
      <4>1. call' = [call EXCEPT ![c] = [@ EXCEPT
               !.old = tables[call[c].table], !.seen = Of(call[c].table, columns),
               !.pc = IF "columns" \in call[c].given THEN "drop" ELSE "fields",
               !.todo = {x \in Of(call[c].table, columns) : \A y \in call[c].cols : y.id /= x.id}]]
        BY <3>2, Zenon DEF LookUpdate
      <4>2. call[c] \in Handlers
        BY <1>0, AtWork, PlaceNames DEF LookUpdate
      <4>3. call'[c].pc \in {"drop", "fields"}
        BY <1>0, <4>1, <4>2 DEF CallsOK, Handlers
      <4>. QED BY <2>0, <4>3
    <3>. QED BY <3>1, <3>2
  <2>2. CallsOK' /\ Left(c)
    BY <1>0, <1>1, OverLeft
  <2>. QED BY <2>1, <2>2, TypeLeft DEF LookUpdate, TypeOK
<1>2. CASE ~Over(c)
  <2>1. CallsOK' /\ call[c].table \in Live /\ tables' = [tables EXCEPT ![call[c].table] = call[c].name]
    BY <1>2, LookUpdateWent
  <2>3. Constrain(call[c].table) \/ uniques' = uniques
    BY <1>2, LookUpdateWent
  <2>4. uniques' \subseteq Ids
    BY <2>1, <2>3 DEF TypeOK, Live, Constrain
  <2>2. tables' \in [Ids -> Names \cup {NoName}]
    BY <1>0, <2>1 DEF TypeOK, Live
  <2>. QED BY <1>2, <2>1, <2>2, <2>4, TypeLeft DEF LookUpdate, TypeOK
<1>. QED BY <1>1, <1>2

LEMMA DropColumnTyped ==
  ASSUME TypeOK, NEW c \in Calls, DropColumn(c)
  PROVE /\ TypeOK' /\ Went(c, "drop") /\ KeepsTable(c)
        /\ call'[c].todo \subseteq call[c].todo
        /\ \E x \in call[c].todo : columns' = {y \in columns : y.id /= x.id}
        /\ \A n \in Names : Alike(collections[n], collections'[n])
<1>0. CallsOK /\ call[c].pc = "drop" /\ call[c] \in Handlers /\ Sensible(call[c])
  BY AtWork, PlaceNames DEF TypeOK, DropColumn
<1>. DEFINE x == CHOOSE x \in call[c].todo : TRUE
            v == Unset(collections[call[c].old].values, x.name)
            todo == call[c].todo \ {x}
<1>1. x \in call[c].todo
  BY DEF DropColumn
<1>2. /\ collections' = [collections EXCEPT ![call[c].old].values = v]
      /\ columns' = {y \in columns : y.id /= x.id}
      /\ filled' = filled \ {x.id}
      /\ call' = [call EXCEPT ![c].todo = todo]
  <2>1. /\ collections' = [collections EXCEPT ![call[c].old].values = Unset(@, x.name)]
        /\ columns' = {y \in columns : y.id /= x.id}
        /\ filled' = filled \ {x.id}
        /\ call' = [call EXCEPT ![c].todo = @ \ {x}]
    BY Zenon DEF DropColumn
  <2>. QED BY <2>1
<1>3. todo \in SUBSET call[c].todo
  OBVIOUS
<1>4. call[c].old \in Names
  BY <1>0 DEF Sensible, Starting, Updating, Creating
<1>5. v \in SUBSET Values
  BY <1>4 DEF TypeOK, Collections, Unset
<1>. HIDE DEF x, v, todo
<1>6. CallsOK' /\ Went(c, call[c].pc) /\ KeepsTable(c) /\ call'[c].todo = todo
  BY <1>0, <1>2, <1>3, TodoWent
<1>7. collections' \in [Names -> Collections] /\ \A n \in Names : Alike(collections[n], collections'[n])
  BY <1>2, <1>4, <1>5, DocsTyped DEF Docs
<1>8. columns' \subseteq ColumnRows /\ filled' \subseteq Nat
  BY <1>2 DEF TypeOK
<1>9. TypeOK'
  BY <1>6, <1>7, <1>8, TypeLeft DEF DropColumn, TypeOK
<1>. QED BY <1>0, <1>1, <1>2, <1>3, <1>6, <1>7, <1>9

\* The validator ends an update.
LEMMA RefuseDropTyped ==
  ASSUME TypeOK, NEW c \in Calls, RefuseDrop(c)
  PROVE TypeOK' /\ Left(c) /\ call[c].op = "update" /\ call[c].old \in Names
<1>0. CallsOK /\ call[c].pc = "drop" /\ call[c] \in Handlers /\ Sensible(call[c])
  BY AtWork, PlaceNames DEF TypeOK, RefuseDrop
<1>1. call[c].op = "update" /\ call[c].old \in Names
  BY <1>0 DEF Sensible, Starting, Updating, Creating
<1>2. CallsOK' /\ Left(c)
  BY <1>0, OverLeft DEF RefuseDrop
<1>. QED BY <1>1, <1>2, TypeLeft DEF RefuseDrop, rows, TypeOK

\* Indexes fail.
LEMMA FailIndexesTyped == ASSUME TypeOK, NEW c \in Calls, FailIndexes(c) PROVE TypeOK' /\ Left(c)
<1>. DEFINE n == IF call[c].pc = "schema" THEN call[c].old ELSE call[c].name
            x == [Described(collections[n], call[c].table) EXCEPT !.indexed = {}]
<1>0. CallsOK /\ call[c] \in Handlers /\ Sensible(call[c]) /\ call[c].pc \in {"collection", "schema"}
  BY AtWork, PlaceNames DEF TypeOK, FailIndexes
<1>1. n \in Names
  BY <1>0 DEF Sensible, Starting, Updating, Creating
<1>2. collections' = [collections EXCEPT ![n] = x]
  BY DEF FailIndexes
<1>. HIDE DEF n
<1>3. collections[n] \in Collections
  BY <1>1 DEF TypeOK
<1>4. Described(collections[n], call[c].table) \in Collections
  BY <1>3, DescribedTyped
<1>5. x \in Collections
  BY <1>4 DEF Collections
<1>. HIDE DEF x
<1>6. collections' \in [Names -> Collections]
  BY <1>1, <1>2, <1>5, Replaced
<1>7. CallsOK' /\ Left(c) /\ plan' = plan
  BY <1>0, OverLeft DEF FailIndexes, Trouble
<1>. QED BY <1>6, <1>7, TypeLeft DEF FailIndexes, rows, TypeOK

LEMMA RenameTyped == ASSUME TypeOK, NEW c \in Calls, Rename(c) PROVE TypeOK'
<1>0. CallsOK /\ call[c].pc = "drop" /\ call[c] \in Handlers /\ Sensible(call[c])
  BY AtWork, PlaceNames DEF TypeOK, Rename
<1>. DEFINE pairs == {q \in call[c].seen \X call[c].cols : q[1].id = q[2].id /\ q[1].name /= q[2].name}
            new == {[collection |-> call[c].old, from |-> p[1].name, to |-> p[2].name] : p \in pairs}
<1>1. renames' = renames \cup new
  BY Zenon DEF Rename
<1>2. call[c].old \in Names /\ call[c].seen \subseteq ColumnRows /\ call[c].cols \subseteq ColumnFields
  BY <1>0 DEF Sensible, Starting, Updating, Creating, Handlers
<1>3. ASSUME NEW p \in pairs PROVE p[1].name \in ColumnNames /\ p[2].name \in ColumnNames
  BY <1>2 DEF ColumnRows, ColumnFields
<1>4. new \subseteq Renames
  <2>. HIDE DEF pairs
  <2>. QED BY <1>2, <1>3 DEF Renames
<1>5. renames' \subseteq Renames
  BY <1>1, <1>4 DEF TypeOK
<1>. QED BY <1>5, RenameWent, TypeLeft DEF Rename, rows, TypeOK

\* Relations that are left out, and no others, are gone.
LeftRelations(c) == {x \in Of(call[c].table, relations) : \A y \in call[c].rels : y.id /= x.id}
LEMMA DropFieldsTyped ==
  ASSUME TypeOK, NEW c \in Calls, DropFields(c)
  PROVE /\ TypeOK' /\ KeepsTable(c)
        /\ Went(c, "schema") \/ Went(c, "relations")
        /\ relations' = relations \/ relations' = relations \ LeftRelations(c)
        /\ \A n \in Names : Alike(collections[n], collections'[n])
<1>0. CallsOK /\ call[c].pc = "fields" /\ call[c] \in Handlers /\ Sensible(call[c])
  BY AtWork, PlaceNames DEF TypeOK, DropFields
<1>1. CASE "relations" \notin call[c].given
  <2>1. Goto(c, "schema") /\ UNCHANGED <<relations, collections, filled>>
    BY <1>1 DEF DropFields
  <2>2. CallsOK' /\ Went(c, "schema") /\ KeepsTable(c)
    BY <1>0, <2>1, GotoWent, PlaceNames
  <2>3. TypeOK'
    BY <2>1, <2>2, TypeLeft DEF DropFields, counted, TypeOK
  <2>. QED BY <2>1, <2>2, <2>3 DEF Alike
<1>2. CASE "relations" \in call[c].given
  <2>. DEFINE fields == NamesOf(call[c].rels) \cup NamesOf(LeftRelations(c))
              kept == {v \in collections[call[c].old].values : v.field \notin fields}
              lost == {x.id : x \in LeftRelations(c)}
  <2>1. /\ collections' = [collections EXCEPT ![call[c].old].values = {v \in @ : v.field \notin fields}]
        /\ relations' = relations \ LeftRelations(c)
        /\ filled' = filled \ lost
        /\ call' = [call EXCEPT ![c] = [@ EXCEPT !.pc = "relations", !.todo = call[c].rels]]
    BY <1>2, Zenon DEF DropFields, LeftRelations
  <2>. HIDE DEF fields
  <2>2. call[c].old \in Names
    BY <1>0 DEF Sensible, Starting, Updating, Creating
  <2>3. kept \in SUBSET Values
    BY <2>2 DEF TypeOK, Collections
  <2>4. collections' = [collections EXCEPT ![call[c].old].values = kept]
    BY <2>1
  <2>. HIDE DEF kept, lost
  <2>5. collections' \in [Names -> Collections] /\ \A n \in Names : Alike(collections[n], collections'[n])
    BY <2>2, <2>3, <2>4, DocsTyped DEF Docs
  <2>6. CallsOK' /\ Went(c, "relations") /\ KeepsTable(c)
    <3>1. call[c].pc = "fields" /\ CallsOK
      BY <1>0
    <3>. QED BY <2>1, <3>1, NextListWent, PlaceNames
  <2>7. relations' \subseteq RelationRows /\ filled' \subseteq Nat
    BY <2>1 DEF TypeOK
  <2>8. TypeOK'
    BY <2>5, <2>6, <2>7, TypeLeft DEF DropFields, counted, TypeOK
  <2>. QED BY <2>1, <2>5, <2>6, <2>8
<1>. QED BY <1>1, <1>2

LEMMA UpdateCollectionTyped ==
  ASSUME TypeOK, NEW c \in Calls, UpdateCollection(c)
  PROVE /\ TypeOK' /\ Left(c) /\ call[c].op = "update"
        /\ call[c].old \in Names
        /\ \/ "unknown" \in history'
           \/ ~collections[call[c].old].there
           \/ DescribedAt(call[c].old, call[c].table)
<1>0. CallsOK /\ call[c].pc = "schema" /\ call[c] \in Handlers /\ Sensible(call[c])
  BY AtWork, PlaceNames DEF TypeOK, UpdateCollection
<1>1. call[c].op = "update" /\ call[c].old \in Names
  BY <1>0 DEF Sensible, Creating, Updating, Starting
<1>2. CallsOK' /\ Left(c)
  BY <1>0, OverLeft DEF UpdateCollection
<1>3. CASE call[c].old \notin known[c]
  <2>1. "unknown" \in history' /\ collections' = collections
    BY <1>3 DEF UpdateCollection
  <2>. QED BY <1>1, <1>2, <2>1, TypeLeft DEF UpdateCollection, rows, TypeOK
<1>4. CASE call[c].old \in known[c] /\ ~collections[call[c].old].there
  <2>1. collections' = collections
    BY <1>4 DEF UpdateCollection
  <2>. QED BY <1>1, <1>2, <1>4, <2>1, TypeLeft DEF UpdateCollection, rows, TypeOK
<1>5. CASE call[c].old \in known[c] /\ collections[call[c].old].there
  <2>1. DescribedAt(call[c].old, call[c].table)
    BY <1>5 DEF UpdateCollection, DescribedAt
  <2>2. collections[call[c].old] \in Collections
    BY <1>1 DEF TypeOK
  <2>3. collections' \in [Names -> Collections]
    BY <1>1, <2>1, <2>2, DescribedTyped, Replaced DEF DescribedAt
  <2>. QED BY <1>1, <1>2, <2>1, <2>3, TypeLeft DEF UpdateCollection, rows, TypeOK
<1>. QED BY <1>3, <1>4, <1>5

LEMMA DeleteRoutesTyped ==
  ASSUME TypeOK, NEW c \in Calls, DeleteRoutes(c)
  PROVE TypeOK' /\ ((Left(c) /\ routes' = routes) \/ ~Over(c))
<1>0. CallsOK /\ call[c].pc = "look" /\ call[c] \in Handlers
  BY AtWork, PlaceNames DEF TypeOK, DeleteRoutes
<1>1. CASE call[c].table \notin Live
  <2>1. Over(c) /\ routes' = routes
    BY <1>1 DEF DeleteRoutes
  <2>2. CallsOK' /\ Left(c)
    BY <1>0, <2>1, OverLeft
  <2>. QED BY <2>1, <2>2, TypeLeft DEF DeleteRoutes, counted, TypeOK
<1>2. CASE call[c].table \in Live
  <2>1. ~Over(c)
    <3>1. call' = [call EXCEPT ![c] = [@ EXCEPT !.pc = "rows", !.old = tables[call[c].table]]]
      BY <1>2, Zenon DEF DeleteRoutes
    <3>2. call'[c].pc = "rows"
      BY <1>0, <3>1 DEF CallsOK, Handlers
    <3>. QED BY <1>0, <3>2, OverTyped
  <2>2. CallsOK' /\ routes' \subseteq routes
    BY <2>1, DeleteRoutesWent
  <2>3. routes' \subseteq RouteRows
    BY <2>2 DEF TypeOK
  <2>. QED BY <2>1, <2>2, <2>3, TypeLeft DEF DeleteRoutes, counted, TypeOK
<1>. QED BY <1>1, <1>2

LEMMA DeleteRowsTyped ==
  ASSUME TypeOK, NEW c \in Calls, DeleteRows(c)
  PROVE TypeOK' /\ Went(c, "dropping") /\ KeepsTable(c) /\ call[c].table \in Ids /\ call[c].op = "delete"
<1>0. CallsOK /\ call[c].pc = "rows" /\ call[c] \in Handlers /\ Sensible(call[c])
  BY AtWork, PlaceNames DEF TypeOK, DeleteRows
<1>1. call[c].table \in Ids /\ call[c].op = "delete"
  BY <1>0 DEF Sensible, Deleting
<1>2. CallsOK' /\ Went(c, "dropping") /\ KeepsTable(c)
  BY <1>0, GotoWent, PlaceNames DEF DeleteRows
<1>3. tables' \in [Ids -> Names \cup {NoName}] /\ columns' \subseteq ColumnRows
  BY <1>1 DEF DeleteRows, TypeOK
<1>. QED BY <1>1, <1>2, <1>3, TypeLeft DEF DeleteRows, counted, TypeOK

LEMMA DropCollectionTyped ==
  ASSUME TypeOK, NEW c \in Calls, DropCollection(c)
  PROVE TypeOK' /\ Left(c) /\ call[c].old \in Names
<1>0. CallsOK /\ call[c].pc = "dropping" /\ call[c] \in Handlers /\ Sensible(call[c])
  BY AtWork, PlaceNames DEF TypeOK, DropCollection
<1>1. call[c].old \in Names
  BY <1>0 DEF Sensible, Deleting, Starting
<1>2. CallsOK' /\ Left(c)
  BY <1>0, OverLeft DEF DropCollection
<1>3. collections' \in [Names -> Collections]
  BY <1>1, Replaced, NoCollectionTyped DEF DropCollection
<1>. QED BY <1>1, <1>2, <1>3, TypeLeft DEF DropCollection, rows, counted, TypeOK

\* A renaming moves values and leaves the rest of the collections alone.
LEMMA RenameFieldTyped ==
  ASSUME TypeOK, NEW r \in renames, RenameField(r)
  PROVE TypeOK' /\ \A n \in Names : Alike(collections[n], collections'[n])
<1>0. r \in Renames /\ renames' \subseteq Renames
  BY DEF TypeOK, RenameField
<1>. DEFINE moved == {v \in collections[r.collection].values : v.field = r.from}
            there == collections[r.collection].values
            now == (there \ {v \in there : v.field \in {r.from, r.to}}) \cup {[v EXCEPT !.field = r.to] : v \in moved}
<1>1. r.collection \in Names /\ r.to \in ColumnNames
  BY <1>0 DEF Renames
<1>2. CASE moved = {}
  <2>1. collections' = collections
    BY <1>2, Zenon DEF RenameField
  <2>2. CallsOK'
    BY DEF RenameField, counted, rows, TypeOK, CallsOK
  <2>3. TypeOK'
    BY <1>0, <2>1, <2>2, TypeLeft DEF RenameField, counted, rows, TypeOK
  <2>. QED BY <2>1, <2>3 DEF Alike
<1>3. CASE moved /= {}
  <2>1. collections' = [collections EXCEPT ![r.collection].values =
                (@ \ {v \in @ : v.field \in {r.from, r.to}}) \cup {[v EXCEPT !.field = r.to] : v \in moved}]
    BY <1>3, Zenon DEF RenameField
  <2>2. collections' = [collections EXCEPT ![r.collection].values = now]
    BY <2>1
  <2>3. there \in SUBSET Values
    BY <1>1 DEF TypeOK, Collections
  <2>4. now \in SUBSET Values
    <3>1. ASSUME NEW v \in moved PROVE [v EXCEPT !.field = r.to] \in Values
      <4>1. v \in Values
        BY <2>3
      <4>. QED BY <1>1, <4>1 DEF Values
    <3>. HIDE DEF moved
    <3>. QED BY <2>3, <3>1
  <2>. HIDE DEF now, there, moved
  <2>5. collections' \in [Names -> Collections] /\ \A n \in Names : Alike(collections[n], collections'[n])
    BY <1>1, <2>2, <2>4, DocsTyped DEF Docs
  <2>6. CallsOK'
    BY DEF RenameField, counted, rows, TypeOK, CallsOK
  <2>7. TypeOK'
    BY <1>0, <2>5, <2>6, TypeLeft DEF RenameField, counted, rows, TypeOK
  <2>. QED BY <2>5, <2>7
<1>. QED BY <1>2, <1>3

\* A client writes documents of a table.
LEMMA FillTyped ==
  ASSUME TypeOK, NEW t \in Ids, Fill(t)
  PROVE TypeOK' /\ \A n \in Names : Alike(collections[n], collections'[n])
<1>. DEFINE n == tables[t]
            fields == Of(t, columns) \cup Of(t, relations)
            new == {[field |-> x.name, of |-> x.id] : x \in fields}
            there == collections[n].values
            now == {v \in there : v.field \notin NamesOf(fields)} \cup new
            ids == {x.id : x \in fields}
<1>1. /\ t \in Live
      /\ collections' = [collections EXCEPT ![n].values =
          {v \in @ : v.field \notin NamesOf(fields)} \cup {[field |-> x.name, of |-> x.id] : x \in fields}]
      /\ filled' = filled \cup ids
  BY Zenon DEF Fill
<1>2. collections' = [collections EXCEPT ![n].values = now]
  BY <1>1
<1>3. n \in Names
  BY <1>1 DEF Live, TypeOK
<1>4. there \in SUBSET Values
  BY <1>3 DEF TypeOK, Collections
<1>5. \A x \in fields : x.name \in ColumnNames \cup {RelationName} /\ x.id \in Nat
  BY DEF TypeOK, Of, ColumnRows, RelationRows
<1>. HIDE DEF fields
<1>6. new \in SUBSET Values /\ ids \in SUBSET Nat
  BY <1>5 DEF Values
<1>7. now \in SUBSET Values
  <2>. HIDE DEF new, there
  <2>. QED BY <1>4, <1>6
<1>. HIDE DEF now, ids, n
<1>8. collections' \in [Names -> Collections] /\ \A m \in Names : Alike(collections[m], collections'[m])
  BY <1>2, <1>3, <1>7, DocsTyped DEF Docs
<1>9. CallsOK'
  BY DEF Fill, TypeOK, CallsOK
<1>10. filled' \subseteq Nat
  BY <1>1, <1>6 DEF TypeOK
<1>11. TypeOK'
  BY <1>8, <1>9, <1>10, TypeLeft DEF Fill, rows, TypeOK
<1>. QED BY <1>8, <1>11

\* A query fails: rows may go, and the handler is done.
LEMMA FailTyped == ASSUME TypeOK, NEW c \in Calls, Fail(c) PROVE TypeOK' /\ Left(c)
<1>1. CallsOK' /\ Left(c)
  BY OverLeft DEF Fail, TypeOK
<1>2. plan' = plan
  BY DEF Fail, Trouble
<1>3. columns' \subseteq columns
  BY DEF Fail
<1>4. tables' \in [Ids -> Names \cup {NoName}]
  <2>1. tables' = tables \/ tables' = [tables EXCEPT ![call[c].table] = NoName]
    BY DEF Fail
  <2>. QED BY <2>1 DEF TypeOK
<1>5. columns' \subseteq ColumnRows
  BY <1>3 DEF TypeOK
<1>. QED BY <1>1, <1>2, <1>4, <1>5, TypeLeft DEF Fail, TypeOK

LEMMA NextTyped == TypeOK /\ [Next]_vars => TypeOK'
<1>. SUFFICES ASSUME TypeOK, [Next]_vars PROVE TypeOK'
  OBVIOUS
<1>0. CallsOK
  BY DEF TypeOK
<1>1. ASSUME NEW c \in Calls, Ask(c) PROVE TypeOK'
  BY <1>1, AskTyped, TypeLeft DEF Ask, rows, TypeOK
<1>2. ASSUME NEW c \in Calls, Acquire(c) PROVE TypeOK'
  BY <1>0, <1>2, AcquireCalls, TypeLeft DEF Acquire, rows, counted, TypeOK
<1>3. ASSUME NEW c \in Calls, Change(c) PROVE TypeOK'
  BY <1>3, LookCreateTyped, InsertTableTyped, WriteColumnTyped, WriteRelationTyped, InsertRouteTyped,
     CreateCollectionTyped, LookUpdateTyped, DropColumnTyped, RefuseDropTyped, RenameTyped, DropFieldsTyped,
     UpdateCollectionTyped, DeleteRoutesTyped, DeleteRowsTyped, DropCollectionTyped DEF Change
<1>4. ASSUME NEW c \in Calls, Release(c) PROVE TypeOK'
  BY <1>0, <1>4, IdleLeft, TypeLeft DEF Release, rows, counted, TypeOK
<1>5. ASSUME NEW c \in Calls, Fail(c) PROVE TypeOK'
  BY <1>5, FailTyped
<1>13. ASSUME NEW c \in Calls, FailIndexes(c) PROVE TypeOK'
  BY <1>13, FailIndexesTyped
<1>6. ASSUME NEW c \in Calls, Die(c) PROVE TypeOK'
  BY <1>0, <1>6, IdleLeft, TypeLeft DEF Die, Trouble, rows, TypeOK
<1>7. ASSUME NEW c \in Calls, Refresh(c) PROVE TypeOK'
  BY <1>7 DEF Refresh, rows, counted, TypeOK, CallsOK
<1>8. ASSUME NEW r \in renames, RenameField(r) PROVE TypeOK'
  BY <1>8, RenameFieldTyped
<1>9. ASSUME NEW r \in renames, RefuseRename(r) \/ LoseRename(r) PROVE TypeOK'
  BY <1>9 DEF RefuseRename, LoseRename, Trouble, rows, TypeOK, CallsOK
<1>10. CASE Lapse
  BY <1>10 DEF Lapse, Trouble, rows, TypeOK, CallsOK
<1>11. ASSUME NEW t \in Ids, Fill(t) PROVE TypeOK'
  BY <1>11, FillTyped
<1>12. CASE UNCHANGED vars
  BY <1>12 DEF vars, rows, counted, TypeOK, CallsOK
<1>. QED BY <1>1, <1>2, <1>3, <1>4, <1>5, <1>6, <1>7, <1>8, <1>9, <1>10, <1>11, <1>12, <1>13 DEF Next, Step

\* Every variable has its type, and every handler is where its kind of change
\* leads, with the data it has there: createTable(), updateTable(), delete().
THEOREM TypeCorrect == Spec => []TypeOK
<1>. QED BY InitTyped, NextTyped, PTL DEF Spec

-----------------------------------------------------------------------------
(* Whose rows a handler writes *)

\* No id is given twice.
Numbered(set) ==
  /\ \A x \in set : x.id <= serial
  /\ \A x, y \in set : x.id = y.id => x = y
\* The rows of a list are those of the table that a handler works on.
OwnIn(set, h, list) ==
  \A x \in list : x.id <= serial /\ \A y \in set : y.id = x.id => y.table = h.table
OwnBodies(h) ==
  /\ OwnIn(columns, h, h.cols) /\ OwnIn(relations, h, h.rels)
  /\ h.pc = "drop" => OwnIn(columns, h, h.todo)
OwnRows ==
  /\ Numbered(columns) /\ Numbered(relations)
  /\ \A c \in Calls : call[c] \in Handlers => OwnBodies(call[c])

\* Rows that are written have new ids, or those they had, in the same table.
Older(set, new) == \A y \in new : y.id <= serial => \E z \in set : z.id = y.id /\ z.table = y.table

LEMMA OlderPart == ASSUME NEW set, NEW new \in SUBSET set PROVE Older(set, new)
  BY DEF Older
LEMMA WriteOwn ==
  ASSUME NEW N, NEW set \in SUBSET [id : Nat \ {0}, table : Ids, name : N], serial \in Nat, Numbered(set),
         NEW c \in Calls, NEW x \in [id : Nat, name : N], x.id <= serial,
         \A y \in set : y.id = x.id => y.table = call[c].table,
         call[c].table \in Ids, Number(x)
  PROVE /\ serial' \in Nat /\ serial <= serial'
        /\ \A y \in Write(set, c, x) : y.id <= serial'
        /\ \A y, z \in Write(set, c, x) : y.id = z.id => y = z
        /\ Older(set, Write(set, c, x))
        /\ \A y \in Write(set, c, x) : y.table = call[c].table \/ y \in set
        /\ \A y \in set : y.table = call[c].table \/ y \in Write(set, c, x)
<1>1. CASE x.id = 0
  <2>. DEFINE new == [id |-> serial + 1, table |-> call[c].table, name |-> x.name]
  <2>1. Write(set, c, x) = set \cup {new} /\ serial' = serial + 1
    BY <1>1 DEF Write, Number
  <2>2. new.id = serial + 1 /\ new.table = call[c].table
    OBVIOUS
  <2>3. \A y \in set : y.id \in Nat /\ y.id <= serial
    BY DEF Numbered
  <2>. HIDE DEF new
  <2>. QED BY <2>1, <2>2, <2>3 DEF Numbered, Older
<1>2. CASE x.id /= 0
  <2>. DEFINE New(y) == IF y.id = x.id THEN [y EXCEPT !.name = x.name] ELSE y
  <2>1. Write(set, c, x) = {New(y) : y \in set} /\ serial' = serial
    BY <1>2 DEF Write, Number
  <2>2. ASSUME NEW y \in set
        PROVE /\ New(y).id = y.id /\ New(y).table = y.table /\ y.id <= serial /\ y.id \in Nat
              /\ New(y) = y \/ y.table = call[c].table
    BY DEF Numbered
  <2>3. \A y \in set : /\ New(y).id = y.id /\ New(y).table = y.table /\ y.id <= serial /\ y.id \in Nat
                       /\ New(y) = y \/ y.table = call[c].table
    BY <2>2
  <2>. HIDE DEF New
  <2>4. \A w \in Write(set, c, x) : \E y \in set : w = New(y)
    BY <2>1
  <2>5. \A y \in set : New(y) \in Write(set, c, x)
    BY <2>1
  <2>6. \A w \in Write(set, c, x) : w.id <= serial'
    BY <2>1, <2>3, <2>4
  <2>7. \A w, z \in Write(set, c, x) : w.id = z.id => w = z
    BY <2>3, <2>4 DEF Numbered
  <2>8. Older(set, Write(set, c, x))
    BY <2>3, <2>4 DEF Older
  <2>9. \A w \in Write(set, c, x) : w.table = call[c].table \/ w \in set
    BY <2>3, <2>4
  <2>10. \A y \in set : y.table = call[c].table \/ y \in Write(set, c, x)
    BY <2>3, <2>5
  <2>. QED BY <2>1, <2>6, <2>7, <2>8, <2>9, <2>10
<1>. QED BY <1>1, <1>2

\* The invariant after a step, from what the step writes.
LEMMA OwnStep ==
  ASSUME TypeOK, TypeOK', OwnRows, serial <= serial', Numbered(columns)', Numbered(relations)',
         Older(columns, columns'), Older(relations, relations'),
         \A d \in Calls : call'[d] = call[d] \/ (call'[d] \in Handlers => OwnBodies(call'[d]))
  PROVE OwnRows'
<1>0. serial \in Nat /\ serial' \in Nat
  BY DEF TypeOK
<1>1. ASSUME NEW d \in Calls, call'[d] \in Handlers PROVE OwnBodies(call'[d])
  <2>1. CASE call'[d] = call[d]
    BY <1>1, <2>1 DEF OwnRows
  <2>2. CASE call'[d] /= call[d]
    BY <1>1, <2>2
  <2>. QED BY <2>1, <2>2
<1>2. ASSUME NEW set, NEW new, NEW h, NEW list, Older(set, new), OwnIn(set, h, list),
             \A x \in list : x.id \in Nat, \A y \in new : y.id \in Nat
      PROVE \A x \in list : x.id <= serial' /\ \A y \in new : y.id = x.id => y.table = h.table
  <2>1. ASSUME NEW x \in list
        PROVE x.id <= serial' /\ \A y \in new : y.id = x.id => y.table = h.table
    <3>1. x.id \in Nat /\ x.id <= serial /\ \A z \in set : z.id = x.id => z.table = h.table
      BY <1>2 DEF OwnIn
    <3>2. ASSUME NEW y \in new, y.id = x.id PROVE y.table = h.table
      BY <1>2, <3>1, <3>2 DEF Older
    <3>. QED BY <1>0, <3>1, <3>2
  <2>. QED BY <2>1
<1>3. /\ \A y \in columns' : y.id \in Nat
      /\ \A y \in relations' : y.id \in Nat
  BY DEF TypeOK, ColumnRows, RelationRows
<1>4. ASSUME NEW d \in Calls, call'[d] \in Handlers PROVE OwnBodies(call[d])'
  <2>. DEFINE h == call'[d]
  <2>1. /\ OwnIn(columns, h, h.cols) /\ OwnIn(relations, h, h.rels)
        /\ h.pc = "drop" => OwnIn(columns, h, h.todo)
    BY <1>1, <1>4 DEF OwnBodies
  <2>2. /\ \A x \in h.cols : x.id \in Nat
        /\ \A x \in h.rels : x.id \in Nat
        /\ h.pc = "drop" => \A x \in h.todo : x.id \in Nat
    BY <1>4 DEF TypeOK, CallsOK, Sensible, Handlers, ColumnFields, RelationFields, ColumnRows
  <2>. HIDE DEF h
  <2>3. \A x \in h.cols : x.id <= serial' /\ \A y \in columns' : y.id = x.id => y.table = h.table
    BY <1>2, <1>3, <2>1, <2>2
  <2>4. \A x \in h.rels : x.id <= serial' /\ \A y \in relations' : y.id = x.id => y.table = h.table
    BY <1>2, <1>3, <2>1, <2>2
  <2>5. h.pc = "drop" =>
          \A x \in h.todo : x.id <= serial' /\ \A y \in columns' : y.id = x.id => y.table = h.table
    BY <1>2, <1>3, <2>1, <2>2
  <2>. QED BY <2>3, <2>4, <2>5 DEF h, OwnBodies, OwnIn
<1>. QED BY <1>4 DEF OwnRows

\* Steps that write no rows.
LEMMA OwnQuiet ==
  ASSUME TypeOK, TypeOK', OwnRows, serial' = serial, columns' \subseteq columns, relations' \subseteq relations,
         \A d \in Calls : call'[d] = call[d] \/ (call'[d] \in Handlers => OwnBodies(call'[d]))
  PROVE OwnRows'
<1>1. serial <= serial'
  BY DEF TypeOK
<1>2. Numbered(columns)' /\ Numbered(relations)'
  BY DEF OwnRows, Numbered
<1>3. Older(columns, columns') /\ Older(relations, relations')
  BY OlderPart
<1>. QED BY <1>1, <1>2, <1>3, OwnStep

\* Who goes on keeps the lists; who is done has none.
LEMMA OwnWent ==
  ASSUME OwnRows, NEW c \in Calls, NEW l, Went(c, l), call'[c].table = call[c].table,
         l = "drop" => OwnIn(columns, call'[c], call'[c].todo)
  PROVE \A d \in Calls : call'[d] = call[d] \/ (call'[d] \in Handlers => OwnBodies(call'[d]))
<1>1. OwnBodies(call[c])
  BY DEF OwnRows, Went
<1>2. OwnBodies(call'[c])
  BY <1>1 DEF OwnBodies, OwnIn, Went, Same
<1>. QED BY <1>2 DEF Went

LEMMA OwnLeft ==
  ASSUME NEW c \in Calls, Left(c)
  PROVE \A d \in Calls : call'[d] = call[d] \/ (call'[d] \in Handlers => OwnBodies(call'[d]))
  BY DEF Left

LEMMA WriteColumnOwn == ASSUME TypeOK, TypeOK', OwnRows, NEW c \in Calls, WriteColumn(c) PROVE OwnRows'
<1>1. \A d \in Calls : call'[d] = call[d] \/ (call'[d] \in Handlers => OwnBodies(call'[d]))
  BY WriteColumnTyped, OwnWent DEF KeepsTable
<1>2. CASE columns' = columns /\ serial' = serial
  BY <1>1, <1>2, OwnQuiet DEF WriteColumn
<1>3. CASE \E x \in call[c].cols : columns' = Write(columns, c, x) /\ Number(x)
  <2>1. PICK x \in call[c].cols : columns' = Write(columns, c, x) /\ Number(x)
    BY <1>3
  <2>2. call[c] \in Handlers /\ call[c].table \in Ids
    BY AtWork, PlaceNames DEF TypeOK, WriteColumn, Sensible, Starting
  <2>3. x \in [id : Nat, name : ColumnNames]
    BY <2>2 DEF Handlers, ColumnFields
  <2>4. x.id <= serial /\ \A y \in columns : y.id = x.id => y.table = call[c].table
    BY <2>2 DEF OwnRows, OwnBodies, OwnIn
  <2>5. columns \in SUBSET [id : Nat \ {0}, table : Ids, name : ColumnNames] /\ serial \in Nat
    BY DEF TypeOK, ColumnRows
  <2>6. /\ serial' \in Nat /\ serial <= serial'
        /\ \A y \in columns' : y.id <= serial'
        /\ \A y, z \in columns' : y.id = z.id => y = z
        /\ Older(columns, columns')
    <3>1. Numbered(columns)
      BY DEF OwnRows
    <3>. QED BY <2>1, <2>2, <2>3, <2>4, <2>5, <3>1, WriteOwn
  <2>7. relations' = relations
    BY DEF WriteColumn
  <2>8. Numbered(columns)' /\ Numbered(relations)'
    <3>1. \A y \in relations : y.id \in Nat /\ y.id <= serial
      BY DEF TypeOK, RelationRows, OwnRows, Numbered
    <3>2. \A y \in relations : y.id <= serial'
      BY <2>5, <2>6, <3>1
    <3>. QED BY <2>6, <2>7, <3>2 DEF OwnRows, Numbered
  <2>9. Older(relations, relations')
    BY <2>7, OlderPart
  <2>. QED BY <1>1, <2>6, <2>8, <2>9, OwnStep
<1>. QED BY <1>2, <1>3, WriteColumnTyped

LEMMA WriteRelationOwn == ASSUME TypeOK, TypeOK', OwnRows, NEW c \in Calls, WriteRelation(c) PROVE OwnRows'
<1>1. \A d \in Calls : call'[d] = call[d] \/ (call'[d] \in Handlers => OwnBodies(call'[d]))
  BY WriteRelationTyped, OwnWent DEF KeepsTable
<1>2. CASE relations' = relations /\ serial' = serial
  BY <1>1, <1>2, OwnQuiet DEF WriteRelation
<1>3. CASE \E x \in call[c].rels : relations' = Write(relations, c, x) /\ Number(x)
  <2>1. PICK x \in call[c].rels : relations' = Write(relations, c, x) /\ Number(x)
    BY <1>3
  <2>2. call[c] \in Handlers /\ call[c].table \in Ids
    BY AtWork, PlaceNames DEF TypeOK, WriteRelation, Sensible, Starting
  <2>3. x \in [id : Nat, name : {RelationName}]
    BY <2>2 DEF Handlers, RelationFields
  <2>4. x.id <= serial /\ \A y \in relations : y.id = x.id => y.table = call[c].table
    BY <2>2 DEF OwnRows, OwnBodies, OwnIn
  <2>5. relations \in SUBSET [id : Nat \ {0}, table : Ids, name : {RelationName}] /\ serial \in Nat
    BY DEF TypeOK, RelationRows
  <2>6. /\ serial' \in Nat /\ serial <= serial'
        /\ \A y \in relations' : y.id <= serial'
        /\ \A y, z \in relations' : y.id = z.id => y = z
        /\ Older(relations, relations')
    <3>. DEFINE N == {RelationName}
    <3>1. /\ x \in [id : Nat, name : N]
          /\ relations \in SUBSET [id : Nat \ {0}, table : Ids, name : N]
      BY <2>3, <2>5
    <3>2. Numbered(relations)
      BY DEF OwnRows
    <3>. HIDE DEF N
    <3>. QED BY <2>1, <2>2, <2>4, <2>5, <3>1, <3>2, WriteOwn
  <2>7. columns' = columns
    BY DEF WriteRelation
  <2>8. Numbered(columns)' /\ Numbered(relations)'
    <3>1. \A y \in columns : y.id \in Nat /\ y.id <= serial
      BY DEF TypeOK, ColumnRows, OwnRows, Numbered
    <3>2. \A y \in columns : y.id <= serial'
      BY <2>5, <2>6, <3>1
    <3>. QED BY <2>6, <2>7, <3>2 DEF OwnRows, Numbered
  <2>9. Older(columns, columns')
    BY <2>7, OlderPart
  <2>. QED BY <1>1, <2>6, <2>8, <2>9, OwnStep
<1>. QED BY <1>2, <1>3, WriteRelationTyped

\* The steps that look, and InsertTable, which gives a new table its id.
LEMMA LookUpdateOwn == ASSUME TypeOK, TypeOK', OwnRows, NEW c \in Calls, LookUpdate(c) PROVE OwnRows'
<1>1. CASE Left(c)
  BY <1>1, OwnLeft, OwnQuiet DEF LookUpdate
<1>2. CASE ~Over(c)
  <2>1. /\ Went(c, "drop") \/ Went(c, "fields")
        /\ call'[c].table = call[c].table /\ call'[c].todo = LeftOut(c)
    BY <1>2, LookUpdateWent
  <2>2. OwnIn(columns, call'[c], call'[c].todo)
    <3>1. ASSUME NEW x \in LeftOut(c)
          PROVE x.id <= serial /\ \A y \in columns : y.id = x.id => y.table = call[c].table
      BY DEF LeftOut, Of, OwnRows, Numbered
    <3>. QED BY <2>1, <3>1 DEF OwnIn
  <2>3. \A d \in Calls : call'[d] = call[d] \/ (call'[d] \in Handlers => OwnBodies(call'[d]))
    BY <2>1, <2>2, OwnWent
  <2>. QED BY <2>3, OwnQuiet DEF LookUpdate
<1>. QED BY <1>1, <1>2, LookUpdateTyped

LEMMA InsertTableOwn == ASSUME TypeOK, TypeOK', OwnRows, NEW c \in Calls, InsertTable(c) PROVE OwnRows'
<1>1. Went(c, "columns")
  BY InsertTableWent
<1>2. \A x \in call'[c].cols \cup call'[c].rels : x.id = 0
  BY <1>1 DEF InsertTable, Went, Same, Sensible, Creating, Updating
<1>3. OwnBodies(call'[c])
  <2>1. /\ \A y \in columns : y.id /= 0
        /\ \A y \in relations : y.id /= 0
        /\ 0 <= serial
    BY DEF TypeOK, ColumnRows, RelationRows
  <2>. QED BY <1>1, <1>2, <2>1 DEF OwnBodies, OwnIn, Went
<1>. QED BY <1>1, <1>3, OwnQuiet DEF InsertTable, Went, counted

LEMMA AskOwn == ASSUME TypeOK, TypeOK', OwnRows, NEW c \in Calls, Ask(c) PROVE OwnRows'
<1>1. /\ call'[c].pc = "acquire"
      /\ OwnBody(columns, call'[c].cols, call'[c].table)
      /\ OwnBody(relations, call'[c].rels, call'[c].table)
      /\ \A d \in Calls \ {c} : call'[d] = call[d]
  BY AskTyped
<1>2. ASSUME NEW set, Numbered(set), NEW list, NEW h, OwnBody(set, list, h.table), \A y \in set : y.id /= 0
      PROVE OwnIn(set, h, list)
  <2>1. 0 <= serial
    BY DEF TypeOK
  <2>. QED BY <1>2, <2>1 DEF OwnIn, OwnBody, Numbered
<1>3. /\ \A y \in columns : y.id /= 0
      /\ \A y \in relations : y.id /= 0
  BY DEF TypeOK, ColumnRows, RelationRows
<1>. DEFINE h == call'[c]
<1>. HIDE DEF h
<1>4. OwnIn(columns, h, h.cols) /\ OwnIn(relations, h, h.rels)
  <2>1. OwnBody(columns, h.cols, h.table) /\ OwnBody(relations, h.rels, h.table)
    BY <1>1 DEF h
  <2>2. Numbered(columns) /\ Numbered(relations)
    BY DEF OwnRows
  <2>. QED BY <1>2, <1>3, <2>1, <2>2
<1>5. OwnBodies(call'[c])
  BY <1>1, <1>4 DEF OwnBodies, h
<1>. QED BY <1>1, <1>5, OwnQuiet DEF Ask, rows

LEMMA ChangeOwn == ASSUME TypeOK, TypeOK', OwnRows, NEW c \in Calls, Change(c) PROVE OwnRows'
<1>1. CASE LookCreate(c)
  BY <1>1, LookCreateTyped, OwnLeft, OwnWent, OwnQuiet DEF LookCreate, KeepsTable, rows, counted
<1>2. CASE InsertTable(c) \/ WriteColumn(c) \/ WriteRelation(c) \/ LookUpdate(c)
  BY <1>2, InsertTableOwn, WriteColumnOwn, WriteRelationOwn, LookUpdateOwn
<1>3. CASE InsertRoute(c)
  BY <1>3, InsertRouteTyped, OwnWent, OwnQuiet DEF InsertRoute, KeepsTable, counted
<1>4. CASE CreateCollection(c)
  BY <1>4, CreateCollectionTyped, OwnLeft, OwnQuiet DEF CreateCollection, rows, counted
<1>5. CASE DropColumn(c)
  <2>1. Went(c, "drop") /\ KeepsTable(c) /\ call'[c].todo \subseteq call[c].todo /\ columns' \subseteq columns
    BY <1>5, DropColumnTyped
  <2>2. OwnIn(columns, call'[c], call'[c].todo)
    BY <1>5, <2>1 DEF OwnRows, OwnBodies, OwnIn, Went, KeepsTable, DropColumn
  <2>3. \A d \in Calls : call'[d] = call[d] \/ (call'[d] \in Handlers => OwnBodies(call'[d]))
    BY <2>1, <2>2, OwnWent DEF KeepsTable
  <2>. QED BY <1>5, <2>1, <2>3, OwnQuiet DEF DropColumn
<1>12. CASE RefuseDrop(c)
  BY <1>12, RefuseDropTyped, OwnLeft, OwnQuiet DEF RefuseDrop, rows
<1>6. CASE Rename(c)
  BY <1>6, RenameWent, OwnWent, OwnQuiet DEF Rename, KeepsTable, rows
<1>7. CASE DropFields(c)
  <2>1. relations' \subseteq relations
    BY <1>7, DropFieldsTyped
  <2>2. \A d \in Calls : call'[d] = call[d] \/ (call'[d] \in Handlers => OwnBodies(call'[d]))
    BY <1>7, DropFieldsTyped, OwnWent DEF KeepsTable
  <2>. QED BY <1>7, <2>1, <2>2, OwnQuiet DEF DropFields, counted
<1>8. CASE UpdateCollection(c)
  BY <1>8, UpdateCollectionTyped, OwnLeft, OwnQuiet DEF UpdateCollection, rows
<1>9. CASE DeleteRoutes(c)
  BY <1>9, DeleteRoutesTyped, DeleteRoutesWent, OwnLeft, OwnWent, OwnQuiet DEF DeleteRoutes, counted
<1>10. CASE DeleteRows(c)
  BY <1>10, DeleteRowsTyped, OwnWent, OwnQuiet DEF DeleteRows, KeepsTable, counted
<1>11. CASE DropCollection(c)
  BY <1>11, DropCollectionTyped, OwnLeft, OwnQuiet DEF DropCollection, rows, counted
<1>. QED BY <1>1, <1>2, <1>3, <1>4, <1>5, <1>6, <1>7, <1>8, <1>9, <1>10, <1>11, <1>12 DEF Change

LEMMA InitOwn == Init => OwnRows
<1>. SUFFICES ASSUME Init PROVE OwnRows
  OBVIOUS
<1>1. \A c \in Calls : call[c] \notin Handlers
  BY PlaceNames DEF Init, Idle, Handlers
<1>. QED BY <1>1 DEF Init, OwnRows, Numbered

LEMMA NextOwn == TypeOK /\ TypeOK' /\ OwnRows /\ [Next]_vars => OwnRows'
<1>. SUFFICES ASSUME TypeOK, TypeOK', OwnRows, [Next]_vars PROVE OwnRows'
  OBVIOUS
<1>0. CallsOK
  BY DEF TypeOK
<1>1. ASSUME NEW c \in Calls, Ask(c) PROVE OwnRows'
  BY <1>1, AskOwn
<1>2. ASSUME NEW c \in Calls, Acquire(c) PROVE OwnRows'
  <2>1. \A d \in Calls : call'[d] = call[d] \/ (call'[d] \in Handlers => OwnBodies(call'[d]))
    BY <1>0, <1>2, AcquireCalls, OwnLeft, OwnWent DEF KeepsTable
  <2>. QED BY <1>2, <2>1, OwnQuiet DEF Acquire, rows, counted
<1>3. ASSUME NEW c \in Calls, Change(c) PROVE OwnRows'
  BY <1>3, ChangeOwn
<1>4. ASSUME NEW c \in Calls, Release(c) PROVE OwnRows'
  BY <1>0, <1>4, IdleLeft, OwnLeft, OwnQuiet DEF Release, rows, counted
<1>5. ASSUME NEW c \in Calls, Fail(c) PROVE OwnRows'
  <2>1. columns' \subseteq columns
    BY <1>5 DEF Fail
  <2>. QED BY <1>5, <2>1, FailTyped, OwnLeft, OwnQuiet DEF Fail
<1>13. ASSUME NEW c \in Calls, FailIndexes(c) PROVE OwnRows'
  BY <1>13, FailIndexesTyped, OwnLeft, OwnQuiet DEF FailIndexes, rows
<1>6. ASSUME NEW c \in Calls, Die(c) PROVE OwnRows'
  BY <1>0, <1>6, IdleLeft, OwnLeft, OwnQuiet DEF Die, rows
\* The rest leaves rows and handlers alone.
<1>7. CASE call' = call /\ columns' = columns /\ relations' = relations /\ serial' = serial
  BY <1>7, OwnQuiet
<1>8. ASSUME NEW c \in Calls, Refresh(c) PROVE OwnRows'
  BY <1>7, <1>8 DEF Refresh, rows, counted
<1>9. ASSUME NEW r \in renames, RenameField(r) \/ RefuseRename(r) \/ LoseRename(r) PROVE OwnRows'
  BY <1>7, <1>9 DEF RenameField, RefuseRename, LoseRename, rows, counted
<1>10. CASE Lapse
  BY <1>7, <1>10 DEF Lapse, rows
<1>11. ASSUME NEW t \in Ids, Fill(t) PROVE OwnRows'
  BY <1>7, <1>11 DEF Fill, rows
<1>12. CASE UNCHANGED vars
  BY <1>7, <1>12 DEF vars, rows, counted
<1>. QED BY <1>1, <1>2, <1>3, <1>4, <1>5, <1>6, <1>8, <1>9, <1>10, <1>11, <1>12, <1>13 DEF Next, Step

-----------------------------------------------------------------------------
(* Rows and collections while a handler works *)

Faults == {"lapsed", "failed", "renamed"}
Excuses == {"lapsed", "failed", "renamed", "refused", "unknown"}
\* Between the first row that changes and the collection.
Building(c) == call[c].pc \in (Creating \cup Updating) \ {"insert"}
\* Names are given once.
Distinct == \A t, u \in Live : tables[t] = tables[u] => t = u
\* A table has its collection, unless it is being made.
Standing ==
  \A t \in Live : \/ collections[tables[t]].there
                  \/ \E c \in Calls : Building(c) /\ call[c].op = "create" /\ call[c].table = t
\* A collection has its table, unless that is being deleted.
Claimed ==
  \A n \in Names : collections[n].there =>
    \/ \E t \in Live : tables[t] = n
    \/ \E c \in Calls : call[c].pc = "dropping" /\ call[c].old = n
Homed == \A x \in columns \cup routes : x.table \in Live
\* What a handler has found out, or made so, still holds when it needs it.
Knows(c) ==
  /\ call[c].pc = "insert" =>
       (\A t \in Live : tables[t] /= call[c].name) /\ ~collections[call[c].name].there
  /\ Building(c) /\ call[c].op = "create" =>
       /\ call[c].table \in Live /\ tables[call[c].table] = call[c].name
       /\ ~collections[call[c].name].there
  /\ Building(c) /\ call[c].op = "update" =>
       /\ call[c].table \in Live /\ tables[call[c].table] = call[c].old
       /\ collections[call[c].old].there
  /\ call[c].pc = "rows" =>
       /\ call[c].table \in Live /\ tables[call[c].table] = call[c].old
       /\ Of(call[c].table, routes) = {}
  /\ call[c].pc = "dropping" => \A t \in Live : tables[t] /= call[c].old
Base == Distinct /\ Standing /\ Claimed /\ Homed /\ \A c \in Calls : Knows(c)
BaseInv == Spared(Faults) => Base

\* Where a handler has nothing in its hands.
Empty == {"idle", "acquire", "look", "release"}
LEMMA EmptyKnows == ASSUME NEW c \in Calls, call[c].pc \in Empty PROVE Knows(c) /\ ~Building(c)
  BY DEF Knows, Building, Empty, Creating, Updating

\* Only one handler works, as long as no lock runs out.
Alone(c) == \A d \in Calls \ {c} : call[d].pc \in Empty /\ call'[d] = call[d]
LEMMA WorksAlone ==
  ASSUME TypeOK, IInv, NEW c \in Calls, Working(c), Spared(Faults), \A d \in Calls \ {c} : call'[d] = call[d]
  PROVE Alone(c)
<1>1. "lapsed" \notin history
  BY DEF Spared, Faults
<1>2. \A d \in Calls : Working(d) => d = c
  BY <1>1 DEF IInv, Holding
<1>. QED BY <1>2 DEF Working, Alone, Empty

\* Steps that change neither tables nor what there is.
LEMMA CalmStep ==
  ASSUME TypeOK, TypeOK', Base, tables' = tables, columns' = columns, routes' = routes,
         \A n \in Names : Alike(collections[n], collections'[n]),
         \A d \in Calls : call'[d] = call[d] \/ (call[d].pc \in Empty /\ call'[d].pc \in Empty)
  PROVE Base'
<1>1. Live' = Live
  BY DEF Live
<1>2. \A t \in Live : tables[t] \in Names
  BY DEF TypeOK, Live
<1>3. \A d \in Calls : Building(d) => call'[d] = call[d]
  BY EmptyKnows
<1>4. Standing'
  <2>1. ASSUME NEW t \in Live, ~collections'[tables[t]].there
        PROVE \E c \in Calls : Building(c)' /\ call'[c].op = "create" /\ call'[c].table = t
    <3>1. ~collections[tables[t]].there
      BY <1>2, <2>1 DEF Alike
    <3>2. PICK c \in Calls : Building(c) /\ call[c].op = "create" /\ call[c].table = t
      BY <3>1 DEF Base, Standing
    <3>. QED BY <1>3, <3>2 DEF Building
  <2>. QED BY <1>1, <2>1 DEF Standing
<1>5. Claimed'
  <2>1. ASSUME NEW n \in Names, collections'[n].there
        PROVE \/ \E t \in Live : tables[t] = n
              \/ \E c \in Calls : call'[c].pc = "dropping" /\ call'[c].old = n
    <3>1. collections[n].there
      BY <2>1 DEF Alike
    <3>2. CASE \E t \in Live : tables[t] = n
      BY <3>2
    <3>3. CASE \E c \in Calls : call[c].pc = "dropping" /\ call[c].old = n
      BY <3>3 DEF Empty
    <3>. QED BY <3>1, <3>2, <3>3 DEF Base, Claimed
  <2>. QED BY <1>1, <2>1 DEF Claimed
<1>6. ASSUME NEW d \in Calls PROVE Knows(d)'
  <2>1. CASE call[d].pc \in Empty /\ call'[d].pc \in Empty
    BY <2>1 DEF Knows, Building, Empty, Creating, Updating
  <2>2. CASE call'[d] = call[d] /\ call[d].pc \notin Empty
    <3>1. call[d] \in Handlers /\ Sensible(call[d])
      BY <2>2, AtWork, PlaceNames DEF TypeOK, Empty
    <3>2. Knows(d)
      BY DEF Base
    <3>3. call[d].pc = "insert" =>
            (\A t \in Live : tables[t] /= call[d].name) /\ ~collections'[call[d].name].there
      BY <3>1, <3>2 DEF Knows, Sensible, Creating, Updating, Alike
    <3>4. Building(d) /\ call[d].op = "create" =>
            /\ call[d].table \in Live /\ tables[call[d].table] = call[d].name
            /\ ~collections'[call[d].name].there
      BY <3>1, <3>2 DEF Knows, Sensible, Alike
    <3>5. Building(d) /\ call[d].op = "update" =>
            /\ call[d].table \in Live /\ tables[call[d].table] = call[d].old
            /\ collections'[call[d].old].there
      BY <1>2, <3>2 DEF Knows, Alike
    <3>. QED BY <1>1, <2>2, <3>2, <3>3, <3>4, <3>5 DEF Knows, Building
  <2>. QED BY <2>1, <2>2
<1>. QED BY <1>1, <1>4, <1>5, <1>6 DEF Base, Distinct, Homed

\* Steps of a handler that goes on building.
LEMMA BuildStep ==
  ASSUME TypeOK, TypeOK', Base, NEW c \in Calls, Building(c), Building(c)', Alone(c),
         call[c] \in Handlers, call'[c] \in Handlers, Same(call[c], call'[c]), KeepsTable(c),
         Sensible(call[c]),
         tables' = tables,
         \A n \in Names : Alike(collections[n], collections'[n]),
         \A x \in columns' \cup routes' : x \in columns \cup routes \/ x.table = call[c].table
  PROVE Base'
<1>1. Live' = Live
  BY DEF Live
<1>2. \A t \in Live : tables[t] \in Names
  BY DEF TypeOK, Live
<1>3. Knows(c) /\ call[c].op \in {"create", "update"} /\ call[c].pc \notin Empty \cup {"dropping", "rows", "insert"}
  BY DEF Base, Sensible, Building, Creating, Updating, Empty
<1>4. Standing'
  <2>1. ASSUME NEW t \in Live, ~collections'[tables[t]].there
        PROVE \E d \in Calls : Building(d)' /\ call'[d].op = "create" /\ call'[d].table = t
    <3>1. ~collections[tables[t]].there
      BY <1>2, <2>1 DEF Alike
    <3>2. PICK d \in Calls : Building(d) /\ call[d].op = "create" /\ call[d].table = t
      BY <3>1 DEF Base, Standing
    <3>3. d = c
      BY <3>2, EmptyKnows DEF Alone
    <3>. QED BY <3>2, <3>3 DEF Same, KeepsTable
  <2>. QED BY <1>1, <2>1 DEF Standing
<1>5. Claimed'
  <2>1. ASSUME NEW n \in Names, collections'[n].there PROVE \E t \in Live : tables[t] = n
    <3>1. collections[n].there
      BY <2>1 DEF Alike
    <3>2. \A d \in Calls : call[d].pc /= "dropping"
      BY <1>3 DEF Alone, Empty
    <3>. QED BY <3>1, <3>2 DEF Base, Claimed
  <2>. QED BY <1>1, <2>1 DEF Claimed
<1>6. Homed'
  BY <1>1, <1>3 DEF Base, Homed, Knows
<1>7. Knows(c)'
  <2>1. CASE call[c].op = "create"
    BY <1>1, <1>3, <2>1 DEF Knows, Same, KeepsTable, Sensible, Alike, Building, Creating, Updating
  <2>2. CASE call[c].op = "update"
    BY <1>1, <1>2, <1>3, <2>2 DEF Knows, Same, KeepsTable, Alike, Building, Creating, Updating
  <2>. QED BY <1>3, <2>1, <2>2
<1>8. ASSUME NEW d \in Calls PROVE Knows(d)'
  <2>1. CASE d = c
    BY <1>7, <2>1
  <2>2. CASE d /= c
    BY <2>2 DEF Knows, Building, Empty, Creating, Updating, Alone
  <2>. QED BY <2>1, <2>2
<1>. QED BY <1>1, <1>4, <1>5, <1>6, <1>8 DEF Base, Distinct

\* Rows that a step changes are of one table.
OthersKeep(set, new, t) ==
  (\A y \in new : y \in set \/ y.table = t) /\ (\A y \in set : y \in new \/ y.table = t)
LEMMA OthersSame ==
  ASSUME NEW set, NEW new, NEW t, OthersKeep(set, new, t), NEW u, u /= t PROVE Of(u, new) = Of(u, set)
  BY DEF OthersKeep, Of

LEMMA ColumnsWritten ==
  ASSUME TypeOK, OwnRows, NEW c \in Calls, WriteColumn(c) PROVE OthersKeep(columns, columns', call[c].table)
<1>1. CASE columns' = columns
  BY <1>1 DEF OthersKeep
<1>2. CASE \E x \in call[c].cols : columns' = Write(columns, c, x) /\ Number(x)
  <2>1. PICK x \in call[c].cols : columns' = Write(columns, c, x) /\ Number(x)
    BY <1>2
  <2>2. call[c] \in Handlers /\ call[c].table \in Ids
    BY AtWork, PlaceNames DEF TypeOK, WriteColumn, Sensible, Starting
  <2>3. x \in [id : Nat, name : ColumnNames]
    BY <2>2 DEF Handlers, ColumnFields
  <2>4. x.id <= serial /\ \A y \in columns : y.id = x.id => y.table = call[c].table
    BY <2>2 DEF OwnRows, OwnBodies, OwnIn
  <2>5. /\ columns \in SUBSET [id : Nat \ {0}, table : Ids, name : ColumnNames] /\ serial \in Nat
        /\ Numbered(columns)
    BY DEF TypeOK, ColumnRows, OwnRows
  <2>6. /\ \A y \in columns' : y.table = call[c].table \/ y \in columns
        /\ \A y \in columns : y.table = call[c].table \/ y \in columns'
    BY <2>1, <2>2, <2>3, <2>4, <2>5, WriteOwn
  <2>. QED BY <2>6 DEF OthersKeep
<1>. QED BY <1>1, <1>2, WriteColumnTyped

LEMMA RelationsWritten ==
  ASSUME TypeOK, OwnRows, NEW c \in Calls, WriteRelation(c) PROVE OthersKeep(relations, relations', call[c].table)
<1>1. CASE relations' = relations
  BY <1>1 DEF OthersKeep
<1>2. CASE \E x \in call[c].rels : relations' = Write(relations, c, x) /\ Number(x)
  <2>1. PICK x \in call[c].rels : relations' = Write(relations, c, x) /\ Number(x)
    BY <1>2
  <2>2. call[c] \in Handlers /\ call[c].table \in Ids
    BY AtWork, PlaceNames DEF TypeOK, WriteRelation, Sensible, Starting
  <2>. DEFINE N == {RelationName}
  <2>3. x \in [id : Nat, name : N]
    BY <2>2 DEF Handlers, RelationFields
  <2>4. x.id <= serial /\ \A y \in relations : y.id = x.id => y.table = call[c].table
    BY <2>2 DEF OwnRows, OwnBodies, OwnIn
  <2>5. /\ relations \in SUBSET [id : Nat \ {0}, table : Ids, name : N] /\ serial \in Nat
        /\ Numbered(relations)
    BY DEF TypeOK, RelationRows, OwnRows
  <2>. HIDE DEF N
  <2>6. /\ \A y \in relations' : y.table = call[c].table \/ y \in relations
        /\ \A y \in relations : y.table = call[c].table \/ y \in relations'
    BY <2>1, <2>2, <2>3, <2>4, <2>5, WriteOwn
  <2>. QED BY <2>6 DEF OthersKeep
<1>. QED BY <1>1, <1>2, WriteRelationTyped

LEMMA ColumnDropped ==
  ASSUME TypeOK, OwnRows, NEW c \in Calls, DropColumn(c) PROVE OthersKeep(columns, columns', call[c].table)
<1>1. PICK x \in call[c].todo : columns' = {y \in columns : y.id /= x.id}
  BY DropColumnTyped
<1>2. OwnIn(columns, call[c], call[c].todo)
  BY DropColumnTyped DEF OwnRows, OwnBodies, DropColumn, Went
<1>. QED BY <1>1, <1>2 DEF OthersKeep, OwnIn

LEMMA FieldsDropped ==
  ASSUME TypeOK, NEW c \in Calls, DropFields(c) PROVE OthersKeep(relations, relations', call[c].table)
  BY DropFieldsTyped DEF OthersKeep, LeftRelations, Of

-----------------------------------------------------------------------------
(* Each step keeps rows and collections together *)

\* What the steps below start from: a handler that works alone.
Start0(c) == TypeOK /\ TypeOK' /\ OwnRows /\ Base /\ Alone(c)

\* A knows what it did, and the others have nothing in their hands.
LEMMA AllKnow ==
  ASSUME NEW c \in Calls, Alone(c), Knows(c)' PROVE \A d \in Calls : Knows(d)'
<1>1. ASSUME NEW d \in Calls \ {c} PROVE Knows(d)'
  BY DEF Knows, Building, Empty, Creating, Updating, Alone
<1>. QED BY <1>1

\* Nobody makes or deletes a table while the only handler at work does not.
LEMMA NobodyElse ==
  ASSUME TypeOK, Base, NEW c \in Calls, Alone(c)
  PROVE /\ \A t \in Live : collections[tables[t]].there \/ (Building(c) /\ call[c].op = "create" /\ call[c].table = t)
        /\ \A n \in Names : collections[n].there =>
             (\E t \in Live : tables[t] = n) \/ (call[c].pc = "dropping" /\ call[c].old = n)
<1>1. \A d \in Calls \ {c} : ~Building(d) /\ call[d].pc /= "dropping"
  BY DEF Alone, Building, Empty, Creating, Updating
<1>. QED BY <1>1 DEF Base, Standing, Claimed

LEMMA QuietAlike ==
  ASSUME collections' = collections PROVE \A n \in Names : Alike(collections[n], collections'[n])
  BY DEF Alike

\* A handler that has nothing to do leaves everything as it is.
LEMMA RefusedBase ==
  ASSUME NEW c \in Calls, Start0(c), call[c].pc = "look", Left(c), tables' = tables, columns' = columns,
         routes' = routes, collections' = collections
  PROVE Base'
  BY CalmStep, QuietAlike DEF Start0, Left, Empty

LEMMA LookCreateBase == ASSUME NEW c \in Calls, Start0(c), LookCreate(c) PROVE Base'
<1>0. call[c].pc = "look" /\ UNCHANGED <<tables, columns, routes>>
  BY DEF LookCreate, rows
<1>1. CASE Left(c) /\ collections' = collections
  BY <1>0, <1>1, RefusedBase
<1>2. CASE /\ \A t \in Live : tables[t] /= call[c].name
           /\ call[c].name \in Names
           /\ collections' = [collections EXCEPT ![call[c].name] = NoCollection]
           /\ Went(c, "insert") /\ KeepsTable(c) /\ call[c].op = "create"
  <2>1. Live' = Live
    BY <1>0 DEF Live
  <2>2. /\ ~collections'[call[c].name].there
        /\ \A n \in Names \ {call[c].name} : collections'[n] = collections[n]
    BY <1>2 DEF NoCollection, Start0, TypeOK
  <2>3. Knows(c)'
    BY <1>0, <1>2, <2>1, <2>2 DEF Went, Same, Knows, Building, Creating, Updating
  <2>4. \A t \in Live : tables[t] \in Names /\ collections[tables[t]].there
    BY <1>0, NobodyElse, EmptyKnows DEF Start0, Live, TypeOK, Empty
  <2>5. \A n \in Names : collections[n].there => \E t \in Live : tables[t] = n
    BY <1>0, NobodyElse DEF Start0
  <2>6. Standing' /\ Claimed'
    BY <1>0, <1>2, <2>1, <2>2, <2>4, <2>5 DEF Standing, Claimed
  <2>7. Distinct' /\ Homed'
    BY <1>0, <2>1 DEF Start0, Base, Distinct, Homed
  <2>. QED BY <2>3, <2>6, <2>7, AllKnow DEF Start0, Base
<1>. QED BY <1>1, <1>2, LookCreateTyped DEF Start0

LEMMA InsertTableBase == ASSUME NEW c \in Calls, Start0(c), InsertTable(c) PROVE Base'
<1>0. /\ call[c].pc = "insert" /\ UNCHANGED <<columns, routes, collections>>
      /\ call[c].op = "create" /\ call[c].name \in Names
  BY AtWork, PlaceNames DEF InsertTable, Start0, TypeOK, Sensible, Creating, Updating
<1>1. PICK t \in Unused :
          /\ tables' = [tables EXCEPT ![t] = call[c].name]
          /\ CallsOK' /\ Went(c, "columns")
          /\ call'[c].table = t /\ call'[c].old = call[c].old /\ call'[c].todo = call[c].cols
  BY InsertTableWent DEF Start0
<1>2. t \in Ids /\ t \notin Live
  BY DEF Unused
<1>3. call[c].name /= NoName
  BY <1>0, MongoAssumption
<1>4. /\ Live' = Live \cup {t} /\ tables'[t] = call[c].name
      /\ \A u \in Live : tables'[u] = tables[u] /\ u /= t
  BY <1>1, <1>2, <1>3 DEF Live, Start0, TypeOK
<1>5. (\A u \in Live : tables[u] /= call[c].name) /\ ~collections[call[c].name].there
  BY <1>0 DEF Start0, Base, Knows
<1>6. Building(c)' /\ call'[c].op = "create" /\ call'[c].table = t /\ call'[c].name = call[c].name
  BY <1>0, <1>1 DEF Went, Same, Building, Creating, Updating
<1>7. Knows(c)'
  BY <1>0, <1>1, <1>4, <1>5, <1>6 DEF Knows, Went
<1>8. Distinct'
  BY <1>4, <1>5 DEF Distinct, Start0, Base
<1>9. \A u \in Live : collections[tables[u]].there
  BY <1>0, NobodyElse DEF Start0, Building, Creating, Updating
<1>10. Standing'
  BY <1>0, <1>4, <1>6, <1>9 DEF Standing
<1>11. Claimed'
  <2>1. \A n \in Names : collections[n].there => \E u \in Live : tables[u] = n
    BY <1>0, NobodyElse DEF Start0
  <2>. QED BY <1>0, <1>4, <2>1 DEF Claimed
<1>12. Homed'
  BY <1>0, <1>4 DEF Homed, Start0, Base
<1>. QED BY <1>7, <1>8, <1>10, <1>11, <1>12, AllKnow DEF Start0, Base

\* The steps of a handler that goes on building.
LEMMA BuildingBase ==
  ASSUME NEW c \in Calls, Start0(c),
         WriteColumn(c) \/ WriteRelation(c) \/ InsertRoute(c) \/ DropColumn(c) \/ Rename(c) \/ DropFields(c)
  PROVE Base'
<1>0. /\ call[c].pc \in {"columns", "relations", "route", "drop", "fields"}
      /\ call[c] \in Handlers /\ Sensible(call[c]) /\ Building(c)
      /\ tables' = tables
  BY AtWork, PlaceNames
     DEF WriteColumn, WriteRelation, InsertRoute, DropColumn, Rename, DropFields, Start0, TypeOK, rows,
         Building, Creating, Updating
<1>1. CASE WriteColumn(c)
  <2>1. /\ Went(c, "columns") \/ Went(c, "relations") \/ Went(c, "fields")
        /\ KeepsTable(c)
    BY <1>1, WriteColumnTyped DEF Start0
  <2>2. collections' = collections /\ routes' = routes
    BY <1>1 DEF WriteColumn
  <2>3. OthersKeep(columns, columns', call[c].table)
    BY <1>1, ColumnsWritten DEF Start0
  <2>4. Building(c)' /\ call'[c] \in Handlers /\ Same(call[c], call'[c])
    BY <2>1 DEF Went, Building, Creating, Updating
  <2>5. \A x \in columns' \cup routes' : x \in columns \cup routes \/ x.table = call[c].table
    BY <2>2, <2>3 DEF OthersKeep
  <2>. QED BY <1>0, <2>1, <2>2, <2>4, <2>5, BuildStep, QuietAlike DEF Start0
<1>2. CASE WriteRelation(c)
  <2>1. /\ Went(c, "relations") \/ Went(c, "route") \/ Went(c, "schema")
        /\ KeepsTable(c)
    BY <1>2, WriteRelationTyped DEF Start0
  <2>2. collections' = collections /\ routes' = routes /\ columns' = columns
    BY <1>2 DEF WriteRelation
  <2>4. Building(c)' /\ call'[c] \in Handlers /\ Same(call[c], call'[c])
    BY <2>1 DEF Went, Building, Creating, Updating
  <2>. QED BY <1>0, <2>1, <2>2, <2>4, BuildStep, QuietAlike DEF Start0
<1>3. CASE InsertRoute(c)
  <2>1. /\ Went(c, "collection") /\ KeepsTable(c)
        /\ routes' \subseteq routes \cup {[path |-> call[c].name, table |-> call[c].table]}
    BY <1>3, InsertRouteTyped DEF Start0
  <2>2. collections' = collections /\ columns' = columns
    BY <1>3 DEF InsertRoute
  <2>4. Building(c)' /\ call'[c] \in Handlers /\ Same(call[c], call'[c])
    BY <2>1 DEF Went, Building, Creating, Updating
  <2>5. \A x \in columns' \cup routes' : x \in columns \cup routes \/ x.table = call[c].table
    BY <2>1, <2>2
  <2>. QED BY <1>0, <2>1, <2>2, <2>4, <2>5, BuildStep, QuietAlike DEF Start0
<1>4. CASE DropColumn(c)
  <2>1. /\ Went(c, "drop") /\ KeepsTable(c)
        /\ \A n \in Names : Alike(collections[n], collections'[n])
    BY <1>4, DropColumnTyped DEF Start0
  <2>2. routes' = routes
    BY <1>4 DEF DropColumn
  <2>3. OthersKeep(columns, columns', call[c].table)
    BY <1>4, ColumnDropped DEF Start0
  <2>4. Building(c)' /\ call'[c] \in Handlers /\ Same(call[c], call'[c])
    BY <2>1 DEF Went, Building, Creating, Updating
  <2>5. \A x \in columns' \cup routes' : x \in columns \cup routes \/ x.table = call[c].table
    BY <2>2, <2>3 DEF OthersKeep
  <2>. QED BY <1>0, <2>1, <2>4, <2>5, BuildStep DEF Start0
<1>5. CASE Rename(c)
  <2>1. Went(c, "columns") /\ KeepsTable(c)
    BY <1>5, RenameWent DEF Start0
  <2>2. collections' = collections /\ routes' = routes /\ columns' = columns
    BY <1>5 DEF Rename, rows
  <2>4. Building(c)' /\ call'[c] \in Handlers /\ Same(call[c], call'[c])
    BY <2>1 DEF Went, Building, Creating, Updating
  <2>. QED BY <1>0, <2>1, <2>2, <2>4, BuildStep, QuietAlike DEF Start0
<1>6. CASE DropFields(c)
  <2>1. /\ Went(c, "schema") \/ Went(c, "relations")
        /\ KeepsTable(c)
        /\ \A n \in Names : Alike(collections[n], collections'[n])
    BY <1>6, DropFieldsTyped DEF Start0
  <2>2. routes' = routes /\ columns' = columns
    BY <1>6 DEF DropFields
  <2>4. Building(c)' /\ call'[c] \in Handlers /\ Same(call[c], call'[c])
    BY <2>1 DEF Went, Building, Creating, Updating
  <2>. QED BY <1>0, <2>1, <2>2, <2>4, BuildStep DEF Start0
<1>. QED BY <1>1, <1>2, <1>3, <1>4, <1>5, <1>6

\* The handler is done with a table that has its collection now.
LEMMA FinishedBase ==
  ASSUME NEW c \in Calls, Start0(c), Left(c), Building(c), NEW n \in Names,
         UNCHANGED <<tables, columns, routes>>,
         \A m \in Names \ {n} : collections'[m] = collections[m],
         collections'[n].there, call[c].table \in Live, tables[call[c].table] = n
  PROVE Base'
<1>1. Live' = Live /\ \A t \in Live : tables[t] \in Names
  BY DEF Live, Start0, TypeOK
<1>2. Knows(c)'
  BY DEF Left, Knows, Building, Creating, Updating
<1>3. \A t \in Live : collections[tables[t]].there \/ t = call[c].table
  BY NobodyElse DEF Start0
<1>4. call[c].pc /= "dropping"
  BY DEF Building, Creating, Updating
<1>5. \A m \in Names : collections[m].there => \E t \in Live : tables[t] = m
  BY <1>4, NobodyElse DEF Start0
<1>6. Standing' /\ Claimed'
  BY <1>1, <1>3, <1>5 DEF Standing, Claimed
<1>7. Distinct' /\ Homed'
  BY <1>1 DEF Start0, Base, Distinct, Homed
<1>. QED BY <1>2, <1>6, <1>7, AllKnow DEF Start0, Base

LEMMA CreateCollectionBase == ASSUME NEW c \in Calls, Start0(c), CreateCollection(c) PROVE Base'
<1>. DEFINE n == call[c].name
<1>1. /\ Left(c) /\ call[c].op = "create" /\ n \in Names
      /\ collections[n].there \/ DescribedAt(n, call[c].table)
  BY CreateCollectionTyped DEF Start0
<1>2. call[c].pc = "collection" /\ Building(c) /\ UNCHANGED <<tables, columns, routes>>
  BY DEF CreateCollection, rows, Building, Creating, Updating
<1>3. call[c].table \in Live /\ tables[call[c].table] = n /\ ~collections[n].there
  BY <1>1, <1>2 DEF Start0, Base, Knows
<1>4. collections[n] \in Collections
  BY <1>1 DEF Start0, TypeOK
<1>5. collections'[n].there /\ \A m \in Names \ {n} : collections'[m] = collections[m]
  <2>1. Described(collections[n], call[c].table) \in Collections /\ Described(collections[n], call[c].table).there
    BY <1>4, DescribedTyped DEF Start0
  <2>. HIDE DEF n
  <2>. QED BY <1>1, <1>3, <2>1, Replaced DEF Start0, DescribedAt
<1>. HIDE DEF n
<1>. QED BY <1>1, <1>2, <1>3, <1>5, FinishedBase

LEMMA UpdateCollectionBase == ASSUME NEW c \in Calls, Start0(c), UpdateCollection(c) PROVE Base'
<1>. DEFINE n == call[c].old
<1>1. Left(c) /\ call[c].op = "update" /\ n \in Names
  BY UpdateCollectionTyped DEF Start0
<1>2. call[c].pc = "schema" /\ Building(c) /\ UNCHANGED <<tables, columns, routes>>
  BY DEF UpdateCollection, rows, Building, Creating, Updating
<1>3. call[c].table \in Live /\ tables[call[c].table] = n /\ collections[n].there
  BY <1>1, <1>2 DEF Start0, Base, Knows
<1>4. collections[n] \in Collections
  BY <1>1 DEF Start0, TypeOK
<1>5. collections' = collections \/ DescribedAt(n, call[c].table)
  BY DEF UpdateCollection, DescribedAt
<1>6. collections'[n].there /\ \A m \in Names \ {n} : collections'[m] = collections[m]
  <2>1. Described(collections[n], call[c].table) \in Collections /\ Described(collections[n], call[c].table).there
    BY <1>4, DescribedTyped DEF Start0
  <2>. HIDE DEF n
  <2>2. CASE collections' = collections
    BY <1>3, <2>2
  <2>3. CASE DescribedAt(n, call[c].table)
    BY <1>1, <2>1, <2>3, Replaced DEF Start0, DescribedAt
  <2>. QED BY <1>5, <2>2, <2>3
<1>. HIDE DEF n
<1>. QED BY <1>1, <1>2, <1>3, <1>6, FinishedBase

LEMMA RefuseDropBase == ASSUME NEW c \in Calls, Start0(c), RefuseDrop(c) PROVE Base'
<1>. DEFINE n == call[c].old
<1>1. Left(c) /\ call[c].op = "update" /\ n \in Names
  BY RefuseDropTyped DEF Start0
<1>2. call[c].pc = "drop" /\ Building(c) /\ UNCHANGED <<tables, columns, routes, collections>>
  BY DEF RefuseDrop, rows, Building, Creating, Updating
<1>3. call[c].table \in Live /\ tables[call[c].table] = n /\ collections[n].there
  BY <1>1, <1>2 DEF Start0, Base, Knows
<1>. HIDE DEF n
<1>. QED BY <1>1, <1>2, <1>3, FinishedBase

LEMMA LookUpdateBase ==
  ASSUME NEW c \in Calls, Start0(c), LookUpdate(c), "renamed" \notin history' PROVE Base'
<1>0. call[c].pc = "look" /\ UNCHANGED <<columns, routes, collections>>
  BY DEF LookUpdate
<1>1. CASE Left(c) /\ tables' = tables
  BY <1>0, <1>1, RefusedBase
<1>2. CASE ~Over(c)
  <2>1. /\ call[c].table \in Live
        /\ tables' = [tables EXCEPT ![call[c].table] = call[c].name]
        /\ history' = IF tables[call[c].table] = call[c].name THEN history ELSE history \cup {"renamed"}
        /\ call[c].op = "update"
        /\ Went(c, "drop") \/ Went(c, "fields")
        /\ call'[c].table = call[c].table
        /\ call'[c].old = tables[call[c].table]
    BY <1>2, LookUpdateWent DEF Start0
  <2>2. tables[call[c].table] = call[c].name
    BY <2>1
  <2>3. tables' = tables
    BY <2>1, <2>2 DEF Start0, TypeOK, Live
  <2>4. Live' = Live
    BY <2>3 DEF Live
  <2>5. \A t \in Live : collections[tables[t]].there
    BY <1>0, NobodyElse, EmptyKnows DEF Start0, Empty
  <2>6. \A n \in Names : collections[n].there => \E t \in Live : tables[t] = n
    BY <1>0, NobodyElse DEF Start0
  <2>7. Knows(c)'
    BY <1>0, <2>1, <2>3, <2>4, <2>5 DEF Knows, Building, Creating, Updating, Went, Same
  <2>8. Standing' /\ Claimed' /\ Distinct' /\ Homed'
    BY <1>0, <2>3, <2>4, <2>5, <2>6 DEF Standing, Claimed, Distinct, Homed, Start0, Base
  <2>. QED BY <2>7, <2>8, AllKnow DEF Start0, Base
<1>. QED BY <1>1, <1>2, LookUpdateTyped DEF Start0

LEMMA DeleteRoutesBase == ASSUME NEW c \in Calls, Start0(c), DeleteRoutes(c) PROVE Base'
<1>0. call[c].pc = "look" /\ UNCHANGED <<tables, columns, collections>>
  BY DEF DeleteRoutes
<1>1. CASE Left(c) /\ routes' = routes
  BY <1>0, <1>1, RefusedBase
<1>2. CASE ~Over(c)
  <2>1. /\ call[c].table \in Live
        /\ routes' = routes \ Of(call[c].table, routes)
        /\ Went(c, "rows")
        /\ call'[c].table = call[c].table /\ call'[c].old = tables[call[c].table]
    BY <1>2, DeleteRoutesWent DEF Start0
  <2>2. Live' = Live
    BY <1>0 DEF Live
  <2>3. \A t \in Live : collections[tables[t]].there
    BY <1>0, NobodyElse, EmptyKnows DEF Start0, Empty
  <2>4. \A n \in Names : collections[n].there => \E t \in Live : tables[t] = n
    BY <1>0, NobodyElse DEF Start0
  <2>5. Of(call[c].table, routes') = {}
    BY <2>1 DEF Of
  <2>6. Knows(c)'
    BY <1>0, <2>1, <2>2, <2>5 DEF Knows, Building, Creating, Updating, Went
  <2>7. Standing' /\ Claimed' /\ Distinct' /\ Homed'
    BY <1>0, <2>1, <2>2, <2>3, <2>4 DEF Standing, Claimed, Distinct, Homed, Start0, Base
  <2>. QED BY <2>6, <2>7, AllKnow DEF Start0, Base
<1>. QED BY <1>1, <1>2, DeleteRoutesTyped DEF Start0

LEMMA DeleteRowsBase == ASSUME NEW c \in Calls, Start0(c), DeleteRows(c) PROVE Base'
<1>. DEFINE t == call[c].table
<1>0. /\ call[c].pc = "rows" /\ UNCHANGED <<routes, collections>>
      /\ columns' = columns \ Of(t, columns) /\ tables' = [tables EXCEPT ![t] = NoName]
  BY DEF DeleteRows
<1>1. Went(c, "dropping") /\ KeepsTable(c) /\ t \in Ids /\ call[c].op = "delete"
  BY DeleteRowsTyped DEF Start0
<1>2. t \in Live /\ tables[t] = call[c].old /\ Of(t, routes) = {}
  BY <1>0 DEF Start0, Base, Knows
<1>. HIDE DEF t
<1>3. Live' = Live \ {t} /\ \A u \in Live \ {t} : tables'[u] = tables[u]
  BY <1>0, <1>1 DEF Live, Start0, TypeOK
<1>4. \A u \in Live : collections[tables[u]].there
  BY <1>0, NobodyElse DEF Start0, Building, Creating, Updating
<1>5. \A n \in Names : collections[n].there => \E u \in Live : tables[u] = n
  BY <1>0, NobodyElse DEF Start0
<1>6. Distinct' /\ Standing'
  BY <1>0, <1>3, <1>4 DEF Distinct, Standing, Start0, Base
<1>7. call'[c].pc = "dropping" /\ call'[c].old = tables[t]
  BY <1>1, <1>2 DEF Went, KeepsTable
<1>8. Claimed'
  BY <1>0, <1>3, <1>5, <1>7 DEF Claimed
<1>9. Homed'
  BY <1>0, <1>2, <1>3 DEF Homed, Start0, Base, Of
<1>10. \A u \in Live' : tables'[u] /= call'[c].old
  BY <1>2, <1>3, <1>7 DEF Start0, Base, Distinct
<1>11. Knows(c)'
  BY <1>7, <1>10 DEF Knows, Building, Creating, Updating
<1>. QED BY <1>6, <1>8, <1>9, <1>11, AllKnow DEF Start0, Base

LEMMA DropCollectionBase == ASSUME NEW c \in Calls, Start0(c), DropCollection(c) PROVE Base'
<1>. DEFINE n == call[c].old
<1>1. Left(c) /\ n \in Names
  BY DropCollectionTyped DEF Start0
<1>2. /\ call[c].pc = "dropping" /\ UNCHANGED <<tables, columns, routes>>
      /\ collections' = [collections EXCEPT ![n] = NoCollection]
  BY DEF DropCollection, rows
<1>3. \A t \in Live : tables[t] /= n
  BY <1>2 DEF Start0, Base, Knows
<1>. HIDE DEF n
<1>4. ~collections'[n].there /\ \A m \in Names \ {n} : collections'[m] = collections[m]
  BY <1>1, <1>2 DEF NoCollection, Start0, TypeOK
<1>5. Live' = Live /\ \A t \in Live : tables[t] \in Names
  BY <1>2 DEF Live, Start0, TypeOK
<1>6. \A t \in Live : collections[tables[t]].there
  BY <1>2, NobodyElse DEF Start0, Building, Creating, Updating
<1>7. \A m \in Names : collections[m].there => (\E t \in Live : tables[t] = m) \/ m = n
  BY NobodyElse DEF Start0, n
<1>8. Standing' /\ Claimed'
  BY <1>2, <1>3, <1>4, <1>5, <1>6, <1>7 DEF Standing, Claimed
<1>9. Distinct' /\ Homed'
  BY <1>2, <1>5 DEF Start0, Base, Distinct, Homed
<1>10. Knows(c)'
  BY <1>1 DEF Left, Knows, Building, Creating, Updating
<1>. QED BY <1>8, <1>9, <1>10, AllKnow DEF Start0, Base

-----------------------------------------------------------------------------
(* The invariant of rows and collections *)

\* What is excused stays excused.
LEMMA ExcusesGrow == ASSUME [Next]_vars PROVE history \subseteq history'
<1>1. ASSUME NEW c \in Calls, Change(c) PROVE history \subseteq history'
  BY <1>1 DEF Change, LookCreate, InsertTable, WriteColumn, WriteRelation, InsertRoute, CreateCollection,
         LookUpdate, DropColumn, RefuseDrop, Rename, DropFields, UpdateCollection, DeleteRoutes, DeleteRows,
         DropCollection, Meeting, counted
<1>2. ASSUME NEW c \in Calls, Ask(c) \/ Acquire(c) \/ Release(c) \/ Refresh(c) PROVE history \subseteq history'
  BY <1>2 DEF Ask, Acquire, Release, Refresh, counted
<1>3. ASSUME NEW c \in Calls, Fail(c) \/ FailIndexes(c) \/ Die(c) PROVE history \subseteq history'
  BY <1>3, TroubleAdds DEF Fail, FailIndexes, Die
<1>4. ASSUME NEW r \in renames, RenameField(r) \/ RefuseRename(r) \/ LoseRename(r) PROVE history \subseteq history'
  BY <1>4, TroubleAdds DEF RenameField, RefuseRename, LoseRename, counted
<1>5. ASSUME Lapse \/ (\E t \in Ids : Fill(t)) PROVE history \subseteq history'
  BY <1>5, TroubleAdds DEF Lapse, Fill
<1>6. CASE UNCHANGED vars
  BY <1>6 DEF vars, counted
<1>. QED BY <1>1, <1>2, <1>3, <1>4, <1>5, <1>6 DEF Next, Step

\* Each change is a step of a handler that has the lock.
LEMMA ChangeWorks == ASSUME TypeOK, NEW c \in Calls, Change(c)
                     PROVE Working(c) /\ \A d \in Calls \ {c} : call'[d] = call[d]
<1>1. Working(c)
  BY DEF Change, LookCreate, InsertTable, WriteColumn, WriteRelation, InsertRoute, CreateCollection,
         LookUpdate, DropColumn, RefuseDrop, Rename, DropFields, UpdateCollection, DeleteRoutes, DeleteRows,
         DropCollection, Working
<1>2. Left(c) \/ \E l : Went(c, l)
  BY LookCreateTyped, InsertTableWent, WriteColumnTyped, WriteRelationTyped, InsertRouteTyped,
     CreateCollectionTyped, LookUpdateTyped, LookUpdateWent, DropColumnTyped, RefuseDropTyped, RenameWent, DropFieldsTyped,
     UpdateCollectionTyped, DeleteRoutesTyped, DeleteRoutesWent, DeleteRowsTyped, DropCollectionTyped DEF Change
<1>. QED BY <1>1, <1>2 DEF Left, Went

LEMMA ChangeBase ==
  ASSUME TypeOK, TypeOK', IInv, OwnRows, BaseInv, Spared(Faults), Spared(Faults)', NEW c \in Calls, Change(c)
  PROVE Start0(c) /\ Base'
<1>1. Start0(c)
  BY ChangeWorks, WorksAlone DEF Start0, BaseInv
<1>2. "renamed" \notin history'
  BY DEF Spared, Faults
<1>. QED BY <1>1, <1>2, LookCreateBase, InsertTableBase, BuildingBase, CreateCollectionBase, LookUpdateBase, RefuseDropBase,
       UpdateCollectionBase, DeleteRoutesBase, DeleteRowsBase, DropCollectionBase DEF Change

\* The steps around the changes.
LEMMA AroundCalm ==
  ASSUME TypeOK, NEW c \in Calls, Ask(c) \/ Acquire(c) \/ Release(c)
  PROVE \A d \in Calls : call'[d] = call[d] \/ (call[d].pc \in Empty /\ call'[d].pc \in Empty)
<1>0. CallsOK
  BY DEF TypeOK
<1>1. CASE Ask(c)
  BY <1>1, AskTyped DEF Ask, Empty
<1>2. CASE Acquire(c)
  BY <1>0, <1>2, AcquireCalls DEF Acquire, Left, Went, Empty
<1>3. CASE Release(c)
  BY <1>0, <1>3, IdleLeft DEF Release, Left, Empty
<1>. QED BY <1>1, <1>2, <1>3

\* Documents, the lock and caches change; rows and handlers do not.
LEMMA OutsideCalm ==
  ASSUME TypeOK, UNCHANGED vars \/ (\E c \in Calls : Refresh(c)) \/ (\E r \in renames : RenameField(r) \/ RefuseRename(r))
                   \/ (\E t \in Ids : Fill(t))
  PROVE /\ UNCHANGED <<tables, uniques, columns, relations, routes, call>>
        /\ \A n \in Names : Alike(collections[n], collections'[n])
<1>1. CASE UNCHANGED vars
  BY <1>1, QuietAlike DEF vars, rows
<1>2. ASSUME NEW c \in Calls, Refresh(c) PROVE UNCHANGED <<tables, uniques, columns, relations, routes, call, collections>>
  BY <1>2 DEF Refresh, rows
<1>3. ASSUME NEW r \in renames, RenameField(r)
      PROVE /\ UNCHANGED <<tables, uniques, columns, relations, routes, call>>
            /\ \A n \in Names : Alike(collections[n], collections'[n])
  BY <1>3, RenameFieldTyped DEF RenameField, rows
<1>4. ASSUME NEW t \in Ids, Fill(t)
      PROVE /\ UNCHANGED <<tables, uniques, columns, relations, routes, call>>
            /\ \A n \in Names : Alike(collections[n], collections'[n])
  BY <1>4, FillTyped DEF Fill, rows
<1>5. ASSUME NEW r \in renames, RefuseRename(r)
      PROVE UNCHANGED <<tables, uniques, columns, relations, routes, call, collections>>
  BY <1>5 DEF RefuseRename, rows
<1>. QED BY <1>1, <1>2, <1>3, <1>4, <1>5, QuietAlike

\* Steps after which nothing is promised any more.
LEMMA FaultStep ==
  ASSUME Lapse \/ (\E c \in Calls : Fail(c) \/ FailIndexes(c) \/ Die(c)) \/ (\E r \in renames : LoseRename(r))
  PROVE ~Spared(Faults)'
  BY DEF Lapse, Fail, FailIndexes, Die, LoseRename, Trouble, Spared, Faults

LEMMA InitBase == Init => BaseInv
<1>. SUFFICES ASSUME Init PROVE BaseInv
  OBVIOUS
<1>1. Live = {}
  BY DEF Init, Live
<1>2. \A n \in Names : ~collections[n].there
  BY DEF Init, NoCollection
<1>3. \A c \in Calls : Knows(c)
  BY EmptyKnows DEF Init, Idle, Empty
<1>4. columns = {} /\ routes = {}
  BY DEF Init
<1>. QED BY <1>1, <1>2, <1>3, <1>4 DEF BaseInv, Base, Distinct, Standing, Claimed, Homed

LEMMA NextBase == TypeOK /\ TypeOK' /\ IInv /\ OwnRows /\ BaseInv /\ [Next]_vars => BaseInv'
<1>. SUFFICES ASSUME TypeOK, TypeOK', IInv, OwnRows, BaseInv, [Next]_vars, Spared(Faults)' PROVE Base'
  BY DEF BaseInv
<1>0. Spared(Faults) /\ Base
  BY ExcusesGrow DEF Spared, BaseInv
<1>1. ASSUME NEW c \in Calls, Change(c) PROVE Base'
  BY <1>0, <1>1, ChangeBase
<1>2. ASSUME NEW c \in Calls, Ask(c) \/ Acquire(c) \/ Release(c) PROVE Base'
  <2>1. UNCHANGED <<tables, columns, routes, collections>>
    BY <1>2 DEF Ask, Acquire, Release, rows
  <2>. QED BY <1>0, <1>2, <2>1, AroundCalm, CalmStep, QuietAlike
<1>3. CASE UNCHANGED vars \/ (\E c \in Calls : Refresh(c)) \/ (\E r \in renames : RenameField(r) \/ RefuseRename(r))
             \/ (\E t \in Ids : Fill(t))
  BY <1>0, <1>3, OutsideCalm, CalmStep
<1>4. CASE Lapse \/ (\E c \in Calls : Fail(c) \/ FailIndexes(c) \/ Die(c)) \/ (\E r \in renames : LoseRename(r))
  BY <1>4, FaultStep
<1>. QED BY <1>1, <1>2, <1>3, <1>4 DEF Next, Step

-----------------------------------------------------------------------------
(* Validators and indexes *)

Fits(t) ==
  /\ collections[tables[t]].validator = NamesOf(Of(t, columns))
  /\ collections[tables[t]].indexed = Indexes(t)
Fitting == \A t \in Live : Fits(t) \/ \E c \in Calls : Building(c) /\ call[c].table = t
FitInv == Spared(Excuses) => Fitting

\* A step touches one table only, and that one is being built, or fits, or is gone.
LEMMA FitStep ==
  ASSUME NEW c \in Calls, Start0(c), Fitting, NEW t,
         Building(c) => call[c].table = t,
         OthersKeep(columns, columns', t), OthersKeep(relations, relations', t),
         \A u \in Live' \ {t} : /\ u \in Live /\ tables'[u] = tables[u] /\ (u \in uniques' <=> u \in uniques)
                                /\ Alike(collections[tables[u]], collections'[tables[u]]),
         t \in Live' => Fits(t)' \/ (Building(c)' /\ call'[c].table = t)
  PROVE Fitting'
<1>1. ASSUME NEW u \in Live', u /= t PROVE Fits(u)'
  <2>1. u \in Live /\ tables'[u] = tables[u] /\ Alike(collections[tables[u]], collections'[tables[u]])
    BY <1>1
  <2>2. Fits(u)
    <3>1. \A d \in Calls : Building(d) => d = c
      BY DEF Start0, Alone, Building, Empty, Creating, Updating
    <3>. QED BY <1>1, <2>1, <3>1 DEF Fitting
  <2>3. Of(u, columns') = Of(u, columns) /\ Of(u, relations') = Of(u, relations)
    BY <1>1, OthersSame
  <2>4. Indexes(u)' = Indexes(u)
    <3>1. u \in uniques' <=> u \in uniques
      BY <1>1
    <3>2. NamesOf(Of(u, relations')) = NamesOf(Of(u, relations))
      BY <2>3
    <3>. QED BY <3>1, <3>2 DEF Indexes
  <2>. QED BY <2>1, <2>2, <2>3, <2>4 DEF Fits, Alike
<1>. QED BY <1>1 DEF Fitting

LEMMA SameRows == ASSUME NEW set, NEW t PROVE OthersKeep(set, set, t)
  BY DEF OthersKeep

\* A handler that is at no table leaves what fits.
LEMMA FitCalm ==
  ASSUME TypeOK, Fitting, UNCHANGED <<tables, uniques, columns, relations>>,
         \A n \in Names : Alike(collections[n], collections'[n]),
         \A d \in Calls : call'[d] = call[d] \/ ~Building(d)
  PROVE Fitting'
<1>1. Live' = Live /\ \A t \in Live : tables[t] \in Names
  BY DEF Live, TypeOK
<1>2. ASSUME NEW t \in Live PROVE Fits(t)' \/ \E c \in Calls : Building(c)' /\ call'[c].table = t
  <2>1. CASE Fits(t)
    BY <1>1, <2>1 DEF Fits, Alike, Indexes
  <2>2. CASE \E c \in Calls : Building(c) /\ call[c].table = t
    <3>1. PICK c \in Calls : Building(c) /\ call[c].table = t
      BY <2>2
    <3>2. Building(c)' /\ call'[c].table = t
      BY <3>1 DEF Building
    <3>. QED BY <3>2
  <2>. QED BY <2>1, <2>2 DEF Fitting
<1>. QED BY <1>1, <1>2 DEF Fitting

LEMMA LookCreateFit == ASSUME NEW c \in Calls, Start0(c), Fitting, LookCreate(c) PROVE Fitting'
<1>0. call[c].pc = "look" /\ UNCHANGED <<tables, uniques, columns, relations>>
  BY DEF LookCreate, rows
<1>1. ~Building(c)
  BY <1>0 DEF Building, Creating, Updating
<1>2. Live' = Live /\ \A u \in Live : tables[u] \in Names
  BY <1>0 DEF Live, Start0, TypeOK
<1>3. \A d \in Calls : call'[d] = call[d] \/ ~Building(d)
  BY <1>1 DEF Start0, Alone
<1>4. CASE collections' = collections
  BY <1>0, <1>3, <1>4, FitCalm, QuietAlike DEF Start0
<1>5. CASE /\ \A t \in Live : tables[t] /= call[c].name
           /\ call[c].name \in Names
           /\ collections' = [collections EXCEPT ![call[c].name] = NoCollection]
  <2>1. \A u \in Live : collections'[tables[u]] = collections[tables[u]]
    BY <1>2, <1>5 DEF Start0, TypeOK
  <2>2. ASSUME NEW u \in Live PROVE Fits(u)'
    <3>1. \A d \in Calls : ~Building(d)
      BY <1>1 DEF Start0, Alone, Building, Empty, Creating, Updating
    <3>2. Fits(u)
      BY <3>1 DEF Fitting
    <3>. QED BY <1>0, <2>1, <3>2 DEF Fits, Indexes
  <2>. QED BY <1>2, <2>2 DEF Fitting
<1>. QED BY <1>4, <1>5, LookCreateTyped DEF Start0

LEMMA InsertTableFit == ASSUME NEW c \in Calls, Start0(c), Fitting, InsertTable(c) PROVE Fitting'
<1>0. /\ call[c].pc = "insert" /\ UNCHANGED <<columns, relations, collections>>
      /\ ~Building(c)
  BY DEF InsertTable, Building, Creating, Updating
<1>1. PICK t \in Unused :
          /\ tables' = [tables EXCEPT ![t] = call[c].name] /\ Constrain(t)
          /\ CallsOK' /\ Went(c, "columns")
          /\ call'[c].table = t /\ call'[c].old = call[c].old /\ call'[c].todo = call[c].cols
  BY InsertTableWent DEF Start0
<1>2. t \in Ids
  BY DEF Unused
<1>3. \A u \in Live' \ {t} : u \in Live /\ tables'[u] = tables[u] /\ (u \in uniques' <=> u \in uniques)
  BY <1>1, <1>2 DEF Live, Start0, TypeOK, Constrain
<1>4. Building(c)' /\ call'[c].table = t
  BY <1>1 DEF Went, Building, Creating, Updating
<1>. QED BY <1>0, <1>3, <1>4, FitStep, SameRows DEF Alike

\* The steps of a handler that goes on building, at any table.
LEMMA BuildingFit ==
  ASSUME NEW c \in Calls, Start0(c), Fitting,
         WriteColumn(c) \/ WriteRelation(c) \/ InsertRoute(c) \/ DropColumn(c) \/ Rename(c) \/ DropFields(c)
  PROVE Fitting'
<1>. DEFINE t == call[c].table
<1>0. tables' = tables /\ uniques' = uniques
  BY DEF WriteColumn, WriteRelation, InsertRoute, DropColumn, Rename, DropFields, rows
<1>1. Live' = Live /\ \A u \in Live : tables[u] \in Names
  BY <1>0 DEF Live, Start0, TypeOK
<1>2. Building(c)' /\ call'[c].table = t
  <2>1. KeepsTable(c) /\ \E l \in {"columns", "relations", "fields", "route", "schema", "collection", "drop"} : Went(c, l)
    BY WriteColumnTyped, WriteRelationTyped, InsertRouteTyped, DropColumnTyped, RenameWent, DropFieldsTyped
       DEF Start0
  <2>. QED BY <2>1 DEF KeepsTable, Went, Building, Creating, Updating
<1>3. OthersKeep(columns, columns', t)
  <2>1. CASE WriteColumn(c) \/ DropColumn(c)
    BY <2>1, ColumnsWritten, ColumnDropped DEF Start0
  <2>2. CASE WriteRelation(c) \/ InsertRoute(c) \/ Rename(c) \/ DropFields(c)
    BY <2>2, SameRows DEF WriteRelation, InsertRoute, Rename, DropFields, rows
  <2>. QED BY <2>1, <2>2
<1>4. OthersKeep(relations, relations', t)
  <2>1. CASE WriteRelation(c) \/ DropFields(c)
    BY <2>1, RelationsWritten, FieldsDropped DEF Start0
  <2>2. CASE WriteColumn(c) \/ InsertRoute(c) \/ Rename(c) \/ DropColumn(c)
    BY <2>2, SameRows DEF WriteColumn, InsertRoute, Rename, DropColumn, rows
  <2>. QED BY <2>1, <2>2
<1>5. \A n \in Names : Alike(collections[n], collections'[n])
  <2>1. CASE DropColumn(c) \/ DropFields(c)
    BY <2>1, DropColumnTyped, DropFieldsTyped DEF Start0
  <2>2. CASE WriteColumn(c) \/ WriteRelation(c) \/ InsertRoute(c) \/ Rename(c)
    BY <2>2, QuietAlike DEF WriteColumn, WriteRelation, InsertRoute, Rename
  <2>. QED BY <2>1, <2>2
<1>. HIDE DEF t
<1>6. Building(c) => call[c].table = t
  BY DEF t
<1>. QED BY <1>0, <1>1, <1>2, <1>3, <1>4, <1>5, <1>6, FitStep

\* The last step gives the table what its rows say.
LEMMA DescribedFit ==
  ASSUME NEW c \in Calls, Start0(c), Fitting, NEW n \in Names, DescribedAt(n, call[c].table),
         call[c].table \in Live, tables[call[c].table] = n, UNCHANGED <<tables, uniques, columns, relations>>
  PROVE Fitting'
<1>. PICK t \in Live : t = call[c].table
  OBVIOUS
<1>. DEFINE x == Described(collections[n], t)
<1>1. Live' = Live /\ \A u \in Live : tables[u] \in Names
  BY DEF Live, Start0, TypeOK
<1>2. collections[n] \in Collections
  BY DEF Start0, TypeOK
<1>3. x \in Collections /\ x.validator = NamesOf(Of(t, columns)) /\ x.indexed = Indexes(t)
  BY <1>2, DescribedTyped DEF Start0
<1>4. collections' = [collections EXCEPT ![n] = x]
  BY DEF DescribedAt
<1>. HIDE DEF x
<1>5. collections'[n] = x /\ \A m \in Names \ {n} : collections'[m] = collections[m]
  BY <1>3, <1>4, Replaced DEF Start0
<1>6. Fits(t)'
  BY <1>3, <1>5 DEF Fits, Indexes
<1>7. \A u \in Live \ {t} : collections'[tables[u]] = collections[tables[u]]
  BY <1>1, <1>5 DEF Start0, Base, Distinct
<1>8. \A u \in Live \ {t} : Alike(collections[tables[u]], collections'[tables[u]])
  BY <1>7 DEF Alike
<1>9. OthersKeep(columns, columns', t) /\ OthersKeep(relations, relations', t)
  BY SameRows
<1>. QED BY <1>1, <1>6, <1>8, <1>9, FitStep

LEMMA CreateCollectionFit == ASSUME NEW c \in Calls, Start0(c), Fitting, CreateCollection(c) PROVE Fitting'
<1>1. /\ Left(c) /\ call[c].op = "create" /\ call[c].name \in Names
      /\ collections[call[c].name].there \/ DescribedAt(call[c].name, call[c].table)
  BY CreateCollectionTyped DEF Start0
<1>2. call[c].pc = "collection" /\ Building(c) /\ UNCHANGED <<tables, uniques, columns, relations>>
  BY DEF CreateCollection, rows, Building, Creating, Updating
<1>3. call[c].table \in Live /\ tables[call[c].table] = call[c].name /\ ~collections[call[c].name].there
  BY <1>1, <1>2 DEF Start0, Base, Knows
<1>. QED BY <1>1, <1>2, <1>3, DescribedFit

LEMMA UpdateCollectionFit ==
  ASSUME NEW c \in Calls, Start0(c), Fitting, UpdateCollection(c), "unknown" \notin history' PROVE Fitting'
<1>1. /\ Left(c) /\ call[c].op = "update" /\ call[c].old \in Names
      /\ ~collections[call[c].old].there \/ DescribedAt(call[c].old, call[c].table)
  BY UpdateCollectionTyped DEF Start0
<1>2. call[c].pc = "schema" /\ Building(c) /\ UNCHANGED <<tables, uniques, columns, relations>>
  BY DEF UpdateCollection, rows, Building, Creating, Updating
<1>3. call[c].table \in Live /\ tables[call[c].table] = call[c].old /\ collections[call[c].old].there
  BY <1>1, <1>2 DEF Start0, Base, Knows
<1>. QED BY <1>1, <1>2, <1>3, DescribedFit

LEMMA LookUpdateFit ==
  ASSUME NEW c \in Calls, Start0(c), Fitting, LookUpdate(c), "renamed" \notin history' PROVE Fitting'
<1>0. call[c].pc = "look" /\ UNCHANGED <<columns, relations, collections>> /\ ~Building(c)
  BY DEF LookUpdate, Building, Creating, Updating
<1>1. \A d \in Calls : call'[d] = call[d] \/ ~Building(d)
  BY <1>0 DEF Start0, Alone
<1>2. CASE Left(c) /\ tables' = tables /\ uniques' = uniques
  BY <1>0, <1>1, <1>2, FitCalm, QuietAlike DEF Start0
<1>3. CASE ~Over(c)
  <2>. DEFINE t == call[c].table
  <2>1. /\ t \in Live
        /\ tables' = [tables EXCEPT ![t] = call[c].name]
        /\ Constrain(t) \/ uniques' = uniques
        /\ history' = IF tables[t] = call[c].name THEN history ELSE history \cup {"renamed"}
        /\ Went(c, "drop") \/ Went(c, "fields")
        /\ call'[c].table = t
    BY <1>3, LookUpdateWent DEF Start0
  <2>. HIDE DEF t
  <2>2. tables' = tables
    BY <2>1 DEF Start0, TypeOK, Live
  <2>3. Live' = Live
    BY <2>2 DEF Live
  <2>4. Building(c)' /\ call'[c].table = t
    BY <2>1 DEF Went, Building, Creating, Updating
  <2>5. \A u \in Live' \ {t} : u \in Live /\ tables'[u] = tables[u] /\ (u \in uniques' <=> u \in uniques)
    BY <2>1, <2>2, <2>3 DEF Constrain
  <2>. QED BY <1>0, <2>4, <2>5, FitStep, SameRows DEF Alike
<1>. QED BY <1>2, <1>3, LookUpdateTyped DEF Start0

LEMMA DeleteRoutesFit == ASSUME NEW c \in Calls, Start0(c), Fitting, DeleteRoutes(c) PROVE Fitting'
<1>0. UNCHANGED <<tables, uniques, columns, relations, collections>> /\ ~Building(c)
  BY DEF DeleteRoutes, Building, Creating, Updating
<1>1. \A d \in Calls : call'[d] = call[d] \/ ~Building(d)
  BY <1>0 DEF Start0, Alone
<1>. QED BY <1>0, <1>1, FitCalm, QuietAlike DEF Start0

LEMMA DeleteRowsFit == ASSUME NEW c \in Calls, Start0(c), Fitting, DeleteRows(c) PROVE Fitting'
<1>. DEFINE t == call[c].table
<1>0. /\ call[c].pc = "rows" /\ UNCHANGED <<uniques, relations, collections>> /\ ~Building(c)
      /\ columns' = columns \ Of(t, columns) /\ tables' = [tables EXCEPT ![t] = NoName]
  BY DEF DeleteRows, Building, Creating, Updating
<1>1. t \in Ids
  BY DeleteRowsTyped DEF Start0
<1>2. OthersKeep(columns, columns', t)
  BY <1>0 DEF OthersKeep, Of
<1>. HIDE DEF t
<1>3. t \notin Live' /\ \A u \in Live' : u \in Live /\ tables'[u] = tables[u]
  BY <1>0, <1>1 DEF Live, Start0, TypeOK
<1>. QED BY <1>0, <1>2, <1>3, FitStep, SameRows DEF Alike

LEMMA DropCollectionFit == ASSUME NEW c \in Calls, Start0(c), Fitting, DropCollection(c) PROVE Fitting'
<1>. DEFINE n == call[c].old
<1>1. n \in Names
  BY DropCollectionTyped DEF Start0
<1>2. /\ call[c].pc = "dropping" /\ UNCHANGED <<tables, uniques, columns, relations>>
      /\ collections' = [collections EXCEPT ![n] = NoCollection]
  BY DEF DropCollection, rows
<1>3. \A u \in Live : tables[u] /= n
  BY <1>2 DEF Start0, Base, Knows
<1>. HIDE DEF n
<1>4. Live' = Live /\ \A u \in Live : tables[u] \in Names
  BY <1>2 DEF Live, Start0, TypeOK
<1>5. \A u \in Live : collections'[tables[u]] = collections[tables[u]]
  BY <1>1, <1>2, <1>3, <1>4 DEF Start0, TypeOK
<1>6. \A d \in Calls : ~Building(d)
  BY <1>2 DEF Start0, Alone, Building, Empty, Creating, Updating
<1>7. ASSUME NEW u \in Live PROVE Fits(u)'
  BY <1>2, <1>5, <1>6 DEF Fits, Fitting, Indexes
<1>. QED BY <1>4, <1>7 DEF Fitting

LEMMA NextFit == TypeOK /\ TypeOK' /\ IInv /\ OwnRows /\ BaseInv /\ FitInv /\ [Next]_vars => FitInv'
<1>. SUFFICES ASSUME TypeOK, TypeOK', IInv, OwnRows, BaseInv, FitInv, [Next]_vars, Spared(Excuses)'
              PROVE Fitting'
  BY DEF FitInv
<1>0. Spared(Faults)' /\ Spared(Faults) /\ Base /\ Fitting /\ "unknown" \notin history' /\ "renamed" \notin history'
      /\ "refused" \notin history'
  BY ExcusesGrow DEF Spared, BaseInv, FitInv, Faults, Excuses
<1>1. ASSUME NEW c \in Calls, Change(c) PROVE Fitting'
  <2>1. Start0(c)
    BY <1>0, <1>1, ChangeBase
  <2>2. ~RefuseDrop(c)
    BY <1>0 DEF RefuseDrop
  <2>. QED BY <1>0, <1>1, <2>1, <2>2, LookCreateFit, InsertTableFit, BuildingFit, CreateCollectionFit, LookUpdateFit,
         UpdateCollectionFit, DeleteRoutesFit, DeleteRowsFit, DropCollectionFit DEF Change
<1>2. ASSUME NEW c \in Calls, Ask(c) \/ Acquire(c) \/ Release(c) PROVE Fitting'
  <2>1. UNCHANGED <<tables, uniques, columns, relations, collections>>
    BY <1>2 DEF Ask, Acquire, Release, rows
  <2>2. \A d \in Calls : call'[d] = call[d] \/ ~Building(d)
    BY <1>2, AroundCalm, EmptyKnows
  <2>. QED BY <1>0, <2>1, <2>2, FitCalm, QuietAlike
<1>3. CASE UNCHANGED vars \/ (\E c \in Calls : Refresh(c)) \/ (\E r \in renames : RenameField(r) \/ RefuseRename(r))
             \/ (\E t \in Ids : Fill(t))
  BY <1>0, <1>3, OutsideCalm, FitCalm
<1>4. CASE Lapse \/ (\E c \in Calls : Fail(c) \/ FailIndexes(c) \/ Die(c)) \/ (\E r \in renames : LoseRename(r))
  BY <1>0, <1>4, FaultStep
<1>. QED BY <1>1, <1>2, <1>3, <1>4 DEF Next, Step

LEMMA InitFit == Init => FitInv
  BY DEF Init, FitInv, Fitting, Live

\* Whoever works knows what it found, so rows and collections meet again.
LEMMA AgreementHolds == TypeOK /\ BaseInv /\ FitInv => Agreement
<1>. SUFFICES ASSUME TypeOK, BaseInv, FitInv, Quiet, Spared(Excuses)
              PROVE /\ \A t \in Live : collections[tables[t]] =
                         [Described(collections[tables[t]], t) EXCEPT !.there = TRUE]
                    /\ \A n \in Names : collections[n].there => \E t \in Live : tables[t] = n
                    /\ \A x \in columns \cup routes : x.table \in Live
  BY DEF Agreement, Excuses
<1>1. Base /\ Fitting
  BY DEF BaseInv, FitInv, Spared, Faults, Excuses
<1>2. \A c \in Calls : call[c].pc \in Empty /\ call[c].pc /= "dropping"
  BY DEF Quiet, Working, Empty
<1>3. \A c \in Calls : ~Building(c)
  BY <1>2, EmptyKnows
<1>4. ASSUME NEW t \in Live
      PROVE collections[tables[t]] = [Described(collections[tables[t]], t) EXCEPT !.there = TRUE]
  <2>. DEFINE x == collections[tables[t]]
              v == NamesOf(Of(t, columns))
              i == Indexes(t)
  <2>1. x \in Collections
    BY DEF TypeOK, Live
  <2>2. x.there /\ x.validator = v /\ x.indexed = i
    BY <1>1, <1>3 DEF Base, Standing, Fitting, Fits
  <2>3. Described(x, t) = [x EXCEPT !.there = TRUE, !.validator = v, !.indexed = i]
    BY DEF Described
  <2>. HIDE DEF x, v, i
  <2>4. x = [[x EXCEPT !.there = TRUE, !.validator = v, !.indexed = i] EXCEPT !.there = TRUE]
    <3>1. x.there = TRUE
      BY <2>1, <2>2 DEF Collections
    <3>. QED BY <2>1, <2>2, <3>1 DEF Collections
  <2>. QED BY <2>3, <2>4 DEF x
<1>. QED BY <1>1, <1>2, <1>3, <1>4 DEF Base, Claimed, Homed

\* Once nothing works on it the schema agrees, whatever changes came in and in
\* whatever order: createTable(), updateTable() and delete() find the rows and
\* the collection as they left them, since the lock lets nobody in between.
THEOREM SchemaAgrees == Spec => []Agreement
<1>. DEFINE J == TypeOK /\ IInv /\ OwnRows /\ BaseInv /\ FitInv
<1>1. Init => J
  BY InitTyped, InitHolds, InitOwn, InitBase, InitFit
<1>2. J /\ [Next]_vars => J'
  BY NextTyped, NextHolds, NextOwn, NextBase, NextFit
<1>3. J => Agreement
  BY AgreementHolds
<1>. QED BY <1>1, <1>2, <1>3, PTL DEF Spec

-----------------------------------------------------------------------------
(* Where the values of columns are *)

\* The name a row will have once the list of its table is written.
Aim(x, pend) == IF \E y \in pend : y.id = x.id THEN (CHOOSE y \in pend : y.id = x.id).name ELSE x.name
\* The field that values of a name still have.
Spot(a, rens, n) ==
  IF \E r \in rens : r.collection = n /\ r.to = a
  THEN (CHOOSE r \in rens : r.collection = n /\ r.to = a).from ELSE a
At(x, pend, rens, n) == Spot(Aim(x, pend), rens, n)

\* No name is aimed at twice.
Unmixed(R, pend) ==
  /\ \A x, y \in R : Aim(x, pend) = Aim(y, pend) => x = y
  /\ \A x \in R, y \in pend : Aim(x, pend) = y.name => y.id = x.id
\* Values are where the rows have them, and nowhere else.
Placed(R, pend, rens, n, vals, fil) ==
  /\ \A v \in vals : v.field \in ColumnNames =>
       \E x \in R : v.of = x.id /\ v.field = At(x, pend, rens, n) /\ x.id \in fil
  /\ \A x \in R : x.id \in fil => [field |-> At(x, pend, rens, n), of |-> x.id] \in vals
\* No new values get under a name that is still to be renamed.
Clear(R, pend, rens, n, vals) ==
  \A r \in rens : r.collection = n /\ vals /= {} =>
    /\ \A x \in R : Aim(x, pend) /= r.from
    /\ \A y \in pend : y.name /= r.from
\* No field is renamed twice, and none on the way to another.
Untangled(rens) == \A r, s \in rens : (r.to = s.to \/ r.from = s.from => r = s) /\ r.from /= s.to

\* The rows of a table and what is left to write of them.
Kinds(R, pend) ==
  /\ R \in SUBSET ColumnRows /\ pend \in SUBSET ColumnFields
  /\ Unique(pend)
  /\ \A x, y \in R : x.id = y.id => x = y

LEMMA AimIs ==
  ASSUME NEW pend \in SUBSET ColumnFields, Unique(pend), NEW x \in ColumnRows
  PROVE /\ \A y \in pend : y.id = x.id => Aim(x, pend) = y.name
        /\ (\A y \in pend : y.id /= x.id) => Aim(x, pend) = x.name
        /\ Aim(x, pend) \in ColumnNames
<1>0. x.id /= 0 /\ x.name \in ColumnNames
  BY DEF ColumnRows
<1>1. CASE \E y \in pend : y.id = x.id
  <2>. DEFINE z == CHOOSE y \in pend : y.id = x.id
  <2>1. z \in pend /\ z.id = x.id
    BY <1>1
  <2>2. Aim(x, pend) = z.name
    BY <1>1 DEF Aim
  <2>. HIDE DEF z
  <2>3. ASSUME NEW y \in pend, y.id = x.id PROVE y = z
    BY <1>0, <2>1, <2>3 DEF Unique
  <2>. QED BY <1>1, <2>1, <2>2, <2>3 DEF ColumnFields
<1>2. CASE \A y \in pend : y.id /= x.id
  BY <1>0, <1>2 DEF Aim
<1>. QED BY <1>1, <1>2

LEMMA SpotIs ==
  ASSUME NEW rens \in SUBSET Renames, Untangled(rens), NEW n, NEW a
  PROVE /\ \A r \in rens : r.collection = n /\ r.to = a => Spot(a, rens, n) = r.from
        /\ (\A r \in rens : ~(r.collection = n /\ r.to = a)) => Spot(a, rens, n) = a
        /\ a \in ColumnNames => Spot(a, rens, n) \in ColumnNames
<1>1. CASE \E r \in rens : r.collection = n /\ r.to = a
  <2>. DEFINE s == CHOOSE r \in rens : r.collection = n /\ r.to = a
  <2>1. s \in rens /\ s.collection = n /\ s.to = a
    BY <1>1
  <2>2. Spot(a, rens, n) = s.from
    BY <1>1 DEF Spot
  <2>. HIDE DEF s
  <2>3. ASSUME NEW r \in rens, r.collection = n, r.to = a PROVE r = s
    BY <2>1, <2>3 DEF Untangled
  <2>. QED BY <1>1, <2>1, <2>2, <2>3 DEF Renames
<1>2. CASE \A r \in rens : ~(r.collection = n /\ r.to = a)
  BY <1>2 DEF Spot
<1>. QED BY <1>1, <1>2

\* Rows with the same aims have their values at the same places.
LEMMA Refit ==
  ASSUME NEW R, NEW R2, NEW pend, NEW pend2, NEW rens, NEW n, NEW vals, NEW fil,
         Placed(R, pend, rens, n, vals, fil),
         \A z \in R : \E w \in R2 : w.id = z.id /\ Aim(w, pend2) = Aim(z, pend),
         \A w \in R2 : w.id \in fil => \E z \in R : w.id = z.id /\ Aim(w, pend2) = Aim(z, pend)
  PROVE Placed(R2, pend2, rens, n, vals, fil)
<1>1. ASSUME NEW v \in vals, v.field \in ColumnNames
      PROVE \E x \in R2 : v.of = x.id /\ v.field = At(x, pend2, rens, n) /\ x.id \in fil
  <2>1. PICK z \in R : v.of = z.id /\ v.field = At(z, pend, rens, n) /\ z.id \in fil
    BY <1>1 DEF Placed
  <2>2. PICK w \in R2 : w.id = z.id /\ Aim(w, pend2) = Aim(z, pend)
    OBVIOUS
  <2>. QED BY <2>1, <2>2 DEF At
<1>2. ASSUME NEW w \in R2, w.id \in fil
      PROVE [field |-> At(w, pend2, rens, n), of |-> w.id] \in vals
  <2>1. PICK z \in R : w.id = z.id /\ Aim(w, pend2) = Aim(z, pend)
    BY <1>2
  <2>2. [field |-> At(z, pend, rens, n), of |-> z.id] \in vals
    BY <1>2, <2>1 DEF Placed
  <2>. QED BY <2>1, <2>2 DEF At
<1>. QED BY <1>1, <1>2 DEF Placed

\* A new row takes the name it was given and has no values.
LEMMA WriteNew ==
  ASSUME NEW R, NEW pend, Kinds(R, pend), NEW y \in pend, y.id = 0, NEW new \in ColumnRows, new.name = y.name,
         \A z \in R : z.id /= new.id, \A p \in pend : p.id /= new.id,
         Unmixed(R, pend), NEW rens, NEW n, NEW vals, NEW fil, new.id \notin fil,
         Placed(R, pend, rens, n, vals, fil), Clear(R, pend, rens, n, vals)
  PROVE /\ Unmixed(R \cup {new}, pend \ {y})
        /\ Placed(R \cup {new}, pend \ {y}, rens, n, vals, fil)
        /\ Clear(R \cup {new}, pend \ {y}, rens, n, vals)
<1>. DEFINE rest == pend \ {y}
<1>0. /\ pend \in SUBSET ColumnFields /\ Unique(pend) /\ R \in SUBSET ColumnRows
      /\ rest \in SUBSET ColumnFields /\ Unique(rest) /\ rest \subseteq pend /\ y \notin rest
  BY DEF Kinds, Unique
<1>. HIDE DEF rest
<1>1. Aim(new, rest) = y.name
  BY <1>0, AimIs
<1>2. ASSUME NEW z \in R PROVE Aim(z, rest) = Aim(z, pend)
  <2>0. z \in ColumnRows /\ z.id /= 0
    BY <1>0 DEF ColumnRows
  <2>1. CASE \E p \in rest : p.id = z.id
    BY <1>0, <2>0, <2>1, AimIs
  <2>2. CASE \A p \in rest : p.id /= z.id
    <3>1. \A p \in pend : p.id /= z.id
      BY <2>0, <2>2 DEF rest
    <3>. QED BY <1>0, <2>0, <2>2, <3>1, AimIs
  <2>. QED BY <2>1, <2>2
<1>3. \A z \in R : Aim(z, pend) /= y.name
  <2>1. \A z \in R : z.id /= 0
    BY <1>0 DEF ColumnRows
  <2>. QED BY <2>1 DEF Unmixed
<1>4. \A p \in rest : p.name /= y.name
  BY <1>0 DEF Unique
<1>5. Unmixed(R \cup {new}, rest)
  BY <1>0, <1>1, <1>2, <1>3, <1>4 DEF Unmixed
<1>6. Placed(R \cup {new}, rest, rens, n, vals, fil)
  BY <1>2, Refit
<1>7. Clear(R \cup {new}, rest, rens, n, vals)
  BY <1>0, <1>1, <1>2 DEF Clear
<1>. QED BY <1>5, <1>6, <1>7 DEF rest

\* A row that is there gets the name that was its aim.
Named(z, y) == IF z.id = y.id THEN [z EXCEPT !.name = y.name] ELSE z
LEMMA WriteOld ==
  ASSUME NEW R, NEW pend, Kinds(R, pend), NEW y \in pend, y.id /= 0, NEW R2,
         \A w \in R2 : \E z \in R : w = Named(z, y), \A z \in R : Named(z, y) \in R2,
         Unmixed(R, pend), NEW rens, NEW n, NEW vals, NEW fil,
         Placed(R, pend, rens, n, vals, fil), Clear(R, pend, rens, n, vals)
  PROVE /\ Unmixed(R2, pend \ {y})
        /\ Placed(R2, pend \ {y}, rens, n, vals, fil)
        /\ Clear(R2, pend \ {y}, rens, n, vals)
<1>. DEFINE rest == pend \ {y}
<1>0. /\ pend \in SUBSET ColumnFields /\ Unique(pend) /\ R \in SUBSET ColumnRows
      /\ rest \in SUBSET ColumnFields /\ Unique(rest) /\ rest \subseteq pend /\ y \notin rest
  BY DEF Kinds, Unique
<1>1. \A p \in rest : p.id /= y.id
  BY <1>0 DEF Unique
<1>2. \A p \in pend : p \in rest \/ p = y
  OBVIOUS
<1>. HIDE DEF rest
<1>3. ASSUME NEW z \in R PROVE Named(z, y).id = z.id /\ Aim(Named(z, y), rest) = Aim(z, pend)
  <2>0. z \in ColumnRows /\ y.name \in ColumnNames
    BY <1>0 DEF ColumnFields
  <2>1. CASE z.id = y.id
    <3>1. Named(z, y) \in ColumnRows /\ Named(z, y).id = z.id /\ Named(z, y).name = y.name
      BY <2>0, <2>1 DEF Named, ColumnRows
    <3>2. Aim(Named(z, y), rest) = y.name
      BY <1>0, <1>1, <2>1, <3>1, AimIs
    <3>3. Aim(z, pend) = y.name
      BY <1>0, <2>0, <2>1, AimIs
    <3>. QED BY <3>1, <3>2, <3>3
  <2>2. CASE z.id /= y.id
    <3>1. Named(z, y) = z
      BY <2>2 DEF Named
    <3>2. CASE \E p \in rest : p.id = z.id
      BY <1>0, <2>0, <3>1, <3>2, AimIs
    <3>3. CASE \A p \in rest : p.id /= z.id
      <4>1. \A p \in pend : p.id /= z.id
        BY <1>2, <2>2, <3>3
      <4>. QED BY <1>0, <2>0, <3>1, <3>3, <4>1, AimIs
    <3>. QED BY <3>2, <3>3
  <2>. QED BY <2>1, <2>2
<1>4. \A z \in R : Named(z, y).id = z.id /\ Aim(Named(z, y), rest) = Aim(z, pend)
  BY <1>3
<1>5. Unmixed(R2, rest)
  <2>1. ASSUME NEW v \in R2, NEW w \in R2, Aim(v, rest) = Aim(w, rest) PROVE v = w
    <3>1. PICK x \in R : v = Named(x, y)
      OBVIOUS
    <3>2. PICK z \in R : w = Named(z, y)
      OBVIOUS
    <3>3. Aim(x, pend) = Aim(z, pend)
      BY <1>4, <2>1, <3>1, <3>2
    <3>. QED BY <3>1, <3>2, <3>3 DEF Unmixed
  <2>2. ASSUME NEW v \in R2, NEW p \in rest, Aim(v, rest) = p.name PROVE p.id = v.id
    <3>1. PICK x \in R : v = Named(x, y)
      OBVIOUS
    <3>2. Aim(x, pend) = p.name /\ p \in pend
      BY <1>0, <1>4, <2>2, <3>1
    <3>. QED BY <1>4, <3>1, <3>2 DEF Unmixed
  <2>. QED BY <2>1, <2>2 DEF Unmixed
<1>6. Placed(R2, rest, rens, n, vals, fil)
  <2>1. \A z \in R : \E w \in R2 : w.id = z.id /\ Aim(w, rest) = Aim(z, pend)
    BY <1>4
  <2>2. \A w \in R2 : w.id \in fil => \E z \in R : w.id = z.id /\ Aim(w, rest) = Aim(z, pend)
    BY <1>4
  <2>. QED BY <2>1, <2>2, Refit
<1>7. Clear(R2, rest, rens, n, vals)
  <2>1. \A w \in R2 : \E z \in R : Aim(w, rest) = Aim(z, pend)
    BY <1>4
  <2>. QED BY <1>0, <2>1 DEF Clear
<1>. QED BY <1>5, <1>6, <1>7 DEF rest

\* A row that is dropped takes its values along, and no others.
LEMMA DropPlaced ==
  ASSUME NEW R, Kinds(R, {}), NEW x \in R, Unmixed(R, {}), NEW n, NEW vals \in SUBSET Values, NEW fil,
         Placed(R, {}, {}, n, vals, fil)
  PROVE LET R2 == {z \in R : z.id /= x.id}
        IN /\ Unmixed(R2, {})
           /\ Placed(R2, {}, {}, n, Unset(vals, x.name), fil \ {x.id})
<1>. DEFINE R2 == {z \in R : z.id /= x.id}
            v2 == Unset(vals, x.name)
<1>0. R \in SUBSET ColumnRows /\ Unique({}) /\ Untangled({})
  BY DEF Kinds, Unique, Untangled
<1>1. ASSUME NEW z \in R PROVE Aim(z, {}) = z.name /\ At(z, {}, {}, n) = z.name
  BY <1>0, AimIs, SpotIs DEF At
<1>2. \A z \in R : z.id /= x.id => z.name /= x.name
  BY <1>1 DEF Unmixed
<1>3. ASSUME NEW v \in v2, v.field \in ColumnNames
      PROVE \E z \in R2 : v.of = z.id /\ v.field = At(z, {}, {}, n) /\ z.id \in fil \ {x.id}
  <2>1. v \in vals /\ v.field /= x.name
    BY DEF Unset
  <2>2. PICK z \in R : v.of = z.id /\ v.field = At(z, {}, {}, n) /\ z.id \in fil
    BY <1>3, <2>1 DEF Placed
  <2>3. z.id /= x.id
    <3>1. z.id = x.id => z = x
      BY DEF Kinds
    <3>. QED BY <1>1, <2>1, <2>2, <3>1
  <2>. QED BY <2>2, <2>3
<1>4. ASSUME NEW z \in R2, z.id \in fil \ {x.id}
      PROVE [field |-> At(z, {}, {}, n), of |-> z.id] \in v2
  <2>1. [field |-> At(z, {}, {}, n), of |-> z.id] \in vals
    BY <1>4 DEF Placed
  <2>2. At(z, {}, {}, n) /= x.name
    BY <1>1, <1>2
  <2>. QED BY <2>1, <2>2 DEF Unset
<1>5. Unmixed(R2, {})
  BY DEF Unmixed
<1>. QED BY <1>3, <1>4, <1>5 DEF Placed

\* Renaming begins: each value is under the old name, which no row aims at.
LEMMA RenameStarts ==
  ASSUME NEW R, NEW cols, Kinds(R, cols), Unmixed(R, {}), NEW n \in Names, NEW new \in SUBSET Renames,
         \A x \in R : \E y \in cols : y.id = x.id,
         \A r \in new : \E x \in R, y \in cols :
           /\ x.id = y.id /\ x.name /= y.name
           /\ r.collection = n /\ r.from = x.name /\ r.to = y.name,
         \A x \in R, y \in cols : x.id = y.id /\ x.name /= y.name =>
           \E r \in new : r.collection = n /\ r.from = x.name /\ r.to = y.name,
         \A r \in new, y \in cols : y.name /= r.from,
         NEW vals, NEW fil, Placed(R, {}, {}, n, vals, fil)
  PROVE /\ Untangled(new) /\ Unmixed(R, cols)
        /\ Placed(R, cols, new, n, vals, fil)
        /\ Clear(R, cols, new, n, vals)
<1>0. /\ R \in SUBSET ColumnRows /\ cols \in SUBSET ColumnFields /\ Unique(cols)
      /\ Unique({}) /\ Untangled({}) /\ {} \in SUBSET ColumnFields /\ {} \in SUBSET Renames
  BY DEF Kinds, Unique, Untangled
<1>1. ASSUME NEW z \in R PROVE Aim(z, {}) = z.name /\ At(z, {}, {}, n) = z.name
  BY <1>0, AimIs, SpotIs DEF At
<1>2. \A x, z \in R : x.name = z.name => x = z
  BY <1>1 DEF Unmixed
<1>3. \A y, p \in cols : y.name = p.name => y = p
  BY <1>0 DEF Unique
<1>4. \A x, z \in R : x.id = z.id => x = z
  BY DEF Kinds
<1>5. Untangled(new)
  <2>1. ASSUME NEW r \in new, NEW s \in new PROVE (r.to = s.to \/ r.from = s.from => r = s) /\ r.from /= s.to
    <3>1. PICK x \in R, y \in cols :
            /\ x.id = y.id /\ x.name /= y.name
            /\ r.collection = n /\ r.from = x.name /\ r.to = y.name
      OBVIOUS
    <3>2. PICK z \in R, p \in cols :
            /\ z.id = p.id /\ z.name /= p.name
            /\ s.collection = n /\ s.from = z.name /\ s.to = p.name
      OBVIOUS
    <3>3. r.from /= s.to
      BY <3>2
    <3>4. x.id /= 0 /\ z.id /= 0
      BY <1>0 DEF ColumnRows
    <3>5. ASSUME r.to = s.to \/ r.from = s.from PROVE y = p /\ x = z
      <4>1. CASE r.to = s.to
        <5>1. y.name = p.name
          BY <3>1, <3>2, <4>1
        <5>2. y = p
          BY <1>3, <5>1
        <5>3. x.id = z.id
          BY <3>1, <3>2, <5>2
        <5>. QED BY <1>4, <5>2, <5>3
      <4>2. CASE r.from = s.from
        <5>0. x.name = z.name
          BY <3>1, <3>2, <4>2
        <5>1. x = z
          BY <1>2, <5>0
        <5>2. y.id = p.id
          BY <3>1, <3>2, <5>1
        <5>. QED BY <1>0, <3>1, <3>4, <5>1, <5>2 DEF Unique
      <4>. QED BY <3>5, <4>1, <4>2
    <3>6. r.from = s.from /\ r.to = s.to /\ r.collection = s.collection => r = s
      <4>1. /\ r = [collection |-> r.collection, from |-> r.from, to |-> r.to]
            /\ s = [collection |-> s.collection, from |-> s.from, to |-> s.to]
        BY DEF Renames
      <4>. QED BY <4>1
    <3>. QED BY <3>1, <3>2, <3>3, <3>5, <3>6
  <2>. QED BY <2>1 DEF Untangled
<1>6. ASSUME NEW x \in R, NEW y \in cols, y.id = x.id PROVE Aim(x, cols) = y.name
  BY <1>0, <1>6, AimIs
<1>7. Unmixed(R, cols)
  <2>1. ASSUME NEW x \in R, NEW z \in R, Aim(x, cols) = Aim(z, cols) PROVE x = z
    <3>1. PICK y \in cols : y.id = x.id
      OBVIOUS
    <3>2. PICK p \in cols : p.id = z.id
      OBVIOUS
    <3>. QED BY <1>3, <1>4, <1>6, <2>1, <3>1, <3>2
  <2>2. ASSUME NEW x \in R, NEW p \in cols, Aim(x, cols) = p.name PROVE p.id = x.id
    <3>1. PICK y \in cols : y.id = x.id
      OBVIOUS
    <3>. QED BY <1>3, <1>6, <2>2, <3>1
  <2>. QED BY <2>1, <2>2 DEF Unmixed
<1>8. ASSUME NEW x \in R PROVE At(x, cols, new, n) = x.name
  <2>1. PICK y \in cols : y.id = x.id
    OBVIOUS
  <2>2. Aim(x, cols) = y.name
    BY <1>6, <2>1
  <2>3. CASE x.name /= y.name
    <3>1. PICK r \in new : r.collection = n /\ r.from = x.name /\ r.to = y.name
      BY <2>1, <2>3
    <3>. QED BY <1>5, <2>2, <3>1, SpotIs DEF At
  <2>4. CASE x.name = y.name
    <3>1. ASSUME NEW r \in new, r.to = y.name PROVE FALSE
      <4>1. PICK z \in R, p \in cols :
              /\ z.id = p.id /\ z.name /= p.name
              /\ r.collection = n /\ r.from = z.name /\ r.to = p.name
        OBVIOUS
      <4>2. p = y
        <5>1. p.name = y.name
          BY <3>1, <4>1
        <5>. QED BY <1>3, <5>1
      <4>3. z = x
        BY <1>4, <2>1, <4>1, <4>2
      <4>. QED BY <2>4, <4>1, <4>2, <4>3
    <3>. QED BY <1>5, <2>2, <2>4, <3>1, SpotIs DEF At
  <2>. QED BY <2>3, <2>4
<1>9. Placed(R, cols, new, n, vals, fil)
  BY <1>1, <1>8 DEF Placed
<1>10. Clear(R, cols, new, n, vals)
  <2>1. ASSUME NEW r \in new, NEW x \in R PROVE Aim(x, cols) /= r.from
    <3>1. PICK y \in cols : y.id = x.id
      OBVIOUS
    <3>. QED BY <1>6, <3>1
  <2>. QED BY <2>1 DEF Clear
<1>. QED BY <1>5, <1>7, <1>9, <1>10

\* One field is renamed, in the collection of the table.
Moved(vals, r) ==
  IF {v \in vals : v.field = r.from} = {} THEN vals
  ELSE (vals \ {v \in vals : v.field \in {r.from, r.to}})
         \cup {[v EXCEPT !.field = r.to] : v \in {w \in vals : w.field = r.from}}

LEMMA MoveField ==
  ASSUME NEW R, NEW pend, Kinds(R, pend), NEW rens \in SUBSET Renames, Untangled(rens), NEW r \in rens,
         NEW n, r.collection = n, NEW vals \in SUBSET Values, NEW fil,
         Placed(R, pend, rens, n, vals, fil), Clear(R, pend, rens, n, vals)
  PROVE Placed(R, pend, rens \ {r}, n, Moved(vals, r), fil)
<1>. DEFINE rest == rens \ {r}
<1>0. /\ R \in SUBSET ColumnRows /\ pend \in SUBSET ColumnFields /\ Unique(pend)
      /\ rest \in SUBSET Renames /\ Untangled(rest)
      /\ r.from \in ColumnNames /\ r.to \in ColumnNames /\ r.from /= r.to
  BY DEF Kinds, Renames, Untangled
<1>1. \A s \in rens : s \in rest \/ s = r
  OBVIOUS
<1>2. \A s \in rest : s \in rens /\ s.to /= r.to /\ s.from /= r.from
  BY DEF Untangled
<1>. HIDE DEF rest
<1>3. ASSUME NEW x \in R
      PROVE /\ Aim(x, pend) \in ColumnNames
            /\ Aim(x, pend) = r.to => At(x, pend, rens, n) = r.from /\ At(x, pend, rest, n) = r.to
            /\ Aim(x, pend) /= r.to => /\ At(x, pend, rens, n) = At(x, pend, rest, n)
                                       /\ At(x, pend, rens, n) /= r.to
                                       /\ vals /= {} => At(x, pend, rens, n) /= r.from
  <2>. DEFINE a == Aim(x, pend)
  <2>0. a \in ColumnNames
    BY <1>0, AimIs
  <2>. HIDE DEF a
  <2>1. CASE a = r.to
    <3>1. Spot(a, rens, n) = r.from
      BY <2>1, SpotIs
    <3>2. Spot(a, rest, n) = a
      BY <1>0, <1>2, <2>1, SpotIs
    <3>. QED BY <2>0, <2>1, <3>1, <3>2 DEF At, a
  <2>2. CASE a /= r.to
    <3>1. CASE \E s \in rest : s.collection = n /\ s.to = a
      <4>1. PICK s \in rest : s.collection = n /\ s.to = a
        BY <3>1
      <4>2. Spot(a, rens, n) = s.from /\ Spot(a, rest, n) = s.from
        BY <1>0, <1>2, <4>1, SpotIs
      <4>3. s.from /= r.to /\ s.from /= r.from
        BY <1>2, <4>1 DEF Untangled
      <4>. QED BY <2>0, <2>2, <4>2, <4>3 DEF At, a
    <3>2. CASE \A s \in rest : ~(s.collection = n /\ s.to = a)
      <4>1. \A s \in rens : ~(s.collection = n /\ s.to = a)
        BY <1>1, <2>2, <3>2
      <4>2. Spot(a, rens, n) = a /\ Spot(a, rest, n) = a
        BY <1>0, <3>2, <4>1, SpotIs
      <4>3. vals /= {} => a /= r.from
        BY DEF Clear, a
      <4>. QED BY <2>0, <2>2, <4>2, <4>3 DEF At, a
    <3>. QED BY <3>1, <3>2
  <2>. QED BY <2>1, <2>2 DEF a
<1>4. CASE {v \in vals : v.field = r.from} = {}
  <2>1. Moved(vals, r) = vals
    BY <1>4 DEF Moved
  <2>2. \A v \in vals : v.field /= r.from
    BY <1>4
  <2>3. ASSUME NEW x \in R, x.id \in fil PROVE At(x, pend, rest, n) = At(x, pend, rens, n)
    <3>1. [field |-> At(x, pend, rens, n), of |-> x.id] \in vals
      BY <2>3 DEF Placed
    <3>2. At(x, pend, rens, n) /= r.from
      BY <2>2, <3>1
    <3>. QED BY <1>3, <3>2
  <2>. QED BY <2>1, <2>3 DEF Placed, rest
<1>5. CASE {v \in vals : v.field = r.from} /= {}
  <2>. DEFINE kept == vals \ {v \in vals : v.field \in {r.from, r.to}}
              old == {w \in vals : w.field = r.from}
              moved == {[v EXCEPT !.field = r.to] : v \in old}
  <2>1. Moved(vals, r) = kept \cup moved /\ vals /= {}
    BY <1>5 DEF Moved
  <2>2. ASSUME NEW v \in kept, v.field \in ColumnNames
        PROVE \E x \in R : v.of = x.id /\ v.field = At(x, pend, rest, n) /\ x.id \in fil
    <3>1. v \in vals /\ v.field /= r.from /\ v.field /= r.to
      OBVIOUS
    <3>2. PICK x \in R : v.of = x.id /\ v.field = At(x, pend, rens, n) /\ x.id \in fil
      BY <2>2, <3>1 DEF Placed
    <3>3. At(x, pend, rest, n) = At(x, pend, rens, n)
      BY <1>3, <3>1, <3>2
    <3>. QED BY <3>2, <3>3
  <2>3. ASSUME NEW u \in moved
        PROVE \E x \in R : u.of = x.id /\ u.field = At(x, pend, rest, n) /\ x.id \in fil
    <3>1. PICK v \in old : u = [v EXCEPT !.field = r.to]
      OBVIOUS
    <3>2. v \in Values /\ v \in vals /\ v.field = r.from
      OBVIOUS
    <3>3. u.of = v.of /\ u.field = r.to
      BY <3>1, <3>2 DEF Values
    <3>4. PICK x \in R : v.of = x.id /\ v.field = At(x, pend, rens, n) /\ x.id \in fil
      BY <1>0, <3>2 DEF Placed
    <3>5. Aim(x, pend) = r.to
      BY <1>3, <2>1, <3>2, <3>4
    <3>6. At(x, pend, rest, n) = r.to
      BY <1>3, <3>5
    <3>. QED BY <3>3, <3>4, <3>6
  <2>4. ASSUME NEW x \in R, x.id \in fil
        PROVE [field |-> At(x, pend, rest, n), of |-> x.id] \in kept \cup moved
    <3>. DEFINE v == [field |-> At(x, pend, rens, n), of |-> x.id]
    <3>1. v \in vals
      BY <2>4 DEF Placed
    <3>2. CASE Aim(x, pend) = r.to
      <4>1. v.field = r.from /\ At(x, pend, rest, n) = r.to
        BY <1>3, <3>2
      <4>2. v \in old
        BY <3>1, <4>1
      <4>3. [v EXCEPT !.field = r.to] = [field |-> At(x, pend, rest, n), of |-> x.id]
        BY <4>1
      <4>4. [v EXCEPT !.field = r.to] \in moved
        BY <4>2
      <4>. QED BY <4>3, <4>4
    <3>3. CASE Aim(x, pend) /= r.to
      <4>1. v.field /= r.to /\ v.field /= r.from /\ At(x, pend, rest, n) = v.field
        BY <1>3, <2>1, <3>3
      <4>2. v \in kept
        BY <3>1, <4>1
      <4>. QED BY <4>1, <4>2
    <3>. QED BY <3>2, <3>3
  <2>. HIDE DEF kept, moved
  <2>. QED BY <2>1, <2>2, <2>3, <2>4 DEF Placed, rest
<1>. QED BY <1>4, <1>5

\* Renaming in another collection is nothing to a table.
LEMMA MoveOther ==
  ASSUME NEW R, NEW pend, Kinds(R, pend), NEW rens \in SUBSET Renames, Untangled(rens), NEW r \in rens,
         NEW n, r.collection /= n, NEW vals, NEW fil, Placed(R, pend, rens, n, vals, fil)
  PROVE Placed(R, pend, rens \ {r}, n, vals, fil)
<1>. DEFINE rest == rens \ {r}
<1>0. rest \in SUBSET Renames /\ Untangled(rest)
  BY DEF Untangled
<1>1. \A s \in rest : s \in rens
  OBVIOUS
<1>2. \A s \in rens : s.collection = n => s \in rest
  OBVIOUS
<1>. HIDE DEF rest
<1>3. ASSUME NEW a PROVE Spot(a, rest, n) = Spot(a, rens, n)
  <2>1. CASE \E s \in rens : s.collection = n /\ s.to = a
    BY <1>0, <1>1, <1>2, <2>1, SpotIs
  <2>2. CASE \A s \in rens : ~(s.collection = n /\ s.to = a)
    BY <1>0, <1>1, <1>2, <2>2, SpotIs
  <2>. QED BY <2>1, <2>2
<1>. QED BY <1>3 DEF Placed, At, rest

\* Documents are written while nothing is under way.
LEMMA FillIn ==
  ASSUME NEW R, Kinds(R, {}), NEW S \in SUBSET RelationRows, NEW n, NEW vals, NEW fil,
         Placed(R, {}, {}, n, vals, fil),
         NEW kept \in SUBSET vals, \A v \in kept, x \in R : v.field /= x.name,
         NEW new, \A v \in new : \E x \in R \cup S : v = [field |-> x.name, of |-> x.id],
         NEW ids, \A x \in R : x.id \in ids /\ [field |-> x.name, of |-> x.id] \in new
  PROVE Placed(R, {}, {}, n, kept \cup new, fil \cup ids)
<1>0. R \in SUBSET ColumnRows /\ Unique({}) /\ Untangled({})
  BY DEF Kinds, Unique, Untangled
<1>1. ASSUME NEW z \in R PROVE At(z, {}, {}, n) = z.name
  BY <1>0, AimIs, SpotIs DEF At
<1>2. ASSUME NEW v \in kept, v.field \in ColumnNames PROVE FALSE
  <2>1. PICK x \in R : v.of = x.id /\ v.field = At(x, {}, {}, n) /\ x.id \in fil
    BY <1>2 DEF Placed
  <2>. QED BY <1>1, <2>1
<1>3. ASSUME NEW v \in new, v.field \in ColumnNames
      PROVE \E x \in R : v.of = x.id /\ v.field = At(x, {}, {}, n) /\ x.id \in fil \cup ids
  <2>1. PICK x \in R \cup S : v = [field |-> x.name, of |-> x.id]
    OBVIOUS
  <2>2. x \notin S
    BY <1>3, <2>1, MongoAssumption DEF RelationRows
  <2>. QED BY <1>1, <2>1, <2>2
<1>. QED BY <1>1, <1>2, <1>3 DEF Placed

\* Fields of relations are unset, which no column has.
LEMMA FieldsGone ==
  ASSUME NEW R, NEW pend, Kinds(R, pend), NEW rens \in SUBSET Renames, Untangled(rens), NEW n, NEW vals, NEW fil,
         NEW fields, \A f \in fields : f = RelationName, NEW lost, \A x \in R : x.id \notin lost,
         NEW left \in SUBSET vals, \A v \in vals : v.field \notin fields => v \in left,
         Placed(R, pend, rens, n, vals, fil)
  PROVE Placed(R, pend, rens, n, left, fil \ lost)
<1>1. ASSUME NEW x \in R PROVE At(x, pend, rens, n) \in ColumnNames
  BY AimIs, SpotIs DEF Kinds, At
<1>2. ASSUME NEW x \in R PROVE At(x, pend, rens, n) \notin fields
  BY <1>1, MongoAssumption
<1>. QED BY <1>2 DEF Placed

-----------------------------------------------------------------------------
(* What holds of the values at any time *)

Handed == {"lapsed", "failed", "renamed", "stuck", "crossed", "early"}
\* What is still to be written of the list of a table.
Pending(t) == UNION {call[c].todo : c \in {d \in Calls : call[d].pc = "columns" /\ call[d].table = t}}
Kept(t) ==
  /\ Unmixed(Of(t, columns), Pending(t))
  /\ Placed(Of(t, columns), Pending(t), renames, tables[t], collections[tables[t]].values, filled)
  /\ Clear(Of(t, columns), Pending(t), renames, tables[t], collections[tables[t]].values)
\* A handler that drops columns has seen those there are, and drops those that
\* its list does not name.
Drops(c) ==
  call[c].pc = "drop" =>
    LET R == Of(call[c].table, columns)
    IN /\ call[c].todo = LeftOut(c)
       /\ R \subseteq call[c].seen
       /\ \A s \in call[c].seen : s \in R \/ \A y \in call[c].cols : y.id /= s.id
UniqueBody(d) == call[d] \in Handlers => Unique(call[d].cols)
Tidy ==
  /\ \A c \in Calls : UniqueBody(c)
  /\ \A x \in columns, y \in relations : x.id /= y.id
  /\ \A i \in filled : i <= serial
  /\ \A n \in Names : ~collections[n].there => collections[n].values = {}
Stored ==
  /\ Tidy /\ Untangled(renames)
  /\ \A t \in Live : Kept(t)
  /\ \A c \in Calls : Drops(c)
StoredInv == Spared(Handed) => Stored

\* Only the handler that works has a list to write.
LEMMA PendingIs ==
  ASSUME NEW c \in Calls, Alone(c), NEW t
  PROVE /\ Pending(t) = IF call[c].pc = "columns" /\ call[c].table = t THEN call[c].todo ELSE {}
        /\ Pending(t)' = IF call'[c].pc = "columns" /\ call'[c].table = t THEN call'[c].todo ELSE {}
<1>1. \A d \in Calls \ {c} : call[d].pc /= "columns" /\ call'[d].pc /= "columns"
  BY DEF Alone, Empty
<1>2. Pending(t) = IF call[c].pc = "columns" /\ call[c].table = t THEN call[c].todo ELSE {}
  BY <1>1 DEF Pending
<1>3. Pending(t)' = IF call'[c].pc = "columns" /\ call'[c].table = t THEN call'[c].todo ELSE {}
  BY <1>1 DEF Pending
<1>. QED BY <1>2, <1>3

\* Steps at which no list is taken up or put down.
LEMMA PendingSame ==
  ASSUME NEW t, \A d \in Calls : call'[d] = call[d] \/ (call[d].pc \in Empty /\ call'[d].pc \in Empty)
  PROVE Pending(t)' = Pending(t)
<1>1. \A d \in Calls : (call'[d].pc = "columns" <=> call[d].pc = "columns") /\ (call[d].pc = "columns" => call'[d] = call[d])
  BY DEF Empty
<1>. QED BY <1>1 DEF Pending

LEMMA NothingPending ==
  ASSUME NEW t, \A d \in Calls : call[d].pc /= "columns" PROVE Pending(t) = {}
  BY DEF Pending

\* Rows and lists are of one kind each.
LEMMA KindsNow ==
  ASSUME TypeOK, IInv, OwnRows, Tidy, Spared(Handed), NEW t
  PROVE Kinds(Of(t, columns), Pending(t))
<1>1. Of(t, columns) \in SUBSET ColumnRows /\ \A x, y \in Of(t, columns) : x.id = y.id => x = y
  BY DEF TypeOK, OwnRows, Numbered, Of
<1>2. CASE \A d \in Calls : call[d].pc /= "columns"
  BY <1>1, <1>2, NothingPending DEF Kinds, Unique
<1>3. CASE \E d \in Calls : call[d].pc = "columns"
  <2>1. PICK c \in Calls : call[c].pc = "columns"
    BY <1>3
  <2>2. \A d \in Calls \ {c} : call[d].pc /= "columns"
    <3>1. "lapsed" \notin history
      BY DEF Spared, Handed
    <3>2. \A d \in Calls : Working(d) => d = c
      BY <2>1, <3>1 DEF IInv, Holding, Working
    <3>. QED BY <3>2 DEF Working
  <2>3. call[c] \in Handlers /\ call[c].todo \subseteq call[c].cols
    BY <2>1, AtWork, PlaceNames DEF TypeOK, Sensible
  <2>4. Unique(call[c].cols) /\ call[c].cols \in SUBSET ColumnFields
    BY <2>3 DEF Tidy, UniqueBody, Handlers
  <2>5. Pending(t) = call[c].todo \/ Pending(t) = {}
    BY <2>1, <2>2 DEF Pending
  <2>6. Pending(t) \in SUBSET ColumnFields /\ Unique(Pending(t))
    BY <2>3, <2>4, <2>5 DEF Unique
  <2>. QED BY <1>1, <2>6 DEF Kinds
<1>. QED BY <1>2, <1>3

\* What a step leaves alone stays where it is.
LEMMA KeptSame ==
  ASSUME NEW t, Kept(t), tables'[t] = tables[t], Of(t, columns') = Of(t, columns), Pending(t)' = Pending(t),
         collections'[tables[t]].values = collections[tables[t]].values,
         \A x \in Of(t, columns) : x.id \in filled' <=> x.id \in filled,
         \A a : Spot(a, renames', tables[t]) = Spot(a, renames, tables[t]),
         \A r \in renames' : r.collection = tables[t] => r \in renames
  PROVE Kept(t)'
<1>. DEFINE R == Of(t, columns)
            P == Pending(t)
            n == tables[t]
            v == collections[n].values
            v2 == collections'[n].values
<1>0. Unmixed(R, P) /\ Placed(R, P, renames, n, v, filled) /\ Clear(R, P, renames, n, v)
  BY DEF Kept
<1>1. \A x : At(x, P, renames', n) = At(x, P, renames, n)
  BY DEF At
<1>2. v2 = v /\ \A x \in R : x.id \in filled' <=> x.id \in filled
  OBVIOUS
<1>. HIDE DEF R, P, n, v, v2
<1>3. Placed(R, P, renames', n, v2, filled')
  BY <1>0, <1>1, <1>2 DEF Placed
<1>4. Clear(R, P, renames', n, v2)
  BY <1>0, <1>2 DEF Clear, n
<1>5. /\ tables'[t] = n /\ Of(t, columns') = R /\ Pending(t)' = P
      /\ collections'[tables'[t]].values = v2
  BY DEF n, R, P, v2
<1>. QED BY <1>0, <1>3, <1>4, <1>5 DEF Kept

\* The ends of every step.
LEMMA BodiesStay ==
  ASSUME Tidy, NEW c \in Calls, Left(c) \/ \E l : Went(c, l)
  PROVE \A d \in Calls : UniqueBody(d)'
<1>1. ASSUME NEW d \in Calls, d /= c PROVE UniqueBody(d)'
  BY <1>1 DEF Tidy, UniqueBody, Left, Went
<1>2. UniqueBody(c)'
  BY DEF Tidy, UniqueBody, Left, Went, Same
<1>. QED BY <1>1, <1>2

LEMMA TidyLess ==
  ASSUME Tidy, \A d \in Calls : UniqueBody(d)',
         columns' \subseteq columns, relations' \subseteq relations, filled' \subseteq filled, serial' = serial,
         \A n \in Names : ~collections'[n].there => collections'[n].values = {}
  PROVE Tidy'
<1>1. \A x \in columns', y \in relations' : x.id /= y.id
  BY DEF Tidy
<1>2. \A i \in filled' : i <= serial'
  BY DEF Tidy
<1>. QED BY <1>1, <1>2 DEF Tidy

-----------------------------------------------------------------------------
(* Each step keeps the values *)

\* What the steps below start from.
Start1(c) == Start0(c) /\ Stored /\ \A t \in Ids : Kinds(Of(t, columns), Pending(t))

LEMMA DropsStay == ASSUME NEW c \in Calls, Alone(c), Drops(c)' PROVE \A d \in Calls : Drops(d)'
<1>1. ASSUME NEW d \in Calls \ {c} PROVE Drops(d)'
  BY DEF Alone, Empty, Drops
<1>. QED BY <1>1

\* Steps that leave the rows and values of all tables alone.
LEMMA ElsewhereStored ==
  ASSUME NEW c \in Calls, Start1(c), Tidy', Drops(c)', \A u \in Ids : Pending(u)' = Pending(u),
         UNCHANGED <<renames, filled>>,
         \A u \in Live' : /\ u \in Live /\ tables'[u] = tables[u] /\ Of(u, columns') = Of(u, columns)
                          /\ collections'[tables[u]].values = collections[tables[u]].values
  PROVE Stored'
<1>1. ASSUME NEW u \in Live' PROVE Kept(u)'
  <2>1. u \in Live /\ u \in Ids
    BY DEF Live
  <2>2. Kept(u)
    BY <2>1 DEF Start1, Stored
  <2>. QED BY <2>1, <2>2, KeptSame
<1>2. Untangled(renames')
  BY DEF Start1, Stored
<1>3. \A d \in Calls : Drops(d)'
  BY DropsStay DEF Start1, Start0
<1>. QED BY <1>1, <1>2, <1>3 DEF Stored

\* Nothing is pending before and after.
LEMMA NoLists ==
  ASSUME NEW c \in Calls, Start1(c), call[c].pc /= "columns", call'[c].pc /= "columns"
  PROVE \A u \in Ids : Pending(u) = {} /\ Pending(u)' = Pending(u)
  BY PendingIs DEF Start1, Start0

\* Two collections with the same documents.
Vacant == \A n \in Names : ~collections[n].there => collections[n].values = {}
LEMMA ReplacedValues ==
  ASSUME TypeOK, Vacant, NEW n \in Names, NEW x \in Collections, collections' = [collections EXCEPT ![n] = x],
         (x.values = collections[n].values /\ x.there) \/ x = NoCollection
  PROVE /\ Vacant'
        /\ \A m \in Names : m /= n \/ x /= NoCollection => collections'[m].values = collections[m].values
<1>1. collections'[n] = x /\ \A m \in Names \ {n} : collections'[m] = collections[m]
  BY Replaced
<1>. QED BY <1>1 DEF Vacant, NoCollection

LEMMA DescribedValues ==
  ASSUME TypeOK, NEW x \in Collections, NEW t
  PROVE Described(x, t) \in Collections /\ Described(x, t).values = x.values /\ Described(x, t).there
<1>1. Described(x, t).values = x.values
  BY DEF Described, Collections
<1>. QED BY <1>1, DescribedTyped

LEMMA LookCreateStored == ASSUME NEW c \in Calls, Start1(c), LookCreate(c) PROVE Stored'
<1>0. call[c].pc = "look" /\ UNCHANGED <<tables, columns, relations, renames, filled, serial>>
  BY DEF LookCreate, rows, counted
<1>1. \/ Left(c) /\ collections' = collections
      \/ /\ \A t \in Live : tables[t] /= call[c].name
         /\ call[c].name \in Names
         /\ collections' = [collections EXCEPT ![call[c].name] = NoCollection]
         /\ Went(c, "insert") /\ KeepsTable(c) /\ call[c].op = "create"
  BY LookCreateTyped DEF Start1, Start0
<1>2. call'[c].pc \in {"idle", "release", "insert"} /\ (Left(c) \/ \E l : Went(c, l))
  BY <1>1 DEF Left, Went
<1>3. Vacant' /\ \A u \in Live : collections'[tables[u]].values = collections[tables[u]].values
  <2>0. Vacant /\ TypeOK /\ \A u \in Live : tables[u] \in Names
    BY DEF Start1, Start0, Stored, Tidy, Vacant, Live, TypeOK
  <2>1. CASE collections' = collections
    BY <2>0, <2>1 DEF Vacant
  <2>2. CASE /\ \A t \in Live : tables[t] /= call[c].name
             /\ call[c].name \in Names
             /\ collections' = [collections EXCEPT ![call[c].name] = NoCollection]
    BY <2>0, <2>2, NoCollectionTyped, ReplacedValues
  <2>. QED BY <1>1, <2>1, <2>2
<1>4. Tidy'
  BY <1>0, <1>2, <1>3, BodiesStay, TidyLess DEF Start1, Stored, Vacant
<1>5. Live' = Live
  BY <1>0 DEF Live
<1>6. Drops(c)'
  BY <1>2 DEF Drops
<1>. QED BY <1>0, <1>2, <1>3, <1>4, <1>5, <1>6, NoLists, ElsewhereStored

LEMMA InsertRouteStored == ASSUME NEW c \in Calls, Start1(c), InsertRoute(c) PROVE Stored'
<1>0. call[c].pc = "route" /\ UNCHANGED <<tables, columns, relations, collections, renames, filled, serial>>
  BY DEF InsertRoute, counted
<1>1. Went(c, "collection")
  BY InsertRouteTyped DEF Start1, Start0
<1>2. Tidy'
  BY <1>0, <1>1, BodiesStay, TidyLess DEF Start1, Stored, Tidy
<1>3. Live' = Live
  BY <1>0 DEF Live
<1>4. Drops(c)' /\ call'[c].pc /= "columns"
  BY <1>1 DEF Drops, Went
<1>. QED BY <1>0, <1>2, <1>3, <1>4, NoLists, ElsewhereStored

\* The last step of a handler.
LEMMA DescribedStored ==
  ASSUME NEW c \in Calls, Start1(c), Left(c), call[c].pc /= "columns", NEW n \in Names,
         collections' = collections \/ DescribedAt(n, call[c].table),
         UNCHANGED <<tables, columns, relations, renames, filled, serial>>
  PROVE Stored'
<1>0. Vacant /\ TypeOK /\ \A u \in Live : tables[u] \in Names
  BY DEF Start1, Start0, Stored, Tidy, Vacant, Live, TypeOK
<1>1. Vacant' /\ \A m \in Names : collections'[m].values = collections[m].values
  <2>1. CASE collections' = collections
    BY <1>0, <2>1 DEF Vacant
  <2>2. CASE DescribedAt(n, call[c].table)
    <3>. DEFINE x == Described(collections[n], call[c].table)
    <3>1. collections[n] \in Collections
      BY <1>0 DEF TypeOK
    <3>2. x \in Collections /\ x.values = collections[n].values /\ x.there
      BY <1>0, <3>1, DescribedValues
    <3>3. collections' = [collections EXCEPT ![n] = x]
      BY <2>2 DEF DescribedAt
    <3>. HIDE DEF x
    <3>4. x /= NoCollection
      BY <3>2 DEF NoCollection
    <3>. QED BY <1>0, <3>2, <3>3, <3>4, ReplacedValues
  <2>. QED BY <2>1, <2>2
<1>2. Tidy'
  BY <1>1, BodiesStay, TidyLess DEF Start1, Stored, Vacant
<1>3. Live' = Live
  BY DEF Live
<1>4. Drops(c)' /\ call'[c].pc /= "columns"
  BY DEF Drops, Left
<1>. QED BY <1>0, <1>1, <1>2, <1>3, <1>4, NoLists, ElsewhereStored

LEMMA CreateCollectionStored == ASSUME NEW c \in Calls, Start1(c), CreateCollection(c) PROVE Stored'
<1>1. Left(c) /\ call[c].name \in Names
  BY CreateCollectionTyped DEF Start1, Start0
<1>2. /\ call[c].pc = "collection" /\ UNCHANGED <<tables, columns, relations, renames, filled, serial>>
      /\ collections' = collections \/ DescribedAt(call[c].name, call[c].table)
  BY DEF CreateCollection, rows, counted, DescribedAt
<1>. QED BY <1>1, <1>2, DescribedStored

LEMMA UpdateCollectionStored == ASSUME NEW c \in Calls, Start1(c), UpdateCollection(c) PROVE Stored'
<1>1. Left(c) /\ call[c].old \in Names
  BY UpdateCollectionTyped DEF Start1, Start0
<1>2. /\ call[c].pc = "schema" /\ UNCHANGED <<tables, columns, relations, renames, filled, serial>>
      /\ collections' = collections \/ DescribedAt(call[c].old, call[c].table)
  BY DEF UpdateCollection, rows, DescribedAt
<1>. QED BY <1>1, <1>2, DescribedStored

LEMMA RefuseDropStored == ASSUME NEW c \in Calls, Start1(c), RefuseDrop(c) PROVE Stored'
<1>0. call[c].pc = "drop" /\ UNCHANGED <<tables, columns, relations, collections, renames, filled, serial>>
  BY DEF RefuseDrop, rows
<1>1. Left(c)
  BY RefuseDropTyped DEF Start1, Start0
<1>2. Tidy'
  BY <1>0, <1>1, BodiesStay, TidyLess DEF Start1, Stored, Tidy
<1>3. Live' = Live
  BY <1>0 DEF Live
<1>4. Drops(c)' /\ call'[c].pc /= "columns"
  BY <1>1 DEF Drops, Left
<1>. QED BY <1>0, <1>2, <1>3, <1>4, NoLists, ElsewhereStored

LEMMA LookUpdateStored ==
  ASSUME NEW c \in Calls, Start1(c), LookUpdate(c), "renamed" \notin history' PROVE Stored'
<1>0. call[c].pc = "look" /\ UNCHANGED <<columns, relations, collections, renames, filled, serial>>
  BY DEF LookUpdate
<1>1. /\ tables' = tables /\ call'[c].pc /= "columns"
      /\ Left(c) \/ \E l : Went(c, l)
      /\ Drops(c)'
  <2>1. CASE Left(c) /\ tables' = tables
    BY <2>1 DEF Left, Drops
  <2>2. CASE ~Over(c)
    <3>1. /\ call[c].table \in Live
          /\ tables' = [tables EXCEPT ![call[c].table] = call[c].name]
          /\ history' = IF tables[call[c].table] = call[c].name THEN history ELSE history \cup {"renamed"}
          /\ Went(c, "drop") \/ Went(c, "fields")
          /\ call'[c].table = call[c].table
          /\ call'[c].todo = LeftOut(c) /\ call'[c].seen = Of(call[c].table, columns)
      BY <2>2, LookUpdateWent DEF Start1, Start0
    <3>2. tables' = tables
      BY <3>1 DEF Start1, Start0, TypeOK, Live
    <3>3. Drops(c)'
      BY <1>0, <3>1 DEF Drops, LeftOut, Went, Same
    <3>. QED BY <3>1, <3>2, <3>3 DEF Went
  <2>. QED BY <2>1, <2>2, LookUpdateTyped DEF Start1, Start0
<1>2. Tidy'
  BY <1>0, <1>1, BodiesStay, TidyLess DEF Start1, Stored, Tidy
<1>3. Live' = Live
  BY <1>1 DEF Live
<1>. QED BY <1>0, <1>1, <1>2, <1>3, NoLists, ElsewhereStored

LEMMA DeleteRoutesStored == ASSUME NEW c \in Calls, Start1(c), DeleteRoutes(c) PROVE Stored'
<1>0. call[c].pc = "look" /\ UNCHANGED <<tables, columns, relations, collections, renames, filled, serial>>
  BY DEF DeleteRoutes, counted
<1>1. Left(c) \/ Went(c, "rows")
  BY DeleteRoutesTyped, DeleteRoutesWent DEF Start1, Start0
<1>2. Tidy'
  BY <1>0, <1>1, BodiesStay, TidyLess DEF Start1, Stored, Tidy
<1>3. Live' = Live
  BY <1>0 DEF Live
<1>4. Drops(c)' /\ call'[c].pc /= "columns"
  BY <1>1 DEF Drops, Went, Left
<1>. QED BY <1>0, <1>2, <1>3, <1>4, NoLists, ElsewhereStored

LEMMA DeleteRowsStored == ASSUME NEW c \in Calls, Start1(c), DeleteRows(c) PROVE Stored'
<1>. DEFINE t == call[c].table
<1>0. /\ call[c].pc = "rows" /\ UNCHANGED <<relations, collections, renames, filled, serial>>
      /\ columns' = columns \ Of(t, columns) /\ tables' = [tables EXCEPT ![t] = NoName]
  BY DEF DeleteRows, counted
<1>1. Went(c, "dropping") /\ t \in Ids
  BY DeleteRowsTyped DEF Start1, Start0
<1>. HIDE DEF t
<1>2. Tidy'
  BY <1>0, <1>1, BodiesStay, TidyLess DEF Start1, Stored, Tidy
<1>3. \A u \in Live' : u \in Live /\ tables'[u] = tables[u] /\ u /= t
  BY <1>0, <1>1 DEF Live, Start1, Start0, TypeOK
<1>4. \A u \in Live' : Of(u, columns') = Of(u, columns)
  BY <1>0, <1>3 DEF Of
<1>5. Drops(c)' /\ call'[c].pc /= "columns"
  BY <1>1 DEF Drops, Went
<1>. QED BY <1>0, <1>2, <1>3, <1>4, <1>5, NoLists, ElsewhereStored

LEMMA DropCollectionStored == ASSUME NEW c \in Calls, Start1(c), DropCollection(c) PROVE Stored'
<1>. DEFINE n == call[c].old
<1>1. Left(c) /\ n \in Names
  BY DropCollectionTyped DEF Start1, Start0
<1>2. /\ call[c].pc = "dropping" /\ UNCHANGED <<tables, columns, relations, renames, filled, serial>>
      /\ collections' = [collections EXCEPT ![n] = NoCollection]
  BY DEF DropCollection, rows, counted
<1>3. \A u \in Live : tables[u] /= n
  BY <1>2 DEF Start1, Start0, Base, Knows
<1>. HIDE DEF n
<1>4. Vacant /\ TypeOK /\ \A u \in Live : tables[u] \in Names
  BY DEF Start1, Start0, Stored, Tidy, Vacant, Live, TypeOK
<1>5. Vacant' /\ \A u \in Live : collections'[tables[u]].values = collections[tables[u]].values
  BY <1>1, <1>2, <1>3, <1>4, NoCollectionTyped, ReplacedValues
<1>6. Tidy'
  BY <1>1, <1>2, <1>5, BodiesStay, TidyLess DEF Start1, Stored, Vacant
<1>7. Live' = Live
  BY <1>2 DEF Live
<1>8. Drops(c)' /\ call'[c].pc /= "columns"
  BY <1>1 DEF Drops, Left
<1>. QED BY <1>2, <1>5, <1>6, <1>7, <1>8, NoLists, ElsewhereStored

\* A new table has no rows yet, and its collection no documents.
LEMMA InsertTableStored == ASSUME NEW c \in Calls, Start1(c), InsertTable(c) PROVE Stored'
<1>0. /\ call[c].pc = "insert" /\ UNCHANGED <<columns, relations, collections, renames, filled, serial>>
      /\ call[c].name \in Names
  BY AtWork, PlaceNames DEF InsertTable, counted, Start1, Start0, TypeOK, Sensible, Creating, Updating
<1>1. PICK t \in Unused :
          /\ tables' = [tables EXCEPT ![t] = call[c].name]
          /\ CallsOK' /\ Went(c, "columns")
          /\ call'[c].table = t /\ call'[c].old = call[c].old /\ call'[c].todo = call[c].cols
  BY InsertTableWent DEF Start1, Start0
<1>2. t \in Ids /\ t \notin Live /\ Of(t, columns) = {}
  BY DEF Unused, Of
<1>3. /\ tables'[t] = call[c].name
      /\ \A u \in Live' \ {t} : u \in Live /\ tables'[u] = tables[u]
  BY <1>1, <1>2 DEF Live, Start1, Start0, TypeOK
<1>4. collections[call[c].name].values = {}
  BY <1>0 DEF Start1, Start0, Stored, Tidy, Base, Knows
<1>5. Pending(t)' = call[c].cols /\ \A u \in Ids \ {t} : Pending(u)' = Pending(u)
  BY <1>0, <1>1, PendingIs DEF Start1, Start0, Went
<1>6. Kept(t)'
  <2>. DEFINE P == call[c].cols
              n == call[c].name
  <2>1. Unmixed({}, P)
    BY DEF Unmixed
  <2>2. Placed({}, P, renames, n, {}, filled)
    BY DEF Placed
  <2>3. Clear({}, P, renames, n, {})
    BY DEF Clear
  <2>4. /\ Of(t, columns') = {} /\ Pending(t)' = P /\ tables'[t] = n
        /\ collections'[tables'[t]].values = {}
    BY <1>0, <1>2, <1>3, <1>4, <1>5
  <2>. HIDE DEF P, n
  <2>. QED BY <1>0, <2>1, <2>2, <2>3, <2>4 DEF Kept
<1>7. ASSUME NEW u \in Live', u /= t PROVE Kept(u)'
  <2>1. u \in Live /\ u \in Ids /\ tables'[u] = tables[u]
    BY <1>3, <1>7 DEF Live
  <2>2. Kept(u) /\ Pending(u)' = Pending(u)
    BY <1>5, <1>7, <2>1 DEF Start1, Stored
  <2>. QED BY <1>0, <2>1, <2>2, KeptSame
<1>8. Tidy'
  BY <1>0, <1>1, BodiesStay, TidyLess DEF Start1, Stored, Tidy
<1>9. Drops(c)'
  BY <1>1 DEF Drops, Went
<1>10. \A d \in Calls : Drops(d)'
  BY <1>9, DropsStay DEF Start1, Start0
<1>. QED BY <1>0, <1>6, <1>7, <1>8, <1>10 DEF Stored, Start1

\* Rows of other tables stay as they are.
LEMMA OthersKept ==
  ASSUME NEW c \in Calls, Start1(c), NEW t, OthersKeep(columns, columns', t),
         call[c].pc = "columns" => call[c].table = t, call'[c].pc = "columns" => call'[c].table = t,
         tables' = tables,
         NEW u \in Live, u /= t, collections'[tables[u]].values = collections[tables[u]].values,
         \A x \in Of(u, columns) : x.id \in filled' <=> x.id \in filled,
         \A a : Spot(a, renames', tables[u]) = Spot(a, renames, tables[u]),
         \A r \in renames' : r.collection = tables[u] => r \in renames
  PROVE Kept(u)'
<1>1. Kept(u) /\ u \in Ids
  BY DEF Start1, Stored, Live
<1>2. Pending(u)' = Pending(u)
  BY PendingIs DEF Start1, Start0
<1>3. Of(u, columns') = Of(u, columns)
  BY OthersSame
<1>. QED BY <1>1, <1>2, <1>3, KeptSame

\* Ids of columns and relations, old and new, are never the same.
LEMMA ApartStill ==
  ASSUME TypeOK, OwnRows, Tidy,
         (columns' = columns /\ Older(relations, relations')) \/ (relations' = relations /\ Older(columns, columns'))
  PROVE \A x \in columns', y \in relations' : x.id /= y.id
<1>0. (\A x \in columns : x.id <= serial) /\ (\A y \in relations : y.id <= serial)
  BY DEF OwnRows, Numbered
<1>. QED BY <1>0 DEF Older, Tidy

LEMMA WrittenOlder ==
  ASSUME NEW N, NEW set \in SUBSET [id : Nat \ {0}, table : Ids, name : N], TypeOK, Numbered(set),
         NEW c \in Calls, call[c] \in Handlers, call[c].table \in Ids, NEW x \in [id : Nat, name : N],
         OwnIn(set, call[c], {x}), Number(x)
  PROVE serial <= serial' /\ Older(set, Write(set, c, x))
<1>1. x.id <= serial /\ \A y \in set : y.id = x.id => y.table = call[c].table
  BY DEF OwnIn
<1>2. serial \in Nat
  BY DEF TypeOK
<1>. QED BY <1>1, <1>2, WriteOwn

LEMMA TidyMore ==
  ASSUME TypeOK, TypeOK', OwnRows, Tidy, \A d \in Calls : UniqueBody(d)', serial <= serial',
         (columns' = columns /\ Older(relations, relations')) \/ (relations' = relations /\ Older(columns, columns')),
         UNCHANGED <<collections, filled>>
  PROVE Tidy'
<1>1. \A x \in columns', y \in relations' : x.id /= y.id
  BY ApartStill
<1>2. \A i \in filled' : i <= serial'
  <2>1. serial \in Nat /\ serial' \in Nat /\ filled \subseteq Nat
    BY DEF TypeOK
  <2>2. \A i \in filled : i <= serial
    BY DEF Tidy
  <2>. QED BY <2>1, <2>2
<1>. QED BY <1>1, <1>2 DEF Tidy

LEMMA WriteRelationStored == ASSUME NEW c \in Calls, Start1(c), WriteRelation(c) PROVE Stored'
<1>0. call[c].pc = "relations" /\ UNCHANGED <<tables, columns, collections, renames, filled>>
  BY DEF WriteRelation
<1>1. /\ Went(c, "relations") \/ Went(c, "route") \/ Went(c, "schema")
      /\ \/ relations' = relations /\ serial' = serial
         \/ \E x \in call[c].rels : relations' = Write(relations, c, x) /\ Number(x)
  BY WriteRelationTyped DEF Start1, Start0
<1>2. serial <= serial' /\ Older(relations, relations')
  <2>1. CASE relations' = relations /\ serial' = serial
    BY <2>1, OlderPart DEF Start1, Start0, TypeOK
  <2>2. CASE \E x \in call[c].rels : relations' = Write(relations, c, x) /\ Number(x)
    <3>1. PICK x \in call[c].rels : relations' = Write(relations, c, x) /\ Number(x)
      BY <2>2
    <3>2. call[c] \in Handlers /\ call[c].table \in Ids
      BY <1>0, AtWork, PlaceNames DEF Start1, Start0, TypeOK, Sensible, Starting
    <3>. DEFINE N == {RelationName}
    <3>3. x \in [id : Nat, name : N] /\ relations \in SUBSET [id : Nat \ {0}, table : Ids, name : N]
      BY <3>2 DEF Handlers, RelationFields, Start1, Start0, TypeOK, RelationRows
    <3>4. OwnIn(relations, call[c], {x}) /\ Numbered(relations)
      BY <3>2 DEF Start1, Start0, OwnRows, OwnBodies, OwnIn
    <3>. HIDE DEF N
    <3>. QED BY <3>1, <3>2, <3>3, <3>4, WrittenOlder DEF Start1, Start0
  <2>. QED BY <1>1, <2>1, <2>2
<1>3. Tidy'
  <2>1. \A d \in Calls : UniqueBody(d)'
    BY <1>1, BodiesStay DEF Start1, Stored
  <2>2. TypeOK /\ TypeOK' /\ OwnRows /\ Tidy
    BY DEF Start1, Start0, Stored
  <2>3. columns' = columns /\ collections' = collections /\ filled' = filled
    BY <1>0
  <2>. QED BY <1>2, <2>1, <2>2, <2>3, TidyMore
<1>4. Live' = Live
  BY <1>0 DEF Live
<1>5. Drops(c)' /\ call'[c].pc /= "columns"
  BY <1>1 DEF Drops, Went
<1>. QED BY <1>0, <1>3, <1>4, <1>5, NoLists, ElsewhereStored

\* One column is written, or the next list is taken up.
LEMMA ColumnTaken ==
  ASSUME TypeOK, NEW c \in Calls, WriteColumn(c)
  PROVE /\ call[c] \in Handlers /\ Sensible(call[c]) /\ call[c].pc = "columns"
        /\ call[c].todo \subseteq call[c].cols /\ call[c].table \in Ids
        /\ \/ /\ call[c].todo = {} /\ columns' = columns /\ serial' = serial
              /\ Went(c, "relations") \/ Went(c, "fields")
           \/ \E x \in call[c].todo :
                /\ columns' = Write(columns, c, x) /\ Number(x)
                /\ Went(c, "columns") /\ KeepsTable(c) /\ call'[c].todo = call[c].todo \ {x}
<1>0. CallsOK /\ call[c].pc = "columns" /\ call[c] \in Handlers /\ Sensible(call[c])
  BY AtWork, PlaceNames DEF TypeOK, WriteColumn
<1>1. call[c].todo \subseteq call[c].cols /\ call[c].table \in Ids
  BY <1>0 DEF Sensible, Starting
<1>2. CASE call[c].todo = {}
  <2>1. columns' = columns /\ serial' = serial
    BY <1>2 DEF WriteColumn
  <2>2. Went(c, "relations") \/ Went(c, "fields")
    <3>1. call'[c].pc /= "columns"
      <4>1. call' = [call EXCEPT ![c] = [@ EXCEPT
                        !.pc = IF call[c].op = "create" THEN "relations" ELSE "fields", !.todo = call[c].rels]]
        BY <1>2, Zenon DEF WriteColumn
      <4>. QED BY <1>0, <4>1 DEF CallsOK, Handlers
    <3>. QED BY <3>1, WriteColumnTyped DEF Went
  <2>. QED BY <1>0, <1>1, <1>2, <2>1, <2>2
<1>3. CASE call[c].todo /= {}
  <2>. DEFINE x == CHOOSE x \in call[c].todo : TRUE
              todo == call[c].todo \ {x}
  <2>1. x \in call[c].todo
    BY <1>3
  <2>2. columns' = Write(columns, c, x) /\ Number(x) /\ call' = [call EXCEPT ![c].todo = @ \ {x}]
    BY <1>3, Zenon DEF WriteColumn
  <2>3. todo \in SUBSET call[c].todo /\ call' = [call EXCEPT ![c].todo = todo]
    BY <2>2
  <2>. HIDE DEF todo
  <2>4. Went(c, call[c].pc) /\ KeepsTable(c) /\ call'[c].todo = todo
    BY <1>0, <2>3, TodoWent
  <2>5. Went(c, "columns") /\ KeepsTable(c) /\ call'[c].todo = call[c].todo \ {x}
    BY <1>0, <2>4 DEF todo
  <2>. HIDE DEF x
  <2>. QED BY <1>0, <1>1, <2>1, <2>2, <2>5
<1>. QED BY <1>2, <1>3

LEMMA WriteColumnStored == ASSUME NEW c \in Calls, Start1(c), WriteColumn(c) PROVE Stored'
<1>. PICK t \in Ids : t = call[c].table
  BY ColumnTaken DEF Start1, Start0
<1>0. /\ call[c] \in Handlers /\ Sensible(call[c]) /\ call[c].pc = "columns"
      /\ call[c].todo \subseteq call[c].cols
      /\ UNCHANGED <<tables, relations, collections, renames, filled>>
  BY ColumnTaken DEF WriteColumn, Start1, Start0
<1>00. Live' = Live
  BY <1>0 DEF Live
<1>1. CASE /\ call[c].todo = {} /\ columns' = columns /\ serial' = serial
           /\ Went(c, "relations") \/ Went(c, "fields")
  <2>1. \A u \in Ids : Pending(u)' = Pending(u)
    BY <1>0, <1>1, PendingIs DEF Start1, Start0, Went
  <2>2. Tidy'
    BY <1>0, <1>1, BodiesStay, TidyLess DEF Start1, Stored, Tidy
  <2>3. Drops(c)'
    BY <1>1 DEF Drops, Went
  <2>. QED BY <1>0, <1>00, <1>1, <2>1, <2>2, <2>3, ElsewhereStored
<1>2. CASE \E x \in call[c].todo :
             /\ columns' = Write(columns, c, x) /\ Number(x)
             /\ Went(c, "columns") /\ KeepsTable(c) /\ call'[c].todo = call[c].todo \ {x}
  <2>1. PICK x \in call[c].todo :
             /\ columns' = Write(columns, c, x) /\ Number(x)
             /\ Went(c, "columns") /\ KeepsTable(c) /\ call'[c].todo = call[c].todo \ {x}
    BY <1>2
  <2>2. x \in ColumnFields /\ x \in [id : Nat, name : ColumnNames] /\ call[c].cols \subseteq ColumnFields
    BY <1>0 DEF Handlers, ColumnFields
  <2>3. OwnIn(columns, call[c], call[c].cols) /\ Numbered(columns)
    BY <1>0 DEF Start1, Start0, OwnRows, OwnBodies
  <2>4. serial <= serial' /\ Older(columns, columns')
    <3>1. OwnIn(columns, call[c], {x})
      BY <1>0, <2>3 DEF OwnIn
    <3>2. columns \in SUBSET [id : Nat \ {0}, table : Ids, name : ColumnNames]
      BY DEF Start1, Start0, TypeOK, ColumnRows
    <3>. QED BY <1>0, <2>1, <2>2, <2>3, <3>1, <3>2, WrittenOlder DEF Start1, Start0
  <2>5. Tidy'
    <3>1. \A d \in Calls : UniqueBody(d)'
      BY <2>1, BodiesStay DEF Start1, Stored
    <3>. QED BY <1>0, <2>4, <3>1, TidyMore DEF Start1, Start0, Stored
  <2>6. Pending(t) = call[c].todo /\ Pending(t)' = call[c].todo \ {x}
    BY <1>0, <2>1, PendingIs DEF Start1, Start0, Went, KeepsTable
  <2>7. Drops(c)'
    BY <2>1 DEF Drops, Went
  <2>8. OthersKeep(columns, columns', t)
    BY ColumnsWritten DEF Start1, Start0
  <2>9. ASSUME NEW u \in Live, u /= t PROVE Kept(u)'
    <3>1. call'[c].table = t
      BY <2>1 DEF KeepsTable
    <3>. QED BY <1>0, <2>8, <2>9, <3>1, OthersKept
  <2>10. ASSUME t \in Live PROVE Kept(t)'
    <3>. DEFINE R == Of(t, columns)
                P == call[c].todo
                n == tables[t]
                v == collections[n].values
                R2 == Of(t, columns')
    <3>1. Kinds(R, P) /\ Unmixed(R, P) /\ Placed(R, P, renames, n, v, filled) /\ Clear(R, P, renames, n, v)
      BY <1>0, <2>6, <2>10 DEF Start1, Stored, Kept
    <3>2. /\ Of(t, columns') = R2 /\ Pending(t)' = P \ {x} /\ tables'[t] = n
          /\ collections'[n].values = v
      BY <1>0, <2>6
    <3>3. \A z \in R : z \in columns /\ z.table = t /\ z.id \in Nat \ {0} /\ z.id <= serial
      BY <2>3 DEF Of, Numbered, Start1, Start0, TypeOK, ColumnRows
    <3>4. \A p \in P : p.id \in Nat /\ p.id <= serial
      BY <1>0, <2>2, <2>3 DEF OwnIn, ColumnFields
    <3>5. serial \in Nat /\ x \in P
      BY DEF Start1, Start0, TypeOK
    <3>6. Unmixed(R2, P \ {x}) /\ Placed(R2, P \ {x}, renames, n, v, filled) /\ Clear(R2, P \ {x}, renames, n, v)
      <4>1. CASE x.id = 0
        <5>. DEFINE new == [id |-> serial + 1, table |-> t, name |-> x.name]
        <5>1. columns' = columns \cup {new}
          BY <2>1, <4>1 DEF Write
        <5>2. R2 = R \cup {new}
          BY <5>1 DEF Of
        <5>3. new \in ColumnRows /\ new.name = x.name /\ new.id = serial + 1
          BY <1>0, <2>2, <3>5 DEF ColumnRows
        <5>4. new.id \notin filled
          <6>1. \A i \in filled : i <= serial /\ i \in Nat
            BY DEF Start1, Start0, Stored, Tidy, TypeOK
          <6>. QED BY <3>5, <5>3, <6>1
        <5>. HIDE DEF new, R, P, v, n, R2
        <5>5. (\A z \in R : z.id /= new.id) /\ (\A p \in P : p.id /= new.id)
          BY <3>3, <3>4, <3>5, <5>3
        <5>. QED BY <3>1, <3>5, <4>1, <5>2, <5>3, <5>4, <5>5, WriteNew
      <4>2. CASE x.id /= 0
        <5>1. columns' = {Named(y, x) : y \in columns}
          BY <2>1, <4>2 DEF Write, Named
        <5>2. ASSUME NEW y \in columns PROVE Named(y, x).table = y.table
          BY DEF Named, Start1, Start0, TypeOK, ColumnRows
        <5>3. \A w \in R2 : \E z \in R : w = Named(z, x)
          BY <5>1, <5>2 DEF Of
        <5>4. \A z \in R : Named(z, x) \in R2
          BY <5>1, <5>2 DEF Of
        <5>. HIDE DEF R, P, v, n, R2
        <5>. QED BY <3>1, <3>5, <4>2, <5>3, <5>4, WriteOld
      <4>. QED BY <4>1, <4>2
    <3>. HIDE DEF R, P, v, n, R2
    <3>7. renames' = renames /\ filled' = filled
      BY <1>0
    <3>. QED BY <3>2, <3>6, <3>7 DEF Kept
  <2>11. \A d \in Calls : Drops(d)'
    BY <2>7, DropsStay DEF Start1, Start0
  <2>12. Untangled(renames')
    BY <1>0 DEF Stored, Start1
  <2>. QED BY <1>00, <2>5, <2>9, <2>10, <2>11, <2>12 DEF Stored
<1>. QED BY <1>1, <1>2, ColumnTaken DEF Start1, Start0

\* A handler that updates a table is at its collection.
LEMMA AtTable ==
  ASSUME NEW c \in Calls, Start1(c), call[c].pc \in {"drop", "fields"}
  PROVE /\ call[c] \in Handlers /\ Sensible(call[c]) /\ call[c].table \in Live
        /\ tables[call[c].table] = call[c].old /\ call[c].old \in Names
        /\ \A u \in Live : u /= call[c].table => tables[u] /= call[c].old
        /\ collections[call[c].old].there
<1>1. call[c] \in Handlers /\ Sensible(call[c])
  BY AtWork, PlaceNames DEF Start1, Start0, TypeOK
<1>2. call[c].op = "update" /\ call[c].old \in Names
  BY <1>1 DEF Sensible, Creating, Updating, Starting
<1>3. Building(c) /\ Knows(c) /\ Distinct
  BY DEF Building, Creating, Updating, Start1, Start0, Base
<1>4. /\ call[c].table \in Live /\ tables[call[c].table] = call[c].old
      /\ collections[call[c].old].there
  BY <1>2, <1>3 DEF Knows
<1>. QED BY <1>1, <1>2, <1>3, <1>4 DEF Distinct

LEMMA DocsValues ==
  ASSUME TypeOK, NEW n \in Names, NEW v \in SUBSET Values, Docs(n, v)
  PROVE /\ collections'[n].values = v /\ (collections'[n].there <=> collections[n].there)
        /\ \A m \in Names \ {n} : collections'[m] = collections[m]
<1>. DEFINE x == [collections[n] EXCEPT !.values = v]
<1>1. x \in Collections /\ Alike(collections[n], x)
  BY ValuesTyped DEF TypeOK
<1>2. x.values = v
  BY DEF TypeOK, Collections
<1>3. collections' = [collections EXCEPT ![n] = x]
  BY DEF Docs
<1>. HIDE DEF x
<1>. QED BY <1>1, <1>2, <1>3, Replaced DEF Alike

LEMMA DropColumnStored ==
  ASSUME NEW c \in Calls, Start1(c), DropColumn(c), "crossed" \notin history' PROVE Stored'
<1>0. /\ call[c].pc = "drop" /\ UNCHANGED <<tables, relations, renames, serial>>
      /\ renames = {} /\ Live' = Live
  BY DEF DropColumn, Meeting, Live
<1>1. PICK t \in Live : t = call[c].table
  BY <1>0, AtTable
<1>2. /\ call[c] \in Handlers /\ Sensible(call[c]) /\ t \in Ids
      /\ tables[t] = call[c].old /\ tables[t] \in Names
      /\ \A u \in Live : u /= t => tables[u] /= tables[t]
      /\ collections[tables[t]].there
  BY <1>0, <1>1, AtTable DEF Live
<1>. DEFINE R == Of(t, columns)
            n == tables[t]
            vals == collections[n].values
<1>3. PICK x \in call[c].todo :
        /\ collections' = [collections EXCEPT ![n].values = Unset(vals, x.name)]
        /\ columns' = {y \in columns : y.id /= x.id}
        /\ filled' = filled \ {x.id}
        /\ call' = [call EXCEPT ![c].todo = @ \ {x}]
  <2>. DEFINE x == CHOOSE x \in call[c].todo : TRUE
  <2>1. x \in call[c].todo
    BY DEF DropColumn
  <2>2. /\ collections' = [collections EXCEPT ![call[c].old].values = Unset(@, x.name)]
        /\ columns' = {y \in columns : y.id /= x.id}
        /\ filled' = filled \ {x.id}
        /\ call' = [call EXCEPT ![c].todo = @ \ {x}]
    BY Zenon DEF DropColumn
  <2>. HIDE DEF x
  <2>. QED BY <1>2, <2>1, <2>2
<1>4. /\ Went(c, "drop") /\ KeepsTable(c)
      /\ call'[c].todo = call[c].todo \ {x} /\ call'[c].seen = call[c].seen
  <2>. DEFINE todo == call[c].todo \ {x}
  <2>1. todo \in SUBSET call[c].todo /\ call' = [call EXCEPT ![c].todo = todo]
    BY <1>3
  <2>2. CallsOK
    BY DEF Start1, Start0, TypeOK
  <2>. HIDE DEF todo
  <2>3. Went(c, call[c].pc) /\ KeepsTable(c) /\ call'[c].todo = todo /\ call'[c].seen = call[c].seen
    BY <1>0, <2>1, <2>2, TodoWent
  <2>. QED BY <1>0, <2>3 DEF todo
<1>5. /\ call[c].todo = {z \in R : \A y \in call[c].cols : y.id /= z.id}
      /\ R \subseteq call[c].seen
      /\ \A s \in call[c].seen : s \in R \/ \A y \in call[c].cols : y.id /= s.id
  BY <1>0, <1>1 DEF Start1, Stored, Drops, LeftOut
<1>6. x \in R /\ \A z \in columns : z.id = x.id => z = x
  BY <1>5 DEF Start1, Start0, OwnRows, Numbered, Of
<1>7. vals \in SUBSET Values /\ Unset(vals, x.name) \in SUBSET Values
  BY <1>2 DEF Start1, Start0, TypeOK, Collections, Unset
<1>8. /\ collections'[n].values = Unset(vals, x.name) /\ (collections'[n].there <=> collections[n].there)
      /\ \A m \in Names \ {n} : collections'[m] = collections[m]
  <2>. HIDE DEF n, vals
  <2>. QED BY <1>2, <1>3, <1>7, DocsValues DEF Docs, Start1, Start0, n
<1>9. Pending(t) = {} /\ Pending(t)' = {}
  BY <1>0, <1>2, <1>4, NoLists DEF Went
<1>10. Kept(t)'
  <2>1. Kinds(R, {}) /\ Unmixed(R, {}) /\ Placed(R, {}, {}, n, vals, filled)
    BY <1>0, <1>2, <1>9 DEF Start1, Stored, Kept
  <2>. DEFINE R2 == {z \in R : z.id /= x.id}
  <2>2. Of(t, columns') = R2
    BY <1>3 DEF Of
  <2>. HIDE DEF R, vals, n
  <2>3. Unmixed(R2, {}) /\ Placed(R2, {}, {}, n, Unset(vals, x.name), filled \ {x.id})
    BY <1>6, <1>7, <2>1, DropPlaced
  <2>. HIDE DEF R2
  <2>4. Clear(R2, {}, {}, n, Unset(vals, x.name))
    BY DEF Clear
  <2>5. tables'[t] = n /\ renames' = {} /\ filled' = filled \ {x.id}
    BY <1>0, <1>3 DEF n
  <2>. QED BY <1>8, <1>9, <2>2, <2>3, <2>4, <2>5 DEF Kept
<1>11. ASSUME NEW u \in Live, u /= t PROVE Kept(u)'
  <2>1. collections'[tables[u]].values = collections[tables[u]].values
    <3>1. tables[u] \in Names /\ tables[u] /= n
      BY <1>2, <1>11 DEF Start1, Start0, TypeOK, Live
    <3>. QED BY <1>8, <3>1
  <2>2. \A z \in Of(u, columns) : z.id \in filled' <=> z.id \in filled
    BY <1>3, <1>6, <1>11 DEF Of
  <2>3. OthersKeep(columns, columns', t)
    BY <1>1, ColumnDropped DEF Start1, Start0
  <2>4. call[c].pc /= "columns" /\ call'[c].pc /= "columns"
    BY <1>0, <1>4 DEF Went
  <2>. QED BY <1>0, <1>11, <2>1, <2>2, <2>3, <2>4, OthersKept
<1>12. Tidy'
  <2>1. \A m \in Names : ~collections'[m].there => collections'[m].values = {}
    BY <1>2, <1>8 DEF Start1, Stored, Tidy
  <2>2. columns' \subseteq columns /\ filled' \subseteq filled
    BY <1>3
  <2>. QED BY <1>0, <1>4, <2>1, <2>2, BodiesStay, TidyLess DEF Start1, Stored
<1>13. Drops(c)'
  <2>1. Of(t, columns') = {z \in R : z.id /= x.id}
    BY <1>3 DEF Of
  <2>2. \A z \in R : z.id = x.id => z = x
    BY <1>6 DEF Of
  <2>3. call'[c].cols = call[c].cols /\ call'[c].table = t
    BY <1>1, <1>4 DEF Went, Same, KeepsTable
  <2>4. call'[c].todo = {z \in Of(t, columns') : \A y \in call'[c].cols : y.id /= z.id}
    BY <1>4, <1>5, <2>1, <2>2, <2>3
  <2>5. Of(t, columns') \subseteq call'[c].seen
    BY <1>4, <1>5, <2>1
  <2>6. \A s \in call'[c].seen : s \in Of(t, columns') \/ \A y \in call'[c].cols : y.id /= s.id
    <3>1. \A y \in call[c].cols : y.id /= x.id
      BY <1>5
    <3>. QED BY <1>4, <1>5, <2>1, <2>3, <3>1
  <2>. QED BY <2>3, <2>4, <2>5, <2>6 DEF Drops, LeftOut
<1>14. \A d \in Calls : Drops(d)'
  BY <1>13, DropsStay DEF Start1, Start0
<1>15. Untangled(renames')
  BY <1>0 DEF Untangled
<1>. QED BY <1>0, <1>10, <1>11, <1>12, <1>14, <1>15 DEF Stored

LEMMA RenameStored ==
  ASSUME NEW c \in Calls, Start1(c), Rename(c), "crossed" \notin history' PROVE Stored'
<1>. DEFINE pairs == {q \in call[c].seen \X call[c].cols : q[1].id = q[2].id /\ q[1].name /= q[2].name}
            new == {[collection |-> call[c].old, from |-> p[1].name, to |-> p[2].name] : p \in pairs}
            passed == \E r \in new : \E y \in call[c].cols : y.name = r.from
<1>0. /\ call[c].pc = "drop" /\ call[c].todo = {}
      /\ UNCHANGED <<tables, columns, relations, collections, filled, serial>>
  BY DEF Rename, rows
<1>1. /\ renames' = renames \cup new
      /\ history' = IF passed THEN history \cup {"crossed"} ELSE Meeting
  BY Zenon DEF Rename
<1>2. renames = {} /\ ~passed
  <2>. HIDE DEF new, passed
  <2>. QED BY <1>1 DEF Meeting
<1>3. renames' = new
  <2>. HIDE DEF new
  <2>. QED BY <1>1, <1>2
<1>4. PICK t \in Live : t = call[c].table
  BY <1>0, AtTable
<1>5. /\ call[c] \in Handlers /\ t \in Ids
      /\ tables[t] = call[c].old /\ tables[t] \in Names
      /\ \A u \in Live : u /= t => tables[u] /= tables[t]
  BY <1>0, <1>4, AtTable DEF Live
<1>. DEFINE R == Of(t, columns)
            cols == call[c].cols
            seen == call[c].seen
            n == tables[t]
            vals == collections[n].values
<1>6. Went(c, "columns") /\ KeepsTable(c) /\ call'[c].todo = cols
  BY RenameWent DEF Start1, Start0
<1>7. /\ \A z \in R : \E y \in cols : y.id = z.id
      /\ R \subseteq seen
      /\ \A s \in seen : s \in R \/ \A y \in cols : y.id /= s.id
  <2>1. /\ call[c].todo = {z \in R : \A y \in cols : y.id /= z.id}
        /\ R \subseteq seen
        /\ \A s \in seen : s \in R \/ \A y \in cols : y.id /= s.id
    BY <1>0, <1>4 DEF Start1, Stored, Drops, LeftOut
  <2>. QED BY <1>0, <2>1
<1>8. Pending(t) = {} /\ Pending(t)' = cols
  BY <1>0, <1>4, <1>6, PendingIs DEF Start1, Start0, Went, KeepsTable
<1>9. Kinds(R, cols)
  <2>1. Kinds(R, {})
    BY <1>5, <1>8 DEF Start1
  <2>2. cols \in SUBSET ColumnFields /\ Unique(cols)
    BY <1>5 DEF Handlers, Start1, Stored, Tidy, UniqueBody
  <2>. HIDE DEF R, cols
  <2>. QED BY <2>1, <2>2 DEF Kinds
<1>10. seen \subseteq ColumnRows /\ new \in SUBSET Renames
  <2>1. seen \subseteq ColumnRows /\ cols \subseteq ColumnFields /\ call[c].old \in Names
    BY <1>5 DEF Handlers
  <2>2. ASSUME NEW p \in pairs PROVE p[1].name \in ColumnNames /\ p[2].name \in ColumnNames
    BY <2>1 DEF ColumnRows, ColumnFields
  <2>. HIDE DEF pairs
  <2>. QED BY <2>1, <2>2 DEF Renames
<1>11. \A r \in new : \E x \in R, y \in cols :
           /\ x.id = y.id /\ x.name /= y.name
           /\ r.collection = n /\ r.from = x.name /\ r.to = y.name
  <2>1. ASSUME NEW r \in new
        PROVE \E x \in R, y \in cols :
                /\ x.id = y.id /\ x.name /= y.name
                /\ r.collection = n /\ r.from = x.name /\ r.to = y.name
    <3>1. PICK p \in pairs : r = [collection |-> call[c].old, from |-> p[1].name, to |-> p[2].name]
      OBVIOUS
    <3>2. p[1] \in seen /\ p[2] \in cols /\ p[1].id = p[2].id /\ p[1].name /= p[2].name
      OBVIOUS
    <3>3. p[1] \in R
      BY <1>7, <3>2
    <3>4. r.collection = n /\ r.from = p[1].name /\ r.to = p[2].name
      BY <1>5, <3>1
    <3>. QED BY <3>2, <3>3, <3>4
  <2>. QED BY <2>1
<1>12. \A x \in R, y \in cols : x.id = y.id /\ x.name /= y.name =>
           \E r \in new : r.collection = n /\ r.from = x.name /\ r.to = y.name
  <2>1. ASSUME NEW x \in R, NEW y \in cols, x.id = y.id, x.name /= y.name
        PROVE \E r \in new : r.collection = n /\ r.from = x.name /\ r.to = y.name
    <3>. DEFINE p == <<x, y>>
                r == [collection |-> call[c].old, from |-> p[1].name, to |-> p[2].name]
    <3>1. p \in pairs
      BY <1>7, <2>1
    <3>2. r \in new
      BY <3>1
    <3>3. r.collection = n /\ r.from = x.name /\ r.to = y.name
      BY <1>5
    <3>. QED BY <3>2, <3>3
  <2>. QED BY <2>1
<1>13. \A r \in new, y \in cols : y.name /= r.from
  BY <1>2
<1>. HIDE DEF pairs, passed, new
<1>14. /\ Untangled(new) /\ Unmixed(R, cols)
       /\ Placed(R, cols, new, n, vals, filled)
       /\ Clear(R, cols, new, n, vals)
  <2>1. Unmixed(R, {}) /\ Placed(R, {}, {}, n, vals, filled)
    BY <1>2, <1>8 DEF Start1, Stored, Kept
  <2>. HIDE DEF R, cols, seen, n, vals
  <2>2. n \in Names
    BY <1>5 DEF n
  <2>. QED BY <1>7, <1>9, <1>10, <1>11, <1>12, <1>13, <2>1, <2>2, RenameStarts
<1>15. Kept(t)'
  <2>1. /\ Of(t, columns') = R /\ Pending(t)' = cols /\ tables'[t] = n
        /\ collections'[n].values = vals /\ renames' = new /\ filled' = filled
    BY <1>0, <1>3, <1>8
  <2>. HIDE DEF R, cols, seen, n, vals
  <2>. QED BY <1>14, <2>1 DEF Kept
<1>16. Live' = Live
  BY <1>0 DEF Live
<1>17. ASSUME NEW u \in Live, u /= t PROVE Kept(u)'
  <2>1. \A r \in renames' : r.collection /= tables[u]
    BY <1>3, <1>5, <1>11, <1>17
  <2>2. \A a : Spot(a, renames', tables[u]) = Spot(a, renames, tables[u])
    BY <1>2, <2>1 DEF Spot
  <2>3. OthersKeep(columns, columns', t)
    BY <1>0, SameRows
  <2>4. call[c].pc /= "columns" /\ call'[c].table = t
    BY <1>0, <1>4, <1>6 DEF KeepsTable
  <2>5. UNCHANGED <<tables, collections, filled>>
    BY <1>0
  <2>. QED BY <1>17, <2>1, <2>2, <2>3, <2>4, <2>5, OthersKept
<1>18. Tidy'
  BY <1>0, <1>6, BodiesStay, TidyLess DEF Start1, Stored, Tidy
<1>19. Drops(c)'
  BY <1>6 DEF Drops, Went
<1>20. \A d \in Calls : Drops(d)'
  BY <1>19, DropsStay DEF Start1, Start0
<1>21. Untangled(renames')
  BY <1>3, <1>14
<1>. QED BY <1>15, <1>16, <1>17, <1>18, <1>20, <1>21 DEF Stored

LEMMA DropFieldsStored == ASSUME NEW c \in Calls, Start1(c), DropFields(c) PROVE Stored'
<1>0. call[c].pc = "fields" /\ UNCHANGED <<tables, columns, renames, serial>> /\ Live' = Live
  BY DEF DropFields, counted, Live
<1>1. /\ Went(c, "schema") \/ Went(c, "relations")
      /\ relations' = relations \/ relations' = relations \ LeftRelations(c)
  BY DropFieldsTyped DEF Start1, Start0
<1>2. Drops(c)' /\ call'[c].pc /= "columns"
  BY <1>1 DEF Drops, Went
<1>3. \A u \in Ids : Pending(u) = {} /\ Pending(u)' = Pending(u)
  BY <1>0, <1>2, NoLists
<1>4. CASE "relations" \notin call[c].given
  <2>1. collections' = collections /\ filled' = filled
    BY <1>4 DEF DropFields
  <2>2. Tidy'
    BY <1>0, <1>1, <2>1, BodiesStay, TidyLess DEF Start1, Stored, Tidy
  <2>. QED BY <1>0, <1>2, <1>3, <2>1, <2>2, ElsewhereStored
<1>5. CASE "relations" \in call[c].given
  <2>0. PICK t \in Live : t = call[c].table
    BY <1>0, AtTable
  <2>1. /\ call[c] \in Handlers /\ t \in Ids
        /\ tables[t] = call[c].old /\ tables[t] \in Names
        /\ \A u \in Live : u /= t => tables[u] /= tables[t]
        /\ collections[tables[t]].there
    BY <1>0, <2>0, AtTable DEF Live
  <2>. DEFINE fields == NamesOf(call[c].rels) \cup NamesOf(LeftRelations(c))
              n == tables[t]
              vals == collections[n].values
              kept == {v \in vals : v.field \notin fields}
              lost == {x.id : x \in LeftRelations(c)}
              R == Of(t, columns)
  <2>2. /\ collections' = [collections EXCEPT ![n].values = kept]
        /\ filled' = filled \ lost
    <3>1. /\ collections' = [collections EXCEPT ![call[c].old].values = {v \in @ : v.field \notin fields}]
          /\ filled' = filled \ lost
      BY <1>5, Zenon DEF DropFields, LeftRelations
    <3>. HIDE DEF fields
    <3>. QED BY <2>1, <3>1
  <2>3. \A f \in fields : f = RelationName
    BY <2>1 DEF Handlers, RelationFields, NamesOf, LeftRelations, Of, Start1, Start0, TypeOK, RelationRows
  <2>4. \A x \in columns : x.id \notin lost
    BY DEF LeftRelations, Of, Start1, Stored, Tidy
  <2>. HIDE DEF fields, lost
  <2>5. kept \in SUBSET Values
    BY <2>1 DEF Start1, Start0, TypeOK, Collections
  <2>6. /\ collections'[n].values = kept /\ (collections'[n].there <=> collections[n].there)
        /\ \A m \in Names \ {n} : collections'[m] = collections[m]
    <3>. HIDE DEF kept, n
    <3>. QED BY <2>1, <2>2, <2>5, DocsValues DEF Docs, Start1, Start0, n
  <2>7. Kept(t)'
    <3>1. /\ Kinds(R, {}) /\ Unmixed(R, {})
          /\ Placed(R, {}, renames, n, vals, filled) /\ Clear(R, {}, renames, n, vals)
      BY <1>3, <2>1 DEF Start1, Stored, Kept
    <3>2. Clear(R, {}, renames, n, kept)
      <4>1. kept /= {} => vals /= {}
        OBVIOUS
      <4>. HIDE DEF kept, vals, n, R
      <4>. QED BY <3>1, <4>1 DEF Clear
    <3>3. \A x \in R : x.id \notin lost
      BY <2>4 DEF Of
    <3>4. renames \in SUBSET Renames /\ Untangled(renames)
      BY DEF Start1, Start0, TypeOK, Stored
    <3>5. Placed(R, {}, renames, n, kept, filled \ lost)
      <4>1. kept \in SUBSET vals /\ \A v \in vals : v.field \notin fields => v \in kept
        OBVIOUS
      <4>. HIDE DEF kept, vals, n, R
      <4>. QED BY <2>3, <3>1, <3>3, <3>4, <4>1, FieldsGone
    <3>6. /\ Of(t, columns') = R /\ Pending(t)' = {} /\ tables'[t] = n
          /\ renames' = renames /\ filled' = filled \ lost
      BY <1>0, <1>3, <2>1, <2>2
    <3>. HIDE DEF kept, vals, n, R
    <3>. QED BY <2>6, <3>1, <3>2, <3>5, <3>6 DEF Kept
  <2>8. ASSUME NEW u \in Live, u /= t PROVE Kept(u)'
    <3>1. collections'[tables[u]].values = collections[tables[u]].values
      <4>1. tables[u] \in Names /\ tables[u] /= n
        BY <2>1, <2>8 DEF Start1, Start0, TypeOK, Live
      <4>. QED BY <2>6, <4>1
    <3>2. \A x \in Of(u, columns) : x.id \in filled' <=> x.id \in filled
      BY <2>2, <2>4 DEF Of
    <3>3. OthersKeep(columns, columns', t)
      BY <1>0, SameRows
    <3>4. call[c].pc /= "columns"
      BY <1>0
    <3>. QED BY <1>0, <1>2, <2>8, <3>1, <3>2, <3>3, <3>4, OthersKept
  <2>9. Tidy'
    <3>1. \A m \in Names : ~collections'[m].there => collections'[m].values = {}
      BY <2>1, <2>6 DEF Start1, Stored, Tidy
    <3>2. filled' \subseteq filled /\ relations' \subseteq relations /\ columns' \subseteq columns
      BY <1>0, <1>1, <2>2
    <3>. QED BY <1>0, <1>1, <3>1, <3>2, BodiesStay, TidyLess DEF Start1, Stored
  <2>10. \A d \in Calls : Drops(d)'
    BY <1>2, DropsStay DEF Start1, Start0
  <2>11. Untangled(renames')
    BY <1>0 DEF Start1, Stored
  <2>. QED BY <1>0, <2>7, <2>8, <2>9, <2>10, <2>11 DEF Stored
<1>. QED BY <1>4, <1>5

\* Steps of the background and of clients: the handlers stay where they are,
\* and the documents of one collection change at most.
LEMMA DocsStored ==
  ASSUME TypeOK, Stored, UNCHANGED <<tables, columns, relations, call, serial>>,
         NEW n \in Names, NEW v \in SUBSET Values, collections[n].there \/ v = {},
         collections'[n].values = v /\ (collections'[n].there <=> collections[n].there),
         \A m \in Names \ {n} : collections'[m] = collections[m],
         \A i \in filled' : i <= serial,
         Untangled(renames'), \A t \in Live : Kept(t)'
  PROVE Stored'
<1>1. Live' = Live
  BY DEF Live
<1>2. Tidy'
  <2>1. \A c \in Calls : UniqueBody(c)'
    BY DEF Stored, Tidy, UniqueBody
  <2>2. \A m \in Names : ~collections'[m].there => collections'[m].values = {}
    BY DEF Stored, Tidy
  <2>3. (\A x \in columns', y \in relations' : x.id /= y.id) /\ (\A i \in filled' : i <= serial')
    BY DEF Stored, Tidy
  <2>. QED BY <2>1, <2>2, <2>3 DEF Tidy
<1>3. \A c \in Calls : Drops(c)'
  BY DEF Stored, Drops, LeftOut
<1>. QED BY <1>1, <1>2, <1>3 DEF Stored

LEMMA RenameFieldStored ==
  ASSUME TypeOK, IInv, OwnRows, Stored, Spared(Handed), NEW r \in renames, RenameField(r) PROVE Stored'
<1>. DEFINE n == r.collection
            vals == collections[n].values
            rest == renames \ {r}
<1>0. /\ UNCHANGED <<tables, columns, relations, call, serial, filled>>
      /\ renames' = rest
  BY DEF RenameField, rows, counted
<1>1. n \in Names /\ r \in Renames /\ renames \in SUBSET Renames /\ rest \in SUBSET Renames
  BY DEF TypeOK, Renames
<1>2. vals \in SUBSET Values
  BY <1>1 DEF TypeOK, Collections
<1>3. /\ collections'[n].values = Moved(vals, r) /\ (collections'[n].there <=> collections[n].there)
      /\ \A m \in Names \ {n} : collections'[m] = collections[m]
      /\ Moved(vals, r) \in SUBSET Values
  <2>. DEFINE old == {v \in vals : v.field = r.from}
              gone == {v \in vals : v.field \in {r.from, r.to}}
              moved == {[v EXCEPT !.field = r.to] : v \in old}
  <2>1. CASE old = {}
    <3>1. collections' = collections
      BY <2>1, Zenon DEF RenameField
    <3>2. Moved(vals, r) = vals
      BY <2>1 DEF Moved
    <3>. QED BY <1>2, <3>1, <3>2
  <2>2. CASE old /= {}
    <3>1. collections' = [collections EXCEPT ![r.collection].values =
                  (@ \ {v \in @ : v.field \in {r.from, r.to}}) \cup {[v EXCEPT !.field = r.to] : v \in old}]
      BY <2>2, Zenon DEF RenameField
    <3>2. Docs(n, (vals \ gone) \cup moved)
      BY <3>1 DEF Docs
    <3>3. Moved(vals, r) = (vals \ gone) \cup moved
      BY <2>2 DEF Moved
    <3>4. \A w \in moved : w \in Values
      <4>1. ASSUME NEW v \in old PROVE [v EXCEPT !.field = r.to] \in Values
        <5>1. v \in Values /\ r.to \in ColumnNames
          BY <1>1, <1>2 DEF Renames
        <5>. QED BY <5>1 DEF Values
      <4>. HIDE DEF old
      <4>. QED BY <4>1
    <3>. HIDE DEF vals, gone, moved, n
    <3>5. (vals \ gone) \cup moved \in SUBSET Values
      BY <1>2, <3>4
    <3>. QED BY <1>1, <3>2, <3>3, <3>5, DocsValues
  <2>. QED BY <2>1, <2>2
<1>4. vals = {} => Moved(vals, r) = {}
  BY DEF Moved
<1>5. collections[n].there \/ Moved(vals, r) = {}
  BY <1>1, <1>4 DEF Stored, Tidy
<1>6. Untangled(renames) /\ Untangled(rest)
  BY DEF Stored, Untangled
<1>7. ASSUME NEW t \in Live PROVE Kept(t)'
  <2>. DEFINE R == Of(t, columns)
              P == Pending(t)
  <2>1. Kinds(R, P)
    BY KindsNow DEF Stored
  <2>2. Pending(t)' = P
    BY <1>0, PendingSame
  <2>3. /\ Unmixed(R, P)
        /\ Placed(R, P, renames, tables[t], collections[tables[t]].values, filled)
        /\ Clear(R, P, renames, tables[t], collections[tables[t]].values)
    BY DEF Stored, Kept
  <2>4. tables[t] \in Names /\ Of(t, columns') = R /\ tables'[t] = tables[t]
    BY <1>0 DEF Live, TypeOK
  <2>. HIDE DEF R, P, vals, n, rest
  <2>5. CASE tables[t] = n
    <3>1. Placed(R, P, renames, n, vals, filled) /\ Clear(R, P, renames, n, vals)
      BY <2>3, <2>5 DEF vals
    <3>2. Placed(R, P, renames \ {r}, n, Moved(vals, r), filled)
      <4>1. r.collection = n
        BY DEF n
      <4>. QED BY <1>1, <1>2, <1>6, <2>1, <3>1, <4>1, MoveField
    <3>3. Clear(R, P, renames \ {r}, n, Moved(vals, r))
      BY <1>4, <3>1 DEF Clear
    <3>4. Kept(t)' <=> /\ Unmixed(R, P) /\ Placed(R, P, renames \ {r}, n, Moved(vals, r), filled)
                       /\ Clear(R, P, renames \ {r}, n, Moved(vals, r))
      BY <1>0, <1>3, <2>2, <2>4, <2>5 DEF Kept, rest
    <3>. QED BY <2>3, <3>2, <3>3, <3>4
  <2>6. CASE tables[t] /= n
    <3>. DEFINE m == tables[t]
                mine == collections[m].values
    <3>0. collections'[m].values = mine
      BY <1>3, <2>4, <2>6
    <3>. HIDE DEF m, mine
    <3>1. Placed(R, P, renames, m, mine, filled) /\ Clear(R, P, renames, m, mine)
      BY <2>3 DEF m, mine
    <3>2. Placed(R, P, renames \ {r}, m, mine, filled)
      <4>1. r.collection /= m
        BY <2>6 DEF m, n
      <4>. QED BY <1>1, <1>6, <2>1, <3>1, <4>1, MoveOther
    <3>3. Clear(R, P, renames \ {r}, m, mine)
      BY <3>1 DEF Clear
    <3>4. Kept(t)' <=> /\ Unmixed(R, P) /\ Placed(R, P, renames \ {r}, m, mine, filled)
                       /\ Clear(R, P, renames \ {r}, m, mine)
      BY <1>0, <2>2, <2>4, <3>0 DEF Kept, rest, m
    <3>. QED BY <2>3, <3>2, <3>3, <3>4
  <2>. QED BY <2>5, <2>6
<1>8. \A i \in filled' : i <= serial
  BY <1>0 DEF Stored, Tidy
<1>. DEFINE now == Moved(vals, r)
<1>. HIDE DEF n, vals, rest, now
<1>9. /\ now \in SUBSET Values /\ (collections[n].there \/ now = {})
      /\ collections'[n].values = now /\ (collections'[n].there <=> collections[n].there)
  BY <1>3, <1>5 DEF now
<1>. QED BY <1>0, <1>1, <1>3, <1>6, <1>7, <1>8, <1>9, DocsStored

LEMMA FillStored ==
  ASSUME TypeOK, IInv, OwnRows, Distinct, Stored, Spared(Handed), NEW t \in Ids, Fill(t),
         "early" \notin history'
  PROVE Stored'
<1>. DEFINE n == tables[t]
            vals == collections[n].values
            R == Of(t, columns)
            S == Of(t, relations)
            fields == R \cup S
            new == {[field |-> x.name, of |-> x.id] : x \in fields}
            now == {v \in vals : v.field \notin NamesOf(fields)} \cup new
            ids == {x.id : x \in fields}
<1>1. /\ t \in Live /\ \A c \in Calls : ~Working(c)
      /\ collections[n].there
      /\ collections' = [collections EXCEPT ![n].values =
          {v \in @ : v.field \notin NamesOf(fields)} \cup {[field |-> x.name, of |-> x.id] : x \in fields}]
      /\ filled' = filled \cup ids
      /\ renames = {} /\ renames' = {}
      /\ UNCHANGED <<tables, columns, relations, call, serial>>
  BY Zenon DEF Fill, rows
<1>2. n \in Names /\ R \in SUBSET ColumnRows /\ S \in SUBSET RelationRows
  BY <1>1 DEF Live, TypeOK, Of
<1>3. vals \in SUBSET Values
  BY <1>2 DEF TypeOK, Collections
<1>4. \A u : Pending(u) = {} /\ Pending(u)' = {}
  <2>1. \A c \in Calls : call[c].pc /= "columns"
    BY <1>1 DEF Working
  <2>. QED BY <1>1, <2>1 DEF Pending
<1>5. Kinds(R, {}) /\ Unmixed(R, {}) /\ Placed(R, {}, {}, n, vals, filled)
  <2>1. Kinds(R, {})
    BY <1>4, KindsNow DEF Stored
  <2>2. Kept(t)
    BY <1>1 DEF Stored
  <2>. QED BY <1>1, <1>4, <2>1, <2>2 DEF Kept
<1>6. now \in SUBSET Values
  <2>1. ASSUME NEW x \in fields PROVE [field |-> x.name, of |-> x.id] \in Values
    BY <1>2 DEF Values, ColumnRows, RelationRows
  <2>. HIDE DEF fields, vals
  <2>. QED BY <1>3, <2>1
<1>7. Docs(n, now)
  BY <1>1 DEF Docs
<1>8. /\ collections'[n].values = now /\ (collections'[n].there <=> collections[n].there)
      /\ \A m \in Names \ {n} : collections'[m] = collections[m]
  <2>. HIDE DEF now, n
  <2>. QED BY <1>2, <1>6, <1>7, DocsValues
<1>9. Placed(R, {}, {}, n, now, filled \cup ids)
  <2>. DEFINE kept == {v \in vals : v.field \notin NamesOf(fields)}
  <2>1. kept \in SUBSET vals /\ \A v \in kept, x \in R : v.field /= x.name
    BY DEF NamesOf
  <2>2. \A v \in new : \E x \in R \cup S : v = [field |-> x.name, of |-> x.id]
    OBVIOUS
  <2>3. \A x \in R : x.id \in ids /\ [field |-> x.name, of |-> x.id] \in new
    OBVIOUS
  <2>4. now = kept \cup new
    OBVIOUS
  <2>. HIDE DEF kept, new, ids, now, R, S, vals, n
  <2>. QED BY <1>2, <1>5, <2>1, <2>2, <2>3, <2>4, FillIn
<1>10. Kept(t)'
  <2>1. Clear(R, {}, {}, n, now)
    BY DEF Clear
  <2>2. Of(t, columns') = R /\ tables'[t] = n
    BY <1>1
  <2>. HIDE DEF n, R, now, ids
  <2>. QED BY <1>1, <1>4, <1>5, <1>8, <1>9, <2>1, <2>2 DEF Kept
<1>11. ASSUME NEW u \in Live, u /= t PROVE Kept(u)'
  <2>1. collections'[tables[u]].values = collections[tables[u]].values
    <3>1. tables[u] \in Names /\ tables[u] /= n
      BY <1>1, <1>11 DEF TypeOK, Live, Distinct
    <3>. QED BY <1>8, <3>1
  <2>2. \A x \in Of(u, columns) : x.id \notin ids
    <3>1. ASSUME NEW x \in Of(u, columns), NEW y \in fields, x.id = y.id PROVE FALSE
      <4>1. x \in columns /\ x.table = u /\ y.table = t
        BY DEF Of
      <4>2. y \notin relations
        BY <3>1, <4>1 DEF Stored, Tidy
      <4>3. y \in columns
        BY <4>2 DEF Of
      <4>4. x = y
        BY <3>1, <4>1, <4>3 DEF OwnRows, Numbered
      <4>. QED BY <1>11, <4>1, <4>4
    <3>. QED BY <3>1
  <2>. HIDE DEF n, R, now, ids
  <2>3. \A x \in Of(u, columns) : x.id \in filled' <=> x.id \in filled
    BY <1>1, <2>2
  <2>4. Kept(u)
    BY DEF Stored
  <2>5. renames' = renames /\ tables'[u] = tables[u] /\ Of(u, columns') = Of(u, columns) /\ Pending(u)' = Pending(u)
    BY <1>1, <1>4
  <2>. QED BY <2>1, <2>3, <2>4, <2>5, KeptSame
<1>12. \A i \in filled' : i <= serial
  <2>1. \A x \in fields : x.id <= serial
    BY DEF OwnRows, Numbered, Of
  <2>. HIDE DEF fields
  <2>. QED BY <1>1, <2>1 DEF Stored, Tidy
<1>13. Untangled(renames')
  BY <1>1 DEF Untangled
<1>. HIDE DEF n, R, now, ids, vals, fields, new
<1>. QED BY <1>1, <1>2, <1>6, <1>8, <1>10, <1>11, <1>12, <1>13, DocsStored

\* Steps that leave rows, documents and renamings alone, and no list begun or ended.
LEMMA AroundStored ==
  ASSUME TypeOK, Stored, UNCHANGED <<tables, columns, relations, collections, renames, filled, serial>>,
         \A d \in Calls : call'[d] = call[d] \/ (call[d].pc \in Empty /\ call'[d].pc \in Empty),
         \A d \in Calls : UniqueBody(d)'
  PROVE Stored'
<1>1. Live' = Live
  BY DEF Live
<1>2. Tidy'
  BY TidyLess DEF Stored, Tidy
<1>3. ASSUME NEW t \in Live PROVE Kept(t)'
  <2>1. Pending(t)' = Pending(t)
    BY PendingSame
  <2>2. Kept(t)
    BY DEF Stored
  <2>. QED BY <2>1, <2>2, KeptSame
<1>4. ASSUME NEW d \in Calls PROVE Drops(d)'
  <2>1. CASE call'[d] = call[d]
    BY <2>1 DEF Stored, Drops, LeftOut
  <2>2. CASE call'[d].pc \in Empty
    BY <2>2 DEF Drops, Empty
  <2>. QED BY <2>1, <2>2
<1>. QED BY <1>1, <1>2, <1>3, <1>4 DEF Stored

LEMMA AroundBodies ==
  ASSUME TypeOK, Tidy, NEW c \in Calls, Ask(c) \/ Acquire(c) \/ Release(c)
  PROVE \A d \in Calls : UniqueBody(d)'
<1>0. CallsOK
  BY DEF TypeOK
<1>1. CASE Ask(c)
  <2>1. Unique(call'[c].cols) /\ \A d \in Calls \ {c} : call'[d] = call[d]
    BY <1>1, AskTyped
  <2>2. ASSUME NEW d \in Calls PROVE UniqueBody(d)'
    <3>1. CASE d = c
      BY <2>1, <3>1 DEF UniqueBody
    <3>2. CASE d /= c
      BY <2>1, <3>2 DEF Tidy, UniqueBody
    <3>. QED BY <3>1, <3>2
  <2>. QED BY <2>2
<1>2. CASE Acquire(c)
  BY <1>0, <1>2, AcquireCalls, BodiesStay
<1>3. CASE Release(c)
  BY <1>0, <1>3, IdleLeft, BodiesStay DEF Release
<1>. QED BY <1>1, <1>2, <1>3

LEMMA ChangeStored ==
  ASSUME NEW c \in Calls, Start1(c), Change(c), Spared(Handed)' PROVE Stored'
<1>1. "renamed" \notin history' /\ "crossed" \notin history'
  BY DEF Spared, Handed
<1>. QED BY <1>1, LookCreateStored, InsertTableStored, WriteColumnStored, WriteRelationStored, InsertRouteStored,
       CreateCollectionStored, LookUpdateStored, DropColumnStored, RefuseDropStored, RenameStored, DropFieldsStored,
       UpdateCollectionStored, DeleteRoutesStored, DeleteRowsStored, DropCollectionStored DEF Change

LEMMA InitStored == Init => StoredInv
<1>. SUFFICES ASSUME Init PROVE Stored
  BY DEF StoredInv
<1>1. Live = {}
  BY DEF Init, Live
<1>2. \A c \in Calls : UniqueBody(c) /\ Drops(c)
  BY PlaceNames DEF Init, Idle, Handlers, UniqueBody, Drops
<1>3. \A n \in Names : collections[n].values = {}
  BY DEF Init, NoCollection
<1>4. columns = {} /\ filled = {} /\ renames = {}
  BY DEF Init
<1>. QED BY <1>1, <1>2, <1>3, <1>4 DEF Stored, Tidy, Untangled

LEMMA NextStored == TypeOK /\ TypeOK' /\ IInv /\ OwnRows /\ BaseInv /\ StoredInv /\ [Next]_vars => StoredInv'
<1>. SUFFICES ASSUME TypeOK, TypeOK', IInv, OwnRows, BaseInv, StoredInv, [Next]_vars, Spared(Handed)' PROVE Stored'
  BY DEF StoredInv
<1>0. /\ Spared(Handed) /\ Stored /\ Spared(Faults) /\ Spared(Faults)' /\ Base
      /\ "early" \notin history' /\ "stuck" \notin history'
  BY ExcusesGrow DEF Spared, BaseInv, StoredInv, Faults, Handed
<1>1. ASSUME NEW c \in Calls, Change(c) PROVE Stored'
  <2>1. Start0(c)
    BY <1>0, <1>1, ChangeBase
  <2>2. \A t \in Ids : Kinds(Of(t, columns), Pending(t))
    BY <1>0, KindsNow DEF Stored
  <2>. QED BY <1>0, <1>1, <2>1, <2>2, ChangeStored DEF Start1
<1>2. ASSUME NEW c \in Calls, Ask(c) \/ Acquire(c) \/ Release(c) PROVE Stored'
  <2>1. UNCHANGED <<tables, columns, relations, collections, renames, filled, serial>>
    BY <1>2 DEF Ask, Acquire, Release, rows, counted
  <2>2. \A d \in Calls : UniqueBody(d)'
    BY <1>0, <1>2, AroundBodies DEF Stored
  <2>. QED BY <1>0, <1>2, <2>1, <2>2, AroundCalm, AroundStored
<1>3. CASE UNCHANGED vars \/ \E c \in Calls : Refresh(c)
  <2>1. UNCHANGED <<tables, columns, relations, collections, renames, filled, serial, call>>
    BY <1>3 DEF vars, Refresh, rows, counted
  <2>2. \A d \in Calls : UniqueBody(d)'
    BY <1>0, <2>1 DEF Stored, Tidy, UniqueBody
  <2>. QED BY <1>0, <2>1, <2>2, AroundStored
<1>4. ASSUME NEW r \in renames, RenameField(r) PROVE Stored'
  BY <1>0, <1>4, RenameFieldStored
<1>7. ASSUME NEW r \in renames, RefuseRename(r) PROVE FALSE
  BY <1>0, <1>7 DEF RefuseRename
<1>5. ASSUME NEW t \in Ids, Fill(t) PROVE Stored'
  BY <1>0, <1>5, FillStored DEF Base
<1>6. CASE Lapse \/ (\E c \in Calls : Fail(c) \/ FailIndexes(c) \/ Die(c)) \/ (\E r \in renames : LoseRename(r))
  BY <1>0, <1>6, FaultStep
<1>. QED BY <1>1, <1>2, <1>3, <1>4, <1>5, <1>6, <1>7 DEF Next, Step

\* Once all is quiet, values are under the names of the rows.
LEMMA ValuesKeptHolds == TypeOK /\ IInv /\ OwnRows /\ StoredInv => ValuesKept
<1>. SUFFICES ASSUME TypeOK, IInv, OwnRows, StoredInv, Quiet, Spared(Handed), NEW x \in columns, x.table \in Live
              PROVE {v.of : v \in {v \in collections[tables[x.table]].values : v.field = x.name}}
                      = IF x.id \in filled THEN {x.id} ELSE {}
  BY DEF ValuesKept, Handed
<1>. DEFINE t == x.table
            R == Of(t, columns)
            vals == collections[tables[t]].values
<1>1. Stored /\ Kept(t)
  BY DEF StoredInv, Stored
<1>2. Pending(t) = {} /\ renames = {}
  <2>1. \A c \in Calls : call[c].pc /= "columns"
    BY DEF Quiet, Working
  <2>. QED BY <2>1, NothingPending DEF Quiet
<1>3. Kinds(R, {})
  BY <1>1, <1>2, KindsNow DEF Stored
<1>4. x \in R
  BY DEF Of
<1>5. Unmixed(R, {}) /\ Placed(R, {}, {}, tables[t], vals, filled)
  BY <1>1, <1>2 DEF Kept
<1>. HIDE DEF R, vals, t
<1>6. ASSUME NEW z \in R PROVE Aim(z, {}) = z.name /\ At(z, {}, {}, tables[t]) = z.name
  <2>1. z \in ColumnRows /\ Unique({}) /\ Untangled({})
    BY <1>3 DEF Kinds, Unique, Untangled
  <2>. QED BY <2>1, AimIs, SpotIs DEF At
<1>7. x.name \in ColumnNames
  BY <1>3, <1>4 DEF Kinds, ColumnRows
<1>8. ASSUME NEW v \in vals, v.field = x.name PROVE v.of = x.id /\ x.id \in filled
  <2>1. PICK z \in R : v.of = z.id /\ v.field = At(z, {}, {}, tables[t]) /\ z.id \in filled
    BY <1>5, <1>7, <1>8 DEF Placed
  <2>2. z = x
    BY <1>4, <1>5, <1>6, <1>8, <2>1 DEF Unmixed
  <2>. QED BY <2>1, <2>2
<1>9. ASSUME x.id \in filled PROVE \E v \in vals : v.field = x.name /\ v.of = x.id
  <2>1. [field |-> x.name, of |-> x.id] \in vals
    BY <1>4, <1>5, <1>6, <1>9 DEF Placed
  <2>. QED BY <2>1
<1>10. {v.of : v \in {v \in vals : v.field = x.name}} = IF x.id \in filled THEN {x.id} ELSE {}
  BY <1>8, <1>9
<1>. QED BY <1>10 DEF vals, t

\* updateTable() drops the fields of columns that are left out, renames those
\* of columns with a new name in the background ($rename), and unsets those of
\* relations, one query after the other. Once all is done each column that is
\* kept has its values, under its name, and no others, whatever was changed
\* before and in how many steps, also when a validator ended an update. Excused:
\* failures, locks that ran out, renamed tables, renamings that a validator
\* refused or that meet, and what is written before a renaming is done.
THEOREM ValuesAreKept == Spec => []ValuesKept
<1>. DEFINE J == TypeOK /\ IInv /\ OwnRows /\ BaseInv /\ StoredInv
<1>1. Init => J
  BY InitTyped, InitHolds, InitOwn, InitBase, InitStored
<1>2. J /\ [Next]_vars => J'
  BY NextTyped, NextHolds, NextOwn, NextBase, NextStored
<1>3. J => ValuesKept
  BY ValuesKeptHolds
<1>. QED BY <1>1, <1>2, <1>3, PTL DEF Spec

=============================================================================
