---------------------------- MODULE FilesProofs ----------------------------
(****************************************************************************)
(* Proofs about Files for every number of requests, clouds and plans: its   *)
(* types, that a row describes what is stored for it, that nothing is left  *)
(* over, and that readers get what the row says.                            *)
(****************************************************************************)
EXTENDS Files, TLAPS

-----------------------------------------------------------------------------
Row    == [store : Stores, of : FileIds]
Stored == [store : Stores \cup {Backups}, name : FileIds, file : FileIds, of : FileIds]

Labels == {"none", "find", "look", "put", "insert", "rollback", "backup", "unlink", "copy", "update",
           "clean", "tidy", "restore", "overwrite", "remove", "row", "open", "send", "sending",
           "hanging", "ended"}
Answers == {"none", "failed", "done", "refused", "error", "content", "killed"}
Parameters == {"plain"} \cup UNION {p.asked : p \in Plans}
Parts == {"nothing"} \cup UNION {p.misses : p \in Plans}

Request ==
  [pc : Labels, op : {"none", "upload", "replace", "edit", "delete", "read"}, file : FileIds,
   to : Stores \cup {NoStore}, misses : Parts, asked : Parameters, allowed : BOOLEAN, row : Row \cup {NoRow},
   got : FileIds \cup {NoContent}, answer : Answers]

\* Every variable has its type.
TypeOK ==
  /\ database \in Databases /\ plan \in Plans
  /\ rows \in [FileIds -> Row \cup {NoRow}]
  /\ objects \subseteq Stored
  /\ enabled \subseteq Stores
  /\ req \in [Requests -> Request]
  /\ started \in Nat /\ troubles \in Nat
  /\ history \subseteq {"read", "content", "left"} \X FileIds

\* The steps that a request of each kind takes.
Steps ==
  [none    |-> {"none"},
   upload  |-> {"put", "insert", "rollback", "ended"},
   replace |-> {"find", "put", "backup", "unlink", "copy", "update", "clean", "tidy", "restore",
                "overwrite", "ended"},
   edit    |-> {"find", "update", "ended"},
   delete  |-> {"find", "remove", "row", "ended"},
   read    |-> {"look", "open", "send", "sending", "hanging", "ended"}]

\* The steps of a replacement that only the disk has.
DiskSteps == {"put", "backup", "unlink", "copy", "clean", "tidy", "restore"}

\* A request takes the steps of its kind, on a file that an earlier request
\* made, and has chosen the storage it writes to.
RequestsSound ==
  \A r \in Requests :
    /\ req[r].pc \in Steps[req[r].op]
    /\ r > started => req[r].pc = "none"
    /\ req[r].op = "upload" => req[r].file = r /\ req[r].to # NoStore
    /\ req[r].op \notin {"none", "upload"} => req[r].file < r
    /\ req[r].op = "edit" => req[r].to # NoStore
    /\ Active(r) /\ Writes(r) => req[r].to # NoStore /\ req[r].row # NoRow
    /\ req[r].op = "replace" /\ req[r].pc \in DiskSteps => req[r].to = Local
    /\ req[r].op = "replace" /\ req[r].pc = "overwrite" => req[r].to \in Clouds
    /\ req[r].pc = "open" => req[r].row # NoRow

-----------------------------------------------------------------------------
(* Rows *)

\* The request that uploaded f has made its row, or tried to.
Made(f) == f \in Requests => req[f].op = "upload" /\ req[f].pc \in {"rollback", "ended"}

Writer(r) == Active(r) /\ Writes(r)

\* Rows are of files that were made. An upload that takes its object back has
\* made no row, or is excused.
RowsMade ==
  /\ \A f \in FileIds : rows[f] # NoRow => Made(f)
  /\ \A r \in Requests : Writer(r) \/ req[r].pc = "open" => Made(req[r].file)
  /\ \A r \in Requests : req[r].pc = "rollback" /\ ~Excused("content", r) =>
       rows[r] = NoRow /\ \A q \in Requests : Writer(q) => req[q].file # r

\* Writes of one file at once are excused.
WritersApart ==
  \A r, q \in Requests :
    Writer(r) /\ Writer(q) /\ req[r].file = req[q].file /\ r # q =>
      Excused("content", req[r].file) /\ Excused("left", req[r].file)

\* Until a write changes the row it is as it was found.
Unchanged ==
  \A r \in Requests :
    Writer(r) /\ req[r].pc \notin {"clean", "tidy"} =>
      \/ rows[req[r].file] = req[r].row
      \/ /\ Excused("content", req[r].file)
         /\ Excused("left", req[r].file) \/ req[r].pc = "restore"

RowsSound == RowsMade /\ WritersApart /\ Unchanged

-----------------------------------------------------------------------------
(* What is stored *)

Holds(store, name, of) == \E o \in objects : o.store = store /\ o.name = name /\ o.of = of
Described(f) == Holds(rows[f].store, f, rows[f].of)

\* There is one object of a name in a storage. It is of the file of that name, or
\* of the one that the request of that name replaces.
ObjectsNamed ==
  /\ \A o, p \in objects : o.store = p.store /\ o.name = p.name => o = p
  /\ \A o \in objects :
       \/ o.file = o.name
       \/ o.name \in Requests /\ req[o.name].op = "replace" /\ o.file = req[o.name].file

\* The write has not touched what the row describes, or the row describes what
\* it has written.
Harmless(r) ==
  req[r].op = "edit" \/ req[r].pc \in {"put", "backup", "unlink", "clean", "tidy", "overwrite", "remove"}

\* What the row described when the write began is in its backup, or untouched in
\* a cloud.
Safe(r) == IF req[r].row.store = Local THEN Holds(Backups, r, req[r].row.of)
           ELSE Holds(req[r].row.store, req[r].file, req[r].row.of)

ContentKept ==
  /\ \A f \in FileIds :
       rows[f] # NoRow /\ ~Excused("content", f)
         /\ (\A r \in Requests : Writer(r) /\ req[r].file = f => Harmless(r)) => Described(f)
  /\ \A r \in Requests : req[r].op = "replace" /\ ~Excused("content", req[r].file) =>
       /\ OnDisk(r) /\ req[r].pc \in {"unlink", "copy", "update", "restore"} => Safe(r)
       /\ req[r].pc = "update" => Holds(req[r].to, req[r].file, r)
  /\ \A r \in Requests : req[r].pc = "insert" => Holds(req[r].to, r, r)

-----------------------------------------------------------------------------
(* What is left over *)

\* The row leads to o; o is of an upload that has no row yet; o was made by a
\* replacement that will take it away.
Led(o)    == o.name = o.file /\ rows[o.file] # NoRow /\ o.store = rows[o.file].store
Early(o)  == /\ o.name = o.file /\ o.file \in Requests /\ req[o.file].op = "upload"
             /\ req[o.file].pc \in {"insert", "rollback"} /\ o.store = req[o.file].to
             /\ rows[o.file] = NoRow
Passing(o) ==
  /\ o.name \in Requests /\ OnDisk(o.name) /\ req[o.name].file = o.file
  /\ \/ o.store = Local /\ req[o.name].pc \in {"backup", "unlink", "copy", "update", "restore", "clean"}
     \/ o.store = Backups /\ req[o.name].pc \in {"unlink", "copy", "update", "restore", "clean", "tidy"}

NothingLost ==
  /\ \A o \in objects : Excused("left", o.file) \/ Led(o) \/ Early(o) \/ Passing(o)
  /\ \A r \in Requests : Writer(r) /\ ~Excused("left", req[r].file) =>
       /\ req[r].pc = "row" => \A o \in objects : o.file # req[r].file
       /\ OnDisk(r) /\ req[r].pc \in {"unlink", "copy", "update"} => req[r].row.store = Local
       /\ req[r].op = "replace" /\ req[r].pc = "update" => req[r].row.store = req[r].to

-----------------------------------------------------------------------------
(* Readers *)

ReadersServed ==
  \A r \in Requests :
    req[r].op = "read" /\ ~Excused("read", r) /\ ~Excused("content", req[r].file) =>
      /\ req[r].pc = "open" => /\ rows[req[r].file] = req[r].row
                               /\ \A q \in Requests : Writer(q) => req[q].file # req[r].file
      /\ req[r].pc \in {"send", "sending", "hanging"} => req[r].got = req[r].row.of
      /\ req[r].pc = "ended" /\ req[r].row # NoRow =>
           /\ Known(req[r].row.store) => req[r].answer # "error"
           /\ req[r].answer = "content" => req[r].got = req[r].row.of

IInv == /\ TypeOK /\ RequestsSound /\ RowsSound /\ ObjectsNamed /\ ContentKept
        /\ NothingLost /\ ReadersServed

-----------------------------------------------------------------------------
(* What the operators of the model do to a request *)

LEMMA Constants ==
  /\ Count \in Nat /\ FileIds = 0 .. Count /\ Requests \subseteq FileIds /\ 0 \in FileIds
  /\ 0 \notin Requests /\ \A f \in FileIds : f # 0 => f \in Requests
  /\ Requests \subseteq Nat
  /\ Local \in Stores /\ Local \notin Clouds /\ Backups \notin Stores /\ NoStore \notin Stores
  /\ \A store \in Stores : store # Local => store \in Clouds
  /\ NoRow \notin Row /\ NoContent \notin FileIds
  BY FilesAssumption DEF FileIds, Requests, Stores, Local, Backups, Row

\* Only the request r has changed, and in nothing but its step and its answer.
Moved(r) ==
  /\ req' \in [Requests -> Request]
  /\ \A q \in Requests : q # r => req'[q] = req[q]
  /\ req'[r].op = req[r].op /\ req'[r].file = req[r].file /\ req'[r].to = req[r].to
  /\ req'[r].row = req[r].row /\ req'[r].got = req[r].got

LEMMA NowEffect ==
  ASSUME TypeOK, NEW r \in Requests, NEW label \in Labels, Now(r, label)
  PROVE  Moved(r) /\ req'[r].pc = label /\ req'[r].answer = req[r].answer
<1>1. req[r] \in Request /\ req'[r] = [req[r] EXCEPT !.pc = label]
  BY DEF Now, TypeOK
<1>2. req'[r] \in Request
  BY <1>1 DEF Request
<1> QED
  BY <1>1, <1>2 DEF Now, TypeOK, Moved, Request

LEMMA EndEffect ==
  ASSUME TypeOK, NEW r \in Requests, NEW answer \in Answers, End(r, answer)
  PROVE  Moved(r) /\ req'[r].pc = "ended" /\ req'[r].answer = answer
<1>1. req[r] \in Request /\ req'[r] = [req[r] EXCEPT !.pc = "ended", !.answer = answer]
  BY DEF End, TypeOK
<1>2. req'[r] \in Request
  BY <1>1 DEF Request, Labels
<1> QED
  BY <1>1, <1>2 DEF End, TypeOK, Moved, Request

\* A move of r that begins no write and no reading.
Onward(r) ==
  /\ Moved(r) /\ req'[r].pc \in Steps[req[r].op]
  /\ req[r].pc \notin {"none", "ended"} /\ req'[r].pc \notin {"none", "find", "look", "open", "overwrite"}
  /\ req[r].pc \in {"find", "look"} => req'[r].pc = "ended"
  /\ req'[r].pc = "rollback" => req[r].pc = "insert"
  /\ req[r].pc = "rollback" => req'[r].pc = "ended"
  /\ req[r].op = "replace" /\ req'[r].pc \in DiskSteps => req[r].to = Local
  /\ req[r].pc \in {"clean", "tidy", "restore"} => req'[r].pc \in {"tidy", "ended"}

\* The excuses there are.
Grows == history \subseteq history'

LEMMA SoundKeeps ==
  ASSUME TypeOK, RequestsSound, NEW r \in Requests, Onward(r), started' = started
  PROVE  RequestsSound'
<1>1. req[r] \in Request /\ req'[r] \in Request
  BY DEF TypeOK, Onward, Moved
<1>2. ~(r > started)
  BY DEF RequestsSound, Onward
<1>3. \A q \in Requests : q # r => (Active(q) /\ Writes(q))' = (Active(q) /\ Writes(q))
  BY DEF Onward, Moved, Active, Writes
<1>4. (Active(r) /\ Writes(r))' => Active(r) /\ Writes(r)
  BY DEF Onward, Moved, Active, Writes
<1> QED
  BY <1>2, <1>3, <1>4 DEF RequestsSound, Onward, Moved

LEMMA WritersStay ==
  ASSUME NEW r \in Requests, Onward(r)
  PROVE  /\ \A q \in Requests : q # r => Writer(q)' = Writer(q)
         /\ Writer(r)' => Writer(r)
         /\ \A q \in Requests : Writer(q)' => Writer(q) /\ req'[q].file = req[q].file
         /\ \A f : Made(f) => Made(f)'
<1>1. \A q \in Requests : q # r => Writer(q)' = Writer(q) /\ req'[q].file = req[q].file
  BY DEF Onward, Moved, Writer, Active, Writes
<1>2. (Writer(r)' => Writer(r)) /\ req'[r].file = req[r].file
  BY DEF Onward, Moved, Writer, Active, Writes
<1>3. ASSUME NEW f, Made(f) PROVE Made(f)'
  <2>1. CASE f = r
    BY <1>3, <2>1 DEF Made, Onward, Moved
  <2>2. CASE f # r
    BY <1>3, <2>2 DEF Made, Onward, Moved
  <2> QED
    BY <2>1, <2>2
<1> QED
  BY <1>1, <1>2, <1>3

\* r changes no row but its file's, when it writes or makes it.
Records(r) ==
  /\ \A f \in FileIds : rows'[f] # rows[f] => f = req[r].file /\ (rows'[f] # NoRow => Made(f)')
  /\ rows' # rows => Writer(r) \/ req[r].pc = "insert"
  /\ rows' # rows /\ Writer(r)' =>
       \/ req'[r].pc = "clean"
       \/ Excused("content", req[r].file)' /\ req'[r].pc = "restore"
  /\ req'[r].pc = "rollback" /\ ~Excused("content", r)' => rows'[r] = NoRow

LEMMA RowsKeep ==
  ASSUME TypeOK, RequestsSound, RowsSound, NEW r \in Requests, Onward(r), Records(r), Grows
  PROVE  RowsSound'
<1>0. /\ \A q \in Requests : req[q] \in Request /\ req'[q] \in Request /\ q \in FileIds
      /\ \A kind, f : Excused(kind, f) => Excused(kind, f)'
  BY Constants DEF TypeOK, Onward, Moved, Grows, Excused
<1>1. RowsMade'
  <2>1. ASSUME NEW f \in FileIds, rows'[f] # NoRow PROVE Made(f)'
    BY <2>1, WritersStay DEF Records, RowsSound, RowsMade
  <2>2. ASSUME NEW q \in Requests, Writer(q)' \/ req'[q].pc = "open" PROVE Made(req[q].file)'
    BY <2>2, WritersStay DEF RowsSound, RowsMade, Onward, Moved
  <2>3. ASSUME NEW q \in Requests, req'[q].pc = "rollback", ~Excused("content", q)'
        PROVE  rows'[q] = NoRow /\ \A p \in Requests : Writer(p)' => req'[p].file # q
    <3>1. CASE q = r
      <4>1. req[q].pc = "insert" /\ ~Made(q)
        BY <2>3, <3>1 DEF Onward, Made
      <4> QED
        BY <2>3, <3>1, <4>1, WritersStay DEF Records, RowsSound, RowsMade
    <3>2. CASE q # r
      <4>1. /\ req[q].pc = "rollback" /\ ~Excused("content", q) /\ rows[q] = NoRow
            /\ \A p \in Requests : Writer(p) => req[p].file # q
        BY <1>0, <2>3, <3>2 DEF Onward, Moved, RowsSound, RowsMade
      <4>2. rows'[q] = rows[q]
        <5>1. CASE req[r].file = q
          <6>1. req[r].op # "upload" /\ req[r].pc # "insert" /\ ~Writer(r)
            BY <1>0, <3>2, <4>1, <5>1 DEF RequestsSound, Steps, Onward, Request
          <6> QED
            BY <6>1 DEF Records
        <5> QED
          BY <1>0, <5>1 DEF Records
      <4> QED
        BY <4>1, <4>2, WritersStay
    <3> QED
      BY <3>1, <3>2
  <2> QED
    BY <2>1, <2>2, <2>3 DEF RowsMade
<1>2. WritersApart'
  BY <1>0, WritersStay DEF RowsSound, WritersApart
<1>3. Unchanged'
  <2> SUFFICES ASSUME NEW q \in Requests, Writer(q)', req'[q].pc \notin {"clean", "tidy"}
               PROVE  \/ rows'[req'[q].file] = req'[q].row
                      \/ /\ Excused("content", req[q].file)'
                         /\ Excused("left", req[q].file)' \/ req'[q].pc = "restore"
    BY DEF Unchanged
  <2>1. Writer(q) /\ req'[q].file = req[q].file /\ req[q].file \in FileIds
    BY <1>0, WritersStay DEF Request
  <2>2. CASE q = r
    <3>1. req[q].pc \notin {"clean", "tidy", "restore"} /\ req'[q].row = req[q].row
      BY <2>1, <2>2 DEF Onward, Moved, Writer, Active
    <3>2. \/ rows[req[q].file] = req[q].row
          \/ Excused("content", req[q].file) /\ Excused("left", req[q].file)
      BY <2>1, <3>1 DEF RowsSound, Unchanged
    <3>3. \/ rows' = rows
          \/ Excused("content", req[r].file)' /\ req'[r].pc = "restore"
      BY <2>2 DEF Records
    <3> QED
      BY <1>0, <2>1, <2>2, <3>1, <3>2, <3>3
  <2>3. CASE q # r
    <3>1. req'[q] = req[q]
      BY <2>3 DEF Onward, Moved
    <3>2. \/ rows[req[q].file] = req[q].row
          \/ /\ Excused("content", req[q].file)
             /\ Excused("left", req[q].file) \/ req[q].pc = "restore"
      BY <2>1, <3>1 DEF RowsSound, Unchanged
    <3>3. CASE rows'[req[q].file] = rows[req[q].file]
      BY <1>0, <3>1, <3>2, <3>3
    <3>4. CASE rows'[req[q].file] # rows[req[q].file]
      <4>1. req[r].file = req[q].file /\ (Writer(r) \/ req[r].pc = "insert")
        BY <2>1, <3>4 DEF Records
      <4>2. req[r].pc # "insert"
        <5> SUFFICES ASSUME req[r].pc = "insert" PROVE FALSE
          OBVIOUS
        <5>1. req[r].op = "upload" /\ req[r].file = r
          BY <1>0 DEF RequestsSound, Steps, Request
        <5>2. Made(r)
          BY <2>1, <4>1, <5>1 DEF RowsSound, RowsMade
        <5> QED
          BY <5>2 DEF Made
      <4> QED
        BY <1>0, <2>1, <2>3, <3>1, <4>1, <4>2 DEF RowsSound, WritersApart
    <3> QED
      BY <3>3, <3>4
  <2> QED
    BY <2>2, <2>3
<1> QED
  BY <1>1, <1>2, <1>3 DEF RowsSound

\* In particular when no row changes.
LEMMA SameRows ==
  ASSUME TypeOK, RequestsSound, RowsSound, NEW r \in Requests, Onward(r), rows' = rows, Grows
  PROVE  RowsSound'
<1>0. req[r] \in Request /\ req[r].file \in FileIds /\ r \in FileIds
  BY Constants DEF TypeOK, Request
<1>2. ASSUME req'[r].pc = "rollback" PROVE rows'[r] = NoRow
  <2>1. req[r].pc = "insert" /\ ~Made(r)
    BY <1>2 DEF Onward, Made
  <2> QED
    BY <1>0, <2>1 DEF RowsSound, RowsMade
<1>3. Records(r)
  BY <1>2 DEF Records
<1> QED
  BY <1>3, RowsKeep

-----------------------------------------------------------------------------
(* What a step of r leaves alone *)

\* r adds at most one object in the place of another: one of its file under the
\* file's name, or one under its own.
Adds(r, o) ==
  /\ o \in Stored /\ o.file = req[r].file
  /\ o.name = o.file \/ (o.name = r /\ req[r].op = "replace")
  /\ objects' \subseteq (objects \ At(o.store, o.name)) \cup {o}

LEMMA NamesKeep ==
  ASSUME TypeOK, ObjectsNamed, NEW r \in Requests, Onward(r),
         objects' \subseteq objects \/ \E o \in Stored : Adds(r, o)
  PROVE  ObjectsNamed'
<1>1. \A q \in Requests : req'[q].op = req[q].op /\ req'[q].file = req[q].file
  BY DEF Onward, Moved
<1>2. CASE objects' \subseteq objects
  BY <1>1, <1>2 DEF ObjectsNamed
<1>3. CASE \E o \in Stored : Adds(r, o)
  <2>1. PICK o \in Stored : Adds(r, o)
    BY <1>3
  <2>2. ASSUME NEW p \in objects', NEW q \in objects', p.store = q.store, p.name = q.name
        PROVE  p = q
    BY <2>1, <2>2 DEF Adds, At, ObjectsNamed
  <2>3. ASSUME NEW p \in objects'
        PROVE  \/ p.file = p.name
               \/ p.name \in Requests /\ req'[p.name].op = "replace" /\ p.file = req'[p.name].file
    BY <1>1, <2>1, <2>3 DEF Adds, ObjectsNamed
  <2> QED
    BY <2>2, <2>3 DEF ObjectsNamed
<1> QED
  BY <1>2, <1>3

\* There will be such an object.
WillHold(store, name, of) == \E o \in objects' : o.store = store /\ o.name = name /\ o.of = of

\* Objects under other names than those of r and its file stay, and so do the
\* backups of others.
Elsewhere(r) ==
  \A store, name, of :
    Holds(store, name, of) /\ ~(store = Backups /\ name = r)
      /\ ~(store # Backups /\ name \in {r, req[r].file}) => WillHold(store, name, of)

\* What ContentKept says of r and its file f.
OwnContent(r, f) ==
  /\ rows[f] # NoRow /\ ~Excused("content", f)
       /\ (\A q \in Requests : Writer(q) /\ req[q].file = f => Harmless(q)) => Described(f)
  /\ req[r].op = "replace" /\ ~Excused("content", f) =>
       /\ OnDisk(r) /\ req[r].pc \in {"unlink", "copy", "update", "restore"} => Safe(r)
       /\ req[r].pc = "update" => Holds(req[r].to, f, r)
  /\ req[r].pc = "insert" => Holds(req[r].to, r, r)

\* The file of an upload that is not made is of no other request.
LEMMA UploadAlone ==
  ASSUME TypeOK, RequestsSound, RowsSound, NEW r \in Requests, NEW q \in Requests, q # r,
         req[r].op = "upload", req[r].pc # "none", Writer(q), req[q].file = r,
         ~Excused("content", r)
  PROVE  req[r].pc = "ended"
<1>1. Made(r)
  BY DEF RowsSound, RowsMade
<1> QED
  BY <1>1 DEF Made, RowsSound, RowsMade

LEMMA ContentKeeps ==
  ASSUME TypeOK, RequestsSound, RowsSound, ContentKept, NEW r \in Requests, Onward(r), Grows,
         Elsewhere(r), Writer(r) \/ req[r].op = "upload" \/ UNCHANGED <<rows, objects>>,
         \A f \in FileIds : f # req[r].file => rows'[f] = rows[f],
         NEW h \in FileIds, h = req[r].file, OwnContent(r, h)'
  PROVE  ContentKept'
<1>0. /\ \A q \in Requests : req[q] \in Request /\ req'[q] \in Request /\ q \in FileIds
      /\ \A kind, f : Excused(kind, f) => Excused(kind, f)'
      /\ \A q \in Requests : q # r => req'[q] = req[q]
      /\ \A f \in FileIds : rows[f] # NoRow => rows[f] \in Row
      /\ Backups \notin Stores
  BY Constants DEF TypeOK, Onward, Moved, Grows, Excused
<1>n. /\ req[r].pc \notin {"none", "ended"}
      /\ req[r].op = "upload" => req[r].file = r
      /\ \A q \in Requests : req[q].op # "upload" /\ req[q].op # "none" => req[q].file # q
  BY <1>0 DEF Onward, RequestsSound, Request, Requests
<1>1. ASSUME NEW f \in FileIds, rows'[f] # NoRow, ~Excused("content", f)',
             \A q \in Requests : Writer(q)' /\ req'[q].file = f => Harmless(q)'
      PROVE  Described(f)'
  <2>1. CASE f = h
    BY <1>1, <2>1 DEF OwnContent
  <2>2. CASE f # h
    <3>1. rows'[f] = rows[f] /\ ~Excused("content", f)
      BY <1>0, <1>1, <2>2
    <3>2. ASSUME NEW q \in Requests, Writer(q), req[q].file = f PROVE Harmless(q)
      <4>1. q # r /\ req'[q] = req[q]
        BY <1>0, <2>2, <3>2
      <4>2. Writer(q)' /\ (Harmless(q)' => Harmless(q))
        BY <3>2, <4>1 DEF Writer, Active, Writes, Harmless
      <4> QED
        BY <1>1, <3>2, <4>1, <4>2
    <3>3. Described(f)
      BY <1>1, <3>1, <3>2 DEF ContentKept
    <3>4. CASE UNCHANGED <<rows, objects>>
      BY <3>3, <3>4 DEF Described, Holds
    <3>5. CASE Writer(r) \/ req[r].op = "upload"
      <4>1. f # r
        <5> SUFFICES ASSUME f = r PROVE FALSE
          OBVIOUS
        <5>1. Made(r)
          BY <1>1, <3>1 DEF RowsSound, RowsMade
        <5>2. req[r].op # "upload"
          BY <1>n, <2>2
        <5> QED
          BY <5>1, <5>2 DEF Made
      <4>2. rows[f].store # Backups
        BY <1>0, <1>1, <3>1 DEF Row
      <4>3. WillHold(rows[f].store, f, rows[f].of)
        BY <2>2, <3>1, <3>3, <4>1, <4>2 DEF Elsewhere, Described
      <4> QED
        BY <3>1, <4>3 DEF Described, Holds, WillHold
    <3> QED
      BY <3>4, <3>5
  <2> QED
    BY <2>1, <2>2
<1>2. ASSUME NEW q \in Requests, req[q].op = "replace", ~Excused("content", req[q].file)', q # r,
             req[q].pc \in {"unlink", "copy", "update", "restore"}
      PROVE  /\ OnDisk(q) => Safe(q)'
             /\ req[q].pc = "update" => WillHold(req[q].to, req[q].file, q)
  <2>1. /\ Writer(q) /\ ~Excused("content", req[q].file) /\ req'[q] = req[q]
        /\ req[q].row \in Row /\ req[q].to \in Stores /\ req[q].file \in FileIds
    BY <1>0, <1>2 DEF Writer, Active, Writes, RequestsSound, Request
  <2>2. /\ OnDisk(q) => Safe(q)
        /\ req[q].pc = "update" => Holds(req[q].to, req[q].file, q)
    BY <1>2, <2>1 DEF ContentKept
  <2>3. CASE UNCHANGED <<rows, objects>>
    BY <2>1, <2>2, <2>3 DEF Safe, Holds, WillHold
  <2>4. CASE Writer(r) \/ req[r].op = "upload"
    <3>1. req[q].file # req[r].file
      <4>1. CASE Writer(r)
        BY <1>2, <2>1, <4>1 DEF RowsSound, WritersApart
      <4>2. CASE req[r].op = "upload"
        BY <1>n, <1>2, <2>1, <4>2, UploadAlone
      <4> QED
        BY <2>4, <4>1, <4>2
    <3>2. req[q].file # r
      <4> SUFFICES ASSUME req[q].file = r PROVE FALSE
        OBVIOUS
      <4>1. Made(r)
        BY <2>1 DEF RowsSound, RowsMade
      <4> QED
        BY <1>n, <3>1, <4>1 DEF Made
    <3>3. \A store, of : Holds(store, req[q].file, of) /\ store \in Stores =>
                           WillHold(store, req[q].file, of)
      BY <1>0, <3>1, <3>2 DEF Elsewhere
    <3>4. \A of : Holds(Backups, q, of) => WillHold(Backups, q, of)
      BY <1>2 DEF Elsewhere
    <3>5. OnDisk(q) => Safe(q)'
      <4>1. Safe(q)' <=> IF req[q].row.store = Local THEN WillHold(Backups, q, req[q].row.of)
                         ELSE WillHold(req[q].row.store, req[q].file, req[q].row.of)
        BY <2>1 DEF Safe, Holds, WillHold
      <4>2. req[q].row.store \in Stores
        BY <2>1 DEF Row
      <4> QED
        BY <2>2, <3>3, <3>4, <4>1, <4>2 DEF Safe
    <3>6. req[q].pc = "update" => WillHold(req[q].to, req[q].file, q)
      BY <2>1, <2>2, <3>3
    <3> QED
      BY <3>5, <3>6
  <2> QED
    BY <2>3, <2>4
<1>3. ASSUME NEW q \in Requests, q # r, req[q].pc = "insert" PROVE WillHold(req[q].to, q, q)
  <2>1. /\ Holds(req[q].to, q, q) /\ req[q].op = "upload" /\ req[q].to \in Stores
        /\ ~Made(q)
    BY <1>0, <1>3 DEF ContentKept, RequestsSound, Steps, Request, Made
  <2>2. CASE UNCHANGED <<rows, objects>>
    BY <2>1, <2>2 DEF Holds, WillHold
  <2>3. CASE Writer(r) \/ req[r].op = "upload"
    <3>1. req[r].file # q
      BY <1>n, <1>3, <2>1, <2>3 DEF RowsSound, RowsMade
    <3> QED
      BY <1>0, <1>3, <2>1, <3>1 DEF Elsewhere
  <2> QED
    BY <2>2, <2>3
<1>4. \A q \in Requests : q # r => OnDisk(q)' = OnDisk(q)
  BY <1>0 DEF OnDisk
<1>5. ASSUME NEW q \in Requests, req'[q].op = "replace", ~Excused("content", req[q].file)'
      PROVE  /\ OnDisk(q)' /\ req'[q].pc \in {"unlink", "copy", "update", "restore"} => Safe(q)'
             /\ req'[q].pc = "update" => WillHold(req'[q].to, req'[q].file, q)
  <2>1. CASE q = r
    <3>1. req'[r].file = h /\ req'[r].to = req[r].to /\ ~Excused("content", h)'
      BY <1>5, <2>1 DEF Onward, Moved, Excused
    <3> QED
      BY <1>5, <2>1, <3>1 DEF OwnContent, Holds, WillHold
  <2>2. CASE q # r
    BY <1>0, <1>2, <1>4, <1>5, <2>2
  <2> QED
    BY <2>1, <2>2
<1>6. ASSUME NEW q \in Requests, req'[q].pc = "insert" PROVE WillHold(req'[q].to, q, q)
  BY <1>0, <1>3, <1>6 DEF OwnContent, Holds, WillHold
<1> QED
  BY <1>1, <1>5, <1>6 DEF ContentKept, Holds, WillHold

\* What NothingLost says of an object of the file f, and of r and its file f.
Explained(o, f) == Excused("left", f) \/ Led(o) \/ Early(o) \/ Passing(o)
OwnLeft(r, f) ==
  /\ \A o \in objects : o.file = f => Explained(o, f)
  /\ Writer(r) /\ ~Excused("left", f) =>
       /\ req[r].pc = "row" => \A o \in objects : o.file # f
       /\ OnDisk(r) /\ req[r].pc \in {"unlink", "copy", "update"} => req[r].row.store = Local
       /\ req[r].op = "replace" /\ req[r].pc = "update" => req[r].row.store = req[r].to

LEMMA LeftKeeps ==
  ASSUME TypeOK, RequestsSound, RowsSound, NothingLost, NEW r \in Requests, Onward(r), Grows,
         NEW h \in FileIds, h = req[r].file,
         objects' \subseteq objects \/ Writer(r) \/ ~Made(h),
         \A f \in FileIds : f # h => rows'[f] = rows[f],
         \A o \in objects' : o \in objects \/ o.file = h,
         OwnLeft(r, h)'
  PROVE  NothingLost'
<1>0. /\ \A q \in Requests : req[q] \in Request /\ req'[q] \in Request /\ q \in FileIds
      /\ \A kind, f : Excused(kind, f) => Excused(kind, f)'
      /\ \A q \in Requests : q # r => req'[q] = req[q]
      /\ objects \subseteq Stored
      /\ req'[r].file = h
  BY Constants DEF TypeOK, Onward, Moved, Grows, Excused
<1>1. ASSUME NEW o \in objects', o.file # h, ~Excused("left", o.file)'
      PROVE  Led(o)' \/ Early(o)' \/ Passing(o)'
  <2>1. o \in objects /\ o.file \in FileIds /\ rows'[o.file] = rows[o.file]
    BY <1>0, <1>1 DEF Stored
  <2>2. Led(o) \/ Early(o) \/ Passing(o)
    BY <1>0, <1>1, <2>1 DEF NothingLost
  <2>3. CASE Led(o)
    BY <2>1, <2>3 DEF Led
  <2>4. CASE Early(o)
    <3>1. o.file # r
      BY <1>0, <1>1, <2>4 DEF Early, RequestsSound
    <3> QED
      BY <1>0, <2>1, <2>4, <3>1 DEF Early
  <2>5. CASE Passing(o)
    <3>1. o.name # r
      BY <1>1, <2>5 DEF Passing
    <3> QED
      BY <1>0, <2>5, <3>1 DEF Passing, OnDisk
  <2> QED
    BY <2>2, <2>3, <2>4, <2>5
<1>2. ASSUME NEW q \in Requests, q # r, Writer(q)', ~Excused("left", req[q].file)'
      PROVE  /\ req[q].pc = "row" => \A o \in objects' : o.file # req[q].file
             /\ OnDisk(q) /\ req[q].pc \in {"unlink", "copy", "update"} => req[q].row.store = Local
             /\ req[q].op = "replace" /\ req[q].pc = "update" => req[q].row.store = req[q].to
  <2>1. Writer(q) /\ ~Excused("left", req[q].file) /\ req'[q] = req[q]
    BY <1>0, <1>2, WritersStay
  <2>2. /\ req[q].pc = "row" => \A o \in objects : o.file # req[q].file
        /\ OnDisk(q) /\ req[q].pc \in {"unlink", "copy", "update"} => req[q].row.store = Local
        /\ req[q].op = "replace" /\ req[q].pc = "update" => req[q].row.store = req[q].to
    BY <2>1 DEF NothingLost
  <2>3. CASE req[q].file = h
    <3>1. ~Writer(r)
      BY <1>2, <2>1, <2>3 DEF RowsSound, WritersApart
    <3>2. Made(h)
      BY <2>1, <2>3 DEF RowsSound, RowsMade
    <3> QED
      BY <2>2, <3>1, <3>2
  <2>4. CASE req[q].file # h
    BY <2>2, <2>4
  <2> QED
    BY <2>3, <2>4
<1>3. ASSUME NEW o \in objects', ~Excused("left", o.file)'
      PROVE  Led(o)' \/ Early(o)' \/ Passing(o)'
  <2>1. CASE o.file = h
    BY <1>3, <2>1 DEF OwnLeft, Explained
  <2> QED
    BY <1>1, <1>3, <2>1
<1>4. ASSUME NEW q \in Requests, Writer(q)', ~Excused("left", req[q].file)'
      PROVE  /\ req'[q].pc = "row" => \A o \in objects' : o.file # req'[q].file
             /\ OnDisk(q)' /\ req'[q].pc \in {"unlink", "copy", "update"} =>
                  req'[q].row.store = Local
             /\ req'[q].op = "replace" /\ req'[q].pc = "update" =>
                  req'[q].row.store = req'[q].to
  <2>1. CASE q = r
    <3>1. ~Excused("left", h)'
      BY <1>0, <1>4, <2>1 DEF Excused
    <3> QED
      BY <1>0, <1>4, <2>1, <3>1 DEF OwnLeft
  <2>2. CASE q # r
    <3>1. req'[q] = req[q] /\ OnDisk(q)' = OnDisk(q)
      BY <1>0, <2>2 DEF OnDisk
    <3> QED
      BY <1>2, <1>4, <2>2, <3>1
  <2> QED
    BY <2>1, <2>2
<1> QED
  BY <1>3, <1>4 DEF NothingLost

\* An object of the file that stays stays explained, unless it was explained by r
\* being on its way.
LEMMA StaysExplained ==
  ASSUME TypeOK, RequestsSound, NothingLost, NEW r \in Requests, Onward(r), Grows,
         NEW h \in FileIds, h = req[r].file, NEW o \in objects, o.file = h,
         rows'[h] = rows[h],
         Early(o) /\ h = r => req'[r].pc \in {"insert", "rollback"} \/ Excused("left", h)',
         Passing(o) /\ o.name = r => Passing(o)' \/ Excused("left", h)'
  PROVE  Explained(o, h)'
<1>0. /\ \A q \in Requests : q # r => req'[q] = req[q]
      /\ Excused("left", h) => Excused("left", h)'
      /\ req'[r].op = req[r].op /\ req'[r].to = req[r].to
  BY DEF Onward, Moved, Grows, Excused
<1>1. Excused("left", h) \/ Led(o) \/ Early(o) \/ Passing(o)
  BY DEF NothingLost
<1>2. CASE Excused("left", h)
  BY <1>0, <1>2 DEF Explained
<1>3. CASE Led(o)
  BY <1>3 DEF Led, Explained
<1>4. CASE Early(o)
  BY <1>0, <1>4 DEF Early, Explained
<1>5. CASE Passing(o)
  <2>1. CASE o.name = r
    BY <1>5, <2>1 DEF Explained
  <2>2. CASE o.name # r
    BY <1>0, <1>5, <2>2 DEF Passing, Explained, OnDisk
  <2> QED
    BY <2>1, <2>2
<1> QED
  BY <1>1, <1>2, <1>3, <1>4, <1>5

\* A request that does not read leaves the readers that are not excused alone.
LEMMA ReadersKeep ==
  ASSUME TypeOK, RequestsSound, RowsSound, ReadersServed, NEW r \in Requests, Onward(r), Grows,
         req[r].op # "read", enabled' \subseteq enabled,
         \A f \in FileIds : f # req[r].file => rows'[f] = rows[f],
         rows' # rows => Writer(r) \/ ~Made(req[r].file)
  PROVE  ReadersServed'
<1>0. /\ \A q \in Requests : req[q] \in Request
      /\ \A kind, f : Excused(kind, f) => Excused(kind, f)'
      /\ \A q \in Requests : q # r => req'[q] = req[q]
      /\ req'[r].op = req[r].op
  BY DEF TypeOK, Onward, Moved, Grows, Excused
<1> SUFFICES ASSUME NEW q \in Requests, req'[q].op = "read", ~Excused("read", q)',
                    ~Excused("content", req[q].file)'
             PROVE  /\ req'[q].pc = "open" =>
                         /\ rows'[req'[q].file] = req'[q].row
                         /\ \A p \in Requests : Writer(p)' => req'[p].file # req'[q].file
                    /\ req'[q].pc \in {"send", "sending", "hanging"} => req'[q].got = req'[q].row.of
                    /\ req'[q].pc = "ended" /\ req'[q].row # NoRow =>
                         /\ Known(req[q].row.store)' => req'[q].answer # "error"
                         /\ req'[q].answer = "content" => req'[q].got = req'[q].row.of
  BY DEF ReadersServed
<1>1. q # r /\ req'[q] = req[q] /\ req[q].file \in FileIds
  BY <1>0 DEF Request
<1>2. ~Excused("read", q) /\ ~Excused("content", req[q].file)
  BY <1>0, <1>1
<1>3. /\ req[q].pc = "open" => /\ rows[req[q].file] = req[q].row
                               /\ \A p \in Requests : Writer(p) => req[p].file # req[q].file
      /\ req[q].pc \in {"send", "sending", "hanging"} => req[q].got = req[q].row.of
      /\ req[q].pc = "ended" /\ req[q].row # NoRow =>
           /\ Known(req[q].row.store) => req[q].answer # "error"
           /\ req[q].answer = "content" => req[q].got = req[q].row.of
  BY <1>1, <1>2 DEF ReadersServed
<1>4. Known(req[q].row.store)' => Known(req[q].row.store)
  BY <1>1 DEF Known
<1>5. ASSUME req[q].pc = "open"
      PROVE  /\ rows'[req[q].file] = req[q].row
             /\ \A p \in Requests : Writer(p)' => req'[p].file # req[q].file
  <2>1. Made(req[q].file)
    BY <1>5 DEF RowsSound, RowsMade
  <2>2. rows'[req[q].file] = rows[req[q].file]
    BY <1>1, <1>3, <1>5, <2>1
  <2> QED
    BY <1>3, <1>5, <2>2, WritersStay
<1> QED
  BY <1>1, <1>3, <1>4, <1>5

-----------------------------------------------------------------------------
(* Steps of writes that fail or give up: rows and objects stay *)

BothExcused(f) == Excused("content", f) /\ Excused("left", f)

\* The ways in which a write goes on without having done anything.
Harmlessly(r) ==
  LET from == req[r].pc
      to   == req'[r].pc
  IN
  \/ from = "insert" /\ to = "rollback"
  \/ from \in {"unlink", "copy"} /\ to = "restore"
  \/ from = "update" /\ to = "restore" /\ OnDisk(r)
  \/ from = "clean" /\ to = "tidy" /\ Excused("left", req[r].file)'
  \/ from \in {"find", "put", "overwrite", "remove"} /\ to = "ended"
  \/ from \in {"rollback", "backup", "tidy"} /\ to = "ended" /\ Excused("left", req[r].file)'
  \/ from = "row" /\ to = "ended" /\ Excused("content", req[r].file)'
  \/ from \in {"update", "restore"} /\ to = "ended" /\ BothExcused(req[r].file)'

Bounds == /\ started' = started /\ troubles' \in Nat /\ database' = database /\ plan' = plan
          /\ history' \subseteq {"read", "content", "left"} \X FileIds

Quiet(r) ==
  /\ Moved(r) /\ Grows /\ Bounds /\ req[r].op # "read" /\ Harmlessly(r)
  /\ rows' = rows /\ objects' = objects /\ enabled' = enabled

LEMMA QuietKeeps == ASSUME IInv, NEW r \in Requests, Quiet(r) PROVE IInv'
<1> USE DEF IInv
<1>0. /\ \A q \in Requests : req[q] \in Request /\ req'[q] \in Request /\ q \in FileIds
      /\ \A kind, f : Excused(kind, f) => Excused(kind, f)'
      /\ \A q \in Requests : q # r => req'[q] = req[q]
      /\ rows' = rows /\ objects' = objects /\ enabled' = enabled /\ started' = started
      /\ req'[r].op = req[r].op /\ req'[r].file = req[r].file /\ req'[r].to = req[r].to
      /\ req'[r].row = req[r].row
  BY Constants DEF TypeOK, Quiet, Bounds, Moved, Grows, Excused
<1>1. TypeOK'
  BY DEF Quiet, Bounds, Moved, TypeOK
<1>2. Onward(r)
  <2>1. req[r].pc \in Steps[req[r].op] /\ req[r].op # "read"
    BY DEF RequestsSound, Quiet
  <2>2. req'[r].pc \in Steps[req[r].op]
    BY <1>0, <2>1 DEF Quiet, Harmlessly, Steps, OnDisk, Request
  <2>3. req[r].op = "replace" /\ req'[r].pc \in DiskSteps => req[r].to = Local
    BY DEF Quiet, Harmlessly, OnDisk, DiskSteps, RequestsSound
  <2> QED
    BY <2>1, <2>2, <2>3 DEF Quiet, Harmlessly, Onward
<1>3. RequestsSound'
  BY <1>0, <1>2, SoundKeeps
<1>4. RowsSound'
  BY <1>0, <1>2, SameRows DEF Quiet
<1>5. ObjectsNamed'
  BY <1>0, <1>2, NamesKeep
<1>6. PICK h \in FileIds : h = req[r].file
  BY <1>0 DEF Request
<1>x. Harmlessly(r) /\ req[r].op # "read"
  BY DEF Quiet
<1>y. /\ Excused("content", req[r].file)' = Excused("content", h)'
      /\ Excused("left", req[r].file)' = Excused("left", h)'
      /\ BothExcused(req[r].file)' = BothExcused(h)'
  BY <1>0, <1>6 DEF Excused, BothExcused
<1>7. ContentKept'
  <2>1. ASSUME rows[h] # NoRow, ~Excused("content", h)',
               \A q \in Requests : Writer(q)' /\ req'[q].file = h => Harmless(q)'
        PROVE  Described(h)
    <3>1. ASSUME Writer(r) PROVE Harmless(r)
      <4> SUFFICES ASSUME ~Harmless(r) PROVE FALSE
        OBVIOUS
      <4>1. req[r].op # "edit" /\ req[r].pc \in {"copy", "update", "restore", "row"}
        BY <1>0, <1>x, <3>1 DEF Harmlessly, Harmless, Writer, Active, Writes, RequestsSound, Steps
      <4>2. req'[r].pc = "restore"
        BY <1>x, <1>y, <2>1, <4>1 DEF Harmlessly, BothExcused
      <4>3. Writer(r)' /\ ~Harmless(r)'
        BY <1>0, <3>1, <4>1, <4>2 DEF Writer, Active, Writes, Harmless
      <4> QED
        BY <1>0, <1>6, <2>1, <4>3
    <3>2. ASSUME NEW q \in Requests, Writer(q), req[q].file = h PROVE Harmless(q)
      <4>1. CASE q = r
        BY <3>1, <3>2, <4>1
      <4>2. CASE q # r
        <5>1. Writer(q)' /\ req'[q].file = h /\ (Harmless(q)' => Harmless(q))
          BY <1>0, <3>2, <4>2 DEF Writer, Active, Writes, Harmless
        <5> QED
          BY <2>1, <5>1
      <4> QED
        BY <4>1, <4>2
    <3> QED
      BY <1>0, <2>1, <3>2 DEF ContentKept
  <2>2. ASSUME req[r].op = "replace", ~Excused("content", h)',
               OnDisk(r)', req'[r].pc \in {"unlink", "copy", "update", "restore"}
        PROVE  Safe(r)
    <3>1. OnDisk(r) /\ req[r].pc \in {"unlink", "copy", "update"}
      BY <1>0, <1>x, <1>y, <2>2 DEF Harmlessly, OnDisk
    <3> QED
      BY <1>0, <1>6, <2>2, <3>1 DEF ContentKept
  <2>3. req'[r].pc \notin {"update", "insert"}
    BY <1>x DEF Harmlessly
  <2>4. (Described(h) => Described(h)') /\ (Safe(r) => Safe(r)')
    BY <1>0 DEF Described, Safe, Holds
  <2>5. OwnContent(r, h)'
    BY <1>0, <2>1, <2>2, <2>3, <2>4 DEF OwnContent
  <2>6. Elsewhere(r)
    BY <1>0 DEF Elsewhere, Holds, WillHold
  <2> QED
    BY <1>0, <1>2, <1>6, <2>5, <2>6, ContentKeeps DEF Quiet
<1>8. NothingLost'
  <2>1. ASSUME NEW o \in objects, o.file = h PROVE Explained(o, h)'
    <3>1. Early(o) /\ h = r => req'[r].pc \in {"insert", "rollback"} \/ Excused("left", h)'
      BY <1>x, <1>y, <2>1 DEF Harmlessly, Early
    <3>2. Passing(o) /\ o.name = r => Passing(o)' \/ Excused("left", h)'
      BY <1>0, <1>x, <1>y DEF Harmlessly, Passing, OnDisk, BothExcused
    <3> QED
      BY <1>0, <1>2, <1>6, <2>1, <3>1, <3>2, StaysExplained DEF Quiet
  <2>2. Writer(r)' => req'[r].pc \in {"restore", "tidy"}
    BY <1>0, <1>x DEF Harmlessly, Writer, Active, Writes, RequestsSound, Steps
  <2>3. OwnLeft(r, h)'
    BY <1>0, <2>1, <2>2 DEF OwnLeft
  <2> QED
    BY <1>0, <1>2, <1>6, <2>3, LeftKeeps DEF Quiet
<1>9. ReadersServed'
  BY <1>0, <1>2, ReadersKeep DEF Quiet
<1> QED
  BY <1>1, <1>3, <1>4, <1>5, <1>7, <1>8, <1>9

-----------------------------------------------------------------------------
(* Steps that store or delete something *)

LEMMA PutEffect ==
  ASSUME NEW store, NEW name, NEW file, NEW of, Put(Object(store, name, file, of))
  PROVE  /\ WillHold(store, name, of)
         /\ \A s, n, u : Holds(s, n, u) /\ (s # store \/ n # name) => WillHold(s, n, u)
         /\ \A o \in objects' : o \in objects \/ o = Object(store, name, file, of)
         /\ \A o \in objects' : o.store = store /\ o.name = name => o = Object(store, name, file, of)
         /\ Object(store, name, file, of) \in objects'
         /\ objects' = (objects \ At(store, name)) \cup {Object(store, name, file, of)}
<1> DEFINE p == Object(store, name, file, of)
<1>1. p.store = store /\ p.name = name /\ p.of = of
  BY DEF Object
<1> HIDE DEF p
<1>2. objects' = (objects \ At(store, name)) \cup {p}
  BY <1>1 DEF Put, p
<1>3. WillHold(store, name, of)
  BY <1>1, <1>2 DEF WillHold
<1>4. \A s, n, u : Holds(s, n, u) /\ (s # store \/ n # name) => WillHold(s, n, u)
  BY <1>2 DEF WillHold, Holds, At
<1>5. \A o \in objects' : o \in objects \/ o = p
  BY <1>2
<1>6. \A o \in objects' : o.store = store /\ o.name = name => o = p
  BY <1>2 DEF At
<1> QED
  BY <1>2, <1>3, <1>4, <1>5, <1>6 DEF p

LEMMA DeleteEffect ==
  ASSUME NEW store, NEW name, Delete(store, name)
  PROVE  /\ objects' \subseteq objects
         /\ \A s, n, u : Holds(s, n, u) /\ (s # store \/ n # name) => WillHold(s, n, u)
         /\ \A o \in objects' : ~(o.store = store /\ o.name = name)
  BY DEF Delete, At, WillHold, Holds

\* What is stored under a name is the one object of that name.
LEMMA UploadedOf ==
  ASSUME TypeOK, ObjectsNamed, NEW store, NEW name
  PROVE  /\ There(store, name) => /\ Uploaded(store, name) \in FileIds
                                  /\ Holds(store, name, Uploaded(store, name))
         /\ \A of : Holds(store, name, of) => There(store, name) /\ Uploaded(store, name) = of
<1>1. ASSUME There(store, name)
      PROVE  Uploaded(store, name) \in FileIds /\ Holds(store, name, Uploaded(store, name))
  <2> DEFINE o == CHOOSE o \in At(store, name) : TRUE
  <2>1. o \in At(store, name)
    BY <1>1 DEF There
  <2>2. Uploaded(store, name) = o.of
    BY DEF Uploaded
  <2> HIDE DEF o
  <2> QED
    BY <2>1, <2>2 DEF At, Holds, TypeOK, Stored
<1>2. ASSUME NEW of, Holds(store, name, of)
      PROVE  There(store, name) /\ Uploaded(store, name) = of
  <2>1. PICK p \in objects : p.store = store /\ p.name = name /\ p.of = of
    BY <1>2 DEF Holds
  <2>2. p \in At(store, name)
    BY <2>1 DEF At
  <2> DEFINE o == CHOOSE o \in At(store, name) : TRUE
  <2>3. o \in At(store, name)
    BY <2>2
  <2>4. Uploaded(store, name) = o.of
    BY DEF Uploaded
  <2> HIDE DEF o
  <2>5. o = p
    BY <2>1, <2>3 DEF At, ObjectsNamed
  <2> QED
    BY <2>1, <2>2, <2>4, <2>5 DEF There
<1> QED
  BY <1>1, <1>2

\* What a write knows of its file.
LEMMA OwnFacts ==
  ASSUME IInv, NEW r \in Requests, Writer(r), NEW h \in FileIds, h = req[r].file
  PROVE  /\ req[r].to \in Stores /\ req[r].row \in Row /\ h # r /\ req[r].op # "upload"
         /\ req[r].op \in {"replace", "edit", "delete"}
         /\ Made(h)
         /\ ~BothExcused(h) => \A q \in Requests : Writer(q) /\ req[q].file = h => q = r
         /\ ~BothExcused(h) /\ req[r].pc \notin {"clean", "tidy", "restore"} =>
              rows[h] = req[r].row /\ rows[h] # NoRow
         /\ ~Excused("content", h) /\ req[r].pc \notin {"clean", "tidy"} =>
              rows[h] = req[r].row /\ rows[h] # NoRow
         /\ ~Excused("content", h) /\ Harmless(r) /\ rows[h] # NoRow => Described(h)
<1>0. /\ req[r] \in Request /\ r \in Nat /\ NoRow \notin Row
  BY Constants DEF IInv, TypeOK
<1>1. /\ req[r].to \in Stores /\ req[r].row \in Row /\ h # r
      /\ req[r].op \in {"replace", "edit", "delete"}
  BY <1>0 DEF IInv, RequestsSound, Writer, Writes, Request
<1>2. ~BothExcused(h) => \A q \in Requests : Writer(q) /\ req[q].file = h => q = r
  BY DEF IInv, RowsSound, WritersApart, BothExcused
<1>3. /\ ~BothExcused(h) /\ req[r].pc \notin {"clean", "tidy", "restore"} => rows[h] = req[r].row
      /\ ~Excused("content", h) /\ req[r].pc \notin {"clean", "tidy"} => rows[h] = req[r].row
  BY DEF IInv, RowsSound, Unchanged, BothExcused
<1>4. ~Excused("content", h) /\ Harmless(r) /\ rows[h] # NoRow => Described(h)
  BY <1>2 DEF IInv, ContentKept, BothExcused
<1>5. Made(h)
  BY DEF IInv, RowsSound, RowsMade
<1> QED
  BY <1>0, <1>1, <1>2, <1>3, <1>4, <1>5

\* A step of r with the storage keeps the invariant if it keeps what it says of
\* r and its file.
Storing(r, h) ==
  /\ Onward(r) /\ Grows /\ Bounds /\ rows' = rows /\ enabled' = enabled
  /\ Writer(r) \/ req[r].op = "upload"
  /\ \/ objects' \subseteq objects
     \/ (\E o \in Stored : Adds(r, o)) /\ (Writer(r) \/ ~Made(h))
  /\ Elsewhere(r)

LEMMA StoringKeeps ==
  ASSUME IInv, NEW r \in Requests, NEW h \in FileIds, h = req[r].file,
         Storing(r, h), OwnContent(r, h)', OwnLeft(r, h)'
  PROVE  IInv'
<1> USE DEF IInv, Storing
<1>1. TypeOK'
  <2>1. objects' \subseteq Stored
    BY DEF TypeOK, Adds
  <2> QED
    BY <2>1 DEF TypeOK, Onward, Moved, Bounds
<1>2. RequestsSound'
  BY SoundKeeps DEF Bounds
<1>3. RowsSound'
  BY SameRows
<1>4. ObjectsNamed'
  BY NamesKeep
<1>5. ContentKept'
  BY ContentKeeps
<1>6. NothingLost'
  <2>1. \A o \in objects' : o \in objects \/ o.file = h
    BY DEF Adds
  <2> QED
    BY <2>1, LeftKeeps
<1>7. req[r].op # "read"
  BY DEF Writer, Writes
<1>8. ReadersServed'
  BY <1>7, ReadersKeep
<1> QED
  BY <1>1, <1>2, <1>3, <1>4, <1>5, <1>6, <1>8

\* What such a step must keep, of the content of r's file and of what is left over.
KeepsContent(r, h) ==
  /\ rows[h] # NoRow /\ ~Excused("content", h)' /\ (Writer(r)' => Harmless(r)') =>
       WillHold(rows[h].store, h, rows[h].of)
  /\ req[r].op = "replace" /\ ~Excused("content", h)' =>
       /\ req[r].to = Local /\ req'[r].pc \in {"unlink", "copy", "update", "restore"} =>
            IF req[r].row.store = Local THEN WillHold(Backups, r, req[r].row.of)
            ELSE WillHold(req[r].row.store, h, req[r].row.of)
       /\ req'[r].pc = "update" => WillHold(req[r].to, h, r)
  /\ req'[r].pc = "insert" => WillHold(req[r].to, r, r)
KeepsLeft(r, h) ==
  /\ \A o \in objects' : o.file = h => Explained(o, h)'
  /\ Writer(r)' /\ ~Excused("left", h)' =>
       /\ req'[r].pc = "row" => \A o \in objects' : o.file # h
       /\ req[r].op = "replace" =>
            /\ req[r].to = Local /\ req'[r].pc \in {"unlink", "copy", "update"} =>
                 req[r].row.store = Local
            /\ req'[r].pc = "update" => req[r].row.store = req[r].to

LEMMA StoreKeeps ==
  ASSUME IInv, NEW r \in Requests, NEW h \in FileIds, h = req[r].file,
         Storing(r, h), KeepsContent(r, h), KeepsLeft(r, h)
  PROVE  IInv'
<1>0. /\ rows' = rows /\ req'[r].op = req[r].op /\ req'[r].file = h /\ req'[r].to = req[r].to
      /\ req'[r].row = req[r].row
  BY DEF Storing, Onward, Moved
<1>1. Described(h)' <=> WillHold(rows[h].store, h, rows[h].of)
  BY <1>0 DEF Described, Holds, WillHold
<1>2. Safe(r)' <=> IF req[r].row.store = Local THEN WillHold(Backups, r, req[r].row.of)
                   ELSE WillHold(req[r].row.store, h, req[r].row.of)
  BY <1>0 DEF Safe, Holds, WillHold
<1>3. OnDisk(r)' <=> req[r].op = "replace" /\ req[r].to = Local
  BY <1>0 DEF OnDisk
<1>4. OwnContent(r, h)'
  <2>1. ASSUME rows[h] # NoRow, ~Excused("content", h)',
               \A q \in Requests : Writer(q)' /\ req'[q].file = h => Harmless(q)'
        PROVE  Described(h)'
    BY <1>0, <1>1, <2>1 DEF KeepsContent
  <2>2. ASSUME req[r].op = "replace", ~Excused("content", h)'
        PROVE  /\ OnDisk(r)' /\ req'[r].pc \in {"unlink", "copy", "update", "restore"} => Safe(r)'
               /\ req'[r].pc = "update" => WillHold(req[r].to, h, r)
    BY <1>2, <1>3, <2>2 DEF KeepsContent
  <2>3. req'[r].pc = "insert" => WillHold(req[r].to, r, r)
    BY DEF KeepsContent
  <2> QED
    BY <1>0, <2>1, <2>2, <2>3 DEF OwnContent, Holds, WillHold
<1>5. OwnLeft(r, h)'
  <2>1. \A o \in objects' : o.file = h => Explained(o, h)'
    BY DEF KeepsLeft
  <2> QED
    BY <1>0, <1>3, <2>1 DEF OwnLeft, KeepsLeft
<1> QED
  BY <1>4, <1>5, StoringKeeps

\* The excuses after a step with the storage.
LEMMA Accounts ==
  ASSUME TypeOK, UNCHANGED counted,
         history' = history \/ \E f \in FileIds, kind \in {"content", "left"} : history' = history \cup {<<kind, f>>}
  PROVE  Grows /\ Bounds /\ enabled' = enabled
  BY DEF TypeOK, Grows, Bounds, counted

LEMMA UploadFirst ==
  ASSUME IInv, NEW r \in Requests, Upload(r), Known(req[r].to), req[r].op = "upload"
  PROVE  IInv'
<1>1. /\ req[r].pc = "put" /\ Put(Object(req[r].to, r, req[r].file, r)) /\ Now(r, "insert")
      /\ rows' = rows /\ history' = history /\ UNCHANGED counted
  BY DEF Upload
<1>2. Moved(r) /\ req'[r].pc = "insert"
  BY <1>1, NowEffect DEF Labels, IInv
<1>3. PICK h \in FileIds : h = req[r].file /\ h = r /\ req[r].to \in Stores /\ r \in FileIds
  BY Constants DEF IInv, TypeOK, RequestsSound, Request
<1>4. Grows /\ Bounds /\ enabled' = enabled
  BY <1>1, Accounts DEF IInv
<1>5. ~Made(h) /\ rows[h] = NoRow
  BY <1>1, <1>3 DEF IInv, RowsSound, RowsMade, Made
<1>6. Onward(r)
  BY <1>1, <1>2 DEF Onward, Steps, IInv
<1>7. PICK p : p = Object(req[r].to, r, h, r)
  OBVIOUS
<1>8. p.store = req[r].to /\ p.name = r /\ p.file = h /\ p.of = r /\ p \in Stored
  BY <1>3, <1>7 DEF Object, Stored
<1>9. /\ WillHold(req[r].to, r, r)
      /\ \A s, n, u : Holds(s, n, u) /\ (s # req[r].to \/ n # r) => WillHold(s, n, u)
      /\ \A o \in objects' : o \in objects \/ o = p
      /\ objects' = (objects \ At(req[r].to, r)) \cup {p}
  BY <1>1, <1>3, <1>7, PutEffect
<1>10. Storing(r, h)
  <2>1. Adds(r, p)
    <3>1. objects' = (objects \ At(p.store, p.name)) \cup {p}
      BY <1>8, <1>9
    <3> QED
      BY <1>3, <1>8, <3>1 DEF Adds
  <2>2. Elsewhere(r)
    BY <1>3, <1>9, Constants DEF Elsewhere
  <2> QED
    BY <1>1, <1>4, <1>5, <1>6, <1>8, <2>1, <2>2 DEF Storing
<1>11. KeepsContent(r, h)
  BY <1>2, <1>5, <1>9 DEF KeepsContent
<1>12. KeepsLeft(r, h)
  <2>1. Early(p)'
    BY <1>1, <1>2, <1>3, <1>5, <1>8 DEF Early, Moved
  <2>2. ASSUME NEW o \in objects, o.file = h PROVE Explained(o, h)'
    <3>1. ~(Passing(o) /\ o.name = r)
      BY DEF Passing, OnDisk
    <3> QED
      BY <1>1, <1>2, <1>3, <1>4, <1>6, <2>2, <3>1, StaysExplained DEF IInv
  <2>3. ASSUME NEW o \in objects', o.file = h PROVE Explained(o, h)'
    BY <1>9, <2>1, <2>2, <2>3 DEF Explained
  <2> QED
    BY <1>2, <2>3 DEF KeepsLeft
<1> QED
  BY <1>3, <1>10, <1>11, <1>12, StoreKeeps

LEMMA UploadNext ==
  ASSUME IInv, NEW r \in Requests, Upload(r), Known(req[r].to), req[r].op # "upload"
  PROVE  IInv'
<1>1. /\ req[r].pc = "put" /\ Put(Object(req[r].to, r, req[r].file, r)) /\ Now(r, "backup")
      /\ rows' = rows /\ history' = history /\ UNCHANGED counted
  BY DEF Upload
<1>2. Moved(r) /\ req'[r].pc = "backup"
  BY <1>1, NowEffect DEF Labels, IInv
<1>3. req[r].op = "replace" /\ req[r].to = Local /\ Writer(r)
  <2>1. req[r].op = "replace"
    BY <1>1 DEF IInv, TypeOK, RequestsSound, Request, Steps
  <2> QED
    BY <1>1, <2>1 DEF IInv, RequestsSound, DiskSteps, Writer, Active, Writes
<1>4. PICK h \in FileIds : h = req[r].file
  BY DEF IInv, TypeOK, Request
<1>5. Grows /\ Bounds /\ enabled' = enabled
  BY <1>1, Accounts DEF IInv
<1>6. Onward(r)
  BY <1>1, <1>2, <1>3 DEF Onward, Steps, IInv
<1>7. h # r /\ Local \in Stores /\ Backups # Local /\ r \in FileIds
  BY <1>3, <1>4, OwnFacts, Constants
<1>8. PICK p : p = Object(Local, r, h, r)
  OBVIOUS
<1>9. p.store = Local /\ p.name = r /\ p.file = h /\ p.of = r /\ p \in Stored
  BY <1>7, <1>8 DEF Object, Stored
<1>10. /\ \A s, n, u : Holds(s, n, u) /\ (s # Local \/ n # r) => WillHold(s, n, u)
       /\ \A o \in objects' : o \in objects \/ o = p
       /\ objects' = (objects \ At(Local, r)) \cup {p}
  BY <1>1, <1>3, <1>4, <1>8, PutEffect
<1>11. Storing(r, h)
  <2>1. Adds(r, p)
    BY <1>3, <1>4, <1>9, <1>10 DEF Adds
  <2>2. Elsewhere(r)
    BY <1>7, <1>10 DEF Elsewhere
  <2> QED
    BY <1>1, <1>3, <1>5, <1>6, <1>9, <2>1, <2>2 DEF Storing
<1>12. KeepsContent(r, h)
  <2>1. Harmless(r)
    BY <1>1 DEF Harmless
  <2>2. rows[h] # NoRow /\ ~Excused("content", h) => Described(h)
    BY <1>3, <1>4, <2>1, OwnFacts
  <2>3. Excused("content", h) => Excused("content", h)'
    BY <1>5 DEF Grows, Excused
  <2> QED
    BY <1>2, <1>7, <1>10, <2>2, <2>3 DEF KeepsContent, Described
<1>13. KeepsLeft(r, h)
  <2>1. Passing(p)'
    BY <1>2, <1>3, <1>4, <1>9 DEF Passing, OnDisk, Moved
  <2>2. ASSUME NEW o \in objects, o.file = h PROVE Explained(o, h)'
    <3>1. ~(Passing(o) /\ o.name = r)
      BY <1>1 DEF Passing
    <3> QED
      BY <1>1, <1>4, <1>5, <1>6, <1>7, <2>2, <3>1, StaysExplained DEF IInv
  <2>3. ASSUME NEW o \in objects', o.file = h PROVE Explained(o, h)'
    BY <1>10, <2>1, <2>2, <2>3 DEF Explained
  <2> QED
    BY <1>2, <2>3 DEF KeepsLeft
<1> QED
  BY <1>4, <1>11, <1>12, <1>13, StoreKeeps

LEMMA RollBackKnown ==
  ASSUME IInv, NEW r \in Requests, RollBack(r), Known(req[r].to)
  PROVE  IInv'
<1>1. /\ req[r].pc = "rollback" /\ Delete(req[r].to, r) /\ End(r, "failed")
      /\ rows' = rows /\ history' = history /\ UNCHANGED counted
  BY DEF RollBack
<1>2. Moved(r) /\ req'[r].pc = "ended"
  BY <1>1, EndEffect DEF Answers, IInv
<1>3. req[r].op = "upload"
  BY <1>1 DEF IInv, TypeOK, RequestsSound, Request, Steps
<1>4. PICK h \in FileIds : h = req[r].file /\ h = r /\ req[r].to \in Stores /\ r \in FileIds
  BY <1>3, Constants DEF IInv, TypeOK, RequestsSound, Request
<1>5. Grows /\ Bounds /\ enabled' = enabled
  BY <1>1, Accounts DEF IInv
<1>6. Onward(r)
  BY <1>1, <1>2, <1>3 DEF Onward, Steps, IInv, DiskSteps
<1>7. /\ objects' \subseteq objects
      /\ \A s, n, u : Holds(s, n, u) /\ (s # req[r].to \/ n # r) => WillHold(s, n, u)
      /\ \A o \in objects' : ~(o.store = req[r].to /\ o.name = r)
  BY <1>1, DeleteEffect
<1>8. Storing(r, h)
  <2>1. Elsewhere(r)
    BY <1>4, <1>7, Constants DEF Elsewhere
  <2> QED
    BY <1>1, <1>3, <1>5, <1>6, <1>7, <2>1 DEF Storing
<1>9. KeepsContent(r, h)
  <2>1. rows[h] # NoRow => Excused("content", h)
    BY <1>1, <1>4 DEF IInv, RowsSound, RowsMade
  <2>2. Excused("content", h) => Excused("content", h)'
    BY <1>5 DEF Grows, Excused
  <2> QED
    BY <1>2, <1>3, <2>1, <2>2 DEF KeepsContent
<1>10. KeepsLeft(r, h)
  <2>1. ASSUME NEW o \in objects', o.file = h PROVE Explained(o, h)'
    <3>1. o \in objects /\ ~Early(o)
      BY <1>4, <1>7, <2>1 DEF Early
    <3>2. ~(Passing(o) /\ o.name = r)
      BY <1>3 DEF Passing, OnDisk
    <3> QED
      BY <1>1, <1>4, <1>5, <1>6, <2>1, <3>1, <3>2, StaysExplained DEF IInv
  <2> QED
    BY <1>2, <2>1 DEF KeepsLeft, Writer, Active
<1> QED
  BY <1>4, <1>8, <1>9, <1>10, StoreKeeps

LEMMA OverwriteKnown ==
  ASSUME IInv, NEW r \in Requests, Overwrite(r), Known(req[r].to), ~Lost(r)
  PROVE  IInv'
<1>1. /\ req[r].pc = "overwrite" /\ Put(Object(req[r].to, req[r].file, req[r].file, r)) /\ Now(r, "update")
      /\ \/ req[r].to = req[r].row.store /\ history' = history
         \/ history' = history \cup {<<"left", req[r].file>>}
      /\ rows' = rows /\ UNCHANGED counted
  BY DEF Overwrite, Excuse
<1>2. Moved(r) /\ req'[r].pc = "update"
  BY <1>1, NowEffect DEF Labels, IInv
<1>3. req[r].op = "replace" /\ req[r].to \in Clouds /\ Writer(r)
  <2>1. req[r].op = "replace"
    BY <1>1 DEF IInv, TypeOK, RequestsSound, Request, Steps
  <2> QED
    BY <1>1, <2>1 DEF IInv, RequestsSound, Writer, Active, Writes
<1>4. PICK h \in FileIds : h = req[r].file
  BY DEF IInv, TypeOK, Request
<1>5. Grows /\ Bounds /\ enabled' = enabled
  BY <1>1, <1>4, Accounts DEF IInv
<1>6. Onward(r)
  BY <1>1, <1>2, <1>3 DEF Onward, Steps, IInv, DiskSteps
<1>7. h # r /\ req[r].to \in Stores /\ req[r].to # Local /\ req[r].to # Backups /\ r \in FileIds
  BY <1>3, <1>4, OwnFacts, Constants
<1>8. PICK p : p = Object(req[r].to, h, h, r)
  OBVIOUS
<1>9. p.store = req[r].to /\ p.name = h /\ p.file = h /\ p.of = r /\ p \in Stored
  BY <1>7, <1>8 DEF Object, Stored
<1>10. /\ WillHold(req[r].to, h, r)
       /\ \A s, n, u : Holds(s, n, u) /\ (s # req[r].to \/ n # h) => WillHold(s, n, u)
       /\ \A o \in objects' : o \in objects \/ o = p
       /\ objects' = (objects \ At(p.store, p.name)) \cup {p}
  BY <1>1, <1>4, <1>8, <1>9, PutEffect
<1>11. Storing(r, h)
  <2>1. Adds(r, p)
    BY <1>4, <1>9, <1>10 DEF Adds
  <2>2. Elsewhere(r)
    BY <1>4, <1>7, <1>10 DEF Elsewhere
  <2> QED
    BY <1>1, <1>3, <1>5, <1>6, <1>9, <2>1, <2>2 DEF Storing
<1>12. KeepsContent(r, h)
  <2>1. Writer(r)' /\ ~Harmless(r)'
    BY <1>2, <1>3 DEF Harmless, Writer, Active, Writes, Moved
  <2> QED
    BY <1>2, <1>7, <1>10, <2>1 DEF KeepsContent
<1>13. KeepsLeft(r, h)
  <2>0. Excused("left", h)' \/ req[r].to = req[r].row.store
    BY <1>1, <1>4 DEF Excused
  <2>1. Explained(p, h)'
    <3>1. CASE Excused("left", h)'
      BY <3>1 DEF Explained
    <3>2. CASE ~Excused("left", h)'
      <4>1. ~BothExcused(h)
        BY <1>5, <3>2 DEF BothExcused, Excused, Grows
      <4>2. rows[h] = req[r].row /\ rows[h] # NoRow
        BY <1>1, <1>3, <1>4, <4>1, OwnFacts
      <4>3. Led(p)'
        BY <1>1, <1>9, <2>0, <3>2, <4>2 DEF Led
      <4> QED
        BY <4>3 DEF Explained
    <3> QED
      BY <3>1, <3>2
  <2>2. ASSUME NEW o \in objects, o.file = h PROVE Explained(o, h)'
    <3>1. ~(Passing(o) /\ o.name = r)
      BY <1>7 DEF Passing, OnDisk
    <3> QED
      BY <1>1, <1>4, <1>5, <1>6, <1>7, <2>2, <3>1, StaysExplained DEF IInv
  <2>3. ASSUME NEW o \in objects', o.file = h PROVE Explained(o, h)'
    BY <1>10, <2>1, <2>2, <2>3
  <2> QED
    BY <1>2, <1>7, <2>0, <2>3 DEF KeepsLeft
<1> QED
  BY <1>4, <1>11, <1>12, <1>13, StoreKeeps

\* Who replaces a file on the disk, and finds something there.
LEMMA FoundThere ==
  ASSUME IInv, NEW r \in Requests, NEW h \in FileIds, h = req[r].file, Writer(r), There(Local, h),
         req[r].pc = "backup", ~Excused("left", h)
  PROVE  req[r].row.store = Local
<1>1. PICK o \in objects : o.store = Local /\ o.name = h
  BY DEF There, At
<1>2. Made(h) /\ ~BothExcused(h)
  BY OwnFacts DEF BothExcused
<1>3. rows[h] = req[r].row /\ rows[h] # NoRow
  BY <1>2, OwnFacts
<1>4. o.file = h
  BY <1>1, <1>2 DEF IInv, ObjectsNamed, Made
<1>5. Led(o) \/ Early(o) \/ Passing(o)
  BY <1>4 DEF IInv, NothingLost
<1>6. ~Early(o)
  BY <1>3, <1>4 DEF Early
<1>7. ~Passing(o)
  BY <1>1, <1>2 DEF Passing, OnDisk, Made
<1> QED
  BY <1>1, <1>3, <1>4, <1>5, <1>6, <1>7 DEF Led

LEMMA BackupThere ==
  ASSUME IInv, NEW r \in Requests, Backup(r), There(Local, req[r].file), ~Lost(r)
  PROVE  IInv'
<1>1. /\ req[r].pc = "backup" /\ Now(r, "unlink")
      /\ Put(Object(Backups, r, req[r].file, Uploaded(Local, req[r].file)))
      /\ rows' = rows /\ history' = history /\ UNCHANGED counted
  BY DEF Backup
<1>2. Moved(r) /\ req'[r].pc = "unlink"
  BY <1>1, NowEffect DEF Labels, IInv
<1>3. req[r].op = "replace" /\ req[r].to = Local /\ Writer(r)
  <2>1. req[r].op = "replace"
    <3>1. req[r].pc \in Steps[req[r].op] /\ req[r] \in Request
      BY DEF IInv, TypeOK, RequestsSound
    <3> QED
      BY <1>1, <3>1 DEF Request, Steps
  <2> QED
    BY <1>1, <2>1 DEF IInv, RequestsSound, DiskSteps, Writer, Active, Writes
<1>4. PICK h \in FileIds : h = req[r].file
  BY DEF IInv, TypeOK, Request
<1>5. Grows /\ Bounds /\ enabled' = enabled
  BY <1>1, Accounts DEF IInv
<1>6. Onward(r)
  BY <1>1, <1>2, <1>3 DEF Onward, Steps, IInv
<1>7. /\ h # r /\ Local \in Stores /\ Backups # Local /\ Backups \notin Stores /\ r \in FileIds
      /\ \A row \in Row : row.store \in Stores
  BY <1>3, <1>4, OwnFacts, Constants DEF Row
<1>8. PICK u : u = Uploaded(Local, h)
  OBVIOUS
<1>9. u \in FileIds /\ \A of : Holds(Local, h, of) => u = of
  BY <1>4, <1>8, UploadedOf DEF IInv
<1>10. PICK p : p = Object(Backups, r, h, u)
  OBVIOUS
<1>11. p.store = Backups /\ p.name = r /\ p.file = h /\ p.of = u /\ p \in Stored
  BY <1>7, <1>9, <1>10 DEF Object, Stored
<1>12. /\ WillHold(Backups, r, u)
       /\ \A s, n, v : Holds(s, n, v) /\ (s # Backups \/ n # r) => WillHold(s, n, v)
       /\ \A o \in objects' : o \in objects \/ o = p
       /\ objects' = (objects \ At(Backups, r)) \cup {p}
  BY <1>1, <1>4, <1>8, <1>10, PutEffect
<1>13. Storing(r, h)
  <2>1. Adds(r, p)
    BY <1>3, <1>4, <1>11, <1>12 DEF Adds
  <2>2. Elsewhere(r)
    BY <1>7, <1>12 DEF Elsewhere
  <2> QED
    BY <1>1, <1>3, <1>5, <1>6, <1>11, <2>1, <2>2 DEF Storing
<1>14. KeepsContent(r, h)
  <2> SUFFICES ASSUME ~Excused("content", h)'
               PROVE  /\ WillHold(rows[h].store, h, rows[h].of)
                      /\ IF req[r].row.store = Local THEN WillHold(Backups, r, req[r].row.of)
                         ELSE WillHold(req[r].row.store, h, req[r].row.of)
    BY <1>2 DEF KeepsContent
  <2>1. ~Excused("content", h)
    BY <1>5 DEF Grows, Excused
  <2>2. Harmless(r)
    BY <1>1 DEF Harmless
  <2>3. rows[h] = req[r].row /\ Described(h) /\ req[r].row \in Row
    BY <1>1, <1>3, <1>4, <2>1, <2>2, OwnFacts
  <2>4. Holds(req[r].row.store, h, req[r].row.of) /\ req[r].row.store \in Stores
    BY <1>7, <2>3 DEF Described
  <2>5. WillHold(req[r].row.store, h, req[r].row.of)
    BY <1>7, <1>12, <2>4
  <2> QED
    BY <1>9, <1>12, <2>3, <2>4, <2>5
<1>15. KeepsLeft(r, h)
  <2>1. Passing(p)'
    BY <1>2, <1>3, <1>4, <1>11 DEF Passing, OnDisk, Moved
  <2>2. ASSUME NEW o \in objects, o.file = h PROVE Explained(o, h)'
    <3>1. Passing(o) /\ o.name = r => Passing(o)'
      BY <1>1, <1>2, <1>3 DEF Passing, OnDisk, Moved
    <3> QED
      BY <1>1, <1>4, <1>5, <1>6, <1>7, <2>2, <3>1, StaysExplained DEF IInv
  <2>3. ASSUME NEW o \in objects', o.file = h PROVE Explained(o, h)'
    BY <1>12, <2>1, <2>2, <2>3 DEF Explained
  <2>4. ~Excused("left", h)' => req[r].row.store = Local
    BY <1>1, <1>3, <1>4, <1>5, FoundThere DEF Grows, Excused
  <2> QED
    BY <1>2, <2>3, <2>4 DEF KeepsLeft
<1> QED
  BY <1>4, <1>13, <1>14, <1>15, StoreKeeps

LEMMA UnlinkThere ==
  ASSUME IInv, NEW r \in Requests, Unlink(r), There(Local, r), There(Local, req[r].file)
  PROVE  IInv'
<1>1. /\ req[r].pc = "unlink" /\ Now(r, "copy") /\ Delete(Local, req[r].file)
      /\ rows' = rows /\ history' = history /\ UNCHANGED counted
  BY DEF Unlink
<1>2. Moved(r) /\ req'[r].pc = "copy"
  BY <1>1, NowEffect DEF Labels, IInv
<1>3. req[r].op = "replace" /\ req[r].to = Local /\ Writer(r)
  <2>1. req[r].op = "replace"
    <3>1. req[r].pc \in Steps[req[r].op] /\ req[r] \in Request
      BY DEF IInv, TypeOK, RequestsSound
    <3> QED
      BY <1>1, <3>1 DEF Request, Steps
  <2> QED
    BY <1>1, <2>1 DEF IInv, RequestsSound, DiskSteps, Writer, Active, Writes
<1>4. PICK h \in FileIds : h = req[r].file
  BY DEF IInv, TypeOK, Request
<1>5. Grows /\ Bounds /\ enabled' = enabled
  BY <1>1, Accounts DEF IInv
<1>6. Onward(r)
  BY <1>1, <1>2, <1>3 DEF Onward, Steps, IInv
<1>7. h # r /\ Backups # Local /\ r \in FileIds
  BY <1>3, <1>4, OwnFacts, Constants
<1>8. /\ objects' \subseteq objects
      /\ \A s, n, u : Holds(s, n, u) /\ (s # Local \/ n # h) => WillHold(s, n, u)
  BY <1>1, <1>4, DeleteEffect
<1>9. Storing(r, h)
  <2>1. Elsewhere(r)
    BY <1>4, <1>7, <1>8 DEF Elsewhere
  <2> QED
    BY <1>1, <1>3, <1>5, <1>6, <1>8, <2>1 DEF Storing
<1>10. KeepsContent(r, h)
  <2>1. Writer(r)' /\ ~Harmless(r)'
    BY <1>2, <1>3 DEF Harmless, Writer, Active, Writes, Moved
  <2>2. ASSUME ~Excused("content", h)'
        PROVE  IF req[r].row.store = Local THEN WillHold(Backups, r, req[r].row.of)
               ELSE WillHold(req[r].row.store, h, req[r].row.of)
    <3>1. Safe(r)
      BY <1>1, <1>3, <1>4, <1>5, <2>2 DEF IInv, ContentKept, OnDisk, Grows, Excused
    <3> QED
      BY <1>4, <1>7, <1>8, <3>1 DEF Safe
  <2> QED
    BY <1>2, <2>1, <2>2 DEF KeepsContent
<1>11. KeepsLeft(r, h)
  <2>1. ASSUME NEW o \in objects', o.file = h PROVE Explained(o, h)'
    <3>1. Passing(o) /\ o.name = r => Passing(o)'
      BY <1>1, <1>2, <1>3 DEF Passing, OnDisk, Moved
    <3> QED
      BY <1>1, <1>4, <1>5, <1>6, <1>7, <1>8, <2>1, <3>1, StaysExplained DEF IInv
  <2>2. ~Excused("left", h)' => req[r].row.store = Local
    BY <1>1, <1>3, <1>4, <1>5 DEF IInv, NothingLost, OnDisk, Grows, Excused
  <2> QED
    BY <1>2, <2>1, <2>2 DEF KeepsLeft
<1> QED
  BY <1>4, <1>9, <1>10, <1>11, StoreKeeps

LEMMA CopyThere ==
  ASSUME IInv, NEW r \in Requests, Copy(r), There(Local, r)
  PROVE  IInv'
<1>1. /\ req[r].pc = "copy" /\ Now(r, "update") /\ Put(Object(Local, req[r].file, req[r].file, r))
      /\ rows' = rows /\ history' = history /\ UNCHANGED counted
  BY DEF Copy
<1>2. Moved(r) /\ req'[r].pc = "update"
  BY <1>1, NowEffect DEF Labels, IInv
<1>3. req[r].op = "replace" /\ req[r].to = Local /\ Writer(r)
  <2>1. req[r].op = "replace"
    <3>1. req[r].pc \in Steps[req[r].op] /\ req[r] \in Request
      BY DEF IInv, TypeOK, RequestsSound
    <3> QED
      BY <1>1, <3>1 DEF Request, Steps
  <2> QED
    BY <1>1, <2>1 DEF IInv, RequestsSound, DiskSteps, Writer, Active, Writes
<1>4. PICK h \in FileIds : h = req[r].file
  BY DEF IInv, TypeOK, Request
<1>5. Grows /\ Bounds /\ enabled' = enabled
  BY <1>1, Accounts DEF IInv
<1>6. Onward(r)
  BY <1>1, <1>2, <1>3 DEF Onward, Steps, IInv
<1>7. h # r /\ Backups # Local /\ Local \in Stores /\ r \in FileIds
  BY <1>3, <1>4, OwnFacts, Constants
<1>8. PICK p : p = Object(Local, h, h, r)
  OBVIOUS
<1>9. p.store = Local /\ p.name = h /\ p.file = h /\ p.of = r /\ p \in Stored
  BY <1>7, <1>8 DEF Object, Stored
<1>10. /\ WillHold(Local, h, r)
       /\ \A s, n, u : Holds(s, n, u) /\ (s # Local \/ n # h) => WillHold(s, n, u)
       /\ \A o \in objects' : o \in objects \/ o = p
       /\ objects' = (objects \ At(p.store, p.name)) \cup {p}
  BY <1>1, <1>4, <1>8, <1>9, PutEffect
<1>11. Storing(r, h)
  <2>1. Adds(r, p)
    BY <1>4, <1>9, <1>10 DEF Adds
  <2>2. Elsewhere(r)
    BY <1>4, <1>7, <1>10 DEF Elsewhere
  <2> QED
    BY <1>1, <1>3, <1>5, <1>6, <1>9, <2>1, <2>2 DEF Storing
<1>12. KeepsContent(r, h)
  <2>1. Writer(r)' /\ ~Harmless(r)'
    BY <1>2, <1>3 DEF Harmless, Writer, Active, Writes, Moved
  <2>2. ASSUME ~Excused("content", h)'
        PROVE  IF req[r].row.store = Local THEN WillHold(Backups, r, req[r].row.of)
               ELSE WillHold(req[r].row.store, h, req[r].row.of)
    <3>1. Safe(r)
      BY <1>1, <1>3, <1>4, <1>5, <2>2 DEF IInv, ContentKept, OnDisk, Grows, Excused
    <3> QED
      BY <1>4, <1>7, <1>10, <3>1 DEF Safe
  <2> QED
    BY <1>2, <1>3, <1>10, <2>1, <2>2 DEF KeepsContent
<1>13. KeepsLeft(r, h)
  <2>0. ~Excused("left", h)' => req[r].row.store = Local
    BY <1>1, <1>3, <1>4, <1>5 DEF IInv, NothingLost, OnDisk, Grows, Excused
  <2>1. Explained(p, h)'
    <3>1. CASE Excused("left", h)'
      BY <3>1 DEF Explained
    <3>2. CASE ~Excused("left", h)'
      <4>1. ~BothExcused(h)
        BY <1>5, <3>2 DEF BothExcused, Excused, Grows
      <4>2. rows[h] = req[r].row /\ rows[h] # NoRow
        BY <1>1, <1>3, <1>4, <4>1, OwnFacts
      <4>3. Led(p)'
        BY <1>1, <1>9, <2>0, <3>2, <4>2 DEF Led
      <4> QED
        BY <4>3 DEF Explained
    <3> QED
      BY <3>1, <3>2
  <2>2. ASSUME NEW o \in objects, o.file = h PROVE Explained(o, h)'
    <3>1. Passing(o) /\ o.name = r => Passing(o)'
      BY <1>1, <1>2, <1>3 DEF Passing, OnDisk, Moved
    <3> QED
      BY <1>1, <1>4, <1>5, <1>6, <1>7, <2>2, <3>1, StaysExplained DEF IInv
  <2>3. ASSUME NEW o \in objects', o.file = h PROVE Explained(o, h)'
    BY <1>10, <2>1, <2>2, <2>3
  <2> QED
    BY <1>2, <1>3, <2>0, <2>3 DEF KeepsLeft
<1> QED
  BY <1>4, <1>11, <1>12, <1>13, StoreKeeps

\* The new name goes, or the backup.
LEMMA CleanKnown ==
  ASSUME IInv, NEW r \in Requests, Clean(r), Known(Local)
  PROVE  IInv'
<1>1. /\ req[r].pc = "clean" /\ Now(r, "tidy") /\ Delete(Local, r)
      /\ rows' = rows /\ history' = history /\ UNCHANGED counted
  BY DEF Clean
<1>2. Moved(r) /\ req'[r].pc = "tidy"
  BY <1>1, NowEffect DEF Labels, IInv
<1>3. req[r].op = "replace" /\ req[r].to = Local /\ Writer(r)
  <2>1. req[r].op = "replace"
    <3>1. req[r].pc \in Steps[req[r].op] /\ req[r] \in Request
      BY DEF IInv, TypeOK, RequestsSound
    <3> QED
      BY <1>1, <3>1 DEF Request, Steps
  <2> QED
    BY <1>1, <2>1 DEF IInv, RequestsSound, DiskSteps, Writer, Active, Writes
<1>4. PICK h \in FileIds : h = req[r].file
  BY DEF IInv, TypeOK, Request
<1>5. Grows /\ Bounds /\ enabled' = enabled
  BY <1>1, Accounts DEF IInv
<1>6. Onward(r)
  BY <1>1, <1>2, <1>3 DEF Onward, Steps, IInv
<1>7. h # r /\ Backups # Local /\ r \in FileIds
  BY <1>3, <1>4, OwnFacts, Constants
<1>8. /\ objects' \subseteq objects
      /\ \A s, n, u : Holds(s, n, u) /\ (s # Local \/ n # r) => WillHold(s, n, u)
      /\ \A o \in objects' : ~(o.store = Local /\ o.name = r)
  BY <1>1, DeleteEffect
<1>9. Storing(r, h)
  <2>1. Elsewhere(r)
    BY <1>4, <1>7, <1>8 DEF Elsewhere
  <2> QED
    BY <1>1, <1>3, <1>5, <1>6, <1>8, <2>1 DEF Storing
<1>10. KeepsContent(r, h)
  <2>1. Harmless(r)
    BY <1>1 DEF Harmless
  <2>2. rows[h] # NoRow /\ ~Excused("content", h) => Described(h)
    BY <1>3, <1>4, <2>1, OwnFacts
  <2>3. Excused("content", h) => Excused("content", h)'
    BY <1>5 DEF Grows, Excused
  <2> QED
    BY <1>2, <1>7, <1>8, <2>2, <2>3 DEF KeepsContent, Described
<1>11. KeepsLeft(r, h)
  <2>1. ASSUME NEW o \in objects', o.file = h PROVE Explained(o, h)'
    <3>1. Passing(o) /\ o.name = r => Passing(o)'
      BY <1>1, <1>2, <1>3, <1>8, <2>1 DEF Passing, OnDisk, Moved
    <3> QED
      BY <1>1, <1>4, <1>5, <1>6, <1>7, <1>8, <2>1, <3>1, StaysExplained DEF IInv
  <2> QED
    BY <1>2, <2>1 DEF KeepsLeft
<1> QED
  BY <1>4, <1>9, <1>10, <1>11, StoreKeeps

LEMMA TidyKeeps ==
  ASSUME IInv, NEW r \in Requests, Tidy(r)
  PROVE  IInv'
<1>1. /\ req[r].pc = "tidy" /\ End(r, "done") /\ Delete(Backups, r)
      /\ rows' = rows /\ history' = history /\ UNCHANGED counted
  BY DEF Tidy
<1>2. Moved(r) /\ req'[r].pc = "ended"
  BY <1>1, EndEffect DEF Answers, IInv
<1>3. req[r].op = "replace" /\ req[r].to = Local /\ Writer(r)
  <2>1. req[r].op = "replace"
    <3>1. req[r].pc \in Steps[req[r].op] /\ req[r] \in Request
      BY DEF IInv, TypeOK, RequestsSound
    <3> QED
      BY <1>1, <3>1 DEF Request, Steps
  <2> QED
    BY <1>1, <2>1 DEF IInv, RequestsSound, DiskSteps, Writer, Active, Writes
<1>4. PICK h \in FileIds : h = req[r].file
  BY DEF IInv, TypeOK, Request
<1>5. Grows /\ Bounds /\ enabled' = enabled
  BY <1>1, Accounts DEF IInv
<1>6. Onward(r)
  BY <1>1, <1>2, <1>3 DEF Onward, Steps, IInv, DiskSteps
<1>7. h # r /\ Backups \notin Stores /\ r \in FileIds /\ \A row \in Row : row.store \in Stores
  BY <1>3, <1>4, OwnFacts, Constants DEF Row
<1>8. /\ objects' \subseteq objects
      /\ \A s, n, u : Holds(s, n, u) /\ (s # Backups \/ n # r) => WillHold(s, n, u)
      /\ \A o \in objects' : ~(o.store = Backups /\ o.name = r)
  BY <1>1, DeleteEffect
<1>9. Storing(r, h)
  <2>1. Elsewhere(r)
    BY <1>4, <1>7, <1>8 DEF Elsewhere
  <2> QED
    BY <1>1, <1>3, <1>5, <1>6, <1>8, <2>1 DEF Storing
<1>10. KeepsContent(r, h)
  <2>1. Harmless(r)
    BY <1>1 DEF Harmless
  <2>2. rows[h] # NoRow /\ ~Excused("content", h) => Described(h)
    BY <1>3, <1>4, <2>1, OwnFacts
  <2>3. Excused("content", h) => Excused("content", h)'
    BY <1>5 DEF Grows, Excused
  <2> QED
    BY <1>2, <1>7, <1>8, <2>2, <2>3 DEF KeepsContent, Described
<1>11. KeepsLeft(r, h)
  <2>1. ASSUME NEW o \in objects', o.file = h PROVE Explained(o, h)'
    <3>1. ~(Passing(o) /\ o.name = r)
      BY <1>1, <1>8, <2>1 DEF Passing
    <3> QED
      BY <1>1, <1>4, <1>5, <1>6, <1>7, <1>8, <2>1, <3>1, StaysExplained DEF IInv
  <2> QED
    BY <1>2, <2>1 DEF KeepsLeft, Writer, Active
<1> QED
  BY <1>4, <1>9, <1>10, <1>11, StoreKeeps

LEMMA RestoreKeeps ==
  ASSUME IInv, NEW r \in Requests, Restore(r)
  PROVE  IInv'
<1>1. /\ req[r].pc = "restore" /\ End(r, "failed") /\ history' = history \cup {<<"left", req[r].file>>}
      /\ rows' = rows /\ UNCHANGED counted
  BY DEF Restore, Excuse
<1>2. Moved(r) /\ req'[r].pc = "ended"
  BY <1>1, EndEffect DEF Answers, IInv
<1>3. req[r].op = "replace" /\ req[r].to = Local /\ Writer(r)
  <2>1. req[r].op = "replace"
    <3>1. req[r].pc \in Steps[req[r].op] /\ req[r] \in Request
      BY DEF IInv, TypeOK, RequestsSound
    <3> QED
      BY <1>1, <3>1 DEF Request, Steps
  <2> QED
    BY <1>1, <2>1 DEF IInv, RequestsSound, DiskSteps, Writer, Active, Writes
<1>4. PICK h \in FileIds : h = req[r].file
  BY DEF IInv, TypeOK, Request
<1>5. Grows /\ Bounds /\ enabled' = enabled
  BY <1>1, <1>4, Accounts DEF IInv
<1>6. Onward(r)
  BY <1>1, <1>2, <1>3 DEF Onward, Steps, IInv, DiskSteps
<1>7. h # r /\ Backups # Local /\ Local \in Stores /\ Backups \notin Stores /\ r \in FileIds
  BY <1>3, <1>4, OwnFacts, Constants
<1>8. PICK u : u = Uploaded(Backups, r)
  OBVIOUS
<1>9. /\ There(Backups, r) => u \in FileIds
      /\ \A of : Holds(Backups, r, of) => There(Backups, r) /\ u = of
  BY <1>8, UploadedOf DEF IInv
<1>10. PICK p : p = Object(Local, h, h, u)
  OBVIOUS
<1>11. p.store = Local /\ p.name = h /\ p.file = h /\ p.of = u
  BY <1>10 DEF Object
<1>12. There(Backups, r) => objects' = ((objects \ At(Local, h)) \ At(Backups, r)) \cup {p}
  BY <1>1, <1>4, <1>8, <1>10 DEF Restore
<1>13. ~There(Backups, r) => objects' = objects
  BY <1>4 DEF Restore
<1>14. \A s, n, v : Holds(s, n, v) /\ ~(s = Local /\ n = h) /\ ~(s = Backups /\ n = r) => WillHold(s, n, v)
  <2>1. CASE There(Backups, r)
    BY <1>12, <2>1 DEF Holds, WillHold, At
  <2>2. CASE ~There(Backups, r)
    BY <1>13, <2>2 DEF Holds, WillHold
  <2> QED
    BY <2>1, <2>2
<1>15. Storing(r, h)
  <2>1. CASE There(Backups, r)
    <3>1. p \in Stored
      BY <1>7, <1>9, <1>10, <2>1 DEF Object, Stored
    <3>2. objects' \subseteq (objects \ At(p.store, p.name)) \cup {p}
      BY <1>11, <1>12, <2>1
    <3>3. Adds(r, p)
      BY <1>4, <1>11, <3>1, <3>2 DEF Adds
    <3>4. Elsewhere(r)
      BY <1>4, <1>7, <1>14 DEF Elsewhere
    <3> QED
      BY <1>1, <1>3, <1>5, <1>6, <3>1, <3>3, <3>4 DEF Storing
  <2>2. CASE ~There(Backups, r)
    <3>1. Elsewhere(r)
      BY <1>4, <1>7, <1>14 DEF Elsewhere
    <3> QED
      BY <1>1, <1>3, <1>5, <1>6, <1>13, <2>2, <3>1 DEF Storing
  <2> QED
    BY <2>1, <2>2
<1>16. KeepsContent(r, h)
  <2>1. ASSUME rows[h] # NoRow, ~Excused("content", h)'
        PROVE  WillHold(rows[h].store, h, rows[h].of)
    <3>1. ~Excused("content", h)
      BY <1>5, <2>1 DEF Grows, Excused
    <3>2. rows[h] = req[r].row /\ req[r].row \in Row
      BY <1>1, <1>3, <1>4, <3>1, OwnFacts
    <3>3. Safe(r)
      BY <1>1, <1>3, <1>4, <3>1 DEF IInv, ContentKept, OnDisk
    <3>4. CASE req[r].row.store = Local
      <4>1. There(Backups, r) /\ u = req[r].row.of
        BY <1>9, <3>3, <3>4 DEF Safe
      <4>2. p \in objects'
        BY <1>12, <4>1
      <4> QED
        BY <1>11, <3>2, <3>4, <4>1, <4>2 DEF WillHold
    <3>5. CASE req[r].row.store # Local
      <4>1. Holds(req[r].row.store, h, req[r].row.of)
        BY <1>4, <3>3, <3>5 DEF Safe
      <4>2. req[r].row.store # Backups
        BY <1>7, <3>2 DEF Row
      <4> QED
        BY <1>14, <3>2, <3>5, <4>1, <4>2
    <3> QED
      BY <3>4, <3>5
  <2> QED
    BY <1>2, <2>1 DEF KeepsContent
<1>17. KeepsLeft(r, h)
  <2>1. Excused("left", h)'
    BY <1>1, <1>4 DEF Excused
  <2> QED
    BY <2>1 DEF KeepsLeft, Explained
<1> QED
  BY <1>4, <1>15, <1>16, <1>17, StoreKeeps

LEMMA RemoveKnown ==
  ASSUME IInv, NEW r \in Requests, Remove(r), Known(req[r].to), ~Lost(r)
  PROVE  IInv'
<1>1. /\ req[r].pc = "remove" /\ Now(r, "row") /\ Delete(req[r].to, req[r].file)
      /\ \/ req[r].to = req[r].row.store /\ history' = history
         \/ history' = history \cup {<<"left", req[r].file>>}
      /\ rows' = rows /\ UNCHANGED counted
  BY DEF Remove, Excuse
<1>2. Moved(r) /\ req'[r].pc = "row"
  BY <1>1, NowEffect DEF Labels, IInv
<1>3. req[r].op = "delete" /\ Writer(r)
  <2>1. req[r].op = "delete"
    <3>1. req[r].pc \in Steps[req[r].op] /\ req[r] \in Request
      BY DEF IInv, TypeOK, RequestsSound
    <3> QED
      BY <1>1, <3>1 DEF Request, Steps
  <2> QED
    BY <1>1, <2>1 DEF Writer, Active, Writes
<1>4. PICK h \in FileIds : h = req[r].file
  BY DEF IInv, TypeOK, Request
<1>5. Grows /\ Bounds /\ enabled' = enabled
  BY <1>1, <1>4, Accounts DEF IInv
<1>6. Onward(r)
  BY <1>1, <1>2, <1>3 DEF Onward, Steps, IInv
<1>7. h # r /\ Backups \notin Stores /\ req[r].to \in Stores /\ r \in FileIds
  BY <1>3, <1>4, OwnFacts, Constants
<1>8. /\ objects' \subseteq objects
      /\ \A s, n, u : Holds(s, n, u) /\ (s # req[r].to \/ n # h) => WillHold(s, n, u)
      /\ \A o \in objects' : ~(o.store = req[r].to /\ o.name = h)
  BY <1>1, <1>4, DeleteEffect
<1>9. Storing(r, h)
  <2>1. Elsewhere(r)
    BY <1>4, <1>7, <1>8 DEF Elsewhere
  <2> QED
    BY <1>1, <1>3, <1>5, <1>6, <1>8, <2>1 DEF Storing
<1>10. KeepsContent(r, h)
  <2>1. Writer(r)' /\ ~Harmless(r)'
    BY <1>2, <1>3 DEF Harmless, Writer, Active, Writes, Moved
  <2> QED
    BY <1>2, <1>3, <2>1 DEF KeepsContent
<1>11. KeepsLeft(r, h)
  <2>1. ASSUME NEW o \in objects', o.file = h PROVE Explained(o, h)'
    <3>1. ~(Passing(o) /\ o.name = r)
      BY <1>3 DEF Passing, OnDisk
    <3> QED
      BY <1>1, <1>4, <1>5, <1>6, <1>7, <1>8, <2>1, <3>1, StaysExplained DEF IInv
  <2>2. ASSUME ~Excused("left", h)', NEW o \in objects', o.file = h PROVE FALSE
    <3>1. ~Excused("left", h) /\ ~BothExcused(h) /\ req[r].to = req[r].row.store
      BY <1>1, <1>4, <1>5, <2>2 DEF Grows, Excused, BothExcused
    <3>2. /\ rows[h] = req[r].row /\ rows[h] # NoRow
          /\ \A q \in Requests : Writer(q) /\ req[q].file = h => q = r
      BY <1>1, <1>3, <1>4, <3>1, OwnFacts
    <3>3. Led(o) \/ Early(o) \/ Passing(o)
      BY <1>8, <2>2, <3>1 DEF IInv, NothingLost
    <3>4. ~Led(o)
      BY <1>8, <2>2, <3>1, <3>2 DEF Led
    <3>5. ~Early(o)
      BY <2>2, <3>2 DEF Early
    <3>6. ~Passing(o)
      <4> SUFFICES ASSUME Passing(o) PROVE FALSE
        OBVIOUS
      <4>1. o.name \in Requests /\ Writer(o.name) /\ req[o.name].file = h /\ req[o.name].op = "replace"
        BY <2>2 DEF Passing, OnDisk, Writer, Active, Writes
      <4> QED
        BY <1>3, <3>2, <4>1
    <3> QED
      BY <3>3, <3>4, <3>5, <3>6
  <2> QED
    BY <1>2, <1>3, <2>1, <2>2 DEF KeepsLeft
<1> QED
  BY <1>4, <1>9, <1>10, <1>11, StoreKeeps

-----------------------------------------------------------------------------
(* The steps with the storage *)

\* The steps of reads are of reads.
LEMMA NotReading ==
  ASSUME IInv, NEW r \in Requests
  PROVE  /\ req[r].pc \notin {"none", "look", "open", "send", "sending", "hanging", "ended"} =>
              req[r].op # "read"
         /\ req[r].pc \in {"look", "open", "send", "sending", "hanging"} => req[r].op = "read"
<1>1. req[r].pc \in Steps[req[r].op] /\ req[r] \in Request
  BY DEF IInv, TypeOK, RequestsSound
<1>2. req[r].op = "read" => req[r].pc \in {"look", "open", "send", "sending", "hanging", "ended"}
  BY <1>1 DEF Steps
<1>3. req[r].pc \in {"look", "open", "send", "sending", "hanging"} => req[r].op = "read"
  BY <1>1 DEF Steps, Request
<1> QED
  BY <1>2, <1>3

LEMMA EndQuiet ==
  ASSUME IInv, NEW r \in Requests, NEW answer \in Answers, End(r, answer),
         rows' = rows, objects' = objects, enabled' = enabled, Grows, Bounds,
         req[r].pc \in {"find", "put", "overwrite", "remove", "rollback", "backup", "tidy", "row",
                        "update", "restore"},
         NEW h \in FileIds, h = req[r].file,
         req[r].pc \in {"rollback", "backup", "tidy", "update", "restore"} => Excused("left", h)',
         req[r].pc \in {"row", "update", "restore"} => Excused("content", h)'
  PROVE  IInv'
<1>1. Moved(r) /\ req'[r].pc = "ended" /\ req[r].op # "read"
  BY EndEffect, NotReading DEF IInv
<1>2. Excused("left", h)' = Excused("left", req[r].file)' /\ Excused("content", h)' = Excused("content", req[r].file)'
  BY <1>1 DEF Moved, Excused
<1>3. Harmlessly(r)
  BY <1>1, <1>2 DEF Harmlessly, BothExcused
<1> QED
  BY <1>1, <1>3, QuietKeeps DEF Quiet

LEMMA NowQuiet ==
  ASSUME IInv, NEW r \in Requests, NEW label \in Labels, Now(r, label),
         rows' = rows, objects' = objects, enabled' = enabled, Grows, Bounds,
         NEW h \in FileIds, h = req[r].file,
         \/ req[r].pc = "insert" /\ label = "rollback"
         \/ req[r].pc \in {"unlink", "copy"} /\ label = "restore"
         \/ req[r].pc = "update" /\ label = "restore" /\ OnDisk(r)
         \/ req[r].pc = "clean" /\ label = "tidy" /\ Excused("left", h)'
  PROVE  IInv'
<1>1. Moved(r) /\ req'[r].pc = label /\ req[r].op # "read"
  BY NowEffect, NotReading DEF IInv
<1>2. Excused("left", h)' = Excused("left", req[r].file)'
  BY <1>1 DEF Moved, Excused
<1>3. Harmlessly(r)
  BY <1>1, <1>2 DEF Harmlessly
<1> QED
  BY <1>1, <1>3, QuietKeeps DEF Quiet

\* Every step of a write with the storage.
StorageStep(r) ==
  Upload(r) \/ RollBack(r) \/ Overwrite(r) \/ Backup(r) \/ Unlink(r) \/ Copy(r) \/ Clean(r) \/ Tidy(r)
    \/ Restore(r) \/ Remove(r)

LEMMA StorageStepKeeps == ASSUME IInv, NEW r \in Requests, StorageStep(r) PROVE IInv'
<1>1. PICK h \in FileIds : h = req[r].file
  BY DEF IInv, TypeOK, Request
<1>2. \A answer \in {"done", "failed"} : answer \in Answers
  BY DEF Answers
<1>3. CASE Upload(r)
  <2>1. CASE ~Known(req[r].to)
    <3>1. /\ req[r].pc = "put" /\ End(r, "failed") /\ objects' = objects /\ rows' = rows
          /\ history' = history /\ UNCHANGED counted
      BY <1>3, <2>1 DEF Upload
    <3> QED
      BY <1>1, <1>2, <3>1, Accounts, EndQuiet DEF IInv
  <2> QED
    BY <1>3, <2>1, UploadFirst, UploadNext
<1>4. CASE RollBack(r)
  <2>1. CASE ~Known(req[r].to)
    <3>1. /\ req[r].pc = "rollback" /\ End(r, "failed") /\ objects' = objects /\ rows' = rows
          /\ history' = history \cup {<<"left", r>>} /\ UNCHANGED counted
      BY <1>4, <2>1 DEF RollBack, Excuse
    <3>2. h = r
      <4>1. req[r].pc \in Steps[req[r].op] /\ req[r] \in Request
        BY DEF IInv, TypeOK, RequestsSound
      <4>2. req[r].op = "upload"
        BY <3>1, <4>1 DEF Request, Steps
      <4> QED
        BY <1>1, <4>2 DEF IInv, RequestsSound
    <3>3. Excused("left", h)' /\ Grows /\ Bounds /\ enabled' = enabled
      BY <3>1, <3>2, Accounts DEF Excused, IInv
    <3> QED
      BY <1>1, <1>2, <3>1, <3>3, EndQuiet
  <2> QED
    BY <1>4, <2>1, RollBackKnown
<1>5. CASE Overwrite(r)
  <2>1. CASE ~Known(req[r].to) \/ Lost(r)
    <3>1. /\ req[r].pc = "overwrite" /\ End(r, "failed") /\ objects' = objects /\ rows' = rows
          /\ history' = history /\ UNCHANGED counted
      BY <1>5, <2>1 DEF Overwrite
    <3> QED
      BY <1>1, <1>2, <3>1, Accounts, EndQuiet DEF IInv
  <2> QED
    BY <1>5, <2>1, OverwriteKnown
<1>6. CASE Backup(r)
  <2>1. CASE ~There(Local, req[r].file) \/ Lost(r)
    <3>1. /\ req[r].pc = "backup" /\ End(r, "failed") /\ objects' = objects /\ rows' = rows
          /\ history' = history \cup {<<"left", h>>} /\ UNCHANGED counted
      BY <1>1, <1>6, <2>1 DEF Backup, Excuse
    <3>2. Excused("left", h)' /\ Grows /\ Bounds /\ enabled' = enabled
      BY <3>1, Accounts DEF Excused, IInv
    <3> QED
      BY <1>1, <1>2, <3>1, <3>2, EndQuiet
  <2> QED
    BY <1>6, <2>1, BackupThere
<1>7. CASE Unlink(r)
  <2>1. CASE ~(There(Local, r) /\ There(Local, req[r].file))
    <3>1. /\ req[r].pc = "unlink" /\ Now(r, "restore") /\ objects' = objects /\ rows' = rows
          /\ history' = history /\ UNCHANGED counted
      BY <1>7, <2>1 DEF Unlink
    <3>2. Grows /\ Bounds /\ enabled' = enabled
      BY <3>1, Accounts DEF IInv
    <3> QED
      BY <1>1, <3>1, <3>2, NowQuiet DEF Labels
  <2> QED
    BY <1>7, <2>1, UnlinkThere
<1>8. CASE Copy(r)
  <2>1. CASE ~There(Local, r)
    <3>1. /\ req[r].pc = "copy" /\ Now(r, "restore") /\ objects' = objects /\ rows' = rows
          /\ history' = history /\ UNCHANGED counted
      BY <1>8, <2>1 DEF Copy
    <3>2. Grows /\ Bounds /\ enabled' = enabled
      BY <3>1, Accounts DEF IInv
    <3> QED
      BY <1>1, <3>1, <3>2, NowQuiet DEF Labels
  <2> QED
    BY <1>8, <2>1, CopyThere
<1>9. CASE Clean(r)
  <2>1. CASE ~Known(Local)
    <3>1. /\ req[r].pc = "clean" /\ Now(r, "tidy") /\ objects' = objects /\ rows' = rows
          /\ history' = history \cup {<<"left", h>>} /\ UNCHANGED counted
      BY <1>1, <1>9, <2>1 DEF Clean, Excuse
    <3>2. Excused("left", h)' /\ Grows /\ Bounds /\ enabled' = enabled
      BY <3>1, Accounts DEF Excused, IInv
    <3> QED
      BY <1>1, <3>1, <3>2, NowQuiet DEF Labels
  <2> QED
    BY <1>9, <2>1, CleanKnown
<1>10. CASE Remove(r)
  <2>1. CASE ~Known(req[r].to) \/ Lost(r)
    <3>1. /\ req[r].pc = "remove" /\ End(r, "failed") /\ objects' = objects /\ rows' = rows
          /\ history' = history /\ UNCHANGED counted
      BY <1>10, <2>1 DEF Remove
    <3> QED
      BY <1>1, <1>2, <3>1, Accounts, EndQuiet DEF IInv
  <2> QED
    BY <1>10, <2>1, RemoveKnown
<1> QED
  BY <1>3, <1>4, <1>5, <1>6, <1>7, <1>8, <1>9, <1>10, TidyKeeps, RestoreKeeps DEF StorageStep

-----------------------------------------------------------------------------
(* The steps that write a row *)

\* r writes the row of its file and nothing else, and keeps what it must.
Recording(r, h) ==
  /\ Onward(r) /\ Grows /\ Bounds /\ objects' = objects /\ enabled' = enabled
  /\ rows' \in [FileIds -> Row \cup {NoRow}] /\ \A f \in FileIds : f # h => rows'[f] = rows[f]
  /\ Writer(r) \/ req[r].pc = "insert"
  /\ rows'[h] # NoRow => Made(h)'
  /\ \/ req'[r].pc \in {"clean", "ended"}
     \/ Excused("content", h)' /\ req'[r].pc \in {"rollback", "restore"}
  /\ rows'[h] # NoRow /\ ~Excused("content", h)' => Holds(rows'[h].store, h, rows'[h].of)
  /\ \A o \in objects : o.file = h => Explained(o, h)'

LEMMA RecordKeeps ==
  ASSUME IInv, NEW r \in Requests, NEW h \in FileIds, h = req[r].file, Recording(r, h)
  PROVE  IInv'
<1> USE DEF IInv, Recording
<1>0. /\ req'[r].op = req[r].op /\ req'[r].file = h /\ req[r] \in Request /\ req'[r].to = req[r].to
      /\ req[r].pc = "insert" => req[r].op = "upload" /\ r = h /\ ~Made(h)
      /\ req'[r].pc = "rollback" => r = h
  <2>1. req[r].pc \in Steps[req[r].op] /\ req[r] \in Request
    BY DEF TypeOK, RequestsSound
  <2>2. req[r].pc = "insert" => req[r].op = "upload"
    BY <2>1 DEF Request, Steps
  <2>3. req'[r].pc = "rollback" => req[r].pc = "insert"
    BY DEF Onward
  <2>4. req[r].op = "upload" => r = h
    BY DEF RequestsSound
  <2> QED
    BY <2>1, <2>2, <2>3, <2>4 DEF Onward, Moved, Made
<1>1. TypeOK'
  BY DEF TypeOK, Onward, Moved, Bounds
<1>2. RequestsSound'
  BY SoundKeeps DEF Bounds
<1>3. RowsSound'
  <2>1. /\ \A f \in FileIds : rows'[f] # rows[f] => f = h /\ (rows'[f] # NoRow => Made(f)')
        /\ rows' # rows => Writer(r) \/ req[r].pc = "insert"
    OBVIOUS
  <2>2. rows' # rows /\ Writer(r)' =>
          \/ req'[r].pc = "clean"
          \/ Excused("content", req[r].file)' /\ req'[r].pc = "restore"
    <3> SUFFICES ASSUME Writer(r)'
                 PROVE  \/ req'[r].pc = "clean"
                        \/ Excused("content", req[r].file)' /\ req'[r].pc = "restore"
      OBVIOUS
    <3>1. req'[r].pc # "ended" /\ req[r].op # "upload"
      BY <1>0 DEF Writer, Active, Writes
    <3>2. req'[r].pc # "rollback"
      BY <1>0, <3>1 DEF Onward
    <3>3. Excused("content", req[r].file)' = Excused("content", h)'
      BY <1>0 DEF Excused
    <3> QED
      BY <3>1, <3>2, <3>3
  <2>3. req'[r].pc = "rollback" /\ ~Excused("content", r)' => rows'[r] = NoRow
    BY <1>0
  <2>4. Records(r)
    BY <2>1, <2>2, <2>3 DEF Records
  <2> QED
    BY <2>4, RowsKeep
<1>4. ObjectsNamed'
  BY NamesKeep
<1>5. ContentKept'
  <2>1. Elsewhere(r)
    BY DEF Elsewhere, Holds, WillHold
  <2>2. Described(h)' <=> Holds(rows'[h].store, h, rows'[h].of)
    BY DEF Described, Holds
  <2>3. req'[r].pc \notin {"unlink", "copy", "update", "insert"}
    OBVIOUS
  <2>4. req'[r].pc = "restore" => Excused("content", h)'
    OBVIOUS
  <2>5. OwnContent(r, h)'
    BY <1>0, <2>2, <2>3, <2>4 DEF OwnContent
  <2> QED
    BY <1>0, <2>1, <2>5, ContentKeeps
<1>6. NothingLost'
  <2>1. req'[r].pc \notin {"unlink", "copy", "update", "row"}
    OBVIOUS
  <2>2. OwnLeft(r, h)'
    BY <2>1 DEF OwnLeft
  <2> QED
    BY <2>2, LeftKeeps
<1>7. req[r].op # "read"
  BY <1>0 DEF Writer, Writes
<1>8. ReadersServed'
  BY <1>0, <1>7, ReadersKeep
<1> QED
  BY <1>1, <1>2, <1>3, <1>4, <1>5, <1>6, <1>8

\* An object stays explained where the row leads to the same storage as before.
LEMMA RowExplained ==
  ASSUME TypeOK, RequestsSound, NothingLost, NEW r \in Requests, Onward(r), Grows,
         NEW h \in FileIds, h = req[r].file, NEW o \in objects, o.file = h,
         rows[h] # NoRow, rows'[h] # NoRow,
         rows'[h].store = rows[h].store \/ Excused("left", h)',
         Passing(o) /\ o.name = r => Passing(o)' \/ Excused("left", h)'
  PROVE  Explained(o, h)'
<1>0. /\ \A q \in Requests : q # r => req'[q] = req[q]
      /\ Excused("left", h) => Excused("left", h)'
  BY DEF Onward, Moved, Grows, Excused
<1>1. Excused("left", h) \/ Led(o) \/ Passing(o)
  BY DEF NothingLost, Early
<1>2. CASE Excused("left", h)'
  BY <1>2 DEF Explained
<1>3. CASE Led(o) /\ ~Excused("left", h)'
  <2>1. Led(o)'
    BY <1>3 DEF Led
  <2> QED
    BY <2>1 DEF Explained
<1>4. CASE Passing(o)
  <2>1. CASE o.name = r
    BY <1>4, <2>1 DEF Explained
  <2>2. CASE o.name # r
    BY <1>0, <1>4, <2>2 DEF Passing, Explained, OnDisk
  <2> QED
    BY <2>1, <2>2
<1> QED
  BY <1>0, <1>1, <1>2, <1>3, <1>4

\* The row of an upload is made; the caller may be told that it is not.
LEMMA InsertKeeps ==
  ASSUME IInv, NEW r \in Requests, req[r].pc = "insert", Grows, Bounds,
         rows' = [rows EXCEPT ![r] = [store |-> req[r].to, of |-> r]],
         End(r, "done") \/ (Now(r, "rollback") /\ Excused("content", r)'),
         objects' = objects, enabled' = enabled
  PROVE  IInv'
<1>1. Moved(r) /\ (req'[r].pc = "ended" \/ (req'[r].pc = "rollback" /\ Excused("content", r)'))
  BY NowEffect, EndEffect DEF Labels, Answers, IInv
<1>2. req[r].op = "upload" /\ req[r] \in Request
  <2>1. req[r].pc \in Steps[req[r].op] /\ req[r] \in Request
    BY DEF IInv, TypeOK, RequestsSound
  <2> QED
    BY <2>1 DEF Request, Steps
<1>3. PICK h \in FileIds : h = r /\ h = req[r].file
  BY <1>2, Constants DEF IInv, RequestsSound
<1>4. req[r].to \in Stores /\ ~Made(h) /\ rows[h] = NoRow /\ Holds(req[r].to, h, r)
  BY <1>2, <1>3 DEF IInv, RequestsSound, Made, RowsSound, RowsMade, ContentKept, Request
<1>5. Onward(r)
  BY <1>1, <1>2, <1>3 DEF Onward, Steps
<1>6. /\ rows' \in [FileIds -> Row \cup {NoRow}] /\ \A f \in FileIds : f # h => rows'[f] = rows[f]
      /\ rows'[h].store = req[r].to /\ rows'[h].of = r /\ rows'[h] # NoRow
  <2>1. [store |-> req[r].to, of |-> r] \in Row
    BY <1>3, <1>4 DEF Row
  <2>2. rows \in [FileIds -> Row \cup {NoRow}] /\ NoRow \notin Row
    BY Constants DEF IInv, TypeOK
  <2> QED
    BY <1>3, <2>1, <2>2
<1>7. Made(h)'
  BY <1>1, <1>2, <1>3 DEF Made, Moved
<1>8. ASSUME NEW o \in objects, o.file = h PROVE Explained(o, h)'
  <2>1. ~Led(o)
    BY <1>4, <1>8 DEF Led
  <2>2. ~Passing(o)
    <3> SUFFICES ASSUME Passing(o) PROVE FALSE
      OBVIOUS
    <3>1. o.name \in Requests /\ Writer(o.name) /\ req[o.name].file = h
      BY <1>8 DEF Passing, OnDisk, Writer, Active, Writes
    <3> QED
      BY <1>4, <3>1 DEF IInv, RowsSound, RowsMade
  <2>3. Excused("left", h) \/ Early(o)
    BY <1>8, <2>1, <2>2 DEF IInv, NothingLost
  <2>4. CASE Early(o)
    <3>1. Led(o)'
      BY <1>3, <1>6, <1>8, <2>4 DEF Early, Led
    <3> QED
      BY <3>1 DEF Explained
  <2>5. CASE Excused("left", h)
    BY <2>5 DEF Explained, Excused, Grows
  <2> QED
    BY <2>3, <2>4, <2>5
<1>9. Excused("content", r)' => Excused("content", h)'
  BY <1>3 DEF Excused
<1>10. Recording(r, h)
  BY <1>1, <1>4, <1>5, <1>6, <1>7, <1>8, <1>9 DEF Recording
<1> QED
  BY <1>3, <1>10, RecordKeeps

\* A write changes the row of its file, and goes on, gives up or ends.
LEMMA UpdateKeeps ==
  ASSUME IInv, NEW r \in Requests, req[r].pc = "update", NEW h \in FileIds, h = req[r].file,
         Grows, Bounds, rows[h] # NoRow,
         rows' = [rows EXCEPT ![h] = Written(r)],
         \/ OnDisk(r) /\ Now(r, "clean")
         \/ OnDisk(r) /\ Now(r, "restore") /\ Excused("content", h)'
         \/ ~OnDisk(r) /\ \E answer \in {"done", "failed"} : End(r, answer),
         req[r].op = "edit" /\ rows[h].store # req[r].to => BothExcused(h)',
         objects' = objects, enabled' = enabled
  PROVE  IInv'
<1>1. /\ Moved(r)
      /\ \/ OnDisk(r) /\ req'[r].pc = "clean"
         \/ OnDisk(r) /\ req'[r].pc = "restore" /\ Excused("content", h)'
         \/ ~OnDisk(r) /\ req'[r].pc = "ended"
  BY NowEffect, EndEffect DEF Labels, Answers, IInv
<1>2. req[r].op \in {"replace", "edit"} /\ req[r] \in Request /\ req[r].to # NoStore /\ Writer(r)
  <2>1. req[r].pc \in Steps[req[r].op] /\ req[r] \in Request
    BY DEF IInv, TypeOK, RequestsSound
  <2>2. req[r].op \in {"replace", "edit"}
    BY <2>1 DEF Request, Steps
  <2>3. Writer(r)
    BY <2>2 DEF Writer, Active, Writes
  <2> QED
    BY <2>1, <2>2, <2>3 DEF IInv, RequestsSound, Writer
<1>3. req[r].to \in Stores /\ r \in FileIds /\ h # r /\ Made(h)
  BY <1>2, OwnFacts, Constants
<1>4. Onward(r)
  <2>1. req[r].pc \in Steps[req[r].op] /\ (OnDisk(r) => req[r].op = "replace" /\ req[r].to = Local)
    BY DEF OnDisk, IInv, RequestsSound
  <2>2. req'[r].pc \in Steps[req[r].op]
    BY <1>1, <1>2, <2>1 DEF Steps
  <2> QED
    BY <1>1, <1>2, <2>1, <2>2 DEF Onward, DiskSteps
<1>5. PICK of \in FileIds : of = IF req[r].op = "replace" THEN r ELSE rows[h].of
  <2>1. rows[h] \in Row
    BY DEF IInv, TypeOK
  <2> QED
    BY <1>3, <2>1 DEF Row
<1>6. /\ rows' \in [FileIds -> Row \cup {NoRow}] /\ \A f \in FileIds : f # h => rows'[f] = rows[f]
      /\ rows'[h].store = req[r].to /\ rows'[h].of = of /\ rows'[h] # NoRow
  <2>1. PICK row \in Row : row = Written(r) /\ row.store = req[r].to /\ row.of = of
    BY <1>3, <1>5 DEF Row, Written
  <2>2. rows \in [FileIds -> Row \cup {NoRow}] /\ NoRow \notin Row
    BY Constants DEF IInv, TypeOK
  <2> QED
    BY <2>1, <2>2
<1>7. Made(h)'
  BY <1>3, <1>4, WritersStay
<1>8. ASSUME ~Excused("content", h)' PROVE Holds(req[r].to, h, of)
  <2>1. ~Excused("content", h)
    BY <1>8 DEF Grows, Excused
  <2>2. CASE req[r].op = "replace"
    BY <1>5, <2>1, <2>2 DEF IInv, ContentKept
  <2>3. CASE req[r].op = "edit"
    <3>1. Described(h)
      BY <1>2, <2>1, <2>3, OwnFacts DEF Harmless
    <3>2. rows[h].store = req[r].to
      BY <1>8, <2>3 DEF BothExcused
    <3> QED
      BY <1>5, <2>3, <3>1, <3>2 DEF Described
  <2> QED
    BY <1>2, <2>2, <2>3
<1>9. ASSUME NEW o \in objects, o.file = h PROVE Explained(o, h)'
  <2>1. rows'[h].store = rows[h].store \/ Excused("left", h)'
    <3> SUFFICES ASSUME ~Excused("left", h)' PROVE rows'[h].store = rows[h].store
      OBVIOUS
    <3>1. ~Excused("left", h) /\ ~BothExcused(h) /\ ~BothExcused(h)'
      BY DEF Grows, Excused, BothExcused
    <3>2. CASE req[r].op = "edit"
      BY <1>6, <3>1, <3>2
    <3>3. CASE req[r].op = "replace"
      <4>1. rows[h] = req[r].row
        BY <1>2, <3>1, OwnFacts
      <4>2. req[r].row.store = req[r].to
        BY <1>2, <3>1, <3>3 DEF IInv, NothingLost
      <4> QED
        BY <1>6, <4>1, <4>2
    <3> QED
      BY <1>2, <3>2, <3>3
  <2>2. Passing(o) /\ o.name = r => Passing(o)'
    BY <1>1 DEF Passing, OnDisk, Moved
  <2> QED
    BY <1>4, <1>6, <1>9, <2>1, <2>2, RowExplained DEF IInv
<1>10. Recording(r, h)
  BY <1>1, <1>2, <1>4, <1>6, <1>7, <1>8, <1>9 DEF Recording
<1> QED
  BY <1>10, RecordKeeps

LEMMA DeleteRowKeeps ==
  ASSUME IInv, NEW r \in Requests, DeleteRow(r)
  PROVE  IInv'
<1>1. PICK h \in FileIds : h = req[r].file
  BY DEF IInv, TypeOK, Request
<1>2. /\ req[r].pc = "row" /\ rows' = [rows EXCEPT ![h] = NoRow] /\ objects' = objects
      /\ history' = history /\ UNCHANGED counted /\ \E answer \in {"done", "failed"} : End(r, answer)
  BY <1>1 DEF DeleteRow
<1>3. Moved(r) /\ req'[r].pc = "ended" /\ Grows /\ Bounds /\ enabled' = enabled
  BY <1>2, EndEffect, Accounts DEF Answers, IInv
<1>4. Writer(r) /\ req[r].op = "delete"
  <2>1. req[r].pc \in Steps[req[r].op] /\ req[r] \in Request
    BY DEF IInv, TypeOK, RequestsSound
  <2>2. req[r].op = "delete"
    BY <1>2, <2>1 DEF Request, Steps
  <2> QED
    BY <1>2, <2>2 DEF Writer, Active, Writes
<1>5. Onward(r)
  BY <1>2, <1>3, <1>4 DEF Onward, Steps, DiskSteps
<1>6. /\ rows' \in [FileIds -> Row \cup {NoRow}] /\ \A f \in FileIds : f # h => rows'[f] = rows[f]
      /\ rows'[h] = NoRow
  BY <1>2 DEF IInv, TypeOK
<1>7. ASSUME NEW o \in objects, o.file = h PROVE Explained(o, h)'
  <2>1. Excused("left", h)
    BY <1>1, <1>2, <1>4, <1>7 DEF IInv, NothingLost
  <2> QED
    BY <1>3, <2>1 DEF Explained, Excused, Grows
<1>8. Recording(r, h)
  BY <1>2, <1>3, <1>4, <1>5, <1>6, <1>7 DEF Recording
<1> QED
  BY <1>1, <1>8, RecordKeeps

-----------------------------------------------------------------------------
(* Steps of readers, and requests that begin *)

\* r, which does not write, steps or begins; rows and objects stay.
Aside(r) ==
  /\ req' \in [Requests -> Request] /\ \A q \in Requests : q # r => req'[q] = req[q]
  /\ rows' = rows /\ objects' = objects /\ enabled' = enabled /\ Grows
  /\ history' \subseteq {"read", "content", "left"} \X FileIds
  /\ started' \in Nat /\ troubles' \in Nat /\ database' = database /\ plan' = plan
  /\ req[r].op \in {"none", "read"}
  /\ \/ req'[r].op = "read" /\ (req'[r].pc = "open" => Made(req'[r].file))
     \/ req[r].op = "none" /\ req'[r].pc = "find"
     \/ req[r].op = "none" /\ req'[r].pc = "put" /\ req'[r].op = "upload"

\* The reader r, of the file h, has what it should.
Serves(r, h) ==
  /\ req'[r].pc = "open" => /\ rows[h] = req'[r].row
                            /\ \A q \in Requests : Writer(q) => req[q].file # h
  /\ req'[r].pc \in {"send", "sending", "hanging"} => req'[r].got = req'[r].row.of
  /\ req'[r].pc = "ended" /\ req'[r].row # NoRow =>
       /\ req'[r].row.store \in enabled => req'[r].answer # "error"
       /\ req'[r].answer = "content" => req'[r].got = req'[r].row.of

LEMMA AsideKeeps ==
  ASSUME IInv, NEW r \in Requests, Aside(r), RequestsSound', NEW h \in FileIds, h = req'[r].file,
         req'[r].op = "read" /\ ~Excused("read", r)' /\ ~Excused("content", h)' => Serves(r, h)
  PROVE  IInv'
<1> USE DEF IInv
<1>0. /\ \A q \in Requests : req[q] \in Request /\ req'[q] \in Request /\ q \in FileIds
      /\ \A kind, f : Excused(kind, f) => Excused(kind, f)'
      /\ \A q \in Requests : q # r => req'[q] = req[q]
      /\ rows' = rows /\ objects' = objects
  BY Constants DEF TypeOK, Aside, Grows, Excused
<1>r. req[r].pc \in Steps[req[r].op] /\ req'[r].pc \in Steps[req'[r].op]
  BY DEF RequestsSound
<1>w. /\ ~Writer(r) /\ ~Writer(r)'
      /\ req[r].pc \notin {"insert", "rollback"} /\ req'[r].pc \notin {"insert", "rollback"}
      /\ req[r].op # "replace" /\ req[r].op # "upload"
      /\ req'[r].op = "replace" => req'[r].pc = "find"
  BY <1>r DEF Aside, Writer, Writes, Active, Steps
<1>q. ASSUME NEW q \in Requests
      PROVE  /\ Writer(q)' <=> Writer(q)
             /\ Writer(q) => q # r /\ req'[q] = req[q]
  <2>1. CASE q = r
    BY <1>w, <2>1
  <2>2. CASE q # r
    BY <1>0, <2>2 DEF Writer, Writes, Active
  <2> QED
    BY <2>1, <2>2
<1>m. ASSUME NEW f, Made(f) PROVE Made(f)'
  BY <1>0, <1>w, <1>m DEF Made
<1>1. TypeOK'
  BY DEF TypeOK, Aside
<1>2. RowsSound'
  <2>1. RowsMade'
    <3>1. ASSUME NEW f \in FileIds, rows'[f] # NoRow PROVE Made(f)'
      BY <1>0, <1>m, <3>1 DEF RowsSound, RowsMade
    <3>2. ASSUME NEW q \in Requests, Writer(q)' \/ req'[q].pc = "open" PROVE Made(req[q].file)'
      <4>1. PICK f \in FileIds : f = req'[q].file
        BY <1>0 DEF Request
      <4>2. Made(f)
        <5>1. CASE q = r
          <6>1. req'[r].pc = "open"
            BY <1>w, <3>2, <5>1
          <6>2. req'[r].op = "read"
            BY <6>1 DEF Aside
          <6> QED
            BY <4>1, <5>1, <6>1, <6>2, <1>0 DEF Aside, Made
        <5>2. CASE q # r
          BY <1>0, <1>q, <3>2, <4>1, <5>2 DEF RowsSound, RowsMade
        <5> QED
          BY <5>1, <5>2
      <4>3. Made(f)'
        BY <1>m, <4>2
      <4> QED
        BY <4>1, <4>3 DEF Made
    <3>3. ASSUME NEW q \in Requests, req'[q].pc = "rollback", ~Excused("content", q)'
          PROVE  rows'[q] = NoRow /\ \A p \in Requests : Writer(p)' => req'[p].file # q
      <4>1. q # r /\ req[q].pc = "rollback" /\ ~Excused("content", q)
        BY <1>0, <1>w, <3>3
      <4> QED
        BY <1>0, <1>q, <4>1 DEF RowsSound, RowsMade
    <3> QED
      BY <3>1, <3>2, <3>3 DEF RowsMade
  <2>2. WritersApart'
    BY <1>0, <1>q DEF RowsSound, WritersApart
  <2>3. Unchanged'
    BY <1>0, <1>q DEF RowsSound, Unchanged
  <2> QED
    BY <2>1, <2>2, <2>3 DEF RowsSound
<1>3. ObjectsNamed'
  BY <1>0, <1>w DEF ObjectsNamed
<1>4. ContentKept'
  <2>1. ASSUME NEW f \in FileIds, rows'[f] # NoRow, ~Excused("content", f)',
               \A q \in Requests : Writer(q)' /\ req'[q].file = f => Harmless(q)'
        PROVE  Described(f)'
    <3>1. ASSUME NEW q \in Requests, Writer(q), req[q].file = f PROVE Harmless(q)
      <4>1. Writer(q)' /\ req'[q] = req[q]
        BY <1>q, <3>1
      <4>2. Harmless(q)'
        BY <2>1, <3>1, <4>1
      <4> QED
        BY <4>1, <4>2 DEF Harmless
    <3>2. Described(f)
      BY <1>0, <2>1, <3>1 DEF ContentKept
    <3> QED
      BY <1>0, <3>2 DEF Described, Holds
  <2>2. ASSUME NEW q \in Requests, q # r, req[q].op = "replace", ~Excused("content", req[q].file)'
        PROVE  /\ OnDisk(q) /\ req[q].pc \in {"unlink", "copy", "update", "restore"} => Safe(q)
               /\ req[q].pc = "update" => Holds(req[q].to, req[q].file, q)
    BY <1>0, <2>2 DEF ContentKept
  <2>3. ASSUME NEW q \in Requests, q # r
        PROVE  /\ req'[q] = req[q] /\ OnDisk(q)' = OnDisk(q) /\ Safe(q)' = Safe(q)
               /\ req[q].pc = "insert" => Holds(req[q].to, q, q)
    BY <1>0, <2>3 DEF OnDisk, Safe, Holds, ContentKept
  <2>4. \A store, name, of : Holds(store, name, of) => WillHold(store, name, of)
    BY <1>0 DEF Holds, WillHold
  <2>5. ASSUME NEW q \in Requests, req'[q].op = "replace", ~Excused("content", req[q].file)'
        PROVE  /\ OnDisk(q)' /\ req'[q].pc \in {"unlink", "copy", "update", "restore"} => Safe(q)'
               /\ req'[q].pc = "update" => WillHold(req'[q].to, req'[q].file, q)
    <3>1. CASE q = r
      BY <1>w, <2>5, <3>1
    <3>2. CASE q # r
      <4>1. req'[q] = req[q] /\ ~(<<"content", req[q].file>> \in history')
        BY <2>3, <2>5, <3>2 DEF Excused
      <4>2. /\ OnDisk(q) /\ req[q].pc \in {"unlink", "copy", "update", "restore"} => Safe(q)
            /\ req[q].pc = "update" => Holds(req[q].to, req[q].file, q)
        BY <2>2, <2>3, <2>5, <3>2, <4>1
      <4> QED
        BY <2>3, <2>4, <3>2, <4>1, <4>2
    <3> QED
      BY <3>1, <3>2
  <2>6. ASSUME NEW q \in Requests, req'[q].pc = "insert" PROVE WillHold(req'[q].to, q, q)
    BY <1>w, <2>3, <2>4, <2>6
  <2> QED
    BY <2>1, <2>5, <2>6 DEF ContentKept, Holds, WillHold
<1>5. NothingLost'
  <2>1. ASSUME NEW o \in objects', ~Excused("left", o.file)'
        PROVE  Led(o)' \/ Early(o)' \/ Passing(o)'
    <3>1. Led(o) \/ Early(o) \/ Passing(o)
      BY <1>0, <2>1 DEF NothingLost
    <3>2. CASE Led(o)
      BY <1>0, <3>2 DEF Led
    <3>3. CASE Early(o)
      BY <1>0, <1>w, <3>3 DEF Early
    <3>4. CASE Passing(o)
      BY <1>0, <1>w, <3>4 DEF Passing, OnDisk
    <3> QED
      BY <3>1, <3>2, <3>3, <3>4
  <2>2. ASSUME NEW q \in Requests, Writer(q)', ~Excused("left", req[q].file)'
        PROVE  /\ req'[q].pc = "row" => \A o \in objects' : o.file # req'[q].file
               /\ OnDisk(q)' /\ req'[q].pc \in {"unlink", "copy", "update"} =>
                    req'[q].row.store = Local
               /\ req'[q].op = "replace" /\ req'[q].pc = "update" =>
                    req'[q].row.store = req'[q].to
    <3>1. Writer(q) /\ req'[q] = req[q] /\ OnDisk(q)' = OnDisk(q)
      BY <1>q, <2>2 DEF OnDisk
    <3>2. ~Excused("left", req[q].file)
      BY <1>0, <2>2, <3>1 DEF Excused
    <3> QED
      BY <1>0, <3>1, <3>2 DEF NothingLost
  <2> QED
    BY <2>1, <2>2 DEF NothingLost
<1>6. ReadersServed'
  <2> SUFFICES ASSUME NEW q \in Requests, req'[q].op = "read", ~Excused("read", q)',
                      ~Excused("content", req[q].file)'
               PROVE  /\ req'[q].pc = "open" =>
                           /\ rows'[req'[q].file] = req'[q].row
                           /\ \A p \in Requests : Writer(p)' => req'[p].file # req'[q].file
                      /\ req'[q].pc \in {"send", "sending", "hanging"} =>
                           req'[q].got = req'[q].row.of
                      /\ req'[q].pc = "ended" /\ req'[q].row # NoRow =>
                           /\ Known(req[q].row.store)' => req'[q].answer # "error"
                           /\ req'[q].answer = "content" => req'[q].got = req'[q].row.of
    BY DEF ReadersServed
  <2>1. Known(req[q].row.store)' <=> req'[q].row.store \in enabled
    BY DEF Known, Aside
  <2>2. CASE q = r
    <3>1. ~Excused("content", h)'
      BY <2>2 DEF Excused
    <3>2. Serves(r, h)
      BY <2>2, <3>1
    <3>3. \A p \in Requests : Writer(p)' => Writer(p) /\ req'[p].file = req[p].file
      BY <1>q
    <3> QED
      BY <1>0, <2>1, <2>2, <3>2, <3>3 DEF Serves
  <2>3. CASE q # r
    <3>1. req'[q] = req[q] /\ ~Excused("read", q) /\ ~Excused("content", req[q].file)
      <4>1. req'[q] = req[q]
        BY <1>0, <2>3
      <4> QED
        BY <1>0, <4>1 DEF Excused
    <3>2. /\ req[q].pc = "open" => /\ rows[req[q].file] = req[q].row
                                   /\ \A p \in Requests : Writer(p) => req[p].file # req[q].file
          /\ req[q].pc \in {"send", "sending", "hanging"} => req[q].got = req[q].row.of
          /\ req[q].pc = "ended" /\ req[q].row # NoRow =>
               /\ Known(req[q].row.store) => req[q].answer # "error"
               /\ req[q].answer = "content" => req[q].got = req[q].row.of
      BY <3>1 DEF ReadersServed
    <3>3. \A p \in Requests : Writer(p)' => Writer(p) /\ req'[p].file = req[p].file
      BY <1>q
    <3> QED
      BY <1>0, <2>1, <3>1, <3>2, <3>3 DEF Known
  <2> QED
    BY <2>2, <2>3
<1> QED
  BY <1>1, <1>2, <1>3, <1>4, <1>5, <1>6

LEMMA ReadingKeeps ==
  ASSUME IInv, NEW r \in Requests, NEW h \in FileIds, h = req[r].file, req[r].op = "read",
         req' \in [Requests -> Request], \A q \in Requests : q # r => req'[q] = req[q],
         req'[r].op = "read", req'[r].file = h,
         req'[r].pc \in {"open", "send", "sending", "hanging", "ended"},
         req'[r].pc = "open" => Made(h) /\ req'[r].row # NoRow,
         rows' = rows, objects' = objects, enabled' = enabled, Grows, Bounds,
         ~Excused("read", r)' /\ ~Excused("content", h)' => Serves(r, h)
  PROVE  IInv'
<1>1. RequestsSound'
  <2>1. ~(r > started) /\ started' = started /\ req[r] \in Request /\ req[r].file < r
    BY DEF IInv, RequestsSound, TypeOK, Steps, Bounds
  <2>2. req'[r].pc \in Steps[req'[r].op]
    BY DEF Steps
  <2>3. \A q \in Requests : q # r => (Active(q) /\ Writes(q))' = (Active(q) /\ Writes(q))
    BY DEF Active, Writes
  <2>4. ~Writes(r)'
    BY DEF Writes
  <2>5. ASSUME NEW q \in Requests
        PROVE  /\ req'[q].pc \in Steps[req'[q].op]
               /\ q > started' => req'[q].pc = "none"
               /\ req'[q].op = "upload" => req'[q].file = q /\ req'[q].to # NoStore
               /\ req'[q].op \notin {"none", "upload"} => req'[q].file < q
               /\ req'[q].op = "edit" => req'[q].to # NoStore
               /\ (Active(q) /\ Writes(q))' => req'[q].to # NoStore /\ req'[q].row # NoRow
               /\ req'[q].op = "replace" /\ req'[q].pc \in DiskSteps => req'[q].to = Local
               /\ req'[q].op = "replace" /\ req'[q].pc = "overwrite" => req'[q].to \in Clouds
               /\ req'[q].pc = "open" => req'[q].row # NoRow
    <3>1. CASE q = r
      BY <2>1, <2>2, <2>4, <3>1
    <3>2. CASE q # r
      BY <2>1, <2>3, <3>2 DEF IInv, RequestsSound
    <3> QED
      BY <3>1, <3>2
  <2> QED
    BY <2>5 DEF RequestsSound
<1>2. Aside(r)
  BY DEF Aside, Bounds, IInv, TypeOK
<1> QED
  BY <1>1, <1>2, AsideKeeps

LEMMA LookKeeps == ASSUME IInv, NEW r \in Requests, Look(r) PROVE IInv'
<1>1. PICK h \in FileIds : h = req[r].file
  BY DEF IInv, TypeOK, Request
<1>2. req[r].op = "read" /\ req[r].pc = "look"
  BY NotReading DEF Look
<1>3. CASE End(r, "refused") /\ history' = history
  <2>1. Moved(r) /\ req'[r].pc = "ended" /\ req'[r].answer = "refused" /\ Grows /\ Bounds /\ enabled' = enabled
    BY <1>3, EndEffect, Accounts DEF Answers, IInv, Look
  <2>2. Serves(r, h)
    BY <2>1 DEF Serves
  <2> QED
    BY <1>1, <1>2, <2>1, <2>2, ReadingKeeps DEF Look, Moved
<1>4. CASE rows[h] # NoRow /\ ~(End(r, "refused") /\ history' = history)
  <2>1. /\ req' = [req EXCEPT ![r] = [@ EXCEPT !.pc = "open", !.row = rows[h]]]
        /\ IF \E q \in Met(r) : Writes(q) THEN history' = history \cup {<<"read", r>>}
           ELSE history' = history
        /\ rows' = rows /\ objects' = objects /\ UNCHANGED counted
    BY <1>1, <1>4 DEF Look, Excuse
  <2>2. /\ req' \in [Requests -> Request] /\ \A q \in Requests : q # r => req'[q] = req[q]
        /\ req'[r].op = "read" /\ req'[r].file = h /\ req'[r].pc = "open" /\ req'[r].row = rows[h]
    <3>1. req[r] \in Request /\ rows[h] \in Row
      BY <1>4 DEF IInv, TypeOK
    <3>2. [req[r] EXCEPT !.pc = "open", !.row = rows[h]] \in Request
      BY <3>1 DEF Request, Labels
    <3> QED
      BY <1>1, <1>2, <2>1, <3>1, <3>2 DEF IInv, TypeOK, Request
  <2>3. Made(h)
    BY <1>4 DEF IInv, RowsSound, RowsMade
  <2>4. Grows /\ Bounds /\ enabled' = enabled
    BY <2>1, Constants DEF Grows, Bounds, counted, IInv, TypeOK
  <2>5. ASSUME ~Excused("read", r)' PROVE Serves(r, h)
    <3>1. ~\E q \in Met(r) : Writes(q)
      BY <2>1, <2>5 DEF Excused
    <3>2. \A q \in Requests : Writer(q) => req[q].file # h
      BY <1>1, <1>2, <3>1 DEF Met, Writer, Writes
    <3> QED
      BY <2>2, <3>2 DEF Serves
  <2> QED
    BY <1>1, <1>2, <1>4, <2>1, <2>2, <2>3, <2>4, <2>5, ReadingKeeps
<1> QED
  BY <1>1, <1>3, <1>4 DEF Look

\* A reader that is not excused finds what it opens.
LEMMA Opening ==
  ASSUME IInv, NEW r \in Requests, req[r].pc = "open", NEW h \in FileIds, h = req[r].file
  PROVE  /\ req[r].op = "read" /\ req[r].row # NoRow
         /\ ~Excused("read", r) /\ ~Excused("content", h) =>
              /\ There(req[r].row.store, h)
              /\ Uploaded(req[r].row.store, h) = req[r].row.of
<1>1. req[r].op = "read" /\ req[r].row # NoRow
  BY NotReading DEF IInv, RequestsSound
<1>2. ASSUME ~Excused("read", r), ~Excused("content", h)
      PROVE  There(req[r].row.store, h) /\ Uploaded(req[r].row.store, h) = req[r].row.of
  <2>1. rows[h] = req[r].row /\ \A q \in Requests : Writer(q) => req[q].file # h
    BY <1>1, <1>2 DEF IInv, ReadersServed
  <2>2. Described(h)
    BY <1>1, <1>2, <2>1 DEF IInv, ContentKept
  <2>3. Holds(req[r].row.store, h, req[r].row.of)
    BY <2>1, <2>2 DEF Described
  <2> QED
    BY <2>3, UploadedOf DEF IInv
<1> QED
  BY <1>1, <1>2

OpenStep(r) == OpenFile(r) \/ OpenLocalImage(r) \/ OpenCloudImage(r)

LEMMA OpenKeeps == ASSUME IInv, NEW r \in Requests, OpenStep(r) PROVE IInv'
<1>1. PICK h \in FileIds : h = req[r].file
  BY DEF IInv, TypeOK, Request
<1>2. PICK s : s = req[r].row.store
  OBVIOUS
<1>3. /\ req[r].pc = "open" /\ rows' = rows /\ objects' = objects /\ history' = history
      /\ UNCHANGED counted
      /\ \/ End(r, "refused")
         \/ End(r, "error") /\ (~Known(s) \/ ~There(s, h))
         \/ Opened(r, s)
  BY <1>1, <1>2 DEF OpenStep, OpenFile, OpenLocalImage, OpenCloudImage
<1>4. /\ req[r].op = "read"
      /\ ~Excused("read", r) /\ ~Excused("content", h) => There(s, h) /\ Uploaded(s, h) = req[r].row.of
  BY <1>1, <1>2, <1>3, Opening
<1>5. Grows /\ Bounds /\ enabled' = enabled
  BY <1>3, Accounts DEF IInv
<1>6. \A kind, f : Excused(kind, f)' = Excused(kind, f)
  BY <1>3 DEF Excused
<1>7. CASE End(r, "refused") \/ (End(r, "error") /\ (~Known(s) \/ ~There(s, h)))
  <2>1. /\ Moved(r) /\ req'[r].pc = "ended"
        /\ req'[r].answer \in {"refused", "error"}
        /\ req'[r].answer = "error" => ~Known(s) \/ ~There(s, h)
    BY <1>7, EndEffect DEF Answers, IInv
  <2>2. ASSUME ~Excused("read", r)', ~Excused("content", h)' PROVE Serves(r, h)
    <3>1. req'[r].answer = "error" => ~(s \in enabled)
      BY <1>4, <1>6, <2>1, <2>2 DEF Known
    <3>2. req'[r].row = req[r].row
      BY <2>1 DEF Moved
    <3> QED
      BY <1>2, <2>1, <3>1, <3>2 DEF Serves
  <2> QED
    BY <1>1, <1>3, <1>4, <1>5, <2>1, <2>2, ReadingKeeps DEF Moved
<1>8. CASE Opened(r, s)
  <2>1. PICK got \in FileIds \cup {NoContent} : got = IF There(s, h) THEN Uploaded(s, h) ELSE NoContent
    BY UploadedOf DEF IInv
  <2>2. req' = [req EXCEPT ![r] = [@ EXCEPT !.pc = "send", !.got = got]]
    BY <1>1, <1>8, <2>1 DEF Opened
  <2>3. /\ req' \in [Requests -> Request] /\ \A q \in Requests : q # r => req'[q] = req[q]
        /\ req'[r].op = "read" /\ req'[r].file = h /\ req'[r].pc = "send" /\ req'[r].row = req[r].row
        /\ req'[r].got = got
    <3>1. req[r] \in Request
      BY DEF IInv, TypeOK
    <3>2. [req[r] EXCEPT !.pc = "send", !.got = got] \in Request
      BY <3>1 DEF Request, Labels
    <3> QED
      BY <1>1, <1>4, <2>2, <3>1, <3>2 DEF IInv, TypeOK, Request
  <2>4. ASSUME ~Excused("read", r)', ~Excused("content", h)' PROVE Serves(r, h)
    BY <1>4, <1>6, <2>1, <2>3, <2>4 DEF Serves
  <2> QED
    BY <1>1, <1>3, <1>4, <1>5, <2>3, <2>4, ReadingKeeps
<1> QED
  BY <1>3, <1>7, <1>8

\* What is sent is what was opened.
SendStep(r) == Send(r) \/ Finish(r)

LEMMA SendKeeps == ASSUME IInv, NEW r \in Requests, SendStep(r) PROVE IInv'
<1>1. PICK h \in FileIds : h = req[r].file
  BY DEF IInv, TypeOK, Request
<1>2. /\ req[r].pc \in {"send", "sending"} /\ rows' = rows /\ objects' = objects /\ history' = history
      /\ UNCHANGED counted
      /\ \/ End(r, "error") /\ req[r].got = NoContent
         \/ Now(r, "sending")
         \/ End(r, "content")
  BY DEF SendStep, Send, Finish
<1>3. req[r].op = "read" /\ req[r] \in Request /\ NoContent \notin FileIds
  BY <1>2, NotReading, Constants DEF IInv, TypeOK
<1>4. Grows /\ Bounds /\ enabled' = enabled
  BY <1>2, Accounts DEF IInv
<1>5. /\ Moved(r)
      /\ \/ req'[r].pc = "ended" /\ req'[r].answer = "error" /\ req[r].got = NoContent
         \/ req'[r].pc = "sending"
         \/ req'[r].pc = "ended" /\ req'[r].answer = "content"
  BY <1>2, NowEffect, EndEffect DEF Labels, Answers, IInv
<1>6. ASSUME ~Excused("read", r)', ~Excused("content", h)' PROVE Serves(r, h)
  <2>1. ~Excused("read", r) /\ ~Excused("content", h)
    BY <1>2, <1>6 DEF Excused
  <2>2. req[r].got = req[r].row.of
    BY <1>1, <1>2, <1>3, <2>1 DEF IInv, ReadersServed
  <2>3. req[r].row # NoRow => req[r].got # NoContent
    BY <1>3, <2>2 DEF Request, Row
  <2> QED
    BY <1>5, <2>2, <2>3 DEF Serves, Moved
<1> QED
  BY <1>1, <1>2, <1>3, <1>4, <1>5, <1>6, ReadingKeeps DEF Moved

\* A reader that is excused, or told of a failure, may end or hang.
LEMMA ReadBreaks ==
  ASSUME IInv, NEW r \in Requests, req[r].pc \in {"look", "open", "send", "sending"},
         (\E answer \in Answers : End(r, answer) /\ (answer = "failed" \/ Excused("read", r)'))
           \/ (Now(r, "hanging") /\ Excused("read", r)'),
         rows' = rows, objects' = objects, enabled' = enabled, Grows, Bounds
  PROVE  IInv'
<1>1. PICK h \in FileIds : h = req[r].file
  BY DEF IInv, TypeOK, Request
<1>2. req[r].op = "read"
  BY NotReading
<1>3. /\ Moved(r) /\ req'[r].pc \in {"ended", "hanging"}
      /\ (req'[r].pc = "ended" /\ req'[r].answer = "failed") \/ Excused("read", r)'
  BY NowEffect, EndEffect DEF Labels, IInv
<1>4. ASSUME ~Excused("read", r)' PROVE Serves(r, h)
  BY <1>3, <1>4 DEF Serves
<1> QED
  BY <1>1, <1>2, <1>3, <1>4, ReadingKeeps DEF Moved

LEMMA BeginKeeps == ASSUME IInv, Begin PROVE IInv'
<1>1. PICK r : r = started + 1
  OBVIOUS
<1>2. r \in Requests /\ r > started /\ started \in Nat /\ 0 .. started \subseteq FileIds /\ plan \in Plans
  <2>1. started \in Nat /\ plan \in Plans /\ started < plan.requests /\ plan.requests \in 0 .. Count
        /\ Count \in Nat
    BY FilesAssumption DEF Begin, IInv, TypeOK
  <2> QED
    BY <1>1, <2>1 DEF Requests, FileIds
<1>3. req[r].pc = "none" /\ req[r].op = "none"
  <2>1. req[r].pc = "none" /\ req[r].pc \in Steps[req[r].op] /\ req[r] \in Request
    BY <1>2 DEF IInv, TypeOK, RequestsSound
  <2> QED
    BY <2>1 DEF Steps, Request
<1>4. PICK op \in {"upload", "replace", "edit", "delete", "read"}, f \in 0 .. started,
           to \in Stores \cup {NoStore}, asked \in plan.asked, misses \in plan.misses,
             allowed \in BOOLEAN :
        /\ op = "upload" => f = 0 /\ to # NoStore
        /\ op = "edit" => to # NoStore
        /\ op \in {"delete", "read"} => to = NoStore
        /\ op # "read" => asked = "plain" /\ allowed
        /\ op \in {"upload", "read"} => misses = "nothing"
        /\ req' = [req EXCEPT ![started + 1] =
             [pc |-> IF op = "upload" THEN "put" ELSE IF op = "read" THEN "look" ELSE "find",
              op |-> op, file |-> IF op = "upload" THEN started + 1 ELSE f, to |-> to,
              misses |-> misses, asked |-> asked,
              allowed |-> allowed, row |-> NoRow, got |-> NoContent, answer |-> "none"]]
  BY DEF Begin
<1>5. PICK new : new = [pc |-> IF op = "upload" THEN "put" ELSE IF op = "read" THEN "look" ELSE "find",
              op |-> op, file |-> IF op = "upload" THEN started + 1 ELSE f, to |-> to,
              misses |-> misses, asked |-> asked,
              allowed |-> allowed, row |-> NoRow, got |-> NoContent, answer |-> "none"]
  OBVIOUS
<1>6. /\ new.pc = (IF op = "upload" THEN "put" ELSE IF op = "read" THEN "look" ELSE "find")
      /\ new.op = op /\ new.file = (IF op = "upload" THEN r ELSE f) /\ new.to = to
  BY <1>1, <1>5
<1>7. new \in Request
  <2>1. asked \in Parameters /\ misses \in Parts
    BY <1>2 DEF Parameters, Parts
  <2>2. f \in FileIds /\ r \in FileIds
    BY <1>2, Constants
  <2> QED
    BY <1>1, <1>5, <2>1, <2>2 DEF Request, Labels, Answers
<1>8. /\ req' \in [Requests -> Request] /\ req'[r] = new
      /\ \A q \in Requests : q # r => req'[q] = req[q]
  <2>1. req' = [req EXCEPT ![r] = new]
    BY <1>1, <1>4, <1>5
  <2> QED
    BY <1>2, <1>7, <2>1 DEF IInv, TypeOK
<1>9. /\ started' = r /\ history' = history /\ rows' = rows /\ objects' = objects /\ enabled' = enabled
      /\ database' = database /\ plan' = plan /\ troubles' = troubles
  BY <1>1 DEF Begin
<1>10. RequestsSound'
  <2>1. new.pc \in Steps[new.op]
    BY <1>6 DEF Steps
  <2>2. \A q \in Requests : q # r => (Active(q) /\ Writes(q))' = (Active(q) /\ Writes(q))
    BY <1>8 DEF Active, Writes
  <2>3. ~(Active(r) /\ Writes(r))'
    BY <1>6, <1>8 DEF Active, Writes
  <2>4. f < r /\ r \in Nat
    BY <1>1, <1>2
  <2>5. ASSUME NEW q \in Requests
        PROVE  /\ req'[q].pc \in Steps[req'[q].op]
               /\ q > started' => req'[q].pc = "none"
               /\ req'[q].op = "upload" => req'[q].file = q /\ req'[q].to # NoStore
               /\ req'[q].op \notin {"none", "upload"} => req'[q].file < q
               /\ req'[q].op = "edit" => req'[q].to # NoStore
               /\ (Active(q) /\ Writes(q))' => req'[q].to # NoStore /\ req'[q].row # NoRow
               /\ req'[q].op = "replace" /\ req'[q].pc \in DiskSteps => req'[q].to = Local
               /\ req'[q].op = "replace" /\ req'[q].pc = "overwrite" => req'[q].to \in Clouds
               /\ req'[q].pc = "open" => req'[q].row # NoRow
    <3>1. CASE q = r
      <4>1. req'[q] = new /\ ~(q > started')
        BY <1>8, <1>9, <2>4, <3>1
      <4>2. new.op = "replace" => new.pc = "find"
        BY <1>6
      <4>3. new.pc \in {"put", "find", "look"}
        BY <1>6
      <4> QED
        BY <1>4, <1>6, <2>1, <2>3, <2>4, <3>1, <4>1, <4>2, <4>3 DEF DiskSteps
    <3>2. CASE q # r
      <4>1. req'[q] = req[q] /\ (q > started' => q > started)
        BY <1>1, <1>2, <1>8, <1>9, <3>2, Constants
      <4> QED
        BY <2>2, <3>2, <4>1 DEF IInv, RequestsSound
    <3> QED
      BY <3>1, <3>2
  <2> QED
    BY <2>5 DEF RequestsSound
<1>11. Aside(r)
  <2>1. \/ req'[r].op = "read" /\ req'[r].pc = "look"
        \/ req'[r].pc = "find"
        \/ req'[r].pc = "put" /\ req'[r].op = "upload"
    BY <1>6, <1>8
  <2> QED
    BY <1>2, <1>3, <1>8, <1>9, <2>1, Constants DEF Aside, Grows, IInv, TypeOK
<1>12. PICK h \in FileIds : h = req'[r].file
  BY <1>2, <1>8 DEF Request
<1>13. req'[r].op = "read" => Serves(r, h)
  BY <1>6, <1>8 DEF Serves
<1> QED
  BY <1>2, <1>10, <1>11, <1>12, <1>13, AsideKeeps

-----------------------------------------------------------------------------
(* A write begins *)

LEMMA FindKeeps == ASSUME IInv, NEW r \in Requests, Find(r) PROVE IInv'
<1> USE DEF IInv
<1>1. PICK h \in FileIds : h = req[r].file
  BY DEF TypeOK, Request
<1>2. /\ req[r].pc = "find" /\ req[r].op \in {"replace", "edit", "delete"} /\ req[r] \in Request
      /\ h < r /\ r \in Nat
  <2>1. req[r].pc \in Steps[req[r].op] /\ req[r] \in Request /\ req[r].pc = "find"
    BY DEF TypeOK, RequestsSound, Find
  <2>2. req[r].op \in {"replace", "edit", "delete"}
    BY <2>1 DEF Steps, Request
  <2> QED
    BY <1>1, <2>1, <2>2, Constants DEF RequestsSound
<1>3. CASE End(r, "failed") /\ history' = history
  <2>1. Grows /\ Bounds /\ enabled' = enabled /\ rows' = rows /\ objects' = objects
    BY <1>3, Accounts DEF Find
  <2> QED
    BY <1>1, <1>2, <1>3, <2>1, EndQuiet DEF Answers
<1>4. CASE rows[h] # NoRow /\ ~(End(r, "failed") /\ history' = history)
  <2> DEFINE chosen == IF req[r].to # NoStore THEN req[r].to ELSE Seen(r, rows[h].store)
             step   == CASE req[r].op = "edit" -> "update" [] req[r].op = "delete" -> "remove"
                         [] req[r].op = "replace" -> IF chosen \in Clouds THEN "overwrite" ELSE "put"
  <2>1. PICK to, first : to = chosen /\ first = step
    OBVIOUS
  <2>2. /\ req' = [req EXCEPT ![r] = [@ EXCEPT !.pc = first, !.row = rows[h], !.to = to]]
        /\ history' = history \cup Meets(r) /\ rows' = rows /\ objects' = objects /\ UNCHANGED counted
    BY <1>1, <1>4, <2>1 DEF Find, Excuse
  <2>3. /\ req[r].op = "edit" => first = "update" /\ to = req[r].to
        /\ req[r].op = "delete" => first = "remove"
        /\ req[r].op = "replace" => first = (IF to \in Clouds THEN "overwrite" ELSE "put")
    BY <1>2, <2>1 DEF RequestsSound
  <2>4. rows[h] \in Row /\ to \in Stores /\ (to \notin Clouds => to = Local)
    <3>1. rows[h] \in Row
      BY <1>4 DEF TypeOK
    <3>2. Seen(r, rows[h].store) \in Stores
      BY <3>1, Constants DEF Row, Seen
    <3>3. to \in Stores
      BY <1>2, <2>1, <3>2 DEF Request
    <3> QED
      BY <3>1, <3>3, Constants
  <2> HIDE DEF chosen, step
  <2>5. /\ req' \in [Requests -> Request] /\ \A q \in Requests : q # r => req'[q] = req[q]
        /\ req'[r].op = req[r].op /\ req'[r].file = h /\ req'[r].pc = first /\ req'[r].row = rows[h]
        /\ req'[r].to = to
    <3>1. first \in Labels
      BY <1>2, <2>3 DEF Labels
    <3>2. [req[r] EXCEPT !.pc = first, !.row = rows[h], !.to = to] \in Request
      BY <1>2, <2>4, <3>1 DEF Request
    <3> QED
      BY <1>1, <1>2, <2>2, <3>2 DEF TypeOK, Request
  <2>6. Grows /\ Bounds /\ enabled' = enabled
    <3>1. Met(r) \subseteq Requests /\ Requests \subseteq FileIds
      BY Constants DEF Met
    <3>2. Meets(r) \subseteq {"read", "content", "left"} \X FileIds
      BY <1>1, <3>1 DEF Meets
    <3> QED
      BY <2>2, <3>2 DEF TypeOK, Grows, Bounds, counted
  <2>7. /\ \A kind, f : Excused(kind, f) => Excused(kind, f)'
        /\ \A q \in Requests : req[q] \in Request /\ req'[q] \in Request /\ q \in FileIds
    BY <2>5, <2>6, Constants DEF Grows, Excused, TypeOK
  <2>8. ~Writer(r) /\ Writer(r)' /\ first \in {"update", "remove", "overwrite", "put"}
    BY <1>2, <2>3, <2>5 DEF Writer, Active, Writes
  <2>9. ASSUME NEW q \in Requests, Writer(q)', q # r PROVE Writer(q) /\ req'[q] = req[q]
    BY <2>5, <2>9 DEF Writer, Active, Writes
  <2>10. ASSUME NEW f, Made(f) PROVE Made(f)'
    BY <1>2, <2>5, <2>10 DEF Made
  <2>11. Made(h)
    BY <1>4 DEF RowsSound, RowsMade
  <2>12. ASSUME NEW q \in Requests, Writer(q), req[q].file = h PROVE BothExcused(h)'
    <3>1. q \in Met(r) /\ Writes(q)
      BY <1>1, <2>8, <2>12 DEF Met, Writer
    <3> QED
      BY <1>1, <2>2, <3>1 DEF Meets, BothExcused, Excused
  <2>13. ASSUME NEW q \in Requests, req[q].op = "read", req[q].pc = "open", req[q].file = h
         PROVE  Excused("read", q)'
    <3>1. q \in Met(r)
      BY <1>1, <1>2, <2>13 DEF Met, Active
    <3> QED
      BY <2>2, <2>13, <3>1 DEF Meets, Excused
  <2>a. TypeOK'
    BY <2>2, <2>5, <2>6 DEF TypeOK, Bounds
  <2>b. RequestsSound'
    <3>1. first \in Steps[req[r].op]
      BY <1>2, <2>3 DEF Steps
    <3>2. ~(r > started) /\ started' = started
      BY <1>2, <2>6 DEF RequestsSound, Bounds
    <3>3. NoStore \notin Stores /\ NoRow \notin Row
      BY Constants
    <3>4. req[r].op = "replace" =>
            /\ first \in DiskSteps => to = Local
            /\ first = "overwrite" => to \in Clouds
      BY <2>3, <2>4 DEF DiskSteps
    <3>5. ASSUME NEW q \in Requests
          PROVE  /\ req'[q].pc \in Steps[req'[q].op]
                 /\ q > started' => req'[q].pc = "none"
                 /\ req'[q].op = "upload" => req'[q].file = q /\ req'[q].to # NoStore
                 /\ req'[q].op \notin {"none", "upload"} => req'[q].file < q
                 /\ req'[q].op = "edit" => req'[q].to # NoStore
                 /\ Writer(q)' => req'[q].to # NoStore /\ req'[q].row # NoRow
                 /\ req'[q].op = "replace" /\ req'[q].pc \in DiskSteps => req'[q].to = Local
                 /\ req'[q].op = "replace" /\ req'[q].pc = "overwrite" => req'[q].to \in Clouds
                 /\ req'[q].pc = "open" => req'[q].row # NoRow
      <4>1. CASE q = r
        BY <1>2, <2>4, <2>5, <2>8, <3>1, <3>2, <3>3, <3>4, <4>1
      <4>2. CASE q # r
        <5>1. req'[q] = req[q] /\ (Writer(q)' => Writer(q))
          BY <2>5, <2>9, <4>2
        <5> QED
          BY <3>2, <5>1 DEF RequestsSound, Writer
      <4> QED
        BY <4>1, <4>2
    <3> QED
      BY <3>5 DEF RequestsSound, Writer
  <2>c. RowsSound'
    <3>1. RowsMade'
      <4>1. \A f \in FileIds : rows'[f] # NoRow => Made(f)'
        BY <2>2, <2>10 DEF RowsSound, RowsMade
      <4>2. ASSUME NEW q \in Requests, Writer(q)' \/ req'[q].pc = "open" PROVE Made(req[q].file)'
        <5>1. PICK f \in FileIds : f = req'[q].file
          BY <2>7 DEF Request
        <5>2. Made(f)
          BY <2>5, <2>8, <2>9, <2>11, <4>2, <5>1 DEF RowsSound, RowsMade
        <5>3. Made(f)'
          BY <2>10, <5>2
        <5> QED
          BY <5>1, <5>3 DEF Made
      <4>3. ASSUME NEW q \in Requests, req'[q].pc = "rollback", ~Excused("content", q)'
            PROVE  rows'[q] = NoRow /\ \A p \in Requests : Writer(p)' => req'[p].file # q
        <5>1. q # r /\ req[q].pc = "rollback" /\ ~Excused("content", q)
          BY <2>5, <2>7, <2>8, <4>3
        <5>2. rows[q] = NoRow /\ \A p \in Requests : Writer(p) => req[p].file # q
          BY <5>1 DEF RowsSound, RowsMade
        <5>3. h # q
          BY <1>4, <5>2
        <5> QED
          BY <2>2, <2>5, <2>9, <5>2, <5>3
      <4> QED
        BY <4>1, <4>2, <4>3 DEF RowsMade
    <3>2. WritersApart'
      <4> SUFFICES ASSUME NEW p \in Requests, NEW q \in Requests, Writer(p)', Writer(q)',
                          req'[p].file = req'[q].file, p # q, NEW f \in FileIds, f = req'[p].file
                   PROVE  Excused("content", f)' /\ Excused("left", f)'
        <5>1. \A p \in Requests : req'[p].file \in FileIds
          BY <2>7 DEF Request
        <5> QED
          BY <5>1 DEF WritersApart, Excused
      <4>1. CASE p = r
        BY <2>5, <2>9, <2>12, <4>1 DEF BothExcused, Excused
      <4>2. CASE q = r
        BY <2>5, <2>9, <2>12, <4>2 DEF BothExcused, Excused
      <4>3. CASE p # r /\ q # r
        BY <2>7, <2>9, <4>3 DEF RowsSound, WritersApart
      <4> QED
        BY <4>1, <4>2, <4>3
    <3>3. Unchanged'
      <4> SUFFICES ASSUME NEW q \in Requests, Writer(q)', req'[q].pc \notin {"clean", "tidy"}
                   PROVE  \/ rows'[req'[q].file] = req'[q].row
                          \/ /\ Excused("content", req[q].file)'
                             /\ Excused("left", req[q].file)' \/ req'[q].pc = "restore"
        BY DEF Unchanged
      <4>1. CASE q = r
        BY <2>2, <2>5, <4>1
      <4>2. CASE q # r
        <5>1. Writer(q) /\ req'[q] = req[q]
          BY <2>9, <4>2
        <5>2. \/ rows[req[q].file] = req[q].row
              \/ /\ Excused("content", req[q].file)
                 /\ Excused("left", req[q].file) \/ req[q].pc = "restore"
          BY <5>1 DEF RowsSound, Unchanged
        <5>3. /\ Excused("content", req[q].file) => Excused("content", req[q].file)'
              /\ Excused("left", req[q].file) => Excused("left", req[q].file)'
          BY <2>7, <5>1 DEF Excused
        <5> QED
          BY <2>2, <5>1, <5>2, <5>3
      <4> QED
        BY <4>1, <4>2
    <3> QED
      BY <3>1, <3>2, <3>3 DEF RowsSound
  <2>d. ObjectsNamed'
    <3>1. \A q \in Requests : req'[q].op = req[q].op /\ req'[q].file = req[q].file
      BY <1>1, <2>5
    <3> QED
      BY <2>2, <3>1 DEF ObjectsNamed
  <2>e. ContentKept'
    <3>1. ASSUME NEW f \in FileIds, rows'[f] # NoRow, ~Excused("content", f)',
                 \A q \in Requests : Writer(q)' /\ req'[q].file = f => Harmless(q)'
          PROVE  Described(f)'
      <4>1. ASSUME NEW q \in Requests, Writer(q), req[q].file = f PROVE Harmless(q)
        <5>1. Writer(q)' /\ req'[q] = req[q]
          BY <2>5, <2>8, <4>1 DEF Writer, Active, Writes
        <5>2. Harmless(q)'
          BY <3>1, <4>1, <5>1
        <5> QED
          BY <5>1, <5>2 DEF Harmless
      <4>2. Described(f)
        BY <2>2, <2>7, <3>1, <4>1 DEF ContentKept
      <4> QED
        BY <2>2, <4>2 DEF Described, Holds
    <3>2. \A store, name, of : Holds(store, name, of) => WillHold(store, name, of)
      BY <2>2 DEF Holds, WillHold
    <3>3. ASSUME NEW q \in Requests, req'[q].op = "replace", ~Excused("content", req[q].file)'
          PROVE  /\ OnDisk(q)' /\ req'[q].pc \in {"unlink", "copy", "update", "restore"} => Safe(q)'
                 /\ req'[q].pc = "update" => WillHold(req'[q].to, req'[q].file, q)
      <4>1. CASE q = r
        BY <2>3, <2>5, <2>8, <3>3, <4>1
      <4>2. CASE q # r
        <5>1. req'[q] = req[q] /\ OnDisk(q)' = OnDisk(q) /\ Safe(q)' = Safe(q)
          BY <2>2, <2>5, <4>2 DEF OnDisk, Safe, Holds
        <5>2. ~Excused("content", req[q].file)
          BY <2>7, <3>3, <5>1 DEF Excused
        <5>3. /\ OnDisk(q) /\ req[q].pc \in {"unlink", "copy", "update", "restore"} => Safe(q)
              /\ req[q].pc = "update" => Holds(req[q].to, req[q].file, q)
          BY <3>3, <5>1, <5>2 DEF ContentKept
        <5> QED
          BY <3>2, <5>1, <5>3
      <4> QED
        BY <4>1, <4>2
    <3>4. ASSUME NEW q \in Requests, req'[q].pc = "insert" PROVE WillHold(req'[q].to, q, q)
      <4>1. q # r
        BY <2>5, <2>8, <3>4
      <4>2. req'[q] = req[q]
        BY <2>5, <4>1
      <4> QED
        BY <3>2, <3>4, <4>2 DEF ContentKept
    <3> QED
      BY <3>1, <3>3, <3>4 DEF ContentKept, Holds, WillHold
  <2>f. NothingLost'
    <3>1. ASSUME NEW o \in objects', ~Excused("left", o.file)'
          PROVE  Led(o)' \/ Early(o)' \/ Passing(o)'
      <4>1. Led(o) \/ Early(o) \/ Passing(o)
        BY <2>2, <2>7, <3>1 DEF NothingLost
      <4>2. CASE Led(o)
        BY <2>2, <4>2 DEF Led
      <4>3. CASE Early(o)
        <5>1. o.file # r
          BY <1>2, <4>3 DEF Early
        <5> QED
          BY <2>2, <2>5, <4>3, <5>1 DEF Early
      <4>4. CASE Passing(o)
        <5>1. o.name # r
          BY <1>2, <4>4 DEF Passing
        <5> QED
          BY <2>5, <4>4, <5>1 DEF Passing, OnDisk
      <4> QED
        BY <4>1, <4>2, <4>3, <4>4
    <3>2. ASSUME NEW q \in Requests, Writer(q)', ~Excused("left", req[q].file)'
          PROVE  /\ req'[q].pc = "row" => \A o \in objects' : o.file # req'[q].file
                 /\ OnDisk(q)' /\ req'[q].pc \in {"unlink", "copy", "update"} =>
                      req'[q].row.store = Local
                 /\ req'[q].op = "replace" /\ req'[q].pc = "update" =>
                      req'[q].row.store = req'[q].to
      <4>1. CASE q = r
        <5>1. OnDisk(r)' => req[r].op = "replace" /\ to = Local
          BY <2>5 DEF OnDisk
        <5> QED
          BY <2>3, <2>5, <2>8, <4>1, <5>1
      <4>2. CASE q # r
        <5>1. Writer(q) /\ req'[q] = req[q] /\ OnDisk(q)' = OnDisk(q)
          BY <2>5, <2>9, <3>2, <4>2 DEF OnDisk
        <5>2. ~Excused("left", req[q].file)
          BY <2>7, <3>2, <5>1 DEF Excused
        <5> QED
          BY <2>2, <5>1, <5>2 DEF NothingLost
      <4> QED
        BY <4>1, <4>2
    <3> QED
      BY <3>1, <3>2 DEF NothingLost
  <2>g. ReadersServed'
    <3> SUFFICES ASSUME NEW q \in Requests, req'[q].op = "read", ~Excused("read", q)',
                        ~Excused("content", req[q].file)'
                 PROVE  /\ req'[q].pc = "open" =>
                             /\ rows'[req'[q].file] = req'[q].row
                             /\ \A p \in Requests : Writer(p)' => req'[p].file # req'[q].file
                        /\ req'[q].pc \in {"send", "sending", "hanging"} =>
                             req'[q].got = req'[q].row.of
                        /\ req'[q].pc = "ended" /\ req'[q].row # NoRow =>
                             /\ Known(req[q].row.store)' => req'[q].answer # "error"
                             /\ req'[q].answer = "content" => req'[q].got = req'[q].row.of
      BY DEF ReadersServed
    <3>1. q # r /\ req'[q] = req[q]
      BY <1>2, <2>5
    <3>2. ~Excused("read", q) /\ ~Excused("content", req[q].file)
      BY <2>7, <3>1 DEF Excused
    <3>3. /\ req[q].pc = "open" => /\ rows[req[q].file] = req[q].row
                                   /\ \A p \in Requests : Writer(p) => req[p].file # req[q].file
          /\ req[q].pc \in {"send", "sending", "hanging"} => req[q].got = req[q].row.of
          /\ req[q].pc = "ended" /\ req[q].row # NoRow =>
               /\ Known(req[q].row.store) => req[q].answer # "error"
               /\ req[q].answer = "content" => req[q].got = req[q].row.of
      BY <3>1, <3>2 DEF ReadersServed
    <3>4. Known(req[q].row.store)' <=> Known(req[q].row.store)
      BY <2>6, <3>1 DEF Known
    <3>5. ASSUME req[q].pc = "open", NEW p \in Requests, Writer(p)' PROVE req'[p].file # req[q].file
      <4>1. CASE p = r
        BY <2>5, <2>13, <3>1, <3>5, <4>1
      <4>2. CASE p # r
        BY <2>9, <3>3, <3>5, <4>2
      <4> QED
        BY <4>1, <4>2
    <3> QED
      BY <2>2, <3>1, <3>3, <3>4, <3>5
  <2> QED
    BY <2>a, <2>b, <2>c, <2>d, <2>e, <2>f, <2>g
<1> QED
  BY <1>1, <1>3, <1>4 DEF Find

-----------------------------------------------------------------------------
(* What can go wrong *)

LEMMA Troubled ==
  ASSUME TypeOK, Trouble,
         \/ history' = history
         \/ \E kind \in {"read", "content", "left"}, x \in FileIds : history' = history \cup {<<kind, x>>}
         \/ \E f \in FileIds : history' = history \cup {<<"content", f>>, <<"left", f>>}
  PROVE  Grows /\ Bounds
  BY DEF TypeOK, Trouble, Grows, Bounds

LEMMA BreakKeeps == ASSUME IInv, NEW r \in Requests, Break(r) PROVE IInv'
<1>1. Grows /\ Bounds /\ Excused("read", r)' /\ enabled' = enabled /\ rows' = rows /\ objects' = objects
  BY Constants DEF Break, Excuse, Grows, Bounds, Excused, IInv, TypeOK
<1> QED
  BY <1>1, ReadBreaks DEF Break, Answers

LEMMA StorageFailsKeeps == ASSUME IInv, NEW r \in Requests, StorageFails(r) PROVE IInv'
<1>1. PICK h \in FileIds : h = req[r].file
  BY DEF IInv, TypeOK, Request
<1>2. rows' = rows /\ objects' = objects /\ enabled' = enabled /\ Trouble
  BY DEF StorageFails
<1>3. "failed" \in Answers /\ "done" \in Answers /\ "error" \in Answers /\ "restore" \in Labels /\ "tidy" \in Labels
      /\ r \in FileIds
  BY Constants DEF Answers, Labels
<1>4. CASE req[r].pc \in {"put", "overwrite", "remove"} /\ End(r, "failed") /\ history' = history
  <2>1. Grows /\ Bounds
    BY <1>2, <1>4, Troubled DEF IInv
  <2> QED
    BY <1>1, <1>2, <1>3, <1>4, <2>1, EndQuiet
<1>5. CASE req[r].pc \in {"rollback", "backup"} /\ End(r, "failed") /\ history' = history \cup {<<"left", h>>}
  <2>1. Grows /\ Bounds /\ Excused("left", h)'
    BY <1>2, <1>5, Troubled DEF IInv, Excused
  <2> QED
    BY <1>1, <1>2, <1>3, <1>5, <2>1, EndQuiet
<1>6. CASE req[r].pc \in {"unlink", "copy"} /\ Now(r, "restore") /\ history' = history
  <2>1. Grows /\ Bounds
    BY <1>2, <1>6, Troubled DEF IInv
  <2> QED
    BY <1>1, <1>2, <1>3, <1>6, <2>1, NowQuiet
<1>7. CASE req[r].pc = "clean" /\ Now(r, "tidy") /\ history' = history \cup {<<"left", h>>}
  <2>1. Grows /\ Bounds /\ Excused("left", h)'
    BY <1>2, <1>7, Troubled DEF IInv, Excused
  <2> QED
    BY <1>1, <1>2, <1>3, <1>7, <2>1, NowQuiet
<1>8. CASE req[r].pc = "tidy" /\ End(r, "done") /\ history' = history \cup {<<"left", h>>}
  <2>1. Grows /\ Bounds /\ Excused("left", h)'
    BY <1>2, <1>8, Troubled DEF IInv, Excused
  <2> QED
    BY <1>1, <1>2, <1>3, <1>8, <2>1, EndQuiet
<1>9. CASE req[r].pc = "restore" /\ End(r, "failed")
           /\ history' = history \cup {<<"content", h>>, <<"left", h>>}
  <2>1. Grows /\ Bounds /\ Excused("left", h)' /\ Excused("content", h)'
    BY <1>2, <1>9, Troubled DEF IInv, Excused
  <2> QED
    BY <1>1, <1>2, <1>3, <1>9, <2>1, EndQuiet
<1>10. CASE req[r].pc = "open" /\ End(r, "error") /\ history' = history \cup {<<"read", r>>}
  <2>1. Grows /\ Bounds /\ Excused("read", r)'
    BY <1>2, <1>3, <1>10, Troubled DEF IInv, Excused
  <2> QED
    BY <1>2, <1>3, <1>10, <2>1, ReadBreaks
<1> QED
  BY <1>1, <1>4, <1>5, <1>6, <1>7, <1>8, <1>9, <1>10 DEF StorageFails, Excuse

LEMMA QueryFailsKeeps == ASSUME IInv, NEW r \in Requests, QueryFails(r) PROVE IInv'
<1>1. PICK h \in FileIds : h = req[r].file
  BY DEF IInv, TypeOK, Request
<1>2. objects' = objects /\ enabled' = enabled /\ Trouble
  BY DEF QueryFails
<1>3. "failed" \in Answers /\ "restore" \in Labels /\ "rollback" \in Labels
  BY DEF Answers, Labels
<1>4. req[r].pc = "insert" => h = r
  <2>1. req[r].pc \in Steps[req[r].op] /\ req[r] \in Request
    BY DEF IInv, TypeOK, RequestsSound
  <2>2. req[r].pc = "insert" => req[r].op = "upload"
    BY <2>1 DEF Request, Steps
  <2> QED
    BY <1>1, <2>2 DEF IInv, RequestsSound
<1>5. CASE req[r].pc \in {"find", "look"} /\ End(r, "failed") /\ rows' = rows /\ history' = history
  <2>1. Grows /\ Bounds
    BY <1>2, <1>5, Troubled DEF IInv
  <2> QED
    BY <1>1, <1>2, <1>3, <1>5, <2>1, EndQuiet, ReadBreaks
<1>6. CASE req[r].pc = "insert" /\ Now(r, "rollback") /\ rows' = rows /\ history' = history
  <2>1. Grows /\ Bounds
    BY <1>2, <1>6, Troubled DEF IInv
  <2> QED
    BY <1>1, <1>2, <1>3, <1>6, <2>1, NowQuiet
<1>7. CASE /\ req[r].pc = "insert" /\ Now(r, "rollback") /\ history' = history \cup {<<"content", h>>}
           /\ rows' = [rows EXCEPT ![r] = [store |-> req[r].to, of |-> r]]
  <2>1. Grows /\ Bounds /\ Excused("content", r)'
    BY <1>2, <1>4, <1>7, Troubled DEF IInv, Excused
  <2> QED
    BY <1>2, <1>7, <2>1, InsertKeeps
<1>8. CASE req[r].pc = "update" /\ OnDisk(r) /\ Now(r, "restore") /\ rows' = rows /\ history' = history
  <2>1. Grows /\ Bounds
    BY <1>2, <1>8, Troubled DEF IInv
  <2> QED
    BY <1>1, <1>2, <1>3, <1>8, <2>1, NowQuiet
<1>9. CASE /\ req[r].pc = "update" /\ OnDisk(r) /\ Now(r, "restore") /\ rows[h] # NoRow
           /\ rows' = [rows EXCEPT ![h] = Written(r)] /\ history' = history \cup {<<"content", h>>}
  <2>1. Grows /\ Bounds /\ Excused("content", h)'
    BY <1>2, <1>9, Troubled DEF IInv, Excused
  <2>2. req[r].op # "edit"
    BY <1>9 DEF OnDisk
  <2> QED
    BY <1>1, <1>2, <1>9, <2>1, <2>2, UpdateKeeps
<1>10. CASE /\ req[r].pc = "update" /\ ~OnDisk(r) /\ End(r, "failed")
            /\ rows' = rows \/ (rows[h] # NoRow /\ rows' = [rows EXCEPT ![h] = Written(r)])
            /\ history' = history \cup {<<"content", h>>, <<"left", h>>}
  <2>1. Grows /\ Bounds /\ Excused("content", h)' /\ Excused("left", h)' /\ BothExcused(h)'
    BY <1>2, <1>10, Troubled DEF IInv, Excused, BothExcused
  <2>2. CASE rows' = rows
    BY <1>1, <1>2, <1>3, <1>10, <2>1, <2>2, EndQuiet
  <2>3. CASE rows[h] # NoRow /\ rows' = [rows EXCEPT ![h] = Written(r)]
    BY <1>1, <1>2, <1>10, <2>1, <2>3, UpdateKeeps
  <2> QED
    BY <1>10, <2>2, <2>3
<1>11. CASE req[r].pc = "row" /\ End(r, "failed") /\ rows' = rows /\ history' = history \cup {<<"content", h>>}
  <2>1. Grows /\ Bounds /\ Excused("content", h)'
    BY <1>2, <1>11, Troubled DEF IInv, Excused
  <2> QED
    BY <1>1, <1>2, <1>3, <1>11, <2>1, EndQuiet
<1> QED
  BY <1>1, <1>5, <1>6, <1>7, <1>8, <1>9, <1>10, <1>11 DEF QueryFails, Excuse

LEMMA UpdateStepKeeps == ASSUME IInv, NEW r \in Requests, Update(r) PROVE IInv'
<1>1. PICK h \in FileIds : h = req[r].file
  BY DEF IInv, TypeOK, Request
<1>2. req[r].pc = "update" /\ objects' = objects /\ UNCHANGED counted
  BY DEF Update
<1>3. CASE rows[h] = NoRow
  <2>1. /\ rows' = rows /\ history' = history
        /\ IF OnDisk(r) THEN Now(r, "restore") ELSE End(r, "failed")
    BY <1>1, <1>3 DEF Update
  <2>2. Grows /\ Bounds /\ enabled' = enabled
    BY <1>2, <2>1, Accounts DEF IInv
  <2>3. Writer(r)
    <3>1. req[r].pc \in Steps[req[r].op] /\ req[r] \in Request
      BY DEF IInv, TypeOK, RequestsSound
    <3> QED
      BY <1>2, <3>1 DEF Request, Steps, Writer, Active, Writes
  <2>4. Excused("left", h)' /\ Excused("content", h)'
    BY <1>1, <1>2, <1>3, <2>2, <2>3, OwnFacts DEF BothExcused, Grows, Excused
  <2> QED
    BY <1>1, <1>2, <2>1, <2>2, <2>4, NowQuiet, EndQuiet DEF Labels, Answers
<1>4. CASE rows[h] # NoRow
  <2>1. /\ rows' = [rows EXCEPT ![h] = Written(r)]
        /\ IF OnDisk(r) THEN Now(r, "clean") ELSE End(r, "done")
        /\ IF req[r].op = "edit" /\ rows[h].store # req[r].to
           THEN history' = history \cup {<<"content", h>>, <<"left", h>>} ELSE history' = history
    BY <1>1, <1>4 DEF Update, Excuse
  <2>2. Grows /\ Bounds /\ enabled' = enabled
    BY <1>2, <2>1 DEF Grows, Bounds, counted, IInv, TypeOK
  <2>3. req[r].op = "edit" /\ rows[h].store # req[r].to => BothExcused(h)'
    BY <2>1 DEF BothExcused, Excused
  <2> QED
    BY <1>1, <1>2, <1>4, <2>1, <2>2, <2>3, UpdateKeeps
<1> QED
  BY <1>3, <1>4

LEMMA InsertStepKeeps == ASSUME IInv, NEW r \in Requests, Insert(r) PROVE IInv'
<1>1. Grows /\ Bounds /\ enabled' = enabled
  BY Accounts DEF Insert, IInv
<1> QED
  BY <1>1, InsertKeeps DEF Insert

LEMMA StepKeeps == ASSUME IInv, NEW r \in Requests, Step(r) PROVE IInv'
  BY FindKeeps, StorageStepKeeps, InsertStepKeeps, UpdateStepKeeps, DeleteRowKeeps, LookKeeps, OpenKeeps,
     SendKeeps DEF Step, StorageStep, OpenStep, SendStep

\* The server dies. What its requests had begun is excused.
LEMMA DieKeeps == ASSUME IInv, Die PROVE IInv'
<1> USE DEF IInv
<1>1. /\ req' = [r \in Requests |-> IF req[r].pc \in {"none", "ended"} THEN req[r]
                                    ELSE [req[r] EXCEPT !.pc = "ended", !.answer = "killed"]]
      /\ rows' = rows /\ objects' = objects /\ enabled' = enabled
      /\ started' = started /\ database' = database /\ plan' = plan /\ troubles' \in Nat
  <2>1. UNCHANGED <<rows, objects, enabled>> /\ Trouble
    BY Zenon DEF Die
  <2>2. req' = [r \in Requests |-> IF req[r].pc \in {"none", "ended"} THEN req[r]
                                   ELSE [req[r] EXCEPT !.pc = "ended", !.answer = "killed"]]
    BY Zenon DEF Die
  <2>3. started' = started /\ database' = database /\ plan' = plan /\ troubles' \in Nat
    BY <2>1 DEF Trouble, TypeOK
  <2> QED
    BY <2>1, <2>2, <2>3
<1>2. ASSUME NEW q \in Requests
      PROVE  /\ req[q] \in Request /\ req'[q] \in Request
             /\ req'[q].op = req[q].op /\ req'[q].file = req[q].file /\ req'[q].to = req[q].to
             /\ req'[q].row = req[q].row /\ req'[q].got = req[q].got
             /\ req[q].pc \in {"none", "ended"} => req'[q] = req[q]
             /\ req[q].pc \notin {"none", "ended"} => req'[q].pc = "ended" /\ req'[q].answer = "killed"
  <2>1. req[q] \in Request
    BY DEF TypeOK
  <2>2. CASE req[q].pc \in {"none", "ended"}
    BY <1>1, <2>1, <2>2
  <2>3. CASE req[q].pc \notin {"none", "ended"}
    <3>1. req'[q] = [req[q] EXCEPT !.pc = "ended", !.answer = "killed"]
      BY <1>1, <2>3
    <3>2. req'[q] \in Request
      BY <2>1, <3>1 DEF Request, Labels, Answers
    <3> QED
      BY <2>1, <2>3, <3>1, <3>2 DEF Request
  <2> QED
    BY <2>2, <2>3
<1>3. ASSUME NEW q \in Requests
      PROVE  req'[q].pc \in {"none", "ended"} /\ ~Writer(q)'
  BY <1>2 DEF Writer, Active
<1>4. /\ \A kind, f : Excused(kind, f) => Excused(kind, f)'
      /\ \A q \in Requests : Active(q) /\ req[q].op # "read" =>
           <<"content", req[q].file>> \in history' /\ <<"left", req[q].file>> \in history'
      /\ history' \subseteq {"read", "content", "left"} \X FileIds
  <2> DEFINE cut == {req[r].file : r \in {q \in Requests : Active(q) /\ req[q].op # "read"}}
  <2>1. history' = history \cup ({"content", "left"} \X cut)
    BY Zenon DEF Die, Excuse
  <2>2. cut \subseteq FileIds
    BY <1>2 DEF Request
  <2>3. \A q \in Requests : Active(q) /\ req[q].op # "read" => req[q].file \in cut
    OBVIOUS
  <2> HIDE DEF cut
  <2> QED
    BY <2>1, <2>2, <2>3 DEF Excused, TypeOK
<1>5. TypeOK'
  <2>1. req' \in [Requests -> Request]
    BY <1>1, <1>2
  <2>2. /\ rows' = rows /\ objects' = objects /\ enabled' = enabled
        /\ started' = started /\ database' = database /\ plan' = plan /\ troubles' \in Nat
    BY <1>1
  <2> QED
    BY <1>4, <2>1, <2>2 DEF TypeOK
<1>6. RequestsSound'
  <2>1. started' = started
    BY <1>1
  <2>2. ASSUME NEW q \in Requests PROVE req'[q].pc \in Steps[req'[q].op] /\ (q > started => req'[q].pc = "none")
    <3>1. req[q].pc \in Steps[req[q].op] /\ (q > started => req[q].pc = "none")
      BY DEF RequestsSound
    <3>2. CASE req[q].pc \in {"none", "ended"}
      BY <1>2, <3>1, <3>2
    <3>3. CASE req[q].pc \notin {"none", "ended"}
      BY <1>2, <3>1, <3>3 DEF Steps, Request
    <3> QED
      BY <3>2, <3>3
  <2> QED
    BY <1>2, <1>3, <2>1, <2>2 DEF RequestsSound, Writer, DiskSteps
<1>7. RowsSound'
  <2>1. ASSUME NEW f \in FileIds, rows'[f] # NoRow PROVE Made(f)'
    <3>1. Made(f)
      BY <1>1, <2>1 DEF RowsSound, RowsMade
    <3> QED
      BY <1>2, <3>1 DEF Made
  <2>2. RowsMade'
    BY <1>3, <2>1 DEF RowsMade
  <2> QED
    BY <1>3, <2>2 DEF RowsSound, WritersApart, Unchanged
<1>8. ObjectsNamed'
  <2>1. \A q \in Requests : req'[q].op = req[q].op /\ req'[q].file = req[q].file
    BY <1>2
  <2> QED
    BY <1>1, <2>1 DEF ObjectsNamed
<1>9. ContentKept'
  <2>1. ASSUME NEW f \in FileIds, rows'[f] # NoRow, ~Excused("content", f)' PROVE Described(f)'
    <3>1. \A q \in Requests : ~(Writer(q) /\ req[q].file = f)
      BY <1>4, <2>1 DEF Writer, Writes, Excused
    <3>2. Described(f)
      BY <1>1, <1>4, <2>1, <3>1 DEF ContentKept
    <3> QED
      BY <1>1, <3>2 DEF Described, Holds
  <2> QED
    BY <1>3, <2>1 DEF ContentKept
<1>10. NothingLost'
  <2>1. ASSUME NEW o \in objects', ~Excused("left", o.file)' PROVE Led(o)'
    <3>1. Led(o) \/ Early(o) \/ Passing(o)
      BY <1>1, <1>4, <2>1 DEF NothingLost
    <3>2. ~Early(o)
      BY <1>4, <2>1 DEF Early, Active, Excused, RequestsSound
    <3>3. ~Passing(o)
      BY <1>4, <2>1 DEF Passing, OnDisk, Active, Excused
    <3> QED
      BY <1>1, <3>1, <3>2, <3>3 DEF Led
  <2> QED
    BY <1>3, <2>1 DEF NothingLost
<1>11. ReadersServed'
  <2> SUFFICES ASSUME NEW q \in Requests, req'[q].op = "read", ~Excused("read", q)',
                      ~Excused("content", req[q].file)', req'[q].pc = "ended", req'[q].row # NoRow
               PROVE  /\ Known(req[q].row.store)' => req'[q].answer # "error"
                      /\ req'[q].answer = "content" => req'[q].got = req'[q].row.of
    BY <1>3 DEF ReadersServed
  <2>1. CASE req[q].pc \notin {"none", "ended"}
    BY <1>2, <2>1
  <2>2. CASE req[q].pc \in {"none", "ended"}
    <3>1. req'[q] = req[q] /\ ~Excused("read", q) /\ ~Excused("content", req[q].file)
      BY <1>2, <1>4, <2>2 DEF Excused
    <3>2. Known(req[q].row.store)' = Known(req[q].row.store)
      BY <1>1, <3>1 DEF Known
    <3> QED
      BY <3>1, <3>2 DEF ReadersServed
  <2> QED
    BY <2>1, <2>2
<1> QED
  BY <1>5, <1>6, <1>7, <1>8, <1>9, <1>10, <1>11

\* Steps that leave requests, rows, objects and excuses alone.
LEMMA RestKeeps ==
  ASSUME IInv, TypeOK', UNCHANGED <<rows, objects, req, started, history>>, enabled' \subseteq enabled
  PROVE  IInv'
<1>1. RequestsSound'
  BY DEF IInv, RequestsSound, Active, Writes
<1>2. \A q \in Requests : Writer(q)' = Writer(q) /\ Harmless(q)' = Harmless(q) /\ OnDisk(q)' = OnDisk(q)
  BY DEF Writer, Active, Writes, Harmless, OnDisk
<1>3. RowsSound'
  <2>1. RowsMade'
    BY <1>2 DEF IInv, RowsSound, RowsMade, Made, Excused
  <2>2. WritersApart' /\ Unchanged'
    BY <1>2 DEF IInv, RowsSound, WritersApart, Unchanged, Excused
  <2> QED
    BY <2>1, <2>2 DEF RowsSound
<1>4. ObjectsNamed'
  BY DEF IInv, ObjectsNamed
<1>5. ContentKept'
  BY <1>2 DEF IInv, ContentKept, Described, Holds, Safe, Excused
<1>6. NothingLost'
  <2>1. \A o \in objects : Led(o)' = Led(o) /\ Early(o)' = Early(o) /\ Passing(o)' = Passing(o)
    BY DEF Led, Early, Passing, OnDisk
  <2> QED
    BY <1>2, <2>1 DEF IInv, NothingLost, Excused
<1>7. ReadersServed'
  BY <1>2 DEF IInv, ReadersServed, Excused, Known
<1> QED
  BY <1>1, <1>3, <1>4, <1>5, <1>6, <1>7 DEF IInv

-----------------------------------------------------------------------------
(* The theorems *)

\* No request is answered before it ends.
Unanswered == \A r \in Requests : req[r].pc # "ended" => req[r].answer = "none"

LEMMA UnansweredKeeps == ASSUME TypeOK, Unanswered, [Next]_vars PROVE Unanswered'
<1>1. ASSUME NEW r \in Requests, req[r].pc # "ended", NEW label, Now(r, label) PROVE Unanswered'
  <2>1. req'[r].answer = req[r].answer /\ \A q \in Requests : q # r => req'[q] = req[q]
    BY <1>1 DEF Now, TypeOK, Request
  <2> QED
    BY <1>1, <2>1 DEF Unanswered
<1>2. ASSUME NEW r \in Requests, NEW answer, End(r, answer) PROVE Unanswered'
  <2>1. req'[r].pc = "ended" /\ \A q \in Requests : q # r => req'[q] = req[q]
    BY <1>2 DEF End, TypeOK, Request
  <2> QED
    BY <2>1 DEF Unanswered
<1>3. CASE Begin
  <2>1. PICK op \in {"upload", "replace", "edit", "delete", "read"}, f \in 0 .. started,
             to \in Stores \cup {NoStore}, asked \in plan.asked, misses \in plan.misses,
             allowed \in BOOLEAN :
        /\ op = "upload" => f = 0 /\ to # NoStore
        /\ op = "edit" => to # NoStore
        /\ op \in {"delete", "read"} => to = NoStore
        /\ op # "read" => asked = "plain" /\ allowed
        /\ op \in {"upload", "read"} => misses = "nothing"
        /\ req' = [req EXCEPT ![started + 1] =
            [pc |-> IF op = "upload" THEN "put" ELSE IF op = "read" THEN "look" ELSE "find",
             op |-> op, file |-> IF op = "upload" THEN started + 1 ELSE f, to |-> to,
              misses |-> misses, asked |-> asked,
             allowed |-> allowed, row |-> NoRow, got |-> NoContent, answer |-> "none"]]
    BY <1>3 DEF Begin
  <2> QED
    BY <2>1 DEF TypeOK, Unanswered
<1>4. CASE Die
  <2>1. ASSUME NEW q \in Requests, req'[q].pc # "ended" PROVE req'[q].answer = "none"
    <3>1. req'[q] = IF req[q].pc \in {"none", "ended"} THEN req[q]
                    ELSE [req[q] EXCEPT !.pc = "ended", !.answer = "killed"]
      BY <1>4, Zenon DEF Die
    <3>2. req[q] \in Request
      BY DEF TypeOK
    <3> QED
      BY <2>1, <3>1, <3>2 DEF Unanswered, Request
  <2> QED
    BY <2>1 DEF Unanswered
<1>5. ASSUME NEW r \in Requests, Find(r) PROVE Unanswered'
  <2>1. CASE \E answer : End(r, answer)
    BY <1>2, <2>1
  <2>2. CASE ~\E answer : End(r, answer)
    <3>1. req[r] \in Request /\ req[r].pc = "find"
      BY <1>5 DEF Find, TypeOK
    <3>2. req'[r].answer = req[r].answer /\ \A q \in Requests : q # r => req'[q] = req[q]
      <4> DEFINE chosen == IF req[r].to # NoStore THEN req[r].to ELSE Seen(r, rows[req[r].file].store)
                 step   == CASE req[r].op = "edit" -> "update" [] req[r].op = "delete" -> "remove"
                             [] req[r].op = "replace" -> IF chosen \in Clouds THEN "overwrite" ELSE "put"
      <4>1. req' = [req EXCEPT ![r] = [@ EXCEPT !.pc = step, !.row = rows[req[r].file], !.to = chosen]]
        BY <1>5, <2>2 DEF Find
      <4> HIDE DEF chosen, step
      <4> QED
        BY <3>1, <4>1 DEF TypeOK, Request
    <3> QED
      BY <3>1, <3>2 DEF Unanswered
  <2> QED
    BY <2>1, <2>2
<1>6. ASSUME NEW r \in Requests, Look(r) PROVE Unanswered'
  <2>1. CASE \E answer : End(r, answer)
    BY <1>2, <2>1
  <2>2. CASE \E row : req' = [req EXCEPT ![r] = [@ EXCEPT !.pc = "open", !.row = row]]
    <3>1. req[r] \in Request /\ req[r].pc = "look"
      BY <1>6 DEF Look, TypeOK
    <3>2. req'[r].answer = req[r].answer /\ \A q \in Requests : q # r => req'[q] = req[q]
      BY <2>2, <3>1 DEF TypeOK, Request
    <3> QED
      BY <3>1, <3>2 DEF Unanswered
  <2> QED
    BY <1>6, <2>1, <2>2 DEF Look
<1>7. ASSUME NEW r \in Requests, OpenStep(r) PROVE Unanswered'
  <2>1. CASE \E answer : End(r, answer)
    BY <1>2, <2>1
  <2>2. CASE \E got : req' = [req EXCEPT ![r] = [@ EXCEPT !.pc = "send", !.got = got]]
    <3>1. req[r] \in Request /\ req[r].pc = "open"
      BY <1>7 DEF OpenStep, OpenFile, OpenLocalImage, OpenCloudImage, TypeOK
    <3>2. req'[r].answer = req[r].answer /\ \A q \in Requests : q # r => req'[q] = req[q]
      BY <2>2, <3>1 DEF TypeOK, Request
    <3> QED
      BY <3>1, <3>2 DEF Unanswered
  <2> QED
    BY <1>7, <2>1, <2>2 DEF OpenStep, OpenFile, OpenLocalImage, OpenCloudImage, Opened
<1>8. ASSUME NEW r \in Requests, StorageStep(r) PROVE Unanswered'
  BY <1>1, <1>2, <1>8 DEF StorageStep, Upload, RollBack, Overwrite, Backup, Unlink, Copy, Clean, Tidy,
     Restore, Remove
<1>9. ASSUME NEW r \in Requests, Insert(r) \/ Update(r) \/ DeleteRow(r) \/ SendStep(r) \/ Break(r)
      PROVE  Unanswered'
  BY <1>1, <1>2, <1>9 DEF Insert, Update, DeleteRow, SendStep, Send, Finish, Break
<1>10. ASSUME NEW r \in Requests, StorageFails(r) \/ QueryFails(r) PROVE Unanswered'
  BY <1>1, <1>2, <1>10 DEF StorageFails, QueryFails
<1>11. CASE UNCHANGED vars \/ \E store \in Stores : Disable(store)
  BY <1>11 DEF vars, Disable, Unanswered
<1>12. ASSUME NEW r \in Requests, Step(r) PROVE Unanswered'
  BY <1>5, <1>6, <1>7, <1>8, <1>9, <1>12 DEF Step, StorageStep, OpenStep, SendStep
<1> QED
  BY <1>3, <1>4, <1>9, <1>10, <1>11, <1>12 DEF Next

LEMMA Starts == ASSUME Init PROVE IInv
<1>1. PICK store \in Stores :
        /\ rows = [f \in FileIds |-> IF f = 0 THEN [store |-> store, of |-> 0] ELSE NoRow]
        /\ objects = {Object(store, 0, 0, 0)}
  BY DEF Init
<1>2. PICK o : o = Object(store, 0, 0, 0)
  OBVIOUS
<1>3. objects = {o} /\ o.store = store /\ o.name = 0 /\ o.file = 0 /\ o.of = 0 /\ o \in Stored
  BY <1>1, <1>2, Constants DEF Object, Stored
<1>4. \A q \in Requests : req[q] = NoRequest
  BY DEF Init
<1>5. NoRequest \in Request
  BY Constants DEF NoRequest, Request, Labels, Answers, Parameters, Parts
<1>6. /\ rows[0].store = store /\ rows[0].of = 0 /\ rows[0] # NoRow
      /\ \A f \in FileIds : f # 0 => rows[f] = NoRow
      /\ rows \in [FileIds -> Row \cup {NoRow}]
  <2>1. [store |-> store, of |-> 0] \in Row
    BY Constants DEF Row
  <2> QED
    BY <1>1, <2>1, Constants
<1>7. \A q \in Requests : ~Writer(q) /\ req[q].pc = "none" /\ req[q].op = "none"
  BY <1>4 DEF NoRequest, Writer, Active
<1>8. TypeOK
  BY <1>3, <1>4, <1>5, <1>6 DEF Init, TypeOK
<1>9. RequestsSound
  BY <1>7 DEF RequestsSound, Steps, Writer
<1>10. RowsSound
  BY <1>6, <1>7, Constants DEF RowsSound, RowsMade, WritersApart, Unchanged, Made
<1>11. ObjectsNamed
  BY <1>3 DEF ObjectsNamed
<1>12. ContentKept
  BY <1>3, <1>6, <1>7, Constants DEF ContentKept, Described, Holds
<1>13. NothingLost
  BY <1>3, <1>6, <1>7 DEF NothingLost, Led
<1>14. ReadersServed
  BY <1>7 DEF ReadersServed
<1> QED
  BY <1>8, <1>9, <1>10, <1>11, <1>12, <1>13, <1>14 DEF IInv

LEMMA Inductive == ASSUME IInv, [Next]_vars PROVE IInv'
<1>1. CASE Begin
  BY <1>1, BeginKeeps
<1>2. CASE Die
  BY <1>2, DieKeeps
<1>3. CASE \E store \in Stores : Disable(store)
  <2>1. TypeOK' /\ UNCHANGED <<rows, objects, req, started, history>> /\ enabled' \subseteq enabled
    BY <1>3 DEF Disable, Trouble, IInv, TypeOK
  <2> QED
    BY <2>1, RestKeeps
<1>4. CASE \E r \in Requests : Step(r) \/ Break(r) \/ StorageFails(r) \/ QueryFails(r)
  BY <1>4, StepKeeps, BreakKeeps, StorageFailsKeeps, QueryFailsKeeps
<1>5. CASE UNCHANGED vars
  <2>1. TypeOK' /\ UNCHANGED <<rows, objects, req, started, history>> /\ enabled' \subseteq enabled
    BY <1>5 DEF vars, IInv, TypeOK
  <2> QED
    BY <2>1, RestKeeps
<1> QED
  BY <1>1, <1>2, <1>3, <1>4, <1>5 DEF Next

LEMMA Invariance == Spec => [](IInv /\ Unanswered)
<1>1. Init => IInv /\ Unanswered
  BY Starts DEF Init, NoRequest, Unanswered
<1>2. IInv /\ Unanswered /\ [Next]_vars => (IInv /\ Unanswered)'
  BY Inductive, UnansweredKeeps DEF IInv
<1> QED
  BY <1>1, <1>2, PTL DEF Spec

\* Rows, objects, requests and excuses have their types, however many requests,
\* clouds and plans there are.
THEOREM TypeCorrect == Spec => []TypeOK
<1>1. IInv => TypeOK
  BY DEF IInv
<1> QED
  BY <1>1, Invariance, PTL

\* What is stored for a file that nothing writes is what its row describes: every
\* write that failed and is not excused has been taken back (uploadFile's rollback,
\* updateFile's restore of the backup).
THEOREM RowsAreTrue == Spec => []RowsTrue
<1>1. ASSUME IInv PROVE RowsTrue
  <2> SUFFICES ASSUME NEW f \in FileIds, Idle(f), rows[f] # NoRow, ~Excused("content", f)
               PROVE  There(rows[f].store, f) /\ Uploaded(rows[f].store, f) = rows[f].of
    BY DEF RowsTrue
  <2>1. \A r \in Requests : ~(Writer(r) /\ req[r].file = f)
    BY DEF Idle, Writer, Writes
  <2>2. Holds(rows[f].store, f, rows[f].of)
    BY <1>1, <2>1 DEF IInv, ContentKept, Described
  <2> QED
    BY <1>1, <2>2, UploadedOf DEF IInv
<1> QED
  BY <1>1, Invariance, PTL

\* What is stored for a file that nothing writes is what its row leads to: the
\* backup, the new name and the upload that has no row have been taken away. Not
\* so for the excuses of NothingLeft: among them is the object in a cloud whose
\* row was deleted by a request that did not see where it is.
THEOREM NothingStays == Spec => []NothingLeft
<1>1. ASSUME IInv PROVE NothingLeft
  <2> SUFFICES ASSUME NEW o \in objects, Idle(o.file), ~Excused("left", o.file)
               PROVE  rows[o.file] # NoRow /\ o.store = rows[o.file].store /\ o.name = o.file
    BY DEF NothingLeft
  <2>1. Led(o) \/ Early(o) \/ Passing(o)
    BY <1>1 DEF IInv, NothingLost
  <2>2. ~Early(o)
    BY <1>1 DEF Early, Idle, Active, IInv, RequestsSound
  <2>3. ~Passing(o)
    BY DEF Passing, OnDisk, Idle, Active
  <2> QED
    BY <2>1, <2>2, <2>3 DEF Led
<1> QED
  BY <1>1, Invariance, PTL

\* Who reads a file that nobody is writing is sent what its row describes, from
\* the storage that the row names.
THEOREM ReadersAreServed == Spec => []ReadsServe
<1>1. ASSUME IInv, Unanswered PROVE ReadsServe
  BY <1>1 DEF ReadsServe, IInv, ReadersServed, Unanswered
<1> QED
  BY <1>1, Invariance, PTL
=============================================================================
