------------------------------- MODULE Files -------------------------------
(****************************************************************************)
(* Files: rows of file_definition and what is stored for them, on the disk  *)
(* of the server or in a cloud (modules/file-management, and                *)
(* shared/helpers/upload-file.helper.ts for scripts). A write goes to the   *)
(* storage and to the database one after the other, with a compensation for *)
(* some of the failures; nothing keeps two writes of one file apart.        *)
(****************************************************************************)
EXTENDS Naturals, FiniteSets

CONSTANTS
  Count,        \* bound: requests of any plan
  Clouds,       \* storages other than the local disk
  NoStore, NoRow, NoContent,
  Databases,    \* subset of {"sql", "mongodb"}
  Plans         \* bounds: number of requests, what readers ask for, what writers may
                \* miss of the row, and troubles (failures, kills, disabled storages)

Local == "local"
Backups == "backups"     \* copies beside the files on the disk
Stores == Clouds \cup {Local}
Requests == 1 .. Count
FileIds == 0 .. Count    \* 0 is there from the start, f is made by request f

ASSUME FilesAssumption ==
  /\ Count \in Nat
  /\ {Local, Backups} \cap Clouds = {} /\ NoStore \notin Stores
  /\ NoRow \notin [store : Stores, of : FileIds] /\ NoContent \notin FileIds
  /\ \A p \in Plans : p.requests \in 0 .. Count /\ p.troubles \in Nat

VARIABLES
  database,
  rows,       \* of each file: its storage, and the upload it describes
  objects,    \* what is stored: where, for which file, of which upload
  enabled,    \* storages in the cache of configurations
  req,        \* requests
  started, troubles,
  plan,       \* one of Plans
  history     \* what excuses a property: <<kind, file or request>>

vars == <<database, rows, objects, enabled, req, started, troubles, plan, history>>
counted == <<database, enabled, started, troubles, plan>>

-----------------------------------------------------------------------------
(* The storage. Names of uploads are never used twice: the name is the       *)
(* request's, and a file keeps the name of its first upload.                 *)

At(store, name) == {o \in objects : o.store = store /\ o.name = name}
There(store, name) == At(store, name) /= {}
Uploaded(store, name) == (CHOOSE o \in At(store, name) : TRUE).of
Object(store, name, file, of) == [store |-> store, name |-> name, file |-> file, of |-> of]
Put(o) == objects' = (objects \ At(o.store, o.name)) \cup {o}
Delete(store, name) == objects' = objects \ At(store, name)

\* On MongoDB the writers look for storageConfig.id, which a row does not have
\* there: they take the local storage. So they do when the client asked for
\* fields without it.
Seen(r, store) == IF database = "mongodb" \/ req[r].misses = "storage" THEN Local ELSE store

Known(store) == store \in enabled

\* Without the location of its file a write gets no further in the storage.
Lost(r) == req[r].misses = "location"

-----------------------------------------------------------------------------
(* Requests *)

Now(r, label) == req' = [req EXCEPT ![r].pc = label]
End(r, answer) == req' = [req EXCEPT ![r] = [@ EXCEPT !.pc = "ended", !.answer = answer]]
Excuse(set) == history' = history \cup set
Writes(r) == req[r].op \in {"replace", "edit", "delete"}
Active(r) == req[r].pc \notin {"none", "find", "look", "ended"}

Begin ==
  /\ started < plan.requests
  /\ started' = started + 1
  /\ \E op \in {"upload", "replace", "edit", "delete", "read"}, f \in 0 .. started, to \in Stores \cup {NoStore},
        asked \in plan.asked, misses \in plan.misses, allowed \in BOOLEAN :
       /\ op = "upload" => f = 0 /\ to /= NoStore
       /\ op = "edit" => to /= NoStore
       /\ op \in {"delete", "read"} => to = NoStore
       /\ op /= "read" => asked = "plain" /\ allowed
       /\ op \in {"upload", "read"} => misses = "nothing"
       /\ req' = [req EXCEPT ![started + 1] =
            [pc |-> IF op = "upload" THEN "put" ELSE IF op = "read" THEN "look" ELSE "find",
             op |-> op, file |-> IF op = "upload" THEN started + 1 ELSE f, to |-> to,
             misses |-> misses, asked |-> asked, allowed |-> allowed, row |-> NoRow, got |-> NoContent, answer |-> "none"]]
  /\ UNCHANGED <<database, rows, objects, enabled, troubles, plan, history>>

\* Requests that meet this write of the same file.
Met(r) == {q \in Requests \ {r} : Active(q) /\ req[q].file = req[r].file}
Meets(r) ==
  {<<"read", q>> : q \in {q \in Met(r) : req[q].op = "read"}} \cup
  (IF \E q \in Met(r) : Writes(q) THEN {<<"content", req[r].file>>, <<"left", req[r].file>>} ELSE {})

\* The row is read, with the client's fields and from the client's page, which may
\* leave it out, and the storage chosen: the one of the body, or of the row.
Find(r) ==
  /\ req[r].pc = "find"
  /\ LET row == rows[req[r].file]
         to == IF req[r].to /= NoStore THEN req[r].to ELSE Seen(r, row.store)
         first == CASE req[r].op = "edit" -> "update" [] req[r].op = "delete" -> "remove"
                    [] req[r].op = "replace" -> IF to \in Clouds THEN "overwrite" ELSE "put"
     IN
     IF row = NoRow \/ req[r].misses = "row" THEN End(r, "failed") /\ UNCHANGED history
     ELSE IF req[r].op = "replace" /\ ~Known(to) THEN End(r, "failed") /\ UNCHANGED history
     ELSE /\ req' = [req EXCEPT ![r] = [@ EXCEPT !.pc = first, !.row = row, !.to = to]]
          /\ Excuse(Meets(r))
  /\ UNCHANGED <<rows, objects, counted>>

\* processFileUpload: the file is stored under a new name.
Upload(r) ==
  /\ req[r].pc = "put"
  /\ IF ~Known(req[r].to)
     THEN End(r, "failed") /\ UNCHANGED objects
     ELSE Put(Object(req[r].to, r, req[r].file, r)) /\ Now(r, IF req[r].op = "upload" THEN "insert" ELSE "backup")
  /\ UNCHANGED <<rows, history, counted>>

Insert(r) ==
  /\ req[r].pc = "insert"
  /\ rows' = [rows EXCEPT ![r] = [store |-> req[r].to, of |-> r]]
  /\ End(r, "done")
  /\ UNCHANGED <<objects, history, counted>>

\* The row could not be made: what was stored is deleted; an error is only logged.
RollBack(r) ==
  /\ req[r].pc = "rollback"
  /\ IF Known(req[r].to)
     THEN Delete(req[r].to, r) /\ UNCHANGED history
     ELSE Excuse({<<"left", r>>}) /\ UNCHANGED objects
  /\ End(r, "failed")
  /\ UNCHANGED <<rows, counted>>

\* A file in a cloud is written over, under the name it has. In another storage
\* than before it is a second one.
Overwrite(r) ==
  /\ req[r].pc = "overwrite"
  /\ LET f == req[r].file IN
     IF ~Known(req[r].to) \/ Lost(r) THEN End(r, "failed") /\ UNCHANGED <<objects, history>>
     ELSE /\ Put(Object(req[r].to, f, f, r))
          /\ Now(r, "update")
          /\ IF req[r].to = req[r].row.store THEN UNCHANGED history ELSE Excuse({<<"left", f>>})
  /\ UNCHANGED <<rows, counted>>

-----------------------------------------------------------------------------
(* Replacing a file on the disk: a backup, the old file away, the new one     *)
(* copied to its name, the row, and the new name and the backup away.         *)

Backup(r) ==
  /\ req[r].pc = "backup"
  /\ LET f == req[r].file IN
     IF There(Local, f) /\ ~Lost(r)
     THEN Put(Object(Backups, r, f, Uploaded(Local, f))) /\ Now(r, "unlink") /\ UNCHANGED history
     ELSE End(r, "failed") /\ Excuse({<<"left", f>>}) /\ UNCHANGED objects
  /\ UNCHANGED <<rows, counted>>

Unlink(r) ==
  /\ req[r].pc = "unlink"
  /\ IF There(Local, r) /\ There(Local, req[r].file)
     THEN Delete(Local, req[r].file) /\ Now(r, "copy")
     ELSE Now(r, "restore") /\ UNCHANGED objects
  /\ UNCHANGED <<rows, history, counted>>

Copy(r) ==
  /\ req[r].pc = "copy"
  /\ IF There(Local, r)
     THEN Put(Object(Local, req[r].file, req[r].file, r)) /\ Now(r, "update")
     ELSE Now(r, "restore") /\ UNCHANGED objects
  /\ UNCHANGED <<rows, history, counted>>

OnDisk(r) == req[r].op = "replace" /\ req[r].to = Local

\* The row as a write leaves it: replacing says what is stored, an edit only where.
Written(r) == [store |-> req[r].to, of |-> IF req[r].op = "replace" THEN r ELSE rows[req[r].file].of]

Update(r) ==
  /\ req[r].pc = "update"
  /\ LET f == req[r].file IN
     IF rows[f] = NoRow
     THEN (IF OnDisk(r) THEN Now(r, "restore") ELSE End(r, "failed")) /\ UNCHANGED <<rows, history>>
     ELSE /\ rows' = [rows EXCEPT ![f] = Written(r)]
          /\ IF OnDisk(r) THEN Now(r, "clean") ELSE End(r, "done")
          /\ IF req[r].op = "edit" /\ rows[f].store /= req[r].to
             THEN Excuse({<<"content", f>>, <<"left", f>>}) ELSE UNCHANGED history
  /\ UNCHANGED <<objects, counted>>

Clean(r) ==
  /\ req[r].pc = "clean"
  /\ IF Known(Local) THEN Delete(Local, r) /\ UNCHANGED history
     ELSE Excuse({<<"left", req[r].file>>}) /\ UNCHANGED objects
  /\ Now(r, "tidy")
  /\ UNCHANGED <<rows, counted>>

\* Mutant: the backup stays.
MutantTidy(r) ==
  /\ req[r].pc = "tidy"
  /\ End(r, "done")
  /\ UNCHANGED <<rows, objects, history, counted>>

Tidy(r) ==
  /\ req[r].pc = "tidy"
  /\ Delete(Backups, r)
  /\ End(r, "done")
  /\ UNCHANGED <<rows, history, counted>>

\* Mutant: the backup is only deleted.
MutantRestore(r) ==
  /\ req[r].pc = "restore"
  /\ Delete(Backups, r)
  /\ End(r, "failed")
  /\ Excuse({<<"left", req[r].file>>})
  /\ UNCHANGED <<rows, counted>>

\* The backup is put back. What was uploaded under the new name stays.
Restore(r) ==
  /\ req[r].pc = "restore"
  /\ LET f == req[r].file IN
       IF There(Backups, r)
       THEN objects' = ((objects \ At(Local, f)) \ At(Backups, r))
                         \cup {Object(Local, f, f, Uploaded(Backups, r))}
       ELSE UNCHANGED objects
  /\ End(r, "failed")
  /\ Excuse({<<"left", req[r].file>>})
  /\ UNCHANGED <<rows, counted>>

-----------------------------------------------------------------------------
(* Deleting: what is stored, then the row. *)

Remove(r) ==
  /\ req[r].pc = "remove"
  /\ IF ~Known(req[r].to) \/ Lost(r) THEN End(r, "failed") /\ UNCHANGED <<objects, history>>
     ELSE /\ Delete(req[r].to, req[r].file)
          /\ Now(r, "row")
          /\ IF req[r].to = req[r].row.store THEN UNCHANGED history
             ELSE Excuse({<<"left", req[r].file>>})
  /\ UNCHANGED <<rows, counted>>

DeleteRow(r) ==
  /\ req[r].pc = "row"
  /\ rows' = [rows EXCEPT ![req[r].file] = NoRow]
  /\ End(r, IF rows[req[r].file] = NoRow THEN "failed" ELSE "done")
  /\ UNCHANGED <<objects, history, counted>>

-----------------------------------------------------------------------------
(* Reading: the row with its storage, the rights, the parameters of an image, *)
(* the stream, and the answer.                                                *)

Allowed(r) == req[r].allowed
WrongParameters(r) == req[r].asked = "wrong"

Look(r) ==
  /\ req[r].pc = "look"
  /\ LET row == rows[req[r].file] IN
     IF row = NoRow \/ ~Allowed(r) \/ WrongParameters(r)
     THEN End(r, "refused") /\ UNCHANGED history
     ELSE /\ req' = [req EXCEPT ![r] = [@ EXCEPT !.pc = "open", !.row = row]]
          /\ IF \E q \in Met(r) : Writes(q) THEN Excuse({<<"read", r>>}) ELSE UNCHANGED history
  /\ UNCHANGED <<rows, objects, counted>>

Opened(r, store) ==
  req' = [req EXCEPT ![r] = [@ EXCEPT !.pc = "send",
            !.got = IF There(store, req[r].file) THEN Uploaded(store, req[r].file) ELSE NoContent]]

\* Mutant: the storage is looked for as the writers do.
MutantOpenFile(r) ==
  /\ req[r].pc = "open" /\ req[r].asked = "plain"
  /\ LET store == Seen(r, req[r].row.store) IN
     IF ~Known(store) \/ ~There(store, req[r].file) THEN End(r, "error") ELSE Opened(r, store)
  /\ UNCHANGED <<rows, objects, history, counted>>

OpenFile(r) ==
  /\ req[r].pc = "open" /\ req[r].asked = "plain"
  /\ LET store == req[r].row.store IN
     IF ~Known(store) \/ ~There(store, req[r].file) THEN End(r, "error") ELSE Opened(r, store)
  /\ UNCHANGED <<rows, objects, history, counted>>

\* From the disk the stream is opened without a look. An unknown format is
\* refused afterwards, and the stream stays open.
OpenLocalImage(r) ==
  /\ req[r].pc = "open" /\ req[r].asked /= "plain" /\ req[r].row.store = Local
  /\ IF ~Known(Local) THEN End(r, "error")
     ELSE IF req[r].asked = "format" THEN End(r, "refused")
     ELSE Opened(r, Local)
  /\ UNCHANGED <<rows, objects, history, counted>>

OpenCloudImage(r) ==
  /\ req[r].pc = "open" /\ req[r].asked /= "plain" /\ req[r].row.store \in Clouds
  /\ LET store == req[r].row.store IN
     IF ~Known(store) \/ ~There(store, req[r].file) THEN End(r, "error")
     ELSE IF req[r].asked = "format" THEN End(r, "refused")
     ELSE Opened(r, store)
  /\ UNCHANGED <<rows, objects, history, counted>>

\* The first bytes with the headers, and the rest.
Send(r) ==
  /\ req[r].pc = "send"
  /\ IF req[r].got = NoContent THEN End(r, "error") ELSE Now(r, "sending")
  /\ UNCHANGED <<rows, objects, history, counted>>

Finish(r) ==
  /\ req[r].pc = "sending"
  /\ End(r, "content")
  /\ UNCHANGED <<rows, objects, history, counted>>

\* The stream breaks. Once headers are sent nothing ends the answer.
Break(r) ==
  /\ req[r].pc \in {"send", "sending"}
  /\ IF req[r].pc = "send" THEN End(r, "error") ELSE Now(r, "hanging")
  /\ Excuse({<<"read", r>>})
  /\ troubles < plan.troubles /\ troubles' = troubles + 1
  /\ UNCHANGED <<database, rows, objects, enabled, started, plan>>

-----------------------------------------------------------------------------
(* What can go wrong *)

Trouble == troubles < plan.troubles /\ troubles' = troubles + 1 /\ UNCHANGED <<database, started, plan>>

\* A step of the storage fails and does nothing.
StorageFails(r) ==
  /\ Trouble
  /\ LET f == req[r].file IN
     \/ req[r].pc \in {"put", "overwrite", "remove"} /\ End(r, "failed") /\ UNCHANGED history
     \/ req[r].pc \in {"rollback", "backup"} /\ End(r, "failed") /\ Excuse({<<"left", f>>})
     \/ req[r].pc \in {"unlink", "copy"} /\ Now(r, "restore") /\ UNCHANGED history
     \/ req[r].pc = "clean" /\ Now(r, "tidy") /\ Excuse({<<"left", f>>})
     \/ req[r].pc = "tidy" /\ End(r, "done") /\ Excuse({<<"left", f>>})
     \/ req[r].pc = "restore" /\ End(r, "failed") /\ Excuse({<<"content", f>>, <<"left", f>>})
     \/ req[r].pc = "open" /\ End(r, "error") /\ Excuse({<<"read", r>>})
  /\ UNCHANGED <<rows, objects, enabled>>

\* A query fails. The repository reads a row back after it is written: then the
\* row is there although the caller is told it is not.
QueryFails(r) ==
  /\ Trouble
  /\ LET f == req[r].file IN
     \/ /\ req[r].pc \in {"find", "look"} /\ End(r, "failed") /\ UNCHANGED <<rows, history>>
     \/ /\ req[r].pc = "insert" /\ Now(r, "rollback")
        /\ \/ UNCHANGED <<rows, history>>
           \/ rows' = [rows EXCEPT ![r] = [store |-> req[r].to, of |-> r]] /\ Excuse({<<"content", f>>})
     \/ /\ req[r].pc = "update" /\ OnDisk(r) /\ Now(r, "restore")
        /\ \/ UNCHANGED <<rows, history>>
           \/ rows[f] /= NoRow /\ rows' = [rows EXCEPT ![f] = Written(r)] /\ Excuse({<<"content", f>>})
     \/ /\ req[r].pc = "update" /\ ~OnDisk(r) /\ End(r, "failed")
        /\ \/ UNCHANGED rows
           \/ rows[f] /= NoRow /\ rows' = [rows EXCEPT ![f] = Written(r)]
        /\ Excuse({<<"content", f>>, <<"left", f>>})
     \/ /\ req[r].pc = "row" /\ End(r, "failed") /\ Excuse({<<"content", f>>}) /\ UNCHANGED rows
  /\ UNCHANGED <<objects, enabled>>

\* The server dies: nothing of what its requests had begun is finished.
Die ==
  /\ \E r \in Requests : Active(r)
  /\ Trouble
  /\ req' = [r \in Requests |-> IF req[r].pc \in {"none", "ended"} THEN req[r]
                                ELSE [req[r] EXCEPT !.pc = "ended", !.answer = "killed"]]
  /\ LET cut == {req[r].file : r \in {q \in Requests : Active(q) /\ req[q].op /= "read"}} IN
       Excuse({"content", "left"} \X cut)
  /\ UNCHANGED <<rows, objects, enabled>>

Disable(store) ==
  /\ Known(store)
  /\ Trouble
  /\ enabled' = enabled \ {store}
  /\ UNCHANGED <<rows, objects, req, history>>

-----------------------------------------------------------------------------
NoRequest == [pc |-> "none", op |-> "none", file |-> 0, to |-> NoStore, misses |-> "nothing", asked |-> "plain", allowed |-> FALSE,
              row |-> NoRow, got |-> NoContent, answer |-> "none"]

Init ==
  /\ database \in Databases
  /\ \E store \in Stores :
       /\ rows = [f \in FileIds |-> IF f = 0 THEN [store |-> store, of |-> 0] ELSE NoRow]
       /\ objects = {Object(store, 0, 0, 0)}
  /\ enabled = Stores
  /\ req = [r \in Requests |-> NoRequest]
  /\ started = 0 /\ troubles = 0 /\ plan \in Plans /\ history = {}

Step(r) ==
  \/ Find(r) \/ Upload(r) \/ Insert(r) \/ RollBack(r) \/ Overwrite(r) \/ Backup(r) \/ Unlink(r) \/ Copy(r)
  \/ Update(r) \/ Clean(r) \/ Tidy(r) \/ Restore(r) \/ Remove(r) \/ DeleteRow(r)
  \/ Look(r) \/ OpenFile(r) \/ OpenLocalImage(r) \/ OpenCloudImage(r) \/ Send(r) \/ Finish(r)
Next ==
  \/ Begin \/ Die \/ \E store \in Stores : Disable(store)
  \/ \E r \in Requests : Step(r) \/ Break(r) \/ StorageFails(r) \/ QueryFails(r)
Spec == Init /\ [][Next]_vars

-----------------------------------------------------------------------------
(* Properties *)

Excused(kind, x) == <<kind, x>> \in history
Idle(f) == \A r \in Requests : Active(r) => req[r].op = "read" \/ req[r].file /= f

\* A file that nothing writes has what its row describes, where the row says:
\* a failed write has been taken back. Excused: writes of one file at once, a
\* row sent to another storage by an edit, a cloud file written over whose row
\* could not be updated, a row that is deleted after its file or read back in
\* vain, and a server that dies.
RowsTrue ==
  \A f \in FileIds : Idle(f) /\ rows[f] /= NoRow /\ ~Excused("content", f) =>
    There(rows[f].store, f) /\ Uploaded(rows[f].store, f) = rows[f].of

\* Nothing is stored that no row leads to, once a file is left alone. Excused:
\* the upload of a replacement on the disk that failed, the file in the storage
\* a file moved from, the file in a cloud of a write that did not see it there
\* (MongoDB, or a client that asked for other fields), what could not be
\* deleted, and the excuses of RowsTrue.
NothingLeft ==
  \A o \in objects : Idle(o.file) /\ ~Excused("left", o.file) =>
    rows[o.file] /= NoRow /\ o.store = rows[o.file].store /\ o.name = o.file

\* Who reads a file that nobody is writing gets what its row describes.
ReadsServe ==
  \A r \in Requests : req[r].op = "read" /\ req[r].row /= NoRow /\ Known(req[r].row.store)
      /\ ~Excused("read", r) /\ ~Excused("content", req[r].file) =>
    req[r].answer /= "error" /\ (req[r].answer = "content" => req[r].got = req[r].row.of)

=============================================================================
