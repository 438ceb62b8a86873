-------------------------- MODULE AttachmentUpload --------------------------
(***************************************************************************)
(* Attachments: a row in PostgreSQL and, for a managed one, a file in the  *)
(* volume.  No transaction spans the two: Upload reads the row, writes the *)
(* file under its final name, and only then marks the row ready; whatever  *)
(* goes wrong after the rename is repaired by removing the file.           *)
(*                                                                         *)
(* Several uploads of one Attachment may run at once, each in its own      *)
(* connection, together with downloads, deletions, and Record mutations    *)
(* that refer to the Attachment.                                           *)
(***************************************************************************)
EXTENDS Naturals

CONSTANTS
  Attachments,
  Contents,     \* what clients send
  Contradicted, \* contents whose detected type is not the one in Content-Type
  Mismatched,   \* contents that do not have the size and type declared at init
  NoContent,         \* no content
  Uploaders,    \* connections that run PUT .../content
  Readers,      \* connections that run GET .../content
  Deleters,     \* clients that delete an Attachment they have looked at
  Writers,      \* connections that run a Record mutation with a reference
  LostCommit    \* TRUE if COMMIT may succeed and yet be reported as failed

ASSUME AttachmentAssumption ==
  /\ Contradicted \subseteq Contents /\ Mismatched \subseteq Contents
  /\ NoContent \notin Contents
  /\ LostCommit \in BOOLEAN

VARIABLES
  row,       \* rows of attachments
  file,      \* the file of each storageKey
  upload,
  reader,
  deleter,
  writer,
  referenced,\* Attachments that a committed Record value refers to
  disturbed  \* history: Attachments that two uploads worked on at once, or
             \* whose COMMIT was reported as failed

attachmentVars == <<row, file, upload, reader, deleter, writer, referenced, disturbed>>

-----------------------------------------------------------------------------
Maybe == Contents \cup {NoContent}

Row ==
  [status  : {"absent", "pending", "ready"},
   source  : {"managed", "vault"},
   hash    : Maybe,      \* size, sha256 and MIME type recorded by MarkReady
   shape   : Maybe,      \* the content whose width and height are recorded
   rev     : Nat,
   deleted : BOOLEAN]

NoRow == [status |-> "absent", source |-> "managed", hash |-> NoContent, shape |-> NoContent,
          rev |-> 0, deleted |-> FALSE]

NoUpload == [pc |-> "idle", at |-> NoContent, content |-> NoContent, shape |-> NoContent]

Reading(phases) == [pc : phases, at : Attachments \cup {NoContent}, row : Row, got : Maybe]

Upload ==
  [pc : {"idle", "streaming", "renamed", "put", "remove"}, at : Attachments \cup {NoContent},
   content : Maybe, shape : Maybe]

Idle == [pc |-> "idle", at |-> NoContent, row |-> NoRow, got |-> NoContent]

AttachmentInit ==
  /\ row = [a \in Attachments |-> NoRow]
  /\ file = [a \in Attachments |-> NoContent]
  /\ upload = [u \in Uploaders |-> NoUpload]
  /\ reader = [r \in Readers |-> Idle]
  /\ deleter = [d \in Deleters |-> Idle]
  /\ writer = [w \in Writers |-> Idle]
  /\ referenced = {}
  /\ disturbed = {}

AttachmentTypeOK ==
  /\ row \in [Attachments -> Row]
  /\ file \in [Attachments -> Maybe]
  /\ upload \in [Uploaders -> Upload]
  /\ reader \in [Readers -> Reading({"idle", "found", "served", "failed"})]
  /\ deleter \in [Deleters -> Reading({"idle", "found"})]
  /\ writer \in [Writers -> Reading({"idle", "checked"})]
  /\ {referenced, disturbed} \subseteq SUBSET Attachments
  /\ \A a \in Attachments : row[a].source = "vault" =>
       row[a].status = "ready" /\ row[a].hash = NoContent /\ file[a] = NoContent

(* CreateAttachment: the row is pending, or ready at once in the Vault. *)
Initialize(a) ==
  /\ row[a] = NoRow
  /\ \/ row' = [row EXCEPT ![a] = [NoRow EXCEPT !.status = "pending", !.rev = 1]]
     \/ row' = [row EXCEPT ![a] = [NoRow EXCEPT !.status = "ready", !.source = "vault", !.rev = 1]]
  /\ UNCHANGED <<file, upload, reader, deleter, writer, referenced, disturbed>>

(* GetAttachment hides deleted rows. *)
Visible(a) == row[a].status # "absent" /\ ~row[a].deleted

-----------------------------------------------------------------------------
(* Upload *)

Others == UNCHANGED <<reader, deleter, writer, referenced>>

OnlyUpload == Others /\ UNCHANGED disturbed

Disturb(a) == disturbed' = disturbed \cup {a}

At(u) == upload[u].at

(* Mutant: a ready Attachment may be uploaded again. *)
StartUploadAnyStatus(u) ==
  /\ upload[u].pc = "idle"
  /\ \E a \in Attachments, c \in Contents :
       /\ Visible(a) /\ row[a].source = "managed"
       /\ upload' = [upload EXCEPT ![u] = [NoUpload EXCEPT !.pc = "streaming", !.at = a, !.content = c]]
       /\ IF \E v \in Uploaders : At(v) = a THEN Disturb(a) ELSE UNCHANGED disturbed
  /\ UNCHANGED <<row, file>> /\ Others

(* The row is read without a lock and not looked at again before MarkReady. *)
StartUpload(u) ==
  /\ upload[u].pc = "idle"
  /\ \E a \in Attachments, c \in Contents :
       /\ Visible(a) /\ row[a].source = "managed" /\ row[a].status = "pending"
       /\ upload' = [upload EXCEPT ![u] = [NoUpload EXCEPT !.pc = "streaming", !.at = a, !.content = c]]
       /\ IF \E v \in Uploaders : At(v) = a THEN Disturb(a) ELSE UNCHANGED disturbed
  /\ UNCHANGED <<row, file>> /\ Others

(* Put streams into a temporary file of its own and renames it. *)
Rename(u) ==
  /\ upload[u].pc = "streaming"
  /\ file' = [file EXCEPT ![At(u)] = upload[u].content]
  /\ upload' = [upload EXCEPT ![u].pc = "renamed"]
  /\ UNCHANGED row /\ OnlyUpload

(* Put then compares types; the dimensions of an image are read back from   *)
(* the file that now has the name.                                          *)
Inspect(u) ==
  /\ upload[u].pc = "renamed"
  /\ \/ /\ upload[u].content \in Contradicted
        /\ file' = [file EXCEPT ![At(u)] = NoContent]
        /\ upload' = [upload EXCEPT ![u] = NoUpload]
     \/ /\ upload[u].content \notin Contradicted
        /\ upload' = [upload EXCEPT ![u] = [@ EXCEPT !.pc = "put", !.shape = file[At(u)]]]
        /\ UNCHANGED file
  /\ UNCHANGED row /\ OnlyUpload

MarkedReady(u) ==
  [row EXCEPT ![At(u)] = [@ EXCEPT !.status = "ready", !.hash = upload[u].content,
                                   !.shape = upload[u].shape, !.rev = row[At(u)].rev + 1]]

Repair(u) == upload' = [upload EXCEPT ![u].pc = "remove"]

(* Size and type are compared with those declared at init. *)
Fits(content) == content \notin Mismatched

Refuse(u) ==
  /\ upload[u].pc = "put"
  /\ ~Fits(upload[u].content)
  /\ Repair(u)
  /\ UNCHANGED <<row, file>> /\ OnlyUpload

(* Mutant: the last upload wins. *)
MarkReadyAnyStatus(u) ==
  /\ upload[u].pc = "put"
  /\ Fits(upload[u].content)
  /\ row' = MarkedReady(u)
  /\ upload' = [upload EXCEPT ![u] = NoUpload]
  /\ UNCHANGED file /\ OnlyUpload

(* SELECT ... FOR UPDATE, UPDATE and COMMIT: nobody comes between.          *)
(* deleted_at is not looked at.                                             *)
MarkReady(u) ==
  /\ upload[u].pc = "put"
  /\ Fits(upload[u].content)
  /\ \/ /\ row[At(u)].status = "pending"
        /\ row' = MarkedReady(u)
        /\ upload' = [upload EXCEPT ![u] = NoUpload]
        /\ UNCHANGED disturbed
     \/ /\ row[At(u)].status = "pending" /\ LostCommit
        /\ row' = MarkedReady(u)
        /\ Repair(u) /\ Disturb(At(u))
     \/ /\ UNCHANGED <<row, disturbed>>  \* not pending any more, or the database failed
        /\ Repair(u)
  /\ UNCHANGED file /\ Others

(* Remove, unless the request has been cancelled meanwhile. *)
RemoveFile(u) ==
  /\ upload[u].pc = "remove"
  /\ file' \in {file, [file EXCEPT ![At(u)] = NoContent]}
  /\ upload' = [upload EXCEPT ![u] = NoUpload]
  /\ UNCHANGED row /\ OnlyUpload

(* The client breaks off, the file system fails, or the server crashes. *)
Abort(u) ==
  /\ upload[u].pc # "idle"
  /\ upload' = [upload EXCEPT ![u] = NoUpload]
  /\ UNCHANGED <<row, file>> /\ OnlyUpload

-----------------------------------------------------------------------------
(* Open: the row first, then the file. *)
Find(r) ==
  /\ reader[r].pc = "idle"
  /\ \E a \in Attachments :
       /\ Visible(a) /\ row[a].source = "managed" /\ row[a].status = "ready"
       /\ reader' = [reader EXCEPT ![r] = [Idle EXCEPT !.pc = "found", !.at = a, !.row = row[a]]]
  /\ UNCHANGED <<row, file, upload, deleter, writer, referenced, disturbed>>

ServeFile(r) ==
  /\ reader[r].pc = "found"
  /\ LET content == file[reader[r].at] IN
       reader' = [reader EXCEPT ![r] =
                    [@ EXCEPT !.pc = IF content = NoContent THEN "failed" ELSE "served", !.got = content]]
  /\ UNCHANGED <<row, file, upload, deleter, writer, referenced, disturbed>>

Leave(r) ==
  /\ reader[r].pc # "idle"
  /\ reader' = [reader EXCEPT ![r] = Idle]
  /\ UNCHANGED <<row, file, upload, deleter, writer, referenced, disturbed>>

(* A client looks at an Attachment and deletes it by the Revision it saw. *)
Look(d) ==
  /\ \E a \in Attachments :
       /\ Visible(a)
       /\ deleter' = [deleter EXCEPT ![d] = [Idle EXCEPT !.pc = "found", !.at = a, !.row = row[a]]]
  /\ UNCHANGED <<row, file, upload, reader, writer, referenced, disturbed>>

(* The file stays: "kept until a later cleanup". *)
Delete(d) ==
  LET a == deleter[d].at IN
  /\ deleter[d].pc = "found"
  /\ ~row[a].deleted /\ row[a].rev = deleter[d].row.rev
  /\ row' = [row EXCEPT ![a] = [@ EXCEPT !.deleted = TRUE, !.rev = row[a].rev + 1]]
  /\ deleter' = [deleter EXCEPT ![d] = Idle]
  /\ UNCHANGED <<file, upload, reader, writer, referenced, disturbed>>

(* validateAttachmentReferences locks nothing; the Record commits later. *)
CheckReference(w) ==
  /\ writer[w].pc = "idle"
  /\ \E a \in Attachments :
       /\ Visible(a) /\ row[a].status = "ready"
       /\ writer' = [writer EXCEPT ![w] = [Idle EXCEPT !.pc = "checked", !.at = a, !.row = row[a]]]
  /\ UNCHANGED <<row, file, upload, reader, deleter, referenced, disturbed>>

Refer(w) ==
  /\ writer[w].pc = "checked"
  /\ referenced' \in {referenced, referenced \cup {writer[w].at}}
  /\ writer' = [writer EXCEPT ![w] = Idle]
  /\ UNCHANGED <<row, file, upload, reader, deleter, disturbed>>

-----------------------------------------------------------------------------
UploadStep(u) ==
  \/ StartUpload(u) \/ Rename(u) \/ Inspect(u) \/ Refuse(u) \/ MarkReady(u) \/ RemoveFile(u) \/ Abort(u)

AttachmentNext ==
  \/ \E a \in Attachments : Initialize(a)
  \/ \E u \in Uploaders : UploadStep(u)
  \/ \E r \in Readers : Find(r) \/ ServeFile(r) \/ Leave(r)
  \/ \E d \in Deleters : Look(d) \/ Delete(d)
  \/ \E w \in Writers : CheckReference(w) \/ Refer(w)

AttachmentSpec == AttachmentInit /\ [][AttachmentNext]_attachmentVars

-----------------------------------------------------------------------------
(* Properties *)

Managed(a) == row[a].source = "managed" /\ row[a].status = "ready"

(* What was sent is what the row that was found describes. *)
DownloadsTrue ==
  \A r \in Readers : reader[r].pc \in {"served", "failed"} /\ reader[r].at \notin disturbed =>
    reader[r].got = reader[r].row.hash

(* Unless two uploads of an Attachment overlap or a COMMIT is misreported,   *)
(* row and file stay in step, wherever an upload is broken off and repeated: *)
(* a ready Attachment has the very file whose hash and dimensions are        *)
(* recorded (Upload renames before MarkReady, and removes on every error),   *)
(* and a download is of the content that the row it found describes          *)
(* (attachmentContent sends Content-Length and type from the row).           *)
ContentKept ==
  /\ AttachmentTypeOK
  /\ \A a \in Attachments \ disturbed :
       Managed(a) => file[a] = row[a].hash /\ row[a].shape = row[a].hash
  /\ DownloadsTrue

(* However many uploads race, the hash and the dimensions are recorded once: *)
(* the first to lock the row wins (MarkReady's test for "pending").          *)
RecordedOnce ==
  [][\A a \in Attachments : Managed(a) =>
       row'[a].hash = row[a].hash /\ row'[a].shape = row[a].shape /\ row'[a].status = "ready"]_row

(* "With Managed Attachments enabled, data and attachment references stay   *)
(* consistent across a restart of the Server" (docs/design/overview.md:82). *)
ReferencedContentKept ==
  \A a \in referenced : row[a].source = "managed" => file[a] # NoContent

=============================================================================
