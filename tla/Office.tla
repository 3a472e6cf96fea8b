------------------------------- MODULE Office -------------------------------
(***************************************************************************)
(* Files and where they are stored, certificates with their PDF, and the   *)
(* lessons on the schedule, of one tenant.                                 *)
(*                                                                         *)
(* Not here, because they fail without a trace on the synchronised schema: *)
(* PATCH /schedules/:id/cancel sets two properties that Schedule lacks,    *)
(* and POST /schedules/bulk and the insert of POST /admin/schedules leave  *)
(* the day of the week out, which may not be NULL.                         *)
(***************************************************************************)
EXTENDS Requests

CONSTANTS
    FileKeys,       \* storage keys: each upload gets a new one
    Certificates,   \* the uuids certificates may get
    Lessons,        \* the uuids lessons may get
    Dates           \* dates of lessons

VARIABLES
    storage,    \* the objects in the upload directory or the bucket
    files,      \* table files: "absent", "live" or "removed"
    pdfs,       \* the PDF files of certificates
    certs,      \* table certificates
    lessons,    \* table schedules
    issued,     \* history: the certificates whose issue was answered
    revoked     \* history: the certificates whose revocation was answered

officeTables == <<storage, files, pdfs, certs, lessons, issued, revoked>>

Certificate == [exists : BOOLEAN, valid : BOOLEAN, url : BOOLEAN]
NoCert      == [exists |-> FALSE, valid |-> FALSE, url |-> FALSE]

Lesson   == [state : {"absent", "live", "removed"}, date : Dates \cup {None}]
NoLesson == [state |-> "absent", date |-> None]

FileTag(k) == <<"file", k>>
CertTag(c) == <<"certificate", c>>

OfficeInit ==
    /\ storage = {}
    /\ files = [k \in FileKeys |-> "absent"]
    /\ pdfs = {}
    /\ certs = [c \in Certificates |-> NoCert]
    /\ lessons = [l \in Lessons |-> NoLesson]
    /\ issued = {}
    /\ revoked = {}
-----------------------------------------------------------------------------
(* Mistakes a change of the code could make, each against one property.    *)

RowFirst(h, k) ==
    /\ Begin(h, "object-delete", FileTag(k), k)
    /\ files' = [files EXCEPT ![k] = "removed"]
    /\ UNCHANGED <<storage, pdfs, certs, lessons, issued, revoked>>

SavedWhole(c) == [exists |-> TRUE, valid |-> TRUE, url |-> TRUE]
-----------------------------------------------------------------------------
(* Files.                                                                  *)

\* POST /files/upload, with a file that is not too large and of an allowed type: the object
\* is stored before its row is.
Upload(h, k) ==
    /\ files[k] = "absent" /\ k \notin storage
    /\ Begin(h, "file-insert", FileTag(k), k)
    /\ storage' = storage \cup {k}
    /\ UNCHANGED <<files, pdfs, certs, lessons, issued, revoked>>

FileInsert(h) ==
    /\ At(h, "file-insert")
    /\ files' = [files EXCEPT ![Data(h)] = "live"]
    /\ Answer(h)
    /\ UNCHANGED <<storage, pdfs, certs, lessons, issued, revoked>>

\* DELETE /files/:key finds the row, deletes the object, which succeeds when there is none,
\* and then removes the row.
DeleteByKey(h, k) ==
    /\ files[k] = "live"
    /\ Begin(h, "object-delete", FileTag(k), k)
    /\ UNCHANGED officeTables

ObjectDelete(h) ==
    /\ At(h, "object-delete")
    /\ storage' = storage \ {Data(h)}
    /\ Goto(h, "file-remove", Data(h))
    /\ UNCHANGED <<files, pdfs, certs, lessons, issued, revoked>>

FileRemove(h) ==
    /\ At(h, "file-remove")
    /\ files' = [files EXCEPT ![Data(h)] = "removed"]
    /\ Answer(h)
    /\ UNCHANGED <<storage, pdfs, certs, lessons, issued, revoked>>

\* GET /files/serve/:key, with a token that getSignedUrlByKey gave for that key: the row is
\* found before the object is streamed, which may be gone by then.
ServeFile(h, k) ==
    /\ files[k] = "live"
    /\ Begin(h, "stream", <<"serve", k>>, k)
    /\ UNCHANGED officeTables

Stream(h) ==
    /\ At(h, "stream")
    /\ Answer(h)
    /\ UNCHANGED officeTables
-----------------------------------------------------------------------------
(* Certificates.                                                           *)

\* POST /certificates/issue: the row, the PDF, its address by generatePdf and once more by
\* issue.  Both updates name the column, so they leave the others alone.
Issue(h, c) ==
    /\ ~certs[c].exists
    /\ Begin(h, "pdf", CertTag(c), c)
    /\ certs' = [certs EXCEPT ![c] = [exists |-> TRUE, valid |-> TRUE, url |-> FALSE]]
    /\ UNCHANGED <<storage, files, pdfs, lessons, issued, revoked>>

GeneratePdf(h) ==
    /\ At(h, "pdf")
    /\ pdfs' = pdfs \cup {Data(h)}
    /\ Goto(h, "pdf-address", Data(h))
    /\ UNCHANGED <<storage, files, certs, lessons, issued, revoked>>

Addressed(c) == [certs[c] EXCEPT !.url = TRUE]

PdfAddress(h) ==
    /\ At(h, "pdf-address")
    /\ certs' = [certs EXCEPT ![Data(h)] = Addressed(Data(h))]
    /\ Goto(h, "issue-address", Data(h))
    /\ UNCHANGED <<storage, files, pdfs, lessons, issued, revoked>>

IssueAddress(h) ==
    /\ At(h, "issue-address")
    /\ certs' = [certs EXCEPT ![Data(h)] = Addressed(Data(h))]
    /\ issued' = issued \cup {Data(h)}
    /\ Answer(h)
    /\ UNCHANGED <<storage, files, pdfs, lessons, revoked>>

\* PATCH /certificates/:id/revoke.  The save loads the row again and writes the columns in
\* which the entity differs from it: an address that was written meanwhile is lost.
Revoke(h, c) ==
    /\ certs[c].exists
    /\ Begin(h, "revoke-load", CertTag(c),
             [certificate |-> c, entity |-> [certs[c] EXCEPT !.valid = FALSE], columns |-> {}])
    /\ UNCHANGED officeTables

RevokeLoad(h) ==
    LET d == Data(h) IN
    /\ At(h, "revoke-load")
    /\ Goto(h, "revoke", [d EXCEPT !.columns =
                {f \in DOMAIN d.entity : d.entity[f] # certs[d.certificate][f]}])
    /\ UNCHANGED officeTables

RevokeSave(h) ==
    LET d == Data(h)  c == d.certificate IN
    /\ At(h, "revoke")
    /\ certs' = [certs EXCEPT ![c] =
                   [f \in DOMAIN @ |-> IF f \in d.columns THEN d.entity[f] ELSE @[f]]]
    /\ revoked' = revoked \cup {c}
    /\ Answer(h)
    /\ UNCHANGED <<storage, files, pdfs, lessons, issued>>
-----------------------------------------------------------------------------
(* The schedule.                                                           *)

CreateSchedule(h, l, d) ==
    /\ lessons[l].state = "absent"
    /\ AtOnce(h, <<"lesson", l>>)
    /\ lessons' = [lessons EXCEPT ![l] = [state |-> "live", date |-> d]]
    /\ UNCHANGED <<storage, files, pdfs, certs, issued, revoked>>

\* PATCH /schedules/:id writes by id, whatever became of the lesson it found.  An update of
\* POST /admin/schedules is the same write behind a look at the group.
UpdateSchedule(h, l, d) ==
    /\ lessons[l].state = "live"
    /\ Begin(h, "lesson-write", <<"lesson", l>>, [lesson |-> l, date |-> d])
    /\ UNCHANGED officeTables

LessonWrite(h) ==
    /\ At(h, "lesson-write")
    /\ lessons' = [lessons EXCEPT ![Data(h).lesson].date = Data(h).date]
    /\ Goto(h, "lesson-find", Data(h))
    /\ UNCHANGED <<storage, files, pdfs, certs, issued, revoked>>

\* The lesson is found again for the answer and the event, or the answer is 404.
LessonFind(h) ==
    /\ At(h, "lesson-find")
    /\ Answer(h)
    /\ UNCHANGED officeTables

RemoveSchedule(h, l) ==
    /\ lessons[l].state = "live"
    /\ Begin(h, "lesson-remove", <<"lesson", l>>, l)
    /\ UNCHANGED officeTables

LessonRemove(h) ==
    /\ At(h, "lesson-remove")
    /\ lessons' = [lessons EXCEPT ![Data(h)].state = "removed"]
    /\ Answer(h)
    /\ UNCHANGED <<storage, files, pdfs, certs, issued, revoked>>
-----------------------------------------------------------------------------
OfficeBreaks(h) == Breaks(h) /\ UNCHANGED officeTables

OfficeNext ==
    \E h \in Handlers :
        \/ \E k \in FileKeys : Upload(h, k) \/ DeleteByKey(h, k) \/ ServeFile(h, k)
        \/ \E c \in Certificates : Issue(h, c) \/ Revoke(h, c)
        \/ \E l \in Lessons, d \in Dates : CreateSchedule(h, l, d) \/ UpdateSchedule(h, l, d)
        \/ \E l \in Lessons : RemoveSchedule(h, l)
        \/ FileInsert(h) \/ ObjectDelete(h) \/ FileRemove(h) \/ Stream(h)
        \/ GeneratePdf(h) \/ PdfAddress(h) \/ IssueAddress(h)
        \/ RevokeLoad(h) \/ RevokeSave(h)
        \/ LessonWrite(h) \/ LessonFind(h) \/ LessonRemove(h)
        \/ OfficeBreaks(h)
-----------------------------------------------------------------------------
(* Properties.                                                             *)

\* A row without its object is left only by a deletion that failed after it deleted the
\* object, and an object without its row only by an upload that failed before it stored
\* the row; otherwise one stands without the other only while such a request is under way.
FilesMatchStorage ==
    \A k \in FileKeys :
        LET Pending(step) == \E h \in Handlers : At(h, step) /\ Data(h) = k IN
        FileTag(k) \notin failed =>
            /\ files[k] = "live" /\ k \notin storage => Pending("file-remove")
            /\ k \in storage /\ files[k] # "live" => Pending("file-insert")

\* A certificate that was revoked stays invalid, and one that was issued keeps its PDF and
\* the address of it unless a revocation overlapped the issue.
CertificatesStand ==
    /\ \A c \in revoked : ~certs[c].valid
    /\ \A c \in issued : c \in pdfs /\ (CertTag(c) \notin disturbed => certs[c].url)

=============================================================================
