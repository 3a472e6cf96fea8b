------------------------------ MODULE Messaging -----------------------------
(***************************************************************************)
(* Notifications: from the event that asks for one until it is SENT or     *)
(* FAILED, and what its reader does with it meanwhile, who hears of it as  *)
(* soon as it is stored.                                                   *)
(*                                                                         *)
(* The daily reminders need columns of `enrollments` that the synchronised *)
(* schema lacks, as the income of Payments does: the database is taken to  *)
(* have them.  The invoice notice names a student where a user belongs,    *)
(* and its insert always fails on the foreign key.  The insert of          *)
(* admin.bulkSendNotification names a column no schema of the service has. *)
(* Templates only give a notification its words, and sockets only hear.    *)
(***************************************************************************)
EXTENDS Requests

CONSTANTS
    Readers,        \* users
    Strangers,      \* ids of students, which are no ids of users
    Phones,         \* users who have a phone number
    Channels,       \* channels that events name
    Notices         \* the uuids notifications may get

ASSUME MessagingAssumption ==
    /\ Phones \subseteq Readers /\ Readers \cap Strangers = {} /\ None \notin Readers
    /\ Channels \subseteq {"in_app", "email", "sms", "push"}

VARIABLES
    notices     \* table notifications

messagingTables == <<notices>>

Notification == [exists : BOOLEAN, user : Readers \cup {None}, channel : Channels \cup {None},
                 status : {"pending", "sent", "failed"}, read : BOOLEAN, deleted : BOOLEAN]

NoNotice == [exists |-> FALSE, user |-> None, channel |-> None, status |-> "pending",
             read |-> FALSE, deleted |-> FALSE]

ToTag(u) == <<"to", u>>

\* There is an address to send it to; nothing sends what is for "push".
HasAddress(n) ==
    \/ notices[n].channel \in {"in_app", "email"}
    \/ notices[n].channel = "sms" /\ notices[n].user \in Phones

MessagingInit ==
    notices = [n \in Notices |-> NoNotice]
-----------------------------------------------------------------------------
(* Mistakes a change of the code could make, each against one property.    *)

LoggedOnly(h) ==
    /\ At(h, "failed-update")
    /\ Answer(h)
    /\ UNCHANGED messagingTables

SavedAsInserted(n, status) ==
    [notices[n] EXCEPT !.status = status, !.read = FALSE, !.deleted = FALSE]
-----------------------------------------------------------------------------
(* NotificationsService.send, which handler h executes.                    *)

Payload(u, c) == [user |-> u, channel |-> c, notice |-> None]

\* One event, its template looked up first where it names one.
Notify(h, u, c, step) ==
    /\ Begin(h, step, ToTag(u), Payload(u, c))
    /\ UNCHANGED messagingTables

\* payment.created, whose studentId stands for the user.
NotifyInvoice(h, s) == s \in Strangers /\ Notify(h, s, "in_app", "notice-insert")

\* notification.bulk of the daily reminders: every recipient's send starts, and none waits
\* for another or ends with it.
Remind(to) ==
    /\ \A h \in Handlers : ~Busy(h)
    /\ arrived < MaxRequests
    /\ arrived' = arrived + 1
    /\ task' = [h \in Handlers |-> [at |-> "template", on |-> ToTag(to[h]),
                                    data |-> Payload(to[h], "in_app")]]
    /\ UNCHANGED <<notices, failures, overlapped, failed>>

TemplateFind(h) ==
    /\ At(h, "template")
    /\ Goto(h, "notice-insert", Data(h))
    /\ UNCHANGED messagingTables

NoticeInsert(h, n) ==
    LET u == Data(h).user  c == Data(h).channel IN
    /\ At(h, "notice-insert")
    /\ u \in Readers
    /\ ~notices[n].exists
    /\ notices' = [notices EXCEPT ![n] = [NoNotice EXCEPT !.exists = TRUE, !.user = u, !.channel = c]]
    /\ \/ c = "in_app" /\ Goto(h, "sent-update", [Data(h) EXCEPT !.notice = n])
       \/ c \in {"email", "sms"} /\ Goto(h, "user-find", [Data(h) EXCEPT !.notice = n])
       \/ c = "push" /\ Answer(h)

\* The listener, or allSettled, takes the rejection.
NoticeRejected(h) ==
    /\ At(h, "notice-insert")
    /\ Data(h).user \in Strangers
    /\ Answer(h)
    /\ UNCHANGED messagingTables

\* The mail or the text message goes out, or fails, which neither service reports.
UserFind(h) ==
    /\ At(h, "user-find")
    /\ \/ HasAddress(Data(h).notice) /\ Goto(h, "sent-update", Data(h))
       \/ ~HasAddress(Data(h).notice) /\ Answer(h)
    /\ UNCHANGED messagingTables

\* The updates name their columns, so that what the reader did meanwhile stays.
Updated(n, status) == [notices[n] EXCEPT !.status = status]

SentUpdate(h) ==
    LET n == Data(h).notice IN
    /\ At(h, "sent-update")
    /\ notices' = [notices EXCEPT ![n] = Updated(n, "sent")]
    /\ Answer(h)

\* What fails after the insert is caught and noted in the row, if that does not fail too.
Caught(h) == At(h, "user-find") \/ At(h, "sent-update")

DeliveryFails(h) ==
    /\ Caught(h)
    /\ failures < MaxFailures
    /\ failures' = failures + 1
    /\ task' = [task EXCEPT ![h].at = "failed-update"]
    /\ UNCHANGED <<notices, arrived, overlapped, failed>>

FailedUpdate(h) ==
    LET n == Data(h).notice IN
    /\ At(h, "failed-update")
    /\ notices' = [notices EXCEPT ![n] = Updated(n, "failed")]
    /\ Answer(h)

\* What is not caught ends this send, and no other.
MessagingBreaks(h) == ~Caught(h) /\ Breaks(h) /\ UNCHANGED messagingTables

\* The process dies and is started again.
Restart ==
    /\ failures < MaxFailures
    /\ failures' = failures + 1
    /\ task' = [h \in Handlers |-> Idle]
    /\ failed' = failed \cup {task[h].on : h \in {g \in Handlers : Busy(g)}}
    /\ UNCHANGED <<notices, arrived, overlapped>>
-----------------------------------------------------------------------------
(* The reader.                                                             *)

\* PATCH /notifications/:id/read and /read-all: one update each, which also reaches rows
\* that are deleted, and only those of the reader.
MarkRead(h, u, N) ==
    /\ AtOnce(h, <<"read">>)
    /\ notices' = [n \in Notices |->
                     [notices[n] EXCEPT !.read = @ \/ (n \in N /\ notices[n].user = u)]]

RemoveNotice(h, u, n) ==
    /\ notices[n].exists /\ notices[n].user = u /\ ~notices[n].deleted
    /\ Begin(h, "notice-remove", <<"remove", n>>, [notice |-> n])
    /\ UNCHANGED messagingTables

NoticeRemove(h) ==
    /\ At(h, "notice-remove")
    /\ notices' = [notices EXCEPT ![Data(h).notice].deleted = TRUE]
    /\ Answer(h)
-----------------------------------------------------------------------------
MessagingNext ==
    \/ \E h \in Handlers, u \in Readers, c \in Channels, step \in {"template", "notice-insert"} :
         Notify(h, u, c, step)
    \/ \E h \in Handlers, s \in Strangers : NotifyInvoice(h, s)
    \/ \E to \in [Handlers -> Readers] : Remind(to)
    \/ \E h \in Handlers, n \in Notices : NoticeInsert(h, n)
    \/ \E h \in Handlers : TemplateFind(h) \/ NoticeRejected(h) \/ UserFind(h) \/ SentUpdate(h)
                           \/ DeliveryFails(h) \/ FailedUpdate(h) \/ MessagingBreaks(h)
                           \/ NoticeRemove(h)
    \/ \E h \in Handlers, u \in Readers : MarkRead(h, u, Notices)
    \/ \E h \in Handlers, u \in Readers, n \in Notices : MarkRead(h, u, {n}) \/ RemoveNotice(h, u, n)
    \/ Restart
-----------------------------------------------------------------------------
(* Properties.                                                             *)

\* A notification that can be sent stays PENDING only while its send is under way, or after
\* the process died or the update to FAILED failed as well: nothing retries it then.
PendingIsAtWork ==
    \A n \in Notices :
        notices[n].exists /\ notices[n].status = "pending" /\ HasAddress(n)
            => \/ ToTag(notices[n].user) \in failed
               \/ \E h \in Handlers : Busy(h) /\ task[h].on = ToTag(notices[n].user)

\* What a reader did to a notification is never undone by the send that is still at work on
\* it, and one that was sent or has failed is not sent again.
ReadStands ==
    [][\A n \in Notices :
         /\ notices[n].read => notices'[n].read
         /\ notices[n].deleted => notices'[n].deleted
         /\ notices[n].status # "pending" => notices'[n].status = notices[n].status]_notices

=============================================================================
