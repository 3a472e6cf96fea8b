# TLA+ for the EduCRM backend

A verification development of the NestJS backend in `src/`: TLA+ modules of the parts that
carry its own logic, TLC configurations that check them on small instances, and theorems
that TLAPS checks for every value of the constants. Paths below are relative to
`src/src/modules/` unless they start with `src/`.

## 1. How the program runs, and what that makes hard

The backend is a monolith over PostgreSQL, reached through TypeORM. A request runs in one
Node.js process until its next `await`; there any other request, or a cron job, may run.
Only three handlers open a transaction over several statements (`students.create`,
`teachers.create`, `teachers.markAttendance`). Everywhere else each awaited repository call
commits on its own, so that a handler is a sequence of small transactions with the entity it
once read in its memory. Nothing is retried: a statement that fails ends the request with an
error (`AllExceptionsFilter`), and what was committed before it stays. There is no queue, no
optimistic lock and no version column.

The hard behaviours follow from that:

* a check and the write it guards are separate statements (payments, discount codes, exam
  attempts, enrolments, student codes, attendance rows);
* columns are computed from an entity that is several awaits old, or the whole entity is
  saved (lockout counter, status on login, refresh token, homework submissions, groups);
* a failure between two statements leaves the first one (payment without invoice, paid
  payment that was never booked);
* the midnight job runs in between requests and works on a list it read at the beginning.

TypeORM calls differ in what they write, and the models keep the difference. `update` and raw
SQL write the named columns whatever the row holds. `increment` is atomic. `save(entity)`
reads the row once more and updates the columns in which the entity in memory differs from
what this second read found, so that a stale entity writes old values back; it rejects the
save if a loaded one-to-many collection misses a child whose foreign key is NOT NULL, and for
a many-to-many relation inserts and deletes the junction rows that differ from those it reads
through the related table, soft-deleted ones hidden; a row that is gone it inserts again. `softRemove` names
`deleted_at` alone. Rows that are soft-deleted are hidden from `find`, but not from raw SQL,
from unique indexes, nor from the second read of `save` of their own table.

## 2. Inventory

| Part | State | Operations that change it | Talks to | What must be right | Modules |
|---|---|---|---|---|---|
| Payments, invoices, discounts | `payments`, `invoices`, `discounts`, two columns of `students` | create, update, pay, refund, apply-discount | students (debt, income), events to notifications | money booked once; numbers; usage limits; isolation of tenants | `Payments`, its lists in `Reports` |
| Scheduler, overdue job | the same | `processOverduePayments` every midnight | payments, students, events | due payments get flagged, once | `Payments` |
| Auth, users, invitations | `users` | login, 2FA, refresh, logout, reset, register, invite, status, delete | owner console, students, teachers | lock after five misses, blocks stay, sessions end, one reset per mail | `Accounts` |
| Exams | `exams`, `exam_questions`, `exam_attempts` | create, update, publish, questions, start, submit, remove | events | attempts limited and numbered; score is that of the answers | `Coursework` |
| Homework | `homeworks`, `homework_submissions` | create, update, submit, grade, remove | students, events | grade belongs to content, nothing lost | `Coursework`, its views in `Views` |
| Students, teachers | `students`, `teachers` (and `users`) | create, update, remove | users | codes; the views of both sides agree | `School`, `Accounts`, `Views` |
| Groups | `groups`, `group_students` | create, update, remove, add and remove student | courses, teachers | members as asked, stored number near theirs | `School` |
| Attendance | `attendance` | teachers' sheets; mark, bulk mark | groups | one row a day, sheets whole | `School`, `Views` |
| Courses, enrolment | `courses`, `lessons`, `course_modules`, `enrollments` | create, update, publish, remove, enrol | students, groups | one enrolment | `School`, `Views` |
| Chat | `chat_rooms`, `chat_messages`; the gateway's maps | rooms, messages, read marks, deletions; connect, disconnect | gateway | one direct room, last message | `Chat` |
| Notifications | `notifications` | events, reminders, send, read, remove | mail, SMS, events | sent or failed, and what the reader does stands | `Messaging` |
| Tenants, roles, settings | JSON and text columns of `tenants`; `custom_roles`, `users.custom_role_id` | flags, settings, branches; list (which seeds), create, edit, delete, assign, revoke; users deleted and restored | owner and admin console, super admin | no lost flag or branch, system roles once, held roles exist | `Tenancy` |
| Files, certificates | store and `files`; PDFs and `certificates` | upload, delete, stream; issue, revoke | storage | store and table agree; revoked stays revoked | `Office` |
| Schedules | `schedules` | create, update, remove | admin console | single writes: nothing to relate | `Office` |
| Owner and admin console | reads `students`, `users`, `payments`, `invoices`, `tenants` | (the writes are with the tables) | all | figures of a report agree | `Reports`, `Tenancy`, `Accounts` |
| Analytics | reads attendance and hand-ins | none | | the same rows as the views | `Views` |
| Stripe webhook, audit, mail, SMS, guards, filters, configuration | none that a later step depends on | | | | not modelled |

`PROJECT.json` lists the same parts with their files, and the hazards at their lines.

## 3. The modules

### `Payments`
`PaymentsService`, its repository, and `SchedulerService.processOverduePayments`. `payments`,
`invoices`, `discounts`, `debt` and `income` are the tables and the two columns of a student.
`task[h]` is what handler `h` has in memory and the statement it awaits next; `job` the list
the nightly job read and the payment it is at. One action per awaited statement, e.g.
`pay` is `PayFind` (line 113, with the guard of line 115), the mark as paid (116-119), the
credit of the student (121-128) and the settlement of the invoice (129). A request rejected
before its first write has no action.

Modelling choices. Money is an integer; percentages in the instances divide exactly, and
rounding, currencies, timestamps, `refundedAmount` and `discountAmount` are left out. A value
that does not fit a column (`MaxMoney` for `decimal(12,2)`, `MaxInvoice` for `decimal(10,2)`)
fails the statement. `notices` are the `payment.overdue` events. Discount rows exist at the
start with `usedCount` 0: the fields of `CreateDiscountDto` have no decorators while
`src/src/main.ts:83-88` rejects what is not whitelisted. Validity dates and applicable courses
are one Boolean. `DueDatePasses` moves a payment past its due date, null dates included.
`HasIncomeColumn` says whether the column `students.total_paid` exists: the migration
`1700000000004` creates it, the entity lacks it and `database.config.ts` has
`synchronize: true`. Without it every confirmation fails after marking the payment paid; the
runs use `TRUE`, the theorems hold for both. The job does not overlap itself.

### `BillingLedger`, `PaymentsLedger`
`BillingLedger` is the abstract promise: a bill is issued, settled, refunded, discounted,
re-dated or becomes overdue in one step, with its invoice and the uses of a code.
`PaymentsLedger` maps the statements of `Payments` to it: each handler takes effect at the
statement named in the module's comment; `PaymentsLedgerProofs` proves that it implements
the promise (section 5).

### `Accounts`
`AuthService`, `UsersService`, the user part of `students.create`, `teachers.create` and the
owner console (invite, hire, fire, delete). A row of `users` is the email and tenant it
belongs to, with the columns that decide who gets in. Codes, tokens and dates are abstracted
to what tells them apart (`locked` is `lockedUntil > now`, `slot` is "there is a refresh
token"). Every refresh token of a user matches the stored hash: bcrypt looks at 72 bytes, and
all tokens of a user begin alike. The listener in `user.entity.ts` hashes once more what the
service already hashed (it tests for `$2a$`, the library writes `$2b$`), so that nothing opens
a registered account until its password is set by other means; `password = None` says so.
`login` writes ACTIVE whatever status was read several statements before. An invitation that
found the row deleted restores it whether or not it still is: `rushed` notes a handler about to
do so over a row that another one restored meanwhile. Email changes and
`lockAccount`, `unlockAccount`, `updateStatus`, `incrementLoginAttempts` (no callers) are left
out.

### `Coursework`
`ExamsService` and `HomeworkService`. `SaveLoad` and a write are the two statements of
`Repository.save`. Answers are counted by question and right or wrong; `level` is
`passingMarks` of an exam and `maxScore` of a homework; dates, lateness and feedback are left
out. `maxAttempts` is never changed: `UpdateExamDto` does not name it. `submitAttempt` does
not test whether the attempt was submitted before, and neither does the model.
`StudentsController`'s submit route passes a student's id for the user's and always answers
404; `StudentsService.submitHomework` has no caller.

### `School`
`students.create` and `teachers.create` with the numbers of their codes, groups with their
junction table, `teachers.markAttendance`, course removal and `courses.enrollStudent`. A
sheet's marks are staged in the handler and committed together; a row that an uncommitted
sheet updated is locked, and when sheets wait for each other in a circle the database aborts
one (`MarkDeadlock`). The rows of soft-deleted students stay in the junction: `save` reads the
ids it compares with through the students (`Added`, `Dropped`), so it neither counts nor deletes
them. Left out because they fail without a trace in the synchronised schema:
`attendance.mark` (no date), `students.enroll`, `admin.enrollStudent` and `updateProgress`
(missing columns), `addLesson` (no tenant).

### `Requests`
The request of the modules below: `task[h]` holds the statement handler `h` awaits next and
what it has in memory. `Begin`, `Goto` and `Answer` are the first, a middle and the last
statement; `AtOnce` and `Reads` are requests of one statement; `Breaks` is a failing statement
or a process that dies. It also has the pages of lists (`NewestOn`, `LowestOn`, `OnPage`).

### `Chat`
`ChatService` and the sockets of `ChatGateway`. A direct room is looked for and then inserted;
a message is inserted and then the room's `lastMessage` is updated with the text in the
handler's memory. `sent` records the message stored last. `online` is the gateway's maps of
sockets, which its handlers read; what is broadcast is stored nowhere.

### `Messaging`
`NotificationsService.send`, from the event that asks for it over the insert, the dispatch and
the update to SENT or FAILED, with a restart that forgets every send under way; the daily
reminders; and `markRead`, `markAllRead` and `remove`, all of which, like the updates of the
send, name their columns. An e-mail is SENT whether or not the mail server took it
(`MailService` catches); an SMS without a phone number and a push stay PENDING, and no promise
of the code says otherwise.

### `Tenancy`
What is configured in a tenant. Feature flags, settings and branches are three columns of one
row with two kinds of writers. `OwnerService` and `AdminService` read a column and update it by
name (`MergeRead`, `MergeWrite`, `UpdateSystemConfig`, `ManageBranches`, `CreateBranch`,
`EditBranch`). `TenantsService` finds the whole row, changes one column and saves
(`FindTenant`, `TenantLoad`, `TenantSave`): the save reads the row again and writes every column
in which what the handler holds differs from it (`Dirty`), so a toggled flag may write back old settings
or old branches. Branches are a JSON array to `OwnerService` and a comma separated list to
`TenantsService`. Custom roles come with the users who hold them; users may be deleted and
restored (`FindUser`, `DeleteUser`, `RestoreUser`), keeping their role, while the deletion of a
role counts those who are not deleted. An edit of permissions saves the role, and so may bring
back one that was removed meanwhile (`PermissionsLoad`, `PermissionsWrite`). The row of the
tenant and the tables of roles have no column in common. Renaming a role is left out.

### `Office`
Files with the object in the store, certificates with their PDF, and lessons of the schedule.
Deleting a file deletes the object first and its row second; issuing a certificate inserts the
row, writes the PDF and stores its address by `update`, while revoking saves the entity it
read. Lessons are single writes, and no property is about them.

### `Reports`
Every figure of the reports of `OwnerService`, `AdminService` and the payment reports is an
operator that follows its query: `Income`, `EarnedByBranch`, `Expenses`, `Due`, `ByStatus`,
`Revenue`, and `EarnedIn(i)` with the `Window` of days that the loop over the months computes.
`AskReport` begins a report, `RunQuery` runs one of its queries, in any order where the code
says `Promise.all` and one after the other where it awaits, and `SendReport` ends it; the
handler keeps what each query saw. Between two queries others may write (`PayBill`,
`SettleInvoice`, `MovePupil`, ...), one statement at a time, and `torn` says whether they did.
The lists of users, invoices, payments and students and the monitoring of payments are here
too, with filter, page, total and `hasNextPage`; the monitoring with its dates and its limit
(`MonitorLimit`, 100 in the code), the cards of the branches with one for each entry of the
list, of which several may have one name. What the properties say is that figures
that come from queries written apart agree: the breakdown with the total, the months with the
income, the list with its count and with the report about the same rows. Sums are folds over
sets of rows (`SumOver` and `Total` of `Summation`), so that they can be reasoned about.
`ReportsAssumption` says what `Books` may be: any tables of finitely many rows whose payments
were paid on the days of the months shown (`PaidInTime`).

### `Views`
The same for what teachers and students are shown: lists of a teacher, the attendance sheet,
analytics, homework with its hand-ins, the profile of a student, the trend of a student or a
group. Trends go `MonthsShown` months back (six in the code) and so may miss older rows; a
teacher is shown the performance of `TopStudents` students (20); a profile shows one group, any
one of the student's (`AnyOne`), since its query has `LIMIT 1` and no order. The
modules `School` and `Coursework` say how the rows come about; here any row may be written
between two queries. A row's place in a query's order is its rank (`NthLowest`, `NthNewest`).
`ViewsAssumption` says what `Schools` may be: homework that is live or was handed in has its
teacher (`Taken`), and a grade its score and date (`Graded`); a group may lack a teacher, as
`groups.teacher_id` is nullable (`groups/entities/group.entity.ts:25`).

### `MCPlatform`
Composes the six: they share the handlers, no table, and no history but `overlapped` and
`failed`, whose entries name what they are about. `focus` fixes which one a behaviour is about,
and `Tenancy` counts two: the tenant's row, with all that its columns do to each other, and the
roles. A request reads and writes tables of its own part alone, so that a
state in which several parts have moved shows each part in a state it reaches alone, with
fewer requests; all properties are about one part. Nothing is lost but the product.

### Histories
A few variables record what no table keeps: how often a payment was credited, what a student
last handed in, what an edit asked for. `crossed` in `Coursework` and `School`, and
`overlapped` and `failed` in `Requests`, collect the rows on which two requests that change
them overlapped or one ended half way. That lets one run with overlapping requests state both
halves: what holds for rows that nobody raced for, whatever happens around them, and what
overlap may cost at most. `crossed` excuses whatever overlapped on a row; where the code
promises more, the excuse is narrower: `stale` and `mixed` of `Tenancy` excuse only a column
that was written from a reading older than another write of it, `bygone` only users who were
deleted with the role they hold, `rushed` of `Accounts` only the second of two restorations. What is
excused may go wrong in the code, and the hazards of `PROJECT.json` say where.

## 4. Runs

Model values stand for ids; handlers, and ids that the properties do not tell apart, are
symmetric where a cfg says so (never with liveness). `CHECK_DEADLOCK FALSE` is needed
because a bounded number of requests ends.

| Run | Instance | Properties | Shows |
|---|---|---|---|
| `payments_concurrent` | 2 requests at a time, 4 in all, the job, 2 payments, a code for one use, 1 failure, columns that overflow | `TypeOK`, `InvoiceFollowsLedger`, `OverdueNoticeOnce`, `UsageOvershootBounded` | what survives any overlap and failure |
| `payments_serial` | one request or night at a time, 5 requests, 2 tenants, 2 failures | `SingleCredit`, `BooksAreInOrder` | what the checks in the code are enough for without overlap |
| `ledger_serial` | one at a time, 2 students, a percentage and a fixed code | `ImplementsLedger` | each handler is one ledger operation or nothing |
| `payments_liveness` | 2 requests at a time, 2 failures, fair | `RequestsAreAnswered`, `DueIsFlaggedOrSettled` | nothing waits for ever, a failed night is made up |
| `double_credit` (violation) | 2 confirmations of one payment | `SingleCredit` | both pass line 115 and both credit |
| `tenant_isolation` (violation) | 2 tenants | `TenantIsolation` | numbers are counted per tenant and unique over all |
| `accounts_concurrent` | every endpoint, 2 at a time, 4 requests, 1 failure; or 17 overlapping logins (`focus`) | `TypeOK`, `KeepsPassword`, `LockedOnlyAfterFive`, `LockoutOvershoot` | the password of a live account changes only by its owner's hand, or by an invitation that found it deleted before another restored it; lost updates delay the lock, by how much at most, and never cause one |
| `accounts_serial` | every endpoint, one at a time, 7 requests, 1 failure | `FiveMissesLock`, `BlockedStaysBlocked`, `LogoutEndsSession`, `ResetsWithinMails` | what accounts promise without overlap |
| `two_factor_login` (violation) | setup, enable, login | `TwoFaLogsIn` | the secret is not selected on login, every code throws |
| `coursework` | every endpoint, 2 at a time, 6 requests, 1 failure | `TypeOK`, `AttemptsStand`, `ScoreMatchesAnswers`, `SubmissionStands`, `EditsStand` | exams and homework, raced for or not |
| `school` | every endpoint, 2 at a time, 5 requests, 1 failure | `TypeOK`, `CodesAreShared`, `RosterStands`, `MarksStand`, `EnrolledOnce` | codes, groups, sheets and enrolments, raced for or not |
| `platform` | 2 at a time, 1 failure or restart; 5 requests about roles, 4 about chat or the office, 3 about the tenant's row, notifications or reports, 2 about views (`Limit`) | `TypeOK`, `DirectRoomOnce`, `LastMessageStands`, `PendingIsAtWork`, `ReadStands`, `ConfigStands`, `BranchesStand`, `RolesStand`, `FilesMatchStorage`, `CertificatesStand`, `ReportAddsUp`, `MonthsShareIncome`, `ViewsHold` | what overlap and failures leave standing in the smaller parts, and that figures from different queries agree |

Why these bounds are enough to be of use. Every race in this code is between two requests, or a
request and the job, on one row; two handlers with one or two rows reach it, and the longest
scenarios a property needs fit: create, discount, confirm, refund, confirm; create an exam,
publish, three starts; five misses, the end of the lock, and more; create a group, two sheets,
two sheets in opposite order. One failure shows every place where a handler can stop;
`payments_serial` uses two because a second request can stumble over what the first left half
done. In `platform` the longest scenarios are a role that is created, assigned, deleted with its user
and brought back with him, and two requests that overlap with one or two that follow them; a report, and a view, needs one other writer, and its many queries make the states. Its
tables start from `Books` and `Schools`, which hold the rows that two queries could count
differently: a student who left, one without a branch, a payment in the last second of a month,
two branches of one name, a homework that was deleted or handed in again, a grade older than the
months shown, a student of two teachers, a group without a teacher, two rows for one day; the
limits are 1, with two rows to choose from.
Months, days and scores are as few as tell two apart. Bounds only end the behaviour:
`MaxRequests` and `MaxFailures` are guards, and ids are kept for creations that are under way.

Every property was also checked against a deliberate mistake in a definition (the operators
headed "Mistakes a change of the code could make"): it is violated there.

Fairness. Only `payments_liveness` assumes it: weak fairness of `Proceed(h)`, as the event
loop runs every continuation whose statement has come back, or fails; and weak fairness of
the job, as `@Cron` fires every midnight and its statements come back. Clients are never
obliged to send anything. Failures are bounded by two, which stands for "not every
night fails".

Findings. The three violation runs contradict what the repository says of itself: the check
`Payment already paid`, "complete tenant isolation", and two-factor login. A fourth sentence,
`src/README.md:222` "After 5 failed login attempts, account is locked", holds for logins one
after the other (`FiveMissesLock`) and not for overlapping ones; instead of a fourth violation
run, `LockoutOvershoot` says exactly how many more get through. Of the other races seen while
modelling no sentence of the repository says what should happen, and they have no run of their
own: a login in flight reactivates a blocked user, a refresh in flight survives a logout, the
second of two invitations overwrites the password set since the first, codes of discounts can
be used once too often by each further request in flight, discounts above 100 % make a total
negative, group members and grades are lost when saves overlap, a deleted student's row stays
in the group, a toggled flag brings back old settings or branches, a name added by the super
admin makes the owner's branches unreadable and the next branch replaces them, a role may be
deleted while it is being assigned, and a restored user comes back with a role that is gone.
A payment that was marked paid and never booked, because the statement after the mark failed,
is caught by no property: `InvoiceFollowsLedger` says that its invoice is not settled, and
`BooksAreInOrder` speaks of the books only where nothing failed.

Seen while reading, and stated by no property because the model takes the code as it is:
`getDebtSummary` of payments sums `amount` and counts pending payments as overdue, while the
reports sum `total_amount`; `admin.getDashboard` (`admin/admin.service.ts:132-139`) compares
the income of all time with that of one month; a student's list of notifications, which is
raw SQL, shows the removed ones, and raw lists of students do not look at `deleted_at`;
deleted homework still counts in analytics and grades, and work handed in again counts as
graded in one of them and not in the other; a member without a mark is shown as present on
the sheet; an invoice notice and `admin.bulkSendNotification` always fail on the schema.

## 5. Theorems

Checked by TLAPS for every value of the constants that satisfies the assumptions of the
modules, and for any number of requests, handlers, people and rows. The assumptions are
evaluated by TLC on every run: the sets of handlers and of the ids of payments, questions,
attempts and memberships are finite, amounts, levels and limits are natural numbers, `None`
is no value of the kind it stands in for, and the rows there are at the start have distinct
codes. Hypotheses that a theorem adds are named with it.

The shape of the proofs is the same everywhere. The property is not inductive by itself. The
invariant adds what a handler has in memory and how that relates to the row it was read
from: it is still so, or the row has been raced for, and then a history (`crossed`,
`overlapped`, `failed`) says it. One lemma for each action, or for a group of actions that
touch the same columns, shows that the conjunct is kept.

* `PaymentsProofs`: `TypeCorrect`, `InvoiceFollowsLedgerHolds`, `PendingIsUntouchedHolds`,
  `OverdueNoticeOnceHolds` from the invariant `Booked`. That an invoice is settled after the
  credit needs that a handler about to settle has credited (`PayInOrder`); that a notice is
  sent once needs that what the job still holds has not been reported (`JobReportsOnce`), and
  that a payment which was not yet inserted is in nobody's hands (`FreshIsUntouched`).
  `UsageOvershootHolds`: `UsesReserved` counts a handler past the check as a use already made,
  and the handlers in flight are at most as many as there are.
  In the second half, what holds without overlap. `SingleCreditHolds` (`~Overlapping`):
  with `Exclusive`, one handler or the job, what a handler read is still so when it writes,
  also after failures; so the violation of `double_credit` is due to the overlap alone.
  `NumberedHolds` (`~Overlapping`): the numbers of a tenant are 1, 2, 3 ... in every state, not
  only at rest, because the number in memory is that of the next row (`SaveNumbered`).
  `BooksAreInOrderHolds` (`Plain(T)`): requests do not overlap, they create, pay and refund,
  the column `total_paid` exists, a total is between 0 and `T`, and `T * MaxRequests` fits the
  column. Each is needed: a discount lowers a total whose debt is shown already; without the
  column a confirmation fails after its mark; a discount above 100 %, which the DTO's `@Min(0)`
  lets pass, makes a total negative; and a column that overflows fails the statement as well.
  `payments_serial` satisfies them with `T` = 300. `DebtInv` says that a debt is at most the
  sum of what is owed, or else a handler is about to take the difference off it (`Unbooked`);
  `JobInv` that the sum in the job's hands is that of the rows; `IncomeInv` bounds a student's
  income by the totals of the rows, so that the credit fits.
* `PaymentsLedgerProofs`: `ImplementsLedgerHolds`, the refinement `Spec => Ledger!Spec`, for
  payments that are created, paid, refunded, discounted and updated, codes that expire, and
  nights, under `Orderly(T)`: requests do not overlap, no statement fails, the column
  `total_paid` exists, amounts and totals fit their columns, discounts keep a total between 0
  and `T`, and there is one tenant, because the second tenant's first invoice is rejected (the
  finding of `tenant_isolation`). `ledger_serial` satisfies it with `T` = 100. Between two
  statements the tables are no ledger; what the refinement mapping shows is the tables as the
  handler under way is going to leave them or has found them. One lemma for each statement
  (`CreateInvoiceStep`, `PayCreditStep`, `JobDebtStep`, ...) says which operation of the ledger
  it is, or that it shows nothing. `LedgerInv` is what they need: a request's check still
  holds when it writes, it writes what it read, no two payments have a number in common, every
  payment but the one about to get it has its invoice, and sums stay within the columns. That
  the job writes the sum of the ledger's bills is shown with `SumProofs` for any number of
  payments.
* `SumProofs`: the sums of the model are folds over finite sets. What a sum is, that it is a
  number, grows with its set, and splits at an element is proved by the least counterexample
  on cardinalities, since the library's induction needs a prover that is not there. From
  there, by the same argument: a sum over rows is the sum over the parts of any division of
  the rows (`SumOverFibres`, `CardinalityFibres`), and equal terms add up to a product.
* `AccountsProofs`: `TypeCorrect`; `LockedOnlyAfterFiveHolds`, where `Counted` says that the
  counter in the row, and every counter a login has in memory, is at most the number of failed
  logins: overwriting one with another only loses attempts; and the action property
  `KeepsPasswordHolds`, where `Opened` says which rows and which requests that are going to
  write a row carry a password, and that a handler about to restore a row finds it deleted
  still or is `rushed`.
  `LockoutOvershootHolds`: *k* handlers let at most C(4+k, k) - 1 misses in a row through, for
  any *k* and any number of logins. A handler that is about to write a count below *j* is
  `Stale` at *j*; `Settled(u, j)` counts the others once the row's counter has got to *j*.
  A miss that leaves the counter at *n* < 5 settles one more handler at *n*, loses none below,
  and at worst all those above *n*, who are no more than those at *n*. So the misses of an
  unlocked account are at most `Allowed(Settled(u, 1), ..., Settled(u, 4))`, where a handler
  more at level *n* is worth one more than all it may cost above: x, C(x+1, 2), C(x+2, 3) and
  C(x+3, 4) for *x* handlers at levels 4, 3, 2 and 1 (`AllowedNext`). TLC agreed with the
  invariant (`Covered`) on the instance of `accounts_concurrent` before it was proved. That
  `choose` of the community modules is this sum (`WaysInAll`) needs that `factorial`, a
  recursive function, exists (`FactorialIs`).
  Assuming `~Overlapping`: `FiveMissesLockHolds`, `BlockedStaysBlockedHolds`,
  `LogoutEndsSessionHolds`, `ResetsWithinMailsHolds`, `TwoFaHasSecretHolds` (no run repeats the
  last). `Serial` adds to each promise what keeps it (`LockSound`, `CodeSound`, ...) and that
  the one handler under way has read what the row still says (`Ready`).
* `CourseworkProofs`: `TypeCorrect`, `AttemptsStandHolds`, `ScoreMatchesAnswersHolds`,
  `SubmissionStandsHolds`, `EditsStandHolds`, with any overlap. An exam's attempts and the
  starts in flight are at most the allowed number plus the other starts; a stored score is
  that of the answers stored with it, or two submissions crossed; a handler that is going to
  save holds the row as it is in the columns its save will find changed, or the row is in
  `crossed`. `EditsStand` is true because `save` writes the columns that differ and no others.
* `SchoolProofs`: `TypeCorrect`, `CodesAreSharedHolds`, `EnrolledOnceHolds`,
  `RosterStandsHolds`, `MarksStandHolds`. In `Numbered`, a code that a creation holds is at
  most the number of rows plus one, is exactly that if the creation met no other
  (`CodeInHand`; two on the same kind are never both alone, `Together`), and a row that has
  it already came from a creation that was not alone. `RosterStands` needs that the handler
  of a group that nobody raced for has read the members it is going to write, as far as they
  are not deleted, and that the number it is going to store lies between theirs and that of all
  rows, whichever students are deleted between its statements; `MarksStand`
  counts the rows of a day against the handlers that can each have inserted one.
* `PlatformProofs`: `FilesMatchStorageHolds`, `CertificatesStandHolds`, `ConfigStandsHolds`,
  `BranchesStandHolds`, `RolesStandHolds`, `PendingIsAtWorkHolds`, `LastMessageStandsHolds`,
  `DirectRoomOnceHolds`, and the action property `ReadStandsHolds`, of `MCPlatform`'s
  specification, in which all six parts run; the steps of the other parts leave the tables and
  the handlers of a part alone. `ConfigStands` and
  `BranchesStand` rest on: a handler to which a column is not `stale` has in memory what the
  column holds, but for what it was asked to change, and its save will find nothing else
  different. `RolesStand` rests on what a seeder that met no other has inserted so far
  (`SeedAtWork`), and on a role that is going to be removed being nobody's but of users in
  `bygone` (`DeleteAtWork`), which whoever assigns it would have to overlap. `TypeOKHolds` is the type
  invariant of all six parts together: `TablesTyped` for tables, and for requests `Held`, by
  which what a request has in memory fits the columns that it writes later; the tables of the
  parts a behaviour is not about stay as they were at the start.
* `FiguresProofs`: `ListsAddUpHolds`, `ViewsHoldHolds`, and under `NoDebits`
  `ReportAddsUpHolds` and `MonthsShareIncomeHolds`, for any books, lists of branches, limits, pages and months. `ReportsInv` says that
  the answers a report has are those its tables still give, unless it is `torn`. The rest is
  about the queries: pages take every row once, since the ranks of n rows are 0 to n - 1
  (`RanksTaken`); branches and months divide the rows into parts, and sums over parts make the
  whole; the cards are at most the whole when each name is counted once, and a monitor that
  reaches neither its limit nor its dates has all the rows (`ListsAddUp`). `NoDebits` says that no payment has a total below zero: where a figure is at most
  another one (what is overdue and all that is due, a month's window, which misses the last
  second, and the grouped month), such a payment could turn them round. The code does not
  guarantee it: `CreatePaymentDto` documents a discount's `maximum: 100` and checks only
  `@Min(0)` (`payments/dto/create-payment.dto.ts:14`), and `payments.service.ts:53-56`
  subtracts it. `Books`, the instance of the run, satisfies it.
  `ViewsInv` says the same of the views: the answers are those that the tables still give
  unless the view is `torn`, and what a statement is asked with was answered before it
  (`LeansOn`); some answers are sound even then (`SoundAnswers`: a count of graded hand-ins
  is at most the count of all, being of one statement). A view that is sent has been told
  all that it asks (`AskedBy`), which `Runs` follows through its sequence of statements. That
  two queries tell the same is then a matter of dividing rows: the graded hand-ins by student
  and course, by teacher, by homework or by month, the attendance by student, by status or by
  day; a trend has the part of them that lies in the months shown, all of it if none is older.
  What a statement may answer is one of `Tells`, so that the theorem holds whichever group a
  profile shows. `PerformanceIs` is the one that is no division: the unrestricted join of hand-ins and
  attendance repeats each hand-in once for every row of attendance, in sum and count alike.

Only model-checked:

* `RequestsAreAnswered`, `DueIsFlaggedOrSettled`: liveness under fairness.
  They are the only properties of the runs that should hold and that no theorem states.

## 6. Not modelled

* Stripe webhook, audit log, mail, SMS, translations, guards, pipes, filters, migrations: no
  state that a later step reads, or input that is rejected before a handler starts.
* The registry of the notifications gateway: without a remote adapter `join` does not yield,
  so that no disconnect comes between its steps.
* What always fails on the synchronised schema: cancelling and bulk creating schedules, the
  admin's creation of a lesson and enrolment, `students.enroll`, `attendance.mark` and
  `bulkMark`, `updateProgress`, `courses.addLesson`, the students of a course,
  `teachers.getSchedule` and `getStats`, `students.getPerformance`, and most queries of
  `AnalyticsService`. They change nothing and so have no action; what they would do is not known.
* Single writes that nothing reads to decide: titles, profiles, prices, templates, creation
  and removal of tenants, course modules and their order.
* Search, exports, documents and their layout, sockets' broadcasts, signatures of addresses.
* Configuration of TypeORM's pool and of the process: a request that waits for a connection
  waits for a statement.

## 7. Plan

The models of section 3 are complete, and so are the theorems of section 5: every safety
property that the passing runs check is also proved, under the hypotheses named there. What
would come next is the code the map does not reach yet: more of the owner's and the admin's
reports, and `AnalyticsService` once its queries run on the schema.
