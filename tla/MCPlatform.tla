----------------------------- MODULE MCPlatform -----------------------------
(***************************************************************************)
(* Chat, Messaging, Tenancy, Office, Reports and Views on small instances. *)
(*                                                                         *)
(* They share handlers but no table, and neither do the tenant's row and   *)
(* its roles in Tenancy, so that the requests of one cannot tell whether   *)
(* others of another are under way.  A behaviour is about one of them,     *)
(* `focus`, which says as much as all their interleavings.                 *)
(***************************************************************************)
EXTENDS Chat, Messaging, Tenancy, Office, Reports, Views, TLC

CONSTANTS
    Parts,      \* the components that a run is about
    h1, h2, i1, i2, i3, u1, u2, e1, e2

VARIABLE focus

vars == <<focus, control, chatTables, messagingTables, tenancyTables, officeTables, reportTables,
          viewTables>>

Init ==
    /\ focus \in Parts
    /\ ControlInit /\ ChatInit /\ MessagingInit /\ TenancyInit /\ OfficeInit
    /\ IF focus = "reports" THEN ReportsInit
       ELSE /\ pupils = <<>> /\ staff = <<>> /\ bills = <<>> /\ listed = <<>>
    /\ IF focus = "views" THEN ViewsInit
       ELSE /\ classes = <<>> /\ roster = {} /\ leads = <<>> /\ joined = {} /\ works = <<>>
            /\ handed = <<>> /\ rolls = <<>> /\ texts = <<>> /\ tests = <<>>

\* The tables of the components other than `focus` stay as they are.
Rest(part, tables) == IF part = focus THEN TRUE ELSE UNCHANGED tables

\* Bound: the requests of a behaviour about that part.
Limit == [part \in Parts |-> CASE part = "roles"                             -> MaxRequests
                              [] part \in {"chat", "office"}              -> MaxRequests - 1
                              [] part \in {"tenant", "messaging", "reports"} -> MaxRequests - 2
                              [] part = "views"                          -> MaxRequests - 3]

Next ==
    /\ UNCHANGED focus
    /\ Rest("chat", chatTables) /\ Rest("messaging", messagingTables)
    /\ Rest("tenant", tenantRow) /\ Rest("roles", rolesTables) /\ Rest("office", officeTables)
    /\ Rest("reports", reportTables) /\ Rest("views", viewTables)
    /\ \/ focus = "chat" /\ ChatNext
       \/ focus = "messaging" /\ MessagingNext
       \/ focus = "tenant" /\ TenantNext
       \/ focus = "roles" /\ RolesNext
       \/ focus = "office" /\ OfficeNext
       \/ focus = "reports" /\ ReportsNext
       \/ focus = "views" /\ ViewsNext
    /\ arrived' <= Limit[focus]

Spec == Init /\ [][Next]_vars
-----------------------------------------------------------------------------
(* Values of the constants.                                                *)

On == [k \in {"on"} |-> TRUE]

AllOff == [k \in Keys |-> FALSE]

TwoPatches == {[k \in {"a"} |-> TRUE], [k \in {"b"} |-> TRUE]}

ListOf(name, main) == <<[name |-> name, main |-> main]>>

TwoLists == {<<>>, ListOf("north", FALSE) \o ListOf("south", TRUE) \o ListOf("north", FALSE)}

\* The first pupil has left, and the second has no branch.  One payment was made in the last
\* second of the month before this one, and the other is pending.
OneBook ==
    {[pupils |-> [u \in 1 .. 2 |-> [live |-> u = 2, branch |-> IF u = 1 THEN "north" ELSE None]],
      staff  |-> [e \in 1 .. 2 |-> [active |-> e = 1, branch |-> IF e = 1 THEN "south" ELSE None,
                                    salary |-> 3]],
      bills  |-> [p \in 1 .. 2 |->
                    IF p = 1 THEN [pupil |-> 1, status |-> "paid", amount |-> 5, total |-> 5,
                                   at |-> MonthLength - 1, invoice |-> "paid"]
                    ELSE [pupil |-> 2, status |-> "pending", amount |-> 3, total |-> 2,
                          at |-> None, invoice |-> "sent"]]]}

\* Two teachers have a group each of the same course, or the second group has no teacher yet.
\* The first student is in both, and has a grade of homework that is deleted by now and a
\* hand-in that is new, or graded once and handed in again; then the first grade is older than
\* the months that are shown.  The student has two rows of one day, left by overlapping
\* sheets, or none.
School(second, old, latest, day) ==
    [classes |-> [g \in 1 .. 2 |-> [tutor |-> IF g = 1 THEN e1 ELSE second, course |-> "maths",
                                   live |-> TRUE]],
     roster  |-> {<<1, 1>>, <<1, 2>>, <<2, 1>>},
     leads   |-> [c \in {"maths"} |-> e1],
     joined  |-> {},
     works   |-> [w \in 1 .. 3 |-> IF w = 3 THEN NoWork
                                  ELSE [tutor |-> e1, class |-> 1, live |-> w = 2]],
     handed  |-> [p \in (1 .. 3) \X (1 .. 2) |->
                    IF p = <<1, 1>> THEN [status |-> "graded", score |-> 2, month |-> old]
                    ELSE IF p = <<2, 1>> THEN latest ELSE NoHandIn],
     rolls   |-> day,
     texts   |-> [l \in 1 .. 2 |-> IF l = 1 THEN "maths" ELSE None],
     tests   |-> [e \in 1 .. 2 |-> IF e = 1 THEN [tutor |-> e1, live |-> TRUE] ELSE NoTest]]

FiveSchools ==
    LET row(status) == [learner |-> 1, class |-> 1, day |-> 0, by |-> e1, status |-> status]
        new   == [status |-> "submitted", score |-> None, month |-> None]
        again == [status |-> "submitted", score |-> 4, month |-> 0]
        twice == <<row("present"), row("absent")>>
    IN  {School(e2, 1, new, day) : day \in {<<>>, twice}} \cup
        {School(e2, 2, again, day) : day \in {<<>>, twice}} \cup {School(None, 1, new, <<>>)}

IdSymmetry == Permutations({h1, h2}) \cup Permutations({i1, i2}) \cup Permutations({u1, u2})

\* The views of teachers, groups and students tell the same of the same rows, whichever of
\* their queries asks for them; see ViewsAgree of Views.
ViewsHold == focus = "views" => ViewsAgree

TypeOK ==
    /\ \A h \in Handlers : task[h].at = "idle" => task[h] = Idle
    /\ rooms \in [Rooms -> ChatRoom]
    /\ messages \in Seq(ChatMessage)
    /\ \A c \in Columns : json[c] \in Objects
    /\ branches.objects \subseteq Branches /\ branches.plain \subseteq Names
    /\ roles \in [RoleIds -> Role] /\ holds \in [Staff -> RoleIds \cup {None}]
    /\ away \cup bygone \subseteq Staff
    /\ certs \in [Certificates -> Certificate] /\ lessons \in [Lessons -> Lesson]
    /\ focus = "views" =>
         /\ classes \in [Classes -> Class] /\ works \in [Works -> Work]
         /\ roster \subseteq Classes \X Learners /\ leads \in [Subjects -> Tutors \cup {None}]
         /\ handed \in [Works \X Learners -> HandedIn]
         /\ rolls \in Seq(Roll) /\ tests \in [Tests -> Test]
         /\ texts \in [Texts -> Subjects \cup {None}] /\ joined \subseteq Learners \X Subjects
    /\ storage \subseteq FileKeys /\ pdfs \subseteq Certificates
=============================================================================
