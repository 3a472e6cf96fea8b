---------------------------- MODULE SchoolProofs ----------------------------
(* The school, for every value of its constants.  First the numbering of   *)
(* students and teachers: which codes can be given twice, and which cannot. *)
(* Then the records that requests read, change in memory and write back:   *)
(* the members of groups, the marks of a day, and enrolments.              *)
EXTENDS School, FiniteSetTheorems, SequenceTheorems, TLAPS

\* A request has the four fields of Idle.
TaskShape ==
    /\ task = [h \in Handlers |-> task[h]]
    /\ \A h \in Handlers :
         /\ task[h] = [at |-> task[h].at, on |-> task[h].on,
                       alone |-> task[h].alone, data |-> task[h].data]
         /\ task[h].alone \in BOOLEAN

Creating(h) == At(h, "count") \/ At(h, "insert")

\* A creation knows what it creates, and is one of those on its sequence of codes.
CreatorKnows(h) ==
    Creating(h) =>
        /\ Data(h) = [kind |-> Data(h).kind, code |-> Data(h).code]
        /\ Data(h).kind \in Kinds
        /\ task[h].on = <<"codes", Data(h).kind>>

PeopleOK == people \in [People -> Person]

\* Two requests on the same rows are not alone.
Together ==
    \A g, h \in Handlers :
        g # h /\ Busy(g) /\ Busy(h) /\ task[g].on = task[h].on => ~task[g].alone

\* A code in hand is at most the next one, and is the next one if the creation is alone; a
\* row that has this code already belongs to a creation that was not.
CodeInHand(h) ==
    At(h, "insert") =>
        /\ Data(h).code \in 1 .. Counted(Data(h).kind) + 1
        /\ task[h].alone => Data(h).code = Counted(Data(h).kind) + 1
        /\ \A q \in RowsOf(Data(h).kind) :
             people[q].code = Data(h).code => <<"code of", q>> \in crossed

Numbered ==
    /\ PeopleOK
    /\ TaskShape
    /\ \A h \in Handlers : CreatorKnows(h)
    /\ Together
    /\ \A h \in Handlers : CodeInHand(h)
    /\ CodesAreShared

-----------------------------------------------------------------------------

LEMMA CountIsNat ==
    ASSUME NEW kind
    PROVE  IsFiniteSet(RowsOf(kind)) /\ Counted(kind) \in Nat
<1>1. RowsOf(kind) \subseteq People
  BY DEF RowsOf
<1> QED
  BY <1>1, SchoolAssumption, FS_Subset, FS_CardinalityType DEF Counted

LEMMA InitNumbered == Init => Numbered
<1> SUFFICES ASSUME Init PROVE Numbered
  OBVIOUS
<1>1. \A h \in Handlers : task[h] = Idle
  BY DEF Init
<1>2. ASSUME NEW p \in Teachers0
      PROVE  /\ p \in People /\ people[p] \in Person
             /\ people[p].kind = "teacher" /\ people[p].code = Code0[p]
  <2>1. p \in People /\ p \notin Students0 /\ Code0[p] \in Nat
    BY SchoolAssumption
  <2>2. people[p] = [kind |-> "teacher", code |-> Code0[p], deleted |-> FALSE]
    BY <2>1 DEF Init
  <2> QED
    BY <2>1, <2>2 DEF Person, Kinds
<1>3. ASSUME NEW p \in Students0
      PROVE  /\ p \in People /\ people[p] \in Person
             /\ people[p].kind = "student" /\ people[p].code = Code0[p]
  <2>1. p \in People /\ p \notin Teachers0 /\ Code0[p] \in Nat
    BY SchoolAssumption
  <2>2. people[p] = [kind |-> "student", code |-> Code0[p], deleted |-> FALSE]
    BY <2>1 DEF Init
  <2> QED
    BY <2>1, <2>2 DEF Person, Kinds
<1>4. ASSUME NEW p \in People \ (Teachers0 \cup Students0)
      PROVE  people[p] \in Person /\ people[p].kind = None
  <2>1. people[p] = NoPerson
    BY DEF Init
  <2> QED
    BY <2>1 DEF Person, NoPerson
<1>5. PeopleOK
  <2>1. people = [p \in People |-> people[p]]
    BY DEF Init
  <2>2. \A p \in People : people[p] \in Person
    BY <1>2, <1>3, <1>4
  <2> QED
    BY <2>1, <2>2 DEF PeopleOK
<1>6. TaskShape
  BY <1>1 DEF Init, TaskShape, Idle
<1>7. ASSUME NEW h \in Handlers PROVE CreatorKnows(h) /\ CodeInHand(h)
  <2>1. ~At(h, "count") /\ ~At(h, "insert")
    BY <1>1 DEF At, Idle
  <2> QED
    BY <2>1 DEF CreatorKnows, CodeInHand, Creating
<1>8. Together
  BY <1>1 DEF Together, Busy, Idle
<1>9. CodesAreShared
  <2>1. None # "teacher" /\ None # "student"
    BY SchoolAssumption DEF Kinds
  <2>2. RowsOf("teacher") = Teachers0
    <3>1. \A p \in People : people[p].kind = "teacher" => p \in Teachers0
      BY <1>3, <1>4, <2>1
    <3> QED
      BY <1>2, <3>1 DEF RowsOf
  <2>3. RowsOf("student") = Students0
    <3>1. \A p \in People : people[p].kind = "student" => p \in Students0
      BY <1>2, <1>4, <2>1
    <3> QED
      BY <1>3, <3>1 DEF RowsOf
  <2>4. ASSUME NEW some \in {Teachers0, Students0}, NEW p \in some
        PROVE  /\ Code0[p] \in 1 .. Cardinality(some)
               /\ \A q \in some \ {p} : Code0[p] # Code0[q]
    BY SchoolAssumption
  <2>5. \A p \in Teachers0 \cup Students0 : people[p].code = Code0[p]
    BY <1>2, <1>3
  <2>6. ASSUME NEW kind \in Kinds, NEW p \in RowsOf(kind)
        PROVE  /\ people[p].code \in 1 .. Cardinality(RowsOf(kind))
               /\ \A q \in RowsOf(kind) \ {p} : people[p].code # people[q].code
    <3>1. CASE kind = "teacher"
      BY <3>1, <2>2, <2>4, <2>5
    <3>2. CASE kind = "student"
      BY <3>2, <2>3, <2>4, <2>5
    <3> QED
      BY <3>1, <3>2 DEF Kinds
  <2> QED
    BY <2>6 DEF CodesAreShared
<1> QED
  BY <1>5, <1>6, <1>7, <1>8, <1>9 DEF Numbered
-----------------------------------------------------------------------------
(* What any step of h keeps that neither counts nor inserts                *)

\* The rows keep kind and code, and a row that was crossed remains so.
SameCodes ==
    /\ people' \in [People -> Person]
    /\ \A p \in People : /\ people'[p].kind = people[p].kind
                         /\ people'[p].code = people[p].code
    /\ crossed \subseteq crossed'

\* The requests of the others go on, at most no longer alone.
OthersStay(h) ==
    \A g \in Handlers \ {h} :
        \/ task'[g] = task[g]
        \/ task'[g] = [task[g] EXCEPT !.alone = FALSE]

LEMMA OthersKeep ==
    ASSUME Numbered, NEW h \in Handlers, OthersStay(h), NEW g \in Handlers \ {h}
    PROVE  /\ task'[g].at = task[g].at /\ task'[g].on = task[g].on
           /\ task'[g].data = task[g].data
           /\ task'[g].alone => task[g].alone
           /\ task'[g].alone \in BOOLEAN
           /\ task'[g] = [at |-> task'[g].at, on |-> task'[g].on,
                          alone |-> task'[g].alone, data |-> task'[g].data]
<1>1. /\ task[g] = [at |-> task[g].at, on |-> task[g].on,
                    alone |-> task[g].alone, data |-> task[g].data]
      /\ task[g].alone \in BOOLEAN
  BY DEF Numbered, TaskShape
<1>2. CASE task'[g] = task[g]
  BY <1>1, <1>2
<1>3. CASE task'[g] = [task[g] EXCEPT !.alone = FALSE]
  <2>1. task'[g] = [at |-> task[g].at, on |-> task[g].on, alone |-> FALSE,
                    data |-> task[g].data]
    BY <1>1, <1>3
  <2> QED
    BY <2>1
<1> QED
  BY <1>2, <1>3 DEF OthersStay

LEMMA SameRows ==
    ASSUME SameCodes, NEW kind
    PROVE  RowsOf(kind)' = RowsOf(kind) /\ Counted(kind)' = Counted(kind)
<1>1. RowsOf(kind)' = RowsOf(kind)
  BY DEF SameCodes, RowsOf
<1> QED
  BY <1>1 DEF Counted

LEMMA SameCodesKeep ==
    ASSUME Numbered, SameCodes PROVE PeopleOK' /\ CodesAreShared'
<1>1. PeopleOK'
  BY DEF SameCodes, PeopleOK
<1>2. ASSUME NEW kind \in Kinds, NEW p \in RowsOf(kind)'
      PROVE  /\ people'[p].code \in 1 .. Cardinality(RowsOf(kind)')
             /\ \A q \in RowsOf(kind)' \ {p} :
                  people'[p].code = people'[q].code => <<"code of", p>> \in crossed'
  <2>1. RowsOf(kind)' = RowsOf(kind)
    BY SameRows
  <2>2. \A q \in RowsOf(kind) : q \in People /\ people'[q].code = people[q].code
    BY DEF SameCodes, RowsOf
  <2> QED
    BY <2>1, <2>2 DEF Numbered, CodesAreShared, SameCodes
<1> QED
  BY <1>1, <1>2 DEF CodesAreShared

\* The others keep the code in hand through such a step.
LEMMA OthersInHand ==
    ASSUME Numbered, SameCodes, NEW h \in Handlers, OthersStay(h),
           NEW g \in Handlers \ {h}
    PROVE  CreatorKnows(g)' /\ CodeInHand(g)'
<1>1. /\ task'[g].at = task[g].at /\ task'[g].on = task[g].on
      /\ task'[g].data = task[g].data
      /\ task'[g].alone => task[g].alone
  BY OthersKeep
<1>2. CreatorKnows(g)'
  BY <1>1 DEF Numbered, CreatorKnows, Creating, At, Data
<1>3. CodeInHand(g)'
  <2>1. Data(g)' = Data(g) /\ At(g, "insert")' = At(g, "insert")
    BY <1>1 DEF Data, At
  <2>2. \A kind : {p \in People : people'[p].kind = kind} = {p \in People : people[p].kind = kind}
    BY DEF SameCodes
  <2>3. \A p \in People : people'[p].code = people[p].code
    BY DEF SameCodes
  <2> QED
    BY <1>1, <2>1, <2>2, <2>3 DEF Numbered, CodeInHand, SameCodes, RowsOf, Counted
<1> QED
  BY <1>2, <1>3

LEMMA StepKeeps ==
    ASSUME Numbered, SameCodes, NEW h \in Handlers, OthersStay(h),
           task' = [g \in Handlers |-> task'[g]],
           task'[h] = [at |-> task'[h].at, on |-> task'[h].on,
                       alone |-> task'[h].alone, data |-> task'[h].data],
           task'[h].alone \in BOOLEAN,
           CreatorKnows(h)', CodeInHand(h)',
           \A g \in Handlers \ {h} :
               Busy(h)' /\ Busy(g) /\ task'[h].on = task[g].on =>
                   ~task'[h].alone /\ ~task'[g].alone
    PROVE  Numbered'
<1>1. PeopleOK' /\ CodesAreShared'
  BY SameCodesKeep
<1>2. TaskShape'
  BY OthersKeep DEF TaskShape
<1>3. \A g \in Handlers : CreatorKnows(g)' /\ CodeInHand(g)'
  BY OthersInHand
<1>4. ASSUME NEW f \in Handlers, NEW g \in Handlers, f # g, Busy(f)', Busy(g)',
             task'[f].on = task'[g].on
      PROVE  ~task'[f].alone
  <2>1. \A e \in Handlers \ {h} : /\ Busy(e)' <=> Busy(e)
                                  /\ task'[e].on = task[e].on
                                  /\ task'[e].alone => task[e].alone
    BY OthersKeep DEF Busy
  <2>2. CASE f = h
    BY <1>4, <2>1, <2>2
  <2>3. CASE g = h
    BY <1>4, <2>1, <2>3
  <2>4. CASE f # h /\ g # h
    BY <1>4, <2>1, <2>4 DEF Numbered, Together
  <2> QED
    BY <2>2, <2>3, <2>4
<1> QED
  BY <1>1, <1>2, <1>3, <1>4 DEF Numbered, Together

LEMMA FinishKeeps ==
    ASSUME Numbered, SameCodes, NEW h \in Handlers, Finish(h) PROVE Numbered'
<1>1. /\ task'[h] = Idle /\ task' = [g \in Handlers |-> task'[g]]
      /\ \A g \in Handlers \ {h} : task'[g] = task[g]
  <2>1. task = [g \in Handlers |-> task[g]]
    BY DEF Numbered, TaskShape
  <2> QED
    BY <2>1 DEF Finish
<1>2. OthersStay(h)
  BY <1>1 DEF OthersStay
<1>3. ~Busy(h)' /\ ~At(h, "count")' /\ ~At(h, "insert")'
  BY <1>1 DEF Busy, At, Idle
<1>4. CreatorKnows(h)' /\ CodeInHand(h)'
  BY <1>3 DEF CreatorKnows, CodeInHand, Creating
<1>5. /\ task'[h] = [at |-> task'[h].at, on |-> task'[h].on,
                     alone |-> task'[h].alone, data |-> task'[h].data]
      /\ task'[h].alone \in BOOLEAN
  BY <1>1 DEF Idle
<1> QED
  BY <1>1, <1>2, <1>3, <1>4, <1>5, StepKeeps

\* The request of h takes its next step on the same rows.
GoesOn(h) ==
    /\ Busy(h)
    /\ task' = [g \in Handlers |-> task'[g]]
    /\ \A g \in Handlers \ {h} : task'[g] = task[g]
    /\ task'[h] = [at |-> task'[h].at, on |-> task[h].on,
                   alone |-> task[h].alone, data |-> task'[h].data]

LEMMA StepGoesOn ==
    ASSUME Numbered, NEW h \in Handlers, Busy(h), NEW step, NEW data, Step(h, step, data)
    PROVE  GoesOn(h) /\ task'[h].at = step /\ task'[h].data = data
<1>1. task = [g \in Handlers |-> task[g]]
  BY DEF Numbered, TaskShape
<1>2. task[h] = [at |-> task[h].at, on |-> task[h].on,
                 alone |-> task[h].alone, data |-> task[h].data]
  BY DEF Numbered, TaskShape
<1>3. /\ task' = [g \in Handlers |-> task'[g]]
      /\ \A g \in Handlers \ {h} : task'[g] = task[g]
  BY <1>1 DEF Step
<1>4. task'[h] = [[task[h] EXCEPT !.at = step] EXCEPT !.data = data]
  BY <1>1 DEF Step
<1>5. [task[h] EXCEPT !.at = step]
        = [at |-> step, on |-> task[h].on, alone |-> task[h].alone, data |-> task[h].data]
  BY <1>2
<1>6. task'[h] = [at |-> step, on |-> task[h].on, alone |-> task[h].alone, data |-> data]
  BY <1>4, <1>5
<1>7. task'[h].at = step /\ task'[h].data = data
  BY <1>6
<1> QED
  BY <1>3, <1>6, <1>7 DEF GoesOn

LEMMA GoesOnKeeps ==
    ASSUME Numbered, SameCodes, NEW h \in Handlers, GoesOn(h),
           CreatorKnows(h)', CodeInHand(h)'
    PROVE  Numbered'
<1>1. task[h].alone \in BOOLEAN
  BY DEF Numbered, TaskShape
<1>2. /\ task'[h].on = task[h].on /\ task'[h].alone = task[h].alone
      /\ task'[h] = [at |-> task'[h].at, on |-> task'[h].on,
                     alone |-> task'[h].alone, data |-> task'[h].data]
      /\ task'[h].alone \in BOOLEAN
  BY <1>1 DEF GoesOn
<1>3. OthersStay(h)
  BY DEF OthersStay, GoesOn
<1>4. \A g \in Handlers \ {h} :
        Busy(h)' /\ Busy(g) /\ task'[h].on = task[g].on => ~task'[h].alone /\ ~task'[g].alone
  BY <1>2 DEF Numbered, Together, GoesOn
<1> QED
  BY <1>2, <1>3, <1>4, StepKeeps DEF GoesOn

\* A request begins: those it meets are not alone any longer.
LEMMA BeginKeeps ==
    ASSUME Numbered, NEW h \in Handlers, NEW step, NEW on, NEW data,
           Begin(h, step, on, data), people' = people,
           CreatorKnows(h)', step # "insert"
    PROVE  Numbered'
<1> DEFINE met == {g \in Handlers \ {h} : Busy(g) /\ task[g].on = on}
<1>1. /\ task' = [g \in Handlers |-> task'[g]]
      /\ task'[h] = [at |-> step, on |-> on, alone |-> met = {}, data |-> data]
      /\ \A g \in Handlers \ {h} :
           task'[g] = IF g \in met THEN [task[g] EXCEPT !.alone = FALSE] ELSE task[g]
  BY DEF Begin
<1>2. SameCodes
  BY DEF Begin, SameCodes, Numbered, PeopleOK
<1>3. OthersStay(h)
  BY <1>1 DEF OthersStay
<1>4. /\ task'[h].at = step /\ task'[h].on = on /\ (task'[h].alone <=> met = {})
      /\ task'[h].alone \in BOOLEAN
      /\ task'[h] = [at |-> task'[h].at, on |-> task'[h].on,
                     alone |-> task'[h].alone, data |-> task'[h].data]
  <2>1. CASE met = {}
    <3>1. task'[h] = [at |-> step, on |-> on, alone |-> TRUE, data |-> data]
      BY <1>1, <2>1
    <3> QED
      BY <3>1, <2>1
  <2>2. CASE met # {}
    <3>1. task'[h] = [at |-> step, on |-> on, alone |-> FALSE, data |-> data]
      BY <1>1, <2>2
    <3> QED
      BY <3>1, <2>2
  <2> QED
    BY <2>1, <2>2
<1>5. CodeInHand(h)'
  BY <1>4 DEF CodeInHand, At
<1>6. ASSUME NEW g \in Handlers \ {h}, Busy(g), task'[h].on = task[g].on
      PROVE  ~task'[h].alone /\ ~task'[g].alone
  <2>1. g \in met
    BY <1>4, <1>6
  <2>2. task'[g] = [task[g] EXCEPT !.alone = FALSE]
    BY <1>1, <2>1
  <2>3. task[g] = [at |-> task[g].at, on |-> task[g].on,
                   alone |-> task[g].alone, data |-> task[g].data]
    BY DEF Numbered, TaskShape
  <2> QED
    BY <1>4, <2>1, <2>2, <2>3
<1> QED
  BY <1>1, <1>2, <1>3, <1>4, <1>5, <1>6, StepKeeps

LEMMA StepElsewhere ==
    ASSUME Numbered, SameCodes, NEW h \in Handlers, Busy(h), NEW step, NEW data,
           Step(h, step, data), step \notin {"count", "insert"}
    PROVE  Numbered'
<1>1. GoesOn(h) /\ task'[h].at = step
  BY StepGoesOn
<1>2. CreatorKnows(h)' /\ CodeInHand(h)'
  BY <1>1 DEF CreatorKnows, Creating, CodeInHand, At
<1> QED
  BY <1>1, <1>2, GoesOnKeeps

LEMMA BeginElsewhere ==
    ASSUME Numbered, NEW h \in Handlers, NEW step, NEW on, NEW data,
           Begin(h, step, on, data), people' = people, step \notin {"count", "insert"}
    PROVE  Numbered'
<1>1. task'[h].at = step
  BY DEF Begin
<1>2. CreatorKnows(h)'
  BY <1>1 DEF CreatorKnows, Creating, At
<1> QED
  BY <1>2, BeginKeeps

LEMMA StutterKeeps ==
    ASSUME Numbered, people' = people, task' = task, crossed' = crossed
    PROVE  Numbered'
BY DEF Numbered, PeopleOK, TaskShape, CreatorKnows, Creating, Together, CodeInHand,
       CodesAreShared, Busy, At, Data, Counted, RowsOf

LEMMA Unread ==
    ASSUME Numbered, people' = people, crossed' = crossed PROVE SameCodes
BY DEF Numbered, PeopleOK, SameCodes

-----------------------------------------------------------------------------
(* The actions that count and insert                                       *)

\* The rows of a kind after the step.
After(kind) == {p \in People : people'[p].kind = kind}

LEMMA PersonFindStep ==
    ASSUME Numbered, NEW h \in Handlers, NEW kind \in Kinds, PersonFind(h, kind)
    PROVE  Numbered'
<1> DEFINE data == [kind |-> kind, code |-> 0]
<1>1. Begin(h, "count", <<"codes", kind>>, data) /\ people' = people
  BY DEF PersonFind, tables
<1>2. task'[h].data = data /\ task'[h].on = <<"codes", kind>>
  BY <1>1 DEF Begin
<1>3. CreatorKnows(h)'
  BY <1>2 DEF CreatorKnows, Data
<1> QED
  BY <1>1, <1>3, BeginKeeps

\* The next code is beyond those of all the rows.
LEMMA CodeCountStep ==
    ASSUME Numbered, NEW h \in Handlers, CodeCount(h) PROVE Numbered'
<1> DEFINE kind == Data(h).kind
           n == Counted(Data(h).kind)
<1>1. /\ Data(h) = [kind |-> kind, code |-> Data(h).code]
      /\ kind \in Kinds /\ task[h].on = <<"codes", kind>>
  BY DEF Numbered, CreatorKnows, Creating, CodeCount
<1>2. Busy(h)
  BY DEF CodeCount, At, Busy
<1>3. Step(h, "insert", [kind |-> kind, code |-> n + 1])
  BY <1>1 DEF CodeCount, NextCode
<1>4. SameCodes
  BY Unread DEF CodeCount, tables, history
<1>5. /\ GoesOn(h)
      /\ task'[h].at = "insert" /\ task'[h].data = [kind |-> kind, code |-> n + 1]
  BY <1>2, <1>3, StepGoesOn
<1>6. CreatorKnows(h)'
  BY <1>1, <1>5 DEF GoesOn, CreatorKnows, Data
<1>7. CodeInHand(h)'
  <2>1. n \in Nat
    BY CountIsNat
  <2>2. \A q \in RowsOf(kind) : people[q].code \in 1 .. n
    BY <1>1 DEF Numbered, CodesAreShared, Counted
  <2>3. /\ people' = people
        /\ After(kind) = RowsOf(kind)
    BY DEF CodeCount, tables, RowsOf, After
  <2>4. Data(h)'.kind = kind /\ Data(h)'.code = n + 1
    BY <1>5 DEF Data
  <2>5. /\ n + 1 \in 1 .. Cardinality(After(kind)) + 1
        /\ n + 1 = Cardinality(After(kind)) + 1
        /\ \A q \in After(kind) : people'[q].code # n + 1
    BY <2>1, <2>2, <2>3 DEF Counted
  <2> QED
    BY <2>4, <2>5 DEF CodeInHand, RowsOf, Counted, Data, After
<1> QED
  BY <1>4, <1>5, <1>6, <1>7, GoesOnKeeps

\* A row more: it has the code in hand, which is new unless the creation was crossed, and
\* then this row is marked so as well.
LEMMA PersonInsertStep ==
    ASSUME Numbered, NEW h \in Handlers, PersonInsert(h) PROVE Numbered'
<1> DEFINE kind == Data(h).kind
           code == Data(h).code
           n == Counted(Data(h).kind)
<1>1. PICK p \in People :
        /\ people[p].kind = None
        /\ people' = [people EXCEPT ![p] = [kind |-> kind, code |-> code, deleted |-> FALSE]]
        /\ crossed' = IF task[h].alone THEN crossed ELSE crossed \cup {<<"code of", p>>}
  BY DEF PersonInsert
<1>2. /\ kind \in Kinds /\ task[h].on = <<"codes", kind>> /\ Busy(h)
      /\ code \in 1 .. n + 1
      /\ task[h].alone => code = n + 1
  BY DEF Numbered, CreatorKnows, Creating, CodeInHand, PersonInsert, At, Busy
<1>3. \A q \in RowsOf(kind) : people[q].code = code => <<"code of", q>> \in crossed
  BY DEF Numbered, CodeInHand, PersonInsert
<1>4. n \in Nat /\ IsFiniteSet(RowsOf(kind)) /\ None \notin Kinds
  BY CountIsNat, SchoolAssumption
<1>5. /\ people'[p].kind = kind /\ people'[p].code = code
      /\ \A q \in People \ {p} : people'[q] = people[q]
  BY <1>1 DEF Numbered, PeopleOK
<1>6. /\ p \notin RowsOf(kind) /\ After(kind) = RowsOf(kind) \cup {p}
      /\ \A k \in Kinds \ {kind} : After(k) = RowsOf(k)
  BY <1>1, <1>2, <1>4, <1>5 DEF RowsOf, After
<1>7. Cardinality(After(kind)) = n + 1
  BY <1>4, <1>6, FS_AddElement DEF Counted
<1>8. crossed \subseteq crossed' /\ (~task[h].alone => <<"code of", p>> \in crossed')
  BY <1>1
<1>9. /\ task'[h] = Idle /\ task' = [g \in Handlers |-> task'[g]]
      /\ \A g \in Handlers \ {h} : task'[g] = task[g]
  <2>1. task = [g \in Handlers |-> task[g]]
    BY DEF Numbered, TaskShape
  <2> QED
    BY <2>1 DEF PersonInsert, Finish
<1>10. /\ task'[h] = [at |-> task'[h].at, on |-> task'[h].on,
                      alone |-> task'[h].alone, data |-> task'[h].data]
       /\ task'[h].alone \in BOOLEAN
  BY <1>9 DEF Idle
<1>11. n = Counted(kind)
  OBVIOUS
<1> HIDE DEF kind, code, n
<1>12. code \in Nat /\ code \in 1 .. n + 1 /\ n \in Nat
  BY <1>2, <1>4
<1>13. PeopleOK'
  <2>1. code \in Nat /\ kind \in Kinds \cup {None}
    BY <1>2, <1>12
  <2>2. [kind |-> kind, code |-> code, deleted |-> FALSE] \in Person
    BY <2>1 DEF Person
  <2> QED
    BY <1>1, <2>2 DEF Numbered, PeopleOK
<1>14. TaskShape'
  <2>1. ASSUME NEW g \in Handlers
        PROVE  /\ task'[g] = [at |-> task'[g].at, on |-> task'[g].on,
                              alone |-> task'[g].alone, data |-> task'[g].data]
               /\ task'[g].alone \in BOOLEAN
    <3>1. CASE g = h
      BY <1>10, <3>1
    <3>2. CASE g # h
      <4>1. /\ task[g] = [at |-> task[g].at, on |-> task[g].on,
                          alone |-> task[g].alone, data |-> task[g].data]
            /\ task[g].alone \in BOOLEAN
        BY DEF Numbered, TaskShape
      <4> QED
        BY <1>9, <3>2, <4>1
    <3> QED
      BY <3>1, <3>2
  <2> QED
    BY <1>9, <2>1 DEF TaskShape
<1>15. Together'
  BY <1>9 DEF Numbered, Together, Busy, Idle
<1>16. \A g \in Handlers : CreatorKnows(g)'
  BY <1>9 DEF Numbered, CreatorKnows, Creating, At, Data, Idle
<1>17. ASSUME NEW k \in Kinds, NEW r \in After(k)
       PROVE  /\ people'[r].code \in 1 .. Cardinality(After(k))
              /\ \A q \in After(k) \ {r} :
                   people'[r].code = people'[q].code => <<"code of", r>> \in crossed'
  <2>1. \A k2 \in Kinds : \A q \in RowsOf(k2) :
          /\ people[q].code \in 1 .. Counted(k2)
          /\ \A q2 \in RowsOf(k2) \ {q} :
               people[q].code = people[q2].code => <<"code of", q>> \in crossed
    BY DEF Numbered, CodesAreShared, Counted
  <2>2. \A k2 \in Kinds : \A q \in RowsOf(k2) : q # p /\ people'[q].code = people[q].code
    BY <1>1, <1>4, <1>5 DEF RowsOf
  <2>3. CASE k # kind
    <3>1. After(k) = RowsOf(k) /\ Cardinality(After(k)) = Counted(k)
      BY <1>6, <2>3 DEF Counted
    <3>2. people'[r].code = people[r].code /\ people[r].code \in 1 .. Counted(k)
      BY <3>1, <2>1, <2>2
    <3>3. ASSUME NEW q \in After(k) \ {r}, people'[r].code = people'[q].code
          PROVE  <<"code of", r>> \in crossed'
      <4>1. people[r].code = people[q].code
        BY <3>1, <3>3, <2>2
      <4>2. <<"code of", r>> \in crossed
        BY <3>1, <3>3, <4>1 DEF Numbered, CodesAreShared
      <4> QED
        BY <4>2, <1>8
    <3> QED
      BY <3>1, <3>2, <3>3
  <2>4. CASE k = kind
    <3>1. \A q \in RowsOf(kind) : people'[q].code \in 1 .. n
      BY <1>2, <1>11, <2>1, <2>2
    <3>2. \A q \in After(kind) : people'[q].code \in 1 .. n + 1
      <4>1. ASSUME NEW x \in 1 .. n PROVE x \in 1 .. n + 1
        BY <1>12
      <4> QED
        BY <1>5, <1>6, <1>12, <3>1, <4>1
    <3>3. ASSUME NEW q \in RowsOf(kind), people'[q].code = code
          PROVE  <<"code of", q>> \in crossed' /\ <<"code of", p>> \in crossed'
      <4>1. <<"code of", q>> \in crossed'
        BY <1>2, <1>3, <1>8, <2>2, <3>3
      <4>2. code # n + 1
        <5>1. ASSUME NEW x \in 1 .. n PROVE x # n + 1
          BY <1>12
        <5> QED
          BY <3>1, <3>3, <5>1
      <4> QED
        BY <4>1, <4>2, <1>2, <1>8
    <3>4. ASSUME NEW q \in After(kind) \ {r}, people'[r].code = people'[q].code
          PROVE  <<"code of", r>> \in crossed'
      <4>1. CASE r = p
        <5>1. q \in RowsOf(kind)
          BY <1>6, <4>1
        <5> QED
          BY <1>5, <3>3, <3>4, <4>1, <5>1
      <4>2. CASE q = p
        <5>1. r \in RowsOf(kind)
          BY <1>6, <2>4, <4>2
        <5> QED
          BY <1>5, <3>3, <3>4, <4>2, <5>1
      <4>3. CASE r # p /\ q # p
        <5>1. r \in RowsOf(kind) /\ q \in RowsOf(kind)
          BY <1>6, <2>4, <4>3
        <5> QED
          BY <1>2, <1>8, <2>1, <2>2, <3>4, <5>1
      <4> QED
        BY <4>1, <4>2, <4>3
    <3> QED
      BY <1>7, <2>4, <3>2, <3>4
  <2> QED
    BY <2>3, <2>4
<1>18. ASSUME NEW g \in Handlers PROVE CodeInHand(g)'
  <2> SUFFICES ASSUME At(g, "insert")' PROVE CodeInHand(g)'
    BY DEF CodeInHand
  <2> DEFINE k == Data(g).kind
             c == Data(g).code
  <2>1. g # h /\ task'[g] = task[g] /\ At(g, "insert") /\ Busy(g)
    BY <1>9 DEF At, Busy, Idle
  <2>2. /\ k \in Kinds /\ task[g].on = <<"codes", k>>
        /\ c \in 1 .. Counted(k) + 1
        /\ task[g].alone => c = Counted(k) + 1
        /\ \A q \in RowsOf(k) : people[q].code = c => <<"code of", q>> \in crossed
    BY <2>1 DEF Numbered, CreatorKnows, Creating, CodeInHand
  <2>3. /\ c \in 1 .. Cardinality(After(k)) + 1
        /\ task[g].alone => c = Cardinality(After(k)) + 1
        /\ \A q \in After(k) : people'[q].code = c => <<"code of", q>> \in crossed'
    <3>1. \A q \in RowsOf(k) : q # p /\ people'[q].code = people[q].code
      BY <1>1, <1>4, <1>5, <2>2 DEF RowsOf
    <3>2. CASE k # kind
      BY <1>6, <1>8, <2>2, <3>1, <3>2 DEF Counted
    <3>3. CASE k = kind
      <4>1. ~task[g].alone /\ ~task[h].alone
        BY <1>2, <2>1, <2>2, <3>3 DEF Numbered, Together
      <4>2. c \in 1 .. Cardinality(After(k)) + 1
        <5>1. c \in 1 .. n + 1
          BY <1>11, <2>2, <3>3
        <5>2. \A x \in 1 .. n + 1 : x \in 1 .. (n + 1) + 1
          BY <1>12
        <5> QED
          BY <1>7, <3>3, <5>1, <5>2
      <4>3. \A q \in After(k) : people'[q].code = c => <<"code of", q>> \in crossed'
        BY <1>6, <1>8, <2>2, <3>1, <3>3, <4>1
      <4> QED
        BY <4>1, <4>2, <4>3
    <3> QED
      BY <3>2, <3>3
  <2> QED
    BY <2>1, <2>3 DEF CodeInHand, RowsOf, Counted, Data, After
<1>19. CodesAreShared'
  BY <1>17 DEF CodesAreShared, RowsOf, After
<1> QED
  BY <1>13, <1>14, <1>15, <1>16, <1>18, <1>19 DEF Numbered

-----------------------------------------------------------------------------
(* The actions of Next, and the theorem                                    *)

\* A deletion marks the row and leaves kind and code.
LEMMA PersonEraseStep ==
    ASSUME Numbered, NEW h \in Handlers, PersonErase(h) PROVE Numbered'
<1>1. people \in [People -> Person]
  BY DEF Numbered, PeopleOK
<1>2. people' = [people EXCEPT ![Data(h)] = [people[Data(h)] EXCEPT !.deleted = TRUE]]
  BY DEF PersonErase
<1>3. \A x \in Person : /\ [x EXCEPT !.deleted = TRUE] \in Person
                        /\ [x EXCEPT !.deleted = TRUE].kind = x.kind
                        /\ [x EXCEPT !.deleted = TRUE].code = x.code
  BY DEF Person
<1>4. SameCodes
  BY <1>1, <1>2, <1>3 DEF SameCodes, PersonErase, history
<1> QED
  BY <1>4, FinishKeeps DEF PersonErase

LEMMA RequestStep ==
    ASSUME Numbered, NEW h \in Handlers, Request(h) PROVE Numbered'
<1>1. CASE CreateStudent(h)
  BY <1>1, PersonFindStep DEF CreateStudent, Kinds
<1>2. CASE CreateTeacher(h)
  BY <1>2, PersonFindStep DEF CreateTeacher, Kinds
<1>3. CASE DeletePerson(h)
  BY <1>3, BeginElsewhere DEF DeletePerson, tables
<1>4. CASE CreateGroup(h)
  BY <1>4, StutterKeeps DEF CreateGroup, history
<1>5. CASE EditGroup(h)
  <2>1. people' = people
    BY <1>5 DEF EditGroup, tables
  <2>2. PICK g \in LiveGroups :
          \/ \E t \in RowsOf("teacher") :
               GroupFind(h, "load", g, [groups[g] EXCEPT !.teacher = t], None, None)
          \/ GroupFind(h, "softLoad", g, [groups[g] EXCEPT !.deleted = TRUE], None, None)
    BY <1>5 DEF EditGroup
  <2>3. ASSUME NEW step \in {"load", "softLoad"}, NEW row,
               GroupFind(h, step, g, row, None, None)
        PROVE  Numbered'
    BY <2>1, <2>3, BeginElsewhere DEF GroupFind
  <2> QED
    BY <2>2, <2>3
<1>6. CASE AddMember(h)
  BY <1>6, BeginElsewhere DEF AddMember, GroupFind, tables
<1>7. CASE RemoveMember(h)
  BY <1>7, BeginElsewhere DEF RemoveMember, GroupFind, tables
<1>8. CASE MarkFind(h)
  BY <1>8, BeginElsewhere DEF MarkFind, tables
<1>9. CASE DeleteCourse(h)
  BY <1>9, BeginElsewhere DEF DeleteCourse, tables
<1>10. CASE EnrolFind(h)
  BY <1>10, BeginElsewhere DEF EnrolFind, tables
<1> QED
  BY <1>1, <1>2, <1>3, <1>4, <1>5, <1>6, <1>7, <1>8, <1>9, <1>10 DEF Request

LEMMA ProceedStep ==
    ASSUME Numbered, NEW h \in Handlers, Proceed(h) PROVE Numbered'
<1>1. CASE CodeCount(h)
  BY <1>1, CodeCountStep
<1>2. CASE PersonInsert(h)
  BY <1>2, PersonInsertStep
<1>3. CASE PersonErase(h)
  BY <1>3, PersonEraseStep
<1>4. CASE MemberFind(h)
  <2>1. SameCodes /\ Busy(h)
    BY <1>4, Unread DEF MemberFind, tables, history, At, Busy
  <2> QED
    BY <1>4, <2>1, FinishKeeps, StepElsewhere DEF MemberFind
<1>5. CASE GroupLoad(h)
  <2>1. SameCodes /\ Busy(h)
    BY <1>5, Unread DEF GroupLoad, tables, history, At, Busy
  <2> QED
    BY <1>5, <2>1, StepElsewhere DEF GroupLoad
<1>6. CASE GroupWrite(h)
  <2>1. SameCodes
    BY <1>6, Unread DEF GroupWrite
  <2> QED
    BY <1>6, <2>1, FinishKeeps DEF GroupWrite
<1>7. CASE MarkLook(h)
  <2>1. SameCodes /\ Busy(h)
    BY <1>7, Unread DEF MarkLook, tables, history, At, Busy
  <2> QED
    BY <1>7, <2>1, StepElsewhere DEF MarkLook
<1>8. CASE MarkPut(h)
  <2>1. SameCodes /\ Busy(h)
    BY <1>8, Unread DEF MarkPut, At, Busy
  <2> QED
    BY <1>8, <2>1, FinishKeeps, StepElsewhere DEF MarkPut
<1>9. CASE MarkDeadlock(h)
  <2>1. SameCodes
    BY <1>9, Unread DEF MarkDeadlock, tables, history
  <2> QED
    BY <1>9, <2>1, FinishKeeps DEF MarkDeadlock
<1>10. CASE CourseErase(h)
  <2>1. SameCodes
    BY <1>10, Unread DEF CourseErase, history
  <2> QED
    BY <1>10, <2>1, FinishKeeps DEF CourseErase
<1>11. CASE EnrolLook(h)
  <2>1. SameCodes /\ Busy(h)
    BY <1>11, Unread DEF EnrolLook, tables, history, At, Busy
  <2> QED
    BY <1>11, <2>1, FinishKeeps, StepElsewhere DEF EnrolLook
<1>12. CASE EnrolInsert(h)
  <2>1. SameCodes
    BY <1>12, Unread DEF EnrolInsert
  <2> QED
    BY <1>12, <2>1, FinishKeeps DEF EnrolInsert
<1> QED
  BY <1>1, <1>2, <1>3, <1>4, <1>5, <1>6, <1>7, <1>8, <1>9, <1>10, <1>11, <1>12 DEF Proceed

LEMMA FailureStep ==
    ASSUME Numbered, NEW h \in Handlers, HandlerFails(h) PROVE Numbered'
<1>1. SameCodes
  BY Unread DEF HandlerFails, tables, history
<1> QED
  BY <1>1, FinishKeeps DEF HandlerFails

LEMMA NumberedStep == Numbered /\ [Next]_vars => Numbered'
<1> SUFFICES ASSUME Numbered, [Next]_vars PROVE Numbered'
  OBVIOUS
<1>1. CASE Next
  BY <1>1, RequestStep, ProceedStep, FailureStep DEF Next
<1>2. CASE UNCHANGED vars
  BY <1>2, StutterKeeps DEF vars, tables, history
<1> QED
  BY <1>1, <1>2

\* A student's or teacher's number is within those of its kind, and two of a kind share one
\* only if a creation that gave it overlapped another: createStudent and createTeacher
\* count the rows and insert after the password is hashed, and nothing holds the count.
THEOREM CodesAreSharedHolds == Spec => []CodesAreShared
<1>1. Init => Numbered
  BY InitNumbered
<1>2. Numbered /\ [Next]_vars => Numbered'
  BY NumberedStep
<1>3. Numbered => CodesAreShared
  BY DEF Numbered
<1> QED
  BY <1>1, <1>2, <1>3, PTL DEF Spec
-----------------------------------------------------------------------------
(* Groups, marks and enrolments: what a request knows.                     *)

\* Two requests on the same rows were noted.
Noted ==
    \A g, h \in Handlers :
        g # h /\ Busy(g) /\ Busy(h) /\ task[g].on = task[h].on => task[g].on \in crossed

\* Whom an enrolment is about.
EnrolAtWork(h) == At(h, "lookUp") \/ At(h, "enrol") => Data(h) \in Pairs

\* Each enrolment that is stored was answered with success once.
EnrolInv ==
    /\ enrolments \subseteq Pairs
    /\ granted = [pair \in Pairs |-> IF pair \in enrolments THEN 1 ELSE 0]
    /\ \A h \in Handlers : EnrolAtWork(h)

\* The members in memory are the students of the group that are not deleted, except
\* those deleted since, and except the student that is added or removed.
MembersInHand(kids, member, g) ==
    /\ LiveMembers(g) \ {member} \subseteq kids
    /\ kids \ {member} \subseteq members[g]

\* The count in memory is that of the members in memory, if these are going to be saved.
CountInHand(d) ==
    IF d.kids = None THEN d.row.count = groups[d.group].count
    ELSE d.row.count \in {Cardinality(d.kids), Cardinality(d.kids) + 1}

WriteInHand(d) ==
    /\ d.row.count # groups[d.group].count => "count" \in d.dirty
    /\ d.kids # None =>
         /\ d.kids \ members[d.group] \subseteq d.added
         /\ LiveMembers(d.group) \ d.kids \subseteq d.gone /\ d.gone \cap d.kids = {}

ChangesGroup(h) == At(h, "member") \/ At(h, "load") \/ At(h, "softLoad") \/ At(h, "write")

GroupAtWork(h) ==
    LET d == Data(h)  g == d.group IN
    ChangesGroup(h) =>
        /\ g \in Groups /\ groups[g].exists /\ task[h].on = <<"groups", g>>
        /\ d.row \in Group /\ d.row.exists
        /\ IF d.kids = None THEN d.member = None
           ELSE d.kids \subseteq RowsOf("student") /\ d.member \in RowsOf("student")
        /\ At(h, "softLoad") => d.kids = None
        /\ At(h, "write") => /\ d.kids = None => d.added = {} /\ d.gone = {}
                             /\ d.kids # None => d.added \subseteq d.kids
        /\ At(h, "member") =>
             /\ d = [group |-> g, row |-> d.row, kids |-> d.kids, member |-> d.member,
                     dirty |-> {}]
             /\ d.kids # None
        /\ <<"groups", g>> \notin crossed =>
             /\ d.kids # None => MembersInHand(d.kids, d.member, g)
             /\ ~At(h, "member") => CountInHand(d)
             /\ At(h, "write") => WriteInHand(d)

RosterOf(g) ==
    <<"groups", g>> \notin crossed =>
        /\ LiveMembers(g) = wanted[g] \cap Live("student")
        /\ groups[g].count \in Cardinality(LiveMembers(g)) .. Cardinality(members[g]) + 1

RosterInv ==
    /\ groups \in [Groups -> Group]
    /\ \A g \in Groups : ~groups[g].exists => groups[g] = NoGroup
    /\ members \in [Groups -> SUBSET RowsOf("student")]
    /\ wanted \in [Groups -> SUBSET RowsOf("student")]
    /\ \A h \in Handlers : GroupAtWork(h)
    /\ \A g \in Groups : RosterOf(g)

\* What a transaction of marks has staged are rows that are there, or inserts of one.
MarkingAtWork(h) ==
    LET d == Data(h)  on == <<"marks", d.group, d.day>> IN
    At(h, "look") \/ At(h, "put") =>
        /\ d = [group |-> d.group, day |-> d.day, sheet |-> d.sheet, next |-> d.next,
                staged |-> d.staged]
        /\ d.group \in Groups /\ d.day \in Days /\ d.sheet \in Sheets
        /\ task[h].on = on
        /\ d.next \in 1 .. Len(d.sheet)
        /\ d.staged \in Seq(Nat)
        /\ Len(d.staged) = IF At(h, "look") THEN d.next - 1 ELSE d.next
        /\ \A i \in 1 .. Len(d.staged) :
             /\ d.staged[i] = 0 \/ d.staged[i] \in DOMAIN attendance[Slot(d, i)]
             /\ on \notin crossed /\ d.staged[i] = 0 => attendance[Slot(d, i)] = <<>>

\* The transactions that are going to insert a row.
Inserting(slot) ==
    {h \in Handlers :
        /\ At(h, "look") \/ At(h, "put")
        /\ \E i \in 1 .. Len(Data(h).staged) : Data(h).staged[i] = 0 /\ Slot(Data(h), i) = slot}

CopiesFit(slot) ==
    Len(attendance[slot]) + Cardinality(Inserting(slot)) <= Cardinality(Handlers)

LatestMark(g, s, day) ==
    <<"marks", g, day>> \notin crossed =>
        attendance[<<g, s, day>>] =
            IF marked[<<g, s, day>>] = None THEN <<>> ELSE <<marked[<<g, s, day>>]>>

MarksInv ==
    /\ attendance \in [Slots -> Seq(Statuses)]
    /\ marked \in [Slots -> Statuses \cup {None}]
    /\ \A h \in Handlers : MarkingAtWork(h)
    /\ \A slot \in Slots : CopiesFit(slot)
    /\ \A g \in Groups, s \in People, day \in Days : LatestMark(g, s, day)

RecordsInv ==
    /\ courses \in [Courses -> {"live", "deleted"}]
    /\ arrived \in Nat /\ failures \in Nat
    /\ Noted /\ EnrolInv /\ RosterInv /\ MarksInv
-----------------------------------------------------------------------------
(* What a step does to the requests.                                       *)

\* A step of h leaves the other requests alone, and what overlapped was noted.
Passes(h) ==
    /\ \A g \in Handlers \ {h} :
         task'[g].at = task[g].at /\ task'[g].on = task[g].on /\ task'[g].data = task[g].data
    /\ crossed \subseteq crossed'
    /\ Noted'

\* No other request is on those rows, or it was noted.
Only(h, on) ==
    on \notin crossed' => \A g \in Handlers \ {h} : Busy(g) => task[g].on # on

Becomes(h, at, on, data) ==
    task'[h].at = at /\ task'[h].on = on /\ task'[h].data = data

LEMMA GoesOnPasses ==
    ASSUME Noted, NEW h \in Handlers, GoesOn(h), crossed' = crossed
    PROVE  Passes(h) /\ task'[h].on = task[h].on /\ Only(h, task[h].on)
<1>1. task'[h].on = task[h].on /\ \A g \in Handlers \ {h} : task'[g] = task[g]
  BY DEF GoesOn
<1>2. Only(h, task[h].on)
  BY DEF Only, Noted, GoesOn
<1>3. Noted'
  BY <1>1 DEF Noted, GoesOn, Busy
<1> QED
  BY <1>1, <1>2, <1>3 DEF Passes

LEMMA FinishPasses ==
    ASSUME Numbered, Noted, NEW h \in Handlers, Busy(h), Finish(h), crossed \subseteq crossed'
    PROVE  Passes(h) /\ task'[h].at = "idle" /\ Only(h, task[h].on)
<1>1. task'[h].at = "idle" /\ \A g \in Handlers \ {h} : task'[g] = task[g]
  BY DEF Numbered, TaskShape, Finish, Idle
<1>2. Only(h, task[h].on)
  BY DEF Only, Noted
<1>3. Noted'
  BY <1>1 DEF Noted, Busy
<1> QED
  BY <1>1, <1>2, <1>3 DEF Passes

LEMMA BeginPasses ==
    ASSUME Numbered, Noted, NEW h \in Handlers, ~Busy(h), NEW step, NEW on, NEW data,
           Begin(h, step, on, data)
    PROVE  Passes(h) /\ Becomes(h, step, on, data) /\ Only(h, on)
<1> DEFINE met == {g \in Handlers \ {h} : Busy(g) /\ task[g].on = on}
<1>1. task'[h] = [at |-> step, on |-> on, alone |-> met = {}, data |-> data]
      /\ \A g \in Handlers \ {h} :
           task'[g] = IF g \in met THEN [task[g] EXCEPT !.alone = FALSE] ELSE task[g]
  BY DEF Begin
<1>2. Becomes(h, step, on, data)
  BY <1>1 DEF Becomes
<1>3. OthersStay(h)
  BY <1>1 DEF OthersStay
<1>4. \A g \in Handlers \ {h} :
        task'[g].at = task[g].at /\ task'[g].on = task[g].on /\ task'[g].data = task[g].data
  BY <1>3, OthersKeep
<1>5. crossed' = IF met = {} THEN crossed ELSE crossed \cup {on}
  BY DEF Begin
<1>6. Only(h, on) /\ crossed \subseteq crossed'
  BY <1>5 DEF Only
<1>7. ASSUME NEW f \in Handlers, NEW g \in Handlers, f # g, Busy(f)', Busy(g)',
             task'[f].on = task'[g].on
      PROVE  task'[f].on \in crossed'
  <2>1. CASE f = h
    BY <1>2, <1>4, <1>6, <1>7, <2>1 DEF Becomes, Only, Busy
  <2>2. CASE g = h
    BY <1>2, <1>4, <1>6, <1>7, <2>2 DEF Becomes, Only, Busy
  <2>3. CASE f # h /\ g # h
    BY <1>4, <1>6, <1>7, <2>3 DEF Noted, Busy
  <2> QED
    BY <2>1, <2>2, <2>3
<1>8. Noted'
  BY <1>7 DEF Noted
<1> QED
  BY <1>2, <1>4, <1>6, <1>8 DEF Passes

LEMMA NoTaskPasses ==
    ASSUME Noted, NEW h \in Handlers, task' = task, crossed' = crossed PROVE Passes(h)
BY DEF Passes, Noted, Busy
-----------------------------------------------------------------------------
(* What the requests of the others know stays true.                        *)

\* Students stay students, and those who were deleted stay so.
StudentsStay ==
    \A p \in RowsOf("student") :
        p \in RowsOf("student")' /\ (p \in Live("student")' => p \in Live("student"))

SameGroup(g) == groups'[g] = groups[g] /\ members'[g] = members[g]

LEMMA OthersOnGroups ==
    ASSUME RosterInv, NEW h \in Handlers, Passes(h), StudentsStay,
           \A g \in Groups : groups[g].exists =>
             groups'[g].exists /\ (SameGroup(g) \/ Only(h, <<"groups", g>>))
    PROVE  \A f \in Handlers \ {h} : GroupAtWork(f)'
<1> SUFFICES ASSUME NEW f \in Handlers \ {h}, ChangesGroup(f) PROVE GroupAtWork(f)'
  BY DEF Passes, GroupAtWork, ChangesGroup, At
<1>1. /\ GroupAtWork(f) /\ crossed \subseteq crossed'
      /\ task'[f].at = task[f].at /\ task'[f].on = task[f].on /\ task'[f].data = task[f].data
  BY DEF Passes, RosterInv
<1>2. PICK d, g : d = Data(f) /\ g = d.group
  OBVIOUS
<1>3. /\ g \in Groups /\ groups[g].exists /\ task[f].on = <<"groups", g>>
      /\ d.row \in Group /\ d.row.exists
      /\ IF d.kids = None THEN d.member = None
         ELSE d.kids \subseteq RowsOf("student") /\ d.member \in RowsOf("student")
      /\ At(f, "softLoad") => d.kids = None
      /\ At(f, "write") => /\ d.kids = None => d.added = {} /\ d.gone = {}
                           /\ d.kids # None => d.added \subseteq d.kids
      /\ At(f, "member") =>
           /\ d = [group |-> g, row |-> d.row, kids |-> d.kids, member |-> d.member,
                   dirty |-> {}]
           /\ d.kids # None
      /\ <<"groups", g>> \notin crossed =>
           /\ d.kids # None => MembersInHand(d.kids, d.member, g)
           /\ ~At(f, "member") => CountInHand(d)
           /\ At(f, "write") => WriteInHand(d)
  BY <1>1, <1>2 DEF GroupAtWork
<1>4. ASSUME <<"groups", g>> \notin crossed'
      PROVE  /\ d.kids # None => MembersInHand(d.kids, d.member, g)'
             /\ ~At(f, "member") => CountInHand(d)'
             /\ At(f, "write") => WriteInHand(d)'
  <2>1. Busy(f) /\ <<"groups", g>> \notin crossed
    BY <1>1, <1>4 DEF ChangesGroup, At, Busy
  <2>2. SameGroup(g)
    BY <1>3, <1>4, <2>1 DEF Only
  <2>3. d.kids # None => MembersInHand(d.kids, d.member, g)'
    <3>1. LiveMembers(g)' \subseteq LiveMembers(g) /\ members'[g] = members[g]
      BY <1>3, <2>2 DEF RosterInv, StudentsStay, LiveMembers, SameGroup
    <3> QED
      BY <1>3, <2>1, <3>1 DEF MembersInHand
  <2>4. ~At(f, "member") => CountInHand(d)'
    BY <1>2, <1>3, <2>1, <2>2 DEF CountInHand, SameGroup
  <2>5. At(f, "write") => WriteInHand(d)'
    <3>1. LiveMembers(g)' \subseteq LiveMembers(g) /\ members'[g] = members[g]
      BY <1>3, <2>2 DEF RosterInv, StudentsStay, LiveMembers, SameGroup
    <3> QED
      BY <1>2, <1>3, <2>1, <2>2, <3>1 DEF WriteInHand, SameGroup
  <2> QED
    BY <2>3, <2>4, <2>5
<1>5. groups'[g].exists /\ \A p \in RowsOf("student") : p \in RowsOf("student")'
  BY <1>3 DEF StudentsStay
<1>6. Data(f)' = d /\ \A at : At(f, at)' <=> At(f, at)
  BY <1>1, <1>2 DEF Data, At
<1> QED
  BY <1>1, <1>2, <1>3, <1>4, <1>5, <1>6 DEF GroupAtWork

LEMMA SheetLength ==
    ASSUME NEW sheet \in Sheets
    PROVE  sheet \in Seq([student : Students0, status : Statuses]) /\ Len(sheet) \in Nat \ {0}
<1>1. sheet \in Seq([student : Students0, status : Statuses]) /\ sheet # <<>>
  BY SchoolAssumption
<1> QED
  BY <1>1

LEMMA SheetEntry ==
    ASSUME NEW sheet \in Sheets, NEW i \in 1 .. Len(sheet)
    PROVE  sheet[i].student \in People /\ sheet[i].status \in Statuses
<1>1. sheet[i] \in [student : Students0, status : Statuses]
  <2>1. sheet \in Seq([student : Students0, status : Statuses]) /\ Len(sheet) \in Nat
    BY SheetLength
  <2> QED
    BY <2>1, ElementOfSeq
<1>2. Students0 \subseteq People
  BY SchoolAssumption
<1> QED
  BY <1>1, <1>2

\* A sheet has at most one entry for a student.
LEMMA SheetOnce ==
    ASSUME NEW sheet \in Sheets, NEW i \in 1 .. Len(sheet), NEW j \in 1 .. Len(sheet),
           sheet[i].student = sheet[j].student
    PROVE  i = j
<1>1. DOMAIN sheet = 1 .. Len(sheet)
  BY SheetLength
<1> QED
  BY <1>1, SchoolAssumption

\* Rows of attendance stay; those of a group and a day only change with that sheet.
LEMMA OthersOnMarks ==
    ASSUME MarksInv, NEW h \in Handlers, Passes(h),
           \A slot \in Slots : DOMAIN attendance[slot] \subseteq DOMAIN attendance'[slot],
           \A g \in Groups, s \in People, day \in Days :
             attendance'[<<g, s, day>>] = attendance[<<g, s, day>>] \/ Only(h, <<"marks", g, day>>)
    PROVE  \A f \in Handlers \ {h} : MarkingAtWork(f)'
<1> SUFFICES ASSUME NEW f \in Handlers \ {h}, At(f, "look") \/ At(f, "put")
             PROVE  MarkingAtWork(f)'
  BY DEF Passes, MarkingAtWork, At
<1>1. /\ MarkingAtWork(f) /\ crossed \subseteq crossed'
      /\ task'[f].at = task[f].at /\ task'[f].on = task[f].on /\ task'[f].data = task[f].data
  BY DEF Passes, MarksInv
<1>2. PICK d : d = Data(f)
  OBVIOUS
<1> DEFINE on == <<"marks", d.group, d.day>>
<1>3. /\ d = [group |-> d.group, day |-> d.day, sheet |-> d.sheet, next |-> d.next,
              staged |-> d.staged]
      /\ d.group \in Groups /\ d.day \in Days /\ d.sheet \in Sheets
      /\ task[f].on = on
      /\ d.next \in 1 .. Len(d.sheet)
      /\ d.staged \in Seq(Nat)
      /\ Len(d.staged) = IF At(f, "look") THEN d.next - 1 ELSE d.next
      /\ \A i \in 1 .. Len(d.staged) :
           /\ d.staged[i] = 0 \/ d.staged[i] \in DOMAIN attendance[Slot(d, i)]
           /\ on \notin crossed /\ d.staged[i] = 0 => attendance[Slot(d, i)] = <<>>
  BY <1>1, <1>2 DEF MarkingAtWork
<1>4. ASSUME NEW i \in 1 .. Len(d.staged)
      PROVE  /\ d.staged[i] = 0 \/ d.staged[i] \in DOMAIN attendance'[Slot(d, i)]
             /\ on \notin crossed' /\ d.staged[i] = 0 => attendance'[Slot(d, i)] = <<>>
  <2>1. PICK s \in People : Slot(d, i) = <<d.group, s, d.day>> /\ Slot(d, i) \in Slots
    <3>1. i \in 1 .. Len(d.sheet)
      <4>1. Len(d.sheet) \in Nat
        BY <1>3, SheetLength
      <4> QED
        BY <1>3, <4>1
    <3>2. d.sheet[i].student \in People
      BY <1>3, <3>1, SheetEntry
    <3> QED
      BY <1>3, <3>2 DEF Slot, Slots
  <2>2. ASSUME on \notin crossed' PROVE attendance'[Slot(d, i)] = attendance[Slot(d, i)]
    BY <1>1, <1>3, <2>1, <2>2 DEF Only, Busy, At
  <2> QED
    BY <1>1, <1>3, <2>1, <2>2
<1>5. Data(f)' = d /\ \A at : At(f, at)' <=> At(f, at)
  BY <1>1, <1>2 DEF Data, At
<1>6. Len(d.staged) = IF At(f, "look")' THEN d.next - 1 ELSE d.next
  BY <1>3, <1>5
<1> QED
  BY <1>1, <1>3, <1>4, <1>5, <1>6 DEF MarkingAtWork, Slot

LEMMA OthersOnEnrolments ==
    ASSUME EnrolInv, NEW h \in Handlers, Passes(h)
    PROVE  \A f \in Handlers \ {h} : EnrolAtWork(f)'
BY DEF EnrolInv, Passes, EnrolAtWork, At, Data
-----------------------------------------------------------------------------
(* Steps that leave one of the three parts alone.                          *)

LEMMA EnrolKept ==
    ASSUME EnrolInv, NEW h \in Handlers, Passes(h), EnrolAtWork(h)',
           enrolments' = enrolments, granted' = granted
    PROVE  EnrolInv'
<1>1. \A f \in Handlers : EnrolAtWork(f)'
  BY OthersOnEnrolments
<1> QED
  BY <1>1 DEF EnrolInv

LEMMA StudentsFinite ==
    ASSUME NEW kids, kids \subseteq RowsOf("student")
    PROVE  /\ IsFiniteSet(kids) /\ Cardinality(kids) \in Nat /\ kids # None
           /\ kids \in SUBSET People
<1>1. kids \subseteq People /\ IsFiniteSet(People)
  BY SchoolAssumption DEF RowsOf
<1>2. IsFiniteSet(kids) /\ Cardinality(kids) \in Nat
  BY <1>1, FS_Subset, FS_CardinalityType
<1>3. \A some \in SUBSET People : some # None
  BY SchoolAssumption
<1>4. kids # None
  BY <1>1, <1>3
<1> QED
  BY <1>1, <1>2, <1>4

LEMMA SizesOf ==
    ASSUME NEW all, NEW some, some \subseteq all, all \subseteq RowsOf("student")
    PROVE  /\ Cardinality(some) \in Nat /\ Cardinality(all) \in Nat
           /\ Cardinality(some) <= Cardinality(all)
  BY StudentsFinite, FS_Subset

LEMMA RosterOfKept ==
    ASSUME NEW g \in Groups, RosterOf(g), StudentsStay, crossed \subseteq crossed',
           wanted[g] \subseteq RowsOf("student"), members[g] \subseteq RowsOf("student"),
           groups[g].count \in Nat,
           groups'[g] = groups[g], members'[g] = members[g], wanted'[g] = wanted[g]
    PROVE  RosterOf(g)'
<1> SUFFICES ASSUME <<"groups", g>> \notin crossed'
             PROVE  /\ LiveMembers(g)' = wanted'[g] \cap Live("student")'
                    /\ groups'[g].count \in
                         Cardinality(LiveMembers(g)') .. Cardinality(members'[g]) + 1
  BY DEF RosterOf
<1>1. /\ members[g] \cap Live("student") = wanted[g] \cap Live("student")
      /\ groups[g].count \in Cardinality(LiveMembers(g)) .. Cardinality(members[g]) + 1
  BY DEF RosterOf, LiveMembers
<1>2. members[g] \cap Live("student")' = wanted[g] \cap Live("student")'
  BY <1>1 DEF StudentsStay
<1>3. PICK now, was : now = LiveMembers(g)' /\ was = LiveMembers(g)
  OBVIOUS
<1>4. now \subseteq was /\ was \subseteq RowsOf("student")
  BY <1>3 DEF StudentsStay, LiveMembers
<1>5. Cardinality(now) \in Nat /\ Cardinality(was) \in Nat /\ Cardinality(now) <= Cardinality(was)
  BY <1>4, SizesOf
<1>6. Cardinality(members[g]) \in Nat
  BY StudentsFinite
<1>7. groups[g].count \in Cardinality(now) .. Cardinality(members[g]) + 1
  BY <1>1, <1>3, <1>5, <1>6
<1> QED
  BY <1>2, <1>3, <1>7 DEF LiveMembers

LEMMA RosterKept ==
    ASSUME RosterInv, NEW h \in Handlers, Passes(h), StudentsStay, GroupAtWork(h)',
           groups' = groups, members' = members, wanted' = wanted
    PROVE  RosterInv'
<1>1. \A f \in Handlers : GroupAtWork(f)'
  BY OthersOnGroups DEF SameGroup
<1>2. \A g \in Groups : wanted[g] \subseteq RowsOf("student") /\ members[g] \subseteq RowsOf("student")
  BY DEF RosterInv
<1>5. \A g \in Groups : groups[g].count \in Nat
  BY DEF RosterInv, Group
<1>3. \A g \in Groups : RosterOf(g)'
  BY <1>2, <1>5, RosterOfKept DEF RosterInv, Passes
<1>4. RowsOf("student") \subseteq RowsOf("student")'
  BY DEF StudentsStay
<1> QED
  BY <1>1, <1>3, <1>4 DEF RosterInv

LEMMA InsertingIsFinite ==
    ASSUME NEW slot
    PROVE  IsFiniteSet(Inserting(slot)) /\ Cardinality(Inserting(slot)) \in Nat
<1>1. Inserting(slot) \subseteq Handlers
  BY DEF Inserting
<1> QED
  BY <1>1, SchoolAssumption, FS_Subset, FS_CardinalityType

LEMMA InsertingIsFiniteNext ==
    ASSUME NEW slot
    PROVE  /\ IsFiniteSet(Inserting(slot)') /\ Cardinality(Inserting(slot)') \in Nat
           /\ Cardinality(Inserting(slot)') <= Cardinality(Handlers)
<1>1. Inserting(slot)' \subseteq Handlers
  BY DEF Inserting
<1> QED
  BY <1>1, SchoolAssumption, FS_Subset, FS_CardinalityType

\* The transactions of the others stage nothing in a step of h.
LEMMA InsertingOfOthers ==
    ASSUME NEW h \in Handlers, Passes(h), NEW slot
    PROVE  Inserting(slot)' \ {h} \subseteq Inserting(slot)
<1>1. ASSUME NEW f \in Inserting(slot)', f # h PROVE f \in Inserting(slot)
  <2>1. f \in Handlers /\ task'[f].at = task[f].at /\ task'[f].data = task[f].data
    BY <1>1 DEF Inserting, Passes
  <2> QED
    BY <1>1, <2>1 DEF Inserting, At, Data, Slot
<1> QED
  BY <1>1

LEMMA InsertingShrinks ==
    ASSUME NEW h \in Handlers, Passes(h), NEW slot,
           h \in Inserting(slot)' => h \in Inserting(slot)
    PROVE  Cardinality(Inserting(slot)') <= Cardinality(Inserting(slot))
<1>1. Inserting(slot)' \subseteq Inserting(slot)
  BY InsertingOfOthers
<1> QED
  BY <1>1, InsertingIsFinite, FS_Subset

LEMMA MarksKept ==
    ASSUME MarksInv, NEW h \in Handlers, Passes(h), MarkingAtWork(h)',
           attendance' = attendance, marked' = marked,
           \A slot \in Slots :
             h \in Inserting(slot)' => h \in Inserting(slot) \/ attendance[slot] = <<>>
    PROVE  MarksInv'
<1>1. \A f \in Handlers : MarkingAtWork(f)'
  BY OthersOnMarks
<1>2. ASSUME NEW slot \in Slots PROVE CopiesFit(slot)'
  <2>1. Cardinality(Handlers) \in Nat
    BY SchoolAssumption, FS_CardinalityType
  <2>2. CASE h \in Inserting(slot)' => h \in Inserting(slot)
    <3>1. Cardinality(Inserting(slot)') <= Cardinality(Inserting(slot))
      BY <2>2, InsertingShrinks
    <3>2. Len(attendance[slot]) \in Nat /\ Cardinality(Inserting(slot)) \in Nat
          /\ Cardinality(Inserting(slot)') \in Nat
      <4>1. attendance[slot] \in Seq(Statuses)
        BY DEF MarksInv
      <4> QED
        BY <4>1, InsertingIsFinite, InsertingIsFiniteNext
    <3>3. Len(attendance[slot]) + Cardinality(Inserting(slot)) <= Cardinality(Handlers)
      BY DEF MarksInv, CopiesFit
    <3> HIDE DEF Inserting
    <3>4. Len(attendance[slot]) + Cardinality(Inserting(slot)') <= Cardinality(Handlers)
      BY <2>1, <3>1, <3>2, <3>3
    <3> QED
      BY <3>4 DEF CopiesFit
  <2>3. CASE attendance[slot] = <<>>
    <3>1. Cardinality(Inserting(slot)') \in Nat
          /\ Cardinality(Inserting(slot)') <= Cardinality(Handlers)
      BY InsertingIsFiniteNext
    <3>2. Len(attendance'[slot]) = 0
      BY <2>3
    <3>3. Len(attendance'[slot]) + Cardinality(Inserting(slot)') <= Cardinality(Handlers)
      BY <2>1, <3>1, <3>2
    <3> QED
      BY <3>3 DEF CopiesFit
  <2> QED
    BY <2>2, <2>3
<1>3. \A g \in Groups, s \in People, day \in Days : LatestMark(g, s, day)'
  BY DEF MarksInv, LatestMark, Passes
<1> QED
  BY <1>1, <1>2, <1>3 DEF MarksInv

\* The tables and the history that the three parts speak of.
records == <<groups, members, wanted, attendance, marked, enrolments, granted>>

CountersOK == arrived' \in Nat /\ failures' \in Nat /\ courses' \in [Courses -> {"live", "deleted"}]

LEMMA SamePeople == ASSUME people' = people PROVE StudentsStay
BY DEF StudentsStay, RowsOf, Live

LEMMA AwayFromEnrolments ==
    ASSUME NEW h \in Handlers, task'[h].at \notin {"lookUp", "enrol"} PROVE EnrolAtWork(h)'
BY DEF EnrolAtWork, At

LEMMA AwayFromGroups ==
    ASSUME NEW h \in Handlers, task'[h].at \notin {"member", "load", "softLoad", "write"}
    PROVE  GroupAtWork(h)'
BY DEF GroupAtWork, ChangesGroup, At

LEMMA AwayFromMarks ==
    ASSUME NEW h \in Handlers, task'[h].at \notin {"look", "put"}
    PROVE  MarkingAtWork(h)' /\ \A slot : h \notin Inserting(slot)'
<1>1. MarkingAtWork(h)'
  BY DEF MarkingAtWork, At
<1>2. \A slot : h \notin Inserting(slot)'
  BY DEF Inserting, At
<1> QED
  BY <1>1, <1>2

LEMMA RecordsKept ==
    ASSUME RecordsInv, NEW h \in Handlers, Passes(h), StudentsStay, CountersOK,
           records' = records,
           EnrolAtWork(h)', GroupAtWork(h)', MarkingAtWork(h)',
           \A slot \in Slots :
             h \in Inserting(slot)' => h \in Inserting(slot) \/ attendance[slot] = <<>>
    PROVE  RecordsInv'
<1>1. EnrolInv /\ RosterInv /\ MarksInv
  BY DEF RecordsInv
<1>2. /\ groups' = groups /\ members' = members /\ wanted' = wanted
      /\ attendance' = attendance /\ marked' = marked
      /\ enrolments' = enrolments /\ granted' = granted
  BY DEF records
<1>3. EnrolInv'
  BY <1>1, <1>2, EnrolKept
<1>4. RosterInv'
  BY <1>1, <1>2, RosterKept
<1>5. MarksInv'
  BY <1>1, <1>2, MarksKept
<1> QED
  BY <1>3, <1>4, <1>5 DEF RecordsInv, Passes, CountersOK

\* The request ends, or is about something else.
LEMMA RecordsLeft ==
    ASSUME RecordsInv, NEW h \in Handlers, Passes(h), StudentsStay, CountersOK,
           records' = records,
           task'[h].at \notin {"lookUp", "enrol", "member", "load", "softLoad", "write",
                               "look", "put"}
    PROVE  RecordsInv'
<1>1. EnrolAtWork(h)'
  BY AwayFromEnrolments
<1>2. GroupAtWork(h)'
  BY AwayFromGroups
<1>3. MarkingAtWork(h)' /\ \A slot : h \notin Inserting(slot)'
  BY AwayFromMarks
<1> QED
  BY <1>1, <1>2, <1>3, RecordsKept

LEMMA Counters ==
    ASSUME RecordsInv, courses' = courses,
           arrived' = arrived \/ arrived' = arrived + 1,
           failures' = failures \/ failures' = failures + 1
    PROVE  CountersOK
BY DEF CountersOK, RecordsInv

LEMMA RecordsFinish ==
    ASSUME Numbered, RecordsInv, NEW h \in Handlers, Busy(h), Finish(h),
           crossed \subseteq crossed', StudentsStay, CountersOK, records' = records
    PROVE  RecordsInv'
<1>1. Noted
  BY DEF RecordsInv
<1>2. Passes(h) /\ task'[h].at = "idle"
  BY <1>1, FinishPasses
<1> QED
  BY <1>2, RecordsLeft

LEMMA RecordsBegin ==
    ASSUME Numbered, RecordsInv, NEW h \in Handlers, ~Busy(h), NEW step, NEW on, NEW data,
           Begin(h, step, on, data), people' = people, CountersOK, records' = records,
           step \in {"count", "erase", "eraseCourse"}
    PROVE  RecordsInv'
<1>1. Noted
  BY DEF RecordsInv
<1>2. Passes(h) /\ task'[h].at = step
  BY <1>1, BeginPasses DEF Becomes
<1> QED
  BY <1>2, RecordsLeft, SamePeople
-----------------------------------------------------------------------------
(* People and courses.                                                     *)

LEMMA RecordsPersonFind ==
    ASSUME Numbered, RecordsInv, NEW h \in Handlers, NEW kind, PersonFind(h, kind)
    PROVE  RecordsInv'
<1>1. CountersOK
  BY Counters DEF PersonFind, Arrives, tables
<1>2. records' = records /\ people' = people /\ ~Busy(h)
  BY DEF PersonFind, Arrives, tables, records
<1> QED
  BY <1>1, <1>2, RecordsBegin DEF PersonFind

LEMMA RecordsDeletePerson ==
    ASSUME Numbered, RecordsInv, NEW h \in Handlers, DeletePerson(h) PROVE RecordsInv'
<1>1. PICK kind \in Kinds : \E p \in Live(kind) :
        Arrives(h, "delete-" \o kind) /\ Begin(h, "erase", <<"people", p>>, p)
  BY DEF DeletePerson
<1>2. CountersOK
  BY <1>1, Counters DEF DeletePerson, Arrives, tables
<1>3. records' = records /\ people' = people /\ ~Busy(h)
  BY <1>1 DEF DeletePerson, Arrives, tables, records
<1>4. PICK p : Begin(h, "erase", <<"people", p>>, p)
  BY <1>1
<1> QED
  BY <1>2, <1>3, <1>4, RecordsBegin

LEMMA RecordsDeleteCourse ==
    ASSUME Numbered, RecordsInv, NEW h \in Handlers, DeleteCourse(h) PROVE RecordsInv'
<1>1. CountersOK
  BY Counters DEF DeleteCourse, Arrives, tables
<1>2. records' = records /\ people' = people /\ ~Busy(h)
  BY DEF DeleteCourse, Arrives, tables, records
<1>3. PICK c \in LiveCourses : Begin(h, "eraseCourse", <<"courses", c>>, c)
  BY DEF DeleteCourse
<1> QED
  BY <1>1, <1>2, <1>3, RecordsBegin

LEMMA RecordsCodeCount ==
    ASSUME Numbered, RecordsInv, NEW h \in Handlers, CodeCount(h) PROVE RecordsInv'
<1>1. Busy(h) /\ Noted
  BY DEF CodeCount, At, Busy, RecordsInv
<1>2. GoesOn(h) /\ task'[h].at = "insert"
  BY <1>1, StepGoesOn DEF CodeCount
<1>3. CountersOK /\ records' = records /\ people' = people /\ crossed' = crossed
  <2>1. CountersOK
    BY Counters DEF CodeCount, tables
  <2> QED
    BY <2>1 DEF CodeCount, tables, history, records
<1>4. Passes(h)
  BY <1>1, <1>2, <1>3, GoesOnPasses
<1> QED
  BY <1>2, <1>3, <1>4, RecordsLeft, SamePeople

\* The row that is inserted was nobody's, and students stay.
LEMMA RecordsPersonInsert ==
    ASSUME Numbered, RecordsInv, NEW h \in Handlers, PersonInsert(h) PROVE RecordsInv'
<1>1. PICK p \in People :
        /\ people[p].kind = None
        /\ people' = [people EXCEPT ![p] =
             [kind |-> Data(h).kind, code |-> Data(h).code, deleted |-> FALSE]]
        /\ crossed' = IF task[h].alone THEN crossed ELSE crossed \cup {<<"code of", p>>}
  BY DEF PersonInsert
<1>2. None # "student"
  BY SchoolAssumption DEF Kinds
<1>3. StudentsStay
  <2>1. \A q \in RowsOf("student") : q \in People /\ q # p
    BY <1>1, <1>2 DEF RowsOf
  <2>2. \A q \in RowsOf("student") : people'[q] = people[q]
    BY <1>1, <2>1 DEF Numbered, PeopleOK
  <2> QED
    BY <2>1, <2>2 DEF StudentsStay, RowsOf, Live
<1>4. CountersOK /\ records' = records /\ Busy(h)
  <2>1. CountersOK
    BY Counters DEF PersonInsert
  <2> QED
    BY <2>1 DEF PersonInsert, records, At, Busy
<1>5. crossed \subseteq crossed'
  BY <1>1
<1> QED
  BY <1>3, <1>4, <1>5, RecordsFinish DEF PersonInsert

LEMMA RecordsPersonErase ==
    ASSUME Numbered, RecordsInv, NEW h \in Handlers, PersonErase(h) PROVE RecordsInv'
<1>1. people \in [People -> Person]
  BY DEF Numbered, PeopleOK
<1>2. people' = [people EXCEPT ![Data(h)] = [people[Data(h)] EXCEPT !.deleted = TRUE]]
  BY DEF PersonErase
<1>3. \A x \in Person : /\ [x EXCEPT !.deleted = TRUE].kind = x.kind
                        /\ [x EXCEPT !.deleted = TRUE].deleted = TRUE
  BY DEF Person
<1>4. \A q \in People : /\ people'[q].kind = people[q].kind
                        /\ people'[q] = people[q] \/ people'[q].deleted = TRUE
  BY <1>1, <1>2, <1>3
<1>5. StudentsStay
  BY <1>4 DEF StudentsStay, RowsOf, Live
<1>6. CountersOK /\ records' = records /\ Busy(h) /\ crossed' = crossed
  <2>1. CountersOK
    BY Counters DEF PersonErase
  <2> QED
    BY <2>1 DEF PersonErase, records, history, At, Busy
<1> QED
  BY <1>5, <1>6, RecordsFinish DEF PersonErase

LEMMA RecordsCourseErase ==
    ASSUME Numbered, RecordsInv, NEW h \in Handlers, CourseErase(h) PROVE RecordsInv'
<1>1. CountersOK
  BY DEF CourseErase, CountersOK, RecordsInv
<1>2. records' = records /\ Busy(h) /\ crossed' = crossed /\ people' = people
  BY DEF CourseErase, records, history, At, Busy
<1> QED
  BY <1>1, <1>2, RecordsFinish, SamePeople DEF CourseErase

LEMMA RecordsFailure ==
    ASSUME Numbered, RecordsInv, NEW h \in Handlers, HandlerFails(h) PROVE RecordsInv'
<1>1. CountersOK
  BY Counters DEF HandlerFails, tables
<1>2. records' = records /\ Busy(h) /\ crossed' = crossed /\ people' = people
  BY DEF HandlerFails, records, tables, history
<1> QED
  BY <1>1, <1>2, RecordsFinish, SamePeople DEF HandlerFails

LEMMA RecordsDeadlock ==
    ASSUME Numbered, RecordsInv, NEW h \in Handlers, MarkDeadlock(h) PROVE RecordsInv'
<1>1. CountersOK
  BY Counters DEF MarkDeadlock, tables
<1>2. records' = records /\ Busy(h) /\ crossed' = crossed /\ people' = people
  BY DEF MarkDeadlock, records, tables, history, At, Busy
<1> QED
  BY <1>1, <1>2, RecordsFinish, SamePeople DEF MarkDeadlock
-----------------------------------------------------------------------------
(* Enrolments.                                                             *)

LEMMA RecordsEnrolFind ==
    ASSUME Numbered, RecordsInv, NEW h \in Handlers, EnrolFind(h) PROVE RecordsInv'
<1>1. PICK c \in LiveCourses, s \in RowsOf("student") :
        Begin(h, "lookUp", <<"enrolments", s, c>>, <<s, c>>)
  BY DEF EnrolFind
<1>2. ~Busy(h) /\ Noted /\ records' = records /\ people' = people
  BY DEF EnrolFind, Arrives, RecordsInv, tables, records
<1>3. Passes(h) /\ task'[h].at = "lookUp" /\ task'[h].data = <<s, c>>
  BY <1>1, <1>2, BeginPasses DEF Becomes
<1>4. EnrolAtWork(h)'
  BY <1>3 DEF EnrolAtWork, Data, Pairs, LiveCourses, RowsOf
<1>5. GroupAtWork(h)'
  BY <1>3, AwayFromGroups
<1>6. MarkingAtWork(h)' /\ \A slot : h \notin Inserting(slot)'
  BY <1>3, AwayFromMarks
<1>7. CountersOK
  BY Counters DEF EnrolFind, Arrives, tables
<1> QED
  BY <1>2, <1>3, <1>4, <1>5, <1>6, <1>7, RecordsKept, SamePeople

LEMMA RecordsEnrolLook ==
    ASSUME Numbered, RecordsInv, NEW h \in Handlers, EnrolLook(h) PROVE RecordsInv'
<1>1. Busy(h) /\ Noted /\ records' = records /\ people' = people /\ crossed' = crossed
  BY DEF EnrolLook, At, Busy, RecordsInv, tables, history, records
<1>2. CountersOK
  BY Counters DEF EnrolLook, tables
<1>3. CASE Finish(h)
  BY <1>1, <1>2, <1>3, RecordsFinish, SamePeople
<1>4. CASE Step(h, "enrol", Data(h))
  <2>1. GoesOn(h) /\ task'[h].at = "enrol" /\ task'[h].data = Data(h)
    BY <1>1, <1>4, StepGoesOn
  <2>2. Passes(h)
    BY <1>1, <2>1, GoesOnPasses
  <2>3. EnrolAtWork(h)'
    BY <2>1 DEF EnrolLook, EnrolAtWork, Data, RecordsInv, EnrolInv
  <2>4. GroupAtWork(h)'
    BY <2>1, AwayFromGroups
  <2>5. MarkingAtWork(h)' /\ \A slot : h \notin Inserting(slot)'
    BY <2>1, AwayFromMarks
  <2> QED
    BY <1>1, <1>2, <2>2, <2>3, <2>4, <2>5, RecordsKept, SamePeople
<1> QED
  BY <1>3, <1>4 DEF EnrolLook

\* Only a pair that is not there yet is inserted and answered with success.
LEMMA RecordsEnrolInsert ==
    ASSUME Numbered, RecordsInv, NEW h \in Handlers, EnrolInsert(h) PROVE RecordsInv'
<1>1. Busy(h) /\ Noted /\ people' = people /\ crossed' = crossed
  BY DEF EnrolInsert, At, Busy, RecordsInv
<1>2. CountersOK
  BY Counters DEF EnrolInsert
<1>3. Passes(h) /\ task'[h].at = "idle"
  BY <1>1, FinishPasses DEF EnrolInsert
<1>4. EnrolAtWork(h)'
  BY <1>3, AwayFromEnrolments
<1>5. GroupAtWork(h)'
  BY <1>3, AwayFromGroups
<1>6. MarkingAtWork(h)' /\ \A slot : h \notin Inserting(slot)'
  BY <1>3, AwayFromMarks
<1>7. RosterInv'
  BY <1>1, <1>3, <1>5, RosterKept, SamePeople DEF RecordsInv, EnrolInsert
<1>8. MarksInv'
  BY <1>1, <1>3, <1>6, MarksKept DEF RecordsInv, EnrolInsert
<1>9. EnrolInv'
  <2>1. \A f \in Handlers : EnrolAtWork(f)'
    BY <1>3, <1>4, OthersOnEnrolments DEF RecordsInv
  <2>2. /\ Data(h) \in Pairs /\ enrolments \subseteq Pairs
        /\ granted = [pair \in Pairs |-> IF pair \in enrolments THEN 1 ELSE 0]
    BY DEF RecordsInv, EnrolInv, EnrolAtWork, EnrolInsert
  <2>3. CASE Taken(Data(h))
    BY <2>1, <2>2, <2>3 DEF EnrolInsert, EnrolInv
  <2>4. CASE ~Taken(Data(h))
    <3>1. /\ enrolments' = enrolments \cup {Data(h)} /\ Data(h) \notin enrolments
          /\ granted' = [granted EXCEPT ![Data(h)] = granted[Data(h)] + 1]
      BY <2>4 DEF EnrolInsert, Taken
    <3>2. granted' = [pair \in Pairs |-> IF pair \in enrolments' THEN 1 ELSE 0]
      BY <2>2, <3>1
    <3> QED
      BY <2>1, <2>2, <3>1, <3>2 DEF EnrolInv
  <2> QED
    BY <2>3, <2>4
<1> QED
  BY <1>2, <1>3, <1>7, <1>8, <1>9 DEF RecordsInv, CountersOK, Passes
-----------------------------------------------------------------------------
(* Groups.                                                                 *)

\* The fields of a row one by one.
LEMMA GroupFields ==
    ASSUME NEW row \in Group
    PROVE  /\ row = [exists |-> row.exists, deleted |-> row.deleted, teacher |-> row.teacher,
                     count |-> row.count]
           /\ row.exists \in BOOLEAN /\ row.deleted \in BOOLEAN
           /\ row.teacher \in People \cup {None} /\ row.count \in Nat
BY DEF Group

LEMMA CountChanged ==
    ASSUME NEW row \in Group, NEW count \in Nat
    PROVE  /\ [row EXCEPT !.count = count] \in Group
           /\ [row EXCEPT !.count = count].exists = row.exists
           /\ [row EXCEPT !.count = count].count = count
BY DEF Group

LEMMA TeacherChanged ==
    ASSUME NEW row \in Group, NEW t \in People
    PROVE  /\ [row EXCEPT !.teacher = t] \in Group
           /\ [row EXCEPT !.teacher = t].exists = row.exists
           /\ [row EXCEPT !.teacher = t].count = row.count
BY DEF Group

LEMMA DeletedChanged ==
    ASSUME NEW row \in Group
    PROVE  /\ [row EXCEPT !.deleted = TRUE] \in Group
           /\ [row EXCEPT !.deleted = TRUE].exists = row.exists
           /\ [row EXCEPT !.deleted = TRUE].count = row.count
BY DEF Group

LEMMA LiveGroupIsThere ==
    ASSUME RecordsInv, NEW g \in LiveGroups
    PROVE  g \in Groups /\ groups[g].exists /\ groups[g] \in Group
BY DEF RecordsInv, RosterInv, LiveGroups

\* A request on a group begins with members in memory, or without.
LEMMA RecordsGroupFind ==
    ASSUME Numbered, RecordsInv, NEW h \in Handlers, ~Busy(h),
           NEW step \in {"member", "load", "softLoad"}, NEW g \in LiveGroups,
           NEW row \in Group, row.exists, NEW kids, NEW member,
           GroupFind(h, step, g, row, kids, member),
           people' = people, records' = records, CountersOK,
           IF kids = None THEN member = None /\ step # "member" /\ row.count = groups[g].count
           ELSE /\ kids \subseteq RowsOf("student") /\ member \in RowsOf("student")
                /\ MembersInHand(kids, member, g)
                /\ step # "softLoad"
                /\ step # "member" => row.count = Cardinality(kids)
    PROVE  RecordsInv'
<1>1. Noted
  BY DEF RecordsInv
<1>2. PICK d : d = [group |-> g, row |-> row, kids |-> kids, member |-> member, dirty |-> {}]
  OBVIOUS
<1>3. Passes(h) /\ Becomes(h, step, <<"groups", g>>, d)
  BY <1>1, <1>2, BeginPasses DEF GroupFind
<1>4. /\ d.group = g /\ d.row = row /\ d.kids = kids /\ d.member = member /\ d.dirty = {}
  BY <1>2
<1>5. /\ d = [group |-> g, row |-> d.row, kids |-> d.kids, member |-> d.member, dirty |-> {}]
  BY <1>2, <1>4
<1>6. /\ Data(h)' = d /\ task'[h].on = <<"groups", g>>
      /\ \A at : At(h, at)' <=> step = at
  BY <1>3 DEF Becomes, Data, At
<1>7. /\ g \in Groups /\ groups[g].exists /\ groups' = groups /\ members' = members
  BY LiveGroupIsThere DEF records
<1>8. RowsOf("student")' = RowsOf("student") /\ LiveMembers(g)' = LiveMembers(g)
  BY <1>7 DEF RowsOf, LiveMembers, Live
<1>9. kids # None => MembersInHand(kids, member, g)'
  BY <1>7, <1>8 DEF MembersInHand
<1>10. step # "member" => CountInHand(d)'
  BY <1>4, <1>7 DEF CountInHand
<1>11. GroupAtWork(h)'
  BY <1>4, <1>5, <1>6, <1>7, <1>8, <1>9, <1>10 DEF GroupAtWork
<1>12. EnrolAtWork(h)'
  BY <1>3, AwayFromEnrolments DEF Becomes
<1>13. MarkingAtWork(h)' /\ \A slot : h \notin Inserting(slot)'
  BY <1>3, AwayFromMarks DEF Becomes
<1> QED
  BY <1>3, <1>11, <1>12, <1>13, RecordsKept, SamePeople

LEMMA LiveMembersAreStudents ==
    ASSUME NEW g PROVE LiveMembers(g) \subseteq RowsOf("student") /\ LiveMembers(g) \subseteq members[g]
BY DEF LiveMembers, Live

LEMMA RecordsAddMember ==
    ASSUME Numbered, RecordsInv, NEW h \in Handlers, AddMember(h) PROVE RecordsInv'
<1>1. PICK g \in LiveGroups, s \in RowsOf("student") :
        GroupFind(h, "member", g, groups[g], LiveMembers(g), s)
  BY DEF AddMember
<1>2. CountersOK /\ records' = records /\ people' = people /\ ~Busy(h)
  <2>1. CountersOK
    BY Counters DEF AddMember, Arrives, tables
  <2> QED
    BY <2>1 DEF AddMember, Arrives, tables, records
<1>3. groups[g] \in Group /\ groups[g].exists
  BY LiveGroupIsThere
<1>4. LiveMembers(g) \subseteq RowsOf("student") /\ LiveMembers(g) # None
  BY LiveMembersAreStudents, StudentsFinite
<1>5. MembersInHand(LiveMembers(g), s, g)
  BY LiveMembersAreStudents DEF MembersInHand
<1> QED
  BY <1>1, <1>2, <1>3, <1>4, <1>5, RecordsGroupFind

LEMMA RecordsRemoveMember ==
    ASSUME Numbered, RecordsInv, NEW h \in Handlers, RemoveMember(h) PROVE RecordsInv'
<1>1. PICK g \in LiveGroups, s \in RowsOf("student") :
        GroupFind(h, "load", g, [groups[g] EXCEPT !.count = Cardinality(LiveMembers(g) \ {s})],
                  LiveMembers(g) \ {s}, s)
  BY DEF RemoveMember
<1>2. CountersOK /\ records' = records /\ people' = people /\ ~Busy(h)
  <2>1. CountersOK
    BY Counters DEF RemoveMember, Arrives, tables
  <2> QED
    BY <2>1 DEF RemoveMember, Arrives, tables, records
<1>3. PICK rest : rest = LiveMembers(g) \ {s}
  OBVIOUS
<1>4. rest \subseteq RowsOf("student") /\ rest # None /\ Cardinality(rest) \in Nat
  BY <1>3, LiveMembersAreStudents, StudentsFinite
<1>5. MembersInHand(rest, s, g)
  BY <1>3, LiveMembersAreStudents DEF MembersInHand
<1>6. PICK row : row = [groups[g] EXCEPT !.count = Cardinality(rest)]
  OBVIOUS
<1>7. row \in Group /\ row.exists /\ row.count = Cardinality(rest)
  BY <1>4, <1>6, LiveGroupIsThere, CountChanged
<1>8. GroupFind(h, "load", g, row, rest, s)
  BY <1>1, <1>3, <1>6
<1> QED
  BY <1>2, <1>4, <1>5, <1>7, <1>8, RecordsGroupFind

LEMMA RecordsEditGroup ==
    ASSUME Numbered, RecordsInv, NEW h \in Handlers, EditGroup(h) PROVE RecordsInv'
<1>1. PICK g \in LiveGroups :
        \/ \E t \in RowsOf("teacher") :
             GroupFind(h, "load", g, [groups[g] EXCEPT !.teacher = t], None, None)
        \/ GroupFind(h, "softLoad", g, [groups[g] EXCEPT !.deleted = TRUE], None, None)
  BY DEF EditGroup
<1>2. CountersOK /\ records' = records /\ people' = people /\ ~Busy(h)
  <2>1. CountersOK
    BY Counters DEF EditGroup, Arrives, tables
  <2> QED
    BY <2>1 DEF EditGroup, Arrives, tables, records
<1>3. groups[g] \in Group /\ groups[g].exists
  BY LiveGroupIsThere
<1>4. ASSUME NEW t \in RowsOf("teacher"),
             GroupFind(h, "load", g, [groups[g] EXCEPT !.teacher = t], None, None)
      PROVE  RecordsInv'
  <2>1. t \in People
    BY DEF RowsOf
  <2>2. PICK row : row = [groups[g] EXCEPT !.teacher = t]
    OBVIOUS
  <2>3. row \in Group /\ row.exists /\ row.count = groups[g].count
    BY <1>3, <2>1, <2>2, TeacherChanged
  <2>4. GroupFind(h, "load", g, row, None, None)
    BY <1>4, <2>2
  <2> QED
    BY <1>2, <2>3, <2>4, RecordsGroupFind
<1>5. ASSUME GroupFind(h, "softLoad", g, [groups[g] EXCEPT !.deleted = TRUE], None, None)
      PROVE  RecordsInv'
  <2>1. PICK row : row = [groups[g] EXCEPT !.deleted = TRUE]
    OBVIOUS
  <2>2. row \in Group /\ row.exists /\ row.count = groups[g].count
    BY <1>3, <2>1, DeletedChanged
  <2>3. GroupFind(h, "softLoad", g, row, None, None)
    BY <1>5, <2>1
  <2> QED
    BY <1>2, <2>2, <2>3, RecordsGroupFind
<1> QED
  BY <1>1, <1>4, <1>5

\* What GroupAtWork says, of the request's data.
LEMMA GroupHand ==
    ASSUME RecordsInv, NEW h \in Handlers, NEW d, d = Data(h), ChangesGroup(h)
    PROVE  /\ d.group \in Groups /\ groups[d.group].exists
           /\ groups[d.group] \in Group /\ groups[d.group].count \in Nat
           /\ task[h].on = <<"groups", d.group>>
           /\ d.row \in Group /\ d.row.exists
           /\ IF d.kids = None THEN d.member = None
              ELSE d.kids \subseteq RowsOf("student") /\ d.member \in RowsOf("student")
           /\ At(h, "softLoad") => d.kids = None
           /\ At(h, "write") => /\ d.kids = None => d.added = {} /\ d.gone = {}
                                /\ d.kids # None => d.added \subseteq d.kids
           /\ At(h, "member") =>
                /\ d = [group |-> d.group, row |-> d.row, kids |-> d.kids,
                        member |-> d.member, dirty |-> {}]
                /\ d.kids # None
           /\ <<"groups", d.group>> \notin crossed =>
                /\ d.kids # None => MembersInHand(d.kids, d.member, d.group)
                /\ ~At(h, "member") => CountInHand(d)
                /\ At(h, "write") => WriteInHand(d)
<1>1. GroupAtWork(h) /\ groups \in [Groups -> Group]
  BY DEF RecordsInv, RosterInv
<1>2. d.group \in Groups
  BY <1>1 DEF GroupAtWork
<1>3. groups[d.group] \in Group /\ groups[d.group].count \in Nat
  BY <1>1, <1>2, GroupFields
<1> QED
  BY <1>1, <1>3 DEF GroupAtWork

\* The request on a group takes its next step.
LEMMA RecordsGroupGoesOn ==
    ASSUME RecordsInv, NEW h \in Handlers, GoesOn(h), people' = people,
           records' = records, crossed' = crossed, CountersOK, GroupAtWork(h)',
           task'[h].at \in {"load", "write"}
    PROVE  RecordsInv'
<1>1. Passes(h)
  BY GoesOnPasses DEF RecordsInv
<1>2. EnrolAtWork(h)'
  BY AwayFromEnrolments
<1>3. MarkingAtWork(h)' /\ \A slot : h \notin Inserting(slot)'
  BY AwayFromMarks
<1> QED
  BY <1>1, <1>2, <1>3, RecordsKept, SamePeople

LEMMA RecordsMemberFind ==
    ASSUME Numbered, RecordsInv, NEW h \in Handlers, MemberFind(h) PROVE RecordsInv'
<1>1. /\ Busy(h) /\ At(h, "member") /\ ChangesGroup(h) /\ records' = records
      /\ people' = people /\ crossed' = crossed
  BY DEF MemberFind, At, Busy, ChangesGroup, tables, history, records
<1>2. CountersOK
  BY Counters DEF MemberFind, tables
<1>3. CASE Finish(h)
  BY <1>1, <1>2, <1>3, RecordsFinish, SamePeople
<1>4. CASE Step(h, "load", [Data(h) EXCEPT !.kids = @ \cup {Data(h).member},
                                           !.row.count = Cardinality(Data(h).kids) + 1])
  <2>1. PICK d, g, row, kids, member :
          d = Data(h) /\ g = d.group /\ row = d.row /\ kids = d.kids /\ member = d.member
    OBVIOUS
  <2>2. /\ g \in Groups /\ groups[g].exists /\ task[h].on = <<"groups", g>>
        /\ row \in Group /\ row.exists /\ kids # None
        /\ kids \subseteq RowsOf("student") /\ member \in RowsOf("student")
        /\ d = [group |-> g, row |-> row, kids |-> kids, member |-> member, dirty |-> {}]
        /\ <<"groups", g>> \notin crossed => MembersInHand(kids, member, g)
    BY <1>1, <2>1, GroupHand
  <2>3. PICK all, one, e :
          /\ all = kids \cup {member}
          /\ one = [row EXCEPT !.count = Cardinality(kids) + 1]
          /\ e = [group |-> g, row |-> one, kids |-> all, member |-> member, dirty |-> {}]
    OBVIOUS
  <2>4. [d EXCEPT !.kids = kids \cup {member}, !.row.count = Cardinality(kids) + 1] = e
    <3>1. PICK m : m = [group |-> g, row |-> row, kids |-> all, member |-> member, dirty |-> {}]
      OBVIOUS
    <3>2. [d EXCEPT !.kids = all] = m
      BY <2>2, <3>1
    <3>3. m.row = row
      BY <3>1
    <3>4. [m EXCEPT !.row = one] = e
      BY <2>3, <3>1
    <3>5. [m EXCEPT !.row.count = Cardinality(kids) + 1] = [m EXCEPT !.row = one]
      BY <2>3, <3>3
    <3>6. [d EXCEPT !.kids = all, !.row.count = Cardinality(kids) + 1]
            = [[d EXCEPT !.kids = all] EXCEPT !.row.count = Cardinality(kids) + 1]
      OBVIOUS
    <3> QED
      BY <2>3, <3>2, <3>4, <3>5, <3>6
  <2>5. Step(h, "load", e)
    BY <1>4, <2>1, <2>4
  <2>6. GoesOn(h) /\ task'[h].at = "load" /\ task'[h].data = e
    BY <1>1, <2>5, StepGoesOn
  <2>7. /\ all \subseteq RowsOf("student") /\ all # None /\ IsFiniteSet(kids)
        /\ Cardinality(kids) \in Nat /\ Cardinality(all) \in Nat
    BY <2>2, <2>3, StudentsFinite
  <2>8. one \in Group /\ one.exists /\ one.count = Cardinality(kids) + 1
    BY <2>2, <2>3, <2>7, CountChanged
  <2>9. one.count \in {Cardinality(all), Cardinality(all) + 1}
    <3>1. CASE member \in kids
      <4>1. all = kids
        BY <2>3, <3>1
      <4> QED
        BY <2>8, <4>1
    <3>2. CASE member \notin kids
      <4>1. Cardinality(all) = Cardinality(kids) + 1
        BY <2>3, <2>7, <3>2, FS_AddElement
      <4> QED
        BY <2>8, <4>1
    <3> QED
      BY <3>1, <3>2
  <2>10. <<"groups", g>> \notin crossed => MembersInHand(all, member, g)
    BY <2>2, <2>3 DEF MembersInHand
  <2>11. /\ e.group = g /\ e.row = one /\ e.kids = all /\ e.member = member
    BY <2>3
  <2>12. CountInHand(e)
    BY <2>7, <2>9, <2>11 DEF CountInHand
  <2>13. /\ RowsOf("student")' = RowsOf("student") /\ groups' = groups
         /\ MembersInHand(all, member, g)' <=> MembersInHand(all, member, g)
         /\ CountInHand(e)' <=> CountInHand(e)
    BY <1>1 DEF RowsOf, records, MembersInHand, LiveMembers, Live, CountInHand
  <2>14. /\ Data(h)' = e /\ task'[h].on = <<"groups", g>>
         /\ \A at : At(h, at)' <=> at = "load"
    BY <2>2, <2>6 DEF Data, At, GoesOn
  <2>15. GroupAtWork(h)'
    BY <1>1, <2>2, <2>7, <2>8, <2>10, <2>11, <2>12, <2>13, <2>14 DEF GroupAtWork
  <2> QED
    BY <1>1, <1>2, <2>6, <2>15, RecordsGroupGoesOn
<1> QED
  BY <1>3, <1>4 DEF MemberFind

\* The difference is taken of the rows as they are now.
LEMMA RecordsGroupLoad ==
    ASSUME Numbered, RecordsInv, NEW h \in Handlers, GroupLoad(h) PROVE RecordsInv'
<1>1. /\ Busy(h) /\ ChangesGroup(h) /\ ~At(h, "member") /\ ~At(h, "write")
      /\ records' = records /\ people' = people /\ crossed' = crossed
  BY DEF GroupLoad, At, Busy, ChangesGroup, tables, history, records
<1>2. CountersOK
  BY Counters DEF GroupLoad, tables
<1>3. PICK d, g, row, kids, member :
        d = Data(h) /\ g = d.group /\ row = d.row /\ kids = d.kids /\ member = d.member
  OBVIOUS
<1>4. /\ g \in Groups /\ groups[g].exists /\ task[h].on = <<"groups", g>>
      /\ row \in Group /\ row.exists
      /\ IF kids = None THEN member = None
         ELSE kids \subseteq RowsOf("student") /\ member \in RowsOf("student")
      /\ At(h, "softLoad") => kids = None
      /\ <<"groups", g>> \notin crossed =>
           (kids # None => MembersInHand(kids, member, g)) /\ CountInHand(d)
  BY <1>1, <1>3, GroupHand
<1>5. PICK dirty, added, gone :
        /\ dirty = IF At(h, "softLoad") THEN {"deleted"}
                   ELSE {f \in DOMAIN row : row[f] # groups[g][f]}
        /\ added = IF kids = None THEN {} ELSE kids \ LiveMembers(g)
        /\ gone = IF kids = None THEN {} ELSE LiveMembers(g) \ kids
  OBVIOUS
<1>6. PICK e : e = [group |-> g, row |-> row, kids |-> kids, member |-> member,
                    dirty |-> dirty, added |-> added, gone |-> gone]
  OBVIOUS
<1>7. Step(h, "write", e)
  BY <1>3, <1>5, <1>6 DEF GroupLoad, Added, Dropped
<1>8. GoesOn(h) /\ task'[h].at = "write" /\ task'[h].data = e
  BY <1>1, <1>7, StepGoesOn
<1>9. /\ e.group = g /\ e.row = row /\ e.kids = kids /\ e.member = member
      /\ e.dirty = dirty /\ e.added = added /\ e.gone = gone
  BY <1>6
<1>10. <<"groups", g>> \notin crossed => CountInHand(e) /\ WriteInHand(e)
  <2> SUFFICES ASSUME <<"groups", g>> \notin crossed PROVE CountInHand(e) /\ WriteInHand(e)
    OBVIOUS
  <2>1. CountInHand(e)
    BY <1>3, <1>4, <1>9 DEF CountInHand
  <2>2. row.count # groups[g].count => "count" \in dirty
    <3>1. CASE At(h, "softLoad")
      BY <1>4, <1>9, <2>1, <3>1 DEF CountInHand
    <3>2. CASE ~At(h, "softLoad")
      <4>1. "count" \in DOMAIN row
        BY <1>4 DEF Group
      <4> QED
        BY <1>5, <3>2, <4>1
    <3> QED
      BY <3>1, <3>2
  <2>3. LiveMembers(g) \subseteq members[g]
    BY LiveMembersAreStudents
  <2> QED
    BY <1>5, <1>9, <2>1, <2>2, <2>3 DEF WriteInHand
<1>11. /\ RowsOf("student")' = RowsOf("student") /\ groups' = groups
       /\ MembersInHand(kids, member, g)' <=> MembersInHand(kids, member, g)
       /\ CountInHand(e)' <=> CountInHand(e)
       /\ WriteInHand(e)' <=> WriteInHand(e)
  BY <1>1 DEF RowsOf, records, MembersInHand, LiveMembers, Live, CountInHand, WriteInHand
<1>12. /\ Data(h)' = e /\ task'[h].on = <<"groups", g>>
       /\ \A at : At(h, at)' <=> at = "write"
  BY <1>4, <1>8 DEF Data, At, GoesOn
<1>13. GroupAtWork(h)'
  BY <1>1, <1>4, <1>5, <1>9, <1>10, <1>11, <1>12 DEF GroupAtWork
<1> QED
  BY <1>1, <1>2, <1>8, <1>13, RecordsGroupGoesOn

\* A new group has no members and no request on it.
LEMMA RecordsCreateGroup ==
    ASSUME Numbered, RecordsInv, NEW h \in Handlers, CreateGroup(h) PROVE RecordsInv'
<1>1. PICK g \in Groups, t \in RowsOf("teacher") :
        /\ ~groups[g].exists
        /\ groups' = [groups EXCEPT ![g] = [NoGroup EXCEPT !.exists = TRUE, !.teacher = t]]
  BY DEF CreateGroup
<1>2. /\ people' = people /\ task' = task /\ crossed' = crossed /\ ~Busy(h) /\ Noted
      /\ EnrolInv /\ RosterInv /\ MarksInv
      /\ members' = members /\ wanted' = wanted /\ attendance' = attendance /\ marked' = marked
      /\ enrolments' = enrolments /\ granted' = granted
  BY DEF CreateGroup, Arrives, history, RecordsInv
<1>3. CountersOK
  BY Counters DEF CreateGroup, Arrives
<1>4. Passes(h) /\ StudentsStay /\ task'[h].at = "idle"
  BY <1>2, NoTaskPasses, SamePeople DEF Busy
<1>5. EnrolInv'
  BY <1>2, <1>4, AwayFromEnrolments, EnrolKept
<1>6. MarksInv'
  <2>1. MarkingAtWork(h)' /\ \A slot : h \notin Inserting(slot)'
    BY <1>4, AwayFromMarks
  <2> QED
    BY <1>2, <1>4, <2>1, MarksKept
<1>7. PICK new : new = [NoGroup EXCEPT !.exists = TRUE, !.teacher = t]
  OBVIOUS
<1>8. t \in People
  BY DEF RowsOf
<1>9. new \in Group /\ new.exists /\ new.count = NoGroup.count
  BY <1>7, <1>8 DEF Group, NoGroup
<1>10. groups' = [groups EXCEPT ![g] = new] /\ groups \in [Groups -> Group]
  BY <1>1, <1>2, <1>7 DEF RosterInv
<1>11. groups' \in [Groups -> Group]
       /\ groups'[g] = new /\ \A k \in Groups \ {g} : groups'[k] = groups[k]
  BY <1>9, <1>10
<1>12. \A f \in Handlers : GroupAtWork(f)'
  <2>1. \A k \in Groups : groups[k].exists => groups'[k].exists /\ SameGroup(k)
    BY <1>1, <1>2, <1>11 DEF SameGroup
  <2>2. \A f \in Handlers \ {h} : GroupAtWork(f)'
    BY <1>2, <1>4, <2>1, OthersOnGroups
  <2> QED
    BY <1>4, <2>2, AwayFromGroups
<1>13. ASSUME NEW k \in Groups PROVE RosterOf(k)'
  <2>1. wanted[k] \subseteq RowsOf("student") /\ members[k] \subseteq RowsOf("student") /\ RosterOf(k)
    BY <1>2 DEF RosterInv
  <2>2. groups'[k].count = groups[k].count
    <3>1. CASE k = g
      BY <1>1, <1>2, <1>9, <1>11, <3>1 DEF RosterInv
    <3>2. CASE k # g
      BY <1>11, <3>2
    <3> QED
      BY <3>1, <3>2
  <2>3. LiveMembers(k)' = LiveMembers(k) /\ Live("student")' = Live("student")
    BY <1>2 DEF LiveMembers, Live, RowsOf
  <2> QED
    BY <1>2, <2>1, <2>2, <2>3 DEF RosterOf
<1>14. RosterInv'
  <2>1. RowsOf("student")' = RowsOf("student")
    BY <1>2 DEF RowsOf
  <2>2. \A k \in Groups : ~groups'[k].exists => groups'[k] = NoGroup
    BY <1>2, <1>9, <1>11 DEF RosterInv
  <2> QED
    BY <1>2, <1>11, <1>12, <1>13, <2>1, <2>2 DEF RosterInv
<1> QED
  BY <1>3, <1>4, <1>5, <1>6, <1>14 DEF RecordsInv, CountersOK, Passes

\* A row that is written keeps what it must have, and takes the count that is dirty.
Written(old, row, dirty) == [f \in DOMAIN old |-> IF f \in dirty THEN row[f] ELSE old[f]]

LEMMA RowWritten ==
    ASSUME NEW old \in Group, NEW row \in Group, old.exists, row.exists, NEW dirty
    PROVE  /\ Written(old, row, dirty) \in Group /\ Written(old, row, dirty).exists
           /\ Written(old, row, dirty).count = IF "count" \in dirty THEN row.count ELSE old.count
<1> DEFINE new == Written(old, row, dirty)
<1>1. DOMAIN old = {"exists", "deleted", "teacher", "count"}
  BY DEF Group
<1>2. new = [f \in {"exists", "deleted", "teacher", "count"} |->
               IF f \in dirty THEN row[f] ELSE old[f]]
  BY <1>1 DEF Written
<1> HIDE DEF new
<1>3. /\ new.exists = (IF "exists" \in dirty THEN row.exists ELSE old.exists)
      /\ new.deleted = (IF "deleted" \in dirty THEN row.deleted ELSE old.deleted)
      /\ new.teacher = (IF "teacher" \in dirty THEN row.teacher ELSE old.teacher)
      /\ new.count = (IF "count" \in dirty THEN row.count ELSE old.count)
  BY <1>2
<1>4. new = [exists |-> new.exists, deleted |-> new.deleted, teacher |-> new.teacher,
             count |-> new.count]
  BY <1>2
<1>5. /\ new.exists \in BOOLEAN /\ new.deleted \in BOOLEAN
      /\ new.teacher \in People \cup {None} /\ new.count \in Nat
  BY <1>3, GroupFields
<1>6. new \in Group
  BY <1>4, <1>5 DEF Group
<1> QED
  BY <1>3, <1>6 DEF new

\* The members in memory, written to a group that nobody else changed, are its live
\* members; the rows of deleted students stay beside them.
LEMMA MembersWritten ==
    ASSUME NEW old, NEW kids, NEW added, NEW gone, NEW live, NEW set,
           set = (old \cup added) \ gone, kids \ old \subseteq added, added \subseteq kids,
           (old \cap live) \ kids \subseteq gone, gone \cap kids = {}
    PROVE  kids \subseteq set /\ set \cap live = kids \cap live
OBVIOUS

LEMMA WantedWritten ==
    ASSUME NEW old, NEW kids, NEW asked, NEW member, NEW live,
           old \cap live = asked \cap live,
           (old \cap live) \ {member} \subseteq kids, kids \ {member} \subseteq old
    PROVE  /\ member \in kids => kids \cap live = (asked \cup {member}) \cap live
           /\ member \notin kids => kids \cap live = (asked \ {member}) \cap live
OBVIOUS

LEMMA RecordsGroupWrite ==
    ASSUME Numbered, RecordsInv, NEW h \in Handlers, GroupWrite(h) PROVE RecordsInv'
<1>1. /\ Busy(h) /\ At(h, "write") /\ ~At(h, "member") /\ ChangesGroup(h) /\ Noted /\ Finish(h)
      /\ people' = people /\ crossed' = crossed
      /\ attendance' = attendance /\ marked' = marked
      /\ enrolments' = enrolments /\ granted' = granted
      /\ EnrolInv /\ RosterInv /\ MarksInv
  BY DEF GroupWrite, At, Busy, ChangesGroup, RecordsInv
<1>2. CountersOK
  BY Counters DEF GroupWrite
<1>3. PICK d, g, row, kids, member :
        d = Data(h) /\ g = d.group /\ row = d.row /\ kids = d.kids /\ member = d.member
  OBVIOUS
<1>4. CASE d.added \cap members[g] # {}
  <2>1. records' = records
    BY <1>1, <1>3, <1>4 DEF GroupWrite, records
  <2> QED
    BY <1>1, <1>2, <2>1, RecordsFinish, SamePeople
<1>5. CASE ~(d.added \cap members[g] # {})
  <2>1. /\ groups' = [groups EXCEPT ![g] =
              [f \in DOMAIN groups[g] |-> IF f \in d.dirty THEN row[f] ELSE groups[g][f]]]
        /\ members' = [members EXCEPT ![g] = (members[g] \cup d.added) \ d.gone]
        /\ wanted' = IF member = None THEN wanted
                     ELSE [wanted EXCEPT ![g] = IF member \in kids THEN wanted[g] \cup {member}
                                                ELSE wanted[g] \ {member}]
    BY <1>3, <1>5 DEF GroupWrite
  <2>2. /\ g \in Groups /\ groups[g].exists /\ groups[g] \in Group /\ groups[g].count \in Nat
        /\ task[h].on = <<"groups", g>> /\ row \in Group /\ row.exists
        /\ IF kids = None THEN member = None
           ELSE kids \subseteq RowsOf("student") /\ member \in RowsOf("student")
        /\ kids = None => d.added = {} /\ d.gone = {}
        /\ kids # None => d.added \subseteq kids
        /\ <<"groups", g>> \notin crossed =>
             (kids # None => MembersInHand(kids, member, g)) /\ CountInHand(d) /\ WriteInHand(d)
    BY <1>1, <1>3, GroupHand
  <2>3. /\ groups \in [Groups -> Group]
        /\ members \in [Groups -> SUBSET RowsOf("student")]
        /\ wanted \in [Groups -> SUBSET RowsOf("student")]
        /\ \A k \in Groups : ~groups[k].exists => groups[k] = NoGroup
        /\ \A k \in Groups : RosterOf(k)
    BY <1>1 DEF RosterInv
  <2>4. PICK new : new = Written(groups[g], row, d.dirty)
    OBVIOUS
  <2>5. /\ new \in Group /\ new.exists
        /\ new.count = IF "count" \in d.dirty THEN row.count ELSE groups[g].count
    BY <2>2, <2>4, RowWritten
  <2>6. PICK set : set = (members[g] \cup d.added) \ d.gone
    OBVIOUS
  <2>7. set \subseteq RowsOf("student")
    BY <2>2, <2>3, <2>6
  <2>8. PICK asked : asked = IF member = None THEN wanted[g]
                             ELSE IF member \in kids THEN wanted[g] \cup {member}
                             ELSE wanted[g] \ {member}
    OBVIOUS
  <2>9. None \notin RowsOf("student")
    BY SchoolAssumption DEF RowsOf
  <2>10. asked \subseteq RowsOf("student")
    <3>1. wanted[g] \subseteq RowsOf("student")
      BY <2>2, <2>3
    <3>2. member # None => member \in RowsOf("student")
      BY <2>2
    <3> QED
      BY <2>8, <3>1, <3>2
  <2>11. groups' = [groups EXCEPT ![g] = new] /\ members' = [members EXCEPT ![g] = set]
    BY <2>1, <2>4, <2>6 DEF Written
  <2>12. wanted' = [wanted EXCEPT ![g] = asked]
    <3>1. [wanted EXCEPT ![g] = wanted[g]] = wanted
      BY <2>3
    <3>2. CASE member = None
      BY <2>1, <2>8, <3>1, <3>2
    <3>3. CASE member # None
      <4>1. wanted' = [wanted EXCEPT ![g] = IF member \in kids THEN wanted[g] \cup {member}
                                            ELSE wanted[g] \ {member}]
        BY <2>1, <3>3
      <4> QED
        BY <2>8, <3>3, <4>1
    <3> QED
      BY <3>2, <3>3
  <2>13. /\ groups' \in [Groups -> Group]
         /\ members' \in [Groups -> SUBSET RowsOf("student")]
         /\ wanted' \in [Groups -> SUBSET RowsOf("student")]
         /\ groups'[g] = new /\ members'[g] = set /\ wanted'[g] = asked
         /\ \A k \in Groups \ {g} : /\ groups'[k] = groups[k] /\ members'[k] = members[k]
                                    /\ wanted'[k] = wanted[k]
    BY <2>2, <2>3, <2>5, <2>7, <2>10, <2>11, <2>12
  <2>14. Passes(h) /\ task'[h].at = "idle" /\ Only(h, <<"groups", g>>) /\ StudentsStay
    BY <1>1, <2>2, FinishPasses, SamePeople
  <2>15. \A f \in Handlers : GroupAtWork(f)'
    <3>1. \A k \in Groups : groups[k].exists =>
            groups'[k].exists /\ (SameGroup(k) \/ Only(h, <<"groups", k>>))
      BY <2>5, <2>13, <2>14 DEF SameGroup
    <3>2. \A f \in Handlers \ {h} : GroupAtWork(f)'
      BY <1>1, <2>14, <3>1, OthersOnGroups
    <3> QED
      BY <2>14, <3>2, AwayFromGroups
  <2>16. Live("student")' = Live("student") /\ RowsOf("student")' = RowsOf("student")
    BY <1>1 DEF Live, RowsOf
  <2>17. ASSUME <<"groups", g>> \notin crossed
         PROVE  /\ set \cap Live("student") = asked \cap Live("student")
                /\ new.count \in Cardinality(set \cap Live("student")) .. Cardinality(set) + 1
    <3>1. /\ members[g] \cap Live("student") = wanted[g] \cap Live("student")
          /\ groups[g].count \in Cardinality(members[g] \cap Live("student")) ..
                                 Cardinality(members[g]) + 1
      BY <2>2, <2>3, <2>17 DEF RosterOf, LiveMembers
    <3>2. new.count = row.count
      BY <1>3, <2>2, <2>5, <2>17 DEF WriteInHand
    <3>3. CASE kids = None
      <4>1. set = members[g] /\ asked = wanted[g]
        BY <2>2, <2>6, <2>8, <3>3
      <4>2. row.count = groups[g].count
        BY <1>3, <2>2, <2>17, <3>3 DEF CountInHand
      <4> QED
        BY <3>1, <3>2, <4>1, <4>2
    <3>4. CASE kids # None
      <4>1. /\ kids \ members[g] \subseteq d.added /\ d.added \subseteq kids
            /\ (members[g] \cap Live("student")) \ kids \subseteq d.gone
            /\ d.gone \cap kids = {}
        BY <1>3, <2>2, <2>17, <3>4 DEF WriteInHand, LiveMembers
      <4>2. kids \subseteq set /\ set \cap Live("student") = kids \cap Live("student")
        BY <2>6, <4>1, MembersWritten
      <4>3. /\ Cardinality(kids) \in Nat /\ Cardinality(set) \in Nat
            /\ Cardinality(kids) <= Cardinality(set)
        BY <2>7, <4>2, SizesOf
      <4>4. /\ Cardinality(kids \cap Live("student")) \in Nat
            /\ Cardinality(kids \cap Live("student")) <= Cardinality(kids)
        <5>1. kids \cap Live("student") \subseteq kids /\ kids \subseteq RowsOf("student")
          BY <2>7, <4>2
        <5> QED
          BY <5>1, SizesOf
      <4>5. row.count \in {Cardinality(kids), Cardinality(kids) + 1}
        BY <1>3, <2>2, <2>17, <3>4 DEF CountInHand
      <4>6. row.count \in Cardinality(kids \cap Live("student")) .. Cardinality(set) + 1
        BY <4>5, <4>3, <4>4
      <4>7. /\ (members[g] \cap Live("student")) \ {member} \subseteq kids
            /\ kids \ {member} \subseteq members[g]
        BY <2>2, <2>17, <3>4 DEF MembersInHand, LiveMembers
      <4>8. member # None
        BY <2>2, <2>9, <3>4
      <4>9. /\ member \in kids => kids \cap Live("student")
                                    = (wanted[g] \cup {member}) \cap Live("student")
            /\ member \notin kids => kids \cap Live("student")
                                    = (wanted[g] \ {member}) \cap Live("student")
        BY <3>1, <4>7, WantedWritten
      <4>10. kids \cap Live("student") = asked \cap Live("student")
        BY <2>8, <4>8, <4>9
      <4> QED
        BY <3>2, <4>2, <4>10, <4>6
    <3> QED
      BY <3>3, <3>4
  <2>18. ASSUME NEW k \in Groups PROVE RosterOf(k)'
    <3>1. CASE k = g
      BY <1>1, <2>13, <2>16, <2>17, <3>1 DEF RosterOf, LiveMembers
    <3>2. CASE k # g
      BY <1>1, <2>3, <2>13, <2>16, <3>2 DEF RosterOf, LiveMembers
    <3> QED
      BY <3>1, <3>2
  <2>19. RosterInv'
    <3>1. \A k \in Groups : ~groups'[k].exists => groups'[k] = NoGroup
      BY <2>3, <2>5, <2>13
    <3> QED
      BY <2>13, <2>15, <2>16, <2>18, <3>1 DEF RosterInv
  <2>20. EnrolInv'
    BY <1>1, <2>14, AwayFromEnrolments, EnrolKept
  <2>21. MarksInv'
    <3>1. MarkingAtWork(h)' /\ \A slot : h \notin Inserting(slot)'
      BY <2>14, AwayFromMarks
    <3> QED
      BY <1>1, <2>14, <3>1, MarksKept
  <2> QED
    BY <1>2, <2>14, <2>19, <2>20, <2>21 DEF RecordsInv, CountersOK, Passes
<1> QED
  BY <1>4, <1>5
-----------------------------------------------------------------------------
(* Marks.                                                                  *)

LEMMA SlotIsSlot ==
    ASSUME NEW d, d.group \in Groups, d.day \in Days, d.sheet \in Sheets,
           NEW i \in 1 .. Len(d.sheet)
    PROVE  /\ Slot(d, i) = <<d.group, d.sheet[i].student, d.day>>
           /\ d.sheet[i].student \in People /\ d.sheet[i].status \in Statuses
           /\ Slot(d, i) \in Slots
BY SheetEntry DEF Slot, Slots

\* What MarkingAtWork says, of the request's data.
LEMMA MarkingHand ==
    ASSUME RecordsInv, NEW h \in Handlers, NEW d, d = Data(h), At(h, "look") \/ At(h, "put")
    PROVE  /\ d = [group |-> d.group, day |-> d.day, sheet |-> d.sheet, next |-> d.next,
                   staged |-> d.staged]
           /\ d.group \in Groups /\ d.day \in Days /\ d.sheet \in Sheets
           /\ task[h].on = <<"marks", d.group, d.day>>
           /\ Len(d.sheet) \in Nat \ {0} /\ d.next \in 1 .. Len(d.sheet)
           /\ d.staged \in Seq(Nat)
           /\ Len(d.staged) = IF At(h, "look") THEN d.next - 1 ELSE d.next
           /\ \A i \in 1 .. Len(d.staged) :
                /\ d.staged[i] = 0 \/ d.staged[i] \in DOMAIN attendance[Slot(d, i)]
                /\ <<"marks", d.group, d.day>> \notin crossed /\ d.staged[i] = 0 =>
                     attendance[Slot(d, i)] = <<>>
<1>1. MarkingAtWork(h)
  BY DEF RecordsInv, MarksInv
<1>2. d.sheet \in Sheets
  BY <1>1 DEF MarkingAtWork
<1>3. Len(d.sheet) \in Nat \ {0}
  BY <1>2, SheetLength
<1> QED
  BY <1>1, <1>3 DEF MarkingAtWork

LEMMA RecordsMarkFind ==
    ASSUME Numbered, RecordsInv, NEW h \in Handlers, MarkFind(h) PROVE RecordsInv'
<1>1. /\ ~Busy(h) /\ Noted /\ records' = records /\ people' = people
      /\ attendance' = attendance
  BY DEF MarkFind, Arrives, RecordsInv, tables, records
<1>2. CountersOK
  BY Counters DEF MarkFind, Arrives, tables
<1>3. PICK g \in LiveGroups, day \in Days, sheet \in Sheets :
        Begin(h, "look", <<"marks", g, day>>,
              [group |-> g, day |-> day, sheet |-> sheet, next |-> 1, staged |-> <<>>])
  BY DEF MarkFind
<1>4. PICK d : d = [group |-> g, day |-> day, sheet |-> sheet, next |-> 1, staged |-> <<>>]
  OBVIOUS
<1>5. Passes(h) /\ Becomes(h, "look", <<"marks", g, day>>, d)
  BY <1>1, <1>3, <1>4, BeginPasses
<1>6. d.group = g /\ d.day = day /\ d.sheet = sheet /\ d.next = 1 /\ d.staged = <<>>
  BY <1>4
<1>7. g \in Groups /\ Len(sheet) \in Nat \ {0}
  BY SheetLength DEF LiveGroups
<1>8. /\ Data(h)' = d /\ task'[h].on = <<"marks", g, day>> /\ \A at : At(h, at)' <=> at = "look"
  BY <1>5 DEF Becomes, Data, At
<1>9. <<>> \in Seq(Nat) /\ Len(<<>>) = 0
  OBVIOUS
<1>10. MarkingAtWork(h)'
  <2>1. 1 .. Len(d.staged) = {}
    BY <1>6, <1>9
  <2>2. 1 \in 1 .. Len(sheet) /\ Len(d.staged) = 1 - 1
    BY <1>6, <1>7, <1>9
  <2> QED
    BY <1>4, <1>6, <1>7, <1>8, <1>9, <2>1, <2>2 DEF MarkingAtWork
<1>11. \A slot : h \notin Inserting(slot)'
  <2>1. 1 .. Len(d.staged) = {}
    BY <1>6, <1>9
  <2> QED
    BY <1>8, <2>1 DEF Inserting
<1>12. EnrolAtWork(h)' /\ GroupAtWork(h)'
  BY <1>5, AwayFromEnrolments, AwayFromGroups DEF Becomes
<1> QED
  BY <1>1, <1>2, <1>5, <1>10, <1>11, <1>12, RecordsKept, SamePeople

\* The row found is staged; an insert is staged only where there is no row.
LEMMA RecordsMarkLook ==
    ASSUME Numbered, RecordsInv, NEW h \in Handlers, MarkLook(h) PROVE RecordsInv'
<1>1. /\ Busy(h) /\ At(h, "look") /\ Noted /\ records' = records /\ people' = people
      /\ attendance' = attendance /\ crossed' = crossed
  BY DEF MarkLook, At, Busy, RecordsInv, tables, history, records
<1>2. CountersOK
  BY Counters DEF MarkLook, tables
<1>3. PICK d : d = Data(h)
  OBVIOUS
<1> DEFINE on == <<"marks", d.group, d.day>>
<1>4. /\ d = [group |-> d.group, day |-> d.day, sheet |-> d.sheet, next |-> d.next,
              staged |-> d.staged]
      /\ d.group \in Groups /\ d.day \in Days /\ d.sheet \in Sheets
      /\ task[h].on = on
      /\ Len(d.sheet) \in Nat \ {0} /\ d.next \in 1 .. Len(d.sheet)
      /\ d.staged \in Seq(Nat) /\ Len(d.staged) = d.next - 1
      /\ \A i \in 1 .. Len(d.staged) :
           /\ d.staged[i] = 0 \/ d.staged[i] \in DOMAIN attendance[Slot(d, i)]
           /\ on \notin crossed /\ d.staged[i] = 0 => attendance[Slot(d, i)] = <<>>
  BY <1>1, <1>3, MarkingHand
<1>5. PICK row \in Found(Slot(d, d.next)) :
        Step(h, "put", [d EXCEPT !.staged = Append(d.staged, row)])
  BY <1>3 DEF MarkLook
<1>6. PICK staged, e :
        /\ staged = Append(d.staged, row)
        /\ e = [group |-> d.group, day |-> d.day, sheet |-> d.sheet, next |-> d.next,
                staged |-> staged]
  OBVIOUS
<1>7. /\ e.group = d.group /\ e.day = d.day /\ e.sheet = d.sheet /\ e.next = d.next
      /\ e.staged = staged /\ \A i : Slot(e, i) = Slot(d, i)
  BY <1>6 DEF Slot
<1>8. [d EXCEPT !.staged = staged] = e
  <2>1. PICK g, day, sheet, next, old :
          d = [group |-> g, day |-> day, sheet |-> sheet, next |-> next, staged |-> old]
    BY <1>4
  <2>2. [d EXCEPT !.staged = staged]
          = [group |-> g, day |-> day, sheet |-> sheet, next |-> next, staged |-> staged]
    BY <2>1
  <2>3. d.group = g /\ d.day = day /\ d.sheet = sheet /\ d.next = next
    BY <2>1
  <2>4. e = [group |-> d.group, day |-> d.day, sheet |-> d.sheet, next |-> d.next,
             staged |-> staged]
    BY <1>6
  <2> QED
    BY <2>2, <2>3, <2>4
<1>9. GoesOn(h) /\ task'[h].at = "put" /\ task'[h].data = e
  BY <1>1, <1>5, <1>6, <1>8, StepGoesOn
<1>10. Passes(h)
  BY <1>1, <1>9, GoesOnPasses
<1>11. Slot(d, d.next) \in Slots /\ attendance[Slot(d, d.next)] \in Seq(Statuses)
  <2>1. Slot(d, d.next) \in Slots
    BY <1>4, SlotIsSlot
  <2> QED
    BY <2>1 DEF RecordsInv, MarksInv
<1>12. /\ row \in Nat
       /\ row = 0 \/ row \in DOMAIN attendance[Slot(d, d.next)]
       /\ row = 0 => attendance[Slot(d, d.next)] = <<>>
  <2>1. CASE attendance[Slot(d, d.next)] = <<>>
    BY <2>1 DEF Found
  <2>2. CASE attendance[Slot(d, d.next)] # <<>>
    BY <1>11, <2>2 DEF Found
  <2> QED
    BY <2>1, <2>2
<1>13. /\ staged \in Seq(Nat) /\ Len(staged) = d.next
       /\ staged[d.next] = row /\ \A i \in 1 .. Len(d.staged) : staged[i] = d.staged[i]
       /\ \A i \in 1 .. Len(staged) : i \in 1 .. Len(d.staged) \/ i = d.next
  BY <1>4, <1>6, <1>12
<1>14. ASSUME NEW i \in 1 .. Len(staged)
       PROVE  /\ staged[i] = 0 \/ staged[i] \in DOMAIN attendance[Slot(d, i)]
              /\ on \notin crossed /\ staged[i] = 0 => attendance[Slot(d, i)] = <<>>
  BY <1>4, <1>12, <1>13
<1>15. /\ Data(h)' = e /\ task'[h].on = on /\ \A at : At(h, at)' <=> at = "put"
  BY <1>4, <1>9 DEF Data, At, GoesOn
<1>16. MarkingAtWork(h)'
  <2>1. \A i : Slot(e, i)' = Slot(d, i)
    BY <1>7 DEF Slot
  <2> QED
    BY <1>1, <1>4, <1>6, <1>7, <1>13, <1>14, <1>15, <2>1 DEF MarkingAtWork
<1>17. ASSUME NEW slot \in Slots, h \in Inserting(slot)'
       PROVE  h \in Inserting(slot) \/ attendance[slot] = <<>>
  <2>1. PICK i \in 1 .. Len(staged) : staged[i] = 0 /\ Slot(d, i) = slot
    BY <1>7, <1>15, <1>17 DEF Inserting, Slot
  <2>2. CASE i = d.next
    BY <1>12, <1>13, <2>1, <2>2
  <2>3. CASE i \in 1 .. Len(d.staged)
    BY <1>1, <1>3, <1>13, <2>1, <2>3 DEF Inserting
  <2> QED
    BY <1>13, <2>2, <2>3
<1>18. EnrolAtWork(h)' /\ GroupAtWork(h)'
  BY <1>9, AwayFromEnrolments, AwayFromGroups
<1> QED
  BY <1>1, <1>2, <1>10, <1>16, <1>17, <1>18, RecordsKept, SamePeople

LEMMA RecordsMarkNext ==
    ASSUME Numbered, RecordsInv, NEW h \in Handlers, At(h, "put"), records' = records,
           people' = people, crossed' = crossed, CountersOK,
           Data(h).next < Len(Data(h).sheet),
           Step(h, "look", [Data(h) EXCEPT !.next = @ + 1])
    PROVE  RecordsInv'
<1>1. Busy(h) /\ ~At(h, "look") /\ Noted /\ attendance' = attendance
  BY DEF At, Busy, RecordsInv, records
<1>2. PICK d : d = Data(h)
  OBVIOUS
<1> DEFINE on == <<"marks", d.group, d.day>>
<1>3. /\ d = [group |-> d.group, day |-> d.day, sheet |-> d.sheet, next |-> d.next,
              staged |-> d.staged]
      /\ d.group \in Groups /\ d.day \in Days /\ d.sheet \in Sheets
      /\ task[h].on = on
      /\ Len(d.sheet) \in Nat \ {0} /\ d.next \in 1 .. Len(d.sheet)
      /\ d.staged \in Seq(Nat) /\ Len(d.staged) = d.next
      /\ \A i \in 1 .. Len(d.staged) :
           /\ d.staged[i] = 0 \/ d.staged[i] \in DOMAIN attendance[Slot(d, i)]
           /\ on \notin crossed /\ d.staged[i] = 0 => attendance[Slot(d, i)] = <<>>
  BY <1>1, <1>2, MarkingHand
<1>4. PICK e : e = [group |-> d.group, day |-> d.day, sheet |-> d.sheet,
                    next |-> d.next + 1, staged |-> d.staged]
  OBVIOUS
<1>5. /\ e.group = d.group /\ e.day = d.day /\ e.sheet = d.sheet /\ e.next = d.next + 1
      /\ e.staged = d.staged /\ \A i : Slot(e, i) = Slot(d, i)
  BY <1>4 DEF Slot
<1>6. [d EXCEPT !.next = d.next + 1] = e
  BY <1>3, <1>4
<1>7. GoesOn(h) /\ task'[h].at = "look" /\ task'[h].data = e
  BY <1>1, <1>2, <1>6, StepGoesOn
<1>8. Passes(h)
  BY <1>1, <1>7, GoesOnPasses
<1>9. /\ Data(h)' = e /\ task'[h].on = on /\ \A at : At(h, at)' <=> at = "look"
  BY <1>3, <1>7 DEF Data, At, GoesOn
<1>10. d.next + 1 \in 1 .. Len(d.sheet) /\ Len(d.staged) = (d.next + 1) - 1
  BY <1>2, <1>3
<1>11. MarkingAtWork(h)'
  <2>1. \A i : Slot(e, i)' = Slot(d, i)
    BY <1>5 DEF Slot
  <2> QED
    BY <1>1, <1>3, <1>4, <1>5, <1>9, <1>10, <2>1 DEF MarkingAtWork
<1>12. ASSUME NEW slot \in Slots, h \in Inserting(slot)' PROVE h \in Inserting(slot)
  <2>1. PICK i \in 1 .. Len(d.staged) : d.staged[i] = 0 /\ Slot(d, i) = slot
    BY <1>5, <1>9, <1>12 DEF Inserting, Slot
  <2> QED
    BY <1>2, <2>1 DEF Inserting
<1>13. EnrolAtWork(h)' /\ GroupAtWork(h)'
  BY <1>7, AwayFromEnrolments, AwayFromGroups
<1> QED
  BY <1>8, <1>11, <1>12, <1>13, RecordsKept, SamePeople

\* A mark is stored as another row, or in the place of one.
LEMMA StoredRow ==
    ASSUME NEW rows \in Seq(Statuses), NEW row \in Nat, NEW status \in Statuses,
           row = 0 \/ row \in DOMAIN rows
    PROVE  /\ Stored(rows, row, status) \in Seq(Statuses)
           /\ Len(Stored(rows, row, status)) = IF row = 0 THEN Len(rows) + 1 ELSE Len(rows)
           /\ DOMAIN rows \subseteq DOMAIN Stored(rows, row, status)
           /\ row = 0 /\ rows = <<>> => Stored(rows, row, status) = <<status>>
           /\ \A x \in Statuses : row # 0 /\ rows = <<x>> => Stored(rows, row, status) = <<status>>
<1>1. CASE row = 0
  <2>1. Stored(rows, row, status) = Append(rows, status)
    BY <1>1 DEF Stored
  <2>2. Append(rows, status) \in Seq(Statuses) /\ Len(Append(rows, status)) = Len(rows) + 1
    OBVIOUS
  <2>3. DOMAIN rows \subseteq DOMAIN Append(rows, status)
    <3>1. Len(rows) \in Nat /\ DOMAIN rows = 1 .. Len(rows)
      OBVIOUS
    <3>2. DOMAIN Append(rows, status) = 1 .. (Len(rows) + 1)
      BY <2>2
    <3> QED
      BY <3>1, <3>2
  <2>4. rows = <<>> => Append(rows, status) = <<status>>
    OBVIOUS
  <2>5. PICK new : new = Append(rows, status)
    OBVIOUS
  <2>6. /\ Stored(rows, row, status) = new /\ new \in Seq(Statuses) /\ Len(new) = Len(rows) + 1
        /\ DOMAIN rows \subseteq DOMAIN new
        /\ rows = <<>> => new = <<status>>
    BY <2>1, <2>2, <2>3, <2>4, <2>5
  <2> QED
    BY <1>1, <2>6
<1>2. CASE row # 0
  <2>1. Stored(rows, row, status) = [rows EXCEPT ![row] = status] /\ row \in DOMAIN rows
    BY <1>2 DEF Stored
  <2>2. DOMAIN rows = 1 .. Len(rows) /\ Len(rows) \in Nat
    OBVIOUS
  <2>3. /\ [rows EXCEPT ![row] = status] \in Seq(Statuses)
        /\ Len([rows EXCEPT ![row] = status]) = Len(rows)
        /\ DOMAIN [rows EXCEPT ![row] = status] = DOMAIN rows
    BY <2>1, <2>2, ExceptSeq
  <2>4. ASSUME NEW x \in Statuses, rows = <<x>> PROVE [rows EXCEPT ![row] = status] = <<status>>
    BY <2>1, <2>4
  <2> QED
    BY <1>2, <2>1, <2>3, <2>4
<1> QED
  BY <1>1, <1>2

\* What the commit of d's sheet does to a slot: nothing, or it stores the mark of one entry.
Commits(d, slot) ==
    \/ attendance'[slot] = attendance[slot] /\ marked'[slot] = marked[slot]
    \/ \E i \in 1 .. Len(d.sheet) :
         /\ Slot(d, i) = slot
         /\ attendance'[slot] = Stored(attendance[slot], d.staged[i], d.sheet[i].status)
         /\ marked'[slot] = d.sheet[i].status

LEMMA RecordsMarkCommit ==
    ASSUME Numbered, RecordsInv, NEW h \in Handlers, MarkPut(h),
           ~(Data(h).next < Len(Data(h).sheet))
    PROVE  RecordsInv'
<1>1. /\ Busy(h) /\ At(h, "put") /\ ~At(h, "look") /\ Noted /\ Finish(h)
      /\ groups' = groups /\ members' = members /\ wanted' = wanted
      /\ enrolments' = enrolments /\ granted' = granted
      /\ people' = people /\ crossed' = crossed /\ EnrolInv /\ RosterInv /\ MarksInv
  BY DEF MarkPut, At, Busy, RecordsInv
<1>2. CountersOK
  BY Counters DEF MarkPut
<1>3. PICK d : d = Data(h)
  OBVIOUS
<1> DEFINE on == <<"marks", d.group, d.day>>
           IndexOf(slot) == {i \in DOMAIN d.sheet : Slot(d, i) = slot}
<1>4. /\ d.group \in Groups /\ d.day \in Days /\ d.sheet \in Sheets
      /\ task[h].on = on
      /\ Len(d.sheet) \in Nat \ {0} /\ d.next \in 1 .. Len(d.sheet)
      /\ d.staged \in Seq(Nat) /\ Len(d.staged) = d.next
      /\ \A i \in 1 .. Len(d.staged) :
           /\ d.staged[i] = 0 \/ d.staged[i] \in DOMAIN attendance[Slot(d, i)]
           /\ on \notin crossed /\ d.staged[i] = 0 => attendance[Slot(d, i)] = <<>>
  BY <1>1, <1>3, MarkingHand
<1>5. Len(d.staged) = Len(d.sheet) /\ DOMAIN d.sheet = 1 .. Len(d.sheet)
  <2>1. d.sheet \in Seq([student : Students0, status : Statuses])
    BY <1>4, SheetLength
  <2>2. Len(d.staged) = Len(d.sheet)
    BY <1>3, <1>4
  <2> QED
    BY <2>1, <2>2
<1>6. /\ attendance' = [slot \in Slots |->
           IF IndexOf(slot) = {} THEN attendance[slot]
           ELSE LET i == CHOOSE i \in IndexOf(slot) : TRUE
                IN  Stored(attendance[slot], d.staged[i], d.sheet[i].status)]
      /\ marked' = [slot \in Slots |->
           IF IndexOf(slot) = {} THEN marked[slot]
           ELSE d.sheet[CHOOSE i \in IndexOf(slot) : TRUE].status]
  BY <1>3 DEF MarkPut
<1>7. ASSUME NEW slot \in Slots PROVE Commits(d, slot)
  <2>1. CASE IndexOf(slot) = {}
    BY <1>6, <2>1 DEF Commits
  <2>2. CASE IndexOf(slot) # {}
    <3>1. PICK i : i = CHOOSE k \in IndexOf(slot) : TRUE
      OBVIOUS
    <3>2. i \in IndexOf(slot)
      BY <2>2, <3>1
    <3>3. i \in 1 .. Len(d.sheet) /\ Slot(d, i) = slot
      BY <1>5, <3>2
    <3> HIDE DEF IndexOf
    <3>4. /\ attendance'[slot] = Stored(attendance[slot], d.staged[i], d.sheet[i].status)
          /\ marked'[slot] = d.sheet[i].status
      BY <1>6, <2>2, <3>1
    <3> QED
      BY <3>3, <3>4 DEF Commits
  <2> QED
    BY <2>1, <2>2
<1>8. /\ attendance' = [slot \in Slots |-> attendance'[slot]]
      /\ marked' = [slot \in Slots |-> marked'[slot]]
  BY <1>6
<1> HIDE DEF IndexOf
<1>9. /\ attendance \in [Slots -> Seq(Statuses)]
      /\ marked \in [Slots -> Statuses \cup {None}]
  BY <1>1 DEF MarksInv
<1>10. ASSUME NEW slot \in Slots, NEW i \in 1 .. Len(d.sheet), Slot(d, i) = slot,
              attendance'[slot] = Stored(attendance[slot], d.staged[i], d.sheet[i].status)
       PROVE  /\ d.staged[i] \in Nat /\ d.sheet[i].status \in Statuses
              /\ attendance'[slot] \in Seq(Statuses)
              /\ Len(attendance'[slot])
                   = IF d.staged[i] = 0 THEN Len(attendance[slot]) + 1 ELSE Len(attendance[slot])
              /\ DOMAIN attendance[slot] \subseteq DOMAIN attendance'[slot]
              /\ d.staged[i] = 0 /\ attendance[slot] = <<>> =>
                   attendance'[slot] = <<d.sheet[i].status>>
              /\ \A x \in Statuses : d.staged[i] # 0 /\ attendance[slot] = <<x>> =>
                   attendance'[slot] = <<d.sheet[i].status>>
  <2>1. d.sheet[i].status \in Statuses
    BY <1>4, SheetEntry
  <2>2. d.staged[i] \in Nat /\ (d.staged[i] = 0 \/ d.staged[i] \in DOMAIN attendance[slot])
    BY <1>4, <1>5, <1>10
  <2>3. attendance[slot] \in Seq(Statuses)
    BY <1>9
  <2>4. PICK rows, row, status :
          rows = attendance[slot] /\ row = d.staged[i] /\ status = d.sheet[i].status
    OBVIOUS
  <2>5. /\ rows \in Seq(Statuses) /\ row \in Nat /\ status \in Statuses
        /\ row = 0 \/ row \in DOMAIN rows
    BY <2>1, <2>2, <2>3, <2>4
  <2>6. /\ Stored(rows, row, status) \in Seq(Statuses)
        /\ Len(Stored(rows, row, status)) = IF row = 0 THEN Len(rows) + 1 ELSE Len(rows)
        /\ DOMAIN rows \subseteq DOMAIN Stored(rows, row, status)
        /\ row = 0 /\ rows = <<>> => Stored(rows, row, status) = <<status>>
        /\ \A x \in Statuses : row # 0 /\ rows = <<x>> => Stored(rows, row, status) = <<status>>
    BY <2>5, StoredRow
  <2>7. attendance'[slot] = Stored(rows, row, status)
    BY <1>10, <2>4
  <2> QED
    BY <2>4, <2>5, <2>6, <2>7
<1>11. ASSUME NEW slot \in Slots
       PROVE  /\ attendance'[slot] \in Seq(Statuses) /\ marked'[slot] \in Statuses \cup {None}
              /\ DOMAIN attendance[slot] \subseteq DOMAIN attendance'[slot]
  <2>1. CASE attendance'[slot] = attendance[slot] /\ marked'[slot] = marked[slot]
    BY <1>9, <2>1
  <2>2. ASSUME NEW i \in 1 .. Len(d.sheet), Slot(d, i) = slot,
               attendance'[slot] = Stored(attendance[slot], d.staged[i], d.sheet[i].status),
               marked'[slot] = d.sheet[i].status
        PROVE  /\ attendance'[slot] \in Seq(Statuses) /\ marked'[slot] \in Statuses \cup {None}
               /\ DOMAIN attendance[slot] \subseteq DOMAIN attendance'[slot]
    BY <1>10, <2>2
  <2> QED
    BY <1>7, <2>1, <2>2 DEF Commits
<1>12. /\ attendance' \in [Slots -> Seq(Statuses)]
       /\ marked' \in [Slots -> Statuses \cup {None}]
  BY <1>8, <1>11
<1>13. Passes(h) /\ task'[h].at = "idle" /\ Only(h, on) /\ StudentsStay
  BY <1>1, <1>4, FinishPasses, SamePeople
<1>14. /\ EnrolAtWork(h)' /\ GroupAtWork(h)' /\ MarkingAtWork(h)'
       /\ \A slot : h \notin Inserting(slot)'
  BY <1>13, AwayFromEnrolments, AwayFromGroups, AwayFromMarks
<1>15. ASSUME NEW g \in Groups, NEW s \in People, NEW day \in Days, on # <<"marks", g, day>>
       PROVE  /\ attendance'[<<g, s, day>>] = attendance[<<g, s, day>>]
              /\ marked'[<<g, s, day>>] = marked[<<g, s, day>>]
  <2>1. <<g, s, day>> \in Slots
    BY DEF Slots
  <2>2. ASSUME NEW i \in 1 .. Len(d.sheet), Slot(d, i) = <<g, s, day>> PROVE FALSE
    BY <1>15, <2>2 DEF Slot
  <2> QED
    BY <1>7, <2>1, <2>2 DEF Commits
<1>16. \A f \in Handlers : MarkingAtWork(f)'
  <2>1. \A slot \in Slots : DOMAIN attendance[slot] \subseteq DOMAIN attendance'[slot]
    BY <1>11
  <2>2. \A g \in Groups, s \in People, day \in Days :
          attendance'[<<g, s, day>>] = attendance[<<g, s, day>>] \/ Only(h, <<"marks", g, day>>)
    BY <1>13, <1>15
  <2>3. \A f \in Handlers \ {h} : MarkingAtWork(f)'
    BY <1>1, <1>13, <2>1, <2>2, OthersOnMarks
  <2> QED
    BY <1>14, <2>3
<1>17. ASSUME NEW slot \in Slots PROVE CopiesFit(slot)'
  <2>1. /\ Cardinality(Handlers) \in Nat /\ Len(attendance[slot]) \in Nat
        /\ Cardinality(Inserting(slot)) \in Nat /\ Cardinality(Inserting(slot)') \in Nat
        /\ IsFiniteSet(Inserting(slot))
        /\ Len(attendance[slot]) + Cardinality(Inserting(slot)) <= Cardinality(Handlers)
    <3>1. attendance[slot] \in Seq(Statuses)
      BY <1>9
    <3>2. Cardinality(Handlers) \in Nat
      BY SchoolAssumption, FS_CardinalityType
    <3> QED
      BY <1>1, <3>1, <3>2, InsertingIsFinite, InsertingIsFiniteNext DEF MarksInv, CopiesFit
  <2>2. Cardinality(Inserting(slot)') <= Cardinality(Inserting(slot))
    BY <1>13, <1>14, InsertingShrinks
  <2>3. CASE Len(attendance'[slot]) = Len(attendance[slot])
    <3> HIDE DEF Inserting
    <3>1. Len(attendance'[slot]) + Cardinality(Inserting(slot)') <= Cardinality(Handlers)
      BY <2>1, <2>2, <2>3
    <3> QED
      BY <3>1 DEF CopiesFit
  <2>4. ASSUME NEW i \in 1 .. Len(d.sheet), Slot(d, i) = slot, d.staged[i] = 0,
               Len(attendance'[slot]) = Len(attendance[slot]) + 1
        PROVE  CopiesFit(slot)'
    <3>1. h \in Inserting(slot)
      BY <1>1, <1>3, <1>5, <2>4 DEF Inserting
    <3>2. Inserting(slot)' \subseteq Inserting(slot) \ {h}
      BY <1>13, <1>14, InsertingOfOthers
    <3> HIDE DEF Inserting
    <3>3. /\ IsFiniteSet(Inserting(slot) \ {h})
          /\ Cardinality(Inserting(slot) \ {h}) = Cardinality(Inserting(slot)) - 1
      BY <2>1, <3>1, FS_RemoveElement
    <3>4. Cardinality(Inserting(slot)') <= Cardinality(Inserting(slot) \ {h})
      BY <3>2, <3>3, FS_Subset
    <3>5. Len(attendance'[slot]) + Cardinality(Inserting(slot)') <= Cardinality(Handlers)
      BY <2>1, <2>4, <3>3, <3>4
    <3> QED
      BY <3>5 DEF CopiesFit
  <2>5. CASE attendance'[slot] = attendance[slot]
    BY <2>3, <2>5
  <2>6. ASSUME NEW i \in 1 .. Len(d.sheet), Slot(d, i) = slot,
               attendance'[slot] = Stored(attendance[slot], d.staged[i], d.sheet[i].status)
        PROVE  CopiesFit(slot)'
    <3>1. Len(attendance'[slot])
            = IF d.staged[i] = 0 THEN Len(attendance[slot]) + 1 ELSE Len(attendance[slot])
      BY <1>10, <2>6
    <3> QED
      BY <2>3, <2>4, <2>6, <3>1
  <2> QED
    BY <1>7, <2>5, <2>6 DEF Commits
<1>18. ASSUME NEW g \in Groups, NEW s \in People, NEW day \in Days PROVE LatestMark(g, s, day)'
  <2> SUFFICES ASSUME <<"marks", g, day>> \notin crossed
               PROVE  attendance'[<<g, s, day>>] =
                        IF marked'[<<g, s, day>>] = None THEN <<>> ELSE <<marked'[<<g, s, day>>]>>
    BY <1>1 DEF LatestMark
  <2>1. PICK slot \in Slots : slot = <<g, s, day>>
    BY DEF Slots
  <2>2. attendance[slot] = IF marked[slot] = None THEN <<>> ELSE <<marked[slot]>>
    BY <1>1, <2>1 DEF MarksInv, LatestMark
  <2>3. CASE attendance'[slot] = attendance[slot] /\ marked'[slot] = marked[slot]
    BY <2>1, <2>2, <2>3
  <2>4. ASSUME NEW i \in 1 .. Len(d.sheet), Slot(d, i) = slot,
               attendance'[slot] = Stored(attendance[slot], d.staged[i], d.sheet[i].status),
               marked'[slot] = d.sheet[i].status
        PROVE  attendance'[slot] = IF marked'[slot] = None THEN <<>> ELSE <<marked'[slot]>>
    <3>1. on = <<"marks", g, day>>
      BY <2>1, <2>4 DEF Slot
    <3>2. d.sheet[i].status \in Statuses /\ None \notin Statuses
      BY <1>4, SheetEntry, SchoolAssumption
    <3>3. CASE d.staged[i] = 0
      <4>1. attendance[slot] = <<>>
        BY <1>4, <1>5, <2>4, <3>1, <3>3
      <4>2. attendance'[slot] = <<d.sheet[i].status>>
        BY <1>10, <2>4, <3>3, <4>1
      <4> QED
        BY <2>4, <3>2, <4>2
    <3>4. CASE d.staged[i] # 0
      <4>1. d.staged[i] \in DOMAIN attendance[slot]
        BY <1>4, <1>5, <2>4, <3>4
      <4>2. marked[slot] # None /\ attendance[slot] = <<marked[slot]>> /\ marked[slot] \in Statuses
        BY <1>9, <2>2, <4>1
      <4>3. attendance'[slot] = <<d.sheet[i].status>>
        BY <1>10, <2>4, <3>4, <4>2
      <4> QED
        BY <2>4, <3>2, <4>3
    <3> QED
      BY <3>3, <3>4
  <2> QED
    BY <1>7, <2>1, <2>3, <2>4 DEF Commits
<1>19. MarksInv'
  BY <1>12, <1>16, <1>17, <1>18 DEF MarksInv
<1>20. EnrolInv'
  BY <1>1, <1>13, <1>14, EnrolKept
<1>21. RosterInv'
  BY <1>1, <1>13, <1>14, RosterKept
<1> QED
  BY <1>2, <1>13, <1>19, <1>20, <1>21 DEF RecordsInv, CountersOK, Passes

LEMMA RecordsMarkPut ==
    ASSUME Numbered, RecordsInv, NEW h \in Handlers, MarkPut(h) PROVE RecordsInv'
<1>1. CASE Data(h).next < Len(Data(h).sheet)
  <2>1. CountersOK
    BY Counters DEF MarkPut
  <2>2. /\ records' = records /\ people' = people /\ crossed' = crossed /\ At(h, "put")
        /\ Step(h, "look", [Data(h) EXCEPT !.next = @ + 1])
    BY <1>1 DEF MarkPut, records
  <2> QED
    BY <1>1, <2>1, <2>2, RecordsMarkNext
<1>2. CASE ~(Data(h).next < Len(Data(h).sheet))
  BY <1>2, RecordsMarkCommit
<1> QED
  BY <1>1, <1>2
-----------------------------------------------------------------------------
(* The actions of Next, and the theorems.                                  *)

LEMMA RecordsStep ==
    ASSUME Numbered, RecordsInv, [Next]_vars PROVE RecordsInv'
<1>1. ASSUME NEW h \in Handlers, Request(h) PROVE RecordsInv'
  <2>1. CASE CreateStudent(h)
    BY <2>1, RecordsPersonFind DEF CreateStudent
  <2>2. CASE CreateTeacher(h)
    BY <2>2, RecordsPersonFind DEF CreateTeacher
  <2> QED
    BY <1>1, <2>1, <2>2, RecordsDeletePerson, RecordsCreateGroup, RecordsEditGroup,
       RecordsAddMember, RecordsRemoveMember, RecordsMarkFind, RecordsDeleteCourse,
       RecordsEnrolFind DEF Request
<1>2. ASSUME NEW h \in Handlers, Proceed(h) PROVE RecordsInv'
  BY <1>2, RecordsCodeCount, RecordsPersonInsert, RecordsPersonErase, RecordsMemberFind,
     RecordsGroupLoad, RecordsGroupWrite, RecordsMarkLook, RecordsMarkPut, RecordsDeadlock,
     RecordsCourseErase, RecordsEnrolLook, RecordsEnrolInsert DEF Proceed
<1>3. CASE UNCHANGED vars
  <2>1. /\ records' = records /\ people' = people /\ task' = task /\ crossed' = crossed
        /\ EnrolInv /\ RosterInv /\ MarksInv /\ Noted
    BY <1>3 DEF vars, tables, history, records, RecordsInv
  <2>2. \A h : Data(h)' = Data(h) /\ task'[h].on = task[h].on /\ \A at : At(h, at)' <=> At(h, at)
    BY <2>1 DEF Data, At
  <2>3. /\ RowsOf("student")' = RowsOf("student") /\ Live("student")' = Live("student")
        /\ groups' = groups /\ members' = members /\ wanted' = wanted
        /\ attendance' = attendance /\ marked' = marked
        /\ enrolments' = enrolments /\ granted' = granted
    BY <2>1 DEF RowsOf, Live, records
  <2>4. CountersOK
    BY <1>3, Counters DEF vars, tables
  <2>5. EnrolInv'
    BY <2>1, <2>2, <2>3 DEF EnrolInv, EnrolAtWork
  <2>6. RosterInv'
    <3>1. \A h \in Handlers : GroupAtWork(h)'
      BY <2>1, <2>2, <2>3 DEF RosterInv, GroupAtWork, ChangesGroup, MembersInHand, LiveMembers,
         CountInHand, WriteInHand
    <3>2. \A g \in Groups : RosterOf(g)'
      BY <2>1, <2>3 DEF RosterInv, RosterOf, LiveMembers
    <3> QED
      BY <2>1, <2>3, <3>1, <3>2 DEF RosterInv
  <2>7. MarksInv'
    <3>1. \A h \in Handlers : MarkingAtWork(h)'
      BY <2>1, <2>2, <2>3 DEF MarksInv, MarkingAtWork, Slot
    <3>2. \A slot : Inserting(slot)' = Inserting(slot)
      BY <2>2 DEF Inserting, Slot
    <3> QED
      BY <2>1, <2>3, <3>1, <3>2 DEF MarksInv, CopiesFit, LatestMark
  <2>8. Noted'
    BY <2>1 DEF Noted, Busy
  <2> QED
    BY <2>4, <2>5, <2>6, <2>7, <2>8 DEF RecordsInv, CountersOK
<1>4. CASE \E h \in Handlers : HandlerFails(h)
  BY <1>4, RecordsFailure
<1> QED
  BY <1>1, <1>2, <1>3, <1>4 DEF Next

LEMMA InitRecords == Init => RecordsInv
<1> SUFFICES ASSUME Init PROVE RecordsInv
  OBVIOUS
<1>1. \A h \in Handlers : task[h] = Idle
  BY DEF Init
<1>2. ASSUME NEW h \in Handlers
      PROVE  ~Busy(h) /\ \A at : At(h, at) <=> at = "idle"
  BY <1>1 DEF Busy, At, Idle
<1>3. courses \in [Courses -> {"live", "deleted"}] /\ arrived \in Nat /\ failures \in Nat
  BY DEF Init
<1>4. Noted
  BY <1>2 DEF Noted
<1>5. EnrolInv
  <2>1. \A h \in Handlers : EnrolAtWork(h)
    BY <1>2 DEF EnrolAtWork
  <2> QED
    BY <2>1 DEF Init, EnrolInv
<1>6. RosterInv
  <2>1. \A h \in Handlers : GroupAtWork(h)
    BY <1>2 DEF GroupAtWork, ChangesGroup
  <2>2. NoGroup \in Group /\ NoGroup.count = 0
    BY DEF NoGroup, Group
  <2>3. \A g \in Groups : groups[g] = NoGroup /\ members[g] = {} /\ wanted[g] = {}
    BY DEF Init
  <2>4. Cardinality({}) = 0
    BY FS_EmptySet
  <2>5. ASSUME NEW g \in Groups PROVE RosterOf(g)
    <3>1. LiveMembers(g) = {} /\ members[g] = {} /\ wanted[g] = {} /\ groups[g].count = 0
      BY <2>2, <2>3 DEF LiveMembers
    <3>2. 0 \in Cardinality({}) .. Cardinality({}) + 1
      BY <2>4
    <3> QED
      BY <3>1, <3>2 DEF RosterOf
  <2> QED
    BY <2>1, <2>2, <2>5 DEF Init, RosterInv
<1>7. MarksInv
  <2>1. \A h \in Handlers : MarkingAtWork(h)
    BY <1>2 DEF MarkingAtWork
  <2>2. \A slot : Inserting(slot) = {}
    BY <1>2 DEF Inserting
  <2>3. /\ attendance = [slot \in Slots |-> <<>>] /\ marked = [slot \in Slots |-> None]
    BY DEF Init
  <2>4. /\ attendance \in [Slots -> Seq(Statuses)]
        /\ marked \in [Slots -> Statuses \cup {None}]
    BY <2>3
  <2>5. ASSUME NEW slot \in Slots PROVE CopiesFit(slot)
    <3>1. Cardinality({}) = 0 /\ Cardinality(Handlers) \in Nat
      BY FS_EmptySet, SchoolAssumption, FS_CardinalityType
    <3>2. attendance[slot] = <<>> /\ Len(<<>>) = 0
      BY <2>3
    <3> QED
      BY <2>2, <3>1, <3>2 DEF CopiesFit
  <2>6. ASSUME NEW g \in Groups, NEW s \in People, NEW day \in Days PROVE LatestMark(g, s, day)
    <3>1. <<g, s, day>> \in Slots
      BY DEF Slots
    <3> QED
      BY <2>3, <3>1 DEF LatestMark
  <2> QED
    BY <2>1, <2>4, <2>5, <2>6 DEF MarksInv
<1> QED
  BY <1>3, <1>4, <1>5, <1>6, <1>7 DEF RecordsInv

\* What every reachable state of the school satisfies.
SchoolInv == Numbered /\ RecordsInv

LEMMA SchoolInvariant == Spec => []SchoolInv
<1>1. Init => SchoolInv
  BY InitNumbered, InitRecords DEF SchoolInv
<1>2. SchoolInv /\ [Next]_vars => SchoolInv'
  BY NumberedStep, RecordsStep DEF SchoolInv
<1> QED
  BY <1>1, <1>2, PTL DEF Spec

\* Every row of the tables stays one of its table: codes, counts and statuses are of the
\* kind the columns declare, members are people, and enrolments name a person and a course.
THEOREM TypeCorrect == Spec => []TypeOK
<1>1. SchoolInv => TypeOK
  <2> SUFFICES ASSUME SchoolInv PROVE TypeOK
    OBVIOUS
  <2>1. /\ people \in [People -> Person] /\ RosterInv /\ MarksInv /\ EnrolInv
        /\ courses \in [Courses -> {"live", "deleted"}] /\ arrived \in Nat /\ failures \in Nat
    BY DEF SchoolInv, Numbered, PeopleOK, RecordsInv
  <2>2. members \in [Groups -> SUBSET People]
    <3>1. RowsOf("student") \subseteq People
      BY DEF RowsOf
    <3> QED
      BY <2>1, <3>1 DEF RosterInv
  <2> QED
    BY <2>1, <2>2 DEF TypeOK, RosterInv, MarksInv, EnrolInv
<1> QED
  BY <1>1, SchoolInvariant, PTL

\* A student is enrolled in a course by one request, whatever overlaps: those that did not
\* see the row run into the unique index on student and course.
THEOREM EnrolledOnceHolds == Spec => []EnrolledOnce
<1>1. SchoolInv => EnrolledOnce
  BY DEF SchoolInv, RecordsInv, EnrolInv, EnrolledOnce
<1> QED
  BY <1>1, SchoolInvariant, PTL

\* For any people, groups and requests: where no two requests on a group overlapped its
\* live members are those asked for, and the stored number is not below theirs and at
\* most one above that of the junction's rows, among which deleted students stay.
THEOREM RosterStandsHolds == Spec => []RosterStands
<1>1. SchoolInv => RosterStands
  BY DEF SchoolInv, RecordsInv, RosterInv, RosterOf, RosterStands
<1> QED
  BY <1>1, SchoolInvariant, PTL

\* Of a group and a day whose sheets did not overlap each student has the last status that
\* was answered; however sheets overlap, a student has at most as many rows for a day as
\* there can be requests at a time, for a transaction inserts only where it saw no row.
THEOREM MarksStandHolds == Spec => []MarksStand
<1>1. SchoolInv => MarksStand
  <2> SUFFICES ASSUME SchoolInv PROVE LatestMarkStands /\ MarkCopiesBounded
    BY DEF MarksStand
  <2>1. MarksInv
    BY DEF SchoolInv, RecordsInv
  <2>2. LatestMarkStands
    BY <2>1 DEF MarksInv, LatestMark, LatestMarkStands
  <2>3. ASSUME NEW slot \in Slots PROVE Len(attendance[slot]) <= Cardinality(Handlers)
    <3>1. attendance[slot] \in Seq(Statuses)
      BY <2>1 DEF MarksInv
    <3>2. Len(attendance[slot]) \in Nat /\ Cardinality(Inserting(slot)) \in Nat
          /\ Cardinality(Handlers) \in Nat
      BY <3>1, InsertingIsFinite, SchoolAssumption, FS_CardinalityType
    <3>3. Len(attendance[slot]) + Cardinality(Inserting(slot)) <= Cardinality(Handlers)
      BY <2>1 DEF MarksInv, CopiesFit
    <3> HIDE DEF Inserting
    <3> QED
      BY <3>2, <3>3
  <2> QED
    BY <2>2, <2>3 DEF MarkCopiesBounded
<1> QED
  BY <1>1, SchoolInvariant, PTL
=============================================================================
