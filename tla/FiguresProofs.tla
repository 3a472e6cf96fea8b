---------------------------- MODULE FiguresProofs ----------------------------
(* What the run checks of the figures that owner, admin, teachers, groups  *)
(* and students are shown, for every number of requests, rows, pages and   *)
(* months.  A report or a view keeps the answers that its tables still     *)
(* give until something is written, which an inductive invariant says;     *)
(* what the answers have to do with each other is then a matter of sums,   *)
(* counts and pages.                                                       *)
EXTENDS PlatformProofs, SumProofs, SequenceTheorems

\* A function that takes no two elements to the same one, and one to every element, leaves
\* the number of elements as it is.
LEMMA SameSize ==
    ASSUME NEW S, IsFiniteSet(S), NEW T, NEW f,
           \A x \in S : f[x] \in T,
           \A x, y \in S : f[x] = f[y] => x = y,
           \A t \in T : \E x \in S : f[x] = t
    PROVE  IsFiniteSet(T) /\ Cardinality(T) = Cardinality(S)
<1> DEFINE g == [x \in S |-> f[x]]
<1>1. g \in Bijection(S, T)
  BY DEF Bijection, Injection, Surjection, IsInjective
<1>2. ExistsBijection(S, T)
  BY <1>1 DEF ExistsBijection
<1> QED
  BY <1>2, FS_Bijection

\* Ranks from 0 on that no two elements share are all taken.
LEMMA RanksTaken ==
    ASSUME NEW S, IsFiniteSet(S), NEW r, \A x \in S : r[x] \in 0 .. Cardinality(S) - 1,
           \A x, y \in S : r[x] = r[y] => x = y,
           NEW k \in 0 .. Cardinality(S) - 1
    PROVE  \E x \in S : r[x] = k
<1> DEFINE n == Cardinality(S)
           T == 0 .. n - 1
           R == {t \in T : \E x \in S : r[x] = t}
<1>1. n \in Nat
  BY FS_CardinalityType
<1>2. Cardinality(R) = n
  <2>1. (\A x \in S : r[x] \in R) /\ \A t \in R : \E x \in S : r[x] = t
    OBVIOUS
  <2> HIDE DEF R
  <2> QED
    BY <2>1, SameSize
<1>3. IsFiniteSet(T) /\ Cardinality(T) = n
  <2>1. 0 \in Int /\ n - 1 \in Int
    BY <1>1
  <2>2. IsFiniteSet(0 .. n - 1) /\ Cardinality(0 .. n - 1) = IF 0 > n - 1 THEN 0 ELSE n - 1 - 0 + 1
    BY <2>1, FS_Interval
  <2> QED
    BY <1>1, <2>2
<1>4. R \in SUBSET T
  OBVIOUS
<1>5. T = R
  <2> HIDE DEF R, T
  <2> QED
    BY <1>2, <1>3, <1>4, FS_Subset
<1>6. k \in R
  BY <1>5
<1> QED
  BY <1>6

\* The rows of a page have the ranks of the page.
LEMMA RankedPage ==
    ASSUME NEW S, IsFiniteSet(S), NEW r, \A x \in S : r[x] \in 0 .. Cardinality(S) - 1,
           \A x, y \in S : r[x] = r[y] => x = y,
           PageSize \in Nat \ {0}, NEW page \in Nat \ {0},
           NEW P, P \subseteq S,
           \A x \in S : x \in P <=> (page - 1) * PageSize <= r[x] /\ r[x] < page * PageSize
    PROVE  IsFiniteSet(P) /\ Cardinality(P) = OnPage(Cardinality(S), page)
<1> DEFINE n == Cardinality(S)
           lo == (page - 1) * PageSize
           hi == page * PageSize
           T == {t \in 0 .. n - 1 : lo <= t /\ t < hi}
<1>1. n \in Nat /\ lo \in Nat /\ hi \in Nat /\ hi = lo + PageSize
  <2>1. n \in Nat
    BY FS_CardinalityType
  <2>2. page - 1 \in Nat /\ page = (page - 1) + 1 /\ PageSize \in Nat
    OBVIOUS
  <2>3. \A a, b \in Nat : a * b \in Nat /\ (a + 1) * b = a * b + b
    OBVIOUS
  <2> QED
    BY <2>1, <2>2, <2>3
<1>2. IsFiniteSet(P)
  BY FS_Subset
<1>3. Cardinality(T) = Cardinality(P)
  <2>1. \A x \in P : r[x] \in T
    OBVIOUS
  <2>2. \A x, y \in P : r[x] = r[y] => x = y
    OBVIOUS
  <2>3. \A t \in T : \E x \in P : r[x] = t
    <3> SUFFICES ASSUME NEW t \in T PROVE \E x \in P : r[x] = t
      OBVIOUS
    <3>1. t \in 0 .. n - 1 /\ lo <= t /\ t < hi
      OBVIOUS
    <3>2. PICK x \in S : r[x] = t
      <4> HIDE DEF T, lo, hi
      <4> QED
        BY <3>1, RanksTaken
    <3> QED
      BY <3>1, <3>2
  <2> HIDE DEF T
  <2> QED
    BY <1>2, <2>1, <2>2, <2>3, SameSize
<1>4. Cardinality(T) = OnPage(n, page)
  <2> DEFINE top == IF n < hi THEN n - 1 ELSE hi - 1
  <2>1. T = lo .. top /\ top \in Int /\ lo \in Int
    <3> HIDE DEF n, lo, hi
    <3> QED
      BY <1>1
  <2>2. Cardinality(lo .. top) = IF lo > top THEN 0 ELSE top - lo + 1
    <3> HIDE DEF lo, top
    <3> QED
      BY <2>1, FS_Interval
  <2>3. OnPage(n, page) = CASE n >= hi -> PageSize [] n <= lo -> 0 [] OTHER -> n - lo
    BY DEF OnPage
  <2>4. PageSize \in Nat \ {0}
    OBVIOUS
  <2> HIDE DEF n, lo, hi, T
  <2>5. CASE n >= hi
    BY <1>1, <2>1, <2>2, <2>3, <2>4, <2>5
  <2>6. CASE ~(n >= hi) /\ n <= lo
    BY <1>1, <2>1, <2>2, <2>3, <2>4, <2>6
  <2>7. CASE ~(n >= hi) /\ ~(n <= lo)
    BY <1>1, <2>1, <2>2, <2>3, <2>4, <2>7
  <2> QED
    BY <2>5, <2>6, <2>7
<1> QED
  BY <1>2, <1>3, <1>4

\* How many rows are newer tells rows apart.
LEMMA NewerRanks ==
    ASSUME NEW S, IsFiniteSet(S), S \subseteq Nat
    PROVE  LET r == [x \in S |-> Cardinality({y \in S : Newer(y, x)})] IN
           /\ \A x \in S : r[x] \in 0 .. Cardinality(S) - 1
           /\ \A x, y \in S : r[x] = r[y] => x = y
<1> DEFINE B(x) == {y \in S : Newer(y, x)}
           r == [x \in S |-> Cardinality(B(x))]
<1>0. Cardinality(S) \in Nat
  BY FS_CardinalityType
<1>1. ASSUME NEW x \in S, NEW T, IsFiniteSet(T), B(x) \subseteq T, x \in T, T \subseteq S
      PROVE  Cardinality(B(x)) < Cardinality(T) /\ Cardinality(B(x)) \in Nat
  <2>1. x \notin B(x) /\ B(x) \in SUBSET T /\ IsFiniteSet(B(x))
    <3>1. x \in Nat
      OBVIOUS
    <3>2. IsFiniteSet(B(x))
      BY <1>1, FS_Subset
    <3> QED
      BY <1>1, <3>1, <3>2 DEF Newer
  <2>2. Cardinality(B(x)) <= Cardinality(T) /\ (Cardinality(T) = Cardinality(B(x)) => T = B(x))
    <3> HIDE DEF B
    <3> QED
      BY <1>1, <2>1, FS_Subset
  <2>3. Cardinality(T) \in Nat /\ Cardinality(B(x)) \in Nat
    <3> HIDE DEF B
    <3> QED
      BY <1>1, <2>1, FS_CardinalityType
  <2>4. T # B(x)
    BY <1>1, <2>1
  <2> HIDE DEF B
  <2> QED
    BY <2>2, <2>3, <2>4
<1>2. ASSUME NEW x \in S PROVE Cardinality(B(x)) \in 0 .. Cardinality(S) - 1
  <2>1. B(x) \subseteq S /\ S \subseteq S
    OBVIOUS
  <2>2. Cardinality(B(x)) < Cardinality(S) /\ Cardinality(B(x)) \in Nat
    BY <1>1, <2>1
  <2> HIDE DEF B
  <2> QED
    BY <1>0, <2>2
<1>3. ASSUME NEW x \in S, NEW y \in S, x > y PROVE Cardinality(B(x)) # Cardinality(B(y))
  <2>1. x \in Nat /\ y \in Nat /\ S \subseteq Nat
    OBVIOUS
  <2>2. B(x) \subseteq B(y) /\ x \in B(y) /\ B(y) \subseteq S
    <3>1. ASSUME NEW z \in B(x) PROVE z \in B(y)
      <4>1. z \in S /\ z > x /\ z \in Nat
        BY <2>1 DEF Newer
      <4> QED
        BY <1>3, <2>1, <4>1 DEF Newer
    <3>2. x \in B(y) /\ B(y) \subseteq S
      BY <1>3, <2>1 DEF Newer
    <3> QED
      BY <3>1, <3>2
  <2>3. IsFiniteSet(B(y))
    BY FS_Subset
  <2>4. Cardinality(B(x)) < Cardinality(B(y)) /\ Cardinality(B(x)) \in Nat
    <3> HIDE DEF B
    <3> QED
      BY <1>1, <2>2, <2>3
  <2>5. Cardinality(B(y)) \in Nat
    BY <1>2
  <2> HIDE DEF B
  <2> QED
    BY <2>4, <2>5
<1>4. \A x, y \in S : Cardinality(B(x)) = Cardinality(B(y)) => x = y
  <2> SUFFICES ASSUME NEW x \in S, NEW y \in S, Cardinality(B(x)) = Cardinality(B(y)), x # y
               PROVE  FALSE
    OBVIOUS
  <2>1. x > y \/ y > x
    <3>1. x \in Nat /\ y \in Nat
      OBVIOUS
    <3> QED
      BY <3>1
  <2> HIDE DEF B
  <2> QED
    BY <1>3, <2>1
<1>5. (\A x \in S : r[x] \in 0 .. Cardinality(S) - 1) /\ \A x, y \in S : r[x] = r[y] => x = y
  <2>1. \A x \in S : r[x] = Cardinality(B(x))
    OBVIOUS
  <2> HIDE DEF r, B
  <2> QED
    BY <1>2, <1>4, <2>1
<1> QED
  BY <1>5

\* So does how many rows are lower.
LEMMA LowerRanks ==
    ASSUME NEW S, IsFiniteSet(S), S \subseteq Nat
    PROVE  LET r == [x \in S |-> Cardinality({y \in S : Lower(y, x)})] IN
           /\ \A x \in S : r[x] \in 0 .. Cardinality(S) - 1
           /\ \A x, y \in S : r[x] = r[y] => x = y
<1> DEFINE B(x) == {y \in S : Lower(y, x)}
           r == [x \in S |-> Cardinality(B(x))]
<1>0. Cardinality(S) \in Nat
  BY FS_CardinalityType
<1>1. ASSUME NEW x \in S, NEW T, IsFiniteSet(T), B(x) \subseteq T, x \in T, T \subseteq S
      PROVE  Cardinality(B(x)) < Cardinality(T) /\ Cardinality(B(x)) \in Nat
  <2>1. x \notin B(x) /\ B(x) \in SUBSET T /\ IsFiniteSet(B(x))
    <3>1. x \in Nat
      OBVIOUS
    <3>2. IsFiniteSet(B(x))
      BY <1>1, FS_Subset
    <3> QED
      BY <1>1, <3>1, <3>2 DEF Lower
  <2>2. Cardinality(B(x)) <= Cardinality(T) /\ (Cardinality(T) = Cardinality(B(x)) => T = B(x))
    <3> HIDE DEF B
    <3> QED
      BY <1>1, <2>1, FS_Subset
  <2>3. Cardinality(T) \in Nat /\ Cardinality(B(x)) \in Nat
    <3> HIDE DEF B
    <3> QED
      BY <1>1, <2>1, FS_CardinalityType
  <2>4. T # B(x)
    BY <1>1, <2>1
  <2> HIDE DEF B
  <2> QED
    BY <2>2, <2>3, <2>4
<1>2. ASSUME NEW x \in S PROVE Cardinality(B(x)) \in 0 .. Cardinality(S) - 1
  <2>1. B(x) \subseteq S /\ S \subseteq S
    OBVIOUS
  <2>2. Cardinality(B(x)) < Cardinality(S) /\ Cardinality(B(x)) \in Nat
    BY <1>1, <2>1
  <2> HIDE DEF B
  <2> QED
    BY <1>0, <2>2
<1>3. ASSUME NEW x \in S, NEW y \in S, x < y PROVE Cardinality(B(x)) # Cardinality(B(y))
  <2>1. x \in Nat /\ y \in Nat /\ S \subseteq Nat
    OBVIOUS
  <2>2. B(x) \subseteq B(y) /\ x \in B(y) /\ B(y) \subseteq S
    <3>1. ASSUME NEW z \in B(x) PROVE z \in B(y)
      <4>1. z \in S /\ z < x /\ z \in Nat
        BY <2>1 DEF Lower
      <4> QED
        BY <1>3, <2>1, <4>1 DEF Lower
    <3>2. x \in B(y) /\ B(y) \subseteq S
      BY <1>3, <2>1 DEF Lower
    <3> QED
      BY <3>1, <3>2
  <2>3. IsFiniteSet(B(y))
    BY FS_Subset
  <2>4. Cardinality(B(x)) < Cardinality(B(y)) /\ Cardinality(B(x)) \in Nat
    <3> HIDE DEF B
    <3> QED
      BY <1>1, <2>2, <2>3
  <2>5. Cardinality(B(y)) \in Nat
    BY <1>2
  <2> HIDE DEF B
  <2> QED
    BY <2>4, <2>5
<1>4. \A x, y \in S : Cardinality(B(x)) = Cardinality(B(y)) => x = y
  <2> SUFFICES ASSUME NEW x \in S, NEW y \in S, Cardinality(B(x)) = Cardinality(B(y)), x # y
               PROVE  FALSE
    OBVIOUS
  <2>1. x < y \/ y < x
    <3>1. x \in Nat /\ y \in Nat
      OBVIOUS
    <3> QED
      BY <3>1
  <2> HIDE DEF B
  <2> QED
    BY <1>3, <2>1
<1>5. (\A x \in S : r[x] \in 0 .. Cardinality(S) - 1) /\ \A x, y \in S : r[x] = r[y] => x = y
  <2>1. \A x \in S : r[x] = Cardinality(B(x))
    OBVIOUS
  <2> HIDE DEF r, B
  <2> QED
    BY <1>2, <1>4, <2>1
<1> QED
  BY <1>5

\* A page of rows, the newest first, is as long as its place in the total makes it.
LEMMA NewestPage ==
    ASSUME NEW S, IsFiniteSet(S), S \subseteq Nat, PageSize \in Nat \ {0}, NEW page \in Nat \ {0}
    PROVE  /\ IsFiniteSet(NewestOn(S, page)) /\ NewestOn(S, page) \subseteq S
           /\ Cardinality(NewestOn(S, page)) = OnPage(Cardinality(S), page)
<1> DEFINE r == [x \in S |-> Cardinality({y \in S : Newer(y, x)})]
           P == NewestOn(S, page)
<1>1. (\A x \in S : r[x] \in 0 .. Cardinality(S) - 1) /\ \A x, y \in S : r[x] = r[y] => x = y
  BY NewerRanks
<1>2. \A x \in S : x \in P <=> (page - 1) * PageSize <= r[x] /\ r[x] < page * PageSize
  BY DEF NewestOn, OfPage
<1>3. NewestOn(S, page) \subseteq S
  BY DEF NewestOn
<1>5. P \subseteq S
  BY <1>3
<1> HIDE DEF r, P
<1>4. IsFiniteSet(P) /\ Cardinality(P) = OnPage(Cardinality(S), page)
  BY <1>1, <1>2, <1>5, RankedPage
<1> QED
  BY <1>3, <1>4 DEF P

\* So is a page of rows with the lowest first.
LEMMA LowestPage ==
    ASSUME NEW S, IsFiniteSet(S), S \subseteq Nat, PageSize \in Nat \ {0}, NEW page \in Nat \ {0}
    PROVE  /\ IsFiniteSet(LowestOn(S, page)) /\ LowestOn(S, page) \subseteq S
           /\ Cardinality(LowestOn(S, page)) = OnPage(Cardinality(S), page)
<1> DEFINE r == [x \in S |-> Cardinality({y \in S : Lower(y, x)})]
           P == LowestOn(S, page)
<1>1. (\A x \in S : r[x] \in 0 .. Cardinality(S) - 1) /\ \A x, y \in S : r[x] = r[y] => x = y
  BY LowerRanks
<1>2. \A x \in S : x \in P <=> (page - 1) * PageSize <= r[x] /\ r[x] < page * PageSize
  BY DEF LowestOn, OfPage
<1>3. LowestOn(S, page) \subseteq S
  BY DEF LowestOn
<1>5. P \subseteq S
  BY <1>3
<1> HIDE DEF r, P
<1>4. IsFiniteSet(P) /\ Cardinality(P) = OnPage(Cardinality(S), page)
  BY <1>1, <1>2, <1>5, RankedPage
<1> QED
  BY <1>3, <1>4 DEF P

\* The pages that PageCount counts are those that have rows.
LEMMA NextPageHasRows ==
    ASSUME NEW total \in Nat, PageSize \in Nat \ {0}, NEW page \in Nat \ {0}
    PROVE  page < (total + PageSize - 1) \div PageSize <=> OnPage(total, page + 1) # 0
<1> DEFINE q == (total + PageSize - 1) \div PageSize
           m == total + PageSize - 1
           p == page * PageSize
<1>1. m \in Nat /\ PageSize \in Nat /\ PageSize > 0 /\ m = total + PageSize - 1
  OBVIOUS
<1>2. q \in Nat /\ q * PageSize <= m /\ m < q * PageSize + PageSize
  <2> HIDE DEF m
  <2>1. \A a \in Nat, b \in Nat \ {0} : /\ a \div b \in Nat
                                        /\ (a \div b) * b <= a /\ a < (a \div b) * b + b
    OBVIOUS
  <2> QED
    BY <1>1, <2>1 DEF m
<1>3. \A a, b, c \in Nat : (a <= b => a * c <= b * c) /\ (a + 1) * c = a * c + c /\ a * c \in Nat
  OBVIOUS
<1>4. p \in Nat /\ q * PageSize \in Nat /\ (page + 1) * PageSize = p + PageSize
  BY <1>1, <1>2, <1>3
<1>5. OnPage(total, page + 1) = CASE total >= p + PageSize -> PageSize
                                  [] total <= p -> 0 [] OTHER -> total - p
  <2>1. (page + 1) - 1 = page
    OBVIOUS
  <2> HIDE DEF p
  <2> QED
    BY <1>4, <2>1 DEF OnPage, p
<1>6. OnPage(total, page + 1) # 0 <=> total > p
  <2> HIDE DEF p
  <2> QED
    BY <1>1, <1>4, <1>5
<1>7. page < q => total > p
  <2> SUFFICES ASSUME page < q PROVE total > p
    OBVIOUS
  <2>1. page + 1 <= q /\ page + 1 \in Nat
    BY <1>2
  <2>2. (page + 1) * PageSize <= q * PageSize
    BY <1>1, <1>2, <1>3, <2>1
  <2> HIDE DEF p, q, m
  <2> QED
    BY <1>1, <1>2, <1>4, <2>2
<1>8. ~(page < q) => ~(total > p)
  <2> SUFFICES ASSUME ~(page < q) PROVE ~(total > p)
    OBVIOUS
  <2>1. q <= page
    BY <1>2
  <2>2. q * PageSize <= p
    BY <1>1, <1>2, <1>3, <2>1
  <2> HIDE DEF p, q, m
  <2> QED
    BY <1>1, <1>2, <1>4, <2>2
<1> HIDE DEF p, q
<1>9. page < q <=> OnPage(total, page + 1) # 0
  BY <1>6, <1>7, <1>8
<1> QED
  BY <1>9 DEF q
-----------------------------------------------------------------------------
(* Reports.  A request that asks for a report keeps, of every query that    *)
(* it has asked, the answer that the tables still give, unless something   *)
(* was written since.                                                      *)

ReportTablesTyped ==
    /\ pupils \in [Pupils -> PupilRow]
    /\ staff \in [Employees -> StaffRow]
    /\ bills \in [Bills -> BillRow]
    /\ PaidInTime(bills)
    /\ listed \in BranchLists

\* The queries of a report.
StagesOf(name) == 1 .. Len(Queries[name])
InStages(s)    == UNION {s[i] : i \in 1 .. Len(s)}
Asked(name)    == InStages(Queries[name])

\* What a report that was asked for has in memory.
ReportData(d) ==
    /\ d = [name |-> d.name, asked |-> d.asked, stage |-> d.stage, answers |-> d.answers,
            torn |-> d.torn]
    /\ d.name \in DOMAIN Queries
    /\ d.asked \in Filters(d.name)
    /\ d.stage \in StagesOf(d.name)
    /\ \A i \in 1 .. d.stage - 1 : Queries[d.name][i] \subseteq DOMAIN d.answers

StillTrue(d) == ~d.torn => \A q \in DOMAIN d.answers : d.answers[q] = AnswerTo(d, q)

ReportAtWork(h) ==
    At(h, "ask") \/ At(h, "compose") =>
        /\ ReportData(Data(h))
        /\ StillTrue(Data(h))
        /\ At(h, "compose") => Asked(Data(h).name) \subseteq DOMAIN Data(h).answers

ReportsInv == ReportTablesTyped /\ \A h \in Handlers : ReportAtWork(h)

QueryNames ==
    {"students", "monthIncome", "lastMonth", "branches", "due", "overdue", "income", "expenses",
     "incomeByBranch", "expensesByBranch", "studentsByBranch", "monthByBranch", "revenue",
     "monitored", "byStatus", "page", "total", "month"}

Query == QueryNames \X Int

LEMMA AtOnceIs ==
    ASSUME NEW names \in SUBSET QueryNames
    PROVE  /\ AtOnceAsked(names) \in Seq(SUBSET Query) /\ Len(AtOnceAsked(names)) = 1
           /\ InStages(AtOnceAsked(names)) = {<<n, 0>> : n \in names}
<1> DEFINE a == {<<n, 0>> : n \in names}
<1>1. a \in SUBSET Query
  <2> SUFFICES ASSUME NEW n \in names PROVE <<n, 0>> \in Query
    OBVIOUS
  <2>1. n \in QueryNames /\ 0 \in Int
    OBVIOUS
  <2> QED
    BY <2>1 DEF Query
<1>2. AtOnceAsked(names) = <<a>>
  BY DEF AtOnceAsked
<1> HIDE DEF a
<1>3. <<a>> \in Seq(SUBSET Query) /\ Len(<<a>>) = 1 /\ <<a>>[1] = a
  BY <1>1
<1>4. InStages(<<a>>) = a
  BY <1>3 DEF InStages
<1> QED
  BY <1>2, <1>3, <1>4 DEF a

LEMMA MonthLoopIs ==
    /\ MonthLoop \in Seq(SUBSET Query) /\ Len(MonthLoop) = Months
    /\ \A i \in 0 .. Months - 1 : <<"month", i>> \in InStages(MonthLoop)
<1>0. Months \in Nat
  BY ReportsAssumption
<1>1. DOMAIN MonthLoop = 1 .. Months /\ \A i \in 1 .. Months : MonthLoop[i] = {<<"month", Months - i>>}
  BY DEF MonthLoop
<1>2. MonthLoop \in [1 .. Months -> SUBSET Query]
  <2>1. ASSUME NEW i \in 1 .. Months PROVE {<<"month", Months - i>>} \in SUBSET Query
    <3>1. "month" \in QueryNames /\ Months - i \in Int
      BY <1>0 DEF QueryNames
    <3>2. <<"month", Months - i>> \in Query
      BY <3>1 DEF Query
    <3> QED
      BY <3>2
  <2> QED
    BY <2>1 DEF MonthLoop
<1>3. MonthLoop \in Seq(SUBSET Query)
  BY <1>0, <1>2
<1>4. Len(MonthLoop) = Months
  BY <1>0, <1>1, <1>3, LenProperties
<1>5. ASSUME NEW i \in 0 .. Months - 1 PROVE <<"month", i>> \in InStages(MonthLoop)
  <2>1. Months - i \in 1 .. Months /\ Months - (Months - i) = i
    BY <1>0
  <2>2. MonthLoop[Months - i] = {<<"month", i>>}
    BY <1>1, <2>1
  <2> QED
    BY <1>4, <2>1, <2>2 DEF InStages
<1> QED
  BY <1>3, <1>4, <1>5

LEMMA StagesJoin ==
    ASSUME NEW s \in Seq(SUBSET Query), NEW t \in Seq(SUBSET Query)
    PROVE  /\ s \o t \in Seq(SUBSET Query) /\ Len(s \o t) = Len(s) + Len(t)
           /\ InStages(s) \subseteq InStages(s \o t) /\ InStages(t) \subseteq InStages(s \o t)
<1> DEFINE st == s \o t
<1>1. /\ st \in Seq(SUBSET Query) /\ Len(st) = Len(s) + Len(t)
      /\ \A i \in 1 .. Len(s) + Len(t) : st[i] = IF i <= Len(s) THEN s[i] ELSE t[i - Len(s)]
  BY ConcatProperties
<1>2. Len(s) \in Nat /\ Len(t) \in Nat
  OBVIOUS
<1> HIDE DEF st
<1>3. ASSUME NEW i \in 1 .. Len(s) PROVE s[i] \subseteq InStages(st)
  <2>1. i \in 1 .. Len(st) /\ st[i] = s[i]
    BY <1>1, <1>2
  <2> QED
    BY <2>1 DEF InStages
<1>4. ASSUME NEW i \in 1 .. Len(t) PROVE t[i] \subseteq InStages(st)
  <2> DEFINE j == i + Len(s)
  <2>2. j \in 1 .. Len(s) + Len(t) /\ ~(j <= Len(s)) /\ j - Len(s) = i
    BY <1>2
  <2> HIDE DEF j
  <2>1. j \in 1 .. Len(st) /\ st[j] = t[i]
    BY <1>1, <2>2
  <2> QED
    BY <2>1 DEF InStages
<1>5. InStages(s) \subseteq InStages(st) /\ InStages(t) \subseteq InStages(st)
  BY <1>3, <1>4 DEF InStages
<1> QED
  BY <1>1, <1>5 DEF st

\* A report that asks one query after another.
LEMMA TwoStages ==
    ASSUME NEW n \in QueryNames, NEW m \in QueryNames
    PROVE  LET st == AtOnceAsked({n}) \o AtOnceAsked({m}) IN
           /\ st \in Seq(SUBSET Query) /\ Len(st) = 2
           /\ <<n, 0>> \in InStages(st) /\ <<m, 0>> \in InStages(st)
<1> DEFINE s == AtOnceAsked({n})
           t == AtOnceAsked({m})
<1>1. s \in Seq(SUBSET Query) /\ Len(s) = 1 /\ <<n, 0>> \in InStages(s)
  <2>1. {n} \in SUBSET QueryNames
    OBVIOUS
  <2>2. InStages(s) = {<<x, 0>> : x \in {n}}
    BY <2>1, AtOnceIs
  <2> QED
    BY <2>1, <2>2, AtOnceIs
<1>2. t \in Seq(SUBSET Query) /\ Len(t) = 1 /\ <<m, 0>> \in InStages(t)
  <2>1. {m} \in SUBSET QueryNames
    OBVIOUS
  <2>2. InStages(t) = {<<x, 0>> : x \in {m}}
    BY <2>1, AtOnceIs
  <2> QED
    BY <2>1, <2>2, AtOnceIs
<1> HIDE DEF s, t
<1>3. s \o t \in Seq(SUBSET Query) /\ Len(s \o t) = Len(s) + Len(t)
      /\ InStages(s) \subseteq InStages(s \o t) /\ InStages(t) \subseteq InStages(s \o t)
  BY <1>1, <1>2, StagesJoin
<1>4. Len(s \o t) = 2
  BY <1>1, <1>2, <1>3
<1>5. <<n, 0>> \in InStages(s \o t) /\ <<m, 0>> \in InStages(s \o t)
  BY <1>1, <1>2, <1>3
<1> QED
  BY <1>3, <1>4, <1>5 DEF s, t

DashboardFigures == {"students", "monthIncome", "lastMonth", "branches"}
FinanceFigures   == {"branches", "due", "overdue", "income", "expenses", "incomeByBranch",
                     "expensesByBranch"}
BranchFigures    == {"branches", "studentsByBranch", "monthByBranch"}
AnalyticFigures  == {"students", "branches", "studentsByBranch", "incomeByBranch"}

\* The reports with what each asks.
LEMMA QueriesByName ==
    /\ DOMAIN Queries = {"dashboard", "finances", "branches", "analytics", "months", "revenue",
                         "monitor", "users", "invoices", "payments", "students"}
    /\ Queries["dashboard"] = AtOnceAsked(DashboardFigures)
    /\ Queries["finances"] = AtOnceAsked(FinanceFigures)
    /\ Queries["branches"] = AtOnceAsked(BranchFigures)
    /\ Queries["analytics"] = AtOnceAsked(AnalyticFigures) \o MonthLoop
    /\ Queries["months"] = MonthLoop
    /\ Queries["revenue"] = AtOnceAsked({"revenue"})
    /\ Queries["monitor"] = AtOnceAsked({"monitored"}) \o AtOnceAsked({"byStatus"})
    /\ Queries["users"] = AtOnceAsked({"total"}) \o AtOnceAsked({"page"})
    /\ Queries["invoices"] = AtOnceAsked({"page"}) \o AtOnceAsked({"total"})
    /\ Queries["payments"] = AtOnceAsked({"page"}) \o AtOnceAsked({"total"})
    /\ Queries["students"] = AtOnceAsked({"page"}) \o AtOnceAsked({"total"})
BY DEF Queries, PageThenTotal, DashboardFigures, FinanceFigures, BranchFigures, AnalyticFigures

LEMMA OneStage ==
    ASSUME NEW names \in SUBSET QueryNames, NEW name, Queries[name] = AtOnceAsked(names)
    PROVE  /\ Queries[name] \in Seq(SUBSET Query) /\ Len(Queries[name]) = 1
           /\ \A n \in names : <<n, 0>> \in Asked(name)
<1>1. InStages(AtOnceAsked(names)) = {<<n, 0>> : n \in names}
  BY AtOnceIs
<1>2. Asked(name) = {<<n, 0>> : n \in names}
  BY <1>1 DEF Asked
<1> QED
  BY <1>2, AtOnceIs

LEMMA FinancesAsked ==
    /\ Queries["finances"] \in Seq(SUBSET Query) /\ Len(Queries["finances"]) = 1
    /\ \A n \in FinanceFigures : <<n, 0>> \in Asked("finances")
<1>1. FinanceFigures \in SUBSET QueryNames
  BY DEF FinanceFigures, QueryNames
<1> QED
  BY <1>1, QueriesByName, OneStage

LEMMA BranchesAsked ==
    /\ Queries["branches"] \in Seq(SUBSET Query) /\ Len(Queries["branches"]) = 1
    /\ \A n \in BranchFigures : <<n, 0>> \in Asked("branches")
<1>1. BranchFigures \in SUBSET QueryNames
  BY DEF BranchFigures, QueryNames
<1> QED
  BY <1>1, QueriesByName, OneStage

LEMMA RevenueAsked ==
    /\ Queries["revenue"] \in Seq(SUBSET Query) /\ Len(Queries["revenue"]) = 1
    /\ <<"revenue", 0>> \in Asked("revenue")
<1>1. {"revenue"} \in SUBSET QueryNames
  BY DEF QueryNames
<1>2. \A n \in {"revenue"} : <<n, 0>> \in Asked("revenue")
  BY <1>1, QueriesByName, OneStage
<1> QED
  BY <1>1, <1>2, QueriesByName, OneStage

LEMMA MonthsAskedFor ==
    /\ Queries["months"] \in Seq(SUBSET Query) /\ Len(Queries["months"]) = Months
    /\ \A i \in 0 .. Months - 1 : <<"month", i>> \in Asked("months")
BY QueriesByName, MonthLoopIs DEF Asked

LEMMA AnalyticsAsked ==
    /\ Queries["analytics"] \in Seq(SUBSET Query) /\ Len(Queries["analytics"]) = 1 + Months
    /\ \A i \in 0 .. Months - 1 : <<"month", i>> \in Asked("analytics")
    /\ \A n \in AnalyticFigures : <<n, 0>> \in Asked("analytics")
<1> DEFINE s == AtOnceAsked(AnalyticFigures)
           t == MonthLoop
<1>1. AnalyticFigures \in SUBSET QueryNames
  BY DEF AnalyticFigures, QueryNames
<1>2. /\ s \in Seq(SUBSET Query) /\ Len(s) = 1
      /\ InStages(s) = {<<n, 0>> : n \in AnalyticFigures}
  BY <1>1, AtOnceIs
<1>3. /\ t \in Seq(SUBSET Query) /\ Len(t) = Months
      /\ \A i \in 0 .. Months - 1 : <<"month", i>> \in InStages(t)
  BY MonthLoopIs
<1>4. Asked("analytics") = InStages(s \o t) /\ Queries["analytics"] = s \o t
  BY QueriesByName DEF Asked
<1> HIDE DEF s, t
<1>5. /\ s \o t \in Seq(SUBSET Query) /\ Len(s \o t) = Len(s) + Len(t)
      /\ InStages(s) \subseteq InStages(s \o t) /\ InStages(t) \subseteq InStages(s \o t)
  BY <1>2, <1>3, StagesJoin
<1>6. \A n \in AnalyticFigures : <<n, 0>> \in Asked("analytics")
  BY <1>2, <1>4, <1>5
<1>7. \A i \in 0 .. Months - 1 : <<"month", i>> \in Asked("analytics")
  BY <1>3, <1>4, <1>5
<1> QED
  BY <1>2, <1>3, <1>4, <1>5, <1>6, <1>7

LEMMA MonitorAsked ==
    /\ Queries["monitor"] \in Seq(SUBSET Query) /\ Len(Queries["monitor"]) = 2
    /\ <<"monitored", 0>> \in Asked("monitor") /\ <<"byStatus", 0>> \in Asked("monitor")
<1>1. "monitored" \in QueryNames /\ "byStatus" \in QueryNames
  BY DEF QueryNames
<1> QED
  BY <1>1, QueriesByName, TwoStages DEF Asked

LEMMA ListsAsked ==
    ASSUME NEW name \in Lists
    PROVE  /\ Queries[name] \in Seq(SUBSET Query) /\ Len(Queries[name]) = 2
           /\ <<"page", 0>> \in Asked(name) /\ <<"total", 0>> \in Asked(name)
<1>1. "page" \in QueryNames /\ "total" \in QueryNames
  BY DEF QueryNames
<1>2. CASE name = "users"
  <2>1. Queries[name] = AtOnceAsked({"total"}) \o AtOnceAsked({"page"})
    BY <1>2, QueriesByName
  <2> QED
    BY <1>1, <2>1, TwoStages DEF Asked
<1>3. CASE name # "users"
  <2>1. Queries[name] = AtOnceAsked({"page"}) \o AtOnceAsked({"total"})
    BY <1>3, QueriesByName DEF Lists
  <2> QED
    BY <1>1, <2>1, TwoStages DEF Asked
<1> QED
  BY <1>2, <1>3

\* Every report asks something.
LEMMA ReportsAsk ==
    ASSUME NEW name \in DOMAIN Queries
    PROVE  Queries[name] \in Seq(SUBSET Query) /\ Len(Queries[name]) \in Nat /\ 1 <= Len(Queries[name])
<1>1. CASE name = "dashboard"
  <2>1. DashboardFigures \in SUBSET QueryNames
    BY DEF DashboardFigures, QueryNames
  <2>2. Queries[name] \in Seq(SUBSET Query) /\ Len(Queries[name]) = 1
    BY <1>1, <2>1, QueriesByName, OneStage
  <2> QED
    BY <2>2
<1>2. CASE name \in Lists
  BY <1>2, ListsAsked
<1>3. Months \in Nat /\ Months >= 2
  BY ReportsAssumption
<1>4. CASE name = "analytics"
  <2>1. Queries[name] \in Seq(SUBSET Query) /\ Len(Queries[name]) = 1 + Months
    BY <1>4, AnalyticsAsked
  <2> QED
    BY <1>3, <2>1
<1>5. CASE name = "months"
  BY <1>3, <1>5, MonthsAskedFor
<1>6. CASE name = "finances" \/ name = "branches"
  <2>1. Queries[name] \in Seq(SUBSET Query) /\ Len(Queries[name]) = 1
    BY <1>6, FinancesAsked, BranchesAsked
  <2> QED
    BY <2>1
<1>7. CASE name = "revenue" \/ name = "monitor"
  <2>1. Queries[name] \in Seq(SUBSET Query) /\ (Len(Queries[name]) = 1 \/ Len(Queries[name]) = 2)
    BY <1>7, RevenueAsked, MonitorAsked
  <2> QED
    BY <2>1
<1> QED
  BY <1>1, <1>2, <1>4, <1>5, <1>6, <1>7, QueriesByName DEF Lists

-----------------------------------------------------------------------------
\* What a query answers depends on the tables, and of the report on its name and filter only.
LEMMA AnswerOfReport ==
    ASSUME NEW d, NEW e, NEW q, d.name = e.name, d.asked = e.asked
    PROVE  AnswerTo(d, q) = AnswerTo(e, q)
BY DEF AnswerTo

LEMMA AmountStays ==
    ASSUME UNCHANGED bills, NEW S
    PROVE  AmountOf(S)' = AmountOf(S)
BY DEF AmountOf

LEMMA AnswersStay ==
    ASSUME UNCHANGED reportTables, NEW d, NEW q
    PROVE  AnswerTo(d, q)' = AnswerTo(d, q)
<1>1. pupils' = pupils /\ staff' = staff /\ bills' = bills /\ listed' = listed
  BY DEF reportTables
<1>2. Paid' = Paid /\ Open' = Open /\ Payroll' = Payroll /\ Enrolled' = Enrolled
  BY <1>1 DEF Paid, Open, Payroll, Enrolled
<1>3. Income' = Income /\ Due' = Due /\ ByStatus' = ByStatus /\ Overdue' = Overdue
  BY <1>1, <1>2 DEF Income, Due, ByStatus, Overdue, AmountOf
<1>4. MonthIncome' = MonthIncome /\ LastMonth' = LastMonth /\ Revenue' = Revenue
  BY <1>1, <1>2 DEF MonthIncome, LastMonth, Revenue, AmountOf, PaidFrom
<1>5. /\ EarnedByBranch(Paid)' = EarnedByBranch(Paid)
      /\ EarnedByBranch(PaidFrom(MonthOf(0)))' = EarnedByBranch(PaidFrom(MonthOf(0)))
  BY <1>1, <1>2 DEF EarnedByBranch, AmountOf, PaidFrom
<1>6. Expenses' = Expenses /\ SpentByBranch' = SpentByBranch /\ StudentsByBranch' = StudentsByBranch
  BY <1>1, <1>2 DEF Expenses, SpentByBranch, SalariesOf, StudentsByBranch
<1>7. Monitored(d.asked)' = Monitored(d.asked)
  BY <1>1 DEF Monitored, MonitorMatches
<1>8. EarnedIn(q[2])' = EarnedIn(q[2])
  BY <1>1, <1>2 DEF EarnedIn, AmountOf
<1>9. Found(d.name, d.asked)' = Found(d.name, d.asked)
  BY <1>1, <1>2 DEF Found, UsersFound, InvoicesFound, PaymentsFound, StudentsFound
<1>10. NewestOn(Found(d.name, d.asked), d.asked.page)' = NewestOn(Found(d.name, d.asked), d.asked.page)
  BY <1>9 DEF NewestOn
<1> QED
  BY <1>1, <1>2, <1>3, <1>4, <1>5, <1>6, <1>7, <1>8, <1>9, <1>10 DEF AnswerTo

\* A report that goes on as it was, or is torn by what is written.
LEMMA OtherReports ==
    ASSUME ReportsInv, NEW h \in Handlers, UNCHANGED reportTables, task'[h] = task[h]
    PROVE  ReportAtWork(h)'
<1>1. ReportAtWork(h)
  BY DEF ReportsInv
<1> SUFFICES ASSUME (At(h, "ask") \/ At(h, "compose"))'
             PROVE  /\ ReportData(Data(h)')
                    /\ StillTrue(Data(h))'
                    /\ At(h, "compose")' => Asked(Data(h)'.name) \subseteq DOMAIN Data(h)'.answers
  BY DEF ReportAtWork, ReportData
<1> DEFINE d == Data(h)
<1>2. Data(h)' = d /\ At(h, "ask")' = At(h, "ask") /\ At(h, "compose")' = At(h, "compose")
  BY DEF Data, At
<1>3. ReportData(d) /\ StillTrue(d) /\ (At(h, "compose") => Asked(d.name) \subseteq DOMAIN d.answers)
  BY <1>1, <1>2 DEF ReportAtWork
<1>4. StillTrue(Data(h))'
  <2>1. \A e, q : AnswerTo(e, q)' = AnswerTo(e, q)
    BY AnswersStay
  <2> QED
    BY <1>2, <1>3, <2>1 DEF StillTrue
<1> HIDE DEF d
<1> QED
  BY <1>2, <1>3, <1>4

\* A report that is under way is torn by whatever is written.
LEMMA TornReports ==
    ASSUME ReportsInv, Shape, NEW h \in Handlers, Writes
    PROVE  ReportAtWork(h)'
<1>1. CASE ~Busy(h)
  <2>1. task'[h] = task[h]
    BY <1>1, TornTasks
  <2> QED
    BY <1>1, <2>1 DEF ReportAtWork, At, Busy
<1>2. CASE Busy(h)
  <2> DEFINE d == task[h].data
             torn == [d EXCEPT !.torn = TRUE]
  <2>1. task'[h] = [at |-> task[h].at, on |-> task[h].on, data |-> torn]
    BY <1>2, TornTasks
  <2>2. At(h, "ask")' = At(h, "ask") /\ At(h, "compose")' = At(h, "compose") /\ Data(h)' = torn
    <3> HIDE DEF torn
    <3> QED
      BY <2>1 DEF At, Data
  <2>3. CASE At(h, "ask") \/ At(h, "compose")
    <3>1. ReportAtWork(h)
      BY DEF ReportsInv
    <3>2. ReportData(d) /\ (At(h, "compose") => Asked(d.name) \subseteq DOMAIN d.answers)
      BY <2>3, <3>1 DEF ReportAtWork, Data
    <3> DEFINE nm == d.name
               filter == d.asked
               stage == d.stage
               answers == d.answers
               before == d.torn
    <3>3. d = [name |-> nm, asked |-> filter, stage |-> stage, answers |-> answers,
               torn |-> before]
      BY <3>2 DEF ReportData
    <3>4. torn = [d EXCEPT !.torn = TRUE]
      OBVIOUS
    <3> HIDE DEF torn, d, nm, filter, stage, answers, before
    <3>5. torn = [name |-> nm, asked |-> filter, stage |-> stage, answers |-> answers,
                  torn |-> TRUE]
      BY <3>3, <3>4
    <3>6. /\ torn.name = d.name /\ torn.asked = d.asked /\ torn.stage = d.stage
          /\ torn.answers = d.answers /\ torn.torn = TRUE
      BY <3>5 DEF nm, filter, stage, answers
    <3>7. torn = [name |-> torn.name, asked |-> torn.asked, stage |-> torn.stage,
                  answers |-> torn.answers, torn |-> torn.torn]
      BY <3>5
    <3>8. ReportData(torn)
      BY <3>2, <3>6, <3>7 DEF ReportData
    <3>9. ReportData(Data(h))'
      BY <2>2, <3>8 DEF ReportData
    <3>10. StillTrue(Data(h))'
      BY <2>2, <3>6 DEF StillTrue
    <3>11. At(h, "compose")' => Asked(Data(h)'.name) \subseteq DOMAIN Data(h)'.answers
      BY <2>2, <3>2, <3>6
    <3> QED
      BY <3>9, <3>10, <3>11 DEF ReportAtWork
  <2>4. CASE ~(At(h, "ask") \/ At(h, "compose"))
    BY <2>2, <2>4 DEF ReportAtWork
  <2> QED
    BY <2>3, <2>4
<1> QED
  BY <1>1, <1>2

LEMMA AskReportKeeps ==
    ASSUME ReportsInv, Shape, NEW h \in Handlers, NEW name \in DOMAIN Queries,
           NEW filter \in Filters(name), AskReport(h, name, filter)
    PROVE  ReportsInv'
<1> DEFINE d == [name |-> name, asked |-> filter, stage |-> 1, answers |-> <<>>, torn |-> FALSE]
<1>1. UNCHANGED reportTables /\ task' = [task EXCEPT ![h] = [at |-> "ask", on |-> <<"report">>, data |-> d]]
  BY DEF AskReport, Begin
<1>2. /\ task'[h] = [at |-> "ask", on |-> <<"report">>, data |-> d]
      /\ \A g \in Handlers \ {h} : task'[g] = task[g]
  <2> HIDE DEF d
  <2> QED
    BY <1>1 DEF Shape
<1>3. d.name = name /\ d.asked = filter /\ d.stage = 1 /\ d.answers = <<>> /\ d.torn = FALSE
  OBVIOUS
<1>4. ReportData(d)
  <2>1. 1 \in StagesOf(name)
    BY ReportsAsk DEF StagesOf
  <2> QED
    BY <2>1 DEF ReportData
<1>5. \A q : q \notin DOMAIN d.answers
  BY <1>3
<1> HIDE DEF d
<1>6. At(h, "ask")' /\ ~At(h, "compose")' /\ Data(h)' = d
  BY <1>2 DEF At, Data
<1>7. ReportAtWork(h)'
  <2>1. ReportData(Data(h))'
    BY <1>4, <1>6 DEF ReportData
  <2>2. StillTrue(Data(h))'
    BY <1>5, <1>6 DEF StillTrue
  <2> QED
    BY <1>6, <2>1, <2>2 DEF ReportAtWork
<1>8. \A g \in Handlers \ {h} : ReportAtWork(g)'
  BY <1>1, <1>2, OtherReports
<1> QED
  BY <1>1, <1>7, <1>8 DEF ReportsInv, ReportTablesTyped, reportTables

LEMMA ReportEndsKeep ==
    ASSUME ReportsInv, Shape, NEW h \in Handlers, SendReport(h) \/ ReportsBreak(h)
    PROVE  ReportsInv'
<1>1. UNCHANGED reportTables /\ task' = [task EXCEPT ![h] = Idle]
  BY DEF SendReport, ReportsBreak, Answer, Breaks
<1>2. task'[h] = Idle /\ \A g \in Handlers \ {h} : task'[g] = task[g]
  BY <1>1 DEF Shape
<1>3. ReportAtWork(h)'
  BY <1>2 DEF ReportAtWork, At, Idle
<1>4. \A g \in Handlers \ {h} : ReportAtWork(g)'
  BY <1>1, <1>2, OtherReports
<1> QED
  BY <1>1, <1>3, <1>4 DEF ReportsInv, ReportTablesTyped, reportTables

LEMMA RunQueryKeeps ==
    ASSUME ReportsInv, Shape, NEW h \in Handlers, RunQuery(h)
    PROVE  ReportsInv'
<1> DEFINE d == Data(h)
           n == d.name
           left == Queries[n][d.stage] \ DOMAIN d.answers
           last == d.stage = Len(Queries[n])
<1>1. At(h, "ask") /\ ReportData(d) /\ StillTrue(d)
  BY DEF RunQuery, ReportsInv, ReportAtWork
<1>2. PICK q \in left :
        Goto(h, IF left = {q} /\ last THEN "compose" ELSE "ask",
             [d EXCEPT !.answers = [r \in DOMAIN d.answers \cup {q} |->
                                      IF r = q THEN AnswerTo(d, q) ELSE d.answers[r]],
                       !.stage = IF left = {q} /\ ~last THEN @ + 1 ELSE @])
  BY DEF RunQuery
<1> DEFINE answers == [r \in DOMAIN d.answers \cup {q} |->
                         IF r = q THEN AnswerTo(d, q) ELSE d.answers[r]]
           stage == IF left = {q} /\ ~last THEN d.stage + 1 ELSE d.stage
           step == IF left = {q} /\ last THEN "compose" ELSE "ask"
           e == [name |-> n, asked |-> d.asked, stage |-> stage, answers |-> answers,
                 torn |-> d.torn]
<1>3. [d EXCEPT !.answers = answers, !.stage = IF left = {q} /\ ~last THEN @ + 1 ELSE @] = e
  <2>1. d = [name |-> n, asked |-> d.asked, stage |-> d.stage, answers |-> d.answers,
             torn |-> d.torn]
    BY <1>1 DEF ReportData
  <2> DEFINE more == left = {q} /\ ~last
             old == d.answers
             oldStage == d.stage
             torn == d.torn
             filter == d.asked
  <2>2. d = [name |-> n, asked |-> filter, stage |-> oldStage, answers |-> old, torn |-> torn]
    BY <2>1
  <2>3. stage = IF more THEN oldStage + 1 ELSE oldStage
    OBVIOUS
  <2> DEFINE half == [d EXCEPT !.answers = answers]
  <2>4. [d EXCEPT !.answers = answers, !.stage = IF more THEN @ + 1 ELSE @]
          = [half EXCEPT !.stage = IF more THEN half.stage + 1 ELSE half.stage]
    OBVIOUS
  <2>5. half = [d EXCEPT !.answers = answers]
    OBVIOUS
  <2> HIDE DEF d, n, answers, stage, more, old, oldStage, torn, filter, half
  <2>6. half = [name |-> n, asked |-> filter, stage |-> oldStage, answers |-> answers,
                torn |-> torn]
    BY <2>2, <2>5
  <2>7. [half EXCEPT !.stage = IF more THEN half.stage + 1 ELSE half.stage]
          = [name |-> n, asked |-> filter, stage |-> stage, answers |-> answers, torn |-> torn]
    BY <2>3, <2>6
  <2> QED
    BY <2>4, <2>7 DEF more, filter, torn
<1>4. Goto(h, step, e) /\ UNCHANGED reportTables
  <2>1. Goto(h, step, [d EXCEPT !.answers = answers,
                                !.stage = IF left = {q} /\ ~last THEN @ + 1 ELSE @])
    BY <1>2
  <2> HIDE DEF d, left, last, answers, step, e
  <2> QED
    BY <1>3, <2>1 DEF RunQuery
<1>5. /\ task'[h] = [at |-> step, on |-> task[h].on, data |-> e]
      /\ \A g \in Handlers \ {h} : task'[g] = task[g]
  <2> HIDE DEF step, e
  <2> QED
    BY <1>4, GotoTask
<1>6. /\ e.name = n /\ e.asked = d.asked /\ e.stage = stage /\ e.answers = answers
      /\ e.torn = d.torn /\ e = [name |-> e.name, asked |-> e.asked, stage |-> e.stage,
                                 answers |-> e.answers, torn |-> e.torn]
  <2> HIDE DEF d, n, stage, answers
  <2> QED
    OBVIOUS
<1>7. /\ n \in DOMAIN Queries /\ d.asked \in Filters(n)
      /\ Len(Queries[n]) \in Nat /\ d.stage \in 1 .. Len(Queries[n])
      /\ \A i \in 1 .. d.stage - 1 : Queries[n][i] \subseteq DOMAIN d.answers
  BY <1>1, ReportsAsk DEF ReportData, StagesOf
<1>8. DOMAIN answers = DOMAIN d.answers \cup {q} /\ q \in Queries[n][d.stage]
  OBVIOUS
<1>9. left = {q} => Queries[n][d.stage] \subseteq DOMAIN answers
  BY <1>8
<1>10. ReportData(e)
  <2>1. stage \in 1 .. Len(Queries[n])
    <3> HIDE DEF d, n, left
    <3> QED
      BY <1>7
  <2>2. ASSUME NEW i \in 1 .. stage - 1 PROVE Queries[n][i] \subseteq DOMAIN answers
    <3>1. CASE i \in 1 .. d.stage - 1
      BY <1>7, <1>8, <3>1
    <3>2. CASE i \notin 1 .. d.stage - 1
      <4>1. left = {q} /\ i = d.stage
        <5> HIDE DEF d, n, left, last
        <5> QED
          BY <1>7, <3>2
      <4> QED
        BY <1>9, <4>1
    <3> QED
      BY <3>1, <3>2
  <2> HIDE DEF d, n, left, last, stage, answers, e
  <2> QED
    BY <1>6, <1>7, <2>1, <2>2 DEF ReportData, StagesOf
<1>11. StillTrue(e)
  <2> SUFFICES ASSUME ~d.torn, NEW r \in DOMAIN answers PROVE answers[r] = AnswerTo(e, r)
    <3> HIDE DEF d, n, answers, e
    <3> QED
      BY <1>6 DEF StillTrue
  <2>1. AnswerTo(e, r) = AnswerTo(d, r)
    <3> HIDE DEF d, e, stage, answers
    <3> QED
      BY <1>6, AnswerOfReport DEF n
  <2>2. CASE r = q
    BY <2>1, <2>2
  <2>3. CASE r # q
    <3>1. answers[r] = d.answers[r] /\ r \in DOMAIN d.answers
      BY <2>3
    <3>2. d.answers[r] = AnswerTo(d, r)
      <4> HIDE DEF d
      <4> QED
        BY <1>1, <3>1 DEF StillTrue
    <3> QED
      BY <2>1, <3>1, <3>2
  <2> QED
    BY <2>2, <2>3
<1>12. step = "compose" => Asked(n) \subseteq DOMAIN answers
  <2> SUFFICES ASSUME left = {q}, last, NEW i \in 1 .. Len(Queries[n])
               PROVE  Queries[n][i] \subseteq DOMAIN answers
    BY DEF Asked, InStages
  <2>1. CASE i = d.stage
    BY <1>9, <2>1
  <2>2. CASE i # d.stage
    <3>1. i \in 1 .. d.stage - 1
      <4> HIDE DEF d, n, left
      <4> QED
        BY <1>7, <2>2
    <3> QED
      BY <1>7, <1>8, <3>1
  <2> QED
    BY <2>1, <2>2
<1>13. ReportAtWork(h)'
  <2> HIDE DEF d, n, left, last, stage, answers, e, step
  <2>1. Data(h)' = e /\ At(h, "compose")' = (step = "compose")
    BY <1>5 DEF Data, At
  <2>2. ReportData(Data(h))'
    BY <1>10, <2>1 DEF ReportData
  <2>3. StillTrue(Data(h))'
    <3>1. \A f, r : AnswerTo(f, r)' = AnswerTo(f, r)
      BY <1>4, AnswersStay
    <3> QED
      BY <1>11, <2>1, <3>1 DEF StillTrue
  <2>4. At(h, "compose")' => Asked(Data(h)'.name) \subseteq DOMAIN Data(h)'.answers
    BY <1>6, <1>12, <2>1
  <2> QED
    BY <2>2, <2>3, <2>4 DEF ReportAtWork
<1>14. \A g \in Handlers \ {h} : ReportAtWork(g)'
  BY <1>4, <1>5, OtherReports
<1>15. ReportTablesTyped'
  BY <1>4 DEF ReportsInv, ReportTablesTyped, reportTables
<1> QED
  BY <1>13, <1>14, <1>15 DEF ReportsInv
-----------------------------------------------------------------------------
\* The month that reports are asked in is one of those they go back.
LEMMA NowIsInTime == Now \in 0 .. Months * MonthLength - 1
<1> DEFINE m == Months
           l == MonthLength
<1>1. m \in Nat /\ m >= 2 /\ l \in Nat /\ l >= 2
  BY ReportsAssumption
<1>2. Now = (m - 1) * l
  BY <1>1 DEF Now, MonthOf
<1> HIDE DEF m, l
<1>3. (m - 1) * l = m * l - l /\ (m - 1) * l \in Nat /\ m * l \in Int
  BY <1>1
<1>4. Now \in 0 .. m * l - 1
  BY <1>1, <1>2, <1>3
<1> QED
  BY <1>4 DEF m, l

\* What a payment, an invoice or a refund writes.
LEMMA BillIsTyped ==
    ASSUME ReportTablesTyped, NEW p \in Bills, PayBill(p) \/ SettleInvoice(p) \/ RefundBill(p)
    PROVE  ReportTablesTyped' /\ Writes
<1>1. /\ UNCHANGED <<pupils, staff, listed>> /\ Writes
      /\ bills \in [Bills -> BillRow] /\ PaidInTime(bills)
  BY DEF PayBill, SettleInvoice, RefundBill, ReportTablesTyped
<1> DEFINE row == bills[p]
           new == bills'[p]
<1>2. /\ \A q \in Bills \ {p} : bills'[q] = bills[q]
      /\ bills' = [q \in Bills |-> bills'[q]]
      /\ row \in BillRow
  BY <1>1 DEF PayBill, SettleInvoice, RefundBill
<1>3. new \in BillRow /\ (new.status = "paid" => new.at \in 0 .. Months * MonthLength - 1)
  <2>1. CASE PayBill(p)
    <3> DEFINE now == Now
    <3>1. bills' = [bills EXCEPT ![p].status = "paid", ![p].at = now]
      BY <2>1 DEF PayBill
    <3>2. now \in Nat /\ now \in 0 .. Months * MonthLength - 1
      BY NowIsInTime
    <3> HIDE DEF now
    <3> DEFINE half == [bills EXCEPT ![p].status = "paid"]
    <3>3. half \in [Bills -> BillRow] /\ half[p].status = "paid"
      BY <1>1 DEF BillRow, BillStatuses
    <3>4. bills' = [half EXCEPT ![p].at = now]
      BY <3>1
    <3> HIDE DEF half
    <3>5. new \in BillRow /\ new.at = now
      BY <3>2, <3>3, <3>4 DEF BillRow
    <3> QED
      BY <3>2, <3>5
  <2>2. CASE SettleInvoice(p)
    <3>1. bills' = [bills EXCEPT ![p].invoice = "paid"]
      BY <2>2 DEF SettleInvoice
    <3>2. new \in BillRow /\ new.status = row.status /\ new.at = row.at
      BY <1>1, <3>1 DEF BillRow
    <3> QED
      BY <1>1, <3>2 DEF PaidInTime
  <2>3. CASE RefundBill(p)
    <3>1. bills' = [bills EXCEPT ![p].status = "refunded"]
      BY <2>3 DEF RefundBill
    <3>2. new \in BillRow /\ new.status = "refunded"
      BY <1>1, <3>1 DEF BillRow, BillStatuses
    <3> QED
      BY <3>2
  <2> QED
    BY <2>1, <2>2, <2>3
<1> HIDE DEF row, new
<1>4. \A q \in Bills : bills'[q] \in BillRow
  BY <1>1, <1>2, <1>3 DEF new
<1>5. PaidInTime(bills')
  BY <1>1, <1>2, <1>3 DEF PaidInTime, new
<1>6. bills' \in [Bills -> BillRow]
  BY <1>2, <1>4
<1>7. PaidInTime(bills)'
  BY <1>5 DEF PaidInTime
<1> QED
  BY <1>1, <1>6, <1>7 DEF ReportTablesTyped

\* What the others write.
LEMMA PeopleAreTyped ==
    ASSUME ReportTablesTyped,
           \/ \E u \in Pupils : RemovePupil(u) \/ \E b \in BranchNames : MovePupil(u, b)
           \/ \E e \in Employees : HireOrFire(e) \/ \E s \in Salaries : UpdateSalary(e, s)
           \/ \E list \in BranchLists : Relist(list)
    PROVE  ReportTablesTyped' /\ Writes
<1>1. CASE \E u \in Pupils : RemovePupil(u) \/ \E b \in BranchNames : MovePupil(u, b)
  <2>1. Writes /\ UNCHANGED <<staff, bills, listed>>
    BY <1>1 DEF RemovePupil, MovePupil
  <2>2. pupils' \in [Pupils -> PupilRow]
    BY <1>1 DEF ReportTablesTyped, RemovePupil, MovePupil, PupilRow
  <2> QED
    BY <2>1, <2>2 DEF ReportTablesTyped, PaidInTime
<1>2. CASE \E e \in Employees : HireOrFire(e) \/ \E s \in Salaries : UpdateSalary(e, s)
  <2>1. Writes /\ UNCHANGED <<pupils, bills, listed>>
    BY <1>2 DEF HireOrFire, UpdateSalary
  <2>2. Salaries \subseteq Nat
    BY ReportsAssumption
  <2>3. staff' \in [Employees -> StaffRow]
    <3>1. CASE \E e \in Employees : HireOrFire(e)
      <4> PICK e \in Employees : HireOrFire(e)
        BY <3>1
      <4> DEFINE serves == ~staff[e].active
      <4>1. staff' = [staff EXCEPT ![e].active = serves]
        BY DEF HireOrFire
      <4>2. serves \in BOOLEAN
        OBVIOUS
      <4> HIDE DEF serves
      <4> QED
        BY <4>1, <4>2 DEF ReportTablesTyped, StaffRow
    <3>2. CASE \E e \in Employees : \E s \in Salaries : UpdateSalary(e, s)
      BY <2>2, <3>2 DEF ReportTablesTyped, UpdateSalary, StaffRow
    <3> QED
      BY <1>2, <3>1, <3>2
  <2> QED
    BY <2>1, <2>3 DEF ReportTablesTyped, PaidInTime
<1>3. CASE \E list \in BranchLists : Relist(list)
  BY <1>3 DEF ReportTablesTyped, Relist, PaidInTime
<1> QED
  BY <1>1, <1>2, <1>3

LEMMA ReportsStep ==
    ASSUME ReportsInv, Shape, ReportsNext
    PROVE  ReportsInv'
<1>1. CASE \E h \in Handlers : \E name \in DOMAIN Queries : \E filter \in Filters(name) :
             AskReport(h, name, filter)
  BY <1>1, AskReportKeeps
<1>2. CASE \E h \in Handlers : RunQuery(h) \/ SendReport(h) \/ ReportsBreak(h)
  BY <1>2, RunQueryKeeps, ReportEndsKeep
<1>3. CASE \/ \E p \in Bills : PayBill(p) \/ SettleInvoice(p) \/ RefundBill(p)
           \/ \E u \in Pupils : RemovePupil(u) \/ \E b \in BranchNames : MovePupil(u, b)
           \/ \E e \in Employees : HireOrFire(e) \/ \E s \in Salaries : UpdateSalary(e, s)
           \/ \E list \in BranchLists : Relist(list)
  <2>1. ReportTablesTyped' /\ Writes
    BY <1>3, BillIsTyped, PeopleAreTyped DEF ReportsInv
  <2> QED
    BY <2>1, TornReports DEF ReportsInv
<1> QED
  BY <1>1, <1>2, <1>3 DEF ReportsNext

ReportsPart == focus = "reports" => ReportsInv

LEMMA ReportsPartHolds == Spec => []ReportsPart
<1>1. Init => ReportsPart
  <2> SUFFICES ASSUME Init, focus = "reports" PROVE ReportsInv
    BY DEF ReportsPart
  <2>1. ReportsInit /\ ControlInit
    BY DEF Init
  <2>2. ReportTablesTyped
    BY <2>1, ReportsAssumption DEF ReportsInit, ReportTablesTyped
  <2>3. \A h \in Handlers : ReportAtWork(h)
    BY <2>1 DEF ControlInit, ReportAtWork, At, Idle
  <2> QED
    BY <2>2, <2>3 DEF ReportsInv
<1>2. ReportsPart /\ KeepsToPart /\ [Next]_vars => ReportsPart'
  <2> SUFFICES ASSUME ReportsPart, KeepsToPart, [Next]_vars, focus' = "reports" PROVE ReportsInv'
    BY DEF ReportsPart
  <2>1. focus = "reports" /\ ReportsInv /\ Shape
    BY DEF Next, vars, ReportsPart, KeepsToPart, Within
  <2>2. CASE ReportsNext
    BY <2>1, <2>2, ReportsStep
  <2>3. CASE UNCHANGED vars
    <3>1. UNCHANGED reportTables /\ UNCHANGED task
      BY <2>3 DEF vars, control
    <3>2. \A h \in Handlers : ReportAtWork(h)'
      BY <2>1, <3>1, OtherReports
    <3> QED
      BY <2>1, <3>1, <3>2 DEF ReportsInv, ReportTablesTyped, reportTables, PaidInTime
  <2> QED
    BY <2>1, <2>2, <2>3 DEF Next
<1> QED
  BY <1>1, <1>2, KeepsToPartHolds, PTL DEF Spec
-----------------------------------------------------------------------------
(* The figures of a report during which nothing was written are those of   *)
(* the tables.                                                             *)

LEMMA SettledAnswers ==
    ASSUME ReportsInv, NEW name \in DOMAIN Queries, NEW d \in Settled(name)
    PROVE  /\ d.name = name /\ d.asked \in Filters(name)
           /\ \A q \in Asked(name) : d.answers[q] = AnswerTo(d, q)
<1>1. PICK h \in Handlers : At(h, "compose") /\ Data(h).name = name /\ ~Data(h).torn /\ d = Data(h)
  BY DEF Settled
<1>2. /\ ReportData(d) /\ StillTrue(d) /\ Asked(name) \subseteq DOMAIN d.answers
      /\ d.name = name /\ ~d.torn
  BY <1>1 DEF ReportsInv, ReportAtWork
<1> QED
  BY <1>2 DEF ReportData, StillTrue

LEMMA FigureIs ==
    ASSUME ReportsInv, NEW name \in DOMAIN Queries, NEW d \in Settled(name), NEW n,
           <<n, 0>> \in Asked(name)
    PROVE  Figure(d.answers, n) = AnswerTo(d, <<n, 0>>)
BY SettledAnswers DEF Figure

-----------------------------------------------------------------------------
(* Sums of amounts.                                                        *)

Totals   == [p \in Bills |-> bills[p].total]
WagesAre == [e \in Employees |-> staff[e].salary]

LEMMA AmountIs ==
    ASSUME ReportTablesTyped, NEW S, S \subseteq Bills
    PROVE  /\ IsFiniteSet(S) /\ AmountOf(S) = SumOver(Totals, S) /\ AmountOf(S) \in Int
           /\ \A p \in S : Totals[p] \in Int
<1> DEFINE own == [p \in S |-> bills[p].total]
<1>1. IsFiniteSet(S)
  BY ReportsAssumption, FS_Subset
<1>2. \A p \in S : Totals[p] = bills[p].total /\ bills[p].total \in Int
  BY DEF Totals, ReportTablesTyped, BillRow
<1>3. AmountOf(S) = SumOver(own, S)
  BY DEF AmountOf, Total
<1>4. \A p \in S : own[p] = Totals[p] /\ Totals[p] \in Int
  BY <1>2
<1> HIDE DEF own
<1>5. SumOver(own, S) = SumOver(Totals, S)
  BY <1>1, <1>4, SumOverAgree
<1>6. SumOver(Totals, S) \in Int
  BY <1>1, <1>4, SumOverInt
<1> QED
  BY <1>1, <1>3, <1>4, <1>5, <1>6

NoNegative(rows) == \A p \in Bills : rows[p].total \in Nat

\* Of rows with no negative amount, more have no smaller one.
LEMMA AmountGrows ==
    ASSUME ReportTablesTyped, NoNegative(bills), NEW S, S \subseteq Bills, NEW R, R \subseteq S
    PROVE  AmountOf(R) <= AmountOf(S) /\ AmountOf(R) \in Nat
<1>1. \A p \in S : Totals[p] \in Nat
  BY DEF Totals, NoNegative
<1>2. /\ IsFiniteSet(S) /\ AmountOf(S) = SumOver(Totals, S)
      /\ IsFiniteSet(R) /\ AmountOf(R) = SumOver(Totals, R)
  BY AmountIs
<1>3. SumOver(Totals, R) <= SumOver(Totals, S)
  BY <1>1, <1>2, SumOverGrows
<1>4. SumOver(Totals, R) \in Nat
  BY <1>1, <1>2, SumOverNat
<1> QED
  BY <1>2, <1>3, <1>4

LEMMA BranchesFinite == IsFiniteSet(Branched) /\ IsFiniteSet(BranchNames)
<1>1. IsFiniteSet(BranchNames \cup {None})
  BY ReportsAssumption, FS_AddElement
<1> QED
  BY <1>1, ReportsAssumption DEF Branched

\* The branches share out the amount of any payments.
LEMMA EarnedShares ==
    ASSUME ReportTablesTyped, NEW S, S \subseteq Bills
    PROVE  /\ DOMAIN EarnedByBranch(S) = Branched
           /\ \A b \in Branched : EarnedByBranch(S)[b] \in Int
           /\ SumOver(EarnedByBranch(S), Branched) = AmountOf(S)
<1> DEFINE k == [p \in S |-> pupils[bills[p].pupil].branch]
           g == EarnedByBranch(S)
<1>1. \A p \in S : k[p] \in Branched
  BY DEF ReportTablesTyped, BillRow, PupilRow, Branched
<1>2. ASSUME NEW b \in Branched
      PROVE  g[b] = SumOver(Totals, Fibre(S, k, b)) /\ g[b] \in Int
  <2>1. g[b] = AmountOf({p \in S : pupils[bills[p].pupil].branch = b})
    BY DEF EarnedByBranch
  <2>2. {p \in S : pupils[bills[p].pupil].branch = b} = Fibre(S, k, b)
    BY DEF Fibre
  <2>3. Fibre(S, k, b) \subseteq Bills
    BY DEF Fibre
  <2> HIDE DEF g, k
  <2> QED
    BY <2>1, <2>2, <2>3, AmountIs
<1>3. DOMAIN g = Branched
  BY DEF EarnedByBranch
<1>4. IsFiniteSet(S) /\ AmountOf(S) = SumOver(Totals, S) /\ \A p \in S : Totals[p] \in Int
  BY AmountIs
<1> HIDE DEF g, k
<1>5. SumOver(g, Branched) = SumOver(Totals, S)
  BY <1>1, <1>2, <1>4, BranchesFinite, SumOverFibres
<1> QED
  BY <1>2, <1>3, <1>4, <1>5 DEF g

\* They share out all salaries.
LEMMA SpentShares ==
    ASSUME ReportTablesTyped
    PROVE  /\ DOMAIN SpentByBranch = Branched
           /\ \A b \in Branched : SpentByBranch[b] \in Int
           /\ SumOver(SpentByBranch, Branched) = Expenses
<1> DEFINE k == [e \in Payroll |-> staff[e].branch]
           g == SpentByBranch
<1>1. /\ \A e \in Payroll : k[e] \in Branched /\ WagesAre[e] \in Int
      /\ IsFiniteSet(Payroll)
  <2>1. IsFiniteSet(Payroll)
    BY ReportsAssumption, FS_Subset DEF Payroll
  <2>2. ASSUME NEW e \in Payroll PROVE k[e] \in Branched /\ WagesAre[e] \in Int
    <3>1. e \in Employees /\ staff[e] \in StaffRow /\ staff[e].salary # None
      BY DEF Payroll, ReportTablesTyped
    <3> QED
      BY <3>1 DEF StaffRow, WagesAre, Branched
  <2> QED
    BY <2>1, <2>2
<1>2. ASSUME NEW S, S \subseteq Payroll
      PROVE  SalariesOf(S) = SumOver(WagesAre, S) /\ SumOver(WagesAre, S) \in Int
  <2> DEFINE own == [e \in S |-> staff[e].salary]
  <2>1. SalariesOf(S) = SumOver(own, S)
    BY DEF SalariesOf, Total
  <2>2. IsFiniteSet(S) /\ \A e \in S : WagesAre[e] \in Int
    BY <1>1, <1>2, FS_Subset
  <2>3. \A e \in S : own[e] = WagesAre[e]
    BY <1>2 DEF WagesAre, Payroll
  <2> HIDE DEF own
  <2> QED
    BY <2>1, <2>2, <2>3, SumOverAgree, SumOverInt
<1>3. ASSUME NEW b \in Branched
      PROVE  g[b] = SumOver(WagesAre, Fibre(Payroll, k, b)) /\ g[b] \in Int
  <2>1. g[b] = SalariesOf({e \in Payroll : staff[e].branch = b})
    BY DEF SpentByBranch
  <2>2. {e \in Payroll : staff[e].branch = b} = Fibre(Payroll, k, b)
    BY DEF Fibre
  <2>3. Fibre(Payroll, k, b) \subseteq Payroll
    BY DEF Fibre
  <2> HIDE DEF g, k
  <2> QED
    BY <1>2, <2>1, <2>2, <2>3
<1>4. DOMAIN g = Branched
  BY DEF SpentByBranch
<1>5. Expenses = SumOver(WagesAre, Payroll)
  BY <1>2 DEF Expenses
<1> HIDE DEF g, k
<1>6. SumOver(g, Branched) = SumOver(WagesAre, Payroll)
  BY <1>1, <1>3, BranchesFinite, SumOverFibres
<1> QED
  BY <1>3, <1>4, <1>5, <1>6 DEF g

\* They share out all students.
LEMMA StudentsShare ==
    ASSUME ReportTablesTyped
    PROVE  /\ DOMAIN StudentsByBranch = Branched
           /\ \A b \in Branched : StudentsByBranch[b] \in Nat
           /\ SumOver(StudentsByBranch, Branched) = Cardinality(Enrolled)
<1> DEFINE k == [u \in Enrolled |-> pupils[u].branch]
           g == StudentsByBranch
<1>1. IsFiniteSet(Enrolled)
  BY ReportsAssumption, FS_Subset DEF Enrolled
<1>2. \A u \in Enrolled : k[u] \in Branched
  BY DEF ReportTablesTyped, PupilRow, Branched, Enrolled
<1>3. ASSUME NEW b \in Branched
      PROVE  g[b] = Cardinality(Fibre(Enrolled, k, b)) /\ g[b] \in Nat
  <2>1. g[b] = Cardinality({u \in Enrolled : pupils[u].branch = b})
    BY DEF StudentsByBranch
  <2>2. {u \in Enrolled : pupils[u].branch = b} = Fibre(Enrolled, k, b)
    BY DEF Fibre
  <2>3. IsFiniteSet(Fibre(Enrolled, k, b))
    BY <1>1, FS_Subset DEF Fibre
  <2> HIDE DEF g, k
  <2> QED
    BY <2>1, <2>2, <2>3, FS_CardinalityType
<1>4. DOMAIN g = Branched
  BY DEF StudentsByBranch
<1> HIDE DEF g, k
<1>5. SumOver(g, Branched) = Cardinality(Enrolled)
  BY <1>1, <1>2, <1>3, BranchesFinite, CardinalityFibres
<1> QED
  BY <1>3, <1>4, <1>5 DEF g
-----------------------------------------------------------------------------
(* Breakdowns by the names that branches resolve to.                       *)

ListedNames(list) == {list[i].name : i \in DOMAIN list}
EveryName(list)   == ListedNames(list) \cup {Resolve(list, b) : b \in Branched}

LEMMA NamesFinite ==
    ASSUME NEW list \in BranchLists
    PROVE  IsFiniteSet(EveryName(list))
<1> DEFINE top == BranchNames \cup {MainOf(list)}
<1>1. IsFiniteSet(top)
  BY BranchesFinite, FS_AddElement
<1>2. list \in Seq([name : BranchNames, main : BOOLEAN])
  BY ReportsAssumption
<1>3. \A i \in DOMAIN list : list[i].name \in BranchNames
  <2> DEFINE Row == [name : BranchNames, main : BOOLEAN]
  <2>1. \A row \in Row : row.name \in BranchNames
    OBVIOUS
  <2>2. list \in Seq(Row)
    BY <1>2
  <2> HIDE DEF Row
  <2>3. list \in [1 .. Len(list) -> Row]
    BY <2>2, LenProperties
  <2> QED
    BY <2>1, <2>3
<1>4. \A b \in Branched : Resolve(list, b) \in top
  BY DEF Resolve, Branched
<1>5. EveryName(list) \subseteq top
  BY <1>3, <1>4 DEF EveryName, ListedNames
<1> HIDE DEF top
<1> QED
  BY <1>1, <1>5, FS_Subset

\* What a breakdown shows adds up to what its rows do, whichever list it resolves with.
LEMMA BreakdownShares ==
    ASSUME NEW list \in BranchLists, NEW rows, DOMAIN rows = Branched,
           \A b \in Branched : rows[b] \in Int
    PROVE  /\ DOMAIN Breakdown(list, rows) = EveryName(list)
           /\ Total(Breakdown(list, rows)) = SumOver(rows, Branched)
           /\ \A n \in EveryName(list) :
                Breakdown(list, rows)[n] = SumOver(rows, {b \in Branched : Resolve(list, b) = n})
<1> DEFINE k == [b \in Branched |-> Resolve(list, b)]
           g == Breakdown(list, rows)
           N == EveryName(list)
<1>1. \A b \in Branched : k[b] \in N
  BY DEF EveryName
<1>2. DOMAIN g = N
  BY DEF Breakdown, EveryName, ListedNames
<1>3. \A n \in N : g[n] = SumOver(rows, {b \in Branched : Resolve(list, b) = n})
  BY DEF Breakdown, EveryName, ListedNames
<1>4. \A n \in N : g[n] = SumOver(rows, Fibre(Branched, k, n))
  <2>1. \A n : {b \in Branched : Resolve(list, b) = n} = Fibre(Branched, k, n)
    BY DEF Fibre
  <2> HIDE DEF g, k, N
  <2> QED
    BY <1>3, <2>1
<1>5. IsFiniteSet(N)
  BY NamesFinite
<1> HIDE DEF g, k, N
<1>6. SumOver(g, N) = SumOver(rows, Branched)
  BY <1>1, <1>4, <1>5, BranchesFinite, SumOverFibres
<1>7. Total(g) = SumOver(rows, Branched)
  BY <1>2, <1>6 DEF Total
<1> QED
  BY <1>2, <1>3, <1>7 DEF g, N

\* Figures read under names of which no two are the same sum to no more than all do.
LEMMA NamedWithin ==
    ASSUME NEW F, IsFiniteSet(F), NEW N, IsFiniteSet(N), NEW k, \A i \in F : k[i] \in N,
           \A i, j \in F : k[i] = k[j] => i = j,
           NEW all, \A n \in N : all[n] \in Nat, NEW g, \A i \in F : g[i] = all[k[i]]
    PROVE  SumOver(g, F) <= SumOver(all, N)
<1> DEFINE by == [n \in N |-> SumOver(g, Fibre(F, k, n))]
<1>1. \A i \in F : g[i] \in Int
  OBVIOUS
<1>2. \A n \in N : by[n] = SumOver(g, Fibre(F, k, n))
  OBVIOUS
<1> HIDE DEF by
<1>3. SumOver(by, N) = SumOver(g, F)
  BY <1>1, <1>2, SumOverFibres
<1>4. ASSUME NEW n \in N PROVE by[n] \in Int /\ by[n] <= all[n]
  <2>1. CASE Fibre(F, k, n) = {}
    BY <1>2, <2>1, SumOverEmpty
  <2>2. CASE Fibre(F, k, n) # {}
    <3>1. PICK i : i \in Fibre(F, k, n)
      BY <2>2
    <3>2. i \in F /\ k[i] = n /\ Fibre(F, k, n) = {i}
      BY <3>1 DEF Fibre
    <3>3. SumOver(g, {} \cup {i}) = SumOver(g, {}) + g[i]
      BY <1>1, <3>2, FS_EmptySet, SumOverAdd
    <3>4. SumOver(g, {i}) = g[i]
      BY <1>1, <3>2, <3>3, SumOverEmpty
    <3> QED
      BY <1>2, <3>2, <3>4
  <2> QED
    BY <2>1, <2>2
<1>5. SumOver(by, N) <= SumOver(all, N)
  BY <1>4, SumOverAtMost
<1> QED
  BY <1>3, <1>5

\* The cards of the listed branches, counted once for each name, show no more than there is.
LEMMA CardsWithin ==
    ASSUME NEW list \in BranchLists, NEW rows, DOMAIN rows = Branched,
           \A b \in Branched : rows[b] \in Nat
    PROVE  SumOver(Cards(list, rows), OncePerName(list)) <= SumOver(rows, Branched)
<1> DEFINE all == Breakdown(list, rows)
           N == EveryName(list)
           F == OncePerName(list)
           k == [i \in DOMAIN list |-> list[i].name]
           cards == Cards(list, rows)
<1>1. \A i \in F : i \in DOMAIN list
  BY DEF OncePerName
<1>2. IsFiniteSet(F) /\ \A i \in F : i \in Nat
  <2>1. list \in Seq([name : BranchNames, main : BOOLEAN])
    BY ReportsAssumption
  <2>2. DOMAIN list = 1 .. Len(list) /\ Len(list) \in Nat
    BY <2>1
  <2>3. IsFiniteSet(1 .. Len(list))
    BY <2>2, FS_Interval
  <2> QED
    BY <1>1, <2>2, <2>3, FS_Subset
<1>3. \A i \in F : k[i] \in N /\ cards[i] = all[k[i]]
  BY <1>1 DEF Cards, EveryName, ListedNames
<1>4. ASSUME NEW i \in F, NEW j \in F, k[i] = k[j] PROVE i = j
  <2>1. list[i].name = list[j].name
    BY <1>1, <1>4
  <2>2. ~(i < j) /\ ~(j < i)
    BY <1>1, <2>1 DEF OncePerName
  <2> QED
    BY <1>2, <2>2
<1>5. /\ DOMAIN all = N
      /\ Total(all) = SumOver(rows, Branched)
      /\ \A n \in N : all[n] = SumOver(rows, {b \in Branched : Resolve(list, b) = n})
  BY BreakdownShares
<1>6. \A n \in N : all[n] \in Nat
  <2>1. ASSUME NEW n \in N PROVE SumOver(rows, {b \in Branched : Resolve(list, b) = n}) \in Nat
    <3> DEFINE S == {b \in Branched : Resolve(list, b) = n}
    <3>1. IsFiniteSet(S) /\ \A b \in S : rows[b] \in Nat
      BY BranchesFinite, FS_Subset
    <3> HIDE DEF S
    <3>2. SumOver(rows, S) \in Nat
      BY <3>1, SumOverNat
    <3> QED
      BY <3>2 DEF S
  <2> QED
    BY <1>5, <2>1
<1>7. IsFiniteSet(N)
  BY NamesFinite
<1> HIDE DEF all, N, F, k, cards
<1>8. SumOver(cards, F) <= SumOver(all, N)
  BY <1>2, <1>3, <1>4, <1>6, <1>7, NamedWithin
<1>9. SumOver(all, N) = SumOver(rows, Branched)
  BY <1>5 DEF Total
<1> QED
  BY <1>8, <1>9 DEF cards, F

\* What the students owe, each in a summary of their own, is what is due.
LEMMA DebtsShare ==
    ASSUME ReportTablesTyped
    PROVE  Total([u \in Pupils |-> DebtSummary(u).count]) = Cardinality(Open)
<1> DEFINE k == [p \in Open |-> bills[p].pupil]
           g == [u \in Pupils |-> DebtSummary(u).count]
<1>1. IsFiniteSet(Open) /\ IsFiniteSet(Pupils)
  BY ReportsAssumption, FS_Subset DEF Open
<1>2. \A p \in Open : k[p] \in Pupils
  BY DEF Open, ReportTablesTyped, BillRow
<1>3. ASSUME NEW u \in Pupils PROVE g[u] = Cardinality(Fibre(Open, k, u))
  <2>1. {p \in Open : bills[p].pupil = u} = Fibre(Open, k, u)
    BY DEF Fibre
  <2> HIDE DEF k
  <2> QED
    BY <2>1 DEF DebtSummary
<1>4. Total(g) = SumOver(g, Pupils)
  BY DEF Total
<1> HIDE DEF g, k
<1>5. SumOver(g, Pupils) = Cardinality(Open)
  BY <1>1, <1>2, <1>3, CardinalityFibres
<1> QED
  BY <1>4, <1>5 DEF g

-----------------------------------------------------------------------------
(* Months.                                                                 *)

\* The month of a second, and where in it the second is.
LEMMA MonthOfSecond ==
    ASSUME NEW l \in Nat, l >= 2, NEW m \in Nat, NEW t \in 0 .. m * l - 1
    PROVE  LET q == t \div l  r == t % l IN
           /\ q \in 0 .. m - 1 /\ r \in 0 .. l - 1 /\ t = q * l + r
           /\ \A j \in 0 .. m - 1 : j * l <= t /\ t <= j * l + l - 2 <=> q = j /\ r # l - 1
<1> DEFINE q == t \div l
           r == t % l
<1>1. q \in Nat /\ r \in 0 .. l - 1 /\ t = q * l + r
  <2>1. \A a \in Nat, b \in Nat \ {0} : /\ a \div b \in Nat /\ a % b \in 0 .. b - 1
                                        /\ a = ((a \div b) * b) + (a % b)
    OBVIOUS
  <2>2. t \in Nat /\ l \in Nat \ {0}
    OBVIOUS
  <2> QED
    BY <2>1, <2>2
<1> HIDE DEF q, r
<1>2. \A a, b \in Nat : a + 1 <= b => a * l + l <= b * l
  <2>1. \A a, b, c \in Nat : (a <= b => a * c <= b * c) /\ (a + 1) * c = a * c + c
    OBVIOUS
  <2>2. \A a \in Nat : a + 1 \in Nat
    OBVIOUS
  <2> QED
    BY <2>1, <2>2
<1>3. \A a \in Nat : a * l \in Nat
  OBVIOUS
<1>4. q < m
  <2> SUFFICES ASSUME ~(q < m) PROVE FALSE
    OBVIOUS
  <2>1. m <= q
    BY <1>1
  <2>2. m * l <= q * l
    <3>1. \A a, b, c \in Nat : a <= b => a * c <= b * c
      OBVIOUS
    <3> QED
      BY <1>1, <2>1, <3>1
  <2> DEFINE x == m * l
             y == q * l
  <2>3. x \in Nat /\ y \in Nat /\ t \in 0 .. x - 1 /\ x <= y /\ t = y + r
    BY <1>1, <1>3, <2>2
  <2> HIDE DEF x, y
  <2> QED
    BY <1>1, <2>3
<1>5. ASSUME NEW j \in 0 .. m - 1
      PROVE  j * l <= t /\ t <= j * l + l - 2 <=> q = j /\ r # l - 1
  <2> DEFINE x == j * l
             y == q * l
  <2>1. x \in Nat /\ y \in Nat /\ j \in Nat
    BY <1>1, <1>3
  <2>2. (j + 1 <= q => x + l <= y) /\ (q + 1 <= j => y + l <= x) /\ (j = q => x = y)
    BY <1>1, <1>2, <2>1
  <2>3. t = y + r /\ t \in Int
    BY <1>1
  <2> HIDE DEF x, y
  <2>4. x <= t /\ t <= x + l - 2 <=> q = j /\ r # l - 1
    BY <1>1, <2>1, <2>2, <2>3
  <2> QED
    BY <2>4 DEF x
<1>6. q \in 0 .. m - 1
  BY <1>1, <1>4
<1> QED
  BY <1>1, <1>5, <1>6 DEF q, r

\* What was paid in a month, but in its last second.
InMonths == {p \in Paid : bills[p].at % MonthLength # MonthLength - 1}

LEMMA PaidMonths ==
    ASSUME ReportTablesTyped, NEW p \in Paid
    PROVE  LET i == Months - 1 - (bills[p].at \div MonthLength) IN
           /\ i \in 0 .. Months - 1
           /\ \A j \in 0 .. Months - 1 :
                bills[p].at \in Window(j).from .. Window(j).to <=> p \in InMonths /\ i = j
<1> DEFINE l == MonthLength
           m == Months
           t == bills[p].at
           q == t \div l
           r == t % l
           i == m - 1 - q
<1>1. l \in Nat /\ l >= 2 /\ m \in Nat /\ m >= 2
  BY ReportsAssumption
<1>2. t \in 0 .. m * l - 1
  BY DEF Paid, ReportTablesTyped, PaidInTime
<1> HIDE DEF l, m, t
<1>3. /\ q \in 0 .. m - 1 /\ r \in 0 .. l - 1 /\ t = q * l + r
      /\ \A j \in 0 .. m - 1 : j * l <= t /\ t <= j * l + l - 2 <=> q = j /\ r # l - 1
  BY <1>1, <1>2, MonthOfSecond
<1>4. p \in InMonths <=> r # l - 1
  BY DEF InMonths, l, t
<1>5. t \in Int
  BY <1>2
<1> HIDE DEF q, r
<1>6. ASSUME NEW j \in 0 .. m - 1
      PROVE  t \in Window(j).from .. Window(j).to <=> p \in InMonths /\ i = j
  <2> DEFINE x == (m - 1 - j) * l
  <2>1. m - 1 - j \in 0 .. m - 1 /\ (q = m - 1 - j <=> i = j)
    BY <1>1, <1>3
  <2>2. x <= t /\ t <= x + l - 2 <=> q = m - 1 - j /\ r # l - 1
    BY <1>3, <2>1
  <2>3. Window(j).from = x /\ Window(j).to = x + l - 2
    BY DEF Window, MonthOf, l, m
  <2>4. x \in Int
    BY <1>1, <2>1
  <2> HIDE DEF x, i
  <2> QED
    BY <1>1, <1>4, <1>5, <2>1, <2>2, <2>3, <2>4
<1>7. i \in 0 .. m - 1
  BY <1>1, <1>3
<1> QED
  BY <1>6, <1>7 DEF q, l, m, t

\* The windows of the months share out what was paid in them.
LEMMA MonthsShare ==
    ASSUME ReportTablesTyped
    PROVE  /\ \A i \in 0 .. Months - 1 : EarnedIn(i) \in Int
           /\ \A g : (\A i \in 0 .. Months - 1 : g[i] = EarnedIn(i))
                       => SumOver(g, 0 .. Months - 1) = AmountOf(InMonths)
<1> DEFINE k == [p \in InMonths |-> Months - 1 - (bills[p].at \div MonthLength)]
           I == 0 .. Months - 1
<1>1. IsFiniteSet(I)
  BY ReportsAssumption, FS_Interval
<1>2. \A p \in InMonths : p \in Paid /\ k[p] = Months - 1 - (bills[p].at \div MonthLength)
  BY DEF InMonths
<1>3. \A p \in InMonths : k[p] \in I
  BY <1>2, PaidMonths
<1>4. ASSUME NEW i \in I
      PROVE  {p \in Paid : bills[p].at \in Window(i).from .. Window(i).to} = Fibre(InMonths, k, i)
  <2>1. ASSUME NEW p \in Paid
        PROVE  bills[p].at \in Window(i).from .. Window(i).to <=> p \in Fibre(InMonths, k, i)
    BY PaidMonths DEF Fibre
  <2>2. \A p \in Fibre(InMonths, k, i) : p \in Paid
    BY <1>2 DEF Fibre
  <2> HIDE DEF k
  <2> QED
    BY <2>1, <2>2
<1> HIDE DEF k, I
<1>5. InMonths \subseteq Bills
  BY DEF InMonths, Paid
<1>6. ASSUME NEW i \in I
      PROVE  EarnedIn(i) = SumOver(Totals, Fibre(InMonths, k, i)) /\ EarnedIn(i) \in Int
  <2>1. Fibre(InMonths, k, i) \subseteq Bills
    BY <1>5 DEF Fibre
  <2>2. EarnedIn(i) = AmountOf(Fibre(InMonths, k, i))
    BY <1>4 DEF EarnedIn
  <2> QED
    BY <2>1, <2>2, AmountIs
<1>7. /\ IsFiniteSet(InMonths) /\ AmountOf(InMonths) = SumOver(Totals, InMonths)
      /\ \A p \in InMonths : Totals[p] \in Int
  BY <1>5, AmountIs
<1>8. ASSUME NEW g, \A i \in I : g[i] = EarnedIn(i)
      PROVE  SumOver(g, I) = AmountOf(InMonths)
  <2>1. \A i \in I : g[i] = SumOver(Totals, Fibre(InMonths, k, i))
    BY <1>6, <1>8
  <2>2. SumOver(g, I) = SumOver(Totals, InMonths)
    BY <1>1, <1>3, <1>7, <2>1, SumOverFibres
  <2> QED
    BY <1>7, <2>2
<1> QED
  BY <1>6, <1>8 DEF I

\* The months of GET /payments/report share out all that was paid.
LEMMA RevenueShares ==
    ASSUME ReportTablesTyped
    PROVE  Total(Revenue) = Income
<1> DEFINE k == [p \in Paid |-> Months - 1 - (bills[p].at \div MonthLength)]
           I == 0 .. Months - 1
<1>1. IsFiniteSet(I)
  BY ReportsAssumption, FS_Interval
<1>2. \A p \in Paid : k[p] \in I
  BY PaidMonths
<1>3. ASSUME NEW i \in I
      PROVE  {p \in Paid : bills[p].at \div MonthLength = Months - 1 - i} = Fibre(Paid, k, i)
  <2>1. ASSUME NEW p \in Paid
        PROVE  bills[p].at \div MonthLength = Months - 1 - i <=> p \in Fibre(Paid, k, i)
    <3> DEFINE q == bills[p].at \div MonthLength
    <3>1. Months - 1 - q \in I /\ Months \in Nat /\ i \in Int
      BY ReportsAssumption, PaidMonths
    <3>2. q \in Int
      <4>1. bills[p].at \in 0 .. Months * MonthLength - 1 /\ MonthLength \in Nat \ {0, 1}
        BY ReportsAssumption DEF Paid, ReportTablesTyped, PaidInTime
      <4>2. \A a \in Nat, b \in Nat \ {0} : a \div b \in Nat
        OBVIOUS
      <4>3. bills[p].at \in Nat
        BY <4>1
      <4> QED
        BY <4>1, <4>2, <4>3
    <3>3. p \in Fibre(Paid, k, i) <=> Months - 1 - q = i
      BY DEF Fibre
    <3> HIDE DEF q
    <3>4. q = Months - 1 - i <=> Months - 1 - q = i
      BY <3>1, <3>2
    <3> QED
      BY <3>3, <3>4 DEF q
  <2>2. Fibre(Paid, k, i) \subseteq Paid
    BY DEF Fibre
  <2> HIDE DEF k
  <2> QED
    BY <2>1, <2>2
<1> HIDE DEF k
<1>4. ASSUME NEW i \in I PROVE Revenue[i] = SumOver(Totals, Fibre(Paid, k, i))
  <2>1. Revenue[i] = AmountOf(Fibre(Paid, k, i))
    BY <1>3 DEF Revenue
  <2>2. Fibre(Paid, k, i) \subseteq Bills
    BY DEF Fibre, Paid
  <2> QED
    BY <2>1, <2>2, AmountIs
<1>5. Total(Revenue) = SumOver(Revenue, I)
  BY DEF Total, Revenue
<1>6. /\ IsFiniteSet(Paid) /\ Income = SumOver(Totals, Paid)
      /\ \A p \in Paid : Totals[p] \in Int
  BY AmountIs DEF Paid, Income
<1> HIDE DEF I
<1>7. SumOver(Revenue, I) = SumOver(Totals, Paid)
  BY <1>1, <1>2, <1>4, <1>6, SumOverFibres
<1> QED
  BY <1>5, <1>6, <1>7
-----------------------------------------------------------------------------
(* The figures.                                                            *)

\* What the months of a report have in all.
SumOfMonths(a) == Total([i \in 0 .. Months - 1 |-> a[<<"month", i>>]])

LEMMA MonthsOfReport ==
    ASSUME ReportsInv, NEW name \in {"months", "analytics"}, NEW d \in Settled(name)
    PROVE  SumOfMonths(d.answers) = AmountOf(InMonths)
<1> DEFINE g == [i \in 0 .. Months - 1 |-> d.answers[<<"month", i>>]]
<1>1. name \in DOMAIN Queries
  BY QueriesByName
<1>2. \A i \in 0 .. Months - 1 : <<"month", i>> \in Asked(name)
  BY MonthsAskedFor, AnalyticsAsked
<1>3. ASSUME NEW i \in 0 .. Months - 1 PROVE g[i] = EarnedIn(i)
  <2>1. d.answers[<<"month", i>>] = AnswerTo(d, <<"month", i>>)
    BY <1>1, <1>2, SettledAnswers
  <2>2. AnswerTo(d, <<"month", i>>) = EarnedIn(i)
    BY DEF AnswerTo
  <2> QED
    BY <2>1, <2>2
<1>4. Total(g) = SumOver(g, 0 .. Months - 1)
  BY DEF Total
<1> HIDE DEF g
<1>5. SumOver(g, 0 .. Months - 1) = AmountOf(InMonths)
  BY <1>3, MonthsShare DEF ReportsInv
<1>6. Total(g) = AmountOf(InMonths)
  BY <1>4, <1>5
<1> QED
  BY <1>6 DEF g, SumOfMonths

\* The queries that are not about a month.
LEMMA AnswersByName ==
    ASSUME NEW d
    PROVE  /\ AnswerTo(d, <<"branches", 0>>) = listed
           /\ AnswerTo(d, <<"students", 0>>) = Cardinality(Enrolled)
           /\ AnswerTo(d, <<"studentsByBranch", 0>>) = StudentsByBranch
           /\ AnswerTo(d, <<"income", 0>>) = Income
           /\ AnswerTo(d, <<"incomeByBranch", 0>>) = EarnedByBranch(Paid)
           /\ AnswerTo(d, <<"monthByBranch", 0>>) = EarnedByBranch(PaidFrom(MonthOf(0)))
           /\ AnswerTo(d, <<"overdue", 0>>) = Overdue
           /\ AnswerTo(d, <<"due", 0>>) = Due
           /\ AnswerTo(d, <<"expenses", 0>>) = Expenses
           /\ AnswerTo(d, <<"expensesByBranch", 0>>) = SpentByBranch
           /\ AnswerTo(d, <<"monitored", 0>>) = Monitored(d.asked)
           /\ AnswerTo(d, <<"byStatus", 0>>) = ByStatus
           /\ AnswerTo(d, <<"revenue", 0>>) = Revenue
           /\ AnswerTo(d, <<"total", 0>>) = Cardinality(Found(d.name, d.asked))
           /\ AnswerTo(d, <<"page", 0>>) = NewestOn(Found(d.name, d.asked), d.asked.page)
BY DEF AnswerTo

LEMMA FinancesAddUp ==
    ASSUME ReportsInv, NoNegative(bills), NEW d \in Settled("finances")
    PROVE  LET a == d.answers  list == Figure(a, "branches") IN
           /\ Total(Breakdown(list, Figure(a, "incomeByBranch"))) = Figure(a, "income")
           /\ Total(Breakdown(list, Figure(a, "expensesByBranch"))) = Figure(a, "expenses")
           /\ Figure(a, "overdue") <= Figure(a, "due").total
           /\ Total([u \in Pupils |-> DebtSummary(u).count]) = Figure(a, "due").count
<1>1. "finances" \in DOMAIN Queries
  BY QueriesByName
<1>2. \A n \in FinanceFigures : Figure(d.answers, n) = AnswerTo(d, <<n, 0>>)
  BY <1>1, FinancesAsked, FigureIs
<1>3. /\ Figure(d.answers, "branches") = listed
      /\ Figure(d.answers, "incomeByBranch") = EarnedByBranch(Paid)
      /\ Figure(d.answers, "income") = Income
      /\ Figure(d.answers, "expensesByBranch") = SpentByBranch
      /\ Figure(d.answers, "expenses") = Expenses
      /\ Figure(d.answers, "overdue") = Overdue
      /\ Figure(d.answers, "due") = Due
  BY <1>2, AnswersByName DEF FinanceFigures
<1>4. ReportTablesTyped /\ listed \in BranchLists
  BY DEF ReportsInv, ReportTablesTyped
<1>5. Total(Breakdown(listed, EarnedByBranch(Paid))) = Income
  <2>1. Paid \subseteq Bills
    BY DEF Paid
  <2>2. /\ DOMAIN EarnedByBranch(Paid) = Branched
        /\ \A b \in Branched : EarnedByBranch(Paid)[b] \in Int
        /\ SumOver(EarnedByBranch(Paid), Branched) = AmountOf(Paid)
    BY <1>4, <2>1, EarnedShares
  <2>3. Total(Breakdown(listed, EarnedByBranch(Paid))) = SumOver(EarnedByBranch(Paid), Branched)
    BY <1>4, <2>2, BreakdownShares
  <2> QED
    BY <2>2, <2>3 DEF Income
<1>6. Total(Breakdown(listed, SpentByBranch)) = Expenses
  BY <1>4, SpentShares, BreakdownShares
<1>7. Overdue <= Due.total
  <2> DEFINE late == {p \in Bills : bills[p].status = "overdue"}
  <2>1. late \subseteq Open /\ Open \subseteq Bills
    BY DEF Open
  <2>2. Due.total = AmountOf(Open) /\ Overdue = AmountOf(late)
    BY DEF Due, Overdue
  <2> HIDE DEF late
  <2> QED
    BY <1>4, <2>1, <2>2, AmountGrows
<1>8. Total([u \in Pupils |-> DebtSummary(u).count]) = Due.count
  BY <1>4, DebtsShare DEF Due
<1> QED
  BY <1>3, <1>5, <1>6, <1>7, <1>8

LEMMA AnalyticsShare ==
    ASSUME ReportsInv, NoNegative(bills), NEW d \in Settled("analytics")
    PROVE  /\ Total(Breakdown(Figure(d.answers, "branches"), Figure(d.answers, "studentsByBranch")))
                = Figure(d.answers, "students")
           /\ SumOfMonths(d.answers) <=
                Total(Breakdown(Figure(d.answers, "branches"), Figure(d.answers, "incomeByBranch")))
<1>1. "analytics" \in DOMAIN Queries
  BY QueriesByName
<1>2. \A n \in AnalyticFigures : Figure(d.answers, n) = AnswerTo(d, <<n, 0>>)
  BY <1>1, AnalyticsAsked, FigureIs
<1>3. /\ Figure(d.answers, "branches") = listed
      /\ Figure(d.answers, "incomeByBranch") = EarnedByBranch(Paid)
      /\ Figure(d.answers, "studentsByBranch") = StudentsByBranch
      /\ Figure(d.answers, "students") = Cardinality(Enrolled)
  BY <1>2, AnswersByName DEF AnalyticFigures
<1>4. ReportTablesTyped /\ listed \in BranchLists
  BY DEF ReportsInv, ReportTablesTyped
<1>5. Paid \subseteq Bills /\ InMonths \subseteq Paid
  BY DEF Paid, InMonths
<1>6. Total(Breakdown(listed, EarnedByBranch(Paid))) = AmountOf(Paid)
  <2>1. /\ DOMAIN EarnedByBranch(Paid) = Branched
        /\ \A b \in Branched : EarnedByBranch(Paid)[b] \in Int
        /\ SumOver(EarnedByBranch(Paid), Branched) = AmountOf(Paid)
    BY <1>4, <1>5, EarnedShares
  <2> QED
    BY <1>4, <2>1, BreakdownShares
<1>7. Total(Breakdown(listed, StudentsByBranch)) = Cardinality(Enrolled)
  <2>1. \A b \in Branched : StudentsByBranch[b] \in Int
    BY <1>4, StudentsShare
  <2> QED
    BY <1>4, <2>1, StudentsShare, BreakdownShares
<1>8. AmountOf(InMonths) <= AmountOf(Paid) /\ AmountOf(InMonths) \in Int /\ AmountOf(Paid) \in Int
  BY <1>4, <1>5, AmountGrows, AmountIs
<1>9. SumOfMonths(d.answers) = AmountOf(InMonths)
  BY MonthsOfReport
<1>10. SumOfMonths(d.answers) <= Total(Breakdown(listed, EarnedByBranch(Paid)))
  BY <1>6, <1>8, <1>9
<1>11. /\ Total(Breakdown(Figure(d.answers, "branches"), Figure(d.answers, "studentsByBranch")))
            = Figure(d.answers, "students")
       /\ SumOfMonths(d.answers) <=
            Total(Breakdown(Figure(d.answers, "branches"), Figure(d.answers, "incomeByBranch")))
  BY <1>3, <1>7, <1>10
<1> QED
  BY <1>11

LEMMA CardsAddUp ==
    ASSUME ReportsInv, NoNegative(bills), NEW d \in Settled("branches")
    PROVE  LET list  == Figure(d.answers, "branches")
               first == OncePerName(list)
           IN  /\ SumOver(Cards(list, Figure(d.answers, "monthByBranch")), first) <= MonthIncome
               /\ SumOver(Cards(list, Figure(d.answers, "studentsByBranch")), first)
                    <= Cardinality(Enrolled)
<1>1. "branches" \in DOMAIN Queries
  BY QueriesByName
<1>2. \A n \in BranchFigures : Figure(d.answers, n) = AnswerTo(d, <<n, 0>>)
  BY <1>1, BranchesAsked, FigureIs
<1> DEFINE S == PaidFrom(MonthOf(0))
<1>3. /\ Figure(d.answers, "branches") = listed
      /\ Figure(d.answers, "monthByBranch") = EarnedByBranch(S)
      /\ Figure(d.answers, "studentsByBranch") = StudentsByBranch
  BY <1>2, AnswersByName DEF BranchFigures
<1>4. ReportTablesTyped /\ listed \in BranchLists
  BY DEF ReportsInv, ReportTablesTyped
<1>5. S \subseteq Bills /\ MonthIncome = AmountOf(S)
  BY DEF PaidFrom, Paid, MonthIncome
<1> HIDE DEF S
<1>6. \A b \in Branched : EarnedByBranch(S)[b] \in Nat
  <2> SUFFICES ASSUME NEW b \in Branched PROVE EarnedByBranch(S)[b] \in Nat
    OBVIOUS
  <2> DEFINE own == {p \in S : pupils[bills[p].pupil].branch = b}
  <2>1. EarnedByBranch(S)[b] = AmountOf(own) /\ own \subseteq S
    BY DEF EarnedByBranch
  <2> HIDE DEF own
  <2> QED
    BY <1>4, <1>5, <2>1, AmountGrows
<1>7. SumOver(Cards(listed, EarnedByBranch(S)), OncePerName(listed)) <= MonthIncome
  <2>1. /\ DOMAIN EarnedByBranch(S) = Branched
        /\ SumOver(EarnedByBranch(S), Branched) = AmountOf(S)
    BY <1>4, <1>5, EarnedShares
  <2> QED
    BY <1>4, <1>5, <1>6, <2>1, CardsWithin
<1>8. SumOver(Cards(listed, StudentsByBranch), OncePerName(listed)) <= Cardinality(Enrolled)
  <2>1. /\ DOMAIN StudentsByBranch = Branched
        /\ \A b \in Branched : StudentsByBranch[b] \in Nat
        /\ SumOver(StudentsByBranch, Branched) = Cardinality(Enrolled)
    BY <1>4, StudentsShare
  <2> QED
    BY <1>4, <2>1, CardsWithin
<1> QED
  BY <1>3, <1>7, <1>8

LEMMA BranchesDoAddUp ==
    ASSUME ReportsInv, NoNegative(bills)
    PROVE  BranchesAddUp
<1>1. \A name : \A a \in Whole(name) : \E d \in Settled(name) : a = d.answers
  BY DEF Whole
<1>3. \A a \in Whole("analytics") :
        LET list == Figure(a, "branches") IN
        /\ Total(Breakdown(list, Figure(a, "studentsByBranch"))) = Figure(a, "students")
        /\ SumOfMonths(a) <= Total(Breakdown(list, Figure(a, "incomeByBranch")))
  BY <1>1, AnalyticsShare
<1>4. \A a \in Whole("finances") :
        LET list == Figure(a, "branches") IN
        /\ Total(Breakdown(list, Figure(a, "incomeByBranch"))) = Figure(a, "income")
        /\ Total(Breakdown(list, Figure(a, "expensesByBranch"))) = Figure(a, "expenses")
        /\ Figure(a, "overdue") <= Figure(a, "due").total
        /\ Total([u \in Pupils |-> DebtSummary(u).count]) = Figure(a, "due").count
  BY <1>1, FinancesAddUp
<1>5. \A a \in Whole("branches") :
        LET list  == Figure(a, "branches")
            first == OncePerName(list)
        IN  /\ SumOver(Cards(list, Figure(a, "monthByBranch")), first) <= MonthIncome
            /\ SumOver(Cards(list, Figure(a, "studentsByBranch")), first) <= Cardinality(Enrolled)
  BY <1>1, CardsAddUp
<1> QED
  BY <1>3, <1>4, <1>5, Zenon DEF BranchesAddUp, SumOfMonths

LEMMA MonthsDoShare ==
    ASSUME ReportsInv
    PROVE  /\ \A name \in {"months", "analytics"} : \A a \in Whole(name) :
                SumOfMonths(a) = AmountOf(InMonths)
           /\ \A a \in Whole("revenue") : /\ Figure(a, "revenue") = Revenue
                                          /\ Total(Figure(a, "revenue")) = Income
<1>1. \A name : \A a \in Whole(name) : \E d \in Settled(name) : a = d.answers
  BY DEF Whole
<1>2. ASSUME NEW d \in Settled("revenue") PROVE Figure(d.answers, "revenue") = Revenue
  <2>1. "revenue" \in DOMAIN Queries
    BY QueriesByName
  <2>2. Figure(d.answers, "revenue") = AnswerTo(d, <<"revenue", 0>>)
    BY <2>1, RevenueAsked, FigureIs
  <2> QED
    BY <2>2, AnswersByName
<1> QED
  BY <1>1, <1>2, MonthsOfReport, RevenueShares DEF ReportsInv

\* A month of GET /payments/report has what the month of the six has, and its last second.
LEMMA MonthsWithin ==
    ASSUME ReportTablesTyped, NoNegative(bills), NEW i \in 0 .. Months - 1
    PROVE  EarnedIn(i) <= Revenue[i]
<1> DEFINE R == {p \in Paid : bills[p].at \in Window(i).from .. Window(i).to}
           S == {p \in Paid : bills[p].at \div MonthLength = Months - 1 - i}
<1>1. EarnedIn(i) = AmountOf(R) /\ Revenue[i] = AmountOf(S) /\ S \subseteq Bills
  BY DEF EarnedIn, Revenue, Paid
<1>2. ASSUME NEW p \in R PROVE p \in S
  <2> DEFINE q == bills[p].at \div MonthLength
  <2>1. p \in Paid /\ Months - 1 - q = i
    BY PaidMonths
  <2>2. q \in Int /\ Months \in Nat
    <3>1. bills[p].at \in 0 .. Months * MonthLength - 1 /\ MonthLength \in Nat \ {0, 1}
      BY <2>1, ReportsAssumption DEF Paid, ReportTablesTyped, PaidInTime
    <3>2. \A a \in Nat, b \in Nat \ {0} : a \div b \in Nat
      OBVIOUS
    <3>3. bills[p].at \in Nat
      BY <3>1
    <3> QED
      BY <3>1, <3>2, <3>3, ReportsAssumption
  <2> HIDE DEF q
  <2>3. q = Months - 1 - i
    BY <2>1, <2>2
  <2> QED
    BY <2>1, <2>3 DEF q
<1>3. R \subseteq S
  BY <1>2
<1> HIDE DEF R, S
<1> QED
  BY <1>1, <1>3, AmountGrows
-----------------------------------------------------------------------------
(* Lists.                                                                  *)

LEMMA FoundIs ==
    ASSUME NEW name \in Lists, NEW filter
    PROVE  Found(name, filter) \subseteq Nat /\ IsFiniteSet(Found(name, filter))
<1>1. \/ Found(name, filter) \subseteq Employees
      \/ Found(name, filter) \subseteq Bills
      \/ Found(name, filter) \subseteq Pupils
  BY DEF Lists, Found, UsersFound, InvoicesFound, PaymentsFound, StudentsFound, Enrolled
<1>2. /\ Pupils \subseteq Nat /\ Employees \subseteq Nat /\ Bills \subseteq Nat
      /\ IsFiniteSet(Pupils) /\ IsFiniteSet(Employees) /\ IsFiniteSet(Bills)
  BY ReportsAssumption
<1> QED
  BY <1>1, <1>2, FS_Subset

LEMMA ListIs ==
    ASSUME ReportsInv, NEW name \in Lists, NEW d \in Settled(name)
    PROVE  /\ d.asked \in Filters(name)
           /\ Figure(d.answers, "total") = Cardinality(Found(name, d.asked))
           /\ Figure(d.answers, "page") = NewestOn(Found(name, d.asked), d.asked.page)
<1>1. name \in DOMAIN Queries
  BY QueriesByName DEF Lists
<1>2. d.name = name /\ d.asked \in Filters(name)
  BY <1>1, SettledAnswers
<1>3. /\ Figure(d.answers, "total") = AnswerTo(d, <<"total", 0>>)
      /\ Figure(d.answers, "page") = AnswerTo(d, <<"page", 0>>)
  BY <1>1, ListsAsked, FigureIs
<1>4. /\ AnswerTo(d, <<"total", 0>>) = Cardinality(Found(d.name, d.asked))
      /\ AnswerTo(d, <<"page", 0>>) = NewestOn(Found(d.name, d.asked), d.asked.page)
  BY AnswersByName
<1> QED
  BY <1>2, <1>3, <1>4

\* A page of a list, and the one after it.
LEMMA PageOfList ==
    ASSUME ReportsInv, NEW name \in Lists, NEW d \in Settled(name)
    PROVE  /\ Cardinality(Figure(d.answers, "page")) = OnPage(Figure(d.answers, "total"), d.asked.page)
           /\ HasNextPage(Figure(d.answers, "total"), d.asked.page)
                <=> NewestOn(Found(name, d.asked), d.asked.page + 1) # {}
<1> DEFINE F == Found(name, d.asked)
           total == Cardinality(F)
           page == d.asked.page
           next == NewestOn(F, page + 1)
<1>2. Figure(d.answers, "total") = total /\ Figure(d.answers, "page") = NewestOn(F, page)
  BY ListIs
<1>3. page \in Nat \ {0} /\ PageSize \in Nat \ {0}
  <2>1. d.asked \in Filters(name)
    BY ListIs
  <2>2. d.asked.page \in Pages
    BY <2>1 DEF Lists, Filters
  <2> QED
    BY <2>2, RequestsAssumption
<1>4. F \subseteq Nat /\ IsFiniteSet(F) /\ total \in Nat
  BY FoundIs, FS_CardinalityType
<1> HIDE DEF F
<1>5. Cardinality(NewestOn(F, page)) = OnPage(total, page)
  BY <1>3, <1>4, NewestPage
<1>6. IsFiniteSet(next) /\ Cardinality(next) = OnPage(total, page + 1)
  <2>1. page + 1 \in Nat \ {0}
    BY <1>3
  <2> QED
    BY <1>3, <1>4, <2>1, NewestPage
<1> HIDE DEF next, total, page
<1>7. next # {} <=> Cardinality(next) # 0
  BY <1>6, FS_EmptySet
<1>8. HasNextPage(total, page) <=> OnPage(total, page + 1) # 0
  BY <1>3, <1>4, NextPageHasRows DEF HasNextPage, PageCount
<1>9. HasNextPage(total, page) <=> next # {}
  BY <1>6, <1>7, <1>8
<1> QED
  BY <1>2, <1>5, <1>9 DEF F, next, page

LEMMA StudentsListed ==
    ASSUME ReportsInv, NEW d \in Settled("students"), d.asked.branch # None
    PROVE  Figure(d.answers, "total") = StudentsByBranch[d.asked.branch]
<1> DEFINE b == d.asked.branch
<1>1. "students" \in Lists
  BY DEF Lists
<1>2. Figure(d.answers, "total") = Cardinality(Found("students", d.asked))
  BY <1>1, ListIs
<1>3. b \in Branched
  <2>1. d.asked \in Filters("students")
    BY <1>1, ListIs
  <2> QED
    BY <2>1 DEF Filters, Branched
<1>4. Found("students", d.asked) = {u \in Enrolled : pupils[u].branch = b}
  BY DEF Found, StudentsFound, Matches
<1>5. StudentsByBranch[b] = Cardinality({u \in Enrolled : pupils[u].branch = b})
  BY <1>3 DEF StudentsByBranch
<1> QED
  BY <1>2, <1>4, <1>5

LEMMA PaymentsListed ==
    ASSUME ReportsInv, NEW d \in Settled("payments"), d.asked.pupil = None, d.asked.status # None
    PROVE  Figure(d.answers, "total") = ByStatus[d.asked.status].count
<1> DEFINE st == d.asked.status
<1>1. "payments" \in Lists
  BY DEF Lists
<1>2. Figure(d.answers, "total") = Cardinality(Found("payments", d.asked))
  BY <1>1, ListIs
<1>3. st \in BillStatuses
  <2>1. d.asked \in Filters("payments")
    BY <1>1, ListIs
  <2> QED
    BY <2>1 DEF Filters, BillStatuses
<1>4. Found("payments", d.asked) = {p \in Bills : bills[p].status = st}
  BY DEF Found, PaymentsFound, Matches
<1>5. ByStatus[st].count = Cardinality({p \in Bills : bills[p].status = st})
  BY <1>3 DEF ByStatus
<1> QED
  BY <1>2, <1>4, <1>5

\* Where there are no more than it lists, the monitor lists all that it finds.
LEMMA MonitorListsAll ==
    ASSUME NEW wanted, Cardinality(MonitorMatches(wanted)) <= MonitorLimit
    PROVE  Monitored(wanted) = MonitorMatches(wanted)
<1> DEFINE found == MonitorMatches(wanted)
<1>1. found \subseteq Bills /\ Bills \subseteq Nat /\ IsFiniteSet(Bills) /\ MonitorLimit \in Nat
  BY ReportsAssumption DEF MonitorMatches
<1>2. IsFiniteSet(found)
  BY <1>1, FS_Subset
<1>3. Monitored(wanted) = {p \in found : Cardinality({q \in found : Newer(q, p)}) < MonitorLimit}
  BY DEF Monitored
<1>4. Cardinality(found) <= MonitorLimit
  OBVIOUS
<1> HIDE DEF found
<1>5. ASSUME NEW p \in found PROVE Cardinality({q \in found : Newer(q, p)}) < MonitorLimit
  <2> DEFINE newer == {q \in found : Newer(q, p)}
  <2>1. newer \subseteq found /\ p \notin newer
    BY <1>1 DEF Newer
  <2> HIDE DEF newer
  <2>2. IsFiniteSet(newer) /\ newer # found
    BY <1>2, <2>1, FS_Subset
  <2>3. Cardinality(newer) \in Nat /\ Cardinality(found) \in Nat
    BY <1>2, <2>2, FS_CardinalityType
  <2>4. Cardinality(newer) < Cardinality(found)
    <3>1. Cardinality(newer) <= Cardinality(found)
      BY <1>2, <2>1, FS_Subset
    <3>2. Cardinality(newer) # Cardinality(found)
      BY <1>2, <2>1, <2>2, FS_Subset
    <3> QED
      BY <2>3, <3>1, <3>2
  <2>5. Cardinality(newer) < MonitorLimit
    BY <1>1, <1>4, <2>3, <2>4
  <2> QED
    BY <2>5 DEF newer
<1> QED
  BY <1>3, <1>5 DEF found

\* The summary by status counts each payment that is listed, and no other where all are.
LEMMA MonitorAddsUp ==
    ASSUME ReportsInv, NEW d \in Settled("monitor"), NEW st \in BillStatuses
    PROVE  LET rows    == {p \in Figure(d.answers, "monitored") : bills[p].status = st}
               summary == Figure(d.answers, "byStatus")[st]
           IN  /\ Cardinality(rows) <= summary.count
               /\ /\ Matches(d.asked.status, st) /\ d.asked.from = None /\ d.asked.to = None
                  /\ Cardinality(MonitorMatches(d.asked)) <= MonitorLimit
                  => Cardinality(rows) = summary.count /\ AmountOf(rows) = summary.total
<1> DEFINE M == Monitored(d.asked)
           rows == {p \in M : bills[p].status = st}
           those == {p \in Bills : bills[p].status = st}
<1>1. /\ Figure(d.answers, "byStatus") = ByStatus
      /\ Figure(d.answers, "monitored") = M
  <2>1. "monitor" \in DOMAIN Queries
    BY QueriesByName
  <2> QED
    BY <2>1, MonitorAsked, FigureIs, AnswersByName
<1>2. ByStatus[st].count = Cardinality(those) /\ ByStatus[st].total = AmountOf(those)
  BY DEF ByStatus
<1>3. rows \subseteq those /\ IsFiniteSet(those)
  <2>1. M \subseteq Bills
    BY DEF Monitored, MonitorMatches
  <2> QED
    BY <2>1, ReportsAssumption, FS_Subset
<1>4. ASSUME Matches(d.asked.status, st), d.asked.from = None, d.asked.to = None,
             Cardinality(MonitorMatches(d.asked)) <= MonitorLimit
      PROVE  rows = those
  <2>1. M = MonitorMatches(d.asked)
    BY <1>4, MonitorListsAll
  <2>2. \A p \in those : p \in MonitorMatches(d.asked)
    BY <1>4 DEF MonitorMatches, Matches
  <2> QED
    BY <1>3, <2>1, <2>2
<1>5. Cardinality(rows) <= Cardinality(those)
  <2> HIDE DEF rows, those
  <2> QED
    BY <1>3, FS_Subset
<1> HIDE DEF M, those
<1> QED
  BY <1>1, <1>2, <1>4, <1>5

LEMMA ListsDoAddUp == ASSUME ReportsInv PROVE ListsAddUp
<1>1. \A d \in Settled("monitor") : \A st \in BillStatuses :
        LET rows    == {p \in Figure(d.answers, "monitored") : bills[p].status = st}
            summary == Figure(d.answers, "byStatus")[st]
        IN  /\ Cardinality(rows) <= summary.count
            /\ /\ Matches(d.asked.status, st) /\ d.asked.from = None /\ d.asked.to = None
               /\ Cardinality(MonitorMatches(d.asked)) <= MonitorLimit
               => Cardinality(rows) = summary.count /\ AmountOf(rows) = summary.total
  BY MonitorAddsUp
<1>2. \A name \in Lists : \A d \in Settled(name) :
        LET total == Figure(d.answers, "total") IN
        /\ Cardinality(Figure(d.answers, "page")) = OnPage(total, d.asked.page)
        /\ HasNextPage(total, d.asked.page)
             <=> NewestOn(Found(name, d.asked), d.asked.page + 1) # {}
  BY PageOfList
<1>3. \A d \in Settled("students") :
        d.asked.branch # None => Figure(d.answers, "total") = StudentsByBranch[d.asked.branch]
  BY StudentsListed
<1>4. \A d \in Settled("payments") :
        d.asked.pupil = None /\ d.asked.status # None
          => Figure(d.answers, "total") = ByStatus[d.asked.status].count
  BY PaymentsListed
<1> QED
  BY <1>1, <1>2, <1>3, <1>4, Zenon DEF ListsAddUp
-----------------------------------------------------------------------------
(* The reports.                                                            *)

\* No payment is for less than nothing.  A discount of more than 100 percent would make it, which
\* create-payment.dto.ts documents as the maximum without checking it.
NoDebits == \A b \in Books : NoNegative(b.bills)

\* What is paid, settled or refunded stays at the total it was made out for.
LEMMA TotalsStay ==
    ASSUME ReportTablesTyped, NoNegative(bills), ReportsNext \/ UNCHANGED bills
    PROVE  NoNegative(bills)'
<1>1. CASE \E p \in Bills : PayBill(p) \/ SettleInvoice(p) \/ RefundBill(p)
  <2> PICK p \in Bills : PayBill(p) \/ SettleInvoice(p) \/ RefundBill(p)
    BY <1>1
  <2>1. bills \in [Bills -> BillRow]
    BY DEF ReportTablesTyped
  <2>2. ASSUME NEW q \in Bills PROVE bills'[q].total = bills[q].total
    <3>1. bills[q] \in BillRow
      BY <2>1
    <3>2. CASE PayBill(p)
      <4> DEFINE now == Now
                 half == [bills EXCEPT ![p].status = "paid"]
      <4>1. bills' = [bills EXCEPT ![p].status = "paid", ![p].at = now]
        BY <3>2 DEF PayBill
      <4>2. bills' = [half EXCEPT ![p].at = now]
        BY <4>1
      <4>3. half[q].total = bills[q].total /\ half \in [Bills -> BillRow]
        BY <2>1 DEF BillRow, BillStatuses
      <4> HIDE DEF now, half
      <4> QED
        BY <4>2, <4>3 DEF BillRow
    <3>3. CASE SettleInvoice(p)
      BY <2>1, <3>1, <3>3 DEF SettleInvoice, BillRow
    <3>4. CASE RefundBill(p)
      BY <2>1, <3>1, <3>4 DEF RefundBill, BillRow
    <3> QED
      BY <3>2, <3>3, <3>4
  <2> QED
    BY <2>2 DEF NoNegative
<1>2. CASE UNCHANGED bills
  BY <1>2 DEF NoNegative
<1>3. \/ \E p \in Bills : PayBill(p) \/ SettleInvoice(p) \/ RefundBill(p)
      \/ UNCHANGED bills
  BY DEF ReportsNext, AskReport, RunQuery, SendReport, ReportsBreak, reportTables, RemovePupil,
         MovePupil, HireOrFire, UpdateSalary, Relist
<1> QED
  BY <1>1, <1>2, <1>3

NoDebitsPart == focus = "reports" => NoNegative(bills)

LEMMA NoDebitsPartHolds == ASSUME NoDebits PROVE Spec => []NoDebitsPart
<1>1. Init => NoDebitsPart
  BY DEF Init, ReportsInit, NoDebits, NoDebitsPart
<1>2. NoDebitsPart /\ ReportsPart /\ [Next]_vars => NoDebitsPart'
  <2> SUFFICES ASSUME NoDebitsPart, ReportsPart, [Next]_vars, focus' = "reports"
               PROVE  NoNegative(bills)'
    BY DEF NoDebitsPart
  <2>1. focus = "reports" /\ ReportTablesTyped /\ NoNegative(bills)
    BY DEF Next, vars, ReportsPart, ReportsInv, NoDebitsPart
  <2>2. ReportsNext \/ UNCHANGED bills
    BY <2>1 DEF Next, vars, reportTables
  <2> QED
    BY <2>1, <2>2, TotalsStay
<1> QED
  BY <1>1, <1>2, ReportsPartHolds, PTL DEF Spec

\* A behaviour that is about another part asks for no report.
LEMMA NoReportsElsewhere ==
    ASSUME KeepsToPart, focus # "reports", NEW name
    PROVE  Settled(name) = {} /\ Whole(name) = {}
<1>1. "compose" \notin StepsOf(focus)
  BY DEF StepsOf, ChatSteps, MessagingSteps, TenantSteps, RolesSteps, OfficeSteps, ReportsSteps,
         ViewsSteps
<1>2. ASSUME NEW h \in Handlers PROVE ~At(h, "compose")
  BY <1>1 DEF KeepsToPart, Within, At, Idle
<1>3. Settled(name) = {}
  BY <1>2 DEF Settled
<1> QED
  BY <1>3 DEF Whole

\* What the lists of the owner and the admin show is what they count, page by page, and the
\* summaries count the same; with any payments.
THEOREM ListsAddUpHolds == Spec => []ListsAddUp
<1>1. ReportsPart /\ KeepsToPart => ListsAddUp
  <2> SUFFICES ASSUME ReportsPart, KeepsToPart PROVE ListsAddUp
    OBVIOUS
  <2>1. CASE focus = "reports"
    BY <2>1, ListsDoAddUp DEF ReportsPart
  <2>2. CASE focus # "reports"
    BY <2>2, NoReportsElsewhere DEF ListsAddUp
  <2> QED
    BY <2>1, <2>2
<1> QED
  BY <1>1, ReportsPartHolds, KeepsToPartHolds, PTL

\* A report during which nothing was written adds up: its branches share out the whole
\* income, all expenses and every student, and its lists show what they count.
THEOREM ReportAddsUpHolds == ASSUME NoDebits PROVE Spec => []ReportAddsUp
<1>1. ReportsPart /\ KeepsToPart /\ NoDebitsPart /\ ListsAddUp => ReportAddsUp
  <2> SUFFICES ASSUME ReportsPart, KeepsToPart, NoDebitsPart PROVE BranchesAddUp
    BY DEF ReportAddsUp
  <2>1. CASE focus = "reports"
    BY <2>1, BranchesDoAddUp DEF ReportsPart, NoDebitsPart
  <2>2. CASE focus # "reports"
    BY <2>2, NoReportsElsewhere DEF BranchesAddUp
  <2> QED
    BY <2>1, <2>2
<1> QED
  BY <1>1, ListsAddUpHolds, ReportsPartHolds, KeepsToPartHolds, NoDebitsPartHolds, PTL

\* The months of a report during which nothing was written share out what was paid in them,
\* but in the last second of each; those of GET /payments/report share out all of it.
THEOREM MonthsShareIncomeHolds == ASSUME NoDebits PROVE Spec => []MonthsShareIncome
<1>1. ReportsPart /\ KeepsToPart /\ NoDebitsPart => MonthsShareIncome
  <2> SUFFICES ASSUME ReportsPart, KeepsToPart, NoDebitsPart PROVE MonthsShareIncome
    OBVIOUS
  <2>1. CASE focus = "reports"
    <3>1. ReportsInv /\ NoNegative(bills) /\ ReportTablesTyped
      BY <2>1 DEF ReportsPart, NoDebitsPart, ReportsInv
    <3>2. \A name \in {"months", "analytics"} : \A a \in Whole(name) :
            SumOfMonths(a) = AmountOf(InMonths)
      BY <3>1, MonthsDoShare
    <3>3. \A a \in Whole("revenue") :
            /\ Total(Figure(a, "revenue")) = Income
            /\ \A i \in 0 .. Months - 1 : EarnedIn(i) <= Figure(a, "revenue")[i]
      BY <3>1, MonthsDoShare, MonthsWithin
    <3> QED
      BY <3>2, <3>3, Zenon DEF MonthsShareIncome, SumOfMonths, InMonths
  <2>2. CASE focus # "reports"
    BY <2>2, NoReportsElsewhere DEF MonthsShareIncome
  <2> QED
    BY <2>1, <2>2
<1> QED
  BY <1>1, ReportsPartHolds, KeepsToPartHolds, NoDebitsPartHolds, PTL
-----------------------------------------------------------------------------
\* Ranks that no two elements share, and the places that ranks give.
Ranks(S, r) == /\ \A x \in S : r[x] \in 0 .. Cardinality(S) - 1
               /\ \A x, y \in S : r[x] = r[y] => x = y
PlacedBy(S, r, at) == \A n \in 1 .. Cardinality(S) : at[n] = CHOOSE x \in S : r[x] = n - 1
Placed(S, at) == /\ \A n \in 1 .. Cardinality(S) : at[n] \in S
                 /\ \A x \in S : \E n \in 1 .. Cardinality(S) : at[n] = x

\* Ranks put the elements in places, each in its own.
LEMMA PlacesOfRanks ==
    ASSUME NEW S, IsFiniteSet(S), NEW r, Ranks(S, r), NEW at, PlacedBy(S, r, at)
    PROVE  Placed(S, at)
<1>0. /\ \A x \in S : r[x] \in 0 .. Cardinality(S) - 1
      /\ \A x, y \in S : r[x] = r[y] => x = y
      /\ \A n \in 1 .. Cardinality(S) : at[n] = CHOOSE x \in S : r[x] = n - 1
  BY DEF Ranks, PlacedBy
<1>1. Cardinality(S) \in Nat
  BY FS_CardinalityType
<1>2. ASSUME NEW n \in 1 .. Cardinality(S) PROVE at[n] \in S /\ r[at[n]] = n - 1
  <2> DEFINE k == n - 1
  <2>1. k \in 0 .. Cardinality(S) - 1
    BY <1>1
  <2> HIDE DEF k
  <2>2. \E x \in S : r[x] = k
    BY <1>0, <2>1, RanksTaken
  <2>3. at[n] = CHOOSE x \in S : r[x] = k
    BY <1>0 DEF k
  <2>4. at[n] \in S /\ r[at[n]] = k
    BY <2>2, <2>3
  <2> QED
    BY <2>4 DEF k
<1>3. ASSUME NEW x \in S PROVE \E n \in 1 .. Cardinality(S) : at[n] = x
  <2> DEFINE n == r[x] + 1
  <2>1. n \in 1 .. Cardinality(S) /\ n - 1 = r[x]
    <3>1. r[x] \in 0 .. Cardinality(S) - 1
      BY <1>0
    <3> QED
      BY <1>1, <3>1
  <2> HIDE DEF n
  <2>2. at[n] \in S /\ r[at[n]] = r[x]
    BY <1>2, <2>1
  <2>3. at[n] = x
    BY <1>0, <2>2
  <2> QED
    BY <2>1, <2>3
<1> QED
  BY <1>2, <1>3 DEF Placed

Numbers(S) == S \subseteq Nat

LEMMA LowPlaces ==
    ASSUME NEW S, IsFiniteSet(S), Numbers(S), NEW low,
           \A n \in 1 .. Cardinality(S) : low[n] = NthLowest(S, n)
    PROVE  Placed(S, low)
<1>0. PICK r : r = [x \in S |-> Cardinality({y \in S : Lower(y, x)})]
  OBVIOUS
<1>1. Ranks(S, r)
  BY <1>0, LowerRanks DEF Numbers, Ranks
<1>2. ASSUME NEW n \in 1 .. Cardinality(S) PROVE low[n] = CHOOSE x \in S : r[x] = n - 1
  <2>1. \A x \in S : Cardinality({y \in S : Lower(y, x)}) = r[x]
    BY <1>0
  <2>2. NthLowest(S, n) = CHOOSE x \in S : Cardinality({y \in S : Lower(y, x)}) = n - 1
    BY DEF NthLowest
  <2> QED
    BY <2>1, <2>2
<1>3. PlacedBy(S, r, low)
  BY <1>2 DEF PlacedBy
<1> QED
  BY <1>1, <1>3, PlacesOfRanks

LEMMA NewPlaces ==
    ASSUME NEW S, IsFiniteSet(S), Numbers(S), NEW new,
           \A n \in 1 .. Cardinality(S) : new[n] = NthNewest(S, n)
    PROVE  Placed(S, new)
<1>0. PICK r : r = [x \in S |-> Cardinality({y \in S : Newer(y, x)})]
  OBVIOUS
<1>1. Ranks(S, r)
  BY <1>0, NewerRanks DEF Numbers, Ranks
<1>2. ASSUME NEW n \in 1 .. Cardinality(S) PROVE new[n] = CHOOSE x \in S : r[x] = n - 1
  <2>1. \A x \in S : Cardinality({y \in S : Newer(y, x)}) = r[x]
    BY <1>0
  <2>2. NthNewest(S, n) = CHOOSE x \in S : Cardinality({y \in S : Newer(y, x)}) = n - 1
    BY DEF NthNewest
  <2> QED
    BY <2>1, <2>2
<1>3. PlacedBy(S, r, new)
  BY <1>2 DEF PlacedBy
<1> QED
  BY <1>1, <1>3, PlacesOfRanks

\* Every place on a list of numbers is that of one of them, and each has its place.
LEMMA Places ==
    ASSUME NEW S, IsFiniteSet(S), Numbers(S)
    PROVE  /\ \A n \in 1 .. Cardinality(S) : NthLowest(S, n) \in S /\ NthNewest(S, n) \in S
           /\ \A x \in S : \E n \in 1 .. Cardinality(S) : NthLowest(S, n) = x
           /\ \A x \in S : \E n \in 1 .. Cardinality(S) : NthNewest(S, n) = x
<1>1. PICK low : low = [n \in 1 .. Cardinality(S) |-> NthLowest(S, n)]
  OBVIOUS
<1>2. PICK new : new = [n \in 1 .. Cardinality(S) |-> NthNewest(S, n)]
  OBVIOUS
<1>3. \A n \in 1 .. Cardinality(S) : low[n] = NthLowest(S, n) /\ new[n] = NthNewest(S, n)
  BY <1>1, <1>2
<1>4. Placed(S, low) /\ Placed(S, new)
  BY <1>3, LowPlaces, NewPlaces
<1> QED
  BY <1>3, <1>4 DEF Placed

\* The first of the numbers.
LEMMA LeastIs ==
    ASSUME NEW S, IsFiniteSet(S), Numbers(S), S # {}
    PROVE  Min(S) \in S /\ \A y \in S : Min(S) <= y
<1>0. PICK r : r = [x \in S |-> Cardinality({y \in S : Lower(y, x)})]
  OBVIOUS
<1>1. (\A x \in S : r[x] \in 0 .. Cardinality(S) - 1) /\ \A x, y \in S : r[x] = r[y] => x = y
  BY <1>0, LowerRanks DEF Numbers
<1>2. 0 \in 0 .. Cardinality(S) - 1
  <2>1. Cardinality(S) \in Nat /\ Cardinality(S) # 0
    BY FS_CardinalityType, FS_EmptySet
  <2> QED
    BY <2>1
<1>3. \E x \in S : r[x] = 0
  <2> DEFINE k == 0
  <2>1. k \in 0 .. Cardinality(S) - 1
    BY <1>2
  <2> HIDE DEF k
  <2>2. \E x \in S : r[x] = k
    BY <1>1, <2>1, RanksTaken
  <2> QED
    BY <2>2 DEF k
<1>4. PICK x \in S : Cardinality({y \in S : Lower(y, x)}) = 0
  BY <1>0, <1>3
<1>5. {y \in S : Lower(y, x)} = {}
  <2> DEFINE B == {y \in S : Lower(y, x)}
  <2>1. IsFiniteSet(B)
    BY FS_Subset
  <2>2. Cardinality(B) = 0
    BY <1>4
  <2> HIDE DEF B
  <2>3. B = {}
    BY <2>1, <2>2, FS_EmptySet
  <2> QED
    BY <2>3 DEF B
<1>6. \A y \in S : x <= y
  <2> SUFFICES ASSUME NEW y \in S PROVE x <= y
    OBVIOUS
  <2>1. ~(y < x) /\ x \in Nat /\ y \in Nat
    BY <1>5 DEF Lower, Numbers
  <2> QED
    BY <2>1
<1> QED
  BY <1>6 DEF Min
-----------------------------------------------------------------------------
(* The statements of a view.                                               *)

StatementNames ==
    {"total", "page", "performance", "groups", "unique", "recent", "stats", "average", "counts",
     "courses", "homework", "submissions", "group", "summary", "grades", "marks", "lesson",
     "classes"}

ViewStatement == StatementNames \X Nat

\* A view that awaits s one after the other asks Q in all.
Runs(s, Q) == s \in Seq(SUBSET ViewStatement) /\ InStages(s) = Q

Ones(names) == {<<n, 0>> : n \in names}

LEMMA RunsEmpty == Runs(<<>>, {})
<1>1. <<>> \in Seq(SUBSET ViewStatement) /\ Len(<<>>) = 0
  OBVIOUS
<1>2. InStages(<<>>) = {}
  BY <1>1 DEF InStages
<1> QED
  BY <1>1, <1>2 DEF Runs

LEMMA RunsOne ==
    ASSUME NEW Q \in SUBSET ViewStatement
    PROVE  Runs(<<Q>>, Q) /\ Len(<<Q>>) = 1 /\ <<Q>>[1] = Q
<1>1. <<Q>> \in Seq(SUBSET ViewStatement) /\ Len(<<Q>>) = 1 /\ <<Q>>[1] = Q
  <2> DEFINE T == SUBSET ViewStatement
  <2>1. Q \in T
    OBVIOUS
  <2> HIDE DEF T
  <2>2. <<Q>> \in Seq(T) /\ Len(<<Q>>) = 1 /\ <<Q>>[1] = Q
    BY <2>1
  <2> QED
    BY <2>2 DEF T
<1>2. InStages(<<Q>>) = Q
  BY <1>1 DEF InStages
<1> QED
  BY <1>1, <1>2 DEF Runs

LEMMA RunsAsk ==
    ASSUME NEW n \in StatementNames
    PROVE  Runs(Ask(n), Ones({n})) /\ Len(Ask(n)) = 1 /\ Ask(n)[1] = {<<n, 0>>}
<1>1. {<<n, 0>>} \in SUBSET ViewStatement /\ Ones({n}) = {<<n, 0>>}
  <2>1. <<n, 0>> \in ViewStatement
    BY DEF ViewStatement
  <2> QED
    BY <2>1 DEF Ones
<1> QED
  BY <1>1, RunsOne DEF Ask

LEMMA RunsEach ==
    ASSUME NEW n \in StatementNames, NEW S, IsFiniteSet(S), S \subseteq Nat
    PROVE  Runs(Each(n, S), {n} \X S)
<1> DEFINE s == Each(n, S)
           N == Cardinality(S)
<1>1. N \in Nat
  BY FS_CardinalityType
<1>2. \A i \in 1 .. N : NthLowest(S, i) \in S
  BY Places DEF Numbers
<1>3. DOMAIN s = 1 .. N /\ \A i \in 1 .. N : s[i] = {<<n, NthLowest(S, i)>>}
  BY DEF Each
<1>4. s \in [1 .. N -> SUBSET ViewStatement]
  <2>1. ASSUME NEW i \in 1 .. N PROVE {<<n, NthLowest(S, i)>>} \in SUBSET ViewStatement
    <3>1. <<n, NthLowest(S, i)>> \in ViewStatement
      BY <1>2 DEF ViewStatement
    <3> QED
      BY <3>1
  <2> QED
    BY <2>1 DEF Each
<1>5. s \in Seq(SUBSET ViewStatement)
  BY <1>1, <1>4
<1> HIDE DEF s
<1>6. Len(s) = N
  BY <1>1, <1>3, <1>5, LenProperties
<1>7. ASSUME NEW q \in InStages(s) PROVE q \in {n} \X S
  <2>1. PICK i \in 1 .. N : q \in s[i]
    BY <1>6 DEF InStages
  <2> QED
    BY <1>2, <1>3, <2>1
<1>8. ASSUME NEW q \in {n} \X S PROVE q \in InStages(s)
  <2>1. PICK x \in S : q = <<n, x>>
    <3>1. q = <<q[1], q[2]>> /\ q[1] = n /\ q[2] \in S
      OBVIOUS
    <3> QED
      BY <3>1
  <2>2. PICK i \in 1 .. N : NthLowest(S, i) = x
    BY Places DEF Numbers
  <2>3. q \in s[i]
    BY <1>3, <2>1, <2>2
  <2> QED
    BY <1>6, <2>3 DEF InStages
<1> QED
  BY <1>5, <1>7, <1>8 DEF Runs, s

LEMMA RunsJoin ==
    ASSUME NEW s, NEW t, NEW P, NEW Q, Runs(s, P), Runs(t, Q)
    PROVE  /\ Runs(s \o t, P \cup Q) /\ Len(s \o t) = Len(s) + Len(t)
           /\ Len(s) \in Nat /\ Len(t) \in Nat
           /\ Len(s) >= 1 => (s \o t)[1] = s[1]
<1> DEFINE st == s \o t
<1>0. s \in Seq(SUBSET ViewStatement) /\ t \in Seq(SUBSET ViewStatement)
  BY DEF Runs
<1>1. /\ st \in Seq(SUBSET ViewStatement) /\ Len(st) = Len(s) + Len(t)
      /\ \A i \in 1 .. Len(s) + Len(t) : st[i] = IF i <= Len(s) THEN s[i] ELSE t[i - Len(s)]
  BY <1>0, ConcatProperties
<1>2. Len(s) \in Nat /\ Len(t) \in Nat
  BY <1>0, LenProperties
<1> HIDE DEF st
<1>3. ASSUME NEW i \in 1 .. Len(s) PROVE s[i] \subseteq InStages(st)
  <2>1. i \in 1 .. Len(st) /\ st[i] = s[i]
    BY <1>1, <1>2
  <2> QED
    BY <2>1 DEF InStages
<1>4. ASSUME NEW i \in 1 .. Len(t) PROVE t[i] \subseteq InStages(st)
  <2> DEFINE j == i + Len(s)
  <2>2. j \in 1 .. Len(s) + Len(t) /\ ~(j <= Len(s)) /\ j - Len(s) = i
    BY <1>2
  <2> HIDE DEF j
  <2>1. j \in 1 .. Len(st) /\ st[j] = t[i]
    BY <1>1, <2>2
  <2> QED
    BY <2>1 DEF InStages
<1>5. ASSUME NEW i \in 1 .. Len(st) PROVE st[i] \subseteq InStages(s) \cup InStages(t)
  <2>1. CASE i <= Len(s)
    <3>1. i \in 1 .. Len(s) /\ st[i] = s[i]
      BY <1>1, <1>2, <2>1
    <3> QED
      BY <3>1 DEF InStages
  <2>2. CASE ~(i <= Len(s))
    <3>1. i - Len(s) \in 1 .. Len(t) /\ st[i] = t[i - Len(s)]
      BY <1>1, <1>2, <2>2
    <3> QED
      BY <3>1 DEF InStages
  <2> QED
    BY <2>1, <2>2
<1>6. InStages(st) = InStages(s) \cup InStages(t)
  BY <1>3, <1>4, <1>5 DEF InStages
<1>7. Len(s) >= 1 => st[1] = s[1]
  BY <1>1, <1>2
<1> QED
  BY <1>1, <1>2, <1>6, <1>7 DEF Runs, st

\* The months of a trend are some of those there are.
LEMMA MonthsFinite == IsFiniteSet(TrendMonths) /\ TrendMonths \subseteq Nat /\ TrendMonths \subseteq Days
<1>1. IsFiniteSet(Days) /\ Days \subseteq Nat /\ TrendMonths \subseteq Days
  BY ViewsAssumption DEF TrendMonths
<1> QED
  BY <1>1, FS_Subset

\* Marks and grades of every month that is shown.
LEMMA RunsMonths == Runs(MonthsAsked, {"marks", "grades"} \X TrendMonths)
<1> DEFINE N == Cardinality(TrendMonths)
           name(n) == IF n % 2 = 1 THEN "marks" ELSE "grades"
           month(n) == NthNewest(TrendMonths, (n + 1) \div 2)
<1>1. IsFiniteSet(TrendMonths) /\ TrendMonths \subseteq Nat
  BY MonthsFinite
<1>2. N \in Nat
  BY <1>1, FS_CardinalityType
<1>3. /\ \A k \in 1 .. N : NthNewest(TrendMonths, k) \in TrendMonths
      /\ \A m \in TrendMonths : \E k \in 1 .. N : NthNewest(TrendMonths, k) = m
  BY <1>1, Places DEF Numbers
<1>4. DOMAIN MonthsAsked = 1 .. 2 * N /\ \A n \in 1 .. 2 * N : MonthsAsked[n] = {<<name(n), month(n)>>}
  BY DEF MonthsAsked
<1>5. ASSUME NEW n \in 1 .. 2 * N PROVE name(n) \in {"marks", "grades"} /\ month(n) \in TrendMonths
  <2>1. (n + 1) \div 2 \in 1 .. N
    BY <1>2
  <2> QED
    BY <1>3, <2>1
<1>6. ASSUME NEW k \in 1 .. N
      PROVE  /\ 2 * k - 1 \in 1 .. 2 * N /\ (2 * k - 1) % 2 = 1 /\ (2 * k - 1 + 1) \div 2 = k
             /\ 2 * k \in 1 .. 2 * N /\ (2 * k) % 2 = 0 /\ (2 * k + 1) \div 2 = k
  BY <1>2
<1>7. MonthsAsked \in [1 .. 2 * N -> SUBSET ViewStatement]
  <2>1. ASSUME NEW n \in 1 .. 2 * N PROVE MonthsAsked[n] \in SUBSET ViewStatement
    <3>1. name(n) \in StatementNames /\ month(n) \in Nat
      BY <1>1, <1>5 DEF StatementNames
    <3> HIDE DEF name, month
    <3>2. <<name(n), month(n)>> \in ViewStatement
      BY <3>1 DEF ViewStatement
    <3> QED
      BY <1>4, <3>2
  <2>2. MonthsAsked = [n \in 1 .. 2 * N |-> MonthsAsked[n]]
    BY DEF MonthsAsked
  <2> HIDE DEF N
  <2> QED
    BY <2>1, <2>2
<1>8. 2 * N \in Nat
  BY <1>2
<1>9. MonthsAsked \in Seq(SUBSET ViewStatement)
  BY <1>7, <1>8
<1>10. Len(MonthsAsked) = 2 * N
  BY <1>4, <1>8, <1>9, LenProperties
<1>11. ASSUME NEW q \in InStages(MonthsAsked) PROVE q \in {"marks", "grades"} \X TrendMonths
  <2>1. PICK n \in 1 .. 2 * N : q \in MonthsAsked[n]
    BY <1>10 DEF InStages
  <2>2. q = <<name(n), month(n)>>
    BY <1>4, <2>1
  <2>3. name(n) \in {"marks", "grades"} /\ month(n) \in TrendMonths
    BY <1>5
  <2> HIDE DEF name, month
  <2> QED
    BY <2>2, <2>3
<1>12. ASSUME NEW m \in TrendMonths
       PROVE  <<"marks", m>> \in InStages(MonthsAsked) /\ <<"grades", m>> \in InStages(MonthsAsked)
  <2>1. PICK k \in 1 .. N : NthNewest(TrendMonths, k) = m
    BY <1>3
  <2>2. MonthsAsked[2 * k - 1] = {<<"marks", m>>}
    BY <1>4, <1>6, <2>1
  <2>3. MonthsAsked[2 * k] = {<<"grades", m>>}
    BY <1>4, <1>6, <2>1
  <2>4. 2 * k - 1 \in 1 .. Len(MonthsAsked) /\ 2 * k \in 1 .. Len(MonthsAsked)
    BY <1>6, <1>10
  <2> QED
    BY <2>2, <2>3, <2>4 DEF InStages
<1>13. InStages(MonthsAsked) = {"marks", "grades"} \X TrendMonths
  <2>1. ASSUME NEW q \in {"marks", "grades"} \X TrendMonths PROVE q \in InStages(MonthsAsked)
    <3>1. q = <<q[1], q[2]>> /\ q[1] \in {"marks", "grades"} /\ q[2] \in TrendMonths
      OBVIOUS
    <3> QED
      BY <1>12, <3>1
  <2> QED
    BY <1>11, <2>1
<1> QED
  BY <1>9, <1>13 DEF Runs

\* What a view asks in all, as far as its answers so far tell.
AskedBy(v, a) ==
    CASE v.kind = "students"   -> Ones({"total", "page"}) \cup {"performance"} \X Known(a, "page", {})
      [] v.kind = "analytics"  -> Ones({"groups", "unique", "recent", "stats", "average"})
                                  \cup {"marks", "grades"} \X TrendMonths
                                  \cup {"performance"} \X FirstOf(Known(a, "unique", {}))
      [] v.kind = "homework"   -> Ones({"total", "page"})
                                  \cup IF Known(a, "page", {}) = {} THEN {} ELSE Ones({"counts"})
      [] v.kind = "lessons"    -> Ones({"courses"})
                                  \cup IF Known(a, "courses", {}) = {} THEN {}
                                       ELSE Ones({"total", "page"})
      [] v.kind = "exams"      -> Ones({"total", "page"})
      [] v.kind = "classWorks" -> Ones({"page"})
                                  \cup IF Known(a, "page", {}) = {} THEN {} ELSE Ones({"counts"})
      [] v.kind = "work"       -> Ones({"homework", "submissions"})
      [] v.kind = "detail"     -> Ones({"group", "summary", "grades", "courses"})
      [] v.kind \in TrendViews -> {"marks", "grades"} \X TrendMonths
      [] v.kind = "lesson"     -> Ones({"lesson", "classes"})

ViewKinds ==
    TeacherLists \cup TrendViews \cup {"analytics", "classWorks", "work", "detail", "lesson"}

\* The learners that a list or the analytics go through were read from the table.
PeopleRead(v, a) ==
    /\ v.kind = "students" => Known(a, "page", {}) \subseteq Learners
    /\ v.kind = "analytics" => Known(a, "unique", {}) \subseteq Learners

LEMMA RunsTwo ==
    ASSUME NEW n \in StatementNames, NEW m \in StatementNames
    PROVE  /\ Runs(Ask(n) \o Ask(m), Ones({n, m})) /\ Len(Ask(n) \o Ask(m)) = 2
           /\ (Ask(n) \o Ask(m))[1] = {<<n, 0>>}
<1>1. /\ Runs(Ask(n), Ones({n})) /\ Len(Ask(n)) = 1 /\ Ask(n)[1] = {<<n, 0>>}
      /\ Runs(Ask(m), Ones({m})) /\ Len(Ask(m)) = 1
  BY RunsAsk
<1>2. Ones({n}) \cup Ones({m}) = Ones({n, m})
  BY DEF Ones
<1> DEFINE s == Ask(n)
           t == Ask(m)
           P == Ones({n})
           Q == Ones({m})
<1>3. Runs(s, P) /\ Runs(t, Q) /\ Len(s) = 1 /\ Len(t) = 1 /\ s[1] = {<<n, 0>>}
  BY <1>1
<1>4. P \cup Q = Ones({n, m})
  BY <1>2
<1> HIDE DEF s, t, P, Q
<1>5. Runs(s \o t, P \cup Q) /\ Len(s \o t) = Len(s) + Len(t) /\ (Len(s) >= 1 => (s \o t)[1] = s[1])
  BY <1>3, RunsJoin
<1>6. Len(s \o t) = 2 /\ (s \o t)[1] = {<<n, 0>>}
  BY <1>3, <1>5
<1> QED
  BY <1>4, <1>5, <1>6 DEF s, t

\* Learners in their order.
LEMMA RunsPeople ==
    ASSUME NEW S, S \subseteq Learners
    PROVE  Runs(Each("performance", S), {"performance"} \X S)
<1>1. IsFiniteSet(S) /\ S \subseteq Nat
  BY ViewsAssumption, FS_Subset
<1> QED
  BY <1>1, RunsEach DEF StatementNames

\* What comes after the first statement does not change what is asked first.
LEMMA RunsOn ==
    ASSUME NEW s, NEW t, NEW P, NEW Q, NEW x, Runs(s, P), Runs(t, Q), Len(s) >= 1, s[1] = x
    PROVE  Runs(s \o t, P \cup Q) /\ Len(s \o t) >= 1 /\ (s \o t)[1] = x
<1>1. /\ Runs(s \o t, P \cup Q) /\ Len(s \o t) = Len(s) + Len(t)
      /\ Len(s) \in Nat /\ Len(t) \in Nat /\ (s \o t)[1] = s[1]
  BY RunsJoin
<1> QED
  BY <1>1

LEMMA AnalyticsRun ==
    ASSUME NEW v, NEW a, v.kind = "analytics", PeopleRead(v, a)
    PROVE  /\ Runs(Statements(v, a), AskedBy(v, a)) /\ Len(Statements(v, a)) >= 1
           /\ Statements(v, a)[1] = {<<"groups", 0>>}
<1> DEFINE S == FirstOf(Known(a, "unique", {}))
           s1 == Ask("groups")
           s2 == s1 \o Ask("unique")
           s3 == s2 \o Ask("recent")
           s4 == s3 \o Ask("stats")
           s5 == s4 \o Ask("average")
           s6 == s5 \o MonthsAsked
           s7 == s6 \o Each("performance", S)
           Q2 == Ones({"groups"}) \cup Ones({"unique"})
           Q3 == Q2 \cup Ones({"recent"})
           Q4 == Q3 \cup Ones({"stats"})
           Q5 == Q4 \cup Ones({"average"})
           Q6 == Q5 \cup ({"marks", "grades"} \X TrendMonths)
           Q7 == Q6 \cup ({"performance"} \X S)
           First(s) == Len(s) >= 1 /\ s[1] = {<<"groups", 0>>}
<1>1. Statements(v, a) = s7
  BY DEF Statements, TrendViews
<1>2. AskedBy(v, a) = Q7
  <2>1. AskedBy(v, a) = Ones({"groups", "unique", "recent", "stats", "average"})
                         \cup {"marks", "grades"} \X TrendMonths \cup {"performance"} \X S
    BY DEF AskedBy, TrendViews
  <2>2. Q5 = Ones({"groups", "unique", "recent", "stats", "average"})
    BY DEF Ones
  <2> HIDE DEF Q5, S
  <2> QED
    BY <2>1, <2>2
<1>3. \A n \in {"groups", "unique", "recent", "stats", "average"} :
        n \in StatementNames /\ Runs(Ask(n), Ones({n}))
  BY RunsAsk DEF StatementNames
<1>4. Runs(s1, Ones({"groups"})) /\ First(s1)
  BY RunsAsk DEF StatementNames
<1>5. Runs(Each("performance", S), {"performance"} \X S)
  BY RunsPeople DEF PeopleRead, FirstOf
<1>6. Runs(MonthsAsked, {"marks", "grades"} \X TrendMonths)
  BY RunsMonths
<1> HIDE DEF S, s1
<1>7. Runs(s2, Q2) /\ First(s2)
  BY <1>3, <1>4, RunsOn
<1> HIDE DEF s2, Q2
<1>8. Runs(s3, Q3) /\ First(s3)
  BY <1>3, <1>7, RunsOn
<1> HIDE DEF s3, Q3
<1>9. Runs(s4, Q4) /\ First(s4)
  BY <1>3, <1>8, RunsOn
<1> HIDE DEF s4, Q4
<1>10. Runs(s5, Q5) /\ First(s5)
  BY <1>3, <1>9, RunsOn
<1> HIDE DEF s5, Q5
<1>11. Runs(s6, Q6) /\ First(s6)
  BY <1>6, <1>10, RunsOn
<1> HIDE DEF s6, Q6
<1>12. Runs(s7, Q7) /\ First(s7)
  BY <1>5, <1>11, RunsOn
<1> QED
  BY <1>1, <1>2, <1>12

\* A list that asks for total and page, and for nothing else or for Q after them.
LEMMA ListRuns ==
    ASSUME NEW v, NEW a, v.kind \in {"students", "homework", "lessons", "exams", "classWorks"},
           PeopleRead(v, a)
    PROVE  Runs(Statements(v, a), AskedBy(v, a))
<1> DEFINE two == Ask("total") \o Ask("page")
           S == Known(a, "page", {})
           C == Known(a, "courses", {})
<1>1. \A n \in {"total", "page", "counts", "courses"} : n \in StatementNames /\ Runs(Ask(n), Ones({n}))
  BY RunsAsk DEF StatementNames
<1>2. Runs(two, Ones({"total", "page"}))
  BY <1>1, RunsTwo
<1>3. CASE v.kind = "students"
  <2>1. Statements(v, a) = two \o Each("performance", S)
    BY <1>3 DEF Statements, TrendViews
  <2>2. AskedBy(v, a) = Ones({"total", "page"}) \cup ({"performance"} \X S)
    BY <1>3 DEF AskedBy, TrendViews
  <2>3. Runs(Each("performance", S), {"performance"} \X S)
    BY <1>3, RunsPeople DEF PeopleRead
  <2> HIDE DEF two, S
  <2> QED
    BY <1>2, <2>1, <2>2, <2>3, RunsJoin
<1>4. CASE v.kind = "homework"
  <2>1. /\ Statements(v, a) = two \o IF S = {} THEN <<>> ELSE Ask("counts")
        /\ AskedBy(v, a) = Ones({"total", "page"}) \cup IF S = {} THEN {} ELSE Ones({"counts"})
    BY <1>4 DEF Statements, AskedBy, TrendViews
  <2> HIDE DEF two, S
  <2> QED
    BY <1>1, <1>2, <2>1, RunsJoin, RunsEmpty
<1>5. CASE v.kind = "lessons"
  <2>1. /\ Statements(v, a) = Ask("courses") \o IF C = {} THEN <<>> ELSE two
        /\ AskedBy(v, a) = Ones({"courses"}) \cup IF C = {} THEN {} ELSE Ones({"total", "page"})
    BY <1>5 DEF Statements, AskedBy, TrendViews
  <2> HIDE DEF two, C
  <2> QED
    BY <1>1, <1>2, <2>1, RunsJoin, RunsEmpty
<1>6. CASE v.kind = "exams"
  <2>1. Statements(v, a) = two /\ AskedBy(v, a) = Ones({"total", "page"})
    BY <1>6 DEF Statements, AskedBy, TrendViews
  <2> QED
    BY <1>2, <2>1
<1>7. CASE v.kind = "classWorks"
  <2>1. /\ Statements(v, a) = Ask("page") \o IF S = {} THEN <<>> ELSE Ask("counts")
        /\ AskedBy(v, a) = Ones({"page"}) \cup IF S = {} THEN {} ELSE Ones({"counts"})
    BY <1>7 DEF Statements, AskedBy, TrendViews
  <2> HIDE DEF S
  <2> QED
    BY <1>1, <2>1, RunsJoin, RunsEmpty
<1> QED
  BY <1>3, <1>4, <1>5, <1>6, <1>7

LEMMA OtherRuns ==
    ASSUME NEW v, NEW a, v.kind \in TrendViews \cup {"work", "detail", "lesson"}
    PROVE  /\ Runs(Statements(v, a), AskedBy(v, a))
           /\ v.kind = "lesson" => /\ Len(Statements(v, a)) >= 1
                                   /\ Statements(v, a)[1] = {<<"lesson", 0>>}
<1>1. CASE v.kind \in TrendViews
  <2>1. Statements(v, a) = MonthsAsked /\ AskedBy(v, a) = {"marks", "grades"} \X TrendMonths
    BY <1>1 DEF Statements, AskedBy, TrendViews
  <2> QED
    BY <1>1, <2>1, RunsMonths DEF TrendViews
<1>2. CASE v.kind = "work"
  <2>1. /\ Statements(v, a) = Ask("homework") \o Ask("submissions")
        /\ AskedBy(v, a) = Ones({"homework", "submissions"})
    BY <1>2 DEF Statements, AskedBy, TrendViews
  <2> QED
    BY <1>2, <2>1, RunsTwo DEF StatementNames
<1>3. CASE v.kind = "lesson"
  <2>1. /\ Statements(v, a) = Ask("lesson") \o Ask("classes")
        /\ AskedBy(v, a) = Ones({"lesson", "classes"})
    BY <1>3 DEF Statements, AskedBy, TrendViews
  <2>2. "lesson" \in StatementNames /\ "classes" \in StatementNames /\ 2 >= 1
    BY DEF StatementNames
  <2> QED
    BY <2>1, <2>2, RunsTwo
<1>4. CASE v.kind = "detail"
  <2> DEFINE Q == {<<"group", 0>>, <<"summary", 0>>, <<"grades", 0>>, <<"courses", 0>>}
  <2>1. Statements(v, a) = <<Q>> /\ AskedBy(v, a) = Ones({"group", "summary", "grades", "courses"})
    BY <1>4 DEF Statements, AskedBy, TrendViews
  <2>2. Q = Ones({"group", "summary", "grades", "courses"})
    BY DEF Ones
  <2>3. Q \in SUBSET ViewStatement
    BY DEF ViewStatement, StatementNames
  <2> HIDE DEF Q
  <2> QED
    BY <1>4, <2>1, <2>2, <2>3, RunsOne
<1> QED
  BY <1>1, <1>2, <1>3, <1>4

\* What a view awaits next is part of what it asks in all, and all before it is answered.
LEMMA AwaitedIs ==
    ASSUME NEW v, NEW a, NEW Q, Runs(Statements(v, a), Q)
    PROVE  /\ Awaited(v, a) = {} => Q \subseteq DOMAIN a
           /\ Awaited(v, a) \subseteq Q \ DOMAIN a
           /\ Len(Statements(v, a)) >= 1 =>
                \A q \in Awaited(v, a) : q \in Statements(v, a)[1] \/ Statements(v, a)[1] \subseteq DOMAIN a
<1> DEFINE s == Statements(v, a)
           open == {i \in DOMAIN s : s[i] \ DOMAIN a # {}}
<1>1. Awaited(v, a) = IF open = {} THEN {} ELSE s[Min(open)] \ DOMAIN a
  BY DEF Awaited
<1>2. s \in Seq(SUBSET ViewStatement) /\ InStages(s) = Q
  BY DEF Runs
<1> HIDE DEF s
<1>3. DOMAIN s = 1 .. Len(s) /\ Len(s) \in Nat
  BY <1>2, LenProperties
<1>4. Q = UNION {s[i] : i \in 1 .. Len(s)}
  BY <1>2 DEF InStages
<1>5. ASSUME open # {} PROVE Min(open) \in open /\ \A i \in open : Min(open) <= i
  <2>1. open \subseteq 1 .. Len(s) /\ IsFiniteSet(1 .. Len(s))
    BY <1>3, FS_Interval
  <2>2. IsFiniteSet(open) /\ open \subseteq Nat
    BY <2>1, FS_Subset
  <2> HIDE DEF open
  <2> QED
    BY <1>5, <2>2, LeastIs DEF Numbers
<1>6. Awaited(v, a) = {} => open = {}
  BY <1>1, <1>5
<1>7. open = {} => Q \subseteq DOMAIN a
  BY <1>3, <1>4
<1>8. Awaited(v, a) \subseteq Q \ DOMAIN a
  <2>1. CASE open = {}
    BY <1>1, <2>1
  <2>2. CASE open # {}
    <3>1. Min(open) \in 1 .. Len(s) /\ Awaited(v, a) = s[Min(open)] \ DOMAIN a
      BY <1>1, <1>3, <1>5, <2>2
    <3> HIDE DEF open
    <3> QED
      BY <1>4, <3>1
  <2> QED
    BY <2>1, <2>2
<1>9. ASSUME Len(s) >= 1, NEW q \in Awaited(v, a), q \notin s[1] PROVE s[1] \subseteq DOMAIN a
  <2>1. open # {} /\ q \in s[Min(open)] /\ Min(open) # 1
    BY <1>1, <1>9
  <2>2. 1 \notin open
    <3>1. Min(open) \in open /\ \A i \in open : Min(open) <= i
      BY <1>5, <2>1
    <3>2. Min(open) \in 1 .. Len(s)
      BY <1>3, <3>1
    <3> HIDE DEF open
    <3> QED
      BY <2>1, <3>1, <3>2
  <2>3. 1 \in DOMAIN s
    BY <1>3, <1>9
  <2> QED
    BY <2>2, <2>3
<1> QED
  BY <1>6, <1>7, <1>8, <1>9 DEF s
-----------------------------------------------------------------------------
(* A view keeps what its tables still tell, unless something was written.   *)

\* The answers that a statement is asked with.
LeansOn(v, q) ==
    IF q[1] = "unique" THEN Ones({"groups"})
    ELSE IF q[1] = "counts" THEN Ones({"page"})
    ELSE IF q[1] = "classes" THEN Ones({"lesson"})
    ELSE IF v.kind = "lessons" /\ q[1] \in {"total", "page"} THEN Ones({"courses"})
    ELSE {}

IsAbout(kind, x) ==
    /\ kind \in TeacherLists \cup {"analytics"} => x \in Tutors
    /\ kind \in {"classWorks", "classTrend"} => x \in Classes
    /\ kind = "work" => x \in Works
    /\ kind = "lesson" => x \in Texts
    /\ kind \in {"detail", "trend"} => x \in Learners

Divided(stats) == stats.graded + stats.pending <= stats.assigned
Counted(counts) == \A w \in DOMAIN counts : counts[w].graded <= counts[w].total

\* What holds of answers even if something was written since.
SoundAnswers(v, a) ==
    /\ PeopleRead(v, a)
    /\ <<"stats", 0>> \in DOMAIN a => Divided(a[<<"stats", 0>>])
    /\ <<"counts", 0>> \in DOMAIN a => Counted(a[<<"counts", 0>>])

ViewData(d) ==
    /\ d = [kind |-> d.kind, of |-> d.of, page |-> d.page, answers |-> d.answers, torn |-> d.torn]
    /\ d.kind \in ViewKinds /\ IsAbout(d.kind, d.of) /\ d.page \in Nat \ {0}
    /\ \A q \in DOMAIN d.answers : LeansOn(d, q) \subseteq DOMAIN d.answers
    /\ SoundAnswers(d, d.answers)

StillTold(d) ==
    ~d.torn => /\ \A q \in DOMAIN d.answers : d.answers[q] \in Tells(d, d.answers, q)
               /\ d.kind = "lesson" => texts[d.of] # None

ViewAtWork(h) ==
    At(h, "view") \/ At(h, "composed") =>
        /\ ViewData(Data(h)) /\ StillTold(Data(h))
        /\ At(h, "composed") => AskedBy(Data(h), Data(h).answers) \subseteq DOMAIN Data(h).answers

ViewsInv == ViewRows /\ \A h \in Handlers : ViewAtWork(h)

\* Statements are told apart by their name.
LEMMA NamesOf ==
    ASSUME NEW names, NEW q \in Ones(names)
    PROVE  q[1] \in names /\ q = <<q[1], 0>>
BY DEF Ones

LEMMA AsksRun ==
    ASSUME NEW v, NEW a, v.kind \in ViewKinds, PeopleRead(v, a)
    PROVE  Runs(Statements(v, a), AskedBy(v, a))
<1>1. CASE v.kind = "analytics"
  BY <1>1, AnalyticsRun
<1>2. CASE v.kind \in {"students", "homework", "lessons", "exams", "classWorks"}
  BY <1>2, ListRuns
<1>3. CASE v.kind \in TrendViews \cup {"work", "detail", "lesson"}
  BY <1>3, OtherRuns
<1> QED
  BY <1>1, <1>2, <1>3 DEF ViewKinds, TeacherLists

\* What a statement is asked with was answered before.
LEMMA AwaitedLeans ==
    ASSUME NEW v, NEW a, v.kind \in ViewKinds, PeopleRead(v, a), NEW q \in Awaited(v, a)
    PROVE  q \in AskedBy(v, a) /\ q \notin DOMAIN a /\ LeansOn(v, q) \subseteq DOMAIN a
<1>1. q \in AskedBy(v, a) /\ q \notin DOMAIN a
  <2>1. Runs(Statements(v, a), AskedBy(v, a))
    BY AsksRun
  <2> QED
    BY <2>1, AwaitedIs
<1>2. Known(a, "page", {}) # {} => Ones({"page"}) \subseteq DOMAIN a
  <2>1. Known(a, "page", {}) # {} => <<"page", 0>> \in DOMAIN a
    BY DEF Known
  <2> QED
    BY <2>1 DEF Ones
<1>3. Known(a, "courses", {}) # {} => Ones({"courses"}) \subseteq DOMAIN a
  <2>1. Known(a, "courses", {}) # {} => <<"courses", 0>> \in DOMAIN a
    BY DEF Known
  <2> QED
    BY <2>1 DEF Ones
<1>4. CASE v.kind = "students"
  <2>1. q \in Ones({"total", "page"}) \/ q \in {"performance"} \X Known(a, "page", {})
    BY <1>1, <1>4 DEF AskedBy, TrendViews
  <2>2. q[1] \in {"total", "page", "performance"}
    BY <2>1, NamesOf
  <2> QED
    BY <1>1, <1>4, <2>2 DEF LeansOn
<1>5. CASE v.kind = "analytics"
  <2>1. \/ q \in Ones({"groups", "unique", "recent", "stats", "average"})
        \/ q \in {"marks", "grades"} \X TrendMonths \/ q \in {"performance"} \X FirstOf(Known(a, "unique", {}))
    BY <1>1, <1>5 DEF AskedBy, TrendViews
  <2>2. q[1] \in {"groups", "unique", "recent", "stats", "average", "marks", "grades", "performance"}
    BY <2>1, NamesOf
  <2>3. q[1] = "unique" => Ones({"groups"}) \subseteq DOMAIN a
    <3>1. /\ Runs(Statements(v, a), AskedBy(v, a)) /\ Len(Statements(v, a)) >= 1
          /\ Statements(v, a)[1] = {<<"groups", 0>>}
      BY <1>5, AnalyticsRun
    <3>2. q \in {<<"groups", 0>>} \/ {<<"groups", 0>>} \subseteq DOMAIN a
      BY <3>1, AwaitedIs
    <3> QED
      BY <3>2 DEF Ones
  <2> QED
    BY <1>1, <1>5, <2>2, <2>3 DEF LeansOn
<1>6. CASE v.kind \in {"homework", "classWorks"}
  <2>0. Ones({"page"}) \subseteq Ones({"total", "page"})
    BY DEF Ones
  <2>1. q \in Ones({"total", "page"}) \/ (Known(a, "page", {}) # {} /\ q \in Ones({"counts"}))
    <3>1. CASE v.kind = "homework"
      BY <1>1, <3>1 DEF AskedBy, TrendViews
    <3>2. CASE v.kind = "classWorks"
      <4>1. q \in Ones({"page"}) \/ (Known(a, "page", {}) # {} /\ q \in Ones({"counts"}))
        BY <1>1, <3>2 DEF AskedBy, TrendViews
      <4> QED
        BY <2>0, <4>1
    <3> QED
      BY <1>6, <3>1, <3>2
  <2>2. q[1] \in {"total", "page"} \/ (q[1] = "counts" /\ Known(a, "page", {}) # {})
    BY <2>1, NamesOf
  <2> QED
    BY <1>1, <1>2, <1>6, <2>2 DEF LeansOn
<1>7. CASE v.kind = "lessons"
  <2>1. q \in Ones({"courses"}) \/ (Known(a, "courses", {}) # {} /\ q \in Ones({"total", "page"}))
    BY <1>1, <1>7 DEF AskedBy, TrendViews
  <2>2. q[1] = "courses" \/ (q[1] \in {"total", "page"} /\ Known(a, "courses", {}) # {})
    BY <2>1, NamesOf
  <2> QED
    BY <1>1, <1>3, <1>7, <2>2 DEF LeansOn
<1>8. CASE v.kind \in {"exams", "work", "detail"} \cup TrendViews
  <2>1. \/ q \in Ones({"total", "page"}) \/ q \in Ones({"homework", "submissions"})
        \/ q \in Ones({"group", "summary", "grades", "courses"}) \/ q \in {"marks", "grades"} \X TrendMonths
    BY <1>1, <1>8 DEF AskedBy, TrendViews
  <2>2. q[1] \in {"total", "page", "homework", "submissions", "group", "summary", "grades", "courses",
                  "marks"}
    BY <2>1, NamesOf
  <2> QED
    BY <1>1, <1>8, <2>2 DEF LeansOn, TrendViews
<1>9. CASE v.kind = "lesson"
  <2>1. q \in Ones({"lesson", "classes"})
    BY <1>1, <1>9 DEF AskedBy, TrendViews
  <2>2. q[1] \in {"lesson", "classes"}
    BY <2>1, NamesOf
  <2>3. q[1] = "classes" => Ones({"lesson"}) \subseteq DOMAIN a
    <3>1. /\ Runs(Statements(v, a), AskedBy(v, a)) /\ Len(Statements(v, a)) >= 1
          /\ Statements(v, a)[1] = {<<"lesson", 0>>}
      BY <1>9, OtherRuns
    <3>2. q \in {<<"lesson", 0>>} \/ {<<"lesson", 0>>} \subseteq DOMAIN a
      BY <3>1, AwaitedIs
    <3> QED
      BY <3>2 DEF Ones
  <2> QED
    BY <1>1, <1>9, <2>2, <2>3 DEF LeansOn
<1> QED
  BY <1>4, <1>5, <1>6, <1>7, <1>8, <1>9 DEF ViewKinds, TeacherLists

\* A statement answers from the tables, what the view is about, and what it is asked with.
LEMMA ToldLeans ==
    ASSUME NEW v, NEW w, NEW a, NEW b, NEW q, v.kind = w.kind, v.of = w.of, v.page = w.page,
           \A r \in LeansOn(v, q) : a[r] = b[r]
    PROVE  Told(v, a, q) = Told(w, b, q)
<1>1. CASE q[1] = "unique"
  <2>1. a[<<"groups", 0>>] = b[<<"groups", 0>>]
    BY <1>1 DEF LeansOn, Ones
  <2> QED
    BY <1>1, <2>1 DEF Told
<1>2. CASE q[1] = "counts"
  <2>1. a[<<"page", 0>>] = b[<<"page", 0>>]
    BY <1>2 DEF LeansOn, Ones
  <2> QED
    BY <1>2, <2>1 DEF Told
<1>3. CASE q[1] = "classes"
  <2>1. a[<<"lesson", 0>>] = b[<<"lesson", 0>>]
    BY <1>3 DEF LeansOn, Ones
  <2> QED
    BY <1>3, <2>1 DEF Told
<1>4. CASE v.kind = "lessons" /\ q[1] \in {"total", "page"}
  <2>1. a[<<"courses", 0>>] = b[<<"courses", 0>>]
    BY <1>4 DEF LeansOn, Ones
  <2> QED
    BY <1>4, <2>1 DEF Told
<1>5. CASE /\ q[1] \notin {"unique", "counts", "classes"}
           /\ ~(v.kind = "lessons" /\ q[1] \in {"total", "page"})
  BY <1>5 DEF Told
<1> QED
  BY <1>1, <1>2, <1>3, <1>4, <1>5

\* What two parts have in common nobody counts twice.
LEMMA PartsCount ==
    ASSUME NEW S, IsFiniteSet(S), NEW P, NEW R, P \cup R = S, P \cap R = {}
    PROVE  /\ IsFiniteSet(P) /\ IsFiniteSet(R)
           /\ Cardinality(P) + Cardinality(R) = Cardinality(S)
<1>1. IsFiniteSet(P) /\ IsFiniteSet(R)
  BY FS_Subset
<1>2. Cardinality(S) = Cardinality(P) + Cardinality(R) - Cardinality({})
  BY <1>1, FS_Union
<1>3. Cardinality(P) \in Nat /\ Cardinality(R) \in Nat /\ Cardinality({}) = 0
  BY <1>1, FS_CardinalityType, FS_EmptySet
<1> QED
  BY <1>1, <1>2, <1>3

LEMMA HandInsFinite ==
    ASSUME NEW W, IsFiniteSet(W)
    PROVE  IsFiniteSet(HandIns(W)) /\ HandIns(W) \subseteq W \X Learners
<1>1. IsFiniteSet(W \X Learners)
  BY ViewsAssumption, FS_Product
<1>2. HandIns(W) \subseteq W \X Learners
  BY DEF HandIns
<1> QED
  BY <1>1, <1>2, FS_Subset

LEMMA WorksOfFinite == ASSUME NEW t PROVE IsFiniteSet(WorksOf(t)) /\ WorksOf(t) \subseteq Works
<1>1. WorksOf(t) \subseteq Works
  BY DEF WorksOf
<1> QED
  BY <1>1, ViewsAssumption, FS_Subset

\* The answers that matter even when they are old.
LEMMA ToldSound ==
    ASSUME ViewRows, NEW v, NEW a
    PROVE  /\ v.kind = "students" => Told(v, a, <<"page", 0>>) \subseteq Learners
           /\ Told(v, a, <<"unique", 0>>) \subseteq Learners
           /\ Divided(Told(v, a, <<"stats", 0>>))
           /\ Counted(Told(v, a, <<"counts", 0>>))
<1>1. v.kind = "students" => Told(v, a, <<"page", 0>>) \subseteq Learners
  <2>1. v.kind = "students" => Told(v, a, <<"page", 0>>) = LearnersPage(v.of, v.page)
    BY DEF Told
  <2>2. LearnersPage(v.of, v.page) \subseteq Learners
    BY DEF LearnersPage, LowestOn, Taught, Members
  <2> QED
    BY <2>1, <2>2
<1>2. Told(v, a, <<"unique", 0>>) \subseteq Learners
  <2>1. Told(v, a, <<"unique", 0>>) = UniqueLearners(a[<<"groups", 0>>])
    BY DEF Told
  <2> QED
    BY <2>1 DEF UniqueLearners, Members
<1>3. Divided(Told(v, a, <<"stats", 0>>))
  <2> DEFINE t == v.of
             all == HandIns(WorksOf(t))
             P == Scored(all)
             R == {p \in all : handed[p].score = None}
             N == {w \in WorksOf(t) : HandIns({w}) = {}}
  <2>1. Told(v, a, <<"stats", 0>>) = HomeworkStats(t)
    BY DEF Told
  <2>2. /\ HomeworkStats(t).graded = Cardinality(P)
        /\ HomeworkStats(t).pending = Cardinality(R)
        /\ HomeworkStats(t).assigned = Cardinality(all) + Cardinality(N)
    BY DEF HomeworkStats
  <2>3. IsFiniteSet(all) /\ IsFiniteSet(N)
    BY HandInsFinite, WorksOfFinite, FS_Subset
  <2>4. P \cup R = all /\ P \cap R = {} /\ P \subseteq all /\ R \subseteq all
    BY DEF Scored
  <2> HIDE DEF all, P, R, N
  <2>5. Cardinality(P) + Cardinality(R) = Cardinality(all)
    BY <2>3, <2>4, PartsCount
  <2>6. Cardinality(N) \in Nat /\ Cardinality(all) \in Nat
    BY <2>3, FS_CardinalityType
  <2> QED
    BY <2>1, <2>2, <2>5, <2>6 DEF Divided
<1>4. Counted(Told(v, a, <<"counts", 0>>))
  <2> DEFINE W == a[<<"page", 0>>]
  <2>1. Told(v, a, <<"counts", 0>>) = CountsOf(W)
    BY DEF Told
  <2> HIDE DEF W
  <2> SUFFICES ASSUME NEW w \in W PROVE CountsOf(W)[w].graded <= CountsOf(W)[w].total
    BY <2>1 DEF Counted, CountsOf
  <2> DEFINE P == HandIns({w})
             G == {p \in P : handed[p].status = "graded"}
  <2>2. CountsOf(W)[w].graded = Cardinality(G) /\ CountsOf(W)[w].total = Cardinality(P)
    BY DEF CountsOf
  <2>3. IsFiniteSet(P) /\ G \subseteq P
    BY HandInsFinite, FS_Singleton
  <2> HIDE DEF P, G
  <2>4. Cardinality(G) <= Cardinality(P)
    BY <2>3, FS_Subset
  <2> QED
    BY <2>2, <2>4
<1> QED
  BY <1>1, <1>2, <1>3, <1>4

LEMMA ToldStays ==
    ASSUME UNCHANGED viewTables, NEW v, NEW a, NEW q
    PROVE  Told(v, a, q)' = Told(v, a, q)
<1>1. /\ classes' = classes /\ roster' = roster /\ leads' = leads /\ joined' = joined
      /\ works' = works /\ handed' = handed /\ rolls' = rolls /\ texts' = texts /\ tests' = tests
  BY DEF viewTables
<1>2. /\ \A t : OwnClasses(t)' = OwnClasses(t) /\ WorksOf(t)' = WorksOf(t) /\ RollsBy(t)' = RollsBy(t)
      /\ \A t : CoursesOf(t)' = CoursesOf(t)
      /\ \A G : Members(G)' = Members(G)
      /\ \A W : HandIns(W)' = HandIns(W)
      /\ \A P : Scored(P)' = Scored(P) /\ ScoreSum(P)' = ScoreSum(P)
      /\ \A I : Present(I)' = Present(I)
  BY <1>1 DEF OwnClasses, WorksOf, RollsBy, CoursesOf, Members, HandIns, Scored, ScoreSum, Present
<1>3. \A t : Taught(t)' = Taught(t)
  BY <1>1, <1>2 DEF Taught, Leads
<1>4. LearnersTotal(v.of)' = LearnersTotal(v.of) /\ LearnersPage(v.of, v.page)' = LearnersPage(v.of, v.page)
  BY <1>3 DEF LearnersTotal, LearnersPage, LowestOn
<1>5. Performance(v.of, q[2])' = Performance(v.of, q[2])
  BY <1>1, <1>2 DEF Performance
<1>6. HomeworkStats(v.of)' = HomeworkStats(v.of)
  BY <1>1, <1>2 DEF HomeworkStats
<1>7. /\ \A I : Rate(I)' = Rate(I)
      /\ \A P : Average(P)' = Average(P)
  BY <1>2 DEF Rate, Average
<1>8. /\ RecentRate(v.of)' = RecentRate(v.of) /\ MonthRate(v.of, q[2])' = MonthRate(v.of, q[2])
      /\ AverageScore(v.of)' = AverageScore(v.of) /\ MonthGrade(v.of, q[2])' = MonthGrade(v.of, q[2])
  BY <1>1, <1>2, <1>7 DEF RecentRate, MonthRate, AverageScore, MonthGrade, Rate, Average
<1>9. WorksTotal(v.of)' = WorksTotal(v.of) /\ WorksPage(v.of, v.page)' = WorksPage(v.of, v.page)
  BY <1>1, <1>2 DEF WorksTotal, WorksPage, NewestOn
<1>10. CountsOf(a[<<"page", 0>>])' = CountsOf(a[<<"page", 0>>])
  BY <1>1, <1>2 DEF CountsOf
<1>11. /\ TextsTotal(a[<<"courses", 0>>])' = TextsTotal(a[<<"courses", 0>>])
       /\ TextsPage(a[<<"courses", 0>>], v.page)' = TextsPage(a[<<"courses", 0>>], v.page)
       /\ TestsTotal(v.of)' = TestsTotal(v.of) /\ TestsPage(v.of, v.page)' = TestsPage(v.of, v.page)
  BY <1>1 DEF TextsTotal, TextsPage, TestsTotal, TestsPage, NewestOn
<1>12. /\ ClassWorks(v.of)' = ClassWorks(v.of) /\ Submissions(v.of)' = Submissions(v.of)
       /\ ClassesOf(v.of)' = ClassesOf(v.of) /\ SummaryOf(v.of)' = SummaryOf(v.of)
       /\ CoursesJoined(v.of)' = CoursesJoined(v.of)
       /\ ClassesAt(a[<<"lesson", 0>>])' = ClassesAt(a[<<"lesson", 0>>])
  BY <1>1, <1>2 DEF ClassWorks, Submissions, ClassesOf, SummaryOf, CoursesJoined, ClassesAt
<1>13. GradesOf(v.of)' = GradesOf(v.of)
  <2>1. \A w : CourseOf(w)' = CourseOf(w)
    BY <1>1 DEF CourseOf
  <2> QED
    BY <1>2, <2>1 DEF GradesOf
<1>14. /\ OfStudent(v.of)' = OfStudent(v.of) /\ OfClass(v.of)' = OfClass(v.of)
  BY <1>1, <1>2 DEF OfStudent, OfClass
<1>15. /\ TrendGrade(OfStudent(v.of), q[2])' = TrendGrade(OfStudent(v.of), q[2])
       /\ TrendGrade(OfClass(v.of), q[2])' = TrendGrade(OfClass(v.of), q[2])
  BY <1>1, <1>2, <1>7, <1>14 DEF TrendGrade, Average
<1>16. /\ TrendRate(OfStudent(v.of), q[2])' = TrendRate(OfStudent(v.of), q[2])
       /\ TrendRate(OfClass(v.of), q[2])' = TrendRate(OfClass(v.of), q[2])
  BY <1>1, <1>2, <1>7, <1>14 DEF TrendRate, Rate
<1>17. UniqueLearners(a[<<"groups", 0>>])' = UniqueLearners(a[<<"groups", 0>>])
  BY <1>2 DEF UniqueLearners
<1> QED
  BY <1>1, <1>2, <1>4, <1>5, <1>6, <1>8, <1>9, <1>10, <1>11, <1>12, <1>13, <1>15, <1>16, <1>17 DEF Told

LEMMA TellsStay ==
    ASSUME UNCHANGED viewTables, NEW v, NEW a, NEW q
    PROVE  Tells(v, a, q)' = Tells(v, a, q)
<1>1. Told(v, a, q)' = Told(v, a, q)
  BY ToldStays
<1>2. ClassesOf(v.of)' = ClassesOf(v.of)
  BY DEF viewTables, ClassesOf
<1> QED
  BY <1>1, <1>2 DEF Tells, AnyOne

\* A view that goes on as it was, while nothing is written.
LEMMA OtherViews ==
    ASSUME ViewsInv, NEW h \in Handlers, UNCHANGED viewTables, task'[h] = task[h]
    PROVE  ViewAtWork(h)'
<1>1. ViewAtWork(h)
  BY DEF ViewsInv
<1> SUFFICES ASSUME (At(h, "view") \/ At(h, "composed"))'
             PROVE  /\ ViewData(Data(h)') /\ StillTold(Data(h))'
                    /\ At(h, "composed")' => AskedBy(Data(h)', Data(h)'.answers) \subseteq DOMAIN Data(h)'.answers
  BY DEF ViewAtWork, ViewData
<1> DEFINE d == Data(h)
<1>2. Data(h)' = d /\ At(h, "view")' = At(h, "view") /\ At(h, "composed")' = At(h, "composed")
  BY DEF Data, At
<1>3. /\ ViewData(d) /\ StillTold(d)
      /\ At(h, "composed") => AskedBy(d, d.answers) \subseteq DOMAIN d.answers
  BY <1>1, <1>2 DEF ViewAtWork
<1>4. StillTold(Data(h))'
  <2>1. \A v, a, q : Tells(v, a, q)' = Tells(v, a, q)
    BY TellsStay
  <2>2. texts' = texts
    BY DEF viewTables
  <2> QED
    BY <1>2, <1>3, <2>1, <2>2 DEF StillTold
<1> HIDE DEF d
<1> QED
  BY <1>2, <1>3, <1>4

\* What somebody writes is a `Tears`.
LEMMA TornViewTasks ==
    ASSUME Shape, NEW h \in Handlers, Tears
    PROVE  task'[h] = IF Busy(h) THEN [at |-> task[h].at, on |-> task[h].on,
                                       data |-> [task[h].data EXCEPT !.torn = TRUE]]
                      ELSE task[h]
<1>1. task'[h] = IF Busy(h) THEN [task[h] EXCEPT !.data.torn = TRUE] ELSE task[h]
  BY DEF Tears
<1>2. task[h] = [at |-> task[h].at, on |-> task[h].on, data |-> task[h].data]
  BY DEF Shape
<1> DEFINE t == task[h]
           torn == [t.data EXCEPT !.torn = TRUE]
<1>3. [t EXCEPT !.data.torn = TRUE] = [t EXCEPT !.data = torn]
  OBVIOUS
<1> HIDE DEF torn
<1>4. [t EXCEPT !.data = torn] = [at |-> t.at, on |-> t.on, data |-> torn]
  BY <1>2
<1> QED
  BY <1>1, <1>3, <1>4 DEF torn

\* A view that is under way is torn by whatever is written.
LEMMA TornViews ==
    ASSUME ViewsInv, Shape, NEW h \in Handlers, Tears
    PROVE  ViewAtWork(h)'
<1>1. CASE ~Busy(h)
  <2>1. task'[h] = task[h]
    BY <1>1, TornViewTasks
  <2> QED
    BY <1>1, <2>1 DEF ViewAtWork, At, Busy
<1>2. CASE Busy(h)
  <2> DEFINE d == task[h].data
             torn == [d EXCEPT !.torn = TRUE]
  <2>1. task'[h] = [at |-> task[h].at, on |-> task[h].on, data |-> torn]
    BY <1>2, TornViewTasks
  <2>2. At(h, "view")' = At(h, "view") /\ At(h, "composed")' = At(h, "composed") /\ Data(h)' = torn
    <3> HIDE DEF torn
    <3> QED
      BY <2>1 DEF At, Data
  <2>3. CASE At(h, "view") \/ At(h, "composed")
    <3>1. ViewAtWork(h)
      BY DEF ViewsInv
    <3>2. ViewData(d) /\ (At(h, "composed") => AskedBy(d, d.answers) \subseteq DOMAIN d.answers)
      BY <2>3, <3>1 DEF ViewAtWork, Data
    <3> DEFINE kind == d.kind
               of == d.of
               page == d.page
               answers == d.answers
               before == d.torn
    <3>3. d = [kind |-> kind, of |-> of, page |-> page, answers |-> answers, torn |-> before]
      BY <3>2 DEF ViewData
    <3>4. torn = [d EXCEPT !.torn = TRUE]
      OBVIOUS
    <3> HIDE DEF torn, d, kind, of, page, answers, before
    <3>5. torn = [kind |-> kind, of |-> of, page |-> page, answers |-> answers, torn |-> TRUE]
      BY <3>3, <3>4
    <3>6. /\ torn.kind = d.kind /\ torn.of = d.of /\ torn.page = d.page
          /\ torn.answers = d.answers /\ torn.torn = TRUE
      BY <3>5 DEF kind, of, page, answers
    <3>7. torn = [kind |-> torn.kind, of |-> torn.of, page |-> torn.page,
                  answers |-> torn.answers, torn |-> torn.torn]
      BY <3>5
    <3>8. ViewData(torn)
      <4>1. \A q : LeansOn(torn, q) = LeansOn(d, q)
        BY <3>6 DEF LeansOn
      <4>2. SoundAnswers(torn, torn.answers)
        BY <3>2, <3>6 DEF SoundAnswers, PeopleRead, ViewData
      <4> QED
        BY <3>2, <3>6, <3>7, <4>1, <4>2 DEF ViewData
    <3>9. ViewData(Data(h))'
      BY <2>2, <3>8 DEF ViewData
    <3>10. StillTold(Data(h))'
      BY <2>2, <3>6 DEF StillTold
    <3>11. At(h, "composed")' => AskedBy(Data(h)', Data(h)'.answers) \subseteq DOMAIN Data(h)'.answers
      <4>1. AskedBy(torn, torn.answers) = AskedBy(d, d.answers)
        BY <3>6 DEF AskedBy, TrendViews
      <4> QED
        BY <2>2, <3>2, <3>6, <4>1
    <3> QED
      BY <3>9, <3>10, <3>11 DEF ViewAtWork
  <2>4. CASE ~(At(h, "view") \/ At(h, "composed"))
    BY <2>2, <2>4 DEF ViewAtWork
  <2> QED
    BY <2>3, <2>4
<1> QED
  BY <1>1, <1>2

LEMMA OpenViewKeeps ==
    ASSUME ViewsInv, Shape, NEW h \in Handlers, NEW kind \in ViewKinds, NEW of, IsAbout(kind, of),
           NEW page \in Nat \ {0}, OpenView(h, kind, of, page)
    PROVE  ViewsInv'
<1> DEFINE d == [kind |-> kind, of |-> of, page |-> page, answers |-> <<>>, torn |-> FALSE]
<1>1. UNCHANGED viewTables /\ task' = [task EXCEPT ![h] = [at |-> "view", on |-> <<"view">>, data |-> d]]
  BY DEF OpenView, Begin
<1>2. /\ task'[h] = [at |-> "view", on |-> <<"view">>, data |-> d]
      /\ \A g \in Handlers \ {h} : task'[g] = task[g]
  <2> HIDE DEF d
  <2> QED
    BY <1>1 DEF Shape
<1>3. /\ d.kind = kind /\ d.of = of /\ d.page = page /\ d.answers = <<>> /\ d.torn = FALSE
      /\ d = [kind |-> d.kind, of |-> d.of, page |-> d.page, answers |-> d.answers, torn |-> d.torn]
  OBVIOUS
<1>4. \A q : q \notin DOMAIN d.answers
  BY <1>3
<1>5. kind = "lesson" => texts[of] # None
  BY DEF OpenView
<1> HIDE DEF d
<1>6. ViewData(d)
  <2>1. SoundAnswers(d, d.answers)
    BY <1>4 DEF SoundAnswers, PeopleRead, Known
  <2> QED
    BY <1>3, <1>4, <2>1 DEF ViewData
<1>7. At(h, "view")' /\ ~At(h, "composed")' /\ Data(h)' = d
  BY <1>2 DEF At, Data
<1>8. ViewAtWork(h)'
  <2>1. ViewData(Data(h))'
    BY <1>6, <1>7 DEF ViewData
  <2>2. texts' = texts
    BY <1>1 DEF viewTables
  <2>3. StillTold(Data(h))'
    BY <1>3, <1>4, <1>5, <1>7, <2>2 DEF StillTold
  <2> QED
    BY <1>7, <2>1, <2>3 DEF ViewAtWork
<1>9. \A g \in Handlers \ {h} : ViewAtWork(g)'
  BY <1>1, <1>2, OtherViews
<1>10. ViewRows'
  BY <1>1, SameViewRows DEF ViewsInv
<1> QED
  BY <1>8, <1>9, <1>10 DEF ViewsInv

LEMMA ViewEndsKeep ==
    ASSUME ViewsInv, Shape, NEW h \in Handlers, SendView(h) \/ ViewsBreak(h)
    PROVE  ViewsInv'
<1>1. UNCHANGED viewTables /\ task' = [task EXCEPT ![h] = Idle]
  BY DEF SendView, ViewsBreak, Answer, Breaks
<1>2. task'[h] = Idle /\ \A g \in Handlers \ {h} : task'[g] = task[g]
  BY <1>1 DEF Shape
<1>3. ViewAtWork(h)'
  BY <1>2 DEF ViewAtWork, At, Idle
<1>4. \A g \in Handlers \ {h} : ViewAtWork(g)'
  BY <1>1, <1>2, OtherViews
<1>5. ViewRows'
  BY <1>1, SameViewRows DEF ViewsInv
<1> QED
  BY <1>3, <1>4, <1>5 DEF ViewsInv

\* One more answer of the tables leaves the others as they are.
LEMMA OneMoreTold ==
    ASSUME ViewRows, NEW d, ViewData(d), StillTold(d), NEW q \in Awaited(d, d.answers),
           NEW told \in Tells(d, d.answers, q),
           NEW b, b = [r \in DOMAIN d.answers \cup {q} |-> IF r = q THEN told ELSE d.answers[r]],
           NEW e, e = [kind |-> d.kind, of |-> d.of, page |-> d.page, answers |-> b, torn |-> d.torn]
    PROVE  /\ ViewData(e) /\ StillTold(e) /\ SoundAnswers(d, b)
           /\ \A a : AskedBy(e, a) = AskedBy(d, a)
<1> DEFINE a == d.answers
<1>1. /\ e.kind = d.kind /\ e.of = d.of /\ e.page = d.page /\ e.answers = b /\ e.torn = d.torn
      /\ e = [kind |-> e.kind, of |-> e.of, page |-> e.page, answers |-> e.answers, torn |-> e.torn]
  OBVIOUS
<1>2. \A r : LeansOn(e, r) = LeansOn(d, r)
  BY <1>1 DEF LeansOn
<1>3. \A c : AskedBy(e, c) = AskedBy(d, c)
  BY <1>1 DEF AskedBy, TrendViews
<1>4. /\ d.kind \in ViewKinds /\ IsAbout(d.kind, d.of) /\ d.page \in Nat \ {0}
      /\ \A r \in DOMAIN a : LeansOn(d, r) \subseteq DOMAIN a
      /\ SoundAnswers(d, a) /\ PeopleRead(d, a)
  BY DEF ViewData, SoundAnswers
<1>5. q \notin DOMAIN a /\ LeansOn(d, q) \subseteq DOMAIN a
  BY <1>4, AwaitedLeans
<1>6. DOMAIN b = DOMAIN a \cup {q} /\ b[q] = told /\ \A r \in DOMAIN a : b[r] = a[r]
  BY <1>5
<1>6a. q[1] # "group" => b[q] = Told(d, a, q)
  BY <1>6 DEF Tells
<1>7. \A r \in DOMAIN b : LeansOn(d, r) \subseteq DOMAIN a
  BY <1>4, <1>5, <1>6
<1>8. SoundAnswers(d, b)
  <2>1. d.kind = "students" => Known(b, "page", {}) \subseteq Learners
    <3> SUFFICES ASSUME d.kind = "students", <<"page", 0>> \in DOMAIN b
                 PROVE  b[<<"page", 0>>] \subseteq Learners
      BY DEF Known
    <3>1. CASE q = <<"page", 0>>
      BY <1>6a, <3>1, ToldSound
    <3>2. CASE q # <<"page", 0>>
      <4>1. <<"page", 0>> \in DOMAIN a /\ b[<<"page", 0>>] = a[<<"page", 0>>]
        BY <1>6, <3>2
      <4> QED
        BY <1>4, <4>1 DEF PeopleRead, Known
    <3> QED
      BY <3>1, <3>2
  <2>2. d.kind = "analytics" => Known(b, "unique", {}) \subseteq Learners
    <3> SUFFICES ASSUME d.kind = "analytics", <<"unique", 0>> \in DOMAIN b
                 PROVE  b[<<"unique", 0>>] \subseteq Learners
      BY DEF Known
    <3>1. CASE q = <<"unique", 0>>
      BY <1>6a, <3>1, ToldSound
    <3>2. CASE q # <<"unique", 0>>
      <4>1. <<"unique", 0>> \in DOMAIN a /\ b[<<"unique", 0>>] = a[<<"unique", 0>>]
        BY <1>6, <3>2
      <4> QED
        BY <1>4, <4>1 DEF PeopleRead, Known
    <3> QED
      BY <3>1, <3>2
  <2>3. ASSUME <<"stats", 0>> \in DOMAIN b PROVE Divided(b[<<"stats", 0>>])
    <3>1. CASE q = <<"stats", 0>>
      BY <1>6a, <3>1, ToldSound
    <3>2. CASE q # <<"stats", 0>>
      <4>1. <<"stats", 0>> \in DOMAIN a /\ b[<<"stats", 0>>] = a[<<"stats", 0>>]
        BY <1>6, <2>3, <3>2
      <4> QED
        BY <1>4, <4>1 DEF SoundAnswers
    <3> QED
      BY <3>1, <3>2
  <2>4. ASSUME <<"counts", 0>> \in DOMAIN b PROVE Counted(b[<<"counts", 0>>])
    <3>1. CASE q = <<"counts", 0>>
      BY <1>6a, <3>1, ToldSound
    <3>2. CASE q # <<"counts", 0>>
      <4>1. <<"counts", 0>> \in DOMAIN a /\ b[<<"counts", 0>>] = a[<<"counts", 0>>]
        BY <1>6, <2>4, <3>2
      <4> QED
        BY <1>4, <4>1 DEF SoundAnswers
    <3> QED
      BY <3>1, <3>2
  <2> QED
    BY <2>1, <2>2, <2>3, <2>4 DEF SoundAnswers, PeopleRead
<1>9. ViewData(e)
  <2>1. SoundAnswers(e, e.answers)
    BY <1>1, <1>8 DEF SoundAnswers, PeopleRead
  <2>2. \A r \in DOMAIN b : LeansOn(e, r) \subseteq DOMAIN b
    BY <1>2, <1>6, <1>7
  <2> QED
    BY <1>1, <1>4, <2>1, <2>2 DEF ViewData
<1>10. StillTold(e)
  <2> SUFFICES ASSUME ~d.torn
               PROVE  /\ \A r \in DOMAIN b : b[r] \in Tells(e, b, r)
                      /\ d.kind = "lesson" => texts[d.of] # None
    BY <1>1 DEF StillTold
  <2>1. d.kind = "lesson" => texts[d.of] # None
    BY DEF StillTold
  <2>2. ASSUME NEW r \in DOMAIN b PROVE b[r] \in Tells(e, b, r)
    <3>1. \A s \in LeansOn(d, r) : a[s] = b[s]
      BY <1>6, <1>7
    <3>2. Tells(d, a, r) = Tells(e, b, r)
      <4>1. d.kind = e.kind /\ d.of = e.of /\ d.page = e.page
        BY <1>1
      <4>2. Told(d, a, r) = Told(e, b, r)
        <5> HIDE DEF a
        <5> QED
          BY <3>1, <4>1, ToldLeans
      <4> QED
        BY <4>1, <4>2 DEF Tells
    <3>3. b[r] \in Tells(d, a, r)
      BY <1>6 DEF StillTold
    <3> QED
      BY <3>2, <3>3
  <2> QED
    BY <2>1, <2>2
<1> QED
  BY <1>3, <1>8, <1>9, <1>10

LEMMA RunStatementKeeps ==
    ASSUME ViewsInv, Shape, NEW h \in Handlers, RunStatement(h)
    PROVE  ViewsInv'
<1> DEFINE d == Data(h)
           With(q, told) == [r \in DOMAIN d.answers \cup {q} |-> IF r = q THEN told ELSE d.answers[r]]
<1>1. At(h, "view") /\ ViewData(d) /\ StillTold(d) /\ ViewRows /\ UNCHANGED viewTables
  BY DEF RunStatement, ViewsInv, ViewAtWork
<1>2. PICK q \in Awaited(d, d.answers) : \E told \in Tells(d, d.answers, q) :
        Goto(h, IF Awaited(d, With(q, told)) = {} THEN "composed" ELSE "view",
             [d EXCEPT !.answers = With(q, told)])
  BY DEF RunStatement
<1>2a. PICK told \in Tells(d, d.answers, q) :
        Goto(h, IF Awaited(d, With(q, told)) = {} THEN "composed" ELSE "view",
             [d EXCEPT !.answers = With(q, told)])
  BY <1>2
<1> DEFINE b == With(q, told)
           step == IF Awaited(d, b) = {} THEN "composed" ELSE "view"
           e == [kind |-> d.kind, of |-> d.of, page |-> d.page, answers |-> b, torn |-> d.torn]
<1>3. [d EXCEPT !.answers = b] = e
  <2> DEFINE kind == d.kind
             of == d.of
             page == d.page
             old == d.answers
             torn == d.torn
             f == [d EXCEPT !.answers = b]
  <2>1. d = [kind |-> kind, of |-> of, page |-> page, answers |-> old, torn |-> torn]
    BY <1>1 DEF ViewData
  <2>2. f = [d EXCEPT !.answers = b]
    OBVIOUS
  <2>3. e = [kind |-> kind, of |-> of, page |-> page, answers |-> b, torn |-> torn]
    OBVIOUS
  <2> HIDE DEF d, b, e, kind, of, page, old, torn, f
  <2>4. f = [kind |-> kind, of |-> of, page |-> page, answers |-> b, torn |-> torn]
    BY <2>1, <2>2
  <2> QED
    BY <2>2, <2>3, <2>4
<1>4. Goto(h, step, e)
  <2>1. Goto(h, step, [d EXCEPT !.answers = b])
    BY <1>2a
  <2> HIDE DEF d, b, step, e
  <2> QED
    BY <1>3, <2>1
<1>5. /\ task'[h] = [at |-> step, on |-> task[h].on, data |-> e]
      /\ \A g \in Handlers \ {h} : task'[g] = task[g]
  <2> HIDE DEF step, e
  <2> QED
    BY <1>4, GotoTask
<1>6. /\ ViewData(e) /\ StillTold(e) /\ SoundAnswers(d, b)
      /\ \A a : AskedBy(e, a) = AskedBy(d, a)
  <2>1. b = [r \in DOMAIN d.answers \cup {q} |-> IF r = q THEN told ELSE d.answers[r]]
    OBVIOUS
  <2>2. e = [kind |-> d.kind, of |-> d.of, page |-> d.page, answers |-> b, torn |-> d.torn]
    OBVIOUS
  <2> HIDE DEF d, b, e
  <2> QED
    BY <1>1, <2>1, <2>2, OneMoreTold
<1>7. e.answers = b
  OBVIOUS
<1>8. step = "composed" => AskedBy(e, e.answers) \subseteq DOMAIN e.answers
  <2> SUFFICES ASSUME Awaited(d, b) = {} PROVE AskedBy(d, b) \subseteq DOMAIN b
    BY <1>6, <1>7
  <2>1. d.kind \in ViewKinds /\ PeopleRead(d, b)
    BY <1>1, <1>6 DEF ViewData, SoundAnswers
  <2> HIDE DEF d, b
  <2>2. Runs(Statements(d, b), AskedBy(d, b))
    BY <2>1, AsksRun
  <2> QED
    BY <2>2, AwaitedIs
<1> HIDE DEF d, b, e, step, With
<1>9. Data(h)' = e /\ At(h, "composed")' = (step = "composed")
  BY <1>5 DEF Data, At
<1>10. ViewAtWork(h)'
  <2>1. ViewData(Data(h))'
    BY <1>6, <1>9 DEF ViewData
  <2>2. StillTold(Data(h))'
    <3>1. \A v, a, r : Tells(v, a, r)' = Tells(v, a, r)
      BY <1>1, TellsStay
    <3>2. texts' = texts
      BY <1>1 DEF viewTables
    <3> QED
      BY <1>6, <1>9, <3>1, <3>2 DEF StillTold
  <2>3. At(h, "composed")' => AskedBy(Data(h)', Data(h)'.answers) \subseteq DOMAIN Data(h)'.answers
    BY <1>8, <1>9
  <2> QED
    BY <2>1, <2>2, <2>3 DEF ViewAtWork
<1>11. \A g \in Handlers \ {h} : ViewAtWork(g)'
  BY <1>1, <1>5, OtherViews
<1>12. ViewRows'
  BY <1>1, SameViewRows
<1> QED
  BY <1>10, <1>11, <1>12 DEF ViewsInv

LEMMA ViewsStep ==
    ASSUME ViewsInv, Shape, ViewsNext
    PROVE  ViewsInv'
<1>0. Pages \subseteq Nat \ {0} /\ 1 \in Nat \ {0}
  BY RequestsAssumption
<1>1. CASE \E h \in Handlers :
             \/ \E t \in Tutors, page \in Pages :
                  \/ \E kind \in TeacherLists : OpenView(h, kind, t, page)
                  \/ OpenView(h, "analytics", t, 1)
             \/ \E g \in Classes, kind \in {"classWorks", "classTrend"} : OpenView(h, kind, g, 1)
             \/ \E w \in Works : OpenView(h, "work", w, 1)
             \/ \E l \in Texts : OpenView(h, "lesson", l, 1)
             \/ \E s \in Learners, kind \in {"detail", "trend"} : OpenView(h, kind, s, 1)
  <2>1. PICK h \in Handlers :
           \/ \E t \in Tutors, page \in Pages :
                \/ \E kind \in TeacherLists : OpenView(h, kind, t, page)
                \/ OpenView(h, "analytics", t, 1)
           \/ \E g \in Classes, kind \in {"classWorks", "classTrend"} : OpenView(h, kind, g, 1)
           \/ \E w \in Works : OpenView(h, "work", w, 1)
           \/ \E l \in Texts : OpenView(h, "lesson", l, 1)
           \/ \E s \in Learners, kind \in {"detail", "trend"} : OpenView(h, kind, s, 1)
    BY <1>1
  <2>2. CASE \E t \in Tutors, page \in Pages, kind \in TeacherLists : OpenView(h, kind, t, page)
    <3>1. PICK t \in Tutors, page \in Pages, kind \in TeacherLists : OpenView(h, kind, t, page)
      BY <2>2
    <3>2. kind \in ViewKinds /\ IsAbout(kind, t)
      BY DEF ViewKinds, IsAbout, TeacherLists
    <3> QED
      BY <1>0, <3>1, <3>2, OpenViewKeeps
  <2>3. CASE \E t \in Tutors : OpenView(h, "analytics", t, 1)
    <3>1. PICK t \in Tutors : OpenView(h, "analytics", t, 1)
      BY <2>3
    <3>2. "analytics" \in ViewKinds /\ IsAbout("analytics", t)
      BY DEF ViewKinds, IsAbout, TeacherLists
    <3> QED
      BY <1>0, <3>1, <3>2, OpenViewKeeps
  <2>4. CASE \E g \in Classes, kind \in {"classWorks", "classTrend"} : OpenView(h, kind, g, 1)
    <3>1. PICK g \in Classes, kind \in {"classWorks", "classTrend"} : OpenView(h, kind, g, 1)
      BY <2>4
    <3>2. kind \in ViewKinds /\ IsAbout(kind, g)
      BY DEF ViewKinds, IsAbout, TeacherLists, TrendViews
    <3> QED
      BY <1>0, <3>1, <3>2, OpenViewKeeps
  <2>5. CASE \E w \in Works : OpenView(h, "work", w, 1)
    <3>1. PICK w \in Works : OpenView(h, "work", w, 1)
      BY <2>5
    <3>2. "work" \in ViewKinds /\ IsAbout("work", w)
      BY DEF ViewKinds, IsAbout, TeacherLists
    <3> QED
      BY <1>0, <3>1, <3>2, OpenViewKeeps
  <2>6. CASE \E l \in Texts : OpenView(h, "lesson", l, 1)
    <3>1. PICK l \in Texts : OpenView(h, "lesson", l, 1)
      BY <2>6
    <3>2. "lesson" \in ViewKinds /\ IsAbout("lesson", l)
      BY DEF ViewKinds, IsAbout, TeacherLists
    <3> QED
      BY <1>0, <3>1, <3>2, OpenViewKeeps
  <2>7. CASE \E s \in Learners, kind \in {"detail", "trend"} : OpenView(h, kind, s, 1)
    <3>1. PICK s \in Learners, kind \in {"detail", "trend"} : OpenView(h, kind, s, 1)
      BY <2>7
    <3>2. kind \in ViewKinds /\ IsAbout(kind, s)
      BY DEF ViewKinds, IsAbout, TeacherLists, TrendViews
    <3> QED
      BY <1>0, <3>1, <3>2, OpenViewKeeps
  <2> QED
    BY <2>1, <2>2, <2>3, <2>4, <2>5, <2>6, <2>7
<1>2. CASE \E h \in Handlers : RunStatement(h) \/ SendView(h) \/ ViewsBreak(h)
  BY <1>2, RunStatementKeeps, ViewEndsKeep
<1>3. CASE Tears
  <2>1. \A h \in Handlers : ViewAtWork(h)'
    BY <1>3, TornViews
  <2>2. ViewRows'
    BY ViewsStayTyped DEF ViewsInv
  <2> QED
    BY <2>1, <2>2 DEF ViewsInv
<1>4. \/ \E h \in Handlers :
             \/ \E t \in Tutors, page \in Pages :
                  \/ \E kind \in TeacherLists : OpenView(h, kind, t, page)
                  \/ OpenView(h, "analytics", t, 1)
             \/ \E g \in Classes, kind \in {"classWorks", "classTrend"} : OpenView(h, kind, g, 1)
             \/ \E w \in Works : OpenView(h, "work", w, 1)
             \/ \E l \in Texts : OpenView(h, "lesson", l, 1)
             \/ \E s \in Learners, kind \in {"detail", "trend"} : OpenView(h, kind, s, 1)
      \/ \E h \in Handlers : RunStatement(h) \/ SendView(h) \/ ViewsBreak(h)
      \/ Tears
  <2>1. /\ \A g : DropClass(g) => Tears
        /\ \A g, t : HandOver(g, t) => Tears
        /\ \A g, s : (JoinClass(g, s) \/ LeaveClass(g, s)) => Tears
        /\ \A l, g : AddText(l, g) => Tears
        /\ \A t, g, s, day, status : MarkDay(t, g, s, day, status) => Tears
        /\ \A c, t : LeadCourse(c, t) => Tears
        /\ \A s, c : JoinCourse(s, c) => Tears
    BY DEF DropClass, HandOver, JoinClass, LeaveClass, AddText, MarkDay, LeadCourse, JoinCourse
  <2>2. /\ \A w : DropWork(w) => Tears
        /\ \A w, t, g : SetWork(w, t, g) => Tears
        /\ \A w, s : HandIn(w, s) => Tears
        /\ \A w, s, n : GradeWork(w, s, n) => Tears
        /\ \A e : DropTest(e) => Tears
        /\ \A e, t : SetTest(e, t) => Tears
    BY DEF DropWork, SetWork, HandIn, GradeWork, DropTest, SetTest
  <2> QED
    BY <2>1, <2>2, Zenon DEF ViewsNext
<1> QED
  BY <1>1, <1>2, <1>3, <1>4

ViewsPart == focus = "views" => ViewsInv

LEMMA ViewsPartHolds == Spec => []ViewsPart
<1>1. Init => ViewsPart
  <2> SUFFICES ASSUME Init, focus = "views" PROVE ViewsInv
    BY DEF ViewsPart
  <2>1. ViewsInit /\ ControlInit
    BY DEF Init
  <2>2. \A h \in Handlers : ViewAtWork(h)
    BY <2>1 DEF ControlInit, ViewAtWork, At, Idle
  <2> QED
    BY <2>1, <2>2, ViewsStartTyped DEF ViewsInv
<1>2. ViewsPart /\ KeepsToPart /\ [Next]_vars => ViewsPart'
  <2> SUFFICES ASSUME ViewsPart, KeepsToPart, [Next]_vars, focus' = "views" PROVE ViewsInv'
    BY DEF ViewsPart
  <2>1. focus = "views" /\ ViewsInv /\ Shape
    BY DEF Next, vars, ViewsPart, KeepsToPart, Within
  <2>2. CASE ViewsNext
    BY <2>1, <2>2, ViewsStep
  <2>3. CASE UNCHANGED vars
    <3>1. UNCHANGED viewTables /\ UNCHANGED task
      BY <2>3 DEF vars, control
    <3>2. \A h \in Handlers : ViewAtWork(h)'
      BY <2>1, <3>1, OtherViews
    <3> QED
      BY <2>1, <3>1, <3>2, SameViewRows DEF ViewsInv
  <2> QED
    BY <2>1, <2>2, <2>3 DEF Next
<1> QED
  BY <1>1, <1>2, KeepsToPartHolds, PTL DEF Spec

\* What a view that is about to be sent was about, and that it was answered.
LEMMA SentView ==
    ASSUME ViewsInv, NEW kind, NEW d \in Sent(kind)
    PROVE  /\ d.kind = kind /\ kind \in ViewKinds /\ IsAbout(kind, d.of) /\ d.page \in Nat \ {0}
           /\ SoundAnswers(d, d.answers) /\ AskedBy(d, d.answers) \subseteq DOMAIN d.answers
           /\ ~d.torn => /\ \A q \in DOMAIN d.answers : d.answers[q] \in Tells(d, d.answers, q)
                         /\ \A q \in DOMAIN d.answers :
                              q[1] # "group" => d.answers[q] = Told(d, d.answers, q)
                         /\ d.kind = "lesson" => texts[d.of] # None
<1>1. PICK h \in Handlers : At(h, "composed") /\ Data(h).kind = kind /\ d = Data(h)
  BY DEF Sent
<1>2. /\ ViewData(d) /\ StillTold(d)
      /\ AskedBy(d, d.answers) \subseteq DOMAIN d.answers
  BY <1>1 DEF ViewsInv, ViewAtWork
<1>3. ASSUME ~d.torn
      PROVE  \A q \in DOMAIN d.answers : q[1] # "group" => d.answers[q] = Told(d, d.answers, q)
  <2> DEFINE a == d.answers
  <2>1. \A q : q[1] # "group" => Tells(d, a, q) = {Told(d, a, q)}
    BY DEF Tells
  <2>2. \A q \in DOMAIN a : a[q] \in Tells(d, a, q)
    BY <1>2, <1>3 DEF StillTold
  <2> HIDE DEF a
  <2>3. \A q \in DOMAIN a : q[1] # "group" => a[q] = Told(d, a, q)
    BY <2>1, <2>2
  <2> QED
    BY <2>3 DEF a
<1> QED
  BY <1>1, <1>2, <1>3 DEF ViewData, StillTold

LEMMA SteadyView ==
    ASSUME ViewsInv, NEW kind, NEW d \in Steady(kind)
    PROVE  /\ d.kind = kind /\ kind \in ViewKinds /\ IsAbout(kind, d.of) /\ d.page \in Nat \ {0}
           /\ SoundAnswers(d, d.answers) /\ AskedBy(d, d.answers) \subseteq DOMAIN d.answers
           /\ \A q \in DOMAIN d.answers : d.answers[q] \in Tells(d, d.answers, q)
           /\ \A q \in DOMAIN d.answers : q[1] # "group" => d.answers[q] = Told(d, d.answers, q)
           /\ \A q \in AskedBy(d, d.answers) : q[1] # "group" => d.answers[q] = Told(d, d.answers, q)
           /\ d.kind = "lesson" => texts[d.of] # None
<1>1. d \in Sent(kind) /\ ~d.torn
  BY DEF Steady
<1> QED
  BY <1>1, SentView

LEMMA ViewNumbers ==
    /\ \A S \in SUBSET Learners : IsFiniteSet(S) /\ S \subseteq Nat
    /\ \A S \in SUBSET Works : IsFiniteSet(S) /\ S \subseteq Nat
    /\ \A S \in SUBSET Tests : IsFiniteSet(S) /\ S \subseteq Nat
    /\ \A S \in SUBSET Texts : IsFiniteSet(S) /\ S \subseteq Nat
    /\ \A S \in SUBSET Days : IsFiniteSet(S) /\ S \subseteq Nat
    /\ \A S \in SUBSET Tutors : IsFiniteSet(S)
    /\ \A S \in SUBSET Classes : IsFiniteSet(S)
    /\ PageSize \in Nat \ {0}
<1>1. \A S \in {Learners, Works, Tests, Texts, Days, Tutors, Classes} : IsFiniteSet(S)
  BY ViewsAssumption
<1>2. Learners \cup Works \cup Tests \cup Texts \cup Days \cup Scores \subseteq Nat
  BY ViewsAssumption
<1>3. PageSize \in Nat \ {0}
  BY RequestsAssumption
<1>4. \A S \in {Learners, Works, Tests, Texts, Days, Tutors, Classes} : \A T \in SUBSET S : IsFiniteSet(T)
  BY <1>1, FS_Subset
<1> QED
  BY <1>2, <1>3, <1>4

\* A page of nothing is empty.
LEMMA NothingOnPage == ASSUME NEW page \in Nat \ {0} PROVE OnPage(0, page) = 0
<1>1. PageSize \in Nat \ {0}
  BY RequestsAssumption
<1> DEFINE all == page * PageSize
           before == (page - 1) * PageSize
<1>2. all \in Nat /\ all # 0 /\ before \in Nat
  BY <1>1
<1>3. OnPage(0, page) = CASE 0 >= all -> PageSize [] 0 <= before -> 0 [] OTHER -> 0 - before
  BY DEF OnPage
<1> HIDE DEF all, before
<1> QED
  BY <1>2, <1>3

LEMMA PagesDoShareTotal ==
    ASSUME ViewsInv
    PROVE  PagesShareTotal
<1> SUFFICES ASSUME NEW kind \in TeacherLists, NEW d \in Steady(kind)
             PROVE  Cardinality(Known(d.answers, "page", {}))
                      = OnPage(Known(d.answers, "total", 0), d.page)
  BY DEF PagesShareTotal
<1> DEFINE t == d.of
           page == d.page
           answers == d.answers
<1>1. /\ d.kind = kind /\ d.page \in Nat \ {0}
      /\ AskedBy(d, d.answers) \subseteq DOMAIN d.answers
      /\ \A q \in DOMAIN d.answers : q[1] # "group" => d.answers[q] = Told(d, d.answers, q)
  BY SteadyView
<1>2. ASSUME kind # "lessons"
      PROVE  /\ Known(answers, "page", {}) = Told(d, answers, <<"page", 0>>)
             /\ Known(answers, "total", 0) = Told(d, answers, <<"total", 0>>)
  <2>1. Ones({"total", "page"}) \subseteq AskedBy(d, answers)
    <3>1. CASE kind = "students"
      BY <1>1, <3>1 DEF AskedBy, TrendViews
    <3>2. CASE kind = "homework"
      BY <1>1, <3>2 DEF AskedBy, TrendViews
    <3>3. CASE kind = "exams"
      BY <1>1, <3>3 DEF AskedBy, TrendViews
    <3> QED
      BY <1>2, <3>1, <3>2, <3>3 DEF TeacherLists
  <2>2. <<"total", 0>> \in DOMAIN answers /\ <<"page", 0>> \in DOMAIN answers
    BY <1>1, <2>1 DEF Ones
  <2> QED
    BY <1>1, <2>2 DEF Known
<1>3. CASE kind = "students"
  <2> DEFINE S == Taught(t)
  <2>1. S \in SUBSET Learners
    BY DEF Taught, Members
  <2>2. /\ Told(d, answers, <<"page", 0>>) = LowestOn(S, page)
        /\ Told(d, answers, <<"total", 0>>) = Cardinality(S)
    BY <1>1, <1>3 DEF Told, LearnersTotal, LearnersPage
  <2> HIDE DEF S
  <2>3. Cardinality(LowestOn(S, page)) = OnPage(Cardinality(S), page)
    BY <1>1, <2>1, ViewNumbers, LowestPage
  <2> QED
    BY <1>2, <1>3, <2>2, <2>3
<1>4. CASE kind = "homework"
  <2> DEFINE S == {w \in WorksOf(t) : works[w].live}
  <2>1. S \in SUBSET Works
    BY DEF WorksOf
  <2>2. /\ Told(d, answers, <<"page", 0>>) = NewestOn(S, page)
        /\ Told(d, answers, <<"total", 0>>) = Cardinality(S)
    BY <1>1, <1>4 DEF Told, WorksTotal, WorksPage
  <2> HIDE DEF S
  <2>3. Cardinality(NewestOn(S, page)) = OnPage(Cardinality(S), page)
    BY <1>1, <2>1, ViewNumbers, NewestPage
  <2> QED
    BY <1>2, <1>4, <2>2, <2>3
<1>5. CASE kind = "exams"
  <2> DEFINE S == {e \in Tests : tests[e].live /\ tests[e].tutor = t}
  <2>1. S \in SUBSET Tests
    OBVIOUS
  <2>2. /\ Told(d, answers, <<"page", 0>>) = NewestOn(S, page)
        /\ Told(d, answers, <<"total", 0>>) = Cardinality(S)
    BY <1>1, <1>5 DEF Told, TestsTotal, TestsPage
  <2> HIDE DEF S
  <2>3. Cardinality(NewestOn(S, page)) = OnPage(Cardinality(S), page)
    BY <1>1, <2>1, ViewNumbers, NewestPage
  <2> QED
    BY <1>2, <1>5, <2>2, <2>3
<1>6. CASE kind = "lessons"
  <2> DEFINE C == answers[<<"courses", 0>>]
             S == {l \in Texts : texts[l] \in C}
  <2>1. S \in SUBSET Texts
    OBVIOUS
  <2>2. /\ Told(d, answers, <<"page", 0>>) = NewestOn(S, page)
        /\ Told(d, answers, <<"total", 0>>) = Cardinality(S)
    BY <1>1, <1>6 DEF Told, TextsTotal, TextsPage
  <2>3. <<"courses", 0>> \in DOMAIN answers /\ Known(answers, "courses", {}) = C
    <3>1. Ones({"courses"}) \subseteq AskedBy(d, answers)
      BY <1>1, <1>6 DEF AskedBy, TrendViews
    <3> QED
      BY <1>1, <3>1 DEF Ones, Known
  <2>4. C # {} => <<"total", 0>> \in DOMAIN answers /\ <<"page", 0>> \in DOMAIN answers
    <3>1. C # {} => Ones({"total", "page"}) \subseteq AskedBy(d, answers)
      BY <1>1, <1>6, <2>3 DEF AskedBy, TrendViews
    <3> QED
      BY <1>1, <3>1 DEF Ones
  <2>5. C = {} => S = {}
    OBVIOUS
  <2>6. Cardinality({}) = 0 /\ OnPage(0, page) = 0
    BY <1>1, FS_EmptySet, NothingOnPage
  <2>7. S = {} => NewestOn(S, page) = {}
    BY DEF NewestOn
  <2>8. /\ Known(answers, "page", {}) = NewestOn(S, page)
        /\ Known(answers, "total", 0) = Cardinality(S)
    <3>1. CASE S = {}
      BY <1>1, <2>2, <2>6, <2>7, <3>1 DEF Known
    <3>2. CASE S # {}
      BY <1>1, <2>2, <2>4, <2>5, <3>2 DEF Known
    <3> QED
      BY <3>1, <3>2
  <2> HIDE DEF S
  <2>9. Cardinality(NewestOn(S, page)) = OnPage(Cardinality(S), page)
    BY <1>1, <2>1, ViewNumbers, NewestPage
  <2> QED
    BY <2>8, <2>9
<1> QED
  BY <1>3, <1>4, <1>5, <1>6 DEF TeacherLists

\* What the columns of hand-ins and of attendance hold.
LEMMA GradesTyped ==
    ASSUME ViewRows, NEW W \in SUBSET Works
    PROVE  /\ IsFiniteSet(HandIns(W)) /\ HandIns(W) \subseteq W \X Learners
           /\ IsFiniteSet(Scored(HandIns(W))) /\ Scored(HandIns(W)) \subseteq HandIns(W)
           /\ Scored(HandIns(W)) \subseteq Scored(HandIns(Works))
           /\ \A p \in Scored(HandIns(W)) : /\ handed[p].score \in Nat /\ handed[p].month \in Days
                                           /\ p[1] \in W /\ p[2] \in Learners
<1>1. IsFiniteSet(HandIns(W)) /\ HandIns(W) \subseteq W \X Learners
  BY ViewNumbers, HandInsFinite
<1>2. Scored(HandIns(W)) \subseteq HandIns(W)
  BY DEF Scored
<1>3. Scored(HandIns(W)) \subseteq Scored(HandIns(Works))
  <2>1. HandIns(W) \subseteq HandIns(Works)
    BY DEF HandIns
  <2> QED
    BY <2>1 DEF Scored
<1>4. ASSUME NEW p \in Scored(HandIns(W))
      PROVE  /\ handed[p].score \in Nat /\ handed[p].month \in Days
             /\ p[1] \in W /\ p[2] \in Learners
  <2>1. p \in W \X Learners /\ handed[p].score # None
    BY <1>1, <1>2 DEF Scored
  <2>2. p[1] \in W /\ p[2] \in Learners /\ p \in Works \X Learners
    BY <2>1
  <2>3. handed[p] \in HandedIn /\ Graded(handed)
    BY <2>2 DEF ViewRows
  <2>4. handed[p].month \in Days
    BY <2>1, <2>2, <2>3 DEF Graded
  <2>5. handed[p].score \in Nat
    BY <2>1, <2>3 DEF HandedIn
  <2> QED
    BY <2>2, <2>4, <2>5
<1> QED
  BY <1>1, <1>2, <1>3, <1>4, FS_Subset

LEMMA ScoredFinite ==
    ASSUME ViewRows, NEW S, S \subseteq Scored(HandIns(Works))
    PROVE  IsFiniteSet(S)
<1>1. Works \in SUBSET Works
  OBVIOUS
<1> QED
  BY <1>1, GradesTyped, FS_Subset

LEMMA RollsTyped ==
    ASSUME ViewRows
    PROVE  /\ IsFiniteSet(DOMAIN rolls) /\ 0 \notin DOMAIN rolls
           /\ \A i \in DOMAIN rolls :
                /\ rolls[i].learner \in Learners /\ rolls[i].class \in Classes
                /\ rolls[i].day \in Days /\ rolls[i].status \in RollStatuses
<1>1. DOMAIN rolls = 1 .. Len(rolls) /\ Len(rolls) \in Nat /\ \A i \in DOMAIN rolls : rolls[i] \in Roll
  BY LenProperties, ElementOfSeq DEF ViewRows
<1>2. IsFiniteSet(DOMAIN rolls) /\ 0 \notin DOMAIN rolls
  BY <1>1, FS_Interval
<1> QED
  BY <1>1, <1>2 DEF Roll

LEMMA TotalIs == ASSUME NEW f PROVE Total(f) = SumOver(f, DOMAIN f)
BY DEF Total

\* The scores of hand-ins, added up.
LEMMA ScoreSumIs ==
    ASSUME ViewRows, NEW P, P \subseteq Scored(HandIns(Works)),
           NEW f, \A p \in P : f[p] = handed[p].score
    PROVE  ScoreSum(P) = SumOver(f, P) /\ ScoreSum(P) \in Nat /\ IsFiniteSet(P)
<1> DEFINE g == [p \in P |-> handed[p].score]
<1>1. ScoreSum(P) = SumOver(g, P)
  BY TotalIs DEF ScoreSum
<1>2. IsFiniteSet(P) /\ \A p \in P : g[p] = f[p] /\ g[p] \in Nat
  BY GradesTyped, FS_Subset
<1> HIDE DEF g
<1>3. SumOver(g, P) = SumOver(f, P) /\ SumOver(g, P) \in Nat
  BY <1>2, SumOverAgree, SumOverNat
<1> QED
  BY <1>1, <1>2, <1>3

\* The months share out the grades and scores of them.
LEMMA GradesByMonth ==
    ASSUME ViewRows, NEW S, S \subseteq Scored(HandIns(Works)),
           \A p \in S : handed[p].month \in TrendMonths,
           NEW a, \A m \in TrendMonths : a[m] = Average({p \in S : handed[p].month = m})
    PROVE  /\ Total([m \in TrendMonths |-> a[m].count]) = Cardinality(S)
           /\ Total([m \in TrendMonths |-> a[m].sum]) = ScoreSum(S)
<1> DEFINE k == [p \in S |-> handed[p].month]
           f == [p \in S |-> handed[p].score]
           counts == [m \in TrendMonths |-> a[m].count]
           sums == [m \in TrendMonths |-> a[m].sum]
<1>1. IsFiniteSet(S) /\ \A p \in S : k[p] \in TrendMonths /\ f[p] = handed[p].score /\ f[p] \in Int
  BY GradesTyped, FS_Subset
<1>2. IsFiniteSet(TrendMonths)
  BY MonthsFinite
<1>3. \A m \in TrendMonths : {p \in S : handed[p].month = m} = Fibre(S, k, m)
  BY DEF Fibre
<1>4. Total(counts) = SumOver(counts, TrendMonths) /\ Total(sums) = SumOver(sums, TrendMonths)
  BY TotalIs
<1> HIDE DEF k, f
<1>5. ASSUME NEW m \in TrendMonths
      PROVE  counts[m] = Cardinality(Fibre(S, k, m)) /\ sums[m] = ScoreSum(Fibre(S, k, m))
  <2> DEFINE P == Fibre(S, k, m)
  <2>1. counts[m] = a[m].count /\ sums[m] = a[m].sum /\ a[m] = Average(P)
    BY <1>3
  <2> HIDE DEF P
  <2>2. Average(P).count = Cardinality(P) /\ Average(P).sum = ScoreSum(P)
    BY DEF Average
  <2> QED
    BY <2>1, <2>2 DEF P
<1>6. ASSUME NEW m \in TrendMonths PROVE ScoreSum(Fibre(S, k, m)) = SumOver(f, Fibre(S, k, m))
  <2>1. Fibre(S, k, m) \subseteq S
    BY DEF Fibre
  <2> QED
    BY <1>1, <2>1, ScoreSumIs
<1> HIDE DEF counts, sums
<1>7. SumOver(counts, TrendMonths) = Cardinality(S)
  BY <1>1, <1>2, <1>5, CardinalityFibres
<1>8. \A m \in TrendMonths : sums[m] = SumOver(f, Fibre(S, k, m))
  BY <1>5, <1>6
<1>9. SumOver(sums, TrendMonths) = SumOver(f, S)
  BY <1>1, <1>2, <1>8, SumOverFibres
<1>10. SumOver(f, S) = ScoreSum(S)
  BY <1>1, ScoreSumIs
<1> QED
  BY <1>4, <1>7, <1>9, <1>10 DEF counts, sums

\* The months share out their rows of attendance, and those who were present.
LEMMA RollsByDay ==
    ASSUME ViewRows, NEW I, I \subseteq DOMAIN rolls,
           \A i \in I : rolls[i].day \in TrendMonths,
           NEW a, \A m \in TrendMonths : a[m] = Rate({i \in I : rolls[i].day = m})
    PROVE  /\ Total([m \in TrendMonths |-> a[m].total]) = Cardinality(I)
           /\ Total([m \in TrendMonths |-> a[m].present]) = Cardinality(Present(I))
<1> DEFINE k == [i \in I |-> rolls[i].day]
           J == Present(I)
           l == [i \in J |-> rolls[i].day]
           totals == [m \in TrendMonths |-> a[m].total]
           presents == [m \in TrendMonths |-> a[m].present]
<1>1. IsFiniteSet(I) /\ IsFiniteSet(J) /\ (\A i \in I : k[i] \in TrendMonths) /\ \A i \in J : l[i] \in TrendMonths
  BY RollsTyped, FS_Subset DEF Present
<1>2. IsFiniteSet(TrendMonths)
  BY MonthsFinite
<1>3. \A m \in TrendMonths : /\ {i \in I : rolls[i].day = m} = Fibre(I, k, m)
                     /\ Present({i \in I : rolls[i].day = m}) = Fibre(J, l, m)
  BY DEF Fibre, Present
<1>4. Total(totals) = SumOver(totals, TrendMonths) /\ Total(presents) = SumOver(presents, TrendMonths)
  BY TotalIs
<1> HIDE DEF k, l, J
<1>5. ASSUME NEW m \in TrendMonths
      PROVE  totals[m] = Cardinality(Fibre(I, k, m)) /\ presents[m] = Cardinality(Fibre(J, l, m))
  <2> DEFINE P == {i \in I : rolls[i].day = m}
  <2>1. totals[m] = a[m].total /\ presents[m] = a[m].present /\ a[m] = Rate(P)
    OBVIOUS
  <2>2. P = Fibre(I, k, m) /\ Present(P) = Fibre(J, l, m)
    BY <1>3
  <2> HIDE DEF P
  <2>3. Rate(P).total = Cardinality(P) /\ Rate(P).present = Cardinality(Present(P))
    BY DEF Rate
  <2> QED
    BY <2>1, <2>2, <2>3
<1> HIDE DEF totals, presents
<1>6. SumOver(totals, TrendMonths) = Cardinality(I) /\ SumOver(presents, TrendMonths) = Cardinality(J)
  BY <1>1, <1>2, <1>5, CardinalityFibres
<1> QED
  BY <1>4, <1>6 DEF totals, presents, J

\* What a trend says of hand-ins and of attendance, when it was told of each month.
LEMMA TrendHasThem ==
    ASSUME ViewRows, NEW d, NEW S, S \subseteq Scored(HandIns(Works)),
           \A m \in TrendMonths :
              d.answers[<<"grades", m>>] = Average({p \in S : handed[p].month = m})
    PROVE  TrendHas(d, S)
<1> DEFINE T == {p \in S : handed[p].month \in TrendMonths}
           a == [m \in TrendMonths |-> d.answers[<<"grades", m>>]]
           counts == Total([m \in TrendMonths |-> a[m].count])
           sums == Total([m \in TrendMonths |-> a[m].sum])
<1>1. T \subseteq S /\ \A p \in T : handed[p].month \in TrendMonths
  OBVIOUS
<1>2. \A m \in TrendMonths : {p \in S : handed[p].month = m} = {p \in T : handed[p].month = m}
  OBVIOUS
<1>3. \A m \in TrendMonths : a[m] = Average({p \in T : handed[p].month = m})
  BY <1>2
<1>4. /\ counts = Total([m \in TrendMonths |-> d.answers[<<"grades", m>>].count])
      /\ sums = Total([m \in TrendMonths |-> d.answers[<<"grades", m>>].sum])
  <2>1. /\ [m \in TrendMonths |-> a[m].count] = [m \in TrendMonths |-> d.answers[<<"grades", m>>].count]
        /\ [m \in TrendMonths |-> a[m].sum] = [m \in TrendMonths |-> d.answers[<<"grades", m>>].sum]
    OBVIOUS
  <2> QED
    BY <2>1
<1>5. (\A p \in S : handed[p].month \in TrendMonths) => T = S
  OBVIOUS
<1>6. IsFiniteSet(S)
  BY ScoredFinite
<1> HIDE DEF T, a
<1>7. counts = Cardinality(T) /\ sums = ScoreSum(T)
  BY <1>1, <1>3, GradesByMonth
<1>8. Cardinality(T) <= Cardinality(S)
  BY <1>1, <1>6, FS_Subset
<1> HIDE DEF counts, sums
<1> QED
  BY <1>4, <1>5, <1>7, <1>8 DEF TrendHas

LEMMA TrendHasPresent ==
    ASSUME ViewRows, NEW d, NEW I, I \subseteq DOMAIN rolls,
           \A m \in TrendMonths : d.answers[<<"marks", m>>] = Rate({i \in I : rolls[i].day = m})
    PROVE  LET presents == Total([m \in TrendMonths |-> d.answers[<<"marks", m>>].present]) IN
           /\ presents <= Cardinality(Present(I))
           /\ (\A i \in I : rolls[i].day \in TrendMonths) => presents = Cardinality(Present(I))
<1> DEFINE T == {i \in I : rolls[i].day \in TrendMonths}
           a == [m \in TrendMonths |-> d.answers[<<"marks", m>>]]
           presents == Total([m \in TrendMonths |-> a[m].present])
<1>1. T \subseteq DOMAIN rolls /\ \A i \in T : rolls[i].day \in TrendMonths
  OBVIOUS
<1>2. \A m \in TrendMonths : {i \in I : rolls[i].day = m} = {i \in T : rolls[i].day = m}
  OBVIOUS
<1>3. \A m \in TrendMonths : a[m] = Rate({i \in T : rolls[i].day = m})
  BY <1>2
<1>4. presents = Total([m \in TrendMonths |-> d.answers[<<"marks", m>>].present])
  <2>1. [m \in TrendMonths |-> a[m].present] = [m \in TrendMonths |-> d.answers[<<"marks", m>>].present]
    OBVIOUS
  <2> QED
    BY <2>1
<1>5. (\A i \in I : rolls[i].day \in TrendMonths) => T = I
  OBVIOUS
<1>6. Present(T) \subseteq Present(I) /\ IsFiniteSet(Present(I))
  BY RollsTyped, FS_Subset DEF Present
<1> HIDE DEF T, a
<1>7. presents = Cardinality(Present(T))
  BY <1>1, <1>3, RollsByDay
<1>8. Cardinality(Present(T)) <= Cardinality(Present(I))
  BY <1>6, FS_Subset
<1> HIDE DEF presents
<1> QED
  BY <1>4, <1>5, <1>7, <1>8

\* Pairs repeat what is said of their first half as often as there are second halves.
LEMMA SumOverPairs ==
    ASSUME NEW H, IsFiniteSet(H), NEW R, IsFiniteSet(R),
           NEW f, \A x \in H : f[x] \in Int, NEW g, \A z \in H \X R : g[z] = f[z[1]]
    PROVE  SumOver(g, H \X R) = Cardinality(R) * SumOver(f, H)
<1> DEFINE J == H \X R
           k == [z \in J |-> z[1]]
<1>1. IsFiniteSet(J) /\ Cardinality(R) \in Nat
  BY FS_Product, FS_CardinalityType
<1>2. \A z \in J : k[z] \in H /\ g[z] = f[k[z]]
  OBVIOUS
<1>3. ASSUME NEW x \in H PROVE Cardinality(Fibre(J, k, x)) = Cardinality(R)
  <2> DEFINE at == [y \in R |-> <<x, y>>]
             T == Fibre(J, k, x)
  <2>1. \A y \in R : at[y] \in T
    BY DEF Fibre
  <2>2. \A y, z \in R : at[y] = at[z] => y = z
    OBVIOUS
  <2>3. \A z \in T : \E y \in R : at[y] = z
    <3> SUFFICES ASSUME NEW z \in T PROVE \E y \in R : at[y] = z
      OBVIOUS
    <3>1. z \in J /\ z[1] = x
      BY DEF Fibre
    <3>2. z = <<x, z[2]>> /\ z[2] \in R
      BY <3>1
    <3> QED
      BY <3>2
  <2> HIDE DEF at, T
  <2>4. Cardinality(T) = Cardinality(R)
    BY <2>1, <2>2, <2>3, SameSize
  <2> QED
    BY <2>4 DEF T
<1> HIDE DEF J, k
<1>4. SumOver(g, J) = Cardinality(R) * SumOver(f, H)
  BY <1>1, <1>2, <1>3, SumOverRepeats
<1> QED
  BY <1>4 DEF J

LEMMA Swapped == \A n, a, b \in Nat : (n * a) * b = (b * n) * a
OBVIOUS

LEMMA ProductIsNone == \A a, b \in Nat : a * b = 0 <=> a = 0 \/ b = 0
OBVIOUS

\* What is shown of a student has the average and the rate of the student's rows.
InProportion(t, s, shown) ==
    LET own  == {p \in HandIns(WorksOf(t)) : p[2] = s}
        rows == {i \in RollsBy(t) : rolls[i].learner = s}
    IN  /\ shown.sum * Cardinality(Scored(own)) = shown.count * ScoreSum(Scored(own))
        /\ shown.present * Cardinality(rows) = shown.total * Cardinality(Present(rows))
        /\ own # {} => (shown.total = 0 <=> rows = {})

\* Joining every hand-in of a student to every row of attendance leaves average and rate.
LEMMA PerformanceIs ==
    ASSUME ViewRows, NEW t, NEW s
    PROVE  InProportion(t, s, Performance(t, s))
<1> DEFINE own    == {p \in HandIns(WorksOf(t)) : p[2] = s}
           rows   == {i \in RollsBy(t) : rolls[i].learner = s}
           shown  == Performance(t, s)
           R      == IF rows = {} THEN {0} ELSE rows
           joint  == own \X R
           scored == {r \in joint : handed[r[1]].score # None}
           some   == {r \in joint : r[2] # 0}
           here   == {r \in joint : r[2] \in Present(rows)}
           g      == [r \in scored |-> handed[r[1]].score]
           graded == Scored(own)
           f      == [p \in graded |-> handed[p].score]
           sum    == ScoreSum(graded)
<1>1. shown.sum = Total(g) /\ shown.count = Cardinality(scored)
      /\ shown.total = Cardinality(some) /\ shown.present = Cardinality(here)
  BY DEF Performance
<1>2. WorksOf(t) \in SUBSET Works /\ own \subseteq HandIns(WorksOf(t))
  BY DEF WorksOf
<1>3. IsFiniteSet(own) /\ graded \subseteq Scored(HandIns(Works)) /\ graded \subseteq own
  <2>1. IsFiniteSet(HandIns(WorksOf(t))) /\ Scored(HandIns(WorksOf(t))) \subseteq Scored(HandIns(Works))
    BY <1>2, GradesTyped
  <2>2. graded \subseteq Scored(HandIns(WorksOf(t))) /\ graded \subseteq own
    BY <1>2 DEF Scored
  <2> QED
    BY <1>2, <2>1, <2>2, FS_Subset
<1>4. rows \subseteq DOMAIN rolls /\ IsFiniteSet(rows) /\ 0 \notin rows
  <2>1. rows \subseteq DOMAIN rolls
    BY DEF RollsBy
  <2> QED
    BY <2>1, RollsTyped, FS_Subset
<1>5. IsFiniteSet(R)
  BY <1>4, FS_Singleton
<1>6. scored = graded \X R
  BY DEF Scored
<1>7. \A p \in graded : f[p] = handed[p].score /\ f[p] \in Int
  BY <1>3, GradesTyped
<1>8. \A r \in graded \X R : g[r] = f[r[1]]
  BY <1>6
<1>9. Total(g) = SumOver(g, scored)
  BY TotalIs
<1>10. Present(rows) \subseteq rows /\ (rows = {} => Present(rows) = {})
  BY DEF Present
<1>11. rows = {} => some = {} /\ here = {}
  BY <1>10
<1>12. rows # {} => some = own \X rows /\ here = own \X Present(rows)
  BY <1>4, <1>10
<1>13. IsFiniteSet(graded) /\ sum = SumOver(f, graded) /\ sum \in Nat
  BY <1>3, <1>7, ScoreSumIs
<1>14. IsFiniteSet(Present(rows))
  BY <1>4, <1>10, FS_Subset
<1> DEFINE n == Cardinality(R)
           c == Cardinality(graded)
           l == Cardinality(rows)
           m == Cardinality(Present(rows))
           w == Cardinality(own)
<1>15. n \in Nat /\ c \in Nat /\ l \in Nat /\ m \in Nat /\ w \in Nat
  BY <1>3, <1>4, <1>5, <1>13, <1>14, FS_CardinalityType
<1> HIDE DEF own, rows, R, f, g, graded, scored, some, here, sum, shown
<1>16. SumOver(g, scored) = n * sum
  BY <1>5, <1>6, <1>7, <1>8, <1>13, SumOverPairs
<1>17. Cardinality(scored) = c * n
  BY <1>5, <1>6, <1>13, FS_Product
<1>18. rows # {} => Cardinality(some) = w * l /\ Cardinality(here) = w * m
  BY <1>3, <1>4, <1>12, <1>14, FS_Product
<1>19. (rows = {} <=> l = 0) /\ (own = {} <=> w = 0) /\ Cardinality({}) = 0
  BY <1>3, <1>4, FS_EmptySet
<1>20. shown.sum * c = shown.count * sum
  <2>1. shown.sum = n * sum /\ shown.count = c * n
    BY <1>1, <1>9, <1>16, <1>17
  <2> HIDE DEF n, c
  <2> QED
    BY <1>13, <1>15, <2>1, Swapped
<1>21. shown.present * l = shown.total * m
  <2>1. CASE rows = {}
    <3>1. shown.present = 0 /\ shown.total = 0
      BY <1>1, <1>11, <1>19, <2>1
    <3> HIDE DEF l, m
    <3> QED
      BY <1>15, <3>1
  <2>2. CASE rows # {}
    <3>1. shown.present = w * m /\ shown.total = w * l
      BY <1>1, <1>18, <2>2
    <3> HIDE DEF l, m, w
    <3> QED
      BY <1>15, <3>1
  <2> QED
    BY <2>1, <2>2
<1>22. own # {} => (shown.total = 0 <=> rows = {})
  <2>1. CASE rows = {}
    BY <1>1, <1>11, <1>19, <2>1
  <2>2. CASE rows # {}
    <3>1. shown.total = w * l /\ l # 0 /\ (own # {} => w # 0)
      BY <1>1, <1>18, <1>19, <2>2
    <3> HIDE DEF l, w
    <3> QED
      BY <1>15, <2>2, <3>1, ProductIsNone
  <2> QED
    BY <2>1, <2>2
<1> QED
  BY <1>20, <1>21, <1>22 DEF InProportion, shown, own, rows, graded, sum

LEMMA OneOfThem ==
    ASSUME NEW S, IsFiniteSet(S), NEW f, \A x \in S : f[x] \in Nat, NEW y \in S
    PROVE  f[y] <= SumOver(f, S)
<1>1. SumOver(f, {y}) <= SumOver(f, S)
  BY SumOverGrows
<1>2. SumOver(f, {y}) = f[y]
  <2>1. IsFiniteSet({}) /\ y \notin {} /\ {} \cup {y} = {y} /\ f[y] \in Int /\ SumOver(f, {}) = 0
    BY FS_EmptySet, SumOverEmpty
  <2>2. SumOver(f, {} \cup {y}) = SumOver(f, {}) + f[y]
    BY <2>1, SumOverAdd
  <2> QED
    BY <2>1, <2>2
<1> QED
  BY <1>1, <1>2

LEMMA AnalyticsDoAddUp ==
    ASSUME ViewsInv
    PROVE  AnalyticsAddUp
<1>0. ViewRows
  BY DEF ViewsInv
<1>1. ASSUME NEW d \in Sent("analytics")
      PROVE  Answered(d, "stats").graded + Answered(d, "stats").pending <= Answered(d, "stats").assigned
  <2>1. /\ d.kind = "analytics" /\ SoundAnswers(d, d.answers)
        /\ AskedBy(d, d.answers) \subseteq DOMAIN d.answers
    BY SentView
  <2>2. Ones({"groups", "unique", "recent", "stats", "average"}) \subseteq AskedBy(d, d.answers)
    BY <2>1 DEF AskedBy, TrendViews
  <2>3. <<"stats", 0>> \in DOMAIN d.answers
    BY <2>1, <2>2 DEF Ones
  <2>4. Divided(d.answers[<<"stats", 0>>])
    BY <2>1, <2>3 DEF SoundAnswers
  <2> QED
    BY <2>4 DEF Divided, Answered
<1>2. ASSUME NEW d \in Steady("analytics")
      PROVE  /\ Answered(d, "average").count = Answered(d, "stats").graded
             /\ TrendHas(d, Scored(HandIns(WorksOf(d.of))))
             /\ Total([m \in TrendMonths |-> d.answers[<<"marks", m>>].total]) >= Answered(d, "recent").total
             /\ Answered(d, "unique") = {s \in Learners : d.of \in TutorsOf(s)}
             /\ \A s \in FirstOf(Answered(d, "unique")) :
                  LET own   == {p \in HandIns(WorksOf(d.of)) : p[2] = s}
                      rows  == {i \in RollsBy(d.of) : rolls[i].learner = s}
                      shown == d.answers[<<"performance", s>>]
                  IN  /\ shown.sum * Cardinality(Scored(own)) = shown.count * ScoreSum(Scored(own))
                      /\ shown.present * Cardinality(rows) = shown.total * Cardinality(Present(rows))
                      /\ own # {} => (shown.total = 0 <=> rows = {})
  <2> DEFINE t == d.of
             a == d.answers
             S == Scored(HandIns(WorksOf(t)))
             I == RollsBy(t)
  <2>1. /\ d.kind = "analytics" /\ t \in Tutors
        /\ AskedBy(d, a) \subseteq DOMAIN a /\ \A q \in AskedBy(d, a) : q[1] # "group" => a[q] = Told(d, a, q)
    BY SteadyView DEF IsAbout
  <2>2. AskedBy(d, a) = Ones({"groups", "unique", "recent", "stats", "average"})
                          \cup {"marks", "grades"} \X TrendMonths \cup {"performance"} \X FirstOf(Known(a, "unique", {}))
    BY <2>1 DEF AskedBy, TrendViews
  <2> HIDE DEF a
  <2>3. \A n \in {"groups", "unique", "recent", "stats", "average"} : <<n, 0>> \in AskedBy(d, a)
    BY <2>2 DEF Ones
  <2>4. /\ a[<<"groups", 0>>] = OwnClasses(t) /\ a[<<"recent", 0>>] = RecentRate(t)
        /\ a[<<"stats", 0>>] = HomeworkStats(t) /\ a[<<"average", 0>>] = AverageScore(t)
        /\ a[<<"unique", 0>>] = UniqueLearners(OwnClasses(t))
    <3>1. /\ a[<<"groups", 0>>] = Told(d, a, <<"groups", 0>>)
          /\ a[<<"recent", 0>>] = Told(d, a, <<"recent", 0>>)
          /\ a[<<"stats", 0>>] = Told(d, a, <<"stats", 0>>)
          /\ a[<<"average", 0>>] = Told(d, a, <<"average", 0>>)
          /\ a[<<"unique", 0>>] = Told(d, a, <<"unique", 0>>)
      BY <2>1, <2>3
    <3>2. Told(d, a, <<"groups", 0>>) = OwnClasses(t) /\ Told(d, a, <<"recent", 0>>) = RecentRate(t)
      BY <2>1 DEF Told
    <3>3. Told(d, a, <<"stats", 0>>) = HomeworkStats(t) /\ Told(d, a, <<"average", 0>>) = AverageScore(t)
      BY <2>1 DEF Told
    <3>4. Told(d, a, <<"unique", 0>>) = UniqueLearners(a[<<"groups", 0>>])
      BY <2>1 DEF Told
    <3> QED
      BY <3>1, <3>2, <3>3, <3>4
  <2>5. \A m \in TrendMonths : a[<<"marks", m>>] = MonthRate(t, m) /\ a[<<"grades", m>>] = MonthGrade(t, m)
    <3> SUFFICES ASSUME NEW m \in TrendMonths
                 PROVE  a[<<"marks", m>>] = MonthRate(t, m) /\ a[<<"grades", m>>] = MonthGrade(t, m)
      OBVIOUS
    <3>1. <<"marks", m>> \in AskedBy(d, a) /\ <<"grades", m>> \in AskedBy(d, a)
      BY <2>2
    <3>2. a[<<"marks", m>>] = Told(d, a, <<"marks", m>>) /\ a[<<"grades", m>>] = Told(d, a, <<"grades", m>>)
      BY <2>1, <3>1
    <3>3. Told(d, a, <<"marks", m>>) = MonthRate(t, m)
      BY <2>1 DEF Told
    <3>4. Told(d, a, <<"grades", m>>) = MonthGrade(t, m)
      BY <2>1 DEF Told
    <3> QED
      BY <3>2, <3>3, <3>4
  <2>6. WorksOf(t) \in SUBSET Works
    BY DEF WorksOf
  <2>7. S \subseteq Scored(HandIns(Works)) /\ I \subseteq DOMAIN rolls
    BY <1>0, <2>6, GradesTyped DEF RollsBy
  <2>8. HomeworkStats(t).graded = Cardinality(S)
    BY DEF HomeworkStats
  <2>9. AverageScore(t) = Average(S) /\ \A m \in TrendMonths : MonthGrade(t, m) = Average({p \in S : handed[p].month = m})
    BY DEF AverageScore, MonthGrade
  <2>10. /\ RecentRate(t) = Rate({i \in I : rolls[i].day = 0})
         /\ \A m \in TrendMonths : MonthRate(t, m) = Rate({i \in I : rolls[i].day = m})
    BY DEF RecentRate, MonthRate
  <2> HIDE DEF S, I
  <2>11. Average(S).count = Cardinality(S) /\ Average(S).sum = ScoreSum(S)
    BY DEF Average
  <2>12. TrendHas(d, S)
    <3>1. \A m \in TrendMonths :
             d.answers[<<"grades", m>>] = Average({p \in S : handed[p].month = m})
      BY <2>5, <2>9 DEF a
    <3> QED
      BY <1>0, <2>7, <3>1, TrendHasThem
  <2>13. Total([m \in TrendMonths |-> a[<<"marks", m>>].total]) >= RecentRate(t).total
    <3> DEFINE f == [m \in TrendMonths |-> a[<<"marks", m>>].total]
    <3>1. ASSUME NEW m \in TrendMonths PROVE f[m] \in Nat
      <4> DEFINE T == {i \in I : rolls[i].day = m}
      <4>1. a[<<"marks", m>>] = Rate(T)
        BY <2>5, <2>10
      <4>2. IsFiniteSet(T)
        BY <1>0, <2>7, RollsTyped, FS_Subset
      <4> HIDE DEF T
      <4>3. Rate(T).total = Cardinality(T) /\ Cardinality(T) \in Nat
        BY <4>2, FS_CardinalityType DEF Rate
      <4> QED
        BY <4>1, <4>3
    <3>2. 0 \in TrendMonths /\ IsFiniteSet(TrendMonths)
      BY ViewsAssumption, MonthsFinite DEF TrendMonths
    <3>3. f[0] = RecentRate(t).total
      BY <2>5, <2>10, <3>2
    <3>4. Total(f) = SumOver(f, TrendMonths)
      BY TotalIs
    <3> HIDE DEF f
    <3>5. f[0] <= SumOver(f, TrendMonths) /\ SumOver(f, TrendMonths) \in Nat /\ f[0] \in Nat
      BY <3>1, <3>2, OneOfThem, SumOverNat
    <3>6. Total(f) >= RecentRate(t).total
      BY <3>3, <3>4, <3>5
    <3> QED
      BY <3>6 DEF f
  <2>14. UniqueLearners(OwnClasses(t)) = {s \in Learners : t \in TutorsOf(s)}
    BY <2>1 DEF UniqueLearners, OwnClasses, Members, TutorsOf
  <2>15. \A s \in FirstOf(a[<<"unique", 0>>]) : a[<<"performance", s>>] = Performance(t, s)
    <3> SUFFICES ASSUME NEW s \in FirstOf(a[<<"unique", 0>>]) PROVE a[<<"performance", s>>] = Performance(t, s)
      OBVIOUS
    <3>1. Known(a, "unique", {}) = a[<<"unique", 0>>]
      BY <2>1, <2>3 DEF Known
    <3>2. <<"performance", s>> \in AskedBy(d, a)
      BY <2>2, <3>1
    <3>3. Told(d, a, <<"performance", s>>) = Performance(t, s)
      BY <2>1 DEF Told
    <3> QED
      BY <2>1, <3>2, <3>3
  <2>16. /\ Answered(d, "average") = a[<<"average", 0>>] /\ Answered(d, "stats") = a[<<"stats", 0>>]
         /\ Answered(d, "recent") = a[<<"recent", 0>>] /\ Answered(d, "unique") = a[<<"unique", 0>>]
    BY DEF Answered, a
  <2>17. /\ Answered(d, "average").count = Answered(d, "stats").graded
         /\ TrendHas(d, S)
         /\ Total([m \in TrendMonths |-> a[<<"marks", m>>].total]) >= Answered(d, "recent").total
         /\ Answered(d, "unique") = {s \in Learners : t \in TutorsOf(s)}
    BY <2>4, <2>8, <2>9, <2>11, <2>12, <2>13, <2>14, <2>16
  <2>18. ASSUME NEW s \in FirstOf(Answered(d, "unique"))
         PROVE  LET own   == {p \in HandIns(WorksOf(t)) : p[2] = s}
                    rows  == {i \in RollsBy(t) : rolls[i].learner = s}
                    shown == a[<<"performance", s>>]
                IN  /\ shown.sum * Cardinality(Scored(own)) = shown.count * ScoreSum(Scored(own))
                    /\ shown.present * Cardinality(rows) = shown.total * Cardinality(Present(rows))
                    /\ own # {} => (shown.total = 0 <=> rows = {})
    <3>1. a[<<"performance", s>>] = Performance(t, s)
      BY <2>15, <2>16
    <3>2. InProportion(t, s, Performance(t, s))
      BY <1>0, PerformanceIs
    <3>3. InProportion(t, s, a[<<"performance", s>>])
      BY <3>1, <3>2
    <3> QED
      BY <3>3 DEF InProportion
  <2> QED
    BY <2>17, <2>18 DEF a, S
<1> QED
  BY <1>1, <1>2 DEF AnalyticsAddUp

\* The grades that a student is shown are those of the hand-ins, by course.
LEMMA GradesShownIs ==
    ASSUME ViewRows, NEW s \in Learners
    PROVE  GradesShown(s) = Cardinality({p \in Scored(HandIns(Works)) : p[2] = s})
<1> DEFINE graded == {w \in Works : <<w, s>> \in Scored(HandIns({w}))}
           C      == {CourseOf(w) : w \in graded}
           k      == [w \in graded |-> CourseOf(w)]
           f      == [c \in DOMAIN GradesOf(s) |-> Cardinality(GradesOf(s)[c])]
           P      == {p \in Scored(HandIns(Works)) : p[2] = s}
           at     == [w \in graded |-> <<w, s>>]
<1>1. GradesOf(s) = [c \in C |-> {w \in graded : CourseOf(w) = c}]
  BY DEF GradesOf
<1>2. GradesShown(s) = SumOver(f, C)
  BY <1>1, TotalIs DEF GradesShown
<1>3. IsFiniteSet(graded)
  <2>1. graded \subseteq Works
    OBVIOUS
  <2> QED
    BY <2>1, ViewNumbers
<1>4. IsFiniteSet(C)
  <2>1. k \in Surjection(graded, C)
    BY DEF Surjection
  <2> HIDE DEF k, C, graded
  <2> QED
    BY <1>3, <2>1, FS_Surjection
<1>5. \A c \in C : f[c] = Cardinality(Fibre(graded, k, c))
  <2>1. \A c \in C : Fibre(graded, k, c) = {w \in graded : CourseOf(w) = c}
    BY DEF Fibre
  <2> HIDE DEF graded, k
  <2> QED
    BY <1>1, <2>1
<1>6. \A w \in graded : k[w] \in C
  OBVIOUS
<1>7. \A w \in graded : at[w] \in P
  <2> SUFFICES ASSUME NEW w \in graded PROVE <<w, s>> \in P
    OBVIOUS
  <2>1. <<w, s>> \in Scored(HandIns({w})) /\ w \in Works
    OBVIOUS
  <2> QED
    BY <2>1 DEF Scored, HandIns
<1>8. \A v, w \in graded : at[v] = at[w] => v = w
  OBVIOUS
<1>9. \A p \in P : \E w \in graded : at[w] = p
  <2> SUFFICES ASSUME NEW p \in P PROVE p[1] \in graded /\ at[p[1]] = p
    OBVIOUS
  <2>1. p \in Works \X Learners /\ p[2] = s /\ handed[p].status # "none" /\ handed[p].score # None
    BY DEF Scored, HandIns
  <2>2. p = <<p[1], s>> /\ p[1] \in Works
    BY <2>1
  <2>3. p \in {p[1]} \X Learners
    BY <2>1, <2>2
  <2>4. p[1] \in graded
    BY <2>1, <2>2, <2>3 DEF Scored, HandIns
  <2> QED
    BY <2>2, <2>4
<1> HIDE DEF graded, C, k, f, P, at
<1>10. SumOver(f, C) = Cardinality(graded)
  BY <1>3, <1>4, <1>5, <1>6, CardinalityFibres
<1>11. Cardinality(P) = Cardinality(graded)
  BY <1>3, <1>7, <1>8, <1>9, SameSize
<1> QED
  BY <1>2, <1>10, <1>11 DEF P

\* Every grade is shown to one student and counts for one teacher.
LEMMA GradesAgree ==
    ASSUME ViewRows
    PROVE  Total([s \in Learners |-> GradesShown(s)]) = Total([t \in Tutors |-> AverageScore(t).count])
<1> DEFINE S == Scored(HandIns(Works))
           f == [s \in Learners |-> GradesShown(s)]
           g == [t \in Tutors |-> AverageScore(t).count]
           k == [p \in S |-> p[2]]
           l == [p \in S |-> works[p[1]].tutor]
<1>1. IsFiniteSet(S) /\ \A p \in S : p[1] \in Works /\ p[2] \in Learners
  <2>1. Works \in SUBSET Works
    OBVIOUS
  <2> QED
    BY <2>1, GradesTyped
<1>2. IsFiniteSet(Learners) /\ IsFiniteSet(Tutors)
  BY ViewsAssumption
<1>3. \A p \in S : k[p] \in Learners
  BY <1>1
<1>4. \A p \in S : l[p] \in Tutors
  <2> SUFFICES ASSUME NEW p \in S PROVE works[p[1]].tutor \in Tutors
    OBVIOUS
  <2>1. p \in Works \X Learners /\ handed[p].status # "none"
    BY DEF Scored, HandIns
  <2>2. p = <<p[1], p[2]>> /\ p[1] \in Works /\ p[2] \in Learners
    BY <2>1
  <2>3. \E s \in Learners : handed[<<p[1], s>>].status # "none"
    BY <2>1, <2>2
  <2>4. Taken(works, handed)
    BY DEF ViewRows
  <2> QED
    BY <2>2, <2>3, <2>4 DEF Taken
<1>5. \A s \in Learners : f[s] = Cardinality(Fibre(S, k, s))
  <2> SUFFICES ASSUME NEW s \in Learners PROVE f[s] = Cardinality(Fibre(S, k, s))
    OBVIOUS
  <2>1. Fibre(S, k, s) = {p \in S : p[2] = s}
    BY DEF Fibre
  <2> QED
    BY <2>1, GradesShownIs
<1>6. \A t \in Tutors : g[t] = Cardinality(Fibre(S, l, t))
  <2> SUFFICES ASSUME NEW t \in Tutors PROVE g[t] = Cardinality(Fibre(S, l, t))
    OBVIOUS
  <2>1. Fibre(S, l, t) = {p \in S : works[p[1]].tutor = t}
    BY DEF Fibre
  <2>2. Scored(HandIns(WorksOf(t))) = {p \in S : works[p[1]].tutor = t}
    BY <1>1 DEF Scored, HandIns, WorksOf
  <2> DEFINE T == Scored(HandIns(WorksOf(t)))
  <2>3. g[t] = Average(T).count
    BY DEF AverageScore
  <2> HIDE DEF T
  <2>4. Average(T).count = Cardinality(T)
    BY DEF Average
  <2> QED
    BY <2>1, <2>2, <2>3, <2>4 DEF T
<1>7. Total(f) = SumOver(f, Learners) /\ Total(g) = SumOver(g, Tutors)
  BY TotalIs
<1> HIDE DEF S, f, g, k, l
<1>8. SumOver(f, Learners) = Cardinality(S)
  BY <1>1, <1>2, <1>3, <1>5, CardinalityFibres
<1>9. SumOver(g, Tutors) = Cardinality(S)
  BY <1>1, <1>2, <1>4, <1>6, CardinalityFibres
<1> QED
  BY <1>7, <1>8, <1>9 DEF f, g

LEMMA StatusesFinite == IsFiniteSet(RollStatuses)
<1> DEFINE two == {"present"} \cup {"absent"}
           three == two \cup {"late"}
<1>1. IsFiniteSet(two)
  BY FS_Singleton, FS_AddElement
<1> HIDE DEF two
<1>2. IsFiniteSet(three)
  BY <1>1, FS_AddElement
<1> HIDE DEF three
<1>3. IsFiniteSet(three \cup {"excused"})
  BY <1>2, FS_AddElement
<1>4. RollStatuses = three \cup {"excused"}
  BY DEF RollStatuses, two, three
<1> QED
  BY <1>3, <1>4

\* Every mark of a day is on the list of its student and in the count of its status.
LEMMA MarksAgree ==
    ASSUME ViewRows, NEW g, NEW day
    PROVE  Total([s \in Learners |-> Cardinality(RecordsOf(s, g, day))]) = Total(DayCounts(g, day))
<1> DEFINE R == {i \in DOMAIN rolls : rolls[i].class = g /\ rolls[i].day = day}
           f == [s \in Learners |-> Cardinality(RecordsOf(s, g, day))]
           T == RollStatuses
           c == DayCounts(g, day)
           k == [i \in R |-> rolls[i].learner]
           l == [i \in R |-> rolls[i].status]
<1>1. IsFiniteSet(R)
  <2>1. R \subseteq DOMAIN rolls
    OBVIOUS
  <2> QED
    BY <2>1, RollsTyped, FS_Subset
<1>2. IsFiniteSet(Learners) /\ IsFiniteSet(T)
  BY ViewsAssumption, StatusesFinite
<1>3. \A i \in R : k[i] \in Learners /\ l[i] \in T
  BY RollsTyped
<1>4. \A s \in Learners : f[s] = Cardinality(Fibre(R, k, s))
  <2> SUFFICES ASSUME NEW s \in Learners PROVE f[s] = Cardinality(Fibre(R, k, s))
    OBVIOUS
  <2>1. Fibre(R, k, s) = RecordsOf(s, g, day)
    BY DEF Fibre, RecordsOf
  <2> QED
    BY <2>1
<1>5. DOMAIN c = T /\ \A st \in T : c[st] = Cardinality(Fibre(R, l, st))
  <2>1. DOMAIN c = T
    BY DEF DayCounts
  <2>2. ASSUME NEW st \in T PROVE c[st] = Cardinality(Fibre(R, l, st))
    <3>1. Fibre(R, l, st) = {i \in DOMAIN rolls : /\ rolls[i].class = g /\ rolls[i].day = day
                                                  /\ rolls[i].status = st}
      BY DEF Fibre
    <3> QED
      BY <3>1 DEF DayCounts
  <2> QED
    BY <2>1, <2>2
<1>6. Total(f) = SumOver(f, Learners) /\ Total(c) = SumOver(c, T)
  BY <1>5, TotalIs
<1> HIDE DEF R, f, T, c, k, l
<1>7. SumOver(f, Learners) = Cardinality(R) /\ SumOver(c, T) = Cardinality(R)
  BY <1>1, <1>2, <1>3, <1>4, <1>5, CardinalityFibres
<1> QED
  BY <1>6, <1>7 DEF f, c

\* The lines of the sheet for a member: the rows of the day, or none.
SheetLines(s, g, day) == IF RecordsOf(s, g, day) = {} THEN {0} ELSE RecordsOf(s, g, day)

LEMMA SheetIs ==
    ASSUME NEW g, NEW day
    PROVE  /\ \A e \in Sheet(g, day) : /\ e = <<e[1], e[2]>> /\ e[1] \in Members({g})
                                       /\ e[2] \in SheetLines(e[1], g, day)
           /\ \A s \in Members({g}) : \A i \in SheetLines(s, g, day) : <<s, i>> \in Sheet(g, day)
<1>1. Sheet(g, day) = UNION {{s} \X SheetLines(s, g, day) : s \in Members({g})}
  BY DEF Sheet, SheetLines, RecordsOf
<1>2. ASSUME NEW e \in Sheet(g, day)
      PROVE  /\ e = <<e[1], e[2]>> /\ e[1] \in Members({g})
             /\ e[2] \in SheetLines(e[1], g, day)
  <2>1. PICK s \in Members({g}) : e \in {s} \X SheetLines(s, g, day)
    BY <1>1
  <2>2. e = <<e[1], e[2]>> /\ e[1] = s /\ e[2] \in SheetLines(s, g, day)
    BY <2>1
  <2> QED
    BY <2>2
<1>3. ASSUME NEW s \in Members({g}), NEW i \in SheetLines(s, g, day)
      PROVE  <<s, i>> \in Sheet(g, day)
  <2>1. <<s, i>> \in {s} \X SheetLines(s, g, day)
    OBVIOUS
  <2> QED
    BY <1>1, <2>1
<1> QED
  BY <1>2, <1>3

\* The sheet of a day has a line for every member, with all rows of the day.
LEMMA SheetAgrees ==
    ASSUME ViewRows, NEW g, NEW day
    PROVE  /\ {entry[1] : entry \in Sheet(g, day)} = Members({g})
           /\ \A s \in Members({g}) :
                {e[2] : e \in {x \in Sheet(g, day) : x[1] = s}} \ {0} = RecordsOf(s, g, day)
           /\ Cardinality({e \in Sheet(g, day) : SheetStatus(e) = "absent"})
                <= DayCounts(g, day)["absent"]
<1>1. \A s : 0 \notin RecordsOf(s, g, day)
  BY RollsTyped DEF RecordsOf
<1>2. \A s : SheetLines(s, g, day) # {} /\ SheetLines(s, g, day) \ {0} = RecordsOf(s, g, day)
  BY <1>1 DEF SheetLines
<1>3. {entry[1] : entry \in Sheet(g, day)} = Members({g})
  <2>1. ASSUME NEW s \in Members({g}) PROVE s \in {entry[1] : entry \in Sheet(g, day)}
    <3>1. PICK i : i \in SheetLines(s, g, day)
      BY <1>2
    <3>2. <<s, i>> \in Sheet(g, day)
      BY <3>1, SheetIs
    <3>3. <<s, i>>[1] = s
      OBVIOUS
    <3> QED
      BY <3>2, <3>3
  <2>2. \A e \in Sheet(g, day) : e[1] \in Members({g})
    BY SheetIs
  <2> QED
    BY <2>1, <2>2
<1>4. ASSUME NEW s \in Members({g})
      PROVE  {e[2] : e \in {x \in Sheet(g, day) : x[1] = s}} \ {0} = RecordsOf(s, g, day)
  <2> DEFINE E == {x \in Sheet(g, day) : x[1] = s}
  <2>1. \A e \in E : e[2] \in SheetLines(s, g, day)
    BY SheetIs
  <2>2. ASSUME NEW i \in SheetLines(s, g, day) PROVE i \in {e[2] : e \in E}
    <3>1. <<s, i>> \in E
      BY SheetIs
    <3>2. <<s, i>>[2] = i
      OBVIOUS
    <3> HIDE DEF E
    <3> QED
      BY <3>1, <3>2
  <2> HIDE DEF E
  <2>3. {e[2] : e \in E} = SheetLines(s, g, day)
    BY <2>1, <2>2
  <2> QED
    BY <1>2, <2>3 DEF E
<1>5. Cardinality({e \in Sheet(g, day) : SheetStatus(e) = "absent"}) <= DayCounts(g, day)["absent"]
  <2> DEFINE A == {e \in Sheet(g, day) : SheetStatus(e) = "absent"}
             D == {i \in DOMAIN rolls : /\ rolls[i].class = g /\ rolls[i].day = day
                                        /\ rolls[i].status = "absent"}
             f == [e \in A |-> e[2]]
  <2>1. DayCounts(g, day)["absent"] = Cardinality(D)
    BY DEF DayCounts, RollStatuses
  <2>2. D \subseteq DOMAIN rolls
    OBVIOUS
  <2>3. IsFiniteSet(D)
    BY <2>2, RollsTyped, FS_Subset
  <2>4. ASSUME NEW e \in A
        PROVE  e = <<e[1], e[2]>> /\ e[2] \in D /\ rolls[e[2]].learner = e[1]
    <3>1. e[2] # 0 /\ rolls[e[2]].status = "absent"
      BY DEF SheetStatus
    <3>2. e = <<e[1], e[2]>> /\ e[2] \in SheetLines(e[1], g, day)
      BY SheetIs
    <3>3. e[2] \in RecordsOf(e[1], g, day)
      BY <1>2, <3>1, <3>2
    <3> QED
      BY <3>1, <3>2, <3>3 DEF RecordsOf
  <2>5. f \in Injection(A, D)
    <3>1. f \in [A -> D]
      BY <2>4
    <3>2. ASSUME NEW d \in A, NEW e \in A, f[d] = f[e] PROVE d = e
      <4>1. d[2] = e[2]
        BY <3>2
      <4>2. /\ d = <<d[1], d[2]>> /\ rolls[d[2]].learner = d[1]
            /\ e = <<e[1], e[2]>> /\ rolls[e[2]].learner = e[1]
        BY <2>4
      <4> QED
        BY <4>1, <4>2
    <3> HIDE DEF f, A, D
    <3>3. DOMAIN f = A
      BY <3>1
    <3> QED
      BY <3>1, <3>2, <3>3 DEF Injection, IsInjective
  <2> HIDE DEF A, D, f
  <2>6. Cardinality(A) <= Cardinality(D)
    BY <2>3, <2>5, FS_Injection
  <2> QED
    BY <2>1, <2>6 DEF A
<1> QED
  BY <1>3, <1>4, <1>5

\* A class card counts members, who have the teacher among theirs.
LEMMA CardsAgree ==
    ASSUME NEW t \in Tutors, NEW g \in OwnClasses(t)
    PROVE  ClassCards(t)[g] <= Cardinality({s \in Taught(t) : t \in TutorsOf(s)})
<1> DEFINE M == Members({g})
           T == {s \in Taught(t) : t \in TutorsOf(s)}
<1>1. g \in Classes /\ classes[g].live /\ classes[g].tutor = t
  BY DEF OwnClasses
<1>2. ClassCards(t)[g] = Cardinality(M)
  BY <1>1 DEF ClassCards
<1>3. M \subseteq T
  <2> SUFFICES ASSUME NEW s \in M PROVE s \in Taught(t) /\ t \in TutorsOf(s)
    OBVIOUS
  <2>1. s \in Learners /\ <<g, s>> \in roster
    BY DEF Members
  <2>2. s \in Taught(t)
    BY <2>1 DEF Taught, Members
  <2>3. t \in TutorsOf(s)
    BY <1>1, <2>1 DEF TutorsOf
  <2> QED
    BY <2>2, <2>3
<1>4. IsFiniteSet(T)
  <2>1. T \subseteq Learners
    BY DEF Taught, Members
  <2> QED
    BY <2>1, ViewNumbers
<1> HIDE DEF M, T
<1>5. Cardinality(M) <= Cardinality(T)
  BY <1>3, <1>4, FS_Subset
<1> QED
  BY <1>2, <1>5 DEF T

\* A homework has as many hand-ins on a list as in its own view.
LEMMA HandInsOfOne ==
    ASSUME ViewRows, NEW w \in Works
    PROVE  Cardinality(HandIns({w})) = Cardinality(DOMAIN Submissions(w))
<1> DEFINE H == HandIns({w})
           D == {s \in Learners : handed[<<w, s>>].status # "none"}
           at == [s \in D |-> <<w, s>>]
<1>1. DOMAIN Submissions(w) = D
  BY DEF Submissions
<1>2. IsFiniteSet(D)
  <2>1. D \subseteq Learners
    OBVIOUS
  <2> QED
    BY <2>1, ViewNumbers
<1>3. \A s \in D : at[s] \in H
  BY DEF HandIns
<1>4. \A r, s \in D : at[r] = at[s] => r = s
  OBVIOUS
<1>5. \A p \in H : \E s \in D : at[s] = p
  <2> SUFFICES ASSUME NEW p \in H PROVE p[2] \in D /\ at[p[2]] = p
    OBVIOUS
  <2>1. p \in {w} \X Learners /\ handed[p].status # "none"
    BY DEF HandIns
  <2>2. p = <<w, p[2]>> /\ p[2] \in Learners
    BY <2>1
  <2> QED
    BY <2>1, <2>2
<1> HIDE DEF H, D, at
<1>6. Cardinality(H) = Cardinality(D)
  BY <1>2, <1>3, <1>4, <1>5, SameSize
<1> QED
  BY <1>1, <1>6 DEF H

\* The counts of a list are those of the homework on its page.
LEMMA CountsShown ==
    ASSUME ViewsInv, NEW kind \in {"homework", "classWorks"}, NEW d \in Sent(kind), ~d.torn,
           <<"counts", 0>> \in DOMAIN d.answers
    PROVE  \E W \in SUBSET Works : /\ d.answers[<<"counts", 0>>] = CountsOf(W)
                                   /\ kind = "homework" => W \subseteq WorksOf(d.of)
<1> DEFINE a == d.answers
           W == a[<<"page", 0>>]
<1>1. /\ d.kind = kind /\ AskedBy(d, a) \subseteq DOMAIN a
      /\ \A q \in DOMAIN a : q[1] # "group" => a[q] = Told(d, a, q)
  BY SentView
<1>2. <<"page", 0>> \in DOMAIN a
  <2>1. <<"page", 0>> \in AskedBy(d, a)
    <3>1. CASE kind = "homework"
      <4>1. Ones({"total", "page"}) \subseteq AskedBy(d, a)
        BY <1>1, <3>1 DEF AskedBy, TrendViews
      <4> QED
        BY <4>1 DEF Ones
    <3>2. CASE kind = "classWorks"
      <4>1. Ones({"page"}) \subseteq AskedBy(d, a)
        BY <1>1, <3>2 DEF AskedBy, TrendViews
      <4> QED
        BY <4>1 DEF Ones
    <3> QED
      BY <3>1, <3>2
  <2> QED
    BY <1>1, <2>1
<1>3. a[<<"counts", 0>>] = CountsOf(W)
  <2>1. a[<<"counts", 0>>] = Told(d, a, <<"counts", 0>>)
    BY <1>1
  <2>2. Told(d, a, <<"counts", 0>>) = CountsOf(W)
    BY DEF Told
  <2> QED
    BY <2>1, <2>2
<1>4. W = Told(d, a, <<"page", 0>>)
  BY <1>1, <1>2
<1>5. CASE kind = "homework"
  <2>1. W = NewestOn({w \in WorksOf(d.of) : works[w].live}, d.page)
    BY <1>1, <1>4, <1>5 DEF Told, WorksPage
  <2>2. W \subseteq WorksOf(d.of) /\ WorksOf(d.of) \subseteq Works
    BY <2>1 DEF NewestOn, WorksOf
  <2> HIDE DEF W
  <2> QED
    BY <1>3, <2>2
<1>6. CASE kind = "classWorks"
  <2>1. W = ClassWorks(d.of)
    BY <1>1, <1>4, <1>6 DEF Told
  <2>2. W \subseteq Works
    BY <2>1 DEF ClassWorks
  <2> HIDE DEF W
  <2> QED
    BY <1>3, <1>6, <2>2
<1> QED
  BY <1>5, <1>6

LEMMA CountsAgree ==
    ASSUME ViewsInv, NEW d \in Sent("homework") \cup Sent("classWorks"),
           NEW counts, counts = Known(d.answers, "counts", <<>>), NEW w \in DOMAIN counts
    PROVE  /\ counts[w].graded <= counts[w].total
           /\ ~d.torn => counts[w].total = Cardinality(DOMAIN Submissions(w))
<1>1. PICK kind \in {"homework", "classWorks"} : d \in Sent(kind)
  OBVIOUS
<1>2. <<"counts", 0>> \in DOMAIN d.answers /\ counts = d.answers[<<"counts", 0>>]
  <2>1. counts # <<>>
    OBVIOUS
  <2> QED
    BY <2>1 DEF Known
<1>3. counts[w].graded <= counts[w].total
  <2>1. SoundAnswers(d, d.answers)
    BY <1>1, SentView
  <2>2. Counted(counts)
    BY <1>2, <2>1 DEF SoundAnswers
  <2> QED
    BY <2>2 DEF Counted
<1>4. ASSUME ~d.torn PROVE counts[w].total = Cardinality(DOMAIN Submissions(w))
  <2>1. PICK W \in SUBSET Works : counts = CountsOf(W)
    BY <1>1, <1>2, <1>4, CountsShown
  <2>2. DOMAIN CountsOf(W) = W
    BY DEF CountsOf
  <2>3. w \in W /\ w \in Works
    BY <2>1, <2>2
  <2>4. CountsOf(W)[w].total = Cardinality(HandIns({w}))
    BY <2>3 DEF CountsOf
  <2>5. ViewRows
    BY DEF ViewsInv
  <2> QED
    BY <2>1, <2>3, <2>4, <2>5, HandInsOfOne
<1> QED
  BY <1>3, <1>4

\* What is graded on a page is part of what the teacher has graded.
LEMMA GradedOfPage ==
    ASSUME ViewRows, NEW t, NEW W \in SUBSET Works, W \subseteq WorksOf(t)
    PROVE  Total([w \in W |-> CountsOf(W)[w].graded]) <= HomeworkStats(t).graded
<1> DEFINE G == {p \in HandIns(W) : handed[p].status = "graded"}
           S == Scored(HandIns(WorksOf(t)))
           k == [p \in G |-> p[1]]
           f == [w \in W |-> CountsOf(W)[w].graded]
<1>1. WorksOf(t) \in SUBSET Works
  BY DEF WorksOf
<1>2. IsFiniteSet(W) /\ IsFiniteSet(S) /\ IsFiniteSet(G) /\ \A p \in G : k[p] \in W
  <2>1. IsFiniteSet(W) /\ IsFiniteSet(S)
    BY <1>1, ViewNumbers, GradesTyped
  <2>2. IsFiniteSet(HandIns(W)) /\ HandIns(W) \subseteq W \X Learners
    BY <2>1, HandInsFinite
  <2>3. \A p \in W \X Learners : p[1] \in W
    OBVIOUS
  <2> QED
    BY <2>1, <2>2, <2>3, FS_Subset
<1>3. \A w \in W : f[w] = Cardinality(Fibre(G, k, w))
  <2> SUFFICES ASSUME NEW w \in W PROVE f[w] = Cardinality(Fibre(G, k, w))
    OBVIOUS
  <2>1. f[w] = Cardinality({p \in HandIns({w}) : handed[p].status = "graded"})
    BY DEF CountsOf
  <2>2. Fibre(G, k, w) = {p \in HandIns({w}) : handed[p].status = "graded"}
    <3>1. Fibre(G, k, w) = {p \in G : p[1] = w}
      BY DEF Fibre
    <3>2. \A p \in HandIns(W) : p[1] = w <=> p \in HandIns({w})
      BY DEF HandIns
    <3>3. HandIns({w}) \subseteq HandIns(W)
      BY DEF HandIns
    <3> QED
      BY <3>1, <3>2, <3>3
  <2> QED
    BY <2>1, <2>2
<1>4. G \subseteq S
  <2>0. \A p \in Works \X Learners : handed[p].status = "graded" => handed[p].score # None
    <3>1. Graded(handed)
      BY DEF ViewRows
    <3> QED
      BY <3>1 DEF Graded
  <2> SUFFICES ASSUME NEW p \in G PROVE p \in S
    OBVIOUS
  <2>1. p \in W \X Learners /\ handed[p].status = "graded"
    BY DEF HandIns
  <2>2. p \in Works \X Learners
    BY <2>1
  <2>3. handed[p].score # None
    BY <2>0, <2>1, <2>2
  <2>4. p \in HandIns(WorksOf(t))
    BY <2>1 DEF HandIns
  <2> QED
    BY <2>3, <2>4 DEF Scored
<1>5. Total(f) = SumOver(f, W)
  BY TotalIs
<1>6. HomeworkStats(t).graded = Cardinality(S)
  BY DEF HomeworkStats
<1> HIDE DEF G, S, k, f
<1>7. SumOver(f, W) = Cardinality(G)
  BY <1>2, <1>3, CardinalityFibres
<1>8. Cardinality(G) <= Cardinality(S)
  BY <1>2, <1>4, FS_Subset
<1> QED
  BY <1>5, <1>6, <1>7, <1>8 DEF f

LEMMA PageAgrees ==
    ASSUME ViewsInv, NEW d \in Steady("homework"),
           NEW counts, counts = Known(d.answers, "counts", <<>>)
    PROVE  Total([w \in DOMAIN counts |-> counts[w].graded]) <= HomeworkStats(d.of).graded
<1>0. ViewRows /\ d \in Sent("homework") /\ ~d.torn
  BY DEF ViewsInv, Steady
<1>1. CASE <<"counts", 0>> \in DOMAIN d.answers
  <2>1. PICK W \in SUBSET Works : d.answers[<<"counts", 0>>] = CountsOf(W) /\ W \subseteq WorksOf(d.of)
    BY <1>0, <1>1, CountsShown
  <2>2. counts = CountsOf(W) /\ DOMAIN counts = W
    BY <1>1, <2>1 DEF Known, CountsOf
  <2>3. [w \in DOMAIN counts |-> counts[w].graded] = [w \in W |-> CountsOf(W)[w].graded]
    BY <2>2
  <2> QED
    BY <1>0, <2>1, <2>3, GradedOfPage
<1>2. CASE <<"counts", 0>> \notin DOMAIN d.answers
  <2> DEFINE f == [w \in DOMAIN counts |-> counts[w].graded]
             S == Scored(HandIns(WorksOf(d.of)))
  <2>1. counts = <<>> /\ DOMAIN f = {}
    BY <1>2 DEF Known
  <2>2. Total(f) = SumOver(f, {})
    BY <2>1, TotalIs
  <2>3. HomeworkStats(d.of).graded = Cardinality(S)
    BY DEF HomeworkStats
  <2>4. IsFiniteSet(S)
    <3>1. WorksOf(d.of) \in SUBSET Works
      BY DEF WorksOf
    <3> QED
      BY <1>0, <3>1, GradesTyped
  <2> HIDE DEF f, S
  <2>5. Total(f) = 0 /\ Cardinality(S) \in Nat
    BY <2>2, <2>4, SumOverEmpty, FS_CardinalityType
  <2>6. 0 <= Cardinality(S)
    BY <2>5
  <2> QED
    BY <2>3, <2>5, <2>6 DEF f
<1> QED
  BY <1>1, <1>2

\* The view of one homework lists all its hand-ins.
LEMMA WorkAgrees ==
    ASSUME ViewsInv, NEW d \in Steady("work")
    PROVE  Cardinality(DOMAIN Answered(d, "submissions")) = CountsOf({d.of})[d.of].total
<1>0. ViewRows
  BY DEF ViewsInv
<1>1. /\ d.kind = "work" /\ IsAbout("work", d.of)
      /\ \A q \in AskedBy(d, d.answers) : q[1] # "group" => d.answers[q] = Told(d, d.answers, q)
  BY SteadyView
<1>2. AskedBy(d, d.answers) = Ones({"homework", "submissions"})
  BY <1>1 DEF AskedBy, TrendViews
<1>3. <<"submissions", 0>> \in AskedBy(d, d.answers)
  BY <1>2 DEF Ones
<1>4. Told(d, d.answers, <<"submissions", 0>>) = Submissions(d.of)
  BY <1>1 DEF Told
<1>5. Answered(d, "submissions") = Submissions(d.of)
  BY <1>1, <1>3, <1>4 DEF Answered
<1>6. d.of \in Works
  BY <1>1 DEF IsAbout
<1>7. CountsOf({d.of})[d.of].total = Cardinality(HandIns({d.of}))
  BY DEF CountsOf
<1> QED
  BY <1>0, <1>5, <1>6, <1>7, HandInsOfOne

\* The months of a trend hold what they were told.
LEMMA TrendTold ==
    ASSUME ViewsInv, NEW kind \in TrendViews, NEW d \in Steady(kind), NEW m \in TrendMonths,
           NEW rows, rows = IF kind = "trend" THEN OfStudent(d.of) ELSE OfClass(d.of)
    PROVE  /\ d.answers[<<"grades", m>>] = TrendGrade(rows, m)
           /\ d.answers[<<"marks", m>>] = TrendRate(rows, m)
<1> DEFINE a == d.answers
<1>1. d.kind = kind /\ \A q \in AskedBy(d, a) : q[1] # "group" => a[q] = Told(d, a, q)
  BY SteadyView
<1>2. AskedBy(d, a) = {"marks", "grades"} \X TrendMonths
  <2>1. CASE kind = "trend"
    BY <1>1, <2>1 DEF AskedBy, TrendViews
  <2>2. CASE kind = "classTrend"
    BY <1>1, <2>2 DEF AskedBy, TrendViews
  <2> QED
    BY <2>1, <2>2 DEF TrendViews
<1>3. <<"marks", m>> \in AskedBy(d, a) /\ <<"grades", m>> \in AskedBy(d, a)
  BY <1>2
<1>4. a[<<"marks", m>>] = Told(d, a, <<"marks", m>>) /\ a[<<"grades", m>>] = Told(d, a, <<"grades", m>>)
  BY <1>1, <1>3
<1>5. Told(d, a, <<"grades", m>>) = TrendGrade(rows, m)
  <2>1. CASE kind = "trend"
    BY <1>1, <2>1 DEF Told
  <2>2. CASE kind = "classTrend"
    BY <1>1, <2>2 DEF Told
  <2> QED
    BY <2>1, <2>2 DEF TrendViews
<1>6. Told(d, a, <<"marks", m>>) = TrendRate(rows, m)
  <2>1. CASE kind = "trend"
    BY <1>1, <2>1 DEF Told
  <2>2. CASE kind = "classTrend"
    BY <1>1, <2>2 DEF Told
  <2> QED
    BY <2>1, <2>2 DEF TrendViews
<1> QED
  BY <1>4, <1>5, <1>6

\* The months of a student are the grades and the days of presence as far as they go back.
LEMMA TrendAgrees ==
    ASSUME ViewsInv, NEW d \in Steady("trend")
    PROVE  LET presents == Total([m \in TrendMonths |-> d.answers[<<"marks", m>>].present]) IN
           /\ GradesShown(d.of) = Cardinality(Scored(OfStudent(d.of).works))
           /\ TrendHas(d, Scored(OfStudent(d.of).works))
           /\ presents <= SummaryOf(d.of).present
           /\ (\A i \in OfStudent(d.of).rolls : rolls[i].day \in TrendMonths)
                => presents = SummaryOf(d.of).present
<1> DEFINE s == d.of
           rows == OfStudent(s)
           S == {p \in Scored(HandIns(Works)) : p[2] = s}
           I == {i \in DOMAIN rolls : rolls[i].learner = s}
<1>0. ViewRows /\ s \in Learners
  <2>1. IsAbout("trend", s)
    BY SteadyView
  <2> QED
    BY <2>1 DEF ViewsInv, IsAbout
<1>1. \A m \in TrendMonths : d.answers[<<"grades", m>>] = TrendGrade(rows, m)
                             /\ d.answers[<<"marks", m>>] = TrendRate(rows, m)
  <2>1. "trend" \in TrendViews
    BY DEF TrendViews
  <2> QED
    BY <2>1, TrendTold
<1>2. Scored(rows.works) = S /\ rows.rolls = I
  BY DEF OfStudent, Scored
<1>3. \A m \in TrendMonths :
        /\ d.answers[<<"grades", m>>] = Average({p \in S : handed[p].month = m})
        /\ d.answers[<<"marks", m>>] = Rate({i \in I : rolls[i].day = m})
  BY <1>1, <1>2 DEF TrendGrade, TrendRate
<1>4. S \subseteq Scored(HandIns(Works)) /\ I \subseteq DOMAIN rolls
  OBVIOUS
<1>5. GradesShown(s) = Cardinality(S)
  BY <1>0, GradesShownIs
<1>6. SummaryOf(s).present = Cardinality(Present(I))
  BY DEF SummaryOf
<1> HIDE DEF S, I
<1>7. TrendHas(d, S)
  <2>1. \A m \in TrendMonths :
          d.answers[<<"grades", m>>] = Average({p \in S : handed[p].month = m})
    BY <1>3
  <2>2. ViewRows /\ S \subseteq Scored(HandIns(Works))
    BY <1>0, <1>4
  <2> HIDE DEF s
  <2> QED
    BY ONLY <2>1, <2>2, TrendHasThem
<1> DEFINE presents == Total([m \in TrendMonths |-> d.answers[<<"marks", m>>].present])
<1>8. /\ presents <= Cardinality(Present(I))
      /\ (\A i \in I : rolls[i].day \in TrendMonths) => presents = Cardinality(Present(I))
  BY <1>0, <1>3, <1>4, TrendHasPresent
<1> HIDE DEF presents, rows
<1>9. GradesShown(s) = Cardinality(Scored(rows.works)) /\ TrendHas(d, Scored(rows.works))
  BY <1>2, <1>5, <1>7
<1>10. presents <= SummaryOf(s).present
  BY <1>6, <1>8
<1>11. (\A i \in rows.rolls : rolls[i].day \in TrendMonths) => presents = SummaryOf(s).present
  BY <1>2, <1>6, <1>8
<1> QED
  BY <1>9, <1>10, <1>11 DEF presents, rows

\* The days of a group are counted alike in its trend and in its attendance.
LEMMA ClassTrendAgrees ==
    ASSUME ViewsInv, NEW d \in Steady("classTrend"), NEW m \in TrendMonths
    PROVE  d.answers[<<"marks", m>>].present = DayCounts(d.of, m)["present"]
<1> DEFINE g == d.of
           rows == OfClass(g)
           I == {i \in rows.rolls : rolls[i].day = m}
           D == {i \in DOMAIN rolls : /\ rolls[i].class = g /\ rolls[i].day = m
                                      /\ rolls[i].status = "present"}
<1>1. d.answers[<<"marks", m>>] = TrendRate(rows, m)
  <2>1. "classTrend" \in TrendViews /\ "classTrend" # "trend"
    BY DEF TrendViews
  <2> QED
    BY <2>1, TrendTold
<1>2. Present(I) = D
  BY DEF Present, OfClass
<1>3. TrendRate(rows, m).present = Cardinality(Present(I))
  BY DEF TrendRate, Rate
<1>4. DayCounts(g, m)["present"] = Cardinality(D)
  BY DEF DayCounts, RollStatuses
<1> QED
  BY <1>1, <1>2, <1>3, <1>4

\* Who teaches a group at a lesson has the lesson's course.
LEMMA LessonAgrees ==
    ASSUME ViewsInv, NEW d \in Steady("lesson"), NEW t \in Tutors
    PROVE  (\E g \in Answered(d, "classes") : classes[g].tutor = t)
             <=> Answered(d, "lesson") \in CoursesOf(t)
<1> DEFINE a == d.answers
           c == a[<<"lesson", 0>>]
<1>1. /\ d.kind = "lesson" /\ \A q \in AskedBy(d, a) : q[1] # "group" => a[q] = Told(d, a, q)
      /\ texts[d.of] # None
  BY SteadyView
<1>2. <<"lesson", 0>> \in AskedBy(d, a) /\ <<"classes", 0>> \in AskedBy(d, a)
  <2>1. AskedBy(d, a) = Ones({"lesson", "classes"})
    BY <1>1 DEF AskedBy, TrendViews
  <2> QED
    BY <2>1 DEF Ones
<1>3. c # None
  <2>1. Told(d, a, <<"lesson", 0>>) = texts[d.of]
    BY <1>1 DEF Told
  <2> QED
    BY <1>1, <1>2, <2>1
<1>4. a[<<"classes", 0>>] = ClassesAt(c)
  <2>1. Told(d, a, <<"classes", 0>>) = ClassesAt(c)
    BY <1>1 DEF Told
  <2> QED
    BY <1>1, <1>2, <2>1
<1> HIDE DEF c
<1>5. (\E g \in ClassesAt(c) : classes[g].tutor = t) <=> c \in CoursesOf(t)
  BY <1>3 DEF ClassesAt, CoursesOf, OwnClasses
<1> QED
  BY <1>4, <1>5 DEF Answered, c

\* The days of all groups are what a student is shown of attendance.
LEMMA RecordsOfAll ==
    ASSUME ViewRows, NEW s \in Learners
    PROVE  Total([x \in Classes \X Days |-> Cardinality(RecordsOf(s, x[1], x[2]))])
             = SummaryOf(s).total
<1> DEFINE I == {i \in DOMAIN rolls : rolls[i].learner = s}
           f == [x \in Classes \X Days |-> Cardinality(RecordsOf(s, x[1], x[2]))]
           k == [i \in I |-> <<rolls[i].class, rolls[i].day>>]
           X == Classes \X Days
<1>1. I \subseteq DOMAIN rolls
  OBVIOUS
<1>2. IsFiniteSet(I) /\ \A i \in I : k[i] \in X
  BY <1>1, RollsTyped, FS_Subset
<1>3. IsFiniteSet(X)
  BY ViewsAssumption, FS_Product
<1>4. \A x \in X : f[x] = Cardinality(Fibre(I, k, x))
  <2> SUFFICES ASSUME NEW x \in X PROVE f[x] = Cardinality(Fibre(I, k, x))
    OBVIOUS
  <2>1. x = <<x[1], x[2]>>
    OBVIOUS
  <2>2. \A i \in I : k[i] = x <=> rolls[i].class = x[1] /\ rolls[i].day = x[2]
    BY <2>1
  <2>3. Fibre(I, k, x) = {i \in I : k[i] = x}
    BY DEF Fibre
  <2> HIDE DEF k
  <2>4. Fibre(I, k, x) = RecordsOf(s, x[1], x[2])
    BY <2>2, <2>3 DEF RecordsOf
  <2> QED
    BY <2>4
<1>5. Total(f) = SumOver(f, X)
  BY TotalIs
<1>6. SummaryOf(s).total = Cardinality(I)
  BY DEF SummaryOf
<1> HIDE DEF I, f, k, X
<1>7. SumOver(f, X) = Cardinality(I)
  BY <1>2, <1>3, <1>4, CardinalityFibres
<1> QED
  BY <1>5, <1>6, <1>7 DEF f, X

\* The four statuses make the days of a student.
LEMMA SummaryAddsUp ==
    ASSUME ViewRows, NEW s \in Learners
    PROVE  LET sum == SummaryOf(s) IN
           sum.present + sum.absent + sum.late + sum.excused = sum.total
<1> DEFINE I == {i \in DOMAIN rolls : rolls[i].learner = s}
           P == Present(I)
           A == {i \in I : rolls[i].status = "absent"}
           L == {i \in I : rolls[i].status = "late"}
           E == {i \in I : rolls[i].status = "excused"}
           X == P \cup A
           Y == L \cup E
<1>1. /\ SummaryOf(s).present = Cardinality(P) /\ SummaryOf(s).absent = Cardinality(A)
      /\ SummaryOf(s).late = Cardinality(L) /\ SummaryOf(s).excused = Cardinality(E)
      /\ SummaryOf(s).total = Cardinality(I)
  BY DEF SummaryOf
<1>2. I \subseteq DOMAIN rolls
  OBVIOUS
<1>3. IsFiniteSet(I) /\ \A i \in I : rolls[i].status \in RollStatuses
  BY <1>2, RollsTyped, FS_Subset
<1>4. X \cup Y = I /\ X \cap Y = {}
  BY <1>3 DEF Present, RollStatuses
<1>5. P \cap A = {} /\ L \cap E = {}
  BY DEF Present
<1>6. P \cup A = X /\ L \cup E = Y
  OBVIOUS
<1> HIDE DEF I, P, A, L, E, X, Y
<1>7. IsFiniteSet(X) /\ IsFiniteSet(Y) /\ Cardinality(X) + Cardinality(Y) = Cardinality(I)
  BY <1>3, <1>4, PartsCount
<1>8. IsFiniteSet(P) /\ IsFiniteSet(A) /\ Cardinality(P) + Cardinality(A) = Cardinality(X)
  BY <1>5, <1>6, <1>7, PartsCount
<1>9. IsFiniteSet(L) /\ IsFiniteSet(E) /\ Cardinality(L) + Cardinality(E) = Cardinality(Y)
  BY <1>5, <1>6, <1>7, PartsCount
<1>10. /\ Cardinality(P) \in Nat /\ Cardinality(A) \in Nat
       /\ Cardinality(L) \in Nat /\ Cardinality(E) \in Nat
  BY <1>8, <1>9, FS_CardinalityType
<1> QED
  BY <1>1, <1>7, <1>8, <1>9, <1>10

\* The teacher of a group of a student is one whom the student can write to, and whoever can
\* write to a teacher has a group.
LEMMA TutorsAgree ==
    ASSUME ViewRows, NEW s, NEW G \in AnyOne(ClassesOf(s))
    PROVE  /\ \A g \in G : classes[g].tutor \in TutorsOf(s) \cup {None}
           /\ TutorsOf(s) # {} => G # {}
<1>1. \A g \in Classes : classes[g].tutor \in Tutors \cup {None}
  BY DEF ViewRows, Class
<1>2. G \subseteq ClassesOf(s) /\ (ClassesOf(s) # {} => G # {})
  BY DEF AnyOne
<1>3. \A t \in Tutors : t \in TutorsOf(s) <=> \E g \in ClassesOf(s) : classes[g].tutor = t
  BY DEF TutorsOf, ClassesOf
<1>4. TutorsOf(s) \subseteq Tutors /\ ClassesOf(s) \subseteq Classes
  BY DEF TutorsOf, ClassesOf
<1> QED
  BY <1>1, <1>2, <1>3, <1>4

\* What a student is shown of attendance and groups.
LEMMA DetailAgrees ==
    ASSUME ViewsInv, NEW d \in Steady("detail")
    PROVE  /\ Answered(d, "summary").total =
                Total([x \in Classes \X Days |-> Cardinality(RecordsOf(d.of, x[1], x[2]))])
           /\ LET sum == Answered(d, "summary") IN
              sum.present + sum.absent + sum.late + sum.excused = sum.total
           /\ \A g \in Answered(d, "group") : classes[g].tutor \in TutorsOf(d.of) \cup {None}
           /\ TutorsOf(d.of) # {} => Answered(d, "group") # {}
<1> DEFINE a == d.answers
<1>1. /\ d.kind = "detail" /\ IsAbout("detail", d.of) /\ AskedBy(d, a) \subseteq DOMAIN a
      /\ \A q \in AskedBy(d, a) : q[1] # "group" => a[q] = Told(d, a, q)
      /\ \A q \in DOMAIN a : a[q] \in Tells(d, a, q)
  BY SteadyView
<1>2. <<"summary", 0>> \in AskedBy(d, a) /\ <<"group", 0>> \in AskedBy(d, a)
  <2>1. AskedBy(d, a) = Ones({"group", "summary", "grades", "courses"})
    BY <1>1 DEF AskedBy, TrendViews
  <2> QED
    BY <2>1 DEF Ones
<1>3. Told(d, a, <<"summary", 0>>) = SummaryOf(d.of)
  BY <1>1 DEF Told
<1>4. Tells(d, a, <<"group", 0>>) = AnyOne(ClassesOf(d.of))
  BY DEF Tells
<1>5. Answered(d, "summary") = SummaryOf(d.of) /\ Answered(d, "group") \in AnyOne(ClassesOf(d.of))
  BY <1>1, <1>2, <1>3, <1>4 DEF Answered
<1>6. ViewRows /\ d.of \in Learners
  BY <1>1 DEF ViewsInv, IsAbout
<1> QED
  BY <1>5, <1>6, RecordsOfAll, SummaryAddsUp, TutorsAgree

\* The sides tell the same of the same rows.
LEMMA SidesDoAgree ==
    ASSUME ViewsInv
    PROVE  SidesAgree
<1>0. ViewRows
  BY DEF ViewsInv
<1>1. Total([s \in Learners |-> GradesShown(s)]) = Total([t \in Tutors |-> AverageScore(t).count])
  BY <1>0, GradesAgree
<1>2. ASSUME NEW g \in Classes, NEW day \in Days
      PROVE  /\ Total([s \in Learners |-> Cardinality(RecordsOf(s, g, day))])
                  = Total(DayCounts(g, day))
             /\ {entry[1] : entry \in Sheet(g, day)} = Members({g})
             /\ \A s \in Members({g}) :
                  {e[2] : e \in {x \in Sheet(g, day) : x[1] = s}} \ {0} = RecordsOf(s, g, day)
             /\ Cardinality({e \in Sheet(g, day) : SheetStatus(e) = "absent"})
                  <= DayCounts(g, day)["absent"]
  <2>1. Total([s \in Learners |-> Cardinality(RecordsOf(s, g, day))]) = Total(DayCounts(g, day))
    BY <1>0, MarksAgree
  <2>2. /\ {entry[1] : entry \in Sheet(g, day)} = Members({g})
        /\ \A s \in Members({g}) :
             {e[2] : e \in {x \in Sheet(g, day) : x[1] = s}} \ {0} = RecordsOf(s, g, day)
        /\ Cardinality({e \in Sheet(g, day) : SheetStatus(e) = "absent"})
             <= DayCounts(g, day)["absent"]
    BY <1>0, SheetAgrees
  <2> QED
    BY <2>1, <2>2
<1>3. ASSUME NEW t \in Tutors, NEW g \in OwnClasses(t)
      PROVE  ClassCards(t)[g] <= Cardinality({s \in Taught(t) : t \in TutorsOf(s)})
  BY CardsAgree
<1>4. ASSUME NEW d \in Sent("homework") \cup Sent("classWorks")
      PROVE  LET counts == Known(d.answers, "counts", <<>>) IN
             \A w \in DOMAIN counts :
               /\ counts[w].graded <= counts[w].total
               /\ ~d.torn => counts[w].total = Cardinality(DOMAIN Submissions(w))
  <2> DEFINE counts == Known(d.answers, "counts", <<>>)
  <2>1. ASSUME NEW w \in DOMAIN counts
        PROVE  /\ counts[w].graded <= counts[w].total
               /\ ~d.torn => counts[w].total = Cardinality(DOMAIN Submissions(w))
    BY CountsAgree
  <2> QED
    BY <2>1
<1>5. ASSUME NEW d \in Steady("homework")
      PROVE  LET counts == Known(d.answers, "counts", <<>>) IN
             Total([w \in DOMAIN counts |-> counts[w].graded]) <= HomeworkStats(d.of).graded
  <2> DEFINE counts == Known(d.answers, "counts", <<>>)
  <2>1. Total([w \in DOMAIN counts |-> counts[w].graded]) <= HomeworkStats(d.of).graded
    BY PageAgrees
  <2> QED
    BY <2>1
<1>6. ASSUME NEW d \in Steady("work")
      PROVE  Cardinality(DOMAIN Answered(d, "submissions")) = CountsOf({d.of})[d.of].total
  BY WorkAgrees
<1>7. ASSUME NEW d \in Steady("trend")
      PROVE  LET presents == Total([m \in TrendMonths |-> d.answers[<<"marks", m>>].present]) IN
             /\ GradesShown(d.of) = Cardinality(Scored(OfStudent(d.of).works))
             /\ TrendHas(d, Scored(OfStudent(d.of).works))
             /\ presents <= SummaryOf(d.of).present
             /\ (\A i \in OfStudent(d.of).rolls : rolls[i].day \in TrendMonths)
                  => presents = SummaryOf(d.of).present
  BY TrendAgrees
<1>8. ASSUME NEW d \in Steady("classTrend"), NEW m \in TrendMonths
      PROVE  d.answers[<<"marks", m>>].present = DayCounts(d.of, m)["present"]
  BY ClassTrendAgrees
<1>9. ASSUME NEW d \in Steady("lesson"), NEW t \in Tutors
      PROVE  (\E g \in Answered(d, "classes") : classes[g].tutor = t)
               <=> Answered(d, "lesson") \in CoursesOf(t)
  BY LessonAgrees
<1>10. ASSUME NEW d \in Steady("detail")
       PROVE  /\ Answered(d, "summary").total =
                   Total([x \in Classes \X Days |-> Cardinality(RecordsOf(d.of, x[1], x[2]))])
              /\ LET sum == Answered(d, "summary") IN
                 sum.present + sum.absent + sum.late + sum.excused = sum.total
              /\ \A g \in Answered(d, "group") : classes[g].tutor \in TutorsOf(d.of) \cup {None}
              /\ TutorsOf(d.of) # {} => Answered(d, "group") # {}
  BY DetailAgrees
<1> QED
  BY <1>1, <1>2, <1>3, <1>4, <1>5, <1>6, <1>7, <1>8, <1>9, <1>10 DEF SidesAgree

\* The pages, the analytics and the two sides of homework, attendance and grades tell the same
\* of the same rows, for any number of teachers, students, groups and months: what a view was
\* answered is still what the tables tell unless something was written since.
THEOREM ViewsHoldHolds == Spec => []ViewsHold
<1>1. ViewsPart => ViewsHold
  <2> SUFFICES ASSUME ViewsInv PROVE ViewsAgree
    BY DEF ViewsPart, ViewsHold
  <2> QED
    BY PagesDoShareTotal, AnalyticsDoAddUp, SidesDoAgree DEF ViewsAgree
<1> QED
  BY <1>1, ViewsPartHolds, PTL
=============================================================================
