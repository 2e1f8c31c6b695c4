-------------------------- MODULE RetentionProofs --------------------------
(* Proofs about the calendar (Calendar, Ages), the policy (GFSPolicy), and    *)
(* what years of runs leave (Retention).                                      *)
EXTENDS Retention, Ages, FiniteSetTheorems, TLAPS

\* Any set of natural numbers has a least one.
LEMMA LeastOf ==
    ASSUME NEW T \in SUBSET Nat, T # {}
    PROVE  \E m \in T : \A n \in T : m <= n
<1>1. PICK top \in T : TRUE
  OBVIOUS
<1> DEFINE R == StrictSubsetOrdering(0..top)
<1> DEFINE small == {0..(n - 1) : n \in {n \in T : n <= top}}
<1>2. IsFiniteSet(0..top)
  BY FS_Interval
<1>3. IsWellFoundedOn(R, SUBSET (0..top))
  BY <1>2, FS_StrictSubsetOrderingWellFounded, FS_FiniteSubsetsOfFinite
<1>4. small \subseteq SUBSET (0..top) /\ 0..(top - 1) \in small
  BY <1>1
<1>5. PICK s \in small : \A t \in small : <<t, s>> \notin R
  <2> HIDE DEF small, R
  <2>1. QED
    BY <1>3, <1>4, WFMin
<1>6. PICK m \in T : m <= top /\ s = 0..(m - 1)
  OBVIOUS
<1>7. ASSUME NEW n \in T, n < m PROVE FALSE
  <2>1. 0..(n - 1) \in small
    BY <1>6, <1>7
  <2>2. 0..(n - 1) \subseteq s /\ 0..(n - 1) # s /\ s \subseteq 0..top
    <3>1. n \in s /\ n \notin 0..(n - 1)
      BY <1>6, <1>7
    <3>2. QED
      BY <1>6, <1>7, <3>1
  <2>3. QED
    BY <1>5, <2>1, <2>2 DEF StrictSubsetOrdering
<1>8. QED
  BY <1>6, <1>7

\* The greatest of a set with a bound.
LEMMA GreatestOf ==
    ASSUME NEW top \in Nat, NEW T \in SUBSET (0..top), T # {}
    PROVE  \E m \in T : \A n \in T : n <= m
<1> DEFINE below == {top - n : n \in T}
<1>1. below \in SUBSET Nat /\ below # {}
  OBVIOUS
<1>2. PICK d \in below : \A e \in below : d <= e
  <2> HIDE DEF below
  <2>1. QED
    BY <1>1, LeastOf
<1>3. PICK m \in T : d = top - m
  OBVIOUS
<1>4. ASSUME NEW n \in T PROVE n <= m
  <2>1. top - n \in below
    OBVIOUS
  <2>2. top - m <= top - n
    BY <1>2, <1>3, <2>1
  <2>3. m \in Int /\ n \in Int /\ top \in Int
    <3>1. m \in 0..top /\ n \in 0..top
      OBVIOUS
    <3>2. QED
      BY <3>1
  <2>4. QED
    BY <2>2, <2>3
<1>5. QED
  BY <1>4

----------------------------------------------------------------------------
(* The calendar.                                                              *)

LEMMA LastDateIsInt == LastDate \in Int
BY SMT DEF LastDate

LEMMA DaysAreInts == \A n \in Days : n \in Int
BY LastDateIsInt DEF Days

LEMMA WeeksInOrder ==
    ASSUME NEW a \in Int, NEW b \in Int, a <= b
    PROVE  /\ WeekOf(a) \in Int /\ WeekOf(a) <= WeekOf(b)
           /\ WeekOf(a) <= a /\ a <= WeekOf(a) + 6
BY DEF WeekOf, Weekday

LEMMA MonthIsLong ==
    ASSUME NEW k \in Int
    PROVE  MonthStart(k) \in Int /\ MonthLength(k) \in 28..31
BY DEF MonthLength, MonthStart, NewYear, Leap

\* Any number of months from one on.
LEMMA MonthsApart ==
    ASSUME NEW k \in Int, NEW c \in Nat
    PROVE  /\ MonthStart(k) + 28 * c <= MonthStart(k + c)
           /\ MonthStart(k + c) <= MonthStart(k) + 31 * c
<1> DEFINE OK(n) == /\ MonthStart(k) + 28 * n <= MonthStart(k + n)
                   /\ MonthStart(k + n) <= MonthStart(k) + 31 * n
<1> DEFINE T == {n \in Nat : ~OK(n)}
<1>1. SUFFICES ASSUME T # {} PROVE FALSE
  OBVIOUS
<1>2. PICK m \in T : \A n \in T : m <= n
  <2> HIDE DEF T
  <2>1. T \in SUBSET Nat
    BY DEF T
  <2>2. QED
    BY <1>1, <2>1, LeastOf
<1>3. OK(0)
  BY MonthIsLong
<1>4. m \in Nat /\ m - 1 \in Nat /\ OK(m - 1)
  BY <1>2, <1>3
<1>5. MonthStart(k + (m - 1) + 1) - MonthStart(k + (m - 1)) \in 28..31
      /\ MonthStart(k + (m - 1)) \in Int /\ MonthStart(k + (m - 1) + 1) \in Int
      /\ MonthStart(k) \in Int
  BY <1>4, MonthIsLong DEF MonthLength
<1>6. k + (m - 1) + 1 = k + m
  BY <1>4
<1>7. OK(m)
  <2> HIDE DEF T
  <2>1. QED
    BY <1>4, <1>5, <1>6
<1>8. QED
  BY <1>7

LEMMA MonthsInOrder ==
    ASSUME NEW j \in Int, NEW k \in Int, j <= k
    PROVE  MonthStart(j) <= MonthStart(k)
<1>1. k - j \in Nat /\ k = j + (k - j)
  OBVIOUS
<1>2. MonthStart(j) + 28 * (k - j) <= MonthStart(k)
  BY <1>1, MonthsApart
<1>3. QED
  BY <1>1, <1>2, MonthIsLong

LEMMA YearNear ==
    ASSUME NEW y \in Int
    PROVE  /\ NewYear(y) \in Int
           /\ 146097 * (y - 1) - 400 <= 400 * NewYear(y)
           /\ 400 * NewYear(y) <= 146097 * (y - 1) + 800
BY SMT DEF NewYear

\* 4800 months are 146097 days, and no month starts two weeks off that pace.
LEMMA MonthNear ==
    ASSUME NEW k \in Int
    PROVE  /\ 146097 * k - 1800000 <= 4800 * MonthStart(k)
           /\ 4800 * MonthStart(k) <= 146097 * k - 1700000
<1> DEFINE y == k \div 12
<1> DEFINE i == k % 12
<1> DEFINE days == (367 * (i + 1) - 362) \div 12
<1>1. y \in Int /\ i \in 0..11 /\ k = (12 * y) + i
  OBVIOUS
<1>2. days \in Int /\ 30 * i <= days /\ 10 * days <= (306 * i) + 10
  <2> HIDE DEF i
  <2>1. QED
    BY <1>1, SMT
<1>3. \E short \in 0..2 : MonthStart(k) = NewYear(y) + days - short
  BY DEF MonthStart
<1>4. MonthStart(k) \in Int /\ NewYear(y) + days - 2 <= MonthStart(k)
      /\ MonthStart(k) <= NewYear(y) + days
  <2> HIDE DEF days, y
  <2>1. NewYear(y) \in Int
    BY <1>1, YearNear
  <2>2. QED
    BY <1>2, <1>3, <2>1, SMT
<1>5. /\ NewYear(y) \in Int
      /\ 146097 * (y - 1) - 400 <= 400 * NewYear(y)
      /\ 400 * NewYear(y) <= 146097 * (y - 1) + 800
  <2> HIDE DEF y
  <2>1. QED
    BY <1>1, YearNear, SMT
<1> HIDE DEF y, i, days
<1>6. /\ 146097 * (12 * y) - 1757964 <= 4800 * NewYear(y)
      /\ 4800 * NewYear(y) <= 146097 * (12 * y) - 1743564
  BY <1>1, <1>5, SMT
<1>7. /\ 4800 * NewYear(y) + 4800 * days - 9600 <= 4800 * MonthStart(k)
      /\ 4800 * MonthStart(k) <= 4800 * NewYear(y) + 4800 * days
  BY <1>2, <1>4, <1>5, SMT
<1>8. /\ 144000 * i <= 4800 * days /\ 4800 * days <= 146880 * i + 4800
  BY <1>1, <1>2, SMT
<1>9. 146097 * k = 146097 * (12 * y) + 146097 * i
  BY <1>1, SMT
<1>10. 146097 * i - 144000 * i <= 23067 /\ 146880 * i - 146097 * i <= 8613
  BY <1>1, SMT
<1>11. QED
  BY <1>1, <1>2, <1>4, <1>5, <1>6, <1>7, <1>8, <1>9, <1>10, SMT

LEMMA MonthFound ==
    ASSUME NEW n \in Days
    PROVE  /\ MonthOf(n) \in Int /\ n \in Int
           /\ MonthStart(MonthOf(n)) <= n /\ n < MonthStart(MonthOf(n) + 1)
<1> DEFINE x == (n - 1) * 48
<1> DEFINE g == 12 + (x \div 1461)
<1> DEFINE Lies(k) == MonthStart(k) <= n /\ n < MonthStart(k + 1)
<1>1. n \in Int /\ x \in Int /\ x = 48 * (n - 1) /\ 1 <= n /\ n <= 3652059
  <2>1. n \in Int /\ 1 <= n /\ n <= 3652059
    <3>1. LastDate \in Int
      BY SMT DEF LastDate
    <3>2. n \in Int /\ 1 <= n /\ n <= LastDate
      BY <3>1, SMT DEF Days
    <3>3. QED
      BY <3>2, SMT DEF LastDate
  <2>2. \A i \in Int : (i - 1) * 48 \in Int /\ (i - 1) * 48 = 48 * (i - 1)
    BY SMT
  <2>3. QED
    BY <2>1, <2>2, SMT
<1>2. g \in Int /\ 1461 * (g - 12) <= x /\ x < 1461 * (g - 11)
  <2> HIDE DEF x
  <2>1. QED
    BY <1>1, SMT
<1>3. MonthOf(n) = CHOOSE k \in (g - 1)..(g + 4) : Lies(k)
  BY SMT DEF MonthOf
<1> HIDE DEF g, x
<1>4. \A d \in -1..5 : MonthStart(g + d) \in Int
  BY <1>2, MonthIsLong
<1>5. MonthStart(g - 1) <= n
  <2>1. PICK k \in Int : k = g - 1
    BY <1>2
  <2>2. 4800 * MonthStart(k) <= 146097 * k - 1700000 /\ MonthStart(k) \in Int
    BY MonthNear, MonthIsLong, SMT
  <2>3. MonthStart(k) <= n
    BY <1>1, <1>2, <2>1, <2>2, SMT
  <2>4. QED
    BY <2>1, <2>3
<1>6. n < MonthStart(g + 5)
  <2>1. PICK k \in Int : k = g + 5
    BY <1>2
  <2>2. 146097 * k - 1800000 <= 4800 * MonthStart(k) /\ MonthStart(k) \in Int
    BY MonthNear, MonthIsLong, SMT
  <2>3. n < MonthStart(k)
    BY <1>1, <1>2, <2>1, <2>2, SMT
  <2>4. QED
    BY <2>1, <2>3
<1>7. \E k \in (g - 1)..(g + 4) : Lies(k)
  <2>1. \/ Lies(g - 1) \/ Lies(g) \/ Lies(g + 1) \/ Lies(g + 2) \/ Lies(g + 3) \/ Lies(g + 4)
    <3>1. /\ (g - 1) + 1 = g /\ (g + 1) + 1 = g + 2 /\ (g + 2) + 1 = g + 3
          /\ (g + 3) + 1 = g + 4 /\ (g + 4) + 1 = g + 5 /\ g + (-1) = g - 1
      BY <1>2
    <3>2. /\ MonthStart(g - 1) \in Int /\ MonthStart(g) \in Int /\ MonthStart(g + 1) \in Int
          /\ MonthStart(g + 2) \in Int /\ MonthStart(g + 3) \in Int
          /\ MonthStart(g + 4) \in Int /\ MonthStart(g + 5) \in Int
      BY <1>2, MonthIsLong
    <3>3. QED
      BY <1>1, <1>5, <1>6, <3>1, <3>2, SMT
  <2>2. QED
    BY <1>2, <2>1, SMT
<1>8. QED
  <2> HIDE DEF Lies
  <2>1. MonthOf(n) \in (g - 1)..(g + 4) /\ Lies(MonthOf(n))
    BY <1>3, <1>7
  <2>2. QED
    BY <1>1, <1>2, <2>1 DEF Lies

\* A day lies in one month.
LEMMA MonthKnown ==
    ASSUME NEW n \in Days, NEW k \in Int, MonthStart(k) <= n, n < MonthStart(k + 1)
    PROVE  MonthOf(n) = k
<1> DEFINE m == MonthOf(n)
<1>1. m \in Int /\ n \in Int /\ MonthStart(m) <= n /\ n < MonthStart(m + 1)
  BY MonthFound
<1>2. MonthStart(m) \in Int /\ MonthStart(m + 1) \in Int /\ MonthStart(k) \in Int /\ MonthStart(k + 1) \in Int
  BY <1>1, MonthIsLong
<1> HIDE DEF m
<1>3. m + 1 <= k => MonthStart(m + 1) <= MonthStart(k)
  BY <1>1, MonthsInOrder
<1>4. k + 1 <= m => MonthStart(k + 1) <= MonthStart(m)
  BY <1>1, MonthsInOrder
<1>5. m = k
  BY <1>1, <1>2, <1>3, <1>4
<1>6. QED
  BY <1>5 DEF m

LEMMA MonthsOfDays ==
    ASSUME NEW a \in Days, NEW b \in Days, a <= b
    PROVE  MonthOf(a) <= MonthOf(b)
<1> DEFINE j == MonthOf(a)
<1> DEFINE k == MonthOf(b)
<1>1. /\ j \in Int /\ a \in Int /\ MonthStart(j) <= a
      /\ k \in Int /\ b \in Int /\ b < MonthStart(k + 1)
  BY MonthFound
<1>2. MonthStart(j) \in Int /\ MonthStart(k + 1) \in Int
  BY <1>1, MonthIsLong
<1> HIDE DEF j, k
<1>3. k + 1 <= j => MonthStart(k + 1) <= MonthStart(j)
  BY <1>1, MonthsInOrder
<1>4. j <= k
  BY <1>1, <1>2, <1>3
<1>5. QED
  BY <1>4 DEF j, k

LEMMA YearsOfDays ==
    ASSUME NEW a \in Days, NEW b \in Days, a <= b
    PROVE  /\ YearOf(a) \in Int /\ YearOf(a) <= YearOf(b)
           /\ MonthOf(a) + 1 <= 12 * (YearOf(a) + 1)
<1>1. MonthOf(a) \in Int /\ MonthOf(b) \in Int /\ MonthOf(a) <= MonthOf(b)
  BY MonthFound, MonthsOfDays
<1>2. QED
  BY <1>1 DEF YearOf

LEMMA YearStarts ==
    ASSUME NEW y \in Int
    PROVE  MonthStart(12 * y) = NewYear(y) /\ NewYear(y) \in Int
<1>1. (12 * y) \div 12 = y /\ (12 * y) % 12 = 0
  OBVIOUS
<1>2. (367 * (0 + 1) - 362) \div 12 = 0
  OBVIOUS
<1>3. NewYear(y) \in Int
  BY DEF NewYear
<1>4. QED
  BY <1>1, <1>2, <1>3 DEF MonthStart

LEMMA YearIsLong ==
    ASSUME NEW k \in Int
    PROVE  /\ (k + 12) \div 12 = (k \div 12) + 1 /\ (k + 12) % 12 = k % 12
           /\ MonthStart(k + 12) - MonthStart(k) \in 365..366
           /\ MonthLength(k) # 29 /\ k % 12 = 1 => MonthStart(k + 12) - MonthStart(k) = 365
<1>1. (k + 12) \div 12 = (k \div 12) + 1 /\ (k + 12) % 12 = k % 12
  OBVIOUS
<1>2. MonthStart(k + 12) - MonthStart(k) \in 365..366
  BY <1>1 DEF MonthStart, NewYear, Leap
<1>3. MonthLength(k) # 29 /\ k % 12 = 1 => MonthStart(k + 12) - MonthStart(k) = 365
  BY <1>1 DEF MonthStart, NewYear, Leap, MonthLength
<1>4. QED
  BY <1>1, <1>2, <1>3

\* A month is as long in every year, February aside.
LEMMA SameMonth ==
    ASSUME NEW j \in Int, NEW k \in Int, j % 12 = k % 12
    PROVE  \/ MonthLength(j) = MonthLength(k)
           \/ k % 12 = 1 /\ MonthLength(j) \in 28..29 /\ MonthLength(k) \in 28..29
<1>1. PICK r \in 0..11 : j % 12 = r /\ k % 12 = r
  OBVIOUS
<1>2. \A i \in Int : i % 12 = 1 => MonthLength(i) \in 28..29
  BY DEF MonthStart, NewYear, Leap, MonthLength
<1>3. \A i \in Int : i % 12 = r /\ r # 1 =>
         MonthLength(i) = ((367 * (r + 2) - 362) \div 12) - ((367 * (r + 1) - 362) \div 12)
  BY DEF MonthStart, NewYear, Leap, MonthLength
<1>4. QED
  BY <1>1, <1>2, <1>3

LEMMA YearsApart ==
    ASSUME NEW k \in Int, NEW c \in Nat
    PROVE  /\ (k + 12 * c) % 12 = k % 12
           /\ MonthStart(k) + 365 * c <= MonthStart(k + 12 * c)
           /\ MonthStart(k + 12 * c) <= MonthStart(k) + 366 * c
<1> DEFINE OK(n) == /\ MonthStart(k) + 365 * n <= MonthStart(k + 12 * n)
                    /\ MonthStart(k + 12 * n) <= MonthStart(k) + 366 * n
<1> DEFINE T == {n \in Nat : ~OK(n)}
<1>1. (k + 12 * c) % 12 = k % 12
  OBVIOUS
<1>2. ASSUME T # {} PROVE FALSE
  <2>1. PICK m \in T : \A n \in T : m <= n
    <3> HIDE DEF T
    <3>1. T \in SUBSET Nat
      BY DEF T
    <3>2. QED
      BY <1>2, <3>1, LeastOf
  <2>2. OK(0)
    BY MonthIsLong
  <2>3. m \in Nat /\ m - 1 \in Nat /\ OK(m - 1)
    BY <2>1, <2>2
  <2>4. PICK j \in Int : j = k + 12 * (m - 1)
    BY <2>3
  <2>5. k + 12 * m = j + 12
    BY <2>3, <2>4
  <2>6. MonthStart(j + 12) - MonthStart(j) \in 365..366
        /\ MonthStart(j) \in Int /\ MonthStart(j + 12) \in Int /\ MonthStart(k) \in Int
    BY YearIsLong, MonthIsLong
  <2>7. OK(m)
    <3> HIDE DEF T
    <3>1. MonthStart(k) + 365 * (m - 1) <= MonthStart(j)
          /\ MonthStart(j) <= MonthStart(k) + 366 * (m - 1)
      BY <2>3, <2>4
    <3>2. MonthStart(k) + 365 * m <= MonthStart(j + 12)
          /\ MonthStart(j + 12) <= MonthStart(k) + 366 * m
      BY <2>3, <2>6, <3>1
    <3>3. QED
      BY <2>5, <3>2
  <2>8. QED
    BY <2>1, <2>7
<1>3. QED
  BY <1>1, <1>2

\* The day of the month, or the month's last.
Clamped(k, d) == MonthStart(k) + Earlier(d, MonthLength(k)) - 1

LEMMA FloorByMonths ==
    ASSUME NEW keep \in Keeps, NEW n \in Int
    PROVE  Floor(keep, n) =
             IF keep.unit = "d" THEN n - keep.count
             ELSE IF keep.unit = "w" THEN n - 7 * keep.count
             ELSE IF keep.unit = "m"
                  THEN Clamped(MonthOf(n) - keep.count, DayOfMonth(n))
             ELSE Clamped(MonthOf(n) - 12 * keep.count, DayOfMonth(n))
<1>1. keep.count \in Int /\ keep.unit \in {"d", "w", "m", "y"}
  BY DEF Keeps
<1>2. keep.count * 12 = 12 * keep.count /\ keep.count * 1 = keep.count
  BY <1>1
<1>3. QED
  BY <1>1, <1>2 DEF Floor, Clamped

LEMMA ClampedInOrder ==
    ASSUME NEW a \in Days, NEW b \in Days, a <= b, NEW c \in Nat
    PROVE  /\ Clamped(MonthOf(a) - c, DayOfMonth(a)) \in Int
           /\ Clamped(MonthOf(a) - c, DayOfMonth(a)) <= Clamped(MonthOf(b) - c, DayOfMonth(b))
<1>1. PICK j \in Int : j = MonthOf(a) /\ a \in Int /\ MonthStart(j) <= a
  BY MonthFound
<1>2. PICK k \in Int : k = MonthOf(b) /\ b \in Int /\ MonthStart(k) <= b
  BY MonthFound
<1>3. j <= k
  BY <1>1, <1>2, MonthsOfDays
<1>4. /\ MonthStart(j) \in Int /\ MonthStart(k) \in Int
      /\ MonthStart(j - c) \in Int /\ MonthStart(k - c) \in Int
      /\ MonthLength(j - c) \in 28..31 /\ MonthLength(k - c) \in 28..31
      /\ MonthStart(j - c + 1) \in Int
  BY MonthIsLong
<1>5. j + 1 <= k => MonthStart(j - c + 1) <= MonthStart(k - c)
  BY MonthsInOrder
<1>6. /\ DayOfMonth(a) = a - MonthStart(j) + 1 /\ DayOfMonth(b) = b - MonthStart(k) + 1
      /\ MonthLength(j - c) = MonthStart(j - c + 1) - MonthStart(j - c)
  BY <1>1, <1>2 DEF DayOfMonth, MonthLength
<1>7. Clamped(j - c, DayOfMonth(a)) \in Int
  BY <1>1, <1>4, <1>6 DEF Clamped, Earlier
<1>8. CASE j = k
  BY <1>1, <1>2, <1>4, <1>6, <1>7, <1>8 DEF Clamped, Earlier
<1>9. CASE j # k
  BY <1>1, <1>2, <1>3, <1>4, <1>5, <1>6, <1>7, <1>9 DEF Clamped, Earlier
<1>10. QED
  BY <1>1, <1>2, <1>7, <1>8, <1>9

\* An age reaches no less far back on a later day.
LEMMA FloorInOrder ==
    ASSUME NEW keep \in Keeps, NEW a \in Days, NEW b \in Days, a <= b
    PROVE  Floor(keep, a) \in Int /\ Floor(keep, a) <= Floor(keep, b)
<1>1. keep.count \in Nat /\ keep.unit \in {"d", "w", "m", "y"}
  BY DEF Keeps
<1>2. a \in Int /\ b \in Int
  BY MonthFound
<1>3. CASE keep.unit \in {"d", "w"}
  BY <1>1, <1>2, <1>3, FloorByMonths
<1>4. CASE keep.unit = "m"
  BY <1>1, <1>2, <1>4, FloorByMonths, ClampedInOrder
<1>5. CASE keep.unit = "y"
  <2>1. 12 * keep.count \in Nat
    BY <1>1
  <2>2. QED
    BY <1>2, <1>5, <2>1, FloorByMonths, ClampedInOrder
<1>6. QED
  BY <1>1, <1>3, <1>4, <1>5

\* An age of months or years is as long as its bounds say.
LEMMA ClampedNear ==
    ASSUME NEW n \in Days, NEW c \in Nat, c > 0
    PROVE  /\ n - 31 * c <= Clamped(MonthOf(n) - c, DayOfMonth(n))
           /\ Clamped(MonthOf(n) - c, DayOfMonth(n)) <= n - 28 * c
<1>1. PICK k \in Int : k = MonthOf(n) /\ n \in Int /\ MonthStart(k) <= n /\ n < MonthStart(k + 1)
  BY MonthFound
<1>2. PICK j \in Int : j = k - c
  OBVIOUS
<1>3. /\ MonthStart(j) \in Int /\ MonthLength(j) \in 28..31 /\ MonthStart(j + 1) \in Int
      /\ MonthStart(k) \in Int /\ MonthLength(k) \in 28..31
      /\ MonthLength(j) = MonthStart(j + 1) - MonthStart(j)
      /\ MonthLength(k) = MonthStart(k + 1) - MonthStart(k) /\ MonthStart(k + 1) \in Int
  BY MonthIsLong DEF MonthLength
<1>4. j + c = k /\ (j + 1) + (c - 1) = k /\ c - 1 \in Nat
  BY <1>2
<1>5. MonthStart(j) + 28 * c <= MonthStart(k)
      /\ MonthStart(k) <= MonthStart(j + 1) + 31 * (c - 1)
  <2>1. MonthStart(j) + 28 * c <= MonthStart(j + c)
    BY MonthsApart
  <2>2. MonthStart((j + 1) + (c - 1)) <= MonthStart(j + 1) + 31 * (c - 1)
    <3>1. PICK i \in Int, b \in Nat : i = j + 1 /\ b = c - 1
      BY <1>4
    <3>2. MonthStart(i + b) <= MonthStart(i) + 31 * b
      BY MonthsApart
    <3>3. QED
      BY <3>1, <3>2
  <2>3. QED
    BY <1>4, <2>1, <2>2
<1>6. DayOfMonth(n) = n - MonthStart(k) + 1
  BY <1>1 DEF DayOfMonth
<1>7. QED
  BY <1>1, <1>2, <1>3, <1>4, <1>5, <1>6 DEF Clamped, Earlier

LEMMA ClampedByYears ==
    ASSUME NEW n \in Days, NEW c \in Nat, c > 0
    PROVE  /\ n - 366 * c <= Clamped(MonthOf(n) - 12 * c, DayOfMonth(n))
           /\ Clamped(MonthOf(n) - 12 * c, DayOfMonth(n)) <= n - 365 * c
<1>1. PICK k \in Int : k = MonthOf(n) /\ n \in Int /\ MonthStart(k) <= n /\ n < MonthStart(k + 1)
  BY MonthFound
<1>2. PICK j \in Int : j = k - 12 * c
  OBVIOUS
<1>3. /\ MonthStart(j) \in Int /\ MonthLength(j) \in 28..31 /\ MonthStart(j + 12) \in Int
      /\ MonthStart(k) \in Int /\ MonthLength(k) \in 28..31
      /\ MonthLength(k) = MonthStart(k + 1) - MonthStart(k) /\ MonthStart(k + 1) \in Int
  BY MonthIsLong DEF MonthLength
<1>4. j + 12 * c = k /\ (j + 12) + 12 * (c - 1) = k /\ c - 1 \in Nat
  BY <1>2
<1>5. /\ k % 12 = j % 12
      /\ MonthStart(j) + 365 * c <= MonthStart(k)
      /\ MonthStart(k) <= MonthStart(j) + 366 * c
      /\ MonthStart(k) <= MonthStart(j + 12) + 366 * (c - 1)
  <2>1. /\ (j + 12 * c) % 12 = j % 12
        /\ MonthStart(j) + 365 * c <= MonthStart(j + 12 * c)
        /\ MonthStart(j + 12 * c) <= MonthStart(j) + 366 * c
    BY YearsApart
  <2>2. MonthStart((j + 12) + 12 * (c - 1)) <= MonthStart(j + 12) + 366 * (c - 1)
    <3>1. PICK i \in Int, b \in Nat : i = j + 12 /\ b = c - 1
      BY <1>4
    <3>2. MonthStart(i + 12 * b) <= MonthStart(i) + 366 * b
      BY YearsApart
    <3>3. QED
      BY <3>1, <3>2
  <2>3. QED
    BY <1>4, <2>1, <2>2
<1>6. DayOfMonth(n) = n - MonthStart(k) + 1
  BY <1>1 DEF DayOfMonth
<1>7. CASE MonthLength(k) <= MonthLength(j)
  BY <1>1, <1>2, <1>3, <1>5, <1>6, <1>7 DEF Clamped, Earlier
<1>8. CASE MonthLength(k) > MonthLength(j)
  <2>1. MonthLength(j) = 28 /\ MonthLength(k) = 29 /\ j % 12 = 1
    <3>1. j % 12 = k % 12
      BY <1>5
    <3>2. MonthLength(k) \in 28..29 /\ MonthLength(j) \in 28..29 /\ k % 12 = 1
      BY <1>8, <3>1, SameMonth, <1>3
    <3>3. QED
      BY <1>8, <3>1, <3>2
  <2>2. MonthStart(j + 12) - MonthStart(j) = 365
    BY <2>1, YearIsLong
  <2>3. QED
    BY <1>1, <1>2, <1>3, <1>4, <1>5, <1>6, <2>1, <2>2 DEF Clamped, Earlier
<1>9. QED
  BY <1>3, <1>7, <1>8

LEMMA FloorNear ==
    ASSUME NEW keep \in Keeps, NEW n \in Days
    PROVE  /\ n - MaxDays(keep) <= Floor(keep, n) /\ Floor(keep, n) <= n - MinDays(keep)
           /\ MinDays(keep) \in Nat /\ MaxDays(keep) \in Nat
<1>1. keep.count \in Nat /\ keep.count > 0 /\ keep.unit \in {"d", "w", "m", "y"}
  BY DEF Keeps
<1>2. n \in Int
  BY MonthFound
<1>3. CASE keep.unit \in {"d", "w"}
  BY <1>1, <1>2, <1>3, FloorByMonths DEF MinDays, MaxDays, UnitDays
<1>4. CASE keep.unit = "m"
  <2>1. MinDays(keep) = 28 * keep.count /\ MaxDays(keep) = 31 * keep.count
    BY <1>1, <1>4 DEF MinDays, MaxDays, UnitDays
  <2>2. QED
    BY <1>1, <1>2, <1>4, <2>1, FloorByMonths, ClampedNear
<1>5. CASE keep.unit = "y"
  <2>1. MinDays(keep) = 365 * keep.count /\ MaxDays(keep) = 366 * keep.count
    BY <1>1, <1>5 DEF MinDays, MaxDays, UnitDays
  <2>2. QED
    BY <1>1, <1>2, <1>5, <2>1, FloorByMonths, ClampedByYears
<1>6. QED
  BY <1>1, <1>3, <1>4, <1>5

----------------------------------------------------------------------------
(* Ages.                                                                      *)

\* LongerIsFurther, for every two ages of the loader and every day of the
\* calendar: comparing nominal lengths (stages._stage) is enough.
THEOREM AgesReachFurther == AgesSpec => []LongerIsFurther
<1> DEFINE Inv == day \in Days
<1>1. First => Inv
  BY AgesAreKeeps DEF First
<1>2. Inv /\ [Pass]_day => Inv'
  <2> SUFFICES ASSUME Inv, [Pass]_day PROVE day' \in Days
    OBVIOUS
  <2>1. CASE Pass
    BY <2>1, AgesAreKeeps, LastDateIsInt DEF Pass, Days
  <2>2. QED
    BY <2>1
<1>3. Inv => LongerIsFurther
  <2> SUFFICES ASSUME Inv, NEW keep \in Configured, NEW next \in Configured,
                      Longer(next, keep)
               PROVE  Floor(next, day) < Floor(keep, day)
    BY DEF LongerIsFurther
  <2>1. PICK n \in Days : n = day
    OBVIOUS
  <2>2. keep \in Keeps /\ next \in Keeps
    BY AgesAreKeeps
  <2>3. /\ n - MaxDays(keep) <= Floor(keep, n) /\ Floor(next, n) <= n - MinDays(next)
        /\ MinDays(next) \in Nat /\ MaxDays(keep) \in Nat
        /\ Floor(keep, n) \in Int /\ Floor(next, n) \in Int /\ n \in Int
    BY <2>2, FloorNear, FloorInOrder, MonthFound, DaysAreInts
  <2>4. Floor(next, n) < Floor(keep, n)
    BY <2>3 DEF Longer
  <2>5. QED
    BY <2>1, <2>4
<1>4. QED
  BY <1>1, <1>2, <1>3, PTL DEF AgesSpec

\* NoReturn: Keep.floor never goes back from one day to the next, for every age.
THEOREM AgesNeverReturn == AgesSpec => NoReturn
<1> DEFINE Inv == day \in Days
<1>1. First => Inv
  BY AgesAreKeeps DEF First
<1>2. Inv /\ [Pass]_day => Inv'
  <2> SUFFICES ASSUME Inv, [Pass]_day PROVE day' \in Days
    OBVIOUS
  <2>1. CASE Pass
    BY <2>1, AgesAreKeeps, LastDateIsInt DEF Pass, Days
  <2>2. QED
    BY <2>1
<1>3. Inv /\ Inv' /\ [Pass]_day =>
        [\A keep \in Configured : Floor(keep, day) <= Floor(keep, day')]_day
  <2> SUFFICES ASSUME Inv, Inv', Pass, NEW keep \in Configured
               PROVE  Floor(keep, day) <= Floor(keep, day')
    OBVIOUS
  <2>1. PICK a \in Days, b \in Days : a = day /\ b = day'
    OBVIOUS
  <2>2. a <= b
    BY <2>1, DaysAreInts DEF Pass
  <2>3. keep \in Keeps
    BY AgesAreKeeps
  <2>4. Floor(keep, a) <= Floor(keep, b)
    BY <2>2, <2>3, FloorInOrder
  <2>5. QED
    BY <2>1, <2>4
<1>4. QED
  BY <1>1, <1>2, <1>3, PTL DEF AgesSpec, NoReturn

----------------------------------------------------------------------------
(* Units in their weeks, months and years.                                    *)

LEMMA UnitOrder ==
    ASSUME NEW u \in Units, NEW v \in Units, u <= v
    PROVE  /\ u \in Nat /\ DayOf[u] \in Days /\ DayOf[u] \in Int /\ DayOf[u] <= DayOf[v]
           /\ Week[u] \in Int /\ Week[u] <= Week[v]
           /\ Month[u] \in Int /\ Month[u] <= Month[v]
           /\ Year[u] \in Int /\ Year[u] <= Year[v]
<1>1. PICK a \in Days, b \in Days : a = DayOf[u] /\ b = DayOf[v]
  BY UnitsInDayOrder
<1>2. a \in Int /\ b \in Int /\ u \in Nat /\ v \in Nat
  BY DaysAreInts, UnitsInDayOrder
<1>3. a <= b
  BY <1>1, <1>2, UnitsInDayOrder
<1>4. WeekOf(a) \in Int /\ WeekOf(a) <= WeekOf(b)
  BY <1>2, <1>3, WeeksInOrder
<1>5. /\ MonthOf(a) \in Int /\ MonthOf(a) <= MonthOf(b)
      /\ YearOf(a) \in Int /\ YearOf(a) <= YearOf(b)
  BY <1>3, MonthFound, MonthsOfDays, YearsOfDays
<1>6. /\ Week[u] = WeekOf(a) /\ Week[v] = WeekOf(b) /\ Month[u] = MonthOf(a)
      /\ Month[v] = MonthOf(b) /\ Year[u] = YearOf(a) /\ Year[v] = YearOf(b)
  BY <1>1 DEF Week, Month, Year
<1>7. QED
  BY <1>1, <1>2, <1>3, <1>4, <1>5, <1>6

LEMMA SameMonthSameYear ==
    ASSUME NEW u \in Units, NEW v \in Units, Month[u] = Month[v]
    PROVE  Year[u] = Year[v]
BY DEF Month, Year, YearOf

\* Where a unit's month and year end.
LEMMA UnitEnds ==
    ASSUME NEW u \in Units
    PROVE  /\ MonthStart(Month[u] + 1) \in Int /\ DayOf[u] <= MonthStart(Month[u] + 1) - 1
           /\ NewYear(Year[u] + 1) \in Int
           /\ MonthStart(Month[u] + 1) <= NewYear(Year[u] + 1)
<1>1. PICK a \in Days : a = DayOf[u] /\ a \in Int
  BY UnitsInDayOrder, DaysAreInts
<1>2. PICK k \in Int : k = MonthOf(a) /\ a < MonthStart(k + 1)
  BY MonthFound
<1>3. PICK y \in Int : y = YearOf(a) /\ k + 1 <= 12 * (y + 1)
  BY <1>1, <1>2, YearsOfDays
<1>4. MonthStart(12 * (y + 1)) = NewYear(y + 1) /\ NewYear(y + 1) \in Int
  BY YearStarts
<1>5. MonthStart(k + 1) <= MonthStart(12 * (y + 1)) /\ MonthStart(k + 1) \in Int
  BY <1>3, MonthsInOrder, MonthIsLong
<1>6. Month[u] = k /\ Year[u] = y
  BY <1>1, <1>2, <1>3 DEF Month, Year
<1>7. QED
  BY <1>1, <1>2, <1>4, <1>5, <1>6

----------------------------------------------------------------------------
(* Complete buckets.                                                          *)

Done(r, u, t) ==
    /\ r >= 2 => WeekDone(DayOf[u], t)
    /\ r >= 3 => MonthDone(Month[u], t)
    /\ r = 4 => YearDone(Year[u], t)

LEMMA WeekDoneInOrder ==
    ASSUME NEW a \in Int, NEW b \in Int, NEW s \in Int, NEW t \in Int,
           a <= b, s <= t, WeekDone(b, s)
    PROVE  WeekDone(a, t)
BY WeeksInOrder DEF WeekDone

\* A complete year has complete months, and a complete month complete weeks.
LEMMA DoneWithin ==
    ASSUME NEW u \in Units, NEW t \in Int
    PROVE  /\ MonthDone(Month[u], t) => WeekDone(DayOf[u], t)
           /\ YearDone(Year[u], t) => MonthDone(Month[u], t)
<1>1. /\ MonthStart(Month[u] + 1) \in Int /\ DayOf[u] <= MonthStart(Month[u] + 1) - 1
      /\ NewYear(Year[u] + 1) \in Int
      /\ MonthStart(Month[u] + 1) <= NewYear(Year[u] + 1)
      /\ DayOf[u] \in Int
  BY UnitEnds, UnitOrder, UnitsInDayOrder
<1>2. \A a, b \in Int : a <= b /\ WeekDone(b, t) => WeekDone(a, t)
  BY WeekDoneInOrder
<1>3. QED
  BY <1>1, <1>2 DEF MonthDone, YearDone

LEMMA DoneIsOne ==
    ASSUME NEW u \in Units, NEW t \in Int
    PROVE  /\ Done(1, u, t)
           /\ Done(2, u, t) <=> WeekDone(DayOf[u], t)
           /\ Done(3, u, t) <=> MonthDone(Month[u], t)
           /\ Done(4, u, t) <=> YearDone(Year[u], t)
BY DoneWithin DEF Done

LEMMA DoneFewer ==
    ASSUME NEW u \in Units, NEW t \in Int, NEW r \in 1..4, NEW q \in 1..4, q <= r,
           Done(r, u, t)
    PROVE  Done(q, u, t)
BY DoneWithin DEF Done

\* Earlier units, and all units of the bucket, are complete too, and stay so.
LEMMA DoneAlike ==
    ASSUME NEW u \in Units, NEW v \in Units, NEW t \in Int
    PROVE  /\ Month[u] = Month[v] /\ Done(3, v, t) => Done(3, u, t)
           /\ Year[u] = Year[v] /\ Done(4, v, t) => Done(4, u, t)
BY DoneIsOne

LEMMA DoneBefore ==
    ASSUME NEW u \in Units, NEW v \in Units, u <= v,
           NEW s \in Int, NEW t \in Int, s <= t,
           NEW r \in 1..4, Done(r, v, s)
    PROVE  Done(r, u, t)
<1>1. /\ DayOf[u] \in Int /\ DayOf[v] \in Int /\ DayOf[u] <= DayOf[v]
      /\ Month[u] \in Int /\ Month[v] \in Int /\ Month[u] <= Month[v]
      /\ Year[u] \in Int /\ Year[v] \in Int /\ Year[u] <= Year[v]
  BY UnitOrder, UnitsInDayOrder
<1>2. \A a, b \in Int : a <= b /\ WeekDone(b, s) => WeekDone(a, t)
  BY WeekDoneInOrder
<1>3. MonthStart(Month[u] + 1) \in Int /\ MonthStart(Month[v] + 1) \in Int
      /\ MonthStart(Month[u] + 1) <= MonthStart(Month[v] + 1)
  <2>1. PICK j \in Int, k \in Int : j = Month[u] + 1 /\ k = Month[v] + 1 /\ j <= k
    BY <1>1
  <2>2. MonthStart(j) \in Int /\ MonthStart(k) \in Int /\ MonthStart(j) <= MonthStart(k)
    BY <2>1, MonthsInOrder, MonthIsLong
  <2>3. QED
    BY <2>1, <2>2
<1>4. NewYear(Year[u] + 1) \in Int /\ NewYear(Year[v] + 1) \in Int
      /\ NewYear(Year[u] + 1) <= NewYear(Year[v] + 1)
  <2>1. PICK j \in Int, k \in Int : j = Year[u] + 1 /\ k = Year[v] + 1 /\ j <= k
    BY <1>1
  <2>2. MonthStart(12 * j) = NewYear(j) /\ MonthStart(12 * k) = NewYear(k)
    BY YearStarts
  <2>3. NewYear(j) \in Int /\ NewYear(k) \in Int
    BY YearStarts
  <2>4. MonthStart(12 * j) <= MonthStart(12 * k)
    BY <2>1, MonthsInOrder
  <2>5. QED
    BY <2>1, <2>2, <2>3, <2>4
<1>5. QED
  BY <1>1, <1>2, <1>3, <1>4 DEF Done, MonthDone, YearDone

\* A complete month is later than the last of an earlier year.
LEMMA YearBefore ==
    ASSUME NEW u \in Units, NEW v \in Units, Year[u] < Year[v], NEW t \in Int,
           Done(3, v, t)
    PROVE  Done(4, u, t)
<1>1. PICK a \in Days : a = DayOf[v]
  BY UnitsInDayOrder
<1>2. PICK k \in Int : k = Month[v] /\ k = MonthOf(a)
  BY <1>1, MonthFound DEF Month
<1>3. Year[v] = k \div 12 /\ Year[u] \in Int
  BY <1>1, <1>2, UnitOrder, UnitsInDayOrder DEF Year, YearOf
<1>4. PICK y \in Int : y = Year[u] + 1 /\ 12 * y <= k
  BY <1>3
<1>5. NewYear(y) = MonthStart(12 * y) /\ NewYear(y) \in Int
  BY YearStarts
<1>6. MonthStart(12 * y) <= MonthStart(k) /\ MonthStart(k) \in Int /\ MonthStart(k + 1) \in Int
      /\ MonthLength(k) \in 28..31
  BY <1>4, MonthsInOrder, MonthIsLong
<1>7. NewYear(y) - 1 <= MonthStart(k + 1) - 1
  BY <1>5, <1>6 DEF MonthLength
<1>8. WeekDone(MonthStart(k + 1) - 1, t)
  BY <1>2, DoneIsOne DEF MonthDone
<1>9. \A c, b \in Int : c <= b /\ WeekDone(b, t) => WeekDone(c, t)
  BY WeekDoneInOrder
<1>10. WeekDone(NewYear(y) - 1, t)
  BY <1>5, <1>6, <1>7, <1>8, <1>9
<1>11. QED
  BY <1>4, <1>10, DoneIsOne DEF YearDone

\* A unit of today is in no complete bucket.
LEMMA NewUnit ==
    ASSUME NEW n \in Units, NEW u \in Units, NEW t \in Int, DayOf[n] = t
    PROVE  /\ Done(2, u, t) => Week[u] # Week[n]
           /\ Done(3, u, t) => Month[u] # Month[n]
           /\ Done(4, u, t) => Year[u] # Year[n]
<1>1. ~WeekDone(DayOf[n], t)
  BY WeeksInOrder DEF WeekDone
<1>2. ~Done(2, n, t) /\ ~Done(3, n, t) /\ ~Done(4, n, t)
  BY <1>1, DoneWithin DEF Done
<1>3. Done(2, u, t) /\ Week[u] = Week[n] => WeekDone(DayOf[n], t)
  BY DoneIsOne DEF Week, WeekDone
<1>4. QED
  BY <1>1, <1>2, <1>3, DoneAlike

----------------------------------------------------------------------------
(* The stage a unit's age asks for.                                           *)

LEMMA RankKnown == \A i \in 1..4 : Rank(Periods[i]) = i
<1>1. /\ Periods[1] = "daily" /\ Periods[2] = "weekly"
      /\ Periods[3] = "monthly" /\ Periods[4] = "yearly"
  BY DEF Periods
<1>2. \A i, j \in 1..4 : Periods[i] = Periods[j] => i = j
  BY <1>1
<1>3. SUFFICES ASSUME NEW i \in 1..4 PROVE Rank(Periods[i]) = i
  OBVIOUS
<1>4. \E j \in 1..4 : Periods[j] = Periods[i]
  OBVIOUS
<1>5. Rank(Periods[i]) \in 1..4 /\ Periods[Rank(Periods[i])] = Periods[i]
  BY <1>4 DEF Rank
<1>6. QED
  BY <1>2, <1>5

LEMMA PeriodKnown ==
    /\ Rank("daily") = 1 /\ Rank("weekly") = 2 /\ Rank("monthly") = 3 /\ Rank("yearly") = 4
    /\ \A i \in 1..Len(Stages) :
          /\ Rank(Stages[i].period) \in 1..4
          /\ Stages[i].period = Periods[Rank(Stages[i].period)]
          /\ Stages[i].keep \in Keeps
    /\ Len(Stages) \in Nat /\ Len(Stages) > 0
<1>1. /\ Periods[1] = "daily" /\ Periods[2] = "weekly"
      /\ Periods[3] = "monthly" /\ Periods[4] = "yearly"
  BY DEF Periods
<1>2. Rank("daily") = 1 /\ Rank("weekly") = 2 /\ Rank("monthly") = 3 /\ Rank("yearly") = 4
  BY <1>1, RankKnown
<1>3. Len(Stages) \in Nat /\ Len(Stages) > 0
  BY StagesAreOrdered
<1>4. \A i \in 1..Len(Stages) : Stages[i].keep \in Keeps /\ \E j \in 1..4 : Stages[i].period = Periods[j]
  <2> DEFINE S == [period : {Periods[i] : i \in 1..4}, keep : Keeps]
  <2>1. \A i \in 1..Len(Stages) : Stages[i] \in S
    <3> HIDE DEF S
    <3>1. Stages \in Seq(S)
      BY StagesAreOrdered DEF S
    <3>2. QED
      BY <3>1
  <2>2. QED
    BY <2>1
<1>5. QED
  BY <1>2, <1>3, <1>4, RankKnown

LEMMA RankInOrder ==
    ASSUME NEW i \in 1..Len(Stages), NEW j \in 1..Len(Stages), i <= j
    PROVE  Rank(Stages[i].period) <= Rank(Stages[j].period)
<1> DEFINE T == {k \in 1..Len(Stages) : i <= k /\ ~(Rank(Stages[i].period) <= Rank(Stages[k].period))}
<1>1. SUFFICES ASSUME T # {} PROVE FALSE
  OBVIOUS
<1>2. PICK m \in T : \A n \in T : m <= n
  <2> HIDE DEF T
  <2>1. T \in SUBSET Nat
    BY PeriodKnown DEF T
  <2>2. QED
    BY <1>1, <2>1, LeastOf
<1>3. \A k \in 1..Len(Stages) : Rank(Stages[k].period) \in 1..4
  BY PeriodKnown
<1>4. m # i
  BY <1>2, <1>3
<1>5. m - 1 \in 1..Len(Stages) /\ i <= m - 1 /\ m \in 2..Len(Stages)
  BY <1>2, <1>4, PeriodKnown
<1>6. Rank(Stages[m].period) >= Rank(Stages[m - 1].period)
  BY <1>5, StagesAreOrdered
<1>7. Rank(Stages[i].period) <= Rank(Stages[m - 1].period)
  BY <1>2, <1>5
<1>8. QED
  BY <1>2, <1>3, <1>5, <1>6, <1>7

LEMMA TargetKnown ==
    ASSUME NEW a, NEW t
    PROVE  /\ Target(a, t) \in 1..(Len(Stages) + 1)
           /\ Target(a, t) <= Len(Stages) => Within(a, Stages[Target(a, t)].keep, t)
           /\ \A j \in 1..(Target(a, t) - 1) : ~Within(a, Stages[j].keep, t)
<1> DEFINE Fits(i) == i <= Len(Stages) => Within(a, Stages[i].keep, t)
<1> DEFINE T == {i \in 1..(Len(Stages) + 1) : Fits(i)}
<1>1. Len(Stages) + 1 \in T
  BY PeriodKnown
<1>2. PICK m \in T : \A n \in T : m <= n
  <2> HIDE DEF T
  <2>1. T \in SUBSET Nat
    BY PeriodKnown DEF T
  <2>2. QED
    BY <1>1, <2>1, LeastOf
<1>3. \A j \in 1..(m - 1) : ~Within(a, Stages[j].keep, t)
  BY <1>2, PeriodKnown
<1>4. \E i \in 1..(Len(Stages) + 1) :
          /\ i <= Len(Stages) => Within(a, Stages[i].keep, t)
          /\ \A j \in 1..(i - 1) : ~Within(a, Stages[j].keep, t)
  BY <1>2, <1>3
<1>5. QED
  BY <1>4 DEF Target

\* A younger unit, or the same on an earlier day, is in no later a stage.
LEMMA TargetInOrder ==
    ASSUME NEW a \in Int, NEW b \in Int, a <= b,
           NEW s \in Days, NEW t \in Days, s <= t
    PROVE  Target(b, s) <= Target(a, t)
<1>1. PICK i \in 1..(Len(Stages) + 1) :
          i = Target(b, s) /\ \A j \in 1..(i - 1) : ~Within(b, Stages[j].keep, s)
  BY TargetKnown
<1>2. PICK j \in 1..(Len(Stages) + 1) :
          j = Target(a, t) /\ (j <= Len(Stages) => Within(a, Stages[j].keep, t))
  BY TargetKnown
<1>3. SUFFICES ASSUME j < i PROVE FALSE
  BY <1>1, <1>2, PeriodKnown
<1>4. j \in 1..(i - 1) /\ j \in 1..Len(Stages) /\ j <= Len(Stages)
  BY <1>3, PeriodKnown
<1>5. PICK keep \in Keeps : keep = Stages[j].keep
  BY <1>4, PeriodKnown
<1>6. Floor(keep, s) \in Int /\ Floor(keep, t) \in Int /\ Floor(keep, s) <= Floor(keep, t)
  BY FloorInOrder, DaysAreInts
<1>7. Within(a, keep, t) /\ ~Within(b, keep, s)
  BY <1>1, <1>2, <1>4, <1>5
<1>8. QED
  BY <1>6, <1>7 DEF Within

\* What that stage chooses by; 5 past them all.
Level(u, t) ==
    IF Target(DayOf[u], t) > Len(Stages) THEN 5
    ELSE Rank(Stages[Target(DayOf[u], t)].period)

LEMMA LevelKnown ==
    ASSUME NEW u \in Units, NEW t
    PROVE  /\ Level(u, t) \in 1..5
           /\ Level(u, t) = 5 <=> Target(DayOf[u], t) > Len(Stages)
           /\ Level(u, t) # 5 => /\ Target(DayOf[u], t) \in 1..Len(Stages)
                                 /\ Level(u, t) \in 1..4
                                 /\ Level(u, t) = Rank(Stages[Target(DayOf[u], t)].period)
<1>1. PICK i \in 1..(Len(Stages) + 1) : i = Target(DayOf[u], t)
  BY TargetKnown
<1>2. i <= Len(Stages) => i \in 1..Len(Stages) /\ Rank(Stages[i].period) \in 1..4
  BY PeriodKnown
<1>3. Len(Stages) \in Nat
  BY PeriodKnown
<1>4. QED
  BY <1>1, <1>2, <1>3 DEF Level

LEMMA LevelInOrder ==
    ASSUME NEW u \in Units, NEW v \in Units, u <= v,
           NEW s \in Days, NEW t \in Days, s <= t
    PROVE  Level(v, s) <= Level(u, t)
<1>1. DayOf[u] \in Int /\ DayOf[v] \in Int /\ DayOf[u] <= DayOf[v]
  BY UnitOrder, UnitsInDayOrder
<1>2. PICK i \in 1..(Len(Stages) + 1), j \in 1..(Len(Stages) + 1) :
          i = Target(DayOf[v], s) /\ j = Target(DayOf[u], t) /\ i <= j
  BY <1>1, TargetKnown, TargetInOrder
<1>3. Level(v, s) \in 1..5 /\ Level(u, t) \in 1..5
  BY LevelKnown
<1>4. CASE j > Len(Stages)
  BY <1>2, <1>3, <1>4, LevelKnown
<1>5. CASE j <= Len(Stages)
  <2>1. i \in 1..Len(Stages) /\ j \in 1..Len(Stages)
    BY <1>2, <1>5, PeriodKnown
  <2>2. Rank(Stages[i].period) <= Rank(Stages[j].period)
    BY <1>2, <2>1, RankInOrder
  <2>3. Level(v, s) = Rank(Stages[i].period) /\ Level(u, t) = Rank(Stages[j].period)
    BY <1>2, <2>1, PeriodKnown DEF Level
  <2>4. QED
    BY <2>2, <2>3
<1>6. QED
  BY <1>2, <1>4, <1>5, PeriodKnown

LEMMA CompleteIsDone ==
    ASSUME NEW u \in Units, NEW t, Level(u, t) # 5
    PROVE  Complete(DayOf[u], Stages[Target(DayOf[u], t)].period, t) <=> Done(Level(u, t), u, t)
<1>1. Rank(Stages[Target(DayOf[u], t)].period) = Level(u, t)
  BY LevelKnown
<1>2. MonthOf(DayOf[u]) = Month[u] /\ YearOf(DayOf[u]) = Year[u]
  BY DEF Month, Year
<1>3. QED
  BY <1>1, <1>2 DEF Complete, Done

----------------------------------------------------------------------------
(* The newest of the buckets, complete or not.                                *)

Top(r, units) ==
    IF r = 1 THEN units
    ELSE IF r = 2 THEN NewestBy(units, Week)
    ELSE IF r = 3 THEN NewestBy(NewestBy(units, Week), Month)
    ELSE NewestBy(NewestBy(NewestBy(units, Week), Month), Year)

LEMMA Tops ==
    ASSUME NEW A
    PROVE  /\ Top(1, A) = A /\ Top(2, A) = NewestBy(Top(1, A), Week)
           /\ Top(3, A) = NewestBy(Top(2, A), Month)
           /\ Top(4, A) = NewestBy(Top(3, A), Year)
BY DEF Top

LEMMA NewestMeans ==
    ASSUME NEW A, NEW bucket, NEW u
    PROVE  u \in NewestBy(A, bucket) <=>
             /\ u \in A
             /\ \A v \in A : u < v /\ SeriesOf[v] = SeriesOf[u] => bucket[v] # bucket[u]
BY DEF NewestBy

LEMMA TopNested ==
    ASSUME NEW A, NEW r \in 1..4, NEW q \in 1..4, q <= r
    PROVE  Top(r, A) \subseteq Top(q, A) /\ Top(r, A) \subseteq A
<1>1. Top(2, A) \subseteq Top(1, A) /\ Top(3, A) \subseteq Top(2, A) /\ Top(4, A) \subseteq Top(3, A)
  BY Tops, NewestMeans
<1>2. Top(1, A) = A
  BY Tops
<1>3. QED
  BY <1>1, <1>2

LEMMA NewestOfFewer ==
    ASSUME NEW A, NEW B, B \subseteq A, NEW bucket
    PROVE  NewestBy(A, bucket) \cap B \subseteq NewestBy(B, bucket)
BY DEF NewestBy

Bounded(A) == A \subseteq Units /\ \E top \in Nat : A \subseteq 0..top

\* The newest of a unit's bucket.
LEMMA NewestExists ==
    ASSUME NEW A, Bounded(A), NEW bucket, NEW z \in A
    PROVE  \E w \in NewestBy(A, bucket) :
             z <= w /\ SeriesOf[w] = SeriesOf[z] /\ bucket[w] = bucket[z]
<1>1. PICK top \in Nat : A \subseteq 0..top
  BY DEF Bounded
<1> DEFINE T == {v \in A : SeriesOf[v] = SeriesOf[z] /\ bucket[v] = bucket[z]}
<1>2. T \in SUBSET (0..top) /\ z \in T
  BY <1>1
<1>3. PICK w \in T : \A v \in T : v <= w
  <2> HIDE DEF T
  <2>1. QED
    BY <1>2, GreatestOf
<1>4. \A v \in A : v \in Int
  BY <1>1
<1>5. ASSUME NEW v \in A, w < v, SeriesOf[v] = SeriesOf[w] PROVE bucket[v] # bucket[w]
  <2>1. w \in A /\ SeriesOf[w] = SeriesOf[z] /\ bucket[w] = bucket[z]
    BY <1>3
  <2>2. bucket[v] = bucket[w] => v \in T
    BY <1>5, <2>1
  <2>3. v \in T => v <= w
    BY <1>3
  <2>4. QED
    BY <1>4, <1>5, <2>1, <2>2, <2>3
<1>6. w \in NewestBy(A, bucket)
  BY <1>3, <1>5, NewestMeans
<1>7. QED
  BY <1>2, <1>3, <1>6

LEMMA BoundedPart ==
    ASSUME NEW A, Bounded(A), NEW B, B \subseteq A
    PROVE  Bounded(B)
BY DEF Bounded

\* Two sets agree on a unit where they agree on the newer units of its bucket.
LEMMA NewestSame ==
    ASSUME NEW A, NEW B, NEW bucket, NEW u \in A \cap B,
           \A v : u < v /\ SeriesOf[v] = SeriesOf[u] /\ bucket[v] = bucket[u] => (v \in A <=> v \in B)
    PROVE  u \in NewestBy(A, bucket) <=> u \in NewestBy(B, bucket)
BY DEF NewestBy

\* The policy asks for complete weeks before it looks at months, and for
\* complete months before years: in a complete bucket that is the same choice.
LEMMA EligibleIsTop ==
    ASSUME NEW A \in SUBSET Units, NEW u \in A, NEW t \in Int, NEW r \in 1..4
    PROVE  u \in Eligible(A, t)[Periods[r]] <=> Done(r, u, t) /\ u \in Top(r, A)
<1>1. \A v \in Units : v \in Weekly(A, t) <=> Done(2, v, t) /\ v \in Top(2, A)
  BY Tops, DoneIsOne DEF Weekly
<1>2. \A v \in Units : v \in Monthly(A, t) <=> Done(3, v, t) /\ v \in Top(3, A)
  <2> SUFFICES ASSUME NEW v \in Units
               PROVE  v \in Monthly(A, t) <=> Done(3, v, t) /\ v \in Top(3, A)
    OBVIOUS
  <2>1. v \in Monthly(A, t) <=> v \in NewestBy(Weekly(A, t), Month) /\ Done(3, v, t)
    BY DoneIsOne DEF Monthly
  <2>2. ASSUME Done(3, v, t), v \in Top(2, A)
        PROVE  v \in NewestBy(Weekly(A, t), Month) <=> v \in NewestBy(Top(2, A), Month)
    <3>1. ASSUME NEW x \in A, Month[x] = Month[v] PROVE x \in Weekly(A, t) <=> x \in Top(2, A)
      <4>1. Done(2, x, t)
        BY <2>2, <3>1, DoneAlike, DoneFewer
      <4>2. QED
        BY <1>1, <4>1
    <3>2. Weekly(A, t) \subseteq A /\ Top(2, A) \subseteq A
      BY TopNested, NewestMeans DEF Weekly
    <3>3. v \in Weekly(A, t)
      BY <2>2, <3>1, <3>2
    <3>4. QED
      BY <2>2, <3>1, <3>2, <3>3, NewestSame
  <2>3. Weekly(A, t) \subseteq Top(2, A)
    BY Tops DEF Weekly
  <2>4. QED
    BY <2>1, <2>2, <2>3, Tops, NewestMeans
<1>3. \A v \in Units : v \in Yearly(A, t) <=> Done(4, v, t) /\ v \in Top(4, A)
  <2> SUFFICES ASSUME NEW v \in Units
               PROVE  v \in Yearly(A, t) <=> Done(4, v, t) /\ v \in Top(4, A)
    OBVIOUS
  <2>1. v \in Yearly(A, t) <=> v \in NewestBy(Monthly(A, t), Year) /\ Done(4, v, t)
    BY DoneIsOne DEF Yearly
  <2>2. ASSUME Done(4, v, t), v \in Top(3, A)
        PROVE  v \in NewestBy(Monthly(A, t), Year) <=> v \in NewestBy(Top(3, A), Year)
    <3>1. ASSUME NEW x \in A, Year[x] = Year[v] PROVE x \in Monthly(A, t) <=> x \in Top(3, A)
      <4>1. Done(3, x, t)
        BY <2>2, <3>1, DoneAlike, DoneFewer
      <4>2. QED
        BY <1>2, <4>1
    <3>2. Top(3, A) \subseteq A /\ Monthly(A, t) \subseteq A
      BY TopNested, NewestMeans DEF Weekly, Monthly
    <3>3. v \in Monthly(A, t)
      BY <2>2, <3>1, <3>2
    <3>4. QED
      BY <2>2, <3>1, <3>2, <3>3, NewestSame
  <2>3. Monthly(A, t) \subseteq Top(3, A)
    <3>1. Monthly(A, t) \subseteq A
      BY NewestMeans DEF Weekly, Monthly
    <3>2. QED
      BY <1>2, <3>1
  <2>4. QED
    BY <2>1, <2>2, <2>3, Tops, NewestMeans
<1>4. /\ Eligible(A, t)[Periods[1]] = A /\ Eligible(A, t)[Periods[2]] = Weekly(A, t)
      /\ Eligible(A, t)[Periods[3]] = Monthly(A, t) /\ Eligible(A, t)[Periods[4]] = Yearly(A, t)
  BY DEF Eligible, Periods
<1>5. u \in Units
  OBVIOUS
<1>6. CASE r = 1
  BY <1>4, <1>6, Tops, DoneIsOne
<1>7. CASE r = 2
  BY <1>1, <1>4, <1>5, <1>7
<1>8. CASE r = 3
  BY <1>2, <1>4, <1>5, <1>8
<1>9. CASE r = 4
  BY <1>3, <1>4, <1>5, <1>9
<1>10. QED
  BY <1>6, <1>7, <1>8, <1>9

\* Passed by its bucket: complete, and another unit is the choice.
Lost(u, A, t) ==
    \/ Level(u, t) = 5
    \/ Level(u, t) # 5 /\ Done(Level(u, t), u, t) /\ u \notin Top(Level(u, t), A)

LEMMA ChosenMeans ==
    ASSUME NEW A \in SUBSET Units, NEW u \in A, NEW t \in Int, Level(u, t) # 5
    PROVE  u \in Eligible(A, t)[Stages[Target(DayOf[u], t)].period] <=>
             Done(Level(u, t), u, t) /\ u \in Top(Level(u, t), A)
<1>1. PICK i \in 1..Len(Stages), r \in 1..4 :
          /\ i = Target(DayOf[u], t) /\ r = Level(u, t)
          /\ r = Rank(Stages[i].period) /\ Stages[i].period = Periods[r]
  BY LevelKnown, PeriodKnown
<1>2. QED
  BY <1>1, EligibleIsTop

LEMMA DeletedMeans ==
    ASSUME NEW A \in SUBSET Units, NEW u, NEW t \in Int
    PROVE  u \in Deleted(A, t) <=> u \in Older(A) /\ Lost(u, A, t)
<1>1. Older(A) \subseteq A /\ Deleted(A, t) \subseteq Older(A)
  BY DEF Older, Deleted, Expired, Passed
<1>2. SUFFICES ASSUME u \in Older(A) PROVE u \in Deleted(A, t) <=> Lost(u, A, t)
  BY <1>1
<1>3. u \in A /\ u \in Units
  BY <1>1, <1>2
<1>4. Target(DayOf[u], t) \in Int /\ Len(Stages) \in Int
  BY TargetKnown, PeriodKnown
<1>5. CASE Level(u, t) = 5
  BY <1>2, <1>3, <1>5, LevelKnown DEF Deleted, Expired, Lost
<1>6. CASE Level(u, t) # 5
  <2>1. u \notin Expired(A, t)
    BY <1>3, <1>6, LevelKnown DEF Expired
  <2>2. Targets(A, t)[u] = Target(DayOf[u], t)
    BY <1>3 DEF Targets
  <2>3. u \in Passed(A, t) <=>
          /\ Complete(DayOf[u], Stages[Target(DayOf[u], t)].period, t)
          /\ u \notin Eligible(A, t)[Stages[Target(DayOf[u], t)].period]
    BY <1>2, <2>1, <2>2 DEF Passed
  <2>4. QED
    BY <1>3, <1>6, <2>1, <2>3, ChosenMeans, CompleteIsDone DEF Deleted, Lost
<1>7. QED
  BY <1>5, <1>6

\* A unit that moves is its bucket's choice.
LEMMA MovedMeans ==
    ASSUME NEW A \in SUBSET Units, NEW where, NEW u, NEW t \in Int
    PROVE  u \in Moved(A, where, t) <=>
             /\ u \in Older(A) /\ Level(u, t) # 5 /\ Target(DayOf[u], t) > where[u]
             /\ Done(Level(u, t), u, t) /\ u \in Top(Level(u, t), A)
<1>1. Older(A) \subseteq A /\ Moved(A, where, t) \subseteq Older(A)
  BY DEF Older, Moved
<1>2. SUFFICES ASSUME u \in Older(A)
               PROVE  u \in Moved(A, where, t) <=>
                        /\ Level(u, t) # 5 /\ Target(DayOf[u], t) > where[u]
                        /\ Done(Level(u, t), u, t) /\ u \in Top(Level(u, t), A)
  BY <1>1
<1>3. u \in Units
  BY <1>1, <1>2
<1>4. u \in Moved(A, where, t) <=>
        /\ ~Lost(u, A, t) /\ Target(DayOf[u], t) > where[u]
        /\ Complete(DayOf[u], Stages[Target(DayOf[u], t)].period, t)
  BY <1>2, DeletedMeans DEF Moved
<1>5. QED
  BY <1>3, <1>4, CompleteIsDone DEF Lost

----------------------------------------------------------------------------
(* What a run may leave and still choose alike.                               *)

\* The newest of a week may go before an older unit of it does: its month is
\* complete and chose another, while the older one waits for its year.  Then
\* both are of one year.
Stragglers(units, left, t) ==
    \A z \in Top(2, units) \ left, x \in left :
        /\ SeriesOf[x] = SeriesOf[z] /\ x < z /\ Week[x] = Week[z]
        => Level(x, t) >= 4 /\ Year[x] = Year[z]

LEMMA Ordered ==
    ASSUME NEW u \in Units, NEW v \in Units
    PROVE  u \in Int /\ v \in Int /\ (u < v \/ v < u \/ u = v)
BY UnitsInDayOrder

\* What is left agrees with everything on the winners that are left.
LEMMA StillTop ==
    ASSUME NEW A, Bounded(A), NEW B, B \subseteq A, NEW t \in Days,
           Stragglers(A, B, t), NEW u \in B, NEW r \in 1..4,
           r = 4 \/ Level(u, t) <= 3, u \in Top(r, A)
    PROVE  u \in Top(r, B)
<1>1. A \subseteq Units
  BY DEF Bounded
<1>2. CASE r = 1
  BY <1>2, Tops
<1>3. u \in Top(2, A) => u \in Top(2, B)
  BY Tops, NewestOfFewer
<1>4. ASSUME NEW x \in Top(2, B), x \notin Top(2, A)
      PROVE  Level(x, t) >= 4 /\ \E w \in Top(3, A) : x <= w /\ SeriesOf[w] = SeriesOf[x] /\ Year[w] = Year[x]
  <2>1. x \in B /\ x \in A /\ x \in Units
    BY <1>1, <1>4, Tops, NewestMeans
  <2>2. PICK z \in Top(2, A) : x <= z /\ SeriesOf[z] = SeriesOf[x] /\ Week[z] = Week[x]
    BY <2>1, NewestExists, Tops
  <2>3. z \in A /\ z \in Units /\ x < z
    BY <1>1, <1>4, <2>1, <2>2, TopNested, Ordered
  <2>4. z \notin B
    BY <1>4, <2>2, <2>3, Tops, NewestMeans
  <2>5. Level(x, t) >= 4 /\ Year[x] = Year[z]
    BY <2>1, <2>2, <2>3, <2>4 DEF Stragglers
  <2>6. Bounded(Top(2, A))
    BY TopNested, BoundedPart
  <2>7. PICK w \in Top(3, A) : z <= w /\ SeriesOf[w] = SeriesOf[z] /\ Month[w] = Month[z]
    BY <2>6, NewestExists, Tops
  <2>8. w \in Units /\ Year[w] = Year[z]
    BY <1>1, <2>3, <2>7, TopNested, SameMonthSameYear
  <2>9. x <= w
    BY <2>1, <2>3, <2>7, <2>8, UnitsInDayOrder
  <2>10. QED
    BY <2>2, <2>5, <2>7, <2>8, <2>9
<1>5. u \in Units /\ u \in A
  BY <1>1
<1>6. CASE r = 2
  BY <1>3, <1>6
<1>7. CASE r = 3
  <2>1. u \in Top(2, B)
    BY <1>3, <1>7, TopNested
  <2>2. ASSUME NEW x \in Top(2, B), u < x, SeriesOf[x] = SeriesOf[u], Month[x] = Month[u] PROVE FALSE
    <3>1. x \in Units
      BY <1>1, TopNested
    <3>2. Level(x, t) <= Level(u, t) /\ Level(x, t) \in 1..5 /\ Level(u, t) \in 1..5
      BY <1>5, <2>2, <3>1, LevelInOrder, LevelKnown, Ordered, DaysAreInts
    <3>3. x \in Top(2, A)
      BY <1>4, <1>7, <3>2
    <3>4. QED
      BY <1>7, <2>2, <3>3, Tops, NewestMeans
  <2>3. QED
    BY <1>7, <2>1, <2>2, Tops, NewestMeans
<1>8. CASE r = 4
  <2>1. u \in Top(2, B) /\ u \in Top(3, A)
    BY <1>3, <1>8, TopNested
  <2>2. ASSUME NEW x \in Top(2, B), u < x, SeriesOf[x] = SeriesOf[u], Year[x] = Year[u] PROVE FALSE
    <3>1. x \in Units
      BY <1>1, TopNested
    <3>2. \E w \in Top(3, A) : x <= w /\ SeriesOf[w] = SeriesOf[x] /\ Year[w] = Year[x]
      <4>1. CASE x \notin Top(2, A)
        BY <1>4, <4>1
      <4>2. CASE x \in Top(2, A)
        <5>1. Bounded(Top(2, A))
          BY TopNested, BoundedPart
        <5>2. PICK w \in Top(3, A) : x <= w /\ SeriesOf[w] = SeriesOf[x] /\ Month[w] = Month[x]
          BY <4>2, <5>1, NewestExists, Tops
        <5>3. w \in Units
          BY <1>1, TopNested
        <5>4. Year[w] = Year[x]
          BY <3>1, <5>2, <5>3, SameMonthSameYear
        <5>5. QED
          BY <5>2, <5>4
      <4>3. QED
        BY <4>1, <4>2
    <3>3. PICK w \in Top(3, A) : x <= w /\ SeriesOf[w] = SeriesOf[x] /\ Year[w] = Year[x]
      BY <3>2
    <3>4. w \in Units /\ u < w
      BY <1>1, <1>5, <2>2, <3>1, <3>3, TopNested, UnitsInDayOrder
    <3>5. QED
      BY <1>8, <2>2, <3>3, <3>4, Tops, NewestMeans
  <2>3. u \in Top(3, B)
    <3>1. ASSUME NEW x \in Top(2, B), u < x, SeriesOf[x] = SeriesOf[u] PROVE Month[x] # Month[u]
      <4>1. x \in Units
        BY <1>1, TopNested
      <4>2. Month[x] = Month[u] => Year[x] = Year[u]
        BY <1>5, <4>1, SameMonthSameYear
      <4>3. QED
        BY <2>2, <3>1, <4>2
    <3>2. QED
      BY <2>1, <3>1, Tops, NewestMeans
  <2>4. Top(3, B) \subseteq Top(2, B)
    BY TopNested
  <2>5. QED
    BY <1>8, <2>2, <2>3, <2>4, Tops, NewestMeans
<1>9. QED
  BY <1>2, <1>6, <1>7, <1>8

\* One run leaves no other stragglers.
LEMMA RunLeavesStragglers ==
    ASSUME NEW A, A \subseteq Units, NEW t \in Days
    PROVE  Stragglers(A, A \ Deleted(A, t), t)
<1> DEFINE B == A \ Deleted(A, t)
<1> SUFFICES ASSUME NEW z \in Top(2, A) \ B, NEW x \in B,
                    SeriesOf[x] = SeriesOf[z], x < z, Week[x] = Week[z]
             PROVE  Level(x, t) >= 4 /\ Year[x] = Year[z]
  BY DEF Stragglers
<1>1. z \in A /\ z \in Units /\ x \in A /\ x \in Units /\ t \in Int /\ x <= z
  <2>1. z \in A /\ x \in A
    BY TopNested
  <2>2. z \in Units /\ x \in Units
    BY <2>1
  <2>3. z \in Int /\ x \in Int /\ t \in Int
    BY <2>2, Ordered, DaysAreInts
  <2>4. QED
    BY <2>1, <2>2, <2>3
<1>2. x \in Older(A) /\ ~Lost(x, A, t)
  <2>1. x \in Older(A)
    BY <1>1 DEF Older
  <2>2. QED
    BY <1>1, <2>1, DeletedMeans
<1>3. Lost(z, A, t)
  BY <1>1, DeletedMeans
<1>4. x \notin Top(2, A)
  BY <1>1, Tops, NewestMeans
<1>5. PICK p \in 1..5, q \in 1..5 : p = Level(z, t) /\ q = Level(x, t) /\ p <= q
  BY <1>1, LevelInOrder, LevelKnown
<1>6. q # 5
  BY <1>2, <1>5 DEF Lost
<1>7. p \in 1..4 /\ q \in 1..4 /\ Done(p, z, t) /\ z \notin Top(p, A)
  BY <1>3, <1>5, <1>6 DEF Lost
<1>8. p \in 3..4
  BY <1>1, <1>7, TopNested, Tops
<1>9. x \notin Top(q, A)
  BY <1>4, <1>5, <1>7, <1>8, TopNested
<1>10. ~Done(q, x, t)
  BY <1>2, <1>5, <1>6, <1>9 DEF Lost
<1>11. Done(p, x, t)
  BY <1>1, <1>7, DoneBefore
<1>12. p = 3 /\ q = 4
  BY <1>5, <1>7, <1>8, <1>10, <1>11
<1>13. ~(Year[x] < Year[z])
  BY <1>1, <1>7, <1>10, <1>12, YearBefore
<1>14. Year[x] \in Int /\ Year[z] \in Int /\ Year[x] <= Year[z]
  BY <1>1, UnitOrder, Ordered
<1>15. QED
  BY <1>5, <1>12, <1>13, <1>14

----------------------------------------------------------------------------
(* A second run.                                                              *)

LEMMA StillLost ==
    ASSUME NEW A, Bounded(A), NEW B, B \subseteq A, NEW t \in Days,
           Stragglers(A, B, t), NEW u \in B, Lost(u, B, t)
    PROVE  Lost(u, A, t)
<1>1. u \in Units
  BY DEF Bounded
<1>2. Level(u, t) \in 1..5
  BY <1>1, LevelKnown
<1>3. CASE Level(u, t) = 5
  BY <1>3 DEF Lost
<1>4. CASE Level(u, t) \in 1..4
  BY <1>4, StillTop DEF Lost
<1>5. QED
  BY <1>2, <1>3, <1>4

LEMMA NothingTwice ==
    ASSUME NEW A, Bounded(A), NEW where \in [Units -> 0..Len(Stages)], NEW t \in Days,
           NEW B, B = A \ Deleted(A, t), NEW moved, moved = Moved(A, where, t),
           NEW now, \A u \in B : now[u] = IF u \in moved THEN Target(DayOf[u], t) ELSE where[u]
    PROVE  Deleted(B, t) = {} /\ Moved(B, now, t) = {}
<1>1. A \subseteq Units /\ A \in SUBSET Units /\ B \in SUBSET Units /\ B \subseteq A /\ t \in Int
  BY DaysAreInts DEF Bounded
<1>2. Stragglers(A, B, t)
  BY <1>1, RunLeavesStragglers
<1>3. \A u \in Older(B) : u \in B /\ u \in Older(A)
  BY <1>1 DEF Older
<1>4. ASSUME NEW u \in Deleted(B, t) PROVE FALSE
  <2>1. u \in Older(B) /\ Lost(u, B, t)
    BY <1>1, DeletedMeans
  <2>2. u \in B /\ u \in Older(A)
    BY <1>3, <2>1
  <2>3. Lost(u, A, t)
    BY <1>1, <1>2, <2>1, <2>2, StillLost
  <2>4. QED
    BY <1>1, <2>2, <2>3, DeletedMeans
<1>5. ASSUME NEW u \in Moved(B, now, t) PROVE FALSE
  <2>1. /\ u \in Older(B) /\ Level(u, t) # 5 /\ Target(DayOf[u], t) > now[u]
        /\ Done(Level(u, t), u, t) /\ u \in Top(Level(u, t), B)
    BY <1>1, MovedMeans
  <2>2. u \in B /\ u \in Older(A) /\ u \in Units
    BY <1>1, <1>3, <2>1
  <2>3. ~Lost(u, A, t)
    BY <1>1, <2>2, DeletedMeans
  <2>4. u \in Top(Level(u, t), A)
    BY <2>1, <2>3 DEF Lost
  <2>5. Target(DayOf[u], t) \in Int /\ where[u] \in Int
    BY <2>2, TargetKnown, PeriodKnown
  <2>6. u \notin moved
    BY <2>1, <2>2, <2>5
  <2>7. Target(DayOf[u], t) > where[u]
    BY <2>1, <2>2, <2>6
  <2>8. QED
    BY <1>1, <2>1, <2>2, <2>4, <2>6, <2>7, MovedMeans
<1>6. QED
  BY <1>4, <1>5

----------------------------------------------------------------------------
(* What is gone.                                                              *)

\* Not the newest of its series; past every age, or passed over by a complete
\* bucket it has been judged by.
Excused(z, units, t) ==
    /\ z \in Older(units)
    /\ \/ Level(z, t) = 5
       \/ \E q \in 1..4 : q <= Level(z, t) /\ Done(q, z, t) /\ z \notin Top(q, units)

LEMMA LostIsExcused ==
    ASSUME NEW A \in SUBSET Units, NEW z \in Older(A), NEW t, Lost(z, A, t)
    PROVE  Excused(z, A, t)
<1>1. z \in Units
  BY DEF Older
<1>2. Level(z, t) \in 1..5
  BY <1>1, LevelKnown
<1>3. QED
  BY <1>2 DEF Lost, Excused

LEMMA ExcusedLater ==
    ASSUME NEW A \in SUBSET Units, NEW z, NEW s \in Days, NEW t \in Days, s <= t,
           Excused(z, A, s)
    PROVE  Excused(z, A, t)
<1>1. z \in Units /\ z \in Older(A) /\ s \in Int /\ t \in Int /\ z <= z
  BY DaysAreInts, Ordered DEF Excused, Older
<1>2. Level(z, s) \in 1..5 /\ Level(z, t) \in 1..5 /\ Level(z, s) <= Level(z, t)
  BY <1>1, LevelKnown, LevelInOrder
<1>3. \A q \in 1..4 : Done(q, z, s) => Done(q, z, t)
  BY <1>1, DoneBefore
<1>4. QED
  BY <1>1, <1>2, <1>3 DEF Excused

\* What is left chooses as everything ever backed up would.
LEMMA TopOfAll ==
    ASSUME NEW A, Bounded(A), NEW B, B \subseteq A, NEW t \in Days,
           Stragglers(A, B, t), \A z \in A \ B : Excused(z, A, t),
           NEW u \in B, Level(u, t) # 5, u \in Top(Level(u, t), B)
    PROVE  u \in Top(Level(u, t), A)
<1>1. A \subseteq Units /\ u \in Units /\ u \in A
  BY DEF Bounded
<1>2. PICK r \in 1..4 : r = Level(u, t)
  BY <1>1, LevelKnown
<1>3. ASSUME NEW y \in Top(r, A), u <= y PROVE y \in B
  <2>1. y \in A /\ y \in Units
    BY <1>1, TopNested
  <2>2. SUFFICES ASSUME Excused(y, A, t) PROVE FALSE
    BY <2>1
  <2>3. Level(y, t) \in 1..5 /\ Level(y, t) <= r
    BY <1>1, <1>2, <1>3, <2>1, LevelInOrder, LevelKnown, DaysAreInts
  <2>4. PICK q \in 1..4 : q <= r /\ y \notin Top(q, A)
    BY <2>2, <2>3 DEF Excused
  <2>5. QED
    BY <1>3, <2>4, TopNested
<1>4. CASE r = 1
  BY <1>1, <1>2, <1>4, Tops
<1>5. ASSUME r \in 2..4 PROVE u \in Top(2, B)
  BY <1>2, <1>5, TopNested
<1>6. PICK z \in Top(2, A) : u <= z /\ SeriesOf[z] = SeriesOf[u] /\ Week[z] = Week[u]
  BY <1>1, NewestExists, Tops
<1>7. z \in A /\ z \in Units
  BY <1>1, TopNested
<1>8. ASSUME r \in 2..4 PROVE z = u \/ (r = 4 /\ Year[z] = Year[u])
  <2>1. SUFFICES ASSUME z # u PROVE r = 4 /\ Year[z] = Year[u]
    OBVIOUS
  <2>2. u < z
    BY <1>1, <1>6, <1>7, <2>1, Ordered
  <2>3. z \notin B
    BY <1>5, <1>6, <1>8, <2>2, Tops, NewestMeans
  <2>4. Level(u, t) >= 4 /\ Year[u] = Year[z]
    BY <1>6, <2>2, <2>3 DEF Stragglers
  <2>5. QED
    BY <1>2, <2>4
<1>9. CASE r = 2
  BY <1>2, <1>8, <1>9
<1>10. Bounded(Top(2, A)) /\ Bounded(Top(3, A))
  BY TopNested, BoundedPart
<1>11. PICK m \in Top(3, A) : z <= m /\ SeriesOf[m] = SeriesOf[z] /\ Month[m] = Month[z]
  BY <1>10, NewestExists, Tops
<1>12. m \in A /\ m \in Units /\ m \in Top(2, A)
  BY <1>1, TopNested
<1>13. u <= m /\ SeriesOf[m] = SeriesOf[u]
  <2>1. u \in Int /\ z \in Int /\ m \in Int
    BY <1>1, <1>7, <1>12, Ordered
  <2>2. QED
    BY <1>6, <1>11, <2>1
<1>14. CASE r = 3
  <2>1. z = u
    BY <1>8, <1>14
  <2>2. m \in B
    BY <1>3, <1>13, <1>14
  <2>3. m \in Top(2, B)
    BY <1>12, <2>2, Tops, NewestOfFewer
  <2>4. u \in Top(3, B)
    BY <1>2, <1>14
  <2>5. ~(u < m)
    BY <1>11, <1>13, <2>1, <2>3, <2>4, Tops, NewestMeans
  <2>6. u = m
    BY <1>1, <1>12, <1>13, <2>5, Ordered
  <2>7. QED
    BY <1>2, <1>14, <2>6
<1>15. CASE r = 4
  <2>1. Year[m] = Year[u]
    BY <1>7, <1>8, <1>11, <1>12, <1>15, SameMonthSameYear
  <2>2. PICK y \in Top(4, A) : m <= y /\ SeriesOf[y] = SeriesOf[m] /\ Year[y] = Year[m]
    BY <1>10, NewestExists, Tops
  <2>3. y \in Units
    BY <1>1, TopNested
  <2>4. u <= y
    <3>1. u \in Int /\ m \in Int /\ y \in Int
      BY <1>1, <1>12, <2>3, Ordered
    <3>2. QED
      BY <1>13, <2>2, <3>1
  <2>5. y \in B
    BY <1>3, <1>15, <2>4
  <2>6. y \in Top(4, B)
    BY <1>15, <2>5, StillTop
  <2>7. y \in Top(3, B)
    BY <2>6, TopNested
  <2>8. u \in Top(4, B)
    BY <1>2, <1>15
  <2>9. ~(u < y)
    BY <1>13, <2>1, <2>2, <2>7, <2>8, Tops, NewestMeans
  <2>10. u = y
    BY <1>1, <2>3, <2>4, <2>9, Ordered
  <2>11. QED
    BY <1>2, <1>15, <2>10
<1>16. QED
  BY <1>4, <1>9, <1>14, <1>15

\* A new unit changes no choice of a complete bucket.
LEMMA TopUnchanged ==
    ASSUME NEW A \in SUBSET Units, NEW n \in Units, NEW t \in Int, DayOf[n] = t,
           NEW u \in A, NEW r \in 1..4, Done(r, u, t)
    PROVE  u \in Top(r, A) <=> u \in Top(r, A \cup {n})
<1> DEFINE C == A \cup {n}
<1>1. Top(1, A) = A /\ Top(1, C) = C
  BY Tops
<1>2. \A v \in A : Done(2, v, t) => (v \in Top(2, A) <=> v \in Top(2, C))
  <2> SUFFICES ASSUME NEW v \in A, Done(2, v, t) PROVE v \in Top(2, A) <=> v \in Top(2, C)
    OBVIOUS
  <2>1. Week[v] # Week[n]
    BY NewUnit
  <2>2. QED
    BY <1>1, <2>1, NewestSame, Tops
<1>3. \A v \in A : Done(3, v, t) => (v \in Top(3, A) <=> v \in Top(3, C))
  <2> SUFFICES ASSUME NEW v \in A, Done(3, v, t) PROVE v \in Top(3, A) <=> v \in Top(3, C)
    OBVIOUS
  <2>1. \A x \in C : Month[x] = Month[v] => (x \in Top(2, A) <=> x \in Top(2, C))
    <3> SUFFICES ASSUME NEW x \in C, Month[x] = Month[v]
                 PROVE  x \in Top(2, A) <=> x \in Top(2, C)
      OBVIOUS
    <3>1. x \in Units /\ Done(3, x, t)
      BY DoneAlike
    <3>2. x # n
      BY <3>1, NewUnit
    <3>3. Done(2, x, t)
      BY <3>1, DoneFewer
    <3>4. QED
      BY <1>2, <3>2, <3>3
  <2>2. Top(2, A) \subseteq C /\ Top(2, C) \subseteq C
    BY TopNested
  <2>3. v \in Top(2, A) <=> v \in Top(2, C)
    BY <2>1
  <2>4. v \in Top(3, A) => v \in Top(2, A)
    BY TopNested
  <2>5. v \in Top(3, C) => v \in Top(2, C)
    BY TopNested
  <2>6. v \in Top(2, A) \cap Top(2, C) =>
            (v \in NewestBy(Top(2, A), Month) <=> v \in NewestBy(Top(2, C), Month))
    BY <2>1, <2>2, NewestSame
  <2>7. QED
    BY <2>3, <2>4, <2>5, <2>6, Tops
<1>4. \A v \in A : Done(4, v, t) => (v \in Top(4, A) <=> v \in Top(4, C))
  <2> SUFFICES ASSUME NEW v \in A, Done(4, v, t) PROVE v \in Top(4, A) <=> v \in Top(4, C)
    OBVIOUS
  <2>1. \A x \in C : Year[x] = Year[v] => (x \in Top(3, A) <=> x \in Top(3, C))
    <3> SUFFICES ASSUME NEW x \in C, Year[x] = Year[v]
                 PROVE  x \in Top(3, A) <=> x \in Top(3, C)
      OBVIOUS
    <3>1. x \in Units /\ Done(4, x, t)
      BY DoneAlike
    <3>2. x # n
      BY <3>1, NewUnit
    <3>3. Done(3, x, t)
      BY <3>1, DoneFewer
    <3>4. QED
      BY <1>3, <3>2, <3>3
  <2>2. Top(3, A) \subseteq C /\ Top(3, C) \subseteq C
    BY TopNested
  <2>3. v \in Top(3, A) <=> v \in Top(3, C)
    BY <2>1
  <2>4. v \in Top(4, A) => v \in Top(3, A)
    BY TopNested
  <2>5. v \in Top(4, C) => v \in Top(3, C)
    BY TopNested
  <2>6. v \in Top(3, A) \cap Top(3, C) =>
            (v \in NewestBy(Top(3, A), Year) <=> v \in NewestBy(Top(3, C), Year))
    BY <2>1, <2>2, NewestSame
  <2>7. QED
    BY <2>3, <2>4, <2>5, <2>6, Tops
<1>5. QED
  BY <1>1, <1>2, <1>3, <1>4

----------------------------------------------------------------------------
(* Years of runs.                                                             *)

RetTypeOK ==
    /\ today \in Days /\ tries \in Nat /\ ran \in BOOLEAN
    /\ Bounded(made)
    /\ stage \in [Units -> 0..Len(Stages)]
    /\ Live \subseteq made /\ picked \subseteq made

GoneIsExcused == \A z \in made \ Live : Excused(z, made, today)

\* What a stage took as its choice is its bucket's newest of all ever made.
PickedIsTop ==
    \A u \in picked \cap Live :
        LET r == Rank(Stages[stage[u]].period)
        IN  Done(r, u, today) /\ u \in Top(r, made)

RetInv ==
    /\ RetTypeOK
    /\ SecondRunIdle
    /\ tries = 0 => GoneIsExcused /\ Stragglers(made, Live, today) /\ PickedIsTop

LEMMA RetInit ==
    ASSUME Init
    PROVE  RetInv
<1>1. today \in Days /\ made = {} /\ picked = {} /\ ran = FALSE /\ tries = 0
  BY ClockCoversUnits DEF Init
<1>2. stage \in [Units -> 0..Len(Stages)] /\ Live = {}
  BY PeriodKnown DEF Init, Live
<1>3. Bounded(made)
  BY <1>1 DEF Bounded
<1>4. GoneIsExcused /\ Stragglers(made, Live, today) /\ PickedIsTop
  BY <1>1, <1>2 DEF GoneIsExcused, Stragglers, PickedIsTop
<1>5. QED
  BY <1>1, <1>2, <1>3, <1>4 DEF RetInv, RetTypeOK, SecondRunIdle

LEMMA RetNextDay ==
    ASSUME RetInv, NextDay
    PROVE  RetInv'
<1>1. /\ today \in Days /\ today' \in Days /\ today \in Int /\ today' \in Int /\ today <= today'
      /\ made' = made /\ stage' = stage /\ picked' = picked /\ tries' = tries /\ ran' = FALSE
  BY ClockCoversUnits, DaysAreInts DEF RetInv, RetTypeOK, NextDay
<1>2. Live' = Live
  BY <1>1 DEF Live
<1>3. RetTypeOK'
  BY <1>1, <1>2 DEF RetInv, RetTypeOK
<1>4. made \subseteq Units /\ made \in SUBSET Units /\ Live \subseteq made /\ picked \subseteq made
      /\ stage \in [Units -> 0..Len(Stages)]
  BY DEF RetInv, RetTypeOK, Bounded
<1>5. ASSUME tries = 0 PROVE GoneIsExcused'
  <2>1. \A z \in made \ Live : Excused(z, made, today)
    BY <1>5 DEF RetInv, GoneIsExcused
  <2>2. \A z \in made \ Live : Excused(z, made, today')
    BY <1>1, <1>4, <2>1, ExcusedLater
  <2>3. QED
    BY <1>1, <1>2, <2>2 DEF GoneIsExcused
<1>6. ASSUME tries = 0 PROVE Stragglers(made, Live, today')
  <2>1. Stragglers(made, Live, today)
    BY <1>6 DEF RetInv
  <2>2. ASSUME NEW x \in Live, Level(x, today) >= 4 PROVE Level(x, today') >= 4
    <3>1. x \in Units /\ x <= x
      BY <1>4, Ordered
    <3>2. Level(x, today) \in 1..5 /\ Level(x, today') \in 1..5 /\ Level(x, today) <= Level(x, today')
      BY <1>1, <3>1, LevelKnown, LevelInOrder
    <3>3. QED
      BY <2>2, <3>2
  <2>3. QED
    BY <2>1, <2>2 DEF Stragglers
<1>7. ASSUME tries = 0 PROVE PickedIsTop'
  <2> SUFFICES ASSUME NEW u \in picked \cap Live
               PROVE  /\ Done(Rank(Stages[stage[u]].period), u, today')
                      /\ u \in Top(Rank(Stages[stage[u]].period), made)
    BY <1>1, <1>2 DEF PickedIsTop
  <2>1. Done(Rank(Stages[stage[u]].period), u, today) /\ u \in Top(Rank(Stages[stage[u]].period), made)
    BY <1>7 DEF RetInv, PickedIsTop
  <2>2. u \in Units /\ u <= u /\ stage[u] \in 1..Len(Stages)
    BY <1>4, Ordered, PeriodKnown DEF Live
  <2>3. PICK r \in 1..4 : r = Rank(Stages[stage[u]].period)
    BY <2>2, PeriodKnown
  <2>4. Done(r, u, today')
    BY <1>1, <2>1, <2>2, <2>3, DoneBefore
  <2>5. QED
    BY <2>1, <2>3, <2>4
<1>8. QED
  BY <1>1, <1>2, <1>3, <1>5, <1>6, <1>7 DEF RetInv, SecondRunIdle

LEMMA RetBackUp ==
    ASSUME RetInv, NEW n \in Units, BackUp(n)
    PROVE  RetInv'
<1>1. /\ today \in Days /\ today \in Int /\ DayOf[n] = today /\ today' = today
      /\ n \notin made /\ \A v \in made : v < n
      /\ made' = made \cup {n} /\ stage' = [stage EXCEPT ![n] = 1]
      /\ picked' = picked /\ tries' = tries /\ ran' = FALSE
  BY DaysAreInts DEF RetInv, RetTypeOK, BackUp
<1>2. made \subseteq Units /\ made \in SUBSET Units /\ Live \subseteq made /\ picked \subseteq made
      /\ stage \in [Units -> 0..Len(Stages)]
  BY DEF RetInv, RetTypeOK, Bounded
<1>3. \A v \in Units : stage'[v] = IF v = n THEN 1 ELSE stage[v]
  BY <1>1, <1>2
<1>4. Live' = Live \cup {n}
  BY <1>3 DEF Live
<1>5. RetTypeOK'
  <2>1. Bounded(made')
    <3>1. n \in Nat /\ made' \subseteq 0..n
      BY <1>1, <1>2, UnitsInDayOrder
    <3>2. QED
      BY <1>1, <1>2, <3>1 DEF Bounded
  <2>2. stage' \in [Units -> 0..Len(Stages)]
    BY <1>1, <1>2, PeriodKnown
  <2>3. QED
    BY <1>1, <1>2, <1>4, <2>1, <2>2 DEF RetInv, RetTypeOK
<1>6. ASSUME tries = 0 PROVE GoneIsExcused'
  <2>1. ASSUME NEW z \in made \ Live PROVE Excused(z, made', today)
    <3>1. Excused(z, made, today)
      BY <1>6 DEF RetInv, GoneIsExcused
    <3>2. z \in Older(made')
      BY <1>1, <1>2, <3>1 DEF Excused, Older
    <3>3. \A q \in 1..4 : Done(q, z, today) => (z \in Top(q, made) <=> z \in Top(q, made'))
      BY <1>1, <1>2, TopUnchanged
    <3>4. QED
      BY <3>1, <3>2, <3>3 DEF Excused
  <2>2. made' \ Live' \subseteq made \ Live
    BY <1>1, <1>4
  <2>3. QED
    BY <1>1, <2>1, <2>2 DEF GoneIsExcused
<1>7. ASSUME tries = 0 PROVE Stragglers(made', Live', today)
  <2> SUFFICES ASSUME NEW z \in Top(2, made') \ Live', NEW x \in Live',
                      SeriesOf[x] = SeriesOf[z], x < z, Week[x] = Week[z]
               PROVE  Level(x, today) >= 4 /\ Year[x] = Year[z]
    BY DEF Stragglers
  <2>1. z \in made' /\ z # n /\ z \in made
    BY <1>1, <1>4, TopNested
  <2>2. z \in Top(2, made) \ Live
    BY <1>1, <1>4, <2>1, Tops, NewestOfFewer
  <2>3. x # n
    <3>1. z < n /\ z \in Int /\ n \in Int
      BY <1>1, <1>2, <2>1, Ordered
    <3>2. QED
      BY <3>1
  <2>4. x \in Live
    BY <1>4, <2>3
  <2>5. QED
    BY <1>7, <2>2, <2>4 DEF RetInv, Stragglers
<1>8. ASSUME tries = 0 PROVE PickedIsTop'
  <2> SUFFICES ASSUME NEW u \in picked \cap Live'
               PROVE  /\ Done(Rank(Stages[stage'[u]].period), u, today)
                      /\ u \in Top(Rank(Stages[stage'[u]].period), made')
    BY <1>1 DEF PickedIsTop
  <2>1. u \in made /\ u # n /\ u \in Live /\ stage'[u] = stage[u] /\ u \in Units
    BY <1>1, <1>2, <1>3, <1>4
  <2>2. Done(Rank(Stages[stage[u]].period), u, today) /\ u \in Top(Rank(Stages[stage[u]].period), made)
    BY <1>8, <2>1 DEF RetInv, PickedIsTop
  <2>3. stage[u] \in 1..Len(Stages)
    BY <1>2, <2>1, PeriodKnown DEF Live
  <2>4. PICK r \in 1..4 : r = Rank(Stages[stage[u]].period)
    BY <2>3, PeriodKnown
  <2>5. u \in Top(r, made')
    BY <1>1, <1>2, <2>1, <2>2, <2>4, TopUnchanged
  <2>6. QED
    BY <2>1, <2>2, <2>4, <2>5
<1>9. QED
  BY <1>1, <1>5, <1>6, <1>7, <1>8 DEF RetInv, SecondRunIdle

\* What a run does to what is placed.
LEMMA RunEffects ==
    ASSUME RetTypeOK, NEW placed \in SUBSET Live, NEW undone, RunPass(placed, undone)
    PROVE  /\ today' = today /\ made' = made
           /\ Live' = Live \ (Deleted(placed, today) \ undone)
           /\ stage' \in [Units -> 0..Len(Stages)]
           /\ \A u \in Live' :
                 stage'[u] = IF u \in Moved(placed, stage, today) \ undone
                             THEN Target(DayOf[u], today) ELSE stage[u]
           /\ \A u \in picked' : \/ u \in picked
                                 \/ u \in Moved(placed, stage, today) \ undone
           /\ picked' \subseteq made
<1> DEFINE del == Deleted(placed, today) \ undone
<1> DEFINE mov == Moved(placed, stage, today) \ undone
<1>1. /\ made \subseteq Units /\ Live \subseteq made /\ stage \in [Units -> 0..Len(Stages)]
      /\ today \in Int /\ placed \in SUBSET Units /\ picked \subseteq made
  BY DaysAreInts DEF RetTypeOK, Bounded
<1>2. \A u \in mov : u \in placed /\ Target(DayOf[u], today) \in 1..Len(Stages)
  <2> SUFFICES ASSUME NEW u \in mov PROVE u \in placed /\ Target(DayOf[u], today) \in 1..Len(Stages)
    OBVIOUS
  <2>1. u \in Moved(placed, stage, today)
    OBVIOUS
  <2>2. u \in Older(placed) /\ Level(u, today) # 5
    BY <1>1, <2>1, MovedMeans
  <2>3. u \in placed
    BY <2>2 DEF Older
  <2>4. QED
    BY <1>1, <2>2, <2>3, LevelKnown
<1>3. /\ today' = today /\ made' = made
      /\ stage' = [u \in Units |-> IF u \in del THEN 0
                                   ELSE IF u \in mov THEN Target(DayOf[u], today)
                                   ELSE stage[u]]
      /\ picked' = picked \cup {u \in mov : Stages[Target(DayOf[u], today)].period # "daily"}
  BY DEF RunPass
<1> HIDE DEF del, mov
<1>4. \A u \in Units : stage'[u] = IF u \in del THEN 0
                                   ELSE IF u \in mov THEN Target(DayOf[u], today)
                                   ELSE stage[u]
  BY <1>3
<1>5. Len(Stages) \in Nat
  BY PeriodKnown
<1>6. Live' = Live \ del
  <2>1. ASSUME NEW u \in Units PROVE stage'[u] # 0 <=> stage[u] # 0 /\ u \notin del
    <3>1. CASE u \in mov
      <4>1. stage[u] # 0 /\ Target(DayOf[u], today) # 0
        BY <1>2, <1>5, <3>1 DEF Live
      <4>2. QED
        BY <1>4, <3>1, <4>1
    <3>2. CASE u \notin mov
      BY <1>4, <3>2
    <3>3. QED
      BY <3>1, <3>2
  <2>2. QED
    BY <2>1 DEF Live
<1>7. stage' \in [Units -> 0..Len(Stages)]
  <2>1. \A u \in Units : stage'[u] \in 0..Len(Stages)
    BY <1>1, <1>2, <1>4, <1>5
  <2>2. QED
    BY <1>3, <2>1
<1>8. \A u \in Live' : u \in Units /\ u \notin del
  BY <1>6 DEF Live
<1>9. picked' \subseteq made
  BY <1>1, <1>2, <1>3
<1>10. QED
  BY <1>3, <1>4, <1>6, <1>7, <1>8, <1>9 DEF del, mov

LEMMA RunTypes ==
    ASSUME RetTypeOK, NEW placed \in SUBSET Live, NEW undone, RunPass(placed, undone),
           tries' \in Nat, ran' \in BOOLEAN
    PROVE  RetTypeOK'
<1>1. /\ today' = today /\ made' = made /\ Live' \subseteq Live
      /\ stage' \in [Units -> 0..Len(Stages)] /\ picked' \subseteq made
  BY RunEffects
<1>2. Bounded(made')
  BY <1>1 DEF RetTypeOK
<1>3. QED
  BY <1>1, <1>2 DEF RetTypeOK

LEMMA RetCleanRun ==
    ASSUME RetInv, CleanRun
    PROVE  RetInv'
<1> DEFINE del == Deleted(Live, today)
<1> DEFINE mov == Moved(Live, stage, today)
<1>1. RetTypeOK /\ RunPass(Live, {}) /\ ran' = TRUE /\ tries' = tries /\ tries \in Nat
  BY DEF RetInv, RetTypeOK, CleanRun
<1>2. /\ today' = today /\ made' = made /\ Live' = Live \ del
      /\ stage' \in [Units -> 0..Len(Stages)]
      /\ \A u \in Live' : stage'[u] = IF u \in mov THEN Target(DayOf[u], today) ELSE stage[u]
      /\ \A u \in picked' : u \in picked \/ u \in mov
  BY <1>1, RunEffects
<1>3. RetTypeOK'
  BY <1>1, RunTypes
<1>4. /\ today \in Days /\ today \in Int /\ Bounded(made) /\ Live \subseteq made /\ Bounded(Live)
      /\ made \subseteq Units /\ Live \in SUBSET Units /\ stage \in [Units -> 0..Len(Stages)]
  BY <1>1, DaysAreInts, BoundedPart DEF RetTypeOK, Bounded
<1>5. Deleted(Live', today) = {} /\ Moved(Live', stage', today) = {}
  <2> HIDE DEF del
  <2>1. PICK B : B = Live'
    OBVIOUS
  <2>2. PICK now : now = stage'
    OBVIOUS
  <2>3. \A u \in B : now[u] = IF u \in mov THEN Target(DayOf[u], today) ELSE stage[u]
    BY <1>2, <2>1, <2>2
  <2>4. B = Live \ Deleted(Live, today)
    BY <1>2, <2>1 DEF del
  <2>5. Deleted(B, today) = {} /\ Moved(B, now, today) = {}
    BY <1>4, <2>3, <2>4, NothingTwice
  <2>6. QED
    BY <2>1, <2>2, <2>5
<1>6. SecondRunIdle'
  BY <1>2, <1>5 DEF SecondRunIdle
<1> HIDE DEF del, mov
<1>7. ASSUME tries = 0
      PROVE  GoneIsExcused' /\ Stragglers(made, Live', today) /\ PickedIsTop'
  <2>1. GoneIsExcused /\ Stragglers(made, Live, today) /\ PickedIsTop
    BY <1>7 DEF RetInv
  <2>2. \A z \in made \ Live : Excused(z, made, today)
    BY <2>1 DEF GoneIsExcused
  <2>3. ASSUME NEW z \in del PROVE Excused(z, made, today)
    <3>1. z \in Older(Live) /\ Lost(z, Live, today)
      BY <1>4, DeletedMeans DEF del
    <3>2. z \in Live /\ z \in Older(made) /\ made \in SUBSET Units
      BY <1>4, <3>1 DEF Older
    <3>3. Lost(z, made, today)
      BY <1>4, <2>1, <3>1, <3>2, StillLost
    <3>4. QED
      BY <3>2, <3>3, LostIsExcused
  <2>4. GoneIsExcused'
    BY <1>2, <2>2, <2>3 DEF GoneIsExcused
  <2>5. Stragglers(made, Live', today)
    <3> SUFFICES ASSUME NEW z \in Top(2, made) \ Live', NEW x \in Live',
                        SeriesOf[x] = SeriesOf[z], x < z, Week[x] = Week[z]
                 PROVE  Level(x, today) >= 4 /\ Year[x] = Year[z]
      BY DEF Stragglers
    <3>1. x \in Live
      BY <1>2
    <3>2. CASE z \notin Live
      BY <2>1, <3>1, <3>2 DEF Stragglers
    <3>3. CASE z \in Live
      <4>1. z \in Top(2, Live)
        BY <1>4, <3>3, Tops, NewestOfFewer
      <4>2. Stragglers(Live, Live \ del, today)
        BY <1>4, RunLeavesStragglers DEF del
      <4>3. z \in Top(2, Live) \ (Live \ del) /\ x \in Live \ del
        BY <1>2, <4>1
      <4>4. QED
        BY <4>2, <4>3 DEF Stragglers
    <3>4. QED
      BY <3>2, <3>3
  <2>6. PickedIsTop'
    <3> SUFFICES ASSUME NEW u \in picked' \cap Live'
                 PROVE  /\ Done(Rank(Stages[stage'[u]].period), u, today)
                        /\ u \in Top(Rank(Stages[stage'[u]].period), made)
      BY <1>2 DEF PickedIsTop
    <3>1. u \in Live
      BY <1>2
    <3>2. CASE u \in mov
      <4>1. /\ Level(u, today) # 5 /\ Done(Level(u, today), u, today)
            /\ u \in Top(Level(u, today), Live)
        BY <1>4, <3>2, MovedMeans DEF mov
      <4>2. u \in Top(Level(u, today), made)
        BY <1>4, <2>1, <2>2, <3>1, <4>1, TopOfAll
      <4>3. stage'[u] = Target(DayOf[u], today) /\ u \in Units
        BY <1>2, <1>4, <3>1, <3>2
      <4>4. Rank(Stages[stage'[u]].period) = Level(u, today)
        BY <4>1, <4>3, LevelKnown
      <4>5. QED
        BY <4>1, <4>2, <4>4
    <3>3. CASE u \notin mov
      <4>1. stage'[u] = stage[u] /\ u \in picked
        BY <1>2, <3>3
      <4>2. QED
        BY <2>1, <3>1, <4>1 DEF PickedIsTop
    <3>4. QED
      BY <3>2, <3>3
  <2>7. QED
    BY <2>4, <2>5, <2>6
<1>8. QED
  BY <1>1, <1>2, <1>3, <1>6, <1>7 DEF RetInv

LEMMA RetPartialRun ==
    ASSUME RetInv, PartialRun
    PROVE  RetInv'
<1>1. RetTypeOK /\ tries \in Nat /\ tries' = tries + 1 /\ ran' = FALSE
  BY DEF RetInv, RetTypeOK, PartialRun
<1>2. PICK left \in Live : RunPass(Live \ {left}, {}) \/ RunPass(Live, {left})
  BY DEF PartialRun
<1>3. PICK placed \in SUBSET Live, undone \in SUBSET Live : RunPass(placed, undone)
  <2>1. Live \ {left} \in SUBSET Live /\ {left} \in SUBSET Live /\ Live \in SUBSET Live
        /\ {} \in SUBSET Live
    OBVIOUS
  <2>2. QED
    BY <1>2, <2>1
<1>4. tries' \in Nat /\ tries' # 0
  <2>1. tries \in Nat /\ tries' = tries + 1
    BY <1>1
  <2>2. QED
    BY <2>1
<1>5. ran' \in BOOLEAN
  BY <1>1
<1>6. RetTypeOK'
  BY <1>1, <1>3, <1>4, <1>5, RunTypes
<1>7. QED
  BY <1>1, <1>4, <1>6 DEF RetInv, SecondRunIdle

LEMMA RetStutter ==
    ASSUME RetInv, UNCHANGED rvars
    PROVE  RetInv'
<1>1. /\ today' = today /\ made' = made /\ stage' = stage /\ picked' = picked
      /\ ran' = ran /\ tries' = tries
  BY DEF rvars
<1>2. Live' = Live
  BY <1>1 DEF Live
<1>3. RetTypeOK'
  BY <1>1, <1>2 DEF RetInv, RetTypeOK
<1>4. SecondRunIdle'
  BY <1>1, <1>2 DEF RetInv, SecondRunIdle
<1>5. ASSUME tries = 0 PROVE GoneIsExcused' /\ Stragglers(made', Live', today') /\ PickedIsTop'
  BY <1>1, <1>2, <1>5 DEF RetInv, GoneIsExcused, PickedIsTop
<1>6. QED
  BY <1>1, <1>3, <1>4, <1>5 DEF RetInv

LEMMA RetStep == RetInv /\ [Next]_rvars => RetInv'
BY RetNextDay, RetBackUp, RetCleanRun, RetPartialRun, RetStutter DEF Next

LEMMA RetAlways == Spec => []RetInv
<1>1. Init => RetInv
  BY RetInit
<1>2. QED
  BY <1>1, RetStep, PTL DEF Spec

----------------------------------------------------------------------------
(* Theorems.                                                                  *)

\* ChosenSurvive, for any units, days, jobs and accepted stages: as long as no run
\* left anything out, a unit the documentation promises to keep is there, though
\* policy.decide sees survivors only.
THEOREM ChosenAlwaysSurvive == Spec => []ChosenSurvive
<1>1. ASSUME RetInv PROVE ChosenSurvive
  <2> SUFFICES ASSUME tries = 0, NEW u \in Due, u \notin Live PROVE FALSE
    BY DEF ChosenSurvive
  <2>1. /\ today \in Int /\ made \in SUBSET Units /\ Excused(u, made, today)
        /\ u \in made /\ Target(DayOf[u], today) <= Len(Stages)
        /\ u \in Eligible(made, today)[Stages[Target(DayOf[u], today)].period]
    BY <1>1, DaysAreInts DEF RetInv, RetTypeOK, Bounded, GoneIsExcused, Due
  <2>2. u \in Units /\ Target(DayOf[u], today) \in Int /\ Len(Stages) \in Int
    BY <2>1, TargetKnown, PeriodKnown
  <2>3. Level(u, today) # 5
    BY <2>1, <2>2, LevelKnown
  <2>4. PICK r \in 1..4 : r = Level(u, today) /\ u \in Top(r, made)
    BY <2>1, <2>2, <2>3, LevelKnown, ChosenMeans
  <2>5. PICK q \in 1..4 : q <= r /\ u \notin Top(q, made)
    BY <2>1, <2>3, <2>4 DEF Excused
  <2>6. QED
    BY <2>4, <2>5, TopNested
<1>2. QED
  BY <1>1, RetAlways, PTL

\* OnlyChosenKept: after a complete run a unit of a complete bucket is there only
\* as that bucket's choice or as the newest of its series: what policy.decide
\* deletes from survivors is what it would delete from everything.
THEOREM OnlyTheChosenAreKept == Spec => []OnlyChosenKept
<1>1. ASSUME RetInv PROVE OnlyChosenKept
  <2> SUFFICES ASSUME ran, tries = 0, NEW u \in Live \ Due, u \in Older(made),
                      ~(/\ Target(DayOf[u], today) <= Len(Stages)
                        /\ ~Complete(DayOf[u], Stages[Target(DayOf[u], today)].period, today))
               PROVE  FALSE
    BY DEF OnlyChosenKept
  <2>1. /\ today \in Days /\ today \in Int /\ Bounded(made) /\ made \subseteq Units
        /\ made \in SUBSET Units
        /\ Live \subseteq made /\ Live \in SUBSET Units /\ Deleted(Live, today) = {}
        /\ Stragglers(made, Live, today)
        /\ \A z \in made \ Live : Excused(z, made, today)
    BY <1>1, DaysAreInts DEF RetInv, RetTypeOK, Bounded, GoneIsExcused, SecondRunIdle
  <2>2. u \in Units /\ u \in made /\ Target(DayOf[u], today) \in Int /\ Len(Stages) \in Int
    BY <2>1, TargetKnown, PeriodKnown
  <2>3. u \in Older(Live)
    <3> DEFINE one == [v \in Units |-> 0]
    <3>1. PICK w \in NewestBy(made, one) : u <= w /\ SeriesOf[w] = SeriesOf[u] /\ one[w] = one[u]
      BY <2>1, <2>2, NewestExists
    <3>2. w \in made /\ w \notin Older(made)
      <4>1. w \in made /\ \A v \in made : w < v /\ SeriesOf[v] = SeriesOf[w] => one[v] # one[w]
        BY NewestMeans
      <4>2. \A v \in made : one[v] = one[w]
        BY <2>1, <4>1
      <4>3. QED
        BY <4>1, <4>2 DEF Older
    <3>3. w \in Live
      BY <2>1, <3>2 DEF Excused
    <3>4. w # u
      BY <3>2
    <3>5. u < w
      BY <2>1, <2>2, <3>1, <3>2, <3>4, Ordered
    <3>6. QED
      BY <3>1, <3>3, <3>5 DEF Older
  <2>4. ~Lost(u, Live, today)
    BY <2>1, <2>3, DeletedMeans
  <2>5. Level(u, today) # 5
    BY <2>4 DEF Lost
  <2>6. Target(DayOf[u], today) <= Len(Stages)
    BY <2>2, <2>5, LevelKnown
  <2>7. Done(Level(u, today), u, today)
    BY <2>2, <2>5, <2>6, CompleteIsDone
  <2>8. u \in Top(Level(u, today), Live)
    BY <2>4, <2>5, <2>7 DEF Lost
  <2>9. u \in Top(Level(u, today), made)
    BY <2>1, <2>5, <2>8, TopOfAll
  <2>10. u \in Due
    BY <2>1, <2>2, <2>5, <2>6, <2>7, <2>9, ChosenMeans DEF Due
  <2>11. QED
    BY <2>10
<1>2. QED
  BY <1>1, RetAlways, PTL

\* SecondRunIdle: policy.decide has nothing left to delete or move on the day of
\* a complete run, whatever earlier runs left out.
THEOREM SecondRunIsIdle == Spec => []SecondRunIdle
<1>1. RetInv => SecondRunIdle
  BY DEF RetInv
<1>2. QED
  BY <1>1, RetAlways, PTL

\* WeekKeepsOne: a run that deletes a unit for another of its week leaves one of
\* them, even if it placed only part of the units or failed on one: the newest it
\* placed is within the weekly stage or an earlier one, and no bucket passes it.
THEOREM AWeekKeepsOne == Spec => WeekKeepsOne
<1>1. ASSUME RetTypeOK, NEW placed \in SUBSET Live, NEW undone, RunPass(placed, undone),
             NEW u \in Live, stage'[u] = 0, Target(DayOf[u], today) <= Len(Stages),
             Stages[Target(DayOf[u], today)].period = "weekly"
      PROVE  \E v \in Live : /\ SeriesOf[v] = SeriesOf[u] /\ u < v
                             /\ WeekOf(DayOf[v]) = WeekOf(DayOf[u]) /\ stage'[v] # 0
  <2>1. /\ today \in Days /\ today \in Int /\ Bounded(placed) /\ placed \in SUBSET Units
        /\ u \in Units /\ placed \subseteq Live
    BY <1>1, BoundedPart, DaysAreInts DEF RetTypeOK, Bounded
  <2>2. Live' = Live \ (Deleted(placed, today) \ undone)
    BY <1>1, RunEffects
  <2>3. \A v \in Units : v \in Live' <=> stage'[v] # 0
    BY DEF Live
  <2>4. u \in Deleted(placed, today)
    BY <1>1, <2>1, <2>2, <2>3
  <2>5. u \in Older(placed) /\ Lost(u, placed, today)
    BY <2>1, <2>4, DeletedMeans
  <2>6. Target(DayOf[u], today) \in Int /\ Len(Stages) \in Int
    BY TargetKnown, PeriodKnown
  <2>7. Level(u, today) # 5
    BY <1>1, <2>1, <2>6, LevelKnown
  <2>8. Level(u, today) = 2
    BY <1>1, <2>1, <2>7, LevelKnown, PeriodKnown
  <2>9. u \in placed /\ u \notin Top(2, placed)
    BY <2>5, <2>8 DEF Lost, Older
  <2>10. PICK w \in Top(2, placed) : u <= w /\ SeriesOf[w] = SeriesOf[u] /\ Week[w] = Week[u]
    BY <2>1, <2>9, NewestExists, Tops
  <2>11. w \in placed /\ w \in Units
    BY <2>1, TopNested
  <2>12. u < w
    BY <2>1, <2>9, <2>10, <2>11, Ordered
  <2>13. Level(w, today) \in 1..5 /\ Level(w, today) <= 2
    BY <2>1, <2>8, <2>10, <2>11, LevelInOrder, LevelKnown
  <2>14. w \in Top(Level(w, today), placed)
    BY <2>10, <2>11, <2>13, Tops
  <2>15. w \notin Deleted(placed, today)
    BY <2>1, <2>13, <2>14, DeletedMeans DEF Lost
  <2>16. stage'[w] # 0 /\ w \in Live
    BY <2>1, <2>2, <2>3, <2>11, <2>15
  <2>17. QED
    BY <2>1, <2>10, <2>11, <2>12, <2>16 DEF Week
<1>2. ASSUME RetInv, Next, NEW u \in Live, stage'[u] = 0
      PROVE  RetTypeOK /\ \E placed \in SUBSET Live : \E undone : RunPass(placed, undone)
  <2>1. RetTypeOK /\ u \in Units /\ stage[u] # 0
    BY <1>2 DEF RetInv, Live
  <2>2. CASE NextDay
    BY <1>2, <2>1, <2>2 DEF NextDay
  <2>3. CASE \E n \in Units : BackUp(n)
    BY <1>2, <2>1, <2>3 DEF BackUp, RetTypeOK
  <2>4. CASE CleanRun
    BY <2>1, <2>4 DEF CleanRun
  <2>5. CASE PartialRun
    <3>1. PICK left \in Live : RunPass(Live \ {left}, {}) \/ RunPass(Live, {left})
      BY <2>5 DEF PartialRun
    <3>2. Live \ {left} \in SUBSET Live /\ Live \in SUBSET Live
      OBVIOUS
    <3>3. QED
      BY <2>1, <3>1, <3>2
  <2>6. QED
    BY <1>2, <2>2, <2>3, <2>4, <2>5 DEF Next
<1> DEFINE Keeps1(u) ==
      /\ stage'[u] = 0 /\ Target(DayOf[u], today) <= Len(Stages)
      /\ Stages[Target(DayOf[u], today)].period = "weekly"
      => \E v \in Live : /\ SeriesOf[v] = SeriesOf[u] /\ u < v
                         /\ WeekOf(DayOf[v]) = WeekOf(DayOf[u])
                         /\ stage'[v] # 0
<1>3. RetInv /\ [Next]_rvars => [stage' # stage => \A u \in Live : Keeps1(u)]_rvars
  <2> SUFFICES ASSUME RetInv, Next, NEW u \in Live PROVE Keeps1(u)
    OBVIOUS
  <2>1. QED
    BY <1>1, <1>2
<1>4. QED
  BY <1>3, RetAlways, PTL DEF Spec, WeekKeepsOne

\* ChoiceNeverChanges: while no run left anything out, a unit picked for a stage
\* stays while it is within the stage's age: it is the newest of all its bucket
\* ever had (policy._eligibility waits for the bucket), so of what is left of it.
THEOREM AChoiceNeverChanges == Spec => ChoiceNeverChanges
<1>1. ASSUME RetInv, Next, tries' = 0, NEW u \in picked, stage[u] = Target(DayOf[u], today)
      PROVE  stage'[u] # 0
  <2>1. /\ RetTypeOK /\ today \in Days /\ today \in Int /\ Bounded(made) /\ made \subseteq Units
        /\ u \in Units /\ u \in made /\ tries \in Nat /\ Live \subseteq made
        /\ Live \in SUBSET Units
        /\ stage \in [Units -> 0..Len(Stages)]
    BY <1>1, DaysAreInts DEF RetInv, RetTypeOK, Bounded
  <2>2. Target(DayOf[u], today) \in 1..(Len(Stages) + 1) /\ Len(Stages) \in Nat
    BY TargetKnown, PeriodKnown
  <2>3. stage[u] # 0 /\ u \in Live /\ stage[u] \in 1..Len(Stages)
    BY <1>1, <2>1, <2>2 DEF Live
  <2>4. CASE NextDay
    BY <2>3, <2>4 DEF NextDay
  <2>5. CASE \E n \in Units : BackUp(n)
    BY <2>1, <2>3, <2>5 DEF BackUp
  <2>6. CASE PartialRun
    BY <1>1, <2>1, <2>6 DEF PartialRun
  <2>7. CASE CleanRun
    <3>1. tries = 0 /\ RunPass(Live, {})
      BY <1>1, <2>7 DEF CleanRun
    <3>2. Stragglers(made, Live, today) /\ PickedIsTop
      BY <1>1, <3>1 DEF RetInv
    <3>3. Level(u, today) # 5
      BY <1>1, <2>1, <2>2, <2>3, LevelKnown
    <3>4. PICK r \in 1..4 : r = Level(u, today) /\ r = Rank(Stages[stage[u]].period)
      BY <1>1, <2>1, <3>3, LevelKnown
    <3>5. u \in Top(r, made)
      BY <2>3, <3>2, <3>4 DEF PickedIsTop
    <3>6. u \in Top(r, Live)
      <4>1. r = 4 \/ Level(u, today) <= 3
        BY <3>4
      <4>2. QED
        BY <2>1, <2>3, <3>2, <3>5, <4>1, StillTop
    <3>7. u \notin Deleted(Live, today)
      BY <2>1, <3>3, <3>4, <3>6, DeletedMeans DEF Lost
    <3>8. Live' = Live \ (Deleted(Live, today) \ {})
      BY <2>1, <3>1, RunEffects
    <3>9. u \in Live'
      BY <2>3, <3>7, <3>8
    <3>10. QED
      BY <2>1, <3>9 DEF Live
  <2>8. QED
    BY <1>1, <2>4, <2>5, <2>6, <2>7 DEF Next
<1>2. RetInv /\ [Next]_rvars =>
        [tries' = 0 => \A u \in picked :
            stage[u] = Target(DayOf[u], today) => stage'[u] # 0]_rvars
  BY <1>1
<1>3. QED
  BY <1>2, RetAlways, PTL DEF Spec, ChoiceNeverChanges
=============================================================================
