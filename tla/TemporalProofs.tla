--------------------------- MODULE TemporalProofs ---------------------------
(***************************************************************************)
(* Proofs about Temporal, for any phrases, anchors and keywords: the       *)
(* arithmetic of weekdays, the loop over business days, and the calendar,  *)
(* whose ordinals grow with the dates, so that DateOf inverts them.        *)
(***************************************************************************)
EXTENDS Temporal, TLAPS, FiniteSetTheorems

-----------------------------------------------------------------------------
(* Days and instants *)

LEMMA OrdinalType ==
    \A y \in Nat, m \in 1..12, d \in Nat : Ordinal(y, m, d) \in Int
<1> TAKE y \in Nat, m \in 1..12, d \in Nat
<1>1. DaysBeforeMonth[m] \in Int
  BY DEF DaysBeforeMonth
<1> QED
  BY <1>1 DEF Ordinal

LEMMA WeekdayType == \A day \in Int : Weekday(day) \in 0..6
BY DEF Weekday

LEMMA AtType == \A day \in Int, hour \in 0..23 : At(day, hour) \in Int
BY DEF At

LEMMA DayOfAt ==
    ASSUME NEW day \in Int, NEW hour \in 0..23
    PROVE  At(day, hour) \in Int /\ DayOf(At(day, hour)) = day
BY DEF At, DayOf

StepTo(i, a) == (i - Weekday(a)) % 7

\* The code's remainder is the least step forward to a weekday.
LEMMA StepToWeekday ==
    ASSUME NEW a \in Int, NEW i \in 0..6
    PROVE  /\ StepTo(i, a) \in 0..6
           /\ Weekday(a + StepTo(i, a)) = i
           /\ \A d \in a..(a + StepTo(i, a) - 1) : Weekday(d) # i
BY DEF Weekday, StepTo

LEMMA WeekLater == \A a \in Int : Weekday(a + 7) = Weekday(a)
BY DEF Weekday

LEMMA SameWeekday ==
    ASSUME NEW a \in Int, NEW d \in (a + 1)..(a + 6)
    PROVE  Weekday(d) # Weekday(a)
BY DEF Weekday

-----------------------------------------------------------------------------
(* The calendar *)

\* An ordinal counts the days of the years before, and the days of the year.
DaysBefore(y) ==
    365 * (y - 1) + ((y - 1) \div 4) - ((y - 1) \div 100) + ((y - 1) \div 400)
DayInYear(y, m, d) == DaysBeforeMonth[m] + (IF m > 2 /\ Leap(y) THEN 1 ELSE 0) + d
YearLength(y) == IF Leap(y) THEN 366 ELSE 365

LEMMA OrdinalSplits ==
    ASSUME NEW y \in Nat, NEW m \in 1..12, NEW d \in Nat
    PROVE  /\ Ordinal(y, m, d) = DaysBefore(y) + DayInYear(y, m, d)
           /\ DaysBefore(y) \in Int /\ DayInYear(y, m, d) \in Int
           /\ DayInYear(y, m, d) = DayInYear(y, m, 1) + d - 1
           /\ MonthLength(y, m) \in 28..31 /\ YearLength(y) \in 365..366
<1>1. DaysBeforeMonth[m] \in Int
  BY DEF DaysBeforeMonth
<1>2. DaysBefore(y) \in Int /\ DayInYear(y, m, d) \in Int
  BY <1>1 DEF DaysBefore, DayInYear
<1> QED
  BY <1>1, <1>2 DEF Ordinal, DaysBefore, DayInYear, MonthLength, YearLength

\* The leap rule is the difference of two years' counts.
LEMMA YearAfter ==
    ASSUME NEW y \in Nat \ {0}
    PROVE  DaysBefore(y + 1) = DaysBefore(y) + YearLength(y)
BY DEF DaysBefore, YearLength, Leap

LEMMA YearsGrow ==
    ASSUME NEW y \in Nat \ {0}, NEW z \in Nat \ {0}, y < z
    PROVE  DaysBefore(y) + YearLength(y) <= DaysBefore(z)
<1>1. DaysBefore(y + 1) <= DaysBefore(z)
  BY DEF DaysBefore
<1> QED
  BY <1>1, YearAfter

\* A month ends the day before the next begins, the twelfth with the year.
LEMMA MonthAfter ==
    ASSUME NEW y \in Nat, NEW m \in 1..12
    PROVE  DayInYear(y, m, MonthLength(y, m))
             = IF m = 12 THEN YearLength(y) ELSE DayInYear(y, m + 1, 1) - 1
BY DEF DayInYear, DaysBeforeMonth, MonthLength, YearLength

LEMMA MonthsGrow ==
    ASSUME NEW y \in Nat, NEW m \in 1..12, NEW k \in 1..12, m < k
    PROVE  DayInYear(y, m, MonthLength(y, m)) < DayInYear(y, k, 1)
BY DEF DayInYear, DaysBeforeMonth, MonthLength

\* A day lies within its year.
LEMMA WithinYear ==
    ASSUME NEW y \in Nat, NEW m \in 1..12, NEW d \in 1..MonthLength(y, m)
    PROVE  /\ d \in Nat
           /\ DayInYear(y, m, d) \in 1..YearLength(y)
BY DEF DayInYear, DaysBeforeMonth, MonthLength, YearLength

\* A date is before another.
Before(y, m, d, z, k, e) == y < z \/ (y = z /\ (m < k \/ (m = k /\ d < e)))

\* Later dates have larger ordinals.
LEMMA DatesGrow ==
    ASSUME NEW y \in Nat, NEW m \in 1..12, NEW d, ValidDate(y, m, d),
           NEW z \in Nat, NEW k \in 1..12, NEW e, ValidDate(z, k, e),
           Before(y, m, d, z, k, e)
    PROVE  Ordinal(y, m, d) < Ordinal(z, k, e)
<1>1. /\ y \in Nat \ {0} /\ d \in 1..MonthLength(y, m)
      /\ z \in Nat \ {0} /\ e \in 1..MonthLength(z, k)
  BY DEF ValidDate
<1>2. /\ d \in Nat /\ DayInYear(y, m, d) \in 1..YearLength(y)
      /\ e \in Nat /\ DayInYear(z, k, e) \in 1..YearLength(z)
  BY <1>1, WithinYear
<1>3. /\ Ordinal(y, m, d) = DaysBefore(y) + DayInYear(y, m, d)
      /\ DayInYear(y, m, d) = DayInYear(y, m, 1) + d - 1
      /\ Ordinal(z, k, e) = DaysBefore(z) + DayInYear(z, k, e)
      /\ DayInYear(z, k, e) = DayInYear(z, k, 1) + e - 1
      /\ DaysBefore(y) \in Int /\ DaysBefore(z) \in Int
      /\ YearLength(y) \in Int /\ YearLength(z) \in Int
      /\ MonthLength(y, m) \in Nat
  <2>0. /\ y \in Nat /\ m \in 1..12 /\ d \in Nat
        /\ z \in Nat /\ k \in 1..12 /\ e \in Nat
    BY <1>2
  <2>1. /\ Ordinal(y, m, d) = DaysBefore(y) + DayInYear(y, m, d)
        /\ DaysBefore(y) \in Int /\ DayInYear(y, m, d) \in Int
        /\ DayInYear(y, m, d) = DayInYear(y, m, 1) + d - 1
        /\ MonthLength(y, m) \in 28..31 /\ YearLength(y) \in 365..366
    BY <2>0, OrdinalSplits, Zenon
  <2>2. /\ Ordinal(z, k, e) = DaysBefore(z) + DayInYear(z, k, e)
        /\ DaysBefore(z) \in Int /\ DayInYear(z, k, e) \in Int
        /\ DayInYear(z, k, e) = DayInYear(z, k, 1) + e - 1
        /\ MonthLength(z, k) \in 28..31 /\ YearLength(z) \in 365..366
    BY <2>0, OrdinalSplits, Zenon
  <2> QED
    BY <2>1, <2>2
<1>4. /\ DayInYear(y, m, 1) \in Int /\ DayInYear(z, k, 1) \in Int
      /\ DayInYear(y, m, MonthLength(y, m)) = DayInYear(y, m, 1) + MonthLength(y, m) - 1
  BY <1>3, OrdinalSplits
<1>5. CASE y < z
  <2>1. DaysBefore(y) + YearLength(y) <= DaysBefore(z)
    BY <1>1, <1>5, YearsGrow
  <2> QED
    BY <1>2, <1>3, <2>1
<1>6. CASE y = z /\ m < k
  <2>1. DayInYear(y, m, MonthLength(y, m)) < DayInYear(y, k, 1)
    BY <1>6, MonthsGrow
  <2> QED
    BY <1>1, <1>2, <1>3, <1>4, <1>6, <2>1
<1>7. CASE y = z /\ m = k /\ d < e
  BY <1>2, <1>3, <1>4, <1>7
<1> QED
  BY <1>5, <1>6, <1>7 DEF Before

LEMMA DatesOrdered ==
    ASSUME NEW y \in Nat, NEW m \in 1..12, NEW d, ValidDate(y, m, d),
           NEW z \in Nat, NEW k \in 1..12, NEW e, ValidDate(z, k, e)
    PROVE  \/ << y, m, d >> = << z, k, e >>
           \/ Before(y, m, d, z, k, e)
           \/ Before(z, k, e, y, m, d)
<1>1. d \in 1..MonthLength(y, m) /\ e \in 1..MonthLength(z, k)
  BY DEF ValidDate
<1>2. d \in Nat /\ e \in Nat
  BY <1>1, WithinYear
<1> QED
  BY <1>2 DEF Before

\* DateOf inverts Ordinal on the years it looks in.
LEMMA DateOfOrdinal ==
    ASSUME NEW y \in Years, NEW m \in 1..12, NEW d, ValidDate(y, m, d)
    PROVE  DateOf(Ordinal(y, m, d)) = << y, m, d >>
<1> DEFINE Named(date) ==
        /\ ValidDate(date[1], date[2], date[3])
        /\ Ordinal(date[1], date[2], date[3]) = Ordinal(y, m, d)
           dates == Years \X (1..12) \X (1..31)
<1>1. y \in Nat /\ d \in 1..31
  <2>1. y \in Nat /\ d \in 1..MonthLength(y, m)
    BY YearsAssumption DEF ValidDate
  <2> QED
    BY <2>1 DEF MonthLength
<1>2. << y, m, d >> \in dates /\ Named(<< y, m, d >>)
  BY <1>1
<1>3. ASSUME NEW z \in Years, NEW k \in 1..12, NEW e \in 1..31,
             Named(<< z, k, e >>)
      PROVE  << z, k, e >> = << y, m, d >>
  <2>1. z \in Nat /\ ValidDate(z, k, e) /\ Ordinal(z, k, e) = Ordinal(y, m, d)
    BY <1>3, YearsAssumption
  <2>2. Ordinal(y, m, d) \in Int
    <3>1. d \in Nat
      BY <1>1
    <3> QED
      BY <1>1, <3>1, OrdinalType
  <2>3. /\ ~(Ordinal(z, k, e) < Ordinal(y, m, d))
        /\ ~(Ordinal(y, m, d) < Ordinal(z, k, e))
    BY <2>1, <2>2
  <2>4. ~Before(z, k, e, y, m, d) /\ ~Before(y, m, d, z, k, e)
    BY <1>1, <2>1, <2>3, DatesGrow
  <2> QED
    BY <1>1, <2>1, <2>4, DatesOrdered
<1>4. ASSUME NEW date \in dates, Named(date)
      PROVE  date = << y, m, d >>
  <2>1. PICK z \in Years, k \in 1..12, e \in 1..31 : date = << z, k, e >>
    OBVIOUS
  <2> QED
    BY <1>3, <1>4, <2>1
<1>5. DateOf(Ordinal(y, m, d)) = CHOOSE date \in dates : Named(date)
  BY DEF DateOf
<1> HIDE DEF Named, dates
<1> QED
  BY <1>2, <1>4, <1>5

\* Within a month, ordinals count its days.
LEMMA InMonth ==
    ASSUME NEW y \in Years, NEW m \in 1..12, NEW d \in 1..MonthLength(y, m), y > 0
    PROVE  /\ Ordinal(y, m, 1) \in Int
           /\ Ordinal(y, m, d) = Ordinal(y, m, 1) + d - 1
           /\ DateOf(Ordinal(y, m, d)) = << y, m, d >>
<1>1. y \in Nat
  BY YearsAssumption
<1>2. d \in Nat /\ 1 \in Nat
  BY <1>1, WithinYear
<1>3. Ordinal(y, m, 1) \in Int
  BY <1>1, <1>2, OrdinalType
<1>4. ValidDate(y, m, d)
  BY <1>1 DEF ValidDate
<1>5. /\ Ordinal(y, m, d) = DaysBefore(y) + DayInYear(y, m, d)
      /\ DayInYear(y, m, d) = DayInYear(y, m, 1) + d - 1
  BY <1>1, <1>2, OrdinalSplits, Zenon
<1>6. /\ Ordinal(y, m, 1) = DaysBefore(y) + DayInYear(y, m, 1)
      /\ DaysBefore(y) \in Int /\ DayInYear(y, m, 1) \in Int
  BY <1>1, <1>2, OrdinalSplits, Zenon
<1>7. Ordinal(y, m, d) = Ordinal(y, m, 1) + d - 1
  BY <1>2, <1>5, <1>6
<1> QED
  BY <1>3, <1>4, <1>7, DateOfOrdinal

\* The month that begins when a month ends.
MonthAfterYear(y, m) == IF m = 12 THEN y + 1 ELSE y
MonthAfterMonth(m) == IF m = 12 THEN 1 ELSE m + 1

LEMMA NextMonth ==
    ASSUME NEW y \in Nat \ {0}, NEW m \in 1..12
    PROVE  /\ MonthAfterYear(y, m) \in {y, y + 1} /\ MonthAfterMonth(m) \in 1..12
           /\ Ordinal(MonthAfterYear(y, m), MonthAfterMonth(m), 1)
                = Ordinal(y, m, 1) + MonthLength(y, m)
           /\ MonthLength(y, m) \in 28..31
<1>1. /\ MonthAfterYear(y, m) \in {y, y + 1} /\ MonthAfterMonth(m) \in 1..12
      /\ MonthAfterYear(y, m) \in Nat /\ y \in Nat /\ 1 \in Nat
  BY DEF MonthAfterYear, MonthAfterMonth
<1>2. /\ Ordinal(y, m, 1) = DaysBefore(y) + DayInYear(y, m, 1)
      /\ DaysBefore(y) \in Int /\ DayInYear(y, m, 1) \in Int
      /\ MonthLength(y, m) \in 28..31 /\ YearLength(y) \in 365..366
  BY <1>1, OrdinalSplits, Zenon
<1>3. DayInYear(y, m, MonthLength(y, m)) = DayInYear(y, m, 1) + MonthLength(y, m) - 1
  <2>1. MonthLength(y, m) \in Nat
    BY <1>2
  <2> QED
    BY <1>1, <2>1, OrdinalSplits
<1>4. CASE m = 12
  <2>1. Ordinal(y + 1, 1, 1) = DaysBefore(y + 1) + DayInYear(y + 1, 1, 1)
    <3>1. y + 1 \in Nat /\ 1 \in 1..12
      OBVIOUS
    <3> QED
      BY <1>1, <3>1, OrdinalSplits, Zenon
  <2>2. DayInYear(y + 1, 1, 1) = 1
    BY DEF DayInYear, DaysBeforeMonth
  <2>3. DaysBefore(y + 1) = DaysBefore(y) + YearLength(y)
    BY YearAfter
  <2>4. DayInYear(y, m, MonthLength(y, m)) = YearLength(y)
    BY <1>1, <1>4, MonthAfter
  <2>5. Ordinal(y + 1, 1, 1) = Ordinal(y, m, 1) + MonthLength(y, m)
    BY <1>2, <1>3, <2>1, <2>2, <2>3, <2>4
  <2> QED
    BY <1>1, <1>2, <1>4, <2>5 DEF MonthAfterYear, MonthAfterMonth
<1>5. CASE m # 12
  <2>1. m + 1 \in 1..12
    BY <1>5
  <2>2. /\ Ordinal(y, m + 1, 1) = DaysBefore(y) + DayInYear(y, m + 1, 1)
        /\ DayInYear(y, m + 1, 1) \in Int
    BY <1>1, <2>1, OrdinalSplits, Zenon
  <2>3. DayInYear(y, m, MonthLength(y, m)) = DayInYear(y, m + 1, 1) - 1
    BY <1>1, <1>5, MonthAfter
  <2>4. Ordinal(y, m + 1, 1) = Ordinal(y, m, 1) + MonthLength(y, m)
    BY <1>2, <1>3, <2>2, <2>3
  <2> QED
    BY <1>1, <1>2, <1>5, <2>4 DEF MonthAfterYear, MonthAfterMonth
<1> QED
  BY <1>4, <1>5

-----------------------------------------------------------------------------
(* Readings *)

LEMMA LeastExists ==
    ASSUME NEW S \in SUBSET (1..12), S # {}
    PROVE  /\ Least(S) \in S
           /\ \A i \in S : Least(S) <= i
<1>1. \E i \in S : \A j \in S : i <= j
  <2> SUFFICES ASSUME \A i \in S : \E j \in S : j < i
               PROVE  FALSE
    OBVIOUS
  <2>1. \A i \in 1..3 : i \notin S
    OBVIOUS
  <2>2. \A i \in 4..6 : i \notin S
    BY <2>1
  <2>3. \A i \in 7..9 : i \notin S
    BY <2>1, <2>2
  <2>4. \A i \in 10..12 : i \notin S
    BY <2>1, <2>2, <2>3
  <2>5. ASSUME NEW i \in 1..12 PROVE i \notin S
    BY <2>1, <2>2, <2>3, <2>4
  <2> QED
    BY <2>5
<1> QED
  BY <1>1 DEF Least

\* The chosen reading's own test is passed.
LEMMA ReadingPasses ==
    ASSUME NEW p, NEW a, Reading(p, a) # "none"
    PROVE  Passes(Reading(p, a), p, a)
<1> DEFINE passed == {i \in DOMAIN Readings : Passes(Readings[i], p, a)}
<1>1. passed \in SUBSET (1..12)
  BY DEF Readings
<1>2. Reading(p, a) = IF passed = {} THEN "none" ELSE Readings[Least(passed)]
  BY DEF Reading
<1>3. \A i \in passed : Passes(Readings[i], p, a)
  OBVIOUS
<1> HIDE DEF passed
<1>4. Least(passed) \in passed /\ Reading(p, a) = Readings[Least(passed)]
  BY <1>1, <1>2, LeastExists
<1>5. Passes(Readings[Least(passed)], p, a)
  BY <1>3, <1>4, Zenon
<1> QED
  BY <1>4, <1>5, Zenon

\* A phrase read as a weekday holds the name of one.
LEMMA NamedDayType ==
    ASSUME NEW p, NEW a, Reading(p, a) = "weekday"
    PROVE  NamedDay(p) \in 0..6
<1> DEFINE named == {i \in DOMAIN DayNames : Holds(p, DayNames[i])}
<1>1. named \in SUBSET (1..7) /\ NamedDay(p) = Least(named) - 1
  BY DEF DayNames, NamedDay
<1>2. Passes("weekday", p, a)
  <2>1. Reading(p, a) # "none"
    OBVIOUS
  <2>2. Passes(Reading(p, a), p, a)
    BY <2>1, ReadingPasses
  <2> QED
    BY <2>2, Zenon
<1>3. named # {}
  BY <1>2 DEF Passes
<1> HIDE DEF named
<1>4. named \in SUBSET (1..12)
  BY <1>1
<1>5. Least(named) \in 1..7
  BY <1>1, <1>3, <1>4, LeastExists
<1> QED
  BY <1>1, <1>5

-----------------------------------------------------------------------------
(* The invariant *)

\* The loop has counted the business days it has gone over, at most n, and stops
\* on one.
LoopInv ==
    /\ current >= AnchorDay
    /\ count = Cardinality(BusinessDays(AnchorDay + 1, current))
    /\ count <= phrase.n
    /\ count = phrase.n /\ phrase.n > 0 => Weekday(current) < 5
    /\ pc = "counting" => Reading(phrase, anchor) = "days" /\ InBusinessDays(phrase)

IInv == TypeOK /\ LoopInv /\ WeeklyFit /\ BusinessDaysAreCounted

LEMMA AnchorType ==
    ASSUME TypeOK
    PROVE  /\ AnchorDay \in Int
           /\ anchor.minute \in 0..1439
           /\ AnchorInstant = At(AnchorDay, 0) + anchor.minute
           /\ phrase.n \in Nat
<1>1. anchor \in Anchor /\ phrase.n \in Nat
  BY TemporalAssumption DEF TypeOK
<1>2. anchor.year \in Nat /\ anchor.month \in 1..12 /\ anchor.day \in Nat
  BY <1>1 DEF Anchor
<1>3. Ordinal(anchor.year, anchor.month, anchor.day) \in Int
  BY <1>2, OrdinalType
<1> QED
  BY <1>1, <1>3 DEF AnchorDay, AnchorInstant, Anchor

LEMMA InitInv == Init => IInv
<1> SUFFICES ASSUME Init PROVE IInv
  OBVIOUS
<1>1. AnchorDay \in Int /\ phrase.n \in Nat
  <2>1. anchor \in Anchor /\ phrase.n \in Nat
    BY TemporalAssumption DEF Init
  <2>2. anchor.year \in Nat /\ anchor.month \in 1..12 /\ anchor.day \in Nat
    BY <2>1 DEF Anchor
  <2> QED
    BY <2>1, <2>2, OrdinalType DEF AnchorDay
<1>2. TypeOK
  BY <1>1 DEF Init, TypeOK
<1>3. LoopInv
  <2>1. BusinessDays(AnchorDay + 1, current) = {}
    BY <1>1 DEF Init, BusinessDays
  <2> QED
    BY <1>1, <2>1, FS_EmptySet DEF Init, LoopInv
<1>4. WeeklyFit /\ BusinessDaysAreCounted
  BY DEF Init, WeeklyFit, BusinessDaysAreCounted, ReadAs
<1> QED
  BY <1>2, <1>3, <1>4 DEF IInv

\* What a return leaves as it is, and what is left to show of it.
LEMMA Returned ==
    ASSUME IInv, NEW answer \in Int \union {NoDeadline}, Return(answer)
    PROVE  /\ TypeOK' /\ LoopInv'
           /\ AnchorDay' = AnchorDay /\ AnchorInstant' = AnchorInstant
           /\ phrase' = phrase /\ anchor' = anchor
           /\ deadline' = answer
<1>1. phrase' = phrase /\ anchor' = anchor /\ current' = current /\ count' = count
      /\ pc' = "done" /\ deadline' = answer
  BY DEF Return
<1>2. AnchorDay' = AnchorDay /\ AnchorInstant' = AnchorInstant
  BY <1>1 DEF AnchorDay, AnchorInstant
<1>3. TypeOK'
  BY <1>1 DEF IInv, TypeOK
<1>4. LoopInv'
  BY <1>1, <1>2 DEF IInv, LoopInv
<1> QED
  BY <1>1, <1>2, <1>3, <1>4

\* Readings without a weekday in their meaning have nothing to fit.
LEMMA OtherReadings ==
    ASSUME IInv, NEW answer \in Int \union {NoDeadline}, Return(answer),
           \/ answer = NoDeadline
           \/ /\ Reading(phrase, anchor) \notin {"weekday", "next_week", "end_of_week"}
              /\ Reading(phrase, anchor) = "days" => ~InBusinessDays(phrase)
    PROVE  IInv'
<1>1. phrase' = phrase /\ anchor' = anchor /\ deadline' = answer
  BY Returned
<1>2. WeeklyFit' /\ BusinessDaysAreCounted'
  BY <1>1 DEF WeeklyFit, BusinessDaysAreCounted, ReadAs
<1> QED
  BY <1>2, Returned DEF IInv

\* "friday": a week later if the remainder is nought.
LEMMA WeekdayFits ==
    ASSUME IInv, OnWeekday
    PROVE  IInv'
<1> DEFINE days == (NamedDay(phrase) - Weekday(AnchorDay)) % 7
           step == IF days = 0 THEN 7 ELSE days
           day == AnchorDay + step
<1>1. /\ Reading(phrase, anchor) = "weekday"
      /\ Return(At(day, 18))
  BY DEF OnWeekday, Reads
<1>a. /\ days = StepTo(NamedDay(phrase), AnchorDay)
      /\ step = IF days = 0 THEN 7 ELSE days
      /\ day = AnchorDay + step
  BY DEF StepTo
<1> HIDE DEF days, step, day
<1>2. AnchorDay \in Int /\ NamedDay(phrase) \in 0..6
  BY <1>1, AnchorType, NamedDayType DEF IInv
<1>3. days \in 0..6 /\ Weekday(AnchorDay) \in 0..6
  BY <1>a, <1>2, WeekdayType, StepToWeekday
<1>4. step \in 1..7 /\ day \in Int
  BY <1>a, <1>2, <1>3
<1>5. {d \in (AnchorDay + 1)..day : Weekday(d) = NamedDay(phrase)} = {day}
  <2>1. Weekday(AnchorDay + days) = NamedDay(phrase)
        /\ \A d \in AnchorDay..(AnchorDay + days - 1) : Weekday(d) # NamedDay(phrase)
    BY <1>a, <1>2, <1>3, StepToWeekday
  <2>2. CASE days = 0
    <3>1. day = AnchorDay + 7 /\ NamedDay(phrase) = Weekday(AnchorDay)
      BY <1>a, <1>2, <2>1, <2>2
    <3>2. Weekday(day) = NamedDay(phrase)
      BY <1>2, <3>1, WeekLater
    <3>3. \A d \in (AnchorDay + 1)..(day - 1) : Weekday(d) # NamedDay(phrase)
      BY <1>2, <3>1, SameWeekday
    <3> QED
      BY <1>2, <1>4, <3>1, <3>2, <3>3
  <2>3. CASE days # 0
    BY <1>a, <1>2, <1>3, <1>4, <2>1, <2>3
  <2> QED
    BY <2>2, <2>3
<1>6. DayOf(At(day, 18)) = day /\ At(day, 18) \in Int
  BY <1>4, DayOfAt
<1>7. /\ TypeOK' /\ LoopInv'
      /\ AnchorDay' = AnchorDay /\ phrase' = phrase /\ anchor' = anchor
      /\ deadline' = At(day, 18)
  BY <1>1, <1>6, Returned
<1>8. WeeklyFit'
  BY <1>1, <1>5, <1>6, <1>7 DEF WeeklyFit, ReadAs
<1>9. BusinessDaysAreCounted'
  BY <1>1, <1>7 DEF BusinessDaysAreCounted, ReadAs
<1> QED
  BY <1>7, <1>8, <1>9 DEF IInv

\* "next week": seven less the weekday is a step to Monday.
LEMMA NextWeekFits ==
    ASSUME IInv, NextWeek
    PROVE  IInv'
<1> DEFINE day == AnchorDay + 7 - Weekday(AnchorDay)
<1>1. /\ Reading(phrase, anchor) = "next_week"
      /\ Return(At(day, 9))
  BY DEF NextWeek, Reads
<1>2. AnchorDay \in Int
  BY AnchorType DEF IInv
<1>3. Weekday(AnchorDay) \in 0..6 /\ day \in Int
  BY <1>2, WeekdayType
<1>4. {d \in (AnchorDay + 1)..day : Weekday(d) = 0} = {day}
  BY <1>2, <1>3 DEF Weekday
<1>5. DayOf(At(day, 9)) = day /\ At(day, 9) \in Int
  BY <1>3, DayOfAt
<1>6. /\ TypeOK' /\ LoopInv'
      /\ AnchorDay' = AnchorDay /\ phrase' = phrase /\ anchor' = anchor
      /\ deadline' = At(day, 9)
  BY <1>1, <1>5, Returned
<1>7. WeeklyFit'
  BY <1>1, <1>4, <1>5, <1>6 DEF WeeklyFit, ReadAs
<1>8. BusinessDaysAreCounted'
  BY <1>1, <1>6 DEF BusinessDaysAreCounted, ReadAs
<1> QED
  BY <1>6, <1>7, <1>8 DEF IInv

\* "end of week": on a Friday, the hour decides.
LEMMA EndOfWeekFits ==
    ASSUME IInv, EndOfWeek
    PROVE  IInv'
<1> DEFINE days == (4 - Weekday(AnchorDay)) % 7
           day == AnchorDay + DaysToFriday
           Fits(d) == Weekday(d) = 4 /\ At(d, 18) > AnchorInstant
<1>1. /\ Reading(phrase, anchor) = "end_of_week"
      /\ Return(At(day, 18))
  BY DEF EndOfWeek, Reads
<1>a. /\ days = StepTo(4, AnchorDay)
      /\ DaysToFriday = IF days = 0 /\ anchor.minute >= 18 * 60 THEN 7 ELSE days
      /\ day = AnchorDay + DaysToFriday
  BY DEF DaysToFriday, StepTo
<1> HIDE DEF days, day
<1>2. /\ AnchorDay \in Int /\ anchor.minute \in 0..1439
      /\ AnchorInstant = At(AnchorDay, 0) + anchor.minute
  BY AnchorType DEF IInv
<1>3. days \in 0..6 /\ Weekday(AnchorDay) \in 0..6
  BY <1>a, <1>2, WeekdayType, StepToWeekday
<1>4. DaysToFriday \in 0..7 /\ day \in Int
  BY <1>a, <1>2, <1>3
<1>5. {d \in AnchorDay..day : Fits(d)} = {day}
  <2>1. Weekday(AnchorDay + days) = 4
        /\ \A d \in AnchorDay..(AnchorDay + days - 1) : Weekday(d) # 4
    BY <1>a, <1>2, <1>3, StepToWeekday
  <2>2. CASE days = 0 /\ anchor.minute >= 18 * 60
    <3>1. day = AnchorDay + 7 /\ Weekday(AnchorDay) = 4
      BY <1>a, <1>2, <2>1, <2>2
    <3>2. Fits(day)
      BY <1>2, <3>1, WeekLater DEF At
    <3>3. ~Fits(AnchorDay)
      BY <1>2, <2>2 DEF At
    <3>4. \A d \in (AnchorDay + 1)..(day - 1) : ~Fits(d)
      BY <1>2, <3>1, SameWeekday
    <3> QED
      BY <1>2, <1>4, <3>1, <3>2, <3>3, <3>4
  <2>3. CASE ~(days = 0 /\ anchor.minute >= 18 * 60)
    <3>1. DaysToFriday = days
      BY <1>a, <2>3
    <3>2. At(day, 18) > AnchorInstant
      <4>1. day = AnchorDay + days /\ (days > 0 \/ anchor.minute < 1080)
        BY <1>a, <1>2, <1>3, <2>3, <3>1
      <4> QED
        BY <1>2, <1>3, <4>1 DEF At
    <3> QED
      BY <1>a, <1>2, <1>3, <1>4, <2>1, <3>1, <3>2
  <2> QED
    BY <2>2, <2>3
<1>6. DayOf(At(day, 18)) = day /\ At(day, 18) \in Int
  BY <1>4, DayOfAt
<1>7. /\ TypeOK' /\ LoopInv'
      /\ AnchorDay' = AnchorDay /\ AnchorInstant' = AnchorInstant
      /\ phrase' = phrase /\ anchor' = anchor
      /\ deadline' = At(day, 18)
  BY <1>1, <1>6, Returned
<1>8. WeeklyFit'
  BY <1>1, <1>5, <1>6, <1>7 DEF WeeklyFit, ReadAs
<1>9. BusinessDaysAreCounted'
  BY <1>1, <1>7 DEF BusinessDaysAreCounted, ReadAs
<1> QED
  BY <1>7, <1>8, <1>9 DEF IInv

-----------------------------------------------------------------------------
(* The loop over business days *)

LEMMA BusinessDaysFinite ==
    ASSUME NEW a \in Int, NEW b \in Int
    PROVE  IsFiniteSet(BusinessDays(a, b))
<1>1. BusinessDays(a, b) \in SUBSET (a..b)
  BY DEF BusinessDays
<1> QED
  BY <1>1, FS_Interval, FS_Subset

\* A day more: counted if it is a business day.
LEMMA BusinessDaysGrow ==
    ASSUME NEW a \in Int, NEW b \in Int, a <= b + 1
    PROVE  Cardinality(BusinessDays(a, b + 1)) =
             IF Weekday(b + 1) < 5 THEN Cardinality(BusinessDays(a, b)) + 1
             ELSE Cardinality(BusinessDays(a, b))
<1>1. CASE Weekday(b + 1) < 5
  <2>1. BusinessDays(a, b + 1) = BusinessDays(a, b) \union {b + 1}
    BY <1>1 DEF BusinessDays
  <2>2. b + 1 \notin BusinessDays(a, b)
    BY DEF BusinessDays
  <2> QED
    BY <1>1, <2>1, <2>2, BusinessDaysFinite, FS_AddElement
<1>2. CASE ~(Weekday(b + 1) < 5)
  <2>1. BusinessDays(a, b + 1) = BusinessDays(a, b)
    BY <1>2 DEF BusinessDays
  <2> QED
    BY <1>2, <2>1
<1> QED
  BY <1>1, <1>2

LEMMA CountDayInv ==
    ASSUME IInv, CountDay
    PROVE  IInv'
<1>1. /\ AnchorDay \in Int /\ phrase.n \in Nat
      /\ current \in Int /\ count \in Nat
      /\ current >= AnchorDay /\ count = Cardinality(BusinessDays(AnchorDay + 1, current))
      /\ pc = "counting" /\ Reading(phrase, anchor) = "days" /\ InBusinessDays(phrase)
  BY AnchorType DEF IInv, TypeOK, LoopInv, CountDay
<1>2. /\ count < phrase.n /\ current' = current + 1
      /\ count' = IF Weekday(current + 1) < 5 THEN count + 1 ELSE count
      /\ anchor' = anchor /\ phrase' = phrase /\ pc' = pc /\ deadline' = deadline
  BY DEF CountDay
<1>3. AnchorDay' = AnchorDay
  BY <1>2 DEF AnchorDay
<1>4. TypeOK'
  BY <1>1, <1>2 DEF IInv, TypeOK
<1>5. count' = Cardinality(BusinessDays(AnchorDay + 1, current'))
  BY <1>1, <1>2, BusinessDaysGrow
<1>6. LoopInv'
  BY <1>1, <1>2, <1>3, <1>5 DEF LoopInv
<1>7. WeeklyFit' /\ BusinessDaysAreCounted'
  BY <1>1, <1>2 DEF WeeklyFit, BusinessDaysAreCounted, ReadAs
<1> QED
  BY <1>4, <1>6, <1>7 DEF IInv

\* The loop ends with n days counted, on the last of them.
LEMMA CountedInv ==
    ASSUME IInv, Counted
    PROVE  IInv'
<1>1. /\ AnchorDay \in Int /\ phrase.n \in Nat
      /\ current \in Int /\ count = phrase.n
      /\ count = Cardinality(BusinessDays(AnchorDay + 1, current))
      /\ phrase.n > 0 => Weekday(current) < 5
      /\ Reading(phrase, anchor) = "days"
      /\ Return(At(current, 18))
  BY AnchorType DEF IInv, TypeOK, LoopInv, Counted
<1>2. DayOf(At(current, 18)) = current /\ At(current, 18) \in Int
  BY <1>1, DayOfAt
<1>3. /\ TypeOK' /\ LoopInv'
      /\ AnchorDay' = AnchorDay /\ phrase' = phrase /\ anchor' = anchor
      /\ deadline' = At(current, 18)
  BY <1>1, <1>2, Returned
<1>4. BusinessDaysAreCounted'
  BY <1>1, <1>2, <1>3 DEF BusinessDaysAreCounted
<1>5. WeeklyFit'
  BY <1>1, <1>3 DEF WeeklyFit, ReadAs
<1> QED
  BY <1>3, <1>4, <1>5 DEF IInv

-----------------------------------------------------------------------------
(* Months, and what is past from the start *)

\* The anchor is a day that exists, in a year DateOf knows.
LEMMA AnchorDate ==
    ASSUME TypeOK
    PROVE  /\ anchor.year \in Years /\ anchor.year + 1 \in Years
           /\ anchor.year \in Nat \ {0} /\ anchor.month \in 1..12
           /\ anchor.day \in 1..MonthLength(anchor.year, anchor.month) /\ anchor.day \in Nat
           /\ ValidDate(anchor.year, anchor.month, anchor.day)
           /\ AnchorDay \in Int
<1>1. /\ anchor.year \in Years /\ anchor.year + 1 \in Years
      /\ ValidDate(anchor.year, anchor.month, anchor.day)
  BY YearsAssumption DEF TypeOK
<1>2. anchor.year \in Nat /\ anchor.month \in 1..12 /\ anchor.day \in 1..31
  BY TemporalAssumption DEF TypeOK, Anchor
<1> QED
  BY <1>1, <1>2, AnchorType DEF ValidDate

\* Four days after the 28th is one of the first four of the next month, so
\* LastDayOfMonth is the day before its first.
LEMMA LastDay ==
    ASSUME TypeOK
    PROVE  /\ LastDayOfMonth \in Int /\ AnchorDay <= LastDayOfMonth
           /\ \A d \in AnchorDay..LastDayOfMonth :
                  DateOf(d + 1)[3] = 1 <=> d = LastDayOfMonth
<1> DEFINE y == anchor.year
           m == anchor.month
           z == MonthAfterYear(y, m)
           k == MonthAfterMonth(m)
           length == MonthLength(y, m)
           begin == Ordinal(y, m, 1)
           first == Ordinal(z, k, 1)
<1>1. /\ y \in Years /\ y + 1 \in Years /\ y \in Nat \ {0} /\ m \in 1..12
      /\ anchor.day \in 1..length /\ AnchorDay \in Int
      /\ AnchorDay = Ordinal(y, m, anchor.day)
  BY AnchorDate DEF AnchorDay
<1>2. /\ z \in {y, y + 1} /\ k \in 1..12 /\ first = begin + length /\ length \in 28..31
  BY <1>1, NextMonth
<1>3. /\ z \in Years /\ z \in Nat /\ z > 0
  BY <1>1, <1>2
<1>4. /\ begin \in Int
      /\ \A d \in 1..length : /\ Ordinal(y, m, d) = begin + d - 1
                              /\ DateOf(Ordinal(y, m, d)) = << y, m, d >>
  <2>1. 1 \in 1..length /\ y > 0
    BY <1>1, <1>2
  <2> QED
    BY <1>1, <2>1, InMonth
<1>5. \A d \in 1..28 : DateOf(first + d - 1) = << z, k, d >>
  <2> TAKE d \in 1..28
  <2>1. d \in 1..MonthLength(z, k)
    BY <1>2, <1>3 DEF MonthLength
  <2> QED
    BY <1>2, <1>3, <2>1, InMonth
<1> HIDE DEF y, m, z, k, length, begin, first
<1>6. LastDayOfMonth = first - 1
  <2> DEFINE next == Ordinal(anchor.year, anchor.month, 28) + 4
  <2>1. 28 \in 1..length /\ Ordinal(anchor.year, anchor.month, 28) = Ordinal(y, m, 28)
    BY <1>2 DEF y, m
  <2>2. next = first + (32 - length) - 1
    BY <1>2, <1>4, <2>1
  <2>3. 32 - length \in 1..28
    BY <1>2
  <2>4. DateOf(next) = << z, k, 32 - length >>
    BY <1>5, <2>2, <2>3
  <2>5. LastDayOfMonth = next - DateOf(next)[3]
    BY DEF LastDayOfMonth
  <2> HIDE DEF next
  <2> QED
    BY <1>2, <1>4, <2>2, <2>4, <2>5
<1>7. LastDayOfMonth \in Int /\ AnchorDay <= LastDayOfMonth
  BY <1>1, <1>2, <1>4, <1>6
<1>8. ASSUME NEW d \in AnchorDay..LastDayOfMonth
      PROVE  DateOf(d + 1)[3] = 1 <=> d = LastDayOfMonth
  <2>1. CASE d = LastDayOfMonth
    <3>1. 1 \in 1..28 /\ d + 1 = first + 1 - 1
      BY <1>2, <1>4, <1>6, <2>1
    <3>2. DateOf(d + 1) = << z, k, 1 >>
      BY <1>5, <3>1
    <3> QED
      BY <2>1, <3>2
  <2>2. CASE d # LastDayOfMonth
    <3> DEFINE e == d + 2 - begin
    <3>1. e \in 2..length /\ d + 1 = begin + e - 1
      BY <1>1, <1>2, <1>4, <1>6, <1>7, <2>2
    <3>2. DateOf(d + 1) = << y, m, e >>
      BY <1>2, <1>4, <3>1
    <3> QED
      BY <2>2, <3>1, <3>2
  <2> QED
    BY <2>1, <2>2
<1> QED
  BY <1>7, <1>8

\* The date a month and day are read as is the first from the anchor's day on.
LEMMA FirstDate ==
    ASSUME TypeOK, NEW m \in MonthDays(phrase, anchor)
    PROVE  LET day == Ordinal(YearOf(m, phrase.n, anchor), m, phrase.n)
           IN  /\ m \in 1..12 /\ day \in Int /\ AnchorDay <= day
               /\ YearOf(m, phrase.n, anchor) \in Years
               /\ ValidDate(YearOf(m, phrase.n, anchor), m, phrase.n)
               /\ \A y \in Years : ValidDate(y, m, phrase.n) =>
                     \/ Ordinal(y, m, phrase.n) = day
                     \/ Ordinal(y, m, phrase.n) \notin AnchorDay..day
<1> DEFINE n == phrase.n
           z == YearOf(m, phrase.n, anchor)
           day == Ordinal(z, m, n)
           b == anchor.year
           k == anchor.month
           e == anchor.day
<1>1. /\ b \in Years /\ b + 1 \in Years /\ b \in Nat /\ k \in 1..12
      /\ e \in Nat /\ ValidDate(b, k, e) /\ AnchorDay \in Int
      /\ AnchorDay = Ordinal(b, k, e)
  BY AnchorDate DEF AnchorDay
<1>2. m \in 1..12 /\ ValidDate(z, m, n) /\ n \in Nat
  BY AnchorType DEF MonthDays
<1>3. /\ z = IF m < k \/ (m = k /\ n < e) THEN b + 1 ELSE b
      /\ z \in Years /\ z \in Nat
  BY <1>1 DEF YearOf
<1>4. day \in Int
  BY <1>2, <1>3, OrdinalType
<1> HIDE DEF n, z, b, k, e
<1>5. AnchorDay <= day
  <2>1. << z, m, n >> = << b, k, e >> \/ Before(b, k, e, z, m, n)
    BY <1>1, <1>2, <1>3 DEF Before
  <2>2. ASSUME Before(b, k, e, z, m, n) PROVE AnchorDay < day
    BY <1>1, <1>2, <1>3, <2>2, DatesGrow
  <2> QED
    BY <1>1, <1>4, <2>1, <2>2
<1>6. ASSUME NEW y \in Years, ValidDate(y, m, n)
      PROVE  Ordinal(y, m, n) = day \/ Ordinal(y, m, n) \notin AnchorDay..day
  <2>1. y \in Nat /\ Ordinal(y, m, n) \in Int
    BY <1>2, YearsAssumption, OrdinalType
  <2>2. CASE y = z
    BY <2>2
  <2>3. CASE y > z
    <3>1. Before(z, m, n, y, m, n)
      BY <1>3, <2>1, <2>3 DEF Before
    <3>2. day < Ordinal(y, m, n)
      BY <1>2, <1>3, <1>6, <2>1, <3>1, DatesGrow
    <3> QED
      BY <1>1, <1>4, <2>1, <3>2
  <2>4. CASE y < z
    <3>1. Before(y, m, n, b, k, e)
      BY <1>1, <1>2, <1>3, <2>1, <2>4 DEF Before
    <3>2. Ordinal(y, m, n) < AnchorDay
      BY <1>1, <1>2, <1>6, <2>1, <3>1, DatesGrow
    <3> QED
      BY <1>1, <1>4, <2>1, <3>2
  <2> QED
    BY <1>3, <2>1, <2>2, <2>3, <2>4
<1> QED
  BY <1>2, <1>3, <1>4, <1>5, <1>6 DEF n, z

\* What a deadline on a day from the anchor's on is for PastOnlyToday.
LEMMA NotPast ==
    ASSUME IInv, NEW day \in Int, NEW hour \in 0..23, Return(At(day, hour)),
           AnchorDay < day \/ (AnchorDay = day /\ hour = 18)
    PROVE  PastOnlyToday'
<1>1. /\ AnchorDay \in Int /\ anchor.minute \in 0..1439
      /\ AnchorInstant = At(AnchorDay, 0) + anchor.minute
  BY AnchorType DEF IInv
<1>2. DayOf(At(day, hour)) = day /\ At(day, hour) \in Int
  BY DayOfAt
<1>3. /\ AnchorDay' = AnchorDay /\ AnchorInstant' = AnchorInstant
      /\ anchor' = anchor /\ deadline' = At(day, hour)
  BY <1>2, Returned
<1>4. CASE AnchorDay < day
  <2>1. At(day, hour) >= AnchorInstant
    BY <1>1, <1>4 DEF At
  <2>2. ~(At(day, hour) < AnchorInstant)
    BY <1>1, <1>2, <2>1 DEF At
  <2> QED
    BY <1>3, <2>2 DEF PastOnlyToday
<1>5. CASE AnchorDay = day /\ hour = 18
  <2>1. At(day, hour) < AnchorInstant => anchor.minute > 18 * 60
    BY <1>1, <1>5 DEF At
  <2> QED
    BY <1>2, <1>3, <1>5, <2>1 DEF PastOnlyToday
<1> QED
  BY <1>4, <1>5

\* Readings without a month in their meaning have no month to fit.
LEMMA NoMonth ==
    ASSUME IInv, NEW answer \in Int \union {NoDeadline}, Return(answer),
           Reading(phrase, anchor) \notin {"end_of_month", "month_day"}
    PROVE  MonthlyFit'
<1>1. phrase' = phrase /\ anchor' = anchor
  BY Returned
<1> QED
  BY <1>1 DEF MonthlyFit, ReadAs

LEMMA EndOfMonthFits ==
    ASSUME IInv, EndOfMonth
    PROVE  MonthlyFit' /\ PastOnlyToday'
<1> DEFINE day == LastDayOfMonth
<1>1. Reading(phrase, anchor) = "end_of_month" /\ Return(At(day, 18))
  BY DEF EndOfMonth, Reads
<1>2. /\ day \in Int /\ AnchorDay <= day
      /\ \A d \in AnchorDay..day : DateOf(d + 1)[3] = 1 <=> d = day
  BY LastDay DEF IInv
<1>3. AnchorDay \in Int
  BY AnchorType DEF IInv
<1>4. DayOf(At(day, 18)) = day /\ At(day, 18) \in Int
  BY <1>2, DayOfAt
<1>5. /\ AnchorDay' = AnchorDay /\ phrase' = phrase /\ anchor' = anchor
      /\ deadline' = At(day, 18)
  BY <1>1, <1>4, Returned
<1> HIDE DEF day
<1>6. {d \in AnchorDay..day : DateOf(d + 1)[3] = 1} = {day}
  BY <1>2, <1>3
<1>7. MonthlyFit'
  BY <1>1, <1>4, <1>5, <1>6 DEF MonthlyFit, ReadAs
<1>8. AnchorDay < day \/ AnchorDay = day
  BY <1>2, <1>3
<1> QED
  BY <1>1, <1>2, <1>7, <1>8, NotPast

LEMMA MonthDayFits ==
    ASSUME IInv, OnMonthDay
    PROVE  MonthlyFit' /\ PastOnlyToday'
<1> DEFINE m == Least(MonthDays(phrase, anchor))
           day == Ordinal(YearOf(m, phrase.n, anchor), m, phrase.n)
<1>1. Reading(phrase, anchor) = "month_day" /\ Return(At(day, 18))
  BY DEF OnMonthDay, Reads
<1>2. m \in MonthDays(phrase, anchor)
  <2>1. MonthDays(phrase, anchor) # {}
    BY <1>1, ReadingPasses DEF Passes
  <2>2. MonthDays(phrase, anchor) \in SUBSET (1..12)
    BY DEF MonthDays
  <2> QED
    BY <2>1, <2>2, LeastExists
<1> HIDE DEF m
<1>3. /\ m \in 1..12 /\ day \in Int /\ AnchorDay <= day
      /\ YearOf(m, phrase.n, anchor) \in Years
      /\ ValidDate(YearOf(m, phrase.n, anchor), m, phrase.n)
      /\ \A y \in Years : ValidDate(y, m, phrase.n) =>
            Ordinal(y, m, phrase.n) = day \/ Ordinal(y, m, phrase.n) \notin AnchorDay..day
  BY <1>2, FirstDate DEF IInv
<1> DEFINE years == {z \in Years : ValidDate(z, m, phrase.n)}
           occurs == {Ordinal(y, m, phrase.n) : y \in years}
<1>4. AnchorDay \in Int
  BY AnchorType DEF IInv
<1>5. day \in occurs
  BY <1>3
<1>6. \A d \in occurs : d = day \/ d \notin AnchorDay..day
  BY <1>3
<1> HIDE DEF day
<1>7. occurs \intersect AnchorDay..day = {day}
  <2>1. day \in AnchorDay..day
    BY <1>3, <1>4
  <2> HIDE DEF occurs
  <2> QED
    BY <1>5, <1>6, <2>1
<1>8. DayOf(At(day, 18)) = day /\ At(day, 18) \in Int
  BY <1>3, DayOfAt
<1>9. /\ AnchorDay' = AnchorDay /\ phrase' = phrase /\ anchor' = anchor
      /\ deadline' = At(day, 18)
  BY <1>1, <1>8, Returned
<1>10. MonthlyFit'
  <2>1. DayOf(deadline') = day
    BY <1>8, <1>9
  <2> QED
    BY <1>1, <1>3, <1>7, <1>9, <2>1 DEF MonthlyFit, ReadAs
<1>11. AnchorDay < day \/ AnchorDay = day
  BY <1>3, <1>4
<1> QED
  BY <1>1, <1>3, <1>10, <1>11, NotPast

-----------------------------------------------------------------------------
(* Every step *)

LEMMA NextInv == IInv /\ [Next]_vars => IInv'
<1> SUFFICES ASSUME IInv, [Next]_vars PROVE IInv'
  OBVIOUS
<1>0. /\ AnchorDay \in Int /\ AnchorDay + 1 \in Int /\ phrase.n \in Nat
      /\ AnchorDay + phrase.n \in Int /\ AnchorInstant + 60 * phrase.n \in Int
      /\ anchor \in Anchor /\ phrase.month \in Nat /\ phrase.year \in Nat
  <2>1. anchor \in Anchor /\ phrase.month \in Nat /\ phrase.year \in Nat
    BY TemporalAssumption DEF IInv, TypeOK
  <2>2. /\ AnchorDay \in Int /\ anchor.minute \in 0..1439 /\ phrase.n \in Nat
        /\ AnchorInstant = At(AnchorDay, 0) + anchor.minute
    BY AnchorType DEF IInv
  <2>3. AnchorInstant \in Int
    BY <2>2 DEF At
  <2> QED
    BY <2>1, <2>2, <2>3
<1>1. CASE Today
  <2>1. At(AnchorDay, 18) \in Int
    BY <1>0, AtType
  <2> QED
    BY <1>1, <2>1, OtherReadings DEF Today, Reads
<1>2. CASE Tomorrow
  <2>1. At(AnchorDay + 1, 10) \in Int /\ At(AnchorDay + 1, 18) \in Int
    BY <1>0 DEF At
  <2> QED
    BY <1>2, <2>1, OtherReadings DEF Tomorrow, Reads
<1>3. CASE EndOfWeek
  BY <1>3, EndOfWeekFits
<1>4. CASE EndOfMonth
  <2>1. LastDayOfMonth \in Int
    BY LastDay DEF IInv
  <2>2. At(LastDayOfMonth, 18) \in Int
    BY <2>1, AtType
  <2> QED
    BY <1>4, <2>2, OtherReadings DEF EndOfMonth, Reads
<1>5. CASE NextWeek
  BY <1>5, NextWeekFits
<1>6. CASE InDays
  <2>1. At(AnchorDay + phrase.n, 18) \in Int
    BY <1>0 DEF At
  <2> QED
    BY <1>6, <2>1, OtherReadings DEF InDays, Reads
<1>7. CASE InSomeBusinessDays
  <2>1. AnchorDay' = AnchorDay
    BY <1>7 DEF InSomeBusinessDays, AnchorDay
  <2>2. TypeOK' /\ LoopInv'
    BY <1>7, <2>1 DEF IInv, InSomeBusinessDays, Reads, TypeOK, LoopInv
  <2>3. WeeklyFit' /\ BusinessDaysAreCounted'
    BY <1>7 DEF InSomeBusinessDays, WeeklyFit, BusinessDaysAreCounted, ReadAs
  <2> QED
    BY <2>2, <2>3 DEF IInv
<1>8. CASE CountDay
  BY <1>8, CountDayInv
<1>9. CASE Counted
  BY <1>9, CountedInv
<1>10. CASE InHours
  BY <1>0, <1>10, OtherReadings DEF InHours, Reads
<1>11. CASE OnWeekday
  BY <1>11, WeekdayFits
<1>12. CASE OnMonthDay
  <2> DEFINE m == Least(MonthDays(phrase, anchor))
  <2>1. Reading(phrase, anchor) = "month_day"
    BY <1>12 DEF OnMonthDay, Reads
  <2>2. MonthDays(phrase, anchor) # {}
    BY <2>1, ReadingPasses DEF Passes
  <2>3. m \in 1..12
    <3>1. MonthDays(phrase, anchor) \in SUBSET (1..12)
      BY DEF MonthDays
    <3> QED
      BY <2>2, <3>1, LeastExists
  <2>4. YearOf(m, phrase.n, anchor) \in Nat
    BY <1>0, <2>3 DEF YearOf, Anchor
  <2>5. Ordinal(YearOf(m, phrase.n, anchor), m, phrase.n) \in Int
    BY <1>0, <2>3, <2>4, OrdinalType
  <2>6. At(Ordinal(YearOf(m, phrase.n, anchor), m, phrase.n), 18) \in Int
    BY <2>5, AtType
  <2> QED
    BY <1>12, <2>1, <2>6, OtherReadings DEF OnMonthDay
<1>13. CASE OnNumericDate
  <2>1. Reading(phrase, anchor) = "numeric"
    BY <1>13 DEF OnNumericDate, Reads
  <2>2. Passes("numeric", phrase, anchor)
    BY <2>1, ReadingPasses
  <2>3. phrase.month \in 1..12
    BY <2>2 DEF Passes, ValidDate
  <2>4. NumericYear(phrase, anchor) \in Nat
    BY <1>0 DEF NumericYear, Anchor
  <2>5. Ordinal(NumericYear(phrase, anchor), phrase.month, phrase.n) \in Int
    BY <1>0, <2>3, <2>4, OrdinalType
  <2>6. At(Ordinal(NumericYear(phrase, anchor), phrase.month, phrase.n), 18) \in Int
    BY <2>5, AtType
  <2> QED
    BY <1>13, <2>1, <2>6, OtherReadings DEF OnNumericDate
<1>14. CASE Unresolvable
  BY <1>14, OtherReadings DEF Unresolvable, Reads
<1>15. CASE UNCHANGED vars
  <2>1. AnchorDay' = AnchorDay /\ AnchorInstant' = AnchorInstant
    BY <1>15 DEF vars, AnchorDay, AnchorInstant
  <2> QED
    BY <1>15, <2>1
    DEF IInv, vars, TypeOK, LoopInv, WeeklyFit, BusinessDaysAreCounted, ReadAs
<1> QED
  BY <1>1, <1>2, <1>3, <1>4, <1>5, <1>6, <1>7, <1>8, <1>9, <1>10, <1>11, <1>12,
     <1>13, <1>14, <1>15 DEF Next

\* With the calendar: these follow from one step, and no other step disturbs them.
CInv == IInv /\ MonthlyFit /\ PastOnlyToday

LEMMA NextCInv == CInv /\ [Next]_vars => CInv'
<1> SUFFICES ASSUME CInv, [Next]_vars PROVE MonthlyFit' /\ PastOnlyToday'
  BY NextInv DEF CInv
<1>0. /\ IInv /\ TypeOK /\ AnchorDay \in Int /\ AnchorDay + 1 \in Int /\ phrase.n \in Nat
      /\ AnchorDay + phrase.n \in Int /\ AnchorInstant \in Int
      /\ Weekday(AnchorDay) \in 0..6
  <2>1. IInv /\ TypeOK
    BY DEF CInv, IInv
  <2>2. /\ AnchorDay \in Int /\ anchor.minute \in 0..1439 /\ phrase.n \in Nat
        /\ AnchorInstant = At(AnchorDay, 0) + anchor.minute
    BY <2>1, AnchorType
  <2>3. AnchorInstant \in Int
    BY <2>2 DEF At
  <2> QED
    BY <2>1, <2>2, <2>3, WeekdayType
\* A deadline at an hour of a day, by a reading without a month.
<1>a. ASSUME NEW day \in Int, NEW hour \in 0..23, Return(At(day, hour)),
             Reading(phrase, anchor) \notin {"end_of_month", "month_day"},
             AnchorDay < day \/ (AnchorDay = day /\ hour = 18)
      PROVE  MonthlyFit' /\ PastOnlyToday'
  <2>1. At(day, hour) \in Int \union {NoDeadline}
    BY DayOfAt
  <2> QED
    BY <1>0, <1>a, <2>1, NoMonth, NotPast
\* No deadline yet.
<1>b. ASSUME pc' # "done" PROVE MonthlyFit' /\ PastOnlyToday'
  BY <1>b DEF MonthlyFit, PastOnlyToday, ReadAs
<1>1. CASE Today
  BY <1>0, <1>1, <1>a DEF Today, Reads
<1>2. CASE Tomorrow
  <2> DEFINE hour == IF Holds(phrase, "morning") THEN 10 ELSE 18
  <2>1. /\ hour \in 0..23 /\ AnchorDay < AnchorDay + 1
        /\ Return(At(AnchorDay + 1, hour)) /\ Reading(phrase, anchor) = "tomorrow"
    BY <1>0, <1>2 DEF Tomorrow, Reads
  <2> HIDE DEF hour
  <2> QED
    BY <1>0, <1>a, <2>1
<1>3. CASE EndOfWeek
  <2>1. DaysToFriday \in 0..7
    BY <1>0 DEF DaysToFriday
  <2>2. AnchorDay + DaysToFriday \in Int /\ AnchorDay <= AnchorDay + DaysToFriday
    BY <1>0, <2>1
  <2>3. /\ Return(At(AnchorDay + DaysToFriday, 18))
        /\ Reading(phrase, anchor) = "end_of_week"
    BY <1>3 DEF EndOfWeek, Reads
  <2>4. AnchorDay < AnchorDay + DaysToFriday \/ AnchorDay = AnchorDay + DaysToFriday
    BY <1>0, <2>2
  <2> QED
    BY <1>a, <2>2, <2>3, <2>4
<1>4. CASE EndOfMonth
  BY <1>0, <1>4, EndOfMonthFits
<1>5. CASE NextWeek
  <2>1. /\ AnchorDay + 7 - Weekday(AnchorDay) \in Int
        /\ AnchorDay < AnchorDay + 7 - Weekday(AnchorDay)
    BY <1>0
  <2> QED
    BY <1>5, <1>a, <2>1 DEF NextWeek, Reads
<1>6. CASE InDays
  <2>1. AnchorDay < AnchorDay + phrase.n \/ AnchorDay = AnchorDay + phrase.n
    BY <1>0
  <2> QED
    BY <1>0, <1>6, <1>a, <2>1 DEF InDays, Reads
<1>7. CASE InSomeBusinessDays
  BY <1>7, <1>b DEF InSomeBusinessDays
<1>8. CASE CountDay
  BY <1>8, <1>b DEF CountDay
<1>9. CASE Counted
  <2>1. /\ Reading(phrase, anchor) = "days" /\ Return(At(current, 18))
        /\ current \in Int /\ AnchorDay <= current
    BY <1>0, <1>9 DEF IInv, TypeOK, LoopInv, Counted
  <2>2. AnchorDay < current \/ AnchorDay = current
    BY <1>0, <2>1
  <2> QED
    BY <1>a, <2>1, <2>2
<1>10. CASE InHours
  <2>1. /\ Reading(phrase, anchor) = "hours" /\ Return(AnchorInstant + 60 * phrase.n)
        /\ AnchorInstant + 60 * phrase.n \in Int
        /\ ~(AnchorInstant + 60 * phrase.n < AnchorInstant)
    BY <1>0, <1>10 DEF InHours, Reads
  <2>2. /\ AnchorInstant' = AnchorInstant
        /\ deadline' = AnchorInstant + 60 * phrase.n
    BY <1>0, <2>1, Returned
  <2> QED
    BY <1>0, <2>1, <2>2, NoMonth DEF PastOnlyToday
<1>11. CASE OnWeekday
  <2> DEFINE days == (NamedDay(phrase) - Weekday(AnchorDay)) % 7
             step == IF days = 0 THEN 7 ELSE days
  <2>1. Reading(phrase, anchor) = "weekday" /\ Return(At(AnchorDay + step, 18))
    BY <1>11 DEF OnWeekday, Reads
  <2>2. NamedDay(phrase) \in 0..6
    BY <2>1, NamedDayType
  <2>3. step \in 1..7
    BY <1>0, <2>2
  <2> HIDE DEF step
  <2>4. AnchorDay + step \in Int /\ AnchorDay < AnchorDay + step
    BY <1>0, <2>3
  <2> QED
    BY <1>a, <2>1, <2>4
<1>12. CASE OnMonthDay
  BY <1>0, <1>12, MonthDayFits
<1>13. CASE OnNumericDate
  <2> DEFINE day == Ordinal(NumericYear(phrase, anchor), phrase.month, phrase.n)
  <2>1. Reading(phrase, anchor) = "numeric" /\ Return(At(day, 18))
    BY <1>13 DEF OnNumericDate, Reads
  <2>2. phrase' = phrase /\ anchor' = anchor
    BY <2>1 DEF Return
  <2> QED
    BY <2>1, <2>2 DEF MonthlyFit, PastOnlyToday, ReadAs
<1>14. CASE Unresolvable
  <2>1. deadline' = NoDeadline
    BY <1>14 DEF Unresolvable, Return
  <2> QED
    BY <2>1 DEF MonthlyFit, PastOnlyToday, ReadAs
<1>15. CASE UNCHANGED vars
  <2>1. AnchorDay' = AnchorDay /\ AnchorInstant' = AnchorInstant
    BY <1>15 DEF vars, AnchorDay, AnchorInstant
  <2> QED
    BY <1>15, <2>1 DEF CInv, vars, MonthlyFit, PastOnlyToday, ReadAs
<1> QED
  BY <1>1, <1>2, <1>3, <1>4, <1>5, <1>6, <1>7, <1>8, <1>9, <1>10, <1>11, <1>12,
     <1>13, <1>14, <1>15 DEF Next

LEMMA InitCInv == Init => CInv
<1>1. Init => MonthlyFit /\ PastOnlyToday
  BY DEF Init, MonthlyFit, PastOnlyToday, ReadAs
<1> QED
  BY <1>1, InitInv DEF CInv

-----------------------------------------------------------------------------
(* Theorems *)

\* The invariant holds along every behaviour.
THEOREM Invariance == Spec => []IInv
<1> QED
  BY InitInv, NextInv, PTL DEF Spec

LEMMA CInvariance == Spec => []CInv
<1> QED
  BY InitCInv, NextCInv, PTL DEF Spec

\* resolve_deadline answers with an instant or None, whatever the phrase holds.
THEOREM TypeCorrect == Spec => []TypeOK
<1>1. IInv => TypeOK
  BY DEF IInv
<1> QED
  BY <1>1, Invariance, PTL

\* The weekly readings give the first fitting instant, from any anchor.
THEOREM WeeklySafe == Spec => []WeeklyFit
<1>1. IInv => WeeklyFit
  BY DEF IInv
<1> QED
  BY <1>1, Invariance, PTL

\* _next_business_day counts N business days, for every N and every weekday it
\* begins on.
THEOREM BusinessDaysSafe == Spec => []BusinessDaysAreCounted
<1>1. IInv => BusinessDaysAreCounted
  BY DEF IInv
<1> QED
  BY <1>1, Invariance, PTL

\* "End of month" and dates without a year become the first day that fits, over
\* any turn of months, years and leap years.
THEOREM MonthlySafe == Spec => []MonthlyFit
<1>1. CInv => MonthlyFit
  BY DEF CInv
<1> QED
  BY <1>1, CInvariance, PTL

\* Only deadlines of the same evening, and numeric dates, are past from the start.
THEOREM PastSafe == Spec => []PastOnlyToday
<1>1. CInv => PastOnlyToday
  BY DEF CInv
<1> QED
  BY <1>1, CInvariance, PTL

=============================================================================
