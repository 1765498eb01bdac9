------------------------------ MODULE Temporal ------------------------------
(***************************************************************************)
(* pipeline/temporal.py, resolve_deadline: a temporal phrase and the       *)
(* instant its message was sent become a deadline, or none.  It is what    *)
(* Commitments takes as the parameter ResolveDeadline.                     *)
(*                                                                         *)
(* The first test the phrase passes decides how it is read; each reading   *)
(* is an action, and the loop over business days takes a step per day.     *)
(* Days are proleptic Gregorian ordinals as in Python's datetime, instants *)
(* are minutes; every deadline is in the anchor's time zone.  A phrase is  *)
(* a sequence of words after strip and lower.  The code looks for keywords *)
(* as substrings, so which keywords a word holds is a parameter.  The      *)
(* confidence that goes with a deadline depends only on the reading, is    *)
(* above 0.1 exactly when there is a deadline, and is left out.            *)
(***************************************************************************)
EXTENDS Integers, Sequences, FiniteSets

CONSTANTS
    Anchors,      \* message timestamps
    Phrases,      \* raw_temporal_phrase values
    Inside(_),    \* the keywords that are substrings of a word
    Years,        \* bound: the years in which DateOf looks for a day
    NoDeadline,   \* the answer None
    Pending       \* no answer yet

\* "N" stands for the number n, with or without "th"; "N/N" for a numeric date
\* of month and n, and of a year unless that is 0.  After a number any word that
\* begins with "day" or "hour" is written "days" or "hours": the patterns look no
\* further than that.
Phrase == [words : Seq(STRING), n : Nat, month : Nat, year : Nat]
Anchor == [year : Nat \ {0}, month : 1..12, day : 1..31, minute : 0..1439]

ASSUME TemporalAssumption ==
    /\ Anchors \subseteq Anchor
    /\ \A p \in Phrases : p.words \in Seq(STRING) /\ p.n \in Nat
                          /\ p.month \in Nat /\ p.year \in Nat
    /\ NoDeadline \notin Int /\ Pending \notin Int /\ Pending # NoDeadline

VARIABLES anchor, phrase, pc, current, count, deadline

vars == << anchor, phrase, pc, current, count, deadline >>

-----------------------------------------------------------------------------
(* Days *)

Leap(y) == y % 4 = 0 /\ (y % 100 # 0 \/ y % 400 = 0)

MonthLength(y, m) ==
    IF m = 2 THEN IF Leap(y) THEN 29 ELSE 28
    ELSE IF m \in {4, 6, 9, 11} THEN 30 ELSE 31

\* datetime(y, m, d) does not raise.
ValidDate(y, m, d) == y >= 1 /\ m \in 1..12 /\ d \in 1..MonthLength(y, m)

DaysBeforeMonth == << 0, 31, 59, 90, 120, 151, 181, 212, 243, 273, 304, 334 >>

Ordinal(y, m, d) ==
    LET past == y - 1
    IN  365 * past + (past \div 4) - (past \div 100) + (past \div 400)
          + DaysBeforeMonth[m] + (IF m > 2 /\ Leap(y) THEN 1 ELSE 0) + d

\* Monday is 0.
Weekday(day) == (day + 6) % 7

DateOf(day) ==
    CHOOSE date \in Years \X (1..12) \X (1..31) :
        ValidDate(date[1], date[2], date[3]) /\ Ordinal(date[1], date[2], date[3]) = day

\* Anchors are days that exist; Years has their year and the next.
ASSUME YearsAssumption ==
    /\ Years \subseteq Nat
    /\ \A a \in Anchors : /\ ValidDate(a.year, a.month, a.day)
                          /\ a.year \in Years /\ a.year + 1 \in Years

At(day, hour) == 1440 * day + 60 * hour
DayOf(instant) == instant \div 1440

AnchorDay == Ordinal(anchor.year, anchor.month, anchor.day)
AnchorInstant == At(AnchorDay, 0) + anchor.minute

-----------------------------------------------------------------------------
(* How a phrase is read *)

Vague ==
    {"sometime soon", "soon", "later", "when i can", "when i'm back", "when i get back",
     "when things settle", "at some point", "eventually", "in a bit", "asap",
     "when possible", "when i have time"}
DayNames == << "mon", "tue", "wed", "thu", "fri", "sat", "sun" >>
MonthNames ==
    << {"january", "jan"}, {"february", "feb"}, {"march", "mar"}, {"april", "apr"},
       {"may"}, {"june", "jun"}, {"july", "jul"}, {"august", "aug"},
       {"september", "sep"}, {"october", "oct"}, {"november", "nov"},
       {"december", "dec"} >>

TodayNames == {<< "today" >>, << "this", "afternoon" >>, << "this", "evening" >>}
EndOfDayNames ==
    {<< "end", "of", "day" >>, << "eod" >>, << "close", "of", "business" >>, << "cob" >>,
     << "eob" >>, << "end", "of", "business" >>}

Least(S) == CHOOSE i \in S : \A j \in S : i <= j

\* One leading preposition is taken off.
Cleaned(p) ==
    IF Len(p.words) > 1 /\ Head(p.words) \in {"by", "at", "on", "before", "in", "for", "around"}
    THEN Tail(p.words) ELSE p.words

Holds(p, key) == \E i \in DOMAIN Cleaned(p) : key \in Inside(Cleaned(p)[i])

Begins(p, words) ==
    Len(words) <= Len(Cleaned(p)) /\ SubSeq(Cleaned(p), 1, Len(words)) = words

\* Mutant: the year is always the anchor's.
AnchorsYear(m, d, a) == a.year

\* The year of a month and day without one: this year's unless it has passed.
YearOf(m, d, a) ==
    IF m < a.month \/ (m = a.month /\ d < a.day) THEN a.year + 1 ELSE a.year

\* The months named before a number, with a day that exists.
MonthDays(p, a) ==
    {m \in 1..12 :
        /\ \E i \in 1..(Len(Cleaned(p)) - 1) :
               Cleaned(p)[i] \in MonthNames[m] /\ Cleaned(p)[i + 1] = "N"
        /\ ValidDate(YearOf(m, p.n, a), m, p.n)}

NumericYear(p, a) ==
    IF p.year = 0 THEN a.year ELSE IF p.year < 100 THEN 2000 + p.year ELSE p.year

NumberOfDays(p) ==
    \E kind \in {<< >>, << "business" >>, << "working" >>, << "business", "working" >>} :
        Begins(p, << "N" >> \o kind \o << "days" >>)

\* re.match: "business" only in its place, "working" anywhere.
InBusinessDays(p) == Begins(p, << "N", "business" >>) \/ Holds(p, "working")

Readings ==
    << "vague", "today", "tomorrow", "end_of_day", "end_of_week", "end_of_month",
       "next_week", "days", "hours", "weekday", "month_day", "numeric" >>

Passes(reading, p, a) ==
    \/ reading = "vague" /\ \E key \in Vague : Holds(p, key)
    \/ reading = "today" /\ Cleaned(p) \in TodayNames
    \/ reading = "tomorrow" /\ Holds(p, "tomorrow")
    \/ reading = "end_of_day" /\ Cleaned(p) \in EndOfDayNames
    \/ reading = "end_of_week" /\ Cleaned(p) \in {<< "end", "of", "week" >>, << "eow" >>}
    \/ reading = "end_of_month" /\ Cleaned(p) \in {<< "end", "of", "month" >>, << "eom" >>}
    \/ reading = "next_week" /\ Cleaned(p) = << "next", "week" >>
    \/ reading = "days" /\ NumberOfDays(p)
    \/ reading = "hours" /\ Begins(p, << "N", "hours" >>)
    \/ reading = "weekday" /\ \E i \in DOMAIN DayNames : Holds(p, DayNames[i])
    \/ reading = "month_day" /\ MonthDays(p, a) # {}
    \/ /\ reading = "numeric" /\ Begins(p, << "N/N" >>)
       /\ ValidDate(NumericYear(p, a), p.month, p.n)

\* The first test passed decides; a date that does not exist passes none.
Reading(p, a) ==
    LET passed == {i \in DOMAIN Readings : Passes(Readings[i], p, a)}
    IN  IF passed = {} THEN "none" ELSE Readings[Least(passed)]

NamedDay(p) == Least({i \in DOMAIN DayNames : Holds(p, DayNames[i])}) - 1

-----------------------------------------------------------------------------
(* The resolver *)

Init ==
    /\ anchor \in Anchors
    /\ phrase \in Phrases
    /\ pc = "start"
    /\ current = AnchorDay /\ count = 0
    /\ deadline = Pending

Reads(reading) == pc = "start" /\ Reading(phrase, anchor) = reading

Return(answer) ==
    /\ pc' = "done"
    /\ deadline' = answer
    /\ UNCHANGED << anchor, phrase, current, count >>

Today == (Reads("today") \/ Reads("end_of_day")) /\ Return(At(AnchorDay, 18))

Tomorrow ==
    /\ Reads("tomorrow")
    /\ Return(At(AnchorDay + 1, IF Holds(phrase, "morning") THEN 10 ELSE 18))

\* Mutant: "end of week" on a Friday evening is that Friday.
DaysToFridayAlways == (4 - Weekday(AnchorDay)) % 7

\* Friday, the next one if this Friday's 18:00 has come.
DaysToFriday ==
    LET days == (4 - Weekday(AnchorDay)) % 7
    IN  IF days = 0 /\ anchor.minute >= 18 * 60 THEN 7 ELSE days

EndOfWeek == Reads("end_of_week") /\ Return(At(AnchorDay + DaysToFriday, 18))

\* Mutant: three days after the 28th is taken for next month.
LastDayOfMonthShort ==
    LET next == Ordinal(anchor.year, anchor.month, 28) + 3
    IN  next - DateOf(next)[3]

\* The day before the first of next month: four days after the 28th is in it.
LastDayOfMonth ==
    LET next == Ordinal(anchor.year, anchor.month, 28) + 4
    IN  next - DateOf(next)[3]

EndOfMonth == Reads("end_of_month") /\ Return(At(LastDayOfMonth, 18))

NextWeek == Reads("next_week") /\ Return(At(AnchorDay + 7 - Weekday(AnchorDay), 9))

InDays ==
    /\ Reads("days") /\ ~InBusinessDays(phrase)
    /\ Return(At(AnchorDay + phrase.n, 18))

\* _next_business_day: the loop begins, goes over a day, ends.
InSomeBusinessDays ==
    /\ Reads("days") /\ InBusinessDays(phrase)
    /\ pc' = "counting"
    /\ UNCHANGED << anchor, phrase, current, count, deadline >>

\* Mutant: Saturday counts.
CountDayWithSaturday ==
    /\ pc = "counting" /\ count < phrase.n
    /\ current' = current + 1
    /\ count' = IF Weekday(current') <= 5 THEN count + 1 ELSE count
    /\ UNCHANGED << anchor, phrase, pc, deadline >>

CountDay ==
    /\ pc = "counting" /\ count < phrase.n
    /\ current' = current + 1
    /\ count' = IF Weekday(current') < 5 THEN count + 1 ELSE count
    /\ UNCHANGED << anchor, phrase, pc, deadline >>

Counted == pc = "counting" /\ count >= phrase.n /\ Return(At(current, 18))

InHours == Reads("hours") /\ Return(AnchorInstant + 60 * phrase.n)

\* The named day, a week later if it is the anchor's.
OnWeekday ==
    /\ Reads("weekday")
    /\ LET days == (NamedDay(phrase) - Weekday(AnchorDay)) % 7
       IN  Return(At(AnchorDay + (IF days = 0 THEN 7 ELSE days), 18))

OnMonthDay ==
    /\ Reads("month_day")
    /\ LET m == Least(MonthDays(phrase, anchor))
       IN  Return(At(Ordinal(YearOf(m, phrase.n, anchor), m, phrase.n), 18))

OnNumericDate ==
    /\ Reads("numeric")
    /\ Return(At(Ordinal(NumericYear(phrase, anchor), phrase.month, phrase.n), 18))

\* Mutant: the last line, return without a deadline, is missing.
ForgotToReturn == (Reads("vague") \/ Reads("none")) /\ Return(Pending)

Unresolvable == (Reads("vague") \/ Reads("none")) /\ Return(NoDeadline)

Next ==
    \/ Today \/ Tomorrow \/ EndOfWeek \/ EndOfMonth \/ NextWeek
    \/ InDays \/ InSomeBusinessDays \/ CountDay \/ Counted \/ InHours
    \/ OnWeekday \/ OnMonthDay \/ OnNumericDate \/ Unresolvable

Spec == Init /\ [][Next]_vars

-----------------------------------------------------------------------------
(* Properties *)

TypeOK ==
    /\ anchor \in Anchors
    /\ phrase \in Phrases
    /\ pc \in {"start", "counting", "done"}
    /\ current \in Int
    /\ count \in Nat
    /\ deadline \in IF pc = "done" THEN Int \union {NoDeadline} ELSE {Pending}

ReadAs(reading) ==
    pc = "done" /\ deadline # NoDeadline /\ Reading(phrase, anchor) = reading

\* The readings that repeat every week give the first fitting instant after the
\* anchor (up to the deadline's day, no other day fits): "friday" the first Friday
\* after its day, "next week" the first Monday after its day at nine, "end of
\* week" the first Friday 18:00 not yet come.
WeeklyFit ==
    LET day == DayOf(deadline)
    IN  /\ ReadAs("weekday") =>
              /\ {d \in (AnchorDay + 1)..day : Weekday(d) = NamedDay(phrase)} = {day}
              /\ deadline = At(day, 18)
        /\ ReadAs("next_week") =>
              /\ {d \in (AnchorDay + 1)..day : Weekday(d) = 0} = {day}
              /\ deadline = At(day, 9)
        /\ ReadAs("end_of_week") =>
              /\ {d \in AnchorDay..day :
                     Weekday(d) = 4 /\ At(d, 18) > AnchorInstant} = {day}
              /\ deadline = At(day, 18)

\* "end of month" is the first day from the anchor's on whose morrow is a first
\* of the month; a month and day is the first such date from the anchor's day on,
\* over the turn of the year and of leap years too.
MonthlyFit ==
    LET day == DayOf(deadline)
        Occurs(m) == {Ordinal(y, m, phrase.n) : y \in {z \in Years : ValidDate(z, m, phrase.n)}}
    IN  /\ ReadAs("end_of_month") =>
              {d \in AnchorDay..day : DateOf(d + 1)[3] = 1} = {day}
        /\ ReadAs("month_day") =>
              \E m \in 1..12 : Occurs(m) \intersect AnchorDay..day = {day}

BusinessDays(from, to) == {d \in from..to : Weekday(d) < 5}

\* N business days end on the N-th weekday after the anchor's day: N lie in
\* between, and the last is one of them unless N is 0.
BusinessDaysAreCounted ==
    ReadAs("days") /\ InBusinessDays(phrase) =>
        LET day == DayOf(deadline)
        IN  /\ Cardinality(BusinessDays(AnchorDay + 1, day)) = phrase.n
            /\ phrase.n > 0 => Weekday(day) < 5

\* Only two kinds of commitment are overdue as soon as they are extracted:
\* those due on the day they were made, in its evening, and those with a
\* numeric date, which is never moved to the next year.
PastOnlyToday ==
    /\ pc = "done" /\ deadline # NoDeadline
    /\ deadline < AnchorInstant
    => \/ DayOf(deadline) = AnchorDay /\ anchor.minute > 18 * 60
       \/ Reading(phrase, anchor) = "numeric"

=============================================================================
