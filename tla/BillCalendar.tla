---------------------------- MODULE BillCalendar ----------------------------
(***************************************************************************)
(* When a recurring bill runs next: _advance in src/backend/app/           *)
(* scheduler.py.  A date is [year, month, day]; the time of day is carried *)
(* along unchanged by the code and left out.                               *)
(***************************************************************************)
EXTENDS Integers

Frequencies == {"weekly", "fortnightly", "monthly"}

Leap(year) == (year % 4) = 0 /\ ((year % 100) # 0 \/ (year % 400) = 0)

\* calendar.monthrange(year, month)[1]
MonthLength(year, month) ==
    IF month = 2 THEN IF Leap(year) THEN 29 ELSE 28
    ELSE IF month \in {4, 6, 9, 11} THEN 30 ELSE 31

Dates == { d \in [year : Nat, month : 1 .. 12, day : 1 .. 31] :
             d.day <= MonthLength(d.year, d.month) }

Lower(a, b) == IF a <= b THEN a ELSE b

\* (Faulty: the day of the month as it is.)
NextMonthUnclamped(d, day) ==
    [year |-> d.year + (d.month \div 12), month |-> (d.month % 12) + 1, day |-> day]

\* The same day of the next month, or its last day if it is shorter than day.
NextMonth(d, day) ==
    LET year == d.year + (d.month \div 12)
        month == (d.month % 12) + 1
    IN  [year |-> year, month |-> month, day |-> Lower(day, MonthLength(year, month))]

\* date + timedelta(days=n), for n of at most four weeks.
PlusDays(d, n) ==
    LET length == MonthLength(d.year, d.month)
    IN  IF d.day + n <= length THEN [d EXCEPT !.day = d.day + n]
        ELSE [NextMonth(d, 1) EXCEPT !.day = d.day + n - length]

\* (Faulty: clamps the day of the last run, which never grows again.)
AdvanceFromDay(d, frequency, anchor) ==
    CASE frequency = "weekly" -> PlusDays(d, 7)
      [] frequency = "fortnightly" -> PlusDays(d, 14)
      [] OTHER -> NextMonth(d, d.day)

Advance(d, frequency, anchor) ==
    CASE frequency = "weekly" -> PlusDays(d, 7)
      [] frequency = "fortnightly" -> PlusDays(d, 14)
      [] OTHER -> NextMonth(d, anchor)

NotAfter(d, e) ==
    \/ d.year < e.year
    \/ d.year = e.year /\ d.month < e.month
    \/ d.year = e.year /\ d.month = e.month /\ d.day <= e.day

-----------------------------------------------------------------------------
(* The calendar reckoned another way: days and months counted through.     *)

\* The days before a month, with years that begin in March so that the leap
\* day comes last.
YearDays(y) == 365 * y + (y \div 4) - (y \div 100) + (y \div 400)
MonthDays(m) == (153 * m + 2) \div 5
DaysBefore(year, month) ==
    YearDays(IF month <= 2 THEN year - 1 ELSE year) + MonthDays((month + 9) % 12)

\* The number of a day.
Ordinal(d) == DaysBefore(d.year, d.month) + d.day

MonthNumber(d) == 12 * d.year + d.month

\* d is the k-th run after a first one on date first: k months later on the
\* anchor day or the last of the month, or 7 or 14 days later each time.
IsRun(d, first, k, frequency, anchor) ==
    /\ k = 0 => d = first
    /\ frequency = "weekly" => Ordinal(d) = Ordinal(first) + 7 * k
    /\ frequency = "fortnightly" => Ordinal(d) = Ordinal(first) + 14 * k
    /\ frequency = "monthly" /\ k > 0 =>
         /\ MonthNumber(d) = MonthNumber(first) + k
         /\ d.day = Lower(anchor, MonthLength(d.year, d.month))

=============================================================================
