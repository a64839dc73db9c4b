-------------------------- MODULE SchedulerProofs ---------------------------
(***************************************************************************)
(* Proofs about Scheduler for any schedulers, bills, members, documents    *)
(* and dates: the lock keeps ticks apart, and what a tick has read under   *)
(* it is still so when it acts on it, but for what it excuses.  The proofs *)
(* about the calendar of recurring bills, for every date, come first: the  *)
(* day after the day, the month after the month, and what they do to the   *)
(* numbering of the days.                                                  *)
(***************************************************************************)
EXTENDS Scheduler, TLAPS

-----------------------------------------------------------------------------
(* The calendar.                                                           *)

LEMMA DateType ==
    ASSUME NEW d \in Dates
    PROVE  /\ d.year \in Nat /\ d.month \in 1 .. 12 /\ d.day \in 1 .. 31
           /\ d.day <= MonthLength(d.year, d.month)
           /\ d = [year |-> d.year, month |-> d.month, day |-> d.day]
  BY DEF Dates

LEMMA MonthLengths ==
    ASSUME NEW y \in Nat, NEW m \in 1 .. 12
    PROVE  MonthLength(y, m) \in 28 .. 31
  BY DEF MonthLength

LEMMA IntDates ==
    ASSUME NEW y \in Nat, NEW m \in 1 .. 12, NEW day \in 1 .. 31, day <= MonthLength(y, m)
    PROVE  [year |-> y, month |-> m, day |-> day] \in Dates
  BY DEF Dates

LEMMA NextMonthType ==
    ASSUME NEW d \in Dates, NEW day \in 1 .. 31
    PROVE  /\ NextMonth(d, day) \in Dates
           /\ MonthNumber(NextMonth(d, day)) = MonthNumber(d) + 1
           /\ NextMonth(d, day).day = Lower(day, MonthLength(NextMonth(d, day).year, NextMonth(d, day).month))
<1> DEFINE y == d.year + (d.month \div 12)
           m == (d.month % 12) + 1
           l == Lower(day, MonthLength(y, m))
<1>1. y \in Nat /\ m \in 1 .. 12 /\ 12 * y + m = 12 * d.year + d.month + 1
  BY DateType
<1>2. l \in 1 .. 31 /\ l <= MonthLength(y, m)
  BY <1>1, MonthLengths DEF Lower
<1>3. NextMonth(d, day) = [year |-> y, month |-> m, day |-> l]
  BY DEF NextMonth
<1>4. NextMonth(d, day) \in Dates
  BY <1>1, <1>2, <1>3, IntDates
<1> HIDE DEF y, m
<1> QED
  BY <1>1, <1>3, <1>4 DEF MonthNumber

-----------------------------------------------------------------------------
(* The numbering of the days.                                              *)

LEMMA YearDaysStep ==
    ASSUME NEW y \in Int
    PROVE  /\ YearDays(y) \in Int
           /\ YearDays(y) = YearDays(y - 1) + (IF Leap(y) THEN 366 ELSE 365)
<1>1. (y \div 4) - ((y - 1) \div 4) = IF y % 4 = 0 THEN 1 ELSE 0
  OBVIOUS
<1>2. (y \div 100) - ((y - 1) \div 100) = IF y % 100 = 0 THEN 1 ELSE 0
  OBVIOUS
<1>3. (y \div 400) - ((y - 1) \div 400) = IF y % 400 = 0 THEN 1 ELSE 0
  OBVIOUS
<1>4. /\ y \div 4 \in Int /\ y \div 100 \in Int /\ y \div 400 \in Int
      /\ (y - 1) \div 4 \in Int /\ (y - 1) \div 100 \in Int /\ (y - 1) \div 400 \in Int
  OBVIOUS
<1>5. (y % 400 = 0 => y % 100 = 0) /\ (y % 100 = 0 => y % 4 = 0)
  OBVIOUS
<1> QED
  BY <1>1, <1>2, <1>3, <1>4, <1>5 DEF YearDays, Leap

\* The days of the months that have passed since the first of March.
LEMMA MonthDaysTable ==
    ASSUME NEW m \in 0 .. 11
    PROVE  MonthDays(m) = 31 * m - (CASE m \in {0, 1} -> 0 [] m \in {2, 3} -> 1
                                      [] m \in {4, 5, 6} -> 2 [] m \in {7, 8} -> 3
                                      [] m \in {9, 10, 11} -> 4)
  BY DEF MonthDays

LEMMA MonthFromMarch ==
    ASSUME NEW m \in 1 .. 12
    PROVE  (m + 9) % 12 = IF m <= 2 THEN m + 9 ELSE m - 3
  OBVIOUS

\* A month has its length.
LEMMA DaysBeforeNext ==
    ASSUME NEW y \in Nat, NEW m \in 1 .. 12
    PROVE  /\ DaysBefore(y, m) \in Int
           /\ m < 12 => DaysBefore(y, m + 1) = DaysBefore(y, m) + MonthLength(y, m)
           /\ m = 12 => DaysBefore(y + 1, 1) = DaysBefore(y, m) + MonthLength(y, m)
<1>1. YearDays(y) \in Int /\ YearDays(y - 1) \in Int
  BY YearDaysStep
<1>2. YearDays(y) = YearDays(y - 1) + (IF Leap(y) THEN 366 ELSE 365)
  BY YearDaysStep
<1>3. DaysBefore(y, m) = YearDays(IF m <= 2 THEN y - 1 ELSE y)
                            + MonthDays(IF m <= 2 THEN m + 9 ELSE m - 3)
  BY MonthFromMarch DEF DaysBefore
<1>4. m < 12 => DaysBefore(y, m + 1) = YearDays(IF m <= 1 THEN y - 1 ELSE y)
                                          + MonthDays(IF m <= 1 THEN m + 10 ELSE m - 2)
  <2>1. m < 12 => (m + 10) % 12 = IF m <= 1 THEN m + 10 ELSE m - 2
    OBVIOUS
  <2> QED
    BY <2>1 DEF DaysBefore
<1>5. DaysBefore(y + 1, 1) = YearDays(y) + MonthDays(10)
  BY DEF DaysBefore
<1> QED
  BY <1>1, <1>2, <1>3, <1>4, <1>5, MonthDaysTable DEF MonthLength

\* The first of the next month is as many days away as the month has left.
LEMMA FirstOfNextMonth ==
    ASSUME NEW d \in Dates
    PROVE  Ordinal(NextMonth(d, 1)) = Ordinal(d) + MonthLength(d.year, d.month) - d.day + 1
<1> DEFINE y == d.year + (d.month \div 12)
           m == (d.month % 12) + 1
<1>1. d.year \in Nat /\ d.month \in 1 .. 12 /\ d.day \in Nat
  BY DateType
<1>2. IF d.month < 12 THEN y = d.year /\ m = d.month + 1 ELSE y = d.year + 1 /\ m = 1
  BY <1>1
<1>3. y \in Nat /\ m \in 1 .. 12
  BY <1>1
<1>4. NextMonth(d, 1) = [year |-> y, month |-> m, day |-> 1]
  BY <1>3, MonthLengths DEF NextMonth, Lower
<1> HIDE DEF y, m
<1>5. DaysBefore(y, m) = DaysBefore(d.year, d.month) + MonthLength(d.year, d.month)
  BY <1>1, <1>2, DaysBeforeNext
<1>6. DaysBefore(d.year, d.month) \in Int /\ MonthLength(d.year, d.month) \in Int
  BY <1>1, DaysBeforeNext, MonthLengths
<1>7. Ordinal(NextMonth(d, 1)) = DaysBefore(y, m) + 1
  BY <1>4 DEF Ordinal
<1> QED
  BY <1>1, <1>5, <1>6, <1>7 DEF Ordinal

LEMMA PlusDaysIsLater ==
    ASSUME NEW d \in Dates, NEW n \in 1 .. 28
    PROVE  PlusDays(d, n) \in Dates /\ Ordinal(PlusDays(d, n)) = Ordinal(d) + n
<1> DEFINE length == MonthLength(d.year, d.month)
           f == NextMonth(d, 1)
<1>1. d.year \in Nat /\ d.month \in 1 .. 12 /\ d.day \in 1 .. length /\ length \in 28 .. 31
  BY DateType, MonthLengths
<1>2. DaysBefore(d.year, d.month) \in Int
  BY <1>1, DaysBeforeNext
<1>3. CASE d.day + n <= length
  <2>1. PlusDays(d, n) = [year |-> d.year, month |-> d.month, day |-> d.day + n]
    BY <1>3, DateType DEF PlusDays
  <2>2. d.day + n \in 1 .. 31 /\ d.day + n <= MonthLength(d.year, d.month)
    BY <1>1, <1>3
  <2>3. PlusDays(d, n) \in Dates
    BY <1>1, <2>1, <2>2, IntDates
  <2> QED
    BY <1>1, <1>2, <2>1, <2>3 DEF Ordinal
<1>4. CASE d.day + n > length
  <2>1. f \in Dates /\ f.day = 1
    <3>1. f \in Dates /\ f.day = Lower(1, MonthLength(f.year, f.month))
      BY NextMonthType
    <3>2. f.year \in Nat /\ f.month \in 1 .. 12
      BY <3>1, DateType
    <3> HIDE DEF f
    <3>3. MonthLength(f.year, f.month) \in 28 .. 31
      BY <3>2, MonthLengths
    <3> QED
      BY <3>1, <3>3 DEF Lower
  <2> HIDE DEF f, length
  <2>2. PlusDays(d, n) = [f EXCEPT !.day = d.day + n - length]
    BY <1>1, <1>4 DEF PlusDays, f, length
  <2>3. PlusDays(d, n) = [year |-> f.year, month |-> f.month, day |-> d.day + n - length]
    BY <2>1, <2>2, DateType
  <2>4. d.day + n - length \in 1 .. 28
    BY <1>1, <1>4
  <2>5. f.year \in Nat /\ f.month \in 1 .. 12 /\ MonthLength(f.year, f.month) \in 28 .. 31
    BY <2>1, DateType, MonthLengths
  <2>6. PlusDays(d, n) \in Dates
    <3>1. /\ d.day + n - length \in 1 .. 31
          /\ d.day + n - length <= MonthLength(f.year, f.month)
      BY <2>4, <2>5
    <3> QED
      BY <2>3, <2>5, <3>1, IntDates
  <2>7. DaysBefore(f.year, f.month) \in Int
    BY <2>5, DaysBeforeNext
  <2>8. Ordinal(f) = Ordinal(d) + length - d.day + 1
    BY FirstOfNextMonth DEF f, length
  <2> QED
    BY <1>1, <1>2, <2>1, <2>3, <2>4, <2>6, <2>7, <2>8 DEF Ordinal
<1> QED
  BY <1>1, <1>3, <1>4

-----------------------------------------------------------------------------
(* Runs.                                                                   *)

LEMMA AdvanceType ==
    ASSUME NEW d \in Dates, NEW f \in Frequencies, NEW a \in 1 .. 31
    PROVE  Advance(d, f, a) \in Dates
  BY PlusDaysIsLater, NextMonthType DEF Advance, Frequencies

\* The run after the k-th is the next of the same sequence: months do not
\* shorten the anchor day for good, weeks count through their ends.
LEMMA RunsAdvance ==
    ASSUME NEW start \in Dates, NEW d \in Dates, NEW k \in Nat, NEW f \in Frequencies,
           NEW a \in 1 .. 31, IsRun(d, start, k, f, a)
    PROVE  IsRun(Advance(d, f, a), start, k + 1, f, a)
<1>1. k = 0 => d = start
  BY DEF IsRun
<1>2. \A e \in Dates : Ordinal(e) \in Int /\ MonthNumber(e) \in Int
  <2> SUFFICES ASSUME NEW e \in Dates
               PROVE  Ordinal(e) \in Int /\ MonthNumber(e) \in Int
    OBVIOUS
  <2> QED
    BY DateType, DaysBeforeNext DEF Ordinal, MonthNumber
<1>3. CASE f = "weekly"
  <2>1. Ordinal(d) = Ordinal(start) + 7 * k
    BY <1>1, <1>2, <1>3 DEF IsRun
  <2>2. Ordinal(Advance(d, f, a)) = Ordinal(d) + 7
    BY <1>3, PlusDaysIsLater DEF Advance
  <2> QED
    BY <1>2, <1>3, <2>1, <2>2 DEF IsRun
<1>4. CASE f = "fortnightly"
  <2>1. Ordinal(d) = Ordinal(start) + 14 * k
    BY <1>1, <1>2, <1>4 DEF IsRun
  <2>2. Ordinal(Advance(d, f, a)) = Ordinal(d) + 14
    BY <1>4, PlusDaysIsLater DEF Advance
  <2> QED
    BY <1>2, <1>4, <2>1, <2>2 DEF IsRun
<1>5. CASE f = "monthly"
  <2>1. MonthNumber(d) = MonthNumber(start) + k
    BY <1>1, <1>2, <1>5 DEF IsRun
  <2>2. Advance(d, f, a) = NextMonth(d, a)
    BY <1>5 DEF Advance
  <2> DEFINE g == NextMonth(d, a)
  <2>3. /\ MonthNumber(g) = MonthNumber(d) + 1
        /\ g.day = Lower(a, MonthLength(g.year, g.month))
    BY NextMonthType
  <2> HIDE DEF g
  <2>4. MonthNumber(g) = MonthNumber(start) + (k + 1)
    BY <1>2, <2>1, <2>3
  <2>5. k + 1 # 0 /\ k + 1 > 0
    OBVIOUS
  <2>6. IsRun(g, start, k + 1, f, a)
    BY <1>5, <2>3, <2>4, <2>5 DEF IsRun
  <2> QED
    BY <2>2, <2>6 DEF g
<1> QED
  BY <1>3, <1>4, <1>5 DEF Frequencies

-----------------------------------------------------------------------------
(* The order of dates.                                                     *)

LEMMA NotAfterOrder ==
    ASSUME NEW d \in Dates, NEW e \in Dates, NEW f \in Dates
    PROVE  /\ NotAfter(d, d)
           /\ NotAfter(d, e) \/ NotAfter(e, d)
           /\ NotAfter(d, e) /\ NotAfter(e, f) => NotAfter(d, f)
<1>1. \A g \in Dates : g.year \in Nat /\ g.month \in Nat /\ g.day \in Nat
  BY DateType
<1> QED
  BY <1>1 DEF NotAfter

LEMMA YearDaysGrow ==
    ASSUME NEW x \in Int, NEW y \in Int, x <= y
    PROVE  YearDays(x) <= YearDays(y)
<1>1. x \div 4 <= y \div 4 /\ x \div 400 <= y \div 400
  OBVIOUS
<1>2. (y \div 100) - (x \div 100) <= y - x
  OBVIOUS
<1>3. /\ x \div 4 \in Int /\ x \div 100 \in Int /\ x \div 400 \in Int
      /\ y \div 4 \in Int /\ y \div 100 \in Int /\ y \div 400 \in Int
  OBVIOUS
<1> QED
  BY <1>1, <1>2, <1>3 DEF YearDays

\* Days are numbered in their order.
LEMMA OrdinalGrows ==
    ASSUME NEW d \in Dates, NEW e \in Dates, NotAfter(d, e)
    PROVE  Ordinal(d) \in Int /\ Ordinal(e) \in Int /\ Ordinal(d) <= Ordinal(e)
<1> DEFINE Y(g) == IF g.month <= 2 THEN g.year - 1 ELSE g.year
           M(g) == IF g.month <= 2 THEN g.month + 9 ELSE g.month - 3
<1>1. ASSUME NEW g \in Dates
      PROVE  /\ Y(g) \in Int /\ M(g) \in 0 .. 11 /\ g.day \in 1 .. 31
             /\ Ordinal(g) = YearDays(Y(g)) + MonthDays(M(g)) + g.day
             /\ MonthDays(M(g)) \in Nat
             /\ M(g) < 11 => MonthDays(M(g)) + g.day <= MonthDays(M(g) + 1)
             /\ YearDays(Y(g)) + MonthDays(M(g)) + g.day <= YearDays(Y(g) + 1)
             /\ YearDays(Y(g)) \in Int /\ YearDays(Y(g) + 1) \in Int
  <2>1. /\ g.year \in Nat /\ g.month \in 1 .. 12 /\ g.day \in 1 .. 31
        /\ g.day <= MonthLength(g.year, g.month)
    BY DateType
  <2>2. Ordinal(g) = YearDays(Y(g)) + MonthDays(M(g)) + g.day
    BY <2>1, MonthFromMarch DEF Ordinal, DaysBefore
  <2>3. YearDays(Y(g)) \in Int /\ YearDays(Y(g) + 1) \in Int
    BY <2>1, YearDaysStep
  <2>4. YearDays(Y(g) + 1) = YearDays(Y(g)) + (IF Leap(Y(g) + 1) THEN 366 ELSE 365)
    <3>1. YearDays(Y(g) + 1) = YearDays(Y(g) + 1 - 1) + (IF Leap(Y(g) + 1) THEN 366 ELSE 365)
      BY <2>1, YearDaysStep
    <3>2. Y(g) + 1 - 1 = Y(g)
      BY <2>1
    <3> QED
      BY <3>1, <3>2
  <2>5. g.month <= 2 => Y(g) + 1 = g.year
    BY <2>1
  <2>6. M(g) < 11 => MonthDays(M(g)) + g.day <= MonthDays(M(g) + 1)
    BY <2>1, MonthDaysTable DEF MonthLength
  <2>7. MonthDays(M(g)) + g.day <= IF Leap(Y(g) + 1) THEN 366 ELSE 365
    BY <2>1, <2>5, MonthDaysTable DEF MonthLength
  <2>8. Y(g) \in Int /\ M(g) \in 0 .. 11
    BY <2>1
  <2>9. MonthDays(M(g)) \in Nat
    BY <2>8, MonthDaysTable
  <2> HIDE DEF Y, M
  <2> QED
    BY <2>1, <2>2, <2>3, <2>4, <2>6, <2>7, <2>8, <2>9
<1>2. /\ d.year \in Nat /\ d.month \in 1 .. 12 /\ d.day \in 1 .. 31
      /\ e.year \in Nat /\ e.month \in 1 .. 12 /\ e.day \in 1 .. 31
  BY DateType
<1>3. \/ Y(d) < Y(e)
      \/ Y(d) = Y(e) /\ M(d) < M(e)
      \/ Y(d) = Y(e) /\ M(d) = M(e) /\ d.day <= e.day
  BY <1>2 DEF NotAfter
<1>4. \A x, y \in 0 .. 11 : x <= y => MonthDays(x) <= MonthDays(y)
  BY MonthDaysTable
<1>5. Y(d) < Y(e) => YearDays(Y(d) + 1) <= YearDays(Y(e))
  BY <1>2, YearDaysGrow
<1>6. M(d) < M(e) => M(d) < 11 /\ MonthDays(M(d) + 1) <= MonthDays(M(e)) /\ MonthDays(M(d) + 1) \in Int
  BY <1>2, <1>4, MonthDaysTable
<1> HIDE DEF Y, M
<1>7. CASE Y(d) < Y(e)
  BY <1>1, <1>5, <1>7
<1>8. CASE Y(d) = Y(e) /\ M(d) < M(e)
  <2>1. YearDays(Y(d)) = YearDays(Y(e)) /\ MonthDays(M(d)) + d.day <= MonthDays(M(e))
    BY <1>1, <1>6, <1>8
  <2> QED
    BY <1>1, <2>1
<1>9. CASE Y(d) = Y(e) /\ M(d) = M(e) /\ d.day <= e.day
  <2>1. YearDays(Y(d)) = YearDays(Y(e)) /\ MonthDays(M(d)) = MonthDays(M(e))
    BY <1>9
  <2> QED
    BY <1>1, <1>9, <2>1
<1> QED
  BY <1>3, <1>7, <1>8, <1>9

LEMMA RunStarts ==
    ASSUME NEW d \in Dates, NEW f, NEW a
    PROVE  IsRun(d, d, 0, f, a)
<1>1. Ordinal(d) \in Int
  BY NotAfterOrder, OrdinalGrows
<1> QED
  BY <1>1 DEF IsRun

-----------------------------------------------------------------------------
(* Ticks.                                                                  *)

\* What may stand in job[s].
JobOK(j) ==
    /\ j = [phase |-> j.phase, todo |-> j.todo, bill |-> j.bill, round |-> j.round,
            read |-> j.read]
    /\ j.phase \in Phases /\ j.round \in 0 .. MAX_CATCHUP_PERIODS
    /\ j.phase = "idle" => j = Idle
    /\ j.phase \in {"bills", "post"} => j.todo \subseteq Bills
    /\ j.phase = "bills" /\ j.round < MAX_CATCHUP_PERIODS => j.bill \in Bills
    /\ j.phase = "post" => j.bill \in Bills /\ j.read \in Dates /\ j.round < MAX_CATCHUP_PERIODS
    /\ j.phase = "remind" => j.todo \subseteq ReminderRows
    /\ j.phase = "documents" => j.todo \subseteq Documents /\ j.read \subseteq j.todo

\* Only the holder of the lock is at work.
Ticks ==
    /\ job = [s \in Schedulers |-> job[s]]
    /\ \A s \in Schedulers : JobOK(job[s]) /\ (job[s] = Idle \/ lock = s)

LEMMA IdleOK == JobOK(Idle) /\ Idle.phase = "idle"
  BY DEF JobOK, Idle, At, Phases, MAX_CATCHUP_PERIODS

LEMMA PutType ==
    ASSUME Ticks, NEW s \in Schedulers, NEW j, Put(s, j)
    PROVE  /\ job' = [t \in Schedulers |-> job'[t]]
           /\ job'[s] = j
           /\ \A t \in Schedulers \ {s} : job'[t] = job[t]
  BY DEF Ticks, Put

\* The holder goes on, or gives the lock back; or somebody takes it.
LEMMA HolderSteps ==
    ASSUME Ticks, lock \in Schedulers \cup {None},
           NEW s \in Schedulers, job[s] # Idle \/ lock = None,
           NEW j, JobOK(j), Put(s, j), lock' = s \/ (lock' = None /\ j = Idle)
    PROVE  Ticks' /\ lock' \in Schedulers \cup {None}
<1>1. \A t \in Schedulers \ {s} : job'[t] = Idle
  BY PutType, NoneAssumption DEF Ticks
<1> QED
  BY <1>1, PutType, IdleOK DEF Ticks

LEMMA RemindersType == ASSUME TypeOK, reminderDays # Malformed PROVE Reminders \subseteq ReminderRows
<1> SUFFICES ASSUME NEW m \in InDebt, NEW t \in ReachedTier(since[m])
             PROVE  [member |-> m, debt |-> since[m], tier |-> t] \in ReminderRows
  BY DEF Reminders
<1>1. m \in Members /\ since[m] \in Dates
  BY DEF InDebt, TypeOK
<1>2. t \in Nat
  BY ConstantsAssumption DEF ReachedTier, TypeOK
<1> QED
  BY <1>1, <1>2 DEF ReminderRows

\* Every step of a tick moves one scheduler, which has or takes the lock.
LEMMA TickStepsTick ==
    ASSUME TypeOK, Ticks, NEW s \in Schedulers,
           \/ StartTick(s) \/ ReadBill(s) \/ PostBill(s) \/ CannotSplit(s)
           \/ StartReminders(s) \/ SendReminder(s) \/ ReadStale(s) \/ DeleteRows(s)
           \/ DeleteObject(s) \/ Fail(s)
    PROVE  Ticks' /\ lock' \in Schedulers \cup {None}
<1> USE DEF MAX_CATCHUP_PERIODS
<1>0. lock \in Schedulers \cup {None} /\ JobOK(job[s])
  BY DEF TypeOK, Ticks
<1>i. job[s].phase # "idle" => job[s] # Idle /\ lock = s
  BY IdleOK DEF Ticks
<1>1. CASE StartTick(s)
  <2> DEFINE j == [At("bills", DueBills) EXCEPT !.round = MAX_CATCHUP_PERIODS]
  <2>1. JobOK(j)
    <3>1. j = [phase |-> "bills", todo |-> DueBills, bill |-> None,
               round |-> MAX_CATCHUP_PERIODS, read |-> None]
      BY DEF At
    <3> HIDE DEF j
    <3> QED
      BY <3>1 DEF JobOK, DueBills, Phases
  <2> QED
    BY <1>0, <1>1, <2>1, HolderSteps DEF StartTick
<1>2. CASE ReadBill(s)
  <2>1. lock = s /\ job[s] # Idle /\ job[s].phase = "bills" /\ lock' = lock
    BY <1>2, <1>i DEF ReadBill
  <2>2. PICK b \in IF job[s].round < MAX_CATCHUP_PERIODS THEN {job[s].bill} ELSE job[s].todo :
            IF IsDue(b)
            THEN Put(s, [phase |-> "post", todo |-> job[s].todo \ {b}, bill |-> b,
                         read |-> bill[b].next,
                         round |-> IF b \in job[s].todo THEN 0 ELSE job[s].round])
            ELSE Put(s, [At("bills", job[s].todo \ {b}) EXCEPT !.round = MAX_CATCHUP_PERIODS])
    BY <1>2 DEF ReadBill
  <2>3. b \in Bills /\ job[s].todo \ {b} \subseteq Bills /\ job[s].round \in 0 .. 3
    BY <1>0, <2>1, <2>2 DEF JobOK
  <2>4. CASE IsDue(b)
    <3> DEFINE j == [phase |-> "post", todo |-> job[s].todo \ {b}, bill |-> b,
                     read |-> bill[b].next,
                     round |-> IF b \in job[s].todo THEN 0 ELSE job[s].round]
    <3>1. bill[b].next \in Dates
      BY <2>3, <2>4 DEF IsDue, TypeOK, BillRows
    <3>2. j.round \in 0 .. 2
      BY <2>2, <2>3
    <3>3. JobOK(j)
      BY <2>3, <3>1, <3>2 DEF JobOK, Phases
    <3> QED
      BY <1>0, <2>1, <2>2, <2>4, <3>3, HolderSteps
  <2>5. CASE ~IsDue(b)
    <3> DEFINE j == [At("bills", job[s].todo \ {b}) EXCEPT !.round = MAX_CATCHUP_PERIODS]
    <3>1. JobOK(j)
      BY <2>3 DEF JobOK, Phases, At
    <3> QED
      BY <1>0, <2>1, <2>2, <2>5, <3>1, HolderSteps
  <2> QED
    BY <2>4, <2>5
<1>3. CASE PostBill(s)
  <2>1. lock = s /\ job[s] # Idle /\ job[s].phase = "post" /\ lock' = lock
    BY <1>3, <1>i DEF PostBill
  <2> DEFINE j == [phase |-> "bills", todo |-> job[s].todo, bill |-> job[s].bill,
                   round |-> job[s].round + 1, read |-> None]
  <2>2. JobOK(j)
    <3>1. /\ job[s].bill \in Bills /\ job[s].todo \subseteq Bills
          /\ job[s].round + 1 \in 0 .. MAX_CATCHUP_PERIODS
      BY <1>0, <2>1 DEF JobOK
    <3> QED
      BY <3>1 DEF JobOK, Phases
  <2>3. Put(s, j)
    BY <1>3 DEF PostBill
  <2> QED
    BY <1>0, <2>1, <2>2, <2>3, HolderSteps
<1>4. CASE CannotSplit(s) \/ DeleteRows(s) \/ Fail(s)
  <2>1. job[s] # Idle
    BY <1>4, <1>i DEF CannotSplit, DeleteRows, Fail
  <2>2. lock' = None /\ Put(s, Idle)
    BY <1>4 DEF CannotSplit, DeleteRows, Fail, Unlock
  <2> QED
    BY <1>0, <2>1, <2>2, IdleOK, HolderSteps
<1>5. CASE StartReminders(s)
  <2>1. lock = s /\ job[s] # Idle
    BY <1>5, <1>i DEF StartReminders
  <2>2. CASE Put(s, At("remind", {})) /\ lock' = lock
    <3>1. JobOK(At("remind", {}))
      BY DEF JobOK, At, Phases
    <3> QED
      BY <1>0, <2>1, <2>2, <3>1, HolderSteps
  <2>3. CASE reminderDays # Malformed /\ Put(s, At("remind", Reminders)) /\ lock' = lock
    <3>1. JobOK(At("remind", Reminders))
      BY <2>3, RemindersType DEF JobOK, At, Phases
    <3> QED
      BY <1>0, <2>1, <2>3, <3>1, HolderSteps
  <2>4. CASE lock' = None /\ Put(s, Idle)
    BY <1>0, <2>1, <2>4, IdleOK, HolderSteps
  <2> QED
    BY <1>5, <2>2, <2>3, <2>4 DEF StartReminders, Unlock
<1>6. CASE SendReminder(s)
  <2>1. lock = s /\ job[s] # Idle /\ job[s].phase = "remind" /\ lock' = lock
    BY <1>6, <1>i DEF SendReminder
  <2>2. PICK r \in job[s].todo : Put(s, At("remind", job[s].todo \ {r}))
    BY <1>6 DEF SendReminder
  <2>3. JobOK(At("remind", job[s].todo \ {r}))
    BY <1>0, <2>1 DEF JobOK, At, Phases
  <2> QED
    BY <1>0, <2>1, <2>2, <2>3, HolderSteps
<1>7. CASE ReadStale(s)
  <2>1. lock = s /\ job[s] # Idle /\ lock' = lock
    BY <1>7, <1>i DEF ReadStale
  <2> DEFINE j == [At("documents", StaleDocuments) EXCEPT !.read = StaleDocuments]
  <2>2. JobOK(j)
    <3>1. j = [phase |-> "documents", todo |-> StaleDocuments, bill |-> None, round |-> 0,
               read |-> StaleDocuments]
      BY DEF At
    <3> HIDE DEF j
    <3> QED
      BY <3>1 DEF JobOK, Phases, StaleDocuments
  <2> QED
    BY <1>0, <1>7, <2>1, <2>2, HolderSteps DEF ReadStale
<1>8. CASE DeleteObject(s)
  <2>1. lock = s /\ job[s] # Idle /\ job[s].phase = "documents" /\ lock' = lock
    BY <1>8, <1>i DEF DeleteObject
  <2>2. PICK d \in job[s].read : Put(s, [job[s] EXCEPT !.read = @ \ {d}])
    BY <1>8 DEF DeleteObject
  <2> DEFINE j == [job[s] EXCEPT !.read = @ \ {d}]
  <2>3. JobOK(j)
    BY <1>0, <2>1 DEF JobOK, Phases
  <2> QED
    BY <1>0, <2>1, <2>2, <2>3, HolderSteps
<1> QED
  BY <1>1, <1>2, <1>3, <1>4, <1>5, <1>6, <1>7, <1>8

-----------------------------------------------------------------------------
(* Types.                                                                  *)

BillTypes ==
    /\ bill \in [Bills -> BillRows \cup {None}]
    /\ first \in [Bills -> Dates \cup {None}]
    /\ \A b \in Bills : bill[b] # None => first[b] # None
    /\ billed \in [Bills -> Seq(Dates)]
    /\ unsplittable \subseteq Bills /\ clashed \subseteq Bills

DebtTypes ==
    /\ since \in [Members -> Dates \cup {None}]
    /\ reminderDays \in TierChoices \cup {Malformed}
    /\ reminders \in Seq(ReminderRows)

DocumentTypes ==
    /\ document \in [Documents -> DocumentRows \cup {None}]
    /\ stored \subseteq Documents /\ attached \subseteq Documents
    /\ confirming \subseteq Documents /\ excused \subseteq Documents

\* Bills do not go away, so that one that is to be posted is there.
Posting == \A s \in Schedulers : job[s].phase = "post" => bill[job[s].bill] # None

Types == TypeOK /\ Ticks /\ Posting

LEMMA TypeParts ==
    Types <=> /\ today \in Dates /\ events \in 0 .. MaxEvents /\ lock \in Schedulers \cup {None}
              /\ BillTypes /\ DebtTypes /\ DocumentTypes /\ Ticks /\ Posting
  BY DEF Types, TypeOK, BillTypes, DebtTypes, DocumentTypes, Ticks, JobOK

LEMMA BillTypesStay ==
    ASSUME BillTypes, NEW b \in Bills, BillRequest(b)
    PROVE  BillTypes'
<1>1. CASE CreateBill(b)
  <2>1. PICK c \in Schedules :
          /\ bill' = [bill EXCEPT ![b] =
                [frequency |-> c.frequency, anchor |-> c.anchor, next |-> c.next, paused |-> FALSE]]
          /\ first' = [first EXCEPT ![b] = c.next]
          /\ UNCHANGED <<unsplittable, billed, clashed>>
    BY <1>1 DEF CreateBill
  <2>2. /\ c.next \in Dates /\ c.next # None
        /\ [frequency |-> c.frequency, anchor |-> c.anchor, next |-> c.next, paused |-> FALSE] \in BillRows
    BY ConstantsAssumption, NoneAssumption DEF BillRows
  <2> QED
    BY <2>1, <2>2 DEF BillTypes
<1>2. CASE PatchBill(b)
  <2>1. bill[b] \in BillRows /\ bill[b] # None /\ UNCHANGED unsplittable
    BY <1>2 DEF PatchBill, BillTypes
  <2>2. CASE bill' = [bill EXCEPT ![b].paused = ~@] /\ UNCHANGED <<first, billed, clashed>>
    <3>1. bill' = [bill EXCEPT ![b] = [bill[b] EXCEPT !.paused = ~bill[b].paused]]
      BY <2>1, <2>2 DEF BillTypes
    <3>2. [bill[b] EXCEPT !.paused = ~bill[b].paused] \in BillRows
      BY <2>1 DEF BillRows
    <3> QED
      BY <2>1, <2>2, <3>1, <3>2 DEF BillTypes
  <2>3. ASSUME NEW d \in Days,
               /\ bill' = [bill EXCEPT ![b].next = d]
               /\ first' = [first EXCEPT ![b] = d]
               /\ billed' = [billed EXCEPT ![b] = <<>>]
               /\ clashed' \subseteq clashed \cup {b}
        PROVE  BillTypes'
    <3>1. d \in Dates /\ d # None
      BY ConstantsAssumption, NoneAssumption
    <3>2. [bill[b] EXCEPT !.next = d] \in BillRows
      BY <2>1, <3>1 DEF BillRows
    <3>3. bill' = [bill EXCEPT ![b] = [bill[b] EXCEPT !.next = d]]
      BY <2>1, <2>3 DEF BillTypes
    <3>4. <<>> \in Seq(Dates)
      OBVIOUS
    <3> QED
      BY <2>1, <2>3, <3>1, <3>2, <3>3, <3>4 DEF BillTypes
  <2> QED
    BY <1>2, <2>2, <2>3 DEF PatchBill
<1>3. CASE ChangeRule(b)
  BY <1>3 DEF ChangeRule, BillTypes
<1> QED
  BY <1>1, <1>2, <1>3 DEF BillRequest

\* A bill that has been billed, and when it runs next.
LEMMA PostBillWrites ==
    ASSUME Types, NEW s \in Schedulers, PostBill(s)
    PROVE  LET b == job[s].bill
               next == Advance(job[s].read, bill[b].frequency, bill[b].anchor)
           IN  /\ b \in Bills /\ bill[b] \in BillRows /\ next \in Dates
               /\ job[s].read \in Dates
               /\ bill' = [bill EXCEPT ![b] = [bill[b] EXCEPT !.next = next]]
               /\ bill'[b] \in BillRows /\ bill'[b].next = next
               /\ bill'[b].frequency = bill[b].frequency /\ bill'[b].anchor = bill[b].anchor
               /\ billed' = [billed EXCEPT ![b] = Append(billed[b], job[s].read)]
               /\ UNCHANGED <<unsplittable, first, clashed, debtVars, documentVars, lock>>
<1> DEFINE b == job[s].bill
           next == Advance(job[s].read, bill[b].frequency, bill[b].anchor)
<1>1. b \in Bills /\ job[s].read \in Dates
  BY DEF Types, Ticks, JobOK, PostBill
<1>2. bill[b] \in BillRows
  BY <1>1 DEF Types, TypeOK, Posting, PostBill
<1>3. next \in Dates
  BY <1>1, <1>2, AdvanceType DEF BillRows
<1>4. bill' = [bill EXCEPT ![b] = [bill[b] EXCEPT !.next = next]]
  BY <1>1, <1>2 DEF PostBill, Types, TypeOK
<1>5. billed' = [billed EXCEPT ![b] = Append(billed[b], job[s].read)]
  BY <1>1 DEF PostBill, Types, TypeOK
<1> HIDE DEF next
<1>6. bill'[b] = [bill[b] EXCEPT !.next = next]
  BY <1>1, <1>4 DEF Types, TypeOK
<1>7. /\ bill'[b] \in BillRows /\ bill'[b].next = next
      /\ bill'[b].frequency = bill[b].frequency /\ bill'[b].anchor = bill[b].anchor
  BY <1>2, <1>3, <1>6 DEF BillRows
<1>8. UNCHANGED <<unsplittable, first, clashed, debtVars, documentVars, lock>>
  BY DEF PostBill
<1> QED
  BY <1>1, <1>2, <1>3, <1>4, <1>5, <1>7, <1>8 DEF next

LEMMA PostedTypes ==
    ASSUME Types, NEW s \in Schedulers, PostBill(s)
    PROVE  BillTypes'
<1> DEFINE b == job[s].bill
<1>1. b \in Bills /\ job[s].read \in Dates /\ bill'[b] \in BillRows
  BY PostBillWrites
<1>2. billed[b] \in Seq(Dates) /\ bill[b] # None
  BY <1>1 DEF Types, TypeOK, Posting, PostBill
<1>3. Append(billed[b], job[s].read) \in Seq(Dates)
  BY <1>1, <1>2
<1>4. /\ bill' = [bill EXCEPT ![b] = bill'[b]]
      /\ billed' = [billed EXCEPT ![b] = Append(billed[b], job[s].read)]
      /\ UNCHANGED <<unsplittable, first, clashed>>
  BY <1>1, PostBillWrites DEF Types, TypeOK
<1> QED
  BY <1>1, <1>2, <1>3, <1>4 DEF Types, TypeOK, BillTypes

LEMMA DocumentRequestTypes ==
    ASSUME DocumentTypes, today \in Dates, NEW d \in Documents, DocumentRequest(d)
    PROVE  DocumentTypes'
<1>1. CASE CreateDocument(d)
  <2>1. [status |-> "pending", created |-> today] \in DocumentRows
    BY DEF DocumentRows
  <2> QED
    BY <1>1, <2>1 DEF CreateDocument, DocumentTypes
<1>2. CASE Upload(d) \/ AttachDocument(d) \/ HeadDocument(d)
  BY <1>2 DEF Upload, AttachDocument, HeadDocument, DocumentTypes
<1>3. CASE ConfirmDocument(d)
  <2>1. CASE document[d] = None
    BY <1>3, <2>1 DEF ConfirmDocument, DocumentTypes
  <2>2. CASE document[d] # None
    <3>1. document[d] \in DocumentRows
      BY <2>2 DEF DocumentTypes
    <3>2. [document[d] EXCEPT !.status = "uploaded"] \in DocumentRows
      BY <3>1 DEF DocumentRows
    <3>3. document' = [document EXCEPT ![d] = [document[d] EXCEPT !.status = "uploaded"]]
      BY <1>3, <2>2 DEF ConfirmDocument, DocumentTypes
    <3> QED
      BY <1>3, <3>2, <3>3 DEF ConfirmDocument, DocumentTypes
  <2> QED
    BY <2>1, <2>2
<1> QED
  BY <1>1, <1>2, <1>3 DEF DocumentRequest

LEMMA SweepTypes ==
    ASSUME Types, NEW s \in Schedulers, ReadStale(s) \/ DeleteObject(s) \/ DeleteRows(s)
    PROVE  DocumentTypes'
<1>0. DocumentTypes /\ JobOK(job[s])
  BY TypeParts DEF Ticks
<1>1. CASE ReadStale(s)
  BY <1>0, <1>1 DEF ReadStale, DocumentTypes
<1>2. CASE DeleteObject(s)
  <2>1. job[s].read \subseteq Documents
    BY <1>0, <1>2 DEF DeleteObject, JobOK
  <2> QED
    BY <1>0, <1>2, <2>1 DEF DeleteObject, DocumentTypes
<1>3. CASE DeleteRows(s)
  BY <1>0, <1>3 DEF DeleteRows, DocumentTypes
<1> QED
  BY <1>1, <1>2, <1>3

LEMMA DebtRequestTypes ==
    ASSUME DebtTypes, today \in Dates,
           PatchHouse \/ \E m \in Members : Borrow(m) \/ Repay(m)
    PROVE  DebtTypes'
  BY DEF PatchHouse, Borrow, Repay, DebtTypes

LEMMA ReminderTypes ==
    ASSUME Types, NEW s \in Schedulers, SendReminder(s)
    PROVE  DebtTypes'
<1>1. DebtTypes /\ job[s].todo \subseteq ReminderRows
  BY TypeParts DEF Ticks, JobOK, SendReminder
<1>2. \A r \in ReminderRows : Append(reminders, r) \in Seq(ReminderRows)
  BY <1>1 DEF DebtTypes
<1> QED
  BY <1>1, <1>2 DEF SendReminder, DebtTypes

\* No step takes a bill away.
LEMMA BillsStay ==
    ASSUME Types, [Next]_vars, NEW b \in Bills, bill[b] # None
    PROVE  bill'[b] # None
<1>1. bill \in [Bills -> BillRows \cup {None}]
  BY DEF Types, TypeOK
<1>2. CASE UNCHANGED bill
  BY <1>2
<1>3. ASSUME NEW s \in Schedulers, PostBill(s)
      PROVE  bill'[b] # None
  <2>1. bill'[job[s].bill] # None /\ (b # job[s].bill => bill'[b] = bill[b])
    BY <1>1, <1>3, PostBillWrites, NoneAssumption
  <2> QED
    BY <2>1
<1>4. ASSUME NEW c \in Bills, BillRequest(c)
      PROVE  bill'[b] # None
  <2>1. CASE CreateBill(c)
    BY <1>1, <2>1 DEF CreateBill
  <2>2. CASE PatchBill(c) \/ ChangeRule(c)
    <3>1. \A d \in Dates : [bill[b] EXCEPT !.next = d] \in BillRows
      BY <1>1 DEF BillRows
    <3>2. [bill[b] EXCEPT !.paused = ~bill[b].paused] \in BillRows
      BY <1>1 DEF BillRows
    <3>3. \/ bill'[b] = bill[b]
          \/ bill'[b] = [bill[b] EXCEPT !.paused = ~bill[b].paused]
          \/ \E d \in Days : bill'[b] = [bill[b] EXCEPT !.next = d]
      BY <1>1, <2>2 DEF PatchBill, ChangeRule
    <3> QED
      BY <3>1, <3>2, <3>3, ConstantsAssumption, NoneAssumption
  <2> QED
    BY <1>4, <2>1, <2>2 DEF BillRequest
<1> QED
  BY <1>2, <1>3, <1>4 DEF Next, NextDay, Disturbance, TickStep, vars, billVars,
     StartTick, ReadBill, CannotSplit, StartReminders, SendReminder, ReadStale, DeleteRows,
     DeleteObject, Fail

\* A scheduler's job is changed by that scheduler's steps.
LEMMA JobMoves ==
    ASSUME Ticks, [Next]_vars, NEW s \in Schedulers, job'[s] # job[s]
    PROVE  \/ StartTick(s) \/ ReadBill(s) \/ PostBill(s) \/ CannotSplit(s)
           \/ StartReminders(s) \/ SendReminder(s) \/ ReadStale(s) \/ DeleteRows(s)
           \/ DeleteObject(s) \/ Fail(s)
<1>1. ASSUME NEW t \in Schedulers, t # s
      PROVE  (\E j : Put(t, j)) => job'[s] = job[s]
  BY <1>1, PutType
<1>2. ASSUME NEW t \in Schedulers,
             \/ StartTick(t) \/ ReadBill(t) \/ PostBill(t) \/ CannotSplit(t)
             \/ StartReminders(t) \/ SendReminder(t) \/ ReadStale(t) \/ DeleteRows(t)
             \/ DeleteObject(t) \/ Fail(t)
      PROVE  \E j : Put(t, j)
  BY <1>2 DEF StartTick, ReadBill, PostBill, CannotSplit, StartReminders, SendReminder,
     ReadStale, DeleteRows, DeleteObject, Fail, Unlock
<1>3. ~UNCHANGED job
  OBVIOUS
<1> QED
  BY <1>1, <1>2, <1>3 DEF Next, NextDay, Disturbance, TickStep, vars, tickVars

LEMMA TicksTakeNoDay ==
    ASSUME [Next]_vars, job' # job
    PROVE  UNCHANGED today
  BY DEF Next, NextDay, Disturbance, TickStep, vars, tickVars

\* What is to be posted was due, and is what was read.
LEMMA PostsAsRead ==
    ASSUME Types, [Next]_vars, NEW s \in Schedulers, job'[s].phase = "post", job'[s] # job[s]
    PROVE  /\ IsDue(job'[s].bill) /\ job'[s].read = bill[job'[s].bill].next
           /\ UNCHANGED <<today, billVars>>
<1>1. Ticks /\ JobOK(job[s])
  BY DEF Types, Ticks
<1>2. ASSUME NEW j, Put(s, j)
      PROVE  job'[s] = j
  BY <1>1, <1>2, PutType
<1>3. ReadBill(s)
  <2>1. /\ ~StartTick(s)
        /\ ~ReadStale(s)
        /\ ~SendReminder(s)
        /\ ~StartReminders(s)
    <3>1. \A todo : /\ [At("bills", todo) EXCEPT !.round = MAX_CATCHUP_PERIODS].phase # "post"
                    /\ [At("documents", todo) EXCEPT !.read = todo].phase # "post"
                    /\ At("remind", todo).phase # "post"
                    /\ Idle.phase # "post"
      BY DEF At, Idle
    <3>2. ~StartTick(s)
      BY <1>2, <3>1 DEF StartTick
    <3>3. ~ReadStale(s)
      BY <1>2, <3>1 DEF ReadStale
    <3>4. ~SendReminder(s)
      BY <1>2, <3>1 DEF SendReminder
    <3>5. ~StartReminders(s)
      BY <1>2, <3>1 DEF StartReminders, Unlock
    <3> QED
      BY <3>2, <3>3, <3>4, <3>5
  <2>2. ~(CannotSplit(s) \/ DeleteRows(s) \/ Fail(s))
    BY <1>2 DEF CannotSplit, DeleteRows, Fail, Unlock, Idle, At
  <2>3. ~PostBill(s)
    BY <1>2 DEF PostBill
  <2>4. ~DeleteObject(s)
    <3> SUFFICES ASSUME DeleteObject(s)
                 PROVE  FALSE
      OBVIOUS
    <3>1. PICK d \in job[s].read : Put(s, [job[s] EXCEPT !.read = job[s].read \ {d}])
      BY <1>1 DEF DeleteObject, JobOK
    <3>2. [job[s] EXCEPT !.read = job[s].read \ {d}].phase = "documents"
      BY <1>1 DEF DeleteObject, JobOK
    <3> QED
      BY <1>2, <3>1, <3>2
  <2> QED
    BY <1>1, <2>1, <2>2, <2>3, <2>4, JobMoves
<1>4. PICK b : IF IsDue(b)
               THEN Put(s, [phase |-> "post", todo |-> job[s].todo \ {b}, bill |-> b,
                            read |-> bill[b].next,
                            round |-> IF b \in job[s].todo THEN 0 ELSE job[s].round])
               ELSE Put(s, [At("bills", job[s].todo \ {b}) EXCEPT !.round = MAX_CATCHUP_PERIODS])
  BY <1>3 DEF ReadBill
<1>5. IsDue(b)
  BY <1>2, <1>4 DEF At
<1>6. UNCHANGED today
  <2>1. job' # job
    OBVIOUS
  <2> QED
    BY <2>1, TicksTakeNoDay
<1> QED
  BY <1>2, <1>3, <1>4, <1>5, <1>6 DEF ReadBill

LEMMA TypesStay == Types /\ [Next]_vars => Types'
<1> SUFFICES ASSUME Types, [Next]_vars
             PROVE  Types'
  OBVIOUS
<1>1. /\ today \in Dates /\ events \in 0 .. MaxEvents /\ lock \in Schedulers \cup {None}
      /\ BillTypes /\ DebtTypes /\ DocumentTypes /\ Ticks /\ Posting
  BY TypeParts
<1>2. /\ UNCHANGED billVars => BillTypes'
      /\ UNCHANGED debtVars => DebtTypes'
      /\ UNCHANGED documentVars => DocumentTypes'
      /\ UNCHANGED tickVars => Ticks' /\ lock' \in Schedulers \cup {None}
  BY <1>1 DEF billVars, debtVars, documentVars, tickVars, BillTypes, DebtTypes, DocumentTypes,
     Ticks
<1>3. today' \in Dates
  BY <1>1, ConstantsAssumption DEF Next, NextDay, Disturbance, TickStep, vars
<1>4. Count => events' \in 0 .. MaxEvents
  BY <1>1, ConstantsAssumption DEF Count
<1>5. events' \in 0 .. MaxEvents
  BY <1>1, <1>4 DEF Next, NextDay, Disturbance, TickStep, DeleteObject, vars
<1> DEFINE Good == /\ BillTypes' /\ DebtTypes' /\ DocumentTypes' /\ Ticks'
                   /\ lock' \in Schedulers \cup {None}
<1>6. ASSUME NextDay \/ UNCHANGED vars
      PROVE  Good
  BY <1>1, <1>2, <1>6 DEF NextDay, vars
<1>7. ASSUME NEW b \in Bills, BillRequest(b), UNCHANGED <<debtVars, documentVars, tickVars>>
      PROVE  Good
  BY <1>1, <1>2, <1>7, BillTypesStay
<1>8. ASSUME PatchHouse \/ \E m \in Members : Borrow(m) \/ Repay(m),
             UNCHANGED <<billVars, documentVars, tickVars>>
      PROVE  Good
  BY <1>1, <1>2, <1>8, DebtRequestTypes
<1>9. ASSUME NEW d \in Documents, DocumentRequest(d), UNCHANGED <<billVars, debtVars, tickVars>>
      PROVE  Good
  BY <1>1, <1>2, <1>9, DocumentRequestTypes
<1>10. ASSUME NEW s \in Schedulers,
              \/ StartTick(s) \/ ReadBill(s) \/ PostBill(s) \/ CannotSplit(s)
              \/ StartReminders(s) \/ SendReminder(s) \/ ReadStale(s) \/ DeleteRows(s)
              \/ DeleteObject(s) \/ Fail(s)
       PROVE  Good
  <2>1. Ticks' /\ lock' \in Schedulers \cup {None}
    BY <1>1, <1>10, TickStepsTick DEF Types
  <2>2. CASE PostBill(s)
    BY <1>2, <2>1, <2>2, PostedTypes DEF PostBill
  <2>3. CASE SendReminder(s)
    BY <1>2, <2>1, <2>3, ReminderTypes DEF SendReminder
  <2>4. CASE ReadStale(s) \/ DeleteObject(s) \/ DeleteRows(s)
    BY <1>2, <2>1, <2>4, SweepTypes DEF ReadStale, DeleteObject, DeleteRows
  <2>5. CASE StartTick(s) \/ ReadBill(s) \/ CannotSplit(s) \/ StartReminders(s) \/ Fail(s)
    BY <1>2, <2>1, <2>5 DEF StartTick, ReadBill, CannotSplit, StartReminders, Fail
  <2> QED
    BY <1>10, <2>1, <2>2, <2>3, <2>4, <2>5
<1>11. Good
  BY <1>6, <1>7, <1>8, <1>9, <1>10 DEF Next, Disturbance, TickStep
<1>12. Posting'
  <2> SUFFICES ASSUME NEW s \in Schedulers, job'[s].phase = "post"
               PROVE  bill'[job'[s].bill] # None
    BY DEF Posting
  <2>1. job'[s].bill \in Bills
    BY <1>11 DEF Ticks, JobOK
  <2>2. CASE job'[s] = job[s]
    BY <1>1, <2>1, <2>2, BillsStay DEF Posting
  <2>3. CASE IsDue(job'[s].bill)
    BY <2>1, <2>3, BillsStay DEF IsDue
  <2> QED
    BY <2>2, <2>3, PostsAsRead
<1> QED
  BY <1>3, <1>5, <1>11, <1>12
     DEF Types, TypeOK, BillTypes, DebtTypes, DocumentTypes, Ticks, JobOK

LEMMA InitTypes == Init => Types
<1> SUFFICES ASSUME Init
             PROVE  Types
  OBVIOUS
<1>1. Ticks
  BY IdleOK DEF Init, Ticks
<1>2. BillTypes /\ DebtTypes /\ DocumentTypes
  BY DEF Init, BillTypes, DebtTypes, DocumentTypes
<1>3. Posting
  BY <1>1, IdleOK DEF Init, Posting
<1> QED
  BY <1>1, <1>2, <1>3, ConstantsAssumption, TypeParts DEF Init

\* Every row, list, lock and tick is what it may be, in every state.
THEOREM TablesKeepTypes == Spec => []TypeOK
  BY InitTypes, TypesStay, PTL DEF Spec, Types

-----------------------------------------------------------------------------
(* Bills.                                                                  *)

\* A bill has been billed as it should, and runs next when it should.
BillOK(b) ==
    /\ IsRun(bill[b].next, first[b], Len(billed[b]), bill[b].frequency, bill[b].anchor)
    /\ \A i \in DOMAIN billed[b] :
        /\ IsRun(billed[b][i], first[b], i - 1, bill[b].frequency, bill[b].anchor)
        /\ NotAfter(billed[b][i], today)

BillsOK ==
    \A b \in Bills : /\ bill[b] = None => billed[b] = <<>>
                     /\ bill[b] # None /\ b \notin clashed => BillOK(b)

\* What a tick has read is still the date to bill, and has come, unless the
\* bill was patched since.
ReadHolds ==
    \A s \in Schedulers : job[s].phase = "post" /\ job[s].bill \notin clashed =>
        job[s].read = bill[job[s].bill].next /\ NotAfter(job[s].read, today)

LEMMA DaysPass ==
    ASSUME Types, [Next]_vars
    PROVE  today' \in Dates /\ \A d \in Dates : NotAfter(d, today) => NotAfter(d, today')
<1>1. today \in Dates
  BY DEF Types, TypeOK
<1>2. today' \in Dates /\ NotAfter(today, today')
  BY <1>1, ConstantsAssumption, NotAfterOrder DEF Next, NextDay, Disturbance, TickStep, vars
<1> QED
  BY <1>1, <1>2, NotAfterOrder

LEMMA BillsAreBilledOnSchedule ==
    Types /\ BillsOK /\ ReadHolds /\ [Next]_vars => BillsOK'
<1> SUFFICES ASSUME Types, BillsOK, ReadHolds, [Next]_vars
             PROVE  BillsOK'
  OBVIOUS
<1>1. BillTypes /\ today' \in Dates
  BY TypeParts, DaysPass
\* Bills that nothing but time has happened to.
<1>2. ASSUME NEW b \in Bills, bill'[b] = bill[b], first'[b] = first[b], billed'[b] = billed[b],
             clashed \subseteq clashed'
      PROVE  /\ bill'[b] = None => billed'[b] = <<>>
             /\ bill'[b] # None /\ b \notin clashed' => BillOK(b)'
  <2>1. \A i \in DOMAIN billed[b] : billed[b][i] \in Dates
    BY <1>1 DEF BillTypes
  <2> QED
    BY <1>2, <2>1, DaysPass DEF BillsOK, BillOK
<1>3. CASE UNCHANGED billVars
  BY <1>2, <1>3 DEF billVars, BillsOK
<1>4. ASSUME NEW b \in Bills, CreateBill(b)
      PROVE  BillsOK'
  <2>1. PICK c \in Schedules :
          /\ bill' = [bill EXCEPT ![b] =
                [frequency |-> c.frequency, anchor |-> c.anchor, next |-> c.next, paused |-> FALSE]]
          /\ first' = [first EXCEPT ![b] = c.next]
    BY <1>4 DEF CreateBill
  <2>2. billed[b] = <<>> /\ UNCHANGED <<billed, clashed>>
    BY <1>4 DEF CreateBill, BillsOK
  <2>3. BillOK(b)'
    <3>1. bill'[b].next = c.next /\ first'[b] = c.next
      BY <1>1, <2>1 DEF BillTypes
    <3>2. Len(billed'[b]) = 0 /\ DOMAIN billed'[b] = {}
      BY <2>2
    <3> QED
      BY <3>1, <3>2, ConstantsAssumption, RunStarts DEF BillOK
  <2>4. \A d \in Bills \ {b} : bill'[d] = bill[d] /\ first'[d] = first[d]
    BY <1>1, <2>1 DEF BillTypes
  <2> QED
    BY <1>2, <2>2, <2>3, <2>4 DEF BillsOK
<1>5. ASSUME NEW b \in Bills, PatchBill(b) \/ ChangeRule(b)
      PROVE  BillsOK'
  <2>1. bill[b] # None /\ bill[b] \in BillRows
    BY <1>1, <1>5 DEF PatchBill, ChangeRule, BillTypes
  <2>2. CASE UNCHANGED <<first, billed, clashed>> /\ UNCHANGED bill
    BY <1>2, <2>2 DEF BillsOK
  <2>3. CASE UNCHANGED <<first, billed, clashed>> /\ bill' = [bill EXCEPT ![b].paused = ~@]
    <3>1. \A d \in Bills \ {b} : bill'[d] = bill[d]
      BY <1>1, <2>3 DEF BillTypes
    <3>2. /\ bill'[b].next = bill[b].next /\ bill'[b].frequency = bill[b].frequency
          /\ bill'[b].anchor = bill[b].anchor /\ bill'[b] # None
      BY <1>1, <2>1, <2>3, BillsStay DEF BillTypes, BillRows
    <3>3. \A i \in DOMAIN billed[b] : billed[b][i] \in Dates
      BY <1>1 DEF BillTypes
    <3>4. b \notin clashed' => BillOK(b)'
      BY <2>1, <2>3, <3>2, <3>3, DaysPass DEF BillsOK, BillOK
    <3> QED
      BY <1>2, <2>3, <3>1, <3>2, <3>4 DEF BillsOK
  <2>4. ASSUME NEW d \in Days,
               /\ bill' = [bill EXCEPT ![b].next = d]
               /\ first' = [first EXCEPT ![b] = d]
               /\ billed' = [billed EXCEPT ![b] = <<>>]
               /\ clashed \subseteq clashed'
        PROVE  BillsOK'
    <3>1. bill'[b].next = d /\ first'[b] = d /\ billed'[b] = <<>>
      BY <1>1, <2>1, <2>4 DEF BillTypes, BillRows
    <3>2. BillOK(b)'
      BY <3>1, ConstantsAssumption, RunStarts DEF BillOK
    <3>3. \A e \in Bills \ {b} : bill'[e] = bill[e] /\ first'[e] = first[e] /\ billed'[e] = billed[e]
      BY <1>1, <2>4 DEF BillTypes
    <3> QED
      BY <1>2, <2>4, <3>1, <3>2, <3>3 DEF BillsOK
  <2> QED
    BY <1>5, <2>2, <2>3, <2>4 DEF PatchBill, ChangeRule
<1>6. ASSUME NEW s \in Schedulers, PostBill(s)
      PROVE  BillsOK'
  <2>0. PICK b \in Bills : b = job[s].bill
    BY <1>6, PostBillWrites
  <2> DEFINE next == Advance(job[s].read, bill[b].frequency, bill[b].anchor)
             f == bill[b].frequency
             a == bill[b].anchor
             n == Len(billed[b])
  <2>1. /\ b \in Bills /\ bill[b] \in BillRows /\ job[s].read \in Dates
        /\ bill' = [bill EXCEPT ![b] = [bill[b] EXCEPT !.next = next]]
        /\ bill'[b] \in BillRows /\ bill'[b].next = next
        /\ bill'[b].frequency = f /\ bill'[b].anchor = a
        /\ billed' = [billed EXCEPT ![b] = Append(billed[b], job[s].read)]
        /\ UNCHANGED <<first, clashed>>
    BY <1>6, <2>0, PostBillWrites
  <2>2. \A d \in Bills \ {b} : bill'[d] = bill[d] /\ billed'[d] = billed[d]
    BY <1>1, <2>1 DEF BillTypes
  <2>3. ASSUME b \notin clashed
        PROVE  BillOK(b)'
    <3>1. bill[b] # None /\ job[s].phase = "post"
      BY <1>6, <2>0 DEF PostBill, Types, Posting
    <3>2. job[s].read = bill[b].next /\ NotAfter(job[s].read, today)
      BY <2>0, <2>3, <3>1 DEF ReadHolds
    <3>3. BillOK(b)
      BY <2>1, <2>3, <3>1 DEF BillsOK
    <3>4. first[b] \in Dates /\ billed[b] \in Seq(Dates) /\ f \in Frequencies /\ a \in 1 .. 31
      BY <1>1, <2>1, <3>1 DEF BillTypes, BillRows
    <3>5. n \in Nat /\ IsRun(job[s].read, first[b], n, f, a)
      BY <3>2, <3>3, <3>4 DEF BillOK
    <3>6. IsRun(next, first[b], n + 1, f, a)
      BY <2>1, <3>4, <3>5, RunsAdvance
    <3> DEFINE new == Append(billed[b], job[s].read)
    <3>7. /\ billed'[b] = new /\ Len(new) = n + 1 /\ DOMAIN new = 1 .. n + 1
          /\ new[n + 1] = job[s].read /\ \A i \in 1 .. n : new[i] = billed[b][i]
      BY <1>1, <2>1, <3>4 DEF BillTypes
    <3>8. UNCHANGED today \/ NotAfter(job[s].read, today')
      BY <2>1, <3>2, DaysPass
    <3>9. ASSUME NEW i \in 1 .. n
          PROVE  IsRun(billed[b][i], first[b], i - 1, f, a) /\ NotAfter(billed[b][i], today')
      <4>1. i \in DOMAIN billed[b] /\ billed[b][i] \in Dates
        BY <3>4
      <4> QED
        BY <3>3, <4>1, DaysPass DEF BillOK
    <3>10. NotAfter(job[s].read, today')
      BY <2>1, <3>2, DaysPass
    <3>11. (n + 1) - 1 = n
      BY <3>5
    <3> HIDE DEF new, next, f, a, n
    <3>12. ASSUME NEW i \in DOMAIN new
           PROVE  IsRun(new[i], first[b], i - 1, f, a) /\ NotAfter(new[i], today')
      <4>1. CASE i = n + 1
        BY <3>5, <3>7, <3>10, <3>11, <4>1
      <4>2. CASE i # n + 1
        <5>1. i \in 1 .. n
          BY <3>5, <3>7, <3>12, <4>2
        <5> QED
          BY <3>7, <3>9, <5>1
      <4> QED
        BY <4>1, <4>2
    <3> QED
      BY <2>1, <3>6, <3>7, <3>12 DEF BillOK
  <2>4. bill'[b] # None
    BY <2>1, NoneAssumption
  <2> QED
    BY <1>2, <2>1, <2>2, <2>3, <2>4 DEF BillsOK
<1> QED
  BY <1>3, <1>4, <1>5, <1>6 DEF Next, NextDay, Disturbance, BillRequest, TickStep, vars, billVars,
     StartTick, ReadBill, CannotSplit, StartReminders, SendReminder, ReadStale, DeleteRows,
     DeleteObject, Fail

LEMMA WhatIsReadHolds == Types /\ ReadHolds /\ [Next]_vars => ReadHolds'
<1> SUFFICES ASSUME Types, ReadHolds, [Next]_vars, NEW s \in Schedulers,
                    job'[s].phase = "post", job'[s].bill \notin clashed'
             PROVE  job'[s].read = bill'[job'[s].bill].next /\ NotAfter(job'[s].read, today')
  BY DEF ReadHolds
<1>1. CASE job'[s] # job[s]
  BY <1>1, PostsAsRead DEF IsDue, billVars
<1>2. CASE job'[s] = job[s]
  <2>1. PICK b \in Bills : b = job[s].bill
    BY <1>2 DEF Types, Ticks, JobOK
  <2>2. /\ bill[b] # None /\ bill[b] \in BillRows /\ bill \in [Bills -> BillRows \cup {None}]
        /\ job[s].read \in Dates /\ job[s] # Idle /\ b \notin clashed'
    BY <1>2, <2>1, IdleOK DEF Types, TypeOK, Ticks, JobOK, Posting
  <2>3. bill'[b].next = bill[b].next /\ b \notin clashed
    <3>1. CASE UNCHANGED billVars
      BY <2>2, <3>1 DEF billVars
    <3>2. ASSUME NEW c \in Bills, CreateBill(c) \/ ChangeRule(c)
          PROVE  bill'[b].next = bill[b].next /\ b \notin clashed
      BY <2>2, <3>2 DEF CreateBill, ChangeRule
    <3>3. ASSUME NEW c \in Bills, PatchBill(c)
          PROVE  bill'[b].next = bill[b].next /\ b \notin clashed
      <4>1. CASE UNCHANGED clashed /\ bill' = [bill EXCEPT ![c].paused = ~@]
        BY <2>2, <4>1 DEF BillRows
      <4>2. CASE /\ \E d \in Days : bill' = [bill EXCEPT ![c].next = d]
                 /\ clashed' = clashed \cup {e \in {c} : \E t \in Schedulers : job[t].phase = "post" /\ job[t].bill = c}
        <5>1. c # b
          BY <1>2, <2>1, <2>2, <4>2
        <5> QED
          BY <2>2, <4>2, <5>1
      <4> QED
        BY <3>3, <4>1, <4>2 DEF PatchBill
    <3>4. ASSUME NEW t \in Schedulers, PostBill(t)
          PROVE  FALSE
      <4>1. job[t] # Idle
        BY <3>4, IdleOK DEF PostBill
      <4>2. t = s
        BY <2>2, <4>1 DEF Types, Ticks
      <4>3. job'[t].phase = "bills"
        BY <3>4, PutType DEF Types, PostBill
      <4> QED
        BY <4>2, <4>3
    <3> QED
      BY <3>1, <3>2, <3>3, <3>4 DEF Next, NextDay, Disturbance, BillRequest, TickStep, vars, billVars,
         StartTick, ReadBill, CannotSplit, StartReminders, SendReminder, ReadStale, DeleteRows,
         DeleteObject, Fail
  <2>4. job[s].read = bill[b].next /\ NotAfter(job[s].read, today)
    BY <1>2, <2>1, <2>3 DEF ReadHolds
  <2> QED
    BY <1>2, <2>1, <2>2, <2>3, <2>4, DaysPass
<1> QED
  BY <1>1, <1>2

\* Each bill is billed for its dates, each once and in order, none left out
\* and none before its day, through all outages, deaths and doubled schedulers.
THEOREM BillsRunOnSchedule == Spec => []BilledOnSchedule
<1>1. Init => BillsOK /\ ReadHolds
  BY IdleOK DEF Init, BillsOK, ReadHolds
<1>2. BillsOK => BilledOnSchedule
  BY DEF BillsOK, BillOK, BilledOnSchedule
<1> QED
  BY <1>1, <1>2, InitTypes, TypesStay, BillsAreBilledOnSchedule, WhatIsReadHolds, PTL DEF Spec

-----------------------------------------------------------------------------
(* Reminders.                                                              *)

\* What is on the list of reminders has fallen due.
ListedIsOldEnough ==
    \A s \in Schedulers : job[s].phase = "remind" =>
        \A r \in job[s].todo : AgeInDays(r.debt) >= r.tier

LEMMA DebtsAge ==
    ASSUME Types, [Next]_vars, NEW d \in Dates, NEW n \in Nat, AgeInDays(d) >= n
    PROVE  AgeInDays(d)' >= n
<1>1. today \in Dates /\ today' \in Dates /\ NotAfter(today, today')
  BY DaysPass, NotAfterOrder DEF Types, TypeOK
<1>2. Ordinal(d) \in Int /\ Ordinal(today) \in Int /\ Ordinal(today') \in Int
      /\ Ordinal(today) <= Ordinal(today')
  BY <1>1, NotAfterOrder, OrdinalGrows
<1> QED
  BY <1>2 DEF AgeInDays

LEMMA ListedIsDue == Types /\ ListedIsOldEnough /\ [Next]_vars => ListedIsOldEnough'
<1> SUFFICES ASSUME Types, ListedIsOldEnough, [Next]_vars, NEW s \in Schedulers,
                    job'[s].phase = "remind", NEW r \in job'[s].todo
             PROVE  AgeInDays(r.debt)' >= r.tier
  BY DEF ListedIsOldEnough
<1>1. Ticks /\ Ticks'
  BY TypesStay DEF Types
<1>2. r \in ReminderRows
  BY <1>1 DEF Ticks, JobOK
<1>3. AgeInDays(r.debt) >= r.tier
  <2>1. CASE job'[s] = job[s]
    BY <2>1 DEF ListedIsOldEnough
  <2>2. ASSUME NEW j, Put(s, j)
        PROVE  job'[s] = j
    BY <1>1, <2>2, PutType
  <2>3. CASE StartReminders(s)
    <3>1. \A todo : At("remind", todo).todo = todo /\ Idle.phase # "remind"
      BY DEF At, Idle
    <3>2. job'[s] \in {Idle, At("remind", {}), At("remind", Reminders)}
      BY <2>2, <2>3 DEF StartReminders, Unlock
    <3>3. r \in Reminders
      BY <3>1, <3>2
    <3>4. PICK m \in InDebt : r \in {[member |-> m, debt |-> since[m], tier |-> t] : t \in ReachedTier(since[m])}
      BY <3>3 DEF Reminders
    <3>5. PICK t \in ReachedTier(since[m]) : r = [member |-> m, debt |-> since[m], tier |-> t]
      BY <3>4
    <3> QED
      BY <3>5 DEF ReachedTier
  <2>4. CASE SendReminder(s)
    <3>1. PICK q \in job[s].todo : Put(s, At("remind", job[s].todo \ {q}))
      BY <2>4 DEF SendReminder
    <3>2. r \in job[s].todo /\ job[s].phase = "remind"
      BY <2>2, <2>4, <3>1 DEF At, SendReminder
    <3> QED
      BY <3>2 DEF ListedIsOldEnough
  <2>5. CASE StartTick(s) \/ ReadStale(s) \/ ReadBill(s) \/ PostBill(s)
    <3>1. \A todo : /\ [At("bills", todo) EXCEPT !.round = MAX_CATCHUP_PERIODS].phase # "remind"
                    /\ [At("documents", todo) EXCEPT !.read = todo].phase # "remind"
      BY DEF At
    <3>2. ~StartTick(s) /\ ~ReadStale(s)
      BY <2>2, <3>1 DEF StartTick, ReadStale
    <3>3. ~ReadBill(s)
      <4>1. ReadBill(s) => \E b : \/ \E read, n : Put(s, [phase |-> "post", todo |-> job[s].todo \ {b}, bill |-> b,
                                                       read |-> read, round |-> n])
                                 \/ Put(s, [At("bills", job[s].todo \ {b}) EXCEPT !.round = MAX_CATCHUP_PERIODS])
        BY DEF ReadBill
      <4>2. \A b, read, n : ~Put(s, [phase |-> "post", todo |-> job[s].todo \ {b}, bill |-> b,
                                     read |-> read, round |-> n])
        BY <2>2
      <4>3. \A b : ~Put(s, [At("bills", job[s].todo \ {b}) EXCEPT !.round = MAX_CATCHUP_PERIODS])
        BY <2>2, <3>1
      <4> QED
        BY <4>1, <4>2, <4>3
    <3>4. ~PostBill(s)
      BY <2>2 DEF PostBill
    <3> QED
      BY <2>5, <3>2, <3>3, <3>4
  <2>6. CASE CannotSplit(s) \/ DeleteRows(s) \/ Fail(s)
    BY <2>2, <2>6 DEF CannotSplit, DeleteRows, Fail, Unlock, Idle, At
  <2>7. CASE DeleteObject(s)
    <3>1. PICK d \in job[s].read : Put(s, [job[s] EXCEPT !.read = job[s].read \ {d}])
      BY <1>1, <2>7 DEF DeleteObject, Ticks, JobOK
    <3>2. [job[s] EXCEPT !.read = job[s].read \ {d}].phase = "documents"
      BY <1>1, <2>7 DEF DeleteObject, Ticks, JobOK
    <3> QED
      BY <2>2, <3>1, <3>2
  <2> QED
    BY <1>1, <2>1, <2>3, <2>4, <2>5, <2>6, <2>7, JobMoves
<1> QED
  BY <1>2, <1>3, DebtsAge DEF ReminderRows

LEMMA RemindersStayOnce ==
    Types /\ ListedIsOldEnough /\ RemindedOnce /\ [Next]_vars => RemindedOnce'
<1> SUFFICES ASSUME Types, ListedIsOldEnough, RemindedOnce, [Next]_vars
             PROVE  RemindedOnce'
  OBVIOUS
<1>1. reminders \in Seq(ReminderRows)
  BY DEF Types, TypeOK
<1> DEFINE Older(r) == Ordinal(today') - Ordinal(r.debt) >= r.tier
<1>2. \A r \in ReminderRows : AgeInDays(r.debt) >= r.tier => Older(r)
  BY DebtsAge DEF ReminderRows, AgeInDays
<1>3. CASE UNCHANGED reminders
  <2>1. \A i \in DOMAIN reminders : reminders[i] \in ReminderRows
    BY <1>1
  <2> QED
    BY <1>2, <1>3, <2>1 DEF RemindedOnce, AgeInDays
<1>4. ASSUME NEW s \in Schedulers, NEW r \in job[s].todo, job[s].phase = "remind",
             ~WasSent(r), reminders' = Append(reminders, r)
      PROVE  RemindedOnce'
  <2>1. r \in ReminderRows
    BY <1>4 DEF Types, Ticks, JobOK
  <2>2. Older(r)
    BY <1>2, <1>4, <2>1 DEF ListedIsOldEnough
  <2> DEFINE n == Len(reminders)
  <2>3. /\ n \in Nat /\ DOMAIN reminders = 1 .. n /\ DOMAIN reminders' = 1 .. n + 1
        /\ reminders'[n + 1] = r /\ \A i \in 1 .. n : reminders'[i] = reminders[i]
        /\ \A i \in 1 .. n : reminders[i] \in ReminderRows
    BY <1>1, <1>4, <2>1
  <2>4. \A i \in 1 .. n : reminders[i] # r
    BY <1>4, <2>3 DEF WasSent
  <2>5. \A i \in 1 .. n : Older(reminders[i])
    BY <1>2, <2>3 DEF RemindedOnce
  <2> HIDE DEF n, Older
  <2>6. \A i \in 1 .. n + 1 : i \in 1 .. n \/ i = n + 1
    BY <2>3
  <2>7. \A i, j \in 1 .. n + 1 : reminders'[i] = reminders'[j] => i = j
    BY <2>3, <2>4, <2>6 DEF RemindedOnce
  <2>8. \A i \in 1 .. n + 1 : Older(reminders'[i])
    BY <2>2, <2>3, <2>5, <2>6
  <2> QED
    BY <2>3, <2>7, <2>8 DEF RemindedOnce, AgeInDays, Older
<1>5. ASSUME NEW s \in Schedulers, SendReminder(s)
      PROVE  RemindedOnce'
  BY <1>3, <1>4, <1>5 DEF SendReminder
<1> QED
  BY <1>3, <1>5 DEF Next, NextDay, Disturbance, PatchHouse, Borrow, Repay, TickStep, vars, debtVars,
     StartTick, ReadBill, PostBill, CannotSplit, StartReminders, ReadStale, DeleteRows,
     DeleteObject, Fail

\* No debt is reminded of twice in one tier, or before it is that old.
THEOREM RemindersAreOnce == Spec => []RemindedOnce
<1>1. Init => ListedIsOldEnough /\ RemindedOnce
  BY IdleOK DEF Init, ListedIsOldEnough, RemindedOnce
<1> QED
  BY <1>1, InitTypes, TypesStay, ListedIsDue, RemindersStayOnce, PTL DEF Spec

-----------------------------------------------------------------------------
(* Documents.                                                              *)

Sweeps(s, d) == job[s].phase = "documents" /\ d \in job[s].todo

\* A document and its object go together; a confirm on its way has seen the
\* object; what is on the list of a sweep is still what it was when it got
\* there, without its object once that has been deleted.
DocumentOK(d) ==
    d \notin excused =>
        /\ document[d] # None /\ document[d].status = "uploaded" => d \in stored
        /\ d \in stored => document[d] # None
        /\ d \in confirming => d \in stored
        /\ \A s \in Schedulers : Sweeps(s, d) =>
            /\ document[d] # None /\ document[d].status = "pending"
            /\ AgeInDays(document[d].created) >= 2
            /\ d \notin confirming
            /\ d \notin job[s].read => d \notin stored

DocumentsOK == \A d \in Documents : DocumentOK(d)

\* How a scheduler comes to be sweeping.
LEMMA SweepSteps ==
    ASSUME Types, [Next]_vars, NEW s \in Schedulers,
           job'[s].phase = "documents", job'[s] # job[s]
    PROVE  \/ ReadStale(s) /\ job'[s].todo = StaleDocuments /\ job'[s].read = StaleDocuments
           \/ DeleteObject(s) /\ job'[s].todo = job[s].todo
<1>1. Ticks /\ JobOK(job[s])
  BY DEF Types, Ticks
<1>2. ASSUME NEW j, Put(s, j)
      PROVE  job'[s] = j
  BY <1>1, <1>2, PutType
<1>3. CASE ReadStale(s)
  <2> DEFINE j == [At("documents", StaleDocuments) EXCEPT !.read = StaleDocuments]
  <2>1. j.todo = StaleDocuments /\ j.read = StaleDocuments
    BY DEF At
  <2> QED
    BY <1>2, <1>3, <2>1 DEF ReadStale
<1>4. CASE DeleteObject(s)
  <2>1. PICK d \in job[s].read : Put(s, [job[s] EXCEPT !.read = job[s].read \ {d}])
    BY <1>1, <1>4 DEF DeleteObject, JobOK
  <2>2. [job[s] EXCEPT !.read = job[s].read \ {d}].todo = job[s].todo
    BY <1>1 DEF JobOK
  <2> QED
    BY <1>2, <1>4, <2>1, <2>2
<1>5. ~(StartTick(s) \/ ReadBill(s) \/ PostBill(s))
  <2>1. /\ \A todo : [At("bills", todo) EXCEPT !.round = MAX_CATCHUP_PERIODS].phase # "documents"
        /\ "bills" # "documents" /\ "post" # "documents"
    BY DEF At
  <2>2. ReadBill(s) => \E b : \/ \E read, n : Put(s, [phase |-> "post", todo |-> job[s].todo \ {b}, bill |-> b,
                                                     read |-> read, round |-> n])
                              \/ Put(s, [At("bills", job[s].todo \ {b}) EXCEPT !.round = MAX_CATCHUP_PERIODS])
    BY DEF ReadBill
  <2>3. \A b, read, n : ~Put(s, [phase |-> "post", todo |-> job[s].todo \ {b}, bill |-> b,
                                 read |-> read, round |-> n])
    BY <1>2
  <2>4. \A b : ~Put(s, [At("bills", job[s].todo \ {b}) EXCEPT !.round = MAX_CATCHUP_PERIODS])
    BY <1>2, <2>1
  <2>5. ~StartTick(s)
    BY <1>2, <2>1 DEF StartTick
  <2>6. ~PostBill(s)
    BY <1>2 DEF PostBill
  <2> QED
    BY <2>2, <2>3, <2>4, <2>5, <2>6
<1>6. ~(StartReminders(s) \/ SendReminder(s) \/ CannotSplit(s) \/ DeleteRows(s) \/ Fail(s))
  <2>1. (\A todo : At("remind", todo).phase # "documents") /\ Idle.phase # "documents"
    BY DEF At, Idle
  <2>2. ~StartReminders(s)
    BY <1>2, <2>1 DEF StartReminders, Unlock
  <2>3. ~SendReminder(s)
    BY <1>2, <2>1 DEF SendReminder
  <2>4. ~(CannotSplit(s) \/ DeleteRows(s) \/ Fail(s))
    BY <1>2, <2>1 DEF CannotSplit, DeleteRows, Fail, Unlock
  <2> QED
    BY <2>2, <2>3, <2>4
<1> QED
  BY <1>1, <1>3, <1>4, <1>5, <1>6, JobMoves

\* A document that the step is not about.
LEMMA OtherDocuments ==
    ASSUME Types, [Next]_vars, NEW d \in Documents, DocumentOK(d),
           document'[d] = document[d], d \in stored' <=> d \in stored,
           d \in confirming' => d \in confirming, excused \subseteq excused',
           \A s \in Schedulers : Sweeps(s, d)' =>
               Sweeps(s, d) /\ (d \in job[s].read => d \in job'[s].read)
    PROVE  DocumentOK(d)'
<1>1. ASSUME document[d] # None, AgeInDays(document[d].created) >= 2
      PROVE  AgeInDays(document[d].created)' >= 2
  <2>1. PICK e \in Dates : e = document[d].created
    BY <1>1 DEF Types, TypeOK, DocumentRows
  <2>2. AgeInDays(e)' >= 2
    BY <1>1, <2>1, DebtsAge
  <2> QED
    BY <2>1, <2>2 DEF AgeInDays
<1> QED
  BY <1>1 DEF DocumentOK

LEMMA DocumentsStay == Types /\ DocumentsOK /\ [Next]_vars => DocumentsOK'
<1> SUFFICES ASSUME Types, DocumentsOK, [Next]_vars, NEW d \in Documents
             PROVE  DocumentOK(d)'
  BY DEF DocumentsOK
<1>1. /\ DocumentTypes /\ today \in Dates /\ Ticks /\ DocumentOK(d)
      /\ (document[d] # None => document[d] \in DocumentRows)
  BY TypeParts DEF DocumentsOK, DocumentTypes
\* The one that sweeps holds the lock.
<1>2. \A s, t \in Schedulers : job[s].phase # "idle" /\ job[t].phase # "idle" => s = t
  BY <1>1, IdleOK DEF Ticks
<1>3. ASSUME \A s \in Schedulers : ~ReadStale(s) /\ ~DeleteObject(s)
      PROVE  \A s \in Schedulers : Sweeps(s, d)' => Sweeps(s, d) /\ job'[s] = job[s]
  BY <1>3, SweepSteps DEF Sweeps
<1>4. CASE UNCHANGED documentVars /\ \A s \in Schedulers : ~ReadStale(s) /\ ~DeleteObject(s)
  BY <1>1, <1>3, <1>4, OtherDocuments DEF documentVars
<1>5. ASSUME NEW c \in Documents, DocumentRequest(c), UNCHANGED tickVars, UNCHANGED today
      PROVE  DocumentOK(d)'
  <2>1. \A s \in Schedulers : Sweeps(s, d)' <=> Sweeps(s, d)
    BY <1>5 DEF Sweeps, tickVars
  <2>2. UNCHANGED job
    BY <1>5 DEF tickVars
  <2>3. CASE d # c \/ AttachDocument(c)
    BY <1>1, <1>5, <2>1, <2>2, <2>3, OtherDocuments
       DEF DocumentTypes, DocumentRequest, CreateDocument, Upload, HeadDocument, ConfirmDocument,
           AttachDocument
  <2>4. CASE d = c /\ CreateDocument(c)
    <3>1. /\ document[d] = None /\ d \notin stored /\ d \notin confirming
          /\ document'[d].status = "pending" /\ UNCHANGED <<stored, confirming, excused>>
      BY <1>1, <2>4 DEF CreateDocument, DocumentTypes
    <3> QED
      BY <1>1, <2>1, <3>1 DEF DocumentOK
  <2>5. CASE d = c /\ Upload(c)
    <3>1. document[d] # None /\ document[d].created = today /\ UNCHANGED <<document, confirming, excused>>
      BY <2>5 DEF Upload
    <3>2. d \in stored'
      BY <2>5 DEF Upload
    <3>3. AgeInDays(today) = 0
      BY <1>1, NotAfterOrder, OrdinalGrows DEF AgeInDays
    <3> QED
      BY <1>1, <2>1, <3>1, <3>2, <3>3 DEF DocumentOK
  <2>6. CASE d = c /\ HeadDocument(c)
    <3>1. document[d] # None /\ d \in stored /\ UNCHANGED <<document, stored>>
      BY <2>6 DEF HeadDocument
    <3>2. d \notin excused' => d \notin excused /\ \A s \in Schedulers : ~Sweeps(s, d)
      BY <2>6 DEF HeadDocument, Swept, Sweeps
    <3> QED
      BY <1>1, <2>1, <3>1, <3>2 DEF DocumentOK
  <2>7. CASE d = c /\ ConfirmDocument(c)
    <3>1. d \in confirming /\ UNCHANGED <<stored, excused>> /\ d \notin confirming'
      BY <2>7 DEF ConfirmDocument
    <3>2. document'[d] # None => document[d] # None
      BY <1>1, <2>7 DEF ConfirmDocument, DocumentTypes
    <3>3. d \in stored => document'[d] # None \/ d \in excused
      <4>1. CASE document[d] = None
        BY <1>1, <4>1 DEF DocumentOK
      <4>2. CASE document[d] # None
        <5>1. document'[d] = [document[d] EXCEPT !.status = "uploaded"]
          BY <1>1, <2>7, <4>2 DEF ConfirmDocument, DocumentTypes
        <5>2. [document[d] EXCEPT !.status = "uploaded"] \in DocumentRows
          BY <1>1, <4>2 DEF DocumentRows
        <5> QED
          BY <5>1, <5>2, NoneAssumption
      <4> QED
        BY <4>1, <4>2
    <3> QED
      BY <1>1, <2>1, <3>1, <3>2, <3>3 DEF DocumentOK
  <2> QED
    BY <1>5, <2>3, <2>4, <2>5, <2>6, <2>7 DEF DocumentRequest
<1>6. ASSUME NEW s \in Schedulers, ReadStale(s)
      PROVE  DocumentOK(d)'
  <2>1. /\ UNCHANGED <<document, stored, confirming>>
        /\ excused' = excused \cup (StaleDocuments \cap confirming)
        /\ job[s].phase = "remind"
    BY <1>6 DEF ReadStale
  <2>2. \A t \in Schedulers : ~Sweeps(t, d)
    BY <1>2, <2>1 DEF Sweeps
  <2>3. \A t \in Schedulers : Sweeps(t, d)' =>
            /\ d \in StaleDocuments
            /\ d \in job'[t].read
    <3> SUFFICES ASSUME NEW t \in Schedulers, Sweeps(t, d)'
                 PROVE  d \in StaleDocuments /\ d \in job'[t].read
      OBVIOUS
    <3>1. job'[t] # job[t]
      BY <2>2 DEF Sweeps
    <3>2. ~DeleteObject(t)
      BY <1>2, <2>1 DEF DeleteObject
    <3> QED
      BY <3>1, <3>2, SweepSteps DEF Sweeps
  <2>4. UNCHANGED today
    <3>1. job'[s].phase = "documents"
      <4>1. [At("documents", StaleDocuments) EXCEPT !.read = StaleDocuments].phase = "documents"
        BY DEF At
      <4> QED
        BY <1>1, <1>6, <4>1, PutType DEF ReadStale
    <3>2. job' # job
      BY <2>1, <3>1
    <3> QED
      BY <3>2, TicksTakeNoDay
  <2>5. d \in StaleDocuments => /\ document[d] # None /\ document[d].status = "pending"
                                /\ AgeInDays(document[d].created) >= 2
    <3>1. \A e \in Dates : AgeInDays(e) \in Int
      BY <1>1, NotAfterOrder, OrdinalGrows DEF AgeInDays
    <3> QED
      BY <1>1, <3>1 DEF StaleDocuments, IsStale, ORPHAN_DOCUMENT_AGE, DocumentRows
  <2>6. d \in StaleDocuments /\ d \notin excused' => d \notin confirming
    BY <2>1
  <2> QED
    BY <1>1, <2>1, <2>3, <2>4, <2>5, <2>6 DEF DocumentOK, AgeInDays
<1>7. ASSUME NEW s \in Schedulers, DeleteObject(s)
      PROVE  DocumentOK(d)'
  <2>1. job[s].phase = "documents" /\ UNCHANGED <<document, confirming>>
    BY <1>7 DEF DeleteObject
  <2>2. PICK c \in job[s].read :
          /\ \/ stored' = stored \ {c} /\ UNCHANGED excused
             \/ excused' = excused \cup {c} /\ UNCHANGED stored
          /\ Put(s, [job[s] EXCEPT !.read = job[s].read \ {c}])
    BY <1>1, <1>7 DEF DeleteObject, Ticks, JobOK
  <2>3. c \in job[s].todo /\ c \in Documents
    BY <1>1, <2>1, <2>2 DEF Ticks, JobOK
  <2>4. /\ job'[s].todo = job[s].todo /\ job'[s].phase = "documents"
        /\ job'[s].read = job[s].read \ {c}
    <3>1. job'[s] = [job[s] EXCEPT !.read = job[s].read \ {c}]
      BY <1>1, <2>2, PutType
    <3> QED
      BY <1>1, <2>1, <3>1 DEF Ticks, JobOK
  <2>5. \A t \in Schedulers : Sweeps(t, d)' => t = s /\ Sweeps(t, d)
    <3>1. \A t \in Schedulers \ {s} : job'[t] = job[t]
      BY <1>1, <2>2, PutType
    <3> QED
      BY <1>2, <2>1, <2>4, <3>1 DEF Sweeps
  <2>6. CASE d # c
    BY <1>1, <2>1, <2>2, <2>4, <2>5, <2>6, OtherDocuments
  <2>7. CASE d = c /\ excused' = excused \cup {c}
    BY <2>7 DEF DocumentOK
  <2>8. CASE d = c /\ stored' = stored \ {c} /\ UNCHANGED excused
    <3>1. Sweeps(s, d)
      BY <2>1, <2>3, <2>8 DEF Sweeps
    <3>2. UNCHANGED today
      <4>1. job' # job
        BY <2>2, <2>4
      <4> QED
        BY <4>1, TicksTakeNoDay
    <3> QED
      BY <1>1, <2>1, <2>5, <2>8, <3>1, <3>2 DEF DocumentOK, AgeInDays
  <2> QED
    BY <2>2, <2>6, <2>7, <2>8
<1>8. ASSUME NEW s \in Schedulers, DeleteRows(s)
      PROVE  DocumentOK(d)'
  <2>1. /\ job[s].phase = "documents" /\ job[s].read = {} /\ UNCHANGED <<stored, confirming, excused>>
        /\ job' = [job EXCEPT ![s] = Idle]
        /\ \/ document' = document
           \/ document' = [e \in Documents |-> IF e \in job[s].todo THEN None ELSE document[e]]
    BY <1>8 DEF DeleteRows, Unlock, Put
  <2>2. \A t \in Schedulers : ~Sweeps(t, d)'
    BY <1>1, <1>2, <2>1, IdleOK DEF Sweeps, Ticks
  <2>3. CASE document'[d] = document[d]
    BY <1>1, <2>1, <2>2, <2>3, OtherDocuments
  <2>4. CASE document'[d] # document[d]
    <3>1. d \in job[s].todo /\ document'[d] = None
      BY <2>1, <2>4
    <3>2. Sweeps(s, d) /\ d \notin job[s].read
      BY <2>1, <3>1 DEF Sweeps
    <3> QED
      BY <1>1, <2>1, <2>2, <3>1, <3>2 DEF DocumentOK
  <2> QED
    BY <2>3, <2>4
<1>9. ASSUME Disturbance, ~UNCHANGED documentVars
      PROVE  \E c \in Documents : DocumentRequest(c) /\ UNCHANGED tickVars /\ UNCHANGED today
  BY <1>9 DEF Disturbance, Fail
<1>10. ASSUME NEW s \in Schedulers, TickStep(s)
       PROVE  UNCHANGED documentVars \/ ReadStale(s) \/ DeleteObject(s) \/ DeleteRows(s)
  BY <1>10 DEF TickStep, StartTick, ReadBill, PostBill, CannotSplit, StartReminders, SendReminder, debtVars
<1>11. UNCHANGED documentVars \/ (\E c \in Documents : DocumentRequest(c) /\ UNCHANGED tickVars /\ UNCHANGED today)
         \/ \E s \in Schedulers : ReadStale(s) \/ DeleteObject(s) \/ DeleteRows(s)
  BY <1>9, <1>10 DEF Next, NextDay, vars
<1> QED
  BY <1>4, <1>5, <1>6, <1>7, <1>8, <1>11

\* Whatever steps of requests and sweeps interleave, and wherever a sweep ends,
\* a confirmed document has its object and an object its document, unless the
\* confirm met the sweep or the store refused to delete.
THEOREM DocumentsHaveObjects == Spec => []ObjectsMatchRows
<1>1. Init => DocumentsOK
  BY IdleOK DEF Init, DocumentsOK, DocumentOK, Sweeps
<1>2. DocumentsOK => ObjectsMatchRows
  BY DEF DocumentsOK, DocumentOK, ObjectsMatchRows
<1> QED
  BY <1>1, <1>2, InitTypes, TypesStay, DocumentsStay, PTL DEF Spec

=============================================================================
