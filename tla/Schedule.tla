------------------------------ MODULE Schedule ------------------------------
(***************************************************************************)
(* internal/scheduler/schedule.go: the next instant a schedule names.      *)
(*                                                                         *)
(* Instants are seconds since a Sunday at midnight, local time, in a zone  *)
(* without clock changes; the calendar is the first day of each month.     *)
(***************************************************************************)
EXTENDS Naturals

CONSTANTS
  LastMonth,          \* bound: months are 0..LastMonth
  FirstOf             \* FirstOf[k]: day number of the first day of month k

Months == 0..LastMonth

ASSUME CalendarAssumption ==
  /\ LastMonth \in Nat \ {0}
  /\ FirstOf \in [Months -> Nat]
  /\ FirstOf[0] = 0
  /\ \A j, k \in Months : j < k => FirstOf[j] + 28 <= FirstOf[k]

Schedules ==
  [kind: {"hourly", "daily", "weekly", "monthly"},
   hour: 0..23, minute: 0..59, weekday: 0..6, monthday: 1..28]

DayOf(t) == t \div 86400

\* time.Date of a day at the schedule's hour and minute.
At(day, s) == day * 86400 + s.hour * 3600 + s.minute * 60

\* The candidate base: the start of the minute after the given instant.
Base(after) == (after \div 60) * 60 + 60

NextHourly(s, after) ==
  LET c == (Base(after) \div 3600) * 3600 + s.minute * 60
  IN  IF c > after THEN c ELSE c + 3600

NextDaily(s, after) ==
  LET c == At(DayOf(Base(after)), s)
  IN  IF c > after THEN c ELSE c + 86400

\* Fault: today counts even if its slot has passed.
NextWeeklyToday(s, after) ==
  LET day == DayOf(Base(after))
      Fits(i) == (day + i) % 7 = s.weekday
      i == CHOOSE i \in 0..7 : Fits(i) /\ \A j \in 0..7 : Fits(j) => i <= j
  IN  At(day + i, s)

NextWeekly(s, after) ==
  LET day == DayOf(Base(after))
      Fits(i) == At(day + i, s) > after /\ (day + i) % 7 = s.weekday
      i == CHOOSE i \in 0..7 : Fits(i) /\ \A j \in 0..7 : Fits(j) => i <= j
  IN  At(day + i, s)

InMonth(day, k) == FirstOf[k] <= day /\ day < FirstOf[k + 1]

MonthOf(day) == CHOOSE k \in 0..(LastMonth - 1) : InMonth(day, k)

NextMonthly(s, after) ==
  LET k == MonthOf(DayOf(Base(after)))
      c == At(FirstOf[k] + s.monthday - 1, s)
  IN  IF c > after THEN c ELSE At(FirstOf[k + 1] + s.monthday - 1, s)

NextRun(s, after) ==
  CASE s.kind = "hourly"  -> NextHourly(s, after)
    [] s.kind = "daily"   -> NextDaily(s, after)
    [] s.kind = "weekly"  -> NextWeekly(s, after)
    [] s.kind = "monthly" -> NextMonthly(s, after)

----------------------------------------------------------------------------
(* The reference: what the four forms of a schedule mean.                  *)

AtTime(s, t) == t % 86400 = s.hour * 3600 + s.minute * 60

IsSlot(s, t) ==
  CASE s.kind = "hourly"  -> t % 3600 = s.minute * 60
    [] s.kind = "daily"   -> AtTime(s, t)
    [] s.kind = "weekly"  -> AtTime(s, t) /\ DayOf(t) % 7 = s.weekday
    [] s.kind = "monthly" -> AtTime(s, t) /\ \E k \in Months :
                               DayOf(t) = FirstOf[k] + s.monthday - 1

\* The calendar reaches the minute after the given instant.
Reached(after) == \E k \in 0..(LastMonth - 1) : InMonth(DayOf(Base(after)), k)

\* n is the first slot after the given instant, among the candidates.
FirstSlot(s, after, n, Candidates) ==
  /\ n \in Nat /\ n > after /\ IsSlot(s, n)
  /\ \A m \in Candidates : m > after /\ IsSlot(s, m) => n <= m
============================================================================
