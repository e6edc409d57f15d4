------------------------- MODULE Scheduler_proofs -------------------------
(***************************************************************************)
(* Proofs about Scheduler: types, what retention removes, what a run       *)
(* vouches for, and the slots of the loop.  The properties of a run are    *)
(* strengthened by what holds while it is under way (Told, Cut, ...).      *)
(* The first part is about Schedule alone: NextRun computes the first slot *)
(* after an instant, for every schedule, calendar and instant it reaches.  *)
(***************************************************************************)
EXTENDS Scheduler, FiniteSetTheorems, TLAPS

----------------------------------------------------------------------------
(* Division by the constants of a calendar.                                *)

LEMMA Division60 ==
  ASSUME NEW t \in Nat
  PROVE  /\ t \div 60 \in Nat
         /\ (t \div 60) * 60 <= t /\ t < (t \div 60) * 60 + 60
  BY SMT

LEMMA Division3600 ==
  ASSUME NEW t \in Nat
  PROVE  /\ t \div 3600 \in Nat /\ t % 3600 \in Nat /\ t % 3600 < 3600
         /\ t = 3600 * (t \div 3600) + (t % 3600)
  BY SMT

LEMMA Division86400 ==
  ASSUME NEW t \in Nat
  PROVE  /\ t \div 86400 \in Nat /\ t % 86400 \in Nat /\ t % 86400 < 86400
         /\ t = 86400 * (t \div 86400) + (t % 86400)
  BY SMT

\* A multiple and a smaller rest determine each other.
LEMMA Rest3600 ==
  ASSUME NEW q \in Nat, NEW r \in Nat, r < 3600
  PROVE  (q * 3600 + r) % 3600 = r
  BY SMT

LEMMA Rest86400 ==
  ASSUME NEW q \in Nat, NEW r \in Nat, r < 86400
  PROVE  /\ (q * 86400 + r) % 86400 = r
         /\ (q * 86400 + r) \div 86400 = q
<1>1. (86400 * q + r) % 86400 = r
  BY SMT
<1>2. (86400 * q + r) \div 86400 = q
  BY SMT
<1>3. 86400 * q = q * 86400
  BY SMT
<1> QED
  BY <1>1, <1>2, <1>3

----------------------------------------------------------------------------
(* The candidate base and a day's slot.                                    *)

Offset(s) == s.hour * 3600 + s.minute * 60

LEMMA OffsetIsMinutes ==
  ASSUME NEW s \in Schedules
  PROVE  /\ Offset(s) \in Nat /\ Offset(s) <= 86340
         /\ s.minute * 60 \in Nat /\ s.minute * 60 <= 3540
  BY DEF Offset, Schedules

LEMMA BaseIsNear ==
  ASSUME NEW after \in Nat
  PROVE  Base(after) \in Nat /\ after < Base(after) /\ Base(after) <= after + 60
  BY Division60 DEF Base

\* A slot on a day before the candidate base's has passed; one on a later day
\* has not.
LEMMA DayDecides ==
  ASSUME NEW s \in Schedules, NEW after \in Nat, NEW day \in Nat
  PROVE  /\ DayOf(Base(after)) \in Nat
         /\ At(day, s) \in Nat
         /\ day < DayOf(Base(after)) => At(day, s) <= after
         /\ day > DayOf(Base(after)) => At(day, s) > after
<1> DEFINE t == Base(after)
           d == t \div 86400
           r == t % 86400
<1>1. t \in Nat /\ after < t /\ t <= after + 60
  BY BaseIsNear
<1>2. d \in Nat /\ r \in Nat /\ r < 86400 /\ t = 86400 * d + r
  BY <1>1, Division86400
<1>3. Offset(s) \in Nat /\ Offset(s) <= 86340
  BY OffsetIsMinutes
<1>4. At(day, s) = day * 86400 + Offset(s)
  BY DEF At, Offset, Schedules
<1> HIDE DEF t, d, r
<1>5. At(day, s) \in Nat
  BY <1>3, <1>4
<1>6. day < d => At(day, s) <= after
  BY <1>1, <1>2, <1>3, <1>4
<1>7. day > d => At(day, s) > after
  BY <1>1, <1>2, <1>3, <1>4
<1> QED
  BY <1>2, <1>5, <1>6, <1>7 DEF DayOf, t, d

\* The instants at a schedule's hour and minute are the At of their day.
LEMMA AtTimeIsAt ==
  ASSUME NEW s \in Schedules, NEW m \in Nat
  PROVE  AtTime(s, m) <=> m = At(DayOf(m), s)
<1> DEFINE q == m \div 86400
           r == m % 86400
<1>1. q \in Nat /\ r \in Nat /\ r < 86400 /\ m = 86400 * q + r
  BY Division86400
<1>2. Offset(s) \in Nat
  BY OffsetIsMinutes
<1> HIDE DEF q, r
<1>3. r = Offset(s) <=> m = q * 86400 + Offset(s)
  BY <1>1, <1>2
<1>4. AtTime(s, m) <=> r = Offset(s)
  BY DEF AtTime, Offset, r
<1>5. At(DayOf(m), s) = q * 86400 + Offset(s)
  BY <1>1 DEF At, DayOf, Offset, q, Schedules
<1> QED
  BY <1>3, <1>4, <1>5

LEMMA DayOfAt ==
  ASSUME NEW s \in Schedules, NEW day \in Nat
  PROVE  At(day, s) \in Nat /\ DayOf(At(day, s)) = day /\ AtTime(s, At(day, s))
<1>1. Offset(s) \in Nat /\ Offset(s) < 86400
  BY OffsetIsMinutes
<1>2. At(day, s) = day * 86400 + Offset(s)
  BY DEF At, Offset, Schedules
<1>3. (day * 86400 + Offset(s)) \div 86400 = day
  BY <1>1, Rest86400
<1>4. DayOf(At(day, s)) = day
  BY <1>2, <1>3 DEF DayOf
<1>5. At(day, s) \in Nat
  BY <1>1, <1>2
<1> QED
  BY <1>4, <1>5, AtTimeIsAt

\* Days order the slots at one time of day.
LEMMA AtIsMonotone ==
  ASSUME NEW s \in Schedules, NEW d \in Nat, NEW e \in Nat, d <= e
  PROVE  At(d, s) <= At(e, s)
<1>1. At(d, s) = d * 86400 + Offset(s) /\ At(e, s) = e * 86400 + Offset(s)
  BY DEF At, Offset, Schedules
<1> QED
  BY <1>1, OffsetIsMinutes

LEMMA NextDay ==
  ASSUME NEW s \in Schedules, NEW d \in Nat
  PROVE  d + 1 \in Nat /\ At(d + 1, s) = At(d, s) + 86400
<1>1. At(d, s) = d * 86400 + Offset(s) /\ At(d + 1, s) = (d + 1) * 86400 + Offset(s)
  BY DEF At, Offset, Schedules
<1> QED
  BY <1>1, OffsetIsMinutes

----------------------------------------------------------------------------
(* The four forms.                                                         *)

\* hourly@:MM - the first instant after the given one at that minute.
LEMMA HourlyIsFirst ==
  ASSUME NEW s \in Schedules, s.kind = "hourly", NEW after \in Nat
  PROVE  FirstSlot(s, after, NextHourly(s, after), Nat)
<1> DEFINE t == Base(after)
           h == t \div 3600
           r == t % 3600
           off == s.minute * 60
           c == h * 3600 + off
           n == NextHourly(s, after)
<1>1. t \in Nat /\ after < t /\ t <= after + 60
  BY BaseIsNear
<1>2. h \in Nat /\ r \in Nat /\ r < 3600 /\ t = 3600 * h + r
  BY <1>1, Division3600
<1>3. off \in Nat /\ off <= 3540
  BY OffsetIsMinutes
<1>4. n = IF c > after THEN c ELSE c + 3600
  BY DEF NextHourly
<1>5. \A m \in Nat : IsSlot(s, m) <=> m % 3600 = off
  BY DEF IsSlot
<1> HIDE DEF t, h, r, off, n
<1>6. c \in Nat /\ n \in Nat /\ n > after
  BY <1>1, <1>2, <1>3, <1>4
<1>7. n % 3600 = off
  <2>1. c % 3600 = off
    BY <1>2, <1>3, Rest3600
  <2>2. h + 1 \in Nat /\ ((h + 1) * 3600 + off) % 3600 = off
    BY <1>2, <1>3, Rest3600
  <2>3. (h + 1) * 3600 + off = c + 3600
    BY <1>2, <1>3
  <2> QED
    BY <2>1, <2>2, <2>3, <1>4
<1>8. ASSUME NEW m \in Nat, m > after, m % 3600 = off
      PROVE  n <= m
  <2> DEFINE k == m \div 3600
  <2>1. k \in Nat /\ m = 3600 * k + off
    BY <1>8, Division3600
  <2> HIDE DEF k
  <2>2. k >= h
    BY <1>1, <1>2, <1>3, <1>8, <2>1
  <2>3. CASE c > after
    BY <1>2, <1>3, <1>4, <2>1, <2>2, <2>3
  <2>4. CASE ~(c > after)
    <3>1. k # h
      BY <1>2, <1>3, <1>6, <1>8, <2>1, <2>4
    <3> QED
      BY <1>2, <1>3, <1>4, <2>1, <2>2, <2>4, <3>1
  <2> QED
    BY <2>3, <2>4
<1> QED
  BY <1>5, <1>6, <1>7, <1>8 DEF FirstSlot, n

\* daily@HH:MM - the first instant after the given one at that time.
LEMMA DailyIsFirst ==
  ASSUME NEW s \in Schedules, s.kind = "daily", NEW after \in Nat
  PROVE  FirstSlot(s, after, NextDaily(s, after), Nat)
<1> DEFINE d == DayOf(Base(after))
           n == NextDaily(s, after)
<1>1. d \in Nat /\ d + 1 \in Nat
  BY DayDecides
<1>2. At(d, s) \in Nat /\ At(d + 1, s) = At(d, s) + 86400
  BY <1>1, NextDay, DayOfAt
<1>3. n = IF At(d, s) > after THEN At(d, s) ELSE At(d + 1, s)
  BY <1>2 DEF NextDaily
<1>4. \A m \in Nat : IsSlot(s, m) <=> AtTime(s, m)
  BY DEF IsSlot
<1>5. n \in Nat /\ n > after /\ AtTime(s, n)
  <2>1. At(d + 1, s) > after
    BY <1>1, DayDecides
  <2> QED
    BY <1>1, <1>3, <2>1, DayOfAt
<1>6. ASSUME NEW m \in Nat, m > after, AtTime(s, m)
      PROVE  n <= m
  <2>1. DayOf(m) \in Nat /\ m = At(DayOf(m), s)
    BY <1>6, AtTimeIsAt, Division86400 DEF DayOf
  <2>2. ~(DayOf(m) < d)
    BY <1>1, <1>6, <2>1, DayDecides
  <2>3. CASE At(d, s) > after
    BY <1>1, <1>3, <2>1, <2>2, <2>3, AtIsMonotone
  <2>4. CASE ~(At(d, s) > after)
    <3>1. DayOf(m) # d
      BY <1>6, <2>1, <2>4
    <3>2. d + 1 <= DayOf(m)
      BY <1>1, <2>1, <2>2, <3>1
    <3> QED
      BY <1>1, <1>3, <2>1, <2>4, <3>2, AtIsMonotone
  <2> QED
    BY <2>3, <2>4
<1> QED
  BY <1>4, <1>5, <1>6 DEF FirstSlot, n

\* The days of the week.
LEMMA Division7 ==
  ASSUME NEW t \in Nat
  PROVE  /\ t \div 7 \in Nat /\ t % 7 \in Nat /\ t % 7 < 7
         /\ t = 7 * (t \div 7) + (t % 7)
  BY SMT

LEMMA Rest7 ==
  ASSUME NEW q \in Nat, NEW r \in Nat, r < 7
  PROVE  (7 * q + r) % 7 = r
  BY SMT

\* Any seven days hold each weekday.
LEMMA WeekdayComes ==
  ASSUME NEW d \in Nat, NEW w \in 0..6
  PROVE  \E i \in 0..6 : (d + i) % 7 = w
<1> DEFINE q == d \div 7
           r == d % 7
<1>1. q \in Nat /\ r \in Nat /\ r < 7 /\ d = 7 * q + r
  BY Division7
<1> HIDE DEF q, r
<1>2. CASE w >= r
  <2>1. d + (w - r) = 7 * q + w /\ (w - r) \in 0..6
    BY <1>1, <1>2
  <2>2. (d + (w - r)) % 7 = w
    BY <1>1, <2>1, Rest7
  <2> QED
    BY <2>1, <2>2
<1>3. CASE w < r
  <2>1. d + (w + 7 - r) = 7 * (q + 1) + w /\ (w + 7 - r) \in 0..6 /\ q + 1 \in Nat
    BY <1>1, <1>3
  <2>2. (d + (w + 7 - r)) % 7 = w
    BY <2>1, Rest7
  <2> QED
    BY <2>1, <2>2
<1> QED
  BY <1>1, <1>2, <1>3

\* A weekday comes again after seven days and not before.
LEMMA WeekdayRepeats ==
  ASSUME NEW d \in Nat, NEW i \in 0..7, NEW j \in 0..7, (d + i) % 7 = (d + j) % 7
  PROVE  i = j \/ (i = 0 /\ j = 7) \/ (i = 7 /\ j = 0)
<1> DEFINE a == (d + i) \div 7
           b == (d + j) \div 7
           r == (d + i) % 7
<1>1. d + i \in Nat /\ d + j \in Nat
  OBVIOUS
<1>2. a \in Nat /\ r \in Nat /\ d + i = 7 * a + r
  BY <1>1, Division7
<1>3. b \in Nat /\ d + j = 7 * b + r
  BY <1>1, Division7
<1> HIDE DEF a, b, r
<1> QED
  BY <1>2, <1>3

\* weekly:ddd@HH:MM - the first such time on that day of the week.
LEMMA WeeklyIsFirst ==
  ASSUME NEW s \in Schedules, s.kind = "weekly", NEW after \in Nat
  PROVE  FirstSlot(s, after, NextWeekly(s, after), Nat)
<1> DEFINE d == DayOf(Base(after))
           Fits(i) == At(d + i, s) > after /\ (d + i) % 7 = s.weekday
           Least(i) == Fits(i) /\ \A j \in 0..7 : Fits(j) => i <= j
           n == NextWeekly(s, after)
<1>1. d \in Nat /\ s.weekday \in 0..6
  BY DayDecides DEF Schedules
<1>2. n = At(d + (CHOOSE i \in 0..7 : Least(i)), s)
  BY DEF NextWeekly
<1>3. \A m \in Nat : IsSlot(s, m) <=> AtTime(s, m) /\ DayOf(m) % 7 = s.weekday
  BY DEF IsSlot
<1>4. \A i \in 0..7 : d + i \in Nat /\ (i > 0 => At(d + i, s) > after)
  BY <1>1, DayDecides
<1> HIDE DEF d, n
<1>5. \E i \in 0..7 : Least(i)
  <2>1. PICK k \in 0..6 : (d + k) % 7 = s.weekday
    BY <1>1, WeekdayComes
  <2>2. CASE At(d + k, s) > after
    <3>1. ASSUME NEW j \in 0..7, Fits(j)  PROVE k <= j
      BY <1>1, <2>1, <3>1, WeekdayRepeats
    <3> QED
      BY <2>1, <2>2, <3>1
  <2>3. CASE ~(At(d + k, s) > after)
    <3>1. k = 0
      BY <1>4, <2>3
    <3>2. (d + 7) % 7 = s.weekday
      BY <1>1, <2>1, <3>1
    <3>3. At(d + 7, s) > after
      BY <1>4
    <3>4. ASSUME NEW j \in 0..7, Fits(j)  PROVE 7 <= j
      BY <1>1, <2>1, <2>3, <3>1, <3>4, WeekdayRepeats
    <3> QED
      BY <3>2, <3>3, <3>4
  <2> QED
    BY <2>2, <2>3
<1>6. PICK i \in 0..7 : Least(i) /\ n = At(d + i, s)
  BY <1>2, <1>5
<1>7. n \in Nat /\ n > after /\ AtTime(s, n) /\ DayOf(n) % 7 = s.weekday
  BY <1>4, <1>6, DayOfAt
<1>8. ASSUME NEW m \in Nat, m > after, AtTime(s, m), DayOf(m) % 7 = s.weekday
      PROVE  n <= m
  <2>1. DayOf(m) \in Nat /\ m = At(DayOf(m), s)
    BY <1>8, AtTimeIsAt, Division86400 DEF DayOf
  <2>2. ~(DayOf(m) < d)
    BY <1>8, <2>1, DayDecides DEF d
  <2>3. CASE DayOf(m) <= d + 7
    <3> DEFINE j == DayOf(m) - d
    <3>1. j \in 0..7 /\ d + j = DayOf(m)
      BY <1>1, <2>1, <2>2, <2>3
    <3>2. Fits(j)
      BY <1>8, <2>1, <3>1
    <3>3. i <= j
      BY <1>6, <3>1, <3>2
    <3>4. d + i <= DayOf(m)
      BY <1>1, <2>1, <3>1, <3>3
    <3> QED
      BY <1>4, <1>6, <2>1, <3>4, AtIsMonotone
  <2>4. CASE ~(DayOf(m) <= d + 7)
    <3>1. d + i <= DayOf(m)
      BY <1>1, <2>1, <2>4
    <3> QED
      BY <1>4, <1>6, <2>1, <3>1, AtIsMonotone
  <2> QED
    BY <2>3, <2>4
<1> QED
  BY <1>3, <1>7, <1>8 DEF FirstSlot, n

\* monthly:D@HH:MM - the first such time on day D of a month.
LEMMA MonthlyIsFirst ==
  ASSUME NEW s \in Schedules, s.kind = "monthly", NEW after \in Nat, Reached(after)
  PROVE  FirstSlot(s, after, NextMonthly(s, after), Nat)
<1> DEFINE d == DayOf(Base(after))
           k == MonthOf(d)
           Day(j) == FirstOf[j] + s.monthday - 1
           n == NextMonthly(s, after)
<1>1. d \in Nat /\ s.monthday \in 1..28
  BY DayDecides DEF Schedules
<1>2. k \in 0..(LastMonth - 1) /\ FirstOf[k] <= d /\ d < FirstOf[k + 1]
  BY DEF Reached, MonthOf, InMonth
<1>3. \A m \in Nat : IsSlot(s, m) <=> AtTime(s, m) /\ \E j \in Months : DayOf(m) = Day(j)
  BY DEF IsSlot
<1>4. n = IF At(Day(k), s) > after THEN At(Day(k), s) ELSE At(Day(k + 1), s)
  BY DEF NextMonthly
<1>5. k \in Months /\ k + 1 \in Months
  BY <1>2, CalendarAssumption DEF Months
<1> HIDE DEF d, k, n
<1>6. \A j \in Months : FirstOf[j] \in Nat /\ Day(j) \in Nat
  BY <1>1, CalendarAssumption
<1>7. Day(k + 1) > d /\ At(Day(k + 1), s) > after
  <2>1. Day(k + 1) > d
    BY <1>1, <1>2, <1>5, <1>6
  <2> QED
    BY <1>5, <1>6, <2>1, DayDecides DEF d
<1>8. \E j \in Months : n = At(Day(j), s) /\ n > after
  BY <1>4, <1>5, <1>7
<1>9. n \in Nat /\ n > after /\ AtTime(s, n) /\ \E j \in Months : DayOf(n) = Day(j)
  BY <1>6, <1>8, DayOfAt
<1>10. ASSUME NEW m \in Nat, m > after, AtTime(s, m),
              NEW j \in Months, DayOf(m) = Day(j)
       PROVE  n <= m
  <2>1. Day(j) \in Nat /\ m = At(Day(j), s)
    BY <1>6, <1>10, AtTimeIsAt
  <2>2. ~(Day(j) < d)
    BY <1>10, <2>1, DayDecides DEF d
  <2>3. j \in Nat /\ k \in Nat
    BY <1>5, CalendarAssumption DEF Months
  <2>4. CASE j < k
    <3>1. FirstOf[j] + 28 <= FirstOf[k]
      BY <1>5, <2>4, CalendarAssumption
    <3>2. Day(j) < d
      BY <1>1, <1>2, <1>5, <1>6, <3>1
    <3> QED
      BY <2>2, <3>2
  <2>5. CASE j = k
    BY <1>4, <1>10, <2>1, <2>5
  <2>6. CASE j > k
    <3>1. Day(k + 1) <= Day(j) /\ Day(k) <= Day(j)
      <4>1. FirstOf[k + 1] <= FirstOf[j]
        BY <1>5, <1>6, <2>3, <2>6, CalendarAssumption
      <4>2. FirstOf[k] <= FirstOf[j]
        BY <1>5, <1>6, <2>3, <2>6, CalendarAssumption
      <4> QED
        BY <1>1, <1>5, <1>6, <4>1, <4>2
    <3>2. At(Day(k + 1), s) <= m /\ At(Day(k), s) <= m
      BY <1>5, <1>6, <2>1, <3>1, AtIsMonotone
    <3> QED
      BY <1>4, <3>2
  <2> QED
    BY <2>3, <2>4, <2>5, <2>6
<1> QED
  BY <1>3, <1>9, <1>10 DEF FirstSlot, n

\* NextRun (schedule.go:99-140) is the first slot of the schedule strictly
\* after the given instant: none is left out and none is made up.
THEOREM NextRunIsFirst ==
  ASSUME NEW s \in Schedules, NEW after \in Nat, Reached(after)
  PROVE  FirstSlot(s, after, NextRun(s, after), Nat)
<1>1. s.kind \in {"hourly", "daily", "weekly", "monthly"}
  BY DEF Schedules
<1>2. CASE s.kind = "hourly"
  BY <1>2, HourlyIsFirst DEF NextRun
<1>3. CASE s.kind = "daily"
  BY <1>3, DailyIsFirst DEF NextRun
<1>4. CASE s.kind = "weekly"
  BY <1>4, WeeklyIsFirst DEF NextRun
<1>5. CASE s.kind = "monthly"
  BY <1>5, MonthlyIsFirst DEF NextRun
<1> QED
  BY <1>1, <1>2, <1>3, <1>4, <1>5

----------------------------------------------------------------------------
(* The loop and its runs.                                                  *)

LEMMA ConstantsTyped ==
  /\ NoJob \in Jobs /\ NoJob \in Job
  /\ NoRow \in Row /\ NoExec \in Exec
  /\ NoExec.pc = "idle" /\ ~NoRow.live /\ NoRow.base = 0
<1>1. NoJob \in Jobs /\ NoJob \in Job
  BY SchedulerAssumption DEF NoJob
<1>2. (CHOOSE i \in Ids : TRUE) \in Ids
  BY SchedulerAssumption
<1> QED
  BY <1>1, <1>2 DEF NoRow, NoExec, Row, Exec

\* A retention that fits a time.Duration is applied as it is written.
NoOverflow == \A r \in Retentions : Days(r) < DurationLimit

LEMMA RestOfSmaller ==
  ASSUME NEW n \in Nat \ {0}, NEW m \in Nat, m < n
  PROVE  m % n = m
  BY SMT

LEMMA DurationIsDays ==
  ASSUME NoOverflow, NEW r \in Retentions
  PROVE  Days(r) \in Nat /\ Duration(r) = Days(r) /\ (r # 0 => Days(r) > 0)
<1>1. r \in Nat /\ DurationLimit \in Nat \ {0}
  BY SchedulerAssumption
<1>2. Days(r) \in Nat /\ Days(r) < DurationLimit /\ (r # 0 => Days(r) > 0)
  BY <1>1 DEF NoOverflow, Days
<1>3. (Days(r) + DurationLimit) % (2 * DurationLimit) = Days(r) + DurationLimit
  <2>1. 2 * DurationLimit \in Nat \ {0} /\ Days(r) + DurationLimit \in Nat
        /\ Days(r) + DurationLimit < 2 * DurationLimit
    BY <1>1, <1>2
  <2> QED
    BY <2>1, RestOfSmaller
<1> QED
  BY <1>1, <1>2, <1>3 DEF Duration

LEMMA CutoffTyped ==
  ASSUME NEW j \in Job, clock \in Nat
  PROVE  CutoffOf(j) \in Int
<1>1. j.retention \in Nat /\ DurationLimit \in Nat \ {0}
  BY SchedulerAssumption DEF Job
<1>2. (Days(j.retention) + DurationLimit) \in Int /\ 2 * DurationLimit \in Nat \ {0}
  BY <1>1 DEF Days
<1>3. ((Days(j.retention) + DurationLimit) % (2 * DurationLimit)) \in Int
  BY <1>2
<1> QED
  BY <1>1, <1>3 DEF CutoffOf, Duration

----------------------------------------------------------------------------
(* Types.                                                                  *)

LEMMA BeginTyped ==
  ASSUME TypeOK, NEW w \in Workers, NEW i \in Ids, NEW j \in Job, Begin(w, i, j)
  PROVE  ex' \in [Workers -> Exec]
<1>1. written[j.target] \in Nat /\ j.kind \in {"snapshot", "command"}
  BY DEF TypeOK, Types, Job
<1>2. [NoExec EXCEPT !.id = i, !.job = j, !.began = written[j.target],
                     !.pc = IF j.kind = "command" THEN "command"
                            ELSE IF j.threshold > 0 THEN "measure"
                            ELSE "create"] \in Exec
  BY <1>1, ConstantsTyped DEF Exec
<1> QED
  BY <1>2 DEF Begin, TypeOK, Types

LEMMA EndTyped ==
  ASSUME TypeOK, NEW w \in Workers, NEW ok \in BOOLEAN, End(w, ok)
  PROVE  ex' \in [Workers -> Exec]
BY DEF End, TypeOK, Types, Exec

LEMMA TakenTyped ==
  ASSUME TypeOK, NEW d \in Datasets, Taken(d)
  PROVE  taken' \in [Datasets -> Nat]
BY DEF Taken, TypeOK, Types

LEMMA SnapTreeTyped ==
  ASSUME TypeOK, NEW j \in Job
  PROVE  SnapTree(j) \subseteq Snap
<1>1. j.target \in Datasets /\ j.retention \in Retentions \cup {0}
  BY DEF Job
<1> SUFFICES ASSUME NEW d \in Under[j.target]
             PROVE  [ds |-> d, at |-> clock, auto |-> TRUE, upto |-> written[d],
                     keep |-> j.retention] \in Snap
  BY DEF SnapTree
<1>2. d \in Datasets
  BY <1>1, SchedulerAssumption
<1> QED
  BY <1>1, <1>2 DEF TypeOK, Types, Snap

LEMMA TypesInit == Init => Types
<1> SUFFICES ASSUME Init PROVE Types
  OBVIOUS
<1>1. clock \in Nat
  BY SchedulerAssumption DEF Init
<1> QED
  BY <1>1, ConstantsTyped DEF Init, TypeOK, Types

LEMMA TypesStep == TypeOK /\ [Next]_vars => Types'
<1> SUFFICES ASSUME TypeOK, [Next]_vars PROVE Types'
  OBVIOUS
<1>1. CASE UNCHANGED vars
  BY <1>1 DEF TypeOK, Types, vars, zfs, loop
<1>2. ASSUME NEW j \in Jobs, Create(j) PROVE Types'
  <2>1. j \in Job
    BY SchedulerAssumption
  <2>2. [live |-> TRUE, job |-> j, enabled |-> TRUE, base |-> clock] \in Row
    BY <2>1 DEF TypeOK, Types, Row
  <2>3. row' \in [Ids -> Row] /\ served' \in [Ids -> Nat]
    BY <1>2, <2>2 DEF Create, TypeOK, Types
  <2>4. promised' \subseteq Datasets \X Retentions
    BY <1>2, <2>1 DEF Create, Promise, TypeOK, Types, Job
  <2> QED
    BY <1>2, <2>3, <2>4 DEF Create, TypeOK, Types, zfs
<1>3. ASSUME NEW i \in Ids, PatchEnabled(i) PROVE Types'
  BY <1>3 DEF PatchEnabled, TypeOK, Types, Row, zfs, loop
<1>4. ASSUME NEW i \in Ids, NEW j \in Jobs, PatchSchedule(i, j) PROVE Types'
  <2>1. j \in Job
    BY SchedulerAssumption
  <2>2. row' \in [Ids -> Row]
    <3>1. row[i] \in Row /\ row[i].job \in Job
      BY DEF TypeOK, Types, Row
    <3>2. [row[i].job EXCEPT !.schedule = j.schedule] \in Job
      BY <3>1, <2>1 DEF Job
    <3>3. [row[i] EXCEPT !.job = [row[i].job EXCEPT !.schedule = j.schedule]] \in Row
      BY <3>1, <3>2 DEF Row
    <3> QED
      BY <1>4, <3>3 DEF PatchSchedule, TypeOK, Types
  <2> QED
    BY <1>4, <2>2 DEF PatchSchedule, TypeOK, Types, zfs, loop
<1>5. ASSUME NEW i \in Ids, NEW r \in Retentions, PatchRetention(i, r) PROVE Types'
  <2>1. row' \in [Ids -> Row]
    <3>1. row[i] \in Row /\ row[i].job \in Job
      BY DEF TypeOK, Types, Row
    <3>2. [row[i].job EXCEPT !.retention = r] \in Job
      BY <3>1 DEF Job
    <3>3. [row[i] EXCEPT !.job = [row[i].job EXCEPT !.retention = r]] \in Row
      BY <3>1, <3>2 DEF Row
    <3> QED
      BY <1>5, <3>3 DEF PatchRetention, TypeOK, Types
  <2>2. promised' \subseteq Datasets \X Retentions
    BY <1>5, <2>1 DEF PatchRetention, Promise, TypeOK, Types, Row, Job
  <2> QED
    BY <1>5, <2>1, <2>2 DEF PatchRetention, TypeOK, Types, zfs, loop
<1>6. ASSUME NEW i \in Ids, NEW j \in Jobs, PatchThreshold(i, j) PROVE Types'
  <2>1. j \in Job
    BY SchedulerAssumption
  <2>2. row' \in [Ids -> Row]
    <3>1. row[i] \in Row /\ row[i].job \in Job
      BY DEF TypeOK, Types, Row
    <3>2. [row[i].job EXCEPT !.threshold = j.threshold] \in Job
      BY <3>1, <2>1 DEF Job
    <3>3. [row[i] EXCEPT !.job = [row[i].job EXCEPT !.threshold = j.threshold]] \in Row
      BY <3>1, <3>2 DEF Row
    <3> QED
      BY <1>6, <3>3 DEF PatchThreshold, TypeOK, Types
  <2> QED
    BY <1>6, <2>2 DEF PatchThreshold, TypeOK, Types, zfs, loop
<1>7. ASSUME NEW i \in Ids, Delete(i) PROVE Types'
  BY <1>7, ConstantsTyped DEF Delete, TypeOK, Types, zfs, loop
<1>8. CASE Check
  <2>1. list' \in [Ids -> Job]
    BY <1>8, ConstantsTyped DEF Check, TypeOK, Types, Row
  <2> QED
    BY <1>8, <2>1 DEF Check, TypeOK, Types, zfs
<1>9. ASSUME NEW i \in Ids, Launch(i) PROVE Types'
  <2>1. ex' \in [Workers -> Exec]
    <3>1. list[i] \in Job /\ Loop \in Workers
      BY DEF TypeOK, Types, Workers
    <3> QED
      BY <1>9, <3>1, BeginTyped DEF Launch
  <2> QED
    BY <1>9, <2>1, ConstantsTyped DEF Launch, TypeOK, Types, zfs
<1>10. ASSUME NEW w \in Workers, NEW i \in Ids, RunNow(w, i) PROVE Types'
  <2>1. row[i].job \in Job
    BY DEF TypeOK, Types, Row
  <2>2. ex' \in [Workers -> Exec]
    BY <1>10, <2>1, BeginTyped DEF RunNow
  <2> QED
    BY <1>10, <2>2 DEF RunNow, TypeOK, Types, zfs, loop
<1>11. ASSUME NEW w \in Workers, Measure(w) PROVE Types'
  <2>1. ex' \in [Workers -> Exec]
    <3>1. CASE End(w, TRUE)
      BY <3>1, EndTyped
    <3>2. CASE ex' = [ex EXCEPT ![w].pc = "create"]
      BY <3>2 DEF TypeOK, Types, Exec
    <3> QED
      BY <1>11, <3>1, <3>2 DEF Measure
  <2> QED
    BY <1>11, <2>1 DEF Measure, TypeOK, Types, zfs, loop
<1>12. ASSUME NEW w \in Workers, SnapshotCreate(w) PROVE Types'
  <2>1. ex[w].job \in Job /\ ex[w].job.target \in Datasets
    BY DEF TypeOK, Types, Exec, Job
  <2>2. CutoffOf(ex[w].job) \in Int
    BY <2>1, CutoffTyped DEF TypeOK, Types
  <2>3. snaps' \subseteq Snap /\ taken' \in [Datasets -> Nat]
    BY <1>12, <2>1, SnapTreeTyped, TakenTyped DEF SnapshotCreate, TypeOK, Types
  <2>4. ex' \in [Workers -> Exec]
    <3>1. CASE End(w, FALSE)
      BY <3>1, EndTyped
    <3>2. CASE ex' = [ex EXCEPT ![w].pc = IF ex[w].job.retention = 0 THEN "mark" ELSE "prune",
                                ![w].ok = ex[w].job.retention = 0,
                                ![w].cutoff = CutoffOf(ex[w].job)]
      <4>1. [ex[w] EXCEPT !.pc = IF ex[w].job.retention = 0 THEN "mark" ELSE "prune",
                          !.ok = ex[w].job.retention = 0,
                          !.cutoff = CutoffOf(ex[w].job)] \in Exec
        BY <2>2 DEF TypeOK, Types, Exec
      <4> QED
        BY <3>2, <4>1 DEF TypeOK, Types
    <3> QED
      BY <1>12, <3>1, <3>2 DEF SnapshotCreate
  <2> QED
    BY <1>12, <2>3, <2>4 DEF SnapshotCreate, TypeOK, Types, loop
<1>13. ASSUME NEW w \in Workers, SnapshotPrune(w) PROVE Types'
  <2>1. ex' \in [Workers -> Exec]
    BY <1>13, EndTyped DEF SnapshotPrune
  <2>2. snaps' \subseteq snaps
    BY <1>13 DEF SnapshotPrune
  <2> QED
    BY <1>13, <2>1, <2>2 DEF SnapshotPrune, TypeOK, Types, loop
<1>14. ASSUME NEW w \in Workers, Command(w) PROVE Types'
  <2>1. ex' \in [Workers -> Exec]
    BY <1>14, EndTyped DEF Command
  <2> QED
    BY <1>14, <2>1 DEF Command, TypeOK, Types, zfs, loop
<1>15. ASSUME NEW w \in Workers, MarkRun(w) PROVE Types'
  <2>1. row' \in [Ids -> Row]
    BY <1>15 DEF MarkRun, TypeOK, Types, Row, Exec
  <2>2. served' \in [Ids -> Nat]
    <3>1. served' = served \/ served' = [served EXCEPT ![ex[w].id] = clock]
      BY <1>15 DEF MarkRun
    <3>2. served \in [Ids -> Nat] /\ clock \in Nat
      BY DEF TypeOK, Types
    <3> QED
      BY <3>1, <3>2
  <2> QED
    BY <1>15, <2>1, <2>2, ConstantsTyped DEF MarkRun, TypeOK, Types, zfs, loop
<1>16. CASE Tick
  BY <1>16, SchedulerAssumption DEF Tick, TypeOK, Types, zfs, loop
<1>17. ASSUME NEW d \in Datasets, Write(d) PROVE Types'
  BY <1>17 DEF Write, TypeOK, Types, loop
<1>18. ASSUME NEW d \in Datasets, Manual(d) PROVE Types'
  <2>1. [ds |-> d, at |-> clock, auto |-> FALSE, upto |-> written[d], keep |-> 0] \in Snap
    BY DEF TypeOK, Types, Snap
  <2>2. taken' \in [Datasets -> Nat]
    BY <1>18 DEF Manual, TypeOK, Types
  <2> QED
    BY <1>18, <2>1, <2>2 DEF Manual, TypeOK, Types, loop
<1>19. CASE Crash
  BY <1>19, ConstantsTyped DEF Crash, TypeOK, Types, zfs
<1> QED
  BY <1>1, <1>2, <1>3, <1>4, <1>5, <1>6, <1>7, <1>8, <1>9, <1>10, <1>11, <1>12,
     <1>13, <1>14, <1>15, <1>16, <1>17, <1>18, <1>19
     DEF Next, Admin, Outside, Run

----------------------------------------------------------------------------
(* What the steps of an execution leave in its record.                     *)

LEMMA ExTyped ==
  ASSUME TypeOK, NEW w \in Workers
  PROVE  /\ ex[w] \in Exec /\ ex[w].job \in Job /\ ex[w].job.target \in Datasets
         /\ ex[w].job.retention \in Retentions /\ ex[w].job.retention \in Nat
         /\ ex[w].cutoff \in Int /\ ex[w].began \in Nat
         /\ Under[ex[w].job.target] \subseteq Datasets
BY SchedulerAssumption DEF TypeOK, Types, Exec, Job

LEMMA BeginExec ==
  ASSUME TypeOK, NEW w \in Workers, NEW i \in Ids, NEW j \in Job, Begin(w, i, j)
  PROVE  /\ \A v \in Workers : v # w => ex'[v] = ex[v]
         /\ ex'[w].job = j /\ ex'[w].id = i /\ ex'[w].began = written[j.target]
         /\ ex'[w].pc \in {"measure", "create", "command"}
         /\ ex'[w].pc = "command" => j.kind = "command"
BY ConstantsTyped DEF Begin, TypeOK, Types, Exec

LEMMA EndExec ==
  ASSUME TypeOK, NEW w \in Workers, NEW ok \in BOOLEAN, End(w, ok)
  PROVE  /\ \A v \in Workers : v # w => ex'[v] = ex[v]
         /\ ex'[w].job = ex[w].job /\ ex'[w].id = ex[w].id
         /\ ex'[w].began = ex[w].began /\ ex'[w].cutoff = ex[w].cutoff
         /\ ex'[w].pc = "mark" /\ ex'[w].ok = ok
BY DEF End, TypeOK, Types, Exec

\* A snapshot taken and reported: with a retention the prune follows.
Snapped(w) ==
  /\ \A v \in Workers : v # w => ex'[v] = ex[v]
  /\ ex'[w].job = ex[w].job /\ ex'[w].id = ex[w].id /\ ex'[w].began = ex[w].began
  /\ ex'[w].cutoff = CutoffOf(ex[w].job)
  /\ ex'[w].ok = (ex[w].job.retention = 0)
  /\ ex'[w].pc = IF ex[w].job.retention = 0 THEN "mark" ELSE "prune"
  /\ ~NameTaken(ex[w].job.target)
  /\ snaps' = snaps \cup SnapTree(ex[w].job) /\ Taken(ex[w].job.target)

LEMMA CreateExec ==
  ASSUME TypeOK, NEW w \in Workers, SnapshotCreate(w)
  PROVE  /\ ex[w].pc = "create" /\ UNCHANGED <<clock, row, written, loop, promised>>
         /\ \/ Snapped(w)
            \/ /\ End(w, FALSE)
               /\ \/ UNCHANGED <<snaps, taken>>
                  \/ snaps' = snaps \cup SnapTree(ex[w].job) /\ Taken(ex[w].job.target)
<1>1. CASE ex' = [ex EXCEPT ![w].pc = IF ex[w].job.retention = 0 THEN "mark" ELSE "prune",
                            ![w].ok = ex[w].job.retention = 0,
                            ![w].cutoff = CutoffOf(ex[w].job)]
  <2>1. ex'[w] = [ex[w] EXCEPT !.pc = IF ex[w].job.retention = 0 THEN "mark" ELSE "prune",
                               !.ok = ex[w].job.retention = 0,
                               !.cutoff = CutoffOf(ex[w].job)]
        /\ \A v \in Workers : v # w => ex'[v] = ex[v]
    BY <1>1 DEF TypeOK, Types
  <2>2. ex[w] \in Exec
    BY ExTyped
  <2>3. CASE /\ ~NameTaken(ex[w].job.target)
             /\ snaps' = snaps \cup SnapTree(ex[w].job) /\ Taken(ex[w].job.target)
    BY <2>1, <2>2, <2>3 DEF SnapshotCreate, Snapped, Exec
  <2> QED
    BY <2>3, <1>1 DEF SnapshotCreate
<1>2. CASE End(w, FALSE)
  BY <1>2 DEF SnapshotCreate
<1> QED
  BY <1>1, <1>2 DEF SnapshotCreate

----------------------------------------------------------------------------
(* Steps fit their jobs.                                                   *)

LEMMA BeginFits ==
  ASSUME TypeOK, NEW w \in Workers, NEW i \in Ids, NEW j \in Job, Begin(w, i, j)
  PROVE  StepFits(ex'[w])
<1>1. ex'[w] = [NoExec EXCEPT !.id = i, !.job = j, !.began = written[j.target],
                              !.pc = IF j.kind = "command" THEN "command"
                                     ELSE IF j.threshold > 0 THEN "measure"
                                     ELSE "create"]
  BY DEF Begin, TypeOK, Types
<1>2. j.kind \in {"snapshot", "command"}
  BY DEF Job
<1> QED
  BY <1>1, <1>2, ConstantsTyped DEF StepFits, Exec

LEMMA FitsStep ==
  ASSUME TypeOK, [Next]_vars, NEW v \in Workers
  PROVE  StepFits(ex'[v])
<1> USE DEF Workers
<1>1. StepFits(ex[v]) /\ ex[v] \in Exec
  BY ExTyped DEF TypeOK
<1>2. CASE UNCHANGED ex
  BY <1>1, <1>2
<1>3. ASSUME NEW i \in Ids, Launch(i) PROVE StepFits(ex'[v])
  <2>1. list[i] \in Job
    BY DEF TypeOK, Types
  <2> QED
    BY <1>1, <1>3, <2>1, BeginFits, BeginExec DEF Launch
<1>4. ASSUME NEW w \in Workers, NEW i \in Ids, RunNow(w, i) PROVE StepFits(ex'[v])
  <2>1. row[i].job \in Job
    BY DEF TypeOK, Types, Row
  <2> QED
    BY <1>1, <1>4, <2>1, BeginFits, BeginExec DEF RunNow
<1>5. ASSUME NEW w \in Workers, NEW ok \in BOOLEAN, End(w, ok) PROVE StepFits(ex'[v])
  <2>1. CASE v = w
    BY <1>5, <2>1, EndExec DEF StepFits
  <2> QED
    BY <1>1, <1>5, <2>1, EndExec
<1>6. ASSUME NEW w \in Workers, Measure(w) PROVE StepFits(ex'[v])
  <2>1. CASE ex' = [ex EXCEPT ![w].pc = "create"]
    <3>1. ex[w] \in Exec /\ StepFits(ex[w]) /\ ex[w].pc = "measure"
      BY <1>6, ExTyped DEF TypeOK, Measure
    <3>2. v = w => ex'[v] = [ex[w] EXCEPT !.pc = "create"]
      BY <2>1 DEF TypeOK, Types
    <3>3. v # w => ex'[v] = ex[v]
      BY <2>1 DEF TypeOK, Types
    <3> QED
      BY <1>1, <3>1, <3>2, <3>3 DEF StepFits, Exec
  <2> QED
    BY <1>5, <1>6, <2>1 DEF Measure
<1>7. ASSUME NEW w \in Workers, SnapshotCreate(w) PROVE StepFits(ex'[v])
  <2>1. CASE Snapped(w)
    <3>1. ex[w] \in Exec /\ StepFits(ex[w]) /\ ex[w].pc = "create"
          /\ ex[w].job.retention \in Nat
      BY <1>7, ExTyped DEF TypeOK, SnapshotCreate
    <3>2. CASE v = w
      BY <2>1, <3>1, <3>2 DEF Snapped, StepFits
    <3>3. CASE v # w
      BY <1>1, <2>1, <3>3 DEF Snapped
    <3> QED
      BY <3>2, <3>3
  <2> QED
    BY <1>5, <1>7, <2>1, CreateExec
<1>8. ASSUME NEW w \in Workers, SnapshotPrune(w) \/ Command(w) PROVE StepFits(ex'[v])
  BY <1>5, <1>8 DEF SnapshotPrune, Command
<1>9. ASSUME NEW w \in Workers, MarkRun(w) PROVE StepFits(ex'[v])
  <2>1. ex'[v] = NoExec \/ ex'[v] = ex[v]
    BY <1>9 DEF MarkRun, TypeOK, Types
  <2> QED
    BY <1>1, <2>1, ConstantsTyped DEF StepFits
<1>10. CASE Crash
  BY <1>10, ConstantsTyped DEF Crash, StepFits
<1> QED
  BY <1>2, <1>3, <1>4, <1>6, <1>7, <1>8, <1>9, <1>10
     DEF Next, Admin, Outside, Run, vars, Create, PatchEnabled, PatchSchedule,
         PatchRetention, PatchThreshold, Delete, Check, Tick, Write, Manual

\* What the loop's execution does: starts with a row of the list, goes on with
\* the row it has, or ends.
LEMMA LoopSteps ==
  ASSUME TypeOK, [Next]_vars
  PROVE  \/ \E i \in Ids : Launch(i)
         \/ MarkRun(Loop)
         \/ Crash
         \/ /\ ex'[Loop].id = ex[Loop].id
            /\ (ex'[Loop].pc = "idle") = (ex[Loop].pc = "idle")
<1>1. Loop \in Workers
  BY DEF Workers
<1>2. CASE UNCHANGED ex
  BY <1>2
<1>3. ASSUME NEW w \in Workers, NEW i \in Ids, RunNow(w, i) PROVE ex'[Loop] = ex[Loop]
  BY <1>1, <1>3 DEF RunNow, Begin, TypeOK, Types
<1>4. ASSUME NEW w \in Workers, Run(w), ~MarkRun(Loop)
      PROVE  /\ ex'[Loop].id = ex[Loop].id
             /\ (ex'[Loop].pc = "idle") = (ex[Loop].pc = "idle")
  <2>1. CASE Measure(w)
    BY <1>1, <2>1, EndExec DEF Measure, TypeOK, Types, Exec
  <2>2. CASE SnapshotCreate(w)
    BY <1>1, <2>2, CreateExec, EndExec DEF Snapped
  <2>3. CASE SnapshotPrune(w)
    BY <1>1, <2>3, EndExec DEF SnapshotPrune
  <2>4. CASE Command(w)
    BY <1>1, <2>4, EndExec DEF Command
  <2>5. CASE MarkRun(w)
    BY <1>1, <1>4, <2>5 DEF MarkRun, TypeOK, Types
  <2> QED
    BY <1>4, <2>1, <2>2, <2>3, <2>4, <2>5 DEF Run
<1> QED
  BY <1>2, <1>3, <1>4
     DEF Next, Admin, Outside, vars, Create, PatchEnabled, PatchSchedule,
         PatchRetention, PatchThreshold, Delete, Check, Tick, Write, Manual

\* The list loses what is launched and changes only while the loop runs nothing.
LEMMA LeftSteps ==
  ASSUME TypeOK, [Next]_vars
  PROVE  \/ UNCHANGED <<left, list>>
         \/ Check
         \/ Crash
         \/ \E i \in Ids : Launch(i)
BY DEF Next, Admin, Outside, Run, vars, zfs, loop, Create, PatchEnabled, PatchSchedule,
       PatchRetention, PatchThreshold, Delete, RunNow, Measure, SnapshotCreate,
       SnapshotPrune, Command, MarkRun, Tick, Write, Manual

LEMMA OffTheList ==
  ASSUME TypeOK, [Next]_vars, ex'[Loop].pc # "idle"
  PROVE  ex'[Loop].id \notin left'
<1>1. Loop \in Workers
  BY DEF Workers
<1>2. ASSUME NEW i \in Ids, Launch(i) PROVE ex'[Loop].id \notin left'
  <2>1. list[i] \in Job
    BY DEF TypeOK, Types
  <2> QED
    BY <1>1, <1>2, <2>1, BeginExec DEF Launch
<1>3. ~MarkRun(Loop)
  BY <1>1, ConstantsTyped DEF MarkRun, TypeOK, Types
<1>4. ~Crash
  BY <1>1, ConstantsTyped DEF Crash
<1>5. CASE Check
  BY <1>5 DEF Check
<1>6. CASE UNCHANGED <<left, list>> /\ ~\E i \in Ids : Launch(i)
  BY <1>3, <1>4, <1>6, LoopSteps DEF TypeOK
<1> QED
  BY <1>2, <1>4, <1>5, <1>6, LeftSteps

LEMMA TypeInit == Init => TypeOK
<1>1. Init => (\A w \in Workers : StepFits(ex[w])) /\ ex[Loop].pc = "idle"
  BY ConstantsTyped DEF Init, StepFits, Workers
<1> QED
  BY <1>1, TypesInit DEF TypeOK

LEMMA TypeStep == TypeOK /\ [Next]_vars => TypeOK'
<1> SUFFICES ASSUME TypeOK, [Next]_vars PROVE TypeOK'
  OBVIOUS
<1>1. Types'
  BY TypesStep
<1>2. \A w \in Workers : StepFits(ex[w])'
  BY FitsStep DEF StepFits
<1>3. (ex[Loop].pc # "idle" => ex[Loop].id \notin left)'
  BY OffTheList
<1> QED
  BY <1>1, <1>2, <1>3 DEF TypeOK

\* Every variable keeps its type, a step always fits the job it is a step of and
\* the loop never holds on its list what it runs, for every table, schedule and
\* environment.
THEOREM TypeCorrect == Spec => []TypeOK
BY TypeInit, TypeStep, PTL DEF Spec

----------------------------------------------------------------------------
(* Retention.                                                              *)

\* Whatever the loop or an execution holds of a job, a job had at some time.
Told ==
  /\ \A i \in Ids : row[i].live => <<row[i].job.target, row[i].job.retention>> \in promised
  /\ \A i \in left : <<list[i].target, list[i].retention>> \in promised
  /\ \A w \in Workers :
       ex[w].pc # "idle" => <<ex[w].job.target, ex[w].job.retention>> \in promised

\* A prune has a retention, and all it may remove is that old.
Cut ==
  \A w \in Workers : ex[w].pc = "prune" =>
    ex[w].job.retention # 0 /\ ex[w].cutoff + Days(ex[w].job.retention) <= clock

\* While a prune is due, every dataset of its tree has a snapshot it spares.
Younger ==
  \A w \in Workers : ex[w].pc = "prune" =>
    \A d \in Under[ex[w].job.target] :
      \E n \in snaps : n.ds = d /\ n.auto /\ n.at > ex[w].cutoff

RetentionInv == Told /\ Cut /\ Younger

LEMMA ToldStep ==
  ASSUME TypeOK, Told, [Next]_vars
  PROVE  Told'
<1>1. CASE UNCHANGED vars
  BY <1>1 DEF Told, vars, loop
<1>2. ASSUME NEW j \in Jobs, Create(j) PROVE Told'
  BY <1>2 DEF Create, Promise, Told, TypeOK, Types
<1>3. ASSUME NEW i \in Ids, PatchEnabled(i) PROVE Told'
  <2>1. \A k \in Ids : row'[k].live = row[k].live /\ row'[k].job = row[k].job
    BY <1>3 DEF PatchEnabled, TypeOK, Types, Row
  <2> QED
    BY <1>3, <2>1 DEF PatchEnabled, Told, loop
<1>4. ASSUME NEW i \in Ids, NEW j \in Jobs, PatchSchedule(i, j) PROVE Told'
  <2>1. \A k \in Ids : /\ row'[k].live = row[k].live
                       /\ row'[k].job.target = row[k].job.target
                       /\ row'[k].job.retention = row[k].job.retention
    BY <1>4 DEF PatchSchedule, TypeOK, Types, Row, Job
  <2> QED
    BY <1>4, <2>1 DEF PatchSchedule, Told, loop
<1>5. ASSUME NEW i \in Ids, NEW r \in Retentions, PatchRetention(i, r) PROVE Told'
  <2>1. /\ \A k \in Ids : row'[k].live = row[k].live
        /\ \A k \in Ids : k # i => row'[k].job = row[k].job
    BY <1>5 DEF PatchRetention, TypeOK, Types, Row
  <2>2. promised' = promised \cup {<<row'[i].job.target, row'[i].job.retention>>}
    BY <1>5 DEF PatchRetention, Promise
  <2> QED
    BY <1>5, <2>1, <2>2 DEF PatchRetention, Told, loop
<1>6. ASSUME NEW i \in Ids, NEW j \in Jobs, PatchThreshold(i, j) PROVE Told'
  <2>1. \A k \in Ids : /\ row'[k].live = row[k].live
                       /\ row'[k].job.target = row[k].job.target
                       /\ row'[k].job.retention = row[k].job.retention
    BY <1>6 DEF PatchThreshold, TypeOK, Types, Row, Job
  <2> QED
    BY <1>6, <2>1 DEF PatchThreshold, Told, loop
<1>7. ASSUME NEW i \in Ids, Delete(i) PROVE Told'
  BY <1>7, ConstantsTyped DEF Delete, Told, TypeOK, Types, loop
<1>8. CASE Check
  <2>1. \A i \in left' : row[i].live /\ list'[i] = row[i].job /\ i \in Ids
    BY <1>8 DEF Check, Due
  <2> QED
    BY <1>8, <2>1 DEF Check, Told
<1>9. ASSUME NEW i \in Ids, Launch(i) PROVE Told'
  <2>1. list[i] \in Job /\ Loop \in Workers
    BY DEF TypeOK, Types, Workers
  <2>2. /\ \A v \in Workers : v # Loop => ex'[v] = ex[v]
        /\ ex'[Loop].job = list[i]
    BY <1>9, <2>1, BeginExec DEF Launch
  <2>3. i \in left /\ left' = left \ {i} /\ \A k \in left' : list'[k] = list[k]
    BY <1>9 DEF Launch, TypeOK, Types
  <2> QED
    BY <1>9, <2>2, <2>3 DEF Launch, Told
<1>10. ASSUME NEW w \in Workers, NEW i \in Ids, RunNow(w, i) PROVE Told'
  <2>1. row[i].job \in Job
    BY DEF TypeOK, Types, Row
  <2>2. /\ \A v \in Workers : v # w => ex'[v] = ex[v]
        /\ ex'[w].job = row[i].job
    BY <1>10, <2>1, BeginExec DEF RunNow
  <2> QED
    BY <1>10, <2>2 DEF RunNow, Told, loop
<1>11. ASSUME NEW w \in Workers, Run(w) PROVE Told'
  <2>1. CASE MarkRun(w)
    <3>1. \A k \in Ids : row'[k].live = row[k].live /\ row'[k].job = row[k].job
      BY <2>1 DEF MarkRun, TypeOK, Types, Row
    <3>2. \A v \in Workers : ex'[v].pc # "idle" => ex'[v] = ex[v]
      BY <2>1, ConstantsTyped DEF MarkRun, TypeOK, Types
    <3> QED
      BY <2>1, <3>1, <3>2 DEF MarkRun, Told, loop
  <2>2. CASE /\ ex[w].pc # "idle" /\ UNCHANGED <<row, list, left, promised>>
             /\ ex'[w].job = ex[w].job
             /\ \A v \in Workers : v # w => ex'[v] = ex[v]
    BY <2>2 DEF Told
  <2>3. CASE Measure(w)
    <3>1. /\ ex'[w].job = ex[w].job
          /\ \A v \in Workers : v # w => ex'[v] = ex[v]
      BY <2>3, EndExec DEF Measure, TypeOK, Types, Exec
    <3> QED
      BY <2>2, <2>3, <3>1 DEF Measure, loop
  <2>4. CASE SnapshotCreate(w)
    BY <2>2, <2>4, CreateExec, EndExec DEF Snapped, loop
  <2>5. CASE SnapshotPrune(w)
    BY <2>2, <2>5, EndExec DEF SnapshotPrune, loop
  <2>6. CASE Command(w)
    BY <2>2, <2>6, EndExec DEF Command, loop
  <2> QED
    BY <1>11, <2>1, <2>3, <2>4, <2>5, <2>6 DEF Run
<1>12. CASE Tick \/ Crash \/ Outside
  <2>1. CASE Tick
    BY <2>1 DEF Tick, Told, loop
  <2>2. CASE Crash
    BY <2>2, ConstantsTyped DEF Crash, Told
  <2>3. CASE Outside
    BY <2>3 DEF Outside, Write, Manual, Told, loop
  <2> QED
    BY <1>12, <2>1, <2>2, <2>3
<1> QED
  BY <1>1, <1>2, <1>3, <1>4, <1>5, <1>6, <1>7, <1>8, <1>9, <1>10, <1>11, <1>12
     DEF Next, Admin

\* The executions that prune after a step: they did before, or took a snapshot.
LEMMA PruneExec ==
  ASSUME TypeOK, [Next]_vars, NEW v \in Workers, ex'[v].pc = "prune"
  PROVE  \/ ex[v].pc = "prune" /\ ex'[v].job = ex[v].job /\ ex'[v].cutoff = ex[v].cutoff
         \/ SnapshotCreate(v) /\ Snapped(v) /\ ex[v].job.retention # 0
<1>1. CASE UNCHANGED ex
  BY <1>1
<1>2. ASSUME NEW i \in Ids, Launch(i) PROVE ex'[v] = ex[v]
  <2>1. list[i] \in Job /\ Loop \in Workers
    BY DEF TypeOK, Types, Workers
  <2> QED
    BY <1>2, <2>1, BeginExec DEF Launch
<1>3. ASSUME NEW w \in Workers, NEW i \in Ids, RunNow(w, i) PROVE ex'[v] = ex[v]
  <2>1. row[i].job \in Job
    BY DEF TypeOK, Types, Row
  <2> QED
    BY <1>3, <2>1, BeginExec DEF RunNow
<1>4. ASSUME NEW w \in Workers, Run(w)
      PROVE  \/ ex'[v] = ex[v]
             \/ SnapshotCreate(v) /\ Snapped(v) /\ ex[v].job.retention # 0
  <2>1. CASE Measure(w)
    BY <2>1, EndExec DEF Measure, TypeOK, Types, Exec
  <2>2. CASE SnapshotCreate(w)
    BY <2>2, CreateExec, EndExec DEF Snapped
  <2>3. CASE SnapshotPrune(w)
    BY <2>3, EndExec DEF SnapshotPrune
  <2>4. CASE Command(w)
    BY <2>4, EndExec DEF Command
  <2>5. CASE MarkRun(w)
    BY <2>5, ConstantsTyped DEF MarkRun, TypeOK, Types
  <2> QED
    BY <1>4, <2>1, <2>2, <2>3, <2>4, <2>5 DEF Run
<1>5. CASE Crash
  BY <1>5, ConstantsTyped DEF Crash
<1> QED
  BY <1>1, <1>2, <1>3, <1>4, <1>5
     DEF Next, Admin, Outside, vars, Create, PatchEnabled, PatchSchedule,
         PatchRetention, PatchThreshold, Delete, Check, Tick, Write, Manual

\* What a step removes from the snapshots is what one prune found.
LEMMA Removed ==
  ASSUME TypeOK, [Next]_vars, snaps \ snaps' # {}
  PROVE  \E w \in Workers :
           /\ ex[w].pc = "prune" /\ UNCHANGED clock
           /\ snaps \ snaps' \subseteq Expired(ex[w].job, ex[w].cutoff)
<1>1. PICK s \in snaps : s \notin snaps'
  OBVIOUS
<1>2. ASSUME NEW w \in Workers, SnapshotPrune(w)
      PROVE  /\ ex[w].pc = "prune" /\ UNCHANGED clock
             /\ snaps \ snaps' \subseteq Expired(ex[w].job, ex[w].cutoff)
  BY <1>2 DEF SnapshotPrune
<1>3. ASSUME NEW w \in Workers, SnapshotCreate(w) PROVE snaps \subseteq snaps'
  BY <1>3, CreateExec DEF Snapped
<1> QED
  BY <1>1, <1>2, <1>3
     DEF Next, Admin, Outside, Run, vars, zfs, loop, Create, PatchEnabled, PatchSchedule,
         PatchRetention, PatchThreshold, Delete, Check, Launch, RunNow, Measure, Command,
         MarkRun, Tick, Write, Manual, Crash

LEMMA ClockForward ==
  ASSUME TypeOK, [Next]_vars
  PROVE  clock' \in Nat /\ clock <= clock'
<1>1. CASE Tick
  BY <1>1, SchedulerAssumption DEF Tick, TypeOK, Types
<1>2. CASE UNCHANGED clock
  BY <1>2 DEF TypeOK, Types
<1>3. ASSUME NEW w \in Workers, SnapshotCreate(w) PROVE UNCHANGED clock
  BY <1>3 DEF SnapshotCreate
<1> QED
  BY <1>1, <1>2, <1>3
     DEF Next, Admin, Outside, Run, vars, Create, PatchEnabled, PatchSchedule,
         PatchRetention, PatchThreshold, Delete, Check, Launch, RunNow, Measure,
         SnapshotPrune, Command, MarkRun, Write, Manual, Crash

LEMMA CutStep ==
  ASSUME NoOverflow, TypeOK, Cut, [Next]_vars
  PROVE  Cut'
<1> SUFFICES ASSUME NEW v \in Workers, ex'[v].pc = "prune"
             PROVE  /\ ex'[v].job.retention # 0
                    /\ ex'[v].cutoff + Days(ex'[v].job.retention) <= clock'
  BY DEF Cut
<1>1. clock \in Nat /\ clock' \in Nat /\ clock <= clock'
  BY ClockForward DEF TypeOK, Types
<1>2. ex[v].job.retention \in Retentions /\ ex[v].cutoff \in Int
  BY ExTyped
<1>3. Days(ex[v].job.retention) \in Nat
      /\ Duration(ex[v].job.retention) = Days(ex[v].job.retention)
  BY <1>2, DurationIsDays
<1>4. CASE ex[v].pc = "prune" /\ ex'[v].job = ex[v].job /\ ex'[v].cutoff = ex[v].cutoff
  BY <1>1, <1>2, <1>3, <1>4 DEF Cut
<1>5. CASE Snapped(v) /\ ex[v].job.retention # 0
  BY <1>1, <1>3, <1>5 DEF Snapped, CutoffOf
<1> QED
  BY <1>4, <1>5, PruneExec

LEMMA YoungerStep ==
  ASSUME NoOverflow, TypeOK, Younger, [Next]_vars
  PROVE  Younger'
<1> SUFFICES ASSUME NEW v \in Workers, ex'[v].pc = "prune",
                    NEW d \in Under[ex'[v].job.target]
             PROVE  \E n \in snaps' : n.ds = d /\ n.auto /\ n.at > ex'[v].cutoff
  BY DEF Younger
<1>1. CASE ex[v].pc = "prune" /\ ex'[v].job = ex[v].job /\ ex'[v].cutoff = ex[v].cutoff
  <2>1. PICK n \in snaps : n.ds = d /\ n.auto /\ n.at > ex[v].cutoff
    BY <1>1 DEF Younger
  <2>2. CASE n \in snaps'
    BY <1>1, <2>1, <2>2
  <2>3. CASE n \notin snaps'
    <3>1. PICK w \in Workers : /\ ex[w].pc = "prune"
                               /\ snaps \ snaps' \subseteq Expired(ex[w].job, ex[w].cutoff)
      BY <2>1, <2>3, Removed
    <3>2. d \in Under[ex[w].job.target] /\ n.at <= ex[w].cutoff
      BY <2>1, <2>3, <3>1 DEF Expired
    <3>3. PICK m \in snaps : m.ds = d /\ m.auto /\ m.at > ex[w].cutoff
      BY <3>1, <3>2 DEF Younger
    <3>4. m.at \in Nat /\ n.at \in Nat /\ ex[w].cutoff \in Int /\ ex[v].cutoff \in Int
      BY <2>1, <3>3, ExTyped DEF TypeOK, Types, Snap
    <3>5. m \in snaps'
      BY <3>1, <3>3, <3>4 DEF Expired
    <3> QED
      BY <1>1, <2>1, <3>2, <3>3, <3>4, <3>5
  <2> QED
    BY <2>2, <2>3
<1>2. CASE Snapped(v) /\ ex[v].job.retention # 0
  <2> DEFINE n == [ds |-> d, at |-> clock, auto |-> TRUE, upto |-> written[d],
                   keep |-> ex[v].job.retention]
  <2>1. n \in snaps'
    BY <1>2 DEF Snapped, SnapTree
  <2>2. clock \in Nat /\ Days(ex[v].job.retention) \in Nat
        /\ Days(ex[v].job.retention) > 0
        /\ Duration(ex[v].job.retention) = Days(ex[v].job.retention)
    BY <1>2, ExTyped, DurationIsDays DEF TypeOK, Types
  <2>3. ex'[v].cutoff = clock - Days(ex[v].job.retention)
    BY <1>2, <2>2 DEF Snapped, CutoffOf
  <2> QED
    BY <2>1, <2>2, <2>3
<1> QED
  BY <1>1, <1>2, PruneExec

LEMMA RetentionInvInit == Init => RetentionInv
BY ConstantsTyped DEF Init, RetentionInv, Told, Cut, Younger

LEMMA RetentionAlways ==
  ASSUME NoOverflow
  PROVE  Spec => [](TypeOK /\ RetentionInv)
<1>1. TypeOK /\ RetentionInv /\ [Next]_vars => (TypeOK /\ RetentionInv)'
  BY TypeStep, ToldStep, CutStep, YoungerStep DEF RetentionInv
<1> QED
  BY <1>1, TypeInit, RetentionInvInit, PTL DEF Spec

\* Retention removes automatic snapshots only, each at least as old as some
\* job over its dataset was set to keep.
THEOREM PruneWithinRetentionAlways ==
  ASSUME NoOverflow
  PROVE  Spec => PruneWithinRetention
<1>1. ASSUME TypeOK, RetentionInv, [Next]_vars, NEW s \in snaps \ snaps'
      PROVE  s.auto /\ \E p \in promised : /\ s.ds \in Under[p[1]] /\ p[2] # 0
                                           /\ s.at + Days(p[2]) <= clock
  <2>1. PICK w \in Workers : /\ ex[w].pc = "prune"
                             /\ snaps \ snaps' \subseteq Expired(ex[w].job, ex[w].cutoff)
    BY <1>1, Removed
  <2>2. s.auto /\ s.ds \in Under[ex[w].job.target] /\ s.at <= ex[w].cutoff
    BY <1>1, <2>1 DEF Expired
  <2>3. /\ ex[w].job.retention # 0
        /\ ex[w].cutoff + Days(ex[w].job.retention) <= clock
        /\ <<ex[w].job.target, ex[w].job.retention>> \in promised
    BY <1>1, <2>1 DEF RetentionInv, Told, Cut
  <2>4. s.at \in Nat /\ clock \in Nat /\ ex[w].cutoff \in Int
        /\ Days(ex[w].job.retention) \in Nat
    BY <1>1, ExTyped, DurationIsDays DEF TypeOK, Types, Snap
  <2>5. s.at + Days(ex[w].job.retention) <= clock
    BY <2>2, <2>3, <2>4
  <2> QED
    BY <2>2, <2>3, <2>5
<1>2. TypeOK /\ RetentionInv /\ [Next]_vars =>
        [\A s \in snaps \ snaps' :
           s.auto /\ \E p \in promised : /\ s.ds \in Under[p[1]] /\ p[2] # 0
                                         /\ s.at + Days(p[2]) <= clock]_vars
  BY <1>1
<1> QED
  BY <1>2, RetentionAlways, PTL DEF Spec, PruneWithinRetention

\* A dataset does not lose its last automatic snapshot to retention.
THEOREM LastStaysAlways ==
  ASSUME NoOverflow
  PROVE  Spec => LastStays
<1>1. ASSUME TypeOK, RetentionInv, [Next]_vars, NEW s \in snaps \ snaps'
      PROVE  \E n \in snaps' : n.ds = s.ds /\ n.auto /\ n.at > s.at
  <2>1. PICK w \in Workers : /\ ex[w].pc = "prune"
                             /\ snaps \ snaps' \subseteq Expired(ex[w].job, ex[w].cutoff)
    BY <1>1, Removed
  <2>2. s.ds \in Under[ex[w].job.target] /\ s.at <= ex[w].cutoff
    BY <1>1, <2>1 DEF Expired
  <2>3. PICK n \in snaps : n.ds = s.ds /\ n.auto /\ n.at > ex[w].cutoff
    BY <1>1, <2>1, <2>2 DEF RetentionInv, Younger
  <2>4. s.at \in Nat /\ n.at \in Nat /\ ex[w].cutoff \in Int
    BY <1>1, <2>3, ExTyped DEF TypeOK, Types, Snap
  <2>5. n \in snaps'
    BY <2>1, <2>3, <2>4 DEF Expired
  <2> QED
    BY <2>2, <2>3, <2>4, <2>5
<1>2. TypeOK /\ RetentionInv /\ [Next]_vars =>
        [\A s \in snaps \ snaps' :
           \E n \in snaps' : n.ds = s.ds /\ n.auto /\ n.at > s.at]_vars
  BY <1>1
<1> QED
  BY <1>2, RetentionAlways, PTL DEF Spec, LastStays

----------------------------------------------------------------------------
(* What a run that is ok vouches for.                                      *)

LEMMA OthersStay ==
  ASSUME TypeOK, NEW w \in Workers, NEW v \in Workers, Run(w), w # v
  PROVE  ex'[v] = ex[v]
<1>1. CASE Measure(w)
  BY <1>1, EndExec DEF Measure, TypeOK, Types, Exec
<1>2. CASE SnapshotCreate(w)
  BY <1>2, CreateExec, EndExec DEF Snapped
<1>3. CASE SnapshotPrune(w)
  BY <1>3, EndExec DEF SnapshotPrune
<1>4. CASE Command(w)
  BY <1>4, EndExec DEF Command
<1>5. CASE MarkRun(w)
  BY <1>5 DEF MarkRun, TypeOK, Types
<1> QED
  BY <1>1, <1>2, <1>3, <1>4, <1>5 DEF Run

\* The steps an execution can take: none, end, begin, or one of its own.
LEMMA ExecSteps ==
  ASSUME TypeOK, [Next]_vars, NEW v \in Workers
  PROVE  \/ ex'[v] = ex[v]
         \/ ex'[v] = NoExec
         \/ \E i \in Ids, j \in Job : Begin(v, i, j) /\ UNCHANGED written
         \/ Measure(v) \/ SnapshotCreate(v) \/ SnapshotPrune(v) \/ Command(v)
<1>1. CASE UNCHANGED ex
  BY <1>1
<1>2. ASSUME NEW i \in Ids, Launch(i)
      PROVE  \/ ex'[v] = ex[v]
             \/ Begin(v, i, list[i]) /\ list[i] \in Job /\ UNCHANGED written
  <2>1. list[i] \in Job /\ Loop \in Workers
    BY DEF TypeOK, Types, Workers
  <2> QED
    BY <1>2, <2>1, BeginExec DEF Launch, zfs
<1>3. ASSUME NEW w \in Workers, NEW i \in Ids, RunNow(w, i)
      PROVE  \/ ex'[v] = ex[v]
             \/ Begin(v, i, row[i].job) /\ row[i].job \in Job /\ UNCHANGED written
  <2>1. row[i].job \in Job
    BY DEF TypeOK, Types, Row
  <2> QED
    BY <1>3, <2>1, BeginExec DEF RunNow, zfs
<1>4. ASSUME NEW w \in Workers, Run(w), w # v
      PROVE  ex'[v] = ex[v]
  BY <1>4, OthersStay
<1>5. CASE MarkRun(v)
  BY <1>5, ConstantsTyped DEF MarkRun, TypeOK, Types
<1>6. CASE Crash
  BY <1>6, ConstantsTyped DEF Crash
<1>7. ASSUME NEW w \in Workers, Run(w), w = v
      PROVE  Measure(v) \/ SnapshotCreate(v) \/ SnapshotPrune(v) \/ Command(v) \/ MarkRun(v)
  BY <1>7 DEF Run
<1> QED
  BY <1>1, <1>2, <1>3, <1>4, <1>5, <1>6, <1>7
     DEF Next, Admin, Outside, vars, Create, PatchEnabled, PatchSchedule,
         PatchRetention, PatchThreshold, Delete, Check, Tick, Write, Manual

LEMMA DataGrows ==
  ASSUME TypeOK, [Next]_vars, NEW d \in Datasets
  PROVE  /\ taken[d] \in Nat /\ taken'[d] \in Nat /\ taken[d] <= taken'[d]
         /\ written[d] \in Nat /\ written'[d] \in Nat /\ written[d] <= written'[d]
<1>1. taken[d] \in Nat /\ written[d] \in Nat
  BY DEF TypeOK, Types
<1>2. CASE UNCHANGED <<taken, written>>
  BY <1>1, <1>2
<1>3. ASSUME NEW w \in Workers, SnapshotCreate(w)
      PROVE  UNCHANGED written /\ taken'[d] \in Nat /\ taken[d] <= taken'[d]
  <2>1. CASE UNCHANGED taken
    BY <1>1, <1>3, <2>1 DEF SnapshotCreate
  <2>2. CASE Taken(ex[w].job.target)
    BY <1>1, <1>3, <2>2 DEF SnapshotCreate, Taken, TypeOK, Types
  <2> QED
    BY <1>3, <2>1, <2>2, CreateExec DEF Snapped
<1>4. ASSUME NEW x \in Datasets, Write(x)
      PROVE  UNCHANGED taken /\ written'[d] \in Nat /\ written[d] <= written'[d]
  BY <1>1, <1>4 DEF Write, TypeOK, Types
<1>5. ASSUME NEW x \in Datasets, Manual(x)
      PROVE  UNCHANGED written /\ taken'[d] \in Nat /\ taken[d] <= taken'[d]
  BY <1>1, <1>5 DEF Manual, TypeOK, Types
<1>6. CASE Admin \/ Check \/ Tick \/ Crash \/ UNCHANGED vars
  BY <1>2, <1>6
     DEF Admin, vars, zfs, Create, PatchEnabled, PatchSchedule, PatchRetention,
         PatchThreshold, Delete, Check, Tick, Crash
<1>7. ASSUME NEW w \in Workers, Run(w), ~SnapshotCreate(w)
      PROVE  UNCHANGED <<taken, written>>
  BY <1>7 DEF Run, zfs, Measure, SnapshotPrune, Command, MarkRun
<1>8. ASSUME NEW i \in Ids, Launch(i) \/ \E w \in Workers : RunNow(w, i)
      PROVE  UNCHANGED <<taken, written>>
  BY <1>8 DEF Launch, RunNow, zfs
<1> QED
  BY <1>1, <1>2, <1>3, <1>4, <1>5, <1>6, <1>7, <1>8 DEF Next, Outside

\* Snapshots hold no more than was ever taken.
Held == \A s \in snaps : s.upto <= taken[s.ds]

\* A run began with no more than is written; one that prunes has taken it.
Vouched ==
  \A w \in Workers :
    /\ ex[w].pc # "idle" => ex[w].began <= written[ex[w].job.target]
    /\ ex[w].pc = "prune" => ex[w].began <= taken[ex[w].job.target]
    /\ ex[w].pc = "command" => ex[w].job.kind = "command"

LEMMA HeldStep ==
  ASSUME TypeOK, Held, [Next]_vars
  PROVE  Held'
<1> SUFFICES ASSUME NEW s \in snaps' PROVE s.upto <= taken'[s.ds]
  BY DEF Held
<1>1. CASE s \in snaps
  <2>1. s.ds \in Datasets /\ s.upto \in Nat
    BY <1>1 DEF TypeOK, Types, Snap
  <2> QED
    BY <1>1, <2>1, DataGrows DEF Held
<1>2. ASSUME NEW w \in Workers, SnapshotCreate(w), s \notin snaps
      PROVE  s.upto <= taken'[s.ds]
  <2>1. s \in SnapTree(ex[w].job) /\ Taken(ex[w].job.target)
    BY <1>2, CreateExec DEF Snapped
  <2>2. s.ds \in Under[ex[w].job.target] /\ s.upto = written[s.ds] /\ s.ds \in Datasets
    BY <2>1, ExTyped DEF SnapTree
  <2> QED
    BY <2>1, <2>2 DEF Taken, TypeOK, Types
<1>3. ASSUME NEW d \in Datasets, Manual(d), s \notin snaps
      PROVE  s.upto <= taken'[s.ds]
  BY <1>3 DEF Manual, TypeOK, Types
<1>4. ASSUME NEW w \in Workers, SnapshotPrune(w), s \notin snaps PROVE FALSE
  BY <1>4 DEF SnapshotPrune
<1> QED
  BY <1>1, <1>2, <1>3, <1>4
     DEF Next, Admin, Outside, Run, vars, zfs, loop, Create, PatchEnabled, PatchSchedule,
         PatchRetention, PatchThreshold, Delete, Check, Launch, RunNow, Measure, Command,
         MarkRun, Tick, Write, Crash

LEMMA MeasureExec ==
  ASSUME TypeOK, NEW w \in Workers, Measure(w)
  PROVE  /\ UNCHANGED zfs /\ ex[w].pc = "measure"
         /\ ex'[w].job = ex[w].job /\ ex'[w].began = ex[w].began
         /\ \/ ex'[w].pc = "create"
            \/ ex'[w].pc = "mark" /\ BelowThreshold(ex[w].job)
<1>1. CASE BelowThreshold(ex[w].job) /\ End(w, TRUE)
  BY <1>1, EndExec DEF Measure
<1>2. CASE ex' = [ex EXCEPT ![w].pc = "create"]
  BY <1>2 DEF Measure, TypeOK, Types, Exec
<1> QED
  BY <1>1, <1>2 DEF Measure

\* Once its snapshot is taken, what the run began with is.
LEMMA TakenCovers ==
  ASSUME TypeOK, NEW v \in Workers, ex[v].began <= written[ex[v].job.target],
         Taken(ex[v].job.target)
  PROVE  ex[v].began <= taken'[ex[v].job.target]
<1>1. ex[v].job.target \in Datasets /\ ex[v].began \in Nat
  BY ExTyped
<1>2. ex[v].job.target \in Under[ex[v].job.target]
  BY <1>1, SchedulerAssumption
<1>3. taken[ex[v].job.target] \in Nat /\ written[ex[v].job.target] \in Nat
  BY <1>1 DEF TypeOK, Types
<1>4. taken'[ex[v].job.target] = IF taken[ex[v].job.target] < written[ex[v].job.target]
                                 THEN written[ex[v].job.target] ELSE taken[ex[v].job.target]
  BY <1>1, <1>2 DEF Taken
<1> QED
  BY <1>1, <1>3, <1>4

LEMMA VouchedStep ==
  ASSUME TypeOK, Vouched, [Next]_vars
  PROVE  Vouched'
<1> SUFFICES ASSUME NEW v \in Workers
             PROVE  /\ ex'[v].pc # "idle" => ex'[v].began <= written'[ex'[v].job.target]
                    /\ ex'[v].pc = "prune" => ex'[v].began <= taken'[ex'[v].job.target]
                    /\ ex'[v].pc = "command" => ex'[v].job.kind = "command"
  BY DEF Vouched
<1> DEFINE d == ex[v].job.target
<1>1. d \in Datasets /\ ex[v].began \in Nat
  BY ExTyped
<1>2. /\ taken[d] \in Nat /\ taken'[d] \in Nat /\ taken[d] <= taken'[d]
      /\ written[d] \in Nat /\ written'[d] \in Nat /\ written[d] <= written'[d]
  BY <1>1, DataGrows
<1>3. ex[v].pc # "idle" => ex[v].began <= written'[d]
  BY <1>1, <1>2 DEF Vouched
<1>4. CASE ex'[v] = ex[v]
  BY <1>1, <1>2, <1>3, <1>4 DEF Vouched
<1>5. CASE ex'[v] = NoExec
  BY <1>5, ConstantsTyped
<1>6. ASSUME NEW i \in Ids, NEW j \in Job, Begin(v, i, j), UNCHANGED written
      PROVE  /\ ex'[v].began <= written'[ex'[v].job.target] /\ ex'[v].pc # "prune"
             /\ ex'[v].pc = "command" => ex'[v].job.kind = "command"
  <2>1. written[j.target] \in Nat
    BY DEF TypeOK, Types, Job
  <2> QED
    BY <1>6, <2>1, BeginExec
<1>7. CASE Measure(v)
  BY <1>3, <1>7, MeasureExec
<1>8. CASE SnapshotCreate(v)
  <2>1. CASE Snapped(v)
    <3>1. ex[v].began <= written[d] /\ Taken(d)
      BY <1>8, <2>1 DEF Vouched, Snapped, SnapshotCreate
    <3>2. ex[v].began <= taken'[d]
      BY <3>1, TakenCovers
    <3> QED
      BY <1>3, <1>8, <2>1, <3>2 DEF Snapped, SnapshotCreate
  <2>2. CASE End(v, FALSE)
    BY <1>3, <1>8, <2>2, EndExec DEF SnapshotCreate
  <2> QED
    BY <1>8, <2>1, <2>2, CreateExec
<1>9. CASE SnapshotPrune(v)
  BY <1>3, <1>9, EndExec DEF SnapshotPrune
<1>10. CASE Command(v)
  BY <1>3, <1>10, EndExec DEF Command
<1> QED
  BY <1>4, <1>5, <1>6, <1>7, <1>8, <1>9, <1>10, ExecSteps

LEMMA CoveredStep ==
  ASSUME TypeOK, Held, Vouched, OkIsCovered, [Next]_vars
  PROVE  OkIsCovered'
<1> SUFFICES ASSUME NEW v \in Workers, ex'[v].pc = "mark", ex'[v].ok,
                    ex'[v].job.kind = "snapshot"
             PROVE  \/ taken'[ex'[v].job.target] >= ex'[v].began
                    \/ ex'[v].began - taken'[ex'[v].job.target] < ex'[v].job.threshold
  BY DEF OkIsCovered
<1> DEFINE d == ex[v].job.target
<1>1. d \in Datasets /\ ex[v].began \in Nat /\ ex[v].job.threshold \in Nat
  BY ExTyped DEF Job
<1>2. /\ taken[d] \in Nat /\ taken'[d] \in Nat /\ taken[d] <= taken'[d]
      /\ written[d] \in Nat
  BY <1>1, DataGrows
<1>3. CASE ex'[v] = ex[v]
  BY <1>1, <1>2, <1>3 DEF OkIsCovered
<1>4. ASSUME NEW i \in Ids, NEW j \in Job, Begin(v, i, j) PROVE FALSE
  BY <1>4, BeginExec
<1>5. CASE Measure(v)
  <2>1. /\ ex'[v].job = ex[v].job /\ ex'[v].began = ex[v].began
        /\ ex[v].pc = "measure" /\ BelowThreshold(ex[v].job)
    BY <1>5, MeasureExec
  <2>2. PICK s \in snaps : s.ds = d /\ written[d] - s.upto < ex[v].job.threshold
    BY <2>1 DEF BelowThreshold, Latest
  <2>3. s.upto \in Nat /\ s.upto <= taken[d]
    BY <2>2 DEF Held, TypeOK, Types, Snap
  <2>4. ex[v].began <= written[d]
    BY <2>1 DEF Vouched
  <2> QED
    BY <1>1, <1>2, <2>1, <2>2, <2>3, <2>4
<1>6. CASE SnapshotCreate(v)
  <2>1. Snapped(v)
    BY <1>6, CreateExec, EndExec
  <2>2. ex[v].began <= taken'[d]
    BY <1>6, <2>1, TakenCovers DEF Vouched, Snapped, SnapshotCreate
  <2> QED
    BY <1>1, <1>2, <2>1, <2>2 DEF Snapped
<1>7. CASE SnapshotPrune(v)
  <2>1. ex[v].began <= taken[d]
    BY <1>7 DEF SnapshotPrune, Vouched
  <2> QED
    BY <1>1, <1>2, <1>7, <2>1, EndExec DEF SnapshotPrune
<1>8. CASE Command(v)
  BY <1>8, EndExec DEF Command, Vouched
<1> QED
  BY <1>3, <1>4, <1>5, <1>6, <1>7, <1>8, ExecSteps, ConstantsTyped

LEMMA CoveredInit == Init => Held /\ Vouched /\ OkIsCovered
BY ConstantsTyped DEF Init, Held, Vouched, OkIsCovered

\* A run that reports ok vouches for a snapshot of what its target held when
\* it began, but for less than the threshold.
THEOREM OkIsCoveredAlways == Spec => []OkIsCovered
<1>1. TypeOK /\ Held /\ Vouched /\ OkIsCovered /\ [Next]_vars
        => (TypeOK /\ Held /\ Vouched /\ OkIsCovered)'
  BY TypeStep, HeldStep, VouchedStep, CoveredStep
<1> QED
  BY <1>1, TypeInit, CoveredInit, PTL DEF Spec

----------------------------------------------------------------------------
(* What a run that is ok pruned.                                           *)

\* The cutoff of a run is set when its snapshot is taken, in the past.
Cutoffs ==
  \A w \in Workers :
    /\ ex[w].pc \in {"measure", "create", "command"} => ex[w].cutoff = 0
    /\ ex[w].cutoff > 0 => ex[w].cutoff < clock

LEMMA AddedNow ==
  ASSUME TypeOK, [Next]_vars, NEW s \in snaps', s \notin snaps
  PROVE  s.at = clock
<1>1. ASSUME NEW w \in Workers, SnapshotCreate(w) PROVE s.at = clock
  <2>1. s \in SnapTree(ex[w].job)
    BY <1>1, CreateExec DEF Snapped
  <2> QED
    BY <2>1 DEF SnapTree
<1>2. ASSUME NEW d \in Datasets, Manual(d) PROVE s.at = clock
  BY <1>2 DEF Manual
<1>3. ASSUME NEW w \in Workers, SnapshotPrune(w) PROVE FALSE
  BY <1>3 DEF SnapshotPrune
<1> QED
  BY <1>1, <1>2, <1>3
     DEF Next, Admin, Outside, Run, vars, zfs, loop, Create, PatchEnabled, PatchSchedule,
         PatchRetention, PatchThreshold, Delete, Check, Launch, RunNow, Measure, Command,
         MarkRun, Tick, Write, Crash

LEMMA CutoffsStep ==
  ASSUME NoOverflow, TypeOK, Cutoffs, [Next]_vars
  PROVE  Cutoffs'
<1> SUFFICES ASSUME NEW v \in Workers
             PROVE  /\ ex'[v].pc \in {"measure", "create", "command"} => ex'[v].cutoff = 0
                    /\ ex'[v].cutoff > 0 => ex'[v].cutoff < clock'
  BY DEF Cutoffs
<1>1. clock \in Nat /\ clock' \in Nat /\ clock <= clock' /\ ex[v].cutoff \in Int
  BY ClockForward, ExTyped DEF TypeOK, Types
<1>2. CASE ex'[v].cutoff = ex[v].cutoff
           /\ (ex'[v].pc \in {"measure", "create", "command"}
                 => ex[v].pc \in {"measure", "create", "command"})
  BY <1>1, <1>2 DEF Cutoffs
<1>3. CASE ex'[v] = ex[v]
  BY <1>2, <1>3
<1>4. CASE ex'[v] = NoExec
  BY <1>4, ConstantsTyped DEF NoExec
<1>5. ASSUME NEW i \in Ids, NEW j \in Job, Begin(v, i, j) PROVE ex'[v].cutoff = 0
  BY <1>5, ConstantsTyped DEF Begin, TypeOK, Types, NoExec
<1>6. CASE Measure(v)
  <2>1. ex'[v].cutoff = ex[v].cutoff
    BY <1>6, EndExec DEF Measure, TypeOK, Types, Exec
  <2> QED
    BY <1>2, <1>6, <2>1, MeasureExec
<1>7. CASE SnapshotCreate(v)
  <2>1. CASE Snapped(v)
    <3>1. /\ Days(ex[v].job.retention) \in Nat
          /\ Duration(ex[v].job.retention) = Days(ex[v].job.retention)
          /\ ex[v].job.retention # 0 => Days(ex[v].job.retention) > 0
      BY ExTyped, DurationIsDays
    <3>2. ex[v].job.retention # 0 =>
            ex'[v].cutoff = clock - Days(ex[v].job.retention)
      BY <2>1, <3>1 DEF Snapped, CutoffOf
    <3>3. ex[v].job.retention = 0 => ex'[v].cutoff = 0
      BY <2>1 DEF Snapped, CutoffOf
    <3> QED
      BY <1>1, <2>1, <3>1, <3>2, <3>3 DEF Snapped
  <2>2. CASE End(v, FALSE)
    BY <1>2, <2>2, EndExec
  <2> QED
    BY <1>7, <2>1, <2>2, CreateExec
<1>8. CASE SnapshotPrune(v)
  BY <1>2, <1>8, EndExec DEF SnapshotPrune
<1>9. CASE Command(v)
  BY <1>2, <1>9, EndExec DEF Command
<1> QED
  BY <1>3, <1>4, <1>5, <1>6, <1>7, <1>8, <1>9, ExecSteps

LEMMA PrunedStep ==
  ASSUME NoOverflow, "refuse" \notin Env, TypeOK, Cutoffs, OkIsPruned, [Next]_vars
  PROVE  OkIsPruned'
<1> SUFFICES ASSUME NEW v \in Workers, ex'[v].pc = "mark", ex'[v].ok, ex'[v].cutoff > 0,
                    NEW s \in snaps', s.ds \in Under[ex'[v].job.target], s.auto
             PROVE  s.at > ex'[v].cutoff
  BY DEF OkIsPruned
<1>1. clock \in Nat
  BY DEF TypeOK, Types
<1>2. CASE ex'[v] = ex[v]
  <2>1. CASE s \in snaps
    BY <1>2, <2>1 DEF OkIsPruned
  <2>2. CASE s \notin snaps
    <3>1. s.at = clock
      BY <2>2, AddedNow
    <3> QED
      BY <1>1, <1>2, <3>1, ExTyped DEF Cutoffs
  <2> QED
    BY <2>1, <2>2
<1>3. ASSUME NEW i \in Ids, NEW j \in Job, Begin(v, i, j) PROVE FALSE
  BY <1>3, BeginExec
<1>4. CASE Measure(v)
  <2>1. ex[v].cutoff = 0
    BY <1>4, MeasureExec DEF Cutoffs
  <2>2. ex'[v].cutoff = ex[v].cutoff
    BY <1>4, EndExec DEF Measure, TypeOK, Types, Exec
  <2> QED
    BY <2>1, <2>2
<1>5. CASE SnapshotCreate(v)
  <2>1. Snapped(v)
    BY <1>5, CreateExec, EndExec
  <2> QED
    BY <2>1 DEF Snapped, CutoffOf
<1>6. CASE SnapshotPrune(v)
  <2>1. snaps' = snaps \ Expired(ex[v].job, ex[v].cutoff)
        /\ ex'[v].job = ex[v].job /\ ex'[v].cutoff = ex[v].cutoff
    <3>1. ~End(v, FALSE)
      BY EndExec
    <3> QED
      BY <1>6, <3>1, EndExec DEF SnapshotPrune
  <2>2. ~(s.at <= ex[v].cutoff) /\ s \in snaps
    BY <2>1 DEF Expired
  <2>3. s.at \in Nat /\ ex[v].cutoff \in Int
    BY <2>2, ExTyped DEF TypeOK, Types, Snap
  <2> QED
    BY <2>1, <2>2, <2>3
<1>7. CASE Command(v)
  <2>1. ex[v].cutoff = 0
    BY <1>7 DEF Command, Cutoffs
  <2>2. ex'[v].cutoff = ex[v].cutoff
    BY <1>7, EndExec DEF Command
  <2> QED
    BY <2>1, <2>2
<1> QED
  BY <1>2, <1>3, <1>4, <1>5, <1>6, <1>7, ExecSteps, ConstantsTyped

\* A run that is ok and was not skipped left nothing expired in its tree, if
\* ZFS refuses no destroy.
THEOREM OkIsPrunedAlways ==
  ASSUME NoOverflow, "refuse" \notin Env
  PROVE  Spec => []OkIsPruned
<1>1. TypeOK /\ Cutoffs /\ OkIsPruned /\ [Next]_vars
        => (TypeOK /\ Cutoffs /\ OkIsPruned)'
  BY TypeStep, CutoffsStep, PrunedStep
<1>2. Init => Cutoffs /\ OkIsPruned
  BY ConstantsTyped DEF Init, Cutoffs, OkIsPruned, NoExec
<1> QED
  BY <1>1, <1>2, TypeInit, PTL DEF Spec

----------------------------------------------------------------------------
(* Slots.                                                                  *)

\* The calendar covers every instant of the run.
Calendar == \A t \in Times \cup {0} : Reached(t)

\* Runs are recorded at instants of the clock.
Instants ==
  /\ clock \in Times
  /\ \A i \in Ids : row[i].base \in Times \cup {0}
  /\ \A i \in Ids : served[i] \in Times \cup {0}

\* What the end of an execution leaves.
LEMMA MarkEffect ==
  ASSUME TypeOK, NEW w \in Workers, MarkRun(w)
  PROVE  /\ UNCHANGED <<clock, zfs, list, left, promised>> /\ ex[w].id \in Ids
         /\ \A v \in Workers : v # w => ex'[v] = ex[v]
         /\ \A i \in Ids : row'[i].live = row[i].live /\ row'[i].job = row[i].job
         /\ \A i \in Ids : i # ex[w].id => row'[i].base = row[i].base /\ served'[i] = served[i]
         /\ \/ /\ row'[ex[w].id].base = clock
               /\ served'[ex[w].id] = IF w = Loop THEN clock ELSE served[ex[w].id]
            \/ UNCHANGED <<row, served>>
<1>1. ex[w].id \in Ids /\ \A v \in Workers : v # w => ex'[v] = ex[v]
  BY DEF MarkRun, TypeOK, Types, Exec
<1>2. \/ /\ row' = [row EXCEPT ![ex[w].id].base = clock]
         /\ served' = IF w = Loop THEN [served EXCEPT ![ex[w].id] = clock] ELSE served
      \/ UNCHANGED <<row, served>>
  BY DEF MarkRun
<1>3. row \in [Ids -> Row] /\ served \in [Ids -> Nat]
  BY DEF TypeOK, Types
<1>4. \A i \in Ids : row'[i].live = row[i].live /\ row'[i].job = row[i].job
  BY <1>1, <1>2, <1>3 DEF Row
<1>5. \A i \in Ids : i # ex[w].id => row'[i].base = row[i].base /\ served'[i] = served[i]
  BY <1>1, <1>2, <1>3 DEF Row
<1>6. \/ /\ row'[ex[w].id].base = clock
         /\ served'[ex[w].id] = IF w = Loop THEN clock ELSE served[ex[w].id]
      \/ UNCHANGED <<row, served>>
  BY <1>1, <1>2, <1>3 DEF Row
<1> QED
  BY <1>1, <1>4, <1>5, <1>6 DEF MarkRun

LEMMA InstantsStep ==
  ASSUME TypeOK, Instants, [Next]_vars
  PROVE  Instants'
<1>1. CASE UNCHANGED vars
  BY <1>1 DEF Instants, vars, loop
<1>2. ASSUME NEW j \in Jobs, Create(j) PROVE Instants'
  BY <1>2 DEF Create, Instants, TypeOK, Types
<1>3. ASSUME \A i \in Ids : row'[i].base = row[i].base,
             UNCHANGED <<clock, served>>
      PROVE  Instants'
  BY <1>3 DEF Instants
<1>4. ASSUME NEW i \in Ids, PatchEnabled(i) PROVE Instants'
  BY <1>3, <1>4 DEF PatchEnabled, TypeOK, Types, Row, loop
<1>5. ASSUME NEW i \in Ids, NEW j \in Jobs, PatchSchedule(i, j) PROVE Instants'
  BY <1>3, <1>5 DEF PatchSchedule, TypeOK, Types, Row, loop
<1>6. ASSUME NEW i \in Ids, NEW r \in Retentions, PatchRetention(i, r) PROVE Instants'
  BY <1>3, <1>6 DEF PatchRetention, TypeOK, Types, Row, loop
<1>7. ASSUME NEW i \in Ids, NEW j \in Jobs, PatchThreshold(i, j) PROVE Instants'
  BY <1>3, <1>7 DEF PatchThreshold, TypeOK, Types, Row, loop
<1>8. ASSUME NEW i \in Ids, Delete(i) PROVE Instants'
  BY <1>8, ConstantsTyped DEF Delete, Instants, TypeOK, Types, loop
<1>9. ASSUME NEW i \in Ids, Launch(i) PROVE Instants'
  BY <1>3, <1>9 DEF Launch
<1>10. ASSUME NEW w \in Workers, MarkRun(w) PROVE Instants'
  <2>1. clock \in Times /\ UNCHANGED clock
    BY <1>10, MarkEffect DEF Instants
  <2>2. ASSUME NEW i \in Ids
        PROVE  row'[i].base \in Times \cup {0} /\ served'[i] \in Times \cup {0}
    <3>1. row[i].base \in Times \cup {0} /\ served[i] \in Times \cup {0}
      BY DEF Instants
    <3>2. CASE i = ex[w].id
      BY <1>10, <2>1, <3>1, <3>2, MarkEffect
    <3>3. CASE i # ex[w].id
      BY <1>10, <3>1, <3>3, MarkEffect
    <3> QED
      BY <3>2, <3>3
  <2> QED
    BY <2>1, <2>2 DEF Instants
<1>11. CASE Tick
  BY <1>11 DEF Tick, Instants, loop
<1>12. CASE Check \/ Crash \/ Outside
  BY <1>3, <1>12 DEF Check, Crash, Outside, Write, Manual, loop
<1>13. ASSUME NEW w \in Workers, NEW i \in Ids, RunNow(w, i) PROVE Instants'
  BY <1>3, <1>13 DEF RunNow, loop
<1>14. ASSUME NEW w \in Workers, Run(w), ~MarkRun(w) PROVE Instants'
  BY <1>3, <1>14 DEF Run, Measure, SnapshotCreate, SnapshotPrune, Command, loop
<1> QED
  BY <1>1, <1>2, <1>4, <1>5, <1>6, <1>7, <1>8, <1>9, <1>10, <1>11, <1>12, <1>13, <1>14
     DEF Next, Admin

LEMMA InstantsInit == Init => Instants
BY ConstantsTyped DEF Init, Instants

LEMMA InstantReached ==
  ASSUME Calendar, NEW t \in Times \cup {0}
  PROVE  t \in Nat /\ Reached(t)
BY SchedulerAssumption DEF Calendar

LEMMA NearbyTyped ==
  ASSUME NEW s \in Schedules, NEW b \in Nat,
         NEW form \in {"hourly", "daily", "weekly", "monthly"}
  PROVE  Nearby(s, b, form) \subseteq Nat
<1>1. CASE form = "hourly"
  <2>1. b \div 3600 \in Nat /\ s.minute \in Nat
    BY Division3600 DEF Schedules
  <2>2. \A h \in (b \div 3600)..(b \div 3600 + 1) : h * 3600 + s.minute * 60 \in Nat
    BY <2>1
  <2> QED
    BY <1>1, <2>2 DEF Nearby
<1>2. CASE form = "monthly"
  <2>1. ASSUME NEW k \in Months PROVE At(FirstOf[k] + s.monthday - 1, s) \in Nat
    <3>1. FirstOf[k] + s.monthday - 1 \in Nat
      BY CalendarAssumption DEF Schedules
    <3> QED
      BY <3>1, DayOfAt
  <2> QED
    BY <1>2, <2>1 DEF Nearby
<1>3. CASE form \in {"daily", "weekly"}
  <2>1. DayOf(b) \in Nat
    BY Division86400 DEF DayOf
  <2>2. ASSUME NEW d \in DayOf(b)..(DayOf(b) + 7) PROVE At(d, s) \in Nat
    BY <2>1, DayOfAt
  <2> QED
    BY <1>3, <2>2 DEF Nearby
<1> QED
  BY <1>1, <1>2, <1>3

\* The next run the loop and the API compute is the first slot of the schedule
\* after the last run.
THEOREM NextIsFirstAlways ==
  ASSUME Calendar
  PROVE  Spec => []NextIsFirst
<1>1. ASSUME TypeOK, Instants PROVE NextIsFirst
  <2> SUFFICES ASSUME NEW i \in Ids, NEW form \in {"hourly", "daily", "weekly", "monthly"}
               PROVE  LET s == [row[i].job.schedule EXCEPT !.kind = form]
                          b == row[i].base
                      IN  FirstSlot(s, b, NextRun(s, b), Nearby(s, b, form))
    BY DEF NextIsFirst
  <2> DEFINE s == [row[i].job.schedule EXCEPT !.kind = form]
             b == row[i].base
  <2>1. s \in Schedules
    <3>1. row[i].job.schedule \in Schedules
      BY <1>1 DEF TypeOK, Types, Row, Job
    <3> QED
      BY <3>1 DEF Schedules
  <2>2. b \in Nat /\ Reached(b)
    BY <1>1, InstantReached DEF Instants
  <2> HIDE DEF s, b
  <2>3. FirstSlot(s, b, NextRun(s, b), Nat)
    BY <2>1, <2>2, NextRunIsFirst
  <2>4. Nearby(s, b, form) \subseteq Nat
    BY <2>1, <2>2, NearbyTyped
  <2>5. FirstSlot(s, b, NextRun(s, b), Nearby(s, b, form))
    BY <2>3, <2>4 DEF FirstSlot
  <2> QED
    BY <2>5 DEF s, b
<1>2. TypeOK /\ Instants /\ [Next]_vars => (TypeOK /\ Instants)'
  BY TypeStep, InstantsStep
<1> QED
  BY <1>1, <1>2, TypeInit, InstantsInit, PTL DEF Spec

\* A run that is recorded leaves its job not due, however long it took and
\* whatever was patched meanwhile: the next slot is ahead.
RecordedNotDue ==
  [][\A w \in Workers, i \in Ids : Recorded(w, i) => ~Due(i)']_vars

(* The safety half of DueRuns: what remains is that the loop ticks, its runs *)
(* reach MarkRun (runJob, scheduler.go) and the UPDATE does not always fail; *)
(* a job whose run took longer than a period is not run again at once for    *)
(* the slots it missed.                                                      *)
THEOREM RecordedIsNotDue ==
  ASSUME Calendar
  PROVE  Spec => RecordedNotDue
<1>1. ASSUME TypeOK, Instants, NEW w \in Workers, NEW i \in Ids, Recorded(w, i)
      PROVE  ~Due(i)'
  <2> DEFINE s == row[i].job.schedule
  <2>1. MarkRun(w) /\ row'[i].base = clock
    BY <1>1 DEF Recorded
  <2>2. s \in Schedules /\ clock \in Nat /\ Reached(clock)
    BY <1>1, InstantReached DEF TypeOK, Types, Row, Job, Instants
  <2>3. NextRun(s, clock) \in Nat /\ clock < NextRun(s, clock)
    BY <2>2, NextRunIsFirst DEF FirstSlot
  <2>4. clock' = clock /\ row'[i].job = row[i].job
    BY <1>1, <2>1, MarkEffect
  <2> QED
    BY <2>1, <2>2, <2>3, <2>4 DEF Due
<1>2. TypeOK /\ Instants /\ [Next]_vars => (TypeOK /\ Instants)'
  BY TypeStep, InstantsStep
<1>3. TypeOK /\ Instants /\ [Next]_vars
        => [\A w \in Workers, i \in Ids : Recorded(w, i) => ~Due(i)']_vars
  BY <1>1
<1> QED
  BY <1>2, <1>3, TypeInit, InstantsInit, PTL DEF Spec, RecordedNotDue

\* A slot that is first after a later instant is not earlier.
LEMMA NextMonotone ==
  ASSUME Calendar, NEW s \in Schedules,
         NEW a \in Times \cup {0}, NEW b \in Times \cup {0}, a <= b
  PROVE  NextRun(s, a) <= NextRun(s, b)
<1>1. a \in Nat /\ b \in Nat /\ Reached(a) /\ Reached(b)
  BY InstantReached
<1>2. FirstSlot(s, a, NextRun(s, a), Nat) /\ FirstSlot(s, b, NextRun(s, b), Nat)
  BY <1>1, NextRunIsFirst
<1> QED
  BY <1>1, <1>2 DEF FirstSlot

\* What the list tells the loop to run has a slot after the last run recorded of
\* it; the base of a row is no earlier than that run.
Slots ==
  /\ \A i \in left : NextRun(list[i].schedule, served[i]) <= clock
  /\ \A i \in Ids : row[i].live => served[i] <= row[i].base
  /\ \A i \in Ids : served[i] <= clock /\ row[i].base <= clock

LEMMA SlotsTyped ==
  ASSUME TypeOK
  PROVE  /\ clock \in Nat /\ left \subseteq Ids
         /\ \A i \in Ids : served[i] \in Nat /\ row[i].base \in Nat
         /\ \A i \in Ids : list[i].schedule \in Schedules
BY DEF TypeOK, Types, Row, Job

LEMMA SlotTyped ==
  ASSUME Calendar, NEW s \in Schedules, NEW t \in Times \cup {0}
  PROVE  NextRun(s, t) \in Nat
BY NextRunIsFirst, InstantReached DEF FirstSlot

\* A slot after a run is also one after an earlier run.
LEMMA SlotEarlier ==
  ASSUME Calendar, TypeOK, NEW s \in Schedules,
         NEW a \in Times \cup {0}, NEW b \in Times \cup {0}, a <= b,
         NextRun(s, b) <= clock
  PROVE  NextRun(s, a) <= clock
BY NextMonotone, SlotTyped, SlotsTyped

\* Steps that leave the list and the recorded runs alone.
LEMMA SlotsKept ==
  ASSUME Calendar, TypeOK, Instants, Slots, [Next]_vars, UNCHANGED loop,
         \A i \in Ids : row'[i].live => row[i].live /\ row'[i].base = row[i].base,
         \A i \in Ids : row'[i].base = row[i].base \/ row'[i].base = 0
  PROVE  Slots'
<1>1. clock \in Nat /\ clock' \in Nat /\ clock <= clock'
  BY ClockForward, SlotsTyped
<1>2. ASSUME NEW i \in left' PROVE NextRun(list'[i].schedule, served'[i]) <= clock'
  <2>1. i \in left /\ i \in Ids /\ list'[i] = list[i] /\ served'[i] = served[i]
    BY <1>2, SlotsTyped DEF loop
  <2>2. NextRun(list[i].schedule, served[i]) \in Nat
    BY <2>1, SlotTyped, SlotsTyped DEF Instants
  <2>3. NextRun(list[i].schedule, served[i]) <= clock
    BY <2>1 DEF Slots
  <2> QED
    BY <1>1, <2>1, <2>2, <2>3
<1>3. ASSUME NEW i \in Ids
      PROVE  /\ row'[i].live => served'[i] <= row'[i].base
             /\ served'[i] <= clock' /\ row'[i].base <= clock'
  <2>1. served'[i] = served[i] /\ served[i] \in Nat /\ row[i].base \in Nat
    BY SlotsTyped DEF loop
  <2>2. served[i] <= clock /\ row[i].base <= clock
        /\ (row[i].live => served[i] <= row[i].base)
    BY DEF Slots
  <2> QED
    BY <1>1, <2>1, <2>2
<1> QED
  BY <1>2, <1>3 DEF Slots

LEMMA SlotsCreate ==
  ASSUME Calendar, TypeOK, Instants, Slots, NEW j \in Jobs, Create(j)
  PROVE  Slots'
<1> DEFINE n == NextId
<1>1. n \in Ids /\ UNCHANGED <<clock, list, left>>
  BY DEF Create
<1>2. row' = [row EXCEPT ![n] = [live |-> TRUE, job |-> j, enabled |-> TRUE, base |-> clock]]
  BY DEF Create
<1>3. served' = [served EXCEPT ![n] = IF n \in left THEN 0 ELSE clock]
  BY DEF Create
<1> HIDE DEF n
<1>4. \A i \in Ids : i # n => row'[i] = row[i] /\ served'[i] = served[i]
  BY <1>2, <1>3 DEF TypeOK, Types
<1>5. row'[n].base = clock /\ served'[n] = IF n \in left THEN 0 ELSE clock
  BY <1>1, <1>2, <1>3 DEF TypeOK, Types
<1>6. ASSUME NEW i \in left PROVE NextRun(list[i].schedule, served'[i]) <= clock
  <2>1. i \in Ids /\ NextRun(list[i].schedule, served[i]) <= clock
    BY SlotsTyped DEF Slots
  <2>2. CASE i = n
    <3>1. served'[i] = 0 /\ 0 <= served[i] /\ served[i] \in Times \cup {0}
      BY <1>5, <1>6, <2>1, <2>2, SlotsTyped DEF Instants
    <3> QED
      BY <2>1, <3>1, SlotEarlier, SlotsTyped
  <2> QED
    BY <1>4, <2>1, <2>2
<1>7. ASSUME NEW i \in Ids
      PROVE  /\ row'[i].live => served'[i] <= row'[i].base
             /\ served'[i] <= clock /\ row'[i].base <= clock
  <2>1. CASE i = n
    BY <1>5, <2>1, SlotsTyped
  <2>2. CASE i # n
    BY <1>4, <2>2 DEF Slots
  <2> QED
    BY <2>1, <2>2
<1> QED
  BY <1>1, <1>6, <1>7 DEF Slots

LEMMA SlotsCheck ==
  ASSUME Calendar, TypeOK, Instants, Slots, Check
  PROVE  Slots'
<1>1. UNCHANGED <<clock, row, served>>
  BY DEF Check
<1>2. ASSUME NEW i \in left' PROVE NextRun(list'[i].schedule, served[i]) <= clock
  <2>1. i \in Ids /\ Due(i) /\ list'[i] = row[i].job
    BY <1>2 DEF Check
  <2>2. row[i].live /\ NextRun(row[i].job.schedule, row[i].base) <= clock
    BY <2>1 DEF Due
  <2>3. served[i] <= row[i].base
    BY <2>1, <2>2 DEF Slots
  <2>4. served[i] \in Times \cup {0} /\ row[i].base \in Times \cup {0}
    BY <2>1 DEF Instants
  <2>5. row[i].job.schedule \in Schedules
    BY <2>1 DEF TypeOK, Types, Row, Job
  <2> QED
    BY <2>1, <2>2, <2>3, <2>4, <2>5, SlotEarlier
<1> QED
  BY <1>1, <1>2 DEF Slots

LEMMA SlotsMark ==
  ASSUME TypeOK, Slots, NEW w \in Workers, MarkRun(w)
  PROVE  Slots'
<1>1. /\ UNCHANGED <<clock, list, left>> /\ ex[w].id \in Ids
      /\ \A i \in Ids : row'[i].live = row[i].live
  BY MarkEffect
<1>2. ASSUME NEW i \in left PROVE NextRun(list[i].schedule, served'[i]) <= clock
  <2>1. w = Loop => i # ex[w].id
    BY <1>2 DEF MarkRun, TypeOK
  <2>2. served'[i] = served[i]
    BY <1>2, <2>1, MarkEffect, SlotsTyped
  <2> QED
    BY <1>2, <2>2 DEF Slots
<1>3. ASSUME NEW i \in Ids
      PROVE  /\ row'[i].live => served'[i] <= row'[i].base
             /\ served'[i] <= clock /\ row'[i].base <= clock
  <2>1. CASE i = ex[w].id
    BY <1>1, <2>1, MarkEffect, SlotsTyped DEF Slots
  <2>2. CASE i # ex[w].id
    BY <1>1, <2>2, MarkEffect DEF Slots
  <2> QED
    BY <2>1, <2>2
<1> QED
  BY <1>1, <1>2, <1>3 DEF Slots

LEMMA SlotsStep ==
  ASSUME Calendar, TypeOK, Instants, Slots, [Next]_vars
  PROVE  Slots'
<1>1. ASSUME NEW i \in Ids, Launch(i) PROVE Slots'
  <2>1. /\ left' = left \ {i} /\ UNCHANGED <<clock, row, served>>
        /\ \A k \in left' : k \in left /\ list'[k] = list[k]
    BY <1>1 DEF Launch, TypeOK, Types
  <2> QED
    BY <2>1 DEF Slots
<1>2. ASSUME UNCHANGED loop, \A i \in Ids : row'[i].live = row[i].live
                                            /\ row'[i].base = row[i].base
      PROVE  Slots'
  BY <1>2, SlotsKept
<1>3. ASSUME NEW i \in Ids, PatchEnabled(i) PROVE Slots'
  BY <1>2, <1>3 DEF PatchEnabled, TypeOK, Types, Row
<1>4. ASSUME NEW i \in Ids, NEW j \in Jobs, PatchSchedule(i, j) PROVE Slots'
  BY <1>2, <1>4 DEF PatchSchedule, TypeOK, Types, Row
<1>5. ASSUME NEW i \in Ids, NEW r \in Retentions, PatchRetention(i, r) PROVE Slots'
  BY <1>2, <1>5 DEF PatchRetention, TypeOK, Types, Row
<1>6. ASSUME NEW i \in Ids, NEW j \in Jobs, PatchThreshold(i, j) PROVE Slots'
  BY <1>2, <1>6 DEF PatchThreshold, TypeOK, Types, Row
<1>7. ASSUME NEW i \in Ids, Delete(i) PROVE Slots'
  <2>1. \A k \in Ids : row'[k] = row[k] \/ (~row'[k].live /\ row'[k].base = 0)
    BY <1>7, ConstantsTyped DEF Delete, TypeOK, Types
  <2> QED
    BY <1>7, <2>1, SlotsKept DEF Delete
<1>8. CASE Tick \/ Outside \/ UNCHANGED vars
  BY <1>2, <1>8 DEF Tick, Outside, Write, Manual, vars, zfs
<1>9. ASSUME NEW w \in Workers, NEW i \in Ids, RunNow(w, i) PROVE Slots'
  BY <1>2, <1>9 DEF RunNow
<1>10. ASSUME NEW w \in Workers, Run(w), ~MarkRun(w) PROVE Slots'
  BY <1>2, <1>10 DEF Run, Measure, SnapshotCreate, SnapshotPrune, Command
<1>11. CASE Crash
  BY <1>11 DEF Crash, Slots
<1> QED
  BY <1>1, <1>3, <1>4, <1>5, <1>6, <1>7, <1>8, <1>9, <1>10, <1>11,
     SlotsCreate, SlotsCheck, SlotsMark
     DEF Next, Admin

LEMMA SlotsInit == Init => Slots
<1> SUFFICES ASSUME Init PROVE Slots
  OBVIOUS
<1>1. clock \in Nat
  BY SchedulerAssumption DEF Init
<1> QED
  BY <1>1, ConstantsTyped DEF Init, Slots

\* The loop repeats a slot only if no run of it was recorded: whatever is patched
\* or started by hand, rows deleted and their ids used again, UPDATEs that fail
\* and restarts.
THEOREM OncePerSlotAlways ==
  ASSUME Calendar
  PROVE  Spec => OncePerSlot
<1>1. ASSUME TypeOK, Slots, [Next]_vars, NEW i \in Ids,
             ex[Loop].pc = "idle", ex'[Loop].pc # "idle", ex'[Loop].id = i
      PROVE  NextRun(list[i].schedule, served[i]) <= clock
  <2>1. ~MarkRun(Loop) /\ ~Crash
    BY <1>1, ConstantsTyped DEF MarkRun, Crash, Workers
  <2>2. PICK k \in Ids : Launch(k)
    BY <1>1, <2>1, LoopSteps
  <2>3. k = i
    <3>1. list[k] \in Job /\ Loop \in Workers
      BY <1>1 DEF TypeOK, Types, Workers
    <3> QED
      BY <1>1, <2>2, <3>1, BeginExec DEF Launch
  <2> QED
    BY <1>1, <2>2, <2>3 DEF Launch, Slots
<1>2. TypeOK /\ Instants /\ Slots /\ [Next]_vars => (TypeOK /\ Instants /\ Slots)'
  BY TypeStep, InstantsStep, SlotsStep
<1>3. TypeOK /\ Slots /\ [Next]_vars =>
        [\A i \in Ids : ex[Loop].pc = "idle" /\ ex'[Loop].pc # "idle" /\ ex'[Loop].id = i
           => NextRun(list[i].schedule, served[i]) <= clock]_vars
  BY <1>1
<1> QED
  BY <1>2, <1>3, TypeInit, InstantsInit, SlotsInit, PTL DEF Spec, OncePerSlot
=============================================================================
