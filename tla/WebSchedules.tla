---------------------------- MODULE WebSchedules ----------------------------
(***************************************************************************)
(* The schedule texts of the web client: a scheduled job's                 *)
(* ("weekly:sun@03:00"), a cron line ("0 3 * * 0") and a systemd calendar  *)
(* ("Sun *-*-* 03:00:00").  All three are one record of fields here; what  *)
(* differs is what each parser understands.  An editor turns the text into *)
(* the state of four inputs and back.                                      *)
(***************************************************************************)
EXTENDS Integers

Star == -1     \* the field is "*", or the text has no such field
Odd == -2     \* a list, a range, a step or a name: more than one number

\* A schedule text of a source: "job", "cron" or "systemd".
Text(src, dow, dom, hour, min) ==
    [src |-> src, mon |-> Star, dow |-> dow, dom |-> dom, hour |-> hour,
     min |-> min, sec |-> 0]

Field == Nat \cup {Star, Odd}

\* What the server lets a job have: one of the four kinds, with its fields.
JobTexts ==
    {x \in [src : {"job"}, mon : {Star}, dow : {Star} \cup 0..6, dom : {Star} \cup 1..28,
            hour : {Star} \cup 0..23, min : 0..59, sec : {0}] :
        /\ x.dow = Star \/ x.dom = Star
        /\ x.hour = Star => x.dow = Star /\ x.dom = Star}

\* What the timers of a system have; only a cron line knows a day 7.
TimerTexts ==
    {x \in [src : {"cron", "systemd"}, mon : Field, dow : {Star, Odd} \cup 0..7,
            dom : Field, hour : Field, min : Field, sec : Nat] :
        x.dow = 7 => x.src = "cron"}

\* The input of the time of day can be emptied.
NoTime == <<Odd, Odd>>

\* The state of the editor; "advanced" shows the text as it is.
SchedState == [freq : {"hourly", "daily", "weekly", "monthly", "advanced"},
               minute : Nat, time : ((0..23) \X (0..59)) \cup {NoTime},
               weekday : 0..6, monthday : Nat]

SYS_SCHED_DEFAULT == [freq |-> "daily", minute |-> 15, time |-> <<6, 0>>,
                      weekday |-> 0, monthday |-> 1]

Advanced == [SYS_SCHED_DEFAULT EXCEPT !.freq = "advanced"]

\* A form is not submitted with a number out of the range of its input.
InRange(s) ==
    /\ s.freq = "hourly" => s.minute \in 0..59
    /\ s.freq = "monthly" => s.monthday \in 1..28

Fields(src, s, minute, at) ==
    CASE s.freq = "hourly" -> Text(src, Star, Star, Star, minute)
      [] s.freq = "daily" -> Text(src, Star, Star, at[1], at[2])
      [] s.freq = "weekly" -> Text(src, s.weekday, Star, at[1], at[2])
      [] s.freq = "monthly" -> Text(src, Star, s.monthday, at[1], at[2])

\* buildSchedule: the text of a job, out of the editor; without a time of day
\* it is left without one.
buildSchedule(s) == Fields("job", s, s.minute, s.time)

\* parseSchedule: a job's text into the editor; what it does not know is
\* shown as the default, daily at six.
parseSchedule(x) ==
    LET def == SYS_SCHED_DEFAULT
        at == <<x.hour, x.min>> IN
    IF Odd \in {x.min, x.hour, x.dom, x.dow} THEN def
    ELSE IF x.hour = Star THEN [def EXCEPT !.freq = "hourly", !.minute = x.min]
    ELSE IF x.dow # Star THEN [def EXCEPT !.freq = "weekly", !.weekday = x.dow, !.time = at]
    ELSE IF x.dom # Star THEN [def EXCEPT !.freq = "monthly", !.monthday = x.dom, !.time = at]
    ELSE [def EXCEPT !.time = at]

clampMinute(m) == IF m > 59 THEN 59 ELSE m

\* No time of day is midnight.
parseHM(time) == IF time = NoTime THEN <<0, 0>> ELSE time

buildCron(s) == Fields("cron", s, clampMinute(s.minute), parseHM(s.time))

\* A systemd calendar has seconds; the editor has none and writes ":00".
buildOnCalendar(s) == Fields("systemd", s, clampMinute(s.minute), parseHM(s.time))

Hour(h) == h \in 0..23
Minute(m) == m \in 0..59

\* parseCron: five plain fields, or else the advanced mode.  Days of the week
\* run from 0 to 7, both ends Sunday; days of the month up to 28.
parseCron(x) ==
    LET def == SYS_SCHED_DEFAULT
        at == <<x.hour, x.min>>
        everyDay == x.dom = Star /\ x.dow = Star IN
    IF x.mon # Star \/ ~Minute(x.min) THEN Advanced
    ELSE IF everyDay /\ x.hour = Star THEN [def EXCEPT !.freq = "hourly", !.minute = x.min]
    ELSE IF ~Hour(x.hour) THEN Advanced
    ELSE IF everyDay THEN [def EXCEPT !.time = at]
    ELSE IF x.dom = Star /\ x.dow >= 0
         THEN [def EXCEPT !.freq = "weekly", !.weekday = x.dow % 7, !.time = at]
    ELSE IF x.dow = Star /\ x.dom \in 1..28
         THEN [def EXCEPT !.freq = "monthly", !.monthday = x.dom, !.time = at]
    ELSE Advanced

\* parseOnCalendar: the same for a systemd calendar; the seconds are dropped.
parseOnCalendar(x) ==
    LET def == SYS_SCHED_DEFAULT
        at == <<x.hour, x.min>>
        everyDay == x.dom = Star /\ x.dow = Star IN
    IF x.mon # Star \/ ~Minute(x.min) \/ Odd \in {x.dow, x.dom, x.hour} THEN Advanced
    ELSE IF x.hour = Star
         THEN IF everyDay THEN [def EXCEPT !.freq = "hourly", !.minute = x.min] ELSE Advanced
    ELSE IF x.hour > 23 THEN Advanced
    ELSE IF everyDay THEN [def EXCEPT !.time = at]
    ELSE IF x.dom = Star
         THEN [def EXCEPT !.freq = "weekly", !.weekday = x.dow, !.time = at]
    ELSE IF x.dow = Star /\ x.dom \in 1..28
         THEN [def EXCEPT !.freq = "monthly", !.monthday = x.dom, !.time = at]
    ELSE Advanced

\* What the editor shows of a text when the dialog opens.
Parsed(x) == CASE x.src = "job" -> parseSchedule(x)
               [] x.src = "cron" -> parseCron(x)
               [] x.src = "systemd" -> parseOnCalendar(x)

\* What is sent of an editor that opened on text x: in the advanced mode the
\* text itself.
Built(s, x) ==
    IF s.freq = "advanced" THEN x
    ELSE CASE x.src = "job" -> buildSchedule(s)
           [] x.src = "cron" -> buildCron(s)
           [] x.src = "systemd" -> buildOnCalendar(s)

\* Two texts run the same minutes: a cron's day 7 is its day 0.
SameTimes(x, y) ==
    /\ <<x.src, x.mon, x.dom, x.hour, x.min>> = <<y.src, y.mon, y.dom, y.hour, y.min>>
    /\ x.dow = y.dow \/ (x.src = "cron" /\ {x.dow, y.dow} = {0, 7})
=============================================================================
