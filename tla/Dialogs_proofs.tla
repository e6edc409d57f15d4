--------------------------- MODULE Dialogs_proofs ---------------------------
(***************************************************************************)
(* Proofs about the dialogs, for any lists, any views and any number of    *)
(* openings, requests and losses.                                          *)
(***************************************************************************)
EXTENDS Dialogs, FiniteSetTheorems, WellFoundedInduction, TLAPS

----------------------------------------------------------------------------
(* The first of a list.                                                    *)

LEMMA Least ==
  ASSUME NEW T, T \subseteq Nat, T # {}
  PROVE  \E x \in T : \A y \in T : x <= y
<1> DEFINE R == OpToRel(<, Nat)
<1>1. IsWellFoundedOn(R, Nat)
  BY NatLessThanWellFounded
<1>2. \A x, y \in Nat : y < x => <<y, x>> \in R
  BY DEF OpToRel
<1> HIDE DEF R
<1>3. PICK x \in T : \A y \in T : ~ (<<y, x>> \in R)
  BY <1>1, WFMin
<1>4. \A y \in T : ~ (y < x)
  BY <1>2, <1>3
<1>5. \A y \in T : x <= y
  BY <1>4
<1>6. QED
  BY <1>5

LEMMA FirstIs ==
  ASSUME NEW D, NEW list \in Seq(D), NEW S, S \cap elements(list) # {}
  PROVE  First(list, S) \in S
<1> DEFINE here == {i \in DOMAIN list : list[i] \in S}
<1>1. here \subseteq Nat /\ here # {}
  BY DEF elements
<1>2. \E i \in here : \A j \in here : i <= j
  BY <1>1, Least
<1>3. QED
  BY <1>2 DEF First

\* The lists that the dialogs show.
LEMMA FirstOfListed ==
  /\ \A S : S \subseteq Pools /\ S # {} => First(PoolList, S) \in S
  /\ \A S : S \subseteq Datasets /\ S # {} => First(DatasetList, S) \in S
  /\ \A S : S \subseteq Disks /\ S # {} => First(DiskList, S) \in S
BY DataAssumption, FirstIs DEF Pools, Datasets, Disks

----------------------------------------------------------------------------
(* The inputs of a dialog: what opens, and what Settle leaves alone.       *)

Inputs == {"form", "of", "main", "old", "kind", "preset", "sched", "wait", "got",
           "busy", "err"}

\* Settle decides about the two selects of a dialog and nothing else.
SameButSelects(c, d) ==
  /\ DOMAIN c = Inputs
  /\ c.form = d.form /\ c.of = d.of /\ c.kind = d.kind /\ c.preset = d.preset
  /\ c.sched = d.sched /\ c.wait = d.wait /\ c.got = d.got
  /\ c.busy = d.busy /\ c.err = d.err

LEMMA DefaultKeeps ==
  ASSUME NEW d, DOMAIN d = Inputs, NEW list, NEW S
  PROVE  /\ SameButSelects(Default(d, list, S), d)
         /\ d.main # None => Default(d, list, S).main = d.main
         /\ Default(d, list, S).main \in {d.main} \cup (IF S # {} THEN {First(list, S)} ELSE {})
BY DEF Default, SameButSelects, Inputs

LEMMA SettleReplaceKeeps ==
  ASSUME NEW d, DOMAIN d = Inputs
  PROVE  /\ SameButSelects(SettleReplace(d), d)
         /\ d.main # None => SettleReplace(d).main = d.main
<1> DEFINE c == Default(d, DiskList, Suitable(d))
<1>1. SameButSelects(c, d) /\ (d.main # None => c.main = d.main)
  BY DefaultKeeps
<1> HIDE DEF c
<1>2. ASSUME NEW x PROVE /\ SameButSelects([c EXCEPT !.old = x], d)
                         /\ d.main # None => [c EXCEPT !.old = x].main = d.main
  BY <1>1 DEF SameButSelects, Inputs
<1>3. \E x : SettleReplace(d) = [c EXCEPT !.old = x]
  BY DEF SettleReplace, c
<1>4. QED
  BY <1>2, <1>3

LEMMA SettleKeeps ==
  ASSUME NEW d, DOMAIN d = Inputs
  PROVE  /\ SameButSelects(Settle(d), d)
         /\ d.main # None /\ d.form # "newtask" => Settle(d).main = d.main
<1> DEFINE Good(c) == /\ SameButSelects(c, d)
                      /\ d.main # None /\ d.form # "newtask" => c.main = d.main
<1>1. Good(d)
  BY DEF SameButSelects
<1>2. \A list, S : Good(Default(d, list, S))
  BY DefaultKeeps
<1>3. Good(SettleReplace(SettleReplace(d)))
  <2>1. PICK c : c = SettleReplace(d)
    OBVIOUS
  <2>2. SameButSelects(c, d) /\ (d.main # None => c.main = d.main)
    BY <2>1, SettleReplaceKeeps
  <2>3. DOMAIN c = Inputs
    BY <2>2 DEF SameButSelects
  <2>4. SameButSelects(SettleReplace(c), c) /\ (c.main # None => SettleReplace(c).main = c.main)
    BY <2>3, SettleReplaceKeeps
  <2>5. QED
    BY <2>1, <2>2, <2>4 DEF SameButSelects
<1>4. d.form = "newtask" => Good(SettleTask(d))
  <2>1. \A x : SameButSelects([d EXCEPT !.main = x], d)
    BY DEF SameButSelects, Inputs
  <2>2. \A list, S : SameButSelects(Default(d, list, S), d)
    BY DefaultKeeps
  <2>3. SameButSelects(SettleTask(d), d)
    BY <2>1, <2>2 DEF SettleTask
  <2>4. QED
    BY <2>3
<1> HIDE DEF Good
<1>5. Good(Settle(d))
  BY <1>1, <1>2, <1>3, <1>4 DEF Settle
<1>6. QED
  BY <1>5 DEF Good

----------------------------------------------------------------------------
(* The schedule editors: what a text becomes in an editor, and what the    *)
(* editor makes of it again.                                               *)

LEMMA DefaultIs ==
  /\ SYS_SCHED_DEFAULT \in SchedState /\ SYS_SCHED_DEFAULT.freq = "daily"
  /\ Advanced \in SchedState /\ Advanced.freq = "advanced"
BY DEF SYS_SCHED_DEFAULT, Advanced, SchedState

\* What a parser may answer: the advanced mode, or a state that has the fields
\* of x, its day 7 as the day 0.
Says(s, x) ==
  \/ s = Advanced
  \/ /\ x.mon = Star /\ x.min \in 0..59
     /\ \/ /\ s.freq = "hourly" /\ s.minute = x.min
           /\ x.hour = Star /\ x.dow = Star /\ x.dom = Star
        \/ /\ x.hour \in 0..23 /\ s.time = <<x.hour, x.min>>
           /\ \/ s.freq = "daily" /\ x.dow = Star /\ x.dom = Star
              \/ /\ s.freq = "weekly" /\ x.dom = Star
                 /\ s.weekday = x.dow \/ (x.src = "cron" /\ x.dow = 7 /\ s.weekday = 0)
              \/ s.freq = "monthly" /\ s.monthday = x.dom /\ x.dow = Star

Good(s, x) == s \in SchedState /\ Says(s, x)

\* The four shapes of a text, and the state that says each.
LEMMA EditorSays ==
  ASSUME NEW s \in SchedState, s.freq = "daily", NEW x, x.mon = Star, x.min \in 0..59
  PROVE  /\ x.hour = Star /\ x.dow = Star /\ x.dom = Star =>
              Good([s EXCEPT !.freq = "hourly", !.minute = x.min], x)
         /\ x.hour \in 0..23 =>
              /\ x.dow = Star /\ x.dom = Star => Good([s EXCEPT !.time = <<x.hour, x.min>>], x)
              /\ \A w \in 0..6 :
                   x.dom = Star /\ (w = x.dow \/ (x.src = "cron" /\ x.dow = 7 /\ w = 0)) =>
                     Good([s EXCEPT !.freq = "weekly", !.weekday = w,
                                    !.time = <<x.hour, x.min>>], x)
              /\ x.dow = Star /\ x.dom \in Nat =>
                   Good([s EXCEPT !.freq = "monthly", !.monthday = x.dom,
                                  !.time = <<x.hour, x.min>>], x)
<1>1. x.min \in Nat /\ (x.hour \in 0..23 => <<x.hour, x.min>> \in (0..23) \X (0..59))
  OBVIOUS
<1>2. QED
  BY <1>1 DEF Good, Says, SchedState

LEMMA ParsedJob ==
  ASSUME NEW x \in JobTexts
  PROVE  Good(parseSchedule(x), x)
<1>1. PICK def : def = SYS_SCHED_DEFAULT
  OBVIOUS
<1>2. def \in SchedState /\ def.freq = "daily"
  BY <1>1, DefaultIs
<1>3. /\ x.mon = Star /\ x.dow \in {Star} \cup 0..6 /\ x.dom \in {Star} \cup 1..28
      /\ x.hour \in {Star} \cup 0..23 /\ x.min \in 0..59
      /\ x.dow = Star \/ x.dom = Star
      /\ x.hour = Star => x.dow = Star /\ x.dom = Star
      /\ Odd \notin {x.min, x.hour, x.dom, x.dow}
  BY DEF JobTexts, Star, Odd
<1>4. parseSchedule(x) =
        IF x.hour = Star THEN [def EXCEPT !.freq = "hourly", !.minute = x.min]
        ELSE IF x.dow # Star THEN [def EXCEPT !.freq = "weekly", !.weekday = x.dow,
                                              !.time = <<x.hour, x.min>>]
        ELSE IF x.dom # Star THEN [def EXCEPT !.freq = "monthly", !.monthday = x.dom,
                                              !.time = <<x.hour, x.min>>]
        ELSE [def EXCEPT !.time = <<x.hour, x.min>>]
  BY <1>1, <1>3 DEF parseSchedule
<1>5. /\ x.hour = Star => Good([def EXCEPT !.freq = "hourly", !.minute = x.min], x)
      /\ x.hour # Star /\ x.dow # Star =>
           Good([def EXCEPT !.freq = "weekly", !.weekday = x.dow,
                            !.time = <<x.hour, x.min>>], x)
      /\ x.hour # Star /\ x.dow = Star /\ x.dom # Star =>
           Good([def EXCEPT !.freq = "monthly", !.monthday = x.dom,
                            !.time = <<x.hour, x.min>>], x)
      /\ x.hour # Star /\ x.dow = Star /\ x.dom = Star =>
           Good([def EXCEPT !.time = <<x.hour, x.min>>], x)
  <2>1. x.hour # Star => x.hour \in 0..23
    BY <1>3
  <2>2. x.dow # Star => x.dow \in 0..6
    BY <1>3
  <2>3. x.dom # Star => x.dom \in Nat
    BY <1>3
  <2>4. QED
    BY <1>2, <1>3, <2>1, <2>2, <2>3, EditorSays
<1>6. QED
  BY <1>4, <1>5

LEMMA AdvancedIsGood ==
  ASSUME NEW x
  PROVE  Good(Advanced, x)
BY DefaultIs DEF Good, Says

LEMMA ParsedCron ==
  ASSUME NEW x \in TimerTexts, x.src = "cron"
  PROVE  Good(parseCron(x), x)
<1>1. PICK def : def = SYS_SCHED_DEFAULT
  OBVIOUS
<1>2. def \in SchedState /\ def.freq = "daily"
  BY <1>1, DefaultIs
<1> DEFINE at == <<x.hour, x.min>>
           everyDay == x.dom = Star /\ x.dow = Star
<1>3. CASE x.mon # Star \/ ~Minute(x.min)
  BY <1>3, AdvancedIsGood DEF parseCron
<1>4. CASE x.mon = Star /\ Minute(x.min)
  <2>1. /\ x.mon = Star /\ x.min \in 0..59 /\ (Hour(x.hour) => x.hour \in 0..23)
        /\ \A n \in 1..28 : n \in Nat
    BY <1>4 DEF Minute, Hour
  <2>2. x.dow >= 0 => x.dow % 7 \in 0..6 /\ (x.dow % 7 = x.dow \/ (x.dow = 7 /\ x.dow % 7 = 0))
    BY DEF TimerTexts, Star, Odd
  <2>3. parseCron(x) =
          IF everyDay /\ x.hour = Star THEN [def EXCEPT !.freq = "hourly", !.minute = x.min]
          ELSE IF ~Hour(x.hour) THEN Advanced
          ELSE IF everyDay THEN [def EXCEPT !.time = at]
          ELSE IF x.dom = Star /\ x.dow >= 0
               THEN [def EXCEPT !.freq = "weekly", !.weekday = x.dow % 7, !.time = at]
          ELSE IF x.dow = Star /\ x.dom \in 1..28
               THEN [def EXCEPT !.freq = "monthly", !.monthday = x.dom, !.time = at]
          ELSE Advanced
    BY <1>1, <1>4 DEF parseCron
  <2>4. /\ everyDay /\ x.hour = Star =>
             Good([def EXCEPT !.freq = "hourly", !.minute = x.min], x)
        /\ Hour(x.hour) =>
             /\ everyDay => Good([def EXCEPT !.time = at], x)
             /\ x.dom = Star /\ x.dow >= 0 =>
                  Good([def EXCEPT !.freq = "weekly", !.weekday = x.dow % 7, !.time = at], x)
             /\ x.dow = Star /\ x.dom \in 1..28 =>
                  Good([def EXCEPT !.freq = "monthly", !.monthday = x.dom, !.time = at], x)
    BY <1>2, <2>1, <2>2, EditorSays
  <2>5. QED
    BY <2>3, <2>4, AdvancedIsGood
<1>5. QED
  BY <1>3, <1>4

LEMMA ParsedSystemd ==
  ASSUME NEW x \in TimerTexts, x.src = "systemd"
  PROVE  Good(parseOnCalendar(x), x)
<1>1. PICK def : def = SYS_SCHED_DEFAULT
  OBVIOUS
<1>2. def \in SchedState /\ def.freq = "daily"
  BY <1>1, DefaultIs
<1> DEFINE at == <<x.hour, x.min>>
           everyDay == x.dom = Star /\ x.dow = Star
           hidden == x.mon # Star \/ ~Minute(x.min) \/ Odd \in {x.dow, x.dom, x.hour}
<1>3. CASE hidden
  BY <1>3, AdvancedIsGood DEF parseOnCalendar
<1>4. CASE ~hidden
  <2>1. /\ x.mon = Star /\ x.min \in 0..59
        /\ x.hour = Star \/ x.hour > 23 \/ x.hour \in 0..23
        /\ x.dow = Star \/ x.dow \in 0..6
        /\ \A n \in 1..28 : n \in Nat
    BY <1>4 DEF Minute, TimerTexts, Field, Star, Odd
  <2>2. parseOnCalendar(x) =
          IF x.hour = Star
          THEN IF everyDay THEN [def EXCEPT !.freq = "hourly", !.minute = x.min] ELSE Advanced
          ELSE IF x.hour > 23 THEN Advanced
          ELSE IF everyDay THEN [def EXCEPT !.time = at]
          ELSE IF x.dom = Star
               THEN [def EXCEPT !.freq = "weekly", !.weekday = x.dow, !.time = at]
          ELSE IF x.dow = Star /\ x.dom \in 1..28
               THEN [def EXCEPT !.freq = "monthly", !.monthday = x.dom, !.time = at]
          ELSE Advanced
    BY <1>1, <1>4 DEF parseOnCalendar
  <2>3. /\ everyDay /\ x.hour = Star =>
             Good([def EXCEPT !.freq = "hourly", !.minute = x.min], x)
        /\ x.hour \in 0..23 =>
             /\ everyDay => Good([def EXCEPT !.time = at], x)
             /\ x.dom = Star /\ x.dow # Star =>
                  Good([def EXCEPT !.freq = "weekly", !.weekday = x.dow, !.time = at], x)
             /\ x.dow = Star /\ x.dom \in 1..28 =>
                  Good([def EXCEPT !.freq = "monthly", !.monthday = x.dom, !.time = at], x)
    BY <1>2, <2>1, EditorSays
  <2>4. QED
    BY <2>1, <2>2, <2>3, AdvancedIsGood
<1>5. QED
  BY <1>3, <1>4

LEMMA ParsedIsGood ==
  ASSUME NEW x \in JobTexts \cup TimerTexts
  PROVE  Good(Parsed(x), x)
<1>1. x.src = "job" => x \in JobTexts
  BY DEF JobTexts, TimerTexts
<1>2. x.src \in {"cron", "systemd"} => x \in TimerTexts
  BY DEF JobTexts, TimerTexts
<1>3. x.src \in {"job", "cron", "systemd"}
  BY DEF JobTexts, TimerTexts
<1>4. QED
  BY <1>1, <1>2, <1>3, ParsedJob, ParsedCron, ParsedSystemd DEF Parsed

\* Whatever schedule a job or a timer has: the editor that opens on it and is
\* left alone sends a text that runs at the same minutes (parseSchedule and
\* buildSchedule, parseCron and buildCron, parseOnCalendar and buildOnCalendar).
THEOREM RoundTrip ==
  ASSUME NEW x \in JobTexts \cup TimerTexts
  PROVE  SameTimes(Built(Parsed(x), x), x)
<1>1. PICK s : s = Parsed(x)
  OBVIOUS
<1>2. Good(s, x)
  BY <1>1, ParsedIsGood
<1>3. x.src \in {"job", "cron", "systemd"}
  BY DEF JobTexts, TimerTexts
<1>4. CASE s = Advanced
  <2>1. Built(s, x) = x
    BY <1>4, DefaultIs DEF Built
  <2>2. SameTimes(x, x)
    BY DEF SameTimes
  <2>3. QED
    BY <1>1, <2>1, <2>2
<1>5. CASE s # Advanced
  <2>1. /\ x.mon = Star /\ x.min \in 0..59
        /\ s.freq \in {"hourly", "daily", "weekly", "monthly"}
        /\ s.freq = "hourly" => s.minute = x.min /\ clampMinute(s.minute) = x.min
    BY <1>2, <1>5 DEF Good, Says, clampMinute
  <2>0. s.freq # "hourly" => parseHM(s.time) = s.time
    <3>1. s.freq # "hourly" => x.hour # Odd /\ s.time = <<x.hour, x.min>>
      BY <1>2, <1>5 DEF Good, Says, Odd
    <3>2. <<x.hour, x.min>> = <<Odd, Odd>> => x.hour = Odd
      OBVIOUS
    <3>3. QED
      BY <3>1, <3>2 DEF parseHM, NoTime
  <2>2. \E m, at : /\ Built(s, x) = Fields(x.src, s, m, at)
                   /\ s.freq = "hourly" => m = x.min
                   /\ s.freq # "hourly" => at = s.time
    BY <1>3, <2>0, <2>1 DEF Built, buildSchedule, buildCron, buildOnCalendar
  <2>3. PICK m, at : /\ Built(s, x) = Fields(x.src, s, m, at)
                     /\ s.freq = "hourly" => m = x.min
                     /\ s.freq # "hourly" => at = s.time
    BY <2>2
  <2>4. PICK dow, dom, hour, min :
          /\ Built(s, x) = Text(x.src, dow, dom, hour, min)
          /\ dow = x.dow \/ (x.src = "cron" /\ x.dow = 7 /\ dow = 0)
          /\ dom = x.dom /\ hour = x.hour /\ min = x.min
    <3>1. CASE s.freq = "hourly"
      BY <1>2, <1>5, <2>3, <3>1 DEF Good, Says, Fields
    <3>2. CASE s.freq # "hourly"
      <4>1. s.time[1] = x.hour /\ s.time[2] = x.min
        BY <1>2, <1>5, <3>2 DEF Good, Says
      <4>2. QED
        BY <1>2, <1>5, <2>1, <2>3, <3>2, <4>1 DEF Good, Says, Fields
    <3>3. QED
      BY <3>1, <3>2
  <2>5. PICK y : y = Built(s, x)
    OBVIOUS
  <2>6. /\ y.src = x.src /\ y.mon = x.mon /\ y.dom = x.dom /\ y.hour = x.hour /\ y.min = x.min
        /\ y.dow = x.dow \/ (x.src = "cron" /\ x.dow = 7 /\ y.dow = 0)
    BY <2>1, <2>4, <2>5 DEF Text
  <2>7. SameTimes(y, x)
    BY <2>6 DEF SameTimes
  <2>8. QED
    BY <1>1, <2>5, <2>7
<1>6. QED
  BY <1>1, <1>4, <1>5

----------------------------------------------------------------------------
(* What the views open.                                                    *)

\* The dialogs and cards that a user who is no admin can come to.
UserForms == {"newsnap", "newds", "history", "browseFiles", "newtask", "sched",
              "profile", "password"}

\* A dialog that edits a schedule opens on something that has one.
Edited(d) ==
  /\ d.form = "sched" => d.of \in JobIds
  /\ d.form = "editrepl" => d.of \in ReplIds
  /\ d.form = "syssched" => d.of \in Timers

Editors == {"sched", "editrepl", "syssched"}

\* A dialog as some view opens it.
Fresh(d, a) ==
  /\ DOMAIN d = Inputs /\ d.form \in FormNames /\ (a \/ d.form \in UserForms)
  /\ d.wait = {} /\ d.got = {} /\ d.busy = FALSE /\ d.err = FALSE
  /\ d.sched \in SchedState /\ Edited(d)
  /\ d.form \in Editors => d.sched = Parsed(ScheduleOf[d.of])
  /\ d.form \in {"newtask", "newrepl"} => d.main = None

LEMMA FreshDialog ==
  ASSUME NEW a, NEW f \in FormNames \ Editors, a \/ f \in UserForms, NEW o
  PROVE  /\ Fresh(Dialog(f, o), a)
         /\ f \notin {"newtask", "newrepl"} => \A x : Fresh([Dialog(f, o) EXCEPT !.main = x], a)
         /\ \A x : Fresh([Dialog(f, o) EXCEPT !.old = x], a)
<1>1. PICK d : d = Dialog(f, o)
  OBVIOUS
<1>2. /\ DOMAIN d = Inputs /\ d.form = f /\ d.main = None /\ d.sched \in SchedState
      /\ d.wait = {} /\ d.got = {} /\ d.busy = FALSE /\ d.err = FALSE
  BY <1>1, DefaultIs DEF Dialog, Inputs
<1>3. /\ Fresh(d, a) /\ \A x : Fresh([d EXCEPT !.old = x], a)
      /\ f \notin {"newtask", "newrepl"} => \A x : Fresh([d EXCEPT !.main = x], a)
  BY <1>2 DEF Fresh, Edited, Editors, Inputs
<1>4. QED
  BY <1>1, <1>3

LEMMA FreshEditor ==
  ASSUME NEW a, NEW f \in Editors, a \/ f = "sched", NEW o,
         f = "sched" => o \in JobIds, f = "editrepl" => o \in ReplIds,
         f = "syssched" => o \in Timers
  PROVE  Fresh(Edit(f, o), a)
<1>1. PICK d : d = Dialog(f, o)
  OBVIOUS
<1>2. /\ DOMAIN d = Inputs /\ d.form = f /\ d.of = o
      /\ d.wait = {} /\ d.got = {} /\ d.busy = FALSE /\ d.err = FALSE
  BY <1>1 DEF Dialog, Inputs
<1>3. ScheduleOf[o] \in JobTexts \cup TimerTexts
  BY ScheduleAssumption DEF Editors
<1>4. Parsed(ScheduleOf[o]) \in SchedState
  BY <1>3, ParsedIsGood DEF Good
<1>5. f \in FormNames /\ (a \/ f \in UserForms) /\ f \notin {"newtask", "newrepl"}
  BY DEF Editors, FormNames, UserForms
<1>6. \A x \in SchedState : x = Parsed(ScheduleOf[o]) => Fresh([d EXCEPT !.sched = x], a)
  BY <1>2, <1>5 DEF Fresh, Edited, Inputs
<1>7. QED
  BY <1>1, <1>4, <1>6 DEF Edit

LEMMA OpensFresh ==
  ASSUME NEW a \in BOOLEAN, NEW d \in Opens(a)
  PROVE  Fresh(d, a)
<1> DEFINE plain == FormNames \ Editors
<1>0. /\ {"newsnap", "browseFiles", "newds", "history", "profile", "password"}
           \subseteq plain \cap UserForms
      /\ {"rollback", "delsnap", "editds", "rewrite", "delds", "unlockds", "lockds",
          "changekey", "checkpoint", "addvdev", "export", "expand", "replace", "detach",
          "newuser", "passwd", "deluser", "runbackup", "import", "protect", "mount",
          "unmount"} \subseteq plain
  BY DEF FormNames, Editors, UserForms
<1>1. CASE d \in SnapshotsOpen(a)
  <2>1. \/ \E f \in {"newsnap", "browseFiles"} : \E o : d = Dialog(f, o)
        \/ a /\ \E f \in {"rollback", "delsnap"} : \E o : d = Dialog(f, o)
    BY <1>1 DEF SnapshotsOpen
  <2>2. QED
    BY <2>1, <1>0, FreshDialog
<1>2. CASE d \in DatasetsOpen(a)
  <2>1. CASE \E x : d = [Dialog("newsnap", x) EXCEPT !.main = x]
    <3>1. PICK o : d = [Dialog("newsnap", o) EXCEPT !.main = o]
      BY <2>1
    <3>2. "newsnap" \in plain \cap UserForms /\ "newsnap" \notin {"newtask", "newrepl"}
      BY <1>0
    <3>3. \A x : Fresh([Dialog("newsnap", o) EXCEPT !.main = x], a)
      BY <3>2, FreshDialog
    <3>4. QED
      BY <3>1, <3>3
  <2>2. CASE \/ d = Dialog("newds", None)
             \/ a /\ \E f \in {"editds", "rewrite", "delds", "unlockds", "lockds", "changekey"} :
                        \E o : d = Dialog(f, o)
    BY <2>2, <1>0, FreshDialog
  <2>3. QED
    BY <1>2, <2>1, <2>2 DEF DatasetsOpen
<1>3. CASE d \in CardOpen(a)
  <2>1. CASE d \in {Dialog("history", p) : p \in Pools}
    BY <2>1, <1>0, FreshDialog
  <2>2. ASSUME a, \E f \in {"checkpoint", "addvdev", "export", "expand"} : \E o : d = Dialog(f, o)
        PROVE  Fresh(d, a)
    BY <2>2, <1>0, FreshDialog
  <2>3. ASSUME a, \E f \in {"replace", "detach"} : \E o, k : d = [Dialog(f, o) EXCEPT !.old = k]
        PROVE  Fresh(d, a)
    <3>1. PICK f \in {"replace", "detach"} : \E o, k : d = [Dialog(f, o) EXCEPT !.old = k]
      BY <2>3
    <3>2. PICK o, k : d = [Dialog(f, o) EXCEPT !.old = k]
      BY <3>1
    <3>3. f \in plain
      BY <1>0, <3>1
    <3>4. \A x : Fresh([Dialog(f, o) EXCEPT !.old = x], a)
      BY <2>3, <3>3, FreshDialog
    <3>5. QED
      BY <3>2, <3>4
  <2>4. CASE d \in {Dialog(f, p) : f \in {"checkpoint", "addvdev", "export"}, p \in Pools}
             /\ a
    <3>1. PICK f \in {"checkpoint", "addvdev", "export"} : \E p : d = Dialog(f, p)
      BY <2>4
    <3>2. f \in plain /\ a
      BY <1>0, <2>4, <3>1
    <3>3. QED
      BY <3>1, <3>2, FreshDialog
  <2>5. CASE d \in {Dialog("expand", p) : p \in {x \in Raidz : Free # {}}} /\ a
    BY <2>5, <2>2
  <2>6. CASE d \in {[Dialog("replace", Home[k]) EXCEPT !.old = k] :
                       k \in {x \in Disks : Home[x] # None}} /\ a
    BY <2>6, <2>3
  <2>7. CASE d \in {[Dialog("detach", Home[k]) EXCEPT !.old = k] :
                       k \in {x \in Disks : Home[x] \in Mirrors}} /\ a
    BY <2>7, <2>3
  <2>8. QED
    BY <1>3, <2>1, <2>4, <2>5, <2>6, <2>7 DEF CardOpen
<1>4. CASE d \in RebuildOpen(a)
  <2>1. PICK k, o, x : d = [Dialog("replace", o) EXCEPT !.old = k, !.main = x, !.preset = TRUE]
    BY <1>4 DEF RebuildOpen
  <2>2. a
    BY <1>4 DEF RebuildOpen
  <2>3. PICK e : e = Dialog("replace", o)
    OBVIOUS
  <2>4. /\ DOMAIN e = Inputs /\ e.form = "replace" /\ e.sched \in SchedState
        /\ e.wait = {} /\ e.got = {} /\ e.busy = FALSE /\ e.err = FALSE
    BY <2>3, DefaultIs DEF Dialog, Inputs
  <2>5. d = [e EXCEPT !.old = k, !.main = x, !.preset = TRUE]
    BY <2>1, <2>3
  <2>6. QED
    BY <2>2, <2>4, <2>5 DEF Fresh, Edited, Editors, Inputs, FormNames
<1>5. CASE d \in PoolsOpen(a)
  BY <1>5, FreshDialog DEF PoolsOpen, FormNames, UserForms, Editors
<1>6. CASE d \in JobsOpen(a)
  BY <1>6, FreshDialog, FreshEditor DEF JobsOpen, FormNames, UserForms, Editors
<1>7. CASE d \in ReplOpen(a)
  <2>1. CASE d \in {Edit("editrepl", j) : j \in ReplIds}
    BY <1>7, <2>1, FreshEditor DEF ReplOpen, Editors
  <2>2. CASE d = [Dialog("newrepl", None) EXCEPT !.sched.time = <<3, 0>>]
    <3>1. a
      BY <1>7 DEF ReplOpen
    <3>2. PICK e : e = Dialog("newrepl", None)
      OBVIOUS
    <3>3. /\ DOMAIN e = Inputs /\ e.form = "newrepl" /\ e.sched \in SchedState
          /\ e.wait = {} /\ e.got = {} /\ e.busy = FALSE /\ e.err = FALSE /\ e.main = None
      BY <3>2, DefaultIs DEF Dialog, Inputs
    <3>4. <<3, 0>> \in (0..23) \X (0..59)
      OBVIOUS
    <3>5. PICK t : t = [e.sched EXCEPT !.time = <<3, 0>>]
      OBVIOUS
    <3>6. t \in SchedState
      BY <3>3, <3>4, <3>5 DEF SchedState
    <3>7. d = [e EXCEPT !.sched = t]
      BY <2>2, <3>2, <3>3, <3>5 DEF Inputs
    <3>8. QED
      BY <3>1, <3>3, <3>6, <3>7 DEF Fresh, Edited, Editors, Inputs, FormNames
  <2>3. QED
    BY <1>7, <2>1, <2>2 DEF ReplOpen
<1>8. CASE d \in TimersOpen(a)
  BY <1>8, FreshDialog, FreshEditor DEF TimersOpen, FormNames, UserForms, Editors
<1>9. CASE d \in UsersOpen(a)
  <2>1. a /\ \E f \in {"newuser", "passwd", "deluser"} : \E o : d = Dialog(f, o)
    BY <1>9 DEF UsersOpen
  <2>2. QED
    BY <2>1, <1>0, FreshDialog
<1>10. CASE d \in CardsOpen(a)
  <2>1. \/ \E f \in {"profile", "password"} : \E o : d = Dialog(f, o)
        \/ a /\ \E f \in {"runbackup", "import", "protect", "mount", "unmount"} : \E o :
                d = Dialog(f, o)
    BY <1>10 DEF CardsOpen
  <2>2. QED
    BY <2>1, <1>0, FreshDialog
<1>11. QED
  BY <1>1, <1>2, <1>3, <1>4, <1>5, <1>6, <1>7, <1>8, <1>9, <1>10 DEF Opens

----------------------------------------------------------------------------
(* The dialog on the page.                                                 *)

DialogInv ==
  /\ admin \in BOOLEAN /\ opened \in 0..MaxOpens
  /\ DOMAIN dialog = Inputs
  /\ dialog.form = None => dialog = Closed
  /\ dialog.form # None =>
       /\ opened >= 1 /\ dialog.form \in FormNames /\ (admin \/ dialog.form \in UserForms)
       /\ Edited(dialog)
  /\ dialog.form \in {None} \cup UNION elements(Forms)
  /\ dialog.wait \cap dialog.got = {}
  /\ dialog.wait \cup dialog.got \subseteq Loads(dialog.form)
  /\ dialog.sched \in SchedState
  /\ dialog.busy \in BOOLEAN /\ dialog.err \in BOOLEAN /\ (dialog.busy => ~dialog.err)

LEMMA ClosedIs ==
  /\ DOMAIN Closed = Inputs /\ Closed.form = None /\ Closed.of = None /\ Closed.main = None
  /\ Closed.wait = {} /\ Closed.got = {} /\ Closed.busy = FALSE /\ Closed.err = FALSE
  /\ Closed.sched \in SchedState
<1>1. /\ DOMAIN Closed = Inputs /\ Closed.form = None /\ Closed.of = None /\ Closed.main = None
      /\ Closed.wait = {} /\ Closed.got = {} /\ Closed.busy = FALSE /\ Closed.err = FALSE
      /\ Closed.sched = SYS_SCHED_DEFAULT
  BY DEF Closed, Dialog, Inputs
<1>2. QED
  BY <1>1, DefaultIs

\* What a user and the lists do to an open dialog leaves its form, what it is
\* about and the state of its button.
LEMMA EditingKeeps ==
  ASSUME DialogInv, Arrive \/ Choose \/ ChooseKind \/ EditFields
  PROVE  /\ dialog.form # None /\ DOMAIN dialog' = Inputs
         /\ dialog'.form = dialog.form /\ dialog'.of = dialog.of
         /\ dialog'.busy = dialog.busy /\ dialog'.err = dialog.err
         /\ UNCHANGED <<admin, opened, sent, tally>>
<1> DEFINE Same(d) == /\ DOMAIN d = Inputs /\ d.form = dialog.form /\ d.of = dialog.of
                      /\ d.busy = dialog.busy /\ d.err = dialog.err
<1>1. DOMAIN dialog = Inputs /\ (dialog.form = None => dialog = Closed)
  BY DEF DialogInv
<1>2. \A d : Same(d) => Same(Settle(d))
  BY SettleKeeps DEF SameButSelects
<1>3. /\ \A x : Same([dialog EXCEPT !.main = x]) /\ Same([dialog EXCEPT !.sched = x])
      /\ \A x : Same([dialog EXCEPT !.kind = x]) /\ Same([dialog EXCEPT !.wait = x])
      /\ \A x, y : Same([dialog EXCEPT !.wait = x, !.got = y])
  BY <1>1 DEF Inputs
<1> HIDE DEF Same
<1>4. CASE Arrive
  <2>1. dialog.form # None
    BY <1>1, <1>4, ClosedIs DEF Arrive
  <2>2. Same(dialog')
    BY <1>2, <1>3, <1>4 DEF Arrive
  <2>3. QED
    BY <1>4, <2>1, <2>2 DEF Arrive, Same
<1>5. CASE Choose
  <2>1. dialog.form # None
    <3>1. Offered(dialog) # {}
      BY <1>5 DEF Choose
    <3>2. dialog.form \in {"newsnap", "newds", "newrepl", "newtask", "expand", "replace"}
      BY <3>1 DEF Offered
    <3>3. QED
      BY <3>2, NameAssumption DEF FormNames
  <2>2. Same(dialog')
    BY <1>3, <1>5 DEF Choose
  <2>3. QED
    BY <1>5, <2>1, <2>2 DEF Choose, Same
<1>6. CASE ChooseKind
  <2>1. dialog.form # None
    BY <1>6, NameAssumption DEF ChooseKind, FormNames
  <2>2. Same(dialog')
    BY <1>2, <1>3, <1>6 DEF ChooseKind
  <2>3. QED
    BY <1>6, <2>1, <2>2 DEF ChooseKind, Same
<1>7. CASE EditFields
  <2>1. dialog.form # None
    BY <1>1, <1>7, ClosedIs, NameAssumption DEF EditFields, FormNames
  <2>2. Same(dialog')
    BY <1>3, <1>7 DEF EditFields
  <2>3. QED
    BY <1>7, <2>1, <2>2 DEF EditFields, Same
<1>8. QED
  BY <1>4, <1>5, <1>6, <1>7

\* What opens is a dialog of some view, its lists on their way.
LEMMA OpenStep ==
  ASSUME DialogInv, Open
  PROVE  \E d \in Opens(admin) :
           /\ Fresh(d, admin) /\ d.form \in Forms[opened + 1]
           /\ DOMAIN dialog' = Inputs /\ dialog'.form = d.form /\ dialog'.of = d.of
           /\ dialog'.sched = d.sched /\ dialog'.wait = Loads(d.form) /\ dialog'.got = {}
           /\ dialog'.busy = FALSE /\ dialog'.err = FALSE
<1>1. PICK d \in Opens(admin) : /\ d.form \in Forms[opened + 1]
                                /\ dialog' = Settle([d EXCEPT !.wait = Loads(d.form)])
  BY DEF Open
<1>2. Fresh(d, admin)
  BY OpensFresh DEF DialogInv
<1>3. PICK e : e = [d EXCEPT !.wait = Loads(d.form)]
  OBVIOUS
<1>4. /\ DOMAIN e = Inputs /\ e.form = d.form /\ e.of = d.of /\ e.sched = d.sched
      /\ e.wait = Loads(d.form) /\ e.got = {} /\ e.busy = FALSE /\ e.err = FALSE
  BY <1>2, <1>3 DEF Fresh, Inputs
<1>5. SameButSelects(Settle(e), e)
  BY <1>4, SettleKeeps
<1>6. QED
  BY <1>1, <1>2, <1>3, <1>4, <1>5 DEF SameButSelects

LEMMA DialogInvInit == Init => DialogInv
<1> SUFFICES ASSUME Init PROVE DialogInv
  OBVIOUS
<1>1. dialog = Closed /\ opened = 0 /\ admin \in BOOLEAN
  BY DEF Init
<1>2. 0 \in 0..MaxOpens
  BY BoundAssumption
<1>3. QED
  BY <1>1, <1>2, ClosedIs DEF DialogInv

LEMMA DialogInvNext == DialogInv /\ [Next]_vars => DialogInv'
<1> SUFFICES ASSUME DialogInv, [Next]_vars PROVE DialogInv'
  OBVIOUS
<1>1. CASE Open
  <2>1. PICK d \in Opens(admin) :
          /\ Fresh(d, admin) /\ d.form \in Forms[opened + 1]
          /\ DOMAIN dialog' = Inputs /\ dialog'.form = d.form /\ dialog'.of = d.of
          /\ dialog'.sched = d.sched /\ dialog'.wait = Loads(d.form) /\ dialog'.got = {}
          /\ dialog'.busy = FALSE /\ dialog'.err = FALSE
    BY <1>1, OpenStep
  <2>2. admin' = admin /\ opened' = opened + 1 /\ opened' \in 1..MaxOpens
    BY <1>1, BoundAssumption DEF Open, DialogInv
  <2>3. d.form \in UNION elements(Forms)
    BY <2>1, <2>2, BoundAssumption DEF elements
  <2>4. d.form # None /\ d.form \in FormNames
    BY <2>1, NameAssumption DEF Fresh
  <2>5. /\ dialog'.wait \cap dialog'.got = {}
        /\ dialog'.wait \cup dialog'.got \subseteq Loads(dialog'.form)
    BY <2>1
  <2>6. opened' \in 0..MaxOpens /\ opened' >= 1 /\ admin' \in BOOLEAN
    BY <2>2, BoundAssumption DEF DialogInv
  <2>7. dialog'.form \in FormNames /\ (admin' \/ dialog'.form \in UserForms) /\ Edited(dialog')
    BY <2>1, <2>2 DEF Fresh, Edited
  <2>8. dialog'.sched \in SchedState
    BY <2>1 DEF Fresh
  <2>9. QED
    BY <2>1, <2>3, <2>4, <2>5, <2>6, <2>7, <2>8 DEF DialogInv, Edited
<1>2. ASSUME Arrive \/ Choose \/ ChooseKind \/ EditFields PROVE DialogInv'
  <2>1. /\ dialog.form # None /\ DOMAIN dialog' = Inputs
        /\ dialog'.form = dialog.form /\ dialog'.of = dialog.of
        /\ dialog'.busy = dialog.busy /\ dialog'.err = dialog.err
        /\ UNCHANGED <<admin, opened, sent, tally>>
    BY <1>2, EditingKeeps
  <2>2. /\ dialog'.wait \cap dialog'.got = {}
        /\ dialog'.wait \cup dialog'.got \subseteq dialog.wait \cup dialog.got
        /\ dialog'.sched \in SchedState
    <3> DEFINE Lists(d) == /\ DOMAIN d = Inputs /\ d.wait \cap d.got = {}
                           /\ d.wait \cup d.got \subseteq dialog.wait \cup dialog.got
                           /\ d.sched \in SchedState
    <3>1. DOMAIN dialog = Inputs /\ dialog.wait \cap dialog.got = {} /\ dialog.sched \in SchedState
      BY DEF DialogInv
    <3>2. \A d : Lists(d) => Lists(Settle(d))
      BY SettleKeeps DEF SameButSelects
    <3>3. /\ \A x : Lists([dialog EXCEPT !.main = x]) /\ Lists([dialog EXCEPT !.kind = x])
          /\ \A x \in SchedState : Lists([dialog EXCEPT !.sched = x])
          /\ \A w \in dialog.wait :
               /\ Lists([dialog EXCEPT !.wait = @ \ {w}])
               /\ Lists([dialog EXCEPT !.wait = @ \ {w}, !.got = @ \cup {w}])
      BY <3>1 DEF Inputs
    <3> SUFFICES Lists(dialog')
      OBVIOUS
    <3> HIDE DEF Lists
    <3>4. CASE Arrive
      BY <3>2, <3>3, <3>4 DEF Arrive
    <3>5. CASE Choose
      BY <3>3, <3>5 DEF Choose
    <3>6. CASE ChooseKind
      BY <3>2, <3>3, <3>6 DEF ChooseKind
    <3>7. CASE EditFields
      BY <3>3, <3>7, ScheduleAssumption DEF EditFields
    <3>8. QED
      BY <1>2, <3>4, <3>5, <3>6, <3>7
  <2>3. QED
    BY <2>1, <2>2 DEF DialogInv, Edited
<1>3. CASE Submit
  <2>1. /\ dialog' = [dialog EXCEPT !.busy = TRUE, !.err = FALSE]
        /\ UNCHANGED <<admin, opened>>
        /\ dialog # Closed
    BY <1>3 DEF Submit
  <2>2. /\ DOMAIN dialog' = Inputs /\ dialog'.form = dialog.form /\ dialog'.of = dialog.of
        /\ dialog'.wait = dialog.wait /\ dialog'.got = dialog.got /\ dialog'.sched = dialog.sched
        /\ dialog'.busy = TRUE /\ dialog'.err = FALSE
    BY <2>1 DEF DialogInv, Inputs
  <2>3. QED
    BY <2>1, <2>2 DEF DialogInv, Edited
<1>4. ASSUME dialog' = Closed, UNCHANGED <<admin, opened>> PROVE DialogInv'
  BY <1>4, ClosedIs DEF DialogInv
<1>5. ASSUME NEW m \in sent, Answer(m) PROVE DialogInv'
  <2>1. CASE dialog' = Closed
    BY <1>4, <1>5, <2>1 DEF Answer
  <2>2. CASE dialog # Closed /\ dialog' = [dialog EXCEPT !.busy = FALSE, !.err = TRUE]
    <3>1. /\ DOMAIN dialog' = Inputs /\ dialog'.form = dialog.form /\ dialog'.of = dialog.of
          /\ dialog'.wait = dialog.wait /\ dialog'.got = dialog.got /\ dialog'.sched = dialog.sched
          /\ dialog'.busy = FALSE /\ dialog'.err = TRUE
      BY <2>2 DEF DialogInv, Inputs
    <3>2. UNCHANGED <<admin, opened>>
      BY <1>5 DEF Answer
    <3>3. QED
      BY <2>2, <3>1, <3>2 DEF DialogInv, Edited
  <2>3. CASE dialog' = dialog
    BY <1>5, <2>3 DEF Answer, DialogInv, Edited
  <2>4. QED
    BY <1>5, <2>1, <2>2, <2>3 DEF Answer
<1>6. CASE closeModal
  BY <1>4, <1>6 DEF closeModal
<1>7. ASSUME NEW m \in sent, Serve(m) \/ Lose(m) PROVE DialogInv'
  BY <1>7 DEF Serve, Lose, DialogInv, Edited
<1>8. CASE UNCHANGED vars
  BY <1>8 DEF vars, DialogInv, Edited
<1>9. QED
  BY <1>1, <1>2, <1>3, <1>5, <1>6, <1>7, <1>8 DEF Next

----------------------------------------------------------------------------
(* One press, one effect.  A dialog that is not busy has no request of its *)
(* own under way, so there is at most one per opening; and one that has    *)
(* been served as often as it may be stays busy until the answer closes it.*)

Slots == {"id", "card", "q", "meant", "st"}

Messages ==
  \A m \in sent : /\ DOMAIN m = Slots /\ m.id \in 1..opened
                  /\ m.st \in {"out", "ok", "refused", "failed"}

Tallied == tally \in [1..MaxOpens -> [sent : Nat, served : Nat, lost : Nat]]

Single == \A m, n \in sent : m.id = n.id => m = n

Idle == \A m \in sent : m.id = opened /\ dialog.form # None => dialog.busy

\* What is served as often as it may be has no request left to serve, and no
\* button to press.
Spent ==
  \A i \in 1..MaxOpens : tally[i].served = 1 + tally[i].lost =>
    /\ i <= opened
    /\ \A m \in sent : m.id = i => m.st = "ok"
    /\ i = opened /\ dialog.form # None => dialog.busy

OnceInv == Messages /\ Tallied /\ Single /\ Idle /\ Spent /\ SentOnce

LEMMA OnceInvInit == Init => OnceInv
<1> SUFFICES ASSUME Init PROVE OnceInv
  OBVIOUS
<1>1. sent = {} /\ tally = [i \in 1..MaxOpens |-> [sent |-> 0, served |-> 0, lost |-> 0]]
  BY DEF Init
<1>2. Tallied
  BY <1>1 DEF Tallied
<1>3. \A i \in 1..MaxOpens : tally[i].served = 0 /\ tally[i].lost = 0
  BY <1>1
<1>4. Spent /\ SentOnce
  BY <1>3 DEF Spent, SentOnce
<1>5. Messages /\ Single /\ Idle
  BY <1>1 DEF Messages, Single, Idle
<1>6. QED
  BY <1>2, <1>4, <1>5 DEF OnceInv

\* The dialog goes, or goes on; nothing is sent and nothing served.
LEMMA OnceInvCalm ==
  ASSUME DialogInv, OnceInv, UNCHANGED <<opened, sent, tally>>,
         \/ dialog'.form = None
         \/ /\ dialog.form # None
            /\ dialog'.form = dialog.form /\ dialog'.busy = dialog.busy
  PROVE  OnceInv'
<1>1. Messages' /\ Tallied' /\ Single' /\ SentOnce'
  BY DEF OnceInv, Messages, Tallied, Single, SentOnce
<1>2. Idle' /\ Spent'
  BY DEF OnceInv, Idle, Spent
<1>3. QED
  BY <1>1, <1>2 DEF OnceInv

LEMMA OnceInvOpen ==
  ASSUME DialogInv, OnceInv, Open
  PROVE  OnceInv'
<1>1. /\ opened \in Nat /\ opened' = opened + 1 /\ opened' \in Nat
      /\ UNCHANGED <<sent, tally>>
  BY BoundAssumption DEF Open, DialogInv
<1>2. \A m \in sent : m.id \in 1..opened' /\ m.id # opened'
  BY <1>1 DEF OnceInv, Messages
<1>3. Messages' /\ Tallied' /\ Single' /\ SentOnce'
  BY <1>1, <1>2 DEF OnceInv, Messages, Tallied, Single, SentOnce
<1>4. Idle'
  BY <1>1, <1>2 DEF Idle
<1>5. \A i \in 1..MaxOpens : i <= opened => i <= opened' /\ i # opened'
  BY <1>1, BoundAssumption
<1>6. Spent'
  BY <1>1, <1>5 DEF OnceInv, Spent
<1>7. QED
  BY <1>3, <1>4, <1>6 DEF OnceInv

LEMMA OnceInvSubmit ==
  ASSUME DialogInv, OnceInv, Submit
  PROVE  OnceInv'
<1>1. PICK n : sent' = sent \cup {n} /\ DOMAIN n = Slots /\ n.id = opened /\ n.st = "out"
  <2>1. PICK q : sent' = sent \cup {[id |-> opened, card |-> dialog.form \in Cards, q |-> q,
                                     meant |-> meant, st |-> "out"]}
    BY DEF Submit
  <2>2. PICK n : n = [id |-> opened, card |-> dialog.form \in Cards, q |-> q,
                      meant |-> meant, st |-> "out"]
    OBVIOUS
  <2>3. DOMAIN n = Slots /\ n.id = opened /\ n.st = "out"
    BY <2>2 DEF Slots
  <2>4. QED
    BY <2>1, <2>2, <2>3
<1>2. /\ dialog.busy = FALSE /\ dialog.form # None
      /\ DOMAIN dialog = Inputs /\ dialog' = [dialog EXCEPT !.busy = TRUE, !.err = FALSE]
      /\ tally' = [tally EXCEPT ![opened].sent = @ + 1] /\ opened' = opened
  BY DEF Submit, DialogInv
<1>3. dialog'.form = dialog.form /\ dialog'.busy = TRUE
  BY <1>2 DEF Inputs
<1>4. opened \in 1..MaxOpens /\ opened \in 1..opened
  BY <1>2, BoundAssumption DEF DialogInv
<1>5. \A m \in sent : m.id # opened
  BY <1>2 DEF OnceInv, Idle
<1>6. /\ Tallied'
      /\ \A i \in 1..MaxOpens : tally'[i].served = tally[i].served /\ tally'[i].lost = tally[i].lost
  BY <1>2, <1>4 DEF OnceInv, Tallied
<1>7. Messages'
  BY <1>1, <1>2, <1>4 DEF OnceInv, Messages
<1>8. Single'
  BY <1>1, <1>5 DEF OnceInv, Single
<1>9. Idle'
  BY <1>1, <1>2, <1>3, <1>5 DEF Idle
<1>10. SentOnce'
  BY <1>6 DEF OnceInv, SentOnce
<1>11. tally[opened].served # 1 + tally[opened].lost
  BY <1>2, <1>4 DEF OnceInv, Spent
<1>12. Spent'
  BY <1>1, <1>2, <1>3, <1>6, <1>11 DEF OnceInv, Spent
<1>13. QED
  BY <1>6, <1>7, <1>8, <1>9, <1>10, <1>12 DEF OnceInv

\* A request gets another state: only its own opening has something to count.
LEMMA OnceInvState ==
  ASSUME DialogInv, OnceInv, UNCHANGED <<dialog, opened>>, NEW m \in sent,
         NEW st \in {"out", "ok", "refused", "failed"},
         sent' = (sent \ {m}) \cup {[m EXCEPT !.st = st]}, Tallied',
         \A i \in 1..MaxOpens : i # m.id => tally'[i] = tally[i],
         tally'[m.id].served <= 1 + tally'[m.id].lost,
         tally'[m.id].served = 1 + tally'[m.id].lost => st = "ok"
  PROVE  OnceInv'
<1>1. PICK n : n = [m EXCEPT !.st = st]
  OBVIOUS
<1>2. DOMAIN n = Slots /\ n.id = m.id /\ n.st = st /\ m.id \in 1..opened
  BY <1>1 DEF OnceInv, Messages, Slots
<1>3. sent' = (sent \ {m}) \cup {n}
  BY <1>1
<1>4. Messages'
  BY <1>2, <1>3 DEF OnceInv, Messages
<1>5. \A x \in sent : x # m => x.id # m.id
  BY DEF OnceInv, Single
<1>6. Single'
  BY <1>2, <1>3, <1>5 DEF OnceInv, Single
<1>7. Idle'
  BY <1>2, <1>3 DEF OnceInv, Idle
<1>8. SentOnce'
  BY DEF OnceInv, SentOnce
<1>9. Spent'
  <2> SUFFICES ASSUME NEW i \in 1..MaxOpens, tally'[i].served = 1 + tally'[i].lost
               PROVE  /\ i <= opened
                      /\ \A x \in sent' : x.id = i => x.st = "ok"
                      /\ i = opened /\ dialog.form # None => dialog.busy
    BY DEF Spent
  <2>1. CASE i = m.id
    <3>1. i <= opened
      BY <1>2, <2>1 DEF DialogInv
    <3>2. \A x \in sent' : x.id = i => x.st = "ok"
      BY <1>2, <1>3, <1>5, <2>1
    <3>3. i = opened /\ dialog.form # None => dialog.busy
      BY <2>1 DEF OnceInv, Idle
    <3>4. QED
      BY <3>1, <3>2, <3>3
  <2>2. CASE i # m.id
    BY <1>2, <1>3, <2>2 DEF OnceInv, Spent
  <2>3. QED
    BY <2>1, <2>2
<1>10. QED
  BY <1>4, <1>6, <1>7, <1>8, <1>9 DEF OnceInv

LEMMA OnceInvServe ==
  ASSUME DialogInv, OnceInv, NEW m \in sent, Serve(m)
  PROVE  OnceInv'
<1>1. PICK st \in {"ok", "refused"} :
        /\ sent' = (sent \ {m}) \cup {[m EXCEPT !.st = st]}
        /\ tally' = [tally EXCEPT ![m.id].served = @ + (IF st = "ok" THEN 1 ELSE 0)]
  BY DEF Serve
<1>2. m.id \in 1..MaxOpens /\ m.st = "out" /\ UNCHANGED <<dialog, opened>>
  <2>1. m.id \in 1..opened
    BY DEF OnceInv, Messages
  <2>2. QED
    BY <2>1, BoundAssumption DEF DialogInv, Serve
<1>3. PICK k \in {0, 1} : /\ tally' = [tally EXCEPT ![m.id].served = @ + k]
                          /\ k = 1 => st = "ok"
  <2>1. CASE st = "ok"
    BY <1>1, <2>1
  <2>2. CASE st = "refused"
    BY <1>1, <2>2
  <2>3. QED
    BY <2>1, <2>2
<1>4. /\ Tallied' /\ \A i \in 1..MaxOpens : i # m.id => tally'[i] = tally[i]
      /\ tally'[m.id].served = tally[m.id].served + k /\ tally'[m.id].lost = tally[m.id].lost
  BY <1>2, <1>3 DEF OnceInv, Tallied
<1>5. tally[m.id].served \in Nat /\ tally[m.id].lost \in Nat
  BY <1>2 DEF OnceInv, Tallied
<1>6. tally[m.id].served # 1 + tally[m.id].lost /\ tally[m.id].served <= 1 + tally[m.id].lost
  BY <1>2 DEF OnceInv, Spent, SentOnce
<1>7. /\ tally'[m.id].served <= 1 + tally'[m.id].lost
      /\ tally'[m.id].served = 1 + tally'[m.id].lost => st = "ok"
  BY <1>3, <1>4, <1>5, <1>6
<1>8. QED
  BY <1>1, <1>2, <1>4, <1>7, OnceInvState

LEMMA OnceInvLose ==
  ASSUME DialogInv, OnceInv, NEW m \in sent, Lose(m)
  PROVE  OnceInv'
<1>1. /\ sent' = (sent \ {m}) \cup {[m EXCEPT !.st = "failed"]}
      /\ tally' = [tally EXCEPT ![m.id].lost = @ + 1] /\ UNCHANGED <<dialog, opened>>
  BY DEF Lose
<1>2. m.id \in 1..MaxOpens
  <2>1. m.id \in 1..opened
    BY DEF OnceInv, Messages
  <2>2. QED
    BY <2>1, BoundAssumption DEF DialogInv
<1>3. /\ Tallied' /\ \A i \in 1..MaxOpens : i # m.id => tally'[i] = tally[i]
      /\ tally'[m.id].served = tally[m.id].served /\ tally'[m.id].lost = tally[m.id].lost + 1
  BY <1>1, <1>2 DEF OnceInv, Tallied
<1>4. tally[m.id].served \in Nat /\ tally[m.id].lost \in Nat
  BY <1>2 DEF OnceInv, Tallied
<1>5. tally[m.id].served <= 1 + tally[m.id].lost
  BY <1>2 DEF OnceInv, SentOnce
<1>6. tally'[m.id].served <= 1 + tally'[m.id].lost /\ tally'[m.id].served # 1 + tally'[m.id].lost
  BY <1>3, <1>4, <1>5
<1>7. QED
  BY <1>1, <1>3, <1>6, OnceInvState

LEMMA OnceInvAnswer ==
  ASSUME DialogInv, OnceInv, NEW m \in sent, Answer(m)
  PROVE  OnceInv'
<1>1. /\ m.st # "out" /\ sent' \subseteq sent \ {m} /\ UNCHANGED <<opened, tally>>
  BY DEF Answer
<1>2. Messages' /\ Tallied' /\ Single' /\ SentOnce'
  BY <1>1 DEF OnceInv, Messages, Tallied, Single, SentOnce
<1>3. \A x \in sent' : x \in sent /\ x.id # m.id
  BY <1>1 DEF OnceInv, Single
<1>4. CASE dialog' = Closed
  <2>1. dialog'.form = None
    BY <1>4, ClosedIs
  <2>2. Idle' /\ Spent'
    BY <1>1, <1>3, <2>1 DEF OnceInv, Idle, Spent
  <2>3. QED
    BY <1>2, <2>2 DEF OnceInv
<1>5. CASE /\ m.st # "ok" /\ dialog # Closed /\ m.id = opened
           /\ dialog' = [dialog EXCEPT !.busy = FALSE, !.err = TRUE]
  <2>1. \A i \in 1..MaxOpens : i = opened => tally[i].served # 1 + tally[i].lost
    BY <1>5 DEF OnceInv, Spent
  <2>2. Idle'
    BY <1>1, <1>3, <1>5 DEF Idle
  <2>3. Spent'
    BY <1>1, <1>3, <2>1 DEF OnceInv, Spent
  <2>4. QED
    BY <1>2, <2>2, <2>3 DEF OnceInv
<1>6. CASE dialog' = dialog
  BY <1>1, <1>2, <1>3, <1>6 DEF OnceInv, Idle, Spent
<1>7. QED
  BY <1>4, <1>5, <1>6 DEF Answer

LEMMA OnceInvNext == DialogInv /\ OnceInv /\ [Next]_vars => OnceInv'
<1> SUFFICES ASSUME DialogInv, OnceInv, [Next]_vars PROVE OnceInv'
  OBVIOUS
<1>1. ASSUME Arrive \/ Choose \/ ChooseKind \/ EditFields PROVE OnceInv'
  BY <1>1, EditingKeeps, OnceInvCalm
<1>2. CASE closeModal
  BY <1>2, ClosedIs, OnceInvCalm DEF closeModal
<1>3. CASE UNCHANGED vars
  BY <1>3 DEF vars, OnceInv, Messages, Tallied, Single, Idle, Spent, SentOnce
<1>4. QED
  BY <1>1, <1>2, <1>3, OnceInvOpen, OnceInvSubmit, OnceInvServe, OnceInvLose, OnceInvAnswer
     DEF Next

\* A press of the button has at most one effect: however slow the network is,
\* however often it loses a request or its answer and the user tries again,
\* and whatever dialogs are closed and opened meanwhile, a dialog is served at
\* most once more than it failed (the busy flag of components/Modals.tsx).
THEOREM ServedOnce == Spec => []SentOnce
<1>1. Init => DialogInv /\ OnceInv
  BY DialogInvInit, OnceInvInit
<1>2. DialogInv /\ OnceInv /\ [Next]_vars => (DialogInv /\ OnceInv)'
  BY DialogInvNext, OnceInvNext
<1>3. OnceInv => SentOnce
  BY DEF OnceInv
<1>4. QED
  BY <1>1, <1>2, <1>3, PTL DEF Spec

\* Dialogs, their lists and their requests keep their types.
THEOREM TypeCorrect == Spec => []TypeOK
<1>1. Init => DialogInv /\ OnceInv
  BY DialogInvInit, OnceInvInit
<1>2. DialogInv /\ OnceInv /\ [Next]_vars => (DialogInv /\ OnceInv)'
  BY DialogInvNext, OnceInvNext
<1>3. DialogInv /\ OnceInv => TypeOK
  BY DEF DialogInv, OnceInv, Messages, TypeOK
<1>4. QED
  BY <1>1, <1>2, <1>3, PTL DEF Spec

----------------------------------------------------------------------------
(* What the dialogs send.  A request is sorted by what the server asks of  *)
(* it: a name that was typed, a password, an admin, or nothing.            *)

RequestFields == {"call", "on", "old", "new", "disks", "opt", "pass", "confirm", "text",
                  "keep", "typed"}

\* No schedule and no retention.
Bare(q) == q.text = NoText /\ q.keep = None /\ q.typed \in {"fit", "unfit"}

LEMMA RequestIs ==
  ASSUME NEW c, NEW o
  PROVE  LET r == Request(c, o)
         IN /\ DOMAIN r = RequestFields /\ r.call = c /\ r.on = o
            /\ r.pass = "good" /\ r.confirm = None /\ r.new = None
            /\ Bare(r) /\ r.keep = None /\ r.text = NoText /\ r.typed = "fit"
BY DEF Request, RequestFields, Bare

LEMMA SwapIs ==
  ASSUME NEW c, NEW o, NEW old, NEW new
  PROVE  LET r == Swap(c, o, old, new)
         IN /\ DOMAIN r = RequestFields /\ r.call = c /\ r.on = o
            /\ r.old = old /\ r.new = new
            /\ Bare(r) /\ r.keep = None /\ r.text = NoText /\ r.typed = "fit"
<1>1. PICK r : r = Request(c, o)
  OBVIOUS
<1>2. /\ DOMAIN r = RequestFields /\ r.call = c /\ r.on = o
      /\ r.keep = None /\ r.text = NoText /\ r.typed = "fit"
  BY <1>1, RequestIs
<1>3. Swap(c, o, old, new) = [r EXCEPT !.old = old, !.new = new]
  BY <1>1 DEF Swap
<1>4. QED
  BY <1>2, <1>3 DEF RequestFields, Bare

LEMMA LayoutIs ==
  ASSUME NEW c, NEW o, NEW x
  PROVE  LET r == Layout(c, o, x)
         IN /\ DOMAIN r = RequestFields /\ r.call = c /\ r.on = o /\ r.disks = x[2]
            /\ Bare(r) /\ r.keep = None /\ r.text = NoText /\ r.typed = "fit"
<1>1. PICK r : r = Request(c, o)
  OBVIOUS
<1>2. /\ DOMAIN r = RequestFields /\ r.call = c /\ r.on = o
      /\ r.keep = None /\ r.text = NoText /\ r.typed = "fit"
  BY <1>1, RequestIs
<1>3. Layout(c, o, x) = [r EXCEPT !.opt = x[1], !.disks = x[2]]
  BY <1>1 DEF Layout
<1>4. QED
  BY <1>2, <1>3 DEF RequestFields, Bare

\* A text that is written freely changes nothing else of a request.
LEMMA AnyTextIs ==
  ASSUME NEW S, NEW q \in AnyText(S), \A r \in S : DOMAIN r = RequestFields
  PROVE  \E r \in S : /\ q.call = r.call /\ q.on = r.on /\ q.disks = r.disks
                      /\ q.pass = r.pass /\ q.confirm = r.confirm /\ q.text = r.text
                      /\ q.keep = r.keep /\ q.typed \in {"fit", "unfit"}
<1>1. PICK r \in S, t \in {"fit", "unfit"} : q = [r EXCEPT !.typed = t]
  BY DEF AnyText
<1>2. DOMAIN r = RequestFields
  BY <1>1
<1>3. QED
  BY <1>1, <1>2 DEF RequestFields

LEMMA InputsAllow ==
  /\ \A p \in Twice \cup LongEnough \cup {"good"} : Length[p] >= 8
  /\ \A x : \A t \in Confirmed(x) : t = x
  /\ \A x : \A a \in BOOLEAN : \A t \in AdminConfirms(x, a) : t = x /\ a
<1>1. \A p \in Twice : Length[p] >= 8
  BY DEF Twice
<1>2. \A p \in LongEnough \cup {"good"} : Length[p] >= 8
  BY DEF LongEnough, Length
<1>3. \A x : \A t \in Confirmed(x) : t = x
  BY DEF Confirmed
<1>4. \A x : \A a \in BOOLEAN : \A t \in AdminConfirms(x, a) : t = x /\ a
  BY DEF AdminConfirms, Confirmed
<1>5. QED
  BY <1>1, <1>2, <1>3, <1>4

\* A layout has a disk.
LEMMA PicksSome ==
  ASSUME NEW disks, NEW x \in Picks(disks)
  PROVE  x[2] # {}
<1>1. x[1] \in DOMAIN TOPO_MIN /\ Cardinality(x[2]) >= TOPO_MIN[x[1]]
  BY DEF Picks
<1>2. TOPO_MIN[x[1]] \in Nat /\ TOPO_MIN[x[1]] >= 1
  BY <1>1 DEF TOPO_MIN
<1>3. CASE x[2] = {}
  BY <1>1, <1>2, <1>3, FS_EmptySet
<1>4. QED
  BY <1>3

NamedCalls == {"createPool", "exportPool", "addVdev", "replaceDisk", "detach",
               "checkpointPool", "expandPool", "deleteDataset", "rewriteDataset",
               "deleteUser", "deleteSnapshot"}

PlainCalls == {"createSnapshot", "updateDataset", "unlockDataset", "lockDataset", "createJob",
               "updateJob", "createReplicationJob", "updateReplicationJob",
               "setSystemTimerSchedule", "migrateSystemTimer", "runBackup", "importBackup",
               "mountClone", "unmountClone"}

\* Its user may send it, with the name and the password that it needs; or it is
\* one that is always refused.
Authorised(q, a) ==
  \/ RequireAdmin(q, a) /\ requireConfirm(q) /\ LongPassword(q)
  \/ q.call \in {"rollback", "deleteJob"}
  \/ ~a /\ q.call \in {"createSnapshot", "createDataset", "createJob", "updateJob"}

LEMMA ServerTakes ==
  ASSUME NEW q, NEW a \in BOOLEAN
  PROVE  /\ a /\ q.call \in NamedCalls /\ q.confirm = q.on => Authorised(q, a)
         /\ a /\ q.call = "deleteReplicationJob" /\ q.confirm = SourceDs[q.on] =>
              Authorised(q, a)
         /\ a /\ q.call \in SetsPassword /\ Length[q.pass] >= 8 => Authorised(q, a)
         /\ q.call = "setMyPassword" /\ Length[q.pass] >= 8 => Authorised(q, a)
         /\ q.call = "updateMyProfile" => Authorised(q, a)
         /\ a /\ q.call \in PlainCalls => Authorised(q, a)
         /\ q.call \in {"rollback", "deleteJob"} => Authorised(q, a)
         /\ ~a /\ q.call \in {"createSnapshot", "createDataset", "createJob", "updateJob"} =>
              Authorised(q, a)
<1>1. q.call \in NamedCalls => Demanded(q) = q.on /\ q.call \notin SetsPassword
  BY DEF Demanded, NamedCalls, SetsPassword
<1>2. q.call = "deleteReplicationJob" =>
        Demanded(q) = SourceDs[q.on] /\ q.call \notin SetsPassword
  BY DEF Demanded, SetsPassword
<1>3. q.call \in SetsPassword \cup {"updateMyProfile"} \cup PlainCalls => Demanded(q) = None
  BY DEF Demanded, SetsPassword, PlainCalls
<1>4. q.call \in {"updateMyProfile"} \cup PlainCalls => q.call \notin SetsPassword
  BY DEF SetsPassword, PlainCalls
<1>5. a \/ q.call \in {"setMyPassword", "updateMyProfile"} => RequireAdmin(q, a)
  BY DEF RequireAdmin, OwnAccount
<1>6. "setMyPassword" \in SetsPassword
  BY DEF SetsPassword
<1>7. QED
  BY <1>1, <1>2, <1>3, <1>4, <1>5, <1>6 DEF Authorised, LongPassword, requireConfirm

\* What request q has of dialog d.  A text it has is that of the editor, and
\* about what the dialog is about, or about its target.
Carries(q, d) ==
  /\ d.form \in {"newsnap", "newds", "newrepl"} => q.on = d.main
  /\ d.form \in {"expand", "replace"} => q.new = d.main
  /\ d.form = "newtask" => q.call = "createJob"
  /\ \/ q.text = NoText
     \/ d.form \in {"newtask", "newrepl"} /\ q.on = d.main
     \/ d.form \in Editors /\ q.on = d.of /\ q.text = Built(d.sched, ScheduleOf[d.of])

\* What of it the server checks by its call.
Fits(q, d) ==
  /\ q.typed \in {"fit", "unfit"} /\ q.keep \in {None, "d"} \cup Keeps
  /\ q.text # NoText => /\ InRange(d.sched)
                        /\ \/ /\ d.form \in {"newtask", "newrepl"}
                              /\ q.text = buildSchedule(d.sched)
                           \/ /\ d.form \in Editors
                              /\ q.text = Built(d.sched, ScheduleOf[d.of])
  /\ q.call \in {"createPool", "addVdev"} => q.disks # {}
  /\ q.call = "replaceDisk" => /\ d.form = "replace" /\ q.old = d.old /\ q.new = d.main
                               /\ q.old # None /\ q.new \notin {None, q.old}
  /\ q.call = "expandPool" => /\ d.form = "expand" /\ q.on = d.of /\ q.new = d.main
                              /\ q.new # None
  /\ q.call \in {"unlockDataset", "lockDataset", "changeDatasetKey"} =>
       d.form \in {"unlockds", "lockds", "changekey"} /\ q.on = d.of

\* The calls that the server checks in a way of their own.
CheckedCalls == {"createPool", "addVdev", "replaceDisk", "expandPool", "unlockDataset",
                 "lockDataset", "changeDatasetKey"}

LEMMA BareFits ==
  ASSUME NEW q, NEW d, Bare(q), q.call \notin CheckedCalls
  PROVE  Fits(q, d)
BY DEF Bare, CheckedCalls, Fits

LEMMA ModalHostSends ==
  ASSUME NEW a \in BOOLEAN, NEW d, d.form \in FormNames, a \/ d.form \in UserForms,
         NEW q \in ModalHost(d, a)
  PROVE  Carries(q, d) /\ Authorised(q, a) /\ Fits(q, d)
<1>1. CASE d.form \in {"delds", "rewrite", "export"}
  <2>1. /\ q.call \in {"deleteDataset", "rewriteDataset", "exportPool"}
        /\ q.on = d.of /\ q.confirm \in AdminConfirms(d.of, a) /\ Bare(q)
    BY <1>1, RequestIs DEF ModalHost, RequestFields, DeleteDatasetModal,
          RewriteModal, ExportPoolModal, Bare
  <2>2. q.confirm = q.on /\ q.call \in NamedCalls \ CheckedCalls /\ a
    BY <1>1, <2>1, InputsAllow DEF NamedCalls, UserForms, CheckedCalls
  <2>3. QED
    BY <1>1, <2>1, <2>2, ServerTakes, BareFits DEF Carries, Editors, Bare
<1>2. CASE d.form = "detach"
  <2>1. /\ q.call = "detach" /\ q.on = d.of /\ q.confirm \in AdminConfirms(d.of, a)
        /\ Bare(q)
    BY <1>2, SwapIs DEF ModalHost, RequestFields, DetachModal, Bare
  <2>2. q.confirm = q.on /\ q.call \in NamedCalls \ CheckedCalls /\ a
    BY <1>2, <2>1, InputsAllow DEF NamedCalls, UserForms, CheckedCalls
  <2>3. QED
    BY <1>2, <2>1, <2>2, ServerTakes, BareFits DEF Carries, Editors, Bare
<1>3. CASE d.form \in {"checkpoint", "deluser"}
  <2>1. /\ q.call \in {"checkpointPool", "deleteUser"}
        /\ q.on = d.of /\ q.confirm \in Confirmed(d.of) /\ Bare(q)
    BY <1>3, RequestIs DEF ModalHost, RequestFields, CheckpointModal, DeleteUserModal, Bare
  <2>2. q.confirm = q.on /\ q.call \in NamedCalls \ CheckedCalls /\ a
    BY <1>3, <2>1, InputsAllow DEF NamedCalls, UserForms, CheckedCalls
  <2>3. QED
    BY <1>3, <2>1, <2>2, ServerTakes, BareFits DEF Carries, Editors, Bare
<1>4. CASE d.form = "delsnap"
  <2>1. /\ q.call = "deleteSnapshot" /\ q.on = d.of /\ Bare(q)
        /\ q.confirm = q.on /\ a
    BY <1>4, RequestIs DEF ModalHost, RequestFields, DeleteSnapModal, AdminConfirms,
         Confirmed, Bare
  <2>2. q.call \in NamedCalls \ CheckedCalls
    BY <2>1 DEF NamedCalls, CheckedCalls
  <2>3. QED
    BY <1>4, <2>1, <2>2, ServerTakes, BareFits DEF Carries, Editors, Bare
<1>5. CASE d.form = "newpool"
  <2> DEFINE S == {[Layout("createPool", NewName, x) EXCEPT !.confirm = t]
                    : x \in Picks(Listed(d, "disks", Homeless)), t \in Confirmed(NewName)}
  <2>1. q \in AnyText(S)
    BY <1>5 DEF ModalHost, NewPoolModal
  <2>2. \A r \in S : /\ DOMAIN r = RequestFields /\ r.call = "createPool" /\ r.on = NewName
                     /\ r.confirm \in Confirmed(NewName) /\ Bare(r) /\ r.disks # {}
    BY LayoutIs, PicksSome DEF RequestFields, Bare
  <2> HIDE DEF S
  <2>3. /\ q.call = "createPool" /\ q.on = NewName /\ q.disks # {}
        /\ q.confirm \in Confirmed(NewName) /\ Bare(q)
    BY <2>1, <2>2, AnyTextIs DEF Bare
  <2>4. q.confirm = q.on /\ q.call \in NamedCalls /\ a
    BY <1>5, <2>3, InputsAllow DEF NamedCalls, UserForms
  <2>5. QED
    BY <1>5, <2>3, <2>4, ServerTakes DEF Carries, Editors, Bare, Fits
<1>6. CASE d.form = "addvdev"
  <2>1. PICK x \in Picks(Listed(d, "disks", Free)), t \in AdminConfirms(d.of, a) :
          q = [Layout("addVdev", d.of, x) EXCEPT !.confirm = t]
    BY <1>6 DEF ModalHost, AddVdevModal
  <2>2. /\ q.call = "addVdev" /\ q.on = d.of /\ q.confirm \in AdminConfirms(d.of, a)
        /\ Bare(q) /\ q.disks # {}
    BY <2>1, LayoutIs, PicksSome DEF RequestFields, Bare
  <2>3. q.confirm = q.on /\ q.call \in NamedCalls /\ a
    BY <1>6, <2>2, InputsAllow DEF NamedCalls, UserForms
  <2>4. QED
    BY <1>6, <2>2, <2>3, ServerTakes DEF Carries, Editors, Bare, Fits
<1>7. CASE d.form = "expand"
  <2>1. PICK m \in {d.main} \ {None}, t \in AdminConfirms(d.of, a) :
          q = [Swap("expandPool", d.of, None, m) EXCEPT !.confirm = t]
    BY <1>7 DEF ModalHost, ExpandModal
  <2>2. /\ q.call = "expandPool" /\ q.on = d.of /\ q.confirm \in AdminConfirms(d.of, a)
        /\ q.new = d.main /\ q.new # None /\ Bare(q)
    BY <2>1, SwapIs DEF RequestFields, Bare
  <2>3. q.confirm = q.on /\ q.call \in NamedCalls /\ a
    BY <1>7, <2>2, InputsAllow DEF NamedCalls, UserForms
  <2>4. QED
    BY <1>7, <2>2, <2>3, ServerTakes DEF Carries, Editors, Bare, Fits
<1>8. CASE d.form = "replace"
  <2>1. PICK m \in IF d.old = None THEN {} ELSE {d.main} \ {None, d.old},
               t \in AdminConfirms(d.of, a) :
          q = [Swap("replaceDisk", d.of, d.old, m) EXCEPT !.confirm = t]
    BY <1>8 DEF ModalHost, ReplaceModal
  <2>2. /\ q.call = "replaceDisk" /\ q.on = d.of /\ q.confirm \in AdminConfirms(d.of, a)
        /\ q.new = d.main /\ q.old = d.old /\ Bare(q)
    BY <2>1, SwapIs DEF RequestFields, Bare
  <2>3. q.old # None /\ q.new \notin {None, q.old}
    BY <2>1, <2>2
  <2>4. q.confirm = q.on /\ q.call \in NamedCalls /\ a
    BY <1>8, <2>2, InputsAllow DEF NamedCalls, UserForms
  <2>5. QED
    BY <1>8, <2>2, <2>3, <2>4, ServerTakes DEF Carries, Editors, Bare, Fits
<1>9. CASE d.form = "newds"
  <2> DEFINE S == {[Request("createDataset", m) EXCEPT !.pass = p]
                    : m \in {d.main} \ {None}, p \in {"good"} \cup Twice}
  <2>1. q \in AnyText(S)
    BY <1>9 DEF ModalHost, NewDatasetModal
  <2>2. \A r \in S : /\ DOMAIN r = RequestFields /\ r.call = "createDataset" /\ r.on = d.main
                     /\ r.pass \in {"good"} \cup Twice /\ Bare(r)
    BY RequestIs DEF RequestFields, Bare
  <2> HIDE DEF S
  <2>3. /\ q.call = "createDataset" /\ q.on = d.main
        /\ q.pass \in {"good"} \cup Twice /\ Bare(q)
    BY <2>1, <2>2, AnyTextIs DEF Bare
  <2>4. q.call \in SetsPassword \ CheckedCalls
    BY <2>3 DEF SetsPassword, CheckedCalls
  <2>5. QED
    BY <1>9, <2>3, <2>4, InputsAllow, ServerTakes, BareFits DEF Carries, Editors, Bare
<1>10. CASE d.form = "newsnap"
  <2> DEFINE S == {[Request("createSnapshot", m) EXCEPT
                     !.opt = IF m \in Listed(d, "pools", Pools) THEN "recursive" ELSE ""]
                    : m \in {d.main} \ {None}}
  <2>1. q \in AnyText(S)
    BY <1>10 DEF ModalHost, SnapshotModal
  <2>2. \A r \in S : /\ DOMAIN r = RequestFields /\ r.call = "createSnapshot" /\ r.on = d.main
                     /\ Bare(r)
    <3>1. \A m, x : LET r == [Request("createSnapshot", m) EXCEPT !.opt = x]
                    IN /\ DOMAIN r = RequestFields /\ r.call = "createSnapshot" /\ r.on = m
                       /\ Bare(r)
      BY RequestIs DEF RequestFields, Bare
    <3>2. SUFFICES ASSUME NEW r \in S
                   PROVE  /\ DOMAIN r = RequestFields /\ r.call = "createSnapshot"
                          /\ r.on = d.main /\ Bare(r)
      OBVIOUS
    <3>3. PICK m \in {d.main} \ {None} :
            r = [Request("createSnapshot", m) EXCEPT
                   !.opt = IF m \in Listed(d, "pools", Pools) THEN "recursive" ELSE ""]
      OBVIOUS
    <3>4. PICK x : r = [Request("createSnapshot", m) EXCEPT !.opt = x]
      BY <3>3
    <3>5. m = d.main
      OBVIOUS
    <3>6. QED
      BY <3>1, <3>4, <3>5
  <2> HIDE DEF S
  <2>3. q.call = "createSnapshot" /\ q.on = d.main /\ Bare(q)
    BY <2>1, <2>2, AnyTextIs DEF Bare
  <2>4. q.call \in PlainCalls \ CheckedCalls
    BY <2>3 DEF PlainCalls, CheckedCalls
  <2>5. QED
    BY <1>10, <2>3, <2>4, ServerTakes, BareFits DEF Carries, Editors, Bare
<1>11. CASE d.form = "newtask"
  <2> DEFINE F(m, k) == [Request("createJob", m) EXCEPT
                           !.opt = d.kind, !.text = buildSchedule(d.sched), !.keep = k]
             S == IF InRange(d.sched) THEN {d.main} \ {None} ELSE {}
             T == IF d.kind = "snapshot" THEN Keeps ELSE {None}
  <2>1. PICK m \in S, k \in T : q = F(m, k)
    <3>1. q \in NewTaskModal(d)
      BY <1>11 DEF ModalHost
    <3>2. NewTaskModal(d) = {F(m, k) : m \in S, k \in T}
      BY DEF NewTaskModal
    <3> HIDE DEF F, S, T
    <3>3. QED
      BY <3>1, <3>2
  <2>2. /\ q.call = "createJob" /\ q.on = d.main /\ InRange(d.sched) /\ q.typed = "fit"
        /\ q.text = buildSchedule(d.sched) /\ q.keep \in Keeps \cup {None}
    <3>1. m = d.main /\ InRange(d.sched) /\ k \in Keeps \cup {None}
      BY <2>1
    <3>2. QED
      BY <2>1, <3>1, RequestIs DEF RequestFields
  <2>3. QED
    BY <1>11, <2>2, ServerTakes DEF Carries, Fits, PlainCalls
<1>12. CASE d.form = "newrepl"
  <2> DEFINE S == {[Request("createReplicationJob", m) EXCEPT !.text = buildSchedule(d.sched)]
                    : m \in IF InRange(d.sched) THEN {d.main} \ {None} ELSE {}}
  <2>1. q \in AnyText(S)
    BY <1>12 DEF ModalHost, NewReplModal
  <2>2. \A r \in S : /\ DOMAIN r = RequestFields /\ r.call = "createReplicationJob"
                     /\ r.on = d.main /\ InRange(d.sched)
                     /\ r.text = buildSchedule(d.sched) /\ r.keep = None
    BY RequestIs DEF RequestFields
  <2> HIDE DEF S
  <2>3. /\ q.call = "createReplicationJob" /\ q.on = d.main /\ InRange(d.sched)
        /\ q.text = buildSchedule(d.sched) /\ q.keep = None /\ q.typed \in {"fit", "unfit"}
    BY <2>1, <2>2, AnyTextIs
  <2>4. a
    BY <1>12 DEF UserForms
  <2>5. QED
    BY <1>12, <2>3, <2>4, ServerTakes DEF Carries, Fits, PlainCalls
<1>13. CASE d.form = "changekey"
  <2>1. /\ q.call = "changeDatasetKey" /\ q.on = d.of /\ a
        /\ q.pass \in Twice /\ Bare(q)
    BY <1>13, RequestIs DEF ModalHost, RequestFields, ChangeKeyModal, Bare
  <2>2. QED
    BY <1>13, <2>1, InputsAllow, ServerTakes DEF Carries, Editors, SetsPassword, Bare, Fits
<1>14. CASE d.form = "passwd"
  <2>1. q.call = "setUserPassword" /\ q.pass \in Twice /\ Bare(q)
    BY <1>14, RequestIs DEF ModalHost, RequestFields, PasswdModal, Bare
  <2>2. q.call \in SetsPassword \ CheckedCalls /\ a
    BY <1>14, <2>1 DEF SetsPassword, CheckedCalls, UserForms
  <2>3. QED
    BY <1>14, <2>1, <2>2, InputsAllow, ServerTakes, BareFits DEF Carries, Editors, Bare
<1>15. CASE d.form = "newuser"
  <2> DEFINE S == {[Request("createUser", NewName) EXCEPT !.pass = p] : p \in LongEnough}
  <2>1. q \in AnyText(S)
    BY <1>15 DEF ModalHost, NewUserModal
  <2>2. \A r \in S : /\ DOMAIN r = RequestFields /\ r.call = "createUser"
                     /\ r.pass \in LongEnough /\ Bare(r)
    BY RequestIs DEF RequestFields, Bare
  <2> HIDE DEF S
  <2>3. q.call = "createUser" /\ q.pass \in LongEnough /\ Bare(q)
    BY <2>1, <2>2, AnyTextIs DEF Bare
  <2>4. q.call \in SetsPassword \ CheckedCalls /\ a
    BY <1>15, <2>3 DEF SetsPassword, CheckedCalls, UserForms
  <2>5. QED
    BY <1>15, <2>3, <2>4, InputsAllow, ServerTakes, BareFits DEF Carries, Editors, Bare
<1>16. CASE d.form = "password"
  <2> DEFINE S == {[Request("setMyPassword", None) EXCEPT !.pass = p] : p \in Twice}
  <2>1. q \in AnyText(S)
    BY <1>16 DEF ModalHost, PasswordForm
  <2>2. \A r \in S : /\ DOMAIN r = RequestFields /\ r.call = "setMyPassword"
                     /\ r.pass \in Twice /\ Bare(r)
    BY RequestIs DEF RequestFields, Bare
  <2> HIDE DEF S
  <2>3. q.call = "setMyPassword" /\ q.pass \in Twice /\ Bare(q)
    BY <2>1, <2>2, AnyTextIs DEF Bare
  <2>4. q.call \notin CheckedCalls
    BY <2>3 DEF CheckedCalls
  <2>5. QED
    BY <1>16, <2>3, <2>4, InputsAllow, ServerTakes, BareFits DEF Carries, Editors, Bare
<1>17. CASE d.form = "profile"
  <2>1. q \in AnyText({Request("updateMyProfile", None)})
    BY <1>17 DEF ModalHost, ProfileCard
  <2>2. q.call = "updateMyProfile" /\ Bare(q)
    BY <2>1, AnyTextIs, RequestIs DEF Bare
  <2>3. q.call \notin CheckedCalls
    BY <2>2 DEF CheckedCalls
  <2>4. QED
    BY <1>17, <2>2, <2>3, ServerTakes, BareFits DEF Carries, Editors, Bare
<1>18. CASE d.form \in {"sysmigrate", "import"}
  <2>1. /\ q \in AnyText({Request("migrateSystemTimer", d.of)})
           \/ q \in AnyText({Request("importBackup", None)})
        /\ a
    BY <1>18 DEF ModalHost, SysMigrateModal, BackupCard, UserForms
  <2>2. q.call \in {"migrateSystemTimer", "importBackup"} /\ Bare(q)
    BY <2>1, AnyTextIs, RequestIs DEF Bare
  <2>3. q.call \in PlainCalls \ CheckedCalls
    BY <2>2 DEF PlainCalls, CheckedCalls
  <2>4. QED
    BY <1>18, <2>1, <2>2, <2>3, ServerTakes, BareFits DEF Carries, Editors, Bare
<1>19. CASE d.form \in {"editds", "runbackup", "mount", "unmount", "protect"}
  <2>1. /\ q.call \in {"updateDataset", "runBackup", "mountClone", "unmountClone",
                       "createSnapshot"}
        /\ Bare(q)
    BY <1>19, RequestIs DEF ModalHost, RequestFields, EditDatasetModal, BackupCard,
          MountSMBButton, protect, Bare
  <2>2. q.call \in PlainCalls \ CheckedCalls /\ a
    BY <1>19, <2>1 DEF PlainCalls, CheckedCalls, UserForms
  <2>3. QED
    BY <1>19, <2>1, <2>2, ServerTakes, BareFits DEF Carries, Editors, Bare
<1>20. CASE d.form \in {"unlockds", "lockds"}
  <2>1. /\ q.call \in {"unlockDataset", "lockDataset"} /\ q.on = d.of /\ Bare(q) /\ a
    BY <1>20, RequestIs DEF ModalHost, RequestFields, UnlockDatasetModal, LockDatasetModal, Bare
  <2>2. QED
    BY <1>20, <2>1, ServerTakes DEF Carries, Editors, PlainCalls, Bare, Fits
<1>21. CASE d.form = "rollback"
  <2>1. q.call = "rollback" /\ Bare(q)
    BY <1>21, RequestIs DEF ModalHost, RequestFields, RollbackModal, Bare
  <2>2. q.call \notin CheckedCalls
    BY <2>1 DEF CheckedCalls
  <2>3. QED
    BY <1>21, <2>1, <2>2, ServerTakes, BareFits DEF Carries, Editors, Bare
<1>22. CASE d.form = "sched"
  <2>1. \/ /\ q.call = "updateJob" /\ q.on = d.of /\ q.text = Built(d.sched, ScheduleOf[d.of])
           /\ InRange(d.sched) /\ q.keep \in {None, "d"} \cup Keeps /\ q.typed = "fit"
        \/ q.call = "deleteJob" /\ Bare(q)
    <3>1. CASE \E k \in IF ~InRange(d.sched) THEN {}
                        ELSE IF d.of \in SnapshotJobs THEN {"d"} \cup Keeps ELSE {None} :
                 q = [Request("updateJob", d.of) EXCEPT
                        !.text = Built(d.sched, ScheduleOf[d.of]), !.keep = k]
      <4>1. PICK k : /\ InRange(d.sched) /\ k \in {None, "d"} \cup Keeps
                     /\ q = [Request("updateJob", d.of) EXCEPT
                               !.text = Built(d.sched, ScheduleOf[d.of]), !.keep = k]
        BY <3>1
      <4>2. QED
        BY <4>1, RequestIs DEF RequestFields
    <3>2. CASE a /\ q = [Request("deleteJob", d.of) EXCEPT !.confirm = d.of]
      BY <3>2, RequestIs DEF RequestFields, Bare
    <3>3. QED
      BY <1>22, <3>1, <3>2 DEF ModalHost, EditScheduleModal
  <2>2. CASE q.call = "deleteJob" /\ Bare(q)
    BY <1>22, <2>2, ServerTakes, BareFits DEF Carries, Bare, CheckedCalls
  <2>3. CASE q.call = "updateJob"
    BY <1>22, <2>1, <2>3, ServerTakes DEF Carries, Editors, Fits, PlainCalls
  <2>4. QED
    BY <2>1, <2>2, <2>3
<1>23. CASE d.form \in {"editrepl", "syssched"}
  <2>1. a
    BY <1>23 DEF UserForms
  <2> DEFINE S == {[Request("updateReplicationJob", d.of) EXCEPT
                     !.text = Built(d.sched, ScheduleOf[d.of])]}
             T == {[Request("setSystemTimerSchedule", d.of) EXCEPT
                     !.text = Built(d.sched, ScheduleOf[d.of])]}
  <2>2. \/ q \in AnyText(S) /\ InRange(d.sched)
        \/ q \in AnyText(T) /\ InRange(d.sched)
        \/ \E t \in AdminConfirms(SourceDs[d.of], a) :
             q = [Request("deleteReplicationJob", d.of) EXCEPT !.confirm = t]
    BY <1>23 DEF ModalHost, EditReplModal, SysSchedModal
  <2>3. \A r \in S \cup T : /\ DOMAIN r = RequestFields /\ r.on = d.of /\ r.keep = None
                            /\ r.text = Built(d.sched, ScheduleOf[d.of])
                            /\ r.call \in {"updateReplicationJob", "setSystemTimerSchedule"}
    BY RequestIs DEF RequestFields
  <2> HIDE DEF S, T
  <2>4. CASE (q \in AnyText(S) \/ q \in AnyText(T)) /\ InRange(d.sched)
    <3>1. /\ q.on = d.of /\ q.keep = None /\ q.text = Built(d.sched, ScheduleOf[d.of])
          /\ q.call \in {"updateReplicationJob", "setSystemTimerSchedule"}
          /\ q.typed \in {"fit", "unfit"}
      BY <2>3, <2>4, AnyTextIs
    <3>2. QED
      BY <1>23, <2>1, <2>4, <3>1, ServerTakes DEF Carries, Editors, Fits, PlainCalls
  <2>5. CASE \E t \in AdminConfirms(SourceDs[d.of], a) :
               q = [Request("deleteReplicationJob", d.of) EXCEPT !.confirm = t]
    <3>1. /\ q.call = "deleteReplicationJob" /\ q.on = d.of /\ Bare(q)
          /\ q.confirm \in AdminConfirms(SourceDs[d.of], a)
      BY <2>5, RequestIs DEF RequestFields, Bare
    <3>2. q.confirm = SourceDs[q.on] /\ q.call \notin CheckedCalls
      BY <3>1, InputsAllow DEF CheckedCalls
    <3>3. QED
      BY <1>23, <2>1, <3>1, <3>2, ServerTakes, BareFits DEF Carries, Editors, Bare
  <2>6. QED
    BY <2>2, <2>4, <2>5
<1>24. CASE d.form \in {"history", "browseFiles"}
  BY <1>24 DEF ModalHost, HistoryModal, BrowseFilesModal
<1>25. QED
  BY <1>1, <1>2, <1>3, <1>4, <1>5, <1>6, <1>7, <1>8, <1>9, <1>10, <1>11, <1>12, <1>13, <1>14,
       <1>15, <1>16, <1>17, <1>18, <1>19, <1>20, <1>21, <1>22, <1>23, <1>24
     DEF FormNames

----------------------------------------------------------------------------
(* Where the dialogs stand that the server checks by their call.           *)

SpecialForms == {"expand", "replace", "unlockds", "lockds", "changekey", "newtask", "newrepl"}

\* A disk that comes is free, and a dialog of a pool or a key is about one that
\* has it; a new schedule is never in the advanced mode.
Placed(d) ==
  /\ d.form = "expand" => d.of \in Raidz
  /\ d.form \in {"unlockds", "lockds", "changekey"} => d.of \in Encrypted
  /\ d.form \in {"expand", "replace"} => d.main \in {None} \cup Free
  /\ d.form = "replace" => d.old \in {None} \cup Disks
  /\ d.form \in {"newtask", "newrepl"} => d.of = None /\ d.sched.freq # "advanced"

LEMMA PlacedPlain ==
  ASSUME NEW d, d.form \notin SpecialForms
  PROVE  Placed(d)
BY DEF Placed, SpecialForms

LEMMA DialogIs ==
  ASSUME NEW f, NEW o
  PROVE  LET e == Dialog(f, o)
         IN /\ DOMAIN e = Inputs /\ e.form = f /\ e.of = o /\ e.main = None /\ e.old = None
            /\ e.sched = SYS_SCHED_DEFAULT
BY DEF Dialog, Inputs

LEMMA FreeDisks == Free \subseteq Disks /\ Free \subseteq Homeless /\ None \notin Free
BY DataAssumption DEF Free, Homeless

LEMMA OpensPlaced ==
  ASSUME NEW a \in BOOLEAN, NEW d \in Opens(a)
  PROVE  Placed(d)
<1>1. CASE d \in SnapshotsOpen(a)
  <2>1. d.form \in {"newsnap", "browseFiles", "rollback", "delsnap"}
    BY <1>1, DialogIs DEF SnapshotsOpen
  <2>2. QED
    BY <2>1, PlacedPlain DEF SpecialForms
<1>2. CASE d \in DatasetsOpen(a)
  <2>1. CASE \E x : d = [Dialog("newsnap", x) EXCEPT !.main = x]
    BY <2>1, DialogIs, PlacedPlain DEF SpecialForms, Inputs
  <2>2. CASE \E f \in {"newds", "editds", "rewrite", "delds"} : \E o : d = Dialog(f, o)
    BY <2>2, DialogIs, PlacedPlain DEF SpecialForms
  <2>3. CASE \E f \in {"unlockds", "lockds", "changekey"}, x \in Encrypted : d = Dialog(f, x)
    BY <2>3, DialogIs DEF Placed
  <2>4. QED
    BY <1>2, <2>1, <2>2, <2>3 DEF DatasetsOpen
<1>3. CASE d \in CardOpen(a)
  <2>1. CASE \E f \in {"history", "checkpoint", "addvdev", "export"} : \E o : d = Dialog(f, o)
    BY <2>1, DialogIs, PlacedPlain DEF SpecialForms
  <2>2. CASE \E p \in Raidz : d = Dialog("expand", p)
    BY <2>2, DialogIs DEF Placed
  <2>3. CASE \E k \in Disks : d = [Dialog("replace", Home[k]) EXCEPT !.old = k]
    <3>1. PICK k \in Disks : d = [Dialog("replace", Home[k]) EXCEPT !.old = k]
      BY <2>3
    <3>2. d.form = "replace" /\ d.old = k /\ d.main = None
      BY <3>1, DialogIs DEF Inputs
    <3>3. QED
      BY <3>2 DEF Placed
  <2>4. CASE \E k \in Disks : d = [Dialog("detach", Home[k]) EXCEPT !.old = k]
    BY <2>4, DialogIs, PlacedPlain DEF SpecialForms, Inputs
  <2>5. \/ d \in {Dialog("history", p) : p \in Pools}
        \/ d \in {Dialog(f, p) : f \in {"checkpoint", "addvdev", "export"}, p \in Pools}
        \/ d \in {Dialog("expand", p) : p \in {x \in Raidz : Free # {}}}
        \/ d \in {[Dialog("replace", Home[k]) EXCEPT !.old = k] :
                     k \in {x \in Disks : Home[x] # None}}
        \/ d \in {[Dialog("detach", Home[k]) EXCEPT !.old = k] :
                     k \in {x \in Disks : Home[x] \in Mirrors}}
    BY <1>3 DEF CardOpen
  <2>6. QED
    BY <2>1, <2>2, <2>3, <2>4, <2>5
<1>4. CASE d \in RebuildOpen(a)
  <2>1. PICK k \in Faulted : /\ Free # {}
                             /\ d = [Dialog("replace", Home[k]) EXCEPT
                                       !.old = k, !.main = First(DiskList, Free),
                                       !.preset = TRUE]
    BY <1>4 DEF RebuildOpen
  <2>2. d.form = "replace" /\ d.old = k /\ d.main = First(DiskList, Free)
    BY <2>1, DialogIs DEF Inputs
  <2>3. First(DiskList, Free) \in Free
    BY <2>1, FreeDisks, FirstOfListed
  <2>4. k \in Disks
    BY DataAssumption
  <2>5. QED
    BY <2>2, <2>3, <2>4 DEF Placed
<1>5. CASE d \in PoolsOpen(a)
  BY <1>5, DialogIs, PlacedPlain DEF PoolsOpen, SpecialForms
<1>6. ASSUME NEW f \in Editors, NEW o, d = Edit(f, o) PROVE Placed(d)
  <2>1. d.form = f
    BY <1>6, DialogIs DEF Edit, Inputs
  <2>2. QED
    BY <2>1, PlacedPlain DEF Editors, SpecialForms
<1>7. CASE d \in JobsOpen(a)
  <2>1. CASE d = Dialog("newtask", None)
    BY <2>1, DialogIs DEF Placed, SYS_SCHED_DEFAULT
  <2>2. QED
    BY <1>6, <1>7, <2>1 DEF JobsOpen, Editors
<1>8. CASE d \in ReplOpen(a)
  <2>1. CASE d = [Dialog("newrepl", None) EXCEPT !.sched.time = <<3, 0>>]
    <3>1. PICK e : e = Dialog("newrepl", None)
      OBVIOUS
    <3>2. d.form = "newrepl" /\ d.of = None /\ d.sched = [e.sched EXCEPT !.time = <<3, 0>>]
      BY <2>1, <3>1, DialogIs DEF Inputs
    <3>3. d.sched.freq = "daily"
      BY <3>1, <3>2, DialogIs DEF SYS_SCHED_DEFAULT
    <3>4. QED
      BY <3>2, <3>3 DEF Placed
  <2>2. QED
    BY <1>6, <1>8, <2>1 DEF ReplOpen, Editors
<1>9. CASE d \in TimersOpen(a)
  <2>1. CASE \E o : d = Dialog("sysmigrate", o)
    BY <2>1, DialogIs, PlacedPlain DEF SpecialForms
  <2>2. QED
    BY <1>6, <1>9, <2>1 DEF TimersOpen, Editors
<1>10. CASE d \in UsersOpen(a)
  <2>1. d.form \in {"newuser", "passwd", "deluser"}
    BY <1>10, DialogIs DEF UsersOpen
  <2>2. QED
    BY <2>1, PlacedPlain DEF SpecialForms
<1>11. CASE d \in CardsOpen(a)
  <2>1. d.form \in {"profile", "password", "runbackup", "import", "protect", "mount", "unmount"}
    BY <1>11, DialogIs DEF CardsOpen
  <2>2. QED
    BY <2>1, PlacedPlain DEF SpecialForms
<1>12. QED
  BY <1>1, <1>2, <1>3, <1>4, <1>5, <1>7, <1>8, <1>9, <1>10, <1>11 DEF Opens

LEMMA SettleReplacePlaced ==
  ASSUME NEW d, DOMAIN d = Inputs, d.form = "replace", Placed(d)
  PROVE  Placed(SettleReplace(d))
<1> DEFINE c == Default(d, DiskList, Suitable(d))
           current == Listed(d, "pools", Vdevs(d.of))
           bad == current \cap Faulted
<1>1. SameButSelects(SettleReplace(d), d)
  BY SettleReplaceKeeps
<1>2. Suitable(d) \subseteq Free
  BY DEF Suitable, Listed
<1>3. c.main \in {None} \cup Free
  <2>1. Suitable(d) # {} => First(DiskList, Suitable(d)) \in Free
    BY <1>2, FreeDisks, FirstOfListed
  <2>2. d.main \in {None} \cup Free
    BY DEF Placed
  <2>3. QED
    BY <2>1, <2>2, DefaultKeeps
<1>4. DOMAIN c = Inputs
  BY DefaultKeeps DEF SameButSelects
<1>5. \A S : S \subseteq current /\ S # {} => First(DiskList, S) \in Disks
  BY FirstOfListed DEF Listed, Vdevs
<1>6. d.old \in {None} \cup Disks
  BY DEF Placed
<1>7. \E x \in {None} \cup Disks : SettleReplace(d) = [c EXCEPT !.old = x]
  <2>1. CASE d.old # None \/ current = {}
    BY <1>6, <2>1 DEF SettleReplace
  <2>2. CASE ~(d.old # None \/ current = {})
    <3> DEFINE S == IF bad # {} THEN bad ELSE current
    <3>1. S \subseteq current /\ S # {}
      BY <2>2
    <3>2. SettleReplace(d) = [c EXCEPT !.old = First(DiskList, S)]
      BY <2>2 DEF SettleReplace
    <3>3. QED
      BY <1>5, <3>1, <3>2
  <2>3. QED
    BY <2>1, <2>2
<1> HIDE DEF c
<1>8. SettleReplace(d).main = c.main /\ SettleReplace(d).old \in {None} \cup Disks
  BY <1>4, <1>7 DEF Inputs
<1>9. QED
  BY <1>1, <1>3, <1>8 DEF Placed, SameButSelects

LEMMA SettlePlaced ==
  ASSUME NEW d, DOMAIN d = Inputs, Placed(d)
  PROVE  Placed(Settle(d))
<1>1. SameButSelects(Settle(d), d)
  BY SettleKeeps
<1>2. CASE d.form = "replace"
  <2>1. PICK c : c = SettleReplace(d)
    OBVIOUS
  <2>2. DOMAIN c = Inputs /\ c.form = "replace"
    BY <1>2, <2>1, SettleReplaceKeeps DEF SameButSelects
  <2>3. Placed(c)
    BY <1>2, <2>1, SettleReplacePlaced
  <2>4. Placed(SettleReplace(c))
    BY <2>2, <2>3, SettleReplacePlaced
  <2>5. QED
    BY <1>2, <2>1, <2>4 DEF Settle
<1>3. CASE d.form = "expand"
  <2> DEFINE S == Listed(d, "disks", Free)
  <2>1. Settle(d) = Default(d, DiskList, S)
    BY <1>3 DEF Settle
  <2>2. S # {} => First(DiskList, S) \in Free
    <3>1. S \subseteq Free
      BY DEF Listed
    <3>2. QED
      BY <3>1, FreeDisks, FirstOfListed
  <2>3. Settle(d).main \in {None} \cup Free
    BY <1>3, <2>1, <2>2, DefaultKeeps DEF Placed
  <2>4. QED
    BY <1>1, <1>3, <2>3 DEF Placed, SameButSelects
<1>4. CASE d.form \notin {"replace", "expand"}
  BY <1>1, <1>4 DEF Placed, SameButSelects
<1>5. QED
  BY <1>2, <1>3, <1>4

LEMMA PlacedNext == DialogInv /\ Placed(dialog) /\ [Next]_vars => Placed(dialog')
<1> SUFFICES ASSUME DialogInv, Placed(dialog), [Next]_vars PROVE Placed(dialog')
  OBVIOUS
<1>0. DOMAIN dialog = Inputs
  BY DEF DialogInv
<1>1. \A x, y : /\ Placed([dialog EXCEPT !.wait = x]) /\ Placed([dialog EXCEPT !.kind = x])
                /\ Placed([dialog EXCEPT !.wait = x, !.got = y])
                /\ Placed([dialog EXCEPT !.busy = x, !.err = y])
  BY <1>0 DEF Placed, Inputs
<1>2. Placed(Closed)
  BY ClosedIs, NameAssumption, PlacedPlain DEF SpecialForms, FormNames
<1>3. CASE Open
  <2>1. PICK d \in Opens(admin) : dialog' = Settle([d EXCEPT !.wait = Loads(d.form)])
    BY <1>3 DEF Open
  <2>2. Placed(d) /\ DOMAIN d = Inputs
    BY OpensPlaced, OpensFresh DEF DialogInv, Fresh
  <2>3. /\ Placed([d EXCEPT !.wait = Loads(d.form)])
        /\ DOMAIN [d EXCEPT !.wait = Loads(d.form)] = Inputs
    BY <2>2 DEF Placed, Inputs
  <2>4. QED
    BY <2>1, <2>3, SettlePlaced
<1>4. CASE Arrive
  <2>1. PICK w \in dialog.wait, ok \in BOOLEAN :
          dialog' = IF ok THEN Settle([dialog EXCEPT !.wait = @ \ {w}, !.got = @ \cup {w}])
                    ELSE [dialog EXCEPT !.wait = @ \ {w}]
    BY <1>4 DEF Arrive
  <2>2. PICK x, y : /\ x = dialog.wait \ {w} /\ y = dialog.got \cup {w}
                    /\ dialog' = IF ok THEN Settle([dialog EXCEPT !.wait = x, !.got = y])
                                ELSE [dialog EXCEPT !.wait = x]
    BY <2>1
  <2>3. /\ Placed([dialog EXCEPT !.wait = x]) /\ Placed([dialog EXCEPT !.wait = x, !.got = y])
        /\ DOMAIN [dialog EXCEPT !.wait = x, !.got = y] = Inputs
    BY <1>0, <1>1
  <2>4. QED
    BY <2>2, <2>3, SettlePlaced
<1>5. CASE Choose
  <2>1. PICK v \in Offered(dialog) : dialog' = [dialog EXCEPT !.main = v]
    BY <1>5 DEF Choose
  <2>2. dialog.form \in {"expand", "replace"} => v \in Free
    BY <2>1 DEF Offered, Listed
  <2>3. /\ dialog'.form = dialog.form /\ dialog'.of = dialog.of /\ dialog'.old = dialog.old
        /\ dialog'.sched = dialog.sched /\ dialog'.main = v
    BY <1>0, <2>1 DEF Inputs
  <2>4. QED
    BY <2>2, <2>3 DEF Placed
<1>6. CASE ChooseKind
  <2>1. PICK k : dialog' = Settle([dialog EXCEPT !.kind = k])
    BY <1>6 DEF ChooseKind
  <2>2. Placed([dialog EXCEPT !.kind = k]) /\ DOMAIN [dialog EXCEPT !.kind = k] = Inputs
    BY <1>0, <1>1
  <2>3. QED
    BY <2>1, <2>2, SettlePlaced
<1>7. CASE EditFields
  <2>1. PICK s : /\ dialog' = [dialog EXCEPT !.sched = s]
                 /\ s.freq = "advanced" => dialog.of \in Timers
    BY <1>7 DEF EditFields
  <2>2. /\ dialog'.form = dialog.form /\ dialog'.of = dialog.of /\ dialog'.old = dialog.old
        /\ dialog'.main = dialog.main /\ dialog'.sched = s
    BY <1>0, <2>1 DEF Inputs
  <2>3. None \notin Timers
    BY NameAssumption DEF Editable
  <2>4. QED
    BY <2>1, <2>2, <2>3 DEF Placed
<1>8. CASE Submit
  BY <1>1, <1>8 DEF Submit
<1>9. CASE closeModal
  BY <1>2, <1>9 DEF closeModal
<1>10. ASSUME NEW m \in sent, Answer(m) PROVE Placed(dialog')
  BY <1>1, <1>2, <1>10 DEF Answer
<1>11. ASSUME NEW m \in sent, Serve(m) \/ Lose(m) PROVE Placed(dialog')
  BY <1>11 DEF Serve, Lose
<1>12. CASE UNCHANGED vars
  BY <1>12 DEF vars
<1>13. QED
  BY <1>3, <1>4, <1>5, <1>6, <1>7, <1>8, <1>9, <1>10, <1>11, <1>12 DEF Next

----------------------------------------------------------------------------
(* Every request under way is one that the server takes.                   *)

\* What SentIsAccepted states of a request.
Admissible(q, a) ==
  \/ Accepts(q, a)
  \/ q.call \in {"rollback", "deleteJob"}
  \/ ~a /\ q.call \in {"createSnapshot", "createDataset", "createJob", "updateJob"}
  \/ q.typed = "unfit"
  \/ q.keep = "w"
  \/ q.text.src = "job" /\ q.text.hour = Odd
  \/ q.call = "updateDataset" /\ q.opt \notin Compressions
  \/ q.call = "replaceDisk" /\ Size[q.new] < Size[q.old]

\* An editor whose numbers are in their range writes a schedule that can be
\* read, or one without its time of day.
LEMMA BuiltIsRead ==
  ASSUME NEW s \in SchedState, InRange(s), s.freq # "advanced"
  PROVE  LET x == buildSchedule(s)
         IN x.src = "job" /\ (x \in JobTexts \/ x.hour = Odd)
<1>1. CASE s.freq = "hourly"
  <2>1. buildSchedule(s) = Text("job", Star, Star, Star, s.minute) /\ s.minute \in 0..59
    BY <1>1 DEF buildSchedule, Fields, InRange
  <2>2. QED
    BY <2>1 DEF Text, JobTexts, Star
<1>2. CASE s.freq # "hourly"
  <2>1. PICK dow \in {Star} \cup 0..6, dom \in {Star} \cup 1..28 :
          /\ dow = Star \/ dom = Star
          /\ buildSchedule(s) = Text("job", dow, dom, s.time[1], s.time[2])
    <3>1. CASE s.freq = "daily"
      BY <3>1 DEF buildSchedule, Fields
    <3>2. CASE s.freq = "weekly"
      BY <3>2 DEF buildSchedule, Fields, SchedState
    <3>3. CASE s.freq = "monthly"
      BY <3>3 DEF buildSchedule, Fields, InRange
    <3>4. QED
      BY <1>2, <3>1, <3>2, <3>3 DEF SchedState
  <2>2. CASE s.time = NoTime
    BY <2>1, <2>2 DEF Text, NoTime
  <2>3. CASE s.time # NoTime
    <3>1. s.time[1] \in 0..23 /\ s.time[2] \in 0..59
      BY <2>3 DEF SchedState
    <3>2. QED
      BY <2>1, <3>1 DEF Text, JobTexts, Star
  <2>4. QED
    BY <2>2, <2>3
<1>3. QED
  BY <1>1, <1>2

\* The schedule that a dialog sends.
LEMMA TextIsRead ==
  ASSUME NEW q, NEW d, Fits(q, d), Placed(d), Edited(d), d.sched \in SchedState
  PROVE  ParseSchedule(q) \/ (q.text.src = "job" /\ q.text.hour = Odd)
<1>1. CASE q.text = NoText
  BY <1>1 DEF ParseSchedule, NoText, Text
<1>2. CASE d.form \in {"newtask", "newrepl"} /\ q.text = buildSchedule(d.sched) /\ InRange(d.sched)
  BY <1>2, BuiltIsRead DEF ParseSchedule, Placed
<1>3. CASE /\ d.form \in Editors /\ q.text = Built(d.sched, ScheduleOf[d.of])
           /\ InRange(d.sched)
  <2>1. PICK x : x = ScheduleOf[d.of]
    OBVIOUS
  <2>2. (x \in JobTexts /\ x.src = "job") \/ x.src \in {"cron", "systemd"}
    BY <1>3, <2>1, ScheduleAssumption DEF Edited, Editors, JobTexts, TimerTexts
  <2>3. CASE d.sched.freq = "advanced"
    BY <1>3, <2>1, <2>2, <2>3 DEF Built, ParseSchedule
  <2>4. CASE d.sched.freq # "advanced" /\ x.src = "job"
    BY <1>3, <2>1, <2>4, BuiltIsRead DEF Built, ParseSchedule
  <2>5. CASE d.sched.freq # "advanced" /\ x.src \in {"cron", "systemd"}
    <3>1. q.text = buildCron(d.sched) \/ q.text = buildOnCalendar(d.sched)
      BY <1>3, <2>1, <2>5 DEF Built
    <3>2. d.sched.freq \in {"hourly", "daily", "weekly", "monthly"}
      BY <2>5 DEF SchedState
    <3>3. \A m, at : Fields("cron", d.sched, m, at).src = "cron"
                     /\ Fields("systemd", d.sched, m, at).src = "systemd"
      BY <3>2 DEF Fields, Text
    <3>4. QED
      BY <3>1, <3>3 DEF buildCron, buildOnCalendar, ParseSchedule
  <2>6. QED
    BY <2>2, <2>3, <2>4, <2>5
<1>4. QED
  BY <1>1, <1>2, <1>3 DEF Fits

LEMMA SendsAdmissible ==
  ASSUME NEW a \in BOOLEAN, NEW d, d.form \in FormNames, a \/ d.form \in UserForms,
         Placed(d), Edited(d), d.sched \in SchedState, NEW q \in ModalHost(d, a)
  PROVE  Admissible(q, a)
<1>1. Authorised(q, a) /\ Fits(q, d)
  BY ModalHostSends
<1>2. ParseSchedule(q) \/ (q.text.src = "job" /\ q.text.hour = Odd)
  BY <1>1, TextIsRead
<1>3. (q.typed = "fit" \/ q.typed = "unfit") /\ (ParseRetention(q) \/ q.keep = "w")
  BY <1>1 DEF Fits, Keeps, ParseRetention
<1>4. replaceDisk(q) \/ (q.call = "replaceDisk" /\ Size[q.new] < Size[q.old])
  <2>1. CASE q.call = "replaceDisk"
    <3>1. q.new \in Free /\ q.old \in Disks /\ q.new # q.old
      BY <1>1, <2>1 DEF Fits, Placed
    <3>2. Size[q.new] \in Nat /\ Size[q.old] \in Nat /\ q.new \in Homeless
      BY <3>1, FreeDisks, DataAssumption
    <3>3. QED
      BY <2>1, <3>1, <3>2 DEF replaceDisk
  <2>2. QED
    BY <2>1 DEF replaceDisk
<1>5. expandPool(q)
  BY <1>1 DEF Fits, Placed, expandPool
<1>6. q.call \in {"unlockDataset", "lockDataset", "changeDatasetKey"} => q.on \in Encrypted
  BY <1>1 DEF Fits, Placed
<1>7. q.call \in {"createPool", "addVdev"} => q.disks # {}
  BY <1>1 DEF Fits
<1>8. \/ Checked(q)
      \/ q.typed = "unfit" \/ q.keep = "w"
      \/ q.text.src = "job" /\ q.text.hour = Odd
      \/ q.call = "updateDataset" /\ q.opt \notin Compressions
      \/ q.call = "replaceDisk" /\ Size[q.new] < Size[q.old]
  BY <1>2, <1>3, <1>4, <1>5, <1>6, <1>7 DEF Checked
<1>9. QED
  BY <1>1, <1>8 DEF Authorised, Accepts, Admissible

Admitted == \A m \in sent : Admissible(m.q, admin)

\* A request does not change on its way.
LEMMA RequestsKept ==
  ASSUME Messages, NEW m \in sent, Serve(m) \/ Lose(m) \/ Answer(m)
  PROVE  \A n \in sent' : \E x \in sent : n.q = x.q /\ n.meant = x.meant
<1>1. ASSUME NEW st, sent' = (sent \ {m}) \cup {[m EXCEPT !.st = st]}
      PROVE  \A n \in sent' : \E x \in sent : n.q = x.q /\ n.meant = x.meant
  <2>1. DOMAIN m = Slots
    BY DEF Messages
  <2>2. [m EXCEPT !.st = st].q = m.q /\ [m EXCEPT !.st = st].meant = m.meant
    BY <2>1 DEF Slots
  <2>3. QED
    BY <1>1, <2>2
<1>2. CASE Serve(m)
  BY <1>1, <1>2 DEF Serve
<1>3. CASE Lose(m)
  BY <1>1, <1>3 DEF Lose
<1>4. CASE Answer(m)
  BY <1>4 DEF Answer
<1>5. QED
  BY <1>2, <1>3, <1>4

LEMMA AdmittedNext ==
  DialogInv /\ OnceInv /\ Placed(dialog) /\ Admitted /\ [Next]_vars => Admitted'
<1> SUFFICES ASSUME DialogInv, OnceInv, Placed(dialog), Admitted, [Next]_vars PROVE Admitted'
  OBVIOUS
<1>1. ASSUME UNCHANGED <<admin, sent>> PROVE Admitted'
  BY <1>1 DEF Admitted
<1>2. CASE Submit
  <2>1. PICK q \in ModalHost(dialog, admin) :
          sent' = sent \cup {[id |-> opened, card |-> dialog.form \in Cards, q |-> q,
                              meant |-> meant, st |-> "out"]}
    BY <1>2 DEF Submit
  <2>2. /\ admin \in BOOLEAN /\ admin' = admin /\ dialog.form \in FormNames
        /\ admin \/ dialog.form \in UserForms
        /\ Edited(dialog) /\ dialog.sched \in SchedState
    BY <1>2 DEF Submit, DialogInv
  <2>3. Admissible(q, admin)
    BY <2>1, <2>2, SendsAdmissible
  <2>4. QED
    BY <2>1, <2>2, <2>3 DEF Admitted
<1>3. ASSUME NEW m \in sent, Serve(m) \/ Lose(m) \/ Answer(m) PROVE Admitted'
  <2>1. \A n \in sent' : \E x \in sent : n.q = x.q
    BY <1>3, RequestsKept DEF OnceInv
  <2>2. admin' = admin
    BY <1>3 DEF Serve, Lose, Answer
  <2>3. QED
    BY <2>1, <2>2 DEF Admitted
<1>4. CASE Open \/ Arrive \/ Choose \/ ChooseKind \/ EditFields \/ closeModal
  BY <1>1, <1>4 DEF Open, Arrive, Choose, ChooseKind, EditFields, closeModal
<1>5. CASE UNCHANGED vars
  BY <1>1, <1>5 DEF vars
<1>6. QED
  BY <1>2, <1>3, <1>4, <1>5 DEF Next

\* A dialog that lets its user press the button sends what the server takes,
\* whatever lists there are and in whatever order they arrive: the confirmation
\* is the one the handler compares (pools.go, datasets.go, snapshots.go), a
\* password is long enough, a schedule can be read (schedule.go), a disk is
\* another one of no pool, a key is asked of an encrypted dataset, and what
\* needs an admin is offered to an admin.  What is refused all the same is
\* named in SentIsAccepted.
THEOREM SendsWhatIsAccepted == Spec => []SentIsAccepted
<1>1. Init => DialogInv /\ OnceInv /\ Placed(dialog) /\ Admitted
  <2>1. Init => Admitted
    BY DEF Init, Admitted
  <2>2. Init => Placed(dialog)
    BY ClosedIs, NameAssumption, PlacedPlain DEF Init, SpecialForms, FormNames
  <2>3. QED
    BY <2>1, <2>2, DialogInvInit, OnceInvInit
<1>2. DialogInv /\ OnceInv /\ Placed(dialog) /\ Admitted /\ [Next]_vars
        => (DialogInv /\ OnceInv /\ Placed(dialog) /\ Admitted)'
  BY DialogInvNext, OnceInvNext, PlacedNext, AdmittedNext
<1>3. Admitted => SentIsAccepted
  BY DEF Admitted, Admissible, SentIsAccepted
<1>4. QED
  BY <1>1, <1>2, <1>3, PTL DEF Spec

----------------------------------------------------------------------------
(* What is sent is what was left in the dialog.                            *)

\* What a list offers is a dataset, and has no schedule.
LEMMA ListsOfferDatasets ==
  ASSUME NEW d, NEW what, NEW S \in {Pools, Datasets}
  PROVE  /\ Listed(d, what, S) \subseteq S
         /\ Listed(d, what, S) \cap Editable = {}
<1>1. Listed(d, what, S) \subseteq S
  BY DEF Listed
<1>2. S \subseteq Datasets
  BY DataAssumption
<1>3. QED
  BY <1>1, <1>2, NameAssumption

LEMMA SettleTarget ==
  ASSUME NEW d, DOMAIN d = Inputs, d.form \in {"newtask", "newrepl"}, d.main \notin Editable
  PROVE  Settle(d).main \notin Editable
<1> DEFINE pools == Listed(d, "pools", Pools)
           datasets == Listed(d, "datasets", Datasets)
<1>1. /\ pools # {} => First(PoolList, pools) \notin Editable
      /\ datasets # {} => First(DatasetList, datasets) \notin Editable
  BY ListsOfferDatasets, FirstOfListed
<1> HIDE DEF pools, datasets
<1>2. \A x : [d EXCEPT !.main = x].main = x
  BY DEF Inputs
<1>3. Default(d, DatasetList, datasets).main \notin Editable
  BY <1>1, <1>2 DEF Default
<1>4. CASE d.form = "newrepl"
  BY <1>3, <1>4 DEF Settle, datasets
<1>5. CASE d.form = "newtask"
  <2>1. Settle(d) = SettleTask(d)
    BY <1>5 DEF Settle
  <2>2. \/ SettleTask(d) = [d EXCEPT !.main = All]
        \/ pools # {} /\ SettleTask(d) = [d EXCEPT !.main = First(PoolList, pools)]
        \/ datasets # {} /\ SettleTask(d) = [d EXCEPT !.main = First(DatasetList, datasets)]
        \/ SettleTask(d) = Default(d, DatasetList, datasets)
    BY DEF SettleTask, pools, datasets
  <2>3. All \notin Editable
    BY NameAssumption
  <2>4. QED
    BY <1>1, <1>2, <1>3, <2>1, <2>2, <2>3
<1>6. QED
  BY <1>4, <1>5

Selecting == {"newsnap", "newds", "newrepl", "expand", "replace"}

\* The choice of the user, and the schedule they did not touch, are still in
\* the dialog; and what a new job works on has no schedule yet.
Remembered ==
  /\ DOMAIN meant = {"main", "edited"}
  /\ meant.main # None => dialog.form \in Selecting /\ dialog.main = meant.main
  /\ ~meant.edited /\ dialog.form \in Editors => dialog.sched = Parsed(ScheduleOf[dialog.of])
  /\ dialog.form \in {"newtask", "newrepl"} => dialog.main \notin Editable

LEMMA UntouchedIs ==
  DOMAIN Untouched = {"main", "edited"} /\ Untouched.main = None /\ Untouched.edited = FALSE
BY DEF Untouched

LEMMA FormsApart ==
  /\ None \notin Editors /\ None \notin {"newtask", "newrepl"} /\ None \notin Editable
  /\ \A f \in Selecting \cup {"newtask"} : f \notin Editors
BY NameAssumption DEF Editors, Selecting, FormNames

LEMMA RememberedClosed ==
  ASSUME dialog' = Closed, meant' = Untouched
  PROVE  Remembered'
BY ClosedIs, UntouchedIs, FormsApart DEF Remembered

LEMMA RememberedOpen ==
  ASSUME DialogInv, Open
  PROVE  Remembered'
<1>1. PICK d \in Opens(admin) : dialog' = Settle([d EXCEPT !.wait = Loads(d.form)])
  BY DEF Open
<1>2. Fresh(d, admin)
  BY OpensFresh DEF DialogInv
<1>3. PICK e : e = [d EXCEPT !.wait = Loads(d.form)]
  OBVIOUS
<1>4. /\ DOMAIN e = Inputs /\ e.form = d.form /\ e.of = d.of /\ e.sched = d.sched
      /\ e.main = d.main
  BY <1>2, <1>3 DEF Fresh, Inputs
<1>5. dialog'.form = e.form /\ dialog'.of = e.of /\ dialog'.sched = e.sched
  BY <1>1, <1>3, <1>4, SettleKeeps DEF SameButSelects
<1>6. dialog'.form \in {"newtask", "newrepl"} => dialog'.main \notin Editable
  BY <1>1, <1>2, <1>3, <1>4, <1>5, SettleTarget, FormsApart DEF Fresh
<1>7. dialog'.form \in Editors => dialog'.sched = Parsed(ScheduleOf[dialog'.of])
  BY <1>2, <1>4, <1>5 DEF Fresh
<1>8. meant' = Untouched
  BY DEF Open
<1>9. QED
  BY <1>6, <1>7, <1>8, UntouchedIs DEF Remembered

\* A list that arrives leaves a choice alone.
LEMMA RememberedArrive ==
  ASSUME DialogInv, Remembered, Arrive
  PROVE  Remembered'
<1>1. PICK e : /\ dialog' = Settle(e) \/ dialog' = e
               /\ DOMAIN e = Inputs /\ e.form = dialog.form /\ e.of = dialog.of
               /\ e.sched = dialog.sched /\ e.main = dialog.main
  <2>1. PICK w \in dialog.wait, ok \in BOOLEAN :
          dialog' = IF ok THEN Settle([dialog EXCEPT !.wait = @ \ {w}, !.got = @ \cup {w}])
                    ELSE [dialog EXCEPT !.wait = @ \ {w}]
    BY DEF Arrive
  <2>2. DOMAIN dialog = Inputs
    BY DEF DialogInv
  <2>3. PICK e : e = IF ok THEN [dialog EXCEPT !.wait = @ \ {w}, !.got = @ \cup {w}]
                     ELSE [dialog EXCEPT !.wait = @ \ {w}]
    OBVIOUS
  <2>4. /\ DOMAIN e = Inputs /\ e.form = dialog.form /\ e.of = dialog.of
        /\ e.sched = dialog.sched /\ e.main = dialog.main
    BY <2>2, <2>3 DEF Inputs
  <2>5. dialog' = Settle(e) \/ dialog' = e
    BY <2>1, <2>3
  <2>6. QED
    BY <2>4, <2>5
<1>2. meant' = meant
  BY DEF Arrive
<1>3. /\ SameButSelects(Settle(e), e)
      /\ e.main # None /\ e.form # "newtask" => Settle(e).main = e.main
      /\ e.form \in {"newtask", "newrepl"} /\ e.main \notin Editable =>
           Settle(e).main \notin Editable
  BY <1>1, SettleKeeps, SettleTarget
<1>4. /\ dialog'.form = e.form /\ dialog'.of = e.of /\ dialog'.sched = e.sched
      /\ e.main # None /\ e.form # "newtask" => dialog'.main = e.main
      /\ e.form \in {"newtask", "newrepl"} /\ e.main \notin Editable => dialog'.main \notin Editable
  BY <1>1, <1>3 DEF SameButSelects
<1>5. QED
  BY <1>1, <1>2, <1>4 DEF Remembered, Selecting

LEMMA RememberedChoose ==
  ASSUME DialogInv, Remembered, Choose
  PROVE  Remembered'
<1>1. PICK v \in Offered(dialog) :
        /\ dialog' = [dialog EXCEPT !.main = v]
        /\ meant' = IF dialog.form = "newtask" THEN meant ELSE [meant EXCEPT !.main = v]
  BY DEF Choose
<1>2. dialog.form \in Selecting \cup {"newtask"}
  BY <1>1 DEF Offered, Selecting
<1>3. dialog.form \in {"newtask", "newrepl"} => v \notin Editable
  <2> DEFINE pools == Listed(dialog, "pools", Pools)
             datasets == Listed(dialog, "datasets", Datasets)
  <2>1. dialog.form \in {"newtask", "newrepl"} => v \in pools \cup datasets \cup {All}
    BY <1>1 DEF Offered
  <2>2. pools \cap Editable = {} /\ datasets \cap Editable = {} /\ All \notin Editable
    BY ListsOfferDatasets, NameAssumption
  <2>3. QED
    BY <2>1, <2>2
<1>4. /\ dialog'.form = dialog.form /\ dialog'.main = v /\ dialog'.sched = dialog.sched
      /\ dialog'.of = dialog.of
  BY <1>1 DEF DialogInv, Inputs
<1>5. /\ DOMAIN meant' = {"main", "edited"} /\ meant'.edited = meant.edited
      /\ meant'.main = None \/ (meant'.main = v /\ dialog.form \in Selecting)
  <2>1. CASE dialog.form = "newtask"
    BY <1>1, <2>1 DEF Remembered, Selecting
  <2>2. CASE dialog.form # "newtask"
    BY <1>1, <1>2, <2>2 DEF Remembered
  <2>3. QED
    BY <2>1, <2>2
<1>6. QED
  BY <1>2, <1>3, <1>4, <1>5, FormsApart DEF Remembered

LEMMA RememberedChooseKind ==
  ASSUME DialogInv, Remembered, ChooseKind
  PROVE  Remembered'
<1>1. PICK k : dialog' = Settle([dialog EXCEPT !.kind = k])
  BY DEF ChooseKind
<1>2. dialog.form = "newtask" /\ meant' = Untouched /\ dialog.main \notin Editable
  BY DEF ChooseKind, Remembered
<1>3. PICK e : e = [dialog EXCEPT !.kind = k]
  OBVIOUS
<1>4. DOMAIN e = Inputs /\ e.form = "newtask" /\ e.main \notin Editable
  BY <1>2, <1>3 DEF DialogInv, Inputs
<1>5. dialog'.form = "newtask" /\ dialog'.main \notin Editable
  BY <1>1, <1>3, <1>4, SettleKeeps, SettleTarget DEF SameButSelects
<1>6. QED
  BY <1>2, <1>5, UntouchedIs, FormsApart DEF Remembered

\* Fields are edited, a request goes out, or a button is freed: the target
\* stays, and so does a schedule that was not edited.
LEMMA RememberedSame ==
  ASSUME Remembered, dialog'.form = dialog.form, dialog'.main = dialog.main,
         dialog'.of = dialog.of, DOMAIN meant' = {"main", "edited"},
         meant'.main = meant.main,
         meant'.edited \/ (dialog'.sched = dialog.sched /\ meant' = meant)
  PROVE  Remembered'
BY DEF Remembered

LEMMA RememberedNext ==
  DialogInv /\ Remembered /\ [Next]_vars => Remembered'
<1> SUFFICES ASSUME DialogInv, Remembered, [Next]_vars PROVE Remembered'
  OBVIOUS
<1>1. CASE EditFields
  <2>1. /\ dialog'.form = dialog.form /\ dialog'.main = dialog.main
        /\ dialog'.of = dialog.of
    BY <1>1 DEF EditFields, DialogInv, Inputs
  <2>2. /\ DOMAIN meant' = {"main", "edited"} /\ meant'.main = meant.main
        /\ meant'.edited = (dialog.of \in Editable)
    BY <1>1 DEF EditFields, Remembered
  <2>3. dialog.form \in Editors => dialog.of \in Editable
    BY FormsApart DEF DialogInv, Edited, Editors, Editable
  <2>4. QED
    BY <2>1, <2>2, <2>3 DEF Remembered
<1>2. ASSUME NEW b, NEW c, dialog' = [dialog EXCEPT !.busy = b, !.err = c], meant' = meant
      PROVE  Remembered'
  <2>1. /\ dialog'.form = dialog.form /\ dialog'.main = dialog.main
        /\ dialog'.of = dialog.of /\ dialog'.sched = dialog.sched
    BY <1>2 DEF DialogInv, Inputs
  <2>2. DOMAIN meant = {"main", "edited"}
    BY DEF Remembered
  <2>3. QED
    BY <1>2, <2>1, <2>2, RememberedSame
<1>3. CASE Submit
  BY <1>2, <1>3 DEF Submit
<1>4. ASSUME UNCHANGED <<dialog, meant>> PROVE Remembered'
  BY <1>4 DEF Remembered
<1>5. ASSUME NEW m \in sent, Answer(m) PROVE Remembered'
  <2>1. CASE dialog' = Closed
    BY <1>5, <2>1, RememberedClosed DEF Answer
  <2>2. CASE dialog' # Closed
    <3>1. meant' = meant
      BY <1>5, <2>2 DEF Answer
    <3>2. dialog' = dialog \/ dialog' = [dialog EXCEPT !.busy = FALSE, !.err = TRUE]
      BY <1>5, <2>2 DEF Answer
    <3>3. QED
      BY <1>2, <1>4, <3>1, <3>2
  <2>3. QED
    BY <2>1, <2>2
<1>6. ASSUME NEW m \in sent, Serve(m) \/ Lose(m) PROVE Remembered'
  BY <1>4, <1>6, RememberedSame DEF Serve, Lose
<1>7. CASE UNCHANGED vars
  BY <1>4, <1>7 DEF vars
<1>8. CASE closeModal
  BY <1>8, RememberedClosed DEF closeModal
<1>9. QED
  BY <1>1, <1>3, <1>5, <1>6, <1>7, <1>8, RememberedOpen, RememberedArrive, RememberedChoose,
     RememberedChooseKind DEF Next

\* What is pressed out of such a dialog is as it was meant.
LEMMA SubmitAsMeant ==
  ASSUME DialogInv, Remembered, NEW q \in ModalHost(dialog, admin), dialog.form # None
  PROVE  /\ meant.main # None /\ q.call # "createJob" => meant.main \in {q.on, q.new}
         /\ q.text # NoText /\ q.on \in Editable /\ ~meant.edited =>
              SameTimes(q.text, ScheduleOf[q.on])
<1>1. Carries(q, dialog)
  BY ModalHostSends DEF DialogInv
<1>2. meant.main # None /\ q.call # "createJob" => meant.main \in {q.on, q.new}
  BY <1>1 DEF Carries, Remembered, Selecting
<1>3. ASSUME q.text # NoText, q.on \in Editable, ~meant.edited
      PROVE  SameTimes(q.text, ScheduleOf[q.on])
  <2>1. /\ dialog.form \in Editors /\ q.on = dialog.of
        /\ q.text = Built(Parsed(ScheduleOf[q.on]), ScheduleOf[q.on])
    BY <1>1, <1>3 DEF Carries, Remembered
  <2>2. ScheduleOf[q.on] \in JobTexts \cup TimerTexts
    BY <2>1, ScheduleAssumption DEF DialogInv, Edited, Editors
  <2>3. QED
    BY <2>1, <2>2, RoundTrip
<1>4. QED
  BY <1>2, <1>3

LEMMA SentAsMeantNext ==
  DialogInv /\ OnceInv /\ Remembered /\ SentAsMeant /\ [Next]_vars => SentAsMeant'
<1> SUFFICES ASSUME DialogInv, OnceInv, Remembered, SentAsMeant, [Next]_vars PROVE SentAsMeant'
  OBVIOUS
<1> DEFINE AsMeant(q, mt) ==
      /\ mt.main # None /\ q.call # "createJob" => mt.main \in {q.on, q.new}
      /\ q.text # NoText /\ q.on \in Editable /\ ~mt.edited =>
           SameTimes(q.text, ScheduleOf[q.on])
<1>1. /\ \A m \in sent : AsMeant(m.q, m.meant)
      /\ (\A m \in sent' : AsMeant(m.q, m.meant)) => SentAsMeant'
  BY DEF SentAsMeant
<1> HIDE DEF AsMeant
<1>2. CASE Submit
  <2>1. PICK q \in ModalHost(dialog, admin) :
          sent' = sent \cup {[id |-> opened, card |-> dialog.form \in Cards, q |-> q,
                              meant |-> meant, st |-> "out"]}
    BY <1>2 DEF Submit
  <2>2. dialog.form # None
    BY <1>2 DEF Submit, DialogInv
  <2>3. AsMeant(q, meant)
    BY <2>2, SubmitAsMeant DEF AsMeant
  <2>4. QED
    BY <1>1, <2>1, <2>3
<1>3. ASSUME NEW m \in sent, Serve(m) \/ Lose(m) \/ Answer(m) PROVE SentAsMeant'
  <2>1. \A n \in sent' : \E x \in sent : n.q = x.q /\ n.meant = x.meant
    BY <1>3, RequestsKept DEF OnceInv
  <2>2. QED
    BY <1>1, <2>1
<1>4. ASSUME sent' = sent PROVE SentAsMeant'
  BY <1>1, <1>4
<1>5. CASE Open \/ Arrive \/ Choose \/ ChooseKind \/ EditFields \/ closeModal
  BY <1>4, <1>5 DEF Open, Arrive, Choose, ChooseKind, EditFields, closeModal
<1>6. CASE UNCHANGED vars
  BY <1>4, <1>6 DEF vars
<1>7. QED
  BY <1>2, <1>3, <1>5, <1>6 DEF Next

\* What is sent is what the user left in the dialog, although lists go on
\* arriving (the useEffects of components/Modals.tsx) and the schedule has been
\* through an editor: the target they chose, and, untouched, the same minutes.
THEOREM SendsWhatIsMeant == Spec => []SentAsMeant
<1>1. Init => DialogInv /\ OnceInv /\ Remembered /\ SentAsMeant
  <2>1. Init => Remembered
    BY ClosedIs, UntouchedIs, FormsApart DEF Init, Remembered
  <2>2. Init => SentAsMeant
    BY DEF Init, SentAsMeant
  <2>3. QED
    BY <2>1, <2>2, DialogInvInit, OnceInvInit
<1>2. DialogInv /\ OnceInv /\ Remembered /\ SentAsMeant /\ [Next]_vars
        => (DialogInv /\ OnceInv /\ Remembered /\ SentAsMeant)'
  BY DialogInvNext, OnceInvNext, RememberedNext, SentAsMeantNext
<1>3. QED
  BY <1>1, <1>2, PTL DEF Spec
=============================================================================
