----------------------------- MODULE Scheduler -----------------------------
(***************************************************************************)
(* internal/scheduler: jobs that snapshot, scrub, trim or test on a        *)
(* schedule, with a retention and a change threshold for snapshots.        *)
(*                                                                         *)
(* One goroutine looks at the table every 30 seconds, keeps the list it    *)
(* read and runs the due jobs one after another; POST /run starts another  *)
(* goroutine with its own copy of the row.  The table can change meanwhile *)
(* and snapshots come and go.  Each SQL statement and each zfs command is  *)
(* one step; a prune is one step that removes what it found.               *)
(***************************************************************************)
EXTENDS Schedule, Integers, FiniteSets

CONSTANTS
  Ids,                \* row ids of the table jobs, 1..n
  Datasets,           \* datasets (and pools, devices)
  Under,              \* Under[d]: d and the datasets below it
  Jobs,               \* jobs that can be created
  Retentions,         \* retentions in days, 0 for none
  Requests,           \* goroutines POST /run starts
  Loop,               \* the goroutine of Run
  Times,              \* bound: the instants at which something can happen
  DurationLimit,      \* a time.Duration is below it: 2^63 ns, in seconds
  MaxWritten,         \* bound: units of data written to a dataset
  Env                 \* what may happen around the code, see EnvKinds

EnvKinds == {"measure", "create", "list", "command", "crash",
             "delete", "disable", "schedule", "retention", "threshold",
             "manual", "refuse", "record"}

Days(r) == r * 86400
Workers == Requests \cup {Loop}

\* What a request or a patch can give a job; threshold is in units of data.
Job == [kind: {"snapshot", "command"}, target: Datasets, schedule: Schedules,
        retention: Retentions, threshold: Nat]

ASSUME SchedulerAssumption ==
  /\ IsFiniteSet(Ids) /\ Ids # {} /\ Ids = 1..Cardinality(Ids)
  /\ Under \in [Datasets -> SUBSET Datasets]
  /\ \A d \in Datasets : d \in Under[d]
  /\ Retentions \subseteq Nat
  /\ Jobs \subseteq Job /\ Jobs # {}
  /\ Loop \notin Requests
  /\ Times \subseteq Nat /\ Times # {}
  /\ MaxWritten \in Nat /\ DurationLimit \in Nat \ {0}
  /\ Env \subseteq EnvKinds

VARIABLES
  clock,              \* now
  row,                \* table jobs
  snaps,              \* snapshots
  written,            \* units of data written to each dataset so far
  list,               \* the loop's copy of the jobs that were due
  left,               \* the ids of the list it has not run yet
  ex,                 \* executions: runJob
  promised,           \* history: targets and retentions jobs ever had
  taken,              \* history: units of each dataset a snapshot ever held
  served              \* history: when the loop's last run of each row was recorded

zfs  == <<snaps, written, taken>>
loop == <<list, left, served>>
vars == <<clock, row, zfs, loop, ex, promised>>

Row == [live: BOOLEAN, job: Job, enabled: BOOLEAN, base: Nat]

\* keep is history: the retention of the job that took the snapshot.
Snap == [ds: Datasets, at: Nat, auto: BOOLEAN, upto: Nat, keep: Retentions \cup {0}]

Exec == [pc: {"idle", "measure", "create", "prune", "command", "mark"},
         id: Ids, job: Job, cutoff: Int, ok: BOOLEAN, began: Nat]

Types ==
  /\ clock \in Nat
  /\ row \in [Ids -> Row]
  /\ snaps \subseteq Snap
  /\ written \in [Datasets -> Nat]
  /\ list \in [Ids -> Job]
  /\ left \subseteq Ids
  /\ ex \in [Workers -> Exec]
  /\ promised \subseteq Datasets \X Retentions
  /\ taken \in [Datasets -> Nat]
  /\ served \in [Ids -> Nat]

NoJob  == CHOOSE j \in Jobs : TRUE
NoRow  == [live |-> FALSE, job |-> NoJob, enabled |-> FALSE, base |-> 0]
NoExec == [pc |-> "idle", id |-> CHOOSE i \in Ids : TRUE, job |-> NoJob,
           cutoff |-> 0, ok |-> FALSE, began |-> 0]

\* A step fits the job it is a step of.
StepFits(x) ==
  /\ x.pc = "idle" => x = NoExec
  /\ x.pc = "command" => x.job.kind = "command"
  /\ x.pc \in {"measure", "create", "prune"} => x.job.kind = "snapshot"
  /\ x.pc = "measure" => x.job.threshold > 0
  /\ x.pc = "prune" => x.job.retention > 0

\* Types; the steps fit the jobs, whose kinds, thresholds and retentions other
\* goroutines read and patch; and the loop has taken what it runs off its list.
TypeOK ==
  /\ Types
  /\ \A w \in Workers : StepFits(ex[w])
  /\ ex[Loop].pc # "idle" => ex[Loop].id \notin left

Init ==
  /\ clock \in Times /\ \A t \in Times : clock <= t
  /\ row = [i \in Ids |-> NoRow]
  /\ snaps = {}
  /\ written = [d \in Datasets |-> 0]
  /\ list = [i \in Ids |-> NoJob]
  /\ left = {}
  /\ ex = [w \in Workers |-> NoExec]
  /\ promised = {}
  /\ taken = [d \in Datasets |-> 0]
  /\ served = [i \in Ids |-> 0]

----------------------------------------------------------------------------
(* The table and its handlers.                                             *)

\* id INTEGER PRIMARY KEY: one more than the largest id in the table.
NextId == 1 + Cardinality({i \in Ids : \E k \in Ids : row[k].live /\ i <= k})

Promise(j) == promised' = promised \cup {<<j.target, j.retention>>}

\* A new job counts from now on; if the loop still has a deleted one of that id
\* to run, nothing was recorded of it.
Create(j) ==
  /\ NextId \in Ids
  /\ row' = [row EXCEPT ![NextId] =
               [live |-> TRUE, job |-> j, enabled |-> TRUE, base |-> clock]]
  /\ served' = [served EXCEPT ![NextId] = IF NextId \in left THEN 0 ELSE clock]
  /\ Promise(j)
  /\ UNCHANGED <<clock, zfs, list, left, ex>>

\* PATCH updates each column with a statement of its own.
PatchEnabled(i) ==
  /\ "disable" \in Env /\ row[i].live
  /\ \E b \in BOOLEAN : row' = [row EXCEPT ![i].enabled = b]
  /\ UNCHANGED <<clock, zfs, loop, ex, promised>>

PatchSchedule(i, j) ==
  /\ "schedule" \in Env /\ row[i].live
  /\ row' = [row EXCEPT ![i].job.schedule = j.schedule]
  /\ UNCHANGED <<clock, zfs, loop, ex, promised>>

PatchRetention(i, r) ==
  /\ "retention" \in Env /\ row[i].live
  /\ row' = [row EXCEPT ![i].job.retention = r]
  /\ Promise(row'[i].job)
  /\ UNCHANGED <<clock, zfs, loop, ex>>

PatchThreshold(i, j) ==
  /\ "threshold" \in Env /\ row[i].live
  /\ row' = [row EXCEPT ![i].job.threshold = j.threshold]
  /\ UNCHANGED <<clock, zfs, loop, ex, promised>>

Delete(i) ==
  /\ "delete" \in Env /\ row[i].live
  /\ row' = [row EXCEPT ![i] = NoRow]
  /\ UNCHANGED <<clock, zfs, loop, ex, promised>>

----------------------------------------------------------------------------
(* Launching.                                                              *)

\* The base is the last run, or the creation of a job that never ran.
Due(i) ==
  /\ row[i].live /\ row[i].enabled
  /\ NextRun(row[i].job.schedule, row[i].base) <= clock

\* Fault: the threshold is looked at before the type, so scrubs are measured.
BeginMeasured(w, i, j) ==
  ex' = [ex EXCEPT ![w] =
           [NoExec EXCEPT !.id = i, !.job = j, !.began = written[j.target],
                          !.pc = IF j.threshold > 0 THEN "measure"
                                 ELSE IF j.kind = "command" THEN "command"
                                 ELSE "create"]]

Begin(w, i, j) ==
  ex' = [ex EXCEPT ![w] =
           [NoExec EXCEPT !.id = i, !.job = j, !.began = written[j.target],
                          !.pc = IF j.kind = "command" THEN "command"
                                 ELSE IF j.threshold > 0 THEN "measure"
                                 ELSE "create"]]

\* Fault: a tick does not wait for the jobs the last one found.
CheckAnyway ==
  /\ left' = {i \in Ids : Due(i)}
  /\ list' = [i \in Ids |-> IF Due(i) THEN row[i].job ELSE NoJob]
  /\ UNCHANGED <<clock, row, zfs, ex, promised, served>>

\* One tick reads the table and the time once, and keeps what is due.
Check ==
  /\ left = {} /\ ex[Loop].pc = "idle"
  /\ left' = {i \in Ids : Due(i)}
  /\ list' = [i \in Ids |-> IF Due(i) THEN row[i].job ELSE NoJob]
  /\ UNCHANGED <<clock, row, zfs, ex, promised, served>>

Launch(i) ==
  /\ ex[Loop].pc = "idle" /\ i \in left /\ \A k \in left : i <= k
  /\ left' = left \ {i}
  /\ Begin(Loop, i, list[i])
  /\ list' = [list EXCEPT ![i] = NoJob]
  /\ UNCHANGED <<clock, row, zfs, promised, served>>

\* POST /run: the row is read and a goroutine started, whatever else runs.
RunNow(w, i) ==
  /\ w # Loop /\ ex[w].pc = "idle" /\ row[i].live
  /\ Begin(w, i, row[i].job)
  /\ UNCHANGED <<clock, row, zfs, loop, promised>>

----------------------------------------------------------------------------
(* One execution: execute, SnapshotCreate and SnapshotPrune, MarkRun.      *)

End(w, ok) == ex' = [ex EXCEPT ![w].pc = "mark", ![w].ok = ok]

Latest(d) ==
  {s \in snaps : s.ds = d /\ \A o \in snaps : o.ds = d => o.at <= s.at}

\* Fault: as much as the threshold is still below it.
BelowOrAt(j) ==
  \E s \in Latest(j.target) : written[j.target] - s.upto <= j.threshold

\* Less than the threshold was written since the latest snapshot of any kind.
BelowThreshold(j) ==
  \E s \in Latest(j.target) : written[j.target] - s.upto < j.threshold

\* Skipped counts as ok; if measuring fails the snapshot is taken.
Measure(w) ==
  /\ ex[w].pc = "measure"
  /\ \/ BelowThreshold(ex[w].job) /\ End(w, TRUE)
     \/ /\ ~BelowThreshold(ex[w].job) \/ "measure" \in Env
        /\ ex' = [ex EXCEPT ![w].pc = "create"]
  /\ UNCHANGED <<clock, row, zfs, loop, promised>>

\* zfs snapshot -r: all of the tree or nothing.
SnapTree(j) ==
  {[ds |-> d, at |-> clock, auto |-> TRUE, upto |-> written[d],
    keep |-> j.retention] : d \in Under[j.target]}

\* Automatic snapshots are named by the minute.
NameTaken(d) ==
  \E s \in snaps : s.ds \in Under[d] /\ s.auto /\ s.at \div 60 = clock \div 60

Taken(d) ==
  taken' = [x \in Datasets |-> IF x \in Under[d] /\ taken[x] < written[x]
                               THEN written[x] ELSE taken[x]]

\* The product of days and time.Hour wraps around.
Duration(r) ==
  ((Days(r) + DurationLimit) % (2 * DurationLimit)) - DurationLimit

\* 0 if nothing is to be pruned.
CutoffOf(j) == IF j.retention = 0 THEN 0 ELSE clock - Duration(j.retention)

\* Fault: the retention is applied even if there is no new snapshot.
SnapshotCreateLax(w) ==
  LET j == ex[w].job
  IN  /\ ex[w].pc = "create"
      /\ \/ ~NameTaken(j.target) /\ snaps' = snaps \cup SnapTree(j) /\ Taken(j.target)
         \/ (NameTaken(j.target) \/ "create" \in Env) /\ UNCHANGED <<snaps, taken>>
      /\ ex' = [ex EXCEPT ![w].pc = IF j.retention = 0 THEN "mark" ELSE "prune",
                          ![w].ok = j.retention = 0,
                          ![w].cutoff = CutoffOf(j)]
      /\ UNCHANGED <<clock, row, written, loop, promised>>

\* The cutoff is computed when the command returns; one that times out may
\* have done its work.
SnapshotCreate(w) ==
  LET j == ex[w].job
      done == snaps' = snaps \cup SnapTree(j) /\ Taken(j.target)
  IN  /\ ex[w].pc = "create"
      /\ \/ /\ ~NameTaken(j.target) /\ done
            /\ ex' = [ex EXCEPT ![w].pc = IF j.retention = 0 THEN "mark" ELSE "prune",
                                ![w].ok = j.retention = 0,
                                ![w].cutoff = CutoffOf(j)]
         \/ /\ NameTaken(j.target) \/ "create" \in Env
            /\ UNCHANGED <<snaps, taken>> \/ (~NameTaken(j.target) /\ done)
            /\ End(w, FALSE)
      /\ UNCHANGED <<clock, row, written, loop, promised>>

\* Fault: snapshots of any name.
ExpiredAny(j, cutoff) ==
  {s \in snaps : s.ds \in Under[j.target] /\ s.at <= cutoff}

\* Fault: only the dataset's own snapshots.
ExpiredFlat(j, cutoff) ==
  {s \in snaps : s.ds = j.target /\ s.auto /\ s.at <= cutoff}

\* Automatic snapshots of the whole tree up to the cutoff.
Expired(j, cutoff) ==
  {s \in snaps : s.ds \in Under[j.target] /\ s.auto /\ s.at <= cutoff}

\* A destroy that ZFS refuses (a clone, a hold) is skipped.
SnapshotPrune(w) ==
  /\ ex[w].pc = "prune"
  /\ \/ /\ \E kept \in IF "refuse" \in Env THEN SUBSET Expired(ex[w].job, ex[w].cutoff)
                       ELSE {{}} :
             snaps' = snaps \ (Expired(ex[w].job, ex[w].cutoff) \ kept)
        /\ End(w, TRUE)
     \/ /\ "list" \in Env
        /\ UNCHANGED snaps /\ End(w, FALSE)
  /\ UNCHANGED <<clock, row, written, taken, loop, promised>>

\* zpool scrub, zpool trim and smartctl -t.
Command(w) ==
  /\ ex[w].pc = "command"
  /\ End(w, TRUE) \/ ("command" \in Env /\ End(w, FALSE))
  /\ UNCHANGED <<clock, row, zfs, loop, promised>>

\* Fault: the run of a job that failed is not recorded.
MarkRunIfOK(w) ==
  /\ ex[w].pc = "mark"
  /\ IF row[ex[w].id].live /\ ex[w].ok
     THEN /\ row' = [row EXCEPT ![ex[w].id].base = clock]
          /\ served' = IF w = Loop THEN [served EXCEPT ![ex[w].id] = clock] ELSE served
     ELSE UNCHANGED <<row, served>>
  /\ ex' = [ex EXCEPT ![w] = NoExec]
  /\ UNCHANGED <<clock, zfs, list, left, promised>>

\* UPDATE ... WHERE id, which touches no row if the job is gone and, if it fails,
\* is logged and no more; last_result is what ok says.
MarkRun(w) ==
  /\ ex[w].pc = "mark"
  /\ \/ /\ row[ex[w].id].live
        /\ row' = [row EXCEPT ![ex[w].id].base = clock]
        /\ served' = IF w = Loop THEN [served EXCEPT ![ex[w].id] = clock] ELSE served
     \/ /\ ~row[ex[w].id].live \/ "record" \in Env
        /\ UNCHANGED <<row, served>>
  /\ ex' = [ex EXCEPT ![w] = NoExec]
  /\ UNCHANGED <<clock, zfs, list, left, promised>>

----------------------------------------------------------------------------
(* The world around.                                                       *)

Tick ==
  /\ clock' \in {t \in Times : t > clock}
  /\ \A t \in Times : t > clock => clock' <= t
  /\ UNCHANGED <<row, zfs, loop, ex, promised>>

Write(d) ==
  /\ written[d] < MaxWritten
  /\ written' = [written EXCEPT ![d] = @ + 1]
  /\ UNCHANGED <<clock, row, snaps, taken, loop, ex, promised>>

\* A user takes a snapshot under another name.
Manual(d) ==
  /\ "manual" \in Env
  /\ snaps' = snaps \cup {[ds |-> d, at |-> clock, auto |-> FALSE,
                           upto |-> written[d], keep |-> 0]}
  /\ taken' = [taken EXCEPT ![d] = IF @ < written[d] THEN written[d] ELSE @]
  /\ UNCHANGED <<clock, row, written, loop, ex, promised>>

\* The daemon stops and starts.  A stop cancels the context of the loop's
\* commands and of its MarkRun, so the row stays as it was.
Crash ==
  /\ "crash" \in Env
  /\ ex' = [w \in Workers |-> NoExec]
  /\ left' = {} /\ list' = [i \in Ids |-> NoJob]
  /\ UNCHANGED <<clock, row, zfs, served, promised>>

Run(w) ==
  Measure(w) \/ SnapshotCreate(w) \/ SnapshotPrune(w) \/ Command(w) \/ MarkRun(w)

Admin == \/ \E j \in Jobs : Create(j)
         \/ \E i \in Ids :
              \/ PatchEnabled(i) \/ Delete(i)
              \/ \E r \in Retentions : PatchRetention(i, r)
              \/ \E j \in Jobs : PatchSchedule(i, j) \/ PatchThreshold(i, j)

Outside == \/ \E d \in Datasets : Write(d) \/ Manual(d)

Next ==
  \/ Check
  \/ \E i \in Ids : Launch(i) \/ \E w \in Workers : RunNow(w, i)
  \/ \E w \in Workers : Run(w)
  \/ Admin
  \/ Outside
  \/ Tick
  \/ Crash

Spec == Init /\ [][Next]_vars

\* The end of a run of row i that the table tells of.
Recorded(w, i) == ex[w].id = i /\ MarkRun(w) /\ row'[i].base = clock

\* Goroutines are scheduled and every command has a timeout; the UPDATE of a job
\* that is run again and again does not fail for ever.
Fairness ==
  /\ WF_vars(Check)
  /\ WF_vars(\E i \in Ids : Launch(i))
  /\ \A w \in Workers : WF_vars(Run(w))
  /\ \A w \in Workers, i \in Ids : SF_vars(Recorded(w, i))

LiveSpec == Spec /\ Fairness

----------------------------------------------------------------------------
(* Properties.                                                             *)

\* Candidates for a slot near an instant, enough to find the first one.
Nearby(s, b, form) ==
  CASE form = "hourly" ->
         {h * 3600 + s.minute * 60 : h \in (b \div 3600)..(b \div 3600 + 1)}
    [] form = "monthly" -> {At(FirstOf[k] + s.monthday - 1, s) : k \in Months}
    [] OTHER -> {At(d, s) : d \in DayOf(b)..(DayOf(b) + 7)}

\* The time the loop and the API take for a job's next run is the first slot
\* of its schedule after its last run: none is left out, none is made up.
NextIsFirst ==
  \A i \in Ids : \A form \in {"hourly", "daily", "weekly", "monthly"} :
    LET s == [row[i].job.schedule EXCEPT !.kind = form]
        b == row[i].base
    IN  FirstSlot(s, b, NextRun(s, b), Nearby(s, b, form))

\* Retention removes automatic snapshots only, and only those that a job over
\* their dataset was at some time set to keep no longer: whatever is patched,
\* deleted or started by hand while the loop works on the list it read.
PruneWithinRetention ==
  [][\A s \in snaps \ snaps' :
       s.auto /\ \E p \in promised : /\ s.ds \in Under[p[1]] /\ p[2] # 0
                                     /\ s.at + Days(p[2]) <= clock]_vars

\* A dataset does not lose its last automatic snapshot to retention, however
\* many runs fail or overlap: a younger one is there.
LastStays ==
  [][\A s \in snaps \ snaps' :
       \E n \in snaps' : n.ds = s.ds /\ n.auto /\ n.at > s.at]_vars

\* What a run that is ok or was skipped vouches for: all its target held when
\* it began, but for less than the threshold, is in some snapshot.
OkIsCovered ==
  \A w \in Workers :
    LET j == ex[w].job
    IN  ex[w].pc = "mark" /\ ex[w].ok /\ j.kind = "snapshot" =>
          \/ taken[j.target] >= ex[w].began
          \/ ex[w].began - taken[j.target] < j.threshold

\* A run that is ok and was not skipped left no expired automatic snapshot in
\* the tree it snapshots (if ZFS refuses none).
OkIsPruned ==
  \A w \in Workers :
    ex[w].pc = "mark" /\ ex[w].ok /\ ex[w].cutoff > 0 =>
      \A s \in snaps : s.ds \in Under[ex[w].job.target] /\ s.auto =>
        s.at > ex[w].cutoff

\* The loop does not run a job twice for one slot: between the time a run of its
\* was recorded and the time it takes the row up again, a slot passed of the
\* schedule it read.  A run that no UPDATE recorded (it failed, the daemon stopped)
\* is repeated at the next tick, for as long as it takes.
OncePerSlot ==
  [][\A i \in Ids : ex[Loop].pc = "idle" /\ ex'[Loop].pc # "idle" /\ ex'[Loop].id = i
       => NextRun(list[i].schedule, served[i]) <= clock]_vars

\* A job that is due runs, is disabled or is deleted.
DueRuns == \A i \in Ids : Due(i) ~> ~Due(i)
============================================================================
