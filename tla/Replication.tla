---------------------------- MODULE Replication ----------------------------
(***************************************************************************)
(* internal/replication: jobs that copy a ZFS dataset with send | recv.    *)
(*                                                                         *)
(* An execution is a goroutine: it snapshots the source, runs the pipeline *)
(* as a long operation, moves the bookmark ezrepl-last, prunes and marks   *)
(* the job's row.  Executions are started by the 30-second tick and by     *)
(* POST /run; the row can be patched, deleted and created meanwhile, the   *)
(* operation can be canceled, the commands can fail and the daemon can     *)
(* stop.  The row is one SQL statement per access (one connection), every  *)
(* zfs command is one step, and the pipeline is a flow that begins and     *)
(* ends.  LongOps models the registry an execution waits on.               *)
(***************************************************************************)
EXTENDS Naturals, FiniteSets, FiniteSetsExt

CONSTANTS
  Ids,                \* row ids of replication_jobs, 1..n
  Defs,               \* definitions: a source and a destination
  Sources,            \* source datasets
  SourceOf,           \* the source of each definition
  Execs,              \* executions that can be in flight
  Nobody,             \* owner of a pipeline whose operation is gone
  Period,             \* seconds between two slots of the schedule
  MaxClock,           \* bound: seconds
  Env                 \* what may happen around the code, see EnvKinds

EnvKinds == {"snapshot", "start", "stream", "destroy", "bookmark", "prune",
             "record", "crash", "diverge", "cancel", "delete", "force", "disable"}

ASSUME ReplicationAssumption ==
  /\ IsFiniteSet(Ids) /\ Ids # {} /\ Ids = 1..Cardinality(Ids)
  /\ Defs # {}
  /\ SourceOf \in [Defs -> Sources]
  /\ Nobody \notin Execs
  /\ Period \in Nat \ {0}
  /\ MaxClock \in Nat
  /\ Env \subseteq EnvKinds

VARIABLES
  clock,              \* now, in seconds
  row,                \* table replication_jobs
  snaps,              \* ezrepl-* snapshots of each source, named by second
  mark,               \* the snapshot #ezrepl-last names, 0 if there is none
  exists,             \* the destination dataset exists
  got,                \* snapshots the destination received
  dirty,              \* it was written to, or keeps a partial receive
  flows,              \* pipelines between the first and the last byte
  ex,                 \* the executions
  forced              \* history: definitions that ever allowed force_full

dest == <<exists, got, dirty>>
zfs  == <<snaps, mark, dest, flows>>
vars == <<clock, row, zfs, ex, forced>>

Seconds == Nat \ {0}

Row == [live: BOOLEAN, def: Defs, enabled: BOOLEAN, force: BOOLEAN,
        bookmark: Nat, base: Nat, lastOK: {"none", "ok", "fail"}]

PCs == {"idle", "fetched", "snapshot", "start", "wait", "destroy", "restart",
        "rewait", "unmark", "bookmark", "prune", "finish"}

\* started and flowing are both "running" in the registry.
Ops == {"none", "started", "flowing", "done", "error", "canceled"}

Exec == [pc: PCs, tick: BOOLEAN, id: Ids, def: Defs, force: BOOLEAN,
         bookmark: Nat, snap: Nat, full: BOOLEAN, op: Ops,
         canceledReq: BOOLEAN, ok: BOOLEAN]

Flow == [def: Defs, base: Nat, snap: Seconds, owner: Execs \cup {Nobody}]

Types ==
  /\ clock \in Seconds
  /\ row \in [Ids -> Row]
  /\ snaps \in [Sources -> SUBSET Seconds]
  /\ mark \in [Sources -> Nat]
  /\ exists \in [Defs -> BOOLEAN]
  /\ got \in [Defs -> SUBSET Seconds]
  /\ dirty \in [Defs -> BOOLEAN]
  /\ flows \subseteq Flow
  /\ ex \in [Execs -> Exec]
  /\ forced \subseteq Defs

\* An execution goes on only when its operation has ended.
TypeOK ==
  /\ Types
  /\ \A e \in Execs : ex[e].op \in {"started", "flowing"} => ex[e].pc \in {"wait", "rewait"}

NoRow  == [live |-> FALSE, def |-> CHOOSE d \in Defs : TRUE, enabled |-> FALSE,
           force |-> FALSE, bookmark |-> 0, base |-> 0, lastOK |-> "none"]
NoExec == [pc |-> "idle", tick |-> FALSE, id |-> CHOOSE i \in Ids : TRUE,
           def |-> CHOOSE d \in Defs : TRUE, force |-> FALSE, bookmark |-> 0,
           snap |-> 0, full |-> FALSE, op |-> "none", canceledReq |-> FALSE,
           ok |-> FALSE]

Init ==
  /\ clock = 1
  /\ row = [i \in Ids |-> NoRow]
  /\ snaps = [s \in Sources |-> {}]
  /\ mark = [s \in Sources |-> 0]
  /\ exists = [d \in Defs |-> FALSE]
  /\ got = [d \in Defs |-> {}]
  /\ dirty = [d \in Defs |-> FALSE]
  /\ flows = {}
  /\ ex = [e \in Execs |-> NoExec]
  /\ forced = {}

----------------------------------------------------------------------------
(* The table and its handlers.                                             *)

\* id INTEGER PRIMARY KEY: one more than the largest id in the table.
NextId == 1 + Cardinality({i \in Ids : \E k \in Ids : row[k].live /\ i <= k})

Create(d) ==
  /\ NextId \in Ids
  /\ \E force \in IF "force" \in Env THEN BOOLEAN ELSE {FALSE} :
       /\ row' = [row EXCEPT ![NextId] =
                    [NoRow EXCEPT !.live = TRUE, !.def = d, !.enabled = TRUE,
                                  !.force = force, !.base = clock]]
       /\ forced' = IF force THEN forced \cup {d} ELSE forced
  /\ UNCHANGED <<clock, zfs, ex>>

\* PATCH updates each column with a statement of its own.
PatchEnabled(i) ==
  /\ "disable" \in Env /\ row[i].live
  /\ \E b \in BOOLEAN : row' = [row EXCEPT ![i].enabled = b]
  /\ UNCHANGED <<clock, zfs, ex, forced>>

PatchForce(i) ==
  /\ "force" \in Env /\ row[i].live
  /\ \E b \in BOOLEAN :
       /\ row' = [row EXCEPT ![i].force = b]
       /\ forced' = IF b THEN forced \cup {row[i].def} ELSE forced
  /\ UNCHANGED <<clock, zfs, ex>>

Delete(i) ==
  /\ "delete" \in Env /\ row[i].live
  /\ row' = [row EXCEPT ![i] = NoRow]
  /\ UNCHANGED <<clock, zfs, ex, forced>>

----------------------------------------------------------------------------
(* Launching.                                                              *)

\* The first slot of the schedule strictly after the last run or the creation.
NextRun(base) == (base \div Period + 1) * Period

Due(i) == row[i].live /\ row[i].enabled /\ NextRun(row[i].base) <= clock

Fetch(e, i, tick) ==
  /\ ex[e].pc = "idle"
  /\ ex' = [ex EXCEPT ![e] =
              [NoExec EXCEPT !.pc = "fetched", !.tick = tick, !.id = i,
                             !.def = row[i].def, !.force = row[i].force,
                             !.bookmark = row[i].bookmark]]
  /\ UNCHANGED <<clock, row, zfs, forced>>

RunNow(e, i) == row[i].live /\ Fetch(e, i, FALSE)

\* One goroutine ticks: it handles a job of its list before the next one.
Check(e, i) ==
  /\ Due(i)
  /\ \A o \in Execs : ~(ex[o].tick /\ ex[o].pc = "fetched")
  /\ Fetch(e, i, TRUE)

\* Running: an operation of the registry with the job's target runs.
Running(d) == \E o \in Execs : ex[o].def = d /\ ex[o].op \in {"started", "flowing"}

Admit(e) ==
  /\ ex[e].pc = "fetched"
  /\ ex' = IF Running(ex[e].def) THEN [ex EXCEPT ![e] = NoExec]
           ELSE [ex EXCEPT ![e].pc = "snapshot"]
  /\ UNCHANGED <<clock, row, zfs, forced>>

----------------------------------------------------------------------------
(* One execution: run and postSuccess.                                     *)

Source(e) == SourceOf[ex[e].def]

Fail(e) == ex' = [ex EXCEPT ![e].pc = "finish", ![e].ok = FALSE]
Goto(e, to) == ex' = [ex EXCEPT ![e].pc = to]

\* The snapshot is named by the second: a second one in the same second is
\* refused.  A command that times out may have done its work.
Snapshot(e) ==
  /\ ex[e].pc = "snapshot"
  /\ \/ /\ clock \notin snaps[Source(e)]
        /\ snaps' = [snaps EXCEPT ![Source(e)] = @ \cup {clock}]
        /\ ex' = [ex EXCEPT ![e].pc = "start", ![e].snap = clock]
     \/ /\ clock \in snaps[Source(e)] \/ "snapshot" \in Env
        /\ \/ UNCHANGED snaps
           \/ snaps' = [snaps EXCEPT ![Source(e)] = @ \cup {clock}]
        /\ Fail(e)
  /\ UNCHANGED <<clock, row, mark, dest, flows, forced>>

\* The pipeline becomes an operation; incremental if the row had a bookmark.
Start(e) ==
  /\ ex[e].pc = "start"
  /\ \/ ex' = [ex EXCEPT ![e].pc = "wait", ![e].op = "started",
                         ![e].full = ex[e].bookmark = 0]
     \/ "start" \in Env /\ Fail(e)
  /\ UNCHANGED <<clock, row, zfs, forced>>

\* Fault: any failed incremental is tried again.
RetriesAlways(e) == ex[e].op = "error" /\ ~ex[e].full

\* Only a failed incremental is tried again, in full, and only with force_full.
Retries(e) == ex[e].op = "error" /\ ~ex[e].full /\ ex[e].force

\* Fault: the wait has a deadline, after which the operation counts as failed.
WaitedEnough(e) ==
  /\ ex[e].pc = "wait"
  /\ \/ ex[e].op = "done" /\ Goto(e, "unmark")
     \/ ex[e].op \in {"error", "canceled", "started", "flowing"} /\ ~Retries(e) /\ Fail(e)
     \/ Retries(e) /\ Goto(e, "destroy")
  /\ UNCHANGED <<clock, row, zfs, forced>>

\* Fault: every end of the operation but an error is a success.
WaitedLax(e) ==
  /\ ex[e].pc = "wait"
  /\ \/ ex[e].op \in {"done", "canceled"} /\ Goto(e, "unmark")
     \/ ex[e].op = "error" /\ ~Retries(e) /\ Fail(e)
     \/ Retries(e) /\ Goto(e, "destroy")
  /\ UNCHANGED <<clock, row, zfs, forced>>

Waited(e) ==
  /\ ex[e].pc = "wait"
  /\ \/ ex[e].op = "done" /\ Goto(e, "unmark")
     \/ ex[e].op \in {"error", "canceled"} /\ ~Retries(e) /\ Fail(e)
     \/ Retries(e) /\ Goto(e, "destroy")
  /\ UNCHANGED <<clock, row, zfs, forced>>

Busy(d) == \E f \in flows : f.def = d

\* zfs destroy -r of the destination.
DestroyDest(e) ==
  /\ ex[e].pc = "destroy"
  /\ LET d == ex[e].def
         gone == /\ exists' = [exists EXCEPT ![d] = FALSE]
                 /\ got' = [got EXCEPT ![d] = {}]
                 /\ dirty' = [dirty EXCEPT ![d] = FALSE]
     IN  \/ exists[d] /\ ~Busy(d) /\ gone /\ Goto(e, "restart")
         \/ /\ ~exists[d] \/ Busy(d) \/ "destroy" \in Env
            /\ UNCHANGED dest /\ Fail(e)
         \/ "destroy" \in Env /\ ~Busy(d) /\ gone /\ Fail(e)
  /\ UNCHANGED <<clock, row, snaps, mark, flows, forced>>

Restart(e) ==
  /\ ex[e].pc = "restart"
  /\ \/ ex' = [ex EXCEPT ![e].pc = "rewait", ![e].op = "started", ![e].full = TRUE,
                         ![e].canceledReq = FALSE]
     \/ "start" \in Env /\ Fail(e)
  /\ UNCHANGED <<clock, row, zfs, forced>>

Rewaited(e) ==
  /\ ex[e].pc = "rewait"
  /\ \/ ex[e].op = "done" /\ Goto(e, "unmark")
     \/ ex[e].op \in {"error", "canceled"} /\ Fail(e)
  /\ UNCHANGED <<clock, row, zfs, forced>>

\* zfs destroy of the old bookmark; the error is ignored.
Unmark(e) ==
  /\ ex[e].pc = "unmark"
  /\ Goto(e, "bookmark")
  /\ \/ mark' = [mark EXCEPT ![Source(e)] = 0]
     \/ "bookmark" \in Env /\ UNCHANGED mark
  /\ UNCHANGED <<clock, row, snaps, dest, flows, forced>>

\* zfs bookmark does not overwrite, and needs the snapshot.  It may be reported
\* as failed (a timeout) when it has done its work.
Bookmarkable(e) == mark[Source(e)] = 0 /\ ex[e].snap \in snaps[Source(e)]

\* Fault: the execution carries its snapshot whether the bookmark was made or not.
BookmarkCarried(e) ==
  /\ ex[e].pc = "bookmark"
  /\ \/ /\ Bookmarkable(e)
        /\ mark' = [mark EXCEPT ![Source(e)] = ex[e].snap]
        /\ ex' = [ex EXCEPT ![e].pc = "prune", ![e].bookmark = ex[e].snap]
     \/ /\ ~Bookmarkable(e) \/ "bookmark" \in Env
        /\ UNCHANGED mark
        /\ ex' = [ex EXCEPT ![e].pc = "finish", ![e].ok = FALSE, ![e].bookmark = ex[e].snap]
  /\ UNCHANGED <<clock, row, snaps, dest, flows, forced>>

Bookmark(e) ==
  /\ ex[e].pc = "bookmark"
  /\ \/ /\ Bookmarkable(e)
        /\ mark' = [mark EXCEPT ![Source(e)] = ex[e].snap]
        /\ \/ ex' = [ex EXCEPT ![e].pc = "prune", ![e].bookmark = ex[e].snap]
           \/ "bookmark" \in Env /\ Fail(e)
     \/ /\ ~Bookmarkable(e) \/ "bookmark" \in Env
        /\ UNCHANGED mark
        /\ Fail(e)
  /\ UNCHANGED <<clock, row, snaps, dest, flows, forced>>

Newest2(S) == {s \in S : Cardinality({n \in S : n > s}) < 2}

\* All but the two newest; the snapshot of a running send is busy.
Prunable(s) == {n \in snaps[s] \ Newest2(snaps[s]) :
                  \A f \in flows : ~(SourceOf[f.def] = s /\ f.snap = n)}

Prune(e) ==
  /\ ex[e].pc = "prune"
  /\ \E gone \in IF "prune" \in Env THEN SUBSET Prunable(Source(e)) ELSE {Prunable(Source(e))} :
       snaps' = [snaps EXCEPT ![Source(e)] = @ \ gone]
  /\ ex' = [ex EXCEPT ![e].pc = "finish", ![e].ok = TRUE]
  /\ UNCHANGED <<clock, row, mark, dest, flows, forced>>

\* Fault: the row gets the execution's snapshot whether it succeeded or not.
FinishEarly(e) ==
  /\ ex[e].pc = "finish"
  /\ row' = IF ~row[ex[e].id].live THEN row
            ELSE [row EXCEPT ![ex[e].id].base = clock,
                             ![ex[e].id].bookmark = ex[e].snap]
  /\ ex' = [ex EXCEPT ![e] = NoExec]
  /\ UNCHANGED <<clock, zfs, forced>>

\* Fault: the last run is not recorded when it failed.
FinishUnrecorded(e) ==
  /\ ex[e].pc = "finish"
  /\ row' = IF ~row[ex[e].id].live \/ ~ex[e].ok THEN row
            ELSE [row EXCEPT ![ex[e].id].base = clock,
                             ![ex[e].id].bookmark = ex[e].bookmark]
  /\ ex' = [ex EXCEPT ![e] = NoExec]
  /\ UNCHANGED <<clock, zfs, forced>>

\* MarkRun: UPDATE ... WHERE id, which touches no row if the job is gone.  An
\* error is logged, and the row stays as it was.
Finish(e) ==
  /\ ex[e].pc = "finish"
  /\ \/ row' = IF ~row[ex[e].id].live THEN row
               ELSE [row EXCEPT ![ex[e].id].base = clock,
                                ![ex[e].id].bookmark = ex[e].bookmark,
                                ![ex[e].id].lastOK = IF ex[e].ok THEN "ok" ELSE "fail"]
     \/ "record" \in Env /\ UNCHANGED row
  /\ ex' = [ex EXCEPT ![e] = NoExec]
  /\ UNCHANGED <<clock, zfs, forced>>

----------------------------------------------------------------------------
(* The pipeline 'zfs send | zfs recv -s' (external).                       *)

\* A cancel request decides how an operation ends, see LongOps.
Ended(e, how) == [ex EXCEPT ![e].op = IF ex[e].canceledReq THEN "canceled" ELSE how]

Head(d) == IF got[d] = {} THEN 0 ELSE Max(got[d])

\* Fault: recv -F rolls the destination back to the base of the stream.
FlowsForced(e) ==
  LET d == ex[e].def
      b == mark[Source(e)]
  IN  /\ ex[e].snap \in snaps[Source(e)]
      /\ ~Busy(d)
      /\ IF ex[e].full THEN ~exists[d]
         ELSE b # 0 /\ b < ex[e].snap /\ exists[d] /\ b \in got[d]

\* A full stream needs a new dataset; an incremental one a destination that
\* is as the bookmark's snapshot left it.
Flows(e) ==
  LET d == ex[e].def
      b == mark[Source(e)]
  IN  /\ ex[e].snap \in snaps[Source(e)]
      /\ ~Busy(d)
      /\ IF ex[e].full THEN ~exists[d]
         ELSE b # 0 /\ b < ex[e].snap /\ exists[d] /\ ~dirty[d] /\ Head(d) = b

FlowBegins(e) ==
  /\ ex[e].op = "started"
  /\ \/ /\ Flows(e)
        /\ flows' = flows \cup {[def |-> ex[e].def, snap |-> ex[e].snap, owner |-> e,
                                 base |-> IF ex[e].full THEN 0 ELSE mark[Source(e)]]}
        /\ ex' = [ex EXCEPT ![e].op = "flowing"]
     \/ /\ ~Flows(e) \/ "stream" \in Env
        /\ UNCHANGED flows
        /\ ex' = Ended(e, "error")
  /\ UNCHANGED <<clock, row, snaps, mark, dest, forced>>

OwnerEnds(f, how) ==
  ex' = IF f.owner \in Execs THEN Ended(f.owner, how) ELSE ex

FlowCommits(f) ==
  /\ flows' = flows \ {f}
  /\ exists' = [exists EXCEPT ![f.def] = TRUE]
  /\ got' = [got EXCEPT ![f.def] = @ \cup {f.snap}]
  /\ OwnerEnds(f, "done")
  /\ UNCHANGED <<clock, row, snaps, mark, dirty, forced>>

\* recv -s may leave the partial state on the destination.
FlowBreaks(f) ==
  /\ f.owner = Nobody \/ "stream" \in Env
  /\ flows' = flows \ {f}
  /\ \/ UNCHANGED <<exists, dirty>>
     \/ /\ exists' = [exists EXCEPT ![f.def] = TRUE]
        /\ dirty' = [dirty EXCEPT ![f.def] = TRUE]
  /\ OwnerEnds(f, "error")
  /\ UNCHANGED <<clock, row, snaps, mark, got, forced>>

Orphaned(e) == {[f EXCEPT !.owner = IF @ = e THEN Nobody ELSE @] : f \in flows}

Cancel(e) ==
  /\ "cancel" \in Env
  /\ ex[e].op \in {"started", "flowing"}
  /\ ex' = [ex EXCEPT ![e].canceledReq = TRUE]
  /\ UNCHANGED <<clock, row, zfs, forced>>

\* SIGKILL ends the shell; the send and the recv it started die by themselves
\* (FlowBreaks) or complete (FlowCommits).
Kill(e) ==
  /\ ex[e].canceledReq /\ ex[e].op \in {"started", "flowing"}
  /\ ex' = [ex EXCEPT ![e].op = "canceled"]
  /\ flows' = Orphaned(e)
  /\ UNCHANGED <<clock, row, snaps, mark, dest, forced>>

----------------------------------------------------------------------------
(* The world around.                                                       *)

Tick ==
  /\ clock < MaxClock
  /\ clock' = clock + 1
  /\ UNCHANGED <<row, zfs, ex, forced>>

\* Someone writes to the destination.
Diverge(d) ==
  /\ "diverge" \in Env /\ exists[d]
  /\ dirty' = [dirty EXCEPT ![d] = TRUE]
  /\ UNCHANGED <<clock, row, snaps, mark, exists, got, flows, ex, forced>>

\* The daemon stops and starts: rows and datasets stay.
Crash ==
  /\ "crash" \in Env
  /\ ex' = [e \in Execs |-> NoExec]
  /\ flows' = {[f EXCEPT !.owner = Nobody] : f \in flows}
  /\ UNCHANGED <<clock, row, snaps, mark, dest, forced>>

Launch(e) == \E i \in Ids : RunNow(e, i) \/ Check(e, i)

Run(e) ==
  \/ Admit(e) \/ Snapshot(e) \/ Start(e) \/ Waited(e) \/ DestroyDest(e) \/ Restart(e)
  \/ Rewaited(e) \/ Unmark(e) \/ Bookmark(e) \/ Prune(e) \/ Finish(e)

Pipeline == \/ \E e \in Execs : FlowBegins(e) \/ Cancel(e) \/ Kill(e)
            \/ \E f \in flows : FlowCommits(f) \/ FlowBreaks(f)

Admin == \/ \E d \in Defs : Create(d)
         \/ \E i \in Ids : PatchEnabled(i) \/ PatchForce(i) \/ Delete(i)

Next ==
  \/ \E e \in Execs : Launch(e) \/ Run(e)
  \/ Pipeline
  \/ Admin
  \/ Tick
  \/ \E d \in Defs : Diverge(d)
  \/ Crash

Spec == Init /\ [][Next]_vars

\* Goroutines are scheduled and clocks advance, an operation that was started
\* gets its pipeline, and a row that is written at the end of every run is some
\* time written.  Nothing makes a pipeline end: no code bounds it.
Recorded(e, i) == /\ Finish(e) /\ ex[e].id = i
                  /\ row[i].live => row'[i].base = clock

Fairness ==
  /\ WF_vars(Tick)
  /\ \A e \in Execs :
       /\ WF_vars(Run(e))
       /\ WF_vars(FlowBegins(e))
       /\ \A i \in Ids : SF_vars(Check(e, i)) /\ SF_vars(Recorded(e, i))

LiveSpec == Spec /\ Fairness

----------------------------------------------------------------------------
(* Properties.                                                             *)

\* A destination whose jobs never had force_full is not touched: the data it
\* received stays, whatever fails, overlaps, is canceled or restarts.
DestKept ==
  [][\A d \in Defs \ forced' :
       got[d] \subseteq got'[d] /\ (exists[d] => exists'[d])]_vars

\* An execution moves the bookmark and reports success only for a snapshot its
\* destination received.
OkIsReplicated ==
  \A e \in Execs :
    \/ ex[e].pc \notin {"unmark", "bookmark", "prune"} /\ ~ex[e].ok
    \/ ex[e].snap \in got[ex[e].def]
    \/ ex[e].def \in forced

\* The bookmark a job starts its next incremental from is a snapshot its
\* destination received (jobs are not deleted: their ids are used again).
BookmarkReceived ==
  \A i \in Ids : row[i].live /\ row[i].bookmark # 0 =>
    row[i].bookmark \in got[row[i].def] \/ row[i].def \in forced

\* Executions of a job can overlap, and each moves the bookmark at its end; yet
\* the bookmark only ever moves to the newest snapshot its destination has: no
\* other stream arrives between the end of an execution's and its bookmark.
SettlesNewest ==
  \A e \in Execs : ex[e].pc \in {"unmark", "bookmark"} =>
    ex[e].snap = Head(ex[e].def) \/ ex[e].def \in forced

\* A job whose row names the newest snapshot of its destination can send its next
\* increment: #ezrepl-last names that snapshot too, whatever failed, overlapped,
\* was canceled or restarted before, and also when the row could not be written.
Resumable ==
  \A i \in Ids :
    LET d == row[i].def
    IN  row[i].live /\ row[i].bookmark # 0 /\ row[i].bookmark = Head(d) =>
          mark[SourceOf[d]] = row[i].bookmark \/ d \in forced

\* A job that is due runs, is disabled or is deleted, or a stream flows: one that
\* never ends holds its own job, and the executions this model bounds.
Held == \E e \in Execs : ex[e].op = "flowing"

DueRuns == \A i \in Ids : Due(i) ~> ~Due(i) \/ Held
============================================================================
