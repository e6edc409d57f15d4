----------------------------- MODULE MCDialogs -----------------------------
(* Two pools, a dataset below one of them, a pool with a faulted disk, and  *)
(* of the disks of no pool one that is too small to replace it and one that *)
(* a host mount uses.                                                       *)
EXTENDS Dialogs, TLC

CONSTANTS tank, bulk, docs, sda, sdb, sdc, sdd, sde, snapA, daily1, maria,
          job1, repl1, cron1, cron2, unit1, unit2

MCPools == <<tank, bulk>>
MCDatasets == <<docs, tank, bulk>>
MCDisks == <<sda, sdb, sdc, sdd, sde>>
MCHome == sda :> tank @@ sdb :> tank @@ sdc :> None @@ sdd :> None @@ sde :> None
MCSize == sda :> 2 @@ sdb :> 2 @@ sdc :> 1 @@ sdd :> 2 @@ sde :> 2
MCDatasetOf == snapA :> docs
MCShortName == snapA :> daily1
MCTargetOf == job1 :> docs
MCSourceDs == repl1 :> docs
\* A weekly job, a monthly replication, a cron line for day 7, one with a
\* step, a calendar with seconds and one the editor cannot show.
MCSchedules ==
    job1 :> Text("job", 2, Star, 3, 0)
    @@ repl1 :> Text("job", Star, 28, 2, 30)
    @@ cron1 :> Text("cron", 7, Star, 4, 5)
    @@ cron2 :> Text("cron", Star, Star, Star, Odd)
    @@ unit1 :> [Text("systemd", Star, Star, Star, 15) EXCEPT !.sec = 30]
    @@ unit2 :> Text("systemd", 1, 31, 0, 0)
\* A minute out of range, and a weekly schedule without its time of day.
MCEdits == {[SYS_SCHED_DEFAULT EXCEPT !.freq = "hourly", !.minute = 75],
            [SYS_SCHED_DEFAULT EXCEPT !.freq = "weekly", !.weekday = 6, !.time = NoTime]}
\* Any dialog, after a short one whose answer may still be on its way.
MCForms == <<{"lockds"},
    {"newsnap", "newpool", "newds", "editds", "delds", "rewrite", "unlockds",
    "lockds", "changekey", "expand", "newtask", "sched", "newrepl", "editrepl",
    "export", "addvdev", "replace", "detach", "history", "checkpoint", "syssched",
    "sysmigrate", "newuser", "passwd", "deluser", "rollback", "delsnap", "browseFiles",
    "profile", "password", "runbackup", "import", "mount", "unmount", "protect"}>>
=============================================================================
