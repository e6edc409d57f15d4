---------------------------- MODULE MCScheduler ----------------------------
(* A dataset and one below it, jobs over them; months of 30 days.          *)
EXTENDS Scheduler

CONSTANTS tank, vm, req

MCFlat == [d \in {tank} |-> {tank}]
MCTree == [d \in {tank, vm} |-> IF d = tank THEN {tank, vm} ELSE {vm}]
MCFirstOf == [k \in 0..2 |-> 30 * k]

At1(kind) == [kind |-> kind, hour |-> 1, minute |-> 0, weekday |-> 1, monthday |-> 2]

Hourly  == [kind |-> "snapshot", target |-> tank, schedule |-> At1("hourly"),
            retention |-> 1, threshold |-> 0]
Daily   == [kind |-> "snapshot", target |-> vm, schedule |-> At1("daily"),
            retention |-> 0, threshold |-> 1]
Weekly  == [kind |-> "command", target |-> tank, schedule |-> At1("weekly"),
            retention |-> 0, threshold |-> 1]

MCFlatJobs == {Hourly, Weekly}
MCTwoJobs == {Hourly, [Daily EXCEPT !.schedule = At1("weekly")]}

\* Sunday 00:59:50 and 01:00, the slot of all jobs, and a day later, 01:00:10.
MCTimes == {3590, 3600, 90010}
MCTwoTimes == {3600, 90010}
============================================================================
