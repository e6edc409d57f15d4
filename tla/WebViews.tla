------------------------------ MODULE WebViews ------------------------------
(***************************************************************************)
(* What the page shows and how it keeps up with the host: the hook every   *)
(* list of a view is loaded with (ui/useData.ts), the views' event         *)
(* handlers, the buttons that act at once, the dialogs' refresh(), and,    *)
(* behind the page, the caches that the collectors of the server fill.     *)
(* The data is abstracted to versions: what is shown is as old as it is.   *)
(*                                                                         *)
(* What an event paints in place (a temperature, a percentage) is gone     *)
(* with the next load and does not count as shown.                         *)
(***************************************************************************)
EXTENDS Integers, Sequences, FiniteSets, SequencesExt

CONSTANTS Views,       \* bound: the views of the instance
          Lists,       \* bound: the hooks that are followed
          MaxChanges,  \* bound: changes of the host
          MaxEvents,   \* events that a client's buffer holds (32 in the hub)
          MaxAsked     \* bound: mutations in flight

---------------------------------------------------------------------------
(* The views: what each loads, what it loads again on an event, and its    *)
(* buttons that act without a dialog: what such an act changes by the time *)
(* it is answered ("work": it has only started), and what is loaded again  *)
(* then.  "twice": it must be pressed again within three seconds.          *)

\* Handlers that reload something on some types of event.
On(types, hooks) == [e \in types |-> hooks]
Also(f, g) == [e \in DOMAIN f \cup DOMAIN g |->
                  (IF e \in DOMAIN f THEN f[e] ELSE {}) \cup (IF e \in DOMAIN g THEN g[e] ELSE {})]
Act(changes, reloads) == [changes |-> changes, reloads |-> reloads, twice |-> FALSE]

\* The buttons of a pool's card: scrub, offline/online, autotrim.
PoolCard(onChanged) == Act({"pools"}, onChanged)

Dashboard ==
    [hooks |-> {"overview", "pools", "perf", "disks", "recs"},
     on |-> Also(On({"overview", "alert.new", "pool.status"}, {"overview"}),
            Also(On({"scrub.done"}, {"pools", "overview"}),
                 On({"disk.smart"}, {"disks", "recs"}))),
     acts |-> {PoolCard({"pools", "overview"})}]

\* Import only reports what could be imported.
PoolsView ==
    [hooks |-> {"pools"},
     on |-> On({"scrub.done", "pool.status"}, {"pools"}),
     acts |-> {PoolCard({"pools"}), Act({"work"}, {})}]

Datasets == [hooks |-> {"datasets", "ops"},
             on |-> On({"longop.update"}, {"ops"}),
             acts |-> {}]

\* A self-test; powering a disk off takes two presses.
DisksView == [hooks |-> {"disks", "recs"},
              on |-> On({"disk.smart"}, {"recs"}),
              acts |-> {Act({"work"}, {}), [Act({"work"}, {}) EXCEPT !.twice = TRUE]}]

Snapshots == [hooks |-> {"pools", "snaps"},
              on |-> On({"job.finished", "overview"}, {"snaps"}),
              acts |-> {}]

\* The mutant of Tasks: the end of a job goes unnoticed.
TasksDeaf ==
    [hooks |-> {"jobs", "hist", "sys", "ops", "repl"},
     on |-> Also(On({"longop.update"}, {"ops", "repl"}),
                 On({"replication.finished"}, {"repl", "hist"})),
     acts |-> {Act({"jobs"}, {"jobs"})}]

\* Run a replication, switch one; run a job, switch one; cancel an operation.
\* What is run or cancelled changes later, and an event tells of it.
Tasks ==
    [hooks |-> {"jobs", "hist", "sys", "ops", "repl"},
     on |-> Also(On({"job.finished"}, {"jobs", "hist"}),
            Also(On({"longop.update"}, {"ops", "repl"}),
                 On({"replication.finished"}, {"repl", "hist"}))),
     acts |-> {Act({"work"}, {"repl", "ops"}), Act({"repl"}, {"repl"}),
               Act({"work"}, {"jobs", "hist"}), Act({"jobs"}, {"jobs"}), Act({"work"}, {"ops"})}]

View == [dash |-> Dashboard, pools |-> PoolsView, data |-> Datasets,
         disks |-> DisksView, snaps |-> Snapshots, tasks |-> Tasks]

ASSUME ViewsAssumption ==
    /\ Views \subseteq DOMAIN View
    /\ MaxChanges \in Nat /\ MaxEvents \in Nat /\ MaxAsked \in Nat

Hooks == Lists \cap UNION {View[v].hooks : v \in Views}

\* The event types the page subscribes to; scrub.done is scrub.progress at
\* 100 %, and "paint" stands for the ones that only paint in place.  The hub
\* sends every client the events of all types.
SSE_TYPES == {"pool.status", "scrub.done", "disk.smart", "alert.new", "job.finished",
              "longop.update", "overview", "paint"}
EventTypes == SSE_TYPES \cup {"replication.finished"}

\* The fact behind a hook, and the facts the server answers with out of what
\* its collectors saw last.
FactOf(r) == CASE r = "overview" -> "pools" [] r = "recs" -> "disks" [] OTHER -> r
\* "work" stands for all that no list shows.
Facts == {FactOf(r) : r \in Hooks} \cup {"work"}
Seen(fs) == IF fs \cap Facts = {} THEN {"work"} ELSE fs \cap Facts
Cached == {"pools", "datasets", "snaps", "disks", "perf", "sys"}

\* What the dialogs change.
DialogFacts == {"pools", "datasets", "snaps", "jobs", "repl", "ops"} \cap Facts

\* What the host changes by itself.
HostNews == {"pool.status", "scrub.done", "none"}

---------------------------------------------------------------------------
VARIABLES
    truth,   \* [fact -> version of the host's]
    cache,   \* [cached fact -> version the collector saw]
    news,    \* events the next pass of the collector publishes
    route,   \* the view on the page
    shown,   \* [hook -> version on the page, or Nothing]
    failed,  \* hooks whose last load failed
    loads,   \* loads in flight
    events,  \* events in the client's buffer and on the wire, oldest first
    asked,   \* mutations whose answer has not reached the page
    arm,     \* a button that is pressed twice was pressed once
    told,    \* history: [fact -> version the page was told it made]
    due      \* history: [hook -> version the open view was told of by an event, or Nothing]

server == <<truth, cache, news>>
page == <<route, shown, failed, loads, arm>>
vars == <<truth, cache, news, route, shown, failed, loads, events, asked, arm, told, due>>

Nothing == -1
mounted == View[route].hooks \cap Hooks
Changes == FoldFunction(+, 0, truth)

\* Which events tell which view something about which of its hooks.
Announces ==
    {<<"tasks", "job.finished", "jobs">>, <<"tasks", "job.finished", "hist">>,
     <<"tasks", "longop.update", "ops">>, <<"data", "longop.update", "ops">>,
     <<"pools", "pool.status", "pools">>, <<"pools", "scrub.done", "pools">>,
     <<"dash", "pool.status", "overview">>, <<"dash", "scrub.done", "pools">>,
     <<"dash", "scrub.done", "overview">>}

\* A load of hook r; fresh: no later one has been started by the same hook.
Load(r) == [res |-> r, fresh |-> TRUE, got |-> Nothing]
Fresh(r) == {n \in loads : n.res = r /\ n.fresh}

\* The mutant of Reload: earlier loads stay as good as the new one.
ReloadKeeps(rs) == loads \cup {Load(r) : r \in rs \cap Hooks}

\* The loads after the hooks of set rs have each started another.
Reload(rs) ==
    {[n EXCEPT !.fresh = n.fresh /\ n.res \notin rs] : n \in loads}
    \cup {Load(r) : r \in rs \cap Hooks}

Init ==
    /\ truth = [f \in Facts |-> 0]
    /\ cache = [f \in Facts \cap Cached |-> 0]
    /\ news = {}
    /\ route \in Views
    /\ shown = [r \in Hooks |-> Nothing]
    /\ failed = {}
    /\ loads = {Load(r) : r \in mounted}
    /\ events = <<>>
    /\ asked = {}
    /\ arm = FALSE
    /\ told = [f \in Facts \ {"work"} |-> 0]
    /\ due = [r \in Hooks |-> Nothing]

---------------------------------------------------------------------------
(* The server.                                                             *)

\* Facts fs change.
Bump(fs) ==
    [f \in Facts |-> IF f \in Seen(fs) THEN truth[f] + 1 ELSE truth[f]]

Served(r) == LET f == FactOf(r) IN IF f \in Cached THEN cache[f] ELSE truth[f]

\* Of the events that follow each other, the first that the client's buffer
\* has room for.
Room == MaxEvents - Len(events)
Buffered(es) == IF Len(es) <= Room THEN es ELSE SubSeq(es, 1, Room)

\* The hub sends events, once the change they tell of can be read.  It waits
\* for no client: an event that finds the buffer full is dropped, and the
\* stream goes on.
Publish(es) ==
    /\ events' = events \o Buffered(es)
    /\ due' = [r \in Hooks |->
                 IF \E e \in Range(Buffered(es)) : <<route, e, r>> \in Announces
                 THEN Served(r)' ELSE due[r]]

\* A pool changes, its status among others or not; or a snapshot or a dataset.
HostChange ==
    /\ Changes < MaxChanges
    /\ \E f \in {"pools", "snaps", "datasets"} \cap Facts, e \in HostNews :
          /\ f # "pools" => e = "none"
          /\ truth' = Bump({f})
          /\ news' = news \cup ({e} \ {"none"})
    /\ UNCHANGED <<cache, page, events, asked, told, due>>

\* The collector of pools, datasets and snapshots: it stores what it saw, then
\* tells of a changed status and of a scrub that ended, and of nothing else.
publishChanges(types) ==
    SetToSeq(types) \o (IF types = {} THEN <<>> ELSE <<"overview">>)

collectOnce ==
    /\ cache' = [f \in DOMAIN cache |-> IF f = "disks" THEN cache[f] ELSE truth[f]]
    /\ cache' # cache
    /\ UNCHANGED <<truth, page, asked, told>>
    /\ Publish(publishChanges(news))
    /\ news' = {}

\* The SMART collector: the health of a disk changed.
collectSmart ==
    /\ Changes < MaxChanges
    /\ truth' = Bump({"disks"})
    /\ cache' = [f \in DOMAIN cache |-> IF f = "disks" THEN truth'[f] ELSE cache[f]]
    /\ UNCHANGED <<news, page, asked, told>>
    /\ Publish(<<"disk.smart">>)

\* A job ends: its row and its history are written, then its event.
jobFinished ==
    /\ Changes < MaxChanges
    /\ truth' = Bump({"jobs", "hist"})
    /\ UNCHANGED <<cache, news, page, asked, told>>
    /\ Publish(<<"job.finished">>)

\* So does a replication: its row, its history, then two events.
replicationFinished ==
    /\ Changes < MaxChanges
    /\ truth' = Bump({"repl", "hist"})
    /\ UNCHANGED <<cache, news, page, asked, told>>
    /\ Publish(<<"replication.finished", "job.finished">>)

longopUpdate ==
    /\ Changes < MaxChanges
    /\ truth' = Bump({"ops"})
    /\ UNCHANGED <<cache, news, page, asked, told>>
    /\ Publish(<<"longop.update">>)

alertNew ==
    /\ Changes < MaxChanges
    /\ truth' = Bump({"work"})
    /\ UNCHANGED <<cache, news, page, asked, told>>
    /\ Publish(<<"alert.new">>)

\* A temperature, a percentage: nothing to load.
paint ==
    /\ UNCHANGED <<server, page, asked, told>>
    /\ Publish(<<"paint">>)

---------------------------------------------------------------------------
(* The page.                                                               *)

\* Another view: the hooks of the one that leaves are gone, with their loads.
Navigate ==
    /\ \E v \in Views \ {route} : route' = v
    /\ shown' = [r \in Hooks |-> Nothing]
    /\ failed' = {}
    /\ loads' = {Load(r) : r \in mounted'}
    /\ asked' = {[a EXCEPT !.mine = FALSE] : a \in asked}
    /\ arm' = FALSE
    /\ due' = [r \in Hooks |-> Nothing]
    /\ UNCHANGED <<server, events, told>>

\* The server answers a load.
Read(n) ==
    /\ n.got = Nothing
    /\ loads' = (loads \ {n}) \cup {[n EXCEPT !.got = Served(n.res)]}
    /\ UNCHANGED <<server, route, shown, failed, events, asked, arm, told, due>>

\* The mutant of useData: every answer is taken, also of an earlier load.
useDataAny(n) ==
    /\ n.got # Nothing
    /\ loads' = loads \ {n}
    /\ shown' = [shown EXCEPT ![n.res] = n.got]
    /\ failed' = failed \ {n.res}
    /\ UNCHANGED <<server, route, events, asked, arm, told, due>>

\* The answer reaches the hook, which takes it if it is of its last load.
useData(n) ==
    /\ n.got # Nothing
    /\ loads' = loads \ {n}
    /\ shown' = IF n.fresh THEN [shown EXCEPT ![n.res] = n.got] ELSE shown
    /\ failed' = IF n.fresh THEN failed \ {n.res} ELSE failed
    /\ UNCHANGED <<server, route, events, asked, arm, told, due>>

LoadFails(n) ==
    /\ loads' = loads \ {n}
    /\ failed' = IF n.fresh THEN failed \cup {n.res} ELSE failed
    /\ UNCHANGED <<server, route, shown, events, asked, arm, told, due>>

\* An event reaches the page, and the view if the page subscribes to its type.
emitEvent ==
    /\ events # <<>>
    /\ events' = Tail(events)
    /\ loads' = LET on == View[route].on IN
                IF Head(events) \in SSE_TYPES \cap DOMAIN on
                THEN Reload(on[Head(events)]) ELSE loads
    /\ UNCHANGED <<server, route, shown, failed, asked, arm, told, due>>

\* The stream breaks: what was on its way is lost, and nothing asks for it
\* again when it is back.
StreamBreaks ==
    /\ events # <<>>
    /\ events' = <<>>
    /\ due' = [r \in Hooks |-> Nothing]
    /\ UNCHANGED <<server, page, asked, told>>

\* A button that acts at once, or a dialog's.
Press ==
    \E a \in View[route].acts :
        IF a.twice /\ ~arm
        THEN /\ arm' = TRUE
             /\ UNCHANGED <<server, route, shown, failed, loads, events, asked, told, due>>
        ELSE /\ Cardinality(asked) < MaxAsked
             /\ asked' = asked \cup {[changes |-> Seen(a.changes), reloads |-> a.reloads \cap Hooks,
                                      mine |-> TRUE, dialog |-> FALSE, made |-> Nothing]}
             /\ arm' = FALSE
             /\ UNCHANGED <<server, route, shown, failed, loads, events, told, due>>

Disarm ==
    /\ arm
    /\ arm' = FALSE
    /\ UNCHANGED <<server, route, shown, failed, loads, events, asked, told, due>>

Submit ==
    /\ Cardinality(asked) < MaxAsked
    /\ \E f \in DialogFacts :
          asked' = asked \cup {[changes |-> {f}, reloads |-> {}, mine |-> TRUE,
                                dialog |-> TRUE, made |-> Nothing]}
    /\ UNCHANGED <<server, page, events, told, due>>

\* The server does what is asked.
Serve(a) ==
    /\ a.made = Nothing
    /\ Changes < MaxChanges
    /\ truth' = Bump(a.changes)
    /\ asked' = (asked \ {a}) \cup
                {[a EXCEPT !.made = truth'[CHOOSE f \in a.changes : TRUE]]}
    /\ UNCHANGED <<cache, news, page, events, told, due>>

\* It is refused, or it or its answer is lost: the page says so and loads
\* nothing.
Refused(a) ==
    /\ asked' = asked \ {a}
    /\ UNCHANGED <<server, page, events, told, due>>

\* refresh() of a dialog, also of one that was closed: every hook on the page
\* loads again.  A button's own handler reloads hooks of the view it belongs
\* to, which may be gone.
refresh(a) ==
    /\ a.made # Nothing
    /\ asked' = asked \ {a}
    /\ loads' = IF a.dialog THEN Reload(mounted)
                ELSE IF a.mine THEN Reload(a.reloads) ELSE loads
    /\ told' = [f \in DOMAIN told |->
                IF f \in a.changes /\ (a.dialog \/ a.mine) /\ a.made > told[f]
                                THEN a.made ELSE told[f]]
    /\ UNCHANGED <<server, route, shown, failed, events, arm, due>>

Next ==
    \/ HostChange \/ collectOnce \/ collectSmart \/ jobFinished \/ replicationFinished
    \/ longopUpdate \/ alertNew \/ paint
    \/ Navigate \/ emitEvent \/ StreamBreaks \/ Press \/ Disarm \/ Submit
    \/ \E n \in loads : Read(n) \/ useData(n) \/ LoadFails(n)
    \/ \E a \in asked : Serve(a) \/ Refused(a) \/ refresh(a)

Spec == Init /\ [][Next]_vars

\* The collector's timer goes on; the network delivers or fails; the page's
\* callbacks run.
Fairness ==
    /\ WF_vars(collectOnce)
    /\ WF_vars(emitEvent)
    /\ WF_vars(\E n \in loads : Read(n))
    /\ WF_vars(\E n \in loads : useData(n) \/ LoadFails(n))

LiveSpec == Spec /\ Fairness

---------------------------------------------------------------------------
\* Types, and that every hook of the open view has at most one load whose
\* answer it will take, and one until it shows something or fails.
TypeOK ==
    /\ truth \in [Facts -> Nat]
    /\ \A f \in DOMAIN cache : cache[f] \in 0..truth[f]
    /\ news \subseteq HostNews
    /\ \A r \in Hooks : shown[r] \in {Nothing} \cup 0..truth[FactOf(r)]
    /\ \A n \in loads : n.res \in mounted
    /\ \A r \in mounted : Cardinality(Fresh(r)) <= 1
    /\ \A r \in mounted : Fresh(r) = {} => shown[r] # Nothing \/ r \in failed
    /\ Range(events) \subseteq EventTypes /\ Len(events) <= MaxEvents

\* The page reads its own writes: once a dialog, or a button of the open view,
\* was told that it made a change, no list read from the database or the
\* registry comes to rest without that change, whatever other loads of the
\* same list were on their way.
ReadYourWrites ==
    \A r \in mounted :
        FactOf(r) \notin Cached /\ Fresh(r) = {} /\ r \notin failed
            => shown[r] >= told[FactOf(r)]

\* What an event told the open view is on the page in the end: unless the view
\* is left, the stream breaks or the load fails, the list shows it.  An event
\* that the hub dropped for a slow client told it nothing: that change waits
\* for the next event, the next mutation or the next visit of the view.
Behind(r) == shown[r] < due[r] /\ r \notin failed

EventShown == []<>(\A r \in Hooks : ~Behind(r))
=============================================================================
