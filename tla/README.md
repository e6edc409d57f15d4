# EasyZFS in TLA+

EasyZFS is a daemon written in Go that administers ZFS on one machine, with a
web client. It runs `zfs`, `zpool` and other commands, keeps a SQLite database
(users, jobs, alerts, history), does scheduled work in goroutines of its own
and tells the web client what happens over an event stream. This directory holds
models of its parts in TLA+, the model-checking configurations that TLC runs
on small instances, and proofs that TLAPS checks for every value of the
constants.

Paths below are those of the repository; `internal/` is the daemon.

## 1. Inventory

What each part keeps, does, and has to get right. The column of modules says
where it is modelled; a dash means it is not yet, and section 2 says what is
planned.

| part | state | operations | modules |
|---|---|---|---|
| long operations (`internal/longops`, the rewrite handler, `internal/executil`) | registry of detached processes, in memory | Start, watch, Get, List, Cancel, RunningFor | LongOps, LongOpLifecycle |
| replication (`internal/replication`, its handlers) | table `replication_jobs`; snapshots, the bookmark `#ezrepl-last` and the destination, in ZFS | tick, POST /run, run, postSuccess, prune, destroyDest, MarkRun, CRUD | Replication |
| scheduled jobs (`internal/scheduler`, its handlers, SnapshotCreate and SnapshotPrune of `internal/actions`) | table `jobs`; automatic snapshots | Next, tick, POST /run, threshold, execute, prune, MarkRun, CRUD | Schedule, Scheduler |
| alerts (`internal/alerts`) | table `alerts` | RaiseKind with deduplication, Ack, webhook | Notifications |
| push (`internal/push`) | subscriptions, preferences, queue of quiet hours | Notify, drainQueue, sendTo with retries | Notifications |
| hub (`internal/hub`) | subscribers with a buffer of 32 events | Subscribe, Publish (drops when full), UserActive, Close | Notifications (who has a stream open) |
| events of ZFS (`internal/collectors/events.go`) | `zpool events` process | Run, dispatch | - |
| accounts (`internal/users`, `internal/auth`, `internal/settings`) | tables `users`, `sessions`, `settings`; login limiter | login, passwords, deletion, sessions | - |
| backups (`internal/backup`, `backup_handlers.go`) | directory of copies, the database file and its two neighbours of an import | Run, purge, RunLoop, import, start and end of the daemon | Backup |
| database (`internal/db`) | schema version, history tables | Migrate, Purge* | - |
| collectors (`internal/collectors`) | caches of pools, disks, sensors, performance | refresh loops | - |
| pool and dataset actions (`internal/actions`, `httpapi/pools.go` ...) | none of its own | one command per request, guarded by the caches | - |
| Veeam explorer (`internal/veeam`, `httpapi/veeam.go`) | cache of backup chains; clones mounted and shared | Scan, BuildChains, mountClone, unmountClone | - |
| recommendations (`internal/recs`) | none | a list of conditions over the caches | - |
| HTTP server, configuration, start (`main.go`, `httpapi.go`, `config`) | none | routing, formats | - |
| web: dialogs and cards (`components/Modals.tsx`, `ui/syssched.ts`, cards of `Settings.tsx` and `VeeamExplorer.tsx`) | the one open dialog, its lists and choices | open, load, choose, send, answer, close | WebSchedules, WebForms, Dialogs |
| web: views and data (`ui/useData.ts`, `views/*`, `PoolCard.tsx`) | one list for each hook, loads on their way | load, reload on an event, buttons, refresh after a dialog | WebViews |
| web: session and stream (`ui/store.tsx`, `data/events.ts`, `data/http.ts`, `data/index.ts`) | who is logged in, the event stream and its retry | start, login, logout, demo, 401, probe, retry | WebSession |
| demo data, push client of the browser, texts, theme, installer | language, theme, the demo's data | rendering, texts | - |

### How the parts interact

* One process, many goroutines: one for each HTTP request, one for each
  loop (scheduler, replication, collectors, push queue, backups), one for each
  execution started by POST /run, and two for each long operation. They share
  the database, caches behind mutexes, the registry of long operations,
  and the file systems they all administer.
* SQLite has one connection (`SetMaxOpenConns(1)`): one statement is atomic,
  and two statements of one handler are not. Nothing uses transactions besides
  the migrations, so every read-then-write of the code can interleave.
* ZFS is the shared state nobody locks: a scheduled prune, a replication, the
  user and the replication target all change it with commands of their own.
* Replication uses long operations for its pipeline and polls the registry
  until the operation ends. The rewrite handler only starts them.
* Everything tells the client through the hub, and the user through alerts, which
  go to the webhook and to push.
* The client asks through one provider (`data/http.ts`), which turns a 401 into
  the end of the session. It hears events on one stream, and each view decides on which
  of them it loads its lists again. A dialog that was answered asks every list of the
  view to load again (`refresh`).
* A collector answers a list with what it saw last, not with what is there; tables
  of the database are read when asked.
* An import of a database ends the daemon, which its service manager starts again;
  goroutines, registry and sessions of the old database are gone.

### What is hard

* *Guards that are not held*: `Running` of replication, `RunningFor` of rewrite,
  "last admin", the pool caches: each is read, and the action comes later.
* *Copies of rows*: the scheduler's loop and every execution work on the row as
  it was when they read it, while it is patched, deleted, or its id reused.
* *Commands that half fail*: a timeout may have done its work; a multi-step
  change (bookmark destroy and create, destroy and resend, clone and share)
  stops in the middle because of a failure or a stop of the daemon.
* *Retention*: it destroys data. What it removes depends on time, names, the
  set of jobs and the width of integers.
* *Answers nobody orders*: in the page every request is a promise, and its answer
  meets whatever dialog, view, list or session there is by then.
* *Ends nobody orders*: process exit, cancel, the scanner of the output and
  the watcher race; a stream has no timeout.

### What makes each part correct

* long operations: the registry never loses what runs; an operation ends once, the
  accepted cancel decides how; clients hear start before end; a cancel ends it, where the
  kernel lets the daemon kill it; the end is told.
* replication: success is claimed only for what arrived; the destination loses
  nothing unless its owner allowed it; the bookmark moves to the newest snapshot of the destination
  only, and a row that names it can go on from it; the common base is never pruned.
* scheduled jobs: the next run is the first slot, no slot of which a run was recorded runs again, a due job
  runs; retention removes only what is old enough, and never the last one; an ok
  run means there is a snapshot and nothing expired.
* alerts and push: one active alert for a source and kind; a critical one reaches every
  device; a queued one is sent once.
* accounts: an admin remains; a changed password ends other sessions.
* backups: a stop at any step of an import leaves a database with its data, and only a verified
  file becomes the database, as long as imports do not meet; a due backup is begun.
* dialogs: one press has one effect; what is sent is what the user left in the dialog,
  and the server takes it, but for a list of requests that it never does.
* views: a list that came to rest shows what the page itself has changed and what it was told of.
* session: a page that is logged in has its stream, a dead one leads back to the login.
* pools: a replace or expand applies to a disk that is (not) a member now.
* Veeam: a chain has a gap exactly if an increment is missing; an unmounted clone
  is gone.

`PROJECT.json` lists the hazards one by one, each with its line and the
properties that would catch it.

## 2. Plan

In order, the most important first; the modules marked * are written.

1. *LongOpLifecycle, LongOps*: the registry everything long depends on, with
   an abstract life cycle it is shown to implement.
2. *Replication*: the part that moves and destroys data.
3. *Schedule, Scheduler*: the arithmetic of schedules as operators checked
   against a reference definition, and the jobs over it with retention.
4. *Notifications*: alerts, their deduplication, push at once and through the
   queue of quiet hours. The ZFS events as their source and the buffers of the
   hub are still to come.
5. *Backup*: the copies, and the import with every way it can fail or be cut short.
6. *WebSchedules, WebForms, Dialogs*: the dialogs as functions from lists and
   choices to requests, what the server demands of these, and the life of a dialog.
7. *WebViews*: the loading of lists against changes, events and caches.
8. *WebSession*: login, expiry and the stream.
9. Accounts: users, sessions and the login limiter, then under Backup, whose
   import replaces the tables they live in, and beside WebSession.
10. Pools: the caches of the collectors, their refresh, and the handlers that
    use them as guards. WebViews has a collector reduced to versions.
11. Veeam: chains and gaps as a pure function against a reference, clone mounts
    as a multi-step change.

Composition: Replication stands on the promise of LongOpLifecycle (an
operation ends once, and Get never loses it), and has its own reduced form of an
operation (`ex[e].op`) for it. A later module should put LongOps itself under
Replication. Scheduler extends Schedule, Dialogs extends WebForms, which extends
WebSchedules.

Theorems still worth having: that the pass over the queue of notifications is always under way
(the safety half of `QueueDrains`); the pure parts of Veeam, once they are modelled.

## 3. Modules and code

Every definition that stands for code has its lines in `PROJECT.json` under
`map`. Definitions whose comment begins with "Fault:" are not part of the
specification: each is a plausible bug in the definition next to it, used to see
that the property it is paired with (under `mutants`) notices it.

### LongOps, LongOpLifecycle

`pc[c]` is where the request `c` is: in `rewriteDataset` and `Manager.Start`
(`checked`, `spawned`, `registered`), in the `watch` goroutine (`watching`,
`reaped`, `closed`) or beyond. One action is one critical section of
`Manager.mu`, or one blocking call made outside it. `registry`, `status`,
`canceledReq`, `lines` are the manager's map and the fields of `Op`; `proc`,
`emitted` and `read` are the process, its output and what the scanner took from
the pipe. `Sudo` says that the daemon is not root: its processes are then those of `sudo`, owned by root, and the
kernel may refuse the kill of a cancel (`refused`), so that only the process itself ends the operation. `pub` is the sequence of statuses handed to the hub. `Restart` is the
daemon dying and coming back with an empty registry, while processes may go on.

LongOpLifecycle has three variables: what was begun, what the registry says, and
what was told. LongOps implements it under the mapping
`state <- status, told <- pub, begun <- {c : pc[c] is past Register}`.

### Replication

`row` is the table, `snaps`, `mark` and the destination variables are ZFS,
`ex[e]` is one execution: its program counter, the row it read, its snapshot, and
its operation in the registry. Program counters follow `Runner.run` and
`postSuccess`: `fetched` (before the `Running` test), `snapshot`, `start`, `wait`,
`destroy` and `restart` and `rewait` (the retry of `force_full`), `unmark`,
`bookmark` (destroy and create of `#ezrepl-last`), `prune`, `finish` (MarkRun).
The pipeline is a member of `flows` from its first to its last byte; killing
the shell leaves the flow without an owner, and it then breaks or commits by
itself. Snapshots are named by the second they were taken at, as in the code.
An UPDATE that fails at `finish` is only logged, and the row stays as it was. Executions overlap as the code lets them.
`Env` says which faults may occur, so that a run can ask what holds without some
of them.

### Schedule, Scheduler

Schedule has the four forms of a schedule and `NextRun` over instants in
seconds, with a calendar of months as a constant; `IsSlot` and `FirstSlot` are
the reference definition. Scheduler has `row` (table `jobs`), `snaps`, the
loop's copy of the due jobs (`list`, `left`) and the executions `ex` of the loop and
of POST /run. Sizes are units of `written` data: a snapshot holds `upto` units.
`promised`, `taken` and `served` (the last run that an UPDATE recorded) are history variables, used by properties only. MarkRun's
UPDATE may fail ("record"): it is only logged, and the row stays due.
`DurationLimit` is the limit of a `time.Duration` in seconds, beyond which the
product of days and hours wraps around.

### Notifications

`rows` is the table of alerts; `raise[k]` is `RaiseKind` of the one collector
that raises the source and kind `k`, one step for each statement (query,
refresh or insertion, start of the goroutine). `note[n]` is the goroutine `Notify` of
alert `n`, `drain` that of `RunQueue`, and `out[s]` what `sendTo` does for one
of them: one action is one attempt. `queue` is `notification_queue`, `subs`
is `push_subscriptions`. `off` and `window` are the settings of each user, and
`open` says who has an event stream, all that the hub is asked. `hour` is the
local hour, and any number of ticks fall into one. `got` is history: what arrived at the
devices since the daemon started. `Env` has what may happen around the code:
failing queries, answers of the push service, what users do, and a pass
over the queue that takes longer than an hour.

### Backup

`main`, `pre` and `tmp` are the contents of `app.db`, `app.db.pre-import` and
`app.db.import`; `files` is the directory of copies. They survive the end of the daemon
(`Stop`, and the exit an import ends with), the goroutines do not. `run[w]` is `Store.Run`
of a request or of `RunLoop`: `running` is read in one step and set in the next, as the code does without a
lock; `VACUUM INTO` holds the one connection (`conn`) for a while; the purge has its list of
names and removes one after the other. `imp[i]` is `backupImport` with the goroutine it
starts: truncate and copy, verify, close the database, remove the old saved file, two
renames, exit. Imports overlap as they please, over the one `app.db.import`. `served` is history: the database that the daemon
opened last; so are `overwritten` and `crossed`, which say that since the daemon began an upload wrote a file that
another import had verified, or that two imports were accepted at once.

### WebSchedules, WebForms, Dialogs

WebSchedules has the editor of schedules of `ui/syssched.ts` and the two functions of
`Modals.tsx` that do the same for jobs: from a text to the state of the editor and back.
Texts are records with one field for each part, and `SameTimes` compares the minutes two
texts run at.

WebForms has one operator for each dialog: given the lists that arrived, the
choice, and what was typed, the set of requests its button can send (empty while the
button is disabled). `Loads` and `Settle` are the lists it waits for and the effects that fill in
defaults when one arrives; `Opens` is which view opens it with what. `Accepts`
is the server's side: the role, the confirmation it demands, the length of a
password, the forms of a schedule and of a retention, a disk that is free and large enough, a text in a form it takes. What is typed freely is
`fit` or `unfit`. Numbers are within the range of their inputs, which the browser checks; the time of day may be empty. The names that lists
give are taken to be in the form the server asks of names. Cards are what a view has open all the time and sends and waits like a dialog:
profile and password, copy and import of the database, share of a snapshot, protection of a machine.

Dialogs is their life: `dialog` is the one on the page, `sent` the requests whose
answer has not come, each with the opening that sent it. An answer that says yes closes
the dialog that is then on the page, as the code's `close()` does; a card's closes only itself,
and after an import the page starts anew. `meant` and `tally` are history.

### WebViews

`View` is a table: which hooks a view has, what its event handler loads again,
what its buttons do. `truth[f]` is the version of a fact on the host, `cache[f]` what the
collector saw of it, `shown[r]` what a list shows. A load is asked, read by the server, and
answered; it carries the sequence number's meaning, whether it is still the newest of its list (`Fresh`).
`events` is what is in the client's buffer in the hub or on its way on the stream: `Publish` waits for nobody, and
an event that finds the buffer full is dropped, while the stream goes on. `told` and `due` are history: what the page was
told it changed, and what an event that was not dropped told it of.

### WebSession

`page` is the state of `AppProvider`, `sse` the variables of `data/events.ts`, `req`
the requests on their way with the cookie each was sent with, `cookie` what the browser
holds and `live` what the server knows. `Deliver` is the answer and all
that follows from it: a 401 of any request but login and logout expires the
session, three failed probes of the stream do too. The server answers 401 also when it cannot read its database. `saveProfile` and
`reloadUser` are the profile of the settings, which asks for the user again and shows whoever the answer names; `page.late` is history: it was
such an answer, or the one a page starts with, that logged the page in, when the stream had been stopped.

## 4. Runs

| run | instance | checks |
|---|---|---|
| LongOps | two requests on one dataset, ring of one line, two lines of output, one restart, kills that are refused | types, `CancelDecides`, `ToldInOrder`, `RingIsTail`; liveness `CancelEnds`; refinement `ImplementsLifecycle` |
| Replication | one row id, two overlapping executions, clock 1..3, failing streams, bookmarks, destroys and UPDATEs, cancels, crashes, `force_full` switched, deletion and reuse of the id | types, `OkIsReplicated`, `SettlesNewest`, `Resumable`, `DestKept` |
| Replication_live | one execution at a time, clock 1..5, failing commands, streams and UPDATEs, a destination written to, job switched off and on | `BookmarkReceived`; liveness `DueRuns` |
| Scheduler | one dataset, loop and POST /run, two instants a day apart, every fault but a failing measurement, deletion and reuse of the id | types, `PruneWithinRetention`, `LastStays`, `OncePerSlot` |
| Scheduler_loop | a dataset and its child, two jobs, writes, failing measurements and UPDATEs, changed schedules, three instants | `NextIsFirst`, `OkIsCovered`, `OkIsPruned`; liveness `DueRuns` |
| Notifications | one problem, two alerts, one user with one device, two tries, all failing queries and answers but a failed clear, acknowledgements, quiet hours on and off, crashes | types, `OneActive`, `SentOnce` |
| Notifications_live | one alert under every setting, failing queries and sendings, no crash | liveness `CritReaches`, `QueueDrains` |
| Backup | a request and the loop, two imports that overlap as they please, every failure, one stop of the daemon besides those of imports | types, `DataKept`, `MainWhole`; liveness `DueRuns` |
| Dialogs | a short dialog and then any of the twenty-eight or of seven cards, two requests from each, late lists, late and lost answers | types, `SentOnce`, `SentIsAccepted`, `SentAsMeant` |
| WebViews | five views, a list kept by a collector and one read from the database, two changes, a buffer of two events, one mutation in flight | types, `ReadYourWrites`; liveness `EventShown` |
| WebSession | two logins, two requests in flight, one stream lost track of, a failing database | types, `StreamKept`; liveness `ExpiredEnds` |
| WebSession_wrong | one login, two requests | finds a disagreement (section 7) |

### Bounds, and why they are enough

* LongOps: two requests show every race between handlers; one line of ring and
  two of output make the ring overflow; one restart separates the before from the
  after. The proofs have no bound.
* Replication: two executions are what the broken guard allows at each point,
  and a third adds no new pair. Three seconds with a period of two hold one slot of
  the schedule and a run by hand before or after it; five seconds hold two slots
  and a failure between them, enough for a base, an increment, a failure,
  and an increment again. One destination: destinations of different definitions
  only meet in the source, and section 6 says what two jobs of one source do.
* Scheduler: the instants are those at which something changes: ten seconds
  before the slot, the slot, and a day and ten seconds later, when a retention of one day has
  expired the first snapshot and the next slot is an hour away. Retentions are none or one
  day, the threshold one unit, at most one unit is written.
* `DurationLimit`: TLC has integers of 32 bits, so the limit is scaled: 200000 s
  leaves a day's retention within it, as every retention under 293 years is in the code. The theorems have the hypothesis `NoOverflow`, the
  code's own limit.
* `MCFirstOf` has months of 30 days; the theorem about `NextRun` has every calendar
  whose months have 28 days or more.
* Notifications: two alerts are what it takes for one to be raised while another is
  active, queued or being sent; a device is sent to on its own, so one shows every race
  between `Notify` and the queue. A day has two hours, and the one window a user chooses
  crosses midnight: each hour begins or ends it. Two attempts
  are the first and the last of the three in the code. The theorems have no bound.
* Backup: of two callers one reads `running` before the other sets it, and a third
  adds nothing. Two imports one after the other are what shows that the second removes
  the saved file of the first. One instant after the first, a frequency and a
  retention of one, make a backup due, made and expired; defaults of zero keep it less long. The names of
  copies are instants, so two runs within one have the same name, as in the code. The two imports also overlap
  at every step of theirs.
* Dialogs: the first dialog is one that any user may open and that sends after one
  typed name; it is there to leave an answer on its way when the second opens. Two requests from an opening are a
  request and its retry. Of each kind of thing (pool, disk, dataset, ...) there are as many
  as the dialogs tell apart: a pool of mirrors and one of raidz, a disk that is faulted,
  free, too small, in use, or already a member. The schedules to edit are those with something the
  editor treats in its own way.
* WebViews: two changes make an older and a newer answer; a buffer of two events lets one pass while another
  is dropped. `MaxEvents` is that buffer's size, 32 in the hub: it bounds the model because it bounds the code. Every type of event takes room,
  also those that only paint. The lists are one of each kind, `pools` by a collector and `jobs` from the
  database; five views are those with one of them, so that leaving, entering and keeping
  a list all happen.
* WebSession: the first session may be one the server has forgotten, and the second the one
  after it. Two requests are what meets: a probe and a login, a late 401 and a
  logout. One lost stream is enough for its effects on the one there is.
* Symmetry is used only in Replication, between the two executions, where no
  liveness is checked.

Deadlock is checked in LongOps, which never stops: List is always enabled. In the others the clock
or the number of alerts is bounded, so the models stop at its end and the configurations say so.

### Fairness

* LongOps: the goroutines of an accepted call take their steps, and a kill
  that was requested is sent (`exec.CommandContext`); whether the kernel refuses it is left open. Nothing obliges a
  process to end, to write, or a scanner to keep up.
* Replication (`LiveSpec`): executions take their steps, since each zfs command has a timeout
  (`executil`), and the tick reaches a job that is due again and again: strong fairness of `Check`, for a job
  switched off and on is due on and off. The UPDATE of a row
  that is written at the end of every run succeeds some time (strong fairness of `Recorded`). Nothing obliges a
  pipeline to end, for nothing in the code limits it: `DueRuns` excuses a stream that flows.
* Scheduler (`LiveSpec`): the loop's ticks and its launches, and the steps of
  executions, each of which is a command with a timeout; an UPDATE repeated at every tick succeeds at last.
* Notifications (`LiveSpec`): the goroutines take their steps, since each attempt has
  a timeout; a query repeated at every pass succeeds at last (strong fairness of the successful `DrainRead`,
  `DrainSubs` and `ClearQueue`): SQLite's errors here are a busy or full disk, which someone
  ends. Every hour has ticks (a ticker of a minute), and a pass takes less than an hour, as
  it does with three attempts of fifteen seconds and few devices.

* Backup (`LiveSpec`): goroutines take their steps, the loop looks every minute, the service manager starts the daemon
  again, and `VACUUM INTO` does not fail for ever (strong fairness of its success): what makes it fail, a full disk, is
  someone's to end.
* WebViews (`LiveSpec`): the collector's ticker goes on, loads are read and answered or
  fail, and an event on the stream arrives or the stream breaks.
* WebSession (`LiveSpec`): the browser runs callbacks and timers; a stream that is opening fails if it does
  not open; an answer that is there is delivered. Of requests repeated again
  and again some are served and their answers come back (strong fairness), which is
  what a network that is not down for ever does. What the server answers is left open: a database that fails makes it 401. Nothing obliges users, the server's sessions, or a stream to open.

## 5. Proofs

Each `X_proofs` module extends `X`. All theorems hold for every value of the
constants that satisfies the assumption named in the module, and the hypotheses
named below.

* **LongOps_proofs**. `IInv` ties the program counter of each call to the
  registry, the status, the cancel mark, the process and what was
  published (`Phase`, `Marks`): none of the properties is inductive alone, for
  a final status says nothing about what was published before. From it: `RunningIsListed`,
  `CancelDecidesAlways`, `ToldInOrderAlways`, `FinalStaysAlways`, and `Refinement`, that LongOps
  implements LongOpLifecycle. `RingIsTailAlways` is an induction over steps with a lemma on
  cutting a sequence of consecutive numbers. `Attached` ties the status to the process: a final
  status comes only after the process ended, and is "done" only if it exited with 0
  (`EndIsExitAlways`); and a cancel that was accepted has a process to kill, one whose kill was refused, or one that ended, and a goroutine that will
  say so (`CancelIsFollowed`, the safety half of `CancelEnds`).
* **Replication_proofs**. `IInv` says: who may destroy (`RowAllowed`, `Allowed`: a
  force flag in a row or in an execution means its definition is in `forced`); who owns
  a flow (`Awaited`, `Owned`, `OneFlow`: an operation that flows has exactly one flow,
  with the execution's snapshot and destination); what an operation that is done
  means (`Done`, `Fresh`: its snapshot arrived, unless someone with force destroyed
  it). From it: `OkIsReplicatedAlways`, `DestKeptAlways`. `Attended` adds that what an execution waits for is in the
  registry and flows, hence `NothingIsAbandoned`, the safety half of `DueRuns`. `OperationEndsOnce`
  is what joins this module to LongOpLifecycle: seen from an execution, the operation it waits for begins once, ends once and as
  its cancel decided, and is forgotten only when the execution is over or the daemon stops.
  `BookmarkReceivedAlways` has the hypothesis that rows are not deleted, since SQLite gives the id of the last row
  to the next one.

  Its second half is about the base of the next increment, with every overlap, restart, cancel and failure. `NInv` says that one
  stream at a time reaches a destination (`OneStream`, the server refuses a second receive), that what flows is newer than
  all that arrived (`Streams`, `Peaked`), so that what has just arrived is the newest (`Heads`), and that no two executions
  of a source have one snapshot (`Apart`). Hence `SettlesNewestAlways`, with no hypothesis. `ResumableAlways` has two: rows are not
  deleted, and a source has one destination (two jobs of one source share `#ezrepl-last`). Whoever carries the newest snapshot of
  a destination as its bookmark agrees with `#ezrepl-last` (`RowAgrees`, `ExAgrees`): an execution that moves
  it has a snapshot nobody else carries. A row that does not name the newest, because an older one was written over it or an
  UPDATE failed, is what the property leaves out and section 6 describes.
* **Scheduler_proofs**, first about the operators of Schedule. `NextRunIsFirst`: for every schedule, calendar and instant the
  calendar reaches, `NextRun` is the first slot after the instant, with no bound on
  the candidates. One lemma for each form; the arithmetic of days, hours and weekdays is
  in lemmas on division, since the provers do not divide by themselves. Then the jobs.
  `PruneWithinRetentionAlways` and `LastStaysAlways` (hypothesis
  `NoOverflow`): an execution about to prune has a cutoff that its job's
  retention justifies, and a promise on record (`Told`, `Cut`), and each dataset of its
  tree has an automatic snapshot younger than the cutoff (`Younger`), since the prune only follows
  a snapshot that was taken. `OkIsCoveredAlways`: what a snapshot holds is in `taken`
  (`Held`) and an execution past its snapshot is covered by it (`Vouched`). `OkIsPrunedAlways`
  (no refused destroys, `NoOverflow`). `NextIsFirstAlways` and `OncePerSlotAlways` (the calendar covers the instants; no other
  hypothesis): what the loop's list tells it to run has a slot after the last run recorded of it, and the base of a
  row is no earlier than that run (`Slots`), also across deletions, restarts and UPDATEs that fail. `RecordedIsNotDue`, the
  safety half of `DueRuns`: once a run is recorded its job is not due, whatever was patched meanwhile.

* **Notifications_proofs**. `OneActiveAlways` (hypothesis: the query for an active alert does not
  fail) needs that nothing became active between that query and the
  insertion (`Absent`), which is so because each problem has one collector. `SentOnceAlways`
  (hypothesis: the queue can be cleared) has the invariant `Once`: where an alert is for
  each user (still listed, decided, queued, read by the pass, being sent) excludes the other
  places (`Fresh`, `Pending`, `InQueue`, `Passing`), and a device is sent to for one user only
  (`Owned`). It holds across crashes, for `got` counts one life of the daemon. `CritIsAlwaysSent`, the
  safety half of `CritReaches`, has no hypothesis: a list is there only while Notify works through it
  (`Listed`), which needs that an alert is announced once (`Unseen`), and what is listed of a critical alert is taken off by a
  sending only.

* **Backup_proofs**. `DataKeptAlways` and `MainWholeAlways`, with no hypothesis: imports overlap. The
  database is in one of two files, and in which depends on the step of the import that is under way: `Saved` and
  `InMain` say where, `Verified` that what an accepted import is about to install is whole, and
  `Alone` that one at most is about to install. The first three and the last hold but for what the two properties themselves
  excuse, `crossed` and `overwritten`, and each names the one it needs: two imports accepted at once lose the saved
  database, but put no half file in place. `NothingIsStuck`, the safety half of `DueRuns`: whoever set the flag, holds the
  connection or closed the database is still at work, or the daemon is ending.

* **WebSession_proofs**. `StreamKeptAlways`. A stream that was not stopped has a connection, a
  timer or a probe (`Alive`), and a page that is logged in had its stream stopped only by leaving (`Kept`).
  The one case in which it was not left is a page that an answer of GET /api/me logs in after the stream had been stopped (`page.late`), and
  the property says so. `ExpiryIsAlwaysComing`, the safety half of `ExpiredEnds`, is `Alive` for
  a page whose session ended.
* **WebViews_proofs**. `ReadYourWritesAlways`. The last load of a list has what the page was told, or has
  yet to read (`Newest`), because every answer that tells it starts the loads of what it changed (`Own`). That is a fact about each
  handler in the table of views: `ActsReload` is the lemma that goes through them. `TypeCorrect` needs that each
  handler loads lists of its own view only (`HandlersIn`), so that nothing is shown that the page does not have (`OnPage`), and that a list
  has one load at most whose answer will be taken (`OneFresh`). `ToldIsComing`, the safety half of `EventShown`: a list that is behind what an
  event told its view of has a load on its way that brings it, or an event that will start one. It rests on
  `AnnouncedLoads`, that what an event tells a view of, the view loads, which is how `Announces` is meant,
  and on `Told`, that the server never answers with less than was told. `Published` says what of several events
  the buffer takes: a first part of them, in order.
* **Dialogs_proofs**. Assumptions on the data: `DataAssumption` (the lists are lists of the things there
  are), `NameAssumption` (a row's id is not the name of a dataset), `ScheduleAssumption` (a job has a schedule the server
  takes, as `ParseSchedule` enforces, a timer any text). `DialogInv` says which dialogs the role may have on the page, which of them edit a
  schedule and whose (`Edited`), and which lists they wait for. `OnceInv` counts: a request on its way belongs to
  an opening, an opening that is busy has one request without its answer, and none that is served is sent again unless an
  answer was lost; hence `ServedOnce`. `SendsWhatIsAccepted` goes through the twenty-eight dialogs and the cards
  (`ModalHostSends`) and compares what each can send with what the server demands of that call (`Accepts`), with what the page can open a dialog
  on (`Placed`) and the schedules an editor can build (`TextIsRead`); the requests that are always refused are exactly those the property lists. `SendsWhatIsMeant`
  remembers the choice (`Remembered`): a list that comes late fills in a select that is empty and leaves one that was
  chosen. Its half about schedules is `RoundTrip`: for every job's schedule and every text a timer
  has, the editor gives back the minutes it was given, or the text itself.

Only model-checked: liveness (`CancelEnds`, the three `DueRuns`, `CritReaches`, `QueueDrains`,
`EventShown`, `ExpiredEnds`), which needs fairness and ENABLED. What safety says of it is proved, for all but `QueueDrains`:
`CancelIsFollowed`, `NothingIsAbandoned`, `RecordedIsNotDue`, `CritIsAlwaysSent`, `NothingIsStuck`, `ToldIsComing` and
`ExpiryIsAlwaysComing` say that what must happen is under way, or can end in no other way, so that only the
scheduler can withhold it. That the versions of WebViews stay within
`MaxChanges` is not proved either: it is a sum over a fold, by induction. `TypeOK` there asks for
numbers only, as the bound belongs to the instance.
Theorems no run repeats: the seven just named, `RunningIsListed`, `FinalStaysAlways`, `EndIsExitAlways`,
`OperationEndsOnce`, `NextRunIsFirst`, `RoundTrip`.

## 6. What the models leave out, and what they show besides

Left out on purpose: texts, formats, ids and pids; validation of requests, but for what WebForms has of it;
`job_history` and the records on the event stream; the SSH key and the test of the
connection; the parsing of schedules and retentions; zones with clock changes
(the models' clock goes forward and the calendar has no hour twice); smart tests
over all disks, which are one command here; snapshots a user destroys or rolls
back, for which the code promises nothing; the webhook, sent once and forgotten; the waits
between attempts; an endpoint that passes from one user to another; in LongOps, the
buffers of the hub: `pub` is what is handed to it (WebViews has the buffers).

Of the backups: the write-ahead log, which is a part of the database here, and the compression
and download of copies. Of the web client: names, quotas and flags no property is about; the record
of settings, which is a form with one request; the avatar; the picking of folders and files in a
snapshot; the waits between retries, as a timer is only set or not.

Not modelled at all: the language, the theme, the toasts and the texts of the page, the demo's data and
its provider, the types, the service worker and the push subscription of the browser: they keep
no state others depend on, or none but their own. Recommendations, configuration, the start of
the process and the installer are sequential. Accounts, the collectors, the actions on
pools and the Veeam explorer are worth a model and are next in the plan; what
they answer is in WebForms (`Accepts`) and WebViews (`cache`) as far as the page needs it.

Behaviours the models have, met while writing them, that no run is about. First the daemon:

* Two replication jobs of one source share `#ezrepl-last`, so each moves the other's
  base: an increment goes only if the other job did not run in between.
* Executions that overlap write back the bookmark they read with the row: an older `last_bookmark`, or none, can replace
  a newer one (runner.go:139). An UPDATE that fails is only logged (runner.go:149-151) and leaves the older one. A row
  that says none sends in full to a destination that is there, which fails, and not even `force_full` helps, for it retries increments
  only (runner.go:197). A row that says an older one sends its increment from `#ezrepl-last`, which is the newest. `Resumable` is about a row that
  does name the newest snapshot of its destination; that every row comes to name it is false.
* A bookmark that is destroyed and not made again (runner.go:227-230) leaves a row whose increments all fail, until `force_full` resends.
* Nothing bounds a pipeline: `waitOp` polls until the operation ends (runner.go:291), and a stream that hangs keeps its job
  running until someone cancels it, and under sudo even then.
* The id of the last row is given again after a deletion: `MarkRun` of an execution of the
  deleted job then writes on the new one, and a scheduled run of it is lost or its bookmark
  is foreign.
* Two rewrite requests for one dataset can both pass `RunningFor` and start.
* Without root every process is `sudo -n ...`, owned by root, and the SIGKILL of a cancel may be refused
  (executil.go:162-167): the operation stays "running" until its process ends by itself, and then says "canceled". "`Cancel(id)` mata el proceso"
  (longops.go:11) is true for root alone.
* A cancel that arrives while the process is ending is accepted and reported as canceled, though the
  process may have finished its work; the send and receive that the killed shell started
  go on by themselves, and the next execution finds the destination busy.
* A job that the loop has in its list runs although it was disabled or deleted
  meanwhile.
* A run by hand that starts before a slot and ends after it makes that slot count as done.
* Two jobs on one tree in the same minute: the second fails, for the snapshot's name is taken, and does not
  prune.
* `watch` calls `Wait` while the scanner reads the pipe, and `Wait` closes it: the last lines of an
  operation can be lost (longops.go:124), which docs/api-contract.md:123 promises to show.
* "409 `already_running` (una ejecución por job)" (docs/api-contract.md:152) is only true while
  the pipeline runs (runner.go:78): before it (snapshot) and after it (bookmark, prune) another execution is let in.
* Once a full resend failed before the destination existed again, `force_full` fails at
  each attempt, at the destroy of a destination that is not there (runner.go:206; replication.go:8-9 says that it resends).
* Retention removes the snapshots of the other jobs over the same tree (actions.go:677), though
  README.md:67-68 describes it as a job's own.
* "Critical alerts always notify" (README.md:239-240), but a warning that becomes critical (a pool that passes from
  80 % to 90 %) only changes its row (alerts.go:77): no event and no push.
* A daemon that stops after the snapshot and before MarkRun, or whose UPDATE fails, which is only logged
  (scheduler.go:293-295), repeats the run at the next tick and, within the minute, fails. While the UPDATE goes on failing, the
  slot is run again at every tick: `OncePerSlot` says that a slot is repeated in no other case.
* The threshold looks at the target alone: what was written to datasets below it does not count,
  though the snapshot is recursive.
* `PurgeJobHistory`, `PurgeSessions` and `PurgeAlerts` compare texts of two formats
  (RFC 3339 against SQLite's `datetime`), which differ on the last day of the period.
* A retention of 293 years or more is beyond a `time.Duration`: it wraps around, and the prune
  removes what was just taken. With `DurationLimit = 60000` in `Scheduler.cfg` TLC shows it as a violation of
  `PruneWithinRetention`.
* An alert that is queued while the queue of its user is being sent is deleted unsent:
  `clearQueue` deletes all of the user's rows. docs/api-contract.md:103 says what is queued is sent
  when the quiet hours end.
* A pass whose clear fails, or a stop of the daemon before it, sends a queue again.
* A daemon that stops between the insertion of an alert and the end of `Notify` loses the push, and the row
  stays active, so the problem is not announced again.
* The Veeam collector raises at a level "critical" (collectors/veeam.go:76), which nothing else knows: preferences
  and quiet hours hold it back as they do a warning.
* The source of an alert from a ZFS event is its class without the pool, so an event of one pool is
  absorbed by the active alert of another.
* A second backup in the same second finds the name of the first taken and removes the file
  it did not write, which was already reported as good (backup.go:136-139).
* A purge that cannot read the settings, because the query failed or the database is
  closed, uses the defaults of three days: copies the user wanted to keep longer are removed.
* A copy cut off by a stop of the daemon stays in the directory, counts as the last backup, and is listed as one.
* A daemon that dies between the two renames of an import starts with an empty database.
  `DataKept` holds: the data is in `app.db.pre-import`, but nothing puts it back, and the next import removes it.
* Nothing keeps imports apart, though a comment says that only a verified file is installed (backup_handlers.go:70-74): a second upload
  truncates the file that the first has verified (line 81), and that is installed, so that `app.db` is half a file and the daemon does not
  start; and a second accepted import removes what the first has saved (line 111), so that a stop between its renames loses the database. `MainWhole` and
  `DataKept` hold but for these two cases, which the run reaches.

Then the web client. What the server says of these requests is in `Accepts`; `SentIsAccepted` lists
those that it always refuses:

* The dialog of a job's schedule confirms its deletion with the number of the job, the server
  demands its target (jobs.go:118-135); the rollback sends the name of the dataset, the server demands the
  full name of the snapshot (snapshots.go:82; docs/api-contract.md:5). Both are refused each time.
* The retention "1w" that a dialog offers (Modals.tsx:1178) is refused (schedule.go:143-160): weeks are no unit of a retention.
* The replacement of a disk offers, after "show all", disks smaller than the old one, which the server refuses (pools.go:169-177).
* The time of day of a job can be left empty, and the server reads no such schedule.
* The editor of a dataset whose compression is none of the three offered shows the first of them and sends the one there is, which the
  server does not take.
* Texts written freely (names, destinations, addresses) are not checked by the page.
* `replication.finished` is published (runner.go:157; docs/api-contract.md:111,156) and
  handled by the view (Tasks.tsx:36), but the page does not subscribe to it (`SSE_TYPES`): the list of
  replications stays old until something else loads it.
* A refresh after a dialog ("al terminar con éxito: cierra y refresca los datos de las vistas", Modals.tsx:1-2) reads
  caches that the change has not reached (snapshots.go:13-14), and no event follows for most of them
  (zpool.go:891-918): the list stays old. The users of the settings are not even loaded again, for their
  effect depends on `refresh`, whose identity never changes (Settings.tsx:693-700).
* A success that comes late closes whatever dialog is open then.
* The disk a replacement suggests, the flag of a recursive snapshot and the target of a new
  job depend on the order in which lists arrive; a late list resets the target.
* An editor opened and saved untouched is not always the same: seconds of a timer are dropped, a
  schedule it does not know becomes daily at 06:00, a quota is rounded.
* Users who are no admins can open the dialogs of a new snapshot, dataset and job and of a
  job's schedule, and are refused. The dialog for one's own password has no opener. A new pool offers disks that are in use.
* Events dropped for a client whose buffer of 32 is full (hub.go:49), and those lost while the stream reconnects, are never made up for. On `pool.status` the
  dashboard loads its summary and not its pools (Dashboard.tsx:47). A scrub that is canceled and a pool that is imported tell nobody.
  The list of snapshots is loaded again when a job is done or the summary changes ("Refresca al crear snapshots", Snapshots.tsx:21), from a cache
  that may not have the new ones.
* A reading of a disk painted in place is overwritten by an older load (Disks.tsx:43-56). Events faster
  than the loads they cause keep a list from ever being shown, as each load makes the one before it old.
* The alerts panel and the mounts of the Veeam view take their answers in any order. The switch of autotrim
  remembers one pool only while its answer is awaited.
* The record of settings is read, changed and written back whole by the settings, by the
  switch of ignored machines and by that of monitored ones (VeeamExplorer.tsx:358,422): the last
  writer undoes the others. A switch saved while a threshold is invalid is refused with it, though shown as set.
* Whether a snapshot is shared is remembered in the browser, not asked of the server.
* A probe on its way while the user logs out and in again opens a second stream, which
  no logout closes (store.tsx:145). `WebSession` bounds these by `MaxGhosts`.
* A 401 of an earlier session that comes after a new login logs the new one out; the second of two logouts can end
  a login made between them. A `GET /api/me` answered after the stream was stopped shows a page logged in that has no stream, no timer and no probe, until it is loaded again: after three
  denied probes of a page that starts, or after a logout whose request failed, when the answer of `reloadUser` (store.tsx:199-201,
  asked for by the profile of the settings) comes after it. `StreamKept` excuses both by `page.late`.
* The server answers 401 on any error of its database (auth.go:86-88), so a page may log out of a session that lives.
* A network failure at the start shows the login to a user who is logged in; a logout whose request fails leaves the session alive on the server.

## 7. Disagreements between the code and what it says

One run ends in a violation; `PROJECT.json` has the lines.

* `WebSession_wrong`, `WrongIsNotExpired`: `data/http.ts` says that only an expired session makes a
  401 lead back to the login, and that wrong credentials are none. But the
  password card of the settings sends the current password, the server answers a wrong one with 401
  `bad_credentials` (auth_handlers.go:263), and only `/login` and `/logout` are exempt: one typing error
  logs out a session that lives.

## 8. Running

    tlc -workers 2 -config Scheduler.cfg MCScheduler.tla
    tlapm Scheduler_proofs.tla

The configuration `X.cfg` or `X_name.cfg` goes with the module `MCX`; those of WebViews and
WebSession go with these modules themselves. The longest runs take one to two minutes each; the
proofs take about twelve minutes together.
