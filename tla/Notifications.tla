--------------------------- MODULE Notifications ---------------------------
(***************************************************************************)
(* internal/alerts and internal/push: alerts are raised, deduplicated,     *)
(* acknowledged and sent to the devices of each user, at once or when      *)
(* their quiet hours end.                                                  *)
(*                                                                         *)
(* A new alert starts a goroutine (Notify); another one empties the queue  *)
(* of quiet hours every minute.  Collectors raise, users acknowledge,      *)
(* subscribe, open the page and change their settings meanwhile.  A query  *)
(* is one step and an attempt to send is one step.                         *)
(***************************************************************************)
EXTENDS Naturals, FiniteSets

CONSTANTS
  Keys,               \* pairs of source and kind; each has one collector
  Users,
  Devices,
  Owner,              \* the user of each device
  Nobody,             \* no user, no device
  Hours,              \* hours of a day
  Quiet,              \* windows users choose
  MaxTries,           \* attempts to send (maxIntentos)
  MaxAlerts,          \* bound: alerts inserted
  Env                 \* what may happen around the code, see EnvKinds

\* The queries that may fail, the answers of the push service, what users do,
\* and a pass over the queue that takes more than an hour.
EnvKinds == {"query", "insert", "list", "settings", "enqueue", "clear", "crash",
             "transient", "delivered", "gone", "reject", "slow",
             "ack", "purge", "subscribe", "app", "prefs", "windows"}

ASSUME NotificationsAssumption ==
  /\ Keys # {}
  /\ Owner \in [Devices -> Users]
  /\ Nobody \notin Users \cup Devices
  /\ Hours \in Nat \ {0, 1}
  /\ Quiet \subseteq {w \in [start: 0..(Hours - 1), end: 0..(Hours - 1)] : w.start # w.end}
  /\ MaxTries \in Nat \ {0}
  /\ MaxAlerts \in Nat
  /\ Env \subseteq EnvKinds

VARIABLES
  hour,               \* the hour of the day
  open,               \* users with the page open (an event stream)
  off,                \* kinds each user switched off
  window,             \* quiet hours of each user
  subs,               \* push_subscriptions: the user of each subscribed device
  rows,               \* table alerts
  count,              \* alerts inserted so far
  raise,              \* RaiseKind of the collector of each key
  note,               \* Notify of each alert
  queue,              \* notification_queue
  drain,              \* the goroutine of RunQueue
  out,                \* sendTo of each goroutine
  got                 \* history: devices and alerts they got since the daemon started

settings == <<hour, open, off, window>>
vars == <<settings, subs, rows, count, raise, note, queue, drain, out, got>>

Alerts  == 1..MaxAlerts
\* 0 is the goroutine of the queue.
Senders == Alerts \cup {0}
\* "info" is handled as "warn", and so is the "critical" of the Veeam collector.
Levels  == {"warn", "crit"}
\* A window that ends where it starts is empty: quiet hours are switched off.
Windows == [start: 0..(Hours - 1), end: 0..(Hours - 1)]
NoWindow == [start |-> 0, end |-> 0]

Row   == [n: Alerts, key: Keys, level: Levels, acked: BOOLEAN]
Raise == [pc: {"idle", "refresh", "insert", "publish"}, n: Senders, level: Levels]
Note  == [pc: {"none", "list", "next", "enqueue", "done"}, key: Keys, level: Levels,
          list: SUBSET (Devices \X Users), go: SUBSET Users, user: Users \cup {Nobody}]
Item  == [user: Users, n: Alerts, key: Keys]
Drain == [pc: {"idle", "user", "read", "subs", "item", "clear"}, hour: 0..(Hours - 1),
          users: SUBSET Users, user: Users \cup {Nobody}, read: SUBSET Item,
          todo: SUBSET Item, devs: SUBSET Devices, n: Senders, left: SUBSET Devices]
Out   == [dev: Devices \cup {Nobody}, n: Senders, try: 0..MaxTries]

TypeOK ==
  /\ hour \in 0..(Hours - 1)
  /\ open \subseteq Users
  /\ off \in [Users -> SUBSET Keys]
  /\ window \in [Users -> Windows]
  /\ subs \in [Devices -> Users \cup {Nobody}]
  /\ rows \subseteq Row
  /\ count \in 0..MaxAlerts
  /\ raise \in [Keys -> Raise]
  /\ note \in [Alerts -> Note]
  /\ \A n \in Alerts : note[n].pc = "enqueue" => note[n].user \in Users
  /\ queue \subseteq Item
  /\ drain \in Drain
  /\ out \in [Senders -> Out]
  /\ got \subseteq Devices \X Senders

NoRaise == [pc |-> "idle", n |-> 0, level |-> "warn"]
NoNote  == [pc |-> "none", key |-> CHOOSE k \in Keys : TRUE, level |-> "warn",
            list |-> {}, go |-> {}, user |-> Nobody]
NoDrain == [pc |-> "idle", hour |-> 0, users |-> {}, user |-> Nobody, read |-> {},
            todo |-> {}, devs |-> {}, n |-> 0, left |-> {}]
NoOut   == [dev |-> Nobody, n |-> 0, try |-> 0]

Init ==
  /\ hour = 0
  /\ open = {}
  /\ off = [u \in Users |-> {}]
  /\ window = [u \in Users |-> NoWindow]
  /\ subs = Owner
  /\ rows = {}
  /\ count = 0
  /\ raise = [k \in Keys |-> NoRaise]
  /\ note = [n \in Alerts |-> NoNote]
  /\ queue = {}
  /\ drain = NoDrain
  /\ out = [s \in Senders |-> NoOut]
  /\ got = {}
----------------------------------------------------------------------------
(* Raising and acknowledging.                                              *)

\* Fault: an alert of another level is another alert.
ActiveOfLevel(k, l) == {r \in rows : r.key = k /\ ~r.acked /\ r.level = l}

Active(k, l) == {r \in rows : r.key = k /\ ~r.acked}

\* A query that fails is taken for one that found nothing.
RaiseKind(k, l) ==
  /\ raise[k].pc = "idle"
  /\ \/ \E r \in Active(k, l) :
          raise' = [raise EXCEPT ![k] = [pc |-> "refresh", n |-> r.n, level |-> l]]
     \/ /\ Active(k, l) = {} \/ "query" \in Env
        /\ raise' = [raise EXCEPT ![k] = [pc |-> "insert", n |-> 0, level |-> l]]
  /\ UNCHANGED <<settings, subs, rows, count, note, queue, drain, out, got>>

\* UPDATE ... WHERE id: the row may be acknowledged by now.
Refresh(k) ==
  /\ raise[k].pc = "refresh"
  /\ rows' = {IF r.n = raise[k].n THEN [r EXCEPT !.level = raise[k].level] ELSE r : r \in rows}
  /\ raise' = [raise EXCEPT ![k] = NoRaise]
  /\ UNCHANGED <<settings, subs, count, note, queue, drain, out, got>>

Insert(k) ==
  /\ raise[k].pc = "insert"
  /\ \/ /\ count < MaxAlerts
        /\ count' = count + 1
        /\ rows' = rows \cup {[n |-> count + 1, key |-> k, level |-> raise[k].level,
                               acked |-> FALSE]}
        /\ raise' = [raise EXCEPT ![k].pc = "publish", ![k].n = count + 1]
     \/ /\ "insert" \in Env
        /\ UNCHANGED <<count, rows>>
        /\ raise' = [raise EXCEPT ![k] = NoRaise]
  /\ UNCHANGED <<settings, subs, note, queue, drain, out, got>>

\* The page is told and the goroutine of Notify is started.
Publish(k) ==
  /\ raise[k].pc = "publish"
  /\ note' = [note EXCEPT ![raise[k].n] =
               [NoNote EXCEPT !.pc = "list", !.key = k, !.level = raise[k].level]]
  /\ raise' = [raise EXCEPT ![k] = NoRaise]
  /\ UNCHANGED <<settings, subs, rows, count, queue, drain, out, got>>

Ack(r) ==
  /\ "ack" \in Env /\ ~r.acked
  /\ rows' = (rows \ {r}) \cup {[r EXCEPT !.acked = TRUE]}
  /\ UNCHANGED <<settings, subs, count, raise, note, queue, drain, out, got>>

PurgeAlerts(r) ==
  /\ "purge" \in Env /\ r.acked
  /\ rows' = rows \ {r}
  /\ UNCHANGED <<settings, subs, count, raise, note, queue, drain, out, got>>

----------------------------------------------------------------------------
(* sendTo: attempts to send one alert to one device.                       *)

Idle(s) == out[s].dev = Nobody

Send(s, d, n) == out' = [out EXCEPT ![s] = [dev |-> d, n |-> n, try |-> 1]]

\* Fault: an error of the service is tried again for as long as it lasts.
RetriesOn(s) == TRUE

Retries(s) == out[s].try < MaxTries

\* One attempt: the service takes it, refuses it, says the subscription is
\* gone, or fails; one whose answer is lost may have been delivered.
Attempt(s) ==
  LET d == out[s].dev
      n == out[s].n
      Delivered == got' = got \cup {<<d, n>>}
      End == out' = [out EXCEPT ![s] = NoOut]
  IN  /\ ~Idle(s)
      /\ \/ Delivered /\ End /\ UNCHANGED subs
         \/ "reject" \in Env /\ End /\ UNCHANGED <<got, subs>>
         \/ /\ "gone" \in Env /\ End /\ UNCHANGED got
            /\ subs' = [subs EXCEPT ![d] = Nobody]
         \/ /\ "transient" \in Env /\ UNCHANGED subs
            /\ UNCHANGED got \/ ("delivered" \in Env /\ Delivered)
            /\ IF Retries(s) THEN out' = [out EXCEPT ![s].try = @ + 1] ELSE End
  /\ UNCHANGED <<settings, rows, count, raise, note, queue, drain>>
----------------------------------------------------------------------------
(* Notify: one goroutine for each new alert.                               *)

\* The window may cross midnight.
InWindow(w, h) ==
  IF w.start = w.end THEN FALSE
  ELSE IF w.start < w.end THEN w.start <= h /\ h < w.end
  ELSE w.start <= h \/ h < w.end

Of(u) == {p \in Devices \X Users : p[2] = u}

NotifyList(n) ==
  /\ note[n].pc = "list"
  /\ \/ note' = [note EXCEPT ![n].pc = "next",
                            ![n].list = {p \in Devices \X Users : subs[p[1]] = p[2]}]
     \/ "list" \in Env /\ note' = [note EXCEPT ![n].pc = "done"]
  /\ UNCHANGED <<settings, subs, rows, count, raise, queue, drain, out, got>>

\* Fault: a queued alert is sent as well.
DecideBoth(n, u) ==
  /\ note[n].pc = "next" /\ Idle(n)
  /\ u \notin note[n].go /\ note[n].list \cap Of(u) # {}
  /\ note' = [note EXCEPT ![n].pc = "enqueue", ![n].user = u, ![n].go = @ \cup {u}]
  /\ UNCHANGED <<settings, subs, rows, count, raise, queue, drain, out, got>>

\* Once for each user: leave the alert out, queue it or send it (the two
\* settings are read in one step).  A critical alert is sent; a setting that
\* cannot be read does not stop one.
Decide(n, u) ==
  LET m == note[n]
      soft == m.level # "crit"
      leave == [note EXCEPT ![n].list = @ \ Of(u)]
  IN  /\ m.pc = "next" /\ Idle(n)
      /\ u \notin m.go /\ m.list \cap Of(u) # {}
      /\ \/ soft /\ m.key \in off[u] /\ note' = leave
         \/ /\ soft /\ (m.key \notin off[u] \/ "settings" \in Env) /\ InWindow(window[u], hour)
            /\ note' = [leave EXCEPT ![n].pc = "enqueue", ![n].user = u]
         \/ /\ \/ ~soft \/ "settings" \in Env
               \/ m.key \notin off[u] /\ ~InWindow(window[u], hour)
            /\ note' = [note EXCEPT ![n].go = @ \cup {u}]
  /\ UNCHANGED <<settings, subs, rows, count, raise, queue, drain, out, got>>

Enqueue(n) ==
  /\ note[n].pc = "enqueue"
  /\ \/ queue' = queue \cup {[user |-> note[n].user, n |-> n, key |-> note[n].key]}
     \/ "enqueue" \in Env /\ UNCHANGED queue
  /\ note' = [note EXCEPT ![n].pc = "next", ![n].user = Nobody]
  /\ UNCHANGED <<settings, subs, rows, count, raise, drain, out, got>>

\* Fault: an open page stops a critical alert too.
NotifyUnlessOpen(n, p) ==
  /\ note[n].pc = "next" /\ Idle(n)
  /\ p \in note[n].list /\ p[2] \in note[n].go
  /\ note' = [note EXCEPT ![n].list = @ \ {p}]
  /\ IF p[2] \in open THEN UNCHANGED out ELSE Send(n, p[1], n)
  /\ UNCHANGED <<settings, subs, rows, count, raise, queue, drain, got>>

\* The page is open and shows it, or the device gets it.
NotifyOne(n, p) ==
  /\ note[n].pc = "next" /\ Idle(n)
  /\ p \in note[n].list /\ p[2] \in note[n].go
  /\ note' = [note EXCEPT ![n].list = @ \ {p}]
  /\ IF note[n].level # "crit" /\ p[2] \in open THEN UNCHANGED out ELSE Send(n, p[1], n)
  /\ UNCHANGED <<settings, subs, rows, count, raise, queue, drain, got>>

NotifyEnd(n) ==
  /\ note[n].pc = "next" /\ Idle(n) /\ note[n].list = {}
  /\ note' = [note EXCEPT ![n].pc = "done"]
  /\ UNCHANGED <<settings, subs, rows, count, raise, queue, drain, out, got>>

----------------------------------------------------------------------------
(* RunQueue: the goroutine that empties the queue.                         *)

QueueOf(u) == {q \in queue : q.user = u}

DrainQueue ==
  /\ drain.pc = "idle" /\ queue # {}
  /\ drain' = [NoDrain EXCEPT !.pc = "user", !.hour = hour, !.users = {q.user : q \in queue}]
  /\ UNCHANGED <<settings, subs, rows, count, raise, note, queue, out, got>>

\* The hour is the one the tick began in; the window is read now.
DrainUser(u) ==
  /\ drain.pc = "user" /\ u \in drain.users
  /\ \/ /\ InWindow(window[u], drain.hour)
        /\ drain' = [drain EXCEPT !.users = @ \ {u}]
     \/ /\ ~InWindow(window[u], drain.hour) \/ "settings" \in Env
        /\ drain' = [drain EXCEPT !.users = @ \ {u}, !.pc = "read", !.user = u]
  /\ UNCHANGED <<settings, subs, rows, count, raise, note, queue, out, got>>

DrainEnd ==
  /\ drain.pc = "user" /\ drain.users = {}
  /\ drain' = NoDrain
  /\ UNCHANGED <<settings, subs, rows, count, raise, note, queue, out, got>>

NextUser == [NoDrain EXCEPT !.pc = "user", !.hour = drain.hour, !.users = drain.users]

DrainRead ==
  /\ drain.pc = "read"
  /\ \/ LET items == QueueOf(drain.user)
        IN  drain' = [drain EXCEPT !.pc = IF items = {} THEN "clear" ELSE "subs",
                                   !.read = items, !.todo = items]
     \/ "list" \in Env /\ drain' = NextUser
  /\ UNCHANGED <<settings, subs, rows, count, raise, note, queue, out, got>>

DrainSubs ==
  /\ drain.pc = "subs"
  /\ \/ drain' = [drain EXCEPT !.pc = "item", !.devs = {d \in Devices : subs[d] = drain.user}]
     \/ "list" \in Env /\ drain' = NextUser
  /\ UNCHANGED <<settings, subs, rows, count, raise, note, queue, out, got>>

\* In the order of the queue; a kind switched off meanwhile is left out.
DrainItem(q) ==
  /\ drain.pc = "item" /\ drain.left = {} /\ Idle(0)
  /\ q \in drain.todo /\ \A o \in drain.todo : q.n <= o.n
  /\ \/ /\ q.key \in off[q.user]
        /\ drain' = [drain EXCEPT !.todo = @ \ {q}]
     \/ /\ q.key \notin off[q.user] \/ "settings" \in Env
        /\ drain' = [drain EXCEPT !.todo = @ \ {q}, !.n = q.n, !.left = drain.devs]
  /\ UNCHANGED <<settings, subs, rows, count, raise, note, queue, out, got>>

\* What is in the queue is never critical: an open page stops it.
DrainOne(d) ==
  /\ drain.pc = "item" /\ d \in drain.left /\ Idle(0)
  /\ IF drain.user \in open
     THEN UNCHANGED out /\ drain' = [drain EXCEPT !.left = {}]
     ELSE Send(0, d, drain.n) /\ drain' = [drain EXCEPT !.left = @ \ {d}]
  /\ UNCHANGED <<settings, subs, rows, count, raise, note, queue, got>>

DrainDone ==
  /\ drain.pc = "item" /\ drain.todo = {} /\ drain.left = {} /\ Idle(0)
  /\ drain' = [drain EXCEPT !.pc = "clear"]
  /\ UNCHANGED <<settings, subs, rows, count, raise, note, queue, out, got>>

\* Fault: the queue is left to the next tick.
ClearNot ==
  /\ drain.pc = "clear"
  /\ drain' = NextUser
  /\ UNCHANGED <<settings, subs, rows, count, raise, note, queue, out, got>>

\* DELETE ... WHERE user_id: all of the user's rows.
ClearQueue ==
  /\ drain.pc = "clear"
  /\ queue' = queue \ QueueOf(drain.user) \/ ("clear" \in Env /\ UNCHANGED queue)
  /\ drain' = NextUser
  /\ UNCHANGED <<settings, subs, rows, count, raise, note, out, got>>

----------------------------------------------------------------------------
(* Users, time and the daemon.                                             *)

HourPasses ==
  /\ drain.pc = "idle" \/ "slow" \in Env
  /\ hour' = (hour + 1) % Hours
  /\ UNCHANGED <<open, off, window, subs, rows, count, raise, note, queue, drain, out, got>>

App(u) ==
  /\ "app" \in Env
  /\ open' = IF u \in open THEN open \ {u} ELSE open \cup {u}
  /\ UNCHANGED <<hour, off, window, subs, rows, count, raise, note, queue, drain, out, got>>

SetPreference(u, k) ==
  /\ "prefs" \in Env
  /\ off' = [off EXCEPT ![u] = IF k \in @ THEN @ \ {k} ELSE @ \cup {k}]
  /\ UNCHANGED <<hour, open, window, subs, rows, count, raise, note, queue, drain, out, got>>

SetQuietHours(u, w) ==
  /\ "windows" \in Env
  /\ window' = [window EXCEPT ![u] = w]
  /\ UNCHANGED <<hour, open, off, subs, rows, count, raise, note, queue, drain, out, got>>

\* An endpoint that is there is given to the user of the session: here the
\* one user of the device.
Subscribe(d) ==
  /\ "subscribe" \in Env
  /\ subs' = [subs EXCEPT ![d] = Owner[d]]
  /\ UNCHANGED <<settings, rows, count, raise, note, queue, drain, out, got>>

Unsubscribe(d) ==
  /\ "subscribe" \in Env
  /\ subs' = [subs EXCEPT ![d] = Nobody]
  /\ UNCHANGED <<settings, rows, count, raise, note, queue, drain, out, got>>

\* The daemon stops and starts: the tables stay.
Crash ==
  /\ "crash" \in Env
  /\ got' = {}
  /\ open' = {}
  /\ raise' = [k \in Keys |-> NoRaise]
  /\ note' = [n \in Alerts |-> NoNote]
  /\ drain' = NoDrain
  /\ out' = [s \in Senders |-> NoOut]
  /\ UNCHANGED <<hour, off, window, subs, rows, count, queue>>

Collect(k) ==
  \/ \E l \in Levels : RaiseKind(k, l)
  \/ Refresh(k) \/ Insert(k) \/ Publish(k)

Notify(n) ==
  \/ NotifyList(n) \/ Enqueue(n) \/ NotifyEnd(n) \/ Attempt(n)
  \/ \E u \in Users : Decide(n, u)
  \/ \E p \in note[n].list : NotifyOne(n, p)

Drainer ==
  \/ DrainQueue \/ DrainEnd \/ DrainRead \/ DrainSubs \/ DrainDone \/ ClearQueue \/ Attempt(0)
  \/ \E u \in Users : DrainUser(u)
  \/ \E q \in drain.todo : DrainItem(q)
  \/ \E d \in Devices : DrainOne(d)

People ==
  \/ \E r \in rows : Ack(r) \/ PurgeAlerts(r)
  \/ \E u \in Users : App(u) \/ \E k \in Keys : SetPreference(u, k)
  \/ \E u \in Users, w \in Quiet \cup {NoWindow} : SetQuietHours(u, w)
  \/ \E d \in Devices : Subscribe(d) \/ Unsubscribe(d)

Next ==
  \/ \E k \in Keys : Collect(k)
  \/ \E n \in Alerts : Notify(n)
  \/ Drainer
  \/ People
  \/ HourPasses
  \/ Crash

Spec == Init /\ [][Next]_vars

\* Goroutines are scheduled, every attempt has a timeout, a query that is
\* tried again and again succeeds at last, and every hour has ticks.
Fairness ==
  /\ \A n \in Alerts : WF_vars(Notify(n))
  /\ WF_vars(Drainer)
  /\ SF_vars(DrainRead /\ drain'.pc # "user")
  /\ SF_vars(DrainSubs /\ drain'.pc # "user")
  /\ SF_vars(ClearQueue /\ queue' # queue)
  /\ SF_vars(HourPasses)
  /\ \A h \in 0..(Hours - 1) : SF_vars(DrainQueue /\ hour = h)

LiveSpec == Spec /\ Fairness

----------------------------------------------------------------------------
(* Properties.                                                             *)

\* A problem has one active alert, however it varies and whenever it is
\* acknowledged: none of the collectors raises a key of another.
OneActive ==
  \A r, o \in rows : r.key = o.key /\ ~r.acked /\ ~o.acked => r = o

\* No sending begins of an alert that the device already got, at once or from
\* the queue, in this life of the daemon (a delete that fails repeats a queue).
SentOnce ==
  \A s \in Senders : out[s].try = 1 => <<out[s].dev, out[s].n>> \notin got

\* Neither a preference nor quiet hours nor an open page holds a critical
\* alert back: every device that was listed is sent to, or the daemon stops.
CritReaches ==
  \A n \in Alerts, d \in Devices :
    (note[n].level = "crit" /\ \E u \in Users : <<d, u>> \in note[n].list)
      ~> (out[n].dev = d \/ note[n].pc = "none")

\* What waits for the end of quiet hours leaves the queue.
QueueDrains ==
  \A u \in Users, n \in Alerts :
    (\E q \in queue : q.user = u /\ q.n = n) ~> ~\E q \in queue : q.user = u /\ q.n = n
============================================================================
