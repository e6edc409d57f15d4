----------------------- MODULE Notifications_proofs -----------------------
(***************************************************************************)
(* Proofs about Notifications: types, one active alert for each problem,   *)
(* no alert is sent to a device twice, and a critical one is sent.         *)
(***************************************************************************)
EXTENDS Notifications, TLAPS

LEMMA ConstantsTyped ==
  /\ Alerts \subseteq Nat /\ Alerts \subseteq Senders /\ 0 \in Senders /\ 0 \notin Alerts
  /\ NoRaise \in Raise /\ NoDrain \in Drain /\ NoOut \in Out
  /\ NoWindow \in Windows /\ Quiet \subseteq Windows
<1>1. 0 \in 0..(Hours - 1) /\ 0 \in 0..MaxTries
  BY NotificationsAssumption
<1> QED
  BY <1>1, NotificationsAssumption
     DEF Alerts, Senders, NoRaise, Raise, NoDrain, Drain, NoOut, Out, Windows, NoWindow, Levels

LEMMA NoNoteTyped == NoNote \in Note /\ NoNote.pc = "none"
<1>1. (CHOOSE j \in Keys : TRUE) \in Keys
  BY NotificationsAssumption
<1> QED
  BY <1>1 DEF NoNote, Note, Levels

LEMMA SendTyped ==
  ASSUME TypeOK, NEW s \in Senders, NEW d \in Devices, NEW n \in Senders, Send(s, d, n)
  PROVE  out' \in [Senders -> Out]
<1>1. 1 \in 0..MaxTries
  BY NotificationsAssumption
<1> QED
  BY <1>1 DEF Send, TypeOK, Out

LEMMA AttemptTyped ==
  ASSUME TypeOK, NEW s \in Senders, Attempt(s)
  PROVE  TypeOK'
<1> DEFINE d == out[s].dev
           n == out[s].n
<1>1. d \in Devices /\ n \in Senders /\ out[s].try \in 0..MaxTries
  BY DEF Attempt, Idle, TypeOK, Out
<1>2. out' \in [Senders -> Out]
  <2>1. CASE out' = [out EXCEPT ![s] = NoOut]
    BY <2>1, ConstantsTyped DEF TypeOK
  <2>2. CASE Retries(s) /\ out' = [out EXCEPT ![s].try = @ + 1]
    <3>1. out[s].try + 1 \in 0..MaxTries
      BY <1>1, <2>2, NotificationsAssumption DEF Retries
    <3> QED
      BY <2>2, <3>1 DEF TypeOK, Out
  <2> QED
    BY <2>1, <2>2 DEF Attempt
<1>3. subs' \in [Devices -> Users \cup {Nobody}]
  BY DEF Attempt, TypeOK
<1>4. got' \subseteq Devices \X Senders
  BY <1>1 DEF Attempt, TypeOK
<1> QED
  BY <1>2, <1>3, <1>4 DEF Attempt, TypeOK, settings

LEMMA TypeInit == Init => TypeOK
<1> SUFFICES ASSUME Init PROVE TypeOK
  OBVIOUS
<1>1. 0 \in 0..(Hours - 1) /\ 0 \in 0..MaxAlerts
  BY NotificationsAssumption
<1> QED
  BY <1>1, NoNoteTyped, ConstantsTyped, NotificationsAssumption DEF Init, TypeOK

LEMMA NoteTyped ==
  ASSUME TypeOK, NEW n \in Alerts, NEW m \in Note, m.pc = "enqueue" => m.user \in Users,
         note' = [note EXCEPT ![n] = m]
  PROVE  /\ note' \in [Alerts -> Note]
         /\ \A o \in Alerts : note'[o].pc = "enqueue" => note'[o].user \in Users
BY DEF TypeOK

LEMMA TypeStep == TypeOK /\ [Next]_vars => TypeOK'
<1> SUFFICES ASSUME TypeOK, [Next]_vars PROVE TypeOK'
  OBVIOUS
<1>1. CASE UNCHANGED vars
  BY <1>1 DEF vars, settings, TypeOK
<1>2. ASSUME NEW k \in Keys, NEW l \in Levels, RaiseKind(k, l) PROVE TypeOK'
  <2>1. \A r \in rows : r.n \in Senders
    BY ConstantsTyped DEF TypeOK, Row
  <2>2. raise' \in [Keys -> Raise]
    BY <1>2, <2>1, ConstantsTyped DEF RaiseKind, TypeOK, Raise, Active
  <2> QED
    BY <1>2, <2>2 DEF RaiseKind, TypeOK, settings
<1>3. ASSUME NEW k \in Keys, Refresh(k) PROVE TypeOK'
  <2>1. rows' \subseteq Row
    <3>1. \A r \in rows : [r EXCEPT !.level = raise[k].level] \in Row
      BY DEF TypeOK, Row, Raise
    <3> QED
      BY <1>3, <3>1 DEF Refresh, TypeOK
  <2> QED
    BY <1>3, <2>1, ConstantsTyped DEF Refresh, TypeOK, settings
<1>4. ASSUME NEW k \in Keys, Insert(k) PROVE TypeOK'
  <2>1. CASE count < MaxAlerts /\ count' = count + 1
    <3>1. count + 1 \in Alerts /\ count + 1 \in 0..MaxAlerts
      BY <2>1, NotificationsAssumption DEF TypeOK, Alerts
    <3>2. rows' \subseteq Row
      <4>1. [n |-> count + 1, key |-> k, level |-> raise[k].level, acked |-> FALSE] \in Row
        BY <3>1 DEF TypeOK, Row, Raise
      <4> QED
        BY <1>4, <2>1, <4>1, NotificationsAssumption DEF Insert, TypeOK
    <3>3. raise' \in [Keys -> Raise]
      BY <1>4, <2>1, <3>1 DEF Insert, TypeOK, Raise
    <3> QED
      BY <1>4, <2>1, <3>1, <3>2, <3>3 DEF Insert, TypeOK, settings
  <2>2. CASE UNCHANGED <<count, rows>> /\ raise' = [raise EXCEPT ![k] = NoRaise]
    BY <1>4, <2>2, ConstantsTyped DEF Insert, TypeOK, settings
  <2> QED
    BY <1>4, <2>1, <2>2 DEF Insert
<1>5. ASSUME NEW k \in Keys, Publish(k) PROVE TypeOK'
  <2>1. note' \in [Alerts -> Note]
    BY <1>5, NoNoteTyped DEF Publish, TypeOK, Note, Raise
  <2> QED
    BY <1>5, <2>1, ConstantsTyped DEF Publish, TypeOK, settings
<1>6. ASSUME NEW r \in rows, Ack(r) \/ PurgeAlerts(r) PROVE TypeOK'
  <2>1. rows' \subseteq Row
    <3>1. [r EXCEPT !.acked = TRUE] \in Row
      BY DEF TypeOK, Row
    <3> QED
      BY <1>6, <3>1 DEF Ack, PurgeAlerts, TypeOK
  <2> QED
    BY <1>6, <2>1 DEF Ack, PurgeAlerts, TypeOK, settings
<1>7. ASSUME NEW s \in Senders, Attempt(s) PROVE TypeOK'
  BY <1>7, AttemptTyped
<1>8. ASSUME NEW n \in Alerts, NotifyList(n) \/ NotifyEnd(n) PROVE TypeOK'
  <2>1. note' \in [Alerts -> Note]
        /\ \A o \in Alerts : note'[o].pc = "enqueue" => note'[o].user \in Users
    <3>1. PICK m \in Note : m.pc # "enqueue" /\ note' = [note EXCEPT ![n] = m]
      <4>1. note[n] \in Note
        BY DEF TypeOK
      <4>2. [note[n] EXCEPT !.pc = "done"] \in Note
        BY <4>1 DEF Note
      <4>3. [note[n] EXCEPT !.pc = "next",
                            !.list = {p \in Devices \X Users : subs[p[1]] = p[2]}] \in Note
        BY <4>1 DEF Note
      <4> QED
        BY <1>8, <4>1, <4>2, <4>3 DEF NotifyList, NotifyEnd, TypeOK, Note
    <3> QED
      BY <3>1, NoteTyped
  <2> QED
    BY <1>8, <2>1 DEF NotifyList, NotifyEnd, TypeOK, settings
<1>9. ASSUME NEW n \in Alerts, NEW u \in Users, Decide(n, u) PROVE TypeOK'
  <2>1. note' \in [Alerts -> Note]
        /\ \A o \in Alerts : note'[o].pc = "enqueue" => note'[o].user \in Users
    <3>1. PICK m \in Note : /\ m.pc = "enqueue" => m.user \in Users
                            /\ note' = [note EXCEPT ![n] = m]
      <4>1. note[n] \in Note /\ note[n].pc = "next"
        BY <1>9 DEF TypeOK, Decide
      <4>2. [note[n] EXCEPT !.list = @ \ Of(u)] \in Note
        BY <4>1 DEF Note
      <4>3. [note[n] EXCEPT !.list = @ \ Of(u), !.pc = "enqueue", !.user = u] \in Note
        BY <4>1 DEF Note
      <4>4. [note[n] EXCEPT !.go = @ \cup {u}] \in Note
        BY <4>1 DEF Note
      <4> QED
        BY <1>9, <4>1, <4>2, <4>3, <4>4 DEF Decide, TypeOK, Note
    <3> QED
      BY <3>1, NoteTyped
  <2> QED
    BY <1>9, <2>1 DEF Decide, TypeOK, settings
<1>10. ASSUME NEW n \in Alerts, Enqueue(n) PROVE TypeOK'
  <2>1. note' \in [Alerts -> Note]
    <3>1. note[n] \in Note
      BY DEF TypeOK
    <3>2. [note[n] EXCEPT !.pc = "next", !.user = Nobody] \in Note
      BY <3>1 DEF Note
    <3> QED
      BY <1>10, <3>1, <3>2 DEF Enqueue, TypeOK, Note
  <2>2. queue' \subseteq Item
    <3>1. [user |-> note[n].user, n |-> n, key |-> note[n].key] \in Item
      BY <1>10 DEF Enqueue, TypeOK, Note, Item
    <3> QED
      BY <1>10, <3>1 DEF Enqueue, TypeOK
  <2> QED
    BY <1>10, <2>1, <2>2 DEF Enqueue, TypeOK, settings
<1>11. ASSUME NEW n \in Alerts, NEW p \in note[n].list, NotifyOne(n, p) PROVE TypeOK'
  <2>1. note' \in [Alerts -> Note] /\ p[1] \in Devices
    <3>1. note[n] \in Note
      BY DEF TypeOK
    <3>2. [note[n] EXCEPT !.list = @ \ {p}] \in Note
      BY <3>1 DEF Note
    <3> QED
      BY <1>11, <3>1, <3>2 DEF NotifyOne, TypeOK, Note
  <2>2. out' \in [Senders -> Out]
    BY <1>11, <2>1, SendTyped, ConstantsTyped DEF NotifyOne, TypeOK
  <2> QED
    BY <1>11, <2>1, <2>2 DEF NotifyOne, TypeOK, settings
<1>12. CASE DrainQueue \/ DrainEnd \/ DrainRead \/ DrainSubs \/ DrainDone
  <2>1. {q.user : q \in queue} \subseteq Users /\ QueueOf(drain.user) \subseteq Item
    BY DEF TypeOK, Item, QueueOf
  <2>2. NextUser \in Drain
    BY ConstantsTyped DEF NextUser, TypeOK, Drain
  <2>3. CASE DrainQueue
    <3>1. drain' \in Drain
      BY <2>1, <2>3, ConstantsTyped DEF DrainQueue, TypeOK, Drain
    <3> QED
      BY <2>3, <3>1 DEF DrainQueue, TypeOK, settings
  <2>4. CASE DrainEnd
    BY <2>4, ConstantsTyped DEF DrainEnd, TypeOK, settings
  <2>5. CASE DrainRead
    <3>1. drain' \in Drain
      <4>1. CASE drain' = NextUser
        BY <2>2, <4>1
      <4>2. CASE drain' # NextUser
        <5>1. drain' = [drain EXCEPT !.pc = IF QueueOf(drain.user) = {} THEN "clear" ELSE "subs",
                                     !.read = QueueOf(drain.user), !.todo = QueueOf(drain.user)]
          BY <2>5, <4>2 DEF DrainRead
        <5>2. drain \in Drain
          BY DEF TypeOK
        <5> QED
          BY <2>1, <5>1, <5>2 DEF Drain
      <4> QED
        BY <4>1, <4>2
    <3> QED
      BY <2>5, <3>1 DEF DrainRead, TypeOK, settings
  <2>6. CASE DrainSubs
    <3>1. drain' \in Drain
      <4>1. {d \in Devices : subs[d] = drain.user} \subseteq Devices
        OBVIOUS
      <4> QED
        BY <2>2, <2>6, <4>1 DEF DrainSubs, TypeOK, Drain
    <3> QED
      BY <2>6, <3>1 DEF DrainSubs, TypeOK, settings
  <2>7. CASE DrainDone
    <3>1. drain' \in Drain
      BY <2>7 DEF DrainDone, TypeOK, Drain
    <3> QED
      BY <2>7, <3>1 DEF DrainDone, TypeOK, settings
  <2> QED
    BY <1>12, <2>3, <2>4, <2>5, <2>6, <2>7
<1>13. ASSUME NEW u \in Users, DrainUser(u) PROVE TypeOK'
  <2>1. drain' \in Drain
    <3>1. CASE drain' = [drain EXCEPT !.users = @ \ {u}]
      BY <3>1 DEF TypeOK, Drain
    <3>2. CASE drain' = [drain EXCEPT !.users = @ \ {u}, !.pc = "read", !.user = u]
      BY <3>2 DEF TypeOK, Drain
    <3> QED
      BY <1>13, <3>1, <3>2 DEF DrainUser
  <2> QED
    BY <1>13, <2>1 DEF DrainUser, TypeOK, settings
<1>14. ASSUME NEW q \in drain.todo, DrainItem(q) PROVE TypeOK'
  <2>1. drain' \in Drain
    <3>1. CASE drain' = [drain EXCEPT !.todo = @ \ {q}]
      BY <3>1 DEF TypeOK, Drain
    <3>2. CASE drain' = [drain EXCEPT !.todo = @ \ {q}, !.n = q.n, !.left = drain.devs]
      <4>1. q.n \in Senders
        BY ConstantsTyped DEF TypeOK, Drain, Item
      <4> QED
        BY <3>2, <4>1 DEF TypeOK, Drain
    <3> QED
      BY <1>14, <3>1, <3>2 DEF DrainItem
  <2> QED
    BY <1>14, <2>1 DEF DrainItem, TypeOK, settings
<1>15. ASSUME NEW d \in Devices, DrainOne(d) PROVE TypeOK'
  <2>1. drain' \in Drain
    BY <1>15 DEF DrainOne, TypeOK, Drain
  <2>2. out' \in [Senders -> Out]
    <3>1. drain.n \in Senders
      BY DEF TypeOK, Drain
    <3> QED
      BY <1>15, <3>1, SendTyped, ConstantsTyped DEF DrainOne, TypeOK
  <2> QED
    BY <1>15, <2>1, <2>2 DEF DrainOne, TypeOK, settings
<1>16. CASE ClearQueue
  <2>1. drain' \in Drain
    BY <1>16, ConstantsTyped DEF ClearQueue, TypeOK, Drain, NextUser
  <2> QED
    BY <1>16, <2>1 DEF ClearQueue, TypeOK, settings
<1>17. CASE HourPasses
  <2>1. (hour + 1) % Hours \in 0..(Hours - 1)
    BY NotificationsAssumption DEF TypeOK
  <2> QED
    BY <1>17, <2>1 DEF HourPasses, TypeOK
<1>18. ASSUME NEW u \in Users, App(u) PROVE TypeOK'
  BY <1>18 DEF App, TypeOK
<1>19. ASSUME NEW u \in Users, NEW k \in Keys, SetPreference(u, k) PROVE TypeOK'
  BY <1>19 DEF SetPreference, TypeOK
<1>20. ASSUME NEW u \in Users, NEW w \in Quiet \cup {NoWindow}, SetQuietHours(u, w) PROVE TypeOK'
  BY <1>20, ConstantsTyped DEF SetQuietHours, TypeOK
<1>21. ASSUME NEW d \in Devices, Subscribe(d) \/ Unsubscribe(d) PROVE TypeOK'
  BY <1>21, NotificationsAssumption DEF Subscribe, Unsubscribe, TypeOK, settings
<1>22. CASE Crash
  BY <1>22, ConstantsTyped, NoNoteTyped DEF Crash, TypeOK
<1> QED
  BY ConstantsTyped, <1>1, <1>2, <1>3, <1>4, <1>5, <1>6, <1>7, <1>8, <1>9, <1>10, <1>11, <1>12, <1>13,
     <1>14, <1>15, <1>16, <1>17, <1>18, <1>19, <1>20, <1>21, <1>22
     DEF Next, Collect, Notify, Drainer, People

\* Every variable keeps its type, for every set of problems, users and devices.
THEOREM TypeCorrect == Spec => []TypeOK
BY TypeInit, TypeStep, PTL DEF Spec

----------------------------------------------------------------------------
(* One active alert.                                                       *)

\* A collector about to insert found nothing active, and nobody else has made
\* something active since.
Absent == \A k \in Keys : raise[k].pc = "insert" => Active(k, raise[k].level) = {}

Deduplicated == TypeOK /\ Absent /\ OneActive

LEMMA DeduplicatedStep ==
  ASSUME "query" \notin Env
  PROVE  Deduplicated /\ [Next]_vars => Deduplicated'
<1> SUFFICES ASSUME Deduplicated, [Next]_vars PROVE Absent' /\ OneActive'
  BY TypeStep DEF Deduplicated
<1> USE DEF Deduplicated
<1>1. CASE UNCHANGED <<rows, raise>>
  BY <1>1 DEF Absent, OneActive, Active
<1>2. ASSUME NEW k \in Keys, NEW l \in Levels, RaiseKind(k, l) PROVE Absent' /\ OneActive'
  <2>1. OneActive'
    BY <1>2 DEF RaiseKind, OneActive
  <2>2. ASSUME NEW j \in Keys, raise'[j].pc = "insert" PROVE Active(j, raise[j].level)' = {}
    <3>1. CASE j = k
      BY <1>2, <2>2, <3>1 DEF RaiseKind, Active, TypeOK
    <3>2. CASE j # k
      BY <1>2, <2>2, <3>2 DEF RaiseKind, Absent, Active, TypeOK
    <3> QED
      BY <3>1, <3>2
  <2> QED
    BY <2>1, <2>2 DEF Absent
<1>3. ASSUME NEW k \in Keys, Refresh(k) PROVE Absent' /\ OneActive'
  <2>1. ASSUME NEW r \in rows'
        PROVE  \E o \in rows : /\ r.n = o.n /\ r.key = o.key /\ r.acked = o.acked
                              /\ r = IF o.n = raise[k].n THEN [o EXCEPT !.level = raise[k].level]
                                     ELSE o
    BY <1>3 DEF Refresh, TypeOK, Row
  <2>2. OneActive'
    BY <2>1 DEF OneActive
  <2>3. Absent'
    BY <1>3, <2>1 DEF Refresh, Absent, Active, TypeOK, NoRaise
  <2> QED
    BY <2>2, <2>3
<1>4. ASSUME NEW k \in Keys, Insert(k) PROVE Absent' /\ OneActive'
  <2>1. CASE /\ rows' = rows \cup {[n |-> count + 1, key |-> k, level |-> raise[k].level,
                                   acked |-> FALSE]}
             /\ raise' = [raise EXCEPT ![k].pc = "publish", ![k].n = count + 1]
    <3>1. ~\E r \in rows : r.key = k /\ ~r.acked
      BY <1>4 DEF Insert, Absent, Active
    <3>2. OneActive'
      <4> DEFINE new == [n |-> count + 1, key |-> k, level |-> raise[k].level, acked |-> FALSE]
      <4>2. rows' = rows \cup {new} /\ new.key = k
        BY <2>1
      <4> HIDE DEF new
      <4>1. ASSUME NEW r \in rows', NEW o \in rows', r.key = o.key, ~r.acked, ~o.acked
            PROVE  r = o
        <5>1. CASE r \in rows /\ o \in rows
          BY <4>1, <5>1 DEF OneActive
        <5>2. CASE r \notin rows
          BY <4>2, <3>1, <4>1, <5>2
        <5>3. CASE o \notin rows
          BY <4>2, <3>1, <4>1, <5>3
        <5> QED
          BY <5>1, <5>2, <5>3
      <4> QED
        BY <4>1 DEF OneActive
    <3>3. Absent'
      BY <2>1 DEF Absent, Active, TypeOK
    <3> QED
      BY <3>2, <3>3
  <2>2. CASE UNCHANGED rows /\ raise' = [raise EXCEPT ![k] = NoRaise]
    BY <2>2 DEF Absent, OneActive, Active, TypeOK, NoRaise
  <2> QED
    BY <1>4, <2>1, <2>2 DEF Insert
<1>5. ASSUME NEW k \in Keys, Publish(k) PROVE Absent' /\ OneActive'
  BY <1>5 DEF Publish, Absent, OneActive, Active, TypeOK, NoRaise
<1>6. ASSUME NEW r \in rows, Ack(r) \/ PurgeAlerts(r) PROVE Absent' /\ OneActive'
  <2>1. \A o \in rows' : ~o.acked => o \in rows
    BY <1>6 DEF Ack, PurgeAlerts, TypeOK, Row
  <2> QED
    BY <1>6, <2>1 DEF Ack, PurgeAlerts, Absent, OneActive, Active
<1>7. CASE Crash
  BY <1>7 DEF Crash, Absent, OneActive, NoRaise
<1>8. ASSUME NEW n \in Alerts, Notify(n) PROVE UNCHANGED <<rows, raise>>
  BY <1>8 DEF Notify, NotifyList, Enqueue, NotifyEnd, Attempt, Decide, NotifyOne
<1>9. CASE Drainer
  BY <1>1, <1>9 DEF Drainer, DrainQueue, DrainEnd, DrainRead, DrainSubs, DrainDone, ClearQueue,
                    Attempt, DrainUser, DrainItem, DrainOne
<1>10. CASE HourPasses
  BY <1>1, <1>10 DEF HourPasses
<1>11. ASSUME NEW u \in Users,
              \/ App(u) \/ \E k \in Keys : SetPreference(u, k)
              \/ \E w \in Quiet \cup {NoWindow} : SetQuietHours(u, w)
       PROVE  UNCHANGED <<rows, raise>>
  BY <1>11 DEF App, SetPreference, SetQuietHours
<1>12. ASSUME NEW d \in Devices, Subscribe(d) \/ Unsubscribe(d) PROVE UNCHANGED <<rows, raise>>
  BY <1>12 DEF Subscribe, Unsubscribe
<1>13. CASE UNCHANGED vars
  BY <1>1, <1>13 DEF vars
<1> QED
  BY <1>1, <1>2, <1>3, <1>4, <1>5, <1>6, <1>7, <1>8, <1>9, <1>10, <1>11, <1>12, <1>13
     DEF Next, Collect, People

\* Unless the query for an active alert fails, a problem has one: whatever is
\* acknowledged between that query and the insertion.
THEOREM OneActiveAlways ==
  ASSUME "query" \notin Env
  PROVE  Spec => []OneActive
<1>1. Init => Deduplicated
  BY TypeInit DEF Init, Deduplicated, Absent, OneActive, NoRaise
<1>2. Deduplicated /\ [Next]_vars => Deduplicated'
  BY DeduplicatedStep
<1>3. Deduplicated => OneActive
  BY DEF Deduplicated
<1> QED
  BY <1>1, <1>2, <1>3, PTL DEF Spec

----------------------------------------------------------------------------
(* No alert is sent to a device twice.                                     *)

\* d neither got alert n nor is being sent it.
Clean(d, n) ==
  <<d, n>> \notin got /\ \A s \in Senders : ~(out[s].dev = d /\ out[s].n = n)

Kept(u, n) == \A d \in Devices : Owner[d] = u => Clean(d, n)

Queued(u, n) == \E q \in queue : q.user = u /\ q.n = n

Untouched(n) ==
  (\A u \in Users : ~Queued(u, n)) /\ \A d \in Devices : Clean(d, n)

\* Devices are sent to for their own user.
Owned ==
  /\ \A d \in Devices : subs[d] \in {Owner[d], Nobody}
  /\ \A n \in Alerts : \A p \in note[n].list : p[2] = Owner[p[1]]
  /\ \A d \in drain.devs \cup drain.left : Owner[d] = drain.user

\* Nothing was done about an alert that is not inserted, announced or listed.
Fresh ==
  /\ \A n \in Alerts : n > count => note[n].pc = "none" /\ Untouched(n)
  /\ \A k \in Keys : raise[k].pc = "publish" =>
       /\ raise[k].n \in 1..count
       /\ note[raise[k].n].pc = "none" /\ Untouched(raise[k].n)
       /\ \A j \in Keys : raise[j].pc = "publish" /\ raise[j].n = raise[k].n => j = k
  /\ \A n \in Alerts : note[n].pc = "list" => Untouched(n)

\* Notify has still to decide or to send: the queue has it not, nor the device.
Pending ==
  \A n \in Alerts :
    /\ note[n].list # {} => note[n].pc \in {"next", "enqueue"}
    /\ \A p \in note[n].list :
         /\ ~Queued(p[2], n) /\ Clean(p[1], n)
         /\ p[2] \notin note[n].go => Kept(p[2], n)
         /\ note[n].pc = "enqueue" => note[n].user # p[2]
    /\ note[n].pc = "enqueue" => ~Queued(note[n].user, n) /\ Kept(note[n].user, n)

\* What is in the queue is there once; nobody got it, unless this pass read it.
InQueue ==
  /\ \A q, o \in queue : q.user = o.user /\ q.n = o.n => q = o
  /\ \A q \in queue : q \in drain.read \/ Kept(q.user, q.n)

\* The pass over the queue.
Passing ==
  /\ \A q \in drain.read : q \in queue /\ q.user = drain.user
  /\ drain.todo \subseteq drain.read
  /\ drain.pc \in {"idle", "user", "read"} => drain.read = {} /\ drain.devs = {}
  /\ drain.pc \in {"read", "subs"} => drain.user \in Users
  /\ drain.pc = "subs" => drain.todo = drain.read
  /\ \A q \in drain.todo : Kept(q.user, q.n) /\ (drain.left # {} => q.n # drain.n)
  /\ drain.left # {} => \E q \in drain.read : q.n = drain.n
  /\ \A d \in drain.left : Clean(d, drain.n)

\* What is sent for the first time was not sent, and nobody else sends it.
Sending ==
  \A s \in Senders :
    /\ out[s].try = 0 <=> out[s].dev = Nobody
    /\ out[s].try = 1 =>
         /\ <<out[s].dev, out[s].n>> \notin got
         /\ \A t \in Senders : out[t].dev = out[s].dev /\ out[t].n = out[s].n => t = s

Once == TypeOK /\ Owned /\ Fresh /\ Pending /\ InQueue /\ Passing /\ Sending

LEMMA OnceInit == Init => Once
<1> SUFFICES ASSUME Init PROVE Once
  OBVIOUS
<1>1. TypeOK
  BY TypeInit
<1>2. \A d \in Devices, n \in Alerts : Clean(d, n)
  BY NotificationsAssumption DEF Init, Clean, NoOut
<1>3. Owned
  BY NotificationsAssumption DEF Init, Owned, NoNote, NoDrain
<1>4. Fresh
  BY <1>2 DEF Init, Fresh, Untouched, Queued, NoRaise, NoNote
<1>5. Pending /\ InQueue /\ Passing
  BY DEF Init, Pending, InQueue, Passing, NoNote, NoDrain
<1>6. Sending
  BY DEF Init, Sending, NoOut
<1> QED
  BY <1>1, <1>3, <1>4, <1>5, <1>6 DEF Once

\* What touches neither the queue nor a sending leaves all of this as it is.
LEMMA Same ==
  ASSUME UNCHANGED <<queue, out, got>>
  PROVE  /\ \A d, n : Clean(d, n)' = Clean(d, n)
         /\ \A u, n : Kept(u, n)' = Kept(u, n)
         /\ \A u, n : Queued(u, n)' = Queued(u, n)
         /\ \A n : Untouched(n)' = Untouched(n)
         /\ Sending' = Sending
BY DEF Clean, Kept, Queued, Untouched, Sending

\* The steps of collectors.
LEMMA OnceCollect ==
  ASSUME Once, NEW k \in Keys, Collect(k)
  PROVE  Owned' /\ Fresh' /\ Pending' /\ InQueue' /\ Passing' /\ Sending'
<1> USE DEF Once
<1>1. UNCHANGED <<subs, queue, drain, out, got>>
  BY DEF Collect, RaiseKind, Refresh, Insert, Publish
<1>2. InQueue' /\ Passing' /\ Sending'
  BY <1>1, Same DEF InQueue, Passing
<1>3. ASSUME NEW l \in Levels, RaiseKind(k, l) PROVE Owned' /\ Fresh' /\ Pending'
  <2>1. \A j \in Keys : raise'[j].pc = "publish" => raise[j] = raise'[j]
    BY <1>3 DEF RaiseKind, TypeOK
  <2> QED
    BY <1>1, <1>3, <2>1, Same DEF RaiseKind, Owned, Fresh, Pending
<1>4. ASSUME Refresh(k) PROVE Owned' /\ Fresh' /\ Pending'
  <2>1. \A j \in Keys : raise'[j].pc = "publish" => raise[j] = raise'[j]
    BY <1>4 DEF Refresh, TypeOK, NoRaise
  <2> QED
    BY <1>1, <1>4, <2>1, Same DEF Refresh, Owned, Fresh, Pending
<1>5. ASSUME Insert(k) PROVE Owned' /\ Fresh' /\ Pending'
  <2>1. note' = note /\ count' \in Nat /\ count' >= count
    BY <1>5, NotificationsAssumption DEF Insert, TypeOK
  <2>2. Owned' /\ Pending'
    BY <1>1, <2>1, Same DEF Owned, Pending
  <2>3. ASSUME NEW j \in Keys, raise'[j].pc = "publish"
        PROVE  \/ j # k /\ raise'[j] = raise[j]
               \/ j = k /\ raise'[j].n = count + 1 /\ count + 1 \in Alerts /\ count' = count + 1
    <3>1. CASE count < MaxAlerts /\ count' = count + 1
                /\ raise' = [raise EXCEPT ![k].pc = "publish", ![k].n = count + 1]
      <4>1. count + 1 \in Alerts
        BY <3>1, NotificationsAssumption DEF TypeOK, Alerts
      <4> QED
        BY <3>1, <4>1 DEF TypeOK
    <3>2. CASE raise' = [raise EXCEPT ![k] = NoRaise]
      BY <2>3, <3>2 DEF TypeOK, NoRaise
    <3> QED
      BY <1>5, <3>1, <3>2 DEF Insert
  <2>4. \A j \in Keys : raise[j].pc = "publish" => raise[j].n \in 1..count /\ raise[j].n # count + 1
    BY NotificationsAssumption DEF Fresh, TypeOK
  <2>5. count + 1 \in Alerts => note[count + 1].pc = "none" /\ Untouched(count + 1)
    BY NotificationsAssumption DEF Fresh, TypeOK, Alerts
  <2>6. \A n \in Alerts : n > count' => n > count
    BY <2>1, NotificationsAssumption DEF TypeOK, Alerts
  <2>7. \A n : n \in 1..count => n \in 1..count'
    BY <2>1, NotificationsAssumption DEF TypeOK
  <2>8. Fresh'
    <3>1. ASSUME NEW j \in Keys, raise'[j].pc = "publish"
          PROVE  /\ raise'[j].n \in 1..count'
                 /\ note'[raise'[j].n].pc = "none" /\ Untouched(raise'[j].n)
                 /\ \A i \in Keys : raise'[i].pc = "publish" /\ raise'[i].n = raise'[j].n => i = j
      <4>1. CASE j # k /\ raise'[j] = raise[j]
        BY <2>1, <2>3, <2>4, <2>7, <3>1, <4>1 DEF Fresh
      <4>2. CASE j = k /\ raise'[j].n = count + 1 /\ count + 1 \in Alerts /\ count' = count + 1
        <5>1. count + 1 \in 1..count'
          BY <4>2, NotificationsAssumption DEF TypeOK
        <5> QED
          BY <2>1, <2>3, <2>4, <2>5, <4>2, <5>1
      <4> QED
        BY <2>3, <3>1, <4>1, <4>2
    <3>2. \A j \in Keys : raise'[j].pc = "publish" => Untouched(raise[j].n)'
      BY <1>1, <3>1 DEF Untouched, Clean, Queued
    <3> QED
      BY <1>1, <2>1, <2>6, <3>1, <3>2, Same DEF Fresh
  <2> QED
    BY <2>2, <2>8
<1>6. ASSUME Publish(k) PROVE Owned' /\ Fresh' /\ Pending'
  <2> DEFINE n == raise[k].n
  <2>1. n \in Alerts /\ n \in 1..count /\ Untouched(n)
    BY <1>6, NotificationsAssumption DEF Publish, Fresh, TypeOK, Alerts
  <2>2. note'[n].pc = "list" /\ note'[n].list = {}
        /\ \A m \in Alerts : m # n => note'[m] = note[m]
    BY <1>6, <2>1 DEF Publish, TypeOK, NoNote
  <2>3. \A j \in Keys : raise'[j].pc = "publish" => raise'[j] = raise[j] /\ j # k
    BY <1>6 DEF Publish, TypeOK, NoRaise
  <2>4. \A j \in Keys : raise[j].pc = "publish" /\ j # k => raise[j].n # n
    BY <1>6 DEF Publish, Fresh
  <2>5. ~(n > count)
    BY <2>1, NotificationsAssumption DEF TypeOK
  <2>6. count' = count
    BY <1>6 DEF Publish
  <2> HIDE DEF n
  <2>7. Owned' /\ Pending'
    BY <1>1, <2>2, Same DEF Owned, Pending
  <2>8. \A j \in Keys : raise[j].pc = "publish" => raise[j].n \in Alerts
    BY NotificationsAssumption DEF Fresh, TypeOK, Alerts
  <2>9. Fresh'
    <3>1. \A m \in Alerts : m > count' => note'[m].pc = "none" /\ Untouched(m)'
      BY <1>1, <2>2, <2>5, <2>6, Same DEF Fresh
    <3>2. \A j \in Keys : raise'[j].pc = "publish" =>
            /\ raise'[j].n \in 1..count'
            /\ note'[raise'[j].n].pc = "none" /\ Untouched(raise[j].n)'
            /\ \A i \in Keys : raise'[i].pc = "publish" /\ raise'[i].n = raise'[j].n => i = j
      BY <1>1, <2>2, <2>3, <2>4, <2>6, <2>8, Same DEF Fresh
    <3>3. \A m \in Alerts : note'[m].pc = "list" => Untouched(m)'
      BY <1>1, <2>1, <2>2, Same DEF Fresh
    <3> QED
      BY <3>1, <3>2, <3>3 DEF Fresh
  <2> QED
    BY <2>7, <2>9
<1> QED
  BY <1>2, <1>3, <1>4, <1>5, <1>6 DEF Collect

\* An attempt makes nothing more to be sent.
LEMMA OnceAttempt ==
  ASSUME Once, NEW s \in Senders, Attempt(s)
  PROVE  Owned' /\ Fresh' /\ Pending' /\ InQueue' /\ Passing' /\ Sending'
<1> USE DEF Once
<1> DEFINE d == out[s].dev
           n == out[s].n
<1>1. /\ d \in Devices /\ out[s].try \in Nat
      /\ got' \subseteq got \cup {<<d, n>>}
      /\ \A x \in Devices : subs'[x] = subs[x] \/ subs'[x] = Nobody
      /\ \/ out' = [out EXCEPT ![s] = NoOut]
         \/ out' = [out EXCEPT ![s].try = @ + 1]
      /\ UNCHANGED <<count, raise, note, queue, drain>>
  BY DEF Attempt, Idle, TypeOK, Out
<1>2. /\ \A t \in Senders : t # s => out'[t] = out[t]
      /\ out'[s].dev = Nobody \/ (out'[s].dev = d /\ out'[s].n = n)
  BY <1>1 DEF TypeOK, NoOut, Out
<1> HIDE DEF d, n
<1>3. \A x \in Devices : \A m : Clean(x, m) => Clean(x, m)'
  <2>1. ASSUME NEW x \in Devices, NEW m, Clean(x, m) PROVE Clean(x, m)'
    <3>1. <<x, m>> # <<d, n>>
      BY <2>1 DEF Clean, d, n
    <3> QED
      BY <1>1, <1>2, <2>1, <3>1, NotificationsAssumption DEF Clean
  <2> QED
    BY <2>1
<1>4. \A u, m : Kept(u, m) => Kept(u, m)'
  BY <1>3 DEF Kept
<1>5. \A u, m : Queued(u, m)' = Queued(u, m)
  BY <1>1 DEF Queued
<1>6. \A m : Untouched(m) => Untouched(m)'
  BY <1>3, <1>5 DEF Untouched
<1>7. Owned' /\ Fresh' /\ Pending'
  <2>1. Owned'
    BY <1>1 DEF Owned
  <2>2. Fresh'
    BY <1>1, <1>6 DEF Fresh
  <2>3. \A m \in Alerts : \A p \in note[m].list : p[1] \in Devices
    BY DEF TypeOK, Note
  <2>4. Pending'
    BY <1>1, <1>3, <1>4, <1>5, <2>3 DEF Pending
  <2> QED
    BY <2>1, <2>2, <2>4
<1>8. InQueue' /\ Passing'
  <2>1. \A x \in drain.left : x \in Devices
    BY DEF TypeOK, Drain
  <2> QED
    BY <1>1, <1>3, <1>4, <2>1 DEF InQueue, Passing
<1>9. Sending'
  <2>1. out[s].try # 0 /\ out'[s].try # 1 /\ (out'[s].try = 0 <=> out'[s].dev = Nobody)
    <3>1. d # Nobody /\ out[s].try # 0
      BY <1>1, NotificationsAssumption DEF Sending, d
    <3>2. CASE out' = [out EXCEPT ![s] = NoOut]
      BY <3>1, <3>2 DEF TypeOK, NoOut
    <3>3. CASE out' = [out EXCEPT ![s].try = @ + 1]
      <4>1. out'[s].try = out[s].try + 1 /\ out'[s].dev = d
        BY <3>3 DEF TypeOK, Out, d
      <4> QED
        BY <1>1, <3>1, <4>1
    <3> QED
      BY <1>1, <3>2, <3>3
  <2>2. ASSUME NEW t \in Senders, out'[t].try = 1
        PROVE  /\ <<out'[t].dev, out'[t].n>> \notin got'
               /\ \A r \in Senders : out'[r].dev = out'[t].dev /\ out'[r].n = out'[t].n => r = t
    <3>1. t # s /\ out'[t] = out[t]
      BY <1>2, <2>1, <2>2
    <3>2. <<out[t].dev, out[t].n>> \notin got /\ out[t].dev # Nobody
      BY <2>2, <3>1 DEF Sending
    <3>3. ~(out[t].dev = d /\ out[t].n = n)
      BY <2>2, <3>1 DEF Sending, d, n
    <3>4. \A r \in Senders : out[r].dev = out[t].dev /\ out[r].n = out[t].n => r = t
      BY <2>2, <3>1 DEF Sending
    <3>5. <<out[t].dev, out[t].n>> # <<d, n>>
      BY <3>3
    <3> QED
      BY <1>1, <1>2, <3>1, <3>2, <3>3, <3>4, <3>5
  <2>3. \A t \in Senders : out'[t].try = 0 <=> out'[t].dev = Nobody
    BY <1>2, <2>1 DEF Sending
  <2> QED
    BY <2>2, <2>3 DEF Sending
<1> QED
  BY <1>7, <1>8, <1>9

\* The steps of Notify that only change where it is.
LEMMA OnceNote ==
  ASSUME Once, NEW n \in Alerts,
         UNCHANGED <<subs, count, raise, queue, drain, out, got>>,
         NEW m \in Note, note' = [note EXCEPT ![n] = m],
         note[n].pc # "none", m.pc \notin {"none", "list"},
         \A p \in m.list : p[2] = Owner[p[1]],
         m.list # {} => m.pc \in {"next", "enqueue"},
         \A p \in m.list : /\ ~Queued(p[2], n) /\ Clean(p[1], n)
                           /\ p[2] \notin m.go => Kept(p[2], n)
                           /\ m.pc = "enqueue" => m.user # p[2],
         m.pc = "enqueue" => ~Queued(m.user, n) /\ Kept(m.user, n)
  PROVE  Owned' /\ Fresh' /\ Pending' /\ InQueue' /\ Passing' /\ Sending'
<1> USE DEF Once
<1>1. note'[n] = m /\ \A o \in Alerts : o # n => note'[o] = note[o]
  BY DEF TypeOK
<1>2. Owned'
  BY <1>1 DEF Owned
<1>3. Fresh'
  <2>1. ASSUME NEW j \in Keys, raise[j].pc = "publish" PROVE raise[j].n \in Alerts \ {n}
    BY <2>1, NotificationsAssumption DEF Fresh, TypeOK, Alerts
  <2>2. \A j \in Keys : raise[j].pc = "publish" => Untouched(raise[j].n)'
    BY DEF Fresh, Untouched, Clean, Queued
  <2> QED
    BY <1>1, <2>1, <2>2, Same DEF Fresh
<1>4. Pending'
  BY <1>1, Same DEF Pending
<1>5. InQueue' /\ Passing' /\ Sending'
  BY Same DEF InQueue, Passing
<1> QED
  BY <1>2, <1>3, <1>4, <1>5

LEMMA OnceNotify ==
  ASSUME Once, NEW n \in Alerts,
         NotifyList(n) \/ NotifyEnd(n) \/ \E u \in Users : Decide(n, u)
  PROVE  Owned' /\ Fresh' /\ Pending' /\ InQueue' /\ Passing' /\ Sending'
<1> USE DEF Once
<1>1. UNCHANGED <<subs, count, raise, queue, drain, out, got>>
  BY DEF NotifyList, NotifyEnd, Decide
<1>2. note[n] \in Note
  BY DEF TypeOK
<1>3. /\ \A p \in note[n].list : p[2] = Owner[p[1]]
      /\ note[n].list # {} => note[n].pc \in {"next", "enqueue"}
      /\ \A p \in note[n].list : /\ ~Queued(p[2], n) /\ Clean(p[1], n)
                                 /\ p[2] \notin note[n].go => Kept(p[2], n)
  BY DEF Owned, Pending
<1>4. CASE note[n].pc = "list" /\ note' = [note EXCEPT ![n].pc = "next",
                 ![n].list = {p \in Devices \X Users : subs[p[1]] = p[2]}]
  <2> DEFINE L == {p \in Devices \X Users : subs[p[1]] = p[2]}
             m == [note[n] EXCEPT !.pc = "next", !.list = L]
  <2>1. L \subseteq Devices \X Users /\ \A p \in L : p[2] = Owner[p[1]]
    BY NotificationsAssumption DEF Owned
  <2>2. \A p \in L : ~Queued(p[2], n) /\ Clean(p[1], n) /\ Kept(p[2], n)
    BY <1>4, <2>1 DEF Fresh, Untouched, Kept
  <2> HIDE DEF L
  <2>3. m \in Note /\ m.pc = "next" /\ m.list = L
    BY <1>2, <2>1 DEF Note
  <2>4. note' = [note EXCEPT ![n] = m]
    BY <1>4 DEF L
  <2> HIDE DEF m
  <2> QED
    BY <1>1, <1>4, <2>1, <2>2, <2>3, <2>4, OnceNote
<1>5. CASE note[n].pc = "list" /\ note' = [note EXCEPT ![n].pc = "done"]
  <2> DEFINE m == [note[n] EXCEPT !.pc = "done"]
  <2>1. m \in Note /\ m.pc = "done" /\ m.list = {}
    BY <1>2, <1>3, <1>5 DEF Note
  <2>2. note' = [note EXCEPT ![n] = m]
    BY <1>5
  <2> HIDE DEF m
  <2> QED
    BY <1>1, <1>5, <2>1, <2>2, OnceNote
<1>6. CASE NotifyEnd(n)
  <2> DEFINE m == [note[n] EXCEPT !.pc = "done"]
  <2>1. m \in Note /\ m.pc = "done" /\ m.list = {}
    BY <1>2, <1>6 DEF Note, NotifyEnd
  <2>2. note' = [note EXCEPT ![n] = m] /\ note[n].pc = "next"
    BY <1>6 DEF NotifyEnd
  <2> HIDE DEF m
  <2> QED
    BY <1>1, <2>1, <2>2, OnceNote
<1>7. ASSUME NEW u \in Users, Decide(n, u)
      PROVE  Owned' /\ Fresh' /\ Pending' /\ InQueue' /\ Passing' /\ Sending'
  <2> DEFINE L == note[n].list \ Of(u)
  <2>1. note[n].pc = "next" /\ ~Queued(u, n) /\ Kept(u, n)
    <3>1. PICK p \in note[n].list : p \in Of(u)
      BY <1>7 DEF Decide
    <3>2. p[2] = u
      BY <3>1 DEF Of
    <3>3. note[n].pc = "next" /\ u \notin note[n].go
      BY <1>7 DEF Decide
    <3> QED
      BY <1>3, <3>1, <3>2, <3>3
  <2>2. L \subseteq note[n].list /\ \A p \in L : p[2] # u
    BY <1>2 DEF Of, Note
  <2> HIDE DEF L
  <2>3. CASE note' = [note EXCEPT ![n].list = @ \ Of(u)]
    <3> DEFINE m == [note[n] EXCEPT !.list = L]
    <3>1. m \in Note /\ m.pc = "next" /\ m.list = L /\ m.go = note[n].go
      BY <1>2, <2>1, <2>2 DEF Note
    <3>2. note' = [note EXCEPT ![n] = m]
      BY <2>3 DEF L
    <3> HIDE DEF m
    <3> QED
      BY <1>1, <1>3, <2>1, <2>2, <3>1, <3>2, OnceNote
  <2>4. CASE note' = [note EXCEPT ![n].list = @ \ Of(u), ![n].pc = "enqueue", ![n].user = u]
    <3> DEFINE m == [note[n] EXCEPT !.list = L, !.pc = "enqueue", !.user = u]
    <3>1. m \in Note /\ m.pc = "enqueue" /\ m.list = L /\ m.go = note[n].go /\ m.user = u
      BY <1>2, <2>1, <2>2 DEF Note
    <3>2. note' = [note EXCEPT ![n] = m]
      BY <2>4 DEF L
    <3> HIDE DEF m
    <3> QED
      BY <1>1, <1>3, <2>1, <2>2, <3>1, <3>2, OnceNote
  <2>5. CASE note' = [note EXCEPT ![n].go = @ \cup {u}]
    <3> DEFINE m == [note[n] EXCEPT !.go = @ \cup {u}]
    <3>1. m \in Note /\ m.pc = "next" /\ m.list = note[n].list /\ m.go = note[n].go \cup {u}
      BY <1>2, <2>1 DEF Note
    <3>2. note' = [note EXCEPT ![n] = m]
      BY <2>5
    <3> HIDE DEF m
    <3> QED
      BY <1>1, <1>3, <2>1, <3>1, <3>2, OnceNote
  <2>6. \/ note' = [note EXCEPT ![n].list = @ \ Of(u)]
        \/ note' = [note EXCEPT ![n].list = @ \ Of(u), ![n].pc = "enqueue", ![n].user = u]
        \/ note' = [note EXCEPT ![n].go = @ \cup {u}]
    BY <1>2, <1>7 DEF Decide, TypeOK
  <2> QED
    BY <2>3, <2>4, <2>5, <2>6
<1> QED
  BY <1>4, <1>5, <1>6, <1>7 DEF NotifyList

\* Only this user's alert is put in the queue.
LEMMA OnceEnqueue ==
  ASSUME Once, NEW n \in Alerts, Enqueue(n)
  PROVE  Owned' /\ Fresh' /\ Pending' /\ InQueue' /\ Passing' /\ Sending'
<1> USE DEF Once
<1> DEFINE u == note[n].user
<1>1. /\ UNCHANGED <<subs, count, raise, drain, out, got>>
      /\ note[n].pc = "enqueue" /\ u \in Users /\ note[n] \in Note
      /\ ~Queued(u, n) /\ Kept(u, n)
  BY DEF Enqueue, TypeOK, Pending
<1>2. /\ note'[n].pc = "next" /\ note'[n].list = note[n].list /\ note'[n].go = note[n].go
      /\ \A m \in Alerts : m # n => note'[m] = note[m]
  BY <1>1 DEF Enqueue, TypeOK, Note
<1>3. \A p \in note[n].list : p[2] # u
  BY <1>1 DEF Pending
<1>4. /\ queue \subseteq queue'
      /\ \A q \in queue' : q \in queue \/ (q.user = u /\ q.n = n)
      /\ \A q, o \in queue' : q \in queue \/ o \in queue \/ q = o
  BY DEF Enqueue
<1> HIDE DEF u
<1>5. /\ \A x, m : Clean(x, m)' = Clean(x, m)
      /\ \A v, m : Kept(v, m)' = Kept(v, m)
      /\ Sending' = Sending
  BY <1>1 DEF Clean, Kept, Sending
<1>6. \A v, m : Queued(v, m)' => Queued(v, m) \/ (v = u /\ m = n)
  BY <1>4 DEF Queued
<1>7. \A m : Untouched(m) /\ m # n => Untouched(m)'
  BY <1>5, <1>6 DEF Untouched
<1>8. Owned'
  BY <1>1, <1>2 DEF Owned
<1>9. Fresh'
  <2>1. ASSUME NEW j \in Keys, raise[j].pc = "publish"
        PROVE  raise[j].n \in Alerts \ {n} /\ Untouched(raise[j].n)'
    <3>1. raise[j].n \in Alerts \ {n}
      BY <1>1, <2>1, NotificationsAssumption DEF Fresh, TypeOK, Alerts
    <3>2. Untouched(raise[j].n)
      BY <2>1 DEF Fresh
    <3>3. \A v \in Users : ~Queued(v, raise[j].n)'
      BY <1>1, <1>4, <3>1, <3>2 DEF Untouched, Queued
    <3>4. \A x \in Devices : Clean(x, raise[j].n)'
      BY <1>1, <3>2 DEF Untouched, Clean
    <3> QED
      BY <3>1, <3>3, <3>4 DEF Untouched
  <2>2. \A j \in Keys : raise[j].pc = "publish" => Untouched(raise[j].n)'
    BY <2>1
  <2> QED
    BY <1>1, <1>2, <1>7, <2>1, <2>2 DEF Fresh
<1>10. Pending'
  <2>1. ASSUME NEW m \in Alerts, NEW p \in note'[m].list
        PROVE  /\ ~Queued(p[2], m)' /\ Clean(p[1], m)'
               /\ p[2] \notin note'[m].go => Kept(p[2], m)'
               /\ note'[m].pc = "enqueue" => note'[m].user # p[2]
    BY <1>2, <1>3, <1>5, <1>6, <2>1 DEF Pending
  <2>2. ASSUME NEW m \in Alerts, note'[m].pc = "enqueue"
        PROVE  ~Queued(note[m].user, m)' /\ Kept(note[m].user, m)'
    BY <1>2, <1>5, <1>6, <2>2 DEF Pending
  <2>3. \A m \in Alerts : note'[m].list # {} => note'[m].pc \in {"next", "enqueue"}
    BY <1>2 DEF Pending
  <2> QED
    BY <2>1, <2>2, <2>3 DEF Pending
<1>11. InQueue'
  <2>1. \A q \in queue : ~(q.user = u /\ q.n = n)
    BY <1>1 DEF Queued
  <2>2. \A q, o \in queue' : q.user = o.user /\ q.n = o.n => q = o
    BY <1>4, <2>1 DEF InQueue
  <2>3. \A q \in queue' : q \in drain.read \/ Kept(q.user, q.n)'
    BY <1>1, <1>4, <1>5 DEF InQueue
  <2> QED
    BY <1>1, <1>5, <2>2, <2>3 DEF InQueue
<1>12. Passing'
  BY <1>1, <1>4, <1>5 DEF Passing
<1> QED
  BY <1>1, <1>5, <1>8, <1>9, <1>10, <1>11, <1>12

\* Sending alert n to d for the first time concerns nobody else when the alert
\* is not queued for d's user, or is being sent from the queue.
LEMMA OnceSend ==
  ASSUME Once, NEW s \in Senders, NEW d \in Devices, NEW n \in Alerts,
         Idle(s), Send(s, d, n), Clean(d, n), UNCHANGED <<queue, got>>
  PROVE  /\ Sending'
         /\ \A u, m : Queued(u, m)' = Queued(u, m)
         /\ \A x, m : Clean(x, m) /\ (x # d \/ m # n) => Clean(x, m)'
         /\ \A u, m : Kept(u, m) /\ (u # Owner[d] \/ m # n) => Kept(u, m)'
         /\ \A m : Untouched(m) /\ m # n => Untouched(m)'
<1> USE DEF Once
<1>1. /\ out'[s].dev = d /\ out'[s].n = n /\ out'[s].try = 1
      /\ \A t \in Senders : t # s => out'[t] = out[t]
  BY DEF Send, TypeOK
<1>2. Sending'
  BY <1>1, NotificationsAssumption DEF Sending, Clean
<1>3. \A u, m : Queued(u, m)' = Queued(u, m)
  BY DEF Queued
<1>4. \A x, m : Clean(x, m) /\ (x # d \/ m # n) => Clean(x, m)'
  BY <1>1 DEF Clean
<1>5. \A u, m : Kept(u, m) /\ (u # Owner[d] \/ m # n) => Kept(u, m)'
  BY <1>4 DEF Kept
<1>6. \A m : Untouched(m) /\ m # n => Untouched(m)'
  BY <1>3, <1>4 DEF Untouched
<1> QED
  BY <1>2, <1>3, <1>4, <1>5, <1>6

LEMMA OnceNotifyOne ==
  ASSUME Once, NEW n \in Alerts, NEW p \in note[n].list, NotifyOne(n, p)
  PROVE  Owned' /\ Fresh' /\ Pending' /\ InQueue' /\ Passing' /\ Sending'
<1> USE DEF Once
<1> DEFINE L == note[n].list \ {p}
           m == [note[n] EXCEPT !.list = L]
           d == p[1]
<1>1. /\ UNCHANGED <<subs, count, raise, queue, drain, got>>
      /\ note[n].pc = "next" /\ Idle(n) /\ note' = [note EXCEPT ![n] = m]
      /\ out' = out \/ Send(n, d, n)
      /\ p[2] \in note[n].go
  BY DEF NotifyOne
<1>2. note[n] \in Note /\ d \in Devices
  BY DEF TypeOK, Note
<1>3. L \subseteq note[n].list /\ p \notin L
  OBVIOUS
<1>4. p[2] = Owner[d] /\ ~Queued(p[2], n) /\ Clean(d, n)
  BY DEF Owned, Pending
<1>5. m \in Note /\ m.pc = "next" /\ m.list = L /\ m.go = note[n].go
  BY <1>1, <1>2 DEF Note
<1> HIDE DEF m, L
<1>6. note'[n] = m /\ \A o \in Alerts : o # n => note'[o] = note[o]
  BY <1>1 DEF TypeOK
<1>7. CASE out' = out
  BY <1>1, <1>3, <1>5, <1>6, <1>7, OnceNote DEF Owned, Pending
<1>8. CASE Send(n, d, n)
  <2>1. n \in Senders
    BY ConstantsTyped
  <2>2. /\ Sending'
        /\ \A u, o : Queued(u, o)' = Queued(u, o)
        /\ \A x, o : Clean(x, o) /\ (x # d \/ o # n) => Clean(x, o)'
        /\ \A u, o : Kept(u, o) /\ (u # Owner[d] \/ o # n) => Kept(u, o)'
        /\ \A o : Untouched(o) /\ o # n => Untouched(o)'
    BY <1>1, <1>2, <1>4, <1>8, <2>1, OnceSend
  <2> HIDE DEF d
  <2>3. Owned'
    BY <1>1, <1>3, <1>5, <1>6 DEF Owned
  <2>4. Fresh'
    <3>1. ASSUME NEW j \in Keys, raise[j].pc = "publish"
          PROVE  raise[j].n \in Alerts \ {n}
      BY <1>1, <3>1, NotificationsAssumption DEF Fresh, TypeOK, Alerts
    <3>2. \A j \in Keys : raise[j].pc = "publish" => Untouched(raise[j].n)'
      <4>1. ASSUME NEW j \in Keys, raise[j].pc = "publish"
            PROVE  \E o : o = raise'[j].n /\ Untouched(o)'
        BY <1>1, <2>2, <3>1, <4>1 DEF Fresh
      <4> QED
        BY <1>1, <4>1
    <3> QED
      BY <1>1, <1>5, <1>6, <2>2, <3>1, <3>2 DEF Fresh
  <2>5. ASSUME NEW q \in queue PROVE q.user # Owner[d] \/ q.n # n
    BY <1>4 DEF Queued
  <2>6. Pending'
    <3>1. \A o \in L : o[1] # d
      <4>1. ASSUME NEW o \in L, o[1] = d PROVE FALSE
        <5>1. o[2] = p[2] /\ o[1] = p[1] /\ o \in Devices \X Users /\ p \in Devices \X Users
          BY <1>2, <1>3, <1>4, <4>1 DEF Owned, Note, d
        <5> QED
          BY <1>3, <4>1, <5>1
      <4> QED
        BY <4>1
    <3>2. \A o \in L : o[2] \notin m.go => o[2] # Owner[d]
      BY <1>1, <1>4, <1>5
    <3>3. ASSUME NEW o \in Alerts, NEW q \in note'[o].list
          PROVE  /\ ~Queued(q[2], o)' /\ Clean(q[1], o)'
                 /\ q[2] \notin note'[o].go => Kept(q[2], o)'
                 /\ note'[o].pc = "enqueue" => note'[o].user # q[2]
      <4>1. CASE o = n
        BY <1>3, <1>5, <1>6, <2>2, <3>1, <3>2, <3>3, <4>1 DEF Pending
      <4>2. CASE o # n
        BY <1>6, <2>2, <3>3, <4>2 DEF Pending
      <4> QED
        BY <4>1, <4>2
    <3>4. ASSUME NEW o \in Alerts, note'[o].pc = "enqueue"
          PROVE  ~Queued(note[o].user, o)' /\ Kept(note[o].user, o)'
      BY <1>5, <1>6, <2>2, <3>4 DEF Pending
    <3>5. \A o \in Alerts : note'[o].list # {} => note'[o].pc \in {"next", "enqueue"}
      BY <1>5, <1>6 DEF Pending
    <3> QED
      BY <3>3, <3>4, <3>5 DEF Pending
  <2>7. InQueue'
    <3>1. \A q \in queue : q \in drain.read \/ Kept(q.user, q.n)'
      BY <2>2, <2>5 DEF InQueue
    <3> QED
      BY <1>1, <3>1 DEF InQueue
  <2>8. Passing'
    <3>1. \A q \in drain.todo : Kept(q.user, q.n)'
      BY <2>2, <2>5 DEF Passing
    <3>2. ASSUME NEW x \in drain.left PROVE Clean(x, drain.n)'
      <4>1. PICK q \in drain.read : q.n = drain.n
        BY DEF Passing
      <4>2. q \in queue /\ q.user = Owner[x]
        BY <4>1 DEF Passing, Owned
      <4>3. x # d \/ drain.n # n
        BY <2>5, <4>1, <4>2
      <4>4. \E o : o = drain'.n /\ Clean(x, o)'
        BY <1>1, <2>2, <4>3 DEF Passing
      <4> QED
        BY <1>1, <4>4
    <3> QED
      BY <1>1, <3>1, <3>2 DEF Passing
  <2> QED
    BY <2>2, <2>3, <2>4, <2>6, <2>7, <2>8
<1> QED
  BY <1>1, <1>7, <1>8

\* The steps of the pass over the queue that send nothing.
LEMMA OnceDrain ==
  ASSUME Once, NEW D \in Drain, drain' = D,
         UNCHANGED <<subs, count, raise, note, queue, out, got>>,
         \A d \in D.devs \cup D.left : Owner[d] = D.user,
         \A q \in queue : q \in D.read \/ Kept(q.user, q.n),
         \A q \in D.read : q \in queue /\ q.user = D.user,
         D.todo \subseteq D.read,
         D.pc \in {"idle", "user", "read"} => D.read = {} /\ D.devs = {},
         D.pc \in {"read", "subs"} => D.user \in Users,
         D.pc = "subs" => D.todo = D.read,
         \A q \in D.todo : Kept(q.user, q.n) /\ (D.left # {} => q.n # D.n),
         D.left # {} => \E q \in D.read : q.n = D.n,
         \A d \in D.left : Clean(d, D.n)
  PROVE  Owned' /\ Fresh' /\ Pending' /\ InQueue' /\ Passing' /\ Sending'
<1> USE DEF Once
<1>1. Owned'
  BY DEF Owned
<1>2. Fresh'
  <2>1. \A j \in Keys : raise[j].pc = "publish" => Untouched(raise[j].n)'
    BY DEF Fresh, Untouched, Clean, Queued
  <2> QED
    BY <2>1, Same DEF Fresh
<1>3. Pending' /\ Sending'
  BY Same DEF Pending
<1>4. InQueue'
  BY Same DEF InQueue
<1>5. Passing'
  BY Same DEF Passing
<1> QED
  BY <1>1, <1>2, <1>3, <1>4, <1>5

LEMMA OnceDrainSteps ==
  ASSUME Once,
         \/ DrainQueue \/ DrainEnd \/ DrainRead \/ DrainSubs \/ DrainDone
         \/ \E u \in Users : DrainUser(u)
         \/ \E q \in drain.todo : DrainItem(q)
         \/ \E d \in Devices : DrainOne(d) /\ out' = out
  PROVE  Owned' /\ Fresh' /\ Pending' /\ InQueue' /\ Passing' /\ Sending'
<1> USE DEF Once
<1>1. UNCHANGED <<subs, count, raise, note, queue, out, got>>
  BY DEF DrainQueue, DrainEnd, DrainRead, DrainSubs, DrainDone, DrainUser, DrainItem, DrainOne
<1>2. drain \in Drain /\ queue \subseteq Item
  BY DEF TypeOK
<1>3. CASE DrainQueue \/ DrainEnd
  <2>1. PICK D \in Drain : /\ drain' = D /\ D.read = {} /\ D.todo = {} /\ D.left = {}
                           /\ D.devs = {} /\ D.pc \in {"idle", "user"}
    <3>1. {q.user : q \in queue} \subseteq Users /\ hour \in 0..(Hours - 1)
      BY <1>2 DEF Item, TypeOK
    <3>2. CASE DrainQueue
      <4> DEFINE U == {q.user : q \in queue}
                 D == [NoDrain EXCEPT !.pc = "user", !.hour = hour, !.users = U]
      <4>1. drain' = D
        BY <3>2 DEF DrainQueue
      <4> HIDE DEF U
      <4>2. /\ D \in Drain /\ D.read = {} /\ D.todo = {} /\ D.left = {}
            /\ D.devs = {} /\ D.pc \in {"idle", "user"}
        BY <3>1, ConstantsTyped DEF Drain, NoDrain, U
      <4> QED
        BY <4>1, <4>2
    <3>3. CASE DrainEnd
      BY <3>3, ConstantsTyped DEF DrainEnd, NoDrain
    <3> QED
      BY <1>3, <3>2, <3>3
  <2>2. drain.read = {}
    BY <1>3 DEF DrainQueue, DrainEnd, Passing
  <2> QED
    BY <1>1, <2>1, <2>2, OnceDrain DEF InQueue
<1>4. CASE drain' = NextUser /\ drain.pc \in {"read", "subs"}
  <2>1. NextUser \in Drain
    BY <1>2, ConstantsTyped DEF NextUser, Drain
  <2>2. /\ NextUser.read = {} /\ NextUser.todo = {} /\ NextUser.left = {} /\ NextUser.devs = {}
        /\ NextUser.pc = "user"
    BY DEF NextUser, NoDrain
  <2>3. \A q \in drain.read : Kept(q.user, q.n)
    BY <1>4 DEF Passing
  <2> QED
    BY <1>1, <1>4, <2>1, <2>2, <2>3, OnceDrain DEF InQueue
<1>5. CASE /\ drain.pc = "read"
           /\ drain' = [drain EXCEPT !.pc = IF QueueOf(drain.user) = {} THEN "clear" ELSE "subs",
                                     !.read = QueueOf(drain.user), !.todo = QueueOf(drain.user)]
  <2> DEFINE items == QueueOf(drain.user)
             D == [drain EXCEPT !.pc = IF items = {} THEN "clear" ELSE "subs",
                                !.read = items, !.todo = items]
  <2>1. \A q : q \in items <=> q \in queue /\ q.user = drain.user
    BY DEF QueueOf
  <2>2. drain' = D
    BY <1>5
  <2> HIDE DEF items
  <2>3. drain.read = {} /\ drain.devs = {} /\ drain.left = {} /\ drain.user \in Users
    BY <1>5 DEF Passing
  <2>4. /\ D \in Drain /\ D.read = items /\ D.todo = items /\ D.left = drain.left
        /\ D.devs = drain.devs /\ D.user = drain.user
        /\ D.pc = "clear" \/ D.pc = "subs"
    BY <1>2, <2>1 DEF Drain
  <2>5. \A q \in queue : Kept(q.user, q.n)
    BY <2>3 DEF InQueue
  <2> HIDE DEF D
  <2> QED
    BY <1>1, <2>1, <2>2, <2>3, <2>4, <2>5, OnceDrain
<1>6. CASE /\ drain.pc = "subs"
           /\ drain' = [drain EXCEPT !.pc = "item",
                                     !.devs = {d \in Devices : subs[d] = drain.user}]
  <2> DEFINE M == {d \in Devices : subs[d] = drain.user}
             D == [drain EXCEPT !.pc = "item", !.devs = M]
  <2>1. drain' = D
    BY <1>6
  <2>2. M \subseteq Devices /\ \A d \in M : Owner[d] = drain.user
    BY <1>6, NotificationsAssumption DEF Owned, Passing
  <2> HIDE DEF M
  <2>3. /\ D \in Drain /\ D.read = drain.read /\ D.todo = drain.todo /\ D.left = drain.left
        /\ D.devs = M /\ D.user = drain.user /\ D.n = drain.n /\ D.pc = "item"
    BY <1>2, <2>2 DEF Drain
  <2> HIDE DEF D
  <2> QED
    BY <1>1, <2>1, <2>2, <2>3, OnceDrain DEF Owned, InQueue, Passing
<1>7. CASE DrainDone
  <2> DEFINE D == [drain EXCEPT !.pc = "clear"]
  <2>1. drain' = D /\ drain.left = {} /\ drain.todo = {}
    BY <1>7 DEF DrainDone
  <2>2. /\ D \in Drain /\ D.read = drain.read /\ D.todo = drain.todo /\ D.left = drain.left
        /\ D.devs = drain.devs /\ D.user = drain.user /\ D.pc = "clear"
    BY <1>2 DEF Drain
  <2> HIDE DEF D
  <2> QED
    BY <1>1, <2>1, <2>2, OnceDrain DEF Owned, InQueue, Passing
<1>8. ASSUME NEW u \in Users, DrainUser(u)
      PROVE  Owned' /\ Fresh' /\ Pending' /\ InQueue' /\ Passing' /\ Sending'
  <2>1. drain.pc = "user" /\ drain.read = {} /\ drain.devs = {} /\ drain.left = {}
        /\ drain.todo = {}
    BY <1>8 DEF DrainUser, Passing
  <2>2. PICK D \in Drain : /\ drain' = D /\ D.read = {} /\ D.devs = {} /\ D.left = {}
                           /\ D.todo = {}
                           /\ D.pc = "user" \/ (D.pc = "read" /\ D.user = u)
    <3>1. CASE drain' = [drain EXCEPT !.users = @ \ {u}]
      BY <1>2, <2>1, <3>1 DEF Drain
    <3>2. CASE drain' = [drain EXCEPT !.users = @ \ {u}, !.pc = "read", !.user = u]
      <4> DEFINE D == [drain EXCEPT !.users = @ \ {u}, !.pc = "read", !.user = u]
      <4>1. D \in Drain /\ D.pc = "read" /\ D.user = u
        BY <1>2 DEF Drain
      <4>2. D.read = {} /\ D.devs = {} /\ D.left = {} /\ D.todo = {}
        BY <2>1
      <4> QED
        BY <3>2, <4>1, <4>2
    <3> QED
      BY <1>8, <3>1, <3>2 DEF DrainUser
  <2> QED
    BY <1>1, <2>1, <2>2, OnceDrain DEF InQueue
<1>9. ASSUME NEW q \in drain.todo, DrainItem(q)
      PROVE  Owned' /\ Fresh' /\ Pending' /\ InQueue' /\ Passing' /\ Sending'
  <2>1. drain.pc = "item" /\ drain.left = {} /\ drain.todo \subseteq drain.read
    BY <1>9 DEF DrainItem, Passing
  <2>2. CASE drain' = [drain EXCEPT !.todo = @ \ {q}]
    <3> DEFINE D == [drain EXCEPT !.todo = @ \ {q}]
    <3>1. /\ D \in Drain /\ D.read = drain.read /\ D.todo = drain.todo \ {q}
          /\ D.left = drain.left /\ D.devs = drain.devs /\ D.user = drain.user /\ D.pc = "item"
      BY <1>2, <2>1 DEF Drain
    <3>2. drain' = D
      BY <2>2
    <3> HIDE DEF D
    <3> QED
      BY <1>1, <2>1, <3>1, <3>2, OnceDrain DEF Owned, InQueue, Passing
  <2>3. CASE drain' = [drain EXCEPT !.todo = @ \ {q}, !.n = q.n, !.left = drain.devs]
    <3> DEFINE D == [drain EXCEPT !.todo = @ \ {q}, !.n = q.n, !.left = drain.devs]
    <3>1. q.n \in Senders /\ q \in drain.read /\ q.user = drain.user /\ Kept(q.user, q.n)
      BY <1>2, <2>1, ConstantsTyped DEF Passing, Drain, Item
    <3>2. /\ D \in Drain /\ D.read = drain.read /\ D.todo = drain.todo \ {q} /\ D.n = q.n
          /\ D.left = drain.devs /\ D.devs = drain.devs /\ D.user = drain.user /\ D.pc = "item"
      BY <1>2, <2>1, <3>1 DEF Drain
    <3>3. drain' = D
      BY <2>3
    <3>4. \A o \in drain.todo \ {q} : o.n # q.n
      BY <2>1, <3>1 DEF Passing, InQueue
    <3>5. \A d \in drain.devs : d \in Devices /\ Clean(d, q.n)
      <4>1. \A d \in drain.devs : d \in Devices /\ Owner[d] = q.user
        BY <1>2, <3>1 DEF Owned, Drain
      <4> QED
        BY <3>1, <4>1 DEF Kept
    <3> HIDE DEF D
    <3>6. /\ \A o \in drain.read : o \in queue /\ o.user = drain.user
          /\ \A o \in drain.todo : Kept(o.user, o.n)
          /\ \A o \in queue : o \in drain.read \/ Kept(o.user, o.n)
          /\ \A d \in drain.devs : Owner[d] = drain.user
      BY DEF Passing, InQueue, Owned
    <3> QED
      BY <1>1, <2>1, <3>1, <3>2, <3>3, <3>4, <3>5, <3>6, OnceDrain
  <2> QED
    BY <1>9, <2>2, <2>3 DEF DrainItem
<1>10. ASSUME NEW d \in Devices, DrainOne(d), out' = out
       PROVE  Owned' /\ Fresh' /\ Pending' /\ InQueue' /\ Passing' /\ Sending'
  <2>1. drain.pc = "item" /\ drain' = [drain EXCEPT !.left = {}]
    <3>1. CASE Send(0, d, drain.n)
      <4>1. out'[0].dev = d /\ out[0].dev = Nobody
        BY <1>10, <3>1, ConstantsTyped DEF DrainOne, Send, Idle, TypeOK
      <4> QED
        BY <1>10, <4>1, NotificationsAssumption
    <3> QED
      BY <1>10, <3>1 DEF DrainOne
  <2> DEFINE D == [drain EXCEPT !.left = {}]
  <2>2. /\ D \in Drain /\ D.read = drain.read /\ D.todo = drain.todo /\ D.left = {}
        /\ D.devs = drain.devs /\ D.user = drain.user /\ D.pc = "item"
    BY <1>2, <2>1 DEF Drain
  <2>3. drain' = D
    BY <2>1
  <2> HIDE DEF D
  <2> QED
    BY <1>1, <2>2, <2>3, OnceDrain DEF Owned, InQueue, Passing
<1> QED
  BY <1>3, <1>4, <1>5, <1>6, <1>7, <1>8, <1>9, <1>10 DEF DrainRead, DrainSubs

\* What is being sent from the queue is in it, so Notify has nothing to do with it.
LEMMA OnceDrainOne ==
  ASSUME Once, NEW d \in Devices, DrainOne(d), Send(0, d, drain.n),
         drain' = [drain EXCEPT !.left = @ \ {d}]
  PROVE  Owned' /\ Fresh' /\ Pending' /\ InQueue' /\ Passing' /\ Sending'
<1> USE DEF Once
<1> DEFINE n == drain.n
           L == drain.left \ {d}
           D == [drain EXCEPT !.left = L]
<1>1. /\ UNCHANGED <<subs, count, raise, note, queue, got>>
      /\ drain.pc = "item" /\ d \in drain.left /\ Idle(0) /\ Send(0, d, n) /\ drain' = D
  BY DEF DrainOne
<1>2. PICK i \in drain.read : i.n = n
  BY <1>1 DEF Passing
<1>3. i \in queue /\ i.user = Owner[d] /\ Owner[d] = drain.user
  BY <1>1, <1>2 DEF Passing, Owned
<1>4. n \in Alerts /\ Owner[d] \in Users /\ Queued(Owner[d], n)
  BY <1>2, <1>3 DEF TypeOK, Item, Queued
<1>5. Clean(d, n)
  BY <1>1 DEF Passing
<1> HIDE DEF n
<1>6. /\ Sending'
      /\ \A u, o : Queued(u, o)' = Queued(u, o)
      /\ \A x, o : Clean(x, o) /\ (x # d \/ o # n) => Clean(x, o)'
      /\ \A u, o : Kept(u, o) /\ (u # Owner[d] \/ o # n) => Kept(u, o)'
      /\ \A o : Untouched(o) /\ o # n => Untouched(o)'
  BY <1>1, <1>4, <1>5, ConstantsTyped, OnceSend
<1>7. \A o : Untouched(o) => o # n
  BY <1>4 DEF Untouched
<1>8. L \subseteq drain.left /\ d \notin L
  OBVIOUS
<1>9. /\ D.read = drain.read /\ D.todo = drain.todo /\ D.left = L /\ D.devs = drain.devs
      /\ D.user = drain.user /\ D.n = drain.n /\ D.pc = "item"
  BY <1>1 DEF TypeOK, Drain
<1> HIDE DEF D, L
<1>10. Owned'
  BY <1>1, <1>8, <1>9 DEF Owned
<1>11. Fresh'
  <2>1. \A j \in Keys : raise[j].pc = "publish" => Untouched(raise[j].n)'
    <3>1. ASSUME NEW j \in Keys, raise[j].pc = "publish"
          PROVE  \E o : o = raise'[j].n /\ Untouched(o)'
      BY <1>1, <1>6, <1>7, <3>1 DEF Fresh
    <3> QED
      BY <1>1, <3>1
  <2> QED
    BY <1>1, <1>6, <1>7, <2>1 DEF Fresh
<1>12. Pending'
  <2>1. ASSUME NEW o \in Alerts, NEW q \in note[o].list
        PROVE  /\ ~Queued(q[2], o)' /\ Clean(q[1], o)'
               /\ q[2] \notin note[o].go => Kept(q[2], o)'
               /\ note[o].pc = "enqueue" => note[o].user # q[2]
    <3>1. q[2] = Owner[q[1]] /\ ~Queued(q[2], o) /\ Clean(q[1], o)
      BY DEF Owned, Pending
    <3>2. q[2] # Owner[d] \/ o # n
      BY <1>4, <3>1
    <3> QED
      BY <1>6, <3>1, <3>2 DEF Pending
  <2>2. ASSUME NEW o \in Alerts, note[o].pc = "enqueue"
        PROVE  ~Queued(note[o].user, o)' /\ Kept(note[o].user, o)'
    <3>1. note[o].user # Owner[d] \/ o # n
      BY <1>4, <2>2 DEF Pending
    <3>2. \E u : u = note'[o].user /\ ~Queued(u, o)' /\ Kept(u, o)'
      BY <1>1, <1>6, <2>2, <3>1 DEF Pending
    <3> QED
      BY <1>1, <3>2
  <2> QED
    BY <1>1, <2>1, <2>2 DEF Pending
<1>13. InQueue'
  <2>1. ASSUME NEW q \in queue PROVE q \in drain.read \/ Kept(q.user, q.n)'
    <3>1. CASE q.user = Owner[d] /\ q.n = n
      BY <1>2, <1>3, <3>1 DEF InQueue
    <3>2. CASE q.user # Owner[d] \/ q.n # n
      BY <1>6, <3>2 DEF InQueue
    <3> QED
      BY <3>1, <3>2
  <2> QED
    BY <1>1, <1>9, <2>1 DEF InQueue
<1>14. Passing'
  <2>1. \A q \in drain.todo : Kept(q.user, q.n)' /\ q.n # n
    BY <1>1, <1>6 DEF Passing, n
  <2>2. \A x \in L : Clean(x, n)'
    BY <1>6, <1>8 DEF Passing, n
  <2>3. \A x \in drain'.left : Clean(x, drain.n)'
    <3>1. \A x \in L : \E o : o = drain'.n /\ Clean(x, o)'
      BY <1>1, <1>6, <1>8, <1>9 DEF Passing, n
    <3> QED
      BY <1>1, <1>9, <3>1
  <2> QED
    BY <1>1, <1>2, <1>9, <2>1, <2>3 DEF Passing, n
<1> QED
  BY <1>6, <1>10, <1>11, <1>12, <1>13, <1>14

\* The pass deletes all that it read.
LEMMA OnceClear ==
  ASSUME Once, "clear" \notin Env, ClearQueue
  PROVE  Owned' /\ Fresh' /\ Pending' /\ InQueue' /\ Passing' /\ Sending'
<1> USE DEF Once
<1>1. /\ UNCHANGED <<subs, count, raise, note, out, got>>
      /\ queue' \subseteq queue /\ \A q \in queue' : q.user # drain.user
      /\ drain' = NextUser
  BY DEF ClearQueue, QueueOf
<1>2. NextUser.read = {} /\ NextUser.todo = {} /\ NextUser.left = {} /\ NextUser.devs = {}
      /\ NextUser.pc = "user"
  BY DEF NextUser, NoDrain
<1>3. /\ \A d, n : Clean(d, n)' = Clean(d, n)
      /\ \A u, n : Kept(u, n)' = Kept(u, n)
      /\ \A u, n : Queued(u, n)' => Queued(u, n)
      /\ Sending' = Sending
  BY <1>1 DEF Clean, Kept, Queued, Sending
<1>4. \A n : Untouched(n) => Untouched(n)'
  BY <1>3 DEF Untouched
<1>5. Owned' /\ Pending' /\ Passing'
  BY <1>1, <1>2, <1>3 DEF Owned, Pending, Passing
<1>6. Fresh'
  <2>1. \A j \in Keys : raise[j].pc = "publish" => Untouched(raise[j].n)'
    BY <1>1 DEF Fresh, Untouched, Clean, Queued
  <2> QED
    BY <1>1, <1>4, <2>1 DEF Fresh
<1>7. InQueue'
  <2>1. \A q \in queue' : q \notin drain.read
    BY <1>1 DEF Passing
  <2>2. \A q \in queue' : Kept(q.user, q.n)'
    BY <1>1, <1>3, <2>1 DEF InQueue
  <2> QED
    BY <1>1, <2>2 DEF InQueue
<1> QED
  BY <1>3, <1>5, <1>6, <1>7

\* After a crash no sending of this life is known, and the queue is as it was.
LEMMA OnceCrash ==
  ASSUME Once, Crash
  PROVE  Owned' /\ Fresh' /\ Pending' /\ InQueue' /\ Passing' /\ Sending'
<1> USE DEF Once
<1>1. \A d \in Devices : \A n : Clean(d, n)'
  BY NotificationsAssumption DEF Crash, Clean, NoOut
<1>2. \A u, n : Kept(u, n)'
  BY <1>1 DEF Kept
<1>3. \A u, n : Queued(u, n)' = Queued(u, n)
  BY DEF Crash, Queued
<1>4. \A n : Untouched(n) => Untouched(n)'
  BY <1>1, <1>3 DEF Untouched
<1>5. Owned'
  BY DEF Crash, Owned, NoNote, NoDrain
<1>6. Fresh'
  BY <1>4 DEF Crash, Fresh, NoNote, NoRaise
<1>7. Pending' /\ Passing'
  BY DEF Crash, Pending, Passing, NoNote, NoDrain
<1>8. InQueue'
  BY <1>2 DEF Crash, InQueue
<1>9. Sending'
  BY DEF Crash, Sending, NoOut
<1> QED
  BY <1>5, <1>6, <1>7, <1>8, <1>9

\* The steps of acknowledgements, subscriptions and settings.
LEMMA OnceOther ==
  ASSUME Once, UNCHANGED <<count, raise, note, queue, drain, out, got>>,
         \A d \in Devices : subs'[d] \in {subs[d], Owner[d], Nobody}
  PROVE  Owned' /\ Fresh' /\ Pending' /\ InQueue' /\ Passing' /\ Sending'
<1> USE DEF Once
<1>1. Owned'
  BY DEF Owned
<1>2. Fresh'
  <2>1. \A j \in Keys : raise[j].pc = "publish" => Untouched(raise[j].n)'
    BY DEF Fresh, Untouched, Clean, Queued
  <2> QED
    BY <2>1, Same DEF Fresh
<1>3. Pending' /\ InQueue' /\ Passing' /\ Sending'
  BY Same DEF Pending, InQueue, Passing
<1> QED
  BY <1>1, <1>2, <1>3

LEMMA OnceStep ==
  ASSUME "clear" \notin Env
  PROVE  Once /\ [Next]_vars => Once'
<1> DEFINE Rest == Owned' /\ Fresh' /\ Pending' /\ InQueue' /\ Passing' /\ Sending'
<1> SUFFICES ASSUME Once, [Next]_vars PROVE Rest
  BY TypeStep DEF Once
<1>1. ASSUME NEW k \in Keys, Collect(k) PROVE Rest
  BY <1>1, OnceCollect
<1>2. ASSUME NEW n \in Alerts, Notify(n) PROVE Rest
  <2>1. CASE Attempt(n)
    BY <2>1, ConstantsTyped, OnceAttempt
  <2>2. CASE \E p \in note[n].list : NotifyOne(n, p)
    BY <2>2, OnceNotifyOne
  <2> QED
    BY <1>2, <2>1, <2>2, OnceNotify, OnceEnqueue DEF Notify
<1>3. CASE Drainer
  <2>1. CASE Attempt(0)
    BY <2>1, ConstantsTyped, OnceAttempt
  <2>2. CASE ClearQueue
    BY <2>2, OnceClear
  <2>3. ASSUME NEW d \in Devices, DrainOne(d) PROVE Rest
    <3>1. CASE out' = out
      BY <2>3, <3>1, OnceDrainSteps
    <3>2. CASE Send(0, d, drain.n) /\ drain' = [drain EXCEPT !.left = @ \ {d}]
      BY <2>3, <3>2, OnceDrainOne
    <3> QED
      BY <2>3, <3>1, <3>2 DEF DrainOne
  <2> QED
    BY <1>3, <2>1, <2>2, <2>3, OnceDrainSteps DEF Drainer
<1>4. ASSUME NEW d \in Devices, Subscribe(d) \/ Unsubscribe(d) PROVE Rest
  <2>1. UNCHANGED <<count, raise, note, queue, drain, out, got>>
    BY <1>4 DEF Subscribe, Unsubscribe
  <2>2. \A x \in Devices : subs'[x] \in {subs[x], Owner[x], Nobody}
    BY <1>4 DEF Subscribe, Unsubscribe, Once, TypeOK
  <2> QED
    BY <2>1, <2>2, OnceOther
<1>5. CASE UNCHANGED <<subs, count, raise, note, queue, drain, out, got>>
  BY <1>5, OnceOther
<1>6. CASE People
  <2>1. ASSUME NEW r \in rows, Ack(r) \/ PurgeAlerts(r)
        PROVE  UNCHANGED <<subs, count, raise, note, queue, drain, out, got>>
    BY <2>1 DEF Ack, PurgeAlerts
  <2>2. ASSUME NEW u \in Users,
               \/ App(u) \/ \E k \in Keys : SetPreference(u, k)
               \/ \E w \in Quiet \cup {NoWindow} : SetQuietHours(u, w)
        PROVE  UNCHANGED <<subs, count, raise, note, queue, drain, out, got>>
    BY <2>2 DEF App, SetPreference, SetQuietHours
  <2> QED
    BY <1>4, <1>5, <1>6, <2>1, <2>2 DEF People
<1>7. CASE HourPasses
  BY <1>5, <1>7 DEF HourPasses
<1>8. CASE Crash
  BY <1>8, OnceCrash
<1>9. CASE UNCHANGED vars
  BY <1>5, <1>9 DEF vars
<1> QED
  BY <1>1, <1>2, <1>3, <1>6, <1>7, <1>8, <1>9 DEF Next

\* As long as the queue can be emptied, no sending begins of an alert that the
\* device got in this life of the daemon, from Notify or from the queue.
THEOREM SentOnceAlways ==
  ASSUME "clear" \notin Env
  PROVE  Spec => []SentOnce
<1>1. Init => Once
  BY OnceInit
<1>2. Once /\ [Next]_vars => Once'
  BY OnceStep
<1>3. Once => SentOnce
  BY DEF Once, Sending, SentOnce
<1> QED
  BY <1>1, <1>2, <1>3, PTL DEF Spec

----------------------------------------------------------------------------
(* What is listed of a critical alert is sent.                             *)

\* Every announcement has an alert of its own, which Notify has not seen.
Unseen ==
  /\ \A n \in Alerts : n > count => note[n].pc = "none"
  /\ \A k \in Keys : raise[k].pc = "publish" =>
       /\ raise[k].n \in 1..count /\ note[raise[k].n].pc = "none"
       /\ \A j \in Keys : raise[j].pc = "publish" /\ raise[j].n = raise[k].n => j = k

\* A list is there only while Notify works through it.
Listed == \A n \in Alerts : note[n].list # {} => note[n].pc \in {"next", "enqueue"}

Announced == TypeOK /\ Unseen /\ Listed

LEMMA AnnouncedInit == Init => Announced
BY TypeInit DEF Init, Announced, Unseen, Listed, NoRaise, NoNote

LEMMA AnnouncedCollect ==
  ASSUME Announced, NEW k \in Keys, Collect(k)
  PROVE  Unseen' /\ Listed'
<1> USE DEF Announced
<1>1. ASSUME UNCHANGED <<note, count>>, \A j \in Keys : raise'[j].pc = "publish" => raise[j] = raise'[j]
      PROVE  Unseen' /\ Listed'
  BY <1>1 DEF Unseen, Listed
<1>2. CASE \/ \E l \in Levels : RaiseKind(k, l)
           \/ Refresh(k)
  BY <1>1, <1>2 DEF RaiseKind, Refresh, TypeOK, NoRaise
<1>3. CASE Insert(k)
  <2>1. CASE raise' = [raise EXCEPT ![k] = NoRaise] /\ count' = count
    BY <1>1, <1>3, <2>1 DEF Insert, TypeOK, NoRaise
  <2>2. CASE /\ count < MaxAlerts /\ count' = count + 1
             /\ raise' = [raise EXCEPT ![k].pc = "publish", ![k].n = count + 1]
    <3>1. count \in Nat /\ count + 1 \in Alerts /\ note' = note
      BY <1>3, <2>2, NotificationsAssumption DEF Insert, TypeOK, Alerts
    <3>2. raise'[k].n = count + 1 /\ \A j \in Keys : j # k => raise'[j] = raise[j]
      BY <2>2 DEF TypeOK
    <3>3. \A j \in Keys : raise[j].pc = "publish" => raise[j].n \in 1..count' /\ raise[j].n # count + 1
      BY <2>2, <3>1 DEF Unseen
    <3>4. note[count + 1].pc = "none" /\ count + 1 \in 1..count'
      BY <2>2, <3>1 DEF Unseen, Alerts
    <3>5. \A n \in Alerts : n > count' => n > count
      BY <2>2, <3>1 DEF Alerts
    <3> QED
      BY <3>1, <3>2, <3>3, <3>4, <3>5 DEF Unseen, Listed
  <2> QED
    BY <1>3, <2>1, <2>2 DEF Insert
<1>4. CASE Publish(k)
  <2> DEFINE n == raise[k].n
  <2>1. n \in Alerts /\ ~(n > count) /\ count' = count
    BY <1>4, NotificationsAssumption DEF Publish, Unseen, TypeOK, Alerts
  <2>2. /\ note'[n].list = {}
        /\ \A m \in Alerts : m # n => note'[m] = note[m]
    BY <1>4, <2>1 DEF Publish, TypeOK, NoNote
  <2>3. \A j \in Keys : raise'[j].pc = "publish" => raise'[j] = raise[j] /\ j # k
    BY <1>4 DEF Publish, TypeOK, NoRaise
  <2>4. \A j \in Keys : raise[j].pc = "publish" => raise[j].n \in Alerts /\ (j # k => raise[j].n # n)
    BY <1>4, NotificationsAssumption DEF Publish, Unseen, TypeOK, Alerts
  <2> HIDE DEF n
  <2> QED
    BY <2>1, <2>2, <2>3, <2>4 DEF Unseen, Listed
<1> QED
  BY <1>2, <1>3, <1>4 DEF Collect

LEMMA AnnouncedNotify ==
  ASSUME Announced, NEW n \in Alerts, Notify(n)
  PROVE  Unseen' /\ Listed'
<1> USE DEF Announced
<1>1. CASE Attempt(n)
  BY <1>1 DEF Attempt, Unseen, Listed
<1>2. CASE /\ UNCHANGED <<raise, count>> /\ note[n].pc # "none" /\ note'[n].pc # "none"
           /\ note'[n].list # {} => note'[n].pc \in {"next", "enqueue"}
           /\ \A m \in Alerts : m # n => note'[m] = note[m]
  BY <1>2, NotificationsAssumption DEF Unseen, Listed, TypeOK, Alerts
<1>3. CASE NotifyList(n)
  <2>1. note[n].list = {} /\ note[n] \in Note
    BY <1>3 DEF NotifyList, TypeOK, Listed
  <2> QED
    BY <1>2, <1>3, <2>1 DEF NotifyList, TypeOK, Note
<1>4. CASE Enqueue(n)
  BY <1>2, <1>4 DEF Enqueue, TypeOK
<1>5. CASE NotifyEnd(n)
  BY <1>2, <1>5 DEF NotifyEnd, TypeOK
<1>6. ASSUME NEW u \in Users, Decide(n, u) PROVE Unseen' /\ Listed'
  BY <1>2, <1>6 DEF Decide, TypeOK, Note
<1>7. ASSUME NEW p \in note[n].list, NotifyOne(n, p) PROVE Unseen' /\ Listed'
  BY <1>2, <1>7 DEF NotifyOne, TypeOK
<1> QED
  BY <1>1, <1>3, <1>4, <1>5, <1>6, <1>7 DEF Notify

LEMMA RestKeepsNotes ==
  ASSUME Drainer \/ People \/ HourPasses \/ UNCHANGED vars
  PROVE  UNCHANGED <<note, raise, count>>
<1>1. CASE Drainer
  BY <1>1 DEF Drainer, DrainQueue, DrainUser, DrainEnd, DrainRead, DrainSubs, DrainItem, DrainOne,
              DrainDone, ClearQueue, Attempt
<1>2. CASE People
  BY <1>2 DEF People, Ack, PurgeAlerts, App, SetPreference, SetQuietHours, Subscribe, Unsubscribe
<1>3. CASE HourPasses \/ UNCHANGED vars
  BY <1>3 DEF HourPasses, vars
<1> QED
  BY <1>1, <1>2, <1>3

LEMMA AnnouncedStep == Announced /\ [Next]_vars => Announced'
<1> SUFFICES ASSUME Announced, [Next]_vars PROVE Unseen' /\ Listed'
  BY TypeStep DEF Announced
<1>1. CASE Crash
  BY <1>1 DEF Crash, Unseen, Listed, NoRaise, NoNote
<1>2. CASE UNCHANGED <<note, raise, count>>
  BY <1>2 DEF Announced, Unseen, Listed
<1> QED
  BY <1>1, <1>2, AnnouncedCollect, AnnouncedNotify, RestKeepsNotes DEF Next

\* A device listed for a critical alert stays listed until a sending to it
\* begins, whatever its user switched off or has open; but for a stop.
Answered(n, p) ==
  note[n].level = "crit" /\ p \in note[n].list =>
    \/ note'[n].pc = "none"
    \/ /\ note'[n].level = "crit"
       /\ \/ p \in note'[n].list
          \/ Idle(n) /\ Send(n, p[1], n)

CritIsSent == [][\A n \in Alerts : \A p \in note[n].list : Answered(n, p)]_vars

(* The safety half of CritReaches: what remains is that the goroutine runs   *)
(* and that its attempts end (Notify and sendTo, push.go).                   *)
THEOREM CritIsAlwaysSent == Spec => CritIsSent
<1>1. ASSUME Announced, Next, NEW n \in Alerts, NEW p \in note[n].list PROVE Answered(n, p)
  <2>1. CASE UNCHANGED <<note, raise, count>>
    BY <2>1 DEF Answered
  <2>2. CASE Crash
    BY <2>2 DEF Crash, NoNote, Answered
  <2>3. ASSUME NEW k \in Keys, Collect(k) PROVE Answered(n, p)
    <3>1. CASE Publish(k)
      <4>1. n # raise[k].n
        BY <1>1, <3>1 DEF Publish, Announced, Unseen, Listed
      <4> QED
        BY <1>1, <3>1, <4>1 DEF Publish, Answered, Announced, TypeOK
    <3>2. CASE UNCHANGED note
      BY <3>2 DEF Answered
    <3> QED
      BY <2>3, <3>1, <3>2 DEF Collect, RaiseKind, Refresh, Insert
  <2>4. ASSUME NEW m \in Alerts, Notify(m) PROVE Answered(n, p)
    <3>1. CASE m # n
      <4>1. note'[n] = note[n]
        BY <1>1, <2>4, <3>1 DEF Announced, TypeOK, Notify, NotifyList, Enqueue, NotifyEnd, Attempt, Decide, NotifyOne
      <4> QED
        BY <4>1 DEF Answered
    <3>2. CASE m = n
      <4>1. note[n].pc \in {"next", "enqueue"} /\ note \in [Alerts -> Note]
        BY <1>1 DEF Announced, Listed, TypeOK
      <4>2. CASE Attempt(n) \/ Enqueue(n) \/ NotifyEnd(n) \/ NotifyList(n)
        BY <4>1, <4>2 DEF Attempt, Enqueue, NotifyEnd, NotifyList, Answered, Note
      <4>3. ASSUME NEW u \in Users, Decide(n, u) PROVE Answered(n, p)
        BY <4>1, <4>3 DEF Decide, Answered, Note
      <4>4. ASSUME NEW o \in note[n].list, NotifyOne(n, o) PROVE Answered(n, p)
        BY <4>1, <4>4 DEF NotifyOne, Answered, Note
      <4> QED
        BY <2>4, <3>2, <4>2, <4>3, <4>4 DEF Notify
    <3> QED
      BY <3>1, <3>2
  <2> QED
    BY <1>1, <2>1, <2>2, <2>3, <2>4, RestKeepsNotes DEF Next
<1>2. Announced /\ [Next]_vars => [\A n \in Alerts : \A p \in note[n].list : Answered(n, p)]_vars
  BY <1>1
<1> QED
  BY <1>2, AnnouncedInit, AnnouncedStep, PTL DEF Spec, CritIsSent
============================================================================
