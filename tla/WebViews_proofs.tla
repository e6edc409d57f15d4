-------------------------- MODULE WebViews_proofs --------------------------
(***************************************************************************)
(* Proofs about WebViews for every choice of views and lists, and any      *)
(* number of changes, events and mutations.                                *)
(*                                                                         *)
(* A list shows what the page changed because its last load was started    *)
(* after the page was told of the change, and the server reads the table   *)
(* after that (Newest); and because every button that changes a table      *)
(* loads the lists of its own view that show it (ActsReload), which no     *)
(* rule of the code enforces: it is a fact about each handler.             *)
(***************************************************************************)
EXTENDS WebViews, FiniteSetTheorems, SequenceTheorems, TLAPS

Loads == [res : Hooks, fresh : BOOLEAN, got : Int]
Asked == [changes : SUBSET Facts, reloads : SUBSET Hooks, mine : BOOLEAN,
          dialog : BOOLEAN, made : Int]

Typed ==
  /\ truth \in [Facts -> Nat] /\ cache \in [Facts \cap Cached -> Nat]
  /\ route \in Views
  /\ shown \in [Hooks -> Int]
  /\ loads \subseteq Loads /\ asked \subseteq Asked
  /\ told \in [Facts \ {"work"} -> Nat]

\* What is asked for changes one fact, and what the page is told it made is no
\* more than there is.
Made ==
  /\ \A f \in DOMAIN told : told[f] <= truth[f]
  /\ \A a \in asked : \E f \in Facts : a.changes = {f} /\ a.made <= truth[f]

\* A button of the open view loads what it changes.
Own == \A a \in asked : a.mine /\ ~a.dialog =>
  \A r \in mounted : FactOf(r) \notin Cached /\ FactOf(r) \in a.changes => r \in a.reloads

\* The last load of a list has what the page was told it changed, or has yet
\* to read.
Newest == \A n \in loads :
  n.fresh /\ n.res \in mounted /\ FactOf(n.res) \notin Cached /\ n.got # Nothing
    => n.got >= told[FactOf(n.res)]

IInv == Typed /\ Made /\ Own /\ Newest /\ ReadYourWrites

Names == {"overview", "pools", "perf", "disks", "recs", "datasets", "ops", "snaps",
          "jobs", "hist", "sys", "repl"}

LEMMA HookNames ==
  ASSUME NEW r \in Hooks
  PROVE  r \in Names /\ FactOf(r) \in Facts \ {"work"}
<1>1. PICK v \in Views : r \in View[v].hooks
  BY DEF Hooks
<1>2. v \in {"dash", "pools", "data", "disks", "snaps", "tasks"}
  BY ViewsAssumption DEF View
<1>3. r \in Names
  BY <1>1, <1>2 DEF View, Dashboard, PoolsView, Datasets, DisksView, Snapshots, Tasks, Names
<1>4. FactOf(r) # "work"
  BY <1>3 DEF FactOf, Names
<1> QED BY <1>3, <1>4 DEF Facts

\* The table of the views: what a button changes, it loads again.
LEMMA ActsReload ==
  ASSUME NEW v \in Views, NEW a \in View[v].acts
  PROVE  /\ \E f \in Facts : Seen(a.changes) = {f}
         /\ \A r \in View[v].hooks \cap Hooks :
              FactOf(r) \notin Cached /\ FactOf(r) \in Seen(a.changes) => r \in a.reloads
<1>1. v \in {"dash", "pools", "data", "disks", "snaps", "tasks"}
  BY ViewsAssumption DEF View
<1>2. "work" \in Facts
  BY DEF Facts
<1>3. /\ \E c \in {"pools", "work", "jobs", "repl"} : a.changes = {c}
      /\ "jobs" \in a.changes => "jobs" \in a.reloads
      /\ "repl" \in a.changes => "repl" \in a.reloads
  BY <1>1 DEF View, Dashboard, PoolsView, Datasets, DisksView, Snapshots, Tasks, PoolCard, Act
<1>4. \E f \in Facts : Seen(a.changes) = {f} /\ f \in a.changes \cup {"work"}
  BY <1>2, <1>3 DEF Seen
<1>5. ASSUME NEW r \in View[v].hooks \cap Hooks, FactOf(r) \notin Cached, FactOf(r) \in Seen(a.changes)
      PROVE  r \in a.reloads
  <2>1. FactOf(r) = r /\ r # "pools"
    BY <1>5 DEF FactOf, Cached
  <2>2. r \in a.changes
    BY <1>4, <1>5, <2>1, HookNames
  <2> QED BY <1>3, <1>5, <2>1, <2>2, HookNames
<1> QED BY <1>4, <1>5

LEMMA Reloaded ==
  ASSUME loads \subseteq Loads, NEW rs
  PROVE  /\ Reload(rs) \subseteq Loads
         /\ \A m \in Reload(rs) : m.fresh =>
              \/ m.res \in rs /\ m.got = Nothing
              \/ \E n \in loads : n.fresh /\ n.res = m.res /\ n.got = m.got /\ n.res \notin rs
         /\ \A n \in loads : n.fresh => \E m \in Reload(rs) : m.fresh /\ m.res = n.res
         /\ \A r \in rs \cap Hooks : \E m \in Reload(rs) : m.fresh /\ m.res = r
<1> DEFINE old(n) == [n EXCEPT !.fresh = n.fresh /\ n.res \notin rs]
<1>1. \A n \in loads : /\ old(n) \in Loads /\ old(n).res = n.res /\ old(n).got = n.got
                       /\ old(n).fresh <=> n.fresh /\ n.res \notin rs
  BY DEF Loads
<1>2. \A r \in Hooks : Load(r) \in Loads /\ Load(r).res = r /\ Load(r).fresh /\ Load(r).got = Nothing
  BY DEF Load, Loads, Nothing
<1> HIDE DEF old
<1>3. Reload(rs) = {old(n) : n \in loads} \cup {Load(r) : r \in rs \cap Hooks}
  BY DEF Reload, old
<1>4. Reload(rs) \subseteq Loads
  BY <1>1, <1>2, <1>3
<1>5. \A r \in rs \cap Hooks : \E m \in Reload(rs) : m.fresh /\ m.res = r
  BY <1>2, <1>3
<1>6. \A n \in loads : n.fresh => \E m \in Reload(rs) : m.fresh /\ m.res = n.res
  <2> SUFFICES ASSUME NEW n \in loads, n.fresh PROVE \E m \in Reload(rs) : m.fresh /\ m.res = n.res
    OBVIOUS
  <2>1. CASE n.res \in rs
    BY <1>5, <2>1 DEF Loads
  <2>2. CASE n.res \notin rs
    BY <1>1, <1>3, <2>2
  <2> QED BY <2>1, <2>2
<1>7. ASSUME NEW m \in Reload(rs), m.fresh
      PROVE  \/ m.res \in rs /\ m.got = Nothing
             \/ \E n \in loads : n.fresh /\ n.res = m.res /\ n.got = m.got /\ n.res \notin rs
  BY <1>1, <1>2, <1>3, <1>7
<1> QED BY <1>4, <1>5, <1>6, <1>7

\* Loads of the open view are started again: the new ones have yet to read.
LEMMA ReloadKept ==
  ASSUME IInv, NEW rs, loads' = Reload(rs), UNCHANGED <<route, shown, failed>>,
         \A r \in mounted : FactOf(r) \notin Cached /\ r \notin rs => told'[FactOf(r)] = told[FactOf(r)]
  PROVE  loads' \subseteq Loads /\ Newest' /\ ReadYourWrites'
<1>1. /\ loads' \subseteq Loads
      /\ \A m \in loads' : m.fresh =>
           \/ m.res \in rs /\ m.got = Nothing
           \/ \E n \in loads : n.fresh /\ n.res = m.res /\ n.got = m.got /\ n.res \notin rs
      /\ \A n \in loads : n.fresh => \E m \in loads' : m.fresh /\ m.res = n.res
      /\ \A r \in rs \cap Hooks : \E m \in loads' : m.fresh /\ m.res = r
  BY Reloaded DEF IInv, Typed
<1>2. mounted' = mounted /\ mounted \subseteq Hooks
  BY DEF mounted
<1>3. Newest'
  BY <1>1, <1>2 DEF Newest, IInv
<1>4. ASSUME NEW r \in mounted, FactOf(r) \notin Cached, Fresh(r)' = {}, r \notin failed
      PROVE  shown[r] >= told'[FactOf(r)]
  <2>1. r \notin rs /\ Fresh(r) = {}
    BY <1>1, <1>2, <1>4 DEF Fresh
  <2> QED BY <1>4, <2>1 DEF ReadYourWrites, IInv
<1>5. ReadYourWrites'
  BY <1>2, <1>4 DEF ReadYourWrites
<1> QED BY <1>1, <1>3, <1>5

LEMMA InitStep ==
  Init => IInv
<1> SUFFICES ASSUME Init PROVE IInv
  OBVIOUS
<1>1. mounted \subseteq Hooks
  BY DEF mounted
<1>2. \A r \in Hooks : Load(r) \in Loads /\ Load(r).res = r /\ Load(r).fresh /\ Load(r).got = Nothing
  BY DEF Load, Loads, Nothing
<1>3. Typed
  BY <1>1, <1>2 DEF Init, Typed, Nothing
<1>4. Made /\ Own
  BY DEF Init, Made, Own
<1>5. Newest
  BY <1>1, <1>2 DEF Init, Newest
<1>6. ReadYourWrites
  BY <1>1, <1>2 DEF Init, ReadYourWrites, Fresh
<1> QED BY <1>3, <1>4, <1>5, <1>6 DEF IInv

\* The server changes something, or a collector looks.
LEMMA ServerStep ==
  ASSUME IInv, truth' \in [Facts -> Nat], \A f \in Facts : truth[f] <= truth'[f],
         cache' \in [Facts \cap Cached -> Nat],
         UNCHANGED <<page, asked, told>>
  PROVE  IInv'
<1> USE DEF IInv, page
<1>1. Typed'
  BY DEF Typed
<1>2. Made'
  <2>1. \A f \in DOMAIN told : f \in Facts /\ told[f] \in Nat /\ truth[f] \in Nat /\ truth'[f] \in Nat
    BY DEF Typed
  <2>2. \A a \in asked : a.made \in Int
    BY DEF Typed, Asked
  <2>3. \A f \in DOMAIN told' : told'[f] <= truth'[f]
    BY <2>1 DEF Made
  <2>4. \A a \in asked : \E f \in Facts : a.changes = {f} /\ a.made <= truth'[f]
    BY <2>2 DEF Made, Typed
  <2> QED BY <2>3, <2>4 DEF Made
<1>3. Own' /\ Newest' /\ ReadYourWrites'
  BY DEF Own, Newest, ReadYourWrites, Fresh, mounted
<1> QED BY <1>1, <1>2, <1>3

LEMMA Bumped ==
  ASSUME IInv, NEW fs
  PROVE  Bump(fs) \in [Facts -> Nat] /\ \A f \in Facts : truth[f] <= Bump(fs)[f]
  BY DEF IInv, Typed, Bump

LEMMA HostStep ==
  ASSUME IInv, HostChange \/ collectOnce \/ collectSmart \/ jobFinished \/ replicationFinished
                 \/ longopUpdate \/ alertNew
  PROVE  IInv'
<1>1. CASE HostChange \/ jobFinished \/ replicationFinished \/ longopUpdate \/ alertNew
  <2>1. PICK fs : truth' = Bump(fs)
    BY <1>1 DEF HostChange, jobFinished, replicationFinished, longopUpdate, alertNew
  <2>2. UNCHANGED <<cache, page, asked, told>>
    BY <1>1 DEF HostChange, jobFinished, replicationFinished, longopUpdate, alertNew
  <2>3. cache \in [Facts \cap Cached -> Nat]
    BY DEF IInv, Typed
  <2> QED BY <2>1, <2>2, <2>3, Bumped, ServerStep
<1>2. CASE collectOnce
  <2>1. UNCHANGED <<truth, page, asked, told>>
    BY <1>2 DEF collectOnce
  <2>2. cache' \in [Facts \cap Cached -> Nat]
    BY <1>2 DEF collectOnce, IInv, Typed
  <2>3. truth \in [Facts -> Nat]
    BY DEF IInv, Typed
  <2>4. \A f \in Facts : truth[f] <= truth'[f]
    BY <2>1, <2>3
  <2> QED BY <2>1, <2>2, <2>3, <2>4, ServerStep
<1>3. CASE collectSmart
  <2>1. truth' = Bump({"disks"}) /\ UNCHANGED <<page, asked, told>>
    BY <1>3 DEF collectSmart
  <2>2. truth' \in [Facts -> Nat] /\ \A f \in Facts : truth[f] <= truth'[f]
    BY <2>1, Bumped
  <2>3. cache' \in [Facts \cap Cached -> Nat]
    BY <1>3, <2>2 DEF collectSmart, IInv, Typed
  <2> QED BY <2>1, <2>2, <2>3, ServerStep
<1> QED BY <1>1, <1>2, <1>3

\* Another view: all its lists are being loaded.
LEMMA NavigateStep ==
  ASSUME IInv, Navigate PROVE IInv'
<1> USE DEF IInv
<1>1. route' \in Views /\ loads' = {Load(r) : r \in mounted'} /\ mounted' \subseteq Hooks
  BY DEF Navigate, mounted
<1>2. \A r \in Hooks : Load(r) \in Loads /\ Load(r).res = r /\ Load(r).fresh /\ Load(r).got = Nothing
  BY DEF Load, Loads, Nothing
<1> DEFINE left(a) == [a EXCEPT !.mine = FALSE]
<1>3. \A a \in asked : left(a) \in Asked /\ left(a).mine = FALSE
                      /\ left(a).changes = a.changes /\ left(a).made = a.made
  BY DEF Typed, Asked
<1> HIDE DEF left
<1>4. asked' = {left(a) : a \in asked}
  BY DEF Navigate, left
<1>5. asked' \subseteq Asked /\ \A b \in asked' : /\ ~b.mine
                                                /\ \E a \in asked : b.changes = a.changes /\ b.made = a.made
  BY <1>3, <1>4
<1>6. Typed'
  BY <1>1, <1>2, <1>5 DEF Navigate, Typed, Nothing, server
<1>7. Made' /\ Own'
  BY <1>5 DEF Navigate, Made, Own, server
<1>8. Newest'
  BY <1>1, <1>2 DEF Newest
<1>9. ReadYourWrites'
  BY <1>1, <1>2 DEF ReadYourWrites, Fresh
<1> QED BY <1>6, <1>7, <1>8, <1>9

\* The server reads a table as it is, which has all that the page was told of.
LEMMA ReadStep ==
  ASSUME IInv, NEW n \in loads, Read(n) PROVE IInv'
<1> USE DEF IInv
<1> DEFINE m == [n EXCEPT !.got = Served(n.res)]
<1>1. n \in Loads /\ FactOf(n.res) \in Facts \ {"work"}
  BY HookNames DEF Typed, Loads
<1>2. Served(n.res) \in Int
  BY <1>1 DEF Served, Typed
<1>3. m \in Loads /\ m.res = n.res /\ m.fresh = n.fresh /\ m.got = Served(n.res)
  BY <1>1, <1>2 DEF Loads
<1> HIDE DEF m
<1>4. loads' = (loads \ {n}) \cup {m} /\ UNCHANGED <<server, route, shown, failed, asked, told>>
  BY DEF Read, m
<1>5. Typed' /\ Made' /\ Own'
  BY <1>3, <1>4 DEF Typed, Made, Own, server, mounted
<1>6. FactOf(n.res) \notin Cached => m.got >= told[FactOf(n.res)]
  BY <1>1, <1>3 DEF Served, Made, Typed
<1>7. Newest'
  BY <1>3, <1>4, <1>6 DEF Newest, mounted
<1>8. \A r : Fresh(r)' = {} => Fresh(r) = {}
  BY <1>3, <1>4 DEF Fresh
<1>9. ReadYourWrites'
  BY <1>4, <1>8 DEF ReadYourWrites, mounted
<1> QED BY <1>5, <1>7, <1>9

\* An answer is taken, or a load fails.
LEMMA AnswerStep ==
  ASSUME IInv, NEW n \in loads, useData(n) \/ LoadFails(n) PROVE IInv'
<1> USE DEF IInv
<1>1. n \in Loads /\ n.res \in Hooks
  BY DEF Typed, Loads
<1>2. loads' = loads \ {n} /\ UNCHANGED <<server, route, asked, told>>
  BY DEF useData, LoadFails
<1>3. shown' \in [Hooks -> Int]
  BY <1>1 DEF useData, LoadFails, Typed, Loads
<1>4. Typed' /\ Made' /\ Own' /\ Newest'
  BY <1>2, <1>3 DEF Typed, Made, Own, Newest, server, mounted
<1>5. mounted' = mounted /\ mounted \subseteq Hooks
  BY <1>2 DEF mounted
<1>6. ASSUME NEW r \in mounted, FactOf(r) \notin Cached, Fresh(r)' = {}, r \notin failed'
      PROVE  shown'[r] >= told[FactOf(r)]
  <2>1. CASE r = n.res /\ n.fresh
    <3>1. useData(n) /\ n.got # Nothing /\ shown'[r] = n.got
      BY <1>1, <1>6, <2>1 DEF useData, LoadFails, Typed
    <3> QED BY <1>6, <2>1, <3>1 DEF Newest
  <2>2. CASE ~(r = n.res /\ n.fresh)
    <3>1. Fresh(r) = {}
      BY <1>2, <1>6, <2>2 DEF Fresh
    <3>2. r \notin failed /\ shown'[r] = shown[r]
      BY <1>1, <1>5, <1>6, <2>2 DEF useData, LoadFails, Typed
    <3> QED BY <1>6, <3>1, <3>2 DEF ReadYourWrites
  <2> QED BY <2>1, <2>2
<1>7. ReadYourWrites'
  BY <1>2, <1>5, <1>6 DEF ReadYourWrites
<1> QED BY <1>4, <1>7

LEMMA EventStep ==
  ASSUME IInv, emitEvent \/ StreamBreaks \/ Disarm \/ paint PROVE IInv'
<1>1. UNCHANGED <<server, route, shown, failed, asked, told>>
  BY DEF emitEvent, StreamBreaks, Disarm, paint, page
<1>2. CASE UNCHANGED loads
  BY <1>1, <1>2 DEF IInv, Typed, Made, Own, Newest, ReadYourWrites, Fresh, server, mounted
<1>3. CASE \E rs : loads' = Reload(rs)
  <2>1. loads' \subseteq Loads /\ Newest' /\ ReadYourWrites'
    BY <1>1, <1>3, ReloadKept
  <2> QED BY <1>1, <2>1 DEF IInv, Typed, Made, Own, server, mounted
<1> QED BY <1>2, <1>3 DEF emitEvent, StreamBreaks, Disarm, paint, page

LEMMA AskStep ==
  ASSUME IInv, Press \/ Submit PROVE IInv'
<1> USE DEF IInv
<1>1. UNCHANGED <<server, route, shown, failed, loads, told>>
  BY DEF Press, Submit, page
<1>2. ASSUME NEW b \in asked' \ asked
      PROVE  /\ b \in Asked /\ b.made = Nothing /\ \E f \in Facts : b.changes = {f}
             /\ ~b.dialog => \A r \in mounted : FactOf(r) \notin Cached /\ FactOf(r) \in b.changes
                                                  => r \in b.reloads
  <2>1. CASE Press
    <3>1. PICK a \in View[route].acts :
            b = [changes |-> Seen(a.changes), reloads |-> a.reloads \cap Hooks,
                 mine |-> TRUE, dialog |-> FALSE, made |-> Nothing]
      BY <1>2, <2>1 DEF Press
    <3>2. /\ \E f \in Facts : Seen(a.changes) = {f}
          /\ \A r \in mounted : FactOf(r) \notin Cached /\ FactOf(r) \in Seen(a.changes) => r \in a.reloads \cap Hooks
      BY ActsReload DEF Typed, mounted
    <3> QED BY <3>1, <3>2 DEF Asked, Nothing
  <2>2. CASE Submit
    <3>1. PICK f \in DialogFacts :
            b = [changes |-> {f}, reloads |-> {}, mine |-> TRUE, dialog |-> TRUE, made |-> Nothing]
      BY <1>2, <2>2 DEF Submit
    <3> QED BY <3>1 DEF DialogFacts, Asked, Nothing
  <2> QED BY <2>1, <2>2
<1>3. Typed'
  BY <1>1, <1>2 DEF Typed, server
<1>4. Made'
  <2>1. \A f \in Facts : Nothing <= truth[f]
    BY DEF Typed, Nothing
  <2> QED BY <1>1, <1>2, <2>1 DEF Made, server
<1>5. Own'
  BY <1>1, <1>2 DEF Own, mounted
<1>6. Newest' /\ ReadYourWrites'
  BY <1>1 DEF Newest, ReadYourWrites, Fresh, mounted
<1> QED BY <1>3, <1>4, <1>5, <1>6

\* The server does what is asked: there is then at least what it made.
LEMMA ServeStep ==
  ASSUME IInv, NEW a \in asked, Serve(a) PROVE IInv'
<1> USE DEF IInv
<1>1. PICK f \in Facts : a.changes = {f}
  BY DEF Made
<1>2. /\ truth' \in [Facts -> Nat] /\ \A g \in Facts : truth[g] <= truth'[g]
      /\ UNCHANGED <<cache, page, told>>
  BY Bumped DEF Serve
<1> DEFINE b == [a EXCEPT !.made = truth'[f]]
<1>3. (CHOOSE g \in {f} : TRUE) = f
  OBVIOUS
<1>4. asked' = (asked \ {a}) \cup {b}
  BY <1>1, <1>3 DEF Serve
<1>5. /\ b \in Asked /\ b.changes = {f} /\ b.made = truth'[f]
      /\ b.mine = a.mine /\ b.dialog = a.dialog /\ b.reloads = a.reloads
  BY <1>1, <1>2 DEF Typed, Asked
<1> HIDE DEF b
<1>6. Typed'
  BY <1>2, <1>4, <1>5 DEF Typed, page
<1>7. Made'
  <2>1. \A g \in DOMAIN told' : told'[g] <= truth'[g]
    <3>1. \A g \in DOMAIN told : g \in Facts /\ told[g] \in Nat /\ truth[g] \in Nat /\ truth'[g] \in Nat
      BY <1>2 DEF Typed
    <3> QED BY <1>2, <3>1 DEF Made
  <2>2. ASSUME NEW c \in asked' PROVE \E g \in Facts : c.changes = {g} /\ c.made <= truth'[g]
    <3>1. CASE c = b
      BY <1>2, <1>5, <3>1
    <3>2. CASE c \in asked
      <4>1. PICK g \in Facts : c.changes = {g} /\ c.made <= truth[g]
        BY <3>2 DEF Made
      <4>2. c.made \in Int /\ truth[g] \in Nat /\ truth'[g] \in Nat /\ truth[g] <= truth'[g]
        BY <1>2, <3>2 DEF Typed, Asked
      <4> QED BY <4>1, <4>2
    <3> QED BY <1>4, <2>2, <3>1, <3>2
  <2> QED BY <2>1, <2>2 DEF Made
<1>8. Own'
  BY <1>1, <1>2, <1>4, <1>5 DEF Own, page, mounted
<1>9. Newest' /\ ReadYourWrites'
  BY <1>2 DEF Newest, ReadYourWrites, Fresh, page, mounted
<1> QED BY <1>6, <1>7, <1>8, <1>9

LEMMA RefusedStep ==
  ASSUME IInv, NEW a \in asked, Refused(a) PROVE IInv'
  BY DEF IInv, Refused, Typed, Made, Own, Newest, ReadYourWrites, Fresh, server, page, mounted

\* The page is told of what it made, and loads the lists that show it.
LEMMA RefreshStep ==
  ASSUME IInv, NEW a \in asked, refresh(a) PROVE IInv'
<1> USE DEF IInv
<1>1. PICK f \in Facts : a.changes = {f} /\ a.made <= truth[f]
  BY DEF Made
<1>2. /\ asked' = asked \ {a} /\ UNCHANGED <<server, route, shown, failed>>
      /\ told' = [g \in DOMAIN told |->
                    IF g \in a.changes /\ (a.dialog \/ a.mine) /\ a.made > told[g] THEN a.made ELSE told[g]]
  BY DEF refresh
<1>3. a \in Asked /\ a.made \in Int
  BY DEF Typed, Asked
<1>4. told' \in [Facts \ {"work"} -> Nat] /\ \A g \in Facts \ {"work"} : told'[g] <= truth[g]
  <2>1. ASSUME NEW g \in Facts \ {"work"} PROVE told'[g] \in Nat /\ told'[g] <= truth[g]
    <3>1. told[g] \in Nat /\ told[g] <= truth[g] /\ truth[g] \in Nat
      BY DEF Typed, Made
    <3>2. CASE g \in a.changes /\ (a.dialog \/ a.mine) /\ a.made > told[g]
      BY <1>1, <1>2, <1>3, <3>1, <3>2 DEF Typed
    <3>3. CASE ~(g \in a.changes /\ (a.dialog \/ a.mine) /\ a.made > told[g])
      <4>1. told'[g] = told[g]
        BY <1>2, <3>3 DEF Typed
      <4> QED BY <3>1, <4>1
    <3> QED BY <3>2, <3>3
  <2>2. DOMAIN told' = Facts \ {"work"} /\ told' = [g \in Facts \ {"work"} |-> told'[g]]
    BY <1>2 DEF Typed
  <2> QED BY <2>1, <2>2
<1>5. loads' \subseteq Loads /\ Newest' /\ ReadYourWrites'
  <2>1. CASE a.dialog
    BY <1>2, <2>1, ReloadKept DEF refresh
  <2>2. CASE ~a.dialog /\ a.mine
    <3>1. \A r \in mounted : FactOf(r) \notin Cached /\ r \notin a.reloads => FactOf(r) \notin a.changes
      BY <2>2 DEF Own
    <3>2. ASSUME NEW r \in mounted, FactOf(r) \notin Cached, r \notin a.reloads
          PROVE  told'[FactOf(r)] = told[FactOf(r)]
      <4>1. FactOf(r) \in Facts \ {"work"}
        BY HookNames DEF mounted
      <4> QED BY <1>2, <3>1, <3>2, <4>1 DEF Typed
    <3>3. loads' = Reload(a.reloads)
      BY <2>2 DEF refresh
    <3> QED BY <1>2, <3>2, <3>3, ReloadKept
  <2>3. CASE ~a.dialog /\ ~a.mine
    <3>1. \A g \in DOMAIN told : told'[g] = told[g]
      BY <1>2, <2>3
    <3>2. \A r \in mounted : FactOf(r) \in DOMAIN told
      BY HookNames DEF mounted, Typed
    <3>3. UNCHANGED loads /\ mounted' = mounted /\ mounted \subseteq Hooks
      BY <1>2, <2>3 DEF refresh, mounted
    <3>4. Newest'
      BY <3>1, <3>2, <3>3 DEF Newest
    <3>5. ReadYourWrites'
      BY <1>2, <3>1, <3>2, <3>3 DEF ReadYourWrites, Fresh
    <3> QED BY <3>3, <3>4, <3>5 DEF Typed
  <2> QED BY <2>1, <2>2, <2>3
<1>6. Typed' /\ Made' /\ Own'
  BY <1>2, <1>4, <1>5 DEF Typed, Made, Own, server, mounted
<1> QED BY <1>5, <1>6

LEMMA InvStep ==
  IInv /\ [Next]_vars => IInv'
<1> SUFFICES ASSUME IInv, [Next]_vars PROVE IInv'
  OBVIOUS
<1>1. CASE UNCHANGED vars
  BY <1>1 DEF vars, IInv, Typed, Made, Own, Newest, ReadYourWrites, Fresh, mounted
<1>2. CASE Next
  BY <1>2, HostStep, NavigateStep, ReadStep, AnswerStep, EventStep, AskStep, ServeStep, RefusedStep,
     RefreshStep DEF Next
<1> QED BY <1>1, <1>2

(* A list that is read from the database or the registry and that came to  *)
(* rest shows every change its page was told it made (ui/useData.ts and    *)
(* the handlers of the views), however many loads of it cross.             *)
THEOREM ReadYourWritesAlways == Spec => []ReadYourWrites
<1>1. IInv => ReadYourWrites
  BY DEF IInv
<1> QED
  BY <1>1, InitStep, InvStep, PTL DEF Spec

\* What is on its way to the page.
Wire ==
  /\ news \subseteq HostNews \ {"none"}
  /\ events \in Seq(EventTypes) /\ Len(events) <= MaxEvents

\* Nothing that is cached, read or shown is newer than the host.
Versions ==
  /\ \A f \in DOMAIN cache : cache[f] <= truth[f]
  /\ \A r \in Hooks : shown[r] \in {Nothing} \cup 0..truth[FactOf(r)]
  /\ \A n \in loads : n.got \in {Nothing} \cup 0..truth[FactOf(n.res)]

\* What is loaded, or will be, has a hook on the page.
OnPage ==
  /\ \A n \in loads : n.res \in mounted
  /\ \A a \in asked : a.mine => a.reloads \subseteq mounted

\* A hook takes the answer of one load, and has one until it shows something.
OneFresh ==
  /\ \A n, m \in loads : n.fresh /\ m.fresh /\ n.res = m.res => n = m
  /\ \A r \in mounted : Fresh(r) = {} => shown[r] # Nothing \/ r \in failed

TInv == Wire /\ Versions /\ OnPage /\ OneFresh

---------------------------------------------------------------------------
(* What the handlers of a view load again.                                 *)

LEMMA OnIn ==
  ASSUME NEW T, NEW H, NEW K, H \subseteq K
  PROVE  \A e \in DOMAIN On(T, H) : On(T, H)[e] \subseteq K
  BY DEF On

LEMMA AlsoIn ==
  ASSUME NEW f, NEW g, NEW K, \A e \in DOMAIN f : f[e] \subseteq K,
         \A e \in DOMAIN g : g[e] \subseteq K
  PROVE  \A e \in DOMAIN Also(f, g) : Also(f, g)[e] \subseteq K
  BY DEF Also

\* The handlers of a view, for an event as for a button, load its own lists.
LEMMA HandlersIn ==
  ASSUME NEW v \in Views
  PROVE  /\ \A e \in DOMAIN View[v].on : View[v].on[e] \subseteq View[v].hooks
         /\ \A a \in View[v].acts : a.reloads \subseteq View[v].hooks
<1>1. v \in {"dash", "pools", "data", "disks", "snaps", "tasks"}
  BY ViewsAssumption DEF View
<1>2. \A a \in View[v].acts : a.reloads \subseteq View[v].hooks
  BY <1>1 DEF View, Dashboard, PoolsView, Datasets, DisksView, Snapshots, Tasks, PoolCard, Act
<1>3. CASE v = "dash"
  <2> DEFINE K == Dashboard.hooks
             f == On({"overview", "alert.new", "pool.status"}, {"overview"})
             g == On({"scrub.done"}, {"pools", "overview"})
             h == On({"disk.smart"}, {"disks", "recs"})
  <2>1. View[v].hooks = K /\ View[v].on = Also(f, Also(g, h))
    BY <1>3 DEF View, Dashboard
  <2>2. /\ {"overview"} \subseteq K /\ {"pools", "overview"} \subseteq K
        /\ {"disks", "recs"} \subseteq K
    BY DEF Dashboard
  <2>3. /\ \A e \in DOMAIN f : f[e] \subseteq K
        /\ \A e \in DOMAIN g : g[e] \subseteq K
        /\ \A e \in DOMAIN h : h[e] \subseteq K
    BY <2>2, OnIn
  <2> HIDE DEF K, f, g, h
  <2>4. \A e \in DOMAIN Also(g, h) : Also(g, h)[e] \subseteq K
    BY <2>3, AlsoIn
  <2>5. \A e \in DOMAIN Also(f, Also(g, h)) : Also(f, Also(g, h))[e] \subseteq K
    BY <2>3, <2>4, AlsoIn
  <2> QED BY <1>2, <2>1, <2>5
<1>4. CASE v = "tasks"
  <2> DEFINE K == Tasks.hooks
             f == On({"job.finished"}, {"jobs", "hist"})
             g == On({"longop.update"}, {"ops", "repl"})
             h == On({"replication.finished"}, {"repl", "hist"})
  <2>1. View[v].hooks = K /\ View[v].on = Also(f, Also(g, h))
    BY <1>4 DEF View, Tasks
  <2>2. /\ {"jobs", "hist"} \subseteq K /\ {"ops", "repl"} \subseteq K
        /\ {"repl", "hist"} \subseteq K
    BY DEF Tasks
  <2>3. /\ \A e \in DOMAIN f : f[e] \subseteq K
        /\ \A e \in DOMAIN g : g[e] \subseteq K
        /\ \A e \in DOMAIN h : h[e] \subseteq K
    BY <2>2, OnIn
  <2> HIDE DEF K, f, g, h
  <2>4. \A e \in DOMAIN Also(g, h) : Also(g, h)[e] \subseteq K
    BY <2>3, AlsoIn
  <2>5. \A e \in DOMAIN Also(f, Also(g, h)) : Also(f, Also(g, h))[e] \subseteq K
    BY <2>3, <2>4, AlsoIn
  <2> QED BY <1>2, <2>1, <2>5
<1>5. CASE v \in {"pools", "data", "disks", "snaps"}
  <2>1. PICK T \in {{"scrub.done", "pool.status"}, {"longop.update"}, {"disk.smart"},
                    {"job.finished", "overview"}},
             H \in {{"pools"}, {"ops"}, {"recs"}, {"snaps"}} :
          View[v].on = On(T, H) /\ H \subseteq View[v].hooks
    BY <1>5 DEF View, PoolsView, Datasets, DisksView, Snapshots
  <2> QED BY <1>2, <2>1, OnIn
<1> QED BY <1>1, <1>3, <1>4, <1>5

---------------------------------------------------------------------------
(* The events on their way to the page.                                    *)

LEMMA SetToSeqIs ==
  ASSUME NEW S, IsFiniteSet(S)
  PROVE  SetToSeq(S) \in Seq(S)
<1>1. PICK n \in Nat : ExistsBijection(1..n, S)
  BY FS_NatBijection
<1>2. Cardinality(S) = n
  BY <1>1, FS_CountingElements
<1>3. \E f \in [1..Cardinality(S) -> S] : IsInjective(f)
  BY <1>1, <1>2 DEF ExistsBijection, Bijection, Injection, IsInjective
<1>4. SetToSeq(S) \in [1..Cardinality(S) -> S]
  BY <1>3 DEF SetToSeq
<1> QED BY <1>2, <1>4

LEMMA ChangesSent ==
  ASSUME Wire PROVE publishChanges(news) \in Seq(EventTypes)
<1>1. IsFiniteSet(news)
  <2>1. IsFiniteSet({"pool.status"}) /\ IsFiniteSet({"scrub.done"})
    BY FS_Singleton
  <2>2. IsFiniteSet({"pool.status"} \cup {"scrub.done"})
    BY <2>1, FS_Union
  <2>3. news \subseteq {"pool.status"} \cup {"scrub.done"}
    BY DEF Wire, HostNews
  <2> QED BY <2>2, <2>3, FS_Subset
<1>2. SetToSeq(news) \in Seq(news)
  BY <1>1, SetToSeqIs
<1>3. news \subseteq EventTypes
  BY DEF Wire, HostNews, EventTypes, SSE_TYPES
<1>4. SetToSeq(news) \in Seq(EventTypes)
  BY <1>2, <1>3
<1>5. (IF news = {} THEN <<>> ELSE <<"overview">>) \in Seq(EventTypes)
  <2>1. "overview" \in EventTypes
    BY DEF EventTypes, SSE_TYPES
  <2> QED BY <2>1
<1> QED BY <1>4, <1>5 DEF publishChanges

\* What an action puts in the buffer.
Put(es) ==
  /\ events' = events \o es /\ Len(events) + Len(es) <= MaxEvents
  /\ due' = [r \in Hooks |->
               IF \E e \in Range(es) : <<route, e, r>> \in Announces
               THEN Served(r)' ELSE due[r]]

\* What has no room in the buffer is not put there.
LEMMA PublishPuts ==
  ASSUME Wire, NEW es \in Seq(EventTypes), Publish(es)
  PROVE  \E ks \in Seq(EventTypes) : Put(ks)
<1>1. Room \in Nat /\ Len(events) \in Nat /\ Len(events) + Room = MaxEvents
  BY ViewsAssumption DEF Wire, Room
<1>2. Buffered(es) \in Seq(EventTypes) /\ Len(Buffered(es)) <= Room
  <2>1. CASE Len(es) <= Room
    BY <2>1 DEF Buffered
  <2>2. CASE ~(Len(es) <= Room)
    <3>1. \A i \in 1..Room : es[i] \in EventTypes
      BY <1>1, <2>2
    <3>2. /\ SubSeq(es, 1, Room) \in Seq(EventTypes)
          /\ Len(SubSeq(es, 1, Room)) = IF 1 <= Room THEN Room - 1 + 1 ELSE 0
      BY <1>1, <3>1, SubSeqProperties
    <3> QED BY <1>1, <2>2, <3>2 DEF Buffered
  <2> QED BY <2>1, <2>2
<1>3. Len(events) + Len(Buffered(es)) <= MaxEvents
  BY <1>1, <1>2
<1> QED BY <1>2, <1>3 DEF Publish, Put

\* What the collectors, the jobs and the operations send.
LEMMA Published ==
  ASSUME Wire, collectOnce \/ collectSmart \/ jobFinished \/ replicationFinished \/ longopUpdate
               \/ alertNew \/ paint
  PROVE  UNCHANGED page /\ \E es \in Seq(EventTypes) : Put(es)
<1>1. CASE collectOnce
  BY <1>1, ChangesSent, PublishPuts DEF collectOnce
<1>2. CASE collectSmart \/ jobFinished \/ longopUpdate \/ alertNew \/ paint
  <2>1. PICK e \in EventTypes : Publish(<<e>>)
    BY <1>2 DEF collectSmart, jobFinished, longopUpdate, alertNew, paint, EventTypes, SSE_TYPES
  <2>2. UNCHANGED page
    BY <1>2 DEF collectSmart, jobFinished, longopUpdate, alertNew, paint
  <2>3. <<e>> \in Seq(EventTypes)
    BY <2>1
  <2> QED BY <2>1, <2>2, <2>3, PublishPuts
<1>3. CASE replicationFinished
  <2>1. <<"replication.finished", "job.finished">> \in Seq(EventTypes)
    BY DEF EventTypes, SSE_TYPES
  <2> QED BY <1>3, <2>1, PublishPuts DEF replicationFinished
<1> QED BY <1>1, <1>2, <1>3

LEMMA WireNext ==
  ASSUME Wire, [Next]_vars PROVE Wire'
<1> USE DEF Wire
<1>1. CASE HostChange
  BY <1>1 DEF HostChange
<1>2. CASE collectOnce \/ collectSmart \/ jobFinished \/ replicationFinished \/ longopUpdate \/ alertNew \/ paint
  <2>1. PICK es \in Seq(EventTypes) : Put(es)
    BY <1>2, Published
  <2>2. events' \in Seq(EventTypes) /\ Len(events') <= MaxEvents
    BY <2>1 DEF Put
  <2>3. news' \in {{}, news}
    BY <1>2 DEF collectOnce, collectSmart, jobFinished, replicationFinished, longopUpdate, alertNew,
                paint, server
  <2> QED BY <2>2, <2>3
<1>3. CASE emitEvent
  <2>1. events # <<>> /\ events' = Tail(events) /\ news' = news
    BY <1>3 DEF emitEvent, server
  <2>2. Tail(events) \in Seq(EventTypes) /\ Len(Tail(events)) = Len(events) - 1
    BY <2>1, HeadTailProperties
  <2>3. Len(events) \in Nat /\ MaxEvents \in Nat
    BY ViewsAssumption
  <2> QED BY <2>1, <2>2, <2>3
<1>4. CASE StreamBreaks
  BY <1>4, ViewsAssumption DEF StreamBreaks, server
<1>5. CASE UNCHANGED <<news, events>>
  BY <1>5
<1> QED
  BY <1>1, <1>2, <1>3, <1>4, <1>5
  DEF Next, Navigate, Press, Disarm, Submit, Read, useData, LoadFails, Serve, Refused, refresh,
      server, vars

---------------------------------------------------------------------------
(* What is read and shown.                                                 *)

LEMMA VersionsGrow ==
  ASSUME IInv, Versions, truth' \in [Facts -> Nat], \A f \in Facts : truth[f] <= truth'[f],
         UNCHANGED <<cache, shown, loads>>
  PROVE  Versions'
<1> USE DEF Versions
<1>1. \A f \in DOMAIN cache : f \in Facts /\ cache[f] \in Nat
  BY DEF IInv, Typed
<1>2. \A f \in DOMAIN cache : cache[f] <= truth'[f]
  BY <1>1 DEF IInv, Typed
<1>3. \A f \in Facts : 0..truth[f] \subseteq 0..truth'[f]
  BY DEF IInv, Typed
<1>4. \A n \in loads : n.res \in Hooks
  BY DEF IInv, Typed, Loads
<1>5. \A r \in Hooks : FactOf(r) \in Facts
  BY HookNames
<1> QED BY <1>2, <1>3, <1>4, <1>5

LEMMA ServedOld ==
  ASSUME IInv, Versions, NEW r \in Hooks
  PROVE  Served(r) \in 0..truth[FactOf(r)]
<1>1. FactOf(r) \in Facts
  BY HookNames
<1>2. CASE FactOf(r) \in Cached
  <2>1. Served(r) = cache[FactOf(r)] /\ FactOf(r) \in DOMAIN cache
    BY <1>1, <1>2 DEF Served, IInv, Typed
  <2>2. cache[FactOf(r)] \in Nat /\ truth[FactOf(r)] \in Nat
    BY <1>1, <1>2 DEF IInv, Typed
  <2> QED BY <2>1, <2>2 DEF Versions
<1>3. CASE FactOf(r) \notin Cached
  <2>1. Served(r) = truth[FactOf(r)] /\ truth[FactOf(r)] \in Nat
    BY <1>1, <1>3 DEF Served, IInv, Typed
  <2> QED BY <2>1
<1> QED BY <1>2, <1>3

\* A load that is started again has read nothing, the others what they read.
LEMMA ReloadedGot ==
  ASSUME IInv, NEW rs, NEW m \in Reload(rs)
  PROVE  \/ m.res \in rs \cap Hooks /\ m.got = Nothing
         \/ \E n \in loads : m.res = n.res /\ m.got = n.got
<1> DEFINE old(n) == [n EXCEPT !.fresh = n.fresh /\ n.res \notin rs]
<1>1. \A n \in loads : old(n).res = n.res /\ old(n).got = n.got
  BY DEF IInv, Typed, Loads
<1>2. \A r \in Hooks : Load(r).res = r /\ Load(r).got = Nothing
  BY DEF Load
<1> HIDE DEF old
<1>3. Reload(rs) = {old(n) : n \in loads} \cup {Load(r) : r \in rs \cap Hooks}
  BY DEF Reload, old
<1> QED BY <1>1, <1>2, <1>3

LEMMA VersionsNext ==
  ASSUME IInv, Versions, [Next]_vars PROVE Versions'
<1>1. CASE HostChange \/ jobFinished \/ replicationFinished \/ longopUpdate \/ alertNew
           \/ \E a \in asked : Serve(a)
  <2>1. (\E fs : truth' = Bump(fs)) /\ UNCHANGED <<cache, shown, loads>>
    BY <1>1 DEF HostChange, jobFinished, replicationFinished, longopUpdate, alertNew, Serve, page
  <2> QED BY <2>1, Bumped, VersionsGrow
<1>2. CASE collectOnce
  <2>1. /\ UNCHANGED <<truth, shown, loads>>
        /\ cache' = [f \in DOMAIN cache |-> IF f = "disks" THEN cache[f] ELSE truth[f]]
    BY <1>2 DEF collectOnce, page
  <2>2. \A f \in DOMAIN cache' : cache'[f] <= truth'[f]
    BY <2>1 DEF Versions, IInv, Typed
  <2> QED BY <2>1, <2>2 DEF Versions
<1>3. CASE collectSmart
  <2>1. /\ UNCHANGED <<shown, loads>> /\ truth' = Bump({"disks"})
        /\ cache' = [f \in DOMAIN cache |-> IF f = "disks" THEN truth'[f] ELSE cache[f]]
    BY <1>3 DEF collectSmart, page
  <2>2. truth' \in [Facts -> Nat] /\ \A f \in Facts : truth[f] <= truth'[f]
    BY <2>1, Bumped
  <2>3. \A f \in DOMAIN cache : f \in Facts /\ cache[f] \in Nat /\ truth[f] \in Nat
    BY DEF IInv, Typed
  <2>4. \A f \in DOMAIN cache' : cache'[f] <= truth'[f]
    BY <2>1, <2>2, <2>3 DEF Versions
  <2>5. \A f \in Facts : 0..truth[f] \subseteq 0..truth'[f]
    BY <2>2 DEF IInv, Typed
  <2>6. \A n \in loads : n.res \in Hooks
    BY DEF IInv, Typed, Loads
  <2>7. \A r \in Hooks : FactOf(r) \in Facts
    BY HookNames
  <2> QED BY <2>1, <2>4, <2>5, <2>6, <2>7 DEF Versions
<1>4. CASE Navigate
  <2>1. /\ UNCHANGED <<truth, cache>> /\ \A r \in Hooks : shown'[r] = Nothing
        /\ loads' = {Load(r) : r \in mounted'}
    BY <1>4 DEF Navigate, server
  <2>2. \A m \in loads' : m.got = Nothing
    BY <2>1 DEF Load
  <2> QED BY <2>1, <2>2 DEF Versions
<1>5. ASSUME NEW n \in loads, Read(n) PROVE Versions'
  <2> DEFINE m == [n EXCEPT !.got = Served(n.res)]
  <2>1. m.res = n.res /\ m.got = Served(n.res) /\ n.res \in Hooks
    BY DEF IInv, Typed, Loads
  <2>2. loads' = (loads \ {n}) \cup {m} /\ UNCHANGED <<truth, cache, shown>>
    BY <1>5 DEF Read, server
  <2>3. Served(n.res) \in 0..truth[FactOf(n.res)]
    BY <2>1, ServedOld
  <2> HIDE DEF m
  <2> QED BY <2>1, <2>2, <2>3 DEF Versions
<1>6. ASSUME NEW n \in loads, useData(n) \/ LoadFails(n) PROVE Versions'
  <2>1. loads' = loads \ {n} /\ UNCHANGED <<truth, cache>>
    BY <1>6 DEF useData, LoadFails, server
  <2>2. \A r \in Hooks : shown'[r] = shown[r] \/ (r = n.res /\ shown'[r] = n.got)
    BY <1>6 DEF useData, LoadFails, IInv, Typed
  <2> QED BY <2>1, <2>2 DEF Versions
<1>7. CASE emitEvent \/ \E a \in asked : refresh(a)
  <2>1. UNCHANGED <<truth, cache, shown>> /\ (UNCHANGED loads \/ \E rs : loads' = Reload(rs))
    BY <1>7 DEF emitEvent, refresh, server
  <2>2. \A m \in loads' : m.got = Nothing \/ \E n \in loads : m.res = n.res /\ m.got = n.got
    BY <2>1, ReloadedGot
  <2> QED BY <2>1, <2>2 DEF Versions
<1>8. CASE UNCHANGED <<truth, cache, shown, loads>>
  BY <1>8 DEF Versions
<1> QED
  BY <1>1, <1>2, <1>3, <1>4, <1>5, <1>6, <1>7, <1>8
  DEF Next, paint, StreamBreaks, Press, Disarm, Submit, Refused, server, page, vars

---------------------------------------------------------------------------
(* Which loads there are.                                                  *)

LEMMA OnPageNext ==
  ASSUME IInv, OnPage, [Next]_vars PROVE OnPage'
<1> USE DEF OnPage
<1>1. CASE UNCHANGED <<route, loads>> /\ asked' \subseteq asked
  BY <1>1 DEF mounted
<1>2. ASSUME NEW a \in asked, Serve(a) PROVE OnPage'
  <2> DEFINE b(v) == [a EXCEPT !.made = v]
  <2>1. \A v : b(v).mine = a.mine /\ b(v).reloads = a.reloads
    BY DEF IInv, Typed, Asked
  <2>2. \E v : asked' = (asked \ {a}) \cup {b(v)}
    BY <1>2 DEF Serve
  <2> HIDE DEF b
  <2>3. UNCHANGED <<route, loads>>
    BY <1>2 DEF Serve, page
  <2> QED BY <2>1, <2>2, <2>3 DEF mounted
<1>3. CASE Press
  <2>1. ASSUME NEW a \in View[route].acts PROVE a.reloads \cap Hooks \subseteq mounted
    BY HandlersIn DEF mounted, IInv, Typed
  <2>2. ASSUME NEW b \in asked' \ asked PROVE b.reloads \subseteq mounted
    <3>1. PICK a \in View[route].acts :
            b = [changes |-> Seen(a.changes), reloads |-> a.reloads \cap Hooks,
                 mine |-> TRUE, dialog |-> FALSE, made |-> Nothing]
      BY <1>3, <2>2 DEF Press
    <3> QED BY <2>1, <3>1
  <2>3. UNCHANGED <<route, loads>>
    BY <1>3 DEF Press
  <2> QED BY <2>2, <2>3 DEF mounted
<1>4. CASE Submit
  <2>1. \A b \in asked' \ asked : b.reloads = {}
    BY <1>4 DEF Submit
  <2>2. UNCHANGED <<route, loads>>
    BY <1>4 DEF Submit, page
  <2> QED BY <2>1, <2>2 DEF mounted
<1>5. CASE Navigate
  <2>1. loads' = {Load(r) : r \in mounted'}
    BY <1>5 DEF Navigate
  <2>2. \A m \in loads' : m.res \in mounted'
    BY <2>1 DEF Load
  <2> DEFINE left(a) == [a EXCEPT !.mine = FALSE]
  <2>3. \A a \in asked : ~left(a).mine
    BY DEF IInv, Typed, Asked
  <2> HIDE DEF left
  <2>4. asked' = {left(a) : a \in asked}
    BY <1>5 DEF Navigate, left
  <2> QED BY <2>2, <2>3, <2>4
<1>6. ASSUME NEW n \in loads, Read(n) \/ useData(n) \/ LoadFails(n) PROVE OnPage'
  <2> DEFINE m == [n EXCEPT !.got = Served(n.res)]
  <2>1. m.res = n.res
    BY DEF IInv, Typed, Loads
  <2> HIDE DEF m
  <2>2. loads' \subseteq loads \cup {m} /\ UNCHANGED <<route, asked>>
    BY <1>6 DEF Read, useData, LoadFails, m
  <2> QED BY <2>1, <2>2 DEF mounted
<1>7. ASSUME NEW rs, rs \cap Hooks \subseteq mounted, loads' = Reload(rs), route' = route,
             asked' \subseteq asked
      PROVE  OnPage'
  <2>1. \A m \in loads' : m.res \in mounted
    BY <1>7, ReloadedGot
  <2> QED BY <1>7, <2>1 DEF mounted
<1>8. CASE emitEvent
  <2>1. UNCHANGED <<route, asked>>
    BY <1>8 DEF emitEvent
  <2>2. CASE Head(events) \in SSE_TYPES \cap DOMAIN View[route].on
    <3> DEFINE rs == View[route].on[Head(events)]
    <3>1. loads' = Reload(rs)
      BY <1>8, <2>2 DEF emitEvent
    <3>2. rs \cap Hooks \subseteq mounted
      BY <2>2, HandlersIn DEF mounted, IInv, Typed
    <3> HIDE DEF rs
    <3> QED BY <2>1, <3>1, <3>2, <1>7
  <2>3. CASE Head(events) \notin SSE_TYPES \cap DOMAIN View[route].on
    BY <1>1, <1>8, <2>1, <2>3 DEF emitEvent
  <2> QED BY <2>2, <2>3
<1>9. ASSUME NEW a \in asked, refresh(a) PROVE OnPage'
  <2>1. route' = route /\ asked' \subseteq asked
    BY <1>9 DEF refresh
  <2>2. CASE a.dialog
    BY <1>7, <1>9, <2>1, <2>2 DEF refresh
  <2>3. CASE ~a.dialog /\ a.mine
    BY <1>7, <1>9, <2>1, <2>3 DEF refresh
  <2>4. CASE ~a.dialog /\ ~a.mine
    BY <1>1, <1>9, <2>1, <2>4 DEF refresh
  <2> QED BY <2>2, <2>3, <2>4
<1> QED
  BY <1>1, <1>2, <1>3, <1>4, <1>5, <1>6, <1>8, <1>9
  DEF Next, HostChange, collectOnce, collectSmart, jobFinished, replicationFinished, longopUpdate,
      alertNew, paint, StreamBreaks, Disarm, Refused, page, vars

\* Starting loads again leaves one of each hook whose answer will be taken.
LEMMA ReloadedOnce ==
  ASSUME IInv, OneFresh, NEW rs, loads' = Reload(rs), UNCHANGED <<route, shown, failed>>
  PROVE  OneFresh'
<1> DEFINE old(n) == [n EXCEPT !.fresh = n.fresh /\ n.res \notin rs]
<1>1. \A n \in loads : old(n).res = n.res /\ (old(n).fresh <=> n.fresh /\ n.res \notin rs)
  BY DEF IInv, Typed, Loads
<1>2. \A r \in Hooks : Load(r).res = r
  BY DEF Load
<1> HIDE DEF old
<1>3. loads' = {old(n) : n \in loads} \cup {Load(r) : r \in rs \cap Hooks}
  BY DEF Reload, old
<1>4. ASSUME NEW m \in loads', NEW k \in loads', m.fresh, k.fresh, m.res = k.res
      PROVE  m = k
  <2>1. CASE m.res \in rs
    BY <1>1, <1>2, <1>3, <1>4, <2>1
  <2>2. CASE m.res \notin rs
    <3>1. PICK n \in loads : m = old(n)
      BY <1>2, <1>3, <2>2
    <3>2. PICK l \in loads : k = old(l)
      BY <1>2, <1>3, <1>4, <2>2
    <3>3. n = l
      BY <1>1, <1>4, <3>1, <3>2 DEF OneFresh
    <3> QED BY <3>1, <3>2, <3>3
  <2> QED BY <2>1, <2>2
<1>5. \A n \in loads : n.fresh => \E m \in loads' : m.fresh /\ m.res = n.res
  BY Reloaded DEF IInv, Typed
<1>6. \A r : Fresh(r)' = {} => Fresh(r) = {}
  BY <1>5 DEF Fresh
<1>7. mounted' = mounted
  BY DEF mounted
<1> QED BY <1>4, <1>6, <1>7 DEF OneFresh

LEMMA OneFreshNext ==
  ASSUME IInv, OnPage, OneFresh, [Next]_vars PROVE OneFresh'
<1>1. CASE UNCHANGED <<route, shown, failed, loads>>
  BY <1>1 DEF OneFresh, Fresh, mounted
<1>2. CASE Navigate
  <2>1. loads' = {Load(r) : r \in mounted'}
    BY <1>2 DEF Navigate
  <2>2. \A r : Load(r).res = r /\ Load(r).fresh
    BY DEF Load
  <2> QED BY <2>1, <2>2 DEF OneFresh, Fresh
<1>3. ASSUME NEW n \in loads, Read(n) PROVE OneFresh'
  <2> DEFINE m == [n EXCEPT !.got = Served(n.res)]
  <2>1. m.res = n.res /\ m.fresh = n.fresh
    BY DEF IInv, Typed, Loads
  <2> HIDE DEF m
  <2>2. loads' = (loads \ {n}) \cup {m} /\ UNCHANGED <<route, shown, failed>>
    BY <1>3 DEF Read, m
  <2>3. \A k, l \in loads' : k.fresh /\ l.fresh /\ k.res = l.res => k = l
    BY <2>1, <2>2 DEF OneFresh
  <2>4. \A r : Fresh(r)' = {} => Fresh(r) = {}
    BY <2>1, <2>2 DEF Fresh
  <2>5. mounted' = mounted
    BY <2>2 DEF mounted
  <2> QED BY <2>2, <2>3, <2>4, <2>5 DEF OneFresh
<1>4. ASSUME NEW n \in loads, useData(n) \/ LoadFails(n) PROVE OneFresh'
  <2>1. loads' = loads \ {n} /\ mounted' = mounted /\ mounted \subseteq Hooks /\ n.res \in Hooks
    BY <1>4 DEF useData, LoadFails, mounted, IInv, Typed, Loads
  <2>2. ASSUME NEW r \in mounted, Fresh(r)' = {}
        PROVE  shown'[r] # Nothing \/ r \in failed'
    <3>1. CASE n.fresh /\ r = n.res
      BY <1>4, <2>1, <3>1 DEF useData, LoadFails, IInv, Typed
    <3>2. CASE ~(n.fresh /\ r = n.res)
      <4>1. Fresh(r) = {}
        BY <2>1, <2>2, <3>2 DEF Fresh
      <4>2. shown'[r] = shown[r] /\ (r \in failed => r \in failed')
        BY <1>4, <2>1, <3>2 DEF useData, LoadFails, IInv, Typed
      <4> QED BY <4>1, <4>2 DEF OneFresh
    <3> QED BY <3>1, <3>2
  <2> QED BY <2>1, <2>2 DEF OneFresh
<1>5. CASE emitEvent \/ \E a \in asked : refresh(a)
  <2>1. UNCHANGED <<route, shown, failed>> /\ (UNCHANGED loads \/ \E rs : loads' = Reload(rs))
    BY <1>5 DEF emitEvent, refresh
  <2> QED BY <1>1, <2>1, ReloadedOnce
<1> QED
  BY <1>1, <1>2, <1>3, <1>4, <1>5
  DEF Next, HostChange, collectOnce, collectSmart, jobFinished, replicationFinished, longopUpdate,
      alertNew, paint, StreamBreaks, Press, Disarm, Submit, Serve, Refused, page, vars

LEMMA TInvInit ==
  Init => TInv
<1> SUFFICES ASSUME Init PROVE TInv
  OBVIOUS
<1>1. IInv
  BY InitStep
<1>2. \A r : Load(r).res = r /\ Load(r).fresh /\ Load(r).got = Nothing
  BY DEF Load
<1>3. Wire
  BY ViewsAssumption DEF Init, Wire
<1>4. Versions
  BY <1>2 DEF Init, Versions
<1>5. OnPage
  BY <1>2 DEF Init, OnPage
<1>6. OneFresh
  BY <1>2 DEF Init, OneFresh, Fresh
<1> QED BY <1>3, <1>4, <1>5, <1>6 DEF TInv

LEMMA TInvTypes ==
  ASSUME IInv, TInv PROVE TypeOK
<1> USE DEF TInv
<1>1. truth \in [Facts -> Nat] /\ news \subseteq HostNews
  BY DEF IInv, Typed, Wire
<1>2. \A f \in DOMAIN cache : cache[f] \in 0..truth[f]
  <2>1. \A f \in DOMAIN cache : cache[f] \in Nat /\ truth[f] \in Nat
    BY DEF IInv, Typed
  <2> QED BY <2>1 DEF Versions
<1>3. ASSUME NEW r \in mounted PROVE Cardinality(Fresh(r)) <= 1
  <2>1. CASE Fresh(r) = {}
    BY <2>1, FS_EmptySet
  <2>2. CASE \E n : n \in Fresh(r)
    <3>1. PICK n : n \in Fresh(r)
      BY <2>2
    <3>2. Fresh(r) = {n}
      BY <3>1 DEF Fresh, OneFresh
    <3>3. Cardinality({n}) = 1
      BY FS_Singleton
    <3> QED BY <3>2, <3>3
  <2> QED BY <2>1, <2>2
<1>4. Range(events) \subseteq EventTypes /\ Len(events) <= MaxEvents
  BY DEF Wire, Range
<1> QED BY <1>1, <1>2, <1>3, <1>4 DEF TypeOK, Versions, OnPage, OneFresh

(* Types; and every hook of the open view has at most one load whose answer *)
(* it will take (the id of ui/useData.ts), and one until it shows something *)
(* or its load failed, whatever events, dialogs and buttons load it again.  *)
THEOREM TypeCorrect == Spec => []TypeOK
<1>1. IInv /\ TInv => TypeOK
  BY TInvTypes
<1>2. Init => IInv /\ TInv
  BY InitStep, TInvInit
<1>3. IInv /\ TInv /\ [Next]_vars => IInv' /\ TInv'
  BY InvStep, WireNext, VersionsNext, OnPageNext, OneFreshNext DEF TInv
<1> QED
  BY <1>1, <1>2, <1>3, PTL DEF Spec

---------------------------------------------------------------------------
(* What an event told the open view.                                       *)

\* An event on its way tells the open view of hook r.
Pending(r) == \E i \in DOMAIN events : <<route, events[i], r>> \in Announces

\* A list that is behind what its view was told has an event on its way that
\* will load it, or a load that will bring what the view was told.
StillComing ==
  \A r \in Hooks : Behind(r) =>
    \/ Pending(r)
    \/ \E n \in Fresh(r) : n.got = Nothing \/ n.got >= due[r]

\* The server can tell what the view was told of, and a load that will be taken
\* has it or is followed by another.
Told ==
  /\ due \in [Hooks -> Int]
  /\ \A r \in Hooks : due[r] <= Served(r)
  /\ \A r \in Hooks : due[r] # Nothing => r \in mounted

Carried ==
  /\ \A n \in loads : n.fresh => n.got = Nothing \/ n.got >= due[n.res] \/ Pending(n.res)
  /\ \A r \in Hooks : Behind(r) => Pending(r) \/ Fresh(r) # {}

\* The table of the views: what an event tells a view of, the view loads.
LEMMA AnnouncedLoads ==
  ASSUME NEW v \in Views, NEW e, NEW r \in Hooks, <<v, e, r>> \in Announces
  PROVE  /\ r \in View[v].hooks /\ r \in View[v].on[e]
         /\ e \in SSE_TYPES \cap DOMAIN View[v].on
<1>1. \/ v = "tasks" /\ e = "job.finished" /\ r \in {"jobs", "hist"}
      \/ v = "tasks" /\ e = "longop.update" /\ r = "ops"
      \/ v = "data" /\ e = "longop.update" /\ r = "ops"
      \/ v = "pools" /\ e \in {"pool.status", "scrub.done"} /\ r = "pools"
      \/ v = "dash" /\ e = "pool.status" /\ r = "overview"
      \/ v = "dash" /\ e = "scrub.done" /\ r \in {"pools", "overview"}
  BY DEF Announces
<1>2. e \in SSE_TYPES
  BY <1>1 DEF SSE_TYPES
<1>3. CASE v = "tasks"
  <2>1. r \in View[v].hooks /\ e \in DOMAIN View[v].on /\ r \in View[v].on[e]
    BY <1>1, <1>3 DEF View, Tasks, Also, On
  <2> QED BY <1>2, <2>1
<1>4. CASE v = "dash"
  <2>1. r \in View[v].hooks /\ e \in DOMAIN View[v].on /\ r \in View[v].on[e]
    BY <1>1, <1>4 DEF View, Dashboard, Also, On
  <2> QED BY <1>2, <2>1
<1>5. CASE v \in {"data", "pools"}
  <2>1. r \in View[v].hooks /\ e \in DOMAIN View[v].on /\ r \in View[v].on[e]
    BY <1>1, <1>5 DEF View, Datasets, PoolsView, On
  <2> QED BY <1>2, <2>1
<1> QED BY <1>1, <1>3, <1>4, <1>5

LEMMA ServedGrows ==
  ASSUME IInv, Versions, [Next]_vars, NEW r \in Hooks
  PROVE  Served(r) \in Nat /\ Served(r)' \in Nat /\ Served(r) <= Served(r)'
<1> DEFINE f == FactOf(r)
<1>1. f \in Facts
  BY HookNames
<1>2. IInv'
  BY InvStep
<1>3. /\ truth[f] \in Nat /\ truth'[f] \in Nat
      /\ f \in Cached => f \in DOMAIN cache /\ cache[f] \in Nat /\ cache'[f] \in Nat
  BY <1>1, <1>2 DEF IInv, Typed
<1>4. truth[f] <= truth'[f]
  <2>1. CASE truth' = truth
    BY <1>3, <2>1
  <2>2. CASE \E fs : truth' = Bump(fs)
    BY <1>1, <2>2, Bumped
  <2> QED BY <2>1, <2>2
    DEF Next, HostChange, collectOnce, collectSmart, jobFinished, replicationFinished, longopUpdate,
        alertNew, paint, Navigate, emitEvent, StreamBreaks, Press, Disarm, Submit, Read, useData, LoadFails,
        Serve, Refused, refresh, server, page, vars
<1>5. ASSUME f \in Cached PROVE cache[f] <= cache'[f]
  <2>1. cache[f] <= truth[f] /\ cache[f] <= truth'[f]
    BY <1>1, <1>3, <1>4, <1>5 DEF Versions
  <2>2. cache'[f] = cache[f] \/ cache'[f] = truth[f] \/ cache'[f] = truth'[f]
    <3>1. CASE collectOnce
      BY <1>3, <1>5, <3>1 DEF collectOnce
    <3>2. CASE collectSmart
      BY <1>3, <1>5, <3>2 DEF collectSmart
    <3>3. CASE UNCHANGED cache
      BY <3>3
    <3> QED BY <3>1, <3>2, <3>3
      DEF Next, HostChange, jobFinished, replicationFinished, longopUpdate, alertNew, paint, Navigate,
          emitEvent, StreamBreaks, Press, Disarm, Submit, Read, useData, LoadFails, Serve, Refused,
          refresh, server, page, vars
  <2> QED BY <1>3, <1>5, <2>1, <2>2
<1> HIDE DEF f
<1>6. CASE f \in Cached
  BY <1>3, <1>5, <1>6 DEF Served, f
<1>7. CASE f \notin Cached
  BY <1>3, <1>4, <1>7 DEF Served, f
<1> QED BY <1>6, <1>7

LEMMA PendingKept ==
  ASSUME events \in Seq(EventTypes), NEW es \in Seq(EventTypes), events' = events \o es, UNCHANGED route
  PROVE  /\ \A r : Pending(r) => Pending(r)'
         /\ \A r : (\E e \in Range(es) : <<route, e, r>> \in Announces) => Pending(r)'
<1>1. ASSUME NEW r, Pending(r) PROVE Pending(r)'
  <2>1. PICK i \in DOMAIN events : <<route, events[i], r>> \in Announces
    BY <1>1 DEF Pending
  <2>2. i \in DOMAIN events' /\ events'[i] = events[i]
    OBVIOUS
  <2> QED BY <2>1, <2>2 DEF Pending
<1>2. ASSUME NEW r, NEW e \in Range(es), <<route, e, r>> \in Announces PROVE Pending(r)'
  <2>1. PICK i \in DOMAIN es : e = es[i]
    BY DEF Range
  <2>2. Len(events) + i \in DOMAIN events' /\ events'[Len(events) + i] = es[i]
    BY <2>1
  <2> QED BY <1>2, <2>1, <2>2 DEF Pending
<1> QED BY <1>1, <1>2

LEMMA ToldNext ==
  ASSUME IInv, Wire, Versions, Told, [Next]_vars PROVE Told'
<1>1. \A r \in Hooks : Served(r) \in Nat /\ Served(r)' \in Nat /\ Served(r) <= Served(r)'
  BY ServedGrows
<1>2. CASE UNCHANGED <<route, due>>
  BY <1>1, <1>2 DEF Told, mounted, Nothing
<1>3. CASE collectOnce \/ collectSmart \/ jobFinished \/ replicationFinished \/ longopUpdate \/ alertNew \/ paint
  <2>1. PICK es \in Seq(EventTypes) : Put(es)
    BY <1>3, Published
  <2>2. route' = route
    BY <1>3, Published DEF page
  <2>3. \A r \in Hooks :
          \/ due'[r] = due[r]
          \/ due'[r] = Served(r)' /\ \E e : <<route, e, r>> \in Announces
    BY <2>1 DEF Put
  <2>4. due' \in [Hooks -> Int]
    <3>1. \A r \in Hooks : due'[r] \in Int
      BY <1>1, <2>3 DEF Told
    <3>2. DOMAIN due' = Hooks /\ due' = [r \in DOMAIN due' |-> due'[r]]
      BY <2>1 DEF Put
    <3> QED BY <3>1, <3>2
  <2>5. \A r \in Hooks : due'[r] <= Served(r)'
    BY <1>1, <2>3 DEF Told
  <2>6. \A r \in Hooks : due'[r] # Nothing => r \in mounted
    BY <2>3, AnnouncedLoads DEF Told, mounted, IInv, Typed
  <2> QED BY <2>2, <2>4, <2>5, <2>6 DEF Told, mounted
<1>4. CASE Navigate \/ StreamBreaks
  BY <1>1, <1>4 DEF Navigate, StreamBreaks, Told, Nothing
<1> QED
  BY <1>2, <1>3, <1>4
  DEF Next, HostChange, emitEvent, Press, Disarm, Submit, Read, useData, LoadFails, Serve, Refused,
      refresh, page, vars

\* Loads are started again, of those lists at least that an event handled now
\* told of.
LEMMA ReloadCarries ==
  ASSUME IInv, Carried, NEW rs, loads' = Reload(rs), UNCHANGED <<shown, failed, due>>,
         \A r \in Hooks \ rs : Pending(r) => Pending(r)'
  PROVE  Carried'
<1>1. /\ loads' \subseteq Loads
      /\ \A m \in loads' : m.fresh =>
           \/ m.res \in rs /\ m.got = Nothing
           \/ \E n \in loads : n.fresh /\ n.res = m.res /\ n.got = m.got /\ n.res \notin rs
      /\ \A n \in loads : n.fresh => \E m \in loads' : m.fresh /\ m.res = n.res
      /\ \A r \in rs \cap Hooks : \E m \in loads' : m.fresh /\ m.res = r
  BY Reloaded DEF IInv, Typed
<1>2. ASSUME NEW m \in loads', m.fresh
      PROVE  m.got = Nothing \/ m.got >= due[m.res] \/ Pending(m.res)'
  BY <1>1, <1>2 DEF Carried, Loads
<1>3. ASSUME NEW r \in Hooks, Behind(r) PROVE Pending(r)' \/ Fresh(r)' # {}
  <2>1. CASE r \in rs
    BY <1>1, <2>1 DEF Fresh
  <2>2. CASE r \notin rs
    BY <1>1, <1>3, <2>2 DEF Fresh, Carried
  <2> QED BY <2>1, <2>2
<1> QED BY <1>2, <1>3 DEF Carried, Behind

LEMMA CarriedNext ==
  ASSUME IInv, Wire, Versions, Told, Carried, [Next]_vars PROVE Carried'
<1>1. CASE UNCHANGED <<route, shown, failed, loads, events, due>>
  BY <1>1 DEF Carried, Behind, Fresh, Pending
<1>2. CASE collectOnce \/ collectSmart \/ jobFinished \/ replicationFinished \/ longopUpdate \/ alertNew \/ paint
  <2>1. PICK es \in Seq(EventTypes) : Put(es)
    BY <1>2, Published
  <2>2. UNCHANGED <<route, shown, failed, loads>>
    BY <1>2, Published DEF page
  <2>3. /\ \A r : Pending(r) => Pending(r)'
        /\ \A r : (\E e \in Range(es) : <<route, e, r>> \in Announces) => Pending(r)'
    BY <2>1, <2>2, PendingKept DEF Wire, Put
  <2>4. \A r \in Hooks : due'[r] = due[r] \/ Pending(r)'
    BY <2>1, <2>3 DEF Put
  <2>5. \A n \in loads : n.res \in Hooks
    BY DEF IInv, Typed, Loads
  <2> QED BY <2>2, <2>3, <2>4, <2>5 DEF Carried, Behind, Fresh
<1>3. CASE Navigate
  <2>1. loads' = {Load(r) : r \in mounted'} /\ \A r \in Hooks : due'[r] = Nothing /\ shown'[r] = Nothing
    BY <1>3 DEF Navigate
  <2>2. \A m \in loads' : m.got = Nothing
    BY <2>1 DEF Load
  <2> QED BY <2>1, <2>2 DEF Carried, Behind, Nothing
<1>4. CASE StreamBreaks
  <2>1. UNCHANGED <<shown, loads>> /\ \A r \in Hooks : due'[r] = Nothing
    BY <1>4 DEF StreamBreaks, page
  <2>2. \A n \in loads : n.res \in Hooks /\ (n.got = Nothing \/ n.got >= Nothing)
    <3>1. \A n \in loads : n.res \in Hooks
      BY DEF IInv, Typed, Loads
    <3>2. \A n \in loads : n.got = Nothing \/ n.got \in Nat
      BY DEF Versions
    <3> QED BY <3>1, <3>2 DEF Nothing
  <2>3. \A r \in Hooks : shown[r] = Nothing \/ shown[r] \in Nat
    BY DEF Versions
  <2>4. \A r \in Hooks : ~(shown[r] < Nothing)
    BY <2>3 DEF Nothing
  <2> QED BY <2>1, <2>2, <2>4 DEF Carried, Behind
<1>5. ASSUME NEW n \in loads, Read(n) PROVE Carried'
  <2> DEFINE m == [n EXCEPT !.got = Served(n.res)]
  <2>1. m.res = n.res /\ m.fresh = n.fresh /\ m.got = Served(n.res) /\ n.res \in Hooks
    BY DEF IInv, Typed, Loads
  <2> HIDE DEF m
  <2>2. loads' = (loads \ {n}) \cup {m} /\ UNCHANGED <<route, shown, failed, events, due>>
    BY <1>5 DEF Read, m
  <2>3. m.got >= due[m.res]
    <3>1. Served(n.res) \in Nat
      BY <2>1, ServedGrows
    <3> QED BY <2>1, <3>1 DEF Told
  <2>4. \A k \in loads' : k.fresh => k.got = Nothing \/ k.got >= due[k.res] \/ Pending(k.res)
    BY <2>2, <2>3 DEF Carried
  <2>5. \A r : Fresh(r) # {} => Fresh(r)' # {}
    BY <2>1, <2>2 DEF Fresh
  <2> QED BY <2>2, <2>4, <2>5 DEF Carried, Behind, Pending
<1>6. ASSUME NEW n \in loads, useData(n) \/ LoadFails(n) PROVE Carried'
  <2>1. loads' = loads \ {n} /\ UNCHANGED <<route, events, due>> /\ n.res \in Hooks
    BY <1>6 DEF useData, LoadFails, IInv, Typed, Loads
  <2>2. ASSUME NEW r \in Hooks, Behind(r)' PROVE Pending(r) \/ Fresh(r)' # {}
    <3>1. CASE n.fresh /\ r = n.res
      <4>1. useData(n) /\ n.got # Nothing /\ shown'[r] = n.got
        BY <1>6, <2>1, <2>2, <3>1 DEF useData, LoadFails, Behind, IInv, Typed
      <4>2. ~(n.got >= due[r])
        BY <2>1, <2>2, <4>1 DEF Behind, Told, IInv, Typed, Loads
      <4> QED BY <3>1, <4>1, <4>2 DEF Carried
    <3>2. CASE ~(n.fresh /\ r = n.res)
      <4>1. shown'[r] = shown[r] /\ (r \notin failed' => r \notin failed)
        BY <1>6, <2>1, <3>2 DEF useData, LoadFails, IInv, Typed
      <4>2. Fresh(r) # {} => Fresh(r)' # {}
        BY <2>1, <3>2 DEF Fresh
      <4>3. Behind(r)
        BY <2>1, <2>2, <4>1 DEF Behind
      <4> QED BY <4>2, <4>3 DEF Carried
    <3> QED BY <3>1, <3>2
  <2> QED BY <2>1, <2>2 DEF Carried, Pending
<1>7. CASE emitEvent
  <2> DEFINE e == Head(events)
             on == View[route].on
             T == SSE_TYPES \cap DOMAIN on
  <2>1. /\ events # <<>> /\ events' = Tail(events) /\ UNCHANGED <<route, shown, failed, due>>
        /\ loads' = IF e \in T THEN Reload(on[e]) ELSE loads
    BY <1>7 DEF emitEvent
  <2>2. ASSUME NEW r \in Hooks, Pending(r), ~(e \in T /\ r \in on[e])
        PROVE  Pending(r)'
    <3>1. PICK i \in DOMAIN events : <<route, events[i], r>> \in Announces
      BY <2>2 DEF Pending
    <3>2. i # 1
      <4>1. events[1] = Head(events)
        BY <2>1 DEF Wire
      <4> QED BY <2>2, <3>1, <4>1, AnnouncedLoads DEF IInv, Typed
    <3>3. i - 1 \in DOMAIN events' /\ events'[i - 1] = events[i]
      BY <2>1, <3>1, <3>2 DEF Wire
    <3> QED BY <2>1, <3>1, <3>3 DEF Pending
  <2>3. CASE e \in T
    <3> DEFINE rs == on[e]
    <3>1. loads' = Reload(rs) /\ \A r \in Hooks \ rs : Pending(r) => Pending(r)'
      BY <2>1, <2>2, <2>3
    <3> HIDE DEF rs
    <3> QED BY <2>1, <3>1, ReloadCarries
  <2>4. CASE e \notin T
    <3>1. UNCHANGED loads /\ \A r \in Hooks : Pending(r) => Pending(r)'
      BY <2>1, <2>2, <2>4
    <3>2. \A n \in loads : n.res \in Hooks
      BY DEF IInv, Typed, Loads
    <3> QED BY <2>1, <3>1, <3>2 DEF Carried, Behind, Fresh
  <2> QED BY <2>3, <2>4
<1>8. ASSUME NEW a \in asked, refresh(a) PROVE Carried'
  <2>1. UNCHANGED <<route, shown, failed, events, due>> /\ (UNCHANGED loads \/ \E rs : loads' = Reload(rs))
    BY <1>8 DEF refresh
  <2>2. \A r : Pending(r) => Pending(r)'
    BY <2>1 DEF Pending
  <2> QED BY <1>1, <2>1, <2>2, ReloadCarries
<1> QED
  BY <1>1, <1>2, <1>3, <1>4, <1>5, <1>6, <1>7, <1>8
  DEF Next, HostChange, Press, Disarm, Submit, Serve, Refused, page, vars

(* The safety half of EventShown: as long as the view is open and its       *)
(* stream holds, a list that does not show what an event told its view is   *)
(* about to be loaded again, or has a load under way whose answer it will   *)
(* take and that has, or will read, what the event told (the handlers of    *)
(* the views over ui/useData.ts).  What remains for EventShown is that the  *)
(* queue moves and loads end.                                               *)
THEOREM ToldIsComing == Spec => []StillComing
<1> DEFINE Inv == IInv /\ TInv /\ Told /\ Carried
<1>1. Inv => StillComing
  <2> SUFFICES ASSUME Inv, NEW r \in Hooks, Behind(r), ~Pending(r)
               PROVE  \E n \in Fresh(r) : n.got = Nothing \/ n.got >= due[r]
    BY DEF StillComing
  <2>1. PICK n \in Fresh(r) : TRUE
    BY DEF Carried
  <2> QED BY <2>1 DEF Carried, Fresh
<1>2. Init => Inv
  <2> SUFFICES ASSUME Init PROVE Inv
    OBVIOUS
  <2>1. IInv /\ TInv
    BY InitStep, TInvInit
  <2>2. \A r \in Hooks : Served(r) \in 0..truth[FactOf(r)]
    BY <2>1, ServedOld DEF TInv
  <2>3. Told
    BY <2>2 DEF Init, Told, Nothing
  <2>4. \A r : Load(r).got = Nothing
    BY DEF Load
  <2>5. Carried
    BY <2>4 DEF Init, Carried, Behind, Nothing
  <2> QED BY <2>1, <2>3, <2>5
<1>3. Inv /\ [Next]_vars => Inv'
  BY InvStep, WireNext, VersionsNext, OnPageNext, OneFreshNext, ToldNext, CarriedNext DEF TInv
<1> QED
  BY <1>1, <1>2, <1>3, PTL DEF Spec

=============================================================================
