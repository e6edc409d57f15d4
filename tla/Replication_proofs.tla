------------------------- MODULE Replication_proofs -------------------------
(***************************************************************************)
(* Proofs about Replication for every set of jobs, executions and          *)
(* environments.                                                           *)
(*                                                                         *)
(* What the code's two safety promises rest on: an execution destroys a    *)
(* destination only after it saw force_full on its job (Allowed), and an   *)
(* operation is done only if its own pipeline committed (Owned, Done).     *)
(* IInv joins them; neither property is inductive without the other parts, *)
(* because the step that could break it (zfs destroy, zfs bookmark) looks  *)
(* only at where the execution stands.                                     *)
(*                                                                         *)
(* The last two sections are about the bookmark, with executions of one    *)
(* job overlapping, failing anywhere and being cut short by a restart: it  *)
(* only moves to the newest snapshot its destination has (NInv), and where *)
(* a row names that snapshot, so does #ezrepl-last (Agrees).               *)
(***************************************************************************)
EXTENDS Replication, FiniteSetTheorems, TLAPS

Replicated(e) == ex[e].snap \in got[ex[e].def] \/ ex[e].def \in forced

\* force_full reaches an execution, and a zfs destroy, only through a row.
RowAllowed == \A i \in Ids : row[i].live /\ row[i].force => row[i].def \in forced
Allowed == \A e \in Execs :
  /\ ex[e].force => ex[e].def \in forced
  /\ ex[e].pc = "destroy" => ex[e].force

\* An operation that runs is one its execution waits for.
Awaited == \A e \in Execs :
  ex[e].op \in {"started", "flowing"} => ex[e].pc \in {"wait", "rewait"}

\* A pipeline sends its owner's snapshot to its owner's destination.
Owned == \A f \in flows : f.owner \in Execs =>
  /\ ex[f.owner].op = "flowing"
  /\ f.def = ex[f.owner].def
  /\ f.snap = ex[f.owner].snap
OneFlow == \A f, g \in flows : f.owner \in Execs /\ f.owner = g.owner => f = g

Done == \A e \in Execs :
  ex[e].op = "done" \/ ex[e].ok \/ ex[e].pc \in {"unmark", "bookmark", "prune"}
    => Replicated(e)

\* An execution that has no snapshot yet has no operation and no result.
Fresh == \A e \in Execs :
  ex[e].pc \in {"fetched", "snapshot"} => ex[e].op = "none" /\ ~ex[e].ok

IInv == TypeOK /\ RowAllowed /\ Allowed /\ Awaited /\ Owned /\ OneFlow /\ Done /\ Fresh

LEMMA NoRowType == NoRow \in Row
BY ReplicationAssumption DEF NoRow, Row

LEMMA NoExecType == NoExec \in Exec
<1>1. Ids # {}
  BY ReplicationAssumption
<1>2. QED
  BY <1>1, ReplicationAssumption DEF NoExec, Exec, PCs, Ops

\* The types hold initially and after every step.
LEMMA TypeInit == Init => TypeOK
<1>1. Init => Types
  BY ReplicationAssumption, NoRowType, NoExecType DEF Init, Types, Seconds, Flow
<1>2. Init => \A e \in Execs : ex[e].op = "none"
  BY DEF Init, NoExec
<1>3. QED
  BY <1>1, <1>2 DEF TypeOK

LEMMA TypeStep ==
  ASSUME TypeOK, [Next]_vars
  PROVE  Types'
<1> DEFINE ExOK == ex \in [Execs -> Exec]
<1>e. ExOK
  BY DEF TypeOK, Types
<1>r. row \in [Ids -> Row] /\ clock \in Nat
  BY DEF TypeOK, Types, Seconds
<1>s. snaps \in [Sources -> SUBSET (Nat \ {0})] /\ clock \in Nat \ {0}
  BY DEF TypeOK, Types, Seconds
<1>f. flows \subseteq Flow
  BY DEF TypeOK, Types
<1> USE DEF zfs, dest
<1>1. ASSUME NEW d \in Defs, Create(d) PROVE Types'
  <2>1. PICK force \in BOOLEAN :
          row' = [row EXCEPT ![NextId] = [NoRow EXCEPT !.live = TRUE, !.def = d,
                    !.enabled = TRUE, !.force = force, !.base = clock]]
    BY <1>1 DEF Create
  <2>2. [NoRow EXCEPT !.live = TRUE, !.def = d, !.enabled = TRUE, !.force = force,
                      !.base = clock] \in Row
    BY <1>r, NoRowType DEF Row
  <2>3. row' \in [Ids -> Row]
    BY <1>r, <2>1, <2>2
  <2>4. forced' \subseteq Defs
    BY <1>1 DEF Create, TypeOK, Types
  <2>5. QED
    BY <1>1, <2>3, <2>4 DEF TypeOK, Types, Seconds, Create
<1>2. ASSUME NEW i \in Ids, PatchEnabled(i) \/ PatchForce(i) \/ Delete(i) PROVE Types'
  <2>1. row' \in [Ids -> Row]
    BY <1>2, <1>r, NoRowType DEF PatchEnabled, PatchForce, Delete, Row
  <2>2. row[i].def \in Defs
    BY <1>r DEF Row
  <2>3. QED
    BY <1>2, <2>1, <2>2 DEF TypeOK, Types, Seconds, PatchEnabled, PatchForce, Delete
<1>3. ASSUME NEW e \in Execs, NEW i \in Ids, NEW tick \in BOOLEAN, Fetch(e, i, tick)
      PROVE  Types'
  <2>1. [NoExec EXCEPT !.pc = "fetched", !.tick = tick, !.id = i,
                       !.def = row[i].def, !.force = row[i].force,
                       !.bookmark = row[i].bookmark] \in Exec
    BY <1>r, NoExecType DEF Exec, PCs, Row
  <2>2. QED
    BY <1>3, <2>1 DEF TypeOK, Types, Seconds, Fetch
<1>4. ASSUME NEW e \in Execs, Admit(e) PROVE Types'
  <2>1. ExOK'
    BY <1>e, <1>4, NoExecType DEF Admit, Exec, PCs
  <2>2. QED
    BY <1>4, <2>1 DEF TypeOK, Types, Seconds, Admit
<1>5. ASSUME NEW e \in Execs, Snapshot(e) PROVE Types'
  <2>1. ExOK'
    BY <1>e, <1>5 DEF Snapshot, Fail, Exec, PCs
  <2>2. snaps' \in [Sources -> SUBSET (Nat \ {0})]
    BY <1>s, <1>5 DEF Snapshot
  <2>3. QED
    BY <1>5, <2>1, <2>2 DEF TypeOK, Types, Seconds, Snapshot
<1>6. ASSUME NEW e \in Execs, Start(e) \/ Restart(e) PROVE Types'
  <2>1. ExOK'
    BY <1>e, <1>6 DEF Start, Restart, Fail, Exec, PCs, Ops
  <2>2. QED
    BY <1>6, <2>1 DEF TypeOK, Types, Seconds, Start, Restart
<1>7. ASSUME NEW e \in Execs, Waited(e) \/ Rewaited(e) PROVE Types'
  <2>1. ExOK'
    BY <1>e, <1>7 DEF Waited, Rewaited, Goto, Fail, Exec, PCs
  <2>2. QED
    BY <1>7, <2>1 DEF TypeOK, Types, Seconds, Waited, Rewaited
<1>8. ASSUME NEW e \in Execs, DestroyDest(e) PROVE Types'
  <2>1. ExOK'
    BY <1>e, <1>8 DEF DestroyDest, Goto, Fail, Exec, PCs
  <2>2. QED
    BY <1>8, <2>1 DEF TypeOK, Types, Seconds, DestroyDest
<1>9. ASSUME NEW e \in Execs, Unmark(e) PROVE Types'
  <2>1. ExOK'
    BY <1>e, <1>9 DEF Unmark, Goto, Exec, PCs
  <2>2. QED
    BY <1>9, <2>1 DEF TypeOK, Types, Seconds, Unmark
<1>10. ASSUME NEW e \in Execs, Bookmark(e) PROVE Types'
  <2>1. ExOK'
    BY <1>e, <1>10 DEF Bookmark, Fail, Exec, PCs
  <2>2. ex[e].snap \in Nat
    BY <1>e DEF Exec
  <2>3. QED
    BY <1>10, <2>1, <2>2 DEF TypeOK, Types, Seconds, Bookmark
<1>11. ASSUME NEW e \in Execs, Prune(e) PROVE Types'
  <2>1. PICK gone : snaps' = [snaps EXCEPT ![Source(e)] = @ \ gone]
    BY <1>11 DEF Prune
  <2>0. ex' = [ex EXCEPT ![e].pc = "finish", ![e].ok = TRUE]
    BY <1>11 DEF Prune
  <2>a. [ex[e] EXCEPT !.pc = "finish", !.ok = TRUE] \in Exec
    BY <1>e DEF Exec, PCs
  <2>2. ExOK'
    BY <1>e, <2>0, <2>a
  <2>3. snaps' \in [Sources -> SUBSET (Nat \ {0})]
    BY <1>s, <2>1
  <2>4. QED
    BY <1>11, <2>2, <2>3 DEF TypeOK, Types, Seconds, Prune
<1>12. ASSUME NEW e \in Execs, Finish(e) PROVE Types'
  <2>1. ExOK'
    BY <1>e, <1>12, NoExecType DEF Finish
  <2>2. row' \in [Ids -> Row]
    <3>1. ex[e].id \in Ids /\ ex[e].bookmark \in Nat
      BY <1>e DEF Exec
    <3>2. QED
      BY <1>12, <1>r, <3>1 DEF Finish, Row
  <2>3. QED
    BY <1>12, <2>1, <2>2 DEF TypeOK, Types, Seconds, Finish
<1>13. ASSUME NEW e \in Execs, FlowBegins(e) PROVE Types'
  <2>1. ExOK'
    BY <1>e, <1>13 DEF FlowBegins, Ended, Exec, Ops
  <2>2. CASE UNCHANGED flows
    BY <1>13, <2>1, <2>2 DEF TypeOK, Types, Seconds, FlowBegins
  <2>3. CASE Flows(e) /\ flows' # flows
    <3>1. Source(e) \in Sources /\ ex[e].def \in Defs
      BY <1>e, ReplicationAssumption DEF Source, Exec
    <3>2. mark[Source(e)] \in Nat /\ ex[e].snap \in Nat \ {0}
      BY <1>s, <2>3, <3>1 DEF Flows, TypeOK, Types
    <3>3. flows' \subseteq Flow
      BY <1>13, <1>f, <2>3, <3>1, <3>2 DEF FlowBegins, Flow, Seconds
    <3>4. QED
      BY <1>13, <2>1, <3>3 DEF TypeOK, Types, Seconds, FlowBegins
  <2>4. QED
    BY <1>13, <2>2, <2>3 DEF TypeOK, Types, Seconds, FlowBegins
<1>14. ASSUME NEW f \in flows, FlowCommits(f) \/ FlowBreaks(f) PROVE Types'
  <2>1. ExOK'
    BY <1>e, <1>14 DEF FlowCommits, FlowBreaks, OwnerEnds, Ended, Exec, Ops
  <2>2. f.def \in Defs /\ f.snap \in Nat \ {0}
    BY <1>f DEF Flow, Seconds
  <2>3. flows' \subseteq Flow
    BY <1>14, <1>f DEF FlowCommits, FlowBreaks
  <2>4. CASE FlowCommits(f)
    BY <2>1, <2>2, <2>3, <2>4 DEF TypeOK, Types, Seconds, FlowCommits
  <2>5. CASE FlowBreaks(f)
    BY <2>1, <2>2, <2>3, <2>5 DEF TypeOK, Types, Seconds, FlowBreaks
  <2>6. QED
    BY <1>14, <2>4, <2>5
<1>15. ASSUME NEW e \in Execs, Cancel(e) PROVE Types'
  <2>1. ExOK'
    BY <1>e, <1>15 DEF Cancel, Exec
  <2>2. QED
    BY <1>15, <2>1 DEF TypeOK, Types, Seconds, Cancel
<1>16. ASSUME NEW e \in Execs, Kill(e) PROVE Types'
  <2>1. Orphaned(e) \subseteq Flow
    BY <1>f DEF Orphaned, Flow
  <2>2. ExOK'
    BY <1>e, <1>16 DEF Kill, Exec, Ops
  <2>3. QED
    BY <1>16, <2>1, <2>2 DEF TypeOK, Types, Seconds, Kill
<1>17. CASE Tick
  BY <1>17 DEF Tick, TypeOK, Types, Seconds
<1>18. ASSUME NEW d \in Defs, Diverge(d) PROVE Types'
  BY <1>18 DEF Diverge, TypeOK, Types
<1>19. CASE Crash
  <2>1. flows' \subseteq Flow
    BY <1>19, <1>f DEF Crash, Flow
  <2>2. QED
    BY <1>19, <2>1, NoExecType DEF TypeOK, Types, Seconds, Crash
<1>20. CASE UNCHANGED vars
  BY <1>20 DEF vars, TypeOK, Types
<1>21. QED
  BY <1>1, <1>2, <1>3, <1>4, <1>5, <1>6, <1>7, <1>8, <1>9, <1>10, <1>11, <1>12,
     <1>13, <1>14, <1>15, <1>16, <1>17, <1>18, <1>19, <1>20
     DEF Next, Launch, RunNow, Check, Run, Pipeline, Admin

----------------------------------------------------------------------------
(* A step seen from the executions: whose record changes, and how.         *)

\* A step of e changes the record of no other execution.
LEMMA OthersKept ==
  ASSUME TypeOK, NEW e \in Execs,
         \/ \E i \in Ids, tick \in BOOLEAN : Fetch(e, i, tick)
         \/ Run(e) \/ FlowBegins(e) \/ Cancel(e) \/ Kill(e)
  PROVE  \A o \in Execs : o # e => ex'[o] = ex[o]
BY DEF TypeOK, Types, Fetch, Run, Admit, Snapshot, Start, Waited, DestroyDest, Restart, Rewaited,
       Unmark, Bookmark, Prune, Finish, FlowBegins, Cancel, Kill, Ended, Fail, Goto

\* Only Fetch, Admit and Finish give an execution another job.
LEMMA JobKept ==
  ASSUME TypeOK, NEW e \in Execs,
         \/ Snapshot(e) \/ Start(e) \/ Waited(e) \/ DestroyDest(e) \/ Restart(e)
         \/ Rewaited(e) \/ Unmark(e) \/ Bookmark(e) \/ Prune(e)
         \/ FlowBegins(e) \/ Cancel(e) \/ Kill(e)
  PROVE  ex'[e].def = ex[e].def /\ ex'[e].force = ex[e].force /\ UNCHANGED <<row, forced>>
<1>1. ex \in [Execs -> Exec]
  BY DEF TypeOK, Types
<1>2. QED
  BY <1>1 DEF Exec, Snapshot, Start, Waited, DestroyDest, Restart, Rewaited,
       Unmark, Bookmark, Prune, FlowBegins, Cancel, Kill, Ended, Fail, Goto

\* force_full reaches a destroy only through a row.
LEMMA ForceStep ==
  ASSUME TypeOK, RowAllowed, Allowed, [Next]_vars
  PROVE  RowAllowed' /\ Allowed'
<1>e. ex \in [Execs -> Exec]
  BY DEF TypeOK, Types
<1>r. row \in [Ids -> Row]
  BY DEF TypeOK, Types
<1>1. ASSUME NEW d \in Defs, Create(d) PROVE RowAllowed' /\ Allowed'
  BY <1>1, <1>r, NoRowType DEF Create, Row, NoRow, RowAllowed, Allowed
<1>2. ASSUME NEW i \in Ids, PatchEnabled(i) \/ PatchForce(i) \/ Delete(i)
      PROVE  RowAllowed' /\ Allowed'
  BY <1>2, <1>r DEF PatchEnabled, PatchForce, Delete, Row, NoRow, RowAllowed, Allowed
<1>3. ASSUME NEW e \in Execs, NEW i \in Ids, NEW tick \in BOOLEAN, row[i].live, Fetch(e, i, tick)
      PROVE  RowAllowed' /\ Allowed'
  BY <1>3, <1>e DEF Fetch, Exec, NoExec, RowAllowed, Allowed
<1>4. ASSUME NEW e \in Execs, Admit(e) \/ Finish(e) PROVE RowAllowed' /\ Allowed'
  <2>1. ex'[e] = NoExec \/ ex'[e] = [ex[e] EXCEPT !.pc = "snapshot"]
    BY <1>4, <1>e DEF Admit, Finish
  <2>2. \A o \in Execs : o # e => ex'[o] = ex[o]
    BY <1>4, OthersKept DEF Run
  <2>3. RowAllowed'
    BY <1>4, <1>e, <1>r DEF Admit, Finish, Row, Exec, RowAllowed
  <2>4. Allowed'
    BY <1>4, <1>e, <2>1, <2>2 DEF Admit, Finish, Exec, NoExec, Allowed
  <2>5. QED
    BY <2>3, <2>4
<1>5. ASSUME NEW e \in Execs,
             \/ Snapshot(e) \/ Start(e) \/ Waited(e) \/ DestroyDest(e) \/ Restart(e)
             \/ Rewaited(e) \/ Unmark(e) \/ Bookmark(e) \/ Prune(e)
             \/ FlowBegins(e) \/ Cancel(e) \/ Kill(e)
      PROVE  RowAllowed' /\ Allowed'
  <2>1. \A o \in Execs : o # e => ex'[o] = ex[o]
    BY <1>5, OthersKept DEF Run
  <2>2. ex'[e].def = ex[e].def /\ ex'[e].force = ex[e].force /\ UNCHANGED <<row, forced>>
    BY <1>5, JobKept
  <2>3. ex'[e].pc = "destroy" => ex[e].force
    <3>1. CASE Waited(e)
      BY <3>1, <1>e DEF Waited, Retries, Goto, Fail, Exec
    <3>2. CASE FlowBegins(e) \/ Cancel(e) \/ Kill(e)
      BY <3>2, <1>e DEF FlowBegins, Cancel, Kill, Ended, Exec, Allowed
    <3>3. CASE \/ Snapshot(e) \/ Start(e) \/ DestroyDest(e) \/ Restart(e)
               \/ Rewaited(e) \/ Unmark(e) \/ Bookmark(e) \/ Prune(e)
      BY <3>3, <1>e DEF Snapshot, Start, DestroyDest, Restart, Rewaited, Unmark, Bookmark,
           Prune, Goto, Fail, Exec
    <3>4. QED
      BY <1>5, <3>1, <3>2, <3>3
  <2>4. QED
    BY <2>1, <2>2, <2>3 DEF RowAllowed, Allowed
<1>6. ASSUME NEW f \in flows, FlowCommits(f) \/ FlowBreaks(f) PROVE RowAllowed' /\ Allowed'
  BY <1>6, <1>e DEF FlowCommits, FlowBreaks, OwnerEnds, Ended, Exec, RowAllowed, Allowed
<1>7. CASE Crash
  BY <1>7 DEF Crash, NoExec, RowAllowed, Allowed
<1>8. CASE Tick \/ UNCHANGED vars
  BY <1>8 DEF Tick, vars, RowAllowed, Allowed
<1>9. ASSUME NEW d \in Defs, Diverge(d) PROVE RowAllowed' /\ Allowed'
  BY <1>9 DEF Diverge, RowAllowed, Allowed
<1>10. QED
  BY <1>1, <1>2, <1>3, <1>4, <1>5, <1>6, <1>7, <1>8, <1>9
     DEF Next, Launch, RunNow, Check, Due, Run, Pipeline, Admin

\* Data leaves a destination only where force_full was allowed.
LEMMA Grows ==
  ASSUME TypeOK, Allowed, [Next]_vars
  PROVE  /\ forced \subseteq forced'
         /\ \A d \in Defs \ forced' : got[d] \subseteq got'[d] /\ (exists[d] => exists'[d])
<1> DEFINE Kept == \A d \in Defs \ forced' : got[d] \subseteq got'[d] /\ (exists[d] => exists'[d])
<1>g. got \in [Defs -> SUBSET Seconds] /\ exists \in [Defs -> BOOLEAN]
  BY DEF TypeOK, Types
<1>1. ASSUME NEW e \in Execs, DestroyDest(e) PROVE forced \subseteq forced' /\ Kept
  <2>1. ex[e].def \in forced /\ UNCHANGED forced
    BY <1>1 DEF DestroyDest, Allowed
  <2>2. QED
    BY <1>1, <1>g, <2>1 DEF DestroyDest, dest
<1>2. ASSUME NEW f \in flows, FlowCommits(f) \/ FlowBreaks(f) PROVE forced \subseteq forced' /\ Kept
  BY <1>2, <1>g DEF FlowCommits, FlowBreaks
<1>3. ASSUME UNCHANGED <<got, exists>>, forced \subseteq forced' PROVE forced \subseteq forced' /\ Kept
  BY <1>3
<1>4. QED
  BY <1>1, <1>2, <1>3
     DEF Next, Launch, RunNow, Check, Fetch, Run, Pipeline, Admin, Create, PatchEnabled,
         PatchForce, Delete, Admit, Snapshot, Start, Waited, Restart, Rewaited, Unmark,
         Bookmark, Prune, Finish, FlowBegins, Cancel, Kill, Tick, Diverge, Crash,
         vars, zfs, dest

\* A running operation is waited for, and its pipeline is the only one of its
\* execution and sends that execution's snapshot.
LEMMA FlowStep ==
  ASSUME TypeOK, Awaited, Owned, OneFlow, [Next]_vars
  PROVE  Awaited' /\ Owned' /\ OneFlow'
<1> DEFINE Goal == Awaited /\ Owned /\ OneFlow
<1>e. ex \in [Execs -> Exec]
  BY DEF TypeOK, Types
<1>f. flows \subseteq Flow
  BY DEF TypeOK, Types
<1>n. Nobody \notin Execs
  BY ReplicationAssumption
<1>1. ASSUME NEW e \in Execs, UNCHANGED flows,
             \A o \in Execs : o # e => ex'[o] = ex[o],
             ex[e].op \notin {"started", "flowing"},
             ex'[e].op \in {"started", "flowing"} => ex'[e].pc \in {"wait", "rewait"}
      PROVE  Goal'
  BY <1>1 DEF Awaited, Owned, OneFlow
<1>2. ASSUME NEW e \in Execs, UNCHANGED flows,
             \/ \E i \in Ids, tick \in BOOLEAN : Fetch(e, i, tick)
             \/ Run(e)
      PROVE  Goal'
  <2>1. \A o \in Execs : o # e => ex'[o] = ex[o]
    BY <1>2, OthersKept
  <2>2. ex[e].op \notin {"started", "flowing"}
    BY <1>2, <1>e DEF Awaited, Fetch, Run, Admit, Snapshot, Start, Waited, DestroyDest,
       Restart, Rewaited, Unmark, Bookmark, Prune, Finish, Retries, Goto, Fail, Exec
  <2>3. ex'[e].op \in {"started", "flowing"} => ex'[e].pc \in {"wait", "rewait"}
    <3>1. CASE \E i \in Ids, tick \in BOOLEAN : Fetch(e, i, tick)
      BY <3>1, <1>e DEF Fetch, NoExec
    <3>2. CASE Admit(e) \/ Finish(e)
      BY <3>2, <1>e, <2>2 DEF Admit, Finish, NoExec, Exec
    <3>3. CASE Start(e) \/ Restart(e)
      BY <3>3, <1>e, <2>2 DEF Start, Restart, Fail, Exec
    <3>4. CASE \/ Snapshot(e) \/ Waited(e) \/ DestroyDest(e) \/ Rewaited(e)
               \/ Unmark(e) \/ Bookmark(e) \/ Prune(e)
      BY <3>4, <1>e, <2>2 DEF Snapshot, Waited, DestroyDest, Rewaited, Unmark, Bookmark,
           Prune, Goto, Fail, Exec
    <3>5. QED
      BY <1>2, <3>1, <3>2, <3>3, <3>4 DEF Run
  <2>4. QED
    BY <1>1, <1>2, <2>1, <2>2, <2>3
<1>3. ASSUME NEW e \in Execs, FlowBegins(e) PROVE Goal'
  <2>1. \A o \in Execs : o # e => ex'[o] = ex[o]
    BY <1>3, OthersKept
  <2>2. \A f \in flows : f.owner # e
    BY <1>3 DEF FlowBegins, Owned
  <2>3. CASE UNCHANGED flows
    <3>1. ex'[e].op \in {"started", "flowing"} => ex'[e].pc \in {"wait", "rewait"}
      BY <1>3, <1>e DEF FlowBegins, Ended, Exec, Awaited
    <3>2. QED
      BY <2>1, <2>2, <2>3, <3>1 DEF Awaited, Owned, OneFlow
  <2>4. CASE /\ flows' = flows \cup {[def |-> ex[e].def, snap |-> ex[e].snap, owner |-> e,
                                 base |-> IF ex[e].full THEN 0 ELSE mark[Source(e)]]}
             /\ ex' = [ex EXCEPT ![e].op = "flowing"]
    <3>1. /\ ex'[e].op = "flowing" /\ ex'[e].pc = ex[e].pc
          /\ ex'[e].def = ex[e].def /\ ex'[e].snap = ex[e].snap
      BY <2>4, <1>e DEF Exec
    <3>2. Awaited'
      BY <1>3, <2>1, <3>1 DEF FlowBegins, Awaited
    <3>3. Owned'
      BY <2>1, <2>2, <2>4, <3>1 DEF Owned
    <3>4. OneFlow'
      BY <2>2, <2>4 DEF OneFlow
    <3>5. QED
      BY <3>2, <3>3, <3>4
  <2>5. QED
    BY <1>3, <2>3, <2>4 DEF FlowBegins
<1>4. ASSUME NEW f \in flows, flows' = flows \ {f},
             \E how \in {"done", "error"} : OwnerEnds(f, how)
      PROVE  Goal'
  <2>1. CASE f.owner \in Execs
    <3>1. \A o \in Execs : o # f.owner => ex'[o] = ex[o]
      BY <1>4, <1>e, <2>1 DEF OwnerEnds, Ended
    <3>2. ex'[f.owner].op \notin {"started", "flowing"}
      BY <1>4, <1>e, <2>1 DEF OwnerEnds, Ended, Exec
    <3>3. \A g \in flows' : g.owner # f.owner
      BY <1>4, <2>1 DEF OneFlow
    <3>4. QED
      BY <1>4, <3>1, <3>2, <3>3 DEF Awaited, Owned, OneFlow
  <2>2. CASE f.owner \notin Execs
    BY <1>4, <2>2 DEF OwnerEnds, Awaited, Owned, OneFlow
  <2>3. QED
    BY <2>1, <2>2
<1>5. ASSUME NEW e \in Execs, Cancel(e) PROVE Goal'
  <2>1. \A o \in Execs : /\ ex'[o].op = ex[o].op /\ ex'[o].pc = ex[o].pc
                         /\ ex'[o].def = ex[o].def /\ ex'[o].snap = ex[o].snap
    BY <1>5, <1>e DEF Cancel, Exec
  <2>2. QED
    BY <1>5, <2>1 DEF Cancel, zfs, Awaited, Owned, OneFlow
<1>6. ASSUME NEW e \in Execs, Kill(e) PROVE Goal'
  <2>1. \A o \in Execs : o # e => ex'[o] = ex[o]
    BY <1>6, OthersKept
  <2>2. ex'[e].op = "canceled"
    BY <1>6, <1>e DEF Kill, Exec
  <2>3. \A g \in flows' : g.owner \in Execs => g \in flows /\ g.owner # e
    BY <1>6, <1>f, <1>n DEF Kill, Orphaned, Flow
  <2>4. QED
    BY <2>1, <2>2, <2>3 DEF Awaited, Owned, OneFlow
<1>7. CASE Crash
  <2>1. \A g \in flows' : g.owner \notin Execs
    BY <1>7, <1>f, <1>n DEF Crash, Flow
  <2>2. \A o \in Execs : ex'[o].op = "none"
    BY <1>7 DEF Crash, NoExec
  <2>3. QED
    BY <2>1, <2>2 DEF Awaited, Owned, OneFlow
<1>8. CASE UNCHANGED <<ex, flows>>
  BY <1>8 DEF Awaited, Owned, OneFlow
<1>9. QED
  <2>1. ASSUME NEW e \in Execs, Launch(e) PROVE Goal'
    BY <1>2, <2>1 DEF Launch, RunNow, Check, Fetch, zfs
  <2>2. ASSUME NEW e \in Execs, Run(e) PROVE Goal'
    BY <1>2, <2>2 DEF Run, Admit, Snapshot, Start, Waited, DestroyDest, Restart, Rewaited,
       Unmark, Bookmark, Prune, Finish, zfs
  <2>3. CASE Pipeline
    BY <1>3, <1>4, <1>5, <1>6, <2>3 DEF Pipeline, FlowCommits, FlowBreaks
  <2>4. CASE \/ Admin \/ Tick \/ (\E d \in Defs : Diverge(d)) \/ UNCHANGED vars
    BY <1>8, <2>4 DEF Admin, Create, PatchEnabled, PatchForce, Delete, Tick, Diverge, vars, zfs
  <2>5. QED
    BY <1>7, <2>1, <2>2, <2>3, <2>4 DEF Next

\* What an execution claims (an operation done, a success) it replicated.
Claims(e) == ex[e].op = "done" \/ ex[e].ok \/ ex[e].pc \in {"unmark", "bookmark", "prune"}

\* The steps that leave an execution its job and its snapshot claim nothing new.
LEMMA ClaimsKept ==
  ASSUME TypeOK, NEW e \in Execs,
         \/ Start(e) \/ Waited(e) \/ DestroyDest(e) \/ Restart(e) \/ Rewaited(e)
         \/ Unmark(e) \/ Bookmark(e) \/ Prune(e) \/ FlowBegins(e) \/ Cancel(e) \/ Kill(e)
  PROVE  /\ ex'[e].snap = ex[e].snap /\ ex'[e].def = ex[e].def
         /\ Claims(e)' => Claims(e)
         /\ ex'[e].pc \notin {"fetched", "snapshot"} \/ ex'[e].pc = ex[e].pc
<1>e. ex \in [Execs -> Exec]
  BY DEF TypeOK, Types
<1>1. CASE Start(e) \/ Restart(e) \/ Bookmark(e) \/ Prune(e)
  BY <1>1, <1>e DEF Start, Restart, Bookmark, Prune, Fail, Exec, Claims
<1>2. CASE Waited(e) \/ DestroyDest(e) \/ Rewaited(e) \/ Unmark(e)
  BY <1>2, <1>e DEF Waited, DestroyDest, Rewaited, Unmark, Goto, Fail, Exec, Claims
<1>3. CASE FlowBegins(e) \/ Cancel(e) \/ Kill(e)
  BY <1>3, <1>e DEF FlowBegins, Cancel, Kill, Ended, Exec, Claims
<1>4. QED
  BY <1>1, <1>2, <1>3

LEMMA FreshStep ==
  ASSUME IInv, [Next]_vars
  PROVE  Fresh'
<1> USE DEF IInv
<1>e. ex \in [Execs -> Exec]
  BY DEF TypeOK, Types
<1> DEFINE FreshAt(o) == ex[o].pc \in {"fetched", "snapshot"} => ex[o].op = "none" /\ ~ex[o].ok
<1>1. ASSUME NEW e \in Execs, \A o \in Execs : o # e => ex'[o] = ex[o], FreshAt(e)' PROVE Fresh'
  BY <1>1 DEF Fresh
<1>2. ASSUME NEW e \in Execs, NEW i \in Ids, NEW tick \in BOOLEAN, Fetch(e, i, tick) PROVE Fresh'
  <2>1. FreshAt(e)'
    BY <1>2, <1>e DEF Fetch, NoExec
  <2>2. QED
    BY <1>1, <1>2, <2>1, OthersKept
<1>3. ASSUME NEW e \in Execs, Admit(e) \/ Finish(e) \/ Snapshot(e) PROVE Fresh'
  <2>1. FreshAt(e)'
    BY <1>3, <1>e DEF Admit, Finish, Snapshot, Fail, NoExec, Exec, Fresh
  <2>2. QED
    BY <1>1, <1>3, <2>1, OthersKept DEF Run
<1>4. ASSUME NEW e \in Execs,
             \/ Start(e) \/ Waited(e) \/ DestroyDest(e) \/ Restart(e) \/ Rewaited(e)
             \/ Unmark(e) \/ Bookmark(e) \/ Prune(e)
      PROVE  Fresh'
  <2>1. ex'[e].pc \notin {"fetched", "snapshot"}
    <3>1. ex[e].pc \notin {"fetched", "snapshot"}
      BY <1>4 DEF Start, Waited, DestroyDest, Restart, Rewaited, Unmark, Bookmark, Prune
    <3>2. QED
      BY <1>4, <3>1, ClaimsKept
  <2>2. QED
    BY <1>1, <1>4, <2>1, OthersKept DEF Run
<1>5. ASSUME NEW e \in Execs, FlowBegins(e) \/ Cancel(e) \/ Kill(e) PROVE Fresh'
  <2>1. ex[e].pc \in {"wait", "rewait"}
    BY <1>5 DEF FlowBegins, Cancel, Kill, Awaited
  <2>2. ex'[e].pc \notin {"fetched", "snapshot"}
    BY <1>5, <2>1, ClaimsKept
  <2>3. QED
    BY <1>1, <1>5, <2>2, OthersKept
<1>6. ASSUME NEW f \in flows, \E how \in {"done", "error"} : OwnerEnds(f, how) PROVE Fresh'
  <2>1. CASE f.owner \in Execs
    <3>1. ex[f.owner].pc \in {"wait", "rewait"}
      BY <2>1 DEF Owned, Awaited
    <3>2. FreshAt(f.owner)' /\ \A o \in Execs : o # f.owner => ex'[o] = ex[o]
      BY <1>6, <1>e, <2>1, <3>1 DEF OwnerEnds, Ended, Exec
    <3>3. QED
      BY <1>1, <2>1, <3>2
  <2>2. CASE f.owner \notin Execs
    BY <1>6, <2>2 DEF OwnerEnds, Fresh
  <2>3. QED
    BY <2>1, <2>2
<1>7. CASE Crash
  BY <1>7 DEF Crash, NoExec, Fresh
<1>8. CASE UNCHANGED ex
  BY <1>8 DEF Fresh
<1>9. QED
  BY <1>2, <1>3, <1>4, <1>5, <1>6, <1>7, <1>8
     DEF Next, Launch, RunNow, Check, Run, Pipeline, FlowCommits, FlowBreaks,
         Admin, Create, PatchEnabled, PatchForce, Delete, Tick, Diverge, vars

LEMMA DoneStep ==
  ASSUME IInv, [Next]_vars
  PROVE  Done'
<1> USE DEF IInv
<1>e. ex \in [Execs -> Exec]
  BY DEF TypeOK, Types
<1>g. /\ forced \subseteq forced'
      /\ \A d \in Defs \ forced' : got[d] \subseteq got'[d]
  BY Grows
<1> DEFINE Same(o) == ex'[o].snap = ex[o].snap /\ ex'[o].def = ex[o].def
<1>1. ASSUME NEW o \in Execs, Same(o), Replicated(o) PROVE Replicated(o)'
  BY <1>1, <1>e, <1>g DEF Replicated, Exec
<1>2. ASSUME NEW o \in Execs, ex'[o] = ex[o] PROVE Claims(o)' => Replicated(o)'
  BY <1>1, <1>2 DEF Done, Claims
<1>3. ASSUME NEW e \in Execs, \A o \in Execs : o # e => ex'[o] = ex[o],
             Claims(e)' => Replicated(e)'
      PROVE  Done'
  BY <1>2, <1>3 DEF Done, Claims
<1>4. ASSUME NEW e \in Execs, \A o \in Execs : o # e => ex'[o] = ex[o],
             Same(e), Claims(e)' => Claims(e)
      PROVE  Done'
  <2>1. Claims(e)' => Replicated(e)
    BY <1>4 DEF Done, Claims
  <2>2. QED
    BY <1>1, <1>3, <1>4, <2>1
<1>5. ASSUME NEW e \in Execs, NEW i \in Ids, NEW tick \in BOOLEAN, Fetch(e, i, tick) PROVE Done'
  <2>1. ~Claims(e)'
    BY <1>5, <1>e DEF Fetch, NoExec, Claims
  <2>2. QED
    BY <1>3, <1>5, <2>1, OthersKept
<1>6. ASSUME NEW e \in Execs, Admit(e) \/ Finish(e) \/ Snapshot(e) PROVE Done'
  <2>1. ~Claims(e)'
    BY <1>6, <1>e DEF Admit, Finish, Snapshot, Fail, NoExec, Exec, Claims, Fresh
  <2>2. QED
    BY <1>3, <1>6, <2>1, OthersKept DEF Run
<1>7. ASSUME NEW e \in Execs,
             \/ Start(e) \/ Waited(e) \/ DestroyDest(e) \/ Restart(e) \/ Rewaited(e)
             \/ Unmark(e) \/ Bookmark(e) \/ Prune(e) \/ FlowBegins(e) \/ Cancel(e) \/ Kill(e)
      PROVE  Done'
  BY <1>4, <1>7, ClaimsKept, OthersKept DEF Run
<1>8. ASSUME NEW f \in flows, FlowCommits(f) PROVE Done'
  <2>1. CASE f.owner \in Execs
    <3>1. ex' = [ex EXCEPT ![f.owner].op = IF ex[f.owner].canceledReq THEN "canceled" ELSE "done"]
      BY <1>8, <2>1 DEF FlowCommits, OwnerEnds, Ended
    <3>2. Same(f.owner) /\ \A o \in Execs : o # f.owner => ex'[o] = ex[o]
      BY <1>e, <2>1, <3>1 DEF Exec
    <3>3. got \in [Defs -> SUBSET Seconds] /\ ex[f.owner].def \in Defs
      BY <1>e, <2>1 DEF TypeOK, Types, Exec
    <3>4. f.snap \in got'[f.def] /\ f.def = ex[f.owner].def /\ f.snap = ex[f.owner].snap
      BY <1>8, <2>1, <3>3 DEF FlowCommits, Owned
    <3>5. Replicated(f.owner)'
      BY <3>2, <3>4 DEF Replicated
    <3>6. QED
      BY <1>3, <2>1, <3>2, <3>5
  <2>2. CASE f.owner \notin Execs
    BY <1>2, <1>8, <2>2 DEF FlowCommits, OwnerEnds, Done, Claims
  <2>3. QED
    BY <2>1, <2>2
<1>9. ASSUME NEW f \in flows, FlowBreaks(f) PROVE Done'
  <2>1. CASE f.owner \in Execs
    <3>1. ex' = [ex EXCEPT ![f.owner].op = IF ex[f.owner].canceledReq THEN "canceled" ELSE "error"]
      BY <1>9, <2>1 DEF FlowBreaks, OwnerEnds, Ended
    <3>2. /\ Same(f.owner) /\ (Claims(f.owner)' => Claims(f.owner))
          /\ \A o \in Execs : o # f.owner => ex'[o] = ex[o]
      BY <1>e, <2>1, <3>1 DEF Exec, Claims
    <3>3. QED
      BY <1>4, <2>1, <3>2
  <2>2. CASE f.owner \notin Execs
    BY <1>2, <1>9, <2>2 DEF FlowBreaks, OwnerEnds, Done, Claims
  <2>3. QED
    BY <2>1, <2>2
<1>10. CASE Crash
  BY <1>10 DEF Crash, NoExec, Done
<1>11. CASE UNCHANGED ex
  BY <1>2, <1>11 DEF Done, Claims
<1>12. QED
  BY <1>5, <1>6, <1>7, <1>8, <1>9, <1>10, <1>11
     DEF Next, Launch, RunNow, Check, Run, Pipeline,
         Admin, Create, PatchEnabled, PatchForce, Delete, Tick, Diverge, vars

LEMMA IInvInit == Init => IInv
<1> SUFFICES ASSUME Init PROVE IInv
  OBVIOUS
<1>1. TypeOK
  BY TypeInit
<1>2. RowAllowed /\ Allowed /\ Awaited /\ Owned /\ OneFlow /\ Done /\ Fresh
  BY DEF Init, NoRow, NoExec, RowAllowed, Allowed, Awaited, Owned, OneFlow, Done, Fresh
<1>3. QED
  BY <1>1, <1>2 DEF IInv

LEMMA IInvStep == IInv /\ [Next]_vars => IInv'
<1> SUFFICES ASSUME IInv, [Next]_vars PROVE IInv'
  OBVIOUS
<1>2. RowAllowed' /\ Allowed'
  BY ForceStep DEF IInv
<1>3. Awaited' /\ Owned' /\ OneFlow'
  BY FlowStep DEF IInv
<1>1. TypeOK'
  BY TypeStep, <1>3 DEF IInv, TypeOK, Awaited
<1>4. Done' /\ Fresh'
  BY DoneStep, FreshStep
<1>5. QED
  BY <1>1, <1>2, <1>3, <1>4 DEF IInv

\* The inductive invariant holds in every reachable state.
THEOREM Invariance == Spec => []IInv
BY IInvInit, IInvStep, PTL DEF Spec

\* Type correctness, for every value of the constants; in particular no execution
\* goes on while its operation runs.
THEOREM TypeCorrect == Spec => []TypeOK
<1>1. IInv => TypeOK
  BY DEF IInv
<1>2. QED
  BY <1>1, Invariance, PTL

\* However many executions overlap, and whatever is canceled, fails or
\* restarts, an execution that reports success replicated its snapshot.
THEOREM OkIsReplicatedAlways == Spec => []OkIsReplicated
<1>1. IInv => OkIsReplicated
  BY DEF IInv, Done, Replicated, OkIsReplicated
<1>2. QED
  BY <1>1, Invariance, PTL

\* No step takes data away from a destination that never had force_full.
THEOREM DestKeptAlways == Spec => DestKept
<1>1. IInv /\ [Next]_vars =>
        [\A d \in Defs \ forced' : got[d] \subseteq got'[d] /\ (exists[d] => exists'[d])]_vars
  BY Grows DEF IInv
<1>2. QED
  BY <1>1, Invariance, PTL DEF Spec, DestKept

----------------------------------------------------------------------------
(* Nothing is left behind that a later run would wait for.                 *)

\* What an execution waits for is in the registry, and an operation whose
\* pipeline flows has it.
Attended == \A e \in Execs :
  /\ ex[e].pc \in {"wait", "rewait"} => ex[e].op # "none"
  /\ ex[e].op = "flowing" => \E f \in flows : f.owner = e

\* What Running sees is waited for by its execution, and is about to flow or
\* flows; and an execution that waits, waits for an operation that ended or
\* for a pipeline that is there.
NothingAbandoned == \A e \in Execs :
  /\ ex[e].op \in {"started", "flowing"} => ex[e].pc \in {"wait", "rewait"}
  /\ ex[e].pc \in {"wait", "rewait"} =>
       \/ ex[e].op \in {"started", "done", "error", "canceled"}
       \/ ex[e].op = "flowing" /\ \E f \in flows : f.owner = e

LEMMA AttendedStep ==
  ASSUME IInv, Attended, [Next]_vars PROVE Attended'
<1>t. TypeOK
  BY DEF IInv
<1>e. ex \in [Execs -> Exec]
  BY DEF IInv, TypeOK, Types
<1>1. ASSUME NEW e \in Execs, \A o \in Execs : o # e => ex'[o] = ex[o],
             \A f \in flows : f.owner \in Execs \ {e} => \E g \in flows' : g.owner = f.owner,
             ex'[e].pc \in {"wait", "rewait"} => ex'[e].op # "none",
             ex'[e].op = "flowing" => \E f \in flows' : f.owner = e
      PROVE  Attended'
  BY <1>1 DEF Attended
<1>2. ASSUME NEW e \in Execs, UNCHANGED flows,
             \/ \E i \in Ids, tick \in BOOLEAN : Fetch(e, i, tick)
             \/ Run(e)
      PROVE  Attended'
  <2>1. \A o \in Execs : o # e => ex'[o] = ex[o]
    BY <1>2, <1>t, OthersKept
  <2>2. /\ ex'[e].pc \in {"wait", "rewait"} => ex'[e].op # "none"
        /\ ex'[e].op # "flowing"
    <3>1. CASE \E i \in Ids, tick \in BOOLEAN : Fetch(e, i, tick)
      BY <3>1, <1>e DEF Fetch, NoExec
    <3>2. CASE Admit(e) \/ Finish(e)
      BY <3>2, <1>e DEF Admit, Finish, NoExec, Exec, IInv, Fresh
    <3>3. CASE Start(e) \/ Restart(e)
      BY <3>3, <1>e DEF Start, Restart, Fail, Exec, IInv, Awaited
    <3>4. CASE \/ Snapshot(e) \/ Waited(e) \/ DestroyDest(e) \/ Rewaited(e)
               \/ Unmark(e) \/ Bookmark(e) \/ Prune(e)
      BY <3>4, <1>e DEF Snapshot, Waited, Retries, DestroyDest, Rewaited, Unmark, Bookmark, Prune,
         Goto, Fail, Exec, IInv, Awaited
    <3> QED BY <1>2, <3>1, <3>2, <3>3, <3>4 DEF Run
  <2> QED BY <1>1, <1>2, <2>1, <2>2
<1>3. ASSUME NEW e \in Execs, FlowBegins(e) PROVE Attended'
  <2>1. \A o \in Execs : o # e => ex'[o] = ex[o]
    BY <1>3, <1>t, OthersKept
  <2>2. flows \subseteq flows' /\ ex'[e].op # "none"
    BY <1>3, <1>e DEF FlowBegins, Ended, Exec
  <2>3. ex'[e].op = "flowing" => \E f \in flows' : f.owner = e
    <3>1. CASE UNCHANGED flows /\ ex' = Ended(e, "error")
      BY <1>e, <3>1 DEF Ended, Exec
    <3>2. CASE \E f : flows' = flows \cup {f} /\ f.owner = e
      BY <3>2
    <3> DEFINE g == [def |-> ex[e].def, snap |-> ex[e].snap, owner |-> e,
                     base |-> IF ex[e].full THEN 0 ELSE mark[Source(e)]]
    <3>3. g.owner = e
      OBVIOUS
    <3> HIDE DEF g
    <3>4. flows' = flows \cup {g} \/ (UNCHANGED flows /\ ex' = Ended(e, "error"))
      BY <1>3 DEF FlowBegins, g
    <3> QED BY <3>1, <3>2, <3>3, <3>4
  <2> QED BY <1>1, <2>1, <2>2, <2>3
<1>4. ASSUME NEW f \in flows, flows' = flows \ {f}, \E how \in {"done", "error"} : OwnerEnds(f, how)
      PROVE  Attended'
  <2>1. CASE f.owner \in Execs
    <3>1. \A o \in Execs : o # f.owner => ex'[o] = ex[o]
      BY <1>4, <1>e, <2>1 DEF OwnerEnds, Ended
    <3>2. ex'[f.owner].op \in {"done", "error", "canceled"}
      BY <1>4, <1>e, <2>1 DEF OwnerEnds, Ended, Exec
    <3> QED BY <1>1, <1>4, <2>1, <3>1, <3>2
  <2>2. CASE f.owner \notin Execs
    BY <1>4, <2>2 DEF OwnerEnds, Attended
  <2> QED BY <2>1, <2>2
<1>5. ASSUME NEW e \in Execs, Cancel(e) PROVE Attended'
  <2>1. \A o \in Execs : ex'[o].op = ex[o].op /\ ex'[o].pc = ex[o].pc
    BY <1>5, <1>e DEF Cancel, Exec
  <2> QED BY <1>5, <2>1 DEF Cancel, zfs, Attended
<1>6. ASSUME NEW e \in Execs, Kill(e) PROVE Attended'
  <2>1. \A o \in Execs : o # e => ex'[o] = ex[o]
    BY <1>6, <1>t, OthersKept
  <2>2. ex'[e].op = "canceled"
    BY <1>6, <1>e DEF Kill, Exec
  <2>3. \A f \in flows : f.owner # e => f \in flows'
    <3>1. SUFFICES ASSUME NEW f \in flows, f.owner # e PROVE f \in flows'
      OBVIOUS
    <3>2. f \in Flow
      BY DEF IInv, TypeOK, Types
    <3>3. [f EXCEPT !.owner = IF @ = e THEN Nobody ELSE @] = f
      BY <3>1, <3>2 DEF Flow
    <3> QED BY <1>6, <3>3 DEF Kill, Orphaned
  <2> QED BY <1>1, <2>1, <2>2, <2>3
<1>7. CASE Crash
  BY <1>7 DEF Crash, NoExec, Attended
<1>8. CASE UNCHANGED <<ex, flows>>
  BY <1>8 DEF Attended
<1>9. QED
  <2>1. ASSUME NEW e \in Execs, Launch(e) PROVE Attended'
    BY <1>2, <2>1 DEF Launch, RunNow, Check, Fetch, zfs
  <2>2. ASSUME NEW e \in Execs, Run(e) PROVE Attended'
    BY <1>2, <2>2 DEF Run, Admit, Snapshot, Start, Waited, DestroyDest, Restart, Rewaited,
       Unmark, Bookmark, Prune, Finish, zfs
  <2>3. CASE Pipeline
    BY <1>3, <1>4, <1>5, <1>6, <2>3 DEF Pipeline, FlowCommits, FlowBreaks
  <2>4. CASE \/ Admin \/ Tick \/ (\E d \in Defs : Diverge(d)) \/ UNCHANGED vars
    BY <1>8, <2>4 DEF Admin, Create, PatchEnabled, PatchForce, Delete, Tick, Diverge, vars, zfs
  <2>5. QED
    BY <1>7, <2>1, <2>2, <2>3, <2>4 DEF Next

(* The safety half of DueRuns: what keeps a job from running again (Running, *)
(* in Runner.check and runNow) is an operation that its execution waits for  *)
(* (waitLongOp) and whose pipeline is there, after any failure, cancel or    *)
(* restart of the daemon; so a job is kept only as long as a stream lasts.   *)
THEOREM NothingIsAbandoned == Spec => []NothingAbandoned
<1>1. Init => Attended
  BY DEF Init, NoExec, Attended
<1>2. IInv /\ Attended /\ [Next]_vars => Attended'
  BY AttendedStep
<1>3. IInv /\ Attended => NothingAbandoned
  BY DEF IInv, TypeOK, Types, Exec, Ops, Awaited, Attended, NothingAbandoned
<1>4. QED
  BY <1>1, <1>2, <1>3, Invariance, PTL DEF Spec

----------------------------------------------------------------------------
(* The operations of executions are the ones LongOpLifecycle promises.      *)

\* What the registry says of an operation.
Reported(op) == IF op \in {"started", "flowing"} THEN "running" ELSE op

\* What a step may do to the operation of an execution: begin it, where the
\* code calls Manager.Start (Begin of LongOpLifecycle); end it once, canceled
\* exactly if a cancel was accepted (End, and CancelDecides of LongOps); keep it
\* as it is, and the accepted cancel with it; or forget it where its execution
\* is over, and while it runs only by a restart of the daemon (Forget).
OpStep(e) ==
  LET was == Reported(ex[e].op)
      is  == Reported(ex'[e].op)
  IN  \/ is = was /\ (ex[e].canceledReq => ex'[e].canceledReq)
      \/ was # "running" /\ is = "running" /\ ex[e].pc \in {"start", "restart"}
      \/ /\ was = "running" /\ is \in {"done", "error", "canceled"}
         /\ is = "canceled" <=> ex[e].canceledReq
      \/ /\ is = "none"
         /\ \/ was # "running" /\ ex[e].pc \in {"idle", "fetched", "finish"}
            \/ \A o \in Execs : ex'[o] = NoExec

LEMMA OpsStep ==
  ASSUME IInv, [Next]_vars
  PROVE  \A e \in Execs : OpStep(e)
<1>t. TypeOK
  BY DEF IInv
<1>e. ex \in [Execs -> Exec]
  BY DEF IInv, TypeOK, Types
<1>0. ASSUME NEW e \in Execs, ex'[e] = ex[e] PROVE OpStep(e)
  BY <1>0 DEF OpStep
<1>1. ASSUME NEW e \in Execs, OpStep(e), \A o \in Execs : o # e => ex'[o] = ex[o]
      PROVE  \A o \in Execs : OpStep(o)
  BY <1>0, <1>1
<1>2. ASSUME NEW e \in Execs,
             \/ \E i \in Ids, tick \in BOOLEAN : Fetch(e, i, tick)
             \/ Run(e)
      PROVE  \A o \in Execs : OpStep(o)
  <2>1. \A o \in Execs : o # e => ex'[o] = ex[o]
    BY <1>2, <1>t, OthersKept
  <2>2. OpStep(e)
    <3>w. Reported(ex[e].op) = "running" => ex[e].pc \in {"wait", "rewait"}
      BY <1>e DEF IInv, Awaited, Reported, Exec, Ops
    <3>1. CASE \E i \in Ids, tick \in BOOLEAN : Fetch(e, i, tick)
      <4>1. ex[e].pc = "idle" /\ ex'[e].op = "none"
        BY <1>e, <3>1 DEF Fetch, NoExec
      <4> QED BY <3>w, <4>1 DEF OpStep, Reported
    <3>2. CASE Admit(e)
      BY <1>e, <3>2, <3>w DEF Admit, NoExec, OpStep, Reported, Exec
    <3>3. CASE Finish(e)
      BY <1>e, <3>3, <3>w DEF Finish, NoExec, OpStep, Reported
    <3>4. CASE Start(e) \/ Restart(e)
      BY <1>e, <3>4, <3>w DEF Start, Restart, Fail, OpStep, Reported, Exec
    <3>5. CASE \/ Snapshot(e) \/ Waited(e) \/ DestroyDest(e) \/ Rewaited(e)
               \/ Unmark(e) \/ Bookmark(e) \/ Prune(e)
      <4>1. ex'[e].op = ex[e].op /\ ex'[e].canceledReq = ex[e].canceledReq
        BY <1>e, <3>5 DEF Snapshot, Waited, DestroyDest, Rewaited, Unmark, Bookmark, Prune,
           Goto, Fail, Exec
      <4> QED BY <4>1 DEF OpStep
    <3> QED BY <1>2, <3>1, <3>2, <3>3, <3>4, <3>5 DEF Run
  <2> QED BY <1>1, <2>1, <2>2
<1>3. ASSUME NEW e \in Execs, NEW how \in {"done", "error"}, ex' = Ended(e, how),
             ex[e].op \in {"started", "flowing"}
      PROVE  \A o \in Execs : OpStep(o)
  <2>1. \A o \in Execs : o # e => ex'[o] = ex[o]
    BY <1>3, <1>e DEF Ended
  <2>2. ex'[e].op = IF ex[e].canceledReq THEN "canceled" ELSE how
    BY <1>3, <1>e DEF Ended, Exec
  <2>3. OpStep(e)
    BY <1>3, <2>2 DEF OpStep, Reported
  <2> QED BY <1>1, <2>1, <2>3
<1>4. ASSUME NEW e \in Execs, FlowBegins(e) PROVE \A o \in Execs : OpStep(o)
  <2>1. CASE ex' = Ended(e, "error")
    BY <1>3, <1>4, <2>1 DEF FlowBegins
  <2>2. CASE ex' = [ex EXCEPT ![e].op = "flowing"]
    <3>1. \A o \in Execs : o # e => ex'[o] = ex[o]
      BY <1>e, <2>2
    <3>2. ex'[e].op = "flowing" /\ ex'[e].canceledReq = ex[e].canceledReq
      BY <1>e, <2>2 DEF Exec
    <3>3. OpStep(e)
      BY <1>4, <3>2 DEF FlowBegins, OpStep, Reported
    <3> QED BY <1>1, <3>1, <3>3
  <2> QED BY <1>4, <2>1, <2>2 DEF FlowBegins
<1>5. ASSUME NEW f \in flows, NEW how \in {"done", "error"}, OwnerEnds(f, how)
      PROVE  \A o \in Execs : OpStep(o)
  <2>1. f.owner \in Execs => ex[f.owner].op = "flowing"
    BY DEF IInv, Owned
  <2> QED BY <1>0, <1>3, <1>5, <2>1 DEF OwnerEnds
<1>6. ASSUME NEW e \in Execs, Cancel(e) \/ Kill(e) PROVE \A o \in Execs : OpStep(o)
  <2>1. \A o \in Execs : o # e => ex'[o] = ex[o]
    BY <1>6, <1>t, OthersKept
  <2>2. OpStep(e)
    BY <1>e, <1>6 DEF Cancel, Kill, OpStep, Reported, Exec
  <2> QED BY <1>1, <2>1, <2>2
<1>7. CASE Crash
  BY <1>7 DEF Crash, NoExec, OpStep, Reported
<1>8. CASE UNCHANGED ex
  BY <1>0, <1>8
<1>9. QED
  <2>1. ASSUME NEW e \in Execs, Launch(e) \/ Run(e) PROVE \A o \in Execs : OpStep(o)
    BY <1>2, <2>1 DEF Launch, RunNow, Check
  <2>2. CASE Pipeline
    BY <1>4, <1>5, <1>6, <2>2 DEF Pipeline, FlowCommits, FlowBreaks
  <2>3. CASE \/ Admin \/ Tick \/ (\E d \in Defs : Diverge(d)) \/ UNCHANGED vars
    BY <1>8, <2>3 DEF Admin, Create, PatchEnabled, PatchForce, Delete, Tick, Diverge, vars
  <2> QED BY <1>7, <2>1, <2>2, <2>3 DEF Next

(* Replication sees its pipelines through Manager.Get (waitLongOp,          *)
(* runner.go): each operation it waits for begins once, ends once and as    *)
(* its cancel decided, whatever is canceled, fails or restarts meanwhile.   *)
THEOREM OperationEndsOnce == Spec => [][\A e \in Execs : OpStep(e)]_vars
<1>1. IInv /\ [Next]_vars => [\A e \in Execs : OpStep(e)]_vars
  BY OpsStep
<1> QED BY <1>1, Invariance, PTL DEF Spec

----------------------------------------------------------------------------
(* The bookmark of a row, when no row is deleted.                          *)

\* The id of a new row is not in use.
LEMMA NextIdFree ==
  ASSUME TypeOK, NextId \in Ids
  PROVE  ~row[NextId].live
<1> DEFINE below == {i \in Ids : \E k \in Ids : row[k].live /\ i <= k}
           n == Cardinality(below)
<1>1. SUFFICES ASSUME row[NextId].live PROVE FALSE
  OBVIOUS
<1>2. IsFiniteSet(Ids) /\ Ids = 1..Cardinality(Ids) /\ Cardinality(Ids) \in Nat
  BY ReplicationAssumption, FS_CardinalityType
<1>3. IsFiniteSet(below) /\ n \in Nat
  BY <1>2, FS_Subset, FS_CardinalityType
<1>4. NextId = 1 + n
  BY DEF NextId
<1>5. ASSUME NEW i \in 1..(1 + n) PROVE i \in below
  <2>1. 1 + n \in Ids /\ row[1 + n].live
    BY <1>1, <1>4
  <2>2. i \in Ids /\ i <= 1 + n
    BY <1>2, <1>3, <2>1
  <2>3. QED
    BY <2>1, <2>2
<1>6. Cardinality(1..(1 + n)) = 1 + n
  BY <1>3, FS_Interval
<1>7. Cardinality(1..(1 + n)) <= n
  BY <1>3, <1>5, FS_Subset
<1>8. QED
  BY <1>3, <1>6, <1>7

Received(d, snap) == snap = 0 \/ snap \in got[d] \/ d \in forced

\* A row and the executions of its job know only snapshots that arrived.
RowReceived == \A i \in Ids : row[i].live => Received(row[i].def, row[i].bookmark)
ExReceived == \A e \in Execs :
  /\ Received(ex[e].def, ex[e].bookmark)
  /\ ex[e].pc # "idle" => row[ex[e].id].live /\ row[ex[e].id].def = ex[e].def

LEMMA ReceivedKept ==
  ASSUME TypeOK, Allowed, [Next]_vars, NEW d \in Defs, NEW snap, Received(d, snap)
  PROVE  snap = 0 \/ snap \in got'[d] \/ d \in forced'
BY Grows DEF Received

\* Rows are neither deleted nor given another definition.
LEMMA RowsKept ==
  ASSUME TypeOK, [Next]_vars, "delete" \notin Env, NEW i \in Ids, row[i].live
  PROVE  row'[i].live /\ row'[i].def = row[i].def
<1>r. row \in [Ids -> Row]
  BY DEF TypeOK, Types
<1>1. ASSUME NEW d \in Defs, Create(d) PROVE row'[i] = row[i]
  BY <1>1, <1>r, NextIdFree DEF Create
<1>2. ASSUME NEW k \in Ids, PatchEnabled(k) \/ PatchForce(k)
      PROVE  row'[i].live /\ row'[i].def = row[i].def
  BY <1>2, <1>r DEF PatchEnabled, PatchForce, Row
<1>3. ASSUME NEW e \in Execs, Finish(e) PROVE row'[i].live /\ row'[i].def = row[i].def
  BY <1>3, <1>r DEF Finish, Row
<1>4. CASE UNCHANGED row
  BY <1>4
<1>5. QED
  BY <1>1, <1>2, <1>3, <1>4
     DEF Next, Launch, RunNow, Check, Fetch, Run, Pipeline, Admin, Delete, Admit, Snapshot,
         Start, Waited, DestroyDest, Restart, Rewaited, Unmark, Bookmark, Prune, FlowBegins,
         FlowCommits, FlowBreaks, Cancel, Kill, Tick, Diverge, Crash, vars, zfs

LEMMA ExReceivedStep ==
  ASSUME IInv, RowReceived, ExReceived, [Next]_vars, "delete" \notin Env
  PROVE  ExReceived'
<1> USE DEF IInv
<1>e. ex \in [Execs -> Exec]
  BY DEF TypeOK, Types
<1>r. row \in [Ids -> Row]
  BY DEF TypeOK, Types
<1> DEFINE At(o) == /\ Received(ex[o].def, ex[o].bookmark)
                    /\ ex[o].pc # "idle" => row[ex[o].id].live /\ row[ex[o].id].def = ex[o].def
<1>1. ASSUME NEW o \in Execs, ex'[o].def = ex[o].def, ex'[o].id = ex[o].id,
             ex'[o].pc # "idle" => ex[o].pc # "idle",
             Received(ex[o].def, ex'[o].bookmark)
      PROVE  At(o)'
  <2>1. ex[o].def \in Defs /\ ex[o].id \in Ids
    BY <1>e DEF Exec
  <2>2. \/ ex'[o].bookmark = 0
        \/ ex'[o].bookmark \in got'[ex'[o].def]
        \/ ex'[o].def \in forced'
    BY <1>1, <2>1, ReceivedKept
  <2>3. ex'[o].pc # "idle" => row'[ex'[o].id].live /\ row'[ex'[o].id].def = ex'[o].def
    BY <1>1, <2>1, RowsKept DEF ExReceived
  <2>4. QED
    BY <2>2, <2>3 DEF Received
<1>2. ASSUME NEW o \in Execs, ex'[o] = ex[o] PROVE At(o)'
  BY <1>1, <1>2 DEF ExReceived
<1>3. ASSUME NEW e \in Execs, \A o \in Execs : o # e => ex'[o] = ex[o], At(e)' PROVE ExReceived'
  BY <1>2, <1>3 DEF ExReceived
<1>4. ASSUME NEW o \in Execs, ex'[o] = NoExec PROVE At(o)'
  BY <1>4 DEF NoExec, Received
<1>5. ASSUME NEW e \in Execs, NEW i \in Ids, NEW tick \in BOOLEAN, row[i].live, Fetch(e, i, tick)
      PROVE  ExReceived'
  <2>1. /\ ex'[e].def = row[i].def /\ ex'[e].id = i /\ ex'[e].bookmark = row[i].bookmark
        /\ UNCHANGED <<row, got, forced>>
    BY <1>5, <1>e DEF Fetch, NoExec, zfs, dest
  <2>2. At(e)'
    BY <1>5, <2>1 DEF RowReceived, Received
  <2>3. QED
    BY <1>3, <1>5, <2>2, OthersKept
<1>6. ASSUME NEW e \in Execs, Admit(e) \/ Finish(e) PROVE ExReceived'
  <2>1. ex'[e] = NoExec \/ (ex'[e] = [ex[e] EXCEPT !.pc = "snapshot"] /\ ex[e].pc = "fetched")
    BY <1>6, <1>e DEF Admit, Finish
  <2>2. CASE ex'[e] = NoExec
    BY <1>3, <1>4, <1>6, <2>2, OthersKept DEF Run
  <2>3. CASE ex'[e] = [ex[e] EXCEPT !.pc = "snapshot"] /\ ex[e].pc = "fetched"
    <3>1. /\ ex'[e].def = ex[e].def /\ ex'[e].id = ex[e].id
          /\ ex'[e].bookmark = ex[e].bookmark
      BY <2>3, <1>e DEF Exec
    <3>2. At(e)'
      BY <1>1, <2>3, <3>1 DEF ExReceived
    <3>3. QED
      BY <1>3, <1>6, <3>2, OthersKept DEF Run
  <2>4. QED
    BY <2>1, <2>2, <2>3
<1>7. ASSUME NEW e \in Execs,
             \/ Snapshot(e) \/ Start(e) \/ Waited(e) \/ DestroyDest(e) \/ Restart(e)
             \/ Rewaited(e) \/ Unmark(e) \/ Prune(e) \/ FlowBegins(e) \/ Cancel(e) \/ Kill(e)
      PROVE  ExReceived'
  <2>1. ex[e].pc # "idle"
    BY <1>7 DEF Snapshot, Start, Waited, DestroyDest, Restart, Rewaited, Unmark, Prune,
         FlowBegins, Cancel, Kill, Awaited
  <2>2. ex'[e].id = ex[e].id /\ ex'[e].bookmark = ex[e].bookmark
    BY <1>7, <1>e DEF Snapshot, Start, Waited, DestroyDest, Restart, Rewaited, Unmark, Prune,
         FlowBegins, Cancel, Kill, Ended, Goto, Fail, Exec
  <2>3. ex'[e].def = ex[e].def
    BY <1>7, JobKept
  <2>4. At(e)'
    BY <1>1, <2>1, <2>2, <2>3 DEF ExReceived
  <2>5. QED
    BY <1>3, <1>7, <2>4, OthersKept DEF Run
<1>8. ASSUME NEW e \in Execs, Bookmark(e) PROVE ExReceived'
  <2>1. Received(ex[e].def, ex[e].snap)
    BY <1>8 DEF Bookmark, Done, Replicated, Received
  <2>2. /\ ex'[e].id = ex[e].id /\ ex'[e].def = ex[e].def
        /\ ex'[e].bookmark \in {ex[e].snap, ex[e].bookmark}
        /\ ex[e].pc # "idle"
    BY <1>8, <1>e DEF Bookmark, Fail, Exec
  <2>3. Received(ex[e].def, ex'[e].bookmark)
    BY <2>1, <2>2 DEF ExReceived
  <2>4. At(e)'
    BY <1>1, <2>2, <2>3
  <2>5. QED
    BY <1>3, <1>8, <2>4, OthersKept DEF Run
<1>9. ASSUME NEW f \in flows, \E how \in {"done", "error"} : OwnerEnds(f, how) PROVE ExReceived'
  <2>1. CASE f.owner \in Execs
    <3>1. ex[f.owner].pc # "idle"
      BY <2>1 DEF Owned, Awaited
    <3>2. /\ ex'[f.owner].def = ex[f.owner].def /\ ex'[f.owner].id = ex[f.owner].id
          /\ ex'[f.owner].bookmark = ex[f.owner].bookmark
          /\ \A o \in Execs : o # f.owner => ex'[o] = ex[o]
      BY <1>9, <1>e, <2>1 DEF OwnerEnds, Ended, Exec
    <3>3. At(f.owner)'
      BY <1>1, <2>1, <3>1, <3>2 DEF ExReceived
    <3>4. QED
      BY <1>3, <2>1, <3>2, <3>3
  <2>2. CASE f.owner \notin Execs
    BY <1>2, <1>9, <2>2 DEF OwnerEnds, ExReceived
  <2>3. QED
    BY <2>1, <2>2
<1>10. CASE Crash
  BY <1>4, <1>10 DEF Crash, ExReceived
<1>11. CASE UNCHANGED ex
  BY <1>2, <1>11 DEF ExReceived
<1>12. QED
  BY <1>5, <1>6, <1>7, <1>8, <1>9, <1>10, <1>11
     DEF Next, Launch, RunNow, Check, Due, Run, Pipeline, FlowCommits, FlowBreaks,
         Admin, Create, PatchEnabled, PatchForce, Delete, Tick, Diverge, vars

LEMMA RowReceivedStep ==
  ASSUME IInv, RowReceived, ExReceived, [Next]_vars, "delete" \notin Env
  PROVE  RowReceived'
<1> USE DEF IInv
<1>e. ex \in [Execs -> Exec]
  BY DEF TypeOK, Types
<1>r. row \in [Ids -> Row]
  BY DEF TypeOK, Types
<1> DEFINE At(i) == row[i].live => Received(row[i].def, row[i].bookmark)
<1>1. ASSUME NEW i \in Ids, row'[i].def = row[i].def, row'[i].bookmark = row[i].bookmark,
             row[i].live
      PROVE  At(i)'
  <2>1. row[i].def \in Defs
    BY <1>r DEF Row
  <2>2. \/ row'[i].bookmark = 0
        \/ row'[i].bookmark \in got'[row'[i].def]
        \/ row'[i].def \in forced'
    BY <1>1, <2>1, ReceivedKept DEF RowReceived
  <2>3. QED
    BY <1>1, <2>2 DEF Received
<1>2. ASSUME NEW i \in Ids, row'[i] = row[i] PROVE At(i)'
  BY <1>1, <1>2
<1>3. ASSUME NEW d \in Defs, Create(d) PROVE RowReceived'
  <2>1. \A i \in Ids : i # NextId => row'[i] = row[i]
    BY <1>3, <1>r DEF Create
  <2>2. NextId \in Ids => row'[NextId].bookmark = 0
    BY <1>3, <1>r, NoRowType DEF Create, NoRow, Row
  <2>3. QED
    BY <1>2, <1>3, <2>1, <2>2 DEF RowReceived, Received, Create
<1>4. ASSUME NEW k \in Ids, PatchEnabled(k) \/ PatchForce(k) PROVE RowReceived'
  <2>1. row[k].live
    BY <1>4 DEF PatchEnabled, PatchForce
  <2>2. /\ row'[k].def = row[k].def /\ row'[k].bookmark = row[k].bookmark
        /\ \A i \in Ids : i # k => row'[i] = row[i]
    BY <1>4, <1>r DEF PatchEnabled, PatchForce, Row
  <2>3. QED
    BY <1>1, <1>2, <2>1, <2>2 DEF RowReceived
<1>5. ASSUME NEW e \in Execs, Finish(e) PROVE RowReceived'
  <2>1. ex[e].pc = "finish" /\ ex[e].id \in Ids
    BY <1>5, <1>e DEF Finish, Exec
  <2>2. row[ex[e].id].live /\ row[ex[e].id].def = ex[e].def
    BY <2>1 DEF ExReceived
  <2>3. /\ row'[ex[e].id].def = ex[e].def
        /\ row'[ex[e].id].bookmark \in {ex[e].bookmark, row[ex[e].id].bookmark}
        /\ \A i \in Ids : i # ex[e].id => row'[i] = row[i]
        /\ UNCHANGED <<got, forced>>
    BY <1>5, <1>r, <2>1, <2>2 DEF Finish, Row, zfs, dest
  <2>4. PICK k \in Ids : k = ex[e].id
    BY <2>1
  <2>5. At(k)'
    BY <2>2, <2>3, <2>4 DEF ExReceived, RowReceived, Received
  <2>6. QED
    BY <1>2, <2>3, <2>4, <2>5 DEF RowReceived
<1>6. CASE UNCHANGED row
  BY <1>2, <1>6 DEF RowReceived
<1>7. QED
  BY <1>3, <1>4, <1>5, <1>6
     DEF Next, Launch, RunNow, Check, Fetch, Run, Pipeline, Admin, Delete, Admit, Snapshot,
         Start, Waited, DestroyDest, Restart, Rewaited, Unmark, Bookmark, Prune, FlowBegins,
         FlowCommits, FlowBreaks, Cancel, Kill, Tick, Diverge, Crash, vars, zfs

\* While rows are not deleted, a job's bookmark is a snapshot its destination
\* received: the base of the next incremental exists on both sides.
THEOREM BookmarkReceivedAlways ==
  ASSUME "delete" \notin Env
  PROVE  Spec => []BookmarkReceived
<1> DEFINE J == IInv /\ RowReceived /\ ExReceived
<1>1. Init => J
  <2> SUFFICES ASSUME Init PROVE J
    OBVIOUS
  <2>1. IInv
    BY IInvInit
  <2>2. RowReceived /\ ExReceived
    BY DEF Init, NoRow, NoExec, RowReceived, ExReceived, Received
  <2>3. QED
    BY <2>1, <2>2
<1>2. J /\ [Next]_vars => J'
  BY IInvStep, RowReceivedStep, ExReceivedStep
<1>3. J => BookmarkReceived
  BY DEF RowReceived, Received, BookmarkReceived
<1> HIDE DEF J
<1>4. QED
  BY <1>1, <1>2, <1>3, PTL DEF Spec

----------------------------------------------------------------------------
(* The bookmark only moves to the newest snapshot of its destination.      *)
(*                                                                         *)
(* A second execution of the job may be anywhere meanwhile.  What stops    *)
(* its stream is that an increment must start from what #ezrepl-last       *)
(* names, and that is not yet the snapshot the first one sent (Apart); and *)
(* that no stream is under way to where one has just ended (Streams).      *)

\* n is a second of the past, or of now and then there is a snapshot of it.
Old(s, n) == n <= clock /\ (n = clock => n \in snaps[s])

\* Whatever names a snapshot names an old one: a new one is newer than all.
Past ==
  /\ \A s \in Sources : Old(s, mark[s]) /\ \A n \in snaps[s] : n <= clock
  /\ \A d \in Defs : \A n \in got[d] : Old(SourceOf[d], n)
  /\ \A e \in Execs : Old(Source(e), ex[e].snap)

\* An execution that has its snapshot and has not made it the bookmark.
Unmarked(e) == ex[e].pc \in {"start", "wait", "destroy", "restart", "rewait",
                             "unmark", "bookmark"}

\* No two executions of a source have the same snapshot, and the bookmark is
\* none of theirs.
Apart ==
  /\ \A e \in Execs : Unmarked(e) => ex[e].snap # 0 /\ mark[Source(e)] # ex[e].snap
  /\ \A e, o \in Execs :
       Unmarked(e) /\ Unmarked(o) /\ Source(e) = Source(o) /\ ex[e].snap = ex[o].snap => e = o

Newest(d, n) == n \in got[d] /\ \A m \in got[d] : m <= n

\* A destination that received snapshots exists, and one of them is the newest.
Peaked == \A d \in Defs : got[d] # {} => exists[d] /\ \E n \in got[d] : Newest(d, n)

\* One stream at a time reaches a destination.
OneStream == \A f, g \in flows : f.def = g.def => f = g

\* The stream of an execution has ended well and its bookmark is not there yet.
Settles(e) == \/ ex[e].pc \in {"unmark", "bookmark"}
              \/ ex[e].pc \in {"wait", "rewait"} /\ ex[e].op = "done"

\* A stream brings something newer, and never to where an execution settles.
Streams == \A f \in flows : f.def \notin forced =>
  /\ \A n \in got[f.def] : n < f.snap
  /\ \A e \in Execs : Settles(e) => ex[e].def # f.def

Heads == \A e \in Execs : Settles(e) /\ ex[e].def \notin forced => Newest(ex[e].def, ex[e].snap)

\* What flows is a snapshot of the past, as is what arrived.
FlowsPast == \A f \in flows : Old(SourceOf[f.def], f.snap)

NInv == Past /\ Apart /\ Peaked /\ OneStream /\ Streams /\ Heads /\ FlowsPast

\* A step that moves no snapshot, bookmark or stream, and takes an execution no
\* nearer to its bookmark.
LEMMA QuietStep ==
  ASSUME TypeOK, NInv, UNCHANGED <<clock, snaps, mark, got, exists, flows>>,
         forced \subseteq forced',
         \A e \in Execs :
           /\ \/ ex'[e].snap = ex[e].snap /\ ex'[e].def = ex[e].def
              \/ ex'[e].snap = 0 /\ ~Unmarked(e)'
           /\ Unmarked(e)' => Unmarked(e)
           /\ Settles(e)' => Settles(e)
  PROVE  NInv'
<1>e. \A e \in Execs : Settles(e) => Unmarked(e)
  BY DEF Settles, Unmarked
<1>c. clock \in Nat \ {0}
  BY DEF TypeOK, Types, Seconds
<1>1. Past'
  BY <1>c DEF NInv, Past, Old, Source
<1>2. Apart'
  BY DEF NInv, Apart, Source
<1>3. Peaked' /\ OneStream'
  BY DEF NInv, Peaked, OneStream, Newest
<1>4. Streams'
  BY <1>e DEF NInv, Streams, Settles, Unmarked
<1>5. Heads'
  BY <1>e DEF NInv, Heads, Newest, Settles, Unmarked
<1>6. FlowsPast'
  BY DEF NInv, FlowsPast, Old
<1>7. QED
  BY <1>1, <1>2, <1>3, <1>4, <1>5, <1>6 DEF NInv

\* The new snapshot is newer than every other.
LEMMA NewSnapshot ==
  ASSUME IInv, NInv, NEW e \in Execs, Snapshot(e)
  PROVE  NInv'
<1>e. /\ ex \in [Execs -> Exec] /\ snaps \in [Sources -> SUBSET Seconds]
      /\ clock \in Nat \ {0} /\ Source(e) \in Sources
  BY ReplicationAssumption DEF IInv, TypeOK, Types, Seconds, Source, Exec
<1>o. \A o \in Execs : o # e => ex'[o] = ex[o]
  BY OthersKept DEF Run, IInv
<1>u. UNCHANGED <<clock, mark, got, exists, flows, forced>>
  BY DEF Snapshot, dest
<1>s. /\ \A s \in Sources : snaps[s] \subseteq snaps'[s]
      /\ \A s \in Sources : \A n \in snaps'[s] : n \in snaps[s] \/ n = clock
  BY <1>e DEF Snapshot
<1>d. ex'[e].def = ex[e].def
  BY <1>e DEF Snapshot, Fail, Exec
<1>n. ~Settles(e)' /\ ~Unmarked(e)
  BY <1>e DEF Snapshot, Fail, Settles, Exec, Unmarked, IInv, Fresh
<1>k. \/ ex'[e].snap = ex[e].snap /\ ~Unmarked(e)'
      \/ ex'[e].snap = clock /\ clock \notin snaps[Source(e)] /\ clock \in snaps'[Source(e)]
  BY <1>e DEF Snapshot, Fail, Unmarked, Exec
<1>a. \A o \in Execs : Source(o)' = Source(o)
  BY <1>o, <1>d DEF Source
<1>old. \A s \in Sources : \A n : Old(s, n) => Old(s, n)'
  BY <1>s, <1>u DEF Old
<1>typ. /\ \A o \in Execs : ex[o].snap \in Nat /\ Source(o) \in Sources
        /\ \A s \in Sources : mark[s] \in Nat
        /\ \A d \in Defs : got[d] \subseteq Nat /\ SourceOf[d] \in Sources
        /\ \A f \in flows : SourceOf[f.def] \in Sources
  BY ReplicationAssumption DEF IInv, TypeOK, Types, Exec, Source, Seconds, Flow
<1>1. Past'
  <2>1. \A s \in Sources : Old(s, mark[s])' /\ \A n \in snaps'[s] : n <= clock'
    BY <1>e, <1>s, <1>u, <1>old, <1>typ DEF NInv, Past
  <2>2. \A d \in Defs : \A n \in got'[d] : Old(SourceOf[d], n)'
    BY <1>u, <1>old, <1>typ DEF NInv, Past
  <2>3. \A o \in Execs : Old(Source(o), ex[o].snap)
    BY DEF NInv, Past
  <2>4. ASSUME NEW o \in Execs PROVE Old(Source(o), ex[o].snap)'
    <3>1. CASE ex'[o].snap = ex[o].snap
      BY <2>3, <3>1, <1>old, <1>typ, <1>a, <1>u DEF Old
    <3>2. CASE o = e /\ ex'[e].snap = clock /\ clock \in snaps'[Source(e)]
      BY <3>2, <1>a, <1>u, <1>e DEF Old
    <3>3. QED
      BY <1>o, <1>k, <3>1, <3>2
  <2>5. QED
    BY <2>1, <2>2, <2>4 DEF Past
<1>2. Apart'
  <2>1. ASSUME NEW o \in Execs, Source(o) = Source(e), ex'[e].snap = clock,
               clock \notin snaps[Source(e)]
        PROVE  ex[o].snap # clock /\ mark[Source(e)] # clock
    BY <2>1, <1>e DEF NInv, Past, Old
  <2>2. ASSUME NEW o \in Execs, Unmarked(o)' PROVE ex'[o].snap # 0 /\ mark'[Source(o)'] # ex'[o].snap
    <3>1. CASE o = e
      BY <2>1, <2>2, <3>1, <1>k, <1>e, <1>u, <1>a
    <3>2. CASE o # e
      BY <2>2, <3>2, <1>o, <1>u, <1>a DEF NInv, Apart, Unmarked
    <3>3. QED
      BY <3>1, <3>2
  <2>3. ASSUME NEW o \in Execs, NEW k \in Execs, Unmarked(o)', Unmarked(k)',
               Source(o)' = Source(k)', ex'[o].snap = ex'[k].snap
        PROVE  o = k
    <3>1. CASE o # e /\ k # e
      BY <2>3, <3>1, <1>o, <1>a DEF NInv, Apart, Unmarked
    <3>2. CASE o = e /\ k # e
      BY <2>1, <2>3, <3>2, <1>o, <1>a, <1>k
    <3>3. CASE k = e /\ o # e
      BY <2>1, <2>3, <3>3, <1>o, <1>a, <1>k
    <3>4. QED
      BY <3>1, <3>2, <3>3
  <2>4. QED
    BY <2>2, <2>3 DEF Apart
<1>3. Peaked' /\ OneStream'
  BY <1>u DEF NInv, Peaked, OneStream, Newest
<1>4. Streams'
  BY <1>u, <1>o, <1>n DEF NInv, Streams, Settles
<1>5. Heads'
  BY <1>u, <1>o, <1>n DEF NInv, Heads, Newest, Settles
<1>6. FlowsPast'
  BY <1>u, <1>old, <1>typ DEF NInv, FlowsPast, Old
<1>7. QED
  BY <1>1, <1>2, <1>3, <1>4, <1>5, <1>6 DEF NInv

\* Only an execution that settles moves the bookmark, away from all names or to
\* its own snapshot, which from then on is no longer apart.
LEMMA MoveBookmark ==
  ASSUME IInv, NInv, NEW e \in Execs, Unmark(e) \/ Bookmark(e)
  PROVE  NInv'
<1>e. /\ ex \in [Execs -> Exec] /\ mark \in [Sources -> Nat] /\ clock \in Nat \ {0}
      /\ Source(e) \in Sources
  BY ReplicationAssumption DEF IInv, TypeOK, Types, Source, Exec, Seconds
<1>o. \A o \in Execs : o # e => ex'[o] = ex[o]
  BY OthersKept DEF Run, IInv
<1>u. UNCHANGED <<clock, snaps, got, exists, flows, forced>>
  BY DEF Unmark, Bookmark, dest
<1>d. ex'[e].def = ex[e].def /\ ex'[e].snap = ex[e].snap
  BY <1>e DEF Unmark, Bookmark, Goto, Fail, Exec
<1>n. /\ Unmarked(e) /\ Settles(e) /\ (Settles(e)' => Unmarked(e)')
      /\ (Unmarked(e)' => mark'[Source(e)] # ex[e].snap)
  BY <1>e DEF Unmark, Bookmark, Goto, Fail, Settles, Unmarked, Exec, NInv, Apart
<1>m. /\ \A s \in Sources : s # Source(e) => mark'[s] = mark[s]
      /\ mark'[Source(e)] \in {0, mark[Source(e)], ex[e].snap}
  BY <1>e DEF Unmark, Bookmark
<1>a. \A o \in Execs : Source(o)' = Source(o) /\ Source(o) \in Sources
  BY <1>o, <1>d, <1>e, ReplicationAssumption DEF Source, Exec
<1>1. Past'
  <2>1. Old(Source(e), mark[Source(e)]) /\ Old(Source(e), ex[e].snap) /\ Old(Source(e), 0)
    BY <1>e DEF NInv, Past, Old
  <2>2. \A s \in Sources : Old(s, mark'[s])
    BY <1>m, <2>1, <1>e DEF NInv, Past
  <2>3. \A o \in Execs : Old(Source(o), ex'[o].snap)
    BY <1>o, <1>d DEF NInv, Past
  <2>4. QED
    BY <1>u, <1>a, <2>2, <2>3 DEF NInv, Past, Old
<1>2. Apart'
  <2>1. ASSUME NEW o \in Execs, Unmarked(o)' PROVE ex'[o].snap # 0 /\ mark'[Source(o)'] # ex'[o].snap
    <3>1. CASE o = e
      BY <2>1, <3>1, <1>n, <1>d, <1>a DEF NInv, Apart
    <3>2. CASE o # e
      <4>1. Unmarked(o) /\ ex'[o].snap = ex[o].snap /\ ex[o].snap # 0
            /\ mark[Source(o)] # ex[o].snap
            /\ (Source(o) = Source(e) => ex[o].snap # ex[e].snap)
        BY <2>1, <3>2, <1>o, <1>n DEF NInv, Apart, Unmarked
      <4>2. QED
        BY <4>1, <1>m, <1>a
    <3>3. QED
      BY <3>1, <3>2
  <2>2. \A o \in Execs : Unmarked(o)' => Unmarked(o) /\ ex'[o].snap = ex[o].snap
    BY <1>o, <1>n, <1>d DEF Unmarked
  <2>3. QED
    BY <2>1, <2>2, <1>a DEF NInv, Apart
<1>3. Peaked' /\ OneStream'
  BY <1>u DEF NInv, Peaked, OneStream, Newest
<1>s. \A o \in Execs : (Settles(o)' => Settles(o)) /\ ex'[o].def = ex[o].def /\ ex'[o].snap = ex[o].snap
  BY <1>o, <1>d, <1>n DEF Settles
<1>4. Streams' /\ Heads'
  BY <1>u, <1>s DEF NInv, Streams, Heads, Newest
<1>5. FlowsPast'
  BY <1>u DEF NInv, FlowsPast, Old
<1>6. QED
  BY <1>1, <1>2, <1>3, <1>4, <1>5 DEF NInv

\* Pruning leaves the newest snapshot of a source, that of this second.
LEMMA PruneSources ==
  ASSUME IInv, NInv, NEW e \in Execs, Prune(e)
  PROVE  NInv'
<1>e. /\ ex \in [Execs -> Exec] /\ snaps \in [Sources -> SUBSET Nat] /\ clock \in Nat
      /\ Source(e) \in Sources
  BY ReplicationAssumption DEF IInv, TypeOK, Types, Source, Exec, Seconds
<1>o. \A o \in Execs : o # e => ex'[o] = ex[o]
  BY OthersKept DEF Run, IInv
<1>u. UNCHANGED <<clock, mark, got, exists, flows, forced>>
  BY DEF Prune, dest
<1>d. /\ ex'[e].def = ex[e].def /\ ex'[e].snap = ex[e].snap
      /\ ~Unmarked(e)' /\ ~Settles(e)'
  BY <1>e DEF Prune, Exec, Unmarked, Settles
<1>s. /\ \A s \in Sources : snaps'[s] \subseteq snaps[s]
      /\ \A s \in Sources : clock \in snaps[s] => clock \in snaps'[s]
  <2>1. PICK gone \in SUBSET Prunable(Source(e)) : snaps' = [snaps EXCEPT ![Source(e)] = @ \ gone]
    BY DEF Prune
  <2>2. clock \in snaps[Source(e)] => clock \notin gone
    <3>1. SUFFICES ASSUME clock \in snaps[Source(e)] PROVE clock \in Newest2(snaps[Source(e)])
      BY DEF Prunable
    <3>2. \A n \in snaps[Source(e)] : n <= clock
      BY <1>e DEF NInv, Past
    <3>3. {n \in snaps[Source(e)] : n > clock} = {}
      BY <1>e, <3>2
    <3>4. Cardinality({n \in snaps[Source(e)] : n > clock}) = 0
      BY <3>3, FS_EmptySet
    <3>5. QED
      BY <3>1, <3>4 DEF Newest2
  <2>3. QED
    BY <1>e, <2>1, <2>2
<1>a. \A o \in Execs : Source(o)' = Source(o) /\ ex'[o].snap = ex[o].snap /\ Source(o) \in Sources
  BY <1>o, <1>d, <1>e, ReplicationAssumption DEF Source, Exec
<1>old. \A s \in Sources : \A n : Old(s, n) => Old(s, n)'
  BY <1>s, <1>u DEF Old
<1>typ. /\ \A d \in Defs : SourceOf[d] \in Sources
        /\ \A f \in flows : SourceOf[f.def] \in Sources
  BY ReplicationAssumption DEF IInv, TypeOK, Types, Flow
<1>1. Past'
  BY <1>s, <1>u, <1>a, <1>old, <1>typ DEF NInv, Past
<1>2. Apart'
  BY <1>u, <1>a, <1>o, <1>d DEF NInv, Apart, Unmarked
<1>3. Peaked' /\ OneStream'
  BY <1>u DEF NInv, Peaked, OneStream, Newest
<1>4. Streams' /\ Heads'
  BY <1>u, <1>o, <1>d DEF NInv, Streams, Heads, Newest, Settles
<1>5. FlowsPast'
  BY <1>u, <1>old, <1>typ DEF NInv, FlowsPast, Old
<1>6. QED
  BY <1>1, <1>2, <1>3, <1>4, <1>5 DEF NInv

\* Head finds the newest, where there is one.
LEMMA HeadIsNewest ==
  ASSUME TypeOK, Peaked, NEW d \in Defs
  PROVE  /\ got[d] # {} => Newest(d, Head(d))
         /\ Head(d) # 0 => got[d] # {}
         /\ \A n : Newest(d, n) => Head(d) = n
<1>1. got[d] \subseteq Nat
  BY DEF TypeOK, Types, Seconds
<1>2. ASSUME NEW n, Newest(d, n) PROVE Head(d) = n
  <2>1. \A x \in got[d] : (\A y \in got[d] : x >= y) => x = n
    BY <1>1, <1>2 DEF Newest
  <2>2. n \in got[d] /\ \A y \in got[d] : n >= y
    BY <1>1, <1>2 DEF Newest
  <2>3. Max(got[d]) = n
    BY <2>1, <2>2 DEF Max
  <2>4. QED
    BY <2>2, <2>3 DEF Head
<1>3. QED
  BY <1>2 DEF Peaked, Head

\* A stream that begins finds its destination as the bookmark's snapshot left
\* it, or not there: where an execution settles it would have found neither.
LEMMA StreamBegins ==
  ASSUME IInv, NInv, NEW e \in Execs, FlowBegins(e)
  PROVE  NInv'
<1>t. TypeOK /\ Peaked
  BY DEF IInv, NInv
<1>e. /\ ex \in [Execs -> Exec] /\ ex[e].def \in Defs /\ ex[e].snap \in Nat
      /\ \A d \in Defs : got[d] \subseteq Nat
      /\ \A s \in Sources : mark[s] \in Nat
      /\ Source(e) \in Sources
  BY ReplicationAssumption DEF IInv, TypeOK, Types, Source, Exec, Seconds
<1>o. \A o \in Execs : o # e => ex'[o] = ex[o]
  BY OthersKept DEF IInv
<1>u. UNCHANGED <<clock, snaps, mark, got, exists, forced>>
  BY DEF FlowBegins, dest
<1>w. ex[e].pc \in {"wait", "rewait"} /\ ex[e].op = "started"
  BY DEF FlowBegins, IInv, Awaited
<1>d. /\ ex'[e].def = ex[e].def /\ ex'[e].snap = ex[e].snap /\ ex'[e].pc = ex[e].pc
      /\ ex'[e].op \in {"flowing", "canceled", "error"}
  BY <1>e DEF FlowBegins, Ended, Exec
<1>q. \A o \in Execs : /\ ex'[o].def = ex[o].def /\ ex'[o].snap = ex[o].snap
                       /\ (Unmarked(o)' => Unmarked(o)) /\ (Settles(o)' => Settles(o))
  BY <1>o, <1>d, <1>w DEF Unmarked, Settles
<1>1. CASE UNCHANGED flows
  BY <1>1, <1>q, <1>t, <1>u, QuietStep
<1>2. CASE /\ Flows(e)
           /\ flows' = flows \cup {[def |-> ex[e].def, snap |-> ex[e].snap, owner |-> e,
                                 base |-> IF ex[e].full THEN 0 ELSE mark[Source(e)]]}
  <2> DEFINE d == ex[e].def
             new == [def |-> ex[e].def, snap |-> ex[e].snap, owner |-> e,
                     base |-> IF ex[e].full THEN 0 ELSE mark[Source(e)]]
  <2>1. \A f \in flows : f.def # d
    BY <1>2 DEF Flows, Busy
  <2>2. OneStream'
    BY <1>2, <2>1 DEF NInv, OneStream
  <2>3. \A n \in got[d] : n < ex[e].snap
    <3>1. CASE ex[e].full
      BY <1>2, <3>1, <1>t, <1>e DEF Flows, Peaked
    <3>2. CASE ~ex[e].full
      <4>1. Head(d) = mark[Source(e)] /\ mark[Source(e)] # 0 /\ mark[Source(e)] < ex[e].snap
        BY <1>2, <3>2 DEF Flows
      <4>2. Newest(d, mark[Source(e)])
        BY <4>1, <1>t, <1>e, HeadIsNewest
      <4>3. QED
        BY <4>1, <4>2, <1>e DEF Newest
    <3>3. QED
      BY <3>1, <3>2
  <2>4. ASSUME NEW o \in Execs, Settles(o), ex[o].def = d, d \notin forced PROVE FALSE
    <3>1. Newest(d, ex[o].snap) /\ got[d] # {} /\ exists[d] /\ Unmarked(o) /\ Source(o) = Source(e)
      BY <2>4, <1>t, <1>e DEF NInv, Heads, Newest, Peaked, Settles, Unmarked, Source
    <3>2. ~ex[e].full /\ Head(d) = mark[Source(e)]
      BY <1>2, <3>1 DEF Flows
    <3>3. Head(d) = ex[o].snap
      BY <3>1, <1>t, <1>e, HeadIsNewest
    <3>4. QED
      BY <3>1, <3>2, <3>3 DEF NInv, Apart
  <2>5. Streams'
    <3>1. ASSUME NEW f \in flows', f.def \notin forced
          PROVE  /\ \A n \in got[f.def] : n < f.snap
                 /\ \A o \in Execs : Settles(o) => ex[o].def # f.def
      <4>1. CASE f \in flows
        BY <3>1, <4>1 DEF NInv, Streams
      <4>2. CASE f = new
        BY <3>1, <4>2, <2>3, <2>4
      <4>3. QED
        BY <3>1, <4>1, <4>2, <1>2
    <3>2. QED
      BY <3>1, <1>q, <1>u DEF Streams
  <2>6. FlowsPast'
    <3>1. Old(SourceOf[d], ex[e].snap)
      BY <1>e DEF NInv, Past, Source
    <3>2. QED
      BY <1>2, <3>1, <1>u DEF NInv, FlowsPast, Old
  <2>7. Past' /\ Apart'
    BY <1>q, <1>u DEF NInv, Past, Apart, Old, Source
  <2>8. Peaked' /\ Heads'
    BY <1>q, <1>u DEF NInv, Peaked, Heads, Newest
  <2>9. QED
    BY <2>2, <2>5, <2>6, <2>7, <2>8 DEF NInv
<1>3. QED
  BY <1>1, <1>2 DEF FlowBegins

\* What the end of a pipeline does to the executions: its owner's operation ends.
LEMMA OwnersEnd ==
  ASSUME IInv, NEW f \in flows, NEW how \in {"done", "error"}, OwnerEnds(f, how)
  PROVE  \A e \in Execs :
           /\ ex'[e].def = ex[e].def /\ ex'[e].snap = ex[e].snap /\ ex'[e].pc = ex[e].pc
           /\ Source(e)' = Source(e)
           /\ Settles(e)' => \/ Settles(e)
                             \/ how = "done" /\ ex[e].def = f.def /\ ex[e].snap = f.snap
<1>e. ex \in [Execs -> Exec]
  BY DEF IInv, TypeOK, Types
<1>1. CASE f.owner \notin Execs
  BY <1>1 DEF OwnerEnds, Settles, Source
<1>2. CASE f.owner \in Execs
  <2>1. f.def = ex[f.owner].def /\ f.snap = ex[f.owner].snap
    BY <1>2 DEF IInv, Owned
  <2>2. ex' = [ex EXCEPT ![f.owner].op = IF ex[f.owner].canceledReq THEN "canceled" ELSE how]
    BY <1>2 DEF OwnerEnds, Ended
  <2>3. \A e \in Execs : /\ e # f.owner => ex'[e] = ex[e]
                         /\ ex'[e].def = ex[e].def /\ ex'[e].snap = ex[e].snap
                         /\ ex'[e].pc = ex[e].pc
    BY <1>e, <2>2 DEF Exec
  <2>4. ex'[f.owner].op \in {"canceled", how}
    BY <1>2, <1>e, <2>2 DEF Exec
  <2>5. QED
    BY <1>2, <2>1, <2>3, <2>4 DEF Settles, Source
<1>3. QED
  BY <1>1, <1>2

\* What arrives is the newest of its destination, and nobody settled there.
LEMMA StreamArrives ==
  ASSUME IInv, NInv, NEW f \in flows, FlowCommits(f)
  PROVE  NInv'
<1>t. /\ f.def \in Defs /\ f.snap \in Nat \ {0}
      /\ got \in [Defs -> SUBSET Nat] /\ exists \in [Defs -> BOOLEAN]
      /\ \A e \in Execs : ex[e].def \in Defs
  BY DEF IInv, TypeOK, Types, Flow, Seconds, Exec
<1>u. UNCHANGED <<clock, snaps, mark, forced>> /\ flows' = flows \ {f}
  BY DEF FlowCommits
<1>q. \A e \in Execs :
        /\ ex'[e].def = ex[e].def /\ ex'[e].snap = ex[e].snap /\ ex'[e].pc = ex[e].pc
        /\ Source(e)' = Source(e)
        /\ Settles(e)' => \/ Settles(e)
                          \/ ex[e].def = f.def /\ ex[e].snap = f.snap
  <2>1. OwnerEnds(f, "done")
    BY DEF FlowCommits
  <2>2. QED
    BY <2>1, OwnersEnd
<1>g. /\ got'[f.def] = got[f.def] \cup {f.snap}
      /\ \A d \in Defs : d # f.def => got'[d] = got[d]
      /\ \A d \in Defs : exists'[d] = (exists[d] \/ d = f.def)
  BY <1>t DEF FlowCommits
<1>1. Past'
  <2>1. Old(SourceOf[f.def], f.snap)
    BY DEF NInv, FlowsPast
  <2>2. \A d \in Defs : \A n \in got'[d] : Old(SourceOf[d], n)
    BY <1>g, <2>1 DEF NInv, Past
  <2>3. QED
    BY <1>u, <1>q, <2>2 DEF NInv, Past, Old
<1>2. Apart'
  BY <1>u, <1>q DEF NInv, Apart, Unmarked
<1>3. Peaked'
  <2>1. ASSUME NEW d \in Defs, got'[d] # {} PROVE exists'[d] /\ \E n \in got'[d] : Newest(d, n)'
    <3>1. CASE d # f.def
      BY <2>1, <3>1, <1>g DEF NInv, Peaked, Newest
    <3>2. CASE d = f.def /\ got[d] = {}
      <4>1. \A m \in got'[d] : m <= f.snap
        BY <3>2, <1>g, <1>t
      <4>2. QED
        BY <3>2, <4>1, <1>g DEF Newest
    <3>3. CASE d = f.def /\ got[d] # {}
      <4>1. PICK n \in got[d] : Newest(d, n)
        BY <3>3 DEF NInv, Peaked
      <4>2. CASE n <= f.snap
        <5>1. \A m \in got'[d] : m <= f.snap
          BY <3>3, <4>1, <4>2, <1>g, <1>t DEF Newest
        <5>2. QED
          BY <3>3, <5>1, <1>g DEF Newest
      <4>3. CASE ~(n <= f.snap)
        <5>1. n \in got'[d] /\ \A m \in got'[d] : m <= n
          BY <3>3, <4>1, <4>3, <1>g, <1>t DEF Newest
        <5>2. QED
          BY <3>3, <5>1, <1>g DEF Newest
      <4>4. QED
        BY <4>2, <4>3
    <3>4. QED
      BY <3>1, <3>2, <3>3
  <2>2. QED
    BY <2>1 DEF Peaked
<1>4. OneStream' /\ FlowsPast'
  BY <1>u DEF NInv, OneStream, FlowsPast, Old
<1>5. Streams'
  <2>1. ASSUME NEW g \in flows', g.def \notin forced'
        PROVE  /\ \A n \in got'[g.def] : n < g.snap
               /\ \A e \in Execs : Settles(e)' => ex'[e].def # g.def
    <3>1. g \in flows /\ g.def # f.def /\ g.def \in Defs
      BY <2>1, <1>u DEF NInv, OneStream, IInv, TypeOK, Types, Flow
    <3>2. QED
      BY <2>1, <3>1, <1>u, <1>g, <1>q DEF NInv, Streams
  <2>2. QED
    BY <2>1 DEF Streams
<1>6. Heads'
  <2>1. ASSUME NEW e \in Execs, Settles(e)', ex[e].def \notin forced
        PROVE  Newest(ex[e].def, ex[e].snap)'
    <3>1. CASE Settles(e)
      <4>1. ex[e].def # f.def
        BY <2>1, <3>1 DEF NInv, Streams
      <4>2. Newest(ex[e].def, ex[e].snap)
        BY <2>1, <3>1 DEF NInv, Heads
      <4>3. QED
        BY <4>1, <4>2, <1>q, <1>g, <1>t DEF Newest
    <3>2. CASE ex[e].def = f.def /\ ex[e].snap = f.snap
      <4>1. \A n \in got[f.def] : n < f.snap
        BY <2>1, <3>2 DEF NInv, Streams
      <4>2. \A n \in got'[f.def] : n <= f.snap
        BY <4>1, <1>g, <1>t
      <4>3. QED
        BY <3>2, <4>2, <1>q, <1>g DEF Newest
    <3>3. QED
      BY <2>1, <3>1, <3>2, <1>q
  <2>2. QED
    BY <2>1, <1>q, <1>u DEF Heads
<1>7. QED
  BY <1>1, <1>2, <1>3, <1>4, <1>5, <1>6 DEF NInv

\* A stream that breaks brings nothing.
LEMMA StreamBreaks ==
  ASSUME IInv, NInv, NEW f \in flows, FlowBreaks(f)
  PROVE  NInv'
<1>t. exists \in [Defs -> BOOLEAN]
  BY DEF IInv, TypeOK, Types
<1>u. UNCHANGED <<clock, snaps, mark, got, forced>> /\ flows' = flows \ {f}
  BY DEF FlowBreaks
<1>g. \A d \in Defs : exists[d] => exists'[d]
  BY <1>t DEF FlowBreaks
<1>q. \A e \in Execs :
        /\ ex'[e].def = ex[e].def /\ ex'[e].snap = ex[e].snap /\ ex'[e].pc = ex[e].pc
        /\ Source(e)' = Source(e) /\ (Settles(e)' => Settles(e))
  BY OwnersEnd DEF FlowBreaks
<1>1. Past' /\ Apart'
  BY <1>u, <1>q DEF NInv, Past, Apart, Old, Unmarked
<1>2. Peaked' /\ OneStream' /\ FlowsPast'
  BY <1>u, <1>g DEF NInv, Peaked, OneStream, FlowsPast, Old, Newest
<1>3. Streams' /\ Heads'
  BY <1>u, <1>q DEF NInv, Streams, Heads, Newest
<1>4. QED
  BY <1>1, <1>2, <1>3 DEF NInv

\* A destination is only destroyed with force_full, which excuses it.
LEMMA DestinationGoes ==
  ASSUME IInv, NInv, NEW e \in Execs, DestroyDest(e)
  PROVE  NInv'
<1>t. /\ got \in [Defs -> SUBSET Nat] /\ exists \in [Defs -> BOOLEAN]
      /\ ex \in [Execs -> Exec]
  BY DEF IInv, TypeOK, Types, Seconds
<1>f. ex[e].def \in forced
  BY DEF DestroyDest, IInv, Allowed
<1>u. UNCHANGED <<clock, snaps, mark, flows, forced>>
  BY DEF DestroyDest
<1>o. \A o \in Execs : o # e => ex'[o] = ex[o]
  BY OthersKept DEF Run, IInv
<1>d. /\ ex'[e].def = ex[e].def /\ ex'[e].snap = ex[e].snap
      /\ ~Settles(e)' /\ Unmarked(e)
  BY <1>t DEF DestroyDest, Goto, Fail, Exec, Settles, Unmarked
<1>q. \A o \in Execs : /\ ex'[o].def = ex[o].def /\ ex'[o].snap = ex[o].snap
                       /\ Source(o)' = Source(o)
                       /\ (Unmarked(o)' => Unmarked(o)) /\ (Settles(o)' => Settles(o))
  BY <1>o, <1>d DEF Unmarked, Settles, Source
<1>g. \A d \in Defs : \/ got'[d] = got[d] /\ exists'[d] = exists[d]
                      \/ got'[d] = {} /\ d \in forced
  BY <1>t, <1>f DEF DestroyDest, dest
<1>1. Past' /\ Apart'
  BY <1>u, <1>q, <1>g DEF NInv, Past, Apart, Old
<1>2. Peaked' /\ OneStream' /\ FlowsPast'
  BY <1>u, <1>g DEF NInv, Peaked, OneStream, FlowsPast, Old, Newest
<1>3. Streams' /\ Heads'
  <2>1. \A h \in flows : h.def \in Defs
    BY DEF IInv, TypeOK, Types, Flow
  <2>2. \A o \in Execs : ex[o].def \in Defs
    BY <1>t DEF Exec
  <2>3. Streams'
    BY <1>u, <1>q, <1>g, <2>1 DEF NInv, Streams
  <2>4. Heads'
    BY <1>u, <1>q, <1>g, <2>2 DEF NInv, Heads, Newest
  <2>5. QED
    BY <2>3, <2>4
<1>4. QED
  BY <1>1, <1>2, <1>3 DEF NInv

\* A kill and a restart leave the streams without their owner.
LEMMA StreamsOrphaned ==
  ASSUME IInv, NInv, UNCHANGED <<clock, snaps, mark, dest, forced>>,
         \E S \in SUBSET Execs :
           flows' = {[f EXCEPT !.owner = IF @ \in S THEN Nobody ELSE @] : f \in flows},
         \A e \in Execs :
           /\ \/ ex'[e].snap = ex[e].snap /\ ex'[e].def = ex[e].def
              \/ ex'[e].snap = 0 /\ ~Unmarked(e)'
           /\ Unmarked(e)' => Unmarked(e)
           /\ Settles(e)' => Settles(e)
  PROVE  NInv'
<1>e. \A e \in Execs : Settles(e) => Unmarked(e)
  BY DEF Settles, Unmarked
<1>c. clock \in Nat \ {0}
  BY DEF IInv, TypeOK, Types, Seconds
<1>f. \A g \in flows' : \E f \in flows : g.def = f.def /\ g.snap = f.snap
  BY DEF IInv, TypeOK, Types, Flow
<1>u. UNCHANGED <<got, exists>>
  BY DEF dest
<1>1. Past' /\ Apart'
  BY <1>c DEF NInv, Past, Old, Apart, Source, dest
<1>2. Peaked' /\ FlowsPast'
  BY <1>f, <1>u DEF NInv, Peaked, Newest, FlowsPast, Old
<1>3. OneStream'
  BY DEF NInv, OneStream, IInv, TypeOK, Types, Flow
<1>4. Streams'
  BY <1>e, <1>f, <1>u DEF NInv, Streams, Settles, Unmarked
<1>5. Heads'
  BY <1>e, <1>u DEF NInv, Heads, Newest, Settles, Unmarked
<1>6. QED
  BY <1>1, <1>2, <1>3, <1>4, <1>5 DEF NInv

LEMMA NInvStep == IInv /\ NInv /\ [Next]_vars => NInv'
<1> SUFFICES ASSUME IInv, NInv, [Next]_vars PROVE NInv'
  OBVIOUS
<1>t. TypeOK
  BY DEF IInv
<1>e. ex \in [Execs -> Exec] /\ flows \subseteq Flow
  BY DEF IInv, TypeOK, Types
<1>1. ASSUME NEW e \in Execs,
             \/ \E i \in Ids, tick \in BOOLEAN : Fetch(e, i, tick)
             \/ Admit(e) \/ Start(e) \/ Waited(e) \/ Restart(e) \/ Rewaited(e) \/ Finish(e)
             \/ Cancel(e)
      PROVE  NInv'
  <2>1. \A o \in Execs : o # e => ex'[o] = ex[o]
    BY <1>1, <1>t, OthersKept DEF Run
  <2>2. UNCHANGED <<clock, snaps, mark, got, exists, flows, forced>>
    BY <1>1 DEF Fetch, Admit, Start, Waited, Restart, Rewaited, Finish, Cancel, zfs, dest
  <2>3. /\ \/ ex'[e].snap = ex[e].snap /\ ex'[e].def = ex[e].def
           \/ ex'[e].snap = 0 /\ ~Unmarked(e)'
        /\ Unmarked(e)' => Unmarked(e)
        /\ Settles(e)' => Settles(e)
    <3>1. CASE \E i \in Ids, tick \in BOOLEAN : Fetch(e, i, tick)
      BY <3>1, <1>e DEF Fetch, NoExec, Unmarked, Settles
    <3>2. CASE Admit(e) \/ Finish(e)
      BY <3>2, <1>e DEF Admit, Finish, NoExec, Unmarked, Settles, Exec
    <3>3. CASE Start(e) \/ Restart(e) \/ Cancel(e)
      BY <3>3, <1>e DEF Start, Restart, Cancel, Fail, Unmarked, Settles, Exec
    <3>4. CASE Waited(e) \/ Rewaited(e)
      BY <3>4, <1>e DEF Waited, Rewaited, Retries, Goto, Fail, Unmarked, Settles, Exec
    <3>5. QED
      BY <1>1, <3>1, <3>2, <3>3, <3>4
  <2>4. \A o \in Execs : o # e => /\ ex'[o].snap = ex[o].snap /\ ex'[o].def = ex[o].def
                                  /\ (Unmarked(o)' => Unmarked(o))
                                  /\ (Settles(o)' => Settles(o))
    BY <2>1 DEF Unmarked, Settles
  <2>5. QED
    BY <1>t, <2>2, <2>3, <2>4, QuietStep
<1>2. ASSUME UNCHANGED <<clock, snaps, mark, got, exists, flows, ex>>, forced \subseteq forced'
      PROVE  NInv'
  BY <1>2, <1>t, QuietStep DEF Unmarked, Settles
<1>3. CASE Admin
  <2>1. forced \subseteq forced'
    BY <1>3 DEF Admin, Create, PatchEnabled, PatchForce, Delete
  <2>2. UNCHANGED <<clock, snaps, mark, got, exists, flows, ex>>
    BY <1>3 DEF Admin, Create, PatchEnabled, PatchForce, Delete, zfs, dest
  <2>3. QED
    BY <1>2, <2>1, <2>2
<1>4. CASE (\E d \in Defs : Diverge(d)) \/ UNCHANGED vars
  BY <1>2, <1>4 DEF Diverge, vars, zfs, dest
<1>5. CASE Tick
  <2>1. clock \in Nat \ {0} /\ clock' = clock + 1
    BY <1>5, <1>t DEF Tick, TypeOK, Types, Seconds
  <2>2. UNCHANGED <<snaps, mark, got, exists, flows, ex, forced>>
    BY <1>5 DEF Tick, zfs, dest
  <2>s. \A s \in Sources : snaps[s] \subseteq Nat /\ mark[s] \in Nat
    BY <1>t DEF TypeOK, Types, Seconds
  <2>g. /\ \A d \in Defs : got[d] \subseteq Nat
        /\ \A e \in Execs : ex[e].snap \in Nat
        /\ \A f \in flows : f.snap \in Nat
    BY <1>t DEF TypeOK, Types, Seconds, Exec, Flow
  <2>3. \A s : \A n \in Nat : Old(s, n) => Old(s, n)'
    BY <2>1 DEF Old
  <2>4. Past' /\ FlowsPast'
    <3>1. \A s \in Sources : Old(s, mark[s])' /\ \A n \in snaps'[s] : n <= clock'
      BY <2>1, <2>2, <2>3, <2>s DEF NInv, Past
    <3>2. \A d \in Defs : \A n \in got'[d] : Old(SourceOf[d], n)'
      BY <2>2, <2>3, <2>g DEF NInv, Past
    <3>3. \A e \in Execs : Old(Source(e), ex[e].snap)'
      BY <2>2, <2>3, <2>g DEF NInv, Past, Source
    <3>4. \A f \in flows' : Old(SourceOf[f.def], f.snap)'
      BY <2>2, <2>3, <2>g DEF NInv, FlowsPast
    <3>5. QED
      BY <3>1, <3>2, <3>3, <3>4, <2>2 DEF Past, FlowsPast, Old, Source
  <2>5. QED
    BY <2>2, <2>4 DEF NInv, Apart, Peaked, OneStream, Streams, Heads, Unmarked, Settles, Source,
       Newest
<1>6. ASSUME NEW e \in Execs, Kill(e) PROVE NInv'
  <2>1. \A o \in Execs : o # e => ex'[o] = ex[o]
    BY <1>6, <1>t, OthersKept
  <2>2. /\ ex'[e].snap = ex[e].snap /\ ex'[e].def = ex[e].def /\ ex'[e].pc = ex[e].pc
        /\ ex'[e].op = "canceled" /\ ex[e].pc \in {"wait", "rewait"}
    BY <1>6, <1>e DEF Kill, Exec, IInv, Awaited
  <2>3. flows' = {[f EXCEPT !.owner = IF @ \in {e} THEN Nobody ELSE @] : f \in flows}
    BY <1>6, <1>e DEF Kill, Orphaned
  <2>4. UNCHANGED <<clock, snaps, mark, dest, forced>>
    BY <1>6 DEF Kill
  <2>5. \A o \in Execs : /\ ex'[o].snap = ex[o].snap /\ ex'[o].def = ex[o].def
                         /\ (Unmarked(o)' => Unmarked(o)) /\ (Settles(o)' => Settles(o))
    BY <2>1, <2>2 DEF Unmarked, Settles
  <2>6. QED
    BY <2>3, <2>4, <2>5, StreamsOrphaned
<1>7. CASE Crash
  <2>1. flows' = {[f EXCEPT !.owner = IF @ \in Execs THEN Nobody ELSE @] : f \in flows}
    BY <1>7, <1>e DEF Crash, Flow
  <2>2. \A e \in Execs : ex'[e].snap = 0 /\ ~Unmarked(e)' /\ ~Settles(e)'
    BY <1>7 DEF Crash, NoExec, Unmarked, Settles
  <2>3. UNCHANGED <<clock, snaps, mark, dest, forced>>
    BY <1>7 DEF Crash
  <2>4. QED
    BY <2>1, <2>2, <2>3, StreamsOrphaned
<1>8. QED
  BY <1>1, <1>3, <1>4, <1>5, <1>6, <1>7, NewSnapshot, MoveBookmark, PruneSources, StreamBegins,
     StreamArrives, StreamBreaks, DestinationGoes
     DEF Next, Launch, RunNow, Check, Run, Pipeline

LEMMA NInvInit == Init => NInv
<1> SUFFICES ASSUME Init PROVE NInv
  OBVIOUS
<1>1. \A e \in Execs : ex[e].snap = 0 /\ ~Unmarked(e) /\ ~Settles(e)
  BY DEF Init, NoExec, Unmarked, Settles
<1>2. Past
  BY <1>1, ReplicationAssumption DEF Init, Past, Old
<1>3. QED
  BY <1>1, <1>2 DEF Init, NInv, Apart, Peaked, OneStream, Streams, Heads, FlowsPast

LEMMA Newness == Spec => []NInv
<1>1. QED
  BY NInvInit, NInvStep, Invariance, PTL DEF Spec

\* However many executions of a job overlap, are canceled, fail or are cut short,
\* the bookmark moves to the newest snapshot of its destination, and to no other.
THEOREM SettlesNewestAlways == Spec => []SettlesNewest
<1>1. IInv /\ NInv => SettlesNewest
  <2> SUFFICES ASSUME IInv, NInv, NEW e \in Execs, ex[e].pc \in {"unmark", "bookmark"},
                      ex[e].def \notin forced
               PROVE  ex[e].snap = Head(ex[e].def)
    BY DEF SettlesNewest
  <2>1. Newest(ex[e].def, ex[e].snap)
    BY DEF NInv, Heads, Settles
  <2>2. TypeOK /\ Peaked /\ ex[e].def \in Defs
    BY DEF IInv, NInv, TypeOK, Types, Exec
  <2>3. QED
    BY <2>1, <2>2, HeadIsNewest
<1>2. QED
  BY <1>1, Invariance, Newness, PTL

----------------------------------------------------------------------------
(* The next increment.                                                     *)
(*                                                                         *)
(* Rows and executions carry a bookmark; one that is the newest snapshot   *)
(* of its destination is what #ezrepl-last names.  An execution that       *)
(* settles moves #ezrepl-last, but then nobody carries the newest: it is   *)
(* that execution's own snapshot, which is apart.                          *)

Agrees(d, n) == n # 0 /\ Newest(d, n) => mark[SourceOf[d]] = n \/ d \in forced

RowAgrees == \A i \in Ids : row[i].live => Agrees(row[i].def, row[i].bookmark)
ExAgrees == \A e \in Execs : Agrees(ex[e].def, ex[e].bookmark)

\* The same of the next state, where d and n are of this one.
AgreesNext(d, n) ==
  n # 0 /\ n \in got'[d] /\ (\A m \in got'[d] : m <= n) => mark'[SourceOf[d]] = n \/ d \in forced'

\* What agrees goes on agreeing, whatever the bookmark and the streams do.
LEMMA AgreesKept ==
  ASSUME IInv, NInv, [Next]_vars, \A c, d \in Defs : SourceOf[c] = SourceOf[d] => c = d,
         NEW d \in Defs, NEW n \in Nat, Received(d, n), Agrees(d, n)
  PROVE  AgreesNext(d, n)
<1>t. /\ TypeOK /\ ex \in [Execs -> Exec] /\ mark \in [Sources -> Nat]
      /\ got \in [Defs -> SUBSET Nat] /\ flows \subseteq Flow
      /\ \A e \in Execs : ex[e].def \in Defs
  BY DEF IInv, TypeOK, Types, Exec, Seconds
<1>g. forced \subseteq forced'
  BY <1>t, Grows DEF IInv
<1>1. ASSUME got'[d] = got[d], mark'[SourceOf[d]] = mark[SourceOf[d]] PROVE AgreesNext(d, n)
  BY <1>1, <1>g DEF Agrees, AgreesNext, Newest
<1>2. ASSUME NEW e \in Execs, Unmark(e) \/ Bookmark(e) PROVE AgreesNext(d, n)
  <2>1. got' = got
    BY <1>2 DEF Unmark, Bookmark, dest
  <2>2. CASE ex[e].def # d
    <3>1. SourceOf[d] # Source(e)
      BY <1>t, <2>2 DEF Source
    <3>2. mark'[SourceOf[d]] = mark[SourceOf[d]]
      <4>1. Source(e) \in Sources /\ SourceOf[d] \in Sources
        BY <1>t, ReplicationAssumption DEF Source
      <4>2. QED
        BY <1>2, <1>t, <3>1, <4>1 DEF Unmark, Bookmark
    <3>3. QED
      BY <1>1, <2>1, <3>2
  <2>3. CASE ex[e].def = d /\ d \notin forced
    <3>1. Newest(d, ex[e].snap) /\ Unmarked(e)
      BY <1>2, <2>3 DEF Unmark, Bookmark, NInv, Heads, Settles, Unmarked
    <3>2. ~(n # 0 /\ Newest(d, n))
      <4>1. SUFFICES ASSUME n # 0, Newest(d, n) PROVE FALSE
        OBVIOUS
      <4>2. Head(d) = n /\ Head(d) = ex[e].snap
        BY <3>1, <4>1, <1>t, HeadIsNewest DEF NInv
      <4>3. mark[Source(e)] = n
        BY <2>3, <4>1 DEF Agrees, Source
      <4>4. QED
        BY <3>1, <4>2, <4>3 DEF NInv, Apart
    <3>3. QED
      BY <2>1, <3>2 DEF Agrees, AgreesNext, Newest
  <2>4. QED
    BY <2>2, <2>3, <1>g DEF Agrees, AgreesNext
<1>3. ASSUME NEW e \in Execs, DestroyDest(e) PROVE AgreesNext(d, n)
  <2>1. ex[e].def \in forced /\ mark' = mark
    BY <1>3 DEF DestroyDest, IInv, Allowed
  <2>2. d \in forced \/ got'[d] = got[d]
    BY <1>3, <1>t, <2>1 DEF DestroyDest, dest
  <2>3. QED
    BY <1>1, <1>g, <2>1, <2>2 DEF Agrees, AgreesNext
<1>4. ASSUME NEW f \in flows, FlowCommits(f) PROVE AgreesNext(d, n)
  <2>1. mark' = mark
    BY <1>4 DEF FlowCommits
  <2>2. CASE f.def # d
    BY <1>1, <1>4, <1>t, <2>1, <2>2 DEF FlowCommits
  <2>3. CASE f.def = d /\ d \notin forced
    <3>1. /\ f.snap \in got'[d] /\ f.snap \in Nat
          /\ \A m \in got[d] : m < f.snap
      BY <1>4, <1>t, <2>3 DEF FlowCommits, NInv, Streams, Flow, Seconds
    <3>2. ~(n # 0 /\ n \in got'[d] /\ \A m \in got'[d] : m <= n)
      BY <2>3, <3>1 DEF Received, Newest
    <3>3. QED
      BY <3>2 DEF Agrees, AgreesNext
  <2>4. QED
    BY <2>2, <2>3, <1>g DEF Agrees, AgreesNext
<1>5. CASE UNCHANGED <<mark, got>>
  BY <1>1, <1>5
<1>6. QED
  BY <1>2, <1>3, <1>4, <1>5
     DEF Next, Launch, RunNow, Check, Fetch, Run, Pipeline, Admin, Create, PatchEnabled,
         PatchForce, Delete, Admit, Snapshot, Start, Waited, Restart, Rewaited, Prune, Finish,
         FlowBegins, FlowBreaks, Cancel, Kill, Tick, Diverge, Crash, vars, zfs, dest

\* A bookmark is handed over at the launch, by the row, and made by Bookmark.
LEMMA Handed ==
  ASSUME IInv, NEW e \in Execs, [Next]_vars
  PROVE  \/ ex'[e].def = ex[e].def /\ ex'[e].bookmark = ex[e].bookmark
         \/ ex'[e].bookmark = 0
         \/ \E i \in Ids : /\ row[i].live /\ ex'[e].def = row[i].def
                           /\ ex'[e].bookmark = row[i].bookmark
         \/ /\ ex'[e].def = ex[e].def /\ ex'[e].bookmark = ex[e].snap
            /\ mark'[Source(e)] = ex[e].snap
<1>e. ex \in [Execs -> Exec] /\ Source(e) \in Sources /\ mark \in [Sources -> Nat]
  BY ReplicationAssumption DEF IInv, TypeOK, Types, Exec, Source
<1> DEFINE Kept == ex'[e].def = ex[e].def /\ ex'[e].bookmark = ex[e].bookmark
<1>1. ASSUME NEW o \in Execs, NEW i \in Ids, NEW tick \in BOOLEAN, row[i].live, Fetch(o, i, tick)
      PROVE  Kept \/ (ex'[e].def = row[i].def /\ ex'[e].bookmark = row[i].bookmark)
  BY <1>1, <1>e DEF Fetch, NoExec
<1>2. ASSUME NEW o \in Execs, Admit(o) \/ Finish(o) PROVE Kept \/ ex'[e].bookmark = 0
  BY <1>2, <1>e DEF Admit, Finish, NoExec, Exec
<1>3. ASSUME NEW o \in Execs, Bookmark(o)
      PROVE  \/ Kept
             \/ /\ ex'[e].def = ex[e].def /\ ex'[e].bookmark = ex[e].snap
                /\ mark'[Source(e)] = ex[e].snap
  BY <1>3, <1>e DEF Bookmark, Fail, Exec
<1>4. ASSUME NEW o \in Execs, \/ Snapshot(o) \/ Start(o) \/ Waited(o) \/ DestroyDest(o)
                              \/ Restart(o) \/ Rewaited(o) \/ Unmark(o) \/ Prune(o)
                              \/ FlowBegins(o) \/ Cancel(o) \/ Kill(o)
      PROVE  Kept
  <2>1. CASE Snapshot(o) \/ Start(o) \/ Waited(o) \/ Restart(o) \/ Rewaited(o)
    BY <2>1, <1>e DEF Snapshot, Start, Waited, Restart, Rewaited, Goto, Fail, Exec
  <2>2. CASE DestroyDest(o) \/ Unmark(o) \/ Prune(o)
    BY <2>2, <1>e DEF DestroyDest, Unmark, Prune, Goto, Fail, Exec
  <2>3. CASE FlowBegins(o) \/ Cancel(o) \/ Kill(o)
    BY <2>3, <1>e DEF FlowBegins, Cancel, Kill, Ended, Exec
  <2>4. QED
    BY <1>4, <2>1, <2>2, <2>3
<1>5. ASSUME NEW f \in flows, FlowCommits(f) \/ FlowBreaks(f) PROVE Kept
  BY <1>5, <1>e DEF FlowCommits, FlowBreaks, OwnerEnds, Ended, Exec
<1>6. CASE Crash
  BY <1>6 DEF Crash, NoExec
<1>7. CASE UNCHANGED ex
  BY <1>7
<1>8. QED
  BY <1>1, <1>2, <1>3, <1>4, <1>5, <1>6, <1>7
     DEF Next, Launch, RunNow, Check, Due, Run, Pipeline, Admin, Create, PatchEnabled,
         PatchForce, Delete, Tick, Diverge, vars, zfs

\* And it returns to the row at the end.
LEMMA Returned ==
  ASSUME IInv, ExReceived, NEW i \in Ids, [Next]_vars
  PROVE  \/ ~row'[i].live
         \/ row'[i].bookmark = 0
         \/ row[i].live /\ row'[i].def = row[i].def /\ row'[i].bookmark = row[i].bookmark
         \/ \E e \in Execs : row'[i].def = ex[e].def /\ row'[i].bookmark = ex[e].bookmark
<1>r. row \in [Ids -> Row] /\ ex \in [Execs -> Exec]
  BY DEF IInv, TypeOK, Types
<1> DEFINE Kept == /\ row'[i].live = row[i].live
                   /\ row'[i].def = row[i].def /\ row'[i].bookmark = row[i].bookmark
<1>1. ASSUME NEW d \in Defs, Create(d) PROVE Kept \/ row'[i].bookmark = 0
  <2>1. \A k \in Ids : k # NextId => row'[k] = row[k]
    BY <1>1, <1>r DEF Create
  <2>2. row'[NextId].bookmark = 0
    BY <1>1, <1>r, NoRowType DEF Create, NoRow, Row
  <2>3. QED
    BY <2>1, <2>2
<1>2. ASSUME NEW k \in Ids, PatchEnabled(k) \/ PatchForce(k) \/ Delete(k)
      PROVE  Kept \/ row'[i].bookmark = 0
  BY <1>2, <1>r DEF PatchEnabled, PatchForce, Delete, NoRow, Row
<1>3. ASSUME NEW e \in Execs, Finish(e)
      PROVE  Kept \/ (row'[i].def = ex[e].def /\ row'[i].bookmark = ex[e].bookmark)
  <2>1. ex[e].id \in Ids /\ row[ex[e].id].live /\ row[ex[e].id].def = ex[e].def
    BY <1>3, <1>r DEF Finish, ExReceived, Exec
  <2>2. QED
    BY <1>3, <1>r, <2>1 DEF Finish, Row
<1>4. CASE UNCHANGED row
  BY <1>4
<1>5. QED
  BY <1>1, <1>2, <1>3, <1>4
     DEF Next, Launch, RunNow, Check, Fetch, Run, Pipeline, Admin, Admit, Snapshot,
         Start, Waited, DestroyDest, Restart, Rewaited, Unmark, Bookmark, Prune, FlowBegins,
         FlowCommits, FlowBreaks, Cancel, Kill, Tick, Diverge, Crash, vars, zfs

\* As long as rows are not deleted (an id is used again) and a source is copied
\* to one destination (its bookmark has one name), a job whose row names the
\* newest snapshot of its destination can send its next increment: also after
\* executions that overlapped, were canceled, failed at any command, could not
\* write the row or were cut short by a restart.
THEOREM ResumableAlways ==
  ASSUME "delete" \notin Env, \A c, d \in Defs : SourceOf[c] = SourceOf[d] => c = d
  PROVE  Spec => []Resumable
<1> DEFINE J == IInv /\ NInv /\ RowReceived /\ ExReceived /\ RowAgrees /\ ExAgrees
<1>1. Init => J
  <2> SUFFICES ASSUME Init PROVE J
    OBVIOUS
  <2>1. IInv /\ NInv
    BY IInvInit, NInvInit
  <2>2. RowReceived /\ ExReceived /\ RowAgrees /\ ExAgrees
    BY DEF Init, NoRow, NoExec, RowReceived, ExReceived, Received, RowAgrees, ExAgrees, Agrees
  <2>3. QED
    BY <2>1, <2>2
<1>2. J /\ [Next]_vars => J'
  <2> SUFFICES ASSUME J, [Next]_vars PROVE J'
    OBVIOUS
  <2>1. IInv' /\ NInv' /\ RowReceived' /\ ExReceived'
    BY IInvStep, NInvStep, RowReceivedStep, ExReceivedStep
  <2>t. /\ \A i \in Ids : row[i].def \in Defs /\ row[i].bookmark \in Nat
        /\ \A e \in Execs : ex[e].def \in Defs /\ ex[e].bookmark \in Nat
    BY DEF IInv, TypeOK, Types, Row, Exec
  <2>2. \A i \in Ids : row[i].live => AgreesNext(row[i].def, row[i].bookmark)
    BY <2>t, AgreesKept DEF RowReceived, RowAgrees
  <2>3. \A e \in Execs : AgreesNext(ex[e].def, ex[e].bookmark)
    BY <2>t, AgreesKept DEF ExReceived, ExAgrees
  <2>4. RowAgrees'
    <3>1. ASSUME NEW i \in Ids, row'[i].live PROVE AgreesNext(row'[i].def, row'[i].bookmark)
      <4>1. CASE row'[i].bookmark = 0
        BY <4>1 DEF AgreesNext
      <4>2. CASE row[i].live /\ row'[i].def = row[i].def /\ row'[i].bookmark = row[i].bookmark
        BY <4>2, <2>2
      <4>3. CASE \E e \in Execs : row'[i].def = ex[e].def /\ row'[i].bookmark = ex[e].bookmark
        BY <4>3, <2>3
      <4>4. QED
        BY <3>1, <4>1, <4>2, <4>3, Returned
    <3>2. QED
      BY <3>1 DEF RowAgrees, Agrees, AgreesNext, Newest
  <2>5. ExAgrees'
    <3>1. ASSUME NEW e \in Execs PROVE AgreesNext(ex'[e].def, ex'[e].bookmark)
      <4>1. CASE ex'[e].def = ex[e].def /\ ex'[e].bookmark = ex[e].bookmark
        BY <4>1, <2>3
      <4>2. CASE ex'[e].bookmark = 0
        BY <4>2 DEF AgreesNext
      <4>3. CASE \E i \in Ids : /\ row[i].live /\ ex'[e].def = row[i].def
                                /\ ex'[e].bookmark = row[i].bookmark
        BY <4>3, <2>2
      <4>4. CASE /\ ex'[e].def = ex[e].def /\ ex'[e].bookmark = ex[e].snap
                 /\ mark'[Source(e)] = ex[e].snap
        BY <4>4 DEF AgreesNext, Source
      <4>5. QED
        BY <4>1, <4>2, <4>3, <4>4, Handed
    <3>2. QED
      BY <3>1 DEF ExAgrees, Agrees, AgreesNext, Newest
  <2>6. QED
    BY <2>1, <2>4, <2>5
<1>3. J => Resumable
  <2> SUFFICES ASSUME J, NEW i \in Ids, row[i].live, row[i].bookmark # 0,
                      row[i].bookmark = Head(row[i].def)
               PROVE  mark[SourceOf[row[i].def]] = row[i].bookmark \/ row[i].def \in forced
    BY DEF Resumable
  <2>1. row[i].def \in Defs /\ TypeOK /\ Peaked
    BY DEF IInv, NInv, TypeOK, Types, Row
  <2>2. Newest(row[i].def, row[i].bookmark)
    BY <2>1, HeadIsNewest
  <2>3. QED
    BY <2>2 DEF RowAgrees, Agrees
<1> HIDE DEF J
<1>4. QED
  BY <1>1, <1>2, <1>3, PTL DEF Spec
============================================================================
