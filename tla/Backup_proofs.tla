--------------------------- MODULE Backup_proofs ---------------------------
(***************************************************************************)
(* Proofs about Backup for all sets of callers and databases, and every    *)
(* environment.                                                            *)
(*                                                                         *)
(* An import renames twice, and any step of it may be the last of the      *)
(* daemon.  IInv says where the database is at each of its steps.  Imports *)
(* overlap as they please: what it says of the saved database needs that   *)
(* no two were accepted at once, because the second removes what the first *)
(* has saved; what it says of app.db, that none truncated what another had *)
(* verified.  Each part names the one of the two that it needs.            *)
(***************************************************************************)
EXTENDS Backup, TLAPS

Under(i) == imp[i].pc \notin {"new", "done"}
Installing(i) == imp[i].pc = "install"

\* An import is under way only while the daemon runs.
UpForImports == \A i \in Imports : Under(i) => up

\* If no two were accepted at once, one at most is to install app.db.import.
Alone == crossed \/ \A i, j \in Imports : Pending(i) /\ Pending(j) => i = j

\* It is not half a file, unless it was overwritten.
Verified == overwritten \/ \A i \in Imports : Pending(i) => tmp # Partial

\* While an import installs, the database is the saved one; else, while the
\* daemon runs, it is app.db.
Saved  == crossed \/ \A i \in Imports : Installing(i) => main = Absent /\ pre = served
InMain == crossed \/ ~up \/ main = served \/ \E i \in Imports : Installing(i)

\* A daemon that runs has no half file to save.
Wholes == pre # Partial /\ (up => main # Partial)

\* The parts that are about the import.
ImportInv == Alone /\ Verified /\ Saved /\ InMain /\ Wholes /\ DataKept /\ MainWhole

IInv == TypeOK /\ UpForImports /\ ImportInv

RunOK  == run \in [Runners -> Run]
ConnOK == conn \in Runners \cup {Nobody} /\ (conn # Nobody => run[conn].pc = "writing")

LEMMA TypeInit == Init => TypeOK
<1> SUFFICES ASSUME Init PROVE TypeOK
  OBVIOUS
<1>1. NoRun \in Run
  BY BackupAssumption DEF NoRun, Run, Times
<1>2. run \in [Runners -> Run] /\ imp \in [Imports -> Imp]
  BY <1>1 DEF Init, Imp
<1>3. tmp \in Content
  BY DEF Init, Content
<1>4. main \in Content /\ pre \in Content /\ served \in Whole
  BY DEF Init, Content, Whole
<1>5. clock \in Times /\ stops \in 0..MaxStops
  BY BackupAssumption DEF Init, Times
<1>6. QED
  BY <1>2, <1>3, <1>4, <1>5 DEF Init, TypeOK

\* The end of the daemon, by an import or not.
LEMMA EndType ==
  ASSUME TypeOK,
         imp' = [j \in Imports |-> IF imp[j].pc = "new" THEN imp[j] ELSE Over],
         run' = [w \in Runners |-> NoRun]
  PROVE  imp' \in [Imports -> Imp] /\ run' \in [Runners -> Run]
<1>1. NoRun \in Run
  BY BackupAssumption DEF NoRun, Run, Times
<1>2. \A j \in Imports : imp[j] \in Imp
  BY DEF TypeOK
<1>3. Over \in Imp
  BY DEF Imp, Over
<1>4. QED
  BY <1>1, <1>2, <1>3

\* A step of a run keeps the type of the runs, of the files and of the
\* connection.
LEMMA RunType ==
  ASSUME TypeOK, NEW w \in Runners, Call(w) \/ RunStep(w)
  PROVE  TypeOK'
<1>r. RunOK /\ clock \in Times /\ files \in SUBSET File /\ ConnOK
  BY DEF TypeOK, RunOK, ConnOK
<1>w. run[w] \in Run
  BY <1>r DEF RunOK
<1>n. NoRun \in Run
  BY BackupAssumption DEF NoRun, Run, Times
<1>u. UNCHANGED <<world, daemon, disk, past, imp>>
  BY DEF Call, RunStep, Ask, Claim, Vacuum, VacuumEnd, Stat, Purge
<1>0. SUFFICES RunOK' /\ ConnOK' /\ files' \in SUBSET File /\ running' \in BOOLEAN
  BY <1>u DEF TypeOK, RunOK, ConnOK, world, daemon, disk, past, Times
<1> DEFINE New(r) == r \in Run /\ run' = [run EXCEPT ![w] = r]
<1>N. ASSUME NEW r, New(r) PROVE RunOK'
  BY <1>N, <1>r DEF RunOK
<1>C. ASSUME run[w].pc # "writing", conn' = conn, NEW r, New(r) PROVE ConnOK'
  BY <1>C, <1>r DEF RunOK, ConnOK
<1>F. Named(run[w].name) \subseteq files /\ \A n : files \ Named(n) \in SUBSET File
  BY <1>r DEF Named
<1>1. CASE Call(w)
  <2>1. New([run[w] EXCEPT !.pc = "ask"])
    BY <1>1, <1>r, <1>w DEF Call, Run, RunOK
  <2>2. QED
    BY <1>1, <2>1, <1>N, <1>C, <1>r DEF Call, TypeOK
<1>2. CASE Ask(w)
  <2>1. New([run[w] EXCEPT !.pc = IF running THEN "idle" ELSE "claim"])
    BY <1>2, <1>r, <1>w DEF Ask, Run, RunOK
  <2>2. QED
    BY <1>2, <2>1, <1>N, <1>C, <1>r DEF Ask, TypeOK
<1>3. CASE Claim(w)
  <2>1. New([run[w] EXCEPT !.pc = "vacuum", !.name = clock])
    BY <1>3, <1>r, <1>w DEF Claim, Run, RunOK
  <2>2. QED
    BY <1>3, <2>1, <1>N, <1>C, <1>r DEF Claim
<1>4. CASE Vacuum(w)
  <2>1. CASE closed \/ Named(run[w].name) # {}
    <3>1. New(NoRun) /\ running' = FALSE /\ conn' = conn
          /\ files' = files \ Named(run[w].name)
      BY <1>4, <2>1, <1>n DEF Vacuum, Fail, Return
    <3>2. QED
      BY <1>4, <3>1, <1>N, <1>C, <1>F DEF Vacuum
  <2>2. CASE ~(closed \/ Named(run[w].name) # {})
    <3> DEFINE f == [name |-> run[w].name, ts |-> clock, whole |-> FALSE]
    <3>1. New([run[w] EXCEPT !.pc = "writing"]) /\ conn' = w /\ running' = running
          /\ files' = files \cup {f}
      BY <1>4, <2>2, <1>r, <1>w DEF Vacuum, Run, RunOK
    <3>2. f \in File
      BY <1>r, <1>w DEF Run, File
    <3>3. run'[w].pc = "writing"
      BY <3>1, <1>r, <1>w DEF RunOK, Run
    <3>4. ConnOK'
      BY <3>1, <3>3 DEF ConnOK
    <3>5. QED
      BY <3>1, <3>2, <3>4, <1>N, <1>r DEF TypeOK
  <2>3. QED
    BY <2>1, <2>2
<1>5. CASE VacuumEnd(w)
  <2>0. ConnOK'
    BY <1>5 DEF VacuumEnd, ConnOK
  <2>1. CASE Written(w)
    <3>1. New([run[w] EXCEPT !.pc = "written"]) /\ running' = running
      BY <2>1, <1>r, <1>w DEF Written, Run, RunOK
    <3>2. \A f \in Named(run[w].name) : [f EXCEPT !.ts = clock, !.whole = TRUE] \in File
      BY <1>F, <1>r DEF File
    <3>3. files' \in SUBSET File
      BY <2>1, <3>2, <1>r DEF Written
    <3>4. QED
      BY <2>0, <3>1, <3>3, <1>N DEF TypeOK
  <2>2. CASE Fail(w)
    <3>1. New(NoRun) /\ running' = FALSE /\ files' = files \ Named(run[w].name)
      BY <2>2, <1>n DEF Fail, Return
    <3>2. QED
      BY <2>0, <3>1, <1>N, <1>F
  <2>3. QED
    BY <1>5, <2>1, <2>2 DEF VacuumEnd
<1>6. CASE Stat(w)
  <2>1. CASE Named(run[w].name) = {}
    <3>1. New(NoRun) /\ running' = FALSE
      BY <1>6, <2>1, <1>n DEF Stat, Return
    <3>2. QED
      BY <1>6, <3>1, <1>N, <1>C, <1>r DEF Stat
  <2>2. CASE Named(run[w].name) # {}
    <3>1. PICK days \in Days :
            run' = [run EXCEPT ![w].pc = "purge", ![w].todo = {f.name : f \in Older(days)}]
      BY <1>6, <2>2 DEF Stat
    <3>2. {f.name : f \in Older(days)} \in SUBSET Times
      BY <1>r DEF Older, File
    <3>3. New([run[w] EXCEPT !.pc = "purge", !.todo = {f.name : f \in Older(days)}])
      BY <3>1, <3>2, <1>r, <1>w DEF Run, RunOK
    <3>4. QED
      BY <1>6, <2>2, <3>3, <1>N, <1>C, <1>r DEF Stat, TypeOK
  <2>3. QED
    BY <2>1, <2>2
<1>7. CASE Purge(w)
  <2>1. CASE Return(w) /\ UNCHANGED files
    <3>1. New(NoRun) /\ running' = FALSE
      BY <2>1, <1>n DEF Return
    <3>2. QED
      BY <1>7, <2>1, <3>1, <1>N, <1>C, <1>r DEF Purge
  <2>2. ASSUME NEW n \in run[w].todo,
               files' = files \ Named(n),
               run' = [run EXCEPT ![w].todo = IF Named(n) = {} THEN {} ELSE @ \ {n}],
               UNCHANGED running
        PROVE  RunOK' /\ ConnOK' /\ files' \in SUBSET File /\ running' \in BOOLEAN
    <3>1. New([run[w] EXCEPT !.todo = IF Named(n) = {} THEN {} ELSE run[w].todo \ {n}])
      BY <2>2, <1>r, <1>w DEF Run, RunOK
    <3>2. QED
      BY <1>7, <2>2, <3>1, <1>N, <1>C, <1>F DEF Purge, TypeOK
  <2>3. QED
    BY <1>7, <2>1, <2>2 DEF Purge
<1>8. QED
  BY <1>1, <1>2, <1>3, <1>4, <1>5, <1>6, <1>7 DEF RunStep

\* The end of the daemon with app.db, app.db.pre-import and app.db.import of
\* the right type.
LEMMA ExitType ==
  ASSUME TypeOK, Exit, main' \in Content, pre' \in Content, tmp' \in Content
  PROVE  TypeOK'
<1>1. imp' \in [Imports -> Imp] /\ run' \in [Runners -> Run]
  BY EndType DEF Exit
<1>2. QED
  BY <1>1 DEF Exit, TypeOK, world, past, Times

\* A step of an import that changes nothing but its place and app.db.import.
LEMMA GotoType ==
  ASSUME TypeOK, NEW i \in Imports, NEW pc, Goto(i, pc),
         pc \in {"accepted", "remove", "save", "install"}
  PROVE  /\ imp' \in [Imports -> Imp] /\ imp'[i].pc = pc
         /\ \A j \in Imports : j # i => imp'[j] = imp[j]
<1>1. imp[i] \in Imp /\ imp \in [Imports -> Imp]
  BY DEF TypeOK
<1>2. imp' = [imp EXCEPT ![i] = [imp[i] EXCEPT !.pc = pc]]
  BY <1>1 DEF Goto
<1>3. [imp[i] EXCEPT !.pc = pc] \in Imp
  BY <1>1 DEF Imp
<1>4. QED
  BY <1>1, <1>2, <1>3 DEF Imp

\* What a step changes when it leaves the copies and the world alone.
LEMMA ImportType ==
  ASSUME TypeOK, NEW i \in Imports,
         ImportStep(i) \/ \E data \in Uploads \cup {Partial} : Upload(i, data)
  PROVE  TypeOK'
<1> USE DEF Times
<1>0. /\ imp \in [Imports -> Imp] /\ main \in Content /\ pre \in Content
      /\ tmp \in Content /\ Partial \in Content /\ Absent \in Content
      /\ overwritten \in BOOLEAN /\ crossed \in BOOLEAN
  BY DEF TypeOK, Content
<1>i. \A j \in Imports : imp[j] \in Imp
  BY <1>0
<1>d. imp[i].data \in Content
  BY <1>i DEF Imp, Content, Whole
<1>s. ASSUME Same, imp' \in [Imports -> Imp], tmp' \in Content,
             overwritten' \in BOOLEAN, crossed' \in BOOLEAN
      PROVE  TypeOK'
  BY <1>s DEF Same, TypeOK, world, daemon, copies
<1>1. ASSUME NEW data \in Uploads \cup {Partial}, Upload(i, data) PROVE TypeOK'
  <2>1. /\ [pc |-> "copy", data |-> data] \in Imp /\ [pc |-> "mixed", data |-> data] \in Imp
        /\ \A j \in Imports : [imp[j] EXCEPT !.pc = "mixed"] \in Imp
    BY <1>1, <1>i DEF Imp
  <2>2. imp' \in [Imports -> Imp]
    BY <1>1, <2>1, <1>i DEF Upload
  <2>3. QED
    BY <1>1, <2>2, <1>0, <1>s DEF Upload, Overwrite
<1>2. CASE CopyEnd(i)
  <2>1. [pc |-> "check", data |-> Partial] \in Imp
    BY DEF Imp
  <2>2. imp' \in [Imports -> Imp]
    BY <1>2, <2>1, <1>0 DEF CopyEnd
  <2>3. tmp' \in Content
    BY <1>2, <1>0, <1>d DEF CopyEnd
  <2>4. QED
    BY <1>2, <2>2, <2>3, <1>0, <1>s DEF CopyEnd, Overwrite
<1>D. ASSUME Discard(i) PROVE TypeOK'
  <2>1. Over \in Imp /\ \A j \in Imports : [imp[j] EXCEPT !.pc = "unlinked"] \in Imp
    BY <1>i DEF Imp, Over
  <2>2. imp' \in [Imports -> Imp]
    BY <1>D, <2>1, <1>i DEF Discard
  <2>3. QED
    BY <1>D, <2>2, <1>0, <1>s DEF Discard, past
<1>3. CASE CopyFails(i)
  BY <1>3, <1>D DEF CopyFails
<1>4. CASE Check(i)
  <2>1. CASE Accept(i)
    BY <2>1, GotoType, <1>0, <1>s DEF Accept
  <2>2. QED
    BY <1>4, <2>1, <1>D DEF Check
<1>5. CASE Close(i)
  <2>1. imp' \in [Imports -> Imp]
    BY <1>5, GotoType DEF Close
  <2>2. QED
    BY <1>5, <2>1 DEF Close, TypeOK, world, disk, past, copies
<1>6. CASE RemovePre(i)
  <2>1. imp' \in [Imports -> Imp]
    BY <1>6, GotoType DEF RemovePre
  <2>2. QED
    BY <1>6, <2>1, <1>0 DEF RemovePre, TypeOK, world, daemon, past, copies
<1>7. CASE SavePre(i)
  <2>1. CASE /\ pre' = main /\ main' = Absent
             /\ Goto(i, "install")
             /\ UNCHANGED <<world, daemon, tmp, served, past, copies>>
    <3>1. imp' \in [Imports -> Imp]
      BY <2>1, GotoType
    <3>2. QED
      BY <2>1, <3>1, <1>0 DEF TypeOK, world, daemon, past, copies
  <2>2. CASE Exit /\ UNCHANGED <<main, pre, tmp>>
    BY <2>2, <1>0, ExitType
  <2>3. QED
    BY <1>7, <2>1, <2>2 DEF SavePre
<1>8. CASE Install(i)
  BY <1>8, <1>0, ExitType DEF Install
<1>9. QED
  BY <1>1, <1>2, <1>3, <1>4, <1>5, <1>6, <1>7, <1>8 DEF ImportStep

LEMMA TypeStep == TypeOK /\ [Next]_vars => TypeOK'
<1> SUFFICES ASSUME TypeOK, [Next]_vars PROVE TypeOK'
  OBVIOUS
<1>1. ASSUME NEW w \in Runners, Call(w) \/ RunStep(w) PROVE TypeOK'
  BY <1>1, RunType
<1>2. ASSUME NEW i \in Imports,
             ImportStep(i) \/ \E data \in Uploads \cup {Partial} : Upload(i, data)
      PROVE  TypeOK'
  BY <1>2, ImportType
<1>3. CASE Stop
  <2>1. imp' \in [Imports -> Imp] /\ run' \in [Runners -> Run]
    BY <1>3, EndType DEF Stop
  <2>2. stops' \in 0..MaxStops
    BY <1>3, BackupAssumption DEF Stop, TypeOK
  <2>3. QED
    BY <1>3, <2>1, <2>2 DEF Stop, TypeOK, disk, past, Times
<1>4. CASE Start
  <2>1. main' \in Whole /\ main' \in Content
    BY <1>4 DEF Start, TypeOK, Content, Whole
  <2>2. QED
    BY <1>4, <2>1 DEF Start, TypeOK, world, copies, Times
<1>5. CASE Tick
  BY <1>5, BackupAssumption DEF Tick, TypeOK, daemon, disk, past, copies, Times
<1>6. CASE SetEnabled
  BY <1>6 DEF SetEnabled, TypeOK, daemon, disk, past, copies, Times
<1>7. CASE UNCHANGED vars
  BY <1>7 DEF TypeOK, vars, world, daemon, disk, past, copies, Times
<1>8. QED
  BY <1>1, <1>2, <1>3, <1>4, <1>5, <1>6, <1>7 DEF Next

(* Every reachable state has its type, and only a run that writes has the  *)
(* connection of the database.                                             *)
THEOREM TypeCorrect == Spec => []TypeOK
<1>1. QED
  BY TypeInit, TypeStep, PTL DEF Spec

LEMMA UpStep ==
  ASSUME TypeOK, UpForImports, [Next]_vars
  PROVE  UpForImports'
<1>t. imp \in [Imports -> Imp]
  BY DEF TypeOK
<1>1. ASSUME NEW i \in Imports,
             ImportStep(i) \/ \E data \in Uploads \cup {Partial} : Upload(i, data), ~Exit
      PROVE  UpForImports'
  <2>1. up
    BY <1>1 DEF ImportStep, CopyEnd, CopyFails, Check, Accept, Writing, Close, RemovePre, SavePre, Install, Upload,
       UpForImports, Under
  <2>2. up' = up
    BY <1>1 DEF ImportStep, CopyEnd, CopyFails, Check, Accept, Writing, Discard, Close, RemovePre, SavePre, Install,
       Upload, Same, daemon
  <2> QED BY <2>1, <2>2 DEF UpForImports
<1>2. CASE Exit \/ Stop
  BY <1>t, <1>2 DEF Exit, Stop, Imp, UpForImports, Under, Over
<1>3. CASE Start
  BY <1>3 DEF Start, UpForImports
<1>4. ASSUME UNCHANGED <<up, imp>> PROVE UpForImports'
  BY <1>4 DEF UpForImports, Under
<1>5. ASSUME NEW w \in Runners, Call(w) \/ RunStep(w) PROVE UpForImports'
  BY <1>4, <1>5 DEF Call, RunStep, Ask, Claim, Vacuum, VacuumEnd, Stat, Purge, daemon
<1>6. CASE Tick \/ SetEnabled \/ UNCHANGED vars
  BY <1>4, <1>6 DEF Tick, SetEnabled, vars, daemon
<1> QED BY <1>1, <1>2, <1>3, <1>5, <1>6 DEF Next

LEMMA InvInit == Init => IInv
<1>1. Init => UpForImports /\ Alone /\ Verified /\ Saved /\ InMain /\ DataKept
  BY DEF Init, UpForImports, Alone, Verified, Saved, InMain, DataKept, Under, Pending, Installing
<1>2. Init => Wholes /\ MainWhole
  BY BackupAssumption DEF Init, Wholes, MainWhole, Whole
<1>3. QED
  BY <1>1, <1>2, TypeInit DEF IInv, ImportInv

\* A step that is not of the import keeps them.
LEMMA InvSame ==
  ASSUME IInv, UNCHANGED <<up, disk, past, imp>>
  PROVE  ImportInv'
BY DEF IInv, ImportInv, Alone, Verified, Saved, InMain, Wholes, DataKept, MainWhole, Pending,
       Installing, disk, past

\* When the daemon ends, nothing is under way.
LEMMA InvEnd ==
  ASSUME IInv, up' = FALSE, UNCHANGED past, DataKept', MainWhole', pre' # Partial,
         imp' = [j \in Imports |-> IF imp[j].pc = "new" THEN imp[j] ELSE Over]
  PROVE  ImportInv'
<1>1. \A j \in Imports : imp'[j].pc \in {"new", "done"}
  BY DEF Over
<1>2. QED
  BY <1>1 DEF ImportInv, Alone, Verified, Saved, InMain, Wholes, Pending, Installing

\* Steps before an import is accepted: no more of them install than before.
LEMMA InvBefore ==
  ASSUME IInv, UNCHANGED <<up, main, pre, served, crossed>>,
         \A j \in Imports : Pending(j)' = Pending(j) /\ Installing(j)' = Installing(j),
         \/ overwritten'
         \/ ~overwritten' /\ ~overwritten
            /\ \A j \in Imports : Pending(j) => tmp' # Partial
  PROVE  ImportInv'
<1>1. Alone' /\ Saved' /\ InMain'
  BY DEF IInv, ImportInv, Alone, Saved, InMain
<1>2. Verified'
  BY DEF Verified
<1>3. Wholes' /\ DataKept' /\ MainWhole'
  BY DEF IInv, ImportInv, Wholes, DataKept, MainWhole
<1>4. QED
  BY <1>1, <1>2, <1>3 DEF ImportInv

\* An import that is to install is the only one, if no two crossed, and the
\* database is app.db until it does.
LEMMA StillInMain ==
  ASSUME IInv, NEW i \in Imports, Pending(i), ~Installing(i), ~crossed
  PROVE  main = served /\ \A j \in Imports : j # i => ~Pending(j)
<1>1. up
  BY DEF IInv, UpForImports, Under, Pending
<1>2. \A j \in Imports : j # i => ~Pending(j)
  BY DEF IInv, ImportInv, Alone
<1>3. QED
  BY <1>1, <1>2 DEF IInv, ImportInv, InMain, Installing, Pending

\* Every step of an import keeps the parts.
LEMMA InvImport ==
  ASSUME IInv, NEW i \in Imports,
         ImportStep(i) \/ \E data \in Uploads \cup {Partial} : Upload(i, data)
  PROVE  ImportInv'
<1>0. /\ imp \in [Imports -> Imp] /\ imp[i] \in Imp /\ Partial \notin Whole
      /\ Absent # Partial /\ overwritten \in BOOLEAN /\ crossed \in BOOLEAN
  BY BackupAssumption DEF IInv, TypeOK
<1>u. Under(i) => up
  BY DEF IInv, UpForImports
<1>t. TypeOK
  BY DEF IInv
<1>1. ASSUME NEW data \in Uploads \cup {Partial}, Upload(i, data) PROVE ImportInv'
  <2>1. \A j \in Imports : Pending(j)' = Pending(j) /\ Installing(j)' = Installing(j)
    BY <1>1, <1>0 DEF Upload, Pending, Installing, Writing, Imp
  <2>2. QED
    BY <1>1, <2>1, <1>0, InvBefore DEF Upload, Same, daemon, Overwrite, SomePending
<1>2. CASE CopyEnd(i)
  <2>1. \A j \in Imports : Pending(j)' = Pending(j) /\ Installing(j)' = Installing(j)
    BY <1>2, <1>0 DEF CopyEnd, Pending, Installing, Writing, Imp
  <2>2. Writing(i) \/ tmp' = tmp
    BY <1>2 DEF CopyEnd
  <2>3. overwritten \/ \A j \in Imports : Pending(j) => tmp # Partial
    BY DEF IInv, ImportInv, Verified
  <2>4. QED
    BY <1>2, <2>1, <2>2, <2>3, <1>0, InvBefore DEF CopyEnd, Same, daemon, Overwrite, SomePending
<1>D. ASSUME Discard(i), ~Pending(i) PROVE ImportInv'
  <2>1. \A j \in Imports : Pending(j)' = Pending(j) /\ Installing(j)' = Installing(j)
    BY <1>D, <1>0 DEF Discard, Pending, Installing, Writing, Imp, Over
  <2>2. QED
    BY <1>D, <2>1, <1>0, InvBefore DEF Discard, Same, daemon, past
<1>3. CASE CopyFails(i)
  BY <1>3, <1>D DEF CopyFails, Pending, Writing
<1>4. CASE Check(i)
  <2>1. CASE tmp \in Whole /\ Accept(i)
    <3>1. imp'[i].pc = "accepted" /\ \A j \in Imports : j # i => imp'[j] = imp[j]
      BY <2>1, <1>t, GotoType DEF Accept
    <3>2. /\ UNCHANGED <<up, main, pre, served, tmp, overwritten>> /\ tmp # Partial
          /\ crossed' = (crossed \/ SomePending)
      BY <2>1, <1>0 DEF Accept, Same, daemon
    <3>3. \A j \in Imports : Installing(j)' = Installing(j)
      BY <1>4, <3>1 DEF Check, Installing
    <3>4. Alone'
      BY <3>1, <3>2 DEF Alone, SomePending, Pending
    <3>5. Verified' /\ Wholes' /\ DataKept' /\ MainWhole'
      BY <3>2 DEF IInv, ImportInv, Verified, Wholes, DataKept, MainWhole
    <3>6. Saved' /\ InMain'
      BY <3>2, <3>3 DEF IInv, ImportInv, Saved, InMain
    <3>7. QED
      BY <3>4, <3>5, <3>6 DEF ImportInv
  <2>2. QED
    BY <1>4, <2>1, <1>D DEF Check, Pending
<1>5. CASE Close(i)
  <2>1. imp'[i].pc = "remove" /\ \A j \in Imports : j # i => imp'[j] = imp[j]
    BY <1>5, <1>t, GotoType DEF Close
  <2>2. \A j \in Imports : Pending(j)' = Pending(j) /\ Installing(j)' = Installing(j)
    BY <1>5, <2>1 DEF Close, Pending, Installing
  <2>3. UNCHANGED <<up, main, pre, served, tmp, overwritten, crossed>>
    BY <1>5 DEF Close, disk, past
  <2>4. overwritten \/ \A j \in Imports : Pending(j) => tmp # Partial
    BY DEF IInv, ImportInv, Verified
  <2>5. QED
    BY <2>2, <2>3, <2>4, <1>0, InvBefore
<1>6. CASE RemovePre(i)
  <2>1. imp'[i].pc = "save" /\ \A j \in Imports : j # i => imp'[j] = imp[j]
    BY <1>6, <1>t, GotoType DEF RemovePre
  <2>2. /\ UNCHANGED <<up, main, served, tmp, overwritten, crossed>> /\ pre' = Absent
    BY <1>6 DEF RemovePre, daemon, past
  <2>3. \A j \in Imports : Pending(j)' = Pending(j) /\ Installing(j)' = Installing(j)
    BY <1>6, <2>1 DEF RemovePre, Pending, Installing
  <2>4. ~crossed => main = served /\ \A j \in Imports : ~Installing(j)
    BY <1>6, StillInMain DEF RemovePre, Pending, Installing
  <2>5. Alone' /\ Verified' /\ MainWhole' /\ Wholes'
    BY <2>2, <2>3, <1>0 DEF IInv, ImportInv, Alone, Verified, MainWhole, Wholes
  <2>6. Saved' /\ InMain' /\ DataKept'
    BY <2>2, <2>3, <2>4 DEF Saved, InMain, DataKept
  <2>7. QED
    BY <2>5, <2>6 DEF ImportInv
<1>7. CASE SavePre(i)
  <2>0. Pending(i) /\ ~Installing(i) /\ up
    BY <1>7, <1>u DEF SavePre, Pending, Installing, Under
  <2>1. CASE /\ pre' = main /\ main' = Absent
             /\ Goto(i, "install")
             /\ UNCHANGED <<world, daemon, tmp, served, past, copies>>
    <3>1. imp'[i].pc = "install" /\ \A j \in Imports : j # i => imp'[j] = imp[j]
      BY <2>1, <1>t, GotoType
    <3>2. UNCHANGED <<up, tmp, served, overwritten, crossed>>
      BY <2>1 DEF daemon, past
    <3>3. \A j \in Imports : Pending(j)' = Pending(j)
      BY <2>0, <3>1 DEF Pending
    <3>4. ~crossed => main = served
      BY <2>0, StillInMain
    <3>5. Installing(i)'
      BY <3>1 DEF Installing
    <3>6. Alone' /\ Verified'
      BY <3>2, <3>3 DEF IInv, ImportInv, Alone, Verified
    <3>7. Saved' /\ InMain' /\ DataKept'
      BY <2>1, <3>2, <3>4, <3>5 DEF Saved, InMain, DataKept
    <3>8. Wholes' /\ MainWhole'
      BY <2>0, <2>1, <1>0 DEF IInv, ImportInv, Wholes, MainWhole
    <3>9. QED
      BY <3>6, <3>7, <3>8 DEF ImportInv
  <2>2. CASE Exit /\ UNCHANGED <<main, pre, tmp>>
    <3>1. DataKept' /\ MainWhole' /\ pre' # Partial /\ UNCHANGED past
      BY <2>2 DEF Exit, IInv, ImportInv, DataKept, MainWhole, Wholes, past
    <3>2. QED
      BY <2>2, <3>1, InvEnd DEF Exit
  <2>3. QED
    BY <1>7, <2>1, <2>2 DEF SavePre
<1>8. CASE Install(i)
  <2>1. Pending(i) /\ (crossed \/ (main = Absent /\ pre = served)) /\ up
        /\ (overwritten \/ tmp # Partial) /\ pre # Partial /\ main # Partial
    BY <1>8, <1>u DEF Install, IInv, ImportInv, Saved, Installing, Verified, Wholes, Pending, Under
  <2>2. UNCHANGED <<served, past>> /\ Exit
    BY <1>8 DEF Install, Exit
  <2>3. \/ main' = tmp /\ pre' = pre
        \/ main' = pre /\ pre' = Absent
        \/ main' = main /\ pre' = pre
    BY <1>8 DEF Install
  <2>4. DataKept' /\ MainWhole' /\ pre' # Partial
    BY <2>1, <2>2, <2>3, <1>0 DEF DataKept, MainWhole, past
  <2>5. QED
    BY <2>2, <2>4, InvEnd DEF Exit
<1>9. QED
  BY <1>1, <1>2, <1>3, <1>4, <1>5, <1>6, <1>7, <1>8 DEF ImportStep

LEMMA InvStep == IInv /\ [Next]_vars => IInv'
<1> SUFFICES ASSUME IInv, [Next]_vars PROVE IInv'
  OBVIOUS
<1>0. TypeOK' /\ UpForImports'
  BY TypeStep, UpStep DEF IInv
<1> SUFFICES ImportInv'
  BY <1>0 DEF IInv
<1>1. ASSUME NEW w \in Runners, Call(w) \/ RunStep(w) PROVE ImportInv'
  <2>1. UNCHANGED <<daemon, disk, past, imp>>
    BY <1>1 DEF Call, RunStep, Ask, Claim, Vacuum, VacuumEnd, Stat, Purge
  <2>2. QED
    BY <2>1, InvSame DEF daemon
<1>2. ASSUME NEW i \in Imports,
             ImportStep(i) \/ \E data \in Uploads \cup {Partial} : Upload(i, data)
      PROVE  ImportInv'
  BY <1>2, InvImport
<1>3. CASE Stop
  <2>1. DataKept' /\ MainWhole' /\ pre' # Partial /\ UNCHANGED past
    BY <1>3 DEF Stop, disk, past, IInv, ImportInv, DataKept, MainWhole, Wholes
  <2>2. QED
    BY <1>3, <2>1, InvEnd DEF Stop
<1>4. CASE Start
  <2>1. \A j \in Imports : ~Under(j)
    BY <1>4 DEF Start, IInv, UpForImports
  <2>2. main' \in Whole
    BY <1>4 DEF Start, IInv, TypeOK, Content, Whole
  <2>3. main' # Partial /\ pre' # Partial /\ served' = main' /\ imp' = imp
    BY <1>4, <2>2, BackupAssumption DEF Start, IInv, ImportInv, Wholes
  <2>4. \A j \in Imports : ~Pending(j)' /\ ~Installing(j)'
    BY <2>1, <2>3 DEF Under, Pending, Installing
  <2>5. QED
    BY <2>3, <2>4 DEF ImportInv, Alone, Verified, Saved, InMain, Wholes, DataKept, MainWhole
<1>5. CASE Tick
  BY <1>5, InvSame DEF Tick, daemon
<1>6. CASE SetEnabled
  BY <1>6, InvSame DEF SetEnabled, daemon
<1>7. CASE UNCHANGED vars
  BY <1>7, InvSame DEF vars, daemon
<1>8. QED
  BY <1>1, <1>2, <1>3, <1>4, <1>5, <1>6, <1>7 DEF Next

(* The database that the daemon opened last is app.db or                   *)
(* app.db.pre-import: between the two renames, when either fails, wherever *)
(* the daemon ends and whatever is uploaded meanwhile, unless two imports  *)
(* were accepted at once since the daemon began (backupImport).            *)
THEOREM DataKeptAlways == Spec => []DataKept
<1>1. IInv => DataKept
  BY DEF IInv, ImportInv
<1>2. QED
  BY <1>1, InvInit, InvStep, PTL DEF Spec

(* app.db is never half a file, unless an upload wrote app.db.import after *)
(* another import had verified it: two that are accepted at once, a file   *)
(* that is removed under an import or a failed rename do not do it.        *)
THEOREM MainWholeAlways == Spec => []MainWhole
<1>1. IInv => MainWhole
  BY DEF IInv, ImportInv
<1>2. QED
  BY <1>1, InvInit, InvStep, PTL DEF Spec
----------------------------------------------------------------------------
(* Nothing stays set that keeps the next backup or import waiting.          *)

Working(w) == run[w].pc \in {"vacuum", "writing", "written", "purge"}
Ending(i)  == imp[i].pc \in {"remove", "save", "install"}

\* Store.running and the connection have a run that gives them back, and a
\* closed database has an import that ends the daemon.
NothingStuck ==
  /\ running => \E w \in Runners : Working(w)
  /\ conn # Nobody => run[conn].pc = "writing"
  /\ closed => up /\ \E i \in Imports : Ending(i)

LEMMA StuckStep ==
  ASSUME TypeOK, UpForImports, NothingStuck, [Next]_vars
  PROVE  /\ (running => \E w \in Runners : Working(w))'
         /\ (closed => up /\ \E i \in Imports : Ending(i))'
<1> DEFINE R == running => \E w \in Runners : Working(w)
           C == closed => up /\ \E i \in Imports : Ending(i)
<1>t. run \in [Runners -> Run] /\ imp \in [Imports -> Imp]
  BY DEF TypeOK
<1>r. UNCHANGED <<running, run>> => R'
  BY DEF NothingStuck, Working
<1>c. UNCHANGED <<up, closed, imp>> => C'
  BY DEF NothingStuck, Ending
<1>1. ASSUME NEW w \in Runners, Call(w) \/ RunStep(w) PROVE R' /\ C'
  <2>1. C'
    BY <1>1, <1>c DEF Call, RunStep, Ask, Claim, Vacuum, VacuumEnd, Stat, Purge, daemon
  <2>2. CASE ~running'
    BY <2>1, <2>2
  <2>3. CASE running' /\ Claim(w)
    BY <1>t, <2>1, <2>3 DEF Claim, Working, Run
  <2>4. CASE running' /\ ~Claim(w)
    <3>1. running' = running
      BY <1>1, <2>4 DEF Call, RunStep, Ask, Vacuum, VacuumEnd, Written, Fail, Return, Stat, Purge
    <3>2. \A x \in Runners : x # w => run'[x] = run[x]
      BY <1>1, <1>t, <2>4 DEF Call, RunStep, Ask, Vacuum, VacuumEnd, Written, Fail, Return, Stat, Purge
    <3>3. Working(w) => Working(w)'
      BY <1>1, <1>t, <2>4 DEF Call, RunStep, Ask, Vacuum, VacuumEnd, Written, Fail, Return, Stat,
         Purge, Working, Run
    <3> QED BY <2>1, <2>4, <3>1, <3>2, <3>3 DEF NothingStuck, Working
  <2> QED BY <2>2, <2>3, <2>4
<1>2. ASSUME NEW i \in Imports,
             ImportStep(i) \/ \E data \in Uploads \cup {Partial} : Upload(i, data)
      PROVE  R' /\ C'
  <2>1. CASE Exit
    BY <2>1 DEF Exit
  <2>2. CASE ~Exit
    <3>1. R'
      BY <1>2, <1>r, <2>2 DEF ImportStep, CopyEnd, CopyFails, Check, Accept, Writing, Discard, Close, RemovePre,
         SavePre, Install, Upload, Same, copies
    <3>2. C'
      <4>1. CASE Close(i)
        <5>1. up
          BY <4>1 DEF Close, UpForImports, Under
        <5> QED BY <1>t, <4>1, <5>1 DEF Close, Goto, Imp, Ending
      <4>2. CASE RemovePre(i) \/ SavePre(i)
        BY <1>t, <2>2, <4>2 DEF RemovePre, SavePre, Goto, Imp, Ending, daemon, NothingStuck
      <4>3. CASE \/ CopyEnd(i) \/ CopyFails(i) \/ Check(i)
                 \/ \E data \in Uploads \cup {Partial} : Upload(i, data)
        <5>1. UNCHANGED <<up, closed>>
          BY <4>3 DEF CopyEnd, CopyFails, Check, Accept, Writing, Discard, Upload, Same, daemon
        <5>2. \A j \in Imports : Ending(j) => imp'[j] = imp[j]
          BY <1>t, <4>3 DEF CopyEnd, CopyFails, Check, Accept, Writing, Discard, Upload, Goto, Imp, Over, Ending
        <5> QED BY <5>1, <5>2 DEF NothingStuck, Ending
      <4>4. CASE Install(i)
        BY <2>2, <4>4 DEF Install
      <4> QED BY <1>2, <4>1, <4>2, <4>3, <4>4 DEF ImportStep
    <3> QED BY <3>1, <3>2
  <2> QED BY <2>1, <2>2
<1>3. CASE Stop
  BY <1>3 DEF Stop
<1>4. CASE Start
  BY <1>4, <1>r DEF Start, copies, NothingStuck, Ending
<1>5. CASE Tick \/ SetEnabled \/ UNCHANGED vars
  BY <1>5, <1>r, <1>c DEF Tick, SetEnabled, vars, copies, daemon
<1> QED BY <1>1, <1>2, <1>3, <1>4, <1>5 DEF Next

(* The safety half of DueRuns: whatever fails or is stopped, a flag that     *)
(* keeps a backup from beginning (Store.running, backup.go; the one          *)
(* connection; the database closed by an import) is set only while a         *)
(* goroutine is at work that clears it or ends the daemon.                   *)
THEOREM NothingIsStuck == Spec => []NothingStuck
<1>1. Init => NothingStuck /\ UpForImports
  BY DEF Init, NothingStuck, UpForImports, Under
<1>2. TypeOK /\ UpForImports /\ NothingStuck /\ [Next]_vars => (NothingStuck /\ UpForImports)'
  BY TypeStep, UpStep, StuckStep DEF NothingStuck, TypeOK
<1>3. QED
  BY <1>1, <1>2, TypeCorrect, PTL DEF Spec
============================================================================
