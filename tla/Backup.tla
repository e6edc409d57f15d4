------------------------------- MODULE Backup -------------------------------
(***************************************************************************)
(* internal/backup and its handlers: copies of the database file, made     *)
(* every so many hours and on demand and removed when they are old, and    *)
(* the import of a copy, which replaces the file and ends the daemon.      *)
(*                                                                         *)
(* The files survive the end of the daemon, the goroutines do not.  An     *)
(* operation on a file or a query of the database is one step; VACUUM      *)
(* INTO and the copy of an upload, which write for a while, are two.       *)
(***************************************************************************)
EXTENDS Naturals

CONSTANTS
  Requests,           \* who calls POST /api/backup/run
  Loop,               \* the goroutine of RunLoop
  Imports,            \* calls of POST /api/backup/import, numbered as they are made
  Uploads,            \* databases that are uploaded
  Original, Fresh,    \* the first database, and one that the daemon creates
  Partial, Absent,    \* a file that is not a whole database, and no file
  Nobody,
  Freq, Retention,    \* time between backups, and how long they are kept
  Default,            \* how long if the settings cannot be read
  MaxClock,           \* bound: instants; the name of a backup is its instant
  MaxStops,           \* bound: ends of the daemon, other than by an import
  Env                 \* what may fail, see EnvKinds

\* VACUUM, reading the settings, a rename and the copy of an upload fail;
\* backups are switched off.
EnvKinds == {"vacuum", "settings", "rename", "copy", "disable"}

Runners == Requests \cup {Loop}
Times   == 0..MaxClock
Whole   == Uploads \cup {Original, Fresh}
Content == Whole \cup {Partial, Absent}

ASSUME BackupAssumption ==
  /\ Loop \notin Requests
  /\ Imports \subseteq Nat
  /\ Nobody \notin Runners \cup Imports
  /\ Partial \notin Whole /\ Absent \notin Whole /\ Absent # Partial
  /\ Freq \in Nat \ {0} /\ Retention \in Nat /\ Default \in Nat
  /\ MaxClock \in Nat /\ MaxStops \in Nat
  /\ Env \subseteq EnvKinds

VARIABLES
  clock, stops,
  enabled,            \* settings: backup_enabled
  up,                 \* the daemon runs
  closed,             \* it has closed the database
  main, pre,          \* app.db and app.db.pre-import
  tmp,                \* app.db.import
  served,             \* history: the database that the daemon opened last
  overwritten,        \* history: since the daemon began, an upload wrote app.db.import
                      \* while an import that had verified it was to install it
  crossed,            \* history: since then, two imports were to install it at once
  imp,                \* backupImport and the goroutine it starts
  running,            \* Store.running
  conn,               \* who has the one connection
  files,              \* the directory of backups
  run                 \* Run of each request and of the loop

world  == <<clock, stops, enabled>>
daemon == <<up, closed>>
disk   == <<main, pre, tmp, served>>
past   == <<overwritten, crossed>>
copies == <<running, conn, files, run>>
vars   == <<world, daemon, disk, past, imp, copies>>

File == [name: Times, ts: Times, whole: BOOLEAN]
Run  == [pc: {"idle", "ask", "claim", "vacuum", "writing", "written", "purge"},
         name: Times, todo: SUBSET Times]
Imp  == [pc: {"new", "copy", "mixed", "unlinked", "check", "accepted", "remove", "save", "install", "done"},
         data: Uploads \cup {Partial}]

\* Every variable has its type, and only a run that writes has the connection.
TypeOK ==
  /\ clock \in Times /\ stops \in 0..MaxStops /\ enabled \in BOOLEAN
  /\ up \in BOOLEAN /\ closed \in BOOLEAN /\ running \in BOOLEAN
  /\ overwritten \in BOOLEAN /\ crossed \in BOOLEAN
  /\ main \in Content /\ pre \in Content /\ tmp \in Content /\ served \in Whole
  /\ imp \in [Imports -> Imp]
  /\ files \in SUBSET File
  /\ run \in [Runners -> Run]
  /\ conn \in Runners \cup {Nobody}
  /\ conn # Nobody => run[conn].pc = "writing"

NoRun == [pc |-> "idle", name |-> 0, todo |-> {}]
Over  == [pc |-> "done", data |-> Partial]

Init ==
  /\ clock = 0 /\ stops = 0 /\ enabled = TRUE
  /\ up = TRUE /\ closed = FALSE
  /\ main = Original /\ pre = Absent /\ tmp = Absent /\ served = Original
  /\ overwritten = FALSE /\ crossed = FALSE
  /\ imp = [i \in Imports |-> [pc |-> "new", data |-> Partial]]
  /\ running = FALSE /\ conn = Nobody /\ files = {}
  /\ run = [w \in Runners |-> NoRun]
----------------------------------------------------------------------------
(* Copies.                                                                 *)

Named(n)    == {f \in files : f.name = n}
Older(days) == {f \in files : f.ts + days < clock}
Latest      == {f \in files : \A o \in files : o.name <= f.name}
Due         == \A f \in Latest : clock - f.ts >= Freq

\* The handler of a request, whose session is in the database, and every
\* minute RunLoop.
Call(w) ==
  /\ up /\ ~closed /\ run[w].pc = "idle"
  /\ w = Loop => enabled /\ Due
  /\ run' = [run EXCEPT ![w].pc = "ask"]
  /\ UNCHANGED <<world, daemon, disk, past, imp, running, conn, files>>

\* running is read here and set in the next step, without a lock.
Ask(w) ==
  /\ run[w].pc = "ask"
  /\ run' = [run EXCEPT ![w].pc = IF running THEN "idle" ELSE "claim"]
  /\ UNCHANGED <<world, daemon, disk, past, imp, running, conn, files>>

Claim(w) ==
  /\ run[w].pc = "claim"
  /\ running' = TRUE
  /\ run' = [run EXCEPT ![w].pc = "vacuum", ![w].name = clock]
  /\ UNCHANGED <<world, daemon, disk, past, imp, conn, files>>

Return(w) == run' = [run EXCEPT ![w] = NoRun] /\ running' = FALSE

\* Fault: a run that fails leaves running set.
FailStuck(w) ==
  /\ files' = files \ Named(run[w].name)
  /\ run' = [run EXCEPT ![w] = NoRun] /\ UNCHANGED running

\* The file is removed, even one that this run did not write.
Fail(w) == files' = files \ Named(run[w].name) /\ Return(w)

\* VACUUM INTO waits for the connection and refuses a file that exists.
Vacuum(w) ==
  /\ run[w].pc = "vacuum" /\ conn = Nobody
  /\ IF closed \/ Named(run[w].name) # {}
       THEN Fail(w) /\ UNCHANGED conn
       ELSE /\ conn' = w
            /\ files' = files \cup {[name |-> run[w].name, ts |-> clock, whole |-> FALSE]}
            /\ run' = [run EXCEPT ![w].pc = "writing"]
            /\ UNCHANGED running
  /\ UNCHANGED <<world, daemon, disk, past, imp>>

Written(w) ==
  /\ files' = (files \ Named(run[w].name))
                \cup {[f EXCEPT !.ts = clock, !.whole = TRUE] : f \in Named(run[w].name)}
  /\ run' = [run EXCEPT ![w].pc = "written"]
  /\ UNCHANGED running

\* Fault: the connection is not given back.
VacuumHeld(w) ==
  /\ run[w].pc = "writing"
  /\ Written(w) /\ UNCHANGED <<world, daemon, disk, past, imp, conn>>

VacuumEnd(w) ==
  /\ run[w].pc = "writing"
  /\ conn' = Nobody
  /\ Written(w) \/ ("vacuum" \in Env /\ Fail(w))
  /\ UNCHANGED <<world, daemon, disk, past, imp>>

\* What the settings say of the retention, or the defaults when the database
\* is closed, the query fails or the client has gone.
Days == (IF closed THEN {} ELSE {Retention})
          \cup (IF closed \/ "settings" \in Env THEN {Default} ELSE {})

Stat(w) ==
  /\ run[w].pc = "written"
  /\ IF Named(run[w].name) = {}
       THEN Return(w)
       ELSE /\ \E days \in Days :
                 run' = [run EXCEPT ![w].pc = "purge", ![w].todo = {f.name : f \in Older(days)}]
            /\ UNCHANGED running
  /\ UNCHANGED <<world, daemon, disk, past, imp, conn, files>>

\* By name; a file that is gone ends the purge, and then the run.
Purge(w) ==
  /\ run[w].pc = "purge"
  /\ \/ /\ run[w].todo = {}
        /\ Return(w) /\ UNCHANGED files
     \/ \E n \in run[w].todo :
          /\ \A o \in run[w].todo : n <= o
          /\ files' = files \ Named(n)
          /\ run' = [run EXCEPT ![w].todo = IF Named(n) = {} THEN {} ELSE @ \ {n}]
          /\ UNCHANGED running
  /\ UNCHANGED <<world, daemon, disk, past, imp, conn>>

RunStep(w) == Ask(w) \/ Claim(w) \/ Vacuum(w) \/ VacuumEnd(w) \/ Stat(w) \/ Purge(w)
----------------------------------------------------------------------------
(* The import.                                                             *)

Goto(i, pc) == imp' = [imp EXCEPT ![i].pc = pc]

Same == UNCHANGED <<world, daemon, main, pre, served, copies>>

\* An import that verified app.db.import and is to install it.
Pending(i)   == imp[i].pc \in {"accepted", "remove", "save", "install"}
SomePending  == \E j \in Imports : Pending(j)
Overwrite(b) == overwritten' = (overwritten \/ (b /\ SomePending)) /\ UNCHANGED crossed

\* An import that writes app.db.import, alone or mixed with another.
Writing(i) == imp[i].pc \in {"copy", "mixed"}

\* os.Create truncates the file that is there, also under another writer and
\* also when it was verified: nothing keeps imports apart.
Upload(i, data) ==
  /\ up /\ ~closed /\ imp[i].pc = "new"
  /\ \A j \in Imports : j < i => imp[j].pc # "new"
  /\ imp' = [j \in Imports |->
               IF j = i THEN [pc |-> IF \E k \in Imports : Writing(k) THEN "mixed" ELSE "copy",
                              data |-> data]
               ELSE IF Writing(j) THEN [imp[j] EXCEPT !.pc = "mixed"] ELSE imp[j]]
  /\ tmp' = Partial
  /\ Overwrite(TRUE) /\ Same

\* Two that wrote the file leave a mix, or what the last one wrote.
CopyEnd(i) ==
  /\ Writing(i) \/ imp[i].pc = "unlinked"
  /\ imp' = [imp EXCEPT ![i] = [pc |-> "check", data |-> Partial]]
  /\ tmp' \in IF imp[i].pc = "unlinked" THEN {tmp}
              ELSE {imp[i].data} \cup (IF imp[i].pc = "mixed" THEN {Partial} ELSE {})
  /\ Overwrite(Writing(i)) /\ Same

\* The file is removed, and whoever is writing it goes on in one without name.
Discard(i) ==
  /\ tmp' = Absent
  /\ imp' = [j \in Imports |->
               IF j = i THEN Over
               ELSE IF Writing(j) THEN [imp[j] EXCEPT !.pc = "unlinked"] ELSE imp[j]]
  /\ UNCHANGED past /\ Same

CopyFails(i) ==
  /\ "copy" \in Env /\ (Writing(i) \/ imp[i].pc = "unlinked")
  /\ Discard(i)

Accept(i) ==
  /\ Goto(i, "accepted")
  /\ crossed' = (crossed \/ SomePending)
  /\ UNCHANGED <<tmp, overwritten>> /\ Same

\* Fault: what is not a whole database is accepted.
CheckNone(i) == imp[i].pc = "check" /\ Accept(i)

Check(i) ==
  /\ imp[i].pc = "check"
  /\ \/ tmp \in Whole /\ Accept(i)
     \/ tmp \notin Whole /\ Discard(i)

\* The query that is under way goes on.
Close(i) ==
  /\ imp[i].pc = "accepted"
  /\ closed' = TRUE
  /\ Goto(i, "remove")
  /\ UNCHANGED <<world, up, disk, past, copies>>

RemovePre(i) ==
  /\ imp[i].pc = "remove"
  /\ pre' = Absent
  /\ Goto(i, "save")
  /\ UNCHANGED <<world, daemon, main, tmp, served, past, copies>>

\* The daemon ends, with all that it was doing.
Exit ==
  /\ up' = FALSE /\ closed' = FALSE
  /\ imp' = [j \in Imports |-> IF imp[j].pc = "new" THEN imp[j] ELSE Over]
  /\ running' = FALSE /\ conn' = Nobody
  /\ run' = [w \in Runners |-> NoRun]
  /\ UNCHANGED <<world, served, past, files>>

MaySave   == main # Absent
MayRename == "rename" \notin Env

SavePre(i) ==
  /\ imp[i].pc = "save"
  /\ \/ /\ MaySave
        /\ pre' = main /\ main' = Absent
        /\ Goto(i, "install")
        /\ UNCHANGED <<world, daemon, tmp, served, past, copies>>
     \/ /\ ~(MaySave /\ MayRename)
        /\ Exit /\ UNCHANGED <<main, pre, tmp>>

\* Fault: what was saved is removed when the import cannot be installed.
InstallForget(i) ==
  /\ imp[i].pc = "install"
  /\ \/ /\ tmp # Absent
        /\ main' = tmp /\ tmp' = Absent /\ UNCHANGED pre
     \/ /\ ~(tmp # Absent /\ MayRename)
        /\ pre' = Absent /\ UNCHANGED <<main, tmp>>
  /\ Exit

\* The imported file is installed, or the one that was saved is put back.
Install(i) ==
  /\ imp[i].pc = "install"
  /\ \/ /\ tmp # Absent
        /\ main' = tmp /\ tmp' = Absent /\ UNCHANGED pre
     \/ /\ ~(tmp # Absent /\ MayRename)
        /\ UNCHANGED tmp
        /\ \/ pre # Absent /\ main' = pre /\ pre' = Absent
           \/ ~(pre # Absent /\ MayRename) /\ UNCHANGED <<main, pre>>
  /\ Exit

ImportStep(i) ==
  CopyEnd(i) \/ CopyFails(i) \/ Check(i) \/ Close(i) \/ RemovePre(i) \/ SavePre(i) \/ Install(i)
----------------------------------------------------------------------------
(* The daemon and its surroundings.                                        *)

Stop ==
  /\ up /\ stops < MaxStops
  /\ up' = FALSE /\ closed' = FALSE
  /\ imp' = [j \in Imports |-> IF imp[j].pc = "new" THEN imp[j] ELSE Over]
  /\ running' = FALSE /\ conn' = Nobody
  /\ run' = [w \in Runners |-> NoRun]
  /\ stops' = stops + 1
  /\ UNCHANGED <<clock, enabled, disk, past, files>>

\* A database that does not exist is created; one that is broken is not opened.
Start ==
  /\ ~up /\ main # Partial
  /\ up' = TRUE
  /\ main' = IF main = Absent THEN Fresh ELSE main
  /\ served' = main'
  /\ overwritten' = FALSE /\ crossed' = FALSE
  /\ UNCHANGED <<world, closed, pre, tmp, imp, copies>>

Tick ==
  /\ clock < MaxClock
  /\ clock' = clock + 1
  /\ UNCHANGED <<stops, enabled, daemon, disk, past, imp, copies>>

SetEnabled ==
  /\ "disable" \in Env
  /\ up /\ ~closed
  /\ enabled' = ~enabled
  /\ UNCHANGED <<clock, stops, daemon, disk, past, imp, copies>>

Next ==
  \/ \E w \in Runners : Call(w) \/ RunStep(w)
  \/ \E i \in Imports : ImportStep(i) \/ \E data \in Uploads \cup {Partial} : Upload(i, data)
  \/ Stop \/ Start \/ Tick \/ SetEnabled

Spec == Init /\ [][Next]_vars

\* Goroutines go on, the service manager starts the daemon again, and VACUUM
\* does not fail for ever.
Fairness ==
  /\ \A w \in Runners : WF_vars(RunStep(w)) /\ SF_vars(run[w].pc = "writing" /\ VacuumEnd(w) /\ run'[w].pc = "written")
  /\ WF_vars(\E i \in Imports : ImportStep(i))
  /\ WF_vars(Call(Loop)) /\ WF_vars(Start)

LiveSpec == Spec /\ Fairness
----------------------------------------------------------------------------
(* "La BD actual queda en app.db.pre-import": at every moment, the         *)
(* database that the daemon opened last is app.db or app.db.pre-import,    *)
(* whatever fails, whatever is uploaded meanwhile and whenever the daemon  *)
(* ends, between the renames too; unless two imports were accepted at      *)
(* once: the second removes what the first has saved.                      *)
DataKept == served \in {main, pre} \/ crossed

(* app.db is a whole database, so that the daemon can start, unless        *)
(* another upload wrote app.db.import after it was verified, which nothing *)
(* in backupImport prevents; two that are accepted, or a file that is      *)
(* removed under an import, do not put a half file in place.               *)
MainWhole == main # Partial \/ overwritten

(* While backups are enabled and one is due, one is begun: a run that      *)
(* failed, or that died with the daemon, does not keep the next ones from  *)
(* running; unless an import overwritten by another left no database that  *)
(* can be opened.                                                          *)
DueRuns == (enabled /\ Due) ~> (~(enabled /\ Due) \/ main = Partial)
============================================================================
