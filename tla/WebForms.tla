------------------------------ MODULE WebForms ------------------------------
(***************************************************************************)
(* The dialogs of the web client (components/Modals.tsx), one operator per *)
(* dialog: the set of requests its user can make it send in a given state  *)
(* of its inputs.  With them: what each dialog loads, what it fills in by  *)
(* itself, which views open it, and what the server demands of a request   *)
(* before it does anything.                                                *)
(***************************************************************************)
EXTENDS WebSchedules, Sequences, FiniteSets

CONSTANTS
    PoolList,     \* what GET /api/pools lists, in its order
    DatasetList,  \* what GET /api/datasets lists; a pool's root has its name
    DiskList,     \* what GET /api/disks lists
    Home,         \* [disk -> its pool, or None]
    Mirrors, Raidz,  \* the pools of that layout
    Taken,        \* disks of no pool that a host mount uses (in_use)
    Size,         \* [disk -> size]
    Faulted,      \* disks of a pool that are not ONLINE
    Encrypted,    \* encrypted datasets
    Uncommon,     \* datasets with a compression that no dialog offers
    Snaps,        \* snapshots, named in full: dataset@name
    DatasetOf,    \* [snapshot -> its dataset]
    ShortName,    \* [snapshot -> its name after the @]
    Users,        \* the other users of the daemon
    JobIds,       \* scheduled jobs
    SnapshotJobs, \* those of them that make snapshots
    TargetOf,     \* [job -> what it works on]
    ReplIds,      \* replication jobs
    SourceDs,     \* [replication job -> its source dataset]
    Timers,       \* timers of the system that can be edited
    ScheduleOf,   \* [job, replication job or timer -> its schedule text]
    Edits,        \* states a user may leave a schedule editor in
    NewName,      \* the name a user gives to what they create
    All,          \* "all": the target of a smart job
    Other,        \* any text that is not the one a dialog asks for
    None

elements(q) == {q[i] : i \in DOMAIN q}
Pools == elements(PoolList)
Datasets == elements(DatasetList)
Disks == elements(DiskList)
Editable == JobIds \cup ReplIds \cup Timers

\* The dialogs a view can open, and the cards.
FormNames == {
    "newsnap", "newpool", "newds", "editds", "delds", "rewrite", "unlockds", "lockds",
    "changekey", "expand", "newtask", "sched", "newrepl", "editrepl", "export", "addvdev",
    "replace", "detach", "history", "checkpoint", "syssched", "sysmigrate", "newuser",
    "passwd", "deluser", "rollback", "delsnap", "browseFiles", "profile", "password",
    "runbackup", "import", "mount", "unmount", "protect"}

ASSUME DataAssumption ==
    /\ PoolList \in Seq(Pools) /\ DatasetList \in Seq(Datasets) /\ DiskList \in Seq(Disks)
    /\ Pools \subseteq Datasets
    /\ Home \in [Disks -> Pools \cup {None}]
    /\ Size \in [Disks -> Nat]
    /\ Taken \subseteq {k \in Disks : Home[k] = None} /\ Faulted \subseteq Disks
    /\ DatasetOf \in [Snaps -> Datasets]
    /\ None \notin Pools \cup Disks

\* What has a schedule has a number or a name of its own; nothing is called None.
ASSUME NameAssumption ==
    /\ Editable \cap (Datasets \cup {All}) = {}
    /\ None \notin FormNames \cup Editable

ASSUME ScheduleAssumption ==
    /\ \A j \in JobIds \cup ReplIds : ScheduleOf[j] \in JobTexts
    /\ \A s \in Timers : ScheduleOf[s] \in TimerTexts
    /\ Edits \subseteq SchedState

\* The schedule of a request that has none.
NoText == Text("none", Star, Star, Star, Star)

\* A request of call c about o; the dialogs fill in the rest.  keep is the unit
\* of a retention; typed tells whether what was written freely has the form
\* that the server asks for.
Request(c, o) == [call |-> c, on |-> o, old |-> None, new |-> None, disks |-> {},
                  opt |-> "", pass |-> "good", confirm |-> None, text |-> NoText,
                  keep |-> None, typed |-> "fit"]

\* The same about disks: one that goes and one that comes, or a layout x[1] of
\* the disks x[2].
Swap(c, o, old, new) == [Request(c, o) EXCEPT !.old = old, !.new = new]
Layout(c, o, x) == [Request(c, o) EXCEPT !.opt = x[1], !.disks = x[2]]

\* A dialog as it opens on o.  main is the select that has a default; wait and
\* got are the lists it is loading and has loaded.
Dialog(f, o) == [form |-> f, of |-> o, main |-> None, old |-> None,
                 kind |-> "snapshot", preset |-> FALSE, sched |-> SYS_SCHED_DEFAULT,
                 wait |-> {}, got |-> {}, busy |-> FALSE, err |-> FALSE]

---------------------------------------------------------------------------
(* Inputs that several dialogs have.                                       *)

\* What the lists of a dialog show: nothing until the load has answered.
Listed(d, what, shown) == IF what \in d.got THEN shown ELSE {}

\* The first of a list that is in S.
First(list, S) ==
    LET here == {i \in DOMAIN list : list[i] \in S}
    IN list[CHOOSE i \in here : \A j \in here : i <= j]

\* What a user may type where a dialog asks for name x, and what of it the
\* button lets through.
Typed(x) == {x, Other}
Confirmed(x) == {t \in Typed(x) : t = x}
AdminConfirms(x, admin) == IF admin THEN Confirmed(x) ELSE {}

\* Passwords by their length, and the pairs a dialog that asks twice accepts.
Passwords == {"short", "good", "long"}
Length == [short |-> 7, good |-> 8, long |-> 9]
LongEnough == {p \in Passwords : Length[p] >= 8}
Twice == {q[1] : q \in {p \in Passwords \X Passwords :
                         p[1] = p[2] /\ Length[p[1]] >= 8}}

TOPO_MIN == [stripe |-> 1, mirror |-> 2, raidz1 |-> 3, raidz2 |-> 4, raidz3 |-> 5]

\* A text that is written freely, which no dialog checks: a name, an address,
\* a destination, a file.
AnyText(requests) == {[q EXCEPT !.typed = t] : q \in requests, t \in {"fit", "unfit"}}

\* The units of the retentions that are offered: a week, a month or three, a
\* year.
Keeps == {"w", "m", "y"}

\* The compressions that are offered.
Compressions == {"lz4", "zstd", "off"}

Homeless == {k \in Disks : Home[k] = None}
Free == Homeless \ Taken
Vdevs(p) == {k \in Disks : Home[k] = p}

\* Layouts with disks of a set that are enough for them.
Picks(disks) == {x \in (DOMAIN TOPO_MIN) \X SUBSET disks :
                    Cardinality(x[2]) >= TOPO_MIN[x[1]]}

\* The mutant of Default: every list that arrives sets the select.
DefaultAlways(d, list, shown) ==
    IF shown # {} THEN [d EXCEPT !.main = First(list, shown)] ELSE d

\* A select is filled in when it is empty and there is something to offer.
Default(d, list, shown) ==
    IF d.main = None /\ shown # {} THEN [d EXCEPT !.main = First(list, shown)] ELSE d

---------------------------------------------------------------------------
(* The dialogs: the requests that dialog d can send, for a session that is *)
(* an admin's or not.  Names, quotas and flags that no property is about   *)
(* are left out; so is the check of the SSH destination, which has a       *)
(* button and a state of its own.                                          *)

\* Snapshot of a dataset, or of a whole pool when the target is one of the
\* pools that have been listed.
SnapshotModal(d) ==
    AnyText({[Request("createSnapshot", m) EXCEPT
                !.opt = IF m \in Listed(d, "pools", Pools) THEN "recursive" ELSE ""]
             : m \in {d.main} \ {None}})

HistoryModal(d) == {}

\* A checkpoint is made, or the one there is dropped; the name is typed.
CheckpointModal(d) ==
    {[Request("checkpointPool", d.of) EXCEPT !.confirm = t] : t \in Confirmed(d.of)}

\* The disks offered are those of no pool, in use or not.
NewPoolModal(d) ==
    AnyText({[Layout("createPool", NewName, x) EXCEPT !.confirm = t]
             : x \in Picks(Listed(d, "disks", Homeless)), t \in Confirmed(NewName)})

NewDatasetModal(d) ==
    AnyText({[Request("createDataset", m) EXCEPT !.pass = p]
             : m \in {d.main} \ {None}, p \in {"good"} \cup Twice})

\* The compression the dataset has is kept until another is chosen.
EditDatasetModal(d) ==
    {[Request("updateDataset", d.of) EXCEPT !.opt = c]
     : c \in Compressions \cup IF d.of \in Uncommon THEN {"other"} ELSE {}}

DeleteDatasetModal(d, admin) ==
    {[Request("deleteDataset", d.of) EXCEPT !.confirm = t]
     : t \in AdminConfirms(d.of, admin)}

RewriteModal(d, admin) ==
    {[Request("rewriteDataset", d.of) EXCEPT !.confirm = t]
     : t \in AdminConfirms(d.of, admin)}

UnlockDatasetModal(d, admin) ==
    {[Request("unlockDataset", d.of) EXCEPT !.pass = p]
     : p \in IF admin THEN Passwords ELSE {}}

LockDatasetModal(d, admin) ==
    IF admin THEN {Request("lockDataset", d.of)} ELSE {}

ChangeKeyModal(d, admin) ==
    {[Request("changeDatasetKey", d.of) EXCEPT !.pass = p]
     : p \in IF admin THEN Twice ELSE {}}

ExpandModal(d, admin) ==
    {[Swap("expandPool", d.of, None, m) EXCEPT !.confirm = t]
     : m \in {d.main} \ {None}, t \in AdminConfirms(d.of, admin)}

ExportPoolModal(d, admin) ==
    {[Request("exportPool", d.of) EXCEPT !.confirm = t]
     : t \in AdminConfirms(d.of, admin)}

\* The disks large enough for the one that is replaced.  Its size is known
\* only when both lists have arrived.
Suitable(d) ==
    LET free == Listed(d, "disks", Free)
    IN IF {"disks", "pools"} \subseteq d.got /\ d.old # None
       THEN {k \in free : Size[k] >= Size[d.old]} ELSE free

AddVdevModal(d, admin) ==
    {[Layout("addVdev", d.of, x) EXCEPT !.confirm = t]
     : x \in Picks(Listed(d, "disks", Free)), t \in AdminConfirms(d.of, admin)}

ReplaceModal(d, admin) ==
    {[Swap("replaceDisk", d.of, d.old, m) EXCEPT !.confirm = t]
     : m \in IF d.old = None THEN {} ELSE {d.main} \ {None, d.old},
       t \in AdminConfirms(d.of, admin)}

SysSchedModal(d, admin) ==
    IF admin /\ InRange(d.sched)
    THEN AnyText({[Request("setSystemTimerSchedule", d.of) EXCEPT
                      !.text = Built(d.sched, ScheduleOf[d.of])]}) ELSE {}

\* The name of the timer becomes that of a unit, which may be too long.
SysMigrateModal(d, admin) ==
    IF admin THEN AnyText({Request("migrateSystemTimer", d.of)}) ELSE {}

DetachModal(d, admin) ==
    {[Swap("detach", d.of, d.old, None) EXCEPT !.confirm = t]
     : t \in AdminConfirms(d.of, admin)}

\* A rollback asks for the name of the dataset, and sends what was typed.
RollbackModal(d, admin) ==
    {[Request("rollback", d.of) EXCEPT !.confirm = t]
     : t \in AdminConfirms(DatasetOf[d.of], admin)}

\* The mutant of DeleteSnapModal: what was typed is sent as it is.
DeleteSnapTyped(d, admin) ==
    {[Request("deleteSnapshot", d.of) EXCEPT !.confirm = t]
     : t \in AdminConfirms(ShortName[d.of], admin)}

\* Deleting a snapshot asks for its short name, and sends the full one.
DeleteSnapModal(d, admin) ==
    {[Request("deleteSnapshot", d.of) EXCEPT
        !.confirm = IF t = ShortName[d.of] THEN d.of ELSE t]
     : t \in AdminConfirms(ShortName[d.of], admin)}

\* A job that makes snapshots keeps them for a while.
NewTaskModal(d) ==
    {[Request("createJob", m) EXCEPT !.opt = d.kind, !.text = buildSchedule(d.sched),
                                     !.keep = k]
     : m \in IF InRange(d.sched) THEN {d.main} \ {None} ELSE {},
       k \in IF d.kind = "snapshot" THEN Keeps ELSE {None}}

\* Save sends the schedule of the editor and the retention, which may be one of
\* days that no dialog offers; Delete the number of the job as its confirmation.
EditScheduleModal(d, admin) ==
    {[Request("updateJob", d.of) EXCEPT !.text = Built(d.sched, ScheduleOf[d.of]),
                                        !.keep = k]
     : k \in IF ~InRange(d.sched) THEN {}
             ELSE IF d.of \in SnapshotJobs THEN {"d"} \cup Keeps ELSE {None}}
    \cup IF admin THEN {[Request("deleteJob", d.of) EXCEPT !.confirm = d.of]} ELSE {}

NewReplModal(d) ==
    AnyText({[Request("createReplicationJob", m) EXCEPT !.text = buildSchedule(d.sched)]
             : m \in IF InRange(d.sched) THEN {d.main} \ {None} ELSE {}})

EditReplModal(d, admin) ==
    (IF InRange(d.sched)
     THEN AnyText({[Request("updateReplicationJob", d.of) EXCEPT
                       !.text = Built(d.sched, ScheduleOf[d.of])]}) ELSE {})
    \cup {[Request("deleteReplicationJob", d.of) EXCEPT !.confirm = t]
          : t \in AdminConfirms(SourceDs[d.of], admin)}

NewUserModal(d) ==
    AnyText({[Request("createUser", NewName) EXCEPT !.pass = p] : p \in LongEnough})

\* No view opens this one.
MyPasswdModal(d) ==
    AnyText({[Request("setMyPassword", None) EXCEPT !.pass = p] : p \in Twice})

PasswdModal(d) == {[Request("setUserPassword", d.of) EXCEPT !.pass = p] : p \in Twice}

DeleteUserModal(d) ==
    {[Request("deleteUser", d.of) EXCEPT !.confirm = t] : t \in Confirmed(d.of)}

BrowseFilesModal(d) == {}

---------------------------------------------------------------------------
(* The cards of the settings and of the Veeam explorer that send something *)
(* and are busy until it is answered.  They stay on the page.              *)

Cards == {"profile", "password", "runbackup", "import", "mount", "unmount", "protect"}

ProfileCard(d) == AnyText({Request("updateMyProfile", None)})

\* The form for one's own password on the same card; the current one may be
\* wrong.
PasswordForm(d) ==
    AnyText({[Request("setMyPassword", None) EXCEPT !.pass = p] : p \in Twice})

\* The file that is imported may be no database.
BackupCard(d, admin) ==
    IF ~admin THEN {}
    ELSE IF d.form = "import" THEN AnyText({Request("importBackup", None)})
    ELSE {Request("runBackup", None)}

\* A share of a snapshot, and its end.
MountSMBButton(d) ==
    {Request(IF d.form = "mount" THEN "mountClone" ELSE "unmountClone", d.of)}

\* A snapshot of the dataset the backups are in.
protect(d) == {Request("createSnapshot", d.of)}

\* Which dialog is on the page, or which card its user is at.
ModalHost(d, admin) ==
    CASE d.form = "newsnap" -> SnapshotModal(d)
      [] d.form = "newpool" -> NewPoolModal(d)
      [] d.form = "newds" -> NewDatasetModal(d)
      [] d.form = "editds" -> EditDatasetModal(d)
      [] d.form = "delds" -> DeleteDatasetModal(d, admin)
      [] d.form = "rewrite" -> RewriteModal(d, admin)
      [] d.form = "unlockds" -> UnlockDatasetModal(d, admin)
      [] d.form = "lockds" -> LockDatasetModal(d, admin)
      [] d.form = "changekey" -> ChangeKeyModal(d, admin)
      [] d.form = "expand" -> ExpandModal(d, admin)
      [] d.form = "newtask" -> NewTaskModal(d)
      [] d.form = "sched" -> EditScheduleModal(d, admin)
      [] d.form = "newrepl" -> NewReplModal(d)
      [] d.form = "editrepl" -> EditReplModal(d, admin)
      [] d.form = "export" -> ExportPoolModal(d, admin)
      [] d.form = "addvdev" -> AddVdevModal(d, admin)
      [] d.form = "replace" -> ReplaceModal(d, admin)
      [] d.form = "detach" -> DetachModal(d, admin)
      [] d.form = "history" -> HistoryModal(d)
      [] d.form = "checkpoint" -> CheckpointModal(d)
      [] d.form = "syssched" -> SysSchedModal(d, admin)
      [] d.form = "sysmigrate" -> SysMigrateModal(d, admin)
      [] d.form = "newuser" -> NewUserModal(d)
      [] d.form = "mypass" -> MyPasswdModal(d)
      [] d.form = "passwd" -> PasswdModal(d)
      [] d.form = "deluser" -> DeleteUserModal(d)
      [] d.form = "rollback" -> RollbackModal(d, admin)
      [] d.form = "delsnap" -> DeleteSnapModal(d, admin)
      [] d.form = "browseFiles" -> BrowseFilesModal(d)
      [] d.form = "profile" -> ProfileCard(d)
      [] d.form = "password" -> PasswordForm(d)
      [] d.form \in {"runbackup", "import"} -> BackupCard(d, admin)
      [] d.form \in {"mount", "unmount"} -> MountSMBButton(d)
      [] d.form = "protect" -> protect(d)

---------------------------------------------------------------------------
(* What a dialog loads, fills in and offers.                               *)

Loads(f) == CASE f \in {"newsnap", "newtask"} -> {"datasets", "pools"}
              [] f \in {"addvdev", "replace"} -> {"disks", "pools"}
              [] f \in {"newpool", "expand"} -> {"disks"}
              [] f = "newds" -> {"pools"}
              [] f = "newrepl" -> {"datasets"}
              [] f = "history" -> {"history"}
              [] f = "browseFiles" -> {"files"}
              [] OTHER -> {}

\* The disk that is replaced: the first that is not ONLINE, or the first; the
\* new one: the first that is large enough by what is known at that moment.
SettleReplace(d) ==
    LET current == Listed(d, "pools", Vdevs(d.of))
        bad == current \cap Faulted
        old == IF d.old # None \/ current = {} THEN d.old
               ELSE First(DiskList, IF bad # {} THEN bad ELSE current)
    IN [Default(d, DiskList, Suitable(d)) EXCEPT !.old = old]

\* The target of a new job: set again by every list that arrives and by every
\* change of the kind, whatever was there.
SettleTask(d) ==
    LET pools == Listed(d, "pools", Pools)
        datasets == Listed(d, "datasets", Datasets)
    IN CASE d.kind = "smart" -> [d EXCEPT !.main = All]
         [] d.kind \in {"scrub", "trim"} /\ pools # {} ->
                [d EXCEPT !.main = First(PoolList, pools)]
         [] d.kind = "snapshot" /\ datasets # {} ->
                [d EXCEPT !.main = First(DatasetList, datasets)]
         [] OTHER -> Default(d, DatasetList, datasets)

\* What the effects of a dialog make of its inputs after something changed.
Settle(d) ==
    CASE d.form \in {"newsnap", "newrepl"} ->
             Default(d, DatasetList, Listed(d, "datasets", Datasets))
      [] d.form = "newds" -> Default(d, PoolList, Listed(d, "pools", Pools))
      [] d.form = "expand" -> Default(d, DiskList, Listed(d, "disks", Free))
      [] d.form = "replace" -> SettleReplace(SettleReplace(d))
      [] d.form = "newtask" -> SettleTask(d)
      [] OTHER -> d

\* What its main select offers.  The list of replacements can be widened to
\* every free disk.
Offered(d) ==
    LET pools == Listed(d, "pools", Pools)
        datasets == Listed(d, "datasets", Datasets)
    IN CASE d.form = "newsnap" -> pools \cup datasets
         [] d.form = "newds" -> pools
         [] d.form = "newrepl" -> datasets
         [] d.form = "newtask" -> CASE d.kind = "smart" -> {All}
                                    [] d.kind = "snapshot" -> pools \cup datasets
                                    [] OTHER -> pools
         [] d.form \in {"expand", "replace"} ->
                IF d.preset THEN {} ELSE Listed(d, "disks", Free)
         [] OTHER -> {}

---------------------------------------------------------------------------
(* What each view opens.  A dialog that edits a schedule opens on it.      *)

Edit(f, o) == [Dialog(f, o) EXCEPT !.sched = Parsed(ScheduleOf[o])]

SnapshotsOpen(admin) ==
    {Dialog("newsnap", None)} \cup {Dialog("browseFiles", s) : s \in Snaps}
    \cup IF admin THEN {Dialog(f, s) : f \in {"rollback", "delsnap"}, s \in Snaps} ELSE {}

\* A row is clicked, or one of its buttons.
DatasetsOpen(admin) ==
    {Dialog("newds", None)}
    \cup {[Dialog("newsnap", x) EXCEPT !.main = x] : x \in Datasets}
    \cup (IF admin THEN {Dialog(f, x) : f \in {"editds", "rewrite", "delds"}, x \in Datasets}
                        \cup {Dialog(f, x) : f \in {"unlockds", "lockds", "changekey"},
                                             x \in Encrypted}
          ELSE {})

\* The buttons of a pool, on the dashboard and on the list of pools.
CardOpen(admin) ==
    {Dialog("history", p) : p \in Pools}
    \cup (IF admin
          THEN {Dialog(f, p) : f \in {"checkpoint", "addvdev", "export"}, p \in Pools}
               \cup {Dialog("expand", p) : p \in {x \in Raidz : Free # {}}}
               \cup {[Dialog("replace", Home[k]) EXCEPT !.old = k] :
                        k \in {x \in Disks : Home[x] # None}}
               \cup {[Dialog("detach", Home[k]) EXCEPT !.old = k] :
                        k \in {x \in Disks : Home[x] \in Mirrors}}
          ELSE {})

\* The bar that offers to rebuild on the first free disk fixes both disks.
RebuildOpen(admin) ==
    {[Dialog("replace", Home[k]) EXCEPT !.old = k, !.main = First(DiskList, Free), !.preset = TRUE]
     : k \in IF admin /\ Free # {} THEN {x \in Faulted : Home[x] # None} ELSE {}}

PoolsOpen(admin) == IF admin THEN {Dialog("newpool", None)} ELSE {}

JobsOpen(admin) == {Dialog("newtask", None)} \cup {Edit("sched", j) : j \in JobIds}

ReplOpen(admin) ==
    IF admin THEN {[Dialog("newrepl", None) EXCEPT !.sched.time = <<3, 0>>]}
                  \cup {Edit("editrepl", j) : j \in ReplIds} ELSE {}

TimersOpen(admin) ==
    IF admin THEN {Edit("syssched", s) : s \in Timers}
                  \cup {Dialog("sysmigrate", s) : s \in {x \in Timers : ScheduleOf[x].src = "cron"}}
    ELSE {}

UsersOpen(admin) ==
    IF admin THEN {Dialog("newuser", None)} \cup {Dialog(f, u) : f \in {"passwd", "deluser"}, u \in Users}
    ELSE {}

\* The cards of a user, and those of the machines that the server lists for
\* admins only.
CardsOpen(admin) ==
    {Dialog(f, None) : f \in {"profile", "password"}}
    \cup IF admin
         THEN {Dialog(f, None) : f \in {"runbackup", "import"}}
              \cup {Dialog("protect", x) : x \in Datasets}
              \cup {Dialog(f, s) : f \in {"mount", "unmount"}, s \in Snaps}
         ELSE {}

Opens(admin) ==
    SnapshotsOpen(admin) \cup DatasetsOpen(admin) \cup CardOpen(admin) \cup RebuildOpen(admin)
    \cup PoolsOpen(admin) \cup JobsOpen(admin) \cup ReplOpen(admin) \cup TimersOpen(admin)
    \cup UsersOpen(admin) \cup CardsOpen(admin)

---------------------------------------------------------------------------
(* What the server demands before it does anything.                        *)

\* Requests are for admins, but for those about one's own account.
OwnAccount == {"setMyPassword", "updateMyProfile"}
RequireAdmin(q, admin) == admin \/ q.call \in OwnAccount

\* The name that must be typed for a destructive request, or None.
Demanded(q) ==
    CASE q.call \in {"createPool", "exportPool", "addVdev", "replaceDisk", "detach",
                     "checkpointPool", "expandPool", "deleteDataset", "rewriteDataset",
                     "deleteUser", "deleteSnapshot", "rollback"} -> q.on
      [] q.call = "deleteJob" -> TargetOf[q.on]
      [] q.call = "deleteReplicationJob" -> SourceDs[q.on]
      [] OTHER -> None

requireConfirm(q) == Demanded(q) = None \/ q.confirm = Demanded(q)

\* Where a new password or passphrase is set, it has at least 8 characters.
SetsPassword == {"createDataset", "changeDatasetKey", "createUser", "setUserPassword",
                 "setMyPassword"}

LongPassword(q) == q.call \in SetsPassword => Length[q.pass] >= 8

\* The schedule of a job has one of its forms, and all its fields.
ParseSchedule(q) == q.text.src = "job" => q.text \in JobTexts

\* A retention is counted in days, months or years.
ParseRetention(q) == q.keep \in {None, "d", "m", "y"}

\* The new disk is another one, of no pool, and not smaller.
replaceDisk(q) ==
    q.call = "replaceDisk" =>
        q.new # q.old /\ q.new \in Homeless /\ Size[q.new] >= Size[q.old]

\* A pool grows where it is raidz, by a disk that nothing uses.
expandPool(q) == q.call = "expandPool" => q.on \in Raidz /\ q.new \in Free

\* What one call or another asks of its request.
Checked(q) ==
    /\ q.typed = "fit"
    /\ ParseSchedule(q) /\ ParseRetention(q)
    /\ replaceDisk(q) /\ expandPool(q)
    /\ q.call \in {"createPool", "addVdev"} => q.disks # {}
    /\ q.call = "updateDataset" => q.opt \in Compressions
    /\ q.call \in {"unlockDataset", "lockDataset", "changeDatasetKey"} => q.on \in Encrypted

Accepts(q, admin) ==
    RequireAdmin(q, admin) /\ requireConfirm(q) /\ LongPassword(q) /\ Checked(q)
=============================================================================
