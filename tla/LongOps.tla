------------------------------ MODULE LongOps ------------------------------
(***************************************************************************)
(* internal/longops: the registry of detached processes ("zfs rewrite",    *)
(* the replication pipeline), as the rewrite handler drives it.            *)
(*                                                                         *)
(* A call goes through the handler (check, spawn, register, announce) and  *)
(* then through its own watch goroutine (read the output, Wait, close the  *)
(* life cycle under the lock, announce).  Cancel and List come from other  *)
(* requests at any moment.  One action is one critical section of          *)
(* Manager.mu or one blocking call outside it.                             *)
(***************************************************************************)
EXTENDS Naturals, Sequences

CONSTANTS
  Calls,              \* requests that start an operation
  Targets,            \* datasets
  TargetOf,           \* the dataset of each request
  MaxLines,           \* size of the output ring (maxLines)
  Sudo,               \* whether the daemon is not root and goes through sudo
  MaxOutput,          \* bound: lines one process writes
  MaxRestarts         \* bound: restarts of the daemon

ASSUME LongOpsAssumption ==
  /\ TargetOf \in [Calls -> Targets]
  /\ MaxLines \in Nat \ {0}
  /\ Sudo \in BOOLEAN
  /\ MaxOutput \in Nat
  /\ MaxRestarts \in Nat

VARIABLES
  pc,                 \* where the handler or the watch goroutine of a call is
  registry,           \* Manager.ops: the operations List and Get can see
  status,             \* Op.Status; "none" before registration
  canceledReq,        \* Op.canceledReq
  aged,               \* the operation ended more than doneTTL ago
  proc,               \* the operating-system process
  emitted,            \* lines the process wrote (the n-th line is n)
  read,               \* lines the scanner took from the pipe
  lines,              \* Op.Lines
  pub,                \* the statuses published as longop.update, in order
  restarts

procVars == <<proc, emitted>>
opVars   == <<registry, status, canceledReq, aged>>
outVars  == <<read, lines>>
vars     == <<pc, opVars, procVars, outVars, pub, restarts>>

Final    == {"done", "error", "canceled"}
Ended    == {"exit0", "exitErr", "killed"}
Alive    == {"run", "refused"}     \* refused: its kill was, and it goes on
InFlight == {"checked", "spawned", "registered", "watching", "reaped", "closed"}

TypeOK ==
  /\ pc \in [Calls -> InFlight \cup {"idle", "rejected", "failed", "finished", "lost"}]
  /\ registry \subseteq Calls
  /\ status \in [Calls -> Final \cup {"none", "running"}]
  /\ canceledReq \in [Calls -> BOOLEAN]
  /\ aged \in [Calls -> BOOLEAN]
  /\ proc \in [Calls -> Ended \cup Alive \cup {"none"}]
  /\ emitted \in [Calls -> Nat]
  /\ read \in [Calls -> Nat]
  /\ lines \in [Calls -> Seq(Nat)]
  /\ pub \in [Calls -> Seq(Final \cup {"running"})]
  /\ restarts \in Nat

Init ==
  /\ pc = [c \in Calls |-> "idle"]
  /\ registry = {}
  /\ status = [c \in Calls |-> "none"]
  /\ canceledReq = [c \in Calls |-> FALSE]
  /\ aged = [c \in Calls |-> FALSE]
  /\ proc = [c \in Calls |-> "none"]
  /\ emitted = [c \in Calls |-> 0]
  /\ read = [c \in Calls |-> 0]
  /\ lines = [c \in Calls |-> <<>>]
  /\ pub = [c \in Calls |-> <<>>]
  /\ restarts = 0

Goto(c, from, to) ==
  /\ pc[c] = from
  /\ pc' = [pc EXCEPT ![c] = to]

----------------------------------------------------------------------------
(* The rewrite handler and Manager.Start.                                  *)

RunningFor(t) == \E c \in registry : status[c] = "running" /\ TargetOf[c] = t

CheckRunning(c) ==
  /\ Goto(c, "idle", IF RunningFor(TargetOf[c]) THEN "rejected" ELSE "checked")
  /\ UNCHANGED <<opVars, procVars, outVars, pub, restarts>>

Spawn(c) ==
  /\ Goto(c, "checked", "spawned")
  /\ proc' = [proc EXCEPT ![c] = "run"]
  /\ UNCHANGED <<opVars, emitted, outVars, pub, restarts>>

SpawnFails(c) ==
  /\ Goto(c, "checked", "failed")
  /\ UNCHANGED <<opVars, procVars, outVars, pub, restarts>>

\* Fault: the status is left for the watch goroutine to fill in.
RegisterBlank(c) ==
  /\ Goto(c, "spawned", "registered")
  /\ registry' = registry \cup {c}
  /\ UNCHANGED <<status, canceledReq, aged, procVars, outVars, pub, restarts>>

Register(c) ==
  /\ Goto(c, "spawned", "registered")
  /\ registry' = registry \cup {c}
  /\ status' = [status EXCEPT ![c] = "running"]
  /\ UNCHANGED <<canceledReq, aged, procVars, outVars, pub, restarts>>

\* Fault: the copy taken by Start is published again at the end.
PublishStale(c) == pub' = [pub EXCEPT ![c] = Append(@, "running")]

\* publish copies the operation under the lock and hands the copy to the hub.
Publish(c) == pub' = [pub EXCEPT ![c] = Append(@, status[c])]

\* The watch goroutine is created after the first publish has returned.
AnnounceStart(c) ==
  /\ Goto(c, "registered", "watching")
  /\ Publish(c)
  /\ UNCHANGED <<opVars, procVars, outVars, restarts>>

----------------------------------------------------------------------------
(* The process (external).                                                 *)

Emit(c) ==
  /\ proc[c] \in Alive
  /\ emitted[c] < MaxOutput
  /\ emitted' = [emitted EXCEPT ![c] = @ + 1]
  /\ UNCHANGED <<pc, opVars, proc, outVars, pub, restarts>>

Exit(c) ==
  /\ proc[c] \in Alive
  /\ \E how \in {"exit0", "exitErr"} : proc' = [proc EXCEPT ![c] = how]
  /\ UNCHANGED <<pc, opVars, emitted, outVars, pub, restarts>>

\* Fault: the context is canceled only once the operation has closed.
KillLate(c) ==
  /\ canceledReq[c] /\ status[c] \in Final
  /\ proc[c] = "run"
  /\ proc' = [proc EXCEPT ![c] = "killed"]
  /\ UNCHANGED <<pc, opVars, emitted, outVars, pub, restarts>>

\* The context of a canceled operation is done: os/exec tries, once, to kill the
\* process.  With sudo the process belongs to root and the kernel may refuse.
Kill(c) ==
  /\ canceledReq[c]
  /\ proc[c] = "run"
  /\ \/ proc' = [proc EXCEPT ![c] = "killed"]
     \/ Sudo /\ proc' = [proc EXCEPT ![c] = "refused"]
  /\ UNCHANGED <<pc, opVars, emitted, outVars, pub, restarts>>

----------------------------------------------------------------------------
(* The watch goroutine and its scanner.                                    *)

\* Fault: the ring is cut one line too late.
AppendLineLate(ring, line) ==
  LET grown == Append(ring, line)
  IN  IF Len(grown) > MaxLines + 1
      THEN SubSeq(grown, Len(grown) - MaxLines, Len(grown))
      ELSE grown

\* The ring keeps the last MaxLines lines.
AppendLine(ring, line) ==
  LET grown == Append(ring, line)
  IN  IF Len(grown) > MaxLines
      THEN SubSeq(grown, Len(grown) - MaxLines + 1, Len(grown))
      ELSE grown

ScanLine(c) ==
  /\ pc[c] = "watching"
  /\ read[c] < emitted[c]
  /\ read' = [read EXCEPT ![c] = @ + 1]
  /\ lines' = [lines EXCEPT ![c] = AppendLine(@, read[c] + 1)]
  /\ UNCHANGED <<pc, opVars, procVars, pub, restarts>>

\* cmd.Wait returns once the process has ended, and closes the pipe the
\* scanner reads: what is still in it is gone.
Reap(c) ==
  /\ Goto(c, "watching", "reaped")
  /\ proc[c] \in Ended
  /\ UNCHANGED <<opVars, procVars, outVars, pub, restarts>>

\* Fault: the exit status is looked at before the cancel request.
OutcomeByExit(c) ==
  IF proc[c] = "exit0" THEN "done"
  ELSE IF canceledReq[c] THEN "canceled" ELSE "error"

Outcome(c) ==
  IF canceledReq[c] THEN "canceled"
  ELSE IF proc[c] = "exit0" THEN "done" ELSE "error"

Close(c) ==
  /\ Goto(c, "reaped", "closed")
  /\ status' = [status EXCEPT ![c] = Outcome(c)]
  /\ UNCHANGED <<registry, canceledReq, aged, procVars, outVars, pub, restarts>>

AnnounceEnd(c) ==
  /\ Goto(c, "closed", "finished")
  /\ Publish(c)
  /\ UNCHANGED <<opVars, procVars, outVars, restarts>>

----------------------------------------------------------------------------
(* Other requests, time, and the daemon itself.                            *)

\* Op.cancel is set by Start and cleared with the final status.
HasCancel(c) == status[c] = "running"

\* Fault: Cancel writes the final status itself.
CancelNow(c) ==
  /\ c \in registry
  /\ HasCancel(c)
  /\ canceledReq' = [canceledReq EXCEPT ![c] = TRUE]
  /\ status' = [status EXCEPT ![c] = "canceled"]
  /\ UNCHANGED <<pc, registry, aged, procVars, outVars, pub, restarts>>

Cancel(c) ==
  /\ c \in registry
  /\ HasCancel(c)
  /\ canceledReq' = [canceledReq EXCEPT ![c] = TRUE]
  /\ UNCHANGED <<pc, registry, status, aged, procVars, outVars, pub, restarts>>

Expired(c) == status[c] \in Final /\ aged[c]

List ==
  /\ registry' = {c \in registry : ~Expired(c)}
  /\ UNCHANGED <<pc, status, canceledReq, aged, procVars, outVars, pub, restarts>>

Age(c) ==
  /\ status[c] \in Final
  /\ aged' = [aged EXCEPT ![c] = TRUE]
  /\ UNCHANGED <<pc, registry, status, canceledReq, procVars, outVars, pub, restarts>>

\* The registry is memory only.  The service manager may or may not take the
\* processes down with the daemon.
Restart ==
  /\ restarts < MaxRestarts
  /\ restarts' = restarts + 1
  /\ \E survivors \in SUBSET {c \in Calls : proc[c] \in Alive} :
       proc' = [c \in Calls |-> IF proc[c] \in Alive /\ c \notin survivors
                                THEN "killed" ELSE proc[c]]
  /\ pc' = [c \in Calls |-> IF pc[c] \in InFlight THEN "lost" ELSE pc[c]]
  /\ registry' = {}
  /\ status' = [c \in Calls |-> "none"]
  /\ canceledReq' = [c \in Calls |-> FALSE]
  /\ aged' = [c \in Calls |-> FALSE]
  /\ lines' = [c \in Calls |-> <<>>]
  /\ read' = [c \in Calls |-> 0]
  /\ pub' = [c \in Calls |-> <<>>]
  /\ UNCHANGED emitted

Handler(c) == CheckRunning(c) \/ Spawn(c) \/ SpawnFails(c) \/ Register(c) \/ AnnounceStart(c)
Watch(c)   == ScanLine(c) \/ Reap(c) \/ Close(c) \/ AnnounceEnd(c)
Process(c) == Emit(c) \/ Exit(c) \/ Kill(c)

Next ==
  \/ \E c \in Calls : Handler(c) \/ Watch(c) \/ Process(c) \/ Cancel(c) \/ Age(c)
  \/ List
  \/ Restart

\* Goroutines are scheduled and a pending kill is tried.  Nothing obliges a
\* process to end by itself, one whose kill was refused included.
Fairness ==
  \A c \in Calls :
    /\ WF_vars(Register(c) \/ AnnounceStart(c))
    /\ WF_vars(Reap(c) \/ Close(c) \/ AnnounceEnd(c))
    /\ WF_vars(Kill(c))

Spec == Init /\ [][Next]_vars /\ Fairness
----------------------------------------------------------------------------
(* Properties.                                                             *)

\* An operation that runs is always in the registry: List purges only what
\* ended long ago, so a waiter polling Get never loses its operation.
RunningListed == \A c \in Calls : status[c] = "running" => c \in registry

\* An accepted Cancel decides the outcome, whenever it lands relative to the
\* process ending and to the watch goroutine, and nothing else cancels.
CancelDecides ==
  \A c \in Calls : status[c] \in Final => (status[c] = "canceled" <=> canceledReq[c])

\* Clients hear "running" first and then, at most once, the status that the
\* registry keeps: the two publishes of an operation never cross.
ToldInOrder ==
  \A c \in Calls :
    \/ pub[c] = <<>>
    \/ pub[c] = <<"running">>
    \/ pub[c] = <<"running", status[c]>> /\ status[c] \in Final

\* The ring holds exactly the last MaxLines lines the scanner read, oldest first.
Smaller(m, n) == IF m < n THEN m ELSE n

RingIsTail ==
  \A c \in Calls :
    LET size == Smaller(read[c], MaxLines)
    IN  lines[c] = [i \in 1..size |-> read[c] - size + i]

\* Once final, a status stays until the daemon restarts, and an operation
\* leaves the registry only after it ended.
FinalStays ==
  [][restarts' = restarts =>
       \A c \in Calls :
         /\ status[c] \in Final => status'[c] = status[c]
         /\ c \in registry \ registry' => status[c] \in Final]_vars

\* A canceled operation ends, as canceled, unless the daemon restarts first or
\* the kernel refuses the kill; then it ends so once its process does by itself.
CancelEnds ==
  \A c \in Calls :
    (canceledReq[c] /\ status[c] = "running" /\ proc[c] # "refused")
      ~> (status[c] = "canceled" \/ pc[c] = "lost" \/ proc[c] = "refused")

\* The runner implements its abstract life cycle.
Lifecycle == INSTANCE LongOpLifecycle
  WITH begun <- {c \in Calls : pc[c] \in {"registered", "watching", "reaped",
                                          "closed", "finished", "lost"}},
       state <- status,
       told  <- pub

ImplementsLifecycle == Lifecycle!LSpec
============================================================================
