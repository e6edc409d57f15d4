--------------------------- MODULE LongOps_proofs ---------------------------
(***************************************************************************)
(* Proofs about LongOps for every set of requests and every ring size.     *)
(* IInv says, for each place of the handler and of the watch goroutine,    *)
(* what the registry holds of the operation and what was published of it;  *)
(* the safety properties follow from it, and it is what makes each step a  *)
(* step of the abstract life cycle.                                        *)
(***************************************************************************)
EXTENDS LongOps, SequenceTheorems, TLAPS

USE LongOpsAssumption

Unregistered(c) == status[c] = "none" /\ pub[c] = <<>>

Phase(c) ==
  /\ pc[c] \in {"idle", "checked", "spawned", "rejected", "failed", "lost"} => Unregistered(c)
  /\ pc[c] = "registered" => status[c] = "running" /\ pub[c] = <<>>
  /\ pc[c] \in {"watching", "reaped"} => status[c] = "running" /\ pub[c] = <<"running">>
  /\ pc[c] = "closed" => status[c] \in Final /\ pub[c] = <<"running">>
  /\ pc[c] = "finished" => \/ Unregistered(c)
                           \/ status[c] \in Final /\ pub[c] = <<"running", status[c]>>

Marks(c) ==
  /\ status[c] = "running" => c \in registry
  /\ status[c] = "none" => ~canceledReq[c] /\ c \notin registry
  /\ status[c] \in Final => (status[c] = "canceled" <=> canceledReq[c])

IInv == TypeOK /\ \A c \in Calls : Phase(c) /\ Marks(c)

\* The ring stays a sequence of line numbers when a line is appended.
LEMMA AppendLineType ==
  ASSUME NEW ring \in Seq(Nat), NEW line \in Nat
  PROVE  AppendLine(ring, line) \in Seq(Nat)
<1> DEFINE grown == Append(ring, line)
<1>1. grown \in Seq(Nat)
  OBVIOUS
<1>2. SubSeq(grown, Len(grown) - MaxLines + 1, Len(grown)) \in Seq(Nat)
        \/ ~(Len(grown) > MaxLines)
  <2>1. SUFFICES ASSUME Len(grown) > MaxLines
                 PROVE  SubSeq(grown, Len(grown) - MaxLines + 1, Len(grown)) \in Seq(Nat)
    OBVIOUS
  <2>2. Len(grown) \in Nat /\ Len(grown) - MaxLines + 1 \in 1..Len(grown) + 1
    BY <1>1, <2>1
  <2> HIDE DEF grown
  <2>3. QED
    BY <1>1, <2>2
<1>3. QED
  BY <1>1, <1>2 DEF AppendLine

\* A second element appended to a sequence of one makes a pair.
LEMMA AppendPair ==
  ASSUME NEW S, NEW x \in S, NEW y \in S
  PROVE  Append(<<x>>, y) = <<x, y>>
<1> DEFINE s == Append(<<x>>, y)
           t == <<x, y>>
<1>1. s \in Seq(S) /\ Len(s) = 2 /\ s[1] = x /\ s[2] = y
  OBVIOUS
<1>2. t \in Seq(S) /\ Len(t) = 2 /\ t[1] = x /\ t[2] = y
  OBVIOUS
<1>3. \A i \in 1..Len(s) : s[i] = t[i]
  BY <1>1, <1>2
<1>4. QED BY <1>1, <1>2, <1>3, SeqEqual

\* The values of every variable stay in their types; that only "running" and
\* the final statuses are published needs the phases.
LEMMA TypeStep == IInv /\ [Next]_vars => TypeOK'
<1> SUFFICES ASSUME TypeOK, \A c \in Calls : Phase(c), [Next]_vars PROVE TypeOK'
  BY DEF IInv
<1> USE DEF TypeOK, opVars, procVars, outVars, Goto, InFlight, Final, Ended, Alive
<1>1. ASSUME NEW c \in Calls, Handler(c) PROVE TypeOK'
  <2>1. CASE CheckRunning(c)  BY <2>1 DEF CheckRunning
  <2>2. CASE Spawn(c)         BY <2>2 DEF Spawn
  <2>3. CASE SpawnFails(c)    BY <2>3 DEF SpawnFails
  <2>4. CASE Register(c)      BY <2>4 DEF Register
  <2>5. CASE AnnounceStart(c) BY <2>5 DEF AnnounceStart, Publish, Phase
  <2>6. QED BY <1>1, <2>1, <2>2, <2>3, <2>4, <2>5 DEF Handler
<1>2. ASSUME NEW c \in Calls, Watch(c) PROVE TypeOK'
  <2>1. CASE ScanLine(c)
    <3>1. AppendLine(lines[c], read[c] + 1) \in Seq(Nat)
      BY AppendLineType
    <3>2. QED BY <2>1, <3>1 DEF ScanLine
  <2>2. CASE Reap(c)        BY <2>2 DEF Reap
  <2>3. CASE Close(c)       BY <2>3 DEF Close, Outcome
  <2>4. CASE AnnounceEnd(c) BY <2>4 DEF AnnounceEnd, Publish, Phase
  <2>5. QED BY <1>2, <2>1, <2>2, <2>3, <2>4 DEF Watch
<1>3. ASSUME NEW c \in Calls, Process(c) PROVE TypeOK'
  <2>1. CASE Emit(c) BY <2>1 DEF Emit
  <2>2. CASE Exit(c) BY <2>2 DEF Exit
  <2>3. CASE Kill(c) BY <2>3 DEF Kill
  <2>4. QED BY <1>3, <2>1, <2>2, <2>3 DEF Process
<1>4. ASSUME NEW c \in Calls, Cancel(c) \/ Age(c) PROVE TypeOK'
  BY <1>4 DEF Cancel, Age
<1>5. CASE List    BY <1>5 DEF List
<1>6. CASE Restart BY <1>6 DEF Restart
<1>7. CASE UNCHANGED vars BY <1>7 DEF vars
<1>8. QED BY <1>1, <1>2, <1>3, <1>4, <1>5, <1>6, <1>7 DEF Next

\* An action of one request leaves the phase and the marks of the others
\* alone: it changes nothing of theirs.
LEMMA OtherCalls ==
  ASSUME TypeOK, NEW c \in Calls, NEW d \in Calls \ {c}, Phase(d), Marks(d),
         Handler(c) \/ Watch(c) \/ Process(c) \/ Cancel(c) \/ Age(c)
  PROVE  Phase(d)' /\ Marks(d)'
<1>1. /\ pc'[d] = pc[d] /\ status'[d] = status[d] /\ pub'[d] = pub[d]
      /\ canceledReq'[d] = canceledReq[d] /\ (d \in registry' <=> d \in registry)
  <2> USE DEF TypeOK, opVars, outVars, procVars, Goto
  <2>1. CASE Handler(c)
    BY <2>1 DEF Handler, CheckRunning, Spawn, SpawnFails, Register, AnnounceStart, Publish
  <2>2. CASE Watch(c)
    BY <2>2 DEF Watch, ScanLine, Reap, Close, AnnounceEnd, Publish
  <2>3. CASE Process(c)
    BY <2>3 DEF Process, Emit, Exit, Kill
  <2>4. CASE Cancel(c) \/ Age(c)
    BY <2>4 DEF Cancel, Age
  <2>5. QED BY <2>1, <2>2, <2>3, <2>4
<1>2. QED BY <1>1 DEF Phase, Marks, Unregistered

\* The step of a request keeps its own phase and marks.
LEMMA OwnCall ==
  ASSUME TypeOK, NEW c \in Calls, Phase(c), Marks(c),
         Handler(c) \/ Watch(c) \/ Process(c) \/ Cancel(c) \/ Age(c)
  PROVE  Phase(c)' /\ Marks(c)'
<1> USE DEF TypeOK, opVars, outVars, procVars, Goto, Phase, Marks, Unregistered, Final
<1>1. CASE CheckRunning(c) \/ Spawn(c) \/ SpawnFails(c)
  BY <1>1 DEF CheckRunning, Spawn, SpawnFails
<1>2. CASE Register(c)
  BY <1>2 DEF Register
<1>3. CASE AnnounceStart(c)
  <2>1. pub'[c] = <<"running">>
    BY <1>3 DEF AnnounceStart, Publish
  <2>2. QED BY <1>3, <2>1 DEF AnnounceStart
<1>4. CASE ScanLine(c) \/ Reap(c)
  BY <1>4 DEF ScanLine, Reap
<1>5. CASE Close(c)
  BY <1>5 DEF Close, Outcome
<1>6. CASE AnnounceEnd(c)
  <2>1. pub'[c] = Append(<<"running">>, status[c])
    BY <1>6 DEF AnnounceEnd, Publish
  <2>2. status[c] \in Final \cup {"none", "running"} /\ "running" \in Final \cup {"none", "running"}
    BY DEF TypeOK
  <2>3. Append(<<"running">>, status[c]) = <<"running", status[c]>>
    BY ONLY <2>2, AppendPair
  <2>4. pub'[c] = <<"running", status[c]>>
    BY <2>1, <2>3
  <2>5. QED BY <1>6, <2>4 DEF AnnounceEnd
<1>7. CASE Process(c)
  BY <1>7 DEF Process, Emit, Exit, Kill
<1>8. CASE Cancel(c) \/ Age(c)
  BY <1>8 DEF Cancel, Age, HasCancel
<1>9. QED BY <1>1, <1>2, <1>3, <1>4, <1>5, <1>6, <1>7, <1>8 DEF Handler, Watch

\* List forgets only operations that ended, and a restart forgets them all.
LEMMA SharedStep ==
  ASSUME TypeOK, \A c \in Calls : Phase(c) /\ Marks(c), List \/ Restart \/ UNCHANGED vars
  PROVE  \A c \in Calls : Phase(c)' /\ Marks(c)'
<1> USE DEF TypeOK, Phase, Marks, Unregistered, Final, opVars, outVars, procVars
<1>1. CASE List
  BY <1>1 DEF List, Expired
<1>2. CASE Restart
  BY <1>2 DEF Restart, InFlight
<1>3. CASE UNCHANGED vars
  BY <1>3 DEF vars
<1>4. QED BY <1>1, <1>2, <1>3

LEMMA IInvStep == IInv /\ [Next]_vars => IInv'
<1> SUFFICES ASSUME IInv, [Next]_vars PROVE IInv'
  OBVIOUS
<1>1. TypeOK'
  BY TypeStep
<1>2. \A c \in Calls : Phase(c)' /\ Marks(c)'
  <2>1. CASE \E c \in Calls : Handler(c) \/ Watch(c) \/ Process(c) \/ Cancel(c) \/ Age(c)
    <3>1. PICK c \in Calls : Handler(c) \/ Watch(c) \/ Process(c) \/ Cancel(c) \/ Age(c)
      BY <2>1
    <3>2. Phase(c)' /\ Marks(c)'
      BY <3>1, OwnCall DEF IInv
    <3>3. \A d \in Calls \ {c} : Phase(d)' /\ Marks(d)'
      BY <3>1, OtherCalls DEF IInv
    <3>4. QED BY <3>2, <3>3
  <2>2. CASE List \/ Restart \/ UNCHANGED vars
    BY <2>2, SharedStep DEF IInv
  <2>3. QED BY <2>1, <2>2 DEF Next
<1>3. QED BY <1>1, <1>2 DEF IInv

LEMMA IInvInit == Init => IInv
BY DEF Init, IInv, TypeOK, Phase, Marks, Unregistered, InFlight, Final, Ended, Alive

\* The strengthened invariant holds in every reachable state.
THEOREM Invariance == Spec => []IInv
<1>1. QED BY IInvInit, IInvStep, PTL DEF Spec
----------------------------------------------------------------------------
\* Every variable keeps its type.
THEOREM TypeCorrect == Spec => []TypeOK
<1>1. IInv => TypeOK
  BY DEF IInv
<1>2. QED BY <1>1, Invariance, PTL

\* An operation that runs is never purged from the registry.
THEOREM RunningIsListed == Spec => []RunningListed
<1>1. IInv => RunningListed
  BY DEF IInv, Marks, RunningListed
<1>2. QED BY <1>1, Invariance, PTL

\* An operation ends canceled exactly when a Cancel of it was accepted.
THEOREM CancelDecidesAlways == Spec => []CancelDecides
<1>1. IInv => CancelDecides
  BY DEF IInv, Marks, CancelDecides
<1>2. QED BY <1>1, Invariance, PTL

\* The stream tells "running" first and the final status last.
THEOREM ToldInOrderAlways == Spec => []ToldInOrder
<1>1. IInv => ToldInOrder
  BY DEF IInv, TypeOK, InFlight, Phase, Unregistered, ToldInOrder
<1>2. QED BY <1>1, Invariance, PTL

\* Final statuses stay, and only what ended leaves the registry.
THEOREM FinalStaysAlways == Spec => FinalStays
<1> DEFINE Kept == restarts' = restarts =>
                     \A c \in Calls :
                       /\ status[c] \in Final => status'[c] = status[c]
                       /\ c \in registry \ registry' => status[c] \in Final
<1>1. IInv /\ [Next]_vars => [Kept]_vars
  <2> SUFFICES ASSUME IInv, [Next]_vars PROVE Kept
    BY DEF vars
  <2> USE DEF IInv, TypeOK, opVars, procVars, outVars, Goto, Phase, Final
  <2>1. ASSUME NEW c \in Calls, Handler(c) PROVE Kept
    BY <2>1 DEF Handler, CheckRunning, Spawn, SpawnFails, Register, AnnounceStart, Unregistered
  <2>2. ASSUME NEW c \in Calls, Watch(c) PROVE Kept
    BY <2>2 DEF Watch, ScanLine, Reap, Close, AnnounceEnd
  <2>3. ASSUME NEW c \in Calls, Process(c) PROVE Kept
    BY <2>3 DEF Process, Emit, Exit, Kill
  <2>4. ASSUME NEW c \in Calls, Cancel(c) \/ Age(c) PROVE Kept
    BY <2>4 DEF Cancel, Age
  <2>5. CASE List    BY <2>5 DEF List, Expired
  <2>6. CASE Restart BY <2>6 DEF Restart
  <2>7. CASE UNCHANGED vars BY <2>7 DEF vars
  <2>8. QED BY <2>1, <2>2, <2>3, <2>4, <2>5, <2>6, <2>7 DEF Next
<1>2. QED BY <1>1, Invariance, PTL DEF Spec, FinalStays
----------------------------------------------------------------------------
(* The runner implements its abstract life cycle: Register begins an       *)
(* operation, Close ends it, the two announcements tell, a restart         *)
(* forgets, and everything else is invisible.                              *)

Started == {"registered", "watching", "reaped", "closed", "finished", "lost"}

\* Steps that move a request along without the registry's view changing.
LEMMA SilentStep ==
  ASSUME status' = status, pub' = pub,
         \A c \in Calls : pc'[c] \in Started <=> pc[c] \in Started
  PROVE  UNCHANGED Lifecycle!lvars
BY DEF Lifecycle!lvars, Started

LEMMA SilentActions ==
  ASSUME IInv, NEW c \in Calls,
         \/ CheckRunning(c) \/ Spawn(c) \/ SpawnFails(c) \/ ScanLine(c) \/ Reap(c)
         \/ Process(c) \/ Cancel(c) \/ Age(c)
  PROVE  UNCHANGED Lifecycle!lvars
<1> USE DEF IInv, TypeOK, opVars, procVars, outVars, Goto, Started
<1>1. CASE CheckRunning(c)
  <2>1. status' = status /\ pub' = pub
    BY <1>1 DEF CheckRunning
  <2>2. pc[c] = "idle" /\ pc'[c] \in {"rejected", "checked"}
        /\ \A d \in Calls \ {c} : pc'[d] = pc[d]
    BY <1>1 DEF CheckRunning
  <2>3. QED BY <2>1, <2>2, SilentStep
<1>2. CASE Spawn(c) \/ SpawnFails(c)
  BY <1>2, SilentStep DEF Spawn, SpawnFails
<1>3. CASE ScanLine(c) \/ Reap(c)
  BY <1>3, SilentStep DEF ScanLine, Reap
<1>4. CASE Process(c)
  BY <1>4, SilentStep DEF Process, Emit, Exit, Kill
<1>5. CASE Cancel(c) \/ Age(c)
  BY <1>5, SilentStep DEF Cancel, Age
<1>6. QED BY <1>1, <1>2, <1>3, <1>4, <1>5

LEMMA RefinementStep == IInv /\ [Next]_vars => [Lifecycle!LNext]_(Lifecycle!lvars)
<1> SUFFICES ASSUME IInv, [Next]_vars
             PROVE  Lifecycle!LNext \/ UNCHANGED Lifecycle!lvars
  OBVIOUS
<1> USE DEF IInv, TypeOK, opVars, procVars, outVars, Goto
<1>1. ASSUME NEW c \in Calls, Register(c) PROVE Lifecycle!Begin(c)
  BY <1>1 DEF Register, Lifecycle!Begin
<1>2. ASSUME NEW c \in Calls, Close(c) PROVE Lifecycle!End(c)
  <2>1. status[c] = "running" /\ pub[c] = <<"running">>
    BY <1>2 DEF Close, Phase
  <2>2. Outcome(c) \in Lifecycle!Final
    BY DEF Outcome, Lifecycle!Final
  <2>3. QED BY <1>2, <2>1, <2>2 DEF Close, Lifecycle!End
<1>3. ASSUME NEW c \in Calls, AnnounceStart(c) \/ AnnounceEnd(c) PROVE Lifecycle!Tell(c)
  BY <1>3 DEF AnnounceStart, AnnounceEnd, Publish, Phase, Final, Lifecycle!Tell, Lifecycle!Final
<1>4. CASE Restart
  <2> DEFINE lost == {c \in Calls : pc'[c] = "lost"}
  <2>1. {c \in Calls : pc'[c] \in Started} = {c \in Calls : pc[c] \in Started} \cup lost
    BY <1>4 DEF Restart, InFlight, Started
  <2>2. QED BY <1>4, <2>1 DEF Restart, Lifecycle!Forget, Lifecycle!LNext, Started
<1>5. ASSUME List \/ UNCHANGED vars PROVE UNCHANGED Lifecycle!lvars
  BY <1>5 DEF List, vars, Lifecycle!lvars
<1>6. QED
  BY <1>1, <1>2, <1>3, <1>4, <1>5, SilentActions
     DEF Next, Handler, Watch, Lifecycle!LNext

LEMMA RefinementInit == Init => Lifecycle!LInit
BY DEF Init, Lifecycle!LInit

\* Every behaviour of the runner is a behaviour of the abstract life cycle.
THEOREM Refinement == Spec => ImplementsLifecycle
<1>1. QED
  BY RefinementInit, RefinementStep, Invariance, PTL
     DEF Spec, ImplementsLifecycle, Lifecycle!LSpec
----------------------------------------------------------------------------
(* The output ring.                                                        *)

LastLines(n) == [i \in 1..Smaller(n, MaxLines) |-> n - Smaller(n, MaxLines) + i]

\* Appending line n + 1 to the last lines of n gives the last lines of n + 1.
LEMMA RingAppend ==
  ASSUME NEW n \in Nat
  PROVE  AppendLine(LastLines(n), n + 1) = LastLines(n + 1)
<1> DEFINE size  == Smaller(n, MaxLines)
           grown == Append(LastLines(n), n + 1)
<1>1. size \in Nat /\ size <= n /\ size <= MaxLines
  BY DEF Smaller
<1>2. LastLines(n) \in Seq(Nat) /\ Len(LastLines(n)) = size
  BY <1>1 DEF LastLines
<1>3. grown \in Seq(Nat) /\ Len(grown) = size + 1
      /\ \A i \in 1..size + 1 : grown[i] = n - size + i
  <2>1. \A i \in 1..size : grown[i] = LastLines(n)[i]
    BY <1>2, AppendProperties
  <2>2. grown[size + 1] = n + 1
    BY <1>2, AppendProperties
  <2>3. grown \in Seq(Nat) /\ Len(grown) = size + 1
    BY <1>2, AppendProperties
  <2>4. \A i \in 1..size : LastLines(n)[i] = n - size + i
    BY DEF LastLines
  <2>5. QED BY <1>1, <2>1, <2>2, <2>3, <2>4
<1>4. LastLines(n + 1) \in Seq(Nat) /\ Len(LastLines(n + 1)) = Smaller(n + 1, MaxLines)
  BY DEF LastLines, Smaller
<1> HIDE DEF grown
<1>5. CASE size + 1 <= MaxLines
  <2>1. Smaller(n + 1, MaxLines) = size + 1 /\ size = n
    BY <1>1, <1>5 DEF Smaller
  <2>2. AppendLine(LastLines(n), n + 1) = grown
    BY <1>1, <1>3, <1>5 DEF AppendLine, grown
  <2>3. \A i \in 1..size + 1 : grown[i] = LastLines(n + 1)[i]
    BY <1>1, <1>3, <2>1 DEF LastLines
  <2>4. QED BY <1>3, <1>4, <2>1, <2>2, <2>3, SeqEqual
<1>6. CASE size = MaxLines
  <2> DEFINE cut == SubSeq(grown, 2, size + 1)
  <2>1. Smaller(n + 1, MaxLines) = size
    BY <1>1, <1>6 DEF Smaller
  <2>2. AppendLine(LastLines(n), n + 1) = cut
    <3>1. Len(grown) = MaxLines + 1 /\ MaxLines + 1 > MaxLines
          /\ Len(grown) - MaxLines + 1 = 2 /\ Len(grown) = size + 1
      BY <1>1, <1>3, <1>6
    <3>2. QED BY <3>1 DEF AppendLine, grown
  <2>3. cut \in Seq(Nat) /\ Len(cut) = size /\ \A i \in 1..size : cut[i] = grown[i + 1]
    BY <1>1, <1>3
  <2> HIDE DEF cut
  <2>4. \A i \in 1..size : cut[i] = LastLines(n + 1)[i]
    <3> SUFFICES ASSUME NEW i \in 1..size PROVE cut[i] = LastLines(n + 1)[i]
      OBVIOUS
    <3> HIDE DEF size
    <3>1. LastLines(n + 1)[i] = n + 1 - size + i
      BY <1>1, <2>1 DEF LastLines
    <3>2. i \in Nat /\ i + 1 \in 1..size + 1
      BY <1>1
    <3>3. cut[i] = n - size + (i + 1)
      BY <1>3, <2>3, <3>2
    <3>4. QED BY <1>1, <3>1, <3>2, <3>3
  <2>5. QED BY <1>4, <2>1, <2>2, <2>3, <2>4, SeqEqual
<1>7. QED BY <1>1, <1>5, <1>6

\* The ring always holds the last lines the scanner read.
THEOREM RingIsTailAlways == Spec => []RingIsTail
<1>1. RingIsTail <=> \A c \in Calls : lines[c] = LastLines(read[c])
  BY DEF RingIsTail, LastLines
<1>2. Init => RingIsTail
  <2>1. LastLines(0) = <<>>
    BY DEF LastLines, Smaller
  <2>2. QED BY <1>1, <2>1 DEF Init
<1>3. IInv /\ RingIsTail /\ [Next]_vars => RingIsTail'
  <2> SUFFICES ASSUME IInv, RingIsTail, [Next]_vars PROVE RingIsTail'
    OBVIOUS
  <2>1. CASE \E c \in Calls : ScanLine(c)
    <3>1. PICK c \in Calls : ScanLine(c)
      BY <2>1
    <3>2. lines'[c] = AppendLine(LastLines(read[c]), read[c] + 1)
          /\ read'[c] = read[c] + 1
          /\ \A d \in Calls \ {c} : lines'[d] = lines[d] /\ read'[d] = read[d]
      BY <1>1, <3>1 DEF ScanLine, IInv, TypeOK
    <3>3. lines'[c] = LastLines(read'[c])
      BY <3>2, RingAppend DEF IInv, TypeOK
    <3>4. \A d \in Calls : lines'[d] = LastLines(read'[d])
      BY <1>1, <3>2, <3>3
    <3>5. QED BY <3>4 DEF RingIsTail, LastLines
  <2>2. CASE Restart
    <3>1. LastLines(0) = <<>>
      BY DEF LastLines, Smaller
    <3>2. \A c \in Calls : lines'[c] = LastLines(read'[c])
      BY <2>2, <3>1 DEF Restart
    <3>3. QED BY <3>2 DEF RingIsTail, LastLines
  <2>3. ASSUME UNCHANGED <<read, lines>> PROVE RingIsTail'
    BY <2>3 DEF RingIsTail
  <2>4. ASSUME NEW c \in Calls, Handler(c) \/ Process(c) \/ Cancel(c) \/ Age(c)
               \/ Reap(c) \/ Close(c) \/ AnnounceEnd(c)
        PROVE  UNCHANGED <<read, lines>>
    BY <2>4 DEF Handler, CheckRunning, Spawn, SpawnFails, Register, AnnounceStart,
                Process, Emit, Exit, Kill, Cancel, Age, Reap, Close, AnnounceEnd, outVars
  <2>5. ASSUME List \/ UNCHANGED vars PROVE UNCHANGED <<read, lines>>
    BY <2>5 DEF List, vars, outVars
  <2>6. QED BY <2>1, <2>2, <2>3, <2>4, <2>5 DEF Next, Watch
<1>4. QED BY <1>2, <1>3, Invariance, PTL DEF Spec

----------------------------------------------------------------------------
(* The process behind an operation.                                        *)

HasProcess == Ended \cup Alive

Attached(c) ==
  /\ pc[c] \in {"spawned", "registered", "watching"} => proc[c] \in HasProcess
  /\ pc[c] \in {"reaped", "closed"} => proc[c] \in Ended
  /\ status[c] \in Final => proc[c] \in Ended
  /\ status[c] = "done" => proc[c] = "exit0"

\* The registry says that an operation ended only once its process has, and
\* that it is done only if the process said so.
EndIsExit ==
  \A c \in Calls : /\ status[c] \in Final => proc[c] \in Ended
                   /\ status[c] = "done" => proc[c] = "exit0"

\* A canceled operation that still runs has its watch goroutine, or is about to
\* get it, and its process is there, to be killed or to go on, or has ended.
CancelFollowed ==
  \A c \in Calls : canceledReq[c] /\ status[c] = "running" =>
    \/ pc[c] \in {"registered", "watching"} /\ proc[c] \in HasProcess
    \/ pc[c] = "reaped" /\ proc[c] \in Ended

LEMMA AttachedStep ==
  ASSUME IInv, \A c \in Calls : Attached(c), [Next]_vars
  PROVE  \A c \in Calls : Attached(c)'
<1> USE DEF IInv, TypeOK, Attached, HasProcess, Ended, Alive, Final, Goto, opVars, procVars, outVars
<1>1. ASSUME NEW c \in Calls, Handler(c) \/ Watch(c) \/ Process(c) \/ Cancel(c) \/ Age(c)
      PROVE  \A d \in Calls : Attached(d)'
  <2>1. CASE CheckRunning(c) \/ Spawn(c) \/ SpawnFails(c)
    BY <2>1 DEF CheckRunning, Spawn, SpawnFails, InFlight, Phase, Unregistered
  <2>2. CASE Register(c)
    BY <2>2 DEF Register, InFlight
  <2>3. CASE AnnounceStart(c)
    BY <2>3 DEF AnnounceStart, InFlight
  <2>4. CASE ScanLine(c) \/ Reap(c) \/ AnnounceEnd(c)
    BY <2>4 DEF ScanLine, Reap, AnnounceEnd, InFlight
  <2>5. CASE Close(c)
    BY <2>5 DEF Close, Outcome, InFlight
  <2>6. CASE Process(c)
    BY <2>6 DEF Process, Emit, Exit, Kill, InFlight
  <2>7. CASE Cancel(c) \/ Age(c)
    BY <2>7 DEF Cancel, Age
  <2> QED BY <1>1, <2>1, <2>2, <2>3, <2>4, <2>5, <2>6, <2>7 DEF Handler, Watch
<1>2. CASE List \/ UNCHANGED vars
  BY <1>2 DEF List, vars
<1>3. CASE Restart
  BY <1>3 DEF Restart, InFlight
<1> QED BY <1>1, <1>2, <1>3 DEF Next

LEMMA AttachedAlways == Spec => [](\A c \in Calls : Attached(c))
<1>1. Init => \A c \in Calls : Attached(c)
  BY DEF Init, Attached, Final
<1>2. IInv /\ (\A c \in Calls : Attached(c)) /\ [Next]_vars => (\A c \in Calls : Attached(c))'
  BY AttachedStep
<1>3. QED BY <1>1, <1>2, Invariance, PTL DEF Spec

(* What waits for the end of an operation (Running, and the polling of Get)  *)
(* does not go on while its process is still at work: watch writes the final *)
(* status after cmd.Wait.                                                    *)
THEOREM EndIsExitAlways == Spec => []EndIsExit
<1>1. (\A c \in Calls : Attached(c)) => EndIsExit
  BY DEF Attached, EndIsExit
<1>2. QED BY <1>1, AttachedAlways, PTL

(* The safety half of CancelEnds: from the moment a cancel is accepted, in   *)
(* the middle of Start or of watch, there is a goroutine that will write the *)
(* final status, and it waits for nothing but the process of the operation.  *)
THEOREM CancelIsFollowed == Spec => []CancelFollowed
<1>1. IInv /\ (\A c \in Calls : Attached(c)) => CancelFollowed
  BY DEF IInv, TypeOK, Phase, Unregistered, Attached, CancelFollowed, InFlight, Final
<1>2. QED BY <1>1, Invariance, AttachedAlways, PTL
============================================================================
