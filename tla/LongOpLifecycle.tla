-------------------------- MODULE LongOpLifecycle --------------------------
(***************************************************************************)
(* What the long-operation runner promises to the components that use it   *)
(* (the rewrite handler, the replication runner) and to the web client:    *)
(* an operation starts once, ends once, and every client is told first     *)
(* that it runs and then how it ended.  The registry lives in memory, so a *)
(* restart of the daemon forgets every operation.                          *)
(***************************************************************************)
EXTENDS Naturals, Sequences

CONSTANT Calls        \* the operations that may be started

VARIABLES
  begun,              \* the operations that were ever started
  state,              \* what the registry says of each operation
  told                \* the states published on the event stream, in order

lvars == <<begun, state, told>>

Final == {"done", "error", "canceled"}

LInit ==
  /\ begun = {}
  /\ state = [c \in Calls |-> "none"]
  /\ told  = [c \in Calls |-> <<>>]

Begin(c) ==
  /\ c \notin begun
  /\ begun' = begun \cup {c}
  /\ state' = [state EXCEPT ![c] = "running"]
  /\ UNCHANGED told

\* An operation ends only after its start was announced.
End(c) ==
  /\ state[c] = "running"
  /\ told[c] = <<"running">>
  /\ \E s \in Final : state' = [state EXCEPT ![c] = s]
  /\ UNCHANGED <<begun, told>>

Tell(c) ==
  /\ \/ state[c] = "running" /\ told[c] = <<>>
     \/ state[c] \in Final /\ told[c] = <<"running">>
  /\ told' = [told EXCEPT ![c] = Append(@, state[c])]
  /\ UNCHANGED <<begun, state>>

Forget ==
  /\ \E lost \in SUBSET Calls : begun' = begun \cup lost
  /\ state' = [c \in Calls |-> "none"]
  /\ told'  = [c \in Calls |-> <<>>]

LNext ==
  \/ \E c \in Calls : Begin(c) \/ End(c) \/ Tell(c)
  \/ Forget

LSpec == LInit /\ [][LNext]_lvars
============================================================================
