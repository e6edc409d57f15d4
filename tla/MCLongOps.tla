----------------------------- MODULE MCLongOps -----------------------------
(* Two requests on one dataset. *)
EXTENDS LongOps

CONSTANTS c1, c2, tank

MCTargetOf == [c \in {c1, c2} |-> tank]
============================================================================
