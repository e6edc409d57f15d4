--------------------------- MODULE MCReplication ---------------------------
EXTENDS Replication, TLC

CONSTANTS exec1, exec2, jobA, jobB, tank

MCOneSource == [d \in Defs |-> tank]

ExecSymmetry == Permutations(Execs)
============================================================================
