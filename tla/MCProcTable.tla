---------------------------- MODULE MCProcTable -----------------------------
(* Model values for ProcTable.  CPUs are interchangeable.                   *)
EXTENDS ProcTable, TLC

CONSTANTS cpu0, cpu1

MCSymmetry == Permutations({cpu0, cpu1})
=============================================================================
