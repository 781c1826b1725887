----------------------------- MODULE AtomicDisk -----------------------------
(***************************************************************************)
(* What log.c promises of the file system's blocks: operations write a     *)
(* volatile image, and the durable image changes only to a state between   *)
(* operations, so that a crash never leaves half of one behind.            *)
(***************************************************************************)
CONSTANTS Procs, Blocks, Data

VARIABLES mem, durable, inOp

vars == <<mem, durable, inOp>>

Init ==
  /\ durable \in [Blocks -> Data]
  /\ mem = durable
  /\ inOp = {}

Begin(p) ==
  /\ p \notin inOp
  /\ inOp' = inOp \cup {p}
  /\ UNCHANGED <<mem, durable>>

Write(p) ==
  /\ p \in inOp
  /\ \E b \in Blocks, d \in Data : mem' = [mem EXCEPT ![b] = d]
  /\ UNCHANGED <<durable, inOp>>

End(p) ==
  /\ p \in inOp
  /\ inOp' = inOp \ {p}
  /\ UNCHANGED <<mem, durable>>

Commit ==
  /\ inOp = {}
  /\ durable' = mem
  /\ UNCHANGED <<mem, inOp>>

Crash ==
  /\ mem' = durable
  /\ inOp' = {}
  /\ UNCHANGED durable

Next == (\E p \in Procs : Begin(p) \/ Write(p) \/ End(p)) \/ Commit \/ Crash

Spec == Init /\ [][Next]_vars
=============================================================================
