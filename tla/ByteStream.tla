----------------------------- MODULE ByteStream -----------------------------
(***************************************************************************)
(* What a pipe promises to the processes that have its ends: the bytes     *)
(* come out once and in the order they went in, and a read comes back      *)
(* empty only when all were read and nobody can write any more.            *)
(***************************************************************************)
EXTENDS Sequences, Naturals

CONSTANTS Procs, Failed

VARIABLES queue, writers,
          result    \* of the last step if it ends a read, with its reader

vars == <<queue, writers, result>>

Init ==
  /\ queue = <<>> /\ writers = {}
  /\ result = <<>>

Open(p) ==
  /\ writers = {}
  /\ writers' = {p}
  /\ queue' = <<>>
  /\ result' = <<>>

Share(p, q) ==
  /\ p \in writers
  /\ writers' = writers \cup {q}
  /\ UNCHANGED queue /\ result' = <<>>

\* Also the steps that are none of the stream's: processes, readers, sleeps.
Leave(p) ==
  /\ writers' = writers \ {p}
  /\ UNCHANGED queue /\ result' = <<>>

Write(p) ==
  /\ p \in writers
  /\ Len(queue') >= Len(queue) /\ SubSeq(queue', 1, Len(queue)) = queue
  /\ UNCHANGED writers /\ result' = <<>>

Read(p) ==
  \E n \in 0 .. Len(queue) :
    /\ n = 0 => queue = <<>> /\ writers = {}
    /\ result' = <<p, SubSeq(queue, 1, n)>>
    /\ queue' = SubSeq(queue, n + 1, Len(queue))
    /\ UNCHANGED writers

ReadFails(p) ==
  /\ result' = <<p, Failed>>
  /\ UNCHANGED <<queue, writers>>

Next ==
  \/ \E p \in Procs : Open(p) \/ Leave(p) \/ Write(p) \/ Read(p) \/ ReadFails(p)
  \/ \E p, q \in Procs : Share(p, q)

Spec == Init /\ [][Next]_vars
=============================================================================
