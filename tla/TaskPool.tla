------------------------------ MODULE TaskPool ------------------------------
(***************************************************************************)
(* What the thread pool of pool/pool.h promises, with no threads, locks or *)
(* maps: a task handed to SubmitTask joins a first-in first-out queue, is  *)
(* started once by some worker, ends once, and is collected once, by the   *)
(* WaitForTask that names it, after it has ended.  Stop may only abandon   *)
(* tasks that have not started.                                            *)
(***************************************************************************)
EXTENDS Sequences, FiniteSets, Naturals

CONSTANTS Tasks,       \* the tasks that are ever submitted
          MaxRunning   \* how many tasks run at once: the number of workers

VARIABLES queue,       \* tasks that wait for a worker, oldest first
          running,     \* tasks whose Run() has begun and is not reported
          ended,       \* tasks whose end is reported and nobody collected
          collected    \* tasks whose WaitForTask has returned

vars == <<queue, running, ended, collected>>

Queued == {queue[i] : i \in DOMAIN queue}

Init == /\ queue = <<>>
        /\ running = {}
        /\ ended = {}
        /\ collected = {}

Submit(t) == /\ t \notin Queued \cup running \cup ended \cup collected
             /\ queue' = Append(queue, t)
             /\ UNCHANGED <<running, ended, collected>>

Start == /\ queue # <<>>
         /\ Cardinality(running) < MaxRunning
         /\ running' = running \cup {Head(queue)}
         /\ queue' = Tail(queue)
         /\ UNCHANGED <<ended, collected>>

End(t) == /\ t \in running
          /\ running' = running \ {t}
          /\ ended' = ended \cup {t}
          /\ UNCHANGED <<queue, collected>>

Collect(t) == /\ t \in ended
              /\ ended' = ended \ {t}
              /\ collected' = collected \cup {t}
              /\ UNCHANGED <<queue, running>>

Next == \/ Start
        \/ \E t \in Tasks : Submit(t) \/ End(t) \/ Collect(t)

Spec == Init /\ [][Next]_vars
=============================================================================
