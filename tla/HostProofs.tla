----------------------------- MODULE HostProofs -----------------------------
(***************************************************************************)
(* Proofs about the two programs of the host system that run threads and   *)
(* processes: ThreadPool for any number of workers, clients, tasks and     *)
(* names, and Shell for any lines, programs, files and process slots.      *)
(***************************************************************************)
EXTENDS ThreadPool, Shell, FiniteSetTheorems, WellFoundedInduction, TLAPS

CallPlaces == {"submit", "insert_lock", "insert", "submit_unlock",
               "wait_lock", "wait_test", "sleep"}

(* A worker has a task from the pop to the report, a thread has an argument *)
(* as long as it is inside SubmitTask or WaitForTask.                       *)
LocalsOK ==
  /\ \A w \in Workers :
       cur[w] # NoTask <=> pc[w] \in {"run", "report_lock", "report"}
                                     \cup CallPlaces
  /\ \A th \in Threads : arg[th] # NoTask <=> pc[th] \in CallPlaces
  /\ \A th \in Threads : pc[th] \in {"check", "check_read", "pop_lock", "pop",
                            "run", "report_lock", "report"} => th \in Workers

TInv == TypeOK /\ LocalsOK

LEMMA InitTInv == Init => TInv
<1> SUFFICES ASSUME Init PROVE TInv
  OBVIOUS
<1> USE ThreadsAssumption, TasksAssumption DEF Init
<1>1. TypeOK
  <2>1. pc \in [Threads -> Places] BY DEF Threads, Places
  <2>2. /\ cur \in [Workers -> Tasks \cup {NoTask}]
        /\ arg \in [Threads -> Tasks \cup {NoTask}]
    OBVIOUS
  <2>3. task_queue \in Seq(Tasks) OBVIOUS
  <2>4. status \in [Names -> {Absent, Pending, Ran}] OBVIOUS
  <2>5. /\ stopCalled \in BOOLEAN /\ destroyed \in BOOLEAN
        /\ {queue_lock, map_lock, stop_lock} \subseteq Threads \cup {NoThread}
        /\ submitted \subseteq Tasks /\ requested \subseteq Tasks
        /\ ended \subseteq Tasks /\ collected \subseteq Tasks
    OBVIOUS
  <2> QED BY <2>1, <2>2, <2>3, <2>4, <2>5 DEF TypeOK
<1>2. LocalsOK
  BY DEF LocalsOK, Threads, CallPlaces
<1> QED BY <1>1, <1>2 DEF TInv

LEMMA NextTInv == TInv /\ [Next]_vars => TInv'
<1> SUFFICES ASSUME TInv, [Next]_vars PROVE TInv'
  OBVIOUS
<1> USE ThreadsAssumption, TasksAssumption
    DEF TInv, TypeOK, LocalsOK, Threads, Places, CallPlaces, Goto, Home, locks,
        client
<1>1. ASSUME NEW w \in Workers, CheckLock(w) PROVE TInv'
  BY <1>1 DEF CheckLock
<1>2. ASSUME NEW w \in Workers, CheckStop(w) PROVE TInv'
  BY <1>2 DEF CheckStop
<1>3. ASSUME NEW w \in Workers, PopLock(w) PROVE TInv'
  BY <1>3 DEF PopLock
<1>4. ASSUME NEW w \in Workers, PopTask(w) PROVE TInv'
  BY <1>4 DEF PopTask
<1>5. ASSUME NEW w \in Workers, PopNothing(w) PROVE TInv'
  BY <1>5 DEF PopNothing, LeavePop
<1>6. ASSUME NEW w \in Workers, RunReturn(w) PROVE TInv'
  BY <1>6 DEF RunReturn
<1>7. ASSUME NEW w \in Workers, ReportLock(w) PROVE TInv'
  BY <1>7 DEF ReportLock
<1>8. ASSUME NEW w \in Workers, Report(w) PROVE TInv'
  BY <1>8, SMTT(30) DEF Report, Sleepers
<1>9. ASSUME NEW th \in Threads, Enqueue(th) PROVE TInv'
  BY <1>9 DEF Enqueue, PushThen
<1>10. ASSUME NEW th \in Threads, InsertLock(th) PROVE TInv'
  BY <1>10 DEF InsertLock
<1>11. ASSUME NEW th \in Threads, Insert(th) PROVE TInv'
  BY <1>11 DEF Insert
<1>12. ASSUME NEW th \in Threads, SubmitReturn(th) PROVE TInv'
  BY <1>12 DEF SubmitReturn
<1>13. ASSUME NEW th \in Threads, WaitLock(th) PROVE TInv'
  BY <1>13 DEF WaitLock
<1>14. ASSUME NEW th \in Threads, CondWait(th) PROVE TInv'
  BY <1>14 DEF CondWait
<1>15. ASSUME NEW th \in Threads, WaitReturn(th) PROVE TInv'
  BY <1>15 DEF WaitReturn, Collect
<1>16. ASSUME NEW th \in Threads, SpuriousWakeup(th) PROVE TInv'
  BY <1>16 DEF SpuriousWakeup
<1>17. ASSUME NEW c \in Clients, StopStep(c) PROVE TInv'
  <2>1. ASSUME StopLock(c) PROVE TInv'
    BY <2>1 DEF StopLock
  <2>2. ASSUME SetStop(c) PROVE TInv'
    BY <2>2 DEF SetStop, RaiseFlag
  <2>3. ASSUME Join(c) PROVE TInv'
    BY <2>3 DEF Join, JoinWhen
  <2> QED BY <1>17, <2>1, <2>2, <2>3 DEF StopStep
<1>18. ASSUME NEW th \in Threads, NEW t \in Tasks, SubmitTask(th, t) PROVE TInv'
  BY <1>18 DEF SubmitTask, MaySubmit, MayCall
<1>19. ASSUME NEW th \in Threads, NEW t \in Tasks, WaitForTask(th, t)
       PROVE  TInv'
  BY <1>19 DEF WaitForTask, MayWait, MayCall
<1>20. ASSUME NEW c \in Clients, Stop(c) PROVE TInv'
  BY <1>20 DEF Stop, MayStop
<1>21. CASE UNCHANGED vars
  BY <1>21 DEF vars
<1> HIDE DEF TInv, TypeOK, LocalsOK, Places, CallPlaces, Goto, Home, locks,
        client
<1>22. ASSUME NEW th \in Threads, Step(th) PROVE TInv'
  BY <1>22, <1>1, <1>2, <1>3, <1>4, <1>5, <1>6, <1>7, <1>8, <1>9, <1>10,
     <1>11, <1>12, <1>13, <1>14, <1>15, <1>17
  DEF Step, WorkerStep, CallStep
<1>23. ASSUME NewCall PROVE TInv'
  BY <1>23, <1>18, <1>19, <1>20 DEF NewCall
<1> QED
  BY <1>16, <1>21, <1>22, <1>23 DEF Next

\* Every variable keeps its type, whatever the threads do (pool.cc:30-148).
THEOREM TypeCorrect == Spec => []TypeOK
<1>1. TInv => TypeOK BY DEF TInv
<1> QED BY InitTInv, NextTInv, <1>1, PTL DEF Spec

-----------------------------------------------------------------------------
(* The state of each mutex and of each task, inductively.                   *)

LocksOK ==
  /\ \A th \in Threads :
       pc[th] \in {"pop", "insert_lock", "insert", "submit_unlock"}
         => queue_lock = th
  /\ \A th \in Threads :
       pc[th] \in {"report", "insert", "wait_test"} => map_lock = th

InQueue(t) == \E i \in DOMAIN task_queue : task_queue[i] = t

\* A task is in one place at a time: at a thread that is about to push it, in
\* the queue, at a worker, or reported.
TasksOK ==
  /\ \A i, j \in DOMAIN task_queue : task_queue[i] = task_queue[j] => i = j
  /\ \A t \in Tasks : InQueue(t) => t \in Outstanding \ ended
  /\ \A w \in Workers : cur[w] # NoTask =>
       /\ cur[w] \in Outstanding
       /\ ~InQueue(cur[w])
       /\ pc[w] \in {"report_lock", "report"} <=> cur[w] \in ended
       /\ \A v \in Workers : cur[v] = cur[w] => v = w
  /\ \A th \in Threads :
       pc[th] = "submit" =>
         /\ ~InQueue(arg[th])
         /\ arg[th] \notin ended
         /\ \A w \in Workers : cur[w] # arg[th]
  /\ \A th \in Threads :
       pc[th] \in {"insert_lock", "insert"} => InQueue(arg[th])
  /\ ended \subseteq submitted
  /\ collected \subseteq ended

CallsOK ==
  /\ \A th \in Threads : arg[th] # NoTask => arg[th] \in submitted
  /\ \A th \in Threads :
       pc[th] \in {"wait_lock", "wait_test", "sleep"} =>
         /\ arg[th] \in requested \cap Outstanding
         /\ ~InSubmit(arg[th])
         /\ \A uh \in Threads : arg[uh] = arg[th] => uh = th
  /\ \A th \in Threads :
       pc[th] \in {"submit", "insert_lock", "insert", "submit_unlock"} =>
         \A uh \in Threads : arg[uh] = arg[th] => uh = th
  /\ collected \subseteq requested /\ requested \subseteq submitted

NamesOK ==
  /\ \A t, u \in Outstanding : NameOf[t] = NameOf[u] => t = u
  /\ \A n \in Names :
       status[n] # Absent => \E t \in Outstanding : NameOf[t] = n

PoolInv == /\ LocksOK /\ TasksOK /\ CallsOK /\ NamesOK /\ StatusTellsTruth

-----------------------------------------------------------------------------
LEMMA InitPoolInv == Init => PoolInv
<1> SUFFICES ASSUME Init PROVE PoolInv
  OBVIOUS
<1> USE ThreadsAssumption, TasksAssumption DEF Init, Threads
<1>1. LocksOK /\ TasksOK /\ CallsOK /\ NamesOK
  BY DEF LocksOK, TasksOK, CallsOK, NamesOK, InQueue, Outstanding
<1>2. StatusTellsTruth
  BY DEF StatusTellsTruth, Outstanding
<1> QED BY <1>1, <1>2 DEF PoolInv

LEMMA NextPoolInv == TInv /\ PoolInv /\ [Next]_vars => PoolInv'
<1> SUFFICES ASSUME TInv, PoolInv, [Next]_vars PROVE PoolInv'
  OBVIOUS
<1> USE ThreadsAssumption, TasksAssumption
    DEF TInv, PoolInv, TypeOK, LocalsOK, CallPlaces, Places, Goto, Home, locks,
        client, Threads, Outstanding
<1>1. ASSUME NEW w \in Workers, CheckLock(w) PROVE PoolInv'
  BY <1>1 DEF CheckLock, LocksOK, TasksOK, CallsOK, NamesOK,
     InQueue, InSubmit, StatusTellsTruth
<1>2. ASSUME NEW w \in Workers, CheckStop(w) PROVE PoolInv'
  BY <1>2 DEF CheckStop, LocksOK, TasksOK, CallsOK, NamesOK,
     InQueue, InSubmit, StatusTellsTruth
<1>3. ASSUME NEW w \in Workers, PopLock(w) PROVE PoolInv'
  BY <1>3 DEF PopLock, LocksOK, TasksOK, CallsOK, NamesOK,
     InQueue, InSubmit, StatusTellsTruth
<1>4. ASSUME NEW w \in Workers, PopTask(w) PROVE PoolInv'
  <2> USE <1>4 DEF PopTask
  <2>1. LocksOK'
    BY DEF LocksOK
  <2>2. TasksOK'
    BY DEF LocksOK, TasksOK, CallsOK, StatusTellsTruth, InQueue
  <2>3. CallsOK'
    BY DEF TasksOK, CallsOK, InSubmit
  <2>4. NamesOK'
    BY DEF TasksOK, CallsOK, NamesOK, Absent, Pending, Ran
  <2>5. StatusTellsTruth'
    BY DEF LocksOK, TasksOK, CallsOK, NamesOK, InQueue,
             StatusTellsTruth, Absent, Pending, Ran
  <2> QED BY <2>1, <2>2, <2>3, <2>4, <2>5 DEF PoolInv
<1>5. ASSUME NEW w \in Workers, PopNothing(w) PROVE PoolInv'
  BY <1>5 DEF PopNothing, LeavePop, LocksOK, TasksOK, CallsOK, NamesOK,
     InQueue, InSubmit, StatusTellsTruth
<1>6. ASSUME NEW w \in Workers, RunReturn(w) PROVE PoolInv'
  <2> USE <1>6 DEF RunReturn
  <2>1. LocksOK'
    BY DEF LocksOK
  <2>2. TasksOK'
    BY DEF LocksOK, TasksOK, CallsOK, StatusTellsTruth, InQueue
  <2>3. CallsOK'
    BY DEF TasksOK, CallsOK, InSubmit
  <2>4. NamesOK'
    BY DEF TasksOK, CallsOK, NamesOK, Absent, Pending, Ran
  <2>5. StatusTellsTruth'
    BY DEF LocksOK, TasksOK, CallsOK, NamesOK, InQueue,
             StatusTellsTruth, Absent, Pending, Ran
  <2> QED BY <2>1, <2>2, <2>3, <2>4, <2>5 DEF PoolInv
<1>7. ASSUME NEW w \in Workers, ReportLock(w) PROVE PoolInv'
  BY <1>7 DEF ReportLock, LocksOK, TasksOK, CallsOK, NamesOK,
     InQueue, InSubmit, StatusTellsTruth
<1>8. ASSUME NEW w \in Workers, Report(w) PROVE PoolInv'
  <2> USE <1>8 DEF Report, Sleepers
  <2>1. LocksOK'
    BY DEF LocksOK
  <2>2. TasksOK'
    BY DEF LocksOK, TasksOK, CallsOK, StatusTellsTruth, InQueue
  <2>3. CallsOK'
    <3>1. \A th \in Threads :
            \/ pc'[th] = pc[th]
            \/ pc'[th] = "check"
            \/ pc[th] = "sleep" /\ pc'[th] = "wait_lock"
      BY DEF Goto
    <3>2. UNCHANGED <<arg, submitted, requested, collected>>
      BY DEF client
    <3>3. \A t \in Outstanding : InSubmit(t)' => InSubmit(t)
      BY <3>1, <3>2 DEF InSubmit
    <3>4. Outstanding' = Outstanding
      BY <3>2 DEF Outstanding
    <3> QED
      BY <3>1, <3>2, <3>3, <3>4 DEF TasksOK, CallsOK
  <2>4. NamesOK'
    BY DEF TasksOK, CallsOK, NamesOK, Absent, Pending, Ran
  <2>5. StatusTellsTruth'
    <3> DEFINE n == NameOf[cur[w]]
    <3>1. /\ cur[w] \in Outstanding /\ cur[w] \in ended
          /\ pc[w] = "report" /\ map_lock = w
          /\ n \in Names /\ status' = [status EXCEPT ![n] = Ran]
          /\ cur' = [cur EXCEPT ![w] = NoTask]
      BY DEF LocksOK, TasksOK
    <3>2. ~\E th \in Threads : /\ arg[th] = cur[w]
                              /\ pc[th] \in {"submit", "insert_lock", "insert"}
      BY <3>1 DEF TasksOK, InQueue
    <3>3. \A t \in Outstanding : t # cur[w] => NameOf[t] # n
      BY <3>1 DEF NamesOK
    <3>4. \A th \in Threads :
            /\ arg'[th] = arg[th]
            /\ pc[th] \in {"submit", "insert_lock", "insert"}
                 <=> pc'[th] \in {"submit", "insert_lock", "insert"}
      BY <3>1 DEF Places
    <3>5. /\ status'[n] = Ran
          /\ \A v \in Workers : cur'[v] # cur[w]
      BY <3>1 DEF TasksOK
    <3>6. ASSUME NEW t \in Outstanding, t # cur[w]
          PROVE /\ status'[NameOf[t]] = status[NameOf[t]]
                /\ \A v \in Workers : cur'[v] # t <=> cur[v] # t
      BY <3>1, <3>3, <3>6
    <3> QED
      BY <3>1, <3>2, <3>4, <3>5, <3>6 DEF StatusTellsTruth, Absent, Ran
  <2> QED BY <2>1, <2>2, <2>3, <2>4, <2>5 DEF PoolInv
<1>9. ASSUME NEW th \in Threads, Enqueue(th) PROVE PoolInv'
  <2> USE <1>9 DEF Enqueue, PushThen
  <2>1. LocksOK'
    BY DEF LocksOK
  <2>2. TasksOK'
    BY DEF LocksOK, TasksOK, CallsOK, StatusTellsTruth, InQueue
  <2>3. CallsOK'
    BY DEF TasksOK, CallsOK, InSubmit
  <2>4. NamesOK'
    BY DEF TasksOK, CallsOK, NamesOK, Absent, Pending, Ran
  <2>5. StatusTellsTruth'
    BY DEF LocksOK, TasksOK, CallsOK, NamesOK, InQueue,
             StatusTellsTruth, Absent, Pending, Ran
  <2> QED BY <2>1, <2>2, <2>3, <2>4, <2>5 DEF PoolInv
<1>10. ASSUME NEW th \in Threads, InsertLock(th) PROVE PoolInv'
  BY <1>10 DEF InsertLock, LocksOK, TasksOK, CallsOK, NamesOK,
     InQueue, InSubmit, StatusTellsTruth
<1>11. ASSUME NEW th \in Threads, Insert(th) PROVE PoolInv'
  <2> USE <1>11 DEF Insert
  <2>1. LocksOK'
    BY DEF LocksOK
  <2>2. TasksOK'
    BY DEF LocksOK, TasksOK, CallsOK, StatusTellsTruth, InQueue
  <2>3. CallsOK'
    BY DEF TasksOK, CallsOK, InSubmit
  <2>4. NamesOK'
    BY DEF TasksOK, CallsOK, NamesOK, Absent, Pending, Ran
  <2>5. StatusTellsTruth'
    BY DEF LocksOK, TasksOK, CallsOK, NamesOK, InQueue,
             StatusTellsTruth, Absent, Pending, Ran
  <2> QED BY <2>1, <2>2, <2>3, <2>4, <2>5 DEF PoolInv
<1>12. ASSUME NEW th \in Threads, SubmitReturn(th) PROVE PoolInv'
  BY <1>12 DEF SubmitReturn, LocksOK, TasksOK, CallsOK, NamesOK,
     InQueue, InSubmit, StatusTellsTruth
<1>13. ASSUME NEW th \in Threads, WaitLock(th) PROVE PoolInv'
  BY <1>13 DEF WaitLock, LocksOK, TasksOK, CallsOK, NamesOK,
     InQueue, InSubmit, StatusTellsTruth
<1>14. ASSUME NEW th \in Threads, CondWait(th) PROVE PoolInv'
  BY <1>14 DEF CondWait, LocksOK, TasksOK, CallsOK, NamesOK,
     InQueue, InSubmit, StatusTellsTruth
<1>15. ASSUME NEW th \in Threads, WaitReturn(th) PROVE PoolInv'
  <2> USE <1>15 DEF WaitReturn, Collect
  <2>1. LocksOK'
    BY DEF LocksOK
  <2>2. TasksOK'
    BY DEF LocksOK, TasksOK, CallsOK, StatusTellsTruth, InQueue
  <2>3. CallsOK'
    BY DEF TasksOK, CallsOK, InSubmit
  <2>4. NamesOK'
    BY DEF TasksOK, CallsOK, NamesOK, Absent, Pending, Ran
  <2>5. StatusTellsTruth'
    BY DEF LocksOK, TasksOK, CallsOK, NamesOK, InQueue,
             StatusTellsTruth, Absent, Pending, Ran
  <2> QED BY <2>1, <2>2, <2>3, <2>4, <2>5 DEF PoolInv
<1>16. ASSUME NEW th \in Threads, SpuriousWakeup(th) PROVE PoolInv'
  BY <1>16 DEF SpuriousWakeup, LocksOK, TasksOK, CallsOK, NamesOK,
     InQueue, InSubmit, StatusTellsTruth
<1>17. ASSUME NEW c \in Clients, StopLock(c) PROVE PoolInv'
  BY <1>17 DEF StopLock, LocksOK, TasksOK, CallsOK, NamesOK,
     InQueue, InSubmit, StatusTellsTruth
<1>18. ASSUME NEW c \in Clients, SetStop(c) PROVE PoolInv'
  BY <1>18 DEF SetStop, RaiseFlag, LocksOK, TasksOK, CallsOK, NamesOK,
     InQueue, InSubmit, StatusTellsTruth
<1>19. ASSUME NEW c \in Clients, Join(c) PROVE PoolInv'
  BY <1>19 DEF Join, JoinWhen, LocksOK, TasksOK, CallsOK, NamesOK,
     InQueue, InSubmit, StatusTellsTruth
<1>20. ASSUME NEW c \in Clients, Stop(c) PROVE PoolInv'
  BY <1>20 DEF Stop, MayStop, LocksOK, TasksOK, CallsOK, NamesOK,
     InQueue, InSubmit, StatusTellsTruth
<1>21. ASSUME NEW th \in Threads, NEW t \in Tasks, SubmitTask(th, t)
       PROVE PoolInv'
  <2> USE <1>21 DEF SubmitTask, MaySubmit, MayCall
  <2>1. LocksOK'
    BY DEF LocksOK
  <2>2. TasksOK'
    BY DEF LocksOK, TasksOK, CallsOK, StatusTellsTruth, InQueue
  <2>3. CallsOK'
    BY DEF TasksOK, CallsOK, InSubmit
  <2>4. NamesOK'
    BY DEF TasksOK, CallsOK, NamesOK, Absent, Pending, Ran
  <2>5. StatusTellsTruth'
    BY DEF LocksOK, TasksOK, CallsOK, NamesOK, InQueue,
             StatusTellsTruth, Absent, Pending, Ran
  <2> QED BY <2>1, <2>2, <2>3, <2>4, <2>5 DEF PoolInv
<1>22. ASSUME NEW th \in Threads, NEW t \in Tasks, WaitForTask(th, t)
       PROVE PoolInv'
  <2> USE <1>22 DEF WaitForTask, MayWait, MayCall
  <2>1. LocksOK'
    BY DEF LocksOK
  <2>2. TasksOK'
    BY DEF LocksOK, TasksOK, CallsOK, StatusTellsTruth, InQueue
  <2>3. CallsOK'
    BY DEF TasksOK, CallsOK, InSubmit
  <2>4. NamesOK'
    BY DEF TasksOK, CallsOK, NamesOK, Absent, Pending, Ran
  <2>5. StatusTellsTruth'
    BY DEF LocksOK, TasksOK, CallsOK, NamesOK, InQueue,
             StatusTellsTruth, Absent, Pending, Ran
  <2> QED BY <2>1, <2>2, <2>3, <2>4, <2>5 DEF PoolInv
<1>23. CASE UNCHANGED vars
  BY <1>23 DEF vars, LocksOK, TasksOK, CallsOK, NamesOK, InQueue, InSubmit,
     StatusTellsTruth
<1> HIDE DEF TInv, PoolInv, TypeOK, LocalsOK, CallPlaces, Places, Goto, Home,
        locks, client, Outstanding
<1>24. ASSUME NEW th \in Threads, Step(th) PROVE PoolInv'
  BY <1>24, <1>1, <1>2, <1>3, <1>4, <1>5, <1>6, <1>7, <1>8, <1>9, <1>10,
     <1>11, <1>12, <1>13, <1>14, <1>15, <1>17, <1>18, <1>19
  DEF Step, WorkerStep, CallStep, StopStep
<1>25. ASSUME NewCall PROVE PoolInv'
  BY <1>25, <1>20, <1>21, <1>22 DEF NewCall
<1> QED
  BY <1>16, <1>23, <1>24, <1>25 DEF Next

\* What taskname_to_status says about a task is true in every reachable
\* state (pool.cc:54, 108, 122): no worker can report a task before
\* SubmitTask has made its entry, and no entry outlives its task.
THEOREM StatusCorrect == Spec => []StatusSound
<1>1. TInv /\ PoolInv => StatusSound BY DEF TInv, PoolInv, StatusSound
<1> QED
  BY InitTInv, NextTInv, InitPoolInv, NextPoolInv, <1>1, PTL DEF Spec

\* WaitForTask only returns after the task is completed (pool.h:42).
THEOREM WaitCorrect == Spec => []WaitAfterRun
<1>1. PoolInv => WaitAfterRun BY DEF PoolInv, TasksOK, WaitAfterRun
<1> QED
  BY InitTInv, NextTInv, InitPoolInv, NextPoolInv, <1>1, PTL DEF Spec

-----------------------------------------------------------------------------
(* What is left when Stop has joined the workers.                           *)

StopPlaces == {"stop", "stop_set", "join", "stopped"}

\* A mutex has an owner only inside the owner's critical section.
OwnersOK ==
  /\ \A th \in Threads : queue_lock = th =>
       pc[th] \in {"pop", "insert_lock", "insert", "submit_unlock"}
  /\ \A th \in Threads : map_lock = th => pc[th] \in {"report", "insert", "wait_test"}
  /\ \A th \in Threads : stop_lock = th => pc[th] \in {"check_read", "stop_set"}

\* Stop comes last: the other clients are idle, and only clients call it.
AloneOK ==
  /\ \A c \in Clients : pc[c] \in StopPlaces =>
       \A d \in Clients : d # c => pc[d] = "idle"
  /\ \A th \in Threads : pc[th] \in StopPlaces => th \in Clients
  /\ destroyed => /\ \E c \in Clients : pc[c] = "stopped"
                  /\ \A w \in Workers : pc[w] = "exit"

\* No task is lost between SubmitTask and the end of its Run().
KeptOK ==
  \A t \in Outstanding \ ended :
    \/ InQueue(t)
    \/ \E th \in Threads : pc[th] = "submit" /\ arg[th] = t
    \/ \E w \in Workers : cur[w] = t

LEMMA NextOwnersOK == TInv /\ OwnersOK /\ [Next]_vars => OwnersOK'
<1> SUFFICES ASSUME TInv, OwnersOK, [Next]_vars PROVE OwnersOK'
  OBVIOUS
<1> USE ThreadsAssumption
    DEF TInv, TypeOK, LocalsOK, CallPlaces, Places, Goto, Home, locks, client,
        Threads, OwnersOK
<1>1. ASSUME NEW w \in Workers, WorkerStep(w) PROVE OwnersOK'
  BY <1>1 DEF WorkerStep, CheckLock, CheckStop, PopLock, PopTask, PopNothing, LeavePop,
     RunReturn, ReportLock, Report, Sleepers
<1>2. ASSUME NEW th \in Threads, CallStep(th) \/ SpuriousWakeup(th) PROVE OwnersOK'
  BY <1>2 DEF CallStep, Enqueue, PushThen, InsertLock, Insert, SubmitReturn, WaitLock,
     CondWait, WaitReturn, Collect, SpuriousWakeup
<1>3. ASSUME NEW c \in Clients, StopStep(c) \/ Stop(c) PROVE OwnersOK'
  BY <1>3 DEF StopStep, StopLock, SetStop, RaiseFlag, Join, JoinWhen, Stop, MayStop
<1>4. ASSUME NEW th \in Threads, NEW t \in Tasks, SubmitTask(th, t) \/ WaitForTask(th, t)
      PROVE  OwnersOK'
  BY <1>4 DEF SubmitTask, MaySubmit, WaitForTask, MayWait, MayCall
<1>5. CASE UNCHANGED vars
  BY <1>5 DEF vars
<1> HIDE DEF TInv, TypeOK, LocalsOK, Threads, OwnersOK
<1> QED BY <1>1, <1>2, <1>3, <1>4, <1>5 DEF Next, Step, NewCall, Threads

LEMMA NextAloneOK == TInv /\ AloneOK /\ [Next]_vars => AloneOK'
<1> SUFFICES ASSUME TInv, AloneOK, [Next]_vars PROVE AloneOK'
  OBVIOUS
<1> USE ThreadsAssumption
    DEF TInv, TypeOK, LocalsOK, CallPlaces, Places, Goto, Home, locks, client,
        Threads, StopPlaces, AloneOK
<1>1. ASSUME NEW w \in Workers, WorkerStep(w) PROVE AloneOK'
  BY <1>1 DEF WorkerStep, CheckLock, CheckStop, PopLock, PopTask, PopNothing, LeavePop,
     RunReturn, ReportLock, Report, Sleepers
<1>2. ASSUME NEW th \in Threads, CallStep(th) \/ SpuriousWakeup(th) PROVE AloneOK'
  BY <1>2 DEF CallStep, Enqueue, PushThen, InsertLock, Insert, SubmitReturn, WaitLock,
     CondWait, WaitReturn, Collect, SpuriousWakeup
<1>3. ASSUME NEW c \in Clients, StopStep(c) \/ Stop(c) PROVE AloneOK'
  BY <1>3 DEF StopStep, StopLock, SetStop, RaiseFlag, Join, JoinWhen, Stop, MayStop
<1>4. ASSUME NEW th \in Threads, NEW t \in Tasks, SubmitTask(th, t) \/ WaitForTask(th, t)
      PROVE  AloneOK'
  BY <1>4 DEF SubmitTask, MaySubmit, WaitForTask, MayWait, MayCall, StopBegun
<1>5. CASE UNCHANGED vars
  BY <1>5 DEF vars
<1> HIDE DEF TInv, TypeOK, LocalsOK, Threads, AloneOK
<1> QED BY <1>1, <1>2, <1>3, <1>4, <1>5 DEF Next, Step, NewCall, Threads

LEMMA NextKeptOK == TInv /\ TasksOK /\ KeptOK /\ [Next]_vars => KeptOK'
<1> SUFFICES ASSUME TInv, TasksOK, KeptOK, [Next]_vars PROVE KeptOK'
  OBVIOUS
<1> USE ThreadsAssumption
    DEF TInv, TypeOK, LocalsOK, CallPlaces, Places, Goto, Home, locks, client,
        Threads, KeptOK, InQueue, Outstanding
<1>1. ASSUME NEW w \in Workers, PopTask(w) PROVE KeptOK'
  <2> HIDE DEF InQueue
  <2>1. /\ task_queue \in Seq(Tasks) /\ task_queue # <<>>
        /\ task_queue' = Tail(task_queue) /\ cur' = [cur EXCEPT ![w] = Head(task_queue)]
        /\ pc' = [pc EXCEPT ![w] = "run"] /\ UNCHANGED <<arg, client, ended, collected>>
        /\ cur[w] = NoTask /\ pc[w] = "pop"
    BY <1>1 DEF PopTask
  <2>2. \A t : InQueue(t) => t = Head(task_queue) \/ InQueue(t)'
    <3> SUFFICES ASSUME NEW t, InQueue(t), t # Head(task_queue) PROVE InQueue(t)'
      OBVIOUS
    <3>1. PICK i \in DOMAIN task_queue : task_queue[i] = t
      BY DEF InQueue
    <3>2. i - 1 \in DOMAIN Tail(task_queue) /\ Tail(task_queue)[i - 1] = t
      BY <2>1, <3>1
    <3> QED BY <2>1, <3>2 DEF InQueue
  <2>3. \A th \in Threads : pc[th] = "submit" => pc'[th] = "submit"
    BY <2>1
  <2>4. cur'[w] = Head(task_queue) /\ \A v \in Workers : v # w => cur'[v] = cur[v]
    BY <2>1
  <2>5. Outstanding' \ ended' = Outstanding \ ended
    BY <2>1
  <2>6. ASSUME NEW t \in Outstanding \ ended
        PROVE  \/ InQueue(t)'
               \/ \E th \in Threads : pc'[th] = "submit" /\ arg'[th] = t
               \/ \E v \in Workers : cur'[v] = t
    <3> HIDE DEF Threads, Outstanding, TInv, TypeOK, LocalsOK
    <3>1. t # NoTask
      BY TasksAssumption DEF TInv, TypeOK, Outstanding
    <3>2. CASE InQueue(t)
      BY <2>2, <2>4, <3>2
    <3>3. CASE \E th \in Threads : pc[th] = "submit" /\ arg[th] = t
      BY <2>1, <2>3, <3>3
    <3>4. CASE \E v \in Workers : cur[v] = t
      BY <2>1, <2>4, <3>1, <3>4
    <3> QED BY <3>2, <3>3, <3>4 DEF KeptOK
  <2> QED BY <2>5, <2>6 DEF KeptOK
<1>2. ASSUME NEW w \in Workers, CheckLock(w) \/ CheckStop(w) \/ PopLock(w) \/ PopNothing(w)
                                 \/ RunReturn(w) \/ ReportLock(w)
      PROVE  KeptOK'
  BY <1>2 DEF CheckLock, CheckStop, PopLock, PopNothing, LeavePop, RunReturn, ReportLock
<1>3. ASSUME NEW w \in Workers, Report(w) PROVE KeptOK'
  <2>1. cur[w] \in ended
    BY <1>3 DEF Report, TasksOK
  <2>2. /\ UNCHANGED <<arg, task_queue, client, ended, collected>>
        /\ cur' = [cur EXCEPT ![w] = NoTask] /\ pc[w] = "report"
        /\ \A th \in Threads : pc[th] = "submit" => pc'[th] = "submit"
    BY <1>3 DEF Report, Sleepers
  <2> QED BY <2>1, <2>2
<1>4. ASSUME NEW th \in Threads, Enqueue(th) PROVE KeptOK'
  <2> HIDE DEF InQueue
  <2>1. /\ task_queue \in Seq(Tasks) /\ arg[th] \in Tasks
        /\ task_queue' = Append(task_queue, arg[th]) /\ pc' = [pc EXCEPT ![th] = "insert_lock"]
        /\ UNCHANGED <<cur, arg, client, ended, collected>>
    BY <1>4 DEF Enqueue, PushThen
  <2>2. \A t : InQueue(t) => InQueue(t)'
    BY <2>1 DEF InQueue
  <2>3. InQueue(arg[th])'
    <3>1. /\ Len(task_queue) + 1 \in DOMAIN task_queue'
          /\ task_queue'[Len(task_queue) + 1] = arg[th]
      BY <2>1
    <3> QED BY <3>1, <2>1 DEF InQueue
  <2>4. \A uh \in Threads : uh # th => pc'[uh] = pc[uh]
    BY <2>1
  <2>5. Outstanding' \ ended' = Outstanding \ ended
    BY <2>1
  <2>6. ASSUME NEW t \in Outstanding \ ended
        PROVE  \/ InQueue(t)'
               \/ \E uh \in Threads : pc'[uh] = "submit" /\ arg'[uh] = t
               \/ \E v \in Workers : cur'[v] = t
    <3> HIDE DEF Threads, Outstanding, TInv, TypeOK, LocalsOK
    <3> QED BY <2>1, <2>2, <2>3, <2>4 DEF KeptOK
  <2> QED BY <2>5, <2>6 DEF KeptOK
<1>5. ASSUME NEW th \in Threads, CallStep(th) \/ SpuriousWakeup(th), ~Enqueue(th)
      PROVE  KeptOK'
  BY <1>5 DEF CallStep, InsertLock, Insert, SubmitReturn, WaitLock, CondWait, WaitReturn,
     Collect, SpuriousWakeup
<1>6. ASSUME NEW c \in Clients, StopStep(c) \/ Stop(c) PROVE KeptOK'
  BY <1>6 DEF StopStep, StopLock, SetStop, RaiseFlag, Join, JoinWhen, Stop, MayStop
<1>7. ASSUME NEW th \in Threads, NEW t \in Tasks, SubmitTask(th, t) \/ WaitForTask(th, t)
      PROVE  KeptOK'
  BY <1>7 DEF SubmitTask, MaySubmit, WaitForTask, MayWait, MayCall
<1>8. CASE UNCHANGED vars
  BY <1>8 DEF vars
<1> HIDE DEF TInv, TypeOK, LocalsOK, Threads, KeptOK, Outstanding, InQueue
<1> QED BY <1>1, <1>2, <1>3, <1>4, <1>5, <1>6, <1>7, <1>8
        DEF Next, Step, WorkerStep, NewCall, Threads

PlacedInv == OwnersOK /\ AloneOK /\ KeptOK

LEMMA InitPlacedInv == Init => PlacedInv
BY ThreadsAssumption DEF Init, PlacedInv, OwnersOK, AloneOK, KeptOK, Outstanding, Threads,
   StopPlaces

LEMMA NextPlacedInv == TInv /\ PoolInv /\ PlacedInv /\ [Next]_vars => PlacedInv'
BY NextOwnersOK, NextAloneOK, NextKeptOK DEF PlacedInv, PoolInv

LEMMA QuietAtLast == TInv /\ PlacedInv => StopQuiesces
<1> SUFFICES ASSUME TInv, PlacedInv, destroyed
             PROVE  /\ \A w \in Workers : pc[w] = "exit" /\ cur[w] = NoTask
                    /\ queue_lock = NoThread /\ map_lock = NoThread /\ stop_lock = NoThread
                    /\ Outstanding \ ended \subseteq {task_queue[i] : i \in DOMAIN task_queue}
  BY DEF StopQuiesces
<1>1. \A w \in Workers : pc[w] = "exit" /\ cur[w] = NoTask
  BY DEF PlacedInv, AloneOK, TInv, LocalsOK, CallPlaces
<1>2. \A c \in Clients : pc[c] \in {"stopped", "idle"}
  BY DEF PlacedInv, AloneOK, StopPlaces
<1>3. \A th \in Threads : pc[th] \in {"exit", "stopped", "idle"}
  BY <1>1, <1>2 DEF Threads
<1>4. queue_lock = NoThread /\ map_lock = NoThread /\ stop_lock = NoThread
  BY <1>3 DEF PlacedInv, OwnersOK, TInv, TypeOK
<1>5. \A t \in Outstanding \ ended : InQueue(t)
  <2>1. \A t \in Outstanding : t \in Tasks
    BY DEF Outstanding, TInv, TypeOK
  <2> QED BY <1>1, <1>3, <2>1, TasksAssumption DEF PlacedInv, KeptOK
<1> QED BY <1>1, <1>4, <1>5 DEF InQueue

\* Stop lets running tasks finish and leaves nothing locked or half done: what
\* has not ended by then has not been started (pool.cc:15, 125-148).
THEOREM StopCorrect == Spec => []StopQuiesces
<1>1. TInv /\ PlacedInv => StopQuiesces
  BY QuietAtLast
<1> QED BY InitTInv, NextTInv, InitPoolInv, NextPoolInv, InitPlacedInv, NextPlacedInv, <1>1,
           PTL DEF Spec

-----------------------------------------------------------------------------
(* The pool implements TaskPool.                                            *)

Busy == {cur[w] : w \in Workers} \ {NoTask}
Reported == {t \in ended \ collected : \A w \in Workers : cur[w] # t}

\* A worker that has no task leaves room for one more to run.
LEMMA RoomToRun ==
  ASSUME TInv, NEW w \in Workers, cur[w] = NoTask
  PROVE  Cardinality(Busy) < Cardinality(Workers)
<1> DEFINE Others == {v \in Workers : cur[v] # NoTask}
           f == [v \in Others |-> cur[v]]
<1>1. IsFiniteSet(Workers) /\ Others \subseteq Workers \ {w}
  BY ThreadsAssumption
<1>2. /\ IsFiniteSet(Workers \ {w}) /\ Cardinality(Workers \ {w}) = Cardinality(Workers) - 1
      /\ Cardinality(Workers) \in Nat
  BY <1>1, FS_RemoveElement, FS_CardinalityType
<1>3. IsFiniteSet(Others) /\ Cardinality(Others) <= Cardinality(Workers \ {w})
  BY <1>1, <1>2, FS_Subset
<1>4. f \in Surjection(Others, Busy)
  BY DEF Busy, Surjection
<1>5. IsFiniteSet(Busy) /\ Cardinality(Busy) <= Cardinality(Others)
  BY <1>3, <1>4, FS_Surjection
<1>6. Cardinality(Busy) \in Nat /\ Cardinality(Others) \in Nat
  BY <1>3, <1>5, FS_CardinalityType
<1> QED BY <1>2, <1>3, <1>5, <1>6

\* The instance has its own name for the cardinality of a set.
LEMMA SameCount == \A S : Abstract!Cardinality(S) = Cardinality(S)
BY DEF Cardinality, Abstract!Cardinality

LEMMA StepImplements ==
  TInv /\ PoolInv /\ [Next]_vars => [Abstract!Next]_(Abstract!vars)
<1> SUFFICES ASSUME TInv, PoolInv, [Next]_vars PROVE [Abstract!Next]_(Abstract!vars)
  OBVIOUS
<1> USE ThreadsAssumption, TasksAssumption
<1>1. ASSUME UNCHANGED <<task_queue, cur, ended, collected>>
      PROVE  [Abstract!Next]_(Abstract!vars)
  BY <1>1 DEF Abstract!vars
<1>2. ASSUME NEW w \in Workers, PopTask(w) PROVE [Abstract!Next]_(Abstract!vars)
  <2>1. /\ cur[w] = NoTask /\ task_queue # <<>> /\ task_queue' = Tail(task_queue)
        /\ cur' = [cur EXCEPT ![w] = Head(task_queue)]
        /\ UNCHANGED <<ended, collected>> /\ task_queue \in Seq(Tasks)
    BY <1>2 DEF PopTask, TInv, TypeOK, LocalsOK, CallPlaces
  <2> DEFINE t == Head(task_queue)
  <2>2. t \in Tasks /\ t # NoTask /\ InQueue(t)
    BY <2>1 DEF InQueue
  <2>3. t \notin ended
    BY <2>2 DEF PoolInv, TasksOK
  <2> HIDE DEF t
  <2>4. cur \in [Workers -> Tasks \cup {NoTask}] /\ cur' = [cur EXCEPT ![w] = t]
    BY <2>1 DEF TInv, TypeOK, t
  <2>5. Busy' = Busy \cup {t}
    BY <2>1, <2>2, <2>4 DEF Busy
  <2>6. Reported' = Reported
    BY <2>1, <2>2, <2>3, <2>4 DEF Reported, TInv, TypeOK
  <2>7. Cardinality(Busy) < Cardinality(Workers)
    BY <2>1, RoomToRun
  <2>8. Abstract!Start
    BY <2>1, <2>5, <2>6, <2>7, SameCount DEF Abstract!Start, Busy, Reported, t
  <2> QED BY <2>8 DEF Abstract!Next
<1>3. ASSUME NEW w \in Workers, RunReturn(w) PROVE [Abstract!Next]_(Abstract!vars)
  <2>1. UNCHANGED <<task_queue, cur, collected>> /\ ended' = ended \cup {cur[w]}
    BY <1>3 DEF RunReturn
  <2>2. Reported' = Reported
    BY <2>1 DEF Reported
  <2> QED BY <2>1, <2>2 DEF Abstract!vars, Reported
<1>4. ASSUME NEW w \in Workers, Report(w) PROVE [Abstract!Next]_(Abstract!vars)
  <2> DEFINE t == cur[w]
  <2>1. /\ cur[w] # NoTask /\ pc[w] = "report" /\ cur' = [cur EXCEPT ![w] = NoTask]
        /\ UNCHANGED <<task_queue, ended, collected>>
        /\ cur \in [Workers -> Tasks \cup {NoTask}]
    BY <1>4 DEF Report, TInv, LocalsOK, TypeOK
  <2>2. /\ t \in ended \ collected
        /\ \A v \in Workers : cur[v] = t => v = w
    BY <2>1 DEF PoolInv, TasksOK, Outstanding
  <2> HIDE DEF t
  <2>3. \A v \in Workers : cur'[v] = IF v = w THEN NoTask ELSE cur[v]
    BY <2>1
  <2>4. t \in Busy /\ t \in Tasks /\ Busy' = Busy \ {t}
    BY <2>1, <2>2, <2>3 DEF Busy, t
  <2>5. Reported' = Reported \cup {t}
    <3>1. t = cur[w]
      BY DEF t
    <3>2. ASSUME NEW u PROVE (u \in Reported') <=> (u \in Reported \/ u = t)
      <4>1. CASE u = t
        BY <2>1, <2>2, <2>3, <2>4, <4>1, TasksAssumption DEF Reported
      <4>2. CASE u # t /\ u \in ended
        <5>1. u # NoTask
          BY <4>2, TasksAssumption DEF TInv, TypeOK
        <5>2. \A v \in Workers : cur'[v] # u <=> cur[v] # u
          BY <2>3, <3>1, <4>2, <5>1
        <5> QED BY <2>1, <4>2, <5>2 DEF Reported
      <4>3. CASE u \notin ended
        BY <2>1, <2>2, <4>3 DEF Reported
      <4> QED BY <4>1, <4>2, <4>3
    <3> QED BY <3>2
  <2>6. Abstract!End(t)
    BY <2>1, <2>4, <2>5 DEF Abstract!End, Busy, Reported
  <2>7. PICK u \in Tasks : u = t
    BY <2>4
  <2>8. Abstract!End(u)
    BY <2>6, <2>7 DEF Abstract!End
  <2> QED BY <2>8 DEF Abstract!Next
<1>5. ASSUME NEW th \in Threads, Enqueue(th) PROVE [Abstract!Next]_(Abstract!vars)
  <2> DEFINE t == arg[th]
  <2>1. /\ pc[th] = "submit" /\ t \in Tasks /\ task_queue' = Append(task_queue, t)
        /\ UNCHANGED <<cur, ended, collected>>
    BY <1>5 DEF Enqueue, PushThen, TInv, TypeOK, LocalsOK, CallPlaces
  <2>2. /\ ~InQueue(t) /\ t \notin ended /\ t \notin collected
        /\ \A w \in Workers : cur[w] # t
    BY <2>1 DEF PoolInv, TasksOK
  <2>3. Abstract!Submit(t)
    BY <2>1, <2>2 DEF Abstract!Submit, Abstract!Queued, InQueue
  <2> QED BY <2>1, <2>3 DEF Abstract!Next
<1>6. ASSUME NEW th \in Threads, WaitReturn(th) PROVE [Abstract!Next]_(Abstract!vars)
  <2> DEFINE t == arg[th]
  <2>1. /\ pc[th] = "wait_test" /\ t \in Tasks /\ status[NameOf[t]] = Ran
        /\ collected' = collected \cup {t} /\ UNCHANGED <<cur, task_queue, ended>>
    BY <1>6 DEF WaitReturn, Collect, TInv, TypeOK, LocalsOK, CallPlaces
  <2>2. t \in Outstanding
    BY <2>1 DEF PoolInv, CallsOK
  <2>3. t \in ended \ collected /\ \A w \in Workers : cur[w] # t
    BY <2>1, <2>2 DEF PoolInv, StatusTellsTruth, Outstanding
  <2>4. t \in Reported /\ Reported' = Reported \ {t}
    BY <2>1, <2>3 DEF Reported
  <2>5. Abstract!Collect(t)
    BY <2>1, <2>4 DEF Abstract!Collect, Reported
  <2> HIDE DEF t
  <2>6. PICK u \in Tasks : u = t
    BY <2>1
  <2>7. Abstract!Collect(u)
    BY <2>5, <2>6 DEF Abstract!Collect
  <2> QED BY <2>7 DEF Abstract!Next
<1>7. ASSUME NEW w \in Workers, CheckLock(w) \/ CheckStop(w) \/ PopLock(w) \/ PopNothing(w)
                                 \/ ReportLock(w)
      PROVE  [Abstract!Next]_(Abstract!vars)
  BY <1>1, <1>7 DEF CheckLock, CheckStop, PopLock, PopNothing, LeavePop, ReportLock
<1>8. ASSUME NEW th \in Threads, CallStep(th) \/ SpuriousWakeup(th), ~Enqueue(th),
             ~WaitReturn(th)
      PROVE  [Abstract!Next]_(Abstract!vars)
  BY <1>1, <1>8 DEF CallStep, InsertLock, Insert, SubmitReturn, WaitLock, CondWait,
     SpuriousWakeup
<1>9. ASSUME NEW c \in Clients, StopStep(c) \/ Stop(c) PROVE [Abstract!Next]_(Abstract!vars)
  BY <1>1, <1>9 DEF StopStep, StopLock, SetStop, RaiseFlag, Join, JoinWhen, Stop
<1>10. ASSUME NEW th \in Threads, NEW t \in Tasks, SubmitTask(th, t) \/ WaitForTask(th, t)
       PROVE  [Abstract!Next]_(Abstract!vars)
  BY <1>1, <1>10 DEF SubmitTask, WaitForTask
<1>11. CASE UNCHANGED vars
  BY <1>1, <1>11 DEF vars
<1> QED BY <1>2, <1>3, <1>4, <1>5, <1>6, <1>7, <1>8, <1>9, <1>10, <1>11
        DEF Next, Step, WorkerStep, NewCall, Threads

\* The pool is first in first out, starts and ends each task once, and lets a
\* wait return only after the end (pool.h:39-49).
THEOREM PoolRefined == Spec => ImplementsTaskPool
<1>1. Init => Abstract!Init
  <2>1. Init => {cur[w] : w \in Workers} \ {NoTask} = {}
    BY DEF Init
  <2> QED BY <2>1 DEF Init, Abstract!Init
<1>2. TInv /\ PoolInv /\ [Next]_vars => [Abstract!Next]_(Abstract!vars)
  BY StepImplements
<1> QED BY InitTInv, NextTInv, InitPoolInv, NextPoolInv, <1>1, <1>2, PTL
        DEF Spec, ImplementsTaskPool, Abstract!Spec

-----------------------------------------------------------------------------
(* The first of a set of numbers is one of them, so an induction over       *)
(* positions may look at the first where it fails.                          *)
LEMMA FirstIsThere ==
  ASSUME NEW S \in SUBSET Nat, S # {}
  PROVE  \E x \in S : \A y \in S : x <= y
<1> DEFINE less == {ss \in Nat \X Nat : ss[1] < ss[2]}
<1>1. IsWellFoundedOn(less, Nat)
  BY NatLessThanWellFounded DEF OpToRel
<1>2. PICK x \in S : \A y \in S : ~(<<y, x>> \in less)
  BY <1>1, WFMin
<1>3. ASSUME NEW y \in S PROVE x <= y
  <2>1. y \in Nat /\ x \in Nat /\ ~(<<y, x>> \in less)
    BY <1>2
  <2>2. y < x => <<y, x>> \in less
    BY <2>1
  <2> QED BY <2>1, <2>2
<1> QED BY <1>3

LEMMA LowestIs ==
  ASSUME NEW S \in SUBSET Nat, S # {}
  PROVE  /\ Lowest(S) \in S
         /\ \A y \in S : Lowest(S) <= y
         /\ \A x \in S : (\A y \in S : x <= y) => Lowest(S) = x
<1>1. \E x \in S : \A y \in S : x <= y
  BY FirstIsThere
<1>2. Lowest(S) \in S /\ \A y \in S : Lowest(S) <= y
  BY <1>1 DEF Lowest
<1>3. ASSUME NEW x \in S, \A y \in S : x <= y PROVE Lowest(S) = x
  <2>1. x \in Nat /\ Lowest(S) \in Nat /\ x <= Lowest(S) /\ Lowest(S) <= x
    BY <1>2, <1>3
  <2> QED BY <2>1
<1> QED BY <1>2, <1>3

LEMMA ByPositions ==
  ASSUME NEW n \in Nat, NEW S, 0 \in S, \A k \in 1 .. n : k - 1 \in S => k \in S
  PROVE  \A k \in 0 .. n : k \in S
<1> DEFINE off == {k \in 0 .. n : k \notin S}
<1> SUFFICES ASSUME off # {} PROVE FALSE
  OBVIOUS
<1>1. off \in SUBSET Nat
  OBVIOUS
<1>2. PICK k \in off : \A y \in off : k <= y
  BY <1>1, FirstIsThere
<1>3. k \in 0 .. n /\ k \notin S
  BY <1>2
<1>4. k \in 1 .. n /\ k - 1 \in 0 .. n /\ ~(k <= k - 1)
  BY <1>3
<1>5. k - 1 \in S
  BY <1>2, <1>4
<1> QED BY <1>3, <1>4, <1>5

-----------------------------------------------------------------------------
(* The three loops of parse_and_run_command have results: a function on the *)
(* turns done so far follows from one that ends a turn earlier.             *)
NoWords == [words |-> <<>>, word |-> <<>>]
NoCommands == [done |-> <<>>, cmd |-> Fresh, skip |-> FALSE]

CutPath(f, line, n) ==
  f = [i \in 0 .. n |-> IF i = 0 THEN NoWords ELSE Taken(f[i - 1], line[i])]
ParsePath(f, words, n) ==
  f = [i \in 0 .. n |-> IF i = 0 THEN NoCommands ELSE Parsed(words, f[i - 1], i)]
PipePath(f, t, ids, n) ==
  f = [i \in 0 .. n |-> IF i = 0 THEN [fds |-> t, ends |-> <<>>] ELSE Piped(f[i - 1], ids[i])]

LEMMA CutPathExists ==
  ASSUME NEW line, NEW n \in Nat
  PROVE  \E f : CutPath(f, line, n)
<1> DEFINE S == {k \in 0 .. n : \E f : CutPath(f, line, k)}
<1>1. 0 \in S
  <2>1. CutPath([i \in 0 .. 0 |-> NoWords], line, 0)
    <3>1. \A i \in 0 .. 0 : i = 0
      OBVIOUS
    <3> QED BY <3>1 DEF CutPath
  <2> QED BY <2>1
<1>2. ASSUME NEW k \in 1 .. n, k - 1 \in S PROVE k \in S
  <2>1. PICK g : CutPath(g, line, k - 1)
    BY <1>2
  <2>2. PICK f : f = [i \in 0 .. k |-> IF i < k THEN g[i] ELSE Taken(g[i - 1], line[i])]
    OBVIOUS
  <2>3. ASSUME NEW i \in 0 .. k
        PROVE  f[i] = IF i = 0 THEN NoWords ELSE Taken(f[i - 1], line[i])
    <3>1. CASE i < k
      <4>1. i \in 0 .. k - 1 /\ (i # 0 => i - 1 \in 0 .. k /\ i - 1 < k)
        BY <3>1
      <4>2. f[i] = g[i] /\ (i # 0 => f[i - 1] = g[i - 1])
        BY <2>2, <3>1, <4>1
      <4>3. g[i] = IF i = 0 THEN NoWords ELSE Taken(g[i - 1], line[i])
        BY <2>1, <4>1 DEF CutPath
      <4> QED BY <4>2, <4>3
    <3>2. CASE i = k
      <4>1. i # 0 /\ i - 1 \in 0 .. k /\ i - 1 < k /\ ~(i < k)
        BY <3>2
      <4>2. f[i] = Taken(g[i - 1], line[i]) /\ f[i - 1] = g[i - 1]
        BY <2>2, <4>1
      <4> QED BY <4>1, <4>2
    <3> QED BY <3>1, <3>2
  <2>4. f = [i \in 0 .. k |-> IF i = 0 THEN NoWords ELSE Taken(f[i - 1], line[i])]
    BY <2>2, <2>3
  <2> QED BY <2>4 DEF CutPath
<1> HIDE DEF S
<1>3. n \in S
  BY <1>1, <1>2, ByPositions
<1> QED BY <1>3 DEF S

LEMMA ParsePathExists ==
  ASSUME NEW words, NEW n \in Nat
  PROVE  \E f : ParsePath(f, words, n)
<1> DEFINE S == {k \in 0 .. n : \E f : ParsePath(f, words, k)}
<1>1. 0 \in S
  <2>1. ParsePath([i \in 0 .. 0 |-> NoCommands], words, 0)
    <3>1. \A i \in 0 .. 0 : i = 0
      OBVIOUS
    <3> QED BY <3>1 DEF ParsePath
  <2> QED BY <2>1
<1>2. ASSUME NEW k \in 1 .. n, k - 1 \in S PROVE k \in S
  <2>1. PICK g : ParsePath(g, words, k - 1)
    BY <1>2
  <2>2. PICK f : f = [i \in 0 .. k |-> IF i < k THEN g[i] ELSE Parsed(words, g[i - 1], i)]
    OBVIOUS
  <2>3. ASSUME NEW i \in 0 .. k
        PROVE  f[i] = IF i = 0 THEN NoCommands ELSE Parsed(words, f[i - 1], i)
    <3>1. CASE i < k
      <4>1. i \in 0 .. k - 1 /\ (i # 0 => i - 1 \in 0 .. k /\ i - 1 < k)
        BY <3>1
      <4>2. f[i] = g[i] /\ (i # 0 => f[i - 1] = g[i - 1])
        BY <2>2, <3>1, <4>1
      <4>3. g[i] = IF i = 0 THEN NoCommands ELSE Parsed(words, g[i - 1], i)
        BY <2>1, <4>1 DEF ParsePath
      <4> QED BY <4>2, <4>3
    <3>2. CASE i = k
      <4>1. i # 0 /\ i - 1 \in 0 .. k /\ i - 1 < k /\ ~(i < k)
        BY <3>2
      <4>2. f[i] = Parsed(words, g[i - 1], i) /\ f[i - 1] = g[i - 1]
        BY <2>2, <4>1
      <4> QED BY <4>1, <4>2
    <3> QED BY <3>1, <3>2
  <2>4. f = [i \in 0 .. k |-> IF i = 0 THEN NoCommands ELSE Parsed(words, f[i - 1], i)]
    BY <2>2, <2>3
  <2> QED BY <2>4 DEF ParsePath
<1> HIDE DEF S
<1>3. n \in S
  BY <1>1, <1>2, ByPositions
<1> QED BY <1>3 DEF S

LEMMA PipePathExists ==
  ASSUME NEW t, NEW ids, NEW n \in Nat
  PROVE  \E f : PipePath(f, t, ids, n)
<1> DEFINE S == {k \in 0 .. n : \E f : PipePath(f, t, ids, k)}
<1>1. 0 \in S
  <2>1. PipePath([i \in 0 .. 0 |-> [fds |-> t, ends |-> <<>>]], t, ids, 0)
    <3>1. \A i \in 0 .. 0 : i = 0
      OBVIOUS
    <3> QED BY <3>1 DEF PipePath
  <2> QED BY <2>1
<1>2. ASSUME NEW k \in 1 .. n, k - 1 \in S PROVE k \in S
  <2>1. PICK g : PipePath(g, t, ids, k - 1)
    BY <1>2
  <2>2. PICK f : f = [i \in 0 .. k |-> IF i < k THEN g[i] ELSE Piped(g[i - 1], ids[i])]
    OBVIOUS
  <2>3. ASSUME NEW i \in 0 .. k
        PROVE  f[i] = IF i = 0 THEN [fds |-> t, ends |-> <<>>] ELSE Piped(f[i - 1], ids[i])
    <3>1. CASE i < k
      <4>1. i \in 0 .. k - 1 /\ (i # 0 => i - 1 \in 0 .. k /\ i - 1 < k)
        BY <3>1
      <4>2. f[i] = g[i] /\ (i # 0 => f[i - 1] = g[i - 1])
        BY <2>2, <3>1, <4>1
      <4>3. g[i] = IF i = 0 THEN [fds |-> t, ends |-> <<>>] ELSE Piped(g[i - 1], ids[i])
        BY <2>1, <4>1 DEF PipePath
      <4> QED BY <4>2, <4>3
    <3>2. CASE i = k
      <4>1. i # 0 /\ i - 1 \in 0 .. k /\ i - 1 < k /\ ~(i < k)
        BY <3>2
      <4>2. f[i] = Piped(g[i - 1], ids[i]) /\ f[i - 1] = g[i - 1]
        BY <2>2, <4>1
      <4> QED BY <4>1, <4>2
    <3> QED BY <3>1, <3>2
  <2>4. f = [i \in 0 .. k |-> IF i = 0 THEN [fds |-> t, ends |-> <<>>] ELSE Piped(f[i - 1], ids[i])]
    BY <2>2, <2>3
  <2> QED BY <2>4 DEF PipePath
<1> HIDE DEF S
<1>3. n \in S
  BY <1>1, <1>2, ByPositions
<1> QED BY <1>3 DEF S

-----------------------------------------------------------------------------
(* A line's words are not empty.                                            *)
Text == Seq(STRING)
FullWords == Text \ {<<>>}

LEMMA WordsAre ==
  ASSUME NEW line \in Text
  PROVE  Words(line) \in Seq(FullWords)
<1> DEFINE n == Len(line)
           cut[i \in 0 .. n] == IF i = 0 THEN NoWords ELSE Taken(cut[i - 1], line[i])
           Good == [words : Seq(FullWords), word : Text]
           S == {i \in 0 .. n : cut[i] \in Good}
<1>1. n \in Nat
  OBVIOUS
<1>2. cut = [i \in 0 .. n |-> IF i = 0 THEN NoWords ELSE Taken(cut[i - 1], line[i])]
  <2>1. \E f : CutPath(f, line, n)
    BY <1>1, CutPathExists
  <2>2. \E f : f = [i \in 0 .. n |-> IF i = 0 THEN NoWords ELSE Taken(f[i - 1], line[i])]
    BY <2>1 DEF CutPath
  <2> QED BY <2>2
<1>3. Words(line) = IF cut[n].word = <<>> THEN cut[n].words
                    ELSE Append(cut[n].words, cut[n].word)
  BY DEF Words, NoWords
<1> HIDE DEF cut
<1>4. 0 \in S
  BY <1>1, <1>2 DEF NoWords, Text
<1>5. ASSUME NEW k \in 1 .. n, k - 1 \in S PROVE k \in S
  <2>1. k \in 0 .. n /\ k # 0
    OBVIOUS
  <2>2. cut[k] = Taken(cut[k - 1], line[k])
    BY <1>2, <2>1
  <2>3. cut[k - 1] \in Good /\ line[k] \in STRING
    BY <1>5 DEF Text
  <2>4. PICK s \in Good, c \in STRING : s = cut[k - 1] /\ c = line[k]
    BY <2>3
  <2>5. Taken(s, c) \in Good
    <3>1. Append(s.word, c) \in Text /\ s.words \in Seq(FullWords) /\ s.word \in Text
      BY DEF Text
    <3>2. CASE c \notin Blanks
      <4>1. Taken(s, c) = [s EXCEPT !.word = Append(s.word, c)]
        BY <3>2 DEF Taken
      <4> QED BY <3>1, <4>1
    <3>3. CASE c \in Blanks /\ s.word # <<>>
      <4>1. Taken(s, c) = [words |-> Append(s.words, s.word), word |-> <<>>]
        BY <3>3 DEF Taken
      <4>2. s.word \in FullWords /\ <<>> \in Text
        BY <3>1, <3>3 DEF FullWords, Text
      <4>3. Append(s.words, s.word) \in Seq(FullWords)
        BY <3>1, <4>2
      <4> QED BY <4>1, <4>2, <4>3
    <3>4. CASE c \in Blanks /\ s.word = <<>>
      BY <3>4 DEF Taken
    <3> QED BY <3>2, <3>3, <3>4
  <2> QED BY <2>1, <2>2, <2>4, <2>5
<1>6. cut[n] \in Good
  <2>1. n \in 0 .. n
    BY <1>1
  <2>2. \A k \in 0 .. n : k \in S
    <3> HIDE DEF S
    <3> QED BY <1>1, <1>4, <1>5, ByPositions
  <2> QED BY <2>1, <2>2
<1>7. cut[n].word # <<>> => cut[n].word \in FullWords
  BY <1>6 DEF FullWords
<1>8. cut[n].words \in Seq(FullWords)
  BY <1>6
<1> QED BY <1>3, <1>7, <1>8
-----------------------------------------------------------------------------
(* What the words become.                                                   *)
Cmds == [argv : Seq(FullWords), in : Text, out : Text]
ParseStates == [done : Seq(Cmds), cmd : Cmds, skip : BOOLEAN]

LEMMA MarksDiffer ==
  /\ Bar # In /\ Bar # Out /\ In # Out
  /\ NoFile \in Text /\ NoFile \notin FullWords /\ FullWords \subseteq Text
  /\ Fresh \in Cmds /\ Fresh.argv = <<>> /\ Fresh.in = NoFile /\ Fresh.out = NoFile
<1>1. Bar[1] # In[1] /\ Bar[1] # Out[1] /\ In[1] # Out[1]
  BY DEF Bar, In, Out
<1>2. NoFile \in Text /\ NoFile \notin FullWords /\ FullWords \subseteq Text
  BY DEF NoFile, Text, FullWords
<1> QED BY <1>1, <1>2 DEF Fresh, Cmds

\* What each case of the loop does.
LEMMA ParsedCases ==
  ASSUME NEW words \in Seq(FullWords), NEW s \in ParseStates, NEW i \in 1 .. Len(words)
  PROVE  /\ s.skip => Parsed(words, s, i) = [s EXCEPT !.skip = FALSE]
         /\ ~s.skip /\ words[i] = Bar =>
              Parsed(words, s, i) =
                [done |-> Append(s.done, s.cmd), cmd |-> Fresh, skip |-> FALSE]
         /\ ~s.skip /\ words[i] \notin {Bar, In, Out} =>
              Parsed(words, s, i) = [s EXCEPT !.cmd.argv = Append(s.cmd.argv, words[i])]
         /\ ~s.skip /\ words[i] = In /\ Redirects(words, i) /\ s.cmd.in = NoFile =>
              Parsed(words, s, i) = [s EXCEPT !.cmd.in = words[i + 1], !.skip = TRUE]
         /\ ~s.skip /\ words[i] = Out /\ Redirects(words, i) /\ s.cmd.out = NoFile =>
              Parsed(words, s, i) = [s EXCEPT !.cmd.out = words[i + 1], !.skip = TRUE]
         /\ \/ Parsed(words, s, i) = s
            \/ s.skip \/ words[i] \notin {In, Out}
            \/ Redirects(words, i) /\ words[i] = In /\ s.cmd.in = NoFile
            \/ Redirects(words, i) /\ words[i] = Out /\ s.cmd.out = NoFile
<1>1. CASE s.skip
  BY <1>1 DEF Parsed
<1>2. CASE ~s.skip /\ words[i] = Bar
  <2>1. words[i] # In /\ words[i] # Out
    BY <1>2, MarksDiffer
  <2>2. ~Redirects(words, i)
    BY <2>1 DEF Redirects
  <2>3. Parsed(words, s, i) = [done |-> Append(s.done, s.cmd), cmd |-> Fresh, skip |-> FALSE]
    BY <1>2, <2>2 DEF Parsed
  <2> QED BY <1>2, <2>1, <2>3
<1>3. CASE ~s.skip /\ words[i] \notin {Bar, In, Out}
  <2>1. ~Redirects(words, i)
    BY <1>3 DEF Redirects
  <2>2. words[i] # Bar /\ words[i] # In /\ words[i] # Out
    BY <1>3
  <2>3. Parsed(words, s, i) = [s EXCEPT !.cmd.argv = Append(s.cmd.argv, words[i])]
    BY <1>3, <2>1, <2>2 DEF Parsed
  <2> QED BY <1>3, <2>2, <2>3
<1>4. CASE ~s.skip /\ words[i] = In
  <2>1. words[i] # Bar /\ words[i] # Out /\ words[i] \in {Bar, In, Out}
    BY <1>4, MarksDiffer
  <2>2. (IF words[i] = In THEN "in" ELSE "out") = "in"
    BY <1>4
  <2>3. s.cmd["in"] = s.cmd.in
    BY DEF ParseStates, Cmds
  <2>4. CASE Redirects(words, i) /\ s.cmd.in = NoFile
    BY <1>4, <2>1, <2>2, <2>3, <2>4 DEF Parsed
  <2>5. CASE ~(Redirects(words, i) /\ s.cmd.in = NoFile)
    BY <1>4, <2>1, <2>2, <2>3, <2>5 DEF Parsed
  <2> QED BY <1>4, <2>1, <2>4, <2>5
<1>5. CASE ~s.skip /\ words[i] = Out
  <2>1. words[i] # Bar /\ words[i] # In /\ words[i] \in {Bar, In, Out}
    BY <1>5, MarksDiffer
  <2>2. (IF words[i] = In THEN "in" ELSE "out") = "out"
    BY <2>1
  <2>3. s.cmd["out"] = s.cmd.out
    BY DEF ParseStates, Cmds
  <2>4. CASE Redirects(words, i) /\ s.cmd.out = NoFile
    BY <1>5, <2>1, <2>2, <2>3, <2>4 DEF Parsed
  <2>5. CASE ~(Redirects(words, i) /\ s.cmd.out = NoFile)
    BY <1>5, <2>1, <2>2, <2>3, <2>5 DEF Parsed
  <2> QED BY <1>5, <2>1, <2>4, <2>5
<1> QED BY <1>1, <1>2, <1>3, <1>4, <1>5

LEMMA ParsedBar ==
  ASSUME NEW words, NEW s, NEW i, ~s.skip, words[i] = Bar
  PROVE  Parsed(words, s, i) = [done |-> Append(s.done, s.cmd), cmd |-> Fresh, skip |-> FALSE]
<1>1. words[i] # In /\ words[i] # Out
  BY MarksDiffer
<1>2. ~Redirects(words, i)
  BY <1>1 DEF Redirects
<1> QED BY <1>2 DEF Parsed

(* A word keeps the state of the parser in its type.                        *)
LEMMA ParsedType ==
  ASSUME NEW words \in Seq(FullWords), NEW s \in ParseStates, NEW i \in 1 .. Len(words)
  PROVE  Parsed(words, s, i) \in ParseStates
<1>1. /\ words[i] \in FullWords /\ s.done \in Seq(Cmds) /\ s.cmd \in Cmds
      /\ Redirects(words, i) => words[i + 1] \in Text
  BY MarksDiffer DEF ParseStates, Redirects
<1>2. Append(s.done, s.cmd) \in Seq(Cmds)
  BY <1>1
<1>3. Append(s.cmd.argv, words[i]) \in Seq(FullWords)
  BY <1>1 DEF Cmds
<1>4. ASSUME NEW w \in Seq(FullWords) PROVE [s EXCEPT !.cmd.argv = w] \in ParseStates
  BY <1>1, <1>4 DEF ParseStates, Cmds
<1>5. ASSUME NEW w \in Text
      PROVE  /\ [s EXCEPT !.cmd.in = w, !.skip = TRUE] \in ParseStates
             /\ [s EXCEPT !.cmd.out = w, !.skip = TRUE] \in ParseStates
  BY <1>1, <1>5 DEF ParseStates, Cmds
<1>6. /\ [s EXCEPT !.skip = FALSE] \in ParseStates
      /\ [done |-> Append(s.done, s.cmd), cmd |-> Fresh, skip |-> FALSE] \in ParseStates
  BY <1>1, <1>2, MarksDiffer DEF ParseStates
<1>7. CASE s.skip
  BY <1>6, <1>7, ParsedCases
<1>8. CASE ~s.skip /\ words[i] = Bar
  BY <1>6, <1>8, ParsedCases
<1>9. CASE ~s.skip /\ words[i] \notin {Bar, In, Out}
  BY <1>3, <1>4, <1>9, ParsedCases
<1>10. CASE ~s.skip /\ words[i] = In /\ Redirects(words, i) /\ s.cmd.in = NoFile
  <2>1. Parsed(words, s, i) = [s EXCEPT !.cmd.in = words[i + 1], !.skip = TRUE]
    BY <1>10, ParsedCases
  <2> QED BY <1>1, <1>5, <1>10, <2>1
<1>11. CASE ~s.skip /\ words[i] = Out /\ Redirects(words, i) /\ s.cmd.out = NoFile
  <2>1. Parsed(words, s, i) = [s EXCEPT !.cmd.out = words[i + 1], !.skip = TRUE]
    BY <1>11, ParsedCases
  <2> QED BY <1>1, <1>5, <1>11, <2>1
<1>12. CASE Parsed(words, s, i) = s
  BY <1>12
<1> QED BY <1>7, <1>8, <1>9, <1>10, <1>11, <1>12, ParsedCases

(* Commands is the end of the one path the parser takes through the words.  *)
LEMMA CommandsIs ==
  ASSUME NEW words \in Seq(FullWords)
  PROVE  \E f : /\ ParsePath(f, words, Len(words))
                /\ \A i \in 0 .. Len(words) : f[i] \in ParseStates
                /\ Commands(words) =
                     IF words = <<>> THEN <<>>
                     ELSE Append(f[Len(words)].done, f[Len(words)].cmd)
<1> DEFINE n == Len(words)
           parsed[i \in 0 .. n] ==
             IF i = 0 THEN NoCommands ELSE Parsed(words, parsed[i - 1], i)
           S == {i \in 0 .. n : parsed[i] \in ParseStates}
<1>1. n \in Nat
  OBVIOUS
<1>2. parsed = [i \in 0 .. n |-> IF i = 0 THEN NoCommands ELSE Parsed(words, parsed[i - 1], i)]
  <2>1. \E f : ParsePath(f, words, n)
    BY <1>1, ParsePathExists
  <2>2. \E f : f = [i \in 0 .. n |-> IF i = 0 THEN NoCommands ELSE Parsed(words, f[i - 1], i)]
    BY <2>1 DEF ParsePath
  <2> QED BY <2>2
<1>3. Commands(words) = IF words = <<>> THEN <<>> ELSE Append(parsed[n].done, parsed[n].cmd)
  BY DEF Commands, NoCommands
<1> HIDE DEF parsed
<1>4. 0 \in S
  <2>1. NoCommands \in ParseStates
    BY MarksDiffer DEF NoCommands, ParseStates
  <2> QED BY <1>1, <1>2, <2>1
<1>5. ASSUME NEW k \in 1 .. n, k - 1 \in S PROVE k \in S
  <2>1. k \in 0 .. n /\ k # 0
    OBVIOUS
  <2>2. parsed[k] = Parsed(words, parsed[k - 1], k)
    BY <1>2, <2>1
  <2>3. parsed[k - 1] \in ParseStates /\ k \in 1 .. Len(words)
    BY <1>5
  <2> QED BY <2>1, <2>2, <2>3, ParsedType
<1>6. \A k \in 0 .. n : k \in S
  <2> HIDE DEF S
  <2> QED BY <1>1, <1>4, <1>5, ByPositions
<1>7. ParsePath(parsed, words, n) /\ \A i \in 0 .. n : parsed[i] \in ParseStates
  BY <1>2, <1>6 DEF ParsePath
<1> QED BY <1>3, <1>7

(* The commands of any line are a sequence of commands.                     *)
LEMMA CommandsAre ==
  ASSUME NEW words \in Seq(FullWords)
  PROVE  Commands(words) \in Seq(Cmds)
<1>1. PICK f : /\ \A i \in 0 .. Len(words) : f[i] \in ParseStates
               /\ Commands(words) = IF words = <<>> THEN <<>>
                                    ELSE Append(f[Len(words)].done, f[Len(words)].cmd)
  BY CommandsIs
<1>2. f[Len(words)] \in ParseStates
  BY <1>1
<1>3. PICK s \in ParseStates : s = f[Len(words)]
  BY <1>2
<1>4. Append(s.done, s.cmd) \in Seq(Cmds)
  BY DEF ParseStates
<1> QED BY <1>1, <1>3, <1>4
-----------------------------------------------------------------------------
(* Of a well-formed line the commands are the segments between the bars.    *)
Before(words, i) == Cardinality({b \in Bars(words) : b < i})

(* Bars up to a word: one more than up to the word before if it is a bar.   *)
LEMMA BarsBefore ==
  ASSUME NEW words \in Seq(FullWords)
  PROVE  /\ Cardinality(Bars(words)) \in Nat
         /\ Before(words, 1) = 0 /\ Before(words, Len(words) + 1) = Cardinality(Bars(words))
         /\ \A i \in Nat : Before(words, i) \in Nat
         /\ \A i, j \in Nat : i <= j => Before(words, i) <= Before(words, j)
         /\ \A i \in DOMAIN words :
              Before(words, i + 1) = Before(words, i) + (IF words[i] = Bar THEN 1 ELSE 0)
<1> DEFINE to(i) == {b \in Bars(words) : b < i}
<1>1. IsFiniteSet(Bars(words)) /\ Bars(words) \subseteq 1 .. Len(words)
  <2>1. Bars(words) \subseteq 1 .. Len(words) /\ IsFiniteSet(1 .. Len(words))
    BY FS_Interval DEF Bars
  <2> QED BY <2>1, FS_Subset
<1>2. ASSUME NEW i PROVE IsFiniteSet(to(i)) /\ Cardinality(to(i)) \in Nat
  <2>1. to(i) \subseteq Bars(words)
    OBVIOUS
  <2> QED BY <1>1, <2>1, FS_Subset, FS_CardinalityType
<1>3. to(1) = {} /\ to(Len(words) + 1) = Bars(words)
  <2>1. \A b \in Bars(words) : b \in Int /\ 1 <= b /\ b <= Len(words)
    BY <1>1
  <2> QED BY <2>1
<1>4. ASSUME NEW i \in Nat, NEW j \in Nat, i <= j PROVE Cardinality(to(i)) <= Cardinality(to(j))
  <2>1. to(i) \subseteq to(j)
    <3>1. \A b \in Bars(words) : b \in Int
      BY <1>1
    <3> QED BY <1>4, <3>1
  <2> QED BY <1>2, <2>1, FS_Subset
<1>5. ASSUME NEW i \in DOMAIN words
      PROVE  Cardinality(to(i + 1)) = Cardinality(to(i)) + (IF words[i] = Bar THEN 1 ELSE 0)
  <2>1. \A b \in Bars(words) : b \in Int
    BY <1>1
  <2>2. CASE words[i] = Bar
    <3>1. to(i + 1) = to(i) \cup {i} /\ i \notin to(i)
      BY <2>1, <2>2 DEF Bars
    <3> HIDE DEF to
    <3>2. Cardinality(to(i) \cup {i}) = Cardinality(to(i)) + 1
      BY <1>2, <3>1, FS_AddElement
    <3> QED BY <2>2, <3>1, <3>2
  <2>3. CASE words[i] # Bar
    <3>1. to(i + 1) = to(i)
      BY <2>1, <2>3 DEF Bars
    <3>2. Cardinality(to(i)) \in Nat
      BY <1>2
    <3> HIDE DEF to
    <3> QED BY <2>3, <3>1, <3>2
  <2> QED BY <2>2, <2>3
<1>6. Cardinality(to(1)) = 0
  BY <1>3, FS_EmptySet
<1>7. \A i : Before(words, i) = Cardinality(to(i))
  BY DEF Before
<1>8. Cardinality(Bars(words)) \in Nat
  BY <1>1, FS_CardinalityType
<1> HIDE DEF to
<1> QED BY <1>2, <1>3, <1>4, <1>5, <1>6, <1>7, <1>8

(* A word that is no bar is in the segment of the bars before it.           *)
LEMMA SegmentIs ==
  ASSUME NEW words \in Seq(FullWords), NEW k, NEW i
  PROVE  i \in Segment(words, k) <=> i \in DOMAIN words /\ words[i] # Bar /\ Before(words, i) = k
BY DEF Segment, Bars, Before

\* What the words of segment k up to i say of a command.
Sided(words, k, i, op, file) ==
  /\ \A j \in Segment(words, k) : j <= i /\ words[j] = op => file = words[j + 1]
  /\ (\A j \in Segment(words, k) : j <= i => words[j] # op) => file = NoFile

Started(words, k, i, argv) ==
  /\ argv = <<>> <=> \A j \in Plain(words, k) : i < j
  /\ argv # <<>> => \E j \in Plain(words, k) : /\ argv[1] = words[j]
                                               /\ \A m \in Plain(words, k) : j <= m

Matches(words, k, i, cmd) ==
  /\ Sided(words, k, i, In, cmd.in) /\ Sided(words, k, i, Out, cmd.out)
  /\ Started(words, k, i, cmd.argv)

ParseInv(words, s, i) ==
  /\ s \in ParseStates
  /\ Len(s.done) = Before(words, i + 1)
  /\ s.skip <=> i > 0 /\ words[i] \in {In, Out}
  /\ Matches(words, Len(s.done), i, s.cmd)
  /\ \A x \in 1 .. Len(s.done) : Matches(words, x - 1, Len(words), s.done[x])

(* Words outside segment k leave its command as it was.                     *)
LEMMA MatchesSame ==
  ASSUME NEW words \in Seq(FullWords), NEW k, NEW cmd, NEW i \in Int, NEW j \in Int, i <= j,
         Matches(words, k, i, cmd), \A m \in Segment(words, k) : m <= i \/ j < m
  PROVE  Matches(words, k, j, cmd)
<1>1. Plain(words, k) \subseteq Segment(words, k) /\ Segment(words, k) \subseteq Int
  BY DEF Plain, Segment
<1>2. \A m \in Segment(words, k) : m <= i <=> m <= j
  BY <1>1
<1>3. \A m \in Plain(words, k) : i < m <=> j < m
  BY <1>1, <1>2
<1>4. Sided(words, k, j, In, cmd.in) /\ Sided(words, k, j, Out, cmd.out)
  BY <1>2 DEF Matches, Sided
<1>5. Started(words, k, j, cmd.argv)
  BY <1>3 DEF Matches, Started
<1> QED BY <1>4, <1>5 DEF Matches

(* A new command has read nothing of its segment.                           *)
LEMMA MatchesNothing ==
  ASSUME NEW words \in Seq(FullWords), NEW k, NEW i \in Int, \A m \in Segment(words, k) : i < m
  PROVE  Matches(words, k, i, Fresh)
<1>1. Plain(words, k) \subseteq Segment(words, k) /\ Segment(words, k) \subseteq Int
  BY DEF Plain, Segment
<1>2. \A m \in Segment(words, k) : ~(m <= i)
  BY <1>1
<1> QED BY <1>1, <1>2, MarksDiffer DEF Matches, Sided, Started

(* In a well-formed line a mark is followed by a file of its segment.       *)
LEMMA MarkIs ==
  ASSUME NEW words \in Seq(FullWords), WellFormed(words),
         NEW j \in DOMAIN words, words[j] \in {In, Out}
  PROVE  /\ j \in Segment(words, Before(words, j))
         /\ j + 1 \in DOMAIN words /\ words[j + 1] \notin {Bar, In, Out}
         /\ \A m \in Segment(words, Before(words, j)) : words[m] = words[j] => m = j
<1>1. PICK k : k = Before(words, j)
  OBVIOUS
<1>2. k \in 0 .. Cardinality(Bars(words))
  <2>1. j \in Nat /\ Len(words) + 1 \in Nat /\ j <= Len(words) + 1
    OBVIOUS
  <2>2. Before(words, j) \in Nat /\ Before(words, j) <= Before(words, Len(words) + 1)
    BY <2>1, BarsBefore
  <2> QED BY <1>1, <2>2, BarsBefore
<1>3. j \in Segment(words, k)
  BY <1>1, SegmentIs, MarksDiffer
<1>4. PICK op \in {In, Out} : words[j] = op
  OBVIOUS
<1>5. /\ j + 1 \in Segment(words, k)
      /\ Cardinality({i \in Segment(words, k) : words[i] = op}) <= 1
      /\ Files(words, k, op) \cap {Bar, In, Out} = {}
  BY <1>2, <1>3, <1>4 DEF WellFormed
<1>6. j + 1 \in DOMAIN words
  BY <1>5 DEF Segment
<1>7. words[j + 1] \in Files(words, k, op)
  BY <1>3, <1>4, <1>6 DEF Files
<1>8. ASSUME NEW m \in Segment(words, k), words[m] = op PROVE m = j
  <2> DEFINE A == {i \in Segment(words, k) : words[i] = op}
  <2>1. A \subseteq 1 .. Len(words) /\ IsFiniteSet(1 .. Len(words))
    BY FS_Interval DEF Segment
  <2>2. IsFiniteSet(A)
    BY <2>1, FS_Subset
  <2>3. {j, m} \subseteq A /\ Cardinality(A) <= 1
    BY <1>3, <1>4, <1>5, <1>8
  <2>4. SUFFICES ASSUME m # j PROVE FALSE
    OBVIOUS
  <2> HIDE DEF A
  <2>5. PICK J : J = {j}
    OBVIOUS
  <2>6. m \notin J /\ IsFiniteSet(J) /\ Cardinality(J) = 1 /\ J \cup {m} \subseteq A
    BY <2>3, <2>4, <2>5, FS_Singleton
  <2>7. Cardinality(J \cup {m}) = 2
    <3>1. Cardinality(J \cup {m}) = Cardinality(J) + 1
      BY <2>6, FS_AddElement
    <3> QED BY <2>6, <3>1
  <2>8. Cardinality(J \cup {m}) <= Cardinality(A) /\ Cardinality(A) \in Nat
    BY <2>2, <2>6, FS_Subset, FS_CardinalityType
  <2> QED BY <2>3, <2>7, <2>8
<1> QED BY <1>1, <1>3, <1>4, <1>5, <1>6, <1>7, <1>8

(* One word of a well-formed line keeps commands and segments matched.      *)
LEMMA ParseStep ==
  ASSUME NEW words \in Seq(FullWords), WellFormed(words), NEW i \in 1 .. Len(words),
         NEW s, ParseInv(words, s, i - 1)
  PROVE  ParseInv(words, Parsed(words, s, i), i)
<1> DEFINE n == Len(words)
<1>1. PICK k : k = Len(s.done)
  OBVIOUS
<1>2. PICK r : r = Parsed(words, s, i)
  OBVIOUS
<1>3. /\ s \in ParseStates /\ k = Before(words, i) /\ (i - 1) + 1 = i
      /\ s.skip <=> i > 1 /\ words[i - 1] \in {In, Out}
      /\ Matches(words, k, i - 1, s.cmd)
      /\ \A x \in 1 .. k : Matches(words, x - 1, n, s.done[x])
  BY <1>1 DEF ParseInv
<1>4. s \in ParseStates
  BY <1>3
<1>5. r \in ParseStates
  BY <1>2, <1>4, ParsedType
<1>6. /\ i \in DOMAIN words /\ i \in Nat /\ k \in Nat
      /\ \A m \in DOMAIN words : m \in Nat /\ m + 1 \in Nat
  <2>1. /\ i \in DOMAIN words /\ i \in Nat
        /\ \A m \in DOMAIN words : m \in Nat /\ m + 1 \in Nat
    OBVIOUS
  <2> QED BY <1>3, <2>1, BarsBefore
<1>7. Before(words, i + 1) = k + (IF words[i] = Bar THEN 1 ELSE 0)
  BY <1>3, <1>6, BarsBefore
<1>8. /\ s.done \in Seq(Cmds) /\ s.cmd \in Cmds /\ s.cmd.argv \in Seq(FullWords)
  BY <1>3 DEF ParseStates, Cmds
<1>9. s.skip => words[i] \notin {Bar, In, Out}
  <2>1. SUFFICES ASSUME s.skip PROVE words[i] \notin {Bar, In, Out}
    OBVIOUS
  <2>2. i - 1 \in DOMAIN words /\ words[i - 1] \in {In, Out}
    BY <1>3, <2>1
  <2> QED BY <1>3, <2>2, MarkIs
<1>10. CASE words[i] = Bar
  <2>1. r = [done |-> Append(s.done, s.cmd), cmd |-> Fresh, skip |-> FALSE]
    <3>1. ~s.skip
      BY <1>9, <1>10
    <3>2. Parsed(words, s, i) = [done |-> Append(s.done, s.cmd), cmd |-> Fresh, skip |-> FALSE]
      BY <1>10, <3>1, ParsedBar
    <3> QED BY <1>2, <3>2
  <2>2. Len(r.done) = k + 1 /\ \A x \in 1 .. k + 1 : r.done[x] = IF x <= k THEN s.done[x] ELSE s.cmd
    BY <1>1, <1>8, <2>1
  <2>3. ASSUME NEW m \in Segment(words, k) PROVE m <= i - 1
    <3>1. m \in DOMAIN words /\ words[m] # Bar /\ Before(words, m) = k
      BY SegmentIs
    <3>2. SUFFICES ASSUME ~(m <= i - 1) PROVE FALSE
      OBVIOUS
    <3>3. m # i /\ i + 1 <= m
      BY <1>6, <1>10, <3>1, <3>2
    <3>4. Before(words, i + 1) <= Before(words, m)
      BY <1>6, <3>1, <3>3, BarsBefore
    <3> QED BY <1>6, <1>7, <1>10, <3>1, <3>4
  <2>4. Matches(words, k, n, s.cmd)
    <3>1. i - 1 \in Int /\ n \in Int /\ i - 1 <= n
      OBVIOUS
    <3>2. \A m \in Segment(words, k) : m <= i - 1 \/ n < m
      BY <2>3
    <3> HIDE DEF n
    <3> QED BY <1>3, <3>1, <3>2, MatchesSame
  <2>5. ASSUME NEW m \in Segment(words, k + 1) PROVE i < m
    <3>1. m \in DOMAIN words /\ Before(words, m) = k + 1
      BY SegmentIs
    <3>2. SUFFICES ASSUME m <= i PROVE FALSE
      BY <1>6, <3>1
    <3>3. Before(words, m) <= Before(words, i)
      BY <1>6, <3>1, <3>2, BarsBefore
    <3> QED BY <1>3, <1>6, <3>1, <3>3
  <2>6. Matches(words, k + 1, i, Fresh)
    BY <2>5, MatchesNothing
  <2>7. ASSUME NEW x \in 1 .. k + 1 PROVE Matches(words, x - 1, n, r.done[x])
    <3>1. CASE x <= k
      BY <1>3, <2>2, <3>1
    <3>2. CASE ~(x <= k)
      <4>1. x - 1 = k /\ r.done[x] = s.cmd
        BY <1>6, <2>2, <3>2
      <4> QED BY <2>4, <4>1
    <3> QED BY <3>1, <3>2
  <2>8. ~r.skip /\ words[i] \notin {In, Out} /\ r.cmd = Fresh
    BY <1>10, <2>1, MarksDiffer
  <2> QED BY <1>2, <1>5, <1>7, <1>10, <2>2, <2>6, <2>7, <2>8 DEF ParseInv
<1> SUFFICES ASSUME words[i] # Bar PROVE ParseInv(words, r, i)
  BY <1>2, <1>10
<1>11. i \in Segment(words, k) /\ Before(words, i + 1) = k
  BY <1>3, <1>6, <1>7, SegmentIs
<1>12. SUFFICES /\ r.done = s.done /\ Matches(words, k, i, r.cmd)
                /\ r.skip <=> words[i] \in {In, Out}
  BY <1>1, <1>3, <1>5, <1>6, <1>11 DEF ParseInv
<1>13. \A j \in Segment(words, k) : j \in DOMAIN words /\ (j <= i <=> j <= i - 1 \/ j = i)
  BY <1>6, SegmentIs
<1>14. ASSUME NEW op, NEW file, words[i] # op, Sided(words, k, i - 1, op, file)
       PROVE  Sided(words, k, i, op, file)
  BY <1>13, <1>14 DEF Sided
<1>15. i \notin Plain(words, k) => Started(words, k, i, s.cmd.argv)
  <2>1. \A j \in Plain(words, k) : j \in Segment(words, k)
    BY DEF Plain
  <2>2. SUFFICES ASSUME i \notin Plain(words, k)
                 PROVE  \A j \in Plain(words, k) : i - 1 < j <=> i < j
    BY <1>3 DEF Matches, Started
  <2> QED BY <1>6, <1>13, <2>1, <2>2
<1>16. Sided(words, k, i - 1, In, s.cmd.in) /\ Sided(words, k, i - 1, Out, s.cmd.out)
       /\ Started(words, k, i - 1, s.cmd.argv)
  BY <1>3 DEF Matches
<1>17. CASE s.skip
  <2>1. r = [s EXCEPT !.skip = FALSE]
    BY <1>4, <1>2, <1>17, ParsedCases
  <2>2. r.done = s.done /\ r.cmd = s.cmd /\ ~r.skip
    BY <1>3, <2>1 DEF ParseStates
  <2>3. words[i] # In /\ words[i] # Out
    BY <1>9, <1>17
  <2>4. i \notin Plain(words, k)
    BY <1>3, <1>17 DEF Plain
  <2> QED BY <1>14, <1>15, <1>16, <2>2, <2>3, <2>4 DEF Matches
<1>18. CASE ~s.skip /\ words[i] \notin {In, Out}
  <2>1. r = [s EXCEPT !.cmd.argv = Append(s.cmd.argv, words[i])]
    BY <1>2, <1>3, <1>18, ParsedCases
  <2>2. PICK a : a = Append(s.cmd.argv, words[i])
    OBVIOUS
  <2>3. /\ r.done = s.done /\ r.cmd.in = s.cmd.in /\ r.cmd.out = s.cmd.out /\ r.cmd.argv = a
        /\ r.skip = s.skip
    BY <1>3, <2>1, <2>2 DEF ParseStates, Cmds
  <2>4. words[i] \in FullWords
    OBVIOUS
  <2>5. a # <<>> /\ a[1] = IF s.cmd.argv = <<>> THEN words[i] ELSE s.cmd.argv[1]
    BY <1>8, <2>2, <2>4
  <2>6. i \in Plain(words, k)
    BY <1>3, <1>11, <1>18 DEF Plain
  <2>7. Started(words, k, i, a)
    <3>1. \A j \in Plain(words, k) : j \in Int
      BY <1>6 DEF Plain, Segment
    <3>2. ~ \A j \in Plain(words, k) : i < j
      BY <1>6, <2>6
    <3>3. CASE s.cmd.argv = <<>>
      <4>1. \A j \in Plain(words, k) : i - 1 < j
        BY <1>16, <3>3 DEF Started
      <4>2. \A j \in Plain(words, k) : i <= j
        BY <1>6, <3>1, <4>1
      <4> QED BY <2>5, <2>6, <3>2, <3>3, <4>2 DEF Started
    <3>4. CASE s.cmd.argv # <<>>
      BY <1>16, <2>5, <3>2, <3>4 DEF Started
    <3> QED BY <3>3, <3>4
  <2> QED BY <1>14, <1>16, <1>18, <2>3, <2>7 DEF Matches
<1>19. ASSUME NEW op \in {In, Out}, ~s.skip, words[i] = op, NEW file,
              Sided(words, k, i - 1, op, file)
       PROVE  /\ Redirects(words, i) /\ file = NoFile
              /\ Sided(words, k, i, op, words[i + 1])
  <2>1. /\ i + 1 \in DOMAIN words /\ words[i + 1] \notin {Bar, In, Out}
        /\ \A m \in Segment(words, k) : words[m] = op => m = i
    BY <1>3, <1>6, <1>19, MarkIs
  <2>2. Redirects(words, i)
    BY <1>6, <1>19, <2>1 DEF Redirects
  <2>3. \A j \in Segment(words, k) : j <= i - 1 => words[j] # op
    BY <1>6, <2>1
  <2>4. file = NoFile
    BY <1>19, <2>3 DEF Sided
  <2>5. Sided(words, k, i, op, words[i + 1])
    BY <1>6, <1>11, <1>19, <2>1 DEF Sided
  <2> QED BY <2>2, <2>4, <2>5
<1>20. CASE ~s.skip /\ words[i] = In
  <2>1. Redirects(words, i) /\ s.cmd.in = NoFile /\ Sided(words, k, i, In, words[i + 1])
    BY <1>16, <1>19, <1>20
  <2>2. r = [s EXCEPT !.cmd.in = words[i + 1], !.skip = TRUE]
    BY <1>2, <1>3, <1>20, <2>1, ParsedCases
  <2>3. /\ r.done = s.done /\ r.cmd.in = words[i + 1] /\ r.cmd.out = s.cmd.out
        /\ r.cmd.argv = s.cmd.argv /\ r.skip
    BY <1>3, <2>2 DEF ParseStates, Cmds
  <2>4. words[i] # Out /\ i \notin Plain(words, k)
    BY <1>20, MarksDiffer DEF Plain
  <2> QED BY <1>14, <1>15, <1>16, <1>20, <2>1, <2>3, <2>4 DEF Matches
<1>21. CASE ~s.skip /\ words[i] = Out
  <2>1. Redirects(words, i) /\ s.cmd.out = NoFile /\ Sided(words, k, i, Out, words[i + 1])
    BY <1>16, <1>19, <1>21
  <2>2. r = [s EXCEPT !.cmd.out = words[i + 1], !.skip = TRUE]
    BY <1>2, <1>3, <1>21, <2>1, ParsedCases
  <2>3. /\ r.done = s.done /\ r.cmd.out = words[i + 1] /\ r.cmd.in = s.cmd.in
        /\ r.cmd.argv = s.cmd.argv /\ r.skip
    BY <1>3, <2>2 DEF ParseStates, Cmds
  <2>4. words[i] # In /\ i \notin Plain(words, k)
    BY <1>21, MarksDiffer DEF Plain
  <2> QED BY <1>14, <1>15, <1>16, <1>21, <2>1, <2>3, <2>4 DEF Matches
<1> QED BY <1>17, <1>18, <1>20, <1>21

(* The parser finds, segment by segment, what the grammar says.             *)
LEMMA CommandsMatch ==
  ASSUME NEW words \in Seq(FullWords), WellFormed(words)
  PROVE  /\ Len(Commands(words)) = Cardinality(Bars(words)) + 1
         /\ \A k \in 0 .. Cardinality(Bars(words)) :
              Matches(words, k, Len(words), Commands(words)[k + 1])
<1> DEFINE n == Len(words)
<1>1. PICK f : /\ ParsePath(f, words, n)
               /\ \A i \in 0 .. n : f[i] \in ParseStates
               /\ Commands(words) = IF words = <<>> THEN <<>> ELSE Append(f[n].done, f[n].cmd)
  BY CommandsIs
<1>2. Cardinality(Bars(words)) \in Nat /\ n \in Nat
  BY BarsBefore
<1>3. words # <<>>
  <2>1. 0 \in 0 .. Cardinality(Bars(words))
    BY <1>2
  <2>2. Plain(words, 0) # {}
    BY <2>1 DEF WellFormed
  <2>3. DOMAIN words # {}
    BY <2>2 DEF Plain, Segment
  <2> QED BY <2>3
<1> DEFINE S == {i \in 0 .. n : ParseInv(words, f[i], i)}
<1>4. 0 \in S
  <2>1. f[0] = NoCommands
    BY <1>1, <1>2 DEF ParsePath
  <2>2. f[0] \in ParseStates
    BY <1>1, <1>2
  <2>3. Before(words, 1) = 0 /\ 0 + 1 = 1
    BY BarsBefore
  <2>4. Matches(words, 0, 0, Fresh)
    <3>1. \A m \in Segment(words, 0) : 0 < m
      BY DEF Segment
    <3> QED BY <3>1, MatchesNothing
  <2>5. ParseInv(words, f[0], 0)
    BY <2>1, <2>2, <2>3, <2>4 DEF ParseInv, NoCommands
  <2> QED BY <1>2, <2>5
<1>5. ASSUME NEW i \in 1 .. n, i - 1 \in S PROVE i \in S
  <2>1. i \in 0 .. n /\ i # 0
    OBVIOUS
  <2>2. f[i] = Parsed(words, f[i - 1], i)
    BY <1>1, <2>1 DEF ParsePath
  <2>3. ParseInv(words, f[i - 1], i - 1)
    BY <1>5
  <2>4. ParseInv(words, f[i], i)
    BY <2>2, <2>3, ParseStep
  <2> QED BY <2>1, <2>4
<1>6. ParseInv(words, f[n], n)
  <2>1. \A i \in 0 .. n : i \in S
    <3> HIDE DEF S
    <3> QED BY <1>2, <1>4, <1>5, ByPositions
  <2>2. n \in 0 .. n
    BY <1>2
  <2> QED BY <2>1, <2>2
<1>7. PICK s, k : s = f[n] /\ k = Len(s.done)
  OBVIOUS
<1>8. /\ k = Cardinality(Bars(words)) /\ s.done \in Seq(Cmds) /\ s.cmd \in Cmds
      /\ Matches(words, k, n, s.cmd)
      /\ \A x \in 1 .. k : Matches(words, x - 1, n, s.done[x])
  BY <1>6, <1>7, BarsBefore DEF ParseInv, ParseStates
<1>9. /\ Commands(words) = Append(s.done, s.cmd)
      /\ Len(Commands(words)) = k + 1
      /\ Commands(words)[k + 1] = s.cmd
      /\ \A x \in 1 .. k : Commands(words)[x] = s.done[x]
  <2>1. Commands(words) = Append(s.done, s.cmd)
    BY <1>1, <1>3, <1>7
  <2>2. PICK d, c : d = s.done /\ c = s.cmd
    OBVIOUS
  <2>3. d \in Seq(Cmds) /\ c \in Cmds /\ k = Len(d)
    BY <1>7, <1>8, <2>2
  <2>4. /\ Len(Append(d, c)) = k + 1 /\ Append(d, c)[k + 1] = c
        /\ \A x \in 1 .. k : Append(d, c)[x] = d[x]
    BY <2>3
  <2> QED BY <2>1, <2>2, <2>4
<1>10. ASSUME NEW m \in 0 .. k PROVE Matches(words, m, n, Commands(words)[m + 1])
  <2>1. CASE m = k
    <3>1. Commands(words)[m + 1] = s.cmd
      BY <1>9, <2>1
    <3> QED BY <1>8, <2>1, <3>1
  <2>2. CASE m # k
    <3>1. m + 1 \in 1 .. k /\ (m + 1) - 1 = m
      BY <1>2, <1>8, <2>2
    <3>2. Commands(words)[m + 1] = s.done[m + 1]
      BY <1>9, <3>1
    <3>3. Matches(words, (m + 1) - 1, n, s.done[m + 1])
      BY <1>8, <3>1
    <3> QED BY <3>1, <3>2, <3>3
  <2> QED BY <2>1, <2>2
<1> QED BY <1>8, <1>9, <1>10
-----------------------------------------------------------------------------
(* The descriptors of the shell: three for the terminal, and while a line   *)
(* of n + 1 commands is worked on the ends of its n pipes, in order.        *)
Plug(file) == [file |-> file, cloexec |-> FALSE]
Ready == [f \in 0 .. 2 |-> Plug(Tty)]

PipeAt(T, k) ==
  \E id : T[2 * k + 3] = Plug(<<"read", id>>) /\ T[2 * k + 4] = Plug(<<"write", id>>)

Piping(T, n) ==
  /\ T = [f \in 0 .. 2 * n + 2 |-> T[f]]
  /\ \A f \in 0 .. 2 : T[f] = Plug(Tty)
  /\ \A f \in 3 .. 2 * n + 2 : \E file : T[f] = Plug(file)
  /\ \A k \in 0 .. n - 1 : PipeAt(T, k)

EndsOK(ends, n) ==
  /\ ends \in Seq(Nat) /\ Len(ends) = 2 * n
  /\ \A i \in 1 .. 2 * n : ends[i] = i + 2

(* With descriptors 0 .. n-1 in use, the next one opened is n.              *)
LEMMA OpenedIs ==
  ASSUME NEW t, NEW m \in Nat, m < OpenMax, DOMAIN t = 0 .. m - 1, NEW file
  PROVE  /\ Lowest(FreeFds(t)) = m
         /\ Opened(t, file) = [f \in 0 .. m |-> IF f = m THEN Plug(file) ELSE t[f]]
         /\ m + 1 < OpenMax => ~(Cardinality(FreeFds(t)) < 2)
<1>1. FreeFds(t) = m .. OpenMax - 1
  BY ShellAssumption DEF FreeFds
<1>2. Lowest(FreeFds(t)) = m
  <2>1. m .. OpenMax - 1 \in SUBSET Nat /\ m \in m .. OpenMax - 1
    BY ShellAssumption
  <2>2. \A y \in m .. OpenMax - 1 : m <= y
    OBVIOUS
  <2> QED BY <1>1, <2>1, <2>2, LowestIs
<1>3. Opened(t, file) = [f \in 0 .. m |-> IF f = m THEN Plug(file) ELSE t[f]]
  <2>1. DOMAIN t \cup {m} = 0 .. m
    OBVIOUS
  <2> QED BY <1>2, <2>1 DEF Opened, Plug, Put
<1>4. ASSUME m + 1 < OpenMax PROVE ~(Cardinality(FreeFds(t)) < 2)
  <2>1. Cardinality(m .. OpenMax - 1) = (OpenMax - 1) - m + 1
    BY <1>4, ShellAssumption, FS_Interval
  <2> QED BY <1>1, <1>4, <2>1, ShellAssumption
<1> QED BY <1>2, <1>3, <1>4

(* A pipe takes the next two descriptors.                                   *)
LEMMA PipedIs ==
  ASSUME NEW s, NEW i \in Nat, Piping(s.fds, i), EndsOK(s.ends, i), 2 * i + 5 <= OpenMax, NEW id
  PROVE  Piping(Piped(s, id).fds, i + 1) /\ EndsOK(Piped(s, id).ends, i + 1)
<1>1. PICK T, m : T = s.fds /\ m = 2 * i + 3
  OBVIOUS
<1>2. /\ m \in Nat /\ m + 1 \in Nat /\ m < OpenMax /\ m + 1 < OpenMax /\ 2 * i + 2 = m - 1
      /\ (m + 1) - 1 = m /\ 2 * (i + 1) + 2 = m + 1
  BY <1>1, ShellAssumption
<1>3. DOMAIN T = 0 .. m - 1
  BY <1>1, <1>2 DEF Piping
<1>4. PICK A : A = Opened(T, <<"read", id>>)
  OBVIOUS
<1>5. /\ Lowest(FreeFds(T)) = m /\ ~(Cardinality(FreeFds(T)) < 2)
      /\ A = [f \in 0 .. m |-> IF f = m THEN Plug(<<"read", id>>) ELSE T[f]]
  <2>1. m \in Nat /\ m < OpenMax /\ m + 1 < OpenMax
    BY <1>2
  <2>2. PICK x : x = <<"read", id>>
    OBVIOUS
  <2>3. /\ Lowest(FreeFds(T)) = m /\ ~(Cardinality(FreeFds(T)) < 2)
        /\ Opened(T, x) = [f \in 0 .. m |-> IF f = m THEN Plug(x) ELSE T[f]]
    BY <1>3, <2>1, OpenedIs
  <2> QED BY <1>4, <2>2, <2>3
<1>6. DOMAIN A = 0 .. (m + 1) - 1
  BY <1>2, <1>5
<1>7. PICK B : B = Opened(A, <<"write", id>>)
  OBVIOUS
<1>8. /\ Lowest(FreeFds(A)) = m + 1
      /\ B = [f \in 0 .. m + 1 |-> IF f = m + 1 THEN Plug(<<"write", id>>) ELSE A[f]]
  <2>1. PICK x, d : x = <<"write", id>> /\ d = m + 1
    OBVIOUS
  <2>2. d \in Nat /\ d < OpenMax /\ DOMAIN A = 0 .. d - 1
    BY <1>2, <1>6, <2>1
  <2>3. Lowest(FreeFds(A)) = d /\ Opened(A, x) = [f \in 0 .. d |-> IF f = d THEN Plug(x) ELSE A[f]]
    BY <2>2, OpenedIs
  <2> QED BY <1>7, <2>1, <2>3
<1>9. Piped(s, id) = [fds |-> B, ends |-> s.ends \o <<m, m + 1>>]
  <2>1. PICK x, y, z : x = <<"read", id>> /\ y = <<"write", id>> /\ z = <<m, m + 1>>
    OBVIOUS
  <2>2. /\ s.fds = T /\ ~(Cardinality(FreeFds(T)) < 2) /\ Lowest(FreeFds(T)) = m
        /\ Opened(T, x) = A /\ Lowest(FreeFds(A)) = m + 1 /\ Opened(A, y) = B
    BY <1>1, <1>4, <1>5, <1>7, <1>8, <2>1
  <2> QED BY <2>1, <2>2 DEF Piped
<1>10. EndsOK(s.ends \o <<m, m + 1>>, i + 1)
  <2>1. PICK e : e = s.ends
    OBVIOUS
  <2>2. e \in Seq(Nat) /\ Len(e) = 2 * i /\ \A j \in 1 .. 2 * i : e[j] = j + 2
    BY <2>1 DEF EndsOK
  <2>3. /\ e \o <<m, m + 1>> \in Seq(Nat) /\ Len(e \o <<m, m + 1>>) = 2 * i + 2
        /\ \A j \in 1 .. 2 * i : (e \o <<m, m + 1>>)[j] = e[j]
        /\ (e \o <<m, m + 1>>)[2 * i + 1] = m /\ (e \o <<m, m + 1>>)[2 * i + 2] = m + 1
    BY <1>2, <2>2
  <2>4. \A j \in 1 .. 2 * (i + 1) : j \in 1 .. 2 * i \/ j = 2 * i + 1 \/ j = 2 * i + 2
    OBVIOUS
  <2>5. ASSUME NEW j \in 1 .. 2 * (i + 1) PROVE (e \o <<m, m + 1>>)[j] = j + 2
    <3>1. CASE j \in 1 .. 2 * i
      BY <2>2, <2>3, <3>1
    <3>2. CASE j = 2 * i + 1
      BY <1>1, <2>3, <3>2
    <3>3. CASE j = 2 * i + 2
      BY <1>1, <2>3, <3>3
    <3> QED BY <2>4, <3>1, <3>2, <3>3
  <2>6. 2 * (i + 1) = 2 * i + 2
    OBVIOUS
  <2> QED BY <2>1, <2>3, <2>5, <2>6 DEF EndsOK
<1>11. Piping(B, i + 1)
  <2>1. B = [f \in 0 .. 2 * (i + 1) + 2 |-> B[f]]
    BY <1>2, <1>8
  <2>2. /\ \A f \in 0 .. m - 1 : B[f] = T[f]
        /\ B[m] = Plug(<<"read", id>>) /\ B[m + 1] = Plug(<<"write", id>>)
    BY <1>2, <1>5, <1>8
  <2>3. \A f \in 0 .. 2 : B[f] = Plug(Tty)
    <3>1. \A f \in 0 .. 2 : f \in 0 .. m - 1 /\ T[f] = Plug(Tty)
      BY <1>1 DEF Piping
    <3> QED BY <2>2, <3>1
  <2>4. ASSUME NEW f \in 3 .. 2 * (i + 1) + 2 PROVE \E file : B[f] = Plug(file)
    <3>1. f \in 3 .. 2 * i + 2 \/ f = m \/ f = m + 1
      BY <1>1
    <3>2. CASE f \in 3 .. 2 * i + 2
      <4>1. f \in 0 .. m - 1 /\ \E file : T[f] = Plug(file)
        BY <1>1, <1>2, <3>2 DEF Piping
      <4> QED BY <2>2, <4>1
    <3> QED BY <2>2, <3>1, <3>2
  <2>5. ASSUME NEW k \in 0 .. (i + 1) - 1 PROVE PipeAt(B, k)
    <3>1. CASE k = i
      <4>1. 2 * k + 3 = m /\ 2 * k + 4 = m + 1
        BY <1>1, <3>1
      <4> QED BY <2>2, <4>1 DEF PipeAt
    <3>2. CASE k # i
      <4>1. k \in 0 .. i - 1 /\ 2 * k + 3 \in 0 .. m - 1 /\ 2 * k + 4 \in 0 .. m - 1
        BY <1>1, <3>2
      <4>2. PipeAt(T, k) /\ B[2 * k + 3] = T[2 * k + 3] /\ B[2 * k + 4] = T[2 * k + 4]
        BY <1>1, <2>2, <4>1 DEF Piping
      <4> QED BY <4>2 DEF PipeAt
    <3> QED BY <3>1, <3>2
  <2> QED BY <2>1, <2>3, <2>4, <2>5 DEF Piping
<1> QED BY <1>9, <1>10, <1>11

(* The shell's pipes take the descriptors from 3 on, in their order.        *)
LEMMA MakePipesIs ==
  ASSUME NEW n \in Nat, 2 * n + 3 <= OpenMax
  PROVE  Piping(MakePipes(Ready, n).fds, n) /\ EndsOK(MakePipes(Ready, n).ends, n)
<1>1. \E ids : MakePipes(Ready, n) =
        LET made[i \in 0 .. n] == IF i = 0 THEN [fds |-> Ready, ends |-> <<>>]
                                  ELSE Piped(made[i - 1], ids[i])
        IN made[n]
  BY DEF MakePipes
<1>2. PICK ids : MakePipes(Ready, n) =
        LET made[i \in 0 .. n] == IF i = 0 THEN [fds |-> Ready, ends |-> <<>>]
                                  ELSE Piped(made[i - 1], ids[i])
        IN made[n]
  BY <1>1
<1> DEFINE made[i \in 0 .. n] == IF i = 0 THEN [fds |-> Ready, ends |-> <<>>]
                                 ELSE Piped(made[i - 1], ids[i])
           S == {i \in 0 .. n : Piping(made[i].fds, i) /\ EndsOK(made[i].ends, i)}
<1>3. MakePipes(Ready, n) = made[n]
  BY <1>2
<1>4. made = [i \in 0 .. n |-> IF i = 0 THEN [fds |-> Ready, ends |-> <<>>]
                               ELSE Piped(made[i - 1], ids[i])]
  <2>1. \E f : PipePath(f, Ready, ids, n)
    BY PipePathExists
  <2>2. \E f : f = [i \in 0 .. n |-> IF i = 0 THEN [fds |-> Ready, ends |-> <<>>]
                                     ELSE Piped(f[i - 1], ids[i])]
    BY <2>1 DEF PipePath
  <2> QED BY <2>2
<1> HIDE DEF made
<1>5. 0 \in S
  <2>1. made[0] = [fds |-> Ready, ends |-> <<>>]
    BY <1>4
  <2>2. Piping(Ready, 0)
    BY DEF Piping, Ready
  <2>3. EndsOK(<<>>, 0)
    BY DEF EndsOK
  <2> QED BY <2>1, <2>2, <2>3
<1>6. ASSUME NEW i \in 1 .. n, i - 1 \in S PROVE i \in S
  <2>1. i \in 0 .. n /\ i # 0 /\ i - 1 \in Nat /\ 2 * (i - 1) + 5 <= OpenMax /\ (i - 1) + 1 = i
    BY ShellAssumption
  <2>2. made[i] = Piped(made[i - 1], ids[i])
    BY <1>4, <2>1
  <2>3. PICK s, j, id : s = made[i - 1] /\ j = i - 1 /\ id = ids[i]
    OBVIOUS
  <2>4. Piping(s.fds, j) /\ EndsOK(s.ends, j) /\ j \in Nat /\ 2 * j + 5 <= OpenMax /\ j + 1 = i
    BY <1>6, <2>1, <2>3
  <2>5. Piping(Piped(s, id).fds, j + 1) /\ EndsOK(Piped(s, id).ends, j + 1)
    BY <2>4, PipedIs
  <2> QED BY <2>1, <2>2, <2>3, <2>4, <2>5
<1>7. n \in S
  <2>1. \A i \in 0 .. n : i \in S
    <3> HIDE DEF S
    <3> QED BY <1>5, <1>6, ByPositions
  <2> QED BY <2>1
<1> QED BY <1>3, <1>7

(* Closing the ends leaves the three descriptors the shell began with.      *)
LEMMA ClosePipesIs ==
  ASSUME NEW n \in Nat, NEW T, Piping(T, n), NEW j, EndsOK(j.ends, n)
  PROVE  ClosePipes(T, j) = Ready
<1>1. PICK e : e = j.ends
  OBVIOUS
<1>2. /\ DOMAIN e = 1 .. 2 * n /\ \A i \in 1 .. 2 * n : e[i] = i + 2
      /\ DOMAIN T = 0 .. 2 * n + 2 /\ \A f \in 0 .. 2 : T[f] = Plug(Tty)
  BY <1>1 DEF EndsOK, Piping
<1>3. ASSUME NEW f
      PROVE  f \in (0 .. 2 * n + 2) \ {e[i] : i \in DOMAIN e} <=> f \in 0 .. 2
  <2>1. ASSUME f \in 0 .. 2 * n + 2, f \notin 0 .. 2 PROVE f \in {e[i] : i \in DOMAIN e}
    <3>1. f - 2 \in 1 .. 2 * n /\ (f - 2) + 2 = f
      BY <2>1
    <3>2. e[f - 2] = f
      BY <1>2, <3>1
    <3> QED BY <1>2, <3>1, <3>2
  <2>2. ASSUME f \in 0 .. 2 PROVE f \in 0 .. 2 * n + 2 /\ f \notin {e[i] : i \in DOMAIN e}
    <3>1. \A i \in 1 .. 2 * n : i + 2 # f
      BY <2>2
    <3> QED BY <1>2, <2>2, <3>1
  <2> QED BY <2>1, <2>2
<1>4. (0 .. 2 * n + 2) \ {e[i] : i \in DOMAIN e} = 0 .. 2
  BY <1>3
<1>5. ClosePipes(T, j) = [f \in 0 .. 2 |-> T[f]]
  BY <1>1, <1>2, <1>4 DEF ClosePipes
<1> QED BY <1>2, <1>5 DEF Ready

-----------------------------------------------------------------------------
(* A child's descriptors: a and b are its standard input and output, and    *)
(* exec closes all but the first three.                                     *)
Fitted(W, a, b) ==
  /\ {0, 1, 2} \subseteq DOMAIN W /\ DOMAIN W \subseteq Nat
  /\ W[0] = Plug(a) /\ W[1] = Plug(b) /\ ~W[2].cloexec
  /\ \A f \in DOMAIN W \ {0, 1, 2} : W[f].cloexec

(* exec leaves the three descriptors of the program's place.                *)
LEMMA ExecLeaves ==
  ASSUME NEW W, NEW a, NEW b, Fitted(W, a, b)
  PROVE  /\ DOMAIN AfterExec(W) = 0 .. 2
         /\ AfterExec(W)[0].file = a /\ AfterExec(W)[1].file = b
<1>1. ~W[0].cloexec /\ ~W[1].cloexec /\ W[0].file = a /\ W[1].file = b
  BY DEF Fitted, Plug
<1>2. \A f \in DOMAIN W : ~W[f].cloexec <=> f \in {0, 1, 2}
  BY <1>1 DEF Fitted
<1>3. {g \in DOMAIN W : ~W[g].cloexec} = 0 .. 2
  <2>1. {0, 1, 2} \subseteq DOMAIN W
    BY DEF Fitted
  <2>2. 0 .. 2 = {0, 1, 2}
    OBVIOUS
  <2> QED BY <1>2, <2>1, <2>2
<1>4. AfterExec(W) = [f \in 0 .. 2 |-> W[f]]
  BY <1>3 DEF AfterExec
<1> QED BY <1>1, <1>4

(* A file opened after its descriptor was closed gets that descriptor.      *)
LEMMA Reopens ==
  ASSUME NEW W, NEW a, NEW b, Fitted(W, a, b), NEW x
  PROVE  /\ Fitted(Opened(Closed(W, 0), x), x, b)
         /\ Fitted(Opened(Closed(W, 1), x), a, x)
<1>1. ASSUME NEW d \in {0, 1}
      PROVE  Opened(Closed(W, d), x) = [f \in DOMAIN W |-> IF f = d THEN Plug(x) ELSE W[f]]
  <2>1. PICK C : C = Closed(W, d)
    OBVIOUS
  <2>2. C = [f \in DOMAIN W \ {d} |-> W[f]] /\ DOMAIN C = DOMAIN W \ {d}
    BY <2>1 DEF Closed
  <2>3. d \in FreeFds(C) /\ FreeFds(C) \in SUBSET Nat
    BY <2>2, ShellAssumption DEF FreeFds
  <2>4. \A y \in FreeFds(C) : d <= y
    <3>1. d = 1 => 0 \in DOMAIN C
      BY <2>2 DEF Fitted
    <3>2. ASSUME NEW y \in FreeFds(C) PROVE d <= y
      <4>1. y \in Nat /\ (d = 1 => y # 0)
        BY <2>3, <3>1 DEF FreeFds
      <4> QED BY <4>1
    <3> QED BY <3>2
  <2>5. Lowest(FreeFds(C)) = d
    BY <2>3, <2>4, LowestIs
  <2>6. DOMAIN C \cup {d} = DOMAIN W
    BY <2>2 DEF Fitted
  <2>7. Opened(C, x) = [f \in DOMAIN W |-> IF f = d THEN Plug(x) ELSE C[f]]
    BY <2>5, <2>6 DEF Opened, Put, Plug
  <2> QED BY <2>1, <2>2, <2>7
<1>2. Fitted([f \in DOMAIN W |-> IF f = 0 THEN Plug(x) ELSE W[f]], x, b)
  BY DEF Fitted
<1>3. Fitted([f \in DOMAIN W |-> IF f = 1 THEN Plug(x) ELSE W[f]], a, x)
  BY DEF Fitted
<1> QED BY <1>1, <1>2, <1>3
InOf(T, k) == IF k = 0 THEN Tty ELSE T[2 * k + 1].file
OutOf(T, k, n) == IF k = n THEN Tty ELSE T[2 * k + 4].file

(* After the dup2s of a child stdin and stdout are those of its place.      *)
LEMMA WiredIs ==
  ASSUME NEW n \in Nat, NEW T, Piping(T, n), NEW j, EndsOK(j.ends, n),
         Len(j.cmds) = n + 1, j.k \in 0 .. n
  PROVE  LET W == Wired(T, j)
         IN /\ {0, 1, 2} \subseteq DOMAIN W /\ DOMAIN W \subseteq 0 .. 2 * n + 2
            /\ W[0] = Plug(InOf(T, j.k)) /\ W[1] = Plug(OutOf(T, j.k, n)) /\ W[2] = Plug(Tty)
            /\ \A f \in DOMAIN W \ {0, 1, 2} : W[f] = T[f]
<1>1. PICK k : k = j.k
  OBVIOUS
<1>2. /\ DOMAIN T = 0 .. 2 * n + 2 /\ k \in 0 .. n
      /\ T[0] = Plug(Tty) /\ T[1] = Plug(Tty) /\ T[2] = Plug(Tty)
  BY <1>1 DEF Piping
<1>3. Pipes(j) = n
  BY DEF Pipes
<1>4. \A i \in 0 .. 2 * n - 1 : End(j, i) = i + 3
  <2>1. ASSUME NEW i \in 0 .. 2 * n - 1 PROVE End(j, i) = i + 3
    <3>1. i + 1 \in 1 .. 2 * n /\ (i + 1) + 2 = i + 3
      OBVIOUS
    <3> QED BY <3>1 DEF End, EndsOK
  <2> QED BY <2>1
<1>6. CASE n = 0
  <2>1. Wired(T, j) = T /\ k = 0 /\ k = n
    BY <1>2, <1>3, <1>6 DEF Wired
  <2>2. DOMAIN T = {0, 1, 2}
    BY <1>2, <1>6
  <2> QED BY <1>1, <1>2, <2>1, <2>2 DEF InOf, OutOf
<1>7. CASE n # 0 /\ k = 0
  <2>1. End(j, 1) = 4 /\ End(j, 0) = 3
    BY <1>4, <1>7
  <2>2. PICK c, d, e : c = 4 /\ d = 3 /\ e = 1
    OBVIOUS
  <2>3. PICK U, V, W : U = Dup2(T, c, e) /\ V = Closed(U, c) /\ W = Closed(V, d)
    OBVIOUS
  <2>4. Wired(T, j) = W
    BY <1>1, <1>3, <1>7, <2>1, <2>2, <2>3 DEF Wired
  <2>5. c \in DOMAIN T /\ c # e
    BY <1>2, <1>7, <2>2
  <2>6. /\ DOMAIN U = DOMAIN T \cup {e} /\ U[e] = Plug(T[c].file)
        /\ \A g \in DOMAIN T : g # e => U[g] = T[g]
    BY <2>3, <2>5 DEF Dup2, Put, Plug
  <2>7. DOMAIN V = DOMAIN U \ {c} /\ \A g \in DOMAIN U : g # c => V[g] = U[g]
    BY <2>3 DEF Closed
  <2>8. DOMAIN W = DOMAIN V \ {d} /\ \A g \in DOMAIN V : g # d => W[g] = V[g]
    BY <2>3 DEF Closed
  <2>9. OutOf(T, k, n) = T[c].file /\ InOf(T, k) = Tty
    BY <1>7, <2>2 DEF OutOf, InOf
  <2>10. {0, 1, 2} \subseteq DOMAIN W /\ DOMAIN W \subseteq DOMAIN T
    BY <1>2, <1>7, <2>2, <2>6, <2>7, <2>8
  <2>11. W[0] = T[0] /\ W[1] = Plug(T[c].file) /\ W[2] = T[2]
    BY <1>2, <1>7, <2>2, <2>6, <2>7, <2>8, <2>10
  <2>12. \A f \in DOMAIN W \ {0, 1, 2} : W[f] = T[f]
    BY <2>2, <2>6, <2>7, <2>8, <2>10
  <2> QED BY <1>1, <1>2, <2>4, <2>9, <2>10, <2>11, <2>12
<1>8. CASE n # 0 /\ k = n
  <2>1. End(j, 2 * k - 1) = 2 * k + 2 /\ End(j, 2 * k - 2) = 2 * k + 1
    BY <1>4, <1>8
  <2>2. PICK c, d, e : c = 2 * k + 2 /\ d = 2 * k + 1 /\ e = 0
    OBVIOUS
  <2>3. PICK U, V, W : U = Closed(T, c) /\ V = Dup2(U, d, e) /\ W = Closed(V, d)
    OBVIOUS
  <2>4. Wired(T, j) = W
    BY <1>1, <1>3, <1>8, <2>1, <2>2, <2>3 DEF Wired
  <2>5. /\ c \in DOMAIN T /\ d \in DOMAIN T /\ c # d /\ c \notin {0, 1, 2} /\ d \notin {0, 1, 2}
    BY <1>2, <1>8, <2>2
  <2>6. DOMAIN U = DOMAIN T \ {c} /\ \A g \in DOMAIN T : g # c => U[g] = T[g]
    BY <2>3 DEF Closed
  <2>7. d \in DOMAIN U /\ d # e
    BY <2>2, <2>5, <2>6
  <2>8. /\ DOMAIN V = DOMAIN U \cup {e} /\ V[e] = Plug(U[d].file)
        /\ \A g \in DOMAIN U : g # e => V[g] = U[g]
    BY <2>3, <2>7 DEF Dup2, Put, Plug
  <2>9. DOMAIN W = DOMAIN V \ {d} /\ \A g \in DOMAIN V : g # d => W[g] = V[g]
    BY <2>3 DEF Closed
  <2>10. InOf(T, k) = T[d].file /\ OutOf(T, k, n) = Tty
    BY <1>8, <2>2 DEF InOf, OutOf
  <2>11. {0, 1, 2} \subseteq DOMAIN W /\ DOMAIN W \subseteq DOMAIN T
    BY <1>2, <2>2, <2>5, <2>6, <2>8, <2>9
  <2>12. W[0] = Plug(T[d].file) /\ W[1] = T[1] /\ W[2] = T[2]
    BY <1>2, <2>2, <2>5, <2>6, <2>8, <2>9, <2>11
  <2>13. \A f \in DOMAIN W \ {0, 1, 2} : W[f] = T[f]
    BY <2>2, <2>6, <2>8, <2>9, <2>11
  <2> QED BY <1>1, <1>2, <2>4, <2>10, <2>11, <2>12, <2>13
<1>9. CASE n # 0 /\ k # 0 /\ k # n
  <2>1. End(j, 2 * k - 2) = 2 * k + 1 /\ End(j, 2 * k + 1) = 2 * k + 4
    BY <1>2, <1>4, <1>9
  <2>2. PICK c, d, e, g : c = 2 * k + 1 /\ d = 2 * k + 4 /\ e = 0 /\ g = 1
    OBVIOUS
  <2>3. PICK U, W : U = Dup2(T, c, e) /\ W = Dup2(U, d, g)
    OBVIOUS
  <2>4. Wired(T, j) = W
    BY <1>1, <1>2, <1>3, <1>9, <2>1, <2>2, <2>3 DEF Wired
  <2>5. c \in DOMAIN T /\ d \in DOMAIN T /\ c \notin {0, 1, 2} /\ d \notin {0, 1, 2}
    BY <1>2, <1>9, <2>2
  <2>6. c # e /\ d # g
    BY <2>2, <2>5
  <2>7. /\ DOMAIN U = DOMAIN T \cup {e} /\ U[e] = Plug(T[c].file)
        /\ \A f \in DOMAIN T : f # e => U[f] = T[f]
    BY <2>3, <2>5, <2>6 DEF Dup2, Put, Plug
  <2>8. d \in DOMAIN U /\ U[d] = T[d]
    BY <2>2, <2>5, <2>7
  <2>9. /\ DOMAIN W = DOMAIN U \cup {g} /\ W[g] = Plug(U[d].file)
        /\ \A f \in DOMAIN U : f # g => W[f] = U[f]
    BY <2>3, <2>6, <2>8 DEF Dup2, Put, Plug
  <2>10. InOf(T, k) = T[c].file /\ OutOf(T, k, n) = T[d].file
    BY <1>9, <2>2 DEF InOf, OutOf
  <2>11. DOMAIN W = DOMAIN T
    BY <1>2, <2>2, <2>7, <2>9
  <2>12. W[0] = Plug(T[c].file) /\ W[1] = Plug(T[d].file) /\ W[2] = T[2]
    <3>1. 0 \in DOMAIN T /\ 2 \in DOMAIN T /\ 0 # g /\ 2 # g /\ 2 # e
      BY <1>2, <2>2
    <3>2. W[0] = U[0] /\ W[2] = U[2] /\ U[2] = T[2]
      BY <2>7, <2>9, <3>1
    <3> QED BY <2>2, <2>7, <2>8, <2>9, <3>2
  <2>13. \A f \in DOMAIN W \ {0, 1, 2} : W[f] = T[f]
    BY <2>2, <2>7, <2>9, <2>11
  <2> QED BY <1>1, <1>2, <2>4, <2>10, <2>11, <2>12, <2>13
<1> QED BY <1>6, <1>7, <1>8, <1>9

(* The same with every end of a pipe marked to be closed by exec.           *)
LEMMA SetupFits ==
  ASSUME NEW n \in Nat, NEW T, Piping(T, n), NEW j, EndsOK(j.ends, n),
         Len(j.cmds) = n + 1, j.k \in 0 .. n
  PROVE  Fitted(Setup(T, j), InOf(T, j.k), OutOf(T, j.k, n))
<1>1. PICK W, e : W = Wired(T, j) /\ e = j.ends
  OBVIOUS
<1>2. /\ {0, 1, 2} \subseteq DOMAIN W /\ DOMAIN W \subseteq 0 .. 2 * n + 2
      /\ W[0] = Plug(InOf(T, j.k)) /\ W[1] = Plug(OutOf(T, j.k, n)) /\ W[2] = Plug(Tty)
      /\ \A f \in DOMAIN W \ {0, 1, 2} : W[f] = T[f]
  BY <1>1, WiredIs
<1>3. Len(e) = 2 * n /\ \A i \in 1 .. 2 * n : e[i] = i + 2
  BY <1>1 DEF EndsOK
<1>4. Setup(T, j) = [f \in DOMAIN W |-> IF \E i \in 1 .. Len(e) : e[i] = f
                                         THEN [W[f] EXCEPT !.cloexec = TRUE] ELSE W[f]]
  BY <1>1 DEF Setup, CloseOnExec
<1>5. ASSUME NEW f \in {0, 1, 2} PROVE ~\E i \in 1 .. Len(e) : e[i] = f
  <2>1. \A i \in 1 .. 2 * n : i + 2 # f
    OBVIOUS
  <2> QED BY <1>3, <2>1
<1>6. ASSUME NEW f \in DOMAIN W \ {0, 1, 2}
      PROVE  (\E i \in 1 .. Len(e) : e[i] = f) /\ [W[f] EXCEPT !.cloexec = TRUE].cloexec
  <2>1. f \in 3 .. 2 * n + 2
    BY <1>2
  <2>2. f - 2 \in 1 .. 2 * n /\ (f - 2) + 2 = f
    BY <2>1
  <2>3. e[f - 2] = f
    BY <1>3, <2>2
  <2>4. PICK file : W[f] = Plug(file)
    BY <1>2, <2>1 DEF Piping
  <2>5. [W[f] EXCEPT !.cloexec = TRUE].cloexec
    BY <2>4 DEF Plug
  <2> QED BY <1>3, <2>2, <2>3, <2>5
<1>7. \A f \in {0, 1, 2} : Setup(T, j)[f] = W[f]
  BY <1>2, <1>4, <1>5
<1>8. \A f \in DOMAIN W \ {0, 1, 2} : Setup(T, j)[f].cloexec
  BY <1>4, <1>6
<1>9. DOMAIN Setup(T, j) = DOMAIN W /\ ~W[2].cloexec /\ DOMAIN W \subseteq Nat
  BY <1>2, <1>4 DEF Plug
<1> QED BY <1>2, <1>7, <1>8, <1>9 DEF Fitted

(* What a command's redirections make of its descriptors.                   *)
WithFile(f, file) == IF f = NoFile THEN file ELSE <<"file", f>>
InRedirected(W, cmd) ==
  IF cmd.in = NoFile THEN W ELSE Opened(Closed(W, 0), <<"file", cmd.in>>)
Redirected(W, cmd) ==
  IF cmd.out = NoFile THEN InRedirected(W, cmd)
  ELSE Opened(Closed(InRedirected(W, cmd), 1), <<"file", cmd.out>>)

Prepared(t, cmd, a, b) ==
  DOMAIN t = 0 .. 2 /\ t[0].file = WithFile(cmd.in, a) /\ t[1].file = WithFile(cmd.out, b)

(* A program starts with its files, or those of its place.                  *)
LEMMA RedirectedFits ==
  ASSUME NEW W, NEW a, NEW b, Fitted(W, a, b), NEW cmd
  PROVE  Prepared(AfterExec(Redirected(W, cmd)), cmd, a, b)
<1>1. PICK V : V = InRedirected(W, cmd)
  OBVIOUS
<1>2. Fitted(V, WithFile(cmd.in, a), b)
  <2>1. CASE cmd.in = NoFile
    BY <1>1, <2>1 DEF InRedirected, WithFile
  <2>2. CASE cmd.in # NoFile
    <3>1. PICK x : x = <<"file", cmd.in>>
      OBVIOUS
    <3>2. V = Opened(Closed(W, 0), x)
      BY <1>1, <2>2, <3>1 DEF InRedirected
    <3>3. Fitted(V, x, b)
      BY <3>2, Reopens
    <3> QED BY <2>2, <3>1, <3>3 DEF WithFile
  <2> QED BY <2>1, <2>2
<1>3. PICK c : c = WithFile(cmd.in, a)
  OBVIOUS
<1>4. PICK X : X = Redirected(W, cmd)
  OBVIOUS
<1>5. Fitted(V, c, b)
  BY <1>2, <1>3
<1>6. Fitted(X, c, WithFile(cmd.out, b))
  <2>1. CASE cmd.out = NoFile
    BY <1>1, <1>4, <1>5, <2>1 DEF Redirected, WithFile
  <2>2. CASE cmd.out # NoFile
    <3>1. PICK x : x = <<"file", cmd.out>>
      OBVIOUS
    <3>2. X = Opened(Closed(V, 1), x)
      BY <1>1, <1>4, <2>2, <3>1 DEF Redirected
    <3>3. Fitted(X, c, x)
      BY <1>5, <3>2, Reopens
    <3> QED BY <2>2, <3>1, <3>3 DEF WithFile
  <2> QED BY <2>1, <2>2
<1> QED BY <1>3, <1>4, <1>6, ExecLeaves DEF Prepared

-----------------------------------------------------------------------------
(* The inductive invariant. Jobs are records, of whatever words.            *)
Fields == {"words", "cmds", "k", "ends", "status", "mute"}
IsJob(j) == DOMAIN j = Fields /\ j = [f \in Fields |-> j[f]]

ShellTypes ==
  /\ at = [p \in Procs |-> at[p]] /\ at[1] \in {"prompt", "loop", "wait", "exit", "zombie"}
  /\ parent \in [Procs -> Procs \cup {0}] /\ parent[1] = 0
  /\ fd = [p \in Procs |-> fd[p]] /\ code = [p \in Procs |-> code[p]]
  /\ job = [p \in Procs |-> job[p]] /\ \A p \in Procs : IsJob(job[p])
  /\ \A p \in Procs : at[p] = "unused" => parent[p] = 0

(* A line's commands, with the ends of the pipes between them.              *)
OfLine(j) ==
  /\ \E line \in Lines : j.words = Words(line)
  /\ j.cmds = Commands(j.words) /\ j.cmds # <<>>
  /\ EndsOK(j.ends, Pipes(j)) /\ j.k \in Nat

(* A child of the shell in the pipeline T, before and after exec.           *)
Member(T, q) ==
  LET j == job[q]
      l == job[1]
  IN /\ j.words = l.words /\ j.cmds = l.cmds /\ j.ends = l.ends
     /\ j.k \in 0 .. Pipes(l) /\ Cmd(j).argv # <<>>
     /\ at[q] = "child" => fd[q] = T
     /\ at[q] = "program" =>
          Prepared(fd[q], Cmd(j), InOf(T, j.k), OutOf(T, j.k, Pipes(l)))

Family(T) ==
  /\ Piping(T, Pipes(job[1]))
  /\ at[1] = "loop" => fd[1] = T
  /\ \A q \in Children(1) : at[q] \in {"child", "program"} => Member(T, q)

(* How many children the shell may still have.                              *)
Counted ==
  LET n == Cardinality(Children(1))
      k == job[1].k
      all == Len(job[1].cmds)
  IN /\ at[1] = "loop" => k <= all /\ n <= k
     /\ at[1] = "wait" => k < all /\ n <= all - k

AtWork == at[1] \in {"loop", "wait"}
ShellLine ==
  /\ ~AtWork => Children(1) = {}
  /\ at[1] \in {"prompt", "wait"} => fd[1] = Ready
  /\ AtWork => OfLine(job[1]) /\ Counted /\ \E T : Family(T)

(* The children the shell has waited for, and what it has said of them.     *)
Settled == DOMAIN outcome \ Children(1)
Times(s) == Cardinality({i \in DOMAIN printed : printed[i][2] = s})
Ended(s) == Cardinality({p \in Settled : outcome[p] = s})
Told(s) ==
  (\E p \in Settled : outcome[p] = s) \/ (Children(1) = {} /\ DOMAIN outcome = {})

Outcomes ==
  /\ DOMAIN outcome \subseteq Procs /\ outcome = [p \in DOMAIN outcome |-> outcome[p]]
  /\ \A p \in DOMAIN outcome : outcome[p] \in Codes \cup {0}
  /\ outcome = <<>> \/ DOMAIN outcome # {}
  /\ \A q \in Children(1) : /\ q \in DOMAIN outcome <=> at[q] = "zombie"
                            /\ at[q] = "zombie" => outcome[q] = code[q]

Said ==
  /\ printed \in Seq(Nat \X (Codes \cup {0})) /\ job[1].mute \in BOOLEAN
  /\ job[1].status \in Codes \cup {0, Unset}
  /\ AtWork /\ job[1].status = Unset => Settled = {} /\ printed = <<>>
  /\ at[1] = "loop" => job[1].status = Unset
  /\ at[1] \in {"wait", "prompt"} =>
       /\ ~job[1].mute => \A s \in Codes \ {Signalled} : Times(s) >= Ended(s)
       /\ \A i \in DOMAIN printed : Told(printed[i][2])
  /\ at[1] = "wait" /\ job[1].status # Unset => Told(job[1].status)

ShellInv == ShellTypes /\ ShellLine /\ Outcomes /\ Said

-----------------------------------------------------------------------------
(* The invariant says what ShellSound says.                                 *)
LEMMA FilesAre ==
  ASSUME NEW words \in Seq(FullWords), WellFormed(words),
         NEW k \in 0 .. Cardinality(Bars(words)), NEW op \in {In, Out}, NEW file,
         Sided(words, k, Len(words), op, file)
  PROVE  Files(words, k, op) = IF file = NoFile THEN {} ELSE {file}
<1>1. \A i \in Segment(words, k) : i \in DOMAIN words /\ i \in Int /\ i <= Len(words)
  BY SegmentIs
<1>2. CASE \A i \in Segment(words, k) : words[i] # op
  BY <1>1, <1>2 DEF Files, Sided
<1>3. ASSUME NEW i \in Segment(words, k), words[i] = op
      PROVE  Files(words, k, op) = {file} /\ file # NoFile
  <2>1. \A m \in Segment(words, k) : words[m] = op => file = words[m + 1]
    BY <1>1 DEF Sided
  <2>2. i + 1 \in DOMAIN words
    BY <1>1, <1>3, MarkIs
  <2>3. file \in FullWords
    BY <1>3, <2>1, <2>2
  <2> QED BY <1>3, <2>1, <2>2, <2>3, MarksDiffer DEF Files
<1> QED BY <1>2, <1>3

(* A line's words are a sequence of words, with room for its pipes.         *)
LEMMA LineIs ==
  ASSUME NEW j, OfLine(j)
  PROVE  /\ j.words \in Seq(FullWords) /\ j.cmds \in Seq(Cmds)
         /\ Pipes(j) \in Nat /\ Len(j.cmds) = Pipes(j) + 1
<1>1. PICK line \in Lines : j.words = Words(line)
  BY DEF OfLine
<1>2. j.words \in Seq(FullWords)
  BY <1>1, WordsAre, ShellAssumption DEF Text
<1>3. j.cmds \in Seq(Cmds) /\ j.cmds # <<>>
  BY <1>2, CommandsAre DEF OfLine
<1>4. Len(j.cmds) \in Nat \ {0}
  BY <1>3
<1> QED BY <1>2, <1>3, <1>4 DEF Pipes

(* The family gives the wiring.                                             *)
LEMMA WiringFollows == ShellInv => ShellWiring
<1> SUFFICES ASSUME ShellInv, NEW p \in {q \in Procs : Runs(q)}, WellFormed(job[p].words)
             PROVE
    LET words == job[p].words
        k == job[p].k
        in == Files(words, k, In)
        out == Files(words, k, Out)
        file(f) == fd[p][f].file
    IN   /\ Cmd(job[p]).argv[1] = words[Lowest(Plain(words, k))]
         /\ DOMAIN fd[p] = 0 .. 2
         /\ CASE in # {} -> {file(0)} = {<<"file", w>> : w \in in}
              [] in = {} /\ k = 0 -> file(0) = Tty
              [] OTHER -> file(0)[1] = "read"
         /\ CASE out # {} -> {file(1)} = {<<"file", w>> : w \in out}
              [] out = {} /\ k = Cardinality(Bars(words)) -> file(1) = Tty
              [] OTHER -> file(1)[1] = "write"
         /\ \A q \in Procs : Runs(q) /\ job[q].k = k + 1 =>
              (file(1)[1] = "write" /\ fd[q][0].file[1] = "read"
                 => file(1)[2] = fd[q][0].file[2])
  BY DEF ShellWiring
<1>1. p \in Children(1) /\ AtWork /\ OfLine(job[1])
  BY DEF ShellInv, ShellLine, Runs, Children
<1>2. PICK T : Family(T)
  BY <1>1 DEF ShellInv, ShellLine
<1>3. Member(T, p) /\ at[p] = "program"
  BY <1>1, <1>2 DEF Family, Runs
<1>4. PICK n, words, k, cmds, cmd : n = Pipes(job[1]) /\ words = job[p].words /\ k = job[p].k
                            /\ cmds = job[p].cmds /\ cmd = Cmd(job[p])
  OBVIOUS
<1>5. /\ words \in Seq(FullWords) /\ n \in Nat /\ k \in 0 .. n
      /\ cmds = Commands(words) /\ Len(cmds) = n + 1 /\ cmd = cmds[k + 1] /\ cmd.argv # <<>>
      /\ WellFormed(words)
  BY <1>1, <1>3, <1>4, LineIs DEF Member, OfLine, Cmd
<1>6. n = Cardinality(Bars(words)) /\ Matches(words, k, Len(words), cmd)
  <2>1. Cardinality(Bars(words)) \in Nat
    BY <1>5, BarsBefore
  <2>2. Len(Commands(words)) = Cardinality(Bars(words)) + 1
    BY <1>5, CommandsMatch
  <2>3. n = Cardinality(Bars(words))
    BY <1>5, <2>1, <2>2
  <2>4. \A i \in 0 .. Cardinality(Bars(words)) : Matches(words, i, Len(words), Commands(words)[i + 1])
    BY <1>5, CommandsMatch
  <2> QED BY <1>5, <2>3, <2>4
<1>7. /\ DOMAIN fd[p] = 0 .. 2
      /\ fd[p][0].file = WithFile(cmd.in, InOf(T, k))
      /\ fd[p][1].file = WithFile(cmd.out, OutOf(T, k, n))
  BY <1>3, <1>4 DEF Member, Prepared
<1>8. cmd.argv[1] = words[Lowest(Plain(words, k))]
  <2>1. PICK i \in Plain(words, k) : /\ cmd.argv[1] = words[i]
                                     /\ \A m \in Plain(words, k) : i <= m
    BY <1>5, <1>6 DEF Matches, Started
  <2>2. Plain(words, k) \in SUBSET Nat
    BY <1>5, SegmentIs DEF Plain
  <2>3. Lowest(Plain(words, k)) = i
    BY <2>1, <2>2, LowestIs
  <2> QED BY <2>1, <2>3
<1>9. \A i \in 0 .. n - 1 : \E id : T[2 * i + 3].file = <<"read", id>> /\ T[2 * i + 4].file = <<"write", id>>
  <2>1. ASSUME NEW i \in 0 .. n - 1
        PROVE  \E id : T[2 * i + 3].file = <<"read", id>> /\ T[2 * i + 4].file = <<"write", id>>
    <3>1. PipeAt(T, i)
      BY <1>2, <1>4 DEF Family, Piping
    <3>2. PICK id : T[2 * i + 3] = Plug(<<"read", id>>) /\ T[2 * i + 4] = Plug(<<"write", id>>)
      BY <3>1 DEF PipeAt
    <3> QED BY <3>2 DEF Plug
  <2> QED BY <2>1
<1>10. PICK in, out, a, b : /\ in = Files(words, k, In) /\ out = Files(words, k, Out)
                            /\ a = fd[p][0].file /\ b = fd[p][1].file
  OBVIOUS
<1>11. /\ in = IF cmd.in = NoFile THEN {} ELSE {cmd.in}
       /\ out = IF cmd.out = NoFile THEN {} ELSE {cmd.out}
  BY <1>5, <1>6, <1>10, FilesAre DEF Matches
<1>12. /\ in # {} => {a} = {<<"file", w>> : w \in in}
       /\ in = {} /\ k = 0 => a = Tty
       /\ in = {} /\ k # 0 => a[1] = "read"
  <2>1. in # {} => a = <<"file", cmd.in>> /\ in = {cmd.in}
    BY <1>7, <1>10, <1>11 DEF WithFile
  <2>2. in = {} => a = InOf(T, k)
    BY <1>7, <1>10, <1>11 DEF WithFile
  <2>3. ASSUME k # 0 PROVE InOf(T, k)[1] = "read"
    <3>1. k - 1 \in 0 .. n - 1 /\ 2 * (k - 1) + 3 = 2 * k + 1
      BY <1>5, <2>3
    <3>2. PICK id : T[2 * k + 1].file = <<"read", id>>
      BY <1>9, <3>1
    <3> QED BY <2>3, <3>2 DEF InOf
  <2>4. k = 0 => InOf(T, k) = Tty
    BY DEF InOf
  <2> QED BY <2>1, <2>2, <2>3, <2>4
<1>13. /\ out # {} => {b} = {<<"file", w>> : w \in out}
       /\ out = {} /\ k = n => b = Tty
       /\ out = {} /\ k # n => b[1] = "write"
  <2>1. out # {} => b = <<"file", cmd.out>> /\ out = {cmd.out}
    BY <1>7, <1>10, <1>11 DEF WithFile
  <2>2. out = {} => b = OutOf(T, k, n)
    BY <1>7, <1>10, <1>11 DEF WithFile
  <2>3. ASSUME k # n PROVE OutOf(T, k, n)[1] = "write"
    <3>1. k \in 0 .. n - 1
      BY <1>5, <2>3
    <3>2. PICK id : T[2 * k + 4].file = <<"write", id>>
      BY <1>9, <3>1
    <3> QED BY <2>3, <3>2 DEF OutOf
  <2>4. k = n => OutOf(T, k, n) = Tty
    BY DEF OutOf
  <2> QED BY <2>1, <2>2, <2>3, <2>4
<1>14. ASSUME NEW q \in Procs, Runs(q), job[q].k = k + 1,
              b[1] = "write", fd[q][0].file[1] = "read"
       PROVE  b[2] = fd[q][0].file[2]
  <2>1. Member(T, q) /\ at[q] = "program"
    BY <1>2, <1>14 DEF Family, Runs, Children
  <2>2. PICK m, cq : m = job[q].k /\ cq = Cmd(job[q])
    OBVIOUS
  <2>3. m = k + 1 /\ m \in 0 .. n /\ fd[q][0].file = WithFile(cq.in, InOf(T, m))
    BY <1>4, <1>14, <2>1, <2>2 DEF Member, Prepared
  <2>4. k \in 0 .. n - 1 /\ k # n /\ m # 0 /\ 2 * m + 1 = 2 * k + 3
    <3>1. k \in Nat /\ n \in Nat /\ k + 1 <= n
      BY <1>5, <2>3
    <3> QED BY <2>3, <3>1
  <2>5. PICK id : T[2 * k + 3].file = <<"read", id>> /\ T[2 * k + 4].file = <<"write", id>>
    BY <1>9, <2>4
  <2>6. b = <<"write", id>>
    <3>1. b = WithFile(cmd.out, OutOf(T, k, n))
      BY <1>7, <1>10
    <3>2. WithFile(cmd.out, OutOf(T, k, n)) = IF cmd.out = NoFile THEN OutOf(T, k, n) ELSE <<"file", cmd.out>>
      BY DEF WithFile
    <3>3. b = OutOf(T, k, n)
      BY <1>14, <3>1, <3>2
    <3> QED BY <2>4, <2>5, <3>3 DEF OutOf
  <2>7. fd[q][0].file = <<"read", id>>
    <3>1. fd[q][0].file = InOf(T, m)
      BY <1>14, <2>3 DEF WithFile
    <3>2. InOf(T, m) = T[2 * k + 3].file
      BY <2>4 DEF InOf
    <3> QED BY <2>5, <3>1, <3>2
  <2> QED BY <2>6, <2>7
<1>15. Cmd(job[p]).argv[1] = words[Lowest(Plain(words, k))]
  BY <1>4, <1>8
<1>16. (CASE in # {} -> {a} = {<<"file", w>> : w \in in}
          [] in = {} /\ k = 0 -> a = Tty
          [] OTHER -> a[1] = "read")
  BY <1>12
<1>17. (CASE out # {} -> {b} = {<<"file", w>> : w \in out}
          [] out = {} /\ k = Cardinality(Bars(words)) -> b = Tty
          [] OTHER -> b[1] = "write")
  BY <1>6, <1>13
<1> QED BY <1>4, <1>7, <1>10, <1>14, <1>15, <1>16, <1>17

(* The invariant implies what the runs check.                               *)
LEMMA SoundFollows == ShellInv => ShellSound
<1> SUFFICES ASSUME ShellInv PROVE ShellSound
  OBVIOUS
<1>1. ShellPromptsClean
  BY DEF ShellInv, ShellLine, ShellPromptsClean, Ready, AtWork
<1>2. ASSUME at[1] = "prompt", ~job[1].mute
      PROVE  /\ \A c \in Codes \ {Signalled} : Times(c) >= Cardinality({p \in DOMAIN outcome : outcome[p] = c})
             /\ outcome # <<>> =>
                  \A i \in DOMAIN printed : \E p \in DOMAIN outcome : outcome[p] = printed[i][2]
  <2>1. Children(1) = {}
    BY <1>2 DEF ShellInv, ShellLine, AtWork
  <2>2. Settled = DOMAIN outcome
    BY <2>1 DEF Settled
  <2>3. \A s \in Codes \ {Signalled} : Times(s) >= Ended(s)
    BY <1>2 DEF ShellInv, Said
  <2>4. \A i \in DOMAIN printed : Told(printed[i][2])
    BY <1>2 DEF ShellInv, Said
  <2>5. outcome = <<>> \/ DOMAIN outcome # {}
    BY DEF ShellInv, Outcomes
  <2> QED BY <2>2, <2>3, <2>4, <2>5 DEF Ended, Told
<1>3. ShellStatusesKept
  BY <1>2 DEF ShellStatusesKept, Times
<1> QED BY <1>1, <1>3, WiringFollows DEF ShellSound, ShellPrompts

-----------------------------------------------------------------------------
(* A step of another process leaves the shell, its other children and what  *)
(* it has printed alone.                                                    *)
Apart(p) ==
  /\ at'[1] = at[1] /\ fd'[1] = fd[1] /\ job'[1] = job[1] /\ printed' = printed
  /\ \A q \in Procs : parent'[q] = 1 <=> parent[q] = 1
  /\ \A q \in Procs \ {p} : parent[q] = 1 =>
       at'[q] = at[q] /\ fd'[q] = fd[q] /\ job'[q] = job[q] /\ code'[q] = code[q]

(* A step that leaves the shell alone keeps the line's part.                *)
LEMMA LineKept ==
  ASSUME ShellLine, NEW p \in Procs, p # 1, Apart(p),
         parent[p] = 1 /\ at'[p] \in {"child", "program"} => \A T : Family(T) => Member(T, p)'
  PROVE  ShellLine'
<1>1. Children(1)' = Children(1) /\ (AtWork' <=> AtWork) /\ job'[1] = job[1] /\ fd'[1] = fd[1]
      /\ at'[1] = at[1]
  BY DEF Apart, Children, AtWork
<1>2. Counted' <=> Counted
  BY <1>1 DEF Counted
<1>3. OfLine(job[1])' <=> OfLine(job[1])
  BY <1>1 DEF OfLine, Pipes
<1>4. ASSUME NEW T, Family(T) PROVE Family(T)'
  <2>1. Piping(T, Pipes(job[1]))' /\ (at[1] = "loop" => fd[1] = T)'
    BY <1>1, <1>4 DEF Family, Piping, PipeAt, Pipes
  <2>2. ASSUME NEW q \in Children(1), at'[q] \in {"child", "program"} PROVE Member(T, q)'
    <3>1. CASE q = p
      BY <1>4, <2>2, <3>1 DEF Children
    <3>2. CASE q # p
      <4>1. at'[q] = at[q] /\ fd'[q] = fd[q] /\ job'[q] = job[q]
        BY <3>2 DEF Apart, Children
      <4>2. Member(T, q)
        BY <1>4, <2>2, <4>1 DEF Family
      <4> QED BY <1>1, <4>1, <4>2 DEF Member, Pipes, Cmd
    <3> QED BY <3>1, <3>2
  <2> QED BY <1>1, <2>1, <2>2 DEF Family
<1> QED BY <1>1, <1>2, <1>3, <1>4 DEF ShellLine

(* The same for the outcomes.                                               *)
LEMMA OutcomesKept ==
  ASSUME Outcomes, NEW p \in Procs, p # 1, Apart(p), outcome' = outcome,
         parent[p] = 1 => at[p] # "zombie" /\ at'[p] # "zombie"
  PROVE  Outcomes'
BY DEF Outcomes, Apart, Children

(* The same for the statuses.                                               *)
LEMMA SaidKept ==
  ASSUME Said, NEW p \in Procs, p # 1, Apart(p), Settled' = Settled,
         \A q \in Settled : outcome'[q] = outcome[q],
         Children(1) = {} => DOMAIN outcome' = DOMAIN outcome
  PROVE  Said'
<1>1. Children(1)' = Children(1) /\ (AtWork' <=> AtWork) /\ job'[1] = job[1] /\ printed' = printed
      /\ at'[1] = at[1]
  BY DEF Apart, Children, AtWork
<1>2. \A s : Told(s) => Told(s)'
  BY <1>1 DEF Told
<1>3. \A s : Times(s)' = Times(s)
  BY <1>1 DEF Times
<1>4. ASSUME NEW s PROVE Ended(s)' = Ended(s)
  <2>1. {q \in Settled : outcome'[q] = s} = {q \in Settled : outcome[q] = s}
    OBVIOUS
  <2> QED BY <2>1 DEF Ended
<1> QED BY <1>1, <1>2, <1>3, <1>4 DEF Said

(* A change of one process's job leaves records.                            *)
LEMMA JobsAre ==
  /\ \A w, c, e, m : IsJob([NoJob EXCEPT !.words = w, !.cmds = c, !.ends = e, !.mute = m])
  /\ \A m : IsJob([NoJob EXCEPT !.mute = m])
  /\ IsJob(NoJob)
  /\ \A j, k : IsJob(j) => IsJob([j EXCEPT !.k = k])
  /\ \A j, k, m, s : IsJob(j) => IsJob([j EXCEPT !.k = k, !.mute = m, !.status = s])
<1>1. IsJob(NoJob)
  BY DEF IsJob, NoJob, Fields
<1>2. ASSUME NEW w, NEW c, NEW e, NEW m
      PROVE  IsJob([NoJob EXCEPT !.words = w, !.cmds = c, !.ends = e, !.mute = m])
  BY <1>1 DEF IsJob
<1>3. ASSUME NEW j, NEW k, NEW m, NEW s, IsJob(j)
      PROVE  IsJob([j EXCEPT !.k = k]) /\ IsJob([j EXCEPT !.k = k, !.mute = m, !.status = s])
  BY <1>3 DEF IsJob
<1>4. ASSUME NEW m PROVE IsJob([NoJob EXCEPT !.mute = m])
  BY <1>1 DEF IsJob
<1> QED BY <1>1, <1>2, <1>3, <1>4

(* The invariant holds before the first line.                               *)
LEMMA InvStarts == ShellInit => ShellInv
<1> SUFFICES ASSUME ShellInit PROVE ShellInv
  OBVIOUS
<1>1. 1 \in Procs /\ \A q \in Procs : parent[q] = 0
  BY ShellAssumption DEF ShellInit
<1>2. Children(1) = {} /\ at[1] = "prompt" /\ ~AtWork
  BY <1>1 DEF ShellInit, Children, AtWork
<1>3. ShellTypes
  <2>1. job = [p \in Procs |-> NoJob] /\ IsJob(NoJob)
    BY JobsAre DEF ShellInit
  <2>2. \A p \in Procs : IsJob(job[p])
    BY <2>1
  <2>3. at = [p \in Procs |-> at[p]] /\ at[1] = "prompt"
    BY <1>1 DEF ShellInit
  <2>4. parent \in [Procs -> Procs \cup {0}]
    BY DEF ShellInit
  <2>5. fd = [p \in Procs |-> fd[p]]
    BY DEF ShellInit
  <2>6. code = [p \in Procs |-> code[p]] /\ job = [p \in Procs |-> job[p]]
    BY <2>1 DEF ShellInit
  <2> QED BY <1>1, <2>2, <2>3, <2>4, <2>5, <2>6 DEF ShellTypes
<1>4. ShellLine
  <2>1. fd[1] = Ready
    BY <1>1 DEF ShellInit, Ready, Plug
  <2> QED BY <1>2, <2>1 DEF ShellLine, AtWork
<1>5. Outcomes
  BY <1>2 DEF ShellInit, Outcomes
<1>6. Said
  <2>1. Settled = {} /\ printed = <<>> /\ outcome = <<>>
    BY DEF Settled, ShellInit
  <2>2. ASSUME NEW s PROVE Times(s) >= Ended(s)
    <3>1. {i \in DOMAIN printed : printed[i][2] = s} = {} /\ {q \in Settled : outcome[q] = s} = {}
      BY <2>1
    <3> QED BY <3>1, FS_EmptySet DEF Times, Ended
  <2>3. job[1].mute \in BOOLEAN /\ job[1].status \in Codes \cup {0, Unset}
    BY <1>1 DEF ShellInit, NoJob
  <2> QED BY <1>2, <2>1, <2>2, <2>3 DEF Said, AtWork
<1> QED BY <1>3, <1>4, <1>5, <1>6 DEF ShellInv

-----------------------------------------------------------------------------
(* Types, step by step.                                                     *)
LEMMA SpareIs ==
  ASSUME ShellTypes, Spare # {}
  PROVE  /\ Lowest(Spare) \in Procs /\ at[Lowest(Spare)] = "unused"
         /\ Lowest(Spare) # 1 /\ parent[Lowest(Spare)] = 0
<1>1. Spare \in SUBSET Nat
  BY ShellAssumption DEF Spare
<1>2. Lowest(Spare) \in Spare
  BY <1>1, LowestIs
<1> QED BY <1>2 DEF Spare, ShellTypes

(* A process that ends keeps the types.                                     *)
LEMMA DiesTypes ==
  ASSUME ShellTypes, NEW p \in Procs, NEW how, Dies(p, how)
  PROVE  ShellTypes'
<1>1. 1 \in Procs /\ p # 0 /\ parent[1] = 0
  BY ShellAssumption DEF ShellTypes
<1>2. parent' = [q \in Procs |-> IF q = p \/ parent[q] # p THEN parent[q] ELSE 0]
  BY DEF Dies, Orphaned
<1>3. parent' \in [Procs -> Procs \cup {0}] /\ parent'[1] = 0
  BY <1>1, <1>2 DEF ShellTypes
<1>4. PICK end : /\ end = (IF p # 1 /\ parent[p] = 0 THEN "unused" ELSE "zombie")
                 /\ at' = [q \in Procs |->
                             CASE q = p -> end
                               [] q # p /\ ~(parent[q] = p /\ at[q] = "zombie") -> at[q]
                               [] OTHER -> "unused"]
  BY DEF Dies
<1>5. at' = [q \in Procs |-> at'[q]]
  BY <1>4 DEF ShellTypes
<1>6. at'[1] = (IF p = 1 THEN "zombie" ELSE at[1])
  BY <1>1, <1>4
<1>7. \A q \in Procs : at'[q] = "unused" => parent'[q] = 0
  BY <1>1, <1>2, <1>4 DEF ShellTypes
<1>8. /\ fd' = [q \in Procs |-> fd'[q]] /\ code' = [q \in Procs |-> code'[q]]
      /\ job' = [q \in Procs |-> IF q = p THEN NoJob ELSE job[q]]
  BY DEF Dies, ShellTypes
<1>9. job' = [q \in Procs |-> job'[q]] /\ \A q \in Procs : IsJob(job'[q])
  BY <1>8, JobsAre DEF ShellTypes
<1> QED BY <1>3, <1>5, <1>6, <1>7, <1>8, <1>9 DEF ShellTypes

(* So does one that takes a status.                                         *)
LEMMA ReportsTypes ==
  ASSUME ShellTypes, NEW p \in Procs, NEW s, Reports(p, s)
  PROVE  job' = [q \in Procs |-> job'[q]] /\ \A q \in Procs : IsJob(job'[q])
<1>1. PICK m, k : m = (job[p].mute \/ (Exited(p, s) /\ Cmd(job[p]).argv = <<>>)) /\ k = job[p].k + 1
  OBVIOUS
<1>2. PICK j : j = IF LastWait(p) THEN [NoJob EXCEPT !.mute = m]
                   ELSE [job[p] EXCEPT !.k = k, !.mute = m, !.status = s]
  OBVIOUS
<1>3. IsJob(j)
  BY <1>2, JobsAre DEF ShellTypes
<1>4. job' = [job EXCEPT ![p] = j]
  BY <1>1, <1>2 DEF Reports
<1> QED BY <1>3, <1>4 DEF ShellTypes

(* Every step keeps the types.                                              *)
LEMMA TypesKept ==
  ASSUME ShellTypes, NEW p \in Procs, Turn(p)
  PROVE  ShellTypes'
<1>1. 1 \in Procs /\ p # 0 /\ parent[1] = 0
  BY ShellAssumption DEF ShellTypes
<1>2. ASSUME NEW how, Dies(p, how) PROVE ShellTypes'
  BY <1>2, DiesTypes
<1>3. CASE ReadLine(p)
  <2>1. PICK line \in Lines :
             /\ at' = [at EXCEPT ![p] = IF line = ExitLine THEN "exit" ELSE "loop"]
             /\ fd' = [fd EXCEPT ![p] = MakePipes(fd[p], Len(Commands(Words(line))) - 1).fds]
             /\ job' = [job EXCEPT ![p] =
                          [NoJob EXCEPT !.words = Words(line), !.cmds = Commands(Words(line)),
                             !.ends = MakePipes(fd[p], Len(Commands(Words(line))) - 1).ends,
                             !.mute = job[p].mute]]
    BY <1>3 DEF ReadLine
  <2>2. PICK w, c, e, m : job' = [job EXCEPT ![p] =
          [NoJob EXCEPT !.words = w, !.cmds = c, !.ends = e, !.mute = m]]
    BY <2>1
  <2>3. job' = [q \in Procs |-> job'[q]] /\ \A q \in Procs : IsJob(job'[q])
    BY <2>2, JobsAre DEF ShellTypes
  <2>4. at' = [q \in Procs |-> at'[q]] /\ \A q \in Procs : q # p => at'[q] = at[q]
    BY <2>1 DEF ShellTypes
  <2>5. at'[p] \in {"exit", "loop"}
    BY <2>1 DEF ShellTypes
  <2>6. fd' = [q \in Procs |-> fd'[q]]
    BY <2>1 DEF ShellTypes
  <2>7. parent' = parent /\ code' = code
    BY <1>3 DEF ReadLine
  <2> QED BY <1>1, <2>3, <2>4, <2>5, <2>6, <2>7 DEF ShellTypes
<1>4. CASE BlankLine(p)
  BY <1>2, <1>4 DEF BlankLine
<1>5. CASE Leaves(p)
  BY <1>2, <1>5 DEF Leaves
<1>6. CASE SkipCommand(p)
  <2>1. PICK k : job' = [job EXCEPT ![p] = [job[p] EXCEPT !.k = k]]
    BY <1>6 DEF SkipCommand, NextCmd
  <2> QED BY <1>6, <2>1, JobsAre DEF SkipCommand, ShellTypes
<1>7. CASE Fork(p)
  <2>1. PICK c : c = Lowest(Spare)
    OBVIOUS
  <2>2. c \in Procs /\ at[c] = "unused" /\ c # 1 /\ parent[c] = 0 /\ c # p
    BY <1>7, <2>1, SpareIs DEF Fork, InLoop
  <2>3. /\ at' = [at EXCEPT ![c] = "child"]
        /\ parent' = [parent EXCEPT ![c] = p]
        /\ fd' = [fd EXCEPT ![c] = fd[p]]
        /\ job' = [job EXCEPT ![c] = job[p], ![p].k = job[p].k + 1]
        /\ code' = code
    BY <1>7, <2>1, <2>2 DEF Fork
  <2>4. PICK k : job' = [job EXCEPT ![c] = job[p], ![p] = [job[p] EXCEPT !.k = k]]
    BY <2>2, <2>3 DEF ShellTypes
  <2>5. job' = [q \in Procs |-> job'[q]] /\ \A q \in Procs : IsJob(job'[q])
    BY <2>2, <2>4, JobsAre DEF ShellTypes
  <2>6. parent' \in [Procs -> Procs \cup {0}] /\ parent'[1] = 0
    BY <1>1, <2>2, <2>3 DEF ShellTypes
  <2>7. \A q \in Procs : at'[q] = "unused" => parent'[q] = 0
    BY <2>2, <2>3 DEF ShellTypes
  <2> QED BY <1>1, <2>2, <2>3, <2>5, <2>6, <2>7 DEF ShellTypes
<1>8. CASE CloseAll(p)
  <2>1. job' = [job EXCEPT ![p] = [job[p] EXCEPT !.k = 0]]
    BY <1>8 DEF CloseAll
  <2>2. job' = [q \in Procs |-> job'[q]] /\ \A q \in Procs : IsJob(job'[q])
    BY <2>1, JobsAre DEF ShellTypes
  <2>3. at' = [at EXCEPT ![p] = "wait"] /\ parent' = parent /\ code' = code
    BY <1>8 DEF CloseAll
  <2>4. fd' = [q \in Procs |-> fd'[q]]
    BY <1>8 DEF CloseAll, ShellTypes
  <2> QED BY <1>1, <2>2, <2>3, <2>4 DEF ShellTypes
<1>9. CASE Start(p)
  <2>1. p # 1
    BY <1>9 DEF Start, ShellTypes
  <2>2. PICK t : fd' = [fd EXCEPT ![p] = t]
    BY <1>9 DEF Start
  <2>3. PICK k : job' = job \/ job' = [job EXCEPT ![p] = [job[p] EXCEPT !.k = k]]
    BY <1>9 DEF Start, NextCmd
  <2>4. at' = [at EXCEPT ![p] = "loop"] \/ at' = [at EXCEPT ![p] = "program"]
    BY <1>9 DEF Start
  <2>5. parent' = parent /\ code' = code
    BY <1>9 DEF Start
  <2>6. job' = [q \in Procs |-> job'[q]] /\ \A q \in Procs : IsJob(job'[q])
    <3>1. CASE job' = job
      BY <3>1 DEF ShellTypes
    <3>2. CASE job' = [job EXCEPT ![p] = [job[p] EXCEPT !.k = k]]
      BY <3>2, JobsAre DEF ShellTypes
    <3> QED BY <2>3, <3>1, <3>2
  <2>7. at' = [q \in Procs |-> at'[q]] /\ at'[1] = at[1]
    BY <1>1, <2>1, <2>4 DEF ShellTypes
  <2>8. \A q \in Procs : at'[q] = "unused" => parent'[q] = 0
    BY <2>4, <2>5 DEF ShellTypes
  <2>9. fd' = [q \in Procs |-> fd'[q]]
    BY <2>2 DEF ShellTypes
  <2> QED BY <2>5, <2>6, <2>7, <2>8, <2>9 DEF ShellTypes
<1>10. CASE Wait(p)
  <2>1. PICK c \in Children(p) :
          /\ at[c] = "zombie" /\ Reports(p, code[c])
          /\ at' = [at EXCEPT ![c] = "unused", ![p] = Waited(p)]
          /\ parent' = [parent EXCEPT ![c] = 0]
          /\ code' = [code EXCEPT ![c] = 0]
    BY <1>10 DEF Wait
  <2>2. c \in Procs /\ c # 1 /\ c # p /\ fd' = fd
    BY <1>1, <1>10, <2>1 DEF Wait, Children
  <2>3. job' = [q \in Procs |-> job'[q]] /\ \A q \in Procs : IsJob(job'[q])
    BY <2>1, ReportsTypes
  <2>4. Waited(p) \in {"prompt", "wait"}
    BY DEF Waited
  <2>5. at' = [q \in Procs |-> at'[q]] /\ at'[1] \in {"prompt", "loop", "wait", "exit", "zombie"}
    BY <1>1, <2>1, <2>2, <2>4 DEF ShellTypes
  <2>6. \A q \in Procs : at'[q] = "unused" => parent'[q] = 0
    BY <2>1, <2>2, <2>4 DEF ShellTypes
  <2> QED BY <1>1, <2>1, <2>2, <2>3, <2>5, <2>6 DEF ShellTypes
<1>11. CASE WaitFails(p)
  <2>1. job' = [q \in Procs |-> job'[q]] /\ \A q \in Procs : IsJob(job'[q])
    BY <1>11, ReportsTypes DEF WaitFails
  <2>2. Waited(p) \in {"prompt", "wait"}
    BY DEF Waited
  <2>3. at' = [at EXCEPT ![p] = Waited(p)] /\ parent' = parent /\ fd' = fd /\ code' = code
    BY <1>11 DEF WaitFails
  <2> QED BY <1>1, <2>1, <2>2, <2>3 DEF ShellTypes
<1>12. CASE Ends(p)
  BY <1>2, <1>12 DEF Ends
<1> QED BY <1>3, <1>4, <1>5, <1>6, <1>7, <1>8, <1>9, <1>10, <1>11, <1>12 DEF Turn

-----------------------------------------------------------------------------
(* Steps of the other processes.                                            *)
LEMMA StartRuns ==
  ASSUME NEW p \in Procs, Start(p), fd = [q \in Procs |-> fd[q]], at = [q \in Procs |-> at[q]]
  PROVE  \/ at' = [at EXCEPT ![p] = "loop"]
         \/ /\ at' = [at EXCEPT ![p] = "program"] /\ job' = job
            /\ fd' = [fd EXCEPT ![p] =
                        AfterExec(Redirected(Setup(fd[p], job[p]), Cmd(job[p])))]
<1>1. PICK cmd, wired, noIn, in, noOut, out :
        /\ cmd = Cmd(job[p]) /\ wired = Setup(fd[p], job[p])
        /\ noIn = (cmd.in # NoFile /\ cmd.in \notin Openable)
        /\ in = (CASE cmd.in = NoFile -> wired
                   [] noIn -> Closed(wired, 0)
                   [] OTHER -> Opened(Closed(wired, 0), <<"file", cmd.in>>))
        /\ noOut = (cmd.out # NoFile /\ cmd.out \notin Creatable)
        /\ out = (CASE noIn \/ cmd.out = NoFile -> in
                    [] ~noIn /\ noOut -> Closed(in, 1)
                    [] OTHER -> Opened(Closed(in, 1), <<"file", cmd.out>>))
  OBVIOUS
<1>2. \/ at' = [at EXCEPT ![p] = "loop"]
      \/ /\ ~noIn /\ ~noOut
         /\ at' = [at EXCEPT ![p] = "program"] /\ job' = job
         /\ fd' = [fd EXCEPT ![p] = AfterExec(out)]
  BY <1>1 DEF Start
<1>3. ASSUME ~noIn, ~noOut PROVE out = Redirected(wired, cmd)
  <2>1. in = InRedirected(wired, cmd)
    BY <1>1, <1>3 DEF InRedirected
  <2> QED BY <1>1, <1>3, <2>1 DEF Redirected
<1> QED BY <1>1, <1>2, <1>3

(* A child that starts its program stays in the family.                     *)
LEMMA MemberRuns ==
  ASSUME ShellInv, NEW p \in Procs, p # 1, parent[p] = 1, Start(p), at'[p] = "program",
         NEW T, Family(T)
  PROVE  Member(T, p)'
<1>1. p \in Children(1) /\ AtWork /\ OfLine(job[1]) /\ 1 \in Procs /\ at[p] = "child"
  BY ShellAssumption DEF ShellInv, ShellLine, Children, Start
<1>2. Member(T, p) /\ fd[p] = T
  BY <1>1 DEF Family, Member
<1>3. PICK n, j, l, W, cmd, a, b :
        /\ n = Pipes(job[1]) /\ j = job[p] /\ l = job[1] /\ W = Setup(fd[p], job[p])
        /\ cmd = Cmd(job[p]) /\ a = InOf(T, j.k) /\ b = OutOf(T, j.k, n)
  OBVIOUS
<1>4. /\ j.words = l.words /\ j.cmds = l.cmds /\ j.ends = l.ends
      /\ j.k \in 0 .. n /\ cmd.argv # <<>>
  BY <1>2, <1>3 DEF Member
<1>5. n \in Nat /\ EndsOK(j.ends, n) /\ Len(j.cmds) = n + 1 /\ Piping(T, n)
  BY <1>1, <1>3, <1>4, LineIs DEF OfLine, Family
<1>6. Fitted(W, a, b)
  <2>1. Fitted(Setup(T, j), InOf(T, j.k), OutOf(T, j.k, n))
    BY <1>4, <1>5, SetupFits
  <2> QED BY <1>2, <1>3, <2>1
<1>7. PICK t : t = AfterExec(Redirected(W, cmd))
  OBVIOUS
<1>8. Prepared(t, cmd, a, b)
  BY <1>6, <1>7, RedirectedFits
<1>9. at' # [at EXCEPT ![p] = "loop"]
  BY DEF ShellInv, ShellTypes
<1>10. job' = job /\ fd' = [fd EXCEPT ![p] = t]
  BY <1>3, <1>7, <1>9, StartRuns DEF ShellInv, ShellTypes
<1>11. job'[p] = j /\ job'[1] = l /\ fd'[p] = t
  BY <1>3, <1>10 DEF ShellInv, ShellTypes
<1> QED BY <1>3, <1>4, <1>8, <1>11 DEF Member, Cmd, Pipes

(* A step that changes no child and nothing of the shell keeps the rest.    *)
LEMMA StepKept ==
  ASSUME ShellInv, ShellTypes', NEW p \in Procs, p # 1, Apart(p), outcome' = outcome,
         parent[p] = 1 => at[p] # "zombie" /\ at'[p] # "zombie",
         parent[p] = 1 /\ at'[p] \in {"child", "program"} => \A T : Family(T) => Member(T, p)'
  PROVE  ShellInv'
<1>1. ShellLine'
  BY LineKept DEF ShellInv
<1>2. Outcomes'
  BY OutcomesKept DEF ShellInv
<1>3. Children(1)' = Children(1)
  BY DEF Apart, Children
<1>4. Settled' = Settled
  BY <1>3 DEF Settled
<1>5. Said'
  BY <1>4, SaidKept DEF ShellInv
<1> QED BY <1>1, <1>2, <1>5 DEF ShellInv

(* The end of a process other than the shell keeps the rest.                *)
LEMMA DiesKept ==
  ASSUME ShellInv, NEW p \in Procs, p # 1, at[p] # "zombie", NEW how \in Codes \cup {0}, Dies(p, how)
  PROVE  ShellInv'
<1>1. 1 \in Procs /\ p # 0 /\ parent[1] = 0
  BY ShellAssumption DEF ShellInv, ShellTypes
<1>2. ShellTypes'
  BY DiesTypes DEF ShellInv
<1>3. parent' = [q \in Procs |-> IF q = p \/ parent[q] # p THEN parent[q] ELSE 0]
  BY DEF Dies, Orphaned
<1>4. PICK end : /\ end = (IF p # 1 /\ parent[p] = 0 THEN "unused" ELSE "zombie")
                 /\ at' = [q \in Procs |->
                             CASE q = p -> end
                               [] q # p /\ ~(parent[q] = p /\ at[q] = "zombie") -> at[q]
                               [] OTHER -> "unused"]
                 /\ code' = [code EXCEPT ![p] = IF end = "unused" THEN 0 ELSE how]
  BY DEF Dies
<1>5. Apart(p)
  <2>1. \A q \in Procs : q # p => fd'[q] = fd[q] /\ job'[q] = job[q] /\ code'[q] = code[q]
    BY DEF Dies, ShellInv, ShellTypes
  <2>2. \A q \in Procs : q # p /\ parent[q] # p => at'[q] = at[q]
    BY <1>4
  <2>3. \A q \in Procs : parent'[q] = 1 <=> parent[q] = 1
    BY <1>3
  <2>4. printed' = printed
    BY DEF Dies
  <2> QED BY <1>1, <2>1, <2>2, <2>3, <2>4 DEF Apart
<1>6. CASE parent[p] # 1
  BY <1>2, <1>5, <1>6, StepKept DEF Dies
<1>7. CASE parent[p] = 1
  <2>1. at'[p] = "zombie" /\ code'[p] = how /\ outcome' = Put(outcome, p, how)
    BY <1>1, <1>4, <1>7 DEF Dies, ShellInv, ShellTypes
  <2>2. ShellLine'
    BY <1>5, <2>1, LineKept DEF ShellInv
  <2>3. p \in Children(1) /\ Children(1)' = Children(1)
    BY <1>5, <1>7 DEF Children, Apart
  <2>4. /\ DOMAIN outcome' = DOMAIN outcome \cup {p} /\ outcome'[p] = how
        /\ \A q \in DOMAIN outcome : q # p => outcome'[q] = outcome[q]
        /\ outcome' = [q \in DOMAIN outcome' |-> outcome'[q]]
    BY <2>1 DEF Put
  <2>5. Outcomes'
    <3>1. /\ DOMAIN outcome' \subseteq Procs /\ DOMAIN outcome' # {}
          /\ \A q \in DOMAIN outcome' : outcome'[q] \in Codes \cup {0}
      BY <2>4 DEF ShellInv, Outcomes
    <3>2. ASSUME NEW q \in Children(1)
          PROVE  /\ q \in DOMAIN outcome' <=> at'[q] = "zombie"
                 /\ at'[q] = "zombie" => outcome'[q] = code'[q]
      <4>1. CASE q = p
        BY <2>1, <2>4, <4>1
      <4>2. CASE q # p
        <5>1. at'[q] = at[q] /\ code'[q] = code[q]
          BY <1>5, <4>2 DEF Apart, Children
        <5> QED BY <2>4, <4>2, <5>1 DEF ShellInv, Outcomes
      <4> QED BY <4>1, <4>2
    <3> QED BY <2>3, <2>4, <3>1, <3>2 DEF Outcomes
  <2>6. Settled' = Settled /\ \A q \in Settled : outcome'[q] = outcome[q]
    BY <2>3, <2>4 DEF Settled
  <2>7. Said'
    BY <1>5, <2>3, <2>6, SaidKept DEF ShellInv
  <2> QED BY <1>2, <2>2, <2>5, <2>7 DEF ShellInv
<1> QED BY <1>6, <1>7

(* No step of another process breaks the invariant.                         *)
LEMMA OthersKeep ==
  ASSUME ShellInv, NEW p \in Procs, p # 1, Turn(p)
  PROVE  ShellInv'
<1>1. 1 \in Procs /\ p # 0 /\ parent[1] = 0 /\ ShellTypes'
  BY ShellAssumption, TypesKept DEF ShellInv, ShellTypes
<1>2. Signalled \in Codes \cup {0}
  BY ShellAssumption
<1>3. CASE ReadLine(p)
  <2>1. /\ \A q \in Procs : q # p => at'[q] = at[q] /\ fd'[q] = fd[q] /\ job'[q] = job[q]
        /\ parent' = parent /\ code' = code /\ printed' = printed /\ outcome' = outcome
    BY <1>3 DEF ReadLine, ShellInv, ShellTypes
  <2>2. at'[p] \in {"exit", "loop"} /\ at[p] = "prompt"
    BY <1>3 DEF ReadLine, ShellInv, ShellTypes
  <2>3. Apart(p)
    BY <1>1, <2>1 DEF Apart
  <2> QED BY <1>1, <2>1, <2>2, <2>3, StepKept
<1>4. CASE BlankLine(p)
  BY <1>2, <1>4, DiesKept DEF BlankLine
<1>5. CASE Leaves(p)
  BY <1>5, DiesKept DEF Leaves
<1>6. CASE SkipCommand(p)
  <2>1. Apart(p) /\ outcome' = outcome /\ at' = at /\ at[p] = "loop"
    BY <1>1, <1>6 DEF SkipCommand, NextCmd, InLoop, Apart, ShellInv, ShellTypes
  <2> QED BY <1>1, <2>1, StepKept
<1>7. CASE Fork(p)
  <2>1. PICK c : c = Lowest(Spare)
    OBVIOUS
  <2>2. c \in Procs /\ at[c] = "unused" /\ c # 1 /\ parent[c] = 0 /\ c # p /\ at[p] = "loop"
    BY <1>7, <2>1, SpareIs DEF Fork, InLoop, ShellInv
  <2>3. /\ at' = [at EXCEPT ![c] = "child"]
        /\ parent' = [parent EXCEPT ![c] = p]
        /\ fd' = [fd EXCEPT ![c] = fd[p]]
        /\ job' = [job EXCEPT ![c] = job[p], ![p].k = job[p].k + 1]
        /\ code' = code /\ printed' = printed /\ outcome' = outcome
    BY <1>7, <2>1, <2>2 DEF Fork
  <2>4. \A q \in Procs : q \notin {c, p} =>
          at'[q] = at[q] /\ fd'[q] = fd[q] /\ job'[q] = job[q] /\ parent'[q] = parent[q]
    BY <2>3 DEF ShellInv, ShellTypes
  <2>5. parent'[c] = p /\ parent'[p] = parent[p] /\ at'[p] = "loop"
    BY <2>2, <2>3 DEF ShellInv, ShellTypes
  <2>6. Apart(p)
    <3>1. \A q \in Procs : parent'[q] = 1 <=> parent[q] = 1
      BY <1>1, <2>2, <2>4, <2>5
    <3>2. \A q \in Procs \ {p} : parent[q] = 1 => q \notin {c, p}
      BY <2>2
    <3>3. \A q \in Procs \ {p} : parent[q] = 1 =>
            at'[q] = at[q] /\ fd'[q] = fd[q] /\ job'[q] = job[q] /\ code'[q] = code[q]
      BY <2>3, <2>4, <3>2
    <3>4. 1 \notin {c, p}
      BY <2>2
    <3> QED BY <1>1, <2>3, <2>4, <3>1, <3>3, <3>4 DEF Apart
  <2> QED BY <1>1, <2>2, <2>3, <2>5, <2>6, StepKept
<1>8. CASE CloseAll(p)
  <2>1. at[p] = "loop" /\ at'[p] = "wait" /\ outcome' = outcome
    BY <1>8 DEF CloseAll, ShellInv, ShellTypes
  <2>2. Apart(p)
    BY <1>1, <1>8 DEF CloseAll, Apart, ShellInv, ShellTypes
  <2> QED BY <1>1, <2>1, <2>2, StepKept
<1>9. CASE Start(p)
  <2>1. Apart(p) /\ outcome' = outcome /\ at[p] = "child"
    BY <1>1, <1>9 DEF Start, NextCmd, Apart, ShellInv, ShellTypes
  <2>2. at' = [at EXCEPT ![p] = "loop"] \/ at' = [at EXCEPT ![p] = "program"]
    BY <1>9 DEF Start
  <2>3. at'[p] \in {"loop", "program"}
    BY <2>2 DEF ShellInv, ShellTypes
  <2>4. parent[p] = 1 /\ at'[p] \in {"child", "program"} => \A T : Family(T) => Member(T, p)'
    BY <1>9, <2>3, MemberRuns
  <2> QED BY <1>1, <2>1, <2>3, <2>4, StepKept
<1>10. CASE Wait(p)
  <2>1. PICK c \in Children(p) :
          /\ at[c] = "zombie" /\ Reports(p, code[c])
          /\ at' = [at EXCEPT ![c] = "unused", ![p] = Waited(p)]
          /\ parent' = [parent EXCEPT ![c] = 0]
          /\ code' = [code EXCEPT ![c] = 0]
    BY <1>10 DEF Wait
  <2>2. /\ c \in Procs /\ c # 1 /\ c # p /\ parent[c] = p /\ at[p] = "wait"
        /\ fd' = fd /\ outcome' = outcome
    BY <1>1, <1>10, <2>1 DEF Wait, Children
  <2>3. printed' = printed /\ \A q \in Procs : q # p => job'[q] = job[q]
    BY <2>1 DEF Reports, ShellInv, ShellTypes
  <2>4. \A q \in Procs : q \notin {c, p} =>
          at'[q] = at[q] /\ parent'[q] = parent[q] /\ code'[q] = code[q]
    BY <2>1 DEF ShellInv, ShellTypes
  <2>5. parent'[c] = 0 /\ parent'[p] = parent[p] /\ at'[p] \in {"prompt", "wait"}
    BY <2>1, <2>2 DEF Waited, ShellInv, ShellTypes
  <2>6. Apart(p)
    BY <1>1, <2>2, <2>3, <2>4, <2>5 DEF Apart
  <2> QED BY <1>1, <2>2, <2>5, <2>6, StepKept
<1>11. CASE WaitFails(p)
  <2>1. printed' = printed /\ \A q \in Procs : q # p => job'[q] = job[q]
    BY <1>11 DEF WaitFails, Reports, ShellInv, ShellTypes
  <2>2. /\ at[p] = "wait" /\ at' = [at EXCEPT ![p] = Waited(p)]
        /\ parent' = parent /\ fd' = fd /\ code' = code /\ outcome' = outcome
    BY <1>11 DEF WaitFails
  <2>3. at'[p] \in {"prompt", "wait"} /\ \A q \in Procs : q # p => at'[q] = at[q]
    BY <2>2 DEF Waited, ShellInv, ShellTypes
  <2>4. Apart(p)
    BY <1>1, <2>1, <2>2, <2>3 DEF Apart
  <2> QED BY <1>1, <2>2, <2>3, <2>4, StepKept
<1>12. CASE Ends(p)
  <2>1. PICK how \in Codes : Dies(p, how)
    BY <1>12 DEF Ends
  <2> QED BY <1>12, <2>1, DiesKept DEF Ends
<1> QED BY <1>3, <1>4, <1>5, <1>6, <1>7, <1>8, <1>9, <1>10, <1>11, <1>12 DEF Turn

-----------------------------------------------------------------------------
(* Steps of the shell itself. Where it ends it has no children.             *)
LEMMA Restarts ==
  ASSUME ShellInv, NEW how, Dies(1, how), ~AtWork
  PROVE  ShellInv'
<1>1. Dies(1, how)
  OBVIOUS
<1>2. 1 \in Procs /\ parent[1] = 0 /\ ShellTypes'
  BY <1>1, ShellAssumption, DiesTypes DEF ShellInv, ShellTypes
<1>3. Children(1) = {}
  BY DEF ShellInv, ShellLine
<1>4. at'[1] = "zombie" /\ job'[1] = NoJob /\ outcome' = outcome /\ printed' = printed
  BY <1>1, <1>2 DEF Dies, ShellInv, ShellTypes
<1>5. Children(1)' = {} /\ ~AtWork'
  <2>1. \A q \in Procs : parent[q] # 1
    BY <1>3 DEF Children
  <2>2. \A q \in Procs : parent'[q] # 1
    BY <1>1, <1>2, <2>1 DEF Dies, Orphaned
  <2> QED BY <1>4, <2>2 DEF Children, AtWork
<1>6. ShellLine'
  BY <1>4, <1>5 DEF ShellLine, AtWork
<1>7. Outcomes'
  BY <1>4, <1>5 DEF ShellInv, Outcomes
<1>8. Said'
  BY <1>4, <1>5 DEF ShellInv, Said, NoJob, AtWork
<1> QED BY <1>2, <1>6, <1>7, <1>8 DEF ShellInv

(* The shell reads a line: commands, pipes, and no child yet.               *)
LEMMA ReadsKeep == ShellInv /\ ReadLine(1) => ShellInv'
<1> SUFFICES ASSUME ShellInv, ReadLine(1) PROVE ShellInv'
  OBVIOUS
<1>1. 1 \in Procs /\ ShellTypes' /\ ~AtWork /\ Children(1) = {} /\ fd[1] = Ready
  BY ShellAssumption, TypesKept DEF ReadLine, Turn, ShellInv, ShellLine, AtWork
<1>2. PICK line \in Lines :
        /\ Commands(Words(line)) # <<>>
        /\ at' = [at EXCEPT ![1] = IF line = ExitLine THEN "exit" ELSE "loop"]
        /\ fd' = [fd EXCEPT ![1] = MakePipes(fd[1], Len(Commands(Words(line))) - 1).fds]
        /\ job' = [job EXCEPT ![1] =
                     [NoJob EXCEPT !.words = Words(line), !.cmds = Commands(Words(line)),
                        !.ends = MakePipes(fd[1], Len(Commands(Words(line))) - 1).ends,
                        !.mute = job[1].mute]]
  BY DEF ReadLine
<1>3. PICK words, cmds, n, pipes :
        /\ words = Words(line) /\ cmds = Commands(words) /\ n = Len(cmds) - 1
        /\ pipes = MakePipes(fd[1], n)
  OBVIOUS
<1>4. /\ words = Words(line) /\ cmds = Commands(words) /\ n = Len(cmds) - 1
      /\ pipes = MakePipes(fd[1], n) /\ cmds # <<>>
      /\ at' = [at EXCEPT ![1] = IF line = ExitLine THEN "exit" ELSE "loop"]
      /\ fd' = [fd EXCEPT ![1] = pipes.fds]
      /\ job' = [job EXCEPT ![1] =
                   [NoJob EXCEPT !.words = words, !.cmds = cmds,
                                 !.ends = pipes.ends, !.mute = job[1].mute]]
  BY <1>2, <1>3
<1>5. PICK m : m = job[1].mute
  OBVIOUS
<1>6. /\ job'[1].words = words /\ job'[1].cmds = cmds /\ job'[1].ends = pipes.ends
      /\ job'[1].mute = m /\ job'[1].k = 0 /\ job'[1].status = Unset
  <2>1. job'[1] = [NoJob EXCEPT !.words = words, !.cmds = cmds, !.ends = pipes.ends, !.mute = m]
    BY <1>1, <1>4, <1>5 DEF ShellInv, ShellTypes
  <2> QED BY <2>1 DEF NoJob
<1>7. fd'[1] = pipes.fds /\ at'[1] \in {"exit", "loop"} /\ outcome' = <<>> /\ printed' = <<>>
  BY <1>1, <1>4 DEF ReadLine, ShellInv, ShellTypes
<1>8. Children(1)' = {} /\ Settled' = {}
  BY <1>1, <1>7 DEF Children, Settled, ReadLine
<1>9. words \in Seq(FullWords) /\ cmds \in Seq(Cmds) /\ n \in Nat /\ 2 * n + 3 <= OpenMax
  <2>1. words \in Seq(FullWords)
    BY <1>4, WordsAre, ShellAssumption DEF Text
  <2>2. cmds \in Seq(Cmds)
    BY <1>4, <2>1, CommandsAre
  <2>3. Len(cmds) \in Nat \ {0}
    BY <1>4, <2>2
  <2>4. 2 * Len(cmds) + 1 <= OpenMax
    BY <1>4, RoomAssumption
  <2>5. n \in Nat /\ 2 * n + 3 = 2 * Len(cmds) + 1
    BY <1>4, <2>3
  <2> QED BY <2>1, <2>2, <2>4, <2>5
<1>10. Piping(pipes.fds, n) /\ EndsOK(pipes.ends, n)
  BY <1>1, <1>4, <1>9, MakePipesIs
<1>11. ShellLine'
  <2>1. OfLine(job[1])'
    BY <1>4, <1>6, <1>10 DEF OfLine, Pipes
  <2>2. Counted'
    <3>1. Cardinality(Children(1)') = 0
      BY <1>8, FS_EmptySet
    <3>2. Len(cmds) \in Nat
      BY <1>9
    <3> QED BY <1>6, <1>7, <3>1, <3>2 DEF Counted
  <2>3. Family(pipes.fds)'
    BY <1>4, <1>6, <1>7, <1>8, <1>10 DEF Family, Pipes
  <2> QED BY <1>7, <1>8, <2>1, <2>2, <2>3 DEF ShellLine, AtWork
<1>12. Outcomes'
  BY <1>7, <1>8 DEF Outcomes
<1>13. Said'
  <2>1. m \in BOOLEAN
    BY <1>5 DEF ShellInv, Said
  <2> QED BY <1>6, <1>7, <1>8, <2>1 DEF Said, AtWork
<1> QED BY <1>1, <1>11, <1>12, <1>13 DEF ShellInv

(* The children can be counted.                                             *)
LEMMA ChildrenFinite ==
  /\ IsFiniteSet(Children(1)) /\ Cardinality(Children(1)) \in Nat
  /\ Cardinality(Children(1)) <= 0 => Children(1) = {}
<1>1. IsFiniteSet(Children(1))
  BY ShellAssumption, FS_Subset DEF Children
<1> QED BY <1>1, FS_CardinalityType, FS_EmptySet

(* What the shell's steps in the loop have in common.                       *)
LEMMA ShellMoves ==
  ASSUME ShellInv, ShellTypes', at[1] \in {"loop", "wait"}, NEW k \in Nat, NEW a, NEW t,
         job' = [job EXCEPT ![1] = [job[1] EXCEPT !.k = k]],
         at' = [at EXCEPT ![1] = a], fd' = [fd EXCEPT ![1] = t],
         parent' = parent, code' = code, outcome' = outcome, printed' = printed,
         at[1] = "loop", a \in {"loop", "wait"}, Counted',
         a = "loop" => t = fd[1], a = "wait" => t = Ready
  PROVE  ShellInv'
<1>1. 1 \in Procs /\ parent[1] = 0 /\ AtWork
  BY ShellAssumption DEF ShellInv, ShellTypes, AtWork
<1>2. /\ at'[1] = a /\ fd'[1] = t /\ job'[1] = [job[1] EXCEPT !.k = k]
      /\ \A q \in Procs : q # 1 => at'[q] = at[q] /\ fd'[q] = fd[q] /\ job'[q] = job[q]
  BY <1>1 DEF ShellInv, ShellTypes
<1>3. /\ job'[1].words = job[1].words /\ job'[1].cmds = job[1].cmds /\ job'[1].k = k
      /\ job'[1].ends = job[1].ends /\ job'[1].status = job[1].status /\ job'[1].mute = job[1].mute
  BY <1>1, <1>2 DEF ShellInv, ShellTypes, IsJob, Fields
<1>4. Children(1)' = Children(1) /\ 1 \notin Children(1) /\ Settled' = Settled /\ AtWork'
  <2>1. Children(1)' = Children(1)
    BY DEF Children
  <2> QED BY <1>1, <1>2, <2>1 DEF Children, Settled, AtWork
<1>5. ASSUME NEW T, Family(T) PROVE Family(T)'
  <2>1. Piping(T, Pipes(job[1]))' /\ (at[1] = "loop" => fd[1] = T)'
    <3>1. Pipes(job[1])' = Pipes(job[1])
      BY <1>3 DEF Pipes
    <3> QED BY <1>2, <1>5, <3>1 DEF Family
  <2>2. ASSUME NEW q \in Children(1), at'[q] \in {"child", "program"} PROVE Member(T, q)'
    <3>1. at'[q] = at[q] /\ fd'[q] = fd[q] /\ job'[q] = job[q]
      BY <1>2, <1>4 DEF Children
    <3>2. Member(T, q)
      BY <1>5, <2>2, <3>1 DEF Family
    <3> QED BY <1>3, <3>1, <3>2 DEF Member, Pipes, Cmd
  <2> QED BY <1>4, <2>1, <2>2 DEF Family
<1>6. OfLine(job[1]) /\ \E T : Family(T)
  BY <1>1 DEF ShellInv, ShellLine
<1>7. OfLine(job[1])'
  BY <1>3, <1>6 DEF OfLine, Pipes
<1>8. ShellLine'
  BY <1>2, <1>4, <1>5, <1>6, <1>7 DEF ShellLine, AtWork
<1>9. Outcomes'
  <2>1. \A q \in Children(1) : at'[q] = at[q]
    BY <1>2, <1>4 DEF Children
  <2> QED BY <1>4, <2>1 DEF ShellInv, Outcomes
<1>10. Said'
  <2>1. job[1].status = Unset /\ Settled = {} /\ printed = <<>>
    BY <1>1 DEF ShellInv, Said
  <2>2. ASSUME NEW s PROVE Times(s)' >= Ended(s)'
    <3>1. {i \in DOMAIN printed : printed[i][2] = s} = {} /\ {q \in Settled : outcome[q] = s} = {}
      BY <2>1
    <3>2. Times(s)' = 0 /\ Ended(s)' = 0
      BY <1>4, <3>1, FS_EmptySet DEF Times, Ended
    <3> QED BY <3>2
  <2> QED BY <1>3, <1>4, <2>1, <2>2 DEF ShellInv, Said
<1> QED BY <1>8, <1>9, <1>10 DEF ShellInv

(* A command that is skipped has no child.                                  *)
LEMMA SkipsKeep == ShellInv /\ SkipCommand(1) => ShellInv'
<1> SUFFICES ASSUME ShellInv, SkipCommand(1) PROVE ShellInv'
  OBVIOUS
<1>1. 1 \in Procs /\ ShellTypes' /\ at[1] = "loop"
  BY ShellAssumption, TypesKept DEF SkipCommand, InLoop, Turn, ShellInv
<1>2. OfLine(job[1]) /\ Counted
  BY <1>1 DEF ShellInv, ShellLine, AtWork
<1>3. PICK k : k = job[1].k + 1
  OBVIOUS
<1>4. job' = [job EXCEPT ![1] = [job[1] EXCEPT !.k = k]]
  BY <1>3 DEF SkipCommand, NextCmd
<1>5. job'[1].k = k /\ job'[1].cmds = job[1].cmds
  BY <1>1, <1>4 DEF ShellInv, ShellTypes, IsJob, Fields
<1>6. at' = [at EXCEPT ![1] = at[1]] /\ fd' = [fd EXCEPT ![1] = fd[1]]
  BY <1>1 DEF SkipCommand, ShellInv, ShellTypes
<1>7. k \in Nat /\ Len(job[1].cmds) \in Nat /\ job[1].k \in Nat /\ job[1].k < Len(job[1].cmds)
  BY <1>2, <1>3, LineIs DEF OfLine, SkipCommand, InLoop
<1>8. Counted'
  <2>1. Children(1)' = Children(1) /\ at' = at
    BY DEF Children, SkipCommand
  <2>2. k <= Len(job[1].cmds) /\ Cardinality(Children(1)) <= k
    BY <1>1, <1>2, <1>3, <1>7, ChildrenFinite DEF Counted
  <2> QED BY <1>1, <1>5, <2>1, <2>2 DEF Counted
<1>9. parent' = parent /\ code' = code /\ outcome' = outcome /\ printed' = printed
  BY DEF SkipCommand
<1> QED BY <1>1, <1>4, <1>6, <1>7, <1>8, <1>9, ShellMoves

(* The pipes are closed when every command has been passed.                 *)
LEMMA ClosesKeep == ShellInv /\ CloseAll(1) => ShellInv'
<1> SUFFICES ASSUME ShellInv, CloseAll(1) PROVE ShellInv'
  OBVIOUS
<1>1. 1 \in Procs /\ ShellTypes' /\ at[1] = "loop"
  BY ShellAssumption, TypesKept DEF CloseAll, Turn, ShellInv
<1>2. OfLine(job[1]) /\ Counted
  BY <1>1 DEF ShellInv, ShellLine, AtWork
<1>3. PICK T : Family(T)
  BY <1>1 DEF ShellInv, ShellLine, AtWork
<1>4. fd[1] = T /\ Piping(T, Pipes(job[1])) /\ EndsOK(job[1].ends, Pipes(job[1]))
  BY <1>1, <1>2, <1>3 DEF Family, OfLine
<1>5. ClosePipes(fd[1], job[1]) = Ready
  BY <1>2, <1>4, LineIs, ClosePipesIs
<1>6. /\ job' = [job EXCEPT ![1] = [job[1] EXCEPT !.k = 0]]
      /\ at' = [at EXCEPT ![1] = "wait"] /\ fd' = [fd EXCEPT ![1] = Ready]
  BY <1>5 DEF CloseAll
<1>7. job'[1].k = 0 /\ job'[1].cmds = job[1].cmds /\ at'[1] = "wait"
  BY <1>1, <1>6 DEF ShellInv, ShellTypes, IsJob, Fields
<1>8. Counted'
  <2>1. Children(1)' = Children(1)
    BY DEF Children, CloseAll
  <2>2. Len(job[1].cmds) \in Nat \ {0} /\ Cardinality(Children(1)) <= Len(job[1].cmds)
    BY <1>1, <1>2, LineIs DEF Counted, CloseAll
  <2>3. 0 < Len(job[1].cmds) /\ Len(job[1].cmds) - 0 = Len(job[1].cmds)
    BY <2>2
  <2> QED BY <1>7, <2>1, <2>2, <2>3 DEF Counted
<1>9. parent' = parent /\ code' = code /\ outcome' = outcome /\ printed' = printed
  BY DEF CloseAll
<1> QED BY <1>1, <1>6, <1>8, <1>9, ShellMoves

(* A fork adds a child with the shell's table.                              *)
LEMMA ForksKeep == ShellInv /\ Fork(1) => ShellInv'
<1> SUFFICES ASSUME ShellInv, Fork(1) PROVE ShellInv'
  OBVIOUS
<1>1. 1 \in Procs /\ ShellTypes' /\ at[1] = "loop" /\ parent[1] = 0 /\ AtWork
  BY ShellAssumption, TypesKept DEF Fork, InLoop, Turn, ShellInv, ShellTypes, AtWork
<1>2. OfLine(job[1]) /\ Counted
  BY <1>1 DEF ShellInv, ShellLine
<1>3. PICK c, k : c = Lowest(Spare) /\ k = job[1].k + 1
  OBVIOUS
<1>4. c \in Procs /\ at[c] = "unused" /\ c # 1 /\ parent[c] = 0
  BY <1>3, SpareIs DEF Fork, ShellInv
<1>5. /\ at' = [at EXCEPT ![c] = "child"] /\ parent' = [parent EXCEPT ![c] = 1]
      /\ fd' = [fd EXCEPT ![c] = fd[1]]
      /\ job' = [job EXCEPT ![c] = job[1], ![1] = [job[1] EXCEPT !.k = k]]
      /\ code' = code /\ outcome' = outcome /\ printed' = printed
  BY <1>1, <1>3, <1>4 DEF Fork, ShellInv, ShellTypes
<1>6. /\ at'[c] = "child" /\ fd'[c] = fd[1] /\ job'[c] = job[1] /\ parent'[c] = 1
      /\ \A q \in Procs : q # c => at'[q] = at[q] /\ fd'[q] = fd[q] /\ parent'[q] = parent[q]
      /\ \A q \in Procs : q \notin {c, 1} => job'[q] = job[q]
      /\ job'[1] = [job[1] EXCEPT !.k = k]
  BY <1>1, <1>4, <1>5 DEF ShellInv, ShellTypes
<1>7. /\ job'[1].words = job[1].words /\ job'[1].cmds = job[1].cmds /\ job'[1].k = k
      /\ job'[1].ends = job[1].ends /\ job'[1].status = job[1].status /\ job'[1].mute = job[1].mute
  BY <1>1, <1>6 DEF ShellInv, ShellTypes, IsJob, Fields
<1>8. Children(1)' = Children(1) \cup {c} /\ c \notin Children(1) /\ 1 \notin Children(1)
  BY <1>1, <1>4, <1>6 DEF Children
<1>9. k \in Nat /\ Pipes(job[1]) \in Nat /\ Len(job[1].cmds) = Pipes(job[1]) + 1
      /\ job[1].k \in 0 .. Pipes(job[1]) /\ k <= Len(job[1].cmds)
  <2>1. Pipes(job[1]) \in Nat /\ Len(job[1].cmds) = Pipes(job[1]) + 1 /\ job[1].k \in Nat
    BY <1>2, LineIs DEF OfLine
  <2>2. job[1].k < Len(job[1].cmds)
    BY DEF Fork, InLoop
  <2> QED BY <1>3, <2>1, <2>2
<1>10. Counted'
  <2>1. Cardinality(Children(1)') = Cardinality(Children(1)) + 1
    BY <1>8, ChildrenFinite, FS_AddElement
  <2>2. Cardinality(Children(1)) <= job[1].k
    BY <1>1, <1>2 DEF Counted
  <2>3. Cardinality(Children(1)) + 1 <= k
    BY <1>3, <1>9, <2>2, ChildrenFinite
  <2> QED BY <1>1, <1>4, <1>6, <1>7, <1>9, <2>1, <2>3 DEF Counted
<1>11. PICK T : Family(T)
  BY <1>1 DEF ShellInv, ShellLine
<1>12. Family(T)'
  <2>1. at'[1] = "loop" /\ fd'[1] = fd[1] /\ fd[1] = T
    BY <1>1, <1>4, <1>6, <1>11 DEF Family
  <2>2. Piping(T, Pipes(job[1]))'
    BY <1>7, <1>11 DEF Family, Piping, PipeAt, Pipes
  <2>3. Member(T, c)'
    <3>1. Cmd(job[1]).argv # <<>>
      BY DEF Fork
    <3> QED BY <1>6, <1>7, <1>9, <2>1, <3>1 DEF Member, Pipes, Cmd
  <2>4. ASSUME NEW q \in Children(1), at'[q] \in {"child", "program"} PROVE Member(T, q)'
    <3>1. at'[q] = at[q] /\ fd'[q] = fd[q] /\ job'[q] = job[q]
      BY <1>6, <1>8 DEF Children
    <3>2. Member(T, q)
      BY <1>11, <2>4, <3>1 DEF Family
    <3> QED BY <1>7, <3>1, <3>2 DEF Member, Pipes, Cmd
  <2> QED BY <1>8, <2>1, <2>2, <2>3, <2>4 DEF Family
<1>13. OfLine(job[1])'
  BY <1>2, <1>7, <1>9 DEF OfLine, Pipes
<1>14. ShellLine'
  BY <1>1, <1>4, <1>6, <1>10, <1>12, <1>13 DEF ShellLine, AtWork
<1>15. job[1].status = Unset /\ Settled = {} /\ printed = <<>>
  BY <1>1 DEF ShellInv, Said
<1>16. c \notin DOMAIN outcome /\ Settled' = {}
  BY <1>5, <1>8, <1>15 DEF Settled
<1>17. Outcomes'
  <2>1. \A q \in Children(1) : at'[q] = at[q]
    BY <1>6, <1>8 DEF Children
  <2> QED BY <1>5, <1>6, <1>8, <1>16, <2>1 DEF ShellInv, Outcomes
<1>18. Said'
  <2>1. at'[1] = "loop" /\ printed' = printed
    BY <1>1, <1>4, <1>5, <1>6
  <2> QED BY <1>7, <1>15, <1>16, <2>1 DEF ShellInv, Said
<1> QED BY <1>1, <1>14, <1>17, <1>18 DEF ShellInv

(* What the shell does after a wait that gave status s, whether of a child  *)
(* or not.                                                                  *)
WaitGave(s) ==
  /\ at[1] = "wait" /\ Reports(1, s) /\ s \in Codes \cup {0}
  /\ at'[1] = Waited(1) /\ fd'[1] = fd[1] /\ outcome' = outcome
  /\ Children(1)' \subseteq Children(1)
  /\ \A q \in Children(1)' :
       at'[q] = at[q] /\ fd'[q] = fd[q] /\ job'[q] = job[q] /\ code'[q] = code[q]
  /\ Cardinality(Children(1)') + 1 <= Len(job[1].cmds) - job[1].k
  /\ (\E p \in Settled' : outcome[p] = s) \/ (Children(1)' = {} /\ DOMAIN outcome = {})
  /\ \A x : Ended(x)' = Ended(x) \/ (x = s /\ Ended(x)' = Ended(x) + 1)

(* What one status adds to what is printed.                                 *)
LEMMA ReportIs ==
  ASSUME ShellTypes, NEW s, Reports(1, s)
  PROVE  LET mute == job[1].mute \/ (Exited(1, s) /\ Cmd(job[1]).argv = <<>>)
         IN /\ printed' = IF Exited(1, s) /\ ~mute
                          THEN Append(printed, <<job[1].k, s>>) ELSE printed
            /\ job'[1].mute = mute
            /\ ~LastWait(1) =>
                 /\ job'[1].words = job[1].words /\ job'[1].cmds = job[1].cmds
                 /\ job'[1].ends = job[1].ends /\ job'[1].k = job[1].k + 1
                 /\ job'[1].status = s
            /\ LastWait(1) => job'[1].status = Unset
<1>1. 1 \in Procs
  BY ShellAssumption
<1>2. PICK m, k : m = (job[1].mute \/ (Exited(1, s) /\ Cmd(job[1]).argv = <<>>))
                  /\ k = job[1].k + 1
  OBVIOUS
<1>3. job' = [job EXCEPT ![1] =
                IF LastWait(1) THEN [NoJob EXCEPT !.mute = m]
                ELSE [job[1] EXCEPT !.k = k, !.mute = m, !.status = s]]
  BY <1>2 DEF Reports
<1>4. job'[1] = IF LastWait(1) THEN [NoJob EXCEPT !.mute = m]
                ELSE [job[1] EXCEPT !.k = k, !.mute = m, !.status = s]
  BY <1>1, <1>3 DEF ShellTypes
<1>5. ASSUME LastWait(1) PROVE job'[1].mute = m /\ job'[1].status = Unset
  BY <1>4, <1>5 DEF NoJob
<1>6. ASSUME ~LastWait(1)
      PROVE  /\ job'[1].words = job[1].words /\ job'[1].cmds = job[1].cmds
             /\ job'[1].ends = job[1].ends /\ job'[1].k = k
             /\ job'[1].status = s /\ job'[1].mute = m
  BY <1>1, <1>4, <1>6 DEF ShellTypes, IsJob, Fields
<1>7. printed' = IF Exited(1, s) /\ ~m THEN Append(printed, <<job[1].k, s>>) ELSE printed
  BY <1>2 DEF Reports
<1> QED BY <1>2, <1>5, <1>6, <1>7

(* A wait that ends leaves one wait and at most one child fewer.            *)
LEMMA ReportsLine ==
  ASSUME ShellInv, NEW s, WaitGave(s)
  PROVE  ShellLine' /\ Outcomes'
<1>1. 1 \in Procs /\ AtWork /\ at[1] = "wait" /\ fd[1] = Ready
  BY ShellAssumption DEF ShellInv, ShellLine, WaitGave, AtWork
<1>2. OfLine(job[1]) /\ Counted
  BY <1>1 DEF ShellInv, ShellLine
<1>3. PICK k, l, n : k = job[1].k /\ l = Len(job[1].cmds) /\ n = Cardinality(Children(1)')
  OBVIOUS
<1>4. /\ k \in Nat /\ l \in Nat /\ k < l /\ n \in Nat /\ n + 1 <= l - k
      /\ n <= 0 => Children(1)' = {}
  <2>1. k \in Nat /\ l \in Nat /\ k < l
    BY <1>1, <1>2, <1>3, LineIs DEF OfLine, Counted
  <2>2. IsFiniteSet(Children(1)')
    BY ChildrenFinite, FS_Subset DEF WaitGave
  <2>3. n \in Nat /\ (n <= 0 => Children(1)' = {})
    BY <1>3, <2>2, FS_CardinalityType, FS_EmptySet
  <2> QED BY <1>3, <2>1, <2>3 DEF WaitGave
<1>5. Outcomes'
  BY DEF WaitGave, ShellInv, Outcomes
<1>6. CASE LastWait(1)
  <2>1. k + 1 = l
    BY <1>3, <1>6 DEF LastWait
  <2>2. Children(1)' = {}
    BY <1>4, <2>1
  <2>3. at'[1] = "prompt" /\ fd'[1] = Ready
    BY <1>1, <1>6 DEF WaitGave, Waited
  <2> QED BY <1>5, <2>2, <2>3 DEF ShellLine, AtWork
<1>7. CASE ~LastWait(1)
  <2>1. k + 1 # l
    BY <1>3, <1>7 DEF LastWait
  <2>2. at'[1] = "wait" /\ fd'[1] = Ready
    BY <1>1, <1>7 DEF WaitGave, Waited
  <2>3. /\ job'[1].words = job[1].words /\ job'[1].cmds = job[1].cmds
        /\ job'[1].ends = job[1].ends /\ job'[1].k = k + 1
    BY <1>3, <1>7, ReportIs DEF WaitGave, ShellInv
  <2>4. OfLine(job[1])'
    BY <1>2, <1>4, <2>3 DEF OfLine, Pipes
  <2>5. Counted'
    <3>1. k + 1 < l /\ n <= l - (k + 1)
      BY <1>4, <2>1
    <3> QED BY <1>3, <2>2, <2>3, <3>1 DEF Counted
  <2>6. PICK T : Family(T)
    BY <1>1 DEF ShellInv, ShellLine
  <2>7. Family(T)'
    <3>1. Piping(T, Pipes(job[1]))'
      BY <2>3, <2>6 DEF Family, Piping, PipeAt, Pipes
    <3>2. ASSUME NEW q \in Children(1)', at'[q] \in {"child", "program"} PROVE Member(T, q)'
      <4>1. q \in Children(1) /\ at'[q] = at[q] /\ fd'[q] = fd[q] /\ job'[q] = job[q]
        BY DEF WaitGave
      <4>2. Member(T, q)
        BY <2>6, <3>2, <4>1 DEF Family
      <4> QED BY <2>3, <4>1, <4>2 DEF Member, Pipes, Cmd
    <3> QED BY <2>2, <3>1, <3>2 DEF Family
  <2> QED BY <1>5, <2>2, <2>4, <2>5, <2>7 DEF ShellLine, AtWork
<1> QED BY <1>6, <1>7

(* A status printed once more occurs once more.                             *)
LEMMA TimesGrow ==
  ASSUME printed \in Seq(Nat \X (Codes \cup {0})), NEW k \in Nat, NEW s \in Codes \cup {0},
         printed' = Append(printed, <<k, s>>)
  PROVE  /\ \A x : x # s => Times(x)' = Times(x)
         /\ Times(s)' = Times(s) + 1
         /\ \A x : Times(x) \in Nat
<1>1. PICK n : n = Len(printed)
  OBVIOUS
<1>2. /\ n \in Nat /\ DOMAIN printed = 1 .. n /\ DOMAIN printed' = 1 .. n + 1
      /\ printed'[n + 1] = <<k, s>> /\ \A i \in 1 .. n : printed'[i] = printed[i]
  BY <1>1
<1>3. ASSUME NEW x
      PROVE  LET A == {i \in DOMAIN printed : printed[i][2] = x}
             IN /\ IsFiniteSet(A) /\ n + 1 \notin A
                /\ {i \in DOMAIN printed' : printed'[i][2] = x} =
                     IF x = s THEN A \cup {n + 1} ELSE A
  <2>1. PICK A, B : /\ A = {i \in DOMAIN printed : printed[i][2] = x}
                    /\ B = {i \in DOMAIN printed' : printed'[i][2] = x}
    OBVIOUS
  <2>2. IsFiniteSet(1 .. n) /\ A \subseteq 1 .. n
    <3>1. 1 \in Int /\ n \in Int
      BY <1>2
    <3> QED BY <1>2, <2>1, <3>1, FS_Interval
  <2>3. IsFiniteSet(A) /\ n + 1 \notin A
    <3>1. n + 1 \notin 1 .. n
      BY <1>2
    <3>2. IsFiniteSet(A)
      BY <2>2, FS_Subset
    <3> QED BY <2>2, <3>1, <3>2
  <2>4. ASSUME NEW i PROVE i \in B <=> i \in A \/ (i = n + 1 /\ x = s)
    <3>1. CASE i \in 1 .. n
      <4>1. i \in 1 .. n + 1 /\ i # n + 1
        BY <1>2, <3>1
      <4> QED BY <1>2, <2>1, <3>1, <4>1
    <3>2. CASE i = n + 1
      <4>1. i \in 1 .. n + 1 /\ printed'[i][2] = s
        BY <1>2, <3>2
      <4> QED BY <1>2, <2>1, <2>3, <3>2, <4>1
    <3>3. CASE i \notin 1 .. n + 1
      BY <1>2, <2>1, <3>3
    <3> QED BY <1>2, <3>1, <3>2, <3>3
  <2>5. B = IF x = s THEN A \cup {n + 1} ELSE A
    BY <2>4
  <2> QED BY <2>1, <2>3, <2>5
<1>4. \A x : Times(x) \in Nat
  BY <1>3, FS_CardinalityType DEF Times
<1>5. \A x : x # s => Times(x)' = Times(x)
  BY <1>3 DEF Times
<1>6. Times(s)' = Times(s) + 1
  <2>1. PICK A : A = {i \in DOMAIN printed : printed[i][2] = s}
    OBVIOUS
  <2>2. IsFiniteSet(A) /\ n + 1 \notin A
        /\ {i \in DOMAIN printed' : printed'[i][2] = s} = A \cup {n + 1}
    BY <1>3, <2>1
  <2>3. Cardinality(A \cup {n + 1}) = Cardinality(A) + 1
    BY <2>2, FS_AddElement
  <2> QED BY <2>1, <2>2, <2>3 DEF Times
<1> QED BY <1>4, <1>5, <1>6

(* What is printed keeps up with the children that are settled.             *)
LEMMA ReportsSaid ==
  ASSUME ShellInv, NEW s, WaitGave(s)
  PROVE  Said'
<1>1. 1 \in Procs /\ AtWork /\ at[1] = "wait" /\ s \in Codes \cup {0} /\ s # Unset
  BY ShellAssumption DEF WaitGave, AtWork
<1>2. PICK m, k : /\ m = (job[1].mute \/ (Exited(1, s) /\ Cmd(job[1]).argv = <<>>))
                  /\ k = job[1].k
  OBVIOUS
<1>3. /\ printed' = IF Exited(1, s) /\ ~m THEN Append(printed, <<k, s>>) ELSE printed
      /\ job'[1].mute = m /\ (~LastWait(1) => job'[1].status = s)
      /\ (LastWait(1) => job'[1].status = Unset)
  BY <1>2, ReportIs DEF WaitGave, ShellInv
<1>4. k \in Nat /\ m \in BOOLEAN /\ printed \in Seq(Nat \X (Codes \cup {0}))
  <2>1. job[1].mute \in BOOLEAN /\ printed \in Seq(Nat \X (Codes \cup {0}))
    BY DEF ShellInv, Said
  <2>2. OfLine(job[1])
    BY <1>1 DEF ShellInv, ShellLine
  <2> QED BY <1>2, <2>1, <2>2 DEF OfLine
<1>5. printed' \in Seq(Nat \X (Codes \cup {0}))
  <2>1. <<k, s>> \in Nat \X (Codes \cup {0})
    BY <1>1, <1>4
  <2> QED BY <1>3, <1>4, <2>1
<1>6. outcome' = outcome /\ Settled \subseteq Settled'
  BY DEF WaitGave, Settled
<1>7. \A x : Told(x) => Told(x)'
  <2>1. Children(1) = {} => Children(1)' = {}
    BY DEF WaitGave
  <2> QED BY <1>6, <2>1 DEF Told
<1>8. Told(s)'
  BY <1>6 DEF WaitGave, Told
<1>9. \A i \in DOMAIN printed' : Told(printed[i][2])'
  <2>1. \A i \in DOMAIN printed : Told(printed[i][2])
    BY <1>1 DEF ShellInv, Said
  <2>2. ASSUME NEW i \in DOMAIN printed'
        PROVE  \E x : x = printed'[i][2] /\ Told(x)'
    <3>1. CASE printed' = printed
      BY <1>7, <2>1, <3>1
    <3>2. CASE printed' = Append(printed, <<k, s>>)
      <4>1. PICK n : n = Len(printed)
        OBVIOUS
      <4>2. /\ n \in Nat /\ DOMAIN printed = 1 .. n /\ DOMAIN printed' = 1 .. n + 1
            /\ printed'[n + 1] = <<k, s>> /\ \A h \in 1 .. n : printed'[h] = printed[h]
        BY <1>4, <3>2, <4>1
      <4>3. CASE i = n + 1
        BY <1>8, <4>2, <4>3
      <4>4. CASE i # n + 1
        <5>1. i \in 1 .. n
          BY <4>2, <4>4
        <5>2. printed'[i] = printed[i] /\ Told(printed[i][2])
          BY <2>1, <4>2, <5>1
        <5> QED BY <1>7, <5>2
      <4> QED BY <4>3, <4>4
    <3> QED BY <1>3, <3>1, <3>2
  <2> QED BY <2>2 DEF Told
<1>10. ASSUME ~m, NEW x \in Codes \ {Signalled} PROVE Times(x)' >= Ended(x)'
  <2>1. ~job[1].mute
    BY <1>2, <1>10
  <2>2. Times(x) >= Ended(x)
    BY <1>1, <2>1 DEF ShellInv, Said
  <2>3. Ended(x) \in Nat
    <3>1. IsFiniteSet({q \in Settled : outcome[q] = x})
      BY ShellAssumption, FS_Subset DEF Settled, ShellInv, Outcomes
    <3> QED BY <3>1, FS_CardinalityType DEF Ended
  <2>4. Ended(x)' = Ended(x) \/ (x = s /\ Ended(x)' = Ended(x) + 1)
    BY DEF WaitGave
  <2>5. CASE Exited(1, s)
    <3>1. printed' = Append(printed, <<k, s>>)
      BY <1>3, <1>10, <2>5
    <3>2. Times(x) \in Nat /\ (x # s => Times(x)' = Times(x)) /\ Times(s)' = Times(s) + 1
      BY <1>1, <1>4, <3>1, TimesGrow
    <3> QED BY <2>2, <2>3, <2>4, <3>2
  <2>6. CASE ~Exited(1, s)
    <3>1. printed' = printed /\ x # s
      BY <1>3, <2>6 DEF Exited
    <3>2. Times(x)' = Times(x)
      BY <3>1 DEF Times
    <3> QED BY <2>2, <2>4, <3>1, <3>2
  <2> QED BY <2>5, <2>6
<1>11. at'[1] = (IF LastWait(1) THEN "prompt" ELSE "wait")
  BY DEF WaitGave, Waited
<1>12. job'[1].status \in Codes \cup {0, Unset}
  BY <1>1, <1>3
<1>13. AtWork' /\ job'[1].status = Unset => FALSE
  BY <1>1, <1>3, <1>11 DEF AtWork
<1>14. at'[1] = "wait" => job'[1].status = s
  BY <1>3, <1>11
<1> QED BY <1>3, <1>4, <1>5, <1>8, <1>9, <1>10, <1>11, <1>12, <1>13, <1>14 DEF Said

(* A wait that takes a dead child.                                          *)
LEMMA WaitsKeep == ShellInv /\ Wait(1) => ShellInv'
<1> SUFFICES ASSUME ShellInv, Wait(1) PROVE ShellInv'
  OBVIOUS
<1>1. 1 \in Procs /\ ShellTypes' /\ at[1] = "wait" /\ parent[1] = 0 /\ AtWork
  BY ShellAssumption, TypesKept DEF Wait, Turn, ShellInv, ShellTypes, AtWork
<1>2. PICK c \in Children(1) :
        /\ at[c] = "zombie" /\ Reports(1, code[c])
        /\ at' = [at EXCEPT ![c] = "unused", ![1] = Waited(1)]
        /\ parent' = [parent EXCEPT ![c] = 0]
        /\ code' = [code EXCEPT ![c] = 0]
  BY DEF Wait
<1>3. PICK s : s = code[c]
  OBVIOUS
<1>4. /\ c \in Procs /\ c # 1 /\ parent[c] = 1 /\ fd' = fd /\ outcome' = outcome
  BY <1>1, <1>2 DEF Wait, Children
<1>5. c \in DOMAIN outcome /\ outcome[c] = s /\ s \in Codes \cup {0}
  BY <1>2, <1>3 DEF ShellInv, Outcomes
<1>6. /\ at'[1] = Waited(1) /\ parent'[c] = 0
      /\ \A q \in Procs : q \notin {c, 1} =>
           at'[q] = at[q] /\ job'[q] = job[q] /\ code'[q] = code[q]
      /\ \A q \in Procs : q # c => parent'[q] = parent[q]
  BY <1>1, <1>2, <1>4 DEF Reports, ShellInv, ShellTypes
<1>7. Children(1)' = Children(1) \ {c} /\ 1 \notin Children(1)
  BY <1>1, <1>4, <1>6 DEF Children
<1>8. Settled' = Settled \cup {c} /\ c \notin Settled
  BY <1>2, <1>4, <1>5, <1>7 DEF Settled
<1>9. ASSUME NEW x PROVE Ended(x)' = Ended(x) \/ (x = s /\ Ended(x)' = Ended(x) + 1)
  <2>1. PICK A, B : /\ A = {q \in Settled : outcome[q] = x}
                    /\ B = {q \in Settled' : outcome'[q] = x}
    OBVIOUS
  <2>2. IsFiniteSet(A) /\ c \notin A
    BY <1>8, <2>1, ShellAssumption, FS_Subset DEF Settled, ShellInv, Outcomes
  <2>3. B = IF x = s THEN A \cup {c} ELSE A
    BY <1>4, <1>5, <1>8, <2>1
  <2>4. Cardinality(A \cup {c}) = Cardinality(A) + 1
    BY <2>2, FS_AddElement
  <2> QED BY <2>1, <2>3, <2>4 DEF Ended
<1>10. Cardinality(Children(1)') + 1 <= Len(job[1].cmds) - job[1].k
  <2>1. Cardinality(Children(1)') = Cardinality(Children(1)) - 1
    BY <1>2, <1>7, ChildrenFinite, FS_RemoveElement
  <2>2. Cardinality(Children(1)) <= Len(job[1].cmds) - job[1].k
    BY <1>1 DEF ShellInv, ShellLine, Counted
  <2> QED BY <2>1, <2>2, ChildrenFinite
<1>11. WaitGave(s)
  <2>1. \A q \in Children(1)' :
          at'[q] = at[q] /\ fd'[q] = fd[q] /\ job'[q] = job[q] /\ code'[q] = code[q]
    BY <1>4, <1>6, <1>7 DEF Children
  <2>2. \E q \in Settled' : outcome[q] = s
    BY <1>5, <1>8
  <2> QED BY <1>1, <1>2, <1>3, <1>4, <1>5, <1>6, <1>7, <1>9, <1>10, <2>1, <2>2 DEF WaitGave
<1> QED BY <1>1, <1>11, ReportsLine, ReportsSaid DEF ShellInv

(* A wait without a child repeats the status before.                        *)
LEMMA WaitFailsKeeps == ShellInv /\ WaitFails(1) => ShellInv'
<1> SUFFICES ASSUME ShellInv, WaitFails(1) PROVE ShellInv'
  OBVIOUS
<1>1. 1 \in Procs /\ ShellTypes' /\ at[1] = "wait" /\ AtWork /\ Children(1) = {}
  BY ShellAssumption, TypesKept DEF WaitFails, Turn, ShellInv, AtWork
<1>2. PICK s \in IF job[1].status = Unset THEN Codes ELSE {job[1].status} : Reports(1, s)
  BY DEF WaitFails
<1>3. /\ at' = [at EXCEPT ![1] = Waited(1)] /\ parent' = parent /\ fd' = fd /\ code' = code
      /\ outcome' = outcome
  BY DEF WaitFails
<1>4. Children(1)' = {} /\ Settled' = Settled /\ Settled = DOMAIN outcome
  BY <1>1, <1>3 DEF Children, Settled
<1>5. s \in Codes \cup {0}
  BY <1>2 DEF ShellInv, Said
<1>6. (\E q \in Settled' : outcome[q] = s) \/ (Children(1)' = {} /\ DOMAIN outcome = {})
  <2>1. CASE job[1].status = Unset
    BY <1>1, <1>4, <2>1 DEF ShellInv, Said
  <2>2. CASE job[1].status # Unset
    <3>1. Told(s)
      BY <1>1, <1>2, <2>2 DEF ShellInv, Said
    <3> QED BY <1>4, <3>1 DEF Told
  <2> QED BY <2>1, <2>2
<1>7. \A x : Ended(x)' = Ended(x)
  BY <1>3, <1>4 DEF Ended
<1>8. Cardinality(Children(1)') + 1 <= Len(job[1].cmds) - job[1].k
  <2>1. OfLine(job[1]) /\ Counted
    BY <1>1 DEF ShellInv, ShellLine
  <2>2. job[1].k \in Nat /\ Len(job[1].cmds) \in Nat /\ job[1].k < Len(job[1].cmds)
    BY <1>1, <2>1, LineIs DEF OfLine, Counted
  <2>3. Cardinality(Children(1)') = 0
    BY <1>4, FS_EmptySet
  <2> QED BY <2>2, <2>3
<1>9. at'[1] = Waited(1)
  BY <1>1, <1>3 DEF ShellInv, ShellTypes
<1>10. WaitGave(s)
  BY <1>1, <1>2, <1>3, <1>4, <1>5, <1>6, <1>7, <1>8, <1>9 DEF WaitGave
<1> QED BY <1>1, <1>10, ReportsLine, ReportsSaid DEF ShellInv

(* Every step keeps the invariant.                                          *)
LEMMA ShellKeeps == ShellInv /\ [ShellNext]_shellVars => ShellInv'
<1> SUFFICES ASSUME ShellInv, [ShellNext]_shellVars PROVE ShellInv'
  OBVIOUS
<1>1. ASSUME NEW p \in Procs, Turn(p), p # 1 PROVE ShellInv'
  BY <1>1, OthersKeep
<1>2. ASSUME Turn(1) PROVE ShellInv'
  <2>1. ~Start(1) /\ ~Ends(1)
    BY DEF ShellInv, ShellTypes, Start, Ends
  <2>2. CASE ReadLine(1)
    BY <2>2, ReadsKeep
  <2>3. CASE BlankLine(1)
    BY <2>3, Restarts DEF BlankLine, AtWork
  <2>4. CASE Leaves(1)
    BY <2>4, Restarts DEF Leaves, AtWork
  <2>5. CASE SkipCommand(1)
    BY <2>5, SkipsKeep
  <2>6. CASE Fork(1)
    BY <2>6, ForksKeep
  <2>7. CASE CloseAll(1)
    BY <2>7, ClosesKeep
  <2>8. CASE Wait(1)
    BY <2>8, WaitsKeep
  <2>9. CASE WaitFails(1)
    BY <2>9, WaitFailsKeeps
  <2> QED BY <1>2, <2>1, <2>2, <2>3, <2>4, <2>5, <2>6, <2>7, <2>8, <2>9 DEF Turn
<1>3. CASE UNCHANGED shellVars
  <2>1. /\ at' = at /\ parent' = parent /\ fd' = fd /\ job' = job /\ code' = code
        /\ outcome' = outcome /\ printed' = printed
    BY <1>3 DEF shellVars
  <2>2. Children(1)' = Children(1) /\ (AtWork' <=> AtWork) /\ Settled' = Settled
    BY <2>1 DEF Children, AtWork, Settled
  <2>3. ShellTypes'
    BY <2>1 DEF ShellInv, ShellTypes
  <2>4. Outcomes'
    BY <2>1, <2>2 DEF ShellInv, Outcomes
  <2>5. \A T : Family(T) => Family(T)'
    BY <2>1, <2>2 DEF Family, Member
  <2>6. ShellLine'
    BY <2>1, <2>2, <2>5 DEF ShellInv, ShellLine, Counted
  <2>7. \A s : Told(s)' = Told(s) /\ Times(s)' = Times(s) /\ Ended(s)' = Ended(s)
    BY <2>1, <2>2 DEF Told, Times, Ended
  <2>8. Said'
    BY <2>1, <2>2, <2>7 DEF ShellInv, Said
  <2> QED BY <2>3, <2>4, <2>6, <2>8 DEF ShellInv
<1> QED BY <1>1, <1>2, <1>3 DEF ShellNext

(* Whatever is typed and however programs end, the programs of a line run   *)
(* as they were typed and the prompt comes back with every child waited     *)
(* for, every descriptor of a pipe closed and every exit status printed     *)
(* (shell/main.cc:184-265).                                                 *)
THEOREM ShellIsSound == ShellSpec => []ShellSound
<1>1. ShellSpec => []ShellInv
  BY InvStarts, ShellKeeps, PTL DEF ShellSpec
<1> QED BY <1>1, SoundFollows, PTL
=============================================================================
