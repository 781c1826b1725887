----------------------------- MODULE ThreadPool -----------------------------
(***************************************************************************)
(* The thread pool of pool/pool.cc at the granularity of its three mutexes *)
(* and one condition variable per task name.  Each action is the code      *)
(* between two points where another thread can get in: the acquisition of  *)
(* a mutex, or the critical section up to its release.                     *)
(*                                                                         *)
(* Two kinds of thread call SubmitTask and WaitForTask: the client threads *)
(* that own the pool, and the workers themselves while they are inside the *)
(* Run() of a task that uses the pool (pool-test.cc:48-75).                *)
(***************************************************************************)
EXTENDS Naturals, Integers, Sequences, FiniteSets

CONSTANTS
  Workers,         \* threads created by the constructor
  Clients,         \* other threads that use the pool
  Tasks,           \* Task objects
  Names,           \* std::string task names
  NameOf,          \* the name each task is submitted under
  SubmittingTasks, \* tasks whose Run() may call SubmitTask
  WaitingTasks,    \* tasks whose Run() may call WaitForTask
  NoThread,        \* the owner of a free mutex
  NoTask           \* nullptr

Threads == Workers \cup Clients

ASSUME ThreadsAssumption ==
  /\ Workers \cap Clients = {}
  /\ NoThread \notin Workers \cup Clients
  /\ IsFiniteSet(Workers)
ASSUME TasksAssumption ==
  /\ NoTask \notin Tasks
  /\ NameOf \in [Tasks -> Names]
  /\ SubmittingTasks \subseteq Tasks
  /\ WaitingTasks \subseteq Tasks

VARIABLES
  pc,           \* where each thread is
  cur,          \* current_task of each worker
  arg,          \* the task a call to SubmitTask or WaitForTask is about
  task_queue,   \* std::queue<Task*>
  status,       \* taskname_to_status; taskname_to_condvar has the same keys
  stopCalled,
  queue_lock, map_lock, stop_lock,   \* the owner of each mutex
  destroyed,    \* Stop() has freed the threads and destroyed the mutexes
  submitted,    \* tasks for which SubmitTask was called
  requested,    \* tasks for which WaitForTask was called
  ended,        \* tasks whose Run() has returned
  collected     \* tasks whose WaitForTask has taken its entry out

locks  == <<queue_lock, map_lock, stop_lock>>
client == <<submitted, requested>>
vars   == <<pc, cur, arg, task_queue, status, stopCalled, locks, destroyed,
            client, ended, collected>>

Absent == -1     \* no entry under this name in the maps
Pending == 0
Ran == 1

Home(th) == IF th \in Workers THEN "run" ELSE "idle"

Goto(th, place) == pc' = [pc EXCEPT ![th] = place]

Init ==
  /\ pc = [th \in Threads |-> IF th \in Workers THEN "check" ELSE "idle"]
  /\ cur = [w \in Workers |-> NoTask]
  /\ arg = [th \in Threads |-> NoTask]
  /\ task_queue = <<>>
  /\ status = [n \in Names |-> Absent]
  /\ stopCalled = FALSE
  /\ queue_lock = NoThread /\ map_lock = NoThread /\ stop_lock = NoThread
  /\ destroyed = FALSE
  /\ submitted = {} /\ requested = {} /\ ended = {} /\ collected = {}

-----------------------------------------------------------------------------
(* run_task: the loop of a worker.                                         *)

CheckLock(w) ==
  /\ pc[w] = "check"
  /\ stop_lock = NoThread
  /\ stop_lock' = w
  /\ Goto(w, "check_read")
  /\ UNCHANGED <<cur, arg, task_queue, status, stopCalled, queue_lock,
                 map_lock, destroyed, client, ended, collected>>

CheckStop(w) ==
  /\ pc[w] = "check_read"
  /\ stop_lock' = NoThread
  /\ Goto(w, IF stopCalled THEN "exit" ELSE "pop_lock")
  /\ UNCHANGED <<cur, arg, task_queue, status, stopCalled, queue_lock,
                 map_lock, destroyed, client, ended, collected>>

PopLock(w) ==
  /\ pc[w] = "pop_lock"
  /\ queue_lock = NoThread
  /\ queue_lock' = w
  /\ Goto(w, "pop")
  /\ UNCHANGED <<cur, arg, task_queue, status, stopCalled, map_lock,
                 stop_lock, destroyed, client, ended, collected>>

\* Mutant: the newest task is taken.
PopNewest(w) ==
  /\ pc[w] = "pop"
  /\ task_queue # <<>>
  /\ cur' = [cur EXCEPT ![w] = task_queue[Len(task_queue)]]
  /\ task_queue' = SubSeq(task_queue, 1, Len(task_queue) - 1)
  /\ queue_lock' = NoThread
  /\ Goto(w, "run")
  /\ UNCHANGED <<arg, status, stopCalled, map_lock, stop_lock, destroyed,
                 client, ended, collected>>

PopTask(w) ==
  /\ pc[w] = "pop"
  /\ task_queue # <<>>
  /\ cur' = [cur EXCEPT ![w] = Head(task_queue)]
  /\ task_queue' = Tail(task_queue)
  /\ queue_lock' = NoThread
  /\ Goto(w, "run")
  /\ UNCHANGED <<arg, status, stopCalled, map_lock, stop_lock, destroyed,
                 client, ended, collected>>

LeavePop(w, place) ==
  /\ pc[w] = "pop"
  /\ task_queue = <<>>
  /\ queue_lock' = NoThread
  /\ Goto(w, place)
  /\ UNCHANGED <<cur, arg, task_queue, status, stopCalled, map_lock,
                 stop_lock, destroyed, client, ended, collected>>

\* Mutant: current_task is not tested.
PopNull(w) == LeavePop(w, "run")

PopNothing(w) == LeavePop(w, "check")

\* Run() returns: its name is copied out and the Task is deleted.
RunReturn(w) ==
  /\ w \in Workers
  /\ pc[w] = "run"
  /\ ended' = ended \cup {cur[w]}
  /\ Goto(w, "report_lock")
  /\ UNCHANGED <<cur, arg, task_queue, status, stopCalled, locks, destroyed,
                 client, collected>>

ReportLock(w) ==
  /\ pc[w] = "report_lock"
  /\ map_lock = NoThread
  /\ map_lock' = w
  /\ Goto(w, "report")
  /\ UNCHANGED <<cur, arg, task_queue, status, stopCalled, queue_lock,
                 stop_lock, destroyed, client, ended, collected>>

Sleepers(n) == {th \in Threads : pc[th] = "sleep" /\ NameOf[arg[th]] = n}

\* Mutant: no signal.
ReportQuietly(w) ==
  /\ pc[w] = "report"
  /\ status' = [status EXCEPT ![NameOf[cur[w]]] = Ran]
  /\ Goto(w, "check")
  /\ cur' = [cur EXCEPT ![w] = NoTask]
  /\ map_lock' = NoThread
  /\ UNCHANGED <<arg, task_queue, stopCalled, queue_lock, stop_lock,
                 destroyed, client, ended, collected>>

\* operator[] makes an entry if there is none; the signal wakes at most one
\* thread, and no thread if none is asleep on that name.
Report(w) ==
  LET n == NameOf[cur[w]] IN
  /\ pc[w] = "report"
  /\ status' = [status EXCEPT ![n] = Ran]
  /\ \/ /\ Sleepers(n) = {}
        /\ Goto(w, "check")
     \/ \E th \in Sleepers(n) :
          pc' = [pc EXCEPT ![w] = "check", ![th] = "wait_lock"]
  /\ cur' = [cur EXCEPT ![w] = NoTask]
  /\ map_lock' = NoThread
  /\ UNCHANGED <<arg, task_queue, stopCalled, queue_lock, stop_lock,
                 destroyed, client, ended, collected>>

-----------------------------------------------------------------------------
(* The contract of pool.h:41-49: a name is not submitted again while its   *)
(* last use is outstanding, each task is waited for at most once and only  *)
(* after its submission returned, and Stop comes last.                     *)

Outstanding == submitted \ collected

StopBegun == \E c \in Clients :
               pc[c] \in {"stop", "stop_set", "join", "stopped"}

MayCall(th, nesting) ==
  /\ pc[th] = Home(th)
  /\ th \in Workers => cur[th] \in nesting

MaySubmit(th, t) ==
  /\ MayCall(th, SubmittingTasks)
  /\ t \notin submitted
  /\ \A u \in Outstanding : NameOf[u] # NameOf[t]
  /\ ~StopBegun

InSubmit(t) == \E th \in Threads :
                 arg[th] = t /\ pc[th] \in {"submit", "insert_lock", "insert",
                                            "submit_unlock"}

MayWait(th, t) ==
  /\ MayCall(th, WaitingTasks)
  /\ t \in Outstanding \ requested
  /\ ~InSubmit(t)
  /\ th \in Workers => t \notin WaitingTasks  \* Run() never waits in a circle
  /\ ~StopBegun

MayStop(c) ==
  /\ pc[c] = "idle"
  /\ ~StopBegun
  /\ \A th \in Clients : pc[th] = "idle"

-----------------------------------------------------------------------------
(* SubmitTask: map_lock is taken inside queue_lock.                        *)

SubmitTask(th, t) ==
  /\ MaySubmit(th, t)
  /\ submitted' = submitted \cup {t}
  /\ arg' = [arg EXCEPT ![th] = t]
  /\ Goto(th, "submit")
  /\ UNCHANGED <<cur, task_queue, status, stopCalled, locks, destroyed,
                 requested, ended, collected>>

PushThen(th, owner) ==
  /\ pc[th] = "submit"
  /\ queue_lock = NoThread
  /\ queue_lock' = owner
  /\ task_queue' = Append(task_queue, arg[th])
  /\ Goto(th, "insert_lock")
  /\ UNCHANGED <<cur, arg, status, stopCalled, map_lock, stop_lock, destroyed,
                 client, ended, collected>>

\* Mutant: queue_lock is released before the entry is inserted.
PushAndUnlock(th) == PushThen(th, NoThread)

Enqueue(th) == PushThen(th, th)

InsertLock(th) ==
  /\ pc[th] = "insert_lock"
  /\ map_lock = NoThread
  /\ map_lock' = th
  /\ Goto(th, "insert")
  /\ UNCHANGED <<cur, arg, task_queue, status, stopCalled, queue_lock,
                 stop_lock, destroyed, client, ended, collected>>

\* std::map::insert leaves an entry that is already there alone.
Insert(th) ==
  /\ pc[th] = "insert"
  /\ status' = [status EXCEPT ![NameOf[arg[th]]] =
                  IF @ = Absent THEN Pending ELSE @]
  /\ map_lock' = NoThread
  /\ Goto(th, "submit_unlock")
  /\ UNCHANGED <<cur, arg, task_queue, stopCalled, queue_lock, stop_lock,
                 destroyed, client, ended, collected>>

SubmitReturn(th) ==
  /\ pc[th] = "submit_unlock"
  /\ queue_lock' = NoThread
  /\ arg' = [arg EXCEPT ![th] = NoTask]
  /\ Goto(th, Home(th))
  /\ UNCHANGED <<cur, task_queue, status, stopCalled, map_lock, stop_lock,
                 destroyed, client, ended, collected>>

-----------------------------------------------------------------------------
(* WaitForTask.                                                            *)

WaitForTask(th, t) ==
  /\ MayWait(th, t)
  /\ requested' = requested \cup {t}
  /\ arg' = [arg EXCEPT ![th] = t]
  /\ Goto(th, "wait_lock")
  /\ UNCHANGED <<cur, task_queue, status, stopCalled, locks, destroyed,
                 submitted, ended, collected>>

\* Entering WaitForTask, and also getting map_lock back in pthread_cond_wait.
WaitLock(th) ==
  /\ pc[th] = "wait_lock"
  /\ map_lock = NoThread
  /\ map_lock' = th
  /\ Goto(th, "wait_test")
  /\ UNCHANGED <<cur, arg, task_queue, status, stopCalled, queue_lock,
                 stop_lock, destroyed, client, ended, collected>>

CondWait(th) ==
  /\ pc[th] = "wait_test"
  /\ status[NameOf[arg[th]]] = Pending
  /\ map_lock' = NoThread
  /\ Goto(th, "sleep")
  /\ UNCHANGED <<cur, arg, task_queue, status, stopCalled, queue_lock,
                 stop_lock, destroyed, client, ended, collected>>

\* POSIX lets pthread_cond_wait return without a signal.
SpuriousWakeup(th) ==
  /\ pc[th] = "sleep"
  /\ Goto(th, "wait_lock")
  /\ UNCHANGED <<cur, arg, task_queue, status, stopCalled, locks, destroyed,
                 client, ended, collected>>

\* Both entries are erased.  at() would throw if there were none.
Collect(th, tested) ==
  LET n == NameOf[arg[th]] IN
  /\ pc[th] = "wait_test"
  /\ status[n] \in tested
  /\ status' = [status EXCEPT ![n] = Absent]
  /\ collected' = collected \cup {arg[th]}
  /\ arg' = [arg EXCEPT ![th] = NoTask]
  /\ map_lock' = NoThread
  /\ Goto(th, Home(th))
  /\ UNCHANGED <<cur, task_queue, stopCalled, queue_lock, stop_lock,
                 destroyed, client, ended>>

\* Mutant: the loop does not test the status.
CollectAny(th) == Collect(th, {Pending, Ran})

WaitReturn(th) == Collect(th, {Ran})

-----------------------------------------------------------------------------
(* Stop.                                                                   *)

Stop(c) ==
  /\ MayStop(c)
  /\ Goto(c, "stop")
  /\ UNCHANGED <<cur, arg, task_queue, status, stopCalled, locks, destroyed,
                 client, ended, collected>>

StopLock(c) ==
  /\ pc[c] = "stop"
  /\ stop_lock = NoThread
  /\ stop_lock' = c
  /\ Goto(c, "stop_set")
  /\ UNCHANGED <<cur, arg, task_queue, status, stopCalled, queue_lock,
                 map_lock, destroyed, client, ended, collected>>

RaiseFlag(c, owner) ==
  /\ pc[c] = "stop_set"
  /\ stopCalled' = TRUE
  /\ stop_lock' = owner
  /\ Goto(c, "join")
  /\ UNCHANGED <<cur, arg, task_queue, status, queue_lock, map_lock,
                 destroyed, client, ended, collected>>

\* Mutant: stop_lock is not released.
RaiseLocked(c) == RaiseFlag(c, c)

SetStop(c) == RaiseFlag(c, NoThread)

JoinWhen(c, over) ==
  /\ pc[c] = "join"
  /\ over
  /\ destroyed' = TRUE
  /\ Goto(c, "stopped")
  /\ UNCHANGED <<cur, arg, task_queue, status, stopCalled, locks, client,
                 ended, collected>>

\* Mutant: only one thread is joined.
JoinOne(c) == JoinWhen(c, \E w \in Workers : pc[w] = "exit")

\* The loop over pthread_join, then free and pthread_mutex_destroy.
Join(c) == JoinWhen(c, \A w \in Workers : pc[w] = "exit")

-----------------------------------------------------------------------------
WorkerStep(w) == \/ CheckLock(w) \/ CheckStop(w)
                 \/ PopLock(w) \/ PopTask(w) \/ PopNothing(w)
                 \/ RunReturn(w) \/ ReportLock(w) \/ Report(w)

CallStep(th) == \/ Enqueue(th) \/ InsertLock(th) \/ Insert(th)
                \/ SubmitReturn(th)
                \/ WaitLock(th) \/ CondWait(th) \/ WaitReturn(th)

StopStep(c) == StopLock(c) \/ SetStop(c) \/ Join(c)

NewCall == \/ \E th \in Threads, t \in Tasks :
                SubmitTask(th, t) \/ WaitForTask(th, t)
           \/ \E c \in Clients : Stop(c)

Step(th) == \/ th \in Workers /\ WorkerStep(th)
            \/ CallStep(th)
            \/ th \in Clients /\ StopStep(th)

Next == \/ \E th \in Threads : Step(th) \/ SpuriousWakeup(th)
        \/ NewCall

Spec == Init /\ [][Next]_vars

\* Every thread runs, and a mutex that is released again and again is
\* sometimes acquired by each thread that keeps asking for it.  A thread is
\* sequential: one strong fairness condition on its steps says as much as one
\* for each of them.
Fairness == \A th \in Threads : SF_vars(Step(th))

FairSpec == Spec /\ Fairness

-----------------------------------------------------------------------------
Places == {"check", "check_read", "pop_lock", "pop", "run", "report_lock",
           "report", "exit", "idle", "submit", "insert_lock", "insert",
           "submit_unlock", "wait_lock", "wait_test", "sleep", "stop",
           "stop_set", "join", "stopped"}

\* Every variable has its type: what run_task, SubmitTask, WaitForTask and
\* Stop leave in the pool's fields and in the threads' locals.
TypeOK ==
  /\ pc \in [Threads -> Places]
  /\ cur \in [Workers -> Tasks \cup {NoTask}]
  /\ arg \in [Threads -> Tasks \cup {NoTask}]
  /\ task_queue \in Seq(Tasks)
  /\ status \in [Names -> {Absent, Pending, Ran}]
  /\ stopCalled \in BOOLEAN /\ destroyed \in BOOLEAN
  /\ {queue_lock, map_lock, stop_lock} \subseteq Threads \cup {NoThread}
  /\ submitted \subseteq Tasks /\ requested \subseteq Tasks
  /\ ended \subseteq Tasks /\ collected \subseteq Tasks

\* What a worker or a caller reads in taskname_to_status (pool.cc:54, 122) is
\* the state of the task that was last submitted under that name: Ran exactly
\* once its worker has reported it, Absent exactly until SubmitTask has
\* inserted it.  So at() never throws and operator[] never makes an entry,
\* although a worker may pop the task before SubmitTask returns.
StatusTellsTruth ==
  \A t \in Outstanding :
    LET s == status[NameOf[t]] IN
    /\ s = Ran <=> t \in ended /\ \A w \in Workers : cur[w] # t
    /\ s = Absent <=> \E th \in Threads :
                        arg[th] = t /\ pc[th] \in {"submit", "insert_lock",
                                                  "insert"}

\* WaitForTask only returns after the task is completed (pool.h:42).
WaitAfterRun == collected \subseteq ended

\* Stop lets a running task finish first (pool.cc:15): once it has destroyed
\* the mutexes no worker is in its loop, no thread owns a mutex, and every
\* task that was started has ended and been reported.
StopQuiesces ==
  destroyed =>
    /\ \A w \in Workers : pc[w] = "exit" /\ cur[w] = NoTask
    /\ queue_lock = NoThread /\ map_lock = NoThread /\ stop_lock = NoThread
    /\ Outstanding \ ended \subseteq {task_queue[i] : i \in DOMAIN task_queue}

\* The pool implements TaskPool: first in first out, each task started once
\* by one worker and ended once, each wait after the end (pool.h:39-49).
Abstract == INSTANCE TaskPool WITH
  MaxRunning <- Cardinality(Workers),
  queue      <- task_queue,
  running    <- {cur[w] : w \in Workers} \ {NoTask},
  ended      <- {t \in ended \ collected : \A w \in Workers : cur[w] # t}

ImplementsTaskPool == Abstract!Spec

\* Every WaitForTask returns, however the threads contend for the mutexes and
\* although the workers spin on them, unless somebody stops the pool before.
WaitReturns == \A t \in Tasks : t \in requested ~> t \in collected \/ StopBegun

\* Stop returns when no task is outstanding: each worker sees the flag and
\* leaves its loop.  (A task that waits for one that is still queued keeps
\* its worker, and with it a Stop that came too early.)
StopReturns ==
  \A c \in Clients : pc[c] = "stop" /\ Outstanding = {} ~> pc[c] = "stopped"

\* A task's status is what the pool says it is, in the types of its fields.
StatusSound == TypeOK /\ StatusTellsTruth

\* Calls of WaitForTask and of Stop end (pool.h:42-49).
CallsReturn == WaitReturns /\ StopReturns
=============================================================================
