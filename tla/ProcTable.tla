----------------------------- MODULE ProcTable ------------------------------
(***************************************************************************)
(* The process table of xv6_work/proc.c: fork, exit, wait, kill, sleep on  *)
(* the clock, preemption and the lottery scheduler of each CPU.  What is   *)
(* done under ptable.lock without giving it up is one action; everything   *)
(* else is as many actions as there are places where another CPU can get   *)
(* in.  Files and page tables are left out, times_scheduled only counts    *)
(* and is left out too.                                                    *)
(***************************************************************************)
EXTENDS Integers, FiniteSets, FiniteSetsExt

CONSTANTS
  NPROC,          \* size of the table; slot 1 holds initproc
  CPUs,
  Syscalls,       \* bound: of fork, exit, wait and sleep, the calls made
  TicketChoices,  \* arguments of settickets
  KillPids,       \* arguments of kill
  MaxPid,         \* bound: later forks fail as if the table were full
  MaxTicks        \* bound: ticks stays there, interrupts go on

Slots == 1 .. NPROC
None == 0         \* no process, no slot, a free lock
Init1 == 1        \* initproc
TicksChan == NPROC + 1   \* &ticks; the other channels are struct procs
Timer == NPROC + 1       \* the clock interrupt, as the owner of tickslock

ASSUME NprocAssumption == NPROC \in Nat \ {0}
ASSUME PidAssumption == MaxPid \in Nat \ {0} /\ MaxTicks \in Nat
ASSUME ChoicesAssumption == /\ TicketChoices \subseteq Nat
                            /\ KillPids \subseteq Nat
                            /\ Syscalls \subseteq {"fork", "exit", "wait", "sleep"}

VARIABLES
  state, pid, parent, chan, killed, tickets,   \* fields of struct proc
  kstack,     \* slots that own a kernel stack
  at,         \* where the process's kernel thread is
  np,         \* the slot fork() is filling
  until,      \* the tick at which sys_sleep may return
  cpuproc,    \* c->proc of each CPU
  nextpid, ticks, tickslock,
  panicked

table == <<state, pid, parent, chan, killed, tickets, kstack>>
locals == <<at, np, until>>
clock == <<ticks, tickslock>>
vars == <<table, locals, cpuproc, nextpid, clock, panicked>>

Running(p) == state[p] = "RUNNING"
Live(p) == state[p] # "UNUSED"

Go(p, place) == at' = [at EXCEPT ![p] = place]

\* userinit: the first process has pid 1 and 10 tickets, here any choice.
Init ==
  /\ state = [p \in Slots |-> IF p = Init1 THEN "RUNNABLE" ELSE "UNUSED"]
  /\ pid = [p \in Slots |-> IF p = Init1 THEN 1 ELSE 0]
  /\ parent = [p \in Slots |-> None]
  /\ chan = [p \in Slots |-> None]
  /\ killed = [p \in Slots |-> FALSE]
  /\ \E n \in TicketChoices : tickets = [p \in Slots |-> IF p = Init1 THEN n ELSE 0]
  /\ kstack = {Init1}
  /\ at = [p \in Slots |-> "user"]
  /\ np = [p \in Slots |-> None]
  /\ until = [p \in Slots |-> 0]
  /\ cpuproc = [c \in CPUs |-> None]
  /\ nextpid = 2
  /\ ticks = 0 /\ tickslock = None
  /\ panicked = FALSE

\* The CPU that runs p goes back to its scheduler, which clears c->proc.
KeepCPU(p) == cpuproc' = cpuproc      \* Mutant: c->proc = 0 is forgotten.
LeaveCPU(p) ==
  cpuproc' = [c \in CPUs |-> IF cpuproc[c] = p THEN None ELSE cpuproc[c]]

\* wakeup1 on top of the table s.
Woken(s, channel) ==
  [q \in Slots |-> IF s[q] = "SLEEPING" /\ chan[q] = channel
                   THEN "RUNNABLE" ELSE s[q]]

\* State q to s, p's CPU back to the scheduler, p's thread to resume at place.
SwitchAway(p, s, place) ==
  /\ state' = s
  /\ Go(p, place)
  /\ LeaveCPU(p)

-----------------------------------------------------------------------------
(* scheduler: one lottery.                                                 *)

Runnable == {p \in Slots : state[p] = "RUNNABLE"}

\* Both loops over the table add up the RUNNABLE processes' tickets: what
\* random_num has lost after slot p, and the total.
TicketsUpTo(p) ==
  LET sum[q \in 0 .. NPROC] ==
        IF q = 0 THEN 0 ELSE sum[q - 1] + (IF q \in Runnable THEN tickets[q] ELSE 0)
  IN sum[p]
TotalTickets == TicketsUpTo(NPROC)

\* random_at_most includes its argument.
Draws == 0 .. TotalTickets

\* Mutant: the comparison of the comment, 0 or less.
WinnersAtZero(draw) == {p \in Runnable : draw <= TicketsUpTo(p)}
Winners(draw) == {p \in Runnable : draw < TicketsUpTo(p)}

\* The winner runs on from where it called sched(); sleep() clears its channel
\* before it releases ptable.lock.
Schedule(c) ==
  /\ cpuproc[c] = None
  /\ \E draw \in Draws :
       /\ Winners(draw) # {}
       /\ LET p == Min(Winners(draw)) IN
          /\ cpuproc' = [cpuproc EXCEPT ![c] = p]
          /\ state' = [state EXCEPT ![p] = "RUNNING"]
          /\ chan' = [chan EXCEPT ![p] = None]
  /\ UNCHANGED <<pid, parent, killed, tickets, kstack, locals, nextpid, clock,
                 panicked>>

\* acquire turns interrupts off before it spins (spinlock.c:27-33).
InterruptsOff(p) ==
  tickslock = p \/ (at[p] \in {"sleep", "relock"} /\ tickslock # None)

\* The clock interrupt of the process's CPU.
Yield(p) ==
  /\ Running(p) /\ ~InterruptsOff(p)
  /\ SwitchAway(p, [state EXCEPT ![p] = "RUNNABLE"], at[p])
  /\ UNCHANGED <<pid, parent, chan, killed, tickets, kstack, np, until, nextpid,
                 clock, panicked>>

-----------------------------------------------------------------------------
(* trap: a killed process exits on its way to or from user space.          *)

Call(p, place) ==
  /\ Running(p) /\ at[p] = "user" /\ ~killed[p]
  /\ Go(p, place)
  /\ UNCHANGED <<table, np, until, cpuproc, nextpid, clock, panicked>>

KilledExit(p) ==
  /\ Running(p) /\ at[p] = "user" /\ killed[p]
  /\ Go(p, "exit")
  /\ UNCHANGED <<table, np, until, cpuproc, nextpid, clock, panicked>>

SetTickets(p) ==
  /\ Running(p) /\ at[p] = "user" /\ ~killed[p]
  /\ \E n \in TicketChoices : tickets' = [tickets EXCEPT ![p] = n]
  /\ UNCHANGED <<state, pid, parent, chan, killed, kstack, locals, cpuproc,
                 nextpid, clock, panicked>>

-----------------------------------------------------------------------------
(* fork: allocproc, copyuvm, the parent's fields, and RUNNABLE at last.    *)

Free == {q \in Slots : state[q] = "UNUSED"}

TakeSlot(p, newpid) ==
  /\ Running(p) /\ at[p] = "fork"
  /\ Free # {} /\ nextpid <= MaxPid     \* bound: then fork fails
  /\ LET q == Min(Free) IN
     /\ state' = [state EXCEPT ![q] = "EMBRYO"]
     /\ pid' = [pid EXCEPT ![q] = newpid]
     /\ np' = [np EXCEPT ![p] = q]
  /\ nextpid' = nextpid + 1
  /\ Go(p, "kstack")
  /\ UNCHANGED <<parent, chan, killed, tickets, kstack, until, cpuproc, clock,
                 panicked>>

\* Mutant: pids are counted from the processes that have not exited.
AllocCounted(p) ==
  TakeSlot(p, Cardinality({q \in Slots : state[q] \notin {"UNUSED", "ZOMBIE"}}) + 1)
AllocProc(p) == TakeSlot(p, nextpid)

ForkFull(p) ==
  /\ Running(p) /\ at[p] = "fork"
  /\ Free = {} \/ nextpid > MaxPid
  /\ Go(p, "user")
  /\ UNCHANGED <<table, np, until, cpuproc, nextpid, clock, panicked>>

AllocStack(p) ==
  /\ Running(p) /\ at[p] = "kstack"
  /\ kstack' = kstack \cup {np[p]}
  /\ Go(p, "copy")
  /\ UNCHANGED <<state, pid, parent, chan, killed, tickets, np, until, cpuproc,
                 nextpid, clock, panicked>>

\* kalloc finds no page, for the stack or in copyuvm; the slot keeps its pid.
DropChild(p, stacks) ==
  /\ Running(p) /\ at[p] \in {"kstack", "copy"}
  /\ state' = [state EXCEPT ![np[p]] = "UNUSED"]
  /\ kstack' = stacks
  /\ np' = [np EXCEPT ![p] = None]
  /\ Go(p, "user")
  /\ UNCHANGED <<pid, parent, chan, killed, tickets, until, cpuproc, nextpid,
                 clock, panicked>>

\* Mutant: the stack is not freed when copyuvm fails.
DropLeaking(p) == DropChild(p, kstack)
ForkFails(p) == DropChild(p, kstack \ {np[p]})

Inherit(p, n) ==
  /\ Running(p) /\ at[p] = "copy"
  /\ parent' = [parent EXCEPT ![np[p]] = p]
  /\ tickets' = [tickets EXCEPT ![np[p]] = n]
  /\ Go(p, "publish")
  /\ UNCHANGED <<state, pid, chan, killed, kstack, np, until, cpuproc, nextpid,
                 clock, panicked>>

\* Mutant: added to what the slot's last process had.
CopyAdding(p) == Inherit(p, tickets[np[p]] + tickets[p])
CopyChild(p) == Inherit(p, tickets[p])

Publish(p) ==
  /\ Running(p) /\ at[p] = "publish"
  /\ state' = [state EXCEPT ![np[p]] = "RUNNABLE"]
  /\ at' = [at EXCEPT ![p] = "user", ![np[p]] = "user"]
  /\ np' = [np EXCEPT ![p] = None]
  /\ UNCHANGED <<pid, parent, chan, killed, tickets, kstack, until, cpuproc,
                 nextpid, clock, panicked>>

-----------------------------------------------------------------------------
(* exit and wait.                                                          *)

ChildrenOf(p) == {q \in Slots : parent[q] = p}

InitExits(p) ==
  /\ Running(p) /\ at[p] = "exit" /\ p = Init1
  /\ panicked' = TRUE
  /\ UNCHANGED <<table, locals, cpuproc, nextpid, clock>>

\* Both calls of wakeup1, the loop that gives the children to init, and ZOMBIE.
\* The loop wakes init for each zombie it gives it.
Adopted(p) == [q \in Slots |-> IF parent[q] = p THEN Init1 ELSE parent[q]]

Die(p, woken, parents) ==
  /\ Running(p) /\ at[p] = "exit" /\ p # Init1
  /\ parent' = parents
  /\ SwitchAway(p, [woken EXCEPT ![p] = "ZOMBIE"], "zombie")
  /\ UNCHANGED <<pid, chan, killed, tickets, kstack, np, until, nextpid, clock,
                 panicked>>

ZombieChildren(p) == {q \in ChildrenOf(p) : state[q] = "ZOMBIE"}

WakeParents(p) ==
  [q \in Slots |->
     IF /\ state[q] = "SLEEPING"
        /\ \/ chan[q] = parent[p]
           \/ chan[q] = Init1 /\ ZombieChildren(p) # {}
     THEN "RUNNABLE" ELSE state[q]]

\* Mutants: nobody is told of zombies; the children stay orphans.
ExitQuietly(p) == Die(p, state, Adopted(p))
ExitOrphaning(p) == Die(p, WakeParents(p), parent)
Exit(p) == Die(p, WakeParents(p), Adopted(p))

\* One turn of the loop in wait().
Reap(p) ==
  /\ Running(p) /\ at[p] = "wait" /\ ZombieChildren(p) # {}
  /\ LET q == Min(ZombieChildren(p)) IN
     /\ state' = [state EXCEPT ![q] = "UNUSED"]
     /\ pid' = [pid EXCEPT ![q] = 0]
     /\ parent' = [parent EXCEPT ![q] = None]
     /\ killed' = [killed EXCEPT ![q] = FALSE]
     /\ kstack' = kstack \ {q}
  /\ Go(p, "user")
  /\ UNCHANGED <<chan, tickets, np, until, cpuproc, nextpid, clock, panicked>>

NoChild(p) ==
  /\ Running(p) /\ at[p] = "wait" /\ ZombieChildren(p) = {}
  /\ ChildrenOf(p) = {} \/ killed[p]
  /\ Go(p, "user")
  /\ UNCHANGED <<table, np, until, cpuproc, nextpid, clock, panicked>>

\* sleep(curproc, &ptable.lock).
SleepForChild(p, cond) ==
  /\ Running(p) /\ at[p] = "wait" /\ ZombieChildren(p) = {}
  /\ ChildrenOf(p) # {} /\ cond
  /\ chan' = [chan EXCEPT ![p] = p]
  /\ SwitchAway(p, [state EXCEPT ![p] = "SLEEPING"], "wait")
  /\ UNCHANGED <<pid, parent, killed, tickets, kstack, np, until, nextpid,
                 clock, panicked>>

\* Mutant: killed is not looked at.
WaitThoughKilled(p) == SleepForChild(p, TRUE)
WaitSleep(p) == SleepForChild(p, ~killed[p])

-----------------------------------------------------------------------------
(* sys_sleep: tickslock is given up only under ptable.lock.                *)

TakeTicks(p) ==
  /\ Running(p) /\ at[p] = "sleep" /\ tickslock = None
  /\ tickslock' = p
  /\ until' = [until EXCEPT ![p] = ticks + 1]
  /\ Go(p, "ticks")
  /\ UNCHANGED <<table, np, cpuproc, nextpid, ticks, panicked>>

SleepOver(p) ==
  /\ Running(p) /\ at[p] = "ticks" /\ tickslock = p
  /\ ticks >= until[p] \/ killed[p]
  /\ tickslock' = None
  /\ Go(p, "user")
  /\ UNCHANGED <<table, np, until, cpuproc, nextpid, ticks, panicked>>

\* Mutant: tickslock is released before ptable.lock is taken.
UnlockThenSleep(p) ==
  /\ Running(p)
  /\ \/ /\ at[p] = "ticks" /\ tickslock = p
        /\ ticks < until[p] /\ ~killed[p]
        /\ tickslock' = None
        /\ Go(p, "unlocked")
        /\ UNCHANGED <<state, chan, cpuproc>>
     \/ /\ at[p] = "unlocked"
        /\ chan' = [chan EXCEPT ![p] = TicksChan]
        /\ SwitchAway(p, [state EXCEPT ![p] = "SLEEPING"], "relock")
        /\ UNCHANGED tickslock
  /\ UNCHANGED <<pid, parent, killed, tickets, kstack, np, until, nextpid,
                 ticks, panicked>>

SleepOnTicks(p) ==
  /\ Running(p) /\ at[p] = "ticks" /\ tickslock = p
  /\ ticks < until[p] /\ ~killed[p]
  /\ tickslock' = None
  /\ chan' = [chan EXCEPT ![p] = TicksChan]
  /\ SwitchAway(p, [state EXCEPT ![p] = "SLEEPING"], "relock")
  /\ UNCHANGED <<pid, parent, killed, tickets, kstack, np, until, nextpid,
                 ticks, panicked>>

Relock(p) ==
  /\ Running(p) /\ at[p] = "relock" /\ tickslock = None
  /\ tickslock' = p
  /\ Go(p, "ticks")
  /\ UNCHANGED <<table, np, until, cpuproc, nextpid, ticks, panicked>>

TickBegin ==
  /\ tickslock = None
  /\ tickslock' = Timer
  /\ ticks' = IF ticks < MaxTicks THEN ticks + 1 ELSE ticks
  /\ UNCHANGED <<table, locals, cpuproc, nextpid, panicked>>

TickEnd ==
  /\ tickslock = Timer
  /\ state' = Woken(state, TicksChan)
  /\ tickslock' = None
  /\ UNCHANGED <<pid, parent, chan, killed, tickets, kstack, locals, cpuproc,
                 nextpid, ticks, panicked>>

-----------------------------------------------------------------------------
(* kill: the first slot with that pid, in whatever state it is.            *)

Kill(p) ==
  /\ Running(p) /\ at[p] = "user" /\ ~killed[p]
  /\ \E k \in KillPids :
       LET hit == {q \in Slots : pid[q] = k} IN
       /\ hit # {}
       /\ LET q == Min(hit) IN
          /\ killed' = [killed EXCEPT ![q] = TRUE]
          /\ state' = [state EXCEPT ![q] = IF @ = "SLEEPING" THEN "RUNNABLE" ELSE @]
  /\ UNCHANGED <<pid, parent, chan, tickets, kstack, locals, cpuproc, nextpid,
                 clock, panicked>>

-----------------------------------------------------------------------------
KernelStep(p) ==
  \/ KilledExit(p)
  \/ AllocProc(p) \/ ForkFull(p) \/ AllocStack(p) \/ ForkFails(p)
  \/ CopyChild(p) \/ Publish(p)
  \/ InitExits(p) \/ Exit(p)
  \/ Reap(p) \/ NoChild(p) \/ WaitSleep(p)
  \/ TakeTicks(p) \/ SleepOver(p) \/ SleepOnTicks(p) \/ Relock(p)

UserStep(p) ==
  \/ \E place \in Syscalls : Call(p, place)
  \/ SetTickets(p) \/ Kill(p)

Next == /\ ~panicked
        /\ \/ \E c \in CPUs : Schedule(c)
           \/ \E p \in Slots : Yield(p) \/ KernelStep(p) \/ UserStep(p)
           \/ TickBegin \/ TickEnd

Spec == Init /\ [][Next]_vars

\* The clock takes the CPU from a process again and again (trap.c:103-105).
\* Every CPU holds lottery after lottery, so a process that has tickets and is
\* RUNNABLE again and again wins one some time; a process that is RUNNING again
\* and again takes its next step some time.
Wins(p) == \E c \in CPUs : Schedule(c) /\ cpuproc'[c] = p

Fairness == /\ WF_vars(~panicked /\ TickEnd)
            /\ \A p \in Slots : /\ SF_vars(~panicked /\ Wins(p))
                                /\ SF_vars(~panicked /\ Yield(p))
                                /\ SF_vars(~panicked /\ KernelStep(p))

FairSpec == Spec /\ Fairness

-----------------------------------------------------------------------------
States == {"UNUSED", "EMBRYO", "SLEEPING", "RUNNABLE", "RUNNING", "ZOMBIE"}

TypeOK ==
  /\ state \in [Slots -> States]
  /\ pid \in [Slots -> 0 .. MaxPid]
  /\ parent \in [Slots -> Slots \cup {None}]
  /\ chan \in [Slots -> Slots \cup {None, TicksChan}]
  /\ killed \in [Slots -> BOOLEAN]
  /\ tickets \in [Slots -> TicketChoices \cup {0}]
  /\ kstack \subseteq Slots
  /\ at \in [Slots -> {"user", "exit", "zombie", "fork", "kstack", "copy",
                       "publish", "wait", "sleep", "ticks", "relock"}]
  /\ np \in [Slots -> Slots \cup {None}]
  /\ until \in [Slots -> 0 .. MaxTicks + 1]
  /\ cpuproc \in [CPUs -> Slots \cup {None}]
  /\ nextpid \in 2 .. MaxPid + 1
  /\ ticks \in 0 .. MaxTicks
  /\ tickslock \in Slots \cup {None, Timer}
  /\ panicked \in BOOLEAN

\* No two processes have the same pid, also after forks that fail half way and
\* slots that are used again (proc.c:91, 197-200, 301).
PidsUnique ==
  \A p, q \in Slots : Live(p) /\ Live(q) => pid[p] # 0 /\ (p # q => pid[p] # pid[q])

\* A process is RUNNING exactly on the CPU that chose it (proc.c:413-422).
OneCPU ==
  /\ \A p \in Slots : Running(p) => \E c \in CPUs : cpuproc[c] = p
  /\ \A c, d \in CPUs : cpuproc[c] # None =>
       Running(cpuproc[c]) /\ (cpuproc[d] = cpuproc[c] => d = c)

\* The parent of a process is there to wait for it: exit hands the children to
\* init before the slot can be reused (proc.c:264-270).
ParentLives ==
  \A p \in Slots : Live(p) /\ parent[p] # None =>
    state[parent[p]] \notin {"UNUSED", "EMBRYO", "ZOMBIE"}

\* Nobody sleeps in wait() with an exited child to collect, its own or one that
\* init inherited, or after being killed (proc.c:261-268, 312-318, 562).
NoSleepPastChild ==
  \A p \in Slots : state[p] = "SLEEPING" /\ chan[p] = p =>
    ZombieChildren(p) = {} /\ ~killed[p]

\* Nobody sleeps past its tick or its kill: sleep() takes ptable.lock before it
\* gives up tickslock (proc.c:501-510, sysproc.c:69-75).
NoSleepPastTick ==
  \A p \in Slots : state[p] = "SLEEPING" /\ chan[p] = TicksChan =>
    ~killed[p] /\ (tickslock = None => ticks < until[p])

\* A slot owns a kernel stack as long as it is a process, and no longer
\* (proc.c:96-97, 197-198, 298-299).
StacksAccounted ==
  \A p \in Slots : /\ state[p] \notin {"UNUSED", "EMBRYO"} => p \in kstack
                  /\ state[p] = "UNUSED" => p \notin kstack

\* A process wins exactly as many draws as it has tickets
\* (proc.c:387-409, lotterytest.c).
LotteryFair ==
  \A p \in Runnable :
    Cardinality({d \in Draws : Winners(d) # {} /\ p = Min(Winners(d))}) = tickets[p]

\* Slots, pids, processors, parents and stacks fit together (proc.c:74-307).
ProcessesSound == TypeOK /\ PidsUnique /\ OneCPU /\ ParentLives /\ StacksAccounted

\* Nobody sleeps past what it sleeps for (proc.c:490-538).
NoLostWakeup == NoSleepPastChild /\ NoSleepPastTick

\* A killed process exits, wherever it was when it was killed (trap.c:97-111,
\* proc.c:549-563), unless the machine has panicked.
KilledExits ==
  \A p \in Slots :
    Live(p) /\ killed[p] ~> state[p] \in {"ZOMBIE", "UNUSED"} \/ panicked
=============================================================================
