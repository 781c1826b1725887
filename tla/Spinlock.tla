------------------------------ MODULE Spinlock ------------------------------
(***************************************************************************)
(* xv6's spinlocks (spinlock.c), the interrupt flag that pushcli and       *)
(* popcli count, and the switch to and from the scheduler (proc.c), which  *)
(* hands ptable.lock and the right to run from one thread of the kernel to *)
(* another.  A step ends where another processor or an interrupt can make  *)
(* a difference.  What the kernel does under its locks is left out: code   *)
(* takes locks in the order of their numbers and releases what it took.    *)
(***************************************************************************)
EXTENDS Integers, FiniteSets

CONSTANTS CPUs, Threads, Locks,
          PtableLock,   \* taken last, and held through every switch
          Nobody        \* no processor, thread, lock; nothing wrong

ASSUME SpinAssumption ==
  /\ Locks \subseteq Nat /\ PtableLock \in Locks
  /\ IsFiniteSet(Locks)
  /\ Nobody \notin CPUs \cup Threads \cup Locks

VARIABLES flag,      \* IF: whether each processor takes interrupts
          ncli, intena,
          locked, owner,  \* of a lock: lk->locked and lk->cpu
          pc, want,  \* where a processor is in acquire or release, of which lock
          held,      \* history: the locks each processor got
          on,        \* the thread that runs on it, or Nobody for the scheduler
          mode, under,  \* what runs, and what an interrupt interrupted
          parked,    \* a thread that is switched away from, or Nobody
          broken     \* the message of a panic

spinVars ==
  <<flag, ncli, intena, locked, owner, pc, want, held, on, mode, under, parked, broken>>

\* "first" is a thread that never ran, in forkret; "back" the scheduler when a
\* thread has come back to it, which ends this round of its loop.
Modes == {"kernel", "first", "handler", "back"}

\* A processor comes to its scheduler with interrupts off.
SpinInit ==
  /\ flag = [c \in CPUs |-> FALSE]
  /\ ncli = [c \in CPUs |-> 0] /\ intena = [c \in CPUs |-> FALSE]
  /\ locked = [l \in Locks |-> FALSE] /\ owner = [l \in Locks |-> Nobody]
  /\ pc = [c \in CPUs |-> "run"] /\ want = [c \in CPUs |-> Nobody]
  /\ held = [c \in CPUs |-> {}]
  /\ on = [c \in CPUs |-> Nobody]
  /\ mode = [c \in CPUs |-> "kernel"] /\ under = [c \in CPUs |-> "kernel"]
  /\ parked = [t \in Threads |-> [mode |-> "first", under |-> "kernel", intena |-> FALSE]]
  /\ broken = Nobody

switchVars == <<on, mode, under, parked>>

At(c, label) == broken = Nobody /\ pc[c] = label
Scheduling(c) == on[c] = Nobody /\ mode[c] \in {"kernel", "back"}
Holding(c, l) == locked[l] /\ owner[l] = c

Panic(message) ==
  /\ broken' = message
  /\ UNCHANGED <<flag, ncli, intena, locked, owner, pc, want, held>>
  /\ UNCHANGED switchVars

----------------------------------------------------------------------------
\* acquire: pushcli, the test, the xchg, the owner. The scheduler has just
\* turned interrupts on and takes ptable.lock only.
LatestFlag(c) == flag[c]   \* Mutant: every push saves the flag.

PushedFlag(c) == IF ncli[c] = 0 THEN flag[c] ELSE intena[c]

Pushcli(c, l) ==
  /\ At(c, "run")
  /\ \A m \in held[c] : m < l
  /\ Scheduling(c) => l = PtableLock /\ flag[c] /\ mode[c] = "kernel"
  /\ flag' = [flag EXCEPT ![c] = FALSE]
  /\ intena' = [intena EXCEPT ![c] = PushedFlag(c)]
  /\ ncli' = [ncli EXCEPT ![c] = @ + 1]
  /\ pc' = [pc EXCEPT ![c] = "test"] /\ want' = [want EXCEPT ![c] = l]
  /\ UNCHANGED <<locked, owner, held, broken>> /\ UNCHANGED switchVars

TestHolding(c) ==
  /\ At(c, "test")
  /\ IF Holding(c, want[c]) THEN Panic("acquire")
     ELSE /\ pc' = [pc EXCEPT ![c] = "spin"]
          /\ UNCHANGED <<flag, ncli, intena, locked, owner, want, held, broken>>
          /\ UNCHANGED switchVars

NoOwner(l) == owner[l] = Nobody   \* Mutant: the owner is looked at.

Swaps(l) == ~locked[l]

Xchg(c) ==
  /\ At(c, "spin") /\ Swaps(want[c])
  /\ locked' = [locked EXCEPT ![want[c]] = TRUE]
  /\ held' = [held EXCEPT ![c] = @ \cup {want[c]}]
  /\ pc' = [pc EXCEPT ![c] = "took"]
  /\ UNCHANGED <<flag, ncli, intena, owner, want, broken>> /\ UNCHANGED switchVars

Acquired(c) ==
  /\ At(c, "took")
  /\ owner' = [owner EXCEPT ![want[c]] = c]
  /\ pc' = [pc EXCEPT ![c] = "run"] /\ want' = [want EXCEPT ![c] = Nobody]
  /\ UNCHANGED <<flag, ncli, intena, locked, held, broken>> /\ UNCHANGED switchVars

----------------------------------------------------------------------------
\* release: the test, the owner, the lock, popcli.
Disown(c, l) ==
  /\ At(c, "run") /\ l \in held[c]
  /\ IF ~Holding(c, l) THEN Panic("release")
     ELSE /\ owner' = [owner EXCEPT ![l] = Nobody]
          /\ pc' = [pc EXCEPT ![c] = "clear"] /\ want' = [want EXCEPT ![c] = l]
          /\ UNCHANGED <<flag, ncli, intena, locked, held, broken>>
          /\ UNCHANGED switchVars

Unlock(c) ==
  /\ At(c, "clear")
  /\ locked' = [locked EXCEPT ![want[c]] = FALSE]
  /\ held' = [held EXCEPT ![c] = @ \ {want[c]}]
  /\ pc' = [pc EXCEPT ![c] = "pop"] /\ want' = [want EXCEPT ![c] = Nobody]
  /\ UNCHANGED <<flag, ncli, intena, owner, broken>> /\ UNCHANGED switchVars

AlwaysSti(c) == intena[c]   \* Mutant: the count is not looked at.

Restores(c) == ncli[c] = 1 /\ intena[c]

Popcli(c) ==
  /\ At(c, "pop")
  /\ IF flag[c] \/ ncli[c] < 1 THEN Panic("popcli")
     ELSE /\ ncli' = [ncli EXCEPT ![c] = @ - 1]
          /\ flag' = [flag EXCEPT ![c] = Restores(c)]
          /\ pc' = [pc EXCEPT ![c] = "run"]
          /\ UNCHANGED <<intena, locked, owner, want, held, broken>>
          /\ UNCHANGED switchVars

----------------------------------------------------------------------------
\* Interrupts come with the flag off and give it back when they return.
Interrupt(c) ==
  /\ At(c, "run") /\ flag[c] /\ mode[c] # "handler"
  /\ flag' = [flag EXCEPT ![c] = FALSE]
  /\ mode' = [mode EXCEPT ![c] = "handler"] /\ under' = [under EXCEPT ![c] = mode[c]]
  /\ UNCHANGED <<ncli, intena, locked, owner, pc, want, held, on, parked, broken>>

Return(c) ==
  /\ At(c, "run") /\ mode[c] \in {"first", "handler"} /\ held[c] = {}
  /\ flag' = [flag EXCEPT ![c] = TRUE]
  /\ mode' = [mode EXCEPT ![c] = under[c]] /\ under' = [under EXCEPT ![c] = "kernel"]
  /\ UNCHANGED <<ncli, intena, locked, owner, pc, want, held, on, parked, broken>>

\* The head of the scheduler's loop.
Sti(c) ==
  /\ At(c, "run") /\ Scheduling(c) /\ held[c] = {}
  /\ flag' = [flag EXCEPT ![c] = TRUE]
  /\ mode' = [mode EXCEPT ![c] = "kernel"]
  /\ UNCHANGED <<ncli, intena, locked, owner, pc, want, held, on, under, parked, broken>>

\* sched: the thread is left with its own intena.
Leave(c) ==
  /\ At(c, "run") /\ on[c] # Nobody /\ held[c] = {PtableLock}
  /\ IF ~Holding(c, PtableLock) \/ ncli[c] # 1 \/ flag[c] THEN Panic("sched")
     ELSE /\ parked' = [parked EXCEPT ![on[c]] =
               [mode |-> mode[c], under |-> under[c], intena |-> intena[c]]]
          /\ on' = [on EXCEPT ![c] = Nobody]
          /\ mode' = [mode EXCEPT ![c] = "back"] /\ under' = [under EXCEPT ![c] = "kernel"]
          /\ UNCHANGED <<flag, ncli, intena, locked, owner, pc, want, held, broken>>

Inherited(c, t) == intena[c]   \* Mutant: sched saves nothing.

\* scheduler: t runs on with what sched saved; forkret saved nothing.
Resumed(c, t) == IF parked[t].mode = "first" THEN intena[c] ELSE parked[t].intena

Resume(c, t) ==
  /\ At(c, "run") /\ on[c] = Nobody /\ mode[c] = "kernel" /\ held[c] = {PtableLock}
  /\ parked[t] # Nobody
  /\ intena' = [intena EXCEPT ![c] = Resumed(c, t)]
  /\ on' = [on EXCEPT ![c] = t]
  /\ mode' = [mode EXCEPT ![c] = parked[t].mode]
  /\ under' = [under EXCEPT ![c] = parked[t].under]
  /\ parked' = [parked EXCEPT ![t] = Nobody]
  /\ UNCHANGED <<flag, ncli, locked, owner, pc, want, held, broken>>

SpinNext ==
  \E c \in CPUs :
    \/ \E l \in Locks : Pushcli(c, l) \/ Disown(c, l)
    \/ TestHolding(c) \/ Xchg(c) \/ Acquired(c)
    \/ Unlock(c) \/ Popcli(c)
    \/ Interrupt(c) \/ Return(c) \/ Sti(c)
    \/ Leave(c)
    \/ \E t \in Threads : Resume(c, t)

SpinSpec == SpinInit /\ [][SpinNext]_spinVars

----------------------------------------------------------------------------
(* A lock is held by one processor at a time, though it is taken by one     *)
(* thread and released by another when the scheduler runs in between        *)
(* (spinlock.c:25-71, proc.c:376-455).                                      *)
SpinExclusive == \A c, d \in CPUs : c # d => held[c] \cap held[d] = {}

(* No processor takes an interrupt while it holds a lock or is about to get *)
(* one, so no handler spins for a lock of the code it interrupted, and none *)
(* of the panics of acquire, release, popcli and sched can happen.          *)
SpinQuiet ==
  /\ broken = Nobody
  /\ \A c \in CPUs : flag[c] => held[c] = {} /\ pc[c] = "run" /\ mode[c] # "handler"

(* "intena is a property of this kernel thread, not this CPU"               *)
(* (proc.c:433): a thread that holds no lock and handles no interrupt runs  *)
(* with interrupts on, on whatever processor it was resumed.                *)
SpinFlagRestored ==
  \A c \in CPUs : on[c] # Nobody /\ mode[c] = "kernel" /\ pc[c] = "run" /\ held[c] = {} => flag[c]

(* Interrupts are off where they must be and on where they may be           *)
(* (spinlock.c:100-126, proc.c:438-455).                                    *)
SpinFlagSound == SpinQuiet /\ SpinFlagRestored
=============================================================================
