-------------------------- MODULE ProcTableProofs ---------------------------
(***************************************************************************)
(* Proofs about ProcTable for any table size, any number of CPUs and any   *)
(* bounds: the process table stays consistent, no wakeup is lost and the   *)
(* lottery is fair.                                                        *)
(***************************************************************************)
EXTENDS ProcTable, FiniteSetTheorems, WellFoundedInduction, TLAPS

(* The first slot that meets a condition is a slot that meets it.           *)
LEMMA MinIsMember ==
  ASSUME NEW S \in SUBSET Nat, S # {}
  PROVE  Min(S) \in S /\ \A y \in S : Min(S) <= y
<1> DEFINE less == {ss \in Nat \X Nat : ss[1] < ss[2]}
<1>1. IsWellFoundedOn(less, Nat)
  BY NatLessThanWellFounded DEF OpToRel
<1>2. PICK x \in S : \A y \in S : ~(<<y, x>> \in less)
  BY <1>1, WFMin
<1>3. ASSUME NEW y \in S PROVE x <= y
  <2>1. y \in Nat /\ x \in Nat /\ ~(<<y, x>> \in less)
    BY <1>2
  <2>2. y < x => <<y, x>> \in less
    BY <2>1
  <2> QED BY <2>1, <2>2
<1> QED BY <1>3 DEF Min

-----------------------------------------------------------------------------
(* A process inside fork is RUNNING or preempted and fills an EMBRYO of its *)
(* own; where it is tells what the EMBRYO has so far.                       *)
Forking == {"kstack", "copy", "publish"}

ForkersOwn ==
  \A p \in Slots : at[p] \in Forking =>
    /\ state[p] \in {"RUNNING", "RUNNABLE"}
    /\ np[p] \in Slots
    /\ state[np[p]] = "EMBRYO"
    /\ \A q \in Slots \ {p} : at[q] \in Forking => np[q] # np[p]

(* Every live process has a pid that was given out.                         *)
PidsGiven == \A p \in Slots : Live(p) => 1 <= pid[p] /\ pid[p] < nextpid

(* Free slots and half-filled ones have no parent; init and every parent    *)
(* are alive.                                                               *)
Alive(p) == state[p] \in {"SLEEPING", "RUNNABLE", "RUNNING"}

Parents ==
  /\ \A p \in Slots : state[p] = "UNUSED" => parent[p] = None
  /\ \A p \in Slots : at[p] \in {"kstack", "copy"} => parent[np[p]] = None
  /\ \A p \in Slots : parent[p] # None => Alive(parent[p])
  /\ \A p \in Slots : parent[p] # p
  /\ Alive(Init1) /\ parent[Init1] = None

(* A stack comes with the slot's second step and goes with its last.        *)
Stacks ==
  /\ StacksAccounted
  /\ \A p \in Slots : at[p] \in {"copy", "publish"} => np[p] \in kstack

(* Only the clock interrupt moves ticks, under tickslock.                   *)
Sleepers ==
  \A p \in Slots : state[p] = "SLEEPING" /\ chan[p] = TicksChan =>
    ~killed[p] /\ (tickslock # Timer => ticks < until[p])

-----------------------------------------------------------------------------
LEMMA SlotFacts ==
  /\ Slots \subseteq Nat /\ Init1 \in Slots
  /\ None \notin Slots /\ TicksChan \notin Slots /\ Timer \notin Slots
  /\ None # TicksChan /\ None # Timer
BY NprocAssumption DEF Slots, Init1, None, TicksChan, Timer

LEMMA FirstFree == Free # {} => Min(Free) \in Slots /\ state[Min(Free)] = "UNUSED"
<1>1. Free \in SUBSET Nat
  BY SlotFacts DEF Free
<1> QED BY <1>1, MinIsMember DEF Free

LEMMA FirstZombie ==
  ASSUME NEW p \in Slots, ZombieChildren(p) # {}
  PROVE  LET q == Min(ZombieChildren(p)) IN
           q \in Slots /\ parent[q] = p /\ state[q] = "ZOMBIE"
<1>1. ZombieChildren(p) \in SUBSET Nat
  BY SlotFacts DEF ZombieChildren, ChildrenOf
<1> QED BY <1>1, MinIsMember DEF ZombieChildren, ChildrenOf

LEMMA FirstWinner ==
  ASSUME NEW draw, Winners(draw) # {}
  PROVE  LET p == Min(Winners(draw)) IN p \in Slots /\ state[p] = "RUNNABLE"
<1>1. Winners(draw) \in SUBSET Nat
  BY SlotFacts DEF Winners, Runnable
<1> QED BY <1>1, MinIsMember DEF Winners, Runnable

(* Every step of kill names a slot.                                         *)
LEMMA FirstNamed ==
  ASSUME NEW k, {q \in Slots : pid[q] = k} # {}
  PROVE  Min({q \in Slots : pid[q] = k}) \in Slots
BY SlotFacts, MinIsMember

-----------------------------------------------------------------------------
(* Types: what a first slot is matters only in that it is a slot. *)
LEMMA NextTypeOK ==
  ASSUME TypeOK, ForkersOwn, [Next]_vars PROVE TypeOK'
<1> USE NprocAssumption, PidAssumption, ChoicesAssumption
    DEF TypeOK, ForkersOwn, Forking, Running, States, locals, clock, table
<1>1. ASSUME NEW c \in CPUs, Schedule(c) PROVE TypeOK'
  <2>1. PICK draw \in Draws :
          /\ Winners(draw) # {}
          /\ cpuproc' = [cpuproc EXCEPT ![c] = Min(Winners(draw))]
          /\ state' = [state EXCEPT ![Min(Winners(draw))] = "RUNNING"]
          /\ chan' = [chan EXCEPT ![Min(Winners(draw))] = None]
    BY <1>1 DEF Schedule
  <2> QED BY <1>1, <2>1, FirstWinner DEF Schedule
<1>2. ASSUME NEW p \in Slots, Yield(p) PROVE TypeOK'
  BY <1>2 DEF Yield, SwitchAway, LeaveCPU, Go
<1>3. ASSUME NEW p \in Slots, KilledExit(p) PROVE TypeOK'
  BY <1>3 DEF KilledExit, Go
<1>4. ASSUME NEW p \in Slots, AllocProc(p) PROVE TypeOK'
  BY <1>4, FirstFree, SlotFacts DEF AllocProc, TakeSlot, Go
<1>5. ASSUME NEW p \in Slots, ForkFull(p) PROVE TypeOK'
  BY <1>5 DEF ForkFull, Go
<1>6. ASSUME NEW p \in Slots, AllocStack(p) PROVE TypeOK'
  <2>1. np[p] \in Slots
    BY <1>6 DEF AllocStack
  <2> QED BY <1>6, <2>1 DEF AllocStack, Go
<1>7. ASSUME NEW p \in Slots, ForkFails(p) PROVE TypeOK'
  BY <1>7 DEF ForkFails, DropChild, Go
<1>8. ASSUME NEW p \in Slots, CopyChild(p) PROVE TypeOK'
  BY <1>8 DEF CopyChild, Inherit, Go
<1>9. ASSUME NEW p \in Slots, Publish(p) PROVE TypeOK'
  BY <1>9 DEF Publish
<1>10. ASSUME NEW p \in Slots, InitExits(p) PROVE TypeOK'
  BY <1>10 DEF InitExits
<1>11. ASSUME NEW p \in Slots, Exit(p) PROVE TypeOK'
  <2>1. WakeParents(p) \in [Slots -> States]
    BY DEF WakeParents
  <2>2. Adopted(p) \in [Slots -> Slots \cup {None}]
    BY SlotFacts DEF Adopted
  <2>3. cpuproc' \in [CPUs -> Slots \cup {None}]
    BY <1>11 DEF Exit, Die, SwitchAway, LeaveCPU
  <2> QED BY <1>11, <2>1, <2>2, <2>3 DEF Exit, Die, SwitchAway, Go
<1>12. ASSUME NEW p \in Slots, Reap(p) PROVE TypeOK'
  BY <1>12, FirstZombie DEF Reap, Go
<1>13. ASSUME NEW p \in Slots, NoChild(p) PROVE TypeOK'
  BY <1>13 DEF NoChild, Go
<1>14. ASSUME NEW p \in Slots, WaitSleep(p) PROVE TypeOK'
  BY <1>14 DEF WaitSleep, SleepForChild, SwitchAway, LeaveCPU, Go
<1>15. ASSUME NEW p \in Slots, TakeTicks(p) PROVE TypeOK'
  BY <1>15 DEF TakeTicks, Go
<1>16. ASSUME NEW p \in Slots, SleepOver(p) PROVE TypeOK'
  BY <1>16 DEF SleepOver, Go
<1>17. ASSUME NEW p \in Slots, SleepOnTicks(p) PROVE TypeOK'
  BY <1>17 DEF SleepOnTicks, SwitchAway, LeaveCPU, Go
<1>18. ASSUME NEW p \in Slots, Relock(p) PROVE TypeOK'
  BY <1>18 DEF Relock, Go
<1>19. ASSUME NEW p \in Slots, NEW place \in Syscalls, Call(p, place) PROVE TypeOK'
  BY <1>19 DEF Call, Go
<1>20. ASSUME NEW p \in Slots, SetTickets(p) PROVE TypeOK'
  <2>1. PICK n \in TicketChoices : tickets' = [tickets EXCEPT ![p] = n]
    BY <1>20 DEF SetTickets
  <2> QED BY <1>20, <2>1 DEF SetTickets
<1>21. ASSUME NEW p \in Slots, Kill(p) PROVE TypeOK'
  <2>1. PICK k \in KillPids :
          LET hit == {q \in Slots : pid[q] = k}
              q == Min(hit)
          IN  /\ hit # {}
              /\ killed' = [killed EXCEPT ![q] = TRUE]
              /\ state' = [state EXCEPT ![q] = IF @ = "SLEEPING" THEN "RUNNABLE" ELSE @]
    BY <1>21 DEF Kill
  <2> HIDE DEF TypeOK, ForkersOwn
  <2>2. {q \in Slots : pid[q] = k} # {}
    BY <2>1
  <2>3. Min({q \in Slots : pid[q] = k}) \in Slots
    BY <2>2, FirstNamed, Zenon
  <2> USE DEF TypeOK
  <2>4. /\ killed' \in [Slots -> BOOLEAN]
        /\ state' \in [Slots -> States]
    BY <2>1, <2>3
  <2>5. UNCHANGED <<pid, parent, chan, tickets, kstack, locals, cpuproc,
                    nextpid, clock, panicked>>
    BY <1>21 DEF Kill
  <2> QED BY <2>4, <2>5
<1>22. CASE TickBegin
  BY <1>22 DEF TickBegin
<1>23. CASE TickEnd
  BY <1>23 DEF TickEnd, Woken
<1>24. CASE UNCHANGED vars
  BY <1>24 DEF vars, table, locals, clock
<1> HIDE DEF TypeOK, ForkersOwn, Forking, Running, States, locals, clock, table
<1> QED
  BY <1>1, <1>2, <1>3, <1>4, <1>5, <1>6, <1>7, <1>8, <1>9,
     <1>10, <1>11, <1>12, <1>13, <1>14, <1>15, <1>16, <1>17, <1>18,
     <1>19, <1>20, <1>21, <1>22, <1>23, <1>24
  DEF Next, KernelStep, UserStep

(* Only the forking process itself moves its EMBRYO on. *)
LEMMA NextForkersOwn ==
  ASSUME TypeOK, ForkersOwn, [Next]_vars PROVE ForkersOwn'
<1> USE NprocAssumption, PidAssumption, ChoicesAssumption
    DEF TypeOK, Forking, Running, States, locals, clock, table, ForkersOwn
<1>1. ASSUME NEW c \in CPUs, Schedule(c) PROVE ForkersOwn'
  <2>1. PICK draw \in Draws :
          /\ Winners(draw) # {}
          /\ cpuproc' = [cpuproc EXCEPT ![c] = Min(Winners(draw))]
          /\ state' = [state EXCEPT ![Min(Winners(draw))] = "RUNNING"]
          /\ chan' = [chan EXCEPT ![Min(Winners(draw))] = None]
    BY <1>1 DEF Schedule
  <2> QED BY <1>1, <2>1, FirstWinner DEF Schedule
<1>2. ASSUME NEW p \in Slots, Yield(p) PROVE ForkersOwn'
  BY <1>2 DEF Yield, SwitchAway, LeaveCPU, Go
<1>3. ASSUME NEW p \in Slots, KilledExit(p) PROVE ForkersOwn'
  BY <1>3 DEF KilledExit, Go
<1>4. ASSUME NEW p \in Slots, AllocProc(p) PROVE ForkersOwn'
  BY <1>4, FirstFree, SlotFacts DEF AllocProc, TakeSlot, Go
<1>5. ASSUME NEW p \in Slots, ForkFull(p) PROVE ForkersOwn'
  BY <1>5 DEF ForkFull, Go
<1>6. ASSUME NEW p \in Slots, AllocStack(p) PROVE ForkersOwn'
  <2>1. np[p] \in Slots
    BY <1>6 DEF AllocStack
  <2> QED BY <1>6, <2>1 DEF AllocStack, Go
<1>7. ASSUME NEW p \in Slots, ForkFails(p) PROVE ForkersOwn'
  BY <1>7 DEF ForkFails, DropChild, Go
<1>8. ASSUME NEW p \in Slots, CopyChild(p) PROVE ForkersOwn'
  BY <1>8 DEF CopyChild, Inherit, Go
<1>9. ASSUME NEW p \in Slots, Publish(p) PROVE ForkersOwn'
  BY <1>9 DEF Publish
<1>10. ASSUME NEW p \in Slots, InitExits(p) PROVE ForkersOwn'
  BY <1>10 DEF InitExits
<1>11. ASSUME NEW p \in Slots, Exit(p) PROVE ForkersOwn'
  <2>1. /\ state' = [WakeParents(p) EXCEPT ![p] = "ZOMBIE"]
        /\ at' = [at EXCEPT ![p] = "zombie"]
        /\ at[p] = "exit" /\ state[p] = "RUNNING"
        /\ UNCHANGED np
    BY <1>11 DEF Exit, Die, SwitchAway, Go
  <2>2. \A q \in Slots : \/ WakeParents(p)[q] = state[q]
                         \/ state[q] = "SLEEPING" /\ WakeParents(p)[q] = "RUNNABLE"
    BY DEF WakeParents
  <2>3. DOMAIN WakeParents(p) = Slots
    BY DEF WakeParents
  <2> HIDE DEF WakeParents
  <2>4. ASSUME NEW q \in Slots, at'[q] \in Forking
        PROVE  at[q] \in Forking /\ q # p /\ np[q] # p
    BY <2>1, <2>4
  <2>5. ASSUME NEW q \in Slots, q # p, state[q] # "SLEEPING"
        PROVE  state'[q] = state[q]
    BY <2>1, <2>2, <2>3, <2>5
  <2>6. ASSUME NEW q \in Slots, at'[q] \in Forking
        PROVE  /\ state'[q] \in {"RUNNING", "RUNNABLE"}
               /\ np'[q] \in Slots
               /\ state'[np'[q]] = "EMBRYO"
    <3>1. at[q] \in Forking /\ q # p /\ np[q] # p
      BY <2>4, <2>6
    <3>2. /\ state[q] \in {"RUNNING", "RUNNABLE"}
          /\ np[q] \in Slots /\ state[np[q]] = "EMBRYO"
      BY <3>1
    <3>3. state'[q] = state[q]
      BY <2>5, <3>1, <3>2
    <3>4. state'[np[q]] = state[np[q]]
      BY <2>5, <3>1, <3>2
    <3> QED BY <2>1, <3>2, <3>3, <3>4
  <2>7. ASSUME NEW q \in Slots, NEW r \in Slots \ {q},
               at'[q] \in Forking, at'[r] \in Forking
        PROVE  np'[r] # np'[q]
    BY <2>1, <2>4, <2>7
  <2> QED BY <2>6, <2>7
<1>12. ASSUME NEW p \in Slots, Reap(p) PROVE ForkersOwn'
  BY <1>12, FirstZombie DEF Reap, Go
<1>13. ASSUME NEW p \in Slots, NoChild(p) PROVE ForkersOwn'
  BY <1>13 DEF NoChild, Go
<1>14. ASSUME NEW p \in Slots, WaitSleep(p) PROVE ForkersOwn'
  BY <1>14, SlotFacts DEF WaitSleep, SleepForChild, SwitchAway, LeaveCPU, Go
<1>15. ASSUME NEW p \in Slots, TakeTicks(p) PROVE ForkersOwn'
  BY <1>15 DEF TakeTicks, Go
<1>16. ASSUME NEW p \in Slots, SleepOver(p) PROVE ForkersOwn'
  BY <1>16 DEF SleepOver, Go
<1>17. ASSUME NEW p \in Slots, SleepOnTicks(p) PROVE ForkersOwn'
  BY <1>17, SlotFacts DEF SleepOnTicks, SwitchAway, LeaveCPU, Go
<1>18. ASSUME NEW p \in Slots, Relock(p) PROVE ForkersOwn'
  BY <1>18 DEF Relock, Go
<1>19. ASSUME NEW p \in Slots, NEW place \in Syscalls, Call(p, place) PROVE ForkersOwn'
  BY <1>19 DEF Call, Go
<1>20. ASSUME NEW p \in Slots, SetTickets(p) PROVE ForkersOwn'
  <2>1. PICK n \in TicketChoices : tickets' = [tickets EXCEPT ![p] = n]
    BY <1>20 DEF SetTickets
  <2> QED BY <1>20, <2>1 DEF SetTickets
<1>21. ASSUME NEW p \in Slots, Kill(p) PROVE ForkersOwn'
  <2>1. PICK k \in KillPids :
          LET hit == {q \in Slots : pid[q] = k}
              q == Min(hit)
          IN  /\ hit # {}
              /\ killed' = [killed EXCEPT ![q] = TRUE]
              /\ state' = [state EXCEPT ![q] = IF @ = "SLEEPING" THEN "RUNNABLE" ELSE @]
    BY <1>21 DEF Kill
  <2> QED BY <1>21, <2>1, FirstNamed DEF Kill
<1>22. CASE TickBegin
  BY <1>22, SlotFacts DEF TickBegin
<1>23. CASE TickEnd
  BY <1>23, SlotFacts DEF TickEnd, Woken
<1>24. CASE UNCHANGED vars
  BY <1>24 DEF vars, table, locals, clock
<1> HIDE DEF TypeOK, Forking, Running, States, locals, clock, table, ForkersOwn
<1> QED
  BY <1>1, <1>2, <1>3, <1>4, <1>5, <1>6, <1>7, <1>8, <1>9,
     <1>10, <1>11, <1>12, <1>13, <1>14, <1>15, <1>16, <1>17, <1>18,
     <1>19, <1>20, <1>21, <1>22, <1>23, <1>24
  DEF Next, KernelStep, UserStep

(* A pid is given out under ptable.lock, once. *)
LEMMA NextPids ==
  ASSUME TypeOK, ForkersOwn, PidsGiven, PidsUnique, [Next]_vars PROVE (PidsGiven /\ PidsUnique)'
<1> USE NprocAssumption, PidAssumption, ChoicesAssumption
    DEF TypeOK, Forking, Running, States, locals, clock, table, ForkersOwn, PidsGiven, PidsUnique, Live
<1>1. ASSUME NEW c \in CPUs, Schedule(c) PROVE (PidsGiven /\ PidsUnique)'
  <2>1. PICK draw \in Draws :
          /\ Winners(draw) # {}
          /\ cpuproc' = [cpuproc EXCEPT ![c] = Min(Winners(draw))]
          /\ state' = [state EXCEPT ![Min(Winners(draw))] = "RUNNING"]
          /\ chan' = [chan EXCEPT ![Min(Winners(draw))] = None]
    BY <1>1 DEF Schedule
  <2> QED BY <1>1, <2>1, FirstWinner DEF Schedule
<1>2. ASSUME NEW p \in Slots, Yield(p) PROVE (PidsGiven /\ PidsUnique)'
  BY <1>2 DEF Yield, SwitchAway, LeaveCPU, Go
<1>3. ASSUME NEW p \in Slots, KilledExit(p) PROVE (PidsGiven /\ PidsUnique)'
  BY <1>3 DEF KilledExit, Go
<1>4. ASSUME NEW p \in Slots, AllocProc(p) PROVE (PidsGiven /\ PidsUnique)'
  BY <1>4, FirstFree, SlotFacts DEF AllocProc, TakeSlot, Go
<1>5. ASSUME NEW p \in Slots, ForkFull(p) PROVE (PidsGiven /\ PidsUnique)'
  BY <1>5 DEF ForkFull, Go
<1>6. ASSUME NEW p \in Slots, AllocStack(p) PROVE (PidsGiven /\ PidsUnique)'
  <2>1. np[p] \in Slots
    BY <1>6 DEF AllocStack
  <2> QED BY <1>6, <2>1 DEF AllocStack, Go
<1>7. ASSUME NEW p \in Slots, ForkFails(p) PROVE (PidsGiven /\ PidsUnique)'
  BY <1>7 DEF ForkFails, DropChild, Go
<1>8. ASSUME NEW p \in Slots, CopyChild(p) PROVE (PidsGiven /\ PidsUnique)'
  BY <1>8 DEF CopyChild, Inherit, Go
<1>9. ASSUME NEW p \in Slots, Publish(p) PROVE (PidsGiven /\ PidsUnique)'
  BY <1>9 DEF Publish
<1>10. ASSUME NEW p \in Slots, InitExits(p) PROVE (PidsGiven /\ PidsUnique)'
  BY <1>10 DEF InitExits
<1>11. ASSUME NEW p \in Slots, Exit(p) PROVE (PidsGiven /\ PidsUnique)'
  BY <1>11, SlotFacts DEF Exit, Die, Adopted, WakeParents, SwitchAway, LeaveCPU, Go, ZombieChildren, ChildrenOf
<1>12. ASSUME NEW p \in Slots, Reap(p) PROVE (PidsGiven /\ PidsUnique)'
  BY <1>12, FirstZombie DEF Reap, Go
<1>13. ASSUME NEW p \in Slots, NoChild(p) PROVE (PidsGiven /\ PidsUnique)'
  BY <1>13 DEF NoChild, Go
<1>14. ASSUME NEW p \in Slots, WaitSleep(p) PROVE (PidsGiven /\ PidsUnique)'
  BY <1>14, SlotFacts DEF WaitSleep, SleepForChild, SwitchAway, LeaveCPU, Go
<1>15. ASSUME NEW p \in Slots, TakeTicks(p) PROVE (PidsGiven /\ PidsUnique)'
  BY <1>15 DEF TakeTicks, Go
<1>16. ASSUME NEW p \in Slots, SleepOver(p) PROVE (PidsGiven /\ PidsUnique)'
  BY <1>16 DEF SleepOver, Go
<1>17. ASSUME NEW p \in Slots, SleepOnTicks(p) PROVE (PidsGiven /\ PidsUnique)'
  BY <1>17, SlotFacts DEF SleepOnTicks, SwitchAway, LeaveCPU, Go
<1>18. ASSUME NEW p \in Slots, Relock(p) PROVE (PidsGiven /\ PidsUnique)'
  BY <1>18 DEF Relock, Go
<1>19. ASSUME NEW p \in Slots, NEW place \in Syscalls, Call(p, place) PROVE (PidsGiven /\ PidsUnique)'
  BY <1>19 DEF Call, Go
<1>20. ASSUME NEW p \in Slots, SetTickets(p) PROVE (PidsGiven /\ PidsUnique)'
  <2>1. PICK n \in TicketChoices : tickets' = [tickets EXCEPT ![p] = n]
    BY <1>20 DEF SetTickets
  <2> QED BY <1>20, <2>1 DEF SetTickets
<1>21. ASSUME NEW p \in Slots, Kill(p) PROVE (PidsGiven /\ PidsUnique)'
  <2>1. PICK k \in KillPids :
          LET hit == {q \in Slots : pid[q] = k}
              q == Min(hit)
          IN  /\ hit # {}
              /\ killed' = [killed EXCEPT ![q] = TRUE]
              /\ state' = [state EXCEPT ![q] = IF @ = "SLEEPING" THEN "RUNNABLE" ELSE @]
    BY <1>21 DEF Kill
  <2> QED BY <1>21, <2>1, FirstNamed DEF Kill
<1>22. CASE TickBegin
  BY <1>22, SlotFacts DEF TickBegin
<1>23. CASE TickEnd
  BY <1>23, SlotFacts DEF TickEnd, Woken
<1>24. CASE UNCHANGED vars
  BY <1>24 DEF vars, table, locals, clock
<1> HIDE DEF TypeOK, Forking, Running, States, locals, clock, table, ForkersOwn, PidsGiven, PidsUnique, Live
<1> QED
  BY <1>1, <1>2, <1>3, <1>4, <1>5, <1>6, <1>7, <1>8, <1>9,
     <1>10, <1>11, <1>12, <1>13, <1>14, <1>15, <1>16, <1>17, <1>18,
     <1>19, <1>20, <1>21, <1>22, <1>23, <1>24
  DEF Next, KernelStep, UserStep

(* Only the lottery makes a process RUNNING, and whoever stops leaves its CPU. *)
LEMMA NextOneCPU ==
  ASSUME TypeOK, ForkersOwn, OneCPU, [Next]_vars PROVE OneCPU'
<1> USE NprocAssumption, PidAssumption, ChoicesAssumption
    DEF TypeOK, Forking, Running, States, locals, clock, table, ForkersOwn, OneCPU
<1>1. ASSUME NEW c \in CPUs, Schedule(c) PROVE OneCPU'
  <2>1. PICK draw \in Draws :
          /\ Winners(draw) # {}
          /\ cpuproc' = [cpuproc EXCEPT ![c] = Min(Winners(draw))]
          /\ state' = [state EXCEPT ![Min(Winners(draw))] = "RUNNING"]
          /\ chan' = [chan EXCEPT ![Min(Winners(draw))] = None]
    BY <1>1 DEF Schedule
  <2> QED BY <1>1, <2>1, FirstWinner, SlotFacts DEF Schedule
<1>2. ASSUME NEW p \in Slots, Yield(p) PROVE OneCPU'
  BY <1>2 DEF Yield, SwitchAway, LeaveCPU, Go
<1>3. ASSUME NEW p \in Slots, KilledExit(p) PROVE OneCPU'
  BY <1>3 DEF KilledExit, Go
<1>4. ASSUME NEW p \in Slots, AllocProc(p) PROVE OneCPU'
  BY <1>4, FirstFree, SlotFacts DEF AllocProc, TakeSlot, Go
<1>5. ASSUME NEW p \in Slots, ForkFull(p) PROVE OneCPU'
  BY <1>5 DEF ForkFull, Go
<1>6. ASSUME NEW p \in Slots, AllocStack(p) PROVE OneCPU'
  <2>1. np[p] \in Slots
    BY <1>6 DEF AllocStack
  <2> QED BY <1>6, <2>1 DEF AllocStack, Go
<1>7. ASSUME NEW p \in Slots, ForkFails(p) PROVE OneCPU'
  BY <1>7 DEF ForkFails, DropChild, Go
<1>8. ASSUME NEW p \in Slots, CopyChild(p) PROVE OneCPU'
  BY <1>8 DEF CopyChild, Inherit, Go
<1>9. ASSUME NEW p \in Slots, Publish(p) PROVE OneCPU'
  BY <1>9 DEF Publish
<1>10. ASSUME NEW p \in Slots, InitExits(p) PROVE OneCPU'
  BY <1>10 DEF InitExits
<1>11. ASSUME NEW p \in Slots, Exit(p) PROVE OneCPU'
  <2>1. \A q \in Slots : Running(q)' <=> q # p /\ Running(q)
    BY <1>11 DEF Exit, Die, SwitchAway, WakeParents
  <2>2. LeaveCPU(p)
    BY <1>11 DEF Exit, Die, SwitchAway
  <2>3. ASSUME NEW q \in Slots, Running(q)' PROVE \E c \in CPUs : cpuproc'[c] = q
    BY <2>1, <2>2, <2>3 DEF LeaveCPU
  <2>4. ASSUME NEW c \in CPUs, NEW d \in CPUs, cpuproc'[c] # None
        PROVE  Running(cpuproc[c])' /\ (cpuproc'[d] = cpuproc'[c] => d = c)
    <3>1. cpuproc[c] \in Slots \ {p} /\ cpuproc'[c] = cpuproc[c]
      BY <2>2, <2>4 DEF LeaveCPU
    <3>2. cpuproc'[d] = cpuproc[c] => cpuproc[d] = cpuproc[c]
      BY <2>2, <3>1, SlotFacts DEF LeaveCPU
    <3>3. Running(cpuproc[c]) /\ (cpuproc[d] = cpuproc[c] => d = c)
      BY <3>1, SlotFacts
    <3>4. state'[cpuproc[c]] = "RUNNING"
      BY <2>1, <3>1, <3>3
    <3> QED BY <3>1, <3>2, <3>3, <3>4
  <2> QED BY <2>3, <2>4
<1>12. ASSUME NEW p \in Slots, Reap(p) PROVE OneCPU'
  BY <1>12, FirstZombie DEF Reap, Go
<1>13. ASSUME NEW p \in Slots, NoChild(p) PROVE OneCPU'
  BY <1>13 DEF NoChild, Go
<1>14. ASSUME NEW p \in Slots, WaitSleep(p) PROVE OneCPU'
  BY <1>14, SlotFacts DEF WaitSleep, SleepForChild, SwitchAway, LeaveCPU, Go
<1>15. ASSUME NEW p \in Slots, TakeTicks(p) PROVE OneCPU'
  BY <1>15 DEF TakeTicks, Go
<1>16. ASSUME NEW p \in Slots, SleepOver(p) PROVE OneCPU'
  BY <1>16 DEF SleepOver, Go
<1>17. ASSUME NEW p \in Slots, SleepOnTicks(p) PROVE OneCPU'
  BY <1>17, SlotFacts DEF SleepOnTicks, SwitchAway, LeaveCPU, Go
<1>18. ASSUME NEW p \in Slots, Relock(p) PROVE OneCPU'
  BY <1>18 DEF Relock, Go
<1>19. ASSUME NEW p \in Slots, NEW place \in Syscalls, Call(p, place) PROVE OneCPU'
  BY <1>19 DEF Call, Go
<1>20. ASSUME NEW p \in Slots, SetTickets(p) PROVE OneCPU'
  <2>1. PICK n \in TicketChoices : tickets' = [tickets EXCEPT ![p] = n]
    BY <1>20 DEF SetTickets
  <2> QED BY <1>20, <2>1 DEF SetTickets
<1>21. ASSUME NEW p \in Slots, Kill(p) PROVE OneCPU'
  <2>1. PICK k \in KillPids :
          LET hit == {q \in Slots : pid[q] = k}
              q == Min(hit)
          IN  /\ hit # {}
              /\ killed' = [killed EXCEPT ![q] = TRUE]
              /\ state' = [state EXCEPT ![q] = IF @ = "SLEEPING" THEN "RUNNABLE" ELSE @]
    BY <1>21 DEF Kill
  <2> QED BY <1>21, <2>1, FirstNamed DEF Kill
<1>22. CASE TickBegin
  BY <1>22, SlotFacts DEF TickBegin
<1>23. CASE TickEnd
  BY <1>23, SlotFacts DEF TickEnd, Woken
<1>24. CASE UNCHANGED vars
  BY <1>24 DEF vars, table, locals, clock
<1> HIDE DEF TypeOK, Forking, Running, States, locals, clock, table, ForkersOwn, OneCPU
<1> QED
  BY <1>1, <1>2, <1>3, <1>4, <1>5, <1>6, <1>7, <1>8, <1>9,
     <1>10, <1>11, <1>12, <1>13, <1>14, <1>15, <1>16, <1>17, <1>18,
     <1>19, <1>20, <1>21, <1>22, <1>23, <1>24
  DEF Next, KernelStep, UserStep

(* exit leaves no child behind, and a slot is empty before it is used again. *)
LEMMA NextParents ==
  ASSUME TypeOK, ForkersOwn, Parents, [Next]_vars PROVE Parents'
<1> USE NprocAssumption, PidAssumption, ChoicesAssumption
    DEF TypeOK, Forking, Running, States, locals, clock, table, ForkersOwn, Parents, Alive
<1>1. ASSUME NEW c \in CPUs, Schedule(c) PROVE Parents'
  <2>1. PICK draw \in Draws :
          /\ Winners(draw) # {}
          /\ cpuproc' = [cpuproc EXCEPT ![c] = Min(Winners(draw))]
          /\ state' = [state EXCEPT ![Min(Winners(draw))] = "RUNNING"]
          /\ chan' = [chan EXCEPT ![Min(Winners(draw))] = None]
    BY <1>1 DEF Schedule
  <2> QED BY <1>1, <2>1, FirstWinner DEF Schedule
<1>2. ASSUME NEW p \in Slots, Yield(p) PROVE Parents'
  BY <1>2 DEF Yield, SwitchAway, LeaveCPU, Go
<1>3. ASSUME NEW p \in Slots, KilledExit(p) PROVE Parents'
  BY <1>3 DEF KilledExit, Go
<1>4. ASSUME NEW p \in Slots, AllocProc(p) PROVE Parents'
  <2> DEFINE q == Min(Free)
  <2>1. q \in Slots /\ state[q] = "UNUSED"
    BY <1>4, FirstFree DEF AllocProc, TakeSlot
  <2>2. /\ state' = [state EXCEPT ![q] = "EMBRYO"]
        /\ np' = [np EXCEPT ![p] = q]
        /\ at' = [at EXCEPT ![p] = "kstack"]
        /\ parent' = parent
    BY <1>4 DEF AllocProc, TakeSlot, Go
  <2>3. \A r \in Slots : state'[r] = "UNUSED" => parent'[r] = None
    BY <2>1, <2>2, SlotFacts
  <2>4. ASSUME NEW r \in Slots, at'[r] \in {"kstack", "copy"}
        PROVE  parent'[np'[r]] = None
    <3>1. CASE r = p
      BY <2>1, <2>2, <3>1
    <3>2. CASE r # p
      BY <2>2, <2>4, <3>2
    <3> QED BY <3>1, <3>2
  <2>5. \A r \in Slots : parent'[r] # None => Alive(parent[r])'
    BY <2>1, <2>2, SlotFacts
  <2>6. (\A r \in Slots : parent'[r] # r) /\ Alive(Init1)' /\ parent'[Init1] = None
    BY <2>1, <2>2, SlotFacts
  <2> QED BY <2>3, <2>4, <2>5, <2>6
<1>5. ASSUME NEW p \in Slots, ForkFull(p) PROVE Parents'
  BY <1>5 DEF ForkFull, Go
<1>6. ASSUME NEW p \in Slots, AllocStack(p) PROVE Parents'
  <2>1. np[p] \in Slots
    BY <1>6 DEF AllocStack
  <2> QED BY <1>6, <2>1 DEF AllocStack, Go
<1>7. ASSUME NEW p \in Slots, ForkFails(p) PROVE Parents'
  BY <1>7 DEF ForkFails, DropChild, Go
<1>8. ASSUME NEW p \in Slots, CopyChild(p) PROVE Parents'
  BY <1>8 DEF CopyChild, Inherit, Go
<1>9. ASSUME NEW p \in Slots, Publish(p) PROVE Parents'
  BY <1>9 DEF Publish
<1>10. ASSUME NEW p \in Slots, InitExits(p) PROVE Parents'
  BY <1>10 DEF InitExits
<1>11. ASSUME NEW p \in Slots, Exit(p) PROVE Parents'
  <2>1. /\ \A q \in Slots \ {p} : Alive(q) => Alive(q)'
        /\ \A q \in Slots : state'[q] = "UNUSED" => state[q] = "UNUSED"
    BY <1>11 DEF Exit, Die, SwitchAway, WakeParents
  <2>2. /\ \A q \in Slots : parent'[q] = IF parent[q] = p THEN Init1 ELSE parent[q]
        /\ \A q \in Slots \ {p} : at'[q] = at[q]
        /\ at'[p] = "zombie" /\ np' = np /\ p # Init1
    BY <1>11 DEF Exit, Die, Adopted, SwitchAway, Go
  <2>3. \A r \in Slots : state'[r] = "UNUSED" => parent'[r] = None
    BY <2>1, <2>2, SlotFacts
  <2>4. ASSUME NEW r \in Slots, at'[r] \in {"kstack", "copy"}
        PROVE  parent'[np'[r]] = None
    <3>1. r # p /\ np[r] \in Slots /\ parent[np[r]] = None
      BY <2>2, <2>4
    <3>2. np'[r] = np[r] /\ p # None
      BY <2>2, SlotFacts
    <3>3. parent[np[r]] # p
      BY <3>1, <3>2
    <3>4. parent'[np[r]] = parent[np[r]]
      BY <2>2, <3>1, <3>3
    <3> QED BY <3>1, <3>2, <3>4
  <2>5. ASSUME NEW r \in Slots, parent'[r] # None PROVE Alive(parent[r])'
    <3>1. CASE parent[r] = p
      BY <2>1, <2>2, <3>1, SlotFacts
    <3>2. CASE parent[r] # p
      <4>1. parent'[r] = parent[r] /\ parent[r] \in Slots \ {p} /\ Alive(parent[r])
        BY <2>2, <2>5, <3>2
      <4> QED BY <2>1, <4>1
    <3> QED BY <3>1, <3>2
  <2>6. (\A r \in Slots : parent'[r] # r) /\ Alive(Init1)' /\ parent'[Init1] = None
    BY <2>1, <2>2, SlotFacts
  <2> QED BY <2>3, <2>4, <2>5, <2>6
<1>12. ASSUME NEW p \in Slots, Reap(p) PROVE Parents'
  <2>1. PICK q \in Slots :
          /\ state[q] = "ZOMBIE"
          /\ state' = [state EXCEPT ![q] = "UNUSED"]
          /\ parent' = [parent EXCEPT ![q] = None]
    BY <1>12, FirstZombie DEF Reap
  <2>2. at' = [at EXCEPT ![p] = "user"] /\ np' = np
    BY <1>12 DEF Reap, Go
  <2>3. \A r \in Slots : state'[r] = "UNUSED" => parent'[r] = None
    BY <2>1, <2>2, SlotFacts
  <2>4. ASSUME NEW r \in Slots, at'[r] \in {"kstack", "copy"}
        PROVE  parent'[np'[r]] = None
    <3>1. at[r] \in {"kstack", "copy"} /\ np[r] \in Slots /\ parent[np[r]] = None
      BY <2>2, <2>4
    <3> QED BY <2>1, <2>2, <3>1
  <2>5. ASSUME NEW r \in Slots, parent'[r] # None PROVE Alive(parent[r])'
    <3>1. parent[r] \in Slots /\ parent'[r] = parent[r] /\ Alive(parent[r])
      BY <2>1, <2>5
    <3>2. parent[r] # q
      BY <2>1, <3>1
    <3> QED BY <2>1, <3>1, <3>2
  <2>6. (\A r \in Slots : parent'[r] # r) /\ Alive(Init1)' /\ parent'[Init1] = None
    BY <2>1, <2>2, SlotFacts
  <2> QED BY <2>3, <2>4, <2>5, <2>6
<1>13. ASSUME NEW p \in Slots, NoChild(p) PROVE Parents'
  BY <1>13 DEF NoChild, Go
<1>14. ASSUME NEW p \in Slots, WaitSleep(p) PROVE Parents'
  BY <1>14, SlotFacts DEF WaitSleep, SleepForChild, SwitchAway, LeaveCPU, Go
<1>15. ASSUME NEW p \in Slots, TakeTicks(p) PROVE Parents'
  BY <1>15 DEF TakeTicks, Go
<1>16. ASSUME NEW p \in Slots, SleepOver(p) PROVE Parents'
  BY <1>16 DEF SleepOver, Go
<1>17. ASSUME NEW p \in Slots, SleepOnTicks(p) PROVE Parents'
  BY <1>17, SlotFacts DEF SleepOnTicks, SwitchAway, LeaveCPU, Go
<1>18. ASSUME NEW p \in Slots, Relock(p) PROVE Parents'
  BY <1>18 DEF Relock, Go
<1>19. ASSUME NEW p \in Slots, NEW place \in Syscalls, Call(p, place) PROVE Parents'
  BY <1>19 DEF Call, Go
<1>20. ASSUME NEW p \in Slots, SetTickets(p) PROVE Parents'
  <2>1. PICK n \in TicketChoices : tickets' = [tickets EXCEPT ![p] = n]
    BY <1>20 DEF SetTickets
  <2> QED BY <1>20, <2>1 DEF SetTickets
<1>21. ASSUME NEW p \in Slots, Kill(p) PROVE Parents'
  <2>1. PICK k \in KillPids :
          LET hit == {q \in Slots : pid[q] = k}
              q == Min(hit)
          IN  /\ hit # {}
              /\ killed' = [killed EXCEPT ![q] = TRUE]
              /\ state' = [state EXCEPT ![q] = IF @ = "SLEEPING" THEN "RUNNABLE" ELSE @]
    BY <1>21 DEF Kill
  <2> QED BY <1>21, <2>1, FirstNamed DEF Kill
<1>22. CASE TickBegin
  BY <1>22, SlotFacts DEF TickBegin
<1>23. CASE TickEnd
  BY <1>23, SlotFacts DEF TickEnd, Woken
<1>24. CASE UNCHANGED vars
  BY <1>24 DEF vars, table, locals, clock
<1> HIDE DEF TypeOK, Forking, Running, States, locals, clock, table, ForkersOwn, Parents, Alive
<1> QED
  BY <1>1, <1>2, <1>3, <1>4, <1>5, <1>6, <1>7, <1>8, <1>9,
     <1>10, <1>11, <1>12, <1>13, <1>14, <1>15, <1>16, <1>17, <1>18,
     <1>19, <1>20, <1>21, <1>22, <1>23, <1>24
  DEF Next, KernelStep, UserStep

(* The stack is freed on both ways out: a failed fork and wait. *)
LEMMA NextStacks ==
  ASSUME TypeOK, ForkersOwn, Stacks, [Next]_vars PROVE Stacks'
<1> USE NprocAssumption, PidAssumption, ChoicesAssumption
    DEF TypeOK, Forking, Running, States, locals, clock, table, ForkersOwn, Stacks, StacksAccounted
<1>1. ASSUME NEW c \in CPUs, Schedule(c) PROVE Stacks'
  <2>1. PICK draw \in Draws :
          /\ Winners(draw) # {}
          /\ cpuproc' = [cpuproc EXCEPT ![c] = Min(Winners(draw))]
          /\ state' = [state EXCEPT ![Min(Winners(draw))] = "RUNNING"]
          /\ chan' = [chan EXCEPT ![Min(Winners(draw))] = None]
    BY <1>1 DEF Schedule
  <2> QED BY <1>1, <2>1, FirstWinner DEF Schedule
<1>2. ASSUME NEW p \in Slots, Yield(p) PROVE Stacks'
  BY <1>2 DEF Yield, SwitchAway, LeaveCPU, Go
<1>3. ASSUME NEW p \in Slots, KilledExit(p) PROVE Stacks'
  BY <1>3 DEF KilledExit, Go
<1>4. ASSUME NEW p \in Slots, AllocProc(p) PROVE Stacks'
  BY <1>4, FirstFree, SlotFacts DEF AllocProc, TakeSlot, Go
<1>5. ASSUME NEW p \in Slots, ForkFull(p) PROVE Stacks'
  BY <1>5 DEF ForkFull, Go
<1>6. ASSUME NEW p \in Slots, AllocStack(p) PROVE Stacks'
  <2>1. np[p] \in Slots
    BY <1>6 DEF AllocStack
  <2> QED BY <1>6, <2>1 DEF AllocStack, Go
<1>7. ASSUME NEW p \in Slots, ForkFails(p) PROVE Stacks'
  BY <1>7 DEF ForkFails, DropChild, Go
<1>8. ASSUME NEW p \in Slots, CopyChild(p) PROVE Stacks'
  BY <1>8 DEF CopyChild, Inherit, Go
<1>9. ASSUME NEW p \in Slots, Publish(p) PROVE Stacks'
  BY <1>9 DEF Publish
<1>10. ASSUME NEW p \in Slots, InitExits(p) PROVE Stacks'
  BY <1>10 DEF InitExits
<1>11. ASSUME NEW p \in Slots, Exit(p) PROVE Stacks'
  BY <1>11, SlotFacts DEF Exit, Die, Adopted, WakeParents, SwitchAway, LeaveCPU, Go, ZombieChildren, ChildrenOf
<1>12. ASSUME NEW p \in Slots, Reap(p) PROVE Stacks'
  BY <1>12, FirstZombie DEF Reap, Go
<1>13. ASSUME NEW p \in Slots, NoChild(p) PROVE Stacks'
  BY <1>13 DEF NoChild, Go
<1>14. ASSUME NEW p \in Slots, WaitSleep(p) PROVE Stacks'
  BY <1>14, SlotFacts DEF WaitSleep, SleepForChild, SwitchAway, LeaveCPU, Go
<1>15. ASSUME NEW p \in Slots, TakeTicks(p) PROVE Stacks'
  BY <1>15 DEF TakeTicks, Go
<1>16. ASSUME NEW p \in Slots, SleepOver(p) PROVE Stacks'
  BY <1>16 DEF SleepOver, Go
<1>17. ASSUME NEW p \in Slots, SleepOnTicks(p) PROVE Stacks'
  BY <1>17, SlotFacts DEF SleepOnTicks, SwitchAway, LeaveCPU, Go
<1>18. ASSUME NEW p \in Slots, Relock(p) PROVE Stacks'
  BY <1>18 DEF Relock, Go
<1>19. ASSUME NEW p \in Slots, NEW place \in Syscalls, Call(p, place) PROVE Stacks'
  BY <1>19 DEF Call, Go
<1>20. ASSUME NEW p \in Slots, SetTickets(p) PROVE Stacks'
  <2>1. PICK n \in TicketChoices : tickets' = [tickets EXCEPT ![p] = n]
    BY <1>20 DEF SetTickets
  <2> QED BY <1>20, <2>1 DEF SetTickets
<1>21. ASSUME NEW p \in Slots, Kill(p) PROVE Stacks'
  <2>1. PICK k \in KillPids :
          LET hit == {q \in Slots : pid[q] = k}
              q == Min(hit)
          IN  /\ hit # {}
              /\ killed' = [killed EXCEPT ![q] = TRUE]
              /\ state' = [state EXCEPT ![q] = IF @ = "SLEEPING" THEN "RUNNABLE" ELSE @]
    BY <1>21 DEF Kill
  <2> QED BY <1>21, <2>1, FirstNamed DEF Kill
<1>22. CASE TickBegin
  BY <1>22, SlotFacts DEF TickBegin
<1>23. CASE TickEnd
  BY <1>23, SlotFacts DEF TickEnd, Woken
<1>24. CASE UNCHANGED vars
  BY <1>24 DEF vars, table, locals, clock
<1> HIDE DEF TypeOK, Forking, Running, States, locals, clock, table, ForkersOwn, Stacks, StacksAccounted
<1> QED
  BY <1>1, <1>2, <1>3, <1>4, <1>5, <1>6, <1>7, <1>8, <1>9,
     <1>10, <1>11, <1>12, <1>13, <1>14, <1>15, <1>16, <1>17, <1>18,
     <1>19, <1>20, <1>21, <1>22, <1>23, <1>24
  DEF Next, KernelStep, UserStep

(* A sleeper in wait() is woken by whatever would let it go on. *)
LEMMA NextNoSleepPastChild ==
  ASSUME TypeOK, ForkersOwn, Parents, NoSleepPastChild, [Next]_vars PROVE NoSleepPastChild'
<1> USE NprocAssumption, PidAssumption, ChoicesAssumption
    DEF TypeOK, Forking, Running, States, locals, clock, table, ForkersOwn, Parents, Alive, NoSleepPastChild, ZombieChildren, ChildrenOf
<1>1. ASSUME NEW c \in CPUs, Schedule(c) PROVE NoSleepPastChild'
  <2>1. PICK draw \in Draws :
          /\ Winners(draw) # {}
          /\ cpuproc' = [cpuproc EXCEPT ![c] = Min(Winners(draw))]
          /\ state' = [state EXCEPT ![Min(Winners(draw))] = "RUNNING"]
          /\ chan' = [chan EXCEPT ![Min(Winners(draw))] = None]
    BY <1>1 DEF Schedule
  <2> QED BY <1>1, <2>1, FirstWinner DEF Schedule
<1>2. ASSUME NEW p \in Slots, Yield(p) PROVE NoSleepPastChild'
  BY <1>2 DEF Yield, SwitchAway, LeaveCPU, Go
<1>3. ASSUME NEW p \in Slots, KilledExit(p) PROVE NoSleepPastChild'
  BY <1>3 DEF KilledExit, Go
<1>4. ASSUME NEW p \in Slots, AllocProc(p) PROVE NoSleepPastChild'
  BY <1>4, FirstFree, SlotFacts DEF AllocProc, TakeSlot, Go
<1>5. ASSUME NEW p \in Slots, ForkFull(p) PROVE NoSleepPastChild'
  BY <1>5 DEF ForkFull, Go
<1>6. ASSUME NEW p \in Slots, AllocStack(p) PROVE NoSleepPastChild'
  <2>1. np[p] \in Slots
    BY <1>6 DEF AllocStack
  <2> QED BY <1>6, <2>1 DEF AllocStack, Go
<1>7. ASSUME NEW p \in Slots, ForkFails(p) PROVE NoSleepPastChild'
  BY <1>7 DEF ForkFails, DropChild, Go
<1>8. ASSUME NEW p \in Slots, CopyChild(p) PROVE NoSleepPastChild'
  BY <1>8 DEF CopyChild, Inherit, Go
<1>9. ASSUME NEW p \in Slots, Publish(p) PROVE NoSleepPastChild'
  BY <1>9 DEF Publish
<1>10. ASSUME NEW p \in Slots, InitExits(p) PROVE NoSleepPastChild'
  BY <1>10 DEF InitExits
<1>11. ASSUME NEW p \in Slots, Exit(p) PROVE NoSleepPastChild'
  <2>1. ASSUME NEW q \in Slots, state'[q] = "SLEEPING"
        PROVE  /\ q # p /\ state[q] = "SLEEPING" /\ chan[q] # parent[p]
               /\ ~(chan[q] = Init1 /\ ZombieChildren(p) # {})
    BY <1>11, <2>1 DEF Exit, Die, SwitchAway, WakeParents
  <2>2. /\ \A q \in Slots : parent'[q] = IF parent[q] = p THEN Init1 ELSE parent[q]
        /\ \A q \in Slots : state'[q] = "ZOMBIE" => q = p \/ state[q] = "ZOMBIE"
        /\ chan' = chan /\ killed' = killed
    BY <1>11 DEF Exit, Die, Adopted, SwitchAway, WakeParents
  <2> QED BY <2>1, <2>2
<1>12. ASSUME NEW p \in Slots, Reap(p) PROVE NoSleepPastChild'
  BY <1>12, FirstZombie DEF Reap, Go
<1>13. ASSUME NEW p \in Slots, NoChild(p) PROVE NoSleepPastChild'
  BY <1>13 DEF NoChild, Go
<1>14. ASSUME NEW p \in Slots, WaitSleep(p) PROVE NoSleepPastChild'
  BY <1>14, SlotFacts DEF WaitSleep, SleepForChild, SwitchAway, LeaveCPU, Go
<1>15. ASSUME NEW p \in Slots, TakeTicks(p) PROVE NoSleepPastChild'
  BY <1>15 DEF TakeTicks, Go
<1>16. ASSUME NEW p \in Slots, SleepOver(p) PROVE NoSleepPastChild'
  BY <1>16 DEF SleepOver, Go
<1>17. ASSUME NEW p \in Slots, SleepOnTicks(p) PROVE NoSleepPastChild'
  BY <1>17, SlotFacts DEF SleepOnTicks, SwitchAway, LeaveCPU, Go
<1>18. ASSUME NEW p \in Slots, Relock(p) PROVE NoSleepPastChild'
  BY <1>18 DEF Relock, Go
<1>19. ASSUME NEW p \in Slots, NEW place \in Syscalls, Call(p, place) PROVE NoSleepPastChild'
  BY <1>19 DEF Call, Go
<1>20. ASSUME NEW p \in Slots, SetTickets(p) PROVE NoSleepPastChild'
  <2>1. PICK n \in TicketChoices : tickets' = [tickets EXCEPT ![p] = n]
    BY <1>20 DEF SetTickets
  <2> QED BY <1>20, <2>1 DEF SetTickets
<1>21. ASSUME NEW p \in Slots, Kill(p) PROVE NoSleepPastChild'
  <2>1. PICK k \in KillPids :
          LET hit == {q \in Slots : pid[q] = k}
              q == Min(hit)
          IN  /\ hit # {}
              /\ killed' = [killed EXCEPT ![q] = TRUE]
              /\ state' = [state EXCEPT ![q] = IF @ = "SLEEPING" THEN "RUNNABLE" ELSE @]
    BY <1>21 DEF Kill
  <2> QED BY <1>21, <2>1, FirstNamed DEF Kill
<1>22. CASE TickBegin
  BY <1>22, SlotFacts DEF TickBegin
<1>23. CASE TickEnd
  BY <1>23, SlotFacts DEF TickEnd, Woken
<1>24. CASE UNCHANGED vars
  BY <1>24 DEF vars, table, locals, clock
<1> HIDE DEF TypeOK, Forking, Running, States, locals, clock, table, ForkersOwn, Parents, Alive, NoSleepPastChild, ZombieChildren, ChildrenOf
<1> QED
  BY <1>1, <1>2, <1>3, <1>4, <1>5, <1>6, <1>7, <1>8, <1>9,
     <1>10, <1>11, <1>12, <1>13, <1>14, <1>15, <1>16, <1>17, <1>18,
     <1>19, <1>20, <1>21, <1>22, <1>23, <1>24
  DEF Next, KernelStep, UserStep

(* The clock moves only under tickslock, and wakes before it lets go. *)
LEMMA NextSleepers ==
  ASSUME TypeOK, ForkersOwn, Sleepers, [Next]_vars PROVE Sleepers'
<1> USE NprocAssumption, PidAssumption, ChoicesAssumption
    DEF TypeOK, Forking, Running, States, locals, clock, table, ForkersOwn, Sleepers
<1>1. ASSUME NEW c \in CPUs, Schedule(c) PROVE Sleepers'
  <2>1. PICK draw \in Draws :
          /\ Winners(draw) # {}
          /\ cpuproc' = [cpuproc EXCEPT ![c] = Min(Winners(draw))]
          /\ state' = [state EXCEPT ![Min(Winners(draw))] = "RUNNING"]
          /\ chan' = [chan EXCEPT ![Min(Winners(draw))] = None]
    BY <1>1 DEF Schedule
  <2> QED BY <1>1, <2>1, FirstWinner DEF Schedule
<1>2. ASSUME NEW p \in Slots, Yield(p) PROVE Sleepers'
  BY <1>2 DEF Yield, SwitchAway, LeaveCPU, Go
<1>3. ASSUME NEW p \in Slots, KilledExit(p) PROVE Sleepers'
  BY <1>3 DEF KilledExit, Go
<1>4. ASSUME NEW p \in Slots, AllocProc(p) PROVE Sleepers'
  BY <1>4, FirstFree, SlotFacts DEF AllocProc, TakeSlot, Go
<1>5. ASSUME NEW p \in Slots, ForkFull(p) PROVE Sleepers'
  BY <1>5 DEF ForkFull, Go
<1>6. ASSUME NEW p \in Slots, AllocStack(p) PROVE Sleepers'
  <2>1. np[p] \in Slots
    BY <1>6 DEF AllocStack
  <2> QED BY <1>6, <2>1 DEF AllocStack, Go
<1>7. ASSUME NEW p \in Slots, ForkFails(p) PROVE Sleepers'
  BY <1>7 DEF ForkFails, DropChild, Go
<1>8. ASSUME NEW p \in Slots, CopyChild(p) PROVE Sleepers'
  BY <1>8 DEF CopyChild, Inherit, Go
<1>9. ASSUME NEW p \in Slots, Publish(p) PROVE Sleepers'
  BY <1>9 DEF Publish
<1>10. ASSUME NEW p \in Slots, InitExits(p) PROVE Sleepers'
  BY <1>10 DEF InitExits
<1>11. ASSUME NEW p \in Slots, Exit(p) PROVE Sleepers'
  BY <1>11, SlotFacts DEF Exit, Die, Adopted, WakeParents, SwitchAway, LeaveCPU, Go, ZombieChildren, ChildrenOf
<1>12. ASSUME NEW p \in Slots, Reap(p) PROVE Sleepers'
  BY <1>12, FirstZombie DEF Reap, Go
<1>13. ASSUME NEW p \in Slots, NoChild(p) PROVE Sleepers'
  BY <1>13 DEF NoChild, Go
<1>14. ASSUME NEW p \in Slots, WaitSleep(p) PROVE Sleepers'
  BY <1>14, SlotFacts DEF WaitSleep, SleepForChild, SwitchAway, LeaveCPU, Go
<1>15. ASSUME NEW p \in Slots, TakeTicks(p) PROVE Sleepers'
  BY <1>15, SlotFacts DEF TakeTicks, Go
<1>16. ASSUME NEW p \in Slots, SleepOver(p) PROVE Sleepers'
  BY <1>16, SlotFacts DEF SleepOver, Go
<1>17. ASSUME NEW p \in Slots, SleepOnTicks(p) PROVE Sleepers'
  BY <1>17, SlotFacts DEF SleepOnTicks, SwitchAway, LeaveCPU, Go
<1>18. ASSUME NEW p \in Slots, Relock(p) PROVE Sleepers'
  BY <1>18, SlotFacts DEF Relock, Go
<1>19. ASSUME NEW p \in Slots, NEW place \in Syscalls, Call(p, place) PROVE Sleepers'
  BY <1>19 DEF Call, Go
<1>20. ASSUME NEW p \in Slots, SetTickets(p) PROVE Sleepers'
  <2>1. PICK n \in TicketChoices : tickets' = [tickets EXCEPT ![p] = n]
    BY <1>20 DEF SetTickets
  <2> QED BY <1>20, <2>1 DEF SetTickets
<1>21. ASSUME NEW p \in Slots, Kill(p) PROVE Sleepers'
  <2>1. PICK k \in KillPids :
          LET hit == {q \in Slots : pid[q] = k}
              q == Min(hit)
          IN  /\ hit # {}
              /\ killed' = [killed EXCEPT ![q] = TRUE]
              /\ state' = [state EXCEPT ![q] = IF @ = "SLEEPING" THEN "RUNNABLE" ELSE @]
    BY <1>21 DEF Kill
  <2> QED BY <1>21, <2>1, FirstNamed DEF Kill
<1>22. CASE TickBegin
  BY <1>22, SlotFacts DEF TickBegin
<1>23. CASE TickEnd
  BY <1>23, SlotFacts DEF TickEnd, Woken
<1>24. CASE UNCHANGED vars
  BY <1>24 DEF vars, table, locals, clock
<1> HIDE DEF TypeOK, Forking, Running, States, locals, clock, table, ForkersOwn, Sleepers
<1> QED
  BY <1>1, <1>2, <1>3, <1>4, <1>5, <1>6, <1>7, <1>8, <1>9,
     <1>10, <1>11, <1>12, <1>13, <1>14, <1>15, <1>16, <1>17, <1>18,
     <1>19, <1>20, <1>21, <1>22, <1>23, <1>24
  DEF Next, KernelStep, UserStep
-----------------------------------------------------------------------------
(* The inductive invariant.                                                 *)
IInv == /\ TypeOK /\ ForkersOwn /\ PidsGiven /\ PidsUnique /\ OneCPU
        /\ Parents /\ Stacks /\ NoSleepPastChild /\ Sleepers

LEMMA InitIInv == Init => IInv
<1> SUFFICES ASSUME Init PROVE IInv
  OBVIOUS
<1> USE PidAssumption, ChoicesAssumption, SlotFacts
<1>1. TypeOK
  <2>1. PICK n \in TicketChoices :
          tickets = [p \in Slots |-> IF p = Init1 THEN n ELSE 0]
    BY DEF Init
  <2>2. tickets \in [Slots -> TicketChoices \cup {0}]
    BY <2>1
  <2>3. pid \in [Slots -> 0 .. MaxPid] /\ until \in [Slots -> 0 .. MaxTicks + 1]
    BY DEF Init
  <2>4. /\ state \in [Slots -> States] /\ killed \in [Slots -> BOOLEAN]
        /\ parent \in [Slots -> Slots \cup {None}]
        /\ chan \in [Slots -> Slots \cup {None, TicksChan}]
    BY DEF Init, States
  <2>5. /\ at \in [Slots -> {"user", "exit", "zombie", "fork", "kstack", "copy",
                            "publish", "wait", "sleep", "ticks", "relock"}]
        /\ np \in [Slots -> Slots \cup {None}]
        /\ cpuproc \in [CPUs -> Slots \cup {None}]
    BY DEF Init
  <2>6. /\ kstack \subseteq Slots /\ nextpid \in 2 .. MaxPid + 1
        /\ ticks \in 0 .. MaxTicks /\ tickslock \in Slots \cup {None, Timer}
    BY DEF Init
  <2>7. panicked \in BOOLEAN
    BY DEF Init
  <2> QED BY <2>2, <2>3, <2>4, <2>5, <2>6, <2>7 DEF TypeOK
<1>2. /\ \A p \in Slots : state[p] \in {"UNUSED", "RUNNABLE"} /\ at[p] = "user"
      /\ \A p \in Slots : parent[p] = None /\ (state[p] = "RUNNABLE" <=> p = Init1)
      /\ pid[Init1] = 1 /\ nextpid = 2 /\ kstack = {Init1}
      /\ \A c \in CPUs : cpuproc[c] = None
  BY DEF Init
<1>3. ForkersOwn /\ PidsGiven /\ PidsUnique
  BY <1>2 DEF ForkersOwn, Forking, PidsGiven, PidsUnique, Live
<1>4. OneCPU /\ Parents /\ Stacks
  BY <1>2 DEF OneCPU, Running, Parents, Alive, Stacks, StacksAccounted
<1>5. NoSleepPastChild /\ Sleepers
  BY <1>2 DEF NoSleepPastChild, Sleepers
<1> QED BY <1>1, <1>3, <1>4, <1>5 DEF IInv

LEMMA NextIInv == IInv /\ [Next]_vars => IInv'
BY NextTypeOK, NextForkersOwn, NextPids, NextOneCPU, NextParents, NextStacks,
   NextNoSleepPastChild, NextSleepers DEF IInv

THEOREM Consistent == Spec => []IInv
BY InitIInv, NextIInv, PTL DEF Spec

(* proc.c: every field of the process table keeps its type.                 *)
THEOREM TypeCorrect == Spec => []TypeOK
<1>1. IInv => TypeOK BY DEF IInv
<1> QED BY <1>1, Consistent, PTL

(* proc.c:74-117, 195-200, 290-307: no two processes have the same pid.     *)
THEOREM PidsCorrect == Spec => []PidsUnique
<1>1. IInv => PidsUnique BY DEF IInv
<1> QED BY <1>1, Consistent, PTL

(* proc.c:372-429: a process runs on the CPU that chose it and on no other. *)
THEOREM SchedulerCorrect == Spec => []OneCPU
<1>1. IInv => OneCPU BY DEF IInv
<1> QED BY <1>1, Consistent, PTL

(* proc.c:263-270: every process but the first has a living parent.         *)
THEOREM OrphansAdopted == Spec => []ParentLives
<1>1. IInv => ParentLives BY DEF IInv, Parents, Alive, ParentLives
<1> QED BY <1>1, Consistent, PTL

(* proc.c:94-100, 195-200, 298-299: kernel stacks are neither lost nor shared. *)
THEOREM StacksCorrect == Spec => []StacksAccounted
<1>1. IInv => StacksAccounted BY DEF IInv, Stacks
<1> QED BY <1>1, Consistent, PTL

(* proc.c:258-276, 311-318: wait() does not sleep past an exited child.     *)
THEOREM NoLostChild == Spec => []NoSleepPastChild
<1>1. IInv => NoSleepPastChild BY DEF IInv
<1> QED BY <1>1, Consistent, PTL

(* proc.c:490-525, sysproc.c:67-76: sys_sleep does not miss its tick.       *)
THEOREM NoLostTick == Spec => []NoSleepPastTick
<1>1. IInv => NoSleepPastTick
  BY SlotFacts DEF IInv, Sleepers, NoSleepPastTick
<1> QED BY <1>1, Consistent, PTL

(* proc.c:74-307: slots, pids, processors, parents and stacks fit together. *)
THEOREM ProcessesCorrect == Spec => []ProcessesSound
<1>1. TypeOK /\ PidsUnique /\ OneCPU /\ ParentLives /\ StacksAccounted => ProcessesSound
  BY DEF ProcessesSound
<1> QED
  BY TypeCorrect, PidsCorrect, SchedulerCorrect, OrphansAdopted, StacksCorrect, <1>1, PTL

(* proc.c:490-538: no wakeup is lost, of a parent or of the clock.          *)
THEOREM WakeupsCorrect == Spec => []NoLostWakeup
<1>1. NoSleepPastChild /\ NoSleepPastTick => NoLostWakeup BY DEF NoLostWakeup
<1> QED BY NoLostChild, NoLostTick, <1>1, PTL

-----------------------------------------------------------------------------
(* The lottery: draws of a process are the interval its tickets take.      *)
(* Running sums exist, are naturals and never fall.                        *)
SumOf(f, w, n) == f = [q \in 0 .. n |-> IF q = 0 THEN 0 ELSE f[q - 1] + w[q]]

LEMMA SumExists ==
  ASSUME NEW w, NEW n \in Nat
  PROVE  \E f : SumOf(f, w, n)
<1> DEFINE none == {k \in Nat : ~\E f : SumOf(f, w, k)}
<1>1. SUFFICES ASSUME none # {} PROVE FALSE
  OBVIOUS
<1>2. PICK k \in none : \A j \in none : k <= j
  BY <1>1, MinIsMember
<1>3. CASE k = 0
  <2>1. SumOf([q \in 0 .. 0 |-> 0], w, 0)
    <3>1. \A q \in 0 .. 0 : q = 0
      OBVIOUS
    <3> QED BY <3>1 DEF SumOf
  <2> QED BY <1>2, <1>3, <2>1
<1>4. CASE k # 0
  <2>1. k - 1 \in Nat /\ k \in Nat /\ ~(k <= k - 1)
    BY <1>2, <1>4
  <2>2. PICK f : SumOf(f, w, k - 1)
    BY <1>2, <2>1
  <2>3. PICK g : g = [q \in 0 .. k |-> IF q < k THEN f[q] ELSE f[k - 1] + w[k]]
    OBVIOUS
  <2>4. \A q \in 0 .. k - 1 : q \in 0 .. k /\ g[q] = f[q] /\ f[q] = IF q = 0 THEN 0 ELSE f[q - 1] + w[q]
    BY <2>1, <2>2, <2>3 DEF SumOf
  <2>5. \A q \in 0 .. k : g[q] = IF q = 0 THEN 0 ELSE g[q - 1] + w[q]
    <3>1. SUFFICES ASSUME NEW q \in 0 .. k PROVE g[q] = IF q = 0 THEN 0 ELSE g[q - 1] + w[q]
      OBVIOUS
    <3>2. CASE q = k
      <4>1. k - 1 \in 0 .. k - 1 /\ g[k - 1] = f[k - 1] /\ g[k] = f[k - 1] + w[k]
        BY <2>1, <2>3, <2>4
      <4> QED BY <1>4, <3>2, <4>1
    <3>3. CASE q # k
      <4>1. q \in 0 .. k - 1 /\ (q # 0 => q - 1 \in 0 .. k - 1)
        BY <2>1, <3>3
      <4> QED BY <2>4, <4>1
    <3> QED BY <3>2, <3>3
  <2>6. g = [q \in 0 .. k |-> IF q = 0 THEN 0 ELSE g[q - 1] + w[q]]
    BY <2>3, <2>5
  <2> QED BY <1>2, <2>6 DEF SumOf
<1> QED BY <1>3, <1>4

LEMMA SumGrows ==
  ASSUME NEW n \in Nat, NEW w, NEW f, SumOf(f, w, n), \A q \in 1 .. n : w[q] \in Nat
  PROVE  /\ f[0] = 0 /\ \A q \in 1 .. n : f[q] = f[q - 1] + w[q]
         /\ \A q \in 0 .. n : f[q] \in Nat
         /\ \A p, q \in 0 .. n : p <= q => f[p] <= f[q]
<1>1. f[0] = 0 /\ \A q \in 1 .. n : q - 1 \in 0 .. n /\ f[q] = f[q - 1] + w[q]
  BY DEF SumOf
<1>2. \A q \in 0 .. n : f[q] \in Nat
  <2> DEFINE off == {q \in 0 .. n : f[q] \notin Nat}
  <2>1. SUFFICES ASSUME off # {} PROVE FALSE
    OBVIOUS
  <2>2. off \in SUBSET Nat
    OBVIOUS
  <2>3. PICK q \in off : \A r \in off : q <= r
    BY <2>1, <2>2, MinIsMember
  <2>4. q # 0 /\ q \in 1 .. n /\ ~(q <= q - 1)
    BY <1>1, <2>3
  <2>5. f[q - 1] \in Nat
    BY <1>1, <2>3, <2>4
  <2> QED BY <1>1, <2>3, <2>4, <2>5
<1>3. ASSUME NEW p \in 0 .. n, NEW q \in 0 .. n, p <= q PROVE f[p] <= f[q]
  <2> DEFINE off == {r \in p .. n : ~(f[p] <= f[r])}
  <2>1. SUFFICES ASSUME off # {} PROVE FALSE
    BY <1>3
  <2>2. off \in SUBSET Nat
    OBVIOUS
  <2>3. PICK r \in off : \A s \in off : r <= s
    BY <2>1, <2>2, MinIsMember
  <2>4. r # p /\ r \in 1 .. n /\ r - 1 \in p .. n /\ r - 1 \in 0 .. n /\ r \in 0 .. n /\ ~(r <= r - 1)
    BY <1>2, <2>3
  <2>5. f[p] <= f[r - 1]
    BY <2>3, <2>4
  <2>6. f[r] = f[r - 1] + w[r] /\ f[r] \in Nat /\ f[r - 1] \in Nat /\ f[p] \in Nat /\ w[r] \in Nat
    BY <1>1, <1>2, <2>4
  <2>7. f[p] <= f[r]
    BY <2>5, <2>6
  <2> QED BY <2>3, <2>7
<1> QED BY <1>1, <1>2, <1>3

LEMMA TicketsAddUp ==
  ASSUME tickets \in [Slots -> Nat]
  PROVE  /\ TicketsUpTo(0) = 0
         /\ \A p \in Slots :
              TicketsUpTo(p) = TicketsUpTo(p - 1) + IF p \in Runnable THEN tickets[p] ELSE 0
         /\ \A p \in 0 .. NPROC : TicketsUpTo(p) \in Nat
         /\ \A p, q \in 0 .. NPROC : p <= q => TicketsUpTo(p) <= TicketsUpTo(q)
<1> DEFINE w == [q \in Slots |-> IF q \in Runnable THEN tickets[q] ELSE 0]
           Step(f) == [q \in 0 .. NPROC |->
                         IF q = 0 THEN 0 ELSE f[q - 1] + (IF q \in Runnable THEN tickets[q] ELSE 0)]
           sum == CHOOSE f : f = Step(f)
<1>1. NPROC \in Nat /\ Slots = 1 .. NPROC
  BY NprocAssumption DEF Slots
<1>2. \A f : SumOf(f, w, NPROC) <=> f = Step(f)
  <2>1. \A q \in 0 .. NPROC : q # 0 => q \in Slots /\ w[q] = IF q \in Runnable THEN tickets[q] ELSE 0
    BY <1>1
  <2> HIDE DEF w
  <2> SUFFICES ASSUME NEW f PROVE SumOf(f, w, NPROC) <=> f = Step(f)
    OBVIOUS
  <2>2. [q \in 0 .. NPROC |-> IF q = 0 THEN 0 ELSE f[q - 1] + w[q]] = Step(f)
    BY <2>1
  <2> QED BY <2>2 DEF SumOf
<1>3. \E f : f = Step(f)
  BY <1>1, <1>2, SumExists
<1>4. sum = Step(sum)
  BY <1>3
<1>5. \A q \in 1 .. NPROC : w[q] \in Nat
  BY <1>1
<1>6. \A p : TicketsUpTo(p) = sum[p]
  BY DEF TicketsUpTo
<1> HIDE DEF sum, Step
<1>7. SumOf(sum, w, NPROC)
  BY <1>2, <1>4
<1>8. \A p \in Slots : w[p] = IF p \in Runnable THEN tickets[p] ELSE 0
  OBVIOUS
<1> HIDE DEF w
<1>9. /\ sum[0] = 0 /\ \A q \in 1 .. NPROC : sum[q] = sum[q - 1] + w[q]
      /\ \A q \in 0 .. NPROC : sum[q] \in Nat
      /\ \A p, q \in 0 .. NPROC : p <= q => sum[p] <= sum[q]
  BY <1>1, <1>5, <1>7, SumGrows
<1> QED BY <1>1, <1>6, <1>8, <1>9

LEMMA DrawsAreTickets ==
  ASSUME tickets \in [Slots -> Nat], NEW p \in Runnable
  PROVE  {d \in Draws : Winners(d) # {} /\ p = Min(Winners(d))}
           = TicketsUpTo(p - 1) .. TicketsUpTo(p) - 1
<1> DEFINE U(q) == TicketsUpTo(q)
<1>1. NPROC \in Nat /\ Slots = 1 .. NPROC /\ Runnable \subseteq Slots
  BY NprocAssumption DEF Slots, Runnable
<1>2. /\ U(0) = 0
      /\ \A q \in Slots : U(q) = U(q - 1) + IF q \in Runnable THEN tickets[q] ELSE 0
      /\ \A q \in 0 .. NPROC : U(q) \in Nat
      /\ \A q, r \in 0 .. NPROC : q <= r => U(q) <= U(r)
  BY TicketsAddUp
<1>3. Draws = 0 .. U(NPROC) /\ \A d : Winners(d) = {q \in Runnable : d < U(q)}
  BY DEF Draws, TotalTickets, Winners
<1> HIDE DEF U
<1>4. p \in 0 .. NPROC /\ p - 1 \in 0 .. NPROC /\ NPROC \in 0 .. NPROC /\ 0 \in 0 .. NPROC /\ p <= NPROC
  BY <1>1
<1>5. \A d : Winners(d) \in SUBSET Nat
  BY SlotFacts DEF Winners, Runnable
<1>6. ASSUME NEW d \in U(p - 1) .. U(p) - 1
      PROVE  d \in Draws /\ Winners(d) # {} /\ p = Min(Winners(d))
  <2>1. d \in Int /\ 0 <= d /\ d < U(p) /\ U(p) <= U(NPROC) /\ U(p - 1) <= d
    BY <1>2, <1>4
  <2>2. d \in Draws
    BY <1>2, <1>3, <1>4, <2>1
  <2>3. p \in Winners(d)
    BY <1>3, <2>1
  <2>4. ASSUME NEW q \in Winners(d) PROVE p <= q
    <3>1. q \in 0 .. NPROC /\ d < U(q) /\ U(q) \in Nat /\ U(p - 1) \in Nat
      <4>1. q \in Runnable /\ d < U(q)
        BY <1>3
      <4>2. q \in 0 .. NPROC
        BY <1>1, <4>1
      <4> QED BY <1>2, <1>4, <4>1, <4>2
    <3>2. q <= p - 1 => U(q) <= U(p - 1)
      BY <1>2, <1>4, <3>1
    <3> QED BY <1>4, <2>1, <3>1, <3>2
  <2>5. Min(Winners(d)) \in Winners(d) /\ \A q \in Winners(d) : Min(Winners(d)) <= q
    BY <1>5, <2>3, MinIsMember
  <2>6. p <= Min(Winners(d)) /\ Min(Winners(d)) <= p /\ Min(Winners(d)) \in Nat
    BY <1>5, <2>3, <2>4, <2>5
  <2> QED BY <1>4, <2>2, <2>3, <2>6
<1>7. ASSUME NEW d \in Draws, Winners(d) # {}, p = Min(Winners(d))
      PROVE  d \in U(p - 1) .. U(p) - 1
  <2>1. p \in Winners(d) /\ \A q \in Winners(d) : p <= q
    BY <1>5, <1>7, MinIsMember
  <2>2. d \in Nat /\ d < U(p) /\ U(p) \in Nat /\ U(p - 1) \in Nat
    BY <1>2, <1>3, <1>4, <2>1
  <2>3. ASSUME d < U(p - 1) PROVE FALSE
    <3> DEFINE past == {q \in 0 .. p - 1 : d < U(q)}
    <3>1. past \in SUBSET Nat /\ p - 1 \in past
      BY <1>4, <2>3
    <3>2. PICK q \in past : \A r \in past : q <= r
      BY <3>1, MinIsMember
    <3>3. q # 0 /\ q \in Slots /\ q - 1 \in 0 .. p - 1 /\ ~(q <= q - 1) /\ q - 1 \in 0 .. NPROC
          /\ q \in 0 .. NPROC /\ ~(p <= q)
      BY <1>1, <1>2, <1>4, <2>2, <3>2
    <3>4. ~(d < U(q - 1)) /\ d < U(q)
      BY <3>2, <3>3
    <3>5. q \in Runnable
      BY <1>2, <2>2, <3>3, <3>4
    <3>6. q \in Winners(d)
      BY <1>3, <3>4, <3>5
    <3> QED BY <2>1, <3>3, <3>6
  <2> QED BY <2>2, <2>3
<1> QED BY <1>3, <1>6, <1>7 DEF U

(* proc.c:387-409: a process wins as many draws as it has tickets.          *)
THEOREM LotteryCorrect == Spec => []LotteryFair
<1>1. ASSUME TypeOK, NEW p \in Runnable
      PROVE  Cardinality({d \in Draws : Winners(d) # {} /\ p = Min(Winners(d))}) = tickets[p]
  <2>1. tickets \in [Slots -> Nat] /\ p \in Slots /\ p \in 0 .. NPROC /\ p - 1 \in 0 .. NPROC
    <3>1. tickets \in [Slots -> TicketChoices \cup {0}] /\ TicketChoices \cup {0} \subseteq Nat
      BY <1>1, ChoicesAssumption DEF TypeOK
    <3>2. p \in 1 .. NPROC /\ NPROC \in Nat
      BY NprocAssumption DEF Runnable, Slots
    <3> QED BY <3>1, <3>2 DEF Slots
  <2>2. /\ TicketsUpTo(p) = TicketsUpTo(p - 1) + tickets[p]
        /\ TicketsUpTo(p) \in Nat /\ TicketsUpTo(p - 1) \in Nat /\ tickets[p] \in Nat
    BY <2>1, TicketsAddUp
  <2>3. PICK a, b : a = TicketsUpTo(p - 1) /\ b = TicketsUpTo(p) - 1
    OBVIOUS
  <2>4. a \in Int /\ b \in Int /\ b - a + 1 = tickets[p] /\ (a > b => tickets[p] = 0)
    BY <2>2, <2>3
  <2>5. Cardinality(a .. b) = tickets[p]
    BY <2>4, FS_Interval
  <2> QED BY <2>1, <2>3, <2>5, DrawsAreTickets
<1>2. TypeOK => LotteryFair
  BY <1>1 DEF LotteryFair
<1> QED BY <1>2, TypeCorrect, PTL
=============================================================================
