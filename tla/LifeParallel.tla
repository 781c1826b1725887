---------------------------- MODULE LifeParallel ----------------------------
(***************************************************************************)
(* simulate_life_parallel of life/life-parallel.cc.  Each thread computes  *)
(* the cells of its own range into its next_state, waits at one barrier,   *)
(* and swaps its own two pointers; there is no second barrier after the    *)
(* swap.  Boards are named by the step parity that reads them: board 0 is  *)
(* the caller's, board 1 the copy.                                         *)
(***************************************************************************)
EXTENDS LifeRules

CONSTANT Threads   \* the number of threads; thread ids are 0 .. Threads - 1

ASSUME ThreadsAssumption == Threads \in Nat \ {0}

VARIABLES boards,   \* the contents of the two boards
          steps,
          i,        \* each thread's loop counter
          src,      \* which board each thread's pointer state points to
          cell,     \* the next cell of each thread
          pc,       \* "compute", "barrier", "swap", "end" of each thread
          arrived,  \* threads in the current round of the barrier
          released, \* how many rounds of the barrier are over
          joined    \* simulate_life_parallel is past its last join

vars == <<boards, steps, i, src, cell, pc, arrived, released, joined>>

Ids == 0 .. Threads - 1

L == INSTANCE Life WITH
       board <- boards[released % 2], done <- released

\* Lines 94-115: how the cells are divided.
CellsPerThread == NumCells \div Threads
ExtraCells == NumCells % Threads

\* Mutant: the extra cells do not shift the later ranges.
StartUnshifted(id) == IF id < ExtraCells THEN id * (CellsPerThread + 1)
                                         ELSE id * CellsPerThread

StartCell(id) == IF id < ExtraCells THEN id * (CellsPerThread + 1)
                                    ELSE id * CellsPerThread + ExtraCells

EndCell(id) == IF id < ExtraCells THEN StartCell(id) + CellsPerThread
                                  ELSE StartCell(id) + CellsPerThread - 1

\* Mutants: the barrier lets one thread too few, or too many, through.
BarrierShort == Threads - 1
BarrierLong == Threads + 1
BarrierCount == Threads

Init == /\ \E b \in Starts : boards = [k \in 0 .. 1 |-> b]
        /\ steps \in 0 .. MaxSteps
        /\ i = [t \in Ids |-> 0]
        /\ src = [t \in Ids |-> 0]
        /\ cell = [t \in Ids |-> StartCell(t)]
        /\ pc = [t \in Ids |-> "compute"]
        /\ arrived = {} /\ released = 0
        /\ joined = FALSE

InStep(t) == pc[t] = "compute" /\ i[t] < steps

ComputeInto(t, target) ==
  /\ InStep(t) /\ cell[t] <= EndCell(t)
  /\ boards' = IF cell[t] \in Interior
               THEN [boards EXCEPT ![target][cell[t]] =
                       NextCell(boards[src[t]], cell[t])]
               ELSE boards
  /\ cell' = [cell EXCEPT ![t] = @ + 1]
  /\ UNCHANGED <<steps, i, src, pc, arrived, released, joined>>

\* Mutant: the generation that is read is written over.
ComputeInPlace(t) == ComputeInto(t, src[t])
ComputeCell(t) == ComputeInto(t, 1 - src[t])

\* pthread_barrier_wait: the last to arrive opens the barrier for all.
Arrive(t) ==
  /\ InStep(t) /\ cell[t] > EndCell(t)
  /\ \/ /\ Cardinality(arrived) + 1 < BarrierCount
        /\ arrived' = arrived \cup {t}
        /\ pc' = [pc EXCEPT ![t] = "barrier"]
        /\ UNCHANGED released
     \/ /\ Cardinality(arrived) + 1 = BarrierCount
        /\ pc' = [u \in Ids |-> IF u \in arrived \cup {t} THEN "swap" ELSE pc[u]]
        /\ arrived' = {}
        /\ released' = released + 1
  /\ UNCHANGED <<boards, steps, i, src, cell, joined>>

MovePointers(t, board) ==
  /\ pc[t] = "swap"
  /\ src' = [src EXCEPT ![t] = board]
  /\ i' = [i EXCEPT ![t] = @ + 1]
  /\ cell' = [cell EXCEPT ![t] = StartCell(t)]
  /\ pc' = [pc EXCEPT ![t] = "compute"]
  /\ UNCHANGED <<boards, steps, arrived, released, joined>>

\* Mutant: both pointers only move forward.
AdvancePointers(t) == MovePointers(t, src[t] + 1)
SwapPointers(t) == MovePointers(t, 1 - src[t])

Finish(t) ==
  /\ pc[t] = "compute" /\ i[t] = steps
  /\ pc' = [pc EXCEPT ![t] = "end"]
  /\ UNCHANGED <<boards, steps, i, src, cell, arrived, released, joined>>

JoinWith(parity) ==
  /\ ~joined /\ \A t \in Ids : pc[t] = "end"
  /\ boards' = IF steps % 2 = parity THEN [boards EXCEPT ![0] = boards[1]]
                                     ELSE boards
  /\ joined' = TRUE
  /\ UNCHANGED <<steps, i, src, cell, pc, arrived, released>>

\* Mutant: the copy is made after an even number of steps.
JoinEven == JoinWith(0)
Join == JoinWith(1)

ThreadStep(t) == ComputeCell(t) \/ Arrive(t) \/ SwapPointers(t) \/ Finish(t)

Next == Join \/ \E t \in Ids : ThreadStep(t)

Spec == Init /\ [][Next]_vars

-----------------------------------------------------------------------------
TypeOK ==
  /\ boards \in [0 .. 1 -> Boards]
  /\ steps \in 0 .. MaxSteps
  /\ i \in [Ids -> 0 .. MaxSteps]
  /\ src \in [Ids -> 0 .. 1]
  /\ cell \in [Ids -> 0 .. NumCells]
  /\ pc \in [Ids -> {"compute", "barrier", "swap", "end"}]
  /\ arrived \subseteq Ids
  /\ released \in 0 .. MaxSteps
  /\ joined \in BOOLEAN

Writing == {t \in Ids : InStep(t) /\ cell[t] <= EndCell(t)
                                 /\ cell[t] \in Interior}

\* One barrier is enough (life-parallel.cc:64-70): a cell that a thread may
\* be writing is neither read nor written by another thread at that moment,
\* although some threads may already be in the next step.
NoDataRace ==
  \A t, u \in Writing : t # u =>
    <<1 - src[t], cell[t]>> \notin
      {<<src[u], c>> : c \in Window(cell[u])} \cup {<<1 - src[u], cell[u]>>}

\* In a step no cell is computed by two threads, and when all threads have come
\* to the end of their ranges no cell of the board is left out, also when the
\* cells do not divide evenly or there are more threads than cells
\* (life-parallel.cc:34, 93-115).
Computed(t) == StartCell(t) .. cell[t] - 1

CellsDivided ==
  /\ \A t, u \in Ids : t # u => Computed(t) \cap Computed(u) = {}
  /\ (\A t \in Ids : cell[t] > EndCell(t)) => Cells = UNION {Computed(t) : t \in Ids}

\* Whatever the threads' interleaving, the rounds of the barrier go through
\* the generations of Life (life.h:74-79).
ParallelImplementsLife == L!Spec

\* The call returns.
CallReturns == <>joined

\* Threads use the two boards apart, through one barrier (life-parallel.cc:64-70).
BoardsSound == TypeOK /\ NoDataRace
=============================================================================
