----------------------------- MODULE LifeProofs -----------------------------
(***************************************************************************)
(* How simulate_life_parallel divides a board, keeps its threads apart and *)
(* goes through the generations, and that it agrees with the serial        *)
(* version, for every board size, every number of threads and of steps.    *)
(***************************************************************************)
EXTENDS LifeMain, FiniteSetTheorems, TLAPS

\* Division with remainder, the form the other proofs use.
LEMMA Division ==
  /\ CellsPerThread \in Nat /\ ExtraCells \in Nat
  /\ ExtraCells < Threads
  /\ NumCells = CellsPerThread * Threads + ExtraCells
  BY SizeAssumption, ThreadsAssumption
  DEF CellsPerThread, ExtraCells, NumCells

\* A later thread's range starts after an earlier one's has ended.
LEMMA Ordered ==
  ASSUME NEW t \in Ids, NEW u \in Ids, t < u
  PROVE  EndCell(t) < StartCell(u)
<1> DEFINE q == CellsPerThread
           e == ExtraCells
<1>1. q \in Nat /\ e \in Nat /\ t \in Nat /\ u \in Nat /\ t + 1 <= u
  BY Division, ThreadsAssumption DEF Ids
<1>2. (t + 1) * q <= u * q
  BY <1>1
<1>3. (t + 1) * q = t * q + q
  BY <1>1
<1>4. t * (q + 1) = t * q + t /\ u * (q + 1) = u * q + u
  BY <1>1
<1> QED
  BY <1>1, <1>2, <1>3, <1>4 DEF StartCell, EndCell

\* Every cell is in some thread's range.
LEMMA Covered ==
  ASSUME NEW c \in Cells
  PROVE  \E t \in Ids : c \in StartCell(t) .. EndCell(t)
<1> DEFINE q == CellsPerThread
           e == ExtraCells
<1>1. /\ q \in Nat /\ e \in Nat /\ e < Threads
      /\ c \in Nat /\ c < q * Threads + e
      /\ Threads \in Nat
  BY Division, ThreadsAssumption, SizeAssumption DEF Cells, NumCells
<1>2. CASE c < e * (q + 1)
  <2> DEFINE t == c \div (q + 1)
  <2>1. t \in Nat /\ t * (q + 1) <= c /\ c < t * (q + 1) + (q + 1)
    BY <1>1
  <2>2. t < e
    BY <2>1, <1>1, <1>2
  <2>3. t \in Ids
    BY <2>1, <2>2, <1>1 DEF Ids
  <2> QED
    BY <2>1, <2>2, <2>3, <1>1 DEF StartCell, EndCell
<1>3. CASE c >= e * (q + 1)
  <2> DEFINE t == (c - e) \div q
  <2>1. e * (q + 1) = e * q + e
    BY <1>1
  <2>2. q > 0 /\ c - e \in Nat
    BY <1>1, <1>3, <2>1
  <2>3. t \in Nat /\ t * q <= c - e /\ c - e < t * q + q
    BY <2>2, <1>1
  <2>4. c - e < Threads * q /\ c - e >= e * q
    BY <1>1, <1>3, <2>1
  <2>5. t < Threads /\ t >= e
    <3>1. t * q < Threads * q /\ e * q < (t + 1) * q
      BY <2>2, <2>3, <2>4, <1>1
    <3> QED BY <3>1, <2>2, <2>3, <1>1
  <2>6. t \in Ids
    BY <2>3, <2>5, <1>1 DEF Ids
  <2>7. StartCell(t) = t * q + e /\ EndCell(t) = t * q + e + q - 1
    BY <2>3, <2>5, <1>1 DEF StartCell, EndCell
  <2> HIDE DEF t
  <2>8. c \in StartCell(t) .. EndCell(t)
    BY <2>3, <2>7, <1>1
  <2> QED
    BY <2>6, <2>8
<1> QED BY <1>1, <1>2, <1>3

-----------------------------------------------------------------------------
(* Each thread walks through its own range and no further.                 *)

InRange == /\ cell \in [Ids -> Int]
           /\ \A t \in Ids : cell[t] \in StartCell(t) .. EndCell(t) + 1

LEMMA RangeTypes ==
  ASSUME NEW t \in Ids
  PROVE  /\ StartCell(t) \in Nat /\ EndCell(t) \in Int
         /\ StartCell(t) <= EndCell(t) + 1 /\ EndCell(t) < NumCells
<1> DEFINE q == CellsPerThread
<1>1. q \in Nat /\ ExtraCells \in Nat /\ t \in Nat /\ t * q \in Nat
      /\ t * (q + 1) = t * q + t
  BY Division DEF Ids
<1>2. t + 1 <= Threads /\ (t + 1) * q <= Threads * q /\ (t + 1) * q = t * q + q
  BY <1>1, ThreadsAssumption DEF Ids
<1> QED BY <1>1, <1>2, Division, ThreadsAssumption DEF StartCell, EndCell

LEMMA InRangeInductive ==
  /\ Init => InRange
  /\ InRange /\ [Next]_vars => InRange'
<1>1. Init => InRange
  BY RangeTypes DEF Init, InRange
<1>2. ASSUME InRange, [Next]_vars PROVE InRange'
  <2> USE <1>2 DEF InRange
  <2>1. ASSUME NEW t \in Ids, ComputeCell(t) PROVE InRange'
    BY <2>1, RangeTypes DEF ComputeCell, ComputeInto
  <2>2. ASSUME NEW t \in Ids, SwapPointers(t) PROVE InRange'
    BY <2>2, RangeTypes DEF SwapPointers, MovePointers
  <2>3. ASSUME NEW t \in Ids, Arrive(t) \/ Finish(t) PROVE InRange'
    BY <2>3 DEF Arrive, Finish
  <2>4. ASSUME Join PROVE InRange'
    BY <2>4 DEF Join, JoinWith
  <2>5. CASE UNCHANGED vars
    BY <2>5 DEF vars
  <2> QED BY <2>1, <2>2, <2>3, <2>4, <2>5, <1>2 DEF Next, ThreadStep
<1> QED BY <1>1, <1>2

LEMMA InRangeDivides == InRange => CellsDivided
<1> SUFFICES ASSUME InRange PROVE CellsDivided
  OBVIOUS
<1>1. ASSUME NEW t \in Ids, NEW u \in Ids, t # u
      PROVE  Computed(t) \cap Computed(u) = {}
  <2>1. CASE t < u
    BY <2>1, Ordered, RangeTypes DEF InRange, Computed
  <2>2. CASE u < t
    BY <2>2, Ordered, RangeTypes DEF InRange, Computed
  <2> QED BY <1>1, <2>1, <2>2, ThreadsAssumption DEF Ids
<1>2. ASSUME \A t \in Ids : cell[t] > EndCell(t)
      PROVE  Cells = UNION {Computed(t) : t \in Ids}
  <2>1. \A t \in Ids : Computed(t) = StartCell(t) .. EndCell(t)
    BY <1>2, RangeTypes DEF InRange, Computed
  <2>2. \A c \in Cells : \E t \in Ids : c \in Computed(t)
    BY <2>1, Covered
  <2>3. \A t \in Ids : Computed(t) \subseteq Cells
    BY <2>1, RangeTypes, SizeAssumption DEF Cells, NumCells
  <2> QED BY <2>2, <2>3
<1> QED BY <1>1, <1>2 DEF CellsDivided

\* Every cell is computed once in each step (life-parallel.cc:34, 93-115).
THEOREM DivisionCorrect == Spec => []CellsDivided
<1> QED BY InRangeInductive, InRangeDivides, PTL DEF Spec

-----------------------------------------------------------------------------
(* The rounds of the barrier.  Threads are at most one round apart, and a  *)
(* thread that computes is in the round that is open.                      *)

Places == {"compute", "barrier", "swap", "end"}

Types ==
  /\ boards \in [0 .. 1 -> Boards] /\ steps \in 0 .. MaxSteps
  /\ i \in [Ids -> Int] /\ src \in [Ids -> 0 .. 1] /\ pc \in [Ids -> Places]
  /\ released \in 0 .. steps /\ joined \in BOOLEAN

Rounds ==
  /\ arrived = {t \in Ids : pc[t] = "barrier"}
  /\ \A t \in Ids :
       /\ i[t] = IF pc[t] = "swap" THEN released - 1 ELSE released
       /\ src[t] = i[t] % 2 /\ i[t] \in 0 .. steps
       /\ pc[t] = "barrier" => released < steps /\ cell[t] > EndCell(t)
       /\ pc[t] = "end" => released = steps

\* The board that is read stays as it is, and what has been computed of the
\* other one is its next generation.
Now == released % 2

Written ==
  /\ \A c \in Border : boards[0][c] = boards[1][c]
  /\ \A t \in Ids : pc[t] \in {"compute", "barrier"} =>
       \A c \in Computed(t) \cap Interior : boards[1 - Now][c] = NextCell(boards[Now], c)

LifeInv == Types /\ InRange /\ Rounds /\ Written

LEMMA Turns ==
  ASSUME NEW k \in Nat
  PROVE  k % 2 \in 0 .. 1 /\ (k + 1) % 2 = 1 - (k % 2)
  OBVIOUS

LEMMA Apart ==
  ASSUME InRange, NEW t \in Ids, NEW u \in Ids, t # u, cell[t] <= EndCell(t)
  PROVE  /\ cell[t] \notin Computed(u)
         /\ cell[u] <= EndCell(u) => cell[t] # cell[u]
<1>1. CASE t < u
  BY <1>1, Ordered, RangeTypes DEF InRange, Computed
<1>2. CASE u < t
  BY <1>2, Ordered, RangeTypes DEF InRange, Computed
<1> QED BY <1>1, <1>2, ThreadsAssumption DEF Ids

LEMMA InitLifeInv == Init => LifeInv
<1> SUFFICES ASSUME Init PROVE LifeInv
  OBVIOUS
<1>1. InRange
  BY InRangeInductive
<1>2. PICK b \in Starts : boards = [k \in 0 .. 1 |-> b]
  BY DEF Init
<1>3. b \in Boards /\ steps \in Nat
  BY <1>2, StartsAssumption DEF Init
<1>4. Types
  <2>1. boards \in [0 .. 1 -> Boards]
    BY <1>2, <1>3
  <2>2. i \in [Ids -> Int] /\ src \in [Ids -> 0 .. 1]
    BY DEF Init
  <2>3. pc \in [Ids -> Places]
    BY DEF Init, Places
  <2>4. released \in 0 .. steps
    BY <1>3 DEF Init
  <2> QED BY <2>1, <2>2, <2>3, <2>4 DEF Types, Init
<1>5. Rounds
  BY <1>3 DEF Rounds, Init
<1>6. Written
  <2>1. \A t \in Ids : Computed(t) = {}
    BY RangeTypes DEF Computed, Init
  <2>2. boards[0] = boards[1]
    BY <1>2
  <2> QED BY <2>1, <2>2 DEF Written
<1> QED BY <1>1, <1>4, <1>5, <1>6 DEF LifeInv

(* The last to arrive finds everybody else at the barrier.                 *)
LEMMA LastArrives ==
  ASSUME Rounds, NEW t \in Ids, pc[t] = "compute", Cardinality(arrived) + 1 = BarrierCount
  PROVE  arrived \cup {t} = Ids
<1>1. IsFiniteSet(Ids) /\ Cardinality(Ids) = Threads
  BY FS_Interval, ThreadsAssumption DEF Ids
<1>2. arrived \subseteq Ids /\ t \notin arrived
  BY DEF Rounds
<1>3. IsFiniteSet(arrived) /\ Cardinality(arrived \cup {t}) = Cardinality(arrived) + 1
  BY <1>1, <1>2, FS_Subset, FS_AddElement
<1>4. arrived \cup {t} \subseteq Ids /\ Cardinality(arrived \cup {t}) = Cardinality(Ids)
  BY <1>1, <1>2, <1>3 DEF BarrierCount
<1> QED BY <1>1, <1>4, FS_Subset

LEMMA NextRounds == LifeInv /\ [Next]_vars => Types' /\ Rounds'
<1> SUFFICES ASSUME LifeInv, [Next]_vars PROVE Types' /\ Rounds'
  OBVIOUS
<1>1. Types /\ InRange /\ Rounds
  BY DEF LifeInv
<1>2. /\ boards \in [0 .. 1 -> Boards] /\ steps \in Nat /\ steps <= MaxSteps
      /\ i \in [Ids -> Int] /\ src \in [Ids -> 0 .. 1] /\ pc \in [Ids -> Places]
      /\ cell \in [Ids -> Int]
      /\ released \in 0 .. steps /\ joined \in BOOLEAN /\ MaxSteps \in Nat
  BY <1>1, StartsAssumption DEF Types, InRange
<1>3. ASSUME NEW t \in Ids, ComputeCell(t) PROVE Types' /\ Rounds'
  <2>1. boards' \in [0 .. 1 -> Boards]
    <3>1. src[t] \in 0 .. 1 /\ 1 - src[t] \in 0 .. 1
      BY <1>2
    <3>2. NextCell(boards[src[t]], cell[t]) \in {0, 1}
      BY DEF NextCell
    <3> DEFINE x == NextCell(boards[src[t]], cell[t])
               s == 1 - src[t]
    <3>3. boards' = [boards EXCEPT ![s] = [boards[s] EXCEPT ![cell[t]] = x]] \/ boards' = boards
      BY <1>2, <1>3, <3>1 DEF ComputeCell, ComputeInto
    <3> HIDE DEF x, s
    <3>4. s \in 0 .. 1 /\ boards[s] \in Boards /\ x \in {0, 1}
      BY <1>2, <3>1, <3>2 DEF s, x
    <3>5. [boards[s] EXCEPT ![cell[t]] = x] \in Boards
      BY <3>4 DEF Boards
    <3> QED BY <1>2, <3>3, <3>4, <3>5
  <2>2. Types'
    BY <1>2, <1>3, <2>1 DEF ComputeCell, ComputeInto, Types
  <2>3. pc[t] = "compute"
    BY <1>3 DEF ComputeCell, ComputeInto, InStep
  <2>4. Rounds'
    BY <1>1, <1>2, <1>3, <2>3 DEF ComputeCell, ComputeInto, Rounds, EndCell, StartCell
  <2> QED BY <2>2, <2>4
<1>4. ASSUME NEW t \in Ids, Arrive(t) PROVE Types' /\ Rounds'
  <2>1. /\ pc[t] = "compute" /\ i[t] < steps /\ cell[t] > EndCell(t) /\ i[t] = released
        /\ UNCHANGED <<boards, steps, i, src, cell, joined>>
    BY <1>1, <1>4 DEF Arrive, InStep, Rounds
  <2>2. CASE /\ arrived' = arrived \cup {t} /\ released' = released
             /\ pc' = [pc EXCEPT ![t] = "barrier"]
    BY <1>1, <1>2, <2>1, <2>2 DEF Types, Rounds, Places, EndCell, StartCell
  <2>3. CASE /\ Cardinality(arrived) + 1 = BarrierCount
             /\ pc' = [u \in Ids |-> IF u \in arrived \cup {t} THEN "swap" ELSE pc[u]]
             /\ arrived' = {} /\ released' = released + 1
    <3>1. arrived \cup {t} = Ids
      BY <1>1, <2>1, <2>3, LastArrives
    <3>2. pc' = [u \in Ids |-> "swap"]
      BY <2>3, <3>1
    <3>3. \A u \in Ids : i[u] = released /\ src[u] = i[u] % 2
      BY <1>1, <2>1, <3>1 DEF Rounds
    <3>4. Types'
      BY <1>2, <2>1, <2>3, <3>2 DEF Types, Places
    <3>5. Rounds'
      BY <1>2, <2>1, <2>3, <3>2, <3>3 DEF Rounds
    <3> QED BY <3>4, <3>5
  <2> QED BY <1>4, <2>2, <2>3 DEF Arrive
<1>5. ASSUME NEW t \in Ids, SwapPointers(t) PROVE Types' /\ Rounds'
  <2>1. /\ pc[t] = "swap" /\ i[t] = released - 1 /\ src[t] = i[t] % 2 /\ i[t] \in Nat
        /\ UNCHANGED <<boards, steps, arrived, released, joined>>
        /\ pc' = [pc EXCEPT ![t] = "compute"] /\ src' = [src EXCEPT ![t] = 1 - src[t]]
        /\ i' = [i EXCEPT ![t] = @ + 1] /\ cell' = [cell EXCEPT ![t] = StartCell(t)]
    BY <1>1, <1>2, <1>5 DEF SwapPointers, MovePointers, Rounds
  <2>2. (i[t] + 1) % 2 = 1 - src[t] /\ 1 - src[t] \in 0 .. 1
    BY <2>1, Turns
  <2>3. Types'
    BY <1>2, <2>1, <2>2 DEF Types, Places
  <2>4. ASSUME NEW u \in Ids
        PROVE  /\ i'[u] = IF pc'[u] = "swap" THEN released - 1 ELSE released
               /\ src'[u] = i'[u] % 2 /\ i'[u] \in 0 .. steps
               /\ pc'[u] = "barrier" => released < steps /\ cell'[u] > EndCell(u)
               /\ pc'[u] = "end" => released = steps
    <3>1. CASE u = t
      BY <1>2, <2>1, <2>2, <3>1
    <3>2. CASE u # t
      <4>1. i'[u] = i[u] /\ src'[u] = src[u] /\ pc'[u] = pc[u] /\ cell'[u] = cell[u]
        BY <1>2, <2>1, <3>2
      <4> QED BY <1>1, <4>1 DEF Rounds
    <3> QED BY <3>1, <3>2
  <2>5. arrived' = {u \in Ids : pc'[u] = "barrier"}
    BY <1>1, <1>2, <2>1 DEF Rounds
  <2> QED BY <2>1, <2>3, <2>4, <2>5 DEF Rounds, EndCell, StartCell
<1>6. ASSUME NEW t \in Ids, Finish(t) PROVE Types' /\ Rounds'
  BY <1>1, <1>2, <1>6 DEF Finish, Types, Rounds, Places, EndCell, StartCell
<1>7. ASSUME Join PROVE Types' /\ Rounds'
  <2>1. boards' \in [0 .. 1 -> Boards]
    BY <1>2, <1>7 DEF Join, JoinWith
  <2> QED BY <1>1, <1>2, <1>7, <2>1 DEF Join, JoinWith, Types, Rounds, EndCell, StartCell
<1>8. CASE UNCHANGED vars
  BY <1>1, <1>8 DEF vars, Types, Rounds, EndCell, StartCell
<1> QED BY <1>3, <1>4, <1>5, <1>6, <1>7, <1>8 DEF Next, ThreadStep

(* A cell is written once in a round, by the thread whose range it is in.  *)
LEMMA NextWritten == LifeInv /\ [Next]_vars => Written'
<1> SUFFICES ASSUME LifeInv, [Next]_vars PROVE Written'
  OBVIOUS
<1>1. Types /\ InRange /\ Rounds /\ Written
  BY DEF LifeInv
<1>2. /\ boards \in [0 .. 1 -> Boards] /\ steps \in Nat /\ released \in Nat
      /\ i \in [Ids -> Int] /\ src \in [Ids -> 0 .. 1] /\ pc \in [Ids -> Places]
      /\ cell \in [Ids -> Int]
  BY <1>1 DEF Types, InRange
<1>3. Now \in 0 .. 1 /\ 1 - Now \in 0 .. 1 /\ Now # 1 - Now
  BY <1>2, Turns DEF Now
<1>4. ASSUME NEW t \in Ids, ComputeCell(t) PROVE Written'
  <2>1. /\ pc[t] = "compute" /\ cell[t] <= EndCell(t) /\ UNCHANGED <<released, pc>>
        /\ cell' = [cell EXCEPT ![t] = @ + 1]
    BY <1>4 DEF ComputeCell, ComputeInto, InStep
  <2>2. src[t] = Now
    BY <1>1, <2>1 DEF Rounds, Now
  <2> DEFINE x == NextCell(boards[Now], cell[t])
             s == 1 - Now
  <2>3. boards' = IF cell[t] \in Interior THEN [boards EXCEPT ![s][cell[t]] = x] ELSE boards
    BY <1>4, <2>2 DEF ComputeCell, ComputeInto
  <2>4. Now' = Now
    BY <2>1 DEF Now
  <2> HIDE DEF x
  <2>5. boards'[Now] = boards[Now]
    BY <1>2, <1>3, <2>3
  <2>6. \A c \in Cells : c # cell[t] => boards'[s][c] = boards[s][c]
    BY <1>2, <1>3, <2>3
  <2>7. cell[t] \in Interior => boards'[s][cell[t]] = x
    BY <1>2, <1>3, <2>3 DEF Interior, Boards
  <2>8. \A c \in Border : boards'[0][c] = boards'[1][c]
    <3> SUFFICES ASSUME NEW c \in Border PROVE boards'[0][c] = boards'[1][c]
      OBVIOUS
    <3>1. c \in Cells /\ (cell[t] \in Interior => c # cell[t])
      BY DEF Border
    <3>2. boards'[s][c] = boards[s][c] /\ boards'[Now][c] = boards[Now][c]
      BY <2>3, <2>5, <2>6, <3>1
    <3> QED BY <1>1, <1>3, <3>2 DEF Written
  <2>9. ASSUME NEW u \in Ids, pc[u] \in {"compute", "barrier"},
               NEW c \in Computed(u)' \cap Interior
        PROVE  boards'[s][c] = NextCell(boards[Now], c)
    <3>1. c \in Cells
      BY DEF Interior
    <3>2. CASE c = cell[t]
      BY <2>7, <3>2 DEF x
    <3>3. CASE c # cell[t]
      <4>1. c \in Computed(u)
        BY <1>1, <1>2, <2>1, <3>3, RangeTypes DEF Computed, StartCell
      <4> QED BY <1>1, <2>6, <2>9, <3>1, <3>3, <4>1 DEF Written
    <3> QED BY <3>2, <3>3
  <2> QED BY <2>1, <2>4, <2>5, <2>8, <2>9 DEF Written
<1>5. ASSUME NEW t \in Ids, Arrive(t) PROVE Written'
  <2>1. pc[t] = "compute" /\ UNCHANGED <<boards, cell>>
    BY <1>5 DEF Arrive, InStep
  <2>2. CASE released' = released /\ pc' = [pc EXCEPT ![t] = "barrier"]
    BY <1>1, <1>2, <2>1, <2>2 DEF Written, Now, Computed, StartCell
  <2>3. CASE /\ Cardinality(arrived) + 1 = BarrierCount
             /\ pc' = [u \in Ids |-> IF u \in arrived \cup {t} THEN "swap" ELSE pc[u]]
    <3>1. \A u \in Ids : pc'[u] = "swap"
      BY <1>1, <2>1, <2>3, LastArrives
    <3> QED BY <1>1, <2>1, <3>1 DEF Written
  <2> QED BY <1>5, <2>2, <2>3 DEF Arrive
<1>6. ASSUME NEW t \in Ids, SwapPointers(t) PROVE Written'
  <2>1. /\ UNCHANGED <<boards, released>>
        /\ pc' = [pc EXCEPT ![t] = "compute"] /\ cell' = [cell EXCEPT ![t] = StartCell(t)]
    BY <1>6 DEF SwapPointers, MovePointers
  <2>2. Now' = Now
    BY <2>1 DEF Now
  <2>3. ASSUME NEW u \in Ids, pc'[u] \in {"compute", "barrier"}
        PROVE  Computed(u)' = {} \/ (Computed(u)' = Computed(u) /\ pc[u] = pc'[u])
    <3>1. CASE u = t
      <4>1. Computed(u)' = StartCell(u) .. StartCell(u) - 1
        BY <1>2, <2>1, <3>1 DEF Computed, StartCell
      <4> QED BY <4>1, RangeTypes
    <3>2. CASE u # t
      BY <1>2, <2>1, <3>2 DEF Computed, StartCell
    <3> QED BY <3>1, <3>2
  <2> QED BY <1>1, <2>1, <2>2, <2>3 DEF Written
<1>7. ASSUME NEW t \in Ids, Finish(t) PROVE Written'
  BY <1>1, <1>2, <1>7 DEF Finish, Written, Now, Computed, StartCell
<1>8. ASSUME Join PROVE Written'
  <2>1. \A t \in Ids : pc'[t] = "end"
    BY <1>8 DEF Join, JoinWith
  <2>2. \A c \in Border : boards'[0][c] = boards'[1][c]
    BY <1>1, <1>2, <1>8 DEF Join, JoinWith, Written
  <2> QED BY <2>1, <2>2 DEF Written
<1>9. CASE UNCHANGED vars
  BY <1>1, <1>9 DEF vars, Written, Now, Computed, StartCell
<1> QED BY <1>4, <1>5, <1>6, <1>7, <1>8, <1>9 DEF Next, ThreadStep

LEMMA LifeInvImplies == LifeInv => BoardsSound
<1> SUFFICES ASSUME LifeInv PROVE BoardsSound
  OBVIOUS
<1>1. Types /\ InRange /\ Rounds
  BY DEF LifeInv
<1>2. MaxSteps \in Nat /\ steps \in 0 .. MaxSteps /\ released \in 0 .. steps
      /\ NumCells \in Nat
  BY <1>1, StartsAssumption, SizeAssumption DEF Types, NumCells
<1>3. TypeOK
  <2>1. i \in [Ids -> 0 .. MaxSteps] /\ released \in 0 .. MaxSteps
    BY <1>1, <1>2 DEF Types, Rounds
  <2>2. cell \in [Ids -> 0 .. NumCells]
    BY <1>1, <1>2, RangeTypes DEF InRange
  <2>3. arrived \subseteq Ids
    BY <1>1 DEF Rounds
  <2> QED BY <1>1, <2>1, <2>2, <2>3 DEF TypeOK, Types, Places
<1>4. NoDataRace
  <2> SUFFICES ASSUME NEW t \in Writing, NEW u \in Writing, t # u
               PROVE  /\ \A c \in Window(cell[u]) : 1 - src[t] # src[u]
                      /\ cell[t] # cell[u]
    BY DEF NoDataRace
  <2>1. /\ t \in Ids /\ u \in Ids /\ pc[t] = "compute" /\ pc[u] = "compute"
        /\ cell[t] <= EndCell(t) /\ cell[u] <= EndCell(u)
    BY DEF Writing, InStep
  <2>2. src[t] = src[u] /\ src[t] \in 0 .. 1
    BY <1>1, <2>1 DEF Rounds, Types
  <2> QED BY <1>1, <2>1, <2>2, Apart
<1> QED BY <1>3, <1>4 DEF BoardsSound

LEMMA LifeInvHolds == Spec => []LifeInv
<1>1. LifeInv /\ [Next]_vars => LifeInv'
  BY InRangeInductive, NextRounds, NextWritten DEF LifeInv
<1> QED BY <1>1, InitLifeInv, PTL DEF Spec

(* Although a barrier is waited for once in a step, and threads may be in  *)
(* different steps, no thread reads or writes a cell that another may be   *)
(* writing (life-parallel.cc:34, 64-70).                                   *)
THEOREM BoardsCorrect == Spec => []BoardsSound
  BY LifeInvHolds, LifeInvImplies, PTL

-----------------------------------------------------------------------------
(* The last arrival at the barrier is a step of Life, everything else none.*)
LEMMA SameBoard ==
  ASSUME NEW b
  PROVE  L!NextBoard(b) = NextBoard(b)
<1>1. \A S : L!Cardinality(S) = Cardinality(S)
  BY DEF L!Cardinality, Cardinality
<1>2. \A d : L!X(d) = X(d) /\ L!Y(d) = Y(d) /\ L!Window(d) = Window(d)
  BY DEF L!X, X, L!Y, Y, L!Window, Window
<1>3. L!Cells = Cells
  BY DEF L!Cells, Cells, L!NumCells, NumCells
<1>4. L!Interior = Interior
  BY <1>2, <1>3 DEF L!Interior, Interior
<1>5. \A c : L!NextCell(b, c) = NextCell(b, c)
  BY <1>1, <1>2 DEF L!NextCell, NextCell, L!LiveInWindow, LiveInWindow
<1> QED BY <1>3, <1>4, <1>5 DEF L!NextBoard, NextBoard

LEMMA StepRefines ==
  LifeInv /\ [Next]_vars => [L!Step]_(L!lifeVars)
<1> SUFFICES ASSUME LifeInv, [Next]_vars PROVE [L!Step]_(L!lifeVars)
  OBVIOUS
<1>1. Types /\ InRange /\ Rounds /\ Written
  BY DEF LifeInv
<1>2. /\ boards \in [0 .. 1 -> Boards] /\ steps \in Nat /\ released \in 0 .. steps
      /\ i \in [Ids -> Int] /\ src \in [Ids -> 0 .. 1] /\ pc \in [Ids -> Places]
      /\ cell \in [Ids -> Int]
  BY <1>1 DEF Types, InRange
<1>3. released % 2 \in 0 .. 1 /\ (released + 1) % 2 = 1 - Now
  BY <1>2, Turns DEF Now
<1>4. ASSUME boards'[Now] = boards[Now], released' = released, steps' = steps
      PROVE  UNCHANGED L!lifeVars
  BY <1>4 DEF L!lifeVars, Now
<1>5. ASSUME NEW t \in Ids, ComputeCell(t) PROVE UNCHANGED L!lifeVars
  <2>1. pc[t] = "compute" /\ released' = released /\ steps' = steps
    BY <1>5 DEF ComputeCell, ComputeInto, InStep
  <2>2. src[t] = Now
    BY <1>1, <2>1 DEF Rounds, Now
  <2>3. boards'[Now] = boards[Now]
    BY <1>2, <1>3, <1>5, <2>2 DEF ComputeCell, ComputeInto, Now
  <2> QED BY <1>4, <2>1, <2>3
<1>6. ASSUME NEW t \in Ids, Arrive(t) PROVE [L!Step]_(L!lifeVars)
  <2>1. /\ pc[t] = "compute" /\ i[t] < steps /\ cell[t] > EndCell(t)
        /\ UNCHANGED <<boards, steps>>
    BY <1>6 DEF Arrive, InStep
  <2>2. CASE released' = released
    BY <1>4, <2>1, <2>2
  <2>3. CASE Cardinality(arrived) + 1 = BarrierCount /\ released' = released + 1
    <3>1. \A u \in Ids : pc[u] \in {"compute", "barrier"} /\ cell[u] > EndCell(u)
      BY <1>1, <2>1, <2>3, LastArrives DEF Rounds
    <3>2. Cells = UNION {Computed(u) : u \in Ids}
      BY <1>1, <3>1, InRangeDivides DEF CellsDivided
    <3>3. \A c \in Interior : boards[1 - Now][c] = NextCell(boards[Now], c)
      BY <1>1, <3>1, <3>2 DEF Written, Interior
    <3>4. \A c \in Border : boards[1 - Now][c] = boards[Now][c]
      BY <1>1, <1>3 DEF Written, Now
    <3>5. boards[1 - Now] \in Boards
      BY <1>2, <1>3 DEF Now
    <3>6. boards[1 - Now] = NextBoard(boards[Now])
      BY <3>3, <3>4, <3>5 DEF Boards, NextBoard, Border
    <3>7. boards'[released' % 2] = boards[1 - Now]
      BY <1>3, <2>1, <2>3
    <3>8. released < steps
      BY <1>1, <2>1 DEF Rounds
    <3> QED BY <2>1, <2>3, <3>6, <3>7, <3>8, SameBoard DEF L!Step, Now
  <2> QED BY <1>6, <2>2, <2>3 DEF Arrive
<1>7. ASSUME NEW t \in Ids, SwapPointers(t) \/ Finish(t) PROVE UNCHANGED L!lifeVars
  BY <1>4, <1>7 DEF SwapPointers, MovePointers, Finish
<1>8. ASSUME Join PROVE UNCHANGED L!lifeVars
  <2>1. pc[0] = "end" /\ 0 \in Ids
    BY <1>8, ThreadsAssumption DEF Join, JoinWith, Ids
  <2>2. released = steps
    BY <1>1, <2>1 DEF Rounds
  <2>3. boards'[Now] = boards[Now]
    BY <1>2, <1>3, <1>8, <2>2 DEF Join, JoinWith, Now
  <2> QED BY <1>4, <1>8, <2>3 DEF Join, JoinWith
<1>9. CASE UNCHANGED vars
  BY <1>4, <1>9 DEF vars
<1> QED BY <1>5, <1>6, <1>7, <1>8, <1>9 DEF Next, ThreadStep

(* For any board, number of threads and steps and whatever the threads'    *)
(* interleaving, the rounds of the barrier go through the generations of   *)
(* Life (life.h:74-79, life-parallel.cc:20-115).                           *)
THEOREM LifeRefined == Spec => ParallelImplementsLife
<1>1. Init => L!Init
  <2> SUFFICES ASSUME Init PROVE L!Init
    OBVIOUS
  <2>1. PICK b \in Starts : boards = [k \in 0 .. 1 |-> b]
    BY DEF Init
  <2>2. released = 0 /\ released % 2 = 0 /\ steps \in 0 .. MaxSteps
    BY DEF Init
  <2>3. boards[released % 2] = b
    BY <2>1, <2>2
  <2> QED BY <2>2, <2>3 DEF L!Init
<1> QED BY <1>1, StepRefines, LifeInvHolds, PTL DEF Spec, ParallelImplementsLife, L!Spec

-----------------------------------------------------------------------------
(* The two versions go through the same generations g[0], g[1], ... as far *)
(* as the serial one has come, if no cell of the border is live.           *)
Dead(b) == \A c \in Border : b[c] = 0

SerialTypes ==
  /\ expected \in Boards /\ spare \in Boards
  /\ step \in 0 .. steps /\ at \in 0 .. NumCells
  /\ step < steps => released = 0 /\ ~joined

Generations(g) ==
  /\ \A n \in 0 .. step - 1 : g[n + 1] = NextBoard(g[n])
  /\ \A n \in 0 .. step : \A c \in Border : g[n][c] = g[0][c]

SerialFollows(g) ==
  /\ step = 0 => expected = g[0]
  /\ Dead(g[0]) => /\ expected = g[step] /\ Dead(spare)
                   /\ \A c \in Interior : c < at => spare[c] = NextCell(expected, c)

AgreeInv ==
  /\ SerialTypes
  /\ joined => (\A t \in Ids : pc[t] = "end") /\ boards[0] = boards[Now]
  /\ \E g \in [0 .. MaxSteps -> Boards] :
       Generations(g) /\ SerialFollows(g) /\ boards[Now] = g[released]

LEMMA NextBoardIs ==
  ASSUME NEW b \in Boards
  PROVE  /\ NextBoard(b) \in Boards
         /\ \A c \in Border : NextBoard(b)[c] = b[c]
         /\ \A c \in Interior : NextBoard(b)[c] = NextCell(b, c)
<1>1. \A c : NextCell(b, c) \in {0, 1}
  BY DEF NextCell
<1> QED BY <1>1 DEF NextBoard, Boards, Border, Interior

LEMMA SameCell ==
  ASSUME NEW b, NEW c
  PROVE  Serial!NextCell(b, c) = NextCell(b, c) /\ Serial!Interior = Interior /\ Serial!NumCells = NumCells
<1>1. \A S : Serial!Cardinality(S) = Cardinality(S)
  BY DEF Serial!Cardinality, Cardinality
<1>2. \A d : Serial!X(d) = X(d) /\ Serial!Y(d) = Y(d) /\ Serial!Window(d) = Window(d)
  BY DEF Serial!X, X, Serial!Y, Y, Serial!Window, Window
<1>3. Serial!NumCells = NumCells /\ Serial!Cells = Cells
  BY DEF Serial!Cells, Cells, Serial!NumCells, NumCells
<1>4. Serial!Interior = Interior
  BY <1>2, <1>3 DEF Serial!Interior, Interior
<1>5. Serial!NextCell(b, c) = NextCell(b, c)
  BY <1>1, <1>2 DEF Serial!NextCell, NextCell, Serial!LiveInWindow, LiveInWindow
<1> QED BY <1>3, <1>4, <1>5

LEMMA InitAgrees == MainInit => LifeInv /\ AgreeInv
<1> SUFFICES ASSUME MainInit PROVE LifeInv /\ AgreeInv
  OBVIOUS
<1>1. Init /\ LifeInv
  BY InitLifeInv DEF MainInit
<1>2. /\ expected = boards[0] /\ spare = [c \in Serial!Cells |-> 0] /\ step = 0 /\ at = 0
  BY DEF MainInit, Serial!Init
<1>3. Serial!Cells = Cells
  BY DEF Serial!Cells, Cells, Serial!NumCells, NumCells
<1>4. PICK b \in Starts : boards = [k \in 0 .. 1 |-> b]
  BY <1>1 DEF Init
<1>5. /\ b \in Boards /\ steps \in Nat /\ released = 0 /\ ~joined /\ MaxSteps \in Nat /\ NumCells \in Nat
      /\ released % 2 = 0 /\ steps \in 0 .. MaxSteps
  BY <1>1, <1>4, StartsAssumption, SizeAssumption DEF Init, NumCells
<1>6. boards[0] = b /\ boards[Now] = b
  BY <1>4, <1>5 DEF Now
<1>7. SerialTypes
  BY <1>2, <1>3, <1>5, <1>6 DEF SerialTypes, Boards
<1>8. PICK g : g = [n \in 0 .. MaxSteps |-> b]
  OBVIOUS
<1>9. g \in [0 .. MaxSteps -> Boards] /\ g[0] = b
  BY <1>5, <1>8
<1>10. Generations(g)
  BY <1>2 DEF Generations
<1>11. SerialFollows(g)
  <2>1. Dead(spare)
    BY <1>2, <1>3 DEF Dead, Border
  <2>2. \A c \in Interior : ~(c < at)
    BY <1>2, <1>5 DEF Interior, Cells
  <2> QED BY <1>2, <1>6, <1>9, <2>1, <2>2 DEF SerialFollows
<1> QED BY <1>1, <1>5, <1>6, <1>7, <1>9, <1>10, <1>11 DEF AgreeInv

(* A step of the serial version.                                           *)
LEMMA SerialAgrees == LifeInv /\ AgreeInv /\ SimulateSerial => AgreeInv'
<1> SUFFICES ASSUME LifeInv, AgreeInv, SimulateSerial PROVE AgreeInv'
  OBVIOUS
<1>1. /\ UNCHANGED <<boards, steps, pc, released, joined>>
      /\ Serial!ComputeCell \/ Serial!SwapBoards
  BY DEF SimulateSerial, Serial!Next, vars
<1>2. /\ expected \in Boards /\ spare \in Boards
      /\ step \in 0 .. steps /\ at \in 0 .. NumCells /\ steps \in 0 .. MaxSteps
      /\ MaxSteps \in Nat /\ NumCells \in Nat
      /\ step < steps => released = 0 /\ ~joined
  BY StartsAssumption, SizeAssumption DEF LifeInv, Types, AgreeInv, SerialTypes, NumCells
<1>3. PICK g \in [0 .. MaxSteps -> Boards] :
        Generations(g) /\ SerialFollows(g) /\ boards[Now] = g[released]
  BY DEF AgreeInv
<1>4. Now' = Now
  BY <1>1 DEF Now
<1>5. step < steps /\ released = 0 /\ ~joined
  BY <1>1, <1>2 DEF Serial!ComputeCell, Serial!SwapBoards
<1>6. CASE Serial!ComputeCell
  <2>1. /\ at < NumCells /\ at' = at + 1 /\ UNCHANGED <<expected, step>>
        /\ spare' = IF at \in Interior THEN [spare EXCEPT ![at] = NextCell(expected, at)] ELSE spare
    BY <1>6, SameCell DEF Serial!ComputeCell
  <2>2. PICK x : x = NextCell(expected, at)
    OBVIOUS
  <2>3. x \in {0, 1} /\ spare' = IF at \in Interior THEN [spare EXCEPT ![at] = x] ELSE spare
    BY <2>1, <2>2 DEF NextCell
  <2>4. /\ spare' \in Boards
        /\ \A c \in Cells : c # at => spare'[c] = spare[c]
        /\ at \in Interior => spare'[at] = x
    BY <1>2, <2>3 DEF Boards, Interior
  <2>5. SerialTypes'
    BY <1>1, <1>2, <2>1, <2>4 DEF SerialTypes
  <2>6. Generations(g)'
    BY <1>3, <2>1 DEF Generations
  <2>7. SerialFollows(g)'
    <3>1. \A c \in Border : spare'[c] = spare[c]
      BY <2>3, <2>4 DEF Border
    <3>2. ASSUME Dead(g[0]), NEW c \in Interior, c < at' PROVE spare'[c] = NextCell(expected, c)
      <4>1. c \in Cells /\ c \in Int
        BY <1>2 DEF Interior, Cells
      <4>2. CASE c = at
        BY <2>2, <2>4, <4>2, <3>2
      <4>3. CASE c # at
        <5>1. c < at
          BY <1>2, <2>1, <3>2, <4>1, <4>3
        <5> QED BY <1>3, <2>4, <3>2, <4>1, <4>3, <5>1 DEF SerialFollows
      <4> QED BY <4>2, <4>3
    <3> QED BY <1>3, <2>1, <3>1, <3>2 DEF SerialFollows, Dead
  <2> QED BY <1>1, <1>3, <1>4, <1>5, <2>5, <2>6, <2>7 DEF AgreeInv
<1>7. CASE Serial!SwapBoards
  <2>1. /\ at = NumCells /\ expected' = spare /\ spare' = expected /\ step' = step + 1 /\ at' = 0
    BY <1>7, SameCell DEF Serial!SwapBoards
  <2>2. PICK b : b = NextBoard(g[step])
    OBVIOUS
  <2>3. PICK h : h = [g EXCEPT ![step + 1] = b]
    OBVIOUS
  <2>4. step \in 0 .. MaxSteps /\ step + 1 \in 0 .. MaxSteps /\ g[step] \in Boards
    BY <1>2, <1>3, <1>5
  <2>5. /\ b \in Boards /\ \A c \in Border : b[c] = g[step][c]
        /\ \A c \in Interior : b[c] = NextCell(g[step], c)
    BY <2>2, <2>4, NextBoardIs
  <2>6. /\ h \in [0 .. MaxSteps -> Boards] /\ h[step + 1] = b
        /\ \A n \in 0 .. step : h[n] = g[n]
    BY <1>2, <1>3, <2>3, <2>4, <2>5
  <2>7. SerialTypes'
    BY <1>1, <1>2, <1>5, <2>1 DEF SerialTypes
  <2>8. Generations(h)'
    <3>1. ASSUME NEW n \in 0 .. step' - 1 PROVE h[n + 1] = NextBoard(h[n])
      <4>1. n \in 0 .. step /\ n \in Int /\ step \in Int
        BY <1>2, <2>1
      <4>2. CASE n = step
        BY <2>2, <2>6, <4>1, <4>2
      <4>3. CASE n # step
        <5>1. n \in 0 .. step - 1 /\ n + 1 \in 0 .. step
          BY <4>1, <4>3
        <5> QED BY <1>3, <2>6, <4>1, <5>1 DEF Generations
      <4> QED BY <4>2, <4>3
    <3>2. ASSUME NEW n \in 0 .. step', NEW c \in Border PROVE h[n][c] = h[0][c]
      <4>1. h[0] = g[0] /\ 0 \in 0 .. step /\ step \in 0 .. step
        BY <1>2, <2>6
      <4>2. CASE n = step + 1
        BY <1>3, <2>5, <2>6, <4>1, <4>2 DEF Generations
      <4>3. CASE n # step + 1
        <5>1. n \in 0 .. step
          BY <1>2, <2>1, <4>3
        <5> QED BY <1>3, <2>6, <4>1, <5>1 DEF Generations
      <4> QED BY <4>2, <4>3
    <3> QED BY <3>1, <3>2 DEF Generations
  <2>9. SerialFollows(h)'
    <3>1. h[0] = g[0] /\ step' # 0 /\ h[step'] = b /\ 0 \in 0 .. step /\ step \in 0 .. step
      BY <1>2, <2>1, <2>6
    <3>2. ASSUME Dead(g[0]) PROVE expected' = b /\ Dead(spare')
      <4>1. /\ expected = g[step] /\ Dead(spare)
            /\ \A c \in Interior : c < at => spare[c] = NextCell(expected, c)
        BY <1>3, <3>2 DEF SerialFollows
      <4>2. Dead(g[step])
        BY <1>3, <3>1, <3>2 DEF Dead, Generations
      <4>3. \A c \in Interior : c < at
        BY <1>2, <2>1 DEF Interior, Cells
      <4>4. \A c \in Cells : spare[c] = b[c]
        BY <2>5, <4>1, <4>2, <4>3 DEF Dead, Border
      <4>5. spare = b
        BY <1>2, <2>5, <4>4 DEF Boards
      <4> QED BY <2>1, <4>1, <4>2, <4>5
    <3>3. \A c \in Interior : ~(c < at')
      BY <1>2, <2>1 DEF Interior, Cells
    <3> QED BY <3>1, <3>2, <3>3 DEF SerialFollows
  <2>10. boards'[Now'] = h[released']
    BY <1>1, <1>2, <1>3, <1>4, <1>5, <2>6
  <2> QED BY <1>1, <1>5, <2>6, <2>7, <2>8, <2>9, <2>10 DEF AgreeInv
<1> QED BY <1>1, <1>6, <1>7

(* A step of the parallel version: a generation more, or none.             *)
LEMMA ParallelAgrees == LifeInv /\ AgreeInv /\ Verifying(Next) => AgreeInv'
<1> SUFFICES ASSUME LifeInv, AgreeInv, step = steps, Next, UNCHANGED <<expected, spare, step, at>>
             PROVE  AgreeInv'
  BY DEF Verifying
<1>1. Types /\ Rounds /\ Types' /\ Rounds'
  BY NextRounds DEF LifeInv
<1>2. /\ expected \in Boards /\ spare \in Boards /\ at \in 0 .. NumCells
      /\ steps \in 0 .. MaxSteps /\ released \in 0 .. steps /\ MaxSteps \in Nat
  BY <1>1, StartsAssumption DEF Types, AgreeInv, SerialTypes
<1>3. PICK g \in [0 .. MaxSteps -> Boards] :
        Generations(g) /\ SerialFollows(g) /\ boards[Now] = g[released]
  BY DEF AgreeInv
<1>4. steps' = steps
  BY DEF Next, ThreadStep, Join, JoinWith, ComputeCell, ComputeInto, Arrive, SwapPointers,
         MovePointers, Finish
<1>5. SerialTypes'
  BY <1>2, <1>4 DEF SerialTypes
<1>6. Generations(g)' /\ SerialFollows(g)'
  BY <1>3 DEF Generations, SerialFollows
<1>7. boards'[Now'] = g[released']
  <2>1. [L!Step]_(L!lifeVars)
    BY StepRefines
  <2>2. CASE L!Step
    <3>1. /\ released < steps /\ boards'[Now'] = NextBoard(boards[Now]) /\ released' = released + 1
      BY <2>2, SameBoard DEF L!Step, Now
    <3>2. released \in 0 .. step - 1
      BY <1>2, <3>1
    <3> QED BY <1>3, <3>1, <3>2 DEF Generations
  <2>3. CASE UNCHANGED L!lifeVars
    BY <1>3, <2>3 DEF L!lifeVars, Now
  <2> QED BY <2>1, <2>2, <2>3
<1>8. joined' => (\A t \in Ids : pc'[t] = "end") /\ boards'[0] = boards'[Now']
  <2>1. CASE Join
    <3>1. \A t \in Ids : pc[t] = "end"
      BY <2>1 DEF Join, JoinWith
    <3>2. 0 \in Ids
      BY ThreadsAssumption DEF Ids
    <3>3. released = steps /\ released' = released
      BY <1>1, <2>1, <3>1, <3>2 DEF Rounds, Join, JoinWith
    <3>4. Now = steps % 2 /\ Now' = Now /\ Now \in 0 .. 1
      BY <1>2, <3>3, Turns DEF Now
    <3>5. boards' = IF Now = 1 THEN [boards EXCEPT ![0] = boards[1]] ELSE boards
      BY <2>1, <3>4 DEF Join, JoinWith
    <3>6. boards \in [0 .. 1 -> Boards]
      BY <1>1 DEF Types
    <3>7. boards'[0] = boards'[Now]
      BY <3>4, <3>5, <3>6
    <3> QED BY <2>1, <3>1, <3>4, <3>7 DEF Join, JoinWith
  <2>2. ASSUME NEW t \in Ids, ThreadStep(t)
        PROVE  joined' => (\A u \in Ids : pc'[u] = "end") /\ boards'[0] = boards'[Now']
    <3>1. pc[t] # "end" /\ joined' = joined
      BY <2>2 DEF ThreadStep, ComputeCell, ComputeInto, InStep, Arrive, SwapPointers, MovePointers, Finish
    <3>2. ~joined
      BY <3>1 DEF AgreeInv
    <3> QED BY <3>1, <3>2
  <2> QED BY <2>1, <2>2 DEF Next
<1> QED BY <1>3, <1>5, <1>6, <1>7, <1>8 DEF AgreeInv

LEMMA NextAgrees == LifeInv /\ AgreeInv /\ [MainNext]_mainVars => LifeInv' /\ AgreeInv'
<1> SUFFICES ASSUME LifeInv, AgreeInv, [MainNext]_mainVars PROVE LifeInv' /\ AgreeInv'
  OBVIOUS
<1>1. [Next]_vars
  BY DEF MainNext, SimulateSerial, Verifying, mainVars
<1>2. LifeInv'
  BY <1>1, InRangeInductive, NextRounds, NextWritten DEF LifeInv
<1>3. CASE UNCHANGED mainVars
  <2>1. UNCHANGED <<boards, steps, pc, released, joined, expected, spare, step, at>>
    BY <1>3 DEF mainVars, vars
  <2>2. PICK g \in [0 .. MaxSteps -> Boards] :
          Generations(g) /\ SerialFollows(g) /\ boards[Now] = g[released]
    BY DEF AgreeInv
  <2>3. Generations(g)' /\ SerialFollows(g)'
    BY <2>1, <2>2 DEF Generations, SerialFollows
  <2>4. SerialTypes'
    BY <2>1 DEF AgreeInv, SerialTypes
  <2>5. Now' = Now
    BY <2>1 DEF Now
  <2>6. boards'[Now'] = g[released']
    BY <2>1, <2>2, <2>5
  <2>7. joined' => (\A t \in Ids : pc'[t] = "end") /\ boards'[0] = boards'[Now']
    BY <2>1, <2>5 DEF AgreeInv
  <2> QED BY <1>2, <2>2, <2>3, <2>4, <2>6, <2>7 DEF AgreeInv
<1> QED BY <1>2, <1>3, SerialAgrees, ParallelAgrees DEF MainNext

LEMMA AgreeInvImplies == LifeInv /\ AgreeInv => VersionsAgree
<1> SUFFICES ASSUME LifeInv, AgreeInv, joined, steps > 0 => DeadBorder PROVE boards[0] = expected
  BY DEF VersionsAgree, LifeInv, Types
<1>1. PICK g \in [0 .. MaxSteps -> Boards] :
        Generations(g) /\ SerialFollows(g) /\ boards[Now] = g[released]
  BY DEF AgreeInv
<1>2. (\A t \in Ids : pc[t] = "end") /\ boards[0] = boards[Now] /\ 0 \in Ids
  BY ThreadsAssumption DEF AgreeInv, Ids
<1>3. released = steps /\ steps \in Nat
  BY <1>2 DEF LifeInv, Rounds, Types
<1>4. step = steps
  BY <1>3 DEF AgreeInv, SerialTypes
<1>5. boards[0] = g[step]
  BY <1>1, <1>2, <1>3, <1>4
<1>6. CASE steps = 0
  BY <1>1, <1>4, <1>5, <1>6 DEF SerialFollows
<1>7. CASE steps # 0
  <2>1. DeadBorder
    BY <1>3, <1>7
  <2>2. Dead(g[step]) /\ step \in 0 .. step
    BY <1>3, <1>4, <1>5, <2>1 DEF Dead, DeadBorder
  <2>3. Dead(g[0])
    BY <1>1, <2>2 DEF Dead, Generations
  <2> QED BY <1>1, <1>5, <2>3 DEF SerialFollows
<1> QED BY <1>6, <1>7

(* For any board without live cells on its border, any number of threads   *)
(* and of steps, main.cc finds that the two versions agree (main.cc:65-80).*)
THEOREM VersionsCorrect == MainSpec => []VersionsAgree
<1>1. MainSpec => MainInit /\ [][MainNext]_mainVars
  BY PTL DEF MainSpec
<1>2. MainInit => LifeInv /\ AgreeInv
  BY InitAgrees
<1>3. LifeInv /\ AgreeInv /\ [MainNext]_mainVars => LifeInv' /\ AgreeInv'
  BY NextAgrees
<1>4. LifeInv /\ AgreeInv => VersionsAgree
  BY AgreeInvImplies
<1> QED BY <1>1, <1>2, <1>3, <1>4, PTL
=============================================================================
