---------------------------- MODULE FsLogProofs -----------------------------
(***************************************************************************)
(* That the redo log makes operations atomic, through crashes at any step  *)
(* of an operation, of commit and of recovery, for any blocks, processes   *)
(* and log sizes.                                                          *)
(***************************************************************************)
EXTENDS FsLog, FiniteSetTheorems, TLAPS

Places == {"idle", "begin", "asleep", "op", "commit"}
Phases == {"none", "read", "copy", "head", "install", "erase", "done"}
Ops == {p \in Procs : at[p] = "op"}

Once(s) == \A i, j \in 1 .. Len(s) : s[i] = s[j] => i = j

Types ==
  /\ home \in [Blocks -> Data] /\ cache \in [Blocks -> Data]
  /\ logBlock \in [LogSlots -> Data]
  /\ header \in Seq(Blocks) /\ Len(header) < NLOG /\ Once(header)
  /\ lh \in Seq(Blocks) /\ Len(lh) < NLOG /\ Once(lh)
  /\ pinned \subseteq Blocks /\ outstanding \in Nat
  /\ committing \in BOOLEAN /\ recovering \in BOOLEAN /\ panicked \in BOOLEAN
  /\ phase \in Phases /\ tail \in Nat
  /\ at \in [Procs -> Places] /\ wrote \in [Procs -> SUBSET Blocks]

\* Operations run while nobody commits, and nobody does while the machine boots.
Seats ==
  /\ outstanding = Cardinality(Ops)
  /\ \A p \in Procs : at[p] = "commit" =>
       committing /\ \A q \in Procs : at[q] = "commit" => q = p
  /\ committing => /\ Ops = {} /\ ~recovering /\ ~panicked
                   /\ phase \in {"copy", "head", "install", "erase", "done"}
  /\ recovering => /\ \A p \in Procs : at[p] = "idle"
                   /\ ~panicked /\ ~committing
                   /\ phase \in {"read", "install", "erase", "done"}
  /\ ~committing /\ ~recovering => phase = "none"

\* What commit and recovery have done when they are in a phase.
Clean == cache = home /\ pinned = {}
Copies(n) == \A i \in 1 .. n : logBlock[i] = cache[lh[i]]
Homed(n) == \A i \in 1 .. n : home[lh[i]] = logBlock[i]

Headers ==
  /\ phase \in {"none", "copy", "head", "done"} => header = <<>>
  /\ phase \in {"install", "erase"} => header = lh
  /\ phase \in {"copy", "head", "install"} => lh # <<>>
  /\ phase \in {"copy", "install"} => tail < Len(lh)
  /\ phase \notin {"copy", "install"} => tail = 0
  /\ phase = "done" => lh = <<>>

Contents ==
  /\ phase \in {"none", "copy", "head"} =>
       /\ pinned = {b \in Blocks : Contains(lh, b)}
       /\ ~panicked => \A b \in Blocks \ pinned : cache[b] = home[b]
  /\ phase = "copy" => Copies(tail)
  /\ phase = "head" => Copies(Len(lh))
  /\ phase = "install" => Homed(tail)
  /\ phase = "install" /\ committing =>
       /\ Copies(Len(lh))
       /\ pinned = {lh[i] : i \in tail + 1 .. Len(lh)}
       /\ \A b \in Blocks : ~Contains(lh, b) => cache[b] = home[b]
  /\ phase = "erase" => Homed(Len(lh))
  /\ phase \in {"erase", "done"} \/ recovering => Clean

\* When the last operation has been committed nothing is left in the log.
Drained == phase = "none" /\ outstanding = 0 /\ ~panicked => lh = <<>>

LInv == Types /\ Seats /\ Headers /\ Contents /\ Drained

-----------------------------------------------------------------------------
LEMMA InitLInv == Init => LInv
<1> SUFFICES ASSUME Init PROVE LInv
  OBVIOUS
<1> USE SizesAssumption
<1>1. PICK d \in Data : /\ home = [b \in Blocks |-> d]
                        /\ logBlock = [i \in LogSlots |-> d]
  BY DEF Init
<1>2. Types
  <2>1. <<>> \in Seq(Blocks) /\ Len(<<>>) = 0
    OBVIOUS
  <2>2. at \in [Procs -> Places] /\ wrote \in [Procs -> SUBSET Blocks]
    BY DEF Init, Places
  <2>3. /\ home \in [Blocks -> Data] /\ cache \in [Blocks -> Data]
        /\ logBlock \in [LogSlots -> Data]
    BY <1>1 DEF Init
  <2>4. Once(<<>>) /\ 0 < NLOG
    BY DEF Once
  <2>5. header \in Seq(Blocks) /\ Len(header) < NLOG /\ Once(header)
    BY <2>1, <2>4, Zenon DEF Init
  <2>6. lh \in Seq(Blocks) /\ Len(lh) < NLOG /\ Once(lh)
    BY <2>1, <2>4, Zenon DEF Init
  <2>7. /\ pinned \subseteq Blocks /\ outstanding \in Nat /\ tail \in Nat
        /\ committing \in BOOLEAN /\ recovering \in BOOLEAN /\ panicked \in BOOLEAN
        /\ phase \in Phases
    BY DEF Init, Phases
  <2> QED BY <2>2, <2>3, <2>5, <2>6, <2>7 DEF Types
<1>3. Seats
  <2>1. Ops = {}
    BY DEF Init, Ops
  <2> QED BY <2>1, FS_EmptySet DEF Init, Seats
<1>4. Headers /\ Contents /\ Drained
  BY DEF Init, Headers, Contents, Clean, Drained
<1> QED BY <1>2, <1>3, <1>4 DEF LInv

(* The number of operations under way.                                     *)
LEMMA OpFacts ==
  ASSUME Seats, NEW p \in Procs
  PROVE  /\ IsFiniteSet(Ops) /\ Cardinality(Ops) \in Nat
         /\ outstanding = 0 <=> Ops = {}
         /\ at[p] = "op" => /\ outstanding >= 1
                            /\ outstanding - 1 = Cardinality(Ops \ {p})
                            /\ outstanding = 1 => Ops \ {p} = {}
                            /\ ~committing /\ ~recovering /\ phase = "none"
         /\ at[p] # "op" => outstanding + 1 = Cardinality(Ops \cup {p})
<1>1. IsFiniteSet(Ops) /\ Cardinality(Ops) \in Nat
  BY SizesAssumption, FS_Subset, FS_CardinalityType DEF Ops
<1>2. outstanding = Cardinality(Ops) /\ (Cardinality(Ops) = 0 <=> Ops = {})
  BY <1>1, FS_EmptySet DEF Seats
<1>3. p \in Ops <=> at[p] = "op"
  BY DEF Ops
<1>4. p \in Ops => /\ Cardinality(Ops \ {p}) = Cardinality(Ops) - 1
                   /\ IsFiniteSet(Ops \ {p})
  BY <1>1, FS_RemoveElement
<1>5. p \notin Ops => Cardinality(Ops \cup {p}) = Cardinality(Ops) + 1
  BY <1>1, FS_AddElement
<1>6. p \in Ops => ~committing /\ ~recovering /\ phase = "none"
  BY <1>3 DEF Seats
<1>7. p \in Ops /\ Cardinality(Ops) = 1 => Ops \ {p} = {}
  <2>1. IsFiniteSet(Ops \ {p}) /\ Cardinality(Ops \ {p}) = 0 => Ops \ {p} = {}
    BY FS_EmptySet
  <2> QED BY <1>4, <2>1
<1> QED BY <1>1, <1>2, <1>3, <1>4, <1>5, <1>6, <1>7

(* A turn of a loop over the log.                                          *)
LEMMA TurnFacts ==
  ASSUME Types, Headers, NEW this, NEW next, Turn(this, next), this \in {"copy", "install"}
  PROVE  /\ phase = this /\ ~panicked /\ tail + 1 \in 1 .. Len(lh)
         /\ tail + 1 \in LogSlots /\ lh[tail + 1] \in Blocks
         /\ \/ phase' = this /\ tail' = tail + 1 /\ tail' < Len(lh)
            \/ phase' = next /\ tail' = 0 /\ tail + 1 = Len(lh)
<1>1. /\ phase = this /\ ~panicked /\ tail < Len(lh) /\ tail \in Nat
      /\ Len(lh) \in Nat /\ Len(lh) < NLOG /\ lh \in Seq(Blocks)
  BY DEF Types, Headers, Turn
<1>2. tail + 1 \in 1 .. Len(lh) /\ tail + 1 \in LogSlots
  BY <1>1, SizesAssumption DEF LogSlots
<1>3. lh[tail + 1] \in Blocks
  BY <1>1, <1>2
<1> QED BY <1>1, <1>2, <1>3 DEF Turn

(* log_write adds a block to the log once.                                 *)
LEMMA LoggedFacts ==
  ASSUME Types, NEW b \in Blocks, ~LogFull
  PROVE  /\ Logged(b) \in Seq(Blocks) /\ Len(Logged(b)) < NLOG /\ Once(Logged(b))
         /\ \A c \in Blocks : Contains(Logged(b), c) <=> Contains(lh, c) \/ c = b
<1>1. lh \in Seq(Blocks) /\ Len(lh) \in Nat /\ Len(lh) < NLOG - 1 /\ Once(lh)
  BY SizesAssumption DEF Types, LogFull
<1>2. CASE Contains(lh, b)
  BY <1>1, <1>2, SizesAssumption DEF Logged
<1>3. CASE ~Contains(lh, b)
  <2> DEFINE new == Append(lh, b)
  <2>1. Logged(b) = new
    BY <1>3 DEF Logged
  <2>2. /\ new \in Seq(Blocks) /\ Len(new) = Len(lh) + 1 /\ new[Len(lh) + 1] = b
        /\ \A i \in 1 .. Len(lh) : new[i] = lh[i]
    BY <1>1
  <2> HIDE DEF new
  <2>3. \A i \in 1 .. Len(new) : i \in 1 .. Len(lh) \/ i = Len(lh) + 1
    BY <1>1, <2>2
  <2>4. \A i \in 1 .. Len(lh) : lh[i] # b
    BY <1>3 DEF Contains
  <2>5. Once(new)
    BY <1>1, <2>2, <2>3, <2>4 DEF Once
  <2>6. \A c \in Blocks : Contains(new, c) <=> Contains(lh, c) \/ c = b
    <3> SUFFICES ASSUME NEW c \in Blocks
                 PROVE  Contains(new, c) <=> Contains(lh, c) \/ c = b
      OBVIOUS
    <3>1. ASSUME Contains(new, c) PROVE Contains(lh, c) \/ c = b
      BY <2>2, <2>3, <3>1 DEF Contains
    <3>2. ASSUME Contains(lh, c) PROVE Contains(new, c)
      BY <1>1, <2>2, <3>2 DEF Contains
    <3>3. Contains(new, b)
      BY <1>1, <2>2 DEF Contains
    <3> QED BY <3>1, <3>2, <3>3
  <2>7. Len(new) < NLOG
    BY <1>1, <2>2, SizesAssumption
  <2> QED BY <2>1, <2>2, <2>5, <2>6, <2>7
<1> QED BY <1>2, <1>3

LEMMA NextTypes == LInv /\ [Next]_vars => Types'
<1> SUFFICES ASSUME LInv, [Next]_vars PROVE Types'
  OBVIOUS
<1>1. Types /\ Seats /\ Headers /\ Contents
  BY DEF LInv
<1> USE SizesAssumption DEF Types, Places, Phases
<1>2. ASSUME NEW p \in Procs, BeginOp(p) PROVE Types'
  <2>1. at' \in [Procs -> Places] /\ outstanding' \in Nat
    <3>1. at \in [Procs -> Places] /\ outstanding \in Nat
      BY <1>1
    <3> HIDE DEF Types
    <3>2. \/ outstanding' = outstanding + 1 /\ at' = [at EXCEPT ![p] = "op"]
          \/ outstanding' = outstanding /\ at' = [at EXCEPT ![p] = "asleep"]
      BY <1>2 DEF BeginOp, BeginAt, Go
    <3> QED BY <3>1, <3>2
  <2>2. UNCHANGED <<disk, buffers, lh, committing, run, wrote, panicked>>
    BY <1>2 DEF BeginOp, BeginAt
  <2> QED BY <1>1, <2>1, <2>2 DEF disk, buffers, run, Once
<1>3. ASSUME NEW p \in Procs, EndOp(p) PROVE Types'
  <2>1. at[p] = "op"
    BY <1>3 DEF EndOp, EndAt
  <2>2. outstanding - 1 \in Nat
    <3>1. outstanding \in Nat
      BY <1>1
    <3> HIDE DEF Types
    <3>2. outstanding >= 1
      BY <1>1, <2>1, OpFacts
    <3> QED BY <3>1, <3>2
  <2>3. at' \in [Procs -> Places] /\ wrote' \in [Procs -> SUBSET Blocks]
    BY <1>1, <1>3 DEF EndOp, EndAt, Woken, Go
  <2>4. panicked' \in BOOLEAN /\ outstanding' \in Nat
    BY <1>1, <1>3, <2>2 DEF EndOp, EndAt
  <2>5. committing' \in BOOLEAN /\ phase' \in Phases /\ tail' \in Nat
    <3>1. CASE outstanding = 1
      BY <1>3, <3>1 DEF EndOp, EndAt, FirstPhase
    <3>2. CASE outstanding # 1
      BY <1>1, <1>3, <3>2 DEF EndOp, EndAt
    <3> QED BY <3>1, <3>2
  <2> QED BY <1>1, <1>3, <2>3, <2>4, <2>5 DEF EndOp, EndAt, disk, buffers, Once
<1>4. ASSUME CopyToLog PROVE Types'
  <2>1. /\ tail + 1 \in LogSlots /\ cache[lh[tail + 1]] \in Data
        /\ phase' \in Phases /\ tail' \in Nat
    <3>1. lh[tail + 1] \in Blocks /\ tail + 1 \in LogSlots /\ phase' \in {"copy", "head"}
          /\ tail' \in {tail + 1, 0}
      <4> HIDE DEF Types
      <4> QED BY <1>1, <1>4, TurnFacts DEF CopyToLog
    <3> QED BY <1>1, <3>1
  <2> QED BY <1>1, <1>4, <2>1 DEF CopyToLog, buffers, log, procs
<1>5. ASSUME WriteHead PROVE Types'
  BY <1>1, <1>5 DEF WriteHead, buffers, log, procs, Once
<1>6. ASSUME Install PROVE Types'
  <2> DEFINE b == lh[tail + 1]
             d == logBlock[tail + 1]
  <2>1. b \in Blocks /\ d \in Data /\ phase' \in Phases /\ tail' \in Nat
    <3>1. b \in Blocks /\ tail + 1 \in LogSlots /\ phase' \in {"install", "erase"}
          /\ tail' \in {tail + 1, 0}
      <4> HIDE DEF Types
      <4> QED BY <1>1, <1>6, TurnFacts DEF Install
    <3> QED BY <1>1, <3>1
  <2>2. /\ home' = [home EXCEPT ![b] = d] /\ cache' = [cache EXCEPT ![b] = d]
        /\ pinned' = pinned \ {b}
    BY <1>6 DEF Install
  <2> HIDE DEF b, d
  <2>3. home' \in [Blocks -> Data] /\ cache' \in [Blocks -> Data] /\ pinned' \subseteq Blocks
    BY <1>1, <2>1, <2>2
  <2> QED BY <1>1, <1>6, <2>1, <2>3 DEF Install, log, procs, Once
<1>7. ASSUME Erase PROVE Types'
  <2>1. <<>> \in Seq(Blocks) /\ Len(<<>>) < NLOG /\ Once(<<>>)
    BY DEF Once
  <2>2. lh' = <<>> /\ header' = <<>>
    BY <1>7 DEF Erase, EraseAs
  <2>3. lh' \in Seq(Blocks) /\ Len(lh') < NLOG /\ Once(lh)'
    BY <2>1, <2>2 DEF Once
  <2>4. header' \in Seq(Blocks) /\ Len(header') < NLOG /\ Once(header)'
    BY <2>1, <2>2 DEF Once
  <2> QED BY <1>1, <1>7, <2>3, <2>4 DEF Erase, EraseAs, buffers, procs
<1>8. ASSUME NEW p \in Procs, FinishCommit(p) PROVE Types'
  <2>1. at' \in [Procs -> Places]
    BY <1>1, <1>8 DEF FinishCommit, FinishAt, Woken
  <2> QED BY <1>1, <1>8, <2>1 DEF FinishCommit, FinishAt, disk, buffers, Once
<1>9. ASSUME NEW p \in Procs, NEW b \in Blocks, LogWrite(p, b) PROVE Types'
  <2>1. cache' \in [Blocks -> Data] /\ wrote' \in [Procs -> SUBSET Blocks]
    BY <1>1, <1>9 DEF LogWrite, LogAs
  <2>2. CASE LogFull
    BY <1>1, <1>9, <2>1, <2>2 DEF LogWrite, LogAs, disk, run, Once
  <2>3. CASE ~LogFull
    <3>1. /\ Logged(b) \in Seq(Blocks) /\ Len(Logged(b)) < NLOG /\ Once(Logged(b))
      <4> HIDE DEF Types
      <4> QED BY <1>1, <2>3, LoggedFacts
    <3>2. lh' = Logged(b) /\ pinned' = pinned \cup {b} /\ panicked' = panicked
      BY <1>9, <2>3 DEF LogWrite, LogAs
    <3>3. lh' \in Seq(Blocks) /\ Len(lh') < NLOG /\ Once(lh)'
      BY <3>1, <3>2 DEF Once
    <3> QED BY <1>1, <1>9, <2>1, <3>2, <3>3 DEF LogWrite, LogAs, disk, run, Once
  <2> QED BY <2>2, <2>3
<1>10. ASSUME NEW b \in Blocks, Evict(b) PROVE Types'
  BY <1>1, <1>10 DEF Evict, disk, log, run, procs, Once
<1>11. ASSUME ReadHead PROVE Types'
  BY <1>1, <1>11 DEF ReadHead, disk, buffers, procs, Once
<1>12. ASSUME Recovered PROVE Types'
  BY <1>1, <1>12 DEF Recovered, disk, buffers, log, procs, Once
<1>13. ASSUME Crash PROVE Types'
  <2>1. <<>> \in Seq(Blocks) /\ Len(<<>>) < NLOG /\ lh' = <<>>
    BY <1>13 DEF Crash
  <2>2. lh' \in Seq(Blocks) /\ Len(lh') < NLOG /\ Once(lh)'
    BY <2>1 DEF Once
  <2>3. at' \in [Procs -> Places] /\ wrote' \in [Procs -> SUBSET Blocks]
    BY <1>13 DEF Crash
  <2> QED BY <1>1, <1>13, <2>2, <2>3 DEF Crash, disk, Once
<1>14. CASE UNCHANGED vars
  BY <1>1, <1>14 DEF vars, disk, buffers, log, run, procs, Once
<1> QED BY <1>2, <1>3, <1>4, <1>5, <1>6, <1>7, <1>8, <1>9, <1>10, <1>11, <1>12, <1>13, <1>14
        DEF Next, CommitStep, Recovery

-----------------------------------------------------------------------------
(* Who takes the steps of commit and recovery.                             *)
LEMMA StepCases ==
  ASSUME LInv, Next
  PROVE  \/ \E p \in Procs : \/ BeginOp(p) \/ EndOp(p) \/ (committing /\ FinishCommit(p))
                             \/ \E b \in Blocks : LogWrite(p, b)
         \/ \E b \in Blocks : Evict(b)
         \/ committing /\ (CopyToLog \/ WriteHead)
         \/ (committing \/ recovering) /\ (Install \/ Erase)
         \/ recovering /\ (ReadHead \/ Recovered)
         \/ Crash
<1>1. \A p \in Procs : at[p] = "commit" => committing
  BY DEF LInv, Seats
<1> QED BY <1>1 DEF Next, CommitStep, Recovery

LEMMA NextSeats == LInv /\ [Next]_vars => Seats'
<1> SUFFICES ASSUME LInv, [Next]_vars PROVE Seats'
  OBVIOUS
<1>1. Types /\ Seats /\ Headers
  BY DEF LInv
<1>2. at \in [Procs -> Places] /\ outstanding \in Nat
  BY <1>1 DEF Types
<1>3. ASSUME UNCHANGED <<outstanding, at, committing, recovering, panicked>>,
             committing => phase' \in {"copy", "head", "install", "erase", "done"},
             recovering => phase' \in {"read", "install", "erase", "done"},
             ~committing /\ ~recovering => phase' = "none"
      PROVE  Seats'
  BY <1>1, <1>3 DEF Seats, Ops
<1>4. ASSUME NEW p \in Procs, BeginOp(p) PROVE Seats'
  <2>1. /\ at[p] \in {"idle", "begin"} /\ ~recovering
        /\ UNCHANGED <<committing, recovering, phase, panicked>>
    BY <1>4 DEF BeginOp, BeginAt, Up, run
  <2>2. CASE ~committing /\ outstanding' = outstanding + 1 /\ at' = [at EXCEPT ![p] = "op"]
    <3>1. outstanding + 1 = Cardinality(Ops \cup {p})
      BY <1>1, <2>1, OpFacts
    <3>2. Ops' = Ops \cup {p}
      BY <1>2, <2>2 DEF Ops
    <3>3. \A q \in Procs : at'[q] # "commit"
      BY <1>1, <1>2, <2>2 DEF Seats
    <3> QED BY <1>1, <2>1, <2>2, <3>1, <3>2, <3>3 DEF Seats
  <2>3. CASE outstanding' = outstanding /\ at' = [at EXCEPT ![p] = "asleep"]
    <3>1. Ops' = Ops /\ \A q \in Procs : at'[q] = "commit" <=> at[q] = "commit"
      BY <1>2, <2>1, <2>3 DEF Ops
    <3> QED BY <1>1, <2>1, <2>3, <3>1 DEF Seats
  <2> QED BY <1>4, <2>2, <2>3 DEF BeginOp, BeginAt, Go
<1>5. ASSUME NEW p \in Procs, EndOp(p) PROVE Seats'
  <2>1. /\ at[p] = "op" /\ outstanding' = outstanding - 1 /\ panicked' = committing
        /\ recovering' = recovering
    BY <1>5 DEF EndOp, EndAt
  <2>2. /\ outstanding - 1 = Cardinality(Ops \ {p}) /\ ~committing /\ ~recovering
        /\ phase = "none" /\ (outstanding = 1 => Ops \ {p} = {})
    BY <1>1, <2>1, OpFacts
  <2>3. \A q \in Procs : at[q] # "commit"
    BY <1>1, <2>2 DEF Seats
  <2>4. CASE /\ outstanding = 1 /\ at' = [at EXCEPT ![p] = "commit"] /\ committing' = TRUE
             /\ phase' = FirstPhase
    <3>1. Ops' = Ops \ {p}
      BY <1>2, <2>4 DEF Ops
    <3>2. phase' \in {"copy", "done"}
      BY <2>4 DEF FirstPhase
    <3>3. \A q \in Procs : at'[q] = "commit" => q = p
      BY <1>2, <2>3, <2>4
    <3> QED BY <2>1, <2>2, <2>4, <3>1, <3>2, <3>3 DEF Seats
  <2>5. CASE /\ at' = Woken([at EXCEPT ![p] = "idle"]) /\ committing' = committing
             /\ phase' = phase
    <3>1. Ops' = Ops \ {p} /\ \A q \in Procs : at'[q] # "commit"
      BY <1>2, <2>3, <2>5 DEF Ops, Woken
    <3> QED BY <2>1, <2>2, <2>5, <3>1 DEF Seats
  <2> QED BY <1>5, <2>4, <2>5 DEF EndOp, EndAt, Go
<1>6. ASSUME NEW p \in Procs, committing, FinishCommit(p) PROVE Seats'
  <2>1. /\ at[p] = "commit" /\ committing' = FALSE /\ phase' = "none" /\ ~recovering
        /\ at' = Woken([at EXCEPT ![p] = "idle"])
        /\ UNCHANGED <<outstanding, recovering, panicked>>
    BY <1>6 DEF FinishCommit, FinishAt, Up
  <2>2. Ops' = Ops /\ \A q \in Procs : at'[q] # "commit"
    BY <1>1, <1>2, <2>1 DEF Seats, Ops, Woken
  <2> QED BY <1>1, <2>1, <2>2 DEF Seats
<1>7. ASSUME NEW p \in Procs, NEW b \in Blocks, LogWrite(p, b) PROVE Seats'
  <2>1. ~committing /\ ~recovering
    BY <1>1, <1>7, OpFacts DEF LogWrite, LogAs, MayWrite
  <2> QED BY <1>1, <1>7, <2>1 DEF LogWrite, LogAs, run, Seats, Ops
<1>8. ASSUME NEW b \in Blocks, Evict(b) PROVE Seats'
  BY <1>1, <1>3, <1>8 DEF Evict, log, run, procs, Seats
<1>9. ASSUME committing, CopyToLog \/ WriteHead PROVE Seats'
  <2>1. UNCHANGED <<outstanding, at, committing, recovering, panicked>>
    BY <1>9 DEF CopyToLog, WriteHead, log, procs
  <2>2. phase' \in {"copy", "head", "install"}
    BY <1>9 DEF CopyToLog, WriteHead, Turn
  <2> QED BY <1>1, <1>3, <1>9, <2>1, <2>2 DEF Seats
<1>10. ASSUME committing \/ recovering, Install \/ Erase PROVE Seats'
  <2>1. UNCHANGED <<outstanding, at, committing, recovering, panicked>>
    BY <1>10 DEF Install, Erase, EraseAs, log, procs
  <2>2. phase' \in {"install", "erase", "done"}
    BY <1>10 DEF Install, Erase, EraseAs, Turn
  <2> QED BY <1>3, <1>10, <2>1, <2>2
<1>11. ASSUME recovering, ReadHead PROVE Seats'
  BY <1>1, <1>3, <1>11 DEF ReadHead, procs, Seats
<1>12. ASSUME recovering, Recovered PROVE Seats'
  BY <1>1, <1>12 DEF Recovered, log, procs, Seats, Ops
<1>13. ASSUME Crash PROVE Seats'
  <2>1. Ops' = {}
    BY <1>13 DEF Crash, Ops
  <2> QED BY <1>13, <2>1, FS_EmptySet DEF Crash, Seats
<1>14. CASE UNCHANGED vars
  BY <1>1, <1>14 DEF vars, log, run, procs, Seats, Ops
<1> QED BY <1>4, <1>5, <1>6, <1>7, <1>8, <1>9, <1>10, <1>11, <1>12, <1>13, <1>14, StepCases

LEMMA NextHeaders == LInv /\ [Next]_vars => Headers'
<1> SUFFICES ASSUME LInv, [Next]_vars PROVE Headers'
  OBVIOUS
<1>1. Types /\ Seats /\ Headers
  BY DEF LInv
<1>2. lh \in Seq(Blocks) /\ header \in Seq(Blocks) /\ Len(lh) \in Nat /\ tail \in Nat
  BY <1>1 DEF Types
<1>3. ASSUME UNCHANGED <<phase, tail, lh, header>> PROVE Headers'
  BY <1>1, <1>3 DEF Headers
<1>4. ASSUME NEW p \in Procs, BeginOp(p) PROVE Headers'
  BY <1>3, <1>4 DEF BeginOp, BeginAt, disk, run
<1>5. ASSUME NEW p \in Procs, EndOp(p) PROVE Headers'
  <2>1. phase = "none" /\ header' = header /\ lh' = lh
    BY <1>1, <1>5, OpFacts DEF EndOp, EndAt, disk
  <2>2. CASE phase' = FirstPhase /\ tail' = 0
    <3>1. lh # <<>> => 0 < Len(lh)
      BY <1>2
    <3> QED BY <1>1, <2>1, <2>2, <3>1 DEF Headers, FirstPhase
  <2>3. CASE UNCHANGED <<phase, tail>>
    BY <1>3, <2>1, <2>3
  <2> QED BY <1>5, <2>2, <2>3 DEF EndOp, EndAt
<1>6. ASSUME NEW p \in Procs, FinishCommit(p) PROVE Headers'
  BY <1>1, <1>6 DEF FinishCommit, FinishAt, disk, Headers
<1>7. ASSUME NEW p \in Procs, NEW b \in Blocks, LogWrite(p, b) PROVE Headers'
  <2>1. phase = "none"
    BY <1>1, <1>7, OpFacts DEF LogWrite, LogAs, MayWrite
  <2> QED BY <1>1, <1>7, <2>1 DEF LogWrite, LogAs, disk, run, Headers
<1>8. ASSUME NEW b \in Blocks, Evict(b) PROVE Headers'
  BY <1>3, <1>8 DEF Evict, disk, log, run
<1>9. ASSUME CopyToLog PROVE Headers'
  <2>1. /\ phase = "copy" /\ UNCHANGED <<lh, header>>
        /\ \/ phase' = "copy" /\ tail' = tail + 1 /\ tail' < Len(lh)
           \/ phase' = "head" /\ tail' = 0
    BY <1>1, <1>9, TurnFacts DEF CopyToLog, log
  <2> QED BY <1>1, <2>1 DEF Headers
<1>10. ASSUME WriteHead PROVE Headers'
  <2>1. lh # <<>> => 0 < Len(lh)
    BY <1>2
  <2> QED BY <1>1, <1>10, <2>1 DEF WriteHead, log, Headers
<1>11. ASSUME Install PROVE Headers'
  <2>1. /\ phase = "install" /\ UNCHANGED <<lh, header>>
        /\ \/ phase' = "install" /\ tail' = tail + 1 /\ tail' < Len(lh)
           \/ phase' = "erase" /\ tail' = 0
    BY <1>1, <1>11, TurnFacts DEF Install, log
  <2> QED BY <1>1, <2>1 DEF Headers
<1>12. ASSUME Erase PROVE Headers'
  BY <1>1, <1>12 DEF Erase, EraseAs, Headers
<1>13. ASSUME ReadHead PROVE Headers'
  <2>1. header # <<>> => 0 < Len(header)
    BY <1>2
  <2> QED BY <1>1, <1>13, <2>1 DEF ReadHead, disk, Headers
<1>14. ASSUME Recovered PROVE Headers'
  BY <1>1, <1>14 DEF Recovered, disk, log, Headers
<1>15. ASSUME Crash PROVE Headers'
  BY <1>15 DEF Crash, Headers
<1>16. CASE UNCHANGED vars
  BY <1>3, <1>16 DEF vars, disk, log, run
<1> QED BY <1>4, <1>5, <1>6, <1>7, <1>8, <1>9, <1>10, <1>11, <1>12, <1>13, <1>14, <1>15,
           <1>16, StepCases

LEMMA NextDrained == LInv /\ [Next]_vars => Drained'
<1> SUFFICES ASSUME LInv, [Next]_vars PROVE Drained'
  OBVIOUS
<1>1. Types /\ Seats /\ Headers /\ Drained /\ outstanding \in Nat
  BY DEF LInv, Types
<1>2. ASSUME NEW p \in Procs, BeginOp(p) PROVE Drained'
  BY <1>1, <1>2 DEF BeginOp, BeginAt, run, Drained
<1>3. ASSUME NEW p \in Procs, EndOp(p) PROVE Drained'
  <2>1. at[p] = "op" /\ outstanding' = outstanding - 1
    BY <1>3 DEF EndOp, EndAt
  <2>2. outstanding >= 1
    BY <1>1, <2>1, OpFacts
  <2>3. outstanding = 1 => phase' = FirstPhase
    BY <1>3 DEF EndOp, EndAt
  <2> QED BY <1>1, <2>1, <2>2, <2>3 DEF Drained, FirstPhase
<1>4. ASSUME NEW p \in Procs, FinishCommit(p) PROVE Drained'
  BY <1>1, <1>4 DEF FinishCommit, FinishAt, buffers, Headers, Drained
<1>5. ASSUME NEW p \in Procs, NEW b \in Blocks, LogWrite(p, b) PROVE Drained'
  <2>1. at[p] = "op" /\ outstanding' = outstanding
    BY <1>5 DEF LogWrite, LogAs, MayWrite
  <2>2. outstanding >= 1
    BY <1>1, <2>1, OpFacts
  <2> QED BY <2>1, <2>2 DEF Drained
<1>6. ASSUME NEW b \in Blocks, Evict(b) PROVE Drained'
  BY <1>1, <1>6 DEF Evict, log, run, Drained
<1>7. ASSUME CopyToLog \/ WriteHead \/ Install \/ Erase \/ ReadHead \/ Crash PROVE Drained'
  <2>1. phase' # "none"
    BY <1>7 DEF CopyToLog, WriteHead, Install, Erase, EraseAs, ReadHead, Crash, Turn
  <2> QED BY <2>1 DEF Drained
<1>8. ASSUME Recovered PROVE Drained'
  BY <1>1, <1>8 DEF Recovered, log, Headers, Drained
<1>9. CASE UNCHANGED vars
  BY <1>1, <1>9 DEF vars, log, run, Drained
<1> QED BY <1>2, <1>3, <1>4, <1>5, <1>6, <1>7, <1>8, <1>9, StepCases

-----------------------------------------------------------------------------
(* A buffer that is dropped, or that commit installs, keeps its data.       *)
LEMMA EvictKeeps == ASSUME LInv, NEW b \in Blocks, Evict(b) PROVE cache' = cache
<1>1. /\ b \notin pinned /\ ~panicked /\ cache' = [cache EXCEPT ![b] = home[b]]
      /\ Types /\ Seats /\ Headers /\ Contents
  BY DEF Evict, LInv
<1>2. cache[b] = home[b]
  <2>1. CASE phase \in {"none", "copy", "head"}
    BY <1>1, <2>1 DEF Contents
  <2>2. CASE phase \in {"erase", "done"} \/ recovering
    BY <1>1, <2>2 DEF Contents, Clean
  <2>3. CASE phase = "install" /\ committing
    <3>1. CASE Contains(lh, b)
      <4>1. PICK i \in 1 .. Len(lh) : lh[i] = b
        BY <3>1 DEF Contains
      <4>2. i \in 1 .. tail
        <5>1. tail \in Nat /\ Len(lh) \in Nat
          BY <1>1 DEF Types
        <5> QED BY <1>1, <2>3, <4>1, <5>1 DEF Contents
      <4> QED BY <1>1, <2>3, <4>1, <4>2 DEF Contents, Copies, Homed
    <3>2. CASE ~Contains(lh, b)
      BY <1>1, <2>3, <3>2 DEF Contents
    <3> QED BY <3>1, <3>2
  <2> QED BY <1>1, <2>1, <2>2, <2>3 DEF Seats, Types, Phases
<1> QED BY <1>1, <1>2 DEF Types

LEMMA InstallKeeps == ASSUME LInv, committing, Install PROVE cache' = cache
<1>1. /\ phase = "install" /\ tail + 1 \in 1 .. Len(lh)
      /\ cache' = [cache EXCEPT ![lh[tail + 1]] = logBlock[tail + 1]]
  BY TurnFacts DEF LInv, Install
<1>2. cache[lh[tail + 1]] = logBlock[tail + 1]
  BY <1>1 DEF LInv, Contents, Copies
<1> QED BY <1>1, <1>2 DEF LInv, Types

(* A commit copies what it will install, and installs what it has copied.  *)
LEMMA NextContents == LInv /\ [Next]_vars => Contents'
<1> SUFFICES ASSUME LInv, [Next]_vars PROVE Contents'
  OBVIOUS
<1>1. Types /\ Seats /\ Headers /\ Contents
  BY DEF LInv
<1>2. /\ lh \in Seq(Blocks) /\ Len(lh) \in Nat /\ tail \in Nat /\ pinned \subseteq Blocks
      /\ home \in [Blocks -> Data] /\ cache \in [Blocks -> Data]
      /\ logBlock \in [LogSlots -> Data]
      /\ \A i \in 1 .. Len(lh) : lh[i] \in Blocks /\ i \in LogSlots
      /\ Once(lh) /\ Len(lh) < NLOG
  BY <1>1, SizesAssumption DEF Types, LogSlots
<1>3. ASSUME UNCHANGED <<home, cache, pinned, logBlock, lh, phase, tail, panicked>>,
             committing' = committing, recovering' = recovering
      PROVE  Contents'
  BY <1>1, <1>3 DEF Contents, Clean, Copies, Homed
<1>4. ASSUME NEW p \in Procs, BeginOp(p) PROVE Contents'
  BY <1>3, <1>4 DEF BeginOp, BeginAt, disk, buffers, run
<1>5. ASSUME NEW p \in Procs, EndOp(p) PROVE Contents'
  <2>1. /\ phase = "none" /\ ~committing /\ ~recovering
        /\ recovering' = recovering /\ panicked' = FALSE
        /\ UNCHANGED <<home, cache, pinned, logBlock, lh>>
    <3>1. /\ at[p] = "op" /\ recovering' = recovering /\ panicked' = committing
          /\ UNCHANGED <<home, cache, pinned, logBlock, lh>>
      BY <1>5 DEF EndOp, EndAt, disk, buffers
    <3>2. phase = "none" /\ ~committing /\ ~recovering
      BY <1>1, <3>1, OpFacts
    <3>3. committing \in BOOLEAN
      BY <1>1 DEF Types
    <3> QED BY <3>1, <3>2, <3>3
  <2>2. ~panicked
    BY <1>5 DEF EndOp, EndAt, Up
  <2>3. CASE phase' = FirstPhase /\ tail' = 0
    <3>1. CASE lh = <<>>
      <4>1. pinned = {}
        BY <1>1, <2>1, <3>1 DEF Contents, Contains
      <4>2. cache = home
        BY <1>1, <1>2, <2>1, <2>2, <4>1 DEF Contents
      <4>3. phase' = "done"
        BY <2>3, <3>1 DEF FirstPhase
      <4> QED BY <2>1, <4>1, <4>2, <4>3 DEF Contents, Clean
    <3>2. CASE lh # <<>>
      <4>1. phase' = "copy"
        BY <2>3, <3>2 DEF FirstPhase
      <4>2. Copies(0)'
        BY DEF Copies
      <4> QED BY <1>1, <2>1, <2>2, <2>3, <4>1, <4>2 DEF Contents, Copies
    <3> QED BY <3>1, <3>2
  <2>4. CASE UNCHANGED <<committing, phase, tail>>
    BY <1>3, <2>1, <2>2, <2>4, <1>1 DEF Types
  <2> QED BY <1>5, <2>3, <2>4 DEF EndOp, EndAt
<1>6. ASSUME NEW p \in Procs, FinishCommit(p) PROVE Contents'
  <2>1. /\ phase = "done" /\ phase' = "none" /\ ~recovering' /\ lh = <<>>
        /\ UNCHANGED <<home, cache, pinned, lh>>
    BY <1>1, <1>6 DEF FinishCommit, FinishAt, Up, disk, buffers, Headers
  <2>2. Clean
    BY <1>1, <2>1 DEF Contents
  <2>3. {b \in Blocks : Contains(lh', b)} = {}
    BY <2>1 DEF Contains
  <2> QED BY <2>1, <2>2, <2>3 DEF Contents, Clean
<1>7. ASSUME NEW p \in Procs, NEW b \in Blocks, LogWrite(p, b) PROVE Contents'
  <2>1. phase = "none" /\ ~committing /\ ~recovering
    BY <1>1, <1>7, OpFacts DEF LogWrite, LogAs, MayWrite
  <2>2. /\ UNCHANGED <<home, logBlock, phase, tail, committing, recovering>>
        /\ ~panicked /\ \E d \in Data : cache' = [cache EXCEPT ![b] = d]
    BY <1>7 DEF LogWrite, LogAs, MayWrite, Up, disk, run
  <2>3. CASE LogFull
    BY <1>1, <1>7, <2>1, <2>2, <2>3 DEF LogWrite, LogAs, Contents
  <2>4. CASE ~LogFull
    <3>1. lh' = Logged(b) /\ pinned' = pinned \cup {b}
      BY <1>7, <2>4 DEF LogWrite, LogAs
    <3>2. \A c \in Blocks : Contains(lh', c) <=> Contains(lh, c) \/ c = b
      BY <1>1, <2>4, <3>1, LoggedFacts
    <3>3. pinned = {c \in Blocks : Contains(lh, c)}
      BY <1>1, <2>1 DEF Contents
    <3>4. pinned' = {c \in Blocks : Contains(lh', c)}
      BY <3>1, <3>2, <3>3
    <3>5. \A c \in Blocks \ pinned' : cache'[c] = home'[c]
      BY <1>1, <1>2, <2>1, <2>2, <3>1 DEF Contents
    <3> QED BY <2>1, <2>2, <3>4, <3>5 DEF Contents
  <2> QED BY <2>3, <2>4
<1>8. ASSUME NEW b \in Blocks, Evict(b) PROVE Contents'
  <2>1. /\ UNCHANGED <<home, pinned, logBlock, lh, phase, tail, panicked>>
        /\ UNCHANGED <<committing, recovering>>
    BY <1>8 DEF Evict, disk, log, run
  <2>2. cache' = cache
    BY <1>8, EvictKeeps
  <2> QED BY <1>3, <2>1, <2>2
<1>9. ASSUME CopyToLog PROVE Contents'
  <2>1. /\ phase = "copy" /\ tail + 1 \in 1 .. Len(lh) /\ tail + 1 \in LogSlots
        /\ \/ phase' = "copy" /\ tail' = tail + 1
           \/ phase' = "head" /\ tail + 1 = Len(lh)
        /\ logBlock' = [logBlock EXCEPT ![tail + 1] = cache[lh[tail + 1]]]
        /\ UNCHANGED <<home, cache, pinned, lh, committing, recovering, panicked>>
    BY <1>1, <1>9, TurnFacts DEF CopyToLog, buffers, log
  <2>2. Copies(tail) /\ \A i \in 1 .. tail + 1 : i \in 1 .. tail \/ i = tail + 1
    BY <1>1, <1>2, <2>1 DEF Contents
  <2>3. \A i \in 1 .. tail + 1 : logBlock'[i] = cache'[lh'[i]]
    BY <1>2, <2>1, <2>2 DEF Copies
  <2>4. ~recovering
    BY <1>1, <2>1 DEF Seats
  <2> QED BY <1>1, <2>1, <2>3, <2>4 DEF Contents, Copies
<1>10. ASSUME committing, WriteHead PROVE Contents'
  <2>1. /\ phase = "head" /\ phase' = "install" /\ tail' = 0
        /\ UNCHANGED <<home, cache, pinned, logBlock, lh, committing, recovering>>
        /\ ~recovering /\ ~panicked
    BY <1>1, <1>10 DEF WriteHead, buffers, log, Seats
  <2>2. Homed(0)'
    BY DEF Homed
  <2>3. pinned' = {lh'[i] : i \in 0 + 1 .. Len(lh')}
    BY <1>1, <1>2, <2>1 DEF Contents, Contains
  <2>4. \A b \in Blocks : ~Contains(lh', b) => cache'[b] = home'[b]
    BY <1>1, <2>1 DEF Contents
  <2> QED BY <1>1, <2>1, <2>2, <2>3, <2>4 DEF Contents, Copies, Homed
<1>11. ASSUME committing \/ recovering, Install PROVE Contents'
  <2> DEFINE b == lh[tail + 1]
             d == logBlock[tail + 1]
  <2>1. /\ phase = "install" /\ tail + 1 \in 1 .. Len(lh) /\ b \in Blocks
        /\ \/ phase' = "install" /\ tail' = tail + 1
           \/ phase' = "erase" /\ tail' = 0 /\ tail + 1 = Len(lh)
    BY <1>1, <1>11, TurnFacts DEF Install
  <2>2. /\ home' = [home EXCEPT ![b] = d] /\ cache' = [cache EXCEPT ![b] = d]
        /\ pinned' = pinned \ {b}
        /\ UNCHANGED <<logBlock, lh, committing, recovering, panicked>>
    BY <1>11 DEF Install, log
  <2>3. Homed(tail)
    BY <1>1, <2>1 DEF Contents
  <2>4. \A i \in 1 .. Len(lh) : i # tail + 1 => lh[i] # b
    BY <1>2, <2>1 DEF Once
  <2>5. \A i \in 1 .. tail + 1 : i \in 1 .. tail \/ i = tail + 1
    BY <1>2
  <2>6. \A i \in 1 .. tail : i \in 1 .. Len(lh) /\ i # tail + 1
    BY <1>2, <2>1
  <2>7. \A i \in 1 .. tail + 1 : home'[lh'[i]] = logBlock'[i]
    <3> SUFFICES ASSUME NEW i \in 1 .. tail + 1 PROVE home'[lh[i]] = logBlock[i]
      BY <2>2
    <3>1. CASE i = tail + 1
      BY <1>2, <2>1, <2>2, <3>1
    <3>2. CASE i \in 1 .. tail
      <4>1. lh[i] \in Blocks /\ lh[i] # b /\ home[lh[i]] = logBlock[i]
        BY <1>2, <2>3, <2>4, <2>6, <3>2 DEF Homed
      <4> HIDE DEF b
      <4> QED BY <1>2, <2>2, <4>1
    <3> QED BY <2>5, <3>1, <3>2
  <2>8. CASE recovering
    <3>1. Clean /\ ~committing
      BY <1>1, <2>8 DEF Contents, Seats
    <3>2. Clean'
      BY <2>2, <3>1 DEF Clean
    <3> QED BY <1>2, <2>1, <2>2, <2>7, <2>8, <3>1, <3>2 DEF Contents, Homed
  <2>9. CASE committing
    <3>1. /\ Copies(Len(lh)) /\ pinned = {lh[i] : i \in tail + 1 .. Len(lh)} /\ ~recovering
          /\ \A c \in Blocks : ~Contains(lh, c) => cache[c] = home[c]
      BY <1>1, <2>1, <2>9 DEF Contents, Seats
    <3>2. cache' = cache
      BY <1>11, <2>9, InstallKeeps
    <3>3. pinned' = {lh'[i] : i \in (tail + 1) + 1 .. Len(lh')}
      <4>1. \A i \in tail + 1 .. Len(lh) : i = tail + 1 \/ i \in (tail + 1) + 1 .. Len(lh)
        BY <1>2
      <4>2. \A i \in (tail + 1) + 1 .. Len(lh) :
              i \in tail + 1 .. Len(lh) /\ i # tail + 1 /\ i \in 1 .. Len(lh)
        BY <1>2
      <4> HIDE DEF b
      <4>3. pinned' = {lh[i] : i \in (tail + 1) + 1 .. Len(lh)}
        BY <2>2, <2>4, <3>1, <4>1, <4>2 DEF b
      <4> QED BY <2>2, <4>3
    <3>4. \A c \in Blocks : ~Contains(lh', c) => cache'[c] = home'[c]
      <4> SUFFICES ASSUME NEW c \in Blocks, ~Contains(lh, c) PROVE cache[c] = home'[c]
        BY <2>2, <3>2
      <4>1. c # b
        BY <2>1 DEF Contains
      <4> HIDE DEF b
      <4> QED BY <1>2, <2>2, <3>1, <4>1
    <3>5. CASE phase' = "install" /\ tail' = tail + 1
      BY <2>2, <2>7, <2>9, <3>1, <3>2, <3>3, <3>4, <3>5 DEF Contents, Copies, Homed
    <3>6. CASE phase' = "erase" /\ tail + 1 = Len(lh)
      <4>1. pinned' = {}
        BY <1>2, <2>2, <3>3, <3>6
      <4>2. \A c \in Blocks : cache'[c] = home'[c]
        <5> SUFFICES ASSUME NEW c \in Blocks, Contains(lh, c) PROVE cache[c] = home'[c]
          BY <2>2, <3>2, <3>4
        <5>1. PICK i \in 1 .. Len(lh) : lh[i] = c
          BY DEF Contains
        <5>2. home'[lh[i]] = logBlock[i] /\ logBlock[i] = cache[lh[i]]
          BY <2>2, <2>7, <3>1, <3>6, <5>1 DEF Copies
        <5> QED BY <5>1, <5>2
      <4>3. home' \in [Blocks -> Data] /\ cache' \in [Blocks -> Data]
        BY NextTypes DEF Types
      <4>4. cache' = home'
        BY <4>2, <4>3
      <4> QED BY <2>2, <2>7, <3>1, <3>6, <4>1, <4>4 DEF Contents, Homed, Clean
    <3> QED BY <2>1, <3>5, <3>6
  <2> QED BY <1>11, <2>8, <2>9
<1>12. ASSUME Erase PROVE Contents'
  <2>1. phase = "erase" /\ phase' = "done" /\ UNCHANGED <<home, cache, pinned, recovering>>
    BY <1>12 DEF Erase, EraseAs, buffers
  <2>2. Clean
    BY <1>1, <2>1 DEF Contents
  <2> QED BY <2>1, <2>2 DEF Contents, Clean
<1>13. ASSUME recovering, ReadHead PROVE Contents'
  <2>1. /\ phase = "read" /\ lh' = header /\ tail' = tail
        /\ phase' = IF header = <<>> THEN "erase" ELSE "install"
        /\ UNCHANGED <<home, cache, pinned, logBlock, committing, recovering>>
    BY <1>13 DEF ReadHead, disk, buffers
  <2>2. Clean /\ ~committing /\ tail = 0
    BY <1>1, <1>13, <2>1 DEF Contents, Seats, Headers
  <2>3. Homed(0)' /\ (lh' = <<>> => Homed(Len(lh))')
    BY DEF Homed
  <2> QED BY <2>1, <2>2, <2>3 DEF Contents, Clean, Homed
<1>14. ASSUME Recovered PROVE Contents'
  <2>1. /\ phase = "done" /\ phase' = "none" /\ ~recovering' /\ lh = <<>>
        /\ UNCHANGED <<home, cache, pinned, lh>>
    BY <1>1, <1>14 DEF Recovered, disk, buffers, log, Headers
  <2>2. Clean
    BY <1>1, <2>1 DEF Contents
  <2>3. {b \in Blocks : Contains(lh', b)} = {}
    BY <2>1 DEF Contains
  <2> QED BY <2>1, <2>2, <2>3 DEF Contents, Clean
<1>15. ASSUME Crash PROVE Contents'
  BY <1>15 DEF Crash, disk, Contents, Clean
<1>16. CASE UNCHANGED vars
  BY <1>3, <1>16 DEF vars, disk, buffers, log, run
<1> QED BY <1>4, <1>5, <1>6, <1>7, <1>8, <1>9, <1>10, <1>11, <1>12, <1>13, <1>14, <1>15,
           <1>16, StepCases

LEMMA NextLInv == LInv /\ [Next]_vars => LInv'
BY NextTypes, NextSeats, NextHeaders, NextContents, NextDrained DEF LInv

-----------------------------------------------------------------------------
(* The disk after a recovery from the header hd.                           *)
Redo(hd, slots, blocks) ==
  [b \in Blocks |-> IF \E i \in DOMAIN hd : hd[i] = b
                    THEN slots[CHOOSE i \in DOMAIN hd : hd[i] = b]
                    ELSE blocks[b]]

LEMMA RedoNothing ==
  ASSUME NEW slots, NEW blocks \in [Blocks -> Data]
  PROVE  Redo(<<>>, slots, blocks) = blocks
BY DEF Redo

(* Recovery gives f when the log has f's blocks and the disk has the others. *)
LEMMA RedoIs ==
  ASSUME NEW hd \in Seq(Blocks), Once(hd), NEW slots, NEW blocks,
         NEW f \in [Blocks -> Data],
         \A i \in 1 .. Len(hd) : slots[i] = f[hd[i]],
         \A b \in Blocks : ~Contains(hd, b) => blocks[b] = f[b]
  PROVE  Redo(hd, slots, blocks) = f
<1> SUFFICES ASSUME NEW b \in Blocks PROVE Redo(hd, slots, blocks)[b] = f[b]
  BY DEF Redo
<1>1. DOMAIN hd = 1 .. Len(hd)
  OBVIOUS
<1>2. CASE Contains(hd, b)
  <2> DEFINE k == CHOOSE i \in DOMAIN hd : hd[i] = b
  <2>1. \E i \in DOMAIN hd : hd[i] = b
    BY <1>1, <1>2 DEF Contains
  <2>2. k \in 1 .. Len(hd) /\ hd[k] = b
    BY <1>1, <2>1
  <2> QED BY <2>1, <2>2 DEF Redo
<1>3. CASE ~Contains(hd, b)
  <2>1. ~\E i \in DOMAIN hd : hd[i] = b
    BY <1>1, <1>3 DEF Contains
  <2> QED BY <1>3, <2>1 DEF Redo
<1> QED BY <1>2, <1>3

LEMMA DurableIsRedo == Durable = Redo(header, logBlock, home)
BY DEF Durable, Redo

LEMMA RedoTypes ==
  ASSUME NEW hd \in Seq(Blocks), Len(hd) < NLOG, NEW slots \in [LogSlots -> Data],
         NEW blocks \in [Blocks -> Data]
  PROVE  Redo(hd, slots, blocks) \in [Blocks -> Data]
<1> SUFFICES ASSUME NEW b \in Blocks PROVE Redo(hd, slots, blocks)[b] \in Data
  BY DEF Redo
<1>1. DOMAIN hd = 1 .. Len(hd) /\ \A i \in 1 .. Len(hd) : i \in LogSlots
  BY SizesAssumption DEF LogSlots
<1>2. CASE \E i \in DOMAIN hd : hd[i] = b
  <2> DEFINE k == CHOOSE i \in DOMAIN hd : hd[i] = b
  <2>1. k \in DOMAIN hd
    BY <1>2
  <2>2. k \in LogSlots
    BY <1>1, <2>1
  <2> QED BY <1>2, <2>2 DEF Redo
<1>3. CASE ~\E i \in DOMAIN hd : hd[i] = b
  BY <1>3 DEF Redo
<1> QED BY <1>2, <1>3

-----------------------------------------------------------------------------
LEMMA LInvImplies == LInv => LogSound
<1> SUFFICES ASSUME LInv PROVE LogSound
  OBVIOUS
<1>1. Types /\ Seats /\ Headers /\ Contents /\ Drained
  BY DEF LInv
<1>2. \A s \in Seq(Blocks) : Once(s) => IsInjective(s)
  BY DEF Once, IsInjective
<1>3. TypeOK
  <2>1. tail \in 0 .. NLOG - 2
    <3>1. tail \in Nat /\ Len(lh) \in Nat /\ Len(lh) < NLOG
      BY <1>1 DEF Types
    <3>2. tail < Len(lh) \/ tail = 0
      BY <1>1 DEF Headers
    <3> QED BY <3>1, <3>2, SizesAssumption
  <2>2. \A s \in {header, lh} : s \in Seq(Blocks) /\ IsInjective(s) /\ Len(s) < NLOG
    BY <1>1, <1>2 DEF Types
  <2> QED BY <1>1, <2>1, <2>2 DEF TypeOK, Types, Seats, Ops, Places, Phases
<1>4. QuietIsDurable
  <2> SUFFICES ASSUME Up, outstanding = 0, ~committing
               PROVE  cache = Durable /\ header = <<>>
    BY DEF QuietIsDurable
  <2>1. phase = "none" /\ lh = <<>> /\ header = <<>>
    BY <1>1 DEF Up, Seats, Headers, Drained
  <2>2. pinned = {}
    BY <1>1, <2>1 DEF Contents, Contains
  <2>3. cache = home
    BY <1>1, <2>1, <2>2 DEF Contents, Types, Up
  <2>4. Durable = home
    BY <1>1, <2>1, DurableIsRedo, RedoNothing DEF Types
  <2> QED BY <2>1, <2>3, <2>4
<1>5. ChangesPinned
  <2> SUFFICES ASSUME NEW b \in Blocks, Up, cache[b] # home[b]
               PROVE  b \in pinned /\ Contains(lh, b)
    BY DEF ChangesPinned
  <2>1. CASE phase \in {"none", "copy", "head"}
    BY <1>1, <2>1 DEF Contents, Up
  <2>2. CASE phase \in {"erase", "done"}
    BY <1>1, <2>2 DEF Contents, Clean
  <2>3. CASE phase = "install" /\ committing
    <3>1. PICK i \in 1 .. Len(lh) : lh[i] = b
      BY <1>1, <2>3 DEF Contents, Contains
    <3>2. i \notin 1 .. tail
      BY <1>1, <2>3, <3>1 DEF Contents, Copies, Homed
    <3>3. i \in tail + 1 .. Len(lh)
      BY <1>1, <3>1, <3>2 DEF Types
    <3> QED BY <1>1, <2>3, <3>1, <3>3 DEF Contents, Contains
  <2> QED BY <1>1, <2>1, <2>2, <2>3 DEF Up, Seats, Types, Phases
<1> QED BY <1>3, <1>4, <1>5 DEF LogSound

(* What the log, the buffers and the disk have is enough to commit and     *)
(* recover (log.c:81-163, 205-234).                                        *)
THEOREM LogCorrect == Spec => []LogSound
<1>1. LInv /\ [Next]_vars => LInv'
  BY NextLInv
<1>2. LInv => LogSound
  BY LInvImplies
<1> QED BY InitLInv, <1>1, <1>2, PTL DEF Spec

-----------------------------------------------------------------------------
(* The image that is written, and the one that a crash leaves.             *)
Mem == IF recovering THEN Durable ELSE cache

LEMMA InitAtomic == Init => AD!Init
<1> SUFFICES ASSUME Init PROVE AD!Init
  OBVIOUS
<1>1. Types /\ header = <<>> /\ recovering
  BY InitLInv DEF LInv, Init
<1>2. Durable = home
  BY <1>1, DurableIsRedo, RedoNothing DEF Types
<1>3. Ops = {}
  BY DEF Init, Ops
<1> QED BY <1>1, <1>2, <1>3 DEF AD!Init, Types, Ops

(* Neither a commit nor a recovery moves the durable image, except for     *)
(* write_head, which makes it the one that was written.                    *)
LEMMA DurableKept ==
  ASSUME LInv, [Next]_vars
  PROVE  Durable' = Durable \/ (committing /\ WriteHead)
<1>1. Types /\ Seats /\ Headers /\ Contents /\ LInv'
  BY NextLInv DEF LInv
<1>2. Types' /\ Headers' /\ Contents'
  BY <1>1 DEF LInv
<1>3. UNCHANGED disk => Durable' = Durable
  BY DEF disk, Durable
<1>4. header = <<>> => Durable = home
  BY <1>1, DurableIsRedo, RedoNothing DEF Types
<1>5. header' = <<>> => Durable' = home'
  <2>1. Durable' = Redo(header', logBlock', home')
    BY DEF Durable, Redo
  <2>2. home' \in [Blocks -> Data]
    BY <1>2 DEF Types
  <2>3. header' = <<>> => Redo(header', logBlock', home') = home'
    BY <2>2, RedoNothing
  <2> QED BY <2>1, <2>3
<1>6. ASSUME CopyToLog PROVE Durable' = Durable
  <2>1. header = <<>> /\ header' = header /\ home' = home
    BY <1>1, <1>6 DEF CopyToLog, Turn, Headers
  <2> QED BY <1>4, <1>5, <2>1
<1>7. ASSUME Install PROVE Durable' = Durable
  <2> DEFINE b == lh[tail + 1]
  <2>1. /\ header = lh /\ header' = lh /\ logBlock' = logBlock
        /\ tail + 1 \in 1 .. Len(lh) /\ b \in Blocks
        /\ home' = [home EXCEPT ![b] = logBlock[tail + 1]]
    BY <1>1, <1>7, TurnFacts DEF Install, Headers, Turn
  <2>2. \A c \in Blocks : home'[c] = home[c] \/ c = b
    BY <1>1, <2>1 DEF Types
  <2>3. \E i \in DOMAIN lh : lh[i] = b
    <3>1. DOMAIN lh = 1 .. Len(lh)
      BY <1>1 DEF Types
    <3> QED BY <2>1, <3>1
  <2> HIDE DEF b
  <2>4. \A c \in Blocks : (~\E i \in DOMAIN lh : lh[i] = c) => home'[c] = home[c]
    BY <2>2, <2>3
  <2>5. Durable = [c \in Blocks |-> IF \E i \in DOMAIN lh : lh[i] = c
                                   THEN logBlock[CHOOSE i \in DOMAIN lh : lh[i] = c]
                                   ELSE home[c]]
    BY <2>1 DEF Durable
  <2>6. Durable' = [c \in Blocks |-> IF \E i \in DOMAIN lh : lh[i] = c
                                    THEN logBlock[CHOOSE i \in DOMAIN lh : lh[i] = c]
                                    ELSE home'[c]]
    BY <2>1 DEF Durable
  <2> QED BY <2>4, <2>5, <2>6
<1>8. ASSUME Erase PROVE Durable' = Durable
  <2>1. header = lh /\ header' = <<>> /\ home' = home /\ Homed(Len(lh))
    BY <1>1, <1>8 DEF Erase, EraseAs, Headers, Contents
  <2>2. Durable = home
    BY <1>1, <2>1, DurableIsRedo, RedoIs DEF Types, Homed
  <2> QED BY <1>5, <2>1, <2>2
<1>9. CASE UNCHANGED vars
  BY <1>3, <1>9 DEF vars
<1>10. ASSUME NEW p \in Procs, BeginOp(p) \/ EndOp(p) \/ FinishCommit(p) PROVE UNCHANGED disk
  BY <1>10 DEF BeginOp, BeginAt, EndOp, EndAt, FinishCommit, FinishAt
<1>11. ASSUME NEW p \in Procs, NEW b \in Blocks, LogWrite(p, b) PROVE UNCHANGED disk
  BY <1>11 DEF LogWrite, LogAs
<1>12. ASSUME NEW b \in Blocks, Evict(b) PROVE UNCHANGED disk
  BY <1>12 DEF Evict
<1>13. ASSUME ReadHead \/ Recovered \/ Crash PROVE UNCHANGED disk
  BY <1>13 DEF ReadHead, Recovered, Crash
<1> QED BY <1>3, <1>6, <1>7, <1>8, <1>9, <1>10, <1>11, <1>12, <1>13, StepCases

(* The commit point: what is durable becomes what the buffers have.        *)
LEMMA CommitPoint == ASSUME LInv, committing, WriteHead PROVE Durable' = cache
<1>1. /\ Types /\ phase = "head" /\ ~panicked /\ Contents
      /\ header' = lh /\ UNCHANGED <<home, logBlock>>
  BY DEF LInv, WriteHead, Seats
<1>2. \A i \in 1 .. Len(lh) : logBlock[i] = cache[lh[i]]
  BY <1>1 DEF Contents, Copies
<1>3. \A b \in Blocks : ~Contains(lh, b) => home[b] = cache[b]
  BY <1>1 DEF Contents
<1>4. Durable' = Redo(lh, logBlock, home)
  BY <1>1 DEF Durable, Redo
<1> QED BY <1>1, <1>2, <1>3, <1>4, RedoIs DEF Types

LEMMA StepAtomic == LInv /\ [Next]_vars => [AD!Next]_(AD!vars)
<1> SUFFICES ASSUME LInv, [Next]_vars PROVE [AD!Next]_(AD!vars)
  OBVIOUS
<1>1. Types /\ Seats /\ Headers /\ Contents
  BY DEF LInv
<1>2. ASSUME UNCHANGED <<Durable, Mem, Ops>> PROVE [AD!Next]_(AD!vars)
  BY <1>2 DEF AD!vars, Mem, Ops
<1>3. ASSUME NEW p \in Procs, BeginOp(p) PROVE [AD!Next]_(AD!vars)
  <2>1. /\ at[p] \in {"idle", "begin"}
        /\ UNCHANGED <<cache, recovering, disk>> /\ Durable' = Durable
    BY <1>3 DEF BeginOp, BeginAt, buffers, run, disk, Durable
  <2>2. Mem' = Mem
    BY <2>1 DEF Mem
  <2>3. CASE at' = [at EXCEPT ![p] = "op"]
    <3>1. p \notin Ops /\ Ops' = Ops \cup {p}
      BY <1>1, <2>1, <2>3 DEF Types, Ops
    <3>2. AD!Begin(p)
      BY <2>1, <2>2, <3>1 DEF AD!Begin, Mem, Ops
    <3> QED BY <3>2 DEF AD!Next
  <2>4. CASE at' = [at EXCEPT ![p] = "asleep"]
    <3>1. Ops' = Ops
      BY <1>1, <2>1, <2>4 DEF Types, Ops
    <3> QED BY <1>2, <2>1, <2>2, <3>1
  <2> QED BY <1>3, <2>3, <2>4 DEF BeginOp, BeginAt, Go
<1>4. ASSUME NEW p \in Procs, EndOp(p) PROVE [AD!Next]_(AD!vars)
  <2>1. at[p] = "op" /\ UNCHANGED <<cache, recovering>> /\ Durable' = Durable
    BY <1>4 DEF EndOp, EndAt, buffers, disk, Durable
  <2>2. Mem' = Mem
    BY <2>1 DEF Mem
  <2>3. p \in Ops /\ Ops' = Ops \ {p}
    <3>1. \A q \in Procs : at'[q] = "op" <=> at[q] = "op" /\ q # p
      BY <1>1, <1>4 DEF EndOp, EndAt, Go, Woken, Types
    <3> QED BY <2>1, <3>1 DEF Ops
  <2>4. AD!End(p)
    BY <2>1, <2>2, <2>3 DEF AD!End, Mem, Ops
  <2> QED BY <2>4 DEF AD!Next
<1>5. ASSUME NEW p \in Procs, FinishCommit(p) PROVE [AD!Next]_(AD!vars)
  <2>1. at[p] = "commit" /\ UNCHANGED <<cache, recovering>> /\ Durable' = Durable
    BY <1>5 DEF FinishCommit, FinishAt, buffers, disk, Durable
  <2>2. \A q \in Procs : at'[q] = "op" <=> at[q] = "op"
    BY <1>1, <1>5, <2>1 DEF FinishCommit, FinishAt, Woken, Types
  <2> QED BY <1>2, <2>1, <2>2 DEF Mem, Ops
<1>6. ASSUME NEW p \in Procs, NEW b \in Blocks, LogWrite(p, b) PROVE [AD!Next]_(AD!vars)
  <2>1. at[p] = "op" /\ ~recovering /\ UNCHANGED <<at, recovering>> /\ Durable' = Durable
    BY <1>6 DEF LogWrite, LogAs, MayWrite, Up, run, disk, Durable
  <2>2. PICK d \in Data : cache' = [cache EXCEPT ![b] = d]
    BY <1>6 DEF LogWrite, LogAs
  <2>3. AD!Write(p)
    BY <2>1, <2>2 DEF AD!Write
  <2> QED BY <2>3 DEF AD!Next
<1>7. ASSUME NEW b \in Blocks, Evict(b) PROVE [AD!Next]_(AD!vars)
  <2>1. UNCHANGED <<at, recovering>> /\ Durable' = Durable
    BY <1>7 DEF Evict, run, procs, disk, Durable
  <2> QED BY <1>2, <1>7, <2>1, EvictKeeps DEF Mem, Ops
<1>8. ASSUME committing, CopyToLog PROVE [AD!Next]_(AD!vars)
  <2>1. UNCHANGED <<cache, at, recovering>> /\ phase = "copy"
    BY <1>8 DEF CopyToLog, Turn, buffers, procs
  <2>2. Durable' = Durable
    BY <2>1, DurableKept DEF WriteHead
  <2> QED BY <1>2, <2>1, <2>2 DEF Mem, Ops
<1>9. ASSUME committing, WriteHead PROVE [AD!Next]_(AD!vars)
  <2>1. /\ UNCHANGED <<cache, at, recovering>> /\ ~recovering /\ Ops = {}
    BY <1>1, <1>9 DEF WriteHead, buffers, procs, Seats
  <2>2. AD!Commit
    BY <1>9, <2>1, CommitPoint DEF AD!Commit, Ops
  <2> QED BY <2>2 DEF AD!Next
<1>10. ASSUME committing \/ recovering, Install PROVE [AD!Next]_(AD!vars)
  <2>1. UNCHANGED <<at, recovering>> /\ phase = "install"
    BY <1>10 DEF Install, Turn, procs
  <2>2. Durable' = Durable
    BY <2>1, DurableKept DEF WriteHead
  <2>3. committing => cache' = cache
    BY <1>10, InstallKeeps
  <2>4. Mem' = Mem
    BY <1>10, <2>1, <2>2, <2>3 DEF Mem
  <2> QED BY <1>2, <2>1, <2>2, <2>4 DEF Ops
<1>11. ASSUME Erase PROVE [AD!Next]_(AD!vars)
  <2>1. UNCHANGED <<cache, at, recovering>> /\ phase = "erase"
    BY <1>11 DEF Erase, EraseAs, buffers, procs
  <2>2. Durable' = Durable
    BY <2>1, DurableKept DEF WriteHead
  <2> QED BY <1>2, <2>1, <2>2 DEF Mem, Ops
<1>12. ASSUME recovering, ReadHead PROVE [AD!Next]_(AD!vars)
  <2>1. UNCHANGED <<cache, at, recovering>> /\ Durable' = Durable
    BY <1>12 DEF ReadHead, buffers, procs, disk, Durable
  <2> QED BY <1>2, <2>1 DEF Mem, Ops
<1>13. ASSUME recovering, Recovered PROVE [AD!Next]_(AD!vars)
  <2>1. /\ UNCHANGED <<cache, at>> /\ Durable' = Durable /\ ~recovering' /\ phase = "done"
    BY <1>13 DEF Recovered, buffers, procs, disk, Durable
  <2>2. Clean /\ header = <<>>
    BY <1>1, <2>1 DEF Contents, Headers
  <2>3. Durable = cache
    BY <1>1, <2>2, DurableIsRedo, RedoNothing DEF Types, Clean
  <2> QED BY <1>2, <1>13, <2>1, <2>3 DEF Mem, Ops
<1>14. ASSUME Crash PROVE [AD!Next]_(AD!vars)
  <2>1. Durable' = Durable /\ recovering'
    BY <1>14 DEF Crash, disk, Durable
  <2>2. Ops' = {}
    BY <1>14 DEF Crash, Ops
  <2>3. AD!Crash
    BY <2>1, <2>2 DEF AD!Crash, Ops
  <2> QED BY <2>3 DEF AD!Next
<1>15. CASE UNCHANGED vars
  <2>1. UNCHANGED <<cache, at, recovering>> /\ Durable' = Durable
    BY <1>15 DEF vars, disk, buffers, run, procs, Durable
  <2> QED BY <1>2, <2>1 DEF Mem, Ops
<1> QED BY <1>3, <1>4, <1>5, <1>6, <1>7, <1>8, <1>9, <1>10, <1>11, <1>12, <1>13, <1>14,
           <1>15, StepCases

(* A crash at any step leaves the disk as it was between two operations:   *)
(* the log implements AtomicDisk, whose commit is write_head (log.c:98-113, *)
(* 192-203).                                                               *)
THEOREM LogRefined == Spec => LogIsAtomic
<1>1. LInv /\ [Next]_vars => LInv'
  BY NextLInv
<1>2. LInv /\ [Next]_vars => [AD!Next]_(AD!vars)
  BY StepAtomic
<1> QED BY InitLInv, InitAtomic, <1>1, <1>2, PTL DEF Spec, LogIsAtomic, AD!Spec
=============================================================================
