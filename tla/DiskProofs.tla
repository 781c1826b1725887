----------------------------- MODULE DiskProofs -----------------------------
(***************************************************************************)
(* The blocks of the disk and the tree of names in them.  BufferCache: a   *)
(* block is in one buffer and bread returns its last content, for any      *)
(* finite sets of processes and buffers and any blocks and data.           *)
(* Directory: names make a tree, links are counted and no inode is lost    *)
(* but in two known ways, for any finite sets of users and inode numbers,  *)
(* any calls and any sound disks to start from.                            *)
(***************************************************************************)
EXTENDS BufferCache, Directory, FiniteSetTheorems, WellFoundedInduction, TLAPS

-----------------------------------------------------------------------------
(* The buffer cache.                                                       *)
Places == {"idle", "lock", "asleep", "iderw", "disk", "awake", "have", "brelse"}
Inside == {"iderw", "disk", "awake", "have"}    \* with the buffer's sleep lock

Types ==
  /\ block \in [Bufs -> Blocks \cup {None}]
  /\ refcnt \in [Bufs -> Nat]
  /\ holder \in [Bufs -> Procs \cup {None}]
  /\ valid \in [Bufs -> BOOLEAN] /\ dirty \in [Bufs -> BOOLEAN]
  /\ data \in [Bufs -> Data] /\ disk \in [Blocks -> Data]
  /\ newest \in [Blocks -> Data]
  /\ lru \in Orders
  /\ idequeue \in Seq(Bufs)
  /\ started \in BOOLEAN /\ panicked \in BOOLEAN
  /\ at \in [Procs -> Places]
  /\ buf \in [Procs -> Bufs \cup {None}]
  /\ want \in [Procs -> Blocks \cup {None}]

\* A buffer's references are the processes that have it.
Holders(b) == {p \in Procs : buf[p] = b}
Counted == \A b \in Bufs : refcnt[b] = Cardinality(Holders(b))

\* Who has a buffer has one for the block that he asked for.
Asked ==
  \A p \in Procs :
    /\ at[p] = "idle" <=> buf[p] = None
    /\ buf[p] # None => want[p] \in Blocks /\ block[buf[p]] = want[p]

Unique == \A b, c \in Bufs : block[b] = block[c] /\ block[b] # None => b = c

\* The sleep lock is with the one process that works on the buffer.
Held ==
  \A p \in Procs, b \in Bufs : holder[b] = p <=> buf[p] = b /\ at[p] \in Inside

\* The disk's queue has the buffers that somebody waits for, each once.
Queued ==
  /\ IsInjective(idequeue)
  /\ started => idequeue # <<>>
  /\ \A i \in DOMAIN idequeue :
       \E p \in Procs : at[p] = "disk" /\ buf[p] = idequeue[i]
  /\ \A p \in Procs :
       at[p] = "disk" => \E i \in DOMAIN idequeue : idequeue[i] = buf[p]

\* A block's last content is in its buffer if that is valid, and on the disk
\* unless that buffer is dirty.
Contents ==
  /\ \A b \in Bufs : /\ valid[b] => block[b] # None /\ data[b] = newest[block[b]]
                     /\ dirty[b] => valid[b]
  /\ \A k \in Blocks : disk[k] = newest[k] \/ \E b \in Bufs : block[b] = k /\ dirty[b]
  /\ \A p \in Procs : /\ at[p] = "have" => valid[buf[p]]
                      /\ at[p] = "awake" => valid[buf[p]] /\ ~dirty[buf[p]]

BInv == Types /\ Counted /\ Asked /\ Unique /\ Held /\ Queued /\ Contents

-----------------------------------------------------------------------------
LEMMA OrdersExist == Orders # {}
  BY FiniteAssumption, FS_CardinalityType DEF Orders, ExistsBijection

LEMMA InitBInv == Init => BInv
<1> SUFFICES ASSUME Init PROVE BInv
  OBVIOUS
<1>1. lru \in Orders
  BY OrdersExist DEF Init
<1>2. Types
  <2>1. idequeue \in Seq(Bufs)
    BY DEF Init
  <2>2. data \in [Bufs -> Data] /\ disk \in [Blocks -> Data] /\ newest \in [Blocks -> Data]
    BY DEF Init
  <2> QED BY <1>1, <2>1, <2>2 DEF Init, Types, Places
<1>3. Counted
  <2> SUFFICES ASSUME NEW b \in Bufs PROVE refcnt[b] = Cardinality(Holders(b))
    BY DEF Counted
  <2>1. Holders(b) = {}
    BY NoneAssumption DEF Holders, Init
  <2> QED BY <2>1, FS_EmptySet DEF Init
<1>4. Asked /\ Unique /\ Held
  BY NoneAssumption DEF Init, Asked, Unique, Held, Inside
<1>5. Queued
  BY DEF Init, Queued, IsInjective
<1>6. Contents
  BY DEF Init, Contents
<1> QED BY <1>2, <1>3, <1>4, <1>5, <1>6 DEF BInv

(* The number of users when one comes or goes.                             *)
LEMMA UserFacts ==
  ASSUME Types, Counted, NEW b \in Bufs, NEW p \in Procs
  PROVE  /\ Cardinality(Holders(b)) \in 0 .. Cardinality(Procs)
         /\ refcnt[b] = 0 <=> Holders(b) = {}
         /\ buf[p] = b => /\ refcnt[b] >= 1
                          /\ refcnt[b] - 1 = Cardinality(Holders(b) \ {p})
         /\ buf[p] # b => refcnt[b] + 1 = Cardinality(Holders(b) \cup {p})
<1>1. Holders(b) \subseteq Procs /\ IsFiniteSet(Procs)
  BY FiniteAssumption DEF Holders
<1>2. /\ IsFiniteSet(Holders(b)) /\ Cardinality(Procs) \in Nat
      /\ Cardinality(Holders(b)) \in Nat
      /\ Cardinality(Holders(b)) <= Cardinality(Procs)
  BY <1>1, FS_Subset, FS_CardinalityType
<1>3. Cardinality(Holders(b)) = 0 <=> Holders(b) = {}
  BY <1>2, FS_EmptySet
<1>4. refcnt[b] = Cardinality(Holders(b))
  BY DEF Counted
<1>5. p \in Holders(b) <=> buf[p] = b
  BY DEF Holders
<1>6. buf[p] = b => Cardinality(Holders(b) \ {p}) = Cardinality(Holders(b)) - 1
  BY <1>2, <1>5, FS_RemoveElement
<1>7. buf[p] # b => Cardinality(Holders(b) \cup {p}) = Cardinality(Holders(b)) + 1
  BY <1>2, <1>5, FS_AddElement
<1>8. buf[p] = b => refcnt[b] >= 1
  BY <1>2, <1>3, <1>4, <1>5
<1> QED BY <1>2, <1>3, <1>4, <1>5, <1>6, <1>7, <1>8

(* brelse's move keeps every buffer in the list once.                      *)
LEMMA MoveKeepsOrder ==
  ASSUME Types, NEW b \in Bufs
  PROVE  MovedToFront(b) \in Orders
<1> DEFINE N == Cardinality(Bufs)
           i == CHOOSE i \in DOMAIN lru : lru[i] = b
           moved == [j \in DOMAIN lru |->
                       IF j = 1 THEN b ELSE IF j <= i THEN lru[j - 1] ELSE lru[j]]
<1>1. N \in Nat
  BY FiniteAssumption, FS_CardinalityType
<1>2. /\ lru \in [1 .. N -> Bufs]
      /\ \A j, k \in 1 .. N : lru[j] = lru[k] => j = k
      /\ \A c \in Bufs : \E j \in 1 .. N : lru[j] = c
  BY DEF Types, Orders, Bijection, Injection, Surjection, IsInjective
<1>3. i \in 1 .. N /\ lru[i] = b
  BY <1>2
<1> HIDE DEF i, N
<1>4. moved \in [1 .. N -> Bufs]
  BY <1>1, <1>2, <1>3
<1>5. ASSUME NEW j \in 1 .. N, NEW k \in 1 .. N, moved[j] = moved[k] PROVE j = k
  BY <1>1, <1>2, <1>3, <1>5
<1>6. ASSUME NEW c \in Bufs PROVE \E j \in 1 .. N : moved[j] = c
  <2>1. PICK k \in 1 .. N : lru[k] = c
    BY <1>2
  <2>2. CASE k = i
    BY <1>1, <1>2, <1>3, <2>1, <2>2
  <2>3. CASE k < i
    <3>1. k + 1 \in 1 .. N /\ k + 1 # 1 /\ k + 1 <= i /\ (k + 1) - 1 = k
      BY <1>1, <1>3, <2>3
    <3>2. moved[k + 1] = c
      BY <1>2, <2>1, <3>1
    <3> QED BY <3>1, <3>2
  <2>4. CASE k > i
    BY <1>1, <1>2, <1>3, <2>1, <2>4
  <2> QED BY <1>3, <2>2, <2>3, <2>4
<1>7. moved \in Orders
  BY <1>4, <1>5, <1>6 DEF Orders, Bijection, Injection, Surjection, IsInjective, N
<1> QED BY <1>7 DEF MovedToFront, i

-----------------------------------------------------------------------------
(* A step of bget that finds the block, and one that recycles a buffer.    *)
GetHit(p, k, b) ==
  /\ at[p] = "idle" /\ block[b] = k
  /\ refcnt' = [refcnt EXCEPT ![b] = @ + 1]
  /\ UNCHANGED <<block, valid, dirty, panicked>>

GetRecycled(p, k, b) ==
  /\ at[p] = "idle" /\ b \in Unused /\ ~Cached(k)
  /\ refcnt' = [refcnt EXCEPT ![b] = 1]
  /\ block' = [block EXCEPT ![b] = k]
  /\ valid' = [valid EXCEPT ![b] = FALSE]
  /\ dirty' = [dirty EXCEPT ![b] = FALSE]
  /\ UNCHANGED panicked

Gets(p, k, b) ==
  /\ GetHit(p, k, b) \/ GetRecycled(p, k, b)
  /\ buf' = [buf EXCEPT ![p] = b]
  /\ want' = [want EXCEPT ![p] = k]
  /\ at' = [at EXCEPT ![p] = "lock"]
  /\ UNCHANGED <<holder, data, lru, ide, newest>>

CachePanics(p, k) ==
  /\ at[p] = "idle"
  /\ want' = [want EXCEPT ![p] = k]
  /\ panicked' = TRUE
  /\ UNCHANGED <<bufs, ide, at, buf, newest>>

LEMMA BgetCases ==
  ASSUME Types, NEW p \in Procs, NEW k \in Blocks, Bget(p, k)
  PROVE  CachePanics(p, k) \/ \E b \in Bufs : Gets(p, k, b)
<1>1. CASE Cached(k)
  <2>1. Hit(p, k)
    BY <1>1 DEF Bget
  <2>2. PICK b \in Bufs : /\ block[b] = k
                          /\ refcnt' = [refcnt EXCEPT ![b] = @ + 1]
                          /\ Take(p, b)
                          /\ UNCHANGED <<block, valid, dirty, panicked>>
    BY <2>1 DEF Hit
  <2>3. Gets(p, k, b)
    BY <2>2 DEF Gets, GetHit, Bget, Take, Go
  <2> QED BY <2>3
<1>2. CASE ~Cached(k)
  <2>1. Recycle(p, k, Unused)
    BY <1>2 DEF Bget
  <2>2. CASE Unused = {}
    <3>1. panicked' = TRUE /\ UNCHANGED <<block, refcnt, valid, dirty, buf, at>>
      BY <2>1, <2>2 DEF Recycle
    <3> QED BY <3>1 DEF CachePanics, Bget, bufs
  <2>3. CASE Unused # {}
    <3>1. PICK i \in DOMAIN lru :
            LET b == lru[i] IN
            /\ b \in Unused
            /\ block' = [block EXCEPT ![b] = k]
            /\ refcnt' = [refcnt EXCEPT ![b] = 1]
            /\ valid' = [valid EXCEPT ![b] = FALSE]
            /\ dirty' = [dirty EXCEPT ![b] = FALSE]
            /\ Take(p, b)
            /\ UNCHANGED panicked
      BY <2>1, <2>3 DEF Recycle
    <3>2. lru[i] \in Bufs
      BY <3>1 DEF Unused
    <3>3. Gets(p, k, lru[i])
      BY <1>2, <3>1 DEF Gets, GetRecycled, Bget, Take, Go
    <3> QED BY <3>2, <3>3
  <2> QED BY <2>2, <2>3
<1> QED BY <1>1, <1>2

(* What a step leaves alone, and the step of the disk.                     *)
LEMMA InBufs ==
  ASSUME BInv, NEW p \in Procs, at[p] # "idle"
  PROVE  /\ buf[p] \in Bufs /\ want[p] \in Blocks /\ block[buf[p]] = want[p]
         /\ block[buf[p]] \in Blocks /\ block[buf[p]] # None
<1>1. buf[p] \in Bufs /\ buf[p] # None
  BY NoneAssumption DEF BInv, Types, Asked
<1> QED BY <1>1, NoneAssumption DEF BInv, Asked

LEMMA HeadFacts ==
  ASSUME BInv, started
  PROVE  /\ idequeue # <<>> /\ Head(idequeue) \in Bufs
         /\ Tail(idequeue) \in Seq(Bufs) /\ Len(Tail(idequeue)) = Len(idequeue) - 1
         /\ \A i \in DOMAIN Tail(idequeue) :
              i + 1 \in DOMAIN idequeue /\ Tail(idequeue)[i] = idequeue[i + 1]
         /\ block[Head(idequeue)] \in Blocks /\ block[Head(idequeue)] # None
         /\ Head(idequeue) = idequeue[1] /\ 1 \in DOMAIN idequeue
<1>1. idequeue \in Seq(Bufs) /\ idequeue # <<>>
  BY DEF BInv, Types, Queued
<1>2. /\ Head(idequeue) \in Bufs /\ Head(idequeue) = idequeue[1]
      /\ Tail(idequeue) \in Seq(Bufs) /\ Len(Tail(idequeue)) = Len(idequeue) - 1
      /\ \A i \in 1 .. Len(Tail(idequeue)) : Tail(idequeue)[i] = idequeue[i + 1]
      /\ Len(idequeue) \in Nat \ {0}
  BY <1>1
<1>3. DOMAIN idequeue = 1 .. Len(idequeue) /\ DOMAIN Tail(idequeue) = 1 .. Len(Tail(idequeue))
  BY <1>1, <1>2
<1>4. PICK p \in Procs : at[p] = "disk" /\ buf[p] = idequeue[1]
  BY <1>2, <1>3 DEF BInv, Queued
<1>5. block[buf[p]] \in Blocks /\ block[buf[p]] # None
  BY <1>4, InBufs
<1> QED BY <1>1, <1>2, <1>3, <1>4, <1>5

LEMMA NextTypes == BInv /\ [Next]_vars => Types'
<1> SUFFICES ASSUME BInv, [Next]_vars PROVE Types'
  OBVIOUS
<1>1. Types /\ Counted
  BY DEF BInv
<1> USE <1>1 DEF Types, Places
<1>2. ASSUME NEW p \in Procs, NEW k \in Blocks, Bget(p, k) PROVE Types'
  <2>1. CASE CachePanics(p, k)
    BY <2>1 DEF CachePanics, bufs, ide
  <2>2. CASE \E b \in Bufs : Gets(p, k, b)
    <3>1. PICK b \in Bufs : Gets(p, k, b)
      BY <2>2
    <3>2. refcnt' \in [Bufs -> Nat]
      BY <3>1 DEF Gets, GetHit, GetRecycled
    <3>3. block' \in [Bufs -> Blocks \cup {None}]
      BY <3>1 DEF Gets, GetHit, GetRecycled
    <3>4. valid' \in [Bufs -> BOOLEAN] /\ dirty' \in [Bufs -> BOOLEAN]
      BY <3>1 DEF Gets, GetHit, GetRecycled
    <3>5. /\ buf' \in [Procs -> Bufs \cup {None}] /\ want' \in [Procs -> Blocks \cup {None}]
          /\ at' \in [Procs -> Places]
      BY <3>1 DEF Gets
    <3>6. panicked' = panicked
      BY <3>1 DEF Gets, GetHit, GetRecycled
    <3> QED BY <3>1, <3>2, <3>3, <3>4, <3>5, <3>6 DEF Gets, ide
  <2> QED BY <1>2, <2>1, <2>2, BgetCases
<1>3. ASSUME NEW p \in Procs, AcquireSleep(p) PROVE Types'
  BY <1>3 DEF AcquireSleep, ide, Go
<1>4. ASSUME NEW p \in Procs, LockSleep(p) \/ IderwReturn(p) PROVE Types'
  BY <1>4 DEF LockSleep, IderwReturn, bufs, ide, Go
<1>5. ASSUME NEW p \in Procs, Iderw(p) PROVE Types'
  <2>1. buf[p] \in Bufs
    BY <1>5, InBufs DEF Iderw
  <2>2. idequeue' \in Seq(Bufs)
    BY <1>5, <2>1 DEF Iderw
  <2>3. at' \in [Procs -> Places] /\ started' \in BOOLEAN
    BY <1>5 DEF Iderw, Go
  <2> QED BY <1>5, <2>2, <2>3 DEF Iderw, bufs
<1>6. ASSUME Ideintr PROVE Types'
  <2> DEFINE b == Head(idequeue)
  <2>1. started
    BY <1>6 DEF Ideintr, Transfer
  <2>2. b \in Bufs /\ Tail(idequeue) \in Seq(Bufs) /\ block[b] \in Blocks
    BY <2>1, HeadFacts
  <2> HIDE DEF b
  <2>3. /\ disk' = [disk EXCEPT ![block[b]] = data[b]] \/ disk' = disk
        /\ data' = [data EXCEPT ![b] = disk[block[b]]] \/ data' = data
        /\ valid' = [valid EXCEPT ![b] = TRUE]
        /\ dirty' = [dirty EXCEPT ![b] = FALSE]
    BY <1>6 DEF Ideintr, Transfer, b
  <2>4. disk' \in [Blocks -> Data] /\ data' \in [Bufs -> Data]
    BY <2>2, <2>3
  <2>5. at' \in [Procs -> Places]
    BY <1>6 DEF Ideintr, Transfer
  <2>6. started' \in BOOLEAN /\ idequeue' = Tail(idequeue)
    BY <1>6 DEF Ideintr, Transfer
  <2> QED BY <1>6, <2>2, <2>3, <2>4, <2>5, <2>6 DEF Ideintr, Transfer
<1>7. ASSUME NEW p \in Procs, LogWrite(p) PROVE Types'
  <2>1. buf[p] \in Bufs /\ block[buf[p]] \in Blocks
    BY <1>7, InBufs DEF LogWrite
  <2>2. PICK d \in Data : /\ data' = [data EXCEPT ![buf[p]] = d]
                          /\ newest' = [newest EXCEPT ![block[buf[p]]] = d]
    BY <1>7 DEF LogWrite
  <2>3. data' \in [Bufs -> Data] /\ newest' \in [Blocks -> Data]
    BY <2>1, <2>2
  <2> QED BY <1>7, <2>3 DEF LogWrite, ide, procs
<1>8. ASSUME NEW p \in Procs, Bwrite(p) PROVE Types'
  BY <1>8 DEF Bwrite, ide, Go
<1>9. ASSUME NEW p \in Procs, ReleaseSleep(p) PROVE Types'
  <2>1. at' \in [Procs -> Places]
    BY <1>9 DEF ReleaseSleep
  <2> QED BY <1>9, <2>1 DEF ReleaseSleep, ide
<1>10. ASSUME NEW p \in Procs, Brelse(p) PROVE Types'
  <2>1. buf[p] \in Bufs
    BY <1>10, InBufs DEF Brelse, DropRef
  <2>2. refcnt[buf[p]] >= 1
    <3> HIDE DEF Types
    <3> QED BY <2>1, <1>1, UserFacts
  <2>3. refcnt' \in [Bufs -> Nat]
    <3>1. refcnt' = [refcnt EXCEPT ![buf[p]] = refcnt[buf[p]] - 1]
      BY <1>10 DEF Brelse, DropRef
    <3>2. refcnt[buf[p]] - 1 \in Nat
      BY <2>1, <2>2
    <3> QED BY <3>1, <3>2
  <2>4. lru' \in Orders
    <3>1. MovedToFront(buf[p]) \in Orders
      <4> HIDE DEF Types
      <4> QED BY <2>1, <1>1, MoveKeepsOrder
    <3> QED BY <1>10, <3>1 DEF Brelse, DropRef
  <2> QED BY <1>10, <2>3, <2>4 DEF Brelse, DropRef, ide, Go
<1>11. CASE UNCHANGED vars
  BY <1>11 DEF vars, bufs, ide, procs
<1> QED BY <1>2, <1>3, <1>4, <1>5, <1>6, <1>7, <1>8, <1>9, <1>10, <1>11 DEF Next, Step

-----------------------------------------------------------------------------
(* A recycled buffer is nobody's; two processes are never inside with one. *)
LEMMA UnusedFree ==
  ASSUME BInv, NEW b \in Unused, NEW p \in Procs
  PROVE  buf[p] # b
<1>1. Types /\ Counted /\ b \in Bufs /\ refcnt[b] = 0
  BY DEF BInv, Unused
<1>2. Holders(b) = {}
  BY <1>1, UserFacts
<1> QED BY <1>2 DEF Holders

LEMMA AloneInside ==
  ASSUME BInv, NEW p \in Procs, NEW q \in Procs, at[p] \in Inside, at[q] \in Inside,
         buf[p] = buf[q]
  PROVE  p = q
<1>1. buf[p] \in Bufs
  BY InBufs DEF Inside
<1> QED BY <1>1 DEF BInv, Held

LEMMA NextCounted == BInv /\ [Next]_vars => Counted'
<1> SUFFICES ASSUME BInv, [Next]_vars, NEW c \in Bufs
             PROVE  refcnt'[c] = Cardinality(Holders(c)')
  BY DEF Counted
<1>1. Types /\ Counted /\ Asked
  BY DEF BInv
<1>2. /\ buf \in [Procs -> Bufs \cup {None}] /\ refcnt \in [Bufs -> Nat]
      /\ refcnt[c] = Cardinality(Holders(c)) /\ Holders(c) = {p \in Procs : buf[p] = c}
      /\ Holders(c)' = {p \in Procs : buf'[p] = c} /\ c # None
  BY <1>1, NoneAssumption DEF Types, Counted, Holders
<1>3. ASSUME UNCHANGED <<refcnt, buf>> PROVE refcnt'[c] = Cardinality(Holders(c)')
  BY <1>2, <1>3
<1>4. ASSUME NEW p \in Procs, NEW k \in Blocks, Bget(p, k)
      PROVE  refcnt'[c] = Cardinality(Holders(c)')
  <2>1. CASE CachePanics(p, k)
    BY <1>3, <2>1 DEF CachePanics, bufs
  <2>2. CASE \E b \in Bufs : Gets(p, k, b)
    <3>1. PICK b \in Bufs : Gets(p, k, b)
      BY <2>2
    <3>2. buf[p] = None /\ buf' = [buf EXCEPT ![p] = b]
      BY <1>1, <3>1 DEF Gets, GetHit, GetRecycled, Asked
    <3>3. Holders(c)' = IF b = c THEN Holders(c) \cup {p} ELSE Holders(c)
      BY <1>2, <3>2
    <3>4. refcnt[c] + 1 = Cardinality(Holders(c) \cup {p})
      BY <1>1, <1>2, <3>2, UserFacts
    <3>5. refcnt'[c] = IF b = c THEN refcnt[c] + 1 ELSE refcnt[c]
      BY <1>2, <3>1 DEF Gets, GetHit, GetRecycled, Unused
    <3> QED BY <1>2, <3>3, <3>4, <3>5
  <2> QED BY <1>1, <1>4, <2>1, <2>2, BgetCases
<1>5. ASSUME NEW p \in Procs, Brelse(p) PROVE refcnt'[c] = Cardinality(Holders(c)')
  <2>1. refcnt' = [refcnt EXCEPT ![buf[p]] = @ - 1] /\ buf' = [buf EXCEPT ![p] = None]
    BY <1>5 DEF Brelse, DropRef
  <2>2. CASE buf[p] = c
    <3>1. Holders(c)' = Holders(c) \ {p}
      BY <1>2, <2>1, <2>2
    <3>2. refcnt[c] - 1 = Cardinality(Holders(c) \ {p})
      BY <1>1, <2>2, UserFacts
    <3> QED BY <1>2, <2>1, <2>2, <3>1, <3>2
  <2>3. CASE buf[p] # c
    <3>1. Holders(c)' = Holders(c)
      BY <1>2, <2>1, <2>3
    <3> QED BY <1>2, <2>1, <2>3, <3>1
  <2> QED BY <2>2, <2>3
<1>6. ASSUME NEW p \in Procs,
             \/ AcquireSleep(p) \/ LockSleep(p) \/ Iderw(p) \/ IderwReturn(p)
             \/ LogWrite(p) \/ Bwrite(p) \/ ReleaseSleep(p)
      PROVE  UNCHANGED <<refcnt, buf>>
  BY <1>6 DEF AcquireSleep, LockSleep, Iderw, IderwReturn, LogWrite, Bwrite, ReleaseSleep,
              bufs, procs
<1>7. CASE Ideintr
  BY <1>3, <1>7 DEF Ideintr, Transfer
<1>8. CASE UNCHANGED vars
  BY <1>3, <1>8 DEF vars, bufs, procs
<1> QED BY <1>3, <1>4, <1>5, <1>6, <1>7, <1>8 DEF Next, Step

(* Buffers change their block only while nobody has them.                  *)
LEMMA NextAsked == BInv /\ [Next]_vars => Asked' /\ Unique'
<1> SUFFICES ASSUME BInv, [Next]_vars PROVE Asked' /\ Unique'
  OBVIOUS
<1>1. Types /\ Asked /\ Unique
  BY DEF BInv
<1>2. /\ buf \in [Procs -> Bufs \cup {None}] /\ want \in [Procs -> Blocks \cup {None}]
      /\ at \in [Procs -> Places] /\ block \in [Bufs -> Blocks \cup {None}]
      /\ None \notin Bufs
  BY <1>1, NoneAssumption DEF Types
<1>3. ASSUME block' = block, buf' = buf, want' = want,
             \A p \in Procs : at'[p] = "idle" <=> at[p] = "idle"
      PROVE  Asked' /\ Unique'
  BY <1>1, <1>3 DEF Asked, Unique
<1>4. ASSUME NEW p \in Procs, NEW k \in Blocks, Bget(p, k) PROVE Asked' /\ Unique'
  <2>1. CASE CachePanics(p, k)
    BY <1>1, <1>2, <2>1 DEF CachePanics, bufs, Asked, Unique
  <2>2. CASE \E b \in Bufs : Gets(p, k, b)
    <3>1. PICK b \in Bufs : Gets(p, k, b)
      BY <2>2
    <3>2. /\ buf' = [buf EXCEPT ![p] = b] /\ want' = [want EXCEPT ![p] = k]
          /\ at' = [at EXCEPT ![p] = "lock"]
      BY <3>1 DEF Gets
    <3>3. CASE GetHit(p, k, b)
      BY <1>1, <1>2, <3>2, <3>3 DEF GetHit, Asked, Unique
    <3>4. CASE GetRecycled(p, k, b)
      <4>1. \A q \in Procs : buf[q] # b
        BY <3>4, UnusedFree DEF GetRecycled
      <4>2. block' = [block EXCEPT ![b] = k] /\ \A c \in Bufs : block[c] # k
        BY <3>4 DEF GetRecycled, Cached
      <4>3. Asked'
        BY <1>1, <1>2, <3>2, <4>1, <4>2 DEF Asked
      <4>4. Unique'
        BY <1>1, <1>2, <4>2 DEF Unique
      <4> QED BY <4>3, <4>4
    <3> QED BY <3>1, <3>3, <3>4 DEF Gets
  <2> QED BY <1>1, <1>4, <2>1, <2>2, BgetCases
<1>5. ASSUME NEW p \in Procs, Brelse(p) PROVE Asked' /\ Unique'
  <2>1. /\ buf' = [buf EXCEPT ![p] = None] /\ want' = [want EXCEPT ![p] = None]
        /\ at' = [at EXCEPT ![p] = "idle"] /\ block' = block
    BY <1>5 DEF Brelse, DropRef, Go
  <2> QED BY <1>1, <1>2, <2>1 DEF Asked, Unique
<1>6. ASSUME NEW p \in Procs,
             \/ AcquireSleep(p) \/ LockSleep(p) \/ Iderw(p) \/ IderwReturn(p)
             \/ LogWrite(p) \/ Bwrite(p)
      PROVE  Asked' /\ Unique'
  <2>1. block' = block /\ buf' = buf /\ want' = want
    BY <1>6 DEF AcquireSleep, LockSleep, Iderw, IderwReturn, LogWrite, Bwrite, bufs, procs
  <2>2. /\ at[p] # "idle"
        /\ at' = at \/ \E x \in Places \ {"idle"} : at' = [at EXCEPT ![p] = x]
    BY <1>6 DEF AcquireSleep, LockSleep, Iderw, IderwReturn, LogWrite, Bwrite, procs, Go,
                Places
  <2> QED BY <1>2, <1>3, <2>1, <2>2
<1>7. ASSUME NEW p \in Procs, ReleaseSleep(p) PROVE Asked' /\ Unique'
  BY <1>2, <1>3, <1>7 DEF ReleaseSleep
<1>8. CASE Ideintr
  BY <1>2, <1>3, <1>8 DEF Ideintr, Transfer
<1>9. CASE UNCHANGED vars
  BY <1>3, <1>9 DEF vars, bufs, procs
<1> QED BY <1>4, <1>5, <1>6, <1>7, <1>8, <1>9 DEF Next, Step

LEMMA NextHeld == BInv /\ [Next]_vars => Held'
<1> SUFFICES ASSUME BInv, [Next]_vars PROVE Held'
  OBVIOUS
<1>1. Types /\ Asked /\ Held
  BY DEF BInv
<1>2. /\ buf \in [Procs -> Bufs \cup {None}] /\ at \in [Procs -> Places]
      /\ holder \in [Bufs -> Procs \cup {None}] /\ None \notin Bufs /\ None \notin Procs
  BY <1>1, NoneAssumption DEF Types
<1>3. ASSUME holder' = holder, buf' = buf,
             \A p \in Procs : at'[p] \in Inside <=> at[p] \in Inside
      PROVE  Held'
  BY <1>1, <1>3 DEF Held
<1>4. ASSUME NEW p \in Procs, NEW k \in Blocks, Bget(p, k) PROVE Held'
  <2>1. CASE CachePanics(p, k)
    BY <1>3, <2>1 DEF CachePanics, bufs
  <2>2. CASE \E b \in Bufs : Gets(p, k, b)
    <3>1. PICK b \in Bufs : Gets(p, k, b)
      BY <2>2
    <3>2. /\ buf' = [buf EXCEPT ![p] = b] /\ holder' = holder
          /\ at' = [at EXCEPT ![p] = "lock"] /\ at[p] = "idle"
      BY <3>1 DEF Gets, GetHit, GetRecycled
    <3> QED BY <1>1, <1>2, <3>2 DEF Held, Inside
  <2> QED BY <1>1, <1>4, <2>1, <2>2, BgetCases
<1>5. ASSUME NEW p \in Procs, AcquireSleep(p) PROVE Held'
  <2>1. /\ holder[buf[p]] = None /\ holder' = [holder EXCEPT ![buf[p]] = p] /\ buf' = buf
        /\ at[p] = "lock" /\ \E x \in {"have", "iderw"} : at' = [at EXCEPT ![p] = x]
    BY <1>5 DEF AcquireSleep, Go
  <2>2. buf[p] \in Bufs
    BY <2>1, InBufs
  <2> QED BY <1>1, <1>2, <2>1, <2>2 DEF Held, Inside
<1>6. ASSUME NEW p \in Procs, ReleaseSleep(p) PROVE Held'
  <2>1. /\ at[p] = "have" /\ holder' = [holder EXCEPT ![buf[p]] = None] /\ buf' = buf
        /\ \A q \in Procs : at'[q] = IF q = p THEN "brelse"
                                     ELSE IF at[q] = "asleep" /\ buf[q] = buf[p] THEN "lock"
                                     ELSE at[q]
    BY <1>6 DEF ReleaseSleep
  <2>2. buf[p] \in Bufs
    BY <2>1, InBufs
  <2> QED BY <1>1, <1>2, <2>1, <2>2 DEF Held, Inside
<1>7. ASSUME NEW p \in Procs, Brelse(p) PROVE Held'
  <2>1. /\ buf' = [buf EXCEPT ![p] = None] /\ holder' = holder
        /\ at' = [at EXCEPT ![p] = "idle"] /\ at[p] = "brelse"
    BY <1>7 DEF Brelse, DropRef, Go
  <2> QED BY <1>1, <1>2, <2>1 DEF Held, Inside
<1>8. ASSUME NEW p \in Procs,
             LockSleep(p) \/ Iderw(p) \/ IderwReturn(p) \/ LogWrite(p) \/ Bwrite(p)
      PROVE  Held'
  <2>1. holder' = holder /\ buf' = buf
    BY <1>8 DEF LockSleep, Iderw, IderwReturn, LogWrite, Bwrite, bufs, procs
  <2>2. \/ at' = at
        \/ at[p] = "lock" /\ at' = [at EXCEPT ![p] = "asleep"]
        \/ at[p] \in Inside /\ \E x \in Inside : at' = [at EXCEPT ![p] = x]
    BY <1>8 DEF LockSleep, Iderw, IderwReturn, LogWrite, Bwrite, procs, Go, Inside
  <2>3. \A q \in Procs : at'[q] \in Inside <=> at[q] \in Inside
    BY <1>2, <2>2 DEF Inside
  <2> QED BY <1>3, <2>1, <2>3
<1>9. CASE Ideintr
  BY <1>2, <1>3, <1>9 DEF Ideintr, Transfer, Inside
<1>10. CASE UNCHANGED vars
  BY <1>3, <1>10 DEF vars, bufs, procs
<1> QED BY <1>4, <1>5, <1>6, <1>7, <1>8, <1>9, <1>10 DEF Next, Step

(* Who waits for the disk is in its queue, once, and is woken when it leaves. *)
LEMMA NextQueued == BInv /\ [Next]_vars => Queued'
<1> SUFFICES ASSUME BInv, [Next]_vars PROVE Queued'
  OBVIOUS
<1>1. Types /\ Asked /\ Held /\ Queued /\ Contents
  BY DEF BInv
<1>2. /\ buf \in [Procs -> Bufs \cup {None}] /\ at \in [Procs -> Places]
      /\ idequeue \in Seq(Bufs) /\ DOMAIN idequeue = 1 .. Len(idequeue)
      /\ Len(idequeue) \in Nat
  BY <1>1 DEF Types
<1>3. ASSUME UNCHANGED <<idequeue, started>>,
             \A p \in Procs : /\ at'[p] = "disk" <=> at[p] = "disk"
                              /\ at[p] = "disk" => buf'[p] = buf[p]
      PROVE  Queued'
  BY <1>1, <1>3 DEF Queued, IsInjective
<1>4. ASSUME NEW p \in Procs, NEW k \in Blocks, Bget(p, k) PROVE Queued'
  <2>1. CASE CachePanics(p, k)
    BY <1>3, <2>1 DEF CachePanics, ide
  <2>2. CASE \E b \in Bufs : Gets(p, k, b)
    <3>1. PICK b \in Bufs : Gets(p, k, b)
      BY <2>2
    <3>2. /\ buf' = [buf EXCEPT ![p] = b] /\ UNCHANGED <<idequeue, started>>
          /\ at' = [at EXCEPT ![p] = "lock"] /\ at[p] = "idle"
      BY <3>1 DEF Gets, GetHit, GetRecycled, ide
    <3> QED BY <1>2, <1>3, <3>2
  <2> QED BY <1>1, <1>4, <2>1, <2>2, BgetCases
<1>5. ASSUME NEW p \in Procs, Iderw(p) PROVE Queued'
  <2>1. /\ at[p] = "iderw" /\ idequeue' = Append(idequeue, buf[p]) /\ buf' = buf
        /\ at' = [at EXCEPT ![p] = "disk"]
    BY <1>5 DEF Iderw, Go, procs
  <2>2. buf[p] \in Bufs
    BY <2>1, InBufs
  <2> DEFINE n == Len(idequeue)
  <2>3. /\ DOMAIN idequeue' = 1 .. n + 1 /\ idequeue'[n + 1] = buf[p]
        /\ \A i \in 1 .. n : idequeue'[i] = idequeue[i]
        /\ idequeue' # <<>>
    BY <1>2, <2>1, <2>2
  <2>4. ASSUME NEW i \in 1 .. n PROVE idequeue[i] # buf[p]
    <3>1. PICK q \in Procs : at[q] = "disk" /\ buf[q] = idequeue[i]
      BY <1>1, <1>2 DEF Queued
    <3>2. buf[q] = buf[p] => p = q
      BY <2>1, <3>1, AloneInside DEF Inside
    <3> QED BY <2>1, <3>1, <3>2
  <2>5. IsInjective(idequeue')
    <3> SUFFICES ASSUME NEW i \in 1 .. n + 1, NEW j \in 1 .. n + 1,
                        idequeue'[i] = idequeue'[j]
                 PROVE  i = j
      BY <2>3 DEF IsInjective
    <3>1. \A x, y \in 1 .. n : idequeue[x] = idequeue[y] => x = y
      BY <1>1, <1>2 DEF Queued, IsInjective
    <3>2. (i \in 1 .. n \/ i = n + 1) /\ (j \in 1 .. n \/ j = n + 1)
      BY <1>2
    <3> HIDE DEF n
    <3> QED BY <2>3, <2>4, <3>1, <3>2
  <2>6. ASSUME NEW i \in 1 .. n + 1
        PROVE  \E q \in Procs : at'[q] = "disk" /\ buf'[q] = idequeue'[i]
    <3>1. CASE i = n + 1
      BY <1>2, <2>1, <2>3, <3>1
    <3>2. CASE i \in 1 .. n
      <4>1. PICK q \in Procs : at[q] = "disk" /\ buf[q] = idequeue[i]
        BY <1>1, <1>2, <3>2 DEF Queued
      <4> QED BY <1>2, <2>1, <2>3, <3>2, <4>1
    <3> QED BY <1>2, <3>1, <3>2
  <2>7. ASSUME NEW q \in Procs, at'[q] = "disk"
        PROVE  \E i \in 1 .. n + 1 : idequeue'[i] = buf'[q]
    <3>1. CASE q = p
      BY <1>2, <2>1, <2>3, <3>1
    <3>2. CASE q # p
      <4>1. PICK i \in 1 .. n : idequeue[i] = buf[q]
        BY <1>1, <1>2, <2>1, <2>7, <3>2 DEF Queued
      <4> QED BY <1>2, <2>1, <2>3, <4>1
    <3> QED BY <3>1, <3>2
  <2> QED BY <2>3, <2>5, <2>6, <2>7 DEF Queued
<1>6. CASE Ideintr
  <2> DEFINE b == Head(idequeue)
             tail == Tail(idequeue)
  <2>1. /\ started /\ idequeue' = tail /\ buf' = buf /\ started' = (Len(idequeue) > 1)
        /\ at' = [p \in Procs |-> IF at[p] = "disk" /\ buf[p] = b THEN "awake" ELSE at[p]]
    BY <1>6 DEF Ideintr, Transfer
  <2>2. /\ Len(tail) = Len(idequeue) - 1 /\ tail \in Seq(Bufs)
        /\ \A i \in DOMAIN tail : i + 1 \in DOMAIN idequeue /\ tail[i] = idequeue[i + 1]
        /\ b = idequeue[1] /\ 1 \in DOMAIN idequeue
    BY <2>1, HeadFacts
  <2>3. \A i, j \in DOMAIN idequeue : idequeue[i] = idequeue[j] => i = j
    BY <1>1 DEF Queued, IsInjective
  <2>4. DOMAIN tail = 1 .. Len(idequeue) - 1
    BY <2>2
  <2> HIDE DEF b, tail
  <2>5. IsInjective(tail)
    <3> SUFFICES ASSUME NEW i \in DOMAIN tail, NEW j \in DOMAIN tail, tail[i] = tail[j]
                 PROVE  i = j
      BY DEF IsInjective
    <3>1. i + 1 = j + 1
      BY <2>2, <2>3
    <3> QED BY <1>2, <2>4, <3>1
  <2>6. started' => tail # <<>>
    <3>1. started' => Len(idequeue) > 1
      BY <2>1
    <3>2. Len(idequeue) > 1 => Len(tail) # 0
      BY <1>2, <2>2
    <3>3. tail = <<>> => Len(tail) = 0
      OBVIOUS
    <3> QED BY <3>1, <3>2, <3>3
  <2>7. ASSUME NEW i \in DOMAIN tail
        PROVE  \E p \in Procs : at'[p] = "disk" /\ buf'[p] = tail[i]
    <3>1. PICK p \in Procs : at[p] = "disk" /\ buf[p] = tail[i]
      BY <1>1, <2>2 DEF Queued
    <3>2. tail[i] # b
      BY <1>2, <2>2, <2>3, <2>4
    <3> QED BY <1>2, <2>1, <3>1, <3>2
  <2>8. ASSUME NEW p \in Procs, at'[p] = "disk"
        PROVE  \E i \in DOMAIN tail : tail[i] = buf'[p]
    <3>1. at[p] = "disk" /\ buf[p] # b
      BY <1>2, <2>1, <2>8
    <3>2. PICK j \in DOMAIN idequeue : idequeue[j] = buf[p]
      BY <1>1, <3>1 DEF Queued
    <3>3. j # 1 /\ j - 1 \in DOMAIN tail /\ (j - 1) + 1 = j
      BY <1>2, <2>2, <2>4, <3>1, <3>2
    <3>4. tail[j - 1] = idequeue[j]
      BY <2>2, <3>3
    <3> QED BY <2>1, <3>2, <3>3, <3>4
  <2> QED BY <2>1, <2>5, <2>6, <2>7, <2>8 DEF Queued
<1>7. ASSUME NEW p \in Procs, IderwReturn(p) PROVE Queued'
  <2>1. valid[buf[p]] /\ ~dirty[buf[p]]
    BY <1>1, <1>7 DEF IderwReturn, Contents
  <2>2. at[p] = "awake" /\ at' = [at EXCEPT ![p] = "have"]
    BY <1>7, <2>1 DEF IderwReturn, Go
  <2> QED BY <1>2, <1>3, <1>7, <2>2 DEF IderwReturn, ide
<1>8. ASSUME NEW p \in Procs,
             \/ AcquireSleep(p) \/ LockSleep(p) \/ LogWrite(p) \/ Bwrite(p) \/ Brelse(p)
      PROVE  Queued'
  <2>1. /\ UNCHANGED <<idequeue, started>> /\ at[p] # "disk"
        /\ at' = at \/ \E x \in Places \ {"disk"} : at' = [at EXCEPT ![p] = x]
        /\ buf' = buf \/ buf' = [buf EXCEPT ![p] = None]
    BY <1>8 DEF AcquireSleep, LockSleep, LogWrite, Bwrite, Brelse, DropRef, ide, procs, Go,
                Places
  <2> QED BY <1>2, <1>3, <2>1
<1>9. ASSUME NEW p \in Procs, ReleaseSleep(p) PROVE Queued'
  BY <1>2, <1>3, <1>9 DEF ReleaseSleep, ide
<1>10. CASE UNCHANGED vars
  BY <1>3, <1>10 DEF vars, ide, procs
<1> QED BY <1>4, <1>5, <1>6, <1>7, <1>8, <1>9, <1>10 DEF Next, Step

-----------------------------------------------------------------------------
(* No copy of a block is lost: the newest is in its buffer or on the disk. *)
LEMMA NextContents == BInv /\ [Next]_vars => Contents'
<1> SUFFICES ASSUME BInv, [Next]_vars PROVE Contents'
  OBVIOUS
<1>1. Types /\ Asked /\ Unique /\ Held /\ Queued /\ Contents
  BY DEF BInv
<1>2. /\ buf \in [Procs -> Bufs \cup {None}] /\ at \in [Procs -> Places]
      /\ block \in [Bufs -> Blocks \cup {None}]
      /\ valid \in [Bufs -> BOOLEAN] /\ dirty \in [Bufs -> BOOLEAN]
      /\ data \in [Bufs -> Data] /\ disk \in [Blocks -> Data] /\ newest \in [Blocks -> Data]
      /\ None \notin Bufs /\ None \notin Blocks
  BY <1>1, NoneAssumption DEF Types
<1>3. ASSUME UNCHANGED <<block, valid, dirty, data, disk, newest>>,
             \A p \in Procs : /\ at'[p] = "have" => /\ buf'[p] = buf[p]
                                                    /\ at[p] = "have" \/ valid[buf[p]]
                              /\ at'[p] = "awake" => at[p] = "awake" /\ buf'[p] = buf[p]
      PROVE  Contents'
  BY <1>1, <1>3 DEF Contents
<1>4. ASSUME NEW p \in Procs, NEW k \in Blocks, Bget(p, k) PROVE Contents'
  <2>1. CASE CachePanics(p, k)
    BY <1>3, <2>1 DEF CachePanics, bufs, ide
  <2>2. CASE \E b \in Bufs : Gets(p, k, b)
    <3>1. PICK b \in Bufs : Gets(p, k, b)
      BY <2>2
    <3>2. /\ buf' = [buf EXCEPT ![p] = b] /\ at' = [at EXCEPT ![p] = "lock"]
          /\ data' = data /\ disk' = disk /\ newest' = newest
      BY <3>1 DEF Gets, ide
    <3>3. CASE GetHit(p, k, b)
      BY <1>2, <1>3, <3>2, <3>3 DEF GetHit
    <3>4. CASE GetRecycled(p, k, b)
      <4>1. /\ block' = [block EXCEPT ![b] = k]
            /\ valid' = [valid EXCEPT ![b] = FALSE]
            /\ dirty' = [dirty EXCEPT ![b] = FALSE] /\ ~dirty[b]
        BY <3>4 DEF GetRecycled, Unused
      <4>2. \A q \in Procs : buf[q] # b
        BY <3>4, UnusedFree DEF GetRecycled
      <4>3. \A c \in Bufs : /\ valid'[c] => /\ block'[c] # None
                                            /\ data'[c] = newest'[block'[c]]
                            /\ dirty'[c] => valid'[c]
        BY <1>1, <1>2, <3>2, <4>1 DEF Contents
      <4>4. \A j \in Blocks : \/ disk'[j] = newest'[j]
                              \/ \E c \in Bufs : block'[c] = j /\ dirty'[c]
        <5> SUFFICES ASSUME NEW j \in Blocks, disk'[j] # newest'[j]
                     PROVE  \E c \in Bufs : block'[c] = j /\ dirty'[c]
          OBVIOUS
        <5>1. PICK c \in Bufs : block[c] = j /\ dirty[c]
          BY <1>1, <3>2 DEF Contents
        <5> QED BY <1>2, <4>1, <5>1
      <4>5. \A q \in Procs : /\ at'[q] = "have" => valid'[buf'[q]]
                             /\ at'[q] = "awake" => valid'[buf'[q]] /\ ~dirty'[buf'[q]]
        <5> SUFFICES ASSUME NEW q \in Procs, at'[q] \in {"have", "awake"}
                     PROVE  /\ at[q] = at'[q] /\ buf'[q] = buf[q]
                            /\ valid'[buf[q]] = valid[buf[q]]
                            /\ dirty'[buf[q]] = dirty[buf[q]]
          BY <1>1 DEF Contents
        <5>1. q # p /\ at[q] = at'[q] /\ buf'[q] = buf[q]
          BY <1>2, <3>2
        <5>2. buf[q] \in Bufs /\ buf[q] # b
          BY <4>2, <5>1, InBufs
        <5> QED BY <1>2, <4>1, <5>1, <5>2
      <4> QED BY <4>3, <4>4, <4>5 DEF Contents
    <3> QED BY <3>1, <3>3, <3>4 DEF Gets
  <2> QED BY <1>1, <1>4, <2>1, <2>2, BgetCases
<1>5. CASE Ideintr
  <2> DEFINE b == Head(idequeue)
  <2>1. started
    BY <1>5 DEF Ideintr, Transfer
  <2>2. b \in Bufs /\ block[b] \in Blocks /\ block[b] # None
    BY <2>1, HeadFacts
  <2> HIDE DEF b
  <2>3. /\ valid' = [valid EXCEPT ![b] = TRUE] /\ dirty' = [dirty EXCEPT ![b] = FALSE]
        /\ at' = [p \in Procs |-> IF at[p] = "disk" /\ buf[p] = b THEN "awake" ELSE at[p]]
        /\ block' = block /\ newest' = newest /\ buf' = buf
        /\ IF dirty[b]
           THEN disk' = [disk EXCEPT ![block[b]] = data[b]] /\ data' = data
           ELSE data' = [data EXCEPT ![b] = disk[block[b]]] /\ disk' = disk
    BY <1>5 DEF Ideintr, Transfer, b
  <2>4. data'[b] = newest[block[b]] /\ disk'[block[b]] = newest[block[b]]
    <3>1. CASE dirty[b]
      BY <1>1, <1>2, <2>2, <2>3, <3>1 DEF Contents
    <3>2. CASE ~dirty[b]
      <4>1. \A c \in Bufs : block[c] = block[b] => c = b
        BY <1>1, <2>2 DEF Unique
      <4>2. disk[block[b]] = newest[block[b]]
        BY <1>1, <2>2, <3>2, <4>1 DEF Contents
      <4> QED BY <1>2, <2>2, <2>3, <3>2, <4>2
    <3> QED BY <3>1, <3>2
  <2>5. \A c \in Bufs : /\ valid'[c] => block'[c] # None /\ data'[c] = newest'[block'[c]]
                        /\ dirty'[c] => valid'[c]
    <3> SUFFICES ASSUME NEW c \in Bufs
                 PROVE  /\ valid'[c] => block'[c] # None /\ data'[c] = newest'[block'[c]]
                        /\ dirty'[c] => valid'[c]
      OBVIOUS
    <3>1. CASE c = b
      BY <1>2, <2>2, <2>3, <2>4, <3>1
    <3>2. CASE c # b
      <4>1. /\ valid'[c] = valid[c] /\ dirty'[c] = dirty[c] /\ data'[c] = data[c]
            /\ block'[c] = block[c]
        BY <1>2, <2>3, <3>2
      <4> QED BY <1>1, <2>3, <4>1 DEF Contents
    <3> QED BY <3>1, <3>2
  <2>6. \A j \in Blocks : \/ disk'[j] = newest'[j]
                          \/ \E c \in Bufs : block'[c] = j /\ dirty'[c]
    <3> SUFFICES ASSUME NEW j \in Blocks, j # block[b]
                 PROVE  \/ disk'[j] = newest'[j]
                        \/ \E c \in Bufs : block'[c] = j /\ dirty'[c]
      BY <2>3, <2>4
    <3>1. disk'[j] = disk[j]
      BY <1>2, <2>3
    <3>2. ASSUME NEW c \in Bufs, block[c] = j, dirty[c] PROVE block'[c] = j /\ dirty'[c]
      BY <1>2, <2>3, <3>2
    <3> QED BY <1>1, <2>3, <3>1, <3>2 DEF Contents
  <2>7. \A p \in Procs : /\ at'[p] = "have" => valid'[buf'[p]]
                         /\ at'[p] = "awake" => valid'[buf'[p]] /\ ~dirty'[buf'[p]]
    <3> SUFFICES ASSUME NEW p \in Procs, at'[p] \in {"have", "awake"}
                 PROVE  /\ valid'[buf'[p]]
                        /\ at'[p] = "awake" => ~dirty'[buf'[p]]
      OBVIOUS
    <3>1. buf'[p] = buf[p] /\ at[p] # "idle"
      BY <1>2, <2>3
    <3>2. buf[p] \in Bufs
      BY <3>1, InBufs
    <3>3. CASE buf[p] = b
      BY <1>2, <2>2, <2>3, <3>1, <3>3
    <3>4. CASE buf[p] # b
      <4>1. at'[p] = at[p] /\ valid'[buf[p]] = valid[buf[p]] /\ dirty'[buf[p]] = dirty[buf[p]]
        BY <1>2, <2>3, <3>2, <3>4
      <4> QED BY <1>1, <3>1, <4>1 DEF Contents
    <3> QED BY <3>3, <3>4
  <2> QED BY <2>5, <2>6, <2>7 DEF Contents
<1>6. ASSUME NEW p \in Procs, LogWrite(p) \/ Bwrite(p) PROVE Contents'
  <2> DEFINE b == buf[p]
  <2>1. at[p] = "have" /\ valid[b]
    BY <1>1, <1>6 DEF LogWrite, Bwrite, Contents
  <2>2. b \in Bufs /\ block[b] \in Blocks /\ block[b] # None
    BY <2>1, InBufs
  <2>3. \A q \in Procs : at[q] \in Inside /\ buf[q] = b => q = p
    BY <2>1, AloneInside DEF Inside
  <2> HIDE DEF b
  <2>4. /\ block' = block /\ valid' = valid /\ disk' = disk /\ buf' = buf
        /\ dirty' = [dirty EXCEPT ![b] = TRUE]
        /\ at' = at \/ at' = [at EXCEPT ![p] = "iderw"]
    BY <1>6 DEF LogWrite, Bwrite, ide, procs, Go, b
  <2>5. \/ data' = data /\ newest' = newest
        \/ \E d \in Data : /\ data' = [data EXCEPT ![b] = d]
                           /\ newest' = [newest EXCEPT ![block[b]] = d]
    BY <1>6 DEF LogWrite, Bwrite, b
  <2>6. \A c \in Bufs : valid[c] => block[c] # None /\ data'[c] = newest'[block[c]]
    <3>1. CASE data' = data /\ newest' = newest
      BY <1>1, <3>1 DEF Contents
    <3>2. ASSUME NEW d \in Data, data' = [data EXCEPT ![b] = d],
                 newest' = [newest EXCEPT ![block[b]] = d], NEW c \in Bufs, valid[c]
          PROVE  block[c] # None /\ data'[c] = newest'[block[c]]
      <4>1. block[c] # None /\ data[c] = newest[block[c]] /\ block[c] \in Blocks
        BY <1>1, <1>2, <3>2 DEF Contents
      <4>2. CASE c = b
        BY <1>2, <2>2, <3>2, <4>1, <4>2
      <4>3. CASE c # b
        <5>1. block[c] # block[b]
          BY <1>1, <2>2, <4>3 DEF Unique
        <5> QED BY <1>2, <3>2, <4>1, <4>3, <5>1
      <4> QED BY <4>2, <4>3
    <3> QED BY <2>5, <3>1, <3>2
  <2>7. \A c \in Bufs : dirty'[c] => valid'[c]
    BY <1>1, <1>2, <2>1, <2>4 DEF Contents
  <2>8. \A j \in Blocks : \/ disk'[j] = newest'[j]
                          \/ \E c \in Bufs : block'[c] = j /\ dirty'[c]
    <3> SUFFICES ASSUME NEW j \in Blocks, disk'[j] # newest'[j]
                 PROVE  \E c \in Bufs : block'[c] = j /\ dirty'[c]
      OBVIOUS
    <3>1. CASE j = block[b]
      BY <1>2, <2>2, <2>4, <3>1
    <3>2. CASE j # block[b]
      <4>1. newest'[j] = newest[j]
        BY <1>2, <2>5, <3>2
      <4>2. PICK c \in Bufs : block[c] = j /\ dirty[c]
        BY <1>1, <2>4, <4>1 DEF Contents
      <4> QED BY <1>2, <2>4, <4>2
    <3> QED BY <3>1, <3>2
  <2>9. \A q \in Procs : /\ at'[q] = "have" => valid'[buf'[q]]
                         /\ at'[q] = "awake" => valid'[buf'[q]] /\ ~dirty'[buf'[q]]
    <3> SUFFICES ASSUME NEW q \in Procs, at'[q] \in {"have", "awake"}
                 PROVE  /\ valid'[buf'[q]]
                        /\ at'[q] = "awake" => ~dirty'[buf'[q]]
      OBVIOUS
    <3>1. at[q] = at'[q]
      BY <1>2, <2>4
    <3>2. valid'[buf'[q]]
      BY <1>1, <2>4, <3>1 DEF Contents
    <3>3. ASSUME at'[q] = "awake" PROVE ~dirty'[buf'[q]]
      <4>1. buf[q] # b /\ buf[q] \in Bufs
        BY <2>1, <2>3, <3>1, <3>3, InBufs DEF Inside
      <4> QED BY <1>1, <1>2, <2>4, <3>1, <3>3, <4>1 DEF Contents
    <3> QED BY <3>2, <3>3
  <2> QED BY <2>4, <2>6, <2>7, <2>8, <2>9 DEF Contents
<1>7. ASSUME NEW p \in Procs,
             \/ AcquireSleep(p) \/ LockSleep(p) \/ Iderw(p) \/ IderwReturn(p)
             \/ ReleaseSleep(p) \/ Brelse(p)
      PROVE  Contents'
  <2>1. /\ UNCHANGED <<block, valid, dirty, data, disk, newest>>
        /\ buf' = buf \/ (buf' = [buf EXCEPT ![p] = None] /\ at' = [at EXCEPT ![p] = "idle"])
    BY <1>7 DEF AcquireSleep, LockSleep, Iderw, IderwReturn, ReleaseSleep, Brelse, DropRef,
                bufs, ide, Go
  <2>2. \A q \in Procs : \/ at'[q] = at[q]
                         \/ at'[q] \notin {"have", "awake"}
                         \/ at'[q] = "have" /\ valid[buf[q]] /\ q = p
    BY <1>2, <1>7 DEF AcquireSleep, LockSleep, Iderw, IderwReturn, ReleaseSleep, Brelse,
                      DropRef, Go
  <2> QED BY <1>2, <1>3, <2>1, <2>2
<1>8. CASE UNCHANGED vars
  BY <1>3, <1>8 DEF vars, bufs, ide, procs
<1> QED BY <1>4, <1>5, <1>6, <1>7, <1>8 DEF Next, Step

-----------------------------------------------------------------------------
LEMMA BInvImplies == BInv => BuffersSound
<1> SUFFICES ASSUME BInv PROVE BuffersSound
  OBVIOUS
<1>1. Types /\ Counted /\ Asked /\ Unique /\ Held /\ Queued /\ Contents
  BY DEF BInv
<1>2. refcnt \in [Bufs -> 0 .. Cardinality(Procs)]
  <2>1. \A b \in Bufs : refcnt[b] \in 0 .. Cardinality(Procs)
    <3> SUFFICES ASSUME NEW b \in Bufs PROVE refcnt[b] \in 0 .. Cardinality(Procs)
      OBVIOUS
    <3>1. Holders(b) \subseteq Procs /\ refcnt[b] = Cardinality(Holders(b))
      BY <1>1 DEF Counted, Holders
    <3>2. /\ Cardinality(Holders(b)) \in Nat /\ Cardinality(Procs) \in Nat
          /\ Cardinality(Holders(b)) <= Cardinality(Procs)
      BY <3>1, FiniteAssumption, FS_Subset, FS_CardinalityType
    <3> QED BY <3>1, <3>2
  <2> QED BY <1>1, <2>1 DEF Types
<1>3. TypeOK
  BY <1>1, <1>2 DEF TypeOK, Types, Places, Queued
<1>4. OneBufferPerBlock
  BY <1>1 DEF OneBufferPerBlock, Unique, Asked
<1>5. NewestRead
  <2> SUFFICES ASSUME NEW p \in Procs, at[p] = "have"
               PROVE  holder[buf[p]] = p /\ data[buf[p]] = newest[want[p]]
    BY DEF NewestRead
  <2>1. buf[p] \in Bufs /\ block[buf[p]] = want[p]
    BY InBufs
  <2> QED BY <1>1, <2>1 DEF Held, Inside, Contents
<1> QED BY <1>3, <1>4, <1>5 DEF BuffersSound

(* A block is in one buffer at most, a buffer keeps its block while anybody *)
(* has it, and whoever bread has given a buffer has its sleep lock and the  *)
(* block's last content, through recycling, the disk's queue and its        *)
(* interrupts (bio.c:61-141, ide.c:103-168).                                *)
THEOREM BuffersCorrect == Spec => []BuffersSound
<1>1. BInv /\ [Next]_vars => BInv'
  BY NextTypes, NextCounted, NextAsked, NextHeld, NextQueued, NextContents DEF BInv
<1> QED BY <1>1, InitBInv, BInvImplies, PTL DEF Spec

-----------------------------------------------------------------------------
(* Directories.                                                            *)

(* Sets that differ in one element at most.                                *)
One(b) == IF b THEN 1 ELSE 0

LEMMA CountIs ==
  ASSUME NEW S, IsFiniteSet(S), NEW A \in SUBSET S
  PROVE  /\ IsFiniteSet(A) /\ Cardinality(A) \in Nat
         /\ Cardinality(A) = 0 <=> A = {}
<1>1. IsFiniteSet(A)
  BY FS_Subset
<1> QED BY <1>1, FS_CardinalityType, FS_EmptySet

LEMMA CountMoves ==
  ASSUME NEW S, IsFiniteSet(S), NEW A \in SUBSET S, NEW B \in SUBSET S, NEW p,
         \A q \in S : q # p => (q \in A <=> q \in B)
  PROVE  Cardinality(B) = Cardinality(A) + One(p \in B) - One(p \in A)
<1>1. IsFiniteSet(A) /\ IsFiniteSet(B) /\ Cardinality(A) \in Nat /\ Cardinality(B) \in Nat
  BY CountIs
<1>2. CASE p \in A /\ p \notin B
  <2>1. A = B \cup {p}
    BY <1>2
  <2>2. Cardinality(A) = Cardinality(B) + 1
    BY <1>1, <1>2, <2>1, FS_AddElement
  <2> QED BY <1>1, <1>2, <2>2 DEF One
<1>3. CASE p \in B /\ p \notin A
  <2>1. B = A \cup {p}
    BY <1>3
  <2>2. Cardinality(B) = Cardinality(A) + 1
    BY <1>1, <1>3, <2>1, FS_AddElement
  <2> QED BY <1>1, <1>3, <2>2 DEF One
<1>4. CASE p \in A <=> p \in B
  <2>1. A = B
    BY <1>4
  <2> QED BY <1>1, <1>4, <2>1 DEF One
<1> QED BY <1>2, <1>3, <1>4

LEMMA CountsOne ==
  ASSUME NEW S, IsFiniteSet(S), NEW A \in SUBSET S, NEW p \in A
  PROVE  /\ Cardinality(A) \in Nat \ {0}
         /\ Cardinality(A) = 1 => A = {p}
<1>1. IsFiniteSet(A) /\ Cardinality(A) \in Nat
  BY CountIs
<1>2. Cardinality(A \ {p}) \in Nat /\ (Cardinality(A \ {p}) = 0 <=> A \ {p} = {})
  BY CountIs
<1>3. Cardinality(A \ {p}) = Cardinality(A) + One(p \in A \ {p}) - One(p \in A)
  BY CountMoves
<1>4. Cardinality(A) = Cardinality(A \ {p}) + 1
  BY <1>1, <1>2, <1>3 DEF One
<1> QED BY <1>1, <1>2, <1>4

(* The first of a set of numbers is one of them.                           *)
LEMMA FirstIsThere ==
  ASSUME NEW S \in SUBSET Nat, S # {}
  PROVE  \E x \in S : \A y \in S : x <= y
<1> DEFINE less == {ss \in Nat \X Nat : ss[1] < ss[2]}
<1>1. IsWellFoundedOn(less, Nat)
  BY NatLessThanWellFounded DEF OpToRel
<1>2. PICK x \in S : \A y \in S : ~(<<y, x>> \in less)
  BY <1>1, WFMin
<1>3. ASSUME NEW y \in S PROVE x <= y
  <2>1. y \in Nat /\ x \in Nat /\ ~(<<y, x>> \in less)
    BY <1>2
  <2>2. y < x => <<y, x>> \in less
    BY <2>1
  <2> QED BY <2>1, <2>2
<1> QED BY <1>3

-----------------------------------------------------------------------------
(* Directory: that names make a tree, that links are counted and that no   *)
(* inode in use is lost, for any finite sets of processes and of inodes.   *)

\* Entry k of directory d is inode i.
Says(T, d, k, i) == d \in Numbers /\ k \in Mentions(T, d) /\ T[d].ents[k].inum = i

LEMMA ShapeTypes ==
  ASSUME NEW T, TreeShape(T), NEW d \in Numbers
  PROVE  /\ T[d] \in Inodes
         /\ T[d].type \in {"none", "file", "dir", "dev"} /\ T[d].nlink \in Nat
         /\ T[d].ents \in Seq([name : EntryNames, inum : Numbers \cup {0}])
         /\ T[d].type = "none" => T[d] = Missing
         /\ T[d].type # "dir" => T[d].ents = <<>>
<1>1. T[d] \in Inodes
  BY DEF TreeShape
<1>2. /\ T[d].type = "none" => T[d] = Missing
      /\ T[d].type # "dir" => T[d].ents = <<>>
  BY DEF TreeShape
<1> QED BY <1>1, <1>2 DEF Inodes

LEMMA EntsTypes ==
  ASSUME NEW T, TreeShape(T), NEW d \in Numbers
  PROVE  /\ Len(T[d].ents) \in Nat /\ DOMAIN T[d].ents = 1 .. Len(T[d].ents)
         /\ \A k \in DOMAIN T[d].ents : /\ T[d].ents[k].name \in EntryNames
                                        /\ T[d].ents[k].inum \in Numbers \cup {0}
<1> DEFINE S == [name : EntryNames, inum : Numbers \cup {0}]
<1>1. T[d].ents \in Seq(S)
  BY ShapeTypes
<1>2. \A k \in DOMAIN T[d].ents : T[d].ents[k] \in S
  <2> HIDE DEF S
  <2> QED BY <1>1
<1>3. Len(T[d].ents) \in Nat /\ DOMAIN T[d].ents = 1 .. Len(T[d].ents)
  <2> HIDE DEF S
  <2> QED BY <1>1
<1> QED BY <1>2, <1>3

LEMMA SaysIs ==
  ASSUME NEW T, TreeShape(T), NEW d, NEW k, NEW i, Says(T, d, k, i)
  PROVE  /\ d \in Numbers /\ k \in Nat /\ k > 2 /\ k \in DOMAIN T[d].ents
         /\ k \in Mentions(T, d) /\ i = T[d].ents[k].inum
         /\ T[d].type = "dir" /\ i \in Numbers
         /\ i # RootDir /\ i # d
         /\ T[d].ents[k].name \notin Dots
         /\ T[i].type = "dir" => T[i].ents[2].inum = d
         /\ \A j \in Mentions(T, d) : j # k =>
               /\ T[d].ents[j].name # T[d].ents[k].name
               /\ T[i].type = "dir" => T[d].ents[j].inum # i
<1>1. d \in Numbers /\ k \in Mentions(T, d) /\ i = T[d].ents[k].inum
  BY DEF Says
<1>2. k \in DOMAIN T[d].ents /\ k > 2 /\ i # 0
  BY <1>1 DEF Mentions
<1>3. /\ Len(T[d].ents) \in Nat /\ DOMAIN T[d].ents = 1 .. Len(T[d].ents)
      /\ i \in Numbers \cup {0}
  BY <1>1, <1>2, EntsTypes
<1>4. T[d].type = "dir"
  BY <1>1, <1>2, <1>3, ShapeTypes
<1>5. /\ T[d].ents[k].name \notin Dots /\ i \notin {RootDir, d}
      /\ T[i].type = "dir" => T[i].ents[2].inum = d
      /\ \A j \in Mentions(T, d) : j # k =>
            /\ T[d].ents[j].name # T[d].ents[k].name
            /\ T[i].type = "dir" => T[d].ents[j].inum # i
  BY <1>1 DEF TreeShape
<1> QED BY <1>1, <1>2, <1>3, <1>4, <1>5

LEMMA DirIs ==
  ASSUME NEW T, TreeShape(T), NEW d \in Numbers, T[d].type = "dir"
  PROVE  /\ Len(T[d].ents) \in Nat /\ Len(T[d].ents) >= 2
         /\ 1 \in DOMAIN T[d].ents /\ 2 \in DOMAIN T[d].ents
         /\ T[d].ents[1] = Entry(".", d)
         /\ T[d].ents[2].name = ".." /\ T[d].ents[2].inum \in Numbers
<1>1. Len(T[d].ents) \in Nat /\ DOMAIN T[d].ents = 1 .. Len(T[d].ents)
  BY EntsTypes
<1>2. /\ Len(T[d].ents) >= 2 /\ T[d].ents[1] = Entry(".", d)
      /\ T[d].ents[2].name = ".." /\ T[d].ents[2].inum # 0
  BY DEF TreeShape
<1>3. 1 \in DOMAIN T[d].ents /\ 2 \in DOMAIN T[d].ents
  BY <1>1, <1>2
<1>4. T[d].ents[2].inum \in Numbers \cup {0}
  BY <1>3, EntsTypes
<1> QED BY <1>1, <1>2, <1>3, <1>4

(* The names of an inode, which are finitely many.                         *)
LEMMA EntriesAre ==
  ASSUME NEW T, TreeShape(T), NEW i
  PROVE  /\ IsFiniteSet(EntriesOf(T, i)) /\ Cardinality(EntriesOf(T, i)) \in Nat
         /\ \A x \in EntriesOf(T, i) : \E d \in Numbers, k \in Nat : x = <<d, k>>
         /\ \A d, k : <<d, k>> \in EntriesOf(T, i) <=> Says(T, d, k, i)
<1>1. \A x \in EntriesOf(T, i) : \E d \in Numbers : \E k \in Mentions(T, d) : x = <<d, k>>
  BY DEF EntriesOf
<1>2. \A d \in Numbers : Mentions(T, d) \subseteq 1 .. Len(T[d].ents) /\ Len(T[d].ents) \in Nat
  BY EntsTypes DEF Mentions
<1>3. \A d, k : <<d, k>> \in EntriesOf(T, i) <=> Says(T, d, k, i)
  <2>1. ASSUME NEW d, NEW k, <<d, k>> \in EntriesOf(T, i) PROVE Says(T, d, k, i)
    <3>1. PICK e \in Numbers : <<d, k>> \in {<<e, l>> : l \in {m \in Mentions(T, e) : T[e].ents[m].inum = i}}
      BY <2>1 DEF EntriesOf
    <3>2. PICK l \in Mentions(T, e) : T[e].ents[l].inum = i /\ <<d, k>> = <<e, l>>
      BY <3>1
    <3>3. d = e /\ k = l
      BY <3>2
    <3> QED BY <3>2, <3>3 DEF Says
  <2>2. ASSUME NEW d, NEW k, Says(T, d, k, i) PROVE <<d, k>> \in EntriesOf(T, i)
    <3>1. d \in Numbers /\ k \in Mentions(T, d) /\ T[d].ents[k].inum = i
      BY <2>2 DEF Says
    <3>2. <<d, k>> \in {<<d, l>> : l \in {m \in Mentions(T, d) : T[d].ents[m].inum = i}}
      BY <3>1
    <3> QED BY <3>1, <3>2 DEF EntriesOf
  <2> QED BY <2>1, <2>2
<1> DEFINE upto == {1 .. Len(T[d].ents) : d \in Numbers}
           f == [d \in Numbers |-> 1 .. Len(T[d].ents)]
<1>4. IsFiniteSet(upto)
  <2>1. f \in Surjection(Numbers, upto)
    BY DEF Surjection
  <2>2. IsFiniteSet(Numbers)
    BY DirectoryAssumption
  <2> HIDE DEF f, upto
  <2> QED BY <2>1, <2>2, FS_Surjection
<1>5. IsFiniteSet(UNION upto)
  <2>1. ASSUME NEW s \in upto PROVE IsFiniteSet(s)
    <3>1. PICK d \in Numbers : s = 1 .. Len(T[d].ents)
      OBVIOUS
    <3>2. Len(T[d].ents) \in Int /\ 1 \in Int
      BY <1>2
    <3> QED BY <3>1, <3>2, FS_Interval
  <2> HIDE DEF upto
  <2> QED BY <1>4, <2>1, FS_UNION
<1>6. EntriesOf(T, i) \subseteq Numbers \X UNION upto
  BY <1>1, <1>2
<1>7. IsFiniteSet(Numbers \X UNION upto)
  <2> HIDE DEF upto
  <2> QED BY <1>5, FS_Product, DirectoryAssumption
<1>8. IsFiniteSet(EntriesOf(T, i))
  <2> HIDE DEF upto
  <2> QED BY <1>6, <1>7, FS_Subset
<1>9. \A d \in Numbers : \A k \in Mentions(T, d) : k \in Nat
  BY <1>2
<1> QED BY <1>1, <1>3, <1>8, <1>9, FS_CardinalityType

LEMMA SubDirsAre ==
  ASSUME NEW T, TreeShape(T), NEW d \in Numbers
  PROVE  /\ IsFiniteSet(SubDirs(T, d)) /\ Cardinality(SubDirs(T, d)) \in Nat
         /\ \A k : k \in SubDirs(T, d) <=> \E i : Says(T, d, k, i) /\ T[i].type = "dir"
<1>1. Len(T[d].ents) \in Nat /\ SubDirs(T, d) \subseteq 1 .. Len(T[d].ents)
  BY EntsTypes DEF Mentions, SubDirs
<1>2. IsFiniteSet(1 .. Len(T[d].ents))
  BY <1>1, FS_Interval
<1>3. IsFiniteSet(SubDirs(T, d))
  BY <1>1, <1>2, FS_Subset
<1>4. \A k : k \in SubDirs(T, d) <=> \E i : Says(T, d, k, i) /\ T[i].type = "dir"
  BY DEF SubDirs, Says
<1> QED BY <1>3, <1>4, FS_CardinalityType

LEMMA TreeLinks ==
  ASSUME NEW T, TreeShape(T), NEW i \in Numbers
  PROVE  /\ LinksOf(T, i) \in Nat
         /\ LinksOf(T, i) = One(i = RootDir) + Cardinality(EntriesOf(T, i)) + Cardinality(SubDirs(T, i))
         /\ LinksOf(T, i) = 0 => /\ i # RootDir
                                 /\ \A d, k : ~Says(T, d, k, i)
                                 /\ \A k \in Mentions(T, i) : T[T[i].ents[k].inum].type # "dir"
<1>1. /\ Cardinality(EntriesOf(T, i)) \in Nat /\ Cardinality(SubDirs(T, i)) \in Nat
      /\ Cardinality(EntriesOf(T, i)) = 0 => EntriesOf(T, i) = {}
      /\ Cardinality(SubDirs(T, i)) = 0 => SubDirs(T, i) = {}
  BY EntriesAre, SubDirsAre, FS_EmptySet
<1>2. LinksOf(T, i) = One(i = RootDir) + Cardinality(EntriesOf(T, i)) + Cardinality(SubDirs(T, i))
  BY DEF LinksOf, One
<1>3. One(i = RootDir) \in Nat /\ (One(i = RootDir) = 0 => i # RootDir)
  BY DEF One
<1>4. LinksOf(T, i) = 0 => i # RootDir /\ EntriesOf(T, i) = {} /\ SubDirs(T, i) = {}
  BY <1>1, <1>2, <1>3
<1>5. EntriesOf(T, i) = {} => \A d, k : ~Says(T, d, k, i)
  BY EntriesAre
<1>6. SubDirs(T, i) = {} => \A k \in Mentions(T, i) : T[T[i].ents[k].inum].type # "dir"
  BY DEF SubDirs
<1> QED BY <1>1, <1>2, <1>3, <1>4, <1>5, <1>6

-----------------------------------------------------------------------------
(* T2 has one entry more than T, entry k of d, which is i.                 *)
Gains(T, T2, d, k, i) ==
  /\ d \in Numbers /\ i \in Numbers /\ k \in Nat /\ i # d
  /\ \A n : ~Says(T, d, k, n)
  /\ \A e, j, n : Says(T2, e, j, n) <=> Says(T, e, j, n) \/ (e = d /\ j = k /\ n = i)
  /\ \A e, j, n : Says(T, e, j, n) => T2[n].type = T[n].type

LEMMA EntriesGained ==
  ASSUME NEW T, NEW T2, TreeShape(T), TreeShape(T2), NEW d, NEW k, NEW i,
         Gains(T, T2, d, k, i), NEW n \in Numbers
  PROVE  Cardinality(EntriesOf(T2, n)) = Cardinality(EntriesOf(T, n)) + One(n = i)
<1>1. \A e, j : Says(T2, e, j, n) <=> Says(T, e, j, n) \/ (e = d /\ j = k /\ n = i)
  BY DEF Gains
<1>2. ~Says(T, d, k, n)
  BY DEF Gains
<1>3. /\ \A x \in EntriesOf(T, n) : \E e \in Numbers, j \in Nat : x = <<e, j>>
      /\ \A e, j : <<e, j>> \in EntriesOf(T, n) <=> Says(T, e, j, n)
      /\ IsFiniteSet(EntriesOf(T, n)) /\ Cardinality(EntriesOf(T, n)) \in Nat
  BY EntriesAre
<1>4. /\ \A x \in EntriesOf(T2, n) : \E e \in Numbers, j \in Nat : x = <<e, j>>
      /\ \A e, j : <<e, j>> \in EntriesOf(T2, n) <=> Says(T2, e, j, n)
  BY EntriesAre
<1>5. CASE n = i
  <2>1. EntriesOf(T2, n) \subseteq EntriesOf(T, n) \cup {<<d, k>>}
    <3>1. ASSUME NEW x \in EntriesOf(T2, n) PROVE x \in EntriesOf(T, n) \cup {<<d, k>>}
      <4>1. PICK e \in Numbers, j \in Nat : x = <<e, j>>
        BY <1>4
      <4>2. Says(T2, e, j, n)
        BY <1>4, <4>1
      <4> QED BY <1>1, <1>3, <4>1, <4>2
    <3> QED BY <3>1
  <2>2. EntriesOf(T, n) \cup {<<d, k>>} \subseteq EntriesOf(T2, n)
    <3>1. ASSUME NEW x \in EntriesOf(T, n) PROVE x \in EntriesOf(T2, n)
      <4>1. PICK e \in Numbers, j \in Nat : x = <<e, j>>
        BY <1>3
      <4> QED BY <1>1, <1>3, <1>4, <4>1
    <3>2. <<d, k>> \in EntriesOf(T2, n)
      BY <1>1, <1>4, <1>5
    <3> QED BY <3>1, <3>2
  <2>3. <<d, k>> \notin EntriesOf(T, n)
    BY <1>2, <1>3
  <2>4. EntriesOf(T2, n) = EntriesOf(T, n) \cup {<<d, k>>}
    BY <2>1, <2>2
  <2>5. Cardinality(EntriesOf(T2, n)) = Cardinality(EntriesOf(T, n)) + 1
    BY <1>3, <2>3, <2>4, FS_AddElement
  <2> QED BY <1>5, <2>5 DEF One
<1>6. CASE n # i
  <2>1. EntriesOf(T2, n) \subseteq EntriesOf(T, n)
    <3>1. ASSUME NEW x \in EntriesOf(T2, n) PROVE x \in EntriesOf(T, n)
      <4>1. PICK e \in Numbers, j \in Nat : x = <<e, j>>
        BY <1>4
      <4> QED BY <1>1, <1>3, <1>4, <1>6, <4>1
    <3> QED BY <3>1
  <2>2. EntriesOf(T, n) \subseteq EntriesOf(T2, n)
    <3>1. ASSUME NEW x \in EntriesOf(T, n) PROVE x \in EntriesOf(T2, n)
      <4>1. PICK e \in Numbers, j \in Nat : x = <<e, j>>
        BY <1>3
      <4> QED BY <1>1, <1>3, <1>4, <4>1
    <3> QED BY <3>1
  <2>3. EntriesOf(T2, n) = EntriesOf(T, n)
    BY <2>1, <2>2
  <2> QED BY <1>3, <1>6, <2>3 DEF One
<1> QED BY <1>5, <1>6

LEMMA SubDirsGained ==
  ASSUME NEW T, NEW T2, TreeShape(T), TreeShape(T2), NEW d, NEW k, NEW i,
         Gains(T, T2, d, k, i), NEW n \in Numbers
  PROVE  Cardinality(SubDirs(T2, n)) =
           Cardinality(SubDirs(T, n)) + One(n = d /\ T2[i].type = "dir")
<1>1. \A e, j, m : Says(T2, e, j, m) <=> Says(T, e, j, m) \/ (e = d /\ j = k /\ m = i)
  BY DEF Gains
<1>2. \A m : ~Says(T, d, k, m)
  BY DEF Gains
<1>3. \A e, j, m : Says(T, e, j, m) => T2[m].type = T[m].type
  BY DEF Gains
<1>4. /\ \A j : j \in SubDirs(T, n) <=> \E m : Says(T, n, j, m) /\ T[m].type = "dir"
      /\ IsFiniteSet(SubDirs(T, n)) /\ Cardinality(SubDirs(T, n)) \in Nat
  BY SubDirsAre
<1>5. \A j : j \in SubDirs(T2, n) <=> \E m : Says(T2, n, j, m) /\ T2[m].type = "dir"
  BY SubDirsAre
<1>6. CASE n = d /\ T2[i].type = "dir"
  <2>1. SubDirs(T2, n) = SubDirs(T, n) \cup {k}
    <3>1. \A j \in SubDirs(T2, n) : j \in SubDirs(T, n) \cup {k}
      BY <1>1, <1>3, <1>4, <1>5
    <3>2. \A j \in SubDirs(T, n) : j \in SubDirs(T2, n)
      BY <1>1, <1>3, <1>4, <1>5
    <3>3. k \in SubDirs(T2, n)
      BY <1>1, <1>5, <1>6
    <3> QED BY <3>1, <3>2, <3>3
  <2>2. k \notin SubDirs(T, n)
    BY <1>2, <1>4, <1>6
  <2>3. IsFiniteSet(SubDirs(T, n))
    BY <1>4
  <2>4. Cardinality(SubDirs(T, n) \cup {k}) = Cardinality(SubDirs(T, n)) + 1
    BY <2>2, <2>3, FS_AddElement
  <2> QED BY <1>6, <2>1, <2>4 DEF One
<1>7. CASE ~(n = d /\ T2[i].type = "dir")
  <2>1. SubDirs(T2, n) = SubDirs(T, n)
    <3>1. \A j \in SubDirs(T2, n) : j \in SubDirs(T, n)
      BY <1>1, <1>3, <1>4, <1>5, <1>7
    <3>2. \A j \in SubDirs(T, n) : j \in SubDirs(T2, n)
      BY <1>1, <1>3, <1>4, <1>5
    <3> QED BY <3>1, <3>2
  <2> QED BY <1>4, <1>7, <2>1 DEF One
<1> QED BY <1>6, <1>7

LEMMA LinksGained ==
  ASSUME NEW T, NEW T2, TreeShape(T), TreeShape(T2), NEW d, NEW k, NEW i,
         Gains(T, T2, d, k, i), NEW n \in Numbers
  PROVE  /\ LinksOf(T, n) \in Nat /\ LinksOf(T2, n) \in Nat
         /\ LinksOf(T2, n) = LinksOf(T, n) + One(n = i) + One(n = d /\ T2[i].type = "dir")
<1>1. /\ LinksOf(T, n) \in Nat /\ LinksOf(T2, n) \in Nat
      /\ LinksOf(T, n) = One(n = RootDir) + Cardinality(EntriesOf(T, n)) + Cardinality(SubDirs(T, n))
      /\ LinksOf(T2, n) = One(n = RootDir) + Cardinality(EntriesOf(T2, n)) + Cardinality(SubDirs(T2, n))
  BY TreeLinks
<1>2. Cardinality(EntriesOf(T2, n)) = Cardinality(EntriesOf(T, n)) + One(n = i)
  BY EntriesGained
<1>3. Cardinality(SubDirs(T2, n)) =
           Cardinality(SubDirs(T, n)) + One(n = d /\ T2[i].type = "dir")
  BY SubDirsGained
<1>4. /\ Cardinality(EntriesOf(T, n)) \in Nat /\ Cardinality(SubDirs(T, n)) \in Nat
      /\ One(n = RootDir) \in Nat /\ One(n = i) \in Nat /\ One(n = d /\ T2[i].type = "dir") \in Nat
  BY EntriesAre, SubDirsAre DEF One
<1> QED BY <1>1, <1>2, <1>3, <1>4

-----------------------------------------------------------------------------
(* What can be reached is the least set that is closed under names.        *)
LEMMA ReachIs ==
  ASSUME NEW T, TreeShape(T)
  PROVE  /\ Reachable(T) \subseteq Numbers /\ RootDir \in Reachable(T)
         /\ \A d, k, i : d \in Reachable(T) /\ Says(T, d, k, i) => i \in Reachable(T)
         /\ \A C \in SUBSET Numbers :
              (RootDir \in C /\ \A d, k, i : d \in C /\ Says(T, d, k, i) => i \in C)
                => Reachable(T) \subseteq C
<1>1. RootDir \in Reachable(T) /\ Reachable(T) \subseteq Numbers
  BY DirectoryAssumption DEF Reachable, Closed, RootDir
<1>2. ASSUME NEW d, NEW k, NEW i, d \in Reachable(T), Says(T, d, k, i)
      PROVE  i \in Reachable(T)
  <2>1. i \in Numbers /\ i \in Below(T, d)
    BY <1>2, SaysIs DEF Below
  <2>2. ASSUME NEW C \in SUBSET Numbers, Closed(T, C) PROVE i \in C
    <3>1. d \in C
      BY <1>2, <2>2 DEF Reachable
    <3> QED BY <2>1, <2>2, <3>1 DEF Closed
  <2> QED BY <2>1, <2>2 DEF Reachable
<1>3. ASSUME NEW C \in SUBSET Numbers, RootDir \in C,
             \A d, k, i : d \in C /\ Says(T, d, k, i) => i \in C
      PROVE  Reachable(T) \subseteq C
  <2>1. ASSUME NEW d \in C, NEW i \in Below(T, d) PROVE i \in C
    <3>1. PICK k \in Mentions(T, d) : i = T[d].ents[k].inum
      BY <2>1 DEF Below
    <3>2. Says(T, d, k, i)
      BY <2>1, <3>1 DEF Says
    <3> QED BY <1>3, <2>1, <3>2
  <2>2. Closed(T, C)
    BY <1>3, <2>1 DEF Closed
  <2> QED BY <2>2 DEF Reachable
<1> QED BY <1>1, <1>2, <1>3

LEMMA ReachFrom ==
  ASSUME NEW T, TreeShape(T), NEW i \in Reachable(T), i # RootDir
  PROVE  \E d \in Reachable(T), k \in Nat : Says(T, d, k, i)
<1>1. SUFFICES ASSUME \A d \in Reachable(T), k \in Nat : ~Says(T, d, k, i)
               PROVE  FALSE
  OBVIOUS
<1> DEFINE C == Reachable(T) \ {i}
<1>2. C \in SUBSET Numbers /\ RootDir \in C
  BY ReachIs
<1>3. ASSUME NEW d, NEW k, NEW n, d \in C, Says(T, d, k, n) PROVE n \in C
  <2>1. n \in Reachable(T) /\ k \in Nat
    BY <1>3, ReachIs, SaysIs
  <2> QED BY <1>1, <1>3, <2>1
<1>4. Reachable(T) \subseteq C
  <2> HIDE DEF C
  <2> QED BY <1>2, <1>3, ReachIs
<1> QED BY <1>4

LEMMA ReachMore ==
  ASSUME NEW T, NEW T2, TreeShape(T), TreeShape(T2),
         \A d, k, i : Says(T, d, k, i) => Says(T2, d, k, i)
  PROVE  Reachable(T) \subseteq Reachable(T2)
<1>1. Reachable(T2) \in SUBSET Numbers /\ RootDir \in Reachable(T2)
  BY ReachIs
<1>2. \A d, k, i : d \in Reachable(T2) /\ Says(T, d, k, i) => i \in Reachable(T2)
  BY ReachIs
<1> QED BY <1>1, <1>2, ReachIs

LEMMA ReachGained ==
  ASSUME NEW T, NEW T2, TreeShape(T), TreeShape(T2), NEW d, NEW k, NEW i,
         Gains(T, T2, d, k, i), \A j, n : ~Says(T, i, j, n)
  PROVE  Reachable(T2) = IF d \in Reachable(T) THEN Reachable(T) \cup {i} ELSE Reachable(T)
<1>1. /\ \A e, j, n : Says(T2, e, j, n) <=> Says(T, e, j, n) \/ (e = d /\ j = k /\ n = i)
      /\ i \in Numbers /\ i # d
  BY DEF Gains
<1>2. Reachable(T) \subseteq Reachable(T2)
  BY <1>1, ReachMore
<1>3. /\ Reachable(T) \subseteq Numbers /\ RootDir \in Reachable(T)
      /\ \A e, j, n : e \in Reachable(T) /\ Says(T, e, j, n) => n \in Reachable(T)
  BY ReachIs
<1>4. CASE d \in Reachable(T)
  <2>1. \A e, j, n : e \in Reachable(T) \cup {i} /\ Says(T2, e, j, n) => n \in Reachable(T) \cup {i}
    BY <1>1, <1>3
  <2>2. Reachable(T) \cup {i} \in SUBSET Numbers /\ RootDir \in Reachable(T) \cup {i}
    BY <1>1, <1>3
  <2>3. Reachable(T2) \subseteq Reachable(T) \cup {i}
    BY <2>1, <2>2, ReachIs
  <2>4. i \in Reachable(T2)
    BY <1>1, <1>2, <1>4, ReachIs
  <2> QED BY <1>2, <1>4, <2>3, <2>4
<1>5. CASE d \notin Reachable(T)
  <2>1. \A e, j, n : e \in Reachable(T) /\ Says(T2, e, j, n) => n \in Reachable(T)
    BY <1>1, <1>3, <1>5
  <2>2. Reachable(T2) \subseteq Reachable(T)
    BY <1>3, <2>1, ReachIs
  <2> QED BY <1>2, <1>5, <2>2
<1> QED BY <1>4, <1>5

(* Names and types are the same.                                           *)
SameTree(T, T2) ==
  /\ \A d, k, i : Says(T2, d, k, i) <=> Says(T, d, k, i)
  /\ \A d, k, i : Says(T, d, k, i) => T2[i].type = T[i].type

LEMMA SameLinks ==
  ASSUME NEW T, NEW T2, TreeShape(T), TreeShape(T2), SameTree(T, T2)
  PROVE  /\ Reachable(T2) = Reachable(T)
         /\ \A n \in Numbers : LinksOf(T2, n) = LinksOf(T, n)
<1>1. /\ \A d, k, i : Says(T2, d, k, i) <=> Says(T, d, k, i)
      /\ \A d, k, i : Says(T, d, k, i) => T2[i].type = T[i].type
  BY DEF SameTree
<1>2. Reachable(T2) = Reachable(T)
  <2>1. Reachable(T) \subseteq Reachable(T2)
    BY <1>1, ReachMore
  <2>2. Reachable(T2) \subseteq Reachable(T)
    BY <1>1, ReachMore
  <2> QED BY <2>1, <2>2
<1>3. ASSUME NEW n \in Numbers PROVE LinksOf(T2, n) = LinksOf(T, n)
  <2>1. /\ \A x \in EntriesOf(T, n) : \E e \in Numbers, j \in Nat : x = <<e, j>>
        /\ \A e, j : <<e, j>> \in EntriesOf(T, n) <=> Says(T, e, j, n)
    BY EntriesAre
  <2>2. /\ \A x \in EntriesOf(T2, n) : \E e \in Numbers, j \in Nat : x = <<e, j>>
        /\ \A e, j : <<e, j>> \in EntriesOf(T2, n) <=> Says(T2, e, j, n)
    BY EntriesAre
  <2>3. EntriesOf(T, n) \subseteq EntriesOf(T2, n) /\ EntriesOf(T2, n) \subseteq EntriesOf(T, n)
    <3>1. ASSUME NEW x \in EntriesOf(T, n) PROVE x \in EntriesOf(T2, n)
      <4>1. PICK e \in Numbers, j \in Nat : x = <<e, j>>
        BY <2>1
      <4> QED BY <1>1, <2>1, <2>2, <4>1
    <3>2. ASSUME NEW x \in EntriesOf(T2, n) PROVE x \in EntriesOf(T, n)
      <4>1. PICK e \in Numbers, j \in Nat : x = <<e, j>>
        BY <2>2
      <4> QED BY <1>1, <2>1, <2>2, <4>1
    <3> QED BY <3>1, <3>2
  <2>4. EntriesOf(T2, n) = EntriesOf(T, n)
    BY <2>3
  <2>5. /\ \A j : j \in SubDirs(T, n) <=> \E m : Says(T, n, j, m) /\ T[m].type = "dir"
        /\ \A j : j \in SubDirs(T2, n) <=> \E m : Says(T2, n, j, m) /\ T2[m].type = "dir"
    BY SubDirsAre
  <2>6. \A j : j \in SubDirs(T2, n) <=> j \in SubDirs(T, n)
    BY <1>1, <2>5
  <2>7. SubDirs(T2, n) = SubDirs(T, n)
    BY <2>6
  <2> QED BY <2>4, <2>7 DEF LinksOf
<1> QED BY <1>2, <1>3

-----------------------------------------------------------------------------
(* What the operations on a tree of the right shape make.                  *)
LEMMA LeastIs ==
  ASSUME NEW S \in SUBSET Nat, S # {}
  PROVE  Least(S) \in S /\ \A y \in S : Least(S) <= y
<1>1. \E x \in S : \A y \in S : x <= y
  BY FirstIsThere
<1> QED BY <1>1 DEF Least

LEMMA LookupIs ==
  ASSUME NEW T, TreeShape(T), NEW d \in Numbers, NEW name
  PROVE  /\ DirLookup(T, d, name) \in Numbers \cup {0}
         /\ DirLookup(T, d, name) = 0 => SlotsOf(T, d, name) = {}
         /\ DirLookup(T, d, name) # 0 =>
              LET k == Least(SlotsOf(T, d, name))
              IN /\ k \in DOMAIN T[d].ents /\ k \in Nat
                 /\ T[d].ents[k].inum = DirLookup(T, d, name)
                 /\ T[d].ents[k].name = name
<1> DEFINE found == SlotsOf(T, d, name)
<1>1. CASE found = {}
  BY <1>1 DEF DirLookup
<1>2. CASE found # {}
  <2>1. DOMAIN T[d].ents \subseteq Nat
    BY EntsTypes
  <2>2. found \in SUBSET Nat
    BY <2>1 DEF SlotsOf
  <2>3. Least(found) \in found
    <3> HIDE DEF found
    <3> QED BY <1>2, <2>2, LeastIs
  <2> DEFINE k == Least(found)
  <2>4. k \in DOMAIN T[d].ents /\ T[d].ents[k].inum # 0 /\ T[d].ents[k].name = name
    BY <2>3 DEF SlotsOf
  <2>5. DirLookup(T, d, name) = T[d].ents[k].inum
    BY <1>2 DEF DirLookup
  <2>6. T[d].ents[k].inum \in Numbers \cup {0}
    BY <2>4, EntsTypes
  <2> HIDE DEF k
  <2>7. k \in Nat
    BY <2>1, <2>4
  <2> QED BY <2>4, <2>5, <2>6, <2>7 DEF k
<1> QED BY <1>1, <1>2

LEMMA ShapeSame ==
  ASSUME NEW T, TreeShape(T), NEW T2 \in [Numbers -> Inodes],
         \A n \in Numbers : /\ T2[n].type = T[n].type /\ T2[n].ents = T[n].ents
                            /\ T[n].type = "none" => T2[n] = Missing
  PROVE  TreeShape(T2) /\ SameTree(T, T2)
<1>1. \A d \in Numbers : Mentions(T2, d) = Mentions(T, d)
  BY DEF Mentions
<1>2. SameTree(T, T2)
  <2>1. ASSUME NEW d, NEW k, NEW i PROVE Says(T2, d, k, i) <=> Says(T, d, k, i)
    BY <1>1 DEF Says
  <2>2. ASSUME NEW d, NEW k, NEW i, Says(T, d, k, i) PROVE T2[i].type = T[i].type
    BY <2>2, SaysIs
  <2> QED BY <2>1, <2>2 DEF SameTree
<1>3. /\ T2[RootDir].type = "dir" /\ T2[RootDir].ents[2].inum = RootDir
  BY DirectoryAssumption DEF TreeShape, RootDir
<1>4. \A i \in Numbers : /\ T2[i].type = "none" => T2[i] = Missing
                         /\ T2[i].type # "dir" => T2[i].ents = <<>>
  BY DEF TreeShape
<1>5. \A d \in Numbers : T2[d].type = "dir" =>
         /\ Len(T2[d].ents) >= 2 /\ T2[d].ents[1] = Entry(".", d)
         /\ T2[d].ents[2].name = ".." /\ T2[d].ents[2].inum # 0
  BY DEF TreeShape
<1>6. ASSUME NEW d \in Numbers, NEW k \in Mentions(T2, d)
      PROVE  LET i == T2[d].ents[k].inum
             IN /\ T2[d].ents[k].name \notin Dots /\ i \notin {RootDir, d}
                /\ T2[i].type = "dir" => T2[i].ents[2].inum = d
                /\ \A j \in Mentions(T2, d) : j # k =>
                     /\ T2[d].ents[j].name # T2[d].ents[k].name
                     /\ T2[i].type = "dir" => T2[d].ents[j].inum # i
  <2> DEFINE i == T[d].ents[k].inum
  <2>1. Says(T, d, k, i) /\ T2[d].ents = T[d].ents /\ Mentions(T2, d) = Mentions(T, d)
    BY <1>1, <1>6 DEF Says
  <2> HIDE DEF i
  <2>2. /\ i \in Numbers /\ i = T[d].ents[k].inum /\ i # RootDir /\ i # d
        /\ T[d].ents[k].name \notin Dots
        /\ T[i].type = "dir" => T[i].ents[2].inum = d
        /\ \A j \in Mentions(T, d) : j # k =>
               /\ T[d].ents[j].name # T[d].ents[k].name
               /\ T[i].type = "dir" => T[d].ents[j].inum # i
    BY <2>1, SaysIs
  <2>3. T2[i].type = T[i].type /\ T2[i].ents = T[i].ents
    BY <2>2
  <2> QED BY <2>1, <2>2, <2>3
<1> QED BY <1>2, <1>3, <1>4, <1>5, <1>6 DEF TreeShape

(* A count is changed.                                                     *)
Relinked(T, T2, i, v) ==
  /\ TreeShape(T2) /\ SameTree(T, T2)
  /\ \A n \in Numbers : /\ T2[n].type = T[n].type
                        /\ T2[n].nlink = IF n = i THEN v ELSE T[n].nlink

LEMMA RelinkedIs ==
  ASSUME NEW T, TreeShape(T), NEW i \in Numbers, NEW v \in Nat, T[i].type # "none"
  PROVE  Relinked(T, [T EXCEPT ![i].nlink = v], i, v)
<1> DEFINE T2 == [T EXCEPT ![i].nlink = v]
<1>1. T \in [Numbers -> Inodes]
  BY DEF TreeShape
<1>2. \A n \in Numbers : T2[n] = IF n = i THEN [T[i] EXCEPT !.nlink = v] ELSE T[n]
  BY <1>1
<1>3. T[i] \in Inodes
  BY <1>1
<1>4. /\ [T[i] EXCEPT !.nlink = v] \in Inodes
      /\ [T[i] EXCEPT !.nlink = v].type = T[i].type
      /\ [T[i] EXCEPT !.nlink = v].ents = T[i].ents
      /\ [T[i] EXCEPT !.nlink = v].nlink = v
  BY <1>3 DEF Inodes
<1>5. T2 \in [Numbers -> Inodes]
  <2>1. T2 = [n \in Numbers |-> IF n = i THEN [T[i] EXCEPT !.nlink = v] ELSE T[n]]
    BY <1>1
  <2> HIDE DEF T2
  <2> QED BY <1>1, <1>4, <2>1
<1> HIDE DEF T2
<1>6. \A n \in Numbers : /\ T2[n].type = T[n].type /\ T2[n].ents = T[n].ents
                         /\ T2[n].nlink = IF n = i THEN v ELSE T[n].nlink
                         /\ T[n].type = "none" => T2[n] = Missing
  BY <1>2, <1>4, ShapeTypes
<1>7. TreeShape(T2) /\ SameTree(T, T2)
  BY <1>5, <1>6, ShapeSame
<1>8. Relinked(T, T2, i, v)
  BY <1>6, <1>7 DEF Relinked
<1> QED BY <1>8 DEF T2

(* An inode nobody names is given other contents, without names.           *)
Replaced(T, T2, i, new) ==
  /\ TreeShape(T2) /\ T2[i] = new /\ \A n \in Numbers \ {i} : T2[n] = T[n]
  /\ \A d, k, n : Says(T2, d, k, n) <=> Says(T, d, k, n) /\ d # i

LEMMA ReplacedShape ==
  ASSUME NEW T, TreeShape(T), NEW i \in Numbers \ {RootDir}, NEW new \in Inodes,
         \A d, k : ~Says(T, d, k, i),
         new.type = "none" => new = Missing,
         new.type # "dir" => new.ents = <<>>,
         new.type = "dir" => \E dp \in Numbers : new.ents = DotEntries(i, dp)
  PROVE  Replaced(T, [T EXCEPT ![i] = new], i, new)
<1> DEFINE T2 == [T EXCEPT ![i] = new]
<1>1. T \in [Numbers -> Inodes]
  BY DEF TreeShape
<1>2. T2 \in [Numbers -> Inodes] /\ T2[i] = new /\ \A n \in Numbers \ {i} : T2[n] = T[n]
  BY <1>1
<1> HIDE DEF T2
<1>3. Mentions(T2, i) = {}
  <2>1. CASE new.type = "dir"
    <3>1. PICK dp \in Numbers : new.ents = DotEntries(i, dp)
      BY <2>1
    <3>2. DOMAIN T2[i].ents = 1 .. 2
      BY <1>2, <3>1 DEF DotEntries
    <3> QED BY <3>2 DEF Mentions
  <2>2. CASE new.type # "dir"
    <3>1. DOMAIN T2[i].ents = {}
      BY <1>2, <2>2
    <3> QED BY <3>1 DEF Mentions
  <2> QED BY <2>1, <2>2
<1>4. \A d \in Numbers \ {i} : Mentions(T2, d) = Mentions(T, d) /\ T2[d].ents = T[d].ents
  BY <1>2 DEF Mentions
<1>5. \A d, k, n : Says(T2, d, k, n) <=> Says(T, d, k, n) /\ d # i
  BY <1>3, <1>4 DEF Says
<1>6. T2[RootDir].type = "dir" /\ T2[RootDir].ents[2].inum = RootDir
  BY <1>2, DirectoryAssumption DEF TreeShape, RootDir
<1>7. \A n \in Numbers : /\ T2[n].type = "none" => T2[n] = Missing
                         /\ T2[n].type # "dir" => T2[n].ents = <<>>
  BY <1>2 DEF TreeShape
<1>8. ASSUME NEW d \in Numbers, T2[d].type = "dir"
      PROVE  /\ Len(T2[d].ents) >= 2 /\ T2[d].ents[1] = Entry(".", d)
             /\ T2[d].ents[2].name = ".." /\ T2[d].ents[2].inum # 0
  <2>1. CASE d = i
    <3>1. PICK dp \in Numbers : new.ents = DotEntries(i, dp)
      BY <1>2, <1>8, <2>1
    <3>2. dp # 0
      BY DirectoryAssumption
    <3> QED BY <1>2, <2>1, <3>1, <3>2 DEF DotEntries, Entry
  <2>2. CASE d # i
    BY <1>2, <1>8, <2>2 DEF TreeShape
  <2> QED BY <2>1, <2>2
<1>9. ASSUME NEW d \in Numbers, NEW k \in Mentions(T2, d)
      PROVE  LET n == T2[d].ents[k].inum
             IN /\ T2[d].ents[k].name \notin Dots /\ n \notin {RootDir, d}
                /\ T2[n].type = "dir" => T2[n].ents[2].inum = d
                /\ \A j \in Mentions(T2, d) : j # k =>
                     /\ T2[d].ents[j].name # T2[d].ents[k].name
                     /\ T2[n].type = "dir" => T2[d].ents[j].inum # n
  <2> DEFINE n == T[d].ents[k].inum
  <2>1. d # i
    BY <1>3, <1>9
  <2>2. Says(T, d, k, n) /\ T2[d].ents = T[d].ents /\ Mentions(T2, d) = Mentions(T, d)
    BY <1>4, <1>9, <2>1 DEF Says
  <2> HIDE DEF n
  <2>3. /\ n \in Numbers /\ n = T[d].ents[k].inum /\ n # RootDir /\ n # d
        /\ T[d].ents[k].name \notin Dots
        /\ T[n].type = "dir" => T[n].ents[2].inum = d
        /\ \A j \in Mentions(T, d) : j # k =>
               /\ T[d].ents[j].name # T[d].ents[k].name
               /\ T[n].type = "dir" => T[d].ents[j].inum # n
    BY <2>2, SaysIs
  <2>4. n # i
    BY <2>2
  <2>5. T2[n] = T[n]
    BY <1>2, <2>3, <2>4
  <2> QED BY <2>2, <2>3, <2>5
<1>10. TreeShape(T2)
  BY <1>2, <1>6, <1>7, <1>8, <1>9 DEF TreeShape
<1>11. Replaced(T, T2, i, new)
  BY <1>2, <1>5, <1>10 DEF Replaced
<1> QED BY <1>11 DEF T2

(* A directory is given other entries.                                     *)
Ents == Seq([name : EntryNames, inum : Numbers \cup {0}])

LEMMA RewrittenIs ==
  ASSUME NEW T, TreeShape(T), NEW d \in Numbers, NEW s \in Ents
  PROVE  LET T2 == [T EXCEPT ![d].ents = s]
         IN /\ T2 \in [Numbers -> Inodes]
            /\ \A n \in Numbers : /\ T2[n].type = T[n].type /\ T2[n].nlink = T[n].nlink
                                  /\ T2[n].ents = IF n = d THEN s ELSE T[n].ents
                                  /\ n # d => T2[n] = T[n]
<1> DEFINE T2 == [T EXCEPT ![d].ents = s]
<1>1. T \in [Numbers -> Inodes] /\ T[d] \in Inodes
  BY DEF TreeShape
<1>2. T2 = [n \in Numbers |-> IF n = d THEN [T[d] EXCEPT !.ents = s] ELSE T[n]]
  BY <1>1
<1>3. /\ [T[d] EXCEPT !.ents = s] \in Inodes
      /\ [T[d] EXCEPT !.ents = s].type = T[d].type
      /\ [T[d] EXCEPT !.ents = s].nlink = T[d].nlink
      /\ [T[d] EXCEPT !.ents = s].ents = s
  <2> DEFINE S == Ents
  <2> HIDE DEF S
  <2>1. Inodes = [type : {"none", "file", "dir", "dev"}, nlink : Nat, ents : S]
    BY DEF S, Inodes, Ents
  <2>2. s \in S
    BY DEF S
  <2> QED BY <1>1, <2>1, <2>2
<1> HIDE DEF T2
<1>4. T2 \in [Numbers -> Inodes]
  BY <1>1, <1>2, <1>3
<1>5. \A n \in Numbers : /\ T2[n].type = T[n].type /\ T2[n].nlink = T[n].nlink
                         /\ T2[n].ents = IF n = d THEN s ELSE T[n].ents
                         /\ n # d => T2[n] = T[n]
  BY <1>2, <1>3
<1> QED BY <1>4, <1>5 DEF T2

\* Of the entries of a directory one is replaced or added.
OtherThan(old, s, k) ==
  /\ k \in Nat /\ k > 2 /\ k \in DOMAIN s
  /\ DOMAIN s = DOMAIN old \cup {k}
  /\ \A j \in DOMAIN old : j # k => s[j] = old[j]

\* Entry k of s may be in the place of entry k of d, which names nothing or
\* is taken away.
Fits(T, d, s, k) ==
  /\ s[k].inum = 0 \/ \A n : ~Says(T, d, k, n)
  /\ s[k].inum # 0 =>
       /\ s[k].name \notin Dots /\ s[k].inum \notin {RootDir, d}
       /\ \A j \in Mentions(T, d) : T[d].ents[j].name # s[k].name
       /\ T[s[k].inum].type = "dir" => /\ T[s[k].inum].ents[2].inum = d
                                       /\ \A e, j : ~Says(T, e, j, s[k].inum)

Rewritten(T, T2, d, s, k) ==
  /\ TreeShape(T2)
  /\ \A e, j, n : Says(T2, e, j, n) <=>
       IF e = d /\ j = k THEN n = s[k].inum /\ n # 0 ELSE Says(T, e, j, n)
  /\ \A n \in Numbers : T2[n].type = T[n].type /\ T2[n].nlink = T[n].nlink

LEMMA RewrittenShape ==
  ASSUME NEW T, TreeShape(T), NEW d \in Numbers, T[d].type = "dir", NEW s \in Ents,
         NEW k, OtherThan(T[d].ents, s, k),
         NEW T2, T2 = [T EXCEPT ![d].ents = s],
         Fits(T, d, s, k)
  PROVE  Rewritten(T, T2, d, s, k)
<1>0. /\ s[k].inum = 0 \/ \A n : ~Says(T, d, k, n)
      /\ s[k].inum # 0 =>
           /\ s[k].name \notin Dots /\ s[k].inum \notin {RootDir, d}
           /\ \A j \in Mentions(T, d) : T[d].ents[j].name # s[k].name
           /\ T[s[k].inum].type = "dir" => /\ T[s[k].inum].ents[2].inum = d
                                           /\ \A e, j : ~Says(T, e, j, s[k].inum)
  BY DEF Fits
<1>1. /\ T2 \in [Numbers -> Inodes]
      /\ \A n \in Numbers : /\ T2[n].type = T[n].type /\ T2[n].nlink = T[n].nlink
                            /\ T2[n].ents = IF n = d THEN s ELSE T[n].ents
                            /\ n # d => T2[n] = T[n]
  BY RewrittenIs
<1>2. /\ Len(T[d].ents) \in Nat /\ Len(T[d].ents) >= 2
      /\ 1 \in DOMAIN T[d].ents /\ 2 \in DOMAIN T[d].ents
      /\ T[d].ents[1] = Entry(".", d)
      /\ T[d].ents[2].name = ".." /\ T[d].ents[2].inum \in Numbers
  BY DirIs
<1>3. /\ k \in Nat /\ k > 2 /\ k \in DOMAIN s
      /\ DOMAIN s = DOMAIN T[d].ents \cup {k}
      /\ \A j \in DOMAIN T[d].ents : j # k => s[j] = T[d].ents[j]
  BY DEF OtherThan
<1>4. Len(s) \in Nat /\ DOMAIN s = 1 .. Len(s)
  BY DEF Ents
<1>5. s[1] = T[d].ents[1] /\ s[2] = T[d].ents[2] /\ Len(s) >= 2
  <2>1. 1 # k /\ 2 # k
    BY <1>3
  <2>2. 2 \in 1 .. Len(s)
    BY <1>2, <1>3, <1>4
  <2> QED BY <1>2, <1>3, <1>4, <2>1, <2>2
<1>6. \A j : j \in Mentions(T2, d) <=>
        IF j = k THEN s[k].inum # 0 ELSE j \in Mentions(T, d)
  BY <1>1, <1>3 DEF Mentions
<1>7. \A j \in Mentions(T, d) : j # k => s[j] = T[d].ents[j]
  BY <1>3 DEF Mentions
<1>8. \A e \in Numbers : e # d => Mentions(T2, e) = Mentions(T, e)
  BY <1>1 DEF Mentions
<1>9. \A e, j, n : Says(T2, e, j, n) <=>
         IF e = d /\ j = k THEN n = s[k].inum /\ n # 0 ELSE Says(T, e, j, n)
  <2>1. ASSUME NEW e, NEW j, NEW n, e # d
        PROVE  Says(T2, e, j, n) <=> Says(T, e, j, n)
    BY <1>1, <1>8, <2>1 DEF Says
  <2>2. ASSUME NEW j, NEW n, j # k PROVE Says(T2, d, j, n) <=> Says(T, d, j, n)
    <3>1. j \in Mentions(T2, d) <=> j \in Mentions(T, d)
      BY <1>6, <2>2
    <3>2. j \in Mentions(T, d) => T2[d].ents[j] = T[d].ents[j]
      BY <1>1, <1>7, <2>2
    <3> QED BY <3>1, <3>2 DEF Says
  <2>3. ASSUME NEW n PROVE Says(T2, d, k, n) <=> n = s[k].inum /\ n # 0
    <3>1. k \in Mentions(T2, d) <=> s[k].inum # 0
      BY <1>6
    <3>2. T2[d].ents[k] = s[k]
      BY <1>1
    <3> QED BY <3>1, <3>2 DEF Says
  <2> QED BY <2>1, <2>2, <2>3
<1>10. T2[RootDir].type = "dir" /\ T2[RootDir].ents[2].inum = RootDir
  BY <1>1, <1>5, DirectoryAssumption DEF TreeShape, RootDir
<1>11. \A n \in Numbers : /\ T2[n].type = "none" => T2[n] = Missing
                          /\ T2[n].type # "dir" => T2[n].ents = <<>>
  BY <1>1 DEF TreeShape
<1>12. \A e \in Numbers : T2[e].type = "dir" =>
         /\ Len(T2[e].ents) >= 2 /\ T2[e].ents[1] = Entry(".", e)
         /\ T2[e].ents[2].name = ".." /\ T2[e].ents[2].inum # 0
  <2>1. 0 \notin Numbers
    BY DirectoryAssumption
  <2> QED BY <1>1, <1>2, <1>5, <2>1 DEF TreeShape
<1>13. \A n \in Numbers : T2[n].type = "dir" => T2[n].ents[2] = T[n].ents[2]
  BY <1>1, <1>5
<1>14. ASSUME NEW e \in Numbers, NEW l \in Mentions(T2, e)
       PROVE  LET n == T2[e].ents[l].inum
              IN /\ T2[e].ents[l].name \notin Dots /\ n \notin {RootDir, e}
                 /\ T2[n].type = "dir" => T2[n].ents[2].inum = e
                 /\ \A j \in Mentions(T2, e) : j # l =>
                      /\ T2[e].ents[j].name # T2[e].ents[l].name
                      /\ T2[n].type = "dir" => T2[e].ents[j].inum # n
  <2>1. CASE e = d /\ l = k
    <3> DEFINE n == s[k].inum
    <3>1. n # 0 /\ T2[e].ents = s
      BY <1>1, <1>6, <1>14, <2>1
    <3>2. n \in Numbers
      <4> DEFINE S == [name : EntryNames, inum : Numbers \cup {0}]
      <4>1. s[k] \in S
        <5>1. s \in Seq(S)
          BY DEF Ents
        <5>2. k \in 1 .. Len(s)
          BY <1>3, <1>4
        <5> HIDE DEF S
        <5> QED BY <5>1, <5>2
      <4> QED BY <3>1, <4>1
    <3>3. /\ s[k].name \notin Dots /\ n \notin {RootDir, d}
          /\ \A j \in Mentions(T, d) : T[d].ents[j].name # s[k].name
          /\ T[n].type = "dir" => T[n].ents[2].inum = d /\ \A f, j : ~Says(T, f, j, n)
      BY <1>0, <3>1
    <3> HIDE DEF n
    <3>4. ASSUME NEW j \in Mentions(T2, e), j # l
          PROVE  /\ T2[e].ents[j].name # T2[e].ents[l].name
                 /\ T2[n].type = "dir" => T2[e].ents[j].inum # n
      <4>1. j \in Mentions(T, d) /\ s[j] = T[d].ents[j]
        BY <1>6, <1>7, <2>1, <3>4
      <4>2. T[n].type = "dir" => T[d].ents[j].inum # n
        BY <3>3, <4>1 DEF Says
      <4> QED BY <1>1, <2>1, <3>1, <3>2, <3>3, <4>1, <4>2
    <3>5. T2[n].type = "dir" => T2[n].ents[2].inum = e
      BY <1>1, <1>13, <2>1, <3>2, <3>3
    <3> QED BY <2>1, <3>1, <3>3, <3>4, <3>5 DEF n
  <2>2. CASE ~(e = d /\ l = k)
    <3> DEFINE n == T2[e].ents[l].inum
    <3>1. Says(T, e, l, n) /\ T2[e].ents[l] = T[e].ents[l]
      <4>1. l \in Mentions(T, e) /\ T2[e].ents[l] = T[e].ents[l]
        <5>1. CASE e = d
          <6>1. l # k
            BY <2>2, <5>1
          <6>2. l \in Mentions(T, d)
            BY <1>6, <1>14, <5>1, <6>1
          <6> QED BY <1>1, <1>7, <5>1, <6>1, <6>2
        <5>2. CASE e # d
          BY <1>1, <1>8, <1>14, <5>2
        <5> QED BY <5>1, <5>2
      <4> QED BY <4>1 DEF Says
    <3> HIDE DEF n
    <3>2. /\ n \in Numbers /\ n = T[e].ents[l].inum /\ n # RootDir /\ n # e
          /\ T[e].ents[l].name \notin Dots
          /\ T[n].type = "dir" => T[n].ents[2].inum = e
          /\ \A j \in Mentions(T, e) : j # l =>
                 /\ T[e].ents[j].name # T[e].ents[l].name
                 /\ T[n].type = "dir" => T[e].ents[j].inum # n
      BY <3>1, SaysIs
    <3>3. T2[n].type = "dir" => T2[n].ents[2].inum = e
      BY <1>1, <1>13, <3>2
    <3>4. ASSUME NEW j \in Mentions(T2, e), j # l
          PROVE  /\ T2[e].ents[j].name # T2[e].ents[l].name
                 /\ T2[n].type = "dir" => T2[e].ents[j].inum # n
      <4>1. CASE e = d /\ j = k
        <5>1. s[k].inum # 0 /\ T2[e].ents[j] = s[k]
          BY <1>1, <1>6, <3>4, <4>1
        <5>2. T[e].ents[l].name # s[k].name
          <6>1. l \in Mentions(T, d)
            BY <3>1, <4>1 DEF Says
          <6> QED BY <1>0, <4>1, <5>1, <6>1
        <5>3. T[n].type = "dir" => s[k].inum # n
          BY <1>0, <3>1, <5>1
        <5> QED BY <1>1, <3>1, <3>2, <5>1, <5>2, <5>3
      <4>2. CASE ~(e = d /\ j = k)
        <5>1. j \in Mentions(T, e) /\ T2[e].ents[j] = T[e].ents[j]
          <6>1. CASE e = d
            <7>1. j # k
              BY <4>2, <6>1
            <7>2. j \in Mentions(T, d)
              BY <1>6, <3>4, <6>1, <7>1
            <7> QED BY <1>1, <1>7, <6>1, <7>1, <7>2
          <6>2. CASE e # d
            BY <1>1, <1>8, <3>4, <6>2
          <6> QED BY <6>1, <6>2
        <5> QED BY <1>1, <3>1, <3>2, <3>4, <5>1
      <4> QED BY <4>1, <4>2
    <3> QED BY <3>1, <3>2, <3>3, <3>4 DEF n
  <2> QED BY <2>1, <2>2
<1>15. TreeShape(T2)
  BY <1>1, <1>10, <1>11, <1>12, <1>14 DEF TreeShape
<1> QED BY <1>1, <1>9, <1>15 DEF Rewritten

(* dirlink.                                                                *)
LEMMA EnterSlot ==
  ASSUME NEW T, TreeShape(T), NEW d \in Numbers, T[d].type = "dir",
         NEW e \in [name : EntryNames, inum : Numbers \cup {0}]
  PROVE  \E k \in Nat, s \in Ents :
           /\ OtherThan(T[d].ents, s, k) /\ s[k] = e
           /\ \A n : ~Says(T, d, k, n)
           /\ DirEnter(T, d, e) = [T EXCEPT ![d].ents = s]
<1> DEFINE S == [name : EntryNames, inum : Numbers \cup {0}]
           old == T[d].ents
           blank == {k \in DOMAIN T[d].ents : T[d].ents[k].inum = 0}
<1>1. old \in Seq(S) /\ e \in S
  BY ShapeTypes
<1>2. /\ Len(old) \in Nat /\ Len(old) >= 2
      /\ 1 \in DOMAIN old /\ 2 \in DOMAIN old
      /\ old[1].inum = d /\ old[2].inum \in Numbers
  <2>1. /\ Len(T[d].ents) \in Nat /\ Len(T[d].ents) >= 2
        /\ 1 \in DOMAIN T[d].ents /\ 2 \in DOMAIN T[d].ents
        /\ T[d].ents[1] = Entry(".", d) /\ T[d].ents[2].inum \in Numbers
    BY DirIs
  <2>2. Entry(".", d).inum = d
    BY DEF Entry
  <2> QED BY <2>1, <2>2
<1>3. 0 \notin Numbers
  BY DirectoryAssumption
<1>4. DirEnter(T, d, e) = IF blank = {} THEN [T EXCEPT ![d].ents = Append(old, e)]
                          ELSE [T EXCEPT ![d].ents[Least(blank)] = e]
  BY DEF DirEnter
<1>5. DOMAIN old = 1 .. Len(old)
  BY EntsTypes
<1>6. Ents = Seq(S)
  BY DEF Ents
<1>7. CASE blank = {}
  <2> DEFINE s == Append(old, e)
             k == Len(old) + 1
  <2>1. s \in Seq(S) /\ DOMAIN s = 1 .. k /\ s[k] = e /\ \A j \in 1 .. Len(old) : s[j] = old[j]
    <3> HIDE DEF S, old
    <3> QED BY <1>1, <1>2
  <2>2. k \in Nat /\ k > 2 /\ k \notin DOMAIN old
    BY <1>2, <1>5
  <2>3. DOMAIN s = DOMAIN old \cup {k}
    <3> HIDE DEF old, s
    <3> QED BY <1>2, <1>5, <2>1
  <2>4. \A n : ~Says(T, d, k, n)
    BY <2>2 DEF Says, Mentions
  <2> HIDE DEF S, s, k, old
  <2>5. OtherThan(old, s, k)
    BY <1>5, <2>1, <2>2, <2>3 DEF OtherThan
  <2>6. DirEnter(T, d, e) = [T EXCEPT ![d].ents = s]
    BY <1>4, <1>7 DEF s
  <2>7. OtherThan(T[d].ents, s, k)
    BY <2>5 DEF old
  <2> QED BY <1>6, <2>1, <2>2, <2>4, <2>6, <2>7
<1>8. CASE blank # {}
  <2> DEFINE k == Least(blank)
             s == [old EXCEPT ![k] = e]
  <2>1. blank \in SUBSET Nat
    BY <1>5
  <2>2. k \in blank
    <3> HIDE DEF blank
    <3> QED BY <1>8, <2>1, LeastIs
  <2>3. k \in DOMAIN old /\ old[k].inum = 0
    BY <2>2
  <2> HIDE DEF k
  <2>4. k \in Nat /\ k > 2 /\ k \notin Mentions(T, d)
    <3>1. k # 1 /\ k # 2
      BY <1>2, <1>3, <2>3
    <3>2. k \in 1 .. Len(old)
      BY <1>5, <2>3
    <3>3. k \notin Mentions(T, d)
      BY <2>3 DEF Mentions
    <3> HIDE DEF old
    <3> QED BY <1>2, <3>1, <3>2, <3>3
  <2>5. s \in Seq(S) /\ DOMAIN s = DOMAIN old /\ s[k] = e /\ \A j \in DOMAIN old : j # k => s[j] = old[j]
    <3> HIDE DEF S, old
    <3> QED BY <1>1, <2>3
  <2>6. \A n : ~Says(T, d, k, n)
    BY <2>4 DEF Says
  <2>7. OtherThan(old, s, k)
    BY <2>3, <2>4, <2>5 DEF OtherThan
  <2>8. DirEnter(T, d, e) = [T EXCEPT ![d].ents = s]
    BY <1>4, <1>8 DEF k
  <2>9. OtherThan(T[d].ents, s, k)
    BY <2>7
  <2> HIDE DEF S, s, old
  <2> QED BY <1>6, <2>4, <2>5, <2>6, <2>8, <2>9
<1> QED BY <1>7, <1>8

LEMMA NewNameIs ==
  ASSUME NEW T, TreeShape(T), NEW d \in Numbers, T[d].type = "dir", NEW name,
         DirLookup(T, d, name) = 0
  PROVE  /\ name \notin Dots
         /\ \A j \in Mentions(T, d) : T[d].ents[j].name # name
<1>1. SlotsOf(T, d, name) = {}
  BY LookupIs
<1>2. \A j \in DOMAIN T[d].ents : T[d].ents[j].inum # 0 => T[d].ents[j].name # name
  BY <1>1 DEF SlotsOf
<1>3. /\ 1 \in DOMAIN T[d].ents /\ 2 \in DOMAIN T[d].ents
      /\ T[d].ents[1] = Entry(".", d) /\ T[d].ents[2].name = ".." /\ T[d].ents[2].inum \in Numbers
  BY DirIs
<1>4. T[d].ents[1].name = "." /\ T[d].ents[1].inum = d
  BY <1>3 DEF Entry
<1>5. 0 \notin Numbers
  BY DirectoryAssumption
<1>6. name \notin Dots
  BY <1>2, <1>3, <1>4, <1>5 DEF Dots
<1>7. \A j \in Mentions(T, d) : j \in DOMAIN T[d].ents /\ T[d].ents[j].inum # 0
  BY DEF Mentions
<1> QED BY <1>2, <1>6, <1>7

Entered(T, T2, d, i) ==
  /\ TreeShape(T2)
  /\ \E k : Gains(T, T2, d, k, i)
  /\ \A n \in Numbers : T2[n].type = T[n].type /\ T2[n].nlink = T[n].nlink

LEMMA EnteredIs ==
  ASSUME NEW T, TreeShape(T), NEW d \in Numbers, T[d].type = "dir",
         NEW i \in Numbers, i # RootDir, i # d, NEW name \in EntryNames,
         DirLookup(T, d, name) = 0,
         T[i].type = "dir" => T[i].ents[2].inum = d /\ \A e, j : ~Says(T, e, j, i)
  PROVE  Entered(T, DirEnter(T, d, Entry(name, i)), d, i)
<1> DEFINE x == Entry(name, i)
           T2 == DirEnter(T, d, x)
<1>1. x \in [name : EntryNames, inum : Numbers \cup {0}] /\ x.inum = i /\ x.name = name /\ i # 0
  BY DirectoryAssumption DEF Entry
<1> HIDE DEF x
<1>2. PICK k \in Nat, s \in Ents :
           /\ OtherThan(T[d].ents, s, k) /\ s[k] = x
           /\ \A n : ~Says(T, d, k, n)
           /\ T2 = [T EXCEPT ![d].ents = s]
  BY <1>1, EnterSlot
<1> HIDE DEF T2
<1>3. /\ name \notin Dots
      /\ \A j \in Mentions(T, d) : T[d].ents[j].name # name
  BY NewNameIs
<1>4. /\ TreeShape(T2)
      /\ \A e, j, n : Says(T2, e, j, n) <=>
           IF e = d /\ j = k THEN n = s[k].inum /\ n # 0 ELSE Says(T, e, j, n)
      /\ \A n \in Numbers : T2[n].type = T[n].type /\ T2[n].nlink = T[n].nlink
  <2>1. s[k].inum = i /\ s[k].name = name
    BY <1>1, <1>2
  <2>3. /\ s[k].name \notin Dots /\ s[k].inum \notin {RootDir, d}
        /\ \A j \in Mentions(T, d) : T[d].ents[j].name # s[k].name
        /\ T[s[k].inum].type = "dir" => /\ T[s[k].inum].ents[2].inum = d
                                        /\ \A e, j : ~Says(T, e, j, s[k].inum)
    BY <1>3, <2>1
  <2>4. Fits(T, d, s, k)
    BY <1>2, <2>3 DEF Fits
  <2>5. OtherThan(T[d].ents, s, k) /\ T2 = [T EXCEPT ![d].ents = s]
    BY <1>2
  <2>6. Rewritten(T, T2, d, s, k)
    BY <2>4, <2>5, RewrittenShape
  <2> QED BY <2>6 DEF Rewritten
<1>5. Gains(T, T2, d, k, i)
  <2>1. \A e, j, n : Says(T2, e, j, n) <=> Says(T, e, j, n) \/ (e = d /\ j = k /\ n = i)
    <3>1. s[k].inum = i /\ i # 0
      BY <1>1, <1>2
    <3> QED BY <1>2, <1>4, <3>1
  <2>2. \A e, j, n : Says(T, e, j, n) => T2[n].type = T[n].type
    BY <1>4, SaysIs
  <2> QED BY <1>2, <2>1, <2>2 DEF Gains
<1>6. Entered(T, T2, d, i)
  BY <1>4, <1>5 DEF Entered
<1> QED BY <1>6 DEF T2, x

CutOut(T, T2, d, k, i) ==
  /\ TreeShape(T2) /\ Gains(T2, T, d, k, i)
  /\ \A n \in Numbers : T2[n].type = T[n].type /\ T2[n].nlink = T[n].nlink

LEMMA CutIs ==
  ASSUME NEW T, TreeShape(T), NEW d, NEW k, NEW i, Says(T, d, k, i)
  PROVE  CutOut(T, [T EXCEPT ![d].ents[k] = NoEntry], d, k, i)
<1> DEFINE T2 == [T EXCEPT ![d].ents[k] = NoEntry]
           s == [T[d].ents EXCEPT ![k] = NoEntry]
           S == [name : EntryNames, inum : Numbers \cup {0}]
<1>1. /\ d \in Numbers /\ k \in Nat /\ k > 2 /\ k \in DOMAIN T[d].ents
      /\ k \in Mentions(T, d) /\ i = T[d].ents[k].inum
      /\ T[d].type = "dir" /\ i \in Numbers /\ i # d
  BY SaysIs
<1>2. T[d].ents \in Seq(S) /\ NoEntry \in S /\ NoEntry.inum = 0
  <2>1. T[d].ents \in Seq(S)
    BY <1>1, ShapeTypes
  <2>2. NoEntry \in S /\ NoEntry.inum = 0
    <3>1. "" \in EntryNames /\ 0 \in Numbers \cup {0}
      BY DEF EntryNames
    <3>2. NoEntry.inum = 0
      BY DEF NoEntry
    <3>3. NoEntry \in S
      BY <3>1 DEF NoEntry
    <3> QED BY <3>2, <3>3
  <2> QED BY <2>1, <2>2
<1>3. /\ s \in Seq(S) /\ DOMAIN s = DOMAIN T[d].ents
      /\ s[k] = NoEntry /\ \A j \in DOMAIN T[d].ents : j # k => s[j] = T[d].ents[j]
  <2> HIDE DEF S
  <2> QED BY <1>1, <1>2
<1>4. s \in Ents
  BY <1>3 DEF Ents
<1>5. T2 = [T EXCEPT ![d].ents = s]
  OBVIOUS
<1> HIDE DEF s, T2
<1>6. OtherThan(T[d].ents, s, k)
  BY <1>1, <1>3 DEF OtherThan
<1>7. /\ TreeShape(T2)
      /\ \A e, j, n : Says(T2, e, j, n) <=>
           IF e = d /\ j = k THEN n = s[k].inum /\ n # 0 ELSE Says(T, e, j, n)
      /\ \A n \in Numbers : T2[n].type = T[n].type /\ T2[n].nlink = T[n].nlink
  <2>1. s[k].inum = 0
    BY <1>2, <1>3
  <2>2. Fits(T, d, s, k)
    BY <2>1 DEF Fits
  <2>3. d \in Numbers /\ T[d].type = "dir"
    BY <1>1
  <2>4. Rewritten(T, T2, d, s, k)
    BY <1>4, <1>5, <1>6, <2>2, <2>3, RewrittenShape
  <2> QED BY <2>4 DEF Rewritten
<1>8. Gains(T2, T, d, k, i)
  <2>1. s[k].inum = 0
    BY <1>2, <1>3
  <2>2. \A n : Says(T, d, k, n) => n = i
    BY <1>1 DEF Says
  <2>3. \A n : ~Says(T2, d, k, n)
    BY <1>7, <2>1
  <2>4. \A e, j, n : Says(T, e, j, n) <=> Says(T2, e, j, n) \/ (e = d /\ j = k /\ n = i)
    BY <1>7, <2>1, <2>2
  <2>5. \A e, j, n : Says(T2, e, j, n) => T[n].type = T2[n].type
    BY <1>7, SaysIs
  <2> QED BY <1>1, <2>3, <2>4, <2>5 DEF Gains
<1>9. CutOut(T, T2, d, k, i)
  BY <1>7, <1>8 DEF CutOut
<1> QED BY <1>9 DEF T2

-----------------------------------------------------------------------------
(* A tree with the inodes L lost in it: h counts the links half made and H *)
(* has the inodes that something refers to.                                *)
CountsLinks(T, L, h) ==
  \A i \in Numbers : /\ LinksOf(T, i) + h[i] <= T[i].nlink
                     /\ i \notin L => LinksOf(T, i) + h[i] = T[i].nlink

\* Who has a name that cannot be reached is lost, and so is the directory
\* when that is a directory's.
HidesLost(T, L) ==
  \A d, k, i : Says(T, d, k, i) /\ d \notin Reachable(T) =>
    i \in L /\ (T[i].type = "dir" => d \in L)

KeepsHeld(T, L, H) ==
  \A i \in Numbers : T[i].type # "none" /\ T[i].nlink = 0 => i \in H \cup L

TabSound(T, L, h, H) ==
  /\ TreeShape(T) /\ h \in [Numbers -> Nat]
  /\ CountsLinks(T, L, h) /\ HidesLost(T, L) /\ KeepsHeld(T, L, H)

LEMMA CountParts ==
  ASSUME NEW T, NEW L, NEW h, NEW H, TabSound(T, L, h, H), NEW i \in Numbers
  PROVE  /\ h[i] \in Nat /\ LinksOf(T, i) \in Nat /\ T[i].nlink \in Nat
         /\ LinksOf(T, i) + h[i] <= T[i].nlink
         /\ i \notin L => LinksOf(T, i) + h[i] = T[i].nlink
         /\ T[i].type = "none" => T[i].nlink = 0
         /\ T[i].nlink = 0 => LinksOf(T, i) = 0 /\ h[i] = 0
         /\ h[i] > 0 => T[i].type # "none"
<1>1. h[i] \in Nat /\ TreeShape(T)
  BY DEF TabSound
<1>2. LinksOf(T, i) \in Nat /\ T[i].nlink \in Nat /\ (T[i].type = "none" => T[i] = Missing)
  BY <1>1, TreeLinks, ShapeTypes
<1>3. /\ LinksOf(T, i) + h[i] <= T[i].nlink
      /\ i \notin L => LinksOf(T, i) + h[i] = T[i].nlink
  BY DEF TabSound, CountsLinks
<1>4. T[i].type = "none" => T[i].nlink = 0
  BY <1>2 DEF Missing
<1>5. T[i].nlink = 0 => LinksOf(T, i) = 0 /\ h[i] = 0
  BY <1>1, <1>2, <1>3
<1> QED BY <1>1, <1>2, <1>3, <1>4, <1>5

LEMMA NamedIs ==
  ASSUME NEW T, NEW L, NEW h, NEW H, TabSound(T, L, h, H),
         NEW d, NEW k, NEW i, Says(T, d, k, i)
  PROVE  T[i].type # "none" /\ T[i].nlink # 0
<1>1. TreeShape(T) /\ i \in Numbers
  BY SaysIs DEF TabSound
<1>2. LinksOf(T, i) # 0
  BY <1>1, TreeLinks
<1> QED BY <1>1, <1>2, CountParts

(* What is no longer in use need not be known as lost, and more may be.    *)
LEMMA LostMore ==
  ASSUME NEW T, NEW L, NEW h, NEW H, TabSound(T, L, h, H), NEW M, NEW H2,
         \A i \in Numbers : i \in L /\ T[i].type # "none" => i \in M,
         \A i \in Numbers : T[i].type # "none" /\ T[i].nlink = 0 /\ i \in H => i \in H2 \cup M
  PROVE  TabSound(T, M, h, H2)
<1>1. TreeShape(T) /\ h \in [Numbers -> Nat]
  BY DEF TabSound
<1>2. CountsLinks(T, M, h)
  <2>1. ASSUME NEW i \in Numbers
        PROVE  /\ LinksOf(T, i) + h[i] <= T[i].nlink
               /\ i \notin M => LinksOf(T, i) + h[i] = T[i].nlink
    <3>1. /\ LinksOf(T, i) + h[i] <= T[i].nlink
          /\ i \notin L => LinksOf(T, i) + h[i] = T[i].nlink
          /\ T[i].type = "none" => T[i].nlink = 0
          /\ T[i].nlink = 0 => LinksOf(T, i) = 0 /\ h[i] = 0
      BY CountParts
    <3> QED BY <3>1
  <2> QED BY <2>1 DEF CountsLinks
<1>3. HidesLost(T, M)
  <2>1. ASSUME NEW d, NEW k, NEW i, Says(T, d, k, i), d \notin Reachable(T)
        PROVE  i \in M /\ (T[i].type = "dir" => d \in M)
    <3>1. i \in L /\ (T[i].type = "dir" => d \in L)
      BY <2>1 DEF TabSound, HidesLost
    <3>2. i \in Numbers /\ d \in Numbers /\ T[d].type = "dir"
      BY <1>1, <2>1, SaysIs
    <3>3. T[i].type # "none"
      BY <2>1, NamedIs
    <3> QED BY <3>1, <3>2, <3>3
  <2> QED BY <2>1 DEF HidesLost
<1>4. KeepsHeld(T, M, H2)
  BY DEF TabSound, KeepsHeld
<1> QED BY <1>1, <1>2, <1>3, <1>4 DEF TabSound

(* A count and the links half made change together.                        *)
LEMMA RelinkSound ==
  ASSUME NEW T, NEW L, NEW h, NEW H, TabSound(T, L, h, H),
         NEW T2, NEW i \in Numbers, NEW v \in Nat, Relinked(T, T2, i, v),
         NEW h2 \in [Numbers -> Nat], \A n \in Numbers \ {i} : h2[n] = h[n],
         v + h[i] = T[i].nlink + h2[i]
  PROVE  TabSound(T2, L, h2, H \cup {i})
<1>1. /\ TreeShape(T) /\ TreeShape(T2) /\ SameTree(T, T2)
      /\ \A n \in Numbers : /\ T2[n].type = T[n].type
                            /\ T2[n].nlink = IF n = i THEN v ELSE T[n].nlink
  BY DEF TabSound, Relinked
<1>2. Reachable(T2) = Reachable(T) /\ \A n \in Numbers : LinksOf(T2, n) = LinksOf(T, n)
  BY <1>1, SameLinks
<1>3. CountsLinks(T2, L, h2)
  <2>1. ASSUME NEW n \in Numbers
        PROVE  /\ LinksOf(T2, n) + h2[n] <= T2[n].nlink
               /\ n \notin L => LinksOf(T2, n) + h2[n] = T2[n].nlink
    <3>1. /\ h[n] \in Nat /\ LinksOf(T, n) \in Nat /\ T[n].nlink \in Nat
          /\ LinksOf(T, n) + h[n] <= T[n].nlink
          /\ n \notin L => LinksOf(T, n) + h[n] = T[n].nlink
      BY CountParts
    <3>2. h2[n] \in Nat
      OBVIOUS
    <3>3. LinksOf(T2, n) = LinksOf(T, n)
      BY <1>2
    <3>4. CASE n = i
      <4>1. T2[n].nlink = v
        BY <1>1, <3>4
      <4> QED BY <3>1, <3>2, <3>3, <3>4, <4>1
    <3>5. CASE n # i
      <4>1. T2[n].nlink = T[n].nlink /\ h2[n] = h[n]
        BY <1>1, <3>5
      <4> QED BY <3>1, <3>3, <4>1
    <3> QED BY <3>4, <3>5
  <2> QED BY <2>1 DEF CountsLinks
<1>4. HidesLost(T2, L)
  <2>1. ASSUME NEW d, NEW k, NEW n, Says(T2, d, k, n), d \notin Reachable(T2)
        PROVE  n \in L /\ (T2[n].type = "dir" => d \in L)
    <3>1. Says(T, d, k, n) /\ T2[n].type = T[n].type
      BY <1>1, <2>1 DEF SameTree
    <3> QED BY <1>2, <2>1, <3>1 DEF TabSound, HidesLost
  <2> QED BY <2>1 DEF HidesLost
<1>5. KeepsHeld(T2, L, H \cup {i})
  BY <1>1 DEF TabSound, KeepsHeld
<1> QED BY <1>1, <1>3, <1>4, <1>5 DEF TabSound

\* Who is referred to stays what it is.
Stays(T, T2, H) == \A n \in H : T[n].type # "none" => T2[n].type = T[n].type

(* An inode that nobody names or refers to is freed.                       *)
Freed(T, T2, i) ==
  /\ TreeShape(T2) /\ T2[i] = Missing /\ \A n \in Numbers \ {i} : T2[n] = T[n]
  /\ \A d, k, n : Says(T2, d, k, n) <=> Says(T, d, k, n) /\ d # i
  /\ Reachable(T2) = Reachable(T) /\ i \notin Reachable(T)
  /\ \A n \in Numbers \ {i} :
       /\ LinksOf(T2, n) <= LinksOf(T, n)
       /\ (\A k : ~Says(T, i, k, n)) => LinksOf(T2, n) = LinksOf(T, n)
  /\ LinksOf(T2, i) = 0

LEMMA FreedLinks ==
  ASSUME NEW T, TreeShape(T), NEW i \in Numbers, i # RootDir,
         NEW T2, Replaced(T, T2, i, Missing), \A d, k : ~Says(T, d, k, i)
  PROVE  Freed(T, T2, i)
<1>1. /\ TreeShape(T2) /\ T2[i] = Missing /\ \A n \in Numbers \ {i} : T2[n] = T[n]
      /\ \A d, k, n : Says(T2, d, k, n) <=> Says(T, d, k, n) /\ d # i
  BY DEF Replaced
<1>2. i \notin Reachable(T) /\ i \notin Reachable(T2)
  BY <1>1, ReachFrom
<1>3. Reachable(T2) \subseteq Reachable(T)
  BY <1>1, ReachMore
<1>4. Reachable(T) \subseteq Reachable(T2)
  <2>1. /\ Reachable(T2) \in SUBSET Numbers /\ RootDir \in Reachable(T2)
        /\ \A d, k, n : d \in Reachable(T2) /\ Says(T2, d, k, n) => n \in Reachable(T2)
    BY <1>1, ReachIs
  <2>2. \A d, k, n : d \in Reachable(T2) /\ Says(T, d, k, n) => n \in Reachable(T2)
    BY <1>1, <1>2, <2>1
  <2> QED BY <2>1, <2>2, ReachIs
<1>5. ASSUME NEW n \in Numbers \ {i}
      PROVE  /\ LinksOf(T2, n) <= LinksOf(T, n)
             /\ (\A k : ~Says(T, i, k, n)) => LinksOf(T2, n) = LinksOf(T, n)
  <2>1. /\ IsFiniteSet(EntriesOf(T, n)) /\ Cardinality(EntriesOf(T, n)) \in Nat
        /\ \A x \in EntriesOf(T, n) : \E d \in Numbers, k \in Nat : x = <<d, k>>
        /\ \A d, k : <<d, k>> \in EntriesOf(T, n) <=> Says(T, d, k, n)
    BY EntriesAre
  <2>2. /\ Cardinality(EntriesOf(T2, n)) \in Nat
        /\ \A x \in EntriesOf(T2, n) : \E d \in Numbers, k \in Nat : x = <<d, k>>
        /\ \A d, k : <<d, k>> \in EntriesOf(T2, n) <=> Says(T2, d, k, n)
    <3>1. TreeShape(T2)
      BY <1>1
    <3> QED BY <3>1, EntriesAre
  <2>3. EntriesOf(T2, n) \subseteq EntriesOf(T, n)
    <3>1. ASSUME NEW x \in EntriesOf(T2, n) PROVE x \in EntriesOf(T, n)
      <4>1. PICK d \in Numbers, k \in Nat : x = <<d, k>>
        BY <2>2
      <4> QED BY <1>1, <2>1, <2>2, <4>1
    <3> QED BY <3>1
  <2>4. (\A k : ~Says(T, i, k, n)) => EntriesOf(T2, n) = EntriesOf(T, n)
    <3>1. SUFFICES ASSUME \A k : ~Says(T, i, k, n), NEW x \in EntriesOf(T, n)
                   PROVE  x \in EntriesOf(T2, n)
      BY <2>3
    <3>2. PICK d \in Numbers, k \in Nat : x = <<d, k>>
      BY <2>1
    <3>3. Says(T, d, k, n) /\ d # i
      BY <2>1, <3>1, <3>2
    <3> QED BY <1>1, <2>2, <3>2, <3>3
  <2>5. Cardinality(EntriesOf(T2, n)) <= Cardinality(EntriesOf(T, n))
    BY <2>1, <2>3, FS_Subset
  <2>6. SubDirs(T2, n) = SubDirs(T, n)
    <3>1. \A k : k \in SubDirs(T, n) <=> \E m : Says(T, n, k, m) /\ T[m].type = "dir"
      BY SubDirsAre
    <3>2. \A k : k \in SubDirs(T2, n) <=> \E m : Says(T2, n, k, m) /\ T2[m].type = "dir"
      BY <1>1, SubDirsAre
    <3>3. \A k, m : Says(T, n, k, m) => m \in Numbers \ {i}
      BY SaysIs
    <3>4. ASSUME NEW k, NEW m
          PROVE  Says(T2, n, k, m) /\ T2[m].type = "dir" <=> Says(T, n, k, m) /\ T[m].type = "dir"
      <4>1. Says(T2, n, k, m) <=> Says(T, n, k, m)
        BY <1>1
      <4>2. Says(T, n, k, m) => T2[m] = T[m]
        BY <1>1, <3>3
      <4> QED BY <4>1, <4>2
    <3>5. \A k : k \in SubDirs(T, n) <=> k \in SubDirs(T2, n)
      BY <3>1, <3>2, <3>4
    <3> QED BY <3>5
  <2>7. /\ Cardinality(SubDirs(T, n)) \in Nat /\ One(n = RootDir) \in Nat
        /\ LinksOf(T, n) = One(n = RootDir) + Cardinality(EntriesOf(T, n)) + Cardinality(SubDirs(T, n))
        /\ LinksOf(T2, n) = One(n = RootDir) + Cardinality(EntriesOf(T2, n)) + Cardinality(SubDirs(T2, n))
    <3>1. Cardinality(SubDirs(T, n)) \in Nat /\ One(n = RootDir) \in Nat
      BY SubDirsAre DEF One
    <3>2. LinksOf(T, n) = One(n = RootDir) + Cardinality(EntriesOf(T, n)) + Cardinality(SubDirs(T, n))
      BY TreeLinks
    <3>3. LinksOf(T2, n) = One(n = RootDir) + Cardinality(EntriesOf(T2, n)) + Cardinality(SubDirs(T2, n))
      BY <1>1, TreeLinks
    <3> QED BY <3>1, <3>2, <3>3
  <2> QED BY <2>1, <2>2, <2>4, <2>5, <2>6, <2>7
<1>6. LinksOf(T2, i) = 0
  <2>1. EntriesOf(T2, i) = {}
    <3>1. ASSUME NEW x \in EntriesOf(T2, i) PROVE FALSE
      <4>0. TreeShape(T2)
        BY <1>1
      <4>1. PICK d \in Numbers, k \in Nat : x = <<d, k>>
        BY <4>0, EntriesAre
      <4>2. Says(T2, d, k, i)
        BY <1>1, <4>1, EntriesAre
      <4> QED BY <1>1, <4>2
    <3> QED BY <3>1
  <2>2. SubDirs(T2, i) = {}
    BY <1>1, SubDirsAre
  <2>3. LinksOf(T2, i) = One(i = RootDir) + Cardinality(EntriesOf(T2, i)) + Cardinality(SubDirs(T2, i))
    BY <1>1, TreeLinks
  <2>4. Cardinality(EntriesOf(T2, i)) = 0 /\ Cardinality(SubDirs(T2, i)) = 0
    BY <2>1, <2>2, FS_EmptySet
  <2>5. One(i = RootDir) = 0
    BY DEF One
  <2> QED BY <2>3, <2>4, <2>5
<1> QED BY <1>1, <1>2, <1>3, <1>4, <1>5, <1>6 DEF Freed

LEMMA FreeSound ==
  ASSUME NEW T, NEW L, NEW h, NEW H \in SUBSET Numbers, NEW i \in Numbers,
         TabSound(T, L, h, H \cup {i}),
         T[i].nlink = 0, i \notin H,
         NEW T2, T2 = [T EXCEPT ![i] = Missing]
  PROVE  TabSound(T2, L, h, H) /\ Stays(T, T2, H)
<1>1. /\ LinksOf(T, i) = 0 /\ h[i] = 0
      /\ TreeShape(T) /\ h \in [Numbers -> Nat]
  BY CountParts DEF TabSound
<1>2. i # RootDir /\ \A d, k : ~Says(T, d, k, i)
  BY <1>1, TreeLinks
<1>3. /\ TreeShape(T2) /\ T2[i] = Missing /\ \A n \in Numbers \ {i} : T2[n] = T[n]
      /\ \A d, k, n : Says(T2, d, k, n) <=> Says(T, d, k, n) /\ d # i
      /\ Reachable(T2) = Reachable(T) /\ i \notin Reachable(T)
      /\ \A n \in Numbers \ {i} :
           /\ LinksOf(T2, n) <= LinksOf(T, n)
           /\ (\A k : ~Says(T, i, k, n)) => LinksOf(T2, n) = LinksOf(T, n)
      /\ LinksOf(T2, i) = 0
  <2>1. Missing \in Inodes /\ Missing.type = "none" /\ Missing.ents = <<>>
    BY DEF Missing, Inodes
  <2>2. Replaced(T, T2, i, Missing)
    BY <1>1, <1>2, <2>1, ReplacedShape
  <2>3. Freed(T, T2, i)
    BY <1>1, <1>2, <2>2, FreedLinks
  <2> QED BY <2>3 DEF Freed
<1>4. CountsLinks(T2, L, h)
  <2>1. ASSUME NEW n \in Numbers
        PROVE  /\ LinksOf(T2, n) + h[n] <= T2[n].nlink
               /\ n \notin L => LinksOf(T2, n) + h[n] = T2[n].nlink
    <3>1. CASE n = i
      BY <1>1, <1>3, <3>1 DEF Missing
    <3>2. CASE n # i
      <4>1. /\ h[n] \in Nat /\ LinksOf(T, n) \in Nat /\ T[n].nlink \in Nat
            /\ LinksOf(T, n) + h[n] <= T[n].nlink
            /\ n \notin L => LinksOf(T, n) + h[n] = T[n].nlink
        BY CountParts
      <4>2. LinksOf(T2, n) \in Nat /\ LinksOf(T2, n) <= LinksOf(T, n) /\ T2[n].nlink = T[n].nlink
        BY <1>3, <3>2, TreeLinks
      <4>3. n \notin L => LinksOf(T2, n) = LinksOf(T, n)
        <5>1. \A k : Says(T, i, k, n) => n \in L
          BY <1>3 DEF TabSound, HidesLost
        <5> QED BY <1>3, <3>2, <5>1
      <4> QED BY <4>1, <4>2, <4>3
    <3> QED BY <3>1, <3>2
  <2> QED BY <2>1 DEF CountsLinks
<1>5. HidesLost(T2, L)
  <2>1. ASSUME NEW d, NEW k, NEW n, Says(T2, d, k, n), d \notin Reachable(T2)
        PROVE  n \in L /\ (T2[n].type = "dir" => d \in L)
    <3>1. Says(T, d, k, n) /\ n \in Numbers
      BY <1>3, <2>1, SaysIs
    <3>2. T2[n].type = "dir" => T[n].type = "dir"
      BY <1>2, <1>3, <3>1
    <3> QED BY <1>3, <2>1, <3>1, <3>2 DEF TabSound, HidesLost
  <2> QED BY <2>1 DEF HidesLost
<1>6. KeepsHeld(T2, L, H)
  <2>1. ASSUME NEW n \in Numbers, T2[n].type # "none", T2[n].nlink = 0
        PROVE  n \in H \cup L
    <3>1. n # i
      BY <1>3, <2>1 DEF Missing
    <3>2. T[n].type # "none" /\ T[n].nlink = 0
      BY <1>3, <2>1, <3>1
    <3>3. n \in H \cup {i} \cup L
      BY <3>2 DEF TabSound, KeepsHeld
    <3> QED BY <3>1, <3>3
  <2> QED BY <2>1 DEF KeepsHeld
<1>7. Stays(T, T2, H)
  BY <1>3 DEF Stays
<1> QED BY <1>1, <1>3, <1>4, <1>5, <1>6, <1>7 DEF TabSound

LEMMA IputSound ==
  ASSUME NEW T, NEW L, NEW h, NEW H \in SUBSET Numbers, NEW i \in Numbers,
         TabSound(T, L, h, H \cup {i}),
         NEW others, others = 0 <=> i \notin H
  PROVE  TabSound(Iput(T, i, others), L, h, H) /\ Stays(T, Iput(T, i, others), H)
<1>1. CASE others = 0 /\ T[i].nlink = 0
  <2>1. Iput(T, i, others) = [T EXCEPT ![i] = Missing]
    BY <1>1 DEF Iput
  <2> QED BY <1>1, <2>1, FreeSound
<1>2. CASE ~(others = 0 /\ T[i].nlink = 0)
  <2>1. Iput(T, i, others) = T
    BY <1>2 DEF Iput
  <2>2. \A n \in Numbers : T[n].type # "none" /\ T[n].nlink = 0 /\ n \in H \cup {i} => n \in H \cup L
    BY <1>2
  <2>3. TabSound(T, L, h, H)
    BY <2>2, LostMore
  <2> QED BY <2>1, <2>3 DEF Stays
<1> QED BY <1>1, <1>2

\* The tables and the counts that the steps take the lemmas to.
Upped(T, T2, i) == T2 = [T EXCEPT ![i].nlink = T[i].nlink + 1]
Downed(T, T2, i) == T2 = [T EXCEPT ![i].nlink = T[i].nlink - 1]
OneMore(h, h2, i) ==
  /\ h \in [Numbers -> Nat] /\ h2 \in [Numbers -> Nat]
  /\ h2[i] = h[i] + 1 /\ \A n \in Numbers \ {i} : h2[n] = h[n]

SameTypes(T, T2) == \A n \in Numbers : T2[n].type = T[n].type

(* A count is taken back, or made.                                         *)
LEMMA LessNow ==
  ASSUME NEW T, NEW L, NEW h, NEW H, TabSound(T, L, h, H), NEW i \in Numbers, i \in H,
         NEW h2, OneMore(h2, h, i), NEW T2, Downed(T, T2, i)
  PROVE  TabSound(T2, L, h2, H) /\ SameTypes(T, T2)
<1>0. /\ h2 \in [Numbers -> Nat] /\ h2[i] \in Nat /\ h[i] = h2[i] + 1
      /\ \A n \in Numbers \ {i} : h2[n] = h[n]
  BY DEF OneMore
<1>1. /\ h[i] \in Nat /\ LinksOf(T, i) \in Nat /\ T[i].nlink \in Nat
      /\ LinksOf(T, i) + h[i] <= T[i].nlink /\ (h[i] > 0 => T[i].type # "none")
  BY CountParts
<1>2. PICK v : v = T[i].nlink - 1
  OBVIOUS
<1>3. v \in Nat /\ v + h[i] = T[i].nlink + h2[i] /\ T[i].type # "none"
  BY <1>0, <1>1, <1>2
<1>4. TreeShape(T) /\ T2 = [T EXCEPT ![i].nlink = v]
  BY <1>2 DEF TabSound, Downed
<1>5. Relinked(T, T2, i, v)
  <2>1. Relinked(T, [T EXCEPT ![i].nlink = v], i, v)
    BY <1>3, <1>4, RelinkedIs
  <2> QED BY <1>4, <2>1
<1>6. H \cup {i} = H
  OBVIOUS
<1>7. TabSound(T2, L, h2, H \cup {i})
  BY <1>0, <1>3, <1>5, RelinkSound
<1> QED BY <1>5, <1>6, <1>7 DEF Relinked, SameTypes

LEMMA MoreNow ==
  ASSUME NEW T, NEW L, NEW h, NEW H, TabSound(T, L, h, H), NEW i \in Numbers, i \in H,
         T[i].type # "none",
         NEW h2, OneMore(h, h2, i), NEW T2, Upped(T, T2, i)
  PROVE  TabSound(T2, L, h2, H) /\ SameTypes(T, T2)
<1>0. /\ h2 \in [Numbers -> Nat] /\ h2[i] = h[i] + 1 /\ \A n \in Numbers \ {i} : h2[n] = h[n]
  BY DEF OneMore
<1>1. h[i] \in Nat /\ T[i].nlink \in Nat
  BY CountParts
<1>2. PICK v : v = T[i].nlink + 1
  OBVIOUS
<1>3. v \in Nat /\ v + h[i] = T[i].nlink + h2[i]
  BY <1>0, <1>1, <1>2
<1>4. TreeShape(T) /\ T2 = [T EXCEPT ![i].nlink = v]
  BY <1>2 DEF TabSound, Upped
<1>5. Relinked(T, T2, i, v)
  <2>1. Relinked(T, [T EXCEPT ![i].nlink = v], i, v)
    BY <1>3, <1>4, RelinkedIs
  <2> QED BY <1>4, <2>1
<1>6. H \cup {i} = H
  OBVIOUS
<1>7. TabSound(T2, L, h2, H \cup {i})
  BY <1>0, <1>3, <1>5, RelinkSound
<1> QED BY <1>5, <1>6, <1>7 DEF Relinked, SameTypes

(* A link half made gets its name.                                         *)
LEMMA EnterSound ==
  ASSUME NEW T, NEW L, NEW h, NEW H, TabSound(T, L, h, H),
         NEW d \in Numbers, T[d].type = "dir",
         NEW i \in Numbers, T[i].type # "dir", h[i] > 0,
         NEW name \in EntryNames, DirLookup(T, d, name) = 0,
         NEW h2 \in [Numbers -> Nat], h2[i] = h[i] - 1, \A n \in Numbers \ {i} : h2[n] = h[n],
         NEW M, L \subseteq M, d \notin Reachable(T) => i \in M,
         NEW T2, T2 = DirEnter(T, d, Entry(name, i))
  PROVE  TabSound(T2, M, h2, H) /\ \A n \in Numbers : T2[n].type = T[n].type
<1>1. TreeShape(T)
  BY DEF TabSound
<1>2. i # RootDir /\ i # d
  BY <1>1 DEF TreeShape
<1>3. Entered(T, T2, d, i)
  BY <1>1, <1>2, EnteredIs
<1>4. PICK k : Gains(T, T2, d, k, i)
  BY <1>3 DEF Entered
<1>5. /\ TreeShape(T2)
      /\ \A n \in Numbers : T2[n].type = T[n].type /\ T2[n].nlink = T[n].nlink
  BY <1>3 DEF Entered
<1>6. \A j, n : ~Says(T, i, j, n)
  BY <1>1, SaysIs
<1>7. Reachable(T2) = IF d \in Reachable(T) THEN Reachable(T) \cup {i} ELSE Reachable(T)
  BY <1>1, <1>4, <1>5, <1>6, ReachGained
<1>8. CountsLinks(T2, M, h2)
  <2>1. ASSUME NEW n \in Numbers
        PROVE  /\ LinksOf(T2, n) + h2[n] <= T2[n].nlink
               /\ n \notin M => LinksOf(T2, n) + h2[n] = T2[n].nlink
    <3>1. /\ h[n] \in Nat /\ LinksOf(T, n) \in Nat /\ T[n].nlink \in Nat
          /\ LinksOf(T, n) + h[n] <= T[n].nlink
          /\ n \notin L => LinksOf(T, n) + h[n] = T[n].nlink
      BY CountParts
    <3>2. LinksOf(T2, n) = LinksOf(T, n) + One(n = i) + One(n = d /\ T2[i].type = "dir")
      BY <1>1, <1>4, <1>5, LinksGained
    <3>3. LinksOf(T2, n) = LinksOf(T, n) + One(n = i)
      <4>1. One(n = d /\ T2[i].type = "dir") = 0 /\ One(n = i) \in Nat
        BY <1>5 DEF One
      <4> QED BY <3>1, <3>2, <4>1
    <3>4. LinksOf(T2, n) + h2[n] = LinksOf(T, n) + h[n]
      <4>1. h[i] \in Nat
        BY CountParts
      <4>2. CASE n = i
        BY <3>1, <3>3, <4>1, <4>2 DEF One
      <4>3. CASE n # i
        BY <3>1, <3>3, <4>3 DEF One
      <4> QED BY <4>2, <4>3
    <3>5. T2[n].nlink = T[n].nlink
      BY <1>5
    <3> QED BY <3>1, <3>4, <3>5
  <2> QED BY <2>1 DEF CountsLinks
<1>9. HidesLost(T2, M)
  <2>1. ASSUME NEW e, NEW j, NEW n, Says(T2, e, j, n), e \notin Reachable(T2)
        PROVE  n \in M /\ (T2[n].type = "dir" => e \in M)
    <3>1. e \notin Reachable(T)
      BY <1>7, <2>1
    <3>2. Says(T, e, j, n) \/ (e = d /\ j = k /\ n = i)
      BY <1>4, <2>1 DEF Gains
    <3>3. CASE Says(T, e, j, n)
      <4>1. n \in L /\ (T[n].type = "dir" => e \in L) /\ n \in Numbers
        BY <1>1, <3>1, <3>3, SaysIs DEF TabSound, HidesLost
      <4> QED BY <1>5, <4>1
    <3>4. CASE e = d /\ n = i
      BY <1>5, <3>1, <3>4
    <3> QED BY <3>2, <3>3, <3>4
  <2> QED BY <2>1 DEF HidesLost
<1>10. KeepsHeld(T2, M, H)
  BY <1>5 DEF TabSound, KeepsHeld
<1> QED BY <1>5, <1>8, <1>9, <1>10 DEF TabSound

(* create.                                                                 *)
LEMMA LookupSame ==
  ASSUME NEW T, NEW T2, NEW d, NEW name, T2[d].ents = T[d].ents
  PROVE  DirLookup(T2, d, name) = DirLookup(T, d, name)
BY DEF DirLookup, SlotsOf

Made(T, T2, dp, i, type) ==
  /\ TreeShape(T2) /\ i # dp /\ i # RootDir
  /\ Reachable(T2) = IF dp \in Reachable(T) THEN Reachable(T) \cup {i} ELSE Reachable(T)
  /\ \E k : \A e, j, n : Says(T2, e, j, n) <=> Says(T, e, j, n) \/ (e = dp /\ j = k /\ n = i)
  /\ T2[i].type = type /\ T2[i].nlink = 1 /\ LinksOf(T2, i) = 1
  /\ \A n \in Numbers \ {i} :
       /\ T2[n].type = T[n].type
       /\ T2[n].nlink = T[n].nlink + One(n = dp /\ type = "dir")
       /\ LinksOf(T2, n) = LinksOf(T, n) + One(n = dp /\ type = "dir")

LEMMA MadeTree ==
  ASSUME NEW T, TreeShape(T), NEW dp \in Numbers, T[dp].type = "dir",
         NEW i \in Numbers, T[i].type = "none", LinksOf(T, i) = 0,
         NEW name \in EntryNames, DirLookup(T, dp, name) = 0,
         NEW type \in {"file", "dir", "dev"}
  PROVE  Made(T, Make(T, dp, name, i, type), dp, i, type)
<1> DEFINE new == [type |-> type, nlink |-> 1,
                   ents |-> IF type = "dir" THEN DotEntries(i, dp) ELSE <<>>]
           T1 == [T EXCEPT ![i] = new]
           T1b == IF type = "dir" THEN [T1 EXCEPT ![dp].nlink = @ + 1] ELSE T1
           T2 == DirEnter(T1b, dp, Entry(name, i))
<1>1. Make(T, dp, name, i, type) = T2
  BY DEF Make
<1>2. i # dp /\ i # RootDir /\ \A d, k : ~Says(T, d, k, i)
  BY TreeLinks
<1>3. new \in Inodes /\ new.type = type /\ new.nlink = 1
      /\ new.ents = IF type = "dir" THEN DotEntries(i, dp) ELSE <<>>
  <2>1. DotEntries(i, dp) \in Ents /\ <<>> \in Ents
    <3> DEFINE S == [name : EntryNames, inum : Numbers \cup {0}]
    <3>1. Entry(".", i) \in S /\ Entry("..", dp) \in S
      BY DEF Entry, EntryNames, Dots
    <3> HIDE DEF S
    <3>2. DotEntries(i, dp) \in Seq(S) /\ <<>> \in Seq(S)
      BY <3>1 DEF DotEntries
    <3> QED BY <3>2 DEF Ents, S
  <2> DEFINE en == IF type = "dir" THEN DotEntries(i, dp) ELSE <<>>
  <2>2. en \in Ents
    BY <2>1
  <2> HIDE DEF en
  <2>3. [type |-> type, nlink |-> 1, ents |-> en] \in [type : {"none", "file", "dir", "dev"}, nlink : Nat, ents : Ents]
    BY <2>2
  <2>4. new \in Inodes
    BY <2>3 DEF en, Inodes, Ents
  <2> QED BY <2>4
<1>4. Replaced(T, T1, i, new)
  <2> HIDE DEF new
  <2> QED BY <1>2, <1>3, ReplacedShape
<1> HIDE DEF new, T1
<1>5. /\ TreeShape(T1) /\ T1[i] = new /\ \A n \in Numbers \ {i} : T1[n] = T[n]
      /\ \A d, k, n : Says(T1, d, k, n) <=> Says(T, d, k, n) /\ d # i
  BY <1>4 DEF Replaced
<1>6. SameTree(T, T1)
  <2>1. \A j, n : ~Says(T, i, j, n)
    BY SaysIs
  <2>2. \A d, k, n : Says(T, d, k, n) => n \in Numbers /\ n # i
    BY <1>2, SaysIs
  <2> QED BY <1>5, <2>1, <2>2 DEF SameTree
<1>7. /\ TreeShape(T1b) /\ SameTree(T1, T1b)
      /\ \A n \in Numbers : /\ T1b[n].type = T1[n].type /\ T1b[n].ents = T1[n].ents
                            /\ T1b[n].nlink = T1[n].nlink + One(n = dp /\ type = "dir")
  <2>0. \A n \in Numbers : T1[n].nlink \in Nat
    BY <1>5, ShapeTypes
  <2>1. CASE type = "dir"
    <3>1. PICK v : v = T1[dp].nlink + 1
      OBVIOUS
    <3>2. v \in Nat /\ T1[dp].type # "none"
      BY <1>2, <1>5, <2>0, <3>1
    <3>3. T1b = [T1 EXCEPT ![dp].nlink = v]
      BY <2>1, <3>1
    <3>4. Relinked(T1, T1b, dp, v)
      <4> HIDE DEF T1b
      <4> QED BY <1>5, <3>2, <3>3, RelinkedIs
    <3>5. \A n \in Numbers : T1b[n].ents = T1[n].ents
      <4>1. T1 \in [Numbers -> Inodes]
        BY <1>5 DEF TreeShape
      <4> HIDE DEF T1b
      <4> QED BY <3>3, <4>1
    <3>6. \A n \in Numbers : T1b[n].nlink = T1[n].nlink + One(n = dp /\ type = "dir")
      <4> HIDE DEF T1b
      <4> QED BY <2>0, <2>1, <3>1, <3>4 DEF Relinked, One
    <3> HIDE DEF T1b
    <3> QED BY <3>4, <3>5, <3>6 DEF Relinked
  <2>2. CASE type # "dir"
    <3>1. T1b = T1
      BY <2>2
    <3> HIDE DEF T1b
    <3>2. SameTree(T1, T1b)
      BY <3>1 DEF SameTree
    <3> QED BY <1>5, <2>0, <2>2, <3>1, <3>2 DEF One
  <2> QED BY <2>1, <2>2
<1> HIDE DEF T1b
<1>8. SameTree(T, T1b)
  BY <1>6, <1>7 DEF SameTree
<1>9. Reachable(T1b) = Reachable(T) /\ \A n \in Numbers : LinksOf(T1b, n) = LinksOf(T, n)
  BY <1>7, <1>8, SameLinks
<1>10. Entered(T1b, T2, dp, i)
  <2>1. T1b[dp].type = "dir" /\ T1b[dp].ents = T[dp].ents
    BY <1>2, <1>5, <1>7
  <2>2. DirLookup(T1b, dp, name) = 0
    BY <2>1, LookupSame
  <2>3. T1b[i].type = "dir" => T1b[i].ents[2].inum = dp
    <3>1. T1b[i].type = type /\ T1b[i].ents = new.ents
      BY <1>3, <1>5, <1>7
    <3>2. DotEntries(i, dp)[2].inum = dp
      BY DEF DotEntries, Entry
    <3> QED BY <1>3, <3>1, <3>2
  <2>4. \A e, j : ~Says(T1b, e, j, i)
    BY <1>2, <1>8 DEF SameTree
  <2> QED BY <1>2, <1>7, <2>1, <2>2, <2>3, <2>4, EnteredIs
<1> HIDE DEF T2
<1>11. PICK k : Gains(T1b, T2, dp, k, i)
  BY <1>10 DEF Entered
<1>12. /\ TreeShape(T2)
       /\ \A n \in Numbers : T2[n].type = T1b[n].type /\ T2[n].nlink = T1b[n].nlink
  BY <1>10 DEF Entered
<1>13. \A j, n : ~Says(T1b, i, j, n)
  <2>1. \A j, n : ~Says(T, i, j, n)
    BY SaysIs
  <2> QED BY <1>8, <2>1 DEF SameTree
<1>14. Reachable(T2) = IF dp \in Reachable(T) THEN Reachable(T) \cup {i} ELSE Reachable(T)
  BY <1>7, <1>9, <1>11, <1>12, <1>13, ReachGained
<1>15. \A e, j, n : Says(T2, e, j, n) <=> Says(T, e, j, n) \/ (e = dp /\ j = k /\ n = i)
  BY <1>8, <1>11 DEF Gains, SameTree
<1>16. T2[i].type = type /\ T2[i].nlink = 1
  <2>1. One(i = dp /\ type = "dir") = 0
    BY <1>2 DEF One
  <2> QED BY <1>3, <1>5, <1>7, <1>12, <2>1
<1>17. \A n \in Numbers :
         LinksOf(T2, n) = LinksOf(T, n) + One(n = i) + One(n = dp /\ type = "dir")
  BY <1>7, <1>9, <1>11, <1>12, <1>16, LinksGained
<1>18. LinksOf(T2, i) = 1
  <2>1. One(i = i) = 1 /\ One(i = dp /\ type = "dir") = 0
    BY <1>2 DEF One
  <2> QED BY <1>17, <2>1
<1>19. ASSUME NEW n \in Numbers \ {i}
       PROVE  /\ T2[n].type = T[n].type
              /\ T2[n].nlink = T[n].nlink + One(n = dp /\ type = "dir")
              /\ LinksOf(T2, n) = LinksOf(T, n) + One(n = dp /\ type = "dir")
  <2>1. One(n = i) = 0 /\ LinksOf(T, n) \in Nat
    BY <1>19, TreeLinks DEF One
  <2>2. LinksOf(T2, n) = LinksOf(T, n) + One(n = i) + One(n = dp /\ type = "dir")
    BY <1>17
  <2> QED BY <1>5, <1>7, <1>12, <1>19, <2>1, <2>2
<1>20. Made(T, T2, dp, i, type)
  <2>1. \E l : \A e, j, n : Says(T2, e, j, n) <=> Says(T, e, j, n) \/ (e = dp /\ j = l /\ n = i)
    BY <1>15
  <2> QED BY <1>2, <1>12, <1>14, <1>16, <1>18, <1>19, <2>1 DEF Made
<1> QED BY <1>1, <1>20

\* M has the lost inodes L, and what is made in a directory without a name.
Notes(T, L, M, d, i, type) ==
  /\ L \subseteq M
  /\ d \notin Reachable(T) => i \in M /\ (type = "dir" => d \in M)

Kinds == {"file", "dir", "dev"}

LEMMA MakeSound ==
  ASSUME NEW T, NEW L, NEW h, NEW H, TabSound(T, L, h, H),
         NEW dp \in Numbers, T[dp].type = "dir",
         NEW i \in Numbers, T[i].type = "none",
         NEW name \in EntryNames, DirLookup(T, dp, name) = 0,
         NEW type \in Kinds, NEW M, Notes(T, L, M, dp, i, type),
         NEW T2, T2 = Make(T, dp, name, i, type)
  PROVE  /\ TabSound(T2, M, h, H)
         /\ i # dp /\ T2[i].type = type /\ T2[i].nlink = 1
         /\ \A n \in Numbers \ {i} : T2[n].type = T[n].type
<1>0. /\ type \in {"file", "dir", "dev"} /\ L \subseteq M
      /\ dp \notin Reachable(T) => i \in M /\ (type = "dir" => dp \in M)
  BY DEF Notes, Kinds
<1>1. TreeShape(T) /\ h \in [Numbers -> Nat]
  BY <1>0 DEF TabSound
<1>2. LinksOf(T, i) = 0 /\ h[i] = 0
  BY CountParts
<1>3. Made(T, T2, dp, i, type)
  BY <1>0, <1>1, <1>2, MadeTree
<1>4. /\ TreeShape(T2) /\ i # dp /\ i # RootDir
      /\ Reachable(T2) = IF dp \in Reachable(T) THEN Reachable(T) \cup {i} ELSE Reachable(T)
      /\ T2[i].type = type /\ T2[i].nlink = 1 /\ LinksOf(T2, i) = 1
      /\ \A n \in Numbers \ {i} :
           /\ T2[n].type = T[n].type
           /\ T2[n].nlink = T[n].nlink + One(n = dp /\ type = "dir")
           /\ LinksOf(T2, n) = LinksOf(T, n) + One(n = dp /\ type = "dir")
  BY <1>0, <1>3 DEF Made
<1>5. PICK k : \A e, j, n : Says(T2, e, j, n) <=> Says(T, e, j, n) \/ (e = dp /\ j = k /\ n = i)
  BY <1>0, <1>3 DEF Made
<1>6. CountsLinks(T2, M, h)
  <2>1. ASSUME NEW n \in Numbers
        PROVE  /\ LinksOf(T2, n) + h[n] <= T2[n].nlink
               /\ n \notin M => LinksOf(T2, n) + h[n] = T2[n].nlink
    <3>1. /\ h[n] \in Nat /\ LinksOf(T, n) \in Nat /\ T[n].nlink \in Nat
          /\ LinksOf(T, n) + h[n] <= T[n].nlink
          /\ n \notin L => LinksOf(T, n) + h[n] = T[n].nlink
      BY CountParts
    <3>2. CASE n = i
      BY <1>0, <1>2, <1>4, <3>2
    <3>3. CASE n # i
      <4>1. PICK x \in Nat : /\ T2[n].nlink = T[n].nlink + x
                             /\ LinksOf(T2, n) = LinksOf(T, n) + x
        <5>1. One(n = dp /\ type = "dir") \in Nat
          BY <1>0 DEF One
        <5> QED BY <1>0, <1>4, <3>3, <5>1
      <4> QED BY <1>0, <3>1, <4>1
    <3> QED BY <1>0, <3>2, <3>3
  <2> QED BY <1>0, <2>1 DEF CountsLinks
<1>7. HidesLost(T2, M)
  <2>1. ASSUME NEW e, NEW j, NEW n, Says(T2, e, j, n), e \notin Reachable(T2)
        PROVE  n \in M /\ (T2[n].type = "dir" => e \in M)
    <3>1. e \notin Reachable(T)
      BY <1>0, <1>4, <2>1
    <3>2. CASE Says(T, e, j, n)
      <4>1. n \in L /\ (T[n].type = "dir" => e \in L) /\ n \in Numbers /\ T[n].type # "none"
        BY <1>0, <1>1, <3>1, <3>2, SaysIs, NamedIs DEF TabSound, HidesLost
      <4> QED BY <1>0, <1>4, <4>1
    <3>3. CASE e = dp /\ n = i
      BY <1>0, <1>4, <3>1, <3>3
    <3> QED BY <1>0, <1>5, <2>1, <3>2, <3>3
  <2> QED BY <1>0, <2>1 DEF HidesLost
<1>8. KeepsHeld(T2, M, H)
  <2>1. ASSUME NEW n \in Numbers, T2[n].type # "none", T2[n].nlink = 0 PROVE n \in H \cup M
    <3>1. n # i
      BY <1>0, <1>4, <2>1
    <3>2. T[n].nlink \in Nat /\ One(n = dp /\ type = "dir") \in Nat
      BY <1>0, <1>1, ShapeTypes DEF One
    <3>3. T[n].nlink = 0 /\ T[n].type # "none"
      BY <1>0, <1>4, <2>1, <3>1, <3>2
    <3> QED BY <1>0, <3>3 DEF TabSound, KeepsHeld
  <2> QED BY <1>0, <2>1 DEF KeepsHeld
<1> QED BY <1>0, <1>1, <1>4, <1>6, <1>7, <1>8 DEF TabSound

(* The first half of unlink: the name is gone, the count is not yet.       *)
Cut(T, dp, slot, i) ==
  [T EXCEPT ![dp].ents[slot] = NoEntry,
            ![dp].nlink = IF T[i].type = "dir" THEN @ - 1 ELSE @]

LEMMA CutSound ==
  ASSUME NEW T, NEW L, NEW h, NEW H, TabSound(T, L, h, H),
         NEW dp, NEW slot, NEW i, Says(T, dp, slot, i),
         T[i].type = "dir" => IsDirEmpty(T, i),
         NEW h2 \in [Numbers -> Nat], h2[i] = h[i] + 1, \A n \in Numbers \ {i} : h2[n] = h[n],
         NEW T2, T2 = Cut(T, dp, slot, i)
  PROVE  /\ TabSound(T2, L, h2, H \cup {dp})
         /\ \A n \in Numbers : T2[n].type = T[n].type
<1> DEFINE T1 == [T EXCEPT ![dp].ents[slot] = NoEntry]
           less == One(T[i].type = "dir")
<1>1. TreeShape(T)
  BY DEF TabSound
<1>2. dp \in Numbers /\ i \in Numbers /\ i # dp /\ T[dp].type = "dir"
  BY <1>1, SaysIs
<1>3. /\ TreeShape(T1) /\ Gains(T1, T, dp, slot, i)
      /\ \A n \in Numbers : T1[n].type = T[n].type /\ T1[n].nlink = T[n].nlink
  <2>1. CutOut(T, T1, dp, slot, i)
    BY <1>1, CutIs
  <2> QED BY <2>1 DEF CutOut
<1>4. T2 = IF T[i].type = "dir" THEN [T1 EXCEPT ![dp].nlink = T1[dp].nlink - 1] ELSE T1
  <2>1. T \in [Numbers -> Inodes]
    BY <1>1 DEF TreeShape
  <2>2. T[dp] \in Inodes
    BY <1>2, <2>1
  <2> QED BY <1>2, <2>1, <2>2 DEF Cut, Inodes
<1> HIDE DEF T1
<1>5. less \in {0, 1} /\ (less = 1 <=> T[i].type = "dir")
  BY DEF One
<1>6. /\ \A n \in Numbers : LinksOf(T1, n) \in Nat /\ LinksOf(T, n) \in Nat
      /\ LinksOf(T, i) = LinksOf(T1, i) + 1
      /\ LinksOf(T, dp) = LinksOf(T1, dp) + less
      /\ \A n \in Numbers : n # i /\ n # dp => LinksOf(T, n) = LinksOf(T1, n)
  <2>1. ASSUME NEW n \in Numbers
        PROVE  /\ LinksOf(T1, n) \in Nat /\ LinksOf(T, n) \in Nat
               /\ LinksOf(T, n) = LinksOf(T1, n) + One(n = i) + One(n = dp /\ T[i].type = "dir")
    BY <1>1, <1>3, LinksGained
  <2>2. /\ One(i = i) = 1 /\ One(i = dp /\ T[i].type = "dir") = 0
        /\ One(dp = i) = 0 /\ One(dp = dp /\ T[i].type = "dir") = less
        /\ \A n \in Numbers : n # i /\ n # dp =>
             One(n = i) = 0 /\ One(n = dp /\ T[i].type = "dir") = 0
    BY <1>2 DEF One
  <2>3. LinksOf(T, i) = LinksOf(T1, i) + 1
    BY <1>2, <2>1, <2>2
  <2>4. LinksOf(T, dp) = LinksOf(T1, dp) + less
    <3>1. LinksOf(T, dp) = LinksOf(T1, dp) + One(dp = i) + One(dp = dp /\ T[i].type = "dir")
      BY <1>2, <2>1
    <3>2. LinksOf(T1, dp) \in Nat
      BY <1>2, <2>1
    <3> QED BY <1>5, <2>2, <3>1, <3>2
  <2>5. \A n \in Numbers : n # i /\ n # dp => LinksOf(T, n) = LinksOf(T1, n)
    BY <2>1, <2>2
  <2> QED BY <2>1, <2>3, <2>4, <2>5
<1>7. PICK v \in Nat : v = T[dp].nlink - less
  <2>1. /\ h[dp] \in Nat /\ T[dp].nlink \in Nat /\ LinksOf(T, dp) + h[dp] <= T[dp].nlink
    BY <1>2, CountParts
  <2>2. LinksOf(T1, dp) \in Nat
    BY <1>2, <1>6
  <2>3. T[dp].nlink - less \in Nat
    BY <1>5, <1>6, <2>1, <2>2
  <2> QED BY <2>3
<1>8. Relinked(T1, T2, dp, v)
  <2>1. CASE T[i].type = "dir"
    <3>1. T2 = [T1 EXCEPT ![dp].nlink = v]
      BY <1>2, <1>3, <1>4, <1>5, <1>7, <2>1
    <3>2. Relinked(T1, [T1 EXCEPT ![dp].nlink = v], dp, v)
      BY <1>2, <1>3, RelinkedIs
    <3> QED BY <3>1, <3>2
  <2>2. CASE T[i].type # "dir"
    <3>1. T2 = T1
      BY <1>4, <2>2
    <3>2. v = T1[dp].nlink
      <4>1. T[dp].nlink \in Nat /\ T1[dp].nlink = T[dp].nlink /\ less = 0
        BY <1>1, <1>2, <1>3, <1>5, <2>2, ShapeTypes
      <4> QED BY <1>7, <4>1
    <3>3. SameTree(T1, T2)
      BY <3>1 DEF SameTree
    <3>4. TreeShape(T2)
      BY <1>3, <3>1
    <3>5. \A n \in Numbers : T2[n].nlink = IF n = dp THEN v ELSE T1[n].nlink
      BY <3>1, <3>2
    <3>6. \A n \in Numbers : T2[n].type = T1[n].type
      BY <3>1
    <3> QED BY <3>3, <3>4, <3>5, <3>6 DEF Relinked
  <2> QED BY <2>1, <2>2
<1>9. /\ TreeShape(T2) /\ SameTree(T1, T2)
      /\ \A n \in Numbers : /\ T2[n].type = T[n].type
                            /\ T2[n].nlink = IF n = dp THEN v ELSE T[n].nlink
  BY <1>3, <1>8 DEF Relinked
<1>10. Reachable(T2) = Reachable(T1) /\ \A n \in Numbers : LinksOf(T2, n) = LinksOf(T1, n)
  BY <1>3, <1>9, SameLinks
<1>11. /\ \A e, j, n : Says(T, e, j, n) <=> Says(T1, e, j, n) \/ (e = dp /\ j = slot /\ n = i)
       /\ \A e, j, n : Says(T2, e, j, n) <=> Says(T1, e, j, n)
  BY <1>3, <1>9 DEF Gains, SameTree
<1>12. \A j, n : ~Says(T, i, j, n)
  <2>1. CASE T[i].type = "dir"
    <3>1. \A j \in DOMAIN T[i].ents : j > 2 => T[i].ents[j].inum = 0
      BY <2>1 DEF IsDirEmpty
    <3>2. Mentions(T, i) = {}
      BY <3>1 DEF Mentions
    <3> QED BY <3>2 DEF Says
  <2>2. CASE T[i].type # "dir"
    BY <1>1, <2>2, SaysIs
  <2> QED BY <2>1, <2>2
<1>13. Reachable(T) = IF dp \in Reachable(T1) THEN Reachable(T1) \cup {i} ELSE Reachable(T1)
  <2>1. \A j, n : ~Says(T1, i, j, n)
    BY <1>11, <1>12
  <2> QED BY <1>1, <1>3, <2>1, ReachGained
<1>14. CountsLinks(T2, L, h2)
  <2>1. ASSUME NEW n \in Numbers
        PROVE  /\ LinksOf(T2, n) + h2[n] <= T2[n].nlink
               /\ n \notin L => LinksOf(T2, n) + h2[n] = T2[n].nlink
    <3>1. /\ h[n] \in Nat /\ T[n].nlink \in Nat
          /\ LinksOf(T, n) + h[n] <= T[n].nlink
          /\ n \notin L => LinksOf(T, n) + h[n] = T[n].nlink
      BY CountParts
    <3>2. /\ LinksOf(T1, n) \in Nat /\ LinksOf(T2, n) = LinksOf(T1, n)
          /\ h2[n] = IF n = i THEN h[n] + 1 ELSE h[n]
          /\ T2[n].nlink = IF n = dp THEN v ELSE T[n].nlink
      BY <1>6, <1>9, <1>10
    <3>3. CASE n = i
      <4>1. LinksOf(T, n) = LinksOf(T1, n) + 1 /\ T2[n].nlink = T[n].nlink /\ h2[n] = h[n] + 1
        BY <1>2, <1>6, <3>2, <3>3
      <4> QED BY <3>1, <3>2, <4>1
    <3>4. CASE n = dp
      <4>1. LinksOf(T, n) = LinksOf(T1, n) + less /\ T2[n].nlink = v /\ h2[n] = h[n]
            /\ v = T[n].nlink - less
        BY <1>2, <1>6, <1>7, <3>2, <3>4
      <4> HIDE DEF less
      <4> QED BY <1>5, <3>1, <3>2, <4>1
    <3>5. CASE n # i /\ n # dp
      <4>1. LinksOf(T, n) = LinksOf(T1, n) /\ T2[n].nlink = T[n].nlink /\ h2[n] = h[n]
        BY <1>6, <3>2, <3>5
      <4> QED BY <3>1, <3>2, <4>1
    <3> QED BY <3>3, <3>4, <3>5
  <2> QED BY <2>1 DEF CountsLinks
<1>15. HidesLost(T2, L)
  <2>1. ASSUME NEW e, NEW j, NEW n, Says(T2, e, j, n), e \notin Reachable(T2)
        PROVE  n \in L /\ (T2[n].type = "dir" => e \in L)
    <3>1. Says(T, e, j, n)
      BY <1>11, <2>1
    <3>2. e # i
      BY <1>12, <3>1
    <3>3. e \notin Reachable(T)
      BY <1>10, <1>13, <2>1, <3>2
    <3>4. n \in L /\ (T[n].type = "dir" => e \in L) /\ n \in Numbers
      BY <1>1, <3>1, <3>3, SaysIs DEF TabSound, HidesLost
    <3> QED BY <1>9, <3>4
  <2> QED BY <2>1 DEF HidesLost
<1>16. KeepsHeld(T2, L, H \cup {dp})
  <2>1. ASSUME NEW n \in Numbers, T2[n].type # "none", T2[n].nlink = 0, n # dp
        PROVE  n \in H \cup L
    <3>1. T[n].type # "none" /\ T[n].nlink = 0
      BY <1>9, <2>1
    <3> QED BY <3>1 DEF TabSound, KeepsHeld
  <2> QED BY <2>1 DEF KeepsHeld
<1> QED BY <1>9, <1>14, <1>15, <1>16 DEF TabSound

-----------------------------------------------------------------------------
(* Who refers to an inode.                                                 *)
RefAt(f, i) == {p \in Users : f[p] = i}
IpAt(f, i) == {p \in Users : f[p].ip = i}
OldAt(f, i) == {p \in Users : f[p].old = i}
RefsBy(cw, op, cl, i) ==
  Cardinality(RefAt(cw, i)) + Cardinality(RefAt(op, i)) + Cardinality(IpAt(cl, i)) + Cardinality(OldAt(cl, i))
HeldBy(cw, op, cl) ==
  {i \in Numbers : \E p \in Users : i \in {cw[p], op[p], cl[p].ip, cl[p].old}}
HalfOf(cl) == [i \in Numbers |-> Cardinality(OldAt(cl, i))]
Is(x, i) == IF x = i THEN 1 ELSE 0
Own(w, o, c, i) == Is(w, i) + Is(o, i) + Is(c.ip, i) + Is(c.old, i)

LEMMA UsersCount ==
  ASSUME NEW A \in SUBSET Users
  PROVE  Cardinality(A) \in Nat /\ (Cardinality(A) = 0 <=> A = {})
BY CountIs, DirectoryAssumption

LEMMA RefsHeld ==
  ASSUME NEW cw, NEW op, NEW cl, NEW i \in Numbers
  PROVE  /\ RefsBy(cw, op, cl, i) \in Nat
         /\ RefsBy(cw, op, cl, i) = 0 <=> i \notin HeldBy(cw, op, cl)
<1> DEFINE A == RefAt(cw, i)
           B == RefAt(op, i)
           C == IpAt(cl, i)
           D == OldAt(cl, i)
<1>1. i \notin HeldBy(cw, op, cl) <=> A = {} /\ B = {} /\ C = {} /\ D = {}
  BY DEF HeldBy, RefAt, IpAt, OldAt
<1>2. /\ A \in SUBSET Users /\ B \in SUBSET Users /\ C \in SUBSET Users /\ D \in SUBSET Users
      /\ RefsBy(cw, op, cl, i) = Cardinality(A) + Cardinality(B) + Cardinality(C) + Cardinality(D)
  BY DEF RefsBy, RefAt, IpAt, OldAt
<1> HIDE DEF A, B, C, D
<1>3. /\ Cardinality(A) \in Nat /\ (Cardinality(A) = 0 <=> A = {})
      /\ Cardinality(B) \in Nat /\ (Cardinality(B) = 0 <=> B = {})
      /\ Cardinality(C) \in Nat /\ (Cardinality(C) = 0 <=> C = {})
      /\ Cardinality(D) \in Nat /\ (Cardinality(D) = 0 <=> D = {})
  BY <1>2, UsersCount
<1>4. PICK a, b, c, d : /\ a = Cardinality(A) /\ b = Cardinality(B)
                        /\ c = Cardinality(C) /\ d = Cardinality(D)
  OBVIOUS
<1>5. a \in Nat /\ b \in Nat /\ c \in Nat /\ d \in Nat /\ RefsBy(cw, op, cl, i) = a + b + c + d
  BY <1>2, <1>3, <1>4
<1>6. a + b + c + d = 0 <=> a = 0 /\ b = 0 /\ c = 0 /\ d = 0
  BY <1>5
<1>7. a + b + c + d \in Nat
  BY <1>5
<1> QED BY <1>1, <1>3, <1>4, <1>5, <1>6, <1>7

\* Process p goes on to the directory w, the file o and the call c.
Moves(p, w, o, c, cw2, op2, cl2) ==
  /\ cw2 = [cwd EXCEPT ![p] = w] /\ op2 = [open EXCEPT ![p] = o]
  /\ cl2 = [call EXCEPT ![p] = c]

CallRecs ==
  [op : Ops \cup {"linkto"}, at : {"walk", "there", "bad"}, ip : Numbers \cup {0},
   rest : Seq(STRING), old : Numbers \cup {0}, to : Paths]

CallOK(T, c) ==
  /\ c \in CallRecs
  /\ c.op = "linkto" <=> c.old # 0
  /\ c.old # 0 => T[c.old].type \in {"file", "dev"}
  /\ c.at = "bad" => c.op = "linkto" /\ c.ip = 0
  /\ c.at # "bad" => c.ip # 0
  /\ c.at = "there" /\ c.op \in ParentOps => T[c.ip].type = "dir" /\ Len(c.rest) = 1

UserOK(T, w, o, c) ==
  /\ w \in Numbers /\ T[w].type = "dir"
  /\ o \in Numbers \cup {0} /\ (o # 0 => T[o].type # "none")
  /\ c = Idle \/ CallOK(T, c)

UserTypes ==
  /\ cwd \in [Users -> Numbers] /\ open \in [Users -> Numbers \cup {0}]
  /\ call \in [Users -> CallRecs \cup {Idle}]

NoHalf == [i \in Numbers |-> 0]

TreeInv ==
  /\ UserTypes /\ \A p \in Users : UserOK(tree, cwd[p], open[p], call[p])
  /\ lost \subseteq Numbers
  /\ TabSound(tree, lost, HalfOf(call), HeldBy(cwd, open, call))
  /\ TabSound(saved, lost, NoHalf, Numbers)

LEMMA IdleIs == Idle.ip = 0 /\ Idle.old = 0 /\ Idle.op = "none"
BY DEF Idle

LEMMA CallIs ==
  ASSUME NEW T, NEW c, CallOK(T, c)
  PROVE  /\ c.op \in Ops \cup {"linkto"} /\ c.at \in {"walk", "there", "bad"}
         /\ c.ip \in Numbers \cup {0} /\ c.old \in Numbers \cup {0}
         /\ c.rest \in Seq(STRING) /\ c.to \in Paths
         /\ c # Idle
<1>1. /\ c.op \in Ops \cup {"linkto"} /\ c.at \in {"walk", "there", "bad"}
      /\ c.ip \in Numbers \cup {0} /\ c.old \in Numbers \cup {0}
      /\ c.rest \in Seq(STRING) /\ c.to \in Paths
  BY DEF CallOK, CallRecs
<1>2. c # Idle
  BY <1>1 DEF Idle, Ops
<1> QED BY <1>1, <1>2

LEMMA OwnIs ==
  ASSUME NEW p \in Users, TreeInv
  PROVE  /\ UserOK(tree, cwd[p], open[p], call[p])
         /\ cwd[p] \in Numbers /\ open[p] \in Numbers \cup {0}
         /\ call[p].ip \in Numbers \cup {0} /\ call[p].old \in Numbers \cup {0}
         /\ call[p] # Idle => CallOK(tree, call[p])
<1>1. UserOK(tree, cwd[p], open[p], call[p])
  BY DEF TreeInv
<1>2. call[p] = Idle => call[p].ip = 0 /\ call[p].old = 0
  BY IdleIs
<1> QED BY <1>1, <1>2, CallIs DEF UserOK

LEMMA MovesIs ==
  ASSUME NEW p \in Users, NEW w, NEW o, NEW c, NEW cw2, NEW op2, NEW cl2,
         UserTypes, Moves(p, w, o, c, cw2, op2, cl2)
  PROVE  /\ cw2[p] = w /\ op2[p] = o /\ cl2[p] = c
         /\ \A q \in Users : q # p => cw2[q] = cwd[q]
         /\ \A q \in Users : q # p => op2[q] = open[q]
         /\ \A q \in Users : q # p => cl2[q] = call[q]
BY DEF Moves, UserTypes

LEMMA CountShift ==
  ASSUME NEW A \in SUBSET Users, NEW B \in SUBSET Users, NEW p \in Users,
         \A q \in Users : q # p => (q \in A <=> q \in B)
  PROVE  Cardinality(B) + One(p \in A) = Cardinality(A) + One(p \in B)
<1>1. Cardinality(B) = Cardinality(A) + One(p \in B) - One(p \in A)
  BY CountMoves, DirectoryAssumption
<1>2. Cardinality(A) \in Nat /\ Cardinality(B) \in Nat
  BY UsersCount
<1>3. One(p \in A) \in Nat /\ One(p \in B) \in Nat
  BY DEF One
<1> QED BY <1>1, <1>2, <1>3

SameBut(f, g, p) == \A q \in Users : q # p => g[q] = f[q]

LEMMA CountRef ==
  ASSUME NEW f, NEW g, NEW p \in Users, SameBut(f, g, p), NEW i
  PROVE  Cardinality(RefAt(g, i)) + Is(f[p], i) = Cardinality(RefAt(f, i)) + Is(g[p], i)
<1> DEFINE A == RefAt(f, i)
           B == RefAt(g, i)
<1>1. /\ A \in SUBSET Users /\ B \in SUBSET Users /\ \A q \in Users : q # p => (q \in A <=> q \in B)
      /\ (p \in A <=> f[p] = i) /\ (p \in B <=> g[p] = i)
  BY DEF RefAt, SameBut
<1> HIDE DEF A, B
<1>2. Cardinality(B) + One(p \in A) = Cardinality(A) + One(p \in B)
  BY <1>1, CountShift
<1>3. One(p \in A) = Is(f[p], i) /\ One(p \in B) = Is(g[p], i)
  BY <1>1 DEF One, Is
<1>4. Cardinality(B) + Is(f[p], i) = Cardinality(A) + Is(g[p], i)
  BY <1>2, <1>3
<1> QED BY <1>4 DEF A, B

LEMMA CountIp ==
  ASSUME NEW f, NEW g, NEW p \in Users, SameBut(f, g, p), NEW i
  PROVE  Cardinality(IpAt(g, i)) + Is(f[p].ip, i) = Cardinality(IpAt(f, i)) + Is(g[p].ip, i)
<1> DEFINE A == IpAt(f, i)
           B == IpAt(g, i)
<1>1. /\ A \in SUBSET Users /\ B \in SUBSET Users /\ \A q \in Users : q # p => (q \in A <=> q \in B)
      /\ (p \in A <=> f[p].ip = i) /\ (p \in B <=> g[p].ip = i)
  BY DEF IpAt, SameBut
<1> HIDE DEF A, B
<1>2. Cardinality(B) + One(p \in A) = Cardinality(A) + One(p \in B)
  BY <1>1, CountShift
<1>3. One(p \in A) = Is(f[p].ip, i) /\ One(p \in B) = Is(g[p].ip, i)
  BY <1>1 DEF One, Is
<1>4. Cardinality(B) + Is(f[p].ip, i) = Cardinality(A) + Is(g[p].ip, i)
  BY <1>2, <1>3
<1> QED BY <1>4 DEF A, B

LEMMA CountOld ==
  ASSUME NEW f, NEW g, NEW p \in Users, SameBut(f, g, p), NEW i
  PROVE  Cardinality(OldAt(g, i)) + Is(f[p].old, i) = Cardinality(OldAt(f, i)) + Is(g[p].old, i)
<1> DEFINE A == OldAt(f, i)
           B == OldAt(g, i)
<1>1. /\ A \in SUBSET Users /\ B \in SUBSET Users /\ \A q \in Users : q # p => (q \in A <=> q \in B)
      /\ (p \in A <=> f[p].old = i) /\ (p \in B <=> g[p].old = i)
  BY DEF OldAt, SameBut
<1> HIDE DEF A, B
<1>2. Cardinality(B) + One(p \in A) = Cardinality(A) + One(p \in B)
  BY <1>1, CountShift
<1>3. One(p \in A) = Is(f[p].old, i) /\ One(p \in B) = Is(g[p].old, i)
  BY <1>1 DEF One, Is
<1>4. Cardinality(B) + Is(f[p].old, i) = Cardinality(A) + Is(g[p].old, i)
  BY <1>2, <1>3
<1> QED BY <1>4 DEF A, B

LEMMA RefsChange ==
  ASSUME NEW p \in Users, NEW w, NEW o, NEW c, NEW cw2, NEW op2, NEW cl2,
         UserTypes, Moves(p, w, o, c, cw2, op2, cl2), NEW i \in Numbers
  PROVE  RefsBy(cw2, op2, cl2, i) + Own(cwd[p], open[p], call[p], i)
           = Refs(i) + Own(w, o, c, i)
<1>1. /\ cw2[p] = w /\ op2[p] = o /\ cl2[p] = c
      /\ \A q \in Users : q # p => cw2[q] = cwd[q]
      /\ \A q \in Users : q # p => op2[q] = open[q]
      /\ \A q \in Users : q # p => cl2[q] = call[q]
  BY MovesIs
<1>a. SameBut(cwd, cw2, p)
  BY <1>1 DEF SameBut
<1>b. SameBut(open, op2, p)
  BY <1>1 DEF SameBut
<1>c. SameBut(call, cl2, p)
  BY <1>1 DEF SameBut
<1> DEFINE A(f) == RefAt(f, i)
           C(f) == IpAt(f, i)
           D(f) == OldAt(f, i)
<1>2. Cardinality(A(cw2)) + Is(cwd[p], i) = Cardinality(A(cwd)) + Is(w, i)
  <2>1. Cardinality(A(cw2)) + Is(cwd[p], i) = Cardinality(A(cwd)) + Is(cw2[p], i)
    BY <1>a, CountRef
  <2>2. Is(cw2[p], i) = Is(w, i)
    BY <1>1
  <2> QED BY <2>1, <2>2
<1>3. Cardinality(A(op2)) + Is(open[p], i) = Cardinality(A(open)) + Is(o, i)
  <2>1. Cardinality(A(op2)) + Is(open[p], i) = Cardinality(A(open)) + Is(op2[p], i)
    BY <1>b, CountRef
  <2>2. Is(op2[p], i) = Is(o, i)
    BY <1>1
  <2> QED BY <2>1, <2>2
<1>4. Cardinality(C(cl2)) + Is(call[p].ip, i) = Cardinality(C(call)) + Is(c.ip, i)
  <2>1. Cardinality(C(cl2)) + Is(call[p].ip, i) = Cardinality(C(call)) + Is(cl2[p].ip, i)
    BY <1>c, CountIp
  <2>2. Is(cl2[p].ip, i) = Is(c.ip, i)
    BY <1>1
  <2> QED BY <2>1, <2>2
<1>5. Cardinality(D(cl2)) + Is(call[p].old, i) = Cardinality(D(call)) + Is(c.old, i)
  <2>1. Cardinality(D(cl2)) + Is(call[p].old, i) = Cardinality(D(call)) + Is(cl2[p].old, i)
    BY <1>c, CountOld
  <2>2. Is(cl2[p].old, i) = Is(c.old, i)
    BY <1>1
  <2> QED BY <2>1, <2>2
<1>6. /\ Cardinality(A(cw2)) \in Nat /\ Cardinality(A(cwd)) \in Nat
      /\ Cardinality(A(op2)) \in Nat /\ Cardinality(A(open)) \in Nat
      /\ Cardinality(C(cl2)) \in Nat /\ Cardinality(C(call)) \in Nat
      /\ Cardinality(D(cl2)) \in Nat /\ Cardinality(D(call)) \in Nat
  BY UsersCount DEF RefAt, IpAt, OldAt
<1>7. \A x : Is(x, i) \in Nat
  BY DEF Is
<1>8. /\ RefsBy(cw2, op2, cl2, i) = Cardinality(A(cw2)) + Cardinality(A(op2)) + Cardinality(C(cl2)) + Cardinality(D(cl2))
      /\ Refs(i) = Cardinality(A(cwd)) + Cardinality(A(open)) + Cardinality(C(call)) + Cardinality(D(call))
  BY DEF RefsBy, Refs, RefAt, IpAt, OldAt
<1> HIDE DEF A, C, D
<1> QED BY <1>2, <1>3, <1>4, <1>5, <1>6, <1>7, <1>8 DEF Own

LEMMA HeldMoves ==
  ASSUME NEW p \in Users, NEW w, NEW o, NEW c, NEW cw2, NEW op2, NEW cl2,
         UserTypes, Moves(p, w, o, c, cw2, op2, cl2)
  PROVE  /\ HeldBy(cw2, op2, cl2) \subseteq Numbers
         /\ HeldBy(cwd, open, call) \subseteq
              HeldBy(cw2, op2, cl2) \cup {cwd[p], open[p], call[p].ip, call[p].old}
         /\ \A n \in Numbers : n \in {w, o, c.ip, c.old} => n \in HeldBy(cw2, op2, cl2)
<1>1. /\ cw2[p] = w /\ op2[p] = o /\ cl2[p] = c
      /\ \A q \in Users : q # p => cw2[q] = cwd[q]
      /\ \A q \in Users : q # p => op2[q] = open[q]
      /\ \A q \in Users : q # p => cl2[q] = call[q]
  BY MovesIs
<1>2. ASSUME NEW n \in HeldBy(cwd, open, call), n \notin {cwd[p], open[p], call[p].ip, call[p].old}
      PROVE  n \in HeldBy(cw2, op2, cl2)
  <2>1. PICK q \in Users : n \in {cwd[q], open[q], call[q].ip, call[q].old}
    BY DEF HeldBy
  <2>2. q # p /\ n \in Numbers
    BY <1>2, <2>1 DEF HeldBy
  <2> QED BY <1>1, <2>1, <2>2 DEF HeldBy
<1>3. \A n \in Numbers : n \in {w, o, c.ip, c.old} => n \in HeldBy(cw2, op2, cl2)
  BY <1>1 DEF HeldBy
<1> QED BY <1>2, <1>3 DEF HeldBy

LEMMA HalfMoves ==
  ASSUME NEW p \in Users, NEW w, NEW o, NEW c, NEW cw2, NEW op2, NEW cl2,
         UserTypes, Moves(p, w, o, c, cw2, op2, cl2)
  PROVE  /\ HalfOf(cl2) \in [Numbers -> Nat] /\ HalfOf(call) \in [Numbers -> Nat]
         /\ \A n \in Numbers :
              HalfOf(cl2)[n] + Is(call[p].old, n) = HalfOf(call)[n] + Is(c.old, n)
         /\ c.old = call[p].old => HalfOf(cl2) = HalfOf(call)
<1>1. /\ cl2[p] = c /\ \A q \in Users : q # p => cl2[q] = call[q]
  BY MovesIs
<1>c. SameBut(call, cl2, p)
  BY <1>1 DEF SameBut
<1> DEFINE D(f, i) == OldAt(f, i)
<1>2. \A f : \A n \in Numbers : HalfOf(f)[n] = Cardinality(D(f, n)) /\ Cardinality(D(f, n)) \in Nat
  <2>1. \A f, n : D(f, n) \in SUBSET Users
    BY DEF OldAt
  <2>2. \A f, n : Cardinality(D(f, n)) \in Nat
    <3> HIDE DEF D
    <3> QED BY <2>1, UsersCount
  <2> QED BY <2>2 DEF HalfOf
<1>3. ASSUME NEW n \in Numbers
      PROVE  HalfOf(cl2)[n] + Is(call[p].old, n) = HalfOf(call)[n] + Is(c.old, n)
  <2>1. Cardinality(D(cl2, n)) + Is(call[p].old, n) = Cardinality(D(call, n)) + Is(c.old, n)
    <3>1. Cardinality(D(cl2, n)) + Is(call[p].old, n) = Cardinality(D(call, n)) + Is(cl2[p].old, n)
      BY <1>c, CountOld
    <3>2. Is(cl2[p].old, n) = Is(c.old, n)
      BY <1>1
    <3> QED BY <3>1, <3>2
  <2> QED BY <1>2, <2>1
<1>4. HalfOf(cl2) \in [Numbers -> Nat] /\ HalfOf(call) \in [Numbers -> Nat]
  <2>1. \A f : HalfOf(f) = [n \in Numbers |-> Cardinality(D(f, n))]
    BY DEF HalfOf
  <2> HIDE DEF D
  <2> QED BY <1>2, <2>1
<1>5. ASSUME c.old = call[p].old PROVE HalfOf(cl2) = HalfOf(call)
  <2>1. \A n : D(cl2, n) = D(call, n)
    BY <1>1, <1>5 DEF OldAt
  <2> QED BY <2>1 DEF HalfOf
<1> QED BY <1>3, <1>4, <1>5

-----------------------------------------------------------------------------
(* What a step of process p has to show.                                   *)
LEMMA UserStays ==
  ASSUME NEW T, NEW T2, NEW H, Stays(T, T2, H), NEW w, NEW o, NEW c, UserOK(T, w, o, c),
         \A n \in Numbers : n \in {w, o, c.ip, c.old} => n \in H
  PROVE  UserOK(T2, w, o, c)
<1>1. \A n \in Numbers : n \in {w, o, c.ip, c.old} /\ T[n].type # "none" => T2[n].type = T[n].type
  BY DEF Stays
<1>2. w \in Numbers /\ T2[w].type = "dir"
  BY <1>1 DEF UserOK
<1>3. o \in Numbers \cup {0} /\ (o # 0 => T2[o].type # "none")
  BY <1>1 DEF UserOK
<1>4. ASSUME CallOK(T, c) PROVE CallOK(T2, c)
  <2>1. c.old # 0 => T2[c.old].type \in {"file", "dev"}
    BY <1>1, <1>4, CallIs DEF CallOK
  <2>2. c.at = "there" /\ c.op \in ParentOps => T2[c.ip].type = "dir" /\ Len(c.rest) = 1
    <3>1. ASSUME c.at = "there", c.op \in ParentOps
          PROVE  T2[c.ip].type = "dir" /\ Len(c.rest) = 1
      <4>1. T[c.ip].type = "dir" /\ Len(c.rest) = 1 /\ c.ip # 0 /\ c.ip \in Numbers \cup {0}
        BY <1>4, <3>1, CallIs DEF CallOK
      <4> QED BY <1>1, <4>1
    <3> QED BY <3>1
  <2> QED BY <1>4, <2>1, <2>2 DEF CallOK
<1>5. c = Idle \/ CallOK(T2, c)
  BY <1>4 DEF UserOK
<1> QED BY <1>2, <1>3, <1>5 DEF UserOK

\* The rest of the state after a step.
Goes(p, w, o, c, T2, cw2, op2, cl2, gone) ==
  /\ Moves(p, w, o, c, cw2, op2, cl2)
  /\ tree' = T2 /\ cwd' = cw2 /\ open' = op2 /\ call' = cl2
  /\ Record(gone) /\ gone \subseteq Numbers
  /\ UserOK(T2, w, o, c)

LEMMA CallStep ==
  ASSUME TreeInv, NEW p \in Users, NEW w, NEW o, NEW c, NEW T2, NEW cw2, NEW op2, NEW cl2, NEW gone,
         Goes(p, w, o, c, T2, cw2, op2, cl2, gone),
         TabSound(T2, lost \cup gone, HalfOf(cl2), HeldBy(cw2, op2, cl2)),
         Stays(tree, T2, HeldBy(cw2, op2, cl2))
  PROVE  TreeInv'
<1>1. /\ Moves(p, w, o, c, cw2, op2, cl2)
      /\ tree' = T2 /\ cwd' = cw2 /\ open' = op2 /\ call' = cl2
      /\ Record(gone) /\ gone \subseteq Numbers
      /\ UserOK(T2, w, o, c)
  BY DEF Goes
<1>2. UserTypes /\ lost \subseteq Numbers
  BY DEF TreeInv
<1>3. /\ cw2[p] = w /\ op2[p] = o /\ cl2[p] = c
      /\ \A q \in Users : q # p => cw2[q] = cwd[q]
      /\ \A q \in Users : q # p => op2[q] = open[q]
      /\ \A q \in Users : q # p => cl2[q] = call[q]
  BY <1>1, <1>2, MovesIs
<1> DEFINE H == HeldBy(cw2, op2, cl2)
<1>4. \A q \in Users : UserOK(T2, cw2[q], op2[q], cl2[q])
  <2>1. ASSUME NEW q \in Users, q # p PROVE UserOK(T2, cw2[q], op2[q], cl2[q])
    <3>1. UserOK(tree, cw2[q], op2[q], cl2[q])
      BY <1>3, <2>1, OwnIs
    <3>2. \A n \in Numbers : n \in {cw2[q], op2[q], cl2[q].ip, cl2[q].old} => n \in H
      BY DEF HeldBy
    <3> HIDE DEF H
    <3> QED BY <3>1, <3>2, UserStays DEF H
  <2> QED BY <1>1, <1>3, <2>1
<1>5. /\ cw2 \in [Users -> Numbers] /\ op2 \in [Users -> Numbers \cup {0}]
      /\ cl2 \in [Users -> CallRecs \cup {Idle}]
  <2>1. w \in Numbers /\ o \in Numbers \cup {0} /\ c \in CallRecs \cup {Idle}
    BY <1>1 DEF UserOK, CallOK
  <2> QED BY <1>1, <1>2, <2>1 DEF Moves, UserTypes
<1>6. /\ saved' = IF \A q \in Users : cl2[q] = Idle THEN T2 ELSE saved
      /\ lost' = {i \in lost \cup gone : {T2[i].type, saved'[i].type} # {"none"}}
  BY <1>1 DEF Record
<1>7. lost' \subseteq Numbers
  BY <1>1, <1>2, <1>6
<1>8. TabSound(T2, lost', HalfOf(cl2), H)
  <2>1. \A i \in Numbers : i \in lost \cup gone /\ T2[i].type # "none" => i \in lost'
    BY <1>6
  <2> QED BY <2>1, LostMore
<1>9. TabSound(saved', lost', NoHalf, Numbers)
  <2>1. CASE \A q \in Users : cl2[q] = Idle
    <3>1. \A i \in Numbers : OldAt(cl2, i) = {}
      BY <2>1, IdleIs, DirectoryAssumption DEF OldAt
    <3>2. HalfOf(cl2) = NoHalf
      BY <3>1, FS_EmptySet DEF HalfOf, NoHalf
    <3>3. TabSound(T2, lost', NoHalf, H)
      BY <1>8, <3>2
    <3>4. TabSound(T2, lost', NoHalf, Numbers)
      BY <3>3, LostMore
    <3> QED BY <1>6, <2>1, <3>4
  <2>2. CASE ~\A q \in Users : cl2[q] = Idle
    <3>1. saved' = saved
      BY <1>6, <2>2
    <3>2. \A i \in Numbers : i \in lost /\ saved[i].type # "none" => i \in lost'
      BY <1>6, <3>1
    <3>3. TabSound(saved, lost, NoHalf, Numbers)
      BY DEF TreeInv
    <3>4. TabSound(saved, lost', NoHalf, Numbers)
      BY <3>2, <3>3, LostMore
    <3> QED BY <3>1, <3>4
  <2> QED BY <2>1, <2>2
<1>10. TabSound(tree, lost, HalfOf(call), HeldBy(cwd, open, call))'
  BY <1>1, <1>8
<1>11. UserTypes' /\ (\A q \in Users : UserOK(tree, cwd[q], open[q], call[q]))'
  BY <1>1, <1>4, <1>5 DEF UserTypes
<1>12. TabSound(saved, lost, NoHalf, Numbers)'
  BY <1>9
<1> QED BY <1>7, <1>10, <1>11, <1>12 DEF TreeInv

(* Nothing is put: what the process gives up it still has.                 *)
LEMMA HoldStep ==
  ASSUME TreeInv, NEW p \in Users, NEW w, NEW o, NEW c, NEW cw2, NEW op2, NEW cl2, NEW puts,
         Moves(p, w, o, c, cw2, op2, cl2),
         {cwd[p], open[p], call[p].ip, call[p].old} \subseteq {w, o, c.ip, c.old, 0} \cup puts
  PROVE  TabSound(tree, lost, HalfOf(call), HeldBy(cw2, op2, cl2) \cup puts)
<1> DEFINE H == HeldBy(cwd, open, call)
           H2 == HeldBy(cw2, op2, cl2)
<1>1. TabSound(tree, lost, HalfOf(call), H) /\ UserTypes
  BY DEF TreeInv
<1>2. /\ H \subseteq H2 \cup {cwd[p], open[p], call[p].ip, call[p].old}
      /\ \A n \in Numbers : n \in {w, o, c.ip, c.old} => n \in H2
  BY <1>1, HeldMoves
<1>3. \A i \in Numbers : i \in H => i \in H2 \cup puts
  <2>1. 0 \notin Numbers
    BY DirectoryAssumption
  <2> HIDE DEF H, H2
  <2> QED BY <1>2, <2>1
<1>4. TabSound(tree, lost, HalfOf(call), H2 \cup puts)
  <2> HIDE DEF H, H2
  <2> QED BY <1>1, <1>3, LostMore
<1> QED BY <1>4

(* Only inode i is put.                                                    *)
LEMMA PutStep ==
  ASSUME TreeInv, NEW p \in Users, NEW w, NEW o, NEW c, NEW T2, NEW cw2, NEW op2, NEW cl2,
         Moves(p, w, o, c, cw2, op2, cl2),
         tree' = T2, cwd' = cw2, open' = op2, call' = cl2, Record({}),
         NEW i \in Numbers, NEW others, T2 = Iput(tree, i, others),
         others = 0 <=> RefsBy(cw2, op2, cl2, i) = 0,
         {cwd[p], open[p], call[p].ip, call[p].old} \subseteq {w, o, c.ip, c.old, 0, i},
         c.old = call[p].old, UserOK(tree, w, o, c)
  PROVE  TreeInv'
<1> DEFINE H2 == HeldBy(cw2, op2, cl2)
<1>1. UserTypes
  BY DEF TreeInv
<1>2. HalfOf(cl2) = HalfOf(call)
  BY <1>1, HalfMoves
<1>3. TabSound(tree, lost, HalfOf(cl2), H2 \cup {i})
  <2>1. {cwd[p], open[p], call[p].ip, call[p].old} \subseteq {w, o, c.ip, c.old, 0} \cup {i}
    OBVIOUS
  <2> QED BY <1>2, <2>1, HoldStep
<1>4. others = 0 <=> i \notin H2
  BY RefsHeld
<1>5. /\ H2 \in SUBSET Numbers
      /\ \A n \in Numbers : n \in {w, o, c.ip, c.old} => n \in H2
  BY <1>1, HeldMoves
<1> HIDE DEF H2
<1>6. TabSound(T2, lost, HalfOf(cl2), H2) /\ Stays(tree, T2, H2)
  BY <1>3, <1>4, <1>5, IputSound
<1>7. UserOK(T2, w, o, c)
  BY <1>5, <1>6, UserStays
<1>8. Goes(p, w, o, c, T2, cw2, op2, cl2, {})
  BY <1>7 DEF Goes
<1>9. TabSound(T2, lost \cup {}, HalfOf(cl2), H2)
  <2>1. lost \cup {} = lost
    OBVIOUS
  <2> QED BY <1>6, <2>1
<1> QED BY <1>6, <1>8, <1>9, CallStep DEF H2

(* The tree is left alone.                                                 *)
LEMMA LookStep ==
  ASSUME TreeInv, NEW p \in Users, NEW w, NEW o, NEW c, NEW cw2, NEW op2, NEW cl2,
         Moves(p, w, o, c, cw2, op2, cl2),
         tree' = tree, cwd' = cw2, open' = op2, call' = cl2, Record({}),
         {cwd[p], open[p], call[p].ip, call[p].old} \subseteq {w, o, c.ip, c.old, 0},
         c.old = call[p].old, UserOK(tree, w, o, c)
  PROVE  TreeInv'
<1> DEFINE H2 == HeldBy(cw2, op2, cl2)
<1>1. UserTypes
  BY DEF TreeInv
<1>2. HalfOf(cl2) = HalfOf(call)
  BY <1>1, HalfMoves
<1>3. TabSound(tree, lost \cup {}, HalfOf(cl2), H2)
  <2>1. {cwd[p], open[p], call[p].ip, call[p].old} \subseteq {w, o, c.ip, c.old, 0} \cup {}
    OBVIOUS
  <2>2. TabSound(tree, lost, HalfOf(call), H2 \cup {})
    BY <2>1, HoldStep
  <2>3. lost \cup {} = lost /\ H2 \cup {} = H2
    OBVIOUS
  <2> QED BY <1>2, <2>2, <2>3
<1>4. Stays(tree, tree, H2)
  BY DEF Stays
<1>5. Goes(p, w, o, c, tree, cw2, op2, cl2, {})
  BY DEF Goes
<1> QED BY <1>3, <1>4, <1>5, CallStep

(* What was committed comes back.                                          *)
LEMMA BootStep ==
  ASSUME TreeInv, Boot
  PROVE  TreeInv'
<1>1. /\ tree' = saved /\ saved' = saved
      /\ cwd' = [p \in Users |-> RootDir] /\ open' = [p \in Users |-> 0]
      /\ call' = [p \in Users |-> Idle]
      /\ lost' = {i \in Numbers : saved[i].type # "none" /\ (i \in lost \/ saved[i].nlink = 0)}
  BY DEF Boot
<1>2. TabSound(saved, lost, NoHalf, Numbers) /\ TreeShape(saved)
  BY DEF TreeInv, TabSound
<1>3. \A i \in Numbers : i \in lost /\ saved[i].type # "none" => i \in lost'
  BY <1>1
<1>4. TabSound(saved, lost', NoHalf, Numbers)
  BY <1>2, <1>3, LostMore
<1>5. \A n : n \in HeldBy(cwd', open', call') => n \in Numbers
  BY DEF HeldBy
<1>6. TabSound(saved, lost', NoHalf, HeldBy(cwd', open', call'))
  <2>1. \A i \in Numbers : saved[i].type # "none" /\ saved[i].nlink = 0 /\ i \in Numbers
           => i \in HeldBy(cwd', open', call') \cup lost'
    BY <1>1
  <2> QED BY <1>2, <1>3, <2>1, LostMore
<1>7. HalfOf(call') = NoHalf
  <2>1. \A i \in Numbers : OldAt(call', i) = {}
    BY <1>1, IdleIs, DirectoryAssumption DEF OldAt
  <2> QED BY <2>1, FS_EmptySet DEF HalfOf, NoHalf
<1>8. UserTypes' /\ \A p \in Users : UserOK(saved, cwd'[p], open'[p], call'[p])
  <2>1. saved[RootDir].type = "dir" /\ RootDir \in Numbers
    BY <1>2, DirectoryAssumption DEF TreeShape, RootDir
  <2> QED BY <1>1, <2>1 DEF UserTypes, UserOK
<1>9. TabSound(tree, lost, HalfOf(call), HeldBy(cwd, open, call))'
  BY <1>1, <1>6, <1>7
<1>10. TabSound(saved, lost, NoHalf, Numbers)'
  BY <1>1, <1>4
<1>11. (\A p \in Users : UserOK(tree, cwd[p], open[p], call[p]))' /\ (lost \subseteq Numbers)'
  BY <1>1, <1>8
<1> QED BY <1>8, <1>9, <1>10, <1>11 DEF TreeInv

-----------------------------------------------------------------------------
(* The steps of the calls that put one inode or none.                      *)
LEMMA Standing ==
  ASSUME UserTypes, NEW p \in Users
  PROVE  /\ cwd = [cwd EXCEPT ![p] = cwd[p]] /\ open = [open EXCEPT ![p] = open[p]]
         /\ call = [call EXCEPT ![p] = call[p]]
BY DEF UserTypes

\* Process p has the directory w, the file o and the call c after the step.
Steps(p, w, o, c) == Moves(p, w, o, c, cwd', open', call')

LEMMA RefsThen ==
  ASSUME TreeInv, NEW p \in Users, NEW w, NEW o, NEW c, Steps(p, w, o, c),
         NEW i \in Numbers
  PROVE  /\ RefsBy(cwd', open', call', i) + Own(cwd[p], open[p], call[p], i)
              = Refs(i) + Own(w, o, c, i)
         /\ Own(w, o, c, i) \in Nat
         /\ RefsBy(cwd', open', call', i) \in Nat /\ Refs(i) \in Nat
         /\ (RefsBy(cwd', open', call', i) = 0 <=> i \notin HeldBy(cwd', open', call'))
<1>1. PICK cw2, op2, cl2 : cw2 = cwd' /\ op2 = open' /\ cl2 = call'
  OBVIOUS
<1>2. UserTypes /\ Moves(p, w, o, c, cw2, op2, cl2)
  BY <1>1 DEF TreeInv, Steps
<1>3. RefsBy(cw2, op2, cl2, i) + Own(cwd[p], open[p], call[p], i) = Refs(i) + Own(w, o, c, i)
  BY <1>2, RefsChange
<1>4. /\ RefsBy(cw2, op2, cl2, i) \in Nat
      /\ (RefsBy(cw2, op2, cl2, i) = 0 <=> i \notin HeldBy(cw2, op2, cl2))
  BY RefsHeld
<1>5. Refs(i) \in Nat
  <2>1. RefsBy(cwd, open, call, i) \in Nat
    BY RefsHeld
  <2>2. RefsBy(cwd, open, call, i) = Refs(i)
    BY DEF RefsBy, Refs, RefAt, IpAt, OldAt
  <2> QED BY <2>1, <2>2
<1>6. Own(w, o, c, i) \in Nat
  BY DEF Own, Is
<1> QED BY <1>1, <1>3, <1>4, <1>5, <1>6

LEMMA PutHere ==
  ASSUME TreeInv, NEW p \in Users, NEW w, NEW o, NEW c, Steps(p, w, o, c), Record({}),
         NEW i \in Numbers, NEW others, tree' = Iput(tree, i, others),
         others = 0 <=> RefsBy(cwd', open', call', i) = 0,
         {cwd[p], open[p], call[p].ip, call[p].old} \subseteq {w, o, c.ip, c.old, 0, i},
         c.old = call[p].old, UserOK(tree, w, o, c)
  PROVE  TreeInv'
<1>1. PICK T2, cw2, op2, cl2 : T2 = tree' /\ cw2 = cwd' /\ op2 = open' /\ cl2 = call'
  OBVIOUS
<1>2. /\ Moves(p, w, o, c, cw2, op2, cl2) /\ T2 = Iput(tree, i, others)
      /\ (others = 0 <=> RefsBy(cw2, op2, cl2, i) = 0)
  BY <1>1 DEF Steps
<1> QED BY <1>1, <1>2, PutStep

LEMMA LookHere ==
  ASSUME TreeInv, NEW p \in Users, NEW w, NEW o, NEW c, Steps(p, w, o, c), Record({}),
         tree' = tree,
         {cwd[p], open[p], call[p].ip, call[p].old} \subseteq {w, o, c.ip, c.old, 0},
         c.old = call[p].old, UserOK(tree, w, o, c)
  PROVE  TreeInv'
<1>1. PICK cw2, op2, cl2 : cw2 = cwd' /\ op2 = open' /\ cl2 = call'
  OBVIOUS
<1>2. Moves(p, w, o, c, cw2, op2, cl2)
  BY <1>1 DEF Steps
<1> QED BY <1>1, <1>2, LookStep

(* The call gives up its reference to ip and ends, or has to undo a link.  *)
LEMMA GiveUp ==
  ASSUME TreeInv, NEW p \in Users, call[p] # Idle, call[p].ip # 0, NEW c, c.ip = 0,
         c.old = call[p].old, UserOK(tree, cwd[p], open[p], c),
         tree' = Iput(tree, call[p].ip, Refs(call[p].ip) - 1),
         Steps(p, cwd[p], open[p], c), Record({})
  PROVE  TreeInv'
<1>3. call[p].ip \in Numbers
  BY OwnIs
<1>a. PICK i \in Numbers : i = call[p].ip
  BY <1>3
<1>4. Own(cwd[p], open[p], call[p], i) = Own(cwd[p], open[p], c, i) + 1
  <2>1. Is(c.ip, i) = 0 /\ Is(call[p].ip, i) = 1 /\ Is(c.old, i) = Is(call[p].old, i)
    BY <1>3, <1>a, DirectoryAssumption DEF Is
  <2>2. Is(cwd[p], i) \in Nat /\ Is(open[p], i) \in Nat /\ Is(c.old, i) \in Nat
    BY DEF Is
  <2> QED BY <2>1, <2>2 DEF Own
<1>5. /\ RefsBy(cwd', open', call', i) = Refs(i) - 1
      /\ RefsBy(cwd', open', call', i) \in Nat /\ Refs(i) \in Nat
  <2>1. /\ RefsBy(cwd', open', call', i) + Own(cwd[p], open[p], call[p], i)
             = Refs(i) + Own(cwd[p], open[p], c, i)
        /\ RefsBy(cwd', open', call', i) \in Nat /\ Refs(i) \in Nat
        /\ Own(cwd[p], open[p], c, i) \in Nat
    BY RefsThen
  <2> QED BY <1>4, <2>1
<1>6. {cwd[p], open[p], call[p].ip, call[p].old} \subseteq {cwd[p], open[p], c.ip, c.old, 0, i}
  BY <1>a
<1>7. tree' = Iput(tree, i, Refs(i) - 1)
  BY <1>a
<1>8. Refs(i) - 1 = 0 <=> RefsBy(cwd', open', call', i) = 0
  BY <1>5
<1> QED BY <1>6, <1>7, <1>8, PutHere

LEMMA IdleOK ==
  ASSUME NEW T, NEW w, NEW o, NEW c, UserOK(T, w, o, c)
  PROVE  UserOK(T, w, o, Idle)
BY DEF UserOK

LEMMA CallSteps ==
  ASSUME TreeInv, NEW p \in Users, NEW c, call' = [call EXCEPT ![p] = c],
         cwd' = cwd, open' = open
  PROVE  Steps(p, cwd[p], open[p], c)
<1>1. UserTypes
  BY DEF TreeInv
<1> QED BY <1>1, Standing DEF Steps, Moves

LEMMA EndPut ==
  ASSUME TreeInv, NEW p \in Users, call[p] # Idle, call[p].op # "linkto", call[p].ip # 0,
         tree' = Iput(tree, call[p].ip, Refs(call[p].ip) - 1),
         Ends(p), cwd' = cwd, open' = open, Record({})
  PROVE  TreeInv'
<1>1. UserOK(tree, cwd[p], open[p], Idle) /\ CallOK(tree, call[p])
  BY OwnIs, IdleOK
<1>2. call[p].old = 0
  BY <1>1 DEF CallOK
<1>3. Steps(p, cwd[p], open[p], Idle)
  BY CallSteps DEF Ends
<1> QED BY <1>1, <1>2, <1>3, IdleIs, GiveUp

LEMMA FailStep ==
  ASSUME TreeInv, NEW p \in Users, call[p] # Idle, call[p].ip # 0,
         Fails(p, Iput(tree, call[p].ip, Refs(call[p].ip) - 1)),
         cwd' = cwd, open' = open, Record({})
  PROVE  TreeInv'
<1>1. CASE call[p].op # "linkto"
  BY <1>1, EndPut DEF Fails, Ends
<1>2. CASE call[p].op = "linkto"
  <2>1. PICK c : c = [call[p] EXCEPT !.at = "bad", !.ip = 0]
    OBVIOUS
  <2>2. CallOK(tree, call[p]) /\ UserOK(tree, cwd[p], open[p], call[p])
    BY OwnIs
  <2>3. c \in CallRecs /\ c.op = "linkto" /\ c.at = "bad" /\ c.ip = 0 /\ c.old = call[p].old
    BY <1>2, <2>1, <2>2 DEF CallOK, CallRecs
  <2>4. CallOK(tree, c)
    BY <1>2, <2>2, <2>3 DEF CallOK
  <2>5. UserOK(tree, cwd[p], open[p], c)
    BY <2>2, <2>4 DEF UserOK
  <2>6. Steps(p, cwd[p], open[p], c)
    <3>1. call' = [call EXCEPT ![p] = c]
      BY <1>2, <2>1 DEF Fails
    <3> QED BY <3>1, CallSteps
  <2> QED BY <2>3, <2>5, <2>6, GiveUp DEF Fails
<1> QED BY <1>1, <1>2

LEMMA BeginStep ==
  ASSUME TreeInv, NEW p \in Users, Begin(p)
  PROVE  TreeInv'
<1>1. UserTypes /\ UserOK(tree, cwd[p], open[p], call[p]) /\ tree[RootDir].type = "dir"
  BY OwnIs DEF TreeInv, TabSound, TreeShape
<1>2. PICK a \in Calls :
        call' = [call EXCEPT ![p] = [op |-> a.op, at |-> "walk", ip |-> From(p, a.path),
                                     rest |-> a.path.elems, old |-> 0, to |-> a.to]]
  BY DEF Begin
<1>3. PICK c : c = [op |-> a.op, at |-> "walk", ip |-> From(p, a.path),
                    rest |-> a.path.elems, old |-> 0, to |-> a.to]
  OBVIOUS
<1>4. a \in [op : Ops, path : Paths, to : Paths] /\ a.path.elems \in Seq(STRING)
  BY DirectoryAssumption DEF Paths
<1>5. From(p, a.path) \in Numbers
  BY <1>1, DirectoryAssumption DEF From, RootDir, UserOK
<1>6. c \in CallRecs /\ c.op # "linkto"
  BY <1>3, <1>4, <1>5 DEF CallRecs, Ops
<1>7. 0 \notin Numbers
  BY DirectoryAssumption
<1>8. CallOK(tree, c)
  BY <1>3, <1>5, <1>6, <1>7 DEF CallOK
<1>9. UserOK(tree, cwd[p], open[p], c)
  BY <1>1, <1>8 DEF UserOK
<1>10. Steps(p, cwd[p], open[p], c)
  BY <1>2, <1>3, CallSteps DEF Begin
<1>11. c.old = call[p].old /\ call[p].ip = 0
  BY <1>3, IdleIs DEF Begin
<1> QED BY <1>9, <1>10, <1>11, LookHere DEF Begin

LEMMA AtIs ==
  ASSUME TreeInv, NEW p \in Users, call[p] # Idle, call[p].at # "bad"
  PROVE  /\ CallOK(tree, call[p]) /\ call[p].ip \in Numbers /\ call[p].ip # 0
         /\ call[p].op # "linkto" => call[p].old = 0
BY OwnIs, DirectoryAssumption DEF CallOK

\* A call that goes on to c2 with its op, old and to.
LEMMA GoesOn ==
  ASSUME NEW T, NEW c, CallOK(T, c), NEW c2, c2 \in CallRecs, c2.op = c.op, c2.old = c.old,
         c2.at \in {"walk", "there"}, c2.ip # 0,
         c2.at = "there" /\ c2.op \in ParentOps => T[c2.ip].type = "dir" /\ Len(c2.rest) = 1
  PROVE  CallOK(T, c2)
BY DEF CallOK

LEMMA ThereStep ==
  ASSUME TreeInv, NEW p \in Users, call[p] # Idle, call[p].at = "walk",
         call[p].op \in ParentOps => tree[call[p].ip].type = "dir" /\ Len(call[p].rest) = 1,
         call' = [call EXCEPT ![p].at = "there"], UNCHANGED <<tree, cwd, open>>, Record({})
  PROVE  TreeInv'
<1>1. UserTypes /\ UserOK(tree, cwd[p], open[p], call[p]) /\ CallOK(tree, call[p])
  BY AtIs, OwnIs DEF TreeInv
<1>2. PICK c2 : c2 = [call[p] EXCEPT !.at = "there"]
  OBVIOUS
<1>3. /\ c2 \in CallRecs /\ c2.op = call[p].op /\ c2.at = "there" /\ c2.ip = call[p].ip
      /\ c2.rest = call[p].rest /\ c2.old = call[p].old
  BY <1>1, <1>2 DEF CallOK, CallRecs
<1>4. CallOK(tree, c2)
  BY <1>1, <1>3, AtIs, GoesOn
<1>5. UserOK(tree, cwd[p], open[p], c2)
  BY <1>1, <1>4 DEF UserOK
<1>6. call' = [call EXCEPT ![p] = c2]
  BY <1>2
<1>7. Steps(p, cwd[p], open[p], c2)
  BY <1>6, CallSteps
<1>8. tree' = tree /\ {cwd[p], open[p], call[p].ip, call[p].old} \subseteq {cwd[p], open[p], c2.ip, c2.old, 0}
  BY <1>3
<1> QED BY <1>3, <1>5, <1>7, <1>8, LookHere

LEMMA OnwardStep ==
  ASSUME TreeInv, NEW p \in Users, call[p] # Idle, call[p].at = "walk",
         NEW next \in Numbers, NEW c2,
         c2 = [call[p] EXCEPT !.ip = next, !.rest = Tail(call[p].rest)], call[p].rest # <<>>,
         Steps(p, cwd[p], open[p], c2), Record({}),
         tree' = Iput(tree, call[p].ip,
                      IF next = call[p].ip THEN Refs(call[p].ip) ELSE Refs(call[p].ip) - 1)
  PROVE  TreeInv'
<1>1. /\ UserOK(tree, cwd[p], open[p], call[p]) /\ CallOK(tree, call[p])
      /\ 0 \notin Numbers
  BY AtIs, OwnIs, DirectoryAssumption
<1>2. /\ c2 \in CallRecs /\ c2.op = call[p].op /\ c2.at = "walk" /\ c2.ip = next
      /\ c2.old = call[p].old
  <2>1. Tail(call[p].rest) \in Seq(STRING)
    <3>1. PICK r : r = call[p].rest
      OBVIOUS
    <3>2. r \in Seq(STRING) /\ r # <<>>
      BY <1>1, <3>1, CallIs
    <3>3. Tail(r) \in Seq(STRING)
      BY <3>2
    <3> QED BY <3>1, <3>3
  <2> QED BY <1>1, <2>1 DEF CallOK, CallRecs
<1>3. CallOK(tree, c2)
  BY <1>1, <1>2, GoesOn
<1>4. UserOK(tree, cwd[p], open[p], c2)
  BY <1>1, <1>3 DEF UserOK
<1>5. PICK i \in Numbers : i = call[p].ip
  BY AtIs
<1>6. Own(cwd[p], open[p], call[p], i) + Is(next, i) = Own(cwd[p], open[p], c2, i) + 1
  <2>1. Is(c2.ip, i) = Is(next, i) /\ Is(call[p].ip, i) = 1 /\ Is(c2.old, i) = Is(call[p].old, i)
    BY <1>2, <1>5 DEF Is
  <2>2. Is(cwd[p], i) \in Nat /\ Is(open[p], i) \in Nat /\ Is(c2.old, i) \in Nat /\ Is(next, i) \in Nat
    BY DEF Is
  <2> QED BY <2>1, <2>2 DEF Own
<1>7. /\ RefsBy(cwd', open', call', i) + Own(cwd[p], open[p], call[p], i)
           = Refs(i) + Own(cwd[p], open[p], c2, i)
      /\ RefsBy(cwd', open', call', i) \in Nat /\ Refs(i) \in Nat
      /\ Own(cwd[p], open[p], c2, i) \in Nat
  BY RefsThen
<1>8. RefsBy(cwd', open', call', i) = IF next = i THEN Refs(i) ELSE Refs(i) - 1
  <2>1. PICK a, b, x, y : /\ a = Own(cwd[p], open[p], call[p], i) /\ b = Own(cwd[p], open[p], c2, i)
                          /\ x = RefsBy(cwd', open', call', i) /\ y = Refs(i)
    OBVIOUS
  <2>2. a \in Nat /\ b \in Nat /\ x \in Nat /\ y \in Nat /\ x + a = y + b
    <3>1. Own(cwd[p], open[p], call[p], i) \in Nat
      BY DEF Own, Is
    <3> QED BY <1>7, <2>1, <3>1
  <2>3. a + Is(next, i) = b + 1
    BY <1>6, <2>1
  <2>4. CASE next = i
    <3>1. a = b
      BY <2>2, <2>3, <2>4 DEF Is
    <3> QED BY <2>1, <2>2, <2>4, <3>1
  <2>5. CASE next # i
    <3>1. a = b + 1
      BY <2>2, <2>3, <2>5 DEF Is
    <3>2. x = y - 1
      BY <2>2, <3>1
    <3> QED BY <2>1, <2>5, <3>2
  <2> QED BY <2>4, <2>5
<1>9. {cwd[p], open[p], call[p].ip, call[p].old} \subseteq {cwd[p], open[p], c2.ip, c2.old, 0, i}
  BY <1>2, <1>5
<1>10. tree' = Iput(tree, i, IF next = i THEN Refs(i) ELSE Refs(i) - 1)
  BY <1>5
<1> DEFINE others == IF next = i THEN Refs(i) ELSE Refs(i) - 1
<1>11. others = 0 <=> RefsBy(cwd', open', call', i) = 0
  BY <1>8
<1> HIDE DEF others
<1>12. tree' = Iput(tree, i, others)
  BY <1>10 DEF others
<1> QED BY <1>2, <1>4, <1>9, <1>11, <1>12, PutHere

LEMMA WalkStep ==
  ASSUME TreeInv, NEW p \in Users, Walk(p)
  PROVE  TreeInv'
<1> DEFINE c == call[p]
           next == IF c.rest = <<>> THEN 0 ELSE DirLookup(tree, c.ip, Head(c.rest))
           stays == IF next = c.ip THEN Refs(c.ip) ELSE Refs(c.ip) - 1
<1>1. /\ call[p] # Idle /\ call[p].at = "walk" /\ call[p].ip # 0 /\ call[p].ip \in Numbers
      /\ cwd' = cwd /\ open' = open /\ Record({})
  BY AtIs DEF Walk
<1>2. CASE Fails(p, Iput(tree, c.ip, Refs(c.ip) - 1))
  BY <1>1, <1>2, FailStep
<1>3. CASE /\ call' = [call EXCEPT ![p].at = "there"] /\ UNCHANGED tree
           /\ c.op \in ParentOps => tree[c.ip].type = "dir" /\ Len(c.rest) = 1
  BY <1>1, <1>3, ThereStep
<1>4. CASE /\ c.rest # <<>> /\ next # 0
           /\ call' = [call EXCEPT ![p] = [c EXCEPT !.ip = next, !.rest = Tail(c.rest)]]
           /\ tree' = Iput(tree, c.ip, stays)
  <2>1. next \in Numbers
    BY <1>1, <1>4, LookupIs DEF TreeInv, TabSound
  <2>2. PICK n \in Numbers : n = next
    BY <2>1
  <2>3. PICK c2 : c2 = [call[p] EXCEPT !.ip = n, !.rest = Tail(call[p].rest)]
    OBVIOUS
  <2>4. call' = [call EXCEPT ![p] = c2]
    BY <1>4, <2>2, <2>3
  <2>5. Steps(p, cwd[p], open[p], c2)
    BY <1>1, <2>4, CallSteps
  <2>6. tree' = Iput(tree, call[p].ip, IF n = call[p].ip THEN Refs(call[p].ip) ELSE Refs(call[p].ip) - 1)
    BY <1>4, <2>2
  <2> HIDE DEF next, stays
  <2> QED BY <1>1, <1>4, <2>3, <2>5, <2>6, OnwardStep
<1>5. \/ Fails(p, Iput(tree, c.ip, Refs(c.ip) - 1))
      \/ /\ call' = [call EXCEPT ![p].at = "there"] /\ UNCHANGED tree
         /\ c.op \in ParentOps => tree[c.ip].type = "dir" /\ Len(c.rest) = 1
      \/ /\ c.rest # <<>> /\ next # 0
         /\ call' = [call EXCEPT ![p] = [c EXCEPT !.ip = next, !.rest = Tail(c.rest)]]
         /\ tree' = Iput(tree, c.ip, stays)
  BY DEF Walk
<1> QED BY <1>2, <1>3, <1>4, <1>5

LEMMA OpenStep ==
  ASSUME TreeInv, NEW p \in Users, OpenPath(p)
  PROVE  TreeInv'
<1>1. /\ call[p].op = "open" /\ call[p].at = "there" /\ tree[call[p].ip].type # "none"
      /\ Ends(p) /\ cwd' = cwd /\ Record({})
  BY DEF OpenPath, At, NoInode
<1>2. call[p] # Idle
  BY <1>1, IdleIs
<1>3. call[p].ip # 0 /\ call[p].ip \in Numbers /\ call[p].old = 0 /\ UserTypes
  BY <1>1, <1>2, AtIs DEF TreeInv
<1>4. CASE tree' = Iput(tree, call[p].ip, Refs(call[p].ip) - 1) /\ UNCHANGED open
  BY <1>1, <1>2, <1>3, <1>4, EndPut
<1>5. CASE /\ open[p] = 0 /\ open' = [open EXCEPT ![p] = call[p].ip] /\ UNCHANGED tree
  <2>1. PICK i \in Numbers : i = call[p].ip
    BY <1>3
  <2>2. UserOK(tree, cwd[p], i, Idle)
    BY <1>1, <2>1, OwnIs DEF UserOK
  <2>3. Steps(p, cwd[p], i, Idle)
    BY <1>1, <1>3, <1>5, <2>1, Standing DEF Steps, Moves, Ends
  <2>4. {cwd[p], open[p], call[p].ip, call[p].old} \subseteq {cwd[p], i, Idle.ip, Idle.old, 0}
    BY <1>3, <1>5, <2>1
  <2>5. Idle.old = call[p].old /\ tree' = tree
    BY <1>3, <1>5, IdleIs
  <2> QED BY <1>1, <2>2, <2>3, <2>4, <2>5, LookHere
<1> QED BY <1>4, <1>5 DEF OpenPath

LEMMA CloseStep ==
  ASSUME TreeInv, NEW p \in Users, CloseFile(p)
  PROVE  TreeInv'
<1>1. /\ call[p] = Idle /\ open[p] # 0 /\ open[p] \in Numbers /\ UserTypes
      /\ tree' = Iput(tree, open[p], Refs(open[p]) - 1) /\ Record({})
  BY OwnIs DEF CloseFile, TreeInv
<1>2. PICK i \in Numbers : i = open[p]
  BY <1>1
<1>3. UserOK(tree, cwd[p], 0, Idle)
  BY OwnIs DEF UserOK
<1>4. Steps(p, cwd[p], 0, Idle)
  BY <1>1, Standing DEF CloseFile, Steps, Moves
<1>5. Own(cwd[p], open[p], call[p], i) = Own(cwd[p], 0, Idle, i) + 1
  <2>1. Is(open[p], i) = 1 /\ Is(0, i) = 0 /\ Is(call[p].ip, i) = Is(Idle.ip, i) /\ Is(call[p].old, i) = Is(Idle.old, i)
    BY <1>1, <1>2, DirectoryAssumption DEF Is
  <2>2. Is(cwd[p], i) \in Nat /\ Is(Idle.ip, i) \in Nat /\ Is(Idle.old, i) \in Nat
    BY DEF Is
  <2> QED BY <2>1, <2>2 DEF Own
<1>6. /\ RefsBy(cwd', open', call', i) + Own(cwd[p], open[p], call[p], i)
           = Refs(i) + Own(cwd[p], 0, Idle, i)
      /\ RefsBy(cwd', open', call', i) \in Nat /\ Refs(i) \in Nat
      /\ Own(cwd[p], 0, Idle, i) \in Nat
  BY <1>4, RefsThen
<1>7. Refs(i) - 1 = 0 <=> RefsBy(cwd', open', call', i) = 0
  BY <1>5, <1>6
<1>8. {cwd[p], open[p], call[p].ip, call[p].old} \subseteq {cwd[p], 0, Idle.ip, Idle.old, 0, i}
  BY <1>1, <1>2
<1>9. tree' = Iput(tree, i, Refs(i) - 1) /\ Idle.old = call[p].old
  BY <1>1, <1>2
<1> QED BY <1>1, <1>3, <1>4, <1>7, <1>8, <1>9, PutHere

LEMMA ChdirStep ==
  ASSUME TreeInv, NEW p \in Users, Chdir(p)
  PROVE  TreeInv'
<1>1. /\ call[p].op = "chdir" /\ call[p].at = "there"
      /\ Ends(p) /\ open' = open /\ Record({})
  BY DEF Chdir, At
<1>2. call[p] # Idle
  BY <1>1, IdleIs
<1>3. /\ call[p].ip # 0 /\ call[p].ip \in Numbers /\ call[p].old = 0 /\ UserTypes
      /\ cwd[p] \in Numbers
  BY <1>1, <1>2, AtIs, OwnIs DEF TreeInv
<1>4. CASE tree[call[p].ip].type # "dir"
  <2>1. tree' = Iput(tree, call[p].ip, Refs(call[p].ip) - 1) /\ cwd' = cwd
    BY <1>4 DEF Chdir
  <2> QED BY <1>1, <1>2, <1>3, <2>1, EndPut
<1>5. CASE tree[call[p].ip].type = "dir"
  <2>1. PICK i \in Numbers, w \in Numbers : i = cwd[p] /\ w = call[p].ip
    BY <1>3
  <2>2. UserOK(tree, w, open[p], Idle)
    BY <1>5, <2>1, OwnIs DEF UserOK
  <2>3. Steps(p, w, open[p], Idle)
    BY <1>1, <1>3, <1>5, <2>1, Standing DEF Chdir, Steps, Moves, Ends
  <2>4. {cwd[p], open[p], call[p].ip, call[p].old} \subseteq {w, open[p], Idle.ip, Idle.old, 0, i}
    BY <1>3, <2>1
  <2>5. Idle.old = call[p].old
    BY <1>3, IdleIs
  <2>6. Own(cwd[p], open[p], call[p], i) = Own(w, open[p], Idle, i) + 1
    <3>1. /\ Is(cwd[p], i) = 1 /\ Is(call[p].ip, i) = Is(w, i) /\ Is(call[p].old, i) = Is(Idle.old, i)
          /\ Is(Idle.ip, i) = 0
      BY <2>1, <2>5, IdleIs, DirectoryAssumption DEF Is
    <3>2. Is(open[p], i) \in Nat /\ Is(w, i) \in Nat /\ Is(Idle.old, i) \in Nat
      BY DEF Is
    <3> QED BY <3>1, <3>2 DEF Own
  <2>7. /\ RefsBy(cwd', open', call', i) + Own(cwd[p], open[p], call[p], i)
             = Refs(i) + Own(w, open[p], Idle, i)
        /\ RefsBy(cwd', open', call', i) \in Nat /\ Refs(i) \in Nat
        /\ Own(w, open[p], Idle, i) \in Nat
        /\ (RefsBy(cwd', open', call', i) = 0 <=> i \notin HeldBy(cwd', open', call'))
    BY <2>3, RefsThen
  <2>8. Refs(i) - 1 = 0 <=> RefsBy(cwd', open', call', i) = 0
    BY <2>6, <2>7
  <2>9. w = i => RefsBy(cwd', open', call', i) # 0
    <3>1. cwd'[p] = w
      BY <1>3, <1>5, <2>1 DEF Chdir, UserTypes
    <3> QED BY <2>7, <3>1 DEF HeldBy
  <2>10. PICK others : others = IF i = w THEN 1 ELSE Refs(i) - 1
    OBVIOUS
  <2>11. tree' = Iput(tree, i, others)
    BY <1>5, <2>1, <2>10 DEF Chdir
  <2>12. others = 0 <=> RefsBy(cwd', open', call', i) = 0
    BY <2>8, <2>9, <2>10
  <2> QED BY <1>1, <2>2, <2>3, <2>4, <2>5, <2>11, <2>12, PutHere
<1> QED BY <1>4, <1>5

-----------------------------------------------------------------------------
(* The steps that change counts or names.                                  *)
LEMMA StaysOn ==
  ASSUME NEW T1, NEW T2, NEW T3, NEW H, Stays(T1, T2, H), Stays(T2, T3, H)
  PROVE  Stays(T1, T3, H)
BY DEF Stays

LEMMA SameStays ==
  ASSUME NEW T1, NEW T2, NEW H \in SUBSET Numbers, \A n \in Numbers : T2[n].type = T1[n].type
  PROVE  Stays(T1, T2, H)
BY DEF Stays

LEMMA DoneHere ==
  ASSUME TreeInv, NEW p \in Users, NEW w, NEW o, NEW c, Steps(p, w, o, c),
         NEW gone \in SUBSET Numbers, Record(gone), NEW T2, tree' = T2,
         TabSound(T2, lost \cup gone, HalfOf(call'), HeldBy(cwd', open', call')),
         Stays(tree, T2, HeldBy(cwd', open', call')),
         UserOK(T2, w, o, c)
  PROVE  TreeInv'
<1>1. PICK cw2, op2, cl2 : cw2 = cwd' /\ op2 = open' /\ cl2 = call'
  OBVIOUS
<1>2. /\ Moves(p, w, o, c, cw2, op2, cl2)
      /\ TabSound(T2, lost \cup gone, HalfOf(cl2), HeldBy(cw2, op2, cl2))
      /\ Stays(tree, T2, HeldBy(cw2, op2, cl2))
  BY <1>1 DEF Steps
<1>3. Goes(p, w, o, c, T2, cw2, op2, cl2, gone)
  BY <1>1, <1>2 DEF Goes
<1> QED BY <1>2, <1>3, CallStep

\* What process p had it keeps or puts.
Keeps(p, w, o, c, puts) ==
  {cwd[p], open[p], call[p].ip, call[p].old} \subseteq {w, o, c.ip, c.old, 0} \cup puts

\* What holds when the step begins.
LEMMA HoldHere ==
  ASSUME TreeInv, NEW p \in Users, NEW w, NEW o, NEW c, Steps(p, w, o, c), NEW puts,
         Keeps(p, w, o, c, puts)
  PROVE  /\ TabSound(tree, lost, HalfOf(call), HeldBy(cwd', open', call') \cup puts)
         /\ HeldBy(cwd', open', call') \in SUBSET Numbers
         /\ \A n \in Numbers : n \in {w, o, c.ip, c.old} => n \in HeldBy(cwd', open', call')
         /\ HalfOf(call') \in [Numbers -> Nat] /\ HalfOf(call) \in [Numbers -> Nat]
         /\ \A n \in Numbers :
              HalfOf(call')[n] + Is(call[p].old, n) = HalfOf(call)[n] + Is(c.old, n)
<1>1. PICK cw2, op2, cl2 : cw2 = cwd' /\ op2 = open' /\ cl2 = call'
  OBVIOUS
<1>2. Moves(p, w, o, c, cw2, op2, cl2) /\ UserTypes
  BY <1>1 DEF Steps, TreeInv
<1>3. TabSound(tree, lost, HalfOf(call), HeldBy(cw2, op2, cl2) \cup puts)
  BY <1>2, HoldStep DEF Keeps
<1>4. /\ HeldBy(cw2, op2, cl2) \in SUBSET Numbers
      /\ \A n \in Numbers : n \in {w, o, c.ip, c.old} => n \in HeldBy(cw2, op2, cl2)
  BY <1>2, HeldMoves
<1>5. /\ HalfOf(cl2) \in [Numbers -> Nat] /\ HalfOf(call) \in [Numbers -> Nat]
      /\ \A n \in Numbers :
           HalfOf(cl2)[n] + Is(call[p].old, n) = HalfOf(call)[n] + Is(c.old, n)
  BY <1>2, HalfMoves
<1> QED BY <1>1, <1>3, <1>4, <1>5

LEMMA EnterNow ==
  ASSUME NEW T, NEW L, NEW h, NEW H, TabSound(T, L, h, H),
         NEW d \in Numbers, T[d].type = "dir", NEW i \in Numbers, T[i].type # "dir",
         NEW name \in EntryNames, DirLookup(T, d, name) = 0,
         NEW h2, OneMore(h2, h, i),
         NEW M, L \subseteq M, d \notin Reachable(T) => i \in M,
         NEW T2, T2 = DirEnter(T, d, Entry(name, i))
  PROVE  TabSound(T2, M, h2, H) /\ SameTypes(T, T2)
<1>1. /\ h2 \in [Numbers -> Nat] /\ h2[i] \in Nat /\ h[i] = h2[i] + 1
      /\ \A n \in Numbers \ {i} : h2[n] = h[n]
  BY DEF OneMore
<1>2. h[i] > 0 /\ h2[i] = h[i] - 1
  BY <1>1
<1> QED BY <1>1, <1>2, EnterSound DEF SameTypes

LEMMA CutNow ==
  ASSUME NEW T, NEW L, NEW h, NEW H, TabSound(T, L, h, H),
         NEW dp \in H, NEW slot, NEW i, Says(T, dp, slot, i),
         T[i].type = "dir" => IsDirEmpty(T, i),
         NEW h2, OneMore(h, h2, i), NEW T2, T2 = Cut(T, dp, slot, i)
  PROVE  TabSound(T2, L, h2, H) /\ SameTypes(T, T2)
<1>1. /\ h2 \in [Numbers -> Nat] /\ h2[i] = h[i] + 1 /\ \A n \in Numbers \ {i} : h2[n] = h[n]
  BY DEF OneMore
<1>2. TabSound(T2, L, h2, H \cup {dp}) /\ \A n \in Numbers : T2[n].type = T[n].type
  BY <1>1, CutSound
<1>3. H \cup {dp} = H
  OBVIOUS
<1> QED BY <1>2, <1>3 DEF SameTypes

LEMMA IputNow ==
  ASSUME NEW T, NEW L, NEW h, NEW G, TabSound(T, L, h, G),
         NEW H \in SUBSET Numbers, NEW i \in Numbers, G \subseteq H \cup {i},
         NEW others, others = 0 <=> i \notin H, NEW T2, T2 = Iput(T, i, others)
  PROVE  TabSound(T2, L, h, H) /\ Stays(T, T2, H)
<1>1. TabSound(T, L, h, H \cup {i})
  <2>1. PICK K : K = H \cup {i}
    OBVIOUS
  <2>2. \A n \in Numbers : n \in G => n \in K
    BY <2>1
  <2>3. TabSound(T, L, h, K)
    BY <2>2, LostMore
  <2> QED BY <2>1, <2>3
<1> QED BY <1>1, IputSound

LEMMA HalfUp ==
  ASSUME TreeInv, NEW p \in Users, NEW w, NEW o, NEW c, Steps(p, w, o, c),
         call[p].old = 0, c.old \in Numbers
  PROVE  OneMore(HalfOf(call), HalfOf(call'), c.old)
<1>1. PICK i \in Numbers, h \in {HalfOf(call)}, h2 \in {HalfOf(call')} : h = HalfOf(call) /\ h2 = HalfOf(call') /\ i = c.old
  OBVIOUS
<1>2. PICK cw2, op2, cl2 : cw2 = cwd' /\ op2 = open' /\ cl2 = call'
  OBVIOUS
<1>3. Moves(p, w, o, c, cw2, op2, cl2) /\ UserTypes
  BY <1>2 DEF Steps, TreeInv
<1>4. /\ h2 \in [Numbers -> Nat] /\ h \in [Numbers -> Nat]
      /\ \A n \in Numbers : h2[n] + Is(call[p].old, n) = h[n] + Is(i, n)
  BY <1>1, <1>2, <1>3, HalfMoves
<1>5. /\ \A n \in Numbers : Is(call[p].old, n) = 0
      /\ Is(i, i) = 1 /\ \A n \in Numbers \ {i} : Is(i, n) = 0
  BY DirectoryAssumption DEF Is
<1>6. h2[i] + 0 = h[i] + 1 /\ \A n \in Numbers \ {i} : h2[n] + 0 = h[n] + 0
  BY <1>4, <1>5
<1>7. h2[i] = h[i] + 1
  BY <1>4, <1>6
<1>8. ASSUME NEW n \in Numbers \ {i} PROVE h2[n] = h[n]
  BY <1>4, <1>6
<1> QED BY <1>1, <1>4, <1>7, <1>8 DEF OneMore

LEMMA HalfDown ==
  ASSUME TreeInv, NEW p \in Users, NEW w, NEW o, NEW c, Steps(p, w, o, c),
         call[p].old \in Numbers, c.old = 0
  PROVE  OneMore(HalfOf(call'), HalfOf(call), call[p].old)
<1>1. PICK i \in Numbers, h \in {HalfOf(call)}, h2 \in {HalfOf(call')} : h = HalfOf(call) /\ h2 = HalfOf(call') /\ i = call[p].old
  OBVIOUS
<1>2. PICK cw2, op2, cl2 : cw2 = cwd' /\ op2 = open' /\ cl2 = call'
  OBVIOUS
<1>3. Moves(p, w, o, c, cw2, op2, cl2) /\ UserTypes
  BY <1>2 DEF Steps, TreeInv
<1>4. /\ h2 \in [Numbers -> Nat] /\ h \in [Numbers -> Nat]
      /\ \A n \in Numbers : h2[n] + Is(i, n) = h[n] + Is(c.old, n)
  BY <1>1, <1>2, <1>3, HalfMoves
<1>5. /\ \A n \in Numbers : Is(c.old, n) = 0
      /\ Is(i, i) = 1 /\ \A n \in Numbers \ {i} : Is(i, n) = 0
  BY DirectoryAssumption DEF Is
<1>6. h2[i] + 1 = h[i] + 0 /\ \A n \in Numbers \ {i} : h2[n] + 0 = h[n] + 0
  BY <1>4, <1>5
<1>7. h[i] = h2[i] + 1
  BY <1>4, <1>6
<1>8. ASSUME NEW n \in Numbers \ {i} PROVE h[n] = h2[n]
  BY <1>4, <1>6
<1> QED BY <1>1, <1>4, <1>7, <1>8 DEF OneMore

LEMMA HalfSame ==
  ASSUME TreeInv, NEW p \in Users, NEW w, NEW o, NEW c, Steps(p, w, o, c),
         c.old = call[p].old
  PROVE  HalfOf(call') = HalfOf(call)
<1>1. PICK cw2, op2, cl2 : cw2 = cwd' /\ op2 = open' /\ cl2 = call'
  OBVIOUS
<1>2. Moves(p, w, o, c, cw2, op2, cl2) /\ UserTypes
  BY <1>1 DEF Steps, TreeInv
<1> QED BY <1>1, <1>2, HalfMoves

LEMMA LinkFirstStep ==
  ASSUME TreeInv, NEW p \in Users, LinkFirst(p)
  PROVE  TreeInv'
<1>1. /\ call[p].op = "link" /\ call[p].at = "there" /\ tree[call[p].ip].type # "none"
      /\ cwd' = cwd /\ open' = open /\ Record({})
  BY DEF LinkFirst, At, NoInode
<1>2. call[p] # Idle
  BY <1>1, IdleIs
<1>3. /\ call[p].ip # 0 /\ call[p].ip \in Numbers /\ call[p].old = 0 /\ CallOK(tree, call[p])
      /\ UserOK(tree, cwd[p], open[p], call[p]) /\ TreeShape(tree) /\ 0 \notin Numbers
  BY <1>1, <1>2, AtIs, OwnIs, DirectoryAssumption DEF TreeInv, TabSound
<1>4. CASE tree[call[p].ip].type = "dir"
  <2>1. tree' = Iput(tree, call[p].ip, Refs(call[p].ip) - 1) /\ Ends(p)
    BY <1>4 DEF LinkFirst
  <2> QED BY <1>1, <1>2, <1>3, <2>1, EndPut
<1>5. CASE tree[call[p].ip].type # "dir"
  <2>1. PICK i \in Numbers, to \in Paths : i = call[p].ip /\ to = call[p].to
    BY <1>3, CallIs
  <2>2. PICK c : c = [op |-> "linkto", at |-> "walk", ip |-> From(p, to),
                      rest |-> to.elems, old |-> i, to |-> to]
    OBVIOUS
  <2>3. call' = [call EXCEPT ![p] = c]
    BY <1>5, <2>1, <2>2 DEF LinkFirst
  <2>4. Steps(p, cwd[p], open[p], c)
    BY <1>1, <2>3, CallSteps
  <2>5. From(p, to) \in Numbers
    BY <1>3, DirectoryAssumption DEF From, RootDir, UserOK
  <2>6. /\ c \in CallRecs /\ c.old = i /\ c.op = "linkto" /\ c.at = "walk" /\ c.ip # 0
    <3>1. to.elems \in Seq(STRING)
      BY DEF Paths
    <3> QED BY <1>3, <2>2, <2>5, <3>1 DEF CallRecs
  <2>7. PICK h, h2, H : h = HalfOf(call) /\ h2 = HalfOf(call') /\ H = HeldBy(cwd', open', call')
    OBVIOUS
  <2>8. Keeps(p, cwd[p], open[p], c, {i})
    BY <1>3, <2>1, <2>6 DEF Keeps
  <2>9. /\ TabSound(tree, lost, h, H) /\ H \in SUBSET Numbers /\ i \in H
        /\ \A n \in Numbers : n \in {cwd[p], open[p], c.ip, c.old} => n \in H
    <3>1. /\ TabSound(tree, lost, h, H \cup {i}) /\ H \in SUBSET Numbers
          /\ \A n \in Numbers : n \in {cwd[p], open[p], c.ip, c.old} => n \in H
      BY <2>4, <2>7, <2>8, HoldHere
    <3>2. i \in H
      BY <2>6, <3>1
    <3>3. H \cup {i} = H
      BY <3>2
    <3> QED BY <3>1, <3>2, <3>3
  <2>10. OneMore(h, h2, i)
    BY <1>3, <2>4, <2>6, <2>7, HalfUp
  <2>a. PICK T2 : T2 = tree'
    OBVIOUS
  <2>11. Upped(tree, T2, i)
    <3>1. tree' = [tree EXCEPT ![i].nlink = @ + 1]
      BY <1>5, <2>1 DEF LinkFirst
    <3> QED BY <2>a, <3>1 DEF Upped
  <2>b. tree[i].type # "none"
    BY <1>1, <2>1
  <2>12. TabSound(T2, lost, h2, H) /\ SameTypes(tree, T2)
    BY <2>9, <2>10, <2>11, <2>b, MoreNow
  <2>13. TabSound(T2, lost \cup {}, h2, H)
    <3>1. lost \cup {} = lost
      OBVIOUS
    <3> QED BY <2>12, <3>1
  <2>14. Stays(tree, T2, H)
    BY <2>9, <2>12, SameStays DEF SameTypes
  <2>15. UserOK(T2, cwd[p], open[p], c)
    <3>1. tree[i].type \in {"file", "dev"}
      BY <1>1, <1>3, <1>5, <2>1, ShapeTypes
    <3>2. CallOK(T2, c)
      BY <1>3, <2>6, <2>12, <3>1 DEF CallOK, SameTypes
    <3>3. cwd[p] \in Numbers /\ T2[cwd[p]].type = "dir"
      BY <1>3, <2>12 DEF UserOK, SameTypes
    <3>4. open[p] \in Numbers \cup {0} /\ (open[p] # 0 => T2[open[p]].type # "none")
      BY <1>3, <2>12 DEF UserOK, SameTypes
    <3> QED BY <3>2, <3>3, <3>4 DEF UserOK
  <2> QED BY <1>1, <2>4, <2>7, <2>a, <2>13, <2>14, <2>15, DoneHere
<1> QED BY <1>4, <1>5

\* The call of p ends; its references to ip and old are given up.
LEMMA EndRefs ==
  ASSUME TreeInv, NEW p \in Users, Steps(p, cwd[p], open[p], Idle), NEW i \in Numbers
  PROVE  /\ RefsBy(cwd', open', call', i) + Is(call[p].ip, i) + Is(call[p].old, i) = Refs(i)
         /\ RefsBy(cwd', open', call', i) \in Nat
         /\ (RefsBy(cwd', open', call', i) = 0 <=> i \notin HeldBy(cwd', open', call'))
<1>1. /\ RefsBy(cwd', open', call', i) + Own(cwd[p], open[p], call[p], i)
           = Refs(i) + Own(cwd[p], open[p], Idle, i)
      /\ RefsBy(cwd', open', call', i) \in Nat /\ Refs(i) \in Nat
      /\ (RefsBy(cwd', open', call', i) = 0 <=> i \notin HeldBy(cwd', open', call'))
  BY RefsThen
<1>2. PICK a, b, x, y, u, v : /\ a = Is(cwd[p], i) /\ b = Is(open[p], i)
                              /\ x = RefsBy(cwd', open', call', i) /\ y = Refs(i)
                              /\ u = Is(call[p].ip, i) /\ v = Is(call[p].old, i)
  OBVIOUS
<1>3. a \in Nat /\ b \in Nat /\ u \in Nat /\ v \in Nat
  BY <1>2 DEF Is
<1>4. Is(Idle.ip, i) = 0 /\ Is(Idle.old, i) = 0
  BY IdleIs, DirectoryAssumption DEF Is
<1>5. Own(cwd[p], open[p], call[p], i) = a + b + u + v /\ Own(cwd[p], open[p], Idle, i) = a + b + 0 + 0
  BY <1>2, <1>4 DEF Own
<1>6. x \in Nat /\ y \in Nat /\ x + (a + b + u + v) = y + (a + b + 0 + 0)
  BY <1>1, <1>2, <1>5
<1>7. x + u + v = y
  BY <1>3, <1>6
<1> QED BY <1>1, <1>2, <1>7

LEMMA EndHold ==
  ASSUME TreeInv, NEW p \in Users, Steps(p, cwd[p], open[p], Idle),
         NEW G, HeldBy(cwd', open', call') \subseteq G,
         \A n \in Numbers : n = call[p].ip \/ n = call[p].old => n \in G
  PROVE  /\ TabSound(tree, lost, HalfOf(call), G)
         /\ HeldBy(cwd', open', call') \in SUBSET Numbers
         /\ cwd[p] \in HeldBy(cwd', open', call')
         /\ open[p] \in Numbers => open[p] \in HeldBy(cwd', open', call')
<1>1. PICK H, puts : H = HeldBy(cwd', open', call') /\ puts = {call[p].ip, call[p].old}
  OBVIOUS
<1>2. PICK c : c = Idle
  OBVIOUS
<1>3. /\ TabSound(tree, lost, HalfOf(call), HeldBy(cwd', open', call') \cup puts)
      /\ HeldBy(cwd', open', call') \in SUBSET Numbers
      /\ \A n \in Numbers : n \in {cwd[p], open[p], c.ip, c.old} => n \in HeldBy(cwd', open', call')
  <2>1. Steps(p, cwd[p], open[p], c)
    BY <1>2
  <2>2. Keeps(p, cwd[p], open[p], c, puts)
    BY <1>1 DEF Keeps
  <2> QED BY <2>1, <2>2, HoldHere
<1>4. PICK K : K = H \cup puts
  OBVIOUS
<1>5. \A n \in Numbers : n \in K => n \in G
  BY <1>1, <1>4
<1>6. TabSound(tree, lost, HalfOf(call), K)
  BY <1>1, <1>3, <1>4
<1>7. TabSound(tree, lost, HalfOf(call), G)
  BY <1>5, <1>6, LostMore
<1>8. cwd[p] \in Numbers
  BY OwnIs
<1> QED BY <1>3, <1>7, <1>8

\* Nothing is left of the call and the tree is T2.
LEMMA EndHere ==
  ASSUME TreeInv, NEW p \in Users, Steps(p, cwd[p], open[p], Idle),
         NEW gone \in SUBSET Numbers, Record(gone), NEW T2, tree' = T2,
         NEW M, M = lost \cup gone,
         NEW h2, h2 = HalfOf(call'), NEW H, H = HeldBy(cwd', open', call'),
         TabSound(T2, M, h2, H), Stays(tree, T2, H)
  PROVE  TreeInv'
<1>1. cwd[p] \in H /\ (open[p] \in Numbers => open[p] \in H)
  <2>1. PICK G : G = HeldBy(cwd', open', call') \cup {call[p].ip, call[p].old}
    OBVIOUS
  <2>2. /\ HeldBy(cwd', open', call') \subseteq G
        /\ \A n \in Numbers : n = call[p].ip \/ n = call[p].old => n \in G
    BY <2>1
  <2> QED BY <2>2, EndHold
<1>2. UserOK(tree, cwd[p], open[p], Idle)
  BY OwnIs, IdleOK
<1>3. \A n \in Numbers : n \in {cwd[p], open[p], Idle.ip, Idle.old} => n \in H
  BY <1>1, IdleIs, DirectoryAssumption
<1>4. UserOK(T2, cwd[p], open[p], Idle)
  BY <1>2, <1>3, UserStays
<1>5. /\ TabSound(T2, lost \cup gone, HalfOf(call'), HeldBy(cwd', open', call'))
      /\ Stays(tree, T2, HeldBy(cwd', open', call'))
  OBVIOUS
<1> QED BY <1>4, <1>5, DoneHere

LEMMA LinkUndoStep ==
  ASSUME TreeInv, NEW p \in Users, LinkUndo(p)
  PROVE  TreeInv'
<1>1. /\ call[p] # Idle /\ call[p].at = "bad" /\ Ends(p) /\ cwd' = cwd /\ open' = open /\ Record({})
  BY DEF LinkUndo
<1>2. CallOK(tree, call[p]) /\ call[p].ip = 0 /\ call[p].old \in Numbers /\ 0 \notin Numbers
  BY <1>1, OwnIs, DirectoryAssumption DEF CallOK
<1>3. Steps(p, cwd[p], open[p], Idle)
  BY <1>1, CallSteps DEF Ends
<1>4. PICK i \in Numbers : i = call[p].old
  BY <1>2
<1>5. PICK h, h2, H, G : /\ h = HalfOf(call) /\ h2 = HalfOf(call')
                         /\ H = HeldBy(cwd', open', call') /\ G = H \cup {i}
  OBVIOUS
<1>6. TabSound(tree, lost, h, G) /\ H \in SUBSET Numbers /\ i \in G
  <2>1. /\ HeldBy(cwd', open', call') \subseteq G
        /\ \A n \in Numbers : n = call[p].ip \/ n = call[p].old => n \in G
    BY <1>2, <1>4, <1>5
  <2> QED BY <1>3, <1>5, <2>1, EndHold
<1>7. OneMore(h2, h, i)
  BY <1>2, <1>3, <1>4, <1>5, IdleIs, HalfDown
<1>8. PICK T1 : T1 = [tree EXCEPT ![i].nlink = tree[i].nlink - 1]
  OBVIOUS
<1>9. PICK others : others = Refs(i) - 1
  OBVIOUS
<1>10. PICK T2 : T2 = Iput(T1, i, others)
  OBVIOUS
<1>11. tree' = T2
  BY <1>4, <1>8, <1>9, <1>10 DEF LinkUndo
<1>12. Downed(tree, T1, i)
  BY <1>8 DEF Downed
<1>13. TabSound(T1, lost, h2, G) /\ SameTypes(tree, T1)
  BY <1>6, <1>7, <1>12, LessNow
<1>14. others = 0 <=> i \notin H
  <2>1. /\ RefsBy(cwd', open', call', i) + Is(call[p].ip, i) + Is(call[p].old, i) = Refs(i)
        /\ RefsBy(cwd', open', call', i) \in Nat
        /\ (RefsBy(cwd', open', call', i) = 0 <=> i \notin HeldBy(cwd', open', call'))
    BY <1>3, EndRefs
  <2>2. Is(call[p].ip, i) = 0 /\ Is(call[p].old, i) = 1
    BY <1>2, <1>4 DEF Is
  <2> QED BY <1>5, <1>9, <2>1, <2>2
<1>15. G \subseteq H \cup {i}
  BY <1>5
<1>16. TabSound(T2, lost, h2, H) /\ Stays(T1, T2, H)
  BY <1>6, <1>10, <1>13, <1>14, <1>15, IputNow
<1>17. Stays(tree, T2, H)
  <2>1. Stays(tree, T1, H)
    BY <1>6, <1>13, SameStays DEF SameTypes
  <2> QED BY <1>16, <2>1, StaysOn
<1>18. PICK M, none : none = {} /\ M = lost \cup none
  OBVIOUS
<1>19. M = lost /\ none \in SUBSET Numbers /\ Record(none)
  BY <1>1, <1>18
<1>20. TabSound(T2, M, h2, H)
  BY <1>16, <1>19
<1> QED BY <1>3, <1>5, <1>11, <1>17, <1>18, <1>19, <1>20, EndHere

LEMMA SlotIs ==
  ASSUME NEW T, TreeShape(T), NEW d \in Numbers, T[d].type = "dir", NEW name, name \notin Dots,
         DirLookup(T, d, name) # 0
  PROVE  /\ Says(T, d, Least(SlotsOf(T, d, name)), DirLookup(T, d, name))
         /\ DirLookup(T, d, name) \in Numbers
<1>1. PICK k, i : k = Least(SlotsOf(T, d, name)) /\ i = DirLookup(T, d, name)
  OBVIOUS
<1>2. /\ k \in DOMAIN T[d].ents /\ k \in Nat /\ T[d].ents[k].inum = i
      /\ T[d].ents[k].name = name /\ i \in Numbers \cup {0} /\ i # 0
  BY <1>1, LookupIs
<1>3. k # 1
  <2>1. T[d].ents[1] = Entry(".", d)
    BY DirIs
  <2>2. T[d].ents[1].name \in Dots
    BY <2>1 DEF Entry, Dots
  <2> QED BY <1>2, <2>2
<1>4. k # 2
  <2>1. T[d].ents[2].name \in Dots
    BY DirIs DEF Dots
  <2> QED BY <1>2, <2>1
<1>5. k > 2
  <2>1. DOMAIN T[d].ents = 1 .. Len(T[d].ents) /\ Len(T[d].ents) \in Nat
    BY EntsTypes
  <2>2. k >= 1
    BY <1>2, <2>1
  <2> QED BY <1>2, <1>3, <1>4, <2>2
<1>6. Says(T, d, k, i)
  BY <1>2, <1>5 DEF Says, Mentions
<1> QED BY <1>1, <1>2, <1>6

\* dp's entry goes, dp is put, i's count goes, i is put.
LEMMA UnlinkTree ==
  ASSUME NEW T, NEW L, NEW h, NEW H \in SUBSET Numbers, NEW G, TabSound(T, L, h, G),
         NEW dp, NEW slot, NEW i, Says(T, dp, slot, i),
         G \subseteq H \cup {dp}, dp \in G,
         T[i].type = "dir" => IsDirEmpty(T, i),
         NEW a, a = 0 <=> dp \notin H, NEW b, b = 0 <=> i \notin H,
         NEW T2, T2 = Iput(Cut(T, dp, slot, i), dp, a),
         NEW T3, Downed(T2, T3, i), NEW T4, T4 = Iput(T3, i, b)
  PROVE  TabSound(T4, L, h, H) /\ Stays(T, T4, H)
<1>1. h \in [Numbers -> Nat] /\ dp \in Numbers /\ i \in Numbers
  BY SaysIs DEF TabSound
<1>2. PICK h2 : h2 = [h EXCEPT ![i] = h[i] + 1]
  OBVIOUS
<1>3. OneMore(h, h2, i)
  BY <1>1, <1>2 DEF OneMore
<1>4. PICK T1 : T1 = Cut(T, dp, slot, i)
  OBVIOUS
<1>5. TabSound(T1, L, h2, G) /\ SameTypes(T, T1)
  BY <1>3, <1>4, CutNow
<1>6. T2 = Iput(T1, dp, a)
  BY <1>4
<1>7. TabSound(T2, L, h2, H) /\ Stays(T1, T2, H)
  BY <1>1, <1>5, <1>6, IputNow
<1>8. PICK K : K = H \cup {i}
  OBVIOUS
<1>9. TabSound(T2, L, h2, K) /\ i \in K /\ K \subseteq H \cup {i}
  <2>1. \A n \in Numbers : n \in H => n \in K
    BY <1>8
  <2>2. TabSound(T2, L, h2, K)
    BY <1>7, <2>1, LostMore
  <2> QED BY <1>8, <2>2
<1>10. TabSound(T3, L, h, K) /\ SameTypes(T2, T3)
  BY <1>1, <1>3, <1>9, LessNow
<1>11. TabSound(T4, L, h, H) /\ Stays(T3, T4, H)
  BY <1>1, <1>9, <1>10, IputNow
<1>12. Stays(T, T1, H) /\ Stays(T2, T3, H)
  BY <1>5, <1>10, SameStays DEF SameTypes
<1>13. Stays(T, T2, H)
  BY <1>7, <1>12, StaysOn
<1>14. Stays(T, T3, H)
  BY <1>12, <1>13, StaysOn
<1>15. Stays(T, T4, H)
  BY <1>11, <1>14, StaysOn
<1> QED BY <1>11, <1>15

LEMMA UnlinkStep ==
  ASSUME TreeInv, NEW p \in Users, UnlinkPath(p)
  PROVE  TreeInv'
<1>1. /\ call[p].op = "unlink" /\ call[p].at = "there"
      /\ Ends(p) /\ cwd' = cwd /\ open' = open /\ Record({})
  BY DEF UnlinkPath, At
<1>2. call[p] # Idle
  BY <1>1, IdleIs
<1>3. /\ call[p].ip # 0 /\ call[p].ip \in Numbers /\ call[p].old = 0 /\ CallOK(tree, call[p])
      /\ TreeShape(tree) /\ 0 \notin Numbers
  BY <1>1, <1>2, AtIs, DirectoryAssumption DEF TreeInv, TabSound
<1>4. tree[call[p].ip].type = "dir"
  BY <1>1, <1>3 DEF CallOK, ParentOps
<1> DEFINE name == call[p].rest[1]
           found == DirLookup(tree, call[p].ip, name)
<1>5. CASE ~(found # 0 /\ MayUnlink(tree, call[p].ip, name, found))
  <2>1. tree' = Iput(tree, call[p].ip, Refs(call[p].ip) - 1)
    BY <1>5 DEF UnlinkPath
  <2> QED BY <1>1, <1>2, <1>3, <2>1, EndPut
<1>6. CASE found # 0 /\ MayUnlink(tree, call[p].ip, name, found)
  <2>1. PICK dp \in Numbers, n \in {name} : dp = call[p].ip /\ n = name
    BY <1>3
  <2>2. PICK i, slot : i = DirLookup(tree, dp, n) /\ slot = Least(SlotsOf(tree, dp, n))
    OBVIOUS
  <2>3. /\ n \notin Dots /\ i # 0 /\ tree[dp].type = "dir"
        /\ tree[i].type = "dir" => IsDirEmpty(tree, i)
    BY <1>4, <1>6, <2>1, <2>2 DEF MayUnlink
  <2>4. Says(tree, dp, slot, i) /\ i \in Numbers
    BY <1>3, <2>2, <2>3, SlotIs
  <2>5. i # dp
    BY <1>3, <2>4, SaysIs
  <2>6. PICK a, b : a = Refs(dp) - 1 /\ b = Refs(i)
    OBVIOUS
  <2>7. PICK T2 : T2 = Iput(Cut(tree, dp, slot, i), dp, a)
    OBVIOUS
  <2>8. PICK T3 : T3 = [T2 EXCEPT ![i].nlink = T2[i].nlink - 1]
    OBVIOUS
  <2>9. PICK T4 : T4 = Iput(T3, i, b)
    OBVIOUS
  <2>10. tree' = T4
    <3>1. /\ MayUnlink(tree, dp, n, i) /\ i # 0
          /\ i = DirLookup(tree, call[p].ip, call[p].rest[1])
          /\ slot = Least(SlotsOf(tree, call[p].ip, call[p].rest[1]))
          /\ n = call[p].rest[1]
      BY <1>6, <2>1, <2>2
    <3> HIDE DEF name, found
    <3> QED BY <2>1, <2>6, <2>7, <2>8, <2>9, <3>1 DEF UnlinkPath, Cut
  <2>11. Downed(T2, T3, i)
    BY <2>8 DEF Downed
  <2>12. Steps(p, cwd[p], open[p], Idle)
    BY <1>1, CallSteps DEF Ends
  <2>13. PICK h, H, G : h = HalfOf(call) /\ H = HeldBy(cwd', open', call') /\ G = H \cup {dp}
    OBVIOUS
  <2>14. TabSound(tree, lost, h, G) /\ H \in SUBSET Numbers /\ dp \in G /\ G \subseteq H \cup {dp}
    <3>1. /\ HeldBy(cwd', open', call') \subseteq G
          /\ \A m \in Numbers : m = call[p].ip \/ m = call[p].old => m \in G
      BY <1>3, <2>1, <2>13
    <3>2. TabSound(tree, lost, h, G) /\ H \in SUBSET Numbers
      BY <2>12, <2>13, <3>1, EndHold
    <3> QED BY <2>13, <3>2
  <2>15. h = HalfOf(call')
    BY <1>3, <2>12, <2>13, IdleIs, HalfSame
  <2>16. a = 0 <=> dp \notin H
    <3>1. /\ RefsBy(cwd', open', call', dp) + Is(call[p].ip, dp) + Is(call[p].old, dp) = Refs(dp)
          /\ RefsBy(cwd', open', call', dp) \in Nat
          /\ (RefsBy(cwd', open', call', dp) = 0 <=> dp \notin HeldBy(cwd', open', call'))
      BY <2>12, EndRefs
    <3>2. Is(call[p].ip, dp) = 1 /\ Is(call[p].old, dp) = 0
      BY <1>3, <2>1 DEF Is
    <3> QED BY <2>6, <2>13, <3>1, <3>2
  <2>17. b = 0 <=> i \notin H
    <3>1. /\ RefsBy(cwd', open', call', i) + Is(call[p].ip, i) + Is(call[p].old, i) = Refs(i)
          /\ RefsBy(cwd', open', call', i) \in Nat
          /\ (RefsBy(cwd', open', call', i) = 0 <=> i \notin HeldBy(cwd', open', call'))
      BY <2>4, <2>12, EndRefs
    <3>2. Is(call[p].ip, i) = 0 /\ Is(call[p].old, i) = 0
      BY <1>3, <2>1, <2>4, <2>5 DEF Is
    <3> QED BY <2>6, <2>13, <3>1, <3>2
  <2>18. TabSound(T4, lost, h, H) /\ Stays(tree, T4, H)
    BY <2>3, <2>4, <2>7, <2>9, <2>11, <2>14, <2>16, <2>17, UnlinkTree
  <2>19. PICK M, none : none = {} /\ M = lost \cup none
    OBVIOUS
  <2>20. M = lost /\ none \in SUBSET Numbers /\ Record(none)
    BY <1>1, <2>19
  <2>21. TabSound(T4, M, h, H)
    BY <2>18, <2>20
  <2> QED BY <2>10, <2>12, <2>13, <2>15, <2>18, <2>19, <2>20, <2>21, EndHere
<1> QED BY <1>5, <1>6

LEMMA LinkSecondStep ==
  ASSUME TreeInv, NEW p \in Users, LinkSecond(p)
  PROVE  TreeInv'
<1>1. call[p].op = "linkto" /\ call[p].at = "there" /\ cwd' = cwd /\ open' = open
  BY DEF LinkSecond, At
<1>2. call[p] # Idle
  BY <1>1, IdleIs
<1>3. /\ call[p].ip # 0 /\ call[p].ip \in Numbers /\ CallOK(tree, call[p])
      /\ TreeShape(tree) /\ 0 \notin Numbers
  BY <1>1, <1>2, AtIs, DirectoryAssumption DEF TreeInv, TabSound
<1>4. /\ tree[call[p].ip].type = "dir" /\ Len(call[p].rest) = 1
      /\ call[p].old \in Numbers /\ tree[call[p].old].type \in {"file", "dev"}
  <2>1. call[p].old # 0
    BY <1>1, <1>3 DEF CallOK
  <2>2. call[p].old \in Numbers
    BY <1>3, <2>1, CallIs
  <2> QED BY <1>1, <1>3, <2>1, <2>2 DEF CallOK, ParentOps
<1>5. CASE ~NameIsNew(tree, call[p].ip, call[p].rest[1])
  <2>1. Fails(p, Iput(tree, call[p].ip, Refs(call[p].ip) - 1)) /\ Record({})
    BY <1>5 DEF LinkSecond
  <2> QED BY <1>1, <1>2, <1>3, <2>1, FailStep
<1>6. CASE NameIsNew(tree, call[p].ip, call[p].rest[1])
  <2>1. PICK d \in Numbers, i \in Numbers, n \in {call[p].rest[1]} :
          d = call[p].ip /\ i = call[p].old /\ n = call[p].rest[1]
    BY <1>3, <1>4
  <2>2. PICK a, b : a = Refs(d) - 1 /\ b = Refs(i) - 1
    OBVIOUS
  <2>3. PICK gone : gone = IF d \in Reachable(tree) THEN {} ELSE {i}
    OBVIOUS
  <2>4. PICK T1 : T1 = DirEnter(tree, d, Entry(n, i))
    OBVIOUS
  <2>5. PICK T2 : T2 = Iput(T1, d, a)
    OBVIOUS
  <2>6. PICK T3 : T3 = Iput(T2, i, b)
    OBVIOUS
  <2>7. tree' = T3 /\ Ends(p) /\ Record(gone)
    BY <1>6, <2>1, <2>2, <2>3, <2>4, <2>5, <2>6 DEF LinkSecond
  <2>8. Steps(p, cwd[p], open[p], Idle)
    BY <1>1, <2>7, CallSteps DEF Ends
  <2>9. /\ d # i /\ tree[d].type = "dir" /\ tree[i].type # "dir" /\ DirLookup(tree, d, n) = 0
        /\ n \in EntryNames
    <3>1. call[p].rest \in Seq(STRING)
      BY <1>3, CallIs
    <3>2. call[p].rest[1] \in STRING
      BY <1>4, <3>1
    <3> QED BY <1>4, <1>6, <2>1, <3>2 DEF NameIsNew, EntryNames
  <2>10. PICK h, h2, H, G, K : /\ h = HalfOf(call) /\ h2 = HalfOf(call')
                               /\ H = HeldBy(cwd', open', call')
                               /\ G = H \cup {d, i} /\ K = H \cup {i}
    OBVIOUS
  <2>11. TabSound(tree, lost, h, G) /\ H \in SUBSET Numbers /\ K \in SUBSET Numbers
    <3>1. /\ HeldBy(cwd', open', call') \subseteq G
          /\ \A m \in Numbers : m = call[p].ip \/ m = call[p].old => m \in G
      BY <2>1, <2>10
    <3>2. TabSound(tree, lost, h, G) /\ H \in SUBSET Numbers
      BY <2>8, <2>10, <3>1, EndHold
    <3> QED BY <2>10, <3>2
  <2>12. OneMore(h2, h, i)
    BY <1>4, <2>1, <2>8, <2>10, IdleIs, HalfDown
  <2>13. PICK M : M = lost \cup gone
    OBVIOUS
  <2>14. lost \subseteq M /\ (d \notin Reachable(tree) => i \in M) /\ gone \in SUBSET Numbers
    BY <2>3, <2>13
  <2>15. TabSound(T1, M, h2, G) /\ SameTypes(tree, T1)
    BY <2>4, <2>9, <2>11, <2>12, <2>14, EnterNow
  <2>16. a = 0 <=> d \notin K
    <3>1. /\ RefsBy(cwd', open', call', d) + Is(call[p].ip, d) + Is(call[p].old, d) = Refs(d)
          /\ RefsBy(cwd', open', call', d) \in Nat
          /\ (RefsBy(cwd', open', call', d) = 0 <=> d \notin HeldBy(cwd', open', call'))
      BY <2>8, EndRefs
    <3>2. Is(call[p].ip, d) = 1 /\ Is(call[p].old, d) = 0
      BY <2>1, <2>9 DEF Is
    <3>3. a = 0 <=> d \notin H
      BY <2>2, <2>10, <3>1, <3>2
    <3> QED BY <2>9, <2>10, <3>3
  <2>17. b = 0 <=> i \notin H
    <3>1. /\ RefsBy(cwd', open', call', i) + Is(call[p].ip, i) + Is(call[p].old, i) = Refs(i)
          /\ RefsBy(cwd', open', call', i) \in Nat
          /\ (RefsBy(cwd', open', call', i) = 0 <=> i \notin HeldBy(cwd', open', call'))
      BY <2>8, EndRefs
    <3>2. Is(call[p].ip, i) = 0 /\ Is(call[p].old, i) = 1
      BY <2>1, <2>9 DEF Is
    <3> QED BY <2>2, <2>10, <3>1, <3>2
  <2>18. TabSound(T2, M, h2, K) /\ Stays(T1, T2, K)
    <3>1. G \subseteq K \cup {d}
      BY <2>10
    <3> QED BY <2>5, <2>11, <2>15, <2>16, <3>1, IputNow
  <2>19. TabSound(T3, M, h2, H) /\ Stays(T2, T3, H)
    <3>1. K \subseteq H \cup {i}
      BY <2>10
    <3> QED BY <2>6, <2>11, <2>17, <2>18, <3>1, IputNow
  <2>20. Stays(tree, T3, H)
    <3>1. Stays(tree, T1, H)
      BY <2>11, <2>15, SameStays DEF SameTypes
    <3>2. Stays(T1, T2, H)
      BY <2>10, <2>18 DEF Stays
    <3>3. Stays(tree, T2, H)
      BY <3>1, <3>2, StaysOn
    <3> QED BY <2>19, <3>3, StaysOn
  <2> QED BY <2>7, <2>8, <2>10, <2>13, <2>14, <2>19, <2>20, EndHere
<1> QED BY <1>5, <1>6

LEMMA CreateIs ==
  ASSUME TreeInv, NEW p \in Users, At(p, {"creat", "mkdir", "mknod"})
  PROVE  /\ call[p].op \in {"creat", "mkdir", "mknod"} /\ call[p].at = "there" /\ call[p] # Idle
         /\ call[p].ip # 0 /\ call[p].ip \in Numbers /\ call[p].old = 0
         /\ tree[call[p].ip].type = "dir" /\ call[p].rest[1] \in EntryNames
         /\ TreeShape(tree) /\ 0 \notin Numbers
<1>1. call[p].op \in {"creat", "mkdir", "mknod"} /\ call[p].at = "there"
  BY DEF At
<1>2. call[p] # Idle
  BY <1>1, IdleIs
<1>3. /\ call[p].ip # 0 /\ call[p].ip \in Numbers /\ call[p].old = 0 /\ CallOK(tree, call[p])
      /\ TreeShape(tree) /\ 0 \notin Numbers
  BY <1>1, <1>2, AtIs, DirectoryAssumption DEF TreeInv, TabSound
<1>4. tree[call[p].ip].type = "dir" /\ Len(call[p].rest) = 1
  BY <1>1, <1>3 DEF CallOK, ParentOps
<1>5. call[p].rest \in Seq(STRING)
  BY <1>3, CallIs
<1>6. call[p].rest[1] \in STRING
  BY <1>4, <1>5
<1> QED BY <1>1, <1>2, <1>3, <1>4, <1>6 DEF EntryNames

LEMMA CreateOldStep ==
  ASSUME TreeInv, NEW p \in Users, CreateOld(p)
  PROVE  TreeInv'
<1>1. At(p, {"creat", "mkdir", "mknod"}) /\ Ends(p) /\ cwd' = cwd /\ Record({})
  BY DEF CreateOld
<1>2. /\ call[p] # Idle /\ call[p].op \in {"creat", "mkdir", "mknod"}
      /\ call[p].ip # 0 /\ call[p].ip \in Numbers /\ call[p].old = 0
      /\ tree[call[p].ip].type = "dir" /\ TreeShape(tree) /\ 0 \notin Numbers
  BY <1>1, CreateIs
<1>3. PICK d \in Numbers, n \in {call[p].rest[1]} : d = call[p].ip /\ n = call[p].rest[1]
  BY <1>2
<1>4. PICK i : i = DirLookup(tree, d, n)
  OBVIOUS
<1>5. i \in Numbers /\ tree[i].type # "none"
  <2>1. i # 0 /\ tree[i].type # "none"
    BY <1>3, <1>4 DEF CreateOld, NoInode
  <2> QED BY <1>2, <1>4, <2>1, LookupIs
<1>6. PICK T1, b : /\ T1 = Iput(tree, d, IF d = i THEN Refs(d) ELSE Refs(d) - 1)
                   /\ b = IF d = i THEN Refs(i) - 1 ELSE Refs(i)
  OBVIOUS
<1>7. \/ tree[i].type = "file" /\ open[p] = 0 /\ tree' = T1 /\ open' = [open EXCEPT ![p] = i]
      \/ tree' = Iput(T1, i, b) /\ open' = open
  BY <1>3, <1>4, <1>6 DEF CreateOld
<1>8. CASE tree[i].type = "file" /\ open[p] = 0 /\ tree' = T1 /\ open' = [open EXCEPT ![p] = i]
  <2>1. i # d /\ T1 = Iput(tree, d, Refs(d) - 1)
    BY <1>2, <1>3, <1>6, <1>8
  <2>2. PICK a, c : a = Refs(d) - 1 /\ c = Idle
    OBVIOUS
  <2>3. Steps(p, cwd[p], i, c)
    <3>1. UserTypes
      BY DEF TreeInv
    <3> QED BY <1>1, <1>8, <2>2, <3>1, Standing DEF Steps, Moves, Ends
  <2>4. Own(cwd[p], open[p], call[p], d) = Own(cwd[p], i, c, d) + 1
    <3>1. /\ Is(open[p], d) = 0 /\ Is(i, d) = 0 /\ Is(call[p].ip, d) = 1 /\ Is(c.ip, d) = 0
          /\ Is(call[p].old, d) = 0 /\ Is(c.old, d) = 0
      BY <1>2, <1>3, <1>8, <2>1, <2>2, IdleIs DEF Is
    <3>2. Is(cwd[p], d) \in Nat
      BY DEF Is
    <3> QED BY <3>1, <3>2 DEF Own
  <2>5. /\ RefsBy(cwd', open', call', d) + Own(cwd[p], open[p], call[p], d)
             = Refs(d) + Own(cwd[p], i, c, d)
        /\ RefsBy(cwd', open', call', d) \in Nat /\ Refs(d) \in Nat
        /\ Own(cwd[p], i, c, d) \in Nat
    BY <2>3, RefsThen
  <2>6. a = 0 <=> RefsBy(cwd', open', call', d) = 0
    BY <2>2, <2>4, <2>5
  <2>7. UserOK(tree, cwd[p], i, c)
    BY <1>5, <2>2, OwnIs DEF UserOK
  <2>8. /\ tree' = Iput(tree, d, a) /\ c.old = call[p].old
        /\ {cwd[p], open[p], call[p].ip, call[p].old} \subseteq {cwd[p], i, c.ip, c.old, 0, d}
    BY <1>2, <1>3, <1>8, <2>1, <2>2, IdleIs
  <2> QED BY <1>1, <2>3, <2>6, <2>7, <2>8, PutHere
<1>9. CASE tree' = Iput(T1, i, b) /\ open' = open
  <2>1. Steps(p, cwd[p], open[p], Idle)
    BY <1>1, <1>9, CallSteps DEF Ends
  <2>2. /\ RefsBy(cwd', open', call', d) + Is(call[p].ip, d) + Is(call[p].old, d) = Refs(d)
        /\ RefsBy(cwd', open', call', d) \in Nat
        /\ (RefsBy(cwd', open', call', d) = 0 <=> d \notin HeldBy(cwd', open', call'))
    BY <2>1, EndRefs
  <2>3. Is(call[p].ip, d) = 1 /\ Is(call[p].old, d) = 0
    BY <1>2, <1>3 DEF Is
  <2>4. Refs(d) # 0 /\ (Refs(d) - 1 = 0 <=> d \notin HeldBy(cwd', open', call'))
    BY <2>2, <2>3
  <2>5. CASE d = i
    <3>1. T1 = tree
      BY <1>6, <2>4, <2>5 DEF Iput
    <3>2. tree' = Iput(tree, call[p].ip, Refs(call[p].ip) - 1)
      BY <1>3, <1>6, <1>9, <2>5, <3>1
    <3>3. call[p].op # "linkto"
      BY <1>2
    <3> QED BY <1>1, <1>2, <1>9, <3>2, <3>3, EndPut
  <2>6. CASE d # i
    <3>1. PICK a, T2 : a = Refs(d) - 1 /\ T2 = Iput(T1, i, b)
      OBVIOUS
    <3>2. PICK h, H, G : h = HalfOf(call) /\ H = HeldBy(cwd', open', call') /\ G = H \cup {d}
      OBVIOUS
    <3>3. TabSound(tree, lost, h, G) /\ H \in SUBSET Numbers /\ G \subseteq H \cup {d}
      <4>1. /\ HeldBy(cwd', open', call') \subseteq G
            /\ \A m \in Numbers : m = call[p].ip \/ m = call[p].old => m \in G
        BY <1>2, <1>3, <3>2
      <4>2. TabSound(tree, lost, h, G) /\ H \in SUBSET Numbers
        BY <2>1, <3>2, <4>1, EndHold
      <4> QED BY <3>2, <4>2
    <3>4. T1 = Iput(tree, d, a) /\ (a = 0 <=> d \notin H)
      BY <1>6, <2>4, <2>6, <3>1, <3>2
    <3>5. TabSound(T1, lost, h, H) /\ Stays(tree, T1, H)
      BY <3>3, <3>4, IputNow
    <3>6. b = 0 <=> i \notin H
      <4>1. /\ RefsBy(cwd', open', call', i) + Is(call[p].ip, i) + Is(call[p].old, i) = Refs(i)
            /\ RefsBy(cwd', open', call', i) \in Nat
            /\ (RefsBy(cwd', open', call', i) = 0 <=> i \notin HeldBy(cwd', open', call'))
        BY <1>5, <2>1, EndRefs
      <4>2. Is(call[p].ip, i) = 0 /\ Is(call[p].old, i) = 0
        BY <1>2, <1>3, <1>5, <2>6 DEF Is
      <4> QED BY <1>6, <2>6, <3>2, <4>1, <4>2
    <3>7. TabSound(T2, lost, h, H) /\ Stays(T1, T2, H)
      <4>1. H \subseteq H \cup {i}
        OBVIOUS
      <4> QED BY <1>5, <3>1, <3>3, <3>5, <3>6, <4>1, IputNow
    <3>8. Stays(tree, T2, H)
      BY <3>5, <3>7, StaysOn
    <3>9. h = HalfOf(call')
      BY <1>2, <2>1, <3>2, IdleIs, HalfSame
    <3>10. PICK M, none : none = {} /\ M = lost \cup none
      OBVIOUS
    <3>11. M = lost /\ none \in SUBSET Numbers /\ Record(none) /\ tree' = T2
      BY <1>1, <1>9, <3>1, <3>10
    <3>12. TabSound(T2, M, h, H)
      BY <3>7, <3>11
    <3> QED BY <2>1, <3>2, <3>8, <3>9, <3>10, <3>11, <3>12, EndHere
  <2> QED BY <2>5, <2>6
<1> QED BY <1>7, <1>8, <1>9

Makes(T, T2, d, n, i, type, a) == T2 = Iput(Make(T, d, n, i, type), d, a)

\* A new inode i with its name in d, and d put.
LEMMA MakePut ==
  ASSUME NEW T, NEW L, NEW h, NEW H \in SUBSET Numbers, NEW G, TabSound(T, L, h, G),
         NEW d \in Numbers, T[d].type = "dir", G \subseteq H \cup {d},
         NEW i \in Numbers, T[i].type = "none",
         NEW n \in EntryNames, DirLookup(T, d, n) = 0, NEW type \in Kinds,
         NEW M, Notes(T, L, M, d, i, type),
         NEW a, a = 0 <=> d \notin H,
         NEW T2, Makes(T, T2, d, n, i, type, a)
  PROVE  /\ TabSound(T2, M, h, H) /\ Stays(T, T2, H) /\ i # d
         /\ i \in H => T2[i].type = type
<1>0. type # "none"
  BY DEF Kinds
<1>1. PICK T1 : T1 = Make(T, d, n, i, type)
  OBVIOUS
<1>2. /\ TabSound(T1, M, h, G) /\ i # d /\ T1[i].type = type
      /\ \A m \in Numbers \ {i} : T1[m].type = T[m].type
  BY <1>1, MakeSound
<1>3. T2 = Iput(T1, d, a)
  BY <1>1 DEF Makes
<1>4. TabSound(T2, M, h, H) /\ Stays(T1, T2, H)
  BY <1>2, <1>3, IputNow
<1>5. Stays(T, T1, H)
  BY <1>2 DEF Stays
<1>6. Stays(T, T2, H)
  BY <1>4, <1>5, StaysOn
<1>7. i \in H => T2[i].type = type
  BY <1>0, <1>2, <1>4 DEF Stays
<1> QED BY <1>2, <1>4, <1>6, <1>7

LEMMA CreateNewStep ==
  ASSUME TreeInv, NEW p \in Users, CreateNew(p)
  PROVE  TreeInv'
<1>1. At(p, {"creat", "mkdir", "mknod"}) /\ Ends(p) /\ cwd' = cwd
  BY DEF CreateNew
<1>2. /\ call[p] # Idle /\ call[p].op \in {"creat", "mkdir", "mknod"}
      /\ call[p].ip # 0 /\ call[p].ip \in Numbers /\ call[p].old = 0
      /\ tree[call[p].ip].type = "dir" /\ call[p].rest[1] \in EntryNames
      /\ TreeShape(tree) /\ 0 \notin Numbers
  BY <1>1, CreateIs
<1>3. PICK d \in Numbers, n \in EntryNames, type \in Kinds :
        d = call[p].ip /\ n = call[p].rest[1] /\ type = TypeFor(call[p].op)
  <2>1. TypeFor(call[p].op) \in Kinds
    BY <1>2 DEF TypeFor, Kinds
  <2> QED BY <1>2, <2>1
<1>4. DirLookup(tree, d, n) = 0
  BY <1>3 DEF CreateNew
<1> DEFINE Rest(i) ==
      LET tab == Iput(Make(tree, d, n, i, type), d, Refs(d) - 1)
      IN \/ open[p] = 0 /\ tree' = tab /\ open' = [open EXCEPT ![p] = i]
         \/ tree' = Iput(tab, i, Refs(i)) /\ open' = open
           Gone(i) == CASE d \in Reachable(tree) -> {}
                        [] d \notin Reachable(tree) /\ type = "dir" -> {d, i}
                        [] OTHER -> {i}
<1>5. PICK i \in Numbers : tree[i].type = "none" /\ Rest(i) /\ Record(Gone(i))
  BY <1>3 DEF CreateNew, NoInode
<1>6. PICK gone : gone = Gone(i)
  OBVIOUS
<1>7. PICK a, b, T2 : /\ a = Refs(d) - 1 /\ b = Refs(i)
                      /\ T2 = Iput(Make(tree, d, n, i, type), d, a)
  OBVIOUS
<1>8. \/ open[p] = 0 /\ tree' = T2 /\ open' = [open EXCEPT ![p] = i]
      \/ tree' = Iput(T2, i, b) /\ open' = open
  BY <1>5, <1>7
<1>9. PICK M : M = lost \cup gone
  OBVIOUS
<1>10. gone \in SUBSET Numbers /\ Record(gone) /\ Notes(tree, lost, M, d, i, type)
  <2>1. gone \in SUBSET Numbers
    BY <1>6
  <2>2. d \notin Reachable(tree) => i \in gone /\ (type = "dir" => d \in gone)
    BY <1>6
  <2>3. Record(gone)
    BY <1>5, <1>6
  <2> HIDE DEF Gone
  <2> QED BY <1>9, <2>1, <2>2, <2>3 DEF Notes
<1> HIDE DEF Rest, Gone
<1>11. PICK h, h2, H, G : /\ h = HalfOf(call) /\ h2 = HalfOf(call')
                          /\ H = HeldBy(cwd', open', call') /\ G = H \cup {d}
  OBVIOUS
<1>12. G \subseteq H \cup {d} /\ tree[d].type = "dir"
  BY <1>2, <1>3, <1>11
<1>a. tree[i].type = "none"
  BY <1>5
<1>b. Makes(tree, T2, d, n, i, type, a)
  BY <1>7 DEF Makes
<1>c. Notes(tree, lost, M, d, i, type)
  BY <1>10
<1>13. CASE open[p] = 0 /\ tree' = T2 /\ open' = [open EXCEPT ![p] = i]
  <2>1. PICK c : c = Idle
    OBVIOUS
  <2>2. Steps(p, cwd[p], i, c)
    <3>1. UserTypes
      BY DEF TreeInv
    <3> QED BY <1>1, <1>13, <2>1, <3>1, Standing DEF Steps, Moves, Ends
  <2>3. PICK puts : puts = {d}
    OBVIOUS
  <2>4. TabSound(tree, lost, h, G) /\ H \in SUBSET Numbers /\ i \in H /\ (cwd[p] \in Numbers => cwd[p] \in H)
    <3>1. Keeps(p, cwd[p], i, c, puts)
      BY <1>2, <1>3, <1>13, <2>3 DEF Keeps
    <3>2. /\ TabSound(tree, lost, HalfOf(call), HeldBy(cwd', open', call') \cup puts)
          /\ HeldBy(cwd', open', call') \in SUBSET Numbers
      BY <2>2, <3>1, HoldHere
    <3>3. \A m \in Numbers : m \in {cwd[p], i, c.ip, c.old} => m \in HeldBy(cwd', open', call')
      BY <2>2, <3>1, HoldHere
    <3> QED BY <1>11, <2>3, <3>2, <3>3
  <2>5. c.old = call[p].old /\ h2 = h
    <3>1. c.old = call[p].old
      BY <1>2, <2>1, IdleIs
    <3> QED BY <1>11, <2>2, <3>1, HalfSame
  <2>6. i # d
    BY <1>5, <1>12
  <2>7. Own(cwd[p], open[p], call[p], d) = Own(cwd[p], i, c, d) + 1
    <3>1. /\ Is(open[p], d) = 0 /\ Is(i, d) = 0 /\ Is(call[p].ip, d) = 1 /\ Is(c.ip, d) = 0
          /\ Is(call[p].old, d) = 0 /\ Is(c.old, d) = 0
      BY <1>2, <1>3, <1>13, <2>1, <2>6, IdleIs DEF Is
    <3>2. Is(cwd[p], d) \in Nat
      BY DEF Is
    <3> QED BY <3>1, <3>2 DEF Own
  <2>8. /\ RefsBy(cwd', open', call', d) + Own(cwd[p], open[p], call[p], d)
             = Refs(d) + Own(cwd[p], i, c, d)
        /\ RefsBy(cwd', open', call', d) \in Nat /\ Refs(d) \in Nat
        /\ Own(cwd[p], i, c, d) \in Nat
        /\ (RefsBy(cwd', open', call', d) = 0 <=> d \notin HeldBy(cwd', open', call'))
    BY <2>2, RefsThen
  <2>9. a = 0 <=> d \notin H
    BY <1>7, <1>11, <2>7, <2>8
  <2>10. TabSound(T2, M, h, H) /\ Stays(tree, T2, H) /\ T2[i].type = type
    <3>1. TabSound(T2, M, h, H) /\ Stays(tree, T2, H) /\ (i \in H => T2[i].type = type)
      BY <1>4, <1>a, <1>b, <1>c, <1>12, <2>4, <2>9, MakePut
    <3> QED BY <2>4, <3>1
  <2>11. UserOK(T2, cwd[p], i, c)
    <3>1. cwd[p] \in Numbers /\ tree[cwd[p]].type = "dir"
      BY OwnIs DEF UserOK
    <3>2. cwd[p] \in H
      BY <2>4, <3>1
    <3>3. T2[cwd[p]].type = "dir"
      BY <2>10, <3>1, <3>2 DEF Stays
    <3>4. T2[i].type # "none"
      BY <2>10 DEF Kinds
    <3> QED BY <2>1, <3>1, <3>3, <3>4 DEF UserOK
  <2>12. /\ TabSound(T2, lost \cup gone, HalfOf(call'), HeldBy(cwd', open', call'))
         /\ Stays(tree, T2, HeldBy(cwd', open', call'))
    BY <1>9, <1>11, <2>5, <2>10
  <2> QED BY <1>10, <1>13, <2>2, <2>11, <2>12, DoneHere
<1>14. CASE tree' = Iput(T2, i, b) /\ open' = open
  <2>1. Steps(p, cwd[p], open[p], Idle)
    BY <1>1, <1>14, CallSteps DEF Ends
  <2>2. TabSound(tree, lost, h, G) /\ H \in SUBSET Numbers
    <3>1. /\ HeldBy(cwd', open', call') \subseteq G
          /\ \A m \in Numbers : m = call[p].ip \/ m = call[p].old => m \in G
      BY <1>2, <1>3, <1>11
    <3> QED BY <1>11, <2>1, <3>1, EndHold
  <2>3. h2 = h
    BY <1>2, <1>11, <2>1, IdleIs, HalfSame
  <2>4. a = 0 <=> d \notin H
    <3>1. /\ RefsBy(cwd', open', call', d) + Is(call[p].ip, d) + Is(call[p].old, d) = Refs(d)
          /\ RefsBy(cwd', open', call', d) \in Nat
          /\ (RefsBy(cwd', open', call', d) = 0 <=> d \notin HeldBy(cwd', open', call'))
      BY <2>1, EndRefs
    <3>2. Is(call[p].ip, d) = 1 /\ Is(call[p].old, d) = 0
      BY <1>2, <1>3 DEF Is
    <3> QED BY <1>7, <1>11, <3>1, <3>2
  <2>5. TabSound(T2, M, h, H) /\ Stays(tree, T2, H) /\ i # d
    BY <1>4, <1>a, <1>b, <1>c, <1>12, <2>2, <2>4, MakePut
  <2>6. b = 0 <=> i \notin H
    <3>1. /\ RefsBy(cwd', open', call', i) + Is(call[p].ip, i) + Is(call[p].old, i) = Refs(i)
          /\ RefsBy(cwd', open', call', i) \in Nat
          /\ (RefsBy(cwd', open', call', i) = 0 <=> i \notin HeldBy(cwd', open', call'))
      BY <2>1, EndRefs
    <3>2. Is(call[p].ip, i) = 0 /\ Is(call[p].old, i) = 0
      BY <1>2, <1>3, <2>5 DEF Is
    <3> QED BY <1>7, <1>11, <3>1, <3>2
  <2>7. PICK T3 : T3 = Iput(T2, i, b)
    OBVIOUS
  <2>8. TabSound(T3, M, h, H) /\ Stays(T2, T3, H)
    <3>1. H \subseteq H \cup {i}
      OBVIOUS
    <3> QED BY <2>2, <2>5, <2>6, <2>7, <3>1, IputNow
  <2>9. Stays(tree, T3, H) /\ tree' = T3
    BY <1>14, <2>5, <2>7, <2>8, StaysOn
  <2>10. TabSound(T3, M, h2, H)
    BY <2>3, <2>8
  <2> QED BY <1>9, <1>10, <1>11, <2>1, <2>9, <2>10, EndHere
<1> QED BY <1>8, <1>13, <1>14

-----------------------------------------------------------------------------
(* The theorems.                                                           *)
LEMMA SoundStart ==
  ASSUME NEW T, SoundDisk(T), NEW H
  PROVE  TabSound(T, {}, NoHalf, H)
<1>1. TreeShape(T) /\ \A i \in Numbers : T[i].nlink = LinksOf(T, i)
  BY DEF SoundDisk
<1>2. \A i \in Numbers : LinksOf(T, i) \in Nat /\ NoHalf[i] = 0
  BY <1>1, TreeLinks DEF NoHalf
<1>3. NoHalf \in [Numbers -> Nat]
  BY DEF NoHalf
<1>4. CountsLinks(T, {}, NoHalf)
  <2>1. ASSUME NEW i \in Numbers
        PROVE  LinksOf(T, i) + NoHalf[i] = T[i].nlink /\ LinksOf(T, i) + NoHalf[i] <= T[i].nlink
    BY <1>1, <1>2
  <2> QED BY <2>1 DEF CountsLinks
<1>5. \A d \in Numbers : T[d].type # "none" => d \in Reachable(T)
  BY DEF SoundDisk
<1>6. HidesLost(T, {})
  <2>1. ASSUME NEW d, NEW k, NEW i, Says(T, d, k, i), d \notin Reachable(T) PROVE FALSE
    <3>1. d \in Numbers /\ T[d].type = "dir"
      BY <1>1, <2>1, SaysIs
    <3> QED BY <1>5, <2>1, <3>1
  <2> QED BY <2>1 DEF HidesLost
<1>7. KeepsHeld(T, {}, H)
  <2>1. ASSUME NEW i \in Numbers, T[i].type # "none", T[i].nlink = 0 PROVE FALSE
    <3>1. i \in Reachable(T) /\ LinksOf(T, i) = 0
      BY <1>1, <1>5, <2>1
    <3>2. i # RootDir /\ \A d, k : ~Says(T, d, k, i)
      BY <1>1, <2>1, <3>1, TreeLinks
    <3> QED BY <1>1, <3>1, <3>2, ReachFrom
  <2> QED BY <2>1 DEF KeepsHeld
<1> QED BY <1>1, <1>3, <1>4, <1>6, <1>7 DEF TabSound

LEMMA InitTreeInv == DirInit => TreeInv
<1> SUFFICES ASSUME DirInit PROVE TreeInv
  OBVIOUS
<1>1. /\ tree \in Disks /\ saved = tree /\ lost = {}
      /\ cwd = [p \in Users |-> RootDir] /\ open = [p \in Users |-> 0]
      /\ call = [p \in Users |-> Idle]
  BY DEF DirInit
<1>2. SoundDisk(tree)
  BY <1>1, DisksAssumption
<1>3. HalfOf(call) = NoHalf
  <2>1. \A i \in Numbers : OldAt(call, i) = {}
    BY <1>1, IdleIs, DirectoryAssumption DEF OldAt
  <2> QED BY <2>1, FS_EmptySet DEF HalfOf, NoHalf
<1>4. UserTypes /\ \A p \in Users : UserOK(tree, cwd[p], open[p], call[p])
  <2>1. tree[RootDir].type = "dir" /\ RootDir \in Numbers
    BY <1>2, DirectoryAssumption DEF SoundDisk, TreeShape, RootDir
  <2> QED BY <1>1, <2>1 DEF UserTypes, UserOK
<1>5. TabSound(tree, lost, HalfOf(call), HeldBy(cwd, open, call))
  BY <1>1, <1>2, <1>3, SoundStart
<1>6. TabSound(saved, lost, NoHalf, Numbers)
  BY <1>1, <1>2, SoundStart
<1> QED BY <1>1, <1>4, <1>5, <1>6 DEF TreeInv

LEMMA NextTreeInv == TreeInv /\ [DirNext]_dirVars => TreeInv'
<1> SUFFICES ASSUME TreeInv, [DirNext]_dirVars PROVE TreeInv'
  OBVIOUS
<1>1. CASE UNCHANGED dirVars
  <2>1. /\ tree' = tree /\ saved' = saved /\ cwd' = cwd /\ open' = open /\ call' = call
        /\ lost' = lost
    BY <1>1 DEF dirVars
  <2>2. UserTypes' /\ (\A p \in Users : UserOK(tree, cwd[p], open[p], call[p]))' /\ (lost \subseteq Numbers)'
    BY <2>1 DEF TreeInv, UserTypes
  <2>3. TabSound(tree, lost, HalfOf(call), HeldBy(cwd, open, call))'
    BY <2>1 DEF TreeInv
  <2>4. TabSound(saved, lost, NoHalf, Numbers)'
    BY <2>1 DEF TreeInv
  <2> QED BY <2>2, <2>3, <2>4 DEF TreeInv
<1>2. CASE Crash
  BY <1>2, BootStep DEF Crash
<1>3. ASSUME NEW p \in Users, Begin(p) PROVE TreeInv'
  BY <1>3, BeginStep
<1>4. ASSUME NEW p \in Users, Walk(p) PROVE TreeInv'
  BY <1>4, WalkStep
<1>5. ASSUME NEW p \in Users, Panics(p) PROVE TreeInv'
  BY <1>5, BootStep DEF Panics
<1>6. ASSUME NEW p \in Users, OpenPath(p) PROVE TreeInv'
  BY <1>6, OpenStep
<1>7. ASSUME NEW p \in Users, CloseFile(p) PROVE TreeInv'
  BY <1>7, CloseStep
<1>8. ASSUME NEW p \in Users, Chdir(p) PROVE TreeInv'
  BY <1>8, ChdirStep
<1>9. ASSUME NEW p \in Users, CreateNew(p) PROVE TreeInv'
  BY <1>9, CreateNewStep
<1>10. ASSUME NEW p \in Users, CreateOld(p) PROVE TreeInv'
  BY <1>10, CreateOldStep
<1>11. ASSUME NEW p \in Users, UnlinkPath(p) PROVE TreeInv'
  BY <1>11, UnlinkStep
<1>12. ASSUME NEW p \in Users, LinkFirst(p) PROVE TreeInv'
  BY <1>12, LinkFirstStep
<1>13. ASSUME NEW p \in Users, LinkSecond(p) PROVE TreeInv'
  BY <1>13, LinkSecondStep
<1>14. ASSUME NEW p \in Users, LinkUndo(p) PROVE TreeInv'
  BY <1>14, LinkUndoStep
<1> QED BY <1>1, <1>2, <1>3, <1>4, <1>5, <1>6, <1>7, <1>8, <1>9, <1>10, <1>11, <1>12, <1>13,
           <1>14 DEF DirNext

LEMMA TreeInvAlways == DirSpec => []TreeInv
BY InitTreeInv, NextTreeInv, PTL DEF DirSpec

LEMMA TreeIsTree == TreeInv => DirIsTree
<1> SUFFICES ASSUME TreeInv PROVE DirIsTree
  OBVIOUS
<1>1. PICK T, h, H : T = tree /\ h = HalfOf(call) /\ H = HeldBy(cwd, open, call)
  OBVIOUS
<1>2. TabSound(T, lost, h, H) /\ TreeShape(T)
  BY <1>1 DEF TreeInv, TabSound
<1>3. ASSUME NEW d \in Reachable(T), T[d].type = "dir"
      PROVE  /\ T[d].ents[1] = Entry(".", d) /\ T[d].ents[2].name = ".."
             /\ {e \in Reachable(T) : d \in Below(T, e)}
                  = IF d = RootDir THEN {} ELSE {T[d].ents[2].inum}
             /\ \A k \in Mentions(T, d) :
                  /\ T[d].ents[k].name \notin Dots
                  /\ SlotsOf(T, d, T[d].ents[k].name) = {k}
                  /\ T[T[d].ents[k].inum].type # "none"
  <2>1. d \in Numbers /\ Reachable(T) \subseteq Numbers
    BY <1>2, ReachIs
  <2>2. T[d].ents[1] = Entry(".", d) /\ T[d].ents[2].name = ".."
    BY <1>2, <1>3, <2>1, DirIs
  <2>3. \A e \in Reachable(T) : d \in Below(T, e) <=> \E k : Says(T, e, k, d)
    BY <2>1 DEF Below, Says
  <2>4. {e \in Reachable(T) : d \in Below(T, e)}
          = IF d = RootDir THEN {} ELSE {T[d].ents[2].inum}
    <3>1. ASSUME NEW e \in Reachable(T), NEW k, Says(T, e, k, d)
          PROVE  d # RootDir /\ e = T[d].ents[2].inum
      BY <1>2, <1>3, <3>1, SaysIs
    <3>2. CASE d = RootDir
      BY <2>3, <3>1, <3>2
    <3>3. CASE d # RootDir
      <4>1. PICK e \in Reachable(T), k \in Nat : Says(T, e, k, d)
        BY <1>2, <3>3, ReachFrom
      <4>2. e = T[d].ents[2].inum
        BY <3>1, <4>1
      <4> QED BY <2>3, <3>1, <3>3, <4>1, <4>2
    <3> QED BY <3>2, <3>3
  <2>5. ASSUME NEW k \in Mentions(T, d)
        PROVE  /\ T[d].ents[k].name \notin Dots
               /\ SlotsOf(T, d, T[d].ents[k].name) = {k}
               /\ T[T[d].ents[k].inum].type # "none"
    <3>1. PICK i : i = T[d].ents[k].inum
      OBVIOUS
    <3>2. Says(T, d, k, i)
      BY <2>1, <2>5, <3>1 DEF Says
    <3>3. /\ T[d].ents[k].name \notin Dots /\ k \in DOMAIN T[d].ents /\ i \in Numbers /\ i # 0
          /\ \A j \in Mentions(T, d) : j # k => T[d].ents[j].name # T[d].ents[k].name
      BY <1>2, <3>2, SaysIs, DirectoryAssumption
    <3>4. T[i].type # "none"
      BY <1>2, <3>2, NamedIs
    <3>5. ASSUME NEW j \in SlotsOf(T, d, T[d].ents[k].name) PROVE j = k
      <4>1. j \in DOMAIN T[d].ents /\ T[d].ents[j].inum # 0 /\ T[d].ents[j].name = T[d].ents[k].name
        BY <3>5 DEF SlotsOf
      <4>2. j # 1
        <5>1. T[d].ents[1].name \in Dots
          BY <2>2 DEF Entry, Dots
        <5> QED BY <3>3, <4>1, <5>1
      <4>3. j # 2
        <5>1. T[d].ents[2].name \in Dots
          BY <2>2 DEF Dots
        <5> QED BY <3>3, <4>1, <5>1
      <4>4. j > 2
        <5>1. DOMAIN T[d].ents = 1 .. Len(T[d].ents) /\ Len(T[d].ents) \in Nat
          BY <1>2, <2>1, EntsTypes
        <5> QED BY <4>1, <4>2, <4>3, <5>1
      <4>5. j \in Mentions(T, d)
        BY <4>1, <4>4 DEF Mentions
      <4> QED BY <3>3, <4>1, <4>5
    <3>6. k \in SlotsOf(T, d, T[d].ents[k].name)
      BY <3>1, <3>3 DEF SlotsOf
    <3> QED BY <3>1, <3>3, <3>4, <3>5, <3>6
  <2> QED BY <2>2, <2>4, <2>5
<1>4. ASSUME NEW d \in {i \in Reachable(tree) : tree[i].type = "dir"}
      PROVE  /\ tree[d].ents[1] = Entry(".", d)
             /\ tree[d].ents[2].name = ".."
             /\ {e \in Reachable(tree) : d \in Below(tree, e)}
                  = IF d = RootDir THEN {} ELSE {tree[d].ents[2].inum}
             /\ \A k \in Mentions(tree, d) :
                  /\ tree[d].ents[k].name \notin Dots
                  /\ SlotsOf(tree, d, tree[d].ents[k].name) = {k}
                  /\ ~NoInode(tree[d].ents[k].inum)
  <2>1. d \in Reachable(T) /\ T[d].type = "dir"
    BY <1>1
  <2> QED BY <1>1, <1>3, <2>1 DEF NoInode
<1> QED BY <1>4 DEF DirIsTree

LEMMA TreeCounts == TreeInv => DirCountsLinks
<1> SUFFICES ASSUME TreeInv, NEW i \in Numbers, i \notin lost
             PROVE  tree[i].nlink = LinksOf(tree, i) + Cardinality({p \in Users : call[p].old = i})
  BY DEF DirCountsLinks
<1>1. TabSound(tree, lost, HalfOf(call), HeldBy(cwd, open, call))
  BY DEF TreeInv
<1>2. LinksOf(tree, i) + HalfOf(call)[i] = tree[i].nlink
  BY <1>1, CountParts
<1>3. HalfOf(call)[i] = Cardinality({p \in Users : call[p].old = i})
  BY DEF HalfOf, OldAt
<1> QED BY <1>2, <1>3

LEMMA TreeKeeps == TreeInv => DirNothingLost
<1> SUFFICES ASSUME TreeInv, NEW i \in Numbers, tree[i].type # "none",
                    i \notin Reachable(tree), i \notin lost
             PROVE  Refs(i) > 0
  BY DEF DirNothingLost, NoInode
<1>1. PICK h, H : h = HalfOf(call) /\ H = HeldBy(cwd, open, call)
  OBVIOUS
<1>2. TabSound(tree, lost, h, H) /\ TreeShape(tree)
  BY <1>1 DEF TreeInv, TabSound
<1>3. RefsBy(cwd, open, call, i) = Refs(i)
  BY DEF RefsBy, Refs, RefAt, IpAt, OldAt
<1>4. RefsBy(cwd, open, call, i) \in Nat /\ (RefsBy(cwd, open, call, i) = 0 <=> i \notin H)
  BY <1>1, RefsHeld
<1>5. i \in H
  <2>1. CASE tree[i].nlink = 0
    BY <1>2, <2>1 DEF TabSound, KeepsHeld
  <2>2. CASE tree[i].nlink # 0
    <3>1. /\ LinksOf(tree, i) + h[i] = tree[i].nlink
          /\ LinksOf(tree, i) \in Nat /\ h[i] \in Nat
      BY <1>2, CountParts
    <3>2. \A d, k : ~Says(tree, d, k, i)
      <4>1. ASSUME NEW d, NEW k, Says(tree, d, k, i) PROVE FALSE
        <5>1. d \in Reachable(tree)
          BY <1>2, <4>1 DEF TabSound, HidesLost
        <5> QED BY <1>2, <4>1, <5>1, ReachIs
      <4> QED BY <4>1
    <3>3. CASE h[i] # 0
      <4>1. h[i] = Cardinality(OldAt(call, i))
        BY <1>1 DEF HalfOf
      <4>2. OldAt(call, i) # {}
        <5>1. OldAt(call, i) \in SUBSET Users
          BY DEF OldAt
        <5> QED BY <3>3, <4>1, <5>1, UsersCount
      <4> QED BY <1>1, <4>2 DEF OldAt, HeldBy
    <3>4. CASE h[i] = 0
      <4>1. LinksOf(tree, i) # 0
        BY <2>2, <3>1, <3>4
      <4>2. i # RootDir
        BY <1>2, ReachIs
      <4>3. EntriesOf(tree, i) = {}
        BY <1>2, <3>2, EntriesAre
      <4>4. One(i = RootDir) = 0 /\ Cardinality(EntriesOf(tree, i)) = 0
        BY <4>2, <4>3, FS_EmptySet DEF One
      <4>5. Cardinality(SubDirs(tree, i)) # 0
        <5>1. LinksOf(tree, i) = One(i = RootDir) + Cardinality(EntriesOf(tree, i)) + Cardinality(SubDirs(tree, i))
          BY <1>2, TreeLinks
        <5> QED BY <4>1, <4>4, <5>1
      <4>6. SubDirs(tree, i) # {}
        BY <4>5, FS_EmptySet
      <4>7. PICK k, n : Says(tree, i, k, n) /\ tree[n].type = "dir"
        BY <1>2, <4>6, SubDirsAre
      <4>8. i \in lost
        BY <1>2, <4>7 DEF TabSound, HidesLost
      <4> QED BY <4>8
    <3> QED BY <3>3, <3>4
  <2> QED BY <2>1, <2>2
<1> QED BY <1>3, <1>4, <1>5

\* A disk that mkfs made without files is a start that DisksAssumption allows.
LEMMA EmptyDiskSound == SoundDisk(EmptyDisk)
<1>1. RootDir \in Numbers /\ Numbers \subseteq Nat /\ 0 \notin Numbers
  BY DirectoryAssumption DEF RootDir
<1>2. PICK T : T = EmptyDisk
  OBVIOUS
<1>3. PICK dots : dots = DotEntries(RootDir, RootDir)
  OBVIOUS
<1>4. /\ \A n \in Numbers : n # RootDir => T[n] = Missing
      /\ T[RootDir] = [type |-> "dir", nlink |-> 1, ents |-> dots]
      /\ T = [n \in Numbers |-> T[n]]
  BY <1>1, <1>2, <1>3 DEF EmptyDisk
<1>5. dots \in Ents /\ Len(dots) = 2 /\ dots[1] = Entry(".", RootDir) /\ dots[2] = Entry("..", RootDir)
  BY <1>1, <1>3 DEF DotEntries, Entry, Ents, EntryNames, Dots
<1>6. Missing \in Inodes /\ T[RootDir] \in Inodes
  <2>1. T[RootDir] \in Inodes
    BY <1>4, <1>5 DEF Inodes, Ents
  <2> QED BY <2>1 DEF Inodes, Missing
<1>7. \A n \in Numbers : Mentions(T, n) = {}
  <2>1. DOMAIN dots = {1, 2}
    BY <1>5 DEF Ents
  <2>2. Missing.ents = <<>>
    BY DEF Missing
  <2> QED BY <1>4, <2>1, <2>2 DEF Mentions
<1>8. TreeShape(T)
  <2>1. T \in [Numbers -> Inodes]
    <3>1. \A n \in Numbers : T[n] \in Inodes
      BY <1>4, <1>6
    <3> QED BY <1>4, <3>1
  <2>2. Missing.type = "none" /\ Missing.ents = <<>>
    BY DEF Missing
  <2>3. dots[2].inum = RootDir /\ dots[2].name = ".."
    BY <1>5 DEF Entry
  <2>4. \A i \in Numbers : /\ T[i].type = "none" => T[i] = Missing
                           /\ T[i].type # "dir" => T[i].ents = <<>>
                           /\ T[i].type = "dir" => i = RootDir
    BY <1>4, <2>2
  <2>5. T[RootDir].type = "dir" /\ T[RootDir].ents = dots
    BY <1>4
  <2>6. RootDir # 0
    BY <1>1
  <2> QED BY <1>5, <1>7, <2>1, <2>3, <2>4, <2>5, <2>6 DEF TreeShape
<1>9. \A n \in Numbers : EntriesOf(T, n) = {} /\ SubDirs(T, n) = {}
  BY <1>7 DEF EntriesOf, SubDirs
<1>10. \A n \in Numbers : T[n].nlink = LinksOf(T, n)
  <2>1. Cardinality({}) = 0
    BY FS_EmptySet
  <2>2. Missing.nlink = 0
    BY DEF Missing
  <2> QED BY <1>4, <1>9, <2>1, <2>2 DEF LinksOf
<1>11. \A n \in Numbers : T[n].type # "none" => n \in Reachable(T)
  <2>1. Missing.type = "none"
    BY DEF Missing
  <2> QED BY <1>4, <1>8, <2>1, ReachIs
<1> QED BY <1>2, <1>8, <1>10, <1>11 DEF SoundDisk

(* Names make a tree and links are counted, whatever calls run at the same  *)
(* time and wherever the machine stops (fs.c:522-657, sysfile.c:118-414).   *)
THEOREM TreeCorrect == DirSpec => []TreeSound
<1>1. TreeInv => TreeSound
  BY TreeIsTree, TreeCounts DEF TreeSound
<1> QED BY <1>1, TreeInvAlways, PTL

(* Iput frees an inode only when nothing names it or refers to it, and what *)
(* it does not free has a name, a holder, or is one of the two leaks        *)
(* (fs.c:334-352, sysfile.c:118-290).                                       *)
THEOREM NothingLost == DirSpec => []DirNothingLost
BY TreeInvAlways, TreeKeeps, PTL
=============================================================================
