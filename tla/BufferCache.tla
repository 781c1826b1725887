---------------------------- MODULE BufferCache -----------------------------
(***************************************************************************)
(* The buffer cache of bio.c with the sleep lock of each buffer and the    *)
(* request queue of ide.c.  A process has one buffer at a time.  What is   *)
(* done under bcache.lock, a sleep lock's spin lock or idelock is one      *)
(* action; sleep gives the lock up and waits in one step, as proc.c does.  *)
(***************************************************************************)
EXTENDS Integers, Sequences, FiniteSets, Functions

CONSTANTS Procs, Bufs, Blocks, Data,
          None        \* no process, no buffer, no block

ASSUME NoneAssumption == None \notin Procs \cup Bufs \cup Blocks
ASSUME FiniteAssumption == IsFiniteSet(Procs) /\ IsFiniteSet(Bufs)

VARIABLES
  block, refcnt, holder, valid, dirty, data,   \* of each buffer; holder: lock.pid
  lru,        \* the list from bcache.head.next on, most recently used first
  idequeue,
  started,    \* idestart was called for the head of idequeue
  disk,
  at, buf, want,   \* of each process: where it is, its buffer, the block asked for
  panicked,
  newest      \* history: the last content given to each block

bufs == <<block, refcnt, holder, valid, dirty, data, lru>>
ide == <<idequeue, started, disk>>
procs == <<at, buf, want>>
vars == <<bufs, ide, procs, panicked, newest>>

\* The orders in which the list can have the buffers.
Orders == Bijection(1 .. Cardinality(Bufs), Bufs)

Go(p, place) == at' = [at EXCEPT ![p] = place]

Init ==
  /\ block = [b \in Bufs |-> None]
  /\ refcnt = [b \in Bufs |-> 0]
  /\ holder = [b \in Bufs |-> None]
  /\ valid = [b \in Bufs |-> FALSE] /\ dirty = [b \in Bufs |-> FALSE]
  /\ \E d \in Data : /\ data = [b \in Bufs |-> d]
                     /\ disk = [k \in Blocks |-> d]
  /\ lru = CHOOSE s \in Orders : TRUE
  /\ idequeue = <<>> /\ started = FALSE
  /\ at = [p \in Procs |-> "idle"]
  /\ buf = [p \in Procs |-> None] /\ want = [p \in Procs |-> None]
  /\ panicked = FALSE
  /\ newest = disk

-----------------------------------------------------------------------------
(* bget: the search and the choice of a buffer to recycle.                 *)

Take(p, b) ==
  /\ buf' = [buf EXCEPT ![p] = b]
  /\ Go(p, "lock")

Hit(p, k) ==
  \E b \in Bufs :
    /\ block[b] = k
    /\ refcnt' = [refcnt EXCEPT ![b] = @ + 1]
    /\ Take(p, b)
    /\ UNCHANGED <<block, valid, dirty, panicked>>

\* The search from the list's end for a buffer that is not in use.
Recycle(p, k, unused) ==
  /\ IF unused = {}
     THEN panicked' = TRUE /\ UNCHANGED <<block, refcnt, valid, dirty, buf, at>>
     ELSE \E i \in DOMAIN lru :
            LET b == lru[i] IN
            /\ b \in unused
            /\ \A j \in DOMAIN lru : j > i => lru[j] \notin unused
            /\ block' = [block EXCEPT ![b] = k]
            /\ refcnt' = [refcnt EXCEPT ![b] = 1]
            /\ valid' = [valid EXCEPT ![b] = FALSE]
            /\ dirty' = [dirty EXCEPT ![b] = FALSE]
            /\ Take(p, b)
            /\ UNCHANGED panicked

Unreferenced == {b \in Bufs : refcnt[b] = 0}   \* Mutant: B_DIRTY is not looked at.
Unused == {b \in Bufs : refcnt[b] = 0 /\ ~dirty[b]}

Cached(k) == \E b \in Bufs : block[b] = k

\* Mutant: bcache.lock is released between the search and the recycling.
BgetUnlocked(p, k) ==
  /\ want' = [want EXCEPT ![p] = k]
  /\ \/ at[p] = "idle" /\ Cached(k) /\ Hit(p, k)
     \/ /\ at[p] = "idle" /\ ~Cached(k)
        /\ Go(p, "missed")
        /\ UNCHANGED <<block, refcnt, valid, dirty, buf, panicked>>
     \/ at[p] = "missed" /\ want[p] = k /\ Recycle(p, k, Unused)
  /\ UNCHANGED <<holder, data, lru, ide, newest>>

Bget(p, k) ==
  /\ at[p] = "idle"
  /\ want' = [want EXCEPT ![p] = k]
  /\ IF Cached(k) THEN Hit(p, k) ELSE Recycle(p, k, Unused)
  /\ UNCHANGED <<holder, data, lru, ide, newest>>

-----------------------------------------------------------------------------
(* acquiresleep and what bread does next.                                  *)

AcquireSleep(p) ==
  /\ at[p] = "lock" /\ holder[buf[p]] = None
  /\ holder' = [holder EXCEPT ![buf[p]] = p]
  /\ Go(p, IF valid[buf[p]] THEN "have" ELSE "iderw")
  /\ UNCHANGED <<block, refcnt, valid, dirty, data, lru, ide, buf, want,
                 panicked, newest>>

LockSleep(p) ==
  /\ at[p] = "lock" /\ holder[buf[p]] # None
  /\ Go(p, "asleep")
  /\ UNCHANGED <<bufs, ide, buf, want, panicked, newest>>

-----------------------------------------------------------------------------
(* iderw and ideintr.                                                      *)

Iderw(p) ==
  /\ at[p] = "iderw"
  /\ idequeue' = Append(idequeue, buf[p])
  /\ started' = (started \/ idequeue = <<>>)
  /\ Go(p, "disk")
  /\ UNCHANGED <<bufs, disk, buf, want, panicked, newest>>

\* The transfer of the head's data, its flags, the wakeup, and the next idestart.
Transfer(woken, more) ==
  /\ started
  /\ LET b == Head(idequeue) IN
     /\ IF dirty[b]
        THEN disk' = [disk EXCEPT ![block[b]] = data[b]] /\ UNCHANGED data
        ELSE data' = [data EXCEPT ![b] = disk[block[b]]] /\ UNCHANGED disk
     /\ valid' = [valid EXCEPT ![b] = TRUE]
     /\ dirty' = [dirty EXCEPT ![b] = FALSE]
     /\ at' = [p \in Procs |-> IF at[p] = "disk" /\ buf[p] = b THEN woken ELSE at[p]]
  /\ idequeue' = Tail(idequeue)
  /\ started' = more
  /\ UNCHANGED <<block, refcnt, holder, lru, buf, want, panicked, newest>>

IntrStartsNone == Transfer("awake", FALSE)  \* Mutant: the queue is not gone on with.
Ideintr == Transfer("awake", Len(idequeue) > 1)

IderwReturn(p) ==
  /\ at[p] = "awake"
  /\ Go(p, IF valid[buf[p]] /\ ~dirty[buf[p]] THEN "have" ELSE "disk")
  /\ UNCHANGED <<bufs, ide, buf, want, panicked, newest>>

-----------------------------------------------------------------------------
(* The holder of a buffer.                                                 *)

\* A change and log_write, which keeps the buffer until it is committed.
LogWrite(p) ==
  /\ at[p] = "have"
  /\ \E d \in Data \ {data[buf[p]]} :
       /\ data' = [data EXCEPT ![buf[p]] = d]
       /\ newest' = [newest EXCEPT ![block[buf[p]]] = d]
  /\ dirty' = [dirty EXCEPT ![buf[p]] = TRUE]
  /\ UNCHANGED <<block, refcnt, holder, valid, lru, ide, procs, panicked>>

Bwrite(p) ==
  /\ at[p] = "have"
  /\ dirty' = [dirty EXCEPT ![buf[p]] = TRUE]
  /\ Go(p, "iderw")
  /\ UNCHANGED <<block, refcnt, holder, valid, data, lru, ide, buf, want,
                 panicked, newest>>

\* brelse: releasesleep first, then the reference count under bcache.lock.
ReleaseSleep(p) ==
  /\ at[p] = "have"
  /\ holder' = [holder EXCEPT ![buf[p]] = None]
  /\ at' = [q \in Procs |->
              IF q = p THEN "brelse"
              ELSE IF at[q] = "asleep" /\ buf[q] = buf[p] THEN "lock" ELSE at[q]]
  /\ UNCHANGED <<block, refcnt, valid, dirty, data, lru, ide, buf, want,
                 panicked, newest>>

MovedToFront(b) ==
  LET place == CHOOSE i \in DOMAIN lru : lru[i] = b
  IN [i \in DOMAIN lru |->
        IF i = 1 THEN b ELSE IF i <= place THEN lru[i - 1] ELSE lru[i]]

DropRef(p, moved) ==
  /\ at[p] = "brelse"
  /\ refcnt' = [refcnt EXCEPT ![buf[p]] = @ - 1]
  /\ lru' = IF refcnt[buf[p]] = 1 THEN moved ELSE lru
  /\ buf' = [buf EXCEPT ![p] = None] /\ want' = [want EXCEPT ![p] = None]
  /\ Go(p, "idle")
  /\ UNCHANGED <<block, holder, valid, dirty, data, ide, panicked, newest>>

\* Mutant: the buffer is not taken out of its place in the list.
BrelseTwice(p) == DropRef(p, <<buf[p]>> \o lru)
Brelse(p) == DropRef(p, MovedToFront(buf[p]))

-----------------------------------------------------------------------------
Step(p) ==
  \/ \E k \in Blocks : Bget(p, k)
  \/ AcquireSleep(p) \/ LockSleep(p)
  \/ Iderw(p) \/ IderwReturn(p)
  \/ LogWrite(p) \/ Bwrite(p) \/ ReleaseSleep(p) \/ Brelse(p)

Next == ~panicked /\ (Ideintr \/ \E p \in Procs : Step(p))

Spec == Init /\ [][Next]_vars

\* The disk answers, and a process goes on when it can.  A holder writes a bounded
\* number of times before it calls brelse, and a process whose lock is free again
\* and again gets to test it while it is free.
Fairness ==
  /\ WF_vars(~panicked /\ Ideintr)
  /\ \A p \in Procs :
       /\ WF_vars(~panicked /\ (Iderw(p) \/ IderwReturn(p) \/ Brelse(p)))
       /\ SF_vars(~panicked /\ AcquireSleep(p))
       /\ SF_vars(~panicked /\ ReleaseSleep(p))

FairSpec == Spec /\ Fairness

-----------------------------------------------------------------------------
TypeOK ==
  /\ block \in [Bufs -> Blocks \cup {None}]
  /\ refcnt \in [Bufs -> 0 .. Cardinality(Procs)]
  /\ holder \in [Bufs -> Procs \cup {None}]
  /\ valid \in [Bufs -> BOOLEAN] /\ dirty \in [Bufs -> BOOLEAN]
  /\ data \in [Bufs -> Data] /\ disk \in [Blocks -> Data]
  /\ newest \in [Blocks -> Data]
  /\ lru \in Orders
  /\ idequeue \in Seq(Bufs) /\ IsInjective(idequeue)
  /\ started \in BOOLEAN /\ panicked \in BOOLEAN
  /\ at \in [Procs -> {"idle", "lock", "asleep", "iderw", "disk", "awake",
                       "have", "brelse"}]
  /\ buf \in [Procs -> Bufs \cup {None}]
  /\ want \in [Procs -> Blocks \cup {None}]

\* A block is in one buffer at most, and a buffer that a process waits for or
\* has is not given to another block in between (bio.c:10-16, 66-91).
OneBufferPerBlock ==
  /\ \A b, c \in Bufs : block[b] = block[c] /\ block[b] # None => b = c
  /\ \A p \in Procs : buf[p] # None => block[buf[p]] = want[p]

\* The buffer that bread returns has the block's last content, also when that is
\* not on the disk yet (bio.c:78-82, 101-104, ide.c:117-123).
NewestRead ==
  \A p \in Procs : at[p] = "have" =>
    holder[buf[p]] = p /\ data[buf[p]] = newest[want[p]]

\* Every bread returns, unless the cache has run out of buffers.
BreadReturns ==
  \A p \in Procs : at[p] = "lock" ~> at[p] = "have" \/ panicked

\* Whoever has a buffer has the block he asked for and its last content
\* (bio.c:66-132).
BuffersSound == TypeOK /\ OneBufferPerBlock /\ NewestRead
=============================================================================
