------------------------------- MODULE FsLog --------------------------------
(***************************************************************************)
(* The redo log of log.c over the buffer cache and a disk that writes one  *)
(* block at a time, with crashes between any two writes.  What is done     *)
(* under log.lock is one action; commit and recovery are one action for    *)
(* each block written.  Other sleepers of the buffer cache are left out:   *)
(* a cached block that is not pinned by B_DIRTY may be dropped any time.   *)
(***************************************************************************)
EXTENDS Integers, Sequences, FiniteSets, SequencesExt

CONSTANTS
  Procs, Blocks, Data,
  MAXOPBLOCKS,   \* blocks an operation may write
  LOGSIZE,       \* blocks begin_op hands out
  NLOG           \* sb.nlog: blocks of the log on disk, its header included

ASSUME SizesAssumption == /\ MAXOPBLOCKS \in Nat \ {0}
                          /\ LOGSIZE \in Nat \ {0} /\ NLOG \in Nat \ {0, 1}
                          /\ IsFiniteSet(Procs)

VARIABLES
  home, logBlock, header,        \* the disk
  cache, pinned,                 \* buffers, and those with B_DIRTY
  lh, outstanding, committing,   \* struct log; lh.n is Len(lh)
  phase, tail,                   \* the commit or recovery under way
  recovering,                    \* initlog has not returned
  at,                            \* where each process is
  wrote,                         \* blocks of its operation
  panicked

disk == <<home, logBlock, header>>
buffers == <<cache, pinned>>
log == <<lh, outstanding, committing>>
run == <<phase, tail, recovering>>
procs == <<at, wrote>>
vars == <<disk, buffers, log, run, procs, panicked>>

LogSlots == 1 .. NLOG - 1
Up == ~recovering /\ ~panicked

Go(p, place) == at' = [at EXCEPT ![p] = place]

(* wakeup(&log) on top of the places f.                                     *)
Woken(f) == [p \in Procs |-> IF f[p] = "asleep" THEN "begin" ELSE f[p]]

\* mkfs's disk, about to be booted.
Init ==
  /\ \E d \in Data : home = [b \in Blocks |-> d] /\ logBlock = [i \in LogSlots |-> d]
  /\ header = <<>>
  /\ cache = home /\ pinned = {}
  /\ lh = <<>> /\ outstanding = 0 /\ committing = FALSE
  /\ phase = "read" /\ tail = 0 /\ recovering = TRUE
  /\ at = [p \in Procs |-> "idle"]
  /\ wrote = [p \in Procs |-> {}]
  /\ panicked = FALSE

-----------------------------------------------------------------------------
(* begin_op: the test is made under log.lock, which sleep() gives up.       *)

Room == Len(lh) + (outstanding + 1) * MAXOPBLOCKS <= LOGSIZE

BeginAt(p, admitted) ==
  /\ Up /\ at[p] \in {"idle", "begin"}
  /\ IF admitted
     THEN /\ outstanding' = outstanding + 1
          /\ Go(p, "op")
     ELSE /\ Go(p, "asleep")
          /\ UNCHANGED outstanding
  /\ UNCHANGED <<disk, buffers, lh, committing, run, wrote, panicked>>

BeginOp(p) == BeginAt(p, ~committing /\ Room)

-----------------------------------------------------------------------------
(* bread, a change of the data and log_write, under the buffer's lock.      *)

LogFull == Len(lh) >= LOGSIZE \/ Len(lh) >= NLOG - 1

MayWrite(p, b) ==
  /\ Up /\ at[p] = "op"
  /\ Cardinality(wrote[p] \cup {b}) <= MAXOPBLOCKS

\* log absorption: a block is in the log once.
Logged(b) == IF Contains(lh, b) THEN lh ELSE Append(lh, b)

LogAs(p, b, newlh, newpinned) ==
  /\ MayWrite(p, b)
  /\ \E d \in Data \ {cache[b]} : cache' = [cache EXCEPT ![b] = d]
  /\ wrote' = [wrote EXCEPT ![p] = @ \cup {b}]
  /\ IF LogFull
     THEN panicked' = TRUE /\ UNCHANGED <<lh, pinned>>
     ELSE lh' = newlh /\ pinned' = newpinned /\ UNCHANGED panicked
  /\ UNCHANGED <<disk, outstanding, committing, run, at>>

\* Mutants: no absorption; the buffer is not kept.
LogTwice(p, b) == LogAs(p, b, Append(lh, b), pinned \cup {b})
LogUnpinned(p, b) == LogAs(p, b, Logged(b), pinned)
LogWrite(p, b) == LogAs(p, b, Logged(b), pinned \cup {b})

\* bget gives the buffer to another block; the next bread reads the disk.
Evict(b) ==
  /\ ~panicked /\ b \notin pinned
  /\ cache' = [cache EXCEPT ![b] = home[b]]
  /\ UNCHANGED <<disk, pinned, log, run, procs, panicked>>

-----------------------------------------------------------------------------
(* end_op and commit.                                                       *)

\* Mutant: no write_log.
HeadFirst == IF lh = <<>> THEN "done" ELSE "head"
FirstPhase == IF lh = <<>> THEN "done" ELSE "copy"

EndAt(p, places) ==
  /\ Up /\ at[p] = "op"
  /\ outstanding' = outstanding - 1
  /\ panicked' = committing
  /\ wrote' = [wrote EXCEPT ![p] = {}]
  /\ IF outstanding = 1
     THEN /\ committing' = TRUE
          /\ phase' = FirstPhase /\ tail' = 0
          /\ Go(p, "commit")
     ELSE /\ at' = places
          /\ UNCHANGED <<committing, phase, tail>>
  /\ UNCHANGED <<disk, buffers, lh, recovering>>

EndOp(p) == EndAt(p, Woken([at EXCEPT ![p] = "idle"]))

\* Each turn of a loop over the log; the last one goes on to the next phase.
Turn(this, next) ==
  /\ phase = this /\ ~panicked
  /\ IF tail + 1 < Len(lh)
     THEN tail' = tail + 1 /\ UNCHANGED phase
     ELSE tail' = 0 /\ phase' = next

\* write_log.
CopyToLog ==
  /\ Turn("copy", "head")
  /\ logBlock' = [logBlock EXCEPT ![tail + 1] = cache[lh[tail + 1]]]
  /\ UNCHANGED <<home, header, buffers, log, recovering, procs, panicked>>

\* write_head, "the true point at which the current transaction commits".
WriteHead ==
  /\ phase = "head" /\ ~panicked
  /\ header' = lh
  /\ phase' = "install" /\ tail' = 0
  /\ UNCHANGED <<home, logBlock, buffers, log, recovering, procs, panicked>>

\* One block of install_trans; bwrite ends with B_DIRTY clear.
Install ==
  /\ Turn("install", "erase")
  /\ LET b == lh[tail + 1] IN
     /\ home' = [home EXCEPT ![b] = logBlock[tail + 1]]
     /\ cache' = [cache EXCEPT ![b] = logBlock[tail + 1]]
     /\ pinned' = pinned \ {b}
  /\ UNCHANGED <<logBlock, header, log, recovering, procs, panicked>>

EraseAs(cleared) ==
  /\ phase = "erase" /\ ~panicked
  /\ lh' = cleared /\ header' = cleared
  /\ phase' = "done"
  /\ UNCHANGED <<home, logBlock, buffers, outstanding, committing, tail,
                 recovering, procs, panicked>>

EraseNothing == EraseAs(lh)    \* Mutant: lh.n = 0 is forgotten.
Erase == EraseAs(<<>>)

\* The end of end_op, under log.lock again.
FinishAt(p, places) ==
  /\ phase = "done" /\ Up /\ at[p] = "commit"
  /\ committing' = FALSE
  /\ phase' = "none"
  /\ at' = places
  /\ UNCHANGED <<disk, buffers, lh, outstanding, tail, recovering, wrote, panicked>>

FinishQuietly(p) == FinishAt(p, [at EXCEPT ![p] = "idle"])  \* Mutant: no wakeup.
FinishCommit(p) == FinishAt(p, Woken([at EXCEPT ![p] = "idle"]))

-----------------------------------------------------------------------------
(* The machine stops at any step, and boots: initlog runs before the first  *)
(* process reaches the file system.                                         *)

Crash ==
  /\ cache' = home /\ pinned' = {}
  /\ lh' = <<>> /\ outstanding' = 0 /\ committing' = FALSE
  /\ phase' = "read" /\ tail' = 0 /\ recovering' = TRUE
  /\ at' = [p \in Procs |-> "idle"]
  /\ wrote' = [p \in Procs |-> {}]
  /\ panicked' = FALSE
  /\ UNCHANGED disk

ReadHead ==
  /\ phase = "read"
  /\ lh' = header
  /\ phase' = IF header = <<>> THEN "erase" ELSE "install"
  /\ UNCHANGED <<disk, buffers, outstanding, committing, tail, recovering, procs,
                 panicked>>

Recovered ==
  /\ phase = "done" /\ recovering
  /\ recovering' = FALSE
  /\ phase' = "none"
  /\ UNCHANGED <<disk, buffers, log, tail, procs, panicked>>

-----------------------------------------------------------------------------
CommitStep(p) ==
  at[p] = "commit" /\ (CopyToLog \/ WriteHead \/ Install \/ Erase \/ FinishCommit(p))

Recovery == recovering /\ (ReadHead \/ Install \/ Erase \/ Recovered)

Next ==
  \/ \E p \in Procs : BeginOp(p) \/ EndOp(p) \/ CommitStep(p)
  \/ \E p \in Procs, b \in Blocks : LogWrite(p, b)
  \/ \E b \in Blocks : Evict(b)
  \/ Recovery \/ Crash

Spec == Init /\ [][Next]_vars

\* Every operation ends some time, commit and recovery go on, and a process that
\* is awake in begin_op looks again.
Fairness == /\ WF_vars(Recovery)
            /\ \A p \in Procs :
                 /\ WF_vars(EndOp(p)) /\ WF_vars(CommitStep(p))
                 /\ WF_vars(at[p] = "begin" /\ BeginOp(p))

FairSpec == Spec /\ Fairness

-----------------------------------------------------------------------------
TypeOK ==
  /\ home \in [Blocks -> Data] /\ cache \in [Blocks -> Data]
  /\ logBlock \in [LogSlots -> Data]
  /\ \A s \in {header, lh} : s \in Seq(Blocks) /\ IsInjective(s) /\ Len(s) < NLOG
  /\ pinned \subseteq Blocks
  /\ outstanding = Cardinality({p \in Procs : at[p] = "op"})
  /\ committing \in BOOLEAN /\ recovering \in BOOLEAN /\ panicked \in BOOLEAN
  /\ phase \in {"none", "read", "copy", "head", "install", "erase", "done"}
  /\ tail \in 0 .. NLOG - 2
  /\ at \in [Procs -> {"idle", "begin", "asleep", "op", "commit"}]
  /\ wrote \in [Procs -> SUBSET Blocks]

\* What recovery makes of the disk as it is now (log.c:115-122).
Durable ==
  [b \in Blocks |-> IF \E i \in DOMAIN header : header[i] = b
                    THEN logBlock[CHOOSE i \in DOMAIN header : header[i] = b]
                    ELSE home[b]]

AD == INSTANCE AtomicDisk WITH
        mem <- IF recovering THEN Durable ELSE cache,
        durable <- Durable,
        inOp <- {p \in Procs : at[p] = "op"}

\* A crash at any step leaves the disk as it was between two operations: the
\* commits of log.c are those of AtomicDisk, made when no operation is under way
\* (log.c:11-15, 98-100).
LogIsAtomic == AD!Spec

\* When no operation is running or being committed, all that returned from
\* end_op are on the disk for good (log.c:143-145).
QuietIsDurable ==
  Up /\ outstanding = 0 /\ ~committing => cache = Durable /\ header = <<>>

\* A block that differs from the disk is kept in its buffer until commit has
\* written it (log.c:205, 231, bio.c:79-82).
ChangesPinned == \A b \in Blocks : Up /\ cache[b] # home[b] =>
                   b \in pinned /\ Contains(lh, b)

\* A process asleep in begin_op gets another try, unless the machine stops.
SleepersRetry == \A p \in Procs : at[p] = "asleep" ~> at[p] # "asleep" \/ panicked

\* What the log, the buffers and the disk have is enough to commit and recover
\* (log.c:81-163, 205-234).
LogSound == TypeOK /\ QuietIsDurable /\ ChangesPinned
=============================================================================
