-------------------------------- MODULE Pipe --------------------------------
(***************************************************************************)
(* A pipe of pipe.c with the two entries of file.c's table that name it,   *)
(* among processes that fork, read, write, close and are killed.  What is  *)
(* done under the pipe's lock or under ftable.lock is one action.  The     *)
(* pipe's page and the two entries can be used again for another pipe.     *)
(***************************************************************************)
EXTENDS Integers, Sequences, FiniteSets

CONSTANTS
  Procs, Bytes,
  PIPESIZE,
  WRAP,        \* nread and nwrite are unsigned: they count modulo WRAP
  ReadCounts,  \* bounds: how many bytes a read asks for,
  Messages,    \* and the sequences of bytes that are written
  MaxKilled,   \* bound: killed processes at a time
  Failed       \* the result -1

ASSUME SizeAssumption == /\ PIPESIZE \in Nat \ {0} /\ WRAP \in Nat
                         /\ WRAP > PIPESIZE /\ WRAP % PIPESIZE = 0
                         /\ MaxKilled \in Nat
                         /\ ReadCounts \subseteq Nat \ {0}
                         /\ Messages \subseteq Seq(Bytes) \ {<<>>}
                         /\ IsFiniteSet(Procs)

Ends == {"r", "w"}

VARIABLES
  data, nread, nwrite, readopen, writeopen,  \* struct pipe
  allocated,     \* its page is allocated
  ref,           \* f->ref of the two files
  fds,           \* the ends that each process has open
  at, killed,
  left, asked,   \* what each process has still to put, how much it asks for
  result,        \* of the last step if it ends a read, with its reader
  cut            \* history: nobody was told of bytes that a killed writer put

pipe == <<data, nread, nwrite, readopen, writeopen, allocated>>
files == <<ref, fds>>
args == <<left, asked>>
vars == <<pipe, files, at, killed, args, result, cut>>

NoResult == result' = <<>>
Go(p, place) == at' = [at EXCEPT ![p] = place]

Init ==
  /\ \E b \in Bytes : data = [i \in 0 .. PIPESIZE - 1 |-> b]
  /\ nread = 0 /\ nwrite = 0
  /\ readopen = FALSE /\ writeopen = FALSE /\ allocated = FALSE
  /\ ref = [e \in Ends |-> 0]
  /\ fds = [p \in Procs |-> {}]
  /\ \E p \in Procs : at = [q \in Procs |-> IF q = p THEN "run" ELSE "none"]
  /\ killed = [p \in Procs |-> FALSE]
  /\ left = [p \in Procs |-> <<>>]
  /\ asked = [p \in Procs |-> 0]
  /\ result = <<>>
  /\ cut = FALSE

Runs(p) == at[p] = "run" /\ ~killed[p]

PipeAlloc(p) ==
  /\ Runs(p) /\ ~allocated /\ \A e \in Ends : ref[e] = 0
  /\ allocated' = TRUE
  /\ readopen' = TRUE /\ writeopen' = TRUE
  /\ nread' = 0 /\ nwrite' = 0 /\ cut' = FALSE
  /\ ref' = [e \in Ends |-> 1]
  /\ fds' = [fds EXCEPT ![p] = Ends]
  /\ UNCHANGED <<data, at, killed, args>>
  /\ NoResult

-----------------------------------------------------------------------------
(* Processes: fork shares the files, exit closes them one by one.          *)

ForkWith(p, q, newref) ==
  /\ Runs(p) /\ at[q] = "none"
  /\ fds' = [fds EXCEPT ![q] = fds[p]]
  /\ ref' = newref
  /\ Go(q, "run")
  /\ UNCHANGED <<pipe, killed, args, cut>>
  /\ NoResult

\* Mutant: filedup is forgotten.
ForkUncounted(p, q) == ForkWith(p, q, ref)
Fork(p, q) ==
  ForkWith(p, q, [e \in Ends |-> IF e \in fds[p] THEN ref[e] + 1 ELSE ref[e]])

\* fileclose up to the release of ftable.lock.
FileClose(p, e) ==
  /\ at[p] = "run" /\ e \in fds[p]
  /\ fds' = [fds EXCEPT ![p] = @ \ {e}]
  /\ ref' = [ref EXCEPT ![e] = @ - 1]
  /\ IF ref[e] = 1 THEN Go(p, IF e = "w" THEN "close_w" ELSE "close_r")
                   ELSE UNCHANGED at
  /\ UNCHANGED <<pipe, killed, args, cut>>
  /\ NoResult

Woken(f, place, again) ==
  [q \in Procs |-> IF f[q] = place THEN again ELSE f[q]]

PipeClose(p) ==
  /\ \/ /\ at[p] = "close_w"
        /\ writeopen' = FALSE
        /\ allocated' = readopen
        /\ at' = Woken([at EXCEPT ![p] = "run"], "read_sleep", "read")
        /\ cut' = FALSE
        /\ UNCHANGED readopen
     \/ /\ at[p] = "close_r"
        /\ readopen' = FALSE
        /\ allocated' = writeopen
        /\ at' = Woken([at EXCEPT ![p] = "run"], "write_sleep", "write")
        /\ UNCHANGED <<writeopen, cut>>
  /\ UNCHANGED <<data, nread, nwrite, files, killed, args>>
  /\ NoResult

Exit(p) ==
  /\ at[p] = "run" /\ fds[p] = {}
  /\ \E q \in Procs \ {p} : at[q] # "none"
  /\ Go(p, "none")
  /\ killed' = [killed EXCEPT ![p] = FALSE]
  /\ UNCHANGED <<pipe, files, args, cut>>
  /\ NoResult

\* kill sets the flag and wakes the process.
Kill(p) ==
  /\ at[p] # "none" /\ ~killed[p]
  /\ Cardinality({q \in Procs : killed[q]}) < MaxKilled
  /\ killed' = [killed EXCEPT ![p] = TRUE]
  /\ Go(p, CASE at[p] = "read_sleep" -> "read"
             [] at[p] = "write_sleep" -> "write"
             [] OTHER -> at[p])
  /\ UNCHANGED <<pipe, files, args, cut>>
  /\ NoResult

-----------------------------------------------------------------------------
(* pipewrite and piperead, from a lock of the pipe to its release.         *)

Count == (nwrite - nread) % WRAP      \* bytes in the pipe
Full == nwrite = (nread + PIPESIZE) % WRAP
Empty == nread = nwrite

CallWrite(p) ==
  /\ Runs(p) /\ "w" \in fds[p]
  /\ Go(p, "write")
  /\ \E s \in Messages : left' = [left EXCEPT ![p] = s]
  /\ UNCHANGED <<pipe, files, killed, asked, cut>>
  /\ NoResult

CallRead(p) ==
  /\ Runs(p) /\ "r" \in fds[p]
  /\ Go(p, "read")
  /\ \E n \in ReadCounts : asked' = [asked EXCEPT ![p] = n]
  /\ UNCHANGED <<pipe, files, killed, left, cut>>
  /\ NoResult

\* The loop puts bytes until all are put or the pipe is full.
FitsAll(p) == Len(left[p])       \* Mutant: the test for a full pipe is dropped.
Fits(p) == LET room == PIPESIZE - Count
           IN IF Len(left[p]) < room THEN Len(left[p]) ELSE room

\* Slot s gets the byte that is written to it in this turn, if any.
PutBytes(p, n) ==
  [s \in DOMAIN data |->
     IF \E k \in 1 .. n : (nwrite + k - 1) % PIPESIZE = s
     THEN left[p][CHOOSE k \in 1 .. n : (nwrite + k - 1) % PIPESIZE = s]
     ELSE data[s]]

WriteWith(p, woken) ==
  LET n == Fits(p)
      rest == SubSeq(left[p], n + 1, Len(left[p])) IN
  /\ at[p] = "write"
  /\ data' = PutBytes(p, n)
  /\ nwrite' = (nwrite + n) % WRAP
  /\ \/ /\ rest = <<>>
        /\ left' = [left EXCEPT ![p] = <<>>]
        /\ at' = [woken EXCEPT ![p] = "run"]
        /\ cut' = FALSE
     \/ /\ rest # <<>> /\ (~readopen \/ killed[p])
        /\ left' = [left EXCEPT ![p] = <<>>]
        /\ Go(p, "run")
        /\ cut' = (cut \/ n > 0)
     \/ /\ rest # <<>> /\ readopen /\ ~killed[p]
        /\ left' = [left EXCEPT ![p] = rest]
        /\ at' = [woken EXCEPT ![p] = "write_sleep"]
        /\ cut' = FALSE
  /\ UNCHANGED <<nread, readopen, writeopen, allocated, files, killed, asked>>
  /\ NoResult

PipeWrite(p) == WriteWith(p, Woken(at, "read_sleep", "read"))

\* The first bytes of the pipe, from nread on.
Stored(n) == [k \in 1 .. n |-> data[(nread + k - 1) % PIPESIZE]]

ReadWith(p, woken, waiting) ==
  /\ at[p] = "read"
  /\ \/ /\ waiting /\ ~killed[p]
        /\ Go(p, "read_sleep")
        /\ NoResult
        /\ UNCHANGED <<nread, asked>>
     \/ /\ waiting /\ killed[p]
        /\ Go(p, "run")
        /\ asked' = [asked EXCEPT ![p] = 0]
        /\ result' = <<p, Failed>>
        /\ UNCHANGED nread
     \/ /\ ~waiting
        /\ LET n == IF asked[p] < Count THEN asked[p] ELSE Count IN
           /\ result' = <<p, Stored(n)>>
           /\ nread' = (nread + n) % WRAP
        /\ asked' = [asked EXCEPT ![p] = 0]
        /\ at' = [woken EXCEPT ![p] = "run"]
  /\ UNCHANGED <<data, nwrite, readopen, writeopen, allocated, files, killed,
                 left, cut>>

\* Mutants: an empty pipe is taken for the end; writers are not told of room.
ReadNoWait(p) == ReadWith(p, Woken(at, "write_sleep", "write"), FALSE)
ReadQuietly(p) == ReadWith(p, at, Empty /\ writeopen)
PipeRead(p) == ReadWith(p, Woken(at, "write_sleep", "write"), Empty /\ writeopen)

-----------------------------------------------------------------------------
Next ==
  \E p \in Procs :
    \/ PipeAlloc(p) \/ (\E q \in Procs : Fork(p, q)) \/ Exit(p) \/ Kill(p)
    \/ (\E e \in Ends : FileClose(p, e)) \/ PipeClose(p)
    \/ CallWrite(p) \/ PipeWrite(p) \/ CallRead(p) \/ PipeRead(p)

Spec == Init /\ [][Next]_vars

-----------------------------------------------------------------------------
TypeOK ==
  /\ data \in [0 .. PIPESIZE - 1 -> Bytes]
  /\ nread \in 0 .. WRAP - 1 /\ nwrite \in 0 .. WRAP - 1
  /\ Count <= PIPESIZE
  /\ \A flag \in {readopen, writeopen, allocated, cut} : flag \in BOOLEAN
  /\ ref \in [Ends -> 0 .. Cardinality(Procs)]
  /\ fds \in [Procs -> SUBSET Ends]
  /\ at \in [Procs -> {"none", "run", "close_r", "close_w", "read", "read_sleep",
                       "write", "write_sleep"}]
  /\ killed \in [Procs -> BOOLEAN]

\* The page is allocated as long as anybody reads, writes or has still to close
\* an end, and its files are counted right (file.c:61-80, pipe.c:62-74).
Uses(p) == fds[p] # {} \/ at[p] \in {"close_r", "close_w", "read", "read_sleep",
                                     "write", "write_sleep"}

PipeKept ==
  /\ allocated <=> \E p \in Procs : Uses(p)
  /\ \A e \in Ends : ref[e] = Cardinality({p \in Procs : e \in fds[p]})

\* Nobody sleeps on a pipe that has what it waits for, or that nobody will ever
\* give it (pipe.c:65-68, 85-92, 95, 106-112, 118).  The exception is in the
\* code: a killed writer returns without waking the readers of what it has put.
NoSleepPastBytes ==
  \A p \in Procs :
    /\ at[p] = "write_sleep" => Full /\ readopen
    /\ at[p] = "read_sleep" => writeopen /\ (Empty \/ cut)

\* The pipe is a stream of bytes (pipe.c:78-121), also when the counters wrap.
BS == INSTANCE ByteStream WITH
        queue <- Stored(Count),
        writers <- {p \in Procs : "w" \in fds[p]}

PipeIsStream == BS!Spec

\* The page and the counts of a pipe, and its sleepers (pipe.c:22-118,
\* file.c:43-80).
PipeSound == TypeOK /\ PipeKept /\ NoSleepPastBytes
=============================================================================
