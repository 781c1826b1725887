---------------------------- MODULE StreamProofs ----------------------------
(***************************************************************************)
(* Pipe, Console and Spinlock for any finite set of processes, any rings,  *)
(* messages, processors and locks: a pipe's page lives as long as it is    *)
(* used, its counters stay within its ring, nobody sleeps past what it     *)
(* waits for and the pipe is a stream of bytes; the console's ring is an   *)
(* edited line and a queue of committed characters; spinlocks exclude and  *)
(* give every thread its interrupts back.                                  *)
(***************************************************************************)
EXTENDS Pipe, Console, Spinlock, FiniteSetTheorems, SequenceTheorems, WellFoundedInduction, TLAPS

(* Counters that wrap, and the slots of a ring that they name.             *)

LEMMA WrapUp ==
  ASSUME NEW wrap \in Nat \ {0}, NEW a \in Int, 0 <= a, a < 2 * wrap
  PROVE  a % wrap = IF a < wrap THEN a ELSE a - wrap
<1> DEFINE q == a \div wrap
           r == a % wrap
<1>1. wrap \in Nat /\ wrap > 0
  OBVIOUS
<1>2. q \in Int /\ r \in Int /\ a = wrap * q + r /\ 0 <= r /\ r < wrap
  BY <1>1
<1>3. q < 2
  <2>1. q >= 2 => wrap * q >= wrap * 2
    BY <1>1, <1>2
  <2> QED BY <2>1, <1>1, <1>2
<1>4. q >= 0
  <2>1. q <= -1 => wrap * q <= wrap * (-1)
    BY <1>1, <1>2
  <2> QED BY <2>1, <1>1, <1>2
<1>5. (q = 0 /\ a = r) \/ (q = 1 /\ a = wrap + r)
  BY <1>1, <1>2, <1>3, <1>4
<1> HIDE DEF q
<1> QED BY <1>1, <1>2, <1>5

LEMMA WrapDown ==
  ASSUME NEW wrap \in Nat \ {0}, NEW a \in Int, -wrap < a, a < wrap
  PROVE  a % wrap = IF a >= 0 THEN a ELSE a + wrap
<1> DEFINE q == a \div wrap
           r == a % wrap
<1>1. wrap \in Nat /\ wrap > 0
  OBVIOUS
<1>2. q \in Int /\ r \in Int /\ a = wrap * q + r /\ 0 <= r /\ r < wrap
  BY <1>1
<1>3. q < 1
  <2>1. q >= 1 => wrap * q >= wrap * 1
    BY <1>1, <1>2
  <2> QED BY <2>1, <1>1, <1>2
<1>4. q >= -1
  <2>1. q <= -2 => wrap * q <= wrap * (-2)
    BY <1>1, <1>2
  <2> QED BY <2>1, <1>1, <1>2
<1>5. (q = 0 /\ a = r) \/ (q = -1 /\ a = r - wrap)
  BY <1>1, <1>2, <1>3, <1>4
<1> HIDE DEF q
<1> QED BY <1>1, <1>2, <1>5

LEMMA ModUnique ==
  ASSUME NEW m \in Nat \ {0}, NEW k \in Int, NEW r \in 0 .. m - 1
  PROVE  (m * k + r) % m = r
<1> DEFINE a == m * k + r
           q == a \div m
           s == a % m
<1>1. a \in Int /\ q \in Int /\ s \in 0 .. m - 1 /\ a = m * q + s
  <2>1. a \in Int
    OBVIOUS
  <2> HIDE DEF a
  <2> QED BY <2>1
<1>2. m * k - m * q = s - r /\ m * k \in Int /\ m * q \in Int
  BY <1>1
<1>3. m * (k - q) = m * k - m * q
  BY <1>1
<1> DEFINE d == k - q
<1>4. d \in Int /\ m * d = s - r
  BY <1>1, <1>2, <1>3
<1> HIDE DEF d, q, s, a
<1>5. d >= 1 => m * d >= m * 1
  BY <1>4
<1>6. d <= -1 => m * d <= m * (-1)
  BY <1>4
<1>7. d = 0
  BY <1>1, <1>4, <1>5, <1>6
<1>8. m * d = 0
  BY <1>7
<1> QED BY <1>1, <1>4, <1>8 DEF s, a

\* A ring's size divides what its counters wrap at.
RingWraps(size, wrap) ==
  size \in Nat \ {0} /\ wrap \in Nat \ {0} /\ wrap % size = 0

\* Two counters less than the size apart name two slots.
LEMMA SlotsDiffer ==
  ASSUME NEW size \in Nat \ {0}, NEW a \in Int, NEW b \in Int, a < b, b < a + size
  PROVE  a % size # b % size
<1> SUFFICES ASSUME a % size = b % size PROVE FALSE
  OBVIOUS
<1> DEFINE q == a \div size
           c == b \div size
           r == a % size
<1>1. q \in Int /\ r \in 0 .. size - 1 /\ a = size * q + r
  OBVIOUS
<1>2. c \in Int /\ b = size * c + r
  OBVIOUS
<1> DEFINE d == c - q
<1>3. d \in Int /\ size * d = size * c - size * q /\ size * c \in Int /\ size * q \in Int
  BY <1>1, <1>2
<1> HIDE DEF d, q, c, r
<1>4. size * d = b - a
  BY <1>1, <1>2, <1>3
<1>5. d >= 1 => size * d >= size * 1
  BY <1>3
<1>6. d <= 0 => size * d <= size * 0
  BY <1>3
<1> QED BY <1>3, <1>4, <1>5, <1>6

\* Counting on from two counters gives the same slots.
SlotsAgree(size, a, b) == \A j \in Int : (a + j) % size = (b + j) % size

LEMMA SlotAfterWrap ==
  ASSUME NEW size, NEW wrap, RingWraps(size, wrap), NEW a \in Int
  PROVE  SlotsAgree(size, a % wrap, a)
<1> SUFFICES ASSUME NEW j \in Int PROVE ((a % wrap) + j) % size = (a + j) % size
  BY DEF SlotsAgree
<1> USE DEF RingWraps
<1> DEFINE q == a \div wrap
           b == a % wrap
           m == wrap \div size
           c == (b + j) \div size
           r == (b + j) % size
<1>1. q \in Int /\ b \in Int /\ a = wrap * q + b
  OBVIOUS
<1>2. m \in Int /\ wrap = size * m
  OBVIOUS
<1>3. c \in Int /\ r \in 0 .. size - 1 /\ b + j = size * c + r
  <2> HIDE DEF b
  <2>1. b + j \in Int
    BY <1>1
  <2> DEFINE x == b + j
  <2> HIDE DEF x
  <2>2. x \div size \in Int /\ x % size \in 0 .. size - 1 /\ x = size * (x \div size) + (x % size)
    BY <2>1 DEF x
  <2> QED BY <2>2 DEF x
<1> HIDE DEF q, b, m, c, r
<1>4. a + j = (size * m) * q + (size * c + r)
  BY <1>1, <1>2, <1>3
<1>5. (size * m) * q = size * (m * q) /\ m * q \in Int
  BY <1>1, <1>2
<1>6. size * (m * q) + size * c = size * (m * q + c) /\ m * q + c \in Int
  BY <1>5, <1>3
<1>7. size * (m * q) \in Int /\ size * c \in Int
  BY <1>5, <1>3
<1>8. a + j = size * (m * q + c) + r
  BY <1>4, <1>5, <1>6, <1>7, <1>3
<1> DEFINE k == m * q + c
<1> HIDE DEF k
<1>9. a + j = size * k + r /\ k \in Int
  BY <1>6, <1>8 DEF k
<1>10. (a + j) % size = r
  BY <1>3, <1>9, ModUnique
<1> QED BY <1>10 DEF r, b

\* Wrapping a counter does not change the slot it names.
LEMMA SlotOfWrapped ==
  ASSUME NEW size, NEW wrap, RingWraps(size, wrap), NEW a \in Int
  PROVE  (a % wrap) % size = a % size
<1>1. ((a % wrap) + 0) % size = (a + 0) % size
  BY SlotAfterWrap DEF SlotsAgree
<1> DEFINE b == a % wrap
<1>2. b \in Int
  BY DEF RingWraps
<1> HIDE DEF b
<1>3. b + 0 = b /\ a + 0 = a
  BY <1>2
<1> QED BY <1>1, <1>3 DEF b

\* A counter is ahead of another by what is between them.
LEMMA CountedOn ==
  ASSUME NEW wrap \in Nat \ {0}, NEW from \in 0 .. wrap - 1, NEW to \in 0 .. wrap - 1
  PROVE  to = (from + ((to - from) % wrap)) % wrap
<1> DEFINE c == (to - from) % wrap
           a == from + c
<1>2. c = IF to >= from THEN to - from ELSE to - from + wrap
  <2>1. to - from \in Int /\ -wrap < to - from /\ to - from < wrap
    OBVIOUS
  <2> DEFINE b == to - from
  <2> HIDE DEF b
  <2>2. b % wrap = IF b >= 0 THEN b ELSE b + wrap
    BY <2>1, WrapDown DEF b
  <2> QED BY <2>1, <2>2 DEF b
<1> HIDE DEF c
<1>3. a \in Int /\ 0 <= a /\ a < 2 * wrap /\ to = IF a < wrap THEN a ELSE a - wrap
  BY <1>2
<1> HIDE DEF a
<1>4. to = a % wrap
  BY <1>3, WrapUp
<1> QED BY <1>4 DEF a, c

Rings(size, S) == [0 .. size - 1 -> S]

\* n elements of the ring d from the counter r on.
Window(size, d, r, n) == [k \in 1 .. n |-> d[(r + k - 1) % size]]

LEMMA WindowFacts ==
  ASSUME NEW size \in Nat \ {0}, NEW S, NEW d \in Rings(size, S),
         NEW r \in Int, NEW n \in Nat
  PROVE  /\ Window(size, d, r, n) \in Seq(S) /\ Len(Window(size, d, r, n)) = n
         /\ \A k \in 1 .. n : Window(size, d, r, n)[k] = d[(r + k - 1) % size]
<1>1. \A k \in 1 .. n : d[(r + k - 1) % size] \in S
  <2> TAKE k \in 1 .. n
  <2> DEFINE x == r + k - 1
  <2>1. x \in Int
    OBVIOUS
  <2> HIDE DEF x
  <2>2. x % size \in 0 .. size - 1
    BY <2>1
  <2> QED BY <2>2 DEF x, Rings
<1> DEFINE s == Window(size, d, r, n)
<1>2. s \in [1 .. n -> S] /\ \A k \in 1 .. n : s[k] = d[(r + k - 1) % size]
  BY <1>1 DEF Window
<1> HIDE DEF s
<1>3. s \in Seq(S) /\ Len(s) = n
  BY <1>2
<1> QED BY <1>2, <1>3 DEF s

\* What is read first is the front, what is left is the rest.
LEMMA WindowFront ==
  ASSUME NEW size \in Nat \ {0}, NEW S, NEW d \in Rings(size, S), NEW r \in Int,
         NEW c \in Nat, NEW n \in 0 .. c
  PROVE  SubSeq(Window(size, d, r, c), 1, n) = Window(size, d, r, n)
<1> DEFINE s == Window(size, d, r, c)
           t == SubSeq(s, 1, n)
           front == Window(size, d, r, n)
<1>1. /\ s \in Seq(S) /\ Len(s) = c
      /\ \A k \in 1 .. c : s[k] = d[(r + k - 1) % size]
  BY WindowFacts
<1>2. /\ front \in Seq(S) /\ Len(front) = n
      /\ \A k \in 1 .. n : front[k] = d[(r + k - 1) % size]
  <2>1. n \in Nat
    OBVIOUS
  <2> QED BY <2>1, WindowFacts
<1> HIDE DEF s, front
<1>3. t \in Seq(S) /\ Len(t) = n /\ \A k \in 1 .. n : t[k] = s[k]
  BY <1>1
<1> HIDE DEF t
<1>4. \A k \in 1 .. n : t[k] = front[k]
  <2> TAKE k \in 1 .. n
  <2>1. k \in 1 .. c
    OBVIOUS
  <2> QED BY <1>1, <1>2, <1>3, <2>1
<1>5. t = front
  BY <1>2, <1>3, <1>4, SeqEqual
<1> QED BY <1>5 DEF t, s, front

LEMMA RestEqual ==
  ASSUME NEW S, NEW s \in Seq(S), NEW t \in Seq(S), NEW n \in Nat,
         Len(s) = n + Len(t), \A k \in 1 .. Len(t) : t[k] = s[n + k]
  PROVE  SubSeq(s, n + 1, Len(s)) = t
<1> DEFINE u == SubSeq(s, n + 1, Len(s))
<1>1. u \in Seq(S) /\ Len(u) = Len(t) /\ \A k \in 1 .. Len(t) : u[k] = s[n + k]
  OBVIOUS
<1> HIDE DEF u
<1>2. u = t
  BY <1>1, SeqEqual
<1> QED BY <1>2 DEF u

-----------------------------------------------------------------------------
(* The pipe.                                                               *)

Places == {"none", "run", "close_r", "close_w", "read", "read_sleep",
           "write", "write_sleep"}

Types ==
  /\ data \in [0 .. PIPESIZE - 1 -> Bytes]
  /\ nread \in 0 .. WRAP - 1 /\ nwrite \in 0 .. WRAP - 1
  /\ Count <= PIPESIZE
  /\ readopen \in BOOLEAN /\ writeopen \in BOOLEAN
  /\ allocated \in BOOLEAN /\ cut \in BOOLEAN
  /\ ref \in [Ends -> Nat]
  /\ fds \in [Procs -> SUBSET Ends]
  /\ at \in [Procs -> Places]
  /\ killed \in [Procs -> BOOLEAN]
  /\ left \in [Procs -> Seq(Bytes)]
  /\ asked \in [Procs -> Nat]

Holders(e) == {p \in Procs : e \in fds[p]}
Counted == \A e \in Ends : ref[e] = Cardinality(Holders(e))

\* Who does what with which end; one process at most closes an end for good.
Placed ==
  \A p \in Procs :
    /\ at[p] = "none" => fds[p] = {}
    /\ at[p] \in {"read", "read_sleep"} => "r" \in fds[p]
    /\ at[p] \in {"write", "write_sleep"} => "w" \in fds[p]
    /\ at[p] = "close_r" => ref["r"] = 0 /\ \A q \in Procs : at[q] = "close_r" => q = p
    /\ at[p] = "close_w" => ref["w"] = 0 /\ \A q \in Procs : at[q] = "close_w" => q = p

\* An end is open until its last holder has closed it.
Opened ==
  /\ allocated <=> readopen \/ writeopen
  /\ readopen <=> ref["r"] > 0 \/ \E p \in Procs : at[p] = "close_r"
  /\ writeopen <=> ref["w"] > 0 \/ \E p \in Procs : at[p] = "close_w"

PInv == Types /\ Counted /\ Placed /\ Opened /\ NoSleepPastBytes

-----------------------------------------------------------------------------
(* The counters.                                                           *)

LEMMA WrapsUp ==
  ASSUME NEW a \in Int, 0 <= a, a < 2 * WRAP
  PROVE  a % WRAP = IF a < WRAP THEN a ELSE a - WRAP
<1>1. WRAP \in Nat \ {0}
  BY SizeAssumption
<1> QED BY <1>1, WrapUp

LEMMA WrapsDown ==
  ASSUME NEW a \in Int, -WRAP < a, a < WRAP
  PROVE  a % WRAP = IF a >= 0 THEN a ELSE a + WRAP
<1>1. WRAP \in Nat \ {0}
  BY SizeAssumption
<1> QED BY <1>1, WrapDown

\* Adding n to nwrite, or to nread, changes the count by n.
LEMMA Advance ==
  ASSUME NEW from \in 0 .. WRAP - 1, NEW to \in 0 .. WRAP - 1, NEW n \in Nat
  PROVE  LET c == (to - from) % WRAP
         IN /\ c \in 0 .. WRAP - 1
            /\ c = 0 <=> from = to
            /\ c = PIPESIZE <=> to = (from + PIPESIZE) % WRAP
            /\ c + n < WRAP => /\ (to + n) % WRAP \in 0 .. WRAP - 1
                               /\ (((to + n) % WRAP) - from) % WRAP = c + n
            /\ n <= c => /\ (from + n) % WRAP \in 0 .. WRAP - 1
                         /\ (to - ((from + n) % WRAP)) % WRAP = c - n
<1> DEFINE c == (to - from) % WRAP
<1>1. WRAP \in Nat /\ PIPESIZE \in Nat /\ PIPESIZE < WRAP /\ PIPESIZE > 0
  BY SizeAssumption
<1>2. c = IF to >= from THEN to - from ELSE to - from + WRAP
  BY <1>1, WrapsDown
<1>3. (from + PIPESIZE) % WRAP =
        IF from + PIPESIZE < WRAP THEN from + PIPESIZE ELSE from + PIPESIZE - WRAP
  BY <1>1, WrapsUp
<1>4. ASSUME c + n < WRAP
      PROVE  /\ (to + n) % WRAP \in 0 .. WRAP - 1
             /\ (((to + n) % WRAP) - from) % WRAP = c + n
  <2>1. n < WRAP
    BY <1>1, <1>2, <1>4
  <2>2. (to + n) % WRAP = IF to + n < WRAP THEN to + n ELSE to + n - WRAP
    BY <1>1, <2>1, WrapsUp
  <2> DEFINE x == (to + n) % WRAP
  <2>3. x \in 0 .. WRAP - 1
    BY <1>1, <2>1, <2>2
  <2>4. (x - from) % WRAP = IF x >= from THEN x - from ELSE x - from + WRAP
    <3> HIDE DEF x
    <3> QED BY <1>1, <2>3, WrapsDown
  <2> QED BY <1>1, <1>2, <1>4, <2>1, <2>2, <2>3, <2>4
<1>5. ASSUME n <= c
      PROVE  /\ (from + n) % WRAP \in 0 .. WRAP - 1
             /\ (to - ((from + n) % WRAP)) % WRAP = c - n
  <2>1. n < WRAP
    BY <1>1, <1>2, <1>5
  <2>2. (from + n) % WRAP = IF from + n < WRAP THEN from + n ELSE from + n - WRAP
    BY <1>1, <2>1, WrapsUp
  <2> DEFINE x == (from + n) % WRAP
  <2>3. x \in 0 .. WRAP - 1
    BY <1>1, <2>1, <2>2
  <2>4. (to - x) % WRAP = IF to >= x THEN to - x ELSE to - x + WRAP
    <3> HIDE DEF x
    <3> QED BY <1>1, <2>3, WrapsDown
  <2> QED BY <1>1, <1>2, <1>5, <2>1, <2>2, <2>3, <2>4
<1>6. c \in 0 .. WRAP - 1 /\ (c = 0 <=> from = to)
  BY <1>1, <1>2
<1>7. c = PIPESIZE <=> to = (from + PIPESIZE) % WRAP
  BY <1>1, <1>2, <1>3
<1> QED BY <1>4, <1>5, <1>6, <1>7

\* The same of the pipe.
LEMMA CountFacts ==
  ASSUME Types, NEW n \in Nat
  PROVE  /\ Count \in 0 .. PIPESIZE
         /\ Count = 0 <=> Empty
         /\ Count = PIPESIZE <=> Full
         /\ Count + n <= PIPESIZE =>
              /\ (nwrite + n) % WRAP \in 0 .. WRAP - 1
              /\ (((nwrite + n) % WRAP) - nread) % WRAP = Count + n
         /\ n <= Count =>
              /\ (nread + n) % WRAP \in 0 .. WRAP - 1
              /\ (nwrite - ((nread + n) % WRAP)) % WRAP = Count - n
<1>1. nread \in 0 .. WRAP - 1 /\ nwrite \in 0 .. WRAP - 1 /\ Count <= PIPESIZE
  BY DEF Types
<1> DEFINE from == nread
           to == nwrite
           c == (to - from) % WRAP
<1>2. /\ c \in 0 .. WRAP - 1
      /\ c = 0 <=> from = to
      /\ c = PIPESIZE <=> to = (from + PIPESIZE) % WRAP
      /\ c + n < WRAP => /\ (to + n) % WRAP \in 0 .. WRAP - 1
                         /\ (((to + n) % WRAP) - from) % WRAP = c + n
      /\ n <= c => /\ (from + n) % WRAP \in 0 .. WRAP - 1
                   /\ (to - ((from + n) % WRAP)) % WRAP = c - n
  <2> HIDE DEF from, to
  <2>1. from \in 0 .. WRAP - 1 /\ to \in 0 .. WRAP - 1
    BY <1>1 DEF from, to
  <2> QED BY <2>1, Advance
<1>3. Count = c
  BY DEF Count
<1>4. PIPESIZE \in Nat /\ WRAP \in Nat /\ PIPESIZE < WRAP
  BY SizeAssumption
<1>5. Count \in 0 .. PIPESIZE
  BY <1>1, <1>2, <1>3, <1>4
<1>6. Count + n <= PIPESIZE => c + n < WRAP
  BY <1>3, <1>4, <1>5
<1> QED BY <1>2, <1>3, <1>5, <1>6 DEF Empty, Full

-----------------------------------------------------------------------------
(* What a turn of pipewrite's loop puts.                                   *)
LEMMA FitsFacts ==
  ASSUME Types, NEW p \in Procs
  PROVE  /\ Fits(p) \in Nat /\ Fits(p) <= Len(left[p])
         /\ Count \in Nat /\ Count + Fits(p) <= PIPESIZE
         /\ Fits(p) < Len(left[p]) => Count + Fits(p) = PIPESIZE
<1>1. Count \in Nat /\ Count <= PIPESIZE
  BY CountFacts
<1>2. left[p] \in Seq(Bytes) /\ Len(left[p]) \in Nat
  BY DEF Types
<1> QED BY <1>1, <1>2, SizeAssumption DEF Fits

LEMMA InitPInv == Init => PInv
<1> SUFFICES ASSUME Init PROVE PInv
  OBVIOUS
<1>1. Count = 0
  BY SizeAssumption, WrapsDown DEF Count, Init
<1>2. Types
  <2>1. data \in [0 .. PIPESIZE - 1 -> Bytes]
    BY DEF Init
  <2>2. left \in [Procs -> Seq(Bytes)] /\ <<>> \in Seq(Bytes)
    BY DEF Init
  <2>3. at \in [Procs -> Places] /\ asked \in [Procs -> Nat] /\ killed \in [Procs -> BOOLEAN]
    BY DEF Init, Places
  <2>4. ref \in [Ends -> Nat] /\ fds \in [Procs -> SUBSET Ends]
    BY DEF Init
  <2>5. nread \in 0 .. WRAP - 1 /\ nwrite \in 0 .. WRAP - 1 /\ Count <= PIPESIZE
    BY <1>1, SizeAssumption DEF Init
  <2> QED BY <2>1, <2>2, <2>3, <2>4, <2>5 DEF Types, Init
<1>3. Counted
  BY FS_EmptySet DEF Counted, Holders, Init
<1>4. Placed /\ Opened /\ NoSleepPastBytes
  BY DEF Placed, Opened, NoSleepPastBytes, Init, Ends
<1> QED BY <1>2, <1>3, <1>4 DEF PInv

(* The number of holders when one comes, goes or is the first.             *)
LEMMA HolderFacts ==
  ASSUME Types, Counted, NEW e \in Ends, NEW p \in Procs
  PROVE  /\ IsFiniteSet(Holders(e))
         /\ Cardinality(Holders(e)) \in 0 .. Cardinality(Procs)
         /\ ref[e] = 0 <=> Holders(e) = {}
         /\ p \in Holders(e) <=> e \in fds[p]
         /\ e \in fds[p] => /\ ref[e] >= 1
                            /\ ref[e] - 1 = Cardinality(Holders(e) \ {p})
         /\ e \notin fds[p] => ref[e] + 1 = Cardinality(Holders(e) \cup {p})
<1>1. Holders(e) \subseteq Procs /\ IsFiniteSet(Procs)
  BY SizeAssumption DEF Holders
<1>2. /\ IsFiniteSet(Holders(e)) /\ Cardinality(Procs) \in Nat
      /\ Cardinality(Holders(e)) \in Nat
      /\ Cardinality(Holders(e)) <= Cardinality(Procs)
  BY <1>1, FS_Subset, FS_CardinalityType
<1>3. Cardinality(Holders(e)) = 0 <=> Holders(e) = {}
  BY <1>2, FS_EmptySet
<1>4. ref[e] = Cardinality(Holders(e))
  BY DEF Counted
<1>5. p \in Holders(e) <=> e \in fds[p]
  BY DEF Holders
<1>6. e \in fds[p] => Cardinality(Holders(e) \ {p}) = Cardinality(Holders(e)) - 1
  BY <1>2, <1>5, FS_RemoveElement
<1>7. e \notin fds[p] => Cardinality(Holders(e) \cup {p}) = Cardinality(Holders(e)) + 1
  BY <1>2, <1>5, FS_AddElement
<1>8. e \in fds[p] => ref[e] >= 1
  BY <1>2, <1>3, <1>4, <1>5
<1> QED BY <1>2, <1>3, <1>4, <1>5, <1>6, <1>7, <1>8

LEMMA NextTypes == PInv /\ [Next]_vars => Types'
<1> SUFFICES ASSUME PInv, [Next]_vars PROVE Types'
  OBVIOUS
<1>1. Types /\ Counted /\ Placed
  BY DEF PInv
<1> USE SizeAssumption, <1>1 DEF Types, Places
<1>2. ASSUME NEW p \in Procs, PipeAlloc(p) PROVE Types'
  <2>1. Count' = 0
    BY <1>2, WrapsDown DEF PipeAlloc, Count
  <2>2. ref' \in [Ends -> Nat] /\ fds' \in [Procs -> SUBSET Ends]
    BY <1>2 DEF PipeAlloc
  <2>3. nread' \in 0 .. WRAP - 1 /\ nwrite' \in 0 .. WRAP - 1 /\ Count' <= PIPESIZE
    BY <1>2, <2>1 DEF PipeAlloc
  <2> QED BY <1>2, <2>2, <2>3 DEF PipeAlloc, args
<1>3. ASSUME NEW p \in Procs, NEW q \in Procs, Fork(p, q) PROVE Types'
  BY <1>3 DEF Fork, ForkWith, pipe, args, Go, Count, Ends
<1>4. ASSUME NEW p \in Procs, NEW e \in Ends, FileClose(p, e) PROVE Types'
  <2>1. ref[e] >= 1
    BY <1>4, HolderFacts DEF FileClose
  <2>2. ref' \in [Ends -> Nat]
    <3>1. ref' = [ref EXCEPT ![e] = ref[e] - 1] /\ ref[e] - 1 \in Nat
      BY <1>4, <2>1 DEF FileClose
    <3> QED BY <3>1
  <2>3. fds' \in [Procs -> SUBSET Ends] /\ at' \in [Procs -> Places]
    BY <1>4 DEF FileClose, Go
  <2> QED BY <1>4, <2>2, <2>3 DEF FileClose, pipe, args, Count
<1>5. ASSUME NEW p \in Procs, PipeClose(p) PROVE Types'
  BY <1>5 DEF PipeClose, files, args, Woken, Count
<1>6. ASSUME NEW p \in Procs, Exit(p) PROVE Types'
  BY <1>6 DEF Exit, pipe, files, args, Go, Count
<1>7. ASSUME NEW p \in Procs, Kill(p) PROVE Types'
  BY <1>7 DEF Kill, pipe, files, args, Go, Count
<1>8. ASSUME NEW p \in Procs, CallWrite(p) PROVE Types'
  BY <1>8 DEF CallWrite, pipe, files, Go, Count
<1>9. ASSUME NEW p \in Procs, CallRead(p) PROVE Types'
  BY <1>9 DEF CallRead, pipe, files, Go, Count
<1>10. ASSUME NEW p \in Procs, PipeWrite(p) PROVE Types'
  <2> DEFINE n == Fits(p)
             rest == SubSeq(left[p], n + 1, Len(left[p]))
  <2>1. /\ n \in Nat /\ n <= Len(left[p]) /\ Count \in Nat /\ Count + n <= PIPESIZE
    BY FitsFacts
  <2>2. nwrite' \in 0 .. WRAP - 1 /\ Count' = Count + n /\ nread' = nread
    <3>1. /\ (nwrite + n) % WRAP \in 0 .. WRAP - 1
          /\ (((nwrite + n) % WRAP) - nread) % WRAP = Count + n
      <4> HIDE DEF n, Types
      <4> QED BY <2>1, <1>1, CountFacts
    <3>2. nread' = nread /\ nwrite' = (nwrite + n) % WRAP
      BY <1>10 DEF PipeWrite, WriteWith
    <3>3. Count' = (nwrite' - nread') % WRAP
      BY DEF Count
    <3> QED BY <3>1, <3>2, <3>3
  <2>3. rest \in Seq(Bytes)
    BY <2>1
  <2>4. \A s \in DOMAIN data, k \in 1 .. n : left[p][k] \in Bytes
    BY <2>1
  <2>5. data' \in [0 .. PIPESIZE - 1 -> Bytes]
    <3>1. data' = PutBytes(p, n)
      BY <1>10 DEF PipeWrite, WriteWith
    <3> QED BY <2>4, <3>1 DEF PutBytes
  <2>6. left' \in [Procs -> Seq(Bytes)]
    <3>1. <<>> \in Seq(Bytes)
      OBVIOUS
    <3>2. left' = [left EXCEPT ![p] = <<>>] \/ left' = [left EXCEPT ![p] = rest]
      BY <1>10 DEF PipeWrite, WriteWith
    <3> HIDE DEF rest
    <3> QED BY <2>3, <3>1, <3>2
  <2>7. cut' \in BOOLEAN /\ at' \in [Procs -> Places]
    BY <1>10 DEF PipeWrite, WriteWith, Woken, Go
  <2> QED BY <1>10, <2>1, <2>2, <2>5, <2>6, <2>7 DEF PipeWrite, WriteWith, files
<1>11. ASSUME NEW p \in Procs, PipeRead(p) PROVE Types'
  <2> DEFINE n == IF asked[p] < Count THEN asked[p] ELSE Count
  <2>1. /\ n \in Nat /\ n <= Count /\ Count \in Nat
    BY FitsFacts
  <2>2. /\ nread' \in 0 .. WRAP - 1 /\ nwrite' = nwrite
        /\ Count' = Count \/ Count' = Count - n
    <3>1. /\ (nread + n) % WRAP \in 0 .. WRAP - 1
          /\ (nwrite - ((nread + n) % WRAP)) % WRAP = Count - n
      <4> HIDE DEF n, Types
      <4> QED BY <2>1, <1>1, CountFacts
    <3>2. nwrite' = nwrite /\ (nread' = nread \/ nread' = (nread + n) % WRAP)
      BY <1>11 DEF PipeRead, ReadWith
    <3>3. Count' = (nwrite' - nread') % WRAP /\ Count = (nwrite - nread) % WRAP
      BY DEF Count
    <3>4. nread \in 0 .. WRAP - 1
      OBVIOUS
    <3>5. CASE nread' = nread
      BY <3>2, <3>3, <3>4, <3>5
    <3>6. CASE nread' = (nread + n) % WRAP
      <4> HIDE DEF n
      <4>1. Count' = (nwrite - ((nread + n) % WRAP)) % WRAP
        BY <3>2, <3>3, <3>6, Zenon
      <4> QED BY <3>1, <3>2, <3>6, <4>1
    <3> QED BY <3>2, <3>5, <3>6
  <2>3. asked' \in [Procs -> Nat] /\ at' \in [Procs -> Places]
    <3>1. asked' = asked \/ asked' = [asked EXCEPT ![p] = 0]
      BY <1>11 DEF PipeRead, ReadWith
    <3>2. \/ at' = [at EXCEPT ![p] = "read_sleep"]
          \/ at' = [at EXCEPT ![p] = "run"]
          \/ at' = [Woken(at, "write_sleep", "write") EXCEPT ![p] = "run"]
      BY <1>11 DEF PipeRead, ReadWith, Go
    <3>3. asked' \in [Procs -> Nat]
      BY <3>1
    <3>4. Woken(at, "write_sleep", "write") \in [Procs -> Places]
      BY DEF Woken
    <3>5. at' \in [Procs -> Places]
      <4> DEFINE w == Woken(at, "write_sleep", "write")
      <4> HIDE DEF w
      <4> QED BY <3>2, <3>4 DEF w
    <3> QED BY <3>3, <3>5
  <2> QED BY <1>11, <2>1, <2>2, <2>3 DEF PipeRead, ReadWith, files
<1>12. CASE UNCHANGED vars
  BY <1>12 DEF vars, pipe, files, args, Count
<1> QED
  BY <1>2, <1>3, <1>4, <1>5, <1>6, <1>7, <1>8, <1>9, <1>10, <1>11, <1>12 DEF Next

LEMMA NextCounted == PInv /\ [Next]_vars => Counted'
<1> SUFFICES ASSUME PInv, [Next]_vars, NEW e \in Ends
             PROVE  ref'[e] = Cardinality(Holders(e)')
  BY DEF Counted
<1>1. Types /\ Counted /\ Placed
  BY DEF PInv
<1>2. /\ fds \in [Procs -> SUBSET Ends] /\ ref \in [Ends -> Nat]
      /\ ref[e] = Cardinality(Holders(e)) /\ Holders(e) = {p \in Procs : e \in fds[p]}
      /\ Holders(e)' = {p \in Procs : e \in fds'[p]}
  BY <1>1 DEF Types, Counted, Holders
<1>3. ASSUME NEW p \in Procs, PipeAlloc(p)
      PROVE  ref'[e] = Cardinality(Holders(e)')
  <2>1. Holders(e) = {}
    BY <1>1, <1>3, HolderFacts DEF PipeAlloc
  <2>2. Holders(e)' = {p}
    BY <1>2, <1>3, <2>1 DEF PipeAlloc
  <2> QED BY <1>3, <2>2, FS_Singleton DEF PipeAlloc
<1>4. ASSUME NEW p \in Procs, NEW q \in Procs, Fork(p, q)
      PROVE  ref'[e] = Cardinality(Holders(e)')
  <2>1. fds[q] = {}
    BY <1>1, <1>4 DEF Fork, ForkWith, Placed
  <2>2. Holders(e)' = IF e \in fds[p] THEN Holders(e) \cup {q} ELSE Holders(e)
    BY <1>2, <1>4, <2>1 DEF Fork, ForkWith
  <2>3. ref[e] + 1 = Cardinality(Holders(e) \cup {q})
    BY <1>1, <2>1, HolderFacts
  <2> QED BY <1>2, <1>4, <2>2, <2>3 DEF Fork, ForkWith
<1>5. ASSUME NEW p \in Procs, NEW d \in Ends, FileClose(p, d)
      PROVE  ref'[e] = Cardinality(Holders(e)')
  <2>1. Holders(e)' = IF e = d THEN Holders(e) \ {p} ELSE Holders(e)
    BY <1>2, <1>5 DEF FileClose
  <2>2. d \in fds[p] /\ ref'[e] = IF e = d THEN ref[e] - 1 ELSE ref[e]
    BY <1>2, <1>5 DEF FileClose
  <2>3. e = d => ref[e] - 1 = Cardinality(Holders(e) \ {p})
    BY <1>1, <2>2, HolderFacts
  <2> QED BY <1>2, <2>1, <2>2, <2>3
<1>6. ASSUME UNCHANGED files
      PROVE  ref'[e] = Cardinality(Holders(e)')
  BY <1>2, <1>6 DEF files
<1>7. CASE UNCHANGED vars
  BY <1>6, <1>7 DEF vars
<1>8. ASSUME NEW p \in Procs,
             \/ PipeClose(p) \/ Exit(p) \/ Kill(p) \/ CallWrite(p) \/ PipeWrite(p)
             \/ CallRead(p) \/ PipeRead(p)
      PROVE  UNCHANGED files
  BY <1>8 DEF PipeClose, Exit, Kill, CallWrite, PipeWrite, WriteWith, CallRead, PipeRead,
              ReadWith
<1> QED BY <1>3, <1>4, <1>5, <1>6, <1>7, <1>8 DEF Next

(* One process moves, and sleepers are woken to where they slept.          *)
LEMMA NextPlaced == PInv /\ [Next]_vars => Placed'
<1> SUFFICES ASSUME PInv, [Next]_vars PROVE Placed'
  OBVIOUS
<1>1. Types /\ Counted /\ Placed /\ Opened
  BY DEF PInv
<1>2. /\ fds \in [Procs -> SUBSET Ends] /\ ref \in [Ends -> Nat] /\ at \in [Procs -> Places]
      /\ "r" \in Ends /\ "w" \in Ends
  BY <1>1 DEF Types, Ends
<1>3. \A p \in Procs, e \in Ends : e \in fds[p] => ref[e] >= 1
  BY <1>1, HolderFacts
<1> USE DEF Placed
<1>4. ASSUME NEW p \in Procs, PipeAlloc(p) PROVE Placed'
  <2>1. \A q \in Procs : /\ fds[q] = {} /\ at[q] \notin {"close_r", "close_w"}
                         /\ at'[q] = at[q] /\ (q # p => fds'[q] = fds[q])
    BY <1>1, <1>2, <1>3, <1>4 DEF PipeAlloc, Opened, Ends
  <2>2. at[p] = "run"
    BY <1>4 DEF PipeAlloc, Runs
  <2> QED BY <1>1, <1>4, <2>1, <2>2 DEF PipeAlloc
<1>5. ASSUME NEW p \in Procs, NEW q \in Procs, Fork(p, q) PROVE Placed'
  <2>1. /\ at' = [at EXCEPT ![q] = "run"] /\ fds' = [fds EXCEPT ![q] = fds[p]]
        /\ at[q] = "none" /\ fds[q] = {}
    BY <1>1, <1>5 DEF Fork, ForkWith, Go
  <2>2. \A e \in Ends : ref[e] = 0 => ref'[e] = 0
    BY <1>2, <1>3, <1>5 DEF Fork, ForkWith
  <2> QED BY <1>1, <1>2, <2>1, <2>2
<1>6. ASSUME NEW p \in Procs, NEW e \in Ends, FileClose(p, e) PROVE Placed'
  <2>1. /\ at[p] = "run" /\ e \in fds[p] /\ ref[e] >= 1
        /\ fds' = [fds EXCEPT ![p] = fds[p] \ {e}] /\ ref' = [ref EXCEPT ![e] = ref[e] - 1]
    BY <1>3, <1>6 DEF FileClose
  <2>2. CASE ref[e] = 1
    <3>1. at' = [at EXCEPT ![p] = IF e = "w" THEN "close_w" ELSE "close_r"]
      BY <1>6, <2>2 DEF FileClose, Go
    <3>2. \A q \in Procs \ {p} : e \notin fds[q]
      <4>1. Cardinality(Holders(e)) = 1 /\ IsFiniteSet(Holders(e)) /\ p \in Holders(e)
        BY <1>1, <2>1, <2>2, HolderFacts DEF Counted
      <4>2. Cardinality(Holders(e) \ {p}) = 0 /\ IsFiniteSet(Holders(e) \ {p})
        BY <4>1, FS_RemoveElement
      <4> QED BY <4>2, FS_EmptySet DEF Holders
    <3>3. e = "r" \/ e = "w"
      BY DEF Ends
    <3> QED BY <1>1, <1>2, <2>1, <2>2, <3>1, <3>2, <3>3
  <2>3. CASE ref[e] # 1
    <3>1. at' = at
      BY <1>6, <2>3 DEF FileClose
    <3> QED BY <1>1, <1>2, <1>3, <2>1, <2>3, <3>1
  <2> QED BY <2>2, <2>3
<1>7. ASSUME NEW p \in Procs, PipeClose(p) PROVE Placed'
  BY <1>1, <1>2, <1>7 DEF PipeClose, files, Woken
<1>8. ASSUME NEW p \in Procs, Exit(p) PROVE Placed'
  BY <1>1, <1>2, <1>8 DEF Exit, files, Go
<1>9. ASSUME NEW p \in Procs, Kill(p) PROVE Placed'
  BY <1>1, <1>2, <1>9 DEF Kill, files, Go
<1>10. ASSUME NEW p \in Procs, CallWrite(p) PROVE Placed'
  BY <1>1, <1>2, <1>10 DEF CallWrite, files, Go, Runs
<1>11. ASSUME NEW p \in Procs, CallRead(p) PROVE Placed'
  BY <1>1, <1>2, <1>11 DEF CallRead, files, Go, Runs
<1>12. ASSUME NEW p \in Procs, PipeWrite(p) PROVE Placed'
  <2>1. /\ at[p] = "write" /\ fds' = fds /\ ref' = ref
        /\ \A q \in Procs : at'[q] = at[q] \/ (at[q] = "read_sleep" /\ at'[q] = "read")
                            \/ (q = p /\ at'[q] \in {"run", "write_sleep"})
    BY <1>2, <1>12 DEF PipeWrite, WriteWith, files, Woken, Go
  <2> QED BY <1>1, <1>2, <2>1
<1>13. ASSUME NEW p \in Procs, PipeRead(p) PROVE Placed'
  <2>1. /\ at[p] = "read" /\ fds' = fds /\ ref' = ref
        /\ \A q \in Procs : at'[q] = at[q] \/ (at[q] = "write_sleep" /\ at'[q] = "write")
                            \/ (q = p /\ at'[q] \in {"run", "read_sleep"})
    BY <1>2, <1>13 DEF PipeRead, ReadWith, files, Woken, Go
  <2> QED BY <1>1, <1>2, <2>1
<1>14. CASE UNCHANGED vars
  BY <1>1, <1>14 DEF vars, files
<1> QED
  BY <1>4, <1>5, <1>6, <1>7, <1>8, <1>9, <1>10, <1>11, <1>12, <1>13, <1>14 DEF Next

LEMMA NextOpened == PInv /\ [Next]_vars => Opened'
<1> SUFFICES ASSUME PInv, [Next]_vars PROVE Opened'
  OBVIOUS
<1>1. Types /\ Counted /\ Placed /\ Opened
  BY DEF PInv
<1>2. /\ fds \in [Procs -> SUBSET Ends] /\ ref \in [Ends -> Nat] /\ at \in [Procs -> Places]
      /\ "r" \in Ends /\ "w" \in Ends
  BY <1>1 DEF Types, Ends
<1> DEFINE SameFlags == /\ allocated' = allocated
                        /\ readopen' = readopen /\ writeopen' = writeopen
<1>3. ASSUME SameFlags, \A e \in Ends : ref'[e] > 0 <=> ref[e] > 0,
             \A p \in Procs : /\ at'[p] = "close_r" <=> at[p] = "close_r"
                              /\ at'[p] = "close_w" <=> at[p] = "close_w"
      PROVE  Opened'
  BY <1>1, <1>2, <1>3 DEF Opened
<1>4. ASSUME NEW p \in Procs, PipeAlloc(p) PROVE Opened'
  BY <1>2, <1>4 DEF PipeAlloc, Opened
<1>5. ASSUME NEW p \in Procs, NEW q \in Procs, Fork(p, q) PROVE Opened'
  <2>1. at' = [at EXCEPT ![q] = "run"] /\ at[q] = "none" /\ SameFlags
    BY <1>5 DEF Fork, ForkWith, Go, pipe
  <2>2. \A e \in Ends : ref'[e] > 0 <=> ref[e] > 0
    <3> SUFFICES ASSUME NEW e \in Ends PROVE ref'[e] > 0 <=> ref[e] > 0
      OBVIOUS
    <3>1. e \in fds[p] => ref[e] >= 1
      BY <1>1, HolderFacts
    <3>2. ref'[e] = IF e \in fds[p] THEN ref[e] + 1 ELSE ref[e]
      BY <1>5 DEF Fork, ForkWith
    <3> QED BY <1>2, <3>1, <3>2
  <2>3. \A x \in Procs : /\ at'[x] = "close_r" <=> at[x] = "close_r"
                         /\ at'[x] = "close_w" <=> at[x] = "close_w"
    BY <1>2, <2>1
  <2> QED BY <1>3, <2>1, <2>2, <2>3
<1>6. ASSUME NEW p \in Procs, NEW e \in Ends, FileClose(p, e) PROVE Opened'
  <2>1. /\ at[p] = "run" /\ ref[e] >= 1 /\ ref' = [ref EXCEPT ![e] = ref[e] - 1]
        /\ SameFlags
    BY <1>1, <1>6, HolderFacts DEF FileClose, pipe
  <2>2. CASE ref[e] = 1
    <3>1. at' = [at EXCEPT ![p] = IF e = "w" THEN "close_w" ELSE "close_r"]
      BY <1>6, <2>2 DEF FileClose, Go
    <3>2. CASE e = "r"
      BY <1>1, <1>2, <2>1, <2>2, <3>1, <3>2 DEF Opened
    <3>3. CASE e = "w"
      BY <1>1, <1>2, <2>1, <2>2, <3>1, <3>3 DEF Opened
    <3> QED BY <3>2, <3>3 DEF Ends
  <2>3. CASE ref[e] # 1
    <3>1. at' = at
      BY <1>6, <2>3 DEF FileClose
    <3>2. \A d \in Ends : ref'[d] > 0 <=> ref[d] > 0
      BY <1>2, <2>1, <2>3
    <3> QED BY <1>3, <2>1, <3>1, <3>2
  <2> QED BY <2>2, <2>3
<1>7. ASSUME NEW p \in Procs, PipeClose(p) PROVE Opened'
  <2>1. ref' = ref
    BY <1>7 DEF PipeClose, files
  <2>2. CASE at[p] = "close_w"
    <3>1. /\ writeopen' = FALSE /\ allocated' = readopen /\ readopen' = readopen
          /\ at' = Woken([at EXCEPT ![p] = "run"], "read_sleep", "read")
      BY <1>7, <2>2 DEF PipeClose
    <3>2. ref["w"] = 0 /\ \A q \in Procs : at[q] = "close_w" => q = p
      BY <1>1, <2>2 DEF Placed
    <3>3. \A q \in Procs : /\ at'[q] # "close_w"
                           /\ at'[q] = "close_r" <=> at[q] = "close_r"
      BY <1>2, <2>2, <3>1, <3>2 DEF Woken
    <3>4. readopen \in BOOLEAN /\ writeopen \in BOOLEAN
      BY <1>1 DEF Types
    <3>5. allocated' <=> readopen' \/ writeopen'
      BY <3>1, <3>4
    <3>6. /\ ~writeopen'
          /\ ref'["w"] = 0
          /\ ~\E q \in Procs : at'[q] = "close_w"
      <4>1. ~writeopen'
        BY <3>1
      <4>2. ref'["w"] = 0
        BY <2>1, <3>2
      <4> QED BY <4>1, <4>2, <3>3
    <3>7. readopen' <=> ref'["r"] > 0 \/ \E q \in Procs : at'[q] = "close_r"
      <4>1. readopen <=> ref["r"] > 0 \/ \E q \in Procs : at[q] = "close_r"
        BY <1>1 DEF Opened
      <4> QED BY <2>1, <3>1, <3>3, <4>1
    <3> QED BY <3>5, <3>6, <3>7 DEF Opened
  <2>3. CASE at[p] = "close_r"
    <3>1. /\ readopen' = FALSE /\ allocated' = writeopen /\ writeopen' = writeopen
          /\ at' = Woken([at EXCEPT ![p] = "run"], "write_sleep", "write")
      BY <1>7, <2>3 DEF PipeClose
    <3>2. ref["r"] = 0 /\ \A q \in Procs : at[q] = "close_r" => q = p
      BY <1>1, <2>3 DEF Placed
    <3>3. \A q \in Procs : /\ at'[q] # "close_r"
                           /\ at'[q] = "close_w" <=> at[q] = "close_w"
      BY <1>2, <2>3, <3>1, <3>2 DEF Woken
    <3>4. readopen \in BOOLEAN /\ writeopen \in BOOLEAN
      BY <1>1 DEF Types
    <3>5. allocated' <=> readopen' \/ writeopen'
      BY <3>1, <3>4
    <3>6. /\ ~readopen'
          /\ ref'["r"] = 0
          /\ ~\E q \in Procs : at'[q] = "close_r"
      <4>1. ~readopen'
        BY <3>1
      <4>2. ref'["r"] = 0
        BY <2>1, <3>2
      <4> QED BY <4>1, <4>2, <3>3
    <3>7. writeopen' <=> ref'["w"] > 0 \/ \E q \in Procs : at'[q] = "close_w"
      <4>1. writeopen <=> ref["w"] > 0 \/ \E q \in Procs : at[q] = "close_w"
        BY <1>1 DEF Opened
      <4> QED BY <2>1, <3>1, <3>3, <4>1
    <3> QED BY <3>5, <3>6, <3>7 DEF Opened
  <2> QED BY <1>7, <2>2, <2>3 DEF PipeClose
<1>8. ASSUME NEW p \in Procs, Exit(p) \/ CallWrite(p) \/ CallRead(p) PROVE Opened'
  <2>1. /\ at[p] = "run" /\ SameFlags /\ ref' = ref
        /\ \E x \in {"none", "read", "write"} : at' = [at EXCEPT ![p] = x]
    BY <1>8 DEF Exit, CallWrite, CallRead, Runs, Go, pipe, files
  <2> QED BY <1>2, <1>3, <2>1
<1>9. ASSUME NEW p \in Procs, Kill(p) PROVE Opened'
  <2>1. /\ SameFlags /\ ref' = ref
        /\ \A q \in Procs : at'[q] = at[q] \/ (at[q] \in {"read_sleep", "write_sleep"}
                                               /\ at'[q] \in {"read", "write"})
    BY <1>2, <1>9 DEF Kill, Go, pipe, files
  <2> QED BY <1>2, <1>3, <2>1
<1>10. ASSUME NEW p \in Procs, PipeWrite(p) PROVE Opened'
  <2>1. /\ SameFlags /\ ref' = ref /\ at[p] = "write"
        /\ \A q \in Procs : at'[q] = at[q] \/ (at[q] = "read_sleep" /\ at'[q] = "read")
                            \/ (q = p /\ at'[q] \in {"run", "write_sleep"})
    BY <1>2, <1>10 DEF PipeWrite, WriteWith, files, Woken, Go
  <2> QED BY <1>2, <1>3, <2>1
<1>11. ASSUME NEW p \in Procs, PipeRead(p) PROVE Opened'
  <2>1. /\ SameFlags /\ ref' = ref /\ at[p] = "read"
        /\ \A q \in Procs : at'[q] = at[q] \/ (at[q] = "write_sleep" /\ at'[q] = "write")
                            \/ (q = p /\ at'[q] \in {"run", "read_sleep"})
    BY <1>2, <1>11 DEF PipeRead, ReadWith, files, Woken, Go
  <2> QED BY <1>2, <1>3, <2>1
<1>12. CASE UNCHANGED vars
  BY <1>3, <1>12 DEF vars, pipe, files
<1> QED
  BY <1>4, <1>5, <1>6, <1>7, <1>8, <1>9, <1>10, <1>11, <1>12 DEF Next

(* Whoever changes what a sleeper waits for wakes it, or it has to stay.    *)
LEMMA NextSleep == PInv /\ [Next]_vars => NoSleepPastBytes'
<1> SUFFICES ASSUME PInv, [Next]_vars PROVE NoSleepPastBytes'
  OBVIOUS
<1>1. Types /\ Counted /\ Placed /\ Opened /\ NoSleepPastBytes
  BY DEF PInv
<1>2. /\ fds \in [Procs -> SUBSET Ends] /\ ref \in [Ends -> Nat] /\ at \in [Procs -> Places]
      /\ "r" \in Ends /\ "w" \in Ends
  BY <1>1 DEF Types, Ends
<1> DEFINE SameEnds == readopen' = readopen /\ writeopen' = writeopen
           SamePipe == nread' = nread /\ nwrite' = nwrite /\ SameEnds /\ cut' = cut
<1>3. ASSUME SamePipe,
             \A q \in Procs : at'[q] \in {"read_sleep", "write_sleep"} => at'[q] = at[q]
      PROVE  NoSleepPastBytes'
  BY <1>1, <1>3 DEF NoSleepPastBytes, Full, Empty
<1>4. ASSUME NEW p \in Procs, PipeAlloc(p) PROVE NoSleepPastBytes'
  <2>1. \A q \in Procs : at[q] \notin {"read_sleep", "write_sleep"}
    <3> SUFFICES ASSUME NEW q \in Procs PROVE fds[q] = {}
      BY <1>1 DEF Placed
    <3>1. \A e \in Ends : e \in fds[q] => ref[e] >= 1
      BY <1>1, HolderFacts
    <3>2. \A e \in Ends : ref[e] = 0
      BY <1>4 DEF PipeAlloc
    <3> QED BY <1>2, <3>1, <3>2
  <2>2. at' = at
    BY <1>4 DEF PipeAlloc
  <2> QED BY <2>1, <2>2 DEF NoSleepPastBytes
<1>5. ASSUME NEW p \in Procs, NEW q \in Procs, Fork(p, q) PROVE NoSleepPastBytes'
  <2>1. SamePipe /\ at' = [at EXCEPT ![q] = "run"]
    BY <1>5 DEF Fork, ForkWith, pipe, Go
  <2> QED BY <1>2, <1>3, <2>1
<1>6. ASSUME NEW p \in Procs, NEW e \in Ends, FileClose(p, e) PROVE NoSleepPastBytes'
  <2>1. SamePipe /\ \E x \in {at[p], "close_w", "close_r"} : at' = [at EXCEPT ![p] = x]
    BY <1>2, <1>6 DEF FileClose, pipe, Go
  <2> QED BY <1>2, <1>3, <2>1
<1>7. ASSUME NEW p \in Procs, PipeClose(p) PROVE NoSleepPastBytes'
  <2>1. nread' = nread /\ nwrite' = nwrite
    BY <1>7 DEF PipeClose
  <2>2. CASE at[p] = "close_w"
    <3>1. /\ readopen' = readopen
          /\ at' = Woken([at EXCEPT ![p] = "run"], "read_sleep", "read")
      BY <1>7, <2>2 DEF PipeClose
    <3>2. \A q \in Procs : /\ at'[q] # "read_sleep"
                           /\ at'[q] = "write_sleep" => at[q] = "write_sleep"
      BY <1>2, <3>1 DEF Woken
    <3> QED BY <1>1, <2>1, <3>1, <3>2 DEF NoSleepPastBytes, Full
  <2>3. CASE at[p] = "close_r"
    <3>1. /\ writeopen' = writeopen /\ cut' = cut
          /\ at' = Woken([at EXCEPT ![p] = "run"], "write_sleep", "write")
      BY <1>7, <2>3 DEF PipeClose
    <3>2. \A q \in Procs : /\ at'[q] # "write_sleep"
                           /\ at'[q] = "read_sleep" => at[q] = "read_sleep"
      BY <1>2, <3>1 DEF Woken
    <3> QED BY <1>1, <2>1, <3>1, <3>2 DEF NoSleepPastBytes, Empty
  <2> QED BY <1>7, <2>2, <2>3 DEF PipeClose
<1>8. ASSUME NEW p \in Procs, Exit(p) \/ CallWrite(p) \/ CallRead(p)
      PROVE  NoSleepPastBytes'
  <2>1. SamePipe /\ \E x \in {"none", "read", "write"} : at' = [at EXCEPT ![p] = x]
    BY <1>8 DEF Exit, CallWrite, CallRead, Go, pipe
  <2> QED BY <1>2, <1>3, <2>1
<1>9. ASSUME NEW p \in Procs, Kill(p) PROVE NoSleepPastBytes'
  <2>1. SamePipe /\ at' = [at EXCEPT ![p] = CASE at[p] = "read_sleep" -> "read"
                                              [] at[p] = "write_sleep" -> "write"
                                              [] OTHER -> at[p]]
    BY <1>9 DEF Kill, Go, pipe
  <2> QED BY <1>2, <1>3, <2>1
<1>10. ASSUME NEW p \in Procs, PipeWrite(p) PROVE NoSleepPastBytes'
  <2> DEFINE n == Fits(p)
             rest == SubSeq(left[p], n + 1, Len(left[p]))
             woken == Woken(at, "read_sleep", "read")
  <2>1. /\ n \in Nat /\ n <= Len(left[p]) /\ Count \in Nat /\ Count + n <= PIPESIZE
        /\ n < Len(left[p]) => Count + n = PIPESIZE
    BY <1>1, FitsFacts
  <2>2. /\ SameEnds /\ nread' = nread /\ nwrite' = (nwrite + n) % WRAP
        /\ nread \in 0 .. WRAP - 1 /\ nwrite \in 0 .. WRAP - 1
    BY <1>1, <1>10 DEF PipeWrite, WriteWith, Types
  <2>3. n = 0 => nwrite' = nwrite
    <3>1. nwrite < WRAP /\ nwrite + 0 = nwrite
      BY <2>2, SizeAssumption
    <3>2. nwrite % WRAP = nwrite
      BY <2>2, <3>1, SizeAssumption, WrapsUp
    <3> HIDE DEF n
    <3> QED BY <2>2, <3>1, <3>2
  <2>4. Full => n = 0
    <3>1. Full => Count = PIPESIZE
      BY <1>1, CountFacts
    <3> HIDE DEF n
    <3> QED BY <2>1, <3>1, SizeAssumption
  <2>5. \A q \in Procs : at[q] = "write_sleep" => Full' /\ readopen'
    BY <1>1, <2>2, <2>3, <2>4 DEF NoSleepPastBytes, Full
  <2>6. at[p] = "write"
    BY <1>10 DEF PipeWrite, WriteWith
  <2>7. CASE at' = [woken EXCEPT ![p] = "run"]
    <3>1. \A q \in Procs : /\ at'[q] # "read_sleep"
                           /\ at'[q] = "write_sleep" => at[q] = "write_sleep"
      BY <1>2, <2>7 DEF Woken
    <3> QED BY <2>5, <3>1 DEF NoSleepPastBytes
  <2>8. CASE at' = [at EXCEPT ![p] = "run"] /\ cut' = (cut \/ n > 0)
    <3>1. \A q \in Procs : at'[q] \in {"read_sleep", "write_sleep"} => at[q] = at'[q]
      BY <1>2, <2>8
    <3>2. \A q \in Procs : at[q] = "read_sleep" => writeopen' /\ (Empty' \/ cut')
      <4> SUFFICES ASSUME NEW q \in Procs, at[q] = "read_sleep"
                   PROVE  writeopen' /\ (Empty' \/ cut')
        OBVIOUS
      <4>1. writeopen' /\ (Empty \/ cut)
        BY <1>1, <2>2 DEF NoSleepPastBytes
      <4>2. CASE n = 0
        BY <2>2, <2>3, <2>8, <4>1, <4>2 DEF Empty
      <4>3. CASE n > 0
        BY <2>8, <4>1, <4>3
      <4> QED BY <2>1, <4>2, <4>3
    <3> QED BY <2>5, <3>1, <3>2 DEF NoSleepPastBytes
  <2>9. CASE rest # <<>> /\ readopen /\ at' = [woken EXCEPT ![p] = "write_sleep"]
    <3>1. Full'
      <4>1. n < Len(left[p])
        BY <1>1, <2>1, <2>9 DEF Types
      <4>2. /\ (nwrite + n) % WRAP \in 0 .. WRAP - 1
            /\ (((nwrite + n) % WRAP) - nread) % WRAP = PIPESIZE
        <5> HIDE DEF n
        <5> QED BY <1>1, <2>1, <4>1, CountFacts
      <4> DEFINE to == (nwrite + n) % WRAP
      <4>3. to = (nread + PIPESIZE) % WRAP
        <5>1. to \in 0 .. WRAP - 1 /\ (to - nread) % WRAP = PIPESIZE
          BY <4>2
        <5> HIDE DEF to
        <5> QED BY <2>2, <5>1, Advance, 0 \in Nat
      <4> QED BY <2>2, <4>3 DEF Full
    <3>2. \A q \in Procs : at'[q] # "read_sleep"
      BY <1>2, <2>9 DEF Woken
    <3> QED BY <2>2, <2>9, <3>1, <3>2 DEF NoSleepPastBytes
  <2> QED BY <1>10, <2>7, <2>8, <2>9 DEF PipeWrite, WriteWith, Go
<1>11. ASSUME NEW p \in Procs, PipeRead(p) PROVE NoSleepPastBytes'
  <2> DEFINE waiting == Empty /\ writeopen
             woken == Woken(at, "write_sleep", "write")
  <2>1. nwrite' = nwrite /\ SameEnds /\ cut' = cut
    BY <1>11 DEF PipeRead, ReadWith
  <2>2. CASE waiting /\ at' = [at EXCEPT ![p] = "read_sleep"] /\ nread' = nread
    BY <1>1, <1>2, <2>1, <2>2 DEF NoSleepPastBytes, Full, Empty
  <2>3. CASE at' = [at EXCEPT ![p] = "run"] /\ nread' = nread
    BY <1>2, <1>3, <2>1, <2>3
  <2>4. CASE ~waiting /\ at' = [woken EXCEPT ![p] = "run"]
    <3>1. \A q \in Procs : /\ at'[q] # "write_sleep"
                           /\ at'[q] = "read_sleep" => at[q] = "read_sleep"
      BY <1>2, <2>4 DEF Woken
    <3>2. \A q \in Procs : at[q] = "read_sleep" => writeopen' /\ cut'
      BY <1>1, <2>1, <2>4 DEF NoSleepPastBytes
    <3> QED BY <3>1, <3>2 DEF NoSleepPastBytes
  <2> QED BY <1>11, <2>2, <2>3, <2>4 DEF PipeRead, ReadWith, Go
<1>12. CASE UNCHANGED vars
  BY <1>3, <1>12 DEF vars, pipe
<1> QED
  BY <1>4, <1>5, <1>6, <1>7, <1>8, <1>9, <1>10, <1>11, <1>12 DEF Next

-----------------------------------------------------------------------------
LEMMA PInvImplies == PInv => PipeSound
<1> SUFFICES ASSUME PInv PROVE PipeSound
  OBVIOUS
<1>1. Types /\ Counted /\ Placed /\ Opened /\ NoSleepPastBytes
  BY DEF PInv
<1>2. ref \in [Ends -> 0 .. Cardinality(Procs)]
  <2>1. \A e \in Ends : ref[e] \in 0 .. Cardinality(Procs)
    <3> SUFFICES ASSUME NEW e \in Ends PROVE ref[e] \in 0 .. Cardinality(Procs)
      OBVIOUS
    <3>1. ref[e] = Cardinality(Holders(e))
      BY <1>1 DEF Counted
    <3>2. Holders(e) \subseteq Procs /\ IsFiniteSet(Procs)
      BY SizeAssumption DEF Holders
    <3>3. /\ Cardinality(Holders(e)) \in Nat /\ Cardinality(Procs) \in Nat
          /\ Cardinality(Holders(e)) <= Cardinality(Procs)
      BY <3>2, FS_Subset, FS_CardinalityType
    <3> QED BY <3>1, <3>3
  <2> QED BY <1>1, <2>1 DEF Types
<1>3. TypeOK
  BY <1>1, <1>2 DEF TypeOK, Types, Places
<1>4. \A p \in Procs, e \in Ends : e \in fds[p] => ref[e] > 0
  <2>1. \A p \in Procs, e \in Ends : e \in fds[p] => ref[e] >= 1
    BY <1>1, HolderFacts
  <2> QED BY <1>2, <2>1
<1>5. allocated <=> \E p \in Procs : Uses(p)
  <2>1. /\ fds \in [Procs -> SUBSET Ends] /\ ref \in [Ends -> Nat]
        /\ "r" \in Ends /\ "w" \in Ends
    BY <1>1 DEF Types, Ends
  <2>2. ASSUME NEW p \in Procs, Uses(p) PROVE readopen \/ writeopen
    BY <1>1, <1>4, <2>1, <2>2 DEF Uses, Placed, Opened, Ends
  <2>3. ASSUME NEW e \in Ends, ref[e] > 0 PROVE \E p \in Procs : Uses(p)
    <3>1. ref[e] = Cardinality(Holders(e)) /\ ref[e] # 0
      BY <1>1, <2>1, <2>3 DEF Counted
    <3>2. Holders(e) # {}
      BY <3>1, FS_EmptySet
    <3> QED BY <3>2 DEF Holders, Uses
  <2> QED BY <1>1, <2>1, <2>2, <2>3 DEF Opened, Uses
<1>6. PipeKept
  BY <1>1, <1>5 DEF PipeKept, Counted, Holders
<1> QED BY <1>1, <1>3, <1>6 DEF PipeSound

(* The page of a pipe is allocated as long as anybody uses one of its ends *)
(* and no longer, the two files are counted right, the counters keep within*)
(* the ring although they wrap, and nobody sleeps on a pipe that has what  *)
(* it waits for or never will (pipe.c:22-118, file.c:43-80).               *)
THEOREM PipeCorrect == Spec => []PipeSound
<1>1. PInv /\ [Next]_vars => PInv'
  BY NextTypes, NextCounted, NextPlaced, NextOpened, NextSleep DEF PInv
<1> QED BY <1>1, InitPInv, PInvImplies, PTL DEF Spec

-----------------------------------------------------------------------------
(* The pipe implements ByteStream.                                         *)

\* Who reads has asked for something.
Asks == \A p \in Procs : at[p] \in {"read", "read_sleep"} => asked[p] > 0

LEMMA NextAsks == Types /\ Asks /\ [Next]_vars => Asks'
<1> SUFFICES ASSUME Types, Asks, [Next]_vars PROVE Asks'
  OBVIOUS
<1> USE SizeAssumption DEF Types, Places, Asks, Go, Woken, args, files, pipe
<1>1. ASSUME NEW p \in Procs, CallRead(p) PROVE Asks'
  BY <1>1 DEF CallRead
<1>2. ASSUME NEW p \in Procs, PipeRead(p) PROVE Asks'
  BY <1>2 DEF PipeRead, ReadWith
<1>3. ASSUME NEW p \in Procs, PipeWrite(p) PROVE Asks'
  <2>1. UNCHANGED asked /\ \A q \in Procs : at'[q] \in {"read", "read_sleep"} =>
                                              at[q] \in {"read", "read_sleep"}
    BY <1>3 DEF PipeWrite, WriteWith
  <2> QED BY <2>1
<1>4. ASSUME NEW p \in Procs, \/ PipeAlloc(p) \/ Exit(p) \/ Kill(p) \/ CallWrite(p)
                              \/ PipeClose(p)
                              \/ \E e \in Ends : FileClose(p, e)
                              \/ \E q \in Procs : Fork(p, q)
      PROVE  Asks'
  BY <1>4 DEF PipeAlloc, Exit, Kill, CallWrite, PipeClose, FileClose, Fork, ForkWith
<1>5. CASE UNCHANGED vars
  BY <1>5 DEF vars
<1> HIDE DEF Types, Asks
<1> QED BY <1>1, <1>2, <1>3, <1>4, <1>5 DEF Next

\* A step that ends no read and moves no byte is one of the stream's too.
LEMMA QuietStep ==
  ASSUME NEW p \in Procs, UNCHANGED <<data, nread, nwrite, Holders("w")>>, result' = <<>>
  PROVE  BS!Next
<1>1. Stored(Count)' = Stored(Count)
  BY DEF Stored, Count
<1>2. CASE p \in Holders("w")
  <2>1. BS!Share(p, p)
    BY <1>1, <1>2 DEF BS!Share, Holders
  <2> QED BY <2>1 DEF BS!Next
<1>3. CASE p \notin Holders("w")
  <2>1. BS!Leave(p)
    BY <1>1, <1>3 DEF BS!Leave, Holders
  <2> QED BY <2>1 DEF BS!Next
<1> QED BY <1>2, <1>3

LEMMA AllocOpens == ASSUME PInv, NEW p \in Procs, PipeAlloc(p) PROVE BS!Next
<1>1. Holders("w") = {}
  BY HolderFacts DEF PipeAlloc, PInv, Ends
<1>2. Holders("w")' = {p}
  BY <1>1 DEF PipeAlloc, PInv, Types, Holders, Ends
<1>3. Count' = 0
  BY WrapsDown, SizeAssumption DEF PipeAlloc, Count
<1>4. Stored(Count)' = <<>>
  BY <1>3 DEF Stored
<1>5. BS!Open(p)
  BY <1>1, <1>2, <1>4 DEF BS!Open, PipeAlloc, NoResult, Holders
<1> QED BY <1>5 DEF BS!Next

LEMMA ForkShares ==
  ASSUME PInv, NEW p \in Procs, NEW q \in Procs, Fork(p, q) PROVE BS!Next
<1>1. /\ UNCHANGED <<data, nread, nwrite>> /\ result' = <<>>
      /\ fds' = [fds EXCEPT ![q] = fds[p]] /\ fds[q] = {} /\ fds \in [Procs -> SUBSET Ends]
  BY DEF Fork, ForkWith, NoResult, pipe, PInv, Types, Placed
<1>2. Stored(Count)' = Stored(Count)
  BY <1>1 DEF Stored, Count
<1>3. CASE "w" \in fds[p]
  <2>1. Holders("w")' = Holders("w") \cup {q}
    BY <1>1, <1>3 DEF Holders
  <2>2. BS!Share(p, q)
    BY <1>1, <1>2, <1>3, <2>1 DEF BS!Share, Holders
  <2> QED BY <2>2 DEF BS!Next
<1>4. CASE "w" \notin fds[p]
  <2>1. Holders("w")' = Holders("w")
    BY <1>1, <1>4 DEF Holders
  <2> QED BY <1>1, <2>1, QuietStep
<1> QED BY <1>3, <1>4

LEMMA CloseLeaves ==
  ASSUME PInv, NEW p \in Procs, NEW e \in Ends, FileClose(p, e) PROVE BS!Next
<1>1. /\ UNCHANGED <<data, nread, nwrite>> /\ result' = <<>>
      /\ fds' = [fds EXCEPT ![p] = @ \ {e}] /\ fds \in [Procs -> SUBSET Ends]
  BY DEF FileClose, NoResult, pipe, PInv, Types
<1>2. Stored(Count)' = Stored(Count)
  BY <1>1 DEF Stored, Count
<1>3. CASE e = "w"
  <2>1. Holders("w")' = Holders("w") \ {p}
    BY <1>1, <1>3 DEF Holders
  <2>2. BS!Leave(p)
    BY <1>1, <1>2, <2>1 DEF BS!Leave, Holders
  <2> QED BY <2>2 DEF BS!Next
<1>4. CASE e # "w"
  <2>1. Holders("w")' = Holders("w")
    BY <1>1, <1>4 DEF Holders
  <2> QED BY <1>1, <2>1, QuietStep
<1> QED BY <1>3, <1>4

\* The bytes that pipewrite puts go to slots that hold none of the others.
LEMMA WriteAppends == ASSUME PInv, NEW p \in Procs, PipeWrite(p) PROVE BS!Next
<1> DEFINE n == Fits(p)
           c == Count
           s == Window(PIPESIZE, data, nread, c)
           t == Window(PIPESIZE, data', nread, c + n)
<1>1. /\ data \in Rings(PIPESIZE, Bytes) /\ nread \in 0 .. WRAP - 1
      /\ nwrite \in 0 .. WRAP - 1 /\ left \in [Procs -> Seq(Bytes)]
  BY DEF PInv, Types, Rings
<1>2. n \in Nat /\ n <= Len(left[p]) /\ c \in Nat /\ c + n <= PIPESIZE
  BY FitsFacts DEF PInv
<1>3. /\ data' = PutBytes(p, n) /\ nwrite' = (nwrite + n) % WRAP
      /\ UNCHANGED <<nread, fds>> /\ result' = <<>> /\ at[p] = "write"
  BY DEF PipeWrite, WriteWith, files, NoResult
<1>4. PIPESIZE \in Nat \ {0} /\ WRAP \in Nat \ {0} /\ RingWraps(PIPESIZE, WRAP)
  BY SizeAssumption DEF RingWraps
<1>5. Count' = c + n
  <2>1. (((nwrite + n) % WRAP) - nread) % WRAP = c + n
    <3> HIDE DEF n
    <3>1. Types
      BY DEF PInv
    <3> QED BY <1>2, <3>1, CountFacts
  <2> HIDE DEF n, c
  <2> QED BY <1>3, <2>1 DEF Count
<1>6. data' \in Rings(PIPESIZE, Bytes)
  BY NextTypes DEF PInv, Types, Next, Rings
<1>7. nwrite = (nread + c) % WRAP
  <2> DEFINE from == nread
             to == nwrite
  <2>1. from \in 0 .. WRAP - 1 /\ to \in 0 .. WRAP - 1
    BY <1>1
  <2> HIDE DEF from, to
  <2>2. to = (from + ((to - from) % WRAP)) % WRAP
    BY <1>4, <2>1, CountedOn
  <2> QED BY <2>2 DEF from, to, Count
<1>8. \A j \in 1 .. n : (nwrite + j - 1) % PIPESIZE = (nread + c + j - 1) % PIPESIZE
  <2> TAKE j \in 1 .. n
  <2> DEFINE i == j - 1
             a == nread + c
  <2>1. i \in Int /\ a \in Int /\ nwrite + j - 1 = nwrite + i /\ nread + c + j - 1 = a + i
    <3> HIDE DEF c, n
    <3> QED BY <1>1, <1>2
  <2>2. nwrite = a % WRAP
    BY <1>7
  <2> HIDE DEF i, a
  <2>3. ((a % WRAP) + i) % PIPESIZE = (a + i) % PIPESIZE
    BY <1>4, <2>1, SlotAfterWrap DEF SlotsAgree
  <2> QED BY <2>1, <2>2, <2>3
<1>9. \A k \in 1 .. c : data'[(nread + k - 1) % PIPESIZE] = data[(nread + k - 1) % PIPESIZE]
  <2> TAKE k \in 1 .. c
  <2> DEFINE x == (nread + k - 1) % PIPESIZE
  <2>1. x \in 0 .. PIPESIZE - 1
    <3> DEFINE a == nread + k - 1
    <3>1. a \in Int
      BY <1>1, <1>2
    <3> HIDE DEF a
    <3>2. a % PIPESIZE \in 0 .. PIPESIZE - 1
      BY <1>4, <3>1
    <3> QED BY <3>2 DEF a
  <2>2. \A j \in 1 .. n : (nwrite + j - 1) % PIPESIZE # x
    <3> TAKE j \in 1 .. n
    <3> DEFINE a == nread + k - 1
               b == nread + c + j - 1
    <3>1. a \in Int /\ b \in Int /\ a < b /\ b < a + PIPESIZE
      <4> HIDE DEF c, n
      <4> QED BY <1>1, <1>2, <1>4
    <3> HIDE DEF a, b
    <3>2. a % PIPESIZE # b % PIPESIZE
      BY <1>4, <3>1, SlotsDiffer
    <3>3. (nwrite + j - 1) % PIPESIZE = b % PIPESIZE
      BY <1>8 DEF b
    <3> QED BY <3>2, <3>3 DEF a
  <2> HIDE DEF x, c, n
  <2>3. PutBytes(p, n)[x] = data[x]
    BY <1>1, <2>1, <2>2 DEF PutBytes, Rings
  <2> QED BY <1>3, <2>3 DEF x
<1>10. /\ s \in Seq(Bytes) /\ Len(s) = c
       /\ \A k \in 1 .. c : s[k] = data[(nread + k - 1) % PIPESIZE]
  <2>1. nread \in Int
    BY <1>1, <1>4
  <2>2. data \in Rings(PIPESIZE, Bytes) /\ c \in Nat /\ PIPESIZE \in Nat \ {0}
    BY <1>1, <1>2, <1>4
  <2> HIDE DEF c
  <2> QED BY <2>1, <2>2, WindowFacts
<1>11. /\ t \in Seq(Bytes) /\ Len(t) = c + n
       /\ \A k \in 1 .. c + n : t[k] = data'[(nread + k - 1) % PIPESIZE]
  <2> DEFINE m == c + n
             d == data'
  <2>1. m \in Nat /\ nread \in Int /\ d \in Rings(PIPESIZE, Bytes) /\ PIPESIZE \in Nat \ {0}
    BY <1>1, <1>2, <1>4, <1>6
  <2> HIDE DEF c, n, m, d
  <2>2. /\ Window(PIPESIZE, d, nread, m) \in Seq(Bytes) /\ Len(Window(PIPESIZE, d, nread, m)) = m
        /\ \A k \in 1 .. m : Window(PIPESIZE, d, nread, m)[k] = d[(nread + k - 1) % PIPESIZE]
    BY <2>1, WindowFacts
  <2> QED BY <2>2 DEF m, d
<1>12. s = Stored(Count) /\ t = Stored(Count)'
  BY <1>3, <1>5 DEF Stored, Window
<1> HIDE DEF s, t, c, n
<1>13. SubSeq(t, 1, Len(s)) = s
  <2> DEFINE u == SubSeq(t, 1, c)
  <2>1. u \in Seq(Bytes) /\ Len(u) = c /\ \A k \in 1 .. c : u[k] = t[k]
    BY <1>2, <1>11
  <2> HIDE DEF u
  <2>2. \A k \in 1 .. c : k \in 1 .. c + n
    BY <1>2
  <2>3. \A k \in 1 .. c : u[k] = s[k]
    BY <1>9, <1>10, <1>11, <2>1, <2>2
  <2>4. u = s
    BY <1>10, <2>1, <2>3, SeqEqual
  <2> QED BY <1>10, <2>4 DEF u
<1>14. Len(t) >= Len(s)
  BY <1>2, <1>10, <1>11
<1>15. "w" \in fds[p]
  BY <1>3 DEF PInv, Placed
<1>16. BS!Write(p)
  BY <1>3, <1>12, <1>13, <1>14, <1>15 DEF BS!Write, Holders
<1> QED BY <1>16 DEF BS!Next

LEMMA StoredRest ==
  ASSUME NEW d \in Rings(PIPESIZE, Bytes), NEW r \in Int, NEW c \in Nat, NEW n \in 0 .. c
  PROVE  SubSeq(Window(PIPESIZE, d, r, c), n + 1, c) =
           Window(PIPESIZE, d, (r + n) % WRAP, c - n)
<1>1. /\ RingWraps(PIPESIZE, WRAP) /\ PIPESIZE \in Nat \ {0} /\ WRAP \in Nat \ {0}
  BY SizeAssumption DEF RingWraps
<1> DEFINE u == (r + n) % WRAP
           m == c - n
           s == Window(PIPESIZE, d, r, c)
           t == Window(PIPESIZE, d, u, m)
<1>2. u \in Int /\ m \in Nat /\ n \in Nat /\ c = n + m
  BY <1>1
<1>3. \A k \in 1 .. m : (u + k - 1) % PIPESIZE = (r + (n + k) - 1) % PIPESIZE
  <2> TAKE k \in 1 .. m
  <2> DEFINE j == k - 1
             a == r + n
  <2>1. a \in Int /\ j \in Int /\ u + k - 1 = (a % WRAP) + j /\ r + (n + k) - 1 = a + j
    <3>1. u + k - 1 = u + (k - 1)
      <4> HIDE DEF u
      <4> QED BY <1>2
    <3> QED BY <3>1
  <2> HIDE DEF j, a, u
  <2>2. ((a % WRAP) + j) % PIPESIZE = (a + j) % PIPESIZE
    BY <1>1, <2>1, SlotAfterWrap DEF SlotsAgree
  <2> QED BY <2>1, <2>2
<1> HIDE DEF u
<1>4. /\ s \in Seq(Bytes) /\ Len(s) = c
      /\ \A k \in 1 .. c : s[k] = d[(r + k - 1) % PIPESIZE]
  BY <1>1, WindowFacts
<1>5. /\ t \in Seq(Bytes) /\ Len(t) = m
      /\ \A k \in 1 .. m : t[k] = d[(u + k - 1) % PIPESIZE]
  <2> HIDE DEF m
  <2> QED BY <1>1, <1>2, WindowFacts
<1> HIDE DEF s, t
<1>6. \A k \in 1 .. m : t[k] = s[n + k]
  <2> TAKE k \in 1 .. m
  <2>1. n + k \in 1 .. c
    BY <1>2
  <2>2. s[n + k] = d[(r + (n + k) - 1) % PIPESIZE]
    BY <1>4, <2>1
  <2> QED BY <1>3, <1>5, <2>2
<1>7. SubSeq(s, n + 1, c) = t
  BY <1>2, <1>4, <1>5, <1>6, RestEqual
<1> QED BY <1>7 DEF s, t, u

LEMMA ReadTakes == ASSUME PInv, Asks, NEW p \in Procs, PipeRead(p) PROVE BS!Next
<1> DEFINE waiting == Empty /\ writeopen
           n == IF asked[p] < Count THEN asked[p] ELSE Count
<1>1. at[p] = "read" /\ UNCHANGED <<data, nwrite, fds, writeopen>>
  BY DEF PipeRead, ReadWith, files
<1>2. CASE waiting /\ ~killed[p]
  <2>1. UNCHANGED nread /\ result' = <<>>
    BY <1>2 DEF PipeRead, ReadWith, NoResult
  <2>2. UNCHANGED Holders("w")
    BY <1>1 DEF Holders
  <2> QED BY <1>1, <2>1, <2>2, QuietStep
<1>3. CASE waiting /\ killed[p]
  <2>1. UNCHANGED nread /\ result' = <<p, Failed>>
    BY <1>3 DEF PipeRead, ReadWith
  <2>2. Stored(Count)' = Stored(Count)
    BY <1>1, <2>1 DEF Stored, Count
  <2>3. BS!ReadFails(p)
    BY <1>1, <2>1, <2>2 DEF BS!ReadFails
  <2> QED BY <2>3 DEF BS!Next
<1>4. CASE ~waiting
  <2>1. result' = <<p, Stored(n)>> /\ nread' = (nread + n) % WRAP
    BY <1>4 DEF PipeRead, ReadWith
  <2>2. /\ data \in Rings(PIPESIZE, Bytes) /\ nread \in 0 .. WRAP - 1
        /\ asked[p] \in Nat /\ asked[p] > 0
    BY <1>1 DEF PInv, Types, Asks, Rings
  <2>3. Count \in Nat /\ (Count = 0 <=> Empty) /\ n \in 0 .. Count /\ n \in Nat
    BY <2>2, CountFacts, SizeAssumption DEF PInv
  <2>4. Count' = Count - n
    <3>1. (nwrite - ((nread + n) % WRAP)) % WRAP = Count - n
      <4> HIDE DEF n
      <4>1. Types
        BY DEF PInv
      <4> QED BY <2>3, <4>1, CountFacts
    <3> HIDE DEF n
    <3>2. Count' = (nwrite' - nread') % WRAP
      BY DEF Count
    <3> QED BY <1>1, <2>1, <3>1, <3>2
  <2>5. n = 0 => Count = 0 /\ ~writeopen
    BY <1>4, <2>2, <2>3
  <2>6. n = 0 => Holders("w") = {}
    <3>1. ~writeopen => ref["w"] = 0
      BY DEF PInv, Types, Opened, Ends
    <3>2. ref["w"] = 0 => Holders("w") = {}
      BY HolderFacts DEF PInv, Ends
    <3> QED BY <2>5, <3>1, <3>2
  <2> DEFINE s == Stored(Count)
  <2>7. s = Window(PIPESIZE, data, nread, Count) /\ Stored(n) = Window(PIPESIZE, data, nread, n)
    BY DEF Stored, Window
  <2>8. Stored(Count)' = Window(PIPESIZE, data, (nread + n) % WRAP, Count - n)
    <3> HIDE DEF n
    <3> QED BY <1>1, <2>1, <2>4 DEF Stored, Window
  <2> HIDE DEF s, n
  <2>9. /\ SubSeq(s, 1, n) = Stored(n)
        /\ SubSeq(s, n + 1, Count) = Stored(Count)'
    <3> DEFINE c == Count
    <3>1. nread \in Int /\ c \in Nat /\ n \in 0 .. c /\ PIPESIZE \in Nat \ {0}
      BY <2>2, <2>3, SizeAssumption
    <3> HIDE DEF c
    <3>4. SubSeq(Window(PIPESIZE, data, nread, c), n + 1, c) =
            Window(PIPESIZE, data, (nread + n) % WRAP, c - n)
      BY <2>2, <3>1, StoredRest
    <3>5. SubSeq(Window(PIPESIZE, data, nread, c), 1, n) = Window(PIPESIZE, data, nread, n)
      BY <2>2, <3>1, WindowFront
    <3> QED BY <2>7, <2>8, <3>4, <3>5 DEF c
  <2>10. Len(s) = Count
    BY <2>2, <2>3, <2>7, WindowFacts, SizeAssumption
  <2>11. n = 0 => s = <<>>
    BY <2>5, <2>7 DEF Window
  <2>12. BS!Read(p)
    <3>1. n \in 0 .. Len(s)
      BY <2>3, <2>10
    <3>2. n = 0 => s = <<>> /\ Holders("w") = {}
      BY <2>6, <2>11
    <3>3. result' = <<p, SubSeq(s, 1, n)>> /\ Stored(Count)' = SubSeq(s, n + 1, Len(s))
      BY <2>1, <2>9, <2>10
    <3>4. UNCHANGED Holders("w")
      BY <1>1 DEF Holders
    <3> QED BY <3>1, <3>2, <3>3, <3>4 DEF BS!Read, Holders, s
  <2> QED BY <2>12 DEF BS!Next
<1> QED BY <1>2, <1>3, <1>4

LEMMA NextImplements == PInv /\ Asks /\ [Next]_vars => [BS!Next]_(BS!vars)
<1> SUFFICES ASSUME PInv, Asks, [Next]_vars PROVE [BS!Next]_(BS!vars)
  OBVIOUS
<1>1. ASSUME NEW p \in Procs, \/ Exit(p) \/ Kill(p) \/ PipeClose(p) \/ CallWrite(p)
                              \/ CallRead(p)
      PROVE  BS!Next
  <2>1. UNCHANGED <<data, nread, nwrite, fds>> /\ result' = <<>>
    BY <1>1 DEF Exit, Kill, PipeClose, CallWrite, CallRead, NoResult, pipe, files
  <2>2. UNCHANGED Holders("w")
    BY <2>1 DEF Holders
  <2> QED BY <2>1, <2>2, QuietStep
<1>2. CASE UNCHANGED vars
  BY <1>2 DEF vars, pipe, files, BS!vars, Stored, Count
<1> QED BY <1>1, <1>2, AllocOpens, ForkShares, CloseLeaves, WriteAppends, ReadTakes DEF Next

(* The bytes of a pipe come out once and in the order they went in, also   *)
(* when its counters wrap, and a read comes back empty only when all were  *)
(* read and nobody can write any more (pipe.c:78-121).                     *)
THEOREM PipeRefined == Spec => PipeIsStream
<1>1. Init => BS!Init
  <2> SUFFICES ASSUME Init PROVE BS!Init
    OBVIOUS
  <2>1. Count = 0
    BY SizeAssumption, WrapsDown DEF Count, Init
  <2>2. Stored(Count) = <<>>
    BY <2>1 DEF Stored
  <2> QED BY <2>2 DEF Init, BS!Init
<1>2. Init => Asks
  BY DEF Init, Asks
<1>3. PInv /\ [Next]_vars => PInv'
  BY NextTypes, NextCounted, NextPlaced, NextOpened, NextSleep DEF PInv
<1>4. PInv /\ Asks /\ [Next]_vars => Asks'
  BY NextAsks DEF PInv
<1> QED BY <1>1, <1>2, <1>3, <1>4, InitPInv, NextImplements, PTL
        DEF Spec, PipeIsStream, BS!Spec

-----------------------------------------------------------------------------

(* The console's indices.                                                  *)

LEMMA MinusIs ==
  ASSUME NEW a \in 0 .. Wrap - 1, NEW b \in 0 .. Wrap - 1
  PROVE  Minus(a, b) = IF a >= b THEN a - b ELSE a - b + Wrap
<1> DEFINE x == a - b
<1>1. Wrap \in Nat \ {0}
  BY ConsoleAssumption
<1>2. x \in Int /\ -Wrap < x /\ x < Wrap
  BY <1>1
<1> HIDE DEF x
<1>3. x % Wrap = IF x >= 0 THEN x ELSE x + Wrap
  BY <1>1, <1>2, WrapDown
<1>4. Minus(a, b) = x % Wrap
  BY DEF Minus, x
<1>5. x = a - b
  BY DEF x
<1> QED BY <1>1, <1>3, <1>4, <1>5

LEMMA PlusIs ==
  ASSUME NEW a \in 0 .. Wrap - 1, NEW b \in 0 .. Wrap
  PROVE  Plus(a, b) = IF a + b < Wrap THEN a + b ELSE a + b - Wrap
<1> DEFINE x == a + b
<1>1. Wrap \in Nat \ {0}
  BY ConsoleAssumption
<1>2. x \in Int /\ 0 <= x /\ x < 2 * Wrap
  BY <1>1
<1> HIDE DEF x
<1>3. x % Wrap = IF x < Wrap THEN x ELSE x - Wrap
  BY <1>1, <1>2, WrapUp
<1>4. Plus(a, b) = x % Wrap
  BY DEF Plus, x
<1>5. x = a + b
  BY DEF x
<1> QED BY <1>1, <1>3, <1>4, <1>5

Index == 0 .. Wrap - 1

\* Three indices in order, no more than the buffer apart.
InOrder(r, w, e) == Minus(w, r) + Minus(e, w) <= InputBuf

LEMMA IndexFacts ==
  ASSUME NEW r \in Index, NEW w \in Index, NEW e \in Index, InOrder(r, w, e)
  PROVE  /\ Minus(w, r) \in 0 .. InputBuf /\ Minus(e, w) \in 0 .. InputBuf
         /\ Minus(e, r) = Minus(w, r) + Minus(e, w)
         /\ w = Plus(r, Minus(w, r)) /\ e = Plus(w, Minus(e, w)) /\ e = Plus(r, Minus(e, r))
         /\ Minus(w, r) = 0 <=> w = r
         /\ Minus(e, w) = 0 <=> e = w
<1>1. /\ Wrap \in Nat \ {0} /\ InputBuf \in Nat \ {0} /\ InputBuf < Wrap
      /\ r \in 0 .. Wrap - 1 /\ w \in 0 .. Wrap - 1 /\ e \in 0 .. Wrap - 1
  BY ConsoleAssumption DEF Index
<1>2. /\ Minus(w, r) = IF w >= r THEN w - r ELSE w - r + Wrap
      /\ Minus(e, w) = IF e >= w THEN e - w ELSE e - w + Wrap
      /\ Minus(e, r) = IF e >= r THEN e - r ELSE e - r + Wrap
  BY <1>1, MinusIs
<1>3. /\ Minus(w, r) \in 0 .. InputBuf /\ Minus(e, w) \in 0 .. InputBuf
      /\ Minus(e, r) = Minus(w, r) + Minus(e, w)
  BY <1>1, <1>2 DEF InOrder
<1>4. ASSUME NEW a \in Index, NEW b \in Index PROVE b = Plus(a, Minus(b, a))
  <2>1. a \in 0 .. Wrap - 1 /\ b \in 0 .. Wrap - 1
    BY DEF Index
  <2>2. Minus(b, a) = IF b >= a THEN b - a ELSE b - a + Wrap
    BY <2>1, MinusIs
  <2> DEFINE m == Minus(b, a)
  <2>3. m \in 0 .. Wrap
    BY <1>1, <2>1, <2>2
  <2>4. Plus(a, m) = IF a + m < Wrap THEN a + m ELSE a + m - Wrap
    <3> HIDE DEF m
    <3> QED BY <2>1, <2>3, PlusIs
  <2> QED BY <1>1, <2>1, <2>2, <2>4
<1> QED BY <1>1, <1>2, <1>3, <1>4

\* One more character behind the last, one less, or some taken from the front.
LEMMA IndexSteps ==
  ASSUME NEW r \in Index, NEW w \in Index, NEW e \in Index, InOrder(r, w, e)
  PROVE  /\ Minus(e, r) < InputBuf =>
              /\ Plus(e, 1) \in Index
              /\ Minus(Plus(e, 1), w) = Minus(e, w) + 1
              /\ Minus(Plus(e, 1), r) = Minus(e, r) + 1
              /\ Plus(e, 1) = Plus(r, InputBuf) <=> Minus(e, r) + 1 = InputBuf
         /\ e # w => /\ Minus(e, 1) \in Index
                     /\ Minus(Minus(e, 1), w) = Minus(e, w) - 1
         /\ \A k \in 0 .. Minus(w, r) :
              /\ Plus(r, k) \in Index
              /\ Minus(w, Plus(r, k)) = Minus(w, r) - k
<1>1. /\ Wrap \in Nat \ {0} /\ InputBuf \in Nat \ {0} /\ InputBuf < Wrap
      /\ r \in 0 .. Wrap - 1 /\ w \in 0 .. Wrap - 1 /\ e \in 0 .. Wrap - 1
  BY ConsoleAssumption DEF Index
<1>2. /\ Minus(w, r) = IF w >= r THEN w - r ELSE w - r + Wrap
      /\ Minus(e, w) = IF e >= w THEN e - w ELSE e - w + Wrap
      /\ Minus(e, r) = IF e >= r THEN e - r ELSE e - r + Wrap
  BY <1>1, MinusIs
<1>3. /\ Minus(w, r) \in 0 .. InputBuf /\ Minus(e, w) \in 0 .. InputBuf
      /\ Minus(e, r) = Minus(w, r) + Minus(e, w)
  BY IndexFacts
<1>4. ASSUME Minus(e, r) < InputBuf
      PROVE  /\ Plus(e, 1) \in Index
             /\ Minus(Plus(e, 1), w) = Minus(e, w) + 1
             /\ Minus(Plus(e, 1), r) = Minus(e, r) + 1
             /\ Plus(e, 1) = Plus(r, InputBuf) <=> Minus(e, r) + 1 = InputBuf
  <2> DEFINE f == Plus(e, 1)
  <2>1. f = IF e + 1 < Wrap THEN e + 1 ELSE e + 1 - Wrap
    BY <1>1, PlusIs
  <2>2. f \in 0 .. Wrap - 1
    BY <1>1, <2>1
  <2>3. Plus(r, InputBuf) = IF r + InputBuf < Wrap THEN r + InputBuf ELSE r + InputBuf - Wrap
    BY <1>1, PlusIs
  <2> HIDE DEF f
  <2>4. /\ Minus(f, w) = IF f >= w THEN f - w ELSE f - w + Wrap
        /\ Minus(f, r) = IF f >= r THEN f - r ELSE f - r + Wrap
    BY <1>1, <2>2, MinusIs
  <2>5. Minus(f, w) = Minus(e, w) + 1 /\ Minus(f, r) = Minus(e, r) + 1
    BY <1>1, <1>2, <1>3, <1>4, <2>1, <2>4
  <2>6. f = Plus(r, InputBuf) <=> Minus(e, r) + 1 = InputBuf
    BY <1>1, <1>2, <1>3, <1>4, <2>1, <2>3
  <2> QED BY <2>2, <2>5, <2>6 DEF f, Index
<1>5. ASSUME e # w PROVE Minus(e, 1) \in Index /\ Minus(Minus(e, 1), w) = Minus(e, w) - 1
  <2> DEFINE f == Minus(e, 1)
  <2>1. 1 \in 0 .. Wrap - 1
    BY <1>1
  <2>2. f = IF e >= 1 THEN e - 1 ELSE e - 1 + Wrap
    BY <1>1, <2>1, MinusIs
  <2>3. f \in 0 .. Wrap - 1
    BY <1>1, <2>2
  <2> HIDE DEF f
  <2>4. Minus(f, w) = IF f >= w THEN f - w ELSE f - w + Wrap
    BY <1>1, <2>3, MinusIs
  <2>5. Minus(f, w) = Minus(e, w) - 1
    BY <1>1, <1>2, <1>5, <2>2, <2>4
  <2> QED BY <2>3, <2>5 DEF f, Index
<1>6. ASSUME NEW k \in 0 .. Minus(w, r)
      PROVE  Plus(r, k) \in Index /\ Minus(w, Plus(r, k)) = Minus(w, r) - k
  <2> DEFINE f == Plus(r, k)
  <2>1. k \in 0 .. Wrap /\ k \in Int /\ k <= Minus(w, r)
    BY <1>1, <1>3
  <2>2. f = IF r + k < Wrap THEN r + k ELSE r + k - Wrap
    BY <1>1, <2>1, PlusIs
  <2>3. f \in 0 .. Wrap - 1
    BY <1>1, <2>1, <2>2
  <2> HIDE DEF f
  <2>4. Minus(w, f) = IF w >= f THEN w - f ELSE w - f + Wrap
    BY <1>1, <2>3, MinusIs
  <2>5. Minus(w, f) = Minus(w, r) - k
    BY <1>1, <1>2, <1>3, <2>1, <2>2, <2>4
  <2> QED BY <2>3, <2>5 DEF f, Index
<1> QED BY <1>4, <1>5, <1>6

-----------------------------------------------------------------------------
(* The characters between two indices.                                     *)
Text(d, a, n) == Window(InputBuf, d, a, n)

LEMMA TextIs ==
  ASSUME NEW d, NEW a \in Index, NEW n \in Nat
  PROVE  [i \in 1 .. n |-> d[Plus(a, i - 1) % InputBuf]] = Text(d, a, n)
<1>1. RingWraps(InputBuf, Wrap) /\ a \in Int
  BY ConsoleAssumption DEF RingWraps, Index
<1>2. \A i \in 1 .. n : Plus(a, i - 1) % InputBuf = (a + i - 1) % InputBuf
  <2> TAKE i \in 1 .. n
  <2> DEFINE x == a + i - 1
  <2>1. x \in Int /\ Plus(a, i - 1) = x % Wrap
    <3>1. a + (i - 1) = a + i - 1
      BY <1>1
    <3> QED BY <1>1, <3>1 DEF Plus
  <2> HIDE DEF x
  <2>2. (x % Wrap) % InputBuf = x % InputBuf
    BY <1>1, <2>1, SlotOfWrapped
  <2> QED BY <2>1, <2>2 DEF x
<1> QED BY <1>2 DEF Text, Window

LEMMA TextFacts ==
  ASSUME NEW d \in Rings(InputBuf, Keys), NEW a \in Index, NEW n \in Nat
  PROVE  Text(d, a, n) \in Seq(Keys) /\ Len(Text(d, a, n)) = n
<1>1. InputBuf \in Nat \ {0} /\ a \in Int
  BY ConsoleAssumption DEF Index
<1> QED BY <1>1, WindowFacts DEF Text

LEMMA TextFront ==
  ASSUME NEW d \in Rings(InputBuf, Keys), NEW a \in Index, NEW c \in Nat, NEW n \in 0 .. c
  PROVE  SubSeq(Text(d, a, c), 1, n) = Text(d, a, n)
<1>1. InputBuf \in Nat \ {0} /\ a \in Int
  BY ConsoleAssumption DEF Index
<1> QED BY <1>1, WindowFront DEF Text

LEMMA TextRest ==
  ASSUME NEW d \in Rings(InputBuf, Keys), NEW r \in Index, NEW c \in Nat, NEW n \in 0 .. c
  PROVE  SubSeq(Text(d, r, c), n + 1, c) = Text(d, Plus(r, n), c - n)
<1>1. /\ RingWraps(InputBuf, Wrap) /\ InputBuf \in Nat \ {0} /\ Wrap \in Nat \ {0}
      /\ r \in Int
  BY ConsoleAssumption DEF RingWraps, Index
<1> DEFINE u == (r + n) % Wrap
           m == c - n
           s == Window(InputBuf, d, r, c)
           t == Window(InputBuf, d, u, m)
<1>2. u \in Int /\ m \in Nat /\ n \in Nat /\ c = n + m
  BY <1>1
<1>3. \A k \in 1 .. m : (u + k - 1) % InputBuf = (r + (n + k) - 1) % InputBuf
  <2> TAKE k \in 1 .. m
  <2> DEFINE j == k - 1
             a == r + n
  <2>1. a \in Int /\ j \in Int /\ u + k - 1 = (a % Wrap) + j /\ r + (n + k) - 1 = a + j
    <3>1. u + k - 1 = u + (k - 1)
      <4> HIDE DEF u
      <4> QED BY <1>2
    <3> QED BY <1>1, <3>1
  <2> HIDE DEF j, a, u
  <2>2. ((a % Wrap) + j) % InputBuf = (a + j) % InputBuf
    BY <1>1, <2>1, SlotAfterWrap DEF SlotsAgree
  <2> QED BY <2>1, <2>2
<1> HIDE DEF u
<1>4. /\ s \in Seq(Keys) /\ Len(s) = c
      /\ \A k \in 1 .. c : s[k] = d[(r + k - 1) % InputBuf]
  BY <1>1, WindowFacts
<1>5. /\ t \in Seq(Keys) /\ Len(t) = m
      /\ \A k \in 1 .. m : t[k] = d[(u + k - 1) % InputBuf]
  <2> HIDE DEF m
  <2> QED BY <1>1, <1>2, WindowFacts
<1> HIDE DEF s, t
<1>6. \A k \in 1 .. m : t[k] = s[n + k]
  <2> TAKE k \in 1 .. m
  <2>1. n + k \in 1 .. c
    BY <1>2
  <2>2. s[n + k] = d[(r + (n + k) - 1) % InputBuf]
    BY <1>4, <2>1
  <2> QED BY <1>3, <1>5, <2>2
<1>7. SubSeq(s, n + 1, c) = t
  BY <1>2, <1>4, <1>5, <1>6, RestEqual
<1> QED BY <1>7 DEF s, t, u, Text, Plus

LEMMA Rejoin ==
  ASSUME NEW S, NEW s \in Seq(S), NEW n \in 0 .. Len(s)
  PROVE  s = SubSeq(s, 1, n) \o SubSeq(s, n + 1, Len(s))
<1> DEFINE p == SubSeq(s, 1, n)
           q == SubSeq(s, n + 1, Len(s))
           t == p \o q
<1>1. /\ p \in Seq(S) /\ Len(p) = n /\ \A i \in 1 .. n : p[i] = s[i]
      /\ q \in Seq(S) /\ Len(q) = Len(s) - n /\ \A i \in 1 .. Len(s) - n : q[i] = s[n + i]
  OBVIOUS
<1> HIDE DEF p, q
<1>3. /\ t \in Seq(S) /\ Len(t) = Len(s)
      /\ \A i \in 1 .. Len(s) : t[i] = IF i <= n THEN p[i] ELSE q[i - n]
  BY <1>1
<1>4. \A i \in 1 .. Len(s) : t[i] = s[i]
  <2> TAKE i \in 1 .. Len(s)
  <2>1. CASE i <= n
    <3>1. i \in 1 .. n
      BY <2>1
    <3> QED BY <1>1, <1>3, <2>1, <3>1
  <2>2. CASE ~(i <= n)
    <3>1. i - n \in 1 .. Len(s) - n /\ n + (i - n) = i
      BY <2>2
    <3>2. q[i - n] = s[n + (i - n)]
      BY <1>1, <3>1
    <3> HIDE DEF t
    <3> QED BY <1>3, <2>2, <3>1, <3>2
  <2> QED BY <2>1, <2>2
<1> HIDE DEF t
<1>2. t = s
  BY <1>3, <1>4, SeqEqual
<1> QED BY <1>2 DEF t, p, q

PutAt(d, y, c, e) == e = [d EXCEPT ![y] = c]

\* A character put m places on keeps what is before it, and follows it.
LEMMA PutText ==
  ASSUME NEW d \in Rings(InputBuf, Keys), NEW r \in Index, NEW n \in Nat, NEW m \in Nat,
         n <= m, m < InputBuf, NEW c \in Keys, NEW y, y = Plus(r, m) % InputBuf,
         NEW e, PutAt(d, y, c, e)
  PROVE  /\ e \in Rings(InputBuf, Keys)
         /\ Text(e, r, n) = Text(d, r, n)
         /\ n = m => Text(e, r, n + 1) = Append(Text(d, r, n), c)
<1>1. /\ RingWraps(InputBuf, Wrap) /\ InputBuf \in Nat \ {0} /\ r \in Int
  BY ConsoleAssumption DEF RingWraps, Index
<1> DEFINE x == (r + m) % InputBuf
<1>2. Plus(r, m) % InputBuf = x
  <2> DEFINE a == r + m
  <2>1. a \in Int
    BY <1>1
  <2> HIDE DEF a
  <2>2. (a % Wrap) % InputBuf = a % InputBuf
    BY <1>1, <2>1, SlotOfWrapped
  <2> QED BY <2>2 DEF a, Plus
<1>3. x \in 0 .. InputBuf - 1
  <2> DEFINE a == r + m
  <2>1. a \in Int
    BY <1>1
  <2> HIDE DEF a
  <2>2. a % InputBuf \in 0 .. InputBuf - 1
    BY <1>1, <2>1
  <2> QED BY <2>2 DEF a
<1>4. \A k \in 1 .. m : (r + k - 1) % InputBuf # x
  <2> TAKE k \in 1 .. m
  <2> DEFINE a == r + k - 1
             b == r + m
  <2>1. a \in Int /\ b \in Int /\ a < b /\ b < a + InputBuf
    BY <1>1
  <2> HIDE DEF a, b
  <2>2. a % InputBuf # b % InputBuf
    BY <1>1, <2>1, SlotsDiffer
  <2> QED BY <2>2 DEF a, b
<1> HIDE DEF x
<1>5. e \in Rings(InputBuf, Keys) /\ e[x] = c /\ \A z \in 0 .. InputBuf - 1 : z # x => e[z] = d[z]
  BY <1>2, <1>3 DEF Rings, PutAt
<1>6. \A k \in 1 .. m : e[(r + k - 1) % InputBuf] = d[(r + k - 1) % InputBuf]
  <2> TAKE k \in 1 .. m
  <2> DEFINE a == r + k - 1
  <2>1. a \in Int
    BY <1>1
  <2> HIDE DEF a
  <2>2. a % InputBuf \in 0 .. InputBuf - 1
    BY <1>1, <2>1
  <2> QED BY <1>4, <1>5, <2>2 DEF a
<1>7. Text(e, r, n) = Text(d, r, n)
  BY <1>6 DEF Text, Window
<1>8. ASSUME n = m PROVE Text(e, r, n + 1) = Append(Text(d, r, n), c)
  <2>0. PICK z \in Nat : z = n + 1
    OBVIOUS
  <2> DEFINE s == Text(e, r, z)
             t == Text(d, r, n)
  <2>1. /\ t \in Seq(Keys) /\ Len(t) = n
        /\ \A k \in 1 .. n : t[k] = d[(r + k - 1) % InputBuf]
    BY <1>1, WindowFacts DEF Text
  <2>2. /\ s \in Seq(Keys) /\ Len(s) = z
        /\ \A k \in 1 .. z : s[k] = e[(r + k - 1) % InputBuf]
    <3>1. e \in Rings(InputBuf, Keys)
      BY <1>5
    <3>2. \A f \in Rings(InputBuf, Keys) :
            /\ Window(InputBuf, f, r, z) \in Seq(Keys) /\ Len(Window(InputBuf, f, r, z)) = z
            /\ \A k \in 1 .. z : Window(InputBuf, f, r, z)[k] = f[(r + k - 1) % InputBuf]
      <4>1. InputBuf \in Nat \ {0} /\ r \in Int /\ z \in Nat
        BY <1>1
      <4> TAKE f \in Rings(InputBuf, Keys)
      <4> QED BY <4>1, WindowFacts
    <3> QED BY <3>1, <3>2 DEF Text
  <2>3. s[z] = c
    <3>1. r + z - 1 = r + m /\ z \in 1 .. z
      BY <1>1, <1>8, <2>0
    <3>2. (r + z - 1) % InputBuf = x
      BY <3>1 DEF x
    <3> HIDE DEF s
    <3> QED BY <1>5, <2>2, <3>1, <3>2
  <2> HIDE DEF s, t
  <2>4. \A k \in 1 .. n : s[k] = t[k]
    <3> TAKE k \in 1 .. n
    <3>1. k \in 1 .. z /\ k \in 1 .. m
      BY <1>8, <2>0
    <3> QED BY <1>6, <2>1, <2>2, <3>1
  <2> DEFINE v == Append(t, c)
  <2>5. v \in Seq(Keys) /\ Len(v) = z /\ v[z] = c /\ \A k \in 1 .. n : v[k] = t[k]
    BY <2>0, <2>1
  <2> HIDE DEF v
  <2>6. \A k \in 1 .. z : s[k] = v[k]
    BY <2>0, <2>3, <2>4, <2>5
  <2>7. s = v
    BY <2>2, <2>5, <2>6, SeqEqual
  <2> QED BY <2>0, <2>7 DEF s, t, v
<1> QED BY <1>5, <1>7, <1>8
-----------------------------------------------------------------------------
(* The console implements Terminal and wakes its readers.                  *)

Lines == Text(ring, rd, Minus(wr, rd))
Edited == Text(ring, wr, Minus(ed, wr))

Indices ==
  /\ ring \in Rings(InputBuf, Keys)
  /\ rd \in Index /\ wr \in Index /\ ed \in Index
  /\ InOrder(rd, wr, ed)

Readings == [at : {"away", "asleep", "awake"}, n : Nat, target : Nat]

\* A newline that is typed ends the line at once.
Unbroken == \A i \in 1 .. Minus(ed, wr) : Edited[i] # NewLine

ConsoleInv ==
  Indices /\ reader \in [Readers -> Readings] /\ Unbroken /\ ConsoleWakesReaders

LEMMA Counts1 ==
  ASSUME Indices
  PROVE  /\ Minus(wr, rd) \in Nat /\ Minus(ed, wr) \in Nat
         /\ Minus(wr, rd) + Minus(ed, wr) <= InputBuf
         /\ Minus(ed, rd) = Minus(wr, rd) + Minus(ed, wr)
         /\ InputBuf \in Nat \ {0}
<1>1. InputBuf \in Nat \ {0}
  BY ConsoleAssumption
<1> QED BY <1>1, IndexFacts DEF Indices, InOrder

LEMMA Views ==
  ASSUME Indices
  PROVE  /\ Between(rd, wr) = Lines /\ Between(wr, ed) = Edited
         /\ Lines \in Seq(Keys) /\ Len(Lines) = Minus(wr, rd)
         /\ Edited \in Seq(Keys) /\ Len(Edited) = Minus(ed, wr)
<1>1. /\ ring \in Rings(InputBuf, Keys) /\ rd \in Index /\ wr \in Index
      /\ Minus(wr, rd) \in Nat /\ Minus(ed, wr) \in Nat
  BY Counts1 DEF Indices
<1>2. Between(rd, wr) = Lines
  BY <1>1, TextIs DEF Between, Lines
<1>3. Between(wr, ed) = Edited
  BY <1>1, TextIs DEF Between, Edited
<1> QED BY <1>1, <1>2, <1>3, TextFacts DEF Lines, Edited

\* What a step shows of the ring it leaves.
LEMMA ViewsAfter ==
  ASSUME Indices'
  PROVE  /\ Between(rd, wr)' = Text(ring', rd', Minus(wr', rd'))
         /\ Between(wr, ed)' = Text(ring', wr', Minus(ed', wr'))
<1>1. /\ rd' \in Index /\ wr' \in Index /\ ed' \in Index /\ InOrder(rd', wr', ed')
  BY DEF Indices, Index, InOrder, Minus
<1>2. InputBuf \in Nat
  BY ConsoleAssumption
<1>3. Minus(wr', rd') \in Nat /\ Minus(ed', wr') \in Nat
  BY <1>1, <1>2, IndexFacts
<1> QED BY <1>1, <1>3, TextIs DEF Between, Minus, Plus

LEMMA PutStep ==
  ASSUME Indices, Unbroken, NEW c \in Keys, Put(c), UNCHANGED rd
  PROVE  Indices' /\ Unbroken' /\ Line!Typed(c)
<1>0. PICK a \in Nat, b \in Nat : a = Minus(wr, rd) /\ b = Minus(ed, wr)
  BY Counts1
<1>1. a + b <= InputBuf /\ Minus(ed, rd) = a + b /\ InputBuf \in Nat \ {0}
  BY <1>0, Counts1
<1>2. /\ ring \in Rings(InputBuf, Keys) /\ rd \in Index /\ wr \in Index /\ ed \in Index
      /\ InOrder(rd, wr, ed)
  BY DEF Indices
<1>3. /\ Between(rd, wr) = Lines /\ Between(wr, ed) = Edited
      /\ Lines \in Seq(Keys) /\ Len(Lines) = a /\ Edited \in Seq(Keys) /\ Len(Edited) = b
  BY <1>0, Views
<1>4. CASE ~RoomLeft
  <2>1. UNCHANGED <<ring, rd, wr, ed>>
    BY <1>4 DEF Put
  <2>2. Indices' /\ Unbroken' /\ UNCHANGED <<Between(rd, wr), Between(wr, ed)>>
    BY <2>1 DEF Indices, Unbroken, Edited, Text, Window, Between, InOrder, Minus, Plus, Rings
  <2>3. Len(Lines) + Len(Edited) >= InputBuf /\ ~(Len(Lines) + Len(Edited) < InputBuf)
    BY <1>1, <1>3, <1>4 DEF RoomLeft
  <2>4. Line!Typed(c)
    BY <1>3, <2>2, <2>3 DEF Line!Typed, Line!vars
  <2> QED BY <2>2, <2>4
<1>5. CASE RoomLeft
  <2> DEFINE e == ring'
             x == ed % InputBuf
             longer == Append(Edited, c)
  <2>1. /\ PutAt(ring, x, c, e) /\ ed' = Plus(ed, 1)
        /\ wr' = IF Commits(c, ed') THEN ed' ELSE wr
        /\ a + b < InputBuf
    BY <1>1, <1>5 DEF Put, RoomLeft, PutAt
  <2>2. ed = Plus(wr, b) /\ ed = Plus(rd, a + b)
    BY <1>0, <1>1, <1>2, IndexFacts
  <2>3. /\ ed' \in Index /\ Minus(ed', wr) = b + 1 /\ Minus(ed', rd) = a + b + 1
        /\ ed' = Plus(rd, InputBuf) <=> a + b + 1 = InputBuf
    BY <1>0, <1>1, <1>2, <2>1, IndexSteps
  <2> HIDE DEF e
  <2>4. e \in Rings(InputBuf, Keys) /\ Text(e, wr, b + 1) = longer
    <3>1. x = Plus(wr, b) % InputBuf /\ b <= b /\ b < InputBuf
      BY <1>1, <2>1, <2>2
    <3> HIDE DEF x
    <3>2. e \in Rings(InputBuf, Keys) /\ Text(e, wr, b + 1) = Append(Text(ring, wr, b), c)
      BY <1>1, <1>2, <2>1, <3>1, PutText
    <3> QED BY <1>0, <3>2 DEF Edited
  <2>5. Text(e, rd, a) = Lines
    <3>1. PICK m \in Nat : m = a + b
      BY <1>1
    <3>2. x = Plus(rd, m) % InputBuf /\ a <= m /\ m < InputBuf
      BY <1>1, <2>1, <2>2, <3>1
    <3> HIDE DEF x
    <3>3. Text(e, rd, a) = Text(ring, rd, a)
      BY <1>1, <1>2, <2>1, <3>2, PutText
    <3> QED BY <1>0, <3>3 DEF Lines
  <2>6. Len(Lines) + Len(longer) = a + b + 1 /\ Len(longer) = b + 1
    BY <1>1, <1>3
  <2>7. CASE Commits(c, ed')
    <3>1. wr' = ed' /\ Minus(wr', rd') = a + b + 1
      BY <2>1, <2>3, <2>7
    <3>2. Minus(ed', wr') = 0 /\ InOrder(rd', wr', ed')
      <4>1. Minus(ed', wr') = 0
        BY <2>3, <3>1, ConsoleAssumption, MinusIs DEF Index
      <4> QED BY <1>1, <2>1, <3>1, <4>1 DEF InOrder
    <3>3. Indices'
      BY <1>2, <2>3, <2>4, <3>1, <3>2 DEF Indices, e, InOrder, Minus, Rings, Index
    <3>4. Between(rd, wr)' = Text(e, rd, a + b + 1) /\ Between(wr, ed)' = Text(e, wr', 0)
      BY <3>1, <3>2, <3>3, ViewsAfter DEF e
    <3>5. Text(e, wr', 0) = <<>>
      BY DEF Text, Window
    <3>6. Text(e, rd, a + b + 1) = Lines \o longer
      <4>1. PICK k \in Nat : k = a + b + 1
        BY <1>1
      <4>2. /\ Text(e, rd, k) \in Seq(Keys) /\ Len(Text(e, rd, k)) = k /\ a \in 0 .. k
            /\ wr = Plus(rd, a)
        <5>1. wr = Plus(rd, a)
          BY <1>0, <1>2, IndexFacts
        <5> QED BY <1>1, <1>2, <2>4, <4>1, <5>1, TextFacts
      <4>3. SubSeq(Text(e, rd, k), 1, a) = Text(e, rd, a)
        BY <1>2, <2>4, <4>2, TextFront
      <4>4. SubSeq(Text(e, rd, k), a + 1, k) = Text(e, wr, k - a)
        BY <1>2, <2>4, <4>2, TextRest
      <4>5. k - a = b + 1
        BY <1>1, <4>1
      <4>6. Text(e, rd, k) = SubSeq(Text(e, rd, k), 1, a) \o SubSeq(Text(e, rd, k), a + 1, k)
        BY <4>2, Rejoin
      <4> QED BY <2>4, <2>5, <4>1, <4>3, <4>4, <4>5, <4>6
    <3>7. Unbroken'
      BY <3>2 DEF Unbroken, Minus
    <3>8. c \in {NewLine, Eof} \/ Len(Lines) + Len(longer) = InputBuf
      BY <2>3, <2>6, <2>7, <2>1 DEF Commits
    <3>9. Line!Typed(c)
      <4>1. Len(Lines) + Len(Edited) < InputBuf /\ ~(Len(Lines) + Len(Edited) >= InputBuf)
        BY <1>1, <1>3, <2>1
      <4> HIDE DEF longer
      <4>2. Between(rd, wr)' = Lines \o longer /\ Between(wr, ed)' = <<>>
        BY <3>4, <3>5, <3>6
      <4> QED BY <1>3, <3>8, <4>1, <4>2 DEF Line!Typed, longer
    <3> QED BY <3>3, <3>7, <3>9
  <2>8. CASE ~Commits(c, ed')
    <3>1. wr' = wr /\ Minus(wr', rd') = a /\ Minus(ed', wr') = b + 1
      BY <1>0, <2>1, <2>3, <2>8
    <3>2. Indices'
      <4>1. InOrder(rd', wr', ed')
        BY <1>1, <2>1, <3>1 DEF InOrder
      <4> QED BY <1>2, <2>3, <2>4, <3>1, <4>1 DEF Indices, e, InOrder, Minus, Rings, Index
    <3>3. Between(rd, wr)' = Lines /\ Between(wr, ed)' = longer
      <4>1. Between(rd, wr)' = Text(e, rd, a) /\ Between(wr, ed)' = Text(e, wr, b + 1)
        BY <3>1, <3>2, ViewsAfter DEF e
      <4> QED BY <2>4, <2>5, <4>1
    <3>4. c \notin {NewLine, Eof} /\ Len(Lines) + Len(longer) # InputBuf
      BY <2>3, <2>6, <2>8, <2>1 DEF Commits
    <3>5. Unbroken'
      <4>1. Edited' = longer
        BY <2>4, <3>1 DEF Edited, Text, Window, e, Minus
      <4>2. \A i \in 1 .. b + 1 : longer[i] # NewLine
        BY <1>0, <1>1, <1>3, <3>4 DEF Unbroken
      <4> QED BY <3>1, <4>1, <4>2 DEF Unbroken, Minus
    <3>6. Line!Typed(c)
      <4>1. ~(Len(Lines) + Len(Edited) >= InputBuf)
        BY <1>1, <1>3, <2>1
      <4> HIDE DEF longer
      <4> QED BY <1>3, <3>3, <3>4, <4>1 DEF Line!Typed, longer
    <3> QED BY <3>2, <3>5, <3>6
  <2> QED BY <2>7, <2>8
<1> QED BY <1>4, <1>5

LEMMA EraseStep ==
  ASSUME Indices, Unbroken, UNCHANGED <<ring, rd, wr>>,
         ed' = IF ed = wr THEN ed ELSE Minus(ed, 1)
  PROVE  /\ Indices' /\ Unbroken' /\ Between(rd, wr)' = Lines
         /\ Between(wr, ed)' = IF Edited = <<>> THEN Edited
                               ELSE SubSeq(Edited, 1, Len(Edited) - 1)
<1>0. PICK a \in Nat, b \in Nat : a = Minus(wr, rd) /\ b = Minus(ed, wr)
  BY Counts1
<1>1. /\ ring \in Rings(InputBuf, Keys) /\ rd \in Index /\ wr \in Index /\ ed \in Index
      /\ InOrder(rd, wr, ed) /\ a + b <= InputBuf /\ InputBuf \in Nat
  BY <1>0, Counts1 DEF Indices
<1>2. Edited \in Seq(Keys) /\ Len(Edited) = b /\ (b = 0 <=> ed = wr)
  BY <1>0, <1>1, Views, IndexFacts
<1>3. PICK m \in 0 .. b : m = IF b = 0 THEN 0 ELSE b - 1
  OBVIOUS
<1>4. ed' \in Index /\ Minus(ed', wr) = m
  BY <1>0, <1>1, <1>2, <1>3, IndexSteps
<1>5. Indices'
  <2>1. InOrder(rd', wr', ed')
    BY <1>0, <1>1, <1>4 DEF InOrder
  <2> QED BY <1>1, <1>4, <2>1 DEF Indices, Rings, Index, InOrder, Minus
<1>6. Edited' = SubSeq(Edited, 1, m)
  <2>1. Edited' = Text(ring, wr, m)
    BY <1>4 DEF Edited, Text, Window, Minus
  <2> QED BY <1>0, <1>1, <2>1, TextFront DEF Edited
<1>7. Unbroken'
  <2>1. \A i \in 1 .. m : SubSeq(Edited, 1, m)[i] = Edited[i]
    BY <1>2
  <2> QED BY <1>0, <1>3, <1>4, <1>6, <2>1 DEF Unbroken, Minus
<1>8. Between(rd, wr)' = Lines
  BY <1>5, ViewsAfter DEF Lines
<1>9. Between(wr, ed)' = Edited'
  BY <1>5, ViewsAfter DEF Edited, Text, Window, Minus
<1>10. SubSeq(Edited, 1, m) = IF Edited = <<>> THEN Edited ELSE SubSeq(Edited, 1, Len(Edited) - 1)
  BY <1>2, <1>3
<1> QED BY <1>5, <1>6, <1>7, <1>8, <1>9, <1>10

\* Nothing of the line is a newline, so ^U takes all of it.
LEMMA KillStep ==
  ASSUME Indices, Unbroken, UNCHANGED <<ring, rd, wr>>, ed' = LineStart
  PROVE  /\ Indices' /\ Unbroken' /\ Between(rd, wr)' = Lines /\ Between(wr, ed)' = <<>>
<1>0. PICK a \in Nat, b \in Nat : a = Minus(wr, rd) /\ b = Minus(ed, wr)
  BY Counts1
<1>1. /\ ring \in Rings(InputBuf, Keys) /\ rd \in Index /\ wr \in Index /\ ed \in Index
      /\ InOrder(rd, wr, ed) /\ a + b <= InputBuf /\ InputBuf \in Nat
  BY <1>0, Counts1 DEF Indices
<1>2. Between(wr, ed) = Edited /\ Edited \in Seq(Keys) /\ Len(Edited) = b
  BY <1>0, Views
<1>3. {i \in DOMAIN Edited : Edited[i] = NewLine} = {}
  BY <1>0, <1>2 DEF Unbroken
<1>4. ed' = wr
  BY <1>2, <1>3 DEF LineStart
<1>5. Minus(ed', wr') = 0
  BY <1>1, <1>4, ConsoleAssumption, MinusIs DEF Index
<1>6. Indices'
  <2>1. InOrder(rd', wr', ed')
    BY <1>0, <1>1, <1>5 DEF InOrder
  <2> QED BY <1>1, <1>4, <2>1 DEF Indices, Rings, Index, InOrder, Minus
<1>7. Unbroken'
  BY <1>5 DEF Unbroken, Minus
<1>8. Between(rd, wr)' = Lines
  BY <1>6, ViewsAfter DEF Lines
<1>9. Between(wr, ed)' = <<>>
  BY <1>5, <1>6, ViewsAfter DEF Text, Window
<1> QED BY <1>6, <1>7, <1>8, <1>9

LEMMA Least ==
  ASSUME NEW S \in SUBSET Nat, S # {}
  PROVE  LET k == CHOOSE i \in S : \A j \in S : i <= j
         IN  k \in S /\ \A j \in S : k <= j
<1> DEFINE less == {ss \in Nat \X Nat : ss[1] < ss[2]}
<1>1. IsWellFoundedOn(less, Nat)
  BY NatLessThanWellFounded DEF OpToRel
<1>2. PICK x \in S : \A y \in S : ~(<<y, x>> \in less)
  BY <1>1, WFMin
<1>3. ASSUME NEW y \in S PROVE x <= y
  <2>1. y \in Nat /\ x \in Nat /\ ~(<<y, x>> \in less)
    BY <1>2
  <2>2. y < x => <<y, x>> \in less
    BY <2>1
  <2> QED BY <2>1, <2>2
<1> QED BY <1>3

\* What consoleread may take of what was committed.
MayTake(m) ==
  /\ \A i \in 1 .. m - 1 : Lines[i] \notin {NewLine, Eof}
  /\ m > 1 => Lines[m] # Eof

LEMMA ConsumeTakes ==
  ASSUME Indices, NEW p \in Readers, NEW n \in Nat, NEW target \in Nat, Consume(p, n, target),
         reader \in [Readers -> Readings]
  PROVE  /\ \E m \in 0 .. Minus(wr, rd) : rd' = Plus(rd, m) /\ MayTake(m)
         /\ reader' \in [Readers -> Readings]
         /\ \A q \in Readers : reader'[q].at = "asleep" => rd' = wr \/ (q # p /\ reader[q] = reader'[q])
<1>0. PICK a \in Nat : a = Minus(wr, rd)
  BY Counts1
<1>1. /\ ring \in Rings(InputBuf, Keys) /\ rd \in Index /\ wr \in Index /\ ed \in Index
      /\ InOrder(rd, wr, ed) /\ InputBuf \in Nat
  BY Counts1 DEF Indices
<1>2. /\ Between(rd, wr) = Lines /\ Lines \in Seq(Keys) /\ Len(Lines) = a
      /\ wr = Plus(rd, a)
  BY <1>0, <1>1, Views, IndexFacts
<1>3. Plus(rd, 0) = rd
  BY <1>1, ConsoleAssumption, PlusIs DEF Index
<1> DEFINE stops == {i \in DOMAIN Lines : Lines[i] \in {NewLine, Eof} \/ i = n}
           k == CHOOSE i \in stops : \A j \in stops : i <= j
           first == n = target
<1>4. stops \in SUBSET Nat /\ stops \subseteq 1 .. a
  BY <1>2
<1>5. Away \in Readings
  BY DEF Away, Readings
<1>6. CASE n = 0
  <2>1. UNCHANGED rd /\ reader' = [reader EXCEPT ![p] = Away]
    BY <1>6 DEF Consume
  <2> QED BY <1>0, <1>3, <1>5, <2>1 DEF MayTake, Away
<1>7. CASE n # 0 /\ stops = {}
  <2> DEFINE nap == [at |-> "asleep", n |-> n - Len(Lines), target |-> target]
  <2>1. /\ rd' = wr
        /\ reader' = [reader EXCEPT ![p] = Away] \/ reader' = [reader EXCEPT ![p] = nap]
    BY <1>2, <1>7 DEF Consume
  <2>2. \A i \in 1 .. a : Lines[i] \notin {NewLine, Eof} /\ i # n
    BY <1>2, <1>7
  <2>3. nap \in Readings
    <3>1. n - Len(Lines) \in Nat
      BY <1>2, <1>7, <2>2
    <3> QED BY <3>1 DEF Readings
  <2> HIDE DEF nap
  <2>4. reader' \in [Readers -> Readings]
    BY <1>5, <2>1, <2>3
  <2>5. MayTake(a)
    BY <2>2 DEF MayTake
  <2>6. a \in 0 .. Minus(wr, rd) /\ rd' = Plus(rd, a)
    <3>1. a \in 0 .. a
      OBVIOUS
    <3> QED BY <1>0, <1>2, <2>1, <3>1
  <2>7. \A q \in Readers : reader'[q].at = "asleep" => rd' = wr \/ (q # p /\ reader[q] = reader'[q])
    BY <2>1
  <2>8. \E m \in 0 .. Minus(wr, rd) : rd' = Plus(rd, m) /\ MayTake(m)
    BY <2>5, <2>6
  <2> QED BY <2>4, <2>7, <2>8
<1>8. CASE n # 0 /\ stops # {}
  <2>1. k \in stops /\ \A j \in stops : k <= j
    BY <1>4, <1>8, Least
  <2>2. /\ rd' = Plus(rd, IF Lines[k] = Eof /\ (k > 1 \/ ~first) THEN k - 1 ELSE k)
        /\ reader' = [reader EXCEPT ![p] = Away]
    BY <1>2, <1>8 DEF Consume
  <2> HIDE DEF k, first
  <2>3. k \in 1 .. a
    BY <1>4, <2>1
  <2>4. \A i \in 1 .. k - 1 : Lines[i] \notin {NewLine, Eof}
    <3> TAKE i \in 1 .. k - 1
    <3>1. i \in DOMAIN Lines /\ i \notin stops
      BY <1>2, <2>1, <2>3
    <3> QED BY <3>1
  <2>5. PICK m \in 0 .. a : m = IF Lines[k] = Eof /\ (k > 1 \/ ~first) THEN k - 1 ELSE k
    BY <2>3
  <2>6. MayTake(m)
    <3>1. \A i \in 1 .. m - 1 : i \in 1 .. k - 1
      BY <2>3, <2>5
    <3>2. m > 1 => Lines[m] # Eof
      BY <2>3, <2>4, <2>5
    <3> QED BY <2>4, <3>1, <3>2 DEF MayTake
  <2>7. reader' \in [Readers -> Readings] /\ \A q \in Readers : reader'[q].at = "asleep" => q # p /\ reader[q] = reader'[q]
    BY <1>5, <2>2 DEF Away
  <2> QED BY <1>0, <2>2, <2>5, <2>6, <2>7
<1> QED BY <1>6, <1>7, <1>8

LEMMA ReadStep ==
  ASSUME ConsoleInv, NEW p \in Readers, NEW n \in Nat, NEW target \in Nat,
         Consume(p, n, target), UNCHANGED <<ring, wr, ed>>
  PROVE  ConsoleInv' /\ [Line!Next]_(Line!vars)
<1>0. PICK a \in Nat : a = Minus(wr, rd)
  BY Counts1 DEF ConsoleInv
<1>1. /\ ring \in Rings(InputBuf, Keys) /\ rd \in Index /\ wr \in Index /\ ed \in Index
      /\ InOrder(rd, wr, ed) /\ InputBuf \in Nat /\ reader \in [Readers -> Readings]
      /\ Minus(ed, wr) \in Nat /\ a + Minus(ed, wr) <= InputBuf /\ Indices
  BY <1>0, Counts1 DEF Indices, ConsoleInv
<1>2. /\ Between(rd, wr) = Lines /\ Lines \in Seq(Keys) /\ Len(Lines) = a
      /\ Between(wr, ed) = Edited /\ (a = 0 <=> wr = rd)
  BY <1>0, <1>1, Views, IndexFacts
<1>3. PICK m \in 0 .. a : rd' = Plus(rd, m) /\ MayTake(m)
  BY <1>0, <1>1, ConsumeTakes
<1>4. rd' \in Index /\ Minus(wr, rd') = a - m
  BY <1>0, <1>1, <1>3, IndexSteps
<1>5. Indices'
  <2>1. InOrder(rd', wr', ed')
    BY <1>1, <1>4 DEF InOrder
  <2> QED BY <1>1, <1>4, <2>1 DEF Indices, Rings, Index, InOrder, Minus
<1>6. Unbroken'
  BY DEF ConsoleInv, Unbroken, Edited, Text, Window, Minus
<1>7. m = 0 => rd' = rd
  BY <1>1, <1>3, ConsoleAssumption, PlusIs DEF Index
<1>8. ConsoleWakesReaders'
  <2> SUFFICES ASSUME NEW q \in Readers, reader'[q].at = "asleep" PROVE rd' = wr'
    BY DEF ConsoleWakesReaders
  <2>1. rd' = wr \/ reader[q].at = "asleep"
    BY <1>1, ConsumeTakes
  <2>2. reader[q].at = "asleep" => rd = wr
    BY DEF ConsoleInv, ConsoleWakesReaders
  <2> QED BY <1>2, <1>3, <1>7, <2>1, <2>2
<1>9. reader' \in [Readers -> Readings]
  BY <1>1, ConsumeTakes
<1>10. Between(wr, ed)' = Edited
  BY <1>5, ViewsAfter DEF Edited
<1>11. Between(rd, wr)' = SubSeq(Lines, m + 1, Len(Lines))
  <2>1. Between(rd, wr)' = Text(ring, Plus(rd, m), a - m)
    BY <1>3, <1>4, <1>5, ViewsAfter
  <2>2. SubSeq(Text(ring, rd, a), m + 1, a) = Text(ring, Plus(rd, m), a - m)
    BY <1>1, TextRest
  <2> QED BY <1>0, <1>2, <2>1, <2>2 DEF Lines
<1>12. CASE m = 0
  <2>1. UNCHANGED <<rd, wr, ed, ring>>
    BY <1>7, <1>12
  <2> QED BY <1>5, <1>6, <1>8, <1>9, <2>1
          DEF ConsoleInv, Line!vars, Between, Minus, Plus
<1>13. CASE m > 0
  <2>1. m \in 1 .. Len(Lines)
    BY <1>2, <1>13
  <2>2. \E k \in 1 .. Len(Between(rd, wr)) : Line!Take(k)
    BY <1>2, <1>3, <1>10, <1>11, <2>1 DEF Line!Take, MayTake
  <2> QED BY <1>5, <1>6, <1>8, <1>9, <2>2 DEF ConsoleInv, Line!Next
<1> QED BY <1>3, <1>12, <1>13

LEMMA KeyStep ==
  ASSUME ConsoleInv, NEW c \in Keys, ConsoleIntr(c)
  PROVE  ConsoleInv' /\ Line!Next
<1>1. /\ Indices /\ Unbroken /\ UNCHANGED rd /\ reader \in [Readers -> Readings]
      /\ Between(rd, wr) = Lines /\ Between(wr, ed) = Edited
  BY Views DEF ConsoleInv, ConsoleIntr
<1>2. NewLine \in Keys /\ KillLine # Erase /\ CarriageReturn \notin {KillLine, Erase}
  BY ConsoleAssumption
<1>3. ASSUME UNCHANGED <<wr, reader>> PROVE reader' \in [Readers -> Readings] /\ ConsoleWakesReaders'
  BY <1>1, <1>3 DEF ConsoleInv, ConsoleWakesReaders
<1>4. ASSUME NEW d \in Keys, Put(d) PROVE reader' \in [Readers -> Readings] /\ ConsoleWakesReaders'
  <2>1. UNCHANGED <<wr, reader>> \/ Wakeup
    BY <1>4 DEF Put
  <2>2. ASSUME Wakeup PROVE /\ reader' \in [Readers -> Readings]
                            /\ \A q \in Readers : reader'[q].at # "asleep"
    BY <1>1, <2>2 DEF Wakeup, Readings
  <2> QED BY <1>3, <2>1, <2>2 DEF ConsoleWakesReaders
<1>5. CASE c = KillLine
  <2>1. UNCHANGED <<ring, rd, wr, reader>> /\ ed' = LineStart
    BY <1>1, <1>2, <1>5 DEF ConsoleIntr
  <2>2. /\ Indices' /\ Unbroken' /\ Between(rd, wr)' = Lines /\ Between(wr, ed)' = <<>>
    BY <1>1, <2>1, KillStep
  <2>3. Line!Key(c)
    BY <1>1, <1>2, <1>5, <2>2 DEF Line!Key
  <2> QED BY <1>3, <2>1, <2>2, <2>3 DEF ConsoleInv, Line!Next
<1>6. CASE c = Erase
  <2>1. UNCHANGED <<ring, rd, wr, reader>> /\ ed' = IF ed = wr THEN ed ELSE Minus(ed, 1)
    BY <1>1, <1>2, <1>6 DEF ConsoleIntr
  <2>2. /\ Indices' /\ Unbroken' /\ Between(rd, wr)' = Lines
        /\ Between(wr, ed)' = IF Edited = <<>> THEN Edited ELSE SubSeq(Edited, 1, Len(Edited) - 1)
    BY <1>1, <2>1, EraseStep
  <2>3. Line!Key(c)
    BY <1>1, <1>2, <1>6, <2>2 DEF Line!Key, Line!Front
  <2> QED BY <1>3, <2>1, <2>2, <2>3 DEF ConsoleInv, Line!Next
<1>7. CASE c = CarriageReturn
  <2>1. Put(NewLine)
    BY <1>2, <1>7 DEF ConsoleIntr
  <2>2. Indices' /\ Unbroken' /\ Line!Typed(NewLine)
    BY <1>1, <1>2, <2>1, PutStep
  <2>3. Line!Key(c)
    BY <1>2, <1>7, <2>2 DEF Line!Key
  <2> QED BY <1>2, <1>4, <2>1, <2>2, <2>3 DEF ConsoleInv, Line!Next
<1>8. CASE c \notin {KillLine, Erase, CarriageReturn}
  <2>1. Put(c)
    BY <1>8 DEF ConsoleIntr
  <2>2. Indices' /\ Unbroken' /\ Line!Typed(c)
    BY <1>1, <2>1, PutStep
  <2>3. Line!Key(c)
    BY <1>8, <2>2 DEF Line!Key
  <2> QED BY <1>4, <2>1, <2>2, <2>3 DEF ConsoleInv, Line!Next
<1> QED BY <1>5, <1>6, <1>7, <1>8

LEMMA ConsoleStep ==
  ConsoleInv /\ [ConsoleNext]_consoleVars => ConsoleInv' /\ [Line!Next]_(Line!vars)
<1> SUFFICES ASSUME ConsoleInv, [ConsoleNext]_consoleVars
             PROVE  ConsoleInv' /\ [Line!Next]_(Line!vars)
  OBVIOUS
<1>1. ASSUME UNCHANGED <<ring, rd, wr, ed>>, reader' \in [Readers -> Readings],
             \A q \in Readers : reader'[q].at = "asleep" => reader[q].at = "asleep"
      PROVE  ConsoleInv' /\ [Line!Next]_(Line!vars)
  BY <1>1 DEF ConsoleInv, Indices, Unbroken, Edited, Text, Window, ConsoleWakesReaders,
     InOrder, Minus, Plus, Rings, Index, Line!vars, Between
<1>2. ASSUME NEW p \in Readers, ConsoleRead(p) PROVE ConsoleInv' /\ [Line!Next]_(Line!vars)
  BY <1>2, ReadStep, ConsoleAssumption DEF ConsoleRead
<1>3. ASSUME NEW p \in Readers, Resumes(p) PROVE ConsoleInv' /\ [Line!Next]_(Line!vars)
  <2>1. reader[p].n \in Nat /\ reader[p].target \in Nat
    BY DEF ConsoleInv, Readings
  <2> QED BY <1>3, <2>1, ReadStep DEF Resumes
<1>4. ASSUME NEW p \in Readers, Killed(p) PROVE ConsoleInv' /\ [Line!Next]_(Line!vars)
  <2>1. reader \in [Readers -> Readings]
    BY DEF ConsoleInv
  <2>2. /\ reader' \in [Readers -> Readings]
        /\ \A q \in Readers : reader'[q].at = "asleep" => reader[q].at = "asleep"
    BY <1>4, <2>1 DEF Killed, Readings
  <2> QED BY <1>1, <1>4, <2>2 DEF Killed
<1>5. ASSUME NEW p \in Readers, Replaced(p) PROVE ConsoleInv' /\ [Line!Next]_(Line!vars)
  BY <1>1, <1>5 DEF Replaced, ConsoleInv
<1>6. CASE UNCHANGED consoleVars
  BY <1>1, <1>6 DEF consoleVars, ConsoleInv
<1> QED BY <1>2, <1>3, <1>4, <1>5, <1>6, KeyStep DEF ConsoleNext

LEMMA InitConsole == ConsoleInit => ConsoleInv /\ Line!Init
<1> SUFFICES ASSUME ConsoleInit PROVE ConsoleInv /\ Line!Init
  OBVIOUS
<1>1. /\ InputBuf \in Nat \ {0} /\ Wrap \in Nat \ {0} /\ NewLine \in Keys
      /\ 0 \in 0 .. Wrap - 1
  BY ConsoleAssumption
<1>2. Minus(0, 0) = 0
  BY <1>1, MinusIs
<1>3. Indices
  BY <1>1, <1>2 DEF ConsoleInit, Indices, Index, InOrder, Rings
<1>4. reader \in [Readers -> Readings] /\ ConsoleWakesReaders
  BY DEF ConsoleInit, Away, Readings, ConsoleWakesReaders
<1>5. Unbroken
  BY <1>2 DEF ConsoleInit, Unbroken
<1>6. Lines = <<>> /\ Edited = <<>>
  BY <1>2 DEF Lines, Edited, Text, Window, ConsoleInit
<1>7. Line!Init
  BY <1>3, <1>6, Views DEF Line!Init
<1> QED BY <1>3, <1>4, <1>5, <1>7 DEF ConsoleInv

(* The console's ring and its three indices, over every wrap, are an edited *)
(* line and a queue of committed characters (console.c:191-285).            *)
THEOREM ConsoleRefined == ConsoleSpec => ConsoleIsTerminal
BY InitConsole, ConsoleStep, PTL DEF ConsoleSpec, ConsoleIsTerminal, Line!Spec

(* No reader sleeps while there is something to read (console.c:224, 264).  *)
THEOREM ConsoleWakes == ConsoleSpec => []ConsoleWakesReaders
<1>1. ConsoleInv => ConsoleWakesReaders
  BY DEF ConsoleInv
<1> QED BY <1>1, InitConsole, ConsoleStep, PTL DEF ConsoleSpec

-----------------------------------------------------------------------------
(* Spinlocks, for any processors, threads and locks.                       *)

Labels == {"run", "test", "spin", "took", "clear", "pop"}
Saved == [mode : Modes, under : Modes, intena : BOOLEAN]

SpinType ==
  /\ flag \in [CPUs -> BOOLEAN] /\ ncli \in [CPUs -> Int] /\ intena \in [CPUs -> BOOLEAN]
  /\ locked \in [Locks -> BOOLEAN] /\ owner \in [Locks -> CPUs \cup {Nobody}]
  /\ pc \in [CPUs -> Labels] /\ want \in [CPUs -> Locks \cup {Nobody}]
  /\ held \in [CPUs -> SUBSET Locks]
  /\ on \in [CPUs -> Threads \cup {Nobody}]
  /\ mode \in [CPUs -> Modes] /\ under \in [CPUs -> Modes]
  /\ parked \in [Threads -> Saved \cup {Nobody}]

(* The lock a processor is getting, or giving back.                        *)
WantOK ==
  \A c \in CPUs : /\ pc[c] \in {"test", "spin"} => want[c] \in Locks \ held[c]
                  /\ pc[c] \in {"took", "clear"} => want[c] \in held[c]

(* The word that xchg changes and the owner beside it are about the locks  *)
(* that are held, except between the two assignments.                      *)
LockOK ==
  /\ \A l \in Locks : locked[l] <=> \E c \in CPUs : l \in held[c]
  /\ SpinExclusive
OwnerOK ==
  \A c \in CPUs, l \in Locks :
    owner[l] = c <=> l \in held[c] /\ ~(pc[c] \in {"took", "clear"} /\ want[c] = l)

LockInv == SpinType /\ WantOK /\ LockOK /\ OwnerOK

LEMMA InitLockInv == SpinInit => LockInv
<1> SUFFICES ASSUME SpinInit PROVE LockInv
  OBVIOUS
<1> USE SpinAssumption DEF SpinInit
<1>1. SpinType
  BY DEF SpinType, Labels, Modes, Saved
<1>2. WantOK /\ OwnerOK
  BY DEF WantOK, OwnerOK
<1>3. LockOK
  BY DEF LockOK, SpinExclusive
<1> QED BY <1>1, <1>2, <1>3 DEF LockInv

LEMMA NextType == SpinType /\ WantOK /\ [SpinNext]_spinVars => SpinType'
<1> SUFFICES ASSUME SpinType, WantOK, [SpinNext]_spinVars PROVE SpinType'
  OBVIOUS
<1> USE SpinAssumption
    DEF SpinType, Labels, Modes, Saved, At, switchVars, Panic
<1>1. ASSUME NEW c \in CPUs, NEW l \in Locks, Pushcli(c, l) PROVE SpinType'
  BY <1>1 DEF Pushcli, PushedFlag
<1>2. ASSUME NEW c \in CPUs, TestHolding(c) PROVE SpinType'
  BY <1>2 DEF TestHolding
<1>3. ASSUME NEW c \in CPUs, Xchg(c) PROVE SpinType'
  BY <1>3 DEF Xchg, WantOK
<1>4. ASSUME NEW c \in CPUs, Acquired(c) PROVE SpinType'
  BY <1>4 DEF Acquired
<1>5. ASSUME NEW c \in CPUs, NEW l \in Locks, Disown(c, l) PROVE SpinType'
  BY <1>5 DEF Disown
<1>6. ASSUME NEW c \in CPUs, Unlock(c) PROVE SpinType'
  BY <1>6 DEF Unlock
<1>7. ASSUME NEW c \in CPUs, Popcli(c) PROVE SpinType'
  BY <1>7 DEF Popcli, Restores
<1>8. ASSUME NEW c \in CPUs, Interrupt(c) PROVE SpinType'
  BY <1>8 DEF Interrupt
<1>9. ASSUME NEW c \in CPUs, Return(c) PROVE SpinType'
  BY <1>9 DEF Return
<1>10. ASSUME NEW c \in CPUs, Sti(c) PROVE SpinType'
  BY <1>10 DEF Sti
<1>11. ASSUME NEW c \in CPUs, Leave(c) PROVE SpinType'
  <2>1. on[c] \in Threads
    BY <1>11 DEF Leave
  <2> QED BY <1>11, <2>1 DEF Leave
<1>12. ASSUME NEW c \in CPUs, NEW t \in Threads, Resume(c, t) PROVE SpinType'
  <2>1. parked[t] \in Saved
    BY <1>12 DEF Resume
  <2> QED BY <1>12, <2>1 DEF Resume, Resumed
<1>13. CASE UNCHANGED spinVars
  BY <1>13 DEF spinVars
<1> QED
  BY <1>1, <1>2, <1>3, <1>4, <1>5, <1>6, <1>7, <1>8, <1>9, <1>10, <1>11, <1>12, <1>13
     DEF SpinNext

lockVars == <<locked, owner, pc, want, held>>

LEMMA XchgLockInv ==
  ASSUME LockInv, SpinType', NEW c \in CPUs, Xchg(c) PROVE LockInv'
<1> DEFINE l == want[c]
<1>1. /\ l \in Locks /\ l \notin held[c] /\ ~locked[l] /\ pc[c] = "spin"
      /\ locked' = [locked EXCEPT ![l] = TRUE]
      /\ held' = [held EXCEPT ![c] = @ \cup {l}]
      /\ pc' = [pc EXCEPT ![c] = "took"]
      /\ UNCHANGED <<owner, want>>
  BY DEF Xchg, Swaps, At, LockInv, WantOK
<1>2. /\ locked \in [Locks -> BOOLEAN] /\ held \in [CPUs -> SUBSET Locks]
      /\ pc \in [CPUs -> Labels]
  BY DEF LockInv, SpinType
<1>3. \A d \in CPUs : l \notin held[d]
  BY <1>1 DEF LockInv, LockOK
<1>4. \A d \in CPUs : owner[l] # d
  BY <1>1, <1>3 DEF LockInv, OwnerOK
<1>5. /\ held'[c] = held[c] \cup {l} /\ pc'[c] = "took" /\ want'[c] = l
      /\ \A d \in CPUs : d # c => held'[d] = held[d] /\ pc'[d] = pc[d] /\ want'[d] = want[d]
  BY <1>1, <1>2
<1> HIDE DEF l
<1>6. WantOK'
  BY <1>5 DEF LockInv, WantOK
<1>7. LockOK'
  <2>1. SpinExclusive'
    BY <1>3, <1>5 DEF LockInv, LockOK, SpinExclusive
  <2>2. ASSUME NEW m \in Locks PROVE locked'[m] <=> \E d \in CPUs : m \in held'[d]
    <3>1. CASE m = l
      BY <3>1, <1>1, <1>2, <1>5
    <3>2. CASE m # l
      <4>1. \A d \in CPUs : m \in held'[d] <=> m \in held[d]
        BY <3>2, <1>5
      <4>2. locked'[m] = locked[m]
        BY <3>2, <1>1, <1>2
      <4> QED BY <4>1, <4>2 DEF LockInv, LockOK
    <3> QED BY <3>1, <3>2
  <2> QED BY <2>1, <2>2 DEF LockOK
<1>8. OwnerOK'
  <2> SUFFICES ASSUME NEW d \in CPUs, NEW m \in Locks
               PROVE owner[m] = d <=>
                       m \in held'[d] /\ ~(pc'[d] \in {"took", "clear"} /\ want'[d] = m)
    BY <1>1 DEF OwnerOK
  <2>1. owner[m] = d <=> m \in held[d] /\ ~(pc[d] \in {"took", "clear"} /\ want[d] = m)
    BY DEF LockInv, OwnerOK
  <2>2. CASE d = c
    BY <2>1, <2>2, <1>1, <1>4, <1>5
  <2>3. CASE d # c
    BY <2>1, <2>3, <1>5
  <2> QED BY <2>2, <2>3
<1> QED BY <1>6, <1>7, <1>8 DEF LockInv

LEMMA NextLockInv == LockInv /\ [SpinNext]_spinVars => LockInv'
<1> SUFFICES ASSUME LockInv, [SpinNext]_spinVars PROVE LockInv'
  OBVIOUS
<1>0. SpinType'
  BY NextType DEF LockInv
<1> USE <1>0, SpinAssumption
    DEF LockInv, SpinType, Labels, At, switchVars, Panic, WantOK, LockOK, OwnerOK, SpinExclusive
<1>1. ASSUME NEW c \in CPUs, NEW l \in Locks, Pushcli(c, l) PROVE LockInv'
  <2>1. l \notin held[c]
    BY <1>1 DEF Pushcli
  <2> QED BY <1>1, <2>1 DEF Pushcli
<1>2. ASSUME NEW c \in CPUs, TestHolding(c) PROVE LockInv'
  <2>1. CASE UNCHANGED <<locked, owner, pc, want, held>>
    BY <2>1
  <2>2. CASE /\ pc[c] = "test" /\ pc' = [pc EXCEPT ![c] = "spin"]
             /\ UNCHANGED <<locked, owner, want, held>>
    BY <2>2
  <2> QED BY <1>2, <2>1, <2>2 DEF TestHolding
<1>3. ASSUME NEW c \in CPUs, Xchg(c) PROVE LockInv'
  BY <1>3, XchgLockInv
<1>4. ASSUME NEW c \in CPUs, Acquired(c) PROVE LockInv'
  BY <1>4 DEF Acquired
<1>5. ASSUME NEW c \in CPUs, NEW l \in Locks, Disown(c, l) PROVE LockInv'
  BY <1>5 DEF Disown
<1>6. ASSUME NEW c \in CPUs, Unlock(c) PROVE LockInv'
  BY <1>6 DEF Unlock
<1>7. ASSUME NEW c \in CPUs, Popcli(c) PROVE LockInv'
  BY <1>7 DEF Popcli
<1>8. CASE UNCHANGED lockVars
  BY <1>8 DEF lockVars
<1>9. ASSUME NEW c \in CPUs,
             Interrupt(c) \/ Return(c) \/ Sti(c) \/ Leave(c) \/ \E t \in Threads : Resume(c, t)
      PROVE UNCHANGED lockVars
  BY <1>9 DEF Interrupt, Return, Sti, Leave, Resume, lockVars
<1> QED
  BY <1>1, <1>2, <1>3, <1>4, <1>5, <1>6, <1>7, <1>8, <1>9 DEF SpinNext, spinVars, lockVars

(* Mutual exclusion of acquire and release, for every value of the         *)
(* constants (spinlock.c:25-71).                                           *)
THEOREM MutualExclusion == SpinSpec => []SpinExclusive
<1>1. LockInv => SpinExclusive
  BY DEF LockInv, LockOK
<1> QED BY InitLockInv, NextLockInv, <1>1, PTL DEF SpinSpec

-----------------------------------------------------------------------------
Pushed(c) == IF pc[c] \in {"test", "spin", "pop"} THEN 1 ELSE 0

(* pushcli and popcli count the locks, and the one that is being taken or  *)
(* was just given back.                                                    *)
CountOK == \A c \in CPUs : ncli[c] = Cardinality(held[c]) + Pushed(c)

(* Where interrupts are on, and where popcli will turn them on again: for  *)
(* a thread in its own code, on the processor or parked, never for a       *)
(* handler.                                                                *)
FlagOK ==
  /\ \A c \in CPUs : flag[c] => ncli[c] = 0 /\ mode[c] # "handler"
  /\ \A c \in CPUs : mode[c] = "handler" /\ ncli[c] # 0 => ~intena[c]
  /\ \A c \in CPUs : on[c] # Nobody /\ mode[c] = "kernel" =>
       (IF ncli[c] = 0 THEN flag[c] ELSE intena[c])
  /\ \A c \in CPUs : under[c] # "handler"
ParkedOK ==
  \A t \in Threads : parked[t] # Nobody =>
    /\ parked[t].mode = "handler" => ~parked[t].intena
    /\ parked[t].mode = "kernel" => parked[t].intena
    /\ parked[t].under # "handler"

FlagInv == CountOK /\ FlagOK /\ ParkedOK /\ broken = Nobody

(* What a count of 0 means, and what is left to a count of 1.              *)
LEMMA NcliFacts ==
  ASSUME LockInv, CountOK, NEW c \in CPUs
  PROVE  /\ IsFiniteSet(held[c]) /\ Cardinality(held[c]) \in Nat
         /\ ncli[c] = 0 => held[c] = {} /\ pc[c] = "run"
         /\ held[c] = {PtableLock} /\ pc[c] = "run" => ncli[c] = 1
         /\ held[c] = {} /\ pc[c] = "run" => ncli[c] = 0
         /\ pc[c] = "pop" => ncli[c] >= 1
<1>1. held[c] \in SUBSET Locks /\ pc[c] \in Labels
  BY DEF LockInv, SpinType
<1>2. IsFiniteSet(held[c])
  BY <1>1, FS_Subset, SpinAssumption
<1>3. Cardinality(held[c]) \in Nat
  BY <1>2, FS_CardinalityType
<1>4. Cardinality(held[c]) = 0 <=> held[c] = {}
  BY <1>2, FS_EmptySet
<1>5. Cardinality({PtableLock}) = 1
  BY FS_Singleton
<1>6. ncli[c] = Cardinality(held[c]) + Pushed(c)
  BY DEF CountOK
<1>7. pc[c] \in {"took", "clear"} => held[c] # {}
  BY DEF LockInv, WantOK
<1> QED BY <1>1, <1>2, <1>3, <1>4, <1>5, <1>6, <1>7 DEF Pushed, Labels

LEMMA InitFlagInv == SpinInit => FlagInv
<1> SUFFICES ASSUME SpinInit PROVE FlagInv
  OBVIOUS
<1> USE SpinAssumption DEF SpinInit
<1>1. CountOK
  BY FS_EmptySet DEF CountOK, Pushed
<1>2. FlagOK /\ ParkedOK
  BY DEF FlagOK, ParkedOK
<1> QED BY <1>1, <1>2 DEF FlagInv

(* The count through every step.                                           *)
LEMMA NextCount == LockInv /\ CountOK /\ [SpinNext]_spinVars => CountOK'
<1> SUFFICES ASSUME LockInv, CountOK, [SpinNext]_spinVars, NEW d \in CPUs
             PROVE ncli'[d] = Cardinality(held'[d]) + Pushed(d)'
  BY DEF CountOK
<1>1. /\ ncli \in [CPUs -> Int] /\ held \in [CPUs -> SUBSET Locks] /\ pc \in [CPUs -> Labels]
  BY DEF LockInv, SpinType
<1>2. /\ IsFiniteSet(held[d]) /\ Cardinality(held[d]) \in Nat
      /\ ncli[d] = Cardinality(held[d]) + Pushed(d)
  BY NcliFacts DEF CountOK
<1> USE DEF At, switchVars, Panic, Pushed, Labels
<1>3. ASSUME NEW c \in CPUs, NEW l \in Locks, Pushcli(c, l)
      PROVE ncli'[d] = Cardinality(held'[d]) + Pushed(d)'
  BY <1>1, <1>2, <1>3 DEF Pushcli
<1>4. ASSUME NEW c \in CPUs, TestHolding(c)
      PROVE ncli'[d] = Cardinality(held'[d]) + Pushed(d)'
  BY <1>1, <1>2, <1>4 DEF TestHolding
<1>5. ASSUME NEW c \in CPUs, Xchg(c)
      PROVE ncli'[d] = Cardinality(held'[d]) + Pushed(d)'
  <2>1. want[c] \notin held[c]
    BY <1>5 DEF Xchg, LockInv, WantOK
  <2>2. CASE d = c
    <3>1. Cardinality(held[d] \cup {want[c]}) = Cardinality(held[d]) + 1
      BY <1>2, <2>1, <2>2, FS_AddElement
    <3> QED BY <1>1, <1>2, <1>5, <2>2, <3>1 DEF Xchg
  <2>3. CASE d # c
    BY <1>1, <1>2, <1>5, <2>3 DEF Xchg
  <2> QED BY <2>2, <2>3
<1>6. ASSUME NEW c \in CPUs, Acquired(c)
      PROVE ncli'[d] = Cardinality(held'[d]) + Pushed(d)'
  BY <1>1, <1>2, <1>6 DEF Acquired
<1>7. ASSUME NEW c \in CPUs, NEW l \in Locks, Disown(c, l)
      PROVE ncli'[d] = Cardinality(held'[d]) + Pushed(d)'
  BY <1>1, <1>2, <1>7 DEF Disown
<1>8. ASSUME NEW c \in CPUs, Unlock(c)
      PROVE ncli'[d] = Cardinality(held'[d]) + Pushed(d)'
  <2>1. want[c] \in held[c]
    BY <1>8 DEF Unlock, LockInv, WantOK
  <2>2. CASE d = c
    <3>1. Cardinality(held[d] \ {want[c]}) = Cardinality(held[d]) - 1
      BY <1>2, <2>1, <2>2, FS_RemoveElement
    <3> QED BY <1>1, <1>2, <1>8, <2>2, <3>1 DEF Unlock
  <2>3. CASE d # c
    BY <1>1, <1>2, <1>8, <2>3 DEF Unlock
  <2> QED BY <2>2, <2>3
<1>9. ASSUME NEW c \in CPUs, Popcli(c)
      PROVE ncli'[d] = Cardinality(held'[d]) + Pushed(d)'
  BY <1>1, <1>2, <1>9 DEF Popcli
<1>10. CASE UNCHANGED <<ncli, pc, held>>
  BY <1>2, <1>10
<1>11. ASSUME NEW c \in CPUs,
              Interrupt(c) \/ Return(c) \/ Sti(c) \/ Leave(c) \/ \E t \in Threads : Resume(c, t)
       PROVE UNCHANGED <<ncli, pc, held>>
  BY <1>11 DEF Interrupt, Return, Sti, Leave, Resume
<1> QED
  BY <1>3, <1>4, <1>5, <1>6, <1>7, <1>8, <1>9, <1>10, <1>11 DEF SpinNext, spinVars

(* None of the four panics.                                                *)
LEMMA NextUnbroken == LockInv /\ FlagInv /\ [SpinNext]_spinVars => broken' = Nobody
<1> SUFFICES ASSUME LockInv, FlagInv, [SpinNext]_spinVars PROVE broken' = Nobody
  OBVIOUS
<1> USE DEF FlagInv, At, Panic
<1>1. ASSUME NEW c \in CPUs, TestHolding(c) PROVE broken' = Nobody
  <2>1. want[c] \in Locks \ held[c]
    BY <1>1 DEF TestHolding, LockInv, WantOK
  <2>2. ~Holding(c, want[c])
    BY <2>1 DEF Holding, LockInv, OwnerOK
  <2> QED BY <1>1, <2>2 DEF TestHolding
<1>2. ASSUME NEW c \in CPUs, NEW l \in Locks, Disown(c, l) PROVE broken' = Nobody
  <2>1. l \in held[c] /\ pc[c] = "run"
    BY <1>2 DEF Disown
  <2>2. Holding(c, l)
    BY <2>1 DEF Holding, LockInv, LockOK, OwnerOK
  <2> QED BY <1>2, <2>2 DEF Disown
<1>3. ASSUME NEW c \in CPUs, Popcli(c) PROVE broken' = Nobody
  <2>1. ncli[c] >= 1 /\ ncli[c] \in Int
    BY <1>3, NcliFacts DEF Popcli, LockInv, SpinType
  <2>2. ~flag[c]
    BY <2>1 DEF FlagOK
  <2> QED BY <1>3, <2>1, <2>2 DEF Popcli
<1>4. ASSUME NEW c \in CPUs, Leave(c) PROVE broken' = Nobody
  <2>1. held[c] = {PtableLock} /\ pc[c] = "run"
    BY <1>4 DEF Leave
  <2>2. ncli[c] = 1
    BY <2>1, NcliFacts
  <2>3. ~flag[c]
    BY <2>2 DEF FlagOK
  <2>4. Holding(c, PtableLock)
    BY <2>1, SpinAssumption DEF Holding, LockInv, LockOK, OwnerOK
  <2> QED BY <1>4, <2>2, <2>3, <2>4 DEF Leave
<1>5. CASE UNCHANGED broken
  BY <1>5
<1> QED
  BY <1>1, <1>2, <1>3, <1>4, <1>5
     DEF SpinNext, spinVars, Pushcli, Xchg, Acquired, Unlock, Interrupt, Return, Sti, Resume

(* Interrupts through every step.                                          *)
LEMMA NextFlag ==
  LockInv /\ FlagInv /\ CountOK' /\ broken' = Nobody /\ [SpinNext]_spinVars
    => FlagOK' /\ ParkedOK'
<1> SUFFICES ASSUME LockInv, FlagInv, broken' = Nobody, [SpinNext]_spinVars
             PROVE FlagOK' /\ ParkedOK'
  OBVIOUS
<1>0. SpinType /\ FlagOK /\ ParkedOK /\ CountOK
  BY DEF LockInv, FlagInv
<1> USE <1>0, SpinAssumption
    DEF SpinType, Modes, At, switchVars, Panic, FlagOK, ParkedOK, Scheduling
<1>1. ASSUME NEW c \in CPUs, NEW l \in Locks, Pushcli(c, l) PROVE FlagOK' /\ ParkedOK'
  <2>1. ncli[c] >= 0
    BY NcliFacts DEF CountOK, Pushed
  <2> QED BY <1>1, <2>1 DEF Pushcli, PushedFlag
<1>2. ASSUME NEW c \in CPUs, Popcli(c) PROVE FlagOK' /\ ParkedOK'
  <2>1. ncli[c] >= 1
    BY <1>2, NcliFacts DEF Popcli
  <2>2. /\ ncli' = [ncli EXCEPT ![c] = @ - 1]
        /\ flag' = [flag EXCEPT ![c] = Restores(c)]
        /\ UNCHANGED <<intena, on, mode, under, parked>>
    BY <1>2, <2>1 DEF Popcli
  <2> QED BY <2>1, <2>2 DEF Restores
<1>3. ASSUME NEW c \in CPUs, Interrupt(c) PROVE FlagOK' /\ ParkedOK'
  BY <1>3 DEF Interrupt
<1>4. ASSUME NEW c \in CPUs, Return(c) PROVE FlagOK' /\ ParkedOK'
  <2>1. ncli[c] = 0
    BY <1>4, NcliFacts DEF Return
  <2> QED BY <1>4, <2>1 DEF Return
<1>5. ASSUME NEW c \in CPUs, Sti(c) PROVE FlagOK' /\ ParkedOK'
  <2>1. ncli[c] = 0
    BY <1>5, NcliFacts DEF Sti
  <2> QED BY <1>5, <2>1 DEF Sti
<1>6. ASSUME NEW c \in CPUs, Leave(c) PROVE FlagOK' /\ ParkedOK'
  <2>1. ncli[c] = 1 /\ on[c] \in Threads /\ broken = Nobody
    BY <1>6, NcliFacts DEF Leave
  <2>2. /\ parked' = [parked EXCEPT ![on[c]] =
             [mode |-> mode[c], under |-> under[c], intena |-> intena[c]]]
        /\ on' = [on EXCEPT ![c] = Nobody]
        /\ mode' = [mode EXCEPT ![c] = "back"] /\ under' = [under EXCEPT ![c] = "kernel"]
        /\ UNCHANGED <<flag, ncli, intena>>
    <3>1. held[c] = {PtableLock} /\ pc[c] = "run"
      BY <1>6 DEF Leave
    <3>2. Holding(c, PtableLock)
      BY <3>1 DEF Holding, LockInv, LockOK, OwnerOK
    <3> QED BY <1>6, <2>1, <3>2 DEF Leave
  <2>3. FlagOK'
    BY <2>1, <2>2
  <2>4. ParkedOK'
    BY <2>1, <2>2
  <2> QED BY <2>3, <2>4
<1>7. ASSUME NEW c \in CPUs, NEW t \in Threads, Resume(c, t) PROVE FlagOK' /\ ParkedOK'
  <2>1. ncli[c] = 1
    BY <1>7, NcliFacts DEF Resume
  <2>2. parked[t] # Nobody /\ parked[t] \in Saved
    BY <1>7 DEF Resume
  <2>3. FlagOK'
    BY <1>7, <2>1, <2>2 DEF Resume, Resumed, Saved
  <2>4. ParkedOK'
    BY <1>7 DEF Resume
  <2> QED BY <2>3, <2>4
<1>8. CASE UNCHANGED <<flag, ncli, intena, on, mode, under, parked>>
  BY <1>8
<1>9. ASSUME NEW c \in CPUs,
             \/ TestHolding(c) \/ Xchg(c) \/ Acquired(c) \/ Unlock(c)
             \/ \E l \in Locks : Disown(c, l)
      PROVE UNCHANGED <<flag, ncli, intena, on, mode, under, parked>>
  BY <1>9 DEF TestHolding, Xchg, Acquired, Unlock, Disown
<1> QED
  BY <1>1, <1>2, <1>3, <1>4, <1>5, <1>6, <1>7, <1>8, <1>9 DEF SpinNext, spinVars

SpinInv == LockInv /\ FlagInv

LEMMA SpinInvariant == SpinSpec => []SpinInv
<1>1. SpinInit => SpinInv
  BY InitLockInv, InitFlagInv DEF SpinInv
<1>2. SpinInv /\ [SpinNext]_spinVars => SpinInv'
  BY NextLockInv, NextCount, NextUnbroken, NextFlag DEF SpinInv, FlagInv
<1> QED BY <1>1, <1>2, PTL DEF SpinSpec

(* No interrupt while a lock is held, no panic, and a thread gets its      *)
(* interrupts back on whatever processor it is resumed                     *)
(* (spinlock.c:25-126, proc.c:433-455).                                    *)
THEOREM FlagCorrect == SpinSpec => []SpinFlagSound
<1>1. SpinInv => SpinQuiet
  <2> SUFFICES ASSUME SpinInv, NEW c \in CPUs, flag[c]
               PROVE held[c] = {} /\ pc[c] = "run" /\ mode[c] # "handler"
    BY DEF SpinQuiet, SpinInv, FlagInv
  <2> QED BY NcliFacts DEF SpinInv, FlagInv, FlagOK
<1>2. SpinInv => SpinFlagRestored
  BY NcliFacts DEF SpinInv, FlagInv, FlagOK, SpinFlagRestored
<1>3. SpinInv => SpinFlagSound
  BY <1>1, <1>2 DEF SpinFlagSound
<1> QED BY SpinInvariant, <1>3, PTL
=============================================================================
