------------------------------- MODULE Console -------------------------------
(***************************************************************************)
(* The input side of the xv6 console (console.c): consoleintr puts the     *)
(* keys into a ring with three indices, consoleread takes lines out of it. *)
(* Both work under cons.lock, so a step is what one key does, or what a    *)
(* reader does until it sleeps or returns.  The echo is left out.          *)
(***************************************************************************)
EXTENDS Integers, Sequences, FiniteSets, SequencesExt

CONSTANTS Readers,
          InputBuf,   \* INPUT_BUF, which divides Wrap
          Wrap,       \* of an unsigned int
          Keys,       \* what getc returns, the five below among it
          NewLine, CarriageReturn, Eof, KillLine, Erase,
          Counts,     \* what consoleread is asked for
          MaxKeys     \* bound on the keys pressed

ASSUME ConsoleAssumption ==
  /\ {InputBuf, Wrap} \subseteq Nat \ {0} /\ Wrap % InputBuf = 0 /\ InputBuf < Wrap
  /\ {NewLine, CarriageReturn, Eof, KillLine, Erase} \subseteq Keys
  /\ KillLine \notin {NewLine, CarriageReturn, Eof, Erase}
  /\ Erase \notin {NewLine, CarriageReturn, Eof} /\ CarriageReturn \notin {NewLine, Eof}
  /\ Counts \subseteq Nat /\ MaxKeys \in Nat

VARIABLES ring,     \* input.buf
          rd, wr, ed,  \* input.r, input.w and input.e
          reader,   \* of each process: where it is, what is left of n, target
          hit,      \* processes that are killed
          pressed

consoleVars == <<ring, rd, wr, ed, reader, hit, pressed>>

Away == [at |-> "away", n |-> 0, target |-> 0]

ConsoleInit ==
  /\ ring = [i \in 0 .. InputBuf - 1 |-> NewLine]
  /\ rd = 0 /\ wr = 0 /\ ed = 0
  /\ reader = [p \in Readers |-> Away]
  /\ hit = {} /\ pressed = 0

Minus(a, b) == (a - b) % Wrap
Plus(a, b) == (a + b) % Wrap

\* The characters from index a up to b.
Between(a, b) == [i \in 1 .. Minus(b, a) |-> ring[Plus(a, i - 1) % InputBuf]]

\* Mutant: the first sleeper is enough.
WakeOne ==
  LET asleep == {p \in Readers : reader[p].at = "asleep"}
  IN reader' = IF asleep = {} THEN reader
               ELSE [reader EXCEPT ![CHOOSE p \in asleep : TRUE].at = "awake"]

Wakeup == reader' = [p \in Readers |->
                       IF reader[p].at = "asleep" THEN [reader[p] EXCEPT !.at = "awake"]
                       ELSE reader[p]]

----------------------------------------------------------------------------
\* consoleintr, one key.
RoomInLine == Minus(ed, wr) < InputBuf   \* Mutant: what is not read is not counted.

RoomLeft == Minus(ed, rd) < InputBuf

EndsLine(c, e) == c = NewLine   \* Mutant: a full buffer wakes nobody.

Commits(c, e) == c \in {NewLine, Eof} \/ e = Plus(rd, InputBuf)

Put(c) ==
  IF RoomLeft
  THEN /\ ring' = [ring EXCEPT ![ed % InputBuf] = c]
       /\ ed' = Plus(ed, 1)
       /\ IF Commits(c, Plus(ed, 1)) THEN wr' = Plus(ed, 1) /\ Wakeup
          ELSE UNCHANGED <<wr, reader>>
  ELSE UNCHANGED <<ring, ed, wr, reader>>

\* Back to the character after the last newline, or to what is committed.
LineStart ==
  LET line == Between(wr, ed)
      ends == {i \in DOMAIN line : line[i] = NewLine}
  IN IF ends = {} THEN wr
     ELSE Plus(wr, CHOOSE i \in ends : \A j \in ends : j <= i)

ConsoleIntr(c) ==
  /\ pressed < MaxKeys /\ pressed' = pressed + 1
  /\ CASE c = KillLine -> ed' = LineStart /\ UNCHANGED <<ring, wr, reader>>
       [] c = Erase -> /\ ed' = IF ed = wr THEN ed ELSE Minus(ed, 1)
                       /\ UNCHANGED <<ring, wr, reader>>
       [] c = CarriageReturn -> Put(NewLine)
       [] OTHER -> Put(c)
  /\ UNCHANGED <<rd, hit>>

----------------------------------------------------------------------------
\* consoleread with n characters to go.
Consume(p, n, target) ==
  LET there == Between(rd, wr)
      stops == {i \in DOMAIN there : there[i] \in {NewLine, Eof} \/ i = n}
      k == CHOOSE i \in stops : \A j \in stops : i <= j
      first == n = target
  IN CASE n = 0 -> UNCHANGED rd /\ reader' = [reader EXCEPT ![p] = Away]
       [] n # 0 /\ stops = {} /\ p \notin hit ->
            /\ rd' = wr
            /\ reader' = [reader EXCEPT ![p] =
                 [at |-> "asleep", n |-> n - Len(there), target |-> target]]
       [] n # 0 /\ stops = {} /\ p \in hit ->
            rd' = wr /\ reader' = [reader EXCEPT ![p] = Away]
       [] OTHER ->
            /\ rd' = Plus(rd, IF there[k] = Eof /\ (k > 1 \/ ~first) THEN k - 1 ELSE k)
            /\ reader' = [reader EXCEPT ![p] = Away]

ConsoleRead(p) ==
  /\ reader[p].at = "away"
  /\ \E n \in Counts : Consume(p, n, n)
  /\ UNCHANGED <<ring, wr, ed, hit, pressed>>

Resumes(p) ==
  /\ reader[p].at = "awake"
  /\ Consume(p, reader[p].n, reader[p].target)
  /\ UNCHANGED <<ring, wr, ed, hit, pressed>>

\* kill wakes a sleeper; the process is replaced by another when it is gone.
Killed(p) ==
  /\ p \notin hit /\ hit' = hit \cup {p}
  /\ reader' = [reader EXCEPT ![p].at = IF @ = "asleep" THEN "awake" ELSE @]
  /\ UNCHANGED <<ring, rd, wr, ed, pressed>>

Replaced(p) ==
  /\ p \in hit /\ reader[p].at = "away"
  /\ hit' = hit \ {p}
  /\ UNCHANGED <<ring, rd, wr, ed, reader, pressed>>

ConsoleNext ==
  \/ \E c \in Keys : ConsoleIntr(c)
  \/ \E p \in Readers : ConsoleRead(p) \/ Resumes(p) \/ Killed(p) \/ Replaced(p)

ConsoleSpec == ConsoleInit /\ [][ConsoleNext]_consoleVars

----------------------------------------------------------------------------
Line == INSTANCE Terminal WITH Room <- InputBuf,
          lines <- Between(rd, wr), line <- Between(wr, ed)

(* The ring and its three indices, over every wrap of an unsigned int, are  *)
(* an edited line and a queue of committed characters: nothing that was     *)
(* committed is edited, overwritten or read twice (console.c:191-285).      *)
ConsoleIsTerminal == Line!Spec

(* A reader does not sleep while there is something to read, whether a line *)
(* ended, the buffer was filled, or another reader put an end of file back  *)
(* (console.c:224, 264).                                                    *)
ConsoleWakesReaders == \A p \in Readers : reader[p].at = "asleep" => rd = wr
=============================================================================
