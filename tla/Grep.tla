-------------------------------- MODULE Grep --------------------------------
(***************************************************************************)
(* grep of xv6 (grep.c): the matcher of regular expressions with ^ . * $,  *)
(* and the loop that reads its input into a buffer as it comes and prints  *)
(* the lines that match. A read gives any number of the characters that    *)
(* are left, as a pipe or the console may. Characters are model strings of *)
(* length one.                                                             *)
(***************************************************************************)
EXTENDS Integers, Sequences, FiniteSets, SequencesExt, FiniteSetsExt

CONSTANTS Patterns, Inputs,
          BufSize,     \* sizeof(buf), with a place for the NUL
          EndOfLine

ASSUME GrepAssumption == BufSize \in Nat /\ BufSize > 2

VARIABLES re,      \* the pattern
          coming,  \* what has not been read yet
          had,     \* history: what has been read
          held,    \* the m characters in buf
          out,     \* the lines written
          cuts,    \* history: how much was read when a part of a line was dropped
          over

grepVars == <<re, coming, had, held, out, cuts, over>>

----------------------------------------------------------------------------
\* match, matchhere and matchstar. A pattern or a text that is empty is at its NUL.
RECURSIVE MatchHere(_, _), MatchStar(_, _, _), Match(_, _)

MatchHere(r, text) ==
  CASE r = <<>> -> TRUE
    [] Len(r) > 1 /\ r[2] = "*" -> MatchStar(r[1], SubSeq(r, 3, Len(r)), text)
    [] r = <<"$">> -> text = <<>>
    [] OTHER -> /\ text # <<>> /\ r[1] \in {".", text[1]}
                /\ MatchHere(Tail(r), Tail(text))

\* Mutant: one or more instances.
OneOrMore(c, r, text) ==
  /\ text # <<>> /\ c \in {".", text[1]}
  /\ MatchHere(r, Tail(text)) \/ MatchStar(c, r, Tail(text))

MatchStar(c, r, text) ==
  \/ MatchHere(r, text)
  \/ text # <<>> /\ c \in {".", text[1]} /\ MatchStar(c, r, Tail(text))

Match(r, text) ==
  IF r # <<>> /\ r[1] = "^" THEN MatchHere(Tail(r), text)
  ELSE MatchHere(r, text) \/ (text # <<>> /\ Match(r, Tail(text)))

----------------------------------------------------------------------------
\* The lines of a buffer without their ends, and what is behind the last.
LineEnds(buf) == {i \in DOMAIN buf : buf[i] = EndOfLine}
Before(buf, i) == Max({0} \cup {j \in LineEnds(buf) : j < i})
Whole(buf) ==
  LET last(k) == CHOOSE i \in LineEnds(buf) : Cardinality({j \in LineEnds(buf) : j <= i}) = k
  IN [k \in 1 .. Cardinality(LineEnds(buf)) |->
        SubSeq(buf, Before(buf, last(k)) + 1, last(k) - 1)]
Rest(buf) == SubSeq(buf, Max({0} \cup LineEnds(buf)) + 1, Len(buf))

GrepInit ==
  /\ re \in Patterns /\ coming \in Inputs
  /\ had = <<>> /\ held = <<>> /\ out = <<>> /\ cuts = {} /\ over = FALSE

\* Mutant: without the m = 0 of grep.c:29-30.
KeepsAll(buf) == Rest(buf)

\* What is moved to the front of buf: nothing if no line has ended in it.
Kept(buf) == IF LineEnds(buf) = {} THEN <<>> ELSE Rest(buf)

GrepRead(n) ==
  LET buf == held \o SubSeq(coming, 1, n)
  IN /\ ~over /\ n <= Len(coming) /\ n <= BufSize - Len(held) - 1
     /\ had' = had \o SubSeq(coming, 1, n)
     /\ coming' = SubSeq(coming, n + 1, Len(coming))
     /\ out' = out \o SelectSeq(Whole(buf), LAMBDA text : Match(re, text))
     /\ held' = Kept(buf)
     /\ cuts' = IF Kept(buf) = Rest(buf) THEN cuts ELSE cuts \cup {Len(had')}
     /\ UNCHANGED re

\* read returns 0 at the end of the input, or when there is no room.
GrepEnds ==
  /\ ~over /\ (coming = <<>> \/ Len(held) + 1 >= BufSize)
  /\ over' = TRUE /\ UNCHANGED <<re, coming, had, held, out, cuts>>

GrepNext ==
  \/ \E n \in 1 .. BufSize : GrepRead(n) /\ UNCHANGED over
  \/ GrepEnds

GrepSpec == GrepInit /\ [][GrepNext]_grepVars

----------------------------------------------------------------------------
\* What a pattern means: a sequence of characters of which some may repeat,
\* and the positions of the text that each of them may lead to.
IsItem(r) ==
  LET item[i \in 1 .. Len(r)] ==
        \/ i = 1
        \/ item[i - 1] /\ r[i] # "*"
        \/ i > 2 /\ r[i - 1] = "*" /\ item[i - 2]
  IN item
Repeats(r, i) == i < Len(r) /\ r[i + 1] = "*"
AtBegin(r) == r # <<>> /\ r[1] = "^"
AtEnd(r) == r # <<>> /\ Last(r) = "$" /\ IsItem(r)[Len(r)]
Fits(c, x) == c \in {".", x}

Follow(r, text, from, i) ==
  IF Repeats(r, i)
  THEN {q \in 0 .. Len(text) :
          \E p \in from : p <= q /\ \A x \in p + 1 .. q : Fits(r[i], text[x])}
  ELSE {p + 1 : p \in {q \in from : q < Len(text) /\ Fits(r[i], text[q + 1])}}

Denotes(pattern, text) ==
  LET r == IF AtBegin(pattern) THEN Tail(pattern) ELSE pattern
      start == IF AtBegin(pattern) THEN {0} ELSE 0 .. Len(text)
      items == SelectSeq([i \in 1 .. Len(r) |-> i],
                         LAMBDA i : IsItem(r)[i] /\ ~(i = Len(r) /\ AtEnd(r)))
      reached == FoldLeft(LAMBDA from, i : Follow(r, text, from, i), start, items)
  IN IF AtEnd(r) THEN Len(text) \in reached ELSE reached # {}

(* However the input comes in, the lines written are in order those that    *)
(* the pattern denotes, of which a line that no read has ended loses what   *)
(* was read of it before, if it came first in the buffer ("m = 0"); and all *)
(* of the input is read, since no line ever fills the buffer (grep.c:10-37, *)
(* 68-107).                                                                 *)
GrepFinds ==
  LET ends == SelectSeq([i \in 1 .. Len(had) |-> i], LAMBDA i : had[i] = EndOfLine)
      from(k) == Max({0} \cup {c \in cuts : c < ends[k]} \cup {ends[j] : j \in 1 .. k - 1})
      texts == [k \in 1 .. Len(ends) |-> SubSeq(had, from(k) + 1, ends[k] - 1)]
  IN /\ out = SelectSeq(texts, LAMBDA text : Denotes(re, text))
     /\ over => coming = <<>>
=============================================================================
