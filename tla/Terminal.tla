------------------------------ MODULE Terminal ------------------------------
(***************************************************************************)
(* What the console promises to programs: characters are edited until the  *)
(* end of a line, or until there is no more room, and read in order, at    *)
(* most a line at a time.                                                  *)
(***************************************************************************)
EXTENDS Integers, Sequences, SequencesExt

CONSTANTS Room, Keys, NewLine, CarriageReturn, Eof, KillLine, Erase

VARIABLES lines,  \* what is committed and not read
          line    \* what is still being edited

vars == <<lines, line>>

Init == lines = <<>> /\ line = <<>>

Typed(c) ==
  LET longer == Append(line, c)
      full == Len(lines) + Len(longer) = Room
  IN CASE Len(lines) + Len(line) >= Room -> UNCHANGED vars
       [] Len(lines) + Len(line) < Room /\ (c \in {NewLine, Eof} \/ full) ->
            lines' = lines \o longer /\ line' = <<>>
       [] OTHER -> line' = longer /\ UNCHANGED lines

Key(c) ==
  CASE c = KillLine -> line' = <<>> /\ UNCHANGED lines
    [] c = Erase -> line' = (IF line = <<>> THEN line ELSE Front(line)) /\ UNCHANGED lines
    [] c = CarriageReturn -> Typed(NewLine)
    [] OTHER -> Typed(c)

\* k characters are taken: no more than the rest of a line, all that there is
\* if the line goes on; an Eof is taken only when nothing was before it.
Take(k) ==
  /\ \A i \in 1 .. k - 1 : lines[i] \notin {NewLine, Eof}
  /\ k > 1 => lines[k] # Eof
  /\ lines' = SubSeq(lines, k + 1, Len(lines)) /\ UNCHANGED line

Next ==
  \/ \E c \in Keys : Key(c)
  \/ \E k \in 1 .. Len(lines) : Take(k)

Spec == Init /\ [][Next]_vars
=============================================================================
