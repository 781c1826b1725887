------------------------------- MODULE MCLife -------------------------------
(* Boards for the two simulations: every board with a dead border, and one  *)
(* with live cells on it.                                                   *)
EXTENDS LifeMain

MCDeadBorder == {b \in Boards : \A c \in Border : b[c] = 0}
MCLiveBorder == {[c \in Cells |-> IF c \in {0, 1, 5} THEN 1 ELSE 0]}
MCStarts == MCDeadBorder \cup MCLiveBorder
=============================================================================
