----------------------------- MODULE LifeRules ------------------------------
(***************************************************************************)
(* Boards and the rule of the Game of Life, as the two simulations of      *)
(* life/ compute them.  A board is the vector cells_ of life.h: cell       *)
(* y * Width + x holds 0 or 1.                                             *)
(***************************************************************************)
EXTENDS Integers, FiniteSets

CONSTANTS Width, Height

ASSUME SizeAssumption == Width \in Nat \ {0} /\ Height \in Nat \ {0}

NumCells == Width * Height
Cells == 0 .. NumCells - 1
Boards == [Cells -> {0, 1}]

X(c) == c % Width
Y(c) == c \div Width
Interior == {c \in Cells : X(c) \notin {0, Width - 1} /\ Y(c) \notin {0, Height - 1}}
Border == Cells \ Interior

\* The 3x3 window around an interior cell, the cell included.
Window(c) == {c + dx + Width * dy : dx \in -1 .. 1, dy \in -1 .. 1}
LiveInWindow(board, c) == Cardinality({d \in Window(c) : board[d] = 1})

NextCell(board, c) ==
  IF \/ LiveInWindow(board, c) = 3
     \/ LiveInWindow(board, c) = 4 /\ board[c] = 1
  THEN 1 ELSE 0

NextBoard(board) ==
  [c \in Cells |-> IF c \in Interior THEN NextCell(board, c) ELSE board[c]]

CONSTANTS Starts,   \* boards a simulation may start from
          MaxSteps  \* the largest number of steps asked for

ASSUME StartsAssumption == Starts \subseteq Boards /\ MaxSteps \in Nat
=============================================================================
