-------------------------------- MODULE Life --------------------------------
(***************************************************************************)
(* The Game of Life on a board whose border never changes: what            *)
(* life/life.h:74-79 asks of every version of the simulation.              *)
(***************************************************************************)
EXTENDS LifeRules

VARIABLES board,    \* the current generation
          steps,    \* how many steps were asked for
          done      \* how many steps are over

lifeVars == <<board, steps, done>>

Init == /\ board \in Starts
        /\ steps \in 0 .. MaxSteps
        /\ done = 0

Step == /\ done < steps
        /\ board' = NextBoard(board)
        /\ done' = done + 1
        /\ UNCHANGED steps

Spec == Init /\ [][Step]_lifeVars
=============================================================================
