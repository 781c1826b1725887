----------------------------- MODULE LifeSerial -----------------------------
(***************************************************************************)
(* simulate_life_serial of life/life-serial.cc: the next generation is     *)
(* computed into a second board, zeroed when it is made, and the contents  *)
(* of the two boards are swapped.  The border of the second board is never *)
(* written.                                                                *)
(***************************************************************************)
EXTENDS LifeRules

VARIABLES state, next_state,
          steps,    \* the argument of the call
          step,     \* the loop counter
          cell      \* the cell of the two inner loops; NumCells when they end

vars == <<state, next_state, steps, step, cell>>

Init == /\ state \in Starts
        /\ next_state = [c \in Cells |-> 0]
        /\ steps \in 0 .. MaxSteps
        /\ step = 0 /\ cell = 0

ComputeCell ==
  /\ step < steps /\ cell < NumCells
  /\ next_state' = IF cell \in Interior
                   THEN [next_state EXCEPT ![cell] = NextCell(state, cell)]
                   ELSE next_state
  /\ cell' = cell + 1
  /\ UNCHANGED <<state, steps, step>>

\* Mutant: the swap is forgotten.
NoSwap ==
  /\ step < steps /\ cell = NumCells
  /\ step' = step + 1 /\ cell' = 0
  /\ UNCHANGED <<state, next_state, steps>>

SwapBoards ==
  /\ step < steps /\ cell = NumCells
  /\ state' = next_state /\ next_state' = state
  /\ step' = step + 1 /\ cell' = 0
  /\ UNCHANGED steps

Next == ComputeCell \/ SwapBoards

=============================================================================
