------------------------------ MODULE LifeMain ------------------------------
(***************************************************************************)
(* The check that life/main.cc makes of every version of the simulation:   *)
(* main runs the serial version on a copy of the input, run_and_verify     *)
(* runs the parallel one on another copy, and the two boards are compared. *)
(***************************************************************************)
EXTENDS LifeParallel

VARIABLES expected,  \* the board of the serial run, main.cc:127
          spare,     \* its next_state
          step, at   \* its loop counters

mainVars == <<vars, expected, spare, step, at>>

Serial == INSTANCE LifeSerial WITH
            state <- expected, next_state <- spare, cell <- at

MainInit == /\ Init
            /\ Serial!Init
            /\ expected = boards[0]

SimulateSerial == Serial!Next /\ UNCHANGED vars

\* A step of the verified version, once the expected board is known.
Verifying(A) == step = steps /\ A /\ UNCHANGED <<expected, spare, step, at>>

MainNext == SimulateSerial \/ Verifying(Next)

MainSpec == /\ MainInit /\ [][MainNext]_mainVars
            /\ WF_mainVars(SimulateSerial)
            /\ WF_mainVars(Verifying(Join))
            /\ \A t \in Ids : WF_mainVars(Verifying(ThreadStep(t)))

-----------------------------------------------------------------------------
DeadBorder == \A c \in Border : boards[0][c] = 0

\* The parallel version's result is the serial version's (main.cc:70-77), after
\* odd and even numbers of steps, when no cell of the input's border is live.
VersionsAgree ==
  joined => \/ boards[0] = expected
            \/ ~DeadBorder /\ steps > 0
=============================================================================
