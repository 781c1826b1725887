\* A 4 x 4 board divided over three threads (6, 5 and 5 cells), every dead
\* border and one live one, up to three steps.
SPECIFICATION MainSpec
CONSTANTS
  Width = 4
  Height = 4
  Starts <- MCStarts
  MaxSteps = 3
  Threads = 3
INVARIANTS CellsDivided BoardsSound VersionsAgree
PROPERTIES ParallelImplementsLife CallReturns
CHECK_DEADLOCK FALSE
