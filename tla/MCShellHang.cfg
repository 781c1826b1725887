\* The same lines, one at a time.
SPECIFICATION ShellSpec
CONSTANTS
  Procs = {1, 2, 3, 4, 5}
  OpenMax = 8
  Lines <- MCLines
  MaxLines = 1
  ExitLine <- MCExit
  Executable <- MCExecutable
  Filters <- MCFilters
  Openable <- MCOpenable
  Creatable <- MCCreatable
  Codes = {0, 1, sig}
  Signalled = sig
  Unset = unset
PROPERTY ShellNeverHangs
CHECK_DEADLOCK FALSE
