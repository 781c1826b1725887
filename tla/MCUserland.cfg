\* Killed processes on one CPU; five processes of the xv6 shell and two lines,
\* at most three words in a command; a buffer of three characters and the NUL;
\* a list at five addresses.
SPECIFICATION UserlandSpec
CONSTANTS
  cpu0 = cpu0  cpu1 = cpu1
  NPROC = 3
  CPUs = {cpu0}
  Syscalls = {"fork", "exit", "wait"}
  TicketChoices = {1}
  KillPids = {2}
  MaxPid = 3
  MaxTicks = 0
  Pids = {1, 2, 3, 4, 5}
  TypedLines <- MCTyped
  MaxTyped = 2
  MaxArgs = 3
  Programs <- MCPrograms
  Readers <- MCReaders
  Readable <- MCReadable
  Writable <- MCWritable
  Patterns <- MCPatterns
  Inputs <- MCInputs
  BufSize = 4
  EndOfLine = "n"
  Addresses = {1, 2, 3, 4, 5}
  Items = {"x", "y"}
  NULL = null
  MaxInserts = 3
INVARIANTS UserShellSound GrepFinds ListIsQueue
PROPERTIES KilledExits UserShellReturns
CHECK_DEADLOCK FALSE
