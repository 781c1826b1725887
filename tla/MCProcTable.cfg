\* Three slots, two CPUs, slots used again: fork, exit, wait, kill, the clock
\* and lotteries among processes with and without tickets.
SPECIFICATION Spec
CONSTANTS
  cpu0 = cpu0  cpu1 = cpu1
  NPROC = 3
  CPUs = {cpu0, cpu1}
  Syscalls = {"fork", "exit", "wait", "sleep"}
  TicketChoices = {0, 1}
  KillPids = {3}
  MaxPid = 3
  MaxTicks = 1
SYMMETRY MCSymmetry
INVARIANTS ProcessesSound NoLostWakeup 
CHECK_DEADLOCK FALSE
