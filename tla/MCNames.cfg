\* Three processes, two names, three inodes and two table entries; a tree of
\* three inodes under two processes.
SPECIFICATION NameSpec
CONSTANTS
  p1 = p1  p2 = p2  p3 = p3  name1 = name1  name2 = name2  u1 = u1  u2 = u2
  Procs = {p1, p2, p3}
  Names = {name1, name2}
  Inums = {1, 2, 3}
  Slots = {1, 2}
  None = None
  Users = {u1, u2}
  Numbers = {1, 2, 3}
  Calls <- MCCalls
  Disks <- MCDisks
  MaxBegun = 4
  Crashes = 1
SYMMETRY MCSymmetry
INVARIANTS TableSound  
