SPECIFICATION Spec
SYMMETRY MCSymmetry
CONSTANTS
  p1 = p1
  p2 = p2
  p3 = p3
  name1 = name1
  name2 = name2
  Procs = {p1, p2, p3}
  Names = {name1, name2}
  Inums = {1, 2}
  Slots = {1, 2}
  None = None
INVARIANTS
  FreedWhenUnused
