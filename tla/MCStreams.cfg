\* A pipe of two bytes whose counters wrap at four; a console of three whose
\* indices wrap at six; two processors, two threads, ptable.lock and another.
SPECIFICATION StreamSpec
CONSTANTS
  p1 = p1  p2 = p2  p3 = p3  byte1 = byte1  byte2 = byte2  Failed = Failed
  Procs = {p1, p2, p3}
  Bytes = {byte1, byte2}
  PIPESIZE = 2
  WRAP = 4
  ReadCounts = {1, 3}
  Messages <- MCMessages
  MaxKilled = 2
  r1 = r1  r2 = r2
  Readers = {r1, r2}
  InputBuf = 3
  Wrap = 6
  Keys = {"a", "lf", "cr", "^D", "^U", "^H"}
  NewLine = "lf"
  CarriageReturn = "cr"
  Eof = "^D"
  KillLine = "^U"
  Erase = "^H"
  Counts = {0, 1, 4}
  MaxKeys = 7
  c1 = c1  c2 = c2  t1 = t1  t2 = t2  Nobody = Nobody
  CPUs = {c1, c2}
  Threads = {t1, t2}
  Locks = {1, 2}
  PtableLock = 2
SYMMETRY MCSymmetry
INVARIANTS PipeSound ConsoleWakesReaders SpinExclusive SpinFlagSound
PROPERTIES PipeIsStream ConsoleIsTerminal
CHECK_DEADLOCK FALSE
