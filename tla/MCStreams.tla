----------------------------- MODULE MCStreams -----------------------------
(* Model values for Pipe, Console and Spinlock, which share no state: every *)
(* behaviour is one of a single part, and the others stay where they began. *)
EXTENDS Pipe, Console, Spinlock, TLC

CONSTANTS p1, p2, p3, byte1, byte2, r1, r2, c1, c2, t1, t2

VARIABLE part

MCSymmetry == Permutations({p1, p2, p3})

MCMessages == {<<byte1, byte1, byte2>>, <<byte2>>}

streamVars == <<vars, consoleVars, spinVars, part>>

StreamInit ==
  /\ part \in {"pipe", "console", "spinlock"}
  /\ Init /\ ConsoleInit /\ SpinInit
  /\ part # "pipe" => data[0] = byte1

StreamNext ==
  \/ part = "pipe" /\ Next /\ UNCHANGED <<consoleVars, spinVars, part>>
  \/ part = "console" /\ ConsoleNext /\ UNCHANGED <<vars, spinVars, part>>
  \/ part = "spinlock" /\ SpinNext /\ UNCHANGED <<vars, consoleVars, part>>

StreamSpec == StreamInit /\ [][StreamNext]_streamVars
=============================================================================
