---- MODULE MCInodeCache ----
(* Model values for InodeCache.  Processes and names are interchangeable.  *)
EXTENDS InodeCache, TLC

CONSTANTS p1, p2, p3, name1, name2

MCSymmetry == Permutations({p1, p2, p3}) \cup Permutations({name1, name2})
====
