------------------------------ MODULE MCMemory ------------------------------
(* Model values for Paging and UMalloc, the pages the kernel gives to       *)
(* processes and the blocks malloc makes of them, which share no state: a   *)
(* behaviour is one of either.  Two process slots, an address space of      *)
(* three pages in two tables, and one frame less than two processes holding *)
(* everything need: a fork of a full process fails, as do an exec and       *)
(* faults beside another process.                                           *)
EXTENDS Paging, UMalloc

VARIABLE part

MCDeltas == {-1, 2}

(* Each use of a frame has two it prefers, so that the order of the         *)
(* allocations does not multiply the states.                                *)
Place(use) == CASE use = Stack -> 1
                [] use = Dir -> 2
                [] OTHER -> 3 + use[2] + (IF use[1] = "page" THEN 2 ELSE 0)
MCPick(use, set) ==
    CASE Place(use) \in set -> Place(use)
      [] Place(use) \notin set /\ Place(use) + 7 \in set -> Place(use) + 7
      [] OTHER -> CHOOSE f \in set : TRUE

memoryVars == <<vars, mallocVars, part>>

MemoryInit == Init /\ MallocInit /\ part \in {"pages", "malloc"}

MemoryNext ==
  \/ part = "pages" /\ Next /\ UNCHANGED <<mallocVars, part>>
  \/ part = "malloc" /\ MallocNext /\ UNCHANGED <<vars, part>>

MemorySpec == MemoryInit /\ [][MemoryNext]_memoryVars
=============================================================================
