---- MODULE AddressSpace ----
(***************************************************************************)
(* What the paged memory of xv6_new_7 promises its processes, without page *)
(* tables or frames: every process has a memory of its own, a page nobody  *)
(* wrote reads as zero, a forked child starts with a copy of the pages     *)
(* below its parent's size, exec replaces everything, and nobody writes a  *)
(* guard page or a page the process never grew over.  Paging implements    *)
(* it.  The one promise the kernel cannot keep is named Starve: a page     *)
(* fault with no memory left costs the process its page 0.                 *)
(***************************************************************************)
EXTENDS Integers

CONSTANTS
    Procs,      \* the process slots
    InitProc,   \* the first process
    Pages,      \* the page numbers 0 .. n of the user address range
    Data,       \* what a program may write to a page
    Zero,       \* a page of zeros
    Image,      \* a page holding text, data or arguments written by exec
    Lost,       \* a page with no memory behind it
    TextPages   \* the pages of the program exec loads

VARIABLES
    mem,    \* what a process reads in each page; <<>> when there is no process
    size,   \* proc.sz in pages
    reach,  \* the largest size since exec or fork
    guard   \* the pages below the stack nobody may write

vars == <<mem, size, reach, guard>>

None == <<>>

Fresh == [a \in Pages |-> IF a < TextPages \/ a = TextPages + 1 THEN Image ELSE Zero]

(* What a page without memory behind it is copied as is not specified.     *)
CopyOf(p, m) ==
    /\ DOMAIN m = Pages
    /\ \A a \in Pages : IF a < size[p] THEN mem[p][a] = Lost \/ m[a] = mem[p][a]
                                       ELSE m[a] = Zero

Init ==
    /\ mem = [p \in Procs |-> IF p = InitProc
                              THEN [a \in Pages |-> IF a = 0 THEN Image ELSE Zero] ELSE None]
    /\ size = [p \in Procs |-> IF p = InitProc THEN 1 ELSE 0]
    /\ reach = size
    /\ guard = [p \in Procs |-> {}]

Write(p, a, v) ==
    /\ mem[p] # None
    /\ a < reach[p] /\ a \notin guard[p]
    /\ mem' = [mem EXCEPT ![p][a] = v]
    /\ UNCHANGED <<size, reach, guard>>

Resize(p, n) ==
    /\ mem[p] # None
    /\ size' = [size EXCEPT ![p] = n]
    /\ reach' = [reach EXCEPT ![p] = IF n > @ THEN n ELSE @]
    /\ UNCHANGED <<mem, guard>>

Fork(p, q) ==
    /\ mem[p] # None /\ mem[q] = None
    /\ \E m \in {mem'[q]} : CopyOf(p, m) /\ mem' = [mem EXCEPT ![q] = m]
    /\ size' = [size EXCEPT ![q] = size[p]]
    /\ reach' = [reach EXCEPT ![q] = size[p]]
    /\ guard' = [guard EXCEPT ![q] = {a \in guard[p] : a < size[p]}]

Exec(p) ==
    /\ mem[p] # None
    /\ mem' = [mem EXCEPT ![p] = Fresh]
    /\ size' = [size EXCEPT ![p] = TextPages + 2]
    /\ reach' = [reach EXCEPT ![p] = TextPages + 2]
    /\ guard' = [guard EXCEPT ![p] = {TextPages}]

Exit(p) ==
    /\ mem[p] # None
    /\ mem' = [mem EXCEPT ![p] = None]
    /\ size' = [size EXCEPT ![p] = 0]
    /\ reach' = [reach EXCEPT ![p] = 0]
    /\ guard' = [guard EXCEPT ![p] = {}]

Starve(p, a) ==
    /\ mem[p] # None
    /\ a < size[p]
    /\ mem' = [mem EXCEPT ![p] = [@ EXCEPT ![0] = Zero, ![a] = Lost]]
    /\ UNCHANGED <<size, reach, guard>>

Next ==
    \E p \in Procs :
       \/ \E a \in Pages, v \in Data : Write(p, a, v)
       \/ \E a \in Pages : Resize(p, a + 1)
       \/ \E q \in Procs \ {p} : Fork(p, q)
       \/ Exec(p) \/ Exit(p)
       \/ \E a \in Pages : Starve(p, a)

Spec == Init /\ [][Next]_vars
====
