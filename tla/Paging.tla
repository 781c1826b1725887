---- MODULE Paging ----
(***************************************************************************)
(* The demand-paged memory of xv6_new_7 (vm.c, kalloc.c, exec.c and the    *)
(* page fault of trap.c): sbrk only moves the size, the first touch of a   *)
(* page below it gets a zeroed frame, fork copies the pages the parent     *)
(* has, exec builds a new space beside the old one.  The processors share  *)
(* the free list, so another process may take or return frames between any *)
(* two steps of a fork, of an exec or of a fault.                          *)
(*                                                                         *)
(* Sizes are whole pages.  Frames on the free list are interchangeable     *)
(* (kfree fills each with junk and the code never compares them): which    *)
(* one kalloc hands out is the constant Pick.  A page directory stands for *)
(* the frames of the kernel's part as well.                                *)
(***************************************************************************)
EXTENDS Integers, FiniteSets, Sequences

CONSTANTS
    Procs,      \* the process slots
    InitProc,   \* the first process, which only a fault can end
    Frames,     \* the physical pages given to the allocator
    NoFrame,    \* a null pointer
    NoMemory,   \* the frame at physical 2^31, behind which there is no memory
    MaxPages,   \* bound: pages in the user part of the address space
    PerTable,   \* pages one page table maps (1024 in the code)
    TextPages,  \* pages of the program exec loads
    MaxCalls,   \* bound: forks and execs begun
    Deltas,     \* the arguments of sbrk, in pages
    Pick(_, _), \* the frame kalloc takes, by the use it has, from a free set
    Data,       \* what programs write
    Zero, Junk, Image, Lost   \* the other contents of a page

Pages == 0 .. MaxPages - 1
Tables == {a \div PerTable : a \in Pages}
TableOf(a) == a \div PerTable

(* What a frame is taken for.                                              *)
Stack == <<"stack">>
Dir == <<"dir">>
Table(a) == <<"table", TableOf(a)>>
Page(a) == <<"page", a>>
Uses == {Stack, Dir} \cup {Table(a) : a \in Pages} \cup {Page(a) : a \in Pages}

ASSUME PagingAssumption ==
    /\ TextPages \in Nat \ {0} /\ PerTable \in Nat \ {0}
    /\ MaxPages \in Nat /\ TextPages + 2 <= MaxPages
    /\ Deltas \subseteq Int
    /\ IsFiniteSet(Frames) /\ Cardinality(Frames) >= 4   \* those of the first process
    /\ \A use \in Uses, set \in (SUBSET Frames) \ {{}} : Pick(use, set) \in set
    /\ InitProc \in Procs
    /\ NoFrame \notin Frames /\ NoMemory \notin Frames /\ NoFrame # NoMemory

VARIABLES
    free,     \* kmem.freelist
    content,  \* what each frame holds
    status,   \* "unused", "embryo", "live" or "zombie"
    kstack,   \* proc.kstack
    sz,       \* proc.sz in pages
    vm,       \* proc.pgdir: the directory, its tables, its entries
    build,    \* the directory fork or exec is filling
    op,       \* what the process is doing in the kernel
    top,      \* history: the largest sz since exec or fork
    calls,    \* forks and execs begun, to bound them
    halted    \* the message of the panic that stopped the machine, or "no"

vars == <<free, content, status, kstack, sz, vm, build, op, top, calls, halted>>

(* A page table entry is a frame and its PTE_U bit; 0 is Unmapped.         *)
Unmapped == [frame |-> NoFrame, user |-> FALSE]
NoSpace == [dir |-> NoFrame, table |-> [t \in Tables |-> NoFrame],
            pte |-> [a \in Pages |-> Unmapped]]
User == [at |-> "user"]

(* kalloc, for the use named: a null pointer when the list is empty.       *)
Kalloc(use, set) == IF set = {} THEN NoFrame ELSE Pick(use, set)

Mapped(s, a) == s.pte[a] # Unmapped
Present(s, a) == s.table[TableOf(a)] # NoFrame

(* The frames of a space: its directory, its tables and its pages.         *)
(* Mutant: freevm forgets the page tables.                                 *)
PagesOf(s) == ({s.dir} \cup {s.pte[a].frame : a \in Pages}) \ {NoFrame, NoMemory}
FramesOf(s) == ({s.dir} \cup {s.table[t] : t \in Tables} \cup {s.pte[a].frame : a \in Pages})
               \ {NoFrame, NoMemory}

(* mappages of one page, with the table walkpgdir may have to allocate.    *)
(* It fails when that table cannot be had.                                 *)
CanMap(s, a, set) == Present(s, a) \/ set # {}
MapForUser(s, a, f, user, set) ==   \* Mutant: the flags of the page are lost.
    [s EXCEPT !.table[TableOf(a)] = IF Present(s, a) THEN @ ELSE Kalloc(Table(a), set),
              !.pte[a] = [frame |-> f, user |-> TRUE]]
MapPage(s, a, f, user, set) ==
    [s EXCEPT !.table[TableOf(a)] = IF Present(s, a) THEN @ ELSE Kalloc(Table(a), set),
              !.pte[a] = [frame |-> f, user |-> user]]
Taken(s, a, set) == IF Present(s, a) THEN set ELSE set \ {Kalloc(Table(a), set)}

(* kfree fills what it frees with junk.                                    *)
Return(fs) == /\ free' = free \cup fs
              /\ content' = [f \in Frames |-> IF f \in fs THEN Junk ELSE content[f]]

(* freevm panics in kfree on a page without memory.                        *)
HasHole(s) == \E a \in Pages : s.pte[a].frame = NoMemory

Runs(p, at) == halted = "no" /\ status[p] = "live" /\ op[p].at = at

-----------------------------------------------------------------------------
(* userinit and inituvm: the first process has one page.                   *)
Init ==
    LET page == Kalloc(Page(0), Frames)
        stack == Kalloc(Stack, Frames \ {page})
        d == Kalloc(Dir, Frames \ {page, stack})
        t == Kalloc(Table(0), Frames \ {page, stack, d}) IN
    /\ free = Frames \ {page, stack, d, t}
    /\ content = [f \in Frames |-> IF f = page THEN Image ELSE Junk]
    /\ status = [p \in Procs |-> IF p = InitProc THEN "live" ELSE "unused"]
    /\ kstack = [p \in Procs |-> IF p = InitProc THEN stack ELSE NoFrame]
    /\ sz = [p \in Procs |-> IF p = InitProc THEN 1 ELSE 0]
    /\ vm = [p \in Procs |-> IF p = InitProc
                THEN [NoSpace EXCEPT !.dir = d, !.table[0] = t,
                                     !.pte[0] = [frame |-> page, user |-> TRUE]]
                ELSE NoSpace]
    /\ build = [p \in Procs |-> NoSpace]
    /\ op = [p \in Procs |-> User]
    /\ top = sz
    /\ calls = 0
    /\ halted = "no"

(* growproc checks nothing; the bounds are the model's.                    *)
Sbrk(p, n) ==
    /\ Runs(p, "user")
    /\ sz[p] + n \in 1 .. MaxPages
    /\ sz' = [sz EXCEPT ![p] = @ + n]
    /\ top' = [top EXCEPT ![p] = IF sz[p] + n > @ THEN sz[p] + n ELSE @]
    /\ UNCHANGED <<free, content, status, kstack, vm, build, op, calls, halted>>

(* The program writes a page it may write: no fault.                       *)
Write(p, a, v) ==
    /\ Runs(p, "user")
    /\ vm[p].pte[a].user /\ vm[p].pte[a].frame \in Frames
    /\ content' = [content EXCEPT ![vm[p].pte[a].frame] = v]
    /\ UNCHANGED <<free, status, kstack, sz, vm, build, op, top, calls, halted>>

-----------------------------------------------------------------------------
(* exit; the first process must not.                                       *)
Ends(p) ==
    IF p = InitProc
    THEN halted' = "init exiting" /\ UNCHANGED status
    ELSE status' = [status EXCEPT ![p] = "zombie"] /\ UNCHANGED halted

(* The page fault.  A bad address kills the process, which exits on the    *)
(* way out of trap.  walkpgdir(pgdir, address, 1) comes first; when it has *)
(* no frame for the table it returns null and *pte reads address 0, the    *)
(* first word of the process's page 0, non-zero unless the page is zeroed. *)
PteWord(p, a) ==
    CASE Present(vm[p], a) \/ free # {} -> ~Mapped(vm[p], a)
      [] OTHER -> content[vm[p].pte[0].frame] = Zero

FaultWalk(p, a) ==
    /\ Runs(p, "user")
    /\ ~vm[p].pte[a].user
    /\ vm' = [vm EXCEPT ![p].table[TableOf(a)] =
                            IF Present(vm[p], a) THEN @ ELSE Kalloc(Table(a), free)]
    /\ free' = Taken(vm[p], a, free)
    /\ IF a < sz[p] /\ PteWord(p, a)
       THEN op' = [op EXCEPT ![p] = [at |-> "fault", page |-> a]] /\ UNCHANGED <<status, halted>>
       ELSE Ends(p) /\ UNCHANGED op
    /\ UNCHANGED <<content, kstack, sz, build, top, calls>>

(* kalloc, memset, mappages.  Without memory the memset clears the page    *)
(* at address 0 and the entry made points at no memory.                    *)
FaultMap(p) ==
    /\ Runs(p, "fault")
    /\ LET a == op[p].page
           m == Kalloc(Page(a), free)
           rest == free \ {m} IN
       /\ CanMap(vm[p], a, rest)
       /\ vm' = [vm EXCEPT ![p] =
                    MapPage(@, a, IF m = NoFrame THEN NoMemory ELSE m, TRUE, rest)]
       /\ free' = Taken(vm[p], a, rest)
       /\ content' = [content EXCEPT ![IF m = NoFrame THEN vm[p].pte[0].frame ELSE m] = Zero]
    /\ op' = [op EXCEPT ![p] = User]
    /\ UNCHANGED <<status, kstack, sz, build, top, calls, halted>>

(* mappages fails: kfree(mem), which panics when kalloc had failed too.    *)
FaultFails(p) ==
    /\ Runs(p, "fault")
    /\ LET a == op[p].page
           m == Kalloc(Page(a), free) IN
       /\ ~CanMap(vm[p], a, free \ {m})
       /\ IF m = NoFrame
          THEN /\ content' = [content EXCEPT ![vm[p].pte[0].frame] = Zero]
               /\ halted' = "kfree"
          ELSE UNCHANGED <<content, halted>>
    /\ op' = [op EXCEPT ![p] = User]
    /\ UNCHANGED <<free, status, kstack, sz, vm, build, top, calls>>

-----------------------------------------------------------------------------
(* fork: allocproc takes a slot and a kernel stack, copyuvm a directory.   *)
(* Without a frame for either, fork returns -1 and nothing has changed.    *)
ForkBegin(p, q) ==
    /\ Runs(p, "user")
    /\ calls < MaxCalls /\ calls' = calls + 1
    /\ status[q] = "unused"
    /\ LET k == Kalloc(Stack, free)
           d == Kalloc(Dir, free \ {k}) IN
       /\ d # NoFrame
       /\ free' = free \ {k, d}
       /\ kstack' = [kstack EXCEPT ![q] = k]
       /\ build' = [build EXCEPT ![p] = [NoSpace EXCEPT !.dir = d]]
    /\ status' = [status EXCEPT ![q] = "embryo"]
    /\ op' = [op EXCEPT ![p] = [at |-> "fork", child |-> q, page |-> 0]]
    /\ UNCHANGED <<content, sz, vm, top, halted>>

(* What the kernel reads in a page of its process: a page without memory   *)
(* is at kernel address 0, the process's page 0.                           *)
Peek(p, a) == LET f == vm[p].pte[a].frame IN
              content[IF f = NoMemory THEN vm[p].pte[0].frame ELSE f]

(* One turn of copyuvm's loop over a page the parent has.                  *)
ForkCopy(p) ==
    /\ Runs(p, "fork") /\ op[p].page < sz[p]
    /\ LET a == op[p].page
           m == Kalloc(Page(a), free)
           rest == free \ {m} IN
       /\ Present(vm[p], a) /\ Mapped(vm[p], a)
       /\ m # NoFrame /\ CanMap(build[p], a, rest)
       /\ build' = [build EXCEPT ![p] = MapPage(@, a, m, vm[p].pte[a].user, rest)]
       /\ free' = Taken(build[p], a, rest)
       /\ content' = [content EXCEPT ![m] = Peek(p, a)]
    /\ op' = [op EXCEPT ![p].page = @ + 1]
    /\ UNCHANGED <<status, kstack, sz, vm, top, calls, halted>>

(* The parent has not touched the page: the child will allocate it too.    *)
ForkSkip(p) ==
    /\ Runs(p, "fork") /\ op[p].page < sz[p]
    /\ Present(vm[p], op[p].page) /\ ~Mapped(vm[p], op[p].page)
    /\ op' = [op EXCEPT ![p].page = @ + 1]
    /\ UNCHANGED <<free, content, status, kstack, sz, vm, build, top, calls, halted>>

(* No page in the reach of a whole table was touched: copyuvm panics.      *)
ForkPanic(p) ==
    /\ Runs(p, "fork") /\ op[p].page < sz[p]
    /\ ~Present(vm[p], op[p].page)
    /\ halted' = "copyuvm: pte should exist"
    /\ UNCHANGED <<free, content, status, kstack, sz, vm, build, op, top, calls>>

(* copyuvm's bad: free the copy; fork then frees the stack and the slot.   *)
ForkFails(p) ==
    /\ Runs(p, "fork") /\ op[p].page < sz[p]
    /\ LET a == op[p].page
           q == op[p].child
           m == Kalloc(Page(a), free) IN
       /\ Present(vm[p], a) /\ Mapped(vm[p], a)
       /\ m = NoFrame \/ ~CanMap(build[p], a, free \ {m})
       /\ Return(FramesOf(build[p]) \cup {kstack[q]})
       /\ status' = [status EXCEPT ![q] = "unused"]
       /\ kstack' = [kstack EXCEPT ![q] = NoFrame]
    /\ build' = [build EXCEPT ![p] = NoSpace]
    /\ op' = [op EXCEPT ![p] = User]
    /\ UNCHANGED <<sz, vm, top, calls, halted>>

ForkDone(p) ==
    /\ Runs(p, "fork") /\ op[p].page = sz[p]
    /\ LET q == op[p].child IN
       /\ status' = [status EXCEPT ![q] = "live"]
       /\ vm' = [vm EXCEPT ![q] = build[p]]
       /\ sz' = [sz EXCEPT ![q] = sz[p]]
       /\ top' = [top EXCEPT ![q] = sz[p]]
    /\ build' = [build EXCEPT ![p] = NoSpace]
    /\ op' = [op EXCEPT ![p] = User]
    /\ UNCHANGED <<free, content, kstack, calls, halted>>

-----------------------------------------------------------------------------
(* exec: a new directory (or a failure that changes nothing), then         *)
(* allocuvm one page at a time.                                            *)
ExecBegin(p) ==
    /\ Runs(p, "user")
    /\ calls < MaxCalls /\ calls' = calls + 1
    /\ free # {}
    /\ free' = free \ {Kalloc(Dir, free)}
    /\ build' = [build EXCEPT ![p] = [NoSpace EXCEPT !.dir = Kalloc(Dir, free)]]
    /\ op' = [op EXCEPT ![p] = [at |-> "exec", page |-> 0]]
    /\ UNCHANGED <<content, status, kstack, sz, vm, top, halted>>

(* Text pages are loaded from the file; the guard and the stack follow.    *)
ExecPage(p) ==
    /\ Runs(p, "exec") /\ op[p].page < TextPages + 2
    /\ LET a == op[p].page
           m == Kalloc(Page(a), free)
           rest == free \ {m} IN
       /\ m # NoFrame /\ CanMap(build[p], a, rest)
       /\ build' = [build EXCEPT ![p] = MapPage(@, a, m, TRUE, rest)]
       /\ free' = Taken(build[p], a, rest)
       /\ content' = [content EXCEPT ![m] = IF a < TextPages THEN Image ELSE Zero]
    /\ op' = [op EXCEPT ![p].page = @ + 1]
    /\ UNCHANGED <<status, kstack, sz, vm, top, calls, halted>>

(* No memory, a bad program or too many arguments: the copy is freed.      *)
ExecFails(p) ==
    /\ Runs(p, "exec")
    /\ Return(FramesOf(build[p]))
    /\ build' = [build EXCEPT ![p] = NoSpace]
    /\ op' = [op EXCEPT ![p] = User]
    /\ UNCHANGED <<status, kstack, sz, vm, top, calls, halted>>

(* clearpteu, the arguments, the commit and freevm of the old space.       *)
ExecCommit(p) ==
    /\ Runs(p, "exec") /\ op[p].page = TextPages + 2
    /\ LET new == [build[p] EXCEPT !.pte[TextPages].user = FALSE] IN
       /\ vm' = [vm EXCEPT ![p] = new]
       /\ free' = free \cup FramesOf(vm[p])
       /\ content' = [f \in Frames |->
             CASE f = new.pte[TextPages + 1].frame -> Image
               [] f \in FramesOf(vm[p]) -> Junk
               [] OTHER -> content[f]]
    /\ halted' = IF HasHole(vm[p]) THEN "kfree" ELSE halted
    /\ build' = [build EXCEPT ![p] = NoSpace]
    /\ sz' = [sz EXCEPT ![p] = TextPages + 2]
    /\ top' = [top EXCEPT ![p] = TextPages + 2]
    /\ op' = [op EXCEPT ![p] = User]
    /\ UNCHANGED <<status, kstack, calls>>

-----------------------------------------------------------------------------
(* exit, called by a program; the first one never does.                    *)
Exit(p) ==
    /\ Runs(p, "user") /\ p # InitProc
    /\ Ends(p)
    /\ UNCHANGED <<free, content, kstack, sz, vm, build, op, top, calls>>

(* wait frees the kernel stack and the space of a zombie.                  *)
Reap(p, q) ==
    /\ Runs(p, "user")
    /\ status[q] = "zombie"
    /\ Return(FramesOf(vm[q]) \cup {kstack[q]})
    /\ halted' = IF HasHole(vm[q]) THEN "kfree" ELSE halted
    /\ status' = [status EXCEPT ![q] = "unused"]
    /\ kstack' = [kstack EXCEPT ![q] = NoFrame]
    /\ vm' = [vm EXCEPT ![q] = NoSpace]
    /\ sz' = [sz EXCEPT ![q] = 0]
    /\ top' = [top EXCEPT ![q] = 0]
    /\ UNCHANGED <<build, op, calls>>

Next ==
    \E p \in Procs :
       \/ \E n \in Deltas : Sbrk(p, n)
       \/ \E a \in Pages, v \in Data : Write(p, a, v)
       \/ \E a \in Pages : FaultWalk(p, a)
       \/ FaultMap(p) \/ FaultFails(p)
       \/ \E q \in Procs : ForkBegin(p, q)
       \/ ForkCopy(p) \/ ForkSkip(p) \/ ForkPanic(p) \/ ForkFails(p) \/ ForkDone(p)
       \/ ExecBegin(p) \/ ExecPage(p) \/ ExecFails(p) \/ ExecCommit(p)
       \/ Exit(p)
       \/ \E q \in Procs : Reap(p, q)

Spec == Init /\ [][Next]_vars

-----------------------------------------------------------------------------
(* Every frame of the allocator is used exactly once: it is free, or the   *)
(* kernel stack of one process, or the directory, one table or one page of *)
(* one space, the ones fork and exec are still building included.  What a  *)
(* failed fork or exec leaves behind is neither lost nor freed twice, and  *)
(* no two processes have a frame in common.                                *)
InSpace(name, s) ==
    {<<name, "dir", s.dir>>}
    \cup {<<name, "table", t, s.table[t]>> : t \in Tables}
    \cup {<<name, "page", a, s.pte[a].frame>> : a \in Pages}
Holders ==
    {h \in UNION {InSpace(<<"vm", p>>, vm[p]) \cup InSpace(<<"build", p>>, build[p])
                    \cup {<<p, "stack", kstack[p]>>} : p \in Procs} :
        h[Len(h)] \in Frames}
FramesUsedOnce ==
    /\ {h[Len(h)] : h \in Holders} = Frames \ free
    /\ Cardinality(Holders) = Cardinality(Frames \ free)

(* Every process sees a memory of its own that keeps what was written,     *)
(* starts at zero and is copied by fork: Paging implements AddressSpace.   *)
Seen(p) ==
    IF status[p] = "live"
    THEN [a \in Pages |->
            CASE ~Mapped(vm[p], a) -> Zero
              [] vm[p].pte[a].frame = NoMemory -> Lost
              [] OTHER -> content[vm[p].pte[a].frame]]
    ELSE <<>>
Guarded(p) == {a \in Pages : Mapped(vm[p], a) /\ ~vm[p].pte[a].user}
IfLive(p, x, default) == IF status[p] = "live" THEN x ELSE default

Memory == INSTANCE AddressSpace WITH
    mem <- [p \in Procs |-> Seen(p)],
    size <- [p \in Procs |-> IfLive(p, sz[p], 0)],
    reach <- [p \in Procs |-> IfLive(p, top[p], 0)],
    guard <- [p \in Procs |-> IfLive(p, Guarded(p), {})]

MemoryKept == Memory!Spec
====
