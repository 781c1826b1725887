------------------------------- MODULE UMalloc -------------------------------
(***************************************************************************)
(* malloc and free of xv6 user programs (umalloc.c): a circular list of    *)
(* free blocks in the order of their addresses, with base, a block of size *)
(* 0 below the heap.  Addresses and sizes count headers.  The list is the  *)
(* memory's own content: ptr and size of a header.  What is left in memory *)
(* of headers that are none any more is forgotten.                         *)
(***************************************************************************)
EXTENDS Integers, FiniteSets

CONSTANTS HeapTop,    \* addresses 1 .. HeapTop - 1 can be had from sbrk
          Chunk,      \* the least that morecore asks for
          HeaderSize, \* in bytes
          Requests,   \* what malloc is asked for, in bytes
          Grabs       \* what the program itself asks sbrk for, in headers

ASSUME MallocAssumption ==
  /\ {HeapTop, Chunk, HeaderSize} \subseteq Nat \ {0}
  /\ Requests \subseteq Nat /\ Grabs \subseteq Nat \ {0}

VARIABLES hdr,    \* the header at each address, those never written unset
          freep,  \* where the search starts, or Null before the first call
          brk,    \* the end of the process's memory
          live,   \* the blocks the program has, by address of the header
          taken,  \* history: the addresses morecore got
          reply   \* what the last malloc asked for and got

mallocVars == <<hdr, freep, brk, live, taken, reply>>

Base == 0
Null == -1
NoHeader == [ptr |-> Null, size |-> 0]
NoReply == [asked |-> -1, block |-> Null]
Units(nbytes) == (nbytes + HeaderSize - 1) \div HeaderSize + 1

MallocInit ==
  /\ hdr = [a \in 0 .. HeapTop - 1 |-> NoHeader]
  /\ freep = Null /\ brk = 1
  /\ live = {} /\ taken = {} /\ reply = NoReply

----------------------------------------------------------------------------
\* The k-th block of h after p.
After(h, p, k) ==
  LET walk[i \in 0 .. k] == IF i = 0 THEN p ELSE h[walk[i - 1]].ptr
  IN walk[k]

\* The search of free goes round from freep to the block that bp follows.
Belongs(h, bp, p) ==
  \/ bp > p /\ bp < h[p].ptr
  \/ p >= h[p].ptr /\ (bp > p \/ bp < h[p].ptr)

Before(h, from, bp) ==
  LET k == CHOOSE i \in 0 .. HeapTop :
             /\ Belongs(h, bp, After(h, from, i))
             /\ \A j \in 0 .. i - 1 : ~Belongs(h, bp, After(h, from, j))
  IN After(h, from, k)

JoinNext(h, p, bp) == [h EXCEPT ![bp].ptr = h[p].ptr]   \* mutant

\* bp swallows the block after it, or points to it.
JoinUpper(h, p, bp) ==
  LET next == h[p].ptr
  IN IF bp + h[bp].size = next
     THEN [h EXCEPT ![bp] = [ptr |-> h[next].ptr, size |-> @.size + h[next].size],
                    ![next] = NoHeader]
     ELSE [h EXCEPT ![bp].ptr = next]

JoinLower(h, p, bp) ==
  IF p + h[p].size = bp
  THEN [h EXCEPT ![p] = [ptr |-> h[bp].ptr, size |-> @.size + h[bp].size],
                 ![bp] = NoHeader]
  ELSE [h EXCEPT ![p].ptr = bp]

\* free(bp + 1): the new headers and the new freep.
Freed(h, from, bp) ==
  LET p == Before(h, from, bp)
  IN [hdr |-> JoinLower(JoinUpper(h, p, bp), p, bp), freep |-> p]

\* The first block after prevp that is large enough, once round to freep; the
\* block before it, or Null.
FoundBefore(h, from, nunits) ==
  LET ring == {k \in 0 .. HeapTop : \A j \in 1 .. k : After(h, from, j) # from}
      fits == {k \in ring : h[After(h, from, k + 1)].size >= nunits}
  IN IF fits = {} THEN Null
     ELSE After(h, from, CHOOSE k \in fits : \A j \in fits : k <= j)

KeepWhole(h, prevp, nunits) ==   \* Mutant: the rest of the block goes with it.
  LET p == h[prevp].ptr
  IN [hdr |-> [h EXCEPT ![prevp].ptr = h[p].ptr], block |-> p]

Cut(h, prevp, nunits) ==
  LET p == h[prevp].ptr
      q == p + h[p].size - nunits
  IN IF h[p].size = nunits
     THEN [hdr |-> [h EXCEPT ![prevp].ptr = h[p].ptr, ![p].ptr = Null], block |-> p]
     ELSE [hdr |-> [h EXCEPT ![p].size = @ - nunits, ![q] = [ptr |-> Null, size |-> nunits]],
           block |-> q]

More(nunits) == IF nunits < Chunk THEN Chunk ELSE nunits

----------------------------------------------------------------------------
Got(h, prevp, nbytes) ==
  LET cut == Cut(h, prevp, Units(nbytes))
  IN /\ hdr' = cut.hdr /\ freep' = prevp
     /\ live' = live \cup {cut.block}
     /\ reply' = [asked |-> nbytes, block |-> cut.block]

Malloc(nbytes) ==
  LET first == freep = Null
      h == IF first THEN [hdr EXCEPT ![Base] = [ptr |-> Base, size |-> 0]] ELSE hdr
      from == IF first THEN Base ELSE freep
      prevp == FoundBefore(h, from, Units(nbytes))
      nu == More(Units(nbytes))
      grown == Freed([h EXCEPT ![brk].size = nu], from, brk)
  IN CASE prevp # Null ->
            Got(h, prevp, nbytes) /\ UNCHANGED <<brk, taken>>
       [] prevp = Null /\ brk + nu <= HeapTop ->
            /\ Got(grown.hdr, FoundBefore(grown.hdr, grown.freep, Units(nbytes)), nbytes)
            /\ brk' = brk + nu
            /\ taken' = taken \cup brk .. brk + nu - 1
       [] OTHER ->
            /\ hdr' = h /\ freep' = from
            /\ reply' = [asked |-> nbytes, block |-> Null]
            /\ UNCHANGED <<brk, live, taken>>

Free(bp) ==
  LET after == Freed(hdr, freep, bp)
  IN /\ bp \in live
     /\ hdr' = after.hdr /\ freep' = after.freep
     /\ live' = live \ {bp} /\ reply' = NoReply
     /\ UNCHANGED <<brk, taken>>

\* sbrk called by the program leaves a hole in what malloc has.
Grab(n) ==
  /\ brk + n <= HeapTop
  /\ brk' = brk + n /\ reply' = NoReply
  /\ UNCHANGED <<hdr, freep, live, taken>>

MallocNext ==
  \/ \E n \in Requests : Malloc(n)
  \/ \E bp \in live : Free(bp)
  \/ \E n \in Grabs : Grab(n)

MallocSpec == MallocInit /\ [][MallocNext]_mallocVars

----------------------------------------------------------------------------
FreeList == {After(hdr, freep, k) : k \in 0 .. HeapTop}
Extent(b) == b .. b + hdr[b].size - 1

(* The heap is divided: every header that morecore got is in exactly one    *)
(* block, free or handed out; the free list runs once through the addresses *)
(* in order, and no two free blocks touch, so that no request fails for     *)
(* want of joining them (umalloc.c:29-46).                                  *)
HeapDivided ==
  freep # Null =>
    LET blocks == live \cup (FreeList \ {Base})
    IN /\ Base \in FreeList /\ live \cap FreeList = {}
       /\ UNION {Extent(b) : b \in blocks} = taken
       /\ \A b, c \in blocks : b < c => b + hdr[b].size <= c
       /\ Cardinality({b \in FreeList : hdr[b].ptr <= b}) = 1
       /\ \A b, c \in FreeList : b + hdr[b].size # c \/ b = Base

(* malloc gives a block of enough bytes behind its header, and fails only   *)
(* when no free block is large enough and the memory cannot grow; what it   *)
(* hands out is not larger than what was asked for by more than a header    *)
(* (umalloc.c:69-88).                                                       *)
MallocAnswers ==
  reply # NoReply =>
    IF reply.block = Null
    THEN /\ \A b \in FreeList : (hdr[b].size - 1) * HeaderSize < reply.asked
         /\ brk + More(Units(reply.asked)) > HeapTop
    ELSE /\ (hdr[reply.block].size - 1) * HeaderSize >= reply.asked
         /\ (hdr[reply.block].size - 2) * HeaderSize < reply.asked

(* What malloc gives out and keeps is sound and it answers what it can      *)
(* (umalloc.c:23-89).                                                       *)
HeapSound == HeapDivided /\ MallocAnswers
=============================================================================
