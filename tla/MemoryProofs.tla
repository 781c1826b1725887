---------------------------- MODULE MemoryProofs ----------------------------
(***************************************************************************)
(* That every frame of the allocator is used once, and that the paged      *)
(* memory is the one AddressSpace promises, for any finite set of frames,  *)
(* any processes and any size of the address space; that the list of the C *)
(* tutorial is a queue, over any addresses and for any insertions; and     *)
(* that malloc and free divide a heap of any size soundly.                 *)
(***************************************************************************)
EXTENDS Paging, LinkedList, UMalloc, FiniteSetTheorems, WellFoundedInduction, TLAPS

(* One address space: its frames are apart, its pages have tables.         *)

Entries == [frame : Frames \cup {NoFrame, NoMemory}, user : BOOLEAN]
Spaces == [dir : Frames \cup {NoFrame}, table : [Tables -> Frames \cup {NoFrame}],
           pte : [Pages -> Entries]]

Apart(s) ==
  /\ \A t \in Tables : s.table[t] \in Frames => s.table[t] # s.dir
  /\ \A t, u \in Tables : s.table[t] \in Frames /\ s.table[t] = s.table[u] => t = u
  /\ \A a \in Pages : s.pte[a].frame \in Frames => s.pte[a].frame # s.dir
  /\ \A a, b \in Pages : s.pte[a].frame \in Frames /\ s.pte[a].frame = s.pte[b].frame => a = b
  /\ \A a \in Pages, t \in Tables : s.pte[a].frame \in Frames => s.pte[a].frame # s.table[t]

Tabled(s) ==
  \A a \in Pages : /\ s.pte[a].frame = NoFrame => s.pte[a] = Unmapped
                   /\ Mapped(s, a) => Present(s, a)

Whole(s) == s \in Spaces /\ Apart(s) /\ Tabled(s)

LEMMA Indexing == /\ \A a \in Pages : TableOf(a) \in Tables
                  /\ 0 \in Pages /\ Pages \subseteq Nat /\ MaxPages \in Nat
                  /\ TextPages \in Pages /\ TextPages + 1 \in Pages /\ TextPages # 0
BY PagingAssumption DEF Pages, TableOf, Tables

LEMMA Picked ==
  ASSUME NEW set \in SUBSET Frames
  PROVE  /\ Kalloc(Stack, set) \in set \cup {NoFrame} /\ (Kalloc(Stack, set) = NoFrame <=> set = {})
         /\ Kalloc(Dir, set) \in set \cup {NoFrame} /\ (Kalloc(Dir, set) = NoFrame <=> set = {})
         /\ \A a \in Pages :
              /\ Kalloc(Page(a), set) \in set \cup {NoFrame}
              /\ Kalloc(Page(a), set) = NoFrame <=> set = {}
              /\ Kalloc(Table(a), set) \in set \cup {NoFrame}
              /\ Kalloc(Table(a), set) = NoFrame <=> set = {}
<1>1. \A use \in Uses : /\ Kalloc(use, set) \in set \cup {NoFrame}
                        /\ Kalloc(use, set) = NoFrame <=> set = {}
  <2> TAKE use \in Uses
  <2>1. CASE set = {}
    BY <2>1 DEF Kalloc
  <2>2. CASE set # {}
    <3>1. Pick(use, set) \in set
      BY <2>2, PagingAssumption
    <3>2. NoFrame \notin Frames
      BY PagingAssumption
    <3> QED BY <2>2, <3>1, <3>2 DEF Kalloc
  <2> QED BY <2>1, <2>2
<1>2. Stack \in Uses /\ Dir \in Uses /\ \A a \in Pages : Page(a) \in Uses /\ Table(a) \in Uses
  BY DEF Uses
<1> HIDE DEF Kalloc
<1> QED BY <1>1, <1>2

LEMMA NothingMapped == Whole(NoSpace) /\ FramesOf(NoSpace) = {}
<1>1. NoFrame \notin Frames
  BY PagingAssumption
<1>2. NoSpace \in Spaces
  BY DEF NoSpace, Spaces, Entries, Unmapped
<1>3. Apart(NoSpace)
  BY <1>1 DEF NoSpace, Apart, Unmapped
<1>4. Tabled(NoSpace)
  BY DEF NoSpace, Tabled, Mapped
<1>5. FramesOf(NoSpace) = {}
  BY DEF NoSpace, FramesOf, Unmapped
<1> QED BY <1>2, <1>3, <1>4, <1>5 DEF Whole

LEMMA OnlyDirectory ==
  ASSUME NEW d \in Frames
  PROVE  LET s == [NoSpace EXCEPT !.dir = d]
         IN  Whole(s) /\ FramesOf(s) = {d} /\ s.pte = NoSpace.pte
<1> DEFINE s == [NoSpace EXCEPT !.dir = d]
<1>1. NoFrame \notin Frames /\ NoMemory \notin Frames
  BY PagingAssumption
<1>2. s = [dir |-> d, table |-> [t \in Tables |-> NoFrame], pte |-> [a \in Pages |-> Unmapped]]
  BY DEF NoSpace
<1> HIDE DEF s
<1>3. s \in Spaces
  BY <1>2 DEF Spaces, Entries, Unmapped
<1>4. Apart(s)
  BY <1>2, <1>1 DEF Apart, Unmapped
<1>5. Tabled(s)
  BY <1>2 DEF Tabled, Mapped
<1>6. FramesOf(s) = {d}
  BY <1>2, <1>1 DEF FramesOf, Unmapped
<1>7. s.pte = NoSpace.pte
  BY <1>2 DEF NoSpace
<1> QED BY <1>3, <1>4, <1>5, <1>6, <1>7 DEF Whole, s

\* The table that walkpgdir may have to allocate.
LEMMA TableHad ==
  ASSUME NEW s, Whole(s), NEW a \in Pages, NEW set \in SUBSET Frames, set \cap FramesOf(s) = {}
  PROVE  LET s1 == [s EXCEPT !.table[TableOf(a)] =
                               IF Present(s, a) THEN @ ELSE Kalloc(Table(a), set)]
         IN  /\ Whole(s1) /\ s1.pte = s.pte
             /\ Taken(s, a, set) \subseteq set
             /\ FramesOf(s1) = FramesOf(s) \cup (set \ Taken(s, a, set))
             /\ CanMap(s, a, set) => Present(s1, a)
             /\ \A b \in Pages : Present(s, b) => Present(s1, b)
<1> DEFINE t == TableOf(a)
           f == IF Present(s, a) THEN s.table[t] ELSE Kalloc(Table(a), set)
           s1 == [s EXCEPT !.table[TableOf(a)] =
                             IF Present(s, a) THEN @ ELSE Kalloc(Table(a), set)]
<1>1. /\ NoFrame \notin Frames /\ NoMemory \notin Frames /\ NoFrame # NoMemory
      /\ t \in Tables /\ \A b \in Pages : TableOf(b) \in Tables
  BY PagingAssumption, Indexing
<1>2. s \in Spaces /\ Apart(s) /\ Tabled(s)
  BY DEF Whole
<1>3. s = [dir |-> s.dir, table |-> s.table, pte |-> s.pte] /\ s.table \in [Tables -> Frames \cup {NoFrame}]
  BY <1>2 DEF Spaces
<1>4. s1 = [dir |-> s.dir, table |-> [s.table EXCEPT ![t] = f], pte |-> s.pte]
  BY <1>3
<1>5. f \in set \cup {NoFrame, s.table[t]} /\ (f = NoFrame => ~Present(s, a) /\ set = {})
  BY Picked DEF Present
<1>6. IF Present(s, a) THEN f = s.table[t] /\ f \in FramesOf(s) ELSE f \in set \cup {NoFrame} /\ s.table[t] = NoFrame
  BY <1>1, <1>3, Picked DEF Present, FramesOf
<1> HIDE DEF s1, f, t
<1>7. /\ s1.dir = s.dir /\ s1.pte = s.pte /\ s1.table[t] = f
      /\ \A u \in Tables : u # t => s1.table[u] = s.table[u]
  BY <1>1, <1>3, <1>4
<1>8. s1 \in Spaces
  BY <1>1, <1>2, <1>4, <1>5 DEF Spaces
<1>9. \A x \in Frames : x \in set => /\ x # s.dir
                                     /\ \A u \in Tables : x # s.table[u]
                                     /\ \A b \in Pages : x # s.pte[b].frame
  BY <1>1 DEF FramesOf
<1>10. Apart(s1)
  <2>1. \A u \in Tables : s1.table[u] \in Frames => s1.table[u] # s1.dir
    BY <1>1, <1>2, <1>6, <1>7, <1>9 DEF Apart
  <2>2. \A u, v \in Tables : s1.table[u] \in Frames /\ s1.table[u] = s1.table[v] => u = v
    BY <1>1, <1>2, <1>6, <1>7, <1>9 DEF Apart
  <2>3. \A b \in Pages, u \in Tables : s1.pte[b].frame \in Frames => s1.pte[b].frame # s1.table[u]
    BY <1>1, <1>2, <1>6, <1>7, <1>9 DEF Apart
  <2> QED BY <1>2, <1>7, <2>1, <2>2, <2>3 DEF Apart
<1>11. \A b \in Pages : Present(s, b) => Present(s1, b)
  BY <1>1, <1>6, <1>7 DEF Present, t
<1>12. Tabled(s1)
  BY <1>2, <1>7, <1>11 DEF Tabled, Mapped
<1>13. Taken(s, a, set) = IF Present(s, a) THEN set ELSE set \ {f}
  BY DEF Taken, f
<1>14. FramesOf(s1) = FramesOf(s) \cup (set \ Taken(s, a, set))
  <2>1. CASE Present(s, a)
    <3>1. \A u \in Tables : s1.table[u] = s.table[u]
      BY <1>6, <1>7, <2>1
    <3>2. {s1.table[u] : u \in Tables} = {s.table[u] : u \in Tables}
      BY <3>1
    <3>3. set \ Taken(s, a, set) = {}
      BY <1>13, <2>1
    <3> QED BY <1>7, <3>2, <3>3 DEF FramesOf
  <2>2. CASE ~Present(s, a)
    <3>1. {s1.table[u] : u \in Tables} \cup {NoFrame} = {s.table[u] : u \in Tables} \cup {f, NoFrame}
      BY <1>1, <1>6, <1>7, <2>2
    <3>2. set \ Taken(s, a, set) = {f} \ {NoFrame, NoMemory}
      BY <1>1, <1>6, <1>13, <2>2
    <3> HIDE DEF Taken
    <3> QED BY <1>7, <3>1, <3>2 DEF FramesOf
  <2> QED BY <2>1, <2>2
<1>15. CanMap(s, a, set) => Present(s1, a)
  BY <1>5, <1>7 DEF CanMap, Present, t
<1>16. Taken(s, a, set) \subseteq set
  BY <1>13
<1> HIDE DEF Taken
<1> QED BY <1>7, <1>8, <1>10, <1>11, <1>12, <1>14, <1>15, <1>16 DEF Whole, s1

LEMMA EntryMade ==
  ASSUME NEW s, Whole(s), NEW a \in Pages, Present(s, a), ~Mapped(s, a),
         NEW e \in Entries, e.frame # NoFrame, e.frame \notin FramesOf(s)
  PROVE  LET s1 == [s EXCEPT !.pte[a] = e]
         IN  /\ Whole(s1) /\ s1.pte = [s.pte EXCEPT ![a] = e]
             /\ FramesOf(s1) = FramesOf(s) \cup ({e.frame} \ {NoMemory})
<1> DEFINE s1 == [s EXCEPT !.pte[a] = e]
<1>1. /\ NoFrame \notin Frames /\ NoMemory \notin Frames /\ NoFrame # NoMemory
      /\ \A b \in Pages : TableOf(b) \in Tables
  BY PagingAssumption, Indexing
<1>2. s \in Spaces /\ Apart(s) /\ Tabled(s)
  BY DEF Whole
<1>3. s = [dir |-> s.dir, table |-> s.table, pte |-> s.pte] /\ s.pte \in [Pages -> Entries]
  BY <1>2 DEF Spaces
<1>4. s1 = [dir |-> s.dir, table |-> s.table, pte |-> [s.pte EXCEPT ![a] = e]]
  BY <1>3
<1>5. s.pte[a].frame = NoFrame
  BY DEF Mapped, Unmapped
<1>6. e.frame \in Frames \cup {NoMemory}
  BY DEF Entries
<1> HIDE DEF s1
<1>7. /\ s1.dir = s.dir /\ s1.table = s.table /\ s1.pte = [s.pte EXCEPT ![a] = e]
      /\ s1.pte[a] = e /\ \A b \in Pages : b # a => s1.pte[b] = s.pte[b]
  BY <1>3, <1>4
<1>8. s1 \in Spaces
  BY <1>2, <1>3, <1>4 DEF Spaces
<1>9. e.frame \in Frames => /\ e.frame # s.dir
                            /\ \A u \in Tables : e.frame # s.table[u]
                            /\ \A b \in Pages : e.frame # s.pte[b].frame
  BY <1>1 DEF FramesOf
<1>10. Apart(s1)
  <2>1. \A b \in Pages : s1.pte[b].frame \in Frames => s1.pte[b].frame # s1.dir
    BY <1>2, <1>7, <1>9 DEF Apart
  <2>2. \A b, c \in Pages : s1.pte[b].frame \in Frames /\ s1.pte[b].frame = s1.pte[c].frame => b = c
    BY <1>2, <1>7, <1>9 DEF Apart
  <2>3. \A b \in Pages, u \in Tables : s1.pte[b].frame \in Frames => s1.pte[b].frame # s1.table[u]
    BY <1>2, <1>7, <1>9 DEF Apart
  <2> QED BY <1>2, <1>7, <2>1, <2>2, <2>3 DEF Apart
<1>11. Tabled(s1)
  BY <1>2, <1>7 DEF Tabled, Mapped, Present
<1>12. FramesOf(s1) = FramesOf(s) \cup ({e.frame} \ {NoMemory})
  <2>1. {s1.pte[b].frame : b \in Pages} \cup {NoFrame} = {s.pte[b].frame : b \in Pages} \cup {e.frame, NoFrame}
    BY <1>5, <1>7
  <2> QED BY <1>7, <2>1 DEF FramesOf
<1> QED BY <1>7, <1>8, <1>10, <1>11, <1>12 DEF Whole, s1

\* mappages takes one frame and one more for a table, or none at all.
LEMMA PageMapped ==
  ASSUME NEW s, Whole(s), NEW a \in Pages, NEW set \in SUBSET Frames, set \cap FramesOf(s) = {},
         CanMap(s, a, set), ~Mapped(s, a), NEW user \in BOOLEAN,
         NEW f \in Frames \cup {NoMemory}, f \notin FramesOf(s) \cup set
  PROVE  LET s1 == MapPage(s, a, f, user, set)
         IN  /\ Whole(s1) /\ s1.pte = [s.pte EXCEPT ![a] = [frame |-> f, user |-> user]]
             /\ Taken(s, a, set) \subseteq set
             /\ FramesOf(s1) = FramesOf(s) \cup (set \ Taken(s, a, set)) \cup ({f} \ {NoMemory})
<1> DEFINE g == IF Present(s, a) THEN s.table[TableOf(a)] ELSE Kalloc(Table(a), set)
           s1 == [s EXCEPT !.table[TableOf(a)] =
                             IF Present(s, a) THEN @ ELSE Kalloc(Table(a), set)]
           e == [frame |-> f, user |-> user]
<1>1. s = [dir |-> s.dir, table |-> s.table, pte |-> s.pte] /\ NoFrame \notin Frames /\ NoFrame # NoMemory
  BY PagingAssumption DEF Whole, Spaces
<1>2. s1 = [dir |-> s.dir, table |-> [s.table EXCEPT ![TableOf(a)] = g], pte |-> s.pte]
  BY <1>1
<1>3. MapPage(s, a, f, user, set) =
        [dir |-> s.dir, table |-> [s.table EXCEPT ![TableOf(a)] = g], pte |-> [s.pte EXCEPT ![a] = e]]
  <2>1. MapPage(s, a, f, user, set) = [s EXCEPT !.table[TableOf(a)] = g, !.pte[a] = e]
    BY DEF MapPage
  <2> HIDE DEF g, e
  <2> QED BY <1>1, <2>1
<1>4. [s1 EXCEPT !.pte[a] = e] =
        [dir |-> s.dir, table |-> [s.table EXCEPT ![TableOf(a)] = g], pte |-> [s.pte EXCEPT ![a] = e]]
  <2> HIDE DEF s1, g, e
  <2> QED BY <1>2
<1>5. /\ Whole(s1) /\ s1.pte = s.pte /\ Present(s1, a) /\ Taken(s, a, set) \subseteq set
      /\ FramesOf(s1) = FramesOf(s) \cup (set \ Taken(s, a, set))
  BY TableHad
<1>6. e \in Entries /\ e.frame # NoFrame /\ e.frame = f
  BY <1>1 DEF Entries
<1>7. MapPage(s, a, f, user, set) = [s1 EXCEPT !.pte[a] = e]
  BY <1>3, <1>4
<1>8. ~Mapped(s1, a)
  BY <1>5 DEF Mapped
<1> HIDE DEF s1, e
<1>9. f \notin FramesOf(s1)
  BY <1>5
<1>10. /\ Whole([s1 EXCEPT !.pte[a] = e]) /\ [s1 EXCEPT !.pte[a] = e].pte = [s1.pte EXCEPT ![a] = e]
       /\ FramesOf([s1 EXCEPT !.pte[a] = e]) = FramesOf(s1) \cup ({e.frame} \ {NoMemory})
  BY <1>5, <1>6, <1>8, <1>9, EntryMade
<1> QED BY <1>5, <1>6, <1>7, <1>10 DEF e

\* kalloc takes m of the free frames fr, or nothing, and leaves rest; the entry
\* made points at f.
Gets(fr, m, rest, f) ==
  /\ m \in fr \cup {NoFrame} /\ rest = fr \ {m}
  /\ f = IF m = NoFrame THEN NoMemory ELSE m

\* fr are free frames, none of them in the space s.
FreeBeside(fr, s) == fr \in SUBSET Frames /\ fr \cap FramesOf(s) = {}

\* s1 is s with the entry e for page a and what left the free frames fr.
Grown(s, s1, fr, left, a, e) ==
  /\ Whole(s1) /\ s1.pte = [s.pte EXCEPT ![a] = e]
  /\ left \subseteq fr /\ FramesOf(s1) = FramesOf(s) \cup (fr \ left)

LEMMA PageTaken ==
  ASSUME NEW s, Whole(s), NEW a \in Pages, ~Mapped(s, a), NEW user \in BOOLEAN,
         NEW fr, FreeBeside(fr, s),
         NEW m, NEW rest, NEW f, Gets(fr, m, rest, f), CanMap(s, a, rest)
  PROVE  Grown(s, MapPage(s, a, f, user, rest), fr, Taken(s, a, rest), a, [frame |-> f, user |-> user])
<1>1. fr \in SUBSET Frames /\ fr \cap FramesOf(s) = {}
  BY DEF FreeBeside
<1>2. /\ rest = fr \ {m} /\ m \in fr \cup {NoFrame}
      /\ f = IF m = NoFrame THEN NoMemory ELSE m
  BY DEF Gets
<1>3. NoMemory \notin Frames /\ NoFrame \notin Frames /\ NoFrame # NoMemory /\ NoMemory \notin FramesOf(s)
  BY PagingAssumption DEF FramesOf
<1>4. f \in Frames \cup {NoMemory} /\ f \notin FramesOf(s) \cup rest /\ {f} \ {NoMemory} = {m} \ {NoFrame}
  BY <1>1, <1>2, <1>3
<1>5. rest \in SUBSET Frames /\ rest \cap FramesOf(s) = {} /\ CanMap(s, a, rest)
  BY <1>1, <1>2
<1> DEFINE s1 == MapPage(s, a, f, user, rest)
           t == Taken(s, a, rest)
<1>6. /\ Whole(s1) /\ s1.pte = [s.pte EXCEPT ![a] = [frame |-> f, user |-> user]]
      /\ t \subseteq rest
      /\ FramesOf(s1) = FramesOf(s) \cup (rest \ t) \cup ({f} \ {NoMemory})
  BY <1>4, <1>5, PageMapped
<1> HIDE DEF s1, t
<1>7. FramesOf(s1) = FramesOf(s) \cup (fr \ t)
  BY <1>1, <1>2, <1>3, <1>4, <1>6
<1>8. t \subseteq fr
  BY <1>2, <1>6
<1> QED BY <1>6, <1>7, <1>8 DEF s1, t, Grown

LEMMA Unset ==
  ASSUME NEW r \in Entries
  PROVE  [r EXCEPT !.user = FALSE] = [frame |-> r.frame, user |-> FALSE]
<1> DEFINE x == [r EXCEPT !.user = FALSE]
<1>1. x \in Entries
  BY DEF Entries
<1>2. x.frame = r.frame
  BY DEF Entries
<1>3. x.user = FALSE
  BY DEF Entries
<1> HIDE DEF x
<1>4. x = [frame |-> r.frame, user |-> FALSE]
  BY <1>1, <1>2, <1>3 DEF Entries
<1> QED BY <1>4 DEF x

\* clearpteu takes the guard page from the program and no frame from the space.
LEMMA GuardMade ==
  ASSUME NEW s, Whole(s), NEW a \in Pages
  PROVE  LET s1 == [s EXCEPT !.pte[a].user = FALSE]
         IN  /\ Whole(s1) /\ FramesOf(s1) = FramesOf(s)
             /\ s1.pte = [s.pte EXCEPT ![a] = [frame |-> s.pte[a].frame, user |-> FALSE]]
<1> DEFINE s1 == [s EXCEPT !.pte[a].user = FALSE]
           e == [frame |-> s.pte[a].frame, user |-> FALSE]
<1>1. s \in Spaces /\ Apart(s) /\ Tabled(s)
  BY DEF Whole
<1>2. /\ s = [dir |-> s.dir, table |-> s.table, pte |-> s.pte] /\ s.pte \in [Pages -> Entries]
      /\ s.pte[a] = [frame |-> s.pte[a].frame, user |-> s.pte[a].user] /\ e \in Entries
  BY <1>1 DEF Spaces, Entries
<1>3. s1 = [dir |-> s.dir, table |-> s.table, pte |-> [s.pte EXCEPT ![a] = e]]
  <2>1. [s.pte[a] EXCEPT !.user = FALSE] = e
    BY <1>2, Unset
  <2>2. s1 = [s EXCEPT !.pte = [s.pte EXCEPT ![a] = [s.pte[a] EXCEPT !.user = FALSE]]]
    OBVIOUS
  <2> HIDE DEF s1, e
  <2> QED BY <1>2, <2>1, <2>2
<1>4. e.frame = s.pte[a].frame /\ (e.frame = NoFrame => e = Unmapped)
  BY DEF Unmapped
<1> HIDE DEF s1, e
<1>5. /\ s1.dir = s.dir /\ s1.table = s.table /\ s1.pte = [s.pte EXCEPT ![a] = e]
      /\ s1.pte[a] = e /\ \A b \in Pages : b # a => s1.pte[b] = s.pte[b]
  BY <1>2, <1>3
<1>6. \A b \in Pages : s1.pte[b].frame = s.pte[b].frame
  BY <1>4, <1>5
<1>7. s1 \in Spaces
  BY <1>1, <1>2, <1>3 DEF Spaces
<1>8. Apart(s1)
  BY <1>1, <1>5, <1>6 DEF Apart
<1>9. Tabled(s1)
  <2>0. Unmapped.frame = NoFrame
    BY DEF Unmapped
  <2>1. \A b \in Pages : Mapped(s1, b) => Mapped(s, b)
    BY <1>4, <1>5, <2>0 DEF Mapped
  <2>2. \A b \in Pages : s1.pte[b].frame = NoFrame => s1.pte[b] = Unmapped
    BY <1>1, <1>4, <1>5 DEF Tabled
  <2> QED BY <1>1, <1>5, <2>1, <2>2 DEF Tabled, Present
<1>10. FramesOf(s1) = FramesOf(s)
  BY <1>5, <1>6 DEF FramesOf
<1> QED BY <1>5, <1>7, <1>8, <1>9, <1>10 DEF Whole, s1, e

-----------------------------------------------------------------------------
(* The frames are shared out among the free list and the owners: each      *)
(* process's space, the one it is building and its kernel stack.           *)

Kinds == {"vm", "build", "stack"}
Own(v, b, k) ==
  [i \in Kinds |-> [p \in Procs |-> CASE i = "vm" -> FramesOf(v[p])
                                      [] i = "build" -> FramesOf(b[p])
                                      [] i = "stack" -> {k[p]} \ {NoFrame}]]

Split(fr, own) ==
  /\ \A i \in Kinds, p \in Procs : own[i][p] \subseteq Frames /\ own[i][p] \cap fr = {}
  /\ fr \subseteq Frames
  /\ \A i, j \in Kinds, p, q \in Procs : i # j \/ p # q => own[i][p] \cap own[j][q] = {}
  /\ \A f \in Frames : f \in fr \/ \E i \in Kinds, p \in Procs : f \in own[i][p]

\* own2 is own but for what x has of kind k.
Only(own, own2, k, x, fs) ==
  \A i \in Kinds, p \in Procs : own2[i][p] = IF i = k /\ p = x THEN fs ELSE own[i][p]

LEMMA SplitTaken ==
  ASSUME NEW fr, NEW own, Split(fr, own), NEW k \in Kinds, NEW x \in Procs, NEW new \in SUBSET fr,
         NEW fs, fs = own[k][x] \cup new, NEW own2, Only(own, own2, k, x, fs)
  PROVE  Split(fr \ new, own2)
BY DEF Split, Only

LEMMA SplitGiven ==
  ASSUME NEW fr, NEW own, Split(fr, own), NEW k \in Kinds, NEW x \in Procs,
         NEW own2, Only(own, own2, k, x, {})
  PROVE  Split(fr \cup own[k][x], own2)
BY DEF Split, Only

LEMMA SplitMoved ==
  ASSUME NEW fr, NEW own, Split(fr, own), NEW x \in Procs, NEW y \in Procs, own["vm"][y] = {},
         NEW own2, Only(own, own2, "build", x, {}),
         NEW own3, Only(own2, own3, "vm", y, own["build"][x])
  PROVE  Split(fr, own3)
BY DEF Split, Only, Kinds

LEMMA OwnIs ==
  ASSUME NEW v, NEW b, NEW k, NEW p \in Procs
  PROVE  /\ Own(v, b, k)["vm"][p] = FramesOf(v[p])
         /\ Own(v, b, k)["build"][p] = FramesOf(b[p])
         /\ Own(v, b, k)["stack"][p] = {k[p]} \ {NoFrame}
BY DEF Own, Kinds

LEMMA VmChanged ==
  ASSUME NEW v \in [Procs -> Spaces], NEW b, NEW k, NEW p \in Procs, NEW s
  PROVE  Only(Own(v, b, k), Own([v EXCEPT ![p] = s], b, k), "vm", p, FramesOf(s))
BY DEF Own, Only, Kinds

LEMMA BuildChanged ==
  ASSUME NEW v, NEW b \in [Procs -> Spaces], NEW k, NEW p \in Procs, NEW s
  PROVE  Only(Own(v, b, k), Own(v, [b EXCEPT ![p] = s], k), "build", p, FramesOf(s))
BY DEF Own, Only, Kinds

LEMMA StackChanged ==
  ASSUME NEW v, NEW b, NEW k \in [Procs -> Frames \cup {NoFrame}], NEW p \in Procs, NEW f
  PROVE  Only(Own(v, b, k), Own(v, b, [k EXCEPT ![p] = f]), "stack", p, {f} \ {NoFrame})
BY DEF Own, Only, Kinds

LEMMA VmTakes ==
  ASSUME NEW fr, NEW v \in [Procs -> Spaces], NEW b, NEW k, Split(fr, Own(v, b, k)),
         NEW p \in Procs, NEW s, NEW new \in SUBSET fr, FramesOf(s) = FramesOf(v[p]) \cup new
  PROVE  Split(fr \ new, Own([v EXCEPT ![p] = s], b, k))
<1>1. FramesOf(s) = Own(v, b, k)["vm"][p] \cup new
  BY OwnIs
<1>2. Only(Own(v, b, k), Own([v EXCEPT ![p] = s], b, k), "vm", p, FramesOf(s))
  BY VmChanged
<1> QED BY <1>1, <1>2, SplitTaken DEF Kinds

LEMMA BuildTakes ==
  ASSUME NEW fr, NEW v, NEW b \in [Procs -> Spaces], NEW k, Split(fr, Own(v, b, k)),
         NEW p \in Procs, NEW s, NEW new \in SUBSET fr, FramesOf(s) = FramesOf(b[p]) \cup new
  PROVE  Split(fr \ new, Own(v, [b EXCEPT ![p] = s], k))
<1>1. FramesOf(s) = Own(v, b, k)["build"][p] \cup new
  BY OwnIs
<1>2. Only(Own(v, b, k), Own(v, [b EXCEPT ![p] = s], k), "build", p, FramesOf(s))
  BY BuildChanged
<1> QED BY <1>1, <1>2, SplitTaken DEF Kinds

LEMMA StackTaken ==
  ASSUME NEW fr, NEW v, NEW b, NEW k \in [Procs -> Frames \cup {NoFrame}], Split(fr, Own(v, b, k)),
         NEW p \in Procs, k[p] = NoFrame, NEW f \in fr
  PROVE  Split(fr \ {f}, Own(v, b, [k EXCEPT ![p] = f]))
<1>1. f # NoFrame
  BY PagingAssumption DEF Split
<1>2. {f} \ {NoFrame} = Own(v, b, k)["stack"][p] \cup {f}
  BY <1>1, OwnIs
<1>3. Only(Own(v, b, k), Own(v, b, [k EXCEPT ![p] = f]), "stack", p, {f} \ {NoFrame})
  BY StackChanged
<1> QED BY <1>2, <1>3, SplitTaken DEF Kinds

LEMMA VmGiven ==
  ASSUME NEW fr, NEW v \in [Procs -> Spaces], NEW b, NEW k, Split(fr, Own(v, b, k)),
         NEW p \in Procs
  PROVE  Split(fr \cup FramesOf(v[p]), Own([v EXCEPT ![p] = NoSpace], b, k))
<1>1. Only(Own(v, b, k), Own([v EXCEPT ![p] = NoSpace], b, k), "vm", p, {})
  BY VmChanged, NothingMapped
<1> QED BY <1>1, SplitGiven, OwnIs DEF Kinds

LEMMA BuildGiven ==
  ASSUME NEW fr, NEW v, NEW b \in [Procs -> Spaces], NEW k, Split(fr, Own(v, b, k)),
         NEW p \in Procs
  PROVE  Split(fr \cup FramesOf(b[p]), Own(v, [b EXCEPT ![p] = NoSpace], k))
<1>1. Only(Own(v, b, k), Own(v, [b EXCEPT ![p] = NoSpace], k), "build", p, {})
  BY BuildChanged, NothingMapped
<1> QED BY <1>1, SplitGiven, OwnIs DEF Kinds

LEMMA StackGiven ==
  ASSUME NEW fr, NEW v, NEW b, NEW k \in [Procs -> Frames \cup {NoFrame}], Split(fr, Own(v, b, k)),
         NEW p \in Procs, k[p] # NoFrame
  PROVE  Split(fr \cup {k[p]}, Own(v, b, [k EXCEPT ![p] = NoFrame]))
<1>1. Only(Own(v, b, k), Own(v, b, [k EXCEPT ![p] = NoFrame]), "stack", p, {NoFrame} \ {NoFrame})
  BY StackChanged
<1>2. Only(Own(v, b, k), Own(v, b, [k EXCEPT ![p] = NoFrame]), "stack", p, {})
  BY <1>1
<1>3. Own(v, b, k)["stack"][p] = {k[p]}
  BY OwnIs
<1> QED BY <1>2, <1>3, SplitGiven DEF Kinds

\* A space that was built becomes that of a process without one.
LEMMA BuildMoved ==
  ASSUME NEW fr, NEW v \in [Procs -> Spaces], NEW b \in [Procs -> Spaces], NEW k,
         Split(fr, Own(v, b, k)), NEW p \in Procs, NEW q \in Procs, v[q] = NoSpace,
         NEW s, FramesOf(s) = FramesOf(b[p])
  PROVE  Split(fr, Own([v EXCEPT ![q] = s], [b EXCEPT ![p] = NoSpace], k))
<1> DEFINE b2 == [b EXCEPT ![p] = NoSpace]
           own == Own(v, b, k)
           own2 == Own(v, b2, k)
           own3 == Own([v EXCEPT ![q] = s], b2, k)
<1>1. Only(own, own2, "build", p, {})
  <2>1. Only(own, own2, "build", p, FramesOf(NoSpace))
    BY BuildChanged
  <2> QED BY <2>1, NothingMapped
<1>2. Only(own2, own3, "vm", q, own["build"][p])
  <2>1. FramesOf(s) = own["build"][p]
    BY OwnIs
  <2>2. Only(own2, own3, "vm", q, FramesOf(s))
    BY VmChanged
  <2> QED BY <2>1, <2>2
<1>3. own["vm"][q] = {}
  BY OwnIs, NothingMapped
<1> HIDE DEF own, own2, own3
<1>4. Split(fr, own)
  BY DEF own
<1>5. Split(fr, own3)
  BY <1>1, <1>2, <1>3, <1>4, SplitMoved
<1> QED BY <1>5 DEF own3

-----------------------------------------------------------------------------
(* Every frame is used once.                                               *)

Ops == [at : {"user"}] \cup [at : {"fault"}, page : Pages]
       \cup [at : {"exec"}, page : 0 .. TextPages + 2]
       \cup [at : {"fork"}, child : Procs, page : Nat]

MemTypes ==
  /\ status \in [Procs -> {"unused", "embryo", "live", "zombie"}]
  /\ kstack \in [Procs -> Frames \cup {NoFrame}]
  /\ sz \in [Procs -> 0 .. MaxPages]
  /\ vm \in [Procs -> Spaces] /\ build \in [Procs -> Spaces]
  /\ op \in [Procs -> Ops]

Spaced == \A p \in Procs : Whole(vm[p]) /\ Whole(build[p])
Shared == Split(free, Own(vm, build, kstack))

\* Only a live process is in the kernel; what it maps next is not mapped yet.
Steady(p) ==
  /\ status[p] # "live" => op[p] = User
  /\ status[p] \in {"unused", "embryo"} => vm[p] = NoSpace
  /\ status[p] = "unused" <=> kstack[p] = NoFrame
  /\ op[p].at \in {"user", "fault"} => build[p] = NoSpace
  /\ op[p].at = "fault" => ~Mapped(vm[p], op[p].page)
  /\ op[p].at \in {"fork", "exec"} => \A a \in Pages : a >= op[p].page => ~Mapped(build[p], a)
  /\ op[p].at = "fork" => op[p].page <= sz[p]

\* A fork has its child to itself.
Embryos ==
  /\ \A p \in Procs : op[p].at = "fork" => status[op[p].child] = "embryo"
  /\ \A p, q \in Procs :
       op[p].at = "fork" /\ op[q].at = "fork" /\ op[p].child = op[q].child => p = q

LEMMA EmbryosKept ==
  ASSUME Embryos, op \in [Procs -> Ops],
         \A q \in Procs : op'[q].at = "fork" => op[q].at = "fork" /\ op'[q].child = op[q].child,
         \A q \in Procs : status[q] = "embryo" => status'[q] = "embryo"
  PROVE  Embryos'
<1>1. \A q \in Procs : op[q].at = "fork" => op[q].child \in Procs
  BY DEF Ops
<1> QED BY <1>1 DEF Embryos

MemInv == MemTypes /\ Spaced /\ Shared /\ (\A p \in Procs : Steady(p)) /\ Embryos

LEMMA SteadyKept ==
  ASSUME NEW q \in Procs, Steady(q),
         UNCHANGED <<status[q], op[q], vm[q], build[q], kstack[q], sz[q]>>
  PROVE  Steady(q)'
BY DEF Steady, Mapped

LEMMA Fewer ==
  ASSUME NEW S, IsFiniteSet(S), NEW n \in Nat, Cardinality(S) >= n + 1, NEW x
  PROVE  /\ S # {} /\ IsFiniteSet(S \ {x})
         /\ Cardinality(S \ {x}) >= n
<1>1. Cardinality(S) \in Nat
  BY FS_CardinalityType
<1>2. Cardinality(S \ {x}) = IF x \in S THEN Cardinality(S) - 1 ELSE Cardinality(S)
  BY FS_RemoveElement
<1>3. IsFiniteSet(S \ {x})
  BY FS_RemoveElement
<1>4. S # {}
  BY <1>1, FS_EmptySet
<1> QED BY <1>1, <1>2, <1>3, <1>4

FirstPage(d, t, e) == [dir |-> d, table |-> [u \in Tables |-> IF u = 0 THEN t ELSE NoFrame],
                       pte |-> [a \in Pages |-> IF a = 0 THEN e ELSE Unmapped]]

LEMMA Filled ==
  ASSUME NEW x, NEW tb, NEW en, x = [dir |-> NoFrame, table |-> tb, pte |-> en],
         NEW d, NEW t, NEW e, NEW y, y = [x EXCEPT !.dir = d, !.table[0] = t, !.pte[0] = e]
  PROVE  y = [dir |-> d, table |-> [tb EXCEPT ![0] = t], pte |-> [en EXCEPT ![0] = e]]
OBVIOUS

LEMMA FirstFilled ==
  ASSUME NEW d, NEW t, NEW e, NEW y, y = [NoSpace EXCEPT !.dir = d, !.table[0] = t, !.pte[0] = e]
  PROVE  y = FirstPage(d, t, e)
<1> DEFINE tb == [u \in Tables |-> NoFrame]
           en == [a \in Pages |-> Unmapped]
<1>1. NoSpace = [dir |-> NoFrame, table |-> tb, pte |-> en]
  BY DEF NoSpace
<1>2. [tb EXCEPT ![0] = t] = [u \in Tables |-> IF u = 0 THEN t ELSE NoFrame]
  OBVIOUS
<1>3. [en EXCEPT ![0] = e] = [a \in Pages |-> IF a = 0 THEN e ELSE Unmapped]
  OBVIOUS
<1> HIDE DEF tb, en
<1>4. y = [dir |-> d, table |-> [tb EXCEPT ![0] = t], pte |-> [en EXCEPT ![0] = e]]
  BY <1>1, Filled
<1> QED BY <1>2, <1>3, <1>4, Zenon DEF FirstPage

LEMMA FirstSpace ==
  ASSUME NEW d \in Frames, NEW t \in Frames, NEW f \in Frames, d # t, d # f, t # f,
         NEW e \in Entries, e.frame = f, NEW s, s = FirstPage(d, t, e)
  PROVE  Whole(s) /\ FramesOf(s) = {d, t, f}
<1>1. NoFrame \notin Frames /\ NoMemory \notin Frames /\ 0 \in Pages
  BY PagingAssumption, Indexing
<1>2. TableOf(0) = 0 /\ 0 \in Tables
  <2>1. TableOf(0) \in Tables
    BY <1>1, Indexing
  <2>2. TableOf(0) = 0
    BY PagingAssumption DEF TableOf
  <2> QED BY <2>1, <2>2
<1> DEFINE tb == [u \in Tables |-> IF u = 0 THEN t ELSE NoFrame]
           en == [a \in Pages |-> IF a = 0 THEN e ELSE Unmapped]
<1>3. s = [dir |-> d, table |-> tb, pte |-> en]
  BY DEF FirstPage
<1>4. /\ s.dir = d /\ s.table[0] = t /\ s.pte[0] = e
      /\ \A u \in Tables : u # 0 => s.table[u] = NoFrame
      /\ \A a \in Pages : a # 0 => s.pte[a] = Unmapped
  <2>1. tb[0] = t /\ \A u \in Tables : u # 0 => tb[u] = NoFrame
    BY <1>2
  <2>2. en[0] = e /\ \A a \in Pages : a # 0 => en[a] = Unmapped
    BY <1>1
  <2> HIDE DEF tb, en
  <2> QED BY <1>3, <2>1, <2>2
<1>5. s \in Spaces
  <2>1. Unmapped \in Entries
    BY DEF Unmapped, Entries
  <2>2. tb \in [Tables -> Frames \cup {NoFrame}]
    OBVIOUS
  <2>3. en \in [Pages -> Entries]
    BY <2>1
  <2> HIDE DEF tb, en
  <2> QED BY <1>3, <2>2, <2>3 DEF Spaces
<1> HIDE DEF tb, en
<1>6. Unmapped.frame = NoFrame
  BY DEF Unmapped
<1>7. Apart(s)
  BY <1>1, <1>4, <1>6 DEF Apart
<1>8. Tabled(s)
  BY <1>1, <1>2, <1>4, <1>6 DEF Tabled, Mapped, Present
<1>9. FramesOf(s) = {d, t, f}
  <2>1. {s.table[u] : u \in Tables} \cup {NoFrame} = {t, NoFrame}
    BY <1>2, <1>4
  <2>2. {s.pte[a].frame : a \in Pages} \cup {NoFrame} = {f, NoFrame}
    <3>1. \A a \in Pages : s.pte[a].frame \in {f, NoFrame}
      BY <1>4, <1>6
    <3>2. s.pte[0].frame = f
      BY <1>4
    <3> QED BY <1>1, <3>1, <3>2
  <2> QED BY <1>1, <1>4, <2>1, <2>2 DEF FramesOf
<1> QED BY <1>5, <1>7, <1>8, <1>9 DEF Whole

\* The first process gets four frames, all different.
LEMMA FirstState ==
  ASSUME Init
  PROVE  \E f1, f2, f3, f4 \in Frames : \E e :
           /\ f2 # f1 /\ f3 \notin {f1, f2} /\ f4 \notin {f1, f2, f3} /\ e = [frame |-> f1, user |-> TRUE]
           /\ free = Frames \ {f1, f2, f3, f4}
           /\ content = [f \in Frames |-> IF f = f1 THEN Image ELSE Junk]
           /\ status = [p \in Procs |-> IF p = InitProc THEN "live" ELSE "unused"]
           /\ kstack = [p \in Procs |-> IF p = InitProc THEN f2 ELSE NoFrame]
           /\ sz = [p \in Procs |-> IF p = InitProc THEN 1 ELSE 0]
           /\ vm = [p \in Procs |-> IF p = InitProc THEN FirstPage(f3, f4, e) ELSE NoSpace]
           /\ build = [p \in Procs |-> NoSpace] /\ op = [p \in Procs |-> User] /\ top = sz
<1> DEFINE page == Kalloc(Page(0), Frames)
           stack == Kalloc(Stack, Frames \ {page})
           d == Kalloc(Dir, Frames \ {page, stack})
           t == Kalloc(Table(0), Frames \ {page, stack, d})
           first == [frame |-> page, user |-> TRUE]
           s == [NoSpace EXCEPT !.dir = d, !.table[0] = t, !.pte[0] = first]
<1>1. /\ free = Frames \ {page, stack, d, t}
      /\ status = [p \in Procs |-> IF p = InitProc THEN "live" ELSE "unused"]
      /\ kstack = [p \in Procs |-> IF p = InitProc THEN stack ELSE NoFrame]
      /\ sz = [p \in Procs |-> IF p = InitProc THEN 1 ELSE 0]
      /\ vm = [p \in Procs |-> IF p = InitProc THEN s ELSE NoSpace]
      /\ build = [p \in Procs |-> NoSpace] /\ op = [p \in Procs |-> User] /\ top = sz
      /\ content = [f \in Frames |-> IF f = page THEN Image ELSE Junk]
  BY DEF Init
<1>2. NoFrame \notin Frames /\ NoFrame # NoMemory /\ 0 \in Pages /\ InitProc \in Procs /\ {0, 1} \subseteq 0 .. MaxPages
  BY PagingAssumption, Indexing
<1>3. page \in Frames
  <2>1. Frames # {}
    BY PagingAssumption, FS_EmptySet
  <2> QED BY <1>2, <2>1, Picked
<1>4. PICK rest : rest = Frames \ {page} /\ rest \in SUBSET Frames /\ IsFiniteSet(rest) /\ Cardinality(rest) >= 3
  <2>1. IsFiniteSet(Frames) /\ Cardinality(Frames) >= 3 + 1
    BY PagingAssumption
  <2> QED BY <2>1, Fewer
<1>5. stack \in rest
  BY <1>2, <1>4, Picked, FS_EmptySet
<1>6. PICK rest2 : rest2 = rest \ {stack} /\ rest2 \in SUBSET Frames /\ IsFiniteSet(rest2) /\ Cardinality(rest2) >= 2
  <2>1. IsFiniteSet(rest) /\ Cardinality(rest) >= 2 + 1
    BY <1>4
  <2> QED BY <1>4, <2>1, Fewer
<1>7. d \in rest2
  <2>1. Frames \ {page, stack} = rest2
    BY <1>4, <1>6
  <2>2. rest2 # {}
    BY <1>6, FS_EmptySet
  <2>3. d = Kalloc(Dir, rest2)
    BY <2>1
  <2> HIDE DEF d
  <2>4. d \in rest2 \cup {NoFrame} /\ (d = NoFrame <=> rest2 = {})
    BY <1>6, <2>3, Picked
  <2> QED BY <2>2, <2>4
<1>8. PICK rest3 : rest3 = rest2 \ {d} /\ rest3 \in SUBSET Frames /\ rest3 # {}
  <2>1. IsFiniteSet(rest2) /\ Cardinality(rest2) >= 1 + 1
    BY <1>6
  <2>2. Cardinality(rest2 \ {d}) >= 1
    BY <2>1, Fewer
  <2>3. rest2 \ {d} # {}
    BY <2>2, FS_EmptySet
  <2> QED BY <1>6, <2>3
<1>9. t \in rest3
  <2>1. Frames \ {page, stack, d} = rest3
    BY <1>4, <1>6, <1>8
  <2>2. t = Kalloc(Table(0), rest3)
    BY <2>1
  <2>3. t \in rest3 \cup {NoFrame} /\ (t = NoFrame <=> rest3 = {})
    <3> HIDE DEF t
    <3> QED BY <1>2, <1>8, <2>2, Picked
  <2> QED BY <1>8, <2>3
<1>10. page \in Frames /\ stack \in Frames /\ d \in Frames /\ t \in Frames
  BY <1>3, <1>4, <1>5, <1>6, <1>7, <1>8, <1>9
<1>11. stack # page /\ d \notin {page, stack} /\ t \notin {page, stack, d}
  BY <1>4, <1>5, <1>6, <1>7, <1>8, <1>9
<1>12. s = FirstPage(d, t, first)
  <2> HIDE DEF page, stack, d, t, first
  <2> QED BY FirstFilled
<1> HIDE DEF page, stack, d, t, s
<1> USE <1>10
<1> WITNESS page \in Frames, stack \in Frames, d \in Frames, t \in Frames
<1> WITNESS first
<1> HIDE DEF first
<1> QED BY <1>1, <1>11, <1>12, Zenon DEF first

LEMMA InitMemInv == Init => MemInv
<1> SUFFICES ASSUME Init PROVE MemInv
  OBVIOUS
<1>1. PICK f1 \in Frames, f2 \in Frames, f3 \in Frames, f4 \in Frames : \E e :
        /\ f2 # f1 /\ f3 \notin {f1, f2} /\ f4 \notin {f1, f2, f3} /\ e = [frame |-> f1, user |-> TRUE]
        /\ free = Frames \ {f1, f2, f3, f4}
        /\ content = [f \in Frames |-> IF f = f1 THEN Image ELSE Junk]
        /\ status = [p \in Procs |-> IF p = InitProc THEN "live" ELSE "unused"]
        /\ kstack = [p \in Procs |-> IF p = InitProc THEN f2 ELSE NoFrame]
        /\ sz = [p \in Procs |-> IF p = InitProc THEN 1 ELSE 0]
        /\ vm = [p \in Procs |-> IF p = InitProc THEN FirstPage(f3, f4, e) ELSE NoSpace]
        /\ build = [p \in Procs |-> NoSpace] /\ op = [p \in Procs |-> User] /\ top = sz
  BY FirstState
<1>2. PICK e :
        /\ f2 # f1 /\ f3 \notin {f1, f2} /\ f4 \notin {f1, f2, f3} /\ e = [frame |-> f1, user |-> TRUE]
        /\ free = Frames \ {f1, f2, f3, f4}
        /\ content = [f \in Frames |-> IF f = f1 THEN Image ELSE Junk]
        /\ status = [p \in Procs |-> IF p = InitProc THEN "live" ELSE "unused"]
        /\ kstack = [p \in Procs |-> IF p = InitProc THEN f2 ELSE NoFrame]
        /\ sz = [p \in Procs |-> IF p = InitProc THEN 1 ELSE 0]
        /\ vm = [p \in Procs |-> IF p = InitProc THEN FirstPage(f3, f4, e) ELSE NoSpace]
        /\ build = [p \in Procs |-> NoSpace] /\ op = [p \in Procs |-> User] /\ top = sz
  BY <1>1
<1>3. /\ f1 \in Frames /\ f2 \in Frames /\ f3 \in Frames /\ f4 \in Frames
      /\ f2 # f1 /\ f3 \notin {f1, f2} /\ f4 \notin {f1, f2, f3}
  BY <1>1, <1>2
<1>4. NoFrame \notin Frames /\ InitProc \in Procs /\ {0, 1} \subseteq 0 .. MaxPages
  BY PagingAssumption, Indexing
<1>5. PICK s : s = FirstPage(f3, f4, e)
  OBVIOUS
<1>6. Whole(s) /\ FramesOf(s) = {f1, f3, f4}
  <2>1. e \in Entries /\ e.frame = f1
    BY <1>2, <1>3 DEF Entries
  <2>2. f3 # f4 /\ f3 # f1 /\ f4 # f1 /\ {f3, f4, f1} = {f1, f3, f4}
    BY <1>3
  <2>3. Whole(s) /\ FramesOf(s) = {f3, f4, f1}
    BY <1>3, <1>5, <2>1, <2>2, FirstSpace
  <2> QED BY <2>2, <2>3
<1>7. vm = [p \in Procs |-> IF p = InitProc THEN s ELSE NoSpace]
  BY <1>2, <1>5
<1>8. \A p \in Procs : Whole(vm[p]) /\ Whole(build[p])
  BY <1>2, <1>6, <1>7, NothingMapped
<1>9. MemTypes
  <2>1. vm \in [Procs -> Spaces] /\ build \in [Procs -> Spaces]
    BY <1>2, <1>6, <1>7, <1>8, NothingMapped DEF Whole
  <2>2. User \in Ops
    BY DEF User, Ops
  <2>3. kstack \in [Procs -> Frames \cup {NoFrame}]
    BY <1>2, <1>3
  <2>4. status \in [Procs -> {"unused", "embryo", "live", "zombie"}]
    BY <1>2
  <2>5. sz \in [Procs -> 0 .. MaxPages]
    BY <1>2, <1>4
  <2>6. op \in [Procs -> Ops]
    BY <1>2, <2>2
  <2> QED BY <2>1, <2>3, <2>4, <2>5, <2>6 DEF MemTypes
<1>10. Shared
  <2> DEFINE own == Own(vm, build, kstack)
  <2>1. \A p \in Procs :
          /\ own["vm"][p] = IF p = InitProc THEN {f1, f3, f4} ELSE {}
          /\ own["build"][p] = {}
          /\ own["stack"][p] = IF p = InitProc THEN {f2} ELSE {}
    <3> TAKE p \in Procs
    <3>1. /\ own["vm"][p] = FramesOf(vm[p]) /\ own["build"][p] = FramesOf(build[p])
          /\ own["stack"][p] = {kstack[p]} \ {NoFrame}
      BY OwnIs
    <3> HIDE DEF own
    <3>2. FramesOf(vm[p]) = IF p = InitProc THEN {f1, f3, f4} ELSE {}
      BY <1>4, <1>6, <1>7, NothingMapped
    <3>3. FramesOf(build[p]) = {}
      BY <1>2, NothingMapped
    <3>4. {kstack[p]} \ {NoFrame} = IF p = InitProc THEN {f2} ELSE {}
      BY <1>2, <1>3, <1>4
    <3> QED BY <3>1, <3>2, <3>3, <3>4
  <2> HIDE DEF own
  <2>2. Split(free, own)
    BY <1>2, <1>3, <1>4, <2>1 DEF Split, Kinds
  <2> QED BY <2>2 DEF own, Shared
<1>11. \A p \in Procs : Steady(p)
  BY <1>2, <1>3, <1>4 DEF Steady, User
<1>12. Embryos
  BY <1>2 DEF Embryos, User
<1> QED BY <1>8, <1>9, <1>10, <1>11, <1>12 DEF MemInv, Spaced

LEMMA SbrkKeeps ==
  ASSUME MemInv, NEW p \in Procs, NEW n \in Deltas, Sbrk(p, n)
  PROVE  MemInv'
<1>1. /\ n \in Int /\ op[p].at = "user" /\ MaxPages \in Nat
      /\ sz' = [sz EXCEPT ![p] = @ + n] /\ sz[p] + n \in 1 .. MaxPages
      /\ UNCHANGED <<free, status, kstack, vm, build, op>>
  BY PagingAssumption DEF Sbrk, Runs
<1>2. sz' \in [Procs -> 0 .. MaxPages] /\ \A q \in Procs : q # p => sz'[q] = sz[q]
  BY <1>1 DEF MemInv, MemTypes
<1>3. MemTypes' /\ Spaced' /\ Shared' /\ Embryos'
  BY <1>1, <1>2 DEF MemInv, MemTypes, Spaced, Shared, Embryos
<1>4. \A q \in Procs : Steady(q)'
  BY <1>1, <1>2 DEF MemInv, MemTypes, Steady, Mapped
<1> QED BY <1>3, <1>4 DEF MemInv

LEMMA WalkKeeps ==
  ASSUME MemInv, NEW p \in Procs, NEW a \in Pages, FaultWalk(p, a)
  PROVE  MemInv'
<1> DEFINE s1 == [vm[p] EXCEPT !.table[TableOf(a)] =
                                 IF Present(vm[p], a) THEN @ ELSE Kalloc(Table(a), free)]
<1>1. /\ status[p] = "live" /\ op[p].at = "user" /\ free' = Taken(vm[p], a, free)
      /\ UNCHANGED <<kstack, sz, build>>
      /\ \/ PteWord(p, a) /\ op' = [op EXCEPT ![p] = [at |-> "fault", page |-> a]] /\ status' = status
         \/ status' \in {status, [status EXCEPT ![p] = "zombie"]} /\ op' = op
  BY DEF FaultWalk, Runs, Ends
<1>2. vm' = [vm EXCEPT ![p] = s1]
  BY DEF FaultWalk
<1>3. Whole(vm[p]) /\ free \in SUBSET Frames /\ free \cap FramesOf(vm[p]) = {}
  BY OwnIs DEF MemInv, Spaced, Shared, Split, Kinds
<1>4. /\ Whole(s1) /\ s1.pte = vm[p].pte
      /\ Taken(vm[p], a, free) \subseteq free
      /\ FramesOf(s1) = FramesOf(vm[p]) \cup (free \ Taken(vm[p], a, free))
  BY <1>3, TableHad
<1> HIDE DEF s1
<1>5. /\ vm' \in [Procs -> Spaces] /\ vm'[p] = s1
      /\ \A q \in Procs : q # p => vm'[q] = vm[q]
  BY <1>2, <1>4 DEF MemInv, MemTypes, Whole
<1>6. MemTypes'
  BY <1>1, <1>5 DEF MemInv, MemTypes, Ops
<1>7. Spaced'
  BY <1>1, <1>4, <1>5 DEF MemInv, Spaced
<1>8. Shared'
  <2> DEFINE new == free \ Taken(vm[p], a, free)
  <2>1. new \in SUBSET free /\ free' = free \ new
    BY <1>1, <1>4
  <2>2. FramesOf(s1) = FramesOf(vm[p]) \cup new
    BY <1>4
  <2> HIDE DEF new
  <2>3. Split(free \ new, Own([vm EXCEPT ![p] = s1], build, kstack))
    BY <2>1, <2>2, VmTakes DEF MemInv, MemTypes, Shared
  <2> QED BY <1>1, <1>2, <2>1, <2>3 DEF Shared
<1>9. \A q \in Procs : Steady(q)'
  <2> TAKE q \in Procs
  <2>1. CASE q # p
    BY <1>1, <1>5, <2>1 DEF MemInv, MemTypes, Steady, Mapped
  <2>2. CASE q = p
    <3>1. ~Mapped(vm[p], a) \/ ~PteWord(p, a)
      BY <1>3 DEF PteWord, Whole, Tabled
    <3>2. op'[p] = [at |-> "fault", page |-> a] => ~Mapped(vm'[p], a)
      BY <1>1, <1>4, <1>5, <3>1 DEF Mapped
    <3>3. op'[p] \in {User, [at |-> "fault", page |-> a]} /\ op[p] = User
      BY <1>1, <1>6 DEF MemInv, MemTypes, Ops, User
    <3>4. \/ status'[p] = "live"
          \/ status'[p] = "zombie" /\ op'[p] = User
      BY <1>1, <3>3 DEF MemInv, MemTypes
    <3> QED BY <1>1, <2>2, <3>2, <3>3, <3>4 DEF MemInv, MemTypes, Steady, User
  <2> QED BY <2>1, <2>2
<1>10. Embryos'
  <2>1. \A q \in Procs : op'[q].at = "fork" => op'[q] = op[q]
    BY <1>1 DEF MemInv, MemTypes
  <2>2. \A q \in Procs : status[q] = "embryo" => status'[q] = "embryo"
    BY <1>1 DEF MemInv, MemTypes
  <2> QED BY <2>1, <2>2, EmbryosKept DEF MemInv, MemTypes
<1> QED BY <1>6, <1>7, <1>8, <1>9, <1>10 DEF MemInv

\* The page a fault makes: the frame m taken for it or, without one, an entry
\* for no memory, which clears the first page.
LEMMA FaultMade ==
  ASSUME MemInv, NEW p \in Procs, FaultMap(p)
  PROVE  \E a \in Pages, yes \in BOOLEAN : \E m, f, s1 :
           /\ a = op[p].page /\ yes = TRUE /\ ~Mapped(vm[p], a) /\ status[p] = "live" /\ op[p].at = "fault"
           /\ m \in free \cup {NoFrame} /\ f = IF m = NoFrame THEN NoMemory ELSE m
           /\ Grown(vm[p], s1, free, free', a, [frame |-> f, user |-> yes])
           /\ vm' = [vm EXCEPT ![p] = s1] /\ op' = [op EXCEPT ![p] = User]
           /\ content' = [content EXCEPT ![IF m = NoFrame THEN vm[p].pte[0].frame ELSE m] = Zero]
           /\ UNCHANGED <<status, kstack, sz, build, top>>
<1>1. /\ Whole(vm[p]) /\ free \in SUBSET Frames /\ free \cap FramesOf(vm[p]) = {}
      /\ op[p].page \in Pages /\ ~Mapped(vm[p], op[p].page)
  <2>1. Whole(vm[p]) /\ free \in SUBSET Frames /\ free \cap FramesOf(vm[p]) = {}
    BY OwnIs DEF MemInv, Spaced, Shared, Split, Kinds
  <2>2. op[p].page \in Pages /\ ~Mapped(vm[p], op[p].page)
    BY DEF MemInv, MemTypes, Ops, Steady, FaultMap, Runs
  <2> QED BY <2>1, <2>2
<1>2. PICK a \in Pages, yes \in BOOLEAN : a = op[p].page /\ yes = TRUE
  BY <1>1
<1>3. PICK m, rest, f :
        /\ Gets(free, m, rest, f) /\ CanMap(vm[p], a, rest)
        /\ vm' = [vm EXCEPT ![p] = MapPage(vm[p], a, f, yes, rest)] /\ free' = Taken(vm[p], a, rest)
        /\ op' = [op EXCEPT ![p] = User] /\ UNCHANGED <<status, kstack, sz, build, top>>
        /\ status[p] = "live" /\ op[p].at = "fault"
        /\ content' = [content EXCEPT ![IF m = NoFrame THEN vm[p].pte[0].frame ELSE m] = Zero]
  <2> DEFINE m == Kalloc(Page(op[p].page), free)
  <2>1. m \in free \cup {NoFrame}
    BY <1>1, Picked
  <2>2. Gets(free, m, free \ {m}, IF m = NoFrame THEN NoMemory ELSE m)
    BY <2>1 DEF Gets
  <2>3. /\ CanMap(vm[p], op[p].page, free \ {m})
        /\ vm' = [vm EXCEPT ![p] = MapPage(vm[p], op[p].page, IF m = NoFrame THEN NoMemory ELSE m, TRUE, free \ {m})]
        /\ free' = Taken(vm[p], op[p].page, free \ {m})
        /\ op' = [op EXCEPT ![p] = User] /\ UNCHANGED <<status, kstack, sz, build, top>>
        /\ status[p] = "live" /\ op[p].at = "fault"
        /\ content' = [content EXCEPT ![IF m = NoFrame THEN vm[p].pte[0].frame ELSE m] = Zero]
    BY DEF FaultMap, Runs
  <2> HIDE DEF m
  <2> WITNESS m, free \ {m}, IF m = NoFrame THEN NoMemory ELSE m
  <2> QED BY <1>2, <2>2, <2>3
<1> DEFINE s1 == MapPage(vm[p], a, f, yes, rest)
           t == Taken(vm[p], a, rest)
<1>4. /\ Whole(vm[p]) /\ FreeBeside(free, vm[p]) /\ yes \in BOOLEAN
      /\ ~Mapped(vm[p], a) /\ Gets(free, m, rest, f) /\ CanMap(vm[p], a, rest)
  BY <1>2, <1>1, <1>3 DEF FreeBeside
<1> HIDE DEF s1, t
<1>5. Grown(vm[p], s1, free, t, a, [frame |-> f, user |-> yes])
  BY <1>4, PageTaken DEF s1, t
<1>6. vm' = [vm EXCEPT ![p] = s1] /\ free' = t
  BY <1>3 DEF s1, t
<1>7. m \in free \cup {NoFrame} /\ f = IF m = NoFrame THEN NoMemory ELSE m
  BY <1>3 DEF Gets
<1> WITNESS a \in Pages, yes \in BOOLEAN
<1> WITNESS m, f, s1
<1> QED BY <1>2, <1>3, <1>4, <1>5, <1>6, <1>7

LEMMA FaultMapKeeps ==
  ASSUME MemInv, NEW p \in Procs, FaultMap(p)
  PROVE  MemInv'
<1>1. PICK a \in Pages, yes \in BOOLEAN : \E m, f, s1 :
        /\ Grown(vm[p], s1, free, free', a, [frame |-> f, user |-> yes])
        /\ vm' = [vm EXCEPT ![p] = s1] /\ op' = [op EXCEPT ![p] = User]
        /\ UNCHANGED <<status, kstack, sz, build>> /\ status[p] = "live" /\ op[p].at = "fault"
  BY FaultMade
<1>2. PICK m, f, s1 :
        /\ Grown(vm[p], s1, free, free', a, [frame |-> f, user |-> yes])
        /\ vm' = [vm EXCEPT ![p] = s1] /\ op' = [op EXCEPT ![p] = User]
        /\ UNCHANGED <<status, kstack, sz, build>> /\ status[p] = "live" /\ op[p].at = "fault"
  BY <1>1
<1> DEFINE new == free \ free'
<1>3. /\ Whole(s1) /\ s1.pte = [vm[p].pte EXCEPT ![a] = [frame |-> f, user |-> yes]]
      /\ free' \subseteq free /\ FramesOf(s1) = FramesOf(vm[p]) \cup new
  BY <1>2 DEF Grown
<1>4. vm' = [vm EXCEPT ![p] = s1]
  BY <1>2
<1>5. /\ vm' \in [Procs -> Spaces] /\ vm'[p] = s1
      /\ \A q \in Procs : q # p => vm'[q] = vm[q]
  BY <1>3, <1>4 DEF MemInv, MemTypes, Whole
<1>6. MemTypes'
  BY <1>2, <1>5 DEF MemInv, MemTypes, Ops, User
<1>7. Spaced'
  BY <1>2, <1>3, <1>5 DEF MemInv, Spaced
<1>8. Shared'
  <2>1. new \in SUBSET free /\ free' = free \ new
    BY <1>3
  <2> HIDE DEF new
  <2>2. Split(free \ new, Own([vm EXCEPT ![p] = s1], build, kstack))
    BY <1>3, <2>1, VmTakes DEF MemInv, MemTypes, Shared
  <2> QED BY <1>2, <1>4, <2>1, <2>2 DEF Shared
<1>9. \A q \in Procs : Steady(q)'
  <2> TAKE q \in Procs
  <2>1. CASE q # p
    BY <1>2, <1>5, <2>1, SteadyKept DEF MemInv, MemTypes
  <2>2. CASE q = p
    BY <1>2, <1>5, <2>2 DEF MemInv, MemTypes, Steady, User
  <2> QED BY <2>1, <2>2
<1>10. Embryos'
  <2>1. \A q \in Procs : op'[q].at = "fork" => op'[q] = op[q]
    BY <1>2 DEF MemInv, MemTypes, User
  <2> QED BY <1>2, <2>1, EmbryosKept DEF MemInv, MemTypes
<1> QED BY <1>6, <1>7, <1>8, <1>9, <1>10 DEF MemInv

\* Steps that change no space, no frame and no size.
LEMMA QuietKeeps ==
  ASSUME MemInv, NEW p \in Procs, status[p] = "live",
         UNCHANGED <<free, kstack, sz, vm, build>>,
         \/ /\ op[p].at \in {"user", "fault"} /\ op' \in {op, [op EXCEPT ![p] = User]}
            /\ status' \in {status, [status EXCEPT ![p] = "zombie"]}
            /\ status' # status => op[p] = User
         \/ op' = op /\ status' = status
  PROVE  MemInv'
<1>1. MemTypes' /\ Spaced' /\ Shared'
  BY DEF MemInv, MemTypes, Spaced, Shared, Ops, User
<1>2. \A q \in Procs : Steady(q)'
  <2> TAKE q \in Procs
  <2>1. CASE q # p
    BY <2>1, SteadyKept DEF MemInv, MemTypes
  <2>2. CASE q = p
    BY <2>2 DEF MemInv, MemTypes, Steady, User, Mapped
  <2> QED BY <2>1, <2>2
<1>3. Embryos'
  <2>1. \A q \in Procs : op'[q].at = "fork" => op'[q] = op[q]
    BY DEF MemInv, MemTypes, User
  <2>2. \A q \in Procs : status[q] = "embryo" => status'[q] = "embryo"
    BY DEF MemInv, MemTypes
  <2> QED BY <2>1, <2>2, EmbryosKept DEF MemInv, MemTypes
<1> QED BY <1>1, <1>2, <1>3 DEF MemInv

LEMMA PageOn ==
  ASSUME NEW o \in Ops, o.at \in {"fork", "exec"}, o.at = "exec" => o.page < TextPages + 2
  PROVE  LET o1 == [o EXCEPT !.page = @ + 1]
         IN  /\ o1 \in Ops /\ o1.at = o.at /\ o1.page = o.page + 1 /\ o.page \in Nat
             /\ o.at = "fork" => o1.child = o.child
<1>1. TextPages \in Nat
  BY PagingAssumption
<1>2. CASE o.at = "fork"
  <2>1. o = [at |-> "fork", child |-> o.child, page |-> o.page] /\ o.page \in Nat /\ o.child \in Procs
    BY <1>2 DEF Ops
  <2>2. [o EXCEPT !.page = @ + 1] = [at |-> "fork", child |-> o.child, page |-> o.page + 1]
    BY <2>1
  <2> QED BY <1>2, <2>1, <2>2 DEF Ops
<1>3. CASE o.at = "exec"
  <2>1. o = [at |-> "exec", page |-> o.page] /\ o.page \in 0 .. TextPages + 2
    BY <1>3 DEF Ops
  <2>2. [o EXCEPT !.page = @ + 1] = [at |-> "exec", page |-> o.page + 1]
    BY <2>1
  <2> QED BY <1>1, <1>3, <2>1, <2>2 DEF Ops
<1> QED BY <1>2, <1>3

\* The copy of fork and the new space of exec get one page more.
LEMMA PageBuilt ==
  ASSUME MemInv, NEW p \in Procs, NEW user \in BOOLEAN, NEW a \in Pages, a = op[p].page,
         NEW m \in Frames, NEW rest, Gets(free, m, rest, m),
         status[p] = "live", op[p].at \in {"fork", "exec"},
         op[p].at = "fork" => a < sz[p], op[p].at = "exec" => a < TextPages + 2,
         CanMap(build[p], a, rest),
         build' = [build EXCEPT ![p] = MapPage(@, a, m, user, rest)],
         free' = Taken(build[p], a, rest), op' = [op EXCEPT ![p].page = @ + 1],
         UNCHANGED <<status, kstack, sz, vm>>
  PROVE  /\ MemInv'
         /\ m \in free
         /\ build'[p].pte = [build[p].pte EXCEPT ![a] = [frame |-> m, user |-> user]]
<1> DEFINE s1 == MapPage(build[p], a, m, user, rest)
           t == Taken(build[p], a, rest)
           new == free \ t
<1>1. Whole(build[p]) /\ free \in SUBSET Frames /\ free \cap FramesOf(build[p]) = {}
  BY OwnIs DEF MemInv, Spaced, Shared, Split, Kinds
<1>2. ~Mapped(build[p], a)
  BY Indexing DEF MemInv, Steady
<1>3. m \in free /\ CanMap(build[p], a, rest) /\ FreeBeside(free, build[p])
  BY <1>1, PagingAssumption DEF Gets, FreeBeside
<1> HIDE DEF s1, t
<1>4. Grown(build[p], s1, free, t, a, [frame |-> m, user |-> user])
  BY <1>1, <1>2, <1>3, PageTaken DEF s1, t
<1>5. /\ Whole(s1) /\ s1.pte = [build[p].pte EXCEPT ![a] = [frame |-> m, user |-> user]]
      /\ t \subseteq free
      /\ FramesOf(s1) = FramesOf(build[p]) \cup new
  BY <1>4 DEF Grown
<1>6. build' = [build EXCEPT ![p] = s1] /\ free' = t
  BY DEF s1, t
<1>7. /\ build' \in [Procs -> Spaces] /\ build'[p] = s1
      /\ \A q \in Procs : q # p => build'[q] = build[q]
  BY <1>5, <1>6 DEF MemInv, MemTypes, Whole
<1>8. /\ op[p] \in Ops /\ op'[p] \in Ops /\ op'[p].at = op[p].at /\ op'[p].page = a + 1
      /\ op[p].at = "fork" => op'[p].child = op[p].child
      /\ \A q \in Procs : q # p => op'[q] = op[q]
      /\ op' \in [Procs -> Ops]
  <2> DEFINE o1 == [op[p] EXCEPT !.page = @ + 1]
  <2>1. op \in [Procs -> Ops] /\ op[p] \in Ops
    BY DEF MemInv, MemTypes
  <2>2. /\ o1 \in Ops /\ o1.at = op[p].at /\ o1.page = a + 1
        /\ op[p].at = "fork" => o1.child = op[p].child
    BY <2>1, PageOn
  <2>3. op' = [op EXCEPT ![p] = o1]
    BY <2>1
  <2> HIDE DEF o1
  <2> QED BY <2>1, <2>2, <2>3
<1>9. MemTypes'
  BY <1>7, <1>8 DEF MemInv, MemTypes
<1>10. Spaced'
  BY <1>5, <1>7 DEF MemInv, Spaced
<1>11. Shared'
  <2>1. new \in SUBSET free /\ free' = free \ new
    BY <1>5, <1>6
  <2> HIDE DEF new
  <2>2. Split(free \ new, Own(vm, [build EXCEPT ![p] = s1], kstack))
    BY <1>5, <2>1, BuildTakes DEF MemInv, MemTypes, Shared
  <2> QED BY <1>6, <2>1, <2>2 DEF Shared
<1>12. \A q \in Procs : Steady(q)'
  <2> TAKE q \in Procs
  <2>1. CASE q # p
    BY <1>7, <1>8, <2>1, SteadyKept DEF MemInv
  <2>2. CASE q = p
    <3>1. \A b \in Pages : b >= a + 1 => ~Mapped(s1, b)
      <4>1. \A b \in Pages : b >= a + 1 => ~Mapped(build[p], b) /\ b # a
        BY Indexing DEF MemInv, Steady
      <4> QED BY <1>5, <4>1 DEF Mapped
    <3>2. kstack[p] # NoFrame /\ vm'[p] = vm[p] /\ status'[p] = "live" /\ sz[p] \in Nat /\ a \in Nat
      BY Indexing DEF MemInv, MemTypes, Steady
    <3>3. op'[p].at = "fork" => op'[p].page <= sz[p]
      BY <1>8, <3>2
    <3>4. op'[p].at \in {"fork", "exec"} /\ status'[p] = "live" /\ op'[p].page = a + 1
          /\ kstack'[p] # NoFrame /\ sz'[p] = sz[p] /\ build'[p] = s1
      BY <1>7, <1>8, <3>2
    <3> QED BY <2>2, <3>1, <3>3, <3>4 DEF Steady
  <2> QED BY <2>1, <2>2
<1>13. Embryos'
  BY <1>8, EmbryosKept DEF MemInv, MemTypes
<1> QED BY <1>3, <1>5, <1>7, <1>9, <1>10, <1>11, <1>12, <1>13 DEF MemInv

LEMMA ForkBeginKeeps ==
  ASSUME MemInv, NEW p \in Procs, NEW q \in Procs, ForkBegin(p, q)
  PROVE  MemInv'
<1> DEFINE k == Kalloc(Stack, free)
           d == Kalloc(Dir, free \ {k})
           s1 == [NoSpace EXCEPT !.dir = d]
<1>1. /\ status[p] = "live" /\ op[p].at = "user" /\ status[q] = "unused" /\ d # NoFrame
      /\ free' = free \ {k, d} /\ kstack' = [kstack EXCEPT ![q] = k]
      /\ build' = [build EXCEPT ![p] = s1] /\ status' = [status EXCEPT ![q] = "embryo"]
      /\ op' = [op EXCEPT ![p] = [at |-> "fork", child |-> q, page |-> 0]]
      /\ UNCHANGED <<sz, vm>>
  BY DEF ForkBegin, Runs
<1>2. free \in SUBSET Frames /\ p # q
  BY <1>1 DEF MemInv, Shared, Split
<1>3. k \in free /\ d \in free \ {k} /\ NoFrame \notin Frames
  BY <1>1, <1>2, Picked, PagingAssumption
<1> HIDE DEF k, d
<1>4. Whole(s1) /\ FramesOf(s1) = {d} /\ s1.pte = NoSpace.pte
  BY <1>2, <1>3, OnlyDirectory
<1> HIDE DEF s1
<1>5. kstack[q] = NoFrame /\ build[p] = NoSpace
  BY <1>1 DEF MemInv, Steady
<1>6. /\ build' \in [Procs -> Spaces] /\ build'[p] = s1
      /\ \A r \in Procs : r # p => build'[r] = build[r]
  BY <1>1, <1>4 DEF MemInv, MemTypes, Whole
<1>7. /\ kstack' \in [Procs -> Frames \cup {NoFrame}] /\ kstack'[q] = k
      /\ \A r \in Procs : r # q => kstack'[r] = kstack[r]
  BY <1>1, <1>2, <1>3 DEF MemInv, MemTypes
<1>8. /\ op' \in [Procs -> Ops] /\ op'[p] = [at |-> "fork", child |-> q, page |-> 0]
      /\ \A r \in Procs : r # p => op'[r] = op[r]
  BY <1>1 DEF MemInv, MemTypes, Ops
<1>9. /\ status'[q] = "embryo" /\ \A r \in Procs : r # q => status'[r] = status[r]
      /\ MemTypes'
  BY <1>1, <1>6, <1>7, <1>8 DEF MemInv, MemTypes
<1>10. Spaced'
  BY <1>1, <1>4, <1>6 DEF MemInv, Spaced
<1>11. Shared'
  <2>1. Split(free \ {k}, Own(vm, build, kstack'))
    BY <1>1, <1>3, <1>5, StackTaken DEF MemInv, MemTypes, Shared
  <2>2. {d} \in SUBSET (free \ {k}) /\ FramesOf(s1) = FramesOf(build[p]) \cup {d}
    BY <1>3, <1>4, <1>5, NothingMapped
  <2>3. Split((free \ {k}) \ {d}, Own(vm, build', kstack'))
    BY <1>1, <2>1, <2>2, BuildTakes DEF MemInv, MemTypes
  <2>4. (free \ {k}) \ {d} = free'
    BY <1>1
  <2> QED BY <1>1, <2>3, <2>4 DEF Shared
<1>12. \A r \in Procs : Steady(r)'
  <2> TAKE r \in Procs
  <2>1. CASE r # p /\ r # q
    BY <1>1, <1>6, <1>7, <1>8, <1>9, <2>1, SteadyKept DEF MemInv
  <2>2. CASE r = p
    <3>1. \A b \in Pages : ~Mapped(s1, b)
      BY <1>4 DEF Mapped, NoSpace
    <3>2. sz[p] \in Nat /\ kstack[p] # NoFrame
      BY <1>1 DEF MemInv, MemTypes, Steady
    <3> QED BY <1>1, <1>2, <1>6, <1>7, <1>8, <1>9, <2>2, <3>1, <3>2 DEF Steady
  <2>3. CASE r = q
    BY <1>1, <1>2, <1>3, <1>6, <1>7, <1>8, <1>9, <2>3 DEF MemInv, Steady, User
  <2> QED BY <2>1, <2>2, <2>3
<1>13. Embryos'
  BY <1>1, <1>2, <1>8, <1>9 DEF MemInv, Embryos
<1> QED BY <1>9, <1>10, <1>11, <1>12, <1>13 DEF MemInv

LEMMA ForkFailsKeeps ==
  ASSUME MemInv, NEW p \in Procs, ForkFails(p)
  PROVE  MemInv'
<1>1. PICK q \in Procs : q = op[p].child
  BY DEF ForkFails, Runs, MemInv, MemTypes, Ops
<1>2. /\ status[p] = "live" /\ op[p].at = "fork" /\ free' = free \cup (FramesOf(build[p]) \cup {kstack[q]})
      /\ status' = [status EXCEPT ![q] = "unused"] /\ kstack' = [kstack EXCEPT ![q] = NoFrame]
      /\ build' = [build EXCEPT ![p] = NoSpace] /\ op' = [op EXCEPT ![p] = User]
      /\ UNCHANGED <<sz, vm>>
  BY <1>1 DEF ForkFails, Runs, Return
<1>3. status[q] = "embryo" /\ p # q /\ kstack[q] # NoFrame
  BY <1>1, <1>2 DEF MemInv, Embryos, Steady
<1>4. /\ build' \in [Procs -> Spaces] /\ build'[p] = NoSpace
      /\ \A r \in Procs : r # p => build'[r] = build[r]
  BY <1>2, NothingMapped DEF MemInv, MemTypes, Whole
<1>5. /\ kstack' \in [Procs -> Frames \cup {NoFrame}] /\ kstack'[q] = NoFrame
      /\ \A r \in Procs : r # q => kstack'[r] = kstack[r]
  BY <1>2 DEF MemInv, MemTypes
<1>6. /\ op' \in [Procs -> Ops] /\ op'[p] = User /\ \A r \in Procs : r # p => op'[r] = op[r]
  BY <1>2 DEF MemInv, MemTypes, Ops, User
<1>7. /\ status'[q] = "unused" /\ \A r \in Procs : r # q => status'[r] = status[r]
      /\ MemTypes'
  BY <1>2, <1>4, <1>5, <1>6 DEF MemInv, MemTypes
<1>8. Spaced'
  BY <1>2, <1>4, NothingMapped DEF MemInv, Spaced
<1>9. Shared'
  <2>1. Split(free \cup {kstack[q]}, Own(vm, build, kstack'))
    BY <1>2, <1>3, StackGiven DEF MemInv, MemTypes, Shared
  <2>2. Split((free \cup {kstack[q]}) \cup FramesOf(build[p]), Own(vm, build', kstack'))
    BY <1>2, <2>1, BuildGiven DEF MemInv, MemTypes
  <2>3. (free \cup {kstack[q]}) \cup FramesOf(build[p]) = free'
    BY <1>2
  <2> QED BY <1>2, <2>2, <2>3 DEF Shared
<1>10. \A r \in Procs : Steady(r)'
  <2> TAKE r \in Procs
  <2>1. CASE r # p /\ r # q
    BY <1>2, <1>4, <1>5, <1>6, <1>7, <2>1, SteadyKept DEF MemInv
  <2>2. CASE r = p
    BY <1>2, <1>3, <1>4, <1>5, <1>6, <1>7, <2>2 DEF MemInv, Steady, User
  <2>3. CASE r = q
    BY <1>2, <1>3, <1>4, <1>5, <1>6, <1>7, <2>3 DEF MemInv, Steady, User
  <2> QED BY <2>1, <2>2, <2>3
<1>11. Embryos'
  <2>1. \A r \in Procs : r # p /\ op[r].at = "fork" => op[r].child # q /\ op[r].child \in Procs
    BY <1>1, <1>2 DEF MemInv, MemTypes, Ops, Embryos
  <2> QED BY <1>6, <1>7, <2>1 DEF MemInv, Embryos, User
<1> QED BY <1>7, <1>8, <1>9, <1>10, <1>11 DEF MemInv

LEMMA ForkDoneKeeps ==
  ASSUME MemInv, NEW p \in Procs, ForkDone(p)
  PROVE  MemInv'
<1>1. PICK q \in Procs : q = op[p].child
  BY DEF ForkDone, Runs, MemInv, MemTypes, Ops
<1>2. /\ status[p] = "live" /\ op[p].at = "fork" /\ UNCHANGED <<free, kstack>>
      /\ status' = [status EXCEPT ![q] = "live"] /\ vm' = [vm EXCEPT ![q] = build[p]]
      /\ sz' = [sz EXCEPT ![q] = sz[p]]
      /\ build' = [build EXCEPT ![p] = NoSpace] /\ op' = [op EXCEPT ![p] = User]
  BY <1>1 DEF ForkDone, Runs
<1>3. status[q] = "embryo" /\ p # q /\ vm[q] = NoSpace /\ op[q] = User /\ build[q] = NoSpace
  BY <1>1, <1>2 DEF MemInv, Embryos, Steady, User
<1>4. /\ build' \in [Procs -> Spaces] /\ build'[p] = NoSpace
      /\ \A r \in Procs : r # p => build'[r] = build[r]
  BY <1>2, NothingMapped DEF MemInv, MemTypes, Whole
<1>5. /\ vm' \in [Procs -> Spaces] /\ vm'[q] = build[p]
      /\ \A r \in Procs : r # q => vm'[r] = vm[r]
  BY <1>2 DEF MemInv, MemTypes
<1>6. /\ op' \in [Procs -> Ops] /\ op'[p] = User /\ \A r \in Procs : r # p => op'[r] = op[r]
  BY <1>2 DEF MemInv, MemTypes, Ops, User
<1>7. /\ status'[q] = "live" /\ \A r \in Procs : r # q => status'[r] = status[r] /\ sz'[r] = sz[r]
      /\ MemTypes'
  BY <1>2, <1>4, <1>5, <1>6 DEF MemInv, MemTypes
<1>8. Spaced'
  BY <1>2, <1>4, <1>5, NothingMapped DEF MemInv, Spaced
<1>9. Shared'
  <2>1. Split(free, Own(vm', build', kstack))
    BY <1>2, <1>3, BuildMoved DEF MemInv, MemTypes, Shared
  <2> QED BY <1>2, <2>1 DEF Shared
<1>10. \A r \in Procs : Steady(r)'
  <2> TAKE r \in Procs
  <2>1. CASE r # p /\ r # q
    BY <1>2, <1>4, <1>5, <1>6, <1>7, <2>1, SteadyKept DEF MemInv
  <2>2. CASE r = p
    BY <1>2, <1>3, <1>4, <1>5, <1>6, <1>7, <2>2 DEF MemInv, Steady, User
  <2>3. CASE r = q
    BY <1>2, <1>3, <1>4, <1>5, <1>6, <1>7, <2>3 DEF MemInv, Steady, User
  <2> QED BY <2>1, <2>2, <2>3
<1>11. Embryos'
  <2>1. \A r \in Procs : r # p /\ op[r].at = "fork" => op[r].child # q /\ op[r].child \in Procs
    BY <1>1, <1>2 DEF MemInv, MemTypes, Ops, Embryos
  <2> QED BY <1>6, <1>7, <2>1 DEF MemInv, Embryos, User
<1> QED BY <1>7, <1>8, <1>9, <1>10, <1>11 DEF MemInv

LEMMA ExecBeginKeeps ==
  ASSUME MemInv, NEW p \in Procs, ExecBegin(p)
  PROVE  MemInv'
<1> DEFINE d == Kalloc(Dir, free)
           s1 == [NoSpace EXCEPT !.dir = d]
<1>1. /\ status[p] = "live" /\ op[p].at = "user" /\ free # {} /\ free' = free \ {d}
      /\ build' = [build EXCEPT ![p] = s1] /\ op' = [op EXCEPT ![p] = [at |-> "exec", page |-> 0]]
      /\ UNCHANGED <<sz, vm, status, kstack>>
  BY DEF ExecBegin, Runs
<1>2. free \in SUBSET Frames
  BY DEF MemInv, Shared, Split
<1>3. d \in free
  BY <1>1, <1>2, Picked
<1> HIDE DEF d
<1>4. Whole(s1) /\ FramesOf(s1) = {d} /\ s1.pte = NoSpace.pte
  BY <1>2, <1>3, OnlyDirectory
<1> HIDE DEF s1
<1>5. build[p] = NoSpace
  BY <1>1 DEF MemInv, Steady
<1>6. /\ build' \in [Procs -> Spaces] /\ build'[p] = s1
      /\ \A r \in Procs : r # p => build'[r] = build[r]
  BY <1>1, <1>4 DEF MemInv, MemTypes, Whole
<1>7. /\ op' \in [Procs -> Ops] /\ op'[p] = [at |-> "exec", page |-> 0]
      /\ \A r \in Procs : r # p => op'[r] = op[r]
  <2>1. [at |-> "exec", page |-> 0] \in Ops
    BY PagingAssumption DEF Ops
  <2> QED BY <1>1, <2>1 DEF MemInv, MemTypes
<1>8. MemTypes' /\ Spaced'
  BY <1>1, <1>4, <1>6, <1>7 DEF MemInv, MemTypes, Spaced
<1>9. Shared'
  <2>1. {d} \in SUBSET free /\ FramesOf(s1) = FramesOf(build[p]) \cup {d}
    BY <1>3, <1>4, <1>5, NothingMapped
  <2>2. Split(free \ {d}, Own(vm, build', kstack))
    BY <1>1, <2>1, BuildTakes DEF MemInv, MemTypes, Shared
  <2> QED BY <1>1, <2>2 DEF Shared
<1>10. \A r \in Procs : Steady(r)'
  <2> TAKE r \in Procs
  <2>1. CASE r # p
    BY <1>1, <1>6, <1>7, <2>1, SteadyKept DEF MemInv
  <2>2. CASE r = p
    <3>1. \A b \in Pages : ~Mapped(s1, b)
      BY <1>4 DEF Mapped, NoSpace
    <3>2. kstack[p] # NoFrame
      BY <1>1 DEF MemInv, Steady
    <3> QED BY <1>1, <1>6, <1>7, <2>2, <3>1, <3>2 DEF Steady
  <2> QED BY <2>1, <2>2
<1>11. Embryos'
  BY <1>1, <1>7, EmbryosKept DEF MemInv, MemTypes
<1> QED BY <1>8, <1>9, <1>10, <1>11 DEF MemInv

LEMMA ExecFailsKeeps ==
  ASSUME MemInv, NEW p \in Procs, ExecFails(p)
  PROVE  MemInv'
<1>1. /\ status[p] = "live" /\ op[p].at = "exec" /\ free' = free \cup FramesOf(build[p])
      /\ build' = [build EXCEPT ![p] = NoSpace] /\ op' = [op EXCEPT ![p] = User]
      /\ UNCHANGED <<sz, vm, status, kstack>>
  BY DEF ExecFails, Runs, Return
<1>2. /\ build' \in [Procs -> Spaces] /\ build'[p] = NoSpace
      /\ \A r \in Procs : r # p => build'[r] = build[r]
  BY <1>1, NothingMapped DEF MemInv, MemTypes, Whole
<1>3. /\ op' \in [Procs -> Ops] /\ op'[p] = User /\ \A r \in Procs : r # p => op'[r] = op[r]
  BY <1>1 DEF MemInv, MemTypes, Ops, User
<1>4. MemTypes' /\ Spaced'
  BY <1>1, <1>2, <1>3, NothingMapped DEF MemInv, MemTypes, Spaced
<1>5. Shared'
  <2>1. Split(free \cup FramesOf(build[p]), Own(vm, build', kstack))
    BY <1>1, BuildGiven DEF MemInv, MemTypes, Shared
  <2> QED BY <1>1, <2>1 DEF Shared
<1>6. \A r \in Procs : Steady(r)'
  <2> TAKE r \in Procs
  <2>1. CASE r # p
    BY <1>1, <1>2, <1>3, <2>1, SteadyKept DEF MemInv
  <2>2. CASE r = p
    BY <1>1, <1>2, <1>3, <2>2 DEF MemInv, Steady, User
  <2> QED BY <2>1, <2>2
<1>7. Embryos'
  BY <1>1, <1>3, EmbryosKept DEF MemInv, MemTypes, User
<1> QED BY <1>4, <1>5, <1>6, <1>7 DEF MemInv

LEMMA ExecCommitKeeps ==
  ASSUME MemInv, NEW p \in Procs, ExecCommit(p)
  PROVE  MemInv'
<1> DEFINE s1 == [build[p] EXCEPT !.pte[TextPages].user = FALSE]
<1>1. /\ status[p] = "live" /\ op[p].at = "exec" /\ free' = free \cup FramesOf(vm[p])
      /\ vm' = [vm EXCEPT ![p] = s1]
      /\ build' = [build EXCEPT ![p] = NoSpace] /\ op' = [op EXCEPT ![p] = User]
      /\ sz' = [sz EXCEPT ![p] = TextPages + 2] /\ UNCHANGED <<status, kstack>>
  BY DEF ExecCommit, Runs
<1>2. Whole(s1) /\ FramesOf(s1) = FramesOf(build[p])
  BY Indexing, GuardMade DEF MemInv, Spaced
<1> HIDE DEF s1
<1>3. /\ build' \in [Procs -> Spaces] /\ build'[p] = NoSpace
      /\ \A r \in Procs : r # p => build'[r] = build[r]
  BY <1>1, NothingMapped DEF MemInv, MemTypes, Whole
<1>4. /\ vm' \in [Procs -> Spaces] /\ vm'[p] = s1
      /\ \A r \in Procs : r # p => vm'[r] = vm[r]
  BY <1>1, <1>2 DEF MemInv, MemTypes, Whole
<1>5. /\ op' \in [Procs -> Ops] /\ op'[p] = User /\ \A r \in Procs : r # p => op'[r] = op[r]
  BY <1>1 DEF MemInv, MemTypes, Ops, User
<1>6. sz' \in [Procs -> 0 .. MaxPages] /\ \A r \in Procs : r # p => sz'[r] = sz[r]
  BY <1>1, PagingAssumption DEF MemInv, MemTypes
<1>7. MemTypes' /\ Spaced'
  BY <1>1, <1>2, <1>3, <1>4, <1>5, <1>6, NothingMapped DEF MemInv, MemTypes, Spaced
<1>8. Shared'
  <2> DEFINE v2 == [vm EXCEPT ![p] = NoSpace]
  <2>1. Split(free \cup FramesOf(vm[p]), Own(v2, build, kstack))
    BY VmGiven DEF MemInv, MemTypes, Shared
  <2>2. v2 \in [Procs -> Spaces] /\ v2[p] = NoSpace /\ vm' = [v2 EXCEPT ![p] = s1]
    BY <1>1, NothingMapped DEF MemInv, MemTypes, Whole
  <2> HIDE DEF v2
  <2>3. Split(free \cup FramesOf(vm[p]), Own([v2 EXCEPT ![p] = s1], [build EXCEPT ![p] = NoSpace], kstack))
    BY <1>2, <2>1, <2>2, BuildMoved DEF MemInv, MemTypes
  <2> QED BY <1>1, <2>2, <2>3 DEF Shared
<1>9. \A r \in Procs : Steady(r)'
  <2> TAKE r \in Procs
  <2>1. CASE r # p
    BY <1>1, <1>3, <1>4, <1>5, <1>6, <2>1, SteadyKept DEF MemInv
  <2>2. CASE r = p
    BY <1>1, <1>3, <1>4, <1>5, <2>2 DEF MemInv, Steady, User
  <2> QED BY <2>1, <2>2
<1>10. Embryos'
  BY <1>1, <1>5, EmbryosKept DEF MemInv, MemTypes, User
<1> QED BY <1>7, <1>8, <1>9, <1>10 DEF MemInv

LEMMA ReapKeeps ==
  ASSUME MemInv, NEW p \in Procs, NEW q \in Procs, Reap(p, q)
  PROVE  MemInv'
<1>1. /\ status[q] = "zombie" /\ free' = free \cup (FramesOf(vm[q]) \cup {kstack[q]})
      /\ status' = [status EXCEPT ![q] = "unused"] /\ kstack' = [kstack EXCEPT ![q] = NoFrame]
      /\ vm' = [vm EXCEPT ![q] = NoSpace] /\ sz' = [sz EXCEPT ![q] = 0]
      /\ UNCHANGED <<build, op>>
  BY DEF Reap, Return
<1>2. kstack[q] # NoFrame /\ op[q] = User /\ build[q] = NoSpace
  BY <1>1 DEF MemInv, Steady, User
<1>3. /\ vm' \in [Procs -> Spaces] /\ vm'[q] = NoSpace
      /\ \A r \in Procs : r # q => vm'[r] = vm[r]
  BY <1>1, NothingMapped DEF MemInv, MemTypes, Whole
<1>4. /\ kstack' \in [Procs -> Frames \cup {NoFrame}] /\ kstack'[q] = NoFrame
      /\ \A r \in Procs : r # q => kstack'[r] = kstack[r]
  BY <1>1 DEF MemInv, MemTypes
<1>5. sz' \in [Procs -> 0 .. MaxPages] /\ \A r \in Procs : r # q => sz'[r] = sz[r]
  BY <1>1, PagingAssumption DEF MemInv, MemTypes
<1>6. /\ status'[q] = "unused" /\ \A r \in Procs : r # q => status'[r] = status[r]
      /\ MemTypes' /\ Spaced'
  BY <1>1, <1>3, <1>4, <1>5, NothingMapped DEF MemInv, MemTypes, Spaced
<1>7. Shared'
  <2>1. Split(free \cup {kstack[q]}, Own(vm, build, kstack'))
    BY <1>1, <1>2, StackGiven DEF MemInv, MemTypes, Shared
  <2>2. Split((free \cup {kstack[q]}) \cup FramesOf(vm[q]), Own(vm', build, kstack'))
    BY <1>1, <2>1, VmGiven DEF MemInv, MemTypes
  <2>3. (free \cup {kstack[q]}) \cup FramesOf(vm[q]) = free'
    BY <1>1
  <2> QED BY <1>1, <2>2, <2>3 DEF Shared
<1>8. \A r \in Procs : Steady(r)'
  <2> TAKE r \in Procs
  <2>1. CASE r # q
    BY <1>1, <1>3, <1>4, <1>5, <1>6, <2>1, SteadyKept DEF MemInv
  <2>2. CASE r = q
    BY <1>1, <1>2, <1>3, <1>4, <1>6, <2>2 DEF MemInv, Steady, User
  <2> QED BY <2>1, <2>2
<1>9. Embryos'
  BY <1>1, <1>6, EmbryosKept DEF MemInv, MemTypes
<1> QED BY <1>6, <1>7, <1>8, <1>9 DEF MemInv

LEMMA NextMemInv == MemInv /\ [Next]_vars => MemInv'
<1> SUFFICES ASSUME MemInv, [Next]_vars PROVE MemInv'
  OBVIOUS
<1>1. ASSUME NEW p \in Procs, NEW a \in Pages, NEW v \in Data, Write(p, a, v) PROVE MemInv'
  BY <1>1, QuietKeeps DEF Write, Runs
<1>2. ASSUME NEW p \in Procs, FaultFails(p) PROVE MemInv'
  BY <1>2, QuietKeeps DEF FaultFails, Runs
<1>3. ASSUME NEW p \in Procs, ForkPanic(p) PROVE MemInv'
  BY <1>3, QuietKeeps DEF ForkPanic, Runs
<1>4. ASSUME NEW p \in Procs, Exit(p) PROVE MemInv'
  <2>1. op[p] = User
    BY <1>4 DEF Exit, Runs, MemInv, MemTypes, Ops, User
  <2> QED BY <1>4, <2>1, QuietKeeps DEF Exit, Ends, Runs
<1>5. ASSUME NEW p \in Procs, ForkCopy(p) PROVE MemInv'
  <2> DEFINE a == op[p].page
             m == Kalloc(Page(a), free)
  <2>1. /\ status[p] = "live" /\ op[p].at = "fork" /\ a < sz[p]
        /\ m # NoFrame /\ CanMap(build[p], a, free \ {m})
        /\ build' = [build EXCEPT ![p] = MapPage(@, a, m, vm[p].pte[a].user, free \ {m})]
        /\ free' = Taken(build[p], a, free \ {m})
        /\ op' = [op EXCEPT ![p].page = @ + 1] /\ UNCHANGED <<status, kstack, sz, vm>>
    BY <1>5 DEF ForkCopy, Runs
  <2>2. a \in Pages /\ free \in SUBSET Frames
    BY <2>1, Indexing DEF MemInv, MemTypes, Ops, Shared, Split, Pages
  <2>3. vm[p].pte[a].user \in BOOLEAN
    BY <2>2 DEF MemInv, MemTypes, Spaces, Entries
  <2>4. m \in Frames /\ Gets(free, m, free \ {m}, m)
    BY <2>1, <2>2, Picked DEF Gets
  <2> HIDE DEF a, m
  <2> QED BY <2>1, <2>2, <2>3, <2>4, PageBuilt DEF a
<1>6. ASSUME NEW p \in Procs, ExecPage(p) PROVE MemInv'
  <2> DEFINE a == op[p].page
             m == Kalloc(Page(a), free)
  <2>1. /\ status[p] = "live" /\ op[p].at = "exec" /\ a < TextPages + 2
        /\ m # NoFrame /\ CanMap(build[p], a, free \ {m})
        /\ build' = [build EXCEPT ![p] = MapPage(@, a, m, TRUE, free \ {m})]
        /\ free' = Taken(build[p], a, free \ {m})
        /\ op' = [op EXCEPT ![p].page = @ + 1] /\ UNCHANGED <<status, kstack, sz, vm>>
    BY <1>6 DEF ExecPage, Runs
  <2>2. a \in Pages /\ free \in SUBSET Frames
    BY <2>1, PagingAssumption DEF MemInv, MemTypes, Ops, Shared, Split, Pages
  <2>4. m \in Frames /\ Gets(free, m, free \ {m}, m)
    BY <2>1, <2>2, Picked DEF Gets
  <2> HIDE DEF a, m
  <2> QED BY <2>1, <2>2, <2>4, PageBuilt DEF a
<1>7. ASSUME NEW p \in Procs, ForkSkip(p) PROVE MemInv'
  <2>1. /\ status[p] = "live" /\ op[p].at = "fork" /\ op[p].page < sz[p]
        /\ op' = [op EXCEPT ![p].page = @ + 1] /\ UNCHANGED <<free, status, kstack, sz, vm, build>>
    BY <1>7 DEF ForkSkip, Runs
  <2>2. /\ op'[p] \in Ops /\ op'[p].at = "fork" /\ op'[p].page = op[p].page + 1 /\ op[p].page \in Nat
        /\ op'[p].child = op[p].child
        /\ \A r \in Procs : r # p => op'[r] = op[r]
        /\ op' \in [Procs -> Ops]
    <3> DEFINE o1 == [op[p] EXCEPT !.page = @ + 1]
    <3>1. op \in [Procs -> Ops] /\ op[p] \in Ops
      BY DEF MemInv, MemTypes
    <3>2. o1 \in Ops /\ o1.at = "fork" /\ o1.page = op[p].page + 1 /\ o1.child = op[p].child /\ op[p].page \in Nat
      BY <2>1, <3>1, PageOn
    <3>3. op' = [op EXCEPT ![p] = o1]
      BY <2>1, <3>1
    <3> HIDE DEF o1
    <3> QED BY <3>1, <3>2, <3>3
  <2>3. MemTypes' /\ Spaced' /\ Shared'
    BY <2>1, <2>2 DEF MemInv, MemTypes, Spaced, Shared
  <2>4. \A r \in Procs : Steady(r)'
    <3> TAKE r \in Procs
    <3>1. CASE r # p
      BY <2>1, <2>2, <3>1, SteadyKept DEF MemInv
    <3>2. CASE r = p
      <4>1. sz[p] \in Nat /\ kstack[p] # NoFrame
        BY <2>1 DEF MemInv, MemTypes, Steady
      <4>2. \A b \in Pages : b >= op'[p].page => ~Mapped(build[p], b)
        BY <2>1, <2>2, Indexing DEF MemInv, Steady
      <4> QED BY <2>1, <2>2, <3>2, <4>1, <4>2 DEF Steady
    <3> QED BY <3>1, <3>2
  <2>5. Embryos'
    BY <2>1, <2>2, EmbryosKept DEF MemInv, MemTypes
  <2> QED BY <2>3, <2>4, <2>5 DEF MemInv
<1>8. CASE UNCHANGED vars
  BY <1>8 DEF vars, MemInv, MemTypes, Spaced, Shared, Steady, Embryos, Mapped
<1> QED BY <1>1, <1>2, <1>3, <1>4, <1>5, <1>6, <1>7, <1>8, SbrkKeeps, WalkKeeps, FaultMapKeeps,
           ForkBeginKeeps, ForkFailsKeeps, ForkDoneKeeps, ExecBeginKeeps, ExecFailsKeeps,
           ExecCommitKeeps, ReapKeeps
        DEF Next

-----------------------------------------------------------------------------
(* The holders of frames, one for each frame that is not free.             *)

Last(h) == h[Len(h)]

\* What is in a space, without the tuples.
LEMMA InSpaceIs ==
  ASSUME NEW s, NEW name, NEW h
  PROVE  h \in InSpace(name, s) <=>
           \/ h = <<name, "dir", s.dir>>
           \/ \E t \in Tables : h = <<name, "table", t, s.table[t]>>
           \/ \E a \in Pages : h = <<name, "page", a, s.pte[a].frame>>
BY DEF InSpace

LEMMA InSpaceHeld ==
  ASSUME NEW s, NEW name, NEW h \in InSpace(name, s), Last(h) \in Frames
  PROVE  Last(h) \in FramesOf(s) /\ h[1] = name /\ h[2] # "stack"
<1>1. NoFrame \notin Frames /\ NoMemory \notin Frames
  BY PagingAssumption
<1>2. CASE h = <<name, "dir", s.dir>>
  <2>1. Last(h) = s.dir
    BY <1>2 DEF Last
  <2> QED BY <1>1, <1>2, <2>1 DEF FramesOf
<1>3. ASSUME NEW t \in Tables, h = <<name, "table", t, s.table[t]>> PROVE Last(h) \in FramesOf(s) /\ h[1] = name /\ h[2] # "stack"
  <2>1. Last(h) = s.table[t]
    BY <1>3 DEF Last
  <2> QED BY <1>1, <1>3, <2>1 DEF FramesOf
<1>4. ASSUME NEW a \in Pages, h = <<name, "page", a, s.pte[a].frame>> PROVE Last(h) \in FramesOf(s) /\ h[1] = name /\ h[2] # "stack"
  <2>1. Last(h) = s.pte[a].frame
    BY <1>4 DEF Last
  <2> QED BY <1>1, <1>4, <2>1 DEF FramesOf
<1> QED BY <1>2, <1>3, <1>4, InSpaceIs

LEMMA InSpaceOnce ==
  ASSUME NEW s, Apart(s), NEW name, NEW h \in InSpace(name, s), NEW g \in InSpace(name, s),
         Last(h) \in Frames, Last(h) = Last(g)
  PROVE  h = g
<1>1. ASSUME NEW x, x = <<name, "dir", s.dir>> PROVE Last(x) = s.dir
  BY <1>1 DEF Last
<1>2. ASSUME NEW x, NEW t \in Tables, x = <<name, "table", t, s.table[t]>> PROVE Last(x) = s.table[t]
  BY <1>2 DEF Last
<1>3. ASSUME NEW x, NEW a \in Pages, x = <<name, "page", a, s.pte[a].frame>> PROVE Last(x) = s.pte[a].frame
  BY <1>3 DEF Last
<1>4. CASE h = <<name, "dir", s.dir>>
  <2>1. s.dir \in Frames /\ Last(g) = s.dir
    BY <1>1, <1>4
  <2> QED BY <1>2, <1>3, <1>4, <2>1, InSpaceIs DEF Apart
<1>5. ASSUME NEW t \in Tables, h = <<name, "table", t, s.table[t]>> PROVE h = g
  <2>1. s.table[t] \in Frames /\ Last(g) = s.table[t]
    BY <1>2, <1>5
  <2> QED BY <1>1, <1>2, <1>3, <1>5, <2>1, InSpaceIs DEF Apart
<1>6. ASSUME NEW a \in Pages, h = <<name, "page", a, s.pte[a].frame>> PROVE h = g
  <2>1. s.pte[a].frame \in Frames /\ Last(g) = s.pte[a].frame
    BY <1>3, <1>6
  <2> QED BY <1>1, <1>2, <1>3, <1>6, <2>1, InSpaceIs DEF Apart
<1> QED BY <1>4, <1>5, <1>6, InSpaceIs

LEMMA InSpaceEach ==
  ASSUME NEW s, NEW name, NEW f \in FramesOf(s)
  PROVE  \E h \in InSpace(name, s) : Last(h) = f
<1>1. CASE f = s.dir
  <2>1. <<name, "dir", s.dir>> \in InSpace(name, s) /\ Last(<<name, "dir", s.dir>>) = s.dir
    BY DEF InSpace, Last
  <2> QED BY <1>1, <2>1
<1>2. ASSUME NEW t \in Tables, f = s.table[t] PROVE \E h \in InSpace(name, s) : Last(h) = f
  <2>1. /\ <<name, "table", t, s.table[t]>> \in InSpace(name, s)
        /\ Last(<<name, "table", t, s.table[t]>>) = s.table[t]
    BY DEF InSpace, Last
  <2> QED BY <1>2, <2>1
<1>3. ASSUME NEW a \in Pages, f = s.pte[a].frame PROVE \E h \in InSpace(name, s) : Last(h) = f
  <2>1. /\ <<name, "page", a, s.pte[a].frame>> \in InSpace(name, s)
        /\ Last(<<name, "page", a, s.pte[a].frame>>) = s.pte[a].frame
    BY DEF InSpace, Last
  <2> QED BY <1>3, <2>1
<1> QED BY <1>1, <1>2, <1>3 DEF FramesOf

HeldBy(i, p) == CASE i = "vm" -> InSpace(<<"vm", p>>, vm[p])
                  [] i = "build" -> InSpace(<<"build", p>>, build[p])
                  [] i = "stack" -> {<<p, "stack", kstack[p]>>}

LEMMA HoldersIs ==
  \A h : h \in Holders <=> Last(h) \in Frames /\ \E i \in Kinds, p \in Procs : h \in HeldBy(i, p)
<1> TAKE h
<1> DEFINE held(p) == InSpace(<<"vm", p>>, vm[p]) \cup InSpace(<<"build", p>>, build[p])
                        \cup {<<p, "stack", kstack[p]>>}
<1>1. h \in Holders <=> Last(h) \in Frames /\ \E p \in Procs : h \in held(p)
  BY DEF Holders, Last
<1>2. \A p \in Procs : h \in held(p) <=> \E i \in Kinds : h \in HeldBy(i, p)
  BY DEF HeldBy, Kinds
<1> HIDE DEF held
<1> QED BY <1>1, <1>2

\* The holders of what an owner has, each frame once.
LEMMA HeldOnce ==
  ASSUME MemInv, NEW i \in Kinds, NEW p \in Procs
  PROVE  LET own == Own(vm, build, kstack)[i][p]
         IN  /\ \A h \in HeldBy(i, p) : Last(h) \in Frames => Last(h) \in own
             /\ \A h, g \in HeldBy(i, p) : Last(h) \in Frames /\ Last(h) = Last(g) => h = g
             /\ \A f \in own : \E h \in HeldBy(i, p) : Last(h) = f
<1> DEFINE own == Own(vm, build, kstack)[i][p]
<1>1. Apart(vm[p]) /\ Apart(build[p]) /\ NoFrame \notin Frames
  BY PagingAssumption DEF MemInv, Spaced, Whole
<1>2. CASE i = "vm"
  <2>1. HeldBy(i, p) = InSpace(<<"vm", p>>, vm[p]) /\ own = FramesOf(vm[p])
    BY <1>2, OwnIs DEF HeldBy
  <2> HIDE DEF own
  <2> QED BY <1>1, <2>1, InSpaceHeld, InSpaceOnce, InSpaceEach DEF own
<1>3. CASE i = "build"
  <2>1. HeldBy(i, p) = InSpace(<<"build", p>>, build[p]) /\ own = FramesOf(build[p])
    BY <1>3, OwnIs DEF HeldBy
  <2> HIDE DEF own
  <2> QED BY <1>1, <2>1, InSpaceHeld, InSpaceOnce, InSpaceEach DEF own
<1>4. CASE i = "stack"
  <2>1. HeldBy(i, p) = {<<p, "stack", kstack[p]>>} /\ own = {kstack[p]} \ {NoFrame}
    BY <1>4, OwnIs DEF HeldBy
  <2>2. Last(<<p, "stack", kstack[p]>>) = kstack[p]
    BY DEF Last
  <2> HIDE DEF own
  <2> QED BY <1>1, <2>1, <2>2 DEF own
<1> QED BY <1>2, <1>3, <1>4 DEF Kinds

LEMMA MemInvFrames == MemInv => FramesUsedOnce
<1> SUFFICES ASSUME MemInv PROVE FramesUsedOnce
  OBVIOUS
<1> DEFINE used == Frames \ free
           own == Own(vm, build, kstack)
           f == [h \in Holders |-> Last(h)]
<1>1. Split(free, own)
  BY DEF MemInv, Shared
<1> HIDE DEF own
<1>2. \A h \in Holders : Last(h) \in used
  <2> TAKE h \in Holders
  <2>1. PICK i \in Kinds, p \in Procs : Last(h) \in Frames /\ h \in HeldBy(i, p)
    BY HoldersIs
  <2>2. Last(h) \in own[i][p]
    BY <2>1, HeldOnce DEF own
  <2> QED BY <1>1, <2>1, <2>2 DEF Split
<1>3. \A x \in used : \E h \in Holders : Last(h) = x
  <2> TAKE x \in used
  <2>1. PICK i \in Kinds, p \in Procs : x \in own[i][p]
    BY <1>1 DEF Split
  <2>2. PICK h \in HeldBy(i, p) : Last(h) = x
    BY <2>1, HeldOnce DEF own
  <2> QED BY <2>2, HoldersIs
<1>4. \A h, g \in Holders : Last(h) = Last(g) => h = g
  <2> SUFFICES ASSUME NEW h \in Holders, NEW g \in Holders, Last(h) = Last(g) PROVE h = g
    OBVIOUS
  <2>1. PICK i \in Kinds, p \in Procs : Last(h) \in Frames /\ h \in HeldBy(i, p)
    BY HoldersIs
  <2>2. PICK j \in Kinds, q \in Procs : Last(g) \in Frames /\ g \in HeldBy(j, q)
    BY HoldersIs
  <2>3. Last(h) \in own[i][p] /\ Last(h) \in own[j][q]
    BY <2>1, <2>2, HeldOnce DEF own
  <2>4. i = j /\ p = q
    BY <1>1, <2>3 DEF Split
  <2> QED BY <2>1, <2>2, <2>4, HeldOnce
<1>5. IsFiniteSet(used)
  BY PagingAssumption, FS_Subset
<1>6. f \in Injection(Holders, used) /\ f \in Surjection(Holders, used)
  <2>1. f \in [Holders -> used]
    BY <1>2
  <2>2. \A h, g \in Holders : f[h] = f[g] => h = g
    BY <1>4
  <2>3. \A x \in used : \E h \in Holders : f[h] = x
    BY <1>3
  <2>4. DOMAIN f = Holders
    OBVIOUS
  <2> HIDE DEF f, used
  <2> QED BY <2>1, <2>2, <2>3, <2>4 DEF Injection, Surjection, IsInjective
<1> HIDE DEF f
<1>7. Cardinality(Holders) = Cardinality(used)
  BY <1>5, <1>6, FS_Injection
<1>8. {Last(h) : h \in Holders} = used
  BY <1>2, <1>3
<1> QED BY <1>7, <1>8 DEF FramesUsedOnce, Last

(* Every frame of the allocator is used exactly once, whatever forks,      *)
(* execs, faults and failures came before.                                 *)
THEOREM FramesCorrect == Spec => []FramesUsedOnce
<1>1. Init => MemInv
  BY InitMemInv
<1>2. MemInv /\ [Next]_vars => MemInv'
  BY NextMemInv
<1>3. MemInv => FramesUsedOnce
  BY MemInvFrames
<1> QED BY <1>1, <1>2, <1>3, PTL DEF Spec

-----------------------------------------------------------------------------
(* Every process sees a memory of its own.                                 *)

Holding == content = [f \in Frames |-> content[f]] /\ top \in [Procs -> Nat]

\* A live process has its first page, and nothing beyond what it grew over.
Reached(p) ==
  status[p] = "live" =>
    /\ vm[p].pte[0].frame \in Frames
    /\ 1 <= sz[p] /\ sz[p] <= top[p]
    /\ \A a \in Pages : Mapped(vm[p], a) => a < top[p]

\* A fault without a table goes on only when the first page reads as zero.
Faulting(p) ==
  op[p].at = "fault" =>
    /\ op[p].page < sz[p]
    /\ Present(vm[p], op[p].page) \/ content[vm[p].pte[0].frame] = Zero

\* Copied so far; what a page without memory is copied as does not matter.
Copying(p) ==
  op[p].at = "fork" =>
    \A a \in Pages : a < op[p].page =>
      LET e == vm[p].pte[a]
          c == build[p].pte[a] IN
      /\ Mapped(build[p], a) <=> Mapped(vm[p], a)
      /\ Mapped(build[p], a) => c.user = e.user /\ c.frame \in Frames
      /\ e.frame \in Frames => content[c.frame] = content[e.frame]

\* Loaded so far.
Loading(p) ==
  op[p].at = "exec" =>
    \A a \in Pages : a < op[p].page =>
      LET c == build[p].pte[a] IN
      /\ c.frame \in Frames /\ c.user
      /\ content[c.frame] = IF a < TextPages THEN Image ELSE Zero

Kept(p) == Reached(p) /\ Faulting(p) /\ Copying(p) /\ Loading(p)
KeptInv == Holding /\ \A p \in Procs : Kept(p)

\* The frames the owners have are apart, and none of them is free.
LEMMA Beside ==
  ASSUME MemInv
  PROVE  \A p \in Procs :
           /\ FramesOf(vm[p]) \subseteq Frames /\ FramesOf(build[p]) \subseteq Frames
           /\ \A f \in free : f \notin FramesOf(vm[p]) /\ f \notin FramesOf(build[p])
           /\ \A q \in Procs :
                /\ \A f \in FramesOf(vm[q]) : f \notin FramesOf(build[p])
                /\ p # q => \A f \in FramesOf(vm[q]) : f \notin FramesOf(vm[p])
                /\ p # q => \A f \in FramesOf(build[q]) : f \notin FramesOf(build[p])
                /\ kstack[q] \notin FramesOf(vm[p]) /\ kstack[q] \notin FramesOf(build[p])
<1> DEFINE own == Own(vm, build, kstack)
<1>1. Split(free, own) /\ NoFrame \notin Frames
  BY PagingAssumption DEF MemInv, Shared
<1>2. \A p \in Procs : /\ own["vm"][p] = FramesOf(vm[p]) /\ own["build"][p] = FramesOf(build[p])
                       /\ own["stack"][p] = {kstack[p]} \ {NoFrame}
  BY OwnIs
<1> HIDE DEF own
<1>3. \A p \in Procs, q \in Procs :
        /\ own["vm"][p] \subseteq Frames /\ own["build"][p] \subseteq Frames
        /\ own["vm"][p] \cap free = {} /\ own["build"][p] \cap free = {}
        /\ own["vm"][q] \cap own["build"][p] = {}
        /\ p # q => own["vm"][p] \cap own["vm"][q] = {}
        /\ p # q => own["build"][p] \cap own["build"][q] = {}
        /\ own["stack"][q] \cap own["vm"][p] = {} /\ own["stack"][q] \cap own["build"][p] = {}
  BY <1>1 DEF Split, Kinds
<1> QED BY <1>1, <1>2, <1>3

LEMMA EntryFrame ==
  ASSUME NEW s, Whole(s), NEW a \in Pages
  PROVE  /\ s.pte[a] \in Entries
         /\ Mapped(s, a) <=> s.pte[a].frame # NoFrame
         /\ Mapped(s, a) /\ s.pte[a].frame # NoMemory =>
              s.pte[a].frame \in Frames /\ s.pte[a].frame \in FramesOf(s)
         /\ s.pte[a].frame \in Frames => s.pte[a].frame \in FramesOf(s) /\ s.pte[a].frame # NoMemory
<1>1. s \in Spaces /\ Tabled(s) /\ NoFrame \notin Frames /\ NoMemory \notin Frames
  BY PagingAssumption DEF Whole
<1>2. s.pte[a] \in Entries
  BY <1>1 DEF Spaces
<1>3. Mapped(s, a) <=> s.pte[a].frame # NoFrame
  <2>1. Unmapped.frame = NoFrame
    BY DEF Unmapped
  <2> QED BY <1>1, <1>2, <2>1 DEF Tabled, Mapped
<1>4. s.pte[a].frame \in Frames \cup {NoFrame, NoMemory}
  BY <1>2 DEF Entries
<1>5. s.pte[a].frame \in Frames => s.pte[a].frame \in FramesOf(s)
  BY <1>1 DEF FramesOf
<1> QED BY <1>1, <1>2, <1>3, <1>4, <1>5

LEMMA OnePage ==
  ASSUME NEW s, Whole(s), NEW a \in Pages, NEW b \in Pages, s.pte[a].frame \in Frames,
         s.pte[a].frame = s.pte[b].frame
  PROVE  a = b
BY DEF Whole, Apart

-----------------------------------------------------------------------------
(* What AddressSpace sees of a process, and when it sees no change.        *)

Size(p) == IfLive(p, sz[p], 0)
Reach(p) == IfLive(p, top[p], 0)
Guards(p) == IfLive(p, Guarded(p), {})

Same(p) == UNCHANGED <<Seen(p), Size(p), Reach(p), Guards(p)>>

\* The pages of s hold what they held.
Untouched(s) == \A f \in FramesOf(s) : content'[f] = content[f]

LEMMA NothingSeen ==
  ASSUME \A p \in Procs : Same(p)
  PROVE  UNCHANGED Memory!vars
<1>1. \A p \in Procs : /\ Seen(p)' = Seen(p) /\ IfLive(p, sz[p], 0)' = IfLive(p, sz[p], 0)
                       /\ IfLive(p, top[p], 0)' = IfLive(p, top[p], 0)
                       /\ IfLive(p, Guarded(p), {})' = IfLive(p, Guarded(p), {})
  BY DEF Same, Size, Reach, Guards
<1> QED BY <1>1, Zenon DEF Memory!vars

LEMMA SeenSame ==
  ASSUME NEW p \in Procs, Whole(vm[p]), status'[p] = status[p], vm'[p].pte = vm[p].pte,
         sz'[p] = sz[p], top'[p] = top[p], Untouched(vm[p])
  PROVE  Same(p)
<1>1. \A a \in Pages : /\ Mapped(vm'[p], a) <=> Mapped(vm[p], a)
                       /\ Mapped(vm[p], a) /\ vm[p].pte[a].frame # NoMemory =>
                            content'[vm[p].pte[a].frame] = content[vm[p].pte[a].frame]
  BY EntryFrame DEF Mapped, Untouched
<1>2. Seen(p)' = Seen(p)
  BY <1>1 DEF Seen
<1>3. Guarded(p)' = Guarded(p)
  BY <1>1 DEF Guarded
<1> QED BY <1>2, <1>3 DEF Same, Size, Reach, Guards, IfLive

\* Nobody sees anything of a process that is not live.
LEMMA UnseenSame ==
  ASSUME NEW p \in Procs, status[p] # "live", status'[p] # "live"
  PROVE  Same(p)
BY DEF Same, Size, Reach, Guards, IfLive, Seen

LEMMA KeptSame ==
  ASSUME NEW p \in Procs, Kept(p), Whole(vm[p]), Whole(build[p]),
         UNCHANGED <<status[p], op[p], sz[p], top[p], vm[p], build[p]>>,
         Untouched(vm[p]), Untouched(build[p]), op \in [Procs -> Ops], 
         op[p].at = "fault" => status[p] = "live"
  PROVE  Kept(p)'
<1>1. \A a \in Pages : /\ Mapped(vm[p], a)' <=> Mapped(vm[p], a)
                       /\ Mapped(build[p], a)' <=> Mapped(build[p], a)
                       /\ Present(vm[p], a)' <=> Present(vm[p], a)
  BY DEF Mapped, Present
<1>2. \A a \in Pages : /\ vm[p].pte[a].frame \in Frames =>
                            content'[vm[p].pte[a].frame] = content[vm[p].pte[a].frame]
                       /\ build[p].pte[a].frame \in Frames =>
                            content'[build[p].pte[a].frame] = content[build[p].pte[a].frame]
  BY EntryFrame DEF Untouched
<1>3. Reached(p)'
  BY <1>1 DEF Kept, Reached
<1>4. Faulting(p)'
  <2>1. op[p].at = "fault" => op[p].page \in Pages /\ 0 \in Pages
    BY Indexing DEF Ops
  <2> QED BY <1>1, <1>2, <2>1 DEF Kept, Reached, Faulting
<1>5. Copying(p)'
  <2> SUFFICES ASSUME op[p].at = "fork", NEW a \in Pages, a < op[p].page
               PROVE  LET e == vm[p].pte[a]
                          c == build[p].pte[a] IN
                      /\ Mapped(build[p], a) <=> Mapped(vm[p], a)
                      /\ Mapped(build[p], a) => c.user = e.user /\ c.frame \in Frames
                      /\ e.frame \in Frames => content'[c.frame] = content'[e.frame]
    BY <1>1 DEF Copying
  <2>1. vm[p].pte[a].frame \in Frames => Mapped(vm[p], a)
    BY EntryFrame, PagingAssumption
  <2> QED BY <1>1, <1>2, <2>1 DEF Kept, Copying
<1>6. Loading(p)'
  BY <1>2 DEF Kept, Loading
<1> QED BY <1>3, <1>4, <1>5, <1>6 DEF Kept

\* A process the step does not concern.
Beyond(p) == /\ UNCHANGED <<status[p], op[p], sz[p], top[p], vm[p], build[p]>>
             /\ Untouched(vm[p]) /\ Untouched(build[p])

LEMMA Bystander ==
  ASSUME MemInv, NEW p \in Procs, Kept(p), Beyond(p)
  PROVE  Same(p) /\ Kept(p)'
<1>1. Whole(vm[p]) /\ Whole(build[p]) /\ op \in [Procs -> Ops]
  BY DEF MemInv, Spaced, MemTypes
<1>2. op[p].at = "fault" => status[p] = "live"
  BY DEF MemInv, Steady, User
<1> QED BY <1>1, <1>2, SeenSame, KeptSame DEF Beyond

-----------------------------------------------------------------------------
(* The steps that AddressSpace sees.                                       *)

SameElse(p) == \A q \in Procs : q # p => Same(q)

LEMMA SeenExit ==
  ASSUME NEW p \in Procs, SameElse(p), Seen(p) # <<>>, status'[p] # "live"
  PROVE  Memory!Exit(p)
<1>1. \A q \in Procs : q # p =>
         /\ Seen(q)' = Seen(q) /\ IfLive(q, sz[q], 0)' = IfLive(q, sz[q], 0)
         /\ IfLive(q, top[q], 0)' = IfLive(q, top[q], 0)
         /\ IfLive(q, Guarded(q), {})' = IfLive(q, Guarded(q), {})
  BY DEF SameElse, Same, Size, Reach, Guards
<1>2. /\ Seen(p)' = <<>> /\ IfLive(p, sz[p], 0)' = 0 /\ IfLive(p, top[p], 0)' = 0
      /\ IfLive(p, Guarded(p), {})' = {}
  BY DEF Seen, IfLive
<1> QED BY <1>1, <1>2 DEF Memory!Exit, Memory!None

LEMMA SeenWrite ==
  ASSUME NEW p \in Procs, SameElse(p), NEW a \in Pages, NEW v, Seen(p) # <<>>,
         a < Reach(p), a \notin Guards(p),
         Seen(p)' = [Seen(p) EXCEPT ![a] = v],
         UNCHANGED <<Size(p), Reach(p), Guards(p)>>
  PROVE  Memory!Write(p, a, v)
<1>1. \A q \in Procs : q # p =>
         /\ Seen(q)' = Seen(q) /\ IfLive(q, sz[q], 0)' = IfLive(q, sz[q], 0)
         /\ IfLive(q, top[q], 0)' = IfLive(q, top[q], 0)
         /\ IfLive(q, Guarded(q), {})' = IfLive(q, Guarded(q), {})
  BY DEF SameElse, Same, Size, Reach, Guards
<1>2. /\ IfLive(p, sz[p], 0)' = IfLive(p, sz[p], 0) /\ IfLive(p, top[p], 0)' = IfLive(p, top[p], 0)
      /\ IfLive(p, Guarded(p), {})' = IfLive(p, Guarded(p), {})
      /\ a < IfLive(p, top[p], 0) /\ a \notin IfLive(p, Guarded(p), {})
  BY DEF Size, Reach, Guards
<1> QED BY <1>1, <1>2 DEF Memory!Write, Memory!None

LEMMA SeenResize ==
  ASSUME NEW p \in Procs, SameElse(p), NEW n, Seen(p) # <<>>,
         UNCHANGED <<Seen(p), Guards(p)>>, Size(p)' = n,
         Reach(p)' = IF n > Reach(p) THEN n ELSE Reach(p)
  PROVE  Memory!Resize(p, n)
<1>1. \A q \in Procs : q # p =>
         /\ Seen(q)' = Seen(q) /\ IfLive(q, sz[q], 0)' = IfLive(q, sz[q], 0)
         /\ IfLive(q, top[q], 0)' = IfLive(q, top[q], 0)
         /\ IfLive(q, Guarded(q), {})' = IfLive(q, Guarded(q), {})
  BY DEF SameElse, Same, Size, Reach, Guards
<1>2. /\ Seen(p)' = Seen(p) /\ IfLive(p, sz[p], 0)' = n
      /\ IfLive(p, top[p], 0)' = IF n > IfLive(p, top[p], 0) THEN n ELSE IfLive(p, top[p], 0)
      /\ IfLive(p, Guarded(p), {})' = IfLive(p, Guarded(p), {})
  BY DEF Size, Reach, Guards
<1> QED BY <1>1, <1>2 DEF Memory!Resize, Memory!None

LEMMA SeenExec ==
  ASSUME NEW p \in Procs, SameElse(p), Seen(p) # <<>>, Seen(p)' = Memory!Fresh,
         Size(p)' = TextPages + 2, Reach(p)' = TextPages + 2, Guards(p)' = {TextPages}
  PROVE  Memory!Exec(p)
<1>1. \A q \in Procs : q # p =>
         /\ Seen(q)' = Seen(q) /\ IfLive(q, sz[q], 0)' = IfLive(q, sz[q], 0)
         /\ IfLive(q, top[q], 0)' = IfLive(q, top[q], 0)
         /\ IfLive(q, Guarded(q), {})' = IfLive(q, Guarded(q), {})
  BY DEF SameElse, Same, Size, Reach, Guards
<1>2. /\ IfLive(p, sz[p], 0)' = TextPages + 2 /\ IfLive(p, top[p], 0)' = TextPages + 2
      /\ IfLive(p, Guarded(p), {})' = {TextPages}
  BY DEF Size, Reach, Guards
<1> QED BY <1>1, <1>2 DEF Memory!Exec, Memory!None

LEMMA SeenStarve ==
  ASSUME NEW p \in Procs, SameElse(p), NEW a \in Pages, Seen(p) # <<>>, a < Size(p),
         Seen(p)' = [Seen(p) EXCEPT ![0] = Zero, ![a] = Lost],
         UNCHANGED <<Size(p), Reach(p), Guards(p)>>
  PROVE  Memory!Starve(p, a)
<1>1. \A q \in Procs : q # p =>
         /\ Seen(q)' = Seen(q) /\ IfLive(q, sz[q], 0)' = IfLive(q, sz[q], 0)
         /\ IfLive(q, top[q], 0)' = IfLive(q, top[q], 0)
         /\ IfLive(q, Guarded(q), {})' = IfLive(q, Guarded(q), {})
  BY DEF SameElse, Same, Size, Reach, Guards
<1>2. /\ IfLive(p, sz[p], 0)' = IfLive(p, sz[p], 0) /\ IfLive(p, top[p], 0)' = IfLive(p, top[p], 0)
      /\ IfLive(p, Guarded(p), {})' = IfLive(p, Guarded(p), {})
      /\ a < IfLive(p, sz[p], 0)
  BY DEF Size, Reach, Guards
<1> QED BY <1>1, <1>2 DEF Memory!Starve, Memory!None

LEMMA SeenFork ==
  ASSUME NEW p \in Procs, NEW q \in Procs, p # q, SameElse(q), Seen(p) # <<>>, Seen(q) = <<>>,
         DOMAIN Seen(q)' = Pages,
         \A a \in Pages : IF a < Size(p) THEN Seen(p)[a] = Lost \/ Seen(q)'[a] = Seen(p)[a]
                                         ELSE Seen(q)'[a] = Zero,
         Size(q)' = Size(p), Reach(q)' = Size(p), Guards(q)' = {a \in Guards(p) : a < Size(p)}
  PROVE  Memory!Fork(p, q)
<1>1. \A r \in Procs : r # q =>
         /\ Seen(r)' = Seen(r) /\ IfLive(r, sz[r], 0)' = IfLive(r, sz[r], 0)
         /\ IfLive(r, top[r], 0)' = IfLive(r, top[r], 0)
         /\ IfLive(r, Guarded(r), {})' = IfLive(r, Guarded(r), {})
  BY DEF SameElse, Same, Size, Reach, Guards
<1>2. /\ IfLive(q, sz[q], 0)' = IfLive(p, sz[p], 0) /\ IfLive(q, top[q], 0)' = IfLive(p, sz[p], 0)
      /\ IfLive(q, Guarded(q), {})' = {a \in IfLive(p, Guarded(p), {}) : a < IfLive(p, sz[p], 0)}
  BY DEF Size, Reach, Guards
<1>3. Memory!CopyOf(p, Seen(q)')
  BY DEF Memory!CopyOf, Size
<1> QED BY <1>1, <1>2, <1>3 DEF Memory!Fork, Memory!None

\* What each step has to keep, and how AddressSpace sees it.
Result == KeptInv' /\ [Memory!Next]_(Memory!vars)

LEMMA Concerned ==
  ASSUME MemInv, KeptInv, NEW p \in Procs, \A q \in Procs : q # p => Beyond(q),
         Holding', Kept(p)'
  PROVE  KeptInv' /\ SameElse(p)
BY Bystander DEF KeptInv, SameElse

LEMMA Stutters ==
  ASSUME MemInv, KeptInv, NEW p \in Procs, \A q \in Procs : q # p => Beyond(q),
         Holding', Kept(p)', Same(p)
  PROVE  Result
<1>1. KeptInv' /\ SameElse(p)
  BY Concerned
<1>2. \A q \in Procs : Same(q)
  BY <1>1 DEF SameElse
<1>3. UNCHANGED Memory!vars
  BY <1>2, NothingSeen
<1> QED BY <1>1, <1>3 DEF Result

LEMMA Alike ==
  ASSUME UNCHANGED content, NEW q \in Procs, UNCHANGED <<status[q], op[q], sz[q], top[q], vm[q], build[q]>>
  PROVE  Beyond(q)
BY DEF Beyond, Untouched

LEMMA SomethingSeen ==
  ASSUME NEW p \in Procs, status[p] = "live"
  PROVE  Seen(p) # <<>> /\ DOMAIN Seen(p) = Pages
<1>1. Seen(p) = [a \in Pages |-> CASE ~Mapped(vm[p], a) -> Zero
                                    [] vm[p].pte[a].frame = NoMemory -> Lost
                                    [] OTHER -> content[vm[p].pte[a].frame]]
  BY DEF Seen
<1>2. DOMAIN Seen(p) = Pages
  BY <1>1
<1>3. DOMAIN <<>> = {}
  OBVIOUS
<1> QED BY <1>2, <1>3, Indexing

LEMMA OneWritten ==
  ASSUME Holding, NEW x, NEW v, content' = [content EXCEPT ![x] = v]
  PROVE  /\ content' = [f \in Frames |-> content'[f]]
         /\ \A f \in Frames : f # x => content'[f] = content[f]
         /\ x \in Frames => content'[x] = v
<1>1. content = [f \in Frames |-> content[f]]
  BY DEF Holding
<1>2. content' = [f \in Frames |-> IF f = x THEN v ELSE content[f]]
  BY <1>1
<1> QED BY <1>2

\* What a step writes in free frames, its own and kernel stacks, others do not see.
LEMMA OthersUntouched ==
  ASSUME MemInv, NEW p \in Procs, NEW fs,
         \A f \in fs : \/ f \in free \/ f \in FramesOf(vm[p]) \/ f \in FramesOf(build[p])
                      \/ \E r \in Procs : f = kstack[r],
         \A f \in Frames : f \notin fs => content'[f] = content[f]
  PROVE  \A q \in Procs : q # p => Untouched(vm[q]) /\ Untouched(build[q])
<1> TAKE q \in Procs
<1> SUFFICES ASSUME q # p PROVE Untouched(vm[q]) /\ Untouched(build[q])
  OBVIOUS
<1>1. ASSUME NEW f \in fs PROVE f \notin FramesOf(vm[q]) /\ f \notin FramesOf(build[q])
  BY <1>1, Beside
<1>2. FramesOf(vm[q]) \subseteq Frames /\ FramesOf(build[q]) \subseteq Frames
  BY Beside
<1> QED BY <1>1, <1>2 DEF Untouched

LEMMA WriteSeen ==
  ASSUME MemInv, KeptInv, NEW p \in Procs, NEW a \in Pages, NEW v \in Data, Write(p, a, v)
  PROVE  Result
<1> DEFINE f == vm[p].pte[a].frame
<1>1. /\ status[p] = "live" /\ op[p].at = "user" /\ vm[p].pte[a].user /\ f \in Frames
      /\ content' = [content EXCEPT ![f] = v]
      /\ UNCHANGED <<status, sz, vm, build, op, top>>
  BY DEF Write, Runs
<1>2. Whole(vm[p]) /\ Holding /\ Kept(p) /\ NoFrame \notin Frames
  BY PagingAssumption DEF MemInv, Spaced, KeptInv
<1>3. /\ content' = [g \in Frames |-> content'[g]] /\ content'[f] = v
      /\ \A g \in Frames : g # f => content'[g] = content[g]
  BY <1>1, <1>2, OneWritten
<1>4. f \in FramesOf(vm[p]) /\ Mapped(vm[p], a) /\ f # NoMemory
  BY <1>1, <1>2, EntryFrame
<1>5. \A q \in Procs : q # p => Beyond(q)
  <2>1. \A q \in Procs : q # p => Untouched(vm[q]) /\ Untouched(build[q])
    <3> HIDE DEF f
    <3> DEFINE fs == {f}
    <3>1. \A g \in fs : g \in FramesOf(vm[p])
      BY <1>4
    <3>2. \A g \in Frames : g \notin fs => content'[g] = content[g]
      BY <1>3
    <3> HIDE DEF fs
    <3> QED BY <3>1, <3>2, OthersUntouched
  <2> QED BY <1>1, <2>1 DEF Beyond
<1>6. Holding'
  BY <1>1, <1>2, <1>3 DEF Holding
<1>7. Kept(p)'
  BY <1>1, <1>2 DEF Kept, Reached, Faulting, Copying, Loading, Mapped
<1>8. KeptInv' /\ SameElse(p)
  BY <1>5, <1>6, <1>7, Concerned
<1>9. Seen(p)' = [Seen(p) EXCEPT ![a] = v]
  <2> DEFINE seen == [b \in Pages |-> CASE ~Mapped(vm[p], b) -> Zero
                                         [] vm[p].pte[b].frame = NoMemory -> Lost
                                         [] OTHER -> content[vm[p].pte[b].frame]]
             seen1 == [b \in Pages |-> CASE ~Mapped(vm[p], b) -> Zero
                                         [] vm[p].pte[b].frame = NoMemory -> Lost
                                         [] OTHER -> content'[vm[p].pte[b].frame]]
  <2>1. Seen(p) = seen /\ Seen(p)' = seen1
    BY <1>1 DEF Seen, Mapped
  <2>2. \A b \in Pages : b # a => seen1[b] = seen[b]
    <3> TAKE b \in Pages
    <3>1. b # a => vm[p].pte[b].frame # f
      BY <1>1, <1>2, OnePage
    <3>2. Mapped(vm[p], b) /\ vm[p].pte[b].frame # NoMemory => vm[p].pte[b].frame \in Frames
      BY <1>2, EntryFrame
    <3> QED BY <1>3, <3>1, <3>2
  <2>3. seen1[a] = v
    BY <1>3, <1>4
  <2> QED BY <2>1, <2>2, <2>3
<1>10. a < Reach(p) /\ a \notin Guards(p) /\ UNCHANGED <<Size(p), Reach(p), Guards(p)>>
  BY <1>1, <1>2, <1>4 DEF Size, Reach, Guards, IfLive, Guarded, Kept, Reached, Mapped
<1>11. Memory!Write(p, a, v)
  BY <1>1, <1>8, <1>9, <1>10, SomethingSeen, SeenWrite
<1> QED BY <1>8, <1>11 DEF Result, Memory!Next

LEMMA SbrkSeen ==
  ASSUME MemInv, KeptInv, NEW p \in Procs, NEW n \in Deltas, Sbrk(p, n)
  PROVE  Result
<1>1. /\ status[p] = "live" /\ op[p].at = "user" /\ sz[p] + n \in 1 .. MaxPages
      /\ sz' = [sz EXCEPT ![p] = @ + n]
      /\ top' = [top EXCEPT ![p] = IF sz[p] + n > @ THEN sz[p] + n ELSE @]
      /\ UNCHANGED <<content, status, vm, build, op>>
  BY DEF Sbrk, Runs
<1>2. /\ sz \in [Procs -> 0 .. MaxPages] /\ top \in [Procs -> Nat] /\ Holding /\ Kept(p)
      /\ MaxPages \in Nat /\ Pages \subseteq Nat
  BY Indexing DEF MemInv, MemTypes, KeptInv, Holding
<1>3. PICK k \in 1 .. MaxPages : k = sz[p] + n
  BY <1>1
<1>4. /\ sz' = [sz EXCEPT ![p] = k] /\ sz'[p] = k
      /\ top'[p] = (IF k > top[p] THEN k ELSE top[p]) /\ top' \in [Procs -> Nat]
      /\ \A q \in Procs : q # p => sz'[q] = sz[q] /\ top'[q] = top[q]
  BY <1>1, <1>2, <1>3
<1>5. \A q \in Procs : q # p => Beyond(q)
  BY <1>1, <1>4, Alike
<1>6. Holding'
  BY <1>1, <1>2, <1>4 DEF Holding
<1>7. Kept(p)'
  BY <1>1, <1>2, <1>4 DEF Kept, Reached, Faulting, Copying, Loading, Mapped
<1>8. KeptInv' /\ SameElse(p)
  BY <1>5, <1>6, <1>7, Concerned
<1>9. /\ UNCHANGED <<Seen(p), Guards(p)>> /\ Size(p)' = k
      /\ Reach(p)' = IF k > Reach(p) THEN k ELSE Reach(p)
  BY <1>1, <1>4 DEF Seen, Guards, Guarded, Size, Reach, IfLive, Mapped
<1>10. Memory!Resize(p, k)
  BY <1>1, <1>8, <1>9, SomethingSeen, SeenResize
<1>11. k - 1 \in Pages /\ k = (k - 1) + 1
  BY <1>2 DEF Pages
<1> QED BY <1>8, <1>10, <1>11 DEF Result, Memory!Next

LEMMA ExitSeen ==
  ASSUME MemInv, KeptInv, NEW p \in Procs, Exit(p)
  PROVE  Result
<1>1. /\ status[p] = "live" /\ op[p].at = "user" /\ status' = [status EXCEPT ![p] = "zombie"]
      /\ UNCHANGED <<content, sz, vm, build, op, top>>
  BY DEF Exit, Ends, Runs
<1>2. status \in [Procs -> {"unused", "embryo", "live", "zombie"}] /\ Holding
  BY DEF MemInv, MemTypes, KeptInv
<1>3. status'[p] = "zombie" /\ \A q \in Procs : q # p => status'[q] = status[q]
  BY <1>1, <1>2
<1>4. \A q \in Procs : q # p => Beyond(q)
  BY <1>1, <1>3, Alike
<1>5. Holding' /\ Kept(p)'
  BY <1>1, <1>2, <1>3 DEF Holding, Kept, Reached, Faulting, Copying, Loading
<1>6. KeptInv' /\ SameElse(p)
  BY <1>4, <1>5, Concerned
<1>7. Memory!Exit(p)
  BY <1>1, <1>3, <1>6, SomethingSeen, SeenExit
<1> QED BY <1>6, <1>7 DEF Result, Memory!Next

\* The panic of copyuvm changes nothing a process sees.
LEMMA PanicSeen ==
  ASSUME MemInv, KeptInv, NEW p \in Procs, ForkPanic(p)
  PROVE  Result
<1>1. UNCHANGED <<content, status, sz, vm, build, op, top>>
  BY DEF ForkPanic
<1>2. \A q \in Procs : Beyond(q)
  BY <1>1, Alike
<1>3. Holding' /\ Kept(p)' /\ Same(p)
  BY <1>1, <1>2, Bystander DEF Holding, KeptInv
<1> QED BY <1>2, <1>3, Stutters

LEMMA WalkSeen ==
  ASSUME MemInv, KeptInv, NEW p \in Procs, NEW a \in Pages, FaultWalk(p, a)
  PROVE  Result
<1> DEFINE s1 == [vm[p] EXCEPT !.table[TableOf(a)] =
                    IF Present(vm[p], a) THEN @ ELSE Kalloc(Table(a), free)]
<1>1. /\ status[p] = "live" /\ op[p].at = "user" /\ vm' = [vm EXCEPT ![p] = s1]
      /\ IF a < sz[p] /\ PteWord(p, a)
         THEN op' = [op EXCEPT ![p] = [at |-> "fault", page |-> a]] /\ UNCHANGED <<status, halted>>
         ELSE Ends(p) /\ UNCHANGED op
      /\ UNCHANGED <<content, sz, build, top>>
  BY DEF FaultWalk, Runs
<1>2. /\ Whole(vm[p]) /\ free \in SUBSET Frames /\ free \cap FramesOf(vm[p]) = {}
      /\ vm \in [Procs -> Spaces] /\ op \in [Procs -> Ops] /\ Holding /\ Kept(p)
      /\ status \in [Procs -> {"unused", "embryo", "live", "zombie"}]
  BY Beside DEF MemInv, MemTypes, Spaced, Shared, Split, KeptInv
<1>3. s1.pte = vm[p].pte /\ (Present(vm[p], a) \/ free # {} => Present(s1, a))
  <2>1. Whole(vm[p]) /\ free \in SUBSET Frames /\ free \cap FramesOf(vm[p]) = {}
    BY <1>2
  <2>2. s1.pte = vm[p].pte /\ (CanMap(vm[p], a, free) => Present(s1, a))
    BY <2>1, TableHad, Zenon
  <2> HIDE DEF s1
  <2> QED BY <2>2 DEF CanMap
<1> HIDE DEF s1
<1>4. vm'[p].pte = vm[p].pte /\ vm'[p] = s1 /\ \A q \in Procs : q # p => vm'[q] = vm[q]
  BY <1>1, <1>2, <1>3
<1>5. Holding' /\ \A q \in Procs : Untouched(vm[q]) /\ Untouched(build[q])
  BY <1>1, <1>2 DEF Holding, Untouched
<1>6. CASE a < sz[p] /\ PteWord(p, a)
  <2>1. /\ op'[p] = [at |-> "fault", page |-> a] /\ status' = status
        /\ \A q \in Procs : q # p => op'[q] = op[q]
    BY <1>1, <1>2, <1>6
  <2>2. \A q \in Procs : q # p => Beyond(q)
    BY <1>1, <1>4, <1>5, <2>1 DEF Beyond
  <2>3. Present(s1, a) \/ content[vm[p].pte[0].frame] = Zero
    BY <1>3, <1>6 DEF PteWord
  <2>4. Reached(p)'
    BY <1>1, <1>2, <1>4, <2>1 DEF Kept, Reached, Mapped
  <2>5. Faulting(p)'
    BY <1>1, <1>4, <1>6, <2>1, <2>3 DEF Faulting, Present
  <2>6. Kept(p)'
    BY <2>1, <2>4, <2>5 DEF Kept, Copying, Loading
  <2>7. Same(p)
    BY <1>1, <1>2, <1>4, <1>5, <2>1, SeenSame
  <2> QED BY <1>5, <2>2, <2>6, <2>7, Stutters
<1>7. CASE ~(a < sz[p] /\ PteWord(p, a))
  <2>1. op' = op /\ Ends(p)
    BY <1>1, <1>7
  <2>2. CASE p = InitProc
    <3>1. status' = status
      BY <2>1, <2>2 DEF Ends
    <3>2. \A q \in Procs : q # p => Beyond(q)
      BY <1>1, <1>4, <1>5, <2>1, <3>1 DEF Beyond
    <3>3. Kept(p)'
      BY <1>1, <1>2, <1>4, <2>1, <3>1 DEF Kept, Reached, Mapped, Faulting, Copying, Loading
    <3>4. Same(p)
      BY <1>1, <1>2, <1>4, <1>5, <3>1, SeenSame
    <3> QED BY <1>5, <3>2, <3>3, <3>4, Stutters
  <2>3. CASE p # InitProc
    <3>1. status' = [status EXCEPT ![p] = "zombie"]
      BY <2>1, <2>3 DEF Ends
    <3>2. status'[p] = "zombie" /\ \A q \in Procs : q # p => status'[q] = status[q]
      BY <1>2, <3>1
    <3>3. \A q \in Procs : q # p => Beyond(q)
      BY <1>1, <1>4, <1>5, <2>1, <3>2 DEF Beyond
    <3>4. Kept(p)'
      BY <1>1, <2>1, <3>2 DEF Kept, Reached, Faulting, Copying, Loading
    <3>5. KeptInv' /\ SameElse(p)
      BY <1>5, <3>3, <3>4, Concerned
    <3>6. Memory!Exit(p)
      BY <1>1, <3>2, <3>5, SomethingSeen, SeenExit
    <3> QED BY <3>5, <3>6 DEF Result, Memory!Next
  <2> QED BY <2>2, <2>3
<1> QED BY <1>6, <1>7

\* The first steps of fork and exec, which nobody sees.
LEMMA ForkBeginSeen ==
  ASSUME MemInv, KeptInv, NEW p \in Procs, NEW q \in Procs, ForkBegin(p, q)
  PROVE  Result
<1>1. /\ status[p] = "live" /\ op[p].at = "user" /\ status[q] = "unused"
      /\ status' = [status EXCEPT ![q] = "embryo"]
      /\ op' = [op EXCEPT ![p] = [at |-> "fork", child |-> q, page |-> 0]]
      /\ UNCHANGED <<content, sz, vm, top>>
  BY DEF ForkBegin, Runs
<1>2. PICK s : build' = [build EXCEPT ![p] = s]
  BY DEF ForkBegin
<1>3. /\ status \in [Procs -> {"unused", "embryo", "live", "zombie"}] /\ op \in [Procs -> Ops]
      /\ build \in [Procs -> Spaces] /\ Holding /\ Kept(p) /\ Kept(q)
      /\ op[q] = User /\ Pages \subseteq Nat /\ Whole(vm[p])
  BY <1>1, Indexing DEF MemInv, MemTypes, KeptInv, Steady, Spaced
<1>4. /\ p # q /\ status'[q] = "embryo" /\ \A r \in Procs : r # q => status'[r] = status[r]
      /\ op'[p] = [at |-> "fork", child |-> q, page |-> 0] /\ \A r \in Procs : r # p => op'[r] = op[r]
      /\ \A r \in Procs : r # p => build'[r] = build[r]
  BY <1>1, <1>2, <1>3
<1>5. \A r \in Procs : r \notin {p, q} => Beyond(r)
  BY <1>1, <1>4, Alike
<1>6. Holding' /\ Untouched(vm[p])
  BY <1>1, <1>3 DEF Holding, Untouched
<1>7. Kept(p)' /\ Same(p)
  <2>1. Reached(p)'
    BY <1>1, <1>3, <1>4 DEF Kept, Reached, Mapped
  <2>2. Faulting(p)' /\ Loading(p)' /\ Copying(p)'
    BY <1>3, <1>4 DEF Faulting, Loading, Copying
  <2>3. Same(p)
    BY <1>1, <1>3, <1>4, <1>6, SeenSame
  <2> QED BY <2>1, <2>2, <2>3 DEF Kept
<1>8. Kept(q)' /\ Same(q)
  <2>1. Same(q)
    BY <1>1, <1>4, UnseenSame
  <2> QED BY <1>3, <1>4, <2>1 DEF Kept, Reached, Faulting, Loading, Copying, User
<1>9. \A r \in Procs : Kept(r)' /\ Same(r)
  BY <1>5, <1>7, <1>8, Bystander DEF KeptInv
<1> QED BY <1>6, <1>9, NothingSeen DEF Result, KeptInv

LEMMA ExecBeginSeen ==
  ASSUME MemInv, KeptInv, NEW p \in Procs, ExecBegin(p)
  PROVE  Result
<1>1. /\ status[p] = "live" /\ op[p].at = "user"
      /\ op' = [op EXCEPT ![p] = [at |-> "exec", page |-> 0]]
      /\ UNCHANGED <<content, status, sz, vm, top>>
  BY DEF ExecBegin, Runs
<1>2. PICK s : build' = [build EXCEPT ![p] = s]
  BY DEF ExecBegin
<1>3. /\ op \in [Procs -> Ops] /\ build \in [Procs -> Spaces] /\ Holding /\ Kept(p)
      /\ Pages \subseteq Nat /\ Whole(vm[p])
  BY Indexing DEF MemInv, MemTypes, KeptInv, Spaced
<1>4. /\ op'[p] = [at |-> "exec", page |-> 0]
      /\ \A r \in Procs : r # p => op'[r] = op[r] /\ build'[r] = build[r]
  BY <1>1, <1>2, <1>3
<1>5. \A r \in Procs : r # p => Beyond(r)
  BY <1>1, <1>4, Alike
<1>6. Holding' /\ Untouched(vm[p])
  BY <1>1, <1>3 DEF Holding, Untouched
<1>7. Reached(p)'
  BY <1>1, <1>3, <1>4 DEF Kept, Reached, Mapped
<1>8. Faulting(p)' /\ Loading(p)' /\ Copying(p)'
  BY <1>3, <1>4 DEF Faulting, Loading, Copying
<1>9. Same(p)
  BY <1>1, <1>3, <1>6, SeenSame
<1> QED BY <1>5, <1>6, <1>7, <1>8, <1>9, Stutters DEF Kept

\* A page the parent has not is none of the copy's either.
LEMMA SkipSeen ==
  ASSUME MemInv, KeptInv, NEW p \in Procs, ForkSkip(p)
  PROVE  Result
<1>1. /\ op[p].at = "fork" /\ ~Mapped(vm[p], op[p].page) /\ op[p].page < sz[p]
      /\ op' = [op EXCEPT ![p].page = @ + 1]
      /\ UNCHANGED <<content, status, sz, vm, build, top>>
  BY DEF ForkSkip, Runs
<1>2. /\ op \in [Procs -> Ops] /\ op[p] \in Ops /\ Holding /\ Kept(p) /\ Pages \subseteq Nat
      /\ Whole(vm[p]) /\ \A a \in Pages : a >= op[p].page => ~Mapped(build[p], a)
  BY <1>1, Indexing DEF MemInv, MemTypes, KeptInv, Spaced, Steady
<1>3. /\ op'[p].at = "fork" /\ op'[p].page = op[p].page + 1 /\ op[p].page \in Nat
      /\ \A r \in Procs : r # p => op'[r] = op[r]
  <2> DEFINE o1 == [op[p] EXCEPT !.page = @ + 1]
  <2>1. o1.at = "fork" /\ o1.page = op[p].page + 1 /\ op[p].page \in Nat
    BY <1>1, <1>2, PageOn
  <2>2. op' = [op EXCEPT ![p] = o1]
    BY <1>1, <1>2
  <2> HIDE DEF o1
  <2> QED BY <1>2, <2>1, <2>2
<1>4. \A r \in Procs : r # p => Beyond(r)
  BY <1>1, <1>3, Alike
<1>5. Holding' /\ Untouched(vm[p])
  BY <1>1, <1>2 DEF Holding, Untouched
<1>6. Reached(p)'
  BY <1>1, <1>2 DEF Kept, Reached, Mapped
<1>7. Copying(p)'
  <2>1. \A a \in Pages : a < op'[p].page => a < op[p].page \/ a = op[p].page
    BY <1>2, <1>3
  <2>2. ASSUME NEW a \in Pages, a = op[p].page
        PROVE  ~Mapped(vm[p], a) /\ ~Mapped(build[p], a) /\ vm[p].pte[a].frame \notin Frames
    BY <1>1, <1>2, <1>3, <2>2, EntryFrame, PagingAssumption
  <2> QED BY <1>1, <1>2, <2>1, <2>2 DEF Kept, Copying, Mapped
<1>8. Faulting(p)' /\ Loading(p)'
  BY <1>3 DEF Faulting, Loading
<1>9. Same(p)
  BY <1>1, <1>2, <1>5, SeenSame
<1> QED BY <1>4, <1>5, <1>6, <1>7, <1>8, <1>9, Stutters DEF Kept

LEMMA FaultMapSeen ==
  ASSUME MemInv, KeptInv, NEW p \in Procs, FaultMap(p)
  PROVE  Result
<1>1. PICK a \in Pages, yes \in BOOLEAN : \E m, f, s1 :
        /\ a = op[p].page /\ yes = TRUE /\ ~Mapped(vm[p], a) /\ status[p] = "live" /\ op[p].at = "fault"
        /\ m \in free \cup {NoFrame} /\ f = IF m = NoFrame THEN NoMemory ELSE m
        /\ Grown(vm[p], s1, free, free', a, [frame |-> f, user |-> yes])
        /\ vm' = [vm EXCEPT ![p] = s1] /\ op' = [op EXCEPT ![p] = User]
        /\ content' = [content EXCEPT ![IF m = NoFrame THEN vm[p].pte[0].frame ELSE m] = Zero]
        /\ UNCHANGED <<status, kstack, sz, build, top>>
  BY FaultMade
<1>2. PICK m, f, s1 :
        /\ a = op[p].page /\ yes = TRUE /\ ~Mapped(vm[p], a) /\ status[p] = "live" /\ op[p].at = "fault"
        /\ m \in free \cup {NoFrame} /\ f = IF m = NoFrame THEN NoMemory ELSE m
        /\ Grown(vm[p], s1, free, free', a, [frame |-> f, user |-> yes])
        /\ vm' = [vm EXCEPT ![p] = s1] /\ op' = [op EXCEPT ![p] = User]
        /\ content' = [content EXCEPT ![IF m = NoFrame THEN vm[p].pte[0].frame ELSE m] = Zero]
        /\ UNCHANGED <<status, kstack, sz, build, top>>
  BY <1>1
<1> DEFINE old == vm[p]
           e == [frame |-> f, user |-> yes]
           z == old.pte[0].frame
           x == IF m = NoFrame THEN z ELSE m
<1>3. /\ Whole(old) /\ vm \in [Procs -> Spaces] /\ op \in [Procs -> Ops] /\ Holding /\ Kept(p)
      /\ free \subseteq Frames /\ NoFrame \notin Frames /\ NoMemory \notin Frames /\ NoFrame # NoMemory
      /\ 0 \in Pages /\ Pages \subseteq Nat
  BY PagingAssumption, Indexing DEF MemInv, MemTypes, Spaced, Shared, Split, KeptInv
<1>4. z \in Frames /\ z \in FramesOf(old) /\ a # 0 /\ a < sz[p] /\ sz[p] <= top[p]
  <2>1. z \in Frames /\ a < sz[p] /\ sz[p] <= top[p]
    BY <1>2, <1>3 DEF Kept, Reached, Faulting
  <2>2. Mapped(old, 0)
    BY <1>3, <2>1, EntryFrame
  <2> QED BY <1>2, <1>3, <2>1, <2>2, EntryFrame
<1>5. /\ e.frame = f /\ e.user
  BY <1>2
<1> HIDE DEF old, e, z, x
<1>6. Whole(s1) /\ s1.pte = [old.pte EXCEPT ![a] = e] /\ old.pte \in [Pages -> Entries]
  BY <1>2, <1>3 DEF Grown, old, e, Whole, Spaces
<1>7. s1.pte[a] = e /\ \A b \in Pages : b # a => s1.pte[b] = old.pte[b]
  BY <1>6
<1>8. vm'[p] = s1 /\ \A q \in Procs : q # p => vm'[q] = vm[q] /\ op'[q] = op[q]
  BY <1>2, <1>3
<1>9. content' = [content EXCEPT ![x] = Zero] /\ op'[p] = User
  BY <1>2, <1>3 DEF x, z, old
<1>10. x \in Frames /\ (x \in free \/ x \in FramesOf(vm[p])) /\ (m # NoFrame => x = m /\ x \in free)
  BY <1>2, <1>3, <1>4 DEF x, old
<1>11. /\ content' = [g \in Frames |-> content'[g]] /\ content'[x] = Zero
       /\ \A g \in Frames : g # x => content'[g] = content[g]
  BY <1>3, <1>9, <1>10, OneWritten
<1>12. \A q \in Procs : q # p => Beyond(q)
  <2> DEFINE fs == {x}
  <2>1. \A g \in fs : g \in free \/ g \in FramesOf(vm[p])
    BY <1>10
  <2>2. \A g \in Frames : g \notin fs => content'[g] = content[g]
    BY <1>11
  <2> HIDE DEF fs
  <2>3. \A q \in Procs : q # p => Untouched(vm[q]) /\ Untouched(build[q])
    BY <2>1, <2>2, OthersUntouched
  <2> QED BY <1>2, <1>8, <2>3 DEF Beyond
<1>13. Holding'
  BY <1>2, <1>3, <1>11 DEF Holding
<1>14. Kept(p)'
  <2>1. s1.pte[0].frame \in Frames
    BY <1>3, <1>4, <1>7 DEF z
  <2>2. \A b \in Pages : Mapped(s1, b) => b < top[p]
    <3> TAKE b \in Pages
    <3>1. CASE b = a
      BY <1>2, <1>3, <1>4, <3>1 DEF MemInv, MemTypes, Holding
    <3>2. CASE b # a
      BY <1>2, <1>3, <1>7, <3>2 DEF Mapped, Kept, Reached, old
    <3> QED BY <3>1, <3>2
  <2>3. Reached(p)'
    BY <1>2, <1>3, <1>8, <2>1, <2>2 DEF Kept, Reached, Mapped
  <2> QED BY <1>9, <2>3 DEF Kept, Faulting, Copying, Loading, User
<1>15. KeptInv' /\ SameElse(p)
  BY <1>12, <1>13, <1>14, Concerned
<1>16. UNCHANGED <<Size(p), Reach(p), Guards(p)>>
  <2>1. \A b \in Pages : (Mapped(s1, b) /\ ~s1.pte[b].user) <=> (Mapped(old, b) /\ ~old.pte[b].user)
    BY <1>2, <1>5, <1>7 DEF Mapped, old
  <2>2. Guarded(p)' = Guarded(p)
    BY <1>8, <2>1 DEF Guarded, Mapped, old
  <2> QED BY <1>2, <2>2 DEF Size, Reach, Guards, IfLive
<1> DEFINE seen == [b \in Pages |-> CASE ~Mapped(old, b) -> Zero
                                      [] old.pte[b].frame = NoMemory -> Lost
                                      [] OTHER -> content[old.pte[b].frame]]
           seen1 == [b \in Pages |-> CASE ~Mapped(s1, b) -> Zero
                                      [] s1.pte[b].frame = NoMemory -> Lost
                                      [] OTHER -> content'[s1.pte[b].frame]]
<1>17. Seen(p) = seen /\ Seen(p)' = seen1
  BY <1>2, <1>8 DEF Seen, Mapped, old
<1>18. \A b \in Pages : b # a /\ (m = NoFrame => b # 0) => seen1[b] = seen[b]
  <2> TAKE b \in Pages
  <2> SUFFICES ASSUME b # a, m = NoFrame => b # 0 PROVE seen1[b] = seen[b]
    OBVIOUS
  <2>1. s1.pte[b] = old.pte[b] /\ (Mapped(s1, b) <=> Mapped(old, b))
    BY <1>7 DEF Mapped
  <2>2. Mapped(old, b) /\ old.pte[b].frame # NoMemory =>
          old.pte[b].frame \in Frames /\ old.pte[b].frame \in FramesOf(old)
    BY <1>3, EntryFrame
  <2>3. old.pte[b].frame \in Frames /\ m = NoFrame => old.pte[b].frame # z
    BY <1>3, <1>4, OnePage DEF z
  <2>4. Mapped(old, b) /\ old.pte[b].frame # NoMemory => old.pte[b].frame # x
    BY <1>10, <2>2, <2>3, Beside DEF x, old
  <2> QED BY <1>11, <2>1, <2>2, <2>4
<1>19. Mapped(s1, a) /\ s1.pte[a].frame = f
  BY <1>2, <1>3, <1>5, <1>6, <1>7, EntryFrame
<1>20. CASE m # NoFrame
  <2>1. seen1[a] = seen[a]
    <3>1. /\ s1.pte[a].frame = x /\ x # NoMemory /\ ~Mapped(old, a)
          /\ old.pte[a].frame = NoFrame /\ NoFrame # NoMemory
      BY <1>2, <1>3, <1>10, <1>19, <1>20, EntryFrame DEF old
    <3>2. seen1[a] = Zero
      BY <1>11, <1>19, <3>1
    <3>3. seen[a] = Zero
      BY <3>1
    <3> QED BY <3>2, <3>3
  <2>2. \A b \in Pages : seen1[b] = seen[b]
    BY <1>18, <1>20, <2>1
  <2>3. seen1 = seen
    BY <2>2
  <2>4. Same(p)
    BY <1>16, <1>17, <2>3 DEF Same
  <2> QED BY <1>12, <1>13, <1>14, <2>4, Stutters
<1>21. CASE m = NoFrame
  <2>1. seen1[a] = Lost /\ f = NoMemory
    BY <1>2, <1>19, <1>21
  <2>2. seen1[0] = Zero
    <3>1. s1.pte[0].frame = x /\ x # NoMemory /\ x # NoFrame
      BY <1>3, <1>4, <1>7, <1>10, <1>21 DEF x, z
    <3>2. Mapped(s1, 0)
      BY <1>3, <1>6, <3>1, EntryFrame
    <3> QED BY <1>3, <1>11, <3>1, <3>2
  <2>3. \A b \in Pages : b # a /\ b # 0 => seen1[b] = seen[b]
    BY <1>18, <1>21
  <2> HIDE DEF seen, seen1
  <2>4. seen1 = [seen EXCEPT ![0] = Zero, ![a] = Lost]
    <3>1. seen = [b \in Pages |-> seen[b]] /\ seen1 = [b \in Pages |-> seen1[b]]
      BY DEF seen, seen1
    <3> QED BY <1>3, <1>4, <2>1, <2>2, <2>3, <3>1
  <2>5. a < Size(p)
    BY <1>2, <1>4 DEF Size, IfLive
  <2>6. Memory!Starve(p, a)
    BY <1>2, <1>15, <1>16, <1>17, <2>4, <2>5, SomethingSeen, SeenStarve
  <2> QED BY <1>15, <2>6 DEF Result, Memory!Next
<1> QED BY <1>20, <1>21

\* A fault that cannot have a table clears a page that reads as zero already.
LEMMA FaultFailsSeen ==
  ASSUME MemInv, KeptInv, NEW p \in Procs, FaultFails(p)
  PROVE  Result
<1> DEFINE a == op[p].page
           m == Kalloc(Page(a), free)
           z == vm[p].pte[0].frame
<1>1. /\ status[p] = "live" /\ op[p].at = "fault" /\ ~CanMap(vm[p], a, free \ {m})
      /\ content' = content \/ content' = [content EXCEPT ![z] = Zero]
      /\ op' = [op EXCEPT ![p] = User] /\ UNCHANGED <<status, sz, vm, build, top>>
  BY DEF FaultFails, Runs
<1>2. Whole(vm[p]) /\ op \in [Procs -> Ops] /\ Holding /\ Kept(p)
  BY DEF MemInv, MemTypes, Spaced, KeptInv
<1>3. z \in Frames /\ content[z] = Zero
  BY <1>1, <1>2 DEF Kept, Reached, Faulting, CanMap
<1> HIDE DEF a, m, z
<1>4. content' = content
  <2>1. CASE content' = [content EXCEPT ![z] = Zero]
    <3>1. content = [f \in Frames |-> content[f]]
      BY <1>2 DEF Holding
    <3> QED BY <1>3, <2>1, <3>1
  <2> QED BY <1>1, <2>1
<1>5. op'[p] = User /\ \A q \in Procs : q # p => op'[q] = op[q]
  BY <1>1, <1>2
<1>6. \A q \in Procs : q # p => Beyond(q)
  BY <1>1, <1>4, <1>5, Alike
<1>7. Holding' /\ Untouched(vm[p])
  BY <1>1, <1>2, <1>4 DEF Holding, Untouched
<1>8. Kept(p)'
  BY <1>1, <1>2, <1>5 DEF Kept, Reached, Mapped, Faulting, Copying, Loading, User
<1>9. Same(p)
  BY <1>1, <1>2, <1>7, SeenSame
<1> QED BY <1>6, <1>7, <1>8, <1>9, Stutters

\* A page built in a frame that was free: only what is built changes.
LEMMA Built ==
  ASSUME MemInv, KeptInv, NEW p \in Procs, status[p] = "live", NEW m \in free, NEW v,
         content' = [content EXCEPT ![m] = v], UNCHANGED <<status, sz, vm, top>>,
         \A q \in Procs : q # p => op'[q] = op[q] /\ build'[q] = build[q]
  PROVE  /\ Holding' /\ Same(p) /\ Reached(p)' /\ content'[m] = v
         /\ Untouched(vm[p]) /\ Untouched(build[p])
         /\ \A q \in Procs : q # p => Beyond(q)
<1>1. /\ Whole(vm[p]) /\ Holding /\ Kept(p) /\ m \in Frames
      /\ FramesOf(vm[p]) \subseteq Frames /\ FramesOf(build[p]) \subseteq Frames
  BY Beside DEF MemInv, Spaced, KeptInv, Shared, Split
<1>2. /\ content' = [g \in Frames |-> content'[g]] /\ content'[m] = v
      /\ \A g \in Frames : g # m => content'[g] = content[g]
  BY <1>1, OneWritten
<1>3. Untouched(vm[p]) /\ Untouched(build[p])
  <2>1. m \notin FramesOf(vm[p]) /\ m \notin FramesOf(build[p])
    BY Beside
  <2> QED BY <1>1, <1>2, <2>1 DEF Untouched
<1>4. \A q \in Procs : q # p => Beyond(q)
  <2> DEFINE fs == {m}
  <2>1. \A g \in fs : g \in free
    OBVIOUS
  <2>2. \A g \in Frames : g \notin fs => content'[g] = content[g]
    BY <1>2
  <2> HIDE DEF fs
  <2>3. \A q \in Procs : q # p => Untouched(vm[q]) /\ Untouched(build[q])
    BY <2>1, <2>2, OthersUntouched
  <2> QED BY <2>3 DEF Beyond
<1>5. Holding'
  BY <1>1, <1>2 DEF Holding
<1>6. Reached(p)'
  BY <1>1 DEF Kept, Reached, Mapped
<1>7. Same(p)
  BY <1>1, <1>3, SeenSame
<1> QED BY <1>2, <1>3, <1>4, <1>5, <1>6, <1>7

\* The page that is built next.
LEMMA PageNext ==
  ASSUME MemInv, NEW p \in Procs, NEW a \in Pages, a = op[p].page, op[p].at \in {"fork", "exec"}
  PROVE  Whole(build[p]) /\ FreeBeside(free, build[p]) /\ ~Mapped(build[p], a)
<1>1. Whole(build[p]) /\ FreeBeside(free, build[p])
  BY OwnIs DEF MemInv, MemTypes, Spaced, Shared, Split, Kinds, FreeBeside
<1>2. ~Mapped(build[p], a)
  BY Indexing DEF MemInv, Steady
<1> QED BY <1>1, <1>2

LEMMA PageIsOn ==
  ASSUME MemInv, NEW p \in Procs, op[p].at \in {"fork", "exec"},
         op[p].at = "exec" => op[p].page < TextPages + 2, op' = [op EXCEPT ![p].page = @ + 1]
  PROVE  /\ op'[p].at = op[p].at /\ op'[p].page = op[p].page + 1 /\ op[p].page \in Nat
         /\ \A r \in Procs : r # p => op'[r] = op[r]
<1> DEFINE o1 == [op[p] EXCEPT !.page = @ + 1]
<1>1. op \in [Procs -> Ops] /\ op[p] \in Ops
  BY DEF MemInv, MemTypes
<1>2. o1.at = op[p].at /\ o1.page = op[p].page + 1 /\ op[p].page \in Nat
  BY <1>1, PageOn
<1>3. op' = [op EXCEPT ![p] = o1]
  BY <1>1
<1> HIDE DEF o1
<1> QED BY <1>1, <1>2, <1>3

LEMMA ForkCopySeen ==
  ASSUME MemInv, KeptInv, NEW p \in Procs, ForkCopy(p)
  PROVE  Result
<1> DEFINE x == Kalloc(Page(op[p].page), free)
<1>1. /\ status[p] = "live" /\ op[p].at = "fork" /\ op[p].page < sz[p]
      /\ Mapped(vm[p], op[p].page) /\ x # NoFrame /\ CanMap(build[p], op[p].page, free \ {x})
      /\ build' = [build EXCEPT ![p] = MapPage(@, op[p].page, x, vm[p].pte[op[p].page].user, free \ {x})]
      /\ free' = Taken(build[p], op[p].page, free \ {x})
      /\ content' = [content EXCEPT ![x] = Peek(p, op[p].page)]
      /\ op' = [op EXCEPT ![p].page = @ + 1] /\ UNCHANGED <<status, kstack, sz, vm, top>>
  BY DEF ForkCopy, Runs
<1>2. op[p].page \in Pages /\ free \in SUBSET Frames
  BY <1>1, Indexing DEF MemInv, MemTypes, Ops, Shared, Split, Pages
<1>3. vm[p].pte[op[p].page].user \in BOOLEAN
  BY <1>2 DEF MemInv, MemTypes, Spaces, Entries
<1>4. x \in Frames /\ x \in free /\ Gets(free, x, free \ {x}, x)
  BY <1>1, <1>2, Picked DEF Gets
<1> HIDE DEF x
<1>5. PICK a \in Pages, m \in free, user \in BOOLEAN : \E rest, v :
        /\ a = op[p].page /\ m = x /\ user = vm[p].pte[op[p].page].user
        /\ rest = free \ {x} /\ v = Peek(p, op[p].page)
  BY <1>2, <1>3, <1>4
<1>6. PICK rest, v :
        /\ a = op[p].page /\ m = x /\ user = vm[p].pte[op[p].page].user
        /\ rest = free \ {x} /\ v = Peek(p, op[p].page)
  BY <1>5
<1>7. /\ a = op[p].page /\ m \in Frames /\ Gets(free, m, rest, m) /\ CanMap(build[p], a, rest)
       /\ build' = [build EXCEPT ![p] = MapPage(build[p], a, m, user, rest)]
       /\ content' = [content EXCEPT ![m] = v]
  BY <1>1, <1>4, <1>6
<1>8. /\ status[p] = "live" /\ op[p].at \in {"fork", "exec"}
       /\ (op[p].at = "fork" => a < sz[p]) /\ (op[p].at = "exec" => a < TextPages + 2)
       /\ op' = [op EXCEPT ![p].page = @ + 1] /\ UNCHANGED <<status, kstack, sz, vm, top>>
  BY <1>1, <1>6
<1> DEFINE e == vm[p].pte[a]
<1>9. build'[p].pte = [build[p].pte EXCEPT ![a] = [frame |-> m, user |-> user]]
  <2>1. PICK s1 : s1 = MapPage(build[p], a, m, user, rest)
    OBVIOUS
  <2>2. build' = [build EXCEPT ![p] = s1]
    BY <1>7, <2>1
  <2>3. /\ a = op[p].page /\ m \in Frames /\ Gets(free, m, rest, m) /\ CanMap(build[p], a, rest)
        /\ op[p].at \in {"fork", "exec"}
    BY <1>7, <1>8
  <2>4. a \in Pages /\ user \in BOOLEAN
    BY <1>5
  <2>5. Whole(build[p]) /\ FreeBeside(free, build[p]) /\ ~Mapped(build[p], a)
    BY <2>3, <2>4, PageNext
  <2> DEFINE t == Taken(build[p], a, rest)
  <2>6. Grown(build[p], s1, free, t, a, [frame |-> m, user |-> user])
    BY <2>1, <2>3, <2>4, <2>5, PageTaken
  <2>7. build \in [Procs -> Spaces]
    BY DEF MemInv, MemTypes
  <2> HIDE DEF t
  <2> QED BY <2>2, <2>6, <2>7 DEF Grown
<1>10. /\ Whole(vm[p]) /\ Whole(build[p]) /\ build \in [Procs -> Spaces] /\ Kept(p)
      /\ build[p].pte \in [Pages -> Entries] /\ NoFrame \notin Frames /\ NoMemory \notin Frames
      /\ Pages \subseteq Nat /\ free \subseteq Frames
  BY <1>2, PagingAssumption, Indexing DEF MemInv, MemTypes, Spaced, KeptInv, Whole, Spaces
<1>11. /\ build'[p].pte[a].frame = m /\ build'[p].pte[a].user = user
      /\ \A b \in Pages : b # a => build'[p].pte[b] = build[p].pte[b]
  BY <1>9, <1>10
<1>12. /\ op'[p].at = "fork" /\ op'[p].page = a + 1
      /\ \A r \in Procs : r # p => op'[r] = op[r] /\ build'[r] = build[r]
  BY <1>1, <1>6, <1>10, PageIsOn
<1>13. /\ Holding' /\ Same(p) /\ Reached(p)' /\ content'[m] = Peek(p, a)
       /\ Untouched(vm[p]) /\ Untouched(build[p])
       /\ \A q \in Procs : q # p => Beyond(q)
  <2>1. v = Peek(p, a)
    BY <1>6
  <2>2. content'[m] = v /\ Holding' /\ Same(p) /\ Reached(p)' /\ Untouched(vm[p]) /\ Untouched(build[p])
        /\ \A q \in Procs : q # p => Beyond(q)
    BY <1>7, <1>8, <1>12, Built
  <2> QED BY <2>1, <2>2
<1>14. Copying(p)'
  <2> SUFFICES ASSUME NEW b \in Pages, b < a + 1
               PROVE  LET o == vm[p].pte[b]
                          c == build'[p].pte[b] IN
                      /\ (c # Unmapped) <=> Mapped(vm[p], b)
                      /\ c # Unmapped => c.user = o.user /\ c.frame \in Frames
                      /\ o.frame \in Frames => content'[c.frame] = content'[o.frame]
    BY <1>1, <1>12 DEF Copying, Mapped
  <2>1. vm[p].pte[b].frame \in Frames => content'[vm[p].pte[b].frame] = content[vm[p].pte[b].frame]
    BY <1>10, <1>13, EntryFrame DEF Untouched
  <2>2. CASE b = a
    <3>1. build'[p].pte[a] # Unmapped /\ m \in Frames
      BY <1>10, <1>11 DEF Unmapped
    <3>2. e.frame \in Frames => Peek(p, a) = content[e.frame]
      BY <1>10 DEF Peek
    <3> QED BY <1>1, <1>6, <1>11, <1>13, <2>1, <2>2, <3>1, <3>2
  <2>3. CASE b # a
    <3>1. b < a /\ build'[p].pte[b] = build[p].pte[b]
      BY <1>10, <1>11, <2>3
    <3>2. build[p].pte[b].frame \in Frames => content'[build[p].pte[b].frame] = content[build[p].pte[b].frame]
      BY <1>10, <1>13, EntryFrame DEF Untouched
    <3>3. vm[p].pte[b].frame \in Frames => Mapped(vm[p], b)
      BY <1>10, EntryFrame
    <3> QED BY <1>1, <1>6, <1>10, <2>1, <3>1, <3>2, <3>3 DEF Kept, Copying, Mapped
  <2> QED BY <2>2, <2>3
<1>15. Kept(p)'
  BY <1>12, <1>13, <1>14 DEF Kept, Faulting, Loading
<1> QED BY <1>13, <1>15, Stutters

LEMMA ExecPageSeen ==
  ASSUME MemInv, KeptInv, NEW p \in Procs, ExecPage(p)
  PROVE  Result
<1> DEFINE x == Kalloc(Page(op[p].page), free)
<1>1. /\ status[p] = "live" /\ op[p].at = "exec" /\ op[p].page < TextPages + 2
      /\ x # NoFrame /\ CanMap(build[p], op[p].page, free \ {x})
      /\ build' = [build EXCEPT ![p] = MapPage(@, op[p].page, x, TRUE, free \ {x})]
      /\ free' = Taken(build[p], op[p].page, free \ {x})
      /\ content' = [content EXCEPT ![x] = IF op[p].page < TextPages THEN Image ELSE Zero]
      /\ op' = [op EXCEPT ![p].page = @ + 1] /\ UNCHANGED <<status, kstack, sz, vm, top>>
  BY DEF ExecPage, Runs
<1>2. op[p].page \in Pages /\ free \in SUBSET Frames
  BY <1>1, PagingAssumption DEF MemInv, MemTypes, Ops, Shared, Split, Pages
<1>3. x \in Frames /\ x \in free /\ Gets(free, x, free \ {x}, x)
  BY <1>1, <1>2, Picked DEF Gets
<1> HIDE DEF x
<1>4. PICK a \in Pages, m \in free, user \in BOOLEAN : \E rest, v :
        /\ a = op[p].page /\ m = x /\ user = TRUE
        /\ rest = free \ {x} /\ v = IF op[p].page < TextPages THEN Image ELSE Zero
  BY <1>2, <1>3
<1>5. PICK rest, v :
        /\ a = op[p].page /\ m = x /\ user = TRUE
        /\ rest = free \ {x} /\ v = IF op[p].page < TextPages THEN Image ELSE Zero
  BY <1>4
<1>6. /\ a = op[p].page /\ m \in Frames /\ Gets(free, m, rest, m) /\ CanMap(build[p], a, rest)
       /\ build' = [build EXCEPT ![p] = MapPage(build[p], a, m, user, rest)]
       /\ content' = [content EXCEPT ![m] = v]
  BY <1>1, <1>3, <1>5
<1>7. /\ status[p] = "live" /\ op[p].at \in {"fork", "exec"}
       /\ (op[p].at = "fork" => a < sz[p]) /\ (op[p].at = "exec" => a < TextPages + 2)
       /\ op' = [op EXCEPT ![p].page = @ + 1] /\ UNCHANGED <<status, kstack, sz, vm, top>>
  BY <1>1, <1>5
<1>8. build'[p].pte = [build[p].pte EXCEPT ![a] = [frame |-> m, user |-> user]]
  <2>1. PICK s1 : s1 = MapPage(build[p], a, m, user, rest)
    OBVIOUS
  <2>2. build' = [build EXCEPT ![p] = s1]
    BY <1>6, <2>1
  <2>3. /\ a = op[p].page /\ m \in Frames /\ Gets(free, m, rest, m) /\ CanMap(build[p], a, rest)
        /\ op[p].at \in {"fork", "exec"}
    BY <1>6, <1>7
  <2>4. a \in Pages /\ user \in BOOLEAN
    BY <1>4
  <2>5. Whole(build[p]) /\ FreeBeside(free, build[p]) /\ ~Mapped(build[p], a)
    BY <2>3, <2>4, PageNext
  <2> DEFINE t == Taken(build[p], a, rest)
  <2>6. Grown(build[p], s1, free, t, a, [frame |-> m, user |-> user])
    BY <2>1, <2>3, <2>4, <2>5, PageTaken
  <2>7. build \in [Procs -> Spaces]
    BY DEF MemInv, MemTypes
  <2> HIDE DEF t
  <2> QED BY <2>2, <2>6, <2>7 DEF Grown
<1>9. /\ Whole(build[p]) /\ build \in [Procs -> Spaces] /\ Kept(p)
      /\ build[p].pte \in [Pages -> Entries]
      /\ Pages \subseteq Nat /\ free \subseteq Frames
  BY <1>2, PagingAssumption, Indexing DEF MemInv, MemTypes, Spaced, KeptInv, Whole, Spaces
<1>10. /\ build'[p].pte[a].frame = m /\ build'[p].pte[a].user = user
      /\ \A b \in Pages : b # a => build'[p].pte[b] = build[p].pte[b]
  BY <1>8, <1>9
<1>11. /\ op'[p].at = "exec" /\ op'[p].page = a + 1
      /\ \A r \in Procs : r # p => op'[r] = op[r] /\ build'[r] = build[r]
  BY <1>1, <1>5, <1>9, PageIsOn
<1>12. /\ Holding' /\ Same(p) /\ Reached(p)' /\ content'[m] = IF a < TextPages THEN Image ELSE Zero
       /\ Untouched(build[p])
       /\ \A q \in Procs : q # p => Beyond(q)
  <2>1. v = IF a < TextPages THEN Image ELSE Zero
    BY <1>5
  <2>2. content'[m] = v /\ Holding' /\ Same(p) /\ Reached(p)' /\ Untouched(vm[p]) /\ Untouched(build[p])
        /\ \A q \in Procs : q # p => Beyond(q)
    BY <1>6, <1>7, <1>11, Built
  <2> QED BY <2>1, <2>2
<1>13. Loading(p)'
  <2> SUFFICES ASSUME NEW b \in Pages, b < a + 1
               PROVE  LET c == build'[p].pte[b] IN
                      /\ c.frame \in Frames /\ c.user
                      /\ content'[c.frame] = IF b < TextPages THEN Image ELSE Zero
    BY <1>11 DEF Loading
  <2>1. CASE b = a
    BY <1>5, <1>9, <1>10, <1>12, <2>1
  <2>2. CASE b # a
    <3>1. b < a /\ build'[p].pte[b] = build[p].pte[b]
      BY <1>9, <1>10, <2>2
    <3>2. build[p].pte[b].frame \in Frames => content'[build[p].pte[b].frame] = content[build[p].pte[b].frame]
      BY <1>9, <1>12, EntryFrame DEF Untouched
    <3> QED BY <1>1, <1>5, <1>9, <3>1, <3>2 DEF Kept, Loading
  <2> QED BY <2>1, <2>2
<1>14. Kept(p)'
  BY <1>11, <1>12, <1>13 DEF Kept, Faulting, Copying
<1> QED BY <1>12, <1>14, Stutters

LEMMA Junked ==
  ASSUME Holding, NEW fs, Return(fs), UNCHANGED top
  PROVE  Holding' /\ \A f \in Frames : f \notin fs => content'[f] = content[f]
BY DEF Holding, Return

\* What a failed fork or exec frees was nobody's memory.
LEMMA ForkFailsSeen ==
  ASSUME MemInv, KeptInv, NEW p \in Procs, ForkFails(p)
  PROVE  Result
<1>1. PICK q \in Procs : q = op[p].child
  BY DEF ForkFails, Runs, MemInv, MemTypes, Ops
<1> DEFINE fs == FramesOf(build[p]) \cup {kstack[q]}
<1>2. /\ status[p] = "live" /\ op[p].at = "fork" /\ Return(fs)
      /\ status' = [status EXCEPT ![q] = "unused"] /\ build' = [build EXCEPT ![p] = NoSpace]
      /\ op' = [op EXCEPT ![p] = User] /\ UNCHANGED <<sz, vm, top>>
  BY <1>1 DEF ForkFails, Runs
<1>3. /\ status[q] = "embryo" /\ p # q /\ op[q] = User /\ Holding /\ Kept(p) /\ Whole(vm[p])
      /\ status \in [Procs -> {"unused", "embryo", "live", "zombie"}]
      /\ op \in [Procs -> Ops] /\ build \in [Procs -> Spaces]
  BY <1>1, <1>2 DEF MemInv, MemTypes, Embryos, Steady, KeptInv, Spaced
<1>4. \A f \in fs : f \in FramesOf(build[p]) \/ \E r \in Procs : f = kstack[r]
  OBVIOUS
<1> HIDE DEF fs
<1>5. Holding' /\ \A f \in Frames : f \notin fs => content'[f] = content[f]
  BY <1>2, <1>3, Junked
<1>6. \A r \in Procs : r # p => Untouched(vm[r]) /\ Untouched(build[r])
  BY <1>4, <1>5, OthersUntouched
<1>7. Untouched(vm[p])
  BY <1>4, <1>5, Beside DEF Untouched
<1>8. /\ status'[q] = "unused" /\ \A r \in Procs : r # q => status'[r] = status[r]
      /\ op'[p] = User /\ \A r \in Procs : r # p => op'[r] = op[r] /\ build'[r] = build[r]
  BY <1>2, <1>3
<1>9. \A r \in Procs : r \notin {p, q} => Beyond(r)
  BY <1>2, <1>6, <1>8 DEF Beyond
<1>10. Kept(p)' /\ Same(p)
  <2>1. Same(p)
    BY <1>2, <1>3, <1>7, <1>8, SeenSame
  <2> QED BY <1>2, <1>3, <1>8, <2>1 DEF Kept, Reached, Mapped, Faulting, Copying, Loading, User
<1>11. Kept(q)' /\ Same(q)
  <2>1. Same(q)
    BY <1>3, <1>8, UnseenSame
  <2> QED BY <1>3, <1>8, <2>1 DEF Kept, Reached, Faulting, Copying, Loading, User
<1>12. \A r \in Procs : Kept(r)' /\ Same(r)
  BY <1>9, <1>10, <1>11, Bystander DEF KeptInv
<1> QED BY <1>5, <1>12, NothingSeen DEF Result, KeptInv

LEMMA ExecFailsSeen ==
  ASSUME MemInv, KeptInv, NEW p \in Procs, ExecFails(p)
  PROVE  Result
<1> DEFINE fs == FramesOf(build[p])
<1>1. /\ status[p] = "live" /\ Return(fs) /\ build' = [build EXCEPT ![p] = NoSpace]
      /\ op' = [op EXCEPT ![p] = User] /\ UNCHANGED <<status, sz, vm, top>>
  BY DEF ExecFails, Runs
<1>2. /\ Holding /\ Kept(p) /\ Whole(vm[p]) /\ op \in [Procs -> Ops] /\ build \in [Procs -> Spaces]
  BY DEF MemInv, MemTypes, KeptInv, Spaced
<1>3. \A f \in fs : f \in FramesOf(build[p])
  OBVIOUS
<1> HIDE DEF fs
<1>4. Holding' /\ \A f \in Frames : f \notin fs => content'[f] = content[f]
  BY <1>1, <1>2, Junked
<1>5. \A r \in Procs : r # p => Untouched(vm[r]) /\ Untouched(build[r])
  BY <1>3, <1>4, OthersUntouched
<1>6. Untouched(vm[p])
  BY <1>3, <1>4, Beside DEF Untouched
<1>7. op'[p] = User /\ \A r \in Procs : r # p => op'[r] = op[r] /\ build'[r] = build[r]
  BY <1>1, <1>2
<1>8. \A r \in Procs : r # p => Beyond(r)
  BY <1>1, <1>5, <1>7 DEF Beyond
<1>9. Same(p)
  BY <1>1, <1>2, <1>6, SeenSame
<1>10. Kept(p)'
  BY <1>1, <1>2, <1>7 DEF Kept, Reached, Mapped, Faulting, Copying, Loading, User
<1> QED BY <1>4, <1>8, <1>9, <1>10, Stutters

\* Nor was that of a zombie.
LEMMA ReapSeen ==
  ASSUME MemInv, KeptInv, NEW p \in Procs, NEW q \in Procs, Reap(p, q)
  PROVE  Result
<1> DEFINE fs == FramesOf(vm[q]) \cup {kstack[q]}
<1>1. /\ status[q] = "zombie" /\ Return(fs) /\ status' = [status EXCEPT ![q] = "unused"]
      /\ vm' = [vm EXCEPT ![q] = NoSpace] /\ sz' = [sz EXCEPT ![q] = 0]
      /\ top' = [top EXCEPT ![q] = 0] /\ UNCHANGED <<build, op>>
  BY DEF Reap
<1>2. /\ op[q] = User /\ Holding /\ vm \in [Procs -> Spaces] /\ sz \in [Procs -> 0 .. MaxPages]
      /\ top \in [Procs -> Nat]
      /\ status \in [Procs -> {"unused", "embryo", "live", "zombie"}]
  BY <1>1 DEF MemInv, MemTypes, Steady, KeptInv, Holding
<1>3. \A f \in fs : f \in FramesOf(vm[q]) \/ \E r \in Procs : f = kstack[r]
  OBVIOUS
<1> HIDE DEF fs
<1>4. content' = [f \in Frames |-> content'[f]] /\ \A f \in Frames : f \notin fs => content'[f] = content[f]
  BY <1>1, <1>2 DEF Return
<1>5. \A r \in Procs : r # q => Untouched(vm[r]) /\ Untouched(build[r])
  BY <1>3, <1>4, OthersUntouched
<1>6. /\ status'[q] = "unused" /\ top' \in [Procs -> Nat]
      /\ \A r \in Procs : r # q => /\ status'[r] = status[r] /\ vm'[r] = vm[r]
                                   /\ sz'[r] = sz[r] /\ top'[r] = top[r]
  BY <1>1, <1>2
<1>7. \A r \in Procs : r # q => Beyond(r)
  BY <1>1, <1>5, <1>6 DEF Beyond
<1>8. Holding'
  BY <1>4, <1>6 DEF Holding
<1>9. Kept(q)' /\ Same(q)
  <2>1. Same(q)
    BY <1>1, <1>6, UnseenSame
  <2> QED BY <1>1, <1>2, <1>6, <2>1 DEF Kept, Reached, Faulting, Copying, Loading, User
<1> QED BY <1>7, <1>8, <1>9, Stutters

LEMMA ForkDoneSeen ==
  ASSUME MemInv, KeptInv, NEW p \in Procs, ForkDone(p)
  PROVE  Result
<1>1. PICK q \in Procs : q = op[p].child
  BY DEF ForkDone, Runs, MemInv, MemTypes, Ops
<1> DEFINE old == vm[p]
           new == build[p]
<1>2. /\ status[p] = "live" /\ op[p].at = "fork" /\ op[p].page = sz[p]
      /\ status' = [status EXCEPT ![q] = "live"] /\ vm' = [vm EXCEPT ![q] = new]
      /\ sz' = [sz EXCEPT ![q] = sz[p]] /\ top' = [top EXCEPT ![q] = sz[p]]
      /\ build' = [build EXCEPT ![p] = NoSpace] /\ op' = [op EXCEPT ![p] = User]
      /\ UNCHANGED content
  BY <1>1 DEF ForkDone, Runs
<1>3. /\ status[q] = "embryo" /\ p # q /\ op[q] = User /\ Holding /\ Kept(p)
      /\ status \in [Procs -> {"unused", "embryo", "live", "zombie"}]
      /\ op \in [Procs -> Ops] /\ build \in [Procs -> Spaces] /\ vm \in [Procs -> Spaces]
      /\ sz \in [Procs -> 0 .. MaxPages] /\ top \in [Procs -> Nat]
      /\ Whole(old) /\ Whole(new) /\ \A a \in Pages : a >= op[p].page => ~Mapped(new, a)
  BY <1>1, <1>2 DEF MemInv, MemTypes, Embryos, Steady, KeptInv, Spaced, Holding
<1>4. PICK n \in Nat : n = sz[p] /\ n >= 1
  BY <1>2, <1>3 DEF Kept, Reached
<1>5. NoFrame \notin Frames /\ NoMemory \notin Frames /\ NoFrame # NoMemory /\ 0 \in Pages /\ Pages \subseteq Nat
  BY PagingAssumption, Indexing
<1> HIDE DEF old, new
<1>6. /\ status'[q] = "live" /\ vm'[q] = new /\ sz'[q] = n /\ top'[q] = n
      /\ \A r \in Procs : r # q => /\ status'[r] = status[r] /\ vm'[r] = vm[r]
                                   /\ sz'[r] = sz[r] /\ top'[r] = top[r]
      /\ op'[p] = User /\ \A r \in Procs : r # p => op'[r] = op[r] /\ build'[r] = build[r]
  BY <1>2, <1>3, <1>4
<1>7. Holding'
  <2>1. top' = [top EXCEPT ![q] = n]
    BY <1>2, <1>4
  <2>2. top' \in [Procs -> Nat]
    BY <1>3, <2>1
  <2> QED BY <1>2, <1>3, <2>2 DEF Holding
<1>8. \A r \in Procs : r \notin {p, q} => Beyond(r)
  BY <1>2, <1>6, Alike
<1>9. \A a \in Pages : a < n =>
         /\ Mapped(new, a) <=> Mapped(old, a)
         /\ Mapped(new, a) => new.pte[a].user = old.pte[a].user /\ new.pte[a].frame \in Frames
         /\ old.pte[a].frame \in Frames => content[new.pte[a].frame] = content[old.pte[a].frame]
  BY <1>2, <1>3, <1>4 DEF Kept, Copying, old, new
<1>10. \A a \in Pages : ~(a < n) => ~Mapped(new, a)
  BY <1>2, <1>3, <1>4, <1>5
<1>11. Kept(p)' /\ Same(p)
  <2>1. Untouched(vm[p])
    BY <1>2 DEF Untouched
  <2>2. Same(p)
    BY <1>2, <1>3, <1>6, <2>1, SeenSame DEF old
  <2> QED BY <1>2, <1>3, <1>6, <2>2 DEF Kept, Reached, Mapped, Faulting, Copying, Loading, User
<1>12. Kept(q)'
  <2>1. old.pte[0].frame \in Frames
    BY <1>2, <1>3 DEF Kept, Reached, old
  <2>2. new.pte[0].frame \in Frames
    BY <1>3, <1>4, <1>5, <1>9, <2>1, EntryFrame
  <2>3. \A a \in Pages : Mapped(new, a) => a < n
    BY <1>10
  <2>4. Reached(q)'
    BY <1>4, <1>6, <2>2, <2>3 DEF Reached, Mapped
  <2> QED BY <1>3, <1>6, <2>4 DEF Kept, Faulting, Copying, Loading, User
<1>13. SameElse(q) /\ \A r \in Procs : Kept(r)'
  BY <1>8, <1>11, <1>12, Bystander DEF KeptInv, SameElse
<1> DEFINE seen == [a \in Pages |-> CASE ~Mapped(old, a) -> Zero
                                      [] old.pte[a].frame = NoMemory -> Lost
                                      [] OTHER -> content[old.pte[a].frame]]
           seen1 == [a \in Pages |-> CASE ~Mapped(new, a) -> Zero
                                      [] new.pte[a].frame = NoMemory -> Lost
                                      [] OTHER -> content[new.pte[a].frame]]
<1>14. Seen(p) = seen /\ Seen(q)' = seen1 /\ Seen(q) = <<>>
  BY <1>2, <1>3, <1>6 DEF Seen, Mapped, old
<1>15. \A a \in Pages : IF a < n THEN seen[a] = Lost \/ seen1[a] = seen[a] ELSE seen1[a] = Zero
  <2> TAKE a \in Pages
  <2>1. /\ Mapped(old, a) <=> old.pte[a].frame # NoFrame
        /\ Mapped(old, a) /\ old.pte[a].frame # NoMemory => old.pte[a].frame \in Frames
        /\ Mapped(new, a) <=> new.pte[a].frame # NoFrame
    BY <1>3, EntryFrame
  <2>2. ~Mapped(new, a) => seen1[a] = Zero
    BY <1>5, <2>1
  <2>3. ~Mapped(old, a) => seen[a] = Zero
    BY <1>5, <2>1
  <2>4. Mapped(old, a) /\ old.pte[a].frame = NoMemory => seen[a] = Lost
    OBVIOUS
  <2>5. Mapped(old, a) /\ old.pte[a].frame # NoMemory => seen[a] = content[old.pte[a].frame]
    OBVIOUS
  <2>6. Mapped(new, a) /\ new.pte[a].frame \in Frames => seen1[a] = content[new.pte[a].frame]
    BY <1>5
  <2> HIDE DEF seen, seen1
  <2> QED BY <1>9, <1>10, <2>1, <2>2, <2>3, <2>4, <2>5, <2>6
<1>16. Guards(q)' = {a \in Guards(p) : a < n}
  <2>1. \A a \in Pages : (Mapped(new, a) /\ ~new.pte[a].user) <=> (Mapped(old, a) /\ ~old.pte[a].user /\ a < n)
    BY <1>9, <1>10
  <2>2. Guards(p) = {a \in Pages : Mapped(old, a) /\ ~old.pte[a].user}
    BY <1>2 DEF Guards, Guarded, IfLive, old
  <2>3. Guards(q)' = {a \in Pages : Mapped(new, a) /\ ~new.pte[a].user}
    BY <1>6 DEF Guards, Guarded, IfLive, Mapped
  <2> QED BY <2>1, <2>2, <2>3
<1>17. Size(p) = n /\ Size(q)' = n /\ Reach(q)' = n
  BY <1>2, <1>4, <1>6 DEF Size, Reach, IfLive
<1>18. DOMAIN seen1 = Pages
  OBVIOUS
<1> HIDE DEF seen, seen1
<1>19. Memory!Fork(p, q)
  BY <1>2, <1>3, <1>13, <1>14, <1>15, <1>16, <1>17, <1>18, SomethingSeen, SeenFork
<1> QED BY <1>3, <1>7, <1>13, <1>19 DEF Result, KeptInv, Memory!Next

\* What exec commits is a fresh memory, with the arguments on the stack.
LEMMA ExecCommitSeen ==
  ASSUME MemInv, KeptInv, NEW p \in Procs, ExecCommit(p)
  PROVE  Result
<1> DEFINE s == build[p]
           new == [build[p] EXCEPT !.pte[TextPages].user = FALSE]
           g == new.pte[TextPages + 1].frame
           fs == FramesOf(vm[p]) \cup {g}
<1>1. /\ status[p] = "live" /\ op[p].at = "exec" /\ op[p].page = TextPages + 2
      /\ vm' = [vm EXCEPT ![p] = new]
      /\ content' = [f \in Frames |-> CASE f = g -> Image
                                        [] f \in FramesOf(vm[p]) -> Junk
                                        [] OTHER -> content[f]]
      /\ build' = [build EXCEPT ![p] = NoSpace]
      /\ sz' = [sz EXCEPT ![p] = TextPages + 2] /\ top' = [top EXCEPT ![p] = TextPages + 2]
      /\ op' = [op EXCEPT ![p] = User] /\ UNCHANGED status
  BY DEF ExecCommit, Runs
<1>2. /\ TextPages \in Pages /\ TextPages + 1 \in Pages /\ TextPages # 0 /\ 0 \in Pages
      /\ Pages \subseteq Nat /\ TextPages \in Nat
      /\ NoFrame \notin Frames /\ NoMemory \notin Frames
  BY PagingAssumption, Indexing
<1>3. /\ Whole(s) /\ Holding /\ Kept(p)
      /\ op \in [Procs -> Ops] /\ build \in [Procs -> Spaces] /\ vm \in [Procs -> Spaces]
      /\ sz \in [Procs -> 0 .. MaxPages] /\ top \in [Procs -> Nat]
      /\ \A a \in Pages : a >= TextPages + 2 => ~Mapped(s, a)
  BY <1>1 DEF MemInv, MemTypes, Steady, KeptInv, Spaced, Holding
<1>4. /\ s.pte \in [Pages -> Entries]
      /\ new.pte = [s.pte EXCEPT ![TextPages] = [frame |-> s.pte[TextPages].frame, user |-> FALSE]]
  BY <1>2, <1>3, GuardMade DEF Whole, Spaces
<1>5. \A a \in Pages : a < TextPages + 2 =>
        /\ s.pte[a].frame \in Frames /\ s.pte[a].user
        /\ content[s.pte[a].frame] = IF a < TextPages THEN Image ELSE Zero
  BY <1>1, <1>3 DEF Kept, Loading
<1> HIDE DEF s, new
<1>6. /\ \A a \in Pages : new.pte[a].frame = s.pte[a].frame
      /\ \A a \in Pages : a # TextPages => new.pte[a] = s.pte[a]
      /\ ~new.pte[TextPages].user
  BY <1>2, <1>4
<1>7. /\ vm'[p] = new /\ op'[p] = User /\ sz'[p] = TextPages + 2 /\ top'[p] = TextPages + 2
      /\ \A q \in Procs : q # p => /\ vm'[q] = vm[q] /\ op'[q] = op[q] /\ build'[q] = build[q]
                                   /\ sz'[q] = sz[q] /\ top'[q] = top[q]
  BY <1>1, <1>3
<1>8. g \in Frames /\ g \in FramesOf(s) /\ g = s.pte[TextPages + 1].frame
  BY <1>2, <1>3, <1>5, <1>6, EntryFrame
<1>9. /\ content'[g] = Image
      /\ \A f \in Frames : f \notin fs => content'[f] = content[f]
  <2>1. g \notin FramesOf(vm[p])
    BY <1>8, Beside DEF s
  <2> HIDE DEF g
  <2> QED BY <1>1, <1>8, <2>1
<1>10. \A f \in fs : f \in FramesOf(vm[p]) \/ f \in FramesOf(build[p])
  BY <1>8 DEF s
<1> HIDE DEF g, fs
<1>11. \A q \in Procs : q # p => Untouched(vm[q]) /\ Untouched(build[q])
  BY <1>9, <1>10, OthersUntouched
<1>12. \A q \in Procs : q # p => Beyond(q)
  BY <1>1, <1>7, <1>11 DEF Beyond
<1>13. Holding'
  <2>1. top' \in [Procs -> Nat]
    BY <1>1, <1>2, <1>3
  <2> QED BY <1>1, <2>1 DEF Holding
<1>14. \A a \in Pages : Mapped(new, a) <=> a < TextPages + 2
  <2> TAKE a \in Pages
  <2>1. Unmapped.frame = NoFrame
    BY DEF Unmapped
  <2>2. a < TextPages + 2 => Mapped(new, a)
    BY <1>2, <1>5, <1>6, <2>1 DEF Mapped
  <2>3. a >= TextPages + 2 => ~Mapped(new, a)
    BY <1>2, <1>3, <1>6 DEF Mapped
  <2> QED BY <1>2, <2>2, <2>3
<1>15. Kept(p)'
  <2>1. new.pte[0].frame \in Frames
    BY <1>2, <1>5, <1>6
  <2>2. Reached(p)'
    BY <1>2, <1>7, <1>14, <2>1 DEF Reached, Mapped
  <2> QED BY <1>7, <2>2 DEF Kept, Faulting, Copying, Loading, User
<1>16. KeptInv' /\ SameElse(p)
  BY <1>12, <1>13, <1>15, Concerned
<1> DEFINE seen1 == [a \in Pages |-> CASE ~Mapped(new, a) -> Zero
                                      [] new.pte[a].frame = NoMemory -> Lost
                                      [] OTHER -> content'[new.pte[a].frame]]
<1>17. Seen(p)' = seen1
  BY <1>1, <1>7 DEF Seen, Mapped
<1>18. \A a \in Pages : seen1[a] = IF a < TextPages \/ a = TextPages + 1 THEN Image ELSE Zero
  <2> TAKE a \in Pages
  <2>1. ~Mapped(new, a) => seen1[a] = Zero
    <3>1. ~Mapped(new, a) => new.pte[a].frame = NoFrame /\ NoFrame # NoMemory
      BY PagingAssumption DEF Mapped, Unmapped
    <3> QED BY <3>1
  <2>2. Mapped(new, a) => seen1[a] = content'[s.pte[a].frame]
    BY <1>2, <1>5, <1>6, <1>14
  <2> HIDE DEF seen1
  <2>3. CASE a >= TextPages + 2
    BY <1>2, <1>14, <2>1, <2>3
  <2>4. CASE a = TextPages + 1
    BY <1>2, <1>8, <1>9, <1>14, <2>2, <2>4
  <2>5. CASE a < TextPages + 1
    <3>1. s.pte[a].frame \in Frames /\ content[s.pte[a].frame] = IF a < TextPages THEN Image ELSE Zero
      BY <1>2, <1>5, <2>5
    <3>2. s.pte[a].frame # g
      BY <1>2, <1>3, <1>8, <2>5, <3>1, OnePage
    <3>3. s.pte[a].frame \in FramesOf(s)
      BY <1>3, <3>1, EntryFrame
    <3>4. s.pte[a].frame \notin FramesOf(vm[p])
      BY <3>3, Beside DEF s
    <3>5. content'[s.pte[a].frame] = content[s.pte[a].frame]
      BY <1>9, <3>1, <3>2, <3>4 DEF fs
    <3> QED BY <1>2, <1>14, <2>2, <2>5, <3>1, <3>5
  <2> QED BY <1>2, <2>3, <2>4, <2>5
<1>19. Seen(p)' = Memory!Fresh
  BY <1>17, <1>18 DEF Memory!Fresh
<1>20. Guards(p)' = {TextPages}
  <2>1. \A a \in Pages : Mapped(new, a) /\ ~new.pte[a].user <=> a = TextPages
    BY <1>2, <1>5, <1>6, <1>14
  <2>2. Guards(p)' = {a \in Pages : Mapped(new, a) /\ ~new.pte[a].user}
    BY <1>1, <1>7 DEF Guards, Guarded, IfLive, Mapped
  <2> QED BY <1>2, <2>1, <2>2
<1>21. Size(p)' = TextPages + 2 /\ Reach(p)' = TextPages + 2
  BY <1>1, <1>7 DEF Size, Reach, IfLive
<1>22. Memory!Exec(p)
  BY <1>1, <1>16, <1>19, <1>20, <1>21, SomethingSeen, SeenExec
<1> QED BY <1>16, <1>22 DEF Result, Memory!Next

-----------------------------------------------------------------------------
(* The first process sees its program in page 0, and zeros.                *)
LEMMA InitKept == Init => KeptInv /\ Memory!Init
<1> SUFFICES ASSUME Init PROVE KeptInv /\ Memory!Init
  OBVIOUS
<1>1. PICK f1 \in Frames, f2 \in Frames, f3 \in Frames, f4 \in Frames : \E e :
        /\ f2 # f1 /\ f3 \notin {f1, f2} /\ f4 \notin {f1, f2, f3} /\ e = [frame |-> f1, user |-> TRUE]
        /\ free = Frames \ {f1, f2, f3, f4}
        /\ content = [f \in Frames |-> IF f = f1 THEN Image ELSE Junk]
        /\ status = [p \in Procs |-> IF p = InitProc THEN "live" ELSE "unused"]
        /\ kstack = [p \in Procs |-> IF p = InitProc THEN f2 ELSE NoFrame]
        /\ sz = [p \in Procs |-> IF p = InitProc THEN 1 ELSE 0]
        /\ vm = [p \in Procs |-> IF p = InitProc THEN FirstPage(f3, f4, e) ELSE NoSpace]
        /\ build = [p \in Procs |-> NoSpace] /\ op = [p \in Procs |-> User] /\ top = sz
  BY FirstState
<1>2. PICK e :
        /\ e = [frame |-> f1, user |-> TRUE]
        /\ content = [f \in Frames |-> IF f = f1 THEN Image ELSE Junk]
        /\ status = [p \in Procs |-> IF p = InitProc THEN "live" ELSE "unused"]
        /\ sz = [p \in Procs |-> IF p = InitProc THEN 1 ELSE 0]
        /\ vm = [p \in Procs |-> IF p = InitProc THEN FirstPage(f3, f4, e) ELSE NoSpace]
        /\ op = [p \in Procs |-> User] /\ top = sz
  BY <1>1
<1>3. f1 \in Frames /\ NoMemory \notin Frames /\ NoFrame \notin Frames
  BY <1>1, PagingAssumption
<1>4. InitProc \in Procs /\ 0 \in Pages /\ Pages \subseteq Nat
  BY PagingAssumption, Indexing
<1>5. e.frame = f1 /\ e.user
  BY <1>2
<1>6. Unmapped.frame = NoFrame
  BY DEF Unmapped
<1>7. \A p \in Procs : /\ status[p] = "live" <=> p = InitProc
                       /\ op[p].at = "user" /\ top[p] \in Nat
                       /\ sz[p] = (IF p = InitProc THEN 1 ELSE 0) /\ top[p] = sz[p]
  BY <1>2 DEF User
<1>8. vm[InitProc].pte = [a \in Pages |-> IF a = 0 THEN e ELSE Unmapped]
  BY <1>2, <1>4 DEF FirstPage
<1>9. /\ vm[InitProc].pte[0] = e /\ Mapped(vm[InitProc], 0)
      /\ \A a \in Pages : a # 0 => ~Mapped(vm[InitProc], a)
  BY <1>3, <1>4, <1>5, <1>6, <1>8 DEF Mapped
<1>10. Holding
  BY <1>2 DEF Holding
<1>11. \A p \in Procs : Kept(p)
  <2> TAKE p \in Procs
  <2>1. Reached(p)
    BY <1>3, <1>4, <1>5, <1>7, <1>9 DEF Reached
  <2> QED BY <1>7, <2>1 DEF Kept, Faulting, Copying, Loading
<1>12. Seen(InitProc) = [a \in Pages |-> IF a = 0 THEN Image ELSE Zero]
  <2> DEFINE seen == [a \in Pages |-> CASE ~Mapped(vm[InitProc], a) -> Zero
                                        [] vm[InitProc].pte[a].frame = NoMemory -> Lost
                                        [] OTHER -> content[vm[InitProc].pte[a].frame]]
  <2>1. Seen(InitProc) = seen
    BY <1>4, <1>7 DEF Seen
  <2>2. seen[0] = Image
    BY <1>2, <1>3, <1>4, <1>5, <1>9
  <2>3. \A a \in Pages : a # 0 => seen[a] = Zero
    <3> TAKE a \in Pages
    <3>1. a # 0 => vm[InitProc].pte[a].frame = NoFrame
      BY <1>6, <1>8
    <3>2. a # 0 => ~Mapped(vm[InitProc], a) /\ vm[InitProc].pte[a].frame # NoMemory
      BY <1>9, <3>1, PagingAssumption
    <3> QED BY <3>2
  <2> QED BY <2>1, <2>2, <2>3
<1>13. Guarded(InitProc) = {}
  BY <1>4, <1>5, <1>9 DEF Guarded
<1>14. Memory!Init
  <2>1. \A p \in Procs :
          /\ Seen(p) = IF p = InitProc THEN [a \in Pages |-> IF a = 0 THEN Image ELSE Zero] ELSE <<>>
          /\ IfLive(p, sz[p], 0) = IF p = InitProc THEN 1 ELSE 0
          /\ IfLive(p, top[p], 0) = IfLive(p, sz[p], 0)
          /\ IfLive(p, Guarded(p), {}) = {}
    <3> TAKE p \in Procs
    <3>1. CASE p = InitProc
      BY <1>7, <1>12, <1>13, <3>1 DEF IfLive
    <3>2. CASE p # InitProc
      BY <1>7, <3>2 DEF Seen, IfLive
    <3> QED BY <3>1, <3>2
  <2> QED BY <2>1, Zenon DEF Memory!Init, Memory!None
<1> QED BY <1>10, <1>11, <1>14 DEF KeptInv

LEMMA StepSeen == MemInv /\ KeptInv /\ [Next]_vars => Result
<1> SUFFICES ASSUME MemInv, KeptInv, [Next]_vars PROVE Result
  OBVIOUS
<1>1. CASE UNCHANGED vars
  <2>1. \A p \in Procs : Beyond(p)
    BY <1>1, Alike DEF vars
  <2>2. \A p \in Procs : Same(p) /\ Kept(p)'
    BY <2>1, Bystander DEF KeptInv
  <2>3. Holding'
    BY <1>1 DEF vars, Holding, KeptInv
  <2> QED BY <2>2, <2>3, NothingSeen DEF Result, KeptInv
<1> QED BY <1>1, SbrkSeen, WriteSeen, WalkSeen, FaultMapSeen, FaultFailsSeen, ForkBeginSeen,
           ForkCopySeen, SkipSeen, PanicSeen, ForkFailsSeen, ForkDoneSeen, ExecBeginSeen,
           ExecPageSeen, ExecFailsSeen, ExecCommitSeen, ExitSeen, ReapSeen
        DEF Next

THEOREM MemoryRefined == Spec => MemoryKept
<1>1. Init => MemInv /\ KeptInv /\ Memory!Init
  BY InitMemInv, InitKept
<1>2. MemInv /\ [Next]_vars => MemInv'
  BY NextMemInv
<1>3. MemInv /\ KeptInv /\ [Next]_vars => KeptInv' /\ [Memory!Next]_(Memory!vars)
  BY StepSeen DEF Result
<1> QED BY <1>1, <1>2, <1>3, PTL DEF Spec, MemoryKept, Memory!Spec

-----------------------------------------------------------------------------
(* The tutorial's list: the nodes from the head to the tail.               *)
Chain(s, n) ==
  /\ s \in [0 .. n -> Addresses]
  /\ s[0] = ends.head /\ s[n] = ends.tail
  /\ \A j, k \in 0 .. n : s[j] = s[k] => j = k
  /\ \A k \in 0 .. n : heap[s[k]] \in Nodes
  /\ \A k \in 0 .. n - 1 : heap[s[k]].next = s[k + 1] /\ heap[s[k + 1]].pred = s[k]
  /\ \A k \in 1 .. n - 1 : heap[s[k]].datum = queue[k]

ListInv ==
  /\ heap \in [Addresses -> Nodes \cup {NULL}]
  /\ ends \in [head : Addresses, tail : Addresses]
  /\ queue \in Seq(Items) /\ length = Len(queue)
  /\ \E s : Chain(s, Len(queue) + 1)

LEMMA InitChain == ListInit => ListInv
<1> SUFFICES ASSUME ListInit PROVE ListInv
  OBVIOUS
<1>1. PICK h \in Addresses, t \in Addresses :
        /\ h # t /\ ends = [head |-> h, tail |-> t]
        /\ heap = [a \in Addresses |-> CASE a = h -> Node(NULL, t, "DH")
                                         [] a = t -> Node(h, NULL, "DT")
                                         [] OTHER -> NULL]
  BY DEF ListInit
<1>2. length = 0 /\ queue = <<>>
  BY DEF ListInit
<1>3. Node(NULL, t, "DH") \in Nodes /\ Node(h, NULL, "DT") \in Nodes
  BY DEF Node, Nodes, Links
<1>4. heap[h] = Node(NULL, t, "DH") /\ heap[t] = Node(h, NULL, "DT")
  BY <1>1
<1>5. heap \in [Addresses -> Nodes \cup {NULL}]
  BY <1>1, <1>3
<1>6. PICK s : s = [k \in 0 .. 1 |-> IF k = 0 THEN h ELSE t]
  OBVIOUS
<1>7. Chain(s, 1)
  <2>1. s \in [0 .. 1 -> Addresses] /\ s[0] = h /\ s[1] = t
    BY <1>6
  <2>2. \A k \in 0 .. 1 : k = 0 \/ k = 1
    OBVIOUS
  <2>3. heap[h].next = t /\ heap[t].pred = h
    BY <1>4 DEF Node
  <2>4. \A k \in 0 .. 1 - 1 : k = 0
    OBVIOUS
  <2> QED BY <1>1, <1>3, <1>4, <2>1, <2>2, <2>3, <2>4 DEF Chain
<1> QED BY <1>1, <1>2, <1>5, <1>7 DEF ListInv

LEMMA InsertChain == ListInv /\ (\E v \in Items : ListInsertTail(v)) => ListInv'
<1> SUFFICES ASSUME ListInv, NEW v \in Items, ListInsertTail(v) PROVE ListInv'
  OBVIOUS
<1>1. PICK a \in FreeAddresses : heap' = Linked(a, v)
  BY DEF ListInsertTail
<1>2. length' = length + 1 /\ queue' = Append(queue, v) /\ ends' = ends
  BY DEF ListInsertTail
<1>3. PICK n : n = Len(queue) + 1
  OBVIOUS
<1>4. n \in Nat /\ n >= 1 /\ Len(queue) = n - 1 /\ queue \in Seq(Items)
  BY <1>3 DEF ListInv
<1>5. PICK s : Chain(s, n)
  BY <1>3 DEF ListInv
<1>6. /\ s \in [0 .. n -> Addresses]
      /\ s[0] = ends.head /\ s[n] = ends.tail
      /\ \A j, k \in 0 .. n : s[j] = s[k] => j = k
      /\ \A k \in 0 .. n : heap[s[k]] \in Nodes
      /\ \A k \in 0 .. n - 1 : heap[s[k]].next = s[k + 1] /\ heap[s[k + 1]].pred = s[k]
      /\ \A k \in 1 .. n - 1 : heap[s[k]].datum = queue[k]
  BY <1>5 DEF Chain
<1>7. a \in Addresses /\ heap[a] \notin Nodes /\ heap \in [Addresses -> Nodes \cup {NULL}]
  BY ListAssumption DEF FreeAddresses, ListInv
<1>8. 0 \in 0 .. n /\ n \in 0 .. n /\ n - 1 \in 0 .. n /\ n - 1 \in 0 .. n - 1 /\ (n - 1) + 1 = n /\ n # n - 1
  BY <1>4
<1>9. \A k \in 0 .. n : s[k] \in Addresses /\ s[k] # a
  BY <1>6, <1>7
<1>10. PICK z, l : z = s[n] /\ l = s[n - 1]
  OBVIOUS
<1>11. /\ z \in Addresses /\ l \in Addresses /\ a # z /\ a # l /\ z # l
       /\ heap[z].pred = l /\ ends.tail = z /\ heap[z] \in Nodes /\ heap[l] \in Nodes
  BY <1>6, <1>8, <1>9, <1>10
<1>12. PICK x : x = Node(l, z, v)
  OBVIOUS
<1>13. heap' = [heap EXCEPT ![a] = x, ![l].next = a, ![z].pred = a]
  BY <1>1, <1>11, <1>12 DEF Linked
<1>14. x \in Nodes /\ x.pred = l /\ x.next = z /\ x.datum = v
  BY <1>11, <1>12 DEF Node, Nodes, Links
<1>15. /\ heap'[a] = x
       /\ heap'[l] = [heap[l] EXCEPT !.next = a]
       /\ heap'[z] = [heap[z] EXCEPT !.pred = a]
       /\ \A b \in Addresses : b \notin {a, l, z} => heap'[b] = heap[b]
  BY <1>7, <1>11, <1>13
<1>16. /\ heap'[l] \in Nodes /\ heap'[l].next = a
       /\ heap'[l].pred = heap[l].pred /\ heap'[l].datum = heap[l].datum
       /\ heap'[z] \in Nodes /\ heap'[z].pred = a
       /\ heap'[z].next = heap[z].next /\ heap'[z].datum = heap[z].datum
  BY <1>7, <1>11, <1>15 DEF Nodes, Links
<1>17. heap' \in [Addresses -> Nodes \cup {NULL}]
  <2>1. DOMAIN heap' = Addresses /\ heap' = [b \in Addresses |-> heap'[b]]
    BY <1>7, <1>13
  <2>2. \A b \in Addresses : heap'[b] \in Nodes \cup {NULL}
    BY <1>7, <1>14, <1>15, <1>16
  <2> QED BY <2>1, <2>2
<1>18. PICK r : r = [k \in 0 .. n + 1 |-> IF k < n THEN s[k] ELSE IF k = n THEN a ELSE z]
  OBVIOUS
<1>19. /\ r \in [0 .. n + 1 -> Addresses]
       /\ r[n] = a /\ r[n + 1] = z
       /\ \A k \in 0 .. n - 1 : k \in 0 .. n + 1 /\ k \in 0 .. n /\ r[k] = s[k]
       /\ r[0] = s[0] /\ r[n - 1] = l
  BY <1>4, <1>6, <1>7, <1>10, <1>11, <1>18
<1>20. \A k \in 0 .. n + 1 : k \in 0 .. n - 1 \/ k = n \/ k = n + 1
  BY <1>4
<1>21. \A k \in 0 .. n - 1 : s[k] \in Addresses /\ s[k] # a /\ s[k] # z /\ (s[k] = l => k = n - 1)
  BY <1>4, <1>6, <1>8, <1>9, <1>10, <1>19
<1>22. Chain(r, n + 1)'
  <2>1. \A j, k \in 0 .. n + 1 : r[j] = r[k] => j = k
    <3>1. SUFFICES ASSUME NEW j \in 0 .. n + 1, NEW k \in 0 .. n + 1, r[j] = r[k] PROVE j = k
      OBVIOUS
    <3> QED BY <3>1, <1>6, <1>11, <1>19, <1>20, <1>21
  <2>2. \A k \in 0 .. n + 1 : heap'[r[k]] \in Nodes
    <3>1. SUFFICES ASSUME NEW k \in 0 .. n + 1 PROVE heap'[r[k]] \in Nodes
      OBVIOUS
    <3> QED BY <1>6, <1>14, <1>15, <1>16, <1>19, <1>20, <1>21
  <2>3. ASSUME NEW k \in 0 .. n
        PROVE  heap'[r[k]].next = r[k + 1] /\ heap'[r[k + 1]].pred = r[k]
    <3>1. CASE k = n
      BY <1>14, <1>15, <1>16, <1>19, <3>1
    <3>2. CASE k = n - 1
      BY <1>8, <1>14, <1>15, <1>16, <1>19, <3>2
    <3>3. CASE k # n /\ k # n - 1
      <4>1. k \in 0 .. n - 1 /\ k + 1 \in 0 .. n - 1
        BY <1>4, <3>3
      <4>2. r[k] = s[k] /\ r[k + 1] = s[k + 1]
        BY <1>19, <4>1
      <4>3. heap'[s[k]].next = heap[s[k]].next
        BY <1>15, <1>21, <3>3, <4>1
      <4>4. heap'[s[k + 1]].pred = heap[s[k + 1]].pred
        BY <1>15, <1>16, <1>21, <4>1
      <4> QED BY <1>6, <4>1, <4>2, <4>3, <4>4
    <3> QED BY <3>1, <3>2, <3>3
  <2>4. ASSUME NEW k \in 1 .. n PROVE heap'[r[k]].datum = queue'[k]
    <3>1. CASE k = n
      <4>1. queue'[n] = v
        BY <1>2, <1>4
      <4> QED BY <1>14, <1>15, <1>19, <3>1, <4>1
    <3>2. CASE k # n
      <4>1. k \in 1 .. n - 1 /\ k \in 0 .. n - 1 /\ k \in 1 .. Len(queue)
        BY <1>4, <3>2
      <4>2. queue'[k] = queue[k]
        BY <1>2, <1>4, <4>1
      <4>3. heap'[s[k]].datum = heap[s[k]].datum
        BY <1>15, <1>16, <1>21, <4>1
      <4> QED BY <1>6, <1>19, <4>1, <4>2, <4>3
    <3> QED BY <3>1, <3>2
  <2>5. (n + 1) - 1 = n
    BY <1>4
  <2>6. r[0] = ends'.head /\ r[n + 1] = ends'.tail
    BY <1>2, <1>6, <1>11, <1>19
  <2> QED BY <1>19, <2>1, <2>2, <2>3, <2>4, <2>5, <2>6 DEF Chain
<1>23. queue' \in Seq(Items) /\ Len(queue') + 1 = n + 1 /\ length' = Len(queue')
  BY <1>2, <1>4 DEF ListInv
<1>24. ends' \in [head : Addresses, tail : Addresses]
  BY <1>2 DEF ListInv
<1> QED BY <1>17, <1>22, <1>23, <1>24 DEF ListInv

LEMMA ListStutters == ListInv /\ UNCHANGED listVars => ListInv'
<1> SUFFICES ASSUME ListInv, UNCHANGED listVars PROVE ListInv'
  OBVIOUS
<1>1. heap' = heap /\ ends' = ends /\ length' = length /\ queue' = queue
  BY DEF listVars
<1>2. PICK s : Chain(s, Len(queue) + 1)
  BY DEF ListInv
<1>3. Chain(s, Len(queue) + 1)'
  BY <1>1, <1>2 DEF Chain
<1> QED BY <1>1, <1>3 DEF ListInv

LEMMA RemoveChain == ListInv /\ ListRemoveHead => ListInv'
<1> SUFFICES ASSUME ListInv, ListRemoveHead, length # 0 PROVE ListInv'
  BY ListStutters DEF ListRemoveHead
<1>1. PICK o : o = heap[ends.head].next
  OBVIOUS
<1>2. PICK a \in FreeAddresses : heap' = [Unlinked(o) EXCEPT ![a] = Node(NULL, NULL, "leaked")]
  BY <1>1 DEF ListRemoveHead
<1>3. length' = length - 1 /\ queue' = Tail(queue) /\ ends' = ends
  BY DEF ListRemoveHead
<1>4. PICK n : n = Len(queue) + 1
  OBVIOUS
<1>5. n \in Nat /\ n >= 2 /\ Len(queue) = n - 1 /\ queue \in Seq(Items) /\ queue # <<>> /\ length = n - 1
  BY <1>4 DEF ListInv
<1>6. PICK s : Chain(s, n)
  BY <1>4 DEF ListInv
<1>7. /\ s \in [0 .. n -> Addresses]
      /\ s[0] = ends.head /\ s[n] = ends.tail
      /\ \A j, k \in 0 .. n : s[j] = s[k] => j = k
      /\ \A k \in 0 .. n : heap[s[k]] \in Nodes
      /\ \A k \in 0 .. n - 1 : heap[s[k]].next = s[k + 1] /\ heap[s[k + 1]].pred = s[k]
      /\ \A k \in 1 .. n - 1 : heap[s[k]].datum = queue[k]
  BY <1>6 DEF Chain
<1>8. a \in Addresses /\ heap[a] \notin Nodes /\ heap \in [Addresses -> Nodes \cup {NULL}]
  BY ListAssumption DEF FreeAddresses, ListInv
<1>9. /\ 0 \in 0 .. n /\ 1 \in 0 .. n /\ 2 \in 0 .. n /\ n \in 0 .. n
      /\ 0 \in 0 .. n - 1 /\ 1 \in 0 .. n - 1 /\ 0 + 1 = 1 /\ 1 + 1 = 2
  BY <1>5
<1>10. \A k \in 0 .. n : s[k] \in Addresses /\ s[k] # a
  BY <1>7, <1>8
<1>11. PICK h, f : h = s[0] /\ f = s[2]
  OBVIOUS
<1>12. /\ h \in Addresses /\ f \in Addresses /\ o \in Addresses /\ o = s[1]
       /\ h # f /\ h # o /\ f # o /\ a \notin {h, f, o}
       /\ heap[o].next = f /\ ends.head = h /\ heap[h] \in Nodes /\ heap[f] \in Nodes
  BY <1>1, <1>7, <1>9, <1>10, <1>11
<1>13. PICK x : x = Node(NULL, NULL, "leaked")
  OBVIOUS
<1>14. heap' = [heap EXCEPT ![h].next = f, ![f].pred = h, ![o] = NULL, ![a] = x]
  BY <1>2, <1>12, <1>13 DEF Unlinked
<1>15. x \in Nodes
  BY <1>13 DEF Node, Nodes, Links
<1>16. /\ heap'[a] = x /\ heap'[o] = NULL
       /\ heap'[h] = [heap[h] EXCEPT !.next = f]
       /\ heap'[f] = [heap[f] EXCEPT !.pred = h]
       /\ \A b \in Addresses : b \notin {a, o, h, f} => heap'[b] = heap[b]
  BY <1>8, <1>12, <1>14
<1>17. /\ heap'[h] \in Nodes /\ heap'[h].next = f
       /\ heap'[h].pred = heap[h].pred /\ heap'[h].datum = heap[h].datum
       /\ heap'[f] \in Nodes /\ heap'[f].pred = h
       /\ heap'[f].next = heap[f].next /\ heap'[f].datum = heap[f].datum
  BY <1>8, <1>12, <1>16 DEF Nodes, Links
<1>18. heap' \in [Addresses -> Nodes \cup {NULL}]
  <2>1. DOMAIN heap' = Addresses /\ heap' = [b \in Addresses |-> heap'[b]]
    BY <1>8, <1>14
  <2>2. \A b \in Addresses : heap'[b] \in Nodes \cup {NULL}
    BY <1>8, <1>15, <1>16, <1>17
  <2> QED BY <2>1, <2>2
<1>19. PICK r : r = [k \in 0 .. n - 1 |-> IF k = 0 THEN h ELSE s[k + 1]]
  OBVIOUS
<1>20. /\ r \in [0 .. n - 1 -> Addresses]
       /\ r[0] = h /\ r[1] = f /\ r[n - 1] = s[n]
       /\ \A k \in 1 .. n - 1 : k \in 0 .. n - 1 /\ k + 1 \in 0 .. n /\ k + 1 # 1 /\ k + 1 # 0 /\ r[k] = s[k + 1]
  BY <1>5, <1>7, <1>9, <1>11, <1>12, <1>19
<1>21. \A k \in 0 .. n - 1 : k = 0 \/ k \in 1 .. n - 1
  BY <1>5
<1>22. \A k \in 1 .. n - 1 : /\ s[k + 1] \in Addresses /\ s[k + 1] \notin {a, o, h}
                             /\ s[k + 1] = f => k = 1
  <2>1. SUFFICES ASSUME NEW k \in 1 .. n - 1
                 PROVE  s[k + 1] \in Addresses /\ s[k + 1] \notin {a, o, h} /\ (s[k + 1] = f => k + 1 = 2)
    BY <1>5
  <2> QED BY <1>7, <1>9, <1>10, <1>11, <1>12, <1>20
<1>23. Chain(r, n - 1)'
  <2>1. \A j, k \in 0 .. n - 1 : r[j] = r[k] => j = k
    <3>1. SUFFICES ASSUME NEW j \in 0 .. n - 1, NEW k \in 0 .. n - 1, r[j] = r[k] PROVE j = k
      OBVIOUS
    <3>2. CASE j \in 1 .. n - 1 /\ k \in 1 .. n - 1
      <4>1. j + 1 = k + 1
        BY <1>7, <1>20, <3>1, <3>2
      <4> QED BY <3>2, <4>1
    <3> QED BY <3>1, <3>2, <1>20, <1>21, <1>22
  <2>2. \A k \in 0 .. n - 1 : heap'[r[k]] \in Nodes
    <3>1. SUFFICES ASSUME NEW k \in 0 .. n - 1 PROVE heap'[r[k]] \in Nodes
      OBVIOUS
    <3>2. CASE k = 0
      BY <1>17, <1>20, <3>2
    <3>3. CASE k \in 1 .. n - 1
      BY <1>7, <1>16, <1>17, <1>20, <1>22, <3>3
    <3> QED BY <1>21, <3>2, <3>3
  <2>3. ASSUME NEW k \in 0 .. (n - 1) - 1
        PROVE  heap'[r[k]].next = r[k + 1] /\ heap'[r[k + 1]].pred = r[k]
    <3>1. CASE k = 0
      BY <1>17, <1>20, <3>1
    <3>2. CASE k # 0
      <4>1. k \in 1 .. n - 1 /\ k + 1 \in 1 .. n - 1 /\ k + 1 \in 0 .. n - 1 /\ k + 1 # 1
        BY <1>5, <3>2
      <4>2. r[k] = s[k + 1] /\ r[k + 1] = s[(k + 1) + 1]
        BY <1>20, <4>1
      <4>3. heap'[s[k + 1]].next = heap[s[k + 1]].next
        BY <1>16, <1>17, <1>22, <4>1
      <4>4. heap'[s[(k + 1) + 1]].pred = heap[s[(k + 1) + 1]].pred
        BY <1>16, <1>22, <4>1
      <4> QED BY <1>7, <4>1, <4>2, <4>3, <4>4
    <3> QED BY <3>1, <3>2
  <2>4. ASSUME NEW k \in 1 .. (n - 1) - 1 PROVE heap'[r[k]].datum = queue'[k]
    <3>1. k \in 1 .. n - 1 /\ k + 1 \in 1 .. n - 1 /\ k \in 1 .. Len(queue) - 1
      BY <1>5
    <3>2. queue'[k] = queue[k + 1]
      BY <1>3, <1>5, <3>1
    <3>3. heap'[s[k + 1]].datum = heap[s[k + 1]].datum
      BY <1>16, <1>17, <1>22, <3>1
    <3> QED BY <1>7, <1>20, <3>1, <3>2, <3>3
  <2>5. r[0] = ends'.head /\ r[n - 1] = ends'.tail
    BY <1>3, <1>7, <1>12, <1>20
  <2> QED BY <1>20, <2>1, <2>2, <2>3, <2>4, <2>5 DEF Chain
<1>24. queue' \in Seq(Items) /\ Len(queue') + 1 = n - 1 /\ length' = Len(queue')
  BY <1>3, <1>5
<1>25. ends' \in [head : Addresses, tail : Addresses]
  BY <1>3 DEF ListInv
<1> QED BY <1>18, <1>23, <1>24, <1>25 DEF ListInv

(* Whoever follows the pointers meets the nodes of the chain.              *)
LEMMA FirstOf ==
  ASSUME NEW S \in SUBSET Nat, S # {}
  PROVE  \E x \in S : \A y \in S : x <= y
<1> DEFINE less == {ss \in Nat \X Nat : ss[1] < ss[2]}
<1>1. IsWellFoundedOn(less, Nat)
  BY NatLessThanWellFounded DEF OpToRel
<1>2. PICK x \in S : \A y \in S : ~(<<y, x>> \in less)
  BY <1>1, WFMin
<1>3. ASSUME NEW y \in S PROVE x <= y
  <2>1. y \in Nat /\ x \in Nat /\ ~(<<y, x>> \in less)
    BY <1>2
  <2>2. y < x => <<y, x>> \in less
    BY <2>1
  <2> QED BY <2>1, <2>2
<1> QED BY <1>3

LEMMA Follows ==
  ASSUME NEW n \in Nat, NEW r, NEW s,
         r[0] = s[0], \A k \in 1 .. n : r[k - 1] = s[k - 1] => r[k] = s[k]
  PROVE  \A k \in 0 .. n : r[k] = s[k]
<1> DEFINE off == {k \in 0 .. n : r[k] # s[k]}
<1> SUFFICES ASSUME off # {} PROVE FALSE
  OBVIOUS
<1>1. off \in SUBSET Nat
  OBVIOUS
<1>2. PICK x \in off : \A y \in off : x <= y
  BY <1>1, FirstOf
<1>3. x \in 0 .. n /\ r[x] # s[x]
  BY <1>2
<1>4. x \in 1 .. n /\ x - 1 \in 0 .. n /\ ~(x <= x - 1)
  BY <1>3
<1>5. r[x - 1] = s[x - 1]
  BY <1>2, <1>4
<1> QED BY <1>3, <1>4, <1>5

LEMMA WaysAreChain ==
  ASSUME NEW n \in Nat, NEW s, Chain(s, n)
  PROVE  \A k \in 0 .. n : Ahead(n)[k] = s[k] /\ Back(n)[n - k] = s[k]
<1>1. /\ s \in [0 .. n -> Addresses] /\ s[0] = ends.head /\ s[n] = ends.tail
      /\ \A k \in 0 .. n - 1 : heap[s[k]].next = s[k + 1] /\ heap[s[k + 1]].pred = s[k]
  BY DEF Chain
<1>2. /\ \A k \in 1 .. n : k - 1 \in 0 .. n /\ k \in 0 .. n /\ k # 0 /\ heap[s[k - 1]].next = s[k]
      /\ 0 \in 0 .. n /\ n \in 0 .. n
  <2>1. ASSUME NEW k \in 1 .. n PROVE k - 1 \in 0 .. n - 1 /\ k \in 0 .. n /\ k # 0 /\ (k - 1) + 1 = k
    OBVIOUS
  <2> QED BY <1>1, <2>1
<1>3. \A k \in 0 .. n : Ahead(n)[k] = s[k]
  <2> DEFINE Step(f) == [k \in 0 .. n |-> IF k = 0 THEN ends.head ELSE heap[f[k - 1]].next]
             node == CHOOSE f : f = Step(f)
  <2>1. s = Step(s)
    BY <1>1, <1>2
  <2>2. node = Step(node)
    BY <2>1
  <2>3. node[0] = ends.head /\ \A k \in 1 .. n : node[k] = heap[node[k - 1]].next
    BY <1>2, <2>2
  <2> HIDE DEF node
  <2>4. node[0] = s[0] /\ \A k \in 1 .. n : node[k - 1] = s[k - 1] => node[k] = s[k]
    BY <1>1, <1>2, <2>3
  <2>6. \A k \in 0 .. n : node[k] = s[k]
    BY <2>4, Follows
  <2>7. Ahead(n) = node
    BY DEF Ahead, node
  <2> QED BY <2>6, <2>7
<1>4. \A k \in 0 .. n : Back(n)[n - k] = s[k]
  <2> DEFINE Step(f) == [k \in 0 .. n |-> IF k = 0 THEN ends.tail ELSE heap[f[k - 1]].pred]
             node == CHOOSE f : f = Step(f)
             w == [k \in 0 .. n |-> s[n - k]]
  <2>1. \A k \in 1 .. n : heap[w[k - 1]].pred = w[k]
    <3>1. SUFFICES ASSUME NEW k \in 1 .. n PROVE heap[w[k - 1]].pred = w[k]
      OBVIOUS
    <3>2. /\ k - 1 \in 0 .. n /\ k \in 0 .. n /\ n - k \in 0 .. n - 1 /\ (n - k) + 1 = n - (k - 1)
      OBVIOUS
    <3>3. w[k - 1] = s[n - (k - 1)] /\ w[k] = s[n - k]
      BY <3>2
    <3> QED BY <1>1, <3>2, <3>3
  <2>2. w[0] = ends.tail
    BY <1>1, <1>2
  <2>3. w = Step(w)
    <3>1. \A k \in 0 .. n : w[k] = IF k = 0 THEN ends.tail ELSE heap[w[k - 1]].pred
      <4> HIDE DEF w
      <4>1. \A k \in 0 .. n : k = 0 \/ k \in 1 .. n
        OBVIOUS
      <4> QED BY <1>2, <2>1, <2>2, <4>1
    <3>2. w = [k \in 0 .. n |-> w[k]]
      OBVIOUS
    <3> HIDE DEF w
    <3> QED BY <3>1, <3>2
  <2>4. node = Step(node)
    BY <2>3
  <2>5. node[0] = ends.tail /\ \A k \in 1 .. n : node[k] = heap[node[k - 1]].pred
    BY <1>2, <2>4
  <2> HIDE DEF node, w
  <2>6. \A k \in 0 .. n : node[k] = w[k]
    <3>1. node[0] = w[0] /\ \A k \in 1 .. n : node[k - 1] = w[k - 1] => node[k] = w[k]
      BY <2>1, <2>2, <2>5
    <3> QED BY <3>1, Follows
  <2>7. Back(n) = node
    BY DEF Back, node
  <2>8. ASSUME NEW k \in 0 .. n PROVE node[n - k] = s[k]
    <3>1. n - k \in 0 .. n /\ n - (n - k) = k
      OBVIOUS
    <3> QED BY <2>6, <3>1 DEF w
  <2> QED BY <2>7, <2>8
<1> QED BY <1>3, <1>4

LEMMA ChainIsQueue == ListInv => ListIsQueue
<1> SUFFICES ASSUME ListInv PROVE ListIsQueue
  OBVIOUS
<1>1. PICK n : n = Len(queue) + 1
  OBVIOUS
<1>2. n \in Nat /\ n >= 1 /\ Len(queue) = n - 1 /\ length = Len(queue)
  BY <1>1 DEF ListInv
<1>3. PICK s : Chain(s, n)
  BY <1>1 DEF ListInv
<1>4. \A k \in 0 .. n : Ahead(n)[k] = s[k] /\ Back(n)[n - k] = s[k]
  BY <1>2, <1>3, WaysAreChain
<1>5. \A k \in 0 .. n : Ahead(n)[k] = Back(n)[n - k] /\ heap[Ahead(n)[k]] # NULL
  BY <1>3, <1>4, ListAssumption DEF Chain
<1>6. Ahead(n)[n] = ends.tail
  BY <1>2, <1>3, <1>4 DEF Chain
<1>7. \A k \in 1 .. Len(queue) : heap[Ahead(n)[k]].datum = queue[k]
  <2>1. \A k \in 1 .. Len(queue) : k \in 0 .. n /\ k \in 1 .. n - 1
    BY <1>2
  <2> QED BY <1>3, <1>4, <2>1 DEF Chain
<1> QED BY <1>1, <1>2, <1>5, <1>6, <1>7 DEF ListIsQueue

(* The list is the queue of its data, over any addresses that are used     *)
(* again, and as long as it may get (list.h:47-97).                        *)
THEOREM ListCorrect == ListSpec => []ListIsQueue
<1>1. ListInv /\ [ListNext]_listVars => ListInv'
  BY ListStutters, InsertChain, RemoveChain DEF ListNext
<1> QED BY <1>1, InitChain, ChainIsQueue, PTL DEF ListSpec

-----------------------------------------------------------------------------
(* The heap of umalloc.c: the free blocks F are a ring in the order of     *)
(* their addresses.                                                        *)
Addr == 0 .. HeapTop - 1
Headers == [ptr : Addr \cup {Null}, size : Nat]

Ring(h, F) ==
  /\ F \subseteq Addr /\ Base \in F
  /\ \A b \in F : h[b].ptr \in F
  /\ \A b \in F : b < h[b].ptr => \A c \in F : ~(b < c /\ c < h[b].ptr)
  /\ \A b \in F : h[b].ptr <= b => h[b].ptr = Base /\ \A c \in F : c <= b

LEMMA LastOf ==
  ASSUME NEW n \in Nat, NEW S \in SUBSET (0 .. n), S # {}
  PROVE  \E x \in S : \A y \in S : y <= x
<1> DEFINE T == {k \in 0 .. n : n - k \in S}
<1>1. T \in SUBSET Nat
  OBVIOUS
<1>2. T # {}
  <2>1. PICK x \in S : TRUE
    OBVIOUS
  <2>2. n - x \in 0 .. n /\ n - (n - x) = x
    OBVIOUS
  <2> QED BY <2>1, <2>2
<1>3. PICK k \in T : \A j \in T : k <= j
  BY <1>1, <1>2, FirstOf
<1>4. n - k \in S /\ k \in 0 .. n
  BY <1>3
<1>5. ASSUME NEW y \in S PROVE y <= n - k
  <2>1. n - y \in T
    <3>1. y \in 0 .. n /\ n - y \in 0 .. n /\ n - (n - y) = y
      OBVIOUS
    <3> QED BY <3>1
  <2>2. k <= n - y
    BY <1>3, <2>1
  <2> QED BY <1>4, <2>2
<1> QED BY <1>4, <1>5

LEMMA AddrNat ==
  /\ Addr \subseteq Nat /\ Base = 0 /\ Base \in Addr /\ Null \notin Addr /\ Null \notin Nat
  /\ HeapTop \in Nat /\ HeapTop >= 1 /\ HeapTop - 1 \in Nat
BY MallocAssumption DEF Addr, Base, Null

(* Every block of the ring has one before it.                              *)
LEMMA HasBefore ==
  ASSUME NEW h, NEW F, Ring(h, F), NEW c \in F
  PROVE  \E b \in F : h[b].ptr = c /\ (c # Base => b < c) /\ (c = Base => h[b].ptr <= b)
<1> USE AddrNat
<1>1. /\ F \subseteq Addr /\ Base \in F
      /\ \A b \in F : h[b].ptr \in F
      /\ \A b \in F : b < h[b].ptr => \A d \in F : ~(b < d /\ d < h[b].ptr)
      /\ \A b \in F : h[b].ptr <= b => h[b].ptr = Base /\ \A d \in F : d <= b
  BY DEF Ring
<1>2. F \in SUBSET (0 .. HeapTop - 1) /\ c \in Nat
  BY <1>1 DEF Addr
<1>3. CASE c = Base
  <2>1. PICK b \in F : \A d \in F : d <= b
    BY <1>1, <1>2, LastOf
  <2>2. h[b].ptr \in F /\ h[b].ptr <= b
    BY <1>1, <2>1
  <2> QED BY <1>1, <1>3, <2>1, <2>2
<1>4. CASE c # Base
  <2> DEFINE S == {b \in F : b < c}
  <2>1. Base \in S
    BY <1>1, <1>2, <1>4
  <2>2. S \in SUBSET (0 .. HeapTop - 1) /\ S # {}
    BY <1>2, <2>1
  <2>3. PICK b \in S : \A d \in S : d <= b
    BY <2>2, LastOf
  <2>4. b \in F /\ b < c /\ b \in Nat /\ h[b].ptr \in F /\ h[b].ptr \in Nat
    BY <1>1, <2>3
  <2>5. b < h[b].ptr
    BY <1>1, <1>2, <2>4
  <2>6. ~(c < h[b].ptr)
    BY <1>1, <2>4, <2>5
  <2>7. ~(h[b].ptr < c)
    BY <2>3, <2>4, <2>5
  <2> QED BY <1>2, <1>4, <2>4, <2>6, <2>7
<1> QED BY <1>3, <1>4

-----------------------------------------------------------------------------
(* Walking round the ring.                                                 *)
WalkOf(w, h, p, n) == w = [i \in 0 .. n |-> IF i = 0 THEN p ELSE h[w[i - 1]].ptr]

LEMMA WalkExists ==
  ASSUME NEW h, NEW p, NEW n \in Nat
  PROVE  \E w : WalkOf(w, h, p, n)
<1> DEFINE none == {k \in Nat : ~\E w : WalkOf(w, h, p, k)}
<1>1. SUFFICES ASSUME none # {} PROVE FALSE
  OBVIOUS
<1>2. PICK k \in none : \A j \in none : k <= j
  BY <1>1, FirstOf
<1>3. CASE k = 0
  <2>1. WalkOf([i \in 0 .. 0 |-> p], h, p, 0)
    <3>1. \A i \in 0 .. 0 : i = 0
      OBVIOUS
    <3> QED BY <3>1 DEF WalkOf
  <2> QED BY <1>2, <1>3, <2>1
<1>4. CASE k # 0
  <2>1. k - 1 \in Nat /\ k \in Nat /\ ~(k <= k - 1)
    BY <1>2, <1>4
  <2>2. PICK f : WalkOf(f, h, p, k - 1)
    BY <1>2, <2>1
  <2>3. PICK g : g = [i \in 0 .. k |-> IF i < k THEN f[i] ELSE h[f[k - 1]].ptr]
    OBVIOUS
  <2>4. ASSUME NEW i \in 0 .. k - 1
        PROVE  i \in 0 .. k /\ g[i] = f[i] /\ f[i] = IF i = 0 THEN p ELSE h[f[i - 1]].ptr
    <3>1. i \in 0 .. k /\ i < k
      BY <2>1
    <3>2. g[i] = f[i]
      BY <2>3, <3>1
    <3>3. f = [j \in 0 .. k - 1 |-> IF j = 0 THEN p ELSE h[f[j - 1]].ptr]
      BY <2>2 DEF WalkOf
    <3>4. f[i] = IF i = 0 THEN p ELSE h[f[i - 1]].ptr
      BY <3>3
    <3> QED BY <3>1, <3>2, <3>4
  <2>5. \A i \in 0 .. k : g[i] = IF i = 0 THEN p ELSE h[g[i - 1]].ptr
    <3>1. SUFFICES ASSUME NEW i \in 0 .. k PROVE g[i] = IF i = 0 THEN p ELSE h[g[i - 1]].ptr
      OBVIOUS
    <3>2. CASE i = k
      <4>1. k - 1 \in 0 .. k - 1 /\ g[k - 1] = f[k - 1] /\ g[k] = h[f[k - 1]].ptr
        BY <2>1, <2>3, <2>4
      <4> QED BY <1>4, <3>2, <4>1
    <3>3. CASE i # k
      <4>1. i \in 0 .. k - 1 /\ (i # 0 => i - 1 \in 0 .. k - 1)
        BY <2>1, <3>3
      <4> QED BY <2>4, <4>1
    <3> QED BY <3>2, <3>3
  <2>6. g = [i \in 0 .. k |-> IF i = 0 THEN p ELSE h[g[i - 1]].ptr]
    BY <2>3, <2>5
  <2> QED BY <1>2, <2>6 DEF WalkOf
<1> QED BY <1>3, <1>4

LEMMA AfterIs ==
  ASSUME NEW h, NEW p
  PROVE  After(h, p, 0) = p /\ \A k \in Nat : After(h, p, k + 1) = h[After(h, p, k)].ptr
<1>1. ASSUME NEW n \in Nat, NEW w, WalkOf(w, h, p, n) PROVE w[n] = After(h, p, n)
  <2> DEFINE Step(f) == [i \in 0 .. n |-> IF i = 0 THEN p ELSE h[f[i - 1]].ptr]
             walk == CHOOSE f : f = Step(f)
  <2>1. w = Step(w)
    BY <1>1 DEF WalkOf
  <2>2. walk = Step(walk)
    BY <2>1
  <2>3. walk[0] = p /\ w[0] = p /\ \A k \in 1 .. n : walk[k] = h[walk[k - 1]].ptr /\ w[k] = h[w[k - 1]].ptr
    <3>1. 0 \in 0 .. n /\ \A k \in 1 .. n : k \in 0 .. n /\ k # 0
      OBVIOUS
    <3> HIDE DEF walk
    <3> QED BY <2>1, <2>2, <3>1
  <2> HIDE DEF walk
  <2>4. walk[0] = w[0] /\ \A k \in 1 .. n : walk[k - 1] = w[k - 1] => walk[k] = w[k]
    BY <2>3
  <2>5. walk[n] = w[n]
    <3>1. n \in 0 .. n
      OBVIOUS
    <3> QED BY <2>4, <3>1, Follows
  <2>6. After(h, p, n) = walk[n]
    BY DEF After, walk
  <2> QED BY <2>5, <2>6
<1>2. After(h, p, 0) = p
  <2>1. PICK w : WalkOf(w, h, p, 0)
    BY WalkExists
  <2>2. w[0] = p
    BY <2>1 DEF WalkOf
  <2> QED BY <1>1, <2>1, <2>2
<1>3. ASSUME NEW k \in Nat PROVE After(h, p, k + 1) = h[After(h, p, k)].ptr
  <2>1. PICK w : WalkOf(w, h, p, k + 1)
    BY WalkExists
  <2>2. PICK v : v = [i \in 0 .. k |-> w[i]]
    OBVIOUS
  <2>3. \A i \in 0 .. k + 1 : w[i] = IF i = 0 THEN p ELSE h[w[i - 1]].ptr
    BY <2>1 DEF WalkOf
  <2>4. WalkOf(v, h, p, k)
    <3>1. ASSUME NEW i \in 0 .. k PROVE v[i] = IF i = 0 THEN p ELSE h[v[i - 1]].ptr
      <4>1. i \in 0 .. k + 1 /\ (i # 0 => i - 1 \in 0 .. k)
        OBVIOUS
      <4> QED BY <2>2, <2>3, <4>1
    <3> QED BY <2>2, <3>1 DEF WalkOf
  <2>5. w[k + 1] = h[w[k]].ptr /\ v[k] = w[k]
    <3>1. k + 1 \in 0 .. k + 1 /\ k + 1 # 0 /\ (k + 1) - 1 = k /\ k \in 0 .. k
      OBVIOUS
    <3> QED BY <2>2, <2>3, <3>1
  <2>6. w[k + 1] = After(h, p, k + 1) /\ v[k] = After(h, p, k)
    BY <1>1, <2>1, <2>4
  <2> QED BY <2>5, <2>6
<1> QED BY <1>2, <1>3

(* Every block of the ring is met on the way round, before its start is.   *)
Round(h, F, from) ==
  /\ \A k \in Nat : After(h, from, k) \in F
  /\ \A c \in F : \E k \in 0 .. HeapTop - 1 :
       After(h, from, k) = c /\ \A j \in 1 .. k : After(h, from, j) # from

LEMMA MetOnce ==
  ASSUME NEW h, NEW F, Ring(h, F), NEW from \in F
  PROVE  Round(h, F, from)
<1> USE AddrNat
<1>1. /\ F \subseteq Addr /\ Base \in F
      /\ \A b \in F : h[b].ptr \in F
      /\ \A b \in F : b < h[b].ptr => \A d \in F : ~(b < d /\ d < h[b].ptr)
      /\ \A b \in F : h[b].ptr <= b => h[b].ptr = Base /\ \A d \in F : d <= b
  BY DEF Ring
<1> DEFINE W(k) == After(h, from, k)
<1>2. W(0) = from /\ \A k \in Nat : W(k + 1) = h[W(k)].ptr
  BY AfterIs
<1> HIDE DEF W
<1>3. \A k \in Nat : W(k) \in F
  <2> DEFINE off == {k \in Nat : W(k) \notin F}
  <2>1. SUFFICES ASSUME off # {} PROVE FALSE
    OBVIOUS
  <2>2. PICK k \in off : \A j \in off : k <= j
    BY <2>1, FirstOf
  <2>3. k # 0 /\ k - 1 \in Nat /\ ~(k <= k - 1) /\ (k - 1) + 1 = k
    BY <1>2, <2>2
  <2>4. W(k - 1) \in F
    BY <2>2, <2>3
  <2> QED BY <1>1, <1>2, <2>2, <2>3, <2>4
<1> DEFINE D(c) == IF c >= from THEN c - from ELSE HeapTop - from + c
           Met(c) == \E k \in 0 .. D(c) : W(k) = c /\ \A j \in 1 .. k : W(j) # from
<1>4. from \in Nat /\ from <= HeapTop - 1 /\ \A c \in F : c \in Nat /\ c <= HeapTop - 1
  BY <1>1 DEF Addr
<1>5. \A c \in F : D(c) \in Nat /\ D(c) <= HeapTop - 1
  BY <1>4
<1>6. \A c \in F : Met(c)
  <2> DEFINE off == {n \in Nat : \E c \in F : D(c) = n /\ ~Met(c)}
  <2>1. SUFFICES ASSUME off # {} PROVE FALSE
    BY <1>5
  <2>2. PICK n \in off : \A m \in off : n <= m
    BY <2>1, FirstOf
  <2>3. PICK c \in F : D(c) = n /\ ~Met(c)
    BY <2>2
  <2>4. CASE c = from
    <3>1. 0 \in 0 .. D(c) /\ W(0) = c /\ \A j \in 1 .. 0 : W(j) # from
      BY <1>2, <1>5, <2>4
    <3> QED BY <2>3, <3>1
  <2>5. CASE c # from
    <3>1. PICK b \in F : h[b].ptr = c /\ (c # Base => b < c) /\ (c = Base => h[b].ptr <= b)
      BY HasBefore
    <3>2. D(b) < D(c)
      <4>1. c # Base => ~(b < from /\ from < c)
        BY <1>1, <3>1
      <4>2. c = Base => from <= b
        BY <1>1, <3>1
      <4> QED BY <1>4, <2>5, <3>1, <4>1, <4>2
    <3>3. Met(b)
      BY <1>5, <2>2, <2>3, <3>2
    <3>4. PICK k \in 0 .. D(b) : W(k) = b /\ \A j \in 1 .. k : W(j) # from
      BY <3>3
    <3>5. D(b) \in Nat /\ D(c) \in Nat
      BY <1>5
    <3> HIDE DEF D
    <3>6. k + 1 \in 0 .. D(c) /\ k \in Nat /\ \A j \in 1 .. k + 1 : j \in 1 .. k \/ j = k + 1
      BY <3>2, <3>5
    <3>7. W(k + 1) = c
      BY <1>2, <3>1, <3>4, <3>6
    <3>8. \A j \in 1 .. k + 1 : W(j) # from
      BY <2>5, <3>4, <3>6, <3>7
    <3> QED BY <2>3, <3>6, <3>7, <3>8
  <2> QED BY <2>4, <2>5
<1>7. ASSUME NEW c \in F
      PROVE  \E k \in 0 .. HeapTop - 1 : W(k) = c /\ \A j \in 1 .. k : W(j) # from
  <2>1. PICK k \in 0 .. D(c) : W(k) = c /\ \A j \in 1 .. k : W(j) # from
    BY <1>6
  <2>2. D(c) \in Nat /\ D(c) <= HeapTop - 1
    BY <1>5
  <2> HIDE DEF D
  <2>3. k \in 0 .. HeapTop - 1
    BY <2>2
  <2> QED BY <2>1, <2>3
<1> QED BY <1>3, <1>7 DEF Round, W

(* What the two searches find.                                             *)
LEMMA ListIs ==
  ASSUME NEW h, NEW F, Ring(h, F), NEW from \in F
  PROVE  {After(h, from, k) : k \in 0 .. HeapTop} = F
<1>1. 0 .. HeapTop - 1 \subseteq 0 .. HeapTop /\ 0 .. HeapTop \subseteq Nat
  BY AddrNat
<1>2. /\ \A k \in Nat : After(h, from, k) \in F
      /\ \A c \in F : \E k \in 0 .. HeapTop - 1 : After(h, from, k) = c
  <2>1. Round(h, F, from)
    BY MetOnce
  <2> QED BY <2>1 DEF Round
<1> QED BY <1>1, <1>2

LEMMA BeforeIs ==
  ASSUME NEW h, NEW F, Ring(h, F), NEW from \in F, NEW bp \in Addr, bp \notin F
  PROVE  LET p == Before(h, from, bp)
         IN  /\ p \in F /\ p < bp
             /\ h[p].ptr = Base \/ bp < h[p].ptr
<1>0. /\ \A k \in Nat : After(h, from, k) \in F
      /\ \A c \in F : \E k \in 0 .. HeapTop - 1 : After(h, from, k) = c
  <2>1. Round(h, F, from)
    BY MetOnce
  <2> QED BY <2>1 DEF Round
<1> USE AddrNat
<1>1. /\ F \subseteq Addr /\ Base \in F
      /\ \A b \in F : h[b].ptr \in F
      /\ \A b \in F : b < h[b].ptr => \A d \in F : ~(b < d /\ d < h[b].ptr)
      /\ \A b \in F : h[b].ptr <= b => h[b].ptr = Base /\ \A d \in F : d <= b
  BY DEF Ring
<1>2. bp \in Nat /\ bp # Base /\ \A b \in F : b \in Nat /\ h[b].ptr \in Nat
  BY <1>1
<1>3. \E x \in F : Belongs(h, bp, x)
  <2> DEFINE S == {b \in F : b < bp}
  <2>1. Base \in S /\ S \in SUBSET (0 .. HeapTop - 1)
    <3>1. F \subseteq 0 .. HeapTop - 1
      BY <1>1 DEF Addr
    <3>2. Base < bp
      BY <1>2
    <3> QED BY <1>1, <3>1, <3>2
  <2>2. PICK b \in S : \A d \in S : d <= b
    BY <2>1, LastOf
  <2>3. b \in F /\ b < bp /\ h[b].ptr \in F /\ h[b].ptr # bp
    BY <1>1, <2>2
  <2>4. CASE b < h[b].ptr
    <3>1. ~(h[b].ptr < bp)
      BY <1>2, <2>2, <2>3, <2>4
    <3> QED BY <1>2, <2>3, <3>1 DEF Belongs
  <2>5. CASE h[b].ptr <= b
    BY <2>3, <2>5 DEF Belongs
  <2> QED BY <1>2, <2>3, <2>4, <2>5
<1> DEFINE W(i) == After(h, from, i)
           First(i) == Belongs(h, bp, W(i)) /\ \A j \in 0 .. i - 1 : ~Belongs(h, bp, W(j))
           k == CHOOSE i \in 0 .. HeapTop : First(i)
<1>4. Before(h, from, bp) = W(k)
  BY DEF Before
<1> HIDE DEF W
<1>5. (\A i \in Nat : W(i) \in F) /\ \A c \in F : \E i \in 0 .. HeapTop - 1 : W(i) = c
  BY <1>0 DEF W
<1>6. \E i \in 0 .. HeapTop : First(i)
  <2> DEFINE S == {i \in 0 .. HeapTop : Belongs(h, bp, W(i))}
  <2>1. PICK x \in F : Belongs(h, bp, x)
    BY <1>3
  <2>2. PICK i \in 0 .. HeapTop - 1 : W(i) = x
    BY <1>5, <2>1
  <2>3. i \in S /\ S \in SUBSET Nat
    BY <2>1, <2>2
  <2>4. PICK m \in S : \A j \in S : m <= j
    BY <2>3, FirstOf
  <2>5. m \in 0 .. HeapTop /\ Belongs(h, bp, W(m))
    BY <2>4
  <2>6. ASSUME NEW j \in 0 .. m - 1 PROVE ~Belongs(h, bp, W(j))
    <3>1. j \in 0 .. HeapTop /\ ~(m <= j)
      BY <2>5
    <3> QED BY <2>4, <3>1
  <2> QED BY <2>5, <2>6
<1>7. k \in 0 .. HeapTop /\ First(k)
  BY <1>6
<1> HIDE DEF k
<1>8. PICK p : p = W(k)
  OBVIOUS
<1>9. p \in F /\ Belongs(h, bp, p)
  BY <1>5, <1>7, <1>8
<1>10. p < bp /\ (h[p].ptr = Base \/ bp < h[p].ptr)
  BY <1>1, <1>2, <1>9 DEF Belongs
<1> QED BY <1>4, <1>8, <1>9, <1>10

LEMMA FoundIs ==
  ASSUME NEW h, NEW F, Ring(h, F), NEW from \in F, NEW nunits
  PROVE  LET r == FoundBefore(h, from, nunits)
         IN  \/ r = Null /\ \A b \in F : ~(h[b].size >= nunits)
             \/ r \in F /\ h[h[r].ptr].size >= nunits
<1> USE AddrNat
<1> DEFINE W(i) == After(h, from, i)
           ring == {k \in 0 .. HeapTop : \A j \in 1 .. k : W(j) # from}
           fits == {k \in ring : h[W(k + 1)].size >= nunits}
           least == CHOOSE k \in fits : \A j \in fits : k <= j
<1>1. FoundBefore(h, from, nunits) = IF fits = {} THEN Null ELSE W(least)
  BY DEF FoundBefore
<1> HIDE DEF W
<1>2. /\ \A k \in Nat : W(k) \in F
      /\ \A c \in F : \E k \in 0 .. HeapTop - 1 : W(k) = c /\ \A j \in 1 .. k : W(j) # from
      /\ \A k \in Nat : W(k + 1) = h[W(k)].ptr
  <2>1. Round(h, F, from)
    BY MetOnce
  <2>2. \A k \in Nat : After(h, from, k + 1) = h[After(h, from, k)].ptr
    BY AfterIs
  <2> QED BY <2>1, <2>2 DEF Round, W
<1>3. CASE fits = {}
  <2>1. ASSUME NEW b \in F, h[b].size >= nunits PROVE FALSE
    <3>1. PICK a \in F : h[a].ptr = b
      BY HasBefore
    <3>2. PICK k \in 0 .. HeapTop - 1 : W(k) = a /\ \A j \in 1 .. k : W(j) # from
      BY <1>2
    <3>3. k \in 0 .. HeapTop /\ k \in Nat
      OBVIOUS
    <3>4. W(k + 1) = b
      BY <1>2, <3>1, <3>2, <3>3
    <3>5. k \in fits
      BY <2>1, <3>2, <3>3, <3>4
    <3> QED BY <1>3, <3>5
  <2> QED BY <1>1, <1>3, <2>1
<1>4. CASE fits # {}
  <2>1. fits \in SUBSET Nat
    OBVIOUS
  <2>2. \E k \in fits : \A j \in fits : k <= j
    BY <1>4, <2>1, FirstOf
  <2>3. least \in fits
    BY <2>2
  <2> HIDE DEF least
  <2>4. least \in Nat /\ h[W(least + 1)].size >= nunits
    BY <2>3
  <2>5. W(least) \in F /\ h[h[W(least)].ptr].size >= nunits
    BY <1>2, <2>4
  <2> QED BY <1>1, <1>4, <2>5
<1> QED BY <1>3, <1>4

-----------------------------------------------------------------------------
(* The ring with a block less, and with a block more.                      *)
LEMMA RingWithout ==
  ASSUME NEW h, NEW F, Ring(h, F), NEW a \in F, h[a].ptr # Base, NEW g,
         g[a].ptr = h[h[a].ptr].ptr,
         \A b \in F \ {a, h[a].ptr} : g[b].ptr = h[b].ptr
  PROVE  Ring(g, F \ {h[a].ptr}) /\ a < h[a].ptr
<1> USE AddrNat
<1>1. PICK n : n = h[a].ptr
  OBVIOUS
<1>2. /\ F \subseteq Addr /\ Base \in F /\ n \in F /\ n # Base
      /\ \A b \in F : h[b].ptr \in F
      /\ \A b \in F : b < h[b].ptr => \A d \in F : ~(b < d /\ d < h[b].ptr)
      /\ \A b \in F : h[b].ptr <= b => h[b].ptr = Base /\ \A d \in F : d <= b
  BY <1>1 DEF Ring
<1>3. \A b \in F : b \in Nat /\ h[b].ptr \in Nat
  BY <1>2
<1>4. a < n
  BY <1>1, <1>2, <1>3
<1>5. \A b \in F : b # a => h[b].ptr # n
  <2> SUFFICES ASSUME NEW b \in F, b # a, h[b].ptr = n PROVE FALSE
    OBVIOUS
  <2>1. b < n
    BY <1>2, <1>3
  <2>2. ~(b < a) /\ ~(a < b)
    BY <1>1, <1>2, <1>4, <2>1
  <2> QED BY <1>3, <2>2
<1>6. h[n].ptr # n
  <2>1. n \in Nat
    BY <1>2, <1>3
  <2>2. n <= n
    BY <2>1
  <2> QED BY <1>2, <2>2
<1>7. PICK G : G = F \ {n}
  OBVIOUS
<1>8. /\ G \subseteq Addr /\ Base \in G /\ a \in G
      /\ \A b \in G : b \in F /\ b \in Nat /\ (b # a => g[b].ptr = h[b].ptr)
      /\ g[a].ptr = h[n].ptr
  BY <1>1, <1>2, <1>3, <1>4, <1>7
<1>9. \A b \in G : g[b].ptr \in G
  BY <1>2, <1>5, <1>6, <1>7, <1>8
<1>10. ASSUME NEW b \in G, b < g[b].ptr, NEW c \in G PROVE ~(b < c /\ c < g[b].ptr)
  <2>1. CASE b = a
    <3>1. h[n].ptr \in Nat /\ c \in Nat /\ c \in F /\ c # n /\ n \in Nat /\ a \in Nat
      BY <1>2, <1>3, <1>7
    <3>2. ~(a < c /\ c < n)
      BY <1>1, <1>2, <1>4, <3>1
    <3>3. ~(n < c /\ c < h[n].ptr)
      BY <1>2, <3>1
    <3> QED BY <1>8, <2>1, <3>1, <3>2, <3>3
  <2>2. CASE b # a
    BY <1>2, <1>8, <1>10, <2>2
  <2> QED BY <2>1, <2>2
<1>11. ASSUME NEW b \in G, g[b].ptr <= b PROVE g[b].ptr = Base /\ \A c \in G : c <= b
  <2>1. CASE b = a
    <3>1. h[n].ptr \in Nat /\ n \in Nat /\ a \in Nat /\ h[n].ptr <= a
      BY <1>2, <1>3, <1>8, <1>11, <2>1
    <3>2. h[n].ptr = Base /\ \A c \in F : c <= n
      BY <1>2, <1>4, <3>1
    <3>3. ASSUME NEW c \in G PROVE c <= a
      <4>1. c \in F /\ c \in Nat /\ c # n /\ c <= n
        BY <1>7, <1>8, <3>2
      <4>2. ~(a < c /\ c < n)
        BY <1>1, <1>2, <1>4, <4>1
      <4> QED BY <3>1, <4>1, <4>2
    <3> QED BY <1>8, <2>1, <3>2, <3>3
  <2>2. CASE b # a
    BY <1>2, <1>8, <1>11, <2>2
  <2> QED BY <2>1, <2>2
<1>12. Ring(g, G)
  BY <1>8, <1>9, <1>10, <1>11 DEF Ring
<1> QED BY <1>1, <1>4, <1>7, <1>12

LEMMA RingWith ==
  ASSUME NEW h, NEW F, Ring(h, F), NEW p \in F, NEW bp \in Addr, bp \notin F,
         p < bp, h[p].ptr = Base \/ bp < h[p].ptr, NEW g,
         g[p].ptr = bp, g[bp].ptr = h[p].ptr,
         \A b \in F \ {p} : g[b].ptr = h[b].ptr
  PROVE  Ring(g, F \cup {bp})
<1> USE AddrNat
<1>1. /\ F \subseteq Addr /\ Base \in F
      /\ \A b \in F : h[b].ptr \in F
      /\ \A b \in F : b < h[b].ptr => \A d \in F : ~(b < d /\ d < h[b].ptr)
      /\ \A b \in F : h[b].ptr <= b => h[b].ptr = Base /\ \A d \in F : d <= b
  BY DEF Ring
<1>2. \A b \in F : b \in Nat /\ h[b].ptr \in Nat
  BY <1>1
<1>3. bp \in Nat /\ bp # Base /\ p \in Nat
  BY <1>1
<1>4. PICK G : G = F \cup {bp}
  OBVIOUS
<1>5. \A b \in G : b = p \/ b = bp \/ (b \in F /\ b # p /\ b # bp /\ g[b].ptr = h[b].ptr)
  BY <1>4
<1>6. \A b \in G : b \in Nat /\ b \in Addr /\ (b \in F \/ b = bp)
  BY <1>1, <1>3, <1>4
<1>7. G \subseteq Addr /\ Base \in G /\ \A b \in G : g[b].ptr \in G
  BY <1>1, <1>4, <1>5
<1>8. \A c \in F : ~(p < c /\ c < bp)
  <2> SUFFICES ASSUME NEW c \in F, p < c, c < bp PROVE FALSE
    OBVIOUS
  <2>1. p < h[p].ptr
    BY <1>1, <1>2, <1>3
  <2>2. bp < h[p].ptr
    BY <1>2, <1>3, <2>1
  <2> QED BY <1>1, <1>2, <1>3, <2>1, <2>2
<1>9. \A c \in F : bp < c => h[p].ptr # Base /\ h[p].ptr <= c
  <2> SUFFICES ASSUME NEW c \in F, bp < c PROVE h[p].ptr # Base /\ h[p].ptr <= c
    OBVIOUS
  <2>1. p < c /\ ~(c <= p)
    BY <1>2, <1>3
  <2>2. p < h[p].ptr
    BY <1>1, <1>2, <1>3, <2>1
  <2> QED BY <1>1, <1>2, <1>3, <2>1, <2>2
<1>10. \A b \in F : b # p /\ b < h[b].ptr => ~(b < bp /\ bp < h[b].ptr)
  <2> SUFFICES ASSUME NEW b \in F, b # p, b < h[b].ptr, b < bp, bp < h[b].ptr PROVE FALSE
    OBVIOUS
  <2>1. ~(b < p /\ p < h[b].ptr)
    BY <1>1
  <2>2. ~(p < b)
    BY <1>8
  <2>3. b \in Nat /\ p \in Nat /\ bp \in Nat /\ h[b].ptr \in Nat
    BY <1>2, <1>3
  <2>4. b < p
    BY <2>2, <2>3
  <2>5. p < h[b].ptr
    BY <2>3
  <2> QED BY <2>1, <2>4, <2>5
<1>11. \A b \in F : b # p /\ h[b].ptr <= b => bp <= b
  <2> SUFFICES ASSUME NEW b \in F, b # p, h[b].ptr <= b PROVE bp <= b
    OBVIOUS
  <2>1. p <= b
    BY <1>1
  <2>2. b \in Nat /\ bp \in Nat /\ p < b
    BY <1>2, <1>3, <2>1
  <2>3. ~(b < bp)
    BY <1>8, <2>2
  <2> QED BY <2>2, <2>3
<1>12. ASSUME NEW b \in G, b < g[b].ptr, NEW c \in G PROVE ~(b < c /\ c < g[b].ptr)
  <2>1. CASE b = p
    BY <1>3, <1>6, <1>8, <2>1
  <2>2. CASE b = bp
    BY <1>2, <1>3, <1>6, <1>9, <1>12, <2>2
  <2>3. CASE b \in F /\ b # p /\ b # bp /\ g[b].ptr = h[b].ptr
    BY <1>1, <1>6, <1>10, <1>12, <2>3
  <2> QED BY <1>5, <2>1, <2>2, <2>3
<1>13. ASSUME NEW b \in G, g[b].ptr <= b PROVE g[b].ptr = Base /\ \A c \in G : c <= b
  <2>1. CASE b = p
    BY <1>3, <1>13, <2>1
  <2>2. CASE b = bp
    <3>1. h[p].ptr = Base
      BY <1>2, <1>3, <1>13, <2>2
    <3>2. \A c \in F : c <= bp
      BY <1>2, <1>3, <1>9, <3>1
    <3> QED BY <1>3, <1>6, <2>2, <3>1, <3>2
  <2>3. CASE b \in F /\ b # p /\ b # bp /\ g[b].ptr = h[b].ptr
    BY <1>1, <1>6, <1>11, <1>13, <2>3
  <2> QED BY <1>5, <2>1, <2>2, <2>3
<1> QED BY <1>4, <1>7, <1>12, <1>13 DEF Ring

-----------------------------------------------------------------------------
(* The ring F of the free blocks in the division of T into blocks B.       *)
Heap(h, F, B, T) ==
  /\ h \in [Addr -> Headers] /\ h[Base].size = 0
  /\ Ring(h, F)
  /\ F \subseteq B \cup {Base}
  /\ B \subseteq Addr \ {Base} /\ T \subseteq Addr
  /\ \A b \in B : h[b].size # 0
  /\ \A b, c \in B : b < c => b + h[b].size <= c
  /\ UNION {b .. b + h[b].size - 1 : b \in B} = T

(* No free block touches the next one, except those of S.                  *)
Unjoined(h, F, S) == \A b \in F \ ({Base} \cup S) : b + h[b].size # h[b].ptr

LEMMA HeapTyped ==
  ASSUME NEW h, h \in [Addr -> Headers], NEW b \in Addr
  PROVE  /\ h[b] \in Headers /\ h[b].size \in Nat /\ h[b].ptr \in Addr \cup {Null}
         /\ h[b] = [ptr |-> h[b].ptr, size |-> h[b].size]
         /\ NoHeader \in Headers /\ NoHeader.size = 0 /\ NoHeader.ptr = Null
BY DEF Headers, NoHeader

(* A free block swallows the next one, which it touches.                   *)
Merged(h, a) ==
  [h EXCEPT ![a] = [ptr |-> h[h[a].ptr].ptr, size |-> h[a].size + h[h[a].ptr].size],
            ![h[a].ptr] = NoHeader]

LEMMA MergeKeeps ==
  ASSUME NEW h, NEW F, NEW B, NEW T, NEW S, Heap(h, F, B, T),
         NEW a \in F, a # Base, a + h[a].size = h[a].ptr,
         Unjoined(h, F, S \cup {a}), h[a].ptr \notin S
  PROVE  /\ Heap(Merged(h, a), F \ {h[a].ptr}, B \ {h[a].ptr}, T)
         /\ Unjoined(Merged(h, a), F \ {h[a].ptr}, S)
         /\ h[a].ptr \in F /\ a < h[a].ptr /\ h[a].ptr # Base
<1> USE AddrNat
<1>1. PICK n : n = h[a].ptr
  OBVIOUS
<1>2. PICK g : g = Merged(h, a)
  OBVIOUS
<1>3. /\ h \in [Addr -> Headers] /\ h[Base].size = 0
      /\ Ring(h, F)
      /\ F \subseteq B \cup {Base}
      /\ B \subseteq Addr \ {Base} /\ T \subseteq Addr
      /\ \A b \in B : h[b].size # 0
      /\ \A b, c \in B : b < c => b + h[b].size <= c
      /\ UNION {b .. b + h[b].size - 1 : b \in B} = T
  BY DEF Heap
<1>4. n \in F /\ a \in B /\ a \in Addr
  BY <1>1, <1>3 DEF Ring
<1>5. h[a].size \in Nat /\ a \in Nat /\ n \in Nat /\ n = a + h[a].size /\ n # Base /\ a < n
  <2>1. h[a].size \in Nat /\ h[a].size # 0
    BY <1>3, <1>4, HeapTyped
  <2>2. n \in Addr /\ n \in Nat /\ a \in Nat
    BY <1>3, <1>4 DEF Ring
  <2>3. n = a + h[a].size
    BY <1>1
  <2>4. a < n
    BY <2>1, <2>2, <2>3
  <2>5. n # 0
    BY <2>2, <2>4
  <2> QED BY <2>1, <2>2, <2>3, <2>4, <2>5
<1>6. n \in B /\ n \in Addr /\ h[n].size \in Nat /\ h[n].ptr \in Addr \cup {Null} /\ n # a
  <2>1. n \in B /\ n \in Addr /\ n # a
    BY <1>3, <1>4, <1>5
  <2> QED BY <1>3, <2>1, HeapTyped
<1>7. /\ g \in [Addr -> Headers]
      /\ g[a] = [ptr |-> h[n].ptr, size |-> h[a].size + h[n].size]
      /\ \A b \in Addr \ {a, n} : g[b] = h[b]
  <2>1. [ptr |-> h[n].ptr, size |-> h[a].size + h[n].size] \in Headers /\ NoHeader \in Headers
    BY <1>3, <1>4, <1>5, <1>6, HeapTyped DEF Headers
  <2>2. g = [h EXCEPT ![a] = [ptr |-> h[n].ptr, size |-> h[a].size + h[n].size], ![n] = NoHeader]
    BY <1>1, <1>2 DEF Merged
  <2> HIDE DEF NoHeader
  <2> QED BY <1>3, <1>4, <1>6, <2>1, <2>2
<1>8. Ring(g, F \ {n})
  <2>1. F \subseteq Addr
    BY <1>3 DEF Ring
  <2>2. g[a].ptr = h[h[a].ptr].ptr /\ \A b \in F \ {a, h[a].ptr} : g[b].ptr = h[b].ptr
    BY <1>1, <1>7, <2>1
  <2>3. h[a].ptr # Base
    BY <1>1, <1>5
  <2> QED BY <1>1, <1>3, <2>2, <2>3, RingWithout
<1>9. F \ {n} \subseteq (B \ {n}) \cup {Base} /\ B \ {n} \subseteq Addr \ {Base}
  BY <1>3
<1>10. g[Base].size = 0
  BY <1>3, <1>5, <1>6, <1>7
<1>11. g[a].size = h[a].size + h[n].size /\ h[n].size # 0 /\ h[a].size # 0
  BY <1>3, <1>4, <1>6, <1>7
<1>12. \A b \in B \ {n} : b # a => g[b] = h[b] /\ b \in Nat /\ h[b].size \in Nat
  BY <1>3, <1>7, HeapTyped
<1>13. \A b \in B \ {n} : g[b].size # 0
  <2> SUFFICES ASSUME NEW b \in B \ {n} PROVE g[b].size # 0
    OBVIOUS
  <2>1. CASE b = a
    BY <1>5, <1>6, <1>11, <2>1
  <2>2. CASE b # a
    BY <1>3, <1>12, <2>2
  <2> QED BY <2>1, <2>2
<1>14. ASSUME NEW b \in B \ {n}, NEW c \in B \ {n}, b < c PROVE b + g[b].size <= c
  <2>1. CASE b = a
    <3>1. c # a /\ c \in Nat
      BY <1>12, <1>14, <1>5, <2>1
    <3>2. n <= c
      BY <1>3, <1>4, <1>5, <1>14, <2>1
    <3>3. n < c
      BY <1>14, <1>5, <3>1, <3>2
    <3>4. n + h[n].size <= c
      BY <1>3, <1>6, <3>3
    <3> QED BY <1>5, <1>6, <1>11, <2>1, <3>1, <3>4
  <2>2. CASE b # a
    BY <1>3, <1>12, <1>14, <2>2
  <2> QED BY <2>1, <2>2
<1>15. UNION {b .. b + g[b].size - 1 : b \in B \ {n}} = T
  <2>1. ASSUME NEW x \in T PROVE \E b \in B \ {n} : x \in b .. b + g[b].size - 1
    <3>1. PICK b \in B : x \in b .. b + h[b].size - 1
      BY <1>3
    <3>2. CASE b = n \/ b = a
      <4>1. x \in a .. a + g[a].size - 1
        BY <1>5, <1>6, <1>11, <3>1, <3>2
      <4> QED BY <1>4, <1>6, <4>1
    <3>3. CASE b # n /\ b # a
      <4>1. b \in B \ {n} /\ g[b].size = h[b].size
        BY <1>12, <3>3
      <4>2. x \in b .. b + g[b].size - 1
        BY <3>1, <4>1
      <4> QED BY <4>1, <4>2
    <3> QED BY <3>2, <3>3
  <2>2. ASSUME NEW b \in B \ {n}, NEW x \in b .. b + g[b].size - 1 PROVE x \in T
    <3>1. CASE b = a
      <4>1. x \in a .. a + h[a].size - 1 \/ x \in n .. n + h[n].size - 1
        BY <1>5, <1>6, <1>11, <2>2, <3>1
      <4> QED BY <1>3, <1>4, <1>6, <4>1
    <3>2. CASE b # a
      <4>1. g[b].size = h[b].size
        BY <1>12, <3>2
      <4>2. x \in b .. b + h[b].size - 1
        BY <2>2, <4>1
      <4> QED BY <1>3, <4>2
    <3> QED BY <3>1, <3>2
  <2> QED BY <2>1, <2>2
<1>16. Heap(g, F \ {n}, B \ {n}, T)
  BY <1>3, <1>7, <1>8, <1>9, <1>10, <1>13, <1>14, <1>15 DEF Heap
<1>17. ASSUME NEW b \in (F \ {n}) \ ({Base} \cup S) PROVE b + g[b].size # g[b].ptr
  <2>1. F \subseteq Addr
    BY <1>3 DEF Ring
  <2>2. CASE b = a
    <3>1. n + h[n].size # h[n].ptr
      BY <1>1, <1>4, <1>5 DEF Unjoined
    <3>2. g[a].ptr = h[n].ptr /\ a + g[a].size = n + h[n].size
      BY <1>5, <1>6, <1>7
    <3> QED BY <2>2, <3>1, <3>2
  <2>3. CASE b # a
    <3>1. b + h[b].size # h[b].ptr
      BY <2>3 DEF Unjoined
    <3> QED BY <1>7, <2>1, <2>3, <3>1
  <2> QED BY <2>2, <2>3
<1>18. Unjoined(g, F \ {n}, S)
  BY <1>17 DEF Unjoined
<1> QED BY <1>1, <1>2, <1>4, <1>5, <1>16, <1>18

(* free(bp) puts bp back between its neighbours and joins what touches.    *)
LEMMA FreedKeeps ==
  ASSUME NEW h, NEW F, NEW B, NEW T, Heap(h, F, B, T), Unjoined(h, F, {}),
         NEW from \in F, NEW bp \in B, bp \notin F
  PROVE  LET r == Freed(h, from, bp)
         IN  /\ r.freep \in Addr
             /\ \E G, C : /\ Heap(r.hdr, G, C, T) /\ Unjoined(r.hdr, G, {})
                          /\ r.freep \in G /\ C \ G = (B \ F) \ {bp}
                          /\ \E b \in G : r.hdr[b].size >= h[bp].size
<1> USE AddrNat
<1>1. /\ h \in [Addr -> Headers] /\ h[Base].size = 0
      /\ Ring(h, F)
      /\ F \subseteq B \cup {Base}
      /\ B \subseteq Addr \ {Base} /\ T \subseteq Addr
      /\ \A b \in B : h[b].size # 0
      /\ \A b, c \in B : b < c => b + h[b].size <= c
      /\ UNION {b .. b + h[b].size - 1 : b \in B} = T
  BY DEF Heap
<1>2. /\ F \subseteq Addr /\ Base \in F
      /\ \A b \in F : h[b].ptr \in F
      /\ \A b \in F : b < h[b].ptr => \A d \in F : ~(b < d /\ d < h[b].ptr)
      /\ \A b \in F : h[b].ptr <= b => h[b].ptr = Base /\ \A d \in F : d <= b
  BY <1>1 DEF Ring
<1>3. PICK p : p = Before(h, from, bp)
  OBVIOUS
<1>4. p \in F /\ p < bp /\ (h[p].ptr = Base \/ bp < h[p].ptr)
  BY <1>1, <1>3, BeforeIs
<1>5. PICK next : next = h[p].ptr
  OBVIOUS
<1>6. /\ next \in F /\ bp \in Addr /\ p \in Addr /\ next \in Addr /\ bp # p /\ bp # next /\ bp # Base
      /\ bp \in Nat /\ p \in Nat /\ next \in Nat
  BY <1>1, <1>2, <1>4, <1>5
<1>7. /\ h[bp].size \in Nat /\ h[p].size \in Nat /\ h[next].size \in Nat
      /\ h[bp].ptr \in Addr \cup {Null} /\ h[p].ptr \in Addr \cup {Null} /\ h[next].ptr \in Addr \cup {Null}
      /\ h[bp] = [ptr |-> h[bp].ptr, size |-> h[bp].size]
      /\ h[p] = [ptr |-> h[p].ptr, size |-> h[p].size]
      /\ h[next] = [ptr |-> h[next].ptr, size |-> h[next].size]
  BY <1>1, <1>6, HeapTyped
<1>8. h[bp].size # 0 /\ (p # Base => p \in B /\ p + h[p].size <= bp) /\ (p = Base => h[p].size = 0)
  BY <1>1, <1>4
\* bp goes into the ring.
<1> DEFINE g0 == [h EXCEPT ![p] = [ptr |-> bp, size |-> h[p].size], ![bp] = [ptr |-> next, size |-> h[bp].size]]
           F0 == F \cup {bp}
<1>9. /\ g0 \in [Addr -> Headers]
      /\ g0[p] = [ptr |-> bp, size |-> h[p].size] /\ g0[bp] = [ptr |-> next, size |-> h[bp].size]
      /\ \A b \in Addr \ {p, bp} : g0[b] = h[b]
      /\ \A b \in Addr : g0[b].size = h[b].size
  <2>1. [ptr |-> bp, size |-> h[p].size] \in Headers /\ [ptr |-> next, size |-> h[bp].size] \in Headers
    BY <1>6, <1>7 DEF Headers
  <2> QED BY <1>1, <1>6, <2>1
<1> HIDE DEF g0
<1>10. Ring(g0, F0)
  <2>1. g0[p].ptr = bp /\ g0[bp].ptr = h[p].ptr
    BY <1>5, <1>9
  <2>2. \A b \in F \ {p} : g0[b].ptr = h[b].ptr
    <3>1. \A b \in F \ {p} : b \in Addr \ {p, bp}
      BY <1>2
    <3> QED BY <1>9, <3>1
  <2>3. Ring(h, F) /\ p \in F /\ bp \in Addr /\ bp \notin F /\ p < bp /\ (h[p].ptr = Base \/ bp < h[p].ptr)
    BY <1>1, <1>4, <1>6
  <2> QED BY <2>1, <2>2, <2>3, RingWith
<1>11. Heap(g0, F0, B, T)
  <2>1. \A b \in B : g0[b].size = h[b].size
    BY <1>1, <1>9
  <2>2. UNION {b .. b + g0[b].size - 1 : b \in B} = UNION {b .. b + h[b].size - 1 : b \in B}
    BY <2>1
  <2>3. g0[Base].size = 0
    BY <1>1, <1>9
  <2> QED BY <1>1, <1>9, <1>10, <2>1, <2>2, <2>3 DEF Heap
<1>12. Unjoined(g0, F0, {p, bp})
  BY <1>2, <1>6, <1>9 DEF Unjoined
<1>13. F0 \subseteq Addr /\ bp \in F0 /\ p \in F0 /\ p # bp /\ B \ F0 = (B \ F) \ {bp}
  BY <1>2, <1>4, <1>6
\* bp swallows next.
<1> DEFINE up == bp + h[bp].size = next
           g1 == IF up THEN Merged(g0, bp) ELSE g0
           F1 == IF up THEN F0 \ {next} ELSE F0
           B1 == IF up THEN B \ {next} ELSE B
<1>14. /\ Heap(g1, F1, B1, T) /\ Unjoined(g1, F1, {p})
       /\ bp \in F1 /\ p \in F1 /\ B1 \ F1 = (B \ F) \ {bp}
       /\ up => p # next /\ next # Base /\ next \in F0
  <2>1. CASE up
    <3>1. g0[bp].ptr = next /\ bp + g0[bp].size = g0[bp].ptr /\ next > bp /\ next \notin {p}
      BY <1>4, <1>6, <1>7, <1>8, <1>9, <2>1
    <3>2. Unjoined(g0, F0, {p} \cup {bp})
      <4>1. {p} \cup {bp} = {p, bp}
        OBVIOUS
      <4> QED BY <1>12, <4>1
    <3>3. /\ Heap(Merged(g0, bp), F0 \ {next}, B \ {next}, T)
          /\ Unjoined(Merged(g0, bp), F0 \ {next}, {p}) /\ next \in F0 /\ next # Base
      <4> HIDE DEF F0
      <4>1. g0[bp].ptr \notin {p}
        BY <3>1
      <4>2. /\ Heap(Merged(g0, bp), F0 \ {g0[bp].ptr}, B \ {g0[bp].ptr}, T)
            /\ Unjoined(Merged(g0, bp), F0 \ {g0[bp].ptr}, {p})
            /\ g0[bp].ptr \in F0 /\ g0[bp].ptr # Base
        <5>1. /\ Heap(g0, F0, B, T) /\ bp \in F0 /\ bp # Base
              /\ bp + g0[bp].size = g0[bp].ptr /\ Unjoined(g0, F0, {p} \cup {bp})
          BY <1>6, <1>11, <1>13, <3>1, <3>2
        <5> QED BY <4>1, <5>1, MergeKeeps
      <4> QED BY <3>1, <4>2
    <3> QED BY <1>6, <1>13, <2>1, <3>1, <3>3
  <2>2. CASE ~up
    <3>1. Unjoined(g0, F0, {p})
      <4>1. bp + g0[bp].size # g0[bp].ptr
        BY <1>9, <2>2
      <4> QED BY <1>12, <4>1 DEF Unjoined
    <3> QED BY <1>11, <1>13, <2>2, <3>1
  <2> QED BY <2>1, <2>2
<1>15. /\ g1 \in [Addr -> Headers]
       /\ g1[p] = [ptr |-> bp, size |-> h[p].size]
       /\ up => g1[bp] = [ptr |-> h[next].ptr, size |-> h[bp].size + h[next].size]
       /\ ~up => g1[bp] = [ptr |-> next, size |-> h[bp].size]
       /\ up => g1[next] = NoHeader
       /\ \A b \in Addr \ {p, bp} : b # next \/ ~up => g1[b] = h[b]
  <2>1. CASE up
    <3>1. /\ g0[bp].ptr = next /\ g0[bp].size = h[bp].size /\ g0[next] = h[next]
      BY <1>6, <1>9, <1>14, <2>1
    <3>2. g1 = [g0 EXCEPT ![bp] = [ptr |-> h[next].ptr, size |-> h[bp].size + h[next].size], ![next] = NoHeader]
      BY <2>1, <3>1 DEF Merged
    <3>3. g1 \in [Addr -> Headers]
      BY <1>14 DEF Heap
    <3>4. p # next
      BY <1>14, <2>1
    <3> HIDE DEF g1, NoHeader
    <3> QED BY <1>6, <1>9, <2>1, <3>2, <3>3, <3>4
  <2>2. CASE ~up
    BY <1>9, <2>2, <1>6
  <2> QED BY <2>1, <2>2
<1> HIDE DEF g1
\* The block before swallows bp.
<1> DEFINE low == p + h[p].size = bp
           g2 == IF low THEN Merged(g1, p) ELSE g1
           F2 == IF low THEN F1 \ {bp} ELSE F1
           B2 == IF low THEN B1 \ {bp} ELSE B1
<1>16. g1[p].ptr = bp /\ g1[p].size = h[p].size
  BY <1>15
<1>17. low => p # Base
  BY <1>6, <1>8
<1>18. bp \in F1 /\ p \in F1 /\ p # bp /\ B1 \ F1 = (B \ F) \ {bp} /\ Heap(g1, F1, B1, T) /\ Unjoined(g1, F1, {p})
  BY <1>6, <1>14
<1> HIDE DEF F1, B1
<1>19. Heap(g2, F2, B2, T) /\ Unjoined(g2, F2, {}) /\ p \in F2 /\ B2 \ F2 = (B \ F) \ {bp}
  <2>1. CASE low
    <3>1. Unjoined(g1, F1, {} \cup {p})
      <4>1. {} \cup {p} = {p}
        OBVIOUS
      <4> QED BY <1>18, <4>1
    <3>2. p # Base /\ p + g1[p].size = g1[p].ptr /\ g1[p].ptr \notin {}
      BY <1>16, <1>17, <2>1
    <3>3. /\ Heap(Merged(g1, p), F1 \ {g1[p].ptr}, B1 \ {g1[p].ptr}, T)
          /\ Unjoined(Merged(g1, p), F1 \ {g1[p].ptr}, {})
      BY <1>18, <3>1, <3>2, MergeKeeps
    <3> QED BY <1>16, <1>18, <2>1, <3>3
  <2>2. CASE ~low
    <3>1. Unjoined(g1, F1, {})
      <4>1. p + g1[p].size # g1[p].ptr
        BY <1>16, <2>2
      <4> QED BY <1>18, <4>1 DEF Unjoined
    <3> QED BY <1>18, <2>2, <3>1
  <2> QED BY <2>1, <2>2
<1>20. \E b \in F2 : g2[b].size >= h[bp].size
  <2>1. g1[bp].size >= h[bp].size
    BY <1>7, <1>15
  <2>2. CASE low
    <3>1. g1[bp].size \in Nat /\ g1[p].size \in Nat
      BY <1>15, <1>6, HeapTyped
    <3>2. g2[p].size = g1[p].size + g1[bp].size
      <4>1. g2 = [g1 EXCEPT ![p] = [ptr |-> g1[bp].ptr, size |-> g1[p].size + g1[bp].size], ![bp] = NoHeader]
        BY <1>16, <2>2 DEF Merged
      <4> HIDE DEF g2
      <4> QED BY <1>6, <1>15, <4>1
    <3> HIDE DEF g2, F2
    <3> QED BY <1>7, <1>19, <2>1, <3>1, <3>2
  <2>3. CASE ~low
    BY <1>18, <2>1, <2>3
  <2> QED BY <2>2, <2>3
\* That is what the code computes.
<1>21. JoinLower(JoinUpper(h, p, bp), p, bp) = g2
  <2>1. PICK u : u = JoinUpper(h, p, bp)
    OBVIOUS
  <2>2. /\ u \in [Addr -> Headers]
        /\ u[p] = h[p]
        /\ \A b \in Addr \ {p} : u[b] = g1[b]
    <3>1. CASE up
      <4>1. u = [h EXCEPT ![bp] = [ptr |-> h[next].ptr, size |-> h[bp].size + h[next].size], ![next] = NoHeader]
        BY <1>5, <1>6, <1>1, <2>1, <3>1 DEF JoinUpper
      <4>2. [ptr |-> h[next].ptr, size |-> h[bp].size + h[next].size] \in Headers /\ NoHeader \in Headers
        BY <1>7, <1>1, <1>6, HeapTyped DEF Headers
      <4>3. p # next
        BY <1>14, <3>1
      <4> HIDE DEF NoHeader
      <4> QED BY <1>1, <1>6, <1>15, <3>1, <4>1, <4>2, <4>3
    <3>2. CASE ~up
      <4>1. u = [h EXCEPT ![bp].ptr = next]
        BY <1>5, <2>1, <3>2 DEF JoinUpper
      <4>2. u = [h EXCEPT ![bp] = [ptr |-> next, size |-> h[bp].size]]
        <5>1. h \in [Addr -> Headers] /\ bp \in Addr
          BY <1>1, <1>6
        <5>2. [h EXCEPT ![bp].ptr = next] = [h EXCEPT ![bp] = [ptr |-> next, size |-> h[bp].size]]
          <6>1. h[bp] \in Headers
            BY <5>1
          <6>2. [h[bp] EXCEPT !.ptr = next] = [ptr |-> next, size |-> h[bp].size]
            BY <6>1 DEF Headers
          <6> QED BY <6>2
        <5> QED BY <4>1, <5>2, Zenon
      <4>3. [ptr |-> next, size |-> h[bp].size] \in Headers
        BY <1>7, <1>6 DEF Headers
      <4> QED BY <1>1, <1>6, <1>15, <3>2, <4>2, <4>3
    <3> QED BY <3>1, <3>2
  <2>3. PICK v : v = JoinLower(u, p, bp)
    OBVIOUS
  <2>4. CASE low
    <3>1. v = [u EXCEPT ![p] = [ptr |-> u[bp].ptr, size |-> u[p].size + u[bp].size], ![bp] = NoHeader]
      BY <1>6, <2>2, <2>3, <2>4 DEF JoinLower
    <3>2. g2 = [g1 EXCEPT ![p] = [ptr |-> g1[bp].ptr, size |-> g1[p].size + g1[bp].size], ![bp] = NoHeader]
      BY <1>16, <2>4 DEF Merged
    <3>3. u[bp] = g1[bp] /\ u[p].size = g1[p].size
      BY <1>6, <1>16, <2>2
    <3> HIDE DEF g2, NoHeader
    <3>4. v \in [Addr -> {v[b] : b \in Addr}] /\ g2 \in [Addr -> {g2[b] : b \in Addr}]
      BY <1>15, <2>2, <3>1, <3>2
    <3>5. \A b \in Addr : v[b] = g2[b]
      BY <1>6, <1>15, <2>2, <3>1, <3>2, <3>3
    <3>6. v = g2
      BY <3>4, <3>5
    <3> QED BY <2>1, <2>3, <3>6
  <2>5. CASE ~low
    <3>1. v = [u EXCEPT ![p].ptr = bp]
      BY <2>2, <2>3, <2>5 DEF JoinLower
    <3>2. v = [u EXCEPT ![p] = [ptr |-> bp, size |-> h[p].size]]
      <4>1. u \in [Addr -> Headers] /\ p \in Addr
        BY <1>6, <2>2
      <4>2. [u EXCEPT ![p].ptr = bp] = [u EXCEPT ![p] = [ptr |-> bp, size |-> u[p].size]]
        <5>1. u[p] \in Headers
          BY <4>1
        <5>2. [u[p] EXCEPT !.ptr = bp] = [ptr |-> bp, size |-> u[p].size]
          BY <5>1 DEF Headers
        <5> QED BY <5>2
      <4>3. u[p] = h[p]
        BY <2>2
      <4> QED BY <3>1, <4>2, <4>3, Zenon
    <3>3. v \in [Addr -> {v[b] : b \in Addr}] /\ g1 \in [Addr -> {g1[b] : b \in Addr}]
      BY <1>15, <2>2, <3>2
    <3>4. \A b \in Addr : v[b] = g1[b]
      BY <1>6, <1>15, <2>2, <3>2
    <3>5. v = g1
      BY <3>3, <3>4
    <3> QED BY <2>1, <2>3, <2>5, <3>5
  <2> QED BY <2>4, <2>5
<1>22. Freed(h, from, bp).hdr = g2 /\ Freed(h, from, bp).freep = p
  <2> HIDE DEF g2
  <2> QED BY <1>3, <1>21 DEF Freed
<1> HIDE DEF g2, F2, B2
<1> QED BY <1>6, <1>19, <1>20, <1>22

(* malloc takes a block out of the ring, or the end of one.                *)
LEMMA CutKeeps ==
  ASSUME NEW h, NEW F, NEW B, NEW T, Heap(h, F, B, T), Unjoined(h, F, {}),
         NEW r \in F, NEW u \in Nat \ {0}, h[h[r].ptr].size >= u
  PROVE  LET c == Cut(h, r, u)
         IN  /\ c.block \in Addr /\ c.hdr[c.block].size = u
             /\ \E G, C : /\ Heap(c.hdr, G, C, T) /\ Unjoined(c.hdr, G, {})
                          /\ r \in G /\ C \ G = (B \ F) \cup {c.block}
<1> USE AddrNat
<1>1. /\ h \in [Addr -> Headers] /\ h[Base].size = 0
      /\ Ring(h, F)
      /\ F \subseteq B \cup {Base}
      /\ B \subseteq Addr \ {Base} /\ T \subseteq Addr
      /\ \A b \in B : h[b].size # 0
      /\ \A b, c \in B : b < c => b + h[b].size <= c
      /\ UNION {b .. b + h[b].size - 1 : b \in B} = T
  BY DEF Heap
<1>2. /\ F \subseteq Addr /\ Base \in F
      /\ \A b \in F : h[b].ptr \in F
      /\ \A b \in F : b < h[b].ptr => \A d \in F : ~(b < d /\ d < h[b].ptr)
      /\ \A b \in F : h[b].ptr <= b => h[b].ptr = Base /\ \A d \in F : d <= b
  BY <1>1 DEF Ring
<1>3. PICK p : p = h[r].ptr
  OBVIOUS
<1>4. p \in F /\ p # Base /\ p \in B /\ p \in Addr /\ r \in Addr
  <2>1. p \in F
    BY <1>2, <1>3
  <2>2. ~(0 >= u)
    OBVIOUS
  <2> QED BY <1>1, <1>2, <1>3, <2>1, <2>2
<1>5. PICK z : z = h[p].size
  OBVIOUS
<1>6. z \in Nat /\ z >= u /\ p \in Nat /\ r \in Nat /\ h[p].ptr \in F /\ h[p].ptr \in Nat
  <2>1. h[p].size \in Nat
    BY <1>1, <1>4, HeapTyped
  <2>2. h[p].ptr \in F
    BY <1>2, <1>4
  <2> QED BY <1>2, <1>3, <1>4, <1>5, <2>1, <2>2
<1>7. h[p].ptr # Base => p + z <= h[p].ptr
  BY <1>1, <1>2, <1>4, <1>5, <1>6
<1>8. p + z - 1 \in Addr
  <2>1. p + z - 1 \in p .. p + h[p].size - 1
    BY <1>5, <1>6
  <2> QED BY <1>1, <1>4, <2>1
<1>9. CASE z = u
  <2>1. PICK g : g = [h EXCEPT ![r].ptr = h[p].ptr, ![p].ptr = Null]
    OBVIOUS
  <2>2. Cut(h, r, u) = [hdr |-> g, block |-> p]
    BY <1>3, <1>5, <1>9, <2>1 DEF Cut
  <2>3. r < p
    <3>1. h[r].ptr # Base
      BY <1>3, <1>4
    <3> QED BY <1>2, <1>3, <1>6, <3>1
  <2>4. /\ g \in [Addr -> Headers]
        /\ g[r].ptr = h[p].ptr /\ g[r].size = h[r].size
        /\ g[p].size = h[p].size
        /\ \A b \in Addr \ {r, p} : g[b] = h[b]
    <3>1. \A t \in Headers : \A x \in Addr \cup {Null} :
            /\ [t EXCEPT !.ptr = x] \in Headers
            /\ [t EXCEPT !.ptr = x].ptr = x /\ [t EXCEPT !.ptr = x].size = t.size
      BY DEF Headers
    <3>2. h[r] \in Headers /\ h[p] \in Headers /\ h[p].ptr \in Addr \cup {Null}
      BY <1>1, <1>2, <1>4, <1>6
    <3>3. PICK rr, pp : rr = [h[r] EXCEPT !.ptr = h[p].ptr] /\ pp = [h[p] EXCEPT !.ptr = Null]
      OBVIOUS
    <3>4. rr \in Headers /\ rr.ptr = h[p].ptr /\ rr.size = h[r].size /\ pp \in Headers /\ pp.size = h[p].size
      BY <3>1, <3>2, <3>3
    <3>5. g = [h EXCEPT ![r] = rr, ![p] = pp]
      BY <1>1, <1>4, <2>1, <2>3, <3>3
    <3> QED BY <1>1, <1>4, <2>3, <1>6, <3>4, <3>5
  <2>5. \A b \in Addr : g[b].size = h[b].size
    BY <2>4
  <2>6. Ring(g, F \ {p})
    <3>1. g[r].ptr = h[h[r].ptr].ptr
      BY <1>3, <2>4
    <3>2. \A b \in F \ {r, h[r].ptr} : g[b].ptr = h[b].ptr
      <4>1. \A b \in F \ {r, p} : b \in Addr \ {r, p}
        BY <1>2
      <4> QED BY <1>3, <2>4, <4>1
    <3>3. h[r].ptr # Base
      BY <1>3, <1>4
    <3>4. Ring(g, F \ {h[r].ptr})
      BY <1>1, <3>1, <3>2, <3>3, RingWithout
    <3> QED BY <1>3, <3>4
  <2>7. Heap(g, F \ {p}, B, T)
    <3>1. \A b \in B : g[b].size = h[b].size
      BY <1>1, <2>5
    <3>2. UNION {b .. b + g[b].size - 1 : b \in B} = UNION {b .. b + h[b].size - 1 : b \in B}
      BY <3>1
    <3>3. g[Base].size = 0 /\ F \ {p} \subseteq B \cup {Base}
      BY <1>1, <2>5
    <3> QED BY <1>1, <2>4, <2>6, <3>1, <3>2, <3>3 DEF Heap
  <2>8. Unjoined(g, F \ {p}, {})
    <3>1. ASSUME NEW b \in (F \ {p}) \ ({Base} \cup {}) PROVE b + g[b].size # g[b].ptr
      <4>1. CASE b = r
        <5>1. r \in B /\ r + h[r].size <= p /\ h[r].size \in Nat
          BY <1>1, <1>4, <2>3, <3>1, <4>1, HeapTyped
        <5>2. h[r].size # 0 /\ z # 0
          BY <1>1, <1>4, <1>5, <5>1
        <5>3. r + h[r].size # h[p].ptr
          BY <1>6, <1>7, <5>1, <5>2
        <5> QED BY <2>4, <4>1, <5>3
      <4>2. CASE b # r
        BY <1>2, <2>4, <3>1, <4>2 DEF Unjoined
      <4> QED BY <4>1, <4>2
    <3> QED BY <3>1 DEF Unjoined
  <2>9. r \in F \ {p} /\ B \ (F \ {p}) = (B \ F) \cup {p} /\ g[p].size = u
    <3>1. r # p
      BY <1>6, <2>3
    <3>2. g[p].size = u
      BY <1>5, <1>9, <2>4
    <3> QED BY <1>4, <3>1, <3>2
  <2> QED BY <1>4, <2>2, <2>7, <2>8, <2>9
<1>10. CASE z # u
  <2>1. PICK q, g : q = p + z - u /\ g = [h EXCEPT ![p].size = @ - u, ![q] = [ptr |-> Null, size |-> u]]
    OBVIOUS
  <2>2. Cut(h, r, u) = [hdr |-> g, block |-> q]
    BY <1>3, <1>5, <1>10, <2>1 DEF Cut
  <2>3. q \in Addr /\ q \in Nat /\ p < q /\ q # Base /\ q + u = p + z /\ z - u \in Nat /\ z - u # 0 /\ z > u
    BY <1>6, <1>8, <1>10, <2>1 DEF Addr
  <2>4. q \notin B
    BY <1>1, <1>4, <1>5, <1>6, <2>3
  <2>5. /\ g \in [Addr -> Headers]
        /\ g[p].ptr = h[p].ptr /\ g[p].size = z - u
        /\ g[q].size = u
        /\ \A b \in Addr \ {p, q} : g[b] = h[b]
    <3>1. \A t \in Headers : \A x \in Nat :
            /\ [t EXCEPT !.size = x] \in Headers
            /\ [t EXCEPT !.size = x].size = x /\ [t EXCEPT !.size = x].ptr = t.ptr
      BY DEF Headers
    <3>2. h[p] \in Headers
      BY <1>1, <1>4
    <3>3. PICK pp : pp = [h[p] EXCEPT !.size = h[p].size - u]
      OBVIOUS
    <3>4. pp \in Headers /\ pp.ptr = h[p].ptr /\ pp.size = z - u
      BY <1>5, <2>3, <3>1, <3>2, <3>3
    <3>5. [ptr |-> Null, size |-> u] \in Headers
      BY DEF Headers
    <3>6. g = [h EXCEPT ![p] = pp, ![q] = [ptr |-> Null, size |-> u]]
      BY <1>1, <1>4, <2>1, <3>3
    <3> QED BY <1>1, <1>4, <2>3, <3>4, <3>5, <3>6
  <2>6. \A b \in B : b # p => g[b] = h[b] /\ b \in Addr /\ b \in Nat /\ h[b].size \in Nat
    BY <1>1, <2>4, <2>5, HeapTyped
  <2>7. Ring(g, F)
    <3>1. \A b \in F : g[b].ptr = h[b].ptr
      BY <1>1, <1>2, <2>3, <2>4, <2>5
    <3> QED BY <1>2, <3>1 DEF Ring
  <2>8. ASSUME NEW b \in B \cup {q} PROVE g[b].size # 0
    <3>1. CASE b = q
      BY <2>5, <3>1
    <3>2. CASE b = p
      BY <2>3, <2>5, <3>2
    <3>3. CASE b # p /\ b # q
      BY <1>1, <2>6, <2>8, <3>3
    <3> QED BY <3>1, <3>2, <3>3
  <2>9. ASSUME NEW b \in B \cup {q}, NEW c \in B \cup {q}, b < c PROVE b + g[b].size <= c
    <3>1. CASE b = q
      <4>1. c \in B /\ c \in Nat /\ p < c
        <5>1. c # q /\ c \in B
          BY <2>3, <2>9, <3>1
        <5>2. c \in Addr /\ c \in Nat
          BY <1>1, <5>1
        <5> QED BY <1>6, <2>3, <2>9, <3>1, <5>1, <5>2
      <4>2. p + z <= c
        BY <1>1, <1>4, <1>5, <4>1
      <4> QED BY <2>3, <2>5, <3>1, <4>2
    <3>2. CASE b = p /\ c = q
      BY <1>6, <2>1, <2>5, <3>2, <2>3
    <3>3. CASE b = p /\ c \in B
      <4>1. p + z <= c /\ c \in Nat
        BY <1>1, <1>4, <1>5, <2>9, <3>3
      <4> QED BY <1>6, <2>3, <2>5, <3>3, <4>1
    <3>4. CASE b \in B /\ b # p /\ c = q
      <4>1. g[b] = h[b] /\ b \in Nat /\ h[b].size \in Nat
        BY <2>6, <3>4
      <4>2. ~(p < b)
        BY <1>1, <1>4, <1>5, <1>6, <2>3, <2>9, <3>4, <4>1
      <4>3. b + h[b].size <= p
        BY <1>1, <1>4, <1>6, <3>4, <4>1, <4>2
      <4> QED BY <1>6, <2>3, <3>4, <4>1, <4>3
    <3>5. CASE b \in B /\ b # p /\ c \in B
      BY <1>1, <2>6, <2>9, <3>5
    <3> QED BY <2>4, <3>1, <3>2, <3>3, <3>4, <3>5
  <2>10. UNION {b .. b + g[b].size - 1 : b \in B \cup {q}} = T
    <3>1. ASSUME NEW x \in T PROVE \E b \in B \cup {q} : x \in b .. b + g[b].size - 1
      <4>1. PICK b \in B : x \in b .. b + h[b].size - 1
        BY <1>1
      <4>2. CASE b = p
        <5>1. x \in p .. p + g[p].size - 1 \/ x \in q .. q + g[q].size - 1
          BY <1>5, <1>6, <2>1, <2>3, <2>5, <4>1, <4>2
        <5> QED BY <1>4, <5>1
      <4>3. CASE b # p
        BY <2>6, <4>1, <4>3
      <4> QED BY <4>2, <4>3
    <3>2. ASSUME NEW b \in B \cup {q}, NEW x \in b .. b + g[b].size - 1 PROVE x \in T
      <4>1. CASE b = p \/ b = q
        <5>1. x \in p .. p + h[p].size - 1
          BY <1>5, <1>6, <2>3, <2>5, <3>2, <4>1
        <5> QED BY <1>1, <1>4, <5>1
      <4>2. CASE b # p /\ b # q
        BY <1>1, <2>6, <3>2, <4>2
      <4> QED BY <4>1, <4>2
    <3> QED BY <3>1, <3>2
  <2>11. Heap(g, F, B \cup {q}, T)
    <3>1. g[Base].size = 0
      BY <1>1, <1>4, <2>3, <2>5
    <3>2. F \subseteq (B \cup {q}) \cup {Base} /\ B \cup {q} \subseteq Addr \ {Base}
      BY <1>1, <2>3
    <3> QED BY <1>1, <2>5, <2>7, <2>8, <2>9, <2>10, <3>1, <3>2 DEF Heap
  <2>12. Unjoined(g, F, {})
    <3>1. ASSUME NEW b \in F \ ({Base} \cup {}) PROVE b + g[b].size # g[b].ptr
      <4>1. b \in B
        BY <1>1, <3>1
      <4>2. CASE b = p
        BY <1>6, <1>7, <2>3, <2>5, <4>2
      <4>3. CASE b # p
        BY <2>6, <3>1, <4>1, <4>3 DEF Unjoined
      <4> QED BY <4>2, <4>3
    <3> QED BY <3>1 DEF Unjoined
  <2>13. (B \cup {q}) \ F = (B \ F) \cup {q} /\ g[q].size = u
    BY <1>1, <2>3, <2>4, <2>5
  <2> QED BY <2>2, <2>3, <2>11, <2>12, <2>13
<1> QED BY <1>9, <1>10

(* The units that malloc asks for are just enough.                         *)
LEMMA UnitsEnough ==
  ASSUME NEW n \in Nat
  PROVE  /\ Units(n) \in Nat \ {0}
         /\ (Units(n) - 1) * HeaderSize >= n
         /\ (Units(n) - 2) * HeaderSize < n
         /\ \A s \in Nat : ~(s >= Units(n)) => (s - 1) * HeaderSize < n
<1> DEFINE H == HeaderSize
           q == (n + H - 1) \div H
           m == (n + H - 1) % H
<1>1. H \in Nat /\ H > 0 /\ n + H - 1 \in Nat
  BY MallocAssumption
<1>2. q \in Nat /\ m \in 0 .. H - 1 /\ n + H - 1 = H * q + m
  BY <1>1, Z3
<1>3. Units(n) = q + 1
  BY DEF Units
<1> HIDE DEF q, m, H
<1>4. H * q >= n
  BY <1>1, <1>2
<1>5. H * q - H < n
  BY <1>1, <1>2
<1>6. (q - 1) * H = H * q - H /\ q * H = H * q
  BY <1>1, <1>2, Z3
<1>7. ASSUME NEW s \in Nat, ~(s >= q + 1) PROVE (s - 1) * H < n
  <2>1. (q - s) \in Nat /\ (q - s) * H >= 0
    BY <1>1, <1>2, <1>7, Z3
  <2>2. (s - 1) * H = (q - 1) * H - (q - s) * H
    BY <1>1, <1>2, Z3
  <2>3. (s - 1) * H \in Int /\ (q - 1) * H \in Int /\ (q - s) * H \in Int
    BY <1>1, <1>2
  <2> QED BY <1>1, <1>2, <1>5, <1>6, <2>1, <2>2, <2>3
<1>8. (q + 1) - 1 = q /\ (q + 1) - 2 = q - 1 /\ q + 1 \in Nat \ {0}
  BY <1>2
<1>9. HeaderSize = H
  BY DEF H
<1> QED BY <1>2, <1>3, <1>4, <1>5, <1>6, <1>7, <1>8, <1>9

-----------------------------------------------------------------------------
(* What the division of the heap says of the free list.                    *)
LEMMA HeapIsDivided ==
  ASSUME NEW F, NEW B, Heap(hdr, F, B, taken), Unjoined(hdr, F, {}), freep \in F,
         live = B \ F
  PROVE  HeapDivided /\ FreeList = F
<1> USE AddrNat
<1>1. /\ hdr \in [Addr -> Headers] /\ hdr[Base].size = 0
      /\ Ring(hdr, F)
      /\ F \subseteq B \cup {Base}
      /\ B \subseteq Addr \ {Base} /\ taken \subseteq Addr
      /\ \A b \in B : hdr[b].size # 0
      /\ \A b, c \in B : b < c => b + hdr[b].size <= c
      /\ UNION {b .. b + hdr[b].size - 1 : b \in B} = taken
  BY DEF Heap
<1>2. /\ F \subseteq Addr /\ Base \in F
      /\ \A b \in F : hdr[b].ptr \in F
      /\ \A b \in F : b < hdr[b].ptr => \A d \in F : ~(b < d /\ d < hdr[b].ptr)
      /\ \A b \in F : hdr[b].ptr <= b => hdr[b].ptr = Base /\ \A d \in F : d <= b
  BY <1>1 DEF Ring
<1>3. FreeList = F
  BY <1>1, ListIs DEF FreeList
<1>4. live \cup (F \ {Base}) = B /\ live \cap F = {}
  BY <1>1
<1>5. UNION {Extent(b) : b \in B} = taken
  BY <1>1 DEF Extent
<1>6. Cardinality({b \in F : hdr[b].ptr <= b}) = 1
  <2>1. PICK b \in F : hdr[b].ptr = Base /\ hdr[b].ptr <= b
    BY <1>1, <1>2, HasBefore
  <2>2. \A c \in F : hdr[c].ptr <= c => c = b
    <3> SUFFICES ASSUME NEW c \in F, hdr[c].ptr <= c PROVE c = b
      OBVIOUS
    <3>1. b <= c /\ c <= b
      BY <1>2, <2>1
    <3>2. b \in Nat /\ c \in Nat
      BY <1>2
    <3> QED BY <3>1, <3>2
  <2>3. {c \in F : hdr[c].ptr <= c} = {b}
    BY <2>1, <2>2
  <2> QED BY <2>3, FS_Singleton
<1>7. ASSUME NEW b \in F, NEW c \in F, b # Base PROVE b + hdr[b].size # c
  <2> SUFFICES ASSUME b + hdr[b].size = c PROVE FALSE
    OBVIOUS
  <2>1. b \in B /\ b \in Addr /\ b \in Nat /\ hdr[b].ptr \in F
    BY <1>1, <1>2, <1>7
  <2>2. hdr[b].size \in Nat /\ hdr[b].size # 0
    BY <1>1, <2>1, HeapTyped
  <2>3. b < c /\ c # Base /\ c \in B /\ c \in Nat
    BY <1>1, <1>2, <2>1, <2>2
  <2>4. hdr[b].ptr \in Nat /\ b < hdr[b].ptr
    <3>1. hdr[b].ptr \in Nat
      BY <1>2, <2>1
    <3>2. ~(c <= b)
      BY <2>1, <2>3
    <3> QED BY <1>2, <2>1, <3>1, <3>2
  <2>5. hdr[b].ptr \in B
    BY <1>1, <2>1, <2>4
  <2>6. c <= hdr[b].ptr /\ hdr[b].ptr <= c
    <3>1. ~(c < hdr[b].ptr)
      BY <1>2, <2>3, <2>4
    <3>2. b + hdr[b].size <= hdr[b].ptr
      BY <1>1, <2>1, <2>4, <2>5
    <3> QED BY <2>3, <2>4, <3>1, <3>2
  <2>7. b + hdr[b].size # hdr[b].ptr
    BY <1>7 DEF Unjoined
  <2> QED BY <2>3, <2>4, <2>6, <2>7
<1>8. \A b, c \in F : b + hdr[b].size # c \/ b = Base
  BY <1>7
<1>9. \A b, c \in live \cup (FreeList \ {Base}) : b < c => b + hdr[b].size <= c
  BY <1>1, <1>3, <1>4
<1> QED BY <1>2, <1>3, <1>4, <1>5, <1>6, <1>8, <1>9 DEF HeapDivided

(* The heap that malloc and free keep, with the division behind it.        *)
HeapInv ==
  /\ hdr \in [Addr -> Headers] /\ brk \in 1 .. HeapTop /\ taken \subseteq 1 .. brk - 1
  /\ freep = Null => live = {} /\ taken = {}
  /\ freep # Null =>
       \E F, B : /\ Heap(hdr, F, B, taken) /\ Unjoined(hdr, F, {}) /\ freep \in F
                 /\ live = B \ F
  /\ MallocAnswers

LEMMA HeapInvSound == HeapInv => HeapSound
<1>1. ASSUME HeapInv, freep # Null PROVE HeapDivided
  <2>1. PICK F, B : /\ Heap(hdr, F, B, taken) /\ Unjoined(hdr, F, {}) /\ freep \in F
                    /\ live = B \ F
    BY <1>1 DEF HeapInv
  <2> QED BY <2>1, HeapIsDivided
<1>2. freep = Null => HeapDivided
  BY DEF HeapDivided
<1> QED BY <1>1, <1>2 DEF HeapSound, HeapInv

(* A step of the answer: what the primed heap needs.                       *)
LEMMA HeapNextDivided ==
  ASSUME NEW F, NEW B, Heap(hdr', F, B, taken'), Unjoined(hdr', F, {}), freep' \in F,
         live' = B \ F
  PROVE  FreeList' = F
<1>1. Ring(hdr', F)
  BY DEF Heap
<1> QED BY <1>1, ListIs DEF FreeList

(* Got hands out a block of the heap h.                                    *)
LEMMA GotKeeps ==
  ASSUME NEW h, NEW F, NEW B, NEW T, Heap(h, F, B, T), Unjoined(h, F, {}), T \subseteq 1 .. brk' - 1,
         live = B \ F, NEW r \in F, NEW n \in Nat, h[h[r].ptr].size >= Units(n),
         Got(h, r, n), taken' = T, brk' \in 1 .. HeapTop
  PROVE  HeapInv'
<1>1. /\ Units(n) \in Nat \ {0}
      /\ (Units(n) - 1) * HeaderSize >= n
      /\ (Units(n) - 2) * HeaderSize < n
  BY UnitsEnough
<1>2. PICK c : c = Cut(h, r, Units(n))
  OBVIOUS
<1>3. c.block \in Addr /\ c.hdr[c.block].size = Units(n)
  BY <1>1, <1>2, CutKeeps
<1>4. PICK G, C : /\ Heap(c.hdr, G, C, T) /\ Unjoined(c.hdr, G, {})
                  /\ r \in G /\ C \ G = (B \ F) \cup {c.block}
  BY <1>1, <1>2, CutKeeps
<1>5. /\ hdr' = c.hdr /\ freep' = r /\ live' = C \ G
      /\ reply' = [asked |-> n, block |-> c.block]
  BY <1>2, <1>4 DEF Got
<1>6. reply'.block # Null /\ reply'.block = c.block /\ reply'.asked = n
  BY <1>3, <1>5, AddrNat
<1>7. MallocAnswers'
  BY <1>1, <1>3, <1>5, <1>6 DEF MallocAnswers
<1>8. freep' # Null
  <2>1. G \subseteq Addr
    BY <1>4 DEF Heap, Ring
  <2> QED BY <1>4, <1>5, <2>1, AddrNat
<1>9. hdr' \in [Addr -> Headers]
  BY <1>4, <1>5 DEF Heap
<1> QED BY <1>4, <1>5, <1>7, <1>8, <1>9 DEF HeapInv

LEMMA HeapInvInit == MallocInit => HeapInv
<1> SUFFICES ASSUME MallocInit PROVE HeapInv
  OBVIOUS
<1>1. hdr \in [Addr -> Headers]
  BY DEF MallocInit, NoHeader, Headers, Addr
<1>2. brk \in 1 .. HeapTop /\ taken \subseteq 1 .. brk - 1
  BY AddrNat DEF MallocInit
<1> QED BY <1>1, <1>2 DEF MallocInit, HeapInv, MallocAnswers

LEMMA MallocKeeps ==
  ASSUME HeapInv, NEW n \in Requests, Malloc(n)
  PROVE  HeapInv'
<1> USE AddrNat
<1> DEFINE first == freep = Null
           h == IF first THEN [hdr EXCEPT ![Base] = [ptr |-> Base, size |-> 0]] ELSE hdr
           from == IF first THEN Base ELSE freep
           u == Units(n)
           prevp == FoundBefore(h, from, u)
           nu == More(u)
           h1 == [h EXCEPT ![brk].size = nu]
           grown == Freed(h1, from, brk)
<1>1. /\ n \in Nat /\ u \in Nat \ {0}
      /\ \A s \in Nat : ~(s >= u) => (s - 1) * HeaderSize < n
  BY UnitsEnough, MallocAssumption
<1>2. \/ prevp # Null /\ Got(h, prevp, n) /\ UNCHANGED <<brk, taken>>
      \/ /\ prevp = Null /\ brk + nu <= HeapTop
         /\ Got(grown.hdr, FoundBefore(grown.hdr, grown.freep, u), n)
         /\ brk' = brk + nu
         /\ taken' = taken \cup brk .. brk + nu - 1
      \/ /\ prevp = Null /\ ~(brk + nu <= HeapTop)
         /\ hdr' = h /\ freep' = from
         /\ reply' = [asked |-> n, block |-> Null]
         /\ UNCHANGED <<brk, live, taken>>
  BY DEF Malloc
<1>3. nu \in Nat \ {0} /\ nu >= u
  BY <1>1, MallocAssumption DEF More
<1>4. hdr \in [Addr -> Headers] /\ brk \in 1 .. HeapTop /\ taken \subseteq 1 .. brk - 1
  BY DEF HeapInv
<1> HIDE DEF u, nu
<1>5. \E F, B : Heap(h, F, B, taken) /\ Unjoined(h, F, {}) /\ from \in F /\ live = B \ F
  <2>1. CASE first
    <3>1. live = {} /\ taken = {}
      BY <2>1 DEF HeapInv
    <3>2. [ptr |-> Base, size |-> 0] \in Headers
      BY DEF Headers
    <3>3. h \in [Addr -> Headers] /\ h[Base].ptr = Base /\ h[Base].size = 0
      BY <1>4, <2>1, <3>2
    <3> HIDE DEF h
    <3>4. Ring(h, {Base})
      BY <3>3 DEF Ring
    <3>5. UNION {b .. b + h[b].size - 1 : b \in {}} = {}
      OBVIOUS
    <3>6. Heap(h, {Base}, {}, taken)
      BY <3>1, <3>3, <3>4, <3>5 DEF Heap
    <3>7. Unjoined(h, {Base}, {})
      BY DEF Unjoined
    <3> QED BY <2>1, <3>1, <3>6, <3>7
  <2>2. CASE ~first
    BY <2>2 DEF HeapInv
  <2> QED BY <2>1, <2>2
<1> HIDE DEF first, h, from, prevp
<1>6. PICK F, B : Heap(h, F, B, taken) /\ Unjoined(h, F, {}) /\ from \in F /\ live = B \ F
  BY <1>5
<1>7. Ring(h, F) /\ F \subseteq Addr
  BY <1>6 DEF Heap, Ring
<1>8. \/ prevp = Null /\ \A b \in F : ~(h[b].size >= u)
      \/ prevp \in F /\ h[h[prevp].ptr].size >= u
  BY <1>6, <1>7, FoundIs DEF prevp
<1>9. CASE prevp # Null /\ Got(h, prevp, n) /\ UNCHANGED <<brk, taken>>
  <2>1. prevp \in F /\ h[h[prevp].ptr].size >= Units(n)
    BY <1>8, <1>9 DEF u
  <2>2. taken \subseteq 1 .. brk' - 1 /\ brk' \in 1 .. HeapTop /\ taken' = taken
    BY <1>4, <1>9
  <2> QED BY <1>1, <1>6, <1>9, <2>1, <2>2, GotKeeps
<1>10. CASE /\ prevp = Null /\ brk + nu <= HeapTop
            /\ Got(grown.hdr, FoundBefore(grown.hdr, grown.freep, u), n)
            /\ brk' = brk + nu
            /\ taken' = taken \cup brk .. brk + nu - 1
  <2>1. PICK T : T = taken \cup brk .. brk + nu - 1
    OBVIOUS
  <2>2. brk \in Addr /\ brk \in Nat /\ brk # Base /\ HeapTop \in Nat
    BY <1>3, <1>4, <1>10 DEF Addr
  <2>3. /\ h \in [Addr -> Headers] /\ h[Base].size = 0
        /\ F \subseteq B \cup {Base}
        /\ B \subseteq Addr \ {Base} /\ taken \subseteq Addr
        /\ \A b \in B : h[b].size # 0
        /\ \A b, c \in B : b < c => b + h[b].size <= c
        /\ UNION {b .. b + h[b].size - 1 : b \in B} = taken
    BY <1>6 DEF Heap
  <2>4. /\ h1 \in [Addr -> Headers] /\ h1[brk].size = nu /\ h1[brk].ptr = h[brk].ptr
        /\ \A b \in Addr \ {brk} : h1[b] = h[b]
    <3>1. h[brk] \in Headers
      BY <2>2, <2>3
    <3>2. \A t \in Headers : /\ [t EXCEPT !.size = nu] \in Headers
                             /\ [t EXCEPT !.size = nu].size = nu
                             /\ [t EXCEPT !.size = nu].ptr = t.ptr
      BY <1>3 DEF Headers
    <3>3. PICK t : t = [h[brk] EXCEPT !.size = nu]
      OBVIOUS
    <3>4. t \in Headers /\ t.size = nu /\ t.ptr = h[brk].ptr
      BY <3>1, <3>2, <3>3
    <3>5. h1 = [h EXCEPT ![brk] = t]
      BY <3>3
    <3> HIDE DEF h1
    <3> QED BY <2>2, <2>3, <3>4, <3>5
  <2>5. \A b \in B : b \in Nat /\ h[b].size \in Nat /\ b + h[b].size <= brk /\ b < brk
    <3> SUFFICES ASSUME NEW b \in B PROVE b \in Nat /\ h[b].size \in Nat /\ b + h[b].size <= brk /\ b < brk
      OBVIOUS
    <3>1. b \in Nat /\ b \in Addr
      BY <2>3
    <3>2. h[b].size \in Nat /\ h[b].size # 0
      BY <2>3, <3>1, HeapTyped
    <3>3. b + h[b].size - 1 \in b .. b + h[b].size - 1
      BY <3>1, <3>2
    <3>4. b + h[b].size - 1 \in taken
      BY <2>3, <3>3
    <3>5. b + h[b].size - 1 <= brk - 1
      <4>1. \A x \in 1 .. brk - 1 : x <= brk - 1
        BY <2>2
      <4> QED BY <1>4, <3>4, <4>1
    <3> QED BY <2>2, <3>1, <3>2, <3>5
  <2>6. brk \notin B /\ brk \notin F
    <3>1. brk \notin B
      BY <2>2, <2>5
    <3> QED BY <2>2, <2>3, <3>1
  <2>7. PICK C : C = B \cup {brk}
    OBVIOUS
  <2> HIDE DEF h1
  <2>8. \A b \in B : h1[b] = h[b]
    BY <2>3, <2>4, <2>6
  <2>9. \A b \in F : h1[b] = h[b]
    BY <1>7, <2>4, <2>6
  <2>10. Heap(h1, F, C, T)
    <3>1. Ring(h1, F)
      BY <1>7, <2>9 DEF Ring
    <3>2. h1[Base].size = 0
      BY <2>2, <2>3, <2>4
    <3>3. C \subseteq Addr \ {Base} /\ F \subseteq C \cup {Base}
      BY <2>2, <2>3, <2>7
    <3>4. T \subseteq Addr
      BY <1>3, <1>4, <1>10, <2>1, <2>2, <2>3 DEF Addr
    <3>5. \A b \in C : h1[b].size # 0
      BY <1>3, <2>3, <2>4, <2>7, <2>8
    <3>6. ASSUME NEW b \in C, NEW c \in C, b < c PROVE b + h1[b].size <= c
      <4>1. b # brk
        BY <2>2, <2>5, <2>7, <3>6
      <4> QED BY <2>3, <2>5, <2>7, <2>8, <3>6, <4>1
    <3>7. UNION {b .. b + h1[b].size - 1 : b \in C} = T
      <4>1. UNION {b .. b + h1[b].size - 1 : b \in B} = taken
        BY <2>3, <2>8
      <4>2. \A x : x \in UNION {b .. b + h1[b].size - 1 : b \in C} <=>
                     x \in UNION {b .. b + h1[b].size - 1 : b \in B} \/ x \in brk .. brk + h1[brk].size - 1
        BY <2>7
      <4> QED BY <2>1, <2>4, <4>1, <4>2
    <3> QED BY <2>4, <3>1, <3>2, <3>3, <3>4, <3>5, <3>6, <3>7 DEF Heap
  <2>11. Unjoined(h1, F, {})
    BY <1>6, <2>9 DEF Unjoined
  <2>12. PICK r : r = grown
    OBVIOUS
  <2>13. brk \in C /\ brk \notin F /\ (C \ F) \ {brk} = live
    BY <1>6, <2>6, <2>7
  <2>14. PICK G, D : /\ Heap(r.hdr, G, D, T) /\ Unjoined(r.hdr, G, {})
                     /\ r.freep \in G /\ D \ G = (C \ F) \ {brk}
                     /\ \E b \in G : r.hdr[b].size >= h1[brk].size
    BY <1>6, <2>10, <2>11, <2>12, <2>13, FreedKeeps
  <2>15. PICK s : s = FoundBefore(r.hdr, r.freep, u)
    OBVIOUS
  <2>16. Ring(r.hdr, G) /\ r.hdr \in [Addr -> Headers] /\ G \subseteq Addr
    BY <2>14 DEF Heap, Ring
  <2>17. \E b \in G : r.hdr[b].size >= u
    <3>1. PICK b \in G : r.hdr[b].size >= nu
      BY <2>4, <2>14
    <3>2. r.hdr[b].size \in Nat
      BY <2>16, HeapTyped
    <3> QED BY <1>1, <1>3, <3>1, <3>2 DEF u
  <2>18. s \in G /\ r.hdr[r.hdr[s].ptr].size >= u
    BY <2>14, <2>15, <2>16, <2>17, FoundIs
  <2>19. Got(r.hdr, s, n)
    BY <1>10, <2>12, <2>15
  <2>20. taken' = T /\ brk' \in 1 .. HeapTop /\ T \subseteq 1 .. brk' - 1
    BY <1>3, <1>4, <1>10, <2>1, <2>2
  <2>21. live = D \ G
    BY <2>13, <2>14
  <2>22. r.hdr[r.hdr[s].ptr].size >= Units(n)
    BY <2>18 DEF u
  <2> QED BY <1>1, <2>14, <2>18, <2>19, <2>20, <2>21, <2>22, GotKeeps
<1>11. CASE /\ prevp = Null /\ ~(brk + nu <= HeapTop)
            /\ hdr' = h /\ freep' = from
            /\ reply' = [asked |-> n, block |-> Null]
            /\ UNCHANGED <<brk, live, taken>>
  <2>1. \A b \in F : ~(h[b].size >= u)
    BY <1>7, <1>8, <1>11
  <2>2. FreeList' = F
    BY <1>6, <1>11, HeapNextDivided
  <2>3. \A b \in F : (h[b].size - 1) * HeaderSize < n
    <3> SUFFICES ASSUME NEW b \in F PROVE (h[b].size - 1) * HeaderSize < n
      OBVIOUS
    <3>1. h[b].size \in Nat
      <4>1. h \in [Addr -> Headers]
        BY <1>6 DEF Heap
      <4> QED BY <1>7, <4>1, HeapTyped
    <3> QED BY <1>1, <2>1, <3>1
  <2>4. brk + More(Units(n)) > HeapTop
    BY <1>3, <1>4, <1>11 DEF u, nu
  <2>5. MallocAnswers'
    BY <1>11, <2>2, <2>3, <2>4 DEF MallocAnswers
  <2>6. freep' # Null
    BY <1>6, <1>7, <1>11
  <2>7. hdr' \in [Addr -> Headers]
    BY <1>6, <1>11 DEF Heap
  <2> QED BY <1>4, <1>6, <1>11, <2>5, <2>6, <2>7 DEF HeapInv
<1> QED BY <1>2, <1>9, <1>10, <1>11

LEMMA HeapInvNext == HeapInv /\ [MallocNext]_mallocVars => HeapInv'
<1> SUFFICES ASSUME HeapInv, [MallocNext]_mallocVars PROVE HeapInv'
  OBVIOUS
<1> USE AddrNat
<1>1. ASSUME NEW n \in Requests, Malloc(n) PROVE HeapInv'
  BY <1>1, MallocKeeps
<1>2. ASSUME NEW bp \in live, Free(bp) PROVE HeapInv'
  <2>1. freep # Null
    BY DEF HeapInv
  <2>2. PICK F, B : /\ Heap(hdr, F, B, taken) /\ Unjoined(hdr, F, {}) /\ freep \in F
                    /\ live = B \ F
    BY <2>1 DEF HeapInv
  <2>3. PICK r : r = Freed(hdr, freep, bp)
    OBVIOUS
  <2>4. PICK G, C : /\ Heap(r.hdr, G, C, taken) /\ Unjoined(r.hdr, G, {})
                    /\ r.freep \in G /\ C \ G = (B \ F) \ {bp}
    BY <2>2, <2>3, FreedKeeps
  <2>5. /\ hdr' = r.hdr /\ freep' = r.freep /\ live' = C \ G /\ reply' = NoReply
        /\ UNCHANGED <<brk, taken>>
    BY <1>2, <2>2, <2>3, <2>4 DEF Free
  <2>6. freep' # Null /\ hdr' \in [Addr -> Headers]
    BY <2>4, <2>5 DEF Heap, Ring
  <2>7. MallocAnswers'
    BY <2>5 DEF MallocAnswers
  <2> QED BY <2>4, <2>5, <2>6, <2>7 DEF HeapInv
<1>3. ASSUME NEW n \in Grabs, Grab(n) PROVE HeapInv'
  <2>1. MallocAnswers'
    BY <1>3 DEF Grab, MallocAnswers
  <2>2. brk' \in 1 .. HeapTop /\ taken' \subseteq 1 .. brk' - 1
    BY <1>3, MallocAssumption DEF Grab, HeapInv
  <2>3. UNCHANGED <<hdr, freep, live, taken>>
    BY <1>3 DEF Grab
  <2> QED BY <2>1, <2>2, <2>3 DEF HeapInv
<1>4. CASE UNCHANGED mallocVars
  <2>1. UNCHANGED <<hdr, freep, brk, live, taken, reply>>
    BY <1>4 DEF mallocVars
  <2>2. MallocAnswers'
    BY <2>1 DEF HeapInv, MallocAnswers, FreeList
  <2> QED BY <2>1, <2>2 DEF HeapInv
<1> QED BY <1>1, <1>2, <1>3, <1>4 DEF MallocNext

(* malloc and free keep the heap sound, and malloc answers what it can, for *)
(* every size of heap, header and request (umalloc.c:23-89).                *)
THEOREM HeapCorrect == MallocSpec => []HeapSound
<1>1. MallocInit => HeapInv
  BY HeapInvInit
<1>2. HeapInv /\ [MallocNext]_mallocVars => HeapInv'
  BY HeapInvNext
<1>3. HeapInv => HeapSound
  BY HeapInvSound
<1> QED BY <1>1, <1>2, <1>3, PTL DEF MallocSpec
=============================================================================
