---------------------------- MODULE FileContent ----------------------------
(***************************************************************************)
(* The contents of xv6 files: block numbers in inodes and in one indirect  *)
(* block, the bitmap, readi, writei and itrunc of fs.c, over an image made *)
(* by mkfs.c.  Every action is a file-system call inside its transaction   *)
(* and under the inode's lock, so it is one step here; that a transaction  *)
(* is written as a whole or not at all is FsLog's subject.  A directory    *)
(* entry takes one unit of a block, a byte of a file another.              *)
(***************************************************************************)
EXTENDS Integers, Sequences

CONSTANTS FsSize, NMeta,        \* blocks, and those before the data
          BSize, NDirect,       \* a block holds BSize units or numbers
          Packed,               \* the files mkfs is given, as contents
          Offsets, Sources,     \* of the calls
          Width,                \* of an unsigned int
          MaxCalls              \* bound on the calls that change a file

ASSUME ContentAssumption ==
  /\ {FsSize, NMeta, BSize, NDirect, Width, MaxCalls} \subseteq Nat
  /\ BSize > 0 /\ NMeta > 0 /\ NMeta < FsSize
  /\ (NDirect + BSize) * BSize < Width
  /\ Packed \in Seq(Seq(Int)) /\ Sources \subseteq Seq(Int)
  /\ Offsets \subseteq 0 .. Width - 1

VARIABLES disk,    \* the bitmap, the data blocks and the inodes
          core,    \* inodes in the inode table, NotCached when not there
          content, \* history: the bytes of each file
          answer,  \* of the last step if it was a read, with its file
          calls

contentVars == <<disk, core, content, answer, calls>>

Root == 1
FileIds == 1 .. Len(Packed) + 1
NIndirect == BSize
MaxFile == NDirect + NIndirect
ZeroBlock == [i \in 1 .. BSize |-> 0]
NewInode == [size |-> 0, addrs |-> [i \in 0 .. NDirect |-> 0]]
NotCached == [size |-> -1]
Lesser(a, b) == IF a < b THEN a ELSE b

----------------------------------------------------------------------------
\* mkfs: blocks are handed out in order and the bitmap is written at the end.
\* t is the data blocks, the inodes, freeblock and the block found last.
MkBlock(t, f, n) ==   \* the number at addrs[n], taken if there is none
  IF t.inodes[f].addrs[n] # 0 THEN t
  ELSE [t EXCEPT !.inodes[f].addrs[n] = t.free, !.free = t.free + 1]

MkMap(t, f, bn) ==
  LET a == MkBlock(t, f, Lesser(bn, NDirect))
      found == a.inodes[f].addrs[Lesser(bn, NDirect)]
      i == bn - NDirect + 1
  IN CASE bn < NDirect -> [a EXCEPT !.at = found]
       [] bn >= NDirect /\ a.data[found][i] # 0 -> [a EXCEPT !.at = a.data[found][i]]
       [] OTHER -> [a EXCEPT !.data[found][i] = a.free, !.at = a.free, !.free = a.free + 1]

IAppend(t, f, unit) ==
  LET off == t.inodes[f].size
      a == MkMap(t, f, off \div BSize)
  IN [a EXCEPT !.data[a.at][(off % BSize) + 1] = unit, !.inodes[f].size = off + 1]

Appended(t, f, units) ==
  LET step[i \in 0 .. Len(units)] ==
        IF i = 0 THEN t ELSE IAppend(step[i - 1], f, units[i])
  IN step[Len(units)]

RootEntries == <<Root, Root>> \o [i \in 1 .. Len(Packed) |-> i + 1]

\* The files in the order of the command line; the root directory grows by an
\* entry before each. Which block is whose depends on that order only.
MkFs ==
  LET empty == [data |-> [b \in NMeta .. FsSize - 1 |-> ZeroBlock],
                inodes |-> [f \in FileIds |-> NewInode], free |-> NMeta, at |-> 0]
      made[f \in FileIds] ==
        IF f = Root THEN Appended(empty, Root, <<Root, Root>>)
        ELSE Appended(Appended(made[f - 1], Root, <<f>>), f, Packed[f - 1])
      all == made[Len(Packed) + 1]
      size == all.inodes[Root].size
  IN [used |-> 0 .. all.free - 1,
      data |-> all.data,
      inodes |-> [all.inodes EXCEPT ![Root].size = (size \div BSize + 1) * BSize]]

MkContent ==
  LET pad == BSize - (Len(RootEntries) % BSize)
  IN [f \in FileIds |->
        IF f = Root THEN RootEntries \o [i \in 1 .. pad |-> 0] ELSE Packed[f - 1]]

\* mkfs has ended well: no file is longer than its blocks can be, the disk is
\* large enough, and the rounding of the root's size adds no hole.
ASSUME MkfsAssumption ==
  /\ Len(RootEntries) <= MaxFile * BSize /\ Len(RootEntries) % BSize # 0
  /\ \A i \in 1 .. Len(Packed) : Len(Packed[i]) <= MaxFile * BSize
  /\ MkFs.used \subseteq 0 .. FsSize - 1

----------------------------------------------------------------------------
\* fs.c: s is the disk as the transaction has changed it so far, ip the inode
\* in the table, at the block bmap found; out tells that balloc has panicked.
Free(s) == {b \in NMeta .. FsSize - 1 : b \notin s.used}

Balloc(s) ==
  IF Free(s) = {} THEN [s EXCEPT !.out = TRUE]
  ELSE LET b == CHOOSE x \in Free(s) : \A y \in Free(s) : x <= y
       IN [s EXCEPT !.used = @ \cup {b}, !.data[b] = ZeroBlock, !.at = b]

BmapAddr(s, n) ==   \* addrs[n]
  IF s.ip.addrs[n] # 0 THEN [s EXCEPT !.at = s.ip.addrs[n]]
  ELSE LET a == Balloc(s) IN IF a.out THEN a ELSE [a EXCEPT !.ip.addrs[n] = a.at]

Bmap(s, bn) ==
  IF bn < NDirect THEN BmapAddr(s, bn)
  ELSE LET a == BmapAddr(s, NDirect)
           table == a.at
           i == bn - NDirect + 1
           b == Balloc(a)
       IN CASE a.out -> a
            [] ~a.out /\ a.data[table][i] # 0 -> [a EXCEPT !.at = a.data[table][i]]
            [] OTHER -> IF b.out THEN b ELSE [b EXCEPT !.data[table][i] = b.at]

\* The loops of writei and readi, a unit at a time.
PutUnit(s, off, unit) ==
  LET a == Bmap(s, off \div BSize)
  IN IF s.out \/ a.out THEN [s EXCEPT !.out = TRUE]
     ELSE [a EXCEPT !.data[a.at][(off % BSize) + 1] = unit]

GetUnit(s, off) ==
  LET a == Bmap(s, off \div BSize)
  IN IF s.out \/ a.out THEN [s EXCEPT !.out = TRUE]
     ELSE [a EXCEPT !.got = Append(@, a.data[a.at][(off % BSize) + 1])]

Wraps(off, n) == ((off + n) % Width) < off

AnyWrite(s, off, n) == n > 0   \* mutant

Grows(s, off, n) == n > 0 /\ off + n > s.ip.size

Writei(s, off, src) ==
  LET n == Len(src)
      put[i \in 0 .. n] == IF i = 0 THEN s ELSE PutUnit(put[i - 1], off + i - 1, src[i])
      done == put[n]
  IN CASE off > s.ip.size \/ Wraps(off, n) \/ off + n > MaxFile * BSize -> s
       [] OTHER -> IF Grows(s, off, n)
                   THEN [done EXCEPT !.ip.size = off + n, !.dip = [done.ip EXCEPT !.size = off + n]]
                   ELSE done

Readi(s, off, n) ==
  LET m == Lesser(n, s.ip.size - off)
      get[i \in 0 .. m] == IF i = 0 THEN s ELSE GetUnit(get[i - 1], off + i - 1)
  IN IF off > s.ip.size \/ Wraps(off, n) THEN [s EXCEPT !.got = <<-1>>] ELSE get[m]

Named(s) == {s.ip.addrs[n] : n \in 0 .. NDirect} \ {0}
InTable(s) ==
  IF s.ip.addrs[NDirect] = 0 THEN {}
  ELSE {s.data[s.ip.addrs[NDirect]][i] : i \in 1 .. NIndirect} \ {0}

TruncDirect(s) == [s EXCEPT !.used = @ \ Named(s), !.ip = NewInode, !.dip = NewInode]   \* mutant

Itrunc(s) ==
  [s EXCEPT !.used = @ \ (Named(s) \cup InTable(s)), !.ip = NewInode, !.dip = NewInode]

----------------------------------------------------------------------------
\* A call: ilock reads an inode that is not in the table; a panic stops the
\* machine before the transaction commits, which starts again without it.
Ilocked(f) ==
  LET ip == IF core[f] = NotCached THEN disk.inodes[f] ELSE core[f]
  IN [used |-> disk.used, data |-> disk.data, ip |-> ip, dip |-> disk.inodes[f],
      at |-> 0, out |-> FALSE, got |-> <<>>]

NoInodes == [f \in FileIds |-> NotCached]

Finish(f, s) ==
  IF s.out THEN UNCHANGED disk /\ core' = NoInodes
  ELSE /\ disk' = [used |-> s.used, data |-> s.data,
                   inodes |-> [disk.inodes EXCEPT ![f] = s.dip]]
       /\ core' = [core EXCEPT ![f] = s.ip]

Overlaid(old, off, src) ==
  [i \in 1 .. (IF off + Len(src) > Len(old) THEN off + Len(src) ELSE Len(old)) |->
     IF i > off /\ i <= off + Len(src) THEN src[i - off] ELSE old[i]]

ContentInit ==
  /\ disk = MkFs
  /\ core = NoInodes
  /\ content = MkContent
  /\ answer = <<>> /\ calls = 0

Write(f, off, src) ==
  /\ calls < MaxCalls
  /\ LET s == Writei(Ilocked(f), off, src)
         taken == ~s.out /\ off <= Len(content[f]) /\ off + Len(src) <= MaxFile * BSize
     IN /\ Finish(f, s)
        /\ content' = IF taken THEN [content EXCEPT ![f] = Overlaid(@, off, src)] ELSE content
  /\ calls' = calls + 1 /\ answer' = <<>>

Read(f, off, n) ==
  /\ LET s == Readi(Ilocked(f), off, n)
     IN Finish(f, s) /\ answer' = IF s.out THEN <<>> ELSE <<f, s.got>>
  /\ UNCHANGED <<content, calls>>

\* The last reference to a file without a name is dropped (iput).
Trunc(f) ==
  /\ calls < MaxCalls /\ f # Root
  /\ Finish(f, Itrunc(Ilocked(f)))
  /\ content' = [content EXCEPT ![f] = <<>>]
  /\ calls' = calls + 1 /\ answer' = <<>>

\* An entry of the inode table is used for another inode, or the machine
\* starts again between two transactions.
Forget(f) ==
  /\ core[f] # NotCached
  /\ core' = [core EXCEPT ![f] = NotCached]
  /\ answer' = <<>> /\ UNCHANGED <<disk, content, calls>>

Restart ==
  /\ core' = NoInodes
  /\ answer' = <<>> /\ UNCHANGED <<disk, content, calls>>

ContentNext ==
  \/ \E f \in FileIds, off \in Offsets :
       \/ \E src \in Sources : Write(f, off, src)
       \/ \E n \in Offsets : Read(f, off, n)
  \/ \E f \in FileIds : Trunc(f) \/ Forget(f)
  \/ Restart

ContentSpec == ContentInit /\ [][ContentNext]_contentVars

----------------------------------------------------------------------------
\* The m-th number an inode has, those of its indirect block last.
BlockAt(data, addrs, m) ==
  IF m <= NDirect THEN addrs[m]
  ELSE IF addrs[NDirect] = 0 THEN 0 ELSE data[addrs[NDirect]][m - NDirect]

(* A block after the metadata is marked used if and only if one inode names *)
(* it, in one place, directly or through its indirect block, and what the   *)
(* inode table holds of an inode is what the disk has: nothing mkfs packed  *)
(* or a call allocated is leaked, freed twice or shared (fs.c:56-95,        *)
(* 373-435; mkfs.c:246-305).                                                *)
FsBlocksOnce ==
  LET block(p) == BlockAt(disk.data, disk.inodes[p[1]].addrs, p[2])
      places == {p \in FileIds \X (0 .. MaxFile) : block(p) # 0}
  IN /\ disk.used = (0 .. NMeta - 1) \cup {block(p) : p \in places}
     /\ \A p, q \in places : block(p) = block(q) => p = q
     /\ \A p \in places : block(p) \in NMeta .. FsSize - 1
     /\ \A f \in FileIds : core[f] # NotCached => core[f] = disk.inodes[f]

Promise == INSTANCE ByteFiles WITH Longest <- MaxFile * BSize

PromiseNext ==
  \/ \E f \in FileIds, off \in Offsets :
       \/ \E src \in Sources : Promise!Write(f, off, src)
       \/ \E n \in Offsets : Promise!Read(f, off, n)
  \/ \E f \in FileIds : Promise!Empty(f)
  \/ Promise!Other

(* fs.c over an image of mkfs.c is a collection of byte strings: a read     *)
(* returns the bytes last written, through direct and indirect blocks,      *)
(* across recycled table entries and restarts; a call that panics for want  *)
(* of blocks leaves no trace (fs.c:453-511).                                *)
FsImplementsFiles == [][PromiseNext]_<<content, answer>>
=============================================================================
