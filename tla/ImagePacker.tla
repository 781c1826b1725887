---------------------------- MODULE ImagePacker ----------------------------
(***************************************************************************)
(* The disk image tool of inodes/disk_image.c: -create makes an image with *)
(* one file, -insert adds a file to an image, -extract gets the files of   *)
(* an owner back and lists the blocks it takes for unused.  Each action is *)
(* one run of the program on the image file.                               *)
(*                                                                         *)
(* A block holds nothing, a block's worth of a file (a chunk), block       *)
(* numbers, or inodes.  A file is its chunks and whether the last of them  *)
(* is only partly filled.  Data read as block numbers is out of range, and *)
(* data never looks like an inode of the owner.                            *)
(***************************************************************************)
EXTENDS Integers, Sequences, FiniteSets, SequencesExt, Functions

CONSTANTS N, M,            \* blocks of the image, and of them for inodes
          Slots, Visible,  \* inodes in a block, and those is_block_empty sees
          Direct, Indirect, Ptrs,
          PackFiles,       \* the files that are put in
          Owners,          \* pairs of uid and gid
          Sparse,          \* chunks whose first 256 bytes are zero
          Garbage          \* what malloc leaves in an inode's fields

ASSUME PackerAssumption ==
  /\ {N, M, Slots, Visible, Direct, Indirect, Ptrs} \subseteq Nat \ {0}
  /\ M < N /\ Visible <= Slots
  /\ Garbage \subseteq Int /\ 0 \in Garbage

VARIABLES image,  \* the blocks, or <<>> for an empty image file
          packed, \* history: the file put at each place of an inode
          got,    \* files the last run extracted
          unused  \* its UNUSED_BLOCKS, {-1} if it was no extraction

packVars == <<image, packed, got, unused>>

NoRun == [owner |-> <<>>, files |-> <<>>]

Blocks == 0 .. N - 1
NoInode == [owner |-> <<>>]
Zero == <<"zero", 0>>
Blank == [b \in Blocks |-> Zero]
Places == (0 .. M - 1) \X (0 .. Slots - 1)

\* What read_int finds in a block. An inode starts with mode 0 and nlink 1.
Ints(img, b) ==
  CASE b \notin Blocks -> [i \in 1 .. Ptrs |-> -1]
    [] b \in Blocks /\ img[b][1] = "ints" -> img[b][2]
    [] b \in Blocks /\ img[b][1] = "inodes" ->
         [i \in 1 .. Ptrs |-> IF i = 2 /\ img[b][2][0] # NoInode THEN 1 ELSE 0]
    [] b \in Blocks /\ img[b][1] = "chunk" -> [i \in 1 .. Ptrs |-> -1]
    [] OTHER -> [i \in 1 .. Ptrs |-> 0]

InodeAt(img, place) ==
  IF img[place[1]][1] = "inodes" THEN img[place[1]][2][place[2]] ELSE NoInode

----------------------------------------------------------------------------
\* Putting a file in: s is the image, the bitmap, the chunks still to be
\* placed, the block number the last call returned, and whether it gave up.
FreeBlocks(s) == {b \in M .. N - 1 : b \notin s.used}

GetFreeBlock(s) ==
  IF s.failed \/ FreeBlocks(s) = {} THEN [s EXCEPT !.failed = TRUE]
  ELSE LET b == CHOOSE x \in FreeBlocks(s) : \A y \in FreeBlocks(s) : x <= y
       IN [s EXCEPT !.used = @ \cup {b}, !.last = b]

PlaceData(s) ==
  LET a == GetFreeBlock(s)
  IN IF a.failed THEN a
     ELSE [a EXCEPT !.img[a.last] = <<"chunk", Head(s.left)>>, !.left = Tail(@)]

\* place_indirect_block and, over it, the doubly and triply indirect ones:
\* entry i of block b gets what has been placed below it, while the file lasts.
Entered(s, placed, b, i) ==
  CASE s.failed \/ s.left = <<>> -> s
    [] OTHER ->
         IF placed.failed THEN placed
         ELSE [placed EXCEPT !.img[b] =
                 <<"ints", [Ints(placed.img, b) EXCEPT ![i] = placed.last]>>]

PlaceIndirect(s) ==
  LET a == GetFreeBlock(s)
      enter(t, i) == Entered(t, PlaceData(t), a.last, i)
  IN [FoldLeft(enter, a, [i \in 1 .. Ptrs |-> i]) EXCEPT !.last = a.last]

PlaceDoubly(s) ==
  LET a == GetFreeBlock(s)
      enter(t, i) == Entered(t, PlaceIndirect(t), a.last, i)
  IN [FoldLeft(enter, a, [i \in 1 .. Ptrs |-> i]) EXCEPT !.last = a.last]

PlaceTriply(s) ==
  LET a == GetFreeBlock(s)
      enter(t, i) == Entered(t, PlaceDoubly(t), a.last, i)
  IN [FoldLeft(enter, a, [i \in 1 .. Ptrs |-> i]) EXCEPT !.last = a.last]

\* One pointer of the inode, if the file is not placed yet.
Pointed(s, placed, field, i) ==
  IF s.failed \/ s.left = <<>> THEN s
  ELSE [placed EXCEPT !.inode[field][i] = placed.last]

PlaceFile(img, used, file, owner, junk) ==
  LET chunks == IF file.chunks = <<>> THEN <<"stack">> ELSE file.chunks
      inode == [owner |-> owner,
                whole |-> Len(file.chunks) - (IF file.tail THEN 1 ELSE 0),
                tail |-> file.tail,
                dblocks |-> [i \in 1 .. Direct |-> junk],
                iblocks |-> [i \in 1 .. Indirect |-> junk],
                deeper |-> [i \in 2 .. 3 |-> junk]]
      start == [img |-> img, used |-> used, left |-> chunks, last |-> 0,
                inode |-> inode, failed |-> FALSE]
      direct == FoldLeft(LAMBDA s, i : Pointed(s, PlaceData(s), "dblocks", i),
                         start, [i \in 1 .. Direct |-> i])
      single == FoldLeft(LAMBDA s, i : Pointed(s, PlaceIndirect(s), "iblocks", i),
                         direct, [i \in 1 .. Indirect |-> i])
      double == Pointed(single, PlaceDoubly(single), "deeper", 2)
      end == Pointed(double, PlaceTriply(double), "deeper", 3)
  IN [end EXCEPT !.failed = @ \/ end.left # <<>>]

PlaceInode(s, place) ==
  IF s.failed \/ place \notin Places \/ InodeAt(s.img, place) # NoInode
  THEN [s EXCEPT !.failed = TRUE]
  ELSE LET old == IF s.img[place[1]][1] = "inodes" THEN s.img[place[1]][2]
                  ELSE [i \in 0 .. Slots - 1 |-> NoInode]
       IN [s EXCEPT !.img[place[1]] = <<"inodes", [old EXCEPT ![place[2]] = s.inode]>>]

----------------------------------------------------------------------------
\* The blocks of the files in an image, each walk up to the first 0.
UpToZero(q) == {q[i] : i \in {j \in DOMAIN q : \A k \in DOMAIN q : k <= j => q[k] # 0}}
Stops(q) == \E i \in DOMAIN q : q[i] = 0

WalkIndirect(img, b) == {b} \cup UpToZero(Ints(img, b))
WalkDoubly(img, b) ==
  {b} \cup UNION {WalkIndirect(img, c) : c \in UpToZero(Ints(img, b))}
WalkTriply(img, b) ==
  {b} \cup UNION {WalkDoubly(img, c) : c \in UpToZero(Ints(img, b))}

PopulateShallow(img, ip) == UpToZero(ip.dblocks) \cup UpToZero(ip.iblocks)   \* mutant

Populate(img, ip) ==
  LET deeper == (IF ip.deeper[2] # 0 THEN WalkDoubly(img, ip.deeper[2]) ELSE {})
           \cup (IF ip.deeper[3] # 0 THEN WalkTriply(img, ip.deeper[3]) ELSE {})
      single == UNION {WalkIndirect(img, b) : b \in UpToZero(ip.iblocks)}
  IN UpToZero(ip.dblocks)
       \cup (IF Stops(ip.dblocks) THEN {} ELSE single)
       \cup (IF Stops(ip.dblocks) \/ Stops(ip.iblocks) THEN {} ELSE deeper)

InodesIn(img) == {p \in Places : InodeAt(img, p) # NoInode}
WalkInodesInsert(img) == UNION {Populate(img, InodeAt(img, p)) : p \in InodesIn(img)}

----------------------------------------------------------------------------
\* Getting files out. A piece is what a block holds, all of it or size % 1024
\* bytes; w is the number of whole blocks written so far.
Content(img, b) == IF b \in Blocks THEN img[b] ELSE <<"beyond", 0>>

PieceUncut(img, ip, out, b) == Append(out, <<Content(img, b), "whole">>)   \* mutant

Piece(img, ip, out, b) ==
  LET w == Cardinality({i \in DOMAIN out : out[i][2] = "whole"})
  IN CASE w < ip.whole -> Append(out, <<Content(img, b), "whole">>)
       [] w >= ip.whole /\ ip.tail -> Append(out, <<Content(img, b), "part">>)
       [] OTHER -> out

\* The test lets the block behind the last one pass.
InRange(b) == b \in 0 .. N

\* The entries before the first that is no block number.
Good(q) == SelectInSeq(q, LAMBDA b : ~InRange(b))
Entries(img, b) ==
  LET q == Ints(img, b) IN IF Good(q) = 0 THEN q ELSE SubSeq(q, 1, Good(q) - 1)

ExtractIndirect(img, ip, out, b) ==
  FoldLeft(LAMBDA o, c : Piece(img, ip, o, c), out, Entries(img, b))
ExtractDoubly(img, ip, out, b) ==
  FoldLeft(LAMBDA o, c : ExtractIndirect(img, ip, o, c), out, Entries(img, b))
ExtractTriply(img, ip, out, b) ==
  FoldLeft(LAMBDA o, c : ExtractDoubly(img, ip, o, c), out, Entries(img, b))

\* A pointer that is no block number ends the extraction of the file.
ExtractFile(img, ip) ==
  LET bad == Good(ip.dblocks)
      direct == FoldLeft(LAMBDA o, b : Piece(img, ip, o, b), <<>>,
                         IF bad = 0 THEN ip.dblocks ELSE SubSeq(ip.dblocks, 1, bad - 1))
      ibad == Good(ip.iblocks)
      single == FoldLeft(LAMBDA o, b : ExtractIndirect(img, ip, o, b), direct,
                         IF ibad = 0 THEN ip.iblocks ELSE SubSeq(ip.iblocks, 1, ibad - 1))
      double == IF InRange(ip.deeper[2]) THEN ExtractDoubly(img, ip, single, ip.deeper[2])
                ELSE single
  IN CASE bad # 0 -> direct
       [] bad = 0 /\ ibad # 0 -> single
       [] OTHER -> IF InRange(ip.deeper[3])
                   THEN ExtractTriply(img, ip, double, ip.deeper[3]) ELSE double

\* Mutant: the inodes of a block that holds them are not looked at.
LooksEmptyAlways(c) == c[1] \notin {"inodes", "ints"}

\* is_block_empty looks at the first 256 of the 1024 bytes.
LooksEmpty(c) ==
  \/ c[1] = "zero"
  \/ c[1] = "chunk" /\ c[2] \in Sparse
  \/ c[1] = "inodes" /\ \A i \in 0 .. Visible - 1 : c[2][i] = NoInode

----------------------------------------------------------------------------
PackInit == image = <<>> /\ packed = <<>> /\ got = NoRun /\ unused = {-1}

\* The image file is opened, and so emptied, before anything can fail.
Create(file, owner, place) ==
  LET s == PlaceInode(PlaceFile(Blank, {}, file, owner, 0), place)
  IN /\ IF s.failed THEN image' = <<>> /\ packed' = <<>>
        ELSE image' = s.img /\ packed' = [p \in {place} |-> file]
     /\ got' = NoRun /\ unused' = {-1}

\* An empty image reads as zeros. The inode comes from malloc after a file
\* has been closed, and its memory may hold what that left.
Insert(file, owner, place) ==
  LET img == IF image = <<>> THEN Blank ELSE image
      used == WalkInodesInsert(img)
  IN \E junk \in Garbage :
       LET s == PlaceInode(PlaceFile(img, used, file, owner, junk), place)
       IN /\ IF s.failed THEN UNCHANGED <<image, packed>>
             ELSE image' = s.img /\ packed' = [p \in {place} |-> file] @@ packed
          /\ got' = NoRun /\ unused' = {-1}

\* Every block that does not look empty is searched for the owner's inodes;
\* the files are numbered as they are found.
Extract(owner) ==
  LET img == image
      empty == {b \in DOMAIN img : LooksEmpty(img[b])}
      found == {p \in (IF image = <<>> THEN {} ELSE InodesIn(img)) :
                  p[1] \notin empty /\ InodeAt(img, p).owner = owner}
      before(p) == {q \in found : q[1] * Slots + q[2] < p[1] * Slots + p[2]}
      nth(k) == CHOOSE p \in found : Cardinality(before(p)) = k - 1
      file(p) == [place |-> p, out |-> ExtractFile(img, InodeAt(img, p))]
  IN /\ got' = [owner |-> owner, files |-> [k \in 1 .. Cardinality(found) |-> file(nth(k))]]
     /\ unused' = empty
     /\ UNCHANGED <<image, packed>>

PackNext ==
  \/ \E f \in PackFiles, o \in Owners, p \in Places \cup {<<M, 0>>, <<0, Slots>>} :
       Create(f, o, p) \/ Insert(f, o, p)
  \/ \E o \in Owners : Extract(o)

PackSpec == PackInit /\ [][PackNext]_packVars

----------------------------------------------------------------------------
\* The layout an inode has by its size: the number of its block for chunk n,
\* and all blocks it needs, by arithmetic rather than by walking.
Through(img, b, n) == Ints(img, b)[n + 1]
DataBlock(img, ip, n) ==
  LET i == n - Direct
      d == i - Indirect * Ptrs
      t == d - Ptrs * Ptrs
  IN CASE n < Direct -> ip.dblocks[n + 1]
       [] n >= Direct /\ d < 0 -> Through(img, ip.iblocks[i \div Ptrs + 1], i % Ptrs)
       [] d >= 0 /\ t < 0 ->
            Through(img, Through(img, ip.deeper[2], d \div Ptrs), d % Ptrs)
       [] OTHER ->
            Through(img, Through(img, Through(img, ip.deeper[3], t \div (Ptrs * Ptrs)),
                                 (t \div Ptrs) % Ptrs), t % Ptrs)

(* Every file that was put into the image and not destroyed by a -create is *)
(* in it, chunk by chunk, at every depth of indirection: an insert takes no *)
(* block another file uses, whatever malloc left in the unused pointers of  *)
(* inodes before (disk_image.c:10, 208-269, 435-647).                       *)
PackerKeepsFiles ==
  \A p \in DOMAIN packed :
    LET ip == InodeAt(image, p)
    IN /\ ip # NoInode
       /\ \A n \in DOMAIN packed[p].chunks :
            LET b == DataBlock(image, ip, n - 1)
            IN b \in M .. N - 1 /\ image[b] = <<"chunk", packed[p].chunks[n]>>

(* An extraction finds each of the owner's files that the first quarter of  *)
(* its block shows, in the order of their places, and what it writes begins *)
(* with the file; it ends there too when the file fills its last block      *)
(* (otherwise more of whatever blocks the zero pointers name follows,       *)
(* disk_image.c:292-332).                                                   *)
PackerGivesBack ==
  LET seen(p) == \E q \in InodesIn(image) : q[1] = p[1] /\ q[2] < Visible
      mine == {p \in DOMAIN packed : InodeAt(image, p).owner = got.owner /\ seen(p)}
      rank(p) == p[1] * Slots + p[2]
  IN got # NoRun =>
       /\ {got.files[k].place : k \in DOMAIN got.files} = mine
       /\ \A k \in DOMAIN got.files :
            LET place == got.files[k].place
                out == got.files[k].out
                file == packed[place]
                size == Len(file.chunks)
            IN /\ k > 1 => rank(got.files[k - 1].place) < rank(place)
               /\ Len(out) >= size
               /\ \A n \in 1 .. size :
                    out[n] = <<<<"chunk", file.chunks[n]>>,
                               IF n = size /\ file.tail THEN "part" ELSE "whole">>
               /\ ~file.tail => Len(out) = size

(* The blocks listed as unused after an extraction are free ones, but for   *)
(* those in use whose first quarter is zero, and every block that neither   *)
(* holds a chunk nor leads to one nor has inodes is listed                  *)
(* (disk_image.c:336-372).                                                  *)
PackerListsUnused ==
  unused # {-1} /\ image # <<>> =>
    LET used == {b \in Blocks : image[b] # Zero}
    IN /\ Blocks \ used \subseteq unused
       /\ \A b \in unused \cap used :
            IF b < M THEN \A p \in InodesIn(image) : p[1] = b => p[2] >= Visible
            ELSE image[b][1] = "chunk" /\ image[b][2] \in Sparse

(* The image holds what was put into it, extraction gives it back, and      *)
(* what is listed as unused is so (disk_image.c:208-372, 435-647).          *)
PackerTrue == PackerKeepsFiles /\ PackerGivesBack /\ PackerListsUnused
=============================================================================
