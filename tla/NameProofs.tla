---------------------------- MODULE NameProofs -----------------------------
(***************************************************************************)
(* Proofs about InodeCache for any set of processes, names, inodes and     *)
(* table entries: the counts are true, the table agrees with the disk and  *)
(* what is in use stays allocated; and about FileContent for any sizes of  *)
(* blocks, inodes and disk: no block has two names and none is lost, and a *)
(* file is the bytes written to it.  They share no state.                  *)
(***************************************************************************)
EXTENDS InodeCache, FileContent, FiniteSetTheorems, WellFoundedInduction, TLAPS

Labels == {"idle", "open", "ialloc", "init", "enter", "created", "unlink", "unlinked",
           "link", "enterlink", "linkbad", "put", "freed", "drop"}
CacheEntries == [inum : Inums \cup {None}, ref : Nat, valid : BOOLEAN, nlink : Int,
                 lock : Procs \cup {None}]

InodeTypes ==
  /\ dir \in [Names -> Inums \cup {None}] /\ dirlock \in Procs \cup {None}
  /\ type \in [Inums -> {"none", "file"}] /\ nlink \in [Inums -> Int]
  /\ cache \in [Slots -> CacheEntries]
  /\ file \in [Procs -> Slots \cup {None}] /\ ip \in [Procs -> Slots \cup {None}]
  /\ kept \in [Procs -> Slots \cup {None}]
  /\ at \in [Procs -> Labels] /\ name \in [Procs -> Names \cup {None}]

(* What a process has, by where it is.                                     *)
Placed(p) ==
  /\ ip[p] = None <=> at[p] \in {"idle", "ialloc"}
  /\ name[p] = None <=> at[p] \notin {"ialloc", "init", "enter", "unlink", "link", "enterlink"}
  /\ kept[p] # None => at[p] \in {"put", "freed", "drop"}
  /\ at[p] \in {"open", "ialloc", "init", "enter", "created"} => file[p] = None

(* The directory's lock, and what its holder knows of the name.            *)
DirLocked(p) ==
  /\ dirlock = p <=> at[p] \in {"ialloc", "init", "enter", "unlink"} \/ kept[p] # None
  /\ at[p] \in {"ialloc", "init", "enter"} => dir[name[p]] = None
  /\ at[p] = "unlink" => dir[name[p]] = Inum(p)

(* The references to an entry, counted.                                    *)
FileOf(s) == {p \in Procs : file[p] = s}
IpOf(s) == {p \in Procs : ip[p] = s}
KeptOf(s) == {p \in Procs : kept[p] = s}
Refs(s) == Cardinality(FileOf(s)) + Cardinality(IpOf(s)) + Cardinality(KeptOf(s))
Referred(s) ==
  /\ cache[s].ref = Refs(s)
  /\ cache[s].ref = 0 => cache[s].inum = None /\ ~cache[s].valid /\ cache[s].lock = None
  /\ cache[s].ref # 0 => cache[s].inum \in Inums
Unique == \A s, t \in Slots : cache[s].inum \in Inums /\ cache[s].inum = cache[t].inum => s = t

(* An entry's lock, and what it says when it has been read.                *)
Holding == {"enter", "created", "unlinked", "freed"}
Locked(s) == \A p \in Procs : cache[s].lock = p <=> ip[p] = s /\ at[p] \in Holding
Agrees(s) ==
  cache[s].valid =>
    /\ nlink[cache[s].inum] = cache[s].nlink
    /\ type[cache[s].inum] = "file" \/ \E p \in Procs : ip[p] = s /\ at[p] = "freed"

(* Links that are counted and not named yet, or named no more and still    *)
(* counted.                                                                *)
Ahead(p) ==
  IF at[p] \in {"enterlink", "linkbad", "enter", "unlinked"} THEN Inum(p)
  ELSE IF kept[p] # None THEN cache[kept[p]].inum ELSE None
NamesOf(i) == {n \in Names : dir[n] = i}
AheadOf(i) == {p \in Procs : Ahead(p) = i}
Links(i) == Cardinality(NamesOf(i)) + Cardinality(AheadOf(i))
Linked(i) == nlink[i] = Links(i)

(* What is in use is allocated.                                            *)
Used(p) ==
  /\ at[p] \notin {"idle", "ialloc", "freed", "drop"} => type[Inum(p)] = "file"
  /\ file[p] # None => type[cache[file[p]].inum] = "file"
  /\ kept[p] # None => type[cache[kept[p]].inum] = "file"
  /\ at[p] \in {"enter", "created", "unlinked"} => cache[ip[p]].valid
NamesUsed == \A n \in Names : dir[n] # None => type[dir[n]] = "file"

(* Nobody but those who are giving it up has an inode that is being made.  *)
New(p) ==
  at[p] = "init" =>
    /\ nlink[Inum(p)] = 0
    /\ \A q \in Procs \ {p} :
         /\ ip[q] = ip[p] => at[q] \in {"freed", "drop"}
         /\ file[q] # ip[p] /\ kept[q] # ip[p]

TableInv ==
  /\ InodeTypes /\ Unique /\ NamesUsed
  /\ \A p \in Procs : Placed(p) /\ DirLocked(p) /\ Used(p) /\ New(p)
  /\ \A s \in Slots : Referred(s) /\ Locked(s) /\ Agrees(s)
  /\ \A i \in Inums : Linked(i)

-----------------------------------------------------------------------------
(* Sets that differ in one element at most.                                *)
One(b) == IF b THEN 1 ELSE 0

LEMMA CountIs ==
  ASSUME NEW S, IsFiniteSet(S), NEW A \in SUBSET S
  PROVE  /\ IsFiniteSet(A) /\ Cardinality(A) \in Nat
         /\ Cardinality(A) = 0 <=> A = {}
<1>1. IsFiniteSet(A)
  BY FS_Subset
<1> QED BY <1>1, FS_CardinalityType, FS_EmptySet

LEMMA CountMoves ==
  ASSUME NEW S, IsFiniteSet(S), NEW A \in SUBSET S, NEW B \in SUBSET S, NEW p,
         \A q \in S : q # p => (q \in A <=> q \in B)
  PROVE  Cardinality(B) = Cardinality(A) + One(p \in B) - One(p \in A)
<1>1. IsFiniteSet(A) /\ IsFiniteSet(B) /\ Cardinality(A) \in Nat /\ Cardinality(B) \in Nat
  BY CountIs
<1>2. CASE p \in A /\ p \notin B
  <2>1. A = B \cup {p}
    BY <1>2
  <2>2. Cardinality(A) = Cardinality(B) + 1
    BY <1>1, <1>2, <2>1, FS_AddElement
  <2> QED BY <1>1, <1>2, <2>2 DEF One
<1>3. CASE p \in B /\ p \notin A
  <2>1. B = A \cup {p}
    BY <1>3
  <2>2. Cardinality(B) = Cardinality(A) + 1
    BY <1>1, <1>3, <2>1, FS_AddElement
  <2> QED BY <1>1, <1>3, <2>2 DEF One
<1>4. CASE p \in A <=> p \in B
  <2>1. A = B
    BY <1>4
  <2> QED BY <1>1, <1>4, <2>1 DEF One
<1> QED BY <1>2, <1>3, <1>4

LEMMA CountsOne ==
  ASSUME NEW S, IsFiniteSet(S), NEW A \in SUBSET S, NEW p \in A
  PROVE  /\ Cardinality(A) \in Nat \ {0}
         /\ Cardinality(A) = 1 => A = {p}
<1>1. IsFiniteSet(A) /\ Cardinality(A) \in Nat
  BY CountIs
<1>2. Cardinality(A \ {p}) \in Nat /\ (Cardinality(A \ {p}) = 0 <=> A \ {p} = {})
  BY CountIs
<1>3. Cardinality(A \ {p}) = Cardinality(A) + One(p \in A \ {p}) - One(p \in A)
  BY CountMoves
<1>4. Cardinality(A) = Cardinality(A \ {p}) + 1
  BY <1>1, <1>2, <1>3 DEF One
<1> QED BY <1>1, <1>2, <1>4

(* The first of a set of numbers is one of them.                           *)
LEMMA FirstIsThere ==
  ASSUME NEW S \in SUBSET Nat, S # {}
  PROVE  \E x \in S : \A y \in S : x <= y
<1> DEFINE less == {ss \in Nat \X Nat : ss[1] < ss[2]}
<1>1. IsWellFoundedOn(less, Nat)
  BY NatLessThanWellFounded DEF OpToRel
<1>2. PICK x \in S : \A y \in S : ~(<<y, x>> \in less)
  BY <1>1, WFMin
<1>3. ASSUME NEW y \in S PROVE x <= y
  <2>1. y \in Nat /\ x \in Nat /\ ~(<<y, x>> \in less)
    BY <1>2
  <2>2. y < x => <<y, x>> \in less
    BY <2>1
  <2> QED BY <2>1, <2>2
<1> QED BY <1>3

-----------------------------------------------------------------------------
LEMMA EntryTypes ==
  ASSUME InodeTypes, NEW s \in Slots
  PROVE  /\ cache[s].inum \in Inums \cup {None} /\ cache[s].ref \in Nat
         /\ cache[s].valid \in BOOLEAN /\ cache[s].nlink \in Int
         /\ cache[s].lock \in Procs \cup {None}
BY DEF InodeTypes, CacheEntries

LEMMA NoneIsNot ==
  /\ None \notin Procs /\ None \notin Names /\ None \notin Inums /\ None \notin Slots
  /\ IsFiniteSet(Procs) /\ IsFiniteSet(Names)
BY InodeAssumption

LEMMA RefsAre ==
  ASSUME NEW s
  PROVE  /\ FileOf(s) \in SUBSET Procs /\ IpOf(s) \in SUBSET Procs /\ KeptOf(s) \in SUBSET Procs
         /\ Cardinality(FileOf(s)) \in Nat /\ Cardinality(IpOf(s)) \in Nat
         /\ Cardinality(KeptOf(s)) \in Nat /\ Refs(s) \in Nat
<1>1. FileOf(s) \in SUBSET Procs /\ IpOf(s) \in SUBSET Procs /\ KeptOf(s) \in SUBSET Procs
  BY DEF FileOf, IpOf, KeptOf
<1>2. /\ Cardinality(FileOf(s)) \in Nat /\ Cardinality(IpOf(s)) \in Nat
      /\ Cardinality(KeptOf(s)) \in Nat
  BY <1>1, NoneIsNot, CountIs
<1> QED BY <1>1, <1>2 DEF Refs

(* An entry somebody refers to is counted; the only one who does is alone. *)
Refers(q, s) == file[q] = s \/ ip[q] = s \/ kept[q] = s

LEMMA ReferredTo ==
  ASSUME TableInv, NEW p \in Procs, NEW s \in Slots, Refers(p, s)
  PROVE  cache[s].ref \in Nat \ {0} /\ cache[s].inum \in Inums
<1>1. cache[s].ref \in Nat /\ cache[s].ref = Refs(s) /\ (cache[s].ref # 0 => cache[s].inum \in Inums)
  BY EntryTypes DEF TableInv, Referred
<1>2. CASE file[p] = s
  <2>1. p \in FileOf(s)
    BY <1>2 DEF FileOf
  <2>2. Cardinality(FileOf(s)) \in Nat \ {0}
    BY <2>1, RefsAre, NoneIsNot, CountsOne
  <2>3. Refs(s) # 0
    BY <2>2, RefsAre DEF Refs
  <2> QED BY <1>1, <2>3
<1>3. CASE ip[p] = s
  <2>1. p \in IpOf(s)
    BY <1>3 DEF IpOf
  <2>2. Cardinality(IpOf(s)) \in Nat \ {0}
    BY <2>1, RefsAre, NoneIsNot, CountsOne
  <2>3. Refs(s) # 0
    BY <2>2, RefsAre DEF Refs
  <2> QED BY <1>1, <2>3
<1>4. CASE kept[p] = s
  <2>1. p \in KeptOf(s)
    BY <1>4 DEF KeptOf
  <2>2. Cardinality(KeptOf(s)) \in Nat \ {0}
    BY <2>1, RefsAre, NoneIsNot, CountsOne
  <2>3. Refs(s) # 0
    BY <2>2, RefsAre DEF Refs
  <2> QED BY <1>1, <2>3
<1> QED BY <1>2, <1>3, <1>4 DEF Refers

LEMMA OnlyOne ==
  ASSUME TableInv, NEW p \in Procs, NEW s \in Slots, ip[p] = s, cache[s].ref = 1,
         NEW q \in Procs
  PROVE  file[q] # s /\ kept[q] # s /\ (q # p => ip[q] # s)
<1>1. Refs(s) = 1
  BY DEF TableInv, Referred
<1>2. p \in IpOf(s)
  BY DEF IpOf
<1>3. Cardinality(IpOf(s)) \in Nat \ {0} /\ (Cardinality(IpOf(s)) = 1 => IpOf(s) = {p})
  BY <1>2, RefsAre, NoneIsNot, CountsOne
<1>4. Cardinality(IpOf(s)) = 1 /\ Cardinality(FileOf(s)) = 0 /\ Cardinality(KeptOf(s)) = 0
  BY <1>1, <1>3, RefsAre DEF Refs
<1>5. IpOf(s) = {p} /\ FileOf(s) = {} /\ KeptOf(s) = {}
  BY <1>3, <1>4, RefsAre, NoneIsNot, CountIs
<1> QED BY <1>5 DEF IpOf, FileOf, KeptOf

LEMMA LinksAre ==
  ASSUME NEW i
  PROVE  /\ NamesOf(i) \in SUBSET Names /\ AheadOf(i) \in SUBSET Procs
         /\ Cardinality(NamesOf(i)) \in Nat /\ Cardinality(AheadOf(i)) \in Nat
         /\ Links(i) \in Nat
<1>1. NamesOf(i) \in SUBSET Names /\ AheadOf(i) \in SUBSET Procs
  BY DEF NamesOf, AheadOf
<1>2. Cardinality(NamesOf(i)) \in Nat /\ Cardinality(AheadOf(i)) \in Nat
  BY <1>1, NoneIsNot, CountIs
<1> QED BY <1>1, <1>2 DEF Links

(* A name or a call that is ahead is a link; an inode without links has    *)
(* neither.                                                                *)
LEMMA NamedLinks ==
  ASSUME TableInv, NEW i \in Inums
  PROVE  /\ nlink[i] \in Nat
         /\ \A n \in Names : dir[n] = i => nlink[i] >= 1
         /\ \A q \in Procs : Ahead(q) = i => nlink[i] >= 1
         /\ (\A n \in Names : dir[n] # i) /\ (\A q \in Procs : Ahead(q) # i) => nlink[i] = 0
<1>1. nlink[i] = Links(i)
  BY DEF TableInv, Linked
<1>2. ASSUME NEW n \in Names, dir[n] = i PROVE nlink[i] >= 1
  <2>1. n \in NamesOf(i)
    BY <1>2 DEF NamesOf
  <2>2. Cardinality(NamesOf(i)) \in Nat \ {0}
    BY <2>1, LinksAre, NoneIsNot, CountsOne
  <2> QED BY <1>1, <2>2, LinksAre DEF Links
<1>3. ASSUME NEW q \in Procs, Ahead(q) = i PROVE nlink[i] >= 1
  <2>1. q \in AheadOf(i)
    BY <1>3 DEF AheadOf
  <2>2. Cardinality(AheadOf(i)) \in Nat \ {0}
    BY <2>1, LinksAre, NoneIsNot, CountsOne
  <2> QED BY <1>1, <2>2, LinksAre DEF Links
<1>4. ASSUME \A n \in Names : dir[n] # i, \A q \in Procs : Ahead(q) # i PROVE nlink[i] = 0
  <2>1. NamesOf(i) = {} /\ AheadOf(i) = {}
    BY <1>4 DEF NamesOf, AheadOf
  <2> QED BY <1>1, <2>1, FS_EmptySet DEF Links
<1>5. nlink[i] \in Nat
  BY <1>1, LinksAre
<1> QED BY <1>2, <1>3, <1>4, <1>5

-----------------------------------------------------------------------------
(* A step of p leaves the other processes where they are, what they refer  *)
(* to, the locks they hold and, while they have the directory locked, the  *)
(* directory.                                                              *)
Held(p, s) == One(file[p] = s) + One(ip[p] = s) + One(kept[p] = s)

Rest(p) ==
  \A q \in Procs : q # p =>
    file'[q] = file[q] /\ ip'[q] = ip[q] /\ kept'[q] = kept[q] /\ at'[q] = at[q] /\ name'[q] = name[q]
Counted(p) ==
  \A s \in Slots :
    /\ cache'[s].ref = cache[s].ref + Held(p, s)' - Held(p, s)
    /\ cache'[s].ref = 0 => cache'[s].inum = None /\ ~cache'[s].valid /\ cache'[s].lock = None
    /\ cache'[s].ref # 0 => cache'[s].inum \in Inums
InumsStay(p) ==
  \A q \in Procs : \A s \in Slots : q # p /\ Refers(q, s) =>
    /\ cache'[s].inum = cache[s].inum
    /\ type[cache[s].inum] = "file" => type'[cache[s].inum] = "file"
LocksStay(p) ==
  \A s \in Slots :
    /\ cache'[s].lock = p <=> ip'[p] = s /\ at'[p] \in Holding
    /\ \A q \in Procs : q # p =>
         /\ cache'[s].lock = q <=> cache[s].lock = q
         /\ cache[s].lock = q => cache'[s].valid = cache[s].valid
DirStays(p) ==
  \A q \in Procs : q # p =>
    /\ dirlock' = q <=> dirlock = q
    /\ dirlock = q => dir' = dir
Step(p) == Rest(p) /\ Counted(p) /\ InumsStay(p) /\ LocksStay(p) /\ DirStays(p)

Others(p) ==
  /\ \A s \in Slots : Referred(s)' /\ Locked(s)'
  /\ \A q \in Procs : q # p => Placed(q)' /\ DirLocked(q)' /\ Used(q)' /\ Ahead(q)' = Ahead(q)

LEMMA RefsMoved ==
  ASSUME NEW p \in Procs, Rest(p), NEW s
  PROVE  Refs(s)' = Refs(s) + Held(p, s)' - Held(p, s)
<1>1. Cardinality(FileOf(s)') = Cardinality(FileOf(s)) + One(file'[p] = s) - One(file[p] = s)
  <2> DEFINE A == FileOf(s)
             B == FileOf(s)'
  <2>1. A \in SUBSET Procs /\ B \in SUBSET Procs /\ \A q \in Procs : q # p => (q \in A <=> q \in B)
    BY DEF FileOf, Rest
  <2>2. Cardinality(B) = Cardinality(A) + One(p \in B) - One(p \in A)
    <3> HIDE DEF A, B
    <3> QED BY <2>1, NoneIsNot, CountMoves
  <2>3. (p \in A <=> file[p] = s) /\ (p \in B <=> file'[p] = s)
    BY DEF FileOf
  <2>4. One(p \in A) = One(file[p] = s) /\ One(p \in B) = One(file'[p] = s)
    <3> HIDE DEF A, B
    <3> QED BY <2>3 DEF One
  <2> QED BY <2>2, <2>4
<1>2. Cardinality(IpOf(s)') = Cardinality(IpOf(s)) + One(ip'[p] = s) - One(ip[p] = s)
  <2> DEFINE A == IpOf(s)
             B == IpOf(s)'
  <2>1. A \in SUBSET Procs /\ B \in SUBSET Procs /\ \A q \in Procs : q # p => (q \in A <=> q \in B)
    BY DEF IpOf, Rest
  <2>2. Cardinality(B) = Cardinality(A) + One(p \in B) - One(p \in A)
    <3> HIDE DEF A, B
    <3> QED BY <2>1, NoneIsNot, CountMoves
  <2>3. (p \in A <=> ip[p] = s) /\ (p \in B <=> ip'[p] = s)
    BY DEF IpOf
  <2>4. One(p \in A) = One(ip[p] = s) /\ One(p \in B) = One(ip'[p] = s)
    <3> HIDE DEF A, B
    <3> QED BY <2>3 DEF One
  <2> QED BY <2>2, <2>4
<1>3. Cardinality(KeptOf(s)') = Cardinality(KeptOf(s)) + One(kept'[p] = s) - One(kept[p] = s)
  <2> DEFINE A == KeptOf(s)
             B == KeptOf(s)'
  <2>1. A \in SUBSET Procs /\ B \in SUBSET Procs /\ \A q \in Procs : q # p => (q \in A <=> q \in B)
    BY DEF KeptOf, Rest
  <2>2. Cardinality(B) = Cardinality(A) + One(p \in B) - One(p \in A)
    <3> HIDE DEF A, B
    <3> QED BY <2>1, NoneIsNot, CountMoves
  <2>3. (p \in A <=> kept[p] = s) /\ (p \in B <=> kept'[p] = s)
    BY DEF KeptOf
  <2>4. One(p \in A) = One(kept[p] = s) /\ One(p \in B) = One(kept'[p] = s)
    <3> HIDE DEF A, B
    <3> QED BY <2>3 DEF One
  <2> QED BY <2>2, <2>4
<1>4. /\ One(file[p] = s) \in Nat /\ One(file'[p] = s) \in Nat /\ One(ip[p] = s) \in Nat
      /\ One(ip'[p] = s) \in Nat /\ One(kept[p] = s) \in Nat /\ One(kept'[p] = s) \in Nat
  BY DEF One
<1>5. /\ Cardinality(FileOf(s)) \in Nat /\ Cardinality(IpOf(s)) \in Nat
      /\ Cardinality(KeptOf(s)) \in Nat
  BY RefsAre
<1>6. /\ Refs(s) = Cardinality(FileOf(s)) + Cardinality(IpOf(s)) + Cardinality(KeptOf(s))
      /\ Refs(s)' = Cardinality(FileOf(s)') + Cardinality(IpOf(s)') + Cardinality(KeptOf(s)')
  BY DEF Refs
<1>7. /\ Held(p, s) = One(file[p] = s) + One(ip[p] = s) + One(kept[p] = s)
      /\ Held(p, s)' = One(file'[p] = s) + One(ip'[p] = s) + One(kept'[p] = s)
  BY DEF Held
<1> QED BY <1>1, <1>2, <1>3, <1>4, <1>5, <1>6, <1>7

LEMMA AheadMoved ==
  ASSUME NEW p \in Procs, \A q \in Procs : q # p => Ahead(q)' = Ahead(q), NEW i
  PROVE  Cardinality(AheadOf(i)') = Cardinality(AheadOf(i)) + One(Ahead(p)' = i) - One(Ahead(p) = i)
<1> DEFINE A == AheadOf(i)
           B == AheadOf(i)'
<1>1. A \in SUBSET Procs /\ B \in SUBSET Procs /\ \A q \in Procs : q # p => (q \in A <=> q \in B)
  BY DEF AheadOf
<1>2. Cardinality(B) = Cardinality(A) + One(p \in B) - One(p \in A)
  <2> HIDE DEF A, B
  <2> QED BY <1>1, NoneIsNot, CountMoves
<1>3. (p \in A <=> Ahead(p) = i) /\ (p \in B <=> Ahead(p)' = i)
  BY DEF AheadOf
<1>4. One(p \in A) = One(Ahead(p) = i) /\ One(p \in B) = One(Ahead(p)' = i)
  <2> HIDE DEF A, B
  <2> QED BY <1>3 DEF One
<1> QED BY <1>2, <1>4

(* The links of a step that leaves the directory alone, and of one that    *)
(* changes one name.                                                       *)
LEMMA LinksMoved ==
  ASSUME NEW p \in Procs, Others(p), UNCHANGED dir, NEW i
  PROVE  Links(i)' = Links(i) + One(Ahead(p)' = i) - One(Ahead(p) = i)
<1>1. Cardinality(AheadOf(i)') = Cardinality(AheadOf(i)) + One(Ahead(p)' = i) - One(Ahead(p) = i)
  BY AheadMoved DEF Others
<1>2. NamesOf(i)' = NamesOf(i)
  BY DEF NamesOf
<1>3. One(Ahead(p)' = i) \in Nat /\ One(Ahead(p) = i) \in Nat
  BY DEF One
<1> QED BY <1>1, <1>2, <1>3, LinksAre DEF Links

LEMMA LinksNamed ==
  ASSUME NEW p \in Procs, Others(p), NEW n \in Names, NEW i,
         \A m \in Names : m # n => dir'[m] = dir[m]
  PROVE  Links(i)' = Links(i) + One(Ahead(p)' = i) - One(Ahead(p) = i)
                       + One(dir'[n] = i) - One(dir[n] = i)
<1>1. Cardinality(AheadOf(i)') = Cardinality(AheadOf(i)) + One(Ahead(p)' = i) - One(Ahead(p) = i)
  BY AheadMoved DEF Others
<1>2. Cardinality(NamesOf(i)') = Cardinality(NamesOf(i)) + One(dir'[n] = i) - One(dir[n] = i)
  <2> DEFINE A == NamesOf(i)
             B == NamesOf(i)'
  <2>1. A \in SUBSET Names /\ B \in SUBSET Names /\ \A m \in Names : m # n => (m \in A <=> m \in B)
    BY DEF NamesOf
  <2>2. Cardinality(B) = Cardinality(A) + One(n \in B) - One(n \in A)
    <3> HIDE DEF A, B
    <3> QED BY <2>1, NoneIsNot, CountMoves
  <2>3. (n \in A <=> dir[n] = i) /\ (n \in B <=> dir'[n] = i)
    BY DEF NamesOf
  <2>4. One(n \in A) = One(dir[n] = i) /\ One(n \in B) = One(dir'[n] = i)
    <3> HIDE DEF A, B
    <3> QED BY <2>3 DEF One
  <2> QED BY <2>2, <2>4
<1>3. /\ One(Ahead(p)' = i) \in Nat /\ One(Ahead(p) = i) \in Nat
      /\ One(dir'[n] = i) \in Nat /\ One(dir[n] = i) \in Nat
  BY DEF One
<1> QED BY <1>1, <1>2, <1>3, LinksAre DEF Links

LEMMA OthersKeep ==
  ASSUME TableInv, InodeTypes', NEW p \in Procs, Step(p)
  PROVE  Others(p)
<1>1. ASSUME NEW s \in Slots PROVE Referred(s)'
  <2>1. Refs(s)' = Refs(s) + Held(p, s)' - Held(p, s)
    BY RefsMoved DEF Step
  <2>2. cache[s].ref = Refs(s)
    BY DEF TableInv, Referred
  <2> QED BY <2>1, <2>2 DEF Referred, Step, Counted
<1>2. ASSUME NEW s \in Slots PROVE Locked(s)'
  <2>1. \A q \in Procs : q # p => (cache[s].lock = q <=> ip[q] = s /\ at[q] \in Holding)
    BY DEF TableInv, Locked
  <2> QED BY <2>1 DEF Step, LocksStay, Rest, Locked
<1>3. ASSUME NEW q \in Procs, q # p
      PROVE  Placed(q)' /\ DirLocked(q)' /\ Used(q)' /\ Ahead(q)' = Ahead(q)
  <2>1. /\ file'[q] = file[q] /\ ip'[q] = ip[q] /\ kept'[q] = kept[q]
        /\ at'[q] = at[q] /\ name'[q] = name[q]
    BY <1>3 DEF Step, Rest
  <2>2. Placed(q) /\ DirLocked(q) /\ Used(q)
    BY DEF TableInv
  <2>3. ASSUME NEW s \in Slots, Refers(q, s)
        PROVE  /\ cache'[s].inum = cache[s].inum
               /\ type[cache[s].inum] = "file" => type'[cache[s].inum] = "file"
    BY <1>3, <2>3 DEF Step, InumsStay
  <2>4. /\ ip[q] \in Slots \cup {None} /\ file[q] \in Slots \cup {None}
        /\ kept[q] \in Slots \cup {None} /\ at[q] \in Labels
    BY DEF TableInv, InodeTypes
  <2>5. /\ ip[q] # None => ip[q] \in Slots /\ Refers(q, ip[q])
        /\ file[q] # None => file[q] \in Slots /\ Refers(q, file[q])
        /\ kept[q] # None => kept[q] \in Slots /\ Refers(q, kept[q])
    BY <2>4 DEF Refers
  <2>6. /\ ip[q] # None => /\ Inum(q)' = Inum(q)
                           /\ type[Inum(q)] = "file" => type'[Inum(q)] = "file"
        /\ file[q] # None => /\ cache'[file[q]].inum = cache[file[q]].inum
                             /\ type[cache[file[q]].inum] = "file" => type'[cache[file[q]].inum] = "file"
        /\ kept[q] # None => /\ cache'[kept[q]].inum = cache[kept[q]].inum
                             /\ type[cache[kept[q]].inum] = "file" => type'[cache[kept[q]].inum] = "file"
    BY <2>1, <2>3, <2>5 DEF Inum
  <2>7. Placed(q)'
    BY <2>1, <2>2 DEF Placed
  <2>8. at[q] \notin {"idle", "ialloc"} => ip[q] # None
    BY <2>2 DEF Placed
  <2>9. DirLocked(q)'
    <3>1. (dirlock' = q <=> dirlock = q) /\ (dirlock = q => dir' = dir)
      BY <1>3 DEF Step, DirStays
    <3>2. dirlock' = q <=> (at'[q] \in {"ialloc", "init", "enter", "unlink"} \/ kept'[q] # None)
      BY <2>1, <2>2, <3>1 DEF DirLocked
    <3>3. at'[q] \in {"ialloc", "init", "enter"} => dir'[name'[q]] = None
      BY <2>1, <2>2, <3>1 DEF DirLocked
    <3>4. at'[q] = "unlink" => dir'[name'[q]] = Inum(q)'
      BY <2>1, <2>2, <2>6, <2>8, <3>1 DEF DirLocked
    <3> QED BY <3>2, <3>3, <3>4 DEF DirLocked
  <2>10. Used(q)'
    <3>1. at'[q] \notin {"idle", "ialloc", "freed", "drop"} => type'[Inum(q)'] = "file"
      BY <2>1, <2>2, <2>6, <2>8 DEF Used
    <3>2. file'[q] # None => type'[cache'[file'[q]].inum] = "file"
      BY <2>1, <2>2, <2>6 DEF Used
    <3>3. kept'[q] # None => type'[cache'[kept'[q]].inum] = "file"
      BY <2>1, <2>2, <2>6 DEF Used
    <3>4. at'[q] \in {"enter", "created", "unlinked"} => cache'[ip'[q]].valid
      <4> SUFFICES ASSUME at[q] \in {"enter", "created", "unlinked"} PROVE cache'[ip[q]].valid
        BY <2>1
      <4>1. ip[q] \in Slots /\ at[q] \in Holding
        BY <2>5, <2>8 DEF Holding
      <4>2. cache[ip[q]].lock = q
        BY <4>1 DEF TableInv, Locked
      <4>3. cache[ip[q]].valid
        BY <2>2 DEF Used
      <4> QED BY <1>3, <4>1, <4>2, <4>3 DEF Step, LocksStay
    <3> QED BY <3>1, <3>2, <3>3, <3>4 DEF Used
  <2>11. Ahead(q)' = Ahead(q)
    <3>1. at[q] \in {"enterlink", "linkbad", "enter", "unlinked"} => Inum(q)' = Inum(q)
      BY <2>6, <2>8
    <3> QED BY <2>1, <2>6, <3>1 DEF Ahead
  <2> QED BY <2>7, <2>9, <2>10, <2>11
<1> QED BY <1>1, <1>2, <1>3 DEF Others

-----------------------------------------------------------------------------
LEMMA TableKeeps ==
  ASSUME InodeTypes', NEW p \in Procs, Others(p), Unique', NamesUsed',
         \A s \in Slots : Agrees(s)', \A i \in Inums : Linked(i)',
         Placed(p)', DirLocked(p)', Used(p)', \A q \in Procs : New(q)'
  PROVE  TableInv'
BY DEF Others, TableInv

(* What everybody knows of the entry he works on.                          *)
LEMMA WorksOn ==
  ASSUME TableInv, NEW p \in Procs, ip[p] # None
  PROVE  /\ ip[p] \in Slots /\ cache[ip[p]].ref \in Nat \ {0} /\ Inum(p) \in Inums
         /\ at[p] \notin {"freed", "drop"} => type[Inum(p)] = "file"
<1>1. ip[p] \in Slots /\ Refers(p, ip[p])
  BY DEF TableInv, InodeTypes, Refers
<1>2. cache[ip[p]].ref \in Nat \ {0} /\ Inum(p) \in Inums
  BY <1>1, ReferredTo DEF Inum
<1>3. at[p] \notin {"idle", "ialloc", "freed", "drop"} => type[Inum(p)] = "file"
  BY DEF TableInv, Used
<1>4. at[p] \notin {"idle", "ialloc"}
  BY DEF TableInv, Placed
<1> QED BY <1>1, <1>2, <1>3, <1>4

(* Reading an inode makes the entry say what the disk says.                *)
LEMMA LoadedIs ==
  ASSUME TableInv, NEW p \in Procs, ip[p] # None
  PROVE  /\ Loaded(p) \in CacheEntries /\ Loaded(p).inum = Inum(p)
         /\ Loaded(p).ref = cache[ip[p]].ref /\ Loaded(p).lock = cache[ip[p]].lock
         /\ Loaded(p).valid /\ Loaded(p).nlink = nlink[Inum(p)]
<1> DEFINE x == ip[p]
<1>1. x \in Slots /\ Inum(p) \in Inums
  BY WorksOn
<1>2. cache[x] \in CacheEntries /\ nlink[Inum(p)] \in Int
  BY <1>1 DEF TableInv, InodeTypes
<1>3. CASE cache[x].valid
  <2>1. Loaded(p) = cache[x]
    BY <1>3 DEF Loaded
  <2>2. cache[x].nlink = nlink[Inum(p)]
    BY <1>1, <1>3 DEF TableInv, Agrees, Inum
  <2> QED BY <1>2, <1>3, <2>1, <2>2 DEF Inum
<1>4. CASE ~cache[x].valid
  <2>1. Loaded(p) = [cache[x] EXCEPT !.valid = TRUE, !.nlink = nlink[Inum(p)]]
    BY <1>4 DEF Loaded
  <2> QED BY <1>2, <2>1 DEF CacheEntries, Inum
<1> QED BY <1>3, <1>4

LEMMA BecomesIs ==
  ASSUME InodeTypes, NEW p \in Procs, ip[p] \in Slots, NEW e, Becomes(p, e)
  PROVE  /\ cache'[ip[p]] = e
         /\ \A s \in Slots : s # ip[p] => cache'[s] = cache[s]
         /\ e \in CacheEntries => cache' \in [Slots -> CacheEntries]
BY DEF InodeTypes, Becomes

LEMMA SetLinksIs ==
  ASSUME TableInv, NEW p \in Procs, ip[p] # None, NEW k \in Int,
         NEW h \in Procs \cup {None}, SetLinks(p, k, h)
  PROVE  /\ cache'[ip[p]].inum = Inum(p) /\ cache'[ip[p]].ref = cache[ip[p]].ref
         /\ cache'[ip[p]].valid /\ cache'[ip[p]].nlink = k /\ cache'[ip[p]].lock = h
         /\ \A s \in Slots : s # ip[p] => cache'[s] = cache[s]
         /\ nlink'[Inum(p)] = k
         /\ \A i \in Inums : i # Inum(p) => nlink'[i] = nlink[i]
         /\ cache' \in [Slots -> CacheEntries] /\ nlink' \in [Inums -> Int]
<1>1. ip[p] \in Slots /\ Inum(p) \in Inums /\ InodeTypes
  BY WorksOn DEF TableInv
<1>2. PICK l : l = Loaded(p)
  OBVIOUS
<1>3. l \in CacheEntries /\ l.inum = Inum(p) /\ l.ref = cache[ip[p]].ref /\ l.valid
  BY <1>2, LoadedIs
<1>4. PICK e : e = [l EXCEPT !.nlink = k, !.lock = h]
  OBVIOUS
<1>5. /\ e \in CacheEntries /\ e.inum = Inum(p) /\ e.ref = cache[ip[p]].ref
      /\ e.valid /\ e.nlink = k /\ e.lock = h
  BY <1>3, <1>4 DEF CacheEntries
<1>6. Becomes(p, e) /\ nlink' = [nlink EXCEPT ![Inum(p)] = k]
  BY <1>2, <1>4 DEF SetLinks
<1>7. /\ cache'[ip[p]] = e /\ \A s \in Slots : s # ip[p] => cache'[s] = cache[s]
      /\ cache' \in [Slots -> CacheEntries]
  BY <1>1, <1>5, <1>6, BecomesIs
<1>8. /\ nlink'[Inum(p)] = k /\ \A i \in Inums : i # Inum(p) => nlink'[i] = nlink[i]
      /\ nlink' \in [Inums -> Int]
  BY <1>1, <1>6 DEF InodeTypes
<1> QED BY <1>5, <1>7, <1>8

-----------------------------------------------------------------------------
(* A step that rewrites at most the entry x, which p refers to, and the    *)
(* inode it stands for.                                                    *)
Rewrites(p, x) ==
  /\ Rest(p) /\ DirStays(p)
  /\ x \in Slots => Refers(p, x)
  /\ at[p] = "freed" => ip[p] = x
  /\ \A s \in Slots :
       /\ s # x => cache'[s] = cache[s]
       /\ cache'[s].inum = cache[s].inum /\ cache'[s].ref = cache[s].ref
       /\ Held(p, s)' = Held(p, s)
  /\ \A i \in Inums : (x \in Slots => i # cache[x].inum) => nlink'[i] = nlink[i] /\ type'[i] = type[i]
  /\ \/ \A i \in Inums : type[i] = "file" => type'[i] = "file"
     \/ x \in Slots /\ \A q \in Procs : q # p => ~Refers(q, x)

LEMMA RewriteStep ==
  ASSUME TableInv, NEW p \in Procs, NEW x, Rewrites(p, x), LocksStay(p)
  PROVE  /\ Step(p) /\ Unique'
         /\ \A s \in Slots : s # x => Agrees(s)'
<1>1. \A s \in Slots : cache'[s].inum = cache[s].inum /\ cache'[s].ref = cache[s].ref
  BY DEF Rewrites
<1>2. x \in Slots => cache[x].ref \in Nat \ {0} /\ cache[x].inum \in Inums
  BY ReferredTo DEF Rewrites
<1>3. Counted(p)
  <2> SUFFICES ASSUME NEW s \in Slots
               PROVE  /\ cache'[s].ref = cache[s].ref + Held(p, s)' - Held(p, s)
                      /\ cache'[s].ref = 0 =>
                           cache'[s].inum = None /\ ~cache'[s].valid /\ cache'[s].lock = None
                      /\ cache'[s].ref # 0 => cache'[s].inum \in Inums
    BY DEF Counted
  <2>1. Held(p, s)' = Held(p, s) /\ Held(p, s) \in Nat /\ cache[s].ref \in Nat
    BY EntryTypes DEF Rewrites, Held, One, TableInv
  <2>2. /\ cache[s].ref = 0 => cache[s].inum = None /\ ~cache[s].valid /\ cache[s].lock = None
        /\ cache[s].ref # 0 => cache[s].inum \in Inums
    BY DEF TableInv, Referred
  <2>3. cache[s].ref = 0 => cache'[s] = cache[s]
    BY <1>2 DEF Rewrites
  <2> QED BY <1>1, <2>1, <2>2, <2>3
<1>4. InumsStay(p)
  <2> SUFFICES ASSUME NEW q \in Procs, NEW s \in Slots, q # p, Refers(q, s),
                      type[cache[s].inum] = "file"
               PROVE  type'[cache[s].inum] = "file"
    BY <1>1 DEF InumsStay
  <2>1. cache[s].inum \in Inums
    BY ReferredTo
  <2>2. CASE \A i \in Inums : type[i] = "file" => type'[i] = "file"
    BY <2>1, <2>2
  <2>3. CASE x \in Slots /\ \A r \in Procs : r # p => ~Refers(r, x)
    <3>1. s # x
      BY <2>3
    <3>2. cache[s].inum # cache[x].inum
      BY <1>2, <2>1, <2>3, <3>1 DEF TableInv, Unique
    <3> QED BY <2>1, <3>2 DEF Rewrites
  <2> QED BY <2>2, <2>3 DEF Rewrites
<1>5. Unique'
  BY <1>1 DEF TableInv, Unique
<1>6. ASSUME NEW s \in Slots, s # x PROVE Agrees(s)'
  <2>1. cache'[s] = cache[s] /\ Agrees(s)
    BY <1>6 DEF Rewrites, TableInv
  <2> SUFFICES ASSUME cache[s].valid
               PROVE  /\ nlink'[cache[s].inum] = cache[s].nlink
                      /\ type'[cache[s].inum] = "file"
                           \/ \E q \in Procs : ip'[q] = s /\ at'[q] = "freed"
    BY <2>1 DEF Agrees
  <2>2. cache[s].inum \in Inums
    BY EntryTypes DEF TableInv, Referred
  <2>3. x \in Slots => cache[s].inum # cache[x].inum
    BY <1>2, <1>6, <2>2 DEF TableInv, Unique
  <2>4. nlink'[cache[s].inum] = nlink[cache[s].inum] /\ type'[cache[s].inum] = type[cache[s].inum]
    BY <2>2, <2>3 DEF Rewrites
  <2>5. ASSUME NEW q \in Procs, ip[q] = s, at[q] = "freed"
        PROVE  ip'[q] = s /\ at'[q] = "freed"
    BY <1>6, <2>5 DEF Rewrites, Rest
  <2> QED BY <2>1, <2>4, <2>5 DEF Agrees
<1> QED BY <1>3, <1>4, <1>5, <1>6 DEF Step, Rewrites

(* Somebody who works on an inode does not come upon one that is new.      *)
LEMMA NewStays ==
  ASSUME TableInv, NEW p \in Procs, Step(p), at[p] \notin {"freed", "drop"}, at'[p] # "init",
         file'[p] \in {file[p], ip[p], kept[p], None},
         ip'[p] \in {file[p], ip[p], kept[p], None},
         kept'[p] \in {file[p], ip[p], kept[p], None},
         \A i \in Inums : nlink'[i] = nlink[i] \/ (ip[p] # None /\ i = Inum(p))
  PROVE  \A q \in Procs : New(q)'
<1> SUFFICES ASSUME NEW q \in Procs, at'[q] = "init" PROVE New(q)'
  BY DEF New
<1>1. q # p /\ at[q] = "init" /\ ip'[q] = ip[q]
  BY DEF Step, Rest
<1>2. ip[q] # None
  BY <1>1 DEF TableInv, Placed
<1>3. ip[q] \in Slots /\ Inum(q) \in Inums /\ Refers(q, ip[q])
  BY <1>2, WorksOn DEF Refers
<1>4. /\ nlink[Inum(q)] = 0
      /\ \A r \in Procs \ {q} : /\ ip[r] = ip[q] => at[r] \in {"freed", "drop"}
                                /\ file[r] # ip[q] /\ kept[r] # ip[q]
  BY <1>1 DEF TableInv, New
<1>5. ip[p] # ip[q] /\ file[p] # ip[q] /\ kept[p] # ip[q]
  BY <1>1, <1>4
<1>6. Inum(q)' = Inum(q)
  BY <1>1, <1>3 DEF Step, InumsStay, Inum
<1>7. nlink'[Inum(q)] = 0
  <2>1. ip[p] # None => Inum(p) # Inum(q)
    <3> SUFFICES ASSUME ip[p] # None PROVE Inum(p) # Inum(q)
      OBVIOUS
    <3>1. ip[p] \in Slots /\ Inum(p) \in Inums
      BY WorksOn
    <3> QED BY <1>3, <1>5, <3>1 DEF TableInv, Unique, Inum
  <2> QED BY <1>3, <1>4, <2>1
<1>8. \A r \in Procs \ {q} : /\ ip'[r] = ip[q] => at'[r] \in {"freed", "drop"}
                             /\ file'[r] # ip[q] /\ kept'[r] # ip[q]
  <2> SUFFICES ASSUME NEW r \in Procs \ {q}
               PROVE  /\ ip'[r] = ip[q] => at'[r] \in {"freed", "drop"}
                      /\ file'[r] # ip[q] /\ kept'[r] # ip[q]
    OBVIOUS
  <2>1. CASE r = p
    BY <1>2, <1>5, <2>1
  <2>2. CASE r # p
    BY <1>4, <2>2 DEF Step, Rest
  <2> QED BY <2>1, <2>2
<1> QED BY <1>1, <1>6, <1>7, <1>8 DEF New

-----------------------------------------------------------------------------
(* iget.                                                                   *)
LEMMA SlotIs ==
  ASSUME TableInv, NEW i \in Inums, CanGet(i)
  PROVE  /\ Slot(i) \in Slots
         /\ cache[Slot(i)].ref = 0 \/ cache[Slot(i)].inum = i
         /\ cache[Slot(i)].ref = 0 => \A s \in Slots : cache[s].inum # i
<1>1. Entries(i) \in SUBSET Nat /\ Entries(i) # {} /\ Entries(i) \subseteq Slots
  BY InodeAssumption DEF Entries, CanGet, Cached, Unused
<1>2. Slot(i) \in Entries(i)
  BY <1>1, FirstIsThere DEF Slot
<1>3. Slot(i) \in Cached(i) \/ (Cached(i) = {} /\ Slot(i) \in Unused)
  BY <1>2 DEF Entries
<1>4. ASSUME Cached(i) = {}, NEW s \in Slots PROVE cache[s].inum # i
  <2>1. cache[s].ref \in Nat
    BY EntryTypes DEF TableInv
  <2>2. cache[s].ref = 0 => cache[s].inum = None
    BY DEF TableInv, Referred
  <2>3. ~(cache[s].ref > 0 /\ cache[s].inum = i)
    BY <1>4 DEF Cached
  <2> QED BY <2>1, <2>2, <2>3, NoneIsNot
<1> QED BY <1>1, <1>2, <1>3, <1>4 DEF Cached, Unused

LEMMA IgetIs ==
  ASSUME TableInv, NEW p \in Procs, NEW i \in Inums, NEW label, CanGet(i), Iget(p, i, label)
  PROVE  /\ ip'[p] \in Slots /\ at'[p] = label
         /\ \A q \in Procs : q # p => ip'[q] = ip[q] /\ at'[q] = at[q]
         /\ \A s \in Slots : s # ip'[p] => cache'[s] = cache[s]
         /\ cache'[ip'[p]].inum = i /\ cache'[ip'[p]].ref = cache[ip'[p]].ref + 1
         /\ cache[ip'[p]].ref = 0 => /\ ~cache'[ip'[p]].valid /\ cache'[ip'[p]].lock = None
                                     /\ \A s \in Slots : cache[s].inum # i
         /\ cache[ip'[p]].ref # 0 => /\ cache[ip'[p]].inum = i
                                     /\ cache'[ip'[p]].valid = cache[ip'[p]].valid
                                     /\ cache'[ip'[p]].nlink = cache[ip'[p]].nlink
                                     /\ cache'[ip'[p]].lock = cache[ip'[p]].lock
         /\ cache' \in [Slots -> CacheEntries] /\ ip' \in [Procs -> Slots \cup {None}]
         /\ label \in Labels => at' \in [Procs -> Labels]
<1>1. PICK x : x = Slot(i)
  OBVIOUS
<1>2. /\ x \in Slots /\ (cache[x].ref = 0 \/ cache[x].inum = i)
      /\ cache[x].ref = 0 => \A s \in Slots : cache[s].inum # i
  BY <1>1, SlotIs
<1>3. cache[x] \in CacheEntries /\ cache[x].ref \in Nat /\ InodeTypes
  BY <1>2, EntryTypes DEF TableInv, InodeTypes
<1>4. PICK e : e = IF cache[x].ref > 0 THEN [cache[x] EXCEPT !.ref = cache[x].ref + 1]
                                     ELSE [Empty EXCEPT !.inum = i, !.ref = 1]
  OBVIOUS
<1>5. cache[x].ref # 0 =>
        /\ e \in CacheEntries /\ e.inum = i /\ e.ref = cache[x].ref + 1 /\ e.valid = cache[x].valid
        /\ e.nlink = cache[x].nlink /\ e.lock = cache[x].lock
  BY <1>2, <1>3, <1>4 DEF CacheEntries
<1>6. cache[x].ref = 0 =>
        e \in CacheEntries /\ e.inum = i /\ e.ref = 1 /\ ~e.valid /\ e.lock = None
  <2> SUFFICES ASSUME cache[x].ref = 0
               PROVE  e \in CacheEntries /\ e.inum = i /\ e.ref = 1 /\ ~e.valid /\ e.lock = None
    OBVIOUS
  <2>1. e = [Empty EXCEPT !.inum = i, !.ref = 1]
    BY <1>4
  <2>2. e = [inum |-> i, ref |-> 1, valid |-> FALSE, nlink |-> 0, lock |-> None]
    BY <2>1 DEF Empty
  <2> QED BY <2>2 DEF CacheEntries
<1>7. cache' = [cache EXCEPT ![x] = e] /\ ip' = [ip EXCEPT ![p] = x]
  <2>1. cache' = [cache EXCEPT ![x] = IF cache[x].ref > 0 THEN [cache[x] EXCEPT !.ref = cache[x].ref + 1]
                                      ELSE [Empty EXCEPT !.inum = i, !.ref = 1]]
    BY <1>1 DEF Iget
  <2> QED BY <1>1, <1>4, <2>1 DEF Iget
<1>8. cache'[x] = e /\ \A s \in Slots : s # x => cache'[s] = cache[s]
  BY <1>2, <1>3, <1>7 DEF InodeTypes
<1>9. cache' \in [Slots -> CacheEntries]
  BY <1>3, <1>5, <1>6, <1>7 DEF InodeTypes
<1>10. /\ ip'[p] = x /\ \A q \in Procs : q # p => ip'[q] = ip[q]
       /\ ip' \in [Procs -> Slots \cup {None}]
  BY <1>2, <1>3, <1>7 DEF InodeTypes
<1>11. /\ at'[p] = label /\ \A q \in Procs : q # p => at'[q] = at[q]
       /\ label \in Labels => at' \in [Procs -> Labels]
  BY <1>3 DEF Iget, Go, InodeTypes
<1>12. e.inum = i /\ e.ref = cache[x].ref + 1
  BY <1>3, <1>5, <1>6
<1> QED BY <1>2, <1>5, <1>6, <1>8, <1>9, <1>10, <1>11, <1>12

LEMMA IgetStep ==
  ASSUME TableInv, NEW p \in Procs, NEW i \in Inums, NEW label, CanGet(i), Iget(p, i, label),
         at[p] \notin Holding, label \notin Holding, Rest(p), DirStays(p),
         file'[p] = file[p], kept[p] = None, kept'[p] = ip[p],
         \A j \in Inums : nlink'[j] = nlink[j] /\ (type[j] = "file" => type'[j] = "file")
  PROVE  Step(p) /\ Unique' /\ (\A s \in Slots : Agrees(s)') /\ Inum(p)' = i
<1>1. PICK x : x = ip'[p]
  OBVIOUS
<1>2. /\ x \in Slots
      /\ \A s \in Slots : s # x => cache'[s] = cache[s]
      /\ cache'[x].inum = i /\ cache'[x].ref = cache[x].ref + 1
      /\ cache[x].ref = 0 => ~cache'[x].valid /\ cache'[x].lock = None
      /\ cache[x].ref = 0 => \A s \in Slots : cache[s].inum # i
      /\ cache[x].ref # 0 => /\ cache[x].inum = i
                             /\ cache'[x].valid = cache[x].valid
                             /\ cache'[x].nlink = cache[x].nlink
                             /\ cache'[x].lock = cache[x].lock
  BY <1>1, IgetIs
<1>3. at'[p] = label
  BY IgetIs
<1>4. Counted(p)
  <2> SUFFICES ASSUME NEW s \in Slots
               PROVE  /\ cache'[s].ref = cache[s].ref + Held(p, s)' - Held(p, s)
                      /\ cache'[s].ref = 0 =>
                           cache'[s].inum = None /\ ~cache'[s].valid /\ cache'[s].lock = None
                      /\ cache'[s].ref # 0 => cache'[s].inum \in Inums
    BY DEF Counted
  <2>1. Held(p, s) = One(file[p] = s) + One(ip[p] = s)
    <3>1. One(kept[p] = s) = 0
      BY NoneIsNot DEF One
    <3>2. One(file[p] = s) \in Nat /\ One(ip[p] = s) \in Nat
      BY DEF One
    <3> QED BY <3>1, <3>2 DEF Held
  <2>2. Held(p, s)' = One(file[p] = s) + One(x = s) + One(ip[p] = s)
    BY <1>1 DEF Held
  <2>3. Held(p, s)' - Held(p, s) = One(x = s) /\ Held(p, s)' \in Int /\ Held(p, s) \in Int
    BY <2>1, <2>2 DEF One
  <2>4. cache[s].ref \in Nat /\ cache[x].ref \in Nat
    BY <1>2, EntryTypes DEF TableInv
  <2>5. /\ cache[s].ref = 0 => cache[s].inum = None /\ ~cache[s].valid /\ cache[s].lock = None
        /\ cache[s].ref # 0 => cache[s].inum \in Inums
    BY DEF TableInv, Referred
  <2>6. cache[s].ref + Held(p, s)' - Held(p, s) = cache[s].ref + One(x = s)
    BY <2>3, <2>4 DEF One
  <2>7. CASE s = x
    BY <1>2, <2>4, <2>6, <2>7 DEF One
  <2>8. CASE s # x
    BY <1>2, <2>4, <2>5, <2>6, <2>8 DEF One
  <2> QED BY <2>7, <2>8
<1>5. InumsStay(p)
  <2> SUFFICES ASSUME NEW q \in Procs, NEW s \in Slots, q # p, Refers(q, s)
               PROVE  /\ cache'[s].inum = cache[s].inum
                      /\ type[cache[s].inum] = "file" => type'[cache[s].inum] = "file"
    BY DEF InumsStay
  <2>1. cache[s].inum \in Inums /\ cache[s].ref # 0
    BY ReferredTo
  <2> QED BY <1>2, <2>1
<1>6. LocksStay(p)
  <2> SUFFICES ASSUME NEW s \in Slots
               PROVE  /\ cache'[s].lock = p <=> ip'[p] = s /\ at'[p] \in Holding
                      /\ \A q \in Procs : q # p =>
                           /\ cache'[s].lock = q <=> cache[s].lock = q
                           /\ cache[s].lock = q => cache'[s].valid = cache[s].valid
    BY DEF LocksStay
  <2>1. cache[s].lock # p
    BY DEF TableInv, Locked
  <2>2. cache[s].ref = 0 => cache[s].lock = None
    BY DEF TableInv, Referred
  <2>3. cache'[s].lock = cache[s].lock /\ (cache[s].lock # None => cache'[s].valid = cache[s].valid)
    BY <1>2, <2>2
  <2> QED BY <1>3, <2>1, <2>3, NoneIsNot
<1>7. Unique'
  <2> SUFFICES ASSUME NEW s \in Slots, NEW t \in Slots, cache'[s].inum \in Inums,
                      cache'[s].inum = cache'[t].inum
               PROVE  s = t
    BY DEF Unique
  <2>1. ASSUME NEW r \in Slots, cache[r].inum = i PROVE r = x
    BY <1>2, <2>1 DEF TableInv, Unique
  <2>2. CASE s # x /\ t # x
    BY <1>2, <2>2 DEF TableInv, Unique
  <2>3. CASE s = x /\ t # x
    BY <1>2, <2>1, <2>3
  <2>4. CASE s # x /\ t = x
    BY <1>2, <2>1, <2>4
  <2> QED BY <2>2, <2>3, <2>4
<1>8. ASSUME NEW s \in Slots PROVE Agrees(s)'
  <2> SUFFICES ASSUME cache'[s].valid
               PROVE  /\ nlink'[cache'[s].inum] = cache'[s].nlink
                      /\ type'[cache'[s].inum] = "file"
                           \/ \E q \in Procs : ip'[q] = s /\ at'[q] = "freed"
    BY DEF Agrees
  <2>1. /\ cache'[s].inum = cache[s].inum /\ cache[s].valid
        /\ cache'[s].nlink = cache[s].nlink
    BY <1>2
  <2>2. cache[s].inum \in Inums
    BY <2>1 DEF TableInv, Referred
  <2>3. /\ nlink[cache[s].inum] = cache[s].nlink
        /\ type[cache[s].inum] = "file" \/ \E q \in Procs : ip[q] = s /\ at[q] = "freed"
    BY <2>1 DEF TableInv, Agrees
  <2>4. ASSUME NEW q \in Procs, ip[q] = s, at[q] = "freed" PROVE ip'[q] = s /\ at'[q] = "freed"
    BY <2>4 DEF Rest, Holding
  <2> QED BY <2>1, <2>2, <2>3, <2>4
<1> QED BY <1>1, <1>2, <1>4, <1>5, <1>6, <1>7, <1>8 DEF Step, Inum

(* An inode that is looked up, or was free, is not one that is being made. *)
LEMMA IgetNew ==
  ASSUME TableInv, NEW p \in Procs, NEW i \in Inums, NEW label, CanGet(i), Iget(p, i, label),
         Step(p), at[p] \notin {"freed", "drop"}, Inum(p)' = i, file'[p] = file[p], kept'[p] = ip[p],
         nlink[i] # 0 \/ type[i] = "none", \A j \in Inums : nlink'[j] = nlink[j],
         NEW q \in Procs, q # p
  PROVE  New(q)'
<1> SUFFICES ASSUME at'[q] = "init" PROVE New(q)'
  BY DEF New
<1>1. at[q] = "init" /\ ip'[q] = ip[q]
  BY DEF Step, Rest
<1>2. ip[q] # None
  BY <1>1 DEF TableInv, Placed
<1>3. /\ ip[q] \in Slots /\ Inum(q) \in Inums /\ Refers(q, ip[q])
      /\ type[Inum(q)] = "file" /\ cache[ip[q]].ref # 0
  BY <1>1, <1>2, WorksOn DEF Refers
<1>4. /\ nlink[Inum(q)] = 0
      /\ \A r \in Procs \ {q} : /\ ip[r] = ip[q] => at[r] \in {"freed", "drop"}
                                /\ file[r] # ip[q] /\ kept[r] # ip[q]
  BY <1>1 DEF TableInv, New
<1>5. Inum(q)' = Inum(q) /\ Inum(q) # i
  BY <1>1, <1>3, <1>4 DEF Step, InumsStay, Inum
<1>6. ip'[p] # ip[q] /\ ip[p] # ip[q] /\ file[p] # ip[q]
  BY <1>1, <1>4, <1>5 DEF Inum
<1>7. nlink'[Inum(q)] = 0
  BY <1>3, <1>4
<1>8. \A r \in Procs \ {q} : /\ ip'[r] = ip[q] => at'[r] \in {"freed", "drop"}
                             /\ file'[r] # ip[q] /\ kept'[r] # ip[q]
  <2> SUFFICES ASSUME NEW r \in Procs \ {q}
               PROVE  /\ ip'[r] = ip[q] => at'[r] \in {"freed", "drop"}
                      /\ file'[r] # ip[q] /\ kept'[r] # ip[q]
    OBVIOUS
  <2>1. CASE r = p
    BY <1>6, <2>1
  <2>2. CASE r # p
    BY <1>4, <2>2 DEF Step, Rest
  <2> QED BY <2>1, <2>2
<1> QED BY <1>1, <1>5, <1>7, <1>8 DEF New

-----------------------------------------------------------------------------
LEMMA LinkedSame ==
  ASSUME TableInv, NEW p \in Procs, Others(p), UNCHANGED dir, Ahead(p)' = Ahead(p),
         \A i \in Inums : nlink'[i] = nlink[i]
  PROVE  \A i \in Inums : Linked(i)'
<1> SUFFICES ASSUME NEW i \in Inums PROVE Linked(i)'
  OBVIOUS
<1>1. Links(i)' = Links(i) + One(Ahead(p)' = i) - One(Ahead(p) = i)
  BY LinksMoved
<1>2. Links(i)' = Links(i)
  BY <1>1, LinksAre DEF One
<1> QED BY <1>2 DEF TableInv, Linked

LEMMA NamedFacts ==
  ASSUME TableInv, NEW n \in Names, dir[n] # None
  PROVE  dir[n] \in Inums /\ type[dir[n]] = "file" /\ nlink[dir[n]] # 0
<1>1. dir[n] \in Inums /\ type[dir[n]] = "file"
  BY DEF TableInv, InodeTypes, NamesUsed
<1> QED BY <1>1, NamedLinks

(* open, unlink and link look a name up and come away with its inode.      *)
LookedUp(p, n, label) ==
  /\ at[p] = "idle" /\ dirlock = None /\ dir[n] # None /\ CanGet(dir[n])
  /\ Iget(p, dir[n], label)
  /\ UNCHANGED <<dir, type, nlink, file, kept>>

LEMMA LookUpStep ==
  ASSUME TableInv, NEW p \in Procs, NEW n \in Names, NEW label \in {"open", "unlink", "link"},
         LookedUp(p, n, label), InodeTypes',
         \A q \in Procs : q # p => name'[q] = name[q],
         \A q \in Procs : q # p => (dirlock' = q <=> dirlock = q),
         Placed(p)', DirLocked(p)'
  PROVE  TableInv'
<1>1. dir[n] \in Inums /\ type[dir[n]] = "file" /\ nlink[dir[n]] # 0
  BY NamedFacts DEF LookedUp
<1>2. ip[p] = None /\ kept[p] = None
  BY DEF TableInv, Placed, LookedUp
<1>3. /\ CanGet(dir[n]) /\ Iget(p, dir[n], label) /\ at[p] = "idle"
      /\ UNCHANGED <<dir, type, nlink, file, kept>>
  BY DEF LookedUp
<1>4. at'[p] = label /\ ip'[p] \in Slots
  BY <1>1, <1>3, IgetIs
<1>5. Rest(p) /\ DirStays(p)
  BY <1>1, <1>3, IgetIs DEF Rest, DirStays
<1>6. Step(p) /\ Unique' /\ (\A s \in Slots : Agrees(s)') /\ Inum(p)' = dir[n]
  BY <1>1, <1>2, <1>3, <1>5, IgetStep DEF Holding
<1>7. Others(p)
  BY <1>6, OthersKeep
<1>8. \A i \in Inums : Linked(i)'
  <2>1. Ahead(p) = None /\ Ahead(p)' = None
    BY <1>2, <1>3, <1>4 DEF Ahead
  <2> QED BY <1>3, <1>7, <2>1, LinkedSame
<1>9. NamesUsed'
  BY <1>3 DEF TableInv, NamesUsed
<1>10. Used(p)'
  <2>1. type'[Inum(p)'] = "file"
    BY <1>1, <1>3, <1>6
  <2>2. file'[p] # None => type'[cache'[file'[p]].inum] = "file"
    <3> SUFFICES ASSUME file[p] # None PROVE type[cache'[file[p]].inum] = "file"
      BY <1>3
    <3>1. file[p] \in Slots /\ Refers(p, file[p]) /\ type[cache[file[p]].inum] = "file"
      BY DEF TableInv, InodeTypes, Used, Refers
    <3>2. cache[file[p]].ref # 0
      BY <3>1, ReferredTo
    <3>3. cache'[file[p]].inum = cache[file[p]].inum
      BY <1>1, <1>3, <3>1, <3>2, IgetIs
    <3> QED BY <3>1, <3>3
  <2>3. kept'[p] = None
    BY <1>2, <1>3
  <2> QED BY <1>4, <2>1, <2>2, <2>3 DEF Used
<1>11. \A q \in Procs : New(q)'
  <2>1. ASSUME NEW q \in Procs, q # p PROVE New(q)'
    BY <1>1, <1>2, <1>3, <1>6, <2>1, IgetNew
  <2>2. New(p)'
    BY <1>4 DEF New
  <2> QED BY <2>1, <2>2
<1> QED BY <1>6, <1>7, <1>8, <1>9, <1>10, <1>11, TableKeeps

LEMMA OpenKeeps ==
  ASSUME TableInv, NEW p \in Procs, NEW n \in Names, Open(p, n) PROVE TableInv'
<1>1. LookedUp(p, n, "open") /\ UNCHANGED <<dirlock, name>> /\ file[p] = None /\ file' = file
  BY DEF Open, Runs, LookedUp
<1>2. dir[n] \in Inums
  BY <1>1, NamedFacts DEF LookedUp
<1>3. /\ ip'[p] \in Slots /\ at'[p] = "open" /\ cache' \in [Slots -> CacheEntries]
      /\ ip' \in [Procs -> Slots \cup {None}] /\ at' \in [Procs -> Labels]
  BY <1>1, <1>2, IgetIs DEF LookedUp, Labels
<1>4. InodeTypes'
  BY <1>1, <1>3 DEF LookedUp, TableInv, InodeTypes
<1>5. name[p] = None /\ kept[p] = None /\ kept' = kept
  BY <1>1 DEF TableInv, Placed, LookedUp
<1>6. Placed(p)'
  BY <1>1, <1>3, <1>5, NoneIsNot DEF Placed
<1>7. DirLocked(p)'
  <2>1. dirlock' # p
    BY <1>1, NoneIsNot DEF LookedUp
  <2> QED BY <1>3, <1>5, <2>1 DEF DirLocked
<1> QED BY <1>1, <1>4, <1>6, <1>7, LookUpStep

LEMMA UnlinkKeeps ==
  ASSUME TableInv, NEW p \in Procs, NEW n \in Names, Unlink(p, n) PROVE TableInv'
<1>1. /\ LookedUp(p, n, "unlink") /\ dirlock' = p /\ name' = [name EXCEPT ![p] = n]
      /\ dirlock = None
  BY DEF Unlink, Runs, LookedUp
<1>2. dir[n] \in Inums
  BY <1>1, NamedFacts DEF LookedUp
<1>3. /\ ip'[p] \in Slots /\ at'[p] = "unlink" /\ cache' \in [Slots -> CacheEntries]
      /\ cache'[ip'[p]].inum = dir[n]
      /\ ip' \in [Procs -> Slots \cup {None}] /\ at' \in [Procs -> Labels]
  BY <1>1, <1>2, IgetIs DEF LookedUp, Labels
<1>4. /\ name'[p] = n /\ \A q \in Procs : q # p => name'[q] = name[q]
      /\ name' \in [Procs -> Names \cup {None}]
  BY <1>1 DEF TableInv, InodeTypes
<1>5. InodeTypes'
  BY <1>1, <1>3, <1>4 DEF LookedUp, TableInv, InodeTypes
<1>6. kept[p] = None /\ kept' = kept /\ dir' = dir
  BY <1>1 DEF TableInv, Placed, LookedUp
<1>7. Placed(p)'
  BY <1>3, <1>4, <1>6, NoneIsNot DEF Placed
<1>8. DirLocked(p)'
  BY <1>1, <1>3, <1>4, <1>6 DEF DirLocked, Inum
<1> QED BY <1>1, <1>4, <1>5, <1>7, <1>8, NoneIsNot, LookUpStep

LEMMA LinkKeeps ==
  ASSUME TableInv, NEW p \in Procs, NEW n \in Names, NEW new \in Names, Link(p, n, new)
  PROVE  TableInv'
<1>1. /\ LookedUp(p, n, "link") /\ name' = [name EXCEPT ![p] = new]
      /\ dirlock = None /\ dirlock' = dirlock
  BY DEF Link, Runs, LookedUp
<1>2. dir[n] \in Inums
  BY <1>1, NamedFacts DEF LookedUp
<1>3. /\ ip'[p] \in Slots /\ at'[p] = "link" /\ cache' \in [Slots -> CacheEntries]
      /\ ip' \in [Procs -> Slots \cup {None}] /\ at' \in [Procs -> Labels]
  BY <1>1, <1>2, IgetIs DEF LookedUp, Labels
<1>4. /\ name'[p] = new /\ \A q \in Procs : q # p => name'[q] = name[q]
      /\ name' \in [Procs -> Names \cup {None}]
  BY <1>1 DEF TableInv, InodeTypes
<1>5. InodeTypes'
  BY <1>1, <1>3, <1>4 DEF LookedUp, TableInv, InodeTypes
<1>6. kept[p] = None /\ kept' = kept
  BY <1>1 DEF TableInv, Placed, LookedUp
<1>7. Placed(p)'
  BY <1>3, <1>4, <1>6, NoneIsNot DEF Placed
<1>8. DirLocked(p)'
  BY <1>1, <1>3, <1>6, NoneIsNot DEF DirLocked
<1> QED BY <1>1, <1>4, <1>5, <1>7, <1>8, LookUpStep

(* link finds the new name taken: it holds on to its own inode while it    *)
(* puts the one it found.                                                  *)
LEMMA LinkTakenKeeps ==
  ASSUME TableInv, NEW p \in Procs, LinkTaken(p), CanGet(dir[name[p]]) PROVE TableInv'
<1> DEFINE n == name[p]
<1>1. /\ at[p] = "enterlink" /\ dirlock = None /\ dir[n] # None
      /\ CanGet(dir[n]) /\ Iget(p, dir[n], "put") /\ kept' = [kept EXCEPT ![p] = ip[p]]
      /\ dirlock' = p /\ name' = [name EXCEPT ![p] = None]
      /\ UNCHANGED <<dir, type, nlink, file>>
  BY DEF LinkTaken, Runs
<1>2. n \in Names /\ ip[p] # None /\ kept[p] = None
  BY <1>1 DEF TableInv, InodeTypes, Placed
<1>3. dir[n] \in Inums /\ type[dir[n]] = "file" /\ nlink[dir[n]] # 0
  BY <1>1, <1>2, NamedFacts
<1>4. ip[p] \in Slots /\ cache[ip[p]].ref # 0 /\ type[Inum(p)] = "file"
  BY <1>1, <1>2, WorksOn
<1> HIDE DEF n
<1>5. /\ ip'[p] \in Slots /\ at'[p] = "put" /\ cache' \in [Slots -> CacheEntries]
      /\ \A q \in Procs : q # p => ip'[q] = ip[q] /\ at'[q] = at[q]
      /\ ip' \in [Procs -> Slots \cup {None}] /\ at' \in [Procs -> Labels]
  BY <1>1, <1>3, IgetIs DEF Labels
<1>6. ASSUME NEW s \in Slots, cache[s].ref # 0 PROVE cache'[s].inum = cache[s].inum
  BY <1>1, <1>3, <1>6, IgetIs
<1>7. /\ kept'[p] = ip[p] /\ \A q \in Procs : q # p => kept'[q] = kept[q]
      /\ kept' \in [Procs -> Slots \cup {None}]
  BY <1>1, <1>4 DEF TableInv, InodeTypes
<1>8. /\ name'[p] = None /\ \A q \in Procs : q # p => name'[q] = name[q]
      /\ name' \in [Procs -> Names \cup {None}]
  BY <1>1 DEF TableInv, InodeTypes
<1>9. InodeTypes'
  BY <1>1, <1>5, <1>7, <1>8 DEF TableInv, InodeTypes
<1>10. Rest(p) /\ DirStays(p)
  BY <1>1, <1>5, <1>7, <1>8, NoneIsNot DEF Rest, DirStays
<1>11. Step(p) /\ Unique' /\ (\A s \in Slots : Agrees(s)') /\ Inum(p)' = dir[n]
  BY <1>1, <1>2, <1>3, <1>7, <1>10, IgetStep DEF Holding
<1>12. Others(p)
  BY <1>9, <1>11, OthersKeep
<1>13. \A i \in Inums : Linked(i)'
  <2>1. Ahead(p) = Inum(p) /\ Ahead(p)' = cache'[ip[p]].inum
    BY <1>1, <1>2, <1>5, <1>7 DEF Ahead
  <2>2. Ahead(p)' = Ahead(p)
    BY <1>4, <1>6, <2>1 DEF Inum
  <2> QED BY <1>1, <1>12, <2>2, LinkedSame
<1>14. NamesUsed'
  BY <1>1 DEF TableInv, NamesUsed
<1>15. Used(p)'
  <2>1. type'[Inum(p)'] = "file" /\ type'[cache'[kept'[p]].inum] = "file"
    BY <1>1, <1>3, <1>4, <1>6, <1>7, <1>11 DEF Inum
  <2>2. file'[p] # None => type'[cache'[file'[p]].inum] = "file"
    <3> SUFFICES ASSUME file[p] # None PROVE type[cache'[file[p]].inum] = "file"
      BY <1>1
    <3>1. file[p] \in Slots /\ Refers(p, file[p]) /\ type[cache[file[p]].inum] = "file"
      BY DEF TableInv, InodeTypes, Used, Refers
    <3>2. cache'[file[p]].inum = cache[file[p]].inum
      BY <1>6, <3>1, ReferredTo
    <3> QED BY <3>1, <3>2
  <2> QED BY <1>5, <2>1, <2>2 DEF Used
<1>16. \A q \in Procs : New(q)'
  <2>1. ASSUME NEW q \in Procs, q # p PROVE New(q)'
    BY <1>1, <1>3, <1>7, <1>11, <2>1, IgetNew
  <2>2. New(p)'
    BY <1>5 DEF New
  <2> QED BY <2>1, <2>2
<1>17. Placed(p)' /\ DirLocked(p)'
  BY <1>1, <1>2, <1>5, <1>7, <1>8, NoneIsNot DEF Placed, DirLocked
<1> QED BY <1>9, <1>11, <1>12, <1>13, <1>14, <1>15, <1>16, <1>17, TableKeeps

-----------------------------------------------------------------------------
(* A step that changes nothing of the table: a panic, or none at all.      *)
LEMMA StillKeeps ==
  ASSUME TableInv, UNCHANGED <<dir, dirlock, type, nlink, cache, file, at, name, ip, kept>>
  PROVE  TableInv'
<1>1. InodeTypes' /\ Unique' /\ NamesUsed'
  BY DEF TableInv, InodeTypes, Unique, NamesUsed
<1>2. \A p \in Procs : Placed(p)' /\ DirLocked(p)' /\ Used(p)' /\ New(p)'
  BY DEF TableInv, Placed, DirLocked, Used, New, Inum
<1>3. \A s \in Slots : Referred(s)' /\ Locked(s)' /\ Agrees(s)'
  <2> SUFFICES ASSUME NEW s \in Slots PROVE Referred(s)' /\ Locked(s)' /\ Agrees(s)'
    OBVIOUS
  <2>1. Refs(s)' = Refs(s)
    BY DEF Refs, FileOf, IpOf, KeptOf
  <2> QED BY <2>1 DEF TableInv, Referred, Locked, Agrees
<1>4. \A i \in Inums : Linked(i)'
  <2> SUFFICES ASSUME NEW i \in Inums PROVE Linked(i)'
    OBVIOUS
  <2>1. \A p \in Procs : Ahead(p)' = Ahead(p)
    BY DEF Ahead, Inum
  <2>2. Links(i)' = Links(i)
    BY <2>1 DEF Links, NamesOf, AheadOf
  <2> QED BY <2>2 DEF TableInv, Linked
<1> QED BY <1>1, <1>2, <1>3, <1>4 DEF TableInv

-----------------------------------------------------------------------------
(* ialloc.                                                                 *)
LEMMA FirstFreeIs ==
  ASSUME TableInv, ~NoneFree
  PROVE  FirstFree \in Inums /\ type[FirstFree] = "none" /\ nlink[FirstFree] = 0
<1> DEFINE S == {j \in Inums : type[j] = "none"}
<1>1. S \in SUBSET Nat /\ S # {}
  BY InodeAssumption DEF NoneFree, TableInv, InodeTypes
<1>2. PICK k \in S : \A j \in S : k <= j
  BY <1>1, FirstIsThere
<1>3. FirstFree \in Inums /\ type[FirstFree] = "none"
  BY <1>2 DEF FirstFree
<1>4. \A n \in Names : dir[n] # FirstFree
  BY <1>3, NoneIsNot DEF TableInv, NamesUsed
<1>5. ASSUME NEW q \in Procs PROVE Ahead(q) # FirstFree
  <2>1. CASE at[q] \in {"enterlink", "linkbad", "enter", "unlinked"}
    <3>1. type[Inum(q)] = "file"
      BY <2>1 DEF TableInv, Used
    <3> QED BY <1>3, <2>1, <3>1 DEF Ahead
  <2>2. CASE at[q] \notin {"enterlink", "linkbad", "enter", "unlinked"} /\ kept[q] # None
    <3>1. type[cache[kept[q]].inum] = "file"
      BY <2>2 DEF TableInv, Used
    <3> QED BY <1>3, <2>2, <3>1 DEF Ahead
  <2>3. CASE at[q] \notin {"enterlink", "linkbad", "enter", "unlinked"} /\ kept[q] = None
    BY <1>3, <2>3, NoneIsNot DEF Ahead
  <2> QED BY <2>1, <2>2, <2>3
<1> QED BY <1>3, <1>4, <1>5, NamedLinks

LEMMA IallocKeeps ==
  ASSUME TableInv, NEW p \in Procs, Ialloc(p) PROVE TableInv'
<1>1. PICK i : i = FirstFree
  OBVIOUS
<1>2. i \in Inums /\ type[i] = "none" /\ nlink[i] = 0
  BY <1>1, FirstFreeIs DEF Ialloc
<1>3. /\ at[p] = "ialloc" /\ CanGet(i) /\ Iget(p, i, "init")
      /\ type' = [type EXCEPT ![i] = "file"] /\ nlink' = [nlink EXCEPT ![i] = 0]
      /\ UNCHANGED <<dir, dirlock, file, name, kept>>
  BY <1>1 DEF Ialloc, Runs
<1>4. /\ type' \in [Inums -> {"none", "file"}] /\ nlink' \in [Inums -> Int] /\ type'[i] = "file"
      /\ \A j \in Inums : nlink'[j] = nlink[j] /\ (type[j] = "file" => type'[j] = "file")
  BY <1>2, <1>3 DEF TableInv, InodeTypes
<1>5. file[p] = None /\ ip[p] = None /\ kept[p] = None /\ name[p] # None
  BY <1>3 DEF TableInv, Placed
<1>6. PICK x : x = ip'[p]
  OBVIOUS
<1>7. /\ x \in Slots /\ at'[p] = "init" /\ cache' \in [Slots -> CacheEntries]
      /\ ip' \in [Procs -> Slots \cup {None}] /\ at' \in [Procs -> Labels]
      /\ cache[x].ref # 0 => cache[x].inum = i
      /\ \A q \in Procs : q # p => ip'[q] = ip[q] /\ at'[q] = at[q]
  BY <1>2, <1>3, <1>6, IgetIs DEF Labels
<1>8. InodeTypes'
  BY <1>3, <1>4, <1>7 DEF TableInv, InodeTypes
<1>9. Rest(p) /\ DirStays(p)
  BY <1>3, <1>7 DEF Rest, DirStays
<1>10. Step(p) /\ Unique' /\ (\A s \in Slots : Agrees(s)') /\ Inum(p)' = i
  BY <1>2, <1>3, <1>4, <1>5, <1>9, IgetStep DEF Holding
<1>11. Others(p)
  BY <1>8, <1>10, OthersKeep
<1>12. \A j \in Inums : Linked(j)'
  <2>1. Ahead(p) = None /\ Ahead(p)' = None
    BY <1>3, <1>5, <1>7 DEF Ahead
  <2> QED BY <1>3, <1>4, <1>11, <2>1, LinkedSame
<1>13. NamesUsed'
  BY <1>3, <1>4 DEF TableInv, InodeTypes, NamesUsed
<1>14. Placed(p)' /\ DirLocked(p)'
  <2>1. dirlock = p /\ dir[name[p]] = None
    BY <1>3 DEF TableInv, DirLocked
  <2> QED BY <1>3, <1>5, <1>6, <1>7, <2>1, NoneIsNot DEF Placed, DirLocked
<1>15. Used(p)'
  BY <1>3, <1>4, <1>5, <1>7, <1>10 DEF Used
<1>16. New(p)'
  <2> SUFFICES ASSUME NEW q \in Procs, q # p
               PROVE  /\ ip[q] = x => at[q] \in {"freed", "drop"}
                      /\ file[q] # x /\ kept[q] # x
    BY <1>2, <1>3, <1>4, <1>6, <1>7, <1>10 DEF New
  <2>1. Refers(q, x) => cache[x].inum = i
    BY <1>7, ReferredTo
  <2>2. file[q] = x => type[cache[x].inum] = "file"
    BY <1>7, NoneIsNot DEF TableInv, Used
  <2>3. kept[q] = x => type[cache[x].inum] = "file"
    BY <1>7, NoneIsNot DEF TableInv, Used
  <2>4. ip[q] = x => at[q] \in {"freed", "drop"} \/ type[cache[x].inum] = "file"
    BY <1>7, NoneIsNot, WorksOn DEF Inum
  <2> QED BY <1>2, <2>1, <2>2, <2>3, <2>4 DEF Refers
<1>17. \A q \in Procs : New(q)'
  <2>1. ASSUME NEW q \in Procs, q # p PROVE New(q)'
    BY <1>2, <1>3, <1>4, <1>5, <1>10, <2>1, IgetNew
  <2> QED BY <1>16, <2>1
<1> QED BY <1>8, <1>10, <1>11, <1>12, <1>13, <1>14, <1>15, <1>17, TableKeeps

-----------------------------------------------------------------------------
(* A step may leave the locks alone, or take or give back that of the      *)
(* entry it works on.                                                      *)
LEMMA LocksSame ==
  ASSUME TableInv, NEW p \in Procs, UNCHANGED cache, at[p] \notin Holding, at'[p] \notin Holding
  PROVE  LocksStay(p)
<1>1. \A s \in Slots : cache[s].lock # p
  BY DEF TableInv, Locked
<1> QED BY <1>1 DEF LocksStay

LEMMA LockMoves ==
  ASSUME TableInv, NEW p \in Procs, ip[p] # None,
         \A s \in Slots : s # ip[p] => cache'[s] = cache[s],
         cache[ip[p]].lock \in {None, p}, cache'[ip[p]].lock \in {None, p},
         cache'[ip[p]].lock = p <=> at'[p] \in Holding,
         at'[p] \in Holding => ip'[p] = ip[p]
  PROVE  LocksStay(p)
<1> SUFFICES ASSUME NEW s \in Slots
             PROVE  /\ cache'[s].lock = p <=> ip'[p] = s /\ at'[p] \in Holding
                    /\ \A q \in Procs : q # p =>
                         /\ cache'[s].lock = q <=> cache[s].lock = q
                         /\ cache[s].lock = q => cache'[s].valid = cache[s].valid
  BY DEF LocksStay
<1>1. CASE s = ip[p]
  BY <1>1, NoneIsNot
<1>2. CASE s # ip[p]
  <2>1. cache[s].lock # p
    BY <1>2 DEF TableInv, Locked
  <2> QED BY <1>2, <2>1
<1> QED BY <1>1, <1>2

LEMMA LockHeld ==
  ASSUME TableInv, NEW p \in Procs, ip[p] # None, at[p] \in Holding
  PROVE  cache[ip[p]].lock = p
<1>1. ip[p] \in Slots
  BY WorksOn
<1> QED BY <1>1 DEF TableInv, Locked

(* open gets its file, or puts the inode for want of one.                  *)
Opens(p) ==
  \/ file'[p] = ip[p] /\ ip'[p] = None /\ at'[p] = "idle"
  \/ file'[p] = file[p] /\ ip'[p] = ip[p] /\ at'[p] = "put"

LEMMA OpensKeeps ==
  ASSUME TableInv, NEW p \in Procs, at[p] \in {"open", "created"}, Opens(p), Rest(p),
         file' \in [Procs -> Slots \cup {None}], ip' \in [Procs -> Slots \cup {None}],
         at' \in [Procs -> Labels],
         NEW e \in CacheEntries, Becomes(p, e),
         e.inum = Inum(p), e.ref = cache[ip[p]].ref, e.lock = None,
         e.valid => e.nlink = nlink[Inum(p)], cache[ip[p]].lock \in {None, p},
         UNCHANGED <<dir, dirlock, type, nlink, name, kept>>
  PROVE  TableInv'
<1>1. PICK x : x = ip[p]
  OBVIOUS
<1>2. file[p] = None /\ kept[p] = None /\ name[p] = None /\ x # None
  BY <1>1 DEF TableInv, Placed
<1>3. x \in Slots /\ cache[x].inum \in Inums /\ type[cache[x].inum] = "file" /\ InodeTypes
  BY <1>1, <1>2, WorksOn DEF Inum, TableInv
<1>4. /\ cache'[x] = e /\ \A s \in Slots : s # x => cache'[s] = cache[s]
      /\ cache' \in [Slots -> CacheEntries]
  BY <1>1, <1>3, BecomesIs
<1>5. InodeTypes'
  BY <1>4 DEF TableInv, InodeTypes
<1>6. ASSUME NEW s \in Slots PROVE Held(p, s)' = Held(p, s)
  <2>1. CASE file'[p] = x /\ ip'[p] = None
    <3>1. Held(p, s) = One(None = s) + One(x = s) + One(None = s)
      BY <1>1, <1>2 DEF Held
    <3>2. Held(p, s)' = One(x = s) + One(None = s) + One(None = s)
      BY <1>2, <2>1 DEF Held
    <3> QED BY <3>1, <3>2 DEF One
  <2>2. CASE file'[p] = file[p] /\ ip'[p] = ip[p]
    BY <2>2 DEF Held
  <2> QED BY <1>1, <2>1, <2>2 DEF Opens
<1>7. DirStays(p)
  BY DEF DirStays
<1>8. Rewrites(p, x)
  BY <1>1, <1>3, <1>4, <1>6, <1>7 DEF Rewrites, Refers, Inum
<1>9. LocksStay(p)
  BY <1>1, <1>2, <1>4, NoneIsNot, LockMoves DEF Opens, Holding
<1>10. Step(p) /\ Unique' /\ \A s \in Slots : s # x => Agrees(s)'
  BY <1>8, <1>9, RewriteStep
<1>11. Others(p)
  BY <1>5, <1>10, OthersKeep
<1>12. \A s \in Slots : Agrees(s)'
  BY <1>1, <1>3, <1>4, <1>10 DEF Agrees, Inum
<1>13. \A i \in Inums : Linked(i)'
  <2>1. Ahead(p) = None /\ Ahead(p)' = None
    BY <1>2 DEF Ahead, Opens
  <2> QED BY <1>11, <2>1, LinkedSame
<1>14. NamesUsed'
  BY DEF TableInv, NamesUsed
<1>15. Placed(p)' /\ DirLocked(p)'
  <2>1. dirlock # p
    BY <1>2 DEF TableInv, DirLocked
  <2> QED BY <1>1, <1>2, <2>1 DEF Placed, DirLocked, Opens
<1>16. Used(p)'
  BY <1>1, <1>2, <1>3, <1>4 DEF Used, Opens, Inum
<1>17. \A q \in Procs : New(q)'
  BY <1>2, <1>10, NewStays DEF Opens
<1> QED BY <1>5, <1>10, <1>11, <1>12, <1>13, <1>14, <1>15, <1>16, <1>17, TableKeeps

LEMMA OpensIs ==
  ASSUME InodeTypes, NEW p \in Procs, ip[p] # None, UNCHANGED <<name, kept>>,
         \/ /\ file' = [file EXCEPT ![p] = ip[p]]
            /\ ip' = [ip EXCEPT ![p] = None]
            /\ Go(p, "idle")
         \/ Go(p, "put") /\ UNCHANGED <<file, ip>>
  PROVE  /\ Opens(p) /\ Rest(p)
         /\ file' \in [Procs -> Slots \cup {None}] /\ ip' \in [Procs -> Slots \cup {None}]
         /\ at' \in [Procs -> Labels]
<1>1. CASE /\ file' = [file EXCEPT ![p] = ip[p]]
           /\ ip' = [ip EXCEPT ![p] = None]
           /\ Go(p, "idle")
  BY <1>1 DEF InodeTypes, Opens, Rest, Go, Labels
<1>2. CASE Go(p, "put") /\ UNCHANGED <<file, ip>>
  BY <1>2 DEF InodeTypes, Opens, Rest, Go, Labels
<1> QED BY <1>1, <1>2

LEMMA OpenLockedKeeps ==
  ASSUME TableInv, NEW p \in Procs, OpenLocked(p) PROVE TableInv'
<1>1. /\ at[p] = "open" /\ cache[ip[p]].lock = None /\ Becomes(p, Loaded(p))
      /\ UNCHANGED <<dir, dirlock, type, nlink, name, kept>>
  BY DEF OpenLocked, Runs, Unlocked
<1>2. ip[p] # None /\ InodeTypes
  BY <1>1 DEF TableInv, Placed
<1>3. /\ Opens(p) /\ Rest(p)
      /\ file' \in [Procs -> Slots \cup {None}] /\ ip' \in [Procs -> Slots \cup {None}]
      /\ at' \in [Procs -> Labels]
  BY <1>2, OpensIs DEF OpenLocked
<1>4. /\ Loaded(p) \in CacheEntries /\ Loaded(p).inum = Inum(p)
      /\ Loaded(p).ref = cache[ip[p]].ref /\ Loaded(p).lock = cache[ip[p]].lock
      /\ Loaded(p).nlink = nlink[Inum(p)]
  BY <1>2, LoadedIs
<1> QED BY <1>1, <1>3, <1>4, OpensKeeps

LEMMA CreatedKeeps ==
  ASSUME TableInv, NEW p \in Procs, Created(p) PROVE TableInv'
<1>1. PICK e : e = [cache[ip[p]] EXCEPT !.lock = None]
  OBVIOUS
<1>2. /\ at[p] = "created" /\ Becomes(p, e)
      /\ UNCHANGED <<dir, dirlock, type, nlink, name, kept>>
  BY <1>1 DEF Created, Runs
<1>3. ip[p] # None /\ InodeTypes
  BY <1>2 DEF TableInv, Placed
<1>4. /\ Opens(p) /\ Rest(p)
      /\ file' \in [Procs -> Slots \cup {None}] /\ ip' \in [Procs -> Slots \cup {None}]
      /\ at' \in [Procs -> Labels]
  BY <1>3, OpensIs DEF Created
<1>5. ip[p] \in Slots /\ cache[ip[p]] \in CacheEntries /\ cache[ip[p]].lock = p
  BY <1>2, <1>3, WorksOn, LockHeld DEF InodeTypes, Holding
<1>6. /\ e \in CacheEntries /\ e.inum = Inum(p) /\ e.ref = cache[ip[p]].ref /\ e.lock = None
      /\ e.valid = cache[ip[p]].valid /\ e.nlink = cache[ip[p]].nlink
  BY <1>1, <1>5 DEF CacheEntries, Inum
<1>7. e.valid => e.nlink = nlink[Inum(p)]
  BY <1>5, <1>6 DEF TableInv, Agrees, Inum
<1> QED BY <1>2, <1>4, <1>5, <1>6, <1>7, OpensKeeps

-----------------------------------------------------------------------------
(* A step that sets the link count: it counts a link that has no name yet  *)
(* or no longer one that has none.                                         *)
AheadLabels == {"enterlink", "linkbad", "enter", "unlinked"}

LEMMA SetLinksKeeps ==
  ASSUME TableInv, NEW p \in Procs, NEW label \in {"enter", "enterlink", "put"},
         at[p] \in {"init", "unlinked", "link", "linkbad"},
         NEW k \in Int, NEW h \in {None, p}, SetLinks(p, k, h), Go(p, label),
         k = nlink[Inum(p)] + One(label \in AheadLabels) - One(at[p] \in AheadLabels),
         h = p <=> label \in Holding, cache[ip[p]].lock \in {None, p},
         UNCHANGED <<dir, dirlock, type, file, name, ip, kept>>,
         Placed(p)', DirLocked(p)'
  PROVE  TableInv'
<1>1. PICK x : x = ip[p]
  OBVIOUS
<1>2. x # None /\ kept[p] = None /\ InodeTypes
  BY <1>1 DEF TableInv, Placed
<1>3. x \in Slots /\ Inum(p) \in Inums /\ Inum(p) = cache[x].inum /\ type[Inum(p)] = "file"
  BY <1>1, <1>2, WorksOn DEF Inum
<1>4. /\ cache'[x].inum = Inum(p) /\ cache'[x].ref = cache[x].ref
      /\ cache'[x].valid /\ cache'[x].nlink = k /\ cache'[x].lock = h
      /\ \A s \in Slots : s # x => cache'[s] = cache[s]
      /\ nlink'[Inum(p)] = k
      /\ \A i \in Inums : i # Inum(p) => nlink'[i] = nlink[i]
      /\ cache' \in [Slots -> CacheEntries] /\ nlink' \in [Inums -> Int]
  BY <1>1, <1>2, SetLinksIs
<1>5. at'[p] = label /\ at' \in [Procs -> Labels] /\ \A q \in Procs : q # p => at'[q] = at[q]
  BY <1>2 DEF Go, InodeTypes, Labels
<1>6. InodeTypes'
  BY <1>4, <1>5 DEF TableInv, InodeTypes
<1>7. Rest(p) /\ DirStays(p)
  BY <1>5 DEF Rest, DirStays
<1>8. Rewrites(p, x)
  <2>1. \A s \in Slots : Held(p, s)' = Held(p, s)
    BY DEF Held
  <2> QED BY <1>1, <1>3, <1>4, <1>7, <2>1 DEF Rewrites, Refers
<1>9. LocksStay(p)
  BY <1>1, <1>2, <1>4, <1>5, LockMoves
<1>10. Step(p) /\ Unique' /\ \A s \in Slots : s # x => Agrees(s)'
  BY <1>8, <1>9, RewriteStep
<1>11. Others(p)
  BY <1>6, <1>10, OthersKeep
<1>12. \A s \in Slots : Agrees(s)'
  BY <1>3, <1>4, <1>10 DEF Agrees
<1>13. \A i \in Inums : Linked(i)'
  <2> SUFFICES ASSUME NEW i \in Inums PROVE Linked(i)'
    OBVIOUS
  <2>1. Links(i)' = Links(i) + One(Ahead(p)' = i) - One(Ahead(p) = i)
    BY <1>11, LinksMoved
  <2>2. Ahead(p) = IF at[p] \in AheadLabels THEN Inum(p) ELSE None
    BY <1>2 DEF Ahead, AheadLabels
  <2>3. Ahead(p)' = IF label \in AheadLabels THEN Inum(p) ELSE None
    BY <1>1, <1>2, <1>4, <1>5 DEF Ahead, AheadLabels, Inum
  <2>4. nlink[i] = Links(i) /\ nlink[i] \in Int
    BY <1>2 DEF TableInv, Linked, InodeTypes
  <2>5. CASE i = Inum(p)
    <3>1. One(Ahead(p)' = i) = One(label \in AheadLabels) /\ One(Ahead(p) = i) = One(at[p] \in AheadLabels)
      BY <1>3, <2>2, <2>3, <2>5, NoneIsNot DEF One
    <3> QED BY <1>4, <2>1, <2>4, <2>5, <3>1 DEF Linked
  <2>6. CASE i # Inum(p)
    <3>1. One(Ahead(p)' = i) = 0 /\ One(Ahead(p) = i) = 0
      BY <2>2, <2>3, <2>6, NoneIsNot DEF One
    <3> QED BY <1>4, <2>1, <2>4, <2>6, <3>1 DEF Linked
  <2> QED BY <2>5, <2>6
<1>14. NamesUsed'
  BY DEF TableInv, NamesUsed
<1>15. Used(p)'
  <2>1. type'[Inum(p)'] = "file" /\ cache'[ip'[p]].valid
    BY <1>1, <1>3, <1>4 DEF Inum
  <2>2. file'[p] # None => type'[cache'[file'[p]].inum] = "file"
    BY <1>2, <1>3, <1>4 DEF TableInv, Used, InodeTypes
  <2> QED BY <1>2, <2>1, <2>2 DEF Used
<1>16. \A q \in Procs : New(q)'
  BY <1>1, <1>2, <1>4, <1>5, <1>10, NewStays
<1> QED BY <1>6, <1>10, <1>11, <1>12, <1>13, <1>14, <1>15, <1>16, TableKeeps

LEMMA CreateInitKeeps ==
  ASSUME TableInv, NEW p \in Procs, CreateInit(p) PROVE TableInv'
<1>1. /\ at[p] = "init" /\ cache[ip[p]].lock = None /\ SetLinks(p, 1, p) /\ Go(p, "enter")
      /\ UNCHANGED <<dir, dirlock, type, file, name, ip, kept>>
  BY DEF CreateInit, Runs, Unlocked
<1>2. at'[p] = "enter"
  BY <1>1 DEF Go, TableInv, InodeTypes
<1>3. nlink[Inum(p)] = 0
  BY <1>1 DEF TableInv, New
<1>4. 1 = nlink[Inum(p)] + One("enter" \in AheadLabels) - One(at[p] \in AheadLabels)
  BY <1>1, <1>3 DEF One, AheadLabels
<1>5. Placed(p)' /\ DirLocked(p)'
  BY <1>1, <1>2 DEF TableInv, Placed, DirLocked
<1> QED BY <1>1, <1>4, <1>5, SetLinksKeeps DEF Holding

LEMMA UnlinkedKeeps ==
  ASSUME TableInv, NEW p \in Procs, Unlinked(p) PROVE TableInv'
<1>1. PICK k : k = cache[ip[p]].nlink - 1
  OBVIOUS
<1>2. /\ at[p] = "unlinked" /\ SetLinks(p, k, None) /\ Go(p, "put")
      /\ UNCHANGED <<dir, dirlock, type, file, name, ip, kept>>
  BY <1>1 DEF Unlinked, Runs
<1>3. at'[p] = "put" /\ ip[p] # None
  BY <1>2 DEF Go, TableInv, InodeTypes, Placed
<1>4. ip[p] \in Slots /\ cache[ip[p]].lock = p /\ cache[ip[p]].valid
  BY <1>2, <1>3, WorksOn, LockHeld DEF Holding, TableInv, Used
<1>5. cache[ip[p]].nlink = nlink[Inum(p)] /\ cache[ip[p]].nlink \in Int
  BY <1>4, EntryTypes DEF TableInv, Agrees, Inum
<1>6. k \in Int /\ k = nlink[Inum(p)] + One("put" \in AheadLabels) - One(at[p] \in AheadLabels)
  BY <1>1, <1>2, <1>5 DEF One, AheadLabels
<1>7. Placed(p)' /\ DirLocked(p)'
  BY <1>2, <1>3 DEF TableInv, Placed, DirLocked
<1> QED BY <1>2, <1>4, <1>6, <1>7, NoneIsNot, SetLinksKeeps DEF Holding

LEMMA LinkCountKeeps ==
  ASSUME TableInv, NEW p \in Procs, LinkCount(p) PROVE TableInv'
<1>1. PICK k : k = Loaded(p).nlink + 1
  OBVIOUS
<1>2. /\ at[p] = "link" /\ cache[ip[p]].lock = None /\ SetLinks(p, k, None) /\ Go(p, "enterlink")
      /\ UNCHANGED <<dir, dirlock, type, file, name, ip, kept>>
  BY <1>1 DEF LinkCount, Runs, Unlocked
<1>3. at'[p] = "enterlink" /\ ip[p] # None
  BY <1>2 DEF Go, TableInv, InodeTypes, Placed
<1>4. Loaded(p).nlink = nlink[Inum(p)] /\ nlink[Inum(p)] \in Int
  BY <1>3, WorksOn, LoadedIs DEF TableInv, InodeTypes
<1>5. k \in Int /\ k = nlink[Inum(p)] + One("enterlink" \in AheadLabels) - One(at[p] \in AheadLabels)
  BY <1>1, <1>2, <1>4 DEF One, AheadLabels
<1>6. Placed(p)' /\ DirLocked(p)'
  BY <1>2, <1>3 DEF TableInv, Placed, DirLocked
<1> QED BY <1>2, <1>5, <1>6, NoneIsNot, SetLinksKeeps DEF Holding

LEMMA LinkBadKeeps ==
  ASSUME TableInv, NEW p \in Procs, LinkBad(p) PROVE TableInv'
<1>1. PICK k : k = Loaded(p).nlink - 1
  OBVIOUS
<1>2. /\ at[p] = "linkbad" /\ cache[ip[p]].lock = None /\ SetLinks(p, k, None) /\ Go(p, "put")
      /\ UNCHANGED <<dir, dirlock, type, file, name, ip, kept>>
  BY <1>1 DEF LinkBad, Runs, Unlocked
<1>3. at'[p] = "put" /\ ip[p] # None
  BY <1>2 DEF Go, TableInv, InodeTypes, Placed
<1>4. Loaded(p).nlink = nlink[Inum(p)] /\ nlink[Inum(p)] \in Int
  BY <1>3, WorksOn, LoadedIs DEF TableInv, InodeTypes
<1>5. k \in Int /\ k = nlink[Inum(p)] + One("put" \in AheadLabels) - One(at[p] \in AheadLabels)
  BY <1>1, <1>2, <1>4 DEF One, AheadLabels
<1>6. Placed(p)' /\ DirLocked(p)'
  BY <1>2, <1>3 DEF TableInv, Placed, DirLocked
<1> QED BY <1>2, <1>5, <1>6, NoneIsNot, SetLinksKeeps DEF Holding

-----------------------------------------------------------------------------
(* create and link enter the name of a link that is counted.               *)
LEMMA EnterKeeps ==
  ASSUME TableInv, NEW p \in Procs, NEW label \in {"created", "put"},
         at[p] \in {"enter", "enterlink"}, label = "created" <=> at[p] = "enter",
         dirlock \in {None, p}, dir[name[p]] = None,
         dir' = [dir EXCEPT ![name[p]] = Inum(p)], dirlock' = None,
         name' = [name EXCEPT ![p] = None], Go(p, label),
         UNCHANGED <<type, nlink, cache, file, ip, kept>>
  PROVE  TableInv'
<1>1. PICK n : n = name[p]
  OBVIOUS
<1>2. ip[p] # None /\ kept[p] = None /\ n \in Names /\ InodeTypes
  BY <1>1 DEF TableInv, Placed, InodeTypes
<1>3. ip[p] \in Slots /\ Inum(p) \in Inums /\ type[Inum(p)] = "file"
  BY <1>2, WorksOn
<1>4. /\ dir'[n] = Inum(p) /\ dir[n] = None /\ \A m \in Names : m # n => dir'[m] = dir[m]
      /\ dir' \in [Names -> Inums \cup {None}]
  BY <1>1, <1>2, <1>3 DEF InodeTypes
<1>5. /\ name'[p] = None /\ name' \in [Procs -> Names \cup {None}]
      /\ at'[p] = label /\ at' \in [Procs -> Labels]
      /\ \A q \in Procs : q # p => name'[q] = name[q] /\ at'[q] = at[q]
  BY <1>2 DEF Go, InodeTypes, Labels
<1>6. InodeTypes'
  BY <1>2, <1>4, <1>5 DEF InodeTypes
<1>7. Rest(p) /\ DirStays(p)
  BY <1>5, NoneIsNot DEF Rest, DirStays
<1>8. Rewrites(p, ip[p])
  <2>1. \A s \in Slots : Held(p, s)' = Held(p, s)
    BY DEF Held
  <2> QED BY <1>3, <1>7, <2>1 DEF Rewrites, Refers
<1>9. LocksStay(p)
  <2>1. CASE at[p] = "enter"
    <3>1. cache[ip[p]].lock = p
      BY <1>2, <2>1, LockHeld DEF Holding
    <3> QED BY <1>2, <1>5, <2>1, <3>1, LockMoves DEF Holding
  <2>2. CASE at[p] = "enterlink"
    BY <1>5, <2>2, LocksSame DEF Holding
  <2> QED BY <2>1, <2>2
<1>10. Step(p) /\ Unique' /\ \A s \in Slots : s # ip[p] => Agrees(s)'
  BY <1>8, <1>9, RewriteStep
<1>11. Others(p)
  BY <1>6, <1>10, OthersKeep
<1>12. \A s \in Slots : Agrees(s)'
  <2>1. Agrees(ip[p])'
    BY <1>3 DEF TableInv, Agrees, Inum
  <2> QED BY <1>10, <2>1
<1>13. \A i \in Inums : Linked(i)'
  <2> SUFFICES ASSUME NEW i \in Inums PROVE Linked(i)'
    OBVIOUS
  <2>1. Links(i)' = Links(i) + One(Ahead(p)' = i) - One(Ahead(p) = i)
                      + One(dir'[n] = i) - One(dir[n] = i)
    BY <1>2, <1>4, <1>11, LinksNamed
  <2>2. Ahead(p) = Inum(p) /\ Ahead(p)' = None
    BY <1>2, <1>5 DEF Ahead
  <2>3. /\ One(Ahead(p)' = i) = 0 /\ One(Ahead(p) = i) = One(Inum(p) = i)
        /\ One(dir'[n] = i) = One(Inum(p) = i) /\ One(dir[n] = i) = 0
    BY <1>4, <2>2, NoneIsNot DEF One
  <2>4. One(Inum(p) = i) \in Nat /\ Links(i) \in Nat
    BY LinksAre DEF One
  <2> QED BY <2>1, <2>3, <2>4 DEF TableInv, Linked
<1>14. NamesUsed'
  BY <1>3, <1>4 DEF TableInv, NamesUsed
<1>15. Placed(p)' /\ DirLocked(p)'
  <2>1. at[p] = "enter" => file[p] = None
    BY DEF TableInv, Placed
  <2> QED BY <1>2, <1>5, <2>1, NoneIsNot DEF Placed, DirLocked
<1>16. Used(p)'
  <2>1. Used(p)
    BY DEF TableInv
  <2> QED BY <1>2, <1>3, <1>5, <2>1 DEF Used, Inum
<1>17. \A q \in Procs : New(q)'
  BY <1>5, <1>10, NewStays
<1> QED BY <1>6, <1>10, <1>11, <1>12, <1>13, <1>14, <1>15, <1>16, <1>17, TableKeeps

LEMMA CreateEnterKeeps ==
  ASSUME TableInv, NEW p \in Procs, CreateEnter(p) PROVE TableInv'
<1>1. /\ at[p] = "enter" /\ dir' = [dir EXCEPT ![name[p]] = Inum(p)] /\ dirlock' = None
      /\ name' = [name EXCEPT ![p] = None] /\ Go(p, "created")
      /\ UNCHANGED <<type, nlink, cache, file, ip, kept>>
  BY DEF CreateEnter, Runs
<1>2. dirlock = p /\ dir[name[p]] = None
  BY <1>1 DEF TableInv, DirLocked
<1> QED BY <1>1, <1>2, EnterKeeps

LEMMA LinkEnterKeeps ==
  ASSUME TableInv, NEW p \in Procs, LinkEnter(p) PROVE TableInv'
<1>1. /\ at[p] = "enterlink" /\ dirlock = None /\ dir[name[p]] = None
      /\ dir' = [dir EXCEPT ![name[p]] = Inum(p)] /\ dirlock' = None
      /\ name' = [name EXCEPT ![p] = None] /\ Go(p, "put")
      /\ UNCHANGED <<type, nlink, cache, file, ip, kept>>
  BY DEF LinkEnter, Runs
<1> QED BY <1>1, EnterKeeps

(* unlink clears the name, and the link stays counted.                     *)
LEMMA UnlinkClearKeeps ==
  ASSUME TableInv, NEW p \in Procs, UnlinkClear(p) PROVE TableInv'
<1>1. PICK n : n = name[p]
  OBVIOUS
<1>2. PICK x : x = ip[p]
  OBVIOUS
<1>3. PICK l : l = Loaded(p)
  OBVIOUS
<1>4. PICK e : e = [l EXCEPT !.lock = p]
  OBVIOUS
<1>5. /\ at[p] = "unlink" /\ cache[x].lock = None /\ Becomes(p, e)
      /\ dir' = [dir EXCEPT ![n] = None] /\ dirlock' = None
      /\ name' = [name EXCEPT ![p] = None] /\ Go(p, "unlinked")
      /\ UNCHANGED <<type, nlink, file, ip, kept>>
  BY <1>1, <1>2, <1>3, <1>4 DEF UnlinkClear, Runs, Unlocked
<1>6. x # None /\ kept[p] = None /\ n \in Names /\ InodeTypes
  BY <1>1, <1>2, <1>5 DEF TableInv, Placed, InodeTypes
<1>7. x \in Slots /\ Inum(p) \in Inums /\ type[Inum(p)] = "file" /\ Inum(p) = cache[x].inum
  BY <1>2, <1>5, <1>6, WorksOn DEF Inum
<1>8. dirlock = p /\ dir[n] = Inum(p)
  BY <1>1, <1>5 DEF TableInv, DirLocked
<1>9. l \in CacheEntries /\ l.inum = Inum(p) /\ l.ref = cache[x].ref /\ l.valid /\ l.nlink = nlink[Inum(p)]
  BY <1>2, <1>3, <1>6, LoadedIs
<1>10. /\ e \in CacheEntries /\ e.inum = Inum(p) /\ e.ref = cache[x].ref /\ e.valid
       /\ e.nlink = nlink[Inum(p)] /\ e.lock = p
  BY <1>4, <1>9 DEF CacheEntries
<1>11. /\ cache'[x] = e /\ \A s \in Slots : s # x => cache'[s] = cache[s]
       /\ cache' \in [Slots -> CacheEntries]
  BY <1>2, <1>5, <1>6, <1>7, <1>10, BecomesIs
<1>12. /\ name'[p] = None /\ name' \in [Procs -> Names \cup {None}]
       /\ at'[p] = "unlinked" /\ at' \in [Procs -> Labels]
       /\ \A q \in Procs : q # p => name'[q] = name[q] /\ at'[q] = at[q]
       /\ dir'[n] = None /\ dir' \in [Names -> Inums \cup {None}]
       /\ \A m \in Names : m # n => dir'[m] = dir[m]
  BY <1>5, <1>6 DEF Go, InodeTypes, Labels
<1>13. InodeTypes'
  BY <1>5, <1>6, <1>11, <1>12 DEF InodeTypes
<1>14. Rest(p) /\ DirStays(p)
  BY <1>5, <1>8, <1>12, NoneIsNot DEF Rest, DirStays
<1>15. Rewrites(p, x)
  <2>1. \A s \in Slots : Held(p, s)' = Held(p, s)
    BY <1>5 DEF Held
  <2> QED BY <1>2, <1>5, <1>7, <1>10, <1>11, <1>14, <2>1 DEF Rewrites, Refers
<1>16. LocksStay(p)
  BY <1>2, <1>5, <1>6, <1>10, <1>11, <1>12, LockMoves DEF Holding
<1>17. Step(p) /\ Unique' /\ \A s \in Slots : s # x => Agrees(s)'
  BY <1>15, <1>16, RewriteStep
<1>18. Others(p)
  BY <1>13, <1>17, OthersKeep
<1>19. \A s \in Slots : Agrees(s)'
  BY <1>5, <1>7, <1>10, <1>11, <1>17 DEF Agrees
<1>20. \A i \in Inums : Linked(i)'
  <2> SUFFICES ASSUME NEW i \in Inums PROVE Linked(i)'
    OBVIOUS
  <2>1. Links(i)' = Links(i) + One(Ahead(p)' = i) - One(Ahead(p) = i)
                      + One(dir'[n] = i) - One(dir[n] = i)
    BY <1>6, <1>12, <1>18, LinksNamed
  <2>2. Ahead(p) = None /\ Ahead(p)' = Inum(p)
    BY <1>2, <1>5, <1>6, <1>10, <1>11, <1>12 DEF Ahead, Inum
  <2>3. /\ One(Ahead(p)' = i) = One(Inum(p) = i) /\ One(Ahead(p) = i) = 0
        /\ One(dir'[n] = i) = 0 /\ One(dir[n] = i) = One(Inum(p) = i)
    BY <1>8, <1>12, <2>2, NoneIsNot DEF One
  <2>4. One(Inum(p) = i) \in Nat /\ Links(i) \in Nat
    BY LinksAre DEF One
  <2> QED BY <1>5, <2>1, <2>3, <2>4 DEF TableInv, Linked
<1>21. NamesUsed'
  BY <1>5, <1>12 DEF TableInv, NamesUsed
<1>22. Placed(p)' /\ DirLocked(p)'
  BY <1>2, <1>5, <1>6, <1>12, NoneIsNot DEF Placed, DirLocked
<1>23. Used(p)'
  <2>1. type'[Inum(p)'] = "file" /\ cache'[ip'[p]].valid
    BY <1>2, <1>5, <1>7, <1>10, <1>11 DEF Inum
  <2>2. file'[p] # None => type'[cache'[file'[p]].inum] = "file"
    BY <1>5, <1>6, <1>7, <1>10, <1>11 DEF TableInv, Used, InodeTypes
  <2> QED BY <1>5, <1>6, <2>1, <2>2 DEF Used
<1>24. \A q \in Procs : New(q)'
  BY <1>5, <1>12, <1>17, NewStays
<1> QED BY <1>13, <1>17, <1>18, <1>19, <1>20, <1>21, <1>22, <1>23, <1>24, TableKeeps

-----------------------------------------------------------------------------
(* Steps that touch neither the table nor the disk.                        *)
LEMMA QuietKeeps ==
  ASSUME TableInv, InodeTypes', NEW p \in Procs, UNCHANGED <<dir, type, nlink, cache>>,
         Rest(p), DirStays(p), \A s \in Slots : Held(p, s)' = Held(p, s),
         at[p] \notin Holding \cup {"drop"}, at'[p] \notin Holding \cup {"init"},
         file'[p] \in {file[p], ip[p], kept[p], None},
         ip'[p] \in {file[p], ip[p], kept[p], None}, kept'[p] = kept[p],
         Ahead(p)' = Ahead(p), Placed(p)', DirLocked(p)', Used(p)'
  PROVE  TableInv'
<1>1. Rewrites(p, None)
  BY NoneIsNot DEF Rewrites, Holding
<1>2. LocksStay(p)
  BY LocksSame
<1>3. Step(p) /\ Unique' /\ \A s \in Slots : s # None => Agrees(s)'
  BY <1>1, <1>2, RewriteStep
<1>4. Others(p)
  BY <1>3, OthersKeep
<1>5. \A i \in Inums : Linked(i)'
  BY <1>4, LinkedSame
<1>6. NamesUsed' /\ \A s \in Slots : Agrees(s)'
  BY <1>3, NoneIsNot DEF TableInv, NamesUsed
<1>7. \A q \in Procs : New(q)'
  BY <1>3, NewStays DEF Holding
<1> QED BY <1>3, <1>4, <1>5, <1>6, <1>7, TableKeeps

LEMMA CloseKeeps ==
  ASSUME TableInv, NEW p \in Procs, Close(p) PROVE TableInv'
<1>1. /\ at[p] = "idle" /\ file[p] # None /\ ip' = [ip EXCEPT ![p] = file[p]]
      /\ file' = [file EXCEPT ![p] = None] /\ Go(p, "put")
      /\ UNCHANGED <<dir, dirlock, type, nlink, cache, name, kept>>
  BY DEF Close, Runs
<1>2. ip[p] = None /\ kept[p] = None /\ name[p] = None /\ InodeTypes
  BY <1>1 DEF TableInv, Placed
<1>3. /\ ip'[p] = file[p] /\ file'[p] = None /\ at'[p] = "put"
      /\ \A q \in Procs : q # p => ip'[q] = ip[q] /\ file'[q] = file[q] /\ at'[q] = at[q]
      /\ InodeTypes'
  BY <1>1, <1>2 DEF Go, InodeTypes, Labels
<1>4. Rest(p) /\ DirStays(p)
  BY <1>1, <1>3 DEF Rest, DirStays
<1>5. ASSUME NEW s \in Slots PROVE Held(p, s)' = Held(p, s)
  <2>1. Held(p, s) = One(file[p] = s) + One(None = s) + One(None = s)
    BY <1>2 DEF Held
  <2>2. Held(p, s)' = One(None = s) + One(file[p] = s) + One(None = s)
    BY <1>1, <1>2, <1>3 DEF Held
  <2> QED BY <2>1, <2>2 DEF One
<1>6. Ahead(p)' = Ahead(p)
  BY <1>1, <1>2, <1>3 DEF Ahead
<1>7. Placed(p)' /\ DirLocked(p)'
  <2>1. dirlock # p
    BY <1>1, <1>2 DEF TableInv, DirLocked
  <2> QED BY <1>1, <1>2, <1>3, <2>1 DEF Placed, DirLocked
<1>8. Used(p)'
  <2>1. type[cache[file[p]].inum] = "file"
    BY <1>1 DEF TableInv, Used
  <2> QED BY <1>1, <1>2, <1>3, <2>1 DEF Used, Inum
<1> QED BY <1>1, <1>3, <1>4, <1>5, <1>6, <1>7, <1>8, QuietKeeps DEF Holding

LEMMA CreateKeeps ==
  ASSUME TableInv, NEW p \in Procs, NEW n \in Names, Create(p, n) PROVE TableInv'
<1>1. /\ at[p] = "idle" /\ file[p] = None /\ dirlock = None /\ dir[n] = None /\ dirlock' = p
      /\ name' = [name EXCEPT ![p] = n] /\ Go(p, "ialloc")
      /\ UNCHANGED <<dir, type, nlink, cache, file, ip, kept>>
  BY DEF Create, Runs
<1>2. ip[p] = None /\ kept[p] = None /\ InodeTypes
  BY <1>1 DEF TableInv, Placed
<1>3. /\ name'[p] = n /\ at'[p] = "ialloc"
      /\ \A q \in Procs : q # p => name'[q] = name[q] /\ at'[q] = at[q]
      /\ InodeTypes'
  BY <1>1, <1>2 DEF Go, InodeTypes, Labels
<1>4. Rest(p) /\ DirStays(p)
  BY <1>1, <1>3, NoneIsNot DEF Rest, DirStays
<1>5. \A s \in Slots : Held(p, s)' = Held(p, s)
  BY <1>1 DEF Held
<1>6. Ahead(p)' = Ahead(p)
  BY <1>1, <1>2, <1>3 DEF Ahead
<1>7. Placed(p)' /\ DirLocked(p)' /\ Used(p)'
  BY <1>1, <1>2, <1>3, NoneIsNot DEF Placed, DirLocked, Used
<1> QED BY <1>1, <1>3, <1>4, <1>5, <1>6, <1>7, QuietKeeps DEF Holding

LEMMA LinkNowhereKeeps ==
  ASSUME TableInv, NEW p \in Procs, LinkNowhere(p) PROVE TableInv'
<1>1. /\ at[p] = "enterlink" /\ name' = [name EXCEPT ![p] = None] /\ Go(p, "linkbad")
      /\ UNCHANGED <<dir, dirlock, type, nlink, cache, file, ip, kept>>
  BY DEF LinkNowhere, Runs
<1>2. ip[p] # None /\ kept[p] = None /\ InodeTypes
  BY <1>1 DEF TableInv, Placed
<1>3. /\ name'[p] = None /\ at'[p] = "linkbad"
      /\ \A q \in Procs : q # p => name'[q] = name[q] /\ at'[q] = at[q]
      /\ InodeTypes'
  BY <1>1, <1>2 DEF Go, InodeTypes, Labels
<1>4. Rest(p) /\ DirStays(p)
  BY <1>1, <1>3 DEF Rest, DirStays
<1>5. \A s \in Slots : Held(p, s)' = Held(p, s)
  BY <1>1 DEF Held
<1>6. Ahead(p)' = Ahead(p)
  BY <1>1, <1>3 DEF Ahead, Inum
<1>7. Placed(p)' /\ DirLocked(p)'
  <2>1. dirlock # p
    BY <1>1, <1>2 DEF TableInv, DirLocked
  <2> QED BY <1>1, <1>2, <1>3, <2>1 DEF Placed, DirLocked
<1>8. Used(p)'
  <2>1. Used(p)
    BY DEF TableInv
  <2> QED BY <1>1, <1>2, <1>3, <2>1 DEF Used, Inum
<1> QED BY <1>1, <1>3, <1>4, <1>5, <1>6, <1>7, <1>8, QuietKeeps DEF Holding

LEMMA PutKeepsKeeps ==
  ASSUME TableInv, NEW p \in Procs, PutKeeps(p) PROVE TableInv'
<1>1. /\ at[p] = "put" /\ Go(p, "drop")
      /\ UNCHANGED <<dir, dirlock, type, nlink, cache, file, name, ip, kept>>
  BY DEF PutKeeps, Runs
<1>2. Placed(p) /\ DirLocked(p) /\ Used(p) /\ InodeTypes
  BY DEF TableInv
<1>3. /\ at'[p] = "drop" /\ \A q \in Procs : q # p => at'[q] = at[q]
      /\ InodeTypes'
  BY <1>1, <1>2 DEF Go, InodeTypes, Labels
<1>4. Rest(p) /\ DirStays(p)
  BY <1>1, <1>3 DEF Rest, DirStays
<1>5. \A s \in Slots : Held(p, s)' = Held(p, s)
  BY <1>1 DEF Held
<1>6. Ahead(p)' = Ahead(p)
  BY <1>1, <1>3 DEF Ahead
<1>7. Placed(p)' /\ DirLocked(p)' /\ Used(p)'
  BY <1>1, <1>2, <1>3 DEF Placed, DirLocked, Used
<1> QED BY <1>1, <1>3, <1>4, <1>5, <1>6, <1>7, QuietKeeps DEF Holding

-----------------------------------------------------------------------------
(* iput.  Giving up leaves the inodes that are new to those who make them. *)
LEMMA NewLeft ==
  ASSUME TableInv, NEW p \in Procs, Step(p), at'[p] # "init",
         UNCHANGED nlink, file'[p] = file[p],
         \/ ip'[p] = ip[p] /\ kept'[p] = kept[p] /\ at'[p] = "drop"
         \/ ip'[p] = kept[p] /\ kept'[p] = None
  PROVE  \A q \in Procs : New(q)'
<1> SUFFICES ASSUME NEW q \in Procs, at'[q] = "init" PROVE New(q)'
  BY DEF New
<1>1. q # p /\ at[q] = "init" /\ ip'[q] = ip[q]
  BY DEF Step, Rest
<1>2. ip[q] # None
  BY <1>1 DEF TableInv, Placed
<1>3. ip[q] \in Slots /\ Refers(q, ip[q])
  BY <1>2, WorksOn DEF Refers
<1>4. /\ nlink[Inum(q)] = 0
      /\ \A r \in Procs \ {q} : /\ ip[r] = ip[q] => at[r] \in {"freed", "drop"}
                                /\ file[r] # ip[q] /\ kept[r] # ip[q]
  BY <1>1 DEF TableInv, New
<1>5. Inum(q)' = Inum(q)
  BY <1>1, <1>3 DEF Step, InumsStay, Inum
<1>6. \A r \in Procs \ {q} : /\ ip'[r] = ip[q] => at'[r] \in {"freed", "drop"}
                             /\ file'[r] # ip[q] /\ kept'[r] # ip[q]
  <2> SUFFICES ASSUME NEW r \in Procs \ {q}
               PROVE  /\ ip'[r] = ip[q] => at'[r] \in {"freed", "drop"}
                      /\ file'[r] # ip[q] /\ kept'[r] # ip[q]
    OBVIOUS
  <2>1. CASE r = p
    BY <1>1, <1>2, <1>4, <2>1
  <2>2. CASE r # p
    BY <1>4, <2>2 DEF Step, Rest
  <2> QED BY <2>1, <2>2
<1> QED BY <1>1, <1>4, <1>5, <1>6 DEF New

LEMMA PutInvalidatesKeeps ==
  ASSUME TableInv, NEW p \in Procs, PutInvalidates(p) PROVE TableInv'
<1>1. PICK x : x = ip[p]
  OBVIOUS
<1>2. PICK e : e = [cache[x] EXCEPT !.valid = FALSE, !.lock = None]
  OBVIOUS
<1>3. /\ at[p] = "freed" /\ Becomes(p, e) /\ Go(p, "drop")
      /\ UNCHANGED <<dir, dirlock, type, nlink, file, name, ip, kept>>
  BY <1>1, <1>2 DEF PutInvalidates, Runs
<1>4. x # None /\ Placed(p) /\ DirLocked(p) /\ Used(p) /\ InodeTypes
  BY <1>1, <1>3 DEF TableInv, Placed
<1>5. x \in Slots /\ cache[x] \in CacheEntries /\ cache[x].lock = p
  BY <1>1, <1>3, <1>4, WorksOn, LockHeld DEF InodeTypes, Holding
<1>6. e \in CacheEntries /\ e.inum = cache[x].inum /\ e.ref = cache[x].ref /\ ~e.valid /\ e.lock = None
  BY <1>2, <1>5 DEF CacheEntries
<1>7. /\ cache'[x] = e /\ \A s \in Slots : s # x => cache'[s] = cache[s]
      /\ cache' \in [Slots -> CacheEntries]
  BY <1>1, <1>3, <1>4, <1>5, <1>6, BecomesIs
<1>8. /\ at'[p] = "drop" /\ at' \in [Procs -> Labels]
      /\ \A q \in Procs : q # p => at'[q] = at[q]
  BY <1>3, <1>4 DEF Go, InodeTypes, Labels
<1>9. InodeTypes'
  BY <1>3, <1>4, <1>7, <1>8 DEF InodeTypes
<1>10. Rest(p) /\ DirStays(p)
  BY <1>3, <1>8 DEF Rest, DirStays
<1>11. Rewrites(p, x)
  <2>1. \A s \in Slots : Held(p, s)' = Held(p, s)
    BY <1>3 DEF Held
  <2> QED BY <1>1, <1>3, <1>6, <1>7, <1>10, <2>1 DEF Rewrites, Refers
<1>12. LocksStay(p)
  BY <1>1, <1>4, <1>5, <1>6, <1>7, <1>8, NoneIsNot, LockMoves DEF Holding
<1>13. Step(p) /\ Unique' /\ \A s \in Slots : s # x => Agrees(s)'
  BY <1>11, <1>12, RewriteStep
<1>14. Others(p)
  BY <1>9, <1>13, OthersKeep
<1>15. \A s \in Slots : Agrees(s)'
  BY <1>6, <1>7, <1>13 DEF Agrees
<1>16. ASSUME NEW s \in Slots PROVE cache'[s].inum = cache[s].inum
  BY <1>6, <1>7
<1>17. \A i \in Inums : Linked(i)'
  <2>1. kept[p] # None => kept[p] \in Slots
    BY <1>4 DEF InodeTypes
  <2>2. Ahead(p)' = Ahead(p)
    BY <1>3, <1>8, <1>16, <2>1 DEF Ahead
  <2> QED BY <1>3, <1>14, <2>2, LinkedSame
<1>18. NamesUsed'
  BY <1>3 DEF TableInv, NamesUsed
<1>19. Placed(p)' /\ DirLocked(p)'
  BY <1>3, <1>4, <1>8 DEF Placed, DirLocked
<1>20. Used(p)'
  <2>1. file[p] # None => type[cache'[file[p]].inum] = "file"
    BY <1>4, <1>16 DEF Used, InodeTypes
  <2>2. kept[p] # None => type[cache'[kept[p]].inum] = "file"
    BY <1>4, <1>16 DEF Used, InodeTypes
  <2> QED BY <1>3, <1>8, <2>1, <2>2 DEF Used
<1>21. \A q \in Procs : New(q)'
  BY <1>3, <1>8, <1>13, NewLeft
<1> QED BY <1>9, <1>13, <1>14, <1>15, <1>17, <1>18, <1>19, <1>20, <1>21, TableKeeps

LEMMA PutFreesKeeps ==
  ASSUME TableInv, NEW p \in Procs, PutFrees(p) PROVE TableInv'
<1>1. PICK x : x = ip[p]
  OBVIOUS
<1>2. PICK i : i = Inum(p)
  OBVIOUS
<1>3. PICK e : e = [cache[x] EXCEPT !.lock = p]
  OBVIOUS
<1>4. /\ at[p] = "put" /\ cache[x].lock = None /\ LastOf(cache[x])
      /\ type' = [type EXCEPT ![i] = "none"] /\ Becomes(p, e) /\ Go(p, "freed")
      /\ UNCHANGED <<dir, dirlock, nlink, file, name, ip, kept>>
  BY <1>1, <1>2, <1>3 DEF PutFrees, Runs, Unlocked
<1>5. x # None /\ Placed(p) /\ DirLocked(p) /\ Used(p) /\ InodeTypes
  BY <1>1, <1>4 DEF TableInv, Placed
<1>6. x \in Slots /\ i \in Inums /\ i = cache[x].inum /\ cache[x] \in CacheEntries
  BY <1>1, <1>2, <1>5, WorksOn DEF InodeTypes, Inum
<1>7. cache[x].valid /\ cache[x].ref = 1 /\ cache[x].nlink = 0
  BY <1>4 DEF LastOf
<1>8. nlink[i] = 0
  BY <1>6, <1>7 DEF TableInv, Agrees
<1>9. e \in CacheEntries /\ e.inum = i /\ e.ref = 1 /\ e.valid /\ e.nlink = 0 /\ e.lock = p
  BY <1>3, <1>6, <1>7 DEF CacheEntries
<1>10. /\ cache'[x] = e /\ \A s \in Slots : s # x => cache'[s] = cache[s]
       /\ cache' \in [Slots -> CacheEntries]
  BY <1>1, <1>4, <1>5, <1>6, <1>9, BecomesIs
<1>11. /\ at'[p] = "freed" /\ at' \in [Procs -> Labels]
       /\ \A q \in Procs : q # p => at'[q] = at[q]
       /\ type'[i] = "none" /\ type' \in [Inums -> {"none", "file"}]
       /\ \A j \in Inums : j # i => type'[j] = type[j]
  BY <1>4, <1>5, <1>6 DEF Go, InodeTypes, Labels
<1>12. InodeTypes'
  BY <1>4, <1>5, <1>10, <1>11 DEF InodeTypes
<1>13. Rest(p) /\ DirStays(p)
  BY <1>4, <1>11 DEF Rest, DirStays
<1>14. \A q \in Procs : file[q] # x /\ kept[q] # x /\ (q # p => ip[q] # x)
  BY <1>1, <1>6, <1>7, OnlyOne
<1>15. Rewrites(p, x)
  <2>1. \A s \in Slots : Held(p, s)' = Held(p, s)
    BY <1>4 DEF Held
  <2>2. \A q \in Procs : q # p => ~Refers(q, x)
    BY <1>14 DEF Refers
  <2>3. \A j \in Inums : j # cache[x].inum => nlink'[j] = nlink[j] /\ type'[j] = type[j]
    BY <1>4, <1>6, <1>11
  <2>4. \A s \in Slots : /\ s # x => cache'[s] = cache[s]
                         /\ cache'[s].inum = cache[s].inum /\ cache'[s].ref = cache[s].ref
    BY <1>6, <1>7, <1>9, <1>10
  <2>5. x \in Slots /\ Refers(p, x) /\ ip[p] = x
    BY <1>1, <1>6 DEF Refers
  <2> QED BY <1>13, <2>1, <2>2, <2>3, <2>4, <2>5 DEF Rewrites
<1>16. LocksStay(p)
  BY <1>1, <1>4, <1>5, <1>9, <1>10, <1>11, LockMoves DEF Holding
<1>17. Step(p) /\ Unique' /\ \A s \in Slots : s # x => Agrees(s)'
  BY <1>15, <1>16, RewriteStep
<1>18. Others(p)
  BY <1>12, <1>17, OthersKeep
<1>19. \A s \in Slots : Agrees(s)'
  <2>1. ip'[p] = x /\ at'[p] = "freed" /\ nlink'[i] = 0
    BY <1>1, <1>4, <1>8, <1>11
  <2>2. Agrees(x)'
    BY <1>9, <1>10, <2>1 DEF Agrees
  <2> QED BY <1>17, <2>2
<1>20. ASSUME NEW s \in Slots PROVE cache'[s].inum = cache[s].inum
  BY <1>6, <1>9, <1>10
<1>21. \A j \in Inums : Linked(j)'
  <2>1. kept[p] # None => kept[p] \in Slots
    BY <1>5 DEF InodeTypes
  <2>2. Ahead(p)' = Ahead(p)
    BY <1>4, <1>11, <1>20, <2>1 DEF Ahead
  <2> QED BY <1>4, <1>18, <2>2, LinkedSame
<1>22. NamesUsed'
  <2>1. \A n \in Names : dir[n] # i
    BY <1>6, <1>8, NamedLinks
  <2>2. \A n \in Names : dir[n] \in Inums \cup {None}
    BY <1>5 DEF InodeTypes
  <2> QED BY <1>4, <1>11, <2>1, <2>2 DEF TableInv, NamesUsed
<1>23. Placed(p)' /\ DirLocked(p)'
  BY <1>4, <1>5, <1>11 DEF Placed, DirLocked
<1>24. Used(p)'
  <2>1. ASSUME NEW s \in Slots, Refers(p, s), s # x, type[cache[s].inum] = "file"
        PROVE  type'[cache'[s].inum] = "file"
    <3>1. cache[s].inum \in Inums
      BY <2>1, ReferredTo
    <3>2. cache[s].inum # i
      BY <1>6, <2>1, <3>1 DEF TableInv, Unique
    <3> QED BY <1>11, <1>20, <2>1, <3>1, <3>2
  <2>2. file[p] # None => type'[cache'[file[p]].inum] = "file"
    <3> SUFFICES ASSUME file[p] # None PROVE type'[cache'[file[p]].inum] = "file"
      OBVIOUS
    <3>1. file[p] \in Slots /\ file[p] # x /\ type[cache[file[p]].inum] = "file"
      BY <1>5, <1>14 DEF InodeTypes, Used
    <3> QED BY <2>1, <3>1 DEF Refers
  <2>3. kept[p] # None => type'[cache'[kept[p]].inum] = "file"
    <3> SUFFICES ASSUME kept[p] # None PROVE type'[cache'[kept[p]].inum] = "file"
      OBVIOUS
    <3>1. kept[p] \in Slots /\ kept[p] # x /\ type[cache[kept[p]].inum] = "file"
      BY <1>5, <1>14 DEF InodeTypes, Used
    <3> QED BY <2>1, <3>1 DEF Refers
  <2> QED BY <1>4, <1>11, <2>2, <2>3 DEF Used
<1>25. \A q \in Procs : New(q)'
  BY <1>4, <1>11, <1>17, NewStays
<1> QED BY <1>12, <1>17, <1>18, <1>19, <1>21, <1>22, <1>23, <1>24, <1>25, TableKeeps

LEMMA PutDropsKeeps ==
  ASSUME TableInv, NEW p \in Procs, PutDrops(p) PROVE TableInv'
<1>1. PICK x : x = ip[p]
  OBVIOUS
<1>2. PICK e : e = IF cache[x].ref = 1 THEN Empty ELSE [cache[x] EXCEPT !.ref = cache[x].ref - 1]
  OBVIOUS
<1>3. /\ at[p] = "drop" /\ Becomes(p, e)
      /\ ip' = [ip EXCEPT ![p] = kept[p]] /\ kept' = [kept EXCEPT ![p] = None]
      /\ UNCHANGED <<dir, type, nlink, file, name>>
      /\ kept[p] = None => Go(p, "idle") /\ UNCHANGED dirlock
      /\ kept[p] # None => Go(p, "linkbad") /\ dirlock' = None
  BY <1>1, <1>2 DEF PutDrops, Runs
<1>4. x # None /\ Placed(p) /\ DirLocked(p) /\ Used(p) /\ InodeTypes
  BY <1>1, <1>3 DEF TableInv, Placed
<1>5. x \in Slots /\ cache[x].ref \in Nat \ {0} /\ cache[x].inum \in Inums /\ cache[x] \in CacheEntries
  BY <1>1, <1>4, WorksOn DEF InodeTypes, Inum
<1>6. cache[x].ref = 1 =>
        e \in CacheEntries /\ e.inum = None /\ e.ref = 0 /\ ~e.valid /\ e.lock = None
  <2> SUFFICES ASSUME cache[x].ref = 1
               PROVE  e \in CacheEntries /\ e.inum = None /\ e.ref = 0 /\ ~e.valid /\ e.lock = None
    OBVIOUS
  <2>1. e = [inum |-> None, ref |-> 0, valid |-> FALSE, nlink |-> 0, lock |-> None]
    BY <1>2 DEF Empty
  <2> QED BY <2>1 DEF CacheEntries
<1>7. cache[x].ref # 1 =>
        /\ e \in CacheEntries /\ e.inum = cache[x].inum /\ e.ref = cache[x].ref - 1
        /\ e.valid = cache[x].valid /\ e.nlink = cache[x].nlink /\ e.lock = cache[x].lock
  BY <1>2, <1>5 DEF CacheEntries
<1>8. /\ cache'[x] = e /\ \A s \in Slots : s # x => cache'[s] = cache[s]
      /\ cache' \in [Slots -> CacheEntries]
  BY <1>1, <1>3, <1>4, <1>5, <1>6, <1>7, BecomesIs
<1>9. e.ref = cache[x].ref - 1
  BY <1>6, <1>7
<1>10. /\ ip'[p] = kept[p] /\ kept'[p] = None
       /\ \A q \in Procs : q # p => ip'[q] = ip[q] /\ kept'[q] = kept[q]
       /\ ip' \in [Procs -> Slots \cup {None}] /\ kept' \in [Procs -> Slots \cup {None}]
  BY <1>3, <1>4 DEF InodeTypes
<1>11. /\ at' \in [Procs -> Labels] /\ \A q \in Procs : q # p => at'[q] = at[q]
       /\ kept[p] = None => at'[p] = "idle" /\ dirlock' = dirlock
       /\ kept[p] # None => at'[p] = "linkbad" /\ dirlock' = None
  <2>1. CASE kept[p] = None
    BY <1>3, <1>4, <2>1 DEF Go, InodeTypes, Labels
  <2>2. CASE kept[p] # None
    BY <1>3, <1>4, <2>2 DEF Go, InodeTypes, Labels
  <2> QED BY <2>1, <2>2
<1>12. dirlock = p <=> kept[p] # None
  BY <1>3, <1>4 DEF DirLocked
<1>13. InodeTypes'
  BY <1>3, <1>4, <1>8, <1>10, <1>11 DEF InodeTypes
<1>14. Rest(p) /\ DirStays(p)
  BY <1>3, <1>10, <1>11, <1>12, NoneIsNot DEF Rest, DirStays
<1>15. cache[x].ref = 1 => \A q \in Procs : file[q] # x /\ kept[q] # x /\ (q # p => ip[q] # x)
  BY <1>1, <1>5, OnlyOne
<1>16. ASSUME NEW s \in Slots, s # x \/ cache[x].ref # 1
       PROVE  /\ cache'[s].inum = cache[s].inum /\ cache'[s].valid = cache[s].valid
              /\ cache'[s].nlink = cache[s].nlink /\ cache'[s].lock = cache[s].lock
  BY <1>7, <1>8, <1>16
<1>17. Counted(p)
  <2> SUFFICES ASSUME NEW s \in Slots
               PROVE  /\ cache'[s].ref = cache[s].ref + Held(p, s)' - Held(p, s)
                      /\ cache'[s].ref = 0 =>
                           cache'[s].inum = None /\ ~cache'[s].valid /\ cache'[s].lock = None
                      /\ cache'[s].ref # 0 => cache'[s].inum \in Inums
    BY DEF Counted
  <2>1. Held(p, s) = One(file[p] = s) + One(x = s) + One(kept[p] = s)
    BY <1>1 DEF Held
  <2>2. Held(p, s)' = One(file[p] = s) + One(kept[p] = s) + One(None = s)
    BY <1>3, <1>10 DEF Held
  <2>3. cache[s].ref \in Nat
    BY <1>4, EntryTypes
  <2>4. cache[s].ref + Held(p, s)' - Held(p, s) = cache[s].ref - One(x = s)
    <3>1. One(None = s) = 0
      BY NoneIsNot DEF One
    <3>2. One(file[p] = s) \in Nat /\ One(kept[p] = s) \in Nat /\ One(x = s) \in Nat
      BY DEF One
    <3> QED BY <2>1, <2>2, <2>3, <3>1, <3>2
  <2>5. CASE s = x
    <3>1. One(x = s) = 1
      BY <2>5 DEF One
    <3> QED BY <1>5, <1>6, <1>7, <1>8, <1>9, <2>4, <2>5, <3>1
  <2>6. CASE s # x
    <3>1. One(x = s) = 0 /\ cache'[s] = cache[s]
      BY <1>8, <2>6 DEF One
    <3>2. /\ cache[s].ref = 0 => cache[s].inum = None /\ ~cache[s].valid /\ cache[s].lock = None
          /\ cache[s].ref # 0 => cache[s].inum \in Inums
      BY DEF TableInv, Referred
    <3> QED BY <2>3, <2>4, <3>1, <3>2
  <2> QED BY <2>5, <2>6
<1>18. InumsStay(p)
  <2> SUFFICES ASSUME NEW q \in Procs, NEW s \in Slots, q # p, Refers(q, s)
               PROVE  cache'[s].inum = cache[s].inum
    BY <1>3 DEF InumsStay
  <2>1. s # x \/ cache[x].ref # 1
    BY <1>15 DEF Refers
  <2> QED BY <1>16, <2>1
<1>19. LocksStay(p)
  <2> SUFFICES ASSUME NEW s \in Slots
               PROVE  /\ cache'[s].lock # p
                      /\ \A q \in Procs : q # p =>
                           /\ cache'[s].lock = q <=> cache[s].lock = q
                           /\ cache[s].lock = q => cache'[s].valid = cache[s].valid
    <3>1. at'[p] \notin Holding
      BY <1>11 DEF Holding
    <3> QED BY <3>1 DEF LocksStay
  <2>1. \A q \in Procs : cache[s].lock = q <=> ip[q] = s /\ at[q] \in Holding
    BY DEF TableInv, Locked
  <2>2. cache[s].lock # p
    BY <1>3, <2>1 DEF Holding
  <2>3. CASE s # x \/ cache[x].ref # 1
    BY <1>16, <2>2, <2>3
  <2>4. CASE s = x /\ cache[x].ref = 1
    <3>1. cache'[s].lock = None /\ \A q \in Procs : cache[s].lock # q
      BY <1>6, <1>8, <1>15, <2>1, <2>2, <2>4
    <3> QED BY <3>1, NoneIsNot
  <2> QED BY <2>3, <2>4
<1>20. Unique'
  <2>1. \A s \in Slots : cache'[s].inum = cache[s].inum \/ cache'[s].inum = None
    BY <1>6, <1>8, <1>16
  <2> QED BY <2>1, NoneIsNot DEF TableInv, Unique
<1>21. Step(p)
  BY <1>14, <1>17, <1>18, <1>19 DEF Step
<1>22. Others(p)
  BY <1>13, <1>21, OthersKeep
<1>23. ASSUME NEW s \in Slots PROVE Agrees(s)'
  <2> SUFFICES ASSUME cache'[s].valid
               PROVE  /\ nlink'[cache'[s].inum] = cache'[s].nlink
                      /\ type'[cache'[s].inum] = "file"
                           \/ \E q \in Procs : ip'[q] = s /\ at'[q] = "freed"
    BY DEF Agrees
  <2>1. s # x \/ cache[x].ref # 1
    BY <1>6, <1>8
  <2>2. /\ cache'[s].inum = cache[s].inum /\ cache[s].valid
        /\ cache'[s].nlink = cache[s].nlink
    BY <1>16, <2>1
  <2>3. /\ nlink[cache[s].inum] = cache[s].nlink
        /\ type[cache[s].inum] = "file" \/ \E q \in Procs : ip[q] = s /\ at[q] = "freed"
    BY <2>2 DEF TableInv, Agrees
  <2>4. ASSUME NEW q \in Procs, ip[q] = s, at[q] = "freed" PROVE ip'[q] = s /\ at'[q] = "freed"
    BY <1>3, <1>10, <1>11, <2>4
  <2> QED BY <1>3, <2>2, <2>3, <2>4
<1>24. /\ file[p] # None => file[p] \in Slots /\ cache'[file[p]].inum = cache[file[p]].inum
       /\ kept[p] # None => kept[p] \in Slots /\ cache'[kept[p]].inum = cache[kept[p]].inum
  <2>1. /\ file[p] # None => file[p] \in Slots /\ (file[p] # x \/ cache[x].ref # 1)
        /\ kept[p] # None => kept[p] \in Slots /\ (kept[p] # x \/ cache[x].ref # 1)
    BY <1>4, <1>15 DEF InodeTypes
  <2> QED BY <1>16, <2>1
<1>25. \A i \in Inums : Linked(i)'
  <2>1. Ahead(p)' = Ahead(p)
    BY <1>3, <1>10, <1>11, <1>24 DEF Ahead, Inum
  <2> QED BY <1>3, <1>22, <2>1, LinkedSame
<1>26. NamesUsed'
  BY <1>3 DEF TableInv, NamesUsed
<1>27. Placed(p)' /\ DirLocked(p)'
  BY <1>3, <1>4, <1>10, <1>11, <1>12, NoneIsNot DEF Placed, DirLocked
<1>28. Used(p)'
  <2>1. file[p] # None => type[cache'[file[p]].inum] = "file"
    BY <1>4, <1>24 DEF Used
  <2>2. kept[p] # None => type[cache'[kept[p]].inum] = "file"
    BY <1>4, <1>24 DEF Used
  <2> QED BY <1>3, <1>10, <1>11, <2>1, <2>2 DEF Used, Inum
<1>29. \A q \in Procs : New(q)'
  BY <1>3, <1>10, <1>11, <1>21, NewLeft
<1> QED BY <1>13, <1>20, <1>22, <1>23, <1>25, <1>26, <1>27, <1>28, <1>29, TableKeeps

-----------------------------------------------------------------------------
LEMMA InitTableInv == Init => TableInv
<1> SUFFICES ASSUME Init PROVE TableInv
  OBVIOUS
<1> USE NoneIsNot
<1>1. Empty \in CacheEntries
  BY DEF Empty, CacheEntries
<1>2. InodeTypes
  BY <1>1 DEF Init, InodeTypes, Labels
<1>3. \A s \in Slots : /\ cache[s].inum = None /\ cache[s].ref = 0 /\ ~cache[s].valid
                       /\ cache[s].lock = None
  BY DEF Init, Empty
<1>4. \A p \in Procs : file[p] = None /\ ip[p] = None /\ kept[p] = None /\ name[p] = None /\ at[p] = "idle"
  BY DEF Init
<1>5. ASSUME NEW s \in Slots PROVE Referred(s) /\ Locked(s) /\ Agrees(s)
  <2>1. FileOf(s) = {} /\ IpOf(s) = {} /\ KeptOf(s) = {}
    BY <1>4 DEF FileOf, IpOf, KeptOf
  <2>2. Refs(s) = 0
    BY <2>1, FS_EmptySet DEF Refs
  <2> QED BY <1>3, <1>4, <2>2 DEF Referred, Locked, Agrees, Holding
<1>6. ASSUME NEW i \in Inums PROVE Linked(i)
  <2>1. NamesOf(i) = {} /\ AheadOf(i) = {}
    BY <1>4 DEF NamesOf, AheadOf, Ahead, Init
  <2>2. Links(i) = 0
    BY <2>1, FS_EmptySet DEF Links
  <2> QED BY <2>2 DEF Linked, Init
<1>7. \A p \in Procs : Placed(p) /\ DirLocked(p) /\ Used(p) /\ New(p)
  BY <1>4 DEF Placed, DirLocked, Used, New, Init
<1>8. Unique /\ NamesUsed
  BY <1>3 DEF Unique, NamesUsed, Init
<1> QED BY <1>2, <1>5, <1>6, <1>7, <1>8 DEF TableInv

LEMMA NextTableInv == TableInv /\ [Next]_vars => TableInv'
<1> SUFFICES ASSUME TableInv, [Next]_vars PROVE TableInv'
  OBVIOUS
<1>1. ASSUME NEW p \in Procs, NEW n \in Names, Open(p, n) PROVE TableInv'
  BY <1>1, OpenKeeps
<1>2. ASSUME NEW p \in Procs, NEW n \in Names, Create(p, n) PROVE TableInv'
  BY <1>2, CreateKeeps
<1>3. ASSUME NEW p \in Procs, NEW n \in Names, Unlink(p, n) PROVE TableInv'
  BY <1>3, UnlinkKeeps
<1>4. ASSUME NEW p \in Procs, NEW n \in Names, IgetPanics(p, n) PROVE TableInv'
  BY <1>4, StillKeeps DEF IgetPanics, Stop
<1>5. ASSUME NEW p \in Procs, NEW n \in Names, NEW new \in Names, Link(p, n, new) PROVE TableInv'
  BY <1>5, LinkKeeps
<1>6. ASSUME NEW p \in Procs, IallocPanics(p) PROVE TableInv'
  BY <1>6, StillKeeps DEF IallocPanics, Stop
<1>7. ASSUME NEW p \in Procs, LinkTaken(p) PROVE TableInv'
  <2>1. CASE CanGet(dir[name[p]])
    BY <1>7, <2>1, LinkTakenKeeps
  <2>2. CASE ~CanGet(dir[name[p]])
    BY <1>7, <2>2, StillKeeps DEF LinkTaken, Stop
  <2> QED BY <2>1, <2>2
<1>8. ASSUME NEW p \in Procs,
             OpenLocked(p) \/ Close(p) \/ Ialloc(p) \/ CreateInit(p) \/ CreateEnter(p) \/ Created(p)
      PROVE TableInv'
  BY <1>8, OpenLockedKeeps, CloseKeeps, IallocKeeps, CreateInitKeeps, CreateEnterKeeps, CreatedKeeps
<1>9. ASSUME NEW p \in Procs,
             \/ UnlinkClear(p) \/ Unlinked(p) \/ LinkCount(p) \/ LinkEnter(p) \/ LinkNowhere(p)
             \/ LinkBad(p)
      PROVE TableInv'
  BY <1>9, UnlinkClearKeeps, UnlinkedKeeps, LinkCountKeeps, LinkEnterKeeps, LinkNowhereKeeps, LinkBadKeeps
<1>10. ASSUME NEW p \in Procs, PutKeeps(p) \/ PutFrees(p) \/ PutInvalidates(p) \/ PutDrops(p)
       PROVE TableInv'
  BY <1>10, PutKeepsKeeps, PutFreesKeeps, PutInvalidatesKeeps, PutDropsKeeps
<1>11. CASE Halted \/ UNCHANGED vars
  BY <1>11, StillKeeps DEF Halted, vars
<1> QED BY <1>1, <1>2, <1>3, <1>4, <1>5, <1>6, <1>7, <1>8, <1>9, <1>10, <1>11 DEF Next

-----------------------------------------------------------------------------
LEMMA TableInvSound == TableInv => TableSound
<1> SUFFICES ASSUME TableInv PROVE TableSound
  OBVIOUS
<1>1. CountsTrue
  <2>1. ASSUME NEW i \in Inums
        PROVE  nlink[i] = Cardinality({n \in Names : dir[n] = i}) + Cardinality(LinksAhead(i))
    <3>1. ASSUME NEW p \in Procs PROVE p \in AheadOf(i) <=> p \in LinksAhead(i)
      <4>1. kept[p] # None => at[p] \notin {"enterlink", "linkbad", "enter", "unlinked"}
        BY DEF TableInv, Placed
      <4>2. None # i
        BY NoneIsNot
      <4> QED BY <4>1, <4>2 DEF AheadOf, Ahead, LinksAhead
    <3>2. AheadOf(i) = LinksAhead(i)
      BY <3>1 DEF AheadOf, LinksAhead
    <3> QED BY <3>2 DEF TableInv, Linked, Links, NamesOf
  <2>2. ASSUME NEW s \in Slots
        PROVE  cache[s].ref = Cardinality({p \in Procs : file[p] = s})
                              + Cardinality({p \in Procs : ip[p] = s})
                              + Cardinality({p \in Procs : kept[p] = s})
    BY DEF TableInv, Referred, Refs, FileOf, IpOf, KeptOf
  <2> QED BY <2>1, <2>2 DEF CountsTrue
<1>2. CacheAgrees
  <2>1. ASSUME NEW i \in Inums PROVE Cardinality(Cached(i)) <= 1
    <3>1. \A s, t \in Cached(i) : s = t
      BY DEF Cached, TableInv, Unique
    <3>2. CASE Cached(i) = {}
      BY <3>2, FS_EmptySet
    <3>3. CASE Cached(i) # {}
      <4>1. PICK s : s \in Cached(i)
        BY <3>3
      <4>2. Cached(i) = {s}
        BY <3>1, <4>1
      <4> QED BY <4>2, FS_Singleton
    <3> QED BY <3>2, <3>3
  <2>2. ASSUME NEW s \in Slots, cache[s].valid, cache[s].lock = None
        PROVE  nlink[cache[s].inum] = cache[s].nlink /\ type[cache[s].inum] = "file"
    <3>1. \A q \in Procs : ~(ip[q] = s /\ at[q] = "freed")
      BY <2>2, NoneIsNot DEF TableInv, Locked, Holding
    <3> QED BY <2>2, <3>1 DEF TableInv, Agrees
  <2> QED BY <2>1, <2>2 DEF CacheAgrees
<1>3. AllocatedWhileUsed
  <2>1. \A n \in Names : dir[n] # None => type[dir[n]] = "file"
    BY DEF TableInv, NamesUsed
  <2>2. \A p \in Procs : file[p] # None => type[cache[file[p]].inum] = "file"
    BY DEF TableInv, Used
  <2>3. \A p \in Procs : at[p] \in Locking /\ Unlocked(p) => ~NoType(p)
    <3>1. \A p \in Procs : at[p] \in Locking => type[Inum(p)] = "file"
      BY DEF TableInv, Used, Locking
    <3> QED BY <3>1 DEF NoType
  <2>4. ASSUME NEW p \in Procs, at[p] = "unlink" PROVE Loaded(p).nlink >= 1
    <3>1. ip[p] # None /\ name[p] \in Names /\ dir[name[p]] = Inum(p)
      BY <2>4 DEF TableInv, Placed, DirLocked, InodeTypes
    <3>2. Loaded(p).nlink = nlink[Inum(p)] /\ Inum(p) \in Inums
      BY <3>1, LoadedIs, WorksOn
    <3> QED BY <3>1, <3>2, NamedLinks
  <2> QED BY <2>1, <2>2, <2>3, <2>4 DEF AllocatedWhileUsed
<1> QED BY <1>1, <1>2, <1>3 DEF TableSound

(* Whoever opens, creates, links, unlinks and closes at once: the link and *)
(* reference counts are those of the names, files and calls there are, the *)
(* table says what the disk says, and nothing in use is freed, so that     *)
(* ilock never finds an inode without a type (fs.c:216-352).               *)
THEOREM TableCorrect == Spec => []TableSound
<1>1. Init => TableInv
  BY InitTableInv
<1>2. TableInv /\ [Next]_vars => TableInv'
  BY NextTableInv
<1>3. TableInv => TableSound
  BY TableInvSound
<1> QED BY <1>1, <1>2, <1>3, PTL DEF Spec

----------------------------------------------------------------------------
\* The contents of files: FileContent, for any sizes of block, inode and disk.
DataBlocks == NMeta .. FsSize - 1
Places == 0 .. MaxFile
Addresses == [FileIds -> [0 .. NDirect -> Int]]

\* The place of the number of a file's bn-th block: the number of the indirect
\* block stands between.
PlaceOf(bn) == IF bn < NDirect THEN bn ELSE bn + 1

(* Numbers name data blocks that are marked used, every other used block    *)
(* is metadata, and no block is named twice.                                *)
BlocksListed(U, D, A) ==
  /\ \A g \in FileIds, m \in Places :
       BlockAt(D, A[g], m) # 0 => BlockAt(D, A[g], m) \in DataBlocks /\ BlockAt(D, A[g], m) \in U
  /\ \A x \in U : x \notin 0 .. NMeta - 1 => \E g \in FileIds, m \in Places : BlockAt(D, A[g], m) = x
  /\ 0 .. NMeta - 1 \subseteq U

BlocksSingle(D, A) ==
  \A g, h \in FileIds, m, n \in Places :
    BlockAt(D, A[g], m) # 0 /\ BlockAt(D, A[g], m) = BlockAt(D, A[h], n) => g = h /\ m = n

(* A unit of a file is where its block says; beyond the end there is 0.     *)
UnitStored(D, a, c, off) ==
  LET x == BlockAt(D, a, PlaceOf(off \div BSize))
  IN IF off < Len(c) THEN x # 0 /\ D[x][(off % BSize) + 1] = c[off + 1]
     ELSE x # 0 => D[x][(off % BSize) + 1] = 0

DataTypes(D, A, C) ==
  /\ D \in [DataBlocks -> [1 .. BSize -> Int]] /\ A \in Addresses
  /\ C \in [FileIds -> Seq(Int)]

DiskSound(U, D, A, C) ==
  /\ DataTypes(D, A, C)
  /\ BlocksListed(U, D, A) /\ BlocksSingle(D, A)
  /\ \A g \in FileIds : Len(C[g]) <= MaxFile * BSize
  /\ \A g \in FileIds : \A off \in 0 .. MaxFile * BSize - 1 : UnitStored(D, A[g], C[g], off)

InodeAddrs(I) == [g \in FileIds |-> I[g].addrs]
InodeRecords == [size : Nat, addrs : [0 .. NDirect -> Int]]

ContentSound ==
  /\ disk = [used |-> disk.used, data |-> disk.data, inodes |-> disk.inodes]
  /\ disk.inodes \in [FileIds -> InodeRecords]
  /\ DiskSound(disk.used, disk.data, InodeAddrs(disk.inodes), content)
  /\ \A g \in FileIds : disk.inodes[g].size = Len(content[g])
  /\ core = [g \in FileIds |-> core[g]]
  /\ \A g \in FileIds : core[g] = NotCached \/ core[g] = disk.inodes[g]
----------------------------------------------------------------------------
LEMMA DiskSizes ==
  /\ NMeta \in Nat /\ FsSize \in Nat /\ BSize \in Nat /\ NDirect \in Nat /\ Width \in Nat
  /\ BSize > 0 /\ NMeta > 0 /\ NMeta < FsSize
  /\ MaxFile = NDirect + BSize /\ MaxFile \in Nat /\ MaxFile * BSize \in Nat
  /\ MaxFile * BSize < Width /\ NIndirect = BSize
<1>1. /\ NMeta \in Nat /\ FsSize \in Nat /\ BSize \in Nat /\ NDirect \in Nat /\ Width \in Nat
      /\ BSize > 0 /\ NMeta > 0 /\ NMeta < FsSize /\ (NDirect + BSize) * BSize < Width
  BY ContentAssumption
<1>2. MaxFile = NDirect + BSize /\ NIndirect = BSize
  BY DEF MaxFile, NIndirect
<1>3. MaxFile \in Nat
  BY <1>1, <1>2
<1>4. MaxFile * BSize \in Nat
  BY <1>1, <1>3
<1> QED BY <1>1, <1>2, <1>3, <1>4

LEMMA NoRemainder ==
  ASSUME NEW x \in Nat, NEW w \in Nat, x < w
  PROVE  x % w = x
BY Z3

LEMMA OffsetParts ==
  ASSUME NEW off \in 0 .. MaxFile * BSize - 1
  PROVE  /\ off \div BSize \in 0 .. MaxFile - 1 /\ off % BSize \in 0 .. BSize - 1
         /\ off = BSize * (off \div BSize) + (off % BSize)
<1>1. off \in Nat /\ BSize \in Nat /\ BSize > 0 /\ MaxFile \in Nat /\ off < MaxFile * BSize
  BY DiskSizes
<1>2. /\ off \div BSize \in Int /\ off % BSize \in 0 .. BSize - 1
      /\ off = BSize * (off \div BSize) + (off % BSize)
  BY <1>1, Z3
<1>3. off \div BSize >= 0
  BY <1>1, <1>2, Z3
<1>4. off \div BSize < MaxFile
  BY <1>1, <1>2, Z3
<1> QED BY <1>1, <1>2, <1>3, <1>4

LEMMA OffsetsApart ==
  ASSUME NEW o \in 0 .. MaxFile * BSize - 1, NEW off \in 0 .. MaxFile * BSize - 1, o # off
  PROVE  o \div BSize # off \div BSize \/ o % BSize # off % BSize
<1>1. /\ o = BSize * (o \div BSize) + (o % BSize)
      /\ off = BSize * (off \div BSize) + (off % BSize)
  BY OffsetParts
<1> QED BY <1>1

LEMMA UnitIndex ==
  ASSUME NEW off \in 0 .. MaxFile * BSize - 1
  PROVE  /\ (off % BSize) + 1 \in 1 .. BSize
         /\ \A o \in 0 .. MaxFile * BSize - 1 : (o % BSize) + 1 = (off % BSize) + 1 => o % BSize = off % BSize
<1>1. BSize \in Nat /\ \A o \in 0 .. MaxFile * BSize - 1 : o % BSize \in 0 .. BSize - 1
  BY OffsetParts, DiskSizes
<1>2. \A i, j \in 0 .. BSize - 1 : i + 1 \in 1 .. BSize /\ (i + 1 = j + 1 => i = j)
  BY <1>1
<1> QED BY <1>1, <1>2

LEMMA PlaceIs ==
  /\ \A bn \in 0 .. MaxFile - 1 :
       /\ PlaceOf(bn) \in Places /\ PlaceOf(bn) # NDirect
       /\ \A cn \in 0 .. MaxFile - 1 : PlaceOf(bn) = PlaceOf(cn) => bn = cn
  /\ NDirect \in Places /\ \A n \in 0 .. NDirect : n \in Places
<1>1. NDirect \in Nat /\ MaxFile \in Nat /\ BSize \in Nat /\ BSize > 0 /\ MaxFile = NDirect + BSize
  BY DiskSizes
<1> QED BY <1>1 DEF PlaceOf, Places

(* A free block that holds zeros is named at a place that had no number.    *)
LEMMA BlockTaken ==
  ASSUME NEW U, NEW D, NEW A, NEW C, DiskSound(U, D, A, C),
         NEW E, NEW B, DataTypes(E, B, C),
         NEW f \in FileIds, NEW n \in Places, NEW x \in DataBlocks, x \notin U,
         BlockAt(D, A[f], n) = 0, BlockAt(E, B[f], n) = x, E[x] = ZeroBlock,
         \A g \in FileIds, m \in Places : g # f \/ m # n => BlockAt(E, B[g], m) = BlockAt(D, A[g], m),
         \A g \in FileIds, m \in Places :
           BlockAt(D, A[g], m) # 0 /\ m # NDirect => E[BlockAt(D, A[g], m)] = D[BlockAt(D, A[g], m)]
  PROVE  DiskSound(U \cup {x}, E, B, C)
<1>1. BlocksListed(U, D, A) /\ BlocksSingle(D, A)
  BY DEF DiskSound
<1>2. x # 0 /\ x \notin 0 .. NMeta - 1
  BY DiskSizes DEF DataBlocks
<1>3. \A g \in FileIds, m \in Places : BlockAt(D, A[g], m) # 0 => BlockAt(D, A[g], m) # x
  BY <1>1 DEF BlocksListed
<1>4. BlocksListed(U \cup {x}, E, B)
  <2>1. ASSUME NEW g \in FileIds, NEW m \in Places, BlockAt(E, B[g], m) # 0
        PROVE  BlockAt(E, B[g], m) \in DataBlocks /\ BlockAt(E, B[g], m) \in U \cup {x}
    BY <1>1, <2>1 DEF BlocksListed
  <2>2. ASSUME NEW y \in U \cup {x}, y \notin 0 .. NMeta - 1
        PROVE  \E g \in FileIds, m \in Places : BlockAt(E, B[g], m) = y
    <3>1. CASE y = x
      BY <3>1
    <3>2. CASE y \in U
      <4>1. PICK g \in FileIds, m \in Places : BlockAt(D, A[g], m) = y
        BY <1>1, <2>2, <3>2 DEF BlocksListed
      <4>2. y # 0
        BY <2>2, DiskSizes
      <4> QED BY <4>1, <4>2
    <3> QED BY <3>1, <3>2
  <2>3. 0 .. NMeta - 1 \subseteq U \cup {x}
    BY <1>1 DEF BlocksListed
  <2> QED BY <2>1, <2>2, <2>3 DEF BlocksListed
<1>5. BlocksSingle(E, B)
  <2> SUFFICES ASSUME NEW g \in FileIds, NEW h \in FileIds, NEW m \in Places, NEW k \in Places,
                      BlockAt(E, B[g], m) # 0, BlockAt(E, B[g], m) = BlockAt(E, B[h], k)
               PROVE  g = h /\ m = k
    BY DEF BlocksSingle
  <2>1. CASE (g = f /\ m = n) \/ (h = f /\ k = n)
    BY <1>3, <2>1, <1>2
  <2>2. CASE ~(g = f /\ m = n) /\ ~(h = f /\ k = n)
    BY <1>1, <2>2 DEF BlocksSingle
  <2> QED BY <2>1, <2>2
<1>6. ASSUME NEW g \in FileIds, NEW off \in 0 .. MaxFile * BSize - 1
      PROVE  UnitStored(E, B[g], C[g], off)
  <2>1. PlaceOf(off \div BSize) \in Places /\ PlaceOf(off \div BSize) # NDirect
    BY OffsetParts, PlaceIs
  <2>2. UnitStored(D, A[g], C[g], off)
    BY DEF DiskSound
  <2>3. CASE g = f /\ PlaceOf(off \div BSize) = n
    <3>1. (off % BSize) + 1 \in 1 .. BSize
      BY OffsetParts, DiskSizes
    <3>2. E[x][(off % BSize) + 1] = 0
      BY <3>1 DEF ZeroBlock
    <3> QED BY <2>2, <2>3, <3>2 DEF UnitStored
  <2>4. CASE ~(g = f /\ PlaceOf(off \div BSize) = n)
    <3>1. BlockAt(E, B[g], PlaceOf(off \div BSize)) = BlockAt(D, A[g], PlaceOf(off \div BSize))
      BY <2>1, <2>4
    <3>2. BlockAt(D, A[g], PlaceOf(off \div BSize)) # 0
          => E[BlockAt(D, A[g], PlaceOf(off \div BSize))] = D[BlockAt(D, A[g], PlaceOf(off \div BSize))]
      BY <2>1
    <3> QED BY <2>2, <3>1, <3>2 DEF UnitStored
  <2> QED BY <2>3, <2>4
<1>7. \A g \in FileIds : Len(C[g]) <= MaxFile * BSize
  BY DEF DiskSound
<1> QED BY <1>4, <1>5, <1>6, <1>7 DEF DiskSound

LEMMA NumberSound ==
  ASSUME NEW U, NEW D, NEW A, NEW C, DiskSound(U, D, A, C), NEW g \in FileIds, NEW m \in Places
  PROVE  /\ BlockAt(D, A[g], m) \in Int
         /\ BlockAt(D, A[g], m) # 0 => BlockAt(D, A[g], m) \in DataBlocks /\ BlockAt(D, A[g], m) \in U
         /\ m <= NDirect => BlockAt(D, A[g], m) = A[g][m]
         /\ m > NDirect => m - NDirect \in 1 .. BSize
         /\ A[g][NDirect] = BlockAt(D, A[g], NDirect)
<1>1. BlockAt(D, A[g], m) # 0 => BlockAt(D, A[g], m) \in DataBlocks /\ BlockAt(D, A[g], m) \in U
  BY DEF DiskSound, BlocksListed
<1>2. BlockAt(D, A[g], m) \in Int
  BY <1>1, DiskSizes DEF DataBlocks
<1>3. m > NDirect => m - NDirect \in 1 .. BSize
  BY DiskSizes DEF Places
<1>4. m <= NDirect => BlockAt(D, A[g], m) = A[g][m]
  BY DEF BlockAt
<1>5. A[g][NDirect] = BlockAt(D, A[g], NDirect)
  BY DiskSizes DEF BlockAt
<1> QED BY <1>1, <1>2, <1>3, <1>4, <1>5

LEMMA AddressTaken ==
  ASSUME NEW U, NEW D, NEW A, NEW C, DiskSound(U, D, A, C),
         NEW E, NEW B, DataTypes(E, B, C),
         NEW f \in FileIds, NEW n \in 0 .. NDirect, NEW x \in DataBlocks, x \notin U, A[f][n] = 0,
         \A y \in DataBlocks : E[y] = IF y = x THEN ZeroBlock ELSE D[y],
         \A g \in FileIds : B[g] = IF g = f THEN [A[f] EXCEPT ![n] = x] ELSE A[g]
  PROVE  DiskSound(U \cup {x}, E, B, C) /\ BlockAt(E, B[f], n) = x
<1>1. n \in Places /\ NDirect \in Places /\ n \in Int /\ n <= NDirect
  BY PlaceIs, DiskSizes
<1>2. D \in [DataBlocks -> [1 .. BSize -> Int]] /\ A \in Addresses /\ B \in Addresses
  BY DEF DiskSound, DataTypes
<1>3. \A m \in 0 .. NDirect : B[f][m] = IF m = n THEN x ELSE A[f][m]
  BY <1>2 DEF Addresses
<1>4. BlockAt(D, A[f], n) = 0 /\ BlockAt(E, B[f], n) = x
  BY <1>1, <1>3 DEF BlockAt
<1>5. ASSUME NEW g \in FileIds, NEW m \in Places, g # f \/ m # n
      PROVE  BlockAt(E, B[g], m) = BlockAt(D, A[g], m)
  <2>1. CASE m <= NDirect
    <3>1. m \in 0 .. NDirect
      BY <2>1 DEF Places
    <3>2. B[g][m] = A[g][m]
      BY <1>3, <1>5, <3>1
    <3> QED BY <2>1, <3>2 DEF BlockAt
  <2>2. CASE m > NDirect
    <3>1. m - NDirect \in 1 .. BSize /\ ~(m <= NDirect)
      BY <2>2, DiskSizes DEF Places
    <3>2. CASE g = f /\ n = NDirect
      <4>1. BlockAt(D, A[g], m) = 0
        BY <3>1, <3>2 DEF BlockAt
      <4>2. BlockAt(E, B[g], m) = E[x][m - NDirect]
        <5>1. x # 0
          BY DiskSizes DEF DataBlocks
        <5>2. B[f][NDirect] = x
          BY <1>3, <3>2
        <5> QED BY <3>1, <3>2, <5>1, <5>2 DEF BlockAt
      <4>3. E[x] = ZeroBlock
        OBVIOUS
      <4>4. ZeroBlock[m - NDirect] = 0
        BY <3>1 DEF ZeroBlock
      <4> QED BY <4>1, <4>2, <4>3, <4>4
    <3>3. CASE ~(g = f /\ n = NDirect)
      <4>1. B[g][NDirect] = A[g][NDirect]
        BY <1>3, <3>3, DiskSizes
      <4>2. A[g][NDirect] # 0 => E[A[g][NDirect]] = D[A[g][NDirect]]
        BY <1>1, NumberSound
      <4> QED BY <3>1, <4>1, <4>2 DEF BlockAt
    <3> QED BY <3>2, <3>3
  <2> QED BY <2>1, <2>2, DiskSizes DEF Places
<1>6. ASSUME NEW g \in FileIds, NEW m \in Places, BlockAt(D, A[g], m) # 0
      PROVE  E[BlockAt(D, A[g], m)] = D[BlockAt(D, A[g], m)]
  BY <1>6, NumberSound
<1>7. E[x] = ZeroBlock
  OBVIOUS
<1>8. DiskSound(U \cup {x}, E, B, C)
  BY <1>1, <1>4, <1>5, <1>6, <1>7, BlockTaken
<1> QED BY <1>4, <1>8

\* E is D with the fresh block x, whose number is entry i of the block t.
EntrySet(D, E, t, i, x) ==
  \A y \in DataBlocks :
    E[y] = IF y = x THEN ZeroBlock ELSE IF y = t THEN [D[y] EXCEPT ![i] = x] ELSE D[y]

LEMMA EntryTaken ==
  ASSUME NEW U, NEW D, NEW A, NEW C, DiskSound(U, D, A, C),
         NEW E, DataTypes(E, A, C),
         NEW f \in FileIds, NEW n \in Places, n > NDirect, NEW x \in DataBlocks, x \notin U,
         A[f][NDirect] # 0, D[A[f][NDirect]][n - NDirect] = 0,
         EntrySet(D, E, A[f][NDirect], n - NDirect, x)
  PROVE  DiskSound(U \cup {x}, E, A, C) /\ BlockAt(E, A[f], n) = x
<1>1. NDirect \in Places /\ n - NDirect \in 1 .. BSize /\ ~(n <= NDirect)
  BY PlaceIs, NumberSound, DiskSizes DEF Places
<1>2. D \in [DataBlocks -> [1 .. BSize -> Int]] /\ A \in Addresses
  BY DEF DiskSound, DataTypes
<1>3. PICK t \in DataBlocks : t = A[f][NDirect] /\ t \in U /\ t # x
  BY <1>1, NumberSound
<1>4. \A i \in 1 .. BSize : E[t][i] = IF i = n - NDirect THEN x ELSE D[t][i]
  <2>1. E[t] = [D[t] EXCEPT ![n - NDirect] = x]
    BY <1>3 DEF EntrySet
  <2>2. D[t] \in [1 .. BSize -> Int]
    BY <1>2
  <2> QED BY <2>1, <2>2
<1>5. BlockAt(D, A[f], n) = 0 /\ BlockAt(E, A[f], n) = x
  BY <1>1, <1>3, <1>4 DEF BlockAt
<1>6. ASSUME NEW g \in FileIds, NEW m \in Places, g # f \/ m # n
      PROVE  BlockAt(E, A[g], m) = BlockAt(D, A[g], m)
  <2>1. CASE m <= NDirect
    BY <2>1 DEF BlockAt
  <2>2. CASE m > NDirect
    <3>0. m \in Int /\ n \in Int /\ NDirect \in Int
      BY DiskSizes DEF Places
    <3>1. m - NDirect \in 1 .. BSize /\ ~(m <= NDirect) /\ (m - NDirect = n - NDirect => m = n)
      <4>1. m - NDirect \in 1 .. BSize
        BY <2>2, DiskSizes DEF Places
      <4> QED BY <2>2, <3>0, <4>1
    <3>2. CASE g = f
      BY <1>3, <1>4, <1>6, <3>1, <3>2 DEF BlockAt
    <3>3. CASE g # f
      <4>1. A[g][NDirect] # 0 => A[g][NDirect] \in DataBlocks /\ A[g][NDirect] \in U
        BY <1>1, NumberSound
      <4>2. A[g][NDirect] # t
        <5>1. BlockAt(D, A[g], NDirect) = A[g][NDirect] /\ BlockAt(D, A[f], NDirect) = t
          BY <1>1, <1>3, NumberSound
        <5>2. BlockAt(D, A[f], NDirect) # 0
          BY <1>3, <5>1
        <5> QED BY <1>1, <3>3, <5>1, <5>2 DEF DiskSound, BlocksSingle
      <4>3. A[g][NDirect] # 0 => E[A[g][NDirect]] = D[A[g][NDirect]]
        BY <4>1, <4>2, <1>3 DEF EntrySet
      <4> QED BY <3>1, <4>3 DEF BlockAt
    <3> QED BY <3>2, <3>3
  <2> QED BY <2>1, <2>2, DiskSizes DEF Places
<1>7. ASSUME NEW g \in FileIds, NEW m \in Places, BlockAt(D, A[g], m) # 0, m # NDirect
      PROVE  E[BlockAt(D, A[g], m)] = D[BlockAt(D, A[g], m)]
  <2>1. BlockAt(D, A[g], m) \in DataBlocks /\ BlockAt(D, A[g], m) # x
    BY <1>7, NumberSound
  <2>2. BlockAt(D, A[g], m) # t
    <3>1. BlockAt(D, A[f], NDirect) = t
      BY <1>1, <1>3, NumberSound
    <3> QED BY <3>1, <1>1, <1>7 DEF DiskSound, BlocksSingle
  <2> QED BY <2>1, <2>2, <1>3 DEF EntrySet
<1>8. E[x] = ZeroBlock
  BY DEF EntrySet
<1>9. DiskSound(U \cup {x}, E, A, C)
  BY <1>5, <1>6, <1>7, <1>8, BlockTaken
<1> QED BY <1>5, <1>9

(* K is C with the unit u of f at off.                                      *)
UnitWritten(C, K, f, off, u) ==
  /\ K \in [FileIds -> Seq(Int)] /\ \A g \in FileIds : g # f => K[g] = C[g]
  /\ off <= Len(C[f]) /\ Len(K[f]) = IF off = Len(C[f]) THEN off + 1 ELSE Len(C[f])
  /\ K[f][off + 1] = u /\ \A j \in 1 .. Len(C[f]) : j # off + 1 => K[f][j] = C[f][j]

(* A unit is put where its offset is.                                       *)
LEMMA UnitPut ==
  ASSUME NEW U, NEW D, NEW A, NEW C, DiskSound(U, D, A, C),
         NEW f \in FileIds, NEW off \in 0 .. MaxFile * BSize - 1, NEW u \in Int, NEW y,
         y = BlockAt(D, A[f], PlaceOf(off \div BSize)), y # 0,
         NEW E, E = [D EXCEPT ![y] = [D[y] EXCEPT ![(off % BSize) + 1] = u]],
         NEW K, UnitWritten(C, K, f, off, u)
  PROVE  DiskSound(U, E, A, K)
<1>0. /\ K \in [FileIds -> Seq(Int)] /\ \A g \in FileIds : g # f => K[g] = C[g]
      /\ off <= Len(C[f]) /\ Len(K[f]) = IF off = Len(C[f]) THEN off + 1 ELSE Len(C[f])
      /\ K[f][off + 1] = u /\ \A j \in 1 .. Len(C[f]) : j # off + 1 => K[f][j] = C[f][j]
  BY DEF UnitWritten
<1>1. PlaceOf(off \div BSize) \in Places /\ PlaceOf(off \div BSize) # NDirect /\ NDirect \in Places
  BY OffsetParts, PlaceIs
<1>2. y \in DataBlocks /\ D \in [DataBlocks -> [1 .. BSize -> Int]] /\ A \in Addresses
  BY <1>1, NumberSound DEF DiskSound, DataTypes
<1>3. (off % BSize) + 1 \in 1 .. BSize
  BY UnitIndex
<1>4. /\ E \in [DataBlocks -> [1 .. BSize -> Int]]
      /\ \A z \in DataBlocks : z # y => E[z] = D[z]
      /\ \A i \in 1 .. BSize : E[y][i] = IF i = (off % BSize) + 1 THEN u ELSE D[y][i]
  <2>1. D[y] \in [1 .. BSize -> Int]
    BY <1>2
  <2>2. PICK w : w = [D[y] EXCEPT ![(off % BSize) + 1] = u]
    OBVIOUS
  <2>3. w \in [1 .. BSize -> Int] /\ \A i \in 1 .. BSize : w[i] = IF i = (off % BSize) + 1 THEN u ELSE D[y][i]
    BY <1>3, <2>1, <2>2
  <2>4. E = [D EXCEPT ![y] = w]
    BY <2>2
  <2> QED BY <1>2, <2>3, <2>4
<1>5. ASSUME NEW g \in FileIds, NEW m \in Places
      PROVE  BlockAt(E, A[g], m) = BlockAt(D, A[g], m)
  <2>1. A[g][NDirect] # y
    <3>1. BlockAt(D, A[g], NDirect) = A[g][NDirect]
      BY <1>1, NumberSound
    <3> QED BY <3>1, <1>1 DEF DiskSound, BlocksSingle
  <2>2. A[g][NDirect] # 0 => E[A[g][NDirect]] = D[A[g][NDirect]]
    <3>1. A[g][NDirect] # 0 => A[g][NDirect] \in DataBlocks
      BY <1>1, NumberSound
    <3> QED BY <1>4, <2>1, <3>1
  <2> QED BY <2>2 DEF BlockAt
<1>6. ASSUME NEW g \in FileIds, NEW o \in 0 .. MaxFile * BSize - 1
      PROVE  UnitStored(E, A[g], K[g], o)
  <2> DEFINE pl == PlaceOf(o \div BSize)
             z == BlockAt(D, A[g], pl)
             i == (o % BSize) + 1
  <2>1. pl \in Places /\ i \in 1 .. BSize /\ BlockAt(E, A[g], pl) = z
    <3>1. o \div BSize \in 0 .. MaxFile - 1
      BY OffsetParts
    <3>2. pl \in Places
      BY <3>1, PlaceIs
    <3>3. i \in 1 .. BSize
      BY UnitIndex
    <3> QED BY <1>5, <3>2, <3>3
  <2>2. IF o < Len(C[g]) THEN z # 0 /\ D[z][i] = C[g][o + 1] ELSE z # 0 => D[z][i] = 0
    BY DEF DiskSound, UnitStored
  <2>3. z # 0 => z \in DataBlocks
    BY <2>1, NumberSound
  <2>4. CASE g = f /\ o = off
    <3>1. z = y /\ i = (off % BSize) + 1
      BY <2>4
    <3>2. E[z][i] = u /\ K[g][o + 1] = u /\ o < Len(K[g])
      <4>1. Len(C[f]) \in Nat /\ off \in Nat
        BY DiskSizes DEF DiskSound, DataTypes
      <4> QED BY <1>0, <1>3, <1>4, <2>4, <3>1, <4>1
    <3> QED BY <2>1, <3>1, <3>2 DEF UnitStored
  <2>5. CASE g # f
    <3>1. z # 0 => z # y
      BY <1>1, <2>1, <2>5 DEF DiskSound, BlocksSingle
    <3>2. K[g] = C[g] /\ (z # 0 => E[z] = D[z])
      BY <1>0, <1>4, <2>3, <2>5, <3>1
    <3> QED BY <2>1, <2>2, <3>2 DEF UnitStored
  <2>6. CASE g = f /\ o # off
    <3>1. z # 0 => E[z][i] = D[z][i]
      <4>1. CASE o \div BSize = off \div BSize
        <5>1. i # (off % BSize) + 1
          <6>1. o % BSize # off % BSize
            BY <2>6, <4>1, OffsetsApart
          <6> QED BY <6>1, UnitIndex
        <5>2. z = y
          BY <2>6, <4>1
        <5> QED BY <1>4, <2>1, <5>1, <5>2
      <4>2. CASE o \div BSize # off \div BSize
        <5>1. pl # PlaceOf(off \div BSize)
          BY <4>2, OffsetParts, PlaceIs
        <5>2. z # 0 => z # y
          BY <1>1, <2>1, <5>1 DEF DiskSound, BlocksSingle
        <5> QED BY <1>4, <2>3, <5>2
      <4> QED BY <4>1, <4>2
    <3>2. /\ o < Len(K[g]) <=> o < Len(C[g])
          /\ o < Len(C[g]) => K[g][o + 1] = C[g][o + 1]
      <4>1. Len(C[f]) \in Nat /\ off \in Nat /\ o \in Nat
        BY DiskSizes DEF DiskSound, DataTypes
      <4>2. o < Len(C[g]) => o + 1 \in 1 .. Len(C[f]) /\ o + 1 # off + 1
        BY <4>1, <2>6
      <4> QED BY <1>0, <4>1, <4>2, <2>6
    <3> QED BY <2>1, <2>2, <3>1, <3>2 DEF UnitStored
  <2> HIDE DEF pl, z, i
  <2> QED BY <2>4, <2>5, <2>6
<1>7. BlocksListed(U, E, A) /\ BlocksSingle(E, A)
  <2>1. BlocksListed(U, E, A)
    <3>1. BlocksListed(U, D, A)
      BY DEF DiskSound
    <3>2. ASSUME NEW g \in FileIds, NEW m \in Places, BlockAt(E, A[g], m) # 0
          PROVE  BlockAt(E, A[g], m) \in DataBlocks /\ BlockAt(E, A[g], m) \in U
      BY <1>5, <3>1, <3>2 DEF BlocksListed
    <3>3. ASSUME NEW z \in U, z \notin 0 .. NMeta - 1
          PROVE  \E g \in FileIds, m \in Places : BlockAt(E, A[g], m) = z
      <4>1. PICK g \in FileIds, m \in Places : BlockAt(D, A[g], m) = z
        BY <3>1, <3>3 DEF BlocksListed
      <4> QED BY <1>5, <4>1
    <3>4. 0 .. NMeta - 1 \subseteq U
      BY <3>1 DEF BlocksListed
    <3> QED BY <3>2, <3>3, <3>4 DEF BlocksListed
  <2>2. BlocksSingle(E, A)
    <3>1. BlocksSingle(D, A)
      BY DEF DiskSound
    <3> QED BY <1>5, <3>1 DEF BlocksSingle
  <2> QED BY <2>1, <2>2
<1>8. \A g \in FileIds : Len(K[g]) <= MaxFile * BSize
  <2>1. Len(C[f]) \in Nat /\ off \in Nat /\ MaxFile * BSize \in Nat
    BY DiskSizes DEF DiskSound, DataTypes
  <2>2. off + 1 <= MaxFile * BSize /\ \A g \in FileIds : Len(C[g]) <= MaxFile * BSize
    BY <2>1 DEF DiskSound
  <2> QED BY <1>0, <2>1, <2>2
<1>9. DataTypes(E, A, K)
  BY <1>0, <1>2, <1>4 DEF DataTypes
<1> QED BY <1>6, <1>7, <1>8, <1>9 DEF DiskSound

LEMMA FirstOf ==
  ASSUME NEW S \in SUBSET Nat, S # {}
  PROVE  \E x \in S : \A y \in S : x <= y
<1> DEFINE less == {ss \in Nat \X Nat : ss[1] < ss[2]}
<1>1. IsWellFoundedOn(less, Nat)
  BY NatLessThanWellFounded DEF OpToRel
<1>2. PICK x \in S : \A y \in S : ~(<<y, x>> \in less)
  BY <1>1, WFMin
<1>3. ASSUME NEW y \in S PROVE x <= y
  <2>1. y \in Nat /\ x \in Nat /\ ~(<<y, x>> \in less)
    BY <1>2
  <2>2. y < x => <<y, x>> \in less
    BY <2>1
  <2> QED BY <2>1, <2>2
<1> QED BY <1>3

LEMMA Inducts ==
  ASSUME NEW n \in Nat, NEW S, 0 \in S, \A k \in 1 .. n : k - 1 \in S => k \in S
  PROVE  \A k \in 0 .. n : k \in S
<1> DEFINE off == {k \in 0 .. n : k \notin S}
<1> SUFFICES ASSUME off # {} PROVE FALSE
  OBVIOUS
<1>1. off \in SUBSET Nat
  OBVIOUS
<1>2. PICK k \in off : \A y \in off : k <= y
  BY <1>1, FirstOf
<1>3. k \in 0 .. n /\ k \notin S
  BY <1>2
<1>4. k \in 1 .. n /\ k - 1 \in 0 .. n /\ ~(k <= k - 1)
  BY <1>3
<1>5. k - 1 \in S
  BY <1>2, <1>4
<1> QED BY <1>3, <1>4, <1>5

----------------------------------------------------------------------------
CallStates ==
  [used : SUBSET Int, data : [DataBlocks -> [1 .. BSize -> Int]], ip : InodeRecords,
   dip : InodeRecords, at : Int, out : BOOLEAN, got : Seq(Int)]

WithFile(A, f, s) == [A EXCEPT ![f] = s.ip.addrs]

CallSound(s, f, A, C) ==
  /\ s \in CallStates /\ ~s.out
  /\ DiskSound(s.used, s.data, WithFile(A, f, s), C)

SameDisk(s, r) == r.used = s.used /\ r.data = s.data /\ r.ip = s.ip

(* r comes from s by finding the m-th number of f, or panics.               *)
Mapped(s, r, f, A, C, m) ==
  /\ \/ r.out
     \/ /\ CallSound(r, f, A, C)
        /\ r.at # 0 /\ r.at = BlockAt(r.data, r.ip.addrs, m)
        /\ r.dip = s.dip /\ r.got = s.got /\ r.ip.size = s.ip.size
  /\ BlockAt(s.data, s.ip.addrs, m) # 0 => ~r.out /\ SameDisk(s, r)

BlockGiven(s, r, x) ==
  /\ x \in DataBlocks /\ x \notin s.used
  /\ r \in CallStates
  /\ r.used = s.used \cup {x} /\ r.at = x
  /\ r.data \in [DataBlocks -> [1 .. BSize -> Int]]
  /\ \A y \in DataBlocks : r.data[y] = IF y = x THEN ZeroBlock ELSE s.data[y]
  /\ r.ip = s.ip /\ r.dip = s.dip /\ r.got = s.got /\ r.out = s.out

LEMMA ZeroBlockIs == ZeroBlock \in [1 .. BSize -> Int]
BY DEF ZeroBlock

LEMMA BallocIs ==
  ASSUME NEW s \in CallStates
  PROVE  Balloc(s).out \/ \E x \in DataBlocks : BlockGiven(s, Balloc(s), x)
<1>1. CASE Free(s) = {}
  BY <1>1 DEF Balloc, CallStates
<1>2. CASE Free(s) # {}
  <2>1. Free(s) \in SUBSET Nat /\ Free(s) \subseteq DataBlocks
    BY DiskSizes DEF Free, DataBlocks
  <2>2. \E x \in Free(s) : \A y \in Free(s) : x <= y
    BY <1>2, <2>1, FirstOf
  <2> DEFINE x == CHOOSE z \in Free(s) : \A y \in Free(s) : z <= y
  <2>3. x \in Free(s)
    BY <2>2
  <2>4. Balloc(s) = [s EXCEPT !.used = s.used \cup {x}, !.data[x] = ZeroBlock, !.at = x]
    BY <1>2 DEF Balloc
  <2> HIDE DEF x
  <2>5. x \in DataBlocks /\ x \notin s.used /\ x \in Int
    BY <2>1, <2>3, DiskSizes DEF Free
  <2>6. PICK E : E = [s.data EXCEPT ![x] = ZeroBlock]
    OBVIOUS
  <2>7. /\ E \in [DataBlocks -> [1 .. BSize -> Int]]
        /\ \A y \in DataBlocks : E[y] = IF y = x THEN ZeroBlock ELSE s.data[y]
    BY <2>5, <2>6, ZeroBlockIs DEF CallStates
  <2>8. Balloc(s) = [s EXCEPT !.used = s.used \cup {x}, !.data = E, !.at = x]
    BY <2>4, <2>6
  <2>9. s.used \cup {x} \in SUBSET Int
    BY <2>5 DEF CallStates
  <2>10. PICK V : V = s.used \cup {x}
    OBVIOUS
  <2>11. PICK r : r = [s EXCEPT !.used = V, !.data = E, !.at = x]
    OBVIOUS
  <2>12. /\ r \in CallStates /\ r.used = V /\ r.data = E /\ r.at = x
         /\ r.ip = s.ip /\ r.dip = s.dip /\ r.got = s.got /\ r.out = s.out
    BY <2>5, <2>7, <2>9, <2>10, <2>11 DEF CallStates
  <2>13. BlockGiven(s, r, x)
    BY <2>5, <2>7, <2>10, <2>12 DEF BlockGiven
  <2>14. r = Balloc(s)
    BY <2>8, <2>10, <2>11
  <2> QED BY <2>5, <2>13, <2>14
<1> QED BY <1>1, <1>2

CallShape(s, f, A, C) ==
  /\ s \in CallStates /\ s.ip.addrs \in [0 .. NDirect -> Int]
  /\ WithFile(A, f, s) \in Addresses /\ WithFile(A, f, s)[f] = s.ip.addrs
  /\ \A g \in FileIds : g # f => WithFile(A, f, s)[g] = A[g]
  /\ s.data \in [DataBlocks -> [1 .. BSize -> Int]] /\ C \in [FileIds -> Seq(Int)]

LEMMA CallParts ==
  ASSUME NEW s, NEW f \in FileIds, NEW A \in Addresses, NEW C, CallSound(s, f, A, C)
  PROVE  CallShape(s, f, A, C)
<1>1. s \in CallStates /\ C \in [FileIds -> Seq(Int)]
  BY DEF CallSound, DiskSound, DataTypes
<1>2. s.ip.addrs \in [0 .. NDirect -> Int] /\ s.data \in [DataBlocks -> [1 .. BSize -> Int]]
  BY <1>1 DEF CallStates, InodeRecords
<1> QED BY <1>1, <1>2 DEF CallShape, WithFile, Addresses

LEMMA BmapAddrIs ==
  ASSUME NEW s, NEW f \in FileIds, NEW A \in Addresses, NEW C, CallSound(s, f, A, C),
         NEW n \in 0 .. NDirect
  PROVE  Mapped(s, BmapAddr(s, n), f, A, C, n)
<1>1. /\ s \in CallStates /\ s.ip.addrs \in [0 .. NDirect -> Int]
      /\ WithFile(A, f, s) \in Addresses /\ WithFile(A, f, s)[f] = s.ip.addrs
      /\ \A g \in FileIds : g # f => WithFile(A, f, s)[g] = A[g]
      /\ C \in [FileIds -> Seq(Int)]
  <2>1. CallShape(s, f, A, C)
    BY CallParts
  <2> QED BY <2>1 DEF CallShape
<1>2. ~s.out /\ DiskSound(s.used, s.data, WithFile(A, f, s), C)
  BY DEF CallSound
<1>3. BlockAt(s.data, s.ip.addrs, n) = s.ip.addrs[n]
  BY DiskSizes DEF BlockAt
<1>4. CASE s.ip.addrs[n] # 0
  <2>1. PICK r : r = [s EXCEPT !.at = s.ip.addrs[n]]
    OBVIOUS
  <2>2. /\ r \in CallStates /\ r.used = s.used /\ r.data = s.data /\ r.ip = s.ip
        /\ r.dip = s.dip /\ r.got = s.got /\ ~r.out /\ r.at = s.ip.addrs[n]
    BY <1>1, <1>2, <2>1 DEF CallStates
  <2>3. CallSound(r, f, A, C)
    BY <1>2, <2>2 DEF CallSound, WithFile
  <2>4. BmapAddr(s, n) = r
    BY <1>4, <2>1 DEF BmapAddr
  <2>5. Mapped(s, r, f, A, C, n)
    BY <1>3, <1>4, <2>2, <2>3 DEF Mapped, SameDisk
  <2> QED BY <2>4, <2>5
<1>5. CASE s.ip.addrs[n] = 0
  <2> DEFINE a == Balloc(s)
  <2>1. CASE a.out
    <3>1. BmapAddr(s, n) = a
      BY <1>5, <2>1 DEF BmapAddr
    <3> QED BY <1>3, <1>5, <2>1, <3>1 DEF Mapped
  <2>2. CASE ~a.out
    <3>1. PICK x \in DataBlocks : BlockGiven(s, a, x)
      BY <1>1, <2>2, BallocIs
    <3>2. BmapAddr(s, n) = [a EXCEPT !.ip.addrs[n] = a.at]
      BY <1>5, <2>2 DEF BmapAddr
    <3> HIDE DEF a
    <3>3. /\ x \notin s.used /\ a \in CallStates /\ a.used = s.used \cup {x} /\ a.at = x
          /\ \A y \in DataBlocks : a.data[y] = IF y = x THEN ZeroBlock ELSE s.data[y]
          /\ a.ip = s.ip /\ a.dip = s.dip /\ a.got = s.got /\ a.out = s.out
          /\ a.data \in [DataBlocks -> [1 .. BSize -> Int]]
      BY <3>1 DEF BlockGiven
    <3>4. x \in Int /\ x # 0
      BY DiskSizes DEF DataBlocks
    <3>5. PICK w : w = [s.ip.addrs EXCEPT ![n] = x]
      OBVIOUS
    <3>6. w \in [0 .. NDirect -> Int] /\ w[n] = x
      BY <1>1, <3>4, <3>5
    <3>7. PICK v : v = [s.ip EXCEPT !.addrs = w]
      OBVIOUS
    <3>8. v \in InodeRecords /\ v.addrs = w /\ v.size = s.ip.size
      BY <1>1, <3>6, <3>7 DEF CallStates, InodeRecords
    <3>9. PICK r : r = [a EXCEPT !.ip = v]
      OBVIOUS
    <3>10. BmapAddr(s, n) = r
      BY <3>2, <3>3, <3>5, <3>7, <3>9
    <3>11. /\ r \in CallStates /\ r.ip = v /\ r.used = a.used /\ r.data = a.data /\ r.at = x
           /\ r.dip = s.dip /\ r.got = s.got /\ r.out = s.out
      BY <3>3, <3>8, <3>9 DEF CallStates
    <3>12. \A g \in FileIds : WithFile(A, f, r)[g]
                                = IF g = f THEN [WithFile(A, f, s)[f] EXCEPT ![n] = x] ELSE WithFile(A, f, s)[g]
      <4>1. WithFile(A, f, r) = [A EXCEPT ![f] = w]
        BY <3>8, <3>11 DEF WithFile
      <4> QED BY <1>1, <3>5, <4>1 DEF Addresses
    <3>13. DataTypes(r.data, WithFile(A, f, r), C)
      BY <1>1, <3>3, <3>6, <3>8, <3>11 DEF DataTypes, WithFile, Addresses
    <3>14. \A y \in DataBlocks : r.data[y] = IF y = x THEN ZeroBlock ELSE s.data[y]
      BY <3>3, <3>11
    <3>15. DiskSound(s.used \cup {x}, r.data, WithFile(A, f, r), C)
      <4>1. WithFile(A, f, s)[f][n] = 0 /\ x \notin s.used
        BY <1>1, <1>5, <3>3
      <4>2. DiskSound(s.used, s.data, WithFile(A, f, s), C)
        BY <1>2
      <4> QED BY <4>1, <4>2, <3>12, <3>13, <3>14, AddressTaken
    <3>16. CallSound(r, f, A, C)
      BY <1>2, <3>3, <3>11, <3>15 DEF CallSound
    <3>17. BlockAt(r.data, r.ip.addrs, n) = x
      BY <3>6, <3>8, <3>11, DiskSizes DEF BlockAt
    <3>18. Mapped(s, r, f, A, C, n)
      BY <1>3, <1>5, <3>4, <3>8, <3>11, <3>16, <3>17 DEF Mapped
    <3> QED BY <3>10, <3>18
  <2> QED BY <2>1, <2>2
<1> QED BY <1>4, <1>5

LEMMA BmapIs ==
  ASSUME NEW s, NEW f \in FileIds, NEW A \in Addresses, NEW C, CallSound(s, f, A, C),
         NEW bn \in 0 .. MaxFile - 1
  PROVE  Mapped(s, Bmap(s, bn), f, A, C, PlaceOf(bn))
<1>0. bn \in Int /\ NDirect \in Nat /\ MaxFile = NDirect + BSize /\ BSize \in Nat
  BY DiskSizes
<1>1. CASE bn < NDirect
  <2>1. Bmap(s, bn) = BmapAddr(s, bn) /\ PlaceOf(bn) = bn /\ bn \in 0 .. NDirect
    BY <1>0, <1>1 DEF Bmap, PlaceOf
  <2> QED BY <2>1, BmapAddrIs
<1>2. CASE ~(bn < NDirect)
  <2> DEFINE a == BmapAddr(s, NDirect)
             t == a.at
             i == bn - NDirect + 1
             m == PlaceOf(bn)
             r == Bmap(s, bn)
  <2>1. m \in Places /\ m = bn + 1 /\ m > NDirect /\ ~(m <= NDirect) /\ m - NDirect = i
    <3>1. m = bn + 1
      BY <1>2 DEF PlaceOf
    <3>2. m \in Places
      BY PlaceIs
    <3> QED BY <1>0, <1>2, <3>1, <3>2
  <2>2. Mapped(s, a, f, A, C, NDirect)
    <3>1. NDirect \in 0 .. NDirect
      BY <1>0
    <3> QED BY <3>1, BmapAddrIs
  <2>3. /\ a.out => r = a
        /\ ~a.out /\ a.data[t][i] # 0 => r = [a EXCEPT !.at = a.data[t][i]]
        /\ ~a.out /\ ~(a.data[t][i] # 0) =>
             r = IF Balloc(a).out THEN Balloc(a) ELSE [Balloc(a) EXCEPT !.data[t][i] = Balloc(a).at]
    BY <1>2 DEF Bmap
  <2> HIDE DEF a, r
  <2>4. BlockAt(s.data, s.ip.addrs, m)
        = IF s.ip.addrs[NDirect] = 0 THEN 0 ELSE s.data[s.ip.addrs[NDirect]][i]
    BY <2>1 DEF BlockAt
  <2>5. BlockAt(s.data, s.ip.addrs, NDirect) = s.ip.addrs[NDirect]
    BY <1>0 DEF BlockAt
  <2>6. CASE a.out
    <3>1. s.ip.addrs[NDirect] = 0
      BY <2>2, <2>5, <2>6 DEF Mapped
    <3>2. r.out
      BY <2>3, <2>6
    <3> QED BY <2>4, <3>1, <3>2 DEF Mapped, r
  <2>7. CASE ~a.out
    <3>1. /\ CallSound(a, f, A, C) /\ t # 0 /\ t = BlockAt(a.data, a.ip.addrs, NDirect)
          /\ a.dip = s.dip /\ a.got = s.got /\ a.ip.size = s.ip.size
      BY <2>2, <2>7 DEF Mapped
    <3>2. s.ip.addrs[NDirect] # 0 => SameDisk(s, a)
      BY <2>2, <2>5 DEF Mapped
    <3>3. CallShape(a, f, A, C)
      BY <3>1, CallParts
    <3>4. /\ a \in CallStates /\ a.ip.addrs \in [0 .. NDirect -> Int]
          /\ WithFile(A, f, a) \in Addresses /\ WithFile(A, f, a)[f] = a.ip.addrs
          /\ a.data \in [DataBlocks -> [1 .. BSize -> Int]] /\ C \in [FileIds -> Seq(Int)]
      BY <3>3 DEF CallShape
    <3>5. DiskSound(a.used, a.data, WithFile(A, f, a), C) /\ ~a.out
      BY <3>1 DEF CallSound
    <3>6. t = a.ip.addrs[NDirect] /\ t \in DataBlocks /\ t \in a.used
      <4>1. t = a.ip.addrs[NDirect]
        BY <1>0, <3>1 DEF BlockAt
      <4>2. BlockAt(a.data, WithFile(A, f, a)[f], NDirect) # 0 =>
              /\ BlockAt(a.data, WithFile(A, f, a)[f], NDirect) \in DataBlocks
              /\ BlockAt(a.data, WithFile(A, f, a)[f], NDirect) \in a.used
        BY <3>5, PlaceIs, NumberSound
      <4> QED BY <3>1, <3>4, <4>1, <4>2
    <3>7. i \in 1 .. BSize /\ a.data[t][i] \in Int
      <4>1. i \in 1 .. BSize
        BY <1>0, <1>2
      <4> QED BY <3>4, <3>6, <4>1
    <3>8. BlockAt(s.data, s.ip.addrs, m) # 0 => SameDisk(s, a) /\ a.data[t][i] # 0
      BY <2>4, <3>2, <3>6 DEF SameDisk
    <3>9. CASE a.data[t][i] # 0
      <4>1. PICK q : q = [a EXCEPT !.at = a.data[t][i]]
        OBVIOUS
      <4>2. /\ q \in CallStates /\ q.used = a.used /\ q.data = a.data /\ q.ip = a.ip
            /\ q.dip = a.dip /\ q.got = a.got /\ ~q.out /\ q.at = a.data[t][i]
        BY <3>4, <3>5, <3>7, <4>1 DEF CallStates
      <4>3. CallSound(q, f, A, C)
        BY <3>5, <4>2 DEF CallSound, WithFile
      <4>4. BlockAt(q.data, q.ip.addrs, m) = q.at
        BY <2>1, <3>1, <3>6, <4>2 DEF BlockAt
      <4>5. Mapped(s, q, f, A, C, m)
        BY <3>1, <3>8, <3>9, <4>2, <4>3, <4>4 DEF Mapped, SameDisk
      <4>6. q = r
        BY <2>3, <2>7, <3>9, <4>1
      <4> QED BY <4>5, <4>6 DEF r
    <3>10. CASE ~(a.data[t][i] # 0)
      <4> DEFINE b == Balloc(a)
      <4>1. CASE b.out
        <5>1. r.out
          BY <2>3, <2>7, <3>10, <4>1
        <5> QED BY <3>8, <3>10, <5>1 DEF Mapped, r
      <4>2. CASE ~b.out
        <5>1. PICK x \in DataBlocks : BlockGiven(a, b, x)
          BY <3>4, <4>2, BallocIs
        <5>2. r = [b EXCEPT !.data[t][i] = b.at]
          BY <2>3, <2>7, <3>10, <4>2
        <5> HIDE DEF b
        <5>3. /\ x \notin a.used /\ b \in CallStates /\ b.used = a.used \cup {x} /\ b.at = x
              /\ \A y \in DataBlocks : b.data[y] = IF y = x THEN ZeroBlock ELSE a.data[y]
              /\ b.ip = a.ip /\ b.dip = a.dip /\ b.got = a.got /\ b.out = a.out
              /\ b.data \in [DataBlocks -> [1 .. BSize -> Int]]
          BY <5>1 DEF BlockGiven
        <5>4. x \in Int /\ x # 0 /\ x # t
          BY <3>6, <5>3, DiskSizes DEF DataBlocks
        <5>5. PICK w : w = [a.data[t] EXCEPT ![i] = x]
          OBVIOUS
        <5>6. w \in [1 .. BSize -> Int] /\ w[i] = x
          BY <3>4, <3>6, <3>7, <5>4, <5>5
        <5>7. b.data[t] = a.data[t]
          BY <3>6, <5>3, <5>4
        <5>8. PICK E : E = [b.data EXCEPT ![t] = w]
          OBVIOUS
        <5>9. PICK q : q = [b EXCEPT !.data = E]
          OBVIOUS
        <5>10. r = q
          BY <5>2, <5>3, <5>5, <5>7, <5>8, <5>9
        <5>11. /\ E \in [DataBlocks -> [1 .. BSize -> Int]] /\ E[t] = w
               /\ \A y \in DataBlocks : y # t => E[y] = b.data[y]
          BY <3>6, <5>3, <5>6, <5>8
        <5>12. /\ q \in CallStates /\ q.ip = a.ip /\ q.used = a.used \cup {x} /\ q.data = E /\ q.at = x
               /\ q.dip = a.dip /\ q.got = a.got /\ q.out = a.out
          BY <5>3, <5>9, <5>11 DEF CallStates
        <5>13. EntrySet(a.data, E, WithFile(A, f, a)[f][NDirect], m - NDirect, x)
          BY <2>1, <3>4, <3>6, <5>3, <5>4, <5>5, <5>11 DEF EntrySet
        <5>14. DataTypes(E, WithFile(A, f, a), C)
          BY <3>4, <5>11 DEF DataTypes
        <5>15. /\ DiskSound(a.used \cup {x}, E, WithFile(A, f, a), C)
               /\ BlockAt(E, WithFile(A, f, a)[f], m) = x
          <6>1. /\ WithFile(A, f, a)[f][NDirect] # 0 /\ x \notin a.used
                /\ a.data[WithFile(A, f, a)[f][NDirect]][m - NDirect] = 0
            BY <2>1, <3>1, <3>4, <3>6, <3>10, <5>3
          <6>2. DiskSound(a.used, a.data, WithFile(A, f, a), C) /\ m \in Places /\ m > NDirect
            BY <2>1, <3>5
          <6> HIDE DEF m
          <6> QED BY <5>13, <5>14, <6>1, <6>2, EntryTaken
        <5>16. CallSound(q, f, A, C)
          BY <3>5, <5>12, <5>15 DEF CallSound, WithFile
        <5>17. BlockAt(q.data, q.ip.addrs, m) = x
          BY <3>4, <5>12, <5>15
        <5>18. Mapped(s, q, f, A, C, m)
          BY <3>1, <3>8, <3>10, <5>4, <5>12, <5>16, <5>17 DEF Mapped
        <5> QED BY <5>10, <5>18 DEF r
      <4> QED BY <4>1, <4>2
    <3> QED BY <3>9, <3>10
  <2> QED BY <2>6, <2>7 DEF r
<1> QED BY <1>1, <1>2
\* r comes from s by putting a unit at off, which makes K of C, or panics.
PutResult(s, r, f, A, C, K, off) ==
  \/ r.out /\ r \in CallStates
  \/ /\ CallSound(r, f, A, K)
     /\ r.dip = s.dip /\ r.got = s.got /\ r.ip.size = s.ip.size
     /\ off < Len(C[f]) => r.ip = s.ip

LEMMA PutUnitIs ==
  ASSUME NEW s, NEW f \in FileIds, NEW A \in Addresses, NEW C, NEW K, NEW u \in Int,
         NEW off \in 0 .. MaxFile * BSize - 1,
         CallSound(s, f, A, C), UnitWritten(C, K, f, off, u)
  PROVE  PutResult(s, PutUnit(s, off, u), f, A, C, K, off)
<1> DEFINE a == Bmap(s, off \div BSize)
           m == PlaceOf(off \div BSize)
<1>1. off \div BSize \in 0 .. MaxFile - 1 /\ m \in Places
  BY OffsetParts, PlaceIs
<1>2. Mapped(s, a, f, A, C, m)
  BY <1>1, BmapIs
<1>3. s \in CallStates /\ ~s.out /\ DiskSound(s.used, s.data, WithFile(A, f, s), C)
  BY DEF CallSound
<1>4. /\ s.out \/ a.out => PutUnit(s, off, u) = [s EXCEPT !.out = TRUE]
      /\ ~(s.out \/ a.out) => PutUnit(s, off, u) = [a EXCEPT !.data[a.at][(off % BSize) + 1] = u]
  BY DEF PutUnit
<1> HIDE DEF a
<1>5. CASE a.out
  BY <1>3, <1>4, <1>5 DEF CallStates, PutResult
<1>6. CASE ~a.out
  <2>1. /\ CallSound(a, f, A, C) /\ a.at # 0 /\ a.at = BlockAt(a.data, a.ip.addrs, m)
        /\ a.dip = s.dip /\ a.got = s.got /\ a.ip.size = s.ip.size
        /\ BlockAt(s.data, s.ip.addrs, m) # 0 => SameDisk(s, a)
    BY <1>2, <1>6 DEF Mapped
  <2>2. CallShape(a, f, A, C)
    BY <2>1, CallParts
  <2>3. /\ a \in CallStates /\ a.data \in [DataBlocks -> [1 .. BSize -> Int]]
        /\ WithFile(A, f, a) \in Addresses /\ WithFile(A, f, a)[f] = a.ip.addrs
    BY <2>2 DEF CallShape
  <2>4. DiskSound(a.used, a.data, WithFile(A, f, a), C) /\ ~a.out
    BY <2>1 DEF CallSound
  <2>5. PICK y : y = a.at
    OBVIOUS
  <2>6. y = BlockAt(a.data, WithFile(A, f, a)[f], m) /\ y # 0
    BY <2>1, <2>3, <2>5
  <2>7. y \in DataBlocks
    BY <1>1, <2>4, <2>6, NumberSound
  <2>8. PICK w : w = [a.data[y] EXCEPT ![(off % BSize) + 1] = u]
    OBVIOUS
  <2>9. PICK E : E = [a.data EXCEPT ![y] = w]
    OBVIOUS
  <2>10. PICK r : r = [a EXCEPT !.data = E]
    OBVIOUS
  <2>11. PutUnit(s, off, u) = r
    BY <1>3, <1>4, <1>6, <2>5, <2>8, <2>9, <2>10
  <2>12. DiskSound(a.used, E, WithFile(A, f, a), K)
    <3>1. E = [a.data EXCEPT ![y] = [a.data[y] EXCEPT ![(off % BSize) + 1] = u]]
      BY <2>8, <2>9
    <3> QED BY <2>4, <2>6, <3>1, UnitPut
  <2>13. E \in [DataBlocks -> [1 .. BSize -> Int]]
    BY <2>12 DEF DiskSound, DataTypes
  <2>14. /\ r \in CallStates /\ r.data = E /\ r.used = a.used /\ r.ip = a.ip
         /\ r.dip = a.dip /\ r.got = a.got /\ ~r.out
    BY <2>3, <2>4, <2>10, <2>13 DEF CallStates
  <2>15. CallSound(r, f, A, K)
    BY <2>12, <2>14 DEF CallSound, WithFile
  <2>16. off < Len(C[f]) => r.ip = s.ip
    <3>1. UnitStored(s.data, WithFile(A, f, s)[f], C[f], off)
      BY <1>3 DEF DiskSound
    <3>2. CallShape(s, f, A, C)
      BY CallParts
    <3>3. off < Len(C[f]) => BlockAt(s.data, s.ip.addrs, m) # 0
      BY <3>1, <3>2 DEF UnitStored, CallShape
    <3> QED BY <2>1, <2>14, <3>3 DEF SameDisk
  <2> QED BY <2>1, <2>11, <2>14, <2>15, <2>16 DEF PutResult
<1> QED BY <1>5, <1>6

GetResult(s, r, f, A, C, u) ==
  CallSound(r, f, A, C) /\ SameDisk(s, r) /\ r.dip = s.dip /\ r.got = Append(s.got, u)

LEMMA GetUnitIs ==
  ASSUME NEW s, NEW f \in FileIds, NEW A \in Addresses, NEW C,
         NEW off \in 0 .. MaxFile * BSize - 1,
         CallSound(s, f, A, C), off < Len(C[f])
  PROVE  GetResult(s, GetUnit(s, off), f, A, C, C[f][off + 1])
<1> DEFINE a == Bmap(s, off \div BSize)
           m == PlaceOf(off \div BSize)
<1>1. off \div BSize \in 0 .. MaxFile - 1 /\ m \in Places
  BY OffsetParts, PlaceIs
<1>2. Mapped(s, a, f, A, C, m)
  BY <1>1, BmapIs
<1>3. s \in CallStates /\ ~s.out /\ DiskSound(s.used, s.data, WithFile(A, f, s), C)
  BY DEF CallSound
<1>4. ~(s.out \/ a.out) => GetUnit(s, off) = [a EXCEPT !.got = Append(a.got, a.data[a.at][(off % BSize) + 1])]
  BY DEF GetUnit
<1> HIDE DEF a
<1>5. CallShape(s, f, A, C)
  BY CallParts
<1>6. UnitStored(s.data, WithFile(A, f, s)[f], C[f], off)
  BY <1>3 DEF DiskSound
<1>7. /\ BlockAt(s.data, s.ip.addrs, m) # 0
      /\ s.data[BlockAt(s.data, s.ip.addrs, m)][(off % BSize) + 1] = C[f][off + 1]
  BY <1>5, <1>6 DEF UnitStored, CallShape
<1>8. /\ CallSound(a, f, A, C) /\ ~a.out /\ a.at = BlockAt(a.data, a.ip.addrs, m)
      /\ a.dip = s.dip /\ a.got = s.got /\ SameDisk(s, a)
  BY <1>2, <1>7 DEF Mapped
<1>9. a.data[a.at][(off % BSize) + 1] = C[f][off + 1]
  BY <1>7, <1>8 DEF SameDisk
<1>10. C[f][off + 1] \in Int
  <2>1. C[f] \in Seq(Int) /\ off + 1 \in 1 .. Len(C[f])
    BY <1>5, DiskSizes DEF CallShape
  <2> QED BY <2>1
<1>11. PICK v : v = Append(s.got, C[f][off + 1])
  OBVIOUS
<1>12. v \in Seq(Int)
  BY <1>3, <1>10, <1>11 DEF CallStates
<1>13. PICK r : r = [a EXCEPT !.got = v]
  OBVIOUS
<1>14. GetUnit(s, off) = r
  BY <1>3, <1>4, <1>8, <1>9, <1>11, <1>13
<1>15. a \in CallStates
  BY <1>8 DEF CallSound
<1>16. /\ r \in CallStates /\ r.got = v /\ r.used = a.used /\ r.data = a.data /\ r.ip = a.ip
       /\ r.dip = a.dip /\ ~r.out
  BY <1>8, <1>12, <1>13, <1>15 DEF CallStates
<1>17. CallSound(r, f, A, C)
  BY <1>8, <1>16 DEF CallSound, WithFile
<1> QED BY <1>8, <1>11, <1>14, <1>16, <1>17 DEF SameDisk, GetResult

PutPath(w, s, off, src, n) ==
  w = [i \in 0 .. n |-> IF i = 0 THEN s ELSE PutUnit(w[i - 1], off + i - 1, src[i])]

LEMMA PutPathExists ==
  ASSUME NEW s, NEW off, NEW src, NEW n \in Nat
  PROVE  \E w : PutPath(w, s, off, src, n)
<1> DEFINE S == {k \in 0 .. n : \E w : PutPath(w, s, off, src, k)}
<1>1. 0 \in S
  <2>1. PutPath([i \in 0 .. 0 |-> s], s, off, src, 0)
    <3>1. \A i \in 0 .. 0 : i = 0
      OBVIOUS
    <3> QED BY <3>1 DEF PutPath
  <2> QED BY <2>1
<1>2. ASSUME NEW k \in 1 .. n, k - 1 \in S PROVE k \in S
  <2>1. PICK v : PutPath(v, s, off, src, k - 1)
    BY <1>2
  <2>2. PICK w : w = [i \in 0 .. k |-> IF i < k THEN v[i] ELSE PutUnit(v[i - 1], off + i - 1, src[i])]
    OBVIOUS
  <2>3. ASSUME NEW i \in 0 .. k
        PROVE  w[i] = IF i = 0 THEN s ELSE PutUnit(w[i - 1], off + i - 1, src[i])
    <3>1. CASE i < k
      <4>1. i \in 0 .. k - 1 /\ (i # 0 => i - 1 \in 0 .. k /\ i - 1 < k)
        BY <3>1
      <4>2. w[i] = v[i] /\ (i # 0 => w[i - 1] = v[i - 1])
        BY <2>2, <3>1, <4>1
      <4>3. v[i] = IF i = 0 THEN s ELSE PutUnit(v[i - 1], off + i - 1, src[i])
        <5>1. v = [j \in 0 .. k - 1 |-> IF j = 0 THEN s ELSE PutUnit(v[j - 1], off + j - 1, src[j])]
          BY <2>1 DEF PutPath
        <5> QED BY <4>1, <5>1
      <4> QED BY <4>2, <4>3
    <3>2. CASE i = k
      <4>1. i # 0 /\ i - 1 \in 0 .. k /\ i - 1 < k /\ ~(i < k)
        BY <3>2
      <4>2. w[i] = PutUnit(v[i - 1], off + i - 1, src[i]) /\ w[i - 1] = v[i - 1]
        BY <2>2, <4>1
      <4> QED BY <4>1, <4>2
    <3> QED BY <3>1, <3>2
  <2>4. w = [i \in 0 .. k |-> IF i = 0 THEN s ELSE PutUnit(w[i - 1], off + i - 1, src[i])]
    BY <2>2, <2>3
  <2>5. PutPath(w, s, off, src, k)
    BY <2>4 DEF PutPath
  <2> QED BY <2>5
<1>3. n \in S
  <2>1. \A k \in 0 .. n : k \in S
    <3> HIDE DEF S
    <3> QED BY <1>1, <1>2, Inducts
  <2> QED BY <2>1
<1> QED BY <1>3

GetPath(w, s, off, n) ==
  w = [i \in 0 .. n |-> IF i = 0 THEN s ELSE GetUnit(w[i - 1], off + i - 1)]

LEMMA GetPathExists ==
  ASSUME NEW s, NEW off, NEW n \in Nat
  PROVE  \E w : GetPath(w, s, off, n)
<1> DEFINE S == {k \in 0 .. n : \E w : GetPath(w, s, off, k)}
<1>1. 0 \in S
  <2>1. GetPath([i \in 0 .. 0 |-> s], s, off, 0)
    <3>1. \A i \in 0 .. 0 : i = 0
      OBVIOUS
    <3> QED BY <3>1 DEF GetPath
  <2> QED BY <2>1
<1>2. ASSUME NEW k \in 1 .. n, k - 1 \in S PROVE k \in S
  <2>1. PICK v : GetPath(v, s, off, k - 1)
    BY <1>2
  <2>2. PICK w : w = [i \in 0 .. k |-> IF i < k THEN v[i] ELSE GetUnit(v[i - 1], off + i - 1)]
    OBVIOUS
  <2>3. ASSUME NEW i \in 0 .. k
        PROVE  w[i] = IF i = 0 THEN s ELSE GetUnit(w[i - 1], off + i - 1)
    <3>1. CASE i < k
      <4>1. i \in 0 .. k - 1 /\ (i # 0 => i - 1 \in 0 .. k /\ i - 1 < k)
        BY <3>1
      <4>2. w[i] = v[i] /\ (i # 0 => w[i - 1] = v[i - 1])
        BY <2>2, <3>1, <4>1
      <4>3. v[i] = IF i = 0 THEN s ELSE GetUnit(v[i - 1], off + i - 1)
        <5>1. v = [j \in 0 .. k - 1 |-> IF j = 0 THEN s ELSE GetUnit(v[j - 1], off + j - 1)]
          BY <2>1 DEF GetPath
        <5> QED BY <4>1, <5>1
      <4> QED BY <4>2, <4>3
    <3>2. CASE i = k
      <4>1. i # 0 /\ i - 1 \in 0 .. k /\ i - 1 < k /\ ~(i < k)
        BY <3>2
      <4>2. w[i] = GetUnit(v[i - 1], off + i - 1) /\ w[i - 1] = v[i - 1]
        BY <2>2, <4>1
      <4> QED BY <4>1, <4>2
    <3> QED BY <3>1, <3>2
  <2>4. w = [i \in 0 .. k |-> IF i = 0 THEN s ELSE GetUnit(w[i - 1], off + i - 1)]
    BY <2>2, <2>3
  <2>5. GetPath(w, s, off, k)
    BY <2>4 DEF GetPath
  <2> QED BY <2>5
<1>3. n \in S
  <2>1. \A k \in 0 .. n : k \in S
    <3> HIDE DEF S
    <3> QED BY <1>1, <1>2, Inducts
  <2> QED BY <2>1
<1> QED BY <1>3

StepPath(w, t, f, units, n) ==
  w = [i \in 0 .. n |-> IF i = 0 THEN t ELSE IAppend(w[i - 1], f, units[i])]

LEMMA StepPathExists ==
  ASSUME NEW t, NEW f, NEW units, NEW n \in Nat
  PROVE  \E w : StepPath(w, t, f, units, n)
<1> DEFINE S == {k \in 0 .. n : \E w : StepPath(w, t, f, units, k)}
<1>1. 0 \in S
  <2>1. StepPath([i \in 0 .. 0 |-> t], t, f, units, 0)
    <3>1. \A i \in 0 .. 0 : i = 0
      OBVIOUS
    <3> QED BY <3>1 DEF StepPath
  <2> QED BY <2>1
<1>2. ASSUME NEW k \in 1 .. n, k - 1 \in S PROVE k \in S
  <2>1. PICK v : StepPath(v, t, f, units, k - 1)
    BY <1>2
  <2>2. PICK w : w = [i \in 0 .. k |-> IF i < k THEN v[i] ELSE IAppend(v[i - 1], f, units[i])]
    OBVIOUS
  <2>3. ASSUME NEW i \in 0 .. k
        PROVE  w[i] = IF i = 0 THEN t ELSE IAppend(w[i - 1], f, units[i])
    <3>1. CASE i < k
      <4>1. i \in 0 .. k - 1 /\ (i # 0 => i - 1 \in 0 .. k /\ i - 1 < k)
        BY <3>1
      <4>2. w[i] = v[i] /\ (i # 0 => w[i - 1] = v[i - 1])
        BY <2>2, <3>1, <4>1
      <4>3. v[i] = IF i = 0 THEN t ELSE IAppend(v[i - 1], f, units[i])
        <5>1. v = [j \in 0 .. k - 1 |-> IF j = 0 THEN t ELSE IAppend(v[j - 1], f, units[j])]
          BY <2>1 DEF StepPath
        <5> QED BY <4>1, <5>1
      <4> QED BY <4>2, <4>3
    <3>2. CASE i = k
      <4>1. i # 0 /\ i - 1 \in 0 .. k /\ i - 1 < k /\ ~(i < k)
        BY <3>2
      <4>2. w[i] = IAppend(v[i - 1], f, units[i]) /\ w[i - 1] = v[i - 1]
        BY <2>2, <4>1
      <4> QED BY <4>1, <4>2
    <3> QED BY <3>1, <3>2
  <2>4. w = [i \in 0 .. k |-> IF i = 0 THEN t ELSE IAppend(w[i - 1], f, units[i])]
    BY <2>2, <2>3
  <2>5. StepPath(w, t, f, units, k)
    BY <2>4 DEF StepPath
  <2> QED BY <2>5
<1>3. n \in S
  <2>1. \A k \in 0 .. n : k \in S
    <3> HIDE DEF S
    <3> QED BY <1>1, <1>2, Inducts
  <2> QED BY <2>1
<1> QED BY <1>3

(* The sequence c with the first k units of src laid over it at off.        *)
Over(c, off, src, k) ==
  [i \in 1 .. (IF off + k > Len(c) THEN off + k ELSE Len(c)) |->
     IF i > off /\ i <= off + k THEN src[i - off] ELSE c[i]]

WithOver(C, f, off, src, k) == [C EXCEPT ![f] = Over(C[f], off, src, k)]

IsOver(p, c, off, src, k) ==
  /\ p \in Seq(Int) /\ Len(p) = IF off + k > Len(c) THEN off + k ELSE Len(c)
  /\ \A i \in 1 .. Len(p) : p[i] = IF i > off /\ i <= off + k THEN src[i - off] ELSE c[i]
  /\ k = 0 => p = c

LEMMA OverIs ==
  ASSUME NEW c \in Seq(Int), NEW src \in Seq(Int), NEW off \in Nat, off <= Len(c),
         NEW k \in 0 .. Len(src)
  PROVE  IsOver(Over(c, off, src, k), c, off, src, k)
<1> DEFINE n == IF off + k > Len(c) THEN off + k ELSE Len(c)
           v(i) == IF i > off /\ i <= off + k THEN src[i - off] ELSE c[i]
<1>1. n \in Nat /\ Len(c) \in Nat /\ k \in Nat
  OBVIOUS
<1>2. ASSUME NEW i \in 1 .. n PROVE v(i) \in Int
  <2>1. CASE i > off /\ i <= off + k
    <3>1. i - off \in 1 .. Len(src)
      BY <1>1, <2>1
    <3> QED BY <2>1, <3>1
  <2>2. CASE ~(i > off /\ i <= off + k)
    <3>1. i \in 1 .. Len(c)
      BY <1>1, <2>2
    <3> QED BY <2>2, <3>1
  <2> QED BY <2>1, <2>2
<1>3. Over(c, off, src, k) = [i \in 1 .. n |-> v(i)]
  BY DEF Over
<1>4. Over(c, off, src, k) \in [1 .. n -> Int]
  <2> HIDE DEF v, n
  <2> QED BY <1>2, <1>3
<1>5. Over(c, off, src, k) \in Seq(Int) /\ Len(Over(c, off, src, k)) = n
  <2> HIDE DEF n
  <2> QED BY <1>1, <1>4
<1>6. \A i \in 1 .. n : Over(c, off, src, k)[i] = v(i)
  BY <1>3
<1>7. k = 0 => Over(c, off, src, k) = c
  <2> SUFFICES ASSUME k = 0 PROVE Over(c, off, src, k) = c
    OBVIOUS
  <2>1. n = Len(c) /\ \A i \in 1 .. n : v(i) = c[i]
    BY <1>1
  <2>2. c = [i \in 1 .. Len(c) |-> c[i]]
    OBVIOUS
  <2>3. Over(c, off, src, k) = [i \in 1 .. Len(c) |-> c[i]]
    BY <1>3, <2>1
  <2> QED BY <2>2, <2>3
<1> QED BY <1>5, <1>6, <1>7 DEF IsOver

LEMMA OverStep ==
  ASSUME NEW C \in [FileIds -> Seq(Int)], NEW f \in FileIds, NEW src \in Seq(Int),
         NEW off \in Nat, off <= Len(C[f]), NEW k \in 1 .. Len(src)
  PROVE  UnitWritten(WithOver(C, f, off, src, k - 1), WithOver(C, f, off, src, k), f, off + k - 1, src[k])
<1> DEFINE c == C[f]
           p == Over(c, off, src, k - 1)
           q == Over(c, off, src, k)
           n == IF off + (k - 1) > Len(c) THEN off + (k - 1) ELSE Len(c)
           m == IF off + k > Len(c) THEN off + k ELSE Len(c)
<1>1. c \in Seq(Int) /\ Len(c) \in Nat /\ k - 1 \in 0 .. Len(src) /\ k \in 0 .. Len(src) /\ k \in Nat
  OBVIOUS
<1>2. /\ p \in Seq(Int) /\ Len(p) = n
      /\ \A i \in 1 .. n : p[i] = IF i > off /\ i <= off + (k - 1) THEN src[i - off] ELSE c[i]
  <2>1. IsOver(p, c, off, src, k - 1)
    BY <1>1, OverIs
  <2> QED BY <2>1 DEF IsOver
<1>3. /\ q \in Seq(Int) /\ Len(q) = m
      /\ \A i \in 1 .. m : q[i] = IF i > off /\ i <= off + k THEN src[i - off] ELSE c[i]
  <2>1. IsOver(q, c, off, src, k)
    BY <1>1, OverIs
  <2> QED BY <2>1 DEF IsOver
<1>4. /\ WithOver(C, f, off, src, k) \in [FileIds -> Seq(Int)]
      /\ WithOver(C, f, off, src, k)[f] = q /\ WithOver(C, f, off, src, k - 1)[f] = p
      /\ \A g \in FileIds : g # f => WithOver(C, f, off, src, k)[g] = WithOver(C, f, off, src, k - 1)[g]
  <2> HIDE DEF p, q
  <2>1. /\ WithOver(C, f, off, src, k) = [C EXCEPT ![f] = q]
        /\ WithOver(C, f, off, src, k - 1) = [C EXCEPT ![f] = p]
    BY DEF WithOver, p, q
  <2> QED BY <1>2, <1>3, <2>1
<1>5. off + k - 1 <= n /\ m = IF off + k - 1 = n THEN off + k - 1 + 1 ELSE n
  BY <1>1
<1>6. q[off + k - 1 + 1] = src[k]
  <2>1. off + k \in 1 .. m /\ off + k > off /\ off + k <= off + k /\ (off + k) - off = k
    BY <1>1
  <2>2. off + k - 1 + 1 = off + k
    BY <1>1
  <2> HIDE DEF q, m
  <2>3. q[off + k] = src[(off + k) - off]
    BY <1>3, <2>1
  <2> QED BY <2>1, <2>2, <2>3
<1>7. ASSUME NEW j \in 1 .. n, j # off + k - 1 + 1 PROVE q[j] = p[j]
  <2>1. j \in 1 .. m /\ ((j > off /\ j <= off + k) <=> (j > off /\ j <= off + (k - 1)))
    BY <1>1, <1>7
  <2> HIDE DEF p, q, m, n
  <2> QED BY <1>2, <1>3, <2>1
<1> HIDE DEF p, q, m, n
<1> QED BY <1>2, <1>3, <1>4, <1>5, <1>6, <1>7 DEF UnitWritten

(* writei's loop after k units.                                             *)
PutAfter(s, t, f, A, C, off, src, k) ==
  \/ t.out /\ t \in CallStates
  \/ /\ CallSound(t, f, A, WithOver(C, f, off, src, k))
     /\ t.dip = s.dip /\ t.ip.size = s.ip.size
     /\ off + k <= Len(C[f]) => t.ip = s.ip

LEMMA PutLoop ==
  ASSUME NEW s, NEW f \in FileIds, NEW A \in Addresses, NEW C, CallSound(s, f, A, C),
         NEW src \in Seq(Int), NEW off \in Nat, off <= Len(C[f]),
         off + Len(src) <= MaxFile * BSize,
         NEW put, PutPath(put, s, off, src, Len(src))
  PROVE  PutAfter(s, put[Len(src)], f, A, C, off, src, Len(src))
<1> DEFINE n == Len(src)
           S == {k \in 0 .. n : PutAfter(s, put[k], f, A, C, off, src, k)}
<1>1. n \in Nat /\ C \in [FileIds -> Seq(Int)] /\ C[f] \in Seq(Int) /\ Len(C[f]) \in Nat
      /\ s \in CallStates
  <2>1. CallShape(s, f, A, C)
    BY CallParts
  <2> QED BY <2>1 DEF CallShape
<1>2. put[0] = s /\ \A k \in 1 .. n : put[k] = PutUnit(put[k - 1], off + k - 1, src[k])
  <2>1. put = [i \in 0 .. n |-> IF i = 0 THEN s ELSE PutUnit(put[i - 1], off + i - 1, src[i])]
    BY DEF PutPath
  <2>2. 0 \in 0 .. n /\ \A k \in 1 .. n : k \in 0 .. n /\ k # 0
    BY <1>1
  <2> HIDE DEF n
  <2> QED BY <2>1, <2>2
<1>3. 0 \in S
  <2>1. 0 \in 0 .. Len(src)
    BY <1>1
  <2>2. IsOver(Over(C[f], off, src, 0), C[f], off, src, 0)
    BY <1>1, <2>1, OverIs
  <2>3. WithOver(C, f, off, src, 0) = C
    <3>1. Over(C[f], off, src, 0) = C[f]
      BY <2>2 DEF IsOver
    <3> QED BY <1>1, <3>1 DEF WithOver
  <2>4. PutAfter(s, put[0], f, A, C, off, src, 0)
    BY <1>2, <2>3 DEF PutAfter
  <2> QED BY <2>1, <2>4
<1>4. ASSUME NEW k \in 1 .. n, k - 1 \in S PROVE k \in S
  <2>1. PutAfter(s, put[k - 1], f, A, C, off, src, k - 1)
    BY <1>4
  <2>2. put[k] = PutUnit(put[k - 1], off + k - 1, src[k])
    BY <1>2
  <2>3. CASE put[k - 1].out /\ put[k - 1] \in CallStates
    <3>1. put[k] = [put[k - 1] EXCEPT !.out = TRUE]
      BY <2>2, <2>3 DEF PutUnit
    <3>2. put[k].out /\ put[k] \in CallStates
      BY <2>3, <3>1 DEF CallStates
    <3>3. PutAfter(s, put[k], f, A, C, off, src, k)
      BY <3>2 DEF PutAfter
    <3> QED BY <3>3
  <2>4. CASE ~(put[k - 1].out /\ put[k - 1] \in CallStates)
    <3> DEFINE K == WithOver(C, f, off, src, k - 1)
               L == WithOver(C, f, off, src, k)
               t == put[k - 1]
               o == off + k - 1
    <3>1. /\ CallSound(t, f, A, K) /\ t.dip = s.dip /\ t.ip.size = s.ip.size
          /\ off + (k - 1) <= Len(C[f]) => t.ip = s.ip
      BY <2>1, <2>4 DEF PutAfter
    <3>2. UnitWritten(K, L, f, o, src[k])
      BY <1>1, OverStep
    <3>3. o \in 0 .. MaxFile * BSize - 1 /\ src[k] \in Int /\ k \in Nat
      <4>1. o \in Nat /\ o < MaxFile * BSize /\ src[k] \in Int /\ k \in Nat
        BY <1>1, DiskSizes
      <4> HIDE DEF o
      <4> QED BY <4>1, DiskSizes
    <3>4. off + k <= Len(C[f]) => o < Len(K[f]) /\ off + (k - 1) <= Len(C[f])
      <4>1. IsOver(Over(C[f], off, src, k - 1), C[f], off, src, k - 1)
        <5>1. k - 1 \in 0 .. Len(src)
          BY <1>1
        <5> QED BY <1>1, <5>1, OverIs
      <4>2. K[f] = Over(C[f], off, src, k - 1)
        BY <1>1 DEF WithOver
      <4>3. Len(K[f]) = IF off + (k - 1) > Len(C[f]) THEN off + (k - 1) ELSE Len(C[f])
        BY <4>1, <4>2 DEF IsOver
      <4> HIDE DEF K
      <4> QED BY <1>1, <3>3, <4>3
    <3> HIDE DEF K, L, o
    <3>5. PutResult(t, PutUnit(t, o, src[k]), f, A, K, L, o)
      BY <3>1, <3>2, <3>3, PutUnitIs
    <3>6. put[k] = PutUnit(t, o, src[k])
      BY <2>2 DEF o
    <3>7. PutAfter(s, put[k], f, A, C, off, src, k)
      BY <3>1, <3>4, <3>5, <3>6 DEF PutAfter, PutResult, L
    <3> QED BY <3>7
  <2> QED BY <2>3, <2>4
<1>5. \A k \in 0 .. n : k \in S
  <2> HIDE DEF S, n
  <2> QED BY <1>1, <1>3, <1>4, Inducts
<1>6. n \in S
  BY <1>1, <1>5
<1> QED BY <1>6

(* A write that is not refused.                                             *)
LEMMA WriteiIs ==
  ASSUME NEW s, NEW f \in FileIds, NEW A \in Addresses, NEW C, CallSound(s, f, A, C),
         NEW src \in Seq(Int), NEW off \in Nat, off <= Len(C[f]),
         off + Len(src) <= MaxFile * BSize,
         s.ip.size = Len(C[f]), s.dip = s.ip
  PROVE  LET r == Writei(s, off, src)
             K == WithOver(C, f, off, src, Len(src))
         IN r.out \/ (CallSound(r, f, A, K) /\ r.ip.size = Len(K[f]) /\ r.dip = r.ip)
<1> DEFINE n == Len(src)
           put == CHOOSE w : w = [i \in 0 .. n |-> IF i = 0 THEN s ELSE PutUnit(w[i - 1], off + i - 1, src[i])]
           t == put[n]
           K == WithOver(C, f, off, src, n)
           r == Writei(s, off, src)
<1>1. n \in Nat /\ C \in [FileIds -> Seq(Int)] /\ C[f] \in Seq(Int) /\ Len(C[f]) \in Nat
  <2>1. CallShape(s, f, A, C)
    BY CallParts
  <2> QED BY <2>1 DEF CallShape
<1>2. PutPath(put, s, off, src, n)
  <2>1. \E w : PutPath(w, s, off, src, n)
    BY <1>1, PutPathExists
  <2>2. \E w : w = [i \in 0 .. n |-> IF i = 0 THEN s ELSE PutUnit(w[i - 1], off + i - 1, src[i])]
    BY <2>1 DEF PutPath
  <2>3. put = [i \in 0 .. n |-> IF i = 0 THEN s ELSE PutUnit(put[i - 1], off + i - 1, src[i])]
    BY <2>2
  <2> HIDE DEF put
  <2> QED BY <2>3 DEF PutPath
<1>3. ~(off > s.ip.size \/ Wraps(off, n) \/ off + n > MaxFile * BSize)
  <2>1. off + n < Width /\ Width \in Nat /\ MaxFile * BSize \in Nat
    BY <1>1, DiskSizes
  <2>2. (off + n) % Width = off + n
    <3>1. off + n \in Nat
      BY <1>1
    <3> QED BY <2>1, <3>1, NoRemainder
  <2>3. ~Wraps(off, n)
    BY <1>1, <2>2 DEF Wraps
  <2> QED BY <1>1, <2>1, <2>3
<1>4. r = IF Grows(s, off, n)
          THEN [t EXCEPT !.ip.size = off + n, !.dip = [t.ip EXCEPT !.size = off + n]]
          ELSE t
  BY <1>3 DEF Writei
<1> HIDE DEF put, r
<1>5. PutAfter(s, t, f, A, C, off, src, n)
  BY <1>2, PutLoop
<1>6. K[f] = Over(C[f], off, src, n) /\ Len(K[f]) = IF off + n > Len(C[f]) THEN off + n ELSE Len(C[f])
  <2>1. IsOver(Over(C[f], off, src, n), C[f], off, src, n)
    <3>1. n \in 0 .. Len(src)
      BY <1>1
    <3> QED BY <1>1, <3>1, OverIs
  <2>2. K[f] = Over(C[f], off, src, n)
    BY <1>1 DEF WithOver
  <2> QED BY <2>1, <2>2 DEF IsOver
<1> HIDE DEF t, K, n
<1>7. Grows(s, off, n) <=> n > 0 /\ off + n > Len(C[f])
  BY DEF Grows
<1>8. CASE t.out /\ t \in CallStates
  <2>1. r.out
    BY <1>4, <1>8 DEF CallStates
  <2> QED BY <2>1 DEF r
<1>9. CASE ~(t.out /\ t \in CallStates)
  <2>1. /\ CallSound(t, f, A, K) /\ t.dip = s.dip /\ t.ip.size = s.ip.size
        /\ off + n <= Len(C[f]) => t.ip = s.ip
    BY <1>5, <1>9 DEF PutAfter, K
  <2>2. t \in CallStates /\ ~t.out /\ DiskSound(t.used, t.data, WithFile(A, f, t), K)
    BY <2>1 DEF CallSound
  <2>3. CASE Grows(s, off, n)
    <3>1. PICK v : v = [t.ip EXCEPT !.size = off + n]
      OBVIOUS
    <3>2. off + n \in Nat
      BY <1>1
    <3>3. v \in InodeRecords /\ v.size = off + n /\ v.addrs = t.ip.addrs
      BY <2>2, <3>1, <3>2 DEF CallStates, InodeRecords
    <3>4. r = [t EXCEPT !.ip = v, !.dip = v]
      BY <1>4, <2>2, <2>3, <3>1 DEF CallStates
    <3>5. r \in CallStates /\ r.ip = v /\ r.dip = v /\ r.used = t.used /\ r.data = t.data /\ ~r.out
      BY <2>2, <3>3, <3>4 DEF CallStates
    <3>6. CallSound(r, f, A, K)
      BY <2>2, <3>3, <3>5 DEF CallSound, WithFile
    <3>7. r.ip.size = Len(K[f])
      BY <1>1, <1>6, <1>7, <2>3, <3>3, <3>5
    <3> QED BY <3>5, <3>6, <3>7 DEF r, K, n
  <2>4. CASE ~Grows(s, off, n)
    <3>1. off + n <= Len(C[f])
      BY <1>1, <1>7, <2>4
    <3>2. r = t /\ t.ip = s.ip
      BY <1>4, <2>1, <2>4, <3>1
    <3>3. Len(K[f]) = Len(C[f])
      BY <1>1, <1>6, <3>1
    <3> QED BY <2>1, <3>2, <3>3 DEF r, K, n
  <2> QED BY <2>3, <2>4
<1> QED BY <1>8, <1>9

LEMMA SameSequence ==
  ASSUME NEW p \in Seq(Int), NEW q \in Seq(Int), Len(p) = Len(q),
         \A i \in 1 .. Len(p) : p[i] = q[i]
  PROVE  p = q
<1>1. p = [i \in 1 .. Len(p) |-> p[i]] /\ q = [i \in 1 .. Len(q) |-> q[i]]
  OBVIOUS
<1> QED BY <1>1

LEMMA SubSeqIs ==
  ASSUME NEW c \in Seq(Int), NEW m \in 1 .. Len(c) + 1, NEW n \in m - 1 .. Len(c)
  PROVE  /\ SubSeq(c, m, n) \in Seq(Int) /\ Len(SubSeq(c, m, n)) = n - m + 1
         /\ \A i \in 1 .. n - m + 1 : SubSeq(c, m, n)[i] = c[m + i - 1]
OBVIOUS

LEMMA SubSeqStep ==
  ASSUME NEW c \in Seq(Int), NEW off \in Nat, NEW k \in Nat, k > 0, off + k <= Len(c)
  PROVE  /\ SubSeq(c, off + 1, off) = <<>>
         /\ Append(SubSeq(c, off + 1, off + (k - 1)), c[off + k]) = SubSeq(c, off + 1, off + k)
<1>1. SubSeq(c, off + 1, off) = <<>>
  <2>1. off + 1 > off
    OBVIOUS
  <2> QED BY <2>1
<1> DEFINE p == SubSeq(c, off + 1, off + (k - 1))
           q == SubSeq(c, off + 1, off + k)
<1>2. p \in Seq(Int) /\ Len(p) = k - 1 /\ \A i \in 1 .. k - 1 : p[i] = c[off + i]
  <2>1. PICK m : m = off + 1
    OBVIOUS
  <2>2. PICK e : e = off + (k - 1)
    OBVIOUS
  <2>3. m \in 1 .. Len(c) + 1 /\ e \in m - 1 .. Len(c) /\ e - m + 1 = k - 1
    BY <2>1, <2>2
  <2>4. /\ SubSeq(c, m, e) \in Seq(Int) /\ Len(SubSeq(c, m, e)) = k - 1
        /\ \A i \in 1 .. k - 1 : SubSeq(c, m, e)[i] = c[m + i - 1]
    BY <2>3, SubSeqIs
  <2>5. \A i \in 1 .. k - 1 : m + i - 1 = off + i
    BY <2>1
  <2> QED BY <2>1, <2>2, <2>4, <2>5
<1>3. q \in Seq(Int) /\ Len(q) = k /\ \A i \in 1 .. k : q[i] = c[off + i]
  <2>1. PICK m : m = off + 1
    OBVIOUS
  <2>2. PICK e : e = off + k
    OBVIOUS
  <2>3. m \in 1 .. Len(c) + 1 /\ e \in m - 1 .. Len(c) /\ e - m + 1 = k
    BY <2>1, <2>2
  <2>4. /\ SubSeq(c, m, e) \in Seq(Int) /\ Len(SubSeq(c, m, e)) = k
        /\ \A i \in 1 .. k : SubSeq(c, m, e)[i] = c[m + i - 1]
    BY <2>3, SubSeqIs
  <2>5. \A i \in 1 .. k : m + i - 1 = off + i
    BY <2>1
  <2> QED BY <2>1, <2>2, <2>4, <2>5
<1>4. c[off + k] \in Int
  OBVIOUS
<1> HIDE DEF p, q
<1>5. Append(p, c[off + k]) = q
  <2>1. PICK r : r = Append(p, c[off + k])
    OBVIOUS
  <2>2. /\ r \in Seq(Int) /\ Len(r) = k /\ r[k] = c[off + k]
        /\ \A i \in 1 .. k - 1 : r[i] = p[i]
    BY <1>2, <1>4, <2>1
  <2>3. ASSUME NEW i \in 1 .. Len(r) PROVE r[i] = q[i]
    <3>1. i \in 1 .. k /\ (i # k => i \in 1 .. k - 1)
      BY <2>2
    <3>2. q[i] = c[off + i]
      BY <1>3, <3>1
    <3>3. CASE i = k
      BY <2>2, <3>2, <3>3
    <3>4. CASE i # k
      BY <1>2, <2>2, <3>1, <3>2, <3>4
    <3> QED BY <3>3, <3>4
  <2> QED BY <1>3, <2>1, <2>2, <2>3, SameSequence
<1> QED BY <1>1, <1>5 DEF p, q

GetAfter(s, t, f, A, C, off, k) ==
  /\ CallSound(t, f, A, C) /\ SameDisk(s, t) /\ t.dip = s.dip
  /\ t.got = SubSeq(C[f], off + 1, off + k)

LEMMA GetLoop ==
  ASSUME NEW s, NEW f \in FileIds, NEW A \in Addresses, NEW C, CallSound(s, f, A, C), s.got = <<>>,
         NEW off \in Nat, NEW m \in Nat, off + m <= Len(C[f]),
         NEW get, GetPath(get, s, off, m)
  PROVE  GetAfter(s, get[m], f, A, C, off, m)
<1> DEFINE S == {k \in 0 .. m : GetAfter(s, get[k], f, A, C, off, k)}
<1>1. C[f] \in Seq(Int) /\ Len(C[f]) \in Nat /\ Len(C[f]) <= MaxFile * BSize
  <2>1. CallShape(s, f, A, C)
    BY CallParts
  <2>2. C[f] \in Seq(Int) /\ Len(C[f]) \in Nat
    BY <2>1 DEF CallShape
  <2>3. Len(C[f]) <= MaxFile * BSize
    BY DEF CallSound, DiskSound
  <2> QED BY <2>2, <2>3
<1>2. get[0] = s /\ \A k \in 1 .. m : get[k] = GetUnit(get[k - 1], off + k - 1)
  <2>1. get = [i \in 0 .. m |-> IF i = 0 THEN s ELSE GetUnit(get[i - 1], off + i - 1)]
    BY DEF GetPath
  <2>2. 0 \in 0 .. m /\ \A k \in 1 .. m : k \in 0 .. m /\ k # 0
    OBVIOUS
  <2> QED BY <2>1, <2>2
<1>3. 0 \in S
  <2>1. SubSeq(C[f], off + 1, off + 0) = <<>>
    BY <1>1
  <2>2. GetAfter(s, get[0], f, A, C, off, 0)
    BY <1>2, <2>1 DEF GetAfter, SameDisk
  <2> QED BY <2>2
<1>4. ASSUME NEW k \in 1 .. m, k - 1 \in S PROVE k \in S
  <2> DEFINE t == get[k - 1]
             o == off + k - 1
  <2>1. GetAfter(s, t, f, A, C, off, k - 1)
    BY <1>4
  <2>2. CallSound(t, f, A, C) /\ SameDisk(s, t) /\ t.dip = s.dip /\ t.got = SubSeq(C[f], off + 1, off + (k - 1))
    BY <2>1 DEF GetAfter
  <2>3. /\ o \in 0 .. MaxFile * BSize - 1 /\ o < Len(C[f]) /\ o + 1 = off + k
        /\ k \in Nat /\ k > 0 /\ off + k <= Len(C[f])
    <3>1. o \in Nat /\ o < Len(C[f]) /\ o + 1 = off + k /\ k \in Nat /\ k > 0 /\ off + k <= Len(C[f])
      BY <1>1
    <3> HIDE DEF o
    <3> QED BY <3>1, <1>1, DiskSizes
  <2> HIDE DEF t, o
  <2>4. GetResult(t, GetUnit(t, o), f, A, C, C[f][o + 1])
    BY <2>2, <2>3, GetUnitIs
  <2>5. get[k] = GetUnit(t, o)
    BY <1>2 DEF t, o
  <2>6. Append(SubSeq(C[f], off + 1, off + (k - 1)), C[f][off + k]) = SubSeq(C[f], off + 1, off + k)
    BY <1>1, <2>3, SubSeqStep
  <2>7. GetAfter(s, get[k], f, A, C, off, k)
    BY <2>2, <2>3, <2>4, <2>5, <2>6 DEF GetAfter, GetResult, SameDisk
  <2> QED BY <2>7
<1>5. \A k \in 0 .. m : k \in S
  <2> HIDE DEF S
  <2> QED BY <1>3, <1>4, Inducts
<1> QED BY <1>5

LEMMA ReadiIs ==
  ASSUME NEW s, NEW f \in FileIds, NEW A \in Addresses, NEW C, CallSound(s, f, A, C), s.got = <<>>,
         NEW off \in Nat, off <= Len(C[f]), NEW n \in Nat, off + n < Width, s.ip.size = Len(C[f])
  PROVE  GetAfter(s, Readi(s, off, n), f, A, C, off, Lesser(n, Len(C[f]) - off))
<1> DEFINE m == Lesser(n, Len(C[f]) - off)
           get == CHOOSE w : w = [i \in 0 .. m |-> IF i = 0 THEN s ELSE GetUnit(w[i - 1], off + i - 1)]
<1>1. Len(C[f]) \in Nat
  <2>1. CallShape(s, f, A, C)
    BY CallParts
  <2> QED BY <2>1 DEF CallShape
<1>2. m \in Nat /\ off + m <= Len(C[f])
  BY <1>1 DEF Lesser
<1>3. ~(off > s.ip.size \/ Wraps(off, n))
  <2>1. (off + n) % Width = off + n
    <3>1. off + n \in Nat /\ Width \in Nat
      BY DiskSizes
    <3> QED BY <3>1, NoRemainder
  <2>2. ~Wraps(off, n)
    BY <2>1 DEF Wraps
  <2> QED BY <1>1, <2>2
<1>4. Readi(s, off, n) = get[m]
  BY <1>3 DEF Readi
<1> HIDE DEF m
<1>5. GetPath(get, s, off, m)
  <2>1. \E w : GetPath(w, s, off, m)
    BY <1>2, GetPathExists
  <2>2. \E w : w = [i \in 0 .. m |-> IF i = 0 THEN s ELSE GetUnit(w[i - 1], off + i - 1)]
    BY <2>1 DEF GetPath
  <2>3. get = [i \in 0 .. m |-> IF i = 0 THEN s ELSE GetUnit(get[i - 1], off + i - 1)]
    BY <2>2
  <2> HIDE DEF get
  <2> QED BY <2>3 DEF GetPath
<1> HIDE DEF get
<1>6. GetAfter(s, get[m], f, A, C, off, m)
  BY <1>2, <1>5, GetLoop
<1> QED BY <1>4, <1>6 DEF m

LEMMA NewInodeIs ==
  /\ NewInode \in InodeRecords /\ NewInode.size = 0
  /\ NewInode.addrs \in [0 .. NDirect -> Int] /\ \A i \in 0 .. NDirect : NewInode.addrs[i] = 0
BY DEF NewInode, InodeRecords

LEMMA ItruncIs ==
  ASSUME NEW s, NEW f \in FileIds, NEW A \in Addresses, NEW C, CallSound(s, f, A, C)
  PROVE  LET r == Itrunc(s)
         IN CallSound(r, f, A, [C EXCEPT ![f] = <<>>]) /\ r.ip = NewInode /\ r.dip = NewInode
<1> DEFINE gone == Named(s) \cup InTable(s)
           K == [C EXCEPT ![f] = <<>>]
<1>0. CallShape(s, f, A, C)
  BY CallParts
<1>1. /\ s \in CallStates /\ s.ip.addrs \in [0 .. NDirect -> Int]
      /\ WithFile(A, f, s) \in Addresses /\ WithFile(A, f, s)[f] = s.ip.addrs
      /\ \A g \in FileIds : g # f => WithFile(A, f, s)[g] = A[g]
      /\ s.data \in [DataBlocks -> [1 .. BSize -> Int]] /\ C \in [FileIds -> Seq(Int)]
  BY <1>0 DEF CallShape
<1>2. ~s.out /\ DiskSound(s.used, s.data, WithFile(A, f, s), C)
  BY DEF CallSound
<1>3. PICK V : V = s.used \ gone
  OBVIOUS
<1>4. PICK r : r = [s EXCEPT !.used = V, !.ip = NewInode, !.dip = NewInode]
  OBVIOUS
<1>5. Itrunc(s) = r
  BY <1>3, <1>4 DEF Itrunc
<1>6. \A y : y \in gone <=> y # 0 /\ \E m \in Places : BlockAt(s.data, s.ip.addrs, m) = y
  <2>1. ASSUME NEW y \in Named(s)
        PROVE  y # 0 /\ \E m \in Places : BlockAt(s.data, s.ip.addrs, m) = y
    <3>1. PICK m \in 0 .. NDirect : y = s.ip.addrs[m] /\ y # 0
      BY DEF Named
    <3>2. BlockAt(s.data, s.ip.addrs, m) = y /\ m \in Places
      BY <3>1, PlaceIs, DiskSizes DEF BlockAt
    <3> QED BY <3>1, <3>2
  <2>2. ASSUME NEW y \in InTable(s)
        PROVE  y # 0 /\ \E m \in Places : BlockAt(s.data, s.ip.addrs, m) = y
    <3>1. s.ip.addrs[NDirect] # 0
      BY DEF InTable
    <3>2. PICK i \in 1 .. BSize : y = s.data[s.ip.addrs[NDirect]][i] /\ y # 0
      BY <3>1, DiskSizes DEF InTable
    <3>3. i + NDirect \in Places /\ ~(i + NDirect <= NDirect) /\ (i + NDirect) - NDirect = i
      BY DiskSizes DEF Places
    <3>4. BlockAt(s.data, s.ip.addrs, i + NDirect) = y
      BY <3>1, <3>2, <3>3 DEF BlockAt
    <3> QED BY <3>2, <3>3, <3>4
  <2>3. ASSUME NEW m \in Places, BlockAt(s.data, s.ip.addrs, m) # 0
        PROVE  BlockAt(s.data, s.ip.addrs, m) \in gone
    <3>1. CASE m <= NDirect
      <4>1. m \in 0 .. NDirect /\ BlockAt(s.data, s.ip.addrs, m) = s.ip.addrs[m]
        BY <3>1, DiskSizes DEF Places, BlockAt
      <4> QED BY <2>3, <4>1 DEF Named
    <3>2. CASE ~(m <= NDirect)
      <4>1. m - NDirect \in 1 .. BSize
        BY <3>2, DiskSizes DEF Places
      <4>2. /\ s.ip.addrs[NDirect] # 0
            /\ BlockAt(s.data, s.ip.addrs, m) = s.data[s.ip.addrs[NDirect]][m - NDirect]
        BY <2>3, <3>2 DEF BlockAt
      <4> QED BY <2>3, <4>1, <4>2, DiskSizes DEF InTable
    <3> QED BY <3>1, <3>2
  <2> QED BY <2>1, <2>2, <2>3
<1> HIDE DEF gone
<1>7. /\ r \in CallStates /\ r.used = V /\ r.data = s.data /\ r.ip = NewInode /\ r.dip = NewInode /\ ~r.out
  <2>1. V \in SUBSET Int
    BY <1>1, <1>3 DEF CallStates
  <2> QED BY <1>1, <1>2, <1>4, <2>1, NewInodeIs DEF CallStates
<1>8. /\ WithFile(A, f, r) \in Addresses /\ WithFile(A, f, r)[f] = NewInode.addrs
      /\ \A g \in FileIds : g # f => WithFile(A, f, r)[g] = WithFile(A, f, s)[g]
  BY <1>1, <1>7, NewInodeIs DEF WithFile, Addresses
<1>9. \A m \in Places : BlockAt(s.data, WithFile(A, f, r)[f], m) = 0
  <2> SUFFICES ASSUME NEW m \in Places PROVE BlockAt(s.data, NewInode.addrs, m) = 0
    BY <1>8
  <2>1. NewInode.addrs[NDirect] = 0 /\ (m <= NDirect => NewInode.addrs[m] = 0)
    BY NewInodeIs, DiskSizes DEF Places
  <2> QED BY <2>1 DEF BlockAt
<1>10. \A g \in FileIds : g # f => \A m : BlockAt(s.data, WithFile(A, f, r)[g], m) = BlockAt(s.data, WithFile(A, f, s)[g], m)
  BY <1>8
<1>11. K \in [FileIds -> Seq(Int)] /\ K[f] = <<>> /\ \A g \in FileIds : g # f => K[g] = C[g]
  BY <1>1
<1> HIDE DEF K
<1>12. BlocksListed(V, s.data, WithFile(A, f, r))
  <2>1. BlocksListed(s.used, s.data, WithFile(A, f, s)) /\ BlocksSingle(s.data, WithFile(A, f, s))
    BY <1>2 DEF DiskSound
  <2>2. ASSUME NEW g \in FileIds, NEW m \in Places, BlockAt(s.data, WithFile(A, f, r)[g], m) # 0
        PROVE  /\ BlockAt(s.data, WithFile(A, f, r)[g], m) \in DataBlocks
               /\ BlockAt(s.data, WithFile(A, f, r)[g], m) \in V
    <3>1. g # f
      BY <1>9, <2>2
    <3> DEFINE y == BlockAt(s.data, WithFile(A, f, s)[g], m)
    <3>2. BlockAt(s.data, WithFile(A, f, r)[g], m) = y
      BY <1>10, <3>1
    <3>3. y \in DataBlocks /\ y \in s.used
      BY <2>1, <2>2, <3>2 DEF BlocksListed
    <3>4. y \notin gone
      <4>1. SUFFICES ASSUME NEW k \in Places, BlockAt(s.data, WithFile(A, f, s)[f], k) = y PROVE FALSE
        BY <1>1, <1>6
      <4> QED BY <2>1, <2>2, <3>1, <3>2, <4>1 DEF BlocksSingle
    <3> HIDE DEF y
    <3> QED BY <1>3, <3>2, <3>3, <3>4
  <2>3. ASSUME NEW y \in V, y \notin 0 .. NMeta - 1
        PROVE  \E g \in FileIds, m \in Places : BlockAt(s.data, WithFile(A, f, r)[g], m) = y
    <3>1. PICK g \in FileIds, m \in Places : BlockAt(s.data, WithFile(A, f, s)[g], m) = y
      BY <1>3, <2>1, <2>3 DEF BlocksListed
    <3>2. y # 0
      BY <2>3, DiskSizes
    <3>3. g # f
      BY <1>1, <1>3, <1>6, <3>1, <3>2
    <3> QED BY <1>10, <3>1, <3>3
  <2>4. 0 .. NMeta - 1 \subseteq V
    <3>1. ASSUME NEW y \in 0 .. NMeta - 1 PROVE y \in V
      <4>1. y \in s.used /\ y \notin DataBlocks
        BY <2>1, DiskSizes DEF BlocksListed, DataBlocks
      <4>2. y \notin gone
        BY <1>1, <1>6, <2>1, <4>1 DEF BlocksListed
      <4> QED BY <1>3, <4>1, <4>2
    <3> QED BY <3>1
  <2> QED BY <2>2, <2>3, <2>4 DEF BlocksListed
<1>13. BlocksSingle(s.data, WithFile(A, f, r))
  <2>1. BlocksSingle(s.data, WithFile(A, f, s))
    BY <1>2 DEF DiskSound
  <2> SUFFICES ASSUME NEW g \in FileIds, NEW h \in FileIds, NEW m \in Places, NEW n \in Places,
                      BlockAt(s.data, WithFile(A, f, r)[g], m) # 0,
                      BlockAt(s.data, WithFile(A, f, r)[g], m) = BlockAt(s.data, WithFile(A, f, r)[h], n)
               PROVE  g = h /\ m = n
    BY DEF BlocksSingle
  <2>2. g # f /\ h # f
    BY <1>9
  <2> QED BY <1>10, <2>1, <2>2 DEF BlocksSingle
<1>14. \A g \in FileIds : Len(K[g]) <= MaxFile * BSize
  <2>1. \A g \in FileIds : Len(C[g]) <= MaxFile * BSize
    BY <1>2 DEF DiskSound
  <2>2. Len(K[f]) = 0 /\ 0 <= MaxFile * BSize
    BY <1>11, DiskSizes
  <2> QED BY <1>11, <2>1, <2>2
<1>15. ASSUME NEW g \in FileIds, NEW off \in 0 .. MaxFile * BSize - 1
       PROVE  UnitStored(s.data, WithFile(A, f, r)[g], K[g], off)
  <2>1. CASE g = f
    <3>1. PlaceOf(off \div BSize) \in Places
      BY OffsetParts, PlaceIs
    <3>2. ~(off < Len(K[f]))
      <4>1. Len(K[f]) = 0
        BY <1>11
      <4> QED BY <4>1, DiskSizes
    <3> QED BY <1>9, <2>1, <3>1, <3>2 DEF UnitStored
  <2>2. CASE g # f
    <3>1. UnitStored(s.data, WithFile(A, f, s)[g], C[g], off)
      BY <1>2 DEF DiskSound
    <3> QED BY <1>8, <1>11, <2>2, <3>1
  <2> QED BY <2>1, <2>2
<1>16. DataTypes(s.data, WithFile(A, f, r), K)
  BY <1>1, <1>8, <1>11 DEF DataTypes
<1>17. DiskSound(r.used, r.data, WithFile(A, f, r), K)
  BY <1>7, <1>12, <1>13, <1>14, <1>15, <1>16 DEF DiskSound
<1>18. CallSound(r, f, A, K)
  BY <1>7, <1>17 DEF CallSound
<1> QED BY <1>5, <1>7, <1>18 DEF K
----------------------------------------------------------------------------
\* What ilock gives a call, and what a call that ended well leaves.
Addrs == InodeAddrs(disk.inodes)

LEMMA IlockedIs ==
  ASSUME ContentSound, NEW f \in FileIds
  PROVE  /\ CallSound(Ilocked(f), f, Addrs, content) /\ Addrs \in Addresses
         /\ Ilocked(f).ip = disk.inodes[f] /\ Ilocked(f).dip = disk.inodes[f]
         /\ Ilocked(f).used = disk.used /\ Ilocked(f).data = disk.data
         /\ Ilocked(f).got = <<>> /\ ~Ilocked(f).out
         /\ Ilocked(f).ip.size = Len(content[f])
<1>1. /\ disk.inodes \in [FileIds -> InodeRecords]
      /\ DiskSound(disk.used, disk.data, Addrs, content)
      /\ \A g \in FileIds : disk.inodes[g].size = Len(content[g])
      /\ \A g \in FileIds : core[g] = NotCached \/ core[g] = disk.inodes[g]
  BY DEF ContentSound, Addrs
<1>2. PICK s : s = Ilocked(f)
  OBVIOUS
<1>3. s = [used |-> disk.used, data |-> disk.data, ip |-> disk.inodes[f], dip |-> disk.inodes[f],
           at |-> 0, out |-> FALSE, got |-> <<>>]
  BY <1>1, <1>2 DEF Ilocked
<1>4. /\ s.used = disk.used /\ s.data = disk.data /\ s.ip = disk.inodes[f] /\ s.dip = disk.inodes[f]
      /\ s.out = FALSE /\ s.got = <<>>
  BY <1>3
<1>5. Addrs \in Addresses /\ WithFile(Addrs, f, s) = Addrs
  BY <1>1, <1>4 DEF Addrs, InodeAddrs, Addresses, InodeRecords, WithFile
<1>6. disk.used \in SUBSET Int
  <2>1. \A x \in disk.used : x \in 0 .. NMeta - 1 \/ x \in DataBlocks \/ x = 0
    <3>1. BlocksListed(disk.used, disk.data, Addrs)
      BY <1>1 DEF DiskSound
    <3> QED BY <3>1 DEF BlocksListed
  <2> QED BY <2>1, DiskSizes DEF DataBlocks
<1>7. disk.data \in [DataBlocks -> [1 .. BSize -> Int]] /\ disk.inodes[f] \in InodeRecords
  BY <1>1 DEF DiskSound, DataTypes
<1>8. s \in CallStates
  BY <1>3, <1>6, <1>7 DEF CallStates
<1>9. CallSound(s, f, Addrs, content)
  BY <1>1, <1>4, <1>5, <1>8 DEF CallSound
<1> QED BY <1>1, <1>2, <1>4, <1>5, <1>9

LEMMA CallEnds ==
  ASSUME ContentSound, NEW f \in FileIds, NEW s, Finish(f, s), NEW K, content' = K,
         CallSound(s, f, Addrs, K), s.ip = s.dip, s.ip.size = Len(K[f]),
         \A g \in FileIds : g # f => K[g] = content[g]
  PROVE  ContentSound'
<1>1. /\ disk.inodes \in [FileIds -> InodeRecords]
      /\ \A g \in FileIds : disk.inodes[g].size = Len(content[g])
      /\ core = [g \in FileIds |-> core[g]]
      /\ \A g \in FileIds : core[g] = NotCached \/ core[g] = disk.inodes[g]
  BY DEF ContentSound
<1>2. s \in CallStates /\ ~s.out /\ DiskSound(s.used, s.data, WithFile(Addrs, f, s), K)
  BY DEF CallSound
<1>3. PICK I : I = [disk.inodes EXCEPT ![f] = s.dip]
  OBVIOUS
<1>4. disk' = [used |-> s.used, data |-> s.data, inodes |-> I] /\ core' = [core EXCEPT ![f] = s.ip]
  BY <1>2, <1>3 DEF Finish
<1>5. disk'.used = s.used /\ disk'.data = s.data /\ disk'.inodes = I
  BY <1>4
<1>6. /\ I \in [FileIds -> InodeRecords] /\ I[f] = s.ip
      /\ \A g \in FileIds : g # f => I[g] = disk.inodes[g]
  BY <1>1, <1>2, <1>3 DEF CallStates
<1>7. InodeAddrs(I) = WithFile(Addrs, f, s)
  BY <1>1, <1>6 DEF InodeAddrs, WithFile, Addrs
<1>8. /\ core' = [g \in FileIds |-> core'[g]]
      /\ \A g \in FileIds : core'[g] = NotCached \/ core'[g] = I[g]
  BY <1>1, <1>4, <1>6
<1>9. \A g \in FileIds : I[g].size = Len(K[g])
  BY <1>1, <1>6
<1>10. DiskSound(disk'.used, disk'.data, InodeAddrs(disk'.inodes), content')
  BY <1>2, <1>5, <1>7
<1>11. disk' = [used |-> disk'.used, data |-> disk'.data, inodes |-> disk'.inodes]
  BY <1>4, <1>5
<1> QED BY <1>5, <1>6, <1>8, <1>9, <1>10, <1>11 DEF ContentSound

\* Nothing changes but what the inode table holds.
LEMMA CoreForgets ==
  ASSUME ContentSound, disk' = disk, content' = content, core' = [g \in FileIds |-> core'[g]],
         \A g \in FileIds : core'[g] = NotCached \/ core'[g] = disk.inodes[g]
  PROVE  ContentSound'
BY DEF ContentSound

LEMMA NoInodesForget ==
  ASSUME ContentSound, disk' = disk, content' = content, core' = NoInodes
  PROVE  ContentSound'
<1>1. core' = [g \in FileIds |-> core'[g]] /\ \A g \in FileIds : core'[g] = NotCached
  BY DEF NoInodes
<1> QED BY <1>1, CoreForgets

(* A call that is refused leaves the disk as it was.                        *)
LEMMA CallRefused ==
  ASSUME ContentSound, NEW f \in FileIds, NEW s, Finish(f, s), content' = content,
         ~s.out, s.used = disk.used, s.data = disk.data, s.ip = disk.inodes[f], s.dip = disk.inodes[f]
  PROVE  ContentSound'
<1>1. /\ disk = [used |-> disk.used, data |-> disk.data, inodes |-> disk.inodes]
      /\ disk.inodes \in [FileIds -> InodeRecords] /\ core = [g \in FileIds |-> core[g]]
      /\ \A g \in FileIds : core[g] = NotCached \/ core[g] = disk.inodes[g]
  BY DEF ContentSound
<1>2. disk' = disk
  <2>1. [disk.inodes EXCEPT ![f] = disk.inodes[f]] = disk.inodes
    BY <1>1
  <2> QED BY <1>1, <2>1 DEF Finish
<1>3. core' = [core EXCEPT ![f] = disk.inodes[f]]
  BY DEF Finish
<1>4. /\ core' = [g \in FileIds |-> core'[g]]
      /\ \A g \in FileIds : core'[g] = NotCached \/ core'[g] = disk.inodes[g]
  BY <1>1, <1>3
<1> QED BY <1>2, <1>4, CoreForgets

LEMMA CallInputs ==
  /\ \A off \in Offsets : off \in Nat /\ off < Width
  /\ \A src \in Sources : src \in Seq(Int) /\ Len(src) \in Nat
<1>1. Offsets \subseteq 0 .. Width - 1 /\ Sources \subseteq Seq(Int)
  BY ContentAssumption
<1> QED BY <1>1, DiskSizes

LEMMA WriteStep ==
  ASSUME ContentSound, NEW f \in FileIds, NEW off \in Offsets, NEW src \in Sources, Write(f, off, src)
  PROVE  ContentSound' /\ (Promise!Write(f, off, src) \/ Promise!Other)
<1> DEFINE s == Ilocked(f)
           r == Writei(s, off, src)
           fits == off <= Len(content[f]) /\ off + Len(src) <= MaxFile * BSize
           K == WithOver(content, f, off, src, Len(src))
<1>1. /\ CallSound(s, f, Addrs, content) /\ Addrs \in Addresses
      /\ s.ip = disk.inodes[f] /\ s.dip = disk.inodes[f] /\ s.used = disk.used /\ s.data = disk.data
      /\ ~s.out /\ s.ip.size = Len(content[f])
  BY IlockedIs
<1>2. /\ off \in Nat /\ off < Width /\ src \in Seq(Int) /\ Len(src) \in Nat
      /\ content \in [FileIds -> Seq(Int)] /\ Len(content[f]) \in Nat
  <2>1. CallShape(s, f, Addrs, content)
    BY <1>1, CallParts
  <2>2. content \in [FileIds -> Seq(Int)]
    BY <2>1 DEF CallShape
  <2> QED BY <2>2, CallInputs
<1>3. /\ Finish(f, r) /\ answer' = <<>>
      /\ content' = IF ~r.out /\ fits THEN [content EXCEPT ![f] = Overlaid(content[f], off, src)] ELSE content
  BY DEF Write
<1>4. Overlaid(content[f], off, src) = Over(content[f], off, src, Len(src))
  BY DEF Overlaid, Over
<1>5. Promise!Overlay(content[f], off, src) = Over(content[f], off, src, Len(src))
  BY DEF Promise!Overlay, Over
<1>6. [content EXCEPT ![f] = Overlaid(content[f], off, src)] = K
  BY <1>4 DEF WithOver
<1>7. Promise!Write(f, off, src)
      <=> /\ content' = [content EXCEPT ![f] = IF fits THEN Over(content[f], off, src, Len(src)) ELSE content[f]]
          /\ answer' = <<>>
  BY <1>5 DEF Promise!Write
<1> HIDE DEF s, r, K
<1>8. CASE ~fits
  <2>1. off > s.ip.size \/ off + Len(src) > MaxFile * BSize
    BY <1>1, <1>2, <1>8, DiskSizes
  <2>2. r = s
    BY <2>1 DEF r, Writei
  <2>3. content' = content
    BY <1>3, <1>8
  <2>4. ContentSound'
    BY <1>1, <1>3, <2>2, <2>3, CallRefused
  <2>5. Promise!Other
    BY <1>3, <2>3 DEF Promise!Other
  <2> QED BY <2>4, <2>5
<1>9. CASE fits /\ r.out
  <2>1. disk' = disk /\ core' = NoInodes /\ content' = content
    BY <1>3, <1>9 DEF Finish
  <2>2. ContentSound'
    BY <2>1, NoInodesForget
  <2>3. Promise!Other
    BY <1>3, <2>1 DEF Promise!Other
  <2> QED BY <2>2, <2>3
<1>10. CASE fits /\ ~r.out
  <2>1. CallSound(r, f, Addrs, K) /\ r.ip.size = Len(K[f]) /\ r.dip = r.ip
    <3>1. LET q == Writei(s, off, src)
              L == WithOver(content, f, off, src, Len(src))
          IN q.out \/ (CallSound(q, f, Addrs, L) /\ q.ip.size = Len(L[f]) /\ q.dip = q.ip)
      BY <1>1, <1>2, <1>10, WriteiIs
    <3> QED BY <3>1, <1>10 DEF r, K
  <2>2. content' = K
    BY <1>3, <1>6, <1>10
  <2>3. \A g \in FileIds : g # f => K[g] = content[g]
    BY <1>2 DEF K, WithOver
  <2>4. ContentSound'
    BY <1>3, <2>1, <2>2, <2>3, CallEnds
  <2>5. Promise!Write(f, off, src)
    BY <1>3, <1>7, <1>10, <2>2 DEF K, WithOver
  <2> QED BY <2>4, <2>5
<1> QED BY <1>8, <1>9, <1>10

LEMMA ReadStep ==
  ASSUME ContentSound, NEW f \in FileIds, NEW off \in Offsets, NEW n \in Offsets, Read(f, off, n)
  PROVE  ContentSound' /\ Promise!Read(f, off, n)
<1> DEFINE s == Ilocked(f)
           r == Readi(s, off, n)
           c == content[f]
<1>1. /\ CallSound(s, f, Addrs, content) /\ Addrs \in Addresses
      /\ s.ip = disk.inodes[f] /\ s.dip = disk.inodes[f] /\ s.used = disk.used /\ s.data = disk.data
      /\ ~s.out /\ s.ip.size = Len(c) /\ s.got = <<>>
  BY IlockedIs
<1>2. /\ off \in Nat /\ off < Width /\ n \in Nat /\ n < Width /\ Width \in Nat /\ Len(c) \in Nat
      /\ s \in CallStates
  <2>1. CallShape(s, f, Addrs, content)
    BY <1>1, CallParts
  <2>2. c \in Seq(Int) /\ s \in CallStates
    BY <2>1 DEF CallShape
  <2> QED BY <2>2, CallInputs, DiskSizes
<1>3. Finish(f, r) /\ answer' = (IF r.out THEN <<>> ELSE <<f, r.got>>) /\ content' = content
  BY DEF Read
<1>4. Wraps(off, n) <=> off + n >= Width
  <2>1. CASE off + n < Width
    <3>1. (off + n) % Width = off + n
      <4>1. off + n \in Nat
        BY <1>2
      <4> QED BY <1>2, <2>1, <4>1, NoRemainder
    <3> QED BY <1>2, <2>1, <3>1 DEF Wraps
  <2>2. CASE off + n >= Width
    <3>1. (off + n) % Width = off + n - Width
      <4>1. PICK x \in Nat : x = off + n - Width
        BY <1>2, <2>2
      <4>2. x < Width /\ off + n = x + Width
        BY <1>2, <4>1
      <4>3. (x + Width) % Width = x
        BY <1>2, <4>2, Z3
      <4> QED BY <4>1, <4>2, <4>3
    <3> QED BY <1>2, <2>2, <3>1 DEF Wraps
  <2> QED BY <1>2, <2>1, <2>2
<1> HIDE DEF s
<1>5. CASE off > Len(c) \/ off + n >= Width
  <2>1. PICK q : q = [s EXCEPT !.got = <<-1>>]
    OBVIOUS
  <2>2. r = q
    BY <1>1, <1>4, <1>5, <2>1 DEF Readi
  <2>3. /\ ~q.out /\ q.used = s.used /\ q.data = s.data /\ q.ip = s.ip /\ q.dip = s.dip /\ q.got = <<-1>>
    BY <1>1, <1>2, <2>1 DEF CallStates
  <2>4. Finish(f, q)
    BY <1>3, <2>2
  <2>5. ContentSound'
    BY <1>1, <1>3, <2>3, <2>4, CallRefused
  <2>6. answer' = <<f, <<-1>>>>
    BY <1>3, <2>2, <2>3
  <2>7. Promise!Read(f, off, n)
    BY <1>3, <1>5, <2>6 DEF Promise!Read
  <2> QED BY <2>5, <2>7
<1>6. CASE ~(off > Len(c) \/ off + n >= Width)
  <2> DEFINE m == Lesser(n, Len(c) - off)
  <2>1. GetAfter(s, r, f, Addrs, content, off, m)
    <3>1. off <= Len(c) /\ off + n < Width
      BY <1>2, <1>6
    <3> QED BY <1>1, <1>2, <3>1, ReadiIs
  <2> HIDE DEF r
  <2>2. /\ ~r.out /\ r.used = disk.used /\ r.data = disk.data /\ r.ip = disk.inodes[f] /\ r.dip = disk.inodes[f]
        /\ r.got = SubSeq(c, off + 1, off + m)
    BY <1>1, <2>1 DEF GetAfter, SameDisk, CallSound
  <2>3. ContentSound'
    BY <1>3, <2>2, CallRefused
  <2>4. off + m = IF off + n < Len(c) THEN off + n ELSE Len(c)
    BY <1>2, <1>6 DEF Lesser
  <2>5. answer' = <<f, SubSeq(c, off + 1, IF off + n < Len(c) THEN off + n ELSE Len(c))>>
    BY <1>3, <2>2, <2>4
  <2>6. Promise!Read(f, off, n)
    BY <1>3, <1>6, <2>5 DEF Promise!Read
  <2> QED BY <2>3, <2>6
<1> QED BY <1>5, <1>6

LEMMA TruncStep ==
  ASSUME ContentSound, NEW f \in FileIds, Trunc(f)
  PROVE  ContentSound' /\ Promise!Empty(f)
<1> DEFINE s == Ilocked(f)
           r == Itrunc(s)
           K == [content EXCEPT ![f] = <<>>]
<1>1. CallSound(s, f, Addrs, content) /\ Addrs \in Addresses
  BY IlockedIs
<1>2. CallSound(r, f, Addrs, K) /\ r.ip = NewInode /\ r.dip = NewInode
  BY <1>1, ItruncIs
<1>3. Finish(f, r) /\ content' = K /\ answer' = <<>>
  BY DEF Trunc
<1>4. content \in [FileIds -> Seq(Int)]
  BY <1>1, CallParts DEF CallShape
<1>5. r.ip.size = Len(K[f]) /\ \A g \in FileIds : g # f => K[g] = content[g]
  BY <1>2, <1>4, NewInodeIs
<1>6. r.ip = r.dip
  BY <1>2
<1> HIDE DEF r, K
<1>7. ContentSound'
  BY <1>2, <1>3, <1>5, <1>6, CallEnds
<1> QED BY <1>3, <1>7 DEF Promise!Empty, K

(* Every step keeps the disk sound and is one the promise allows.           *)
LEMMA ContentStep ==
  ASSUME ContentSound, [ContentNext]_contentVars
  PROVE  ContentSound' /\ (PromiseNext \/ UNCHANGED <<content, answer>>)
<1>1. CASE UNCHANGED contentVars
  <2>1. disk' = disk /\ core' = core /\ content' = content /\ answer' = answer
    BY <1>1 DEF contentVars
  <2>2. ContentSound'
    BY <2>1 DEF ContentSound
  <2> QED BY <2>1, <2>2
<1>2. ASSUME NEW f \in FileIds, NEW off \in Offsets, NEW src \in Sources, Write(f, off, src)
      PROVE  ContentSound' /\ PromiseNext
  BY <1>2, WriteStep DEF PromiseNext
<1>3. ASSUME NEW f \in FileIds, NEW off \in Offsets, NEW n \in Offsets, Read(f, off, n)
      PROVE  ContentSound' /\ PromiseNext
  BY <1>3, ReadStep DEF PromiseNext
<1>4. ASSUME NEW f \in FileIds, Trunc(f)
      PROVE  ContentSound' /\ PromiseNext
  BY <1>4, TruncStep DEF PromiseNext
<1>5. ASSUME NEW f \in FileIds, Forget(f)
      PROVE  ContentSound' /\ PromiseNext
  <2>1. /\ core' = [core EXCEPT ![f] = NotCached] /\ disk' = disk /\ content' = content /\ answer' = <<>>
    BY <1>5 DEF Forget
  <2>2. core = [g \in FileIds |-> core[g]] /\ \A g \in FileIds : core[g] = NotCached \/ core[g] = disk.inodes[g]
    BY DEF ContentSound
  <2>3. /\ core' = [g \in FileIds |-> core'[g]]
        /\ \A g \in FileIds : core'[g] = NotCached \/ core'[g] = disk.inodes[g]
    BY <2>1, <2>2
  <2>4. ContentSound'
    BY <2>1, <2>3, CoreForgets
  <2> QED BY <2>1, <2>4 DEF PromiseNext, Promise!Other
<1>6. CASE Restart
  <2>1. core' = NoInodes /\ disk' = disk /\ content' = content /\ answer' = <<>>
    BY <1>6 DEF Restart
  <2>2. ContentSound'
    BY <2>1, NoInodesForget
  <2> QED BY <2>1, <2>2 DEF PromiseNext, Promise!Other
<1> QED BY <1>1, <1>2, <1>3, <1>4, <1>5, <1>6 DEF ContentNext

LEMMA SoundGivesOnce == ContentSound => FsBlocksOnce
<1> SUFFICES ASSUME ContentSound PROVE FsBlocksOnce
  OBVIOUS
<1> DEFINE block(p) == BlockAt(disk.data, disk.inodes[p[1]].addrs, p[2])
           named == {p \in FileIds \X (0 .. MaxFile) : block(p) # 0}
<1>1. /\ BlocksListed(disk.used, disk.data, Addrs) /\ BlocksSingle(disk.data, Addrs)
      /\ \A g \in FileIds : Addrs[g] = disk.inodes[g].addrs
      /\ \A g \in FileIds : core[g] = NotCached \/ core[g] = disk.inodes[g]
  BY DEF ContentSound, DiskSound, Addrs, InodeAddrs
<1>2. ASSUME NEW p \in named
      PROVE  /\ p[1] \in FileIds /\ p[2] \in Places /\ p = <<p[1], p[2]>>
             /\ block(p) = BlockAt(disk.data, Addrs[p[1]], p[2]) /\ block(p) # 0
  BY <1>1 DEF Places
<1>3. ASSUME NEW p \in named
      PROVE  block(p) \in DataBlocks /\ block(p) \in disk.used
  BY <1>1, <1>2 DEF BlocksListed
<1>4. ASSUME NEW p \in named, NEW q \in named, block(p) = block(q)
      PROVE  p = q
  <2>1. p[1] = q[1] /\ p[2] = q[2]
    BY <1>1, <1>2, <1>4 DEF BlocksSingle
  <2> QED BY <1>2, <2>1
<1>5. ASSUME NEW x \in disk.used, x \notin 0 .. NMeta - 1
      PROVE  \E p \in named : block(p) = x
  <2>1. PICK g \in FileIds, m \in Places : BlockAt(disk.data, Addrs[g], m) = x
    BY <1>1, <1>5 DEF BlocksListed
  <2>2. x # 0
    BY <1>5, DiskSizes
  <2>3. <<g, m>> \in named /\ block(<<g, m>>) = x
    BY <1>1, <2>1, <2>2 DEF Places
  <2> QED BY <2>3
<1>6. 0 .. NMeta - 1 \subseteq disk.used
  BY <1>1 DEF BlocksListed
<1> HIDE DEF block, named
<1>7. disk.used = (0 .. NMeta - 1) \cup {block(p) : p \in named}
  <2>1. ASSUME NEW x \in disk.used PROVE x \in (0 .. NMeta - 1) \cup {block(p) : p \in named}
    BY <1>5
  <2>2. ASSUME NEW x \in (0 .. NMeta - 1) \cup {block(p) : p \in named} PROVE x \in disk.used
    BY <1>3, <1>6
  <2> QED BY <2>1, <2>2
<1>8. \A p, q \in named : block(p) = block(q) => p = q
  BY <1>4
<1>9. \A p \in named : block(p) \in NMeta .. FsSize - 1
  BY <1>3 DEF DataBlocks
<1>10. \A g \in FileIds : core[g] # NotCached => core[g] = disk.inodes[g]
  BY <1>1
<1> QED BY <1>7, <1>8, <1>9, <1>10 DEF FsBlocksOnce, block, named
----------------------------------------------------------------------------
\* mkfs. Blocks from freeblock on hold zeros and have no name yet.
MkShape(t) ==
  t = [data |-> t.data, inodes |-> t.inodes, free |-> t.free, at |-> t.at] /\ t.free \in Nat

Making(t, C) ==
  /\ MkShape(t) /\ t.free >= NMeta /\ t.free <= FsSize
  /\ t.inodes \in [FileIds -> InodeRecords]
  /\ \A g \in FileIds : t.inodes[g].size = Len(C[g])
  /\ DiskSound(0 .. t.free - 1, t.data, InodeAddrs(t.inodes), C)
  /\ \A x \in DataBlocks : x >= t.free => t.data[x] = ZeroBlock

LEMMA MkMonotone ==
  ASSUME NEW t, MkShape(t), NEW f, NEW n, NEW u
  PROVE  /\ MkShape(MkBlock(t, f, n)) /\ MkBlock(t, f, n).free >= t.free
         /\ MkShape(MkMap(t, f, n)) /\ MkMap(t, f, n).free >= t.free
         /\ MkShape(IAppend(t, f, u)) /\ IAppend(t, f, u).free >= t.free
<1>1. ASSUME NEW p, MkShape(p), NEW i, NEW m
      PROVE  MkShape(MkBlock(p, i, m)) /\ MkBlock(p, i, m).free >= p.free
  <2>1. CASE p.inodes[i].addrs[m] # 0
    BY <1>1, <2>1 DEF MkBlock, MkShape
  <2>2. CASE ~(p.inodes[i].addrs[m] # 0)
    <3>1. PICK I : I = [p.inodes EXCEPT ![i].addrs[m] = p.free]
      OBVIOUS
    <3>2. PICK k \in Nat : k = p.free + 1
      BY <1>1 DEF MkShape
    <3>3. MkBlock(p, i, m) = [p EXCEPT !.inodes = I, !.free = k]
      BY <1>1, <2>2, <3>1, <3>2 DEF MkBlock, MkShape
    <3>4. MkBlock(p, i, m) = [data |-> p.data, inodes |-> I, free |-> k, at |-> p.at]
      BY <1>1, <3>3 DEF MkShape
    <3> QED BY <1>1, <3>2, <3>4 DEF MkShape
  <2> QED BY <2>1, <2>2
<1>2. ASSUME NEW p, MkShape(p), NEW i, NEW m
      PROVE  MkShape(MkMap(p, i, m)) /\ MkMap(p, i, m).free >= p.free
  <2> DEFINE a == MkBlock(p, i, Lesser(m, NDirect))
             x == a.inodes[i].addrs[Lesser(m, NDirect)]
             j == m - NDirect + 1
             r == MkMap(p, i, m)
  <2>1. MkShape(a) /\ a.free >= p.free
    BY <1>1, <1>2
  <2>2. \/ r = [a EXCEPT !.at = x]
        \/ r = [a EXCEPT !.at = a.data[x][j]]
        \/ r = [a EXCEPT !.data[x][j] = a.free, !.at = a.free, !.free = a.free + 1]
    <3>1. r = CASE m < NDirect -> [a EXCEPT !.at = x]
                [] m >= NDirect /\ a.data[x][j] # 0 -> [a EXCEPT !.at = a.data[x][j]]
                [] OTHER -> [a EXCEPT !.data[x][j] = a.free, !.at = a.free, !.free = a.free + 1]
      BY DEF MkMap
    <3> HIDE DEF a, x, j, r
    <3> QED BY <3>1
  <2> HIDE DEF a, x, j, r
  <2>3. CASE r = [a EXCEPT !.at = x]
    <3>1. r = [data |-> a.data, inodes |-> a.inodes, free |-> a.free, at |-> x]
      BY <2>1, <2>3 DEF MkShape
    <3> QED BY <1>2, <2>1, <3>1 DEF MkShape, r
  <2>4. CASE r = [a EXCEPT !.at = a.data[x][j]]
    <3>1. PICK y : y = a.data[x][j]
      OBVIOUS
    <3>2. r = [data |-> a.data, inodes |-> a.inodes, free |-> a.free, at |-> y]
      BY <2>1, <2>4, <3>1 DEF MkShape
    <3> QED BY <1>2, <2>1, <3>2 DEF MkShape, r
  <2>5. CASE r = [a EXCEPT !.data[x][j] = a.free, !.at = a.free, !.free = a.free + 1]
    <3>1. PICK E : E = [a.data EXCEPT ![x][j] = a.free]
      OBVIOUS
    <3>2. PICK k \in Nat : k = a.free + 1
      BY <2>1 DEF MkShape
    <3>3. r = [a EXCEPT !.data = E, !.at = a.free, !.free = k]
      BY <2>1, <2>5, <3>1, <3>2 DEF MkShape
    <3>4. r = [data |-> E, inodes |-> a.inodes, free |-> k, at |-> a.free]
      BY <2>1, <3>3 DEF MkShape
    <3> QED BY <1>2, <2>1, <3>2, <3>4 DEF MkShape, r
  <2> QED BY <2>2, <2>3, <2>4, <2>5
<1>3. MkShape(IAppend(t, f, u)) /\ IAppend(t, f, u).free >= t.free
  <2> DEFINE off == t.inodes[f].size
             a == MkMap(t, f, off \div BSize)
             r == IAppend(t, f, u)
  <2>1. MkShape(a) /\ a.free >= t.free
    BY <1>2
  <2>2. r = [a EXCEPT !.data[a.at][(off % BSize) + 1] = u, !.inodes[f].size = off + 1]
    BY DEF IAppend
  <2> HIDE DEF a, r
  <2>3. PICK E : E = [a.data EXCEPT ![a.at][(off % BSize) + 1] = u]
    OBVIOUS
  <2>4. PICK I : I = [a.inodes EXCEPT ![f].size = off + 1]
    OBVIOUS
  <2>5. r = [a EXCEPT !.data = E, !.inodes = I]
    BY <2>1, <2>2, <2>3, <2>4 DEF MkShape
  <2>6. r = [data |-> E, inodes |-> I, free |-> a.free, at |-> a.at]
    BY <2>1, <2>5 DEF MkShape
  <2> QED BY <2>1, <2>6 DEF MkShape, r
<1> QED BY <1>1, <1>2, <1>3

LEMMA MakingParts ==
  ASSUME NEW t, NEW C, Making(t, C)
  PROVE  /\ MkShape(t) /\ t.free \in Nat /\ t.free >= NMeta /\ t.free <= FsSize
         /\ t.inodes \in [FileIds -> InodeRecords] /\ InodeAddrs(t.inodes) \in Addresses
         /\ t.data \in [DataBlocks -> [1 .. BSize -> Int]] /\ C \in [FileIds -> Seq(Int)]
         /\ DiskSound(0 .. t.free - 1, t.data, InodeAddrs(t.inodes), C)
<1>1. /\ MkShape(t) /\ t.free >= NMeta /\ t.free <= FsSize
      /\ t.inodes \in [FileIds -> InodeRecords]
      /\ DiskSound(0 .. t.free - 1, t.data, InodeAddrs(t.inodes), C)
  BY DEF Making
<1>2. t.free \in Nat
  BY <1>1 DEF MkShape
<1>3. /\ t.data \in [DataBlocks -> [1 .. BSize -> Int]] /\ C \in [FileIds -> Seq(Int)]
      /\ InodeAddrs(t.inodes) \in Addresses
  BY <1>1 DEF DiskSound, DataTypes
<1> QED BY <1>1, <1>2, <1>3

\* The block freeblock stands for, when it is on the disk.
LEMMA NextBlock ==
  ASSUME NEW t, NEW C, Making(t, C), t.free + 1 <= FsSize
  PROVE  /\ t.free \in DataBlocks /\ t.free \notin 0 .. t.free - 1 /\ t.free # 0
         /\ t.data[t.free] = ZeroBlock
         /\ (0 .. t.free - 1) \cup {t.free} = 0 .. (t.free + 1) - 1
         /\ t.free + 1 \in Nat /\ t.free + 1 >= NMeta
<1>1. t.free \in Nat /\ t.free >= NMeta
  BY MakingParts
<1>2. t.free \in DataBlocks
  BY <1>1, DiskSizes DEF DataBlocks
<1>3. t.data[t.free] = ZeroBlock
  BY <1>1, <1>2 DEF Making
<1>4. \A k \in Nat : (0 .. k - 1) \cup {k} = 0 .. (k + 1) - 1 /\ k \notin 0 .. k - 1
  OBVIOUS
<1>5. t.free # 0 /\ t.free + 1 \in Nat /\ t.free + 1 >= NMeta
  BY <1>1, DiskSizes
<1> QED BY <1>1, <1>2, <1>3, <1>4, <1>5

MkFound(t, r, f, C, m) ==
  /\ Making(r, C) /\ \A g \in FileIds : r.inodes[g].size = t.inodes[g].size
  /\ BlockAt(r.data, r.inodes[f].addrs, m) # 0

LEMMA MkBlockIs ==
  ASSUME NEW t, NEW C, Making(t, C), NEW f \in FileIds, NEW n \in 0 .. NDirect,
         MkBlock(t, f, n).free <= FsSize
  PROVE  MkFound(t, MkBlock(t, f, n), f, C, n)
<1>1. /\ MkShape(t) /\ t.free \in Nat /\ t.free >= NMeta /\ t.free <= FsSize
      /\ t.inodes \in [FileIds -> InodeRecords] /\ InodeAddrs(t.inodes) \in Addresses
      /\ t.data \in [DataBlocks -> [1 .. BSize -> Int]] /\ C \in [FileIds -> Seq(Int)]
      /\ DiskSound(0 .. t.free - 1, t.data, InodeAddrs(t.inodes), C)
  BY MakingParts
<1>2. \A addrs, data : BlockAt(data, addrs, n) = addrs[n]
  BY DiskSizes DEF BlockAt
<1>3. CASE t.inodes[f].addrs[n] # 0
  BY <1>2, <1>3 DEF MkBlock, MkFound
<1>4. CASE t.inodes[f].addrs[n] = 0
  <2>1. PICK w : w = [t.inodes[f].addrs EXCEPT ![n] = t.free]
    OBVIOUS
  <2>2. PICK v : v = [t.inodes[f] EXCEPT !.addrs = w]
    OBVIOUS
  <2>3. PICK I : I = [t.inodes EXCEPT ![f] = v]
    OBVIOUS
  <2>4. PICK k : k = t.free + 1
    OBVIOUS
  <2>5. PICK r : r = [t EXCEPT !.inodes = I, !.free = k]
    OBVIOUS
  <2>6. MkBlock(t, f, n) = r
    BY <1>1, <1>4, <2>1, <2>2, <2>3, <2>4, <2>5 DEF MkBlock, MkShape, InodeRecords
  <2>7. r = [data |-> t.data, inodes |-> I, free |-> k, at |-> t.at]
    BY <1>1, <2>5 DEF MkShape
  <2>8. r.data = t.data /\ r.inodes = I /\ r.free = k /\ r.at = t.at
    BY <2>7
  <2>9. /\ t.free \in DataBlocks /\ t.free \notin 0 .. t.free - 1 /\ t.free # 0
        /\ t.data[t.free] = ZeroBlock /\ (0 .. t.free - 1) \cup {t.free} = 0 .. k - 1
        /\ k \in Nat /\ k >= NMeta /\ k <= FsSize
    <3>1. t.free + 1 <= FsSize
      BY <2>4, <2>6, <2>8
    <3> QED BY <2>4, <3>1, NextBlock
  <2>10. t.inodes[f] \in InodeRecords /\ t.inodes[f].addrs \in [0 .. NDirect -> Int]
    BY <1>1 DEF InodeRecords
  <2>11. w \in [0 .. NDirect -> Int] /\ w[n] = t.free
    <3>1. t.free \in Int
      BY <1>1
    <3> QED BY <2>1, <2>10, <3>1
  <2>12. v \in InodeRecords /\ v.addrs = w /\ v.size = t.inodes[f].size
    BY <2>2, <2>10, <2>11 DEF InodeRecords
  <2>13. I \in [FileIds -> InodeRecords] /\ I[f] = v /\ \A g \in FileIds : g # f => I[g] = t.inodes[g]
    BY <1>1, <2>3, <2>12
  <2>14. \A g \in FileIds : InodeAddrs(I)[g]
            = IF g = f THEN [InodeAddrs(t.inodes)[f] EXCEPT ![n] = t.free] ELSE InodeAddrs(t.inodes)[g]
    BY <2>1, <2>12, <2>13 DEF InodeAddrs
  <2>15. DataTypes(t.data, InodeAddrs(I), C)
    BY <1>1, <2>13 DEF DataTypes, InodeAddrs, Addresses, InodeRecords
  <2>16. \A y \in DataBlocks : t.data[y] = IF y = t.free THEN ZeroBlock ELSE t.data[y]
    BY <2>9
  <2>17. InodeAddrs(t.inodes)[f][n] = 0
    BY <1>4 DEF InodeAddrs
  <2>18. DiskSound((0 .. t.free - 1) \cup {t.free}, t.data, InodeAddrs(I), C)
    <3>1. DiskSound(0 .. t.free - 1, t.data, InodeAddrs(t.inodes), C)
      BY <1>1
    <3>2. t.free \in DataBlocks /\ t.free \notin 0 .. t.free - 1
      BY <2>9
    <3>3. PICK U : U = 0 .. t.free - 1
      OBVIOUS
    <3>4. DiskSound(U, t.data, InodeAddrs(t.inodes), C) /\ t.free \notin U
      BY <3>1, <3>2, <3>3
    <3>5. DiskSound(U \cup {t.free}, t.data, InodeAddrs(I), C)
      BY <2>14, <2>15, <2>16, <2>17, <3>2, <3>4, AddressTaken
    <3> QED BY <3>3, <3>5
  <2>19. \A g \in FileIds : I[g].size = t.inodes[g].size
    BY <2>12, <2>13
  <2>20. \A x \in DataBlocks : x >= k => t.data[x] = ZeroBlock
    <3>1. \A x \in DataBlocks : x >= k => x >= t.free
      BY <1>1, <2>4, DiskSizes DEF DataBlocks
    <3>2. \A x \in DataBlocks : x >= t.free => t.data[x] = ZeroBlock
      BY DEF Making
    <3> QED BY <3>1, <3>2
  <2>21. Making(r, C)
    <3>1. \A g \in FileIds : t.inodes[g].size = Len(C[g])
      BY DEF Making
    <3>2. MkShape(r)
      BY <2>7, <2>8, <2>9 DEF MkShape
    <3>3. DiskSound(0 .. r.free - 1, r.data, InodeAddrs(r.inodes), C)
      BY <2>8, <2>9, <2>18
    <3> QED BY <2>8, <2>9, <2>13, <2>19, <2>20, <3>1, <3>2, <3>3 DEF Making
  <2>22. BlockAt(r.data, r.inodes[f].addrs, n) # 0
    BY <1>2, <2>8, <2>9, <2>11, <2>12, <2>13
  <2> QED BY <2>6, <2>8, <2>19, <2>21, <2>22 DEF MkFound
<1> QED BY <1>3, <1>4

LEMMA MkMapIs ==
  ASSUME NEW t, NEW C, Making(t, C), NEW f \in FileIds, NEW bn \in 0 .. MaxFile - 1,
         MkMap(t, f, bn).free <= FsSize
  PROVE  LET r == MkMap(t, f, bn)
         IN MkFound(t, r, f, C, PlaceOf(bn)) /\ r.at = BlockAt(r.data, r.inodes[f].addrs, PlaceOf(bn))
<1> DEFINE n == Lesser(bn, NDirect)
           a == MkBlock(t, f, n)
           x == a.inodes[f].addrs[n]
           i == bn - NDirect + 1
           m == PlaceOf(bn)
           r == MkMap(t, f, bn)
<1>0. bn \in Int /\ NDirect \in Nat /\ MaxFile = NDirect + BSize /\ BSize \in Nat /\ NMeta \in Nat /\ NMeta > 0
  BY DiskSizes
<1>1. n \in 0 .. NDirect
  BY <1>0 DEF Lesser
<1>2. /\ bn < NDirect => r = [a EXCEPT !.at = x]
      /\ ~(bn < NDirect) /\ a.data[x][i] # 0 => r = [a EXCEPT !.at = a.data[x][i]]
      /\ ~(bn < NDirect) /\ ~(a.data[x][i] # 0) =>
           r = [a EXCEPT !.data[x][i] = a.free, !.at = a.free, !.free = a.free + 1]
  <2>1. (bn >= NDirect) <=> ~(bn < NDirect)
    BY <1>0
  <2>2. r = CASE bn < NDirect -> [a EXCEPT !.at = x]
              [] bn >= NDirect /\ a.data[x][i] # 0 -> [a EXCEPT !.at = a.data[x][i]]
              [] OTHER -> [a EXCEPT !.data[x][i] = a.free, !.at = a.free, !.free = a.free + 1]
    BY DEF MkMap
  <2> HIDE DEF a, x, i, r
  <2>3. bn < NDirect => r = [a EXCEPT !.at = x]
    BY <2>1, <2>2
  <2>4. ~(bn < NDirect) /\ a.data[x][i] # 0 => r = [a EXCEPT !.at = a.data[x][i]]
    BY <2>1, <2>2
  <2>5. ~(bn < NDirect) /\ ~(a.data[x][i] # 0) =>
          r = [a EXCEPT !.data[x][i] = a.free, !.at = a.free, !.free = a.free + 1]
    BY <2>1, <2>2
  <2> QED BY <2>3, <2>4, <2>5
<1>3. MkShape(a) /\ a.free \in Nat
  <2>1. MkShape(t)
    BY MakingParts
  <2> QED BY <2>1, MkMonotone DEF MkShape
<1>4. a.free <= r.free
  <2> HIDE DEF a, x, i
  <2>1. CASE bn < NDirect
    <3>1. r.free = a.free
      BY <1>2, <1>3, <2>1 DEF MkShape
    <3> QED BY <1>3, <3>1
  <2>2. CASE ~(bn < NDirect) /\ a.data[x][i] # 0
    <3>1. r.free = a.free
      BY <1>2, <1>3, <2>2 DEF MkShape
    <3> QED BY <1>3, <3>1
  <2>3. CASE ~(bn < NDirect) /\ ~(a.data[x][i] # 0)
    <3>1. r.free = a.free + 1
      BY <1>2, <1>3, <2>3 DEF MkShape
    <3> QED BY <1>3, <3>1
  <2> QED BY <2>1, <2>2, <2>3
<1>5. a.free <= FsSize /\ r.free <= FsSize
  <2>1. r.free \in Nat
    <3>1. MkShape(t)
      BY MakingParts
    <3> QED BY <3>1, MkMonotone DEF MkShape
  <2> HIDE DEF r, a
  <2>2. r.free <= FsSize
    BY DEF r
  <2> QED BY <1>3, <1>4, <2>1, <2>2, DiskSizes
<1>6. MkFound(t, a, f, C, n)
  BY <1>1, <1>5, MkBlockIs
<1> HIDE DEF a, r
<1>7. Making(a, C) /\ (\A g \in FileIds : a.inodes[g].size = t.inodes[g].size) /\ x # 0
      /\ x = BlockAt(a.data, a.inodes[f].addrs, n)
  <2>1. BlockAt(a.data, a.inodes[f].addrs, n) = x
    BY <1>0, <1>1 DEF BlockAt
  <2> QED BY <1>6, <2>1 DEF MkFound
<1>8. /\ a.inodes \in [FileIds -> InodeRecords] /\ InodeAddrs(a.inodes) \in Addresses
      /\ a.data \in [DataBlocks -> [1 .. BSize -> Int]] /\ C \in [FileIds -> Seq(Int)]
      /\ DiskSound(0 .. a.free - 1, a.data, InodeAddrs(a.inodes), C)
      /\ a.free >= NMeta /\ \A y \in DataBlocks : y >= a.free => a.data[y] = ZeroBlock
      /\ \A g \in FileIds : a.inodes[g].size = Len(C[g])
  <2>1. /\ a.inodes \in [FileIds -> InodeRecords] /\ InodeAddrs(a.inodes) \in Addresses
        /\ a.data \in [DataBlocks -> [1 .. BSize -> Int]] /\ C \in [FileIds -> Seq(Int)]
        /\ DiskSound(0 .. a.free - 1, a.data, InodeAddrs(a.inodes), C)
    BY <1>7, MakingParts
  <2>2. /\ a.free >= NMeta /\ \A y \in DataBlocks : y >= a.free => a.data[y] = ZeroBlock
        /\ \A g \in FileIds : a.inodes[g].size = Len(C[g])
    BY <1>7 DEF Making
  <2> QED BY <2>1, <2>2
<1>9. InodeAddrs(a.inodes)[f] = a.inodes[f].addrs
  BY DEF InodeAddrs
\* at alone changes.
<1>10. ASSUME NEW v, r = [a EXCEPT !.at = v], v = BlockAt(a.data, a.inodes[f].addrs, m), v # 0
       PROVE  MkFound(t, r, f, C, m) /\ r.at = BlockAt(r.data, r.inodes[f].addrs, m)
  <2>1. r = [data |-> a.data, inodes |-> a.inodes, free |-> a.free, at |-> v]
    BY <1>3, <1>10 DEF MkShape
  <2>2. r.data = a.data /\ r.inodes = a.inodes /\ r.free = a.free /\ r.at = v
    BY <2>1
  <2>3. MkShape(r)
    BY <1>3, <2>1, <2>2 DEF MkShape
  <2>4. Making(r, C)
    BY <1>5, <1>8, <2>2, <2>3 DEF Making
  <2> QED BY <1>7, <1>10, <2>2, <2>4 DEF MkFound
<1>11. CASE bn < NDirect
  <2>1. n = bn /\ m = bn
    BY <1>0, <1>11 DEF Lesser, PlaceOf
  <2> QED BY <1>2, <1>7, <1>10, <1>11, <2>1 DEF r
<1>12. CASE ~(bn < NDirect)
  <2>1. n = NDirect /\ m = bn + 1 /\ i \in 1 .. BSize /\ m - NDirect = i /\ m > NDirect /\ ~(m <= NDirect)
    <3>1. n = NDirect
      BY <1>0, <1>12 DEF Lesser
    <3>2. m = bn + 1
      BY <1>12 DEF PlaceOf
    <3> QED BY <1>0, <1>12, <3>1, <3>2
  <2>2. m \in Places
    BY PlaceIs
  <2>3. x = a.inodes[f].addrs[NDirect]
    BY <2>1
  <2>4. BlockAt(a.data, a.inodes[f].addrs, m) = a.data[x][i]
    BY <1>7, <2>1, <2>3 DEF BlockAt
  <2>5. x \in DataBlocks /\ x \in 0 .. a.free - 1
    <3>1. BlockAt(a.data, InodeAddrs(a.inodes)[f], NDirect) # 0 =>
            /\ BlockAt(a.data, InodeAddrs(a.inodes)[f], NDirect) \in DataBlocks
            /\ BlockAt(a.data, InodeAddrs(a.inodes)[f], NDirect) \in 0 .. a.free - 1
      BY <1>8, PlaceIs, NumberSound
    <3> QED BY <1>7, <1>9, <2>1, <3>1
  <2>6. CASE a.data[x][i] # 0
    BY <1>2, <1>10, <1>12, <2>4, <2>6 DEF r
  <2>7. CASE ~(a.data[x][i] # 0)
    <3>1. PICK w : w = [a.data[x] EXCEPT ![i] = a.free]
      OBVIOUS
    <3>2. PICK E : E = [a.data EXCEPT ![x] = w]
      OBVIOUS
    <3>3. PICK k : k = a.free + 1
      OBVIOUS
    <3>4. r = [a EXCEPT !.data = E, !.at = a.free, !.free = k]
      BY <1>2, <1>3, <1>12, <2>7, <3>1, <3>2, <3>3 DEF MkShape
    <3>5. r = [data |-> E, inodes |-> a.inodes, free |-> k, at |-> a.free]
      BY <1>3, <3>4 DEF MkShape
    <3>6. r.data = E /\ r.inodes = a.inodes /\ r.free = k /\ r.at = a.free
      BY <3>5
    <3>7. /\ a.free \in DataBlocks /\ a.free \notin 0 .. a.free - 1 /\ a.free # 0
          /\ a.data[a.free] = ZeroBlock /\ (0 .. a.free - 1) \cup {a.free} = 0 .. k - 1
          /\ k \in Nat /\ k >= NMeta /\ k <= FsSize
      <4>1. a.free + 1 <= FsSize
        BY <1>5, <3>3, <3>6
      <4> QED BY <1>7, <3>3, <4>1, NextBlock
    <3>8. w \in [1 .. BSize -> Int] /\ a.data[x] \in [1 .. BSize -> Int]
      BY <1>3, <1>8, <2>1, <2>5, <3>1
    <3>9. E \in [DataBlocks -> [1 .. BSize -> Int]] /\ E[x] = w /\ \A y \in DataBlocks : y # x => E[y] = a.data[y]
      BY <1>8, <2>5, <3>2, <3>8
    <3>10. DataTypes(E, InodeAddrs(a.inodes), C)
      BY <1>8, <3>9 DEF DataTypes
    <3>11. x # a.free
      BY <2>5, <3>7
    <3>12. EntrySet(a.data, E, InodeAddrs(a.inodes)[f][NDirect], m - NDirect, a.free)
      BY <1>9, <2>1, <2>3, <3>1, <3>7, <3>9, <3>11 DEF EntrySet
    <3>13. /\ DiskSound((0 .. a.free - 1) \cup {a.free}, E, InodeAddrs(a.inodes), C)
           /\ BlockAt(E, InodeAddrs(a.inodes)[f], m) = a.free
      <4>1. InodeAddrs(a.inodes)[f][NDirect] # 0 /\ a.data[InodeAddrs(a.inodes)[f][NDirect]][m - NDirect] = 0
        BY <1>7, <1>9, <2>1, <2>3, <2>7
      <4>2. DiskSound(0 .. a.free - 1, a.data, InodeAddrs(a.inodes), C) /\ m \in Places /\ m > NDirect
        BY <1>8, <2>1, <2>2
      <4>3. a.free \in DataBlocks /\ a.free \notin 0 .. a.free - 1
        BY <3>7
      <4>4. PICK U : U = 0 .. a.free - 1
        OBVIOUS
      <4>5. /\ DiskSound(U, a.data, InodeAddrs(a.inodes), C) /\ a.free \notin U
            /\ a.free \in DataBlocks /\ m \in Places /\ m > NDirect
        BY <4>2, <4>3, <4>4
      <4> HIDE DEF m
      <4>6. /\ DiskSound(U \cup {a.free}, E, InodeAddrs(a.inodes), C)
            /\ BlockAt(E, InodeAddrs(a.inodes)[f], m) = a.free
        BY <3>10, <3>12, <4>1, <4>5, EntryTaken
      <4> QED BY <4>4, <4>6 DEF m
    <3>14. \A y \in DataBlocks : y >= k => E[y] = ZeroBlock
      <4>1. ASSUME NEW y \in DataBlocks, y >= k PROVE E[y] = ZeroBlock
        <5>1. y >= a.free /\ y # x
          BY <1>3, <2>5, <3>3, <4>1 DEF DataBlocks
        <5> QED BY <1>8, <3>9, <5>1
      <4> QED BY <4>1
    <3>15. Making(r, C)
      <4>1. MkShape(r)
        BY <3>5, <3>6, <3>7 DEF MkShape
      <4>2. DiskSound(0 .. r.free - 1, r.data, InodeAddrs(r.inodes), C)
        BY <3>6, <3>7, <3>13
      <4> QED BY <1>8, <3>6, <3>7, <3>14, <4>1, <4>2 DEF Making
    <3>16. BlockAt(r.data, r.inodes[f].addrs, m) = r.at
      BY <1>9, <3>6, <3>13
    <3>17. r.at # 0
      BY <3>6, <3>7
    <3> QED BY <1>7, <3>6, <3>15, <3>16, <3>17 DEF MkFound, r
  <2> QED BY <2>6, <2>7
<1> QED BY <1>11, <1>12

LEMMA IAppendIs ==
  ASSUME NEW t, NEW C, Making(t, C), NEW f \in FileIds, NEW u \in Int, NEW K,
         NEW off \in 0 .. MaxFile * BSize - 1, off = Len(C[f]), UnitWritten(C, K, f, off, u),
         IAppend(t, f, u).free <= FsSize
  PROVE  Making(IAppend(t, f, u), K)
<1> DEFINE bn == off \div BSize
           m == PlaceOf(bn)
           a == MkMap(t, f, bn)
           r == IAppend(t, f, u)
           j == (off % BSize) + 1
<1>1. MkShape(t) /\ t.inodes[f].size = off
  BY DEF Making
<1>2. MkShape(a) /\ a.free \in Nat
  BY <1>1, MkMonotone DEF MkShape
<1>3. r = [a EXCEPT !.data[a.at][j] = u, !.inodes[f].size = off + 1]
  BY <1>1 DEF IAppend
<1>4. bn \in 0 .. MaxFile - 1 /\ m \in Places
  BY OffsetParts, PlaceIs
<1>5. j \in 1 .. BSize
  BY UnitIndex
<1>6. r.free = a.free
  <2> HIDE DEF a, r, j
  <2> QED BY <1>2, <1>3 DEF MkShape
<1> HIDE DEF bn
<1>7. MkFound(t, a, f, C, m) /\ a.at = BlockAt(a.data, a.inodes[f].addrs, m)
  <2>1. MkMap(t, f, bn).free <= FsSize
    BY <1>6
  <2>2. LET q == MkMap(t, f, bn)
        IN MkFound(t, q, f, C, PlaceOf(bn)) /\ q.at = BlockAt(q.data, q.inodes[f].addrs, PlaceOf(bn))
    BY <1>4, <2>1, MkMapIs
  <2> QED BY <2>2
<1> HIDE DEF a, r
<1>8. /\ Making(a, C) /\ a.at # 0 /\ \A g \in FileIds : a.inodes[g].size = Len(C[g])
  <2>1. \A g \in FileIds : a.inodes[g].size = t.inodes[g].size
    BY <1>7 DEF MkFound
  <2>2. \A g \in FileIds : t.inodes[g].size = Len(C[g])
    BY DEF Making
  <2> QED BY <1>7, <2>1, <2>2 DEF MkFound
<1>9. /\ a.free >= NMeta /\ a.free <= FsSize
      /\ a.inodes \in [FileIds -> InodeRecords] /\ InodeAddrs(a.inodes) \in Addresses
      /\ a.data \in [DataBlocks -> [1 .. BSize -> Int]]
  BY <1>8, MakingParts
<1>10. PICK y : y = a.at
  OBVIOUS
<1>11. PICK U : U = 0 .. a.free - 1
  OBVIOUS
<1>12. DiskSound(U, a.data, InodeAddrs(a.inodes), C)
  BY <1>8, <1>11, MakingParts
<1>13. y = BlockAt(a.data, InodeAddrs(a.inodes)[f], m) /\ y # 0
  BY <1>7, <1>8, <1>10 DEF InodeAddrs
<1>14. y \in DataBlocks /\ y \in U
  BY <1>4, <1>12, <1>13, NumberSound
<1>15. PICK w : w = [a.data[y] EXCEPT ![j] = u]
  OBVIOUS
<1>16. PICK E : E = [a.data EXCEPT ![y] = w]
  OBVIOUS
<1>17. PICK v : v = [a.inodes[f] EXCEPT !.size = off + 1]
  OBVIOUS
<1>18. PICK I : I = [a.inodes EXCEPT ![f] = v]
  OBVIOUS
<1>19. r = [a EXCEPT !.data = E, !.inodes = I]
  <2> HIDE DEF j
  <2> QED BY <1>2, <1>3, <1>9, <1>10, <1>15, <1>16, <1>17, <1>18 DEF MkShape, InodeRecords
<1>20. r = [data |-> E, inodes |-> I, free |-> a.free, at |-> a.at]
  BY <1>2, <1>19 DEF MkShape
<1>21. r.data = E /\ r.inodes = I /\ r.at = a.at
  BY <1>20
<1>22. DiskSound(U, E, InodeAddrs(a.inodes), K)
  <2>1. E = [a.data EXCEPT ![y] = [a.data[y] EXCEPT ![(off % BSize) + 1] = u]]
    BY <1>15, <1>16
  <2> QED BY <1>12, <1>13, <2>1, UnitPut DEF m, bn
<1>23. v \in InodeRecords /\ v.addrs = a.inodes[f].addrs /\ v.size = off + 1
  <2>1. a.inodes[f] \in InodeRecords /\ off + 1 \in Nat
    BY <1>9, DiskSizes
  <2> QED BY <1>17, <2>1 DEF InodeRecords
<1>24. I \in [FileIds -> InodeRecords] /\ I[f] = v /\ \A g \in FileIds : g # f => I[g] = a.inodes[g]
  BY <1>9, <1>18, <1>23
<1>25. InodeAddrs(I) = InodeAddrs(a.inodes)
  BY <1>23, <1>24 DEF InodeAddrs
<1>26. \A g \in FileIds : I[g].size = Len(K[g])
  BY <1>8, <1>23, <1>24 DEF UnitWritten
<1>27. ASSUME NEW x \in DataBlocks, x >= a.free PROVE E[x] = ZeroBlock
  <2>1. x # y
    BY <1>2, <1>11, <1>14, <1>27 DEF DataBlocks
  <2>2. a.data[x] = ZeroBlock
    BY <1>8, <1>27 DEF Making
  <2> QED BY <1>9, <1>16, <2>1, <2>2
<1>28. MkShape(r)
  BY <1>2, <1>6, <1>20, <1>21 DEF MkShape
<1>29. DiskSound(0 .. r.free - 1, r.data, InodeAddrs(r.inodes), K)
  BY <1>6, <1>11, <1>21, <1>22, <1>25
<1>30. Making(r, K)
  BY <1>6, <1>9, <1>21, <1>24, <1>26, <1>27, <1>28, <1>29 DEF Making
<1> QED BY <1>30 DEF r

(* All units of a file, or of an entry of the root, appended.               *)
LEMMA AppendedIs ==
  ASSUME NEW t, NEW f \in FileIds, NEW units \in Seq(Int), MkShape(t)
  PROVE  /\ MkShape(Appended(t, f, units)) /\ Appended(t, f, units).free >= t.free
         /\ \A C : /\ Making(t, C) /\ Len(C[f]) + Len(units) <= MaxFile * BSize
                   /\ Appended(t, f, units).free <= FsSize
                   => Making(Appended(t, f, units), WithOver(C, f, Len(C[f]), units, Len(units)))
<1> DEFINE n == Len(units)
           w == CHOOSE v : v = [i \in 0 .. n |-> IF i = 0 THEN t ELSE IAppend(v[i - 1], f, units[i])]
<1>1. n \in Nat /\ Appended(t, f, units) = w[n]
  BY DEF Appended
<1>2. w[0] = t /\ \A k \in 1 .. n : w[k] = IAppend(w[k - 1], f, units[k])
  <2>1. \E v : StepPath(v, t, f, units, n)
    BY <1>1, StepPathExists
  <2>2. \E v : v = [i \in 0 .. n |-> IF i = 0 THEN t ELSE IAppend(v[i - 1], f, units[i])]
    BY <2>1 DEF StepPath
  <2>3. w = [i \in 0 .. n |-> IF i = 0 THEN t ELSE IAppend(w[i - 1], f, units[i])]
    BY <2>2
  <2>4. 0 \in 0 .. n /\ \A k \in 1 .. n : k \in 0 .. n /\ k # 0
    BY <1>1
  <2> HIDE DEF w, n
  <2> QED BY <2>3, <2>4
<1> HIDE DEF w
<1> DEFINE Q == {k \in 0 .. n : MkShape(w[k]) /\ w[k].free >= t.free}
<1>3. \A k \in 0 .. n : k \in Q
  <2>1. 0 \in Q
    BY <1>1, <1>2 DEF MkShape
  <2>2. ASSUME NEW k \in 1 .. n, k - 1 \in Q PROVE k \in Q
    <3>1. MkShape(w[k - 1]) /\ w[k - 1].free >= t.free
      BY <2>2
    <3>2. MkShape(w[k]) /\ w[k].free >= w[k - 1].free
      BY <1>2, <3>1, MkMonotone
    <3>3. w[k].free \in Nat /\ w[k - 1].free \in Nat /\ t.free \in Nat
      BY <3>1, <3>2 DEF MkShape
    <3>4. w[k].free >= t.free
      BY <3>1, <3>2, <3>3
    <3> QED BY <3>2, <3>4
  <2> HIDE DEF Q, n
  <2> QED BY <1>1, <2>1, <2>2, Inducts
<1>4. MkShape(w[n]) /\ w[n].free >= t.free
  BY <1>1, <1>3
<1>5. ASSUME NEW C, Making(t, C), Len(C[f]) + n <= MaxFile * BSize, w[n].free <= FsSize
      PROVE  Making(w[n], WithOver(C, f, Len(C[f]), units, n))
  <2> DEFINE off == Len(C[f])
             S == {k \in 0 .. n : w[k].free <= FsSize => Making(w[k], WithOver(C, f, off, units, k))}
  <2>1. C \in [FileIds -> Seq(Int)] /\ C[f] \in Seq(Int) /\ off \in Nat
    BY <1>5, MakingParts
  <2>2. 0 \in S
    <3>1. 0 \in 0 .. Len(units)
      BY <1>1
    <3>2. IsOver(Over(C[f], off, units, 0), C[f], off, units, 0)
      BY <2>1, <3>1, OverIs
    <3>3. WithOver(C, f, off, units, 0) = C
      <4>1. Over(C[f], off, units, 0) = C[f]
        BY <3>2 DEF IsOver
      <4> QED BY <2>1, <4>1 DEF WithOver
    <3> QED BY <1>2, <1>5, <3>1, <3>3
  <2>3. ASSUME NEW k \in 1 .. n, k - 1 \in S PROVE k \in S
    <3> DEFINE K == WithOver(C, f, off, units, k - 1)
               L == WithOver(C, f, off, units, k)
    <3> SUFFICES ASSUME w[k].free <= FsSize PROVE Making(w[k], L)
      BY <1>1
    <3>1. MkShape(w[k - 1])
      <4>1. k - 1 \in 0 .. n
        BY <1>1
      <4> QED BY <1>3, <4>1
    <3>2. w[k - 1].free <= FsSize
      <4>1. MkShape(w[k]) /\ w[k].free >= w[k - 1].free
        BY <1>2, <3>1, MkMonotone
      <4>2. w[k].free \in Nat /\ w[k - 1].free \in Nat
        BY <3>1, <4>1 DEF MkShape
      <4> QED BY <4>1, <4>2, DiskSizes
    <3>3. Making(w[k - 1], K)
      BY <2>3, <3>2
    <3>4. UnitWritten(K, L, f, off + k - 1, units[k])
      <4>1. off <= Len(C[f]) /\ off \in Nat /\ units \in Seq(Int) /\ k \in 1 .. Len(units)
        BY <1>1, <2>1
      <4> HIDE DEF off
      <4> QED BY <2>1, <4>1, OverStep
    <3>5. off + k - 1 = Len(K[f])
      <4>1. IsOver(Over(C[f], off, units, k - 1), C[f], off, units, k - 1)
        <5>1. k - 1 \in 0 .. Len(units)
          BY <1>1
        <5> QED BY <2>1, <5>1, OverIs
      <4>2. K[f] = Over(C[f], off, units, k - 1)
        BY <2>1 DEF WithOver
      <4>3. Len(K[f]) = IF off + (k - 1) > Len(C[f]) THEN off + (k - 1) ELSE Len(C[f])
        BY <4>1, <4>2 DEF IsOver
      <4> HIDE DEF K
      <4>4. k \in Nat /\ k > 0
        BY <1>1
      <4> QED BY <2>1, <4>3, <4>4
    <3>6. off + k - 1 \in 0 .. MaxFile * BSize - 1 /\ units[k] \in Int
      <4>1. PICK o : o = off + k - 1
        OBVIOUS
      <4>2. o \in Nat /\ o < MaxFile * BSize /\ units[k] \in Int
        BY <1>1, <1>5, <2>1, <4>1, DiskSizes
      <4> QED BY <4>1, <4>2, DiskSizes
    <3>7. IAppend(w[k - 1], f, units[k]).free <= FsSize
      BY <1>2
    <3> HIDE DEF K, L, off
    <3>8. Making(IAppend(w[k - 1], f, units[k]), L)
      BY <3>3, <3>4, <3>5, <3>6, <3>7, IAppendIs
    <3> QED BY <1>2, <3>8
  <2>4. \A k \in 0 .. n : k \in S
    <3> HIDE DEF S, n
    <3> QED BY <1>1, <2>2, <2>3, Inducts
  <2>5. n \in S
    BY <1>1, <2>4
  <2> QED BY <1>5, <2>5
<1> QED BY <1>1, <1>4, <1>5

LEMMA ConcatIs ==
  ASSUME NEW p \in Seq(Int), NEW q \in Seq(Int)
  PROVE  /\ p \o q \in Seq(Int) /\ Len(p \o q) = Len(p) + Len(q)
         /\ \A i \in 1 .. Len(p) + Len(q) : (p \o q)[i] = IF i <= Len(p) THEN p[i] ELSE q[i - Len(p)]
OBVIOUS

LEMMA OverEnd ==
  ASSUME NEW c \in Seq(Int), NEW u \in Seq(Int)
  PROVE  Over(c, Len(c), u, Len(u)) = c \o u
<1> DEFINE p == Over(c, Len(c), u, Len(u))
           q == c \o u
<1>1. Len(c) \in Nat /\ Len(u) \in Nat /\ Len(u) \in 0 .. Len(u)
  OBVIOUS
<1>2. IsOver(p, c, Len(c), u, Len(u))
  BY <1>1, OverIs
<1>3. /\ p \in Seq(Int) /\ Len(p) = Len(c) + Len(u)
      /\ \A i \in 1 .. Len(p) : p[i] = IF i > Len(c) /\ i <= Len(c) + Len(u) THEN u[i - Len(c)] ELSE c[i]
  <2> HIDE DEF p
  <2> QED BY <1>1, <1>2 DEF IsOver
<1>4. /\ q \in Seq(Int) /\ Len(q) = Len(c) + Len(u)
      /\ \A i \in 1 .. Len(q) : q[i] = IF i <= Len(c) THEN c[i] ELSE u[i - Len(c)]
  OBVIOUS
<1> HIDE DEF p, q
<1>5. ASSUME NEW i \in 1 .. Len(p) PROVE p[i] = q[i]
  <2>1. i \in 1 .. Len(q) /\ i <= Len(c) + Len(u) /\ ((i > Len(c)) <=> ~(i <= Len(c)))
    BY <1>1, <1>3, <1>4
  <2> QED BY <1>3, <1>4, <2>1
<1>6. p = q
  BY <1>3, <1>4, <1>5, SameSequence
<1> QED BY <1>6 DEF p, q

----------------------------------------------------------------------------
\* The root directory before the rounding, and the files after the f-th.
LEMMA RootEntriesAre ==
  /\ Len(Packed) \in Nat /\ FileIds = 1 .. Len(Packed) + 1
  /\ RootEntries \in Seq(Int) /\ Len(RootEntries) = Len(Packed) + 2
  /\ RootEntries[1] = Root /\ RootEntries[2] = Root
  /\ \A f \in FileIds : f # Root => RootEntries[f + 1] = f
  /\ \A f \in FileIds : f # Root => f - 1 \in 1 .. Len(Packed) /\ Packed[f - 1] \in Seq(Int)
<1> DEFINE n == Len(Packed)
           v == [i \in 1 .. n |-> i + 1]
           r == <<Root, Root>>
<1>1. n \in Nat /\ Packed \in Seq(Seq(Int)) /\ FileIds = 1 .. n + 1 /\ Root = 1
  BY ContentAssumption DEF FileIds, Root
<1>2. v \in Seq(Int) /\ Len(v) = n /\ \A i \in 1 .. n : v[i] = i + 1
  <2>1. v \in [1 .. n -> Int]
    OBVIOUS
  <2> HIDE DEF n
  <2>2. v \in Seq(Int) /\ Len(v) = n
    BY <1>1, <2>1
  <2> QED BY <2>2
<1>3. r \in Seq(Int) /\ Len(r) = 2 /\ r[1] = 1 /\ r[2] = 1
  BY DEF Root
<1>4. RootEntries = r \o v
  BY DEF RootEntries
<1> HIDE DEF v, r, n
<1>5. /\ r \o v \in Seq(Int) /\ Len(r \o v) = n + 2
      /\ \A i \in 1 .. n + 2 : (r \o v)[i] = IF i <= 2 THEN r[i] ELSE v[i - 2]
  <2>1. /\ r \o v \in Seq(Int) /\ Len(r \o v) = Len(r) + Len(v)
        /\ \A i \in 1 .. Len(r) + Len(v) : (r \o v)[i] = IF i <= Len(r) THEN r[i] ELSE v[i - Len(r)]
    BY <1>2, <1>3, ConcatIs
  <2>2. Len(r) = 2 /\ Len(v) = n /\ 2 + n = n + 2
    BY <1>1, <1>2, <1>3
  <2> QED BY <2>1, <2>2
<1>6. RootEntries[1] = Root /\ RootEntries[2] = Root
  <2>1. 1 \in 1 .. n + 2 /\ 2 \in 1 .. n + 2
    BY <1>1
  <2>2. (r \o v)[1] = r[1] /\ (r \o v)[2] = r[2]
    BY <1>5, <2>1
  <2> QED BY <1>1, <1>3, <1>4, <2>2
<1>7. ASSUME NEW f \in FileIds, f # Root
      PROVE  RootEntries[f + 1] = f /\ f - 1 \in 1 .. n /\ Packed[f - 1] \in Seq(Int)
  <2>1. f \in Nat /\ f - 1 \in 1 .. n /\ f + 1 \in 1 .. n + 2 /\ ~(f + 1 <= 2)
        /\ (f + 1) - 2 = f - 1 /\ (f - 1) + 1 = f
    BY <1>1, <1>7
  <2>2. (r \o v)[f + 1] = v[f - 1]
    <3> HIDE DEF n
    <3> QED BY <1>5, <2>1
  <2>3. Packed[f - 1] \in Seq(Int)
    BY <1>1, <2>1 DEF n
  <2> QED BY <1>2, <1>4, <2>1, <2>2, <2>3
<1> QED BY <1>1, <1>4, <1>5, <1>6, <1>7 DEF n

MadeContent(f) ==
  [g \in FileIds |->
     IF g = Root THEN SubSeq(RootEntries, 1, f + 1)
     ELSE IF g <= f THEN Packed[g - 1] ELSE <<>>]

LEMMA MadeContentIs ==
  ASSUME NEW f \in FileIds
  PROVE  /\ MadeContent(f) \in [FileIds -> Seq(Int)]
         /\ MadeContent(f)[Root] = SubSeq(RootEntries, 1, f + 1)
         /\ Len(MadeContent(f)[Root]) = f + 1
         /\ \A g \in FileIds : g # Root =>
              MadeContent(f)[g] = IF g <= f THEN Packed[g - 1] ELSE <<>>
<1>1. f + 1 \in Nat /\ f + 1 <= Len(RootEntries) /\ RootEntries \in Seq(Int) /\ Root \in FileIds
  BY RootEntriesAre DEF Root
<1>2. SubSeq(RootEntries, 1, f + 1) \in Seq(Int) /\ Len(SubSeq(RootEntries, 1, f + 1)) = f + 1
  BY <1>1
<1>3. \A g \in FileIds : g # Root => Packed[g - 1] \in Seq(Int)
  BY RootEntriesAre
<1>4. <<>> \in Seq(Int)
  OBVIOUS
<1> QED BY <1>1, <1>2, <1>3, <1>4 DEF MadeContent

LEMMA FirstMade ==
  ASSUME NEW C, C = [g \in FileIds |-> <<>>]
  PROVE  WithOver(C, Root, Len(C[Root]), <<Root, Root>>, Len(<<Root, Root>>)) = MadeContent(Root)
<1> DEFINE r == <<Root, Root>>
<1>1. Root \in FileIds /\ C[Root] = <<>> /\ r \in Seq(Int) /\ <<>> \in Seq(Int) /\ Root = 1
  BY RootEntriesAre DEF Root
<1>2. Over(C[Root], Len(C[Root]), r, Len(r)) = C[Root] \o r
  BY <1>1, OverEnd
<1>3. <<>> \o r = r
  BY <1>1
<1>4. SubSeq(RootEntries, 1, Root + 1) = r
  <2>1. RootEntries \in Seq(Int) /\ Len(RootEntries) >= 2 /\ RootEntries[1] = 1 /\ RootEntries[2] = 1
    BY RootEntriesAre DEF Root
  <2>2. PICK q : q = SubSeq(RootEntries, 1, 2)
    OBVIOUS
  <2>3. q \in Seq(Int) /\ Len(q) = 2 /\ \A i \in 1 .. 2 : q[i] = RootEntries[i]
    BY <2>1, <2>2
  <2>4. r \in Seq(Int) /\ Len(r) = 2 /\ \A i \in 1 .. 2 : r[i] = 1
    BY DEF Root
  <2> HIDE DEF r
  <2>5. q = r
    BY <2>1, <2>3, <2>4, SameSequence
  <2> QED BY <1>1, <2>2, <2>5
<1>5. ASSUME NEW g \in FileIds, g # Root PROVE MadeContent(Root)[g] = <<>>
  <2>1. ~(g <= Root)
    BY <1>5, RootEntriesAre DEF Root
  <2> QED BY <1>1, <1>5, <2>1, MadeContentIs
<1>6. MadeContent(Root)[Root] = r
  BY <1>1, <1>4, MadeContentIs
<1>7. MadeContent(Root) \in [FileIds -> Seq(Int)]
  BY <1>1, MadeContentIs
<1> HIDE DEF r
<1>8. [C EXCEPT ![Root] = r] = MadeContent(Root)
  BY <1>1, <1>5, <1>6, <1>7
<1> QED BY <1>1, <1>2, <1>3, <1>8 DEF WithOver, r

LEMMA NextMade ==
  ASSUME NEW f \in FileIds, f # Root, NEW C, C = MadeContent(f - 1),
         NEW K, K = WithOver(C, Root, Len(C[Root]), <<f>>, Len(<<f>>))
  PROVE  /\ C \in [FileIds -> Seq(Int)] /\ Len(C[Root]) = f /\ Len(K[f]) = 0
         /\ K \in [FileIds -> Seq(Int)]
         /\ WithOver(K, f, Len(K[f]), Packed[f - 1], Len(Packed[f - 1])) = MadeContent(f)
<1>1. /\ f - 1 \in FileIds /\ Root \in FileIds /\ f \in Nat /\ Packed[f - 1] \in Seq(Int) /\ <<f>> \in Seq(Int)
      /\ (f - 1) + 1 = f /\ <<>> \in Seq(Int)
  BY RootEntriesAre DEF Root
<1>2. /\ C \in [FileIds -> Seq(Int)] /\ C[Root] = SubSeq(RootEntries, 1, f) /\ Len(C[Root]) = f
      /\ \A g \in FileIds : g # Root => C[g] = IF g <= f - 1 THEN Packed[g - 1] ELSE <<>>
  <2>1. /\ C[Root] = SubSeq(RootEntries, 1, (f - 1) + 1) /\ Len(C[Root]) = (f - 1) + 1
        /\ C \in [FileIds -> Seq(Int)]
        /\ \A g \in FileIds : g # Root => C[g] = IF g <= f - 1 THEN Packed[g - 1] ELSE <<>>
    BY <1>1, MadeContentIs
  <2> QED BY <1>1, <2>1
<1>3. C[Root] \o <<f>> = SubSeq(RootEntries, 1, f + 1)
  <2>1. RootEntries \in Seq(Int) /\ RootEntries[f + 1] = f /\ f + 1 \in Nat /\ f + 1 > 0
        /\ 0 + (f + 1) <= Len(RootEntries) /\ 0 \in Nat
    BY RootEntriesAre
  <2>2. Append(SubSeq(RootEntries, 0 + 1, 0 + ((f + 1) - 1)), RootEntries[0 + (f + 1)])
          = SubSeq(RootEntries, 0 + 1, 0 + (f + 1))
    BY <2>1, SubSeqStep
  <2>3. 0 + 1 = 1 /\ 0 + ((f + 1) - 1) = f /\ 0 + (f + 1) = f + 1
    BY <1>1
  <2>4. Append(C[Root], f) = SubSeq(RootEntries, 1, f + 1)
    BY <1>2, <2>1, <2>2, <2>3
  <2>5. C[Root] \o <<f>> = Append(C[Root], f)
    <3>1. C[Root] \in Seq(Int) /\ f \in Int
      BY <1>1, <1>2
    <3> QED BY <3>1
  <2> QED BY <2>4, <2>5
<1>4. K = [C EXCEPT ![Root] = SubSeq(RootEntries, 1, f + 1)]
  <2>1. C[Root] \in Seq(Int)
    BY <1>1, <1>2
  <2>2. Over(C[Root], Len(C[Root]), <<f>>, Len(<<f>>)) = C[Root] \o <<f>>
    BY <1>1, <2>1, OverEnd
  <2> QED BY <1>3, <2>2 DEF WithOver
<1>5. /\ MadeContent(f) \in [FileIds -> Seq(Int)] /\ MadeContent(f)[Root] = SubSeq(RootEntries, 1, f + 1)
      /\ \A g \in FileIds : g # Root =>
              MadeContent(f)[g] = IF g <= f THEN Packed[g - 1] ELSE <<>>
  BY MadeContentIs
<1>6. K \in [FileIds -> Seq(Int)] /\ K[Root] = MadeContent(f)[Root] /\ \A g \in FileIds : g # Root => K[g] = C[g]
  BY <1>1, <1>2, <1>4, <1>5
<1>7. K[f] = <<>> /\ Len(K[f]) = 0
  <2>1. ~(f <= f - 1)
    BY <1>1
  <2>2. K[f] = <<>>
    BY <1>2, <1>6, <2>1
  <2> QED BY <2>2
<1>8. WithOver(K, f, Len(K[f]), Packed[f - 1], Len(Packed[f - 1])) = [K EXCEPT ![f] = Packed[f - 1]]
  <2>1. K[f] \in Seq(Int) /\ K[f] \o Packed[f - 1] = Packed[f - 1]
    <3>1. \A p \in Seq(Int) : <<>> \o p = p
      OBVIOUS
    <3> QED BY <1>1, <1>7, <3>1
  <2>2. Over(K[f], Len(K[f]), Packed[f - 1], Len(Packed[f - 1])) = K[f] \o Packed[f - 1]
    BY <1>1, <2>1, OverEnd
  <2> QED BY <2>1, <2>2 DEF WithOver
<1>9. ASSUME NEW g \in FileIds PROVE [K EXCEPT ![f] = Packed[f - 1]][g] = MadeContent(f)[g]
  <2>1. CASE g = Root
    BY <1>6, <2>1
  <2>2. CASE g = f
    <3>1. f <= f
      BY <1>1
    <3> QED BY <1>5, <1>6, <2>2, <3>1
  <2>3. CASE g # Root /\ g # f
    <3>1. g \in Nat
      BY RootEntriesAre
    <3>2. (g <= f - 1) <=> (g <= f)
      BY <1>1, <2>3, <3>1
    <3> QED BY <1>2, <1>5, <1>6, <2>3, <3>2
  <2> QED BY <2>1, <2>2, <2>3
<1>10. [K EXCEPT ![f] = Packed[f - 1]] = MadeContent(f)
  BY <1>1, <1>5, <1>6, <1>9
<1> QED BY <1>2, <1>6, <1>7, <1>8, <1>10

----------------------------------------------------------------------------
\* The loop of mkfs's main over the files.
EmptyDisk ==
  [data |-> [b \in NMeta .. FsSize - 1 |-> ZeroBlock],
   inodes |-> [f \in FileIds |-> NewInode], free |-> NMeta, at |-> 0]

FileAdded(t, f) == Appended(Appended(t, Root, <<f>>), f, Packed[f - 1])

MadePath(w, n) ==
  w = [f \in 1 .. n + 1 |->
         IF f = Root THEN Appended(EmptyDisk, Root, <<Root, Root>>) ELSE FileAdded(w[f - 1], f)]

LEMMA MadePathExists ==
  ASSUME NEW n \in Nat
  PROVE  \E w : MadePath(w, n)
<1> DEFINE S == {k \in 0 .. n : \E w : MadePath(w, k)}
           e == Appended(EmptyDisk, Root, <<Root, Root>>)
<1>1. 0 \in S
  <2>1. MadePath([f \in 1 .. 0 + 1 |-> e], 0)
    <3>1. \A f \in 1 .. 0 + 1 : f = Root
      BY DEF Root
    <3> QED BY <3>1 DEF MadePath
  <2> QED BY <2>1
<1>2. ASSUME NEW k \in 1 .. n, k - 1 \in S PROVE k \in S
  <2>1. PICK v : MadePath(v, k - 1)
    BY <1>2
  <2>2. PICK w : w = [f \in 1 .. k + 1 |-> IF f <= k THEN v[f] ELSE FileAdded(v[f - 1], f)]
    OBVIOUS
  <2>3. ASSUME NEW f \in 1 .. k + 1
        PROVE  w[f] = IF f = Root THEN e ELSE FileAdded(w[f - 1], f)
    <3>1. CASE f <= k
      <4>1. f \in 1 .. (k - 1) + 1 /\ (f # Root => f - 1 \in 1 .. k + 1 /\ f - 1 <= k)
        BY <3>1 DEF Root
      <4>2. w[f] = v[f] /\ (f # Root => w[f - 1] = v[f - 1])
        BY <2>2, <3>1, <4>1
      <4>3. v[f] = IF f = Root THEN e ELSE FileAdded(v[f - 1], f)
        <5>1. v = [j \in 1 .. (k - 1) + 1 |-> IF j = Root THEN e ELSE FileAdded(v[j - 1], j)]
          BY <2>1 DEF MadePath
        <5> QED BY <4>1, <5>1
      <4> QED BY <4>2, <4>3
    <3>2. CASE f = k + 1
      <4>1. f # Root /\ f - 1 \in 1 .. k + 1 /\ f - 1 <= k /\ ~(f <= k)
        BY <3>2 DEF Root
      <4>2. w[f] = FileAdded(v[f - 1], f) /\ w[f - 1] = v[f - 1]
        BY <2>2, <4>1
      <4> QED BY <4>1, <4>2
    <3>3. f <= k \/ f = k + 1
      OBVIOUS
    <3> QED BY <3>1, <3>2, <3>3
  <2>4. w = [f \in 1 .. k + 1 |-> IF f = Root THEN e ELSE FileAdded(w[f - 1], f)]
    BY <2>2, <2>3
  <2>5. MadePath(w, k)
    BY <2>4 DEF MadePath
  <2> QED BY <2>5
<1>3. n \in S
  <2>1. \A k \in 0 .. n : k \in S
    <3> HIDE DEF S
    <3> QED BY <1>1, <1>2, Inducts
  <2> QED BY <2>1
<1> QED BY <1>3

LEMMA NothingMade ==
  ASSUME NEW C, C = [g \in FileIds |-> <<>>]
  PROVE  Making(EmptyDisk, C)
<1> DEFINE t == EmptyDisk
           A == InodeAddrs(t.inodes)
<1>1. /\ t.data = [b \in DataBlocks |-> ZeroBlock] /\ t.inodes = [f \in FileIds |-> NewInode]
      /\ t.free = NMeta /\ t.at = 0
      /\ t = [data |-> t.data, inodes |-> t.inodes, free |-> t.free, at |-> t.at]
  BY DEF EmptyDisk, DataBlocks
<1> HIDE DEF t
<1>2. /\ NewInode \in InodeRecords /\ NewInode.size = 0
      /\ \A n \in 0 .. NDirect : NewInode.addrs[n] = 0
  BY DEF NewInode, InodeRecords
<1>3. t.inodes \in [FileIds -> InodeRecords] /\ \A g \in FileIds : t.inodes[g] = NewInode
  BY <1>1, <1>2
<1>4. A \in Addresses /\ \A g \in FileIds : A[g] = NewInode.addrs
  BY <1>2, <1>3 DEF InodeAddrs, Addresses, InodeRecords
<1>5. t.data \in [DataBlocks -> [1 .. BSize -> Int]] /\ \A x \in DataBlocks : t.data[x] = ZeroBlock
  BY <1>1, ZeroBlockIs
<1>6. C \in [FileIds -> Seq(Int)] /\ \A g \in FileIds : C[g] = <<>> /\ Len(C[g]) = 0
  <2>1. <<>> \in Seq(Int) /\ Len(<<>>) = 0
    OBVIOUS
  <2> QED BY <2>1
<1> HIDE DEF A
<1>7. \A g \in FileIds, m \in Places : BlockAt(t.data, A[g], m) = 0
  <2>1. NDirect \in 0 .. NDirect /\ \A m \in Places : m <= NDirect => m \in 0 .. NDirect
    BY DiskSizes DEF Places
  <2> QED BY <1>2, <1>4, <2>1 DEF BlockAt
<1>8. DataTypes(t.data, A, C)
  BY <1>4, <1>5, <1>6 DEF DataTypes
<1>9. BlocksListed(0 .. t.free - 1, t.data, A) /\ BlocksSingle(t.data, A)
  BY <1>1, <1>7 DEF BlocksListed, BlocksSingle
<1>10. ASSUME NEW g \in FileIds, NEW off \in 0 .. MaxFile * BSize - 1
       PROVE  UnitStored(t.data, A[g], C[g], off)
  <2>1. PlaceOf(off \div BSize) \in Places
    BY OffsetParts, PlaceIs
  <2>2. ~(off < Len(C[g]))
    BY <1>6, DiskSizes
  <2> QED BY <1>7, <2>1, <2>2 DEF UnitStored
<1>11. \A g \in FileIds : Len(C[g]) <= MaxFile * BSize
  BY <1>6, DiskSizes
<1>12. DiskSound(0 .. t.free - 1, t.data, A, C)
  BY <1>8, <1>9, <1>10, <1>11 DEF DiskSound
<1>13. MkShape(t) /\ t.free >= NMeta /\ t.free <= FsSize
  BY <1>1, DiskSizes DEF MkShape
<1>14. \A g \in FileIds : t.inodes[g].size = Len(C[g])
  BY <1>2, <1>3, <1>6
<1> QED BY <1>3, <1>5, <1>12, <1>13, <1>14 DEF Making, A, t

\* The image before the size of the root is rounded.
MadeDisk ==
  LET made[f \in FileIds] ==
        IF f = Root THEN Appended(EmptyDisk, Root, <<Root, Root>>)
        ELSE Appended(Appended(made[f - 1], Root, <<f>>), f, Packed[f - 1])
  IN made[Len(Packed) + 1]

LEMMA MkFsIs ==
  /\ MkFs.used = 0 .. MadeDisk.free - 1 /\ MkFs.data = MadeDisk.data
  /\ MkFs.inodes = [MadeDisk.inodes EXCEPT
                      ![Root].size = (MadeDisk.inodes[Root].size \div BSize + 1) * BSize]
  /\ MkFs = [used |-> MkFs.used, data |-> MkFs.data, inodes |-> MkFs.inodes]
BY DEF MkFs, MadeDisk, EmptyDisk

LEMMA MadeIs == Making(MadeDisk, MadeContent(Len(Packed) + 1))
<1> DEFINE n == Len(Packed)
           w == CHOOSE v : v = [f \in FileIds |->
                  IF f = Root THEN Appended(EmptyDisk, Root, <<Root, Root>>)
                  ELSE Appended(Appended(v[f - 1], Root, <<f>>), f, Packed[f - 1])]
           S == {k \in 0 .. n : /\ MkShape(w[k + 1])
                                /\ w[k + 1].free <= FsSize => Making(w[k + 1], MadeContent(k + 1))}
           C0 == [g \in FileIds |-> <<>>]
<1>1. n \in Nat /\ FileIds = 1 .. n + 1 /\ Root \in FileIds /\ Root = 1
  BY RootEntriesAre DEF Root
<1>2. MadeDisk = w[n + 1]
  BY DEF MadeDisk
<1>3. /\ w[1] = Appended(EmptyDisk, Root, <<Root, Root>>)
      /\ \A f \in FileIds : f # Root =>
           w[f] = Appended(Appended(w[f - 1], Root, <<f>>), f, Packed[f - 1])
  <2>1. \E v : MadePath(v, n)
    BY <1>1, MadePathExists
  <2>2. \E v : v = [f \in FileIds |->
                  IF f = Root THEN Appended(EmptyDisk, Root, <<Root, Root>>)
                  ELSE Appended(Appended(v[f - 1], Root, <<f>>), f, Packed[f - 1])]
    BY <1>1, <2>1 DEF MadePath, FileAdded
  <2>3. w = [f \in FileIds |->
                  IF f = Root THEN Appended(EmptyDisk, Root, <<Root, Root>>)
                  ELSE Appended(Appended(w[f - 1], Root, <<f>>), f, Packed[f - 1])]
    BY <2>2
  <2> HIDE DEF w
  <2> QED BY <1>1, <2>3
<1> HIDE DEF w
<1>4. 0 \in S
  <2>1. Making(EmptyDisk, C0)
    BY NothingMade
  <2>2. C0[Root] = <<>> /\ Len(C0[Root]) = 0 /\ MkShape(EmptyDisk)
    BY <1>1, <2>1, MakingParts
  <2>3. <<Root, Root>> \in Seq(Int) /\ Len(<<Root, Root>>) = 2
    BY <1>1
  <2>4. 0 + 2 <= MaxFile * BSize
    <3>1. n + 2 <= MaxFile * BSize
      BY MkfsAssumption, RootEntriesAre
    <3> QED BY <1>1, <3>1, DiskSizes
  <2>5. MkShape(w[1])
    BY <1>1, <1>3, <2>2, <2>3, AppendedIs
  <2>6. w[1].free <= FsSize => Making(w[1], MadeContent(Root))
    <3> SUFFICES ASSUME w[1].free <= FsSize PROVE Making(w[1], MadeContent(Root))
      OBVIOUS
    <3>1. Making(w[1], WithOver(C0, Root, Len(C0[Root]), <<Root, Root>>, Len(<<Root, Root>>)))
      <4>1. PICK u : u = <<Root, Root>>
        OBVIOUS
      <4>2. PICK C : C = C0
        OBVIOUS
      <4>3. /\ w[1] = Appended(EmptyDisk, Root, u) /\ u \in Seq(Int) /\ Making(EmptyDisk, C)
            /\ Len(C[Root]) + Len(u) <= MaxFile * BSize
        BY <1>3, <2>1, <2>2, <2>3, <2>4, <4>1, <4>2
      <4> HIDE DEF C0
      <4>4. Making(w[1], WithOver(C, Root, Len(C[Root]), u, Len(u)))
        BY <1>1, <2>2, <4>3, AppendedIs
      <4> QED BY <4>1, <4>2, <4>4
    <3> QED BY <3>1, FirstMade
  <2>7. 0 \in 0 .. n /\ 0 + 1 = 1
    BY <1>1
  <2> QED BY <1>1, <2>5, <2>6, <2>7
<1>5. ASSUME NEW k \in 1 .. n, k - 1 \in S PROVE k \in S
  <2>1. PICK f : f = k + 1
    OBVIOUS
  <2>2. f \in FileIds /\ f # Root /\ f - 1 = k /\ (k - 1) + 1 = k /\ f \in Nat /\ f <= n + 1
    BY <1>1, <2>1
  <2>3. /\ MkShape(w[f - 1]) /\ (w[f - 1].free <= FsSize => Making(w[f - 1], MadeContent(f - 1)))
    BY <1>5, <2>2
  <2>4. /\ Packed[f - 1] \in Seq(Int) /\ f - 1 \in 1 .. n /\ <<f>> \in Seq(Int) /\ Len(<<f>>) = 1
    BY <2>2, RootEntriesAre
  <2>5. PICK t : t = Appended(w[f - 1], Root, <<f>>)
    OBVIOUS
  <2>6. MkShape(t) /\ t.free >= w[f - 1].free
    BY <1>1, <2>3, <2>4, <2>5, AppendedIs
  <2>7. w[f] = Appended(t, f, Packed[f - 1])
    BY <1>3, <2>2, <2>5
  <2>8. MkShape(w[f]) /\ w[f].free >= t.free
    BY <2>2, <2>4, <2>6, <2>7, AppendedIs
  <2>9. ASSUME w[f].free <= FsSize PROVE Making(w[f], MadeContent(f))
    <3>1. t.free <= FsSize /\ w[f - 1].free <= FsSize
      <4>1. t.free \in Nat /\ w[f - 1].free \in Nat /\ w[f].free \in Nat /\ FsSize \in Nat
        BY <2>3, <2>6, <2>8, DiskSizes DEF MkShape
      <4> QED BY <2>6, <2>8, <2>9, <4>1
    <3>2. PICK C : C = MadeContent(f - 1)
      OBVIOUS
    <3>3. PICK K : K = WithOver(C, Root, Len(C[Root]), <<f>>, Len(<<f>>))
      OBVIOUS
    <3>4. /\ C \in [FileIds -> Seq(Int)] /\ Len(C[Root]) = f /\ Len(K[f]) = 0
          /\ WithOver(K, f, Len(K[f]), Packed[f - 1], Len(Packed[f - 1])) = MadeContent(f)
      BY <2>2, <3>2, <3>3, NextMade
    <3>5. Making(w[f - 1], C)
      BY <2>3, <3>1, <3>2
    <3>6. f + 1 <= MaxFile * BSize /\ 0 + Len(Packed[f - 1]) <= MaxFile * BSize
      <4>1. n + 2 <= MaxFile * BSize /\ Len(Packed[f - 1]) <= MaxFile * BSize
        BY <2>4, MkfsAssumption, RootEntriesAre
      <4>2. Len(Packed[f - 1]) \in Nat
        BY <2>4
      <4> QED BY <1>1, <2>2, <4>1, <4>2, DiskSizes
    <3>7. Making(t, K)
      BY <1>1, <2>3, <2>4, <2>5, <3>1, <3>3, <3>4, <3>5, <3>6, AppendedIs
    <3>8. Making(w[f], WithOver(K, f, Len(K[f]), Packed[f - 1], Len(Packed[f - 1])))
      BY <2>2, <2>4, <2>6, <2>7, <2>9, <3>4, <3>6, <3>7, AppendedIs
    <3> QED BY <3>4, <3>8
  <2>10. k \in 0 .. n
    BY <1>1
  <2> HIDE DEF n
  <2> QED BY <2>1, <2>8, <2>9, <2>10
<1>6. n \in S
  <2>1. \A k \in 0 .. n : k \in S
    <3> HIDE DEF S, n
    <3> QED BY <1>1, <1>4, <1>5, Inducts
  <2> QED BY <1>1, <2>1
<1>7. MadeDisk.free <= FsSize
  <2>1. 0 .. MadeDisk.free - 1 \subseteq 0 .. FsSize - 1
    BY MkFsIs, MkfsAssumption
  <2>2. PICK k \in Nat : k = MadeDisk.free
    BY <1>2, <1>6 DEF MkShape
  <2>3. \A x \in 0 .. k - 1 : x \in 0 .. FsSize - 1
    BY <2>1, <2>2
  <2>4. k <= FsSize
    BY <2>3, DiskSizes
  <2> QED BY <2>2, <2>4
<1> QED BY <1>2, <1>6, <1>7

----------------------------------------------------------------------------
\* The rounding of the root's size: the last block is already there.
LEMMA UniqueParts ==
  ASSUME NEW a \in Int, NEW c \in Int, NEW b \in 0 .. BSize - 1, NEW d \in 0 .. BSize - 1,
         BSize * a + b = BSize * c + d
  PROVE  a = c
<1>1. BSize \in Nat /\ BSize > 0
  BY DiskSizes
<1>2. a < c => FALSE
  <2> SUFFICES ASSUME a < c PROVE FALSE
    OBVIOUS
  <2>1. BSize * a + BSize <= BSize * c
    BY <1>1, Z3
  <2>2. BSize * a \in Int /\ BSize * c \in Int
    BY <1>1
  <2> QED BY <1>1, <2>1, <2>2
<1>3. c < a => FALSE
  <2> SUFFICES ASSUME c < a PROVE FALSE
    OBVIOUS
  <2>1. BSize * c + BSize <= BSize * a
    BY <1>1, Z3
  <2>2. BSize * a \in Int /\ BSize * c \in Int
    BY <1>1
  <2> QED BY <1>1, <2>1, <2>2
<1> QED BY <1>2, <1>3

RootLength == Len(RootEntries)
LastBlock == RootLength \div BSize
RootSize == (LastBlock + 1) * BSize

LEMMA RootRounded ==
  /\ RootLength \in 1 .. MaxFile * BSize /\ RootSize \in 1 .. MaxFile * BSize
  /\ LastBlock \in Nat /\ RootLength < RootSize
  /\ RootSize = RootLength + (BSize - (RootLength % BSize))
  /\ \A off \in RootLength - 1 .. RootSize - 1 : off \div BSize = LastBlock
<1> DEFINE L == RootLength
           r == L % BSize
           q == LastBlock
<1>1. /\ L \in Nat /\ L >= 2 /\ L <= MaxFile * BSize /\ r # 0
      /\ BSize \in Nat /\ BSize > 0 /\ MaxFile \in Nat /\ MaxFile * BSize \in Nat
  BY MkfsAssumption, RootEntriesAre, DiskSizes DEF RootLength
<1>2. q \in Int /\ r \in 0 .. BSize - 1 /\ L = BSize * q + r
  BY <1>1, Z3 DEF LastBlock
<1>3. RootSize = BSize * q + BSize /\ BSize * q \in Int
  BY <1>1, <1>2 DEF RootSize
<1>4. RootSize = L + (BSize - r) /\ L < RootSize
  BY <1>1, <1>2, <1>3
<1>5. ASSUME NEW off \in L - 1 .. RootSize - 1, off <= MaxFile * BSize - 1
      PROVE  off \div BSize = q
  <2>1. off \in 0 .. MaxFile * BSize - 1
    BY <1>1, <1>3, <1>5
  <2>2. /\ off \div BSize \in Int /\ off % BSize \in 0 .. BSize - 1
        /\ off = BSize * (off \div BSize) + (off % BSize)
    BY <2>1, OffsetParts
  <2>3. PICK d : d = off - BSize * q
    OBVIOUS
  <2>4. d \in 0 .. BSize - 1 /\ off = BSize * q + d
    <3> HIDE DEF q, r, L
    <3>1. off \in Int /\ off >= L - 1 /\ off <= RootSize - 1 /\ RootSize \in Int
      BY <1>1, <1>3
    <3> QED BY <1>1, <1>2, <1>3, <2>3, <3>1
  <2>5. PICK a \in Int : a = off \div BSize
    BY <2>2
  <2>6. PICK b \in 0 .. BSize - 1 : b = off % BSize
    BY <2>2
  <2>7. BSize * a + b = BSize * q + d
    BY <2>2, <2>4, <2>5, <2>6
  <2> QED BY <1>2, <2>4, <2>5, <2>7, UniqueParts
<1>6. q \in 0 .. MaxFile - 1
  <2>1. L - 1 \in 0 .. MaxFile * BSize - 1 /\ L - 1 \in L - 1 .. RootSize - 1
    BY <1>1, <1>3, <1>4
  <2>2. (L - 1) \div BSize = q
    BY <1>1, <1>5, <2>1
  <2> QED BY <2>1, <2>2, OffsetParts
<1>7. RootSize <= MaxFile * BSize
  <2>1. q + 1 \in Nat /\ q + 1 <= MaxFile
    BY <1>1, <1>6
  <2> QED BY <1>1, <2>1, Z3 DEF RootSize
<1>8. ASSUME NEW off \in L - 1 .. RootSize - 1 PROVE off \div BSize = q
  <2>1. off <= MaxFile * BSize - 1
    BY <1>1, <1>3, <1>7
  <2> QED BY <1>5, <2>1
<1> QED BY <1>1, <1>3, <1>4, <1>6, <1>7, <1>8

LEMMA MkContentIs ==
  ASSUME NEW C, C = MadeContent(Len(Packed) + 1)
  PROVE  /\ C \in [FileIds -> Seq(Int)] /\ Root \in FileIds
         /\ MkContent \in [FileIds -> Seq(Int)] /\ \A g \in FileIds : g # Root => MkContent[g] = C[g]
         /\ Len(C[Root]) = RootLength /\ Len(MkContent[Root]) = RootSize
         /\ \A i \in 1 .. RootSize :
              MkContent[Root][i] = IF i <= RootLength THEN C[Root][i] ELSE 0
<1> DEFINE n == Len(Packed)
           pad == BSize - (RootLength % BSize)
           z == [i \in 1 .. pad |-> 0]
<1>1. n \in Nat /\ n + 1 \in FileIds /\ Root \in FileIds /\ \A g \in FileIds : g <= n + 1
  BY RootEntriesAre DEF Root
<1>2. RootEntries \in Seq(Int) /\ RootLength = n + 2 /\ Len(RootEntries) = n + 2
  BY RootEntriesAre DEF RootLength
<1>3. /\ C \in [FileIds -> Seq(Int)] /\ C[Root] = SubSeq(RootEntries, 1, (n + 1) + 1)
      /\ Len(C[Root]) = (n + 1) + 1
      /\ \A g \in FileIds : g # Root => C[g] = IF g <= n + 1 THEN Packed[g - 1] ELSE <<>>
  BY <1>1, MadeContentIs
<1>4. C[Root] = RootEntries
  <2>1. (n + 1) + 1 = Len(RootEntries)
    BY <1>1, <1>2
  <2>2. \A c \in Seq(Int) : SubSeq(c, 1, Len(c)) = c
    <3>1. ASSUME NEW c \in Seq(Int) PROVE SubSeq(c, 1, Len(c)) = c
      <4>1. PICK p : p = SubSeq(c, 1, Len(c))
        OBVIOUS
      <4>2. p \in Seq(Int) /\ Len(p) = Len(c) /\ \A i \in 1 .. Len(c) : p[i] = c[i]
        BY <4>1
      <4> QED BY <4>1, <4>2, SameSequence
    <3> QED BY <3>1
  <2> QED BY <1>2, <1>3, <2>1, <2>2
<1>5. pad \in Nat /\ RootSize = RootLength + pad
  <2>1. RootLength % BSize \in 0 .. BSize - 1
    <3>1. RootLength \in Nat /\ BSize \in Nat /\ BSize > 0
      BY RootRounded, DiskSizes
    <3> QED BY <3>1, Z3
  <2> QED BY <2>1, RootRounded, DiskSizes
<1>6. MkContent = [f \in FileIds |-> IF f = Root THEN RootEntries \o z ELSE Packed[f - 1]]
  BY DEF MkContent, RootLength
<1> HIDE DEF pad
<1>7. z \in Seq(Int) /\ Len(z) = pad /\ \A i \in 1 .. pad : z[i] = 0
  <2>1. z \in [1 .. pad -> Int]
    OBVIOUS
  <2> QED BY <1>5, <2>1
<1> HIDE DEF z, n
<1>8. /\ RootEntries \o z \in Seq(Int) /\ Len(RootEntries \o z) = RootSize
      /\ \A i \in 1 .. RootSize : (RootEntries \o z)[i] =
           IF i <= RootLength THEN RootEntries[i] ELSE z[i - RootLength]
  <2>1. Len(RootEntries) = RootLength
    BY DEF RootLength
  <2>2. PICK p \in Seq(Int) : p = RootEntries
    BY <1>2
  <2>3. PICK l \in Nat : l = RootLength
    BY <1>2, <2>1
  <2>4. /\ p \o z \in Seq(Int) /\ Len(p \o z) = Len(p) + Len(z)
        /\ \A i \in 1 .. Len(p) + Len(z) : (p \o z)[i] = IF i <= Len(p) THEN p[i] ELSE z[i - Len(p)]
    BY <1>7, ConcatIs
  <2>5. Len(p) = l /\ Len(p) + Len(z) = RootSize
    BY <1>5, <1>7, <2>1, <2>2, <2>3
  <2> QED BY <2>2, <2>3, <2>4, <2>5
<1>9. \A i \in 1 .. RootSize : ~(i <= RootLength) => z[i - RootLength] = 0
  <2>1. ASSUME NEW i \in 1 .. RootSize, ~(i <= RootLength) PROVE i - RootLength \in 1 .. pad
    BY <1>1, <1>2, <1>5, <2>1
  <2> QED BY <1>7, <2>1
<1>10. \A g \in FileIds : g # Root => Packed[g - 1] \in Seq(Int)
  BY RootEntriesAre
<1>11. MkContent \in [FileIds -> Seq(Int)]
  BY <1>6, <1>8, <1>10
<1>12. MkContent[Root] = RootEntries \o z /\ \A g \in FileIds : g # Root => MkContent[g] = C[g]
  BY <1>1, <1>3, <1>6
<1>13. Len(C[Root]) = RootLength
  BY <1>4 DEF RootLength
<1>14. \A i \in 1 .. RootSize : (RootEntries \o z)[i] = IF i <= RootLength THEN RootEntries[i] ELSE 0
  BY <1>8, <1>9
<1>15. PICK q : q = RootEntries \o z
  OBVIOUS
<1>16. /\ MkContent[Root] = q /\ Len(q) = RootSize
       /\ \A i \in 1 .. RootSize : q[i] = IF i <= RootLength THEN C[Root][i] ELSE 0
  BY <1>4, <1>8, <1>12, <1>14, <1>15
<1>17. C \in [FileIds -> Seq(Int)] /\ Root \in FileIds
  BY <1>1, <1>3
<1> QED BY <1>11, <1>12, <1>13, <1>16, <1>17

LEMMA InitSound == ContentInit => ContentSound
<1> SUFFICES ASSUME ContentInit PROVE ContentSound
  OBVIOUS
<1>1. PICK C : C = MadeContent(Len(Packed) + 1)
  OBVIOUS
<1>2. PICK t : t = MadeDisk
  OBVIOUS
<1>3. Making(t, C)
  BY <1>1, <1>2, MadeIs
<1>4. PICK K : K = MkContent
  OBVIOUS
<1>5. /\ C \in [FileIds -> Seq(Int)] /\ Root \in FileIds
      /\ K \in [FileIds -> Seq(Int)] /\ \A g \in FileIds : g # Root => K[g] = C[g]
      /\ Len(C[Root]) = RootLength /\ Len(K[Root]) = RootSize
      /\ \A i \in 1 .. RootSize : K[Root][i] = IF i <= RootLength THEN C[Root][i] ELSE 0
  BY <1>1, <1>4, MkContentIs
<1>6. disk = MkFs /\ core = NoInodes /\ content = K
  BY <1>4 DEF ContentInit
<1>7. /\ t.inodes \in [FileIds -> InodeRecords] /\ InodeAddrs(t.inodes) \in Addresses
      /\ DiskSound(0 .. t.free - 1, t.data, InodeAddrs(t.inodes), C)
      /\ \A g \in FileIds : t.inodes[g].size = Len(C[g])
  <2>1. \A g \in FileIds : t.inodes[g].size = Len(C[g])
    BY <1>3 DEF Making
  <2> QED BY <1>3, <2>1, MakingParts
<1>8. PICK v : v = [t.inodes[Root] EXCEPT !.size = RootSize]
  OBVIOUS
<1>9. /\ disk.used = 0 .. t.free - 1 /\ disk.data = t.data /\ disk.inodes = [t.inodes EXCEPT ![Root] = v]
      /\ disk = [used |-> disk.used, data |-> disk.data, inodes |-> disk.inodes]
  <2>1. (t.inodes[Root].size \div BSize + 1) * BSize = RootSize
    BY <1>5, <1>7 DEF RootSize, LastBlock
  <2>2. MkFs.inodes = [t.inodes EXCEPT ![Root].size = RootSize]
    BY <1>2, <2>1, MkFsIs
  <2>3. MkFs.inodes = [t.inodes EXCEPT ![Root] = v]
    BY <1>8, <2>2
  <2> QED BY <1>2, <1>6, <2>3, MkFsIs
<1>10. v \in InodeRecords /\ v.addrs = t.inodes[Root].addrs /\ v.size = RootSize
  <2>1. t.inodes[Root] \in InodeRecords /\ RootSize \in Nat
    BY <1>5, <1>7, RootRounded
  <2> QED BY <1>8, <2>1 DEF InodeRecords
<1>11. /\ disk.inodes \in [FileIds -> InodeRecords] /\ disk.inodes[Root] = v
       /\ \A g \in FileIds : g # Root => disk.inodes[g] = t.inodes[g]
  BY <1>5, <1>7, <1>9, <1>10
<1>12. InodeAddrs(disk.inodes) = InodeAddrs(t.inodes)
  BY <1>10, <1>11 DEF InodeAddrs
<1>13. \A g \in FileIds : disk.inodes[g].size = Len(K[g])
  BY <1>5, <1>7, <1>10, <1>11
<1>14. PICK A : A = InodeAddrs(t.inodes)
  OBVIOUS
<1>15. PICK U : U = 0 .. t.free - 1
  OBVIOUS
<1>16. PICK D : D = t.data
  OBVIOUS
<1>17. DiskSound(U, D, A, C)
  BY <1>7, <1>14, <1>15, <1>16
<1>18. /\ DataTypes(D, A, C) /\ BlocksListed(U, D, A) /\ BlocksSingle(D, A)
       /\ \A g \in FileIds : Len(C[g]) <= MaxFile * BSize
       /\ \A g \in FileIds : \A off \in 0 .. MaxFile * BSize - 1 : UnitStored(D, A[g], C[g], off)
  BY <1>17 DEF DiskSound
<1>19. DataTypes(D, A, K)
  BY <1>5, <1>18 DEF DataTypes
<1>20. \A g \in FileIds : Len(K[g]) <= MaxFile * BSize
  <2>1. RootSize <= MaxFile * BSize
    BY RootRounded, DiskSizes
  <2> QED BY <1>5, <1>18, <2>1
<1>21. ASSUME NEW off \in 0 .. MaxFile * BSize - 1
       PROVE  UnitStored(D, A[Root], K[Root], off)
  <2> DEFINE x == BlockAt(D, A[Root], PlaceOf(off \div BSize))
             j == (off % BSize) + 1
             u == D[x][j]
  <2>1. IF off < RootLength THEN x # 0 /\ u = C[Root][off + 1] ELSE x # 0 => u = 0
    BY <1>5, <1>18 DEF UnitStored
  <2>2. /\ RootLength \in 1 .. MaxFile * BSize /\ RootSize \in 1 .. MaxFile * BSize /\ RootLength < RootSize
        /\ \A o \in RootLength - 1 .. RootSize - 1 : o \div BSize = LastBlock
        /\ MaxFile * BSize \in Nat
    BY RootRounded, DiskSizes
  <2>3. PICK M \in Nat : M = MaxFile * BSize
    BY <2>2
  <2>4. RootLength \in 1 .. M /\ RootSize \in 1 .. M /\ off \in 0 .. M - 1
    BY <2>2, <2>3
  <2>5. CASE off < RootLength
    <3>1. off < RootSize /\ off + 1 \in 1 .. RootSize /\ off + 1 <= RootLength
      BY <2>2, <2>4, <2>5
    <3>2. K[Root][off + 1] = C[Root][off + 1]
      BY <1>5, <3>1
    <3> HIDE DEF u
    <3>3. off < Len(K[Root]) /\ x # 0 /\ u = K[Root][off + 1]
      BY <1>5, <2>1, <2>5, <3>1, <3>2
    <3> QED BY <3>3 DEF UnitStored, u
  <2>6. CASE ~(off < RootLength) /\ off < RootSize
    <3>1. /\ off \in RootLength - 1 .. RootSize - 1 /\ RootLength - 1 \in RootLength - 1 .. RootSize - 1
          /\ off + 1 \in 1 .. RootSize /\ ~(off + 1 <= RootLength)
          /\ RootLength - 1 \in 0 .. M - 1 /\ RootLength - 1 < RootLength
      BY <2>2, <2>4, <2>6
    <3>2. K[Root][off + 1] = 0
      BY <1>5, <3>1
    <3>3. off \div BSize = (RootLength - 1) \div BSize
      BY <2>2, <3>1
    <3>4. BlockAt(D, A[Root], PlaceOf((RootLength - 1) \div BSize)) # 0
      BY <1>5, <1>18, <2>3, <3>1 DEF UnitStored
    <3>5. x # 0
      BY <3>3, <3>4
    <3> HIDE DEF u, x
    <3>6. off < Len(K[Root]) /\ x # 0 /\ u = K[Root][off + 1]
      BY <1>5, <2>1, <2>6, <3>2, <3>5
    <3> QED BY <3>6 DEF UnitStored, u, x
  <2>7. CASE ~(off < RootSize)
    <3>1. ~(off < RootLength) /\ ~(off < Len(K[Root]))
      BY <1>5, <2>2, <2>4, <2>7
    <3> QED BY <2>1, <3>1 DEF UnitStored
  <2> QED BY <2>5, <2>6, <2>7
<1>22. \A g \in FileIds : \A off \in 0 .. MaxFile * BSize - 1 : UnitStored(D, A[g], K[g], off)
  BY <1>5, <1>18, <1>21
<1>23. DiskSound(U, D, A, K)
  BY <1>18, <1>19, <1>20, <1>22 DEF DiskSound
<1>24. core = [g \in FileIds |-> core[g]] /\ \A g \in FileIds : core[g] = NotCached
  BY <1>6 DEF NoInodes
<1>25. DiskSound(disk.used, disk.data, InodeAddrs(disk.inodes), content)
  BY <1>6, <1>9, <1>12, <1>14, <1>15, <1>16, <1>23
<1> QED BY <1>6, <1>9, <1>11, <1>13, <1>24, <1>25 DEF ContentSound

(* What the file system packed by mkfs.c and changed by writei, readi and   *)
(* itrunc of fs.c names on the disk is marked used and nothing else is, and *)
(* no block has two names (fs.c:56-95, 373-435; mkfs.c:246-305), for every  *)
(* size of block, inode, disk and table of files that mkfs ends well on.    *)
THEOREM ContentCorrect == ContentSpec => []FsBlocksOnce
<1>1. ContentInit => ContentSound
  BY InitSound
<1>2. ContentSound /\ [ContentNext]_contentVars => ContentSound'
  BY ContentStep
<1>3. ContentSound => FsBlocksOnce
  BY SoundGivesOnce
<1> QED BY <1>1, <1>2, <1>3, PTL DEF ContentSpec

(* Every write, read, truncation, recycled table entry and restart of fs.c  *)
(* is a step of ByteFiles or leaves its state alone: a read returns the     *)
(* bytes last written, whatever blocks hold them (fs.c:453-511).            *)
THEOREM FilesRefined == ContentSpec => FsImplementsFiles
<1>1. ContentInit => ContentSound
  BY InitSound
<1>2. ContentSound /\ [ContentNext]_contentVars => ContentSound' /\ [PromiseNext]_<<content, answer>>
  BY ContentStep
<1> QED BY <1>1, <1>2, PTL DEF ContentSpec, FsImplementsFiles
=============================================================================
