------------------------------ MODULE Directory ------------------------------
(***************************************************************************)
(* The directory tree of xv6: path lookup and directory entries (fs.c) and *)
(* the calls that change them (sysfile.c), with the working directories    *)
(* and open files that keep removed inodes alive.  A path is walked one    *)
(* element at a time with no lock held between, so the tree changes under  *)
(* the walker.  Each step is what the code does between taking an inode's  *)
(* lock and letting it go; the table of inodes behind the references, and  *)
(* the two halves of iput, are InodeCache's subject.  The log writes what  *)
(* changed when no call is in progress (FsLog).  A name is what is left of *)
(* a path element after DIRSIZ characters.                                 *)
(***************************************************************************)
EXTENDS Integers, Sequences, FiniteSets

CONSTANTS Users,    \* processes
          Numbers,  \* inode numbers, 1 is the root
          Calls,    \* what is called: op, path and, of link, the new path; a path
                    \* is [abs: does it start with "/", elems]
          Disks,    \* as mkfs or earlier runs left them, see SoundDisk
          MaxBegun, Crashes   \* bounds: calls begun, times the machine stops

Paths == [abs : BOOLEAN, elems : Seq(STRING)]
Ops == {"open", "chdir", "creat", "mkdir", "mknod", "unlink", "link"}

ASSUME DirectoryAssumption ==
  /\ IsFiniteSet(Users) /\ IsFiniteSet(Numbers)
  /\ 1 \in Numbers /\ Numbers \subseteq Nat \ {0}
  /\ Calls \subseteq [op : Ops, path : Paths, to : Paths]
  /\ {MaxBegun, Crashes} \subseteq Nat

VARIABLES tree,    \* the inodes as the calls so far made them
          saved,   \* the same as the log last committed it
          cwd, open,  \* of each process, 0 for no open file
          call,    \* the call it is in, with its references
          lost,    \* history: inodes a removed directory or a crash has cost
          begun, crashes

dirVars == <<tree, saved, cwd, open, call, lost, begun, crashes>>

RootDir == 1
Dots == {".", ".."}
Missing == [type |-> "none", nlink |-> 0, ents |-> <<>>]
NoEntry == [name |-> "", inum |-> 0]
Entry(name, i) == [name |-> name, inum |-> i]
DotEntries(i, parent) == <<Entry(".", i), Entry("..", parent)>>
Idle == [op |-> "none", ip |-> 0, old |-> 0]

\* What mkfs makes when it is given no files.
EmptyDisk ==
  [i \in Numbers |->
     IF i = RootDir
     THEN [type |-> "dir", nlink |-> 1, ents |-> DotEntries(RootDir, RootDir)]
     ELSE Missing]

DirInit ==
  /\ tree \in Disks /\ saved = tree
  /\ cwd = [p \in Users |-> RootDir] /\ open = [p \in Users |-> 0]
  /\ call = [p \in Users |-> Idle]
  /\ lost = {} /\ begun = 0 /\ crashes = 0

----------------------------------------------------------------------------
\* Directories.
SlotsOf(tab, d, name) ==
  {k \in DOMAIN tab[d].ents : tab[d].ents[k].inum # 0 /\ tab[d].ents[k].name = name}
Least(set) == CHOOSE k \in set : \A j \in set : k <= j

DirLookup(tab, d, name) ==   \* 0 when the name is not there
  LET found == SlotsOf(tab, d, name)
  IN IF found = {} THEN 0 ELSE tab[d].ents[Least(found)].inum

\* dirlink after the test that the name is new: the first empty entry, or a
\* new one at the end.
DirEnter(tab, d, entry) ==
  LET blank == {k \in DOMAIN tab[d].ents : tab[d].ents[k].inum = 0}
  IN IF blank = {} THEN [tab EXCEPT ![d].ents = Append(@, entry)]
     ELSE [tab EXCEPT ![d].ents[Least(blank)] = entry]

IsDirEmpty(tab, d) == \A k \in DOMAIN tab[d].ents : k > 2 => tab[d].ents[k].inum = 0

Mentions(tab, d) == {k \in DOMAIN tab[d].ents : k > 2 /\ tab[d].ents[k].inum # 0}
Below(tab, d) == {tab[d].ents[k].inum : k \in Mentions(tab, d)}
Closed(tab, set) == RootDir \in set /\ \A d \in set : Below(tab, d) \subseteq set
Reachable(tab) == {i \in Numbers : \A set \in SUBSET Numbers : Closed(tab, set) => i \in set}

----------------------------------------------------------------------------
\* A disk between two calls when no inode was lost before.
EntryNames == STRING \cup Dots \cup {""}   \* "" in an entry without an inode
Inodes == [type : {"none", "file", "dir", "dev"}, nlink : Nat,
           ents : Seq([name : EntryNames, inum : Numbers \cup {0}])]

EntriesOf(tab, i) ==
  UNION {{<<d, k>> : k \in {m \in Mentions(tab, d) : tab[d].ents[m].inum = i}} : d \in Numbers}
SubDirs(tab, i) == {k \in Mentions(tab, i) : tab[tab[i].ents[k].inum].type = "dir"}
LinksOf(tab, i) ==
  (IF i = RootDir THEN 1 ELSE 0) + Cardinality(EntriesOf(tab, i)) + Cardinality(SubDirs(tab, i))

\* Only a directory has entries; its first two are "." and "..", and no other
\* is called so. The directory that mentions a directory is its "..".
TreeShape(tab) ==
  /\ tab \in [Numbers -> Inodes]
  /\ tab[RootDir].type = "dir" /\ tab[RootDir].ents[2].inum = RootDir
  /\ \A i \in Numbers : /\ tab[i].type = "none" => tab[i] = Missing
                        /\ tab[i].type # "dir" => tab[i].ents = <<>>
  /\ \A d \in Numbers : tab[d].type = "dir" =>
       /\ Len(tab[d].ents) >= 2 /\ tab[d].ents[1] = Entry(".", d)
       /\ tab[d].ents[2].name = ".." /\ tab[d].ents[2].inum # 0
  /\ \A d \in Numbers : \A k \in Mentions(tab, d) :
       LET i == tab[d].ents[k].inum
       IN /\ tab[d].ents[k].name \notin Dots /\ i \notin {RootDir, d}
          /\ tab[i].type = "dir" => tab[i].ents[2].inum = d
          /\ \A j \in Mentions(tab, d) : j # k =>
               /\ tab[d].ents[j].name # tab[d].ents[k].name
               /\ tab[i].type = "dir" => tab[d].ents[j].inum # i

SoundDisk(tab) ==
  /\ TreeShape(tab)
  /\ \A i \in Numbers : tab[i].nlink = LinksOf(tab, i)
  /\ \A i \in Numbers : tab[i].type # "none" => i \in Reachable(tab)

ASSUME DisksAssumption == \A tab \in Disks : SoundDisk(tab)

----------------------------------------------------------------------------
\* References, and what giving one up does to an inode without links.
Refs(i) == Cardinality({p \in Users : cwd[p] = i}) + Cardinality({p \in Users : open[p] = i})
         + Cardinality({p \in Users : call[p].ip = i})
         + Cardinality({p \in Users : call[p].old = i})

IputKeeps(tab, i, others) == tab   \* mutant

Iput(tab, i, others) ==
  IF others = 0 /\ tab[i].nlink = 0 THEN [tab EXCEPT ![i] = Missing] ELSE tab

NoInode(i) == tree[i].type = "none"     \* ilock panics

\* Every step ends with this: what is committed and what is lost for good.
Record(gone) ==
  /\ saved' = IF \A p \in Users : call'[p] = Idle THEN tree' ELSE saved
  /\ lost' = {i \in lost \cup gone : {tree'[i].type, saved'[i].type} # {"none"}}
  /\ UNCHANGED crashes

Ends(p) == call' = [call EXCEPT ![p] = Idle]

\* The machine starts again with what was committed; inodes that were only
\* kept by references stay allocated.
Boot ==
  /\ tree' = saved /\ saved' = saved
  /\ cwd' = [p \in Users |-> RootDir] /\ open' = [p \in Users |-> 0]
  /\ call' = [p \in Users |-> Idle]
  /\ lost' = {i \in Numbers : saved[i].type # "none" /\ (i \in lost \/ saved[i].nlink = 0)}
  /\ crashes < Crashes /\ crashes' = crashes + 1 /\ UNCHANGED begun

\* A panic, or the power.
Crash == Boot

Panics(p) ==
  /\ call[p] # Idle
  /\ \/ call[p].at = "there" /\ NoInode(call[p].ip)
     \/ call[p].at = "walk" /\ call[p].rest # <<>> /\ NoInode(call[p].ip)
     \/ /\ call[p].at = "there" /\ call[p].op \in {"creat", "mkdir", "mknod"}
        /\ LET i == DirLookup(tree, call[p].ip, call[p].rest[1])
           IN \/ i # 0 /\ NoInode(i)
              \/ i = 0 /\ \A j \in Numbers : ~NoInode(j)
  /\ Boot

----------------------------------------------------------------------------
\* namex.
ParentOps == {"creat", "mkdir", "mknod", "unlink", "linkto"}

From(p, path) == IF path.abs THEN RootDir ELSE cwd[p]

Begin(p) ==
  /\ call[p] = Idle /\ begun < MaxBegun
  /\ begun' = begun + 1
  /\ \E c \in Calls :
       call' = [call EXCEPT ![p] = [op |-> c.op, at |-> "walk", ip |-> From(p, c.path),
                                    rest |-> c.path.elems, old |-> 0, to |-> c.to]]
  /\ UNCHANGED <<tree, cwd, open>> /\ Record({})

\* The reference in call[p].ip is given up; link has to undo its count.
Fails(p, tab) ==
  /\ tree' = tab
  /\ call' = [call EXCEPT ![p] =
       IF call[p].op = "linkto" THEN [call[p] EXCEPT !.at = "bad", !.ip = 0] ELSE Idle]

Walk(p) ==
  LET c == call[p]
      next == IF c.rest = <<>> THEN 0 ELSE DirLookup(tree, c.ip, Head(c.rest))
      stays == IF next = c.ip THEN Refs(c.ip) ELSE Refs(c.ip) - 1
  IN /\ c # Idle /\ c.at = "walk"
     /\ c.rest # <<>> => ~NoInode(c.ip)
     /\ CASE c.rest = <<>> /\ c.op \in ParentOps -> Fails(p, Iput(tree, c.ip, Refs(c.ip) - 1))
          [] c.rest = <<>> /\ c.op \notin ParentOps ->
               call' = [call EXCEPT ![p].at = "there"] /\ UNCHANGED tree
          [] c.rest # <<>> /\ tree[c.ip].type = "dir" /\ c.op \in ParentOps /\ Len(c.rest) = 1 ->
               call' = [call EXCEPT ![p].at = "there"] /\ UNCHANGED tree
          [] c.rest # <<>> /\ (tree[c.ip].type # "dir" \/
                               (next = 0 /\ ~(c.op \in ParentOps /\ Len(c.rest) = 1))) ->
               Fails(p, Iput(tree, c.ip, Refs(c.ip) - 1))
          [] OTHER ->
               /\ call' = [call EXCEPT ![p] = [c EXCEPT !.ip = next, !.rest = Tail(c.rest)]]
               /\ tree' = Iput(tree, c.ip, stays)
  /\ UNCHANGED <<cwd, open, begun>> /\ Record({})

----------------------------------------------------------------------------
At(p, ops) == call[p].op \in ops /\ call[p].at = "there" /\ ~NoInode(call[p].ip)

\* sys_open without O_CREATE; a directory opened for writing, no free file
\* and no free descriptor are its failures.
OpenPath(p) ==
  /\ At(p, {"open"})
  /\ \/ /\ open[p] = 0
        /\ open' = [open EXCEPT ![p] = call[p].ip] /\ UNCHANGED tree
     \/ tree' = Iput(tree, call[p].ip, Refs(call[p].ip) - 1) /\ UNCHANGED open
  /\ Ends(p) /\ UNCHANGED <<cwd, begun>> /\ Record({})

CloseFile(p) ==
  /\ call[p] = Idle /\ open[p] # 0
  /\ tree' = Iput(tree, open[p], Refs(open[p]) - 1)
  /\ open' = [open EXCEPT ![p] = 0]
  /\ UNCHANGED <<cwd, call, begun>> /\ Record({})

Chdir(p) ==
  /\ At(p, {"chdir"})
  /\ IF tree[call[p].ip].type = "dir"
     THEN /\ cwd' = [cwd EXCEPT ![p] = call[p].ip]
          /\ tree' = Iput(tree, cwd[p], IF cwd[p] = call[p].ip THEN 1 ELSE Refs(cwd[p]) - 1)
     ELSE /\ tree' = Iput(tree, call[p].ip, Refs(call[p].ip) - 1) /\ UNCHANGED cwd
  /\ Ends(p) /\ UNCHANGED <<open, begun>> /\ Record({})

\* create, for sys_open, sys_mkdir and sys_mknod.
TypeFor(op) == CASE op = "creat" -> "file" [] op = "mkdir" -> "dir" [] op = "mknod" -> "dev"

MakeNoDotDot(tab, dp, name, i, type) ==   \* Mutant: dp's link count is forgotten.
  DirEnter([tab EXCEPT ![i] = [type |-> type, nlink |-> 1,
                               ents |-> IF type = "dir" THEN DotEntries(i, dp) ELSE <<>>]],
           dp, Entry(name, i))

Make(tab, dp, name, i, type) ==
  LET made == [tab EXCEPT ![i] = [type |-> type, nlink |-> 1,
                                  ents |-> IF type = "dir" THEN DotEntries(i, dp) ELSE <<>>]]
      counted == IF type = "dir" THEN [made EXCEPT ![dp].nlink = @ + 1] ELSE made
  IN DirEnter(counted, dp, Entry(name, i))

CreateNew(p) ==
  LET dp == call[p].ip
      type == TypeFor(call[p].op)
      name == call[p].rest[1]
  IN /\ At(p, {"creat", "mkdir", "mknod"})
     /\ DirLookup(tree, dp, name) = 0
     /\ \E i \in Numbers :
          /\ NoInode(i) /\ \A j \in Numbers : NoInode(j) => i <= j
          /\ LET tab == Iput(Make(tree, dp, name, i, type), dp, Refs(dp) - 1)
             IN \/ call[p].op = "creat" /\ open[p] = 0
                   /\ tree' = tab /\ open' = [open EXCEPT ![p] = i]
                \/ tree' = Iput(tab, i, Refs(i)) /\ UNCHANGED open
          /\ Ends(p) /\ UNCHANGED <<cwd, begun>>
          /\ Record(CASE dp \in Reachable(tree) -> {}
                      [] dp \notin Reachable(tree) /\ type = "dir" -> {dp, i}
                      [] OTHER -> {i})

\* The name is there: dp is put before ip is locked, which matters for ".".
CreateOld(p) ==
  LET dp == call[p].ip
      i == DirLookup(tree, dp, call[p].rest[1])
      tab == Iput(tree, dp, IF dp = i THEN Refs(dp) ELSE Refs(dp) - 1)
      others == IF dp = i THEN Refs(i) - 1 ELSE Refs(i)
  IN /\ At(p, {"creat", "mkdir", "mknod"})
     /\ i # 0 /\ ~NoInode(i)
     /\ \/ /\ call[p].op = "creat" /\ tree[i].type = "file" /\ open[p] = 0
           /\ tree' = tab /\ open' = [open EXCEPT ![p] = i]
        \/ tree' = Iput(tab, i, others) /\ UNCHANGED open
     /\ Ends(p) /\ UNCHANGED <<cwd, begun>> /\ Record({})

\* sys_unlink, with dp and ip locked.
UnlinkAny(tab, dp, name, i) == TRUE   \* mutant

MayUnlink(tab, dp, name, i) ==
  /\ name \notin Dots /\ i # 0
  /\ tab[i].type = "dir" => IsDirEmpty(tab, i)

UnlinkPath(p) ==
  LET dp == call[p].ip
      name == call[p].rest[1]
      i == DirLookup(tree, dp, name)
      slot == Least(SlotsOf(tree, dp, name))
      cleared == [tree EXCEPT ![dp].ents[slot] = NoEntry,
                              ![dp].nlink = IF tree[i].type = "dir" THEN @ - 1 ELSE @]
      put == Iput(cleared, dp, Refs(dp) - 1)
  IN /\ At(p, {"unlink"})
     /\ tree' = IF i # 0 /\ MayUnlink(tree, dp, name, i)
                THEN Iput([put EXCEPT ![i].nlink = @ - 1], i, Refs(i))
                ELSE Iput(tree, dp, Refs(dp) - 1)
     /\ Ends(p) /\ UNCHANGED <<cwd, open, begun>> /\ Record({})

\* sys_link counts first, walks to the new name's directory, enters it or
\* takes the count back.
LinkFirst(p) ==
  /\ At(p, {"link"})
  /\ IF tree[call[p].ip].type = "dir"
     THEN tree' = Iput(tree, call[p].ip, Refs(call[p].ip) - 1) /\ Ends(p)
     ELSE /\ tree' = [tree EXCEPT ![call[p].ip].nlink = @ + 1]
          /\ call' = [call EXCEPT ![p] =
                        [op |-> "linkto", at |-> "walk", ip |-> From(p, @.to),
                         rest |-> @.to.elems, old |-> @.ip, to |-> @.to]]
  /\ UNCHANGED <<cwd, open, begun>> /\ Record({})

NotChecked(tab, d, name) == TRUE    \* mutant

NameIsNew(tab, d, name) == DirLookup(tab, d, name) = 0

LinkSecond(p) ==
  LET c == call[p]
      entered == Iput(DirEnter(tree, c.ip, Entry(c.rest[1], c.old)), c.ip, Refs(c.ip) - 1)
  IN /\ At(p, {"linkto"})
     /\ IF NameIsNew(tree, c.ip, c.rest[1])
        THEN /\ tree' = Iput(entered, c.old, Refs(c.old) - 1)
             /\ Ends(p)
             /\ Record(IF c.ip \in Reachable(tree) THEN {} ELSE {c.old})
        ELSE Fails(p, Iput(tree, c.ip, Refs(c.ip) - 1)) /\ Record({})
     /\ UNCHANGED <<cwd, open, begun>>

LinkUndo(p) ==
  LET old == call[p].old
  IN /\ call[p] # Idle /\ call[p].at = "bad"
     /\ tree' = Iput([tree EXCEPT ![old].nlink = @ - 1], old, Refs(old) - 1)
     /\ Ends(p) /\ UNCHANGED <<cwd, open, begun>> /\ Record({})

DirNext ==
  \/ \E p \in Users :
       \/ Begin(p) \/ Walk(p) \/ Panics(p)
       \/ OpenPath(p) \/ CloseFile(p) \/ Chdir(p)
       \/ CreateNew(p) \/ CreateOld(p) \/ UnlinkPath(p)
       \/ LinkFirst(p) \/ LinkSecond(p) \/ LinkUndo(p)
  \/ Crash

DirSpec == DirInit /\ [][DirNext]_dirVars

----------------------------------------------------------------------------
(* What can be reached by names is a tree: a directory has one name, "."    *)
(* names itself and ".." the directory its name is in, names in a directory *)
(* are different and lead to inodes that exist, whatever other calls do     *)
(* while a path is walked (fs.c:526-657, sysfile.c:118-290).                *)
DirIsTree ==
  LET live == Reachable(tree)
      parents(i) == {d \in live : i \in Below(tree, d)}
  IN \A d \in {i \in live : tree[i].type = "dir"} :
       /\ tree[d].ents[1] = Entry(".", d)
       /\ tree[d].ents[2].name = ".."
       /\ parents(d) = IF d = RootDir THEN {} ELSE {tree[d].ents[2].inum}
       /\ \A k \in Mentions(tree, d) :
            /\ tree[d].ents[k].name \notin Dots
            /\ SlotsOf(tree, d, tree[d].ents[k].name) = {k}
            /\ ~NoInode(tree[d].ents[k].inum)

(* "the number of links referring to it" (fs.c:101): an inode's count is    *)
(* the number of its names, the sub-directories whose ".." it is and the    *)
(* links half made, unless it got a link in a removed directory, which is   *)
(* never taken back.                                                        *)
DirCountsLinks ==
  \A i \in Numbers \ lost : ~NoInode(i) =>
    tree[i].nlink = LinksOf(tree, i) + Cardinality({p \in Users : call[p].old = i})

(* An inode that is in use has a name that can be reached, or a process     *)
(* holds it, or it was made in a removed directory or removed while it was  *)
(* held when the machine stopped, the two ways this code has to lose one    *)
(* (fs.c:334-352, log.c recovers blocks and not references).                *)
DirNothingLost ==
  \A i \in Numbers : ~NoInode(i) =>
    \/ i \in Reachable(tree) \cup lost
    \/ Refs(i) > 0

(* Names make a tree and links are counted (fs.c:522-657).                  *)
TreeSound == DirIsTree /\ DirCountsLinks
=============================================================================
