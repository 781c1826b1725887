------------------------------ MODULE MCNames ------------------------------
(* Model values for Directory beside InodeCache: the inode table under one *)
(* directory and the tree of directories, which share no state: a          *)
(* behaviour is one of the table or one of the tree.                       *)
EXTENDS MCInodeCache, Directory

CONSTANTS u1, u2

VARIABLE part

Abs(elems) == [abs |-> TRUE, elems |-> elems]
Rel(elems) == [abs |-> FALSE, elems |-> elems]
Ask(op, path) == [op |-> op, path |-> path, to |-> Abs(<<>>)]

MCCalls ==
  {Ask("mkdir", Abs(<<"a">>)), Ask("mkdir", Rel(<<"b">>)), Ask("mkdir", Abs(<<>>)),
   Ask("creat", Rel(<<"b">>)), Ask("creat", Rel(<<"..">>)),
   Ask("mknod", Abs(<<"a", "b">>)), Ask("open", Rel(<<"..", "b">>)),
   Ask("chdir", Rel(<<"a", "b">>)), Ask("chdir", Rel(<<"..">>)),
   Ask("unlink", Abs(<<"a">>)), Ask("unlink", Abs(<<"a", "b">>)),
   [op |-> "link", path |-> Abs(<<"b">>), to |-> Rel(<<"a", "b">>)]}

\* A disk as mkfs made it, and one with the directories /a and /a/b.
MCTree ==
  [EmptyDisk EXCEPT
     ![1].nlink = 2, ![1].ents = @ \o <<Entry("a", 2)>>,
     ![2] = [type |-> "dir", nlink |-> 2, ents |-> DotEntries(2, 1) \o <<Entry("b", 3)>>],
     ![3] = [type |-> "dir", nlink |-> 1, ents |-> DotEntries(3, 2)]]
MCDisks == {EmptyDisk, MCTree}

nameVars == <<vars, dirVars, part>>

NameInit ==
  /\ part \in {"begin", "tree"}
  /\ Init /\ DirInit
  /\ part = "begin" => tree = EmptyDisk

(* Three processes work when inode 3 is taken by a file outside the         *)
(* directory; with it free at most two do at a time.                        *)
Taken ==
  /\ part = "begin" /\ part' = "crowd"
  /\ type' = [type EXCEPT ![3] = "file"]
  /\ UNCHANGED <<dir, dirlock, nlink, cache, file, at, name, ip, kept, panic>>
  /\ UNCHANGED dirVars

Table ==
  /\ part \in {"begin", "pair", "crowd"}
  /\ part' = IF part = "begin" THEN "pair" ELSE part
  /\ Next
  /\ part = "crowd" \/ \E p \in Procs : at'[p] = "idle" /\ file'[p] = None
  /\ UNCHANGED dirVars

\* The tree ends at its bounds.
Rests == part = "tree" /\ UNCHANGED nameVars

NameNext ==
  \/ Taken
  \/ Table
  \/ part = "tree" /\ DirNext /\ UNCHANGED <<vars, part>>
  \/ Rests

NameSpec == NameInit /\ [][NameNext]_nameVars
=============================================================================
