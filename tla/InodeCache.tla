----------------------------- MODULE InodeCache -----------------------------
(***************************************************************************)
(* The inodes of xv6 (fs.c) under the system calls that name, open and     *)
(* remove files (sysfile.c): the table of in-memory inodes with its        *)
(* reference counts and sleep-locks, the inodes on disk with their types   *)
(* and link counts, and one directory of files.                            *)
(*                                                                         *)
(* Each step ends where the code may sleep or let go of a lock that        *)
(* another process waits for.  The disk is what the transactions of FsLog  *)
(* and the buffers of BufferCache make it look: one inode read or written  *)
(* at a time.  The directory's own inode is always in the table, so only   *)
(* its lock appears.  The content of files is left out.                    *)
(***************************************************************************)
EXTENDS Integers, FiniteSets

CONSTANTS
  Procs,    \* the processes, each with room for one open file
  Names,    \* what may be in the directory
  Inums,    \* the inode numbers ialloc may give, 1 .. n
  Slots,    \* the entries of icache
  None      \* no process, no slot, no inode

ASSUME InodeAssumption ==
  /\ Inums \subseteq Nat \ {0} /\ Slots \subseteq Nat
  /\ IsFiniteSet(Procs) /\ IsFiniteSet(Names)
  /\ None \notin Procs \cup Names \cup Inums \cup Slots

VARIABLES
  dir,      \* the inode each name stands for
  dirlock,  \* who holds the directory's lock
  type,     \* on disk: "none" or "file"
  nlink,    \* on disk: the number of links
  cache,    \* icache.inode: inum, ref, valid, nlink and the lock's holder
  file,     \* the table entry of each process's open file
  at,       \* where each process is
  name,     \* the name it works on
  ip,       \* the entry it works on, with a reference
  kept,     \* a second one, while it puts the first
  panic     \* the message of the panic that stopped the machine, or None

vars == <<dir, dirlock, type, nlink, cache, file, at, name, ip, kept, panic>>

Empty == [inum |-> None, ref |-> 0, valid |-> FALSE, nlink |-> 0, lock |-> None]

Init ==
  /\ dir = [n \in Names |-> None]
  /\ dirlock = None
  /\ type = [i \in Inums |-> "none"]
  /\ nlink = [i \in Inums |-> 0]
  /\ cache = [s \in Slots |-> Empty]
  /\ file = [p \in Procs |-> None]
  /\ at = [p \in Procs |-> "idle"]
  /\ name = [p \in Procs |-> None]
  /\ ip = [p \in Procs |-> None]
  /\ kept = [p \in Procs |-> None]
  /\ panic = None

Go(p, label) == at' = [at EXCEPT ![p] = label]
Runs(p, label) == panic = None /\ at[p] = label

Stop(message) ==
  /\ panic' = message
  /\ UNCHANGED <<dir, dirlock, type, nlink, cache, file, at, name, ip, kept>>

-----------------------------------------------------------------------------
(* iget: the entry that is there, or the first empty one.                  *)
Cached(i) == {s \in Slots : cache[s].ref > 0 /\ cache[s].inum = i}
Unused == {s \in Slots : cache[s].ref = 0}
AnyUnused(i) == Unused        \* Mutant: the inode is not looked for first.
CanGet(i) == Cached(i) \cup Unused # {}
Entries(i) == IF Cached(i) # {} THEN Cached(i) ELSE Unused
Slot(i) == CHOOSE s \in Entries(i) : \A t \in Entries(i) : s <= t

(* idup's half of iget is a count; a recycled entry is not valid.          *)
Iget(p, i, label) ==
  /\ cache' = [cache EXCEPT ![Slot(i)] =
                 IF @.ref > 0 THEN [@ EXCEPT !.ref = cache[Slot(i)].ref + 1]
                              ELSE [Empty EXCEPT !.inum = i, !.ref = 1]]
  /\ ip' = [ip EXCEPT ![p] = Slot(i)]
  /\ Go(p, label)

(* ilock: the entry as p finds it when it is not locked.  It panics on an  *)
(* inode without a type, which AllocatedWhileUsed excludes.                *)
Inum(p) == cache[ip[p]].inum
Unlocked(p) == cache[ip[p]].lock = None
NoType(p) == ~cache[ip[p]].valid /\ type[Inum(p)] = "none"
Loaded(p) == IF cache[ip[p]].valid THEN cache[ip[p]]
             ELSE [cache[ip[p]] EXCEPT !.valid = TRUE, !.nlink = nlink[Inum(p)]]
Becomes(p, entry) == cache' = [cache EXCEPT ![ip[p]] = entry]

(* iupdate of a link count: the entry and the inode on disk.               *)
(* Mutant: iupdate is forgotten.                                           *)
SetInCore(p, k, holder) ==
  Becomes(p, [Loaded(p) EXCEPT !.nlink = k, !.lock = holder]) /\ UNCHANGED nlink
SetLinks(p, k, holder) ==
  /\ Becomes(p, [Loaded(p) EXCEPT !.nlink = k, !.lock = holder])
  /\ nlink' = [nlink EXCEPT ![Inum(p)] = k]

IgetPanics(p, n) ==
  /\ Runs(p, "idle") /\ dirlock = None
  /\ dir[n] # None /\ ~CanGet(dir[n])
  /\ Stop("iget: no inodes")

-----------------------------------------------------------------------------
(* sys_open of a name that is there, with O_CREATE or without.             *)
Open(p, n) ==
  /\ Runs(p, "idle") /\ file[p] = None
  /\ dirlock = None /\ dir[n] # None /\ CanGet(dir[n])
  /\ Iget(p, dir[n], "open")
  /\ UNCHANGED <<dir, dirlock, type, nlink, file, name, kept, panic>>

(* ilock, filealloc and fdalloc, iunlock; without a file the inode is put. *)
OpenLocked(p) ==
  /\ Runs(p, "open") /\ Unlocked(p)
  /\ Becomes(p, Loaded(p))
  /\ \/ /\ file' = [file EXCEPT ![p] = ip[p]]
        /\ ip' = [ip EXCEPT ![p] = None]
        /\ Go(p, "idle")
     \/ Go(p, "put") /\ UNCHANGED <<file, ip>>
  /\ UNCHANGED <<dir, dirlock, type, nlink, name, kept, panic>>

(* fileclose of the last descriptor.                                       *)
Close(p) ==
  /\ Runs(p, "idle") /\ file[p] # None
  /\ ip' = [ip EXCEPT ![p] = file[p]]
  /\ file' = [file EXCEPT ![p] = None]
  /\ Go(p, "put")
  /\ UNCHANGED <<dir, dirlock, type, nlink, cache, name, kept, panic>>

-----------------------------------------------------------------------------
(* create of a new name: the directory stays locked until it is entered.   *)
Create(p, n) ==
  /\ Runs(p, "idle") /\ file[p] = None
  /\ dirlock = None /\ dir[n] = None
  /\ dirlock' = p
  /\ name' = [name EXCEPT ![p] = n]
  /\ Go(p, "ialloc")
  /\ UNCHANGED <<dir, type, nlink, cache, file, ip, kept, panic>>

(* ialloc takes the first inode whose type is 0, and its entry.            *)
NoneFree == \A i \in Inums : type[i] = "file"
FirstFree == CHOOSE i \in Inums : type[i] = "none"
                 /\ \A j \in Inums : type[j] = "none" => i <= j

Ialloc(p) ==
  /\ Runs(p, "ialloc") /\ ~NoneFree /\ CanGet(FirstFree)
  /\ type' = [type EXCEPT ![FirstFree] = "file"]
  /\ nlink' = [nlink EXCEPT ![FirstFree] = 0]
  /\ Iget(p, FirstFree, "init")
  /\ UNCHANGED <<dir, dirlock, file, name, kept, panic>>

IallocPanics(p) ==
  /\ Runs(p, "ialloc")
  /\ \/ NoneFree /\ Stop("ialloc: no inodes")
     \/ ~NoneFree /\ ~CanGet(FirstFree) /\ Stop("iget: no inodes")

CreateInit(p) ==
  /\ Runs(p, "init") /\ Unlocked(p)
  /\ SetLinks(p, 1, p)
  /\ Go(p, "enter")
  /\ UNCHANGED <<dir, dirlock, type, file, name, ip, kept, panic>>

CreateEnter(p) ==
  /\ Runs(p, "enter")
  /\ dir' = [dir EXCEPT ![name[p]] = Inum(p)]
  /\ dirlock' = None
  /\ name' = [name EXCEPT ![p] = None]
  /\ Go(p, "created")
  /\ UNCHANGED <<type, nlink, cache, file, ip, kept, panic>>

(* sys_open goes on with the lock that create took.                        *)
Created(p) ==
  /\ Runs(p, "created")
  /\ Becomes(p, [cache[ip[p]] EXCEPT !.lock = None])
  /\ \/ /\ file' = [file EXCEPT ![p] = ip[p]]
        /\ ip' = [ip EXCEPT ![p] = None]
        /\ Go(p, "idle")
     \/ Go(p, "put") /\ UNCHANGED <<file, ip>>
  /\ UNCHANGED <<dir, dirlock, type, nlink, name, kept, panic>>

-----------------------------------------------------------------------------
(* sys_unlink: both locks are held while the name is cleared.              *)
Unlink(p, n) ==
  /\ Runs(p, "idle")
  /\ dirlock = None /\ dir[n] # None /\ CanGet(dir[n])
  /\ dirlock' = p
  /\ name' = [name EXCEPT ![p] = n]
  /\ Iget(p, dir[n], "unlink")
  /\ UNCHANGED <<dir, type, nlink, file, kept, panic>>

UnlinkClear(p) ==
  /\ Runs(p, "unlink") /\ Unlocked(p)
  /\ Becomes(p, [Loaded(p) EXCEPT !.lock = p])
  /\ dir' = [dir EXCEPT ![name[p]] = None]
  /\ dirlock' = None
  /\ name' = [name EXCEPT ![p] = None]
  /\ Go(p, "unlinked")
  /\ UNCHANGED <<type, nlink, file, ip, kept, panic>>

Unlinked(p) ==
  /\ Runs(p, "unlinked")
  /\ SetLinks(p, cache[ip[p]].nlink - 1, None)
  /\ Go(p, "put")
  /\ UNCHANGED <<dir, dirlock, type, file, name, ip, kept, panic>>

-----------------------------------------------------------------------------
(* sys_link counts the link first and enters the name afterwards.          *)
Link(p, n, new) ==
  /\ Runs(p, "idle")
  /\ dirlock = None /\ dir[n] # None /\ CanGet(dir[n])
  /\ name' = [name EXCEPT ![p] = new]
  /\ Iget(p, dir[n], "link")
  /\ UNCHANGED <<dir, dirlock, type, nlink, file, kept, panic>>

LinkCount(p) ==
  /\ Runs(p, "link") /\ Unlocked(p)
  /\ SetLinks(p, Loaded(p).nlink + 1, None)
  /\ Go(p, "enterlink")
  /\ UNCHANGED <<dir, dirlock, type, file, name, ip, kept, panic>>

LinkEnter(p) ==
  /\ Runs(p, "enterlink") /\ dirlock = None
  /\ dir[name[p]] = None
  /\ dir' = [dir EXCEPT ![name[p]] = Inum(p)]
  /\ name' = [name EXCEPT ![p] = None]
  /\ Go(p, "put")
  /\ UNCHANGED <<dirlock, type, nlink, cache, file, ip, kept, panic>>

(* The new name's directory cannot be found.                               *)
LinkNowhere(p) ==
  /\ Runs(p, "enterlink") /\ dirlock = None
  /\ name' = [name EXCEPT ![p] = None]
  /\ Go(p, "linkbad")
  /\ UNCHANGED <<dir, dirlock, type, nlink, cache, file, ip, kept, panic>>

(* The name is taken: dirlink puts the inode it found, the directory still *)
(* locked.                                                                 *)
LinkTaken(p) ==
  /\ Runs(p, "enterlink") /\ dirlock = None
  /\ dir[name[p]] # None
  /\ IF CanGet(dir[name[p]])
     THEN /\ Iget(p, dir[name[p]], "put")
          /\ kept' = [kept EXCEPT ![p] = ip[p]]
          /\ dirlock' = p
          /\ name' = [name EXCEPT ![p] = None]
          /\ UNCHANGED <<dir, type, nlink, file, panic>>
     ELSE Stop("iget: no inodes")

LinkBad(p) ==
  /\ Runs(p, "linkbad") /\ Unlocked(p)
  /\ SetLinks(p, Loaded(p).nlink - 1, None)
  /\ Go(p, "put")
  /\ UNCHANGED <<dir, dirlock, type, file, name, ip, kept, panic>>

-----------------------------------------------------------------------------
(* iput: the last reference to an inode without links frees it.            *)
Unwanted(e) == e.valid /\ e.nlink = 0         \* Mutant: others' references.
LastOf(e) == e.valid /\ e.nlink = 0 /\ e.ref = 1

PutKeeps(p) ==
  /\ Runs(p, "put") /\ Unlocked(p)
  /\ ~LastOf(cache[ip[p]])
  /\ Go(p, "drop")
  /\ UNCHANGED <<dir, dirlock, type, nlink, cache, file, name, ip, kept, panic>>

(* itrunc, type = 0 and iupdate, with the lock held.                       *)
PutFrees(p) ==
  /\ Runs(p, "put") /\ Unlocked(p)
  /\ LastOf(cache[ip[p]])
  /\ type' = [type EXCEPT ![Inum(p)] = "none"]
  /\ Becomes(p, [cache[ip[p]] EXCEPT !.lock = p])
  /\ Go(p, "freed")
  /\ UNCHANGED <<dir, dirlock, nlink, file, name, ip, kept, panic>>

PutInvalidates(p) ==
  /\ Runs(p, "freed")
  /\ Becomes(p, [cache[ip[p]] EXCEPT !.valid = FALSE, !.lock = None])
  /\ Go(p, "drop")
  /\ UNCHANGED <<dir, dirlock, type, nlink, file, name, ip, kept, panic>>

(* The count goes down; an entry at 0 is as good as empty.  A link that    *)
(* found its name taken unlocks the directory and undoes its count.        *)
PutDrops(p) ==
  /\ Runs(p, "drop")
  /\ Becomes(p, IF cache[ip[p]].ref = 1 THEN Empty
                ELSE [cache[ip[p]] EXCEPT !.ref = cache[ip[p]].ref - 1])
  /\ ip' = [ip EXCEPT ![p] = kept[p]]
  /\ kept' = [kept EXCEPT ![p] = None]
  /\ IF kept[p] = None
     THEN Go(p, "idle") /\ UNCHANGED dirlock
     ELSE Go(p, "linkbad") /\ dirlock' = None
  /\ UNCHANGED <<dir, type, nlink, file, name, panic>>

(* A machine that panicked stays as it is.                                 *)
Halted == panic # None /\ UNCHANGED vars

Next ==
  \/ \E p \in Procs :
       \/ \E n \in Names : \/ Open(p, n) \/ Create(p, n) \/ Unlink(p, n)
                           \/ IgetPanics(p, n)
                           \/ \E new \in Names : Link(p, n, new)
       \/ OpenLocked(p) \/ Close(p)
       \/ Ialloc(p) \/ IallocPanics(p) \/ CreateInit(p) \/ CreateEnter(p) \/ Created(p)
       \/ UnlinkClear(p) \/ Unlinked(p)
       \/ LinkCount(p) \/ LinkEnter(p) \/ LinkNowhere(p) \/ LinkTaken(p) \/ LinkBad(p)
       \/ PutKeeps(p) \/ PutFrees(p) \/ PutInvalidates(p) \/ PutDrops(p)
  \/ Halted

Spec == Init /\ [][Next]_vars

-----------------------------------------------------------------------------
(* What a name or an open file refers to is never freed under it, whoever  *)
(* unlinks, links, creates and closes meanwhile, and nobody comes to an    *)
(* inode that has gone since he looked it up: the panics "ilock: no type"  *)
(* and "unlink: nlink < 1", which the steps above leave out.               *)
Locking == {"open", "unlink", "link", "linkbad", "init"}
AllocatedWhileUsed ==
  /\ \A n \in Names : dir[n] # None => type[dir[n]] = "file"
  /\ \A p \in Procs : file[p] # None => type[cache[file[p]].inum] = "file"
  /\ \A p \in Procs : at[p] \in Locking /\ Unlocked(p) => ~NoType(p)
  /\ \A p \in Procs : at[p] = "unlink" /\ Unlocked(p) => Loaded(p).nlink >= 1

(* "If that was the last reference and the inode has no links to it, free  *)
(* the inode (and its content) on disk" (fs.c:327): an allocated inode has *)
(* a name or somebody who holds it.  The code breaks this, because iput    *)
(* decides in one step and gives up its reference in another: a process    *)
(* that found a link left puts its reference after unlink has seen it and  *)
(* left the freeing to it.                                                 *)
FreedWhenUnused ==
  \A i \in Inums : type[i] = "file" => Cached(i) # {} \/ \E n \in Names : dir[n] = i

(* The link count on disk is the number of names, give or take the calls   *)
(* that have done one and not yet the other, and the reference count of an *)
(* entry is the number of open files and calls that use it, through every  *)
(* failing path of open and link.                                          *)
LinksAhead(i) == {p \in Procs : at[p] \in {"enterlink", "linkbad", "enter", "unlinked"}
                                 /\ Inum(p) = i}
                 \cup {p \in Procs : kept[p] # None /\ cache[kept[p]].inum = i}
CountsTrue ==
  /\ \A i \in Inums : nlink[i] = Cardinality({n \in Names : dir[n] = i})
                                 + Cardinality(LinksAhead(i))
  /\ \A s \in Slots : cache[s].ref = Cardinality({p \in Procs : file[p] = s})
                 + Cardinality({p \in Procs : ip[p] = s})
                 + Cardinality({p \in Procs : kept[p] = s})

(* An inode has one entry, and one that is valid and not locked says what  *)
(* the disk says: the table is written through, and an inode allocated     *)
(* again while its old entry is being given up is read anew.               *)
CacheAgrees ==
  /\ \A i \in Inums : Cardinality(Cached(i)) <= 1
  /\ \A s \in Slots : cache[s].ref > 0 /\ cache[s].valid /\ cache[s].lock = None =>
        nlink[cache[s].inum] = cache[s].nlink /\ type[cache[s].inum] = "file"

(* The inode table counts what is there, says what the disk says, and      *)
(* keeps allocated what is in use (fs.c:216-352).                          *)
TableSound == CountsTrue /\ CacheAgrees /\ AllocatedWhileUsed
=============================================================================
