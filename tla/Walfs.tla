------------------------------- MODULE Walfs -------------------------------
(* The files of walfs (libs/walfs/src: ops.rs, file.rs, fs.rs): one directory,  *)
(* inodes with direct and indirect blocks, the bitmap in memory and on the      *)
(* volume, open handles and the orphan list.  A commit is one atomic step, as   *)
(* module Wal shows; between two commits of an operation power may be lost.     *)
(*                                                                              *)
(* A transaction's room is not counted: make_room may commit at any step that   *)
(* asks for room.  Sizes are in blocks, any free block may be allocated, and    *)
(* double-indirect blocks, subdirectories and attributes are left out.          *)
EXTENDS Integers, FiniteSets, FiniteSetsExt

CONSTANTS
  Blocks,    \* the data region
  Inodes,    \* the inodes after the root
  Root, Names,
  Direct,    \* addresses in an inode
  Per,       \* addresses in an indirect block
  Slots,     \* directory entries in a block
  Handles,   \* bound: files open at once
  MaxSize,   \* bound: a file's blocks
  MaxOps, MaxCuts,   \* bounds: operations, power cuts
  None

ASSUME WalfsAssumption ==
  /\ {Direct, Per, Slots} \subseteq Nat \ {0} /\ MaxSize \in 1 .. Direct + Per
  /\ MaxOps \in Nat /\ MaxCuts \in Nat
  /\ Root \notin Inodes /\ None \notin Blocks \cup Inodes

VARIABLES
  vol,     \* the volume as of the transaction being built
  disk,    \* the volume as of the last commit
  mem,     \* the bitmap in memory: blocks in use
  open,    \* the inode of each handle, or None
  pc,      \* idle, or inside an operation or a mount
  at,      \* where a write or a freeing is: its inode, its next block, its end
  before, goal,  \* what names lead to before and after the operation
  ops, cuts      \* operations and power cuts so far

vars == <<vol, disk, mem, open, pc, at, before, goal, ops, cuts>>

Idx  == 0 .. Direct + Per - 1
Free == [kind |-> "free", nlink |-> 0, next |-> None, size |-> 0,
         direct |-> [d \in 0 .. Direct - 1 |-> None], single |-> None]
Hole == [e \in 0 .. Per - 1 |-> None]

-----------------------------------------------------------------------------
(* Block maps. *)

\* The address of file block x of inode i, None for a hole.
Bmap(v, i, x) ==
  LET n == v.ino[i]
  IN  IF x < Direct THEN n.direct[x]
      ELSE IF n.single = None THEN None ELSE v.ent[n.single][x - Direct]

\* The blocks its allocation takes: itself, and the indirect block if that is a hole.
AllocNeed(v, i, x) ==
  IF Bmap(v, i, x) # None THEN 0
  ELSE IF x >= Direct /\ v.ino[i].single = None THEN 2 ELSE 1

FreeBlocks == Blocks \ mem

\* File block x of inode i mapped, with fresh blocks s for its indirect block and b for itself
\* where they are holes.
Mapped(v, i, x, s, b) ==
  LET need == AllocNeed(v, i, x)
      taken == IF need = 0 THEN {} ELSE IF need = 1 THEN {b} ELSE {s, b}
      top == IF need = 2 THEN s ELSE v.ino[i].single
      zeroed == [c \in Blocks |-> IF c \in taken THEN Hole ELSE v.ent[c]]
  IN  IF need = 0 THEN v
      ELSE IF x < Direct
      THEN [v EXCEPT !.ino[i].direct[x] = b, !.ent = zeroed, !.used = @ \cup taken]
      ELSE [v EXCEPT !.ino[i].single = top, !.used = @ \cup taken,
                     !.ent = [zeroed EXCEPT ![top][x - Direct] = b]]

\* Two blocks to map with, distinct and free.
Fresh == {p \in FreeBlocks \X FreeBlocks : p[1] # p[2]}
Pairs(need) == IF need = 2 THEN Fresh ELSE {<<None, b>> : b \in IF need = 0 THEN {None} ELSE FreeBlocks}

-----------------------------------------------------------------------------
(* The orphan list, linked through the inodes from inode 0's word, vol.head. *)

\* The inodes a walk of it meets.
Orphans(v) ==
  LET Linked(S) == /\ v.head \in S \cup {None}
                   /\ \A i \in S : v.ino[i].next \in S \cup {None}
  IN  {i \in Inodes : \A S \in SUBSET Inodes : Linked(S) => i \in S}

OrphanLink(v, i) == [v EXCEPT !.ino[i].next = v.head, !.head = i]

\* Mutant: the inode before it keeps pointing at it.
OrphanUnlinkHead(v, i) == [v EXCEPT !.head = v.ino[i].next, !.ino[i].next = None]

OrphanUnlink(v, i) ==
  IF v.head = i THEN [v EXCEPT !.head = v.ino[i].next, !.ino[i].next = None]
  ELSE [v EXCEPT !.ino = [j \in DOMAIN @ |->
          IF j = i THEN [@[j] EXCEPT !.next = None]
          ELSE IF @[j].next = i THEN [@[j] EXCEPT !.next = v.ino[i].next] ELSE @[j]]]

\* Unlinked: on the list, to be finished once no handle holds it.
Unlink(v, i) == OrphanLink([v EXCEPT !.ino[i].nlink = 0], i)

-----------------------------------------------------------------------------
(* Transactions and operations. *)

\* What the names lead to: an inode, its size, and the blocks that hold its contents.
Tree(v) ==
  [n \in Names |->
     LET i == v.name[n]
     IN  IF i = None THEN None
         ELSE <<i, v.ino[i].size,
                {<<x, Bmap(v, i, x)>> : x \in {y \in Idx : y < v.ino[i].size /\ Bmap(v, i, y) # None}}>>]

Idle == pc = "idle" /\ ops < MaxOps
Begun == ops' = ops + 1 /\ UNCHANGED cuts

\* The operation's only transaction, or its last.
CommitTo(v) == vol' = v /\ disk' = v /\ pc' = "idle" /\ before' = Tree(v) /\ goal' = Tree(v)

\* An operation that leaves v and then frees what inode i has past `keep`: it commits as it
\* frees, and once at the end.
FreeThen(v, i, keep, back) ==
  /\ vol' = v /\ pc' = "free"
  /\ goal' = IF back = "mount" THEN goal ELSE Tree(v)
  /\ at' = [ino |-> i, next |-> keep, end |-> 0, back |-> back]
  /\ UNCHANGED <<disk, before>>

\* A slot of the directory for a new entry: a free one, or a new block at its end.
Entries(v)  == Cardinality({n \in Names : v.name[n] # None})
SlotFree(v) == Entries(v) < v.ino[Root].size * Slots
DirNeed(v)  == IF SlotFree(v) THEN 0 ELSE AllocNeed(v, Root, v.ino[Root].size)
AddEntry(v, n, i, s, b) ==
  LET w == IF SlotFree(v) THEN v
           ELSE [Mapped(v, Root, v.ino[Root].size, s, b) EXCEPT !.ino[Root].size = @ + 1]
  IN  [w EXCEPT !.name[n] = i]
DirFull(v) == ~SlotFree(v) /\ v.ino[Root].size \notin Idx

\* A dropped transaction gives the bitmap in memory back its bits.
Aborted(m, taken) == m \ taken

\* create, and open with create: a free inode, then a directory entry.
Create(n) ==
  /\ Idle /\ vol.name[n] = None
  /\ \E i \in Inodes :
       /\ vol.ino[i].kind = "free"
       /\ ~DirFull(vol)
       /\ \E p \in Pairs(DirNeed(vol)) :
            LET v == [vol EXCEPT !.ino[i] = [Free EXCEPT !.kind = "file", !.nlink = 1]]
                w == AddEntry(v, n, i, p[1], p[2])
            IN  CommitTo(w) /\ mem' = mem \cup (w.used \ vol.used)
  /\ Begun /\ UNCHANGED <<open, at>>

\* No room for the directory's new block: an indirect block may have been taken before it, in
\* the transaction and in memory.
CreateNoSpace(n) ==
  /\ Idle /\ vol.name[n] = None /\ (\E i \in Inodes : vol.ino[i].kind = "free")
  /\ DirNeed(vol) > Cardinality(FreeBlocks)
  /\ LET taken == IF DirNeed(vol) = 2 THEN FreeBlocks ELSE {}
     IN  mem' = Aborted(mem \cup taken, taken)
  /\ Begun /\ UNCHANGED <<vol, disk, open, pc, at, before, goal>>

\* Mutant: a removed file is finished under its handles.
IsOpenNever(i) == FALSE

IsOpen(i) == \E h \in Handles : open[h] = i

\* What an unlink leaves to do: nothing while a handle holds the inode.
Unlinked(v, i) ==
  IF IsOpen(i) THEN CommitTo(Unlink(v, i)) /\ UNCHANGED at
  ELSE FreeThen(Unlink(v, i), i, 0, "idle")

Remove(n) ==
  /\ Idle /\ vol.name[n] # None
  /\ Unlinked([vol EXCEPT !.name[n] = None], vol.name[n])
  /\ Begun /\ UNCHANGED <<mem, open>>

\* Over an existing file, which is unlinked; or to a free name, whose entry is added before the
\* old one is cleared.
Rename(f, t) ==
  /\ Idle /\ f # t /\ vol.name[f] # None
  /\ \/ /\ vol.name[t] # None
        /\ Unlinked([vol EXCEPT !.name[t] = vol.name[f], !.name[f] = None], vol.name[t])
        /\ UNCHANGED mem
     \/ /\ vol.name[t] = None /\ ~DirFull(vol)
        /\ \E p \in Pairs(DirNeed(vol)) :
             LET w == AddEntry(vol, t, vol.name[f], p[1], p[2])
             IN  CommitTo([w EXCEPT !.name[f] = None]) /\ mem' = mem \cup (w.used \ vol.used)
        /\ UNCHANGED at
  /\ Begun /\ UNCHANGED open

\* trim: what an inode has past its size is freed, a named file through the orphan list; a
\* removed one is on it already.
Trim(v, i) ==
  IF v.ino[i].nlink = 0 THEN FreeThen(v, i, v.ino[i].size, "trimmed")
  ELSE FreeThen(OrphanLink(v, i), i, v.ino[i].size, "idle")

\* As it is, or cut to nothing.
Open(n, h) ==
  /\ Idle /\ open[h] = None /\ vol.name[n] # None
  /\ open' = [open EXCEPT ![h] = vol.name[n]]
  /\ LET i == vol.name[n]
     IN  \/ UNCHANGED <<vol, disk, pc, at, before, goal>>
         \/ vol.ino[i].size > 0 /\ Trim([vol EXCEPT !.ino[i].size = 0], i)
  /\ Begun /\ UNCHANGED mem

\* A removed file is finished with its last handle.
Close(h) ==
  /\ Idle /\ open[h] # None
  /\ open' = [open EXCEPT ![h] = None]
  /\ LET i == open[h]
     IN  IF vol.ino[i].nlink = 0 /\ ~ \E g \in Handles \ {h} : open[g] = i
         THEN FreeThen(vol, i, 0, "idle")
         ELSE UNCHANGED <<vol, disk, pc, at, before, goal>>
  /\ Begun /\ UNCHANGED mem

\* Cut to a size, or grown.
Truncate(h, size) ==
  /\ Idle /\ open[h] # None
  /\ LET i == open[h]
         v == [vol EXCEPT !.ino[i].size = size]
     IN  IF size >= vol.ino[i].size THEN CommitTo(v) /\ UNCHANGED at
         ELSE Trim(v, i)
  /\ Begun /\ UNCHANGED <<mem, open>>

\* A write of blocks from..to-1 through a handle.
Write(h, from, to) ==
  /\ Idle /\ open[h] # None /\ from < to
  /\ pc' = "write" /\ at' = [ino |-> open[h], next |-> from, end |-> to, back |-> "idle"]
  /\ Begun /\ UNCHANGED <<vol, disk, mem, open, before, goal>>

\* Room for a step: what the transaction holds is committed, and is whole.
MakeRoom ==
  /\ pc \in {"write", "free"} /\ vol # disk
  /\ disk' = vol /\ before' = goal
  /\ UNCHANGED <<vol, mem, open, pc, at, goal, ops, cuts>>

WriteBlock ==
  /\ pc = "write" /\ at.next < at.end
  /\ AllocNeed(vol, at.ino, at.next) <= Cardinality(FreeBlocks)
  /\ \E p \in Pairs(AllocNeed(vol, at.ino, at.next)) :
       LET w == [Mapped(vol, at.ino, at.next, p[1], p[2]) EXCEPT
                   !.ino[at.ino].size = IF @ > at.next THEN @ ELSE at.next + 1]
       IN  vol' = w /\ mem' = mem \cup (w.used \ vol.used) /\ goal' = Tree(w)
  /\ at' = [at EXCEPT !.next = @ + 1]
  /\ UNCHANGED <<disk, open, pc, before, ops, cuts>>

\* The whole of it written, or the volume too full for the next block.
WriteEnd ==
  /\ pc = "write"
  /\ \/ at.next = at.end
     \/ at.next < at.end /\ AllocNeed(vol, at.ino, at.next) > Cardinality(FreeBlocks)
  /\ CommitTo(vol)
  /\ UNCHANGED <<mem, open, at, ops, cuts>>

-----------------------------------------------------------------------------
(* Freeing, last block first, and what ends it. *)

\* The block freed next, of those past `at.next`: of the indirect block's, then it, then the
\* inode's own.
Past(v) == {x \in Idx : x >= at.next /\ Bmap(v, at.ino, x) # None}
IndirectDue(v) == /\ v.ino[at.ino].single # None /\ Direct >= at.next
                  /\ \A x \in Past(v) : x < Direct

\* Block b freed, and file block x of the inode a hole.
Released(v, b, x) ==
  LET n == v.ino[at.ino]
      w == [v EXCEPT !.used = @ \ {b}]
  IN  IF x < Direct THEN [w EXCEPT !.ino[at.ino].direct[x] = None]
      ELSE [w EXCEPT !.ent[n.single][x - Direct] = None]

FreeBlock ==
  /\ pc = "free"
  /\ \/ /\ IndirectDue(vol)
        /\ LET s == vol.ino[at.ino].single
           IN  /\ vol' = [vol EXCEPT !.used = @ \ {s}, !.ino[at.ino].single = None]
               /\ mem' = mem \ {s}
               /\ pc' = IF s \in mem THEN pc ELSE "corrupt"
     \/ /\ ~IndirectDue(vol) /\ Past(vol) # {}
        /\ LET x == Max(Past(vol))
               b == Bmap(vol, at.ino, x)
           IN  /\ vol' = Released(vol, b, x)
               /\ mem' = mem \ {b}
               /\ pc' = IF b \in mem THEN pc ELSE "corrupt"
  /\ UNCHANGED <<disk, open, at, before, goal, ops, cuts>>

\* Mutant: a removed inode is freed and left on the list.
FinishedListed(v, i) ==
  IF v.ino[i].nlink = 0 THEN [v EXCEPT !.ino[i] = [Free EXCEPT !.next = v.ino[i].next]] ELSE OrphanUnlink(v, i)

\* Everything past is freed: off the list, and a removed inode freed.
Finished(v, i) ==
  LET w == OrphanUnlink(v, i)
  IN  IF w.ino[i].nlink = 0 THEN [w EXCEPT !.ino[i] = Free] ELSE w

\* An inode that should be on the list and is not is corrupt (orphan_unlink).
FreeEnd ==
  /\ pc = "free" /\ Past(vol) = {} /\ ~IndirectDue(vol)
  /\ LET v == IF at.back = "trimmed" THEN vol ELSE Finished(vol, at.ino)
     IN  IF at.back # "trimmed" /\ at.ino \notin Orphans(vol)
         THEN pc' = "corrupt" /\ UNCHANGED <<vol, disk, before, goal>>
         ELSE IF at.back # "mount" THEN CommitTo(v)
         ELSE vol' = v /\ disk' = v /\ pc' = "mount" /\ UNCHANGED <<before, goal>>
  /\ UNCHANGED <<mem, open, at, ops, cuts>>

-----------------------------------------------------------------------------
(* Power loss and mount. *)

Cut ==
  /\ cuts < MaxCuts /\ pc # "corrupt" /\ cuts' = cuts + 1
  /\ vol' = disk /\ mem' = disk.used /\ open' = [h \in Handles |-> None]
  /\ pc' = "mount" /\ before' = Tree(disk) /\ goal' = Tree(disk)
  /\ UNCHANGED <<disk, at, ops>>

\* Mutant: a mount takes every orphan for a removed file.
KeepNothing(n) == 0

\* What an orphan keeps: a removed file nothing, a truncated one its size.
Keep(n) == IF n.nlink = 0 THEN 0 ELSE n.size

\* Each pass finishes the list's head.
MountOrphan ==
  /\ pc = "mount" /\ vol.head # None
  /\ IF vol.ino[vol.head].kind = "free"
     THEN pc' = "corrupt" /\ UNCHANGED <<vol, disk, at, before, goal>>
     ELSE FreeThen(vol, vol.head, Keep(vol.ino[vol.head]), "mount")
  /\ UNCHANGED <<mem, open, ops, cuts>>

Mounted ==
  /\ pc = "mount" /\ vol.head = None
  /\ pc' = "idle"
  /\ UNCHANGED <<vol, disk, mem, open, at, before, goal, ops, cuts>>

-----------------------------------------------------------------------------

\* A formatted volume, mounted.
Init ==
  /\ vol = [name |-> [n \in Names |-> None], head |-> None, used |-> {},
            ino  |-> [i \in Inodes \cup {Root} |->
                        IF i = Root THEN [Free EXCEPT !.kind = "dir", !.nlink = 1] ELSE Free],
            ent  |-> [b \in Blocks |-> Hole]]
  /\ disk = vol /\ mem = {} /\ open = [h \in Handles |-> None]
  /\ pc = "idle" /\ at = [ino |-> Root, next |-> 0, end |-> 0, back |-> "idle"]
  /\ before = Tree(vol) /\ goal = Tree(vol) /\ ops = 0 /\ cuts = 0

Step == MakeRoom \/ WriteBlock \/ WriteEnd \/ FreeBlock \/ FreeEnd \/ MountOrphan \/ Mounted

Next ==
  \/ \E n \in Names : Create(n) \/ CreateNoSpace(n) \/ Remove(n) \/ (\E h \in Handles : Open(n, h))
  \/ \E f, t \in Names : Rename(f, t)
  \/ \E h \in Handles :
       \/ Close(h)
       \/ \E s \in 0..MaxSize : Truncate(h, s) \/ (\E e \in 0..MaxSize : Write(h, s, e))
  \/ Step \/ Cut

\* walfsd goes on until an operation or a mount is over.
Spec == Init /\ [][Next]_vars /\ WF_vars(WriteBlock \/ WriteEnd) /\ WF_vars(FreeBlock \/ FreeEnd)
             /\ WF_vars(MountOrphan \/ Mounted)

-----------------------------------------------------------------------------
(* Properties. *)

\* check_all: what the volume check reads of a volume. An inode's references are those of its file
\* blocks and, at Top, its indirect block.
Top  == -1
Refs == Idx \cup {Top}
Ref(v, i, x) == IF x = Top THEN v.ino[i].single ELSE Bmap(v, i, x)
InUse(v, i) == {x \in Idx : Bmap(v, i, x) # None}
Used(v) == {Ref(v, i, x) : i \in DOMAIN v.ino, x \in Refs} \ {None}
Named(v) == {v.name[n] : n \in Names} \ {None}

NoSharedBlock(v) ==
  \A i, j \in DOMAIN v.ino, x, y \in Refs :
    Ref(v, i, x) # None /\ Ref(v, i, x) = Ref(v, j, y) => i = j /\ x = y
NoLeakedInode(v)  == \A i \in Inodes : v.ino[i].kind # "free" => i \in Named(v) \cup Orphans(v)
NamedOnce(v)      == \A m, n \in Names : v.name[m] # None /\ v.name[m] = v.name[n] => m = n
NamedLive(v)      == \A i \in Named(v) : v.ino[i].kind = "file" /\ v.ino[i].nlink = 1
OrphanListEnds(v) == /\ \A i \in Orphans(v) : v.ino[i].kind # "free"
                     /\ Orphans(v) # {} => \E i \in Orphans(v) : v.ino[i].next = None
NothingPastSize(v) ==
  \A i \in DOMAIN v.ino : /\ \A x \in InUse(v, i) : x < v.ino[i].size
                          /\ v.ino[i].single # None => Direct < v.ino[i].size
NoDirectoryHole(v) == \A x \in Idx : x < v.ino[Root].size => Bmap(v, Root, x) # None

\* Between two operations, after any cuts and mounts, the volume check finds nothing: no block
\* shared, leaked or in use and free, by the bitmap on the volume and in memory alike; no inode
\* leaked, named twice or named and free; the orphan list whole; nothing mapped past a size.
Sound ==
  /\ pc # "corrupt"
  /\ pc = "idle" =>
       /\ vol = disk /\ vol.used = Used(vol) /\ mem = Used(vol)
       /\ NoSharedBlock(vol) /\ NoLeakedInode(vol) /\ NamedOnce(vol) /\ NamedLive(vol)
       /\ OrphanListEnds(vol) /\ NothingPastSize(vol) /\ NoDirectoryHole(vol)

\* R50 (docs/servers/walfsd.md): however often power is lost inside an operation, and inside the
\* mounts that follow, names lead to what they led to before it or after it (a write: after one
\* of its transactions).
TreeAtomic == Tree(disk) \in {before, goal}

\* A handle's inode "outlives removal" (file.rs): it is not freed, nor named anew, under the handle;
\* and a removed file's space comes back: it stays on the orphan list only while a handle holds it.
HandlesHold ==
  /\ \A h \in Handles : open[h] # None => vol.ino[open[h]].kind = "file"
  /\ pc = "idle" => \A i \in Orphans(vol) : vol.ino[i].nlink = 0 /\ IsOpen(i)

\* Every mount ends, and every operation.
EndsServing == []<>(pc = "idle")
=============================================================================
