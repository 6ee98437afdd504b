---------------------------- MODULE WalfsProofs ----------------------------
(***************************************************************************)
(* The files of walfs for every volume, directory and set of handles: the  *)
(* volume check finds nothing between operations (Sound), names lead to    *)
(* what they led to before or after an operation whenever power is lost    *)
(* (TreeAtomic), and a handle holds its file (HandlesHold).                *)
(*                                                                         *)
(* The inductive invariant says of the volume being built and of the one   *)
(* committed that each is whole (Whole): the bitmap is what the inodes     *)
(* refer to, no block twice, and every inode is free, named or on the      *)
(* orphan list.  Blocks lie past a size only on the list, and then only    *)
(* where a truncation, a removal or a mount is to free them.               *)
(***************************************************************************)
EXTENDS Walfs, WellFoundedInduction, TLAPS

----------------------------------------------------------------------------
(* The invariant. *)

Addrs == Blocks \cup {None}
Links == Inodes \cup {None}
All   == Inodes \cup {Root}
InodeType == [kind : {"free", "file", "dir"}, nlink : {0, 1}, next : Links, size : 0 .. Direct + Per,
              direct : [0 .. Direct - 1 -> Addrs], single : Addrs]
VolType   == [name : [Names -> Links], head : Links, used : SUBSET Blocks,
              ino : [All -> InodeType], ent : [Blocks -> [0 .. Per - 1 -> Addrs]]]

\* The bitmap is what the inodes refer to, no block twice; a free inode refers to nothing.
RefsOK(v) ==
  /\ v.used = Used(v) /\ NoSharedBlock(v)
  /\ \A i \in Inodes, x \in Refs : v.ino[i].kind = "free" => Ref(v, i, x) = None

\* Each inode is free, or a file that is named or on the list, by one name at most.
InodesOK(v) ==
  /\ v.ino[Root].kind = "dir"
  /\ \A i \in Inodes : v.ino[i].kind \in {"free", "file"}
  /\ NoLeakedInode(v) /\ NamedLive(v) /\ NamedOnce(v)
  /\ \A i \in Inodes : v.ino[i].kind = "file" /\ v.ino[i].nlink = 1 => i \in Named(v)

\* The orphan list is a list: nothing is linked twice, it ends, and only what is on it is linked.
ListOK(v) ==
  /\ OrphanListEnds(v)
  /\ \A i \in Inodes : v.ino[i].next # None => i \in Orphans(v) /\ v.ino[i].next # v.head
  /\ \A i, j \in Inodes : v.ino[i].next # None /\ v.ino[i].next = v.ino[j].next => i = j

\* Nothing is mapped past inode i's size.
Trimmed(v, i) == \A x \in Refs : Ref(v, i, x) # None => (IF x = Top THEN Direct ELSE x) < v.ino[i].size

\* Blocks and list in order; what lies past a size is on the list.
Sane(v) ==
  /\ v \in VolType /\ RefsOK(v) /\ ListOK(v) /\ NoDirectoryHole(v)
  /\ \A i \in All : i \in Orphans(v) \/ Trimmed(v, i)
Whole(v) == Sane(v) /\ InodesOK(v)

Mounting == pc = "mount" \/ (pc = "free" /\ at.back = "mount")
Freeing(i) == pc = "free" /\ at.ino = i

\* A removed file still held, and cut to its size.
Held(v, i) == v.ino[i].nlink = 0 /\ IsOpen(i) /\ Trimmed(v, i)

AtType == [ino : All, next : 0 .. Direct + Per, end : 0 .. Direct + Per, back : {"idle", "trimmed", "mount"}]
AtOK ==
  /\ at \in AtType
  /\ pc = "write" => at.ino \in Inodes /\ vol.ino[at.ino].kind = "file" /\ at.next <= at.end
  /\ pc = "free" =>
       /\ at.ino \in Orphans(vol)
       /\ at.back = "idle" => at.next = Keep(vol.ino[at.ino]) /\ (vol.ino[at.ino].nlink = 0 => ~IsOpen(at.ino))
       /\ at.back = "trimmed" => vol.ino[at.ino].nlink = 0 /\ at.next = vol.ino[at.ino].size /\ IsOpen(at.ino)
       /\ at.back = "mount" => at.next = Keep(vol.ino[at.ino])

WalfsInv ==
  /\ pc \in {"idle", "write", "free", "mount"}
  /\ Whole(vol) /\ Whole(disk) /\ mem = vol.used
  /\ open \in [Handles -> Links]
  /\ \A h \in Handles : open[h] # None => vol.ino[open[h]].kind = "file" /\ ~Mounting
  /\ AtOK
  /\ pc \in {"idle", "mount"} => vol = disk
  /\ goal = Tree(vol) /\ before = Tree(disk) /\ (Mounting => before = goal)
  /\ ~Mounting => \A i \in Orphans(vol) : Freeing(i) \/ Held(vol, i)

----------------------------------------------------------------------------
(* References. *)

\* Constants and indices.
LEMMA Numbers ==
  /\ Direct \in Nat \ {0} /\ Per \in Nat \ {0} /\ MaxSize \in 1 .. Direct + Per
  /\ Idx = 0 .. Direct + Per - 1 /\ Top \notin Idx /\ Refs = Idx \cup {Top}
  /\ Root \notin Inodes /\ None \notin Blocks /\ None \notin Inodes
BY WalfsAssumption DEF Idx, Top, Refs

\* What a volume's parts are.
LEMMA VolParts ==
  ASSUME NEW v \in VolType
  PROVE  /\ v.name \in [Names -> Links] /\ v.head \in Links /\ v.used \in SUBSET Blocks
         /\ v.ino \in [All -> InodeType] /\ v.ent \in [Blocks -> [0 .. Per - 1 -> Addrs]]
         /\ \A i \in All : v.ino[i] \in InodeType
         /\ \A i \in All : /\ v.ino[i].kind \in {"free", "file", "dir"} /\ v.ino[i].nlink \in {0, 1}
                           /\ v.ino[i].next \in Links /\ v.ino[i].size \in 0 .. Direct + Per
                           /\ v.ino[i].direct \in [0 .. Direct - 1 -> Addrs] /\ v.ino[i].single \in Addrs
BY DEF VolType, InodeType

\* A reference, by where it is kept.
LEMMA RefTop ==
  ASSUME NEW v, NEW i
  PROVE  Ref(v, i, Top) = v.ino[i].single
BY DEF Ref

LEMMA RefIdx ==
  ASSUME NEW v, NEW i, NEW x \in Idx
  PROVE  Ref(v, i, x) = Bmap(v, i, x)
BY Numbers DEF Ref

LEMMA RefDirect ==
  ASSUME NEW v, NEW i, NEW x \in 0 .. Direct - 1
  PROVE  Ref(v, i, x) = v.ino[i].direct[x]
<1>1. x \in Idx /\ x < Direct  BY Numbers
<1>. QED  BY <1>1, RefIdx DEF Bmap

LEMMA RefSingle ==
  ASSUME NEW v, NEW i, NEW x \in Idx, x >= Direct
  PROVE  /\ x - Direct \in 0 .. Per - 1
         /\ Ref(v, i, x) = IF v.ino[i].single = None THEN None ELSE v.ent[v.ino[i].single][x - Direct]
<1>1. x - Direct \in 0 .. Per - 1 /\ ~(x < Direct)  BY Numbers
<1>. QED  BY <1>1, RefIdx DEF Bmap

\* A place is one of the three.
LEMMA Places ==
  ASSUME NEW x \in Refs
  PROVE  x = Top \/ x \in 0 .. Direct - 1 \/ (x \in Idx /\ x >= Direct)
BY Numbers

LEMMA RefIn ==
  ASSUME NEW v \in VolType, NEW i \in All, NEW x \in Refs
  PROVE  Ref(v, i, x) \in Addrs
<1>1. v.ino[i].single \in Addrs /\ v.ino[i].direct \in [0 .. Direct - 1 -> Addrs]
      /\ v.ent \in [Blocks -> [0 .. Per - 1 -> Addrs]]  BY VolParts
<1>2. CASE x = Top  BY <1>2, <1>1, RefTop
<1>3. CASE x \in 0 .. Direct - 1
  <2>1. v.ino[i].direct[x] \in Addrs  BY <1>3, <1>1
  <2>. QED  BY <2>1, <1>3, RefDirect
<1>4. CASE x \in Idx /\ x >= Direct
  <2>1. x - Direct \in 0 .. Per - 1  BY <1>4, RefSingle
  <2>2. v.ino[i].single # None => v.ent[v.ino[i].single][x - Direct] \in Addrs  BY <2>1, <1>1 DEF Addrs
  <2>. QED  BY <2>2, <1>4, RefSingle DEF Addrs
<1>. QED  BY <1>2, <1>3, <1>4, Places

\* The blocks in use.
LEMMA UsedIs ==
  ASSUME NEW v \in VolType
  PROVE  /\ \A b : b \in Used(v) <=> b # None /\ \E i \in All, x \in Refs : b = Ref(v, i, x)
         /\ NoSharedBlock(v) <=> \A i, j \in All, x, y \in Refs :
              Ref(v, i, x) # None /\ Ref(v, i, x) = Ref(v, j, y) => i = j /\ x = y
<1>1. DOMAIN v.ino = All  BY VolParts
<1>. QED  BY <1>1 DEF Used, NoSharedBlock

\* The bitmap follows references that appear, each to a block that was free.
LEMMA RefsGrow ==
  ASSUME NEW v \in VolType, NEW w \in VolType, NEW i \in All,
         v.used = Used(v), NoSharedBlock(v),
         \A j \in All, y \in Refs : Ref(w, j, y) = Ref(v, j, y)
           \/ (j = i /\ Ref(v, j, y) = None /\ Ref(w, j, y) \in Blocks \ v.used),
         \A y, z \in Refs : Ref(v, i, y) = None /\ Ref(v, i, z) = None
                              /\ Ref(w, i, y) # None /\ Ref(w, i, y) = Ref(w, i, z) => y = z,
         \A c \in Blocks : c \in w.used <=> c \in v.used \/ \E y \in Refs : c = Ref(w, i, y) /\ Ref(v, i, y) = None
  PROVE  w.used = Used(w) /\ NoSharedBlock(w)
<1>1. \A c \in Blocks : c \in v.used <=> \E j \in All, x \in Refs : c = Ref(v, j, x)
  BY UsedIs, Numbers
<1>2. \A j \in All, x \in Refs : Ref(w, j, x) \in Addrs /\ Ref(v, j, x) \in Addrs  BY RefIn
<1>3. \A c \in Blocks : c \in w.used <=> c \in Used(w)
  <2>. SUFFICES ASSUME NEW c \in Blocks  PROVE c \in w.used <=> \E j \in All, x \in Refs : c = Ref(w, j, x)
    BY UsedIs, Numbers
  <2>1. c \in w.used => \E j \in All, x \in Refs : c = Ref(w, j, x)
    <3>1. CASE c \in v.used
      <4>1. PICK j \in All, x \in Refs : c = Ref(v, j, x)  BY <3>1, <1>1
      <4>. QED  BY <4>1, Numbers
    <3>. QED  BY <3>1
  <2>2. ASSUME NEW j \in All, NEW x \in Refs, c = Ref(w, j, x)  PROVE c \in w.used
    BY <2>2, <1>1
  <2>. QED  BY <2>1, <2>2
<1>4. w.used \subseteq Blocks /\ Used(w) \subseteq Blocks
  BY <1>2, UsedIs, VolParts DEF Addrs
<1>5. ASSUME NEW j \in All, NEW k \in All, NEW x \in Refs, NEW y \in Refs,
             Ref(w, j, x) # None, Ref(w, j, x) = Ref(w, k, y)
      PROVE  j = k /\ x = y
  <2>1. CASE Ref(w, j, x) = Ref(v, j, x) /\ Ref(w, k, y) = Ref(v, k, y)
    BY <2>1, <1>5, UsedIs
  <2>2. CASE Ref(w, j, x) = Ref(v, j, x) /\ Ref(w, k, y) # Ref(v, k, y)
    BY <2>2, <1>5, <1>1
  <2>3. CASE Ref(w, j, x) # Ref(v, j, x) /\ Ref(w, k, y) = Ref(v, k, y)
    BY <2>3, <1>5, <1>1
  <2>4. CASE Ref(w, j, x) # Ref(v, j, x) /\ Ref(w, k, y) # Ref(v, k, y)
    BY <2>4, <1>5
  <2>. QED  BY <2>1, <2>2, <2>3, <2>4
<1>6. NoSharedBlock(w)  BY <1>5, UsedIs
<1>7. w.used = Used(w)  BY <1>3, <1>4
<1>. QED  BY <1>6, <1>7

----------------------------------------------------------------------------
(* Mapping a block. *)

\* Blocks s and b serve to map file block x of inode i.
Serve(v, i, x, s, b) ==
  /\ AllocNeed(v, i, x) = 1 => b \in Blocks \ v.used
  /\ AllocNeed(v, i, x) = 2 => s \in Blocks \ v.used /\ b \in Blocks \ v.used /\ s # b

\* What an inode is, but for its block map and size.
SameInode(v, w, i) ==
  w.ino[i].kind = v.ino[i].kind /\ w.ino[i].nlink = v.ino[i].nlink /\ w.ino[i].next = v.ino[i].next

\* A block is mapped, and nothing else: no other reference changes.
LEMMA MapEffect ==
  ASSUME NEW v \in VolType, v.used = Used(v), NoSharedBlock(v), NEW i \in All, NEW x \in Idx,
         NEW s, NEW b, Serve(v, i, x, s, b), NEW w, w = Mapped(v, i, x, s, b)
  PROVE  /\ w \in VolType /\ w.name = v.name /\ w.head = v.head /\ v.used \subseteq w.used
         /\ \A j \in All : SameInode(v, w, j) /\ w.ino[j].size = v.ino[j].size
         /\ \A j \in All, y \in Refs :
              \/ Ref(w, j, y) = Ref(v, j, y)
              \/ /\ j = i /\ (y = x \/ (y = Top /\ x >= Direct))
                 /\ Ref(v, j, y) = None /\ Ref(w, j, y) \in Blocks \ v.used
         /\ Ref(w, i, x) # None /\ w.used = Used(w) /\ NoSharedBlock(w)
<1>. DEFINE need == AllocNeed(v, i, x)
            top == v.ino[i].single
<1>1. /\ Bmap(v, i, x) = Ref(v, i, x) /\ x \in Refs /\ Top \in Refs /\ x # Top /\ x \in Nat
      /\ Ref(v, i, x) \in Addrs /\ top \in Addrs /\ Ref(v, i, Top) = top
  BY RefIdx, RefTop, RefIn, Numbers, VolParts
<1>2. \A j \in All, y \in Refs : Ref(v, j, y) # None => Ref(v, j, y) \in v.used  BY UsedIs
<1>3. \A j \in All : v.ino[j].single # None => v.ino[j].single \in v.used /\ v.ino[j].single \in Blocks
  BY <1>1, <1>2, RefTop, VolParts, Numbers DEF Addrs
<1>4. /\ v.name \in [Names -> Links] /\ v.head \in Links /\ v.used \in SUBSET Blocks
      /\ v.ino \in [All -> InodeType] /\ v.ent \in [Blocks -> [0 .. Per - 1 -> Addrs]]
      /\ \A j \in All : v.ino[j] \in InodeType
  BY VolParts
<1>5. Hole \in [0 .. Per - 1 -> Addrs]  BY DEF Hole, Addrs
<1>6. CASE need = 0
  <2>1. w = v  BY <1>6 DEF Mapped
  <2>2. Ref(v, i, x) # None  BY <1>6, <1>1 DEF AllocNeed
  <2>3. \A j \in All : SameInode(v, w, j)  BY <2>1 DEF SameInode
  <2>. QED  BY <2>1, <2>2, <2>3
<1>7. CASE need # 0
  <2>1. Ref(v, i, x) = None /\ b \in Blocks \ v.used
    BY <1>7, <1>1 DEF AllocNeed, Serve
  <2>2. CASE x < Direct
    <3>1. need = 1 /\ x \in 0 .. Direct - 1  BY <2>1, <2>2, <1>1, Numbers DEF AllocNeed
    <3>. DEFINE ent == [c \in Blocks |-> IF c \in {b} THEN Hole ELSE v.ent[c]]
                node == [v.ino[i] EXCEPT !.direct[x] = b]
    <3>2. w = [v EXCEPT !.ino[i].direct[x] = b, !.ent = ent, !.used = @ \cup {b}]
      BY <3>1, <2>2 DEF Mapped
    <3>3. ent \in [Blocks -> [0 .. Per - 1 -> Addrs]]  BY <1>4, <1>5
    <3>4. node \in InodeType /\ node.direct = [v.ino[i].direct EXCEPT ![x] = b]
          /\ node.kind = v.ino[i].kind /\ node.nlink = v.ino[i].nlink /\ node.next = v.ino[i].next
          /\ node.size = v.ino[i].size /\ node.single = top
      BY <3>1, <2>1, <1>4, ZenonT(60) DEF InodeType, Addrs
    <3>5. /\ w.name = v.name /\ w.head = v.head /\ w.used = v.used \cup {b} /\ w.ent = ent
          /\ w.ino = [v.ino EXCEPT ![i] = node] /\ w \in VolType
      <4>. HIDE DEF ent
      <4>1. v.used \cup {b} \in SUBSET Blocks  BY <2>1, <1>4
      <4>2. [v.ino EXCEPT ![i] = node] \in [All -> InodeType]  BY <3>4, <1>4
      <4>3. w = [name |-> v.name, head |-> v.head, used |-> v.used \cup {b},
                 ino |-> [v.ino EXCEPT ![i] = node], ent |-> ent]
        BY <3>2 DEF VolType
      <4>. QED  BY <4>1, <4>2, <4>3, <3>3, <1>4 DEF VolType
    <3>. HIDE DEF ent, node
    <3>6. w.ino[i] = node /\ \A j \in All : j # i => w.ino[j] = v.ino[j]  BY <3>5, <1>4
    <3>7. \A j \in All : SameInode(v, w, j) /\ w.ino[j].size = v.ino[j].size /\ w.ino[j].single = v.ino[j].single
      BY <3>6, <3>4 DEF SameInode
    <3>8. \A j \in All : v.ino[j].single # None => w.ent[v.ino[j].single] = v.ent[v.ino[j].single]
      BY <3>5, <1>3, <2>1 DEF ent
    <3>9. Ref(w, i, x) = b
      <4>1. v.ino[i].direct \in [0 .. Direct - 1 -> Addrs]  BY VolParts
      <4>2. node.direct[x] = b  BY <4>1, <3>1, <3>4
      <4>. QED  BY <4>2, <3>1, <3>6, RefDirect
    <3>10. ASSUME NEW j \in All, NEW y \in Refs, ~(j = i /\ y = x)  PROVE Ref(w, j, y) = Ref(v, j, y)
      <4>1. CASE y = Top  BY <4>1, <3>7, RefTop
      <4>2. CASE y \in 0 .. Direct - 1
        <5>1. w.ino[j].direct[y] = v.ino[j].direct[y]
          <6>1. v.ino[j].direct \in [0 .. Direct - 1 -> Addrs]  BY VolParts
          <6>2. CASE j = i
            <7>1. y # x  BY <6>2, <3>10
            <7>2. node.direct[y] = v.ino[i].direct[y]  BY <7>1, <6>1, <6>2, <3>4, <4>2
            <7>. QED  BY <7>2, <6>2, <3>6
          <6>. QED  BY <6>2, <3>6
        <5>. QED  BY <5>1, <4>2, RefDirect
      <4>3. CASE y \in Idx /\ y >= Direct
        BY <4>3, <3>7, <3>8, RefSingle
      <4>. QED  BY <4>1, <4>2, <4>3, Places
    <3>11. \A c \in Blocks : c \in w.used <=>
             c \in v.used \/ \E y \in Refs : c = Ref(w, i, y) /\ Ref(v, i, y) = None
      BY <3>5, <3>9, <3>10, <2>1, <1>1, Numbers
    <3>12. \A y, z \in Refs : Ref(v, i, y) = None /\ Ref(v, i, z) = None
                                /\ Ref(w, i, y) # None /\ Ref(w, i, y) = Ref(w, i, z) => y = z
      <4>1. \A y \in Refs : y # x => Ref(w, i, y) = Ref(v, i, y)  BY <3>10
      <4>. SUFFICES ASSUME NEW y \in Refs, NEW z \in Refs, Ref(v, i, y) = None, Ref(v, i, z) = None,
                           Ref(w, i, y) # None, Ref(w, i, y) = Ref(w, i, z)
                    PROVE  y = z
        OBVIOUS
      <4>2. y = x  BY <4>1
      <4>3. z = x  BY <4>1
      <4>. QED  BY <4>2, <4>3
    <3>13. \A j \in All, y \in Refs : Ref(w, j, y) = Ref(v, j, y)
           \/ (j = i /\ y = x /\ Ref(v, j, y) = None /\ Ref(w, j, y) \in Blocks \ v.used)
      BY <3>9, <3>10, <2>1
    <3>14. w.used = Used(w) /\ NoSharedBlock(w)  BY <3>5, <3>11, <3>12, <3>13, RefsGrow
    <3>. QED  BY <3>5, <3>7, <3>9, <3>13, <3>14, <2>1, Numbers
  <2>3. CASE ~(x < Direct)
    <3>. DEFINE new == IF top = None THEN s ELSE top
                taken == IF top = None THEN {s, b} ELSE {b}
                zero == [c \in Blocks |-> IF c \in taken THEN Hole ELSE v.ent[c]]
                ent == [zero EXCEPT ![new][x - Direct] = b]
                node == [v.ino[i] EXCEPT !.single = new]
    <3>1. /\ x >= Direct /\ x - Direct \in 0 .. Per - 1
          /\ top = None => need = 2 /\ s \in Blocks \ v.used /\ s # b
          /\ top # None => need = 1
      BY <2>1, <2>3, <1>1, Numbers DEF AllocNeed, Serve
    <3>2. w = [v EXCEPT !.ino[i].single = new, !.used = @ \cup taken, !.ent = ent]
      <4>1. CASE top = None
        <5>1. need = 2 /\ new = s /\ taken = {s, b}  BY <4>1, <3>1
        <5>2. Mapped(v, i, x, s, b) =
                [v EXCEPT !.ino[i].single = s, !.used = @ \cup {s, b},
                          !.ent = [[c \in Blocks |-> IF c \in {s, b} THEN Hole ELSE v.ent[c]]
                                     EXCEPT ![s][x - Direct] = b]]
          <6>1. AllocNeed(v, i, x) = 2  BY <5>1
          <6>. QED  BY <6>1, <2>3 DEF Mapped
        <5>. QED  BY <5>1, <5>2
      <4>2. CASE top # None
        <5>1. need = 1 /\ new = top /\ taken = {b}  BY <4>2, <3>1
        <5>2. Mapped(v, i, x, s, b) =
                [v EXCEPT !.ino[i].single = top, !.used = @ \cup {b},
                          !.ent = [[c \in Blocks |-> IF c \in {b} THEN Hole ELSE v.ent[c]]
                                     EXCEPT ![top][x - Direct] = b]]
          <6>1. AllocNeed(v, i, x) = 1  BY <5>1
          <6>. QED  BY <6>1, <2>3 DEF Mapped
        <5>. QED  BY <5>1, <5>2, ZenonT(60)
      <4>. QED  BY <4>1, <4>2
    <3>3. /\ new \in Blocks /\ new # b /\ taken \subseteq Blocks \ v.used
          /\ top # None => new \notin taken
      BY <3>1, <1>3, <2>1 DEF Addrs
    <3>4. zero \in [Blocks -> [0 .. Per - 1 -> Addrs]] /\ ent \in [Blocks -> [0 .. Per - 1 -> Addrs]]
      <4>1. zero \in [Blocks -> [0 .. Per - 1 -> Addrs]]  BY <1>4, <1>5
      <4>. HIDE DEF zero, new
      <4>2. [zero[new] EXCEPT ![x - Direct] = b] \in [0 .. Per - 1 -> Addrs]  BY <4>1, <3>1, <3>3, <2>1 DEF Addrs
      <4>3. ent = [zero EXCEPT ![new] = [zero[new] EXCEPT ![x - Direct] = b]]  OBVIOUS
      <4>. QED  BY <4>1, <4>2, <4>3
    <3>5. node \in InodeType /\ node.direct = v.ino[i].direct
          /\ node.kind = v.ino[i].kind /\ node.nlink = v.ino[i].nlink /\ node.next = v.ino[i].next
          /\ node.size = v.ino[i].size /\ node.single = new
      BY <3>3, <1>4 DEF InodeType, Addrs
    <3>6. /\ w.name = v.name /\ w.head = v.head /\ w.used = v.used \cup taken /\ w.ent = ent
          /\ w.ino = [v.ino EXCEPT ![i] = node] /\ w \in VolType
      <4>. HIDE DEF ent
      <4>1. v.used \cup taken \in SUBSET Blocks  BY <3>3, <1>4
      <4>2. [v.ino EXCEPT ![i] = node] \in [All -> InodeType]  BY <3>5, <1>4
      <4>3. /\ w.name = v.name /\ w.head = v.head /\ w.used = v.used \cup taken /\ w.ent = ent
            /\ w.ino = [v.ino EXCEPT ![i] = node]
        BY <3>2 DEF VolType
      <4>4. w = [name |-> v.name, head |-> v.head, used |-> v.used \cup taken,
                 ino |-> [v.ino EXCEPT ![i] = node], ent |-> ent]
        BY <3>2 DEF VolType
      <4>. QED  BY <4>1, <4>2, <4>3, <4>4, <3>4, <1>4 DEF VolType
    <3>7. w.ino[i] = node /\ \A j \in All : j # i => w.ino[j] = v.ino[j]  BY <3>6, <1>4
    <3>8. \A j \in All : SameInode(v, w, j) /\ w.ino[j].size = v.ino[j].size /\ w.ino[j].direct = v.ino[j].direct
      <4>. SUFFICES ASSUME NEW j \in All
                    PROVE  SameInode(v, w, j) /\ w.ino[j].size = v.ino[j].size /\ w.ino[j].direct = v.ino[j].direct
        OBVIOUS
      <4>1. CASE j = i
        <5>. HIDE DEF node
        <5>. QED  BY <4>1, <3>7, <3>5 DEF SameInode
      <4>2. CASE j # i  BY <4>2, <3>7, SMTT(60) DEF SameInode
      <4>. QED  BY <4>1, <4>2
    <3>9. ent[new] = [zero[new] EXCEPT ![x - Direct] = b] /\ \A c \in Blocks : c # new => ent[c] = zero[c]
      BY <3>4, <3>3
    <3>10. zero[new] = IF top = None THEN Hole ELSE v.ent[top]
      BY <3>3, <3>1
    <3>11. \A c \in Blocks : c \in v.used => zero[c] = v.ent[c]  BY <3>3
    <3>. HIDE DEF ent, zero, node
    <3>12. \A j \in All : j # i /\ v.ino[j].single # None => v.ino[j].single # new
      <4>. SUFFICES ASSUME NEW j \in All, j # i, v.ino[j].single # None, v.ino[j].single = new  PROVE FALSE
        OBVIOUS
      <4>1. v.ino[j].single \in v.used  BY <1>3
      <4>2. top = new  BY <4>1, <3>1
      <4>. QED  BY <4>2, <1>1, UsedIs, RefTop
    <3>13. Ref(w, i, x) = b
      <4>1. Ref(w, i, x) = w.ent[w.ino[i].single][x - Direct]
        BY <3>1, <3>3, <3>5, <3>7, RefSingle, Numbers
      <4>2. zero[new] \in [0 .. Per - 1 -> Addrs]  BY <3>4, <3>3
      <4>3. ent[new][x - Direct] = b  BY <4>2, <3>9, <3>1
      <4>4. w.ino[i].single = new /\ w.ent = ent  BY <3>5, <3>6, <3>7
      <4>. QED  BY <4>1, <4>3, <4>4
    <3>14. Ref(w, i, Top) = new  BY <3>5, <3>7, RefTop
    <3>15. ASSUME NEW j \in All, NEW y \in Refs, ~(j = i /\ y = x), ~(j = i /\ y = Top)
           PROVE  Ref(w, j, y) = Ref(v, j, y)
      <4>1. CASE y = Top  BY <4>1, <3>15, <3>7, RefTop
      <4>2. CASE y \in 0 .. Direct - 1  BY <4>2, <3>8, RefDirect
      <4>3. CASE y \in Idx /\ y >= Direct
        <5>1. y - Direct \in 0 .. Per - 1  BY <4>3, RefSingle
        <5>2. Ref(w, j, y) = IF w.ino[j].single = None THEN None ELSE w.ent[w.ino[j].single][y - Direct]
          BY <4>3, RefSingle
        <5>3. Ref(v, j, y) = IF v.ino[j].single = None THEN None ELSE v.ent[v.ino[j].single][y - Direct]
          BY <4>3, RefSingle
        <5>4. CASE j # i
          <6>1. w.ino[j].single = v.ino[j].single  BY <5>4, <3>7
          <6>2. v.ino[j].single # None => w.ent[v.ino[j].single] = v.ent[v.ino[j].single]
            BY <5>4, <3>12, <3>6, <3>9, <3>11, <1>3
          <6>. QED  BY <6>1, <6>2, <5>2, <5>3
        <5>5. CASE j = i
          <6>1. w.ino[j].single = new /\ new # None  BY <5>5, <3>3, <3>5, <3>7, Numbers
          <6>2. y - Direct # x - Direct  BY <5>5, <3>15, <4>3, <1>1, Numbers
          <6>3. zero[new] \in [0 .. Per - 1 -> Addrs]  BY <3>4, <3>3
          <6>4. w.ent[new][y - Direct] = zero[new][y - Direct]
            BY <6>2, <6>3, <5>1, <3>6, <3>9
          <6>5. CASE top = None
            <7>1. zero[new][y - Direct] = None  BY <6>5, <3>10, <5>1 DEF Hole
            <7>. QED  BY <7>1, <6>5, <6>4, <6>1, <5>2, <5>3, <5>5
          <6>6. CASE top # None
            <7>1. zero[new] = v.ent[top] /\ new = top  BY <6>6, <3>10
            <7>. QED  BY <7>1, <6>6, <6>4, <6>1, <5>2, <5>3, <5>5
          <6>. QED  BY <6>5, <6>6
        <5>. QED  BY <5>4, <5>5
      <4>. QED  BY <4>1, <4>2, <4>3, Places
    <3>16. \A j \in All, y \in Refs :
             \/ Ref(w, j, y) = Ref(v, j, y)
             \/ j = i /\ (y = x \/ y = Top) /\ Ref(v, j, y) = None /\ Ref(w, j, y) \in Blocks \ v.used
      BY <3>13, <3>14, <3>15, <3>1, <2>1, <1>1
    <3>17. \A c \in Blocks : c \in w.used <=>
             c \in v.used \/ \E y \in Refs : c = Ref(w, i, y) /\ Ref(v, i, y) = None
      <4>. SUFFICES ASSUME NEW c \in Blocks
                    PROVE  c \in taken <=> \E y \in Refs : c = Ref(w, i, y) /\ Ref(v, i, y) = None
        BY <3>6
      <4>1. CASE top = None
        BY <4>1, <3>13, <3>14, <3>15, <2>1, <1>1, Numbers
      <4>2. CASE top # None
        BY <4>2, <3>13, <3>14, <3>15, <2>1, <1>1, Numbers
      <4>. QED  BY <4>1, <4>2
    <3>18. \A y, z \in Refs : Ref(v, i, y) = None /\ Ref(v, i, z) = None
                                /\ Ref(w, i, y) # None /\ Ref(w, i, y) = Ref(w, i, z) => y = z
      <4>. SUFFICES ASSUME NEW y \in Refs, NEW z \in Refs, Ref(v, i, y) = None, Ref(v, i, z) = None,
                           Ref(w, i, y) # None, Ref(w, i, y) = Ref(w, i, z)
                    PROVE  y = z
        OBVIOUS
      <4>1. y = x \/ y = Top  BY <3>15
      <4>2. z = x \/ z = Top  BY <3>15
      <4>. QED  BY <4>1, <4>2, <3>13, <3>14, <3>3
    <3>19. w.used = Used(w) /\ NoSharedBlock(w)  BY <3>6, <3>16, <3>17, <3>18, RefsGrow
    <3>. QED  BY <3>6, <3>8, <3>13, <3>16, <3>19, <2>1, <3>1, Numbers
  <2>. QED  BY <2>2, <2>3
<1>. QED  BY <1>6, <1>7

----------------------------------------------------------------------------
(* The orphan list. *)

\* S holds the head of v's list and is closed under its links.
Linked(v, S) ==
  /\ v.head \in S \cup {None}
  /\ \A i \in S : v.ino[i].next \in S \cup {None}

\* The list is the least such set.
LEMMA OrphansIs ==
  ASSUME NEW v \in VolType
  PROVE  /\ Orphans(v) \subseteq Inodes /\ Linked(v, Orphans(v))
         /\ \A S \in SUBSET Inodes : Linked(v, S) => Orphans(v) \subseteq S
<1>1. Orphans(v) = {i \in Inodes : \A S \in SUBSET Inodes : Linked(v, S) => i \in S}
  BY DEF Orphans, Linked
<1>2. \A S \in SUBSET Inodes : Linked(v, S) => Orphans(v) \subseteq S  BY <1>1
<1>3. v.head \in Links /\ \A i \in Inodes : v.ino[i].next \in Links  BY VolParts DEF All
<1>4. v.head \in Orphans(v) \cup {None}
  <2>. SUFFICES ASSUME v.head # None  PROVE v.head \in Orphans(v)  OBVIOUS
  <2>1. v.head \in Inodes  BY <1>3 DEF Links
  <2>2. \A S \in SUBSET Inodes : Linked(v, S) => v.head \in S  BY DEF Linked
  <2>. QED  BY <2>1, <2>2, <1>1
<1>5. ASSUME NEW i \in Orphans(v)  PROVE v.ino[i].next \in Orphans(v) \cup {None}
  <2>. SUFFICES ASSUME v.ino[i].next # None  PROVE v.ino[i].next \in Orphans(v)  OBVIOUS
  <2>1. i \in Inodes  BY <1>1
  <2>2. v.ino[i].next \in Inodes  BY <2>1, <1>3 DEF Links
  <2>3. ASSUME NEW S \in SUBSET Inodes, Linked(v, S)  PROVE v.ino[i].next \in S
    <3>1. i \in S  BY <2>3, <1>1
    <3>. QED  BY <3>1, <2>3 DEF Linked
  <2>. QED  BY <2>2, <2>3, <1>1
<1>. QED  BY <1>1, <1>2, <1>4, <1>5 DEF Linked

\* It is the same where the links are.
LEMMA OrphansSame ==
  ASSUME NEW v \in VolType, NEW w \in VolType, w.head = v.head,
         \A i \in Inodes : w.ino[i].next = v.ino[i].next
  PROVE  Orphans(w) = Orphans(v)
<1>1. \A S \in SUBSET Inodes : Linked(v, S) <=> Linked(w, S)  BY DEF Linked
<1>. QED  BY <1>1, OrphansIs

\* And as good a list, where the inodes on it are live.
LEMMA ListSame ==
  ASSUME NEW v \in VolType, NEW w \in VolType, w.head = v.head, ListOK(v),
         \A i \in Inodes : w.ino[i].next = v.ino[i].next,
         \A i \in Orphans(v) : w.ino[i].kind # "free"
  PROVE  Orphans(w) = Orphans(v) /\ ListOK(w)
<1>1. Orphans(w) = Orphans(v)  BY OrphansSame
<1>2. Orphans(v) \subseteq Inodes  BY OrphansIs
<1>3. OrphanListEnds(w)  BY <1>1, <1>2 DEF ListOK, OrphanListEnds
<1>. QED  BY <1>1, <1>3 DEF ListOK

\* An inode linked at the head.
LEMMA LinkEffect ==
  ASSUME NEW v \in VolType, NEW w \in VolType, ListOK(v), NEW i \in Inodes, i \notin Orphans(v),
         w.head = i, w.ino[i].next = v.head,
         \A j \in Inodes : j # i => w.ino[j].next = v.ino[j].next,
         \A j \in Orphans(v) \cup {i} : w.ino[j].kind # "free"
  PROVE  Orphans(w) = Orphans(v) \cup {i} /\ ListOK(w)
<1>. DEFINE O == Orphans(v)
<1>1. O \subseteq Inodes /\ Linked(v, O)  BY OrphansIs
<1>2. v.ino[i].next = None  BY DEF ListOK
<1>3. Linked(w, O \cup {i})  BY <1>1 DEF Linked
<1>4. Orphans(w) \subseteq O \cup {i}  BY <1>1, <1>3, OrphansIs
<1>5. ASSUME NEW S \in SUBSET Inodes, Linked(w, S)  PROVE O \cup {i} \subseteq S
  <2>1. i \in S  BY <1>5, Numbers DEF Linked
  <2>2. Linked(v, S)  BY <2>1, <1>5, <1>2 DEF Linked
  <2>. QED  BY <2>1, <2>2, OrphansIs
<1>6. Orphans(w) = O \cup {i}
  <2>1. O \cup {i} \subseteq Orphans(w)  BY <1>5, OrphansIs
  <2>. QED  BY <2>1, <1>4
<1>7. \A j \in Inodes : v.ino[j].next # i
  BY <1>1, Numbers DEF ListOK, Linked
<1>8. v.head # i  BY <1>1, Numbers DEF Linked
<1>9. OrphanListEnds(w)
  <2>1. CASE O = {}
    <3>1. w.ino[i].next = None  BY <2>1, <1>1 DEF Linked
    <3>. QED  BY <3>1, <1>6 DEF OrphanListEnds
  <2>2. CASE O # {}
    <3>1. PICK e \in O : v.ino[e].next = None  BY <2>2 DEF ListOK, OrphanListEnds
    <3>2. w.ino[e].next = None  BY <3>1, <1>1
    <3>. QED  BY <3>2, <1>6 DEF OrphanListEnds
  <2>. QED  BY <2>1, <2>2
<1>10. ASSUME NEW j \in Inodes, w.ino[j].next # None  PROVE j \in Orphans(w) /\ w.ino[j].next # w.head
  <2>1. CASE j = i  BY <2>1, <1>6, <1>8
  <2>2. CASE j # i  BY <2>2, <1>10, <1>6, <1>7 DEF ListOK
  <2>. QED  BY <2>1, <2>2
<1>11. ASSUME NEW j \in Inodes, NEW k \in Inodes, w.ino[j].next # None, w.ino[j].next = w.ino[k].next
       PROVE  j = k
  <2>1. CASE j = i /\ k # i  BY <2>1, <1>11 DEF ListOK
  <2>2. CASE j # i /\ k = i  BY <2>2, <1>11 DEF ListOK
  <2>3. CASE j # i /\ k # i  BY <2>3, <1>11 DEF ListOK
  <2>. QED  BY <2>1, <2>2, <2>3
<1>. QED  BY <1>6, <1>9, <1>10, <1>11 DEF ListOK

\* Nothing on the list is linked to itself, and all but the head follows something.
LEMMA Preceded ==
  ASSUME NEW v \in VolType, ListOK(v), NEW i \in Orphans(v)
  PROVE  /\ v.ino[i].next # i
         /\ v.head # i => \E j \in Orphans(v) : j # i /\ v.ino[j].next = i
<1>. DEFINE O == Orphans(v)
<1>1. O \subseteq Inodes /\ Linked(v, O)  BY OrphansIs
<1>2. i # None  BY <1>1, Numbers
<1>3. v.head # i => \E j \in O : j # i /\ v.ino[j].next = i
  <2>. SUFFICES ASSUME v.head # i, \A j \in O : j # i => v.ino[j].next # i  PROVE FALSE
    OBVIOUS
  <2>1. Linked(v, O \ {i})  BY <1>1 DEF Linked
  <2>. QED  BY <2>1, <1>1, OrphansIs
<1>4. v.ino[i].next # i
  <2>. SUFFICES ASSUME v.ino[i].next = i  PROVE FALSE  OBVIOUS
  <2>1. v.head # i  BY <1>1, <1>2 DEF ListOK
  <2>2. PICK j \in O : j # i /\ v.ino[j].next = i  BY <2>1, <1>3
  <2>3. i \in Inodes /\ j \in Inodes  BY <1>1
  <2>. QED  BY <2>2, <2>3, <1>2 DEF ListOK
<1>. QED  BY <1>3, <1>4

\* An inode taken off the list.
LEMMA UnlinkEffect ==
  ASSUME NEW v \in VolType, NEW w \in VolType, ListOK(v), NEW i \in Orphans(v),
         w.head = (IF v.head = i THEN v.ino[i].next ELSE v.head),
         \A j \in Inodes : w.ino[j].next = IF j = i THEN None
                                            ELSE IF v.ino[j].next = i THEN v.ino[i].next ELSE v.ino[j].next,
         \A j \in Orphans(v) \ {i} : w.ino[j].kind # "free"
  PROVE  Orphans(w) = Orphans(v) \ {i} /\ ListOK(w)
<1>. DEFINE O == Orphans(v)
<1>1. O \subseteq Inodes /\ Linked(v, O) /\ i \in Inodes /\ i # None  BY OrphansIs, Numbers
<1>2. v.ino[i].next # i  BY Preceded
<1>3. Linked(w, O \ {i})
  <2>1. v.ino[i].next \in (O \ {i}) \cup {None}  BY <1>1, <1>2 DEF Linked
  <2>2. w.head \in (O \ {i}) \cup {None}  BY <2>1, <1>1 DEF Linked
  <2>3. ASSUME NEW j \in O \ {i}  PROVE w.ino[j].next \in (O \ {i}) \cup {None}
    <3>1. j \in Inodes /\ v.ino[j].next \in O \cup {None}  BY <1>1 DEF Linked
    <3>. QED  BY <3>1, <2>1
  <2>. QED  BY <2>2, <2>3 DEF Linked
<1>4. Orphans(w) \subseteq O \ {i}  BY <1>1, <1>3, OrphansIs
<1>5. ASSUME NEW S \in SUBSET Inodes, Linked(w, S)  PROVE O \ {i} \subseteq S
  <2>1. CASE v.head = i \/ \E j \in S : j # i /\ v.ino[j].next = i
    <3>1. v.ino[i].next \in S \cup {None}
      <4>1. CASE v.head = i  BY <4>1, <1>5 DEF Linked
      <4>2. CASE \E j \in S : j # i /\ v.ino[j].next = i
        <5>1. PICK j \in S : j # i /\ v.ino[j].next = i  BY <4>2
        <5>2. w.ino[j].next = v.ino[i].next  BY <5>1
        <5>. QED  BY <5>1, <5>2, <1>5 DEF Linked
      <4>. QED  BY <4>1, <4>2, <2>1
    <3>2. Linked(v, S \cup {i})
      <4>1. v.head \in S \cup {i, None}  BY <1>5 DEF Linked
      <4>2. ASSUME NEW j \in S \cup {i}  PROVE v.ino[j].next \in S \cup {i, None}
        <5>1. CASE j = i  BY <5>1, <3>1
        <5>2. CASE j # i  BY <5>2, <1>5 DEF Linked
        <5>. QED  BY <5>1, <5>2
      <4>. QED  BY <4>1, <4>2 DEF Linked
    <3>3. S \cup {i} \in SUBSET Inodes  BY <1>1
    <3>4. O \subseteq S \cup {i}  BY <3>2, <3>3, OrphansIs
    <3>. QED  BY <3>4
  <2>2. CASE v.head # i /\ \A j \in S : j # i => v.ino[j].next # i
    <3>1. Linked(v, S \ {i})
      <4>1. v.head \in (S \ {i}) \cup {None}  BY <2>2, <1>5 DEF Linked
      <4>2. ASSUME NEW j \in S \ {i}  PROVE v.ino[j].next \in (S \ {i}) \cup {None}
        <5>1. j \in Inodes /\ v.ino[j].next # i  BY <2>2
        <5>2. w.ino[j].next = v.ino[j].next  BY <5>1
        <5>. QED  BY <5>1, <5>2, <1>5 DEF Linked
      <4>. QED  BY <4>1, <4>2 DEF Linked
    <3>2. O \subseteq S \ {i}  BY <3>1, OrphansIs
    <3>. QED  BY <3>2
  <2>. QED  BY <2>1, <2>2
<1>6. Orphans(w) = O \ {i}
  <2>1. O \ {i} \subseteq Orphans(w)  BY <1>5, OrphansIs
  <2>. QED  BY <2>1, <1>4
<1>7. OrphanListEnds(w)
  <2>. SUFFICES ASSUME Orphans(w) # {}  PROVE \E e \in Orphans(w) : w.ino[e].next = None
    BY <1>6 DEF OrphanListEnds
  <2>1. PICK e \in O : v.ino[e].next = None  BY <1>6 DEF ListOK, OrphanListEnds
  <2>2. CASE e # i
    <3>1. w.ino[e].next = None  BY <2>1, <2>2, <1>1
    <3>. QED  BY <3>1, <2>2, <1>6
  <2>3. CASE e = i /\ v.head = i
    <3>1. Linked(w, {})  BY <2>1, <2>3 DEF Linked
    <3>2. Orphans(w) \subseteq {}  BY <3>1, OrphansIs
    <3>. QED  BY <3>2
  <2>4. CASE e = i /\ v.head # i
    <3>1. PICK j \in O : j # i /\ v.ino[j].next = i  BY <2>4, Preceded
    <3>2. w.ino[j].next = None  BY <3>1, <2>1, <2>4, <1>1
    <3>. QED  BY <3>1, <3>2, <1>6
  <2>. QED  BY <2>2, <2>3, <2>4
<1>8. ASSUME NEW j \in Inodes, w.ino[j].next # None  PROVE j \in Orphans(w) /\ w.ino[j].next # w.head
  <2>1. j # i /\ v.ino[j].next # None  BY <1>8, <1>1
  <2>2. j \in O /\ v.ino[j].next # v.head  BY <2>1 DEF ListOK
  <2>3. w.ino[j].next # w.head
    <3>1. CASE v.head = i
      <4>1. w.head = v.ino[i].next /\ w.ino[j].next = v.ino[j].next  BY <3>1, <2>1, <2>2
      <4>. QED  BY <4>1, <2>1, <1>1 DEF ListOK
    <3>2. CASE v.head # i
      <4>1. w.head = v.head  BY <3>2
      <4>2. CASE v.ino[j].next = i
        <5>1. w.ino[j].next = v.ino[i].next  BY <4>2, <2>1
        <5>. QED  BY <5>1, <4>1, <1>8, <1>1 DEF ListOK
      <4>3. CASE v.ino[j].next # i
        <5>1. w.ino[j].next = v.ino[j].next  BY <4>3, <2>1
        <5>. QED  BY <5>1, <4>1, <2>2
      <4>. QED  BY <4>2, <4>3
    <3>. QED  BY <3>1, <3>2
  <2>. QED  BY <2>1, <2>2, <2>3, <1>6
<1>9. ASSUME NEW j \in Inodes, NEW k \in Inodes, w.ino[j].next # None, w.ino[j].next = w.ino[k].next
      PROVE  j = k
  <2>1. j # i /\ k # i  BY <1>9
  <2>2. CASE v.ino[j].next = i /\ v.ino[k].next = i  BY <2>2, <1>1 DEF ListOK
  <2>3. CASE v.ino[j].next = i /\ v.ino[k].next # i
    <3>1. v.ino[i].next # None /\ v.ino[i].next = v.ino[k].next  BY <2>3, <2>1, <1>9
    <3>. QED  BY <3>1, <2>1, <1>1 DEF ListOK
  <2>4. CASE v.ino[j].next # i /\ v.ino[k].next = i
    <3>1. v.ino[j].next # None /\ v.ino[j].next = v.ino[i].next  BY <2>4, <2>1, <1>9
    <3>. QED  BY <3>1, <2>1, <1>1 DEF ListOK
  <2>5. CASE v.ino[j].next # i /\ v.ino[k].next # i
    <3>1. v.ino[j].next # None /\ v.ino[j].next = v.ino[k].next  BY <2>5, <2>1, <1>9
    <3>. QED  BY <3>1 DEF ListOK
  <2>. QED  BY <2>2, <2>3, <2>4, <2>5
<1>. QED  BY <1>6, <1>7, <1>8, <1>9 DEF ListOK

----------------------------------------------------------------------------
(* Changes to a volume. *)

\* Names lead to the same where the named files are the same up to their sizes.
LEMMA TreeSame ==
  ASSUME NEW v \in VolType, NEW w \in VolType, w.name = v.name,
         \A i \in Named(v) : /\ w.ino[i].size = v.ino[i].size
                             /\ \A x \in Idx : x < v.ino[i].size => Ref(w, i, x) = Ref(v, i, x)
  PROVE  Tree(w) = Tree(v)
<1>. DEFINE Shown(u, i) == <<i, u.ino[i].size,
                {<<x, Bmap(u, i, x)>> : x \in {y \in Idx : y < u.ino[i].size /\ Bmap(u, i, y) # None}}>>
<1>1. ASSUME NEW i \in Named(v)  PROVE Shown(w, i) = Shown(v, i)
  <2>1. w.ino[i].size = v.ino[i].size  BY <1>1
  <2>2. \A x \in Idx : x < v.ino[i].size => Bmap(w, i, x) = Bmap(v, i, x)  BY <1>1, RefIdx
  <2>3. {<<x, Bmap(w, i, x)>> : x \in {y \in Idx : y < w.ino[i].size /\ Bmap(w, i, y) # None}}
        = {<<x, Bmap(v, i, x)>> : x \in {y \in Idx : y < v.ino[i].size /\ Bmap(v, i, y) # None}}
    <3>. DEFINE X == {y \in Idx : y < v.ino[i].size /\ Bmap(v, i, y) # None}
    <3>1. {y \in Idx : y < w.ino[i].size /\ Bmap(w, i, y) # None} = X  BY <2>1, <2>2
    <3>2. \A x \in X : <<x, Bmap(w, i, x)>> = <<x, Bmap(v, i, x)>>  BY <2>2
    <3>. HIDE DEF X
    <3>3. {<<x, Bmap(w, i, x)>> : x \in X} = {<<x, Bmap(v, i, x)>> : x \in X}  BY <3>2
    <3>. QED  BY <3>1, <3>3 DEF X
  <2>. QED  BY <2>1, <2>3
<1>2. ASSUME NEW n \in Names, v.name[n] # None  PROVE v.name[n] \in Named(v)  BY <1>2 DEF Named
<1>. HIDE DEF Shown
<1>3. \A n \in Names : (IF v.name[n] = None THEN None ELSE Shown(w, v.name[n]))
                       = (IF v.name[n] = None THEN None ELSE Shown(v, v.name[n]))
  BY <1>1, <1>2
<1>4. Tree(w) = [n \in Names |-> IF v.name[n] = None THEN None ELSE Shown(w, v.name[n])]
  BY DEF Tree, Shown
<1>5. Tree(v) = [n \in Names |-> IF v.name[n] = None THEN None ELSE Shown(v, v.name[n])]
  BY DEF Tree, Shown
<1>. QED  BY <1>3, <1>4, <1>5

\* One inode replaced, or given a size.
WithInode(v, i, node) == [v EXCEPT !.ino[i] = node]
WithSize(v, i, z)     == [v EXCEPT !.ino[i].size = z]

LEMMA SetInode ==
  ASSUME NEW v \in VolType, NEW i \in All, NEW node \in InodeType, NEW w, w = WithInode(v, i, node)
  PROVE  /\ w \in VolType /\ w.name = v.name /\ w.head = v.head /\ w.used = v.used /\ w.ent = v.ent
         /\ w.ino[i] = node /\ \A j \in All : j # i => w.ino[j] = v.ino[j]
<1>1. v.ino \in [All -> InodeType]  BY VolParts
<1>2. /\ w \in VolType /\ w.name = v.name /\ w.head = v.head /\ w.used = v.used /\ w.ent = v.ent
      /\ w.ino = [v.ino EXCEPT ![i] = node]
  BY <1>1 DEF VolType, WithInode
<1>. QED  BY <1>1, <1>2

\* The same block maps.
LEMMA MapsSame ==
  ASSUME NEW v, NEW w, NEW i, w.ent = v.ent,
         w.ino[i].direct = v.ino[i].direct, w.ino[i].single = v.ino[i].single
  PROVE  \A x \in Refs : Ref(w, i, x) = Ref(v, i, x)
<1>. TAKE x \in Refs
<1>1. CASE x = Top  BY <1>1, RefTop
<1>2. CASE x \in 0 .. Direct - 1  BY <1>2, RefDirect
<1>3. CASE x \in Idx /\ x >= Direct  BY <1>3, RefSingle
<1>. QED  BY <1>1, <1>2, <1>3, Places

LEMMA SetSize ==
  ASSUME NEW v \in VolType, NEW i \in All, NEW z \in 0 .. Direct + Per, NEW w, w = WithSize(v, i, z)
  PROVE  /\ w \in VolType /\ w.name = v.name /\ w.head = v.head /\ w.used = v.used
         /\ w.ino[i].size = z /\ \A j \in All : j # i => w.ino[j].size = v.ino[j].size
         /\ \A j \in All : SameInode(v, w, j) /\ \A x \in Refs : Ref(w, j, x) = Ref(v, j, x)
<1>. DEFINE node == [v.ino[i] EXCEPT !.size = z]
<1>1. v.ino[i] \in InodeType /\ v.ino \in [All -> InodeType]  BY VolParts
<1>2. node \in InodeType /\ node.size = z /\ node.kind = v.ino[i].kind /\ node.nlink = v.ino[i].nlink
      /\ node.next = v.ino[i].next /\ node.direct = v.ino[i].direct /\ node.single = v.ino[i].single
  BY <1>1 DEF InodeType
<1>3. w = WithInode(v, i, node)  BY <1>1 DEF VolType, WithInode, WithSize
<1>. HIDE DEF node
<1>4. /\ w \in VolType /\ w.name = v.name /\ w.head = v.head /\ w.used = v.used /\ w.ent = v.ent
      /\ w.ino[i] = node /\ \A j \in All : j # i => w.ino[j] = v.ino[j]
  <2>1. node \in InodeType  BY <1>2
  <2>. QED  BY <2>1, <1>3, SetInode
<1>5. \A j \in All : SameInode(v, w, j) /\ w.ino[j].direct = v.ino[j].direct /\ w.ino[j].single = v.ino[j].single
  BY <1>4, <1>2 DEF SameInode
<1>6. ASSUME NEW j \in All  PROVE \A x \in Refs : Ref(w, j, x) = Ref(v, j, x)
  <2>1. w.ent = v.ent /\ w.ino[j].direct = v.ino[j].direct /\ w.ino[j].single = v.ino[j].single  BY <1>4, <1>5
  <2>. QED  BY <2>1, MapsSame, ZenonT(60)
<1>. QED  BY <1>2, <1>4, <1>5, <1>6

LEMMA RefsSame ==
  ASSUME NEW v \in VolType, NEW w \in VolType, RefsOK(v), NoDirectoryHole(v),
         w.used = v.used, w.ino[Root].size = v.ino[Root].size,
         \A i \in All, x \in Refs : Ref(w, i, x) = Ref(v, i, x),
         \A i \in Inodes : w.ino[i].kind = "free" => \A x \in Refs : Ref(w, i, x) = None
  PROVE  RefsOK(w) /\ NoDirectoryHole(w)
<1>1. \A b : b \in Used(w) <=> b \in Used(v)  BY UsedIs
<1>2. Used(w) = Used(v)  BY <1>1
<1>3. NoSharedBlock(w)
  <2>1. NoSharedBlock(v)  BY DEF RefsOK
  <2>. QED  BY <2>1, UsedIs
<1>4. NoDirectoryHole(w)
  <2>1. Root \in All /\ \A x \in Idx : x \in Refs  BY Numbers DEF All
  <2>. QED  BY <2>1, RefIdx DEF NoDirectoryHole
<1>. QED  BY <1>2, <1>3, <1>4 DEF RefsOK

LEMMA TrimmedSame ==
  ASSUME NEW v \in VolType, NEW w \in VolType, NEW i \in All, Trimmed(v, i), w.ino[i].size >= v.ino[i].size,
         \A x \in Refs : Ref(w, i, x) # None => Ref(v, i, x) # None
  PROVE  Trimmed(w, i)
<1>1. v.ino[i].size \in Int /\ w.ino[i].size \in Int  BY VolParts
<1>. SUFFICES ASSUME NEW x \in Refs, Ref(w, i, x) # None
              PROVE  (IF x = Top THEN Direct ELSE x) < w.ino[i].size
  BY DEF Trimmed
<1>2. (IF x = Top THEN Direct ELSE x) < v.ino[i].size  BY DEF Trimmed
<1>3. (IF x = Top THEN Direct ELSE x) \in Int  BY Numbers
<1>. QED  BY <1>1, <1>2, <1>3

\* File block x is mapped and lies within the size: the volume stays in order.
LEMMA Extended ==
  ASSUME NEW v, Sane(v), NEW i \in All, NEW x \in Idx, NEW s, NEW b, Serve(v, i, x, s, b),
         i \in Inodes => v.ino[i].kind # "free", NEW z \in 0 .. Direct + Per, z >= v.ino[i].size, z > x,
         i = Root => \A y \in Idx : y < z => y < v.ino[i].size \/ y = x,
         NEW w, w = WithSize(Mapped(v, i, x, s, b), i, z)
  PROVE  /\ Sane(w) /\ w.name = v.name /\ w.head = v.head /\ Orphans(w) = Orphans(v) /\ v.used \subseteq w.used
         /\ \A j \in All : SameInode(v, w, j) /\ (Trimmed(v, j) => Trimmed(w, j))
<1>. DEFINE u == Mapped(v, i, x, s, b)
<1>1. v \in VolType /\ v.used = Used(v) /\ NoSharedBlock(v)  BY DEF Sane, RefsOK
<1>2. /\ u \in VolType /\ u.name = v.name /\ u.head = v.head /\ v.used \subseteq u.used
      /\ \A j \in All : SameInode(v, u, j) /\ u.ino[j].size = v.ino[j].size
      /\ \A j \in All, y \in Refs :
           \/ Ref(u, j, y) = Ref(v, j, y)
           \/ j = i /\ (y = x \/ (y = Top /\ x >= Direct)) /\ Ref(v, j, y) = None /\ Ref(u, j, y) \in Blocks \ v.used
      /\ Ref(u, i, x) # None /\ u.used = Used(u) /\ NoSharedBlock(u)
  BY <1>1, MapEffect
<1>. HIDE DEF u
<1>3. w = WithSize(u, i, z)  BY DEF u
<1>4. /\ w \in VolType /\ w.name = v.name /\ w.head = v.head /\ w.used = u.used
      /\ w.ino[i].size = z /\ \A j \in All : j # i => w.ino[j].size = v.ino[j].size
      /\ \A j \in All : SameInode(u, w, j) /\ \A y \in Refs : Ref(w, j, y) = Ref(u, j, y)
  BY <1>2, <1>3, SetSize
<1>5. \A j \in All : SameInode(v, w, j)  BY <1>2, <1>4 DEF SameInode
<1>6. \A j \in All, y \in Refs :
        \/ Ref(w, j, y) = Ref(v, j, y)
        \/ j = i /\ (y = x \/ (y = Top /\ x >= Direct)) /\ Ref(v, j, y) = None
  BY <1>2, <1>4
<1>7. \A j \in Inodes : j \in All  BY DEF All
<1>8. RefsOK(w)
  <2>1. \A c : c \in Used(w) <=> c \in Used(u)  BY <1>2, <1>4, UsedIs
  <2>2. Used(w) = Used(u)  BY <2>1
  <2>3. NoSharedBlock(w)  BY <1>2, <1>4, UsedIs
  <2>4. ASSUME NEW j \in Inodes, NEW y \in Refs, w.ino[j].kind = "free"  PROVE Ref(w, j, y) = None
    <3>1. v.ino[j].kind = "free" /\ j # i  BY <2>4, <1>5, <1>7 DEF SameInode
    <3>2. Ref(v, j, y) = None  BY <3>1 DEF Sane, RefsOK
    <3>. QED  BY <3>1, <3>2, <1>6, <1>7
  <2>. QED  BY <2>2, <2>3, <2>4, <1>2, <1>4 DEF RefsOK
<1>9. Orphans(w) = Orphans(v) /\ ListOK(w)
  <2>1. ListOK(v)  BY DEF Sane
  <2>2. \A j \in Inodes : w.ino[j].next = v.ino[j].next /\ w.ino[j].kind = v.ino[j].kind
    BY <1>5, <1>7 DEF SameInode
  <2>3. Orphans(v) \subseteq Inodes /\ \A j \in Orphans(v) : v.ino[j].kind # "free"
    BY <2>1, <1>1, OrphansIs DEF ListOK, OrphanListEnds
  <2>4. \A j \in Orphans(v) : w.ino[j].kind # "free"  BY <2>2, <2>3
  <2>5. w.head = v.head /\ w \in VolType /\ \A j \in Inodes : w.ino[j].next = v.ino[j].next  BY <2>2, <1>4
  <2>. QED  BY <2>1, <2>4, <2>5, <1>1, ListSame
<1>10. \A y \in Idx : y \in Refs /\ y \in Int /\ y # Top  BY Numbers
<1>11. NoDirectoryHole(w)
  <2>. SUFFICES ASSUME NEW y \in Idx, y < w.ino[Root].size  PROVE Ref(w, Root, y) # None
    BY RefIdx DEF NoDirectoryHole
  <2>1. Root \in All  BY DEF All
  <2>2. \A c \in Idx : c < v.ino[Root].size => Ref(v, Root, c) # None
    BY RefIdx DEF Sane, NoDirectoryHole
  <2>3. CASE i = Root
    <3>1. y < v.ino[i].size \/ y = x  BY <2>3, <1>4
    <3>2. CASE y < v.ino[i].size  BY <3>2, <2>1, <2>2, <2>3, <1>6, <1>10
    <3>3. CASE y = x  BY <3>3, <2>3, <1>2, <1>4, <1>10
    <3>. QED  BY <3>1, <3>2, <3>3
  <2>4. CASE i # Root
    <3>1. y < v.ino[Root].size  BY <2>1, <2>4, <1>4
    <3>. QED  BY <3>1, <2>1, <2>2, <2>4, <1>6, <1>10
  <2>. QED  BY <2>3, <2>4
<1>12. ASSUME NEW j \in All, Trimmed(v, j)  PROVE Trimmed(w, j)
  <2>. SUFFICES ASSUME NEW y \in Refs, Ref(w, j, y) # None
                PROVE  (IF y = Top THEN Direct ELSE y) < w.ino[j].size
    BY DEF Trimmed
  <2>1. v.ino[j].size \in Int /\ w.ino[j].size \in Int /\ w.ino[j].size >= v.ino[j].size
    <3>1. v.ino[j].size \in Int /\ w.ino[j].size \in Int  BY <1>1, <1>4, VolParts
    <3>2. CASE j = i  BY <3>1, <3>2, <1>4
    <3>3. CASE j # i  BY <3>1, <3>3, <1>4
    <3>. QED  BY <3>1, <3>2, <3>3
  <2>2. CASE Ref(v, j, y) # None
    <3>1. (IF y = Top THEN Direct ELSE y) < v.ino[j].size  BY <2>2, <1>12 DEF Trimmed
    <3>2. (IF y = Top THEN Direct ELSE y) \in Int  BY Numbers
    <3>. QED  BY <3>1, <3>2, <2>1
  <2>3. CASE Ref(v, j, y) = None
    <3>1. j = i /\ (y = x \/ (y = Top /\ x >= Direct))  BY <2>3, <1>6
    <3>2. w.ino[j].size = z  BY <3>1, <1>4
    <3>. QED  BY <3>1, <3>2, <1>10, Numbers
  <2>. QED  BY <2>2, <2>3
<1>13. \A j \in All : j \in Orphans(w) \/ Trimmed(w, j)  BY <1>9, <1>12 DEF Sane
<1>. QED  BY <1>2, <1>4, <1>5, <1>8, <1>9, <1>11, <1>12, <1>13 DEF Sane

----------------------------------------------------------------------------
(* The operations on a volume. *)

LEMMA NamedIs ==
  ASSUME NEW v \in VolType
  PROVE  /\ Named(v) \subseteq Inodes
         /\ \A i : i \in Named(v) <=> i # None /\ \E n \in Names : v.name[n] = i
<1>1. v.name \in [Names -> Links]  BY VolParts
<1>. QED  BY <1>1 DEF Named, Links

LEMMA InodesSame ==
  ASSUME NEW v \in VolType, NEW w \in VolType, InodesOK(v), w.name = v.name, Orphans(w) = Orphans(v),
         \A j \in All : w.ino[j].kind = v.ino[j].kind /\ w.ino[j].nlink = v.ino[j].nlink
  PROVE  InodesOK(w)
<1>1. Named(w) = Named(v) /\ Named(v) \subseteq Inodes  BY NamedIs DEF Named
<1>2. Root \in All /\ \A i \in Inodes : i \in All  BY DEF All
<1>3. NoLeakedInode(w)  BY <1>1, <1>2 DEF InodesOK, NoLeakedInode
<1>4. NamedLive(w)  BY <1>1, <1>2 DEF InodesOK, NamedLive
<1>5. NamedOnce(w)  BY DEF InodesOK, NamedOnce
<1>. QED  BY <1>1, <1>2, <1>3, <1>4, <1>5 DEF InodesOK

\* An inode put at the head of the list.
LEMMA SetHead ==
  ASSUME NEW v \in VolType, NEW i \in Inodes, NEW w, w = OrphanLink(v, i)
  PROVE  /\ w \in VolType /\ w.name = v.name /\ w.head = i /\ w.used = v.used
         /\ w.ino[i].next = v.head /\ \A j \in All : j # i => w.ino[j].next = v.ino[j].next
         /\ \A j \in All : /\ w.ino[j].kind = v.ino[j].kind /\ w.ino[j].nlink = v.ino[j].nlink
                           /\ w.ino[j].size = v.ino[j].size
                           /\ \A x \in Refs : Ref(w, j, x) = Ref(v, j, x)
<1>. DEFINE node == [v.ino[i] EXCEPT !.next = v.head]
<1>1. i \in All /\ i \in Links  BY DEF All, Links
<1>2. v.ino[i] \in InodeType /\ v.ino \in [All -> InodeType] /\ v.head \in Links  BY <1>1, VolParts
<1>3. node \in InodeType /\ node.size = v.ino[i].size /\ node.kind = v.ino[i].kind /\ node.nlink = v.ino[i].nlink
      /\ node.next = v.head /\ node.direct = v.ino[i].direct /\ node.single = v.ino[i].single
  BY <1>2 DEF InodeType
<1>4. w = [v EXCEPT !.ino[i] = node, !.head = i]  BY <1>2 DEF VolType, OrphanLink
<1>. HIDE DEF node
<1>5. /\ w \in VolType /\ w.name = v.name /\ w.head = i /\ w.used = v.used /\ w.ent = v.ent
      /\ w.ino = [v.ino EXCEPT ![i] = node]
  <2>1. [v.ino EXCEPT ![i] = node] \in [All -> InodeType]  BY <1>2, <1>3
  <2>2. w = [name |-> v.name, head |-> i, used |-> v.used, ino |-> [v.ino EXCEPT ![i] = node], ent |-> v.ent]
    BY <1>4 DEF VolType
  <2>. QED  BY <2>1, <2>2, <1>1 DEF VolType
<1>6. w.ino[i] = node /\ \A j \in All : j # i => w.ino[j] = v.ino[j]  BY <1>1, <1>2, <1>5
<1>7. \A j \in All : /\ w.ino[j].kind = v.ino[j].kind /\ w.ino[j].nlink = v.ino[j].nlink
                     /\ w.ino[j].size = v.ino[j].size
                     /\ w.ino[j].direct = v.ino[j].direct /\ w.ino[j].single = v.ino[j].single
  BY <1>3, <1>6
<1>8. ASSUME NEW j \in All  PROVE \A x \in Refs : Ref(w, j, x) = Ref(v, j, x)
  <2>1. w.ent = v.ent /\ w.ino[j].direct = v.ino[j].direct /\ w.ino[j].single = v.ino[j].single  BY <1>5, <1>7
  <2>. QED  BY <2>1, MapsSame
<1>. QED  BY <1>1, <1>3, <1>5, <1>6, <1>7, <1>8

\* An inode taken off the list.
LEMMA UnsetNext ==
  ASSUME NEW v \in VolType, ListOK(v), NEW i \in Orphans(v), NEW w, w = OrphanUnlink(v, i)
  PROVE  /\ w \in VolType /\ w.name = v.name /\ w.used = v.used /\ w.ent = v.ent
         /\ w.head = (IF v.head = i THEN v.ino[i].next ELSE v.head)
         /\ \A j \in Inodes : w.ino[j].next = IF j = i THEN None
                                ELSE IF v.ino[j].next = i THEN v.ino[i].next ELSE v.ino[j].next
         /\ \A j \in All : /\ w.ino[j].kind = v.ino[j].kind /\ w.ino[j].nlink = v.ino[j].nlink
                           /\ w.ino[j].size = v.ino[j].size
                           /\ \A x \in Refs : Ref(w, j, x) = Ref(v, j, x)
<1>1. i \in Inodes /\ i \in All /\ i # None /\ None \in Links  BY OrphansIs, Numbers DEF All, Links
<1>2. /\ v.ino \in [All -> InodeType] /\ v.head \in Links
      /\ v.ino[i].next \in Links /\ \A j \in All : v.ino[j] \in InodeType
  BY <1>1, VolParts
<1>. DEFINE Node(j) == IF j = i THEN [v.ino[j] EXCEPT !.next = None]
                       ELSE IF v.ino[j].next = i THEN [v.ino[j] EXCEPT !.next = v.ino[i].next] ELSE v.ino[j]
<1>3. ASSUME NEW j \in All
      PROVE  /\ Node(j) \in InodeType /\ Node(j).kind = v.ino[j].kind /\ Node(j).nlink = v.ino[j].nlink
             /\ Node(j).size = v.ino[j].size /\ Node(j).direct = v.ino[j].direct /\ Node(j).single = v.ino[j].single
             /\ Node(j).next = IF j = i THEN None
                               ELSE IF v.ino[j].next = i THEN v.ino[i].next ELSE v.ino[j].next
  <2>1. v.ino[j] \in InodeType  BY <1>2
  <2>2. CASE j = i  BY <2>1, <2>2, <1>1 DEF InodeType
  <2>3. CASE j # i /\ v.ino[j].next = i  BY <2>1, <2>3, <1>2 DEF InodeType
  <2>4. CASE j # i /\ v.ino[j].next # i  BY <2>1, <2>4
  <2>. QED  BY <2>2, <2>3, <2>4
<1>4. CASE v.head = i
  <2>. DEFINE node == [v.ino[i] EXCEPT !.next = None]
  <2>1. w = [name |-> v.name, head |-> v.ino[i].next, used |-> v.used,
             ino |-> [v.ino EXCEPT ![i] = node], ent |-> v.ent]
    BY <1>4, <1>2 DEF VolType, OrphanUnlink
  <2>2. node \in InodeType /\ node = Node(i)  BY <1>1, <1>3
  <2>. HIDE DEF node
  <2>3. [v.ino EXCEPT ![i] = node] \in [All -> InodeType]  BY <2>2, <1>2
  <2>4. w \in VolType /\ w.name = v.name /\ w.used = v.used /\ w.ent = v.ent /\ w.head = v.ino[i].next
        /\ w.ino = [v.ino EXCEPT ![i] = node]
    BY <2>1, <2>3, <1>2 DEF VolType
  <2>5. \A j \in Inodes : v.ino[j].next # i  BY <1>1, <1>4 DEF ListOK
  <2>6. w.ino[i] = node /\ \A j \in All : j # i => w.ino[j] = v.ino[j]  BY <2>4, <1>1, <1>2
  <2>7. \A j \in All : /\ w.ino[j].kind = v.ino[j].kind /\ w.ino[j].nlink = v.ino[j].nlink
                       /\ w.ino[j].size = v.ino[j].size
                       /\ w.ino[j].direct = v.ino[j].direct /\ w.ino[j].single = v.ino[j].single
    <3>. HIDE DEF Node
    <3>. QED  BY <2>2, <2>6, <1>1, <1>3
  <2>8. node.next = None  BY <2>2, <1>1, <1>3
  <2>9. \A j \in Inodes : w.ino[j].next = IF j = i THEN None
                            ELSE IF v.ino[j].next = i THEN v.ino[i].next ELSE v.ino[j].next
    BY <2>5, <2>6, <2>8 DEF All
  <2>10. ASSUME NEW j \in All  PROVE \A x \in Refs : Ref(w, j, x) = Ref(v, j, x)
    <3>1. w.ent = v.ent /\ w.ino[j].direct = v.ino[j].direct /\ w.ino[j].single = v.ino[j].single  BY <2>4, <2>7
    <3>. QED  BY <3>1, MapsSame, ZenonT(60)
  <2>. QED  BY <2>4, <2>7, <2>9, <2>10, <1>4
<1>5. CASE v.head # i
  <2>1. w = [v EXCEPT !.ino = [j \in All |-> Node(j)]]
    <3>1. DOMAIN v.ino = All  BY <1>2
    <3>. QED  BY <3>1, <1>5 DEF OrphanUnlink
  <2>. HIDE DEF Node
  <2>2. [j \in All |-> Node(j)] \in [All -> InodeType]  BY <1>3
  <2>3. w \in VolType /\ w.name = v.name /\ w.used = v.used /\ w.ent = v.ent /\ w.head = v.head
        /\ w.ino = [j \in All |-> Node(j)]
    BY <2>1, <2>2 DEF VolType
  <2>4. \A j \in All : w.ino[j] = Node(j)  BY <2>3
  <2>5. \A j \in All : /\ w.ino[j].kind = v.ino[j].kind /\ w.ino[j].nlink = v.ino[j].nlink
                       /\ w.ino[j].size = v.ino[j].size
                       /\ w.ino[j].direct = v.ino[j].direct /\ w.ino[j].single = v.ino[j].single
    BY <2>4, <1>3
  <2>6. \A j \in Inodes : w.ino[j].next = IF j = i THEN None
                            ELSE IF v.ino[j].next = i THEN v.ino[i].next ELSE v.ino[j].next
    BY <2>4, <1>3 DEF All
  <2>7. ASSUME NEW j \in All  PROVE \A x \in Refs : Ref(w, j, x) = Ref(v, j, x)
    <3>1. w.ent = v.ent /\ w.ino[j].direct = v.ino[j].direct /\ w.ino[j].single = v.ino[j].single  BY <2>3, <2>5
    <3>. QED  BY <3>1, MapsSame, ZenonT(60)
  <2>. QED  BY <2>3, <2>5, <2>6, <2>7, <1>5
<1>. QED  BY <1>4, <1>5

\* The bitmap follows a reference that goes.
LEMMA RefsShrink ==
  ASSUME NEW v \in VolType, NEW w \in VolType, NEW i \in All, NEW x \in Refs,
         v.used = Used(v), NoSharedBlock(v), Ref(v, i, x) # None,
         Ref(w, i, x) = None, \A j \in All, y \in Refs : j # i \/ y # x => Ref(w, j, y) = Ref(v, j, y),
         w.used = v.used \ {Ref(v, i, x)}
  PROVE  w.used = Used(w) /\ NoSharedBlock(w)
<1>1. \A c : c \in w.used <=> c \in Used(w)
  <2>. TAKE c
  <2>1. ASSUME c \in w.used  PROVE c \in Used(w)
    <3>1. c \in Used(v) /\ c # Ref(v, i, x)  BY <2>1
    <3>2. PICK j \in All, y \in Refs : c = Ref(v, j, y)  BY <3>1, UsedIs
    <3>3. c # None /\ c = Ref(w, j, y)  BY <3>1, <3>2, UsedIs
    <3>. QED  BY <3>3, UsedIs
  <2>2. ASSUME c \in Used(w)  PROVE c \in w.used
    <3>1. PICK j \in All, y \in Refs : c = Ref(w, j, y) /\ c # None  BY <2>2, UsedIs
    <3>2. (j # i \/ y # x) /\ c = Ref(v, j, y)  BY <3>1
    <3>3. c \in Used(v) /\ c # Ref(v, i, x)  BY <3>1, <3>2, UsedIs
    <3>. QED  BY <3>3
  <2>. QED  BY <2>1, <2>2
<1>2. NoSharedBlock(w)
  <2>. SUFFICES ASSUME NEW j \in All, NEW k \in All, NEW y \in Refs, NEW z \in Refs,
                       Ref(w, j, y) # None, Ref(w, j, y) = Ref(w, k, z)
                PROVE  j = k /\ y = z
    BY UsedIs
  <2>1. Ref(w, j, y) = Ref(v, j, y) /\ Ref(w, k, z) = Ref(v, k, z)  OBVIOUS
  <2>2. Ref(v, j, y) # None /\ Ref(v, j, y) = Ref(v, k, z)  BY <2>1
  <2>. QED  BY <2>2, UsedIs
<1>. QED  BY <1>1, <1>2

\* The names replaced, or one inode's count of them cleared.
WithNames(v, nm) == [v EXCEPT !.name = nm]
WithNoLink(v, i) == [v EXCEPT !.ino[i].nlink = 0]

LEMMA SetNames ==
  ASSUME NEW v \in VolType, NEW nm \in [Names -> Links], NEW w, w = WithNames(v, nm)
  PROVE  /\ w \in VolType /\ w.name = nm /\ w.head = v.head /\ w.used = v.used /\ w.ino = v.ino /\ w.ent = v.ent
         /\ \A j, x : Ref(w, j, x) = Ref(v, j, x)
<1>1. w \in VolType /\ w.name = nm /\ w.head = v.head /\ w.used = v.used /\ w.ino = v.ino /\ w.ent = v.ent
  BY DEF WithNames, VolType
<1>. QED  BY <1>1 DEF Ref, Bmap

LEMMA SetNoLink ==
  ASSUME NEW v \in VolType, NEW i \in All, NEW w, w = WithNoLink(v, i)
  PROVE  /\ w \in VolType /\ w.name = v.name /\ w.head = v.head /\ w.used = v.used
         /\ w.ino[i].nlink = 0 /\ \A j \in All : j # i => w.ino[j].nlink = v.ino[j].nlink
         /\ \A j \in All : /\ w.ino[j].kind = v.ino[j].kind /\ w.ino[j].next = v.ino[j].next
                           /\ w.ino[j].size = v.ino[j].size
                           /\ \A x \in Refs : Ref(w, j, x) = Ref(v, j, x)
<1>. DEFINE node == [v.ino[i] EXCEPT !.nlink = 0]
<1>1. v.ino[i] \in InodeType /\ v.ino \in [All -> InodeType]  BY VolParts
<1>2. node \in InodeType /\ node.nlink = 0 /\ node.kind = v.ino[i].kind /\ node.size = v.ino[i].size
      /\ node.next = v.ino[i].next /\ node.direct = v.ino[i].direct /\ node.single = v.ino[i].single
  BY <1>1 DEF InodeType
<1>3. w = WithInode(v, i, node)  BY <1>1 DEF VolType, WithInode, WithNoLink
<1>. HIDE DEF node
<1>4. /\ w \in VolType /\ w.name = v.name /\ w.head = v.head /\ w.used = v.used /\ w.ent = v.ent
      /\ w.ino[i] = node /\ \A j \in All : j # i => w.ino[j] = v.ino[j]
  <2>1. node \in InodeType  BY <1>2
  <2>. QED  BY <2>1, <1>3, SetInode
<1>5. \A j \in All : /\ w.ino[j].kind = v.ino[j].kind /\ w.ino[j].next = v.ino[j].next
                     /\ w.ino[j].size = v.ino[j].size
                     /\ w.ino[j].direct = v.ino[j].direct /\ w.ino[j].single = v.ino[j].single
  BY <1>4, <1>2
<1>6. ASSUME NEW j \in All  PROVE \A x \in Refs : Ref(w, j, x) = Ref(v, j, x)
  <2>1. w.ent = v.ent /\ w.ino[j].direct = v.ino[j].direct /\ w.ino[j].single = v.ino[j].single  BY <1>4, <1>5
  <2>. QED  BY <2>1, MapsSame, SMTT(30)
<1>. QED  BY <1>2, <1>4, <1>5, <1>6

\* What the next lemmas have of a volume that is whole.
LEMMA WholeFacts ==
  ASSUME NEW v, Whole(v)
  PROVE  /\ Sane(v) /\ v \in VolType /\ RefsOK(v) /\ ListOK(v) /\ NoDirectoryHole(v) /\ InodesOK(v)
         /\ v.used = Used(v) /\ NoSharedBlock(v)
         /\ \A i \in All : i \in Orphans(v) \/ Trimmed(v, i)
         /\ Orphans(v) \subseteq Inodes /\ Named(v) \subseteq Inodes /\ Inodes \subseteq All /\ Root \in All \ Inodes
         /\ \A i \in Orphans(v) : v.ino[i].kind = "file"
         /\ \A i \in Named(v) : v.ino[i].kind = "file" /\ v.ino[i].nlink = 1
<1>1. /\ Sane(v) /\ v \in VolType /\ RefsOK(v) /\ ListOK(v) /\ NoDirectoryHole(v) /\ InodesOK(v)
      /\ \A i \in All : i \in Orphans(v) \/ Trimmed(v, i)
  BY DEF Whole, Sane
<1>2. v.used = Used(v) /\ NoSharedBlock(v)  BY <1>1 DEF RefsOK
<1>3. Orphans(v) \subseteq Inodes /\ Named(v) \subseteq Inodes /\ Inodes \subseteq All /\ Root \in All \ Inodes
  BY <1>1, OrphansIs, NamedIs, Numbers DEF All
<1>4. \A i \in Orphans(v) : v.ino[i].kind = "file"
  BY <1>1, <1>3 DEF ListOK, OrphanListEnds, InodesOK
<1>5. \A i \in Named(v) : v.ino[i].kind = "file" /\ v.ino[i].nlink = 1
  BY <1>1 DEF InodesOK, NamedLive
<1>. QED  BY <1>1, <1>2, <1>3, <1>4, <1>5

\* A named file unlinked is on the list, and the volume is whole.
LEMMA UnlinkWhole ==
  ASSUME NEW v, Whole(v), NEW i \in Named(v), i \notin Orphans(v), NEW nm \in [Names -> Links],
         \A j : (j # None /\ \E n \in Names : nm[n] = j) <=> j \in Named(v) /\ j # i,
         \A m, n \in Names : nm[m] # None /\ nm[m] = nm[n] => m = n,
         NEW w, w = Unlink(WithNames(v, nm), i)
  PROVE  /\ Whole(w) /\ w.used = v.used /\ w.name = nm /\ Orphans(w) = Orphans(v) \cup {i}
         /\ w.ino[i].nlink = 0
         /\ \A j \in All : /\ w.ino[j].kind = v.ino[j].kind /\ (j # i => w.ino[j].nlink = v.ino[j].nlink)
                           /\ w.ino[j].size = v.ino[j].size /\ (Trimmed(v, j) => Trimmed(w, j))
<1>1. /\ v \in VolType /\ RefsOK(v) /\ ListOK(v) /\ NoDirectoryHole(v) /\ InodesOK(v)
      /\ \A j \in All : j \in Orphans(v) \/ Trimmed(v, j)
      /\ Orphans(v) \subseteq Inodes /\ Named(v) \subseteq Inodes /\ Inodes \subseteq All /\ Root \in All \ Inodes
      /\ \A j \in Orphans(v) : v.ino[j].kind = "file"
      /\ \A j \in Named(v) : v.ino[j].kind = "file" /\ v.ino[j].nlink = 1
  BY WholeFacts
<1>2. i \in Inodes /\ i \in All  BY <1>1
<1>. DEFINE a == WithNames(v, nm)
            b == WithNoLink(a, i)
<1>3. a \in VolType /\ a.name = nm /\ a.head = v.head /\ a.used = v.used /\ a.ino = v.ino
      /\ \A j, x : Ref(a, j, x) = Ref(v, j, x)
  BY <1>1, SetNames
<1>. HIDE DEF a
<1>4. /\ b \in VolType /\ b.name = nm /\ b.head = v.head /\ b.used = v.used
      /\ b.ino[i].nlink = 0 /\ \A j \in All : j # i => b.ino[j].nlink = v.ino[j].nlink
      /\ \A j \in All : /\ b.ino[j].kind = v.ino[j].kind /\ b.ino[j].next = v.ino[j].next
                        /\ b.ino[j].size = v.ino[j].size /\ \A x \in Refs : Ref(b, j, x) = Ref(v, j, x)
  <2>1. /\ b \in VolType /\ b.name = a.name /\ b.head = a.head /\ b.used = a.used
        /\ b.ino[i].nlink = 0 /\ \A j \in All : j # i => b.ino[j].nlink = a.ino[j].nlink
        /\ \A j \in All : /\ b.ino[j].kind = a.ino[j].kind /\ b.ino[j].next = a.ino[j].next
                          /\ b.ino[j].size = a.ino[j].size /\ \A x \in Refs : Ref(b, j, x) = Ref(a, j, x)
    <3>1. a \in VolType  BY <1>3
    <3>. QED  BY <1>2, <3>1, SetNoLink
  <2>. QED  BY <2>1, <1>3
<1>5. w = OrphanLink(b, i)  BY DEF a, Unlink, WithNoLink
<1>. HIDE DEF b
<1>6. /\ w \in VolType /\ w.name = nm /\ w.head = i /\ w.used = v.used
      /\ w.ino[i].next = v.head /\ \A j \in All : j # i => w.ino[j].next = v.ino[j].next
      /\ \A j \in All : /\ w.ino[j].kind = b.ino[j].kind /\ w.ino[j].nlink = b.ino[j].nlink
                        /\ w.ino[j].size = b.ino[j].size /\ \A x \in Refs : Ref(w, j, x) = Ref(b, j, x)
  <2>1. /\ w \in VolType /\ w.name = b.name /\ w.head = i /\ w.used = b.used
        /\ w.ino[i].next = b.head /\ \A j \in All : j # i => w.ino[j].next = b.ino[j].next
        /\ \A j \in All : /\ w.ino[j].kind = b.ino[j].kind /\ w.ino[j].nlink = b.ino[j].nlink
                          /\ w.ino[j].size = b.ino[j].size /\ \A x \in Refs : Ref(w, j, x) = Ref(b, j, x)
    BY <1>2, <1>4, <1>5, SetHead
  <2>. QED  BY <2>1, <1>4
<1>7. \A j \in All : /\ w.ino[j].kind = v.ino[j].kind /\ w.ino[j].size = v.ino[j].size
                     /\ (j # i => w.ino[j].nlink = v.ino[j].nlink)
                     /\ \A x \in Refs : Ref(w, j, x) = Ref(v, j, x)
  BY <1>4, <1>6
<1>8. w.ino[i].nlink = 0  BY <1>2, <1>4, <1>6
<1>9. Orphans(w) = Orphans(v) \cup {i} /\ ListOK(w)
  <2>1. \A j \in Inodes : j # i => w.ino[j].next = v.ino[j].next  BY <1>1, <1>6
  <2>2. \A j \in Orphans(v) \cup {i} : w.ino[j].kind # "free"  BY <1>1, <1>2, <1>7
  <2>. QED  BY <2>1, <2>2, <1>1, <1>2, <1>6, LinkEffect
<1>10. RefsOK(w) /\ NoDirectoryHole(w)
  <2>1. \A j \in Inodes : w.ino[j].kind = "free" => \A x \in Refs : Ref(w, j, x) = None
    BY <1>1, <1>7 DEF RefsOK
  <2>2. w.ino[Root].size = v.ino[Root].size /\ \A j \in All, x \in Refs : Ref(w, j, x) = Ref(v, j, x)
    BY <1>1, <1>7
  <2>. QED  BY <2>1, <2>2, <1>1, <1>6, RefsSame
<1>11. ASSUME NEW j \in All, Trimmed(v, j)  PROVE Trimmed(w, j)
  BY <1>7, <1>11 DEF Trimmed
<1>12. InodesOK(w)
  <2>1. \A j : j \in Named(w) <=> j \in Named(v) /\ j # i  BY <1>6, NamedIs
  <2>2. NoLeakedInode(w)  BY <2>1, <1>1, <1>7, <1>9 DEF NoLeakedInode, InodesOK
  <2>3. NamedLive(w)  BY <2>1, <1>1, <1>7 DEF NamedLive
  <2>4. NamedOnce(w)  BY <1>6 DEF NamedOnce
  <2>5. ASSUME NEW j \in Inodes, w.ino[j].kind = "file", w.ino[j].nlink = 1  PROVE j \in Named(w)
    <3>1. j # i  BY <2>5, <1>8
    <3>2. v.ino[j].kind = "file" /\ v.ino[j].nlink = 1  BY <3>1, <2>5, <1>1, <1>7
    <3>. QED  BY <3>1, <3>2, <2>1, <1>1 DEF InodesOK
  <2>6. w.ino[Root].kind = "dir" /\ \A j \in Inodes : w.ino[j].kind \in {"free", "file"}
    BY <1>1, <1>7 DEF InodesOK
  <2>. QED  BY <2>2, <2>3, <2>4, <2>5, <2>6 DEF InodesOK
<1>13. Whole(w)  BY <1>1, <1>6, <1>9, <1>10, <1>11, <1>12 DEF Whole, Sane
<1>. QED  BY <1>6, <1>7, <1>8, <1>9, <1>11, <1>13

\* A file grown, or one on the list cut, leaves the volume whole.
LEMMA SizedWhole ==
  ASSUME NEW v, Whole(v), NEW i \in Inodes, NEW z \in 0 .. Direct + Per,
         z >= v.ino[i].size \/ i \in Orphans(v), NEW w, w = WithSize(v, i, z)
  PROVE  /\ Whole(w) /\ w.used = v.used /\ w.name = v.name /\ Orphans(w) = Orphans(v) /\ w.ino[i].size = z
         /\ \A j \in All : SameInode(v, w, j) /\ (j # i \/ z >= v.ino[i].size => (Trimmed(v, j) => Trimmed(w, j)))
<1>1. /\ v \in VolType /\ RefsOK(v) /\ ListOK(v) /\ NoDirectoryHole(v) /\ InodesOK(v)
      /\ \A j \in All : j \in Orphans(v) \/ Trimmed(v, j)
      /\ Orphans(v) \subseteq Inodes /\ Inodes \subseteq All /\ Root \in All \ Inodes
      /\ \A j \in Orphans(v) : v.ino[j].kind = "file"
  BY WholeFacts
<1>2. /\ w \in VolType /\ w.name = v.name /\ w.head = v.head /\ w.used = v.used
      /\ w.ino[i].size = z /\ \A j \in All : j # i => w.ino[j].size = v.ino[j].size
      /\ \A j \in All : SameInode(v, w, j) /\ \A x \in Refs : Ref(w, j, x) = Ref(v, j, x)
  BY <1>1, SetSize, SMTT(30)
<1>3. \A j \in All : /\ w.ino[j].kind = v.ino[j].kind /\ w.ino[j].nlink = v.ino[j].nlink
                     /\ w.ino[j].next = v.ino[j].next
  BY <1>2 DEF SameInode
<1>4. Orphans(w) = Orphans(v) /\ ListOK(w)
  <2>1. \A j \in Inodes : w.ino[j].next = v.ino[j].next  BY <1>1, <1>3
  <2>2. \A j \in Orphans(v) : w.ino[j].kind # "free"  BY <1>1, <1>3
  <2>. QED  BY <2>1, <2>2, <1>1, <1>2, ListSame
<1>5. RefsOK(w) /\ NoDirectoryHole(w)
  <2>1. \A j \in Inodes : w.ino[j].kind = "free" => \A x \in Refs : Ref(w, j, x) = None
    BY <1>1, <1>2, <1>3 DEF RefsOK
  <2>2. w.ino[Root].size = v.ino[Root].size /\ \A j \in All, x \in Refs : Ref(w, j, x) = Ref(v, j, x)
    BY <1>1, <1>2
  <2>. QED  BY <2>1, <2>2, <1>1, <1>2, RefsSame
<1>6. ASSUME NEW j \in All, j # i \/ z >= v.ino[i].size, Trimmed(v, j)  PROVE Trimmed(w, j)
  <2>1. v.ino[j].size \in Int /\ w.ino[j].size >= v.ino[j].size
    <3>1. v.ino[j].size \in Int  BY <1>1, VolParts
    <3>2. CASE j = i  BY <3>1, <3>2, <1>2, <1>6
    <3>3. CASE j # i  BY <3>1, <3>3, <1>2
    <3>. QED  BY <3>1, <3>2, <3>3
  <2>. QED  BY <2>1, <1>1, <1>2, <1>6, TrimmedSame
<1>7. InodesOK(w)  BY <1>1, <1>2, <1>3, <1>4, InodesSame
<1>8. \A j \in All : j \in Orphans(w) \/ Trimmed(w, j)
  <2>. TAKE j \in All
  <2>1. CASE j \in Orphans(v)  BY <2>1, <1>4
  <2>2. CASE j \notin Orphans(v)  BY <2>2, <1>1, <1>6
  <2>. QED  BY <2>1, <2>2
<1>9. Whole(w)  BY <1>2, <1>4, <1>5, <1>7, <1>8 DEF Whole, Sane
<1>. QED  BY <1>2, <1>4, <1>6, <1>9

\* A named file is cut once it is on the list.
LEMMA CutWhole ==
  ASSUME NEW v, Whole(v), NEW i \in Inodes, i \notin Orphans(v), v.ino[i].kind = "file", NEW z \in 0 .. Direct + Per,
         NEW w, w = OrphanLink(WithSize(v, i, z), i)
  PROVE  /\ Whole(w) /\ w.used = v.used /\ w.name = v.name /\ Orphans(w) = Orphans(v) \cup {i} /\ w.ino[i].size = z
         /\ \A j \in All : /\ w.ino[j].kind = v.ino[j].kind /\ w.ino[j].nlink = v.ino[j].nlink
                           /\ (j # i => (Trimmed(v, j) => Trimmed(w, j)))
<1>1. /\ v \in VolType /\ RefsOK(v) /\ ListOK(v) /\ NoDirectoryHole(v) /\ InodesOK(v)
      /\ \A j \in All : j \in Orphans(v) \/ Trimmed(v, j)
      /\ Orphans(v) \subseteq Inodes /\ Named(v) \subseteq Inodes /\ Inodes \subseteq All /\ Root \in All \ Inodes
      /\ \A j \in Orphans(v) : v.ino[j].kind = "file"
      /\ \A j \in Named(v) : v.ino[j].kind = "file" /\ v.ino[j].nlink = 1
  BY WholeFacts
<1>. DEFINE b == WithSize(v, i, z)
<1>2. /\ b \in VolType /\ b.name = v.name /\ b.head = v.head /\ b.used = v.used
      /\ b.ino[i].size = z /\ \A j \in All : j # i => b.ino[j].size = v.ino[j].size
      /\ \A j \in All : SameInode(v, b, j) /\ \A x \in Refs : Ref(b, j, x) = Ref(v, j, x)
  BY <1>1, SetSize
<1>3. \A j \in All : /\ b.ino[j].kind = v.ino[j].kind /\ b.ino[j].nlink = v.ino[j].nlink
                     /\ b.ino[j].next = v.ino[j].next
  BY <1>2 DEF SameInode
<1>. HIDE DEF b
<1>4. w = OrphanLink(b, i)  BY DEF b
<1>5. /\ w \in VolType /\ w.name = b.name /\ w.head = i /\ w.used = b.used
      /\ w.ino[i].next = b.head /\ \A j \in All : j # i => w.ino[j].next = b.ino[j].next
      /\ \A j \in All : /\ w.ino[j].kind = b.ino[j].kind /\ w.ino[j].nlink = b.ino[j].nlink
                        /\ w.ino[j].size = b.ino[j].size /\ \A x \in Refs : Ref(w, j, x) = Ref(b, j, x)
  BY <1>2, <1>4, SetHead
<1>6. \A j \in All : /\ w.ino[j].kind = v.ino[j].kind /\ w.ino[j].nlink = v.ino[j].nlink
                     /\ (j # i => w.ino[j].size = v.ino[j].size) /\ (j # i => w.ino[j].next = v.ino[j].next)
                     /\ \A x \in Refs : Ref(w, j, x) = Ref(v, j, x)
  BY <1>2, <1>3, <1>5
<1>7. w.head = i /\ w.ino[i].next = v.head /\ w.ino[i].size = z /\ w.name = v.name /\ w.used = v.used
  BY <1>1, <1>2, <1>5
<1>8. Orphans(w) = Orphans(v) \cup {i} /\ ListOK(w)
  <2>1. \A j \in Inodes : j # i => w.ino[j].next = v.ino[j].next  BY <1>1, <1>6
  <2>2. \A j \in Orphans(v) \cup {i} : w.ino[j].kind # "free"  BY <1>1, <1>6
  <2>. QED  BY <2>1, <2>2, <1>1, <1>5, <1>7, LinkEffect
<1>9. RefsOK(w) /\ NoDirectoryHole(w)
  <2>1. \A j \in Inodes : w.ino[j].kind = "free" => \A x \in Refs : Ref(w, j, x) = None
    BY <1>1, <1>6 DEF RefsOK
  <2>2. w.ino[Root].size = v.ino[Root].size /\ \A j \in All, x \in Refs : Ref(w, j, x) = Ref(v, j, x)
    BY <1>1, <1>6
  <2>. QED  BY <2>1, <2>2, <1>1, <1>5, <1>7, RefsSame
<1>10. ASSUME NEW j \in All, j # i, Trimmed(v, j)  PROVE Trimmed(w, j)
  BY <1>6, <1>10 DEF Trimmed
<1>11. InodesOK(w)
  <2>1. Named(w) = Named(v)  BY <1>7 DEF Named
  <2>2. NoLeakedInode(w)  BY <2>1, <1>1, <1>6, <1>8 DEF NoLeakedInode, InodesOK
  <2>3. NamedLive(w)  BY <2>1, <1>1, <1>6 DEF NamedLive
  <2>4. NamedOnce(w)  BY <1>1, <1>7 DEF NamedOnce, InodesOK
  <2>. QED  BY <2>1, <2>2, <2>3, <2>4, <1>1, <1>6 DEF InodesOK
<1>12. Whole(w)  BY <1>1, <1>5, <1>8, <1>9, <1>10, <1>11 DEF Whole, Sane
<1>. QED  BY <1>6, <1>7, <1>8, <1>10, <1>12

\* A block freed from an inode on the list leaves the volume whole.
LEMMA FreedWhole ==
  ASSUME NEW v, Whole(v), NEW i \in Orphans(v), NEW x \in Refs, Ref(v, i, x) # None, NEW w \in VolType,
         w.name = v.name, w.head = v.head, w.used = v.used \ {Ref(v, i, x)},
         \A j \in All : SameInode(v, w, j) /\ w.ino[j].size = v.ino[j].size,
         Ref(w, i, x) = None, \A j \in All, y \in Refs : j # i \/ y # x => Ref(w, j, y) = Ref(v, j, y)
  PROVE  /\ Whole(w) /\ Orphans(w) = Orphans(v)
         /\ \A j \in All : Trimmed(v, j) => Trimmed(w, j)
<1>1. /\ v \in VolType /\ RefsOK(v) /\ ListOK(v) /\ NoDirectoryHole(v) /\ InodesOK(v)
      /\ v.used = Used(v) /\ NoSharedBlock(v)
      /\ \A j \in All : j \in Orphans(v) \/ Trimmed(v, j)
      /\ Orphans(v) \subseteq Inodes /\ Inodes \subseteq All /\ Root \in All \ Inodes
      /\ \A j \in Orphans(v) : v.ino[j].kind = "file"
  BY WholeFacts
<1>2. \A j \in All : /\ w.ino[j].kind = v.ino[j].kind /\ w.ino[j].nlink = v.ino[j].nlink
                     /\ w.ino[j].next = v.ino[j].next /\ w.ino[j].size = v.ino[j].size
  BY DEF SameInode
<1>3. i \in All /\ i # Root  BY <1>1
<1>4. Orphans(w) = Orphans(v) /\ ListOK(w)
  <2>1. \A j \in Inodes : w.ino[j].next = v.ino[j].next  BY <1>1, <1>2
  <2>2. \A j \in Orphans(v) : w.ino[j].kind # "free"  BY <1>1, <1>2
  <2>. QED  BY <2>1, <2>2, <1>1, ListSame
<1>5. w.used = Used(w) /\ NoSharedBlock(w)  BY <1>1, <1>3, RefsShrink
<1>6. ASSUME NEW j \in All, NEW y \in Refs, Ref(w, j, y) # None  PROVE Ref(v, j, y) # None
  BY <1>6
<1>7. RefsOK(w)
  <2>1. ASSUME NEW j \in Inodes, NEW y \in Refs, w.ino[j].kind = "free"  PROVE Ref(w, j, y) = None
    <3>1. j \in All /\ v.ino[j].kind = "free"  BY <2>1, <1>1, <1>2
    <3>2. Ref(v, j, y) = None  BY <3>1, <1>1 DEF RefsOK
    <3>. QED  BY <3>1, <3>2, <1>6
  <2>. QED  BY <2>1, <1>5 DEF RefsOK
<1>8. NoDirectoryHole(w)
  <2>. SUFFICES ASSUME NEW y \in Idx, y < w.ino[Root].size  PROVE Bmap(w, Root, y) # None
    BY DEF NoDirectoryHole
  <2>1. Bmap(v, Root, y) # None  BY <1>1, <1>2 DEF NoDirectoryHole
  <2>2. y \in Refs  BY Numbers
  <2>3. Ref(w, Root, y) = Ref(v, Root, y)  BY <2>2, <1>1, <1>3
  <2>. QED  BY <2>1, <2>3, RefIdx
<1>9. ASSUME NEW j \in All, Trimmed(v, j)  PROVE Trimmed(w, j)
  <2>1. v.ino[j].size \in Int  BY <1>1, VolParts
  <2>2. w.ino[j].size >= v.ino[j].size  BY <2>1, <1>2
  <2>. QED  BY <2>2, <1>1, <1>6, <1>9, TrimmedSame
<1>10. InodesOK(w)  BY <1>1, <1>2, <1>4, InodesSame
<1>11. \A j \in All : j \in Orphans(w) \/ Trimmed(w, j)  BY <1>1, <1>4, <1>9
<1>12. Whole(w)  BY <1>4, <1>7, <1>8, <1>10, <1>11 DEF Whole, Sane
<1>. QED  BY <1>4, <1>9, <1>12

\* The indirect block freed once it is empty.
WithoutIndirect(v, i) == [v EXCEPT !.used = @ \ {v.ino[i].single}, !.ino[i].single = None]

LEMMA IndirectEffect ==
  ASSUME NEW v \in VolType, NEW i \in All, \A x \in Idx : x >= Direct => Ref(v, i, x) = None,
         NEW w, w = WithoutIndirect(v, i)
  PROVE  /\ w \in VolType /\ w.name = v.name /\ w.head = v.head /\ w.used = v.used \ {Ref(v, i, Top)}
         /\ \A j \in All : SameInode(v, w, j) /\ w.ino[j].size = v.ino[j].size
         /\ Ref(w, i, Top) = None /\ \A j \in All, y \in Refs : j # i \/ y # Top => Ref(w, j, y) = Ref(v, j, y)
<1>. DEFINE node == [v.ino[i] EXCEPT !.single = None]
            used == v.used \ {v.ino[i].single}
<1>1. v.ino[i] \in InodeType /\ v.ino \in [All -> InodeType] /\ None \in Addrs /\ used \in SUBSET Blocks
  BY VolParts DEF Addrs
<1>2. node \in InodeType /\ node.nlink = v.ino[i].nlink /\ node.kind = v.ino[i].kind /\ node.size = v.ino[i].size
      /\ node.next = v.ino[i].next /\ node.direct = v.ino[i].direct /\ node.single = None
  BY <1>1 DEF InodeType
<1>3. w = [name |-> v.name, head |-> v.head, used |-> used, ino |-> [v.ino EXCEPT ![i] = node], ent |-> v.ent]
  BY <1>1 DEF VolType, WithoutIndirect
<1>. HIDE DEF node, used
<1>4. [v.ino EXCEPT ![i] = node] \in [All -> InodeType]  BY <1>1, <1>2
<1>5. w \in VolType /\ w.name = v.name /\ w.head = v.head /\ w.used = used /\ w.ent = v.ent
      /\ w.ino = [v.ino EXCEPT ![i] = node]
  BY <1>1, <1>3, <1>4 DEF VolType
<1>6. w.ino[i] = node /\ \A j \in All : j # i => w.ino[j] = v.ino[j]  BY <1>1, <1>5
<1>7. \A j \in All : SameInode(v, w, j) /\ w.ino[j].size = v.ino[j].size
  BY <1>2, <1>6 DEF SameInode
<1>8. Ref(w, i, Top) = None  BY <1>2, <1>6, RefTop
<1>9. ASSUME NEW j \in All, NEW y \in Refs, j # i \/ y # Top  PROVE Ref(w, j, y) = Ref(v, j, y)
  <2>1. CASE j # i
    <3>1. w.ent = v.ent /\ w.ino[j].direct = v.ino[j].direct /\ w.ino[j].single = v.ino[j].single
      BY <2>1, <1>5, <1>6
    <3>. QED  BY <3>1, MapsSame
  <2>2. CASE j = i /\ y \in 0 .. Direct - 1
    BY <2>2, <1>2, <1>6, RefDirect
  <2>3. CASE j = i /\ y \in Idx /\ y >= Direct
    <3>1. w.ino[i].single = None  BY <1>2, <1>6
    <3>2. Ref(w, i, y) = None  BY <2>3, <3>1, RefSingle
    <3>. QED  BY <2>3, <3>2
  <2>. QED  BY <2>1, <2>2, <2>3, <1>9, Places
<1>10. w.used = v.used \ {Ref(v, i, Top)}  BY <1>5, RefTop DEF used
<1>. QED  BY <1>5, <1>7, <1>8, <1>9, <1>10

\* A file block freed.
LEMMA ReleasedEffect ==
  ASSUME NEW v \in VolType, NoSharedBlock(v), at.ino \in All, NEW x \in Idx, Ref(v, at.ino, x) # None,
         NEW w, w = Released(v, Bmap(v, at.ino, x), x)
  PROVE  /\ w \in VolType /\ w.name = v.name /\ w.head = v.head /\ w.used = v.used \ {Ref(v, at.ino, x)}
         /\ \A j \in All : SameInode(v, w, j) /\ w.ino[j].size = v.ino[j].size
         /\ Ref(w, at.ino, x) = None
         /\ \A j \in All, y \in Refs : j # at.ino \/ y # x => Ref(w, j, y) = Ref(v, j, y)
<1>. DEFINE i == at.ino
            used == v.used \ {Ref(v, i, x)}
<1>1. /\ v.ino[i] \in InodeType /\ v.ino \in [All -> InodeType] /\ None \in Addrs /\ used \in SUBSET Blocks
      /\ v.ent \in [Blocks -> [0 .. Per - 1 -> Addrs]]
      /\ v.ino[i].direct \in [0 .. Direct - 1 -> Addrs] /\ v.ino[i].single \in Addrs
  BY VolParts DEF Addrs
<1>2. Bmap(v, i, x) = Ref(v, i, x)  BY RefIdx
<1>3. CASE x < Direct
  <2>1. x \in 0 .. Direct - 1  BY <1>3, Numbers
  <2>. DEFINE node == [v.ino[i] EXCEPT !.direct[x] = None]
  <2>2. /\ node \in InodeType /\ node.nlink = v.ino[i].nlink /\ node.kind = v.ino[i].kind
        /\ node.size = v.ino[i].size /\ node.next = v.ino[i].next /\ node.single = v.ino[i].single
        /\ node.direct = [v.ino[i].direct EXCEPT ![x] = None]
    BY <2>1, <1>1 DEF InodeType
  <2>3. w = [name |-> v.name, head |-> v.head, used |-> used, ino |-> [v.ino EXCEPT ![i] = node], ent |-> v.ent]
    BY <1>1, <1>2, <1>3 DEF VolType, Released
  <2>. HIDE DEF node, used
  <2>4. [v.ino EXCEPT ![i] = node] \in [All -> InodeType]  BY <1>1, <2>2
  <2>5. w \in VolType /\ w.name = v.name /\ w.head = v.head /\ w.used = used /\ w.ent = v.ent
        /\ w.ino = [v.ino EXCEPT ![i] = node]
    BY <1>1, <2>3, <2>4 DEF VolType
  <2>6. w.ino[i] = node /\ \A j \in All : j # i => w.ino[j] = v.ino[j]  BY <1>1, <2>5
  <2>7. \A j \in All : SameInode(v, w, j) /\ w.ino[j].size = v.ino[j].size
    BY <2>2, <2>6 DEF SameInode
  <2>8. Ref(w, i, x) = None
    <3>1. node.direct[x] = None  BY <2>1, <2>2, <1>1
    <3>. QED  BY <3>1, <2>1, <2>6, RefDirect
  <2>9. ASSUME NEW j \in All, NEW y \in Refs, j # i \/ y # x  PROVE Ref(w, j, y) = Ref(v, j, y)
    <3>1. CASE j # i
      <4>1. w.ent = v.ent /\ w.ino[j].direct = v.ino[j].direct /\ w.ino[j].single = v.ino[j].single
        BY <3>1, <2>5, <2>6
      <4>. QED  BY <4>1, MapsSame
    <3>2. CASE j = i /\ y = Top  BY <3>2, <2>2, <2>6, RefTop
    <3>3. CASE j = i /\ y \in 0 .. Direct - 1
      <4>1. node.direct[y] = v.ino[i].direct[y]  BY <3>3, <2>9, <2>2, <1>1
      <4>. QED  BY <4>1, <3>3, <2>6, RefDirect
    <3>4. CASE j = i /\ y \in Idx /\ y >= Direct
      <4>1. w.ino[i].single = v.ino[i].single /\ w.ent = v.ent  BY <2>2, <2>5, <2>6
      <4>. QED  BY <3>4, <4>1, RefSingle
    <3>. QED  BY <3>1, <3>2, <3>3, <3>4, Places
  <2>. QED  BY <2>5, <2>7, <2>8, <2>9 DEF used
<1>4. CASE ~(x < Direct)
  <2>. DEFINE s == v.ino[i].single
              ent == [v.ent EXCEPT ![s][x - Direct] = None]
  <2>1. x >= Direct /\ x - Direct \in 0 .. Per - 1  BY <1>4, Numbers
  <2>2. s \in Blocks /\ s # None
    <3>1. s # None  BY <2>1, RefSingle
    <3>. QED  BY <3>1, <1>1 DEF Addrs
  <2>3. w = [name |-> v.name, head |-> v.head, used |-> used, ino |-> v.ino, ent |-> ent]
    BY <1>1, <1>2, <1>4 DEF VolType, Released
  <2>4. v.ent[s] \in [0 .. Per - 1 -> Addrs]  BY <2>2, <1>1
  <2>5. ent = [v.ent EXCEPT ![s] = [v.ent[s] EXCEPT ![x - Direct] = None]]  OBVIOUS
  <2>6. [v.ent[s] EXCEPT ![x - Direct] = None] \in [0 .. Per - 1 -> Addrs]  BY <2>1, <2>4, <1>1
  <2>7. ent \in [Blocks -> [0 .. Per - 1 -> Addrs]]  BY <2>5, <2>6, <1>1
  <2>8. ent[s] = [v.ent[s] EXCEPT ![x - Direct] = None] /\ \A c \in Blocks : c # s => ent[c] = v.ent[c]
    BY <2>5, <2>2, <1>1
  <2>. HIDE DEF ent, used
  <2>9. w \in VolType /\ w.name = v.name /\ w.head = v.head /\ w.used = used /\ w.ino = v.ino /\ w.ent = ent
    BY <2>3, <2>7, <1>1 DEF VolType
  <2>10. \A j \in All : SameInode(v, w, j) /\ w.ino[j].size = v.ino[j].size
    BY <2>9 DEF SameInode
  <2>11. Ref(w, i, x) = None
    <3>1. ent[s][x - Direct] = None  BY <2>8, <2>4, <2>1
    <3>. QED  BY <3>1, <2>1, <2>2, <2>9, RefSingle, SMTT(30)
  <2>12. ASSUME NEW j \in All, NEW y \in Refs, j # i \/ y # x  PROVE Ref(w, j, y) = Ref(v, j, y)
    <3>1. CASE y = Top  BY <3>1, <2>9, RefTop
    <3>2. CASE y \in 0 .. Direct - 1  BY <3>2, <2>9, RefDirect
    <3>3. CASE y \in Idx /\ y >= Direct
      <4>1. y - Direct \in 0 .. Per - 1  BY <3>3, RefSingle
      <4>2. Ref(w, j, y) = IF v.ino[j].single = None THEN None ELSE ent[v.ino[j].single][y - Direct]
        BY <3>3, <2>9, RefSingle
      <4>3. Ref(v, j, y) = IF v.ino[j].single = None THEN None ELSE v.ent[v.ino[j].single][y - Direct]
        BY <3>3, RefSingle, SMTT(30)
      <4>4. CASE j # i
        <5>1. v.ino[j].single \in Addrs  BY VolParts
        <5>2. v.ino[j].single # None => v.ino[j].single # s
          <6>1. Ref(v, j, Top) = v.ino[j].single /\ Ref(v, i, Top) = s  BY RefTop
          <6>2. Top \in Refs  BY Numbers
          <6>. QED  BY <6>1, <6>2, <4>4, UsedIs
        <5>. QED  BY <5>1, <5>2, <4>2, <4>3, <2>8 DEF Addrs
      <4>5. CASE j = i
        <5>1. y - Direct # x - Direct  BY <4>5, <2>12, <3>3, Numbers, SMTT(30)
        <5>2. ent[s][y - Direct] = v.ent[s][y - Direct]  BY <5>1, <4>1, <2>8, <2>4
        <5>. QED  BY <5>2, <4>5, <4>2, <4>3
      <4>. QED  BY <4>4, <4>5
    <3>. QED  BY <3>1, <3>2, <3>3, Places
  <2>. QED  BY <2>9, <2>10, <2>11, <2>12 DEF used
<1>. QED  BY <1>3, <1>4

\* What freeing is over for goes off the list, and a removed inode is free.
LEMMA FinishedWhole ==
  ASSUME NEW v, Whole(v), NEW i \in Orphans(v),
         v.ino[i].nlink = 0 => \A x \in Refs : Ref(v, i, x) = None,
         v.ino[i].nlink # 0 => Trimmed(v, i), NEW w, w = Finished(v, i)
  PROVE  /\ Whole(w) /\ w.used = v.used /\ w.name = v.name /\ Orphans(w) = Orphans(v) \ {i}
         /\ \A j \in All : j # i \/ v.ino[i].nlink # 0 =>
              /\ w.ino[j].kind = v.ino[j].kind /\ w.ino[j].nlink = v.ino[j].nlink /\ w.ino[j].size = v.ino[j].size
         /\ \A j \in All, x \in Refs : Ref(w, j, x) = Ref(v, j, x)
<1>1. /\ v \in VolType /\ RefsOK(v) /\ ListOK(v) /\ NoDirectoryHole(v) /\ InodesOK(v)
      /\ \A j \in All : j \in Orphans(v) \/ Trimmed(v, j)
      /\ Orphans(v) \subseteq Inodes /\ Named(v) \subseteq Inodes /\ Inodes \subseteq All /\ Root \in All \ Inodes
      /\ \A j \in Orphans(v) : v.ino[j].kind = "file"
      /\ \A j \in Named(v) : v.ino[j].kind = "file" /\ v.ino[j].nlink = 1
  BY WholeFacts
<1>2. i \in Inodes /\ i \in All /\ i # Root  BY <1>1
<1>. DEFINE u == OrphanUnlink(v, i)
<1>3. /\ u \in VolType /\ u.name = v.name /\ u.used = v.used /\ u.ent = v.ent
      /\ u.head = (IF v.head = i THEN v.ino[i].next ELSE v.head)
      /\ \A j \in Inodes : u.ino[j].next = IF j = i THEN None
                             ELSE IF v.ino[j].next = i THEN v.ino[i].next ELSE v.ino[j].next
      /\ \A j \in All : /\ u.ino[j].kind = v.ino[j].kind /\ u.ino[j].nlink = v.ino[j].nlink
                        /\ u.ino[j].size = v.ino[j].size
                        /\ \A x \in Refs : Ref(u, j, x) = Ref(v, j, x)
  BY <1>1, UnsetNext
<1>4. w = IF u.ino[i].nlink = 0 THEN WithInode(u, i, Free) ELSE u  BY DEF Finished, WithInode
<1>. HIDE DEF u
<1>5. /\ w \in VolType /\ w.name = v.name /\ w.used = v.used /\ w.head = u.head
      /\ \A j \in Inodes : w.ino[j].next = u.ino[j].next
      /\ \A j \in All : j # i \/ v.ino[i].nlink # 0 =>
           /\ w.ino[j].kind = v.ino[j].kind /\ w.ino[j].nlink = v.ino[j].nlink /\ w.ino[j].size = v.ino[j].size
      /\ \A j \in All, x \in Refs : Ref(w, j, x) = Ref(v, j, x)
      /\ v.ino[i].nlink = 0 => w.ino[i].kind = "free" /\ w.ino[i].nlink = 0
  <2>1. CASE v.ino[i].nlink = 0
    <3>1. Free \in InodeType /\ Free.next = None /\ Free.kind = "free" /\ Free.nlink = 0
          /\ Free.single = None /\ \A x \in 0 .. Direct - 1 : Free.direct[x] = None
      BY Numbers DEF Free, InodeType, Addrs, Links
    <3>2. w = WithInode(u, i, Free)  BY <2>1, <1>2, <1>3, <1>4
    <3>3. w \in VolType /\ w.name = u.name /\ w.head = u.head /\ w.used = u.used /\ w.ent = u.ent
          /\ w.ino[i] = Free /\ \A j \in All : j # i => w.ino[j] = u.ino[j]
      BY <3>1, <3>2, <1>2, <1>3, SetInode
    <3>4. ASSUME NEW j \in All, NEW x \in Refs  PROVE Ref(w, j, x) = Ref(v, j, x)
      <4>1. CASE j # i
        <5>1. w.ent = u.ent /\ w.ino[j].direct = u.ino[j].direct /\ w.ino[j].single = u.ino[j].single
          BY <4>1, <3>3
        <5>2. Ref(w, j, x) = Ref(u, j, x)  BY <5>1, MapsSame
        <5>. QED  BY <5>2, <1>3
      <4>2. CASE j = i
        <5>1. Ref(v, i, x) = None  BY <2>1
        <5>2. CASE x = Top  BY <5>1, <5>2, <4>2, <3>1, <3>3, RefTop
        <5>3. CASE x \in 0 .. Direct - 1  BY <5>1, <5>3, <4>2, <3>1, <3>3, RefDirect
        <5>4. CASE x \in Idx /\ x >= Direct  BY <5>1, <5>4, <4>2, <3>1, <3>3, RefSingle
        <5>. QED  BY <5>2, <5>3, <5>4, Places
      <4>. QED  BY <4>1, <4>2
    <3>5. \A j \in Inodes : w.ino[j].next = u.ino[j].next
      <4>. TAKE j \in Inodes
      <4>1. CASE j = i  BY <4>1, <3>1, <3>3, <1>3
      <4>2. CASE j # i  BY <4>2, <3>3, <1>1
      <4>. QED  BY <4>1, <4>2
    <3>. QED  BY <2>1, <3>1, <3>3, <3>4, <3>5, <1>3
  <2>2. CASE v.ino[i].nlink # 0
    <3>1. w = u  BY <2>2, <1>2, <1>3, <1>4
    <3>. QED  BY <2>2, <3>1, <1>3
  <2>. QED  BY <2>1, <2>2
<1>6. Orphans(w) = Orphans(v) \ {i} /\ ListOK(w)
  <2>1. \A j \in Orphans(v) \ {i} : w.ino[j].kind # "free"  BY <1>1, <1>5
  <2>2. w.head = (IF v.head = i THEN v.ino[i].next ELSE v.head)  BY <1>3, <1>5
  <2>3. \A j \in Inodes : w.ino[j].next = IF j = i THEN None
                            ELSE IF v.ino[j].next = i THEN v.ino[i].next ELSE v.ino[j].next
    BY <1>3, <1>5
  <2>. QED  BY <2>1, <2>2, <2>3, <1>1, <1>5, UnlinkEffect
<1>7. RefsOK(w) /\ NoDirectoryHole(w)
  <2>1. \A j \in Inodes : w.ino[j].kind = "free" => \A x \in Refs : Ref(w, j, x) = None
    <3>. SUFFICES ASSUME NEW j \in Inodes, w.ino[j].kind = "free", NEW x \in Refs  PROVE Ref(v, j, x) = None
      BY <1>1, <1>5
    <3>1. CASE j = i /\ v.ino[i].nlink = 0  BY <3>1
    <3>2. CASE j # i \/ v.ino[i].nlink # 0
      <4>1. v.ino[j].kind = "free"  BY <3>2, <1>1, <1>5
      <4>. QED  BY <4>1, <1>1 DEF RefsOK
    <3>. QED  BY <3>1, <3>2
  <2>2. w.ino[Root].size = v.ino[Root].size  BY <1>1, <1>2, <1>5
  <2>. QED  BY <2>1, <2>2, <1>1, <1>5, RefsSame
<1>8. \A j \in All : j \in Orphans(w) \/ Trimmed(w, j)
  <2>. SUFFICES ASSUME NEW j \in All, j \notin Orphans(w)  PROVE Trimmed(w, j)
    OBVIOUS
  <2>1. CASE j = i /\ v.ino[i].nlink = 0
    <3>1. \A x \in Refs : Ref(w, j, x) = None  BY <2>1, <1>5
    <3>. QED  BY <3>1 DEF Trimmed
  <2>2. CASE j # i \/ v.ino[i].nlink # 0
    <3>1. Trimmed(v, j)  BY <2>2, <1>1, <1>6
    <3>2. w.ino[j].size = v.ino[j].size /\ \A x \in Refs : Ref(w, j, x) = Ref(v, j, x)  BY <2>2, <1>5
    <3>. QED  BY <3>1, <3>2 DEF Trimmed
  <2>. QED  BY <2>1, <2>2
<1>9. InodesOK(w)
  <2>1. Named(w) = Named(v)  BY <1>5 DEF Named
  <2>2. v.ino[i].nlink = 0 => i \notin Named(v)  BY <1>1
  <2>3. v.ino[i].nlink # 0 => i \in Named(v)
    <3>1. v.ino[i].nlink \in {0, 1}  BY <1>1, <1>2, VolParts
    <3>. QED  BY <3>1, <1>1, <1>2 DEF InodesOK
  <2>4. NoLeakedInode(w)
    <3>. SUFFICES ASSUME NEW j \in Inodes, w.ino[j].kind # "free", j \notin Named(v)
                  PROVE  j \in Orphans(v) /\ j # i
      BY <2>1, <1>6 DEF NoLeakedInode
    <3>1. j # i  BY <2>3, <1>5
    <3>2. v.ino[j].kind # "free"  BY <3>1, <1>1, <1>5
    <3>. QED  BY <3>1, <3>2, <1>1 DEF InodesOK, NoLeakedInode
  <2>5. NamedLive(w)
    <3>. SUFFICES ASSUME NEW j \in Named(v)  PROVE w.ino[j].kind = "file" /\ w.ino[j].nlink = 1
      BY <2>1 DEF NamedLive
    <3>1. j # i \/ v.ino[i].nlink # 0  BY <2>2
    <3>. QED  BY <3>1, <1>1, <1>5
  <2>6. NamedOnce(w)  BY <1>1, <1>5 DEF InodesOK, NamedOnce
  <2>7. ASSUME NEW j \in Inodes, w.ino[j].kind = "file", w.ino[j].nlink = 1  PROVE j \in Named(w)
    <3>1. j # i \/ v.ino[i].nlink # 0  BY <2>7, <1>5
    <3>2. v.ino[j].kind = "file" /\ v.ino[j].nlink = 1  BY <3>1, <2>7, <1>1, <1>5
    <3>. QED  BY <3>2, <2>1, <1>1 DEF InodesOK
  <2>8. w.ino[Root].kind = "dir"  BY <1>1, <1>2, <1>5 DEF InodesOK
  <2>9. \A j \in Inodes : w.ino[j].kind \in {"free", "file"}
    <3>. TAKE j \in Inodes
    <3>1. CASE j # i \/ v.ino[i].nlink # 0  BY <3>1, <1>1, <1>5 DEF InodesOK
    <3>2. CASE j = i /\ v.ino[i].nlink = 0  BY <3>2, <1>5
    <3>. QED  BY <3>1, <3>2
  <2>. QED  BY <2>4, <2>5, <2>6, <2>7, <2>8, <2>9 DEF InodesOK
<1>10. Whole(w)  BY <1>5, <1>6, <1>7, <1>8, <1>9 DEF Whole, Sane
<1>. QED  BY <1>5, <1>6, <1>10

\* Names changed, on a volume otherwise in order.
LEMMA NamesSane ==
  ASSUME NEW v, Sane(v), NEW nm \in [Names -> Links], NEW w, w = WithNames(v, nm)
  PROVE  /\ Sane(w) /\ w.name = nm /\ Orphans(w) = Orphans(v) /\ w.used = v.used /\ w.ino = v.ino
         /\ \A j \in All : Trimmed(v, j) => Trimmed(w, j)
<1>1. v \in VolType /\ RefsOK(v) /\ ListOK(v) /\ NoDirectoryHole(v)
      /\ \A j \in All : j \in Orphans(v) \/ Trimmed(v, j)
  BY DEF Sane
<1>2. /\ w \in VolType /\ w.name = nm /\ w.head = v.head /\ w.used = v.used /\ w.ino = v.ino
      /\ \A j, x : Ref(w, j, x) = Ref(v, j, x)
  BY <1>1, SetNames
<1>3. Orphans(w) = Orphans(v) /\ ListOK(w)
  <2>1. \A j \in Orphans(v) : w.ino[j].kind # "free"  BY <1>1, <1>2 DEF ListOK, OrphanListEnds
  <2>. QED  BY <2>1, <1>1, <1>2, ListSame
<1>4. RefsOK(w) /\ NoDirectoryHole(w)
  <2>1. \A j \in Inodes : w.ino[j].kind = "free" => \A x \in Refs : Ref(w, j, x) = None
    BY <1>1, <1>2 DEF RefsOK
  <2>. QED  BY <2>1, <1>1, <1>2, RefsSame
<1>5. \A j \in All : Trimmed(v, j) => Trimmed(w, j)  BY <1>2 DEF Trimmed
<1>. QED  BY <1>1, <1>2, <1>3, <1>4, <1>5 DEF Sane

----------------------------------------------------------------------------
(* Directory entries. *)

\* The directory with a slot to spare.
Roomy(v, s, b) ==
  IF SlotFree(v) THEN v
  ELSE [Mapped(v, Root, v.ino[Root].size, s, b) EXCEPT !.ino[Root].size = @ + 1]

LEMMA RoomySane ==
  ASSUME NEW v, Sane(v), ~DirFull(v), NEW s, NEW b,
         SlotFree(v) \/ Serve(v, Root, v.ino[Root].size, s, b), NEW w, w = Roomy(v, s, b)
  PROVE  /\ Sane(w) /\ w.name = v.name /\ Orphans(w) = Orphans(v) /\ v.used \subseteq w.used
         /\ \A j \in All : SameInode(v, w, j) /\ (Trimmed(v, j) => Trimmed(w, j))
<1>1. CASE SlotFree(v)
  <2>1. w = v  BY <1>1 DEF Roomy
  <2>. QED  BY <2>1 DEF SameInode
<1>2. CASE ~SlotFree(v)
  <2>. DEFINE z == v.ino[Root].size
              u == Mapped(v, Root, z, s, b)
  <2>1. Root \in All /\ Root \notin Inodes /\ v \in VolType /\ v.used = Used(v) /\ NoSharedBlock(v)
    BY Numbers DEF All, Sane, RefsOK
  <2>2. z \in Idx /\ z \in Int /\ z + 1 \in 0 .. Direct + Per  BY <1>2, Numbers DEF DirFull
  <2>3. Serve(v, Root, z, s, b)  BY <1>2
  <2>4. u \in VolType /\ u.ino[Root].size = z
    <3>. HIDE DEF z
    <3>1. u \in VolType /\ \A j \in All : u.ino[j].size = v.ino[j].size  BY <2>1, <2>2, <2>3, MapEffect
    <3>. QED  BY <3>1, <2>1 DEF z
  <2>5. w = WithSize(u, Root, z + 1)
    <3>1. w = [u EXCEPT !.ino[Root].size = @ + 1]  BY <1>2 DEF Roomy
    <3>. HIDE DEF u
    <3>2. u.ino \in [All -> InodeType] /\ u.ino[Root] \in InodeType  BY <2>1, <2>4, VolParts
    <3>. QED  BY <3>1, <3>2, <2>1, <2>4 DEF WithSize, VolType, InodeType
  <2>6. \A y \in Idx : y < z + 1 => y < z \/ y = z  BY <2>2, Numbers
  <2>7. z + 1 >= z /\ z + 1 > z  BY <2>2
  <2>. HIDE DEF u
  <2>8. w = WithSize(Mapped(v, Root, z, s, b), Root, z + 1)  BY <2>5 DEF u
  <2>. QED  BY <2>1, <2>2, <2>3, <2>6, <2>7, <2>8, Extended
<1>. QED  BY <1>1, <1>2

LEMMA AddEntryIs ==
  ASSUME NEW v, NEW n \in Names, NEW i, NEW s, NEW b, Roomy(v, s, b) \in VolType
  PROVE  AddEntry(v, n, i, s, b) = WithNames(Roomy(v, s, b), [Roomy(v, s, b).name EXCEPT ![n] = i])
<1>. DEFINE u == Roomy(v, s, b)
<1>1. AddEntry(v, n, i, s, b) = [u EXCEPT !.name[n] = i]  BY DEF AddEntry, Roomy
<1>. HIDE DEF u
<1>2. u \in VolType  BY DEF u
<1>3. [u EXCEPT !.name[n] = i] = [u EXCEPT !.name = [u.name EXCEPT ![n] = i]]  BY <1>2 DEF VolType
<1>. QED  BY <1>1, <1>3 DEF u, WithNames

\* A new file.
NewFile == [Free EXCEPT !.kind = "file", !.nlink = 1]

LEMMA CreateWhole ==
  ASSUME NEW v, Whole(v), NEW n \in Names, v.name[n] = None, NEW i \in Inodes, v.ino[i].kind = "free",
         ~DirFull(v), NEW s, NEW b, SlotFree(v) \/ Serve(v, Root, v.ino[Root].size, s, b),
         NEW w, w = AddEntry(WithInode(v, i, NewFile), n, i, s, b)
  PROVE  /\ Whole(w) /\ v.used \subseteq w.used /\ Orphans(w) = Orphans(v)
         /\ w.ino[i].kind = "file"
         /\ \A j \in All : j # i => SameInode(v, w, j) /\ (Trimmed(v, j) => Trimmed(w, j))
<1>1. /\ v \in VolType /\ RefsOK(v) /\ ListOK(v) /\ NoDirectoryHole(v) /\ InodesOK(v)
      /\ \A j \in All : j \in Orphans(v) \/ Trimmed(v, j)
      /\ Orphans(v) \subseteq Inodes /\ Named(v) \subseteq Inodes /\ Inodes \subseteq All /\ Root \in All \ Inodes
      /\ \A j \in Orphans(v) : v.ino[j].kind = "file"
      /\ \A j \in Named(v) : v.ino[j].kind = "file" /\ v.ino[j].nlink = 1
  BY WholeFacts
<1>2. i \in All /\ i # Root /\ i \notin Orphans(v) /\ i \notin Named(v) /\ v.ino[i].next = None
  BY <1>1 DEF ListOK
<1>3. /\ NewFile \in InodeType /\ NewFile.kind = "file" /\ NewFile.nlink = 1 /\ NewFile.next = None
      /\ NewFile.single = None /\ \A x \in 0 .. Direct - 1 : NewFile.direct[x] = None
  <2>1. Free \in InodeType /\ Free.next = None /\ Free.single = None
        /\ \A x \in 0 .. Direct - 1 : Free.direct[x] = None
    BY Numbers DEF Free, InodeType, Addrs, Links
  <2>2. /\ NewFile \in InodeType /\ NewFile.kind = "file" /\ NewFile.nlink = 1 /\ NewFile.next = Free.next
        /\ NewFile.single = Free.single /\ NewFile.direct = Free.direct
    BY <2>1 DEF NewFile, InodeType
  <2>. QED  BY <2>1, <2>2
<1>. DEFINE a == WithInode(v, i, NewFile)
<1>4. /\ a \in VolType /\ a.name = v.name /\ a.head = v.head /\ a.used = v.used /\ a.ent = v.ent
      /\ a.ino[i] = NewFile /\ \A j \in All : j # i => a.ino[j] = v.ino[j]
  BY <1>1, <1>2, <1>3, SetInode
<1>. HIDE DEF a
<1>5. ASSUME NEW j \in All, NEW x \in Refs  PROVE Ref(a, j, x) = Ref(v, j, x)
  <2>1. CASE j # i
    <3>1. a.ent = v.ent /\ a.ino[j].direct = v.ino[j].direct /\ a.ino[j].single = v.ino[j].single
      BY <2>1, <1>4
    <3>. QED  BY <3>1, MapsSame
  <2>2. CASE j = i
    <3>1. Ref(v, i, x) = None  BY <1>1 DEF RefsOK
    <3>2. CASE x = Top  BY <3>1, <3>2, <2>2, <1>3, <1>4, RefTop
    <3>3. CASE x \in 0 .. Direct - 1  BY <3>1, <3>3, <2>2, <1>3, <1>4, RefDirect
    <3>4. CASE x \in Idx /\ x >= Direct  BY <3>1, <3>4, <2>2, <1>3, <1>4, RefSingle
    <3>. QED  BY <3>2, <3>3, <3>4, Places
  <2>. QED  BY <2>1, <2>2
<1>6. Orphans(a) = Orphans(v) /\ ListOK(a)
  <2>1. \A j \in Inodes : a.ino[j].next = v.ino[j].next  BY <1>1, <1>2, <1>3, <1>4
  <2>2. \A j \in Orphans(v) : a.ino[j].kind # "free"  BY <1>1, <1>2, <1>4
  <2>. QED  BY <2>1, <2>2, <1>1, <1>4, ListSame
<1>7. RefsOK(a) /\ NoDirectoryHole(a)
  <2>1. \A j \in Inodes : a.ino[j].kind = "free" => \A x \in Refs : Ref(a, j, x) = None
    BY <1>1, <1>3, <1>4, <1>5 DEF RefsOK
  <2>2. a.ino[Root].size = v.ino[Root].size  BY <1>1, <1>2, <1>4
  <2>. QED  BY <2>1, <2>2, <1>1, <1>4, <1>5, RefsSame
<1>8. ASSUME NEW j \in All, j = i \/ Trimmed(v, j)  PROVE Trimmed(a, j)
  <2>1. CASE j = i
    <3>1. \A x \in Refs : Ref(a, j, x) = None  BY <2>1, <1>1, <1>5 DEF RefsOK
    <3>. QED  BY <3>1 DEF Trimmed
  <2>2. CASE j # i
    <3>1. a.ino[j] = v.ino[j] /\ \A x \in Refs : Ref(a, j, x) = Ref(v, j, x)  BY <2>2, <1>4, <1>5
    <3>. QED  BY <3>1, <2>2, <1>8 DEF Trimmed
  <2>. QED  BY <2>1, <2>2
<1>9. Sane(a)
  <2>1. \A j \in All : j \in Orphans(a) \/ Trimmed(a, j)  BY <1>1, <1>6, <1>8
  <2>. QED  BY <2>1, <1>4, <1>6, <1>7 DEF Sane
<1>10. (SlotFree(a) <=> SlotFree(v)) /\ ~DirFull(a) /\ a.ino[Root] = v.ino[Root]
  <2>1. a.ino[Root] = v.ino[Root]  BY <1>1, <1>2, <1>4
  <2>2. SlotFree(a) <=> SlotFree(v)  BY <2>1, <1>4 DEF SlotFree, Entries
  <2>. QED  BY <2>1, <2>2 DEF DirFull
<1>11. SlotFree(a) \/ Serve(a, Root, a.ino[Root].size, s, b)
  <2>. SUFFICES ASSUME ~SlotFree(v)  PROVE Serve(a, Root, v.ino[Root].size, s, b)
    BY <1>10
  <2>1. v.ino[Root].size \in Idx  BY DEF DirFull
  <2>2. Bmap(a, Root, v.ino[Root].size) = Bmap(v, Root, v.ino[Root].size)
    <3>1. v.ino[Root].size \in Refs  BY <2>1, Numbers
    <3>. QED  BY <3>1, <2>1, <1>1, <1>5, RefIdx
  <2>3. AllocNeed(a, Root, v.ino[Root].size) = AllocNeed(v, Root, v.ino[Root].size)
    BY <2>2, <1>10 DEF AllocNeed
  <2>. QED  BY <2>3, <1>4 DEF Serve
<1>. DEFINE u == Roomy(a, s, b)
<1>12. /\ Sane(u) /\ u.name = v.name /\ Orphans(u) = Orphans(v) /\ v.used \subseteq u.used
       /\ \A j \in All : SameInode(a, u, j) /\ (Trimmed(a, j) => Trimmed(u, j))
  BY <1>4, <1>6, <1>9, <1>10, <1>11, RoomySane
<1>. DEFINE nm == [v.name EXCEPT ![n] = i]
<1>13. w = WithNames(u, nm)
  <2>1. u \in VolType  BY <1>12 DEF Sane
  <2>2. w = WithNames(u, [u.name EXCEPT ![n] = i])  BY <2>1, AddEntryIs DEF a
  <2>. HIDE DEF u
  <2>. QED  BY <2>2, <1>12
<1>. HIDE DEF u
<1>14. nm \in [Names -> Links] /\ nm[n] = i /\ \A m \in Names : m # n => nm[m] = v.name[m]
  BY <1>1, VolParts DEF Links
<1>. HIDE DEF nm
<1>15. /\ Sane(w) /\ w.name = nm /\ Orphans(w) = Orphans(v) /\ w.used = u.used /\ w.ino = u.ino
       /\ \A j \in All : Trimmed(u, j) => Trimmed(w, j)
  BY <1>12, <1>13, <1>14, NamesSane
<1>16. w.ino[i].kind = "file" /\ w.ino[i].nlink = 1
  BY <1>2, <1>3, <1>4, <1>12, <1>15 DEF SameInode
<1>17. \A j \in All : j # i => SameInode(v, w, j) /\ (Trimmed(v, j) => Trimmed(w, j))
  <2>. SUFFICES ASSUME NEW j \in All, j # i  PROVE SameInode(v, w, j) /\ (Trimmed(v, j) => Trimmed(w, j))
    OBVIOUS
  <2>1. SameInode(v, w, j)  BY <1>4, <1>12, <1>15 DEF SameInode
  <2>2. Trimmed(v, j) => Trimmed(w, j)  BY <1>8, <1>12, <1>15
  <2>. QED  BY <2>1, <2>2
<1>18. \A j \in All : j # i => w.ino[j].kind = v.ino[j].kind /\ w.ino[j].nlink = v.ino[j].nlink
  BY <1>17 DEF SameInode
<1>19. InodesOK(w)
  <2>1. w \in VolType  BY <1>15 DEF Sane
  <2>2. \A j : j \in Named(w) <=> j = i \/ j \in Named(v)
    <3>1. i # None  BY Numbers
    <3>. QED  BY <3>1, <2>1, <1>1, <1>14, <1>15, NamedIs
  <2>3. NoLeakedInode(w)  BY <2>2, <1>1, <1>15, <1>18 DEF NoLeakedInode, InodesOK
  <2>4. NamedLive(w)  BY <2>2, <1>1, <1>16, <1>18 DEF NamedLive
  <2>5. NamedOnce(w)
    <3>. SUFFICES ASSUME NEW m \in Names, NEW k \in Names, nm[m] # None, nm[m] = nm[k]  PROVE m = k
      BY <1>15 DEF NamedOnce
    <3>1. \A c \in Names : v.name[c] # i  BY <1>1, <1>2, Numbers, NamedIs
    <3>2. CASE m # n /\ k # n  BY <3>2, <1>1, <1>14 DEF InodesOK, NamedOnce
    <3>. QED  BY <3>1, <3>2, <1>14
  <2>6. \A j \in Inodes : w.ino[j].kind = "file" /\ w.ino[j].nlink = 1 => j \in Named(w)
    BY <2>2, <1>1, <1>18 DEF InodesOK
  <2>7. w.ino[Root].kind = "dir" /\ \A j \in Inodes : w.ino[j].kind \in {"free", "file"}
    BY <1>1, <1>2, <1>16, <1>18 DEF InodesOK
  <2>. QED  BY <2>3, <2>4, <2>5, <2>6, <2>7 DEF InodesOK
<1>20. Whole(w)  BY <1>15, <1>19 DEF Whole
<1>. QED  BY <1>12, <1>15, <1>16, <1>17, <1>20

\* One name cleared.
Unnamed(v, f) == WithNames(v, [v.name EXCEPT ![f] = None])

\* A directory in which file f can be named t, with blocks s and b for its entry.
Renamable(v, f, t, s, b) ==
  /\ Whole(v) /\ f # t /\ v.name[f] # None /\ v.name[t] = None /\ ~DirFull(v)
  /\ SlotFree(v) \/ Serve(v, Root, v.ino[Root].size, s, b)

\* A file named anew: its new entry is added before the old one is cleared.
LEMMA RenameWhole ==
  ASSUME NEW v, NEW f \in Names, NEW t \in Names, NEW s, NEW b, Renamable(v, f, t, s, b),
         NEW u, u = AddEntry(v, t, v.name[f], s, b), NEW w, w = Unnamed(u, f)
  PROVE  /\ Whole(w) /\ v.used \subseteq w.used /\ w.used = u.used /\ Orphans(w) = Orphans(v)
         /\ \A j \in All : SameInode(v, w, j) /\ (Trimmed(v, j) => Trimmed(w, j))
<1>0. /\ Whole(v) /\ f # t /\ v.name[f] # None /\ v.name[t] = None /\ ~DirFull(v)
      /\ SlotFree(v) \/ Serve(v, Root, v.ino[Root].size, s, b)
  BY DEF Renamable
<1>1. /\ v \in VolType /\ Sane(v) /\ InodesOK(v) /\ Inodes \subseteq All /\ Root \in All \ Inodes
  BY <1>0, WholeFacts
<1>. DEFINE r == Roomy(v, s, b)
            i == v.name[f]
            one == [v.name EXCEPT ![t] = i]
            two == [one EXCEPT ![f] = None]
<1>2. /\ Sane(r) /\ r.name = v.name /\ Orphans(r) = Orphans(v) /\ v.used \subseteq r.used
      /\ \A j \in All : SameInode(v, r, j) /\ (Trimmed(v, j) => Trimmed(r, j))
  BY <1>0, <1>1, RoomySane
<1>3. u = WithNames(r, one)
  <2>1. r \in VolType  BY <1>2 DEF Sane
  <2>2. u = WithNames(r, [r.name EXCEPT ![t] = i])  BY <2>1, AddEntryIs
  <2>. HIDE DEF r
  <2>. QED  BY <2>2, <1>2
<1>. HIDE DEF r
<1>4. v.name \in [Names -> Links] /\ None \in Links /\ i \in Links  BY <1>1, VolParts DEF Links
<1>5. /\ one \in [Names -> Links] /\ two \in [Names -> Links] /\ two[f] = None /\ two[t] = i
      /\ \A n \in Names : n # f /\ n # t => two[n] = v.name[n]
  BY <1>0, <1>4
<1>. HIDE DEF one, two, i
<1>6. /\ Sane(u) /\ u.name = one /\ Orphans(u) = Orphans(v) /\ u.used = r.used /\ u.ino = r.ino
      /\ \A j \in All : Trimmed(r, j) => Trimmed(u, j)
  BY <1>2, <1>3, <1>5, NamesSane
<1>7. w = WithNames(u, two)  BY <1>6 DEF two, Unnamed
<1>8. /\ Sane(w) /\ w.name = two /\ Orphans(w) = Orphans(v) /\ w.used = u.used /\ w.ino = u.ino
      /\ \A j \in All : Trimmed(u, j) => Trimmed(w, j)
  <2>1. Sane(u) /\ two \in [Names -> Links]  BY <1>5, <1>6
  <2>2. /\ Sane(w) /\ w.name = two /\ Orphans(w) = Orphans(u) /\ w.used = u.used /\ w.ino = u.ino
        /\ \A j \in All : Trimmed(u, j) => Trimmed(w, j)
    BY <2>1, <1>7, NamesSane
  <2>. QED  BY <2>2, <1>6
<1>9. \A j \in All : SameInode(v, w, j) /\ (Trimmed(v, j) => Trimmed(w, j))
  BY <1>2, <1>6, <1>8 DEF SameInode
<1>10. \A j \in All : w.ino[j].kind = v.ino[j].kind /\ w.ino[j].nlink = v.ino[j].nlink
  BY <1>9 DEF SameInode
<1>11. InodesOK(w)
  <2>1. w \in VolType  BY <1>8 DEF Sane
  <2>2. \A j : j # None => ((\E n \in Names : two[n] = j) <=> \E n \in Names : v.name[n] = j)
    <3>. SUFFICES ASSUME NEW j, j # None
                  PROVE  (\E n \in Names : two[n] = j) <=> \E n \in Names : v.name[n] = j
      OBVIOUS
    <3>1. ASSUME NEW n \in Names, two[n] = j  PROVE \E m \in Names : v.name[m] = j
      BY <3>1, <1>0, <1>5 DEF i
    <3>2. ASSUME NEW n \in Names, v.name[n] = j  PROVE \E m \in Names : two[m] = j
      BY <3>2, <1>0, <1>5 DEF i
    <3>. QED  BY <3>1, <3>2
  <2>3. ASSUME NEW j  PROVE j \in Named(w) <=> j \in Named(v)
    <3>1. j \in Named(w) <=> j # None /\ \E n \in Names : two[n] = j  BY <2>1, <1>8, NamedIs
    <3>2. j \in Named(v) <=> j # None /\ \E n \in Names : v.name[n] = j  BY <1>1, NamedIs
    <3>. QED  BY <3>1, <3>2, <2>2
  <2>4. Named(w) = Named(v) /\ Named(v) \subseteq Inodes  BY <2>3, <1>1, NamedIs
  <2>5. NoLeakedInode(w)  BY <2>4, <1>1, <1>8, <1>10 DEF NoLeakedInode, InodesOK
  <2>6. NamedLive(w)  BY <2>4, <1>1, <1>10 DEF NamedLive, InodesOK
  <2>7. NamedOnce(w)
    <3>. SUFFICES ASSUME NEW m \in Names, NEW k \in Names, two[m] # None, two[m] = two[k]  PROVE m = k
      BY <1>8 DEF NamedOnce
    <3>1. \A c, d \in Names : v.name[c] # None /\ v.name[c] = v.name[d] => c = d
      BY <1>1 DEF InodesOK, NamedOnce
    <3>2. m # f /\ k # f  BY <1>5
    <3>3. CASE m # t /\ k # t  BY <3>1, <3>2, <3>3, <1>5
    <3>4. CASE m = t /\ k # t  BY <3>1, <3>2, <3>4, <1>0, <1>5 DEF i
    <3>5. CASE m # t /\ k = t  BY <3>1, <3>2, <3>5, <1>0, <1>5 DEF i
    <3>. QED  BY <3>3, <3>4, <3>5
  <2>8. \A j \in Inodes : w.ino[j].kind = "file" /\ w.ino[j].nlink = 1 => j \in Named(w)
    BY <2>4, <1>1, <1>10 DEF InodesOK
  <2>9. w.ino[Root].kind = "dir" /\ \A j \in Inodes : w.ino[j].kind \in {"free", "file"}
    BY <1>1, <1>10 DEF InodesOK
  <2>. QED  BY <2>5, <2>6, <2>7, <2>8, <2>9 DEF InodesOK
<1>12. Whole(w)  BY <1>8, <1>11 DEF Whole
<1>. QED  BY <1>2, <1>6, <1>8, <1>9, <1>12

----------------------------------------------------------------------------
(* The steps of operations. *)

\* Two free blocks serve.
LEMMA PairsServe ==
  ASSUME mem = vol.used, NEW i, NEW x, NEW p \in Pairs(AllocNeed(vol, i, x))
  PROVE  Serve(vol, i, x, p[1], p[2])
<1>1. CASE AllocNeed(vol, i, x) = 2
  <2>1. p \in Fresh  BY <1>1 DEF Pairs
  <2>2. p[1] \in FreeBlocks /\ p[2] \in FreeBlocks /\ p[1] # p[2]  BY <2>1 DEF Fresh
  <2>. QED  BY <1>1, <2>2 DEF Serve, FreeBlocks
<1>2. CASE AllocNeed(vol, i, x) = 1
  <2>1. PICK b \in FreeBlocks : p = <<None, b>>  BY <1>2 DEF Pairs
  <2>. QED  BY <1>2, <2>1 DEF Serve, FreeBlocks
<1>. QED  BY <1>1, <1>2 DEF Serve

LEMMA DirServe ==
  ASSUME mem = vol.used, NEW p \in Pairs(DirNeed(vol))
  PROVE  SlotFree(vol) \/ Serve(vol, Root, vol.ino[Root].size, p[1], p[2])
BY PairsServe DEF DirNeed

\* What holds between operations.
LEMMA IdleFacts ==
  ASSUME WalfsInv, pc = "idle"
  PROVE  /\ Whole(vol) /\ vol = disk /\ mem = vol.used /\ open \in [Handles -> Links] /\ at \in AtType
         /\ \A h \in Handles : open[h] # None => vol.ino[open[h]].kind = "file" /\ open[h] \in Inodes
         /\ \A i \in Orphans(vol) : vol.ino[i].nlink = 0 /\ Trimmed(vol, i) /\ \E h \in Handles : open[h] = i
         /\ \A i \in Named(vol) : i \notin Orphans(vol)
         /\ \A i \in Inodes : vol.ino[i].kind = "file" /\ vol.ino[i].nlink = 0 => i \in Orphans(vol)
<1>1. /\ Whole(vol) /\ vol = disk /\ mem = vol.used /\ open \in [Handles -> Links] /\ at \in AtType
      /\ \A h \in Handles : open[h] # None => vol.ino[open[h]].kind = "file"
  BY DEF WalfsInv, AtOK
<1>2. \A i \in Orphans(vol) : vol.ino[i].nlink = 0 /\ Trimmed(vol, i) /\ \E h \in Handles : open[h] = i
  BY DEF WalfsInv, Mounting, Freeing, Held, IsOpen
<1>3. /\ \A i \in Named(vol) : vol.ino[i].kind = "file" /\ vol.ino[i].nlink = 1
      /\ InodesOK(vol)
  BY <1>1, WholeFacts
<1>4. \A i \in Inodes : vol.ino[i].kind = "file" /\ vol.ino[i].nlink = 0 => i \in Orphans(vol)
  BY <1>3 DEF InodesOK, NoLeakedInode
<1>. QED  BY <1>1, <1>2, <1>3, <1>4 DEF Links

\* An operation that commits and is over.
LEMMA Commits ==
  ASSUME WalfsInv, NEW w, Whole(w), CommitTo(w), mem' = w.used, open' \in [Handles -> Links], at' \in AtType,
         \A h \in Handles : open'[h] # None => w.ino[open'[h]].kind = "file",
         \A i \in Orphans(w) : w.ino[i].nlink = 0 /\ Trimmed(w, i) /\ \E h \in Handles : open'[h] = i
  PROVE  WalfsInv'
<1>1. vol' = w /\ disk' = w /\ pc' = "idle" /\ before' = Tree(w) /\ goal' = Tree(w)  BY DEF CommitTo
<1>2. Whole(vol') /\ Whole(disk') /\ mem' = vol'.used /\ goal' = Tree(vol') /\ before' = Tree(disk')  BY <1>1
<1>3. ~Mounting'  BY <1>1 DEF Mounting
<1>4. AtOK'  BY <1>1 DEF AtOK
<1>5. \A i \in Orphans(vol') : Freeing(i)' \/ Held(vol, i)'  BY <1>1 DEF Held, IsOpen
<1>6. \A h \in Handles : open'[h] # None => vol'.ino[open'[h]].kind = "file"  BY <1>1
<1>. QED  BY <1>1, <1>2, <1>3, <1>4, <1>5, <1>6 DEF WalfsInv

\* An operation or a mount that goes on to free.
LEMMA Frees ==
  ASSUME WalfsInv, NEW w, Whole(w), NEW i \in Orphans(w), NEW keep \in 0 .. Direct + Per,
         NEW back \in {"idle", "trimmed", "mount"}, FreeThen(w, i, keep, back),
         mem' = w.used, open' \in [Handles -> Links],
         \A h \in Handles : open'[h] # None => w.ino[open'[h]].kind = "file" /\ back # "mount",
         back = "idle" => keep = Keep(w.ino[i]) /\ (w.ino[i].nlink = 0 => \A h \in Handles : open'[h] # i),
         back = "trimmed" => w.ino[i].nlink = 0 /\ keep = w.ino[i].size /\ \E h \in Handles : open'[h] = i,
         back = "mount" => keep = Keep(w.ino[i]) /\ w = vol /\ pc = "mount",
         back # "mount" => \A j \in Orphans(w) : j # i =>
           w.ino[j].nlink = 0 /\ Trimmed(w, j) /\ \E h \in Handles : open'[h] = j
  PROVE  WalfsInv'
<1>1. /\ vol' = w /\ pc' = "free" /\ goal' = (IF back = "mount" THEN goal ELSE Tree(w))
      /\ at' = [ino |-> i, next |-> keep, end |-> 0, back |-> back] /\ disk' = disk /\ before' = before
  BY DEF FreeThen
<1>2. at'.ino = i /\ at'.next = keep /\ at'.back = back  BY <1>1
<1>3. at' \in AtType
  <2>1. i \in All  BY WholeFacts
  <2>. QED  BY <2>1, <1>1, Numbers DEF AtType
<1>4. Whole(vol') /\ Whole(disk') /\ mem' = vol'.used /\ before' = Tree(disk')  BY <1>1 DEF WalfsInv
<1>5. goal' = Tree(vol') /\ (Mounting' => before' = goal')
  <2>1. CASE back = "mount"
    <3>1. w = vol /\ pc = "mount"  BY <2>1
    <3>2. goal = Tree(vol) /\ before = goal  BY <3>1 DEF WalfsInv, Mounting
    <3>. QED  BY <3>1, <3>2, <2>1, <1>1
  <2>2. CASE back # "mount"  BY <2>2, <1>1, <1>2 DEF Mounting
  <2>. QED  BY <2>1, <2>2
<1>6. AtOK'
  <2>1. at'.ino \in Orphans(vol')  BY <1>1, <1>2
  <2>2. at'.back = "idle" => at'.next = Keep(vol'.ino[at'.ino]) /\ (vol'.ino[at'.ino].nlink = 0 => ~IsOpen(at.ino)')
    BY <1>1, <1>2 DEF IsOpen
  <2>3. at'.back = "trimmed" => vol'.ino[at'.ino].nlink = 0 /\ at'.next = vol'.ino[at'.ino].size /\ IsOpen(at.ino)'
    BY <1>1, <1>2 DEF IsOpen
  <2>4. at'.back = "mount" => at'.next = Keep(vol'.ino[at'.ino])  BY <1>1, <1>2
  <2>. QED  BY <1>1, <1>3, <2>1, <2>2, <2>3, <2>4 DEF AtOK
<1>7. ~Mounting' => \A j \in Orphans(vol') : Freeing(j)' \/ Held(vol, j)'
  BY <1>1, <1>2 DEF Mounting, Freeing, Held, IsOpen
<1>8. \A h \in Handles : open'[h] # None => vol'.ino[open'[h]].kind = "file" /\ ~Mounting'
  BY <1>1, <1>2 DEF Mounting
<1>. QED  BY <1>1, <1>4, <1>5, <1>6, <1>7, <1>8 DEF WalfsInv

LEMMA CreateStep ==
  ASSUME WalfsInv, NEW n \in Names, Create(n)
  PROVE  WalfsInv'
<1>1. /\ Whole(vol) /\ mem = vol.used /\ open \in [Handles -> Links] /\ at \in AtType
      /\ \A h \in Handles : open[h] # None => vol.ino[open[h]].kind = "file" /\ open[h] \in Inodes
      /\ \A i \in Orphans(vol) : vol.ino[i].nlink = 0 /\ Trimmed(vol, i) /\ \E h \in Handles : open[h] = i
  BY IdleFacts DEF Create, Idle
<1>2. PICK i \in Inodes, p \in Pairs(DirNeed(vol)) :
        /\ vol.ino[i].kind = "free" /\ ~DirFull(vol)
        /\ LET w == AddEntry(WithInode(vol, i, NewFile), n, i, p[1], p[2])
           IN  CommitTo(w) /\ mem' = mem \cup (w.used \ vol.used)
  BY DEF Create, WithInode, NewFile
<1>. DEFINE w == AddEntry(WithInode(vol, i, NewFile), n, i, p[1], p[2])
<1>3. /\ Whole(w) /\ vol.used \subseteq w.used /\ Orphans(w) = Orphans(vol)
      /\ w.ino[i].kind = "file"
      /\ \A j \in All : j # i => SameInode(vol, w, j) /\ (Trimmed(vol, j) => Trimmed(w, j))
  <2>1. SlotFree(vol) \/ Serve(vol, Root, vol.ino[Root].size, p[1], p[2])  BY <1>1, DirServe
  <2>2. vol.name[n] = None  BY DEF Create
  <2>. QED  BY <2>1, <2>2, <1>1, <1>2, CreateWhole
<1>4. CommitTo(w) /\ mem' = mem \cup (w.used \ vol.used)  BY <1>2
<1>. HIDE DEF w
<1>5. open' = open /\ at' = at  BY DEF Create
<1>6. mem' = w.used  BY <1>1, <1>3, <1>4
<1>7. \A j \in Orphans(vol) : vol.ino[j].kind = "file" /\ j \in All  BY <1>1, WholeFacts
<1>8. \A h \in Handles : open'[h] # None => w.ino[open'[h]].kind = "file"
  BY <1>1, <1>3, <1>5 DEF SameInode, All
<1>9. \A j \in Orphans(w) : w.ino[j].nlink = 0 /\ Trimmed(w, j) /\ \E h \in Handles : open'[h] = j
  <2>. TAKE j \in Orphans(w)
  <2>1. j \in Orphans(vol) /\ j \in All /\ j # i  BY <1>2, <1>3, <1>7
  <2>. QED  BY <2>1, <1>1, <1>3, <1>5 DEF SameInode
<1>. QED  BY <1>1, <1>3, <1>4, <1>5, <1>6, <1>8, <1>9, Commits

LEMMA CreateNoSpaceStep ==
  ASSUME WalfsInv, NEW n \in Names, CreateNoSpace(n)
  PROVE  WalfsInv'
<1>1. UNCHANGED <<vol, disk, open, pc, at, before, goal>>  BY DEF CreateNoSpace
<1>2. mem' = mem
  <2>1. PICK taken : taken \subseteq FreeBlocks /\ mem' = Aborted(mem \cup taken, taken)
    BY DEF CreateNoSpace
  <2>. QED  BY <2>1 DEF Aborted, FreeBlocks
<1>. QED  BY <1>1, <1>2 DEF WalfsInv, AtOK, Mounting, Freeing, Held, IsOpen

\* What removing a name leaves to do.
LEMMA UnlinkedStep ==
  ASSUME WalfsInv, pc = "idle", NEW nm \in [Names -> Links], NEW i \in Named(vol),
         \A j : (j # None /\ \E n \in Names : nm[n] = j) <=> j \in Named(vol) /\ j # i,
         \A m, n \in Names : nm[m] # None /\ nm[m] = nm[n] => m = n,
         Unlinked(WithNames(vol, nm), i), UNCHANGED <<mem, open>>
  PROVE  WalfsInv'
<1>1. /\ Whole(vol) /\ mem = vol.used /\ open \in [Handles -> Links] /\ at \in AtType
      /\ \A h \in Handles : open[h] # None => vol.ino[open[h]].kind = "file" /\ open[h] \in Inodes
      /\ \A j \in Orphans(vol) : vol.ino[j].nlink = 0 /\ Trimmed(vol, j) /\ \E h \in Handles : open[h] = j
      /\ i \notin Orphans(vol)
  BY IdleFacts
<1>. DEFINE w == Unlink(WithNames(vol, nm), i)
<1>2. /\ Whole(w) /\ w.used = vol.used /\ w.name = nm /\ Orphans(w) = Orphans(vol) \cup {i}
      /\ w.ino[i].nlink = 0
      /\ \A j \in All : /\ w.ino[j].kind = vol.ino[j].kind /\ (j # i => w.ino[j].nlink = vol.ino[j].nlink)
                        /\ w.ino[j].size = vol.ino[j].size /\ (Trimmed(vol, j) => Trimmed(w, j))
  BY <1>1, UnlinkWhole
<1>3. IF IsOpen(i) THEN CommitTo(w) /\ UNCHANGED at ELSE FreeThen(w, i, 0, "idle")  BY DEF Unlinked
<1>. HIDE DEF w
<1>4. i \in All /\ Trimmed(vol, i) /\ Inodes \subseteq All /\ Orphans(vol) \subseteq All  BY <1>1, WholeFacts
<1>5. \A h \in Handles : open'[h] # None => w.ino[open'[h]].kind = "file"  BY <1>1, <1>2, <1>4
<1>6. \A j \in Orphans(w) : j # i => w.ino[j].nlink = 0 /\ Trimmed(w, j) /\ \E h \in Handles : open'[h] = j
  BY <1>1, <1>2, <1>4
<1>7. mem' = w.used /\ open' \in [Handles -> Links]  BY <1>1, <1>2
<1>8. CASE IsOpen(i)
  <2>1. \E h \in Handles : open'[h] = i  BY <1>8 DEF IsOpen
  <2>2. \A j \in Orphans(w) : w.ino[j].nlink = 0 /\ Trimmed(w, j) /\ \E h \in Handles : open'[h] = j
    BY <2>1, <1>2, <1>4, <1>6
  <2>3. CommitTo(w) /\ at' \in AtType  BY <1>1, <1>3, <1>8
  <2>. QED  BY <2>2, <2>3, <1>2, <1>5, <1>7, Commits
<1>9. CASE ~IsOpen(i)
  <2>1. FreeThen(w, i, 0, "idle")  BY <1>3, <1>9
  <2>2. \A h \in Handles : open'[h] # i  BY <1>9 DEF IsOpen
  <2>3. 0 = Keep(w.ino[i])  BY <1>2 DEF Keep
  <2>4. 0 \in 0 .. Direct + Per /\ i \in Orphans(w)  BY <1>2, Numbers
  <2>. QED  BY <2>1, <2>2, <2>3, <2>4, <1>2, <1>5, <1>6, <1>7, Frees
<1>. QED  BY <1>8, <1>9

LEMMA RemoveStep ==
  ASSUME WalfsInv, NEW n \in Names, Remove(n)
  PROVE  WalfsInv'
<1>1. pc = "idle" /\ vol.name[n] # None /\ UNCHANGED <<mem, open>>  BY DEF Remove, Idle
<1>2. Whole(vol)  BY <1>1, IdleFacts
<1>3. vol \in VolType /\ InodesOK(vol) /\ vol.name \in [Names -> Links]  BY <1>2, WholeFacts, VolParts
<1>. DEFINE nm == [vol.name EXCEPT ![n] = None]
            i == vol.name[n]
<1>4. nm \in [Names -> Links] /\ nm[n] = None /\ \A m \in Names : m # n => nm[m] = vol.name[m]
  BY <1>3 DEF Links
<1>5. Unlinked(WithNames(vol, nm), i)
  <2>1. [vol EXCEPT !.name[n] = None] = WithNames(vol, nm)  BY <1>3 DEF VolType, WithNames
  <2>. QED  BY <2>1 DEF Remove
<1>. HIDE DEF nm
<1>6. \A m, k \in Names : vol.name[m] # None /\ vol.name[m] = vol.name[k] => m = k
  BY <1>3 DEF InodesOK, NamedOnce
<1>7. i \in Named(vol)  BY <1>1, <1>3, NamedIs
<1>8. ASSUME NEW j  PROVE (j # None /\ \E m \in Names : nm[m] = j) <=> j \in Named(vol) /\ j # i
  <2>1. j \in Named(vol) <=> j # None /\ \E m \in Names : vol.name[m] = j  BY <1>3, NamedIs
  <2>. QED  BY <2>1, <1>1, <1>4, <1>6
<1>9. \A m, k \in Names : nm[m] # None /\ nm[m] = nm[k] => m = k  BY <1>4, <1>6, SMTT(30)
<1>. QED  BY <1>1, <1>4, <1>5, <1>7, <1>8, <1>9, UnlinkedStep

LEMMA RenameStep ==
  ASSUME WalfsInv, NEW f \in Names, NEW t \in Names, Rename(f, t)
  PROVE  WalfsInv'
<1>1. pc = "idle" /\ f # t /\ vol.name[f] # None /\ UNCHANGED open  BY DEF Rename, Idle
<1>2. /\ Whole(vol) /\ mem = vol.used /\ open \in [Handles -> Links] /\ at \in AtType
      /\ \A h \in Handles : open[h] # None => vol.ino[open[h]].kind = "file" /\ open[h] \in Inodes
      /\ \A j \in Orphans(vol) : vol.ino[j].nlink = 0 /\ Trimmed(vol, j) /\ \E h \in Handles : open[h] = j
  BY <1>1, IdleFacts
<1>3. vol \in VolType /\ InodesOK(vol) /\ vol.name \in [Names -> Links] /\ Inodes \subseteq All
      /\ Orphans(vol) \subseteq All
  BY <1>2, WholeFacts, VolParts
<1>4. \A m, k \in Names : vol.name[m] # None /\ vol.name[m] = vol.name[k] => m = k
  BY <1>3 DEF InodesOK, NamedOnce
<1>5. CASE /\ vol.name[t] # None
           /\ Unlinked([vol EXCEPT !.name[t] = vol.name[f], !.name[f] = None], vol.name[t])
           /\ UNCHANGED mem
  <2>. DEFINE one == [vol.name EXCEPT ![t] = vol.name[f]]
              nm == [one EXCEPT ![f] = None]
              i == vol.name[t]
  <2>1. vol.name[f] \in Links /\ None \in Links  BY <1>3 DEF Links
  <2>2. /\ nm \in [Names -> Links] /\ nm[f] = None /\ nm[t] = vol.name[f]
        /\ \A m \in Names : m # f /\ m # t => nm[m] = vol.name[m]
    BY <2>1, <1>1, <1>3
  <2>3. Unlinked(WithNames(vol, nm), i)
    <3>1. [vol EXCEPT !.name[t] = vol.name[f], !.name[f] = None] = WithNames(vol, nm)
      BY <1>3 DEF VolType, WithNames
    <3>. QED  BY <3>1, <1>5
  <2>. HIDE DEF nm
  <2>4. i \in Named(vol)  BY <1>3, <1>5, NamedIs
  <2>5. ASSUME NEW j  PROVE (j # None /\ \E m \in Names : nm[m] = j) <=> j \in Named(vol) /\ j # i
    <3>1. j \in Named(vol) <=> j # None /\ \E m \in Names : vol.name[m] = j  BY <1>3, NamedIs
    <3>2. ASSUME j # None, NEW m \in Names, nm[m] = j  PROVE j \in Named(vol) /\ j # i
      <4>1. m # f  BY <3>2, <2>2
      <4>2. CASE m = t  BY <4>2, <3>1, <3>2, <2>2, <1>1, <1>4
      <4>3. CASE m # t  BY <4>1, <4>3, <3>1, <3>2, <2>2, <1>4
      <4>. QED  BY <4>2, <4>3
    <3>3. ASSUME j \in Named(vol), j # i  PROVE j # None /\ \E m \in Names : nm[m] = j
      <4>1. PICK m \in Names : j # None /\ vol.name[m] = j  BY <3>1, <3>3
      <4>2. m # t  BY <4>1, <3>3
      <4>3. CASE m = f  BY <4>1, <4>3, <2>2
      <4>4. CASE m # f  BY <4>1, <4>2, <4>4, <2>2
      <4>. QED  BY <4>3, <4>4
    <3>. QED  BY <3>2, <3>3
  <2>6. ASSUME NEW m \in Names, NEW k \in Names, nm[m] # None, nm[m] = nm[k]  PROVE m = k
    <3>1. m # f /\ k # f  BY <2>6, <2>2
    <3>2. CASE m = t /\ k # t  BY <3>1, <3>2, <2>2, <2>6, <1>4
    <3>3. CASE m # t /\ k = t  BY <3>1, <3>3, <2>2, <2>6, <1>4
    <3>4. CASE m # t /\ k # t  BY <3>1, <3>4, <2>2, <2>6, <1>4
    <3>. QED  BY <3>2, <3>3, <3>4
  <2>7. UNCHANGED <<mem, open>>  BY <1>1, <1>5
  <2>8. nm \in [Names -> Links]  BY <2>2
  <2>. HIDE DEF i
  <2>. QED  BY <1>1, <2>3, <2>4, <2>5, <2>6, <2>7, <2>8, UnlinkedStep
<1>6. CASE /\ vol.name[t] = None /\ ~DirFull(vol)
           /\ \E p \in Pairs(DirNeed(vol)) :
                LET w == AddEntry(vol, t, vol.name[f], p[1], p[2])
                IN  CommitTo([w EXCEPT !.name[f] = None]) /\ mem' = mem \cup (w.used \ vol.used)
           /\ UNCHANGED at
  <2>1. PICK p \in Pairs(DirNeed(vol)) :
          LET w == AddEntry(vol, t, vol.name[f], p[1], p[2])
          IN  CommitTo([w EXCEPT !.name[f] = None]) /\ mem' = mem \cup (w.used \ vol.used)
    BY <1>6
  <2>. DEFINE u == AddEntry(vol, t, vol.name[f], p[1], p[2])
              w == Unnamed(u, f)
  <2>2. SlotFree(vol) \/ Serve(vol, Root, vol.ino[Root].size, p[1], p[2])  BY <1>2, DirServe
  <2>3. /\ Whole(w) /\ vol.used \subseteq w.used /\ w.used = u.used /\ Orphans(w) = Orphans(vol)
        /\ \A j \in All : SameInode(vol, w, j) /\ (Trimmed(vol, j) => Trimmed(w, j))
    <3>1. Renamable(vol, f, t, p[1], p[2])  BY <2>2, <1>1, <1>2, <1>6 DEF Renamable
    <3>2. PICK x, y : x = u /\ y = w  OBVIOUS
    <3>3. /\ Whole(y) /\ vol.used \subseteq y.used /\ y.used = x.used /\ Orphans(y) = Orphans(vol)
          /\ \A j \in All : SameInode(vol, y, j) /\ (Trimmed(vol, j) => Trimmed(y, j))
      BY <3>1, <3>2, RenameWhole
    <3>. QED  BY <3>2, <3>3
  <2>4. CommitTo(w) /\ mem' = w.used
    <3>1. u = WithNames(Roomy(vol, p[1], p[2]), [Roomy(vol, p[1], p[2]).name EXCEPT ![t] = vol.name[f]])
          /\ Roomy(vol, p[1], p[2]) \in VolType
      <4>1. Sane(vol) /\ ~DirFull(vol)  BY <1>2, <1>6, WholeFacts
      <4>2. Roomy(vol, p[1], p[2]) \in VolType  BY <4>1, <2>2, RoomySane DEF Sane
      <4>. QED  BY <4>2, AddEntryIs
    <3>2. u = [Roomy(vol, p[1], p[2]) EXCEPT !.name = [Roomy(vol, p[1], p[2]).name EXCEPT ![t] = vol.name[f]]]
      BY <3>1 DEF WithNames
    <3>. HIDE DEF u
    <3>3. [u EXCEPT !.name[f] = None] = w
      <4>1. PICK r : r = Roomy(vol, p[1], p[2])  OBVIOUS
      <4>2. r \in VolType /\ u = [r EXCEPT !.name = [r.name EXCEPT ![t] = vol.name[f]]]  BY <4>1, <3>1, <3>2
      <4>. QED  BY <4>2 DEF VolType, WithNames, Unnamed
    <3>4. CommitTo([u EXCEPT !.name[f] = None]) /\ mem' = mem \cup (u.used \ vol.used)  BY <2>1 DEF u
    <3>5. CommitTo(w)  BY <3>3, <3>4
    <3>. HIDE DEF w
    <3>. QED  BY <3>4, <3>5, <2>3, <1>2
  <2>. HIDE DEF w
  <2>5. \A h \in Handles : open'[h] # None => w.ino[open'[h]].kind = "file"
    BY <2>3, <1>1, <1>2, <1>3 DEF SameInode
  <2>6. \A j \in Orphans(w) : w.ino[j].nlink = 0 /\ Trimmed(w, j) /\ \E h \in Handles : open'[h] = j
    BY <2>3, <1>1, <1>2, <1>3 DEF SameInode
  <2>7. open' \in [Handles -> Links] /\ at' \in AtType  BY <1>1, <1>2, <1>6
  <2>8. Whole(w) /\ CommitTo(w) /\ mem' = w.used  BY <2>3, <2>4
  <2>. QED  BY <2>5, <2>6, <2>7, <2>8, Commits
<1>. QED  BY <1>5, <1>6 DEF Rename

\* A named file cut short, its blocks to be freed through the orphan list.
LEMMA Trims ==
  ASSUME WalfsInv, pc = "idle", NEW i \in Inodes, vol.ino[i].kind = "file", vol.ino[i].nlink # 0,
         NEW size \in 0 .. Direct + Per, size < vol.ino[i].size,
         Trim(WithSize(vol, i, size), i), mem' = mem, open' \in [Handles -> Links],
         \A g \in Handles : open'[g] # None => open'[g] \in Inodes /\ vol.ino[open'[g]].kind = "file",
         \A j \in Orphans(vol) : \E g \in Handles : open'[g] = j
  PROVE  WalfsInv'
<1>. DEFINE v == WithSize(vol, i, size)
            w == OrphanLink(v, i)
<1>1. /\ Whole(vol) /\ mem = vol.used
      /\ \A j \in Orphans(vol) : vol.ino[j].nlink = 0 /\ Trimmed(vol, j)
  BY IdleFacts
<1>2. Inodes \subseteq All /\ Orphans(vol) \subseteq All /\ vol \in VolType  BY <1>1, WholeFacts
<1>3. i \in All /\ size \in Int /\ vol.ino[i].size \in Int  BY <1>2, VolParts, Numbers
<1>4. SameInode(vol, v, i) /\ v.ino[i].size = size  BY <1>2, <1>3, SetSize
<1>5. i \notin Orphans(vol)  BY <1>1
<1>6. /\ Whole(w) /\ w.used = vol.used /\ Orphans(w) = Orphans(vol) \cup {i} /\ w.ino[i].size = size
      /\ \A j \in All : /\ w.ino[j].kind = vol.ino[j].kind /\ w.ino[j].nlink = vol.ino[j].nlink
                        /\ (j # i => (Trimmed(vol, j) => Trimmed(w, j)))
  BY <1>1, <1>3, <1>5, CutWhole
<1>7. FreeThen(w, i, size, "idle") /\ mem' = w.used  BY <1>1, <1>4, <1>6 DEF Trim, SameInode
<1>. HIDE DEF v, w
<1>8. \A g \in Handles : open'[g] # None => w.ino[open'[g]].kind = "file"  BY <1>6, <1>2
<1>9. \A j \in Orphans(w) : j # i => w.ino[j].nlink = 0 /\ Trimmed(w, j) /\ \E g \in Handles : open'[g] = j
  BY <1>6, <1>1, <1>2
<1>10. w.ino[i].nlink # 0 /\ size = Keep(w.ino[i]) /\ i \in Orphans(w)  BY <1>6, <1>3 DEF Keep
<1>. QED  BY <1>6, <1>7, <1>8, <1>9, <1>10, Frees

LEMMA OpenStep ==
  ASSUME WalfsInv, NEW n \in Names, NEW h \in Handles, Open(n, h)
  PROVE  WalfsInv'
<1>. DEFINE i == vol.name[n]
<1>1. /\ pc = "idle" /\ open[h] = None /\ i # None /\ open' = [open EXCEPT ![h] = i] /\ mem' = mem
      /\ \/ UNCHANGED <<vol, disk, pc, at, before, goal>>
         \/ vol.ino[i].size > 0 /\ Trim(WithSize(vol, i, 0), i)
  BY DEF Open, Idle, WithSize
<1>2. /\ Whole(vol) /\ open \in [Handles -> Links]
      /\ \A g \in Handles : open[g] # None => vol.ino[open[g]].kind = "file" /\ open[g] \in Inodes
      /\ \A j \in Orphans(vol) : vol.ino[j].nlink = 0 /\ Trimmed(vol, j) /\ \E g \in Handles : open[g] = j
  BY <1>1, IdleFacts
<1>3. /\ vol \in VolType /\ i \in Named(vol) /\ i \in Inodes /\ vol.ino[i].kind = "file" /\ vol.ino[i].nlink = 1
      /\ Orphans(vol) \subseteq Inodes
  BY <1>1, <1>2, WholeFacts, NamedIs
<1>. HIDE DEF i
<1>4. open' \in [Handles -> Links] /\ open'[h] = i /\ \A g \in Handles : g # h => open'[g] = open[g]
  BY <1>1, <1>2, <1>3 DEF Links
<1>5. \A g \in Handles : open'[g] # None => open'[g] \in Inodes /\ vol.ino[open'[g]].kind = "file"
  BY <1>2, <1>3, <1>4
<1>6. ASSUME NEW j \in Orphans(vol)  PROVE \E g \in Handles : open'[g] = j
  <2>1. PICK g \in Handles : open[g] = j  BY <1>2
  <2>2. g # h  BY <2>1, <1>1, <1>3, Numbers
  <2>. QED  BY <2>1, <2>2, <1>4
<1>7. CASE UNCHANGED <<vol, disk, pc, at, before, goal>>
  <2>1. ~Mounting /\ ~Mounting'  BY <1>1, <1>7 DEF Mounting
  <2>2. \A g \in Handles : open'[g] # None => vol'.ino[open'[g]].kind = "file" /\ ~Mounting'
    BY <2>1, <1>5, <1>7
  <2>3. \A j \in Orphans(vol') : Held(vol, j)'  BY <1>2, <1>6, <1>7 DEF Held, IsOpen
  <2>4. AtOK'  BY <1>1, <1>7 DEF WalfsInv, AtOK
  <2>. QED  BY <1>1, <1>4, <1>7, <2>1, <2>2, <2>3, <2>4 DEF WalfsInv
<1>8. CASE vol.ino[i].size > 0 /\ Trim(WithSize(vol, i, 0), i)
  <2>1. vol.ino[i].size \in Int /\ 0 \in 0 .. Direct + Per
    BY <1>2, <1>3, WholeFacts, VolParts, Numbers
  <2>2. 0 < vol.ino[i].size  BY <2>1, <1>8
  <2>. QED  BY <2>1, <2>2, <1>1, <1>3, <1>4, <1>5, <1>6, <1>8, Trims
<1>. QED  BY <1>1, <1>7, <1>8

LEMMA CloseStep ==
  ASSUME WalfsInv, NEW h \in Handles, Close(h)
  PROVE  WalfsInv'
<1>1. pc = "idle" /\ open[h] # None /\ open' = [open EXCEPT ![h] = None] /\ mem' = mem
  BY DEF Close, Idle
<1>2. /\ Whole(vol) /\ vol = disk /\ mem = vol.used /\ open \in [Handles -> Links] /\ at \in AtType
      /\ \A g \in Handles : open[g] # None => vol.ino[open[g]].kind = "file" /\ open[g] \in Inodes
      /\ \A i \in Orphans(vol) : vol.ino[i].nlink = 0 /\ Trimmed(vol, i) /\ \E g \in Handles : open[g] = i
      /\ \A i \in Inodes : vol.ino[i].kind = "file" /\ vol.ino[i].nlink = 0 => i \in Orphans(vol)
  BY <1>1, IdleFacts
<1>. DEFINE i == open[h]
<1>3. i \in Inodes /\ vol.ino[i].kind = "file"  BY <1>1, <1>2
<1>4. open' \in [Handles -> Links] /\ open'[h] = None /\ \A g \in Handles : g # h => open'[g] = open[g]
  BY <1>1, <1>2 DEF Links
<1>5. \A g \in Handles : open'[g] # None => vol.ino[open'[g]].kind = "file"  BY <1>2, <1>4
<1>6. CASE vol.ino[i].nlink = 0 /\ ~ \E g \in Handles \ {h} : open[g] = i
  <2>1. FreeThen(vol, i, 0, "idle")  BY <1>6 DEF Close
  <2>2. i \in Orphans(vol)  BY <1>2, <1>3, <1>6
  <2>3. \A g \in Handles : open'[g] # i  BY <1>3, <1>4, <1>6, Numbers
  <2>4. 0 = Keep(vol.ino[i]) /\ 0 \in 0 .. Direct + Per  BY <1>6, Numbers DEF Keep
  <2>5. \A j \in Orphans(vol) : j # i =>
          vol.ino[j].nlink = 0 /\ Trimmed(vol, j) /\ \E g \in Handles : open'[g] = j
    BY <1>2, <1>4
  <2>6. mem' = vol.used /\ open' \in [Handles -> Links]  BY <1>1, <1>2, <1>4
  <2>. HIDE DEF i
  <2>. QED  BY <2>1, <2>2, <2>3, <2>4, <2>5, <2>6, <1>2, <1>5, Frees
<1>7. CASE ~(vol.ino[i].nlink = 0 /\ ~ \E g \in Handles \ {h} : open[g] = i)
  <2>1. UNCHANGED <<vol, disk, pc, at, before, goal>>  BY <1>7 DEF Close
  <2>2. ~Mounting /\ ~Mounting'  BY <1>1, <2>1 DEF Mounting
  <2>3. \A j \in Orphans(vol') : Held(vol, j)'
    <3>. SUFFICES ASSUME NEW j \in Orphans(vol)  PROVE Held(vol, j)'
      BY <2>1
    <3>1. vol.ino[j].nlink = 0 /\ Trimmed(vol, j)  BY <1>2
    <3>2. \E g \in Handles : open'[g] = j
      <4>1. CASE j = i  BY <4>1, <3>1, <1>4, <1>7
      <4>2. CASE j # i  BY <4>2, <1>2, <1>4
      <4>. QED  BY <4>1, <4>2
    <3>. QED  BY <3>1, <3>2, <2>1 DEF Held, IsOpen
  <2>4. \A g \in Handles : open'[g] # None => vol'.ino[open'[g]].kind = "file" /\ ~Mounting'
    BY <2>1, <2>2, <1>5
  <2>5. AtOK'  BY <1>1, <2>1 DEF WalfsInv, AtOK
  <2>. QED  BY <1>1, <1>4, <2>1, <2>2, <2>3, <2>4, <2>5 DEF WalfsInv
<1>. QED  BY <1>6, <1>7

LEMMA TruncateStep ==
  ASSUME WalfsInv, NEW h \in Handles, NEW size \in 0 .. MaxSize, Truncate(h, size)
  PROVE  WalfsInv'
<1>1. pc = "idle" /\ open[h] # None /\ UNCHANGED <<mem, open>>  BY DEF Truncate, Idle
<1>2. /\ Whole(vol) /\ mem = vol.used /\ open \in [Handles -> Links] /\ at \in AtType
      /\ \A g \in Handles : open[g] # None => vol.ino[open[g]].kind = "file" /\ open[g] \in Inodes
      /\ \A i \in Orphans(vol) : vol.ino[i].nlink = 0 /\ Trimmed(vol, i) /\ \E g \in Handles : open[g] = i
      /\ \A i \in Inodes : vol.ino[i].kind = "file" /\ vol.ino[i].nlink = 0 => i \in Orphans(vol)
  BY <1>1, IdleFacts
<1>. DEFINE i == open[h]
            v == WithSize(vol, i, size)
<1>3. i \in Inodes /\ vol.ino[i].kind = "file"  BY <1>1, <1>2
<1>4. Inodes \subseteq All /\ Orphans(vol) \subseteq All /\ vol \in VolType  BY <1>2, WholeFacts
<1>5. size \in 0 .. Direct + Per /\ size \in Int /\ vol.ino[i].size \in Int /\ vol.ino[i].nlink \in {0, 1}
  <2>1. size \in 0 .. Direct + Per /\ size \in Int  BY Numbers
  <2>2. vol.ino[i].size \in Int /\ vol.ino[i].nlink \in {0, 1}  BY <1>3, <1>4, VolParts
  <2>. QED  BY <2>1, <2>2
<1>6. v.ino[i].nlink = vol.ino[i].nlink /\ v.ino[i].size = size
  <2>1. i \in All  BY <1>3, <1>4
  <2>2. SameInode(vol, v, i) /\ v.ino[i].size = size  BY <2>1, <1>4, <1>5, SetSize
  <2>. QED  BY <2>2 DEF SameInode
<1>7. IF size >= vol.ino[i].size THEN CommitTo(v) /\ UNCHANGED at
      ELSE Trim(v, i)
  BY DEF Truncate, WithSize
<1>8. open' \in [Handles -> Links]  BY <1>1, <1>2
<1>9. CASE size >= vol.ino[i].size
  <2>. HIDE DEF i
  <2>1. /\ Whole(v) /\ v.used = vol.used /\ Orphans(v) = Orphans(vol)
        /\ \A j \in All : SameInode(vol, v, j) /\ (Trimmed(vol, j) => Trimmed(v, j))
    BY <1>2, <1>3, <1>5, <1>9, SizedWhole
  <2>2. CommitTo(v) /\ at' \in AtType /\ mem' = v.used  BY <1>1, <1>2, <1>7, <1>9, <2>1
  <2>. HIDE DEF v
  <2>3. \A g \in Handles : open'[g] # None => v.ino[open'[g]].kind = "file"
    BY <2>1, <1>1, <1>2, <1>4 DEF SameInode
  <2>4. \A j \in Orphans(v) : v.ino[j].nlink = 0 /\ Trimmed(v, j) /\ \E g \in Handles : open'[g] = j
    BY <2>1, <1>1, <1>2, <1>4 DEF SameInode
  <2>. QED  BY <2>1, <2>2, <2>3, <2>4, <1>8, Commits
<1>10. CASE ~(size >= vol.ino[i].size) /\ vol.ino[i].nlink = 0
  <2>1. i \in Orphans(vol) /\ \E g \in Handles : open'[g] = i  BY <1>1, <1>2, <1>3, <1>10
  <2>. HIDE DEF i
  <2>2. /\ Whole(v) /\ v.used = vol.used /\ Orphans(v) = Orphans(vol) /\ v.ino[i].size = size
        /\ \A j \in All : SameInode(vol, v, j) /\ (j # i => (Trimmed(vol, j) => Trimmed(v, j)))
    BY <1>2, <1>3, <1>5, <2>1, SizedWhole
  <2>3. FreeThen(v, i, size, "trimmed") /\ mem' = v.used  BY <1>1, <1>2, <1>6, <1>7, <1>10, <2>2 DEF Trim
  <2>. HIDE DEF v
  <2>4. \A g \in Handles : open'[g] # None => v.ino[open'[g]].kind = "file"
    BY <2>2, <1>1, <1>2, <1>4 DEF SameInode
  <2>5. \A j \in Orphans(v) : j # i => v.ino[j].nlink = 0 /\ Trimmed(v, j) /\ \E g \in Handles : open'[g] = j
    BY <2>2, <1>1, <1>2, <1>4 DEF SameInode
  <2>6. v.ino[i].nlink = 0 /\ size = v.ino[i].size /\ i \in Orphans(v)  BY <2>1, <2>2, <1>6, <1>10
  <2>. QED  BY <2>1, <2>2, <2>3, <2>4, <2>5, <2>6, <1>5, <1>8, Frees
<1>11. CASE ~(size >= vol.ino[i].size) /\ vol.ino[i].nlink # 0
  <2>1. Trim(v, i) /\ size < vol.ino[i].size  BY <1>5, <1>7, <1>11
  <2>2. \A g \in Handles : open'[g] # None => open'[g] \in Inodes /\ vol.ino[open'[g]].kind = "file"
    BY <1>1, <1>2
  <2>3. \A j \in Orphans(vol) : \E g \in Handles : open'[g] = j  BY <1>1, <1>2
  <2>. HIDE DEF i
  <2>. QED  BY <2>1, <2>2, <2>3, <1>1, <1>3, <1>5, <1>8, <1>11, Trims
<1>. QED  BY <1>9, <1>10, <1>11

LEMMA WriteStep ==
  ASSUME WalfsInv, NEW h \in Handles, NEW from \in 0 .. MaxSize, NEW to \in 0 .. MaxSize, Write(h, from, to)
  PROVE  WalfsInv'
<1>1. /\ pc = "idle" /\ open[h] # None /\ from < to /\ pc' = "write"
      /\ at' = [ino |-> open[h], next |-> from, end |-> to, back |-> "idle"]
      /\ UNCHANGED <<vol, disk, mem, open, before, goal>>
  BY DEF Write, Idle
<1>2. open[h] \in Inodes /\ vol.ino[open[h]].kind = "file"  BY <1>1, IdleFacts
<1>3. from \in 0 .. Direct + Per /\ to \in 0 .. Direct + Per /\ from <= to  BY <1>1, Numbers
<1>4. at'.ino = open[h] /\ at'.next = from /\ at'.end = to /\ at' \in AtType  BY <1>1, <1>2, <1>3 DEF AtType, All
<1>5. AtOK'  BY <1>1, <1>2, <1>3, <1>4 DEF AtOK
<1>6. ~Mounting /\ ~Mounting'  BY <1>1 DEF Mounting
<1>7. \A i \in Orphans(vol') : Held(vol, i)'
  <2>1. \A i \in Orphans(vol) : Held(vol, i)  BY <1>1, <1>6 DEF WalfsInv, Freeing
  <2>. QED  BY <2>1, <1>1 DEF Held, IsOpen
<1>8. \A g \in Handles : open'[g] # None => vol'.ino[open'[g]].kind = "file" /\ ~Mounting'
  BY <1>1, <1>6 DEF WalfsInv
<1>. QED  BY <1>1, <1>5, <1>6, <1>7, <1>8 DEF WalfsInv

LEMMA MakeRoomStep ==
  ASSUME WalfsInv, MakeRoom
  PROVE  WalfsInv'
<1>1. pc \in {"write", "free"} /\ disk' = vol /\ before' = goal /\ UNCHANGED <<vol, mem, open, pc, at, goal>>
  BY DEF MakeRoom
<1>2. /\ Whole(vol) /\ mem = vol.used /\ open \in [Handles -> Links] /\ goal = Tree(vol)
      /\ \A h \in Handles : open[h] # None => vol.ino[open[h]].kind = "file" /\ ~Mounting
      /\ ~Mounting => \A i \in Orphans(vol) : Freeing(i) \/ Held(vol, i)
      /\ AtOK
  BY DEF WalfsInv
<1>3. Mounting' <=> Mounting  BY <1>1 DEF Mounting
<1>4. AtOK'  BY <1>1, <1>2 DEF AtOK, IsOpen
<1>5. ~Mounting' => \A i \in Orphans(vol') : Freeing(i)' \/ Held(vol, i)'
  BY <1>1, <1>2, <1>3 DEF Freeing, Held, IsOpen
<1>6. \A h \in Handles : open'[h] # None => vol'.ino[open'[h]].kind = "file" /\ ~Mounting'  BY <1>1, <1>2, <1>3
<1>7. Whole(vol') /\ Whole(disk') /\ mem' = vol'.used /\ goal' = Tree(vol') /\ before' = Tree(disk')
      /\ before' = goal' /\ pc' \in {"write", "free"} /\ open' \in [Handles -> Links]
  BY <1>1, <1>2
<1>. QED  BY <1>4, <1>5, <1>6, <1>7 DEF WalfsInv

\* What holds inside a write.
LEMMA WriteFacts ==
  ASSUME WalfsInv, pc = "write"
  PROVE  /\ Whole(vol) /\ mem = vol.used /\ open \in [Handles -> Links] /\ at \in AtType
         /\ \A h \in Handles : open[h] # None => vol.ino[open[h]].kind = "file" /\ open[h] \in Inodes
         /\ \A i \in Orphans(vol) : vol.ino[i].nlink = 0 /\ Trimmed(vol, i) /\ \E h \in Handles : open[h] = i
         /\ at.ino \in Inodes /\ vol.ino[at.ino].kind = "file" /\ at.next <= at.end
<1>1. /\ Whole(vol) /\ mem = vol.used /\ open \in [Handles -> Links] /\ at \in AtType
      /\ \A h \in Handles : open[h] # None => vol.ino[open[h]].kind = "file"
      /\ at.ino \in Inodes /\ vol.ino[at.ino].kind = "file" /\ at.next <= at.end
  BY DEF WalfsInv, AtOK
<1>2. \A i \in Orphans(vol) : vol.ino[i].nlink = 0 /\ Trimmed(vol, i) /\ \E h \in Handles : open[h] = i
  BY DEF WalfsInv, Mounting, Freeing, Held, IsOpen
<1>. QED  BY <1>1, <1>2 DEF Links

LEMMA WriteBlockStep ==
  ASSUME WalfsInv, WriteBlock
  PROVE  WalfsInv'
<1>1. /\ pc = "write" /\ at.next < at.end /\ at' = [at EXCEPT !.next = @ + 1]
      /\ UNCHANGED <<disk, open, pc, before>>
  BY DEF WriteBlock
<1>2. /\ Whole(vol) /\ mem = vol.used /\ open \in [Handles -> Links] /\ at \in AtType
      /\ \A h \in Handles : open[h] # None => vol.ino[open[h]].kind = "file" /\ open[h] \in Inodes
      /\ \A j \in Orphans(vol) : vol.ino[j].nlink = 0 /\ Trimmed(vol, j) /\ \E h \in Handles : open[h] = j
      /\ at.ino \in Inodes /\ vol.ino[at.ino].kind = "file"
  BY <1>1, WriteFacts
<1>3. /\ Sane(vol) /\ InodesOK(vol) /\ vol \in VolType /\ vol.used = Used(vol) /\ NoSharedBlock(vol)
      /\ Inodes \subseteq All /\ Orphans(vol) \subseteq All /\ Root \notin Inodes
  BY <1>2, WholeFacts
<1>4. PICK i, x : i = at.ino /\ x = at.next  OBVIOUS
<1>5. i \in Inodes /\ i \in All /\ vol.ino[i].kind = "file" /\ i # Root  BY <1>2, <1>3, <1>4
<1>6. x \in Idx /\ x \in Nat /\ x + 1 \in 0 .. Direct + Per /\ x + 1 <= at.end
  <2>1. x \in 0 .. Direct + Per /\ at.end \in 0 .. Direct + Per /\ x < at.end  BY <1>1, <1>2, <1>4 DEF AtType
  <2>. QED  BY <2>1, Numbers
<1>7. PICK p \in Pairs(AllocNeed(vol, i, x)) :
        LET w == [Mapped(vol, i, x, p[1], p[2]) EXCEPT !.ino[i].size = IF @ > x THEN @ ELSE x + 1]
        IN  vol' = w /\ mem' = mem \cup (w.used \ vol.used) /\ goal' = Tree(w)
  BY <1>4, ZenonT(60) DEF WriteBlock
<1>8. Serve(vol, i, x, p[1], p[2])  BY <1>2, PairsServe
<1>. DEFINE m == Mapped(vol, i, x, p[1], p[2])
            z == IF vol.ino[i].size > x THEN vol.ino[i].size ELSE x + 1
            w == WithSize(m, i, z)
<1>9. m \in VolType /\ m.ino[i].size = vol.ino[i].size
  <2>1. PICK u : u = m  OBVIOUS
  <2>2. u \in VolType /\ u.ino[i].size = vol.ino[i].size  BY <2>1, <1>3, <1>5, <1>6, <1>8, MapEffect
  <2>. QED  BY <2>1, <2>2
<1>10. z \in 0 .. Direct + Per /\ z >= vol.ino[i].size /\ z > x
  <2>1. vol.ino[i].size \in 0 .. Direct + Per  BY <1>3, <1>5, VolParts
  <2>. QED  BY <2>1, <1>6, Numbers
<1>11. vol' = w /\ mem' = mem \cup (w.used \ vol.used) /\ goal' = Tree(w)
  <2>. HIDE DEF m
  <2>1. [m EXCEPT !.ino[i].size = IF @ > x THEN @ ELSE x + 1] = w
    <3>1. m.ino \in [All -> InodeType]  BY <1>9, VolParts
    <3>2. PICK q \in All : q = i  BY <1>5
    <3>. QED  BY <1>9, <3>1, <3>2 DEF WithSize, VolType, InodeType
  <2>2. LET y == [m EXCEPT !.ino[i].size = IF @ > x THEN @ ELSE x + 1]
        IN  vol' = y /\ mem' = mem \cup (y.used \ vol.used) /\ goal' = Tree(y)
    BY <1>7 DEF m
  <2>. QED  BY <2>1, <2>2
<1>. HIDE DEF z
<1>12. /\ Sane(w) /\ w.name = vol.name /\ w.head = vol.head /\ Orphans(w) = Orphans(vol) /\ vol.used \subseteq w.used
       /\ \A j \in All : SameInode(vol, w, j) /\ (Trimmed(vol, j) => Trimmed(w, j))
  <2>1. PICK y : y = w  OBVIOUS
  <2>2. /\ Sane(y) /\ y.name = vol.name /\ y.head = vol.head /\ Orphans(y) = Orphans(vol) /\ vol.used \subseteq y.used
        /\ \A j \in All : SameInode(vol, y, j) /\ (Trimmed(vol, j) => Trimmed(y, j))
    BY <2>1, <1>3, <1>5, <1>6, <1>8, <1>10, Extended
  <2>. QED  BY <2>1, <2>2
<1>. HIDE DEF w
<1>13. Whole(w)
  <2>1. w \in VolType  BY <1>12 DEF Sane
  <2>2. \A j \in All : w.ino[j].kind = vol.ino[j].kind /\ w.ino[j].nlink = vol.ino[j].nlink
    BY <1>12 DEF SameInode
  <2>3. InodesOK(w)  BY <2>1, <2>2, <1>3, <1>12, InodesSame
  <2>. QED  BY <2>3, <1>12 DEF Whole
<1>14. mem' = vol'.used /\ goal' = Tree(vol') /\ Whole(vol')  BY <1>2, <1>11, <1>12, <1>13
<1>15. ~Mounting'  BY <1>1 DEF Mounting
<1>16. \A h \in Handles : open'[h] # None => vol'.ino[open'[h]].kind = "file" /\ ~Mounting'
  BY <1>1, <1>2, <1>3, <1>11, <1>12, <1>15 DEF SameInode
<1>17. \A j \in Orphans(vol') : Held(vol, j)'
  <2>. SUFFICES ASSUME NEW j \in Orphans(vol)  PROVE Held(vol, j)'
    BY <1>11, <1>12
  <2>1. w.ino[j].nlink = 0 /\ Trimmed(w, j) /\ \E h \in Handles : open[h] = j
    BY <1>2, <1>3, <1>12 DEF SameInode
  <2>. QED  BY <2>1, <1>1, <1>11 DEF Held, IsOpen
<1>18. AtOK'
  <2>1. at' \in AtType /\ at'.ino = i /\ at'.next = x + 1 /\ at'.end = at.end
    BY <1>1, <1>2, <1>4, <1>6 DEF AtType
  <2>2. vol'.ino[i].kind = "file"  BY <1>5, <1>11, <1>12 DEF SameInode
  <2>. QED  BY <2>1, <2>2, <1>1, <1>5, <1>6 DEF AtOK
<1>19. Whole(disk') /\ before' = Tree(disk') /\ open' \in [Handles -> Links] /\ pc' = "write"
  BY <1>1, <1>2 DEF WalfsInv
<1>. QED  BY <1>14, <1>15, <1>16, <1>17, <1>18, <1>19, SMTT(30) DEF WalfsInv

LEMMA WriteEndStep ==
  ASSUME WalfsInv, WriteEnd
  PROVE  WalfsInv'
<1>1. pc = "write" /\ CommitTo(vol) /\ UNCHANGED <<mem, open, at>>  BY DEF WriteEnd
<1>2. /\ Whole(vol) /\ mem' = vol.used /\ open' \in [Handles -> Links] /\ at' \in AtType
      /\ \A h \in Handles : open'[h] # None => vol.ino[open'[h]].kind = "file"
      /\ \A i \in Orphans(vol) : vol.ino[i].nlink = 0 /\ Trimmed(vol, i) /\ \E h \in Handles : open'[h] = i
  BY <1>1, WriteFacts
<1>. QED  BY <1>1, <1>2, Commits

----------------------------------------------------------------------------
(* Power loss and mount. *)

LEMMA CutStep ==
  ASSUME WalfsInv, Cut
  PROVE  WalfsInv'
<1>1. /\ vol' = disk /\ mem' = disk.used /\ open' = [h \in Handles |-> None] /\ pc' = "mount"
      /\ before' = Tree(disk) /\ goal' = Tree(disk) /\ disk' = disk /\ at' = at
  BY DEF Cut
<1>2. Whole(disk) /\ at \in AtType  BY DEF WalfsInv, AtOK
<1>3. open' \in [Handles -> Links] /\ \A h \in Handles : open'[h] = None  BY <1>1 DEF Links
<1>4. AtOK'  BY <1>1, <1>2 DEF AtOK
<1>5. Mounting'  BY <1>1 DEF Mounting
<1>6. Whole(vol') /\ Whole(disk') /\ mem' = vol'.used /\ goal' = Tree(vol') /\ before' = Tree(disk')
      /\ before' = goal' /\ vol' = disk'
  BY <1>1, <1>2
<1>. QED  BY <1>1, <1>3, <1>4, <1>5, <1>6 DEF WalfsInv

\* What holds of a volume being mounted.
LEMMA MountFacts ==
  ASSUME WalfsInv, Mounting
  PROVE  /\ Whole(vol) /\ mem = vol.used /\ open \in [Handles -> Links] /\ \A h \in Handles : open[h] = None
         /\ goal = Tree(vol) /\ before = goal /\ at \in AtType
BY DEF WalfsInv, AtOK

LEMMA MountOrphanStep ==
  ASSUME WalfsInv, MountOrphan
  PROVE  WalfsInv'
<1>1. pc = "mount" /\ vol.head # None /\ UNCHANGED <<mem, open>>  BY DEF MountOrphan
<1>2. Mounting  BY <1>1 DEF Mounting
<1>3. Whole(vol) /\ mem = vol.used /\ open \in [Handles -> Links] /\ \A h \in Handles : open[h] = None
  BY <1>2, MountFacts
<1>4. vol \in VolType /\ \A i \in Orphans(vol) : vol.ino[i].kind = "file" /\ i \in All  BY <1>3, WholeFacts
<1>. DEFINE i == vol.head
            keep == Keep(vol.ino[i])
<1>5. i \in Orphans(vol)  BY <1>1, <1>4, OrphansIs DEF Linked
<1>6. keep \in 0 .. Direct + Per
  <2>1. vol.ino[i].size \in 0 .. Direct + Per  BY <1>4, <1>5, VolParts
  <2>. QED  BY <2>1, Numbers DEF Keep
<1>7. FreeThen(vol, i, keep, "mount")  BY <1>4, <1>5 DEF MountOrphan
<1>8. keep = Keep(vol.ino[i])  OBVIOUS
<1>. HIDE DEF i, keep
<1>9. mem' = vol.used /\ open' \in [Handles -> Links] /\ \A h \in Handles : open'[h] = None  BY <1>1, <1>3
<1>. QED  BY <1>1, <1>3, <1>5, <1>6, <1>7, <1>8, <1>9, Frees

LEMMA MountedStep ==
  ASSUME WalfsInv, Mounted
  PROVE  WalfsInv'
<1>1. /\ pc = "mount" /\ vol.head = None /\ pc' = "idle"
      /\ UNCHANGED <<vol, disk, mem, open, at, before, goal>>
  BY DEF Mounted
<1>2. Mounting  BY <1>1 DEF Mounting
<1>3. /\ Whole(vol) /\ mem = vol.used /\ open \in [Handles -> Links] /\ \A h \in Handles : open[h] = None
      /\ goal = Tree(vol) /\ before = goal /\ at \in AtType
  BY <1>2, MountFacts
<1>4. vol = disk  BY <1>1 DEF WalfsInv
<1>5. Orphans(vol) = {}
  <2>1. vol \in VolType  BY <1>3, WholeFacts
  <2>2. Linked(vol, {})  BY <1>1 DEF Linked
  <2>. QED  BY <2>1, <2>2, OrphansIs
<1>6. AtOK'  BY <1>1, <1>3 DEF AtOK
<1>7. ~Mounting'  BY <1>1 DEF Mounting
<1>8. Whole(vol') /\ Whole(disk') /\ mem' = vol'.used /\ goal' = Tree(vol') /\ before' = Tree(disk')
      /\ vol' = disk' /\ open' \in [Handles -> Links] /\ Orphans(vol') = {} /\ \A h \in Handles : open'[h] = None
  BY <1>1, <1>3, <1>4, <1>5
<1>. QED  BY <1>1, <1>6, <1>7, <1>8 DEF WalfsInv

----------------------------------------------------------------------------
(* Freeing. *)

\* What holds while an inode's blocks are freed.
LEMMA FreeFacts ==
  ASSUME WalfsInv, pc = "free"
  PROVE  /\ Whole(vol) /\ Whole(disk) /\ mem = vol.used /\ open \in [Handles -> Links] /\ at \in AtType
         /\ \A h \in Handles : open[h] # None => vol.ino[open[h]].kind = "file" /\ open[h] \in Inodes /\ at.back # "mount"
         /\ at.ino \in Orphans(vol) /\ at.ino \in All /\ at.next \in Nat
         /\ vol.ino[at.ino].nlink \in {0, 1} /\ vol.ino[at.ino].size \in Nat
         /\ at.back # "trimmed" => at.next = Keep(vol.ino[at.ino])
         /\ at.back = "trimmed" => at.next = vol.ino[at.ino].size /\ vol.ino[at.ino].nlink = 0 /\ IsOpen(at.ino)
         /\ at.back = "idle" /\ vol.ino[at.ino].nlink = 0 => ~IsOpen(at.ino)
         /\ goal = Tree(vol) /\ before = Tree(disk) /\ (at.back = "mount" => before = goal)
         /\ at.back # "mount" => \A j \in Orphans(vol) : j = at.ino \/ Held(vol, j)
<1>1. /\ Whole(vol) /\ Whole(disk) /\ mem = vol.used /\ open \in [Handles -> Links] /\ AtOK
      /\ \A h \in Handles : open[h] # None => vol.ino[open[h]].kind = "file" /\ ~Mounting
      /\ goal = Tree(vol) /\ before = Tree(disk) /\ (Mounting => before = goal)
      /\ ~Mounting => \A j \in Orphans(vol) : Freeing(j) \/ Held(vol, j)
  BY DEF WalfsInv
<1>2. Mounting <=> at.back = "mount"  BY DEF Mounting
<1>3. /\ at \in AtType /\ at.ino \in Orphans(vol)
      /\ at.back = "idle" => at.next = Keep(vol.ino[at.ino]) /\ (vol.ino[at.ino].nlink = 0 => ~IsOpen(at.ino))
      /\ at.back = "trimmed" => vol.ino[at.ino].nlink = 0 /\ at.next = vol.ino[at.ino].size /\ IsOpen(at.ino)
      /\ at.back = "mount" => at.next = Keep(vol.ino[at.ino])
  BY <1>1 DEF AtOK
<1>4. vol \in VolType /\ at.ino \in All  BY <1>1, <1>3, WholeFacts
<1>5. vol.ino[at.ino].nlink \in {0, 1} /\ vol.ino[at.ino].size \in 0 .. Direct + Per  BY <1>4, VolParts
<1>6. vol.ino[at.ino].size \in Nat /\ at.next \in Nat /\ at.back \in {"idle", "trimmed", "mount"}
  BY <1>3, <1>5 DEF AtType
<1>7. \A h \in Handles : open[h] # None => open[h] \in Inodes  BY <1>1 DEF Links
<1>8. \A j : Freeing(j) => j = at.ino  BY DEF Freeing
<1>. QED  BY <1>1, <1>2, <1>3, <1>4, <1>5, <1>6, <1>7, <1>8

\* A reference past what is kept goes, and its block with it.
Goes(v, w, i, x) ==
  /\ w \in VolType /\ w.name = v.name /\ w.head = v.head /\ w.used = v.used \ {Ref(v, i, x)}
  /\ \A j \in All : SameInode(v, w, j) /\ w.ino[j].size = v.ino[j].size
  /\ Ref(w, i, x) = None /\ \A j \in All, y \in Refs : j # i \/ y # x => Ref(w, j, y) = Ref(v, j, y)

LEMMA GoesStep ==
  ASSUME WalfsInv, pc = "free", NEW x \in Refs, Ref(vol, at.ino, x) # None, x = Top \/ x >= at.next,
         NEW w, Goes(vol, w, at.ino, x), vol' = w, mem' = mem \ {Ref(vol, at.ino, x)},
         pc' = (IF Ref(vol, at.ino, x) \in mem THEN pc ELSE "corrupt"), UNCHANGED <<disk, open, at, before, goal>>
  PROVE  WalfsInv'
<1>1. PICK i : i = at.ino  OBVIOUS
<1>2. /\ Whole(vol) /\ Whole(disk) /\ mem = vol.used /\ open \in [Handles -> Links] /\ at \in AtType
      /\ \A h \in Handles : open[h] # None => vol.ino[open[h]].kind = "file" /\ open[h] \in Inodes /\ at.back # "mount"
      /\ i \in Orphans(vol) /\ i \in All /\ at.next \in Nat
      /\ vol.ino[i].nlink \in {0, 1} /\ vol.ino[i].size \in Nat
      /\ at.back # "trimmed" => at.next = Keep(vol.ino[i])
      /\ at.back = "trimmed" => at.next = vol.ino[i].size /\ vol.ino[i].nlink = 0 /\ IsOpen(i)
      /\ at.back = "idle" /\ vol.ino[i].nlink = 0 => ~IsOpen(i)
      /\ goal = Tree(vol) /\ before = Tree(disk) /\ (at.back = "mount" => before = goal)
      /\ at.back # "mount" => \A j \in Orphans(vol) : j = i \/ Held(vol, j)
  BY <1>1, FreeFacts
<1>3. /\ vol \in VolType /\ vol.used = Used(vol) /\ Inodes \subseteq All /\ Orphans(vol) \subseteq All
      /\ \A j \in Named(vol) : vol.ino[j].nlink = 1 /\ j \in All
  BY <1>2, WholeFacts
<1>4. /\ w \in VolType /\ w.name = vol.name /\ w.head = vol.head /\ w.used = vol.used \ {Ref(vol, i, x)}
      /\ \A j \in All : SameInode(vol, w, j) /\ w.ino[j].size = vol.ino[j].size
      /\ Ref(w, i, x) = None /\ \A j \in All, y \in Refs : j # i \/ y # x => Ref(w, j, y) = Ref(vol, j, y)
      /\ Ref(vol, i, x) # None
  BY <1>1 DEF Goes
<1>5. /\ Whole(w) /\ Orphans(w) = Orphans(vol)
      /\ \A j \in All : Trimmed(vol, j) => Trimmed(w, j)
  BY <1>2, <1>4, FreedWhole
<1>6. pc' = "free"
  <2>1. Ref(vol, i, x) \in Used(vol)  BY <1>2, <1>3, <1>4, UsedIs
  <2>. QED  BY <2>1, <1>1, <1>2, <1>3
<1>7. Tree(w) = Tree(vol)
  <2>1. ASSUME NEW j \in Named(vol), NEW y \in Idx, y < vol.ino[j].size  PROVE Ref(w, j, y) = Ref(vol, j, y)
    <3>1. y \in Refs /\ j \in All  BY <1>3, Numbers
    <3>2. CASE j # i  BY <3>1, <3>2, <1>4
    <3>3. CASE j = i
      <4>1. at.next = vol.ino[i].size  BY <3>3, <1>2, <1>3 DEF Keep
      <4>2. y # x  BY <4>1, <3>3, <2>1, <1>2, Numbers
      <4>. QED  BY <4>2, <3>1, <1>4
    <3>. QED  BY <3>2, <3>3
  <2>2. \A j \in Named(vol) : w.ino[j].size = vol.ino[j].size  BY <1>3, <1>4
  <2>. QED  BY <2>1, <2>2, <1>3, <1>4, TreeSame
<1>8. w.ino[i].nlink = vol.ino[i].nlink /\ w.ino[i].size = vol.ino[i].size /\ Keep(w.ino[i]) = Keep(vol.ino[i])
  BY <1>2, <1>4 DEF SameInode, Keep
<1>9. AtOK'
  <2>1. at' = at /\ at' \in AtType /\ at'.ino = i /\ (IsOpen(i)' <=> IsOpen(i))  BY <1>1, <1>2 DEF IsOpen
  <2>2. i \in Orphans(vol')  BY <1>2, <1>5
  <2>3. /\ at'.back = "idle" => at'.next = Keep(vol'.ino[at'.ino]) /\ (vol'.ino[at'.ino].nlink = 0 => ~IsOpen(at.ino)')
        /\ at'.back = "trimmed" => vol'.ino[at'.ino].nlink = 0 /\ at'.next = vol'.ino[at'.ino].size /\ IsOpen(at.ino)'
        /\ at'.back = "mount" => at'.next = Keep(vol'.ino[at'.ino])
    BY <2>1, <1>2, <1>8, <1>1 DEF IsOpen
  <2>. QED  BY <2>1, <2>2, <2>3, <1>6 DEF AtOK
<1>10. Mounting' <=> at.back = "mount"  BY <1>6 DEF Mounting
<1>11. \A h \in Handles : open'[h] # None => vol'.ino[open'[h]].kind = "file" /\ ~Mounting'
  BY <1>2, <1>3, <1>4, <1>10 DEF SameInode
<1>12. ~Mounting' => \A j \in Orphans(vol') : Freeing(j)' \/ Held(vol, j)'
  <2>. SUFFICES ASSUME ~Mounting', NEW j \in Orphans(vol)  PROVE Freeing(j)' \/ Held(vol, j)'
    BY <1>5
  <2>1. CASE j = i  BY <2>1, <1>1, <1>6 DEF Freeing
  <2>2. CASE j # i
    <3>1. Held(vol, j)  BY <2>2, <1>2, <1>10
    <3>2. w.ino[j].nlink = 0 /\ Trimmed(w, j) /\ IsOpen(j)  BY <3>1, <1>3, <1>4, <1>5 DEF Held, SameInode
    <3>. QED  BY <3>2 DEF Held, IsOpen
  <2>. QED  BY <2>1, <2>2
<1>13. Whole(vol') /\ Whole(disk') /\ mem' = vol'.used /\ goal' = Tree(vol') /\ before' = Tree(disk')
       /\ (Mounting' => before' = goal') /\ open' \in [Handles -> Links]
  BY <1>1, <1>2, <1>4, <1>5, <1>7, <1>10
<1>. QED  BY <1>6, <1>9, <1>11, <1>12, <1>13 DEF WalfsInv

LEMMA NatWellFounded == IsWellFoundedOn({ss \in Nat \X Nat : ss[1] < ss[2]}, Nat)
BY NatLessThanWellFounded DEF OpToRel

\* The last of some file blocks is one of them.
LEMMA MaxIn ==
  ASSUME NEW S \in SUBSET Idx, S # {}
  PROVE  Max(S) \in S
<1>. DEFINE D == {Direct + Per - x : x \in S}
<1>1. PICK R : R = {ss \in Nat \X Nat : ss[1] < ss[2]}  OBVIOUS
<1>2. IsWellFoundedOn(R, Nat)  BY <1>1, NatWellFounded
<1>3. \A x, y \in Nat : <<y, x>> \in R <=> y < x  BY <1>1
<1>4. \A x \in S : x \in Nat /\ Direct + Per - x \in Nat  BY Numbers
<1>5. D \in SUBSET Nat /\ D # {}  BY <1>4
<1>6. PICK d \in D : \A e \in D : ~(<<e, d>> \in R)
  <2>. HIDE DEF D
  <2>. QED  BY <1>2, <1>5, WFMin
<1>7. PICK x \in S : d = Direct + Per - x  BY <1>6
<1>8. ASSUME NEW y \in S  PROVE x >= y
  <2>1. Direct + Per - y \in D  OBVIOUS
  <2>2. ~(Direct + Per - y < Direct + Per - x)  BY <2>1, <1>3, <1>4, <1>6, <1>7
  <2>. QED  BY <2>2, <1>4, Numbers
<1>9. \E z \in S : \A y \in S : z >= y  BY <1>8
<1>. QED  BY <1>9 DEF Max

LEMMA FreeBlockStep ==
  ASSUME WalfsInv, FreeBlock
  PROVE  WalfsInv'
<1>1. pc = "free" /\ UNCHANGED <<disk, open, at, before, goal>>  BY DEF FreeBlock
<1>2. /\ Whole(vol) /\ at.ino \in Orphans(vol) /\ at.ino \in All /\ at.next \in Nat  BY <1>1, FreeFacts
<1>3. vol \in VolType /\ NoSharedBlock(vol)  BY <1>2, WholeFacts
<1>4. CASE /\ IndirectDue(vol)
           /\ LET s == vol.ino[at.ino].single
              IN  /\ vol' = [vol EXCEPT !.used = @ \ {s}, !.ino[at.ino].single = None]
                  /\ mem' = mem \ {s}
                  /\ pc' = IF s \in mem THEN pc ELSE "corrupt"
  <2>. DEFINE w == WithoutIndirect(vol, at.ino)
  <2>1. vol' = w  BY <1>4 DEF WithoutIndirect
  <2>2. Top \in Refs /\ Ref(vol, at.ino, Top) = vol.ino[at.ino].single  BY Numbers, RefTop
  <2>3. Ref(vol, at.ino, Top) # None  BY <2>2, <1>4 DEF IndirectDue
  <2>4. ASSUME NEW x \in Idx, x >= Direct  PROVE Ref(vol, at.ino, x) = None
    <3>1. Direct >= at.next /\ \A y \in Past(vol) : y < Direct  BY <1>4 DEF IndirectDue
    <3>2. x \notin Past(vol) /\ x >= at.next  BY <3>1, <2>4, <1>2, Numbers
    <3>. QED  BY <3>2, RefIdx DEF Past
  <2>5. Goes(vol, w, at.ino, Top)
    <3>1. PICK y : y = w  OBVIOUS
    <3>2. Goes(vol, y, at.ino, Top)  BY <3>1, <2>4, <1>2, <1>3, IndirectEffect DEF Goes
    <3>. QED  BY <3>1, <3>2
  <2>6. mem' = mem \ {Ref(vol, at.ino, Top)} /\ pc' = IF Ref(vol, at.ino, Top) \in mem THEN pc ELSE "corrupt"
    BY <1>4, <2>2
  <2>. HIDE DEF w
  <2>. QED  BY <2>1, <2>2, <2>3, <2>5, <2>6, <1>1, GoesStep
<1>5. CASE /\ ~IndirectDue(vol) /\ Past(vol) # {}
           /\ LET x == Max(Past(vol))
                  b == Bmap(vol, at.ino, x)
              IN  /\ vol' = Released(vol, b, x)
                  /\ mem' = mem \ {b}
                  /\ pc' = IF b \in mem THEN pc ELSE "corrupt"
  <2>1. PICK x : x = Max(Past(vol))  OBVIOUS
  <2>2. x \in Past(vol)
    <3>1. Past(vol) \in SUBSET Idx  BY DEF Past
    <3>. QED  BY <3>1, <2>1, <1>5, MaxIn
  <2>3. x \in Idx /\ x >= at.next /\ Bmap(vol, at.ino, x) # None  BY <2>2 DEF Past
  <2>4. x \in Refs /\ Ref(vol, at.ino, x) = Bmap(vol, at.ino, x)  BY <2>3, Numbers, RefIdx
  <2>. DEFINE w == Released(vol, Bmap(vol, at.ino, x), x)
  <2>5. vol' = w  BY <2>1, <1>5
  <2>6. mem' = mem \ {Ref(vol, at.ino, x)} /\ pc' = IF Ref(vol, at.ino, x) \in mem THEN pc ELSE "corrupt"
    BY <2>1, <2>4, <1>5
  <2>7. Goes(vol, w, at.ino, x)
    <3>1. PICK y : y = w  OBVIOUS
    <3>2. Goes(vol, y, at.ino, x)  BY <3>1, <2>3, <2>4, <1>2, <1>3, ReleasedEffect DEF Goes
    <3>. QED  BY <3>1, <3>2
  <2>. HIDE DEF w
  <2>. QED  BY <2>3, <2>4, <2>5, <2>6, <2>7, <1>1, GoesStep
<1>. QED  BY <1>4, <1>5 DEF FreeBlock

\* Freeing that is over has left nothing past what is kept.
LEMMA NonePast ==
  ASSUME vol \in VolType, at.ino \in All, at.next \in Nat, Past(vol) = {}, ~IndirectDue(vol)
  PROVE  /\ at.next = vol.ino[at.ino].size => Trimmed(vol, at.ino)
         /\ at.next = 0 => \A x \in Refs : Ref(vol, at.ino, x) = None
<1>1. \A x \in Idx : Ref(vol, at.ino, x) # None => x < at.next
  <2>. TAKE x \in Idx
  <2>1. x \notin Past(vol) /\ x \in Nat  BY Numbers
  <2>2. Ref(vol, at.ino, x) = Bmap(vol, at.ino, x)  BY RefIdx
  <2>. QED  BY <2>1, <2>2 DEF Past
<1>2. Ref(vol, at.ino, Top) # None => Direct < at.next
  <2>1. ~(vol.ino[at.ino].single # None /\ Direct >= at.next)  BY DEF IndirectDue
  <2>. QED  BY <2>1, RefTop, Numbers
<1>3. ASSUME NEW x \in Refs, Ref(vol, at.ino, x) # None  PROVE (IF x = Top THEN Direct ELSE x) < at.next
  <2>1. CASE x = Top  BY <2>1, <1>2, <1>3
  <2>2. CASE x # Top
    <3>1. x \in Idx  BY <2>2, Numbers
    <3>. QED  BY <3>1, <2>2, <1>1, <1>3
  <2>. QED  BY <2>1, <2>2
<1>4. ASSUME at.next = 0, NEW x \in Refs, Ref(vol, at.ino, x) # None  PROVE FALSE
  <2>1. (IF x = Top THEN Direct ELSE x) < 0  BY <1>3, <1>4
  <2>2. x = Top \/ x \in Nat  BY Numbers
  <2>. QED  BY <2>1, <2>2, Numbers
<1>. QED  BY <1>3, <1>4 DEF Trimmed

LEMMA FreeEndStep ==
  ASSUME WalfsInv, FreeEnd
  PROVE  WalfsInv'
<1>1. pc = "free" /\ Past(vol) = {} /\ ~IndirectDue(vol) /\ UNCHANGED <<mem, open, at>>  BY DEF FreeEnd
<1>2. PICK i : i = at.ino  OBVIOUS
<1>3. /\ Whole(vol) /\ mem = vol.used /\ open \in [Handles -> Links] /\ at \in AtType
      /\ \A h \in Handles : open[h] # None => vol.ino[open[h]].kind = "file" /\ open[h] \in Inodes /\ at.back # "mount"
      /\ i \in Orphans(vol) /\ i \in All /\ at.next \in Nat /\ vol.ino[i].nlink \in {0, 1}
      /\ at.back # "trimmed" => at.next = Keep(vol.ino[i])
      /\ at.back = "trimmed" => at.next = vol.ino[i].size /\ vol.ino[i].nlink = 0 /\ IsOpen(i)
      /\ at.back = "idle" /\ vol.ino[i].nlink = 0 => ~IsOpen(i)
      /\ goal = Tree(vol) /\ (at.back = "mount" => before = goal)
      /\ at.back # "mount" => \A j \in Orphans(vol) : j = i \/ Held(vol, j)
  BY <1>1, <1>2, FreeFacts
<1>4. /\ vol \in VolType /\ Inodes \subseteq All /\ Orphans(vol) \subseteq Inodes
      /\ \A j \in Named(vol) : vol.ino[j].nlink = 1 /\ j \in All
  BY <1>3, WholeFacts
<1>5. /\ at.next = vol.ino[i].size => Trimmed(vol, i)
      /\ at.next = 0 => \A x \in Refs : Ref(vol, i, x) = None
  BY <1>1, <1>2, <1>3, <1>4, NonePast
<1>6. open' \in [Handles -> Links] /\ at' \in AtType  BY <1>1, <1>3
<1>7. CASE at.back = "trimmed"
  <2>1. CommitTo(vol) /\ mem' = vol.used  BY <1>1, <1>3, <1>7 DEF FreeEnd
  <2>2. \A j \in Orphans(vol) : vol.ino[j].nlink = 0 /\ Trimmed(vol, j) /\ \E h \in Handles : open'[h] = j
    <3>. TAKE j \in Orphans(vol)
    <3>1. Held(vol, j)  BY <1>3, <1>5, <1>7 DEF Held
    <3>. QED  BY <3>1, <1>1 DEF Held, IsOpen
  <2>3. \A h \in Handles : open'[h] # None => vol.ino[open'[h]].kind = "file"  BY <1>1, <1>3
  <2>. QED  BY <2>1, <2>2, <2>3, <1>3, <1>6, Commits
<1>8. CASE at.back # "trimmed"
  <2>. DEFINE w == Finished(vol, i)
  <2>1. /\ vol.ino[i].nlink = 0 => \A x \in Refs : Ref(vol, i, x) = None
        /\ vol.ino[i].nlink # 0 => Trimmed(vol, i)
    BY <1>3, <1>5, <1>8 DEF Keep
  <2>2. /\ Whole(w) /\ w.used = vol.used /\ w.name = vol.name /\ Orphans(w) = Orphans(vol) \ {i}
        /\ \A j \in All : j # i \/ vol.ino[i].nlink # 0 =>
             /\ w.ino[j].kind = vol.ino[j].kind /\ w.ino[j].nlink = vol.ino[j].nlink /\ w.ino[j].size = vol.ino[j].size
        /\ \A j \in All, x \in Refs : Ref(w, j, x) = Ref(vol, j, x)
    <3>1. PICK y : y = w  OBVIOUS
    <3>2. /\ Whole(y) /\ y.used = vol.used /\ y.name = vol.name /\ Orphans(y) = Orphans(vol) \ {i}
          /\ \A j \in All : j # i \/ vol.ino[i].nlink # 0 =>
               /\ y.ino[j].kind = vol.ino[j].kind /\ y.ino[j].nlink = vol.ino[j].nlink /\ y.ino[j].size = vol.ino[j].size
          /\ \A j \in All, x \in Refs : Ref(y, j, x) = Ref(vol, j, x)
      BY <3>1, <2>1, <1>3, FinishedWhole
    <3>. QED  BY <3>1, <3>2
  <2>3. IF at.back # "mount" THEN CommitTo(w)
        ELSE vol' = w /\ disk' = w /\ pc' = "mount" /\ UNCHANGED <<before, goal>>
    BY <1>2, <1>3, <1>8 DEF FreeEnd
  <2>. HIDE DEF w
  <2>4. w \in VolType /\ mem' = w.used  BY <2>2, <1>1, <1>3, WholeFacts
  <2>5. CASE at.back # "mount"
    <3>1. at.back = "idle"  BY <2>5, <1>8, <1>3 DEF AtType
    <3>2. ASSUME NEW h \in Handles, open'[h] # None  PROVE w.ino[open'[h]].kind = "file"
      <4>1. open'[h] = open[h] /\ open[h] \in All /\ vol.ino[open[h]].kind = "file"  BY <3>2, <1>1, <1>3, <1>4
      <4>2. open[h] # i \/ vol.ino[i].nlink # 0  BY <3>1, <1>3 DEF IsOpen
      <4>. QED  BY <4>1, <4>2, <2>2
    <3>3. ASSUME NEW j \in Orphans(w)
          PROVE  w.ino[j].nlink = 0 /\ Trimmed(w, j) /\ \E h \in Handles : open'[h] = j
      <4>1. j \in Orphans(vol) /\ j # i /\ j \in All  BY <2>2, <1>4
      <4>2. vol.ino[j].nlink = 0 /\ Trimmed(vol, j) /\ IsOpen(j)  BY <4>1, <2>5, <1>3 DEF Held
      <4>3. w.ino[j].nlink = 0 /\ w.ino[j].size = vol.ino[j].size  BY <4>1, <4>2, <2>2
      <4>4. Trimmed(w, j)  BY <4>1, <4>2, <4>3, <2>2 DEF Trimmed
      <4>. QED  BY <4>2, <4>3, <4>4, <1>1 DEF IsOpen
    <3>4. CommitTo(w)  BY <2>3, <2>5
    <3>. QED  BY <3>2, <3>3, <3>4, <2>2, <2>4, <1>6, Commits
  <2>6. CASE at.back = "mount"
    <3>1. vol' = w /\ disk' = w /\ pc' = "mount" /\ UNCHANGED <<before, goal>>  BY <2>3, <2>6
    <3>2. Tree(w) = Tree(vol)
      <4>1. \A j \in Named(vol) : w.ino[j].size = vol.ino[j].size  BY <2>2, <1>4
      <4>2. \A j \in Named(vol) : \A x \in Idx : x < vol.ino[j].size => Ref(w, j, x) = Ref(vol, j, x)
        BY <2>2, <1>4, Numbers
      <4>. QED  BY <4>1, <4>2, <2>2, <2>4, <1>4, TreeSame
    <3>3. AtOK'  BY <3>1, <1>6 DEF AtOK
    <3>4. Mounting'  BY <3>1 DEF Mounting
    <3>5. \A h \in Handles : open'[h] = None  BY <2>6, <1>1, <1>3
    <3>6. Whole(vol') /\ Whole(disk') /\ mem' = vol'.used /\ goal' = Tree(vol') /\ before' = Tree(disk')
          /\ before' = goal' /\ vol' = disk'
      BY <3>1, <3>2, <2>2, <2>4, <2>6, <1>3
    <3>. QED  BY <3>1, <3>3, <3>4, <3>5, <3>6, <1>6 DEF WalfsInv
  <2>. QED  BY <2>5, <2>6
<1>. QED  BY <1>7, <1>8

----------------------------------------------------------------------------
(* The theorems. *)

LEMMA InitInv ==
  ASSUME Init
  PROVE  WalfsInv
<1>1. /\ vol = [name |-> [n \in Names |-> None], head |-> None, used |-> {},
                ino  |-> [i \in Inodes \cup {Root} |->
                            IF i = Root THEN [Free EXCEPT !.kind = "dir", !.nlink = 1] ELSE Free],
                ent  |-> [b \in Blocks |-> Hole]]
      /\ disk = vol /\ mem = {} /\ open = [h \in Handles |-> None]
      /\ pc = "idle" /\ at = [ino |-> Root, next |-> 0, end |-> 0, back |-> "idle"]
      /\ before = Tree(vol) /\ goal = Tree(vol)
  BY DEF Init
<1>2. /\ Free \in InodeType /\ Free.kind = "free" /\ Free.nlink = 0 /\ Free.next = None /\ Free.size = 0
      /\ Free.single = None /\ \A x \in 0 .. Direct - 1 : Free.direct[x] = None
  <2>1. 0 \in 0 .. Direct + Per  BY Numbers
  <2>2. [d \in 0 .. Direct - 1 |-> None] \in [0 .. Direct - 1 -> Addrs] /\ None \in Addrs /\ None \in Links
    BY DEF Addrs, Links
  <2>. QED  BY <2>1, <2>2 DEF Free, InodeType
<1>. DEFINE dir == [Free EXCEPT !.kind = "dir", !.nlink = 1]
<1>3. /\ dir \in InodeType /\ dir.kind = "dir" /\ dir.next = None /\ dir.size = 0
      /\ dir.single = None /\ \A x \in 0 .. Direct - 1 : dir.direct[x] = None
  BY <1>2 DEF InodeType
<1>. HIDE DEF dir
<1>4. /\ vol.name = [n \in Names |-> None] /\ vol.head = None /\ vol.used = {}
      /\ vol.ino = [i \in All |-> IF i = Root THEN dir ELSE Free] /\ vol.ent = [b \in Blocks |-> Hole]
  BY <1>1 DEF All, dir
<1>5. vol.ino[Root] = dir /\ \A i \in Inodes : vol.ino[i] = Free  BY <1>4, Numbers DEF All
<1>6. vol \in VolType
  <2>1. [n \in Names |-> None] \in [Names -> Links] /\ None \in Links  BY DEF Links
  <2>2. [b \in Blocks |-> Hole] \in [Blocks -> [0 .. Per - 1 -> Addrs]]
    <3>1. Hole \in [0 .. Per - 1 -> Addrs]  BY DEF Hole, Addrs
    <3>. QED  BY <3>1
  <2>3. [i \in All |-> IF i = Root THEN dir ELSE Free] \in [All -> InodeType]  BY <1>2, <1>3
  <2>. DEFINE a == [n \in Names |-> None]
              b == [i \in All |-> IF i = Root THEN dir ELSE Free]
              c == [q \in Blocks |-> Hole]
  <2>4. vol = [name |-> a, head |-> None, used |-> {}, ino |-> b, ent |-> c]  BY <1>1 DEF All, dir
  <2>. HIDE DEF a, b, c
  <2>5. a \in [Names -> Links] /\ b \in [All -> InodeType] /\ c \in [Blocks -> [0 .. Per - 1 -> Addrs]]
    BY <2>1, <2>2, <2>3 DEF a, b, c
  <2>. QED  BY <2>1, <2>4, <2>5 DEF VolType
<1>7. ASSUME NEW i \in All  PROVE /\ vol.ino[i].single = None /\ vol.ino[i].next = None /\ vol.ino[i].size = 0
                                  /\ \A x \in 0 .. Direct - 1 : vol.ino[i].direct[x] = None
  <2>1. CASE i = Root  BY <2>1, <1>3, <1>5
  <2>2. CASE i # Root
    <3>1. vol.ino[i] = Free  BY <2>2, <1>5 DEF All
    <3>. QED  BY <3>1, <1>2
  <2>. QED  BY <2>1, <2>2
<1>8. ASSUME NEW i \in All, NEW x \in Refs  PROVE Ref(vol, i, x) = None
  <2>1. CASE x = Top  BY <2>1, <1>7, RefTop
  <2>2. CASE x \in 0 .. Direct - 1  BY <2>2, <1>7, RefDirect
  <2>3. CASE x \in Idx /\ x >= Direct  BY <2>3, <1>7, RefSingle
  <2>. QED  BY <2>1, <2>2, <2>3, Places
<1>9. Orphans(vol) = {}
  <2>1. Linked(vol, {})  BY <1>4 DEF Linked
  <2>. QED  BY <2>1, <1>6, OrphansIs
<1>10. Named(vol) = {}  BY <1>4, <1>6, NamedIs
<1>11. \A i \in Inodes : i \in All /\ vol.ino[i].kind = "free" /\ vol.ino[i].next = None
  BY <1>2, <1>5 DEF All
<1>12. RefsOK(vol)
  <2>1. Used(vol) = {} /\ NoSharedBlock(vol)  BY <1>6, <1>8, UsedIs
  <2>. QED  BY <2>1, <1>4, <1>8, <1>11 DEF RefsOK
<1>13. ListOK(vol)  BY <1>9, <1>11 DEF ListOK, OrphanListEnds
<1>14. NoDirectoryHole(vol)
  <2>1. vol.ino[Root].size = 0  BY <1>7 DEF All
  <2>. QED  BY <2>1, Numbers DEF NoDirectoryHole
<1>15. \A i \in All : Trimmed(vol, i)  BY <1>8 DEF Trimmed
<1>16. InodesOK(vol)
  <2>1. NoLeakedInode(vol) /\ NamedLive(vol)  BY <1>10, <1>11 DEF NoLeakedInode, NamedLive
  <2>2. NamedOnce(vol)  BY <1>4 DEF NamedOnce
  <2>. QED  BY <2>1, <2>2, <1>3, <1>5, <1>11 DEF InodesOK
<1>17. Whole(vol)  BY <1>6, <1>12, <1>13, <1>14, <1>15, <1>16 DEF Whole, Sane
<1>18. open \in [Handles -> Links] /\ \A h \in Handles : open[h] = None  BY <1>1 DEF Links
<1>19. AtOK
  <2>1. 0 \in 0 .. Direct + Per /\ Root \in All  BY Numbers DEF All
  <2>2. at \in AtType  BY <2>1, <1>1 DEF AtType
  <2>. QED  BY <2>2, <1>1 DEF AtOK
<1>20. ~Mounting  BY <1>1 DEF Mounting
<1>21. Whole(disk) /\ mem = vol.used /\ goal = Tree(vol) /\ before = Tree(disk) /\ pc = "idle" /\ vol = disk
  BY <1>1, <1>4, <1>17
<1>. QED  BY <1>9, <1>17, <1>18, <1>19, <1>20, <1>21 DEF WalfsInv

LEMMA StepInv ==
  ASSUME WalfsInv, Next
  PROVE  WalfsInv'
<1>1. CASE \E n \in Names : Create(n) \/ CreateNoSpace(n) \/ Remove(n) \/ (\E h \in Handles : Open(n, h))
  BY <1>1, CreateStep, CreateNoSpaceStep, RemoveStep, OpenStep
<1>2. CASE \E f, t \in Names : Rename(f, t)  BY <1>2, RenameStep
<1>3. CASE \E h \in Handles :
             \/ Close(h)
             \/ \E s \in 0 .. MaxSize : Truncate(h, s) \/ (\E e \in 0 .. MaxSize : Write(h, s, e))
  BY <1>3, CloseStep, TruncateStep, WriteStep
<1>4. CASE Step
  <2>1. CASE MakeRoom  BY <2>1, MakeRoomStep
  <2>2. CASE WriteBlock  BY <2>2, WriteBlockStep
  <2>3. CASE WriteEnd  BY <2>3, WriteEndStep
  <2>4. CASE FreeBlock  BY <2>4, FreeBlockStep
  <2>5. CASE FreeEnd  BY <2>5, FreeEndStep
  <2>6. CASE MountOrphan  BY <2>6, MountOrphanStep
  <2>7. CASE Mounted  BY <2>7, MountedStep
  <2>. QED  BY <1>4, <2>1, <2>2, <2>3, <2>4, <2>5, <2>6, <2>7 DEF Step
<1>5. CASE Cut  BY <1>5, CutStep
<1>. QED  BY <1>1, <1>2, <1>3, <1>4, <1>5 DEF Next

\* The inductive invariant: at every step of every operation, freeing and mount the volume being
\* built and the volume committed are whole.
THEOREM Invariance == Spec => []WalfsInv
<1>1. Init => WalfsInv  BY InitInv
<1>2. WalfsInv /\ [Next]_vars => WalfsInv'
  <2>. SUFFICES ASSUME WalfsInv, [Next]_vars  PROVE WalfsInv'
    OBVIOUS
  <2>1. CASE Next  BY <2>1, StepInv
  <2>2. CASE UNCHANGED vars
    BY <2>2 DEF vars, WalfsInv, AtOK, Mounting, Freeing, Held, IsOpen
  <2>. QED  BY <2>1, <2>2
<1>. QED  BY <1>1, <1>2, PTL DEF Spec

\* What check_all looks for is nowhere on a volume between operations: whatever operations were
\* done, however full the volume, and wherever power was lost in them and in the mounts after it,
\* the bitmaps on the volume and in memory are what the inodes refer to, no block is shared, no
\* inode is lost, and nothing is mapped past a size; and no free finds its block free already.
THEOREM SoundAlways == Spec => []Sound
<1>1. WalfsInv => Sound
  <2>. SUFFICES ASSUME WalfsInv  PROVE Sound
    OBVIOUS
  <2>1. pc # "corrupt"  BY DEF WalfsInv
  <2>2. ASSUME pc = "idle"
        PROVE  /\ vol = disk /\ vol.used = Used(vol) /\ mem = Used(vol)
               /\ NoSharedBlock(vol) /\ NoLeakedInode(vol) /\ NamedOnce(vol) /\ NamedLive(vol)
               /\ OrphanListEnds(vol) /\ NothingPastSize(vol) /\ NoDirectoryHole(vol)
    <3>1. /\ Whole(vol) /\ vol = disk /\ mem = vol.used
          /\ \A i \in Orphans(vol) : Trimmed(vol, i)
      BY <2>2, IdleFacts
    <3>2. /\ vol \in VolType /\ RefsOK(vol) /\ ListOK(vol) /\ NoDirectoryHole(vol) /\ InodesOK(vol)
          /\ vol.used = Used(vol) /\ NoSharedBlock(vol) /\ \A i \in All : i \in Orphans(vol) \/ Trimmed(vol, i)
      BY <3>1, WholeFacts
    <3>3. NothingPastSize(vol)
      <4>1. DOMAIN vol.ino = All  BY <3>2, VolParts
      <4>2. ASSUME NEW i \in All
            PROVE  /\ \A x \in InUse(vol, i) : x < vol.ino[i].size
                   /\ vol.ino[i].single # None => Direct < vol.ino[i].size
        <5>1. \A x \in Refs : Ref(vol, i, x) # None => (IF x = Top THEN Direct ELSE x) < vol.ino[i].size
          BY <3>1, <3>2 DEF Trimmed
        <5>2. ASSUME NEW x \in InUse(vol, i)  PROVE x < vol.ino[i].size
          <6>1. x \in Idx /\ Bmap(vol, i, x) # None  BY DEF InUse
          <6>2. x \in Refs /\ x # Top /\ Ref(vol, i, x) # None  BY <6>1, Numbers, RefIdx
          <6>. QED  BY <6>2, <5>1
        <5>3. vol.ino[i].single # None => Direct < vol.ino[i].size
          <6>1. Top \in Refs /\ Ref(vol, i, Top) = vol.ino[i].single  BY Numbers, RefTop
          <6>. QED  BY <6>1, <5>1
        <5>. QED  BY <5>2, <5>3
      <4>. QED  BY <4>1, <4>2 DEF NothingPastSize
    <3>. QED  BY <3>1, <3>2, <3>3 DEF InodesOK, ListOK
  <2>. QED  BY <2>1, <2>2 DEF Sound
<1>. QED  BY <1>1, Invariance, PTL

\* Names lead to what they led to before an operation or after it, at every point where power may
\* be lost: the committed volume is never between the two.
THEOREM TreeAtomicAlways == Spec => []TreeAtomic
<1>1. WalfsInv => TreeAtomic  BY DEF WalfsInv, TreeAtomic
<1>. QED  BY <1>1, Invariance, PTL

\* A handle's file is never freed under it, and a removed file is left on the orphan list only
\* while a handle holds it.
THEOREM HandlesHoldAlways == Spec => []HandlesHold
<1>1. WalfsInv => HandlesHold
  <2>. SUFFICES ASSUME WalfsInv  PROVE HandlesHold
    OBVIOUS
  <2>1. \A h \in Handles : open[h] # None => vol.ino[open[h]].kind = "file"  BY DEF WalfsInv
  <2>2. pc = "idle" => \A i \in Orphans(vol) : vol.ino[i].nlink = 0 /\ IsOpen(i)  BY IdleFacts DEF IsOpen
  <2>. QED  BY <2>1, <2>2 DEF HandlesHold
<1>. QED  BY <1>1, Invariance, PTL
=============================================================================
