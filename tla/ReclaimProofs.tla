--------------------------- MODULE ReclaimProofs ---------------------------
(***************************************************************************)
(* Frames in flight, for every number of harts, frames and processes, every *)
(* stage and commit bound: each is in one place and every list ends         *)
(* (InFlightOnce), what an allocation may take is zero (FreeZero), and a    *)
(* quiet machine has drained its lists (QuietDrained).                      *)
(*                                                                          *)
(* A list is its set of frames: the head is one of them, each links to      *)
(* another or ends the list, and each but the head is linked to by one.     *)
(* That it neither loops nor misses a frame is a rank that falls along the  *)
(* links.  The invariant says that some placing of the frames, and some     *)
(* ranks, make every list one such set.                                     *)
(***************************************************************************)
EXTENDS Reclaim, FiniteSetTheorems, WellFoundedInduction, TLAPS

----------------------------------------------------------------------------
(* Lists as sets of frames. *)

Heads == Frames \cup {None}

\* The frames of S, linked by lnk, are a list from `first`: ranks fall along it.
Chain(lnk, rank, S, first) ==
  /\ first \in S \cup {None} /\ (first = None => S = {})
  /\ \A f \in S : lnk[f] \in S \cup {None} /\ lnk[f] # first /\ (lnk[f] # None => rank[lnk[f]] < rank[f])
  /\ \A f \in S \ {first} : \E g \in S : lnk[g] = f
  /\ \A f, g \in S : lnk[f] = lnk[g] /\ lnk[f] # None => f = g

\* Where a frame may be, as Places has it, or nowhere.
Nowhere == <<"nowhere", 0>>
Spots ==
  {Nowhere, <<"committing", 0>>} \cup {<<k, h>> : k \in {"staged", "pending", "zeroing", "done"}, h \in Harts}
At(spot, k, h) == {f \in Frames : spot[f] = <<k, h>>}

\* The frames each hart has staged, and the one it is zeroing.
Staging == [h \in Harts |-> ToSet(staged[h])]
Holding == [h \in Harts |-> IF zeroing[h] = None \/ pc[h] = "pushed" THEN {} ELSE {zeroing[h]}]

\* With these owners, links, heads, stages and frames held, every frame in flight is where `spot` says,
\* each list is the chain of its frames, and what was zeroed is zero.
Spotted(own, spot) == \A f \in Frames : own[f] = "flight" <=> spot[f] # Nowhere
Chained(lnk, heads, k, rank, spot) == \A h \in Harts : Chain(lnk, rank, At(spot, k, h), heads[h])
Sets(sets, k, spot) == \A h \in Harts : At(spot, k, h) = sets[h]
Clean(zr, spot) == \A f \in Frames : spot[f][1] \in {"done", "committing"} => f \in zr
Placed(own, lnk, dn, com, pnd, stg, hld, zr, top, rank, spot) ==
  /\ top \in Nat /\ rank \in [Frames -> 0 .. top] /\ spot \in [Frames -> Spots]
  /\ Spotted(own, spot) /\ Clean(zr, spot)
  /\ Chained(lnk, pnd, "pending", rank, spot) /\ Chained(lnk, dn, "done", rank, spot)
  /\ Chain(lnk, rank, At(spot, "committing", 0), com)
  /\ Sets(stg, "staged", spot) /\ Sets(hld, "zeroing", spot)

\* Some placing does, of the state or of a record that a commit works on.
InPlace(s, pnd, stg, hld, zr) ==
  \E top, rank, spot : Placed(s.owner, s.link, s.done, s.committing, pnd, stg, hld, zr, top, rank, spot)

----------------------------------------------------------------------------
(* The invariant. *)

Owners == {"free", "flight"} \cup Pids \cup {Object}
States == [owner : [Frames -> Owners], link : [Frames -> Heads \cup {Junk}],
           done : [Harts -> Heads], committing : Heads]

InIdle == {"handon", "zero", "link", "push", "pushed", "tell", "halt", "acquire"}
ReclaimTypes ==
  /\ owner \in [Frames -> Owners] /\ link \in [Frames -> Heads \cup {Junk}]
  /\ done \in [Harts -> Heads] /\ committing \in Heads
  /\ dirty \subseteq Frames /\ zero \subseteq Frames /\ stale \subseteq Frames \X Pids
  /\ staged \in [Harts -> Seq(Frames)] /\ pending \in [Harts -> Heads] /\ zeroing \in [Harts -> Heads]
  /\ want \in Harts \cup {Nobody} /\ drainer \in Harts \cup {Nobody}
  /\ idle \subseteq Harts /\ ipi \subseteq Harts
  /\ pc \in [Harts -> InIdle \cup {"user", "kernel", "unmap", "reclaim", "wait", "waithalt"}]
  /\ loc \in [Harts -> [head : Heads, more : BOOLEAN, wake : Harts \cup {Nobody}]]

\* What is free, but for what was never used, is zero.
ZeroIn(own, lnk, zr) == \A f \in Frames \ dirty : own[f] = "free" => f \in zr /\ lnk[f] = None

\* A frame is in a hart's hands from its taking to its push, zeroed from the link on; who hands on has whom to wake.
WorkAt(h) ==
  /\ pc[h] \in {"zero", "link", "push", "pushed"} => zeroing[h] # None
  /\ zeroing[h] # None => pc[h] \in {"handon", "zero", "link", "push", "pushed"}
  /\ pc[h] \in {"link", "push"} => zeroing[h] \in zero
  /\ pc[h] = "push" => link[zeroing[h]] = loc[h].head
  /\ pc[h] = "handon" => loc[h].wake \in Harts
Work == \A h \in Harts : WorkAt(h)

\* A stage has a frame once, and only what is staged is still stored to.
Distinct(s) == \A i, j \in DOMAIN s : s[i] = s[j] => i = j
Stages ==
  /\ \A h \in Harts : Distinct(staged[h])
  /\ \A f \in Frames, p \in Pids : <<f, p>> \in stale => \E h \in Harts : f \in ToSet(staged[h])

\* The frames in flight are in place, the free ones zero.
AllPlaced ==
  \E top, rank, spot :
    Placed(owner, link, done, committing, pending, Staging, Holding, zero, top, rank, spot)
FrameInv == AllPlaced /\ ZeroIn(owner, link, zero) /\ Work /\ Stages

\* Who is marked idle is in the idle loop; the drainer does not halt; and while all are marked, what is
\* pending has a drainer, a hart about to be woken, or one awake.
Drains ==
  /\ \A h \in idle : pc[h] \in InIdle
  /\ drainer # Nobody =>
       /\ pc[drainer] \notin {"handon", "halt"}
       /\ pc[drainer] \in {"zero", "link", "push", "pushed", "tell"} => loc[drainer].more
  /\ idle = Harts /\ (\E h \in Harts : pending[h] # None) =>
       drainer # Nobody \/ ipi # {} \/ \E h \in Harts : pc[h] \in {"handon", "acquire"}

ReclaimInv == ReclaimTypes /\ FrameInv /\ Drains

----------------------------------------------------------------------------
(* Chains. *)

\* The naturals are well founded.
LEMMA NatWellFounded == IsWellFoundedOn({ss \in Nat \X Nat : ss[1] < ss[2]}, Nat)
BY NatLessThanWellFounded DEF OpToRel

\* A nonempty set of naturals has a least element.
LEMMA LeastNat ==
  ASSUME NEW S \in SUBSET Nat, S # {}
  PROVE  \E x \in S : \A y \in S : x <= y
<1>1. PICK R : R = {ss \in Nat \X Nat : ss[1] < ss[2]}  OBVIOUS
<1>2. IsWellFoundedOn(R, Nat)  BY <1>1, NatWellFounded
<1>3. \A x, y \in Nat : <<y, x>> \in R <=> y < x  BY <1>1
<1>4. PICK x \in S : \A y \in S : ~(<<y, x>> \in R)  BY <1>2, WFMin
<1>5. ASSUME NEW y \in S  PROVE x <= y
  <2>1. x \in Nat /\ y \in Nat /\ <<y, x>> \notin R  BY <1>4
  <2>2. ~(y < x)  BY <2>1, <1>3
  <2>. QED  BY <2>1, <2>2
<1>. QED  BY <1>5

\* Min of a nonempty set of naturals is its least element.
LEMMA MinFacts ==
  ASSUME NEW S \in SUBSET Nat, S # {}
  PROVE  Min(S) \in S /\ \A x \in S : Min(S) <= x
BY LeastNat DEF Min

\* Frames and harts are naturals, and there is a hart; neither None nor Junk is a frame, nor Nobody a hart.
LEMMA Basics ==
  /\ Frames \subseteq Nat \ {0} /\ None \notin Frames /\ Junk \notin Frames /\ None # Junk
  /\ Harts \subseteq Nat /\ Nobody \notin Harts /\ 0 \in Harts
BY ReclaimAssumption DEF Frames, None, Junk, Harts, Nobody

\* Of some frames, one has the highest rank, and one the lowest.
LEMMA Ranked ==
  ASSUME NEW top \in Nat, NEW rank \in [Frames -> 0 .. top], NEW T \in SUBSET Frames, T # {}
  PROVE  /\ \E f \in T : \A g \in T : rank[g] <= rank[f]
         /\ \E f \in T : \A g \in T : rank[f] <= rank[g]
<1>0. \A f \in T : rank[f] \in 0 .. top /\ rank[f] \in Nat /\ top - rank[f] \in Nat  OBVIOUS
<1>1. \E f \in T : \A g \in T : rank[g] <= rank[f]
  <2>. DEFINE S == {top - rank[f] : f \in T}
  <2>1. S \in SUBSET Nat /\ S # {}  BY <1>0
  <2>2. PICK x \in S : \A y \in S : x <= y  BY <2>1, LeastNat
  <2>3. PICK f \in T : x = top - rank[f]  OBVIOUS
  <2>4. ASSUME NEW g \in T  PROVE rank[g] <= rank[f]
    <3>1. top - rank[f] <= top - rank[g]  BY <2>2, <2>3
    <3>. QED  BY <3>1, <1>0
  <2>. QED  BY <2>4
<1>2. \E f \in T : \A g \in T : rank[f] <= rank[g]
  <2>. DEFINE S == {rank[f] : f \in T}
  <2>1. S \in SUBSET Nat /\ S # {}  BY <1>0
  <2>2. PICK x \in S : \A y \in S : x <= y  BY <2>1, LeastNat
  <2>3. PICK f \in T : x = rank[f]  OBVIOUS
  <2>. QED  BY <2>2, <2>3
<1>. QED  BY <1>1, <1>2

\* A chain is one for links and ranks that agree on its frames.
LEMMA ChainSame ==
  ASSUME NEW lnk, NEW rank, NEW S, NEW first, NEW lnk2, NEW rank2, Chain(lnk, rank, S, first), None \notin S,
         \A f \in S : lnk2[f] = lnk[f] /\ rank2[f] = rank[f]
  PROVE  Chain(lnk2, rank2, S, first)
BY DEF Chain

\* What is left of a chain once its head is taken.
LEMMA ChainPop ==
  ASSUME NEW top \in Nat, NEW rank \in [Frames -> 0 .. top], NEW lnk, NEW S \in SUBSET Frames,
         NEW first \in S, Chain(lnk, rank, S, first)
  PROVE  Chain(lnk, rank, S \ {first}, lnk[first])
<1>. DEFINE T == S \ {first}  n == lnk[first]
<1>0. None \notin S  BY Basics
<1>1. /\ \A f \in S : lnk[f] \in S \cup {None} /\ lnk[f] # first /\ (lnk[f] # None => rank[lnk[f]] < rank[f])
      /\ \A f \in S \ {first} : \E g \in S : lnk[g] = f
      /\ \A f, g \in S : lnk[f] = lnk[g] /\ lnk[f] # None => f = g
  BY DEF Chain
<1>2. n \in T \cup {None}  BY <1>1
<1>3. ASSUME n = None  PROVE T = {}
  <2>. SUFFICES ASSUME T # {} PROVE FALSE  OBVIOUS
  <2>1. PICK f \in T : \A g \in T : rank[g] <= rank[f]  BY Ranked
  <2>2. PICK g \in S : lnk[g] = f  BY <1>1
  <2>3. g # first  BY <2>2, <1>3, <1>0
  <2>4. rank[f] < rank[g] /\ rank[g] <= rank[f]  BY <2>1, <2>2, <2>3, <1>0, <1>1
  <2>5. rank[f] \in 0 .. top /\ rank[g] \in 0 .. top  OBVIOUS
  <2>. QED  BY <2>4, <2>5
<1>4. \A f \in T : lnk[f] \in T \cup {None} /\ (lnk[f] # None => rank[lnk[f]] < rank[f])  BY <1>1
<1>5. ASSUME NEW f \in T  PROVE lnk[f] # n
  <2>1. CASE n = None  BY <2>1, <1>3
  <2>2. CASE n # None  BY <2>2, <1>1
  <2>. QED  BY <2>1, <2>2
<1>6. ASSUME NEW f \in T \ {n}  PROVE \E g \in T : lnk[g] = f
  <2>1. PICK g \in S : lnk[g] = f  BY <1>1
  <2>2. g # first  BY <2>1
  <2>. QED  BY <2>1, <2>2
<1>7. \A f, g \in T : lnk[f] = lnk[g] /\ lnk[f] # None => f = g  BY <1>1
<1>. HIDE DEF n, T
<1>8. Chain(lnk, rank, T, n)  BY <1>2, <1>3, <1>4, <1>5, <1>6, <1>7 DEF Chain
<1>. QED  BY <1>8 DEF n, T

\* The n frames of sq, T, are linked in front of a chain of S, the last of them first.
Pushes(lnk, rank, S, first, lnk2, rank2, top, n, sq, T) ==
  /\ n \in Nat \ {0} /\ T \in SUBSET Frames /\ \A f \in S : f \notin T
  /\ \A i \in 1 .. n : sq[i] \in T
  /\ \A f \in T : \E i \in 1 .. n : f = sq[i]
  /\ \A i, j \in 1 .. n : sq[i] = sq[j] => i = j
  /\ \A f \in S : lnk2[f] = lnk[f] /\ rank2[f] = rank[f]
  /\ \A i \in 1 .. n : rank2[sq[i]] = top + i /\ lnk2[sq[i]] = IF i = 1 THEN first ELSE sq[i - 1]

\* They are a chain with it.
LEMMA ChainPush ==
  ASSUME NEW top \in Nat, NEW rank \in [Frames -> 0 .. top], NEW lnk, NEW S \in SUBSET Frames, NEW first,
         NEW lnk2, NEW rank2, NEW n, NEW sq, NEW T,
         Chain(lnk, rank, S, first), Pushes(lnk, rank, S, first, lnk2, rank2, top, n, sq, T)
  PROVE  Chain(lnk2, rank2, S \cup T, sq[n])
<1>. USE DEF Pushes
<1>0. None \notin S /\ None \notin T /\ first \in S \cup {None}
  <2>1. T \subseteq Frames  OBVIOUS
  <2>. QED  BY <2>1, Basics DEF Chain
<1>1. /\ first = None => S = {}
      /\ \A f \in S : lnk2[f] \in S \cup {None} /\ lnk2[f] # first /\ (lnk2[f] # None => rank[lnk2[f]] < rank[f])
      /\ \A f \in S \ {first} : \E g \in S : lnk2[g] = f
      /\ \A f, g \in S : lnk2[f] = lnk2[g] /\ lnk2[f] # None => f = g
  BY DEF Chain
<1>2. \A i \in 1 .. n : i # 1 => i - 1 \in 1 .. n  OBVIOUS
<1>3. \A i \in 1 .. n : i # n => i + 1 \in 1 .. n  OBVIOUS
<1>4. n \in 1 .. n /\ 1 \in 1 .. n  OBVIOUS
<1>5. sq[n] \in T /\ \A i \in 1 .. n : sq[i] \in T /\ sq[i] \notin S  BY <1>4
<1>6. ASSUME NEW i \in 1 .. n
      PROVE  /\ lnk2[sq[i]] \in S \cup T \cup {None} /\ lnk2[sq[i]] # sq[n]
             /\ lnk2[sq[i]] # None => rank2[lnk2[sq[i]]] < rank2[sq[i]]
  <2>1. CASE i = 1
    <3>1. lnk2[sq[i]] = first /\ rank2[sq[i]] = top + 1  BY <2>1
    <3>2. first # sq[n]  BY <1>0, <1>5
    <3>3. first # None => rank2[first] = rank[first] /\ rank[first] \in 0 .. top  BY <1>0
    <3>. QED  BY <3>1, <3>2, <3>3, <1>0
  <2>2. CASE i # 1
    <3>1. lnk2[sq[i]] = sq[i - 1] /\ i - 1 \in 1 .. n  BY <2>2, <1>2
    <3>2. i - 1 # n  OBVIOUS
    <3>3. sq[i - 1] # sq[n]  BY <3>1, <3>2, <1>4
    <3>4. rank2[sq[i - 1]] = top + (i - 1) /\ rank2[sq[i]] = top + i  BY <3>1
    <3>5. top + (i - 1) < top + i  OBVIOUS
    <3>. QED  BY <3>1, <3>3, <3>4, <3>5, <1>5
  <2>. QED  BY <2>1, <2>2
<1>7. ASSUME NEW f \in S  PROVE lnk2[f] # sq[n] /\ (lnk2[f] # None => rank2[lnk2[f]] < rank2[f])
  BY <1>0, <1>1, <1>5
<1>8. ASSUME NEW f \in S \cup T, f # sq[n]  PROVE \E g \in S \cup T : lnk2[g] = f
  <2>1. CASE f \in S /\ f # first  BY <2>1, <1>1
  <2>2. CASE f = first
    <3>1. lnk2[sq[1]] = first /\ sq[1] \in T  BY <1>4, <1>5
    <3>. QED  BY <2>2, <3>1
  <2>3. CASE f \in T
    <3>1. PICK i \in 1 .. n : f = sq[i]  BY <2>3
    <3>2. i # n  BY <3>1, <1>8
    <3>3. i + 1 \in 1 .. n /\ i + 1 # 1 /\ (i + 1) - 1 = i  BY <3>2, <1>3
    <3>4. lnk2[sq[i + 1]] = sq[(i + 1) - 1]  BY <3>3
    <3>. QED  BY <3>1, <3>3, <3>4, <1>5
  <2>. QED  BY <2>1, <2>2, <2>3
<1>9. ASSUME NEW f \in S \cup T, NEW g \in S \cup T, lnk2[f] = lnk2[g], lnk2[f] # None  PROVE f = g
  <2>1. CASE f \in S /\ g \in S  BY <2>1, <1>1, <1>9
  <2>2. ASSUME NEW x \in S, NEW i \in 1 .. n  PROVE lnk2[x] # lnk2[sq[i]] \/ lnk2[x] = None
    <3>1. lnk2[x] \in S \cup {None} /\ lnk2[x] # first  BY <1>1
    <3>2. CASE i = 1
      <4>1. lnk2[sq[i]] = first  BY <3>2
      <4>. QED  BY <3>1, <4>1
    <3>3. CASE i # 1
      <4>1. lnk2[sq[i]] = sq[i - 1] /\ i - 1 \in 1 .. n  BY <3>3, <1>2
      <4>2. sq[i - 1] \notin S  BY <4>1, <1>5
      <4>. QED  BY <3>1, <4>1, <4>2
    <3>. QED  BY <3>2, <3>3
  <2>3. CASE f \in S /\ g \in T  BY <2>2, <2>3, <1>9
  <2>4. CASE f \in T /\ g \in S  BY <2>2, <2>4, <1>9
  <2>5. CASE f \in T /\ g \in T
    <3>1. PICK i \in 1 .. n, j \in 1 .. n : f = sq[i] /\ g = sq[j]  BY <2>5
    <3>2. CASE i = 1 /\ j = 1  BY <3>1, <3>2
    <3>3. CASE i # 1 /\ j # 1
      <4>1. sq[i - 1] = sq[j - 1] /\ i - 1 \in 1 .. n /\ j - 1 \in 1 .. n  BY <3>1, <3>3, <1>2, <1>9
      <4>2. i - 1 = j - 1  BY <4>1
      <4>. QED  BY <3>1, <4>2
    <3>4. ASSUME NEW k \in 1 .. n, k # 1  PROVE lnk2[sq[k]] # lnk2[sq[1]]
      <4>1. lnk2[sq[k]] = sq[k - 1] /\ k - 1 \in 1 .. n /\ lnk2[sq[1]] = first  BY <3>4, <1>2, <1>4
      <4>. QED  BY <4>1, <1>0, <1>5
    <3>. QED  BY <3>1, <3>2, <3>3, <3>4, <1>9
  <2>. QED  BY <2>1, <2>3, <2>4, <2>5
<1>10. \A f \in S \cup T : /\ lnk2[f] \in S \cup T \cup {None} /\ lnk2[f] # sq[n]
                           /\ lnk2[f] # None => rank2[lnk2[f]] < rank2[f]
  BY <1>1, <1>6, <1>7
<1>. QED  BY <1>0, <1>5, <1>8, <1>9, <1>10 DEF Chain

----------------------------------------------------------------------------
(* Frames that move. *)

\* Where frames are once some of them, T, went `to` one spot.
Moved(spot, T, to) == [f \in Frames |-> IF f \in T THEN to ELSE spot[f]]

\* The frames at each spot then: at the one they went to, and at any other.
LEMMA MovedTo ==
  ASSUME NEW spot, NEW T \in SUBSET Frames, NEW k, NEW h
  PROVE  At(Moved(spot, T, <<k, h>>), k, h) = At(spot, k, h) \cup T
BY DEF Moved, At
LEMMA MovedFrom ==
  ASSUME NEW spot, NEW T, NEW to, NEW k, NEW h, to # <<k, h>>
  PROVE  At(Moved(spot, T, to), k, h) = At(spot, k, h) \ T
BY DEF Moved, At

\* A placing again.
LEMMA MovedType ==
  ASSUME NEW spot \in [Frames -> Spots], NEW T, NEW to \in Spots
  PROVE  Moved(spot, T, to) \in [Frames -> Spots]
BY DEF Moved

\* Spots of a kind that no frame comes to or leaves.
LEMMA KeptAt ==
  ASSUME NEW spot, NEW T, NEW to, NEW k, to[1] # k, \A f \in T : spot[f][1] # k
  PROVE  \A h : At(Moved(spot, T, to), k, h) = At(spot, k, h)
<1>. SUFFICES ASSUME NEW h, NEW f \in Frames
              PROVE  Moved(spot, T, to)[f] = <<k, h>> <=> spot[f] = <<k, h>>
  BY DEF At
<1>1. <<k, h>>[1] = k  OBVIOUS
<1>2. CASE f \in T
  <2>1. Moved(spot, T, to)[f] = to /\ spot[f][1] # k  BY <1>2 DEF Moved
  <2>. QED  BY <1>1, <2>1
<1>3. CASE f \notin T  BY <1>3 DEF Moved
<1>. QED  BY <1>2, <1>3

\* Each list's frames are frames, and not None.
LEMMA AtFacts == \A spot, k, h : At(spot, k, h) \subseteq Frames /\ None \notin At(spot, k, h)
BY Basics DEF At

\* What is known of a spot.
LEMMA SpotFacts ==
  /\ \A h \in Harts : <<"staged", h>> \in Spots /\ <<"pending", h>> \in Spots /\ <<"zeroing", h>> \in Spots
                      /\ <<"done", h>> \in Spots
  /\ Nowhere \in Spots /\ <<"committing", 0>> \in Spots
BY DEF Spots

\* Lists of one kind that a step leaves alone.
LEMMA ChainedSame ==
  ASSUME NEW lnk, NEW heads, NEW k, NEW rank, NEW spot, NEW lnk2, NEW rank2, NEW spot2,
         Chained(lnk, heads, k, rank, spot),
         \A h \in Harts : At(spot2, k, h) = At(spot, k, h),
         \A f \in Frames : spot[f][1] = k => lnk2[f] = lnk[f] /\ rank2[f] = rank[f]
  PROVE  Chained(lnk2, heads, k, rank2, spot2)
<1>. SUFFICES ASSUME NEW h \in Harts  PROVE Chain(lnk2, rank2, At(spot2, k, h), heads[h])  BY DEF Chained
<1>1. Chain(lnk, rank, At(spot, k, h), heads[h]) /\ At(spot2, k, h) = At(spot, k, h)  BY DEF Chained
<1>2. \A f \in At(spot, k, h) : lnk2[f] = lnk[f] /\ rank2[f] = rank[f]  BY DEF At
<1>3. Chain(lnk2, rank2, At(spot, k, h), heads[h])  BY <1>1, <1>2, AtFacts, ChainSame
<1>. QED  BY <1>1, <1>3

\* A frame on no list is written over, zeroed or given to another.
LEMMA Touch ==
  ASSUME NEW own, NEW lnk, NEW dn, NEW com, NEW pnd, NEW stg, NEW hld, NEW zr, NEW top, NEW rank, NEW spot,
         Placed(own, lnk, dn, com, pnd, stg, hld, zr, top, rank, spot),
         NEW f \in Frames, spot[f][1] \notin {"pending", "done", "committing"}, NEW own2, NEW lnk2, NEW zr2,
         \A g \in Frames : own2[g] = "flight" <=> own[g] = "flight",
         \A g \in Frames \ {f} : lnk2[g] = lnk[g], zr \ {f} \subseteq zr2
  PROVE  Placed(own2, lnk2, dn, com, pnd, stg, hld, zr2, top, rank, spot)
<1>1. /\ Chained(lnk, pnd, "pending", rank, spot) /\ Chained(lnk, dn, "done", rank, spot)
      /\ Chain(lnk, rank, At(spot, "committing", 0), com)
      /\ Spotted(own, spot) /\ Clean(zr, spot)
  BY DEF Placed
<1>2. Chained(lnk2, pnd, "pending", rank, spot) /\ Chained(lnk2, dn, "done", rank, spot)
  <2>1. \A g \in Frames : spot[g][1] \in {"pending", "done"} => lnk2[g] = lnk[g]  OBVIOUS
  <2>. QED  BY <1>1, <2>1, ChainedSame
<1>3. Chain(lnk2, rank, At(spot, "committing", 0), com)
  <2>1. \A g \in At(spot, "committing", 0) : lnk2[g] = lnk[g]  BY DEF At
  <2>. QED  BY <1>1, <2>1, AtFacts, ChainSame
<1>4. Spotted(own2, spot) /\ Clean(zr2, spot)  BY <1>1 DEF Spotted, Clean
<1>. QED  BY <1>2, <1>3, <1>4 DEF Placed

\* A hart's done list becomes the one committed.
LEMMA TakeDone ==
  ASSUME NEW own, NEW lnk, NEW dn, NEW pnd, NEW stg, NEW hld, NEW zr, NEW top, NEW rank, NEW spot,
         Placed(own, lnk, dn, None, pnd, stg, hld, zr, top, rank, spot), NEW m \in Harts, DOMAIN dn = Harts
  PROVE  Placed(own, lnk, [dn EXCEPT ![m] = None], dn[m], pnd, stg, hld, zr, top, rank,
                Moved(spot, At(spot, "done", m), <<"committing", 0>>))
<1>. DEFINE T == At(spot, "done", m)
            new == Moved(spot, T, <<"committing", 0>>)
<1>0. spot \in [Frames -> Spots] /\ T \in SUBSET Frames  BY AtFacts DEF Placed
<1>1. new \in [Frames -> Spots]  BY <1>0, SpotFacts, MovedType
<1>2. /\ Chained(lnk, pnd, "pending", rank, spot) /\ Chained(lnk, dn, "done", rank, spot)
      /\ Chain(lnk, rank, At(spot, "committing", 0), None) /\ Sets(stg, "staged", spot) /\ Sets(hld, "zeroing", spot)
      /\ Spotted(own, spot) /\ Clean(zr, spot)
  BY DEF Placed
<1>3. /\ \A h \in Harts : At(new, "pending", h) = At(spot, "pending", h)
      /\ \A h \in Harts : At(new, "staged", h) = At(spot, "staged", h)
      /\ \A h \in Harts : At(new, "zeroing", h) = At(spot, "zeroing", h)
      /\ \A h \in Harts \ {m} : At(new, "done", h) = At(spot, "done", h)
      /\ At(new, "done", m) = {}
  <2>1. \A f \in T : spot[f][1] = "done"  BY DEF At
  <2>2. <<"committing", 0>>[1] = "committing"  OBVIOUS
  <2>3. /\ \A h : At(new, "pending", h) = At(spot, "pending", h)
        /\ \A h : At(new, "staged", h) = At(spot, "staged", h)
        /\ \A h : At(new, "zeroing", h) = At(spot, "zeroing", h)
    BY <2>1, <2>2, KeptAt
  <2>4. ASSUME NEW h \in Harts  PROVE At(new, "done", h) = At(spot, "done", h) \ T
    <3>1. <<"committing", 0>> # <<"done", h>>  OBVIOUS
    <3>. QED  BY <3>1, MovedFrom
  <2>5. \A h \in Harts \ {m} : At(spot, "done", h) \cap T = {}  BY DEF At
  <2>. HIDE DEF new
  <2>. QED  BY <2>3, <2>4, <2>5
<1>4. At(new, "committing", 0) = T
  <2>1. At(spot, "committing", 0) = {}  BY <1>2 DEF Chain
  <2>2. At(new, "committing", 0) = At(spot, "committing", 0) \cup T  BY <1>0, MovedTo
  <2>. QED  BY <2>1, <2>2
<1>5. Chain(lnk, rank, At(new, "committing", 0), dn[m])  BY <1>2, <1>4 DEF Chained
<1>. DEFINE d2 == [dn EXCEPT ![m] = None]
<1>6. Chained(lnk, d2, "done", rank, new)
  <2>. SUFFICES ASSUME NEW h \in Harts  PROVE Chain(lnk, rank, At(new, "done", h), d2[h])  BY DEF Chained
  <2>1. CASE h = m
    <3>1. At(new, "done", h) = {} /\ d2[h] = None  BY <2>1, <1>3
    <3>. QED  BY <3>1 DEF Chain
  <2>2. CASE h # m
    <3>1. At(new, "done", h) = At(spot, "done", h) /\ d2[h] = dn[h]  BY <2>2, <1>3
    <3>. QED  BY <3>1, <1>2 DEF Chained
  <2>. QED  BY <2>1, <2>2
<1>7. Chained(lnk, pnd, "pending", rank, new)  BY <1>2, <1>3, ChainedSame
<1>8. Sets(stg, "staged", new) /\ Sets(hld, "zeroing", new)  BY <1>2, <1>3 DEF Sets
<1>9. Spotted(own, new)  BY <1>2 DEF Spotted, Moved, At, Nowhere
<1>10. Clean(zr, new)  BY <1>2 DEF Clean, Moved, At
<1>. HIDE DEF d2, new
<1>11. Placed(own, lnk, d2, dn[m], pnd, stg, hld, zr, top, rank, new)
  BY <1>1, <1>5, <1>6, <1>7, <1>8, <1>9, <1>10 DEF Placed
<1>. QED  BY <1>11 DEF d2, new

\* The head of the list committed is given back.
LEMMA GiveBack ==
  ASSUME NEW own, NEW lnk, NEW dn, NEW com \in Frames, NEW pnd, NEW stg, NEW hld, NEW zr, NEW top, NEW rank, NEW spot,
         Placed(own, lnk, dn, com, pnd, stg, hld, zr, top, rank, spot), own \in [Frames -> Owners],
         DOMAIN lnk = Frames
  PROVE  /\ Placed([own EXCEPT ![com] = "free"], [lnk EXCEPT ![com] = None], dn, lnk[com], pnd, stg, hld, zr,
                   top, rank, Moved(spot, {com}, Nowhere))
         /\ com \in zr /\ lnk[com] \in Heads
<1>. DEFINE S == At(spot, "committing", 0)
            new == Moved(spot, {com}, Nowhere)
            own2 == [own EXCEPT ![com] = "free"]
            lnk2 == [lnk EXCEPT ![com] = None]
<1>0. spot \in [Frames -> Spots] /\ S \in SUBSET Frames /\ {com} \in SUBSET Frames /\ top \in Nat /\ rank \in [Frames -> 0 .. top]
  BY AtFacts DEF Placed
<1>1. new \in [Frames -> Spots]  BY <1>0, SpotFacts, MovedType
<1>2. /\ Chained(lnk, pnd, "pending", rank, spot) /\ Chained(lnk, dn, "done", rank, spot)
      /\ Chain(lnk, rank, S, com) /\ Sets(stg, "staged", spot) /\ Sets(hld, "zeroing", spot)
      /\ Spotted(own, spot) /\ Clean(zr, spot)
  BY DEF Placed
<1>3. com \in S /\ spot[com] = <<"committing", 0>> /\ lnk[com] \in Heads
  <2>1. com \in S  BY <1>2, Basics DEF Chain
  <2>. QED  BY <1>0, <1>2, <2>1 DEF Chain, At, Heads
<1>4. Chain(lnk, rank, S \ {com}, lnk[com])  BY <1>0, <1>2, <1>3, ChainPop
<1>5. /\ \A h \in Harts : At(new, "pending", h) = At(spot, "pending", h)
      /\ \A h \in Harts : At(new, "staged", h) = At(spot, "staged", h)
      /\ \A h \in Harts : At(new, "zeroing", h) = At(spot, "zeroing", h)
      /\ \A h \in Harts : At(new, "done", h) = At(spot, "done", h)
      /\ At(new, "committing", 0) = S \ {com}
  <2>1. spot[com][1] = "committing" /\ Nowhere[1] = "nowhere"  BY <1>3 DEF Nowhere
  <2>2. /\ \A h : At(new, "pending", h) = At(spot, "pending", h)
        /\ \A h : At(new, "staged", h) = At(spot, "staged", h)
        /\ \A h : At(new, "zeroing", h) = At(spot, "zeroing", h)
        /\ \A h : At(new, "done", h) = At(spot, "done", h)
    BY <2>1, KeptAt
  <2>3. Nowhere # <<"committing", 0>>  BY DEF Nowhere
  <2>4. At(new, "committing", 0) = S \ {com}  BY <2>3, MovedFrom
  <2>. QED  BY <2>2, <2>4
<1>. HIDE DEF new
<1>6. Chained(lnk2, pnd, "pending", rank, new) /\ Chained(lnk2, dn, "done", rank, new)
  <2>1. \A g \in Frames : spot[g][1] \in {"pending", "done"} => lnk2[g] = lnk[g]  BY <1>3
  <2>. HIDE DEF lnk2
  <2>. QED  BY <1>2, <1>5, <2>1, ChainedSame
<1>7. Chain(lnk2, rank, At(new, "committing", 0), lnk[com])
  <2>1. \A g \in S \ {com} : lnk2[g] = lnk[g]  BY <1>0
  <2>2. None \notin S \ {com}  BY AtFacts
  <2>. HIDE DEF lnk2, S
  <2>. QED  BY <1>4, <1>5, <2>1, <2>2, ChainSame
<1>8. Sets(stg, "staged", new) /\ Sets(hld, "zeroing", new)  BY <1>2, <1>5 DEF Sets
<1>9. Spotted(own2, new)  BY <1>2 DEF Spotted, Moved, new
<1>10. Clean(zr, new) /\ com \in zr  BY <1>2, <1>3 DEF Clean, Moved, Nowhere, new
<1>. HIDE DEF own2, lnk2
<1>11. Placed(own2, lnk2, dn, lnk[com], pnd, stg, hld, zr, top, rank, new)
  BY <1>0, <1>1, <1>6, <1>7, <1>8, <1>9, <1>10 DEF Placed
<1>. QED  BY <1>3, <1>10, <1>11 DEF own2, lnk2, new

\* Where frames are once some of them, staged or in nobody's hands, are pending.
LEMMA PendAt ==
  ASSUME NEW spot, NEW h \in Harts, NEW T \in SUBSET Frames, NEW new, new = Moved(spot, T, <<"pending", h>>),
         \A f \in T : spot[f] = Nowhere \/ spot[f] = <<"staged", h>>
  PROVE  /\ \A i : At(new, "done", i) = At(spot, "done", i) /\ At(new, "zeroing", i) = At(spot, "zeroing", i)
         /\ At(new, "committing", 0) = At(spot, "committing", 0)
         /\ At(new, "pending", h) = At(spot, "pending", h) \cup T
         /\ \A i \in Harts \ {h} : At(new, "pending", i) = At(spot, "pending", i)
         /\ \A i \in Harts \ {h} : At(new, "staged", i) = At(spot, "staged", i)
         /\ At(new, "staged", h) = At(spot, "staged", h) \ T
<1>1. \A f \in T : spot[f][1] \in {"nowhere", "staged"}  BY DEF Nowhere
<1>2. <<"pending", h>>[1] = "pending"  OBVIOUS
<1>3. \A f \in T : spot[f][1] # "done" /\ spot[f][1] # "zeroing" /\ spot[f][1] # "committing"  BY <1>1
<1>4. \A i : At(new, "done", i) = At(spot, "done", i)  BY <1>2, <1>3, KeptAt
<1>5. \A i : At(new, "zeroing", i) = At(spot, "zeroing", i)  BY <1>2, <1>3, KeptAt
<1>6. \A i : At(new, "committing", i) = At(spot, "committing", i)  BY <1>2, <1>3, KeptAt
<1>7. At(new, "pending", h) = At(spot, "pending", h) \cup T  BY MovedTo
<1>8. ASSUME NEW i \in Harts \ {h}  PROVE At(new, "pending", i) = At(spot, "pending", i)
  <2>1. <<"pending", h>> # <<"pending", i>>  OBVIOUS
  <2>2. At(new, "pending", i) = At(spot, "pending", i) \ T  BY <2>1, MovedFrom
  <2>3. \A f \in At(spot, "pending", i) : spot[f][1] = "pending"  BY DEF At
  <2>4. \A f \in At(spot, "pending", i) : f \notin T  BY <2>3, <1>1
  <2>. QED  BY <2>2, <2>4
<1>9. ASSUME NEW i \in Harts \ {h}  PROVE At(new, "staged", i) = At(spot, "staged", i)
  <2>1. <<"pending", h>> # <<"staged", i>>  OBVIOUS
  <2>2. At(new, "staged", i) = At(spot, "staged", i) \ T  BY <2>1, MovedFrom
  <2>3. <<"staged", i>> # <<"staged", h>> /\ <<"staged", i>> # Nowhere  BY DEF Nowhere
  <2>4. \A f \in At(spot, "staged", i) : f \notin T  BY <2>3 DEF At
  <2>. QED  BY <2>2, <2>4
<1>10. At(new, "staged", h) = At(spot, "staged", h) \ T
  <2>1. <<"pending", h>> # <<"staged", h>>  OBVIOUS
  <2>. QED  BY <2>1, MovedFrom
<1>. QED  BY <1>4, <1>5, <1>6, <1>7, <1>8, <1>9, <1>10

\* The n frames of sq, T, staged by hart h or in nobody's hands, are linked onto its pending list.
Pends(own, lnk, pnd, stg, spot, h, n, sq, T, own2, lnk2, pnd2, stg2) ==
  /\ h \in Harts /\ n \in Nat \ {0} /\ T \in SUBSET Frames
  /\ \A i \in 1 .. n : sq[i] \in T
  /\ \A f \in T : \E i \in 1 .. n : f = sq[i]
  /\ \A i, j \in 1 .. n : sq[i] = sq[j] => i = j
  /\ \A f \in T : spot[f] = Nowhere \/ spot[f] = <<"staged", h>>
  /\ \A f \in Frames : own2[f] = "flight" <=> own[f] = "flight" \/ f \in T
  /\ \A f \in Frames \ T : lnk2[f] = lnk[f]
  /\ \A i \in 1 .. n : lnk2[sq[i]] = IF i = 1 THEN pnd[h] ELSE sq[i - 1]
  /\ pnd2[h] = sq[n] /\ \A i \in Harts \ {h} : pnd2[i] = pnd[i]
  /\ stg2[h] = stg[h] \ T /\ \A i \in Harts \ {h} : stg2[i] = stg[i]

\* They are in place there.
LEMMA Pend ==
  ASSUME NEW own, NEW lnk, NEW dn, NEW com, NEW pnd, NEW stg, NEW hld, NEW zr, NEW top, NEW rank, NEW spot,
         Placed(own, lnk, dn, com, pnd, stg, hld, zr, top, rank, spot),
         NEW h, NEW n, NEW sq, NEW T, NEW own2, NEW lnk2, NEW pnd2, NEW stg2,
         Pends(own, lnk, pnd, stg, spot, h, n, sq, T, own2, lnk2, pnd2, stg2)
  PROVE  \E top2, rank2, spot2 : Placed(own2, lnk2, dn, com, pnd2, stg2, hld, zr, top2, rank2, spot2)
<1>. USE DEF Pends
<1>. DEFINE spot2 == Moved(spot, T, <<"pending", h>>)
            at(f) == CHOOSE i \in 1 .. n : sq[i] = f
            rank2 == [f \in Frames |-> IF f \in T THEN top + at(f) ELSE rank[f]]
            top2 == top + n
            S == At(spot, "pending", h)
<1>0. spot \in [Frames -> Spots] /\ S \in SUBSET Frames /\ top \in Nat /\ rank \in [Frames -> 0 .. top]
  BY AtFacts DEF Placed
<1>1. /\ Chained(lnk, pnd, "pending", rank, spot) /\ Chained(lnk, dn, "done", rank, spot)
      /\ Chain(lnk, rank, At(spot, "committing", 0), com) /\ Sets(stg, "staged", spot) /\ Sets(hld, "zeroing", spot)
      /\ Spotted(own, spot) /\ Clean(zr, spot)
  BY DEF Placed
<1>2. \A f \in T : spot[f][1] \in {"nowhere", "staged"}  BY DEF Nowhere
<1>3. spot2 \in [Frames -> Spots]  BY <1>0, SpotFacts, MovedType
<1>4. \A i \in 1 .. n : at(sq[i]) = i /\ sq[i] \in T  OBVIOUS
<1>5. \A f \in T : at(f) \in 1 .. n  OBVIOUS
<1>. HIDE DEF at
<1>6. rank2 \in [Frames -> 0 .. top2]
  <2>1. \A f \in Frames : rank[f] \in 0 .. top  BY <1>0
  <2>2. \A x \in 0 .. top : x \in 0 .. top2  BY <1>0
  <2>3. \A i \in 1 .. n : top + i \in 0 .. top2  BY <1>0
  <2>. QED  BY <2>1, <2>2, <2>3, <1>5
<1>7. /\ \A i \in 1 .. n : rank2[sq[i]] = top + i
      /\ \A f \in Frames \ T : rank2[f] = rank[f]
  BY <1>4
<1>8. top2 \in Nat  BY <1>0
<1>. HIDE DEF rank2, top2
<1>9. /\ \A i : At(spot2, "done", i) = At(spot, "done", i) /\ At(spot2, "zeroing", i) = At(spot, "zeroing", i)
      /\ At(spot2, "committing", 0) = At(spot, "committing", 0)
      /\ At(spot2, "pending", h) = S \cup T
      /\ \A i \in Harts \ {h} : At(spot2, "pending", i) = At(spot, "pending", i)
      /\ \A i \in Harts \ {h} : At(spot2, "staged", i) = At(spot, "staged", i)
      /\ At(spot2, "staged", h) = At(spot, "staged", h) \ T
  BY PendAt
<1>. HIDE DEF spot2
<1>10. Sets(hld, "zeroing", spot2)  BY <1>1, <1>9 DEF Sets
<1>11. Sets(stg2, "staged", spot2)
  <2>. SUFFICES ASSUME NEW i \in Harts  PROVE At(spot2, "staged", i) = stg2[i]  BY DEF Sets
  <2>1. At(spot, "staged", i) = stg[i]  BY <1>1 DEF Sets
  <2>. QED  BY <2>1, <1>9
<1>12. Spotted(own2, spot2)
  <2>. SUFFICES ASSUME NEW f \in Frames  PROVE own2[f] = "flight" <=> spot2[f] # Nowhere  BY DEF Spotted
  <2>1. own[f] = "flight" <=> spot[f] # Nowhere  BY <1>1 DEF Spotted
  <2>2. spot2[f] = IF f \in T THEN <<"pending", h>> ELSE spot[f]  BY DEF spot2, Moved
  <2>3. <<"pending", h>> # Nowhere  BY DEF Nowhere
  <2>. QED  BY <2>1, <2>2, <2>3
<1>13. Clean(zr, spot2)  BY <1>1 DEF Clean, spot2, Moved
<1>14. \A f \in Frames : spot[f][1] \in {"pending", "done", "committing"} => lnk2[f] = lnk[f] /\ rank2[f] = rank[f]
  BY <1>2, <1>7
<1>15. Chained(lnk2, dn, "done", rank2, spot2)  BY <1>1, <1>9, <1>14, ChainedSame
<1>16. Chain(lnk2, rank2, At(spot2, "committing", 0), com)
  <2>1. \A f \in At(spot, "committing", 0) : lnk2[f] = lnk[f] /\ rank2[f] = rank[f]  BY <1>14 DEF At
  <2>. QED  BY <1>1, <1>9, <2>1, AtFacts, ChainSame
<1>17. Chained(lnk2, pnd2, "pending", rank2, spot2)
  <2>. SUFFICES ASSUME NEW i \in Harts  PROVE Chain(lnk2, rank2, At(spot2, "pending", i), pnd2[i])  BY DEF Chained
  <2>1. Chain(lnk, rank, At(spot, "pending", i), pnd[i])  BY <1>1 DEF Chained
  <2>2. \A f \in At(spot, "pending", i) : lnk2[f] = lnk[f] /\ rank2[f] = rank[f]  BY <1>14 DEF At
  <2>3. CASE i # h
    <3>1. Chain(lnk2, rank2, At(spot, "pending", i), pnd[i])  BY <2>1, <2>2, AtFacts, ChainSame
    <3>. QED  BY <2>3, <3>1, <1>9
  <2>4. CASE i = h
    <3>1. \A f \in S : f \notin T
      <4>1. \A f \in S : spot[f][1] = "pending"  BY DEF At
      <4>. QED  BY <4>1, <1>2
    <3>2. Chain(lnk, rank, S, pnd[h])  BY <2>1, <2>4
    <3>3. \A f \in S : lnk2[f] = lnk[f] /\ rank2[f] = rank[f]  BY <2>2, <2>4
    <3>. HIDE DEF S
    <3>4. Pushes(lnk, rank, S, pnd[h], lnk2, rank2, top, n, sq, T)  BY <1>7, <3>1, <3>3 DEF Pushes
    <3>5. Chain(lnk2, rank2, S \cup T, sq[n])  BY <1>0, <3>2, <3>4, ChainPush
    <3>. QED  BY <2>4, <3>5, <1>9
  <2>. QED  BY <2>3, <2>4
<1>18. Placed(own2, lnk2, dn, com, pnd2, stg2, hld, zr, top2, rank2, spot2)
  BY <1>3, <1>6, <1>8, <1>10, <1>11, <1>12, <1>13, <1>15, <1>16, <1>17 DEF Placed
<1>. QED  BY <1>18

\* A frame in nobody's hands is staged.
LEMMA StageOne ==
  ASSUME NEW own, NEW lnk, NEW dn, NEW com, NEW pnd, NEW stg, NEW hld, NEW zr, NEW top, NEW rank, NEW spot,
         Placed(own, lnk, dn, com, pnd, stg, hld, zr, top, rank, spot),
         NEW h \in Harts, NEW f \in Frames, own[f] # "flight", NEW own2, NEW stg2,
         \A g \in Frames : own2[g] = "flight" <=> own[g] = "flight" \/ g = f,
         stg2[h] = stg[h] \cup {f}, \A i \in Harts \ {h} : stg2[i] = stg[i]
  PROVE  Placed(own2, lnk, dn, com, pnd, stg2, hld, zr, top, rank, Moved(spot, {f}, <<"staged", h>>))
<1>. DEFINE new == Moved(spot, {f}, <<"staged", h>>)
<1>0. spot \in [Frames -> Spots] /\ {f} \in SUBSET Frames  BY DEF Placed
<1>1. /\ Chained(lnk, pnd, "pending", rank, spot) /\ Chained(lnk, dn, "done", rank, spot)
      /\ Chain(lnk, rank, At(spot, "committing", 0), com) /\ Sets(stg, "staged", spot) /\ Sets(hld, "zeroing", spot)
      /\ Spotted(own, spot) /\ Clean(zr, spot)
  BY DEF Placed
<1>2. spot[f] = Nowhere /\ spot[f][1] = "nowhere"  BY <1>1 DEF Spotted, Nowhere
<1>3. new \in [Frames -> Spots]  BY <1>0, SpotFacts, MovedType
<1>4. \A i : /\ At(new, "done", i) = At(spot, "done", i) /\ At(new, "zeroing", i) = At(spot, "zeroing", i)
             /\ At(new, "pending", i) = At(spot, "pending", i) /\ At(new, "committing", i) = At(spot, "committing", i)
  <2>1. <<"staged", h>>[1] = "staged"  OBVIOUS
  <2>. QED  BY <1>2, <2>1, KeptAt
<1>5. Sets(stg2, "staged", new)
  <2>. SUFFICES ASSUME NEW i \in Harts  PROVE At(new, "staged", i) = stg2[i]  BY SMTT(30) DEF Sets
  <2>1. At(spot, "staged", i) = stg[i]  BY <1>1 DEF Sets
  <2>2. CASE i = h
    <3>1. At(new, "staged", i) = At(spot, "staged", i) \cup {f}  BY <1>0, <2>2, MovedTo
    <3>. QED  BY <2>1, <2>2, <3>1
  <2>3. CASE i # h
    <3>1. <<"staged", i>> # <<"staged", h>>  BY <2>3
    <3>2. At(new, "staged", i) = At(spot, "staged", i) \ {f}  BY <3>1, MovedFrom
    <3>3. f \notin At(spot, "staged", i)  BY <1>2 DEF At, Nowhere
    <3>. QED  BY <2>1, <2>3, <3>2, <3>3
  <2>. QED  BY <2>2, <2>3
<1>6. Spotted(own2, new)
  <2>. SUFFICES ASSUME NEW g \in Frames  PROVE own2[g] = "flight" <=> new[g] # Nowhere  BY DEF Spotted
  <2>1. own[g] = "flight" <=> spot[g] # Nowhere  BY <1>1 DEF Spotted
  <2>2. new[g] = IF g = f THEN <<"staged", h>> ELSE spot[g]  BY DEF Moved
  <2>3. <<"staged", h>> # Nowhere  BY DEF Nowhere
  <2>. HIDE DEF new
  <2>. QED  BY <2>1, <2>2, <2>3
<1>7. Clean(zr, new)  BY <1>1 DEF Clean, Moved
<1>. HIDE DEF new
<1>8. Sets(hld, "zeroing", new)  BY <1>1, <1>4 DEF Sets
<1>9. Chained(lnk, pnd, "pending", rank, new) /\ Chained(lnk, dn, "done", rank, new)  BY <1>1, <1>4, ChainedSame
<1>10. Chain(lnk, rank, At(new, "committing", 0), com)  BY <1>1, <1>4
<1>11. Placed(own2, lnk, dn, com, pnd, stg2, hld, zr, top, rank, new)
  BY <1>3, <1>5, <1>6, <1>7, <1>8, <1>9, <1>10 DEF Placed
<1>. QED  BY <1>11 DEF new

\* Hart i takes the head of a pending list, h's, to zero it.
LEMMA TakeHeld ==
  ASSUME NEW own, NEW lnk, NEW dn, NEW com, NEW pnd, NEW stg, NEW hld, NEW zr, NEW top, NEW rank, NEW spot,
         Placed(own, lnk, dn, com, pnd, stg, hld, zr, top, rank, spot),
         NEW h \in Harts, NEW f \in Frames, pnd[h] = f, hld[h] = {}, NEW pnd2, NEW hld2,
         pnd2[h] = lnk[f], \A g \in Harts \ {h} : pnd2[g] = pnd[g],
         hld2[h] = {f}, \A g \in Harts \ {h} : hld2[g] = hld[g]
  PROVE  Placed(own, lnk, dn, com, pnd2, stg, hld2, zr, top, rank, Moved(spot, {f}, <<"zeroing", h>>))
<1>. DEFINE S == At(spot, "pending", h)
<1>n. PICK new : new = Moved(spot, {f}, <<"zeroing", h>>)  OBVIOUS
<1>0. spot \in [Frames -> Spots] /\ S \in SUBSET Frames /\ {f} \in SUBSET Frames
      /\ top \in Nat /\ rank \in [Frames -> 0 .. top]
  BY AtFacts DEF Placed
<1>1. /\ Chained(lnk, pnd, "pending", rank, spot) /\ Chained(lnk, dn, "done", rank, spot)
      /\ Chain(lnk, rank, At(spot, "committing", 0), com) /\ Sets(stg, "staged", spot) /\ Sets(hld, "zeroing", spot)
      /\ Spotted(own, spot) /\ Clean(zr, spot)
  BY DEF Placed
<1>2. Chain(lnk, rank, S, f) /\ f \in S /\ spot[f] = <<"pending", h>> /\ spot[f][1] = "pending"
  <2>1. Chain(lnk, rank, S, f)  BY <1>1 DEF Chained
  <2>2. f \in S  BY <2>1, Basics DEF Chain
  <2>. QED  BY <2>1, <2>2 DEF At
<1>3. new \in [Frames -> Spots]  BY <1>0, SpotFacts, MovedType, <1>n
<1>4. \A i : /\ At(new, "done", i) = At(spot, "done", i) /\ At(new, "staged", i) = At(spot, "staged", i)
             /\ At(new, "committing", i) = At(spot, "committing", i)
  <2>1. <<"zeroing", h>>[1] = "zeroing"  OBVIOUS
  <2>. QED  BY <1>2, <2>1, KeptAt, <1>n
<1>5. At(new, "pending", h) = S \ {f} /\ \A i \in Harts \ {h} : At(new, "pending", i) = At(spot, "pending", i)
  <2>1. ASSUME NEW i \in Harts  PROVE At(new, "pending", i) = At(spot, "pending", i) \ {f}
    <3>1. <<"zeroing", h>> # <<"pending", i>>  OBVIOUS
    <3>. QED  BY <3>1, MovedFrom, <1>n
  <2>2. ASSUME NEW i \in Harts \ {h}  PROVE f \notin At(spot, "pending", i)
    <3>1. <<"pending", h>> # <<"pending", i>>  OBVIOUS
    <3>. QED  BY <3>1, <1>2 DEF At
  <2>3. ASSUME NEW i \in Harts \ {h}  PROVE At(new, "pending", i) = At(spot, "pending", i)
    <3>1. At(new, "pending", i) = At(spot, "pending", i) \ {f}  BY <2>1
    <3>2. f \notin At(spot, "pending", i)  BY <2>2
    <3>. QED  BY <3>1, <3>2
  <2>. QED  BY <2>1, <2>3
<1>6. At(new, "zeroing", h) = {f} /\ \A i \in Harts \ {h} : At(new, "zeroing", i) = At(spot, "zeroing", i)
  <2>1. At(new, "zeroing", h) = At(spot, "zeroing", h) \cup {f}  BY <1>0, MovedTo, <1>n
  <2>2. At(spot, "zeroing", h) = {}  BY <1>1 DEF Sets
  <2>3. ASSUME NEW i \in Harts \ {h}  PROVE At(new, "zeroing", i) = At(spot, "zeroing", i)
    <3>1. <<"zeroing", h>> # <<"zeroing", i>>  OBVIOUS
    <3>2. At(new, "zeroing", i) = At(spot, "zeroing", i) \ {f}  BY <3>1, MovedFrom, <1>n
    <3>3. <<"pending", h>> # <<"zeroing", i>>  OBVIOUS
    <3>4. f \notin At(spot, "zeroing", i)  BY <3>3, <1>2 DEF At
    <3>. QED  BY <3>2, <3>4
  <2>. QED  BY <2>1, <2>2, <2>3
<1>7. Chained(lnk, pnd2, "pending", rank, new)
  <2>. SUFFICES ASSUME NEW i \in Harts  PROVE Chain(lnk, rank, At(new, "pending", i), pnd2[i])  BY DEF Chained
  <2>1. CASE i = h
    <3>1. Chain(lnk, rank, S \ {f}, lnk[f])  BY <1>0, <1>2, ChainPop
    <3>. QED  BY <2>1, <3>1, <1>5
  <2>2. CASE i # h
    <3>1. Chain(lnk, rank, At(spot, "pending", i), pnd[i])  BY <1>1 DEF Chained
    <3>. QED  BY <2>2, <3>1, <1>5
  <2>. QED  BY <2>1, <2>2
<1>8. Sets(hld2, "zeroing", new) /\ Sets(stg, "staged", new)  BY <1>1, <1>4, <1>6 DEF Sets
<1>9. Chained(lnk, dn, "done", rank, new)  BY <1>1, <1>4, ChainedSame
<1>10. Chain(lnk, rank, At(new, "committing", 0), com)  BY <1>1, <1>4
<1>11. Spotted(own, new)
  <2>. SUFFICES ASSUME NEW g \in Frames  PROVE own[g] = "flight" <=> new[g] # Nowhere  BY DEF Spotted
  <2>1. own[g] = "flight" <=> spot[g] # Nowhere  BY <1>1 DEF Spotted
  <2>2. new[g] = IF g = f THEN <<"zeroing", h>> ELSE spot[g]  BY <1>n DEF Moved
  <2>3. <<"zeroing", h>> # Nowhere /\ <<"pending", h>> # Nowhere  BY DEF Nowhere
  <2>. QED  BY <2>1, <2>2, <2>3, <1>2
<1>12. Clean(zr, new)  BY <1>1, <1>n DEF Clean, Moved
<1>13. Placed(own, lnk, dn, com, pnd2, stg, hld2, zr, top, rank, new)
  BY <1>0, <1>3, <1>7, <1>8, <1>9, <1>10, <1>11, <1>12 DEF Placed
<1>. QED  BY <1>13, <1>n

\* The head of a pending list, h's, is zeroed under the lock and freed.
LEMMA FreePending ==
  ASSUME NEW own, NEW lnk, NEW dn, NEW com, NEW pnd, NEW stg, NEW hld, NEW zr, NEW top, NEW rank, NEW spot,
         Placed(own, lnk, dn, com, pnd, stg, hld, zr, top, rank, spot),
         NEW h \in Harts, NEW f \in Frames, pnd[h] = f, NEW own2, NEW lnk2, NEW pnd2, NEW zr2,
         own2[f] # "flight", \A g \in Frames \ {f} : own2[g] = own[g] /\ lnk2[g] = lnk[g],
         pnd2[h] = lnk[f], \A g \in Harts \ {h} : pnd2[g] = pnd[g], zr \subseteq zr2
  PROVE  /\ Placed(own2, lnk2, dn, com, pnd2, stg, hld, zr2, top, rank, Moved(spot, {f}, Nowhere))
         /\ lnk[f] \in Heads
<1>. DEFINE S == At(spot, "pending", h)
<1>n. PICK new : new = Moved(spot, {f}, Nowhere)  OBVIOUS
<1>0. spot \in [Frames -> Spots] /\ S \in SUBSET Frames /\ {f} \in SUBSET Frames
      /\ top \in Nat /\ rank \in [Frames -> 0 .. top]
  BY AtFacts DEF Placed
<1>1. /\ Chained(lnk, pnd, "pending", rank, spot) /\ Chained(lnk, dn, "done", rank, spot)
      /\ Chain(lnk, rank, At(spot, "committing", 0), com) /\ Sets(stg, "staged", spot) /\ Sets(hld, "zeroing", spot)
      /\ Spotted(own, spot) /\ Clean(zr, spot)
  BY DEF Placed
<1>2. Chain(lnk, rank, S, f) /\ f \in S /\ spot[f] = <<"pending", h>> /\ spot[f][1] = "pending" /\ lnk[f] \in Heads
  <2>1. Chain(lnk, rank, S, f)  BY <1>1 DEF Chained
  <2>2. f \in S  BY <2>1, Basics DEF Chain
  <2>3. lnk[f] \in S \cup {None}  BY <2>1, <2>2 DEF Chain
  <2>. QED  BY <1>0, <2>1, <2>2, <2>3 DEF At, Heads
<1>3. new \in [Frames -> Spots]  BY <1>0, SpotFacts, MovedType, <1>n
<1>4. \A i : /\ At(new, "done", i) = At(spot, "done", i) /\ At(new, "staged", i) = At(spot, "staged", i)
             /\ At(new, "zeroing", i) = At(spot, "zeroing", i)
             /\ At(new, "committing", i) = At(spot, "committing", i)
  <2>1. Nowhere[1] = "nowhere"  BY DEF Nowhere
  <2>. QED  BY <1>2, <2>1, KeptAt, <1>n
<1>5. At(new, "pending", h) = S \ {f} /\ \A i \in Harts \ {h} : At(new, "pending", i) = At(spot, "pending", i)
  <2>1. ASSUME NEW i \in Harts  PROVE At(new, "pending", i) = At(spot, "pending", i) \ {f}
    <3>1. Nowhere # <<"pending", i>>  BY DEF Nowhere
    <3>. QED  BY <3>1, MovedFrom, <1>n
  <2>2. ASSUME NEW i \in Harts \ {h}  PROVE f \notin At(spot, "pending", i)
    <3>1. <<"pending", h>> # <<"pending", i>>  OBVIOUS
    <3>. QED  BY <3>1, <1>2 DEF At
  <2>3. ASSUME NEW i \in Harts \ {h}  PROVE At(new, "pending", i) = At(spot, "pending", i)
    <3>1. At(new, "pending", i) = At(spot, "pending", i) \ {f}  BY <2>1
    <3>2. f \notin At(spot, "pending", i)  BY <2>2
    <3>. QED  BY <3>1, <3>2
  <2>. QED  BY <2>1, <2>3
<1>6. \A g \in Frames : g # f => lnk2[g] = lnk[g]  OBVIOUS
<1>7. Chained(lnk2, pnd2, "pending", rank, new)
  <2>. SUFFICES ASSUME NEW i \in Harts  PROVE Chain(lnk2, rank, At(new, "pending", i), pnd2[i])  BY DEF Chained
  <2>1. \A g \in At(new, "pending", i) : lnk2[g] = lnk[g]
    <3>1. new[f] = Nowhere /\ Nowhere # <<"pending", i>>  BY <1>n DEF Moved, Nowhere
    <3>. QED  BY <1>6, <3>1 DEF At
  <2>2. CASE i = h
    <3>1. Chain(lnk, rank, S \ {f}, lnk[f])  BY <1>0, <1>2, ChainPop
    <3>2. Chain(lnk, rank, At(new, "pending", i), pnd2[i])  BY <2>2, <3>1, <1>5
    <3>. QED  BY <2>1, <3>2, AtFacts, ChainSame
  <2>3. CASE i # h
    <3>1. Chain(lnk, rank, At(spot, "pending", i), pnd[i])  BY <1>1 DEF Chained
    <3>2. Chain(lnk, rank, At(new, "pending", i), pnd2[i])  BY <2>3, <3>1, <1>5
    <3>. QED  BY <2>1, <3>2, AtFacts, ChainSame
  <2>. QED  BY <2>2, <2>3
<1>8. Sets(hld, "zeroing", new) /\ Sets(stg, "staged", new)  BY <1>1, <1>4 DEF Sets
<1>9. Chained(lnk2, dn, "done", rank, new)
  <2>1. \A g \in Frames : spot[g][1] = "done" => lnk2[g] = lnk[g]  BY <1>2, <1>6
  <2>. QED  BY <1>1, <1>4, <2>1, ChainedSame
<1>10. Chain(lnk2, rank, At(new, "committing", 0), com)
  <2>1. f \notin At(spot, "committing", 0)  BY <1>2 DEF At
  <2>2. \A g \in At(spot, "committing", 0) : lnk2[g] = lnk[g]  BY <1>6, <2>1, AtFacts
  <2>. QED  BY <1>1, <1>4, <2>2, AtFacts, ChainSame
<1>11. Spotted(own2, new)  BY <1>1, <1>n DEF Spotted, Moved
<1>12. Clean(zr2, new)  BY <1>1, <1>n DEF Clean, Moved, Nowhere
<1>13. Placed(own2, lnk2, dn, com, pnd2, stg, hld, zr2, top, rank, new)
  BY <1>0, <1>3, <1>7, <1>8, <1>9, <1>10, <1>11, <1>12 DEF Placed
<1>. QED  BY <1>2, <1>13, <1>n

\* A hart pushes the frame it zeroed onto its done list.
LEMMA PushDone ==
  ASSUME NEW own, NEW lnk, NEW dn, NEW com, NEW pnd, NEW stg, NEW hld, NEW zr, NEW top, NEW rank, NEW spot,
         Placed(own, lnk, dn, com, pnd, stg, hld, zr, top, rank, spot),
         NEW h \in Harts, NEW f \in Frames, hld[h] = {f}, lnk[f] = dn[h], f \in zr, NEW dn2, NEW hld2,
         dn2[h] = f, \A g \in Harts \ {h} : dn2[g] = dn[g],
         hld2[h] = {}, \A g \in Harts \ {h} : hld2[g] = hld[g]
  PROVE  \E top2, rank2, spot2 : Placed(own, lnk, dn2, com, pnd, stg, hld2, zr, top2, rank2, spot2)
<1>. DEFINE S == At(spot, "done", h)
<1>n. PICK new : new = Moved(spot, {f}, <<"done", h>>)  OBVIOUS
<1>r. PICK rank2 : rank2 = [rank EXCEPT ![f] = top + 1]  OBVIOUS
<1>0. spot \in [Frames -> Spots] /\ S \in SUBSET Frames /\ {f} \in SUBSET Frames
      /\ top \in Nat /\ rank \in [Frames -> 0 .. top]
  BY AtFacts DEF Placed
<1>1. /\ Chained(lnk, pnd, "pending", rank, spot) /\ Chained(lnk, dn, "done", rank, spot)
      /\ Chain(lnk, rank, At(spot, "committing", 0), com) /\ Sets(stg, "staged", spot) /\ Sets(hld, "zeroing", spot)
      /\ Spotted(own, spot) /\ Clean(zr, spot)
  BY DEF Placed
<1>2. spot[f] = <<"zeroing", h>> /\ spot[f][1] = "zeroing"
  <2>1. f \in At(spot, "zeroing", h)  BY <1>1 DEF Sets
  <2>. QED  BY <2>1 DEF At
<1>3. new \in [Frames -> Spots]  BY <1>0, SpotFacts, MovedType, <1>n
<1>4. \A i : /\ At(new, "staged", i) = At(spot, "staged", i) /\ At(new, "pending", i) = At(spot, "pending", i)
             /\ At(new, "committing", i) = At(spot, "committing", i)
  <2>1. <<"done", h>>[1] = "done"  OBVIOUS
  <2>. QED  BY <1>2, <2>1, KeptAt, <1>n
<1>5. At(new, "done", h) = S \cup {f} /\ \A i \in Harts \ {h} : At(new, "done", i) = At(spot, "done", i)
  <2>1. At(new, "done", h) = S \cup {f}  BY <1>0, MovedTo, <1>n
  <2>2. ASSUME NEW i \in Harts \ {h}  PROVE At(new, "done", i) = At(spot, "done", i)
    <3>1. <<"done", h>> # <<"done", i>> /\ <<"zeroing", h>> # <<"done", i>>  OBVIOUS
    <3>2. At(new, "done", i) = At(spot, "done", i) \ {f}  BY <3>1, MovedFrom, <1>n
    <3>3. f \notin At(spot, "done", i)  BY <3>1, <1>2 DEF At
    <3>. QED  BY <3>2, <3>3
  <2>. QED  BY <2>1, <2>2
<1>6. Sets(hld2, "zeroing", new)
  <2>. SUFFICES ASSUME NEW i \in Harts  PROVE At(new, "zeroing", i) = hld2[i]  BY DEF Sets
  <2>1. At(new, "zeroing", i) = At(spot, "zeroing", i) \ {f} /\ At(spot, "zeroing", i) = hld[i]
    <3>1. <<"done", h>> # <<"zeroing", i>>  OBVIOUS
    <3>. QED  BY <3>1, <1>1, MovedFrom, <1>n DEF Sets
  <2>2. CASE i = h  BY <2>1, <2>2
  <2>3. CASE i # h
    <3>1. <<"zeroing", h>> # <<"zeroing", i>>  BY <2>3
    <3>2. f \notin At(spot, "zeroing", i)  BY <3>1, <1>2 DEF At
    <3>. QED  BY <2>1, <2>3, <3>2
  <2>. QED  BY <2>2, <2>3
<1>7. rank2 \in [Frames -> 0 .. top + 1] /\ rank2[f] = top + 1 /\ \A g \in Frames \ {f} : rank2[g] = rank[g]
  <2>1. \A x \in 0 .. top : x \in 0 .. top + 1  BY <1>0
  <2>2. top + 1 \in 0 .. top + 1  BY <1>0
  <2>. QED  BY <1>r, <1>0, <2>1, <2>2
<1>8. \A g \in Frames : spot[g][1] \in {"pending", "done", "committing"} => rank2[g] = rank[g]  BY <1>2, <1>7
<1>9. Chained(lnk, pnd, "pending", rank2, new)  BY <1>1, <1>4, <1>8, ChainedSame
<1>10. Chain(lnk, rank2, At(new, "committing", 0), com)
  <2>1. \A g \in At(spot, "committing", 0) : rank2[g] = rank[g]  BY <1>8 DEF At
  <2>. QED  BY <1>1, <1>4, <2>1, AtFacts, ChainSame
<1>11. Chained(lnk, dn2, "done", rank2, new)
  <2>. SUFFICES ASSUME NEW i \in Harts  PROVE Chain(lnk, rank2, At(new, "done", i), dn2[i])  BY DEF Chained
  <2>1. Chain(lnk, rank, At(spot, "done", i), dn[i])  BY <1>1 DEF Chained
  <2>2. \A g \in At(spot, "done", i) : rank2[g] = rank[g]  BY <1>8 DEF At
  <2>3. CASE i = h
    <3>1. f \notin S  BY <1>2 DEF At
    <3>2. \A g \in S : g \notin {f} /\ rank2[g] = rank[g]  BY <2>2, <2>3, <3>1
    <3>. HIDE DEF S
    <3>. DEFINE sq == <<f>>
    <3>3. Pushes(lnk, rank, S, dn[h], lnk, rank2, top, 1, sq, {f})  BY <1>0, <1>7, <3>2 DEF Pushes
    <3>4. Chain(lnk, rank, S, dn[h])  BY <2>1, <2>3 DEF S
    <3>5. Chain(lnk, rank2, S \cup {f}, sq[1])  BY <1>0, <3>3, <3>4, ChainPush
    <3>. QED  BY <2>3, <3>5, <1>5
  <2>4. CASE i # h
    <3>1. Chain(lnk, rank2, At(spot, "done", i), dn[i])  BY <2>1, <2>2, AtFacts, ChainSame
    <3>. QED  BY <2>4, <3>1, <1>5
  <2>. QED  BY <2>3, <2>4
<1>12. Sets(stg, "staged", new)  BY <1>1, <1>4 DEF Sets
<1>13. Spotted(own, new)
  <2>. SUFFICES ASSUME NEW g \in Frames  PROVE own[g] = "flight" <=> new[g] # Nowhere  BY DEF Spotted
  <2>1. own[g] = "flight" <=> spot[g] # Nowhere  BY <1>1 DEF Spotted
  <2>2. new[g] = IF g = f THEN <<"done", h>> ELSE spot[g]  BY <1>n DEF Moved
  <2>3. <<"zeroing", h>> # Nowhere /\ <<"done", h>> # Nowhere  BY DEF Nowhere
  <2>. QED  BY <2>1, <2>2, <2>3, <1>2
<1>14. Clean(zr, new)  BY <1>1, <1>n DEF Clean, Moved
<1>15. top + 1 \in Nat  BY <1>0
<1>16. Placed(own, lnk, dn2, com, pnd, stg, hld2, zr, top + 1, rank2, new)
  BY <1>3, <1>6, <1>7, <1>9, <1>10, <1>11, <1>12, <1>13, <1>14, <1>15 DEF Placed
<1>. QED  BY <1>16

----------------------------------------------------------------------------
(* Commits. *)

\* What a commit keeps, of the record it works on; the links of frames in a hart's hands are as they were.
Kept(s, pnd, stg, hld, zr, was) ==
  /\ s \in States /\ InPlace(s, pnd, stg, hld, zr) /\ ZeroIn(s.owner, s.link, zr)
  /\ \A h \in Harts : \A f \in hld[h] : s.link[f] = was[f]

\* One turn of commit's loop keeps it.
LEMMA CommitOneKept ==
  ASSUME NEW s, NEW pnd, NEW stg, NEW hld, NEW zr, NEW was, Kept(s, pnd, stg, hld, zr, was)
  PROVE  Kept(CommitOne(s), pnd, stg, hld, zr, was)
<1>. DEFINE from == Listed(s)
            m == Min(from)
            t == IF s.committing = None /\ from # {}
                 THEN [s EXCEPT !.committing = s.done[m], !.done[m] = None] ELSE s
<1>1. s \in States /\ ZeroIn(s.owner, s.link, zr)  BY DEF Kept
<1>2. PICK top, rank, spot : Placed(s.owner, s.link, s.done, s.committing, pnd, stg, hld, zr, top, rank, spot)
  BY DEF Kept, InPlace
<1>3. /\ s.owner \in [Frames -> Owners] /\ s.link \in [Frames -> Heads \cup {Junk}]
      /\ s.done \in [Harts -> Heads] /\ s.committing \in Heads
  BY <1>1 DEF States
<1>4. Kept(t, pnd, stg, hld, zr, was)
  <2>1. CASE s.committing = None /\ from # {}
    <3>1. from \in SUBSET Nat  BY Basics DEF Listed
    <3>2. m \in from  BY <2>1, <3>1, MinFacts
    <3>3. m \in Harts  BY <3>2 DEF Listed
    <3>. DEFINE d2 == [s.done EXCEPT ![m] = None]
    <3>u. PICK u : u = [s EXCEPT !.committing = s.done[m], !.done[m] = None]  OBVIOUS
    <3>4. t = u  BY <2>1, <3>u
    <3>. HIDE DEF m
    <3>5. u = [owner |-> s.owner, link |-> s.link, done |-> d2, committing |-> s.done[m]]
      BY <1>1, <1>3, <3>3, <3>u DEF States
    <3>6. u.owner = s.owner /\ u.link = s.link /\ u.done = d2 /\ u.committing = s.done[m]  BY <3>5
    <3>7. d2 \in [Harts -> Heads]  BY <1>3, <3>3 DEF Heads
    <3>8. u \in States  BY <1>3, <3>3, <3>5, <3>7 DEF States
    <3>9. Placed(s.owner, s.link, d2, s.done[m], pnd, stg, hld, zr, top, rank,
                 Moved(spot, At(spot, "done", m), <<"committing", 0>>))
      BY <1>2, <1>3, <2>1, <3>3, TakeDone
    <3>. HIDE DEF d2
    <3>10. InPlace(u, pnd, stg, hld, zr)  BY <3>6, <3>9 DEF InPlace
    <3>11. ZeroIn(u.owner, u.link, zr)  BY <1>1, <3>6
    <3>12. \A h \in Harts : \A g \in hld[h] : u.link[g] = was[g]  BY <3>6 DEF Kept
    <3>. QED  BY <3>4, <3>8, <3>10, <3>11, <3>12 DEF Kept
  <2>2. CASE ~(s.committing = None /\ from # {})
    <3>1. t = s  BY <2>2
    <3>. QED  BY <3>1
  <2>. QED  BY <2>1, <2>2
<1>5. CommitOne(s) = IF t.committing \notin Frames THEN t
                     ELSE [t EXCEPT !.committing = t.link[t.committing], !.link[t.committing] = None,
                                    !.owner[t.committing] = "free"]
  BY DEF CommitOne
<1>. HIDE DEF t
<1>6. CASE t.committing \notin Frames
  <2>1. CommitOne(s) = t  BY <1>5, <1>6
  <2>. QED  BY <1>4, <2>1
<1>7. CASE t.committing \in Frames
  <2>. DEFINE f == t.committing
              own2 == [t.owner EXCEPT ![f] = "free"]
              lnk2 == [t.link EXCEPT ![f] = None]
  <2>1. t \in States /\ ZeroIn(t.owner, t.link, zr)  BY <1>4 DEF Kept
  <2>2. /\ t.owner \in [Frames -> Owners] /\ t.link \in [Frames -> Heads \cup {Junk}]
        /\ t.done \in [Harts -> Heads] /\ f \in Frames
    BY <1>7, <2>1 DEF States
  <2>3. PICK top2, rank2, spot2 : Placed(t.owner, t.link, t.done, f, pnd, stg, hld, zr, top2, rank2, spot2)
    BY <1>4 DEF Kept, InPlace
  <2>4. /\ Placed(own2, lnk2, t.done, t.link[f], pnd, stg, hld, zr, top2, rank2, Moved(spot2, {f}, Nowhere))
        /\ f \in zr /\ t.link[f] \in Heads
    BY <2>2, <2>3, GiveBack
  <2>14. \A h \in Harts : f \notin hld[h]
    <3>1. f \in At(spot2, "committing", 0)  BY <2>2, <2>3, Basics DEF Placed, Chain
    <3>2. \A h : <<"committing", 0>> # <<"zeroing", h>>  OBVIOUS
    <3>3. \A h \in Harts : f \notin At(spot2, "zeroing", h)  BY <3>1, <3>2 DEF At
    <3>. QED  BY <2>3, <3>3 DEF Placed, Sets
  <2>5. PICK u : u = [t EXCEPT !.committing = t.link[f], !.link[f] = None, !.owner[f] = "free"]  OBVIOUS
  <2>6. CommitOne(s) = u  BY <1>5, <1>7, <2>5
  <2>7. u = [owner |-> own2, link |-> lnk2, done |-> t.done, committing |-> t.link[f]]
    BY <2>1, <2>2, <2>5 DEF States
  <2>8. u.owner = own2 /\ u.link = lnk2 /\ u.done = t.done /\ u.committing = t.link[f]  BY <2>7
  <2>9. own2 \in [Frames -> Owners] /\ lnk2 \in [Frames -> Heads \cup {Junk}]  BY <2>2 DEF Owners, Heads
  <2>10. u \in States  BY <2>2, <2>4, <2>7, <2>9 DEF States
  <2>11. ZeroIn(own2, lnk2, zr)  BY <2>1, <2>2, <2>4 DEF ZeroIn
  <2>13. \A h \in Harts : \A g \in hld[h] : lnk2[g] = was[g]
    <3>1. \A h \in Harts : \A g \in hld[h] : t.link[g] = was[g] /\ g # f  BY <1>4, <2>14 DEF Kept
    <3>2. \A g : g # f => lnk2[g] = t.link[g] \/ g \notin Frames  BY <2>2
    <3>3. \A h \in Harts : \A g \in hld[h] : g \in Frames
      <4>1. \A h \in Harts : hld[h] = At(spot2, "zeroing", h)  BY <2>3 DEF Placed, Sets
      <4>. QED  BY <4>1, AtFacts
    <3>. QED  BY <3>1, <3>2, <3>3
  <2>. HIDE DEF own2, lnk2
  <2>12. InPlace(u, pnd, stg, hld, zr)  BY <2>4, <2>8 DEF InPlace
  <2>. QED  BY <2>6, <2>8, <2>10, <2>11, <2>12, <2>13 DEF Kept
<1>. QED  BY <1>6, <1>7

\* The turns of the loop, the first n of them.
Turns(F, s, n) == F = [i \in 0 .. n |-> IF i = 0 THEN s ELSE CommitOne(F[i - 1])]

\* Each number of turns can be made.
LEMMA TurnsExist == \A s : \A n \in Nat : \E F : Turns(F, s, n)
<1>. SUFFICES ASSUME NEW s, \E n \in Nat : ~\E F : Turns(F, s, n)  PROVE FALSE  OBVIOUS
<1>. DEFINE Bad == {n \in Nat : ~\E F : Turns(F, s, n)}
<1>1. PICK n \in Bad : \A k \in Bad : n <= k
  <2>1. Bad \in SUBSET Nat /\ Bad # {}  OBVIOUS
  <2>. HIDE DEF Bad
  <2>. QED  BY <2>1, LeastNat
<1>2. CASE n = 0
  <2>. DEFINE F == [i \in 0 .. 0 |-> s]
  <2>1. \A i \in 0 .. 0 : i = 0  OBVIOUS
  <2>2. F = [i \in 0 .. 0 |-> IF i = 0 THEN s ELSE CommitOne(F[i - 1])]  BY <2>1
  <2>3. Turns(F, s, 0)  BY <2>2 DEF Turns
  <2>. QED  BY <1>2, <2>3
<1>3. CASE n # 0
  <2>1. n \in Nat /\ n - 1 \in Nat /\ n - 1 < n  BY <1>3
  <2>2. n - 1 \notin Bad  BY <1>1, <2>1
  <2>3. PICK G : Turns(G, s, n - 1)  BY <2>1, <2>2
  <2>. DEFINE F == [i \in 0 .. n |-> IF i = n THEN CommitOne(G[n - 1]) ELSE G[i]]
  <2>4. \A i \in 0 .. n - 1 : G[i] = IF i = 0 THEN s ELSE CommitOne(G[i - 1])  BY <2>3 DEF Turns
  <2>5. ASSUME NEW i \in 0 .. n  PROVE F[i] = IF i = 0 THEN s ELSE CommitOne(F[i - 1])
    <3>1. CASE i = n
      <4>1. F[i] = CommitOne(G[n - 1])  BY <3>1
      <4>2. n - 1 \in 0 .. n /\ n - 1 # n  BY <2>1
      <4>3. F[n - 1] = G[n - 1]  BY <4>2
      <4>. QED  BY <1>3, <3>1, <4>1, <4>3
    <3>2. CASE i # n
      <4>1. i \in 0 .. n - 1 /\ F[i] = G[i]  BY <2>1, <3>2
      <4>2. i # 0 => i - 1 \in 0 .. n /\ i - 1 # n  BY <2>1
      <4>3. i # 0 => F[i - 1] = G[i - 1]  BY <4>2
      <4>. QED  BY <2>4, <4>1, <4>3
    <3>. QED  BY <3>1, <3>2
  <2>6. F = [i \in 0 .. n |-> F[i]]  OBVIOUS
  <2>. HIDE DEF F
  <2>7. Turns(F, s, n)  BY <2>5, <2>6 DEF Turns
  <2>. QED  BY <2>7
<1>. QED  BY <1>2, <1>3

\* A commit keeps the frames in place, and what is free zero.
LEMMA CommitKept ==
  ASSUME NEW s, NEW pnd, NEW stg, NEW hld, NEW zr, NEW was, Kept(s, pnd, stg, hld, zr, was)
  PROVE  Kept(Commit(s), pnd, stg, hld, zr, was)
<1>0. CommitMax \in Nat  BY ReclaimAssumption
<1>. DEFINE F == CHOOSE F : Turns(F, s, CommitMax)
<1>1. Turns(F, s, CommitMax)  BY <1>0, TurnsExist
<1>2. Commit(s) = F[CommitMax]  BY DEF Commit, Turns
<1>. HIDE DEF F
<1>3. \A i \in 0 .. CommitMax : F[i] = IF i = 0 THEN s ELSE CommitOne(F[i - 1])  BY <1>1 DEF Turns
<1>. DEFINE Bad == {n \in 0 .. CommitMax : ~Kept(F[n], pnd, stg, hld, zr, was)}
<1>4. Bad = {}
  <2>. SUFFICES ASSUME Bad # {} PROVE FALSE  OBVIOUS
  <2>1. PICK n \in Bad : \A k \in Bad : n <= k
    <3>1. Bad \in SUBSET Nat  BY <1>0
    <3>. HIDE DEF Bad
    <3>. QED  BY <3>1, LeastNat
  <2>2. n # 0
    <3>1. F[0] = s  BY <1>0, <1>3
    <3>. QED  BY <3>1
  <2>3. n - 1 \in 0 .. CommitMax /\ n - 1 < n /\ n \in Nat  BY <1>0, <2>2
  <2>4. n - 1 \notin Bad  BY <2>1, <2>3
  <2>5. Kept(F[n - 1], pnd, stg, hld, zr, was)  BY <2>3, <2>4
  <2>6. F[n] = CommitOne(F[n - 1])  BY <1>3, <2>2
  <2>. QED  BY <2>5, <2>6, CommitOneKept
<1>5. CommitMax \in 0 .. CommitMax  BY <1>0
<1>. QED  BY <1>2, <1>4, <1>5

----------------------------------------------------------------------------
(* What Walk follows. *)

\* The links followed from a head, the first n of them.
Steps(F, first, n) ==
  F = [i \in 0 .. n |-> IF i = 0 THEN {first} ELSE F[i - 1] \cup {link[f] : f \in F[i - 1] \cap Frames}]

\* Any number of links can be followed.
LEMMA StepsExist == \A first : \A n \in Nat : \E F : Steps(F, first, n)
<1>. SUFFICES ASSUME NEW first, \E n \in Nat : ~\E F : Steps(F, first, n)  PROVE FALSE  OBVIOUS
<1>. DEFINE Bad == {n \in Nat : ~\E F : Steps(F, first, n)}
            On(x) == x \cup {link[f] : f \in x \cap Frames}
<1>1. PICK n \in Bad : \A k \in Bad : n <= k
  <2>1. Bad \in SUBSET Nat /\ Bad # {}  OBVIOUS
  <2>. HIDE DEF Bad
  <2>. QED  BY <2>1, LeastNat
<1>0. ASSUME NEW F, NEW k, F = [i \in 0 .. k |-> IF i = 0 THEN {first} ELSE On(F[i - 1])]  PROVE Steps(F, first, k)
  BY <1>0 DEF Steps
<1>2. CASE n = 0
  <2>. HIDE DEF On
  <2>. DEFINE F == [i \in 0 .. 0 |-> {first}]
  <2>1. \A i \in 0 .. 0 : i = 0  OBVIOUS
  <2>2. F = [i \in 0 .. 0 |-> IF i = 0 THEN {first} ELSE On(F[i - 1])]  BY <2>1
  <2>3. Steps(F, first, 0)  BY <2>2, <1>0
  <2>. QED  BY <1>2, <2>3
<1>3. CASE n # 0
  <2>1. n \in Nat /\ n - 1 \in Nat /\ n - 1 < n  BY <1>3
  <2>2. n - 1 \notin Bad  BY <1>1, <2>1
  <2>3. PICK G : Steps(G, first, n - 1)  BY <2>1, <2>2
  <2>4. \A i \in 0 .. n - 1 : G[i] = IF i = 0 THEN {first} ELSE On(G[i - 1])  BY <2>3 DEF Steps
  <2>. HIDE DEF On
  <2>. DEFINE F == [i \in 0 .. n |-> IF i = n THEN On(G[n - 1]) ELSE G[i]]
  <2>5. ASSUME NEW i \in 0 .. n  PROVE F[i] = IF i = 0 THEN {first} ELSE On(F[i - 1])
    <3>1. CASE i = n
      <4>1. F[i] = On(G[n - 1])  BY <3>1
      <4>2. n - 1 \in 0 .. n /\ n - 1 # n  BY <2>1
      <4>3. F[n - 1] = G[n - 1]  BY <4>2
      <4>. QED  BY <1>3, <3>1, <4>1, <4>3
    <3>2. CASE i # n
      <4>1. i \in 0 .. n - 1 /\ F[i] = G[i]  BY <2>1, <3>2
      <4>2. i # 0 => i - 1 \in 0 .. n /\ i - 1 # n  BY <2>1
      <4>3. i # 0 => F[i - 1] = G[i - 1]  BY <4>2
      <4>. QED  BY <2>4, <4>1, <4>3
    <3>. QED  BY <3>1, <3>2
  <2>6. F = [i \in 0 .. n |-> F[i]]  OBVIOUS
  <2>. HIDE DEF F
  <2>7. F = [i \in 0 .. n |-> IF i = 0 THEN {first} ELSE On(F[i - 1])]  BY <2>5, <2>6
  <2>8. Steps(F, first, n)  BY <2>7, <1>0
  <2>. QED  BY <2>8
<1>. QED  BY <1>2, <1>3

\* The frames and None are NFrames + 1.
LEMMA HeadsFinite == IsFiniteSet(Heads) /\ Cardinality(Heads) = NFrames + 1
<1>1. Heads = 0 .. NFrames  BY ReclaimAssumption DEF Heads, Frames, None
<1>2. IsFiniteSet(0 .. NFrames) /\ Cardinality(0 .. NFrames) = NFrames + 1  BY ReclaimAssumption, FS_Interval
<1>. QED  BY <1>1, <1>2

\* Following a chain's links finds its frames and its end.
LEMMA WalkIs ==
  ASSUME NEW top \in Nat, NEW rank \in [Frames -> 0 .. top], NEW S \in SUBSET Frames, NEW first,
         Chain(link, rank, S, first)
  PROVE  Walk(first) = S \cup {None}
<1>0. NFrames \in Nat /\ None \notin S  BY ReclaimAssumption, Basics
<1>1. /\ first \in S \cup {None} /\ (first = None => S = {})
      /\ \A f \in S : link[f] \in S \cup {None} /\ (link[f] # None => rank[link[f]] < rank[f])
      /\ \A f \in S \ {first} : \E g \in S : link[g] = f
  BY DEF Chain
<1>. DEFINE F == CHOOSE F : Steps(F, first, NFrames)
<1>2. Steps(F, first, NFrames)  BY <1>0, StepsExist
<1>3. Walk(first) = F[NFrames]  BY DEF Walk, Steps
<1>. HIDE DEF F
<1>. DEFINE On(x) == x \cup {link[f] : f \in x \cap Frames}
<1>4. \A i \in 0 .. NFrames : F[i] = IF i = 0 THEN {first} ELSE On(F[i - 1])  BY <1>2 DEF Steps
<1>. HIDE DEF On
<1>5. F[0] = {first}
  <2>1. 0 \in 0 .. NFrames  BY <1>0
  <2>. QED  BY <1>4, <2>1
<1>6. ASSUME NEW n \in 0 .. NFrames, n # 0
      PROVE  /\ n - 1 \in 0 .. NFrames /\ n - 1 < n /\ n \in Nat
             /\ F[n] = On(F[n - 1])
  BY <1>0, <1>4, <1>6
<1>. DEFINE Closed(W) == \A f \in W \cap Frames : link[f] \in W
            Far(n) == first \in F[n] /\ F[n] \subseteq S \cup {None}
                      /\ (Closed(F[n]) \/ Cardinality(F[n]) >= n + 1)
            Bad == {n \in 0 .. NFrames : ~Far(n)}
<1>7. Bad = {}
  <2>. SUFFICES ASSUME Bad # {} PROVE FALSE  OBVIOUS
  <2>1. PICK n \in Bad : \A k \in Bad : n <= k
    <3>1. Bad \in SUBSET Nat  BY <1>0
    <3>. HIDE DEF Bad
    <3>. QED  BY <3>1, LeastNat
  <2>2. n # 0
    <3>1. Cardinality({first}) = 1  BY FS_Singleton
    <3>2. Far(0)  BY <1>1, <1>5, <3>1
    <3>. QED  BY <3>2
  <2>3. n - 1 \in 0 .. NFrames /\ n - 1 < n /\ n \in Nat
        /\ F[n] = On(F[n - 1])
    <3>1. n \in 0 .. NFrames  OBVIOUS
    <3>. QED  BY <1>6, <2>2, <3>1
  <2>4. Far(n - 1)
    <3>1. n - 1 \notin Bad  BY <2>1, <2>3
    <3>. QED  BY <2>3, <3>1
  <2>o. /\ F[n - 1] \subseteq F[n]
        /\ \A x \in F[n] : x \in F[n - 1] \/ \E f \in F[n - 1] \cap Frames : x = link[f]
        /\ \A f \in F[n - 1] \cap Frames : link[f] \in F[n]
    BY <2>3 DEF On
  <2>5. first \in F[n] /\ F[n] \subseteq S \cup {None}
    <3>1. ASSUME NEW f \in F[n - 1] \cap Frames  PROVE link[f] \in S \cup {None}
      <4>1. f \in S  BY <2>4, Basics
      <4>. QED  BY <1>1, <4>1
    <3>. QED  BY <2>o, <2>4, <3>1
  <2>6. CASE Closed(F[n - 1])
    <3>1. F[n] = F[n - 1]
      <4>1. \A x \in F[n] : x \in F[n - 1]  BY <2>o, <2>6
      <4>. QED  BY <2>o, <4>1
    <3>. QED  BY <2>4, <2>6, <3>1, <2>5
  <2>7. CASE ~Closed(F[n - 1])
    <3>1. PICK x : x \in F[n] /\ x \notin F[n - 1]  BY <2>o, <2>7
    <3>2. F[n - 1] \subseteq F[n]  BY <2>o
    <3>3. IsFiniteSet(F[n]) /\ IsFiniteSet(F[n - 1])
      <4>1. S \cup {None} \subseteq Heads  BY DEF Heads
      <4>. QED  BY <2>4, <2>5, <4>1, HeadsFinite, FS_Subset
    <3>4. Cardinality(F[n - 1] \cup {x}) = Cardinality(F[n - 1]) + 1  BY <3>1, <3>3, FS_AddElement
    <3>5. F[n - 1] \cup {x} \subseteq F[n]  BY <3>1, <3>2
    <3>6. Cardinality(F[n - 1] \cup {x}) <= Cardinality(F[n])  BY <3>3, <3>5, FS_Subset
    <3>7. Cardinality(F[n - 1]) >= n  BY <2>3, <2>4, <2>7
    <3>8. Cardinality(F[n]) \in Nat /\ Cardinality(F[n - 1]) \in Nat  BY <3>3, FS_CardinalityType
    <3>9. Cardinality(F[n]) >= n + 1  BY <2>3, <3>4, <3>6, <3>7, <3>8
    <3>. QED  BY <2>5, <3>9
  <2>. QED  BY <2>6, <2>7
<1>8. Far(NFrames)
  <2>1. NFrames \in 0 .. NFrames  BY <1>0
  <2>. QED  BY <1>7, <2>1
<1>. DEFINE W == F[NFrames]
<1>9. CASE Closed(W)
  <2>. DEFINE T == S \ W
  <2>1. T = {}
    <3>. SUFFICES ASSUME T # {} PROVE FALSE  OBVIOUS
    <3>1. PICK f \in T : \A g \in T : rank[g] <= rank[f]  BY Ranked
    <3>2. f # first /\ f # None  BY <1>0, <1>8
    <3>3. PICK g \in S : link[g] = f  BY <1>1, <3>2
    <3>4. rank[f] < rank[g]  BY <1>1, <3>2, <3>3
    <3>5. rank[f] \in 0 .. top /\ rank[g] \in 0 .. top  OBVIOUS
    <3>6. g \in W  BY <3>1, <3>4, <3>5
    <3>. QED  BY <1>9, <3>3, <3>6
  <2>2. None \in W
    <3>1. CASE S = {}  BY <1>1, <1>8, <3>1
    <3>2. CASE S # {}
      <4>1. PICK f \in S : \A g \in S : rank[f] <= rank[g]  BY <3>2, Ranked
      <4>2. link[f] = None
        <5>. SUFFICES ASSUME link[f] # None PROVE FALSE  OBVIOUS
        <5>1. link[f] \in S /\ rank[link[f]] < rank[f]  BY <1>1
        <5>2. rank[f] <= rank[link[f]]  BY <4>1, <5>1
        <5>3. rank[f] \in 0 .. top /\ rank[link[f]] \in 0 .. top  BY <5>1
        <5>. QED  BY <5>1, <5>2, <5>3
      <4>3. f \in W /\ f \in Frames  BY <2>1
      <4>. QED  BY <1>9, <4>2, <4>3
    <3>. QED  BY <3>1, <3>2
  <2>. QED  BY <1>3, <1>8, <2>1, <2>2
<1>10. CASE ~Closed(W)
  <2>1. Cardinality(W) >= NFrames + 1  BY <1>8, <1>10
  <2>2. W \subseteq S \cup {None} /\ S \cup {None} \subseteq Heads  BY <1>8 DEF Heads
  <2>. HIDE DEF W
  <2>3. W \subseteq Heads  BY <2>2
  <2>4. Cardinality(W) <= NFrames + 1 /\ (Cardinality(W) = NFrames + 1 => W = Heads) /\ IsFiniteSet(W)
    BY <2>3, HeadsFinite, FS_Subset
  <2>5. Cardinality(W) \in Nat  BY <2>4, FS_CardinalityType
  <2>6. W = Heads  BY <1>0, <2>1, <2>4, <2>5
  <2>. QED  BY <1>3, <2>2, <2>6 DEF W
<1>. QED  BY <1>9, <1>10

\* Frames in place are in flight once: a frame's places are its spot.
LEMMA OnceFromPlaced ==
  ASSUME ReclaimTypes, FrameInv
  PROVE  InFlightOnce
<1>1. PICK top, rank, spot :
        Placed(owner, link, done, committing, pending, Staging, Holding, zero, top, rank, spot)
  BY DEF FrameInv, AllPlaced
<1>2. /\ top \in Nat /\ rank \in [Frames -> 0 .. top] /\ spot \in [Frames -> Spots] /\ Spotted(owner, spot)
      /\ Chained(link, pending, "pending", rank, spot) /\ Chained(link, done, "done", rank, spot)
      /\ Chain(link, rank, At(spot, "committing", 0), committing)
      /\ Sets(Staging, "staged", spot) /\ Sets(Holding, "zeroing", spot)
  BY <1>1 DEF Placed
<1>3. ASSUME NEW h \in Harts
      PROVE  /\ Walk(pending[h]) = At(spot, "pending", h) \cup {None}
             /\ Walk(done[h]) = At(spot, "done", h) \cup {None}
  <2>1. Chain(link, rank, At(spot, "pending", h), pending[h]) /\ Chain(link, rank, At(spot, "done", h), done[h])
    BY <1>2 DEF Chained
  <2>2. At(spot, "pending", h) \in SUBSET Frames /\ At(spot, "done", h) \in SUBSET Frames  BY AtFacts
  <2>. QED  BY <1>2, <2>1, <2>2, WalkIs
<1>4. Walk(committing) = At(spot, "committing", 0) \cup {None}
  <2>1. At(spot, "committing", 0) \in SUBSET Frames  BY AtFacts
  <2>. QED  BY <1>2, <2>1, WalkIs
<1>5. ASSUME NEW h \in Harts
      PROVE  Stage(h) = At(spot, "staged", h)
  BY <1>2 DEF Sets, Staging, Stage, ToSet
<1>6. ASSUME NEW h \in Harts, NEW f, f # None
      PROVE  f = zeroing[h] /\ pc[h] # "pushed" <=> f \in At(spot, "zeroing", h)
  <2>1. At(spot, "zeroing", h) = IF zeroing[h] = None \/ pc[h] = "pushed" THEN {} ELSE {zeroing[h]}
    BY <1>2 DEF Sets, Holding
  <2>. QED  BY <1>6, <2>1
<1>7. ASSUME NEW f, f # None
      PROVE  Places(f) = {<<"staged", h>> : h \in {i \in Harts : f \in At(spot, "staged", i)}}
               \cup {<<"pending", h>> : h \in {i \in Harts : f \in At(spot, "pending", i)}}
               \cup {<<"zeroing", h>> : h \in {i \in Harts : f \in At(spot, "zeroing", i)}}
               \cup {<<"done", h>> : h \in {i \in Harts : f \in At(spot, "done", i)}}
               \cup (IF f \in At(spot, "committing", 0) THEN {<<"committing", 0>>} ELSE {})
  <2>1. {i \in Harts : f \in Stage(i)} = {i \in Harts : f \in At(spot, "staged", i)}  BY <1>5
  <2>2. {i \in Harts : f \in Walk(pending[i])} = {i \in Harts : f \in At(spot, "pending", i)}  BY <1>3, <1>7
  <2>3. {i \in Harts : f \in Walk(done[i])} = {i \in Harts : f \in At(spot, "done", i)}  BY <1>3, <1>7
  <2>4. {i \in Harts : f = zeroing[i] /\ pc[i] # "pushed"} = {i \in Harts : f \in At(spot, "zeroing", i)}
    BY <1>6, <1>7
  <2>5. f \in Walk(committing) <=> f \in At(spot, "committing", 0)  BY <1>4, <1>7
  <2>. QED  BY <2>1, <2>2, <2>3, <2>4, <2>5 DEF Places
<1>8. Places(Junk) = {}
  <2>1. \A k, h : Junk \notin At(spot, k, h)  BY AtFacts, Basics
  <2>. QED  BY <1>7, <2>1, Basics
<1>9. ASSUME NEW f \in Frames
      PROVE  Cardinality(Places(f)) = IF owner[f] = "flight" THEN 1 ELSE 0
  <2>0. f # None  BY Basics
  <2>1. \A k, h : f \in At(spot, k, h) <=> spot[f] = <<k, h>>  BY DEF At
  <2>2. \A x : x \in Places(f) <=>
          \/ \E h \in Harts : f \in At(spot, "staged", h) /\ x = <<"staged", h>>
          \/ \E h \in Harts : f \in At(spot, "pending", h) /\ x = <<"pending", h>>
          \/ \E h \in Harts : f \in At(spot, "zeroing", h) /\ x = <<"zeroing", h>>
          \/ \E h \in Harts : f \in At(spot, "done", h) /\ x = <<"done", h>>
          \/ f \in At(spot, "committing", 0) /\ x = <<"committing", 0>>
    BY <1>7, <2>0
  <2>3. \A x \in Places(f) : x = spot[f]  BY <2>1, <2>2
  <2>4. CASE owner[f] # "flight"
    <3>1. spot[f] = Nowhere  BY <1>2, <2>4 DEF Spotted
    <3>2. Nowhere # <<"committing", 0>> /\ \A h : Nowhere # <<"staged", h>> /\ Nowhere # <<"pending", h>>
                                                 /\ Nowhere # <<"zeroing", h>> /\ Nowhere # <<"done", h>>
      BY DEF Nowhere
    <3>3. Places(f) = {}  BY <2>1, <2>2, <3>1, <3>2
    <3>. QED  BY <2>4, <3>3, FS_EmptySet
  <2>5. CASE owner[f] = "flight"
    <3>1. spot[f] # Nowhere /\ spot[f] \in Spots  BY <1>2, <2>5 DEF Spotted
    <3>2. \/ spot[f] = <<"committing", 0>>
          \/ \E h \in Harts : spot[f] = <<"staged", h>>
          \/ \E h \in Harts : spot[f] = <<"pending", h>>
          \/ \E h \in Harts : spot[f] = <<"zeroing", h>>
          \/ \E h \in Harts : spot[f] = <<"done", h>>
      BY <3>1 DEF Spots
    <3>3. spot[f] \in Places(f)  BY <2>1, <2>2, <3>2
    <3>4. Places(f) = {spot[f]}  BY <2>3, <3>3
    <3>. QED  BY <2>5, <3>4, FS_Singleton
  <2>. QED  BY <2>4, <2>5
<1>10. \A h \in Harts : None \in Walk(pending[h]) \cap Walk(done[h])  BY <1>3
<1>. QED  BY <1>8, <1>9, <1>10 DEF InFlightOnce

----------------------------------------------------------------------------
(* Steps. *)

\* A step of hart h leaves the other harts where they are, and the frames in their hands as they were.
Others(h) ==
  \A i \in Harts \ {h} :
    /\ pc'[i] = pc[i] /\ zeroing'[i] = zeroing[i] /\ loc'[i] = loc[i]
    /\ \A f \in Holding[i] : link'[f] = link[f] /\ (f \in zero => f \in zero')

\* What a hart holds.
LEMMA HoldingIs ==
  /\ \A h \in Harts : Holding[h] = IF zeroing[h] = None \/ pc[h] = "pushed" THEN {} ELSE {zeroing[h]}
  /\ \A h \in Harts : Staging[h] = ToSet(staged[h])
BY DEF Holding, Staging

\* Then the others' work is as it was.
LEMMA WorkStep ==
  ASSUME Work, NEW h, Others(h), h \in Harts => WorkAt(h)'
  PROVE  Work'
<1>. SUFFICES ASSUME NEW i \in Harts, i # h  PROVE WorkAt(i)'  BY DEF Work
<1>1. WorkAt(i) /\ pc'[i] = pc[i] /\ zeroing'[i] = zeroing[i] /\ loc'[i] = loc[i]  BY DEF Work, Others
<1>2. pc[i] \in {"link", "push"} => zeroing[i] \in Holding[i]  BY <1>1, HoldingIs DEF WorkAt
<1>3. pc[i] \in {"link", "push"} =>
        link'[zeroing[i]] = link[zeroing[i]] /\ (zeroing[i] \in zero => zeroing[i] \in zero')
  BY <1>2 DEF Others
<1>. QED  BY <1>1, <1>3 DEF WorkAt

\* The stages, and what is held, when a step changes neither.
LEMMA StagingSame ==
  ASSUME staged' = staged
  PROVE  Staging' = Staging
BY DEF Staging
LEMMA HoldingSame ==
  ASSUME zeroing' = zeroing, \A i \in Harts : pc'[i] = "pushed" <=> pc[i] = "pushed"
  PROVE  Holding' = Holding
BY DEF Holding
LEMMA StagesSame ==
  ASSUME Stages, staged' = staged, stale' = stale
  PROVE  Stages'
BY DEF Stages

\* A step that moves hart h on and changes no frame and no list.
LEMMA Quiet ==
  ASSUME FrameInv, NEW h \in Harts, UNCHANGED <<frameVars, listVars>>,
         \A i \in Harts \ {h} : pc'[i] = pc[i] /\ loc'[i] = loc[i],
         pc'[h] # "pushed", pc[h] # "pushed", WorkAt(h)'
  PROVE  FrameInv'
<1>. USE DEF frameVars, listVars
<1>1. Holding' = Holding /\ Staging' = Staging  BY HoldingSame, StagingSame
<1>2. AllPlaced'  BY <1>1 DEF AllPlaced, FrameInv
<1>3. ZeroIn(owner, link, zero)'  BY DEF ZeroIn, FrameInv
<1>4. Others(h)  BY DEF Others
<1>5. Work'  BY <1>4, WorkStep DEF FrameInv
<1>6. Stages'  BY StagesSame DEF FrameInv
<1>. QED  BY <1>2, <1>3, <1>5, <1>6 DEF FrameInv

\* What is known of a commit of the state.
LEMMA Commits ==
  ASSUME ReclaimTypes, FrameInv
  PROVE  \E s \in States :
           /\ s = Commit(State) /\ ZeroIn(s.owner, s.link, zero)
           /\ \E top, rank, spot :
                Placed(s.owner, s.link, s.done, s.committing, pending, Staging, Holding, zero, top, rank, spot)
           /\ \A h \in Harts : \A f \in Holding[h] : s.link[f] = link[f]
<1>1. State.owner = owner /\ State.link = link /\ State.done = done /\ State.committing = committing  BY DEF State
<1>2. State \in States  BY DEF State, States, ReclaimTypes
<1>3. InPlace(State, pending, Staging, Holding, zero)  BY <1>1 DEF InPlace, FrameInv, AllPlaced
<1>4. Kept(State, pending, Staging, Holding, zero, link)  BY <1>1, <1>2, <1>3 DEF Kept, FrameInv
<1>5. PICK s : s = Commit(State)  OBVIOUS
<1>6. Kept(s, pending, Staging, Holding, zero, link)  BY <1>4, <1>5, CommitKept
<1>. QED  BY <1>5, <1>6 DEF Kept, InPlace

\* The lock is taken, and what was zeroed is given back.
LEMMA CommitStep ==
  ASSUME ReclaimTypes, FrameInv, NEW h \in Harts, pc[h] \in {"user", "acquire"}, Go(h, "kernel"),
         Committed(Commit(State)), UNCHANGED <<dirty, zero, stale, staged, pending, zeroing, loc>>
  PROVE  FrameInv' /\ owner' \in [Frames -> Owners] /\ link' \in [Frames -> Heads \cup {Junk}]
         /\ done' \in [Harts -> Heads] /\ committing' \in Heads
<1>1. PICK s \in States :
        /\ s = Commit(State) /\ ZeroIn(s.owner, s.link, zero)
        /\ \E top, rank, spot :
             Placed(s.owner, s.link, s.done, s.committing, pending, Staging, Holding, zero, top, rank, spot)
        /\ \A i \in Harts : \A f \in Holding[i] : s.link[f] = link[f]
  BY Commits
<1>2. owner' = s.owner /\ link' = s.link /\ done' = s.done /\ committing' = s.committing
  <2>1. Committed(s)  BY <1>1
  <2>. QED  BY <2>1 DEF Committed
<1>3. pc'[h] = "kernel" /\ \A i \in Harts \ {h} : pc'[i] = pc[i]  BY DEF Go, ReclaimTypes
<1>4. Holding' = Holding /\ Staging' = Staging  BY <1>3, HoldingSame, StagingSame
<1>5. AllPlaced'  BY <1>1, <1>2, <1>4 DEF AllPlaced
<1>6. ZeroIn(owner, link, zero)'  BY <1>1, <1>2 DEF ZeroIn
<1>7. Others(h)  BY <1>1, <1>2, <1>3 DEF Others
<1>8. WorkAt(h)'  BY <1>3 DEF WorkAt, Work, FrameInv
<1>9. Work'  BY <1>7, <1>8, WorkStep DEF FrameInv
<1>10. Stages'  BY StagesSame DEF FrameInv
<1>. QED  BY <1>1, <1>2, <1>5, <1>6, <1>9, <1>10 DEF FrameInv, States

\* Types and frames, for the steps that change no frame and no list, and those that only commit.
LEMMA QuietSteps ==
  ASSUME ReclaimTypes, FrameInv, NEW h \in Harts,
         Leave(h) \/ WaitTest(h) \/ WaitHalt(h) \/ HandOn(h) \/ Tell(h) \/ HaltEnds(h) \/ \E i \in Harts : WakeIdle(h, i)
  PROVE  ReclaimTypes' /\ FrameInv'
<1>. USE DEF frameVars, listVars, hartVars, Go
<1>0. WorkAt(h)  BY DEF FrameInv, Work
<1>1. CASE Leave(h)
  <2>1. ReclaimTypes'  BY <1>1 DEF Leave, ReclaimTypes
  <2>2. /\ UNCHANGED <<frameVars, listVars>> /\ pc[h] = "kernel" /\ pc'[h] = "user" /\ loc' = loc
        /\ \A i \in Harts \ {h} : pc'[i] = pc[i]
    BY <1>1 DEF Leave, InKernel, ReclaimTypes
  <2>3. WorkAt(h)'  BY <1>0, <2>2 DEF WorkAt
  <2>. QED  BY <2>1, <2>2, <2>3, Quiet
<1>2. CASE WaitTest(h)
  <2>1. ReclaimTypes'  BY <1>2 DEF WaitTest, ReclaimTypes
  <2>2. /\ UNCHANGED <<frameVars, listVars>> /\ pc[h] = "wait" /\ pc'[h] \in {"waithalt", "reclaim"} /\ loc' = loc
        /\ \A i \in Harts \ {h} : pc'[i] = pc[i]
    BY <1>2 DEF WaitTest, ReclaimTypes
  <2>3. WorkAt(h)'  BY <1>0, <2>2 DEF WorkAt
  <2>. QED  BY <2>1, <2>2, <2>3, Quiet
<1>3. CASE WaitHalt(h)
  <2>1. ReclaimTypes'  BY <1>3 DEF WaitHalt, ReclaimTypes
  <2>2. /\ UNCHANGED <<frameVars, listVars>> /\ pc[h] = "waithalt" /\ pc'[h] = "wait" /\ loc' = loc
        /\ \A i \in Harts \ {h} : pc'[i] = pc[i]
    BY <1>3 DEF WaitHalt, ReclaimTypes
  <2>3. WorkAt(h)'  BY <1>0, <2>2 DEF WorkAt
  <2>. QED  BY <2>1, <2>2, <2>3, Quiet
<1>4. CASE HandOn(h)
  <2>1. loc' = [loc EXCEPT ![h].wake = Nobody] /\ loc' \in [Harts -> [head : Heads, more : BOOLEAN, wake : Harts \cup {Nobody}]]
    BY <1>4 DEF HandOn, ReclaimTypes
  <2>2. /\ UNCHANGED <<frameVars, listVars>> /\ pc[h] = "handon"
        /\ pc'[h] = IF zeroing[h] # None THEN "zero" ELSE "halt"
        /\ \A i \in Harts \ {h} : pc'[i] = pc[i] /\ loc'[i] = loc[i]
    BY <1>4, <2>1 DEF HandOn, ReclaimTypes
  <2>3. ReclaimTypes'
    <3>1. ipi' \subseteq Harts  BY <1>0, <1>4 DEF HandOn, ReclaimTypes, WorkAt
    <3>2. pc' \in [Harts -> InIdle \cup {"user", "kernel", "unmap", "reclaim", "wait", "waithalt"}]
      BY <1>4 DEF HandOn, ReclaimTypes, InIdle
    <3>. QED  BY <1>4, <2>1, <3>1, <3>2 DEF HandOn, ReclaimTypes
  <2>4. WorkAt(h)'  BY <1>0, <2>2 DEF WorkAt
  <2>. QED  BY <2>2, <2>3, <2>4, Quiet
<1>5. CASE Tell(h)
  <2>1. loc' = [loc EXCEPT ![h].more = FALSE] /\ loc' \in [Harts -> [head : Heads, more : BOOLEAN, wake : Harts \cup {Nobody}]]
    BY <1>5, ZenonT(60) DEF Tell, ReclaimTypes
  <2>2. /\ UNCHANGED <<frameVars, listVars>> /\ pc[h] = "tell" /\ pc'[h] \in {"acquire", "halt"}
        /\ \A i \in Harts \ {h} : pc'[i] = pc[i] /\ loc'[i] = loc[i]
    BY <1>5, <2>1 DEF Tell, ReclaimTypes
  <2>3. ReclaimTypes'
    <3>1. ipi' \subseteq Harts  BY <1>5 DEF Tell, ReclaimTypes
    <3>2. pc' \in [Harts -> InIdle \cup {"user", "kernel", "unmap", "reclaim", "wait", "waithalt"}]
      BY <1>5 DEF Tell, ReclaimTypes, InIdle
    <3>. QED  BY <1>5, <2>1, <3>1, <3>2 DEF Tell, ReclaimTypes
  <2>4. WorkAt(h)'  BY <1>0, <2>2 DEF WorkAt
  <2>. QED  BY <2>2, <2>3, <2>4, Quiet
<1>6. CASE HaltEnds(h)
  <2>1. ReclaimTypes'  BY <1>6 DEF HaltEnds, ReclaimTypes, InIdle
  <2>2. /\ UNCHANGED <<frameVars, listVars>> /\ pc[h] = "halt" /\ pc'[h] = "acquire" /\ loc' = loc
        /\ \A i \in Harts \ {h} : pc'[i] = pc[i]
    BY <1>6 DEF HaltEnds, ReclaimTypes
  <2>3. WorkAt(h)'  BY <1>0, <2>2 DEF WorkAt
  <2>. QED  BY <2>1, <2>2, <2>3, Quiet
<1>7. ASSUME NEW i \in Harts, WakeIdle(h, i)  PROVE ReclaimTypes' /\ FrameInv'
  <2>1. ReclaimTypes'  BY <1>7 DEF WakeIdle, ReclaimTypes
  <2>2. UNCHANGED <<frameVars, listVars>> /\ pc[h] = "kernel" /\ pc' = pc /\ loc' = loc
    BY <1>7 DEF WakeIdle, InKernel
  <2>3. WorkAt(h)'  BY <1>0, <2>2 DEF WorkAt
  <2>. QED  BY <2>1, <2>2, <2>3, Quiet
<1>. QED  BY <1>1, <1>2, <1>3, <1>4, <1>5, <1>6, <1>7

\* The lock taken from user mode, or back from idling.
LEMMA CommitSteps ==
  ASSUME ReclaimTypes, FrameInv, NEW h \in Harts, Enter(h) \/ Return(h)
  PROVE  ReclaimTypes' /\ FrameInv'
<1>1. CASE Enter(h)
  <2>1. /\ pc[h] \in {"user", "acquire"} /\ Go(h, "kernel") /\ Committed(Commit(State))
        /\ UNCHANGED <<dirty, zero, stale, staged, pending, zeroing, loc>>
    BY <1>1 DEF Enter
  <2>2. FrameInv' /\ owner' \in [Frames -> Owners] /\ link' \in [Frames -> Heads \cup {Junk}]
        /\ done' \in [Harts -> Heads] /\ committing' \in Heads
    BY <2>1, CommitStep
  <2>3. ReclaimTypes'  BY <1>1, <2>2 DEF Enter, Go, hartVars, ReclaimTypes
  <2>. QED  BY <2>2, <2>3
<1>2. CASE Return(h)
  <2>1. /\ pc[h] \in {"user", "acquire"} /\ Go(h, "kernel") /\ Committed(Commit(State))
        /\ UNCHANGED <<dirty, zero, stale, staged, pending, zeroing, loc>>
    BY <1>2 DEF Return
  <2>2. FrameInv' /\ owner' \in [Frames -> Owners] /\ link' \in [Frames -> Heads \cup {Junk}]
        /\ done' \in [Harts -> Heads] /\ committing' \in Heads
    BY <2>1, CommitStep
  <2>3. ReclaimTypes'  BY <1>2, <2>2 DEF Return, Go, ReclaimTypes
  <2>. QED  BY <2>2, <2>3
<1>. QED  BY <1>1, <1>2

\* What Placed says of a frame by its owner, its stage or its holder.
LEMMA PlacedFacts ==
  ASSUME NEW own, NEW lnk, NEW dn, NEW com, NEW pnd, NEW stg, NEW hld, NEW zr, NEW top, NEW rank, NEW spot,
         Placed(own, lnk, dn, com, pnd, stg, hld, zr, top, rank, spot)
  PROVE  /\ \A f \in Frames : own[f] # "flight" <=> spot[f] = Nowhere
         /\ \A h \in Harts : \A f \in stg[h] : f \in Frames /\ spot[f] = <<"staged", h>> /\ own[f] = "flight"
         /\ \A h \in Harts : \A f \in hld[h] : f \in Frames /\ spot[f] = <<"zeroing", h>> /\ own[f] = "flight"
         /\ \A h, i \in Harts : \A f \in hld[h] : f \notin stg[i]
<1>1. \A f \in Frames : own[f] = "flight" <=> spot[f] # Nowhere  BY DEF Placed, Spotted
<1>2. \A h \in Harts : stg[h] = At(spot, "staged", h) /\ hld[h] = At(spot, "zeroing", h)  BY DEF Placed, Sets
<1>3. \A h : <<"staged", h>> # Nowhere /\ <<"zeroing", h>> # Nowhere  BY DEF Nowhere
<1>4. \A h, i : <<"staged", h>> # <<"zeroing", i>>  OBVIOUS
<1>5. \A h \in Harts : \A f \in stg[h] : f \in Frames /\ spot[f] = <<"staged", h>>  BY <1>2 DEF At
<1>6. \A h \in Harts : \A f \in hld[h] : f \in Frames /\ spot[f] = <<"zeroing", h>>  BY <1>2 DEF At
<1>7. \A h \in Harts : \A f \in stg[h] : own[f] = "flight"  BY <1>1, <1>3, <1>5
<1>8. \A h \in Harts : \A f \in hld[h] : own[f] = "flight"  BY <1>1, <1>3, <1>6
<1>9. \A h, i \in Harts : \A f \in hld[h] : f \notin stg[i]  BY <1>4, <1>5, <1>6
<1>10. \A f \in Frames : own[f] # "flight" <=> spot[f] = Nowhere  BY <1>1
<1>. QED  BY <1>5, <1>6, <1>7, <1>8, <1>9, <1>10

\* The lowest free frame goes to o, from these owners and links.
LEMMA TakeStep ==
  ASSUME NEW own \in [Frames -> Owners], NEW lnk \in [Frames -> Heads \cup {Junk}], NEW dn, NEW com,
         NEW top, NEW rank, NEW spot, ReclaimTypes,
         Placed(own, lnk, dn, com, pending, Staging, Holding, zero, top, rank, spot), ZeroIn(own, lnk, zero),
         \E g \in Frames : own[g] = "free", NEW o \in Pids \cup {Object}, TakeFrom(own, lnk, o)
  PROVE  /\ Placed(owner', link', dn, com, pending, Staging, Holding, zero', top, rank, spot)
         /\ ZeroIn(owner, link, zero)'
         /\ owner' \in [Frames -> Owners] /\ link' \in [Frames -> Heads \cup {Junk}]
         /\ dirty' \subseteq Frames /\ zero' \subseteq Frames
         /\ \A i \in Harts : \A f \in Holding[i] : link'[f] = lnk[f] /\ (f \in zero => f \in zero')
<1>1. PICK f : f = Min({g \in Frames : own[g] = "free"})  OBVIOUS
<1>2. f \in Frames /\ own[f] = "free"
  <2>. DEFINE S == {g \in Frames : own[g] = "free"}
  <2>1. S \in SUBSET Nat /\ S # {}  BY Basics
  <2>2. Min(S) \in S  BY <2>1, MinFacts
  <2>. QED  BY <1>1, <2>2
<1>3. owner' = [own EXCEPT ![f] = o] /\ link' = [lnk EXCEPT ![f] = Junk] /\ dirty' = dirty \ {f} /\ zero' = zero \ {f}
  BY <1>1 DEF TakeFrom
<1>4. o # "flight" /\ o # "free" /\ o \in Owners  BY ReclaimAssumption DEF Owners
<1>5. spot[f] = Nowhere /\ spot[f][1] \notin {"pending", "done", "committing"}
  <2>1. \A g \in Frames : own[g] # "flight" <=> spot[g] = Nowhere  BY PlacedFacts
  <2>2. spot[f] = Nowhere  BY <1>2, <2>1
  <2>. QED  BY <2>2 DEF Nowhere
<1>6. /\ \A g \in Frames : owner'[g] = "flight" <=> own[g] = "flight"
      /\ \A g \in Frames \ {f} : link'[g] = lnk[g] /\ owner'[g] = own[g]
      /\ owner'[f] = o
  BY <1>2, <1>3, <1>4
<1>7. Placed(owner', link', dn, com, pending, Staging, Holding, zero', top, rank, spot)
  <2>1. zero \ {f} \subseteq zero'  BY <1>3
  <2>. QED  BY <1>2, <1>5, <1>6, <2>1, Touch
<1>8. ZeroIn(owner, link, zero)'
  <2>. SUFFICES ASSUME NEW g \in Frames \ dirty', owner'[g] = "free"  PROVE g \in zero' /\ link'[g] = None  BY DEF ZeroIn
  <2>1. g # f  BY <1>4, <1>6
  <2>. QED  BY <1>3, <1>6, <2>1 DEF ZeroIn
<1>9. owner' \in [Frames -> Owners] /\ link' \in [Frames -> Heads \cup {Junk}]  BY <1>2, <1>3, <1>4
<1>10. \A i \in Harts : \A g \in Holding[i] : g \in Frames /\ g # f
  <2>1. \A i \in Harts : \A g \in Holding[i] : g \in Frames /\ own[g] = "flight"  BY PlacedFacts
  <2>. QED  BY <1>2, <2>1
<1>. QED  BY <1>3, <1>6, <1>7, <1>8, <1>9, <1>10 DEF ReclaimTypes

\* An allocation.
LEMMA AllocStep ==
  ASSUME ReclaimTypes, FrameInv, NEW h \in Harts, NEW o \in Pids \cup {Object}, Alloc(h, o)
  PROVE  ReclaimTypes' /\ FrameInv'
<1>. USE DEF listVars, hartVars
<1>0. WorkAt(h) /\ pc[h] = "kernel"  BY DEF FrameInv, Work, Alloc, InKernel
<1>1. CASE FreeSet = {}
  <2>1. UNCHANGED <<frameVars, listVars, hartVars, holder, loc>> /\ Go(h, "reclaim")
    BY <1>1 DEF Alloc, frameVars
  <2>2. ReclaimTypes'  BY <2>1 DEF ReclaimTypes, Go, frameVars
  <2>3. pc'[h] = "reclaim" /\ \A i \in Harts \ {h} : pc'[i] = pc[i]  BY <2>1 DEF Go, ReclaimTypes
  <2>4. WorkAt(h)'  BY <1>0, <2>1, <2>3 DEF WorkAt, frameVars
  <2>. QED  BY <1>0, <2>1, <2>2, <2>3, <2>4, Quiet
<1>2. CASE FreeSet # {}
  <2>1. TakeFrom(owner, link, o) /\ UNCHANGED <<pc, stale, listVars, hartVars, holder, loc>>  BY <1>2 DEF Alloc
  <2>2. PICK top, rank, spot :
          Placed(owner, link, done, committing, pending, Staging, Holding, zero, top, rank, spot)
    BY DEF FrameInv, AllPlaced
  <2>3. \E g \in Frames : owner[g] = "free"  BY <1>2 DEF FreeSet
  <2>4. owner \in [Frames -> Owners] /\ link \in [Frames -> Heads \cup {Junk}] /\ ZeroIn(owner, link, zero)
    BY DEF ReclaimTypes, FrameInv
  <2>5. /\ Placed(owner', link', done, committing, pending, Staging, Holding, zero', top, rank, spot)
        /\ ZeroIn(owner, link, zero)'
        /\ owner' \in [Frames -> Owners] /\ link' \in [Frames -> Heads \cup {Junk}]
        /\ dirty' \subseteq Frames /\ zero' \subseteq Frames
        /\ \A i \in Harts : \A f \in Holding[i] : link'[f] = link[f] /\ (f \in zero => f \in zero')
    BY <2>1, <2>2, <2>3, <2>4, TakeStep
  <2>6. Holding' = Holding /\ Staging' = Staging  BY <2>1, HoldingSame, StagingSame
  <2>7. AllPlaced'  BY <2>1, <2>5, <2>6 DEF AllPlaced
  <2>8. Others(h)  BY <2>1, <2>5 DEF Others
  <2>9. WorkAt(h)'  BY <1>0, <2>1 DEF WorkAt
  <2>10. Work'  BY <2>8, <2>9, WorkStep DEF FrameInv
  <2>11. Stages'  BY <2>1, StagesSame DEF FrameInv
  <2>12. ReclaimTypes'  BY <2>1, <2>5 DEF ReclaimTypes
  <2>. QED  BY <2>5, <2>7, <2>10, <2>11, <2>12 DEF FrameInv
<1>. QED  BY <1>1, <1>2

\* Sequences of frames and the sets of them.
LEMMA SeqFacts ==
  /\ \A s \in Seq(Frames) : /\ Len(s) \in Nat /\ DOMAIN s = 1 .. Len(s) /\ ToSet(s) \in SUBSET Frames
                            /\ \A i \in 1 .. Len(s) : s[i] \in ToSet(s) /\ s[i] \in Frames
                            /\ \A f \in ToSet(s) : \E i \in 1 .. Len(s) : f = s[i]
                            /\ (s # <<>> => Len(s) # 0) /\ (s = <<>> => ToSet(s) = {})
  /\ \A f \in Frames : /\ <<f>> \in Seq(Frames) /\ ToSet(<<f>>) = {f} /\ Distinct(<<f>>)
                       /\ \A s \in Seq(Frames) : /\ Append(s, f) \in Seq(Frames)
                                                 /\ ToSet(Append(s, f)) = ToSet(s) \cup {f}
                                                 /\ Distinct(s) /\ f \notin ToSet(s) => Distinct(Append(s, f))
<1>1. ASSUME NEW s \in Seq(Frames)
      PROVE  /\ Len(s) \in Nat /\ DOMAIN s = 1 .. Len(s) /\ ToSet(s) \in SUBSET Frames
             /\ \A i \in 1 .. Len(s) : s[i] \in ToSet(s) /\ s[i] \in Frames
             /\ \A f \in ToSet(s) : \E i \in 1 .. Len(s) : f = s[i]
             /\ (s # <<>> => Len(s) # 0) /\ (s = <<>> => ToSet(s) = {})
  BY DEF ToSet
<1>2. ASSUME NEW f \in Frames  PROVE <<f>> \in Seq(Frames) /\ ToSet(<<f>>) = {f} /\ Distinct(<<f>>)
  BY DEF ToSet, Distinct
<1>3. ASSUME NEW f \in Frames, NEW s \in Seq(Frames)
      PROVE  /\ Append(s, f) \in Seq(Frames) /\ ToSet(Append(s, f)) = ToSet(s) \cup {f}
             /\ Distinct(s) /\ f \notin ToSet(s) => Distinct(Append(s, f))
  <2>1. PICK t : t = Append(s, f)  OBVIOUS
  <2>2. /\ t \in Seq(Frames) /\ Len(t) = Len(s) + 1 /\ t[Len(s) + 1] = f
        /\ \A i \in 1 .. Len(s) : t[i] = s[i]
    BY <2>1
  <2>3. DOMAIN t = 1 .. Len(s) + 1 /\ DOMAIN s = 1 .. Len(s) /\ Len(s) \in Nat  BY <2>2
  <2>4. \A i \in DOMAIN t : i = Len(s) + 1 \/ i \in DOMAIN s  BY <2>3
  <2>5. \A i \in DOMAIN s : i \in DOMAIN t /\ i # Len(s) + 1  BY <2>3
  <2>6. Len(s) + 1 \in DOMAIN t  BY <2>3
  <2>7. ToSet(t) = ToSet(s) \cup {f}  BY <2>2, <2>3, <2>4, <2>5, <2>6 DEF ToSet
  <2>8. Distinct(s) /\ f \notin ToSet(s) => Distinct(t)  BY <2>2, <2>3, <2>4 DEF ToSet, Distinct
  <2>. QED  BY <2>1, <2>2, <2>7, <2>8
<1>. QED  BY <1>1, <1>2, <1>3

\* What linking a sequence of frames onto a pending list writes.
LEMMA PendAllIs ==
  ASSUME ReclaimTypes, NEW h \in Harts, NEW s \in Seq(Frames), Distinct(s), PendAll(h, s)
  PROVE  /\ link' \in [Frames -> Heads \cup {Junk}] /\ pending' \in [Harts -> Heads]
         /\ \A f \in Frames \ ToSet(s) : link'[f] = link[f]
         /\ \A i \in 1 .. Len(s) : link'[s[i]] = IF i = 1 THEN pending[h] ELSE s[i - 1]
         /\ \A i \in Harts \ {h} : pending'[i] = pending[i]
         /\ pending'[h] = IF s = <<>> THEN pending[h] ELSE s[Len(s)]
<1>1. /\ Len(s) \in Nat /\ DOMAIN s = 1 .. Len(s) /\ ToSet(s) \in SUBSET Frames
      /\ \A i \in 1 .. Len(s) : s[i] \in ToSet(s) /\ s[i] \in Frames
      /\ \A f \in ToSet(s) : \E i \in 1 .. Len(s) : f = s[i]
      /\ (s # <<>> => Len(s) # 0)
  BY SeqFacts
<1>2. \A f : Contains(s, f) <=> f \in ToSet(s)  BY <1>1 DEF Contains, ToSet
<1>. DEFINE at(f) == CHOOSE j \in DOMAIN s : s[j] = f
<1>3. \A i \in 1 .. Len(s) : at(s[i]) = i  BY <1>1 DEF Distinct
<1>4. link' = [f \in Frames |-> IF ~Contains(s, f) THEN link[f]
                                ELSE IF at(f) = 1 THEN pending[h] ELSE s[at(f) - 1]]
  BY DEF PendAll
<1>. HIDE DEF at
<1>5. \A f \in Frames \ ToSet(s) : link'[f] = link[f]  BY <1>2, <1>4
<1>6. ASSUME NEW i \in 1 .. Len(s)
      PROVE  link'[s[i]] = (IF i = 1 THEN pending[h] ELSE s[i - 1]) /\ link'[s[i]] \in Heads
  <2>1. s[i] \in Frames /\ Contains(s, s[i]) /\ at(s[i]) = i  BY <1>1, <1>2, <1>3
  <2>2. link'[s[i]] = IF i = 1 THEN pending[h] ELSE s[i - 1]  BY <1>4, <2>1
  <2>3. i # 1 => s[i - 1] \in Frames  BY <1>1
  <2>. QED  BY <2>2, <2>3 DEF ReclaimTypes, Heads
<1>7. \A f \in Frames : link'[f] \in Heads \cup {Junk}  BY <1>1, <1>5, <1>6, ZenonT(60) DEF ReclaimTypes
<1>8. link' \in [Frames -> Heads \cup {Junk}]
  <2>1. link' = [f \in Frames |-> link'[f]]  BY <1>4
  <2>. QED  BY <1>7, <2>1
<1>9. s # <<>> => s[Len(s)] \in Heads  BY <1>1 DEF Heads
<1>10. pending' = IF s = <<>> THEN pending ELSE [pending EXCEPT ![h] = s[Len(s)]]  BY DEF PendAll, Last
<1>. QED  BY <1>5, <1>6, <1>8, <1>9, <1>10 DEF ReclaimTypes

\* Frames staged by hart h, or in nobody's hands, are linked onto its list and in flight.
LEMMA PendStep ==
  ASSUME ReclaimTypes, NEW h \in Harts, NEW s \in Seq(Frames), Distinct(s), PendAll(h, s),
         NEW top, NEW rank, NEW spot,
         Placed(owner, link, done, committing, pending, Staging, Holding, zero, top, rank, spot),
         \A f \in ToSet(s) : spot[f] = Nowhere \/ spot[f] = <<"staged", h>>,
         NEW own2, \A f \in Frames : own2[f] = "flight" <=> owner[f] = "flight" \/ f \in ToSet(s),
         NEW stg2, stg2[h] = Staging[h] \ ToSet(s), \A i \in Harts \ {h} : stg2[i] = Staging[i]
  PROVE  /\ \E top2, rank2, spot2 :
              Placed(own2, link', done, committing, pending', stg2, Holding, zero, top2, rank2, spot2)
         /\ \A i \in Harts : \A f \in Holding[i] : link'[f] = link[f]
<1>1. /\ link' \in [Frames -> Heads \cup {Junk}] /\ pending' \in [Harts -> Heads]
      /\ \A f \in Frames \ ToSet(s) : link'[f] = link[f]
      /\ \A i \in 1 .. Len(s) : link'[s[i]] = IF i = 1 THEN pending[h] ELSE s[i - 1]
      /\ \A i \in Harts \ {h} : pending'[i] = pending[i]
      /\ pending'[h] = IF s = <<>> THEN pending[h] ELSE s[Len(s)]
  BY PendAllIs
<1>2. /\ Len(s) \in Nat /\ DOMAIN s = 1 .. Len(s) /\ ToSet(s) \in SUBSET Frames
      /\ \A i \in 1 .. Len(s) : s[i] \in ToSet(s)
      /\ \A f \in ToSet(s) : \E i \in 1 .. Len(s) : f = s[i]
      /\ (s # <<>> => Len(s) # 0) /\ (s = <<>> => ToSet(s) = {})
  BY SeqFacts
<1>3. ASSUME NEW i \in Harts, NEW f \in Holding[i]  PROVE link'[f] = link[f]
  <2>1. f \in Frames /\ spot[f] = <<"zeroing", i>>  BY PlacedFacts
  <2>2. <<"zeroing", i>> # Nowhere /\ <<"zeroing", i>> # <<"staged", h>>  BY DEF Nowhere
  <2>3. f \notin ToSet(s)  BY <2>1, <2>2
  <2>. QED  BY <1>1, <2>1, <2>3
<1>4. CASE s # <<>>
  <2>1. \A i, j \in 1 .. Len(s) : s[i] = s[j] => i = j  BY <1>2 DEF Distinct
  <2>2. Pends(owner, link, pending, Staging, spot, h, Len(s), s, ToSet(s), own2, link', pending', stg2)
    BY <1>1, <1>2, <1>4, <2>1 DEF Pends
  <2>3. \E top2, rank2, spot2 :
          Placed(own2, link', done, committing, pending', stg2, Holding, zero, top2, rank2, spot2)
    BY <2>2, Pend
  <2>. QED  BY <1>3, <2>3
<1>5. CASE s = <<>>
  <2>1. \A f \in Frames : link'[f] = link[f]  BY <1>1, <1>2, <1>5
  <2>2. link' = link /\ pending' = pending
    <3>1. \A i \in Harts : pending'[i] = pending[i]  BY <1>1, <1>5
    <3>. QED  BY <1>1, <2>1, <3>1 DEF ReclaimTypes
  <2>3. Spotted(own2, spot) /\ Sets(stg2, "staged", spot)  BY <1>2, <1>5 DEF Placed, Spotted, Sets
  <2>4. Placed(own2, link', done, committing, pending', stg2, Holding, zero, top, rank, spot)
    BY <2>2, <2>3 DEF Placed
  <2>. QED  BY <1>3, <2>4
<1>. QED  BY <1>4, <1>5

\* What is free stays zero when the frames that change are no longer free.
LEMMA ZeroStep ==
  ASSUME ZeroIn(owner, link, zero), dirty' = dirty,
         \A f \in Frames : owner'[f] = "free" => owner[f] = "free" /\ link'[f] = link[f] /\ (f \in zero => f \in zero')
  PROVE  ZeroIn(owner, link, zero)'
BY DEF ZeroIn

\* A page of an unmap.
LEMMA UnmapStep ==
  ASSUME ReclaimTypes, FrameInv, NEW h \in Harts, NEW f \in Frames, Unmap(h, f)
  PROVE  ReclaimTypes' /\ FrameInv'
<1>. USE DEF hartVars
<1>0. /\ pc[h] \in {"kernel", "unmap"} /\ owner[f] \in Pids /\ Retire(h, f, owner[f])
      /\ owner' = [owner EXCEPT ![f] = "flight"] /\ pc' = [pc EXCEPT ![h] = "unmap"]
      /\ UNCHANGED <<dirty, zero, zeroing, done, committing, hartVars, holder, loc>>
  BY DEF Unmap, Go
<1>1. PICK top, rank, spot :
        Placed(owner, link, done, committing, pending, Staging, Holding, zero, top, rank, spot)
  BY DEF FrameInv, AllPlaced
<1>2. owner[f] # "flight" /\ owner[f] # "free"  BY <1>0, ReclaimAssumption
<1>3. /\ \A g \in Frames : owner'[g] = "flight" <=> owner[g] = "flight" \/ g = f
      /\ \A g \in Frames \ {f} : owner'[g] = owner[g]
      /\ owner'[f] = "flight" /\ owner' \in [Frames -> Owners]
  BY <1>0 DEF ReclaimTypes, Owners
<1>4. staged[h] \in Seq(Frames) /\ Distinct(staged[h]) /\ Staging[h] = ToSet(staged[h])
  BY HoldingIs DEF ReclaimTypes, FrameInv, Stages
<1>5. f \notin ToSet(staged[h])  BY <1>1, <1>2, <1>4, PlacedFacts
<1>6. pc'[h] = "unmap" /\ \A i \in Harts \ {h} : pc'[i] = pc[i]  BY <1>0 DEF ReclaimTypes
<1>7. pc' \in [Harts -> InIdle \cup {"user", "kernel", "unmap", "reclaim", "wait", "waithalt"}]
  BY <1>0 DEF ReclaimTypes
<1>8. Holding' = Holding  BY <1>0, <1>6, HoldingSame
<1>9. WorkAt(h)'  BY <1>0, <1>6 DEF WorkAt, FrameInv, Work
<1>10. ASSUME \A i \in Harts : \A g \in Holding[i] : link'[g] = link[g]  PROVE Work'
  <2>1. Others(h)  BY <1>0, <1>6, <1>10 DEF Others
  <2>. QED  BY <1>9, <2>1, WorkStep DEF FrameInv
<1>11. <<f, owner[f]>> \in Frames \X Pids  BY <1>0
<1>. DEFINE old == {q \in Pids : \E g \in Frames : <<g, q>> \in stale}
            early == Len(staged[h]) = StageMax \/ (staged[h] # <<>> /\ old # {owner[f]})
<1>12. CASE early
  <2>1. PendAll(h, staged[h]) /\ staged' = [staged EXCEPT ![h] = <<f>>] /\ stale' = {<<f, owner[f]>>}
    BY <1>0, <1>12 DEF Retire
  <2>2. PICK s : s = staged[h]  OBVIOUS
  <2>3. s \in Seq(Frames) /\ Distinct(s) /\ PendAll(h, s) /\ ToSet(s) \in SUBSET Frames  BY <1>4, <2>1, <2>2, SeqFacts
  <2>4. /\ link' \in [Frames -> Heads \cup {Junk}] /\ pending' \in [Harts -> Heads]
        /\ \A g \in Frames \ ToSet(s) : link'[g] = link[g]
    BY <2>3, PendAllIs
  <2>5. \A g \in ToSet(s) : spot[g] = <<"staged", h>> /\ owner[g] = "flight"  BY <1>1, <1>4, <2>2, PlacedFacts
  <2>6. PICK stg2 : stg2 = [Staging EXCEPT ![h] = {}]  OBVIOUS
  <2>7. stg2[h] = Staging[h] \ ToSet(s) /\ stg2[h] = {} /\ \A i \in Harts \ {h} : stg2[i] = Staging[i]
    BY <1>4, <2>2, <2>6 DEF Staging
  <2>8. \A g \in Frames : owner[g] = "flight" <=> owner[g] = "flight" \/ g \in ToSet(s)  BY <2>5
  <2>9. /\ \E top2, rank2, spot2 :
             Placed(owner, link', done, committing, pending', stg2, Holding, zero, top2, rank2, spot2)
        /\ \A i \in Harts : \A g \in Holding[i] : link'[g] = link[g]
    BY <1>1, <2>3, <2>5, <2>7, <2>8, PendStep
  <2>10. Staging'[h] = stg2[h] \cup {f} /\ \A i \in Harts \ {h} : Staging'[i] = stg2[i]
    <3>1. staged'[h] = <<f>> /\ \A i \in Harts \ {h} : staged'[i] = staged[i]  BY <2>1 DEF ReclaimTypes
    <3>2. ToSet(<<f>>) = {f}  BY SeqFacts
    <3>3. \A i \in Harts : Staging'[i] = ToSet(staged'[i]) /\ Staging[i] = ToSet(staged[i])  BY DEF Staging
    <3>. QED  BY <2>7, <3>1, <3>2, <3>3
  <2>11. AllPlaced'
    <3>1. PICK top2, rank2, spot2 :
            Placed(owner, link', done, committing, pending', stg2, Holding, zero, top2, rank2, spot2)
      BY <2>9
    <3>2. PICK sp3 : sp3 = Moved(spot2, {f}, <<"staged", h>>)  OBVIOUS
    <3>3. Placed(owner', link', done, committing, pending', Staging', Holding, zero, top2, rank2, sp3)
      BY <1>2, <1>3, <2>10, <3>1, <3>2, StageOne, SMTT(30)
    <3>. QED  BY <1>0, <1>8, <3>3 DEF AllPlaced
  <2>12. ZeroIn(owner, link, zero)'
    <3>1. \A g \in Frames : owner'[g] = "free" => owner[g] = "free" /\ link'[g] = link[g]
      BY <1>3, <2>4, <2>5
    <3>. QED  BY <1>0, <3>1, ZeroStep DEF FrameInv
  <2>13. staged' \in [Harts -> Seq(Frames)] /\ stale' \subseteq Frames \X Pids
    <3>1. <<f>> \in Seq(Frames)  OBVIOUS
    <3>. QED  BY <1>11, <2>1, <3>1 DEF ReclaimTypes
  <2>14. Stages'
    <3>1. staged'[h] = <<f>> /\ \A i \in Harts \ {h} : staged'[i] = staged[i]  BY <2>1 DEF ReclaimTypes
    <3>2. Distinct(<<f>>) /\ f \in ToSet(<<f>>)  BY SeqFacts
    <3>3. \A i \in Harts : Distinct(staged'[i])  BY <3>1, <3>2 DEF FrameInv, Stages
    <3>4. \A g \in Frames, p \in Pids : <<g, p>> \in stale' => g = f  BY <2>1
    <3>5. f \in ToSet(staged'[h])  BY <3>1, <3>2
    <3>. QED  BY <3>3, <3>4, <3>5 DEF Stages
  <2>15. ReclaimTypes'  BY <1>0, <1>3, <1>7, <2>4, <2>13 DEF ReclaimTypes
  <2>. QED  BY <1>10, <2>9, <2>11, <2>12, <2>14, <2>15 DEF FrameInv
<1>13. CASE ~early
  <2>1. /\ staged' = [staged EXCEPT ![h] = Append(staged[h], f)] /\ stale' = stale \cup {<<f, owner[f]>>}
        /\ UNCHANGED <<link, pending>>
    BY <1>0, <1>13 DEF Retire
  <2>2. PICK s : s = Append(staged[h], f)  OBVIOUS
  <2>3. s \in Seq(Frames) /\ Distinct(s) /\ ToSet(s) = ToSet(staged[h]) \cup {f}  BY <1>4, <1>5, <2>2, SeqFacts
  <2>4. staged'[h] = s /\ (\A i \in Harts \ {h} : staged'[i] = staged[i]) /\ staged' \in [Harts -> Seq(Frames)]
    BY <2>1, <2>2, <2>3 DEF ReclaimTypes
  <2>5. Staging'[h] = Staging[h] \cup {f} /\ \A i \in Harts \ {h} : Staging'[i] = Staging[i]
    <3>1. \A i \in Harts : Staging'[i] = ToSet(staged'[i]) /\ Staging[i] = ToSet(staged[i])  BY DEF Staging
    <3>. QED  BY <2>3, <2>4, <3>1
  <2>6. AllPlaced'
    <3>1. PICK sp3 : sp3 = Moved(spot, {f}, <<"staged", h>>)  OBVIOUS
    <3>2. Placed(owner', link, done, committing, pending, Staging', Holding, zero, top, rank, sp3)
      BY <1>1, <1>2, <1>3, <2>5, <3>1, StageOne
    <3>. QED  BY <1>0, <1>8, <2>1, <3>2 DEF AllPlaced
  <2>7. ZeroIn(owner, link, zero)'
    <3>1. \A g \in Frames : owner'[g] = "free" => owner[g] = "free"  BY <1>3
    <3>. QED  BY <1>0, <2>1, <3>1, ZeroStep DEF FrameInv
  <2>8. Work'  BY <1>10, <2>1
  <2>9. Stages'
    <3>1. \A i \in Harts : Distinct(staged'[i])  BY <2>3, <2>4 DEF FrameInv, Stages
    <3>2. \A i \in Harts : \A g \in ToSet(staged[i]) : g \in ToSet(staged'[i])  BY <2>3, <2>4
    <3>3. f \in ToSet(staged'[h])  BY <2>3, <2>4
    <3>4. ASSUME NEW g \in Frames, NEW p \in Pids, <<g, p>> \in stale'  PROVE \E i \in Harts : g \in ToSet(staged'[i])
      <4>1. CASE g = f  BY <3>3, <4>1
      <4>2. CASE g # f
        <5>1. <<g, p>> \in stale  BY <2>1, <3>4, <4>2
        <5>2. \E i \in Harts : g \in ToSet(staged[i])  BY <5>1 DEF FrameInv, Stages
        <5>. QED  BY <3>2, <5>2
      <4>. QED  BY <4>1, <4>2
    <3>. QED  BY <3>1, <3>4 DEF Stages
  <2>10. stale' \subseteq Frames \X Pids  BY <1>11, <2>1 DEF ReclaimTypes
  <2>11. ReclaimTypes'  BY <1>0, <1>3, <1>7, <2>1, <2>4, <2>10 DEF ReclaimTypes
  <2>. QED  BY <2>6, <2>7, <2>8, <2>9, <2>11 DEF FrameInv
<1>. QED  BY <1>12, <1>13

\* The frames of a finite set, in a sequence as long, are each in it once.
LEMMA OnceEach ==
  ASSUME NEW M \in SUBSET Frames, NEW s \in [1 .. Cardinality(M) -> M], ToSet(s) = M
  PROVE  s \in Seq(Frames) /\ Distinct(s)
<1>1. IsFiniteSet(Heads) /\ M \in SUBSET Heads  BY HeadsFinite DEF Heads
<1>2. IsFiniteSet(M)  BY <1>1, FS_Subset
<1>3. PICK n : n = Cardinality(M)  OBVIOUS
<1>4. n \in Nat  BY <1>2, <1>3, FS_CardinalityType
<1>5. IsFiniteSet(1 .. n) /\ Cardinality(1 .. n) = n
  <2>1. 1 \in Int /\ n \in Int  BY <1>4
  <2>2. IsFiniteSet(1 .. n) /\ Cardinality(1 .. n) = IF 1 > n THEN 0 ELSE n - 1 + 1  BY <2>1, FS_Interval
  <2>. QED  BY <1>4, <2>2
<1>6. s \in [1 .. n -> M] /\ DOMAIN s = 1 .. n  BY <1>3
<1>7. s \in Surjection(1 .. n, M)
  <2>1. \A f \in M : \E i \in 1 .. n : s[i] = f  BY <1>6 DEF ToSet
  <2>. QED  BY <1>6, <2>1 DEF Surjection
<1>8. s \in Injection(1 .. n, M)  BY <1>3, <1>5, <1>7, FS_SurjSameCardinalityImpliesInj
<1>9. \A i, j \in 1 .. n : s[i] = s[j] => i = j  BY <1>8 DEF Injection, IsInjective
<1>10. s \in Seq(Frames)  BY <1>4, <1>6
<1>. QED  BY <1>6, <1>9, <1>10 DEF Distinct

\* The shootdown of what is staged.
LEMMA ShootStep ==
  ASSUME ReclaimTypes, FrameInv, NEW h \in Harts, Shoot(h)
  PROVE  ReclaimTypes' /\ FrameInv'
<1>. USE DEF hartVars
<1>0. /\ pc[h] = "unmap" /\ PendAll(h, staged[h]) /\ staged' = [staged EXCEPT ![h] = <<>>] /\ stale' = {}
      /\ pc' = [pc EXCEPT ![h] = "kernel"]
      /\ UNCHANGED <<owner, dirty, zero, zeroing, done, committing, hartVars, holder, loc>>
  BY DEF Shoot, Go
<1>1. PICK top, rank, spot :
        Placed(owner, link, done, committing, pending, Staging, Holding, zero, top, rank, spot)
  BY DEF FrameInv, AllPlaced
<1>2. PICK s : s = staged[h]  OBVIOUS
<1>3. s \in Seq(Frames) /\ Distinct(s) /\ Staging[h] = ToSet(s) /\ PendAll(h, s)
  BY <1>0, <1>2, HoldingIs DEF ReclaimTypes, FrameInv, Stages
<1>4. /\ link' \in [Frames -> Heads \cup {Junk}] /\ pending' \in [Harts -> Heads]
      /\ \A g \in Frames \ ToSet(s) : link'[g] = link[g]
  BY <1>3, PendAllIs
<1>5. \A g \in ToSet(s) : spot[g] = <<"staged", h>> /\ owner[g] = "flight"  BY <1>1, <1>3, PlacedFacts
<1>6. staged'[h] = <<>> /\ (\A i \in Harts \ {h} : staged'[i] = staged[i]) /\ staged' \in [Harts -> Seq(Frames)]
  BY <1>0 DEF ReclaimTypes
<1>7. Staging'[h] = Staging[h] \ ToSet(s) /\ \A i \in Harts \ {h} : Staging'[i] = Staging[i]
  <2>1. \A i \in Harts : Staging'[i] = ToSet(staged'[i]) /\ Staging[i] = ToSet(staged[i])  BY DEF Staging
  <2>2. ToSet(<<>>) = {}  BY DEF ToSet
  <2>. QED  BY <1>3, <1>6, <2>1, <2>2
<1>8. \A g \in Frames : owner'[g] = "flight" <=> owner[g] = "flight" \/ g \in ToSet(s)  BY <1>0, <1>5
<1>9. /\ \E top2, rank2, spot2 :
           Placed(owner', link', done, committing, pending', Staging', Holding, zero, top2, rank2, spot2)
      /\ \A i \in Harts : \A g \in Holding[i] : link'[g] = link[g]
  BY <1>1, <1>3, <1>5, <1>7, <1>8, PendStep
<1>10. pc'[h] = "kernel" /\ \A i \in Harts \ {h} : pc'[i] = pc[i]  BY <1>0 DEF ReclaimTypes
<1>11. Holding' = Holding  BY <1>0, <1>10, HoldingSame
<1>12. AllPlaced'  BY <1>0, <1>9, <1>11 DEF AllPlaced
<1>13. ZeroIn(owner, link, zero)'
  <2>1. \A g \in Frames : owner'[g] = "free" => owner[g] = "free" /\ link'[g] = link[g]  BY <1>0, <1>4, <1>5
  <2>. QED  BY <1>0, <2>1, ZeroStep DEF FrameInv
<1>14. Work'
  <2>1. WorkAt(h)'  BY <1>0, <1>10 DEF WorkAt, FrameInv, Work
  <2>2. Others(h)  BY <1>0, <1>9, <1>10 DEF Others
  <2>. QED  BY <2>1, <2>2, WorkStep DEF FrameInv
<1>15. Stages'
  <2>1. Distinct(<<>>)  BY DEF Distinct
  <2>. QED  BY <1>0, <1>6, <2>1 DEF FrameInv, Stages
<1>16. ReclaimTypes'
  <2>1. pc' \in [Harts -> InIdle \cup {"user", "kernel", "unmap", "reclaim", "wait", "waithalt"}]
    BY <1>0 DEF ReclaimTypes
  <2>. QED  BY <1>0, <1>4, <1>6, <2>1 DEF ReclaimTypes
<1>. QED  BY <1>12, <1>13, <1>14, <1>15, <1>16 DEF FrameInv

\* Frames in nobody's hands, owned by one that is neither free nor in flight, are pending at once.
LEMMA PendOwned ==
  ASSUME ReclaimTypes, FrameInv, NEW h \in Harts, pc[h] = "kernel", NEW s \in Seq(Frames), Distinct(s), PendAll(h, s),
         \A f \in ToSet(s) : owner[f] # "flight" /\ owner[f] # "free",
         owner' = [f \in Frames |-> IF f \in ToSet(s) THEN "flight" ELSE owner[f]],
         UNCHANGED <<dirty, zero, stale, staged, zeroing, done, committing, hartVars, holder, pc, loc>>
  PROVE  ReclaimTypes' /\ FrameInv'
<1>1. PICK top, rank, spot :
        Placed(owner, link, done, committing, pending, Staging, Holding, zero, top, rank, spot)
  BY DEF FrameInv, AllPlaced
<1>2. /\ link' \in [Frames -> Heads \cup {Junk}] /\ pending' \in [Harts -> Heads]
      /\ \A g \in Frames \ ToSet(s) : link'[g] = link[g]
  BY PendAllIs
<1>3. ToSet(s) \in SUBSET Frames  BY SeqFacts
<1>4. \A g \in ToSet(s) : spot[g] = Nowhere  BY <1>1, <1>3, PlacedFacts
<1>5. \A g \in Frames : owner'[g] = "flight" <=> owner[g] = "flight" \/ g \in ToSet(s)  OBVIOUS
<1>6. PICK stg2, own2 : stg2 = Staging /\ own2 = owner'  OBVIOUS
<1>7. \A g \in Frames : own2[g] = "flight" <=> owner[g] = "flight" \/ g \in ToSet(s)  BY <1>5, <1>6
<1>8. stg2[h] = Staging[h] \ ToSet(s) /\ \A i \in Harts \ {h} : stg2[i] = Staging[i]
  <2>1. \A g \in Staging[h] : g \notin ToSet(s)  BY <1>1, PlacedFacts
  <2>. QED  BY <1>6, <2>1
<1>9. \A g \in ToSet(s) : spot[g] = Nowhere \/ spot[g] = <<"staged", h>>  BY <1>4
<1>10. /\ \E top2, rank2, spot2 :
            Placed(own2, link', done, committing, pending', stg2, Holding, zero, top2, rank2, spot2)
       /\ \A i \in Harts : \A g \in Holding[i] : link'[g] = link[g]
  BY <1>1, <1>8, <1>9, <1>7, PendStep
<1>11. /\ \E top2, rank2, spot2 :
           Placed(owner', link', done, committing, pending', Staging, Holding, zero, top2, rank2, spot2)
      /\ \A i \in Harts : \A g \in Holding[i] : link'[g] = link[g]
  BY <1>6, <1>10
<1>12. Holding' = Holding /\ Staging' = Staging  BY HoldingSame, StagingSame
<1>13. AllPlaced'  BY <1>11, <1>12 DEF AllPlaced
<1>14. ZeroIn(owner, link, zero)'
  <2>1. \A g \in Frames : owner'[g] = "free" => owner[g] = "free" /\ link'[g] = link[g]  BY <1>2
  <2>. QED  BY <2>1, ZeroStep DEF FrameInv
<1>15. Work'
  <2>1. WorkAt(h)'  BY DEF WorkAt, FrameInv, Work
  <2>2. Others(h)  BY <1>11 DEF Others
  <2>. QED  BY <2>1, <2>2, WorkStep DEF FrameInv
<1>16. Stages'  BY StagesSame DEF FrameInv
<1>17. owner' \in [Frames -> Owners]  BY DEF ReclaimTypes, Owners
<1>18. ReclaimTypes'  BY <1>2, <1>17 DEF ReclaimTypes, hartVars
<1>. QED  BY <1>13, <1>14, <1>15, <1>16, <1>18 DEF FrameInv

\* A process's frames, or an object's, released.
LEMMA ReleaseSteps ==
  ASSUME ReclaimTypes, FrameInv, NEW h \in Harts,
         (\E o \in Pids \cup {Object} : Release(h, o)) \/ (\E f \in Frames : FreeObject(h, f))
  PROVE  ReclaimTypes' /\ FrameInv'
<1>1. ASSUME NEW o \in Pids \cup {Object}, Release(h, o)  PROVE ReclaimTypes' /\ FrameInv'
  <2>. DEFINE mine == {f \in Frames : owner[f] = o}
  <2>1. PICK s \in [1 .. Cardinality(mine) -> mine] : ToSet(s) = mine /\ PendAll(h, s)  BY <1>1 DEF Release
  <2>2. mine \in SUBSET Frames  OBVIOUS
  <2>3. s \in Seq(Frames) /\ Distinct(s)
    <3>. HIDE DEF mine
    <3>. QED  BY <2>1, <2>2, OnceEach
  <2>4. \A f \in ToSet(s) : owner[f] # "flight" /\ owner[f] # "free"  BY <2>1, ReclaimAssumption
  <2>5. owner' = [f \in Frames |-> IF f \in ToSet(s) THEN "flight" ELSE owner[f]]
    <3>1. owner' = [f \in Frames |-> IF owner[f] = o THEN "flight" ELSE owner[f]]  BY <1>1 DEF Release
    <3>2. \A f \in Frames : f \in ToSet(s) <=> owner[f] = o  BY <2>1
    <3>. QED  BY <3>1, <3>2
  <2>6. /\ pc[h] = "kernel" 
        /\ UNCHANGED <<dirty, zero, stale, staged, zeroing, done, committing, hartVars, holder, pc, loc>>
    BY <1>1 DEF Release, InKernel
  <2>. HIDE DEF mine
  <2>. QED  BY <2>1, <2>3, <2>4, <2>5, <2>6, PendOwned
<1>2. ASSUME NEW f \in Frames, FreeObject(h, f)  PROVE ReclaimTypes' /\ FrameInv'
  <2>1. PICK s : s = <<f>>  OBVIOUS
  <2>2. s \in Seq(Frames) /\ Distinct(s) /\ ToSet(s) = {f}  BY <2>1, SeqFacts
  <2>3. PendAll(h, s) /\ owner' = [owner EXCEPT ![f] = "flight"] /\ owner[f] = Object /\ pc[h] = "kernel"
        /\ UNCHANGED <<dirty, zero, stale, staged, zeroing, done, committing, hartVars, holder, pc, loc>>
    BY <1>2, <2>1 DEF FreeObject, InKernel
  <2>4. \A g \in ToSet(s) : owner[g] # "flight" /\ owner[g] # "free"  BY <2>2, <2>3, ReclaimAssumption
  <2>5. owner' = [g \in Frames |-> IF g \in ToSet(s) THEN "flight" ELSE owner[g]]  BY <2>2, <2>3 DEF ReclaimTypes
  <2>. QED  BY <2>2, <2>3, <2>4, <2>5, PendOwned
<1>. QED  BY <1>1, <1>2

\* A frame in a hart's hands is a frame, on no list, and in no other hart's hands.
LEMMA HeldFacts ==
  ASSUME ReclaimTypes, FrameInv, NEW h \in Harts, pc[h] \in {"zero", "link", "push"},
         NEW top, NEW rank, NEW spot,
         Placed(owner, link, done, committing, pending, Staging, Holding, zero, top, rank, spot)
  PROVE  /\ zeroing[h] \in Frames /\ Holding[h] = {zeroing[h]} /\ owner[zeroing[h]] = "flight"
         /\ spot[zeroing[h]][1] \notin {"pending", "done", "committing"}
         /\ \A i \in Harts \ {h} : zeroing[h] \notin Holding[i]
<1>1. zeroing[h] # None /\ zeroing[h] \in Frames  BY DEF FrameInv, Work, WorkAt, ReclaimTypes, Heads
<1>2. Holding[h] = {zeroing[h]}  BY <1>1, HoldingIs
<1>3. spot[zeroing[h]] = <<"zeroing", h>> /\ owner[zeroing[h]] = "flight"
  <2>1. zeroing[h] \in Holding[h]  BY <1>2
  <2>. QED  BY <2>1, PlacedFacts
<1>4. spot[zeroing[h]][1] \notin {"pending", "done", "committing"}  BY <1>3
<1>5. ASSUME NEW i \in Harts \ {h}  PROVE zeroing[h] \notin Holding[i]
  <2>1. <<"zeroing", h>> # <<"zeroing", i>>  OBVIOUS
  <2>. QED  BY <1>3, <2>1, PlacedFacts
<1>. QED  BY <1>1, <1>2, <1>3, <1>4, <1>5

\* The frame in a hart's hands is zeroed, or its link written.
LEMMA ZeroSteps ==
  ASSUME ReclaimTypes, FrameInv, NEW h \in Harts, Zero(h) \/ WriteLink(h)
  PROVE  ReclaimTypes' /\ FrameInv'
<1>. USE DEF listVars, hartVars
<1>0. pc[h] \in {"zero", "link", "push"}  BY DEF Zero, WriteLink
<1>1. PICK top, rank, spot :
        Placed(owner, link, done, committing, pending, Staging, Holding, zero, top, rank, spot)
  BY DEF FrameInv, AllPlaced
<1>2. PICK f : f = zeroing[h]  OBVIOUS
<1>3. /\ f \in Frames /\ owner[f] = "flight" /\ spot[f][1] \notin {"pending", "done", "committing"}
      /\ \A i \in Harts \ {h} : f \notin Holding[i]
  BY <1>0, <1>1, <1>2, HeldFacts
<1>4. \A i \in Harts : \A g \in Holding[i] : g \in Frames  BY <1>1, PlacedFacts
<1>5. ASSUME UNCHANGED <<owner, dirty, stale, staged, pending, zeroing, done, committing>>,
             link' \in [Frames -> Heads \cup {Junk}], \A g \in Frames \ {f} : link'[g] = link[g],
             zero \subseteq zero', \A i \in Harts \ {h} : pc'[i] = pc[i] /\ loc'[i] = loc[i],
             pc'[h] # "pushed", WorkAt(h)'
      PROVE  FrameInv'
  <2>1. Holding' = Holding /\ Staging' = Staging
    <3>1. \A i \in Harts : pc'[i] = "pushed" <=> pc[i] = "pushed"  BY <1>0, <1>5
    <3>. QED  BY <1>5, <3>1, HoldingSame, StagingSame
  <2>2. Placed(owner', link', done, committing, pending, Staging, Holding, zero', top, rank, spot)
    <3>1. zero \ {f} \subseteq zero'  BY <1>5
    <3>2. \A g \in Frames : owner'[g] = "flight" <=> owner[g] = "flight"  BY <1>5
    <3>. QED  BY <1>1, <1>3, <1>5, <3>1, <3>2, Touch
  <2>3. AllPlaced'  BY <1>5, <2>1, <2>2 DEF AllPlaced
  <2>4. ZeroIn(owner, link, zero)'
    <3>1. \A g \in Frames : owner'[g] = "free" =>
            owner[g] = "free" /\ link'[g] = link[g] /\ (g \in zero => g \in zero')
      BY <1>3, <1>5
    <3>. QED  BY <1>5, <3>1, ZeroStep DEF FrameInv
  <2>5. Others(h)  BY <1>3, <1>4, <1>5 DEF Others
  <2>6. Work'  BY <1>5, <2>5, WorkStep DEF FrameInv
  <2>7. Stages'  BY <1>5, StagesSame DEF FrameInv
  <2>. QED  BY <2>3, <2>4, <2>6, <2>7 DEF FrameInv
<1>6. CASE Zero(h)
  <2>1. /\ zero' = zero \cup {f} /\ link' = [link EXCEPT ![f] = None]
        /\ loc' = [loc EXCEPT ![h].head = done[h]] /\ pc' = [pc EXCEPT ![h] = "link"]
        /\ UNCHANGED <<owner, dirty, stale, listVars, hartVars, holder>>
    BY <1>2, <1>6 DEF Zero, Go
  <2>2. /\ link' \in [Frames -> Heads \cup {Junk}] /\ \A g \in Frames \ {f} : link'[g] = link[g]
        /\ zero' \subseteq Frames
    BY <1>3, <2>1 DEF ReclaimTypes, Heads
  <2>3. /\ pc'[h] = "link" /\ \A i \in Harts \ {h} : pc'[i] = pc[i] /\ loc'[i] = loc[i]
        /\ loc' \in [Harts -> [head : Heads, more : BOOLEAN, wake : Harts \cup {Nobody}]]
    BY <2>1, ZenonT(60) DEF ReclaimTypes
  <2>4. WorkAt(h)'  BY <1>2, <1>3, <2>1, <2>3, Basics DEF WorkAt
  <2>5. ReclaimTypes'
    <3>1. pc' \in [Harts -> InIdle \cup {"user", "kernel", "unmap", "reclaim", "wait", "waithalt"}]
      BY <2>1 DEF ReclaimTypes, InIdle
    <3>. QED  BY <2>1, <2>2, <2>3, <3>1 DEF ReclaimTypes
  <2>. QED  BY <1>5, <2>1, <2>2, <2>3, <2>4, <2>5
<1>7. CASE WriteLink(h)
  <2>1. /\ pc[h] = "link" /\ link' = [link EXCEPT ![f] = loc[h].head] /\ pc' = [pc EXCEPT ![h] = "push"]
        /\ UNCHANGED <<owner, dirty, zero, stale, listVars, hartVars, holder, loc>>
    BY <1>2, <1>7 DEF WriteLink, Go
  <2>2. loc[h].head \in Heads  BY DEF ReclaimTypes
  <2>3. /\ link' \in [Frames -> Heads \cup {Junk}] /\ \A g \in Frames \ {f} : link'[g] = link[g]
        /\ link'[f] = loc[h].head
    BY <1>3, <2>1, <2>2 DEF ReclaimTypes
  <2>4. pc'[h] = "push" /\ \A i \in Harts \ {h} : pc'[i] = pc[i]  BY <2>1 DEF ReclaimTypes
  <2>5. WorkAt(h)'  BY <1>2, <1>3, <2>1, <2>3, <2>4, Basics DEF WorkAt, FrameInv, Work
  <2>6. ReclaimTypes'
    <3>1. pc' \in [Harts -> InIdle \cup {"user", "kernel", "unmap", "reclaim", "wait", "waithalt"}]
      BY <2>1 DEF ReclaimTypes, InIdle
    <3>. QED  BY <2>1, <2>3, <3>1 DEF ReclaimTypes
  <2>. QED  BY <1>5, <2>1, <2>3, <2>4, <2>5, <2>6
<1>. QED  BY <1>6, <1>7

\* The compare and exchange, and the step after it.
LEMMA PushSteps ==
  ASSUME ReclaimTypes, FrameInv, NEW h \in Harts, Push(h) \/ Pushed(h)
  PROVE  ReclaimTypes' /\ FrameInv'
<1>. USE DEF frameVars, hartVars
<1>0. WorkAt(h)  BY DEF FrameInv, Work
<1>1. PICK top, rank, spot :
        Placed(owner, link, done, committing, pending, Staging, Holding, zero, top, rank, spot)
  BY DEF FrameInv, AllPlaced
<1>2. CASE Push(h) /\ done[h] = loc[h].head
  <2>1. /\ pc[h] = "push" /\ done' = [done EXCEPT ![h] = zeroing[h]] /\ pc' = [pc EXCEPT ![h] = "pushed"]
        /\ loc' = [loc EXCEPT ![h].head = None]
        /\ UNCHANGED <<frameVars, staged, pending, zeroing, committing, hartVars, holder>>
    BY <1>2 DEF Push, Go
  <2>2. PICK f : f = zeroing[h]  OBVIOUS
  <2>3. f \in Frames /\ Holding[h] = {f}  BY <1>1, <2>1, <2>2, HeldFacts
  <2>4. link[f] = done[h] /\ f \in zero  BY <1>0, <1>2, <2>1, <2>2 DEF WorkAt
  <2>5. /\ pc'[h] = "pushed" /\ \A i \in Harts \ {h} : pc'[i] = pc[i] /\ loc'[i] = loc[i]
        /\ loc' \in [Harts -> [head : Heads, more : BOOLEAN, wake : Harts \cup {Nobody}]]
    <3>1. pc'[h] = "pushed" /\ \A i \in Harts \ {h} : pc'[i] = pc[i]  BY <2>1 DEF ReclaimTypes
    <3>2. \A i \in Harts \ {h} : loc'[i] = loc[i]  BY <2>1 DEF ReclaimTypes
    <3>3. loc' \in [Harts -> [head : Heads, more : BOOLEAN, wake : Harts \cup {Nobody}]]
      BY <2>1, ZenonT(60) DEF ReclaimTypes, Heads
    <3>. QED  BY <3>1, <3>2, <3>3
  <2>6. done'[h] = f /\ (\A i \in Harts \ {h} : done'[i] = done[i]) /\ done' \in [Harts -> Heads]
    BY <2>1, <2>2, <2>3 DEF ReclaimTypes, Heads
  <2>7. Holding'[h] = {} /\ \A i \in Harts \ {h} : Holding'[i] = Holding[i]
    BY <2>1, <2>5 DEF Holding
  <2>8. \E top2, rank2, spot2 :
          Placed(owner, link, done', committing, pending, Staging, Holding', zero, top2, rank2, spot2)
    BY <1>1, <2>3, <2>4, <2>6, <2>7, PushDone
  <2>9. Staging' = Staging  BY <2>1, StagingSame
  <2>10. AllPlaced'  BY <2>1, <2>8, <2>9 DEF AllPlaced
  <2>11. ZeroIn(owner, link, zero)'  BY <2>1 DEF ZeroIn, FrameInv
  <2>12. Others(h)  BY <2>1, <2>5 DEF Others
  <2>13. WorkAt(h)'  BY <2>1, <2>2, <2>3, <2>5, Basics DEF WorkAt
  <2>14. Work'  BY <2>12, <2>13, WorkStep DEF FrameInv
  <2>15. Stages'  BY <2>1, StagesSame DEF FrameInv
  <2>16. ReclaimTypes'
    <3>1. pc' \in [Harts -> InIdle \cup {"user", "kernel", "unmap", "reclaim", "wait", "waithalt"}]
      BY <2>1 DEF ReclaimTypes, InIdle
    <3>. QED  BY <2>1, <2>5, <2>6, <3>1 DEF ReclaimTypes
  <2>. QED  BY <2>10, <2>11, <2>14, <2>15, <2>16 DEF FrameInv
<1>3. CASE Push(h) /\ done[h] # loc[h].head
  <2>1. /\ pc[h] = "push" /\ pc' = [pc EXCEPT ![h] = "link"] /\ loc' = [loc EXCEPT ![h].head = done[h]]
        /\ UNCHANGED <<frameVars, staged, pending, zeroing, done, committing, hartVars, holder>>
    BY <1>3 DEF Push, Go
  <2>2. /\ pc'[h] = "link" /\ \A i \in Harts \ {h} : pc'[i] = pc[i] /\ loc'[i] = loc[i]
        /\ loc' \in [Harts -> [head : Heads, more : BOOLEAN, wake : Harts \cup {Nobody}]]
    BY <2>1, ZenonT(60) DEF ReclaimTypes
  <2>3. WorkAt(h)'  BY <1>0, <2>1, <2>2 DEF WorkAt
  <2>4. ReclaimTypes'
    <3>1. pc' \in [Harts -> InIdle \cup {"user", "kernel", "unmap", "reclaim", "wait", "waithalt"}]
      BY <2>1 DEF ReclaimTypes, InIdle
    <3>. QED  BY <2>1, <2>2, <3>1 DEF ReclaimTypes
  <2>. QED  BY <2>1, <2>2, <2>3, <2>4, Quiet DEF listVars
<1>4. CASE Pushed(h)
  <2>1. /\ pc[h] = "pushed" /\ zeroing' = [zeroing EXCEPT ![h] = None] /\ pc' = [pc EXCEPT ![h] = "tell"]
        /\ UNCHANGED <<frameVars, staged, pending, done, committing, hartVars, holder, loc>>
    BY <1>4 DEF Pushed, Go
  <2>2. /\ pc'[h] = "tell" /\ zeroing'[h] = None /\ zeroing' \in [Harts -> Heads]
        /\ \A i \in Harts \ {h} : pc'[i] = pc[i] /\ zeroing'[i] = zeroing[i]
    BY <2>1 DEF ReclaimTypes, Heads
  <2>3. Holding' = Holding
    <3>1. \A i \in Harts : Holding'[i] = Holding[i]  BY <2>1, <2>2 DEF Holding
    <3>. QED  BY <3>1 DEF Holding
  <2>4. AllPlaced'
    <3>1. Staging' = Staging  BY <2>1, StagingSame
    <3>. QED  BY <1>1, <2>1, <2>3, <3>1 DEF AllPlaced
  <2>5. ZeroIn(owner, link, zero)'  BY <2>1 DEF ZeroIn, FrameInv
  <2>6. Others(h)  BY <2>1, <2>2 DEF Others
  <2>7. WorkAt(h)'  BY <2>2 DEF WorkAt
  <2>8. Work'  BY <2>6, <2>7, WorkStep DEF FrameInv
  <2>9. Stages'  BY <2>1, StagesSame DEF FrameInv
  <2>10. ReclaimTypes'
    <3>1. pc' \in [Harts -> InIdle \cup {"user", "kernel", "unmap", "reclaim", "wait", "waithalt"}]
      BY <2>1 DEF ReclaimTypes, InIdle
    <3>. QED  BY <2>1, <2>2, <3>1 DEF ReclaimTypes
  <2>. QED  BY <2>4, <2>5, <2>8, <2>9, <2>10 DEF FrameInv
<1>. QED  BY <1>2, <1>3, <1>4

\* A store through a translation not shot down yet.
LEMMA StaleStep ==
  ASSUME ReclaimTypes, FrameInv, NEW f \in Frames, StaleStore(f)
  PROVE  ReclaimTypes' /\ FrameInv'
<1>. USE DEF listVars, hartVars
<1>0. /\ link' = [link EXCEPT ![f] = Junk] /\ zero' = zero \ {f}
      /\ UNCHANGED <<owner, dirty, stale, listVars, hartVars, holder, pc, loc>>
  BY DEF StaleStore
<1>1. PICK top, rank, spot :
        Placed(owner, link, done, committing, pending, Staging, Holding, zero, top, rank, spot)
  BY DEF FrameInv, AllPlaced
<1>2. PICK i \in Harts : f \in Staging[i]  BY HoldingIs DEF StaleStore, FrameInv, Stages
<1>3. spot[f] = <<"staged", i>> /\ owner[f] = "flight"  BY <1>1, <1>2, PlacedFacts
<1>4. spot[f][1] \notin {"pending", "done", "committing"}  BY <1>3
<1>5. \A j \in Harts : \A g \in Holding[j] : g \in Frames /\ g # f
  <2>1. \A j \in Harts : \A g \in Holding[j] : g \in Frames /\ g \notin Staging[i]  BY <1>1, PlacedFacts
  <2>. QED  BY <1>2, <2>1
<1>6. link' \in [Frames -> Heads \cup {Junk}] /\ \A g \in Frames \ {f} : link'[g] = link[g]
  BY <1>0 DEF ReclaimTypes
<1>7. Placed(owner', link', done, committing, pending, Staging, Holding, zero', top, rank, spot)
  <2>1. zero \ {f} \subseteq zero'  BY <1>0
  <2>2. \A g \in Frames : owner'[g] = "flight" <=> owner[g] = "flight"  BY <1>0
  <2>. QED  BY <1>1, <1>4, <1>6, <2>1, <2>2, Touch
<1>8. Holding' = Holding /\ Staging' = Staging  BY <1>0, HoldingSame, StagingSame
<1>9. AllPlaced'  BY <1>0, <1>7, <1>8 DEF AllPlaced
<1>10. ZeroIn(owner, link, zero)'
  <2>1. \A g \in Frames : owner'[g] = "free" =>
          owner[g] = "free" /\ link'[g] = link[g] /\ (g \in zero => g \in zero')
    BY <1>0, <1>3, <1>6
  <2>. QED  BY <1>0, <2>1, ZeroStep DEF FrameInv
<1>11. Others(Nobody)  BY <1>0, <1>5, <1>6 DEF Others
<1>12. Work'  BY <1>11, WorkStep, Basics DEF FrameInv
<1>13. Stages'  BY <1>0, StagesSame DEF FrameInv
<1>14. ReclaimTypes'  BY <1>0, <1>6 DEF ReclaimTypes
<1>. QED  BY <1>9, <1>10, <1>12, <1>13, <1>14 DEF FrameInv

\* The link of a pending list's head is a frame's, or ends it.
LEMMA HeadLink ==
  ASSUME NEW own, NEW lnk, NEW dn, NEW com, NEW pnd, NEW stg, NEW hld, NEW zr, NEW top, NEW rank, NEW spot,
         Placed(own, lnk, dn, com, pnd, stg, hld, zr, top, rank, spot), NEW h \in Harts, pnd[h] \in Frames
  PROVE  lnk[pnd[h]] \in Heads /\ spot[pnd[h]] = <<"pending", h>>
<1>1. Chain(lnk, rank, At(spot, "pending", h), pnd[h])  BY DEF Placed, Chained
<1>2. pnd[h] \in At(spot, "pending", h)  BY <1>1, Basics DEF Chain
<1>3. lnk[pnd[h]] \in At(spot, "pending", h) \cup {None}  BY <1>1, <1>2 DEF Chain
<1>. QED  BY <1>2, <1>3, AtFacts DEF Heads, At

\* The hart to wake is one with frames pending, or nobody.
LEMMA DrainerFacts ==
  ASSUME NEW h \in Harts, NEW rest
  PROVE  \/ NextDrainer(h, rest) = Nobody /\ \A i \in Harts \ {h} : rest[i] = None
         \/ NextDrainer(h, rest) \in Harts
<1>. DEFINE S == {i \in Harts \ {h} : rest[i] # None}
<1>1. CASE S = {}  BY <1>1 DEF NextDrainer
<1>2. CASE S # {}
  <2>1. S \in SUBSET Nat  BY Basics
  <2>2. Min(S) \in S  BY <1>2, <2>1, MinFacts
  <2>3. NextDrainer(h, rest) = Min(S)  BY <1>2 DEF NextDrainer
  <2>. QED  BY <2>2, <2>3
<1>. QED  BY <1>1, <1>2

\* The parts of Idle.
IdleFree(h) == idle \cup {h} = Harts /\ drainer \in {Nobody, h}
IdleTakes(h, f, rest, more, next) ==
  /\ f = IF IdleFree(h) THEN pending[h] ELSE None
  /\ rest = IF f = None THEN pending ELSE [pending EXCEPT ![h] = link[f]]
  /\ more = (f # None /\ rest[h] # None)
  /\ next = IF IdleFree(h) /\ ~more THEN NextDrainer(h, rest) ELSE Nobody
  /\ holder = h /\ pc[h] = "kernel" /\ idle' = idle \cup {h}
  /\ pending' = rest /\ zeroing' = [zeroing EXCEPT ![h] = f]
  /\ drainer' = IF more THEN h ELSE IF drainer = h THEN Nobody ELSE drainer
  /\ loc' = [loc EXCEPT ![h] = [head |-> None, more |-> more, wake |-> next]]
  /\ pc' = [pc EXCEPT ![h] = IF next # Nobody THEN "handon" ELSE IF f # None THEN "zero" ELSE "halt"]
  /\ UNCHANGED <<frameVars, staged, done, committing, want, ipi>>
LEMMA IdleIs ==
  ASSUME NEW h \in Harts, Idle(h)
  PROVE  \E f, rest, next : \E more \in BOOLEAN : IdleTakes(h, f, rest, more, next)
<1>. DEFINE free  == idle \cup {h} = Harts /\ drainer \in {Nobody, h}
            f     == IF free THEN pending[h] ELSE None
            rest  == IF f = None THEN pending ELSE [pending EXCEPT ![h] = link[f]]
            more  == f # None /\ rest[h] # None
            next  == IF free /\ ~more THEN NextDrainer(h, rest) ELSE Nobody
<1>1. more \in BOOLEAN  OBVIOUS
<1>2. IdleTakes(h, f, rest, more, next)  BY DEF Idle, IdleTakes, IdleFree, InKernel, Go
<1>. HIDE DEF f, rest, more, next
<1>. QED  BY <1>1, <1>2

\* A hart goes idle, and takes a frame to zero or none.
LEMMA IdleStep ==
  ASSUME ReclaimTypes, FrameInv, NEW h \in Harts, Idle(h)
  PROVE  ReclaimTypes' /\ FrameInv'
<1>. USE DEF frameVars
<1>0. WorkAt(h)  BY DEF FrameInv, Work
<1>1. PICK top, rank, spot :
        Placed(owner, link, done, committing, pending, Staging, Holding, zero, top, rank, spot)
  BY DEF FrameInv, AllPlaced
<1>i. PICK f, rest, next : \E more \in BOOLEAN : IdleTakes(h, f, rest, more, next)  BY IdleIs
<1>2. PICK more \in BOOLEAN : IdleTakes(h, f, rest, more, next)  BY <1>i
<1>3. /\ pc[h] = "kernel" /\ idle' = idle \cup {h}
      /\ pending' = rest /\ zeroing' = [zeroing EXCEPT ![h] = f]
      /\ drainer' = IF more THEN h ELSE IF drainer = h THEN Nobody ELSE drainer
      /\ loc' = [loc EXCEPT ![h] = [head |-> None, more |-> more, wake |-> next]]
      /\ pc' = [pc EXCEPT ![h] = IF next # Nobody THEN "handon" ELSE IF f # None THEN "zero" ELSE "halt"]
      /\ UNCHANGED <<frameVars, staged, done, committing, want, ipi>>
  BY <1>2 DEF IdleTakes
<1>4. next \in Harts \cup {Nobody}  BY <1>2, DrainerFacts DEF IdleTakes
<1>5. f = None \/ (f = pending[h] /\ f \in Frames)  BY <1>2 DEF IdleTakes, ReclaimTypes, Heads
<1>6. zeroing[h] = None /\ Holding[h] = {}  BY <1>0, <1>3, HoldingIs DEF WorkAt
<1>7. /\ pc'[h] = IF next # Nobody THEN "handon" ELSE IF f # None THEN "zero" ELSE "halt"
      /\ \A i \in Harts \ {h} : pc'[i] = pc[i]
      /\ pc' \in [Harts -> InIdle \cup {"user", "kernel", "unmap", "reclaim", "wait", "waithalt"}]
  BY <1>3 DEF ReclaimTypes, InIdle
<1>8. /\ loc'[h] = [head |-> None, more |-> more, wake |-> next] /\ \A i \in Harts \ {h} : loc'[i] = loc[i]
      /\ loc' \in [Harts -> [head : Heads, more : BOOLEAN, wake : Harts \cup {Nobody}]]
  BY <1>3, <1>4 DEF ReclaimTypes, Heads
<1>9. zeroing'[h] = f /\ (\A i \in Harts \ {h} : zeroing'[i] = zeroing[i]) /\ zeroing' \in [Harts -> Heads]
  BY <1>3, <1>5 DEF ReclaimTypes, Heads
<1>10. drainer' \in Harts \cup {Nobody} /\ idle' \subseteq Harts  BY <1>3 DEF ReclaimTypes
<1>11. loc'[h].wake = next  BY <1>8
<1>12. WorkAt(h)'
  <2>1. pc'[h] = "handon" => next \in Harts  BY <1>4, <1>7
  <2>2. pc'[h] \in {"handon", "zero", "halt"} /\ (pc'[h] = "zero" => f # None) /\ (pc'[h] = "halt" => f = None)
    BY <1>7
  <2>. QED  BY <1>9, <1>11, <2>1, <2>2 DEF WorkAt
<1>13. CASE f = None
  <2>1. pending' = pending  BY <1>2, <1>13 DEF IdleTakes
  <2>2. zeroing' = zeroing
    <3>1. \A i \in Harts : zeroing'[i] = zeroing[i]  BY <1>6, <1>9, <1>13
    <3>. QED  BY <1>9, <3>1 DEF ReclaimTypes
  <2>3. ReclaimTypes'  BY <1>3, <1>7, <1>8, <1>10, <2>1, <2>2 DEF ReclaimTypes
  <2>4. pc'[h] # "pushed" /\ pc[h] # "pushed" /\ UNCHANGED <<frameVars, listVars>>
    BY <1>3, <1>7, <2>1, <2>2 DEF listVars
  <2>. QED  BY <1>7, <1>8, <1>12, <2>3, <2>4, Quiet
<1>14. CASE f # None
  <2>1. f = pending[h] /\ f \in Frames /\ pending' = [pending EXCEPT ![h] = link[f]]
    BY <1>2, <1>5, <1>14 DEF IdleTakes
  <2>2. link[f] \in Heads  BY <1>1, <2>1, HeadLink
  <2>3. /\ pending'[h] = link[f] /\ \A i \in Harts \ {h} : pending'[i] = pending[i]
        /\ pending' \in [Harts -> Heads]
    BY <2>1, <2>2 DEF ReclaimTypes
  <2>4. Holding'[h] = {f} /\ \A i \in Harts \ {h} : Holding'[i] = Holding[i]
    BY <1>7, <1>9, <1>14 DEF Holding
  <2>5. PICK pnd2, hld2, sp2 : pnd2 = pending' /\ hld2 = Holding' /\ sp2 = Moved(spot, {f}, <<"zeroing", h>>)  OBVIOUS
  <2>6. Placed(owner, link, done, committing, pending', Staging, Holding', zero, top, rank, sp2)
    <3>1. pnd2[h] = link[f] /\ (\A i \in Harts \ {h} : pnd2[i] = pending[i]) /\ pending[h] = f /\ f \in Frames
      BY <2>1, <2>3, <2>5
    <3>2. hld2[h] = {f} /\ \A i \in Harts \ {h} : hld2[i] = Holding[i]  BY <2>4, <2>5
    <3>3. Placed(owner, link, done, committing, pnd2, Staging, hld2, zero, top, rank,
                 Moved(spot, {f}, <<"zeroing", h>>))
      BY <1>1, <1>6, <3>1, <3>2, TakeHeld
    <3>. QED  BY <2>5, <3>3
  <2>7. Staging' = Staging  BY <1>3, StagingSame
  <2>8. AllPlaced'  BY <1>3, <2>6, <2>7 DEF AllPlaced
  <2>9. ZeroIn(owner, link, zero)'  BY <1>3 DEF ZeroIn, FrameInv
  <2>10. Others(h)  BY <1>3, <1>7, <1>8, <1>9 DEF Others
  <2>11. Work'  BY <1>12, <2>10, WorkStep DEF FrameInv
  <2>12. Stages'  BY <1>3, StagesSame DEF FrameInv
  <2>13. ReclaimTypes'  BY <1>3, <1>7, <1>8, <1>9, <1>10, <2>3 DEF ReclaimTypes
  <2>. QED  BY <2>8, <2>9, <2>11, <2>12, <2>13 DEF FrameInv
<1>. QED  BY <1>13, <1>14

\* A turn of the allocation that finds the bitmap empty.
LEMMA TurnStep ==
  ASSUME ReclaimTypes, FrameInv, NEW h \in Harts, NEW o \in Pids \cup {Object}, ReclaimTurn(h, o)
  PROVE  ReclaimTypes' /\ FrameInv'
<1>0. WorkAt(h) /\ pc[h] = "reclaim"  BY DEF FrameInv, Work, ReclaimTurn
<1>1. PICK s \in States :
        /\ s = Commit(State) /\ ZeroIn(s.owner, s.link, zero)
        /\ \E top, rank, spot :
             Placed(s.owner, s.link, s.done, s.committing, pending, Staging, Holding, zero, top, rank, spot)
        /\ \A i \in Harts : \A f \in Holding[i] : s.link[f] = link[f]
  BY Commits
<1>2. PICK top, rank, spot :
        Placed(s.owner, s.link, s.done, s.committing, pending, Staging, Holding, zero, top, rank, spot)
  BY <1>1
<1>3. /\ s.owner \in [Frames -> Owners] /\ s.link \in [Frames -> Heads \cup {Junk}]
      /\ s.done \in [Harts -> Heads] /\ s.committing \in Heads
  BY DEF States
<1>4. /\ done' = s.done /\ committing' = s.committing
      /\ UNCHANGED <<stale, staged, zeroing, drainer, idle, ipi, holder, loc>>
  BY <1>1 DEF ReclaimTurn
<1>5. Staging' = Staging /\ Stages'  BY <1>4, StagingSame, StagesSame DEF FrameInv
<1>. DEFINE own == {i \in Harts : pending[i] # None}
            from == IF h \in own THEN h ELSE Min(own)
            f == pending[from]
<1>6. ASSUME pc'[h] \in {"kernel", "reclaim", "wait"}, \A i \in Harts \ {h} : pc'[i] = pc[i],
             \E rank2, spot2 : Placed(owner', link', s.done, s.committing, pending', Staging, Holding, zero', top, rank2, spot2),
             ZeroIn(owner, link, zero)',
             \A i \in Harts : \A g \in Holding[i] : link'[g] = link[g] /\ (g \in zero => g \in zero')
      PROVE  FrameInv'
  <2>1. Holding' = Holding
    <3>1. \A i \in Harts : pc'[i] = "pushed" <=> pc[i] = "pushed"  BY <1>0, <1>6
    <3>. QED  BY <1>4, <3>1, HoldingSame
  <2>2. AllPlaced'  BY <1>4, <1>5, <1>6, <2>1 DEF AllPlaced
  <2>3. Others(h)  BY <1>4, <1>6 DEF Others
  <2>4. WorkAt(h)'  BY <1>0, <1>4, <1>6 DEF WorkAt
  <2>5. Work'  BY <2>3, <2>4, WorkStep DEF FrameInv
  <2>. QED  BY <1>5, <1>6, <2>2, <2>5 DEF FrameInv
<1>7. ASSUME pc' \in [Harts -> InIdle \cup {"user", "kernel", "unmap", "reclaim", "wait", "waithalt"}],
             owner' \in [Frames -> Owners], link' \in [Frames -> Heads \cup {Junk}], pending' \in [Harts -> Heads],
             dirty' \subseteq Frames, zero' \subseteq Frames, want' \in Harts \cup {Nobody}
      PROVE  ReclaimTypes'
  BY <1>3, <1>4, <1>7 DEF ReclaimTypes
<1>8. CASE /\ \E g \in Frames : s.owner[g] = "free"
           /\ TakeFrom(s.owner, s.link, o) /\ Go(h, "kernel") /\ UNCHANGED <<pending, want>>
  <2>1. /\ Placed(owner', link', s.done, s.committing, pending, Staging, Holding, zero', top, rank, spot)
        /\ ZeroIn(owner, link, zero)'
        /\ owner' \in [Frames -> Owners] /\ link' \in [Frames -> Heads \cup {Junk}]
        /\ dirty' \subseteq Frames /\ zero' \subseteq Frames
        /\ \A i \in Harts : \A g \in Holding[i] : link'[g] = s.link[g] /\ (g \in zero => g \in zero')
    BY <1>1, <1>2, <1>3, <1>8, TakeStep
  <2>2. /\ pc'[h] = "kernel" /\ \A i \in Harts \ {h} : pc'[i] = pc[i]
        /\ pc' \in [Harts -> InIdle \cup {"user", "kernel", "unmap", "reclaim", "wait", "waithalt"}]
    BY <1>8 DEF Go, ReclaimTypes
  <2>3. FrameInv'  BY <1>1, <1>6, <1>8, <2>1, <2>2
  <2>4. ReclaimTypes'
    <3>1. pending' \in [Harts -> Heads] /\ want' \in Harts \cup {Nobody}  BY <1>8 DEF ReclaimTypes
    <3>. QED  BY <1>7, <2>1, <2>2, <3>1
  <2>. QED  BY <2>3, <2>4
<1>9. ASSUME owner' = s.owner, link' = s.link, UNCHANGED <<dirty, zero, pending>>, want' \in Harts \cup {Nobody},
             Go(h, "kernel") \/ Go(h, "wait")
      PROVE  ReclaimTypes' /\ FrameInv'
  <2>1. /\ pc'[h] \in {"kernel", "wait"} /\ \A i \in Harts \ {h} : pc'[i] = pc[i]
        /\ pc' \in [Harts -> InIdle \cup {"user", "kernel", "unmap", "reclaim", "wait", "waithalt"}]
    BY <1>9 DEF Go, ReclaimTypes
  <2>2. ZeroIn(owner, link, zero)'  BY <1>1, <1>9 DEF ZeroIn
  <2>3. Placed(owner', link', s.done, s.committing, pending', Staging, Holding, zero', top, rank, spot)  BY <1>2, <1>9
  <2>4. FrameInv'  BY <1>1, <1>6, <1>9, <2>1, <2>2, <2>3
  <2>5. ReclaimTypes'
    <3>1. pending' \in [Harts -> Heads] /\ dirty' \subseteq Frames /\ zero' \subseteq Frames  BY <1>9 DEF ReclaimTypes
    <3>. QED  BY <1>3, <1>7, <1>9, <2>1, <3>1
  <2>. QED  BY <2>4, <2>5
<1>10. CASE /\ own # {} /\ pending' = [pending EXCEPT ![from] = s.link[f]]
            /\ owner' = [s.owner EXCEPT ![f] = "free"] /\ link' = [s.link EXCEPT ![f] = None]
            /\ zero' = zero \cup {f} /\ UNCHANGED <<dirty, want, pc>>
  <2>1. from \in own
    <3>1. own \in SUBSET Nat  BY Basics
    <3>. HIDE DEF own
    <3>2. own # {} => Min(own) \in own  BY <3>1, MinFacts
    <3>. QED  BY <1>10, <3>2
  <2>2. PICK i \in Harts : i = from  BY <2>1
  <2>3. PICK g : g = f  OBVIOUS
  <2>4. g \in Frames /\ pending[i] = g  BY <2>1, <2>2, <2>3 DEF ReclaimTypes, Heads
  <2>5. /\ pending' = [pending EXCEPT ![i] = s.link[g]]
        /\ owner' = [s.owner EXCEPT ![g] = "free"] /\ link' = [s.link EXCEPT ![g] = None]
        /\ zero' = zero \cup {g} /\ UNCHANGED <<dirty, want, pc>>
    BY <1>10, <2>2, <2>3
  <2>. HIDE DEF own, from, f
  <2>6. s.link[g] \in Heads /\ spot[g] = <<"pending", i>>  BY <1>2, <2>4, HeadLink
  <2>7. pending'[i] = s.link[g] /\ (\A j \in Harts \ {i} : pending'[j] = pending[j]) /\ pending' \in [Harts -> Heads]
    BY <2>5, <2>6 DEF ReclaimTypes
  <2>8. /\ \A x \in Frames \ {g} : owner'[x] = s.owner[x] /\ link'[x] = s.link[x]
        /\ owner'[g] = "free" /\ link'[g] = None
        /\ owner' \in [Frames -> Owners] /\ link' \in [Frames -> Heads \cup {Junk}]
    BY <1>3, <2>4, <2>5 DEF Owners, Heads
  <2>9. PICK ow, ln, pn, zr : ow = owner' /\ ln = link' /\ pn = pending' /\ zr = zero'  OBVIOUS
  <2>10. Placed(ow, ln, s.done, s.committing, pn, Staging, Holding, zr, top, rank, Moved(spot, {g}, Nowhere))
    <3>1. ow[g] # "flight" /\ \A x \in Frames \ {g} : ow[x] = s.owner[x] /\ ln[x] = s.link[x]  BY <2>8, <2>9
    <3>2. pn[i] = s.link[g] /\ \A j \in Harts \ {i} : pn[j] = pending[j]  BY <2>7, <2>9
    <3>3. zero \subseteq zr  BY <2>5, <2>9
    <3>. QED  BY <1>2, <2>4, <3>1, <3>2, <3>3, FreePending
  <2>11. ZeroIn(owner, link, zero)'
    <3>. SUFFICES ASSUME NEW x \in Frames \ dirty', owner'[x] = "free"  PROVE x \in zero' /\ link'[x] = None  BY DEF ZeroIn
    <3>1. CASE x = g  BY <2>5, <2>8, <3>1
    <3>2. CASE x # g  BY <1>1, <2>5, <2>8, <3>2 DEF ZeroIn
    <3>. QED  BY <3>1, <3>2
  <2>12. \A j \in Harts : \A x \in Holding[j] : link'[x] = link[x] /\ (x \in zero => x \in zero')
    <3>1. \A j : <<"pending", i>> # <<"zeroing", j>>  OBVIOUS
    <3>2. \A j \in Harts : \A x \in Holding[j] : x \in Frames /\ spot[x] = <<"zeroing", j>>  BY <1>2, PlacedFacts
    <3>3. \A j \in Harts : \A x \in Holding[j] : x \in Frames \ {g}  BY <2>6, <3>1, <3>2
    <3>. QED  BY <1>1, <2>5, <2>8, <3>3
  <2>13. FrameInv'
    <3>1. pc'[h] = "reclaim" /\ \A j \in Harts \ {h} : pc'[j] = pc[j]  BY <1>0, <2>5
    <3>. QED  BY <1>6, <2>9, <2>10, <2>11, <2>12, <3>1
  <2>14. ReclaimTypes'
    <3>1. /\ dirty' \subseteq Frames /\ zero' \subseteq Frames /\ want' \in Harts \cup {Nobody}
          /\ pc' \in [Harts -> InIdle \cup {"user", "kernel", "unmap", "reclaim", "wait", "waithalt"}]
      BY <2>4, <2>5 DEF ReclaimTypes
    <3>. QED  BY <1>7, <2>7, <2>8, <3>1
  <2>. QED  BY <2>13, <2>14
<1>11. \/ /\ \E g \in Frames : s.owner[g] = "free"
          /\ TakeFrom(s.owner, s.link, o) /\ Go(h, "kernel") /\ UNCHANGED <<pending, want>>
       \/ owner' = s.owner /\ link' = s.link /\ Go(h, "kernel") /\ UNCHANGED <<dirty, zero, pending, want>>
       \/ /\ own # {} /\ pending' = [pending EXCEPT ![from] = s.link[f]]
          /\ owner' = [s.owner EXCEPT ![f] = "free"] /\ link' = [s.link EXCEPT ![f] = None]
          /\ zero' = zero \cup {f} /\ UNCHANGED <<dirty, want, pc>>
       \/ owner' = s.owner /\ link' = s.link /\ want' = h /\ Go(h, "wait") /\ UNCHANGED <<dirty, zero, pending>>
  BY <1>1 DEF ReclaimTurn
<1>12. want \in Harts \cup {Nobody}  BY DEF ReclaimTypes
<1>. HIDE DEF own, from, f
<1>. QED  BY <1>8, <1>9, <1>10, <1>11, <1>12

----------------------------------------------------------------------------
(* Draining. *)

\* A hart that is busy after its step leaves no drainer behind and does not make all idle.
LEMMA BusyDrains ==
  ASSUME ReclaimTypes, Drains, NEW h \in Harts, pc'[h] \notin InIdle, \A i \in Harts \ {h} : pc'[i] = pc[i],
         loc' = loc, drainer' = drainer, idle' \subseteq idle, h \notin idle'
  PROVE  Drains'
<1>1. \A i \in idle' : pc'[i] \in InIdle  BY DEF Drains, ReclaimTypes
<1>2. drainer' # Nobody =>
        /\ pc'[drainer'] \notin {"handon", "halt"}
        /\ pc'[drainer'] \in {"zero", "link", "push", "pushed", "tell"} => loc'[drainer'].more
  <2>. SUFFICES ASSUME drainer # Nobody
                PROVE  /\ pc'[drainer] \notin {"handon", "halt"}
                       /\ pc'[drainer] \in {"zero", "link", "push", "pushed", "tell"} => loc[drainer].more
    OBVIOUS
  <2>1. CASE drainer = h  BY <2>1 DEF InIdle
  <2>2. CASE drainer # h
    <3>1. pc'[drainer] = pc[drainer]  BY <2>2 DEF ReclaimTypes
    <3>. QED  BY <3>1 DEF Drains
  <2>. QED  BY <2>1, <2>2
<1>3. idle' # Harts  OBVIOUS
<1>. QED  BY <1>1, <1>2, <1>3 DEF Drains

\* Every step keeps it.
LEMMA DrainsStep ==
  ASSUME ReclaimTypes, FrameInv, Drains, [Next]_vars
  PROVE  Drains'
<1>. USE DEF frameVars, listVars, hartVars, Go
<1>t. /\ idle \subseteq Harts /\ drainer \in Harts \cup {Nobody} /\ DOMAIN pc = Harts
      /\ loc \in [Harts -> [head : Heads, more : BOOLEAN, wake : Harts \cup {Nobody}]]
  BY DEF ReclaimTypes
<1>d. /\ \A i \in idle : pc[i] \in InIdle
      /\ drainer # Nobody => /\ pc[drainer] \notin {"handon", "halt"}
                             /\ pc[drainer] \in {"zero", "link", "push", "pushed", "tell"} => loc[drainer].more
      /\ idle = Harts /\ (\E i \in Harts : pending[i] # None) =>
           drainer # Nobody \/ ipi # {} \/ \E i \in Harts : pc[i] \in {"handon", "acquire"}
  BY DEF Drains
<1>k. {"user", "kernel", "unmap", "reclaim", "wait", "waithalt"} \cap InIdle = {}  BY DEF InIdle
<1>1. ASSUME NEW h \in Harts,
             \/ Enter(h) \/ Leave(h) \/ Shoot(h) \/ Waiting(h) \/ Return(h)
             \/ \E o \in Pids \cup {Object} : Alloc(h, o) \/ Release(h, o)
             \/ \E f \in Frames : Unmap(h, f) \/ FreeObject(h, f)
             \/ \E i \in Harts : WakeIdle(h, i)
      PROVE  Drains'
  <2>1. /\ pc'[h] \in {"user", "kernel", "unmap", "reclaim", "wait", "waithalt"} /\ \A i \in Harts \ {h} : pc'[i] = pc[i]
        /\ loc' = loc /\ drainer' = drainer /\ idle' \subseteq idle /\ h \notin idle'
    <3>1. CASE Enter(h)  BY <3>1, <1>t, <1>d, <1>k DEF Enter
    <3>2. CASE Leave(h)  BY <3>2, <1>t, <1>d, <1>k DEF Leave, InKernel
    <3>3. CASE Shoot(h)  BY <3>3, <1>t, <1>d, <1>k DEF Shoot
    <3>4. CASE WaitTest(h)  BY <3>4, <1>t, <1>d, <1>k DEF WaitTest
    <3>5. CASE WaitHalt(h)  BY <3>5, <1>t, <1>d, <1>k DEF WaitHalt
    <3>6. ASSUME NEW o \in Pids \cup {Object}, ReclaimTurn(h, o)
          PROVE  /\ pc[h] = "reclaim" /\ (pc' = pc \/ Go(h, "kernel") \/ Go(h, "wait"))
                 /\ UNCHANGED <<loc, drainer, idle>>
      BY <3>6 DEF ReclaimTurn
    <3>7. CASE Return(h)  BY <3>7, <1>t DEF Return
    <3>8. ASSUME NEW o \in Pids \cup {Object}, Alloc(h, o)
          PROVE  pc[h] = "kernel" /\ (pc' = pc \/ Go(h, "reclaim")) /\ UNCHANGED <<loc, drainer, idle>>
      BY <3>8 DEF Alloc, InKernel
    <3>9. ASSUME NEW o \in Pids \cup {Object}, Release(h, o)
          PROVE  pc[h] = "kernel" /\ pc' = pc /\ UNCHANGED <<loc, drainer, idle>>
      BY <3>9 DEF Release, InKernel
    <3>10. ASSUME NEW f \in Frames, Unmap(h, f)
           PROVE  pc[h] \in {"kernel", "unmap"} /\ Go(h, "unmap") /\ UNCHANGED <<loc, drainer, idle>>
      BY <3>10 DEF Unmap
    <3>11. ASSUME NEW f \in Frames, FreeObject(h, f)
           PROVE  pc[h] = "kernel" /\ pc' = pc /\ UNCHANGED <<loc, drainer, idle>>
      BY <3>11 DEF FreeObject, InKernel
    <3>12. ASSUME NEW i \in Harts, WakeIdle(h, i)
           PROVE  pc[h] = "kernel" /\ pc' = pc /\ idle' = idle \ {i} /\ UNCHANGED <<loc, drainer>>
      BY <3>12 DEF WakeIdle, InKernel
    <3>13. ASSUME pc[h] \in {"reclaim", "kernel", "unmap"}, idle' \subseteq idle, UNCHANGED <<loc, drainer>>,
                  pc' = pc \/ Go(h, "kernel") \/ Go(h, "wait") \/ Go(h, "reclaim") \/ Go(h, "unmap")
           PROVE  /\ pc'[h] \in {"user", "kernel", "unmap", "reclaim", "wait", "waithalt"}
                  /\ \A i \in Harts \ {h} : pc'[i] = pc[i]
                  /\ loc' = loc /\ drainer' = drainer /\ idle' \subseteq idle /\ h \notin idle'
      BY <3>13, <1>t, <1>d, <1>k
    <3>14. CASE \E o \in Pids \cup {Object} : ReclaimTurn(h, o)  BY <3>6, <3>13, <3>14
    <3>15. CASE \E o \in Pids \cup {Object} : Alloc(h, o) \/ Release(h, o)  BY <3>8, <3>9, <3>13, <3>15
    <3>16. CASE \E f \in Frames : Unmap(h, f) \/ FreeObject(h, f)  BY <3>10, <3>11, <3>13, <3>16
    <3>17. CASE \E i \in Harts : WakeIdle(h, i)  BY <3>12, <3>13, <3>17
    <3>. QED  BY <1>1, <3>1, <3>2, <3>3, <3>4, <3>5, <3>7, <3>14, <3>15, <3>16, <3>17 DEF Waiting
  <2>2. pc'[h] \notin InIdle  BY <1>k, <2>1
  <2>. QED  BY <2>1, <2>2, BusyDrains
<1>2. ASSUME NEW h \in Harts, Idle(h)  PROVE Drains'
  <2>1. PICK f, rest, next : \E more \in BOOLEAN : IdleTakes(h, f, rest, more, next)  BY <1>2, IdleIs
  <2>2. PICK more \in BOOLEAN : IdleTakes(h, f, rest, more, next)  BY <2>1
  <2>3. /\ f = IF IdleFree(h) THEN pending[h] ELSE None
        /\ rest = IF f = None THEN pending ELSE [pending EXCEPT ![h] = link[f]]
        /\ more = (f # None /\ rest[h] # None)
        /\ next = IF IdleFree(h) /\ ~more THEN NextDrainer(h, rest) ELSE Nobody
        /\ idle' = idle \cup {h} /\ pending' = rest
        /\ drainer' = IF more THEN h ELSE IF drainer = h THEN Nobody ELSE drainer
    BY <2>2 DEF IdleTakes
  <2>4. /\ pc'[h] = IF next # Nobody THEN "handon" ELSE IF f # None THEN "zero" ELSE "halt"
        /\ \A i \in Harts \ {h} : pc'[i] = pc[i]
    BY <2>2, <1>t DEF IdleTakes
  <2>5. loc'[h].more = more /\ \A i \in Harts \ {h} : loc'[i] = loc[i]
    <3>1. loc' = [loc EXCEPT ![h] = [head |-> None, more |-> more, wake |-> next]]  BY <2>2 DEF IdleTakes
    <3>2. loc'[h] = [head |-> None, more |-> more, wake |-> next]  BY <1>t, <3>1
    <3>3. \A i \in Harts \ {h} : loc'[i] = loc[i]  BY <1>t, <3>1
    <3>. QED  BY <3>2, <3>3
  <2>6. \A i \in idle' : pc'[i] \in InIdle  BY <1>t, <1>d, <2>3, <2>4 DEF InIdle
  <2>7. drainer' # Nobody =>
          /\ pc'[drainer'] \notin {"handon", "halt"}
          /\ pc'[drainer'] \in {"zero", "link", "push", "pushed", "tell"} => loc'[drainer'].more
    <3>1. CASE more
      <4>1. drainer' = h /\ next = Nobody /\ f # None  BY <2>3, <3>1
      <4>. QED  BY <2>4, <2>5, <3>1, <4>1
    <3>2. CASE ~more /\ drainer' # Nobody
      <4>1. drainer' = drainer /\ drainer \in Harts \ {h}  BY <1>t, <2>3, <3>2
      <4>2. pc'[drainer] = pc[drainer] /\ loc'[drainer] = loc[drainer]  BY <2>4, <2>5, <4>1
      <4>. QED  BY <1>d, <3>2, <4>1, <4>2
    <3>. QED  BY <3>1, <3>2
  <2>8. ASSUME idle' = Harts, \E i \in Harts : pending'[i] # None
        PROVE  drainer' # Nobody \/ \E i \in Harts : pc'[i] \in {"handon", "acquire"}
    <3>1. CASE more  BY <2>3, <3>1, Basics
    <3>2. CASE ~more /\ drainer \notin {Nobody, h}  BY <2>3, <3>2
    <3>3. CASE ~more /\ drainer \in {Nobody, h}
      <4>1. IdleFree(h) /\ next = NextDrainer(h, rest) /\ f = pending[h]  BY <2>3, <2>8, <3>3 DEF IdleFree
      <4>2. rest[h] = None  BY <2>3, <3>3, <4>1
      <4>3. next \in Harts
        <5>1. PICK i \in Harts : rest[i] # None  BY <2>3, <2>8
        <5>2. i \in Harts \ {h}  BY <4>2, <5>1
        <5>. QED  BY <4>1, <5>1, <5>2, DrainerFacts
      <4>4. pc'[h] = "handon"  BY <2>4, <4>3, Basics
      <4>. QED  BY <4>4
    <3>. QED  BY <3>1, <3>2, <3>3
  <2>. QED  BY <2>6, <2>7, <2>8 DEF Drains
<1>3. ASSUME NEW h \in Harts, HandOn(h)  PROVE Drains'
  <2>1. /\ pc[h] = "handon" /\ pc'[h] \in {"zero", "halt"} /\ \A i \in Harts \ {h} : pc'[i] = pc[i] /\ loc'[i] = loc[i]
        /\ UNCHANGED <<idle, drainer, pending>> /\ ipi' = ipi \cup {loc[h].wake}
    BY <1>3, <1>t DEF HandOn
  <2>2. ipi' # {}  BY <2>1
  <2>3. drainer # h \/ drainer = Nobody  BY <1>d, <2>1
  <2>4. \A i \in idle' : pc'[i] \in InIdle  BY <1>t, <1>d, <2>1 DEF InIdle
  <2>. QED  BY <1>t, <1>d, <2>1, <2>2, <2>3, <2>4 DEF Drains
<1>4. ASSUME NEW h \in Harts, Zero(h) \/ WriteLink(h) \/ Push(h) \/ Pushed(h)  PROVE Drains'
  <2>1. /\ pc[h] \in {"zero", "link", "push", "pushed"} /\ pc'[h] \in {"link", "push", "pushed", "tell"}
        /\ \A i \in Harts \ {h} : pc'[i] = pc[i] /\ loc'[i] = loc[i]
        /\ loc'[h].more = loc[h].more /\ UNCHANGED <<idle, drainer, pending, ipi>>
    <3>1. CASE Zero(h)  BY <1>t, <3>1 DEF Zero
    <3>2. CASE WriteLink(h)  BY <1>t, <3>2 DEF WriteLink
    <3>3. CASE Push(h) /\ done[h] = loc[h].head  BY <1>t, <3>3 DEF Push
    <3>4. CASE Push(h) /\ done[h] # loc[h].head  BY <1>t, <3>4 DEF Push
    <3>5. CASE Pushed(h)  BY <1>t, <3>5 DEF Pushed
    <3>. QED  BY <1>4, <3>1, <3>2, <3>3, <3>4, <3>5
  <2>2. \A i \in idle' : pc'[i] \in InIdle  BY <1>t, <1>d, <2>1 DEF InIdle
  <2>3. drainer' # Nobody =>
          /\ pc'[drainer'] \notin {"handon", "halt"}
          /\ pc'[drainer'] \in {"zero", "link", "push", "pushed", "tell"} => loc'[drainer'].more
    <3>1. CASE drainer = h  BY <1>d, <2>1, <3>1
    <3>2. CASE drainer # h  BY <1>t, <1>d, <2>1, <3>2
    <3>. QED  BY <3>1, <3>2
  <2>4. \A i \in Harts : pc[i] \in {"handon", "acquire"} => pc'[i] \in {"handon", "acquire"}  BY <2>1
  <2>5. idle' = Harts /\ (\E i \in Harts : pending'[i] # None) =>
          drainer' # Nobody \/ ipi' # {} \/ \E i \in Harts : pc'[i] \in {"handon", "acquire"}
    BY <1>d, <2>1, <2>4
  <2>. QED  BY <2>2, <2>3, <2>5 DEF Drains
<1>5. ASSUME NEW h \in Harts, Tell(h)  PROVE Drains'
  <2>1. /\ pc[h] = "tell" /\ pc'[h] = (IF loc[h].more THEN "acquire" ELSE "halt")
        /\ \A i \in Harts \ {h} : pc'[i] = pc[i] /\ loc'[i] = loc[i]
        /\ UNCHANGED <<idle, drainer, pending>> /\ ipi \subseteq ipi'
    BY <1>5, <1>t DEF Tell
  <2>2. \A i \in idle' : pc'[i] \in InIdle  BY <1>t, <1>d, <2>1 DEF InIdle
  <2>3. drainer' # Nobody =>
          /\ pc'[drainer'] \notin {"handon", "halt"}
          /\ pc'[drainer'] \in {"zero", "link", "push", "pushed", "tell"} => loc'[drainer'].more
    <3>1. CASE drainer = h  BY <1>d, <2>1, <3>1
    <3>2. CASE drainer # h  BY <1>t, <1>d, <2>1, <3>2
    <3>. QED  BY <3>1, <3>2
  <2>4. \A i \in Harts : pc[i] \in {"handon", "acquire"} => pc'[i] \in {"handon", "acquire"}  BY <2>1
  <2>5. idle' = Harts /\ (\E i \in Harts : pending'[i] # None) =>
          drainer' # Nobody \/ ipi' # {} \/ \E i \in Harts : pc'[i] \in {"handon", "acquire"}
    BY <1>d, <2>1, <2>4
  <2>. QED  BY <2>2, <2>3, <2>5 DEF Drains
<1>6. ASSUME NEW h \in Harts, HaltEnds(h)  PROVE Drains'
  <2>1. /\ pc[h] = "halt" /\ pc'[h] = "acquire" /\ \A i \in Harts \ {h} : pc'[i] = pc[i]
        /\ UNCHANGED <<idle, drainer, loc>>
    BY <1>6, <1>t DEF HaltEnds
  <2>2. \A i \in idle' : pc'[i] \in InIdle  BY <1>t, <1>d, <2>1 DEF InIdle
  <2>3. drainer # h \/ drainer = Nobody  BY <1>d, <2>1
  <2>. QED  BY <1>t, <1>d, <2>1, <2>2, <2>3 DEF Drains
<1>7. CASE (\E f \in Frames : StaleStore(f)) \/ UNCHANGED vars
  BY <1>7, <1>d DEF StaleStore, vars, Drains
<1>. QED  BY <1>1, <1>2, <1>3, <1>4, <1>5, <1>6, <1>7 DEF Next, Outside

----------------------------------------------------------------------------
(* The invariant and what it implies. *)

\* At boot nothing is in flight.
LEMMA InitInv == Init => ReclaimInv
<1>. SUFFICES ASSUME Init PROVE ReclaimInv  OBVIOUS
<1>. USE DEF Init
<1>1. ReclaimTypes  BY DEF ReclaimTypes, Owners, Heads
<1>2. \A h \in Harts : ToSet(staged[h]) = {} /\ Distinct(staged[h])  BY DEF ToSet, Distinct
<1>3. AllPlaced
  <2>. DEFINE rank == [f \in Frames |-> 0]
              spot == [f \in Frames |-> Nowhere]
  <2>1. rank \in [Frames -> 0 .. 0] /\ spot \in [Frames -> Spots] /\ 0 \in Nat  BY SpotFacts
  <2>2. \A h : /\ At(spot, "pending", h) = {} /\ At(spot, "done", h) = {} /\ At(spot, "committing", h) = {}
               /\ At(spot, "staged", h) = {} /\ At(spot, "zeroing", h) = {}
    BY DEF At, Nowhere
  <2>3. Spotted(owner, spot) /\ Clean(zero, spot)  BY DEF Spotted, Clean, Nowhere
  <2>. HIDE DEF rank, spot
  <2>4. Chained(link, pending, "pending", rank, spot) /\ Chained(link, done, "done", rank, spot)
    BY <2>2 DEF Chained, Chain
  <2>5. Chain(link, rank, At(spot, "committing", 0), committing)  BY <2>2 DEF Chain
  <2>6. Sets(Staging, "staged", spot) /\ Sets(Holding, "zeroing", spot)  BY <1>2, <2>2 DEF Sets, Staging, Holding
  <2>7. Placed(owner, link, done, committing, pending, Staging, Holding, zero, 0, rank, spot)
    BY <2>1, <2>3, <2>4, <2>5, <2>6 DEF Placed
  <2>. QED  BY <2>7 DEF AllPlaced
<1>4. ZeroIn(owner, link, zero)  BY DEF ZeroIn
<1>5. Work  BY DEF Work, WorkAt
<1>6. Stages  BY <1>2 DEF Stages
<1>7. Drains  BY DEF Drains
<1>. QED  BY <1>1, <1>3, <1>4, <1>5, <1>6, <1>7 DEF ReclaimInv, FrameInv

\* Every step keeps the types and the frames in place.
LEMMA FramesStep ==
  ASSUME ReclaimTypes, FrameInv, [Next]_vars
  PROVE  ReclaimTypes' /\ FrameInv'
<1>1. ASSUME NEW h \in Harts, Enter(h) \/ Return(h)  PROVE ReclaimTypes' /\ FrameInv'  BY <1>1, CommitSteps
<1>2. ASSUME NEW h \in Harts,
             Leave(h) \/ WaitTest(h) \/ WaitHalt(h) \/ HandOn(h) \/ Tell(h) \/ HaltEnds(h) \/ \E i \in Harts : WakeIdle(h, i)
      PROVE  ReclaimTypes' /\ FrameInv'
  BY <1>2, QuietSteps
<1>3. ASSUME NEW h \in Harts, NEW o \in Pids \cup {Object}, Alloc(h, o)  PROVE ReclaimTypes' /\ FrameInv'
  BY <1>3, AllocStep
<1>4. ASSUME NEW h \in Harts, NEW f \in Frames, Unmap(h, f)  PROVE ReclaimTypes' /\ FrameInv'  BY <1>4, UnmapStep
<1>5. ASSUME NEW h \in Harts, Shoot(h)  PROVE ReclaimTypes' /\ FrameInv'  BY <1>5, ShootStep
<1>6. ASSUME NEW h \in Harts,
             (\E o \in Pids \cup {Object} : Release(h, o)) \/ (\E f \in Frames : FreeObject(h, f))
      PROVE  ReclaimTypes' /\ FrameInv'
  BY <1>6, ReleaseSteps
<1>7. ASSUME NEW f \in Frames, StaleStore(f)  PROVE ReclaimTypes' /\ FrameInv'  BY <1>7, StaleStep
<1>8. ASSUME NEW h \in Harts, NEW o \in Pids \cup {Object}, ReclaimTurn(h, o)  PROVE ReclaimTypes' /\ FrameInv'
  BY <1>8, TurnStep
<1>9. ASSUME NEW h \in Harts, Idle(h)  PROVE ReclaimTypes' /\ FrameInv'  BY <1>9, IdleStep
<1>10. ASSUME NEW h \in Harts, Zero(h) \/ WriteLink(h)  PROVE ReclaimTypes' /\ FrameInv'  BY <1>10, ZeroSteps
<1>11. ASSUME NEW h \in Harts, Push(h) \/ Pushed(h)  PROVE ReclaimTypes' /\ FrameInv'  BY <1>11, PushSteps
<1>12. CASE UNCHANGED vars
  <2>. USE <1>12 DEF vars, frameVars, listVars, hartVars
  <2>1. ReclaimTypes'  BY DEF ReclaimTypes
  <2>2. Holding' = Holding /\ Staging' = Staging  BY HoldingSame, StagingSame
  <2>3. AllPlaced'  BY <2>2 DEF AllPlaced, FrameInv
  <2>4. ZeroIn(owner, link, zero)'  BY DEF ZeroIn, FrameInv
  <2>5. Work'
    <3>1. Others(Nobody)  BY DEF Others
    <3>. QED  BY <3>1, WorkStep, Basics DEF FrameInv
  <2>6. Stages'  BY StagesSame DEF FrameInv
  <2>. QED  BY <2>1, <2>3, <2>4, <2>5, <2>6 DEF FrameInv
<1>. QED
  BY <1>1, <1>2, <1>3, <1>4, <1>5, <1>6, <1>7, <1>8, <1>9, <1>10, <1>11, <1>12 DEF Next, Outside, Waiting

\* The invariant: some placing of the frames in flight makes every list one that ends, what is free is zero, and
\* while all harts idle what is pending has a hart to drain it.
THEOREM Invariance == Spec => []ReclaimInv
<1>1. Init => ReclaimInv  BY InitInv
<1>2. ReclaimInv /\ [Next]_vars => ReclaimInv'  BY FramesStep, DrainsStep DEF ReclaimInv
<1>. QED  BY <1>1, <1>2, PTL DEF Spec

\* I1: every frame in flight is staged, pending, being zeroed, done or being committed, in one of them and once; no
\* other frame is; every list ends and nothing a process stored is followed as a link.
THEOREM FramesInFlightOnce == Spec => []InFlightOnce
<1>1. ReclaimInv => InFlightOnce  BY OnceFromPlaced DEF ReclaimInv
<1>. QED  BY <1>1, Invariance, PTL

\* R81: an allocation is given a zero frame, its link too, but for one never used since boot.
THEOREM FreeFramesZero == Spec => []FreeZero
<1>1. ReclaimInv => FreeZero  BY DEF ReclaimInv, FrameInv, ZeroIn, FreeZero, FreeSet
<1>. QED  BY <1>1, Invariance, PTL

\* With every hart halted and no interrupt to come, no frame is left pending.
THEOREM QuietIsDrained == Spec => []QuietDrained
<1>1. ReclaimInv => QuietDrained
  <2>. SUFFICES ASSUME ReclaimInv, \A h \in Harts : pc[h] = "halt", idle = Harts, ipi = {},
                       NEW h \in Harts, pending[h] # None
                PROVE  FALSE
    BY DEF QuietDrained
  <2>1. drainer # Nobody  BY DEF ReclaimInv, Drains
  <2>2. drainer \in Harts  BY <2>1 DEF ReclaimInv, ReclaimTypes
  <2>. QED  BY <2>1, <2>2 DEF ReclaimInv, Drains
<1>. QED  BY <1>1, Invariance, PTL
=============================================================================
