----------------------------- MODULE TimeProofs -----------------------------
(***************************************************************************)
(* The kernel's time, given out and waited for.                             *)
(*                                                                          *)
(* The timer for every number of harts, threads and budgets: no deadline is *)
(* missed, nor a timeout but one begun for a turn in its taker's entry      *)
(* since the hint was last recomputed (NotedCovered), and the hints the     *)
(* re-arm works from are of just those (NotedHint).  The inductive          *)
(* invariant adds what the two rest on: each budget's cache is the earliest *)
(* of all its waits, the unnoted too, so a recomputation takes those in;    *)
(* waits and turns belong to budgets that live; a hart's timer is set for   *)
(* what it is armed for but for the hart in the kernel, whose interrupt     *)
(* disarmed it; and only the lock's holder works.  What Subtree computes    *)
(* matters to none of it.                                                   *)
(*                                                                          *)
(* The arithmetic of the stride queue for every weight, pass and runtime:   *)
(* a charge, a weight change and a destruction mint no time and lose none,  *)
(* though each divides by another weight and keeps a remainder.             *)
(***************************************************************************)
EXTENDS Timer, StrideMath, WellFoundedInduction, TLAPS

----------------------------------------------------------------------------
(* The invariant. *)

\* The instants an item may have.
Instants == Times \cup {Never}

\* The waits w of the threads of S, each with the budget that pays.
WaitItems(w, S) == {<<w[t], BudgetOf[t]>> : t \in S}

\* The timeouts listed, and the ones noted.
Listed == WaitItems(waits, Threads)
Waited == WaitItems(waits, Threads \ unnoted)

HintType == [at : Instants, payer : Budgets \cup {None}]

WaitTypes ==
  /\ waits \in [Threads -> Instants] /\ cache \in [Budgets -> Instants]
  /\ deadline \in [Budgets -> Instants] /\ deadline[Root] = Never /\ live \subseteq Budgets
  /\ turns \subseteq Threads /\ unnoted \subseteq Threads
TimerTypes ==
  /\ WaitTypes /\ now \in 0 .. MaxTime
  /\ threads \in HintType /\ budgets \in HintType /\ ended \in BOOLEAN
  /\ slice \in [Harts -> Nat \ {0}] /\ moved \in [Harts -> Nat \ {0}]
  /\ armed \in [Harts -> Nat] /\ timer \in [Harts -> Nat]
  /\ \A h \in Harts : paused[h] # None => paused[h] \in Nat /\ now + paused[h] > 0
  /\ DOMAIN paused = Harts
  /\ cur \in [Harts -> live \cup {None}]
  /\ at \in [Harts -> {"user", "idle", "left", "kernel", "done"}] /\ holder \in Harts \cup {None}

\* With waits w, each cache of c is its budget's earliest wait.
EarliestIn(w, c, b) ==
  /\ \A t \in Threads : BudgetOf[t] = b => c[b] <= w[t]
  /\ c[b] # Never => \E t \in Threads : BudgetOf[t] = b /\ w[t] = c[b]
CachedIn(w, c) == \A b \in Budgets : EarliestIn(w, c, b)
Cached == CachedIn(waits, cache)

\* Whoever waits is of a budget that lives, and who is unnoted waits.
WaitersLive ==
  /\ \A t \in Threads : waits[t] # Never \/ t \in turns => BudgetOf[t] \in live
  /\ \A t \in unnoted : waits[t] # Never

\* A hart's timer is set for what the hart is armed for, unless the hart just took an
\* interrupt of it, or expired what was due.
Set == \A h \in Harts : armed[h] = timer[h] \/ (h = holder /\ armed[h] = 0)

\* Only the lock's holder is in the kernel.
Sections == \A h \in Harts : at[h] \in {"kernel", "done"} => holder = h

TimerInv == TimerTypes /\ Cached /\ WaitersLive /\ NotedHint /\ Set /\ Sections /\ NotedCovered

----------------------------------------------------------------------------
(* Minima, and hints. *)

\* The naturals are well founded.
LEMMA NatWellFounded == IsWellFoundedOn({ss \in Nat \X Nat : ss[1] < ss[2]}, Nat)
BY NatLessThanWellFounded DEF OpToRel

\* A nonempty set of naturals has a least element, and Min is it.
LEMMA MinFacts ==
  ASSUME NEW S \in SUBSET Nat, S # {}
  PROVE  Min(S) \in S /\ \A x \in S : Min(S) <= x
<1>1. PICK R : R = {ss \in Nat \X Nat : ss[1] < ss[2]}  OBVIOUS
<1>2. IsWellFoundedOn(R, Nat)  BY <1>1, NatWellFounded
<1>3. \A x, y \in Nat : <<y, x>> \in R <=> y < x  BY <1>1
<1>4. PICK x \in S : \A y \in S : ~(<<y, x>> \in R)  BY <1>2, WFMin
<1>5. ASSUME NEW y \in S  PROVE x <= y
  <2>1. x \in Nat /\ y \in Nat /\ <<y, x>> \notin R  BY <1>4
  <2>2. ~(y < x)  BY <2>1, <1>3
  <2>. QED  BY <2>1, <2>2
<1>. QED  BY <1>5 DEF Min

\* An instant is a natural, not 0, and none is after Never.
LEMMA InstantFacts ==
  /\ Instants \subseteq Nat \ {0} /\ Never \in Nat \ {0} /\ \A x \in Instants : x <= Never
  /\ \A x \in Times : x # Never
BY TimerAssumption DEF Instants, Times, Never

\* The items a hint is of: the ones with the earliest instant there is.
Firsts(items) ==
  {i \in items : i[1] # Never /\ \A j \in items : j[1] # Never => i[1] <= j[1]}

\* Pairs of an instant and a budget that pays.
AreItems(items) == items \subseteq Instants \X Budgets

\* There is a first item when there is one at all; all first items have one instant.
LEMMA FirstsFacts ==
  ASSUME NEW items, AreItems(items)
  PROVE  /\ Firsts(items) = {} <=> \A i \in items : i[1] = Never
         /\ \A i, j \in Firsts(items) : i[1] = j[1]
         /\ \A i \in Firsts(items), j \in items : i[1] <= j[1]
<1>. DEFINE real == {i \in items : i[1] # Never}  S == {i[1] : i \in real}
<1>1. \A i \in items : i[1] \in Instants  BY DEF AreItems
<1>2. S \in SUBSET Nat  BY <1>1, InstantFacts
<1>3. ASSUME real # {}  PROVE Firsts(items) # {}
  <2>1. S # {}  BY <1>3
  <2>2. PICK m : m = Min(S)  OBVIOUS
  <2>3. m \in S /\ \A x \in S : m <= x  BY <1>2, <2>1, <2>2, MinFacts
  <2>4. PICK i \in real : i[1] = m  BY <2>3
  <2>5. \A j \in real : j[1] \in S  OBVIOUS
  <2>6. i \in Firsts(items)  BY <2>3, <2>4, <2>5 DEF Firsts
  <2>. QED  BY <2>6
<1>4. ASSUME NEW i \in Firsts(items), NEW j \in Firsts(items)  PROVE i[1] = j[1]
  <2>1. i[1] \in Nat /\ j[1] \in Nat  BY <1>1, InstantFacts DEF Firsts
  <2>. QED  BY <2>1 DEF Firsts
<1>5. ASSUME NEW i \in Firsts(items), NEW j \in items  PROVE i[1] <= j[1]
  BY <1>1, InstantFacts DEF Firsts
<1>. QED  BY <1>3, <1>4, <1>5 DEF Firsts

\* The payer of a set of payers: the one there is, or None.
PayerOf(P) == IF \E p \in P : P = {p} THEN CHOOSE p \in P : TRUE ELSE None

\* A hint has the instant of the first items and their payer.
LEMMA HintFirsts ==
  ASSUME NEW items, AreItems(items)
  PROVE  /\ Firsts(items) = {} => HintOf(items) = NoHint
         /\ \A i \in Firsts(items) : HintOf(items) = [at |-> i[1], payer |-> PayerOf({j[2] : j \in Firsts(items)})]
<1>. DEFINE real == {i \in items : i[1] # Never}
            S == {i[1] : i \in real}
            first == Min(S)
            payers == {i[2] : i \in {j \in real : j[1] = first}}
<1>1. HintOf(items) = IF real = {} THEN NoHint ELSE [at |-> first, payer |-> PayerOf(payers)]
  BY DEF HintOf, PayerOf
<1>2. ASSUME Firsts(items) = {}  PROVE real = {}  BY <1>2, FirstsFacts
<1>3. ASSUME NEW i \in Firsts(items)  PROVE real # {} /\ first = i[1] /\ payers = {j[2] : j \in Firsts(items)}
  <2>1. i \in real  BY DEF Firsts
  <2>2. S \in SUBSET Nat
    <3>1. \A j \in items : j[1] \in Instants  BY DEF AreItems
    <3>. QED  BY <3>1, InstantFacts
  <2>3. i[1] \in S /\ \A x \in S : i[1] <= x  BY <2>1 DEF Firsts
  <2>4. first \in S /\ first <= i[1]  BY <2>2, <2>3, MinFacts
  <2>5. first = i[1]
    <3>1. i[1] <= first /\ i[1] \in Nat /\ first \in Nat  BY <2>2, <2>3, <2>4
    <3>. HIDE DEF first
    <3>. QED  BY <2>4, <3>1
  <2>. HIDE DEF first
  <2>6. {j \in real : j[1] = first} = Firsts(items)
    <3>1. ASSUME NEW j \in real, j[1] = first  PROVE j \in Firsts(items)  BY <3>1, <2>5 DEF Firsts
    <3>2. ASSUME NEW j \in Firsts(items)  PROVE j \in real /\ j[1] = first  BY <2>5, FirstsFacts DEF Firsts
    <3>. QED  BY <3>1, <3>2
  <2>. QED  BY <2>1, <2>5, <2>6
<1>. HIDE DEF first, real, payers
<1>. QED  BY <1>1, <1>2, <1>3

\* Two sets of items with the same first items have the same hint.
LEMMA SameHint ==
  ASSUME NEW A, NEW B, AreItems(A), AreItems(B), Firsts(A) = Firsts(B)
  PROVE  HintOf(A) = HintOf(B)
<1>1. CASE Firsts(A) = {}  BY <1>1, HintFirsts
<1>2. CASE Firsts(A) # {}
  <2>1. PICK i : i \in Firsts(A)  BY <1>2
  <2>. QED  BY <2>1, HintFirsts
<1>. QED  BY <1>1, <1>2

\* A hint is early: no item is before it.
LEMMA HintEarly ==
  ASSUME NEW items, AreItems(items)
  PROVE  HintOf(items) \in HintType /\ \A i \in items : HintOf(items).at <= i[1]
<1>1. CASE Firsts(items) = {}
  <2>1. HintOf(items) = NoHint /\ \A i \in items : i[1] = Never  BY <1>1, HintFirsts, FirstsFacts
  <2>. QED  BY <2>1, InstantFacts DEF NoHint, HintType, Instants
<1>2. CASE Firsts(items) # {}
  <2>1. PICK i : i \in Firsts(items)  BY <1>2
  <2>. DEFINE P == {j[2] : j \in Firsts(items)}
  <2>2. HintOf(items) = [at |-> i[1], payer |-> PayerOf(P)]  BY <2>1, HintFirsts
  <2>3. i[1] \in Instants /\ P \subseteq Budgets  BY <2>1 DEF Firsts, AreItems
  <2>. HIDE DEF P
  <2>4. PayerOf(P) \in Budgets \cup {None}  BY <2>3 DEF PayerOf
  <2>5. \A j \in items : i[1] <= j[1]  BY <2>1, FirstsFacts
  <2>. QED  BY <2>2, <2>3, <2>4, <2>5 DEF HintType
<1>. QED  BY <1>1, <1>2

\* The hint of items with one more is Lowered's.
LEMMA LoweredHint ==
  ASSUME NEW A, NEW B, AreItems(A), AreItems(B), NEW d \in Times, NEW b \in Budgets,
         {i \in B : i[1] # Never} = {i \in A : i[1] # Never} \cup {<<d, b>>}
  PROVE  HintOf(B) = Lowered(HintOf(A), d, b)
<1>. DEFINE new == <<d, b>>  FA == Firsts(A)  FB == Firsts(B)
<1>1. /\ d \in Nat /\ d < Never /\ b # None /\ new[1] = d /\ new[2] = b
      /\ \A i \in A \cup B : i[1] \in Nat
  <2>1. d \in Nat /\ d < Never /\ b # None  BY TimerAssumption DEF Times, Never
  <2>2. \A i \in A \cup B : i[1] \in Instants  BY DEF AreItems
  <2>. QED  BY <2>1, <2>2, InstantFacts
<1>2. /\ new \in B /\ new[1] # Never
      /\ \A i : i \in B /\ i[1] # Never <=> (i \in A /\ i[1] # Never) \/ i = new
  <2>1. new \in {i \in A : i[1] # Never} \cup {<<d, b>>}  OBVIOUS
  <2>2. new \in B /\ new[1] # Never  BY <2>1
  <2>. QED  BY <2>2
<1>. HIDE DEF new
<1>3. ASSUME FB = {new}  PROVE HintOf(B) = [at |-> d, payer |-> b]
  <2>1. new \in FB /\ {j[2] : j \in FB} = {b}  BY <1>1, <1>3
  <2>2. PayerOf({b}) = b  BY DEF PayerOf
  <2>. QED  BY <2>1, <2>2, <1>1, HintFirsts
<1>4. CASE FA = {}
  <2>1. HintOf(A) = NoHint /\ \A i \in A : i[1] = Never  BY <1>4, HintFirsts, FirstsFacts
  <2>2. FB = {new}
    <3>1. new \in FB  BY <1>1, <1>2, <2>1 DEF Firsts
    <3>2. \A i \in FB : i = new  BY <1>2, <2>1 DEF Firsts
    <3>. QED  BY <3>1, <3>2
  <2>. QED  BY <1>1, <1>3, <2>1, <2>2 DEF Lowered, NoHint
<1>5. CASE FA # {}
  <2>1. PICK f : f \in FA  BY <1>5
  <2>2. f \in A /\ f[1] # Never /\ f[1] \in Nat /\ \A j \in A : j[1] # Never => f[1] <= j[1]
    BY <2>1, <1>1 DEF Firsts
  <2>. DEFINE P == {j[2] : j \in FA}
  <2>3. HintOf(A) = [at |-> f[1], payer |-> PayerOf(P)]  BY <2>1, HintFirsts
  <2>4. P \subseteq Budgets /\ f[2] \in P  BY <2>1 DEF Firsts, AreItems
  <2>5. CASE d < f[1]
    <3>1. new \in FB  BY <1>1, <1>2, <2>2, <2>5 DEF Firsts
    <3>2. ASSUME NEW i \in FB  PROVE i = new
      <4>1. i[1] <= d /\ i \in B /\ i[1] # Never  BY <1>1, <1>2 DEF Firsts
      <4>2. i \notin A  BY <4>1, <2>2, <2>5, <1>1
      <4>. QED  BY <4>1, <4>2, <1>2
    <3>3. FB = {new}  BY <3>1, <3>2
    <3>. QED  BY <3>3, <1>3, <2>3, <2>5 DEF Lowered
  <2>6. CASE d > f[1]
    <3>1. f \in B /\ \A j \in B : j[1] # Never => f[1] <= j[1]  BY <1>1, <1>2, <2>2, <2>6
    <3>2. ASSUME NEW i \in FA  PROVE i \in FB
      <4>1. i[1] = f[1] /\ i \in A /\ i[1] # Never  BY <2>1, FirstsFacts DEF Firsts
      <4>. QED  BY <4>1, <3>1, <1>2 DEF Firsts
    <3>3. ASSUME NEW i \in FB  PROVE i \in FA
      <4>1. i \in B /\ i[1] # Never /\ i[1] <= f[1]  BY <2>2, <3>1 DEF Firsts
      <4>2. i # new  BY <4>1, <1>1, <2>6, <2>2
      <4>3. i \in A /\ i[1] \in Nat  BY <4>1, <4>2, <1>1, <1>2
      <4>4. i[1] = f[1]  BY <4>1, <4>3, <2>2
      <4>. QED  BY <4>1, <4>3, <4>4, <2>2 DEF Firsts
    <3>4. FA = FB  BY <3>2, <3>3
    <3>5. HintOf(B) = HintOf(A)  BY <3>4, SameHint
    <3>. QED  BY <3>5, <2>2, <2>3, <2>6, <1>1 DEF Lowered
  <2>7. CASE d = f[1]
    <3>1. \A j \in B : j[1] # Never => d <= j[1]  BY <1>1, <1>2, <2>2, <2>7
    <3>2. new \in FB  BY <3>1, <1>1, <1>2 DEF Firsts
    <3>3. ASSUME NEW i \in FA  PROVE i \in FB
      <4>1. i[1] = d /\ i \in A /\ i[1] # Never  BY <2>1, <2>7, FirstsFacts DEF Firsts
      <4>. QED  BY <4>1, <3>1, <1>2 DEF Firsts
    <3>4. ASSUME NEW i \in FB, i # new  PROVE i \in FA
      <4>1. i \in A /\ i[1] # Never  BY <3>4, <1>2 DEF Firsts
      <4>2. i[1] = d  BY <3>2, <1>1, FirstsFacts
      <4>. QED  BY <4>1, <4>2, <2>2, <2>7 DEF Firsts
    <3>5. FB = FA \cup {new}  BY <3>2, <3>3, <3>4
    <3>6. {j[2] : j \in FB} = P \cup {b}  BY <3>5, <1>1
    <3>7. HintOf(B) = [at |-> d, payer |-> PayerOf(P \cup {b})]  BY <3>2, <3>6, <1>1, HintFirsts
    <3>. HIDE DEF P
    <3>8. PayerOf(P \cup {b}) = IF PayerOf(P) = b THEN b ELSE None
      <4>1. CASE P = {b}  BY <4>1 DEF PayerOf
      <4>2. CASE P # {b}
        <5>1. PayerOf(P) # b
          <6>1. CASE \E p \in P : P = {p}
            <7>1. PICK p \in P : P = {p}  BY <6>1
            <7>2. PayerOf(P) = p /\ p # b  BY <7>1, <4>2 DEF PayerOf
            <7>. QED  BY <7>2
          <6>2. CASE ~\E p \in P : P = {p}  BY <6>2, <1>1 DEF PayerOf
          <6>. QED  BY <6>1, <6>2
        <5>2. PICK q \in P : q # b  BY <4>2, <2>4
        <5>3. ~\E p \in P \cup {b} : P \cup {b} = {p}  BY <5>2
        <5>4. PayerOf(P \cup {b}) = None  BY <5>3 DEF PayerOf
        <5>. QED  BY <5>1, <5>4
      <4>. QED  BY <4>1, <4>2
    <3>. QED  BY <3>7, <3>8, <2>3, <2>7, <2>2 DEF Lowered
  <2>. QED  BY <2>5, <2>6, <2>7, <2>2, <1>1
<1>. QED  BY <1>4, <1>5

\* Waits are items.
LEMMA WaitedItems ==
  /\ \A w \in [Threads -> Instants], S \in SUBSET Threads : AreItems(WaitItems(w, S))
  /\ WaitTypes => AreItems(Waited) /\ AreItems(Listed) /\ AreItems({<<cache[b], b>> : b \in live})
<1>1. ASSUME NEW w \in [Threads -> Instants], NEW S \in SUBSET Threads  PROVE AreItems(WaitItems(w, S))
  <2>1. \A t \in S : w[t] \in Instants /\ BudgetOf[t] \in Budgets  BY TimerAssumption
  <2>. QED  BY <2>1 DEF AreItems, WaitItems
<1>2. ASSUME WaitTypes  PROVE AreItems({<<cache[b], b>> : b \in live})  BY <1>2 DEF AreItems, WaitTypes
<1>3. ASSUME WaitTypes  PROVE AreItems(Waited) /\ AreItems(Listed)
  BY <1>1, <1>3 DEF Waited, Listed, WaitTypes
<1>. QED  BY <1>1, <1>2, <1>3

\* The hint over the budgets' caches is the one over the waits.
LEMMA CachedHint ==
  WaitTypes /\ Cached /\ WaitersLive => HintOf({<<cache[b], b>> : b \in live}) = HintOf(Listed)
<1>. SUFFICES ASSUME WaitTypes, Cached, WaitersLive
              PROVE  HintOf({<<cache[b], b>> : b \in live}) = HintOf(Listed)
  OBVIOUS
<1>. DEFINE A == {<<cache[b], b>> : b \in live}
<1>1. AreItems(A) /\ AreItems(Listed)  BY WaitedItems
<1>2. ASSUME NEW b \in live, cache[b] # Never
      PROVE  \E t \in Threads : BudgetOf[t] = b /\ waits[t] = cache[b]
  BY <1>2 DEF Cached, CachedIn, EarliestIn, WaitTypes
<1>3. ASSUME NEW t \in Threads, waits[t] # Never
      PROVE  BudgetOf[t] \in live /\ cache[BudgetOf[t]] <= waits[t] /\ cache[BudgetOf[t]] # Never
  <2>1. BudgetOf[t] \in live /\ BudgetOf[t] \in Budgets  BY <1>3, TimerAssumption DEF WaitersLive
  <2>2. cache[BudgetOf[t]] <= waits[t]  BY <2>1 DEF Cached, CachedIn, EarliestIn
  <2>3. waits[t] \in Times /\ waits[t] < Never  BY <1>3, TimerAssumption DEF WaitTypes, Instants, Times, Never
  <2>4. cache[BudgetOf[t]] \in Nat /\ waits[t] \in Nat /\ Never \in Nat  BY <2>1, InstantFacts DEF WaitTypes
  <2>. QED  BY <2>1, <2>2, <2>3, <2>4
<1>4. \A i \in A \cup Listed : i[1] \in Nat  BY <1>1, InstantFacts DEF AreItems
<1>5. ASSUME NEW i \in A, i[1] # Never  PROVE i \in Listed
  <2>1. PICK b \in live : i = <<cache[b], b>>  OBVIOUS
  <2>2. PICK t \in Threads : BudgetOf[t] = b /\ waits[t] = cache[b]  BY <1>2, <1>5, <2>1
  <2>. QED  BY <2>1, <2>2 DEF Listed, WaitItems
<1>6. ASSUME NEW i \in Listed, i[1] # Never
      PROVE  \E j \in A : j[1] # Never /\ j[1] <= i[1] /\ j[2] = i[2]
  <2>1. PICK t \in Threads : i = <<waits[t], BudgetOf[t]>>  BY DEF Listed, WaitItems
  <2>2. BudgetOf[t] \in live /\ cache[BudgetOf[t]] <= waits[t] /\ cache[BudgetOf[t]] # Never
    BY <1>3, <1>6, <2>1
  <2>3. <<cache[BudgetOf[t]], BudgetOf[t]>> \in A  BY <2>2
  <2>. QED  BY <2>1, <2>2, <2>3
<1>. HIDE DEF A
<1>7. ASSUME NEW i \in Firsts(A)  PROVE i \in Firsts(Listed)
  <2>1. i \in Listed /\ i[1] # Never /\ i \in A  BY <1>5 DEF Firsts
  <2>2. ASSUME NEW j \in Listed, j[1] # Never  PROVE i[1] <= j[1]
    <3>1. PICK a \in A : a[1] # Never /\ a[1] <= j[1]  BY <1>6, <2>2
    <3>2. i[1] <= a[1]  BY <3>1 DEF Firsts
    <3>3. i[1] \in Nat /\ a[1] \in Nat /\ j[1] \in Nat  BY <1>4, <2>1
    <3>. QED  BY <3>1, <3>2, <3>3
  <2>. QED  BY <2>1, <2>2 DEF Firsts
<1>8. ASSUME NEW i \in Firsts(Listed)  PROVE i \in Firsts(A)
  <2>1. i \in Listed /\ i[1] # Never /\ \A j \in Listed : j[1] # Never => i[1] <= j[1]  BY DEF Firsts
  <2>2. PICK a \in A : a[1] # Never /\ a[1] <= i[1] /\ a[2] = i[2]  BY <1>6, <2>1
  <2>3. i[1] <= a[1] /\ i[1] \in Nat /\ a[1] \in Nat  BY <1>4, <1>5, <2>1, <2>2
  <2>4. a[1] = i[1]  BY <2>2, <2>3
  <2>5. a = i
    <3>1. a = <<a[1], a[2]>> /\ i = <<i[1], i[2]>>  BY <1>1, <2>1 DEF AreItems
    <3>. QED  BY <3>1, <2>2, <2>4
  <2>6. \A j \in A : j[1] # Never => i[1] <= j[1]  BY <1>5, <2>1
  <2>. QED  BY <2>1, <2>2, <2>5, <2>6 DEF Firsts
<1>9. Firsts(A) = Firsts(Listed)  BY <1>7, <1>8
<1>. QED  BY <1>1, <1>9, SameHint DEF A

----------------------------------------------------------------------------
(* Waits that end. *)

\* When the waits of S end, the caches are raised to the earliest left (untime).
LEMMA EndedCached ==
  ASSUME WaitTypes, Cached, NEW S \in SUBSET Threads, NEW w, NEW c, w = Cleared(waits, S), c = Untimed(S)
  PROVE  /\ w \in [Threads -> Instants] /\ c \in [Budgets -> Instants] /\ CachedIn(w, c)
         /\ \A t \in Threads : w[t] = IF t \in S THEN Never ELSE waits[t]
<1>1. \A t \in Threads : w[t] = IF t \in S THEN Never ELSE waits[t]
  BY DEF Cleared, WaitTypes
<1>2. w \in [Threads -> Instants]  BY DEF Cleared, WaitTypes, Instants
<1>3. ASSUME NEW b \in Budgets
      PROVE  /\ c[b] \in Instants
             /\ \A t \in Threads : BudgetOf[t] = b => c[b] <= w[t]
             /\ c[b] # Never => \E t \in Threads : BudgetOf[t] = b /\ w[t] = c[b]
  <2>. DEFINE own == {t \in Threads : BudgetOf[t] = b}
              rest == {waits[t] : t \in own \ S} \cup {Never}
              m == Min(rest)
  <2>1. c[b] = IF \E t \in own \cap S : waits[t] # Never THEN Max({cache[b], m}) ELSE cache[b]
    BY DEF Untimed
  <2>2. /\ cache[b] \in Instants /\ (\A t \in own : waits[t] \in Instants /\ cache[b] <= waits[t])
        /\ (cache[b] # Never => \E t \in own : waits[t] = cache[b])
    BY DEF Cached, CachedIn, EarliestIn, WaitTypes
  <2>3. rest \in SUBSET Instants /\ rest \in SUBSET Nat /\ rest # {} /\ Never \in rest
    BY <2>2, InstantFacts DEF Instants
  <2>4. m \in rest /\ \A x \in rest : m <= x  BY <2>3, MinFacts
  <2>5. m \in Instants /\ m \in Nat /\ m <= Never /\ \A t \in own \ S : m <= waits[t]
    BY <2>3, <2>4, InstantFacts
  <2>6. m # Never => \E t \in own \ S : waits[t] = m  BY <2>4
  <2>. HIDE DEF m, rest
  <2>7. CASE \E t \in own \cap S : waits[t] # Never
    <3>1. cache[b] <= m /\ cache[b] \in Nat
      <4>1. cache[b] <= Never /\ cache[b] \in Nat  BY <2>2, InstantFacts
      <4>. QED  BY <4>1, <2>2, <2>6
    <3>2. Max({cache[b], m}) = m
      <4>. DEFINE T == {cache[b], m}
      <4>1. m \in T /\ \A y \in T : m >= y  BY <3>1, <2>5
      <4>2. \A x \in T : (\A y \in T : x >= y) => x = m  BY <3>1, <2>5
      <4>. QED  BY <4>1, <4>2 DEF Max
    <3>3. c[b] = m  BY <2>1, <2>7, <3>2
    <3>4. \A t \in own : m <= w[t]  BY <1>1, <2>5
    <3>5. m # Never => \E t \in own : w[t] = m  BY <1>1, <2>6
    <3>. QED  BY <2>5, <3>3, <3>4, <3>5
  <2>8. CASE ~\E t \in own \cap S : waits[t] # Never
    <3>1. c[b] = cache[b]  BY <2>1, <2>8
    <3>2. \A t \in own : w[t] = waits[t]  BY <1>1, <2>8
    <3>. QED  BY <2>2, <3>1, <3>2
  <2>. QED  BY <2>7, <2>8
<1>4. c \in [Budgets -> Instants]
  <2>1. c = [b \in Budgets |-> c[b]]  BY DEF Untimed
  <2>. QED  BY <2>1, <1>3
<1>5. CachedIn(w, c)  BY <1>3 DEF CachedIn, EarliestIn
<1>. QED  BY <1>1, <1>2, <1>4, <1>5

\* The waits w once t waits until d, and the caches c once b's is lowered to d.
Begun(w, t, d) == [w EXCEPT ![t] = d]
Cut(c, b, d) == [c EXCEPT ![b] = Min({@, d})]

\* When thread t, which did not wait, waits until d, its budget's cache is lowered to it (mark).
LEMMA LoweredCached ==
  ASSUME NEW w \in [Threads -> Instants], NEW c \in [Budgets -> Instants], CachedIn(w, c),
         NEW t \in Threads, w[t] = Never, NEW d \in Instants
  PROVE  /\ Begun(w, t, d) \in [Threads -> Instants] /\ Cut(c, BudgetOf[t], d) \in [Budgets -> Instants]
         /\ CachedIn(Begun(w, t, d), Cut(c, BudgetOf[t], d))
<1>. PICK v, e : v = Begun(w, t, d) /\ e = Cut(c, BudgetOf[t], d)  OBVIOUS
<1>1. PICK b \in Budgets : b = BudgetOf[t]  BY TimerAssumption
<1>2. PICK m : m = Min({c[b], d})  OBVIOUS
<1>3. d \in Nat /\ d <= Never /\ c[b] \in Nat /\ c[b] \in Instants  BY InstantFacts
<1>4. m \in {c[b], d} /\ m <= c[b] /\ m <= d /\ m \in Nat /\ m \in Instants
  <2>1. m \in {c[b], d} /\ \A x \in {c[b], d} : m <= x  BY <1>2, <1>3, MinFacts
  <2>. QED  BY <2>1, <1>3
<1>5. v = [w EXCEPT ![t] = d] /\ e = [c EXCEPT ![b] = m]  BY <1>1, <1>2 DEF Begun, Cut
<1>6. v[t] = d /\ e[b] = m /\ (\A s \in Threads : s # t => v[s] = w[s])
      /\ \A a \in Budgets : a # b => e[a] = c[a]
  BY <1>5
<1>7. ASSUME NEW a \in Budgets  PROVE EarliestIn(v, e, a)
  <2>1. /\ \A s \in Threads : BudgetOf[s] = a => c[a] <= w[s]
        /\ c[a] # Never => \E s \in Threads : BudgetOf[s] = a /\ w[s] = c[a]
    BY DEF CachedIn, EarliestIn
  <2>2. CASE a # b
    <3>1. e[a] = c[a] /\ \A s \in Threads : BudgetOf[s] = a => v[s] = w[s]  BY <2>2, <1>1, <1>6
    <3>. QED  BY <2>1, <3>1 DEF EarliestIn
  <2>3. CASE a = b
    <3>1. ASSUME NEW s \in Threads, BudgetOf[s] = b  PROVE m <= v[s]
      <4>1. CASE s = t  BY <4>1, <1>4, <1>6
      <4>2. CASE s # t
        <5>1. c[b] <= w[s] /\ w[s] \in Nat  BY <2>1, <2>3, <3>1, InstantFacts
        <5>. QED  BY <5>1, <4>2, <1>3, <1>4, <1>6
      <4>. QED  BY <4>1, <4>2
    <3>2. m # Never => \E s \in Threads : BudgetOf[s] = b /\ v[s] = m
      <4>1. CASE m = d  BY <4>1, <1>1, <1>6
      <4>2. CASE m = c[b] /\ m # Never
        <5>1. PICK s \in Threads : BudgetOf[s] = b /\ w[s] = c[b]  BY <2>1, <2>3, <4>2
        <5>2. s # t  BY <5>1, <4>2
        <5>. QED  BY <5>1, <5>2, <4>2, <1>6
      <4>. QED  BY <4>1, <4>2, <1>4
    <3>. QED  BY <2>3, <3>1, <3>2, <1>6 DEF EarliestIn
  <2>. QED  BY <2>2, <2>3
<1>8. v \in [Threads -> Instants] /\ e \in [Budgets -> Instants]  BY <1>4, <1>5
<1>. QED  BY <1>7, <1>8 DEF CachedIn

\* That wait is one item more for the hint, or none if t is left out.
LEMMA LoweredItems ==
  ASSUME NEW w \in [Threads -> Instants], NEW t \in Threads, w[t] = Never, NEW d \in Times,
         NEW S \in SUBSET Threads, t \in S
  PROVE  /\ HintOf(WaitItems(Begun(w, t, d), S)) = Lowered(HintOf(WaitItems(w, S)), d, BudgetOf[t])
         /\ HintOf(WaitItems(Begun(w, t, d), S \ {t})) = HintOf(WaitItems(w, S))
<1>. PICK v : v = Begun(w, t, d)  OBVIOUS
<1>. DEFINE V == WaitItems(v, S)  U == WaitItems(v, S \ {t})  W == WaitItems(w, S)  b == BudgetOf[t]
            Real(I) == {i \in I : i[1] # Never}
<1>1. d # Never /\ d \in Instants /\ b \in Budgets  BY InstantFacts, TimerAssumption DEF Instants
<1>2. v \in [Threads -> Instants] /\ v[t] = d /\ \A s \in Threads : s # t => v[s] = w[s]  BY <1>1 DEF Begun
<1>3. AreItems(V) /\ AreItems(U) /\ AreItems(W)  BY <1>2, WaitedItems
<1>4. ASSUME NEW i \in W, i[1] # Never  PROVE i \in U /\ i \in V
  <2>1. PICK s \in S : i = <<w[s], BudgetOf[s]>>  BY DEF WaitItems
  <2>2. s # t  BY <1>4, <2>1
  <2>3. i = <<v[s], BudgetOf[s]>>  BY <1>2, <2>1, <2>2
  <2>. QED  BY <2>2, <2>3 DEF WaitItems
<1>5. ASSUME NEW i \in U  PROVE i \in W
  <2>1. PICK s \in S \ {t} : i = <<v[s], BudgetOf[s]>>  BY DEF WaitItems
  <2>2. i = <<w[s], BudgetOf[s]>>  BY <1>2, <2>1
  <2>. QED  BY <2>2 DEF WaitItems
<1>6. ASSUME NEW i \in V, i # <<d, b>>  PROVE i \in W
  <2>1. PICK s \in S : i = <<v[s], BudgetOf[s]>>  BY DEF WaitItems
  <2>2. s # t  BY <1>2, <1>6, <2>1
  <2>3. i = <<w[s], BudgetOf[s]>>  BY <1>2, <2>1, <2>2
  <2>. QED  BY <2>3 DEF WaitItems
<1>7. <<d, b>> \in V  BY <1>2 DEF WaitItems
<1>. HIDE DEF U, V, W, b
<1>8. Real(U) = Real(W)  BY <1>4, <1>5
<1>9. HintOf(U) = HintOf(W)
  <2>1. Firsts(U) = Firsts(W)  BY <1>8 DEF Firsts
  <2>. QED  BY <1>3, <2>1, SameHint
<1>10. HintOf(V) = Lowered(HintOf(W), d, b)
  <2>1. <<d, b>>[1] # Never  BY <1>1
  <2>2. Real(V) = Real(W) \cup {<<d, b>>}  BY <1>4, <1>6, <1>7, <2>1
  <2>. QED  BY <1>1, <1>3, <2>2, LoweredHint
<1>. QED  BY <1>9, <1>10 DEF U, V, W, b

\* The hint of the items with that wait is the one lowered to it.
LEMMA AddedItem ==
  ASSUME NEW w \in [Threads -> Instants], NEW t \in Threads, w[t] = Never, NEW d \in Times,
         NEW S \in SUBSET Threads, t \in S
  PROVE  HintOf(WaitItems(Begun(w, t, d), S)) = Lowered(HintOf(WaitItems(w, S)), d, BudgetOf[t])
BY LoweredItems, ZenonT(60)

\* The hint of the items without it is as it was.
LEMMA ItemLeftOut ==
  ASSUME NEW w \in [Threads -> Instants], NEW t \in Threads, w[t] = Never, NEW d \in Times,
         NEW S \in SUBSET Threads, t \in S
  PROVE  HintOf(WaitItems(Begun(w, t, d), S \ {t})) = HintOf(WaitItems(w, S))
BY LoweredItems, ZenonT(60)

\* When none of the waits that end held the hint, the hint is as it was.
LEMMA EndedHint ==
  ASSUME WaitTypes, NEW S \in SUBSET Threads, NEW w, w = Cleared(waits, S),
         \A t \in S : waits[t] # Never => waits[t] # HintOf(Waited).at
  PROVE  HintOf(WaitItems(w, Threads \ (unnoted \ S))) = HintOf(Waited)
<1>. DEFINE N == Threads \ (unnoted \ S)  W == WaitItems(w, N)
<1>1. \A t \in Threads : w[t] = IF t \in S THEN Never ELSE waits[t]
  BY DEF Cleared, WaitTypes
<1>2. AreItems(W) /\ AreItems(Waited)
  <2>1. w \in [Threads -> Instants]  BY DEF Cleared, WaitTypes, Instants
  <2>. QED  BY <2>1, WaitedItems
<1>3. ASSUME NEW j \in W, j[1] # Never  PROVE j \in Waited
  <2>1. PICK t \in N : j = <<w[t], BudgetOf[t]>>  BY DEF WaitItems
  <2>2. w[t] # Never  BY <1>3, <2>1
  <2>3. t \in Threads \ unnoted /\ w[t] = waits[t]  BY <1>1, <2>2
  <2>. QED  BY <2>1, <2>3 DEF Waited, WaitItems
<1>4. ASSUME NEW i \in Firsts(Waited)  PROVE i \in Firsts(W)
  <2>1. i \in Waited /\ i[1] # Never  BY DEF Firsts
  <2>2. PICK t \in Threads \ unnoted : i = <<waits[t], BudgetOf[t]>>  BY <2>1 DEF Waited, WaitItems
  <2>3. HintOf(Waited).at = i[1]
    <3>1. HintOf(Waited) = [at |-> i[1], payer |-> PayerOf({j[2] : j \in Firsts(Waited)})]  BY <1>2, HintFirsts
    <3>. QED  BY <3>1
  <2>4. t \notin S  BY <2>1, <2>2, <2>3
  <2>5. i \in W
    <3>1. t \in N /\ i = <<w[t], BudgetOf[t]>>  BY <1>1, <2>2, <2>4
    <3>. QED  BY <3>1 DEF WaitItems
  <2>. QED  BY <1>3, <2>1, <2>5 DEF Firsts
<1>5. ASSUME NEW i \in Firsts(W)  PROVE i \in Firsts(Waited)
  <2>1. i \in W /\ i[1] # Never  BY DEF Firsts
  <2>2. i \in Waited  BY <1>3, <2>1
  <2>. HIDE DEF W, N
  <2>3. PICK f : f \in Firsts(Waited)  BY <1>2, <2>1, <2>2, FirstsFacts
  <2>4. f[1] = i[1]
    <3>1. f \in Firsts(W)  BY <1>4, <2>3
    <3>. QED  BY <1>2, <3>1, FirstsFacts
  <2>. QED  BY <2>1, <2>2, <2>3, <2>4 DEF Firsts
<1>6. Firsts(W) = Firsts(Waited)  BY <1>4, <1>5
<1>. HIDE DEF W
<1>7. HintOf(W) = HintOf(Waited)  BY <1>2, <1>6, SameHint
<1>. QED  BY <1>7 DEF W

\* The waits of the dead end with them; who waits is of a budget left.
LEMMA GoneFacts ==
  ASSUME WaitTypes, Cached, WaitersLive, cur \in [Harts -> live \cup {None}],
         NEW dead, NEW over \in SUBSET Threads, ThreadsOf(dead) \subseteq over, Gone(dead, over),
         unnoted' \subseteq unnoted \ over
  PROVE  /\ WaitTypes' /\ Cached' /\ WaitersLive' /\ cur' \in [Harts -> live' \cup {None}]
         /\ live' = live \ dead /\ \A b \in live' : deadline'[b] = deadline[b]
<1>1. /\ waits' = Cleared(waits, over) /\ turns' = turns \ over /\ cache' = Untimed(over)
      /\ live' = live \ dead
      /\ deadline' = Cleared(deadline, dead)
      /\ cur' = [g \in Harts |-> IF cur[g] \in dead THEN None ELSE cur[g]]
  BY DEF Gone
<1>2. waits' \in [Threads -> Instants] /\ cache' \in [Budgets -> Instants] /\ Cached'
      /\ \A t \in Threads : waits'[t] = IF t \in over THEN Never ELSE waits[t]
  BY <1>1, EndedCached DEF Cached
<1>3. deadline' \in [Budgets -> Instants] /\ deadline'[Root] = Never
      /\ \A b \in Budgets \ dead : deadline'[b] = deadline[b]
  BY <1>1, TimerAssumption DEF Cleared, WaitTypes, Instants
<1>4. WaitTypes'  BY <1>1, <1>2, <1>3 DEF WaitTypes
<1>5. WaitersLive'
  <2>1. ASSUME NEW t \in Threads, waits'[t] # Never \/ t \in turns'  PROVE BudgetOf[t] \in live'
    <3>1. t \notin over /\ (waits[t] # Never \/ t \in turns)  BY <1>1, <1>2, <2>1
    <3>2. BudgetOf[t] \in live /\ BudgetOf[t] \notin dead  BY <3>1 DEF WaitersLive, ThreadsOf
    <3>. QED  BY <1>1, <3>2
  <2>2. \A t \in unnoted' : waits'[t] # Never  BY <1>2 DEF WaitersLive, WaitTypes
  <2>. QED  BY <2>1, <2>2 DEF WaitersLive
<1>6. cur' \in [Harts -> live' \cup {None}]  BY <1>1
<1>. QED  BY <1>1, <1>2, <1>3, <1>4, <1>5, <1>6 DEF WaitTypes

----------------------------------------------------------------------------
(* Arming. *)

\* The settled hint is the earliest's of the waits still noted: of all, if a wait that held it has ended.
LEMMA SettledHint ==
  ASSUME WaitTypes, Cached, WaitersLive, NotedHint, ended \in BOOLEAN
  PROVE  Settled(cache, threads, ended) = HintOf(WaitItems(waits, Threads \ Unsettled))
<1>1. CASE ended
  <2>1. Threads \ Unsettled = Threads  BY <1>1 DEF Unsettled
  <2>. QED  BY <1>1, <2>1, CachedHint DEF Settled, EarliestTimeouts, Listed
<1>2. CASE ~ended  BY <1>2 DEF Settled, NotedHint, WaitItems, Unsettled
<1>. QED  BY <1>1, <1>2

\* The timer a hint is due on comes by it, or another hart's is armed to.
LEMMA DueOnFacts ==
  ASSUME NEW hint \in HintType, NEW h \in Harts, NEW runs, armed \in [Harts -> Nat]
  PROVE  /\ DueOn(hint, h, runs, armed) \in Nat \ {0}
         /\ \/ DueOn(hint, h, runs, armed) = hint.at
            \/ \E g \in Harts \ {h} : armed[g] <= hint.at
<1>1. hint.at \in Nat \ {0} /\ Never \in Nat \ {0}  BY InstantFacts DEF HintType
<1>. QED  BY <1>1 DEF DueOn

\* The least of three.
LEMMA MinThree ==
  ASSUME NEW a \in Nat \ {0}, NEW b \in Nat \ {0}, NEW c \in Nat \ {0}
  PROVE  Min({a, b, c}) \in Nat \ {0} /\ Min({a, b, c}) <= a /\ Min({a, b, c}) <= b
<1>. DEFINE S == {a, b, c}
<1>1. S \in SUBSET Nat /\ S # {} /\ a \in S /\ b \in S /\ 0 \notin S  OBVIOUS
<1>. HIDE DEF S
<1>2. Min(S) \in S /\ \A x \in S : Min(S) <= x  BY <1>1, MinFacts
<1>3. Min(S) \in Nat \ {0} /\ Min(S) <= a /\ Min(S) <= b  BY <1>1, <1>2
<1>. QED  BY <1>3 DEF S

\* Once hart h has re-armed, some hart's timer comes by each hint, and every timer
\* is set for what its hart is armed for.
LEMMA RearmFacts ==
  ASSUME NEW h \in Harts, NEW runs, NEW sl \in Nat \ {0}, NEW mv \in Nat \ {0},
         budgets \in HintType, NEW hint \in HintType, hint = Settled(cache, threads, ended),
         armed \in [Harts -> Nat], timer \in [Harts -> Nat],
         \A g \in Harts : armed[g] = timer[g] \/ (g = h /\ armed[g] = 0),
         Rearm(h, runs, sl, mv)
  PROVE  /\ armed' \in [Harts -> Nat] /\ timer' \in [Harts -> Nat] /\ \A g \in Harts : armed'[g] = timer'[g]
         /\ \E g \in Harts : timer'[g] <= hint.at
         /\ \E g \in Harts : timer'[g] <= budgets.at
<1>. DEFINE a == DueOn(hint, h, runs, armed)
            b == DueOn(budgets, h, runs, armed)
            target == Min({a, b, sl})
            set == target # armed[h] /\ ~(armed[h] = mv /\ target > armed[h])
<1>1. /\ armed' = IF set THEN [armed EXCEPT ![h] = target] ELSE armed
      /\ timer' = IF set THEN [timer EXCEPT ![h] = target] ELSE timer
  BY DEF Rearm, Target
<1>2. /\ a \in Nat \ {0} /\ (a = hint.at \/ \E g \in Harts \ {h} : armed[g] <= hint.at)
      /\ b \in Nat \ {0} /\ (b = budgets.at \/ \E g \in Harts \ {h} : armed[g] <= budgets.at)
  BY DueOnFacts
<1>3. target \in Nat \ {0} /\ target <= a /\ target <= b  BY <1>2, MinThree
<1>. HIDE DEF a, b, target
<1>4. /\ armed'[h] \in Nat /\ armed'[h] <= target /\ armed'[h] = timer'[h]
      /\ \A g \in Harts \ {h} : armed'[g] = armed[g] /\ timer'[g] = timer[g]
  <2>1. CASE set  BY <2>1, <1>1, <1>3
  <2>2. CASE ~set
    <3>1. armed[h] # 0  BY <2>2, <1>3
    <3>2. armed[h] <= target  BY <2>2, <1>3
    <3>. QED  BY <2>2, <3>1, <3>2, <1>1
  <2>. QED  BY <2>1, <2>2
<1>5. armed' \in [Harts -> Nat] /\ timer' \in [Harts -> Nat]  BY <1>1, <1>3
<1>6. \A g \in Harts : armed'[g] = timer'[g]  BY <1>4
<1>7. hint.at \in Nat /\ budgets.at \in Nat  BY InstantFacts DEF HintType
<1>8. \E g \in Harts : timer'[g] <= hint.at
  <2>1. CASE a = hint.at
    <3>1. timer'[h] <= hint.at  BY <2>1, <1>2, <1>3, <1>4, <1>7
    <3>. QED  BY <3>1
  <2>2. CASE \E g \in Harts \ {h} : armed[g] <= hint.at  BY <2>2, <1>4
  <2>. QED  BY <2>1, <2>2, <1>2
<1>9. \E g \in Harts : timer'[g] <= budgets.at
  <2>1. CASE b = budgets.at
    <3>1. timer'[h] <= budgets.at  BY <2>1, <1>2, <1>3, <1>4, <1>7
    <3>. QED  BY <3>1
  <2>2. CASE \E g \in Harts \ {h} : armed[g] <= budgets.at  BY <2>2, <1>4
  <2>. QED  BY <2>1, <2>2, <1>2
<1>. QED  BY <1>5, <1>6, <1>8, <1>9

----------------------------------------------------------------------------
(* Every step keeps the invariant. *)

\* Nothing waits as the machine boots.
LEMMA InitInv == Init => TimerInv
<1>. SUFFICES ASSUME Init PROVE TimerInv  OBVIOUS
<1>. USE DEF Init
<1>1. Never \in Instants /\ Never \in Nat \ {0} /\ 0 \in 0 .. MaxTime
  BY InstantFacts, TimerAssumption DEF Instants
<1>2. NoHint \in HintType  BY <1>1 DEF NoHint, HintType
<1>3. WaitTypes  BY <1>1, TimerAssumption DEF WaitTypes
<1>4. TimerTypes  BY <1>1, <1>2, <1>3 DEF TimerTypes
<1>5. Cached /\ WaitersLive  BY <1>1, TimerAssumption DEF Cached, CachedIn, EarliestIn, WaitersLive
<1>6. NotedHint
  <2>1. AreItems(Waited) /\ \A i \in Waited : i[1] = Never
    <3>1. \A i \in Waited : i[1] = Never  BY DEF Waited, WaitItems
    <3>. QED  BY <1>3, <3>1, WaitedItems
  <2>2. HintOf(Waited) = NoHint  BY <2>1, FirstsFacts, HintFirsts
  <2>3. \A b \in live : deadline[b] >= budgets.at  BY <1>1, TimerAssumption DEF NoHint
  <2>. QED  BY <2>2, <2>3 DEF NotedHint, Waited, WaitItems
<1>7. Set /\ Sections  BY DEF Set, Sections
<1>8. NotedCovered  BY TimerAssumption DEF NotedCovered, TimersComeBy, Waits, Deadlines
<1>. QED  BY <1>4, <1>5, <1>6, <1>7, <1>8 DEF TimerInv

\* An entry of the kernel expires what is due, and settles the hints.
LEMMA EntryInv ==
  ASSUME TimerInv, NEW h \in Harts, NEW isTimer \in BOOLEAN, Entry(h, isTimer),
         slice' \in [Harts -> Nat \ {0}], moved' \in [Harts -> Nat \ {0}], DOMAIN paused' = Harts,
         \A g \in Harts : paused'[g] # None => paused'[g] \in Nat /\ now + paused'[g] > 0
  PROVE  TimerInv'
<1>1. TimerTypes /\ WaitTypes /\ Cached /\ WaitersLive /\ NotedHint /\ Set /\ Sections
  BY DEF TimerInv, TimerTypes
<1>. DEFINE hint == Settled(cache, threads, ended)
            due  == hint.at <= now \/ budgets.at <= now
            dead == IF due THEN UNION {Subtree(b) : b \in {c \in live : deadline[c] <= now}} ELSE {}
            over == IF due THEN {t \in Threads : waits[t] <= now} \cup ThreadsOf(dead) ELSE {}
            left == live \ dead
<1>2. /\ holder = None /\ holder' = h /\ UNCHANGED <<now, timer>>
      /\ Gone(dead, over) /\ ended' = FALSE
      /\ threads' = IF due THEN HintOf({<<cache'[b], b>> : b \in left}) ELSE hint
      /\ unnoted' = IF due THEN {} ELSE Unsettled
      /\ budgets' = IF due THEN HintOf({<<deadline[b], Parent[b]>> : b \in left \ {Root}}) ELSE budgets
      /\ armed' = IF due \/ isTimer THEN [armed EXCEPT ![h] = 0] ELSE armed
      /\ at' = [g \in Harts |-> IF g = h THEN "kernel" ELSE IF g \in Leaving(dead) THEN "left" ELSE at[g]]
  BY DEF Entry, Expire
<1>3. over \in SUBSET Threads /\ ThreadsOf(dead) \subseteq over  BY DEF ThreadsOf
<1>4. hint = HintOf(WaitItems(waits, Threads \ Unsettled))  BY <1>1, SettledHint DEF TimerTypes
<1>. HIDE DEF hint, due, dead, over
<1>5. cur \in [Harts -> live \cup {None}] /\ unnoted' \subseteq unnoted \ over
  <2>1. cur \in [Harts -> live \cup {None}]  BY <1>1 DEF TimerTypes
  <2>2. ~due => over = {}  BY DEF over
  <2>3. Unsettled \subseteq unnoted  BY DEF Unsettled
  <2>. QED  BY <1>2, <2>1, <2>2, <2>3
<1>6. /\ WaitTypes' /\ Cached' /\ WaitersLive' /\ cur' \in [Harts -> live' \cup {None}]
      /\ live' = left /\ \A b \in live' : deadline'[b] = deadline[b]
  BY <1>1, <1>2, <1>3, <1>5, GoneFacts
<1>7. AreItems(Waited)'  BY <1>6, WaitedItems, PTL
<1>8. HintOf(Waited)' \in HintType
  <2>1. PICK W : W = Waited'  OBVIOUS
  <2>2. AreItems(W)  BY <1>7, <2>1
  <2>. QED  BY <2>1, <2>2, HintEarly
<1>9. threads' = HintOf(Waited)'
  <2>1. CASE due
    <3>1. (HintOf({<<cache[b], b>> : b \in live}) = HintOf(Listed))'  BY <1>6, CachedHint, PTL
    <3>2. Waited' = Listed'
      <4>1. Threads \ unnoted' = Threads  BY <1>2, <2>1
      <4>. QED  BY <4>1 DEF Waited, Listed
    <3>. QED  BY <1>2, <1>6, <2>1, <3>1, <3>2
  <2>2. CASE ~due
    <3>1. over = {}  BY <2>2 DEF over
    <3>2. waits' = waits
      <4>1. waits' = Cleared(waits, over)  BY <1>2 DEF Gone
      <4>. QED  BY <1>1, <3>1, <4>1 DEF Cleared, WaitTypes
    <3>3. Waited' = WaitItems(waits, Threads \ Unsettled)  BY <1>2, <2>2, <3>2 DEF Waited
    <3>. QED  BY <1>2, <1>4, <2>2, <3>3
  <2>. QED  BY <2>1, <2>2
<1>10. budgets' \in HintType /\ \A b \in live' : deadline'[b] >= budgets'.at
  <2>1. CASE due
    <3>. DEFINE D == {<<deadline[b], Parent[b]>> : b \in left \ {Root}}
    <3>1. AreItems(D)  BY <1>1, TimerAssumption DEF AreItems, WaitTypes
    <3>2. budgets' = HintOf(D)  BY <1>2, <2>1
    <3>3. budgets' \in HintType /\ \A i \in D : budgets'.at <= i[1]  BY <3>1, <3>2, HintEarly
    <3>4. budgets'.at \in Instants /\ budgets'.at \in Nat /\ budgets'.at <= Never
      BY <3>3, InstantFacts DEF HintType
    <3>5. ASSUME NEW b \in live'  PROVE deadline'[b] >= budgets'.at
      <4>1. b \in left /\ deadline'[b] = deadline[b] /\ b \in Budgets  BY <1>1, <1>6 DEF WaitTypes
      <4>2. deadline[b] \in Nat  BY <4>1, <1>1, InstantFacts DEF WaitTypes
      <4>3. CASE b = Root
        <5>1. deadline[b] = Never  BY <4>3, <1>1 DEF WaitTypes
        <5>. QED  BY <4>1, <4>2, <5>1, <3>4
      <4>4. CASE b # Root
        <5>1. <<deadline[b], Parent[b]>> \in D  BY <4>1, <4>4
        <5>2. budgets'.at <= deadline[b]  BY <5>1, <3>3
        <5>. QED  BY <4>1, <4>2, <5>2, <3>4
      <4>. QED  BY <4>3, <4>4
    <3>. QED  BY <3>3, <3>5
  <2>2. CASE ~due
    <3>1. \A b \in live' : b \in live  BY <1>6
    <3>. QED  BY <1>1, <1>2, <1>6, <2>2, <3>1 DEF TimerTypes, NotedHint
  <2>. QED  BY <2>1, <2>2
<1>11. NotedHint'  BY <1>9, <1>10 DEF NotedHint, Waited, WaitItems
<1>12. armed' \in [Harts -> Nat] /\ Set'
  <2>1. armed \in [Harts -> Nat] /\ \A g \in Harts : armed[g] = timer[g]
    BY <1>1, <1>2, TimerAssumption DEF Set, TimerTypes
  <2>2. armed' = [armed EXCEPT ![h] = 0] \/ armed' = armed  BY <1>2
  <2>3. armed' \in [Harts -> Nat] /\ \A g \in Harts : armed'[g] = armed[g] \/ (g = h /\ armed'[g] = 0)
    BY <2>1, <2>2
  <2>. QED  BY <1>2, <2>1, <2>3 DEF Set
<1>13. Sections' /\ at' \in [Harts -> {"user", "idle", "left", "kernel", "done"}]
  <2>1. \A g \in Harts : at[g] \notin {"kernel", "done"}  BY <1>1, <1>2, TimerAssumption DEF Sections
  <2>. QED  BY <1>1, <1>2, <2>1 DEF Sections, TimerTypes
<1>14. TimerTypes'  BY <1>1, <1>2, <1>6, <1>8, <1>9, <1>10, <1>12, <1>13 DEF TimerTypes
<1>15. NotedCovered'  BY <1>2, TimerAssumption DEF NotedCovered, TimersComeBy
<1>. QED  BY <1>6, <1>11, <1>12, <1>13, <1>14, <1>15 DEF TimerInv

\* The entries: a call, an interrupt, and a hart that left the space it ran.
LEMMA EntriesInv ==
  ASSUME TimerInv, NEW h \in Harts, Call(h) \/ TimerInterrupt(h) \/ OtherInterrupt(h) \/ EnterLeft(h)
  PROVE  TimerInv'
<1>1. TimerTypes /\ Never \in Nat \ {0}  BY InstantFacts DEF TimerInv
<1>2. /\ slice \in [Harts -> Nat \ {0}] /\ moved \in [Harts -> Nat \ {0}] /\ DOMAIN paused = Harts
      /\ \A g \in Harts : paused[g] # None => paused[g] \in Nat /\ now + paused[g] > 0
      /\ now \in Nat
  BY <1>1, TimerAssumption DEF TimerTypes
<1>3. CASE Call(h)
  <2>1. Entry(h, FALSE) /\ UNCHANGED <<slice, moved, paused>>  BY <1>3 DEF Call
  <2>. QED  BY <1>2, <2>1, EntryInv
<1>4. CASE EnterLeft(h)
  <2>1. Entry(h, FALSE) /\ slice' = [slice EXCEPT ![h] = Never] /\ moved' = [moved EXCEPT ![h] = Never]
        /\ UNCHANGED paused
    BY <1>4 DEF EnterLeft
  <2>2. slice' \in [Harts -> Nat \ {0}] /\ moved' \in [Harts -> Nat \ {0}]  BY <1>1, <1>2, <2>1
  <2>. QED  BY <1>2, <2>1, <2>2, EntryInv
<1>5. ASSUME NEW isTimer \in BOOLEAN, Interrupt(h, isTimer)  PROVE TimerInv'
  <2>1. Entry(h, isTimer)  BY <1>5 DEF Interrupt
  <2>2. CASE isTimer /\ slice[h] <= now
    <3>1. slice' = [slice EXCEPT ![h] = Never] /\ moved' = [moved EXCEPT ![h] = Never] /\ UNCHANGED paused
      BY <1>5, <2>2 DEF Interrupt
    <3>2. slice' \in [Harts -> Nat \ {0}] /\ moved' \in [Harts -> Nat \ {0}]  BY <1>1, <1>2, <3>1
    <3>. QED  BY <1>2, <2>1, <3>1, <3>2, EntryInv
  <2>3. CASE ~(isTimer /\ slice[h] <= now)
    <3>1. UNCHANGED <<slice, moved>>
          /\ paused' = IF slice[h] = Never THEN paused
                       ELSE [paused EXCEPT ![h] = IF slice[h] > now THEN slice[h] - now ELSE 0]
      BY <1>5, <2>3 DEF Interrupt
    <3>2. slice[h] \in Nat \ {0}  BY <1>2
    <3>3. DOMAIN paused' = Harts /\ \A g \in Harts : paused'[g] # None => paused'[g] \in Nat /\ now + paused'[g] > 0
      <4>1. CASE slice[h] = Never  BY <4>1, <3>1, <1>2
      <4>2. CASE slice[h] # Never
        <5>. DEFINE x == IF slice[h] > now THEN slice[h] - now ELSE 0
        <5>1. x \in Nat /\ now + x > 0  BY <3>2, <1>2
        <5>2. paused' = [paused EXCEPT ![h] = x]  BY <4>2, <3>1
        <5>. HIDE DEF x
        <5>. QED  BY <5>1, <5>2, <1>2
      <4>. QED  BY <4>1, <4>2
    <3>. QED  BY <1>2, <2>1, <3>1, <3>3, EntryInv
  <2>. QED  BY <2>2, <2>3
<1>. QED  BY <1>3, <1>4, <1>5 DEF TimerInterrupt, OtherInterrupt

\* Hart h is in the kernel, with the lock: nothing need be covered meanwhile.
LEMMA Inside ==
  ASSUME TimerInv, NEW h \in Harts, at[h] \in {"kernel", "done"}
  PROVE  holder = h /\ holder # None
BY TimerAssumption DEF TimerInv, Sections

\* The running thread blocks: its budget's cache and the hint are lowered to it.
LEMMA BlockInv ==
  ASSUME TimerInv, NEW h \in Harts, NEW t \in Threads, NEW d \in Times \cup {Never}, NEW turn \in BOOLEAN,
         Block(h, t, d, turn)
  PROVE  TimerInv'
<1>1. TimerTypes /\ WaitTypes /\ Cached /\ WaitersLive /\ NotedHint /\ Set /\ Sections
  BY DEF TimerInv, TimerTypes
<1>2. PICK b : b = cur[h]  OBVIOUS
<1>3. /\ at[h] = "kernel" /\ b # None /\ BudgetOf[t] = b /\ waits[t] = Never
      /\ waits' = Begun(waits, t, d) /\ cache' = Cut(cache, BudgetOf[t], d)
      /\ turns' = IF turn THEN turns \cup {t} ELSE turns
      /\ threads' = Noted(threads, d, b)
      /\ slice' = [slice EXCEPT ![h] = Never] /\ moved' = [moved EXCEPT ![h] = Never]
      /\ paused' = [paused EXCEPT ![h] = None] /\ at' = [at EXCEPT ![h] = "done"]
      /\ UNCHANGED <<now, holder, deadline, live, budgets, ended, unnoted, armed, timer, cur>>
  BY <1>2 DEF Block, InCall, Doing, Begun, Cut
<1>4. holder = h /\ holder # None  BY <1>3, Inside
<1>5. b \in live /\ b \in Budgets  BY <1>1, <1>2, <1>3 DEF TimerTypes, WaitTypes
<1>6. d \in Instants /\ d \in Nat  BY InstantFacts DEF Instants
<1>7. waits' \in [Threads -> Instants] /\ cache' \in [Budgets -> Instants] /\ Cached'
  <2>1. waits \in [Threads -> Instants] /\ cache \in [Budgets -> Instants] /\ CachedIn(waits, cache)
    BY <1>1 DEF WaitTypes, Cached
  <2>2. waits' \in [Threads -> Instants] /\ cache' \in [Budgets -> Instants] /\ CachedIn(waits', cache')
    BY <1>3, <1>6, <2>1, LoweredCached
  <2>. QED  BY <2>2 DEF Cached
<1>11. WaitTypes'  BY <1>1, <1>3, <1>7 DEF WaitTypes
<1>12. t \notin unnoted /\ waits'[t] = d /\ \A s \in Threads : s # t => waits'[s] = waits[s]
  BY <1>1, <1>3 DEF WaitTypes, WaitersLive, Begun
<1>14. WaitersLive'
  <2>1. \A s \in Threads : waits'[s] # Never \/ s \in turns' => BudgetOf[s] \in live'
    BY <1>1, <1>3, <1>5, <1>12 DEF WaitersLive
  <2>2. \A s \in unnoted' : waits'[s] # Never  BY <1>1, <1>3, <1>12 DEF WaitersLive, WaitTypes
  <2>. QED  BY <2>1, <2>2 DEF WaitersLive
<1>16. HintOf(Waited)' = Noted(HintOf(Waited), d, b)
  <2>1. Waited' = WaitItems(waits', Threads \ unnoted) /\ Waited = WaitItems(waits, Threads \ unnoted)
    BY <1>3 DEF Waited
  <2>2. CASE d = Never
    <3>1. waits' = waits  BY <1>1, <1>3, <2>2 DEF WaitTypes, Begun
    <3>. QED  BY <2>1, <2>2, <3>1 DEF Noted
  <2>3. CASE d # Never
    <3>1. PICK e \in Times : e = d  BY <2>3
    <3>2. waits \in [Threads -> Instants] /\ waits[t] = Never  BY <1>1, <1>3 DEF WaitTypes
    <3>3. PICK N : N = Threads \ unnoted /\ N \in SUBSET Threads /\ t \in N  BY <1>12
    <3>4. HintOf(WaitItems(Begun(waits, t, e), N)) = Lowered(HintOf(WaitItems(waits, N)), e, BudgetOf[t])
      BY <3>2, <3>3, AddedItem
    <3>. QED  BY <1>3, <2>1, <2>3, <3>1, <3>3, <3>4 DEF Noted
  <2>. QED  BY <2>2, <2>3
<1>17. NotedHint'
  <2>1. ~ended => threads' = HintOf(Waited)'  BY <1>1, <1>3, <1>16 DEF NotedHint, Waited, WaitItems
  <2>. QED  BY <2>1, <1>1, <1>3 DEF NotedHint, Waited, WaitItems
<1>18. threads' \in HintType  BY <1>1, <1>3, <1>5, <1>6 DEF Noted, Lowered, HintType, TimerTypes
<1>19. TimerTypes'
  <2>1. Never \in Nat \ {0}  BY InstantFacts
  <2>2. slice' \in [Harts -> Nat \ {0}] /\ moved' \in [Harts -> Nat \ {0}]  BY <2>1, <1>1, <1>3 DEF TimerTypes
  <2>3. DOMAIN paused' = Harts /\ \A g \in Harts : paused'[g] # None => paused'[g] \in Nat /\ now + paused'[g] > 0
    BY <1>1, <1>3 DEF TimerTypes
  <2>4. at' \in [Harts -> {"user", "idle", "left", "kernel", "done"}]  BY <1>1, <1>3 DEF TimerTypes
  <2>. QED  BY <1>1, <1>3, <1>11, <1>18, <2>2, <2>3, <2>4 DEF TimerTypes
<1>20. Sections' /\ Set'  BY <1>1, <1>3, <1>4 DEF Sections, Set, TimerTypes
<1>21. NotedCovered'  BY <1>3, <1>4 DEF NotedCovered, TimersComeBy
<1>. QED  BY <1>7, <1>14, <1>17, <1>19, <1>20, <1>21 DEF TimerInv

\* Steps of the hart in the kernel that arm nothing: what is left to show of each.
LEMMA InsideInv ==
  ASSUME TimerInv, NEW h \in Harts, at[h] \in {"kernel", "done"},
         WaitTypes', Cached', WaitersLive', NotedHint', ended' \in BOOLEAN, budgets' \in HintType,
         cur' \in [Harts -> live' \cup {None}],
         at' \in [Harts -> {"user", "idle", "left", "kernel", "done"}], at'[h] = "done",
         \A g \in Harts \ {h} : at'[g] \in {at[g], "left"},
         UNCHANGED <<now, threads, armVars, holder>>
  PROVE  TimerInv'
<1>1. TimerTypes /\ Set /\ Sections  BY DEF TimerInv
<1>2. holder = h /\ holder # None  BY Inside
<1>3. TimerTypes'  BY <1>1 DEF TimerTypes, armVars
<1>4. Set' /\ Sections'  BY <1>1, <1>2 DEF Set, Sections, armVars
<1>5. NotedCovered'  BY <1>2 DEF NotedCovered, TimersComeBy
<1>. QED  BY <1>3, <1>4, <1>5 DEF TimerInv

\* A wait ends before its timeout.
LEMMA AnswerInv ==
  ASSUME TimerInv, NEW h \in Harts, NEW t \in Threads, Answer(h, t)  PROVE TimerInv'
<1>1. TimerTypes /\ WaitTypes /\ Cached /\ WaitersLive /\ NotedHint
  BY DEF TimerInv, TimerTypes
<1>2. /\ at[h] = "kernel"
      /\ waits' = Cleared(waits, {t}) /\ turns' = turns \ {t} /\ unnoted' = unnoted \ {t} /\ cache' = Untimed({t})
      /\ ended' = (ended \/ (waits[t] # Never /\ threads.at = waits[t])) /\ at' = [at EXCEPT ![h] = "done"]
      /\ UNCHANGED <<now, holder, deadline, live, threads, budgets, cur>> /\ UNCHANGED armVars
  BY DEF Answer, Doing
<1>3. waits' \in [Threads -> Instants] /\ cache' \in [Budgets -> Instants] /\ Cached'
      /\ \A s \in Threads : waits'[s] = IF s \in {t} THEN Never ELSE waits[s]
  BY <1>1, <1>2, EndedCached DEF Cached
<1>4. WaitTypes'  BY <1>1, <1>2, <1>3 DEF WaitTypes
<1>5. WaitersLive'
  <2>1. \A s \in Threads : waits'[s] # Never \/ s \in turns' => BudgetOf[s] \in live'
    BY <1>1, <1>2, <1>3 DEF WaitersLive
  <2>2. \A s \in unnoted' : waits'[s] # Never  BY <1>1, <1>2, <1>3 DEF WaitersLive, WaitTypes
  <2>. QED  BY <2>1, <2>2 DEF WaitersLive
<1>6. NotedHint'
  <2>1. ASSUME ~ended'  PROVE threads' = HintOf(Waited)'
    <3>1. threads = HintOf(Waited) /\ (waits[t] # Never => waits[t] # threads.at)  BY <1>1, <1>2, <2>1 DEF NotedHint, Waited, WaitItems
    <3>2. Waited' = WaitItems(waits', Threads \ (unnoted \ {t}))  BY <1>2 DEF Waited
    <3>3. HintOf(WaitItems(waits', Threads \ (unnoted \ {t}))) = HintOf(Waited)  BY <1>1, <1>2, <3>1, EndedHint
    <3>. QED  BY <1>2, <3>1, <3>2, <3>3
  <2>. QED  BY <2>1, <1>1, <1>2 DEF NotedHint, Waited, WaitItems
<1>7. ended' \in BOOLEAN  BY <1>2
<1>8. /\ budgets' \in HintType /\ cur' \in [Harts -> live' \cup {None}]
      /\ at' \in [Harts -> {"user", "idle", "left", "kernel", "done"}]
      /\ at'[h] = "done" /\ \A g \in Harts \ {h} : at'[g] = at[g]
  BY <1>1, <1>2 DEF TimerTypes
<1>. QED  BY <1>2, <1>3, <1>4, <1>5, <1>6, <1>7, <1>8, InsideInv

\* A turn's receive half begins: its send's wait ends, and its own is listed and not noted, unless the hint is early
\* enough for it.
LEMMA ContinueInv ==
  ASSUME TimerInv, NEW h \in Harts, NEW t \in Threads, NEW d \in Times \cup {Never}, Continue(h, t, d)
  PROVE  TimerInv'
<1>1. TimerTypes /\ WaitTypes /\ Cached /\ WaitersLive /\ NotedHint
  BY DEF TimerInv, TimerTypes
<1>2. PICK b : b = BudgetOf[t]  OBVIOUS
<1>3. PICK w, c : w = Cleared(waits, {t}) /\ c = Untimed({t})  OBVIOUS
<1>4. /\ at[h] = "kernel" /\ t \in turns
      /\ waits' = [waits EXCEPT ![t] = d] /\ turns' = turns \ {t}
      /\ cache' = Cut(c, BudgetOf[t], d)
      /\ ended' = (ended \/ (waits[t] # Never /\ threads.at = waits[t]))
      /\ unnoted' = IF Noted(threads, d, b) # threads THEN unnoted \cup {t} ELSE unnoted \ {t}
      /\ at' = [at EXCEPT ![h] = "done"]
      /\ UNCHANGED <<now, holder, deadline, live, threads, budgets, cur>> /\ UNCHANGED armVars
  BY <1>2, <1>3 DEF Continue, Doing, Cut
<1>5. /\ w \in [Threads -> Instants] /\ c \in [Budgets -> Instants] /\ CachedIn(w, c)
      /\ \A s \in Threads : w[s] = IF s \in {t} THEN Never ELSE waits[s]
  BY <1>1, <1>3, EndedCached
<1>6. w[t] = Never /\ waits' = Begun(w, t, d)
  BY <1>1, <1>3, <1>4, <1>5 DEF WaitTypes, Cleared, Begun
<1>7. d \in Instants  BY DEF Instants
<1>8. waits' \in [Threads -> Instants] /\ cache' \in [Budgets -> Instants] /\ Cached'
  <2>1. w \in [Threads -> Instants] /\ c \in [Budgets -> Instants] /\ CachedIn(w, c) /\ w[t] = Never
    BY <1>5, <1>6
  <2>2. /\ Begun(w, t, d) \in [Threads -> Instants] /\ Cut(c, BudgetOf[t], d) \in [Budgets -> Instants]
        /\ CachedIn(Begun(w, t, d), Cut(c, BudgetOf[t], d))
    BY <1>7, <2>1, LoweredCached
  <2>. QED  BY <1>4, <1>6, <2>2 DEF Cached
<1>9. WaitTypes'  BY <1>1, <1>4, <1>8 DEF WaitTypes
<1>10. BudgetOf[t] \in live /\ waits'[t] = d /\ \A s \in Threads : s # t => waits'[s] = waits[s]
  BY <1>1, <1>4 DEF WaitTypes, WaitersLive
<1>11. WaitersLive'
  <2>1. \A s \in Threads : waits'[s] # Never \/ s \in turns' => BudgetOf[s] \in live'
    BY <1>1, <1>4, <1>10 DEF WaitersLive
  <2>2. t \in unnoted' => d # Never  BY <1>4 DEF Noted
  <2>3. \A s \in unnoted' : waits'[s] # Never  BY <1>1, <1>4, <1>10, <2>2 DEF WaitersLive, WaitTypes
  <2>. QED  BY <2>1, <2>3 DEF WaitersLive
<1>12. ASSUME ~ended'  PROVE threads' = HintOf(Waited)'
  <2>. PICK N : N = Threads \ (unnoted \ {t})  OBVIOUS
  <2>1. threads = HintOf(Waited) /\ (waits[t] # Never => waits[t] # threads.at)
    BY <1>1, <1>4, <1>12 DEF NotedHint, Waited, WaitItems
  <2>2. HintOf(WaitItems(w, N)) = threads  BY <1>1, <1>3, <2>1, EndedHint
  <2>3. w \in [Threads -> Instants] /\ w[t] = Never  BY <1>5, <1>6
  <2>4. N \in SUBSET Threads /\ t \in N  OBVIOUS
  <2>5. CASE Noted(threads, d, b) # threads
    <3>1. d \in Times  BY <2>5 DEF Noted
    <3>2. Threads \ unnoted' = N \ {t}  BY <1>4, <2>5
    <3>3. HintOf(WaitItems(Begun(w, t, d), N \ {t})) = HintOf(WaitItems(w, N))
      BY <2>3, <2>4, <3>1, ItemLeftOut
    <3>. QED  BY <1>4, <1>6, <2>2, <3>2, <3>3 DEF Waited
  <2>6. CASE Noted(threads, d, b) = threads /\ d # Never
    <3>1. PICK e \in Times : e = d  BY <2>6
    <3>2. Threads \ unnoted' = N  BY <1>4, <2>6
    <3>3. HintOf(WaitItems(Begun(w, t, e), N)) = Lowered(HintOf(WaitItems(w, N)), e, BudgetOf[t])
      BY <2>3, <2>4, AddedItem
    <3>4. Lowered(threads, e, BudgetOf[t]) = threads  BY <1>2, <2>6, <3>1 DEF Noted
    <3>. QED  BY <1>4, <1>6, <2>2, <3>1, <3>2, <3>3, <3>4 DEF Waited
  <2>7. CASE d = Never
    <3>1. Noted(threads, d, b) = threads  BY <2>7 DEF Noted
    <3>2. Threads \ unnoted' = N  BY <1>4, <3>1
    <3>3. waits' = w  BY <1>5, <1>6, <2>7 DEF Begun
    <3>. QED  BY <1>4, <2>2, <3>2, <3>3 DEF Waited
  <2>. QED  BY <2>5, <2>6, <2>7
<1>13. NotedHint'  BY <1>12, <1>1, <1>4 DEF NotedHint, Waited, WaitItems
<1>14. /\ ended' \in BOOLEAN /\ budgets' \in HintType /\ cur' \in [Harts -> live' \cup {None}]
       /\ at' \in [Harts -> {"user", "idle", "left", "kernel", "done"}]
       /\ at'[h] = "done" /\ \A g \in Harts \ {h} : at'[g] = at[g]
  BY <1>1, <1>4 DEF TimerTypes
<1>. QED  BY <1>4, <1>8, <1>9, <1>11, <1>13, <1>14, InsideInv

\* A budget is made, perhaps with a deadline: the deadlines' hint is lowered to it.
LEMMA CreateBudgetInv ==
  ASSUME TimerInv, NEW h \in Harts, NEW b \in Budgets \ {Root}, NEW d \in Times \cup {Never}, CreateBudget(h, b, d)
  PROVE  TimerInv'
<1>1. TimerTypes /\ WaitTypes /\ Cached /\ WaitersLive /\ NotedHint
  BY DEF TimerInv, TimerTypes
<1>2. /\ at[h] = "kernel" /\ b \notin live
      /\ live' = live \cup {b} /\ deadline' = [deadline EXCEPT ![b] = d]
      /\ budgets' = Noted(budgets, d, Parent[b])
      /\ at' = [at EXCEPT ![h] = "done"]
      /\ UNCHANGED <<now, holder, waits, turns, cache, threads, ended, unnoted, cur>> /\ UNCHANGED armVars
  BY DEF CreateBudget, Doing
<1>3. d \in Instants /\ d \in Nat /\ Parent[b] \in Budgets  BY InstantFacts, TimerAssumption DEF Instants
<1>4. WaitTypes'
  <2>1. deadline' \in [Budgets -> Instants] /\ deadline'[Root] = Never
    BY <1>1, <1>2, <1>3, TimerAssumption DEF WaitTypes
  <2>. QED  BY <2>1, <1>1, <1>2 DEF WaitTypes
<1>5. Cached' /\ WaitersLive'  BY <1>1, <1>2 DEF Cached, CachedIn, EarliestIn, WaitersLive
<1>6. budgets' \in HintType /\ budgets'.at \in Nat /\ budgets.at \in Nat
      /\ budgets'.at <= budgets.at /\ budgets'.at <= d
  <2>1. budgets \in HintType /\ budgets.at \in Nat /\ budgets.at <= Never
    BY <1>1, InstantFacts DEF TimerTypes, HintType
  <2>2. CASE d = Never  BY <2>1, <2>2, <1>2 DEF Noted
  <2>3. CASE d # Never
    <3>1. budgets' = Lowered(budgets, d, Parent[b])  BY <1>2, <2>3 DEF Noted
    <3>2. CASE d < budgets.at
      <4>1. budgets' = [at |-> d, payer |-> Parent[b]]  BY <3>1, <3>2 DEF Lowered
      <4>2. budgets' \in HintType  BY <4>1, <1>3 DEF HintType
      <4>3. budgets'.at = d  BY <4>1
      <4>. QED  BY <4>2, <4>3, <2>1, <3>2, <1>3
    <3>3. CASE ~(d < budgets.at)
      <4>1. budgets' = budgets \/ (d = budgets.at /\ budgets' = [at |-> d, payer |-> None])
        BY <3>1, <3>3 DEF Lowered
      <4>2. budgets' \in HintType  BY <4>1, <1>3, <2>1 DEF HintType
      <4>3. budgets'.at = budgets.at  BY <4>1
      <4>. QED  BY <4>2, <4>3, <2>1, <3>3, <1>3
    <3>. QED  BY <3>2, <3>3
  <2>. QED  BY <2>2, <2>3
<1>7. NotedHint'
  <2>1. ~ended' => threads' = HintOf({<<waits'[t], BudgetOf[t]>> : t \in Threads \ unnoted'})
    BY <1>1, <1>2 DEF NotedHint
  <2>2. ASSUME NEW c \in live'  PROVE deadline'[c] >= budgets'.at
    <3>1. CASE c = b
      <4>1. deadline'[c] = d  BY <3>1, <1>1, <1>2 DEF WaitTypes
      <4>. QED  BY <4>1, <1>3, <1>6
    <3>2. CASE c # b
      <4>1. c \in live /\ c \in Budgets  BY <3>2, <1>1, <1>2 DEF WaitTypes
      <4>2. deadline'[c] = deadline[c] /\ deadline[c] \in Nat /\ deadline[c] >= budgets.at
        BY <4>1, <3>2, <1>1, <1>2, InstantFacts DEF WaitTypes, NotedHint
      <4>. QED  BY <4>2, <1>6
    <3>. QED  BY <3>1, <3>2
  <2>. QED  BY <2>1, <2>2 DEF NotedHint
<1>8. /\ ended' \in BOOLEAN /\ cur' \in [Harts -> live' \cup {None}]
      /\ at' \in [Harts -> {"user", "idle", "left", "kernel", "done"}]
      /\ at'[h] = "done" /\ \A g \in Harts \ {h} : at'[g] = at[g]
  BY <1>1, <1>2 DEF TimerTypes
<1>. QED  BY <1>2, <1>4, <1>5, <1>6, <1>7, <1>8, InsideInv

\* A budget is destroyed, with every one under it: the hint is settled later if one of its waits held it.
LEMMA DestroyBudgetInv ==
  ASSUME TimerInv, NEW h \in Harts, NEW b \in Budgets, DestroyBudget(h, b)  PROVE TimerInv'
<1>1. TimerTypes /\ WaitTypes /\ Cached /\ WaitersLive /\ NotedHint
  BY DEF TimerInv, TimerTypes
<1>2. PICK dead : dead = Subtree(b)  OBVIOUS
<1>3. PICK over : over = ThreadsOf(dead)  OBVIOUS
<1>4. /\ at[h] = "kernel" /\ Gone(dead, over)
      /\ ended' = (ended \/ \E t \in over : waits[t] # Never /\ waits[t] = threads.at)
      /\ unnoted' = unnoted \ over
      /\ at' = [g \in Harts |-> IF g = h THEN "done" ELSE IF g \in Leaving(dead) THEN "left" ELSE at[g]]
      /\ UNCHANGED <<now, threads, budgets, holder>> /\ UNCHANGED armVars
  BY <1>2, <1>3 DEF DestroyBudget, InCall
<1>5. over \in SUBSET Threads /\ ThreadsOf(dead) \subseteq over  BY <1>3 DEF ThreadsOf
<1>6. /\ WaitTypes' /\ Cached' /\ WaitersLive' /\ cur' \in [Harts -> live' \cup {None}]
      /\ live' = live \ dead /\ \A c \in live' : deadline'[c] = deadline[c]
  BY <1>1, <1>4, <1>5, GoneFacts DEF TimerTypes
<1>7. NotedHint'
  <2>1. ASSUME ~ended'  PROVE threads' = HintOf(Waited)'
    <3>1. threads = HintOf(Waited) /\ \A t \in over : waits[t] # Never => waits[t] # threads.at
      BY <1>1, <1>4, <2>1 DEF NotedHint, Waited, WaitItems
    <3>2. waits' = Cleared(waits, over)  BY <1>4 DEF Gone
    <3>3. HintOf(WaitItems(waits', Threads \ (unnoted \ over))) = HintOf(Waited)
      BY <1>1, <1>5, <3>1, <3>2, EndedHint
    <3>4. Waited' = WaitItems(waits', Threads \ (unnoted \ over))  BY <1>4 DEF Waited
    <3>. QED  BY <1>4, <3>1, <3>3, <3>4
  <2>2. \A c \in live' : deadline'[c] >= budgets'.at
    BY <1>1, <1>4, <1>6 DEF NotedHint
  <2>. QED  BY <2>1, <2>2 DEF NotedHint, Waited, WaitItems
<1>8. ended' \in BOOLEAN  BY <1>4
<1>9. /\ budgets' \in HintType /\ at' \in [Harts -> {"user", "idle", "left", "kernel", "done"}] /\ at'[h] = "done"
      /\ \A g \in Harts \ {h} : at'[g] \in {at[g], "left"}
  BY <1>1, <1>4 DEF TimerTypes
<1>. QED  BY <1>4, <1>6, <1>7, <1>8, <1>9, InsideInv

\* A hart returns or idles: its timer is armed by what no other hart's comes by.
LEMMA ReturnInv ==
  ASSUME TimerInv, NEW h \in Harts, NEW b \in live \cup {None}, NEW sl \in Nat \ {0}, NEW mv \in Nat \ {0},
         NEW to \in {"user", "idle"}, Return(h, b, sl, mv, to)
  PROVE  TimerInv'
<1>1. TimerTypes /\ WaitTypes /\ Cached /\ WaitersLive /\ NotedHint /\ Set /\ Sections
  BY DEF TimerInv, TimerTypes
<1>2. PICK runs : runs = cur'  OBVIOUS
<1>3. /\ holder = h /\ holder' = None
      /\ cur' = [cur EXCEPT ![h] = b] /\ at' = [at EXCEPT ![h] = to]
      /\ paused' = [paused EXCEPT ![h] = None] /\ Rearm(h, runs, sl, mv)
      /\ UNCHANGED <<now, waits, turns, cache, deadline, live, budgets>>
  BY <1>2 DEF Return, waitVars
<1>4. PICK hint : hint = Settled(cache, threads, ended)  OBVIOUS
<1>5. PICK W : W = WaitItems(waits, Threads \ Unsettled)  OBVIOUS
<1>6. hint = HintOf(W) /\ hint \in HintType /\ \A i \in W : hint.at <= i[1]
  <2>1. AreItems(W)  BY <1>1, <1>5, WaitedItems DEF WaitTypes
  <2>2. hint = HintOf(W)  BY <1>1, <1>4, <1>5, SettledHint DEF TimerTypes
  <2>. QED  BY <2>1, <2>2, HintEarly
<1>7. /\ threads' = hint /\ ended' = FALSE /\ unnoted' = Unsettled /\ Unsettled \subseteq unnoted
      /\ slice' = [slice EXCEPT ![h] = sl] /\ moved' = [moved EXCEPT ![h] = mv]
  BY <1>3, <1>4 DEF Rearm, Unsettled
<1>8. /\ armed' \in [Harts -> Nat] /\ timer' \in [Harts -> Nat] /\ \A g \in Harts : armed'[g] = timer'[g]
      /\ \E g \in Harts : timer'[g] <= hint.at
      /\ \E g \in Harts : timer'[g] <= budgets.at
  <2>1. \A g \in Harts : armed[g] = timer[g] \/ (g = h /\ armed[g] = 0)  BY <1>1, <1>3 DEF Set
  <2>2. budgets \in HintType /\ armed \in [Harts -> Nat] /\ timer \in [Harts -> Nat]  BY <1>1 DEF TimerTypes
  <2>. QED  BY <1>3, <1>4, <1>6, <2>1, <2>2, RearmFacts
<1>9. WaitTypes' /\ Cached' /\ WaitersLive'  BY <1>1, <1>3, <1>7 DEF WaitTypes, Cached, CachedIn, EarliestIn, WaitersLive
<1>10. NotedHint'  BY <1>1, <1>3, <1>5, <1>6, <1>7 DEF NotedHint, WaitItems
<1>11. TimerTypes'
  <2>1. /\ slice' \in [Harts -> Nat \ {0}] /\ moved' \in [Harts -> Nat \ {0}]
        /\ cur' \in [Harts -> live' \cup {None}]
        /\ at' \in [Harts -> {"user", "idle", "left", "kernel", "done"}]
    BY <1>1, <1>3, <1>7 DEF TimerTypes
  <2>2. DOMAIN paused' = Harts /\ \A g \in Harts : paused'[g] # None => paused'[g] \in Nat /\ now + paused'[g] > 0
    BY <1>1, <1>3 DEF TimerTypes
  <2>. QED  BY <1>1, <1>3, <1>6, <1>7, <1>8, <1>9, <2>1, <2>2 DEF TimerTypes
<1>12. Set'  BY <1>8 DEF Set
<1>13. Sections'  BY <1>1, <1>3 DEF Sections, TimerTypes
<1>14. NotedCovered'
  <2>. SUFFICES ASSUME NEW d \in (Waits(Threads \ unnoted) \cup Deadlines)', d # Never
               PROVE  \E g \in Harts : timer'[g] <= d
    BY DEF NotedCovered, TimersComeBy
  <2>1. d \in Waits(Threads \ Unsettled) \cup Deadlines  BY <1>3, <1>7 DEF Waits, Deadlines
  <2>2. \A g \in Harts : timer'[g] \in Nat  BY <1>8
  <2>3. CASE \E t \in Threads \ Unsettled : d = waits[t]
    <3>1. PICK t \in Threads \ Unsettled : d = waits[t]  BY <2>3
    <3>2. <<waits[t], BudgetOf[t]>> \in W  BY <1>5 DEF WaitItems
    <3>3. hint.at <= d /\ hint.at \in Nat /\ d \in Nat
      BY <1>1, <1>6, <3>1, <3>2, InstantFacts DEF WaitTypes, HintType
    <3>4. PICK g \in Harts : timer'[g] <= hint.at  BY <1>8
    <3>5. timer'[g] <= d  BY <2>2, <3>3, <3>4
    <3>. QED  BY <3>5
  <2>4. CASE \E c \in live : d = deadline[c]
    <3>1. PICK c \in live : d = deadline[c]  BY <2>4
    <3>2. budgets.at <= d /\ budgets.at \in Nat /\ d \in Nat
      BY <1>1, <3>1, InstantFacts DEF WaitTypes, TimerTypes, NotedHint, HintType
    <3>3. PICK g \in Harts : timer'[g] <= budgets.at  BY <1>8
    <3>4. timer'[g] <= d  BY <2>2, <3>2, <3>3
    <3>. QED  BY <3>4
  <2>. QED  BY <2>1, <2>3, <2>4 DEF Waits, Deadlines
<1>. QED  BY <1>9, <1>10, <1>11, <1>12, <1>13, <1>14 DEF TimerInv

\* The returns: the thread goes on, another is picked, or the hart idles.
LEMMA ReturnsInv ==
  ASSUME TimerInv, NEW h \in Harts, Returns(h)  PROVE TimerInv'
<1>1. TimerTypes /\ Never \in Nat \ {0}  BY InstantFacts DEF TimerInv
<1>2. slice[h] \in Nat \ {0} /\ moved[h] \in Nat \ {0} /\ cur[h] \in live \cup {None} /\ now \in Nat
  BY <1>1, TimerAssumption DEF TimerTypes
<1>3. CASE Resume(h)
  <2>1. CASE paused[h] = None
    <3>1. Return(h, cur[h], slice[h], moved[h], "user")  BY <1>3, <2>1 DEF Resume
    <3>. QED  BY <3>1, <1>2, ReturnInv
  <2>2. CASE paused[h] # None
    <3>. DEFINE mv == IF armed[h] = slice[h] THEN slice[h] ELSE moved[h]
    <3>1. Return(h, cur[h], now + paused[h], mv, "user")  BY <1>3, <2>2 DEF Resume
    <3>2. mv \in Nat \ {0} /\ now + paused[h] \in Nat \ {0}  BY <1>1, <1>2, <2>2 DEF TimerTypes
    <3>. HIDE DEF mv
    <3>. QED  BY <3>1, <3>2, <1>2, ReturnInv
  <2>. QED  BY <2>1, <2>2
<1>4. CASE GoIdle(h)
  <2>1. Return(h, None, Never, Never, "idle")  BY <1>4 DEF GoIdle
  <2>. QED  BY <2>1, <1>1, ReturnInv
<1>5. ASSUME NEW b \in Budgets, Pick(h, b)  PROVE TimerInv'
  <2>1. b \in live /\ Return(h, b, now + Slice, Never, "user")  BY <1>5 DEF Pick
  <2>2. now + Slice \in Nat \ {0}  BY <1>2, TimerAssumption
  <2>. QED  BY <2>1, <2>2, <1>1, ReturnInv
<1>. QED  BY <1>3, <1>4, <1>5 DEF Returns

\* Time passes.
LEMMA TickInv == ASSUME TimerInv, Tick  PROVE TimerInv'
<1>1. /\ now < MaxTime /\ now' = now + 1
      /\ UNCHANGED waitVars /\ UNCHANGED hintVars /\ UNCHANGED armVars /\ UNCHANGED <<cur, at, holder>>
  BY DEF Tick
<1>2. TimerTypes /\ Cached /\ WaitersLive /\ NotedHint /\ Set /\ Sections /\ NotedCovered  BY DEF TimerInv
<1>. USE DEF waitVars, hintVars, armVars
<1>3. TimerTypes'
  <2>1. now \in Nat /\ now' \in 0 .. MaxTime  BY <1>1, <1>2, TimerAssumption DEF TimerTypes
  <2>2. \A h \in Harts : paused'[h] # None => paused'[h] \in Nat /\ now' + paused'[h] > 0
    BY <1>1, <1>2, <2>1 DEF TimerTypes
  <2>. QED  BY <1>1, <1>2, <2>1, <2>2 DEF TimerTypes, WaitTypes
<1>4. Cached' /\ WaitersLive' /\ NotedHint'  BY <1>1, <1>2 DEF Cached, CachedIn, EarliestIn, WaitersLive, NotedHint
<1>5. Set' /\ Sections' /\ NotedCovered'  BY <1>1, <1>2 DEF Set, Sections, NotedCovered, TimersComeBy, Waits, Deadlines
<1>. QED  BY <1>3, <1>4, <1>5 DEF TimerInv

\* Every step keeps the invariant, whoever takes it.
LEMMA StepInv == TimerInv /\ [Next]_vars => TimerInv'
<1>. SUFFICES ASSUME TimerInv, [Next]_vars  PROVE TimerInv'  OBVIOUS
<1>1. CASE UNCHANGED vars
  BY <1>1 DEF vars, waitVars, hintVars, armVars, TimerInv, TimerTypes, WaitTypes, Cached, CachedIn, EarliestIn, WaitersLive,
              NotedHint, Set, Sections, NotedCovered, TimersComeBy, Waits, Deadlines
<1>2. CASE Tick  BY <1>2, TickInv
<1>3. ASSUME NEW h \in Harts, Call(h) \/ TimerInterrupt(h) \/ OtherInterrupt(h) \/ EnterLeft(h)  PROVE TimerInv'
  BY <1>3, EntriesInv
<1>4. ASSUME NEW h \in Harts, Returns(h)  PROVE TimerInv'  BY <1>4, ReturnsInv
<1>5. ASSUME NEW h \in Harts, NEW t \in Threads, Answer(h, t)  PROVE TimerInv'  BY <1>5, AnswerInv
<1>6. ASSUME NEW h \in Harts, NEW t \in Threads, NEW d \in Times \cup {Never}, NEW turn \in BOOLEAN,
             Block(h, t, d, turn)
      PROVE  TimerInv'
  BY <1>6, BlockInv
<1>9. ASSUME NEW h \in Harts, NEW t \in Threads, NEW d \in Times \cup {Never}, Continue(h, t, d)  PROVE TimerInv'
  BY <1>9, ContinueInv
<1>7. ASSUME NEW h \in Harts, NEW b \in Budgets, DestroyBudget(h, b)  PROVE TimerInv'
  BY <1>7, DestroyBudgetInv
<1>8. ASSUME NEW h \in Harts, NEW b \in Budgets \ {Root}, NEW d \in Times \cup {Never}, CreateBudget(h, b, d)
      PROVE  TimerInv'
  BY <1>8, CreateBudgetInv
<1>. QED  BY <1>1, <1>2, <1>3, <1>4, <1>5, <1>6, <1>7, <1>8, <1>9 DEF Next

----------------------------------------------------------------------------
(* The theorems. *)

\* The invariant holds from boot on, for any harts, threads, tree of budgets and slice.
THEOREM Invariance == Spec => []TimerInv
BY InitInv, StepInv, PTL DEF Spec

\* While every hart runs a thread or idles, some hart's timer comes at or before each deadline and each timeout, but one
\* that continue_turn began in its taker's entry since the hint was recomputed: no re-arm, moved slice, early end of a
\* wait or destruction misses one.
THEOREM NotedTimeoutsCovered == Spec => []NotedCovered
<1>1. TimerInv => NotedCovered  BY DEF TimerInv
<1>. QED  BY <1>1, Invariance, PTL

\* The timeouts' hint is exactly the earliest noted wait's, with its one payer or none, unless a wait that held it has
\* just ended; the deadlines' hint is never late.
THEOREM NotedHintExact == Spec => []NotedHint
<1>1. TimerInv => NotedHint  BY DEF TimerInv
<1>. QED  BY <1>1, Invariance, PTL

----------------------------------------------------------------------------
(* The arithmetic of the stride queue. *)

States == [pass : Nat, entry : Nat, rem : Nat, tie : Int, queued : BOOLEAN]

\* A quotient and its remainder.
LEMMA Divided ==
  ASSUME NEW a \in Nat, NEW d \in Nat \ {0}
  PROVE  a \div d \in Nat /\ a % d \in Nat /\ a % d < d /\ (a \div d) * d + (a % d) = a
<1>1. a \div d \in Nat  OBVIOUS
<1>2. a % d \in Nat /\ a % d < d  OBVIOUS
<1>3. (a \div d) * d + (a % d) = a  OBVIOUS
<1>. QED  BY <1>1, <1>2, <1>3

LEMMA Products ==
  ASSUME NEW a \in Nat, NEW b \in Nat, NEW c \in Nat
  PROVE  a * c \in Nat /\ (a + b) * c = a * c + b * c
OBVIOUS

\* A pass at or above the level, and what is above it.
LEMMA AboveFacts ==
  ASSUME NEW a \in Nat, NEW b \in Nat
  PROVE  /\ Above(a, b) \in Nat /\ Max2(a, 1) \in Nat \ {0} /\ Max2(a, b) \in Nat
         /\ a >= b => a = b + Above(a, b)
         /\ Above(b + a, b) = a
BY DEF Above, Max2

\* A charge moves the pass by just what ran, at the weight: nothing is rounded away, the
\* remainder stays below the weight, and a pass never falls.
THEOREM ChargeExact ==
  ASSUME NEW s \in States, NEW weight \in Nat \ {0}, NEW runtime \in Nat
  PROVE  LET c == charge(s, weight, runtime)
         IN  /\ c \in States /\ c.rem < weight /\ c.pass >= s.pass
             /\ c.pass * weight + c.rem = s.pass * weight + s.rem + Min2(runtime, RUNTIME_CAP) * STRIDE
<1>. DEFINE c == charge(s, weight, runtime)
            ran == Min2(runtime, RUNTIME_CAP) * STRIDE
            t == s.rem + ran
<1>1. s.rem \in Nat /\ s.pass \in Nat  BY DEF States
<1>2. ran \in Nat
  <2>1. Min2(runtime, RUNTIME_CAP) \in Nat /\ STRIDE \in Nat  BY StrideAssumption DEF Min2
  <2>. QED  BY <2>1, Products
<1>3. t \in Nat  BY <1>1, <1>2
<1>4. c = [s EXCEPT !.pass = s.pass + t \div weight, !.rem = t % weight]  BY DEF charge
<1>. HIDE DEF c, t
<1>5. PICK d, m : d = t \div weight /\ m = t % weight  OBVIOUS
<1>6. d \in Nat /\ m \in Nat /\ m < weight /\ d * weight + m = t  BY <1>3, <1>5, Divided
<1>7. c \in States /\ c.pass = s.pass + d /\ c.rem = m
  <2>1. c = [s EXCEPT !.pass = s.pass + d, !.rem = m]  BY <1>4, <1>5
  <2>2. PICK p \in Nat : p = s.pass + d  BY <1>1, <1>6
  <2>3. c = [s EXCEPT !.pass = p, !.rem = m] /\ m \in Nat  BY <1>6, <2>1, <2>2
  <2>. QED  BY <2>2, <2>3 DEF States
<1>8. c.pass * weight = s.pass * weight + d * weight /\ s.pass * weight \in Nat /\ d * weight \in Nat
  BY <1>1, <1>6, <1>7, Products
<1>9. t = s.rem + ran  BY DEF t
<1>10. c.pass * weight + c.rem = s.pass * weight + s.rem + ran
  <2>. HIDE DEF ran
  <2>. QED  BY <1>1, <1>2, <1>6, <1>7, <1>8, <1>9
<1>. QED  BY <1>1, <1>6, <1>7, <1>10 DEF c

\* A weight change restates what a budget owes above the floor, at the new weight, exactly,
\* weight 0 included.
THEOREM RescaleExact ==
  ASSUME NEW s \in States, NEW old \in Nat, NEW new \in Nat, NEW floor \in Nat
  PROVE  LET c == rescale(s, old, new, floor)
         IN  /\ c \in States /\ c.rem < Max2(new, 1) /\ c.pass >= floor
             /\ Owes(c, new, floor) = Owes(s, old, floor)
<1>. DEFINE c == rescale(s, old, new, floor)
            owed == Above(s.pass, floor) * Max2(old, 1) + s.rem
            w == Max2(new, 1)
<1>1. s.rem \in Nat /\ s.pass \in Nat  BY DEF States
<1>2. owed \in Nat /\ w \in Nat \ {0}
  <2>1. Above(s.pass, floor) \in Nat /\ Max2(old, 1) \in Nat /\ w \in Nat \ {0}  BY <1>1, AboveFacts
  <2>2. Above(s.pass, floor) * Max2(old, 1) \in Nat  BY <2>1, Products
  <2>. QED  BY <1>1, <2>1, <2>2
<1>3. c = [s EXCEPT !.pass = floor + owed \div w, !.rem = owed % w]  BY DEF rescale
<1>4. Owes(s, old, floor) = owed  BY DEF Owes
<1>. HIDE DEF c, owed, w
<1>5. PICK d, m : d = owed \div w /\ m = owed % w  OBVIOUS
<1>6. d \in Nat /\ m \in Nat /\ m < w /\ d * w + m = owed  BY <1>2, <1>5, Divided
<1>7. c \in States /\ c.pass = floor + d /\ c.rem = m
  <2>1. c = [s EXCEPT !.pass = floor + d, !.rem = m]  BY <1>3, <1>5
  <2>2. PICK p \in Nat : p = floor + d  BY <1>6
  <2>3. c = [s EXCEPT !.pass = p, !.rem = m] /\ m \in Nat  BY <1>6, <2>1, <2>2
  <2>. QED  BY <2>2, <2>3 DEF States
<1>8. Above(c.pass, floor) = d  BY <1>6, <1>7, AboveFacts
<1>9. Owes(c, new, floor) = d * w + m  BY <1>7, <1>8 DEF Owes, w
<1>. QED  BY <1>4, <1>6, <1>7, <1>9 DEF c, w

\* A destroyed budget's work since it entered joins what its parent owes, exactly: of the
\* parent's part below the floor nothing is kept, and the two remainders are added with
\* their carry.  A budget of weight 0 has not run since it entered.
THEOREM LiftExact ==
  ASSUME NEW parent \in States, NEW child \in States, NEW w_child \in Nat, NEW w_parent \in Nat \ {0},
         NEW f \in Nat, parent.rem < w_parent, w_child # 0 \/ child.pass <= Max2(child.entry, f)
  PROVE  LET c == lift(parent, child, w_child, w_parent, f)
         IN  /\ c \in States /\ c.rem < w_parent /\ c.pass >= parent.pass
             /\ Owes(c, w_parent, f) = (IF parent.pass >= f THEN Owes(parent, w_parent, f) ELSE 0)
                                       + Owes(child, w_child, Max2(child.entry, f))
<1>. DEFINE c == lift(parent, child, w_child, w_parent, f)
            over == Above(child.pass, Max2(child.entry, f))
            work == over * w_child + child.rem
            base == IF parent.pass >= f THEN parent.pass ELSE f
            had == IF parent.pass >= f THEN parent.rem ELSE 0
            rem == had + (work % w_parent)
<1>1. child.rem \in Nat /\ child.pass \in Nat /\ child.entry \in Nat /\ parent.rem \in Nat /\ parent.pass \in Nat
  BY DEF States
<1>2. over \in Nat /\ work \in Nat
  <2>1. Max2(child.entry, f) \in Nat  BY <1>1, AboveFacts
  <2>2. over \in Nat  BY <1>1, <2>1, AboveFacts
  <2>3. over * w_child \in Nat  BY <2>2, Products
  <2>. QED  BY <1>1, <2>2, <2>3
<1>3. Owes(child, w_child, Max2(child.entry, f)) = work
  <2>1. CASE w_child # 0
    <3>1. Max2(w_child, 1) = w_child  BY <2>1 DEF Max2
    <3>. QED  BY <3>1 DEF Owes
  <2>2. CASE w_child = 0
    <3>1. over = 0  BY <1>1, <2>2 DEF Above, Max2
    <3>2. over * Max2(w_child, 1) = 0 /\ over * w_child = 0  BY <2>2, <3>1 DEF Max2
    <3>. QED  BY <3>2 DEF Owes
  <2>. QED  BY <2>1, <2>2
<1>4. base \in Nat /\ base >= f /\ base >= parent.pass /\ had \in Nat /\ had < w_parent  BY <1>1
<1>5. c = [parent EXCEPT !.pass = base + work \div w_parent + rem \div w_parent, !.rem = rem % w_parent]
  BY DEF lift
<1>6. (IF parent.pass >= f THEN Owes(parent, w_parent, f) ELSE 0) = Above(base, f) * w_parent + had
  <2>1. CASE parent.pass >= f
    <3>1. Max2(w_parent, 1) = w_parent  BY DEF Max2
    <3>. QED  BY <2>1, <3>1 DEF Owes
  <2>2. CASE ~(parent.pass >= f)
    <3>1. Above(base, f) = 0  BY <2>2 DEF Above, Max2
    <3>2. Above(base, f) * w_parent = 0  BY <3>1
    <3>. QED  BY <2>2, <3>2
  <2>. QED  BY <2>1, <2>2
<1>. HIDE DEF c, over, work, base, had, rem
<1>7. PICK d, m : d = work \div w_parent /\ m = work % w_parent  OBVIOUS
<1>8. d \in Nat /\ m \in Nat /\ d * w_parent + m = work  BY <1>2, <1>7, Divided
<1>9. rem = had + m /\ rem \in Nat
  <2>1. rem = had + m  BY <1>7 DEF rem
  <2>. QED  BY <1>4, <1>8, <2>1
<1>10. PICK e, n : e = rem \div w_parent /\ n = rem % w_parent  OBVIOUS
<1>11. e \in Nat /\ n \in Nat /\ n < w_parent /\ e * w_parent + n = rem  BY <1>9, <1>10, Divided
<1>12. c \in States /\ c.pass = base + d + e /\ c.rem = n
  <2>1. c = [parent EXCEPT !.pass = base + d + e, !.rem = n]  BY <1>5, <1>7, <1>10
  <2>2. PICK p \in Nat : p = base + d + e  BY <1>4, <1>8, <1>11
  <2>3. c = [parent EXCEPT !.pass = p, !.rem = n] /\ n \in Nat  BY <1>11, <2>1, <2>2
  <2>. QED  BY <2>2, <2>3 DEF States
<1>13. PICK a : a = Above(base, f) /\ a \in Nat /\ base = f + a  BY <1>4, AboveFacts
<1>14. Above(c.pass, f) = a + d + e
  <2>1. c.pass = f + (a + d + e) /\ a + d + e \in Nat  BY <1>8, <1>11, <1>12, <1>13
  <2>. QED  BY <2>1, AboveFacts
<1>15. (a + d + e) * w_parent = a * w_parent + d * w_parent + e * w_parent
       /\ a * w_parent \in Nat /\ d * w_parent \in Nat /\ e * w_parent \in Nat
  <2>1. (a + d) * w_parent = a * w_parent + d * w_parent  BY <1>8, <1>13, Products
  <2>2. ((a + d) + e) * w_parent = (a + d) * w_parent + e * w_parent  BY <1>8, <1>11, <1>13, Products
  <2>. QED  BY <1>8, <1>11, <1>13, <2>1, <2>2, Products
<1>16. Owes(c, w_parent, f) = (a + d + e) * w_parent + n
  <2>1. Max2(w_parent, 1) = w_parent  BY DEF Max2
  <2>. QED  BY <1>12, <1>14, <2>1 DEF Owes
<1>17. Owes(c, w_parent, f) = a * w_parent + had + work
  BY <1>2, <1>4, <1>8, <1>9, <1>11, <1>15, <1>16
<1>18. c.pass >= parent.pass /\ c.rem < w_parent  BY <1>1, <1>4, <1>8, <1>11, <1>12
<1>19. PICK o : o = (IF parent.pass >= f THEN Owes(parent, w_parent, f) ELSE 0) /\ o = a * w_parent + had
  BY <1>6, <1>13
<1>20. PICK k : k = Owes(child, w_child, Max2(child.entry, f)) /\ k = work  BY <1>3
<1>21. Owes(c, w_parent, f) = o + k  BY <1>17, <1>19, <1>20
<1>. QED  BY <1>12, <1>18, <1>19, <1>20, <1>21 DEF c

\* Destroying a budget mints no time and loses none: once its weight is back with its
\* parent, which is restated, and its work is lifted, the parent owes what the two did,
\* the budget's since it entered.
THEOREM DestroyExact ==
  ASSUME NEW parent \in States, NEW child \in States, NEW w_child \in Nat, NEW w_old \in Nat,
         NEW w_new \in Nat \ {0}, NEW f \in Nat, w_child # 0 \/ child.pass <= Max2(child.entry, f)
  PROVE  Owes(lift(rescale(parent, w_old, w_new, f), child, w_child, w_new, f), w_new, f)
           = Owes(parent, w_old, f) + Owes(child, w_child, Max2(child.entry, f))
<1>1. PICK s : s = rescale(parent, w_old, w_new, f)  OBVIOUS
<1>2. s \in States /\ s.rem < Max2(w_new, 1) /\ s.pass >= f /\ Owes(s, w_new, f) = Owes(parent, w_old, f)
  <2>1. LET c == rescale(parent, w_old, w_new, f)
        IN  /\ c \in States /\ c.rem < Max2(w_new, 1) /\ c.pass >= f
            /\ Owes(c, w_new, f) = Owes(parent, w_old, f)
    <3>1. w_new \in Nat  OBVIOUS
    <3>. QED  BY <3>1, RescaleExact, ZenonT(120)
  <2>. QED  BY <1>1, <2>1, ZenonT(60)
<1>3. s.rem < w_new  BY <1>2 DEF Max2
<1>4. PICK c, o : c = lift(s, child, w_child, w_new, f) /\ o = (IF s.pass >= f THEN Owes(s, w_new, f) ELSE 0)  OBVIOUS
<1>5. s \in States /\ s.rem < w_new  BY <1>2, <1>3
<1>6. Owes(c, w_new, f) = o + Owes(child, w_child, Max2(child.entry, f))  BY <1>4, <1>5, LiftExact
<1>7. o = Owes(s, w_new, f)  BY <1>2, <1>4
<1>. QED  BY <1>1, <1>2, <1>4, <1>6, <1>7
=============================================================================
