--------------------------- MODULE FairQueueProofs ---------------------------
(***************************************************************************)
(* An endpoint's queue, for any threads, groups and limit: the lists are as *)
(* the checked build's audit wants them (AuditHolds), turns are fair         *)
(* (FairTurns), and the lists implement the one line of arrivals and takes   *)
(* (ImplementsOrder).                                                        *)
(***************************************************************************)
EXTENDS FairQueue, FiniteSetTheorems, WellFoundedInduction, TLAPS

-----------------------------------------------------------------------------
(* The invariant. *)

\* The keys of a list's members rise along it.
Rising(s, key) == \A i, j \in DOMAIN s : i < j => key[s[i]] < key[s[j]]

In(q)     == {t \in Senders : q.group[t] # None}
Nodes1(q) == Members(q.groups)
Kin(q, n) == {m \in Senders : q.group[m] = n}

\* A chain holds just these threads, in the order of their words.
Chain(s, T, seq) == s \in Seq(Senders) /\ Members(s) = T /\ Rising(s, seq)

\* The keys the lists are in order of.
Due(q)     == [n \in Senders |-> Larger(q.seq[n], q.node[n].taken)]
SendDue(q) == [n \in Senders |-> SendDueOf(q, n)]

\* No value of the counter is used twice.
Stamped(q, c) ==
  /\ \A t \in In(q) : q.seq[t] \in 1 .. c
  /\ \A t, u \in In(q) : q.seq[t] = q.seq[u] => t = u
  /\ \A n \in Nodes1(q) :
       /\ q.node[n].taken \in 0 .. c
       /\ \A t \in In(q) : q.node[n].taken # q.seq[t]
       /\ \A m \in Nodes1(q) : q.node[n].taken = q.node[m].taken => n = m \/ q.node[n].taken = 0

\* A node is its group's oldest member's, and lists and counts its members.
NodeOk(q, S, n) ==
  /\ q.group[n] = n
  /\ \A m \in Kin(q, n) : GroupOf[m] = GroupOf[n] /\ q.seq[n] <= q.seq[m]
  /\ q.node[n].count = Cardinality(Kin(q, n))
  /\ Chain(q.node[n].sends, Kin(q, n) \cap S, q.seq)
  /\ Chain(q.node[n].calls, Kin(q, n) \ S, q.seq)

\* Every message is in its group's one node.
Grouped(q, S) ==
  /\ S \subseteq In(q)
  /\ \A n \in Nodes1(q) : NodeOk(q, S, n)
  /\ \A t \in In(q) : q.group[t] \in Nodes1(q)
  /\ \A n, m \in Nodes1(q) : GroupOf[n] = GroupOf[m] => n = m

\* Both lists are in order.
Listed(q, S) ==
  /\ Rising(q.groups, Due(q)) /\ Rising(q.sends, SendDue(q))
  /\ Members(q.sends) = {n \in Nodes1(q) : Kin(q, n) \cap S # {}}

QueueInv(q, S, c) == q \in Queues /\ c \in Nat /\ Stamped(q, c) /\ Grouped(q, S) /\ Listed(q, S)

\* The list of the groups a receiver of this kind can take from, the message of each it
\* would take, and when that is due.
ListFor(q, calls)     == IF calls THEN q.groups ELSE q.sends
FirstFor(q, calls, n) == IF calls THEN Oldest(q, n) ELSE Head(q.node[n].sends)
KeyFor(q, calls, n)   == Larger(q.seq[FirstFor(q, calls, n)], q.node[n].taken)

\* A group was taken at most once past another's waiting message, and then is due after it.
Ahead(q, calls, g, h) ==
  \E x \in Members(ListFor(q, calls)) :
    /\ GroupOf[x] = g
    /\ \A y \in Members(ListFor(q, calls)) : GroupOf[y] = h => KeyFor(q, calls, x) < KeyFor(q, calls, y)
PassedOnce(q, p) ==
  /\ p \in [BOOLEAN -> [Groups -> [Groups -> {0, 1}]]]
  /\ \A calls \in BOOLEAN, g \in Groups, h \in Groups : p[calls][g][h] = 1 => Ahead(q, calls, g, h)

Inv == QueueInv(queue, sending, clock) /\ clock <= MaxClock /\ PassedOnce(queue, passed)

-----------------------------------------------------------------------------
(* Lists. *)

\* The naturals are well founded.
LEMMA NatWellFounded == IsWellFoundedOn({ss \in Nat \X Nat : ss[1] < ss[2]}, Nat)
BY NatLessThanWellFounded DEF OpToRel

\* A nonempty set of naturals has a least element.
LEMMA LeastNat ==
  ASSUME NEW S \in SUBSET Nat, S # {}
  PROVE  \E x \in S : \A y \in S : x <= y
<1>1. PICK R : R = {ss \in Nat \X Nat : ss[1] < ss[2]}  OBVIOUS
<1>2. IsWellFoundedOn(R, Nat)  BY <1>1, NatWellFounded
<1>3. \A x, y \in Nat : <<y, x>> \in R <=> y < x  BY <1>1
<1>4. PICK x \in S : \A y \in S : ~(<<y, x>> \in R)  BY <1>2, WFMin
<1>5. ASSUME NEW y \in S  PROVE x <= y
  <2>1. x \in Nat /\ y \in Nat /\ <<y, x>> \notin R  BY <1>4
  <2>2. ~(y < x)  BY <2>1, <1>3
  <2>. QED  BY <2>1, <2>2
<1>. QED  BY <1>5

\* A rising list holds each of its members once.
LEMMA RisingOnce ==
  ASSUME NEW T, NEW s \in Seq(T), NEW key, \A x \in Members(s) : key[x] \in Nat, Rising(s, key)
  PROVE  \A i, j \in DOMAIN s : s[i] = s[j] => i = j
<1>. SUFFICES ASSUME NEW i \in DOMAIN s, NEW j \in DOMAIN s, s[i] = s[j], i < j \/ j < i  PROVE FALSE
  OBVIOUS
<1>1. s[i] \in Members(s) /\ key[s[i]] \in Nat  BY DEF Members
<1>2. ~(key[s[i]] < key[s[i]])  BY <1>1
<1>. QED  BY <1>2 DEF Rising

\* Where a member is.
LEMMA Placed ==
  ASSUME NEW s, NEW x \in Members(s)
  PROVE  PlaceOf(s, x) \in DOMAIN s /\ s[PlaceOf(s, x)] = x
BY DEF PlaceOf, Members

\* A list without a member, or with one more at the end.
LEMMA WithoutFacts ==
  ASSUME NEW T, NEW s \in Seq(T), NEW key, \A x \in Members(s) : key[x] \in Nat, Rising(s, key), NEW x
  PROVE  /\ Without(s, x) \in Seq(T)
         /\ Members(Without(s, x)) = Members(s) \ {x}
         /\ Rising(Without(s, x), key)
<1>1. CASE x \notin Members(s)  BY <1>1 DEF Without
<1>2. CASE x \in Members(s)
  <2>. DEFINE at == PlaceOf(s, x)
              w == Without(s, x)
  <2>1. at \in 1 .. Len(s) /\ s[at] = x /\ Len(s) \in Nat  BY <1>2, Placed
  <2>2. w = [i \in 1 .. Len(s) - 1 |-> IF i < at THEN s[i] ELSE s[i + 1]]  BY <1>2 DEF Without
  <2>3. \A i \in 1 .. Len(s) : i # at => s[i] # x  BY <2>1, RisingOnce
  <2>. HIDE DEF at, w
  <2>4. w \in Seq(T) /\ DOMAIN w = 1 .. Len(s) - 1  BY <2>1, <2>2
  <2>5. \A i \in DOMAIN w : w[i] \in Members(s) /\ w[i] # x
    BY <2>1, <2>2, <2>3, <2>4 DEF Members
  <2>6. ASSUME NEW y \in Members(s), y # x  PROVE y \in Members(w)
    <3>1. PICK i \in 1 .. Len(s) : s[i] = y  BY DEF Members
    <3>2. i # at  BY <2>1, <3>1, <2>6
    <3>3. CASE i < at
      <4>1. i \in DOMAIN w /\ w[i] = y  BY <2>1, <2>2, <2>4, <3>1, <3>3
      <4>. QED  BY <4>1 DEF Members
    <3>4. CASE i > at
      <4>1. i - 1 \in DOMAIN w /\ w[i - 1] = y  BY <2>1, <2>2, <2>4, <3>1, <3>4
      <4>. QED  BY <4>1 DEF Members
    <3>. QED  BY <2>1, <3>1, <3>2, <3>3, <3>4
  <2>7. Members(w) = Members(s) \ {x}  BY <2>5, <2>6 DEF Members
  <2>8. ASSUME NEW i \in DOMAIN w, NEW j \in DOMAIN w, i < j  PROVE key[w[i]] < key[w[j]]
    <3>1. PICK a \in DOMAIN s, b \in DOMAIN s : a < b /\ w[i] = s[a] /\ w[j] = s[b]
      <4>1. CASE i < at /\ j < at
        <5>1. i \in DOMAIN s /\ j \in DOMAIN s  BY <2>1, <2>4
        <5>2. w[i] = s[i] /\ w[j] = s[j]  BY <2>1, <2>2, <2>4, <4>1
        <5>. QED  BY <5>1, <5>2, <2>8
      <4>2. CASE i < at /\ j >= at
        <5>1. i \in DOMAIN s /\ j + 1 \in DOMAIN s /\ i < j + 1  BY <2>1, <2>4, <2>8
        <5>. QED  BY <5>1, <2>1, <2>2, <2>4, <2>8, <4>2
      <4>3. CASE i >= at
        <5>1. i + 1 \in DOMAIN s /\ j + 1 \in DOMAIN s /\ i + 1 < j + 1 /\ j >= at  BY <2>1, <2>4, <2>8, <4>3
        <5>. QED  BY <5>1, <2>1, <2>2, <2>4, <2>8, <4>3
      <4>. QED  BY <4>1, <4>2, <4>3, <2>1, <2>4
    <3>. QED  BY <3>1 DEF Rising
  <2>. QED  BY <2>4, <2>7, <2>8 DEF Rising, w
<1>. QED  BY <1>1, <1>2

\* One more at the end, with a greater key than all.
LEMMA AppendFacts ==
  ASSUME NEW T, NEW s \in Seq(T), NEW x \in T
  PROVE  /\ Append(s, x) \in Seq(T) /\ Append(s, x) # <<>>
         /\ Members(Append(s, x)) = Members(s) \cup {x}
         /\ \A key : Rising(s, key) /\ (\A y \in Members(s) : key[y] < key[x]) => Rising(Append(s, x), key)
         /\ s # <<>> => Head(Append(s, x)) = Head(s)
<1>1. Append(s, x) \in Seq(T) /\ Len(Append(s, x)) = Len(s) + 1 /\ Len(s) \in Nat /\ Append(s, x) # <<>>  OBVIOUS
<1>2. \A i \in 1 .. Len(s) : Append(s, x)[i] = s[i]  OBVIOUS
<1>3. Append(s, x)[Len(s) + 1] = x  OBVIOUS
<1>. DEFINE a == Append(s, x)
<1>. HIDE DEF a
<1>4. DOMAIN a = 1 .. Len(s) + 1  BY <1>1 DEF a
<1>5. Members(a) = Members(s) \cup {x}
  <2>1. ASSUME NEW y \in Members(a)  PROVE y \in Members(s) \cup {x}
    <3>1. PICK i \in 1 .. Len(s) + 1 : y = a[i]  BY <1>4 DEF Members
    <3>. QED  BY <1>1, <1>2, <1>3, <3>1 DEF Members, a
  <2>2. ASSUME NEW y \in Members(s)  PROVE y \in Members(a)
    <3>1. PICK i \in 1 .. Len(s) : y = s[i]  BY DEF Members
    <3>2. i \in DOMAIN a /\ a[i] = y  BY <1>1, <1>2, <1>4, <3>1 DEF a
    <3>. QED  BY <3>2 DEF Members
  <2>3. x \in Members(a)
    <3>1. Len(s) + 1 \in DOMAIN a /\ a[Len(s) + 1] = x  BY <1>1, <1>3, <1>4 DEF a
    <3>. QED  BY <3>1 DEF Members
  <2>. QED  BY <2>1, <2>2, <2>3
<1>6. ASSUME NEW key, Rising(s, key), \A y \in Members(s) : key[y] < key[x]  PROVE Rising(a, key)
  <2>. SUFFICES ASSUME NEW i \in 1 .. Len(s) + 1, NEW j \in 1 .. Len(s) + 1, i < j  PROVE key[a[i]] < key[a[j]]
    BY <1>4 DEF Rising
  <2>1. i \in 1 .. Len(s) /\ a[i] = s[i] /\ s[i] \in Members(s)  BY <1>1, <1>2 DEF a, Members
  <2>2. CASE j = Len(s) + 1  BY <1>3, <1>6, <2>1, <2>2 DEF a
  <2>3. CASE j # Len(s) + 1
    <3>1. j \in 1 .. Len(s) /\ a[j] = s[j]  BY <1>1, <1>2, <2>3 DEF a
    <3>. QED  BY <1>6, <2>1, <3>1 DEF Rising
  <2>. QED  BY <2>2, <2>3
<1>7. ASSUME s # <<>>  PROVE Head(a) = Head(s)
  <2>1. 1 \in 1 .. Len(s)  BY <1>7
  <2>. QED  BY <1>1, <1>2, <1>7, <2>1 DEF a
<1>. QED  BY <1>1, <1>5, <1>6, <1>7 DEF a

\* The first of a rising list has its least key.
LEMMA HeadFacts ==
  ASSUME NEW T, NEW s \in Seq(T), s # <<>>, NEW key, Rising(s, key), \A x \in Members(s) : key[x] \in Nat
  PROVE  /\ Head(s) \in Members(s)
         /\ \A x \in Members(s) : x = Head(s) \/ key[Head(s)] < key[x]
<1>1. 1 \in DOMAIN s /\ Head(s) = s[1] /\ Len(s) \in Nat  OBVIOUS
<1>2. Head(s) \in Members(s)  BY <1>1 DEF Members
<1>3. ASSUME NEW x \in Members(s)  PROVE x = Head(s) \/ key[Head(s)] < key[x]
  <2>1. PICK i \in 1 .. Len(s) : x = s[i]  BY DEF Members
  <2>2. CASE i = 1  BY <1>1, <2>1, <2>2
  <2>3. CASE 1 < i  BY <1>1, <2>1, <2>3 DEF Rising
  <2>. QED  BY <2>1, <2>2, <2>3
<1>. QED  BY <1>2, <1>3

\* A list is empty just when it has no members.
LEMMA EmptyFacts ==
  ASSUME NEW T, NEW s \in Seq(T)
  PROVE  /\ s = <<>> <=> Members(s) = {}
         /\ Members(s) \subseteq T
<1>1. Members(s) \subseteq T  BY DEF Members
<1>2. ASSUME s # <<>>  PROVE Members(s) # {}
  <2>1. s[1] \in Members(s)  BY <1>2 DEF Members
  <2>. QED  BY <2>1
<1>3. ASSUME s = <<>>  PROVE Members(s) = {}  BY <1>3 DEF Members
<1>. QED  BY <1>1, <1>2, <1>3

\* y takes the place of x.
LEMMA ReplacedFacts ==
  ASSUME NEW T, NEW s \in Seq(T), NEW x \in Members(s), NEW y \in T, y = x \/ y \notin Members(s),
         NEW key, \A z \in Members(s) : key[z] \in Nat, Rising(s, key)
  PROVE  /\ Replaced(s, x, y) \in Seq(T)
         /\ Members(Replaced(s, x, y)) = (Members(s) \ {x}) \cup {y}
         /\ \A key2 : key2[y] = key[x] /\ (\A z \in Members(s) \ {x} : key2[z] = key[z])
                      => Rising(Replaced(s, x, y), key2)
<1>. DEFINE r == Replaced(s, x, y)
<1>1. r = [i \in 1 .. Len(s) |-> IF s[i] = x THEN y ELSE s[i]]  BY DEF Replaced
<1>2. Len(s) \in Nat /\ DOMAIN s = 1 .. Len(s)  OBVIOUS
<1>. HIDE DEF r
<1>3. r \in Seq(T) /\ DOMAIN r = 1 .. Len(s)  BY <1>1, <1>2
<1>4. Members(r) = (Members(s) \ {x}) \cup {y}
  <2>1. \A z \in Members(r) : z \in (Members(s) \ {x}) \cup {y}  BY <1>1, <1>2, <1>3 DEF Members
  <2>2. ASSUME NEW z \in Members(s) \ {x}  PROVE z \in Members(r)
    <3>1. PICK i \in 1 .. Len(s) : s[i] = z  BY DEF Members
    <3>. QED  BY <1>1, <1>3, <3>1 DEF Members
  <2>3. y \in Members(r)
    <3>1. PICK i \in 1 .. Len(s) : s[i] = x  BY DEF Members
    <3>. QED  BY <1>1, <1>3, <3>1 DEF Members
  <2>. QED  BY <2>1, <2>2, <2>3
<1>5. ASSUME NEW key2, key2[y] = key[x], \A z \in Members(s) \ {x} : key2[z] = key[z]  PROVE Rising(r, key2)
  <2>1. \A i \in 1 .. Len(s) : key2[r[i]] = key[s[i]]  BY <1>1, <1>5 DEF Members
  <2>. QED  BY <1>2, <1>3, <2>1 DEF Rising
<1>. QED  BY <1>3, <1>4, <1>5 DEF r

\* x's key rose: it moves back, and the list rises again.
LEMMA MovedBackFacts ==
  ASSUME NEW T, NEW s \in Seq(T), NEW x \in Members(s),
         NEW key, \A z \in Members(s) : key[z] \in Nat, Rising(s, key),
         NEW key2, \A z \in Members(s) : key2[z] \in Nat, \A z \in Members(s) \ {x} : key2[z] = key[z] /\ key2[z] # key2[x],
         key[x] <= key2[x]
  PROVE  /\ MovedBack(s, x, key2) \in Seq(T)
         /\ Members(MovedBack(s, x, key2)) = Members(s)
         /\ Rising(MovedBack(s, x, key2), key2)
<1>. DEFINE at == PlaceOf(s, x)
            Ends(j) == (\A i \in at + 1 .. j : key2[s[i]] <= key2[x]) /\ (j = Len(s) \/ key2[s[j + 1]] > key2[x])
            to == CHOOSE j \in at .. Len(s) : Ends(j)
            b == MovedBack(s, x, key2)
<1>1. at \in 1 .. Len(s) /\ s[at] = x /\ Len(s) \in Nat  BY Placed
<1>2. \A i \in 1 .. Len(s) : s[i] \in Members(s) /\ key[s[i]] \in Nat /\ key2[s[i]] \in Nat  BY DEF Members
<1>3. \A i \in 1 .. Len(s) : i # at => s[i] # x  BY <1>1, RisingOnce
<1>4. \E j \in at .. Len(s) : Ends(j)
  <2>. DEFINE Stop == {j \in at .. Len(s) : j = Len(s) \/ key2[s[j + 1]] > key2[x]}
  <2>1. Stop \in SUBSET Nat /\ Stop # {}  BY <1>1
  <2>2. PICK j \in Stop : \A i \in Stop : j <= i  BY <2>1, LeastNat
  <2>3. ASSUME NEW i \in at + 1 .. j  PROVE key2[s[i]] <= key2[x]
    <3>1. i - 1 \in at .. Len(s) /\ i - 1 # Len(s) /\ i - 1 < j /\ (i - 1) + 1 = i /\ i \in 1 .. Len(s)  BY <1>1, <2>2
    <3>2. i - 1 \notin Stop  BY <2>2, <3>1, <2>1
    <3>3. ~(key2[s[i]] > key2[x])  BY <3>1, <3>2
    <3>. QED  BY <1>1, <1>2, <3>1, <3>3, SMTT(30)
  <2>. QED  BY <2>2, <2>3
<1>5. to \in at .. Len(s) /\ Ends(to)  BY <1>4
<1>6. b = [i \in 1 .. Len(s) |-> IF i < at \/ i > to THEN s[i] ELSE IF i = to THEN x ELSE s[i + 1]]
  BY DEF MovedBack
<1>. HIDE DEF at, to, b
<1>7. b \in Seq(T) /\ DOMAIN b = 1 .. Len(s)
  <2>1. \A i \in 1 .. Len(s) : ~(i < at \/ i > to) /\ i # to => i + 1 \in 1 .. Len(s)  BY <1>1, <1>5
  <2>. QED  BY <1>1, <1>6, <2>1
\* Where each of b's members comes from.
<1>8. \A i \in 1 .. Len(s) :
        \/ (i < at \/ i > to) /\ b[i] = s[i]
        \/ i = to /\ b[i] = x
        \/ at <= i /\ i < to /\ i + 1 \in 1 .. Len(s) /\ b[i] = s[i + 1]
  BY <1>1, <1>5, <1>6
<1>9. Members(b) = Members(s)
  <2>1. \A y \in Members(b) : y \in Members(s)  BY <1>2, <1>7, <1>8 DEF Members
  <2>2. ASSUME NEW y \in Members(s)  PROVE y \in Members(b)
    <3>1. PICK i \in 1 .. Len(s) : s[i] = y  BY DEF Members
    <3>2. CASE i < at \/ i > to  BY <1>1, <1>5, <1>6, <1>7, <3>1, <3>2 DEF Members
    <3>3. CASE i = at
      <4>1. to \in DOMAIN b /\ b[to] = y  BY <1>1, <1>5, <1>6, <1>7, <3>1, <3>3
      <4>. QED  BY <4>1 DEF Members
    <3>4. CASE at < i /\ i <= to
      <4>1. i - 1 \in DOMAIN b /\ b[i - 1] = y  BY <1>1, <1>5, <1>6, <1>7, <3>1, <3>4
      <4>. QED  BY <4>1 DEF Members
    <3>. QED  BY <1>1, <1>5, <3>1, <3>2, <3>3, <3>4
  <2>. QED  BY <2>1, <2>2
\* The members that x passed have lower keys, those behind it higher ones.
<1>10. \A i \in 1 .. Len(s) : i # at => key2[s[i]] = key[s[i]] /\ key2[s[i]] # key2[x]  BY <1>2, <1>3
<1>11. \A i \in 1 .. Len(s) : i # at /\ i <= to => key2[s[i]] < key2[x]
  <2>. SUFFICES ASSUME NEW i \in 1 .. Len(s), i # at, i <= to  PROVE key2[s[i]] < key2[x]  OBVIOUS
  <2>1. CASE i < at
    <3>1. key[s[i]] < key[s[at]]  BY <1>1, <2>1 DEF Rising
    <3>. QED  BY <1>1, <1>2, <1>10, <3>1
  <2>2. CASE i > at
    <3>1. i \in at + 1 .. to  BY <1>1, <1>5, <2>2
    <3>2. key2[s[i]] <= key2[x]  BY <1>5, <3>1
    <3>. QED  BY <1>1, <1>2, <1>10, <2>2, <3>2
  <2>. QED  BY <1>1, <2>1, <2>2
<1>12. \A i \in 1 .. Len(s) : i > to => key2[x] < key2[s[i]]
  <2>. SUFFICES ASSUME NEW i \in 1 .. Len(s), i > to  PROVE key2[x] < key2[s[i]]  OBVIOUS
  <2>1. to # Len(s) /\ to + 1 \in 1 .. Len(s) /\ i # at /\ to + 1 # at  BY <1>1, <1>5
  <2>2. key2[s[to + 1]] > key2[x]  BY <1>5, <2>1
  <2>3. i = to + 1 \/ key[s[to + 1]] < key[s[i]]  BY <1>1, <1>5, <2>1 DEF Rising
  <2>. QED  BY <1>1, <1>2, <1>10, <2>1, <2>2, <2>3
<1>13. \A i, j \in 1 .. Len(s) : i # at /\ j # at /\ i < j => key2[s[i]] < key2[s[j]]
  BY <1>10 DEF Rising
<1>14. ASSUME NEW i \in 1 .. Len(s), NEW j \in 1 .. Len(s), i < j  PROVE key2[b[i]] < key2[b[j]]
  <2>1. CASE i = to
    <3>1. j > to /\ b[j] = s[j] /\ b[i] = x  BY <1>1, <1>5, <1>8, <1>14, <2>1
    <3>. QED  BY <1>12, <3>1
  <2>2. CASE j = to
    <3>1. PICK a \in 1 .. Len(s) : b[i] = s[a] /\ a # at /\ a <= to  BY <1>1, <1>5, <1>8, <1>14, <2>2
    <3>2. b[j] = x  BY <1>1, <1>5, <1>8, <2>2
    <3>. QED  BY <1>11, <3>1, <3>2
  <2>3. CASE i # to /\ j # to
    <3>1. PICK a \in 1 .. Len(s) : b[i] = s[a] /\ a # at /\ ((a = i /\ (i < at \/ i > to)) \/ (a = i + 1 /\ at <= i /\ i < to))
      BY <1>1, <1>5, <1>8, <2>3
    <3>2. PICK c \in 1 .. Len(s) : b[j] = s[c] /\ c # at /\ ((c = j /\ (j < at \/ j > to)) \/ (c = j + 1 /\ at <= j /\ j < to))
      BY <1>1, <1>5, <1>8, <2>3
    <3>3. a < c  BY <1>1, <1>5, <1>14, <3>1, <3>2
    <3>. QED  BY <1>13, <3>1, <3>2, <3>3
  <2>. QED  BY <2>1, <2>2, <2>3
<1>. QED  BY <1>7, <1>9, <1>14 DEF Rising, b

\* A list in order of one key is in order of another that agrees on its members.
LEMMA RisingSame ==
  ASSUME NEW s, NEW k1, NEW k2, \A x \in Members(s) : k1[x] = k2[x], Rising(s, k1)
  PROVE  Rising(s, k2)
BY DEF Rising, Members

-----------------------------------------------------------------------------
(* What the invariant says of a node and of the keys. *)

\* The parts of a queue.
LEMMA Parts ==
  ASSUME NEW q \in Queues
  PROVE  /\ q.groups \in Seq(Senders) /\ q.sends \in Seq(Senders)
         /\ q.node \in [Senders -> Nodes] /\ q.group \in [Senders -> Senders \cup {None}]
         /\ q.seq \in [Senders -> Nat]
         /\ Members(q.groups) \subseteq Senders /\ Members(q.sends) \subseteq Senders
         /\ \A n \in Senders :
              /\ q.node[n].sends \in Seq(Senders) /\ q.node[n].calls \in Seq(Senders)
              /\ q.node[n].count \in 0 .. WaitCap /\ q.node[n].taken \in Nat
<1>1. /\ q.groups \in Seq(Senders) /\ q.sends \in Seq(Senders)
      /\ q.node \in [Senders -> Nodes] /\ q.group \in [Senders -> Senders \cup {None}]
      /\ q.seq \in [Senders -> Nat]
  BY DEF Queues
<1>2. \A n \in Senders :
              /\ q.node[n].sends \in Seq(Senders) /\ q.node[n].calls \in Seq(Senders)
              /\ q.node[n].count \in 0 .. WaitCap /\ q.node[n].taken \in Nat
  BY <1>1 DEF Nodes
<1>. QED  BY <1>1, <1>2, EmptyFacts

\* The oldest of two chains' members.
LEMMA OldestFacts ==
  ASSUME NEW q, NEW n, q.seq \in [Senders -> Nat], NEW A, NEW B, A \cup B # {},
         Chain(q.node[n].sends, A, q.seq), Chain(q.node[n].calls, B, q.seq)
  PROVE  Oldest(q, n) \in A \cup B /\ \A x \in A \cup B : q.seq[Oldest(q, n)] <= q.seq[x]
<1>. DEFINE s == q.node[n].sends
            c == q.node[n].calls
<1>1. /\ s \in Seq(Senders) /\ Members(s) = A /\ Rising(s, q.seq)
      /\ c \in Seq(Senders) /\ Members(c) = B /\ Rising(c, q.seq)
  BY DEF Chain
<1>2. Oldest(q, n) = IF s = <<>> THEN Head(c)
                     ELSE IF c = <<>> \/ q.seq[Head(s)] < q.seq[Head(c)] THEN Head(s) ELSE Head(c)
  BY DEF Oldest
<1>. HIDE DEF s, c
<1>3. A \subseteq Senders /\ B \subseteq Senders /\ (s = <<>> <=> A = {}) /\ (c = <<>> <=> B = {})
  BY <1>1, EmptyFacts
<1>4. /\ \A x \in Members(s) : q.seq[x] \in Nat
      /\ \A x \in Members(c) : q.seq[x] \in Nat
  BY <1>1, <1>3
<1>5. ASSUME s # <<>>  PROVE Head(s) \in A /\ \A x \in A : q.seq[Head(s)] <= q.seq[x]
  <2>1. Head(s) \in Members(s) /\ \A x \in Members(s) : x = Head(s) \/ q.seq[Head(s)] < q.seq[x]
    BY <1>1, <1>4, <1>5, HeadFacts, ZenonT(60)
  <2>. QED  BY <1>1, <1>4, <2>1, SMTT(30)
<1>6. ASSUME c # <<>>  PROVE Head(c) \in B /\ \A x \in B : q.seq[Head(c)] <= q.seq[x]
  <2>1. Head(c) \in Members(c) /\ \A x \in Members(c) : x = Head(c) \/ q.seq[Head(c)] < q.seq[x]
    BY <1>1, <1>4, <1>6, HeadFacts, ZenonT(60)
  <2>. QED  BY <1>1, <1>4, <2>1, SMTT(30)
<1>7. \A x \in A \cup B : q.seq[x] \in Nat  BY <1>3
<1>8. CASE s = <<>>  BY <1>2, <1>3, <1>6, <1>8
<1>9. CASE s # <<>> /\ c = <<>>  BY <1>2, <1>3, <1>5, <1>9
<1>10. CASE s # <<>> /\ c # <<>> /\ q.seq[Head(s)] < q.seq[Head(c)]
  <2>1. Oldest(q, n) = Head(s)  BY <1>2, <1>10
  <2>. QED  BY <2>1, <1>5, <1>6, <1>7, <1>10
<1>11. CASE s # <<>> /\ c # <<>> /\ ~(q.seq[Head(s)] < q.seq[Head(c)])
  <2>1. Oldest(q, n) = Head(c)  BY <1>2, <1>11
  <2>. QED  BY <2>1, <1>5, <1>6, <1>7, <1>11
<1>. QED  BY <1>8, <1>9, <1>10, <1>11

\* A node is a thread whose message is the oldest of its group's; its first send, if it has
\* one, is the oldest of its sends.
LEMMA NodeFacts ==
  ASSUME NEW q, NEW S, NEW c, QueueInv(q, S, c), NEW n \in Members(q.groups)
  PROVE  /\ n \in Senders /\ n \in In(q) /\ n \in Kin(q, n) /\ n # None
         /\ Kin(q, n) \subseteq In(q) /\ IsFiniteSet(Kin(q, n)) /\ Cardinality(Kin(q, n)) \in Nat
         /\ Oldest(q, n) = n /\ DueOf(q, n) = Due(q)[n]
         /\ q.node[n].sends = <<>> <=> Kin(q, n) \cap S = {}
         /\ q.node[n].sends = <<>> <=> n \notin Members(q.sends)
         /\ Kin(q, n) \cap S # {} =>
              /\ Head(q.node[n].sends) \in Kin(q, n) \cap S
              /\ \A x \in Kin(q, n) \cap S : q.seq[Head(q.node[n].sends)] <= q.seq[x]
<1>0. q \in Queues /\ Stamped(q, c) /\ Grouped(q, S) /\ Listed(q, S)  BY DEF QueueInv
<1>1. NodeOk(q, S, n)  BY <1>0 DEF Grouped, Nodes1
<1>2. n \in Senders /\ n # None  BY <1>0, Parts, SendersAssumption
<1>3. n \in In(q) /\ n \in Kin(q, n)  BY <1>1, <1>2 DEF NodeOk, In, Kin
<1>4. Kin(q, n) \subseteq In(q)  BY <1>2 DEF Kin, In
<1>5. IsFiniteSet(Kin(q, n)) /\ Cardinality(Kin(q, n)) \in Nat
  <2>1. Kin(q, n) \subseteq Senders  BY DEF Kin
  <2>. QED  BY <2>1, SendersAssumption, FS_Subset, FS_CardinalityType
<1>6. PICK A, B : A = Kin(q, n) \cap S /\ B = Kin(q, n) \ S  OBVIOUS
<1>7. Chain(q.node[n].sends, A, q.seq) /\ Chain(q.node[n].calls, B, q.seq) /\ A \cup B = Kin(q, n)
  BY <1>1, <1>6 DEF NodeOk
<1>8. q.seq \in [Senders -> Nat]  BY <1>0, Parts
<1>9. Oldest(q, n) \in Kin(q, n) /\ \A x \in Kin(q, n) : q.seq[Oldest(q, n)] <= q.seq[x]
  BY <1>3, <1>7, <1>8, OldestFacts
<1>10. Oldest(q, n) = n
  <2>1. q.seq[n] <= q.seq[Oldest(q, n)] /\ q.seq[Oldest(q, n)] <= q.seq[n]  BY <1>1, <1>3, <1>9 DEF NodeOk
  <2>2. q.seq[n] \in Nat /\ q.seq[Oldest(q, n)] \in Nat  BY <1>2, <1>8, <1>9 DEF Kin
  <2>3. q.seq[n] = q.seq[Oldest(q, n)]  BY <2>1, <2>2
  <2>. QED  BY <1>0, <1>3, <1>4, <1>9, <2>3 DEF Stamped
<1>11. DueOf(q, n) = Due(q)[n]  BY <1>2, <1>10 DEF DueOf, Due
<1>12. q.node[n].sends = <<>> <=> A = {}  BY <1>7, EmptyFacts DEF Chain
<1>13. q.node[n].sends = <<>> <=> n \notin Members(q.sends)
  BY <1>0, <1>6, <1>12 DEF Listed, Nodes1
<1>14. ASSUME A # {}  PROVE Head(q.node[n].sends) \in A /\ \A x \in A : q.seq[Head(q.node[n].sends)] <= q.seq[x]
  <2>1. \A x \in A : q.seq[x] \in Nat  BY <1>6, <1>8 DEF Kin
  <2>2. /\ Head(q.node[n].sends) \in Members(q.node[n].sends)
        /\ \A x \in Members(q.node[n].sends) :
             x = Head(q.node[n].sends) \/ q.seq[Head(q.node[n].sends)] < q.seq[x]
    BY <1>7, <1>12, <1>14, <2>1, HeadFacts DEF Chain
  <2>. QED  BY <1>7, <2>1, <2>2 DEF Chain
<1>. QED  BY <1>2, <1>3, <1>4, <1>5, <1>6, <1>10, <1>11, <1>12, <1>13, <1>14

\* When a group with this message first, taken then, is due.
LEMMA KeyTypes ==
  ASSUME NEW q, NEW S, NEW c, QueueInv(q, S, c), NEW n \in Members(q.groups), NEW t \in In(q)
  PROVE  /\ Larger(q.seq[t], q.node[n].taken) \in 1 .. c
         /\ q.seq[t] <= Larger(q.seq[t], q.node[n].taken) /\ q.node[n].taken <= Larger(q.seq[t], q.node[n].taken)
<1>1. q.seq[t] \in 1 .. c /\ q.node[n].taken \in 0 .. c /\ c \in Nat  BY DEF QueueInv, Stamped, Nodes1
<1>. QED  BY <1>1 DEF Larger

\* No two groups are due at once, whatever message of each comes first.
LEMMA KeysApart ==
  ASSUME NEW q, NEW S, NEW c, QueueInv(q, S, c), NEW n \in Members(q.groups), NEW m \in Members(q.groups),
         n # m, NEW t \in In(q), NEW u \in In(q), t # u
  PROVE  Larger(q.seq[t], q.node[n].taken) # Larger(q.seq[u], q.node[m].taken)
<1>1. q.seq[t] \in 1 .. c /\ q.seq[u] \in 1 .. c /\ q.node[n].taken \in 0 .. c /\ q.node[m].taken \in 0 .. c /\ c \in Nat
  BY DEF QueueInv, Stamped, Nodes1
<1>2. q.seq[t] # q.seq[u]  BY DEF QueueInv, Stamped
<1>3. q.node[n].taken # q.seq[u] /\ q.node[m].taken # q.seq[t]  BY DEF QueueInv, Stamped, Nodes1
<1>4. q.node[n].taken = q.node[m].taken => q.node[n].taken = 0  BY DEF QueueInv, Stamped, Nodes1
<1>. QED  BY <1>1, <1>2, <1>3, <1>4 DEF Larger

\* The members of different groups are different, and the node of each is its own.
LEMMA KinApart ==
  ASSUME NEW q, NEW S, NEW c, QueueInv(q, S, c), NEW n \in Members(q.groups), NEW m \in Members(q.groups), n # m
  PROVE  /\ \A t \in Kin(q, n) : t \notin Kin(q, m)
         /\ GroupOf[n] # GroupOf[m]
BY DEF Kin, QueueInv, Grouped, Nodes1

\* The keys the lists are in order of are values of the counter.
LEMMA ListKeys ==
  ASSUME NEW q, NEW S, NEW c, QueueInv(q, S, c)
  PROVE  /\ \A n \in Members(q.groups) : Due(q)[n] \in 1 .. c /\ Due(q)[n] = Larger(q.seq[n], q.node[n].taken)
         /\ Members(q.sends) \subseteq Members(q.groups)
         /\ \A n \in Members(q.sends) :
              /\ SendDue(q)[n] \in 1 .. c
              /\ SendDue(q)[n] = Larger(q.seq[Head(q.node[n].sends)], q.node[n].taken)
              /\ Head(q.node[n].sends) \in Kin(q, n) \cap S
<1>1. ASSUME NEW n \in Members(q.groups)
      PROVE  Due(q)[n] \in 1 .. c /\ Due(q)[n] = Larger(q.seq[n], q.node[n].taken)
  <2>1. n \in In(q) /\ n \in Senders  BY NodeFacts
  <2>2. Due(q)[n] = Larger(q.seq[n], q.node[n].taken)  BY <2>1 DEF Due
  <2>. QED  BY <2>1, <2>2, KeyTypes
<1>2. Members(q.sends) \subseteq Members(q.groups)  BY DEF QueueInv, Listed, Nodes1
<1>3. ASSUME NEW n \in Members(q.sends)
      PROVE  /\ SendDue(q)[n] \in 1 .. c /\ SendDue(q)[n] = Larger(q.seq[Head(q.node[n].sends)], q.node[n].taken)
             /\ Head(q.node[n].sends) \in Kin(q, n) \cap S
  <2>1. n \in Members(q.groups) /\ Kin(q, n) \cap S # {}  BY DEF QueueInv, Listed, Nodes1
  <2>2. Head(q.node[n].sends) \in Kin(q, n) \cap S /\ n \in Senders /\ Kin(q, n) \subseteq In(q)  BY <2>1, NodeFacts
  <2>3. SendDue(q)[n] = Larger(q.seq[Head(q.node[n].sends)], q.node[n].taken)  BY <2>2 DEF SendDue, SendDueOf
  <2>4. Head(q.node[n].sends) \in In(q)  BY <2>2
  <2>. QED  BY <2>1, <2>2, <2>3, <2>4, KeyTypes
<1>. QED  BY <1>1, <1>2, <1>3

\* A node that a step does not touch.
LEMMA NodeKept ==
  ASSUME NEW q, NEW S, NEW r, NEW S2, NEW n, NodeOk(q, S, n), r.node[n] = q.node[n],
         Kin(r, n) = Kin(q, n), n \in Kin(r, n), \A m \in Kin(q, n) : r.seq[m] = q.seq[m] /\ (m \in S2 <=> m \in S)
  PROVE  NodeOk(r, S2, n)
<1>1. r.group[n] = n /\ n \in Kin(q, n)  BY DEF Kin
<1>2. Kin(r, n) \cap S2 = Kin(q, n) \cap S /\ Kin(r, n) \ S2 = Kin(q, n) \ S  OBVIOUS
<1>3. ASSUME NEW s, NEW T \in SUBSET Kin(q, n), Chain(s, T, q.seq)  PROVE Chain(s, T, r.seq)
  <2>1. Members(s) = T /\ Rising(s, q.seq)  BY <1>3 DEF Chain
  <2>2. Rising(s, r.seq)  BY <2>1, RisingSame
  <2>. QED  BY <1>3, <2>2 DEF Chain
<1>4. Chain(r.node[n].sends, Kin(r, n) \cap S2, r.seq) /\ Chain(r.node[n].calls, Kin(r, n) \ S2, r.seq)
  BY <1>2, <1>3 DEF NodeOk
<1>. QED  BY <1>1, <1>4 DEF NodeOk

-----------------------------------------------------------------------------
(* A message joins. *)

\* permit_send leaves room, and the message comes last in its group.
LEMMA EnqueueKeeps ==
  ASSUME NEW S, NEW c, QueueInv(queue, S, c), NEW t \in Senders, t \notin In(queue), NEW send \in BOOLEAN, ~Full(t)
  PROVE  QueueInv(Enqueue(queue, t, send, c + 1), IF send THEN S \cup {t} ELSE S, c + 1)
<1>. DEFINE now == c + 1
            S2 == IF send THEN S \cup {t} ELSE S
            new == Find(t) = {}
            n == IF new THEN t ELSE CHOOSE x \in Find(t) : TRUE
            old == IF new THEN NoNode ELSE queue.node[n]
            node2 == [old EXCEPT !.sends = IF send THEN Append(@, t) ELSE @,
                                 !.calls = IF send THEN @ ELSE Append(@, t),
                                 !.count = @ + 1]
<1>1. PICK q : q = queue  OBVIOUS
<1>2. PICK r : r = Enqueue(queue, t, send, c + 1)  OBVIOUS
<1>3. /\ r.groups = IF new THEN Append(q.groups, t) ELSE q.groups
      /\ r.sends = IF send /\ old.sends = <<>> THEN Append(q.sends, n) ELSE q.sends
      /\ r.node = [q.node EXCEPT ![n] = node2]
      /\ r.group = [q.group EXCEPT ![t] = n]
      /\ r.seq = [q.seq EXCEPT ![t] = now]
      /\ r = [groups |-> r.groups, sends |-> r.sends, node |-> r.node, group |-> r.group, seq |-> r.seq]
  BY <1>1, <1>2 DEF Enqueue
<1>4. QueueInv(q, S, c) /\ q \in Queues /\ Stamped(q, c) /\ Grouped(q, S) /\ Listed(q, S) /\ c \in Nat
  BY <1>1 DEF QueueInv
<1>5. t \notin In(q) /\ t # None /\ q.group[t] = None /\ t \notin S
  BY <1>1, <1>4, Parts, SendersAssumption DEF In, Grouped
<1>6. t \notin Members(q.groups) /\ t \notin Members(q.sends)
  BY <1>4, <1>5, NodeFacts, ListKeys
<1>7. new => \A x \in Members(q.groups) : GroupOf[x] # GroupOf[t]  BY <1>1 DEF Find
<1>8. ~new => n \in Members(q.groups) /\ GroupOf[n] = GroupOf[t] /\ q.node[n].count < WaitCap
  <2>1. ~new => n \in Find(t)  OBVIOUS
  <2>2. ~new => n \in Members(q.groups) /\ GroupOf[n] = GroupOf[t]  BY <1>1, <2>1 DEF Find
  <2>3. ~new => ~(q.node[n].count >= WaitCap)  BY <1>1, <2>1 DEF Full
  <2>4. ~new => q.node[n].count \in 0 .. WaitCap /\ WaitCap \in Nat  BY <1>4, <2>2, Parts, CapAssumption
  <2>. QED  BY <2>2, <2>3, <2>4
<1>9. n \in Senders  BY <1>4, <1>8, Parts
\* The node before.
<1>. DEFINE K == IF new THEN {} ELSE Kin(q, n)
<1>10. /\ old \in Nodes /\ Chain(old.sends, K \cap S, q.seq) /\ Chain(old.calls, K \ S, q.seq)
       /\ old.count = Cardinality(K) /\ IsFiniteSet(K) /\ old.count + 1 \in 0 .. WaitCap
       /\ K \subseteq In(q) /\ old.taken \in 0 .. c
  <2>1. CASE new
    <3>1. old = NoNode /\ K = {}  BY <2>1
    <3>2. <<>> \in Seq(Senders) /\ Members(<<>>) = {} /\ Rising(<<>>, q.seq)
      <4>1. DOMAIN <<>> = {}  OBVIOUS
      <4>. QED  BY <4>1 DEF Members, Rising
    <3>3. NoNode.sends = <<>> /\ NoNode.calls = <<>> /\ NoNode.count = 0 /\ NoNode.taken = 0 /\ NoNode \in Nodes
      BY CapAssumption DEF NoNode, Nodes
    <3>4. Cardinality({}) = 0 /\ IsFiniteSet({})  BY FS_EmptySet
    <3>5. K \cap S = {} /\ K \ S = {}  BY <3>1
    <3>6. 0 + 1 \in 0 .. WaitCap /\ 0 \in 0 .. c  BY CapAssumption, <1>4
    <3>. HIDE DEF old, K
    <3>. QED  BY <3>1, <3>2, <3>3, <3>4, <3>5, <3>6 DEF Chain
  <2>2. CASE ~new
    <3>1. old = q.node[n] /\ K = Kin(q, n) /\ n \in Members(q.groups)  BY <1>1, <1>8, <2>2
    <3>2. NodeOk(q, S, n) /\ q.node[n].taken \in 0 .. c  BY <1>4, <3>1 DEF Grouped, Nodes1, Stamped
    <3>3. IsFiniteSet(Kin(q, n)) /\ Kin(q, n) \subseteq In(q)  BY <1>4, <3>1, NodeFacts
    <3>4. q.node[n] \in Nodes /\ q.node[n].count + 1 \in 0 .. WaitCap  BY <1>4, <1>8, <1>9, <2>2, Parts, CapAssumption
    <3>. HIDE DEF old, K
    <3>. QED  BY <3>1, <3>2, <3>3, <3>4 DEF NodeOk
  <2>. QED  BY <2>1, <2>2
<1>11. t \notin K /\ \A x \in K : q.seq[x] \in 1 .. c  BY <1>4, <1>5, <1>10 DEF Stamped
<1>12. old.sends \in Seq(Senders) /\ old.calls \in Seq(Senders)  BY <1>10 DEF Chain
<1>. HIDE DEF new, n, old, K
\* The node after.
<1>13. /\ node2.sends = (IF send THEN Append(old.sends, t) ELSE old.sends)
       /\ node2.calls = (IF send THEN old.calls ELSE Append(old.calls, t))
       /\ node2.count = old.count + 1 /\ node2.taken = old.taken /\ node2 \in Nodes
  BY <1>10, <1>12, AppendFacts DEF Nodes
<1>. HIDE DEF node2, S2
<1>14. r \in Queues
  <2>1. r.groups \in Seq(Senders) /\ r.sends \in Seq(Senders)
    BY <1>3, <1>4, <1>9, Parts, AppendFacts
  <2>2. r.node \in [Senders -> Nodes] /\ r.group \in [Senders -> Senders \cup {None}] /\ r.seq \in [Senders -> Nat]
    BY <1>3, <1>4, <1>9, <1>13, Parts
  <2>. QED  BY <1>3, <2>1, <2>2 DEF Queues
<1>15. /\ r.node[n] = node2 /\ \A x \in Senders \ {n} : r.node[x] = q.node[x]
       /\ r.group[t] = n /\ \A x \in Senders \ {t} : r.group[x] = q.group[x]
       /\ r.seq[t] = now /\ \A x \in Senders \ {t} : r.seq[x] = q.seq[x]
  BY <1>3, <1>4, <1>9, Parts
<1>16. In(r) = In(q) \cup {t} /\ \A x \in In(q) : r.seq[x] = q.seq[x] /\ x # t
  BY <1>5, <1>9, <1>15, SendersAssumption DEF In
<1>17. Members(r.groups) = Members(q.groups) \cup {n} /\ (new => n = t) /\ (~new => n # t)
  <2>1. CASE new  BY <1>3, <1>4, <2>1, Parts, AppendFacts DEF n
  <2>2. CASE ~new  BY <1>3, <1>6, <1>8, <2>2
  <2>. QED  BY <2>1, <2>2
<1>18. Kin(r, n) = K \cup {t} /\ \A x \in Members(q.groups) \ {n} : Kin(r, x) = Kin(q, x)
  <2>1. ASSUME NEW x \in Members(q.groups) \ {n}  PROVE Kin(r, x) = Kin(q, x)
    <3>1. x # None /\ x # n  BY <1>4, <2>1, NodeFacts
    <3>. QED  BY <1>5, <1>15, <3>1 DEF Kin
  <2>2. Kin(r, n) = K \cup {t}
    <3>1. CASE new
      <4>1. \A x \in Senders : q.group[x] # t
        BY <1>4, <1>5, <1>6 DEF Grouped, Nodes1, In
      <4>. QED  BY <1>15, <1>17, <3>1, <4>1 DEF Kin, K
    <3>2. CASE ~new  BY <1>15, <3>2, <1>5, <1>17 DEF Kin, K
    <3>. QED  BY <3>1, <3>2
  <2>. QED  BY <2>1, <2>2
<1>19. r.node[n].taken = old.taken /\ (new => old.taken = 0) /\ (~new => old = q.node[n])
  BY <1>1, <1>13, <1>15 DEF old, NoNode
\* The parts of the invariant.
<1>20. Stamped(r, now)
  <2>1. \A x \in In(r) : r.seq[x] \in 1 .. now  BY <1>4, <1>15, <1>16 DEF Stamped
  <2>2. \A x, y \in In(r) : r.seq[x] = r.seq[y] => x = y
    <3>1. \A x \in In(q) : r.seq[x] # now  BY <1>4, <1>16 DEF Stamped
    <3>. QED  BY <1>4, <1>15, <1>16, <3>1 DEF Stamped
  <2>3. \A x \in Members(r.groups) : r.node[x].taken \in 0 .. c /\
          (r.node[x].taken = 0 \/ (x \in Members(q.groups) /\ r.node[x].taken = q.node[x].taken))
    <3>. SUFFICES ASSUME NEW x \in Members(r.groups)
                  PROVE  r.node[x].taken \in 0 .. c /\
                         (r.node[x].taken = 0 \/ (x \in Members(q.groups) /\ r.node[x].taken = q.node[x].taken))
      OBVIOUS
    <3>1. CASE x = n  BY <1>8, <1>10, <1>19, <3>1 DEF old
    <3>2. CASE x # n
      <4>1. x \in Members(q.groups) /\ x \in Senders  BY <1>4, <1>17, <3>2, Parts
      <4>. QED  BY <4>1, <3>2, <1>4, <1>15 DEF Stamped, Nodes1
    <3>. QED  BY <3>1, <3>2
  <2>4. \A x \in Members(r.groups) : \A u \in In(r) : r.node[x].taken # r.seq[u]
    <3>. SUFFICES ASSUME NEW x \in Members(r.groups), NEW u \in In(r)  PROVE r.node[x].taken # r.seq[u]  OBVIOUS
    <3>1. CASE u = t  BY <1>4, <1>15, <2>3, <3>1
    <3>2. CASE u # t
      <4>1. u \in In(q) /\ r.seq[u] = q.seq[u] /\ q.seq[u] \in 1 .. c  BY <1>4, <1>16, <3>2 DEF Stamped
      <4>. QED  BY <1>4, <2>3, <4>1 DEF Stamped, Nodes1
    <3>. QED  BY <3>1, <3>2
  <2>5. \A x, y \in Members(r.groups) : r.node[x].taken = r.node[y].taken => x = y \/ r.node[x].taken = 0
    BY <1>4, <2>3 DEF Stamped, Nodes1
  <2>6. \A x \in Members(r.groups) : r.node[x].taken \in 0 .. now  BY <1>4, <2>3
  <2>. QED  BY <2>1, <2>2, <2>4, <2>5, <2>6 DEF Stamped, Nodes1
<1>21. NodeOk(r, S2, n)
  <2>1. r.group[n] = n
    <3>1. CASE new  BY <1>15, <1>17, <3>1
    <3>2. CASE ~new
      <4>1. q.group[n] = n  BY <1>4, <1>8, <3>2 DEF Grouped, Nodes1, NodeOk
      <4>. QED  BY <1>9, <1>15, <1>17, <3>2, <4>1
    <3>. QED  BY <3>1, <3>2
  <2>2. \A m \in Kin(r, n) : GroupOf[m] = GroupOf[n]
    <3>1. \A m \in K : GroupOf[m] = GroupOf[n]  BY <1>4, <1>8 DEF K, Grouped, NodeOk, Nodes1
    <3>2. GroupOf[t] = GroupOf[n]  BY <1>8, <1>17
    <3>. QED  BY <1>18, <3>1, <3>2
  <2>3. \A m \in Kin(r, n) : r.seq[n] <= r.seq[m]
    <3>1. CASE new
      <4>1. K = {} /\ n = t  BY <1>17, <3>1 DEF K
      <4>. QED  BY <1>4, <1>15, <1>18, <4>1
    <3>2. CASE ~new
      <4>1. n \in In(q) /\ K = Kin(q, n) /\ n \in Members(q.groups)  BY <1>4, <1>8, <3>2, NodeFacts DEF K
      <4>2. r.seq[n] = q.seq[n] /\ q.seq[n] \in 1 .. c  BY <1>4, <1>16, <4>1 DEF Stamped
      <4>3. \A m \in K : q.seq[n] <= q.seq[m] /\ r.seq[m] = q.seq[m]
        BY <1>4, <1>10, <1>16, <4>1 DEF Grouped, Nodes1, NodeOk
      <4>. QED  BY <1>4, <1>15, <1>18, <4>2, <4>3
    <3>. QED  BY <3>1, <3>2
  <2>4. r.node[n].count = Cardinality(Kin(r, n))
    BY <1>10, <1>11, <1>13, <1>15, <1>18, FS_AddElement, ZenonT(120)
  <2>5. \A x \in K : r.seq[x] = q.seq[x] /\ r.seq[x] < r.seq[t] /\ x # t
    BY <1>4, <1>10, <1>11, <1>15, <1>16
  <2>6. ASSUME NEW s, NEW T \in SUBSET K, Chain(s, T, q.seq)
        PROVE  Chain(s, T, r.seq) /\ Chain(Append(s, t), T \cup {t}, r.seq)
    <3>1. s \in Seq(Senders) /\ Members(s) = T /\ Rising(s, q.seq)  BY <2>6 DEF Chain
    <3>2. Rising(s, r.seq)  BY <2>5, <3>1, RisingSame
    <3>. QED  BY <2>5, <3>1, <3>2, AppendFacts DEF Chain
  <2>7. Chain(r.node[n].sends, Kin(r, n) \cap S2, r.seq) /\ Chain(r.node[n].calls, Kin(r, n) \ S2, r.seq)
    <3>1. CASE send
      <4>1. Kin(r, n) \cap S2 = (K \cap S) \cup {t} /\ Kin(r, n) \ S2 = K \ S  BY <1>11, <1>18, <3>1 DEF S2
      <4>2. Chain(Append(old.sends, t), (K \cap S) \cup {t}, r.seq) /\ Chain(old.calls, K \ S, r.seq)
        BY <1>10, <2>6
      <4>. QED  BY <1>13, <1>15, <3>1, <4>1, <4>2
    <3>2. CASE ~send
      <4>1. Kin(r, n) \cap S2 = K \cap S /\ Kin(r, n) \ S2 = (K \ S) \cup {t}  BY <1>5, <1>11, <1>18, <3>2 DEF S2
      <4>2. Chain(Append(old.calls, t), (K \ S) \cup {t}, r.seq) /\ Chain(old.sends, K \cap S, r.seq)
        BY <1>10, <2>6
      <4>. QED  BY <1>13, <1>15, <3>2, <4>1, <4>2
    <3>. QED  BY <3>1, <3>2
  <2>. QED  BY <2>1, <2>2, <2>3, <2>4, <2>7 DEF NodeOk
<1>22. ASSUME NEW x \in Members(q.groups) \ {n}  PROVE NodeOk(r, S2, x)
  <2>1. NodeOk(q, S, x)  BY <1>4 DEF Grouped, Nodes1
  <2>2. x \in Senders /\ x \in Kin(q, x) /\ Kin(q, x) \subseteq In(q)  BY <1>4, NodeFacts
  <2>3. \A m \in Kin(q, x) : r.seq[m] = q.seq[m] /\ (m \in S2 <=> m \in S)  BY <1>16, <2>2 DEF S2
  <2>. QED  BY <1>15, <1>18, <2>1, <2>2, <2>3, NodeKept
<1>23. Grouped(r, S2)
  <2>1. S2 \subseteq In(r)  BY <1>4, <1>16 DEF Grouped, S2
  <2>2. \A x \in In(r) : r.group[x] \in Members(r.groups)
    BY <1>4, <1>15, <1>16, <1>17 DEF Grouped, Nodes1, In
  <2>3. \A x, y \in Members(r.groups) : GroupOf[x] = GroupOf[y] => x = y
    BY <1>4, <1>7, <1>8, <1>17 DEF Grouped, Nodes1
  <2>. QED  BY <1>17, <1>21, <1>22, <2>1, <2>2, <2>3 DEF Grouped, Nodes1
<1>24. Members(r.sends) = {x \in Members(r.groups) : Kin(r, x) \cap S2 # {}}
  <2>1. Members(q.sends) = {x \in Members(q.groups) : Kin(q, x) \cap S # {}}  BY <1>4 DEF Listed, Nodes1
  <2>2. \A x \in Members(q.groups) \ {n} : Kin(r, x) \cap S2 = Kin(q, x) \cap S
    BY <1>4, <1>16, <1>18, NodeFacts DEF S2
  <2>3. old.sends = <<>> <=> K \cap S = {}  BY <1>10, EmptyFacts DEF Chain
  <2>4. n \in Members(q.sends) <=> K \cap S # {}  BY <1>6, <1>8, <1>17, <2>1 DEF K
  <2>5. Kin(r, n) \cap S2 = (K \cap S) \cup (IF send THEN {t} ELSE {})  BY <1>5, <1>11, <1>18 DEF S2
  <2>6. Members(r.sends) = Members(q.sends) \cup (IF send THEN {n} ELSE {})
    <3>1. Members(Append(q.sends, n)) = Members(q.sends) \cup {n}  BY <1>4, <1>9, Parts, AppendFacts
    <3>. QED  BY <1>3, <2>3, <2>4, <3>1
  <2>. QED  BY <1>17, <2>1, <2>2, <2>4, <2>5, <2>6
<1>25. Rising(r.groups, Due(r))
  <2>1. \A x \in Members(q.groups) : Due(r)[x] = Due(q)[x] /\ Due(q)[x] \in 1 .. c
    <3>. SUFFICES ASSUME NEW x \in Members(q.groups)  PROVE Due(r)[x] = Due(q)[x] /\ Due(q)[x] \in 1 .. c  OBVIOUS
    <3>1. x \in In(q) /\ x \in Senders  BY <1>4, NodeFacts
    <3>2. r.seq[x] = q.seq[x] /\ r.node[x].taken = q.node[x].taken  BY <1>6, <1>15, <1>16, <1>17, <1>19, <3>1
    <3>. QED  BY <1>4, <3>1, <3>2, ListKeys DEF Due
  <2>2. Rising(q.groups, Due(q))  BY <1>4 DEF Listed
  <2>3. Rising(q.groups, Due(r))  BY <2>1, <2>2, RisingSame
  <2>4. CASE new
    <3>1. Due(r)[t] = now  BY <1>4, <1>15, <1>17, <1>19, <2>4 DEF Due, Larger
    <3>2. \A x \in Members(q.groups) : Due(r)[x] < Due(r)[t]  BY <1>4, <2>1, <3>1
    <3>3. Rising(Append(q.groups, t), Due(r))  BY <1>4, <2>3, <3>2, Parts, AppendFacts
    <3>. QED  BY <1>3, <2>4, <3>3
  <2>5. CASE ~new  BY <1>3, <2>3, <2>5
  <2>. QED  BY <2>4, <2>5
<1>26. Rising(r.sends, SendDue(r))
  <2>1. \A x \in Members(q.sends) : SendDue(r)[x] = SendDue(q)[x] /\ SendDue(q)[x] \in 1 .. c
    <3>. SUFFICES ASSUME NEW x \in Members(q.sends)  PROVE SendDue(r)[x] = SendDue(q)[x] /\ SendDue(q)[x] \in 1 .. c
      OBVIOUS
    <3>1. x \in Members(q.groups) /\ x \in Senders /\ Head(q.node[x].sends) \in Kin(q, x) \cap S /\ Kin(q, x) \subseteq In(q)
      BY <1>4, ListKeys, NodeFacts
    <3>2. q.node[x].sends # <<>>  BY <1>4, <3>1, NodeFacts
    <3>3. Head(r.node[x].sends) = Head(q.node[x].sends) /\ r.node[x].taken = q.node[x].taken
      <4>1. CASE x = n
        <5>1. old = q.node[x]  BY <1>6, <1>17, <1>19, <3>1, <4>1
        <5>2. Head(Append(old.sends, t)) = Head(old.sends)  BY <1>12, <3>2, <5>1, AppendFacts
        <5>. QED  BY <1>13, <1>15, <4>1, <5>1, <5>2
      <4>2. CASE x # n  BY <1>15, <3>1, <4>2
      <4>. QED  BY <4>1, <4>2
    <3>4. r.seq[Head(q.node[x].sends)] = q.seq[Head(q.node[x].sends)]  BY <1>16, <3>1
    <3>5. SendDue(r)[x] = SendDue(q)[x]  BY <3>1, <3>3, <3>4 DEF SendDue, SendDueOf
    <3>. QED  BY <1>4, <3>5, ListKeys
  <2>2. Rising(q.sends, SendDue(q))  BY <1>4 DEF Listed
  <2>3. Rising(q.sends, SendDue(r))  BY <2>1, <2>2, RisingSame
  <2>4. CASE send /\ old.sends = <<>>
    <3>1. r.node[n].sends = Append(<<>>, t)  BY <1>13, <1>15, <2>4
    <3>2. Head(r.node[n].sends) = t  BY <3>1
    <3>3. SendDue(r)[n] = now
      <4>1. r.node[n].taken \in 0 .. c  BY <1>10, <1>19
      <4>. QED  BY <1>4, <1>9, <1>15, <3>2, <4>1 DEF SendDue, SendDueOf, Larger
    <3>4. \A x \in Members(q.sends) : SendDue(r)[x] < SendDue(r)[n]  BY <1>4, <2>1, <3>3
    <3>5. Rising(Append(q.sends, n), SendDue(r))  BY <1>4, <1>9, <2>3, <3>4, Parts, AppendFacts
    <3>. QED  BY <1>3, <2>4, <3>5
  <2>5. CASE ~(send /\ old.sends = <<>>)  BY <1>3, <2>3, <2>5
  <2>. QED  BY <2>4, <2>5
<1>27. now \in Nat  BY <1>4
<1>28. QueueInv(r, S2, now)  BY <1>14, <1>20, <1>23, <1>24, <1>25, <1>26, <1>27 DEF QueueInv, Listed, Nodes1
<1>. QED  BY <1>2, <1>28 DEF S2

-----------------------------------------------------------------------------
(* A group has its turn. *)

\* A list with a member moved to its end, where its key is now greatest.
LEMMA MovedLast ==
  ASSUME NEW T, NEW s \in Seq(T), NEW x \in Members(s), NEW key, \A z \in Members(s) : key[z] \in Nat, Rising(s, key)
  PROVE  /\ Append(Without(s, x), x) \in Seq(T) /\ Members(Append(Without(s, x), x)) = Members(s)
         /\ \A key2 : (\A z \in Members(s) \ {x} : key2[z] = key[z] /\ key2[z] < key2[x])
                      => Rising(Append(Without(s, x), x), key2)
<1>1. Without(s, x) \in Seq(T) /\ Members(Without(s, x)) = Members(s) \ {x} /\ Rising(Without(s, x), key)
  BY WithoutFacts
<1>2. x \in T  BY EmptyFacts
<1>3. PICK w : w = Without(s, x)  OBVIOUS
<1>4. ASSUME NEW key2, \A z \in Members(s) \ {x} : key2[z] = key[z] /\ key2[z] < key2[x]  PROVE Rising(Append(w, x), key2)
  <2>1. Rising(w, key2)  BY <1>1, <1>3, <1>4, RisingSame
  <2>. QED  BY <1>1, <1>2, <1>3, <1>4, <2>1, AppendFacts
<1>5. Append(w, x) \in Seq(T) /\ Members(Append(w, x)) = Members(w) \cup {x}  BY <1>1, <1>2, <1>3, AppendFacts
<1>6. Members(Append(w, x)) = Members(s)  BY <1>1, <1>3, <1>5
<1>. QED  BY <1>3, <1>4, <1>5, <1>6

\* The fields of a queue whose group has had its turn.
LEMMA ServedFields ==
  ASSUME NEW q, NEW S, NEW c, QueueInv(q, S, c), NEW t \in In(q), NEW now \in Nat, NEW r, r = Served(q, t, now)
  PROVE  LET n == q.group[t]
         IN  /\ r = [groups |-> r.groups, sends |-> r.sends, node |-> r.node, group |-> r.group, seq |-> r.seq]
             /\ r.groups = Append(Without(q.groups, n), n)
             /\ r.sends = IF n \in Members(q.sends) THEN Append(Without(q.sends, n), n) ELSE q.sends
             /\ r.node = [q.node EXCEPT ![n] = [@ EXCEPT !.taken = now]]
             /\ r.group = q.group /\ r.seq = q.seq
<1>1. q.group[t] \in Members(q.groups)  BY DEF QueueInv, Grouped, Nodes1
<1>2. q \in Queues  BY DEF QueueInv
<1>. QED  BY <1>1, <1>2 DEF Served, Queues

LEMMA ServedKeeps ==
  ASSUME NEW q, NEW S, NEW c, QueueInv(q, S, c), NEW t \in In(q)
  PROVE  QueueInv(Served(q, t, c + 1), S, c + 1)
<1>1. q \in Queues /\ Stamped(q, c) /\ Grouped(q, S) /\ Listed(q, S) /\ c \in Nat  BY DEF QueueInv
<1>2. PICK now, n : now = c + 1 /\ n = q.group[t]  OBVIOUS
<1>3. PICK r : r = Served(q, t, now)  OBVIOUS
<1>4. /\ r = [groups |-> r.groups, sends |-> r.sends, node |-> r.node, group |-> r.group, seq |-> r.seq]
      /\ r.groups = Append(Without(q.groups, n), n)
      /\ r.sends = IF n \in Members(q.sends) THEN Append(Without(q.sends, n), n) ELSE q.sends
      /\ r.node = [q.node EXCEPT ![n] = [@ EXCEPT !.taken = now]]
      /\ r.group = q.group /\ r.seq = q.seq
  <2>1. now \in Nat  BY <1>1, <1>2
  <2>. QED  BY <2>1, <1>2, <1>3, ServedFields
<1>5. n \in Members(q.groups) /\ n \in Senders /\ now \in Nat  BY <1>1, <1>2, Parts DEF Grouped, Nodes1
<1>6. /\ r.node[n].sends = q.node[n].sends /\ r.node[n].calls = q.node[n].calls
      /\ r.node[n].count = q.node[n].count /\ r.node[n].taken = now
      /\ \A x \in Senders \ {n} : r.node[x] = q.node[x]
      /\ r.node \in [Senders -> Nodes]
  <2>1. q.node[n] \in Nodes /\ q.node \in [Senders -> Nodes]  BY <1>1, <1>5, Parts
  <2>2. r.node[n] = [q.node[n] EXCEPT !.taken = now]  BY <1>4, <1>5, <2>1
  <2>3. [q.node[n] EXCEPT !.taken = now] \in Nodes  BY <1>5, <2>1 DEF Nodes
  <2>. QED  BY <1>4, <1>5, <2>1, <2>2, <2>3, SMTT(60) DEF Nodes
<1>7. /\ \A x \in Members(q.groups) : Due(q)[x] \in Nat /\ Due(q)[x] <= c
      /\ \A x \in Members(q.sends) : SendDue(q)[x] \in Nat /\ SendDue(q)[x] <= c
      /\ Members(q.sends) \subseteq Members(q.groups) /\ Members(q.groups) \subseteq Senders
  <2>1. Members(q.groups) \subseteq Senders  BY <1>1, Parts
  <2>2. \A x \in Members(q.groups) : Due(q)[x] \in 1 .. c  BY ListKeys
  <2>3. \A x \in Members(q.sends) : SendDue(q)[x] \in 1 .. c  BY ListKeys
  <2>4. Members(q.sends) \subseteq Members(q.groups)  BY ListKeys
  <2>. QED  BY <1>1, <2>1, <2>2, <2>3, <2>4
<1>8. \A x \in Members(q.groups) \ {n} : Due(r)[x] = Due(q)[x]  BY <1>4, <1>6, <1>7 DEF Due
<1>9. \A x \in Members(q.sends) \ {n} : SendDue(r)[x] = SendDue(q)[x]  BY <1>4, <1>6, <1>7 DEF SendDue, SendDueOf
<1>10. Due(r)[n] = now
  <2>1. n \in In(q)  BY <1>5, NodeFacts
  <2>2. q.seq[n] \in 1 .. c  BY <1>1, <2>1 DEF Stamped
  <2>3. Due(r)[n] = Larger(q.seq[n], now)  BY <1>4, <1>5, <1>6 DEF Due
  <2>4. \A x \in 1 .. c : x < now  BY <1>1, <1>2
  <2>5. q.seq[n] < now  BY <2>2, <2>4
  <2>. QED  BY <2>3, <2>5 DEF Larger
<1>11. n \in Members(q.sends) => SendDue(r)[n] = now
  <2>. SUFFICES ASSUME n \in Members(q.sends)  PROVE SendDue(r)[n] = now  OBVIOUS
  <2>1. Head(q.node[n].sends) \in In(q)  BY <1>5, ListKeys, NodeFacts
  <2>2. q.seq[Head(q.node[n].sends)] \in 1 .. c  BY <1>1, <2>1 DEF Stamped
  <2>3. SendDue(r)[n] = Larger(q.seq[Head(q.node[n].sends)], now)  BY <1>4, <1>5, <1>6 DEF SendDue, SendDueOf
  <2>4. \A x \in 1 .. c : x < now  BY <1>1, <1>2
  <2>5. q.seq[Head(q.node[n].sends)] < now  BY <2>2, <2>4
  <2>. QED  BY <2>3, <2>5 DEF Larger
<1>12. Rising(q.groups, Due(q)) /\ Rising(q.sends, SendDue(q))  BY <1>1 DEF Listed
<1>13. r.groups \in Seq(Senders) /\ Members(r.groups) = Members(q.groups) /\ Rising(r.groups, Due(r))
  <2>1. \A z \in Members(q.groups) \ {n} : Due(r)[z] = Due(q)[z] /\ Due(r)[z] < Due(r)[n]
    BY <1>1, <1>2, <1>7, <1>8, <1>10
  <2>. QED  BY <1>1, <1>4, <1>5, <1>7, <1>12, <2>1, Parts, MovedLast, SMTT(30)
<1>14. r.sends \in Seq(Senders) /\ Members(r.sends) = Members(q.sends) /\ Rising(r.sends, SendDue(r))
  <2>1. CASE n \in Members(q.sends)
    <3>1. \A z \in Members(q.sends) \ {n} : SendDue(r)[z] = SendDue(q)[z] /\ SendDue(r)[z] < SendDue(r)[n]
      BY <1>1, <1>2, <1>7, <1>9, <1>11, <2>1
    <3>2. q.sends \in Seq(Senders) /\ r.sends = Append(Without(q.sends, n), n)  BY <1>1, <1>4, <2>1, Parts
    <3>3. \A z \in Members(q.sends) : SendDue(q)[z] \in Nat  BY <1>7
    <3>. QED  BY <1>12, <2>1, <3>1, <3>2, <3>3, MovedLast
  <2>2. CASE n \notin Members(q.sends)
    <3>1. Rising(q.sends, SendDue(r))  BY <1>9, <1>12, <2>2, RisingSame
    <3>. QED  BY <1>1, <1>4, <2>2, <3>1, Parts
  <2>. QED  BY <2>1, <2>2
<1>15. r \in Queues  BY <1>1, <1>4, <1>6, <1>13, <1>14, Parts DEF Queues
<1>16. In(r) = In(q) /\ \A x : Kin(r, x) = Kin(q, x)  BY <1>4 DEF In, Kin
<1>17. Stamped(r, now)
  <2>1. \A x \in In(r) : r.seq[x] \in 1 .. now /\ r.seq[x] # now  BY <1>1, <1>2, <1>4, <1>16 DEF Stamped
  <2>2. \A x \in Members(r.groups) : r.node[x].taken \in 0 .. now
    BY <1>1, <1>2, <1>5, <1>6, <1>7, <1>13 DEF Stamped, Nodes1
  <2>3. \A x \in Members(r.groups) : x # n => r.node[x].taken = q.node[x].taken /\ r.node[x].taken # now
    BY <1>1, <1>2, <1>6, <1>7, <1>13 DEF Stamped, Nodes1
  <2>4. \A x, y \in Members(r.groups) : r.node[x].taken = r.node[y].taken => x = y \/ r.node[x].taken = 0
    BY <1>1, <1>6, <1>13, <2>3 DEF Stamped, Nodes1
  <2>5. \A x \in Members(r.groups) : \A u \in In(r) : r.node[x].taken # r.seq[u]
    BY <1>1, <1>4, <1>6, <1>13, <1>16, <2>1, <2>3 DEF Stamped, Nodes1
  <2>6. \A x, y \in In(r) : r.seq[x] = r.seq[y] => x = y  BY <1>1, <1>4, <1>16 DEF Stamped
  <2>. QED  BY <2>1, <2>2, <2>4, <2>5, <2>6 DEF Stamped, Nodes1
<1>18. Grouped(r, S)
  <2>1. ASSUME NEW x \in Members(q.groups)  PROVE NodeOk(r, S, x)
    <3>1. NodeOk(q, S, x)  BY <1>1 DEF Grouped, Nodes1
    <3>2. r.node[x].sends = q.node[x].sends /\ r.node[x].calls = q.node[x].calls /\ r.node[x].count = q.node[x].count
      BY <1>6, <1>7
    <3>. QED  BY <1>4, <1>16, <3>1, <3>2 DEF NodeOk
  <2>. QED  BY <1>1, <1>4, <1>13, <1>16, <2>1 DEF Grouped, Nodes1
<1>19. Listed(r, S)  BY <1>1, <1>13, <1>14, <1>16 DEF Listed, Nodes1
<1>. QED  BY <1>2, <1>3, <1>5, <1>15, <1>17, <1>18, <1>19 DEF QueueInv

-----------------------------------------------------------------------------
(* A message leaves. *)

\* The node without t, and its other members.
Left(q, t) ==
  LET old == q.node[q.group[t]]
  IN  [sends |-> Without(old.sends, t), calls |-> Without(old.calls, t), count |-> old.count - 1, taken |-> old.taken]
Rest(q, t) == Kin(q, q.group[t]) \ {t}
Cut(q, t) == [q EXCEPT !.group[t] = None, !.node[q.group[t]] = Left(q, t)]

\* Every node of r was one of q's, of the same group, last taken then, with all its members.
Handed(q, r) ==
  /\ r.seq = q.seq
  /\ \A y \in Members(r.groups) : \E x \in Members(q.groups) :
       GroupOf[x] = GroupOf[y] /\ r.node[y].taken = q.node[x].taken /\ Kin(r, y) \subseteq Kin(q, x)

\* Taking a member that is not the first leaves the first.
LEMMA HeadStays ==
  ASSUME NEW T, NEW s \in Seq(T), s # <<>>, NEW key, Rising(s, key), \A x \in Members(s) : key[x] \in Nat,
         NEW x, x # Head(s)
  PROVE  Without(s, x) # <<>> /\ Head(Without(s, x)) = Head(s)
<1>1. PICK w : w = Without(s, x)  OBVIOUS
<1>2. w \in Seq(T) /\ Members(w) = Members(s) \ {x} /\ Rising(w, key)  BY <1>1, WithoutFacts
<1>3. Head(s) \in Members(s) /\ \A y \in Members(s) : y = Head(s) \/ key[Head(s)] < key[y]  BY HeadFacts
<1>4. w # <<>>  BY <1>2, <1>3, EmptyFacts
<1>5. Head(w) \in Members(w) /\ \A y \in Members(w) : y = Head(w) \/ key[Head(w)] < key[y]
  BY <1>2, <1>4, HeadFacts
<1>6. key[Head(s)] \in Nat /\ key[Head(w)] \in Nat  BY <1>2, <1>3, <1>5, SMTT(30)
<1>. QED  BY <1>1, <1>2, <1>3, <1>4, <1>5, <1>6

\* What is left of the node.
LEMMA LeftFacts ==
  ASSUME NEW q, NEW S, NEW c, QueueInv(q, S, c), NEW t \in In(q), NEW n, n = q.group[t]
  PROVE  /\ n \in Members(q.groups) /\ n \in Senders /\ n # None /\ t \in Senders /\ t # None /\ t \in Kin(q, n)
         /\ Left(q, t) \in Nodes /\ Left(q, t).taken = q.node[n].taken
         /\ Chain(Left(q, t).sends, Rest(q, t) \cap S, q.seq) /\ Chain(Left(q, t).calls, Rest(q, t) \ S, q.seq)
         /\ Left(q, t).count = Cardinality(Rest(q, t)) /\ (Left(q, t).count = 0 <=> Rest(q, t) = {})
<1>1. q \in Queues /\ Stamped(q, c) /\ Grouped(q, S) /\ Listed(q, S) /\ c \in Nat  BY DEF QueueInv
<1>2. n \in Members(q.groups) /\ t \in Senders /\ t \in Kin(q, n) /\ t # None
  BY <1>1, SendersAssumption DEF Grouped, Nodes1, In, Kin
<1>3. n \in Senders /\ n # None /\ IsFiniteSet(Kin(q, n)) /\ Cardinality(Kin(q, n)) \in Nat  BY <1>2, NodeFacts
<1>4. NodeOk(q, S, n)  BY <1>1, <1>2 DEF Grouped, Nodes1
<1>5. Left(q, t) = [sends |-> Without(q.node[n].sends, t), calls |-> Without(q.node[n].calls, t),
                    count |-> q.node[n].count - 1, taken |-> q.node[n].taken]
  BY DEF Left
<1>6. PICK K : K = Rest(q, t) /\ K = Kin(q, n) \ {t}  BY DEF Rest
<1>7. ASSUME NEW s, NEW A \in SUBSET Senders, Chain(s, A, q.seq)  PROVE Chain(Without(s, t), A \ {t}, q.seq)
  <2>1. s \in Seq(Senders) /\ Members(s) = A /\ Rising(s, q.seq)  BY <1>7 DEF Chain
  <2>2. \A x \in Members(s) : q.seq[x] \in Nat  BY <1>1, <2>1, Parts
  <2>. QED  BY <2>1, <2>2, WithoutFacts DEF Chain
<1>8. Kin(q, n) \subseteq Senders  BY DEF Kin
<1>9. Chain(Without(q.node[n].sends, t), K \cap S, q.seq)
  <2>1. Chain(Without(q.node[n].sends, t), (Kin(q, n) \cap S) \ {t}, q.seq)  BY <1>4, <1>7, <1>8 DEF NodeOk
  <2>2. (Kin(q, n) \cap S) \ {t} = K \cap S  BY <1>6
  <2>. QED  BY <2>1, <2>2
<1>10. Chain(Without(q.node[n].calls, t), K \ S, q.seq)
  <2>1. Chain(Without(q.node[n].calls, t), (Kin(q, n) \ S) \ {t}, q.seq)  BY <1>4, <1>7, <1>8 DEF NodeOk
  <2>2. (Kin(q, n) \ S) \ {t} = K \ S  BY <1>6
  <2>. QED  BY <2>1, <2>2
<1>11. q.node[n].count - 1 = Cardinality(K) /\ IsFiniteSet(K) /\ Cardinality(K) \in Nat
  <2>1. Cardinality(K) = Cardinality(Kin(q, n)) - 1 /\ IsFiniteSet(K)  BY <1>2, <1>3, <1>6, FS_RemoveElement
  <2>2. q.node[n].count = Cardinality(Kin(q, n))  BY <1>4 DEF NodeOk
  <2>. QED  BY <2>1, <2>2, <1>3, FS_CardinalityType
<1>12. Cardinality(K) = 0 <=> K = {}  BY <1>11, FS_EmptySet
<1>13. Left(q, t) \in Nodes
  <2>1. Without(q.node[n].sends, t) \in Seq(Senders) /\ Without(q.node[n].calls, t) \in Seq(Senders)
    BY <1>9, <1>10 DEF Chain
  <2>2. q.node[n].count \in 0 .. WaitCap /\ WaitCap \in Nat /\ q.node[n].taken \in Nat
    BY <1>1, <1>3, Parts, CapAssumption
  <2>3. q.node[n].count - 1 \in 0 .. WaitCap  BY <1>11, <2>2
  <2>. QED  BY <1>5, <2>1, <2>2, <2>3 DEF Nodes
<1>14. /\ Left(q, t).sends = Without(q.node[n].sends, t) /\ Left(q, t).calls = Without(q.node[n].calls, t)
       /\ Left(q, t).count = q.node[n].count - 1 /\ Left(q, t).taken = q.node[n].taken
  BY <1>5
<1>15. /\ Chain(Left(q, t).sends, Rest(q, t) \cap S, q.seq) /\ Chain(Left(q, t).calls, Rest(q, t) \ S, q.seq)
       /\ Left(q, t).count = Cardinality(Rest(q, t)) /\ (Left(q, t).count = 0 <=> Rest(q, t) = {})
  <2>. HIDE <1>5
  <2>. QED  BY <1>6, <1>9, <1>10, <1>11, <1>12, <1>14
<1>. QED  BY <1>2, <1>3, <1>13, <1>14, <1>15

\* The queue with t cut out of its node.
LEMMA CutFacts ==
  ASSUME NEW q, NEW S, NEW c, QueueInv(q, S, c), NEW t \in In(q), NEW n, n = q.group[t]
  PROVE  /\ Cut(q, t) = [groups |-> q.groups, sends |-> q.sends, node |-> Cut(q, t).node,
                         group |-> Cut(q, t).group, seq |-> q.seq]
         /\ Cut(q, t).groups = q.groups /\ Cut(q, t).sends = q.sends /\ Cut(q, t).seq = q.seq
         /\ Cut(q, t).group = [q.group EXCEPT ![t] = None]
         /\ Cut(q, t).node = [q.node EXCEPT ![n] = Left(q, t)]
<1>1. q \in Queues /\ n \in Senders  BY LeftFacts DEF QueueInv
<1>2. q = [groups |-> q.groups, sends |-> q.sends, node |-> q.node, group |-> q.group, seq |-> q.seq]
  BY <1>1 DEF Queues
<1>3. Cut(q, t) = [q EXCEPT !.group[t] = None, !.node[n] = Left(q, t)]  BY DEF Cut
<1>4. PICK l : l = Left(q, t)  OBVIOUS
<1>. QED  BY <1>2, <1>3, <1>4

\* Replacing a thread by itself, or one that is not there, changes nothing.
LEMMA ReplacedNone ==
  ASSUME NEW T, NEW s \in Seq(T), NEW x, NEW y, x = y \/ x \notin Members(s)
  PROVE  Replaced(s, x, y) = s
<1>1. Replaced(s, x, y) = [i \in 1 .. Len(s) |-> s[i]]
  <2>1. \A i \in DOMAIN s : (IF s[i] = x THEN y ELSE s[i]) = s[i]  BY DEF Members
  <2>. QED  BY <2>1 DEF Replaced
<1>. QED  BY <1>1

\* The queue with its node where it now belongs: in the oldest message left.
LEMMA MovedFacts ==
  ASSUME NEW q, NEW S, NEW c, QueueInv(q, S, c), NEW t \in In(q), NEW n, n = q.group[t], Rest(q, t) # {},
         NEW m, m = (IF t = n THEN Oldest(Cut(q, t), t) ELSE n),
         NEW mv, mv = (IF t = n THEN MoveNode(Cut(q, t), t, m) ELSE Cut(q, t))
  PROVE  /\ m \in Rest(q, t) /\ \A x \in Rest(q, t) : q.seq[m] <= q.seq[x]
         /\ m = n \/ m \notin Members(q.groups)
         /\ t # n => m = n
         /\ mv = [groups |-> mv.groups, sends |-> mv.sends, node |-> mv.node, group |-> mv.group, seq |-> mv.seq]
         /\ mv.groups = Replaced(q.groups, n, m) /\ mv.sends = Replaced(q.sends, n, m) /\ mv.seq = q.seq
         /\ mv.group = [x \in Senders |-> IF x = t THEN None ELSE IF x \in Rest(q, t) THEN m ELSE q.group[x]]
         /\ mv.node \in [Senders -> Nodes] /\ mv.node[m] = Left(q, t)
         /\ \A x \in Senders \ {m, n} : mv.node[x] = q.node[x]
<1>1. q \in Queues /\ Stamped(q, c) /\ Grouped(q, S) /\ Listed(q, S) /\ c \in Nat  BY DEF QueueInv
<1>2. PICK K, l : K = Rest(q, t) /\ l = Left(q, t)  OBVIOUS
<1>3. PICK cut : cut = Cut(q, t)  OBVIOUS
<1>4. /\ n \in Members(q.groups) /\ n \in Senders /\ n # None /\ t \in Senders /\ t # None /\ t \in Kin(q, n)
      /\ l \in Nodes /\ Chain(l.sends, K \cap S, q.seq) /\ Chain(l.calls, K \ S, q.seq)
  BY <1>2, LeftFacts
<1>5. /\ cut = [groups |-> q.groups, sends |-> q.sends, node |-> cut.node, group |-> cut.group, seq |-> q.seq]
      /\ cut.groups = q.groups /\ cut.sends = q.sends /\ cut.seq = q.seq
      /\ cut.group = [q.group EXCEPT ![t] = None] /\ cut.node = [q.node EXCEPT ![n] = l]
  BY <1>2, <1>3, CutFacts
<1>6. q.node \in [Senders -> Nodes] /\ q.group \in [Senders -> Senders \cup {None}] /\ q.seq \in [Senders -> Nat]
      /\ q.groups \in Seq(Senders) /\ q.sends \in Seq(Senders)
  BY <1>1, Parts
<1>7. cut.node[n] = l /\ \A x \in Senders \ {n} : cut.node[x] = q.node[x]  BY <1>4, <1>5, <1>6
<1>8. K = {x \in Senders : q.group[x] = n /\ x # t}  BY <1>2 DEF Rest, Kin
<1>9. CASE t # n
  <2>1. m = n /\ mv = cut  BY <1>3, <1>9
  <2>2. NodeOk(q, S, n)  BY <1>1, <1>4 DEF Grouped, Nodes1
  <2>3. n \in K /\ \A x \in K : q.seq[n] <= q.seq[x]
    BY <1>4, <1>8, <1>9, <2>2 DEF NodeOk, Kin
  <2>4. cut.group = [x \in Senders |-> IF x = t THEN None ELSE IF x \in K THEN m ELSE q.group[x]]
    BY <1>4, <1>5, <1>6, <1>8, <2>1
  <2>5. Replaced(q.groups, n, m) = q.groups /\ Replaced(q.sends, n, m) = q.sends  BY <1>6, <2>1, ReplacedNone
  <2>6. cut.node \in [Senders -> Nodes]  BY <1>4, <1>5, <1>6
  <2>. QED  BY <1>2, <1>5, <1>7, <1>9, <2>1, <2>3, <2>4, <2>5, <2>6
<1>10. CASE t = n
  <2>1. m = Oldest(cut, n) /\ mv = MoveNode(cut, n, m)  BY <1>3, <1>10
  <2>2. /\ Chain(cut.node[n].sends, K \cap S, cut.seq) /\ Chain(cut.node[n].calls, K \ S, cut.seq)
        /\ (K \cap S) \cup (K \ S) = K /\ cut.seq \in [Senders -> Nat] /\ K # {}
    BY <1>2, <1>4, <1>5, <1>6, <1>7
  <2>3. PICK A, B : A = K \cap S /\ B = K \ S  OBVIOUS
  <2>4. m \in K /\ \A x \in K : q.seq[m] <= q.seq[x]
    <3>1. /\ A \cup B = K /\ A \cup B # {} /\ cut.seq \in [Senders -> Nat]
          /\ Chain(cut.node[n].sends, A, cut.seq) /\ Chain(cut.node[n].calls, B, cut.seq)
      BY <2>2, <2>3
    <3>2. Oldest(cut, n) \in A \cup B /\ \A x \in A \cup B : cut.seq[Oldest(cut, n)] <= cut.seq[x]
      BY <3>1, OldestFacts
    <3>. QED  BY <1>5, <2>1, <3>1, <3>2
  <2>5. m \in Senders /\ q.group[m] = n /\ m # n  BY <1>8, <1>10, <2>4
  <2>6. m \notin Members(q.groups)  BY <1>1, <2>5 DEF Grouped, Nodes1, NodeOk
  <2>7. Members(cut.node[n].sends) \cup Members(cut.node[n].calls) = K  BY <2>2 DEF Chain
  <2>8. mv = [groups |-> Replaced(cut.groups, n, m), sends |-> Replaced(cut.sends, n, m),
              node |-> [cut.node EXCEPT ![m] = cut.node[n], ![n] = NoNode],
              group |-> [x \in Senders |-> IF x \in K THEN m ELSE cut.group[x]], seq |-> cut.seq]
    BY <2>1, <2>7 DEF MoveNode
  <2>9. /\ mv = [groups |-> mv.groups, sends |-> mv.sends, node |-> mv.node, group |-> mv.group, seq |-> mv.seq]
        /\ mv.groups = Replaced(q.groups, n, m) /\ mv.sends = Replaced(q.sends, n, m) /\ mv.seq = q.seq
        /\ mv.node = [cut.node EXCEPT ![m] = cut.node[n], ![n] = NoNode]
        /\ mv.group = [x \in Senders |-> IF x \in K THEN m ELSE cut.group[x]]
    BY <1>5, <2>8
  <2>10. mv.group = [x \in Senders |-> IF x = t THEN None ELSE IF x \in K THEN m ELSE q.group[x]]
    <3>1. \A x \in Senders : (IF x \in K THEN m ELSE cut.group[x]) =
                             (IF x = t THEN None ELSE IF x \in K THEN m ELSE q.group[x])
      BY <1>4, <1>5, <1>6, <1>8
    <3>. QED  BY <2>9, <3>1
  <2>11. NoNode \in Nodes  BY CapAssumption DEF NoNode, Nodes
  <2>12. cut.node \in [Senders -> Nodes] /\ cut.node[n] = l  BY <1>4, <1>5, <1>6
  <2>13. mv.node \in [Senders -> Nodes] /\ mv.node[m] = l /\ \A x \in Senders \ {m, n} : mv.node[x] = q.node[x]
    <3>1. mv.node \in [Senders -> Nodes]  BY <1>4, <2>9, <2>11, <2>12
    <3>2. mv.node[m] = l  BY <2>5, <2>9, <2>12
    <3>3. \A x \in Senders \ {m, n} : mv.node[x] = q.node[x]  BY <1>7, <2>9, <2>12
    <3>. QED  BY <3>1, <3>2, <3>3
  <2>14. m \in Rest(q, t) /\ (\A x \in Rest(q, t) : q.seq[m] <= q.seq[x]) /\ m \notin Members(q.groups)
    BY <1>2, <2>4, <2>6
  <2>15. mv.group = [x \in Senders |-> IF x = t THEN None ELSE IF x \in Rest(q, t) THEN m ELSE q.group[x]]
    BY <1>2, <2>10
  <2>16. mv.node[m] = Left(q, t)  BY <1>2, <2>13
  <2>. QED  BY <1>10, <2>9, <2>13, <2>14, <2>15, <2>16, ZenonT(60)
<1>. QED  BY <1>9, <1>10

\* The last message of a group leaves, and the group with it.
LEMMA DequeueLast ==
  ASSUME NEW q, NEW S, NEW c, QueueInv(q, S, c), NEW t \in In(q), Rest(q, t) = {}
  PROVE  QueueInv(Dequeue(q, t, t \in S), S \ {t}, c) /\ Handed(q, Dequeue(q, t, t \in S))
<1>1. q \in Queues /\ Stamped(q, c) /\ Grouped(q, S) /\ Listed(q, S) /\ c \in Nat  BY DEF QueueInv
<1>2. PICK n, l, cut, r : n = q.group[t] /\ l = Left(q, t) /\ cut = Cut(q, t) /\ r = Dequeue(q, t, t \in S)  OBVIOUS
<1>3. /\ n \in Members(q.groups) /\ n \in Senders /\ n # None /\ t \in Senders /\ t # None /\ t \in Kin(q, n)
      /\ l \in Nodes /\ l.count = 0
  <2>1. n = q.group[t]  BY <1>2
  <2>2. Left(q, t).count = 0 /\ Left(q, t) \in Nodes  BY <2>1, LeftFacts
  <2>3. n \in Members(q.groups) /\ n \in Senders /\ n # None /\ t \in Senders /\ t # None /\ t \in Kin(q, n)
    <3>1. n \in Members(q.groups) /\ n \in Senders /\ n # None
      <4>1. n \in Members(q.groups)  BY <1>1, <1>2 DEF Grouped, Nodes1
      <4>. QED  BY <4>1, NodeFacts
    <3>2. t \in Senders /\ t # None /\ t \in Kin(q, n)  BY <2>1, LeftFacts
    <3>. QED  BY <3>1, <3>2
  <2>. QED  BY <1>2, <2>2, <2>3
<1>4. /\ cut = [groups |-> q.groups, sends |-> q.sends, node |-> cut.node, group |-> cut.group, seq |-> q.seq]
      /\ cut.groups = q.groups /\ cut.sends = q.sends /\ cut.seq = q.seq
      /\ cut.group = [q.group EXCEPT ![t] = None] /\ cut.node = [q.node EXCEPT ![n] = l]
  BY <1>2, CutFacts
<1>5. q.node \in [Senders -> Nodes] /\ q.group \in [Senders -> Senders \cup {None}] /\ q.seq \in [Senders -> Nat]
      /\ q.groups \in Seq(Senders) /\ q.sends \in Seq(Senders)
  BY <1>1, Parts
<1>6. r = [cut EXCEPT !.groups = Without(@, n), !.sends = Without(@, n), !.node[n] = NoNode]
  BY <1>2, <1>3 DEF Dequeue, Left, Cut
<1>7. /\ r = [groups |-> r.groups, sends |-> r.sends, node |-> r.node, group |-> r.group, seq |-> r.seq]
      /\ r.groups = Without(q.groups, n) /\ r.sends = Without(q.sends, n) /\ r.seq = q.seq
      /\ r.group = [q.group EXCEPT ![t] = None] /\ r.node = [cut.node EXCEPT ![n] = NoNode]
  BY <1>4, <1>6
<1>8. /\ \A x \in Members(q.groups) : Due(q)[x] \in Nat
      /\ \A x \in Members(q.sends) : SendDue(q)[x] \in Nat
      /\ Members(q.sends) \subseteq Members(q.groups) /\ Members(q.groups) \subseteq Senders
  <2>1. \A x \in Members(q.groups) : Due(q)[x] \in 1 .. c  BY ListKeys
  <2>2. \A x \in Members(q.sends) : SendDue(q)[x] \in 1 .. c  BY ListKeys
  <2>3. Members(q.sends) \subseteq Members(q.groups) /\ Members(q.groups) \subseteq Senders  BY <1>1, ListKeys, Parts
  <2>. QED  BY <1>1, <2>1, <2>2, <2>3
<1>9. r.groups \in Seq(Senders) /\ Members(r.groups) = Members(q.groups) \ {n} /\ Rising(r.groups, Due(q))
  <2>1. q.groups \in Seq(Senders) /\ Rising(q.groups, Due(q)) /\ \A x \in Members(q.groups) : Due(q)[x] \in Nat
    BY <1>1, <1>5, <1>8 DEF Listed
  <2>. QED  BY <1>7, <2>1, WithoutFacts
<1>10. r.sends \in Seq(Senders) /\ Members(r.sends) = Members(q.sends) \ {n} /\ Rising(r.sends, SendDue(q))
  <2>1. q.sends \in Seq(Senders) /\ Rising(q.sends, SendDue(q)) /\ \A x \in Members(q.sends) : SendDue(q)[x] \in Nat
    BY <1>1, <1>5, <1>8 DEF Listed
  <2>. QED  BY <1>7, <2>1, WithoutFacts
<1>11. NoNode \in Nodes  BY CapAssumption DEF NoNode, Nodes
<1>12. r.node \in [Senders -> Nodes] /\ \A x \in Senders \ {n} : r.node[x] = q.node[x]
  BY <1>3, <1>4, <1>5, <1>7, <1>11
<1>13. r \in Queues  BY <1>5, <1>7, <1>9, <1>10, <1>12 DEF Queues
<1>14. In(r) = In(q) \ {t}  BY <1>3, <1>5, <1>7 DEF In
<1>15. \A x \in Members(r.groups) : Kin(r, x) = Kin(q, x) /\ t \notin Kin(q, x) /\ x \in Kin(q, x)
  <2>. SUFFICES ASSUME NEW x \in Members(r.groups)
                PROVE  Kin(r, x) = Kin(q, x) /\ t \notin Kin(q, x) /\ x \in Kin(q, x)
    OBVIOUS
  <2>1. x \in Members(q.groups) /\ x # n /\ x # None /\ x \in Kin(q, x)  BY <1>9, NodeFacts
  <2>. QED  BY <1>2, <1>3, <1>5, <1>7, <2>1, ZenonT(60) DEF Kin
<1>16. \A x \in In(q) : x # t => q.group[x] # n  BY <1>2 DEF Rest, Kin, In
<1>17. Stamped(r, c)  BY <1>1, <1>7, <1>8, <1>9, <1>12, <1>14, SMTT(60) DEF Stamped, Nodes1
<1>18. Grouped(r, S \ {t})
  <2>1. ASSUME NEW x \in Members(r.groups)  PROVE NodeOk(r, S \ {t}, x)
    <3>1. x \in Members(q.groups) /\ x \in Senders \ {n}  BY <1>8, <1>9
    <3>2. NodeOk(q, S, x)  BY <1>1, <3>1 DEF Grouped, Nodes1
    <3>3. \A y \in Kin(q, x) : r.seq[y] = q.seq[y] /\ (y \in S \ {t} <=> y \in S)  BY <1>7, <1>15
    <3>. QED  BY <1>12, <1>15, <3>1, <3>2, <3>3, NodeKept
  <2>2. S \ {t} \subseteq In(r)  BY <1>1, <1>14 DEF Grouped
  <2>3. \A x \in In(r) : r.group[x] \in Members(r.groups)
    <3>. SUFFICES ASSUME NEW x \in In(r)  PROVE r.group[x] \in Members(r.groups)  OBVIOUS
    <3>1. x \in In(q) /\ x # t /\ x \in Senders  BY <1>14 DEF In
    <3>2. r.group[x] = q.group[x]  BY <1>5, <1>7, <3>1
    <3>. QED  BY <1>1, <1>9, <1>16, <3>1, <3>2 DEF Grouped, Nodes1
  <2>4. \A x, y \in Members(r.groups) : GroupOf[x] = GroupOf[y] => x = y  BY <1>1, <1>9 DEF Grouped, Nodes1
  <2>. QED  BY <2>1, <2>2, <2>3, <2>4 DEF Grouped, Nodes1
<1>19. Listed(r, S \ {t})
  <2>1. \A x \in Members(r.groups) : Due(r)[x] = Due(q)[x]  BY <1>7, <1>8, <1>9, <1>12 DEF Due
  <2>2. \A x \in Members(r.sends) : SendDue(r)[x] = SendDue(q)[x]
    BY <1>7, <1>8, <1>10, <1>12 DEF SendDue, SendDueOf
  <2>3. Rising(r.groups, Due(r))  BY <1>9, <2>1, RisingSame
  <2>4. Rising(r.sends, SendDue(r))  BY <1>10, <2>2, RisingSame
  <2>5. \A x \in Members(r.groups) : Kin(r, x) \cap (S \ {t}) = Kin(q, x) \cap S  BY <1>15
  <2>6. Members(r.sends) = {x \in Members(r.groups) : Kin(r, x) \cap (S \ {t}) # {}}
    BY <1>1, <1>9, <1>10, <2>5 DEF Listed, Nodes1
  <2>. QED  BY <2>3, <2>4, <2>6 DEF Listed, Nodes1
<1>20. Handed(q, r)  BY <1>7, <1>8, <1>9, <1>12, <1>15 DEF Handed
<1>. QED  BY <1>1, <1>2, <1>13, <1>17, <1>18, <1>19, <1>20 DEF QueueInv

\* Another of its messages is left: the node moves if it was t's, and the group falls back
\* to when its next message, or its next send, is due.
LEMMA DequeueMoves ==
  ASSUME NEW q, NEW S, NEW c, QueueInv(q, S, c), NEW t \in In(q), Rest(q, t) # {}
  PROVE  QueueInv(Dequeue(q, t, t \in S), S \ {t}, c) /\ Handed(q, Dequeue(q, t, t \in S))
<1>1. q \in Queues /\ Stamped(q, c) /\ Grouped(q, S) /\ Listed(q, S) /\ c \in Nat  BY DEF QueueInv
<1>. DEFINE n == q.group[t]
            l == Left(q, t)
            K == Rest(q, t)
            m == IF t = n THEN Oldest(Cut(q, t), t) ELSE n
            mv == IF t = n THEN MoveNode(Cut(q, t), t, m) ELSE Cut(q, t)
            key == [x \in Members(mv.groups) |-> DueOf(mv, x)]
            sendKey == [x \in Members(mv.sends) |-> SendDueOf(mv, x)]
            first == t \in S /\ Head(q.node[n].sends) = t
            r == Dequeue(q, t, t \in S)
            gs == IF t = n THEN MovedBack(mv.groups, m, key) ELSE mv.groups
            ss == IF ~first THEN mv.sends
                  ELSE IF l.sends = <<>> THEN Without(mv.sends, m) ELSE MovedBack(mv.sends, m, sendKey)
<1>2. n = q.group[t] /\ l = Left(q, t) /\ K = Rest(q, t)  OBVIOUS
<1>3. m = IF t = n THEN Oldest(Cut(q, t), t) ELSE n  OBVIOUS
<1>4. mv = IF t = n THEN MoveNode(Cut(q, t), t, m) ELSE Cut(q, t)  OBVIOUS
<1>5. /\ key = [x \in Members(mv.groups) |-> DueOf(mv, x)]
      /\ sendKey = [x \in Members(mv.sends) |-> SendDueOf(mv, x)]
      /\ first = (t \in S /\ Head(q.node[n].sends) = t)
      /\ r = Dequeue(q, t, t \in S)
      /\ gs = IF t = n THEN MovedBack(mv.groups, m, key) ELSE mv.groups
      /\ ss = IF ~first THEN mv.sends
              ELSE IF l.sends = <<>> THEN Without(mv.sends, m) ELSE MovedBack(mv.sends, m, sendKey)
  BY SMTT(30)
<1>9. l.count # 0 => r = [groups |-> gs, sends |-> ss, node |-> mv.node, group |-> mv.group, seq |-> mv.seq]
  BY DEF Dequeue, Left, Cut
<1>. HIDE DEF n, l, K, m, mv, key, sendKey, first, r, gs, ss
<1>6. n \in Members(q.groups) /\ n \in Senders /\ n # None /\ t \in Senders /\ t # None /\ t \in Kin(q, n)
  <2>1. n \in Members(q.groups)  BY <1>1, <1>2 DEF Grouped, Nodes1
  <2>2. n \in Senders /\ n # None  BY <2>1, NodeFacts
  <2>. QED  BY <1>2, <2>1, <2>2, SendersAssumption DEF In, Kin
<1>7. /\ l \in Nodes /\ l.taken = q.node[n].taken
      /\ Chain(l.sends, K \cap S, q.seq) /\ Chain(l.calls, K \ S, q.seq)
      /\ l.count = Cardinality(K) /\ l.count # 0
  <2>1. n = q.group[t]  BY <1>2
  <2>2. /\ Left(q, t) \in Nodes /\ Left(q, t).taken = q.node[n].taken
        /\ Left(q, t).count = Cardinality(Rest(q, t)) /\ Left(q, t).count # 0
    BY <2>1, LeftFacts
  <2>3. Chain(Left(q, t).sends, Rest(q, t) \cap S, q.seq) /\ Chain(Left(q, t).calls, Rest(q, t) \ S, q.seq)
    BY <2>1, LeftFacts
  <2>. QED  BY <1>2, <2>2, <2>3
<1>8. /\ m \in K /\ \A x \in K : q.seq[m] <= q.seq[x]
      /\ m = n \/ m \notin Members(q.groups)
      /\ t # n => m = n
      /\ mv = [groups |-> mv.groups, sends |-> mv.sends, node |-> mv.node, group |-> mv.group, seq |-> mv.seq]
      /\ mv.groups = Replaced(q.groups, n, m) /\ mv.sends = Replaced(q.sends, n, m) /\ mv.seq = q.seq
      /\ mv.group = [x \in Senders |-> IF x = t THEN None ELSE IF x \in K THEN m ELSE q.group[x]]
      /\ mv.node \in [Senders -> Nodes] /\ mv.node[m] = l
      /\ \A x \in Senders \ {m, n} : mv.node[x] = q.node[x]
  BY <1>2, <1>3, <1>4, MovedFacts
<1>10. /\ r = [groups |-> r.groups, sends |-> r.sends, node |-> r.node, group |-> r.group, seq |-> r.seq]
       /\ r.groups = IF t = n THEN MovedBack(mv.groups, m, key) ELSE mv.groups
       /\ r.sends = IF ~first THEN mv.sends
                    ELSE IF l.sends = <<>> THEN Without(mv.sends, m)
                    ELSE MovedBack(mv.sends, m, sendKey)
       /\ r.node = mv.node /\ r.group = mv.group /\ r.seq = q.seq
  BY <1>5, <1>7, <1>8, <1>9
<1>11. q.node \in [Senders -> Nodes] /\ q.group \in [Senders -> Senders \cup {None}] /\ q.seq \in [Senders -> Nat]
       /\ q.groups \in Seq(Senders) /\ q.sends \in Seq(Senders)
  BY <1>1, Parts
<1>12. K = {x \in Senders : q.group[x] = n /\ x # t} /\ K \subseteq In(q) /\ K \subseteq Senders /\ m \in Senders
  BY <1>2, <1>6, <1>8 DEF Rest, Kin, In
<1>13. /\ \A x \in Members(q.groups) : Due(q)[x] \in 1 .. c /\ Due(q)[x] = Larger(q.seq[x], q.node[x].taken)
       /\ Members(q.sends) \subseteq Members(q.groups) /\ Members(q.groups) \subseteq Senders
  BY <1>1, ListKeys, Parts
<1>14. /\ r.group[t] = None /\ (\A x \in K : r.group[x] = m)
       /\ \A x \in Senders : x # t /\ x \notin K => r.group[x] = q.group[x]
  BY <1>6, <1>8, <1>10, <1>12
<1>15. In(r) = In(q) \ {t}
  <2>1. m # None  BY <1>12, SendersAssumption
  <2>. QED  BY <1>6, <1>12, <1>14, <2>1 DEF In
<1>16. Kin(r, m) = K
  <2>1. ASSUME NEW x \in Senders, r.group[x] = m, x \notin K  PROVE FALSE
    <3>1. x # t /\ q.group[x] = m  BY <1>12, <1>14, <2>1, SendersAssumption
    <3>2. m # n  BY <1>12, <2>1, <3>1
    <3>3. m \in Members(q.groups)  BY <1>1, <1>12, <3>1, SendersAssumption DEF Grouped, Nodes1, In
    <3>. QED  BY <1>8, <3>2, <3>3
  <2>. QED  BY <1>12, <1>14, <2>1 DEF Kin
<1>17. \A x \in Members(q.groups) \ {n} :
         x # m /\ x \in Senders /\ x \in Kin(q, x) /\ Kin(r, x) = Kin(q, x) /\ t \notin Kin(q, x) /\ r.node[x] = q.node[x]
  <2>. SUFFICES ASSUME NEW x \in Members(q.groups) \ {n}
                PROVE  x # m /\ x \in Senders /\ x \in Kin(q, x) /\ Kin(r, x) = Kin(q, x) /\ t \notin Kin(q, x)
                       /\ r.node[x] = q.node[x]
    OBVIOUS
  <2>1. x # m /\ x # n /\ x \in Senders /\ x # None /\ x \in Kin(q, x)  BY <1>8, NodeFacts
  <2>2. t \notin Kin(q, x)  BY <1>2, <2>1 DEF Kin
  <2>3. Kin(r, x) = Kin(q, x)  BY <1>2, <1>12, <1>14, <2>1 DEF Kin
  <2>. QED  BY <1>8, <1>10, <2>1, <2>2, <2>3
\* The groups' list.
<1>18. Members(mv.groups) = (Members(q.groups) \ {n}) \cup {m} /\ mv.groups \in Seq(Senders)
  <2>1. Rising(q.groups, Due(q)) /\ \A x \in Members(q.groups) : Due(q)[x] \in Nat  BY <1>1, <1>13 DEF Listed
  <2>. QED  BY <1>6, <1>8, <1>11, <1>12, <2>1, ReplacedFacts
<1>19. Due(r)[m] = Larger(q.seq[m], q.node[n].taken) /\ Due(r)[m] \in 1 .. c /\ Due(q)[n] <= Due(r)[m]
  <2>1. Due(r)[m] = Larger(q.seq[m], q.node[n].taken)  BY <1>7, <1>8, <1>10, <1>12 DEF Due
  <2>2. Larger(q.seq[m], q.node[n].taken) \in 1 .. c  BY <1>6, <1>8, <1>12, KeyTypes
  <2>3. q.seq[n] <= q.seq[m]  BY <1>1, <1>6, <1>8, <1>12 DEF Grouped, Nodes1, NodeOk, Kin
  <2>4. q.seq[n] \in Nat /\ q.seq[m] \in Nat /\ q.node[n].taken \in Nat  BY <1>1, <1>6, <1>11, <1>12, Parts
  <2>5. Due(q)[n] = Larger(q.seq[n], q.node[n].taken)  BY <1>6, <1>13
  <2>. QED  BY <2>1, <2>2, <2>3, <2>4, <2>5 DEF Larger
<1>20. \A x \in Members(q.groups) \ {n} : Due(r)[x] = Due(q)[x]  BY <1>10, <1>17 DEF Due
<1>21. \A x \in Members(q.groups) \ {n} : Due(r)[x] # Due(r)[m]
  <2>. SUFFICES ASSUME NEW x \in Members(q.groups) \ {n}  PROVE Due(r)[x] # Due(r)[m]  OBVIOUS
  <2>1. x \in In(q) /\ m \in In(q) /\ x # m  BY <1>8, <1>12, <1>17, NodeFacts
  <2>2. Larger(q.seq[x], q.node[x].taken) # Larger(q.seq[m], q.node[n].taken)  BY <1>6, <2>1, KeysApart
  <2>. QED  BY <1>13, <1>19, <1>20, <2>2
<1>22. \A x \in Members(mv.groups) : key[x] = Due(r)[x]
  <2>1. ASSUME NEW x \in Members(q.groups) \ {n}  PROVE DueOf(mv, x) = Due(r)[x]
    <3>1. mv.node[x] = q.node[x] /\ mv.seq = q.seq  BY <1>8, <1>10, <1>17
    <3>2. DueOf(mv, x) = DueOf(q, x)  BY <3>1 DEF DueOf, Oldest
    <3>3. DueOf(q, x) = Due(q)[x]  BY NodeFacts
    <3>. QED  BY <1>20, <3>2, <3>3
  <2>2. Oldest(mv, m) = m
    <3>1. PICK A, B : A = K \cap S /\ B = K \ S  OBVIOUS
    <3>2. A \cup B = K /\ A \cup B # {} /\ mv.seq \in [Senders -> Nat]
          /\ Chain(mv.node[m].sends, A, mv.seq) /\ Chain(mv.node[m].calls, B, mv.seq)
      BY <1>7, <1>8, <1>11, <3>1
    <3>3. Oldest(mv, m) \in A \cup B /\ \A x \in A \cup B : mv.seq[Oldest(mv, m)] <= mv.seq[x]
      BY <3>2, OldestFacts
    <3>4. PICK o : o = Oldest(mv, m) /\ o \in K /\ q.seq[o] <= q.seq[m] /\ q.seq[m] <= q.seq[o]
      BY <1>8, <3>2, <3>3
    <3>5. q.seq[o] = q.seq[m]  BY <1>11, <1>12, <3>4
    <3>. QED  BY <1>1, <1>8, <1>12, <3>4, <3>5 DEF Stamped
  <2>3. DueOf(mv, m) = Due(r)[m]  BY <1>7, <1>8, <1>10, <1>12, <1>19, <2>2 DEF DueOf
  <2>. QED  BY <1>5, <1>18, <2>1, <2>3
<1>23. Members(r.groups) = (Members(q.groups) \ {n}) \cup {m} /\ r.groups \in Seq(Senders) /\ Rising(r.groups, Due(r))
  <2>1. PICK key1 : key1 = [x \in Senders |-> IF x = m THEN Due(q)[n] ELSE Due(q)[x]]  OBVIOUS
  <2>2. Rising(q.groups, Due(q)) /\ \A x \in Members(q.groups) : Due(q)[x] \in Nat  BY <1>1, <1>13 DEF Listed
  <2>3. key1[m] = Due(q)[n] /\ \A x \in Members(q.groups) \ {n} : key1[x] = Due(q)[x]
    BY <1>12, <1>17, <2>1
  <2>4. Rising(mv.groups, key1)
    <3>1. q.groups \in Seq(Senders) /\ n \in Members(q.groups) /\ m \in Senders /\ (m = n \/ m \notin Members(q.groups))
      BY <1>6, <1>8, <1>11, <1>12
    <3>2. \A k : k[m] = Due(q)[n] /\ (\A x \in Members(q.groups) \ {n} : k[x] = Due(q)[x])
                => Rising(Replaced(q.groups, n, m), k)
      BY <2>2, <3>1, ReplacedFacts
    <3>3. Rising(Replaced(q.groups, n, m), key1)  BY <2>3, <3>2
    <3>. QED  BY <1>8, <3>3
  <2>5. \A x \in Members(mv.groups) : key1[x] \in Nat /\ Due(r)[x] \in Nat
    BY <1>6, <1>18, <1>19, <1>20, <2>2, <2>3
  <2>6. CASE t = n
    <3>1. /\ \A x \in Members(mv.groups) : key[x] \in Nat
          /\ \A x \in Members(mv.groups) \ {m} : key[x] = key1[x] /\ key[x] # key[m]
          /\ key1[m] <= key[m] /\ m \in Members(mv.groups)
      <4>1. m \in Members(mv.groups) /\ key[m] = Due(r)[m]  BY <1>18, <1>22
      <4>. QED  BY <1>18, <1>19, <1>20, <1>21, <1>22, <2>3, <2>5, <4>1
    <3>2. /\ MovedBack(mv.groups, m, key) \in Seq(Senders) /\ Members(MovedBack(mv.groups, m, key)) = Members(mv.groups)
          /\ Rising(MovedBack(mv.groups, m, key), key)
      <4>1. mv.groups \in Seq(Senders) /\ m \in Members(mv.groups)  BY <1>18, <3>1
      <4>2. \A x \in Members(mv.groups) : key1[x] \in Nat  BY <2>5
      <4>3. \A x \in Members(mv.groups) : key[x] \in Nat  BY <3>1
      <4>4. \A x \in Members(mv.groups) \ {m} : key[x] = key1[x] /\ key[x] # key[m]  BY <3>1
      <4>5. key1[m] <= key[m]  BY <3>1
      <4>. QED  BY <2>4, <4>1, <4>2, <4>3, <4>4, <4>5, MovedBackFacts
    <3>3. r.groups = MovedBack(mv.groups, m, key)  BY <1>10, <2>6
    <3>4. Rising(r.groups, Due(r))  BY <1>22, <3>2, <3>3, RisingSame
    <3>. QED  BY <1>18, <3>2, <3>3, <3>4
  <2>7. CASE t # n
    <3>1. m = n /\ r.groups = mv.groups  BY <1>8, <1>10, <2>7
    <3>2. r.node[n].taken = q.node[n].taken  BY <1>7, <1>8, <1>10, <3>1
    <3>3. Due(r)[n] = Due(q)[n]  BY <1>6, <1>13, <1>19, <3>1
    <3>4. \A x \in Members(mv.groups) : key1[x] = Due(r)[x]  BY <1>18, <1>20, <2>3, <3>1, <3>3
    <3>5. Rising(r.groups, Due(r))  BY <2>4, <3>1, <3>4, RisingSame
    <3>. QED  BY <1>18, <3>1, <3>5
  <2>. QED  BY <2>6, <2>7
\* Stamps and nodes.
<1>24. Stamped(r, c)
  <2>1. r.node[m].taken = q.node[n].taken  BY <1>7, <1>8, <1>10
  <2>2. PICK f : f = [x \in Members(r.groups) |-> IF x = m THEN n ELSE x]  OBVIOUS
  <2>3. \A x \in Members(r.groups) : f[x] \in Members(q.groups) /\ r.node[x].taken = q.node[f[x]].taken
    BY <1>6, <1>17, <1>23, <2>1, <2>2
  <2>4. \A x, y \in Members(r.groups) : f[x] = f[y] => x = y  BY <1>6, <1>17, <1>23, <2>2
  <2>5. \A x \in In(r) : r.seq[x] = q.seq[x] /\ x \in In(q)  BY <1>10, <1>15
  <2>. QED  BY <1>1, <2>3, <2>4, <2>5 DEF Stamped, Nodes1
<1>25. NodeOk(r, S \ {t}, m)
  <2>1. K \cap (S \ {t}) = K \cap S /\ K \ (S \ {t}) = K \ S  BY <1>12
  <2>2. \A x \in K : GroupOf[x] = GroupOf[n]  BY <1>1, <1>6, <1>12 DEF Grouped, Nodes1, NodeOk, Kin
  <2>3. r.group[m] = m  BY <1>8, <1>14
  <2>. QED  BY <1>7, <1>8, <1>10, <1>16, <2>1, <2>2, <2>3 DEF NodeOk
<1>26. Grouped(r, S \ {t})
  <2>1. ASSUME NEW x \in Members(q.groups) \ {n}  PROVE NodeOk(r, S \ {t}, x)
    <3>1. NodeOk(q, S, x)  BY <1>1 DEF Grouped, Nodes1
    <3>2. \A y \in Kin(q, x) : r.seq[y] = q.seq[y] /\ (y \in S \ {t} <=> y \in S)  BY <1>10, <1>17
    <3>. QED  BY <1>17, <3>1, <3>2, NodeKept
  <2>2. S \ {t} \subseteq In(r)  BY <1>1, <1>15 DEF Grouped
  <2>3. \A x \in In(r) : r.group[x] \in Members(r.groups)
    <3>. SUFFICES ASSUME NEW x \in In(r)  PROVE r.group[x] \in Members(r.groups)  OBVIOUS
    <3>1. x \in In(q) /\ x # t /\ x \in Senders  BY <1>15 DEF In
    <3>2. CASE x \in K  BY <1>14, <1>23, <3>2
    <3>3. CASE x \notin K
      <4>1. r.group[x] = q.group[x] /\ q.group[x] # n /\ q.group[x] \in Members(q.groups)
        BY <1>1, <1>12, <1>14, <3>1, <3>3 DEF Grouped, Nodes1
      <4>. QED  BY <1>23, <4>1
    <3>. QED  BY <3>2, <3>3
  <2>4. \A x, y \in Members(r.groups) : GroupOf[x] = GroupOf[y] => x = y
    <3>1. GroupOf[m] = GroupOf[n]  BY <1>1, <1>6, <1>8, <1>12 DEF Grouped, Nodes1, NodeOk, Kin
    <3>. QED  BY <1>1, <1>6, <1>23, <3>1 DEF Grouped, Nodes1
  <2>. QED  BY <1>23, <1>25, <2>1, <2>2, <2>3, <2>4 DEF Grouped, Nodes1
\* The sends' list.
<1>27. r.sends \in Seq(Senders) /\ Rising(r.sends, SendDue(r)) /\
       Members(r.sends) = (Members(q.sends) \ {n}) \cup (IF K \cap S = {} THEN {} ELSE {m})
  <2>1. Rising(q.sends, SendDue(q)) /\ \A x \in Members(q.sends) : SendDue(q)[x] \in 1 .. c /\ SendDue(q)[x] \in Nat
    <3>1. \A x \in Members(q.sends) : SendDue(q)[x] \in 1 .. c  BY ListKeys
    <3>. QED  BY <1>1, <3>1 DEF Listed
  <2>2. \A x \in Members(q.sends) \ {n} :
          x # m /\ SendDueOf(mv, x) = SendDue(q)[x] /\ SendDue(r)[x] = SendDue(q)[x]
    BY <1>8, <1>10, <1>13, <1>17 DEF SendDue, SendDueOf
  <2>3. SendDueOf(mv, m) = SendDue(r)[m] /\ SendDue(r)[m] = Larger(q.seq[Head(l.sends)], q.node[n].taken)
    BY <1>7, <1>8, <1>10, <1>12 DEF SendDue, SendDueOf
  <2>4. n \in Members(q.sends) <=> Kin(q, n) \cap S # {}  BY <1>1, <1>6 DEF Listed, Nodes1
  <2>5. l.sends = <<>> <=> K \cap S = {}  BY <1>7, EmptyFacts DEF Chain
  <2>6. l.sends = Without(q.node[n].sends, t)  BY <1>2 DEF Left
  <2>7. PICK k1 : k1 = [x \in Senders |-> IF x = m THEN SendDue(q)[n] ELSE SendDue(q)[x]]  OBVIOUS
  <2>8. k1[m] = SendDue(q)[n] /\ \A x \in Members(q.sends) \ {n} : k1[x] = SendDue(q)[x]
    BY <1>12, <1>13, <2>2, <2>7
  <2>9. n \in Members(q.sends) => /\ mv.sends \in Seq(Senders) /\ Rising(mv.sends, k1)
                                  /\ Members(mv.sends) = (Members(q.sends) \ {n}) \cup {m}
    <3>. SUFFICES ASSUME n \in Members(q.sends)
                  PROVE  /\ mv.sends \in Seq(Senders) /\ Rising(mv.sends, k1)
                         /\ Members(mv.sends) = (Members(q.sends) \ {n}) \cup {m}
      OBVIOUS
    <3>1. m = n \/ m \notin Members(q.sends)  BY <1>8, <1>13
    <3>2. q.sends \in Seq(Senders) /\ m \in Senders /\ \A x \in Members(q.sends) : SendDue(q)[x] \in Nat
      BY <1>11, <1>12, <2>1
    <3>3. /\ Replaced(q.sends, n, m) \in Seq(Senders)
          /\ Members(Replaced(q.sends, n, m)) = (Members(q.sends) \ {n}) \cup {m}
          /\ \A k : k[m] = SendDue(q)[n] /\ (\A x \in Members(q.sends) \ {n} : k[x] = SendDue(q)[x])
                    => Rising(Replaced(q.sends, n, m), k)
      BY <2>1, <3>1, <3>2, ReplacedFacts
    <3>4. Rising(Replaced(q.sends, n, m), k1)  BY <2>8, <3>3
    <3>. QED  BY <1>8, <3>3, <3>4
  <2>10. CASE n \notin Members(q.sends)
    <3>1. mv.sends = q.sends  BY <1>8, <1>11, <2>10, ReplacedNone
    <3>2. Kin(q, n) \cap S = {} /\ K \cap S = {} /\ t \notin S  BY <1>6, <1>12, <2>4, <2>10 DEF Kin
    <3>3. r.sends = q.sends  BY <1>5, <1>10, <3>1, <3>2
    <3>4. Rising(q.sends, SendDue(r))  BY <2>1, <2>2, <2>10, RisingSame
    <3>. QED  BY <1>11, <2>10, <3>2, <3>3, <3>4
  <2>11. CASE n \in Members(q.sends) /\ ~first
    <3>1. /\ q.node[n].sends # <<>> /\ Head(q.node[n].sends) \in S
          /\ q.node[n].sends \in Seq(Senders) /\ Rising(q.node[n].sends, q.seq)
          /\ \A x \in Members(q.node[n].sends) : q.seq[x] \in Nat
      <4>1. NodeOk(q, S, n)  BY <1>1, <1>6 DEF Grouped, Nodes1
      <4>2. q.node[n].sends # <<>> /\ Head(q.node[n].sends) \in S  BY <1>6, <2>4, <2>11, NodeFacts
      <4>3. Members(q.node[n].sends) \subseteq Senders  BY <4>1 DEF NodeOk, Chain, Kin
      <4>. QED  BY <1>11, <4>1, <4>2, <4>3 DEF NodeOk, Chain
    <3>2. t # Head(q.node[n].sends)  BY <1>5, <2>11, <3>1
    <3>3. l.sends # <<>> /\ Head(l.sends) = Head(q.node[n].sends)  BY <2>6, <3>1, <3>2, HeadStays
    <3>4. SendDue(r)[m] = SendDue(q)[n]  BY <1>6, <2>3, <3>3 DEF SendDue, SendDueOf
    <3>5. r.sends = mv.sends  BY <1>10, <2>11
    <3>6. \A x \in Members(mv.sends) : k1[x] = SendDue(r)[x]  BY <2>2, <2>8, <2>9, <2>11, <3>4
    <3>7. Rising(r.sends, SendDue(r))  BY <2>9, <2>11, <3>5, <3>6, RisingSame
    <3>. QED  BY <2>5, <2>9, <2>11, <3>3, <3>5, <3>7
  <2>12. CASE n \in Members(q.sends) /\ first /\ l.sends = <<>>
    <3>1. r.sends = Without(mv.sends, m)  BY <1>10, <2>12
    <3>2. \A x \in Members(mv.sends) : k1[x] \in Nat  BY <2>1, <2>8, <2>9, <2>12
    <3>3. r.sends \in Seq(Senders) /\ Members(r.sends) = Members(mv.sends) \ {m} /\ Rising(r.sends, k1)
      BY <2>9, <2>12, <3>1, <3>2, WithoutFacts
    <3>4. Members(r.sends) = Members(q.sends) \ {n}  BY <2>2, <2>9, <2>12, <3>3
    <3>5. \A x \in Members(r.sends) : k1[x] = SendDue(r)[x]  BY <2>2, <2>8, <3>4
    <3>6. Rising(r.sends, SendDue(r))  BY <3>3, <3>5, RisingSame
    <3>. QED  BY <2>5, <2>12, <3>3, <3>4, <3>6
  <2>13. CASE n \in Members(q.sends) /\ first /\ l.sends # <<>>
    <3>1. r.sends = MovedBack(mv.sends, m, sendKey)  BY <1>10, <2>13
    <3>2. \A x \in Members(mv.sends) : sendKey[x] = SendDue(r)[x]  BY <1>5, <2>2, <2>3, <2>9, <2>13
    <3>3. PICK h : h = Head(l.sends)  OBVIOUS
    <3>4. h \in K \cap S /\ h \in In(q)
      <4>1. l.sends \in Seq(Senders) /\ Members(l.sends) = K \cap S /\ Rising(l.sends, q.seq)  BY <1>7 DEF Chain
      <4>2. \A x \in Members(l.sends) : q.seq[x] \in Nat  BY <1>11, <1>12, <4>1
      <4>3. h \in Members(l.sends)  BY <2>13, <3>3, <4>1, <4>2, HeadFacts
      <4>. QED  BY <1>12, <4>1, <4>3
    <3>5. SendDue(r)[m] \in 1 .. c  BY <1>6, <2>3, <3>3, <3>4, KeyTypes
    <3>6. SendDue(q)[n] <= SendDue(r)[m]
      <4>1. q.seq[Head(q.node[n].sends)] <= q.seq[h] /\ Head(q.node[n].sends) \in Senders
        <5>1. h \in Kin(q, n) \cap S  BY <1>12, <3>4 DEF Kin
        <5>2. Kin(q, n) \cap S # {}  BY <5>1
        <5>3. /\ Head(q.node[n].sends) \in Kin(q, n) \cap S
              /\ \A x \in Kin(q, n) \cap S : q.seq[Head(q.node[n].sends)] <= q.seq[x]
          BY <1>6, <5>2, NodeFacts
        <5>. QED  BY <5>1, <5>3 DEF Kin
      <4>2. SendDue(q)[n] = Larger(q.seq[Head(q.node[n].sends)], q.node[n].taken)  BY <1>6 DEF SendDue, SendDueOf
      <4>3. q.seq[Head(q.node[n].sends)] \in Nat /\ q.seq[h] \in Nat /\ q.node[n].taken \in Nat
        BY <1>1, <1>6, <1>11, <1>12, <3>4, <4>1, Parts
      <4>. QED  BY <2>3, <3>3, <4>1, <4>2, <4>3 DEF Larger
    <3>7. \A x \in Members(q.sends) \ {n} : SendDue(r)[x] # SendDue(r)[m]
      <4>. SUFFICES ASSUME NEW x \in Members(q.sends) \ {n}  PROVE SendDue(r)[x] # SendDue(r)[m]  OBVIOUS
      <4>1. PICK g : g = Head(q.node[x].sends)  OBVIOUS
      <4>2. x \in Members(q.groups) /\ SendDue(q)[x] = Larger(q.seq[g], q.node[x].taken) /\ g \in Kin(q, x)
        BY <4>1, ListKeys
      <4>3. g \in In(q) /\ g # h
        <5>1. Kin(q, x) \subseteq In(q)  BY <4>2, NodeFacts
        <5>2. h \in Kin(q, n)  BY <1>12, <3>4 DEF Kin
        <5>3. x # n  OBVIOUS
        <5>. QED  BY <1>6, <4>2, <5>1, <5>2, <5>3, KinApart
      <4>4. Larger(q.seq[g], q.node[x].taken) # Larger(q.seq[h], q.node[n].taken)
        BY <1>6, <3>4, <4>2, <4>3, KeysApart
      <4>. QED  BY <2>2, <2>3, <3>3, <4>2, <4>4
    <3>8. /\ \A x \in Members(mv.sends) : k1[x] \in Nat /\ sendKey[x] \in Nat
          /\ \A x \in Members(mv.sends) \ {m} : sendKey[x] = k1[x] /\ sendKey[x] # sendKey[m]
          /\ k1[m] <= sendKey[m] /\ m \in Members(mv.sends)
      <4>1. m \in Members(mv.sends) /\ sendKey[m] = SendDue(r)[m]  BY <2>9, <2>13, <3>2
      <4>. QED  BY <2>1, <2>2, <2>8, <2>9, <2>13, <3>2, <3>5, <3>6, <3>7, <4>1
    <3>9. r.sends \in Seq(Senders) /\ Members(r.sends) = Members(mv.sends) /\ Rising(r.sends, sendKey)
      BY <2>9, <2>13, <3>1, <3>8, MovedBackFacts
    <3>10. Rising(r.sends, SendDue(r))  BY <3>2, <3>9, RisingSame
    <3>. QED  BY <2>5, <2>9, <2>13, <3>9, <3>10
  <2>. QED  BY <2>10, <2>11, <2>12, <2>13
<1>28. Members(r.sends) = {x \in Members(r.groups) : Kin(r, x) \cap (S \ {t}) # {}}
  <2>1. \A x \in Members(q.groups) \ {n} : Kin(r, x) \cap (S \ {t}) = Kin(q, x) \cap S  BY <1>17
  <2>2. Kin(r, m) \cap (S \ {t}) = K \cap S  BY <1>12, <1>16
  <2>3. Members(q.sends) = {x \in Members(q.groups) : Kin(q, x) \cap S # {}}  BY <1>1 DEF Listed, Nodes1
  <2>4. ASSUME NEW x \in Members(r.sends)  PROVE x \in Members(r.groups) /\ Kin(r, x) \cap (S \ {t}) # {}
    BY <1>23, <1>27, <2>1, <2>2, <2>3
  <2>5. ASSUME NEW x \in Members(r.groups), Kin(r, x) \cap (S \ {t}) # {}  PROVE x \in Members(r.sends)
    BY <1>23, <1>27, <2>1, <2>2, <2>3, <2>5
  <2>. QED  BY <2>4, <2>5
<1>29. r \in Queues
  <2>1. r.group \in [Senders -> Senders \cup {None}]  BY <1>8, <1>10, <1>11, <1>12
  <2>. QED  BY <1>8, <1>10, <1>11, <1>23, <1>27, <2>1 DEF Queues
<1>30. Handed(q, r)
  <2>1. ASSUME NEW y \in Members(r.groups)
        PROVE  \E x \in Members(q.groups) :
                 GroupOf[x] = GroupOf[y] /\ r.node[y].taken = q.node[x].taken /\ Kin(r, y) \subseteq Kin(q, x)
    <3>1. CASE y = m
      <4>1. GroupOf[m] = GroupOf[n]  BY <1>1, <1>6, <1>8, <1>12 DEF Grouped, Nodes1, NodeOk, Kin
      <4>2. r.node[m].taken = q.node[n].taken  BY <1>7, <1>8, <1>10
      <4>3. K \subseteq Kin(q, n)  BY <1>12 DEF Kin
      <4>. QED  BY <1>6, <1>16, <3>1, <4>1, <4>2, <4>3
    <3>2. CASE y # m  BY <1>17, <1>23, <3>2
    <3>. QED  BY <3>1, <3>2
  <2>. QED  BY <1>10, <2>1 DEF Handed
<1>. QED  BY <1>1, <1>5, <1>23, <1>24, <1>26, <1>27, <1>28, <1>29, <1>30 DEF QueueInv, Listed, Nodes1

\* A message leaves.
LEMMA DequeueKeeps ==
  ASSUME NEW q, NEW S, NEW c, QueueInv(q, S, c), NEW t \in In(q)
  PROVE  QueueInv(Dequeue(q, t, t \in S), S \ {t}, c) /\ Handed(q, Dequeue(q, t, t \in S))
<1>1. CASE Rest(q, t) = {}  BY <1>1, DequeueLast
<1>2. CASE Rest(q, t) # {}  BY <1>2, DequeueMoves
<1>. QED  BY <1>1, <1>2

\* The message a receiver is given is queued, and its group heads the list.
LEMMA Picked ==
  ASSUME NEW q, NEW S, NEW c, QueueInv(q, S, c), NEW k \in BOOLEAN, ListFor(q, k) # <<>>
  PROVE  /\ PickOf(q, k) \in In(q) /\ q.group[PickOf(q, k)] = Head(ListFor(q, k))
         /\ Head(ListFor(q, k)) \in Members(ListFor(q, k))
         /\ GroupOf[PickOf(q, k)] = GroupOf[Head(ListFor(q, k))]
         /\ \A x \in Members(ListFor(q, k)) : x = Head(ListFor(q, k)) \/ KeyFor(q, k, Head(ListFor(q, k))) < KeyFor(q, k, x)
<1>1. q \in Queues /\ Grouped(q, S) /\ Listed(q, S) /\ c \in Nat  BY DEF QueueInv
<1>2. q.groups \in Seq(Senders) /\ q.sends \in Seq(Senders)  BY <1>1, Parts
<1>3. CASE k
  <2>1. PICK n : n = Head(q.groups)  OBVIOUS
  <2>2. \A x \in Members(q.groups) : Due(q)[x] \in 1 .. c /\ Due(q)[x] = Larger(q.seq[x], q.node[x].taken)  BY ListKeys
  <2>3. \A x \in Members(q.groups) : Due(q)[x] \in Nat  BY <1>1, <2>2
  <2>4. q.groups # <<>> /\ Rising(q.groups, Due(q))  BY <1>1, <1>3 DEF Listed, ListFor
  <2>5. n \in Members(q.groups) /\ \A x \in Members(q.groups) : x = n \/ Due(q)[n] < Due(q)[x]
    BY <1>2, <2>1, <2>3, <2>4, HeadFacts
  <2>6. Oldest(q, n) = n /\ n \in In(q) /\ n \in Kin(q, n)  BY <2>5, NodeFacts
  <2>7. q.group[n] = n  BY <2>6 DEF Kin
  <2>8. \A x \in Members(q.groups) : Oldest(q, x) = x  BY NodeFacts
  <2>9. \A x \in Members(q.groups) : KeyFor(q, k, x) = Due(q)[x]  BY <1>3, <2>2, <2>8, SMTT(30) DEF KeyFor, FirstFor
  <2>. QED  BY <1>3, <2>1, <2>5, <2>6, <2>7, <2>9 DEF PickOf, ListFor
<1>4. CASE ~k
  <2>1. PICK n, t : n = Head(q.sends) /\ t = Head(q.node[n].sends)  OBVIOUS
  <2>2. \A x \in Members(q.sends) : SendDue(q)[x] \in 1 .. c /\ SendDue(q)[x] = Larger(q.seq[Head(q.node[x].sends)], q.node[x].taken)
    BY ListKeys
  <2>3. \A x \in Members(q.sends) : SendDue(q)[x] \in Nat  BY <1>1, <2>2
  <2>4. q.sends # <<>> /\ Rising(q.sends, SendDue(q))  BY <1>1, <1>4 DEF Listed, ListFor
  <2>5. n \in Members(q.sends) /\ \A x \in Members(q.sends) : x = n \/ SendDue(q)[n] < SendDue(q)[x]
    BY <1>2, <2>1, <2>3, <2>4, HeadFacts
  <2>6. n \in Members(q.groups) /\ t \in Kin(q, n)  BY <2>1, <2>5, ListKeys
  <2>7. t \in In(q)  BY <2>6, NodeFacts
  <2>8. q.group[t] = n /\ GroupOf[t] = GroupOf[n]  BY <1>1, <2>6 DEF Kin, Grouped, Nodes1, NodeOk
  <2>9. \A x \in Members(q.sends) : KeyFor(q, k, x) = SendDue(q)[x]  BY <1>4, <2>2 DEF KeyFor, FirstFor
  <2>. QED  BY <1>4, <2>1, <2>5, <2>7, <2>8, <2>9 DEF PickOf, ListFor
<1>. QED  BY <1>3, <1>4

-----------------------------------------------------------------------------
(* Turns. *)

\* What a receiver of this kind could take of a node, and which of it comes first.
Takes(q, S, calls, n) == IF calls THEN Kin(q, n) ELSE Kin(q, n) \cap S

LEMMA FirstFacts ==
  ASSUME NEW q, NEW S, NEW c, QueueInv(q, S, c), NEW k \in BOOLEAN
  PROVE  /\ Members(ListFor(q, k)) = {n \in Members(q.groups) : Takes(q, S, k, n) # {}}
         /\ \A n \in Members(ListFor(q, k)) :
              /\ FirstFor(q, k, n) \in Takes(q, S, k, n) /\ FirstFor(q, k, n) \in In(q)
              /\ \A t \in Takes(q, S, k, n) : q.seq[FirstFor(q, k, n)] <= q.seq[t]
              /\ KeyFor(q, k, n) \in 1 .. c
<1>1. q \in Queues /\ Grouped(q, S) /\ Listed(q, S)  BY DEF QueueInv
<1>2. Members(ListFor(q, k)) = {n \in Members(q.groups) : Takes(q, S, k, n) # {}}
  <2>1. CASE k
    <3>1. \A n \in Members(q.groups) : n \in Kin(q, n)  BY NodeFacts
    <3>. QED  BY <2>1, <3>1 DEF ListFor, Takes
  <2>2. CASE ~k  BY <1>1, <2>2 DEF ListFor, Takes, Listed, Nodes1
  <2>. QED  BY <2>1, <2>2
<1>3. ASSUME NEW n \in Members(ListFor(q, k))
      PROVE  /\ FirstFor(q, k, n) \in Takes(q, S, k, n) /\ FirstFor(q, k, n) \in In(q)
             /\ \A t \in Takes(q, S, k, n) : q.seq[FirstFor(q, k, n)] <= q.seq[t]
             /\ KeyFor(q, k, n) \in 1 .. c
  <2>1. n \in Members(q.groups) /\ Takes(q, S, k, n) # {}  BY <1>2
  <2>2. Kin(q, n) \subseteq In(q)  BY <2>1, NodeFacts
  <2>3. FirstFor(q, k, n) \in Takes(q, S, k, n) /\ \A t \in Takes(q, S, k, n) : q.seq[FirstFor(q, k, n)] <= q.seq[t]
    <3>1. CASE k
      <4>1. Oldest(q, n) = n /\ n \in Kin(q, n)  BY <2>1, NodeFacts
      <4>2. \A t \in Kin(q, n) : q.seq[n] <= q.seq[t]  BY <1>1, <2>1 DEF Grouped, Nodes1, NodeOk
      <4>. QED  BY <3>1, <4>1, <4>2 DEF FirstFor, Takes
    <3>2. CASE ~k
      <4>1. Kin(q, n) \cap S # {}  BY <2>1, <3>2 DEF Takes
      <4>2. /\ Head(q.node[n].sends) \in Kin(q, n) \cap S
            /\ \A t \in Kin(q, n) \cap S : q.seq[Head(q.node[n].sends)] <= q.seq[t]
        BY <2>1, <4>1, NodeFacts
      <4>. QED  BY <3>2, <4>2 DEF FirstFor, Takes
    <3>. QED  BY <3>1, <3>2
  <2>4. FirstFor(q, k, n) \in In(q)  BY <2>2, <2>3 DEF Takes
  <2>5. KeyFor(q, k, n) \in 1 .. c  BY <2>1, <2>4, KeyTypes DEF KeyFor
  <2>. QED  BY <2>3, <2>4, <2>5
<1>. QED  BY <1>2, <1>3

\* What a step from q to r may do to the turns: a taken group h is due from now, any other
\* stays where it was or falls back, and stays if its first message does.
Turned(q, r, h, now) ==
  \A k \in BOOLEAN : \A y \in Members(ListFor(r, k)) :
    \/ GroupOf[y] = h /\ now <= KeyFor(r, k, y)
    \/ /\ now <= KeyFor(r, k, y)
       /\ \A x \in Members(ListFor(q, k)) : GroupOf[x] # GroupOf[y]
    \/ /\ GroupOf[y] # h
       /\ \E x \in Members(ListFor(q, k)) :
            /\ GroupOf[x] = GroupOf[y] /\ KeyFor(q, k, x) <= KeyFor(r, k, y)
            /\ FirstFor(r, k, y) = FirstFor(q, k, x) => KeyFor(q, k, x) = KeyFor(r, k, y)

\* A node that lost members is due no sooner.
LEMMA LessIsLater ==
  ASSUME NEW q, NEW S, NEW c, QueueInv(q, S, c), NEW r, NEW S2, NEW c2, QueueInv(r, S2, c2), S2 \subseteq S,
         NEW x \in Members(q.groups), NEW y \in Members(r.groups), NEW k \in BOOLEAN, y \in Members(ListFor(r, k)),
         \A t \in Kin(r, y) : r.seq[t] = q.seq[t], r.node[y].taken = q.node[x].taken, Kin(r, y) \subseteq Kin(q, x)
  PROVE  /\ x \in Members(ListFor(q, k)) /\ KeyFor(q, k, x) <= KeyFor(r, k, y)
         /\ FirstFor(r, k, y) = FirstFor(q, k, x) => KeyFor(q, k, x) = KeyFor(r, k, y)
<1>1. PICK f : f = FirstFor(r, k, y)  OBVIOUS
<1>2. f \in Takes(r, S2, k, y)  BY <1>1, FirstFacts
<1>3. f \in Takes(q, S, k, x) /\ f \in Kin(r, y)  BY <1>2 DEF Takes
<1>4. x \in Members(ListFor(q, k))
  <2>1. Members(ListFor(q, k)) = {n \in Members(q.groups) : Takes(q, S, k, n) # {}}  BY FirstFacts
  <2>. QED  BY <1>3, <2>1
<1>5. PICK e : e = FirstFor(q, k, x)  OBVIOUS
<1>6. e \in In(q) /\ \A t \in Takes(q, S, k, x) : q.seq[e] <= q.seq[t]  BY <1>4, <1>5, FirstFacts
<1>7. q.seq[e] <= q.seq[f] /\ r.seq[f] = q.seq[f]  BY <1>3, <1>6
<1>8. f \in In(q)  BY <1>3, NodeFacts DEF Takes
<1>9. q.seq[e] \in Nat /\ q.seq[f] \in Nat /\ q.node[x].taken \in Nat
  <2>1. e \in Senders /\ f \in Senders /\ x \in Senders  BY <1>6, <1>8, NodeFacts DEF In
  <2>2. q \in Queues  BY DEF QueueInv
  <2>. QED  BY <2>1, <2>2, Parts
<1>10. KeyFor(q, k, x) = Larger(q.seq[e], q.node[x].taken)  BY <1>5 DEF KeyFor
<1>11. KeyFor(r, k, y) = Larger(q.seq[f], q.node[x].taken)  BY <1>1, <1>7 DEF KeyFor
<1>12. Larger(q.seq[e], q.node[x].taken) <= Larger(q.seq[f], q.node[x].taken)  BY <1>7, <1>9 DEF Larger
<1>. QED  BY <1>1, <1>4, <1>5, <1>10, <1>11, <1>12

\* A message withdrawn.
LEMMA WithdrawTurns ==
  ASSUME NEW q, NEW S, NEW c, QueueInv(q, S, c), NEW r, NEW S2, NEW c2, QueueInv(r, S2, c2), S2 \subseteq S, Handed(q, r)
  PROVE  Turned(q, r, None, c + 1)
<1>. SUFFICES ASSUME NEW k \in BOOLEAN, NEW y \in Members(ListFor(r, k))
              PROVE  /\ GroupOf[y] # None
                     /\ \E x \in Members(ListFor(q, k)) :
                          /\ GroupOf[x] = GroupOf[y] /\ KeyFor(q, k, x) <= KeyFor(r, k, y)
                          /\ FirstFor(r, k, y) = FirstFor(q, k, x) => KeyFor(q, k, x) = KeyFor(r, k, y)
  BY DEF Turned
<1>1. y \in Members(r.groups)  BY FirstFacts
<1>2. PICK x \in Members(q.groups) :
        GroupOf[x] = GroupOf[y] /\ r.node[y].taken = q.node[x].taken /\ Kin(r, y) \subseteq Kin(q, x)
  BY <1>1 DEF Handed
<1>3. r.seq = q.seq  BY DEF Handed
<1>4. /\ x \in Members(ListFor(q, k)) /\ KeyFor(q, k, x) <= KeyFor(r, k, y)
      /\ FirstFor(r, k, y) = FirstFor(q, k, x) => KeyFor(q, k, x) = KeyFor(r, k, y)
  BY <1>1, <1>2, <1>3, LessIsLater
<1>5. y \in Senders  BY <1>1, NodeFacts
<1>6. GroupOf[y] # None  BY <1>5, GroupsAssumption
<1>. QED  BY <1>2, <1>4, <1>6

\* A message taken.
LEMMA DeliverTurns ==
  ASSUME NEW q, NEW S, NEW c, QueueInv(q, S, c), NEW t \in In(q), NEW p, p = Served(q, t, c + 1),
         QueueInv(p, S, c + 1), NEW r, NEW S2, QueueInv(r, S2, c + 1), S2 \subseteq S, Handed(p, r)
  PROVE  Turned(q, r, GroupOf[t], c + 1)
<1>. SUFFICES ASSUME NEW k \in BOOLEAN, NEW y \in Members(ListFor(r, k))
              PROVE  \/ GroupOf[y] = GroupOf[t] /\ c + 1 <= KeyFor(r, k, y)
                     \/ /\ GroupOf[y] # GroupOf[t]
                        /\ \E x \in Members(ListFor(q, k)) :
                             /\ GroupOf[x] = GroupOf[y] /\ KeyFor(q, k, x) <= KeyFor(r, k, y)
                             /\ FirstFor(r, k, y) = FirstFor(q, k, x) => KeyFor(q, k, x) = KeyFor(r, k, y)
  BY DEF Turned
<1>1. y \in Members(r.groups) /\ FirstFor(r, k, y) \in In(r) /\ KeyFor(r, k, y) \in 1 .. c + 1  BY FirstFacts
<1>2. PICK x \in Members(p.groups) :
        GroupOf[x] = GroupOf[y] /\ r.node[y].taken = p.node[x].taken /\ Kin(r, y) \subseteq Kin(p, x)
  BY <1>1 DEF Handed
<1>3. PICK n : n = q.group[t]  OBVIOUS
<1>4. n \in Members(q.groups) /\ n \in Senders /\ GroupOf[n] = GroupOf[t]
  <2>1. n \in Members(q.groups) /\ t \in Kin(q, n)  BY <1>3 DEF QueueInv, Grouped, Nodes1, Kin, In
  <2>2. n \in Senders  BY <2>1, NodeFacts
  <2>3. NodeOk(q, S, n)  BY <2>1 DEF QueueInv, Grouped, Nodes1
  <2>. QED  BY <2>1, <2>2, <2>3 DEF NodeOk
<1>5. /\ Members(p.groups) = Members(q.groups)
      /\ p.node = [q.node EXCEPT ![n] = [@ EXCEPT !.taken = c + 1]]
      /\ p.group = q.group /\ p.seq = q.seq
  <2>1. c + 1 \in Nat /\ c \in Nat /\ q \in Queues /\ Listed(q, S)  BY DEF QueueInv
  <2>2. /\ p.groups = Append(Without(q.groups, n), n)
        /\ p.node = [q.node EXCEPT ![n] = [@ EXCEPT !.taken = c + 1]]
        /\ p.group = q.group /\ p.seq = q.seq
    BY <1>3, <2>1, ServedFields
  <2>3. \A z \in Members(q.groups) : Due(q)[z] \in 1 .. c  BY ListKeys
  <2>4. \A z \in Members(q.groups) : Due(q)[z] \in Nat  BY <2>1, <2>3
  <2>5. q.groups \in Seq(Senders) /\ Rising(q.groups, Due(q))  BY <2>1, Parts DEF Listed
  <2>6. Members(Append(Without(q.groups, n), n)) = Members(q.groups)  BY <1>4, <2>4, <2>5, MovedLast
  <2>. QED  BY <2>2, <2>6
<1>6. q.node \in [Senders -> Nodes] /\ c \in Nat  BY Parts DEF QueueInv
<1>7. CASE x = n
  <2>1. p.node[n].taken = c + 1
    <3>1. q.node[n] \in Nodes  BY <1>4, <1>6
    <3>. QED  BY <1>4, <1>5, <1>6, <3>1 DEF Nodes
  <2>2. r.node[y].taken = c + 1  BY <1>2, <1>7, <2>1
  <2>3. r.node[y].taken <= KeyFor(r, k, y)  BY <1>1, KeyTypes DEF KeyFor
  <2>. QED  BY <1>2, <1>4, <1>7, <2>2, <2>3
<1>8. CASE x # n
  <2>1. x \in Members(q.groups) /\ x \in Senders  BY <1>2, <1>5, NodeFacts
  <2>2. GroupOf[x] # GroupOf[n]  BY <1>4, <1>8, <2>1, KinApart
  <2>3. p.node[x] = q.node[x]  BY <1>5, <1>6, <1>8, <2>1
  <2>4. Kin(p, x) = Kin(q, x)  BY <1>5 DEF Kin
  <2>5. r.seq = q.seq  BY <1>5 DEF Handed
  <2>6. r.node[y].taken = q.node[x].taken /\ Kin(r, y) \subseteq Kin(q, x)  BY <1>2, <2>3, <2>4
  <2>7. /\ x \in Members(ListFor(q, k)) /\ KeyFor(q, k, x) <= KeyFor(r, k, y)
        /\ FirstFor(r, k, y) = FirstFor(q, k, x) => KeyFor(q, k, x) = KeyFor(r, k, y)
    BY <1>1, <2>1, <2>5, <2>6, LessIsLater
  <2>. QED  BY <1>2, <1>4, <2>2, <2>7
<1>. QED  BY <1>7, <1>8

\* A message queued.
LEMMA SendTurns ==
  ASSUME NEW S, NEW c, QueueInv(queue, S, c), NEW t \in Senders, t \notin In(queue), NEW send \in BOOLEAN,
         NEW r, r = Enqueue(queue, t, send, c + 1), NEW S2, S2 \subseteq S \cup {t}, QueueInv(r, S2, c + 1)
  PROVE  Turned(queue, r, None, c + 1)
<1>. DEFINE new == Find(t) = {}
            n == IF new THEN t ELSE CHOOSE x \in Find(t) : TRUE
            old == IF new THEN NoNode ELSE queue.node[n]
            node2 == [old EXCEPT !.sends = IF send THEN Append(@, t) ELSE @,
                                 !.calls = IF send THEN @ ELSE Append(@, t),
                                 !.count = @ + 1]
<1>1. PICK q : q = queue  OBVIOUS
<1>2. QueueInv(q, S, c) /\ q \in Queues /\ Grouped(q, S) /\ c \in Nat  BY <1>1 DEF QueueInv
<1>3. /\ r.groups = IF new THEN Append(q.groups, t) ELSE q.groups
      /\ r.node = [q.node EXCEPT ![n] = node2]
      /\ r.group = [q.group EXCEPT ![t] = n]
      /\ r.seq = [q.seq EXCEPT ![t] = c + 1]
  BY <1>1 DEF Enqueue
<1>4. /\ q.groups \in Seq(Senders) /\ q.node \in [Senders -> Nodes] /\ q.seq \in [Senders -> Nat]
      /\ q.group \in [Senders -> Senders \cup {None}] /\ Members(q.groups) \subseteq Senders
  BY <1>2, Parts
<1>5. t \notin Members(q.groups)  BY <1>1, <1>2, NodeFacts
<1>6. Members(q.groups) \subseteq Members(r.groups)  BY <1>3, <1>4, AppendFacts
<1>7. \A x \in Members(q.groups) : r.node[x].taken = q.node[x].taken
  <2>. SUFFICES ASSUME NEW x \in Members(q.groups)  PROVE r.node[x].taken = q.node[x].taken  OBVIOUS
  <2>1. CASE x # n  BY <1>3, <1>4, <2>1
  <2>2. CASE x = n
    <3>1. ~new /\ old = q.node[x]  BY <1>1, <1>5, <2>2
    <3>2. r.node[x] = node2  BY <1>3, <1>4, <2>2
    <3>3. q.node[x] \in Nodes  BY <1>4
    <3>4. PICK o : o = q.node[x]  OBVIOUS
    <3>5. old = o /\ o \in Nodes  BY <3>1, <3>3, <3>4
    <3>6. node2.taken = o.taken
      <4>. HIDE DEF old, new, n
      <4>. QED  BY <3>5 DEF Nodes
    <3>. QED  BY <3>2, <3>4, <3>6
  <2>. QED  BY <2>1, <2>2
<1>8. r.seq[t] = c + 1 /\ \A x \in Senders \ {t} : r.seq[x] = q.seq[x] /\ r.group[x] = q.group[x]
  BY <1>3, <1>4
<1>. HIDE DEF new, n, old, node2
<1>. SUFFICES ASSUME NEW k \in BOOLEAN, NEW y \in Members(ListFor(r, k))
              PROVE  \/ /\ c + 1 <= KeyFor(r, k, y)
                        /\ \A x \in Members(ListFor(q, k)) : GroupOf[x] # GroupOf[y]
                     \/ /\ GroupOf[y] # None
                        /\ \E x \in Members(ListFor(q, k)) :
                             /\ GroupOf[x] = GroupOf[y] /\ KeyFor(q, k, x) <= KeyFor(r, k, y)
                             /\ FirstFor(r, k, y) = FirstFor(q, k, x) => KeyFor(q, k, x) = KeyFor(r, k, y)
  BY <1>1 DEF Turned
<1>9. PICK f : f = FirstFor(r, k, y)  OBVIOUS
<1>10. y \in Members(r.groups) /\ f \in Takes(r, S2, k, y) /\ f \in In(r)  BY <1>9, FirstFacts
<1>11. GroupOf[y] # None
  <2>1. y \in Senders  BY <1>10, NodeFacts
  <2>. QED  BY <2>1, GroupsAssumption
<1>12. CASE f = t
  <2>1. c + 1 <= KeyFor(r, k, y)
    <3>1. r.seq[f] <= KeyFor(r, k, y)  BY <1>9, <1>10, KeyTypes DEF KeyFor
    <3>. QED  BY <1>8, <1>12, <3>1
  <2>2. CASE y \in Members(ListFor(q, k))
    <3>1. KeyFor(q, k, y) \in 1 .. c /\ FirstFor(q, k, y) \in In(q)  BY <1>2, <2>2, FirstFacts
    <3>2. KeyFor(r, k, y) \in 1 .. c + 1  BY FirstFacts
    <3>3. FirstFor(q, k, y) # FirstFor(r, k, y)  BY <1>1, <1>9, <1>12, <3>1
    <3>4. KeyFor(q, k, y) <= KeyFor(r, k, y)  BY <1>2, <2>1, <3>1, <3>2
    <3>. QED  BY <1>11, <2>2, <3>3, <3>4
  <2>3. CASE y \notin Members(ListFor(q, k))
    <3>1. ASSUME NEW x \in Members(ListFor(q, k)), GroupOf[x] = GroupOf[y]  PROVE FALSE
      <4>1. x \in Members(q.groups)  BY <1>2, FirstFacts
      <4>2. x \in Members(r.groups)  BY <1>6, <4>1
      <4>3. x = y  BY <1>10, <3>1, <4>2, KinApart
      <4>. QED  BY <2>3, <4>3
    <3>. QED  BY <2>1, <3>1
  <2>. QED  BY <2>2, <2>3
<1>13. CASE f # t
  <2>1. f \in Senders \ {t} /\ f \in Kin(r, y)  BY <1>10, <1>13 DEF Takes, In
  <2>2. f \in Kin(q, y) /\ r.seq[f] = q.seq[f]  BY <1>8, <2>1 DEF Kin
  <2>3. f \in Takes(q, S, k, y)  BY <1>10, <1>13, <2>2 DEF Takes
  <2>4. y # None  BY <1>10, NodeFacts
  <2>5. y \in Members(q.groups)  BY <1>2, <2>2, <2>4 DEF Kin, Grouped, Nodes1, In
  <2>6. y \in Members(ListFor(q, k))
    <3>1. Members(ListFor(q, k)) = {x \in Members(q.groups) : Takes(q, S, k, x) # {}}  BY <1>2, FirstFacts
    <3>. QED  BY <2>3, <2>5, <3>1
  <2>7. PICK e : e = FirstFor(q, k, y)  OBVIOUS
  <2>8. e \in In(q) /\ q.seq[e] <= q.seq[f]  BY <1>2, <2>3, <2>6, <2>7, FirstFacts
  <2>9. q.seq[e] \in Nat /\ q.seq[f] \in Nat /\ q.node[y].taken \in Nat
    <3>1. e \in Senders /\ f \in Senders /\ y \in Senders  BY <1>4, <2>1, <2>5, <2>8 DEF In
    <3>. QED  BY <1>2, <3>1, Parts
  <2>10. KeyFor(q, k, y) = Larger(q.seq[e], q.node[y].taken)  BY <2>7 DEF KeyFor
  <2>11. KeyFor(r, k, y) = Larger(q.seq[f], q.node[y].taken)  BY <1>7, <1>9, <2>2, <2>5 DEF KeyFor
  <2>12. Larger(q.seq[e], q.node[y].taken) <= Larger(q.seq[f], q.node[y].taken)  BY <2>8, <2>9 DEF Larger
  <2>. QED  BY <1>9, <1>11, <2>6, <2>7, <2>10, <2>11, <2>12
<1>. QED  BY <1>12, <1>13

\* What Passing makes of the counts.
PassesOf(q, r, p, h, kind) ==
  [calls \in BOOLEAN |-> [g \in Groups |-> [x \in Groups |->
     IF g = h \/ OldestFor(r, calls, g) # OldestFor(q, calls, g) \/ OldestFor(r, calls, g) = {}
     THEN 0
     ELSE p[calls][g][x] + (IF x = h /\ calls = kind THEN 1 ELSE 0)]]]

\* A step that turns groups so, and takes h only from the head of the list, keeps each
\* group from being taken twice past another's waiting message.
LEMMA PassedKeeps ==
  ASSUME NEW q, NEW S, NEW c, QueueInv(q, S, c), NEW r, NEW S2, NEW c2, QueueInv(r, S2, c2),
         NEW p, PassedOnce(q, p), NEW h, NEW kind \in BOOLEAN, Turned(q, r, h, c + 1),
         h \in Groups => \E y \in Members(ListFor(q, kind)) :
                           GroupOf[y] = h /\ \A x \in Members(ListFor(q, kind)) : x = y \/ KeyFor(q, kind, y) < KeyFor(q, kind, x),
         NEW p2, p2 = PassesOf(q, r, p, h, kind)
  PROVE  PassedOnce(r, p2)
<1>1. c \in Nat /\ c2 \in Nat  BY DEF QueueInv
<1>2. ASSUME NEW k \in BOOLEAN, NEW g \in Groups, NEW x \in Groups
      PROVE  p2[k][g][x] \in {0, 1} /\ (p2[k][g][x] = 1 => Ahead(r, k, g, x))
  <2>1. p2[k][g][x] = IF g = h \/ OldestFor(r, k, g) # OldestFor(q, k, g) \/ OldestFor(r, k, g) = {}
                      THEN 0
                      ELSE p[k][g][x] + (IF x = h /\ k = kind THEN 1 ELSE 0)
    BY <1>2 DEF PassesOf
  <2>2. p[k][g][x] \in {0, 1} /\ (p[k][g][x] = 1 => Ahead(q, k, g, x))  BY <1>2 DEF PassedOnce
  <2>3. CASE g = h \/ OldestFor(r, k, g) # OldestFor(q, k, g) \/ OldestFor(r, k, g) = {}  BY <2>1, <2>3
  <2>4. CASE ~(g = h \/ OldestFor(r, k, g) # OldestFor(q, k, g) \/ OldestFor(r, k, g) = {})
    <3>1. \A z, n : n \in Members(ListFor(z, k)) /\ GroupOf[n] = g => FirstFor(z, k, n) \in OldestFor(z, k, g)
      BY DEF OldestFor, ListFor, FirstFor
    <3>2. \A z, f : f \in OldestFor(z, k, g) => \E n \in Members(ListFor(z, k)) : GroupOf[n] = g /\ f = FirstFor(z, k, n)
      BY DEF OldestFor, ListFor, FirstFor
    <3>3. PICK f : f \in OldestFor(r, k, g) /\ f \in OldestFor(q, k, g)  BY <2>4
    <3>4. PICK b \in Members(ListFor(r, k)) : GroupOf[b] = g /\ f = FirstFor(r, k, b)  BY <3>2, <3>3
    <3>5. PICK a \in Members(ListFor(q, k)) : GroupOf[a] = g /\ f = FirstFor(q, k, a)  BY <3>2, <3>3
    <3>6. \A z \in Members(ListFor(q, k)) : GroupOf[z] = g => z = a
      <4>1. Members(ListFor(q, k)) \subseteq Members(q.groups)  BY FirstFacts
      <4>. QED  BY <3>5, <4>1, KinApart
    <3>7. KeyFor(q, k, a) = KeyFor(r, k, b)  BY <2>4, <3>4, <3>5, <3>6, ZenonT(60) DEF Turned
    <3>8. KeyFor(q, k, a) \in 1 .. c  BY <3>5, FirstFacts
    <3>9. \A z \in Members(ListFor(r, k)) : KeyFor(r, k, z) \in 1 .. c2  BY FirstFacts
    <3>10. \A z \in Members(ListFor(q, k)) : KeyFor(q, k, z) \in 1 .. c  BY FirstFacts
    <3>11. CASE x = h /\ k = kind
      <4>1. PICK y \in Members(ListFor(q, k)) :
              GroupOf[y] = h /\ \A z \in Members(ListFor(q, k)) : z = y \/ KeyFor(q, k, y) < KeyFor(q, k, z)
        BY <3>11
      <4>2. p[k][g][x] # 1
        <5>. SUFFICES ASSUME Ahead(q, k, g, h)  PROVE FALSE  BY <2>2, <3>11
        <5>1. KeyFor(q, k, a) < KeyFor(q, k, y)  BY <3>6, <4>1 DEF Ahead
        <5>2. KeyFor(q, k, y) < KeyFor(q, k, a)  BY <2>4, <3>5, <4>1
        <5>. QED  BY <3>10, <5>1, <5>2, <1>1
      <4>3. p2[k][g][x] = 1  BY <2>1, <2>2, <2>4, <3>11, <4>2
      <4>4. Ahead(r, k, g, h)
        <5>1. ASSUME NEW z \in Members(ListFor(r, k)), GroupOf[z] = h  PROVE KeyFor(r, k, b) < KeyFor(r, k, z)
          <6>1. c + 1 <= KeyFor(r, k, z)  BY <5>1 DEF Turned
          <6>. QED  BY <1>1, <3>7, <3>8, <3>9, <6>1
        <5>. QED  BY <3>4, <5>1 DEF Ahead
      <4>. QED  BY <3>11, <4>3, <4>4
    <3>12. CASE ~(x = h /\ k = kind)
      <4>1. p2[k][g][x] = p[k][g][x]  BY <2>1, <2>2, <2>4, <3>12
      <4>2. ASSUME Ahead(q, k, g, x)  PROVE Ahead(r, k, g, x)
        <5>1. \A y \in Members(ListFor(q, k)) : GroupOf[y] = x => KeyFor(q, k, a) < KeyFor(q, k, y)
          BY <3>6, <4>2 DEF Ahead
        <5>2. ASSUME NEW z \in Members(ListFor(r, k)), GroupOf[z] = x  PROVE KeyFor(r, k, b) < KeyFor(r, k, z)
          <6>1. CASE c + 1 <= KeyFor(r, k, z)  BY <1>1, <3>7, <3>8, <3>9, <6>1
          <6>2. CASE ~(c + 1 <= KeyFor(r, k, z))
            <7>1. PICK y \in Members(ListFor(q, k)) : GroupOf[y] = x /\ KeyFor(q, k, y) <= KeyFor(r, k, z)
              BY <5>2, <6>2 DEF Turned
            <7>2. KeyFor(q, k, a) < KeyFor(q, k, y)  BY <5>1, <7>1
            <7>. QED  BY <1>1, <3>7, <3>8, <3>9, <3>10, <7>1, <7>2
          <6>. QED  BY <6>1, <6>2
        <5>. QED  BY <3>4, <5>2 DEF Ahead
      <4>. QED  BY <2>2, <4>1, <4>2
    <3>. QED  BY <3>11, <3>12
  <2>. QED  BY <2>3, <2>4
<1>3. p2 \in [BOOLEAN -> [Groups -> [Groups -> {0, 1}]]]
  <2>1. \A k \in BOOLEAN : p2[k] \in [Groups -> [Groups -> {0, 1}]]
    <3>. SUFFICES ASSUME NEW k \in BOOLEAN  PROVE p2[k] \in [Groups -> [Groups -> {0, 1}]]  OBVIOUS
    <3>1. p2[k] = [g \in Groups |-> p2[k][g]]  BY DEF PassesOf
    <3>2. \A g \in Groups : p2[k][g] = [x \in Groups |-> p2[k][g][x]]  BY DEF PassesOf
    <3>3. \A g \in Groups : p2[k][g] \in [Groups -> {0, 1}]  BY <1>2, <3>2
    <3>. QED  BY <3>1, <3>3
  <2>2. p2 = [k \in BOOLEAN |-> p2[k]]  BY DEF PassesOf
  <2>. QED  BY <2>1, <2>2
<1>. QED  BY <1>2, <1>3 DEF PassedOnce

-----------------------------------------------------------------------------
(* The specification. *)

LEMMA Empty == QueueInit => Inv
<1>. SUFFICES ASSUME QueueInit  PROVE Inv  OBVIOUS
<1>1. PICK q : q = queue  OBVIOUS
<1>2. /\ q = [groups |-> <<>>, sends |-> <<>>, node |-> [t \in Senders |-> NoNode],
             group |-> [t \in Senders |-> None], seq |-> [t \in Senders |-> 0]]
      /\ clock = 0 /\ sending = {}
      /\ passed = [calls \in BOOLEAN |-> [g \in Groups |-> [x \in Groups |-> 0]]]
  BY <1>1 DEF QueueInit
<1>3. NoNode \in Nodes  BY CapAssumption DEF NoNode, Nodes
<1>4. q \in Queues  BY <1>2, <1>3 DEF Queues
<1>5. q.groups = <<>> /\ q.sends = <<>> /\ Members(q.groups) = {} /\ Members(q.sends) = {}  BY <1>2 DEF Members
<1>6. In(q) = {}  BY <1>2 DEF In
<1>7. Stamped(q, clock)  BY <1>5, <1>6 DEF Stamped, Nodes1
<1>8. Grouped(q, sending)  BY <1>2, <1>5, <1>6 DEF Grouped, Nodes1
<1>9. Listed(q, sending)  BY <1>5 DEF Listed, Nodes1, Rising
<1>10. PassedOnce(queue, passed)  BY <1>2 DEF PassedOnce
<1>. QED  BY <1>1, <1>2, <1>4, <1>7, <1>8, <1>9, <1>10, CapAssumption DEF Inv, QueueInv

\* Every step keeps the invariant.
LEMMA Step == Inv /\ [QueueNext]_vars => Inv'
<1>. SUFFICES ASSUME Inv, [QueueNext]_vars  PROVE Inv'  OBVIOUS
<1>1. /\ QueueInv(queue, sending, clock) /\ clock <= MaxClock /\ PassedOnce(queue, passed)
      /\ clock \in Nat /\ MaxClock \in Nat /\ queue \in Queues
  BY CapAssumption DEF Inv, QueueInv
<1>2. None \notin Groups  BY GroupsAssumption DEF Groups
<1>3. ASSUME NEW t \in Senders, NEW send \in BOOLEAN, Send(t, send)  PROVE Inv'
  <2>1. /\ t \notin In(queue) /\ ~Full(t) /\ clock < MaxClock /\ clock' = clock + 1
        /\ queue' = Enqueue(queue, t, send, clock + 1)
        /\ sending' = IF send THEN sending \cup {t} ELSE sending
        /\ Passing(queue', None, FALSE)
    BY <1>3 DEF Send, Queued, In
  <2>2. QueueInv(queue', sending', clock')  BY <1>1, <2>1, EnqueueKeeps
  <2>3. sending' \subseteq sending \cup {t}  BY <2>1
  <2>4. QueueInv(queue', sending', clock + 1)  BY <2>1, <2>2
  <2>5. Turned(queue, queue', None, clock + 1)  BY <1>1, <2>1, <2>3, <2>4, SendTurns
  <2>6. PassedOnce(queue', passed')
    <3>1. passed' = PassesOf(queue, queue', passed, None, FALSE)  BY <2>1 DEF Passing, PassesOf
    <3>. QED  BY <1>1, <1>2, <2>2, <2>5, <3>1, PassedKeeps
  <2>. QED  BY <1>1, <2>1, <2>2, <2>6 DEF Inv
<1>4. ASSUME NEW t \in Senders, Withdraw(t)  PROVE Inv'
  <2>1. /\ t \in In(queue) /\ queue' = Dequeue(queue, t, t \in sending) /\ sending' = sending \ {t}
        /\ Passing(queue', None, FALSE) /\ clock' = clock
    BY <1>4 DEF Withdraw, Queued, In
  <2>2. QueueInv(queue', sending', clock) /\ Handed(queue, queue')  BY <1>1, <2>1, DequeueKeeps
  <2>3. sending' \subseteq sending  BY <2>1
  <2>4. Turned(queue, queue', None, clock + 1)  BY <1>1, <2>2, <2>3, WithdrawTurns
  <2>5. PassedOnce(queue', passed')
    <3>1. passed' = PassesOf(queue, queue', passed, None, FALSE)  BY <2>1 DEF Passing, PassesOf
    <3>. QED  BY <1>1, <1>2, <2>2, <2>4, <3>1, PassedKeeps
  <2>. QED  BY <1>1, <2>1, <2>2, <2>5 DEF Inv
<1>5. ASSUME NEW calls \in BOOLEAN, Deliver(calls)  PROVE Inv'
  <2>1. PICK t : t = PickOf(queue, calls)  OBVIOUS
  <2>2. /\ ListFor(queue, calls) # <<>> /\ clock < MaxClock /\ clock' = clock + 1
        /\ queue' = Dequeue(Served(queue, t, clock + 1), t, t \in sending)
        /\ sending' = sending \ {t}
        /\ Passing(queue', GroupOf[t], calls)
    BY <1>5, <2>1 DEF Deliver, ListFor
  <2>3. /\ t \in In(queue) /\ Head(ListFor(queue, calls)) \in Members(ListFor(queue, calls))
        /\ GroupOf[Head(ListFor(queue, calls))] = GroupOf[t]
        /\ \A x \in Members(ListFor(queue, calls)) :
             x = Head(ListFor(queue, calls)) \/ KeyFor(queue, calls, Head(ListFor(queue, calls))) < KeyFor(queue, calls, x)
    BY <1>1, <2>1, <2>2, Picked
  <2>4. PICK p : p = Served(queue, t, clock + 1)  OBVIOUS
  <2>5. QueueInv(p, sending, clock + 1)  BY <1>1, <2>3, <2>4, ServedKeeps
  <2>6. t \in In(p)
    <3>1. p.group = queue.group  BY <1>1, <2>4 DEF Served, Queues
    <3>. QED  BY <2>3, <3>1 DEF In
  <2>7. QueueInv(queue', sending', clock + 1) /\ Handed(p, queue')  BY <2>2, <2>4, <2>5, <2>6, DequeueKeeps
  <2>8. sending' \subseteq sending  BY <2>2
  <2>9. Turned(queue, queue', GroupOf[t], clock + 1)  BY <1>1, <2>3, <2>4, <2>5, <2>7, <2>8, DeliverTurns
  <2>10. PassedOnce(queue', passed')
    <3>1. passed' = PassesOf(queue, queue', passed, GroupOf[t], calls)  BY <2>2 DEF Passing, PassesOf
    <3>. QED  BY <1>1, <2>3, <2>7, <2>9, <3>1, PassedKeeps
  <2>. QED  BY <1>1, <2>2, <2>7, <2>10 DEF Inv
<1>6. CASE UNCHANGED vars  BY <1>1, <1>6 DEF vars, Inv
<1>. QED  BY <1>3, <1>4, <1>5, <1>6 DEF QueueNext

\* What the audit wants follows from the invariant.
LEMMA Audited == Inv => AuditHolds
<1>. SUFFICES ASSUME Inv  PROVE AuditHolds  OBVIOUS
<1>1. PICK q, S : q = queue /\ S = sending  OBVIOUS
<1>2. QueueInv(q, S, clock) /\ q \in Queues /\ Grouped(q, S) /\ Listed(q, S)  BY <1>1 DEF Inv, QueueInv
<1>3. q.groups \in Seq(Senders) /\ q.sends \in Seq(Senders)  BY <1>2, Parts
<1>4. \A i \in 1 .. Len(q.groups) - 1 : DueOf(q, q.groups[i]) < DueOf(q, q.groups[i + 1])
  <2>1. \A x \in Members(q.groups) : DueOf(q, x) = Due(q)[x]  BY <1>2, NodeFacts
  <2>. SUFFICES ASSUME NEW i \in 1 .. Len(q.groups) - 1  PROVE DueOf(q, q.groups[i]) < DueOf(q, q.groups[i + 1])
    OBVIOUS
  <2>2. i \in DOMAIN q.groups /\ i + 1 \in DOMAIN q.groups /\ i < i + 1  BY <1>3
  <2>3. Due(q)[q.groups[i]] < Due(q)[q.groups[i + 1]]  BY <1>2, <2>2 DEF Listed, Rising
  <2>. QED  BY <2>1, <2>2, <2>3 DEF Members
<1>5. \A i \in 1 .. Len(q.sends) - 1 : SendDueOf(q, q.sends[i]) < SendDueOf(q, q.sends[i + 1])
  <2>1. \A x \in Senders : SendDueOf(q, x) = SendDue(q)[x]  BY DEF SendDue
  <2>. SUFFICES ASSUME NEW i \in 1 .. Len(q.sends) - 1  PROVE SendDueOf(q, q.sends[i]) < SendDueOf(q, q.sends[i + 1])
    OBVIOUS
  <2>2. i \in DOMAIN q.sends /\ i + 1 \in DOMAIN q.sends /\ i < i + 1 /\ q.sends[i] \in Senders /\ q.sends[i + 1] \in Senders
    BY <1>3
  <2>3. SendDue(q)[q.sends[i]] < SendDue(q)[q.sends[i + 1]]  BY <1>2, <2>2 DEF Listed, Rising
  <2>. QED  BY <2>1, <2>2, <2>3
<1>6. ASSUME NEW n \in Members(q.groups)
      PROVE  LET K == Members(q.node[n].sends) \cup Members(q.node[n].calls)
             IN  /\ Oldest(q, n) = n /\ K = {m \in Senders : q.group[m] = n} /\ q.node[n].count = Cardinality(K)
                 /\ \A m \in K : GroupOf[m] = GroupOf[n]
                 /\ q.node[n].sends = <<>> <=> n \notin Members(q.sends)
  <2>1. NodeOk(q, S, n)  BY <1>2 DEF Grouped, Nodes1
  <2>2. Members(q.node[n].sends) = Kin(q, n) \cap S /\ Members(q.node[n].calls) = Kin(q, n) \ S
    BY <2>1 DEF NodeOk, Chain
  <2>3. Members(q.node[n].sends) \cup Members(q.node[n].calls) = Kin(q, n)  BY <2>2
  <2>4. Oldest(q, n) = n /\ (q.node[n].sends = <<>> <=> n \notin Members(q.sends))  BY <1>2, NodeFacts
  <2>5. Kin(q, n) = {m \in Senders : q.group[m] = n}  BY DEF Kin
  <2>6. q.node[n].count = Cardinality(Kin(q, n)) /\ \A m \in Kin(q, n) : GroupOf[m] = GroupOf[n]  BY <2>1 DEF NodeOk
  <2>. QED  BY <2>3, <2>4, <2>5, <2>6
<1>7. Members(q.sends) \subseteq Members(q.groups)  BY <1>2, ListKeys
<1>8. \A t \in Queued : q.group[t] \in Members(q.groups)  BY <1>1, <1>2 DEF Queued, Grouped, Nodes1, In
<1>9. /\ \A i \in 1 .. Len(queue.groups) - 1 : DueOf(queue, queue.groups[i]) < DueOf(queue, queue.groups[i + 1])
      /\ \A i \in 1 .. Len(queue.sends) - 1 : SendDueOf(queue, queue.sends[i]) < SendDueOf(queue, queue.sends[i + 1])
  BY <1>1, <1>4, <1>5
<1>10. \A n \in Members(queue.groups) :
         LET K == Members(queue.node[n].sends) \cup Members(queue.node[n].calls)
         IN  /\ Oldest(queue, n) = n /\ K = {m \in Senders : queue.group[m] = n} /\ queue.node[n].count = Cardinality(K)
             /\ \A m \in K : GroupOf[m] = GroupOf[n]
             /\ queue.node[n].sends = <<>> <=> n \notin Members(queue.sends)
  BY <1>1, <1>6, SMTT(30)
<1>. QED  BY <1>1, <1>7, <1>8, <1>9, <1>10 DEF AuditHolds

\* The invariant holds in every state: no value of the counter is used twice, each group's
\* messages are on the chains of its one node, in its oldest, both lists are in the order
\* their groups fall due, and no group was taken twice past another's waiting message.
THEOREM Invariance == QueueSpec => []Inv
<1>1. QueueInit => Inv  BY Empty
<1>2. Inv /\ [QueueNext]_vars => Inv'  BY Step
<1>. QED  BY <1>1, <1>2, PTL DEF QueueSpec

\* audit_groups finds nothing, whatever is queued, taken and withdrawn.
THEOREM AuditClean == QueueSpec => []AuditHolds
<1>1. Inv => AuditHolds  BY Audited
<1>. QED  BY <1>1, Invariance, PTL

\* I11: no group is taken twice while another's oldest message waits, of the calls and
\* sends together and of the sends alone.
THEOREM TurnsAreFair == QueueSpec => []FairTurns
<1>1. Inv => FairTurns
  <2>. SUFFICES ASSUME Inv, NEW calls \in BOOLEAN, NEW g \in Groups, NEW h \in Groups
                PROVE  passed[calls][g][h] <= 1
    BY DEF FairTurns
  <2>1. passed[calls][g][h] \in {0, 1}  BY DEF Inv, PassedOnce
  <2>. QED  BY <2>1
<1>. QED  BY <1>1, Invariance, PTL

-----------------------------------------------------------------------------
(* The one line: places kept of a sequence. *)

\* e lists the k members of P as they rise.
Enumerates(e, k, P) ==
  /\ k \in Nat /\ e \in [1 .. k -> P]
  /\ \A m, n \in 1 .. k : m < n => e[m] < e[n]
  /\ \A i \in P : \E n \in 1 .. k : e[n] = i

\* The members of s at those places.
AtPlaces(s, e, k) == [n \in 1 .. k |-> s[e[n]]]

\* What is kept at the places that e lists is what is there, in that order.
LEMMA KeptBy ==
  ASSUME NEW c \in Nat, NEW P \in SUBSET (1 .. c), NEW k, NEW e, Enumerates(e, k, P), NEW s
  PROVE  Line!Kept(s, P) = AtPlaces(s, e, k)
<1>. DEFINE Upto(i) == {j \in P : j <= i}
<1>0. /\ k \in Nat /\ e \in [1 .. k -> P]
      /\ \A m, n \in 1 .. k : m < n => e[m] < e[n]
      /\ \A i \in P : \E n \in 1 .. k : e[n] = i
  BY DEF Enumerates
<1>. \A i \in P : i \in Nat  OBVIOUS
<1>1. \A n \in 1 .. k : e[n] \in P /\ e[n] \in Nat  BY <1>0
<1>2. \A m, n \in 1 .. k : e[m] <= e[n] <=> m <= n
  <2>. TAKE m, n \in 1 .. k
  <2>1. m \in Nat /\ n \in Nat /\ e[m] \in Nat /\ e[n] \in Nat  BY <1>1
  <2>2. (m < n => e[m] < e[n]) /\ (n < m => e[n] < e[m])  BY <1>0
  <2>. QED  BY <2>1, <2>2
<1>3. ASSUME NEW n \in 0 .. k, NEW A, A = {e[m] : m \in 1 .. n}  PROVE Cardinality(A) = n
  <2>1. n \in Nat /\ 1 .. n \subseteq 1 .. k  BY <1>0
  <2>. DEFINE f == [m \in 1 .. n |-> e[m]]
  <2>2. \A m, x \in 1 .. n : f[m] = f[x] => m = x
    <3>. TAKE m, x \in 1 .. n
    <3>1. m \in 1 .. k /\ x \in 1 .. k /\ e[m] \in Nat /\ e[x] \in Nat  BY <1>1, <2>1
    <3>2. e[m] = e[x] => m <= x /\ x <= m  BY <1>2, <3>1
    <3>. QED  BY <3>1, <3>2
  <2>3. f \in [1 .. n -> A] /\ \A y \in A : \E m \in 1 .. n : f[m] = y  BY <1>3
  <2>4. f \in Bijection(1 .. n, A)
    <3>. HIDE DEF f
    <3>. QED  BY <2>2, <2>3 DEF Bijection, Injection, Surjection, IsInjective
  <2>5. IsFiniteSet(1 .. n) /\ Cardinality(1 .. n) = n  BY <2>1, FS_Interval
  <2>6. ExistsBijection(1 .. n, A)  BY <2>4 DEF ExistsBijection
  <2>. QED  BY <2>1, <2>6, FS_NatBijection, FS_CountingElements
<1>4. Cardinality(P) = k
  <2>1. P = {e[m] : m \in 1 .. k}  BY <1>0, <1>1
  <2>2. k \in 0 .. k  BY <1>0
  <2>. QED  BY <1>3, <2>1, <2>2
<1>5. ASSUME NEW n \in 1 .. k  PROVE Cardinality(Upto(e[n])) = n
  <2>1. Upto(e[n]) = {e[m] : m \in 1 .. n}
    <3>1. ASSUME NEW j \in Upto(e[n])  PROVE j \in {e[m] : m \in 1 .. n}
      <4>1. PICK m \in 1 .. k : e[m] = j  BY <1>0, <3>1
      <4>2. m <= n  BY <1>2, <3>1, <4>1
      <4>. QED  BY <4>1, <4>2
    <3>2. ASSUME NEW m \in 1 .. n  PROVE e[m] \in Upto(e[n])
      <4>1. m \in 1 .. k /\ m <= n  BY <1>0
      <4>. QED  BY <1>1, <1>2, <4>1
    <3>. QED  BY <3>1, <3>2
  <2>2. n \in 0 .. k  BY <1>0
  <2>. QED  BY <1>3, <2>1, <2>2
<1>6. ASSUME NEW n \in 1 .. k  PROVE (CHOOSE i \in P : Cardinality(Upto(i)) = n) = e[n]
  <2>1. e[n] \in P /\ Cardinality(Upto(e[n])) = n  BY <1>1, <1>5
  <2>2. \A i \in P : Cardinality(Upto(i)) = n => i = e[n]
    <3>. TAKE i \in P
    <3>1. PICK m \in 1 .. k : e[m] = i  BY <1>0
    <3>2. Cardinality(Upto(i)) = m  BY <1>5, <3>1
    <3>. QED  BY <3>1, <3>2
  <2>. HIDE DEF Upto
  <2>. QED  BY <2>1, <2>2
<1>7. Line!Kept(s, P) = [n \in 1 .. Cardinality(P) |-> s[CHOOSE i \in P : Cardinality(Upto(i)) = n]]
  BY Zenon DEF Line!Kept, Line!Cardinality, Cardinality, Line!IsFiniteSet, IsFiniteSet
<1>. HIDE DEF Upto
<1>. QED  BY <1>4, <1>6, <1>7 DEF AtPlaces

\* Every set of values of the counter has such a list.
LEMMA Enumerated ==
  ASSUME NEW c \in Nat, NEW P \in SUBSET (1 .. c)
  PROVE  \E k, e : Enumerates(e, k, P)
<1>. DEFINE Upto(i) == {j \in P : j <= i}
            rank(i) == Cardinality(Upto(i))
            N == Cardinality(P)
<1>. \A i \in P : i \in Nat  OBVIOUS
<1>1. IsFiniteSet(1 .. c)  BY FS_Interval
<1>2. IsFiniteSet(P) /\ N \in Nat  BY <1>1, FS_Subset, FS_CardinalityType
<1>3. ASSUME NEW i \in P
      PROVE  Upto(i) \in SUBSET P /\ IsFiniteSet(Upto(i)) /\ rank(i) \in 1 .. N
  <2>1. Upto(i) \in SUBSET P /\ i \in Upto(i)  OBVIOUS
  <2>2. IsFiniteSet(Upto(i)) /\ rank(i) <= N  BY <2>1, <1>2, FS_Subset
  <2>3. rank(i) \in Nat /\ rank(i) # 0  BY <2>1, <2>2, FS_CardinalityType, FS_EmptySet
  <2>. QED  BY <2>1, <2>2, <2>3, <1>2
<1>4. ASSUME NEW i \in P, NEW j \in P, i < j  PROVE rank(i) < rank(j)
  <2>. i \in Nat /\ j \in Nat  OBVIOUS
  <2>0. \A x \in Upto(i) : x \in P /\ x <= j  BY <1>4
  <2>1. Upto(i) \in SUBSET Upto(j)  BY <2>0
  <2>5. j \in Upto(j)  OBVIOUS
  <2>6. j \notin Upto(i)  BY <1>4
  <2>2. IsFiniteSet(Upto(j))  BY <1>3
  <2>3. rank(i) <= rank(j) /\ rank(i) # rank(j)  BY <2>1, <2>2, <2>5, <2>6, FS_Subset
  <2>4. rank(i) \in Nat /\ rank(j) \in Nat  BY <1>3
  <2>. QED  BY <2>3, <2>4
<1>5. ASSUME NEW i \in P, NEW j \in P, rank(i) = rank(j)  PROVE i = j
  <2>1. i \in Nat /\ j \in Nat /\ rank(i) \in Nat  BY <1>3
  <2>. HIDE DEF rank
  <2>2. ~(i < j) /\ ~(j < i)  BY <1>4, <1>5, <2>1
  <2>. QED  BY <2>1, <2>2
<1>. DEFINE r == [i \in P |-> rank(i)]
<1>6. r \in Injection(P, 1 .. N)  BY <1>3, <1>5 DEF Injection, IsInjective
<1>7. IsFiniteSet(1 .. N) /\ Cardinality(1 .. N) = N  BY <1>2, FS_Interval
<1>8. r \in Surjection(P, 1 .. N)
  <2>. HIDE DEF r, N
  <2>1. N = Cardinality(P)  BY DEF N
  <2>. QED  BY <1>6, <1>7, <2>1, FS_Injection
<1>9. \A n \in 1 .. N : \E i \in P : rank(i) = n  BY <1>8 DEF Surjection
<1>. DEFINE e == [n \in 1 .. N |-> CHOOSE i \in P : rank(i) = n]
<1>10. \A n \in 1 .. N : e[n] \in P /\ rank(e[n]) = n
  <2>. TAKE n \in 1 .. N
  <2>1. \E i \in P : rank(i) = n  BY <1>9
  <2>. HIDE DEF rank
  <2>. QED  BY <2>1
<1>11. e \in [1 .. N -> P]  BY <1>10
<1>12. ASSUME NEW i \in P  PROVE \E n \in 1 .. N : e[n] = i
  <2>1. rank(i) \in 1 .. N /\ e[rank(i)] \in P /\ rank(e[rank(i)]) = rank(i)  BY <1>3, <1>10
  <2>. HIDE DEF rank, e
  <2>. QED  BY <2>1, <1>5
<1>13. ASSUME NEW m \in 1 .. N, NEW n \in 1 .. N, m < n  PROVE e[m] < e[n]
  <2>1. e[m] \in P /\ e[n] \in P /\ rank(e[m]) = m /\ rank(e[n]) = n  BY <1>10
  <2>. HIDE DEF rank, e
  <2>2. e[m] \in Nat /\ e[n] \in Nat  BY <2>1
  <2>3. e[n] < e[m] => n < m  BY <1>4, <2>1
  <2>4. e[n] # e[m]  BY <1>13, <2>1, <2>2
  <2>. QED  BY <1>13, <2>2, <2>3, <2>4
<1>. HIDE DEF rank, e, N
<1>. QED  BY <1>2, <1>11, <1>12, <1>13 DEF Enumerates

\* Where the sequences agree, what is kept does.
LEMMA KeptSame ==
  ASSUME NEW c \in Nat, NEW P \in SUBSET (1 .. c), NEW s1, NEW s2, \A i \in P : s1[i] = s2[i]
  PROVE  Line!Kept(s1, P) = Line!Kept(s2, P)
<1>1. PICK k, e : Enumerates(e, k, P)  BY Enumerated
<1>2. Line!Kept(s1, P) = AtPlaces(s1, e, k)  BY <1>1, KeptBy
<1>3. Line!Kept(s2, P) = AtPlaces(s2, e, k)  BY <1>1, KeptBy
<1>4. \A n \in 1 .. k : e[n] \in P  BY <1>1 DEF Enumerates
<1>. QED  BY <1>2, <1>3, <1>4 DEF AtPlaces

\* A place after all others kept adds its member last.
LEMMA KeptLast ==
  ASSUME NEW c \in Nat, NEW P \in SUBSET (1 .. c), NEW s1, NEW s2, \A i \in P : s1[i] = s2[i]
  PROVE  Line!Kept(s2, P \cup {c + 1}) = Append(Line!Kept(s1, P), s2[c + 1])
<1>1. PICK k, e : Enumerates(e, k, P)  BY Enumerated
<1>2. /\ k \in Nat /\ e \in [1 .. k -> P]
      /\ \A m, n \in 1 .. k : m < n => e[m] < e[n]
      /\ \A i \in P : \E n \in 1 .. k : e[n] = i
  BY <1>1 DEF Enumerates
<1>. DEFINE f == [n \in 1 .. k + 1 |-> IF n = k + 1 THEN c + 1 ELSE e[n]]
            Q == P \cup {c + 1}
<1>3. Enumerates(f, k + 1, Q)
  <2>2. f \in [1 .. k + 1 -> Q]  BY <1>2
  <2>3. ASSUME NEW m \in 1 .. k + 1, NEW n \in 1 .. k + 1, m < n  PROVE f[m] < f[n]
    <3>0. m \in 1 .. k /\ m # k + 1  BY <1>2, <2>3
    <3>1. f[m] = e[m] /\ e[m] \in P /\ e[m] \in 1 .. c  BY <1>2, <3>0
    <3>2. CASE n = k + 1  BY <1>2, <3>1, <3>2
    <3>3. CASE n \in 1 .. k  BY <1>2, <2>3, <3>0, <3>1, <3>3
    <3>. QED  BY <1>2, <3>2, <3>3
  <2>4. ASSUME NEW i \in Q  PROVE \E n \in 1 .. k + 1 : f[n] = i
    <3>1. CASE i = c + 1
      <4>1. k + 1 \in 1 .. k + 1 /\ f[k + 1] = c + 1  BY <1>2
      <4>. QED  BY <3>1, <4>1
    <3>2. CASE i \in P
      <4>1. PICK n \in 1 .. k : e[n] = i  BY <1>2, <3>2
      <4>2. n \in 1 .. k + 1 /\ f[n] = e[n]  BY <1>2, <4>1
      <4>. QED  BY <4>1, <4>2
    <3>. QED  BY <3>1, <3>2
  <2>5. k + 1 \in Nat  BY <1>2
  <2>. HIDE DEF f, Q
  <2>. QED  BY <2>2, <2>3, <2>4, <2>5 DEF Enumerates
<1>4. c + 1 \in Nat /\ Q \in SUBSET (1 .. c + 1)
  <2>1. \A i \in Q : i \in 1 .. c + 1  OBVIOUS
  <2>. HIDE DEF Q
  <2>. QED  BY <2>1
<1>5. Line!Kept(s2, Q) = AtPlaces(s2, f, k + 1)
  <2>. HIDE DEF f, Q
  <2>. QED  BY <1>3, <1>4, KeptBy
<1>6. Line!Kept(s1, P) = AtPlaces(s1, e, k)  BY <1>1, KeptBy
<1>. DEFINE l == AtPlaces(s1, e, k)
            T == {s1[i] : i \in P}
<1>7. l \in Seq(T) /\ Len(l) = k
  <2>0. \A n \in 1 .. k : e[n] \in P /\ s1[e[n]] \in T  BY <1>2
  <2>. HIDE DEF T
  <2>1. l \in [1 .. k -> T]  BY <2>0 DEF AtPlaces
  <2>. HIDE DEF l, T
  <2>. QED  BY <1>2, <2>1
<1>8. Append(l, s2[c + 1]) = [n \in 1 .. k + 1 |-> IF n = k + 1 THEN s2[c + 1] ELSE l[n]]
  <2>. HIDE DEF l
  <2>. QED  BY <1>2, <1>7
<1>9. \A n \in 1 .. k + 1 : s2[f[n]] = IF n = k + 1 THEN s2[c + 1] ELSE l[n]
  <2>. TAKE n \in 1 .. k + 1
  <2>1. CASE n = k + 1  BY <2>1
  <2>2. CASE n # k + 1
    <3>1. n \in 1 .. k  BY <1>2, <2>2
    <3>2. e[n] \in P  BY <1>2, <3>1
    <3>3. f[n] = e[n]  BY <2>2, <3>1
    <3>4. l[n] = s1[e[n]]  BY <3>1 DEF AtPlaces
    <3>. HIDE DEF f, l
    <3>. QED  BY <2>2, <3>2, <3>3, <3>4
  <2>. QED  BY <2>1, <2>2
<1>. HIDE DEF f, l
<1>10. Line!Kept(s1, P) = l  BY <1>6 DEF l, AtPlaces
<1>11. AtPlaces(s2, f, k + 1) = Append(l, s2[c + 1])  BY <1>8, <1>9 DEF AtPlaces
<1>. QED  BY <1>5, <1>10, <1>11 DEF Q

\* Q is what e lists at R.
ListsAt(e, R, Q) == (\A i \in Q : \E n \in R : e[n] = i) /\ (\A n \in R : e[n] \in Q)

\* What is kept of what was kept is kept of the sequence, at the places listed.
LEMMA KeptTwice ==
  ASSUME NEW c \in Nat, NEW P \in SUBSET (1 .. c), NEW s, NEW k, NEW e, Enumerates(e, k, P),
         NEW R \in SUBSET (1 .. k), NEW Q, ListsAt(e, R, Q)
  PROVE  Line!Kept(Line!Kept(s, P), R) = Line!Kept(s, Q)
<1>1. /\ k \in Nat /\ e \in [1 .. k -> P]
      /\ \A m, n \in 1 .. k : m < n => e[m] < e[n]
      /\ \A i \in P : \E n \in 1 .. k : e[n] = i
  BY DEF Enumerates
<1>0. (\A i \in Q : \E n \in R : e[n] = i) /\ (\A n \in R : e[n] \in Q)  BY DEF ListsAt
<1>2. PICK j, d : Enumerates(d, j, R)  BY <1>1, Enumerated
<1>3. /\ j \in Nat /\ d \in [1 .. j -> R]
      /\ \A m, n \in 1 .. j : m < n => d[m] < d[n]
      /\ \A i \in R : \E n \in 1 .. j : d[n] = i
  BY <1>2 DEF Enumerates
<1>4. \A n \in 1 .. j : d[n] \in R /\ d[n] \in 1 .. k  BY <1>3
<1>. DEFINE f == [n \in 1 .. j |-> e[d[n]]]
<1>5. Enumerates(f, j, Q)
  <2>1. f \in [1 .. j -> Q]  BY <1>0, <1>4
  <2>2. \A m, n \in 1 .. j : m < n => f[m] < f[n]  BY <1>1, <1>3, <1>4
  <2>3. \A i \in Q : \E n \in 1 .. j : f[n] = i
    <3>. TAKE i \in Q
    <3>1. PICK m \in R : e[m] = i  BY <1>0
    <3>2. PICK n \in 1 .. j : d[n] = m  BY <1>3, <3>1
    <3>. QED  BY <3>1, <3>2
  <2>. HIDE DEF f
  <2>. QED  BY <1>3, <2>1, <2>2, <2>3 DEF Enumerates
<1>6. Q \in SUBSET (1 .. c)
  <2>1. \A i \in Q : i \in P  BY <1>0, <1>1
  <2>. QED  BY <2>1
<1>7. Line!Kept(s, P) = AtPlaces(s, e, k)  BY KeptBy
<1>8. PICK l : l = Line!Kept(s, P)  OBVIOUS
<1>9. Line!Kept(l, R) = AtPlaces(l, d, j)  BY <1>1, <1>2, KeptBy
<1>10. Line!Kept(s, Q) = AtPlaces(s, f, j)
  <2>. HIDE DEF f
  <2>. QED  BY <1>5, <1>6, KeptBy
<1>11. \A n \in 1 .. j : l[d[n]] = s[f[n]]  BY <1>4, <1>7, <1>8 DEF AtPlaces
<1>. HIDE DEF f
<1>12. AtPlaces(l, d, j) = AtPlaces(s, f, j)  BY <1>11 DEF AtPlaces
<1>. QED  BY <1>8, <1>9, <1>10, <1>12

\* Members taken out of a line.
Outside(s, P, X) == {i \in P : s[i] \notin X}

LEMMA LineWithout ==
  ASSUME NEW c \in Nat, NEW P \in SUBSET (1 .. c), NEW s, NEW X
  PROVE  Line!Without(Line!Kept(s, P), X) = Line!Kept(s, Outside(s, P, X))
<1>1. PICK k, e : Enumerates(e, k, P)  BY Enumerated
<1>2. k \in Nat /\ e \in [1 .. k -> P] /\ \A i \in P : \E n \in 1 .. k : e[n] = i
  BY <1>1 DEF Enumerates
<1>3. PICK l : l = Line!Kept(s, P)  OBVIOUS
<1>4. l = AtPlaces(s, e, k)  BY <1>1, <1>3, KeptBy
<1>. DEFINE R == {n \in 1 .. k : s[e[n]] \notin X}
            Q == {i \in P : s[i] \notin X}
<1>5. Line!Without(l, X) = Line!Kept(l, R)
  <2>1. {n \in DOMAIN l : l[n] \notin X} = R  BY <1>4 DEF AtPlaces
  <2>2. Line!Without(l, X) = Line!Kept(l, {n \in DOMAIN l : l[n] \notin X})  BY DEF Line!Without
  <2>. QED  BY <2>1, <2>2
<1>6. ListsAt(e, R, Q)  BY <1>2 DEF ListsAt
<1>7. R \in SUBSET (1 .. k)  OBVIOUS
<1>. HIDE DEF R, Q
<1>8. Line!Kept(Line!Kept(s, P), R) = Line!Kept(s, Q)  BY <1>1, <1>6, <1>7, KeptTwice
<1>. QED  BY <1>3, <1>5, <1>8 DEF Q, Outside

\* The places that stay when threads T leave: theirs go, and those of groups left with nothing.
Staying(s, P, T) ==
  {i \in P : /\ s[i].thread \notin T
             /\ \E j \in P : s[j].thread \notin T /\ s[j].group = s[i].group /\ s[j].thread # None}

LEMMA LineDequeue ==
  ASSUME NEW c \in Nat, NEW P \in SUBSET (1 .. c), NEW s, NEW T
  PROVE  Line!Dequeue(Line!Kept(s, P), T) = Line!Kept(s, Staying(s, P, T))
<1>1. PICK k, e : Enumerates(e, k, P)  BY Enumerated
<1>2. k \in Nat /\ e \in [1 .. k -> P] /\ \A i \in P : \E n \in 1 .. k : e[n] = i
  BY <1>1 DEF Enumerates
<1>3. PICK l : l = Line!Kept(s, P)  OBVIOUS
<1>4. l = AtPlaces(s, e, k)  BY <1>1, <1>3, KeptBy
<1>. DEFINE left == {n \in DOMAIN l : l[n].thread \notin T}
            R == {n \in left : \E m \in left : l[m].group = l[n].group /\ l[m].thread # None}
<1>5. Line!Dequeue(l, T) = Line!Kept(l, R)  BY DEF Line!Dequeue
<1>6. ListsAt(e, R, Staying(s, P, T))
  <2>1. DOMAIN l = 1 .. k /\ \A n \in 1 .. k : l[n] = s[e[n]] /\ e[n] \in P  BY <1>2, <1>4 DEF AtPlaces
  <2>2. ASSUME NEW i \in Staying(s, P, T)  PROVE \E n \in R : e[n] = i
    <3>1. PICK j \in P : s[j].thread \notin T /\ s[j].group = s[i].group /\ s[j].thread # None
      BY <2>2 DEF Staying
    <3>2. i \in P /\ s[i].thread \notin T  BY <2>2 DEF Staying
    <3>3. PICK n \in 1 .. k, m \in 1 .. k : e[n] = i /\ e[m] = j  BY <1>2, <3>1, <3>2
    <3>4. n \in left /\ m \in left  BY <2>1, <3>1, <3>2, <3>3
    <3>. QED  BY <2>1, <3>1, <3>3, <3>4
  <2>3. ASSUME NEW n \in R  PROVE e[n] \in Staying(s, P, T)
    <3>1. PICK m \in left : l[m].group = l[n].group /\ l[m].thread # None  BY <2>3
    <3>2. n \in 1 .. k /\ m \in 1 .. k /\ l[n].thread \notin T /\ l[m].thread \notin T  BY <2>1, <2>3, <3>1
    <3>3. e[n] \in P /\ e[m] \in P /\ l[n] = s[e[n]] /\ l[m] = s[e[m]]  BY <2>1, <3>2
    <3>. QED  BY <3>1, <3>2, <3>3 DEF Staying
  <2>. HIDE DEF R
  <2>. QED  BY <2>2, <2>3 DEF ListsAt
<1>7. R \in SUBSET (1 .. k)  BY <1>4 DEF AtPlaces
<1>. HIDE DEF R
<1>. DEFINE Q == Staying(s, P, T)
<1>9. ListsAt(e, R, Q)  BY <1>6
<1>. HIDE DEF Q
<1>8. Line!Kept(Line!Kept(s, P), R) = Line!Kept(s, Q)  BY <1>1, <1>7, <1>9, KeptTwice
<1>. QED  BY <1>3, <1>5, <1>8 DEF Q

\* The places of the messages of T that are their groups' first.
Firsts(s, P, T) ==
  {i \in P : /\ s[i].thread # None /\ s[i].thread \in T
             /\ \A j \in P : s[j].thread # None /\ s[j].thread \in T /\ s[j].group = s[i].group => i <= j}

\* d is when the group of the message at i falls due.
FallsDue(s, P, i, d) ==
  /\ d \in P
  /\ \A j \in P : s[j] = Line!TakeOf(s[i].group) /\ i < j =>
       s[d] = Line!TakeOf(s[i].group) /\ \A h \in P : s[h] = Line!TakeOf(s[i].group) => h = d
  /\ (\A j \in P : s[j] = Line!TakeOf(s[i].group) => ~(i < j)) => d = i

\* The place listed at m is d.
ListsIt(e, m, d) == e[m] = d

\* When a message's group falls due in a line is where that time is.
LEMMA LineDue ==
  ASSUME NEW P, P \subseteq Nat, NEW s, NEW k \in Nat, NEW e, Enumerates(e, k, P),
         NEW l, l = AtPlaces(s, e, k), NEW n \in 1 .. k, NEW d, FallsDue(s, P, e[n], d)
  PROVE  Line!Due(l, n) \in 1 .. k /\ ListsIt(e, Line!Due(l, n), d)
<1>1. /\ k \in Nat /\ e \in [1 .. k -> P]
      /\ \A x, y \in 1 .. k : x < y => e[x] < e[y]
      /\ \A i \in P : \E x \in 1 .. k : e[x] = i
  BY DEF Enumerates
<1>2. DOMAIN l = 1 .. k /\ \A x \in 1 .. k : l[x] = s[e[x]] /\ e[x] \in P /\ e[x] \in Nat
  <2>1. \A i \in P : i \in Nat  OBVIOUS
  <2>. QED  BY <1>1, <2>1 DEF AtPlaces
<1>3. PICK g : g = Line!TakeOf(s[e[n]].group)  OBVIOUS
<1>. DEFINE takes == {x \in 1 .. k : l[x] = g}
<1>4. Line!Due(l, n) = IF \E x \in takes : x > n THEN CHOOSE x \in takes : TRUE ELSE n
  <2>1. l[n].group = s[e[n]].group  BY <1>2
  <2>2. {x \in DOMAIN l : l[x] = Line!TakeOf(l[n].group)} = takes  BY <1>2, <1>3, <2>1
  <2>3. Line!Due(l, n) = IF \E x \in {x \in DOMAIN l : l[x] = Line!TakeOf(l[n].group)} : x > n
                         THEN CHOOSE x \in {x \in DOMAIN l : l[x] = Line!TakeOf(l[n].group)} : TRUE ELSE n
    BY DEF Line!Due
  <2>. HIDE DEF takes
  <2>. QED  BY <2>2, <2>3
<1>5. /\ d \in P
      /\ \A j \in P : s[j] = g /\ e[n] < j => s[d] = g /\ \A h \in P : s[h] = g => h = d
      /\ (\A j \in P : s[j] = g => ~(e[n] < j)) => d = e[n]
  BY <1>3 DEF FallsDue
<1>6. CASE \E x \in takes : x > n
  <2>1. PICK x \in takes : x > n  BY <1>6
  <2>2. x \in 1 .. k /\ s[e[x]] = g /\ e[x] \in P /\ e[n] < e[x]  BY <1>1, <1>2, <2>1
  <2>3. s[d] = g /\ \A h \in P : s[h] = g => h = d  BY <1>5, <2>2
  <2>4. \A y \in takes : e[y] = d /\ y \in 1 .. k  BY <1>2, <2>3
  <2>5. Line!Due(l, n) = CHOOSE y \in takes : TRUE  BY <1>4, <1>6
  <2>6. Line!Due(l, n) \in takes
    <3>. HIDE DEF takes
    <3>. QED  BY <2>1, <2>5
  <2>. QED  BY <2>4, <2>6 DEF ListsIt
<1>7. CASE ~ \E x \in takes : x > n
  <2>1. Line!Due(l, n) = n  BY <1>4, <1>7
  <2>2. ASSUME NEW j \in P, s[j] = g, e[n] < j  PROVE FALSE
    <3>1. PICK x \in 1 .. k : e[x] = j  BY <1>1
    <3>2. x \in takes  BY <1>2, <2>2, <3>1
    <3>3. ~(x > n) /\ x \in Nat /\ n \in Nat  BY <1>7, <3>1, <3>2
    <3>4. e[x] <= e[n]  BY <1>1, <1>2, <3>1, <3>3
    <3>. QED  BY <1>2, <2>2, <3>1, <3>4
  <2>3. d = e[n]  BY <1>5, <2>2
  <2>. QED  BY <2>1, <2>3 DEF ListsIt
<1>. QED  BY <1>6, <1>7

\* due says when each group's first message is, that at i0 before the others.
DueFirst(s, P, T, due, i0) ==
  /\ i0 \in Firsts(s, P, T)
  /\ \A i \in Firsts(s, P, T) : FallsDue(s, P, i, due[i]) /\ (i # i0 => due[i0] < due[i])

\* The message picked from a line is the first of the group due longest.
LEMMA LinePick ==
  ASSUME NEW c \in Nat, NEW P \in SUBSET (1 .. c), NEW s, NEW T, NEW due, NEW i0, DueFirst(s, P, T, due, i0)
  PROVE  Line!PickFrom(Line!Kept(s, P), T) = s[i0].thread
<1>0. /\ i0 \in Firsts(s, P, T)
      /\ \A i \in Firsts(s, P, T) : FallsDue(s, P, i, due[i]) /\ (i # i0 => due[i0] < due[i])
  BY DEF DueFirst
<1>1. PICK k, e : Enumerates(e, k, P)  BY Enumerated
<1>2. /\ k \in Nat /\ e \in [1 .. k -> P]
      /\ \A x, y \in 1 .. k : x < y => e[x] < e[y]
      /\ \A i \in P : \E x \in 1 .. k : e[x] = i
  BY <1>1 DEF Enumerates
<1>3. PICK l : l = Line!Kept(s, P)  OBVIOUS
<1>4. l = AtPlaces(s, e, k)  BY <1>1, <1>3, KeptBy
<1>5. DOMAIN l = 1 .. k /\ \A x \in 1 .. k : l[x] = s[e[x]] /\ e[x] \in P /\ e[x] \in Nat
  <2>1. \A i \in P : i \in Nat  OBVIOUS
  <2>. QED  BY <1>2, <1>4, <2>1 DEF AtPlaces
<1>. DEFINE W == Line!Places(l, T)
            heads == {x \in W : \A y \in W : l[y].group = l[x].group => x <= y}
            D(x) == Line!Due(l, x)
<1>6. \A x, y \in 1 .. k : x <= y <=> e[x] <= e[y]
  <2>. TAKE x, y \in 1 .. k
  <2>1. x \in Nat /\ y \in Nat /\ e[x] \in Nat /\ e[y] \in Nat  BY <1>5
  <2>2. (x < y => e[x] < e[y]) /\ (y < x => e[y] < e[x])  BY <1>2
  <2>. QED  BY <2>1, <2>2
<1>7. \A x \in 1 .. k : x \in W <=> s[e[x]].thread # None /\ s[e[x]].thread \in T  BY <1>5 DEF Line!Places
<1>8. W \subseteq 1 .. k  BY <1>5 DEF Line!Places
<1>9. ASSUME NEW x \in 1 .. k  PROVE x \in heads <=> e[x] \in Firsts(s, P, T)
  <2>1. ASSUME x \in heads  PROVE e[x] \in Firsts(s, P, T)
    <3>1. x \in W /\ \A y \in W : l[y].group = l[x].group => x <= y  BY <2>1
    <3>2. ASSUME NEW j \in P, s[j].thread # None, s[j].thread \in T, s[j].group = s[e[x]].group  PROVE e[x] <= j
      <4>1. PICK y \in 1 .. k : e[y] = j  BY <1>2
      <4>2. y \in W /\ l[y].group = l[x].group  BY <1>5, <1>7, <3>2, <4>1
      <4>. QED  BY <1>6, <3>1, <4>1, <4>2
    <3>. QED  BY <1>5, <1>7, <3>1, <3>2 DEF Firsts
  <2>2. ASSUME e[x] \in Firsts(s, P, T)  PROVE x \in heads
    <3>1. x \in W  BY <1>7, <2>2 DEF Firsts
    <3>2. ASSUME NEW y \in W, l[y].group = l[x].group  PROVE x <= y
      <4>1. y \in 1 .. k /\ e[y] \in P /\ s[e[y]].thread # None /\ s[e[y]].thread \in T  BY <1>5, <1>7, <1>8, <3>2
      <4>2. s[e[y]].group = s[e[x]].group  BY <1>5, <3>2, <4>1
      <4>3. e[x] <= e[y]  BY <2>2, <4>1, <4>2 DEF Firsts
      <4>. QED  BY <1>6, <4>1, <4>3
    <3>. QED  BY <3>1, <3>2
  <2>. QED  BY <2>1, <2>2
<1>10. heads \subseteq 1 .. k  BY <1>8
<1>11. Line!PickFrom(l, T) = l[CHOOSE x \in heads : \A y \in heads : D(x) <= D(y)].thread  BY DEF Line!PickFrom
<1>. HIDE DEF heads, W
<1>20. ASSUME NEW x \in 1 .. k, NEW i, NEW d, e[x] = i, FallsDue(s, P, i, d)
      PROVE  Line!Due(l, x) \in 1 .. k /\ e[Line!Due(l, x)] = d
  <2>1. P \subseteq Nat  OBVIOUS
  <2>3. FallsDue(s, P, e[x], d)  BY <1>20
  <2>4. k \in Nat /\ x \in 1 .. k  BY <1>2
  <2>5. Line!Due(l, x) \in 1 .. k /\ ListsIt(e, Line!Due(l, x), d)  BY <1>1, <1>4, <2>1, <2>3, <2>4, LineDue
  <2>. QED  BY <2>5 DEF ListsIt
<1>12. ASSUME NEW x \in heads  PROVE D(x) \in 1 .. k /\ e[D(x)] = due[e[x]]
  <2>1. x \in 1 .. k /\ e[x] \in Firsts(s, P, T)  BY <1>9, <1>10
  <2>2. FallsDue(s, P, e[x], due[e[x]])  BY <1>0, <2>1
  <2>. QED  BY <1>20, <2>1, <2>2
<1>. HIDE DEF D
<1>13. PICK x0 \in 1 .. k : e[x0] = i0  BY <1>0, <1>2 DEF Firsts
<1>14. x0 \in heads  BY <1>0, <1>9, <1>13
<1>15. ASSUME NEW y \in heads, y # x0  PROVE D(x0) < D(y)
  <2>1. e[y] \in Firsts(s, P, T) /\ y \in 1 .. k  BY <1>9, <1>10, <1>15
  <2>2. e[y] # i0
    <3>1. y <= x0 /\ x0 <= y => y = x0  BY <2>1
    <3>. QED  BY <1>6, <1>13, <1>15, <2>1, <3>1, <1>5
  <2>3. due[i0] < due[e[y]]  BY <1>0, <2>1, <2>2
  <2>4. e[D(x0)] < e[D(y)] /\ D(x0) \in 1 .. k /\ D(y) \in 1 .. k  BY <1>12, <1>13, <1>14, <2>3
  <2>5. ~(D(y) <= D(x0))  BY <1>5, <1>6, <2>4
  <2>. QED  BY <2>4, <2>5
<1>16. \A y \in heads : D(x0) <= D(y)  BY <1>12, <1>14, <1>15
<1>17. \A x \in heads : (\A y \in heads : D(x) <= D(y)) => x = x0
  <2>. TAKE x \in heads
  <2>1. D(x) <= D(x0) => ~(D(x0) < D(x))  BY <1>12, <1>14
  <2>. QED  BY <1>14, <1>15, <2>1
<1>18. (CHOOSE x \in heads : \A y \in heads : D(x) <= D(y)) = x0  BY <1>14, <1>16, <1>17
<1>19. Line!PickFrom(l, T) = l[x0].thread  BY <1>11, <1>18 DEF D
<1>. QED  BY <1>3, <1>5, <1>13, <1>19

-----------------------------------------------------------------------------
(* The one line: what the lists say is on it. *)

\* TokenAt, LineOf of any queue.
Token(q, i) ==
  LET arrived == {t \in In(q) : q.seq[t] = i}
      taken   == {n \in Members(q.groups) : q.node[n].taken = i}
  IN  IF arrived # {} THEN LET t == CHOOSE t \in arrived : TRUE
                           IN  [group |-> GroupOf[t], thread |-> t]
      ELSE IF taken # {} THEN [group |-> GroupOf[CHOOSE n \in taken : TRUE], thread |-> None]
      ELSE [group |-> None, thread |-> None]
At(q, c)      == [i \in 1 .. c |-> Token(q, i)]
Marks(q, c)   == {i \in 1 .. c : At(q, c)[i].group # None}
LineFor(q, c) == Line!Kept(At(q, c), Marks(q, c))

LEMMA LineIs == LineOf = LineFor(queue, clock)
<1>1. \A i : TokenAt(i) = Token(queue, i)  BY DEF TokenAt, Token, Queued, In
<1>2. [i \in 1 .. clock |-> TokenAt(i)] = At(queue, clock)  BY <1>1 DEF At
<1>. QED  BY <1>2 DEF LineOf, LineFor, Marks

\* What is at a value of the counter: an arrival, the last take of a group, or nothing.
LEMMA Marked ==
  ASSUME NEW q, NEW S, NEW c, QueueInv(q, S, c)
  PROVE  /\ c \in Nat /\ Marks(q, c) \in SUBSET (1 .. c)
         /\ \A t \in In(q) :
              q.seq[t] \in Marks(q, c) /\ At(q, c)[q.seq[t]] = [group |-> GroupOf[t], thread |-> t]
         /\ \A n \in Members(q.groups) : q.node[n].taken # 0 =>
              /\ q.node[n].taken \in Marks(q, c)
              /\ At(q, c)[q.node[n].taken] = [group |-> GroupOf[n], thread |-> None]
         /\ \A i \in Marks(q, c) :
              \/ \E t \in In(q) : q.seq[t] = i
              \/ \E n \in Members(q.groups) : q.node[n].taken = i /\ q.node[n].taken # 0
<1>1. c \in Nat /\ Stamped(q, c)  BY DEF QueueInv
<1>2. Members(q.groups) \subseteq Senders /\ In(q) \subseteq Senders  BY Parts DEF QueueInv, In
<1>3. \A t \in Senders : GroupOf[t] # None  BY GroupsAssumption
<1>4. ASSUME NEW t \in In(q)
      PROVE  q.seq[t] \in Marks(q, c) /\ At(q, c)[q.seq[t]] = [group |-> GroupOf[t], thread |-> t]
  <2>1. PICK i : i = q.seq[t]  OBVIOUS
  <2>2. i \in 1 .. c /\ \A u \in In(q) : q.seq[u] = i => u = t  BY <1>1, <2>1 DEF Stamped
  <2>. DEFINE A == {u \in In(q) : q.seq[u] = i}
  <2>3. A = {t}  BY <2>1, <2>2
  <2>4. (CHOOSE u \in A : TRUE) = t  BY <2>3
  <2>5. Token(q, i) = [group |-> GroupOf[t], thread |-> t]  BY <2>3, <2>4 DEF Token
  <2>6. At(q, c)[i] = [group |-> GroupOf[t], thread |-> t]  BY <2>2, <2>5 DEF At
  <2>7. At(q, c)[i].group # None  BY <1>2, <1>3, <2>6
  <2>. QED  BY <2>1, <2>2, <2>6, <2>7 DEF Marks
<1>5. ASSUME NEW n \in Members(q.groups), q.node[n].taken # 0
      PROVE  /\ q.node[n].taken \in Marks(q, c)
             /\ At(q, c)[q.node[n].taken] = [group |-> GroupOf[n], thread |-> None]
  <2>1. PICK i : i = q.node[n].taken  OBVIOUS
  <2>2. /\ i \in 0 .. c /\ i # 0 /\ \A t \in In(q) : q.seq[t] # i
        /\ \A m \in Members(q.groups) : q.node[m].taken = i => m = n
    BY <1>1, <1>5, <2>1 DEF Stamped, Nodes1
  <2>3. i \in 1 .. c  BY <1>1, <2>2
  <2>. DEFINE A == {u \in In(q) : q.seq[u] = i}
              B == {m \in Members(q.groups) : q.node[m].taken = i}
  <2>4. A = {} /\ B = {n}  BY <2>1, <2>2
  <2>5. (CHOOSE m \in B : TRUE) = n  BY <2>4
  <2>6. Token(q, i) = [group |-> GroupOf[n], thread |-> None]  BY <2>4, <2>5 DEF Token
  <2>7. At(q, c)[i] = [group |-> GroupOf[n], thread |-> None]  BY <2>3, <2>6 DEF At
  <2>8. At(q, c)[i].group # None  BY <1>2, <1>3, <2>7
  <2>. QED  BY <2>1, <2>3, <2>7, <2>8 DEF Marks
<1>6. ASSUME NEW i \in Marks(q, c)
      PROVE  \/ \E t \in In(q) : q.seq[t] = i
             \/ \E n \in Members(q.groups) : q.node[n].taken = i /\ q.node[n].taken # 0
  <2>1. i \in 1 .. c /\ i # 0 /\ Token(q, i).group # None  BY <1>1 DEF Marks, At
  <2>. DEFINE A == {u \in In(q) : q.seq[u] = i}
              B == {m \in Members(q.groups) : q.node[m].taken = i}
  <2>2. A # {} \/ B # {}
    <3>1. A = {} /\ B = {} => Token(q, i) = [group |-> None, thread |-> None]  BY DEF Token
    <3>. HIDE DEF A, B
    <3>. QED  BY <2>1, <3>1
  <2>. QED  BY <2>1, <2>2
<1>7. Marks(q, c) \in SUBSET (1 .. c)  BY DEF Marks
<1>. QED  BY <1>1, <1>4, <1>5, <1>6, <1>7

\* A group's node is that of each of its members.
LEMMA OwnNode ==
  ASSUME NEW q, NEW S, NEW c, QueueInv(q, S, c), NEW t \in In(q)
  PROVE  /\ q.group[t] \in Members(q.groups) /\ GroupOf[q.group[t]] = GroupOf[t] /\ t \in Senders
         /\ \A n \in Members(q.groups) : GroupOf[n] = GroupOf[t] => n = q.group[t]
<1>1. Grouped(q, S)  BY DEF QueueInv
<1>2. q.group[t] \in Members(q.groups) /\ t \in Senders  BY <1>1 DEF Grouped, Nodes1, In
<1>3. t \in Kin(q, q.group[t])  BY <1>2 DEF Kin
<1>4. GroupOf[q.group[t]] = GroupOf[t]  BY <1>1, <1>2, <1>3 DEF Grouped, Nodes1, NodeOk
<1>. QED  BY <1>1, <1>2, <1>4 DEF Grouped, Nodes1

\* A message that arrived is last.
LEMMA LineSends ==
  ASSUME NEW q, NEW S, NEW c, QueueInv(q, S, c), NEW r, NEW S2, QueueInv(r, S2, c + 1), NEW t \in In(r),
         r.seq[t] = c + 1, In(r) = In(q) \cup {t}, \A u \in In(q) : r.seq[u] = q.seq[u],
         Members(q.groups) \subseteq Members(r.groups),
         \A x \in Members(q.groups) : r.node[x].taken = q.node[x].taken,
         \A x \in Members(r.groups) : x \in Members(q.groups) \/ r.node[x].taken = 0
  PROVE  LineFor(r, c + 1) = Append(LineFor(q, c), Line!Arrival(GroupOf[t], t))
<1>. DEFINE P == Marks(q, c)
            s1 == At(q, c)
            s2 == At(r, c + 1)
<1>1. c \in Nat /\ P \in SUBSET (1 .. c)  BY Marked
<1>2. s2[c + 1] = [group |-> GroupOf[t], thread |-> t] /\ c + 1 \in Marks(r, c + 1)  BY Marked
<1>3. ASSUME NEW i \in P  PROVE i \in Marks(r, c + 1) /\ s1[i] = s2[i]
  <2>1. CASE \E u \in In(q) : q.seq[u] = i
    <3>1. PICK u \in In(q) : q.seq[u] = i  BY <2>1
    <3>2. u \in In(r) /\ r.seq[u] = i  BY <3>1
    <3>3. s1[i] = [group |-> GroupOf[u], thread |-> u]  BY <3>1, Marked
    <3>4. s2[i] = [group |-> GroupOf[u], thread |-> u] /\ i \in Marks(r, c + 1)  BY <3>2, Marked
    <3>. QED  BY <3>3, <3>4
  <2>2. CASE \E n \in Members(q.groups) : q.node[n].taken = i /\ q.node[n].taken # 0
    <3>1. PICK n \in Members(q.groups) : q.node[n].taken = i /\ q.node[n].taken # 0  BY <2>2
    <3>2. n \in Members(r.groups) /\ r.node[n].taken = i /\ r.node[n].taken # 0  BY <3>1
    <3>3. s1[i] = [group |-> GroupOf[n], thread |-> None]  BY <3>1, Marked
    <3>4. s2[i] = [group |-> GroupOf[n], thread |-> None] /\ i \in Marks(r, c + 1)  BY <3>2, Marked
    <3>. QED  BY <3>3, <3>4
  <2>. QED  BY <2>1, <2>2, Marked
<1>4. ASSUME NEW i \in Marks(r, c + 1)  PROVE i \in P \cup {c + 1}
  <2>1. CASE \E u \in In(r) : r.seq[u] = i
    <3>1. PICK u \in In(r) : r.seq[u] = i  BY <2>1
    <3>2. CASE u = t  BY <3>1, <3>2
    <3>3. CASE u \in In(q)
      <4>1. q.seq[u] = i  BY <3>1, <3>3
      <4>. QED  BY <3>3, <4>1, Marked
    <3>. QED  BY <3>2, <3>3
  <2>2. CASE \E n \in Members(r.groups) : r.node[n].taken = i /\ r.node[n].taken # 0
    <3>1. PICK n \in Members(r.groups) : r.node[n].taken = i /\ r.node[n].taken # 0  BY <2>2
    <3>2. n \in Members(q.groups) /\ q.node[n].taken = i /\ q.node[n].taken # 0  BY <3>1
    <3>. QED  BY <3>2, Marked
  <2>. QED  BY <2>1, <2>2, Marked
<1>5. Marks(r, c + 1) = P \cup {c + 1}  BY <1>2, <1>3, <1>4
<1>. HIDE DEF P, s1, s2
<1>7. \A i \in P : s1[i] = s2[i]  BY <1>3
<1>6. Line!Kept(s2, P \cup {c + 1}) = Append(Line!Kept(s1, P), s2[c + 1])  BY ONLY <1>1, <1>7, KeptLast
<1>. QED  BY <1>2, <1>5, <1>6 DEF LineFor, P, s1, s2, Line!Arrival

\* A message that left.
LEMMA LineLeaves ==
  ASSUME NEW q, NEW S, NEW c, QueueInv(q, S, c), NEW r, NEW S2, QueueInv(r, S2, c), NEW t \in In(q),
         In(r) = In(q) \ {t}, Handed(q, r)
  PROVE  LineFor(r, c) = Line!Dequeue(LineFor(q, c), {t})
<1>. DEFINE P == Marks(q, c)
            s1 == At(q, c)
            s2 == At(r, c)
            Q == Staying(s1, P, {t})
<1>1. c \in Nat /\ P \in SUBSET (1 .. c) /\ Q \in SUBSET (1 .. c)  BY Marked DEF Staying
<1>2. \A u \in In(r) : u \in In(q) /\ u # t /\ r.seq[u] = q.seq[u]  BY DEF Handed
<1>3. ASSUME NEW i \in Q  PROVE i \in Marks(r, c) /\ s1[i] = s2[i]
  <2>1. PICK j \in P : s1[j].thread \notin {t} /\ s1[j].group = s1[i].group /\ s1[j].thread # None
    BY <1>3 DEF Staying
  <2>2. i \in P /\ s1[i].thread \notin {t}  BY <1>3 DEF Staying
  <2>3. CASE \E u \in In(q) : q.seq[u] = i
    <3>1. PICK u \in In(q) : q.seq[u] = i  BY <2>3
    <3>2. s1[i] = [group |-> GroupOf[u], thread |-> u]  BY <3>1, Marked
    <3>3. u # t  BY <2>2, <3>2
    <3>4. u \in In(r) /\ r.seq[u] = i  BY <1>2, <3>1, <3>3
    <3>5. s2[i] = [group |-> GroupOf[u], thread |-> u] /\ i \in Marks(r, c)  BY <3>4, Marked
    <3>. QED  BY <3>2, <3>5
  <2>4. CASE \E n \in Members(q.groups) : q.node[n].taken = i /\ q.node[n].taken # 0
    <3>1. PICK n \in Members(q.groups) : q.node[n].taken = i /\ q.node[n].taken # 0  BY <2>4
    <3>2. s1[i] = [group |-> GroupOf[n], thread |-> None]  BY <3>1, Marked
    <3>3. PICK u \in In(q) : q.seq[u] = j
      <4>1. ASSUME NEW m \in Members(q.groups), q.node[m].taken = j, q.node[m].taken # 0  PROVE FALSE
        <5>1. s1[j] = [group |-> GroupOf[m], thread |-> None]  BY <4>1, Marked
        <5>. QED  BY <2>1, <5>1
      <4>. QED  BY <4>1, Marked
    <3>4. s1[j] = [group |-> GroupOf[u], thread |-> u]  BY <3>3, Marked
    <3>5. u # t /\ GroupOf[u] = GroupOf[n]  BY <2>1, <3>2, <3>4
    <3>6. u \in In(r)  BY <3>3, <3>5
    <3>7. PICK y : y = r.group[u]  OBVIOUS
    <3>8. y \in Members(r.groups) /\ GroupOf[y] = GroupOf[n]  BY <3>5, <3>6, <3>7, OwnNode
    <3>9. PICK x \in Members(q.groups) : GroupOf[x] = GroupOf[y] /\ r.node[y].taken = q.node[x].taken
      BY <3>8 DEF Handed
    <3>10. x = n  BY <3>1, <3>8, <3>9 DEF QueueInv, Grouped, Nodes1
    <3>11. r.node[y].taken = i /\ r.node[y].taken # 0  BY <3>1, <3>9, <3>10
    <3>12. s2[i] = [group |-> GroupOf[y], thread |-> None] /\ i \in Marks(r, c)  BY <3>8, <3>11, Marked
    <3>. QED  BY <3>2, <3>8, <3>12
  <2>. QED  BY <2>2, <2>3, <2>4, Marked
<1>4. ASSUME NEW i \in Marks(r, c)  PROVE i \in Q
  <2>1. CASE \E u \in In(r) : r.seq[u] = i
    <3>1. PICK u \in In(r) : r.seq[u] = i  BY <2>1
    <3>2. u \in In(q) /\ u # t /\ q.seq[u] = i  BY <1>2, <3>1
    <3>3. i \in P /\ s1[i] = [group |-> GroupOf[u], thread |-> u]  BY <3>2, Marked
    <3>4. u # None  BY <3>2, SendersAssumption DEF In
    <3>. QED  BY <3>2, <3>3, <3>4 DEF Staying
  <2>2. CASE \E n \in Members(r.groups) : r.node[n].taken = i /\ r.node[n].taken # 0
    <3>1. PICK y \in Members(r.groups) : r.node[y].taken = i /\ r.node[y].taken # 0  BY <2>2
    <3>2. PICK x \in Members(q.groups) : GroupOf[x] = GroupOf[y] /\ r.node[y].taken = q.node[x].taken
      BY <3>1 DEF Handed
    <3>3. i \in P /\ s1[i] = [group |-> GroupOf[y], thread |-> None]  BY <3>1, <3>2, Marked
    <3>4. y \in In(r) /\ y # None  BY <3>1, NodeFacts
    <3>5. y \in In(q) /\ y # t  BY <1>2, <3>4
    <3>6. q.seq[y] \in P /\ s1[q.seq[y]] = [group |-> GroupOf[y], thread |-> y]  BY <3>5, Marked
    <3>7. t # None  BY SendersAssumption DEF In
    <3>. QED  BY <3>3, <3>4, <3>5, <3>6, <3>7 DEF Staying
  <2>. QED  BY <2>1, <2>2, Marked
<1>5. Marks(r, c) = Q  BY <1>3, <1>4
<1>. HIDE DEF P, s1, s2, Q
<1>6. Line!Dequeue(Line!Kept(s1, P), {t}) = Line!Kept(s1, Q)  BY <1>1, LineDequeue DEF Q
<1>7. Line!Kept(s1, Q) = Line!Kept(s2, Q)  BY <1>1, <1>3, KeptSame
<1>. QED  BY <1>5, <1>6, <1>7 DEF LineFor, P, s1, s2

\* A group that had its turn is last.
LEMMA LineServes ==
  ASSUME NEW q, NEW S, NEW c, QueueInv(q, S, c), NEW t \in In(q), NEW p, p = Served(q, t, c + 1),
         QueueInv(p, S, c + 1)
  PROVE  LineFor(p, c + 1) = Line!Served(LineFor(q, c), GroupOf[t])
<1>1. PICK n : n = q.group[t]  OBVIOUS
<1>2. n \in Members(q.groups) /\ GroupOf[n] = GroupOf[t] /\ n \in Senders  BY <1>1, OwnNode, NodeFacts
<1>3. /\ Members(p.groups) = Members(q.groups) /\ In(p) = In(q) /\ p.seq = q.seq
      /\ p.node[n].taken = c + 1 /\ \A x \in Members(q.groups) \ {n} : p.node[x].taken = q.node[x].taken
  <2>1. c + 1 \in Nat /\ c \in Nat /\ q \in Queues /\ Listed(q, S)  BY DEF QueueInv
  <2>2. /\ p.groups = Append(Without(q.groups, n), n)
        /\ p.node = [q.node EXCEPT ![n] = [@ EXCEPT !.taken = c + 1]]
        /\ p.group = q.group /\ p.seq = q.seq
    BY <1>1, <2>1, ServedFields
  <2>3. \A z \in Members(q.groups) : Due(q)[z] \in 1 .. c  BY ListKeys
  <2>4. \A z \in Members(q.groups) : Due(q)[z] \in Nat  BY <2>1, <2>3
  <2>5. q.groups \in Seq(Senders) /\ Rising(q.groups, Due(q))  BY <2>1, Parts DEF Listed
  <2>6. Members(Append(Without(q.groups, n), n)) = Members(q.groups)  BY <1>2, <2>4, <2>5, MovedLast
  <2>7. q.node \in [Senders -> Nodes] /\ Members(q.groups) \subseteq Senders  BY <2>1, Parts
  <2>8. p.node[n].taken = c + 1
    <3>1. q.node[n] \in Nodes  BY <1>2, <2>7
    <3>. QED  BY <1>2, <2>2, <2>7, <3>1 DEF Nodes
  <2>9. \A x \in Members(q.groups) \ {n} : p.node[x] = q.node[x]  BY <1>2, <2>2, <2>7
  <2>10. In(p) = In(q)  BY <2>2 DEF In
  <2>. QED  BY <2>2, <2>6, <2>8, <2>9, <2>10
<1>. DEFINE P == Marks(q, c)
            s1 == At(q, c)
            s2 == At(p, c + 1)
            k == [group |-> GroupOf[t], thread |-> None]
            X == {k}
            Q == {i \in P : s1[i] \notin X}
<1>4. c \in Nat /\ P \in SUBSET (1 .. c) /\ Q \in SUBSET (1 .. c)  BY Marked
<1>5. s2[c + 1] = k /\ c + 1 \in Marks(p, c + 1)
  <2>1. n \in Members(p.groups) /\ p.node[n].taken = c + 1 /\ p.node[n].taken # 0  BY <1>2, <1>3, <1>4
  <2>2. /\ p.node[n].taken \in Marks(p, c + 1)
        /\ s2[p.node[n].taken] = [group |-> GroupOf[n], thread |-> None]
    BY <2>1, Marked
  <2>. QED  BY <1>2, <2>1, <2>2
<1>6. ASSUME NEW i \in Q  PROVE i \in Marks(p, c + 1) /\ s1[i] = s2[i]
  <2>1. i \in P /\ s1[i] # k  BY <1>6
  <2>2. CASE \E u \in In(q) : q.seq[u] = i
    <3>1. PICK u \in In(q) : q.seq[u] = i  BY <2>2
    <3>2. u \in In(p) /\ p.seq[u] = i  BY <1>3, <3>1
    <3>3. s1[i] = [group |-> GroupOf[u], thread |-> u]  BY <3>1, Marked
    <3>4. s2[i] = [group |-> GroupOf[u], thread |-> u] /\ i \in Marks(p, c + 1)  BY <3>2, Marked
    <3>. QED  BY <3>3, <3>4
  <2>3. CASE \E x \in Members(q.groups) : q.node[x].taken = i /\ q.node[x].taken # 0
    <3>1. PICK x \in Members(q.groups) : q.node[x].taken = i /\ q.node[x].taken # 0  BY <2>3
    <3>2. s1[i] = [group |-> GroupOf[x], thread |-> None]  BY <3>1, Marked
    <3>3. x # n  BY <1>2, <2>1, <3>2
    <3>4. x \in Members(p.groups) /\ p.node[x].taken = i /\ p.node[x].taken # 0  BY <1>3, <3>1, <3>3
    <3>5. s2[i] = [group |-> GroupOf[x], thread |-> None] /\ i \in Marks(p, c + 1)  BY <3>4, Marked
    <3>. QED  BY <3>2, <3>5
  <2>. QED  BY <2>1, <2>2, <2>3, Marked
<1>7. ASSUME NEW i \in Marks(p, c + 1)  PROVE i \in Q \cup {c + 1}
  <2>1. CASE \E u \in In(p) : p.seq[u] = i
    <3>1. PICK u \in In(p) : p.seq[u] = i  BY <2>1
    <3>2. u \in In(q) /\ q.seq[u] = i /\ u # None  BY <1>3, <3>1, SendersAssumption DEF In
    <3>3. i \in P /\ s1[i] = [group |-> GroupOf[u], thread |-> u]  BY <3>2, Marked
    <3>4. s1[i].thread = u  BY <3>3
    <3>5. s1[i] # k  BY <3>2, <3>4
    <3>. QED  BY <3>3, <3>5
  <2>2. CASE \E x \in Members(p.groups) : p.node[x].taken = i /\ p.node[x].taken # 0
    <3>1. PICK x \in Members(p.groups) : p.node[x].taken = i /\ p.node[x].taken # 0  BY <2>2
    <3>2. CASE x = n  BY <1>3, <3>1, <3>2
    <3>3. CASE x # n
      <4>1. x \in Members(q.groups) /\ q.node[x].taken = i /\ q.node[x].taken # 0  BY <1>3, <3>1, <3>3
      <4>2. i \in P /\ s1[i] = [group |-> GroupOf[x], thread |-> None]  BY <4>1, Marked
      <4>3. GroupOf[x] # GroupOf[n]  BY <1>2, <3>3, <4>1, KinApart
      <4>4. s1[i].group = GroupOf[x] /\ k.group = GroupOf[t]  BY <4>2
      <4>5. s1[i] # k  BY <1>2, <4>3, <4>4
      <4>. QED  BY <4>2, <4>5
    <3>. QED  BY <3>2, <3>3
  <2>. QED  BY <2>1, <2>2, Marked
<1>8. Marks(p, c + 1) = Q \cup {c + 1}  BY <1>5, <1>6, <1>7
<1>9. Line!TakeOf(GroupOf[t]) = k  BY DEF Line!TakeOf
<1>10. Line!Without(Line!Kept(s1, P), X) = Line!Kept(s1, Q)
  <2>. HIDE DEF P, s1, X
  <2>1. Line!Without(Line!Kept(s1, P), X) = Line!Kept(s1, Outside(s1, P, X))  BY <1>4, LineWithout
  <2>. QED  BY <2>1 DEF Outside
<1>. HIDE DEF P, s1, s2, Q, k
<1>11. \A i \in Q : s1[i] = s2[i]  BY <1>6
<1>12. Line!Kept(s2, Q \cup {c + 1}) = Append(Line!Kept(s1, Q), s2[c + 1])  BY ONLY <1>4, <1>11, KeptLast
<1>13. Line!Served(Line!Kept(s1, P), GroupOf[t]) = Append(Line!Without(Line!Kept(s1, P), X), k)
  BY <1>9 DEF Line!Served
<1>. QED  BY <1>5, <1>8, <1>10, <1>12, <1>13 DEF LineFor, P, s1, s2

\* When a message's group falls due: when it arrived, or when its group was last taken.
LEMMA DueThen ==
  ASSUME NEW q, NEW S, NEW c, QueueInv(q, S, c), NEW t \in In(q)
  PROVE  FallsDue(At(q, c), Marks(q, c), q.seq[t], Larger(q.seq[t], q.node[q.group[t]].taken))
<1>1. PICK n, i, d : n = q.group[t] /\ i = q.seq[t] /\ d = q.node[n].taken  OBVIOUS
<1>. DEFINE P == Marks(q, c)
            s == At(q, c)
            k == [group |-> GroupOf[t], thread |-> None]
<1>2. n \in Members(q.groups) /\ GroupOf[n] = GroupOf[t]  BY <1>1, OwnNode
<1>3. i \in P /\ s[i] = [group |-> GroupOf[t], thread |-> t]  BY <1>1, Marked
<1>4. Line!TakeOf(s[i].group) = k  BY <1>3 DEF Line!TakeOf
<1>5. d # 0 => d \in P /\ s[d] = k  BY <1>1, <1>2, Marked
<1>6. \A j \in P : j \in Nat /\ j # 0  BY Marked
<1>7. d \in Nat  BY <1>1, <1>2 DEF QueueInv, Stamped, Nodes1
<1>8. ASSUME NEW j \in P, s[j] = k  PROVE j = d /\ d # 0
  <2>1. ASSUME NEW u \in In(q), q.seq[u] = j  PROVE FALSE
    <3>1. s[j] = [group |-> GroupOf[u], thread |-> u]  BY <2>1, Marked
    <3>2. s[j].thread = u /\ s[j].thread = None  BY <1>8, <3>1
    <3>. QED  BY <2>1, <3>2, SendersAssumption DEF In
  <2>2. PICK x \in Members(q.groups) : q.node[x].taken = j /\ q.node[x].taken # 0  BY <2>1, Marked
  <2>3. s[j] = [group |-> GroupOf[x], thread |-> None]  BY <2>2, Marked
  <2>4. GroupOf[x] = GroupOf[t]
    <3>1. s[j].group = GroupOf[x] /\ s[j].group = GroupOf[t]  BY <1>8, <2>3
    <3>. QED  BY <3>1
  <2>5. x = n  BY <1>1, <2>2, <2>4, OwnNode
  <2>. QED  BY <1>1, <2>2, <2>5
<1>9. PICK m : m = Larger(i, d)  OBVIOUS
<1>10. i \in Nat /\ (d > i => m = d) /\ (~(d > i) => m = i)  BY <1>3, <1>6, <1>7, <1>9 DEF Larger
<1>11. m \in P  BY <1>3, <1>5, <1>7, <1>10
<1>. HIDE DEF P, s, k
<1>12. ASSUME NEW j \in P, s[j] = k, i < j  PROVE s[m] = k /\ \A h \in P : s[h] = k => h = m
  <2>1. j = d /\ d # 0 /\ d > i  BY <1>6, <1>8, <1>12
  <2>2. m = d  BY <1>10, <2>1
  <2>. QED  BY <1>5, <1>8, <2>1, <2>2
<1>13. ASSUME \A j \in P : s[j] = k => ~(i < j)  PROVE m = i
  <2>1. ~(d > i)
    <3>. SUFFICES ASSUME d > i  PROVE FALSE  OBVIOUS
    <3>1. d # 0  BY <1>10
    <3>. QED  BY <1>5, <1>13, <3>1
  <2>. QED  BY <1>10, <2>1
<1>14. FallsDue(s, P, i, m)  BY <1>4, <1>11, <1>12, <1>13 DEF FallsDue
<1>. QED  BY <1>1, <1>9, <1>14 DEF P, s

\* Whose messages a receiver of this kind may take.
TakesFrom(q, S, k) == IF k THEN In(q) ELSE S

\* The message the lists give a receiver is the one picked from the line.
LEMMA LinePicks ==
  ASSUME NEW q, NEW S, NEW c, QueueInv(q, S, c), NEW k \in BOOLEAN, ListFor(q, k) # <<>>
  PROVE  Line!PickFrom(LineFor(q, c), TakesFrom(q, S, k)) = PickOf(q, k)
<1>. DEFINE P == Marks(q, c)
            s == At(q, c)
            T == TakesFrom(q, S, k)
            due == [i \in P |-> LET t == CHOOSE t \in In(q) : q.seq[t] = i
                                IN  Larger(q.seq[t], q.node[q.group[t]].taken)]
<1>1. PICK n0, t0 : n0 = Head(ListFor(q, k)) /\ t0 = PickOf(q, k)  OBVIOUS
<1>2. t0 = FirstFor(q, k, n0)  BY <1>1 DEF PickOf, FirstFor, ListFor
<1>3. /\ t0 \in In(q) /\ q.group[t0] = n0 /\ n0 \in Members(ListFor(q, k)) /\ GroupOf[t0] = GroupOf[n0]
      /\ \A x \in Members(ListFor(q, k)) : x = n0 \/ KeyFor(q, k, n0) < KeyFor(q, k, x)
  BY <1>1, Picked
<1>4. S \subseteq In(q) /\ T \subseteq In(q)  BY DEF QueueInv, Grouped, TakesFrom
<1>5. ASSUME NEW n \in Members(q.groups)  PROVE Takes(q, S, k, n) = Kin(q, n) \cap T
  <2>1. Kin(q, n) \subseteq In(q)  BY NodeFacts
  <2>. QED  BY <2>1 DEF Takes, TakesFrom
<1>6. ASSUME NEW t \in In(q)
      PROVE  /\ q.seq[t] \in P /\ s[q.seq[t]].thread = t /\ s[q.seq[t]].group = GroupOf[t]
             /\ due[q.seq[t]] = Larger(q.seq[t], q.node[q.group[t]].taken) /\ q.seq[t] \in Nat /\ t # None
  <2>1. q.seq[t] \in P /\ s[q.seq[t]] = [group |-> GroupOf[t], thread |-> t]  BY Marked
  <2>2. \A u \in In(q) : q.seq[u] = q.seq[t] => u = t  BY DEF QueueInv, Stamped
  <2>3. (CHOOSE u \in In(q) : q.seq[u] = q.seq[t]) = t  BY <2>2, SMTT(30)
  <2>4. due[q.seq[t]] = Larger(q.seq[t], q.node[q.group[t]].taken)  BY <2>1, <2>3
  <2>5. q.seq[t] \in Nat  BY DEF QueueInv, Stamped
  <2>6. t # None  BY SendersAssumption DEF In
  <2>7. s[q.seq[t]].thread = t /\ s[q.seq[t]].group = GroupOf[t]  BY <2>1, SMTT(30)
  <2>. HIDE DEF due, s, P
  <2>. QED  BY <2>1, <2>4, <2>5, <2>6, <2>7
<1>7. ASSUME NEW i \in P, s[i].thread # None
      PROVE  \E t \in In(q) : q.seq[t] = i /\ s[i].thread = t /\ s[i].group = GroupOf[t]
  <2>1. ASSUME NEW n \in Members(q.groups), q.node[n].taken = i, q.node[n].taken # 0  PROVE FALSE
    <3>1. s[i] = [group |-> GroupOf[n], thread |-> None]  BY <2>1, Marked
    <3>. QED  BY <1>7, <3>1
  <2>2. PICK t \in In(q) : q.seq[t] = i  BY <2>1, Marked, SMTT(30)
  <2>. QED  BY <1>6, <2>2
<1>8. ASSUME NEW t \in In(q)  PROVE FallsDue(s, P, q.seq[t], due[q.seq[t]])
  BY <1>6, DueThen
<1>. HIDE DEF P, s, T, due
<1>9. ASSUME NEW i \in Firsts(s, P, T)
      PROVE  \E n \in Members(ListFor(q, k)) :
               /\ i = q.seq[FirstFor(q, k, n)] /\ FirstFor(q, k, n) \in In(q) /\ due[i] = KeyFor(q, k, n)
  <2>1. /\ i \in P /\ s[i].thread # None /\ s[i].thread \in T
        /\ \A j \in P : s[j].thread # None /\ s[j].thread \in T /\ s[j].group = s[i].group => i <= j
    BY DEF Firsts
  <2>2. PICK t \in In(q) : q.seq[t] = i /\ s[i].thread = t /\ s[i].group = GroupOf[t]  BY <1>7, <2>1
  <2>3. PICK n : n = q.group[t]  OBVIOUS
  <2>4. n \in Members(q.groups) /\ GroupOf[n] = GroupOf[t] /\ t \in Kin(q, n)  BY <2>2, <2>3, OwnNode DEF Kin
  <2>5. t \in Takes(q, S, k, n)  BY <1>5, <2>1, <2>2, <2>4
  <2>6. n \in Members(ListFor(q, k))
    <3>1. Members(ListFor(q, k)) = {x \in Members(q.groups) : Takes(q, S, k, x) # {}}  BY FirstFacts
    <3>. QED  BY <2>4, <2>5, <3>1
  <2>7. PICK f : f = FirstFor(q, k, n)  OBVIOUS
  <2>8. f \in Takes(q, S, k, n) /\ f \in In(q) /\ q.seq[f] <= q.seq[t]  BY <2>5, <2>6, <2>7, FirstFacts
  <2>9. f \in T /\ q.group[f] = n  BY <1>5, <2>4, <2>8 DEF Kin
  <2>10. GroupOf[f] = GroupOf[n]  BY <2>8, <2>9, OwnNode
  <2>11. i <= q.seq[f]  BY <1>6, <2>1, <2>2, <2>4, <2>8, <2>9, <2>10
  <2>12. i = q.seq[f]  BY <1>6, <2>2, <2>8, <2>11
  <2>13. due[i] = Larger(q.seq[f], q.node[n].taken)  BY <1>6, <2>8, <2>9, <2>12
  <2>. QED  BY <2>6, <2>7, <2>8, <2>12, <2>13 DEF KeyFor
<1>10. PICK i0 : i0 = q.seq[t0]  OBVIOUS
<1>11. t0 \in Takes(q, S, k, n0) /\ \A u \in Takes(q, S, k, n0) : q.seq[t0] <= q.seq[u]  BY <1>2, <1>3, FirstFacts
<1>19. n0 \in Members(q.groups)  BY <1>3, OwnNode
<1>12. i0 \in P /\ s[i0].thread = t0 /\ s[i0].group = GroupOf[t0] /\ t0 # None /\ t0 \in T
  BY <1>3, <1>5, <1>6, <1>10, <1>11, <1>19
<1>13. i0 \in Firsts(s, P, T)
  <2>1. ASSUME NEW j \in P, s[j].thread # None, s[j].thread \in T, s[j].group = s[i0].group  PROVE i0 <= j
    <3>1. PICK u \in In(q) : q.seq[u] = j /\ s[j].thread = u /\ s[j].group = GroupOf[u]  BY <1>7, <2>1
    <3>2. GroupOf[u] = GroupOf[n0] /\ u \in T  BY <1>3, <1>12, <2>1, <3>1
    <3>3. n0 \in Members(q.groups)  BY <1>3, OwnNode
    <3>4. q.group[u] = n0 /\ u \in Senders  BY <3>1, <3>2, <3>3, OwnNode
    <3>5. u \in Takes(q, S, k, n0)  BY <1>5, <1>19, <3>2, <3>4 DEF Kin
    <3>. QED  BY <1>10, <1>11, <3>1, <3>5
  <2>. QED  BY <1>12, <2>1 DEF Firsts
<1>14. due[i0] = KeyFor(q, k, n0)  BY <1>2, <1>3, <1>6, <1>10 DEF KeyFor
<1>15. ASSUME NEW i \in Firsts(s, P, T)  PROVE FallsDue(s, P, i, due[i])  BY <1>8, <1>9
<1>16. ASSUME NEW i \in Firsts(s, P, T), i # i0  PROVE due[i0] < due[i]
  <2>1. PICK n \in Members(ListFor(q, k)) : i = q.seq[FirstFor(q, k, n)] /\ due[i] = KeyFor(q, k, n)  BY <1>9
  <2>2. n # n0  BY <1>2, <1>10, <1>16, <2>1
  <2>. QED  BY <1>3, <1>14, <2>1, <2>2
<1>17. c \in Nat /\ P \in SUBSET (1 .. c)  BY Marked DEF P
<1>20. DueFirst(s, P, T, due, i0)  BY <1>13, <1>15, <1>16 DEF DueFirst
<1>18. Line!PickFrom(Line!Kept(s, P), T) = s[i0].thread  BY ONLY <1>17, <1>20, LinePick
<1>. QED  BY <1>1, <1>12, <1>18 DEF LineFor, P, s, T

\* The messages on the line are those queued.
LEMMA LineHolds ==
  ASSUME NEW q, NEW S, NEW c, QueueInv(q, S, c)
  PROVE  {LineFor(q, c)[i].thread : i \in DOMAIN LineFor(q, c)} \ {None} = In(q)
<1>. DEFINE P == Marks(q, c)
            s == At(q, c)
<1>1. c \in Nat /\ P \in SUBSET (1 .. c)  BY Marked
<1>2. PICK k, e : Enumerates(e, k, P)  BY <1>1, Enumerated
<1>3. k \in Nat /\ e \in [1 .. k -> P] /\ \A i \in P : \E n \in 1 .. k : e[n] = i  BY <1>2 DEF Enumerates
<1>4. PICK l : l = LineFor(q, c)  OBVIOUS
<1>5. LineFor(q, c) = AtPlaces(s, e, k)
  <2>1. LineFor(q, c) = Line!Kept(s, P)  BY DEF LineFor
  <2>. HIDE DEF P, s
  <2>. QED  BY <1>1, <1>2, <2>1, KeptBy
<1>6. DOMAIN l = 1 .. k /\ \A n \in 1 .. k : l[n] = s[e[n]] /\ e[n] \in P  BY <1>3, <1>4, <1>5 DEF AtPlaces
<1>7. ASSUME NEW n \in DOMAIN l, l[n].thread # None  PROVE l[n].thread \in In(q)
  <2>1. PICK i \in P : l[n] = s[i]  BY <1>6
  <2>2. CASE \E t \in In(q) : q.seq[t] = i
    <3>1. PICK t \in In(q) : q.seq[t] = i  BY <2>2
    <3>2. s[i] = [group |-> GroupOf[t], thread |-> t]  BY <3>1, Marked
    <3>. QED  BY <2>1, <3>1, <3>2
  <2>3. CASE \E x \in Members(q.groups) : q.node[x].taken = i /\ q.node[x].taken # 0
    <3>1. PICK x \in Members(q.groups) : q.node[x].taken = i /\ q.node[x].taken # 0  BY <2>3
    <3>2. s[i] = [group |-> GroupOf[x], thread |-> None]  BY <3>1, Marked
    <3>. QED  BY <1>7, <2>1, <3>2
  <2>. QED  BY <2>2, <2>3, Marked
<1>8. ASSUME NEW t \in In(q)  PROVE t # None /\ \E n \in DOMAIN l : l[n].thread = t
  <2>1. q.seq[t] \in P /\ s[q.seq[t]] = [group |-> GroupOf[t], thread |-> t]  BY Marked
  <2>2. PICK n \in 1 .. k : e[n] = q.seq[t]  BY <1>3, <2>1
  <2>3. l[n].thread = t  BY <1>6, <2>1, <2>2
  <2>4. t # None  BY SendersAssumption DEF In
  <2>. QED  BY <1>6, <2>3, <2>4
<1>9. {l[i].thread : i \in DOMAIN l} \ {None} = In(q)  BY <1>7, <1>8
<1>. QED  BY <1>4, <1>9

\* A message that leaves is the only one that does.
LEMMA DequeueOut ==
  ASSUME NEW q, NEW S, NEW c, QueueInv(q, S, c), NEW t \in In(q)
  PROVE  In(Dequeue(q, t, t \in S)) = In(q) \ {t}
<1>. DEFINE n == q.group[t]
            l == Left(q, t)
            cut == Cut(q, t)
            m == IF t = n THEN Oldest(Cut(q, t), t) ELSE n
            mv == IF t = n THEN MoveNode(Cut(q, t), t, m) ELSE Cut(q, t)
            r == Dequeue(q, t, t \in S)
<1>1. l.count = 0 => r = [cut EXCEPT !.groups = Without(@, n), !.sends = Without(@, n), !.node[n] = NoNode]
  BY DEF Dequeue, Left, Cut
<1>2. l.count # 0 => r.group = mv.group  BY DEF Dequeue, Left, Cut
<1>3. n = q.group[t] /\ l = Left(q, t) /\ cut = Cut(q, t)  OBVIOUS
<1>4. /\ m = IF t = n THEN Oldest(Cut(q, t), t) ELSE n
      /\ mv = IF t = n THEN MoveNode(Cut(q, t), t, m) ELSE Cut(q, t)
      /\ r = Dequeue(q, t, t \in S)
  OBVIOUS
<1>. HIDE DEF n, l, cut, m, mv, r
<1>5. q.group \in [Senders -> Senders \cup {None}] /\ t \in Senders  BY Parts DEF QueueInv, In
<1>6. cut.group = [q.group EXCEPT ![t] = None]  BY <1>3, CutFacts
<1>7. CASE l.count = 0
  <2>1. r.group = cut.group
    <3>1. cut = [groups |-> q.groups, sends |-> q.sends, node |-> cut.node, group |-> cut.group, seq |-> q.seq]
      BY <1>3, CutFacts
    <3>. QED  BY <1>1, <1>7, <3>1
  <2>. QED  BY <1>4, <1>5, <1>6, <2>1 DEF In
<1>8. CASE l.count # 0
  <2>1. Rest(q, t) # {}  BY <1>3, <1>8, LeftFacts
  <2>2. /\ m \in Rest(q, t)
        /\ mv.group = [x \in Senders |-> IF x = t THEN None ELSE IF x \in Rest(q, t) THEN m ELSE q.group[x]]
    BY <1>3, <1>4, <2>1, MovedFacts
  <2>3. m # None  BY <2>2, SendersAssumption DEF Rest, Kin
  <2>4. \A x \in Rest(q, t) : q.group[x] # None  BY <1>5 DEF Rest, Kin, In
  <2>5. r.group = mv.group  BY <1>2, <1>8
  <2>. QED  BY <1>4, <1>5, <2>2, <2>3, <2>4, <2>5 DEF In
<1>. QED  BY <1>7, <1>8, SMTT(30)

\* The abstract queue's operators are those of its line.
LEMMA SameOperators ==
  /\ \A l, T : Order!Dequeue(l, T) = Line!Dequeue(l, T) /\ Order!PickFrom(l, T) = Line!PickFrom(l, T)
  /\ \A l, g : Order!Served(l, g) = Line!Served(l, g)
  /\ \A g, t : Order!Arrival(g, t) = Line!Arrival(g, t)
<1>2. \A s, P : Order!Kept(s, P) = Line!Kept(s, P)
  BY Zenon DEF Order!Kept, Line!Kept, Order!Cardinality, Line!Cardinality, Order!IsFiniteSet, Line!IsFiniteSet
<1>3. \A g : Order!TakeOf(g) = Line!TakeOf(g)  BY DEF Order!TakeOf, Line!TakeOf
<1>4. \A l, T : Order!Dequeue(l, T) = Line!Dequeue(l, T)  BY <1>2 DEF Order!Dequeue, Line!Dequeue
<1>5. \A l, X : Order!Without(l, X) = Line!Without(l, X)  BY <1>2 DEF Order!Without, Line!Without
<1>6. \A l, g : Order!Served(l, g) = Line!Served(l, g)  BY <1>3, <1>5 DEF Order!Served, Line!Served
<1>7. \A l, i : Order!Due(l, i) = Line!Due(l, i)  BY Zenon DEF Order!Due, Line!Due, Order!TakeOf, Line!TakeOf
<1>8. \A l, T : Order!Places(l, T) = Line!Places(l, T)  BY DEF Order!Places, Line!Places
<1>9. \A l, T : Order!PickFrom(l, T) = Line!PickFrom(l, T)  BY ZenonT(60), <1>7, <1>8 DEF Order!PickFrom, Line!PickFrom
<1>10. \A g, t : Order!Arrival(g, t) = Line!Arrival(g, t)  BY DEF Order!Arrival, Line!Arrival
<1>. QED  BY <1>4, <1>6, <1>9, <1>10

\* An empty queue is an empty line.
LEMMA OrderStarts == QueueInit => Order!OrderInit
<1>. SUFFICES ASSUME QueueInit  PROVE Order!OrderInit  OBVIOUS
<1>1. Inv  BY Empty
<1>2. QueueInv(queue, sending, clock)  BY <1>1 DEF Inv
<1>3. clock = 0 /\ sending = {}  BY DEF QueueInit
<1>4. PICK c, q, S : c = clock /\ q = queue /\ S = sending  OBVIOUS
<1>5. QueueInv(q, S, c) /\ c = 0 /\ c \in Nat  BY <1>2, <1>3, <1>4
<1>6. Marks(q, c) \in SUBSET (1 .. c)  BY <1>5, Marked
<1>. DEFINE P == Marks(q, c)
            e == [n \in 1 .. 0 |-> 0]
<1>7. P = {}  BY <1>5, <1>6
<1>8. Enumerates(e, 0, P)  BY <1>7 DEF Enumerates
<1>9. LineFor(q, c) = AtPlaces(At(q, c), e, 0)
  <2>1. LineFor(q, c) = Line!Kept(At(q, c), P)  BY DEF LineFor
  <2>. HIDE DEF P, e
  <2>. QED  BY <1>5, <1>6, <1>8, <2>1, KeptBy DEF P
<1>10. AtPlaces(At(q, c), e, 0) = <<>>  BY DEF AtPlaces
<1>11. LineOf = <<>>  BY <1>4, <1>9, <1>10, LineIs
<1>. QED  BY <1>3, <1>11 DEF Order!OrderInit

\* Every step of the lists is a step of the line.
LEMMA OrderSteps == Inv /\ Inv' /\ [QueueNext]_vars => [Order!OrderNext]_<<LineOf, sending>>
<1>. SUFFICES ASSUME Inv, Inv', [QueueNext]_vars  PROVE [Order!OrderNext]_<<LineOf, sending>>  OBVIOUS
<1>1. /\ QueueInv(queue, sending, clock) /\ QueueInv(queue', sending', clock') /\ clock \in Nat
      /\ queue \in Queues
  BY DEF Inv, QueueInv
<1>2. LineOf = LineFor(queue, clock) /\ LineOf' = LineFor(queue', clock')
  <2>1. LineOf = LineFor(queue, clock)  BY LineIs
  <2>2. (LineOf = LineFor(queue, clock))'  BY LineIs, PTL
  <2>. QED  BY <2>1, <2>2
<1>3. Order!Queued = In(queue)
  <2>1. Order!Queued = {LineFor(queue, clock)[i].thread : i \in DOMAIN LineFor(queue, clock)} \ {None}
    BY <1>2 DEF Order!Queued
  <2>. QED  BY <1>1, <2>1, LineHolds
<1>4. ASSUME NEW t \in Senders, NEW send \in BOOLEAN, Send(t, send)  PROVE Order!Arrive(t, send)
  <2>1. /\ t \notin In(queue) /\ clock' = clock + 1
        /\ queue' = Enqueue(queue, t, send, clock + 1)
        /\ sending' = IF send THEN sending \cup {t} ELSE sending
    BY <1>4 DEF Send, Queued, In
  <2>. DEFINE new == Find(t) = {}
              n == IF new THEN t ELSE CHOOSE x \in Find(t) : TRUE
              old == IF new THEN NoNode ELSE queue.node[n]
              node2 == [old EXCEPT !.sends = IF send THEN Append(@, t) ELSE @,
                                   !.calls = IF send THEN @ ELSE Append(@, t),
                                   !.count = @ + 1]
  <2>2. PICK q, r, c : q = queue /\ r = queue' /\ c = clock  OBVIOUS
  <2>3. /\ r.groups = IF new THEN Append(q.groups, t) ELSE q.groups
        /\ r.node = [q.node EXCEPT ![n] = node2]
        /\ r.group = [q.group EXCEPT ![t] = n]
        /\ r.seq = [q.seq EXCEPT ![t] = c + 1]
    BY <2>1, <2>2 DEF Enqueue
  <2>4. /\ q.groups \in Seq(Senders) /\ q.node \in [Senders -> Nodes] /\ q.seq \in [Senders -> Nat]
        /\ q.group \in [Senders -> Senders \cup {None}] /\ Members(q.groups) \subseteq Senders
    BY <1>1, <2>2, Parts
  <2>5. ~new => n \in Members(q.groups)
    <3>. SUFFICES ASSUME ~new  PROVE n \in Members(q.groups)  OBVIOUS
    <3>1. n \in Find(t)  OBVIOUS
    <3>. QED  BY <2>2, <3>1 DEF Find
  <2>6. t \notin Members(q.groups)  BY <1>1, <2>1, <2>2, NodeFacts
  <2>7. n \in Senders /\ (new => n = t) /\ node2.taken = old.taken /\ (new => old.taken = 0)
        /\ (~new => old.taken = q.node[n].taken)
    <3>1. n \in Senders  BY <2>4, <2>5
    <3>2. NoNode \in Nodes  BY CapAssumption DEF NoNode, Nodes
    <3>3. old \in Nodes  BY <2>2, <2>4, <3>1, <3>2
    <3>4. node2.taken = old.taken  BY <3>3 DEF Nodes
    <3>5. new => old.taken = 0  BY DEF NoNode
    <3>. QED  BY <2>2, <3>1, <3>4, <3>5
  <2>. HIDE DEF new, n, old, node2
  <2>8. In(r) = In(q) \cup {t}  BY <2>3, <2>4, <2>7, SendersAssumption DEF In
  <2>9. Members(r.groups) = IF new THEN Members(q.groups) \cup {t} ELSE Members(q.groups)
    <3>1. Members(Append(q.groups, t)) = Members(q.groups) \cup {t}  BY <2>4, AppendFacts
    <3>. QED  BY <2>3, <3>1
  <2>10. r.node[n] = node2 /\ \A x \in Senders \ {n} : r.node[x] = q.node[x]  BY <2>3, <2>4, <2>7
  <2>11. \A x \in Members(q.groups) : r.node[x].taken = q.node[x].taken  BY <2>4, <2>6, <2>7, <2>10
  <2>12. \A x \in Members(r.groups) : x \in Members(q.groups) \/ r.node[x].taken = 0  BY <2>7, <2>9, <2>10
  <2>13. r.seq[t] = c + 1 /\ \A u \in In(q) : r.seq[u] = q.seq[u]
    <3>1. \A u \in In(q) : u # t /\ u \in Senders  BY <2>1, <2>2 DEF In
    <3>. QED  BY <2>3, <2>4, <3>1
  <2>14. QueueInv(q, sending, c) /\ QueueInv(r, sending', c + 1)  BY <1>1, <2>1, <2>2
  <2>15. t \in In(r) /\ Members(q.groups) \subseteq Members(r.groups)  BY <2>8, <2>9
  <2>16. LineFor(r, c + 1) = Append(LineFor(q, c), Line!Arrival(GroupOf[t], t))
    BY <2>8, <2>11, <2>12, <2>13, <2>14, <2>15, LineSends
  <2>17. LineOf' = Append(LineOf, Order!Arrival(GroupOf[t], t))  BY <1>2, <2>1, <2>2, <2>16, SameOperators
  <2>. QED  BY <1>3, <2>1, <2>17 DEF Order!Arrive
<1>5. ASSUME NEW t \in Senders, Withdraw(t)  PROVE Order!Leave(t)
  <2>1. /\ t \in In(queue) /\ queue' = Dequeue(queue, t, t \in sending) /\ sending' = sending \ {t}
        /\ clock' = clock
    BY <1>5 DEF Withdraw, Queued, In
  <2>2. Handed(queue, queue')  BY <1>1, <2>1, DequeueKeeps
  <2>3. In(queue') = In(queue) \ {t}  BY <1>1, <2>1, DequeueOut
  <2>4. QueueInv(queue', sending', clock)  BY <1>1, <2>1
  <2>5. LineFor(queue', clock) = Line!Dequeue(LineFor(queue, clock), {t})
    BY <1>1, <2>1, <2>2, <2>3, <2>4, LineLeaves
  <2>6. LineOf' = Order!Dequeue(LineOf, {t})  BY <1>2, <2>1, <2>5, SameOperators
  <2>. QED  BY <1>3, <2>1, <2>6 DEF Order!Leave
<1>6. ASSUME NEW calls \in BOOLEAN, Deliver(calls)  PROVE Order!Take(calls)
  <2>1. PICK t : t = PickOf(queue, calls)  OBVIOUS
  <2>2. /\ ListFor(queue, calls) # <<>> /\ clock' = clock + 1
        /\ queue' = Dequeue(Served(queue, t, clock + 1), t, t \in sending)
        /\ sending' = sending \ {t}
    BY <1>6, <2>1 DEF Deliver, ListFor
  <2>3. t \in In(queue)  BY <1>1, <2>1, <2>2, Picked
  <2>4. PICK p : p = Served(queue, t, clock + 1)  OBVIOUS
  <2>5. QueueInv(p, sending, clock + 1)  BY <1>1, <2>3, <2>4, ServedKeeps
  <2>6. t \in In(p)
    <3>1. p.group = queue.group  BY <1>1, <2>4 DEF Served, Queues
    <3>. QED  BY <2>3, <3>1 DEF In
  <2>7. Handed(p, queue') /\ QueueInv(queue', sending', clock + 1)  BY <1>1, <2>2, <2>4, <2>5, <2>6, DequeueKeeps
  <2>8. In(queue') = In(p) \ {t}  BY <2>2, <2>4, <2>5, <2>6, DequeueOut
  <2>9. LineFor(p, clock + 1) = Line!Served(LineFor(queue, clock), GroupOf[t])  BY <1>1, <2>3, <2>4, <2>5, LineServes
  <2>10. LineFor(queue', clock + 1) = Line!Dequeue(LineFor(p, clock + 1), {t})
    BY <2>5, <2>6, <2>7, <2>8, LineLeaves
  <2>11. Line!PickFrom(LineFor(queue, clock), TakesFrom(queue, sending, calls)) = t  BY <1>1, <2>1, <2>2, LinePicks
  <2>12. TakesFrom(queue, sending, calls) # {}
    <3>1. Head(ListFor(queue, calls)) \in Members(ListFor(queue, calls))  BY <1>1, <2>2, Picked
    <3>2. PICK n : n \in Members(queue.groups) /\ Takes(queue, sending, calls, n) # {}
      BY <1>1, <3>1, FirstFacts
    <3>3. Kin(queue, n) \subseteq In(queue)  BY <1>1, <3>2, NodeFacts
    <3>. QED  BY <3>2, <3>3 DEF Takes, TakesFrom
  <2>13. PICK T : T = TakesFrom(queue, sending, calls)  OBVIOUS
  <2>14. T = IF calls THEN Order!Queued ELSE sending  BY <1>3, <2>13 DEF TakesFrom
  <2>15. Order!PickFrom(LineOf, T) = t  BY <1>2, <2>11, <2>13, SameOperators
  <2>16. LineOf' = Order!Dequeue(Order!Served(LineOf, GroupOf[t]), {t})
    BY <1>2, <2>2, <2>9, <2>10, SameOperators
  <2>. QED  BY <2>2, <2>12, <2>13, <2>14, <2>15, <2>16 DEF Order!Take
<1>7. CASE UNCHANGED vars
  <2>1. LineOf' = LineOf /\ sending' = sending  BY <1>2, <1>7 DEF vars
  <2>. QED  BY <2>1
<1>8. CASE QueueNext
  <2>1. Order!OrderNext  BY <1>4, <1>5, <1>6, <1>8 DEF QueueNext, Order!OrderNext
  <2>. QED  BY <2>1
<1>. QED  BY <1>7, <1>8

\* R2: the kernel's lists implement the one line of arrivals and takes: a receiver, whether
\* it takes calls or not, is given the message whose turn it is, and a message that arrives,
\* is taken or is withdrawn changes the line as R2 says.
THEOREM ListsImplementOrder == QueueSpec => ImplementsOrder
<1>1. QueueInit => Order!OrderInit  BY OrderStarts
<1>2. Inv /\ Inv' /\ [QueueNext]_vars => [Order!OrderNext]_<<LineOf, sending>>  BY OrderSteps
<1>. QED  BY <1>1, <1>2, Invariance, PTL DEF QueueSpec, ImplementsOrder, Order!OrderSpec
=============================================================================
