----------------------------- MODULE WalProofs -----------------------------
(***************************************************************************)
(* walfs keeps its volume whole for every number of blocks, transactions    *)
(* and faults: a mounted volume is what was answered, and walfs implements  *)
(* the atomic store, as long as a behaviour does not mix power losses with  *)
(* restarts that leave writes in the device's cache (Separate).             *)
(*                                                                          *)
(* The inductive invariant says, for each place walfsd can be, what reads   *)
(* return (what a restart finds) and which writes the device may still lose *)
(* (what a power loss can leave); at every place both can be recovered.     *)
(***************************************************************************)
EXTENDS Wal, FiniteSetTheorems, SequenceTheorems, TLAPS

\* Power losses and restarts do not both happen (WalCached shows what happens if they do).
Separate == \A F \in FaultSets : ~({"power", "restart"} \subseteq F)

----------------------------------------------------------------------------
(* The contents of a device d. *)

\* The blocks of a volume, and what they hold in the volume v: the hash block
\* holds the hashes, that is the contents, of the others.
Body == Blocks \cup {Hash}
Content(v, b) == IF b = Hash THEN v ELSE v[b]
Volumes == [Blocks -> Versions]

\* It holds the volume v, with its hash block.
Whole(d, v) == \A b \in Body : d[b] = Content(v, b)

\* Its header has no transaction.
Unlogged(d) == d[Header] \in {Empty, Torn}

Homes(es) == {es[i].home : i \in DOMAIN es}

\* The entries of a transaction from the volume old to new: the hash block and
\* every block that differs.
IsTx(es, old, new) ==
  /\ \E n \in 1 .. Cardinality(Blocks) + 1 : DOMAIN es = 1 .. n /\ es = [i \in 1 .. n |-> es[i]]
  /\ \A i \in DOMAIN es : \E b \in Body : es[i] = Entry(b, Content(new, b))
  /\ Hash \in Homes(es) /\ \A b \in Blocks \ Homes(es) : old[b] = new[b]

\* Its log holds es whole, and the blocks es has not are new's already.
InLog(d, es, new) ==
  /\ \A i \in DOMAIN es : d[i] = es[i].data
  /\ \A b \in Blocks \ Homes(es) : d[b] = new[b]

Logged(d, old, new) == IsTx(d[Header], old, new) /\ InLog(d, d[Header], new)

\* A mount takes it to the volume answered or to the one asked for.
Settled(d) == Whole(d, answered) \/ (asked # None /\ Whole(d, asked))
Recoverable(d) == IF Unlogged(d) THEN Settled(d) ELSE asked # None /\ Logged(d, answered, asked)

\* The volume a mount would serve (Durable is that of what the last sync left).
Served(d) ==
  LET es == IF d[Header] = Torn THEN Empty ELSE d[Header]
      At(b) == {i \in DOMAIN es : es[i].home = b}
  IN  IF \E i \in DOMAIN es : d[i] # es[i].data THEN None
      ELSE [b \in Blocks |-> IF At(b) = {} THEN d[b] ELSE es[CHOOSE i \in At(b) : TRUE].data]

----------------------------------------------------------------------------
(* The invariant. *)

Places == {"ready", "log", "head", "commit", "home", "clear", "cleared",
           "down", "rehome", "reclear", "recleared", "poisoned"}

Device ==
  /\ cur = [b \in Locs |-> cur[b]] /\ dur = [b \in Locs |-> dur[b]]
  /\ pend = [b \in Locs |-> pend[b]] /\ \A b \in Locs : pend[b] \in Seq(Range(pend[b]))
Ops == answered \in Volumes /\ asked \in Volumes \cup {None}
WalTypes == Device /\ Ops /\ pc \in Places /\ seq \in Versions /\ faults \in [Kinds -> Nat]

\* While walfsd has not restarted, only blocks of S may have writes to lose.
Pending(S) == faults["restart"] = 0 => \A b \in Locs \ S : pend[b] = <<>> /\ dur[b] = cur[b]

\* What the header may hold after power loss, while walfsd has not restarted, is in S.
Outcomes(S) ==
  faults["restart"] = 0 => /\ dur[Header] \in S
                           /\ pend[Header] # <<>> =>
                                Torn \in S /\ \A i \in DOMAIN pend[Header] : pend[Header][i] \in S

Tx == asked # None /\ IsTx(tx, answered, asked)

AtReady == Pending({}) /\ cur[Header] = Empty /\ Whole(cur, answered) /\ asked = None
           /\ hashes \in {None, answered}
AtLog(n) == /\ Tx /\ n \in 0 .. Len(tx) /\ Pending(LogBlocks) /\ cur[Header] = Empty
            /\ Whole(cur, answered) /\ \A i \in 1 .. n : cur[i] = tx[i].data
AtHead == AtLog(Len(tx)) /\ Pending({})
AtCommit == /\ Tx /\ Pending({Header}) /\ Outcomes({Empty, Torn, tx}) /\ cur[Header] = tx
            /\ InLog(cur, tx, asked) /\ Whole(cur, answered) /\ Durable = answered
AtHome(n) == /\ Tx /\ n \in 0 .. Len(tx) /\ Pending(Homes(tx)) /\ cur[Header] = tx
             /\ InLog(cur, tx, asked) /\ \A i \in 1 .. n : cur[tx[i].home] = tx[i].data
AtClear == /\ Tx /\ Pending({}) /\ cur[Header] = tx /\ InLog(cur, tx, asked) /\ Whole(cur, asked)
           /\ Durable = asked
AtCleared == /\ Tx /\ Pending({Header}) /\ Outcomes({Empty, Torn, tx}) /\ cur[Header] = Empty
             /\ InLog(cur, tx, asked) /\ Whole(cur, asked)

\* A recovery of a torn header copies nothing.
AtTorn(S, h) == /\ tx = Empty /\ Pending(S) /\ Outcomes({Empty, Torn}) /\ cur[Header] = h
                /\ Settled(cur)

\* The device of a poisoned volume can be recovered, whatever it loses: writes
\* to the log, to the header, or to the blocks of a committed transaction.
LogLost == Pending(LogBlocks) /\ Unlogged(cur) /\ Settled(cur)
HeaderLost == /\ Pending({Header}) /\ Outcomes({Empty, Torn, tx}) /\ Durable = Volume
              /\ \A x \in {Empty, Torn, tx} : Recoverable([cur EXCEPT ![Header] = x])
HomesLost == /\ ~Unlogged(cur) /\ asked # None /\ Logged(cur, answered, asked)
             /\ Pending(Homes(cur[Header]))
Shape == Recoverable(cur) /\ (LogLost \/ HeaderLost \/ HomesLost)

Place ==
  /\ pc = "ready"     => AtReady
  /\ pc = "log"       => AtLog(k)
  /\ pc = "head"      => AtHead
  /\ pc = "commit"    => AtCommit
  /\ pc = "home"      => AtHome(k)
  /\ pc = "clear"     => AtClear
  /\ pc = "cleared"   => AtCleared
  /\ pc = "down"      => Pending({}) /\ Recoverable(cur)
  /\ pc = "rehome"    => AtHome(k) \/ (AtTorn({}, Torn) /\ k = 0)
  /\ pc = "reclear"   => AtClear \/ AtTorn({}, Torn)
  /\ pc = "recleared" => AtCleared \/ AtTorn({Header}, Empty)
  /\ pc = "poisoned"  => Shape

\* What the last sync made durable is the volume read, or one the log can still
\* make it.
Kept == IF Unlogged(cur) THEN Durable = Volume ELSE Durable \in {answered, asked}

NotBoth == ~(faults["power"] > 0 /\ faults["restart"] > 0)

WalInv == WalTypes /\ NotBoth /\ Place /\ Kept

----------------------------------------------------------------------------
(* The device's blocks, and transactions. *)

\* The blocks of the volume, the header and the log are apart, and finite in number.
LEMMA Locations ==
  /\ Cardinality(Blocks) \in Nat /\ LogBlocks \subseteq Nat
  /\ Hash \notin Blocks /\ Header \notin Body /\ LogBlocks \cap Body = {} /\ Header \notin LogBlocks
  /\ Body \subseteq Locs /\ LogBlocks \subseteq Locs /\ Header \in Locs
  /\ Locs = Body \cup LogBlocks \cup {Header}
<1>1. Cardinality(Blocks) \in Nat  BY WalAssumption, FS_CardinalityType
<1>2. LogBlocks \subseteq Nat  BY <1>1 DEF LogBlocks
<1>. QED  BY <1>1, <1>2, WalAssumption DEF Locs, Body

\* A transaction's entries are a nonempty sequence, no longer than the log, of
\* blocks of the volume and what they will hold; it is no header that was torn
\* or emptied.
LEMMA TxFacts ==
  ASSUME NEW es, NEW old, NEW new \in Volumes, IsTx(es, old, new)
  PROVE  /\ es # Torn /\ es # Empty
         /\ Len(es) \in Nat \ {0} /\ DOMAIN es = 1 .. Len(es) /\ DOMAIN es \subseteq LogBlocks
         /\ Homes(es) \subseteq Body /\ Header \notin Homes(es) /\ Homes(es) \cap LogBlocks = {}
         /\ \A i \in DOMAIN es : es[i].home \in Body /\ es[i].home \in Homes(es)
                                 /\ es[i].data = Content(new, es[i].home)
<1>1. PICK n \in 1 .. Cardinality(Blocks) + 1 : DOMAIN es = 1 .. n /\ es = [i \in 1 .. n |-> es[i]]
  BY DEF IsTx
<1>2. n \in Nat /\ n > 0 /\ n \in 0 .. Cardinality(Blocks) + 1 /\ 1 .. n \subseteq LogBlocks
  BY Locations DEF LogBlocks
<1>. DEFINE EntrySet == [home : Blocks \cup {Hash}, data : Versions \cup [Blocks -> Versions]]
<1>3. \A b \in Body : Content(new, b) \in Versions \cup Volumes
  BY Locations DEF Content, Body, Volumes
<1>4. ASSUME NEW i \in 1 .. n
      PROVE  es[i].home \in Body /\ es[i].data = Content(new, es[i].home) /\ es[i] \in EntrySet
  <2>1. PICK b \in Body : es[i] = Entry(b, Content(new, b))  BY <1>1 DEF IsTx
  <2>. QED  BY <2>1, <1>3 DEF Entry, Body, Volumes
<1>7. es \in [1 .. n -> EntrySet]
  <2>. HIDE DEF EntrySet
  <2>. QED  BY <1>1, <1>4
<1>8. es # Torn  BY <1>7, <1>2, WalAssumption
<1>9. es # Empty  BY <1>1, <1>2 DEF Empty
<1>10. Len(es) = n
  <2>. HIDE DEF EntrySet
  <2>1. es \in Seq(EntrySet)
    BY <1>7, <1>2, SeqDef
  <2>. QED  BY <2>1, <1>1, <1>2, LenProperties
<1>11. Homes(es) \subseteq Body /\ \A i \in DOMAIN es : es[i].home \in Homes(es)
  BY <1>1, <1>4 DEF Homes
<1>. QED  BY <1>1, <1>2, <1>4, <1>8, <1>9, <1>10, <1>11, Locations

\* What a mount serves of a device whose header has no transaction: what it holds.
LEMMA ServedUnlogged ==
  ASSUME NEW d, Unlogged(d)
  PROVE  Served(d) = [b \in Blocks |-> d[b]]
<1>. DEFINE es == IF d[Header] = Torn THEN Empty ELSE d[Header]
<1>1. es = <<>>  BY DEF Unlogged, Empty
<1>2. DOMAIN es = {}  BY <1>1
<1>. HIDE DEF es
<1>3. Served(d) = IF \E i \in DOMAIN es : d[i] # es[i].data THEN None
                  ELSE [b \in Blocks |-> IF {i \in DOMAIN es : es[i].home = b} = {} THEN d[b]
                          ELSE es[CHOOSE i \in {i \in DOMAIN es : es[i].home = b} : TRUE].data]
  BY DEF Served, es
<1>. QED  BY <1>2, <1>3

\* What it serves of one whose log holds a committed transaction: the new volume.
LEMMA ServedLogged ==
  ASSUME NEW d, NEW old, NEW new \in Volumes, Logged(d, old, new)
  PROVE  Served(d) = new
<1>. DEFINE es == d[Header]  At(b) == {i \in DOMAIN es : es[i].home = b}
<1>1. IsTx(es, old, new) /\ InLog(d, es, new)  BY DEF Logged
<1>2. /\ es # Torn
      /\ \A i \in DOMAIN es : es[i].home \in Body /\ es[i].data = Content(new, es[i].home)
  BY <1>1, TxFacts
<1>3. \A i \in DOMAIN es : d[i] = es[i].data  BY <1>1 DEF InLog
<1>4. Served(d) = [b \in Blocks |-> IF At(b) = {} THEN d[b] ELSE es[CHOOSE i \in At(b) : TRUE].data]
  BY <1>2, <1>3 DEF Served
<1>5. ASSUME NEW b \in Blocks
      PROVE  (IF At(b) = {} THEN d[b] ELSE es[CHOOSE i \in At(b) : TRUE].data) = new[b]
  <2>1. CASE At(b) = {}
    <3>1. b \notin Homes(es)  BY <2>1 DEF Homes
    <3>. QED  BY <3>1, <2>1, <1>1 DEF InLog
  <2>2. CASE At(b) # {}
    <3>1. PICK i : i = (CHOOSE j \in At(b) : TRUE)  OBVIOUS
    <3>2. i \in At(b)  BY <3>1, <2>2
    <3>3. es[i].data = new[b]  BY <3>2, <1>2, Locations DEF Content
    <3>. QED  BY <3>1, <3>3, <2>2
  <2>. QED  BY <2>1, <2>2
<1>6. [b \in Blocks |-> IF At(b) = {} THEN d[b] ELSE es[CHOOSE i \in At(b) : TRUE].data]
        = [b \in Blocks |-> new[b]]
  BY <1>5
<1>7. new = [b \in Blocks |-> new[b]]  BY DEF Volumes
<1>. QED  BY <1>4, <1>6, <1>7

\* Durable is what a mount serves of what the last sync left.
LEMMA DurableServed == Durable = Served(dur)
BY DEF Durable, Served

\* A device that holds the volume v whole reads as v.
LEMMA WholeVolume ==
  ASSUME NEW d, NEW v \in Volumes, Whole(d, v)
  PROVE  [b \in Blocks |-> d[b]] = v
<1>1. \A b \in Blocks : d[b] = v[b]  BY Locations DEF Whole, Body, Content
<1>2. v = [b \in Blocks |-> v[b]]  BY DEF Volumes
<1>3. [b \in Blocks |-> d[b]] = [b \in Blocks |-> v[b]]  BY <1>1
<1>. QED  BY <1>2, <1>3

\* What a mount would recover depends on what each block holds, and on nothing else.
LEMMA SameRecoverable ==
  ASSUME NEW d, NEW e, \A b \in Locs : d[b] = e[b],
         answered \in Volumes, asked \in Volumes \cup {None}, Recoverable(d)
  PROVE  Recoverable(e)
<1>0. d[Header] = e[Header] /\ (Unlogged(d) <=> Unlogged(e))  BY Locations DEF Unlogged
<1>1. CASE Unlogged(d)
  <2>1. Settled(d)  BY <1>1 DEF Recoverable
  <2>2. Settled(e)  BY <2>1, Locations DEF Settled, Whole
  <2>. QED  BY <2>2, <1>0, <1>1 DEF Recoverable
<1>2. CASE ~Unlogged(d)
  <2>1. asked # None /\ IsTx(d[Header], answered, asked) /\ InLog(d, d[Header], asked)
    BY <1>2 DEF Recoverable, Logged
  <2>2. PICK es : es = d[Header] /\ es = e[Header]  BY <1>0
  <2>3. IsTx(es, answered, asked) /\ InLog(d, es, asked)  BY <2>1, <2>2
  <2>4. DOMAIN es \subseteq Locs  BY <2>1, <2>3, TxFacts, Locations
  <2>5. InLog(e, es, asked)  BY <2>3, <2>4, Locations DEF InLog, Body
  <2>. QED  BY <2>1, <2>2, <2>3, <2>5, <1>0, <1>2 DEF Recoverable, Logged
<1>. QED  BY <1>1, <1>2

\* SetToSeq of a finite set is a sequence of its elements that has every one of them.
LEMMA SetToSeqFacts ==
  ASSUME NEW S, IsFiniteSet(S)
  PROVE  /\ Cardinality(S) \in Nat
         /\ SetToSeq(S) \in [1 .. Cardinality(S) -> S]
         /\ \A x \in S : \E i \in 1 .. Cardinality(S) : SetToSeq(S)[i] = x
<1>. DEFINE c == Cardinality(S)
<1>1. c \in Nat /\ ExistsBijection(1 .. c, S)  BY FS_CardinalityType
<1>2. PICK f : f \in Bijection(1 .. c, S)  BY <1>1 DEF ExistsBijection
<1>3. f \in [1 .. c -> S] /\ IsInjective(f)
  BY <1>2 DEF Bijection, Injection, IsInjective
<1>. DEFINE g == SetToSeq(S)
<1>4. g \in [1 .. c -> S] /\ IsInjective(g)  BY <1>3 DEF SetToSeq
<1>. HIDE DEF g, c
<1>5. g \in Injection(1 .. c, S)  BY <1>4 DEF Injection, IsInjective
<1>6. IsFiniteSet(1 .. c) /\ Cardinality(1 .. c) = c  BY <1>1, FS_Interval
<1>7. g \in Surjection(1 .. c, S)
  <2>1. Cardinality(1 .. c) = Cardinality(S)  BY <1>6 DEF c
  <2>. QED  BY <1>5, <2>1, FS_Injection
<1>8. \A x \in S : \E i \in 1 .. c : g[i] = x  BY <1>7 DEF Surjection
<1>. QED  BY <1>1, <1>4, <1>8 DEF c, g

\* The blocks a transaction logs are the hash block and the ones it changes:
\* Transaction builds the entries that take the volume answered to the new one.
LEMMA TransactionIsTx ==
  ASSUME NEW S \in SUBSET Blocks, answered \in Volumes, cur[Hash] = answered, seq \in Nat,
         seq + 1 \in Versions
  PROVE  LET new == [b \in Blocks |-> IF b \in S THEN seq + 1 ELSE answered[b]]
         IN  new \in Volumes /\ IsTx(Transaction(S), answered, new)
<1>. DEFINE new == [b \in Blocks |-> IF b \in S THEN seq + 1 ELSE answered[b]]
            E == {Entry(b, seq + 1) : b \in S}
            f == [b \in S |-> Entry(b, seq + 1)]
            c == Cardinality(E)
            h == Entry(Hash, new)
            all == {Entry(b, Content(new, b)) : b \in Body}
<1>1. new \in Volumes  BY DEF Volumes
<1>2. IsFiniteSet(S) /\ Cardinality(S) <= Cardinality(Blocks)  BY WalAssumption, FS_Subset
<1>3. IsFiniteSet(E) /\ c <= Cardinality(S)
  <2>1. f \in Surjection(S, E)  BY DEF Surjection
  <2>. QED  BY <2>1, <1>2, FS_Surjection
<1>4. /\ c \in Nat /\ SetToSeq(E) \in [1 .. c -> E]
      /\ \A x \in E : \E i \in 1 .. c : SetToSeq(E)[i] = x
  BY <1>3, SetToSeqFacts
<1>5. Cardinality(S) \in Nat /\ c <= Cardinality(Blocks)
  <2>1. Cardinality(S) \in Nat  BY <1>2, FS_CardinalityType
  <2>. QED  BY <2>1, <1>2, <1>3, <1>4, Locations
<1>6. E \subseteq all /\ h \in all
  <2>1. \A b \in S : Content(new, b) = seq + 1  BY Locations DEF Content
  <2>2. Content(new, Hash) = new  BY DEF Content
  <2>. QED  BY <2>1, <2>2 DEF Body
<1>. DEFINE s == SetToSeq(E)
<1>7. Transaction(S) = <<h>> \o s
  <2>1. [b \in Blocks |-> IF b \in S THEN seq + 1 ELSE cur[Hash][b]] = new  OBVIOUS
  <2>. QED  BY <2>1 DEF Transaction
<1>. HIDE DEF s, h, E, c, new, all
<1>8. s \in Seq(all) /\ Len(s) = c
  <2>1. s \in [1 .. c -> all]  BY <1>4, <1>6 DEF s
  <2>2. s \in Seq(all)  BY <2>1, <1>4, SeqDef
  <2>. QED  BY <2>1, <2>2, <1>4, LenProperties
<1>9. <<h>> \in Seq(all) /\ Len(<<h>>) = 1 /\ <<h>>[1] = h  BY <1>6
<1>. DEFINE t == <<h>> \o s
<1>10. /\ t \in Seq(all) /\ Len(t) = c + 1
       /\ \A i \in 1 .. c + 1 : t[i] = IF i <= 1 THEN h ELSE s[i - 1]
  <2>1. /\ t \in Seq(all) /\ Len(t) = Len(<<h>>) + Len(s)
        /\ \A i \in 1 .. Len(<<h>>) + Len(s) : t[i] = IF i <= Len(<<h>>) THEN <<h>>[i] ELSE s[i - Len(<<h>>)]
    BY <1>8, <1>9, ConcatProperties
  <2>. QED  BY <2>1, <1>8, <1>9, <1>4
<1>. HIDE DEF t
<1>11. t \in [1 .. c + 1 -> all] /\ DOMAIN t = 1 .. c + 1
  BY <1>10, LenProperties
<1>12. c + 1 \in 1 .. Cardinality(Blocks) + 1  BY <1>4, <1>5, Locations
<1>13. \A i \in DOMAIN t : \E b \in Body : t[i] = Entry(b, Content(new, b))
  BY <1>11 DEF all
<1>14. Hash \in Homes(t)
  <2>1. 1 \in DOMAIN t /\ t[1] = h  BY <1>10, <1>11, <1>4
  <2>2. t[1].home = Hash  BY <2>1 DEF h, Entry
  <2>. QED  BY <2>1, <2>2 DEF Homes
<1>15. ASSUME NEW b \in S  PROVE b \in Homes(t)
  <2>1. Entry(b, seq + 1) \in E  BY DEF E
  <2>2. PICK i \in 1 .. c : s[i] = Entry(b, seq + 1)  BY <2>1, <1>4 DEF s
  <2>3. i + 1 \in DOMAIN t /\ t[i + 1] = s[i]  BY <1>10, <1>11, <1>4, SMTT(30)
  <2>4. t[i + 1].home = b  BY <2>2, <2>3 DEF Entry
  <2>. QED  BY <2>3, <2>4 DEF Homes
<1>16. \A b \in Blocks \ Homes(t) : answered[b] = new[b]  BY <1>15 DEF new
<1>17. IsTx(t, answered, new)  BY <1>11, <1>12, <1>13, <1>14, <1>16 DEF IsTx
<1>. QED  BY <1>1, <1>7, <1>17 DEF t, new

----------------------------------------------------------------------------
(* Writes and syncs. *)

\* A write changes what a read of its block returns, and joins the block's
\* pending writes; the other blocks, and what is durable, stay.
LEMMA WrittenFacts ==
  ASSUME Device, NEW b \in Locs, NEW c, Written(b, c)
  PROVE  /\ Device' /\ dur' = dur /\ Durable' = Durable /\ cur'[b] = c
         /\ \A x \in Locs : x # b => cur'[x] = cur[x] /\ pend'[x] = pend[x]
         /\ \A i \in DOMAIN pend'[b] : pend'[b][i] = c \/ (i \in DOMAIN pend[b] /\ pend'[b][i] = pend[b][i])
<1>1. dur' = dur /\ cur' = [cur EXCEPT ![b] = c] /\ pend' = [pend EXCEPT ![b] = Append(pend[b], c)]
  BY DEF Written
<1>2. DOMAIN cur = Locs /\ DOMAIN pend = Locs  BY DEF Device
<1>3. cur'[b] = c /\ pend'[b] = Append(pend[b], c)  BY <1>1, <1>2
<1>4. \A x \in Locs : x # b => cur'[x] = cur[x] /\ pend'[x] = pend[x]  BY <1>1, <1>2
<1>5. cur' = [x \in Locs |-> cur'[x]] /\ pend' = [x \in Locs |-> pend'[x]]  BY <1>1, <1>2
<1>6. PICK s : s = pend[b]  OBVIOUS
<1>7. s \in Seq(Range(s))  BY <1>6 DEF Device
<1>. DEFINE t == Append(s, c)  T == Range(s) \cup {c}
<1>8. s \in Seq(T)  BY <1>7, SeqMonotonic
<1>9. /\ t \in Seq(T) /\ Len(t) = Len(s) + 1 /\ t[Len(s) + 1] = c
      /\ \A i \in 1 .. Len(s) : t[i] = s[i]
  BY <1>8, AppendProperties
<1>10. Len(s) \in Nat /\ DOMAIN s = 1 .. Len(s) /\ DOMAIN t = 1 .. Len(s) + 1
  BY <1>8, <1>9, LenProperties
<1>11. \A i \in DOMAIN t : t[i] = c \/ (i \in DOMAIN s /\ t[i] = s[i])  BY <1>9, <1>10
<1>12. t \in Seq(Range(t))
  <2>1. t \in [1 .. Len(s) + 1 -> T]  BY <1>9, <1>10, LenProperties
  <2>2. t \in [1 .. Len(s) + 1 -> Range(t)]  BY <2>1 DEF Range
  <2>. HIDE DEF t
  <2>. QED  BY <2>2, <1>10, SeqDef
<1>13. pend'[b] = t  BY <1>3, <1>6
<1>14. \A x \in Locs : pend'[x] \in Seq(Range(pend'[x]))
  <2>. SUFFICES ASSUME NEW x \in Locs  PROVE pend'[x] \in Seq(Range(pend'[x]))  OBVIOUS
  <2>1. CASE x = b  BY <2>1, <1>12, <1>13
  <2>2. CASE x # b  BY <2>2, <1>4 DEF Device
  <2>. QED  BY <2>1, <2>2
<1>15. Device'  BY <1>1, <1>5, <1>14 DEF Device
<1>16. Durable' = Durable  BY <1>1 DEF Durable
<1>. QED  BY <1>1, <1>3, <1>4, <1>6, <1>11, <1>13, <1>15, <1>16

\* A sync leaves no pending write; what reads return is what is durable.
LEMMA SyncedFacts ==
  ASSUME Device, Synced
  PROVE  /\ Device' /\ cur' = cur /\ dur' = cur /\ Durable' = Served(cur)
         /\ \A x \in Locs : pend'[x] = <<>>
<1>1. cur' = cur /\ dur' = cur /\ pend' = [x \in Locs |-> <<>>]  BY DEF Synced
<1>2. <<>> \in Seq(Range(<<>>))  OBVIOUS
<1>3. Device'  BY <1>1, <1>2 DEF Device
<1>4. Durable' = Served(cur)  BY <1>1 DEF Durable, Served
<1>. QED  BY <1>1, <1>3, <1>4

\* What a mount would serve, of what reads return, when the log is as it should be.
LEMMA ServedRecoverable ==
  ASSUME Ops, NEW d, Recoverable(d)
  PROVE  /\ Unlogged(d) => Served(d) = [b \in Blocks |-> d[b]] /\ Served(d) \in {answered, asked}
         /\ ~Unlogged(d) => Served(d) = asked /\ asked # None
<1>1. CASE Unlogged(d)
  <2>1. Served(d) = [b \in Blocks |-> d[b]]  BY <1>1, ServedUnlogged
  <2>2. Settled(d)  BY <1>1 DEF Recoverable
  <2>3. CASE Whole(d, answered)  BY <2>1, <2>3, <1>1, WholeVolume DEF Ops
  <2>4. CASE asked # None /\ Whole(d, asked)
    <3>1. asked \in Volumes  BY <2>4 DEF Ops
    <3>. QED  BY <2>1, <2>4, <3>1, <1>1, WholeVolume
  <2>. QED  BY <2>2, <2>3, <2>4 DEF Settled
<1>2. CASE ~Unlogged(d)
  <2>1. asked # None /\ asked \in Volumes /\ Logged(d, answered, asked)
    BY <1>2 DEF Recoverable, Ops
  <2>. QED  BY <2>1, <1>2, ServedLogged
<1>. QED  BY <1>1, <1>2

\* A device whose writes are all durable keeps the volume (after a sync, or a
\* power loss).
LEMMA KeptServed == Ops /\ Recoverable(cur) /\ Durable = Served(cur) => Kept
BY ServedRecoverable DEF Kept, Volume

----------------------------------------------------------------------------
(* Every place can be recovered. *)

\* A committed transaction in the log can be recovered.
LEMMA LoggedRecoverable ==
  ASSUME Ops, NEW d, asked # None, IsTx(d[Header], answered, asked), InLog(d, d[Header], asked)
  PROVE  ~Unlogged(d) /\ Logged(d, answered, asked) /\ Recoverable(d)
<1>1. asked \in Volumes  BY DEF Ops
<1>2. ~Unlogged(d)  BY <1>1, TxFacts DEF Unlogged
<1>. QED  BY <1>2 DEF Recoverable, Logged

\* A device whose header lost its transaction holds what its blocks do.
LEMMA HeaderEmptied ==
  ASSUME Device, Settled(cur), NEW x \in {Empty, Torn}
  PROVE  Recoverable([cur EXCEPT ![Header] = x])
<1>. DEFINE d == [cur EXCEPT ![Header] = x]
<1>1. d[Header] = x /\ \A b \in Body : d[b] = cur[b]  BY Locations DEF Device
<1>. HIDE DEF d
<1>2. Settled(d)  BY <1>1 DEF Settled, Whole
<1>3. Unlogged(d)  BY <1>1 DEF Unlogged
<1>4. Recoverable(d)  BY <1>2, <1>3 DEF Recoverable
<1>. QED  BY <1>4 DEF d

\* A device whose header came to hold a transaction that is in its log can be recovered.
LEMMA HeaderFilled ==
  ASSUME Device, Ops, asked # None, NEW x, IsTx(x, answered, asked), InLog(cur, x, asked)
  PROVE  Recoverable([cur EXCEPT ![Header] = x])
<1>. DEFINE d == [cur EXCEPT ![Header] = x]
<1>1. d[Header] = x /\ \A b \in Locs : b # Header => d[b] = cur[b]  BY Locations DEF Device
<1>2. asked \in Volumes  BY DEF Ops
<1>3. DOMAIN x \subseteq LogBlocks  BY <1>2, TxFacts
<1>. HIDE DEF d
<1>4. InLog(d, x, asked)  BY <1>1, <1>3, Locations DEF InLog, Body
<1>5. Recoverable(d)  BY <1>1, <1>4, LoggedRecoverable
<1>. QED  BY <1>5 DEF d

\* What is pending in a smaller set is pending in a larger.
LEMMA PendingWider == ASSUME NEW S, NEW T, Pending(S), S \subseteq T PROVE Pending(T)
BY DEF Pending

\* Wherever walfsd is, the device can be recovered, and so it can after power loss.
LEMMA ShapeOf ==
  Device /\ Ops /\ Kept
    /\ (\/ AtReady \/ (\E n : AtLog(n) \/ AtHome(n)) \/ AtHead \/ AtCommit \/ AtClear \/ AtCleared
        \/ AtTorn({}, Torn) \/ AtTorn({Header}, Empty) \/ (Pending({}) /\ Recoverable(cur)))
    => Shape
<1>. SUFFICES ASSUME Device, Ops, Kept
              PROVE  (\/ AtReady \/ (\E n : AtLog(n) \/ AtHome(n)) \/ AtHead \/ AtCommit \/ AtClear \/ AtCleared
                      \/ AtTorn({}, Torn) \/ AtTorn({Header}, Empty)
                      \/ (Pending({}) /\ Recoverable(cur))) => Shape
  OBVIOUS
<1>1. ASSUME Pending({}) \/ Pending(LogBlocks), Unlogged(cur), Settled(cur)  PROVE Shape
  <2>1. Recoverable(cur)  BY <1>1 DEF Recoverable
  <2>2. Pending(LogBlocks)  BY <1>1, PendingWider
  <2>. QED  BY <1>1, <2>1, <2>2 DEF Shape, LogLost
<1>2. CASE AtReady  BY <1>1, <1>2 DEF AtReady, Unlogged, Settled
<1>3. CASE \E n : AtLog(n)  BY <1>1, <1>3 DEF AtLog, Unlogged, Settled
<1>4. CASE AtHead  BY <1>1, <1>4 DEF AtHead, AtLog, Unlogged, Settled
<1>5. CASE AtCommit
  <2>1. asked # None /\ IsTx(tx, answered, asked) /\ InLog(cur, tx, asked) /\ cur[Header] = tx
    BY <1>5 DEF AtCommit, Tx
  <2>2. Settled(cur) /\ Durable = Volume
    BY <1>5, WholeVolume DEF AtCommit, Settled, Volume, Ops
  <2>3. \A x \in {Empty, Torn, tx} : Recoverable([cur EXCEPT ![Header] = x])
    BY <2>1, <2>2, HeaderEmptied, HeaderFilled
  <2>4. Recoverable(cur)  BY <2>1, LoggedRecoverable
  <2>. QED  BY <1>5, <2>2, <2>3, <2>4 DEF AtCommit, Shape, HeaderLost
<1>6. ASSUME Tx, cur[Header] = tx, InLog(cur, tx, asked), Pending({}) \/ Pending(Homes(tx))  PROVE Shape
  <2>1. asked # None /\ IsTx(cur[Header], answered, asked) /\ InLog(cur, cur[Header], asked)
    BY <1>6 DEF Tx
  <2>2. ~Unlogged(cur) /\ Logged(cur, answered, asked) /\ Recoverable(cur)  BY <2>1, LoggedRecoverable
  <2>3. Pending(Homes(cur[Header]))  BY <1>6, PendingWider
  <2>. QED  BY <2>1, <2>2, <2>3 DEF Shape, HomesLost
<1>7. CASE \E n : AtHome(n)  BY <1>6, <1>7 DEF AtHome
<1>8. CASE AtClear  BY <1>6, <1>8 DEF AtClear
<1>9. ASSUME Pending({Header}), Outcomes({Empty, Torn, tx}), cur[Header] = Empty, Settled(cur),
             tx = Empty \/ (Tx /\ InLog(cur, tx, asked))
      PROVE  Shape
  <2>1. \A x \in {Empty, Torn, tx} : Recoverable([cur EXCEPT ![Header] = x])
    BY <1>9, HeaderEmptied, HeaderFilled DEF Tx
  <2>2. Unlogged(cur)  BY <1>9 DEF Unlogged
  <2>3. Recoverable(cur) /\ Durable = Volume  BY <1>9, <2>2 DEF Recoverable, Kept
  <2>. QED  BY <1>9, <2>1, <2>3 DEF Shape, HeaderLost
<1>10. CASE AtCleared  BY <1>9, <1>10 DEF AtCleared, Settled, Tx
<1>11. CASE AtTorn({}, Torn)  BY <1>1, <1>11 DEF AtTorn, Unlogged
<1>12. CASE AtTorn({Header}, Empty)
  <2>1. Outcomes({Empty, Torn, tx})  BY <1>12 DEF AtTorn, Outcomes
  <2>. QED  BY <1>9, <1>12, <2>1 DEF AtTorn
<1>13. CASE Pending({}) /\ Recoverable(cur)
  <2>1. CASE Unlogged(cur)  BY <1>1, <1>13, <2>1 DEF Recoverable
  <2>2. CASE ~Unlogged(cur)
    <3>1. asked # None /\ Logged(cur, answered, asked)  BY <1>13, <2>2 DEF Recoverable
    <3>2. Pending(Homes(cur[Header]))  BY <1>13, PendingWider
    <3>. QED  BY <1>13, <2>2, <3>1, <3>2 DEF Shape, HomesLost
  <2>. QED  BY <2>1, <2>2
<1>. QED  BY <1>2, <1>3, <1>4, <1>5, <1>7, <1>8, <1>10, <1>11, <1>12, <1>13

----------------------------------------------------------------------------
(* The steps of a transaction and of a recovery, write by write. *)

\* A transaction is under way as before while nothing it depends on changes.
LEMMA TxSame ==
  ASSUME Tx, UNCHANGED <<tx, asked, answered>>  PROVE Tx'
BY DEF Tx

\* A write to the log (WriteLog).
LEMMA LogWritten ==
  ASSUME Device, Ops, Kept, NEW n, AtLog(n), n < Len(tx), Written(n + 1, tx[n + 1].data),
         UNCHANGED <<tx, asked, answered>>, faults'["restart"] = faults["restart"]
  PROVE  AtLog(n + 1)' /\ Kept'
<1>1. asked \in Volumes /\ IsTx(tx, answered, asked)  BY DEF AtLog, Tx, Ops
<1>2. Len(tx) \in Nat /\ DOMAIN tx = 1 .. Len(tx) /\ DOMAIN tx \subseteq LogBlocks  BY <1>1, TxFacts
<1>3. n \in Nat /\ n + 1 \in 1 .. Len(tx)  BY <1>2 DEF AtLog
<1>4. n + 1 \in LogBlocks /\ n + 1 \in Locs /\ n + 1 # Header  BY <1>2, <1>3, Locations
<1>5. /\ dur' = dur /\ Durable' = Durable /\ cur'[n + 1] = tx[n + 1].data
      /\ \A x \in Locs : x # n + 1 => cur'[x] = cur[x] /\ pend'[x] = pend[x]
  BY <1>4, WrittenFacts
<1>6. Pending(LogBlocks)'  BY <1>4, <1>5 DEF Pending, AtLog
<1>7. cur'[Header] = cur[Header] /\ \A b \in Body : cur'[b] = cur[b]  BY <1>4, <1>5, Locations
<1>8. Whole(cur', answered)  BY <1>7 DEF AtLog, Whole
<1>9. \A i \in 1 .. n + 1 : cur'[i] = tx[i].data
  <2>1. \A i \in 1 .. n + 1 : i \in 1 .. n \/ i = n + 1  BY <1>3
  <2>2. \A i \in 1 .. n : i \in Locs /\ i # n + 1  BY <1>2, <1>3, Locations
  <2>. QED  BY <2>1, <2>2, <1>5 DEF AtLog
<1>10. Volume' = Volume  BY <1>7 DEF Volume, Body
<1>11. Kept'  BY <1>5, <1>7, <1>10 DEF Kept, Unlogged
<1>12. Tx'  BY TxSame DEF AtLog
<1>13. AtLog(n + 1)'  BY <1>3, <1>6, <1>7, <1>8, <1>9, <1>12 DEF AtLog
<1>. QED  BY <1>11, <1>13

\* The commit's write (WriteHeader).
LEMMA HeaderWritten ==
  ASSUME Device, Ops, Kept, AtHead, Written(Header, tx),
         UNCHANGED <<tx, asked, answered>>, faults'["restart"] = faults["restart"]
  PROVE  AtCommit' /\ Kept'
<1>1. asked \in Volumes /\ IsTx(tx, answered, asked)  BY DEF AtHead, AtLog, Tx, Ops
<1>2. DOMAIN tx = 1 .. Len(tx) /\ DOMAIN tx \subseteq LogBlocks /\ tx # Torn /\ tx # Empty
  BY <1>1, TxFacts
<1>3. /\ dur' = dur /\ Durable' = Durable /\ cur'[Header] = tx
      /\ \A x \in Locs : x # Header => cur'[x] = cur[x] /\ pend'[x] = pend[x]
      /\ \A i \in DOMAIN pend'[Header] :
           pend'[Header][i] = tx \/ (i \in DOMAIN pend[Header] /\ pend'[Header][i] = pend[Header][i])
  BY Locations, WrittenFacts
<1>4. Pending({Header})'  BY <1>3 DEF Pending, AtHead
<1>5. Outcomes({Empty, Torn, tx})'
  <2>1. SUFFICES ASSUME faults["restart"] = 0
                 PROVE  /\ dur'[Header] \in {Empty, Torn, tx}
                        /\ \A i \in DOMAIN pend'[Header] : pend'[Header][i] \in {Empty, Torn, tx}
    BY DEF Outcomes
  <2>2. pend[Header] = <<>> /\ dur[Header] = Empty  BY <2>1, Locations DEF AtHead, AtLog, Pending
  <2>3. DOMAIN pend[Header] = {}  BY <2>2
  <2>. QED  BY <1>3, <2>2, <2>3
<1>6. \A i \in DOMAIN tx : i \in Locs /\ i # Header  BY <1>2, Locations
<1>7. \A b \in Body : cur'[b] = cur[b]  BY <1>3, Locations
<1>8. Whole(cur, answered)  BY DEF AtHead, AtLog
<1>9. InLog(cur', tx, asked)
  <2>1. \A i \in DOMAIN tx : cur'[i] = tx[i].data  BY <1>2, <1>3, <1>6 DEF AtHead, AtLog
  <2>2. ASSUME NEW b \in Blocks \ Homes(tx)  PROVE cur'[b] = asked[b]
    <3>1. answered[b] = asked[b]  BY <1>1 DEF IsTx
    <3>. QED  BY <3>1, <1>7, <1>8, Locations DEF Whole, Content, Body
  <2>. QED  BY <2>1, <2>2 DEF InLog
<1>10. Whole(cur', answered)  BY <1>7, <1>8 DEF Whole
<1>11. Durable = answered
  <2>1. Unlogged(cur)  BY DEF AtHead, AtLog, Unlogged
  <2>2. Durable = [b \in Blocks |-> cur[b]]  BY <2>1 DEF Kept, Volume
  <2>. QED  BY <2>2, <1>8, WholeVolume DEF Ops
<1>12. Tx'  BY TxSame DEF AtHead, AtLog
<1>13. AtCommit'  BY <1>3, <1>4, <1>5, <1>9, <1>10, <1>11, <1>12 DEF AtCommit
<1>14. Kept'  BY <1>2, <1>3, <1>11 DEF Kept, Unlogged
<1>. QED  BY <1>13, <1>14

\* A copy of a logged block to its home (WriteHome, Rehome).
LEMMA HomeWritten ==
  ASSUME Device, Ops, Kept, NEW n, AtHome(n), n < Len(tx),
         Written(tx[n + 1].home, tx[n + 1].data),
         UNCHANGED <<tx, asked, answered>>, faults'["restart"] = faults["restart"]
  PROVE  AtHome(n + 1)' /\ Kept'
<1>1. asked \in Volumes /\ IsTx(tx, answered, asked)  BY DEF AtHome, Tx, Ops
<1>2. /\ Len(tx) \in Nat /\ DOMAIN tx = 1 .. Len(tx) /\ DOMAIN tx \subseteq LogBlocks
      /\ Homes(tx) \subseteq Body /\ Header \notin Homes(tx) /\ tx # Torn /\ tx # Empty
      /\ \A i \in DOMAIN tx : tx[i].home \in Homes(tx) /\ tx[i].data = Content(asked, tx[i].home)
  BY <1>1, TxFacts
<1>3. n \in Nat /\ n + 1 \in DOMAIN tx  BY <1>2 DEF AtHome
<1>4. PICK h : h = tx[n + 1].home  OBVIOUS
<1>5. h \in Homes(tx) /\ h \in Locs /\ h # Header /\ h \notin LogBlocks /\ tx[n + 1].data = Content(asked, h)
  BY <1>2, <1>3, <1>4, Locations
<1>6. /\ dur' = dur /\ Durable' = Durable /\ cur'[h] = Content(asked, h)
      /\ \A x \in Locs : x # h => cur'[x] = cur[x] /\ pend'[x] = pend[x]
  BY <1>4, <1>5, WrittenFacts
<1>7. Pending(Homes(tx))'
  <2>1. \A x \in Locs \ Homes(tx) : cur'[x] = cur[x] /\ pend'[x] = pend[x]  BY <1>5, <1>6
  <2>. QED  BY <1>6, <2>1 DEF Pending, AtHome
<1>8. cur'[Header] = tx  BY <1>5, <1>6, Locations DEF AtHome
<1>9. InLog(cur', tx, asked)
  <2>1. \A i \in DOMAIN tx : cur'[i] = cur[i]  BY <1>2, <1>5, <1>6, Locations
  <2>2. \A b \in Blocks \ Homes(tx) : cur'[b] = cur[b]  BY <1>5, <1>6, Locations DEF Body
  <2>. QED  BY <2>1, <2>2 DEF AtHome, InLog
<1>10. \A i \in 1 .. n + 1 : cur'[tx[i].home] = tx[i].data
  <2>. SUFFICES ASSUME NEW i \in 1 .. n + 1  PROVE cur'[tx[i].home] = tx[i].data  OBVIOUS
  <2>1. i \in DOMAIN tx /\ (i \in 1 .. n \/ i = n + 1)  BY <1>2, <1>3
  <2>2. CASE tx[i].home = h  BY <2>1, <2>2, <1>2, <1>6
  <2>3. CASE tx[i].home # h
    <3>1. i \in 1 .. n  BY <2>1, <2>3, <1>4
    <3>2. tx[i].home \in Locs  BY <2>1, <1>2, Locations
    <3>. QED  BY <3>1, <3>2, <2>3, <1>6 DEF AtHome
  <2>. QED  BY <2>2, <2>3
<1>11. Tx'  BY TxSame DEF AtHome
<1>12. AtHome(n + 1)'  BY <1>2, <1>3, <1>7, <1>8, <1>9, <1>10, <1>11 DEF AtHome
<1>13. Kept'  BY <1>2, <1>6, <1>8 DEF Kept, Unlogged, AtHome
<1>. QED  BY <1>12, <1>13

\* The write that empties the header (Clear, Reclear).
LEMMA ClearWritten ==
  ASSUME Device, Ops, Kept, AtClear, Written(Header, Empty),
         UNCHANGED <<tx, asked, answered>>, faults'["restart"] = faults["restart"]
  PROVE  AtCleared' /\ Kept'
<1>1. asked \in Volumes /\ IsTx(tx, answered, asked)  BY DEF AtClear, Tx, Ops
<1>2. DOMAIN tx \subseteq LogBlocks  BY <1>1, TxFacts
<1>3. /\ dur' = dur /\ Durable' = Durable /\ cur'[Header] = Empty
      /\ \A x \in Locs : x # Header => cur'[x] = cur[x] /\ pend'[x] = pend[x]
      /\ \A i \in DOMAIN pend'[Header] :
           pend'[Header][i] = Empty \/ (i \in DOMAIN pend[Header] /\ pend'[Header][i] = pend[Header][i])
  BY Locations, WrittenFacts
<1>4. Pending({Header})'  BY <1>3 DEF Pending, AtClear
<1>5. Outcomes({Empty, Torn, tx})'
  <2>1. SUFFICES ASSUME faults["restart"] = 0
                 PROVE  /\ dur'[Header] \in {Empty, Torn, tx}
                        /\ \A i \in DOMAIN pend'[Header] : pend'[Header][i] \in {Empty, Torn, tx}
    BY DEF Outcomes
  <2>2. pend[Header] = <<>> /\ dur[Header] = tx  BY <2>1, Locations DEF AtClear, Pending
  <2>3. DOMAIN pend[Header] = {}  BY <2>2
  <2>. QED  BY <1>3, <2>2, <2>3
<1>6. \A i \in DOMAIN tx : cur'[i] = cur[i]  BY <1>2, <1>3, Locations
<1>7. \A b \in Body : cur'[b] = cur[b]  BY <1>3, Locations
<1>8. Whole(cur', asked) /\ InLog(cur', tx, asked)  BY <1>6, <1>7 DEF AtClear, Whole, InLog, Body
<1>9. Tx'  BY TxSame DEF AtClear
<1>10. AtCleared'  BY <1>3, <1>4, <1>5, <1>8, <1>9 DEF AtCleared
<1>11. Volume' = asked  BY <1>1, <1>8, WholeVolume DEF Volume
<1>12. Kept'  BY <1>3, <1>11 DEF Kept, Unlogged, AtClear
<1>. QED  BY <1>10, <1>12

\* The same after a torn header, which has nothing to copy (Reclear).
LEMMA TornWritten ==
  ASSUME Device, Ops, Kept, AtTorn({}, Torn), Written(Header, Empty),
         UNCHANGED <<tx, asked, answered>>, faults'["restart"] = faults["restart"]
  PROVE  AtTorn({Header}, Empty)' /\ Kept'
<1>3. /\ dur' = dur /\ Durable' = Durable /\ cur'[Header] = Empty
      /\ \A x \in Locs : x # Header => cur'[x] = cur[x] /\ pend'[x] = pend[x]
      /\ \A i \in DOMAIN pend'[Header] :
           pend'[Header][i] = Empty \/ (i \in DOMAIN pend[Header] /\ pend'[Header][i] = pend[Header][i])
  BY Locations, WrittenFacts
<1>4. Pending({Header})'  BY <1>3 DEF Pending, AtTorn
<1>5. Outcomes({Empty, Torn})'
  <2>1. SUFFICES ASSUME faults["restart"] = 0
                 PROVE  /\ dur'[Header] \in {Empty, Torn}
                        /\ \A i \in DOMAIN pend'[Header] : pend'[Header][i] \in {Empty, Torn}
    BY DEF Outcomes
  <2>2. pend[Header] = <<>> /\ dur[Header] \in {Empty, Torn}
    BY <2>1, Locations DEF AtTorn, Pending, Outcomes
  <2>3. DOMAIN pend[Header] = {}  BY <2>2
  <2>. QED  BY <1>3, <2>2, <2>3
<1>7. \A b \in Body : cur'[b] = cur[b]  BY <1>3, Locations
<1>8. Settled(cur)'  BY <1>7 DEF AtTorn, Settled, Whole
<1>9. AtTorn({Header}, Empty)'  BY <1>3, <1>4, <1>5, <1>8 DEF AtTorn
<1>10. Volume' = Volume  BY <1>7 DEF Volume, Body
<1>11. Kept'  BY <1>3, <1>10 DEF Kept, Unlogged, AtTorn
<1>. QED  BY <1>9, <1>11

----------------------------------------------------------------------------
(* Syncs, mounts and faults. *)

\* A sync keeps a volume that can be recovered.
LEMMA SyncKept ==
  ASSUME Device, Ops, Recoverable(cur), Synced, UNCHANGED <<answered, asked>> \/ Unlogged(cur)
  PROVE  Kept'
<1>1. cur' = cur /\ Durable' = Served(cur) /\ Volume' = Volume  BY SyncedFacts DEF Volume
<1>2. CASE Unlogged(cur)  BY <1>1, <1>2, ServedRecoverable DEF Kept, Volume
<1>3. CASE ~Unlogged(cur)
  <2>1. Served(cur) = asked  BY <1>3, ServedRecoverable
  <2>. QED  BY <1>1, <1>3, <2>1 DEF Kept
<1>. QED  BY <1>2, <1>3

\* A mount takes the volume the device holds for the one answered.
LEMMA ServeFacts ==
  ASSUME Ops, Settled(cur), Serve
  PROVE  Ops' /\ Whole(cur, answered')
<1>1. Volume = [b \in Blocks |-> cur[b]]  BY DEF Volume
<1>2. answered' = (IF Volume = asked THEN asked ELSE answered) /\ asked' = None  BY DEF Serve
<1>3. answered \in Volumes /\ (asked \in Volumes \/ asked = None) /\ None \notin Volumes
  BY WalAssumption DEF Ops, Volumes
<1>4. CASE Whole(cur, answered)
  <2>1. Volume = answered  BY <1>1, <1>3, <1>4, WholeVolume
  <2>. QED  BY <2>1, <1>2, <1>3, <1>4 DEF Ops
<1>5. CASE asked # None /\ Whole(cur, asked)
  <2>1. Volume = asked  BY <1>1, <1>3, <1>5, WholeVolume
  <2>. QED  BY <2>1, <1>2, <1>3, <1>5 DEF Ops
<1>. QED  BY <1>4, <1>5 DEF Settled

\* What each block may hold after power loss: what was durable, what was written
\* since, or, where something was written, neither.
LEMMA Landing ==
  ASSUME Device, Power
  PROVE  /\ cur' = dur' /\ Device'
         /\ \A b \in Locs : IF pend[b] = <<>> THEN dur'[b] = dur[b]
                            ELSE dur'[b] \in {dur[b], Torn} \cup {pend[b][i] : i \in DOMAIN pend[b]}
         /\ \A b \in Locs : pend'[b] = <<>>
<1>. DEFINE top == 1 + Max({0} \cup {Len(pend[b]) : b \in Unsynced})
<1>1. /\ cur' = dur' /\ pend' = [b \in Locs |-> <<>>]
      /\ \E n \in [Unsynced -> 0 .. top] :
           dur' = [b \in Locs |-> IF b \in Unsynced THEN Landed(b, n[b]) ELSE dur[b]]
  BY DEF Power
<1>. HIDE DEF top
<1>2. PICK n \in [Unsynced -> 0 .. top] :
        dur' = [b \in Locs |-> IF b \in Unsynced THEN Landed(b, n[b]) ELSE dur[b]]
  BY <1>1
<1>3. ASSUME NEW b \in Locs
      PROVE  IF pend[b] = <<>> THEN dur'[b] = dur[b]
             ELSE dur'[b] \in {dur[b], Torn} \cup {pend[b][i] : i \in DOMAIN pend[b]}
  <2>1. CASE b \notin Unsynced  BY <2>1, <1>2 DEF Unsynced
  <2>2. CASE b \in Unsynced
    <3>1. pend[b] # <<>> /\ dur'[b] = Landed(b, n[b])  BY <2>2, <1>2 DEF Unsynced
    <3>2. n[b] \in 0 .. top  BY <2>2
    <3>3. n[b] \in Nat  BY <3>2
    <3>4. PICK s : s = pend[b]  OBVIOUS
    <3>5. s \in Seq(Range(s))  BY <3>4 DEF Device
    <3>6. Len(s) \in Nat /\ DOMAIN s = 1 .. Len(s)  BY <3>5, LenProperties
    <3>7. n[b] # 0 /\ ~(n[b] > Len(s)) => n[b] \in DOMAIN s  BY <3>3, <3>6
    <3>. QED  BY <3>1, <3>4, <3>7 DEF Landed
  <2>. QED  BY <2>1, <2>2
<1>4. <<>> \in Seq(Range(<<>>))  OBVIOUS
<1>5. dur' = [b \in Locs |-> dur'[b]]  BY <1>2
<1>6. Device'  BY <1>1, <1>4, <1>5 DEF Device
<1>. QED  BY <1>1, <1>3, <1>6

\* After power loss, the device can be recovered to the volume that was durable,
\* or to the one of the operation under way.
LEMMA PowerLands ==
  ASSUME Device, Ops, Kept, Shape, Power, faults["restart"] = 0
  PROVE  Recoverable(dur') /\ (Served(dur') = Durable \/ (asked # None /\ Served(dur') = asked))
<1>. DEFINE d == dur'
<1>1. \A b \in Locs : IF pend[b] = <<>> THEN d[b] = dur[b]
                      ELSE d[b] \in {dur[b], Torn} \cup {pend[b][i] : i \in DOMAIN pend[b]}
  BY Landing
<1>2. ASSUME NEW S, Pending(S), NEW b \in Locs \ S  PROVE d[b] = cur[b]
  BY <1>1, <1>2 DEF Pending
<1>. HIDE DEF d
<1>3. CASE LogLost
  <2>1. d[Header] = cur[Header] /\ \A b \in Body : d[b] = cur[b]
    BY <1>2, <1>3, Locations DEF LogLost
  <2>2. Unlogged(d) /\ Settled(d)  BY <2>1, <1>3 DEF LogLost, Unlogged, Settled, Whole
  <2>3. Recoverable(d)  BY <2>2 DEF Recoverable
  <2>4. Served(d) = [b \in Blocks |-> d[b]]  BY <2>2, ServedUnlogged
  <2>5. [b \in Blocks |-> d[b]] = Volume  BY <2>1 DEF Body, Volume
  <2>6. Durable = Volume  BY <1>3 DEF LogLost, Kept
  <2>. QED  BY <2>3, <2>4, <2>5, <2>6 DEF d
<1>4. CASE HeaderLost
  <2>1. \A b \in Locs : b # Header => d[b] = cur[b]  BY <1>2, <1>4 DEF HeaderLost
  <2>2. d[Header] \in {Empty, Torn, tx}  BY <1>1, <1>4, Locations DEF HeaderLost, Outcomes
  <2>. DEFINE e == [cur EXCEPT ![Header] = d[Header]]
  <2>3. Recoverable(e)  BY <2>2, <1>4 DEF HeaderLost
  <2>4. \A b \in Locs : e[b] = d[b]  BY <2>1, Locations DEF Device
  <2>. HIDE DEF e
  <2>5. Recoverable(d)  BY <2>3, <2>4, SameRecoverable DEF Ops
  <2>6. CASE Unlogged(d)
    <3>1. Served(d) = [b \in Blocks |-> d[b]]  BY <2>6, ServedUnlogged
    <3>2. [b \in Blocks |-> d[b]] = Volume  BY <2>1, Locations DEF Body, Volume
    <3>3. Durable = Volume  BY <1>4 DEF HeaderLost
    <3>. QED  BY <3>1, <3>2, <3>3, <2>5 DEF d
  <2>7. CASE ~Unlogged(d)
    <3>1. Served(d) = asked /\ asked # None  BY <2>5, <2>7, ServedRecoverable
    <3>. QED  BY <3>1, <2>5 DEF d
  <2>. QED  BY <2>6, <2>7
<1>5. CASE HomesLost
  <2>1. asked \in Volumes /\ asked # None  BY <1>5 DEF HomesLost, Ops
  <2>2. PICK es : es = cur[Header]  OBVIOUS
  <2>3. IsTx(es, answered, asked) /\ InLog(cur, es, asked)  BY <1>5, <2>2 DEF HomesLost, Logged
  <2>4. /\ Header \notin Homes(es) /\ DOMAIN es \subseteq LogBlocks
        /\ Homes(es) \cap LogBlocks = {}
    BY <2>1, <2>3, TxFacts
  <2>5. \A b \in Locs \ Homes(es) : d[b] = cur[b]  BY <1>2, <1>5, <2>2 DEF HomesLost
  <2>6. d[Header] = es  BY <2>2, <2>4, <2>5, Locations
  <2>7. InLog(d, es, asked)  BY <2>3, <2>4, <2>5, Locations DEF InLog, Body
  <2>8. Recoverable(d) /\ ~Unlogged(d)  BY <2>1, <2>3, <2>6, <2>7, LoggedRecoverable
  <2>9. Served(d) = asked  BY <2>8, ServedRecoverable
  <2>. QED  BY <2>1, <2>8, <2>9 DEF d
<1>. QED  BY <1>3, <1>4, <1>5 DEF Shape

\* Nothing about a poisoned volume changes while its device, its transaction and
\* the volumes asked for and answered stay.
LEMMA ShapeSame ==
  ASSUME Shape, UNCHANGED <<cur, dur, pend, tx, asked, answered>>, faults'["restart"] = faults["restart"]
  PROVE  Shape'
<1>1. Durable' = Durable /\ Volume' = Volume  BY DEF Durable, Volume
<1>2. Recoverable(cur)'  BY DEF Shape, Recoverable, Settled
<1>3. CASE LogLost
  <2>1. LogLost'  BY <1>3 DEF LogLost, Pending, Settled
  <2>. QED  BY <2>1, <1>2 DEF Shape
<1>4. CASE HeaderLost
  <2>1. Pending({Header})' /\ Outcomes({Empty, Torn, tx})'
    BY <1>4 DEF HeaderLost, Pending, Outcomes
  <2>2. (\A x \in {Empty, Torn, tx} : Recoverable([cur EXCEPT ![Header] = x]))'
    BY <1>4 DEF HeaderLost, Recoverable, Settled
  <2>3. HeaderLost'  BY <1>1, <1>4, <2>1, <2>2 DEF HeaderLost
  <2>. QED  BY <2>3, <1>2 DEF Shape
<1>5. CASE HomesLost
  <2>1. HomesLost'  BY <1>5 DEF HomesLost, Pending
  <2>. QED  BY <2>1, <1>2 DEF Shape
<1>. QED  BY <1>3, <1>4, <1>5 DEF Shape

\* A fault counts one of its kind, and keeps to one of the sets of kinds.
LEMMA FaultFacts ==
  ASSUME Separate, faults \in [Kinds -> Nat], NEW kind \in Kinds, Fault(kind)
  PROVE  /\ faults' \in [Kinds -> Nat] /\ NotBoth' /\ faults'[kind] > 0
         /\ \A x \in Kinds : x # kind => faults'[x] = faults[x]
<1>1. faults' = [faults EXCEPT ![kind] = faults[kind] + 1]  BY DEF Fault
<1>2. PICK F \in FaultSets : {x \in Kinds : faults'[x] > 0} \subseteq F  BY DEF Fault
<1>3. ~({"power", "restart"} \subseteq F)  BY DEF Separate
<1>4. NotBoth'  BY <1>2, <1>3 DEF NotBoth, Kinds
<1>. QED  BY <1>1, <1>4

----------------------------------------------------------------------------
(* Every step keeps the invariant. *)

\* The formatted volume is as it should be.
LEMMA InitInv == Init => WalInv
<1>. SUFFICES ASSUME Init PROVE WalInv  OBVIOUS
<1>1. cur = [b \in Locs |->
               CASE b = Hash -> [c \in Blocks |-> 0] [] b = Header -> Empty
                 [] b \in Blocks -> 0 [] OTHER -> Torn]
      /\ dur = cur /\ pend = [b \in Locs |-> <<>>] /\ pc = "ready" /\ asked = None /\ hashes = None
      /\ answered = [b \in Blocks |-> 0] /\ seq = 0 /\ faults = [x \in Kinds |-> 0]
  BY DEF Init
<1>2. cur[Hash] = answered  BY <1>1, Locations DEF Body
<1>3. cur[Header] = Empty  BY <1>1, Locations DEF Body
<1>4. \A b \in Blocks : cur[b] = 0  BY <1>1, Locations DEF Body
<1>5. 0 \in Versions  BY WalAssumption DEF Versions
<1>6. Whole(cur, answered)  BY <1>1, <1>2, <1>4 DEF Whole, Content, Body
<1>7. Ops  BY <1>1, <1>5 DEF Ops, Volumes
<1>8. <<>> \in Seq(Range(<<>>))  OBVIOUS
<1>9. Device
  <2>1. cur = [b \in Locs |-> cur[b]]  BY <1>1
  <2>. QED  BY <1>1, <1>8, <2>1 DEF Device
<1>10. WalTypes  BY <1>1, <1>5, <1>7, <1>9 DEF WalTypes, Places
<1>11. NotBoth  BY <1>1 DEF NotBoth, Kinds
<1>12. AtReady  BY <1>1, <1>3, <1>6 DEF AtReady, Pending
<1>13. Place  BY <1>1, <1>12 DEF Place
<1>14. Kept
  <2>1. Recoverable(cur)  BY <1>3, <1>6 DEF Recoverable, Unlogged, Settled
  <2>2. Durable = Served(cur)  BY <1>1, DurableServed
  <2>. QED  BY <2>1, <2>2, <1>7, KeptServed
<1>. QED  BY <1>10, <1>11, <1>13, <1>14 DEF WalInv

\* A served volume reads as what was answered.
LEMMA ReadyReadable ==
  ASSUME Ops, AtReady  PROVE Slots = answered /\ cur[Hash] = answered /\ \A b \in Blocks : Readable(b)
<1>1. cur[Hash] = answered /\ \A b \in Blocks : cur[b] = answered[b]
  BY Locations DEF AtReady, Whole, Content, Body
<1>2. Slots = answered  BY <1>1 DEF AtReady, Slots
<1>3. answered # Torn  BY WalAssumption DEF Ops, Volumes
<1>. QED  BY <1>1, <1>2, <1>3 DEF Readable

\* An operation begins.
LEMMA OpInv == ASSUME WalInv, NEW S \in SUBSET Blocks, Op(S)  PROVE WalInv'
<1>1. Device /\ Ops /\ AtReady /\ Kept /\ NotBoth /\ seq \in Versions /\ faults \in [Kinds -> Nat]
  BY DEF WalInv, WalTypes, Place, Op
<1>2. /\ seq < MaxTx /\ hashes' = Slots /\ tx' = Transaction(S) /\ k' = 0 /\ seq' = seq + 1 /\ pc' = "log"
      /\ asked' = [b \in Blocks |-> IF b \in S THEN seq + 1 ELSE answered[b]]
      /\ UNCHANGED <<cur, dur, pend, answered, faults>>
  BY DEF Op, diskVars
<1>3. seq \in Nat /\ seq + 1 \in Versions  BY <1>1, <1>2, WalAssumption DEF Versions
<1>4. cur[Hash] = answered /\ answered \in Volumes  BY <1>1, ReadyReadable DEF Ops
<1>5. asked' \in Volumes /\ IsTx(tx', answered, asked')  BY <1>2, <1>3, <1>4, TransactionIsTx
<1>6. Len(tx') \in Nat  BY <1>5, TxFacts
<1>7. None \notin Volumes  BY WalAssumption DEF Volumes
<1>8. Tx'  BY <1>2, <1>5, <1>7 DEF Tx
<1>9. Pending(LogBlocks)' /\ cur'[Header] = Empty /\ Whole(cur', answered')
  BY <1>1, <1>2 DEF AtReady, Pending
<1>10. AtLog(k)'  BY <1>2, <1>6, <1>8, <1>9 DEF AtLog
<1>11. Place'  BY <1>2, <1>10 DEF Place
<1>12. WalTypes'  BY <1>1, <1>2, <1>3, <1>5 DEF WalTypes, Device, Ops, Places
<1>13. Kept'
  <2>1. Unlogged(cur)  BY <1>1 DEF AtReady, Unlogged
  <2>2. Durable' = Durable /\ Volume' = Volume  BY <1>2 DEF Durable, Volume
  <2>. QED  BY <2>1, <2>2, <1>1, <1>2 DEF Kept
<1>14. NotBoth'  BY <1>1, <1>2 DEF NotBoth
<1>. QED  BY <1>11, <1>12, <1>13, <1>14 DEF WalInv

\* A block is read: its slot always matches it.
LEMMA ReadInv == ASSUME WalInv, NEW b \in Blocks, Read(b)  PROVE WalInv'
<1>1. Device /\ Ops /\ AtReady /\ Kept /\ NotBoth /\ WalTypes /\ pc = "ready"
  BY DEF WalInv, WalTypes, Place, Read
<1>2. hashes' = answered /\ pc' = "ready" /\ UNCHANGED <<cur, dur, pend, tx, k, asked, answered, seq, faults>>
  BY <1>1, ReadyReadable DEF Read, diskVars
<1>3. AtReady'  BY <1>1, <1>2 DEF AtReady, Pending
<1>4. Place'  BY <1>2, <1>3 DEF Place
<1>5. WalTypes'  BY <1>1, <1>2 DEF WalTypes, Device, Ops, Places
<1>6. Durable' = Durable /\ Volume' = Volume  BY <1>2 DEF Durable, Volume
<1>7. Kept' /\ NotBoth'  BY <1>1, <1>2, <1>6 DEF Kept, NotBoth
<1>. QED  BY <1>4, <1>5, <1>7 DEF WalInv

\* A write of a step: the rest of the invariant follows from the place it leads to.
LEMMA WriteInv ==
  ASSUME WalInv, NEW b \in Locs, NEW c, Written(b, c), pc' \in Places, Place', Kept',
         UNCHANGED <<asked, answered, seq, faults>>
  PROVE  WalInv'
<1>1. Device /\ Ops /\ NotBoth /\ seq \in Versions /\ faults \in [Kinds -> Nat]
  BY DEF WalInv, WalTypes
<1>2. Device'  BY <1>1, WrittenFacts
<1>3. WalTypes' /\ NotBoth'  BY <1>1, <1>2 DEF WalTypes, Ops, NotBoth
<1>. QED  BY <1>3 DEF WalInv

\* A sync of a step, likewise; it leaves nothing pending.
LEMMA SyncInv ==
  ASSUME WalInv, Synced, Recoverable(cur), UNCHANGED <<answered, asked>> \/ Unlogged(cur), Ops', pc' \in Places,
         Place', UNCHANGED <<seq, faults>>
  PROVE  WalInv'
<1>1. Device /\ Ops /\ NotBoth /\ seq \in Versions /\ faults \in [Kinds -> Nat]
  BY DEF WalInv, WalTypes
<1>2. Device'  BY <1>1, SyncedFacts
<1>3. Kept'  BY <1>1, SyncKept
<1>4. WalTypes' /\ NotBoth'  BY <1>1, <1>2 DEF WalTypes, NotBoth
<1>. QED  BY <1>3, <1>4 DEF WalInv

\* Once everything is synced, no power loss changes anything.
LEMMA SyncPending == ASSUME Device, Synced, NEW S  PROVE Pending(S)'
<1>1. cur' = cur /\ dur' = cur /\ \A x \in Locs : pend'[x] = <<>>  BY SyncedFacts
<1>. QED  BY <1>1 DEF Pending

\* A block of the transaction goes to the log.
LEMMA WriteLogInv == ASSUME WalInv, WriteLog  PROVE WalInv'
<1>1. Device /\ Ops /\ AtLog(k) /\ Kept  BY DEF WalInv, WalTypes, Place, WriteLog
<1>2. PICK n : n = k  OBVIOUS
<1>3. AtLog(n) /\ n < Len(tx) /\ Written(n + 1, tx[n + 1].data) /\ k' = n + 1
      /\ pc' = "log" /\ UNCHANGED <<tx, asked, answered, seq, faults>>
  BY <1>1, <1>2 DEF WriteLog
<1>4. AtLog(n + 1)' /\ Kept'  BY <1>1, <1>3, LogWritten
<1>5. AtLog(k)'  BY <1>3, <1>4 DEF AtLog
<1>6. Place'  BY <1>3, <1>5 DEF Place
<1>7. n + 1 \in Locs
  <2>1. asked \in Volumes /\ IsTx(tx, answered, asked) /\ n \in 0 .. Len(tx)  BY <1>1, <1>3 DEF AtLog, Tx, Ops
  <2>2. Len(tx) \in Nat /\ DOMAIN tx = 1 .. Len(tx) /\ DOMAIN tx \subseteq LogBlocks  BY <2>1, TxFacts
  <2>. QED  BY <1>3, <2>1, <2>2, Locations
<1>. QED  BY <1>3, <1>4, <1>6, <1>7, WriteInv DEF Places

\* The log's blocks are synced.
LEMMA SyncLogInv == ASSUME WalInv, SyncLog  PROVE WalInv'
<1>1. Device /\ Ops /\ AtLog(k) /\ Kept  BY DEF WalInv, WalTypes, Place, SyncLog
<1>2. k = Len(tx) /\ Synced /\ pc' = "head" /\ UNCHANGED <<tx, asked, answered, seq, faults>>
  BY DEF SyncLog
<1>3. Pending({})' /\ Pending(LogBlocks)' /\ cur' = cur  BY <1>1, <1>2, SyncPending, SyncedFacts
<1>4. Tx'  BY <1>1, <1>2, TxSame DEF AtLog
<1>5. AtHead'  BY <1>1, <1>2, <1>3, <1>4 DEF AtHead, AtLog
<1>6. Place'  BY <1>2, <1>5 DEF Place
<1>7. Recoverable(cur)  BY <1>1, ShapeOf DEF Shape
<1>8. Ops'  BY <1>1, <1>2 DEF Ops
<1>. QED  BY <1>2, <1>6, <1>7, <1>8, SyncInv DEF Places

\* The header is written.
LEMMA WriteHeaderInv == ASSUME WalInv, WriteHeader  PROVE WalInv'
<1>1. Device /\ Ops /\ AtHead /\ Kept  BY DEF WalInv, WalTypes, Place, WriteHeader
<1>2. Written(Header, tx) /\ pc' = "commit" /\ UNCHANGED <<tx, asked, answered, seq, faults>>
  BY DEF WriteHeader
<1>3. AtCommit' /\ Kept'  BY <1>1, <1>2, HeaderWritten
<1>4. Place'  BY <1>2, <1>3 DEF Place
<1>. QED  BY <1>2, <1>3, <1>4, Locations, WriteInv DEF Places

\* The header is synced: the transaction is committed.
LEMMA CommitInv == ASSUME WalInv, Commit  PROVE WalInv'
<1>1. Device /\ Ops /\ AtCommit /\ Kept  BY DEF WalInv, WalTypes, Place, Commit
<1>2. Synced /\ pc' = "home" /\ k' = 0 /\ UNCHANGED <<tx, asked, answered, seq, faults>>
  BY DEF Commit
<1>3. cur' = cur  BY <1>1, <1>2, SyncedFacts
<1>4. PICK H : H = Homes(tx)  OBVIOUS
<1>5. Pending(H)'  BY <1>1, <1>2, SyncPending
<1>6. Pending(Homes(tx))'  BY <1>2, <1>4, <1>5 DEF Pending
<1>7. Tx'  BY <1>1, <1>2, TxSame DEF AtCommit
<1>8. Len(tx) \in Nat  BY <1>1, TxFacts DEF AtCommit, Tx, Ops
<1>9. AtHome(k)'  BY <1>1, <1>2, <1>3, <1>6, <1>7, <1>8 DEF AtHome, AtCommit
<1>10. Place'  BY <1>2, <1>9 DEF Place
<1>11. Recoverable(cur)  BY <1>1, ShapeOf DEF Shape
<1>12. Ops'  BY <1>1, <1>2 DEF Ops
<1>. QED  BY <1>2, <1>10, <1>11, <1>12, SyncInv DEF Places

\* Once every block is home, the device holds the new volume.
LEMMA HomeSynced ==
  ASSUME Device, Ops, AtHome(Len(tx)), Synced, UNCHANGED <<tx, asked, answered>>
  PROVE  AtClear'
<1>1. asked \in Volumes /\ asked # None /\ IsTx(tx, answered, asked)  BY DEF AtHome, Tx, Ops
<1>2. /\ DOMAIN tx = 1 .. Len(tx)
      /\ \A i \in DOMAIN tx : tx[i].home \in Homes(tx) /\ tx[i].data = Content(asked, tx[i].home)
  BY <1>1, TxFacts
<1>3. ASSUME NEW b \in Body  PROVE cur[b] = Content(asked, b)
  <2>1. CASE b \in Homes(tx)
    <3>1. PICK i \in DOMAIN tx : tx[i].home = b  BY <2>1 DEF Homes
    <3>. QED  BY <3>1, <1>2 DEF AtHome
  <2>2. CASE b \notin Homes(tx)
    <3>1. b \in Blocks \ Homes(tx) /\ b # Hash  BY <2>2, <1>1, Locations DEF IsTx, Body
    <3>2. cur[b] = asked[b]  BY <3>1 DEF AtHome, InLog
    <3>. QED  BY <3>1, <3>2 DEF Content
  <2>. QED  BY <2>1, <2>2
<1>4. Whole(cur, asked)  BY <1>3 DEF Whole
<1>5. cur' = cur /\ Durable' = Served(cur) /\ Pending({})'  BY SyncedFacts, SyncPending
<1>6. Served(cur) = asked
  <2>1. Logged(cur, answered, asked)  BY <1>1 DEF AtHome, Logged
  <2>. QED  BY <2>1, <1>1, ServedLogged
<1>7. Tx'  BY TxSame DEF AtHome
<1>. QED  BY <1>4, <1>5, <1>6, <1>7 DEF AtClear, AtHome

\* A write of a block home, by the transaction or by recovery.
LEMMA HomeWriteInv ==
  ASSUME WalInv, NEW n, AtHome(n), n < Len(tx), Written(tx[n + 1].home, tx[n + 1].data), k' = n + 1,
         pc' \in {"home", "rehome"}, UNCHANGED <<tx, asked, answered, seq, faults>>
  PROVE  WalInv'
<1>1. Device /\ Ops /\ Kept  BY DEF WalInv, WalTypes
<1>2. AtHome(n + 1)' /\ Kept'  BY <1>1, HomeWritten
<1>3. AtHome(k)'  BY <1>2 DEF AtHome
<1>4. Place'  BY <1>3 DEF Place
<1>5. tx[n + 1].home \in Locs
  <2>1. asked \in Volumes /\ IsTx(tx, answered, asked) /\ n \in 0 .. Len(tx)  BY <1>1 DEF AtHome, Tx, Ops
  <2>2. Len(tx) \in Nat /\ DOMAIN tx = 1 .. Len(tx) /\ \A i \in DOMAIN tx : tx[i].home \in Body
    BY <2>1, TxFacts
  <2>3. n + 1 \in DOMAIN tx  BY <2>1, <2>2
  <2>. QED  BY <2>2, <2>3, Locations
<1>. QED  BY <1>2, <1>4, <1>5, WriteInv DEF Places

\* A block of the transaction goes home.
LEMMA WriteHomeInv == ASSUME WalInv, WriteHome  PROVE WalInv'
<1>1. AtHome(k)  BY DEF WalInv, Place, WriteHome
<1>2. PICK n : n = k  OBVIOUS
<1>. QED  BY <1>1, <1>2, HomeWriteInv DEF WriteHome

\* The blocks that went home are synced.
LEMMA SyncHomeInv == ASSUME WalInv, SyncHome  PROVE WalInv'
<1>1. Device /\ Ops /\ AtHome(k) /\ Kept  BY DEF WalInv, WalTypes, Place, SyncHome
<1>2. Synced /\ k = Len(tx) /\ pc' = "clear" /\ UNCHANGED <<tx, asked, answered, seq, faults>>
  BY DEF SyncHome
<1>3. AtHome(Len(tx))  BY <1>1, <1>2
<1>4. AtClear'  BY <1>1, <1>2, <1>3, HomeSynced
<1>5. Place'  BY <1>2, <1>4 DEF Place
<1>6. Recoverable(cur)  BY <1>1, ShapeOf DEF Shape
<1>7. Ops'  BY <1>1, <1>2 DEF Ops
<1>. QED  BY <1>2, <1>5, <1>6, <1>7, SyncInv DEF Places

\* The header is emptied.
LEMMA ClearInv == ASSUME WalInv, Clear  PROVE WalInv'
<1>1. Device /\ Ops /\ AtClear /\ Kept  BY DEF WalInv, WalTypes, Place, Clear
<1>2. Written(Header, Empty) /\ pc' = "cleared" /\ UNCHANGED <<tx, asked, answered, seq, faults>>
  BY DEF Clear
<1>3. AtCleared' /\ Kept'  BY <1>1, <1>2, ClearWritten
<1>4. Place'  BY <1>2, <1>3 DEF Place
<1>. QED  BY <1>2, <1>3, <1>4, Locations, WriteInv DEF Places

\* The emptied header is synced and the operation answered: the volume is the one it asked for.
LEMMA DoneInv == ASSUME WalInv, Done  PROVE WalInv'
<1>1. Device /\ Ops /\ AtCleared /\ Kept  BY DEF WalInv, WalTypes, Place, Done
<1>2. Synced /\ pc' = "ready" /\ answered' = asked /\ asked' = None /\ hashes' = None /\ UNCHANGED <<seq, faults>>
  BY DEF Done
<1>3. cur' = cur /\ Pending({})'  BY <1>1, <1>2, SyncedFacts, SyncPending
<1>4. AtReady'  BY <1>1, <1>2, <1>3 DEF AtReady, AtCleared
<1>5. Place'  BY <1>2, <1>4 DEF Place
<1>6. Recoverable(cur) /\ Unlogged(cur)  BY <1>1, ShapeOf DEF Shape, AtCleared, Unlogged
<1>7. Ops'  BY <1>1, <1>2 DEF Ops, AtCleared, Tx
<1>. QED  BY <1>2, <1>5, <1>6, <1>7, SyncInv DEF Places

\* The mount of a volume with nothing to recover.
LEMMA MountCleanInv == ASSUME WalInv, MountClean  PROVE WalInv'
<1>1. Device /\ Ops /\ Kept /\ NotBoth /\ Pending({}) /\ Recoverable(cur) /\ cur[Header] = Empty
      /\ seq \in Versions /\ faults \in [Kinds -> Nat]
  BY DEF WalInv, WalTypes, Place, MountClean
<1>2. Serve /\ pc' = "ready" /\ asked' = None /\ hashes' = None /\ UNCHANGED <<cur, dur, pend, seq, faults>>
  BY DEF MountClean, Serve, diskVars
<1>3. Unlogged(cur) /\ Settled(cur)  BY <1>1 DEF Recoverable, Unlogged
<1>4. Ops' /\ Whole(cur', answered')  BY <1>1, <1>2, <1>3, ServeFacts
<1>5. AtReady'  BY <1>1, <1>2, <1>4 DEF AtReady, Pending
<1>6. Place'  BY <1>2, <1>5 DEF Place
<1>7. WalTypes'  BY <1>1, <1>2, <1>4 DEF WalTypes, Device, Places
<1>8. Durable' = Durable /\ Volume' = Volume  BY <1>2 DEF Durable, Volume
<1>9. Kept' /\ NotBoth'  BY <1>1, <1>2, <1>3, <1>8 DEF Kept, NotBoth
<1>. QED  BY <1>6, <1>7, <1>9 DEF WalInv

\* A recovery: the log is whole whenever the header says so.
LEMMA RecoverInv == ASSUME WalInv, Recover  PROVE WalInv' /\ pc' = "rehome"
<1>1. Device /\ Ops /\ Kept /\ NotBoth /\ Pending({}) /\ Recoverable(cur) /\ cur[Header] # Empty
      /\ seq \in Versions /\ faults \in [Kinds -> Nat]
  BY DEF WalInv, WalTypes, Place, Recover
<1>2. /\ LogMatches => pc' = "rehome" /\ tx' = Entries /\ k' = 0
      /\ UNCHANGED <<cur, dur, pend, asked, answered, seq, faults>>
  BY DEF Recover, diskVars
<1>3. pc' = "rehome" => WalTypes' /\ NotBoth' /\ Kept'
  <2>1. Durable' = Durable /\ Volume' = Volume  BY <1>2 DEF Durable, Volume
  <2>. QED  BY <1>1, <1>2, <2>1 DEF WalTypes, Device, Ops, Places, NotBoth, Kept
<1>4. CASE cur[Header] = Torn
  <2>1. Entries = <<>> /\ DOMAIN Entries = {}  BY <1>4 DEF Entries, Empty
  <2>2. LogMatches  BY <2>1 DEF LogMatches
  <2>3. Settled(cur)  BY <1>1, <1>4 DEF Recoverable, Unlogged
  <2>4. Outcomes({Empty, Torn})'  BY <1>1, <1>2, <1>4, Locations DEF Outcomes, Pending
  <2>5. AtTorn({}, Torn)' /\ k' = 0
    BY <1>1, <1>2, <1>4, <2>1, <2>2, <2>3, <2>4 DEF AtTorn, Pending, Settled, Empty
  <2>6. Place'  BY <1>2, <2>2, <2>5 DEF Place
  <2>. QED  BY <1>2, <1>3, <2>2, <2>6 DEF WalInv
<1>5. CASE cur[Header] # Torn
  <2>1. ~Unlogged(cur)  BY <1>1, <1>5 DEF Unlogged
  <2>2. PICK es : es = cur[Header]  OBVIOUS
  <2>3. asked # None /\ asked \in Volumes /\ IsTx(es, answered, asked) /\ InLog(cur, es, asked)
    BY <1>1, <2>1, <2>2 DEF Recoverable, Logged, Ops
  <2>4. Entries = es  BY <1>5, <2>2 DEF Entries
  <2>5. LogMatches  BY <2>3, <2>4 DEF LogMatches, InLog
  <2>6. tx' = es /\ k' = 0 /\ pc' = "rehome"  BY <1>2, <2>4, <2>5
  <2>7. Len(es) \in Nat  BY <2>3, TxFacts
  <2>8. Tx'  BY <1>2, <2>3, <2>6 DEF Tx
  <2>9. Pending(Homes(tx))'  BY <1>1, <1>2 DEF Pending
  <2>10. AtHome(k)'  BY <1>2, <2>2, <2>3, <2>6, <2>7, <2>8, <2>9 DEF AtHome
  <2>11. Place'  BY <2>6, <2>10 DEF Place
  <2>. QED  BY <1>3, <2>6, <2>11 DEF WalInv
<1>. QED  BY <1>4, <1>5

\* Recovery copies a block home from the log, which holds what the entry says.
LEMMA RehomeInv == ASSUME WalInv, Rehome  PROVE WalInv'
<1>1. Ops /\ (AtHome(k) \/ (AtTorn({}, Torn) /\ k = 0))  BY DEF WalInv, WalTypes, Place, Rehome
<1>2. k < Len(tx) /\ Written(tx[k + 1].home, cur[k + 1]) /\ k' = k + 1 /\ pc' = "rehome"
      /\ UNCHANGED <<tx, asked, answered, seq, faults>>
  BY DEF Rehome
<1>3. AtHome(k)
  <2>1. CASE AtTorn({}, Torn) /\ k = 0
    <3>1. Len(tx) = 0  BY <2>1 DEF AtTorn, Empty
    <3>. QED  BY <2>1, <3>1, <1>2
  <2>. QED  BY <1>1, <2>1
<1>4. PICK n : n = k  OBVIOUS
<1>5. cur[n + 1] = tx[n + 1].data
  <2>1. asked \in Volumes /\ IsTx(tx, answered, asked) /\ n \in 0 .. Len(tx)
    BY <1>1, <1>3, <1>4 DEF AtHome, Tx, Ops
  <2>2. Len(tx) \in Nat /\ DOMAIN tx = 1 .. Len(tx)  BY <2>1, TxFacts
  <2>3. n + 1 \in DOMAIN tx  BY <2>1, <2>2, <1>2, <1>4
  <2>. QED  BY <2>3, <1>3 DEF AtHome, InLog
<1>. QED  BY <1>2, <1>3, <1>4, <1>5, HomeWriteInv

\* What recovery copied is synced; after a torn header that is nothing.
LEMMA RehomedInv == ASSUME WalInv, Rehomed  PROVE WalInv'
<1>1. Device /\ Ops /\ Kept /\ (AtHome(k) \/ AtTorn({}, Torn))  BY DEF WalInv, WalTypes, Place, Rehomed
<1>2. Synced /\ k = Len(tx) /\ pc' = "reclear" /\ UNCHANGED <<tx, asked, answered, seq, faults>>
  BY DEF Rehomed
<1>3. ASSUME AtHome(k)  PROVE AtClear'
  <2>1. AtHome(Len(tx))  BY <1>2, <1>3
  <2>. QED  BY <1>1, <1>2, <2>1, HomeSynced
<1>4. ASSUME AtTorn({}, Torn)  PROVE AtTorn({}, Torn)'
  <2>1. cur' = cur /\ dur' = cur /\ Pending({})' /\ \A x \in Locs : pend'[x] = <<>>
    BY <1>1, <1>2, SyncedFacts, SyncPending
  <2>2. Outcomes({Empty, Torn})'  BY <1>4, <2>1, Locations DEF Outcomes, AtTorn
  <2>3. AtTorn({}, Torn)'  BY <1>2, <1>4, <2>1, <2>2 DEF AtTorn, Settled
  <2>. QED  BY <2>3
<1>5. Place'  BY <1>1, <1>2, <1>3, <1>4 DEF Place
<1>6. Recoverable(cur)  BY <1>1, ShapeOf DEF Shape
<1>7. Ops'  BY <1>1, <1>2 DEF Ops
<1>. QED  BY <1>2, <1>5, <1>6, <1>7, SyncInv DEF Places

\* Recovery empties the header.
LEMMA ReclearInv == ASSUME WalInv, Reclear  PROVE WalInv'
<1>1. Device /\ Ops /\ Kept /\ (AtClear \/ AtTorn({}, Torn))  BY DEF WalInv, WalTypes, Place, Reclear
<1>2. Written(Header, Empty) /\ pc' = "recleared" /\ UNCHANGED <<tx, asked, answered, seq, faults>>
  BY DEF Reclear
<1>3. (AtCleared' \/ AtTorn({Header}, Empty)') /\ Kept'  BY <1>1, <1>2, ClearWritten, TornWritten
<1>4. Place'  BY <1>2, <1>3 DEF Place
<1>. QED  BY <1>2, <1>3, <1>4, Locations, WriteInv DEF Places

\* The recovered volume is mounted.
LEMMA RecoveredInv == ASSUME WalInv, Recovered  PROVE WalInv'
<1>1. Device /\ Ops /\ Kept /\ (AtCleared \/ AtTorn({Header}, Empty))
  BY DEF WalInv, WalTypes, Place, Recovered
<1>2. Synced /\ Serve /\ pc' = "ready" /\ asked' = None /\ hashes' = None /\ UNCHANGED <<seq, faults>>
  BY DEF Recovered, Serve
<1>3. Unlogged(cur) /\ cur[Header] = Empty /\ Settled(cur)
  BY <1>1 DEF AtCleared, AtTorn, Unlogged, Settled, Tx
<1>4. cur' = cur /\ Pending({})'  BY <1>1, <1>2, SyncedFacts, SyncPending
<1>5. Ops' /\ Whole(cur', answered')  BY <1>1, <1>2, <1>3, <1>4, ServeFacts
<1>6. AtReady'  BY <1>2, <1>3, <1>4, <1>5 DEF AtReady
<1>7. Place'  BY <1>2, <1>6 DEF Place
<1>8. Recoverable(cur)  BY <1>3 DEF Recoverable
<1>. QED  BY <1>2, <1>3, <1>5, <1>7, <1>8, SyncInv DEF Places

\* Wherever walfsd is, before a fault, the device can be recovered.
LEMMA InvShape == ASSUME WalInv  PROVE Shape
<1>1. Device /\ Ops /\ Kept /\ pc \in Places  BY DEF WalInv, WalTypes
<1>2. \/ AtReady \/ (\E n : AtLog(n) \/ AtHome(n)) \/ AtHead \/ AtCommit \/ AtClear \/ AtCleared
      \/ AtTorn({}, Torn) \/ AtTorn({Header}, Empty) \/ (Pending({}) /\ Recoverable(cur)) \/ Shape
  BY <1>1 DEF WalInv, Place, Places
<1>. QED  BY <1>1, <1>2, ShapeOf

\* Power loss leaves a device that can be recovered.
LEMMA PowerInv == ASSUME Separate, WalInv, Power  PROVE WalInv'
<1>1. Device /\ Ops /\ Kept /\ Shape /\ seq \in Versions /\ faults \in [Kinds -> Nat]
  BY InvShape DEF WalInv, WalTypes
<1>2. Fault("power") /\ pc' = "down" /\ UNCHANGED <<asked, answered, seq>>  BY DEF Power, Forgotten
<1>3. faults' \in [Kinds -> Nat] /\ NotBoth' /\ faults'["power"] > 0 /\ faults'["restart"] = faults["restart"]
  BY <1>1, <1>2, FaultFacts DEF Kinds
<1>4. faults["restart"] = 0  BY <1>1, <1>3 DEF NotBoth, Kinds
<1>5. cur' = dur' /\ Device' /\ \A b \in Locs : pend'[b] = <<>>  BY <1>1, Landing
<1>6. Recoverable(dur')  BY <1>1, <1>4, PowerLands
<1>7. Recoverable(cur)'  BY <1>2, <1>5, <1>6 DEF Recoverable, Settled
<1>8. Pending({})'  BY <1>5 DEF Pending
<1>9. Place'  BY <1>2, <1>7, <1>8 DEF Place
<1>10. Ops'  BY <1>1, <1>2 DEF Ops
<1>11. WalTypes'  BY <1>1, <1>2, <1>3, <1>5, <1>10 DEF WalTypes, Places
<1>12. (Durable = Served(cur))'  BY <1>5 DEF Durable, Served
<1>13. Kept'  BY <1>7, <1>10, <1>12, KeptServed, PTL
<1>. QED  BY <1>3, <1>9, <1>11, <1>13 DEF WalInv

\* A restart leaves the device as it was, which can be recovered.
LEMMA RestartInv == ASSUME Separate, WalInv, Restart  PROVE WalInv'
<1>1. WalTypes /\ Kept /\ Shape  BY InvShape DEF WalInv
<1>2. Fault("restart") /\ pc' = "down" /\ UNCHANGED <<cur, dur, pend, asked, answered, seq>>
  BY DEF Restart, Forgotten, diskVars
<1>3. faults' \in [Kinds -> Nat] /\ NotBoth' /\ faults'["restart"] > 0
  BY <1>1, <1>2, FaultFacts DEF Kinds, WalTypes
<1>4. Pending({})'  BY <1>3 DEF Pending
<1>5. Recoverable(cur)'  BY <1>1, <1>2 DEF Shape, Recoverable, Settled
<1>6. Place'  BY <1>2, <1>4, <1>5 DEF Place
<1>7. WalTypes'  BY <1>1, <1>2, <1>3 DEF WalTypes, Device, Ops, Places
<1>8. Durable' = Durable /\ Volume' = Volume  BY <1>2 DEF Durable, Volume
<1>9. Kept'  BY <1>1, <1>2, <1>8 DEF Kept
<1>. QED  BY <1>3, <1>6, <1>7, <1>9 DEF WalInv

\* An I/O error leaves the device as it was, or with the write that failed, as if
\* that step had been made.
LEMMA IoErrorInv == ASSUME Separate, WalInv, IoError  PROVE WalInv'
<1>1. WalTypes /\ Device /\ Ops /\ Kept /\ Shape /\ Place /\ pc \in Places
  BY InvShape DEF WalInv, WalTypes
<1>2. Fault("io") /\ pc' = "poisoned" /\ UNCHANGED <<tx, k, asked, answered, seq>>
      /\ (UNCHANGED diskVars \/ \E w \in NextWrite : Written(w.home, w.data))
  BY DEF IoError
<1>3. faults' \in [Kinds -> Nat] /\ NotBoth' /\ faults'["restart"] = faults["restart"]
  BY <1>1, <1>2, FaultFacts DEF Kinds, WalTypes
<1>4. Ops'  BY <1>1, <1>2 DEF Ops
<1>5. ASSUME UNCHANGED diskVars  PROVE Device' /\ Kept' /\ Shape'
  <2>1. UNCHANGED <<cur, dur, pend>>  BY <1>5 DEF diskVars
  <2>2. Durable' = Durable /\ Volume' = Volume  BY <2>1 DEF Durable, Volume
  <2>. QED  BY <2>1, <2>2, <1>1, <1>2, <1>3, ShapeSame DEF Device, Kept
<1>6. ASSUME NEW w \in NextWrite, Written(w.home, w.data)  PROVE Device' /\ Kept' /\ Shape'
  <2>. DEFINE Goal == /\ w.home \in Locs /\ Kept'
                      /\ (\/ AtReady \/ (\E n : AtLog(n) \/ AtHome(n)) \/ AtHead \/ AtCommit \/ AtClear
                          \/ AtCleared \/ AtTorn({}, Torn) \/ AtTorn({Header}, Empty)
                          \/ (Pending({}) /\ Recoverable(cur)))'
  <2>1. ASSUME pc = "log", k < Len(tx)  PROVE Goal
    <3>1. w = Entry(k + 1, tx[k + 1].data)  BY <1>6, <2>1 DEF NextWrite
    <3>2. PICK n : n = k  OBVIOUS
    <3>3. w.home = n + 1 /\ w.data = tx[n + 1].data /\ AtLog(n) /\ n < Len(tx)
      BY <3>1, <3>2, <2>1, <1>1 DEF Entry, Place
    <3>4. AtLog(n + 1)' /\ Kept'  BY <1>1, <1>2, <1>3, <1>6, <3>3, LogWritten
    <3>5. n + 1 \in Locs
      <4>1. asked \in Volumes /\ IsTx(tx, answered, asked) /\ n \in 0 .. Len(tx)  BY <1>1, <3>3 DEF AtLog, Tx, Ops
      <4>2. Len(tx) \in Nat /\ DOMAIN tx = 1 .. Len(tx) /\ DOMAIN tx \subseteq LogBlocks  BY <4>1, TxFacts
      <4>. QED  BY <3>3, <4>1, <4>2, Locations
    <3>. QED  BY <3>3, <3>4, <3>5
  <2>2. ASSUME pc = "head"  PROVE Goal
    <3>1. w = Entry(Header, tx)  BY <1>6, <2>2 DEF NextWrite
    <3>2. w.home = Header /\ w.data = tx /\ AtHead  BY <3>1, <2>2, <1>1 DEF Entry, Place
    <3>3. AtCommit' /\ Kept'  BY <1>1, <1>2, <1>3, <1>6, <3>2, HeaderWritten
    <3>. QED  BY <3>2, <3>3, Locations
  <2>3. ASSUME AtHome(k), k < Len(tx), w.home = tx[k + 1].home, w.data = tx[k + 1].data  PROVE Goal
    <3>1. PICK n : n = k  OBVIOUS
    <3>2. w.home = tx[n + 1].home /\ w.data = tx[n + 1].data /\ AtHome(n) /\ n < Len(tx)
      BY <3>1, <2>3
    <3>3. AtHome(n + 1)' /\ Kept'  BY <1>1, <1>2, <1>3, <1>6, <3>2, HomeWritten
    <3>4. tx[n + 1].home \in Locs
      <4>1. asked \in Volumes /\ IsTx(tx, answered, asked) /\ n \in 0 .. Len(tx)  BY <1>1, <3>2 DEF AtHome, Tx, Ops
      <4>2. Len(tx) \in Nat /\ DOMAIN tx = 1 .. Len(tx) /\ \A i \in DOMAIN tx : tx[i].home \in Body
        BY <4>1, TxFacts
      <4>3. n + 1 \in DOMAIN tx  BY <3>2, <4>1, <4>2
      <4>. QED  BY <4>2, <4>3, Locations
    <3>. QED  BY <3>2, <3>3, <3>4
  <2>4. ASSUME pc = "home", k < Len(tx)  PROVE Goal
    <3>1. w = tx[k + 1] /\ AtHome(k)  BY <1>1, <1>6, <2>4 DEF NextWrite, Place
    <3>. QED  BY <3>1, <2>3, <2>4
  <2>5. ASSUME pc = "rehome", k < Len(tx)  PROVE Goal
    <3>1. w = Entry(tx[k + 1].home, cur[k + 1])  BY <1>6, <2>5 DEF NextWrite
    <3>2. AtHome(k)
      <4>1. AtHome(k) \/ (AtTorn({}, Torn) /\ k = 0)  BY <1>1, <2>5 DEF Place
      <4>2. AtTorn({}, Torn) => Len(tx) = 0  BY DEF AtTorn, Empty
      <4>. QED  BY <4>1, <4>2, <2>5
    <3>3. cur[k + 1] = tx[k + 1].data
      <4>1. asked \in Volumes /\ IsTx(tx, answered, asked) /\ k \in 0 .. Len(tx)  BY <1>1, <3>2 DEF AtHome, Tx, Ops
      <4>2. Len(tx) \in Nat /\ DOMAIN tx = 1 .. Len(tx)  BY <4>1, TxFacts
      <4>3. k + 1 \in DOMAIN tx  BY <2>5, <4>1, <4>2
      <4>. QED  BY <4>3, <3>2 DEF AtHome, InLog
    <3>4. w.home = tx[k + 1].home /\ w.data = tx[k + 1].data  BY <3>1, <3>3 DEF Entry
    <3>. QED  BY <3>2, <3>4, <2>3, <2>5
  <2>6. ASSUME pc \in {"clear", "reclear"}  PROVE Goal
    <3>1. w = Entry(Header, Empty)  BY <1>6, <2>6 DEF NextWrite
    <3>2. w.home = Header /\ w.data = Empty /\ (AtClear \/ AtTorn({}, Torn))
      BY <3>1, <2>6, <1>1 DEF Entry, Place
    <3>3. Written(Header, Empty)  BY <3>2, <1>6
    <3>4. CASE AtClear
      <4>1. AtCleared' /\ Kept'  BY <1>1, <1>2, <1>3, <3>3, <3>4, ClearWritten
      <4>. QED  BY <3>2, <4>1, Locations
    <3>5. CASE AtTorn({}, Torn)
      <4>1. AtTorn({Header}, Empty)' /\ Kept'  BY <1>1, <1>2, <1>3, <3>3, <3>5, TornWritten
      <4>. QED  BY <3>2, <4>1, Locations
    <3>. QED  BY <3>2, <3>4, <3>5
  <2>7. Goal
    <3>1. \/ pc \in {"log", "home", "rehome"} /\ k < Len(tx)
          \/ pc \in {"head", "clear", "reclear"}
      BY <1>6 DEF NextWrite
    <3>. QED  BY <3>1, <2>1, <2>2, <2>4, <2>5, <2>6
  <2>8. Device'  BY <1>1, <1>6, <2>7, WrittenFacts
  <2>9. Kept'  BY <2>7
  <2>10. (\/ AtReady \/ (\E n : AtLog(n) \/ AtHome(n)) \/ AtHead \/ AtCommit \/ AtClear
          \/ AtCleared \/ AtTorn({}, Torn) \/ AtTorn({Header}, Empty)
          \/ (Pending({}) /\ Recoverable(cur)))'
    BY <2>7
  <2>11. Shape'  BY <1>4, <2>8, <2>9, <2>10, ShapeOf, PTL
  <2>. QED  BY <2>8, <2>9, <2>11
<1>7. Device' /\ Kept' /\ Shape'  BY <1>2, <1>5, <1>6
<1>8. Place'  BY <1>2, <1>7 DEF Place
<1>9. WalTypes'  BY <1>1, <1>2, <1>3, <1>4, <1>7 DEF WalTypes, Places
<1>. QED  BY <1>3, <1>7, <1>8, <1>9 DEF WalInv

\* Every step keeps the invariant.
LEMMA StepInv == ASSUME Separate, WalInv, [Next]_vars  PROVE WalInv'
<1>1. CASE \E S \in SUBSET Blocks \ {{}} : Op(S)  BY <1>1, OpInv
<1>2. CASE \E b \in Blocks : Read(b)  BY <1>2, ReadInv
<1>3. CASE WriteLog \/ SyncLog \/ WriteHeader \/ Commit
  BY <1>3, WriteLogInv, SyncLogInv, WriteHeaderInv, CommitInv
<1>4. CASE WriteHome \/ SyncHome \/ Clear \/ Done
  BY <1>4, WriteHomeInv, SyncHomeInv, ClearInv, DoneInv
<1>5. CASE MountClean \/ Recover \/ Rehome \/ Rehomed \/ Reclear \/ Recovered
  BY <1>5, MountCleanInv, RecoverInv, RehomeInv, RehomedInv, ReclearInv, RecoveredInv
<1>6. CASE Power \/ Restart \/ IoError  BY <1>6, PowerInv, RestartInv, IoErrorInv
<1>7. CASE UNCHANGED vars
  <2>1. UNCHANGED <<cur, dur, pend, pc, tx, k, hashes, asked, answered, seq, faults>>  BY <1>7 DEF vars
  <2>2. Durable' = Durable /\ Volume' = Volume  BY <2>1 DEF Durable, Volume
  <2>3. WalTypes' /\ NotBoth' /\ Kept'
    BY <2>1, <2>2 DEF WalInv, WalTypes, Device, Ops, NotBoth, Kept
  <2>4. Place'
    <3>1. Shape => Shape'  BY <2>1, ShapeSame
    <3>2. Recoverable(cur) => Recoverable(cur)'  BY <2>1 DEF Recoverable, Settled
    <3>3. (AtReady => AtReady') /\ (AtLog(k) => AtLog(k)') /\ (AtHead => AtHead') /\ (AtHome(k) => AtHome(k)')
      BY <2>1 DEF AtReady, AtLog, AtHead, AtHome, Pending, Tx
    <3>4. (AtCommit => AtCommit') /\ (AtClear => AtClear') /\ (AtCleared => AtCleared')
      BY <2>1, <2>2 DEF AtCommit, AtClear, AtCleared, Pending, Outcomes, Tx
    <3>5. (AtTorn({}, Torn) => AtTorn({}, Torn)') /\ (AtTorn({Header}, Empty) => AtTorn({Header}, Empty)')
      BY <2>1 DEF AtTorn, Pending, Outcomes, Settled
    <3>6. Pending({}) => Pending({})'  BY <2>1 DEF Pending
    <3>. QED  BY <2>1, <3>1, <3>2, <3>3, <3>4, <3>5, <3>6 DEF WalInv, Place
  <2>. QED  BY <2>3, <2>4 DEF WalInv
<1>. QED  BY <1>1, <1>2, <1>3, <1>4, <1>5, <1>6, <1>7 DEF Next

----------------------------------------------------------------------------
(* The theorems. *)

\* The invariant holds as long as power losses and restarts are not mixed.
THEOREM Invariance == ASSUME Separate PROVE Spec => []WalInv
<1>1. WalInv /\ [Next]_vars => WalInv'  BY StepInv
<1>. QED  BY <1>1, InitInv, PTL DEF Spec

\* R50 for every volume, number of transactions and number of faults: a mounted
\* volume holds what was answered, whole, with its hashes, and it always mounts.
THEOREM MountsBeforeOrAfter == ASSUME Separate PROVE Spec => []BeforeOrAfter
<1>1. WalInv => BeforeOrAfter
  <2>. SUFFICES ASSUME WalInv PROVE BeforeOrAfter  OBVIOUS
  <2>1. pc # "corrupt"  BY DEF WalInv, WalTypes, Places
  <2>2. ASSUME pc = "ready"  PROVE Volume = answered /\ \A b \in Blocks : cur[Hash][b] = cur[b]
    <3>1. Ops /\ AtReady  BY <2>2 DEF WalInv, WalTypes, Place
    <3>2. Volume = answered  BY <3>1, WholeVolume DEF Ops, AtReady, Volume
    <3>3. cur[Hash] = answered  BY <3>1, ReadyReadable
    <3>. QED  BY <3>2, <3>3 DEF Volume
  <2>. QED  BY <2>1, <2>2 DEF BeforeOrAfter
<1>. QED  BY <1>1, Invariance, PTL

----------------------------------------------------------------------------
(* The refinement. *)

\* The volume is mounted: the mapping of AtomicStore's variable up.
Mounted == pc \notin {"down", "rehome", "reclear", "recleared", "poisoned", "corrupt"}

\* A step of the store, or none of its variables changes.
StoreStep == [Atomic!StoreNext]_<<Durable, asked, Mounted>>

\* A write, or a step that leaves the device alone, changes nothing durable.
LEMMA Stutter == ASSUME UNCHANGED <<Durable, asked>>, Mounted' <=> Mounted  PROVE StoreStep
<1>1. Mounted' = Mounted  BY DEF Mounted
<1>. QED  BY <1>1 DEF StoreStep

\* The steps of the store, in walfs's variables.
LEMMA StoreSteps ==
  /\ \A new \in Volumes : Mounted /\ asked = None /\ asked' = new /\ Durable' = Durable /\ Mounted' => StoreStep
  /\ asked # None /\ Durable' = asked /\ asked' = asked /\ (Mounted' <=> Mounted) => StoreStep
  /\ Mounted /\ asked = Durable /\ asked' = None /\ Durable' = Durable /\ Mounted' => StoreStep
  /\ ~Mounted' /\ Durable' = Durable /\ asked' = asked => StoreStep
  /\ ~Mounted' /\ asked # None /\ Durable' = asked /\ asked' = asked => StoreStep
  /\ ~Mounted /\ Mounted' /\ asked' = None /\ Durable' = Durable => StoreStep
<1>1. ASSUME NEW new \in Volumes, Mounted, asked = None, asked' = new, Durable' = Durable, Mounted'
      PROVE  StoreStep
  <2>1. Atomic!Begin(new)  BY <1>1 DEF Atomic!Begin, Mounted
  <2>. QED  BY <2>1 DEF StoreStep, Atomic!StoreNext, Volumes
<1>2. ASSUME asked # None, Durable' = asked, asked' = asked, Mounted' <=> Mounted  PROVE StoreStep
  <2>1. Atomic!Apply  BY <1>2 DEF Atomic!Apply, Mounted
  <2>. QED  BY <2>1 DEF StoreStep, Atomic!StoreNext
<1>3. ASSUME Mounted, asked = Durable, asked' = None, Durable' = Durable, Mounted'  PROVE StoreStep
  <2>1. Atomic!Answer  BY <1>3 DEF Atomic!Answer, Mounted
  <2>. QED  BY <2>1 DEF StoreStep, Atomic!StoreNext
<1>4. ASSUME ~Mounted', Durable' = Durable, asked' = asked  PROVE StoreStep
  <2>1. Atomic!Stop  BY <1>4 DEF Atomic!Stop, Mounted
  <2>. QED  BY <2>1 DEF StoreStep, Atomic!StoreNext
<1>5. ASSUME ~Mounted', asked # None, Durable' = asked, asked' = asked  PROVE StoreStep
  <2>1. Atomic!StopApply  BY <1>5 DEF Atomic!StopApply, Mounted
  <2>. QED  BY <2>1 DEF StoreStep, Atomic!StoreNext
<1>6. ASSUME ~Mounted, Mounted', asked' = None, Durable' = Durable  PROVE StoreStep
  <2>1. Atomic!Mount  BY <1>6 DEF Atomic!Mount, Mounted
  <2>. QED  BY <2>1 DEF StoreStep, Atomic!StoreNext
<1>. QED  BY <1>1, <1>2, <1>3, <1>4, <1>5, <1>6

\* A sync makes durable what reads return: the volume, or the one in the log.
LEMMA SyncServes ==
  ASSUME WalInv, Synced
  PROVE  /\ Unlogged(cur) => Durable' = Durable /\ Durable = Volume
         /\ ~Unlogged(cur) => Durable' = asked /\ asked # None
<1>1. Device /\ Ops /\ Kept /\ Recoverable(cur)  BY InvShape DEF WalInv, WalTypes, Shape
<1>2. Durable' = Served(cur)  BY <1>1, SyncedFacts
<1>. QED  BY <1>1, <1>2, ServedRecoverable DEF Kept, Volume

\* Every step of walfs is a step of the atomic store, or stutters.
LEMMA StepRefines == ASSUME Separate, WalInv, WalInv', [Next]_vars  PROVE StoreStep
<1>0. Device /\ Ops /\ Kept /\ Place  BY DEF WalInv, WalTypes
<1>1. ASSUME dur' = dur  PROVE Durable' = Durable  BY <1>1 DEF Durable
<1>2. ASSUME NEW S \in SUBSET Blocks, Op(S)  PROVE StoreStep
  <2>1. AtReady /\ pc = "ready" /\ pc' = "log" /\ dur' = dur  BY <1>0, <1>2 DEF Op, Place, diskVars
  <2>2. asked' # None /\ Ops'  BY <2>1 DEF WalInv, WalTypes, Place, AtLog, Tx
  <2>3. asked' \in Volumes  BY <2>2 DEF Ops
  <2>4. asked = None /\ Mounted /\ Mounted'  BY <2>1 DEF AtReady, Mounted
  <2>. QED  BY <2>1, <2>3, <2>4, <1>1, StoreSteps
<1>3. ASSUME NEW b \in Blocks, Read(b)  PROVE StoreStep
  <2>1. AtReady /\ pc = "ready" /\ dur' = dur /\ asked' = asked /\ pc' \in {"ready", "corrupt"}
    BY <1>0, <1>3 DEF Read, Place, diskVars
  <2>2. pc' # "corrupt"  BY DEF WalInv, WalTypes, Places
  <2>3. Mounted' <=> Mounted  BY <2>1, <2>2 DEF Mounted
  <2>. QED  BY <2>1, <2>3, <1>1, Stutter
<1>4. ASSUME WriteLog \/ WriteHeader \/ WriteHome \/ Clear \/ Rehome \/ Reclear  PROVE StoreStep
  <2>1. dur' = dur /\ asked' = asked
    BY <1>4 DEF WriteLog, WriteHeader, WriteHome, Clear, Rehome, Reclear, Written
  <2>2. Mounted' <=> Mounted
    BY <1>4 DEF WriteLog, WriteHeader, WriteHome, Clear, Rehome, Reclear, Mounted
  <2>. QED  BY <2>1, <2>2, <1>1, Stutter
<1>5. ASSUME SyncLog \/ Commit \/ SyncHome \/ Rehomed  PROVE StoreStep
  <2>1. Synced /\ asked' = asked  BY <1>5 DEF SyncLog, Commit, SyncHome, Rehomed
  <2>2. Mounted' <=> Mounted  BY <1>5 DEF SyncLog, Commit, SyncHome, Rehomed, Mounted
  <2>3. Durable' = Durable \/ (Durable' = asked /\ asked # None)  BY <2>1, SyncServes
  <2>. QED  BY <2>1, <2>2, <2>3, Stutter, StoreSteps
<1>6. ASSUME Done  PROVE StoreStep
  <2>1. Synced /\ AtCleared /\ asked' = None /\ Mounted /\ Mounted'
    BY <1>0, <1>6 DEF Done, Place, Mounted
  <2>2. Unlogged(cur) /\ asked \in Volumes /\ Whole(cur, asked)
    BY <2>1, <1>0 DEF AtCleared, Unlogged, Tx, Ops
  <2>3. Volume = asked  BY <2>2, WholeVolume DEF Volume
  <2>4. Durable' = Durable /\ Durable = Volume  BY <2>1, <2>2, SyncServes
  <2>. QED  BY <2>1, <2>3, <2>4, StoreSteps
<1>7. ASSUME MountClean  PROVE StoreStep
  <2>1. dur' = dur /\ asked' = None /\ ~Mounted /\ Mounted'  BY <1>7 DEF MountClean, Serve, Mounted, diskVars
  <2>. QED  BY <2>1, <1>1, StoreSteps
<1>8. ASSUME Recover  PROVE StoreStep
  <2>1. dur' = dur /\ asked' = asked /\ ~Mounted /\ ~Mounted'  BY <1>8 DEF Recover, Mounted, diskVars
  <2>. QED  BY <2>1, <1>1, StoreSteps
<1>9. ASSUME Recovered  PROVE StoreStep
  <2>1. Synced /\ asked' = None /\ ~Mounted /\ Mounted'  BY <1>9 DEF Recovered, Serve, Mounted
  <2>2. Unlogged(cur)  BY <1>0, <1>9 DEF Recovered, Place, AtCleared, AtTorn, Unlogged
  <2>3. Durable' = Durable  BY <2>1, <2>2, SyncServes
  <2>. QED  BY <2>1, <2>3, StoreSteps
<1>10. ASSUME Power  PROVE StoreStep
  <2>1. ~Mounted' /\ asked' = asked /\ Fault("power")  BY <1>10 DEF Power, Forgotten, Mounted
  <2>2. faults \in [Kinds -> Nat]  BY DEF WalInv, WalTypes
  <2>3. NotBoth' /\ faults'["power"] > 0 /\ faults'["restart"] = faults["restart"]
    BY <2>1, <2>2, FaultFacts DEF Kinds
  <2>4. faults["restart"] = 0  BY <2>2, <2>3 DEF NotBoth, Kinds
  <2>5. Shape  BY InvShape
  <2>6. Served(dur') = Durable \/ (asked # None /\ Served(dur') = asked)
    BY <1>0, <1>10, <2>4, <2>5, PowerLands
  <2>7. Durable' = Served(dur')  BY DEF Durable, Served
  <2>. QED  BY <2>1, <2>6, <2>7, StoreSteps
<1>11. ASSUME Restart  PROVE StoreStep
  <2>1. dur' = dur /\ asked' = asked /\ ~Mounted'  BY <1>11 DEF Restart, Forgotten, Mounted, diskVars
  <2>. QED  BY <2>1, <1>1, StoreSteps
<1>12. ASSUME IoError  PROVE StoreStep
  <2>1. dur' = dur /\ asked' = asked /\ ~Mounted'  BY <1>12 DEF IoError, Written, Mounted, diskVars
  <2>. QED  BY <2>1, <1>1, StoreSteps
<1>13. ASSUME UNCHANGED vars  PROVE StoreStep
  <2>1. dur' = dur /\ asked' = asked /\ (Mounted' <=> Mounted)  BY <1>13 DEF vars, Mounted
  <2>. QED  BY <2>1, <1>1, Stutter
<1>. QED
  BY <1>2, <1>3, <1>4, <1>5, <1>6, <1>7, <1>8, <1>9, <1>10, <1>11, <1>12, <1>13 DEF Next

\* walfs implements the atomic store: for every volume, and whatever fails, every
\* operation is in what a mount would serve whole or not at all, and once
\* answered it stays.
THEOREM ImplementsStore == ASSUME Separate PROVE Spec => ImplementsAtomicStore
<1>1. Init => Atomic!StoreInit
  <2>. SUFFICES ASSUME Init PROVE Atomic!StoreInit  OBVIOUS
  <2>1. WalInv /\ pc = "ready" /\ asked = None  BY InitInv DEF Init
  <2>2. Ops /\ Kept /\ AtReady  BY <2>1 DEF WalInv, WalTypes, Place
  <2>3. Unlogged(cur)  BY <2>2 DEF AtReady, Unlogged
  <2>4. Volume = answered  BY <2>2, WholeVolume DEF Ops, AtReady, Volume
  <2>5. Durable \in [Blocks -> Versions]  BY <2>2, <2>3, <2>4 DEF Kept, Ops, Volumes
  <2>. QED  BY <2>1, <2>5 DEF Atomic!StoreInit
<1>2. WalInv /\ WalInv' /\ [Next]_vars => StoreStep  BY StepRefines
<1>3. WalInv /\ WalInv' /\ [Next]_vars =>
        [Atomic!StoreNext]_<<Durable, asked, pc \notin {"down", "rehome", "reclear", "recleared",
                                                         "poisoned", "corrupt"}>>
  BY <1>2 DEF StoreStep, Mounted
<1>. QED  BY <1>1, <1>3, Invariance, PTL DEF Spec, ImplementsAtomicStore, Atomic!StoreSpec
=============================================================================
