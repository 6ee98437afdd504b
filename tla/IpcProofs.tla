----------------------------- MODULE IpcProofs -----------------------------
(***************************************************************************)
(* Messages, for any threads, processes, endpoints, budgets, pages, frames  *)
(* and limits: the lists agree with the pages of threads and calls          *)
(* (ListsAgree), lent pages are where they should be (LendsHeld), charges   *)
(* balance (ChargesBalance), nothing waits on what is dead                  *)
(* (NothingDeadAwaited) and callers are told the truth (LendTold).  They    *)
(* hold together or not at all: one invariant, kept by every action.  From  *)
(* it, that nothing is stranded (NothingStranded) but by thread_exit.       *)
(***************************************************************************)
EXTENDS Ipc, FiniteSetTheorems, WellFoundedInduction, TLAPS

-----------------------------------------------------------------------------
(* The invariant. *)

\* x is in s; at one place at most.
In(s, x)   == \E i \in DOMAIN s : s[i] = x
Once(s, x) == \A i, j \in DOMAIN s : s[i] = x /\ s[j] = x => i = j

\* The pages a thread's queued message carries, and those of an open call.
Buf(t) == thread[t].msg.buf
IsOpen(f) == call[f] # NoCall

\* A thread's page says what it waits for, and a turn's half goes with its wait.
SlotOk(t) ==
  LET s == thread[t]
  IN  /\ s.wait # "none" => t \in alive
      /\ t \notin alive => s = Idle
      /\ s.wait = "send" <=> s.msg # NoMsg
      /\ s.wait \in {"send", "receive"} => s.on \in Endpoints /\ LiveEnd(s.on)
      /\ s.wait = "send" => s.msg.stamp \in budgets
      /\ s.wait = "reply" => s.open \in Frames /\ call[s.open].waiting /\ call[s.open].caller = t
      /\ s.then.half = "sending" => s.wait = "send" /\ s.msg.kind = "send"
      /\ s.then.half \in {"sent", "replied"} => s.wait = "receive"
      /\ s.then.half = "replying" => s.wait = "none" /\ t = entry /\ LiveEnd(s.then.source)
      /\ s.current = None \/ In(s.held, s.current)

\* An open call is its server's, and a waiting one its caller's only one.
CallOk(f) ==
  LET c == call[f]
  IN  IsOpen(f) =>
      /\ c.payer = Budget(c.server)
      /\ c.waiting => /\ thread[c.caller].wait = "reply" /\ thread[c.caller].open = f
                      /\ LiveEnd(c.endpoint) /\ c.stamp \in budgets
      /\ c.notice => ~c.waiting /\ LiveEnd(c.endpoint)

HeldOk(t) == /\ \A f \in Frames : Once(thread[t].held, f)
             /\ \A f \in Frames : In(thread[t].held, f) <=> call[f].server = t
LineOk(e) == \A t \in Threads :
               /\ In(line[e], Tok(t)) <=> thread[t].wait = "send" /\ thread[t].on = e
               /\ Once(line[e], Tok(t))
RecvOk(e) == \A t \in Threads :
               /\ In(receivers[e], t) <=> thread[t].wait = "receive" /\ thread[t].on = e
               /\ Once(receivers[e], t)
EndOk(e) == (exits[e] # <<>> \/ e \in pumps) => LiveEnd(e)

\* Who uses page g, if anybody: one queued message or one open call.
UseOk(g) ==
  /\ \A t, u \in Threads : g \in Buf(t) /\ g \in Buf(u) => t = u
  /\ \A f, h \in Frames : g \in call[f].lend /\ g \in call[h].lend => f = h
  /\ \A t \in Threads, f \in Frames : g \in Buf(t) => g \notin call[f].lend
OwnerOk(g) ==
  /\ \A t \in Threads : g \in Buf(t) => owner[g] = Pid(t)
  /\ \A f \in Frames : g \in call[f].lend =>
       owner[g] = IF call[f].waiting THEN Pid(call[f].caller) ELSE Pid(call[f].server)
Pte(g, p, k) == [page |-> g, pid |-> p, kind |-> k]
PteOk(g) ==
  \A p \in Pids :
    /\ Pte(g, p, "own") \in ptes <=> /\ owner[g] = p /\ \A t \in Threads : g \notin Buf(t)
                                     /\ \A f \in Frames : g \notin call[f].lend
    /\ Pte(g, p, "lent") \in ptes <=> /\ owner[g] = p
                                      /\ \/ \E t \in Threads : g \in Buf(t)
                                         \/ \E f \in Frames : g \in call[f].lend /\ call[f].waiting
    /\ Pte(g, p, "borrowed") \in ptes <=> \E f \in Frames : g \in call[f].lend /\ Pid(call[f].server) = p
PageOk(g) == UseOk(g) /\ OwnerOk(g) /\ PteOk(g)

Slotted  == \A t \in Threads : SlotOk(t)
Called   == \A f \in Frames : CallOk(f)
Hands    == \A t \in Threads : HeldOk(t)
Queues   == \A e \in Endpoints : LineOk(e) /\ RecvOk(e)
Ends     == \A e \in Endpoints : EndOk(e)
Paged    == \A g \in Pages : PageOk(g)

IpcInv == TypeOK /\ Slotted /\ Called /\ Hands /\ Queues /\ Ends /\ Paged /\ ChargesBalance /\ LendTold

-----------------------------------------------------------------------------
(* Sequences. *)

\* The naturals are well founded.
LEMMA NatWellFounded == IsWellFoundedOn({ss \in Nat \X Nat : ss[1] < ss[2]}, Nat)
BY NatLessThanWellFounded DEF OpToRel

\* A nonempty set of naturals has a least element.
LEMMA LeastNat ==
  ASSUME NEW S \in SUBSET Nat, S # {}
  PROVE  \E x \in S : \A y \in S : x <= y
<1>1. PICK R : R = {ss \in Nat \X Nat : ss[1] < ss[2]}  OBVIOUS
<1>2. IsWellFoundedOn(R, Nat)  BY <1>1, NatWellFounded
<1>3. \A x, y \in Nat : <<y, x>> \in R <=> y < x  BY <1>1
<1>4. PICK x \in S : \A y \in S : ~(<<y, x>> \in R)  BY <1>2, WFMin
<1>5. ASSUME NEW y \in S  PROVE x <= y
  <2>1. x \in Nat /\ y \in Nat /\ <<y, x>> \notin R  BY <1>4
  <2>2. ~(y < x)  BY <2>1, <1>3
  <2>. QED  BY <2>1, <2>2
<1>. QED  BY <1>5

\* The members kept are those at the places kept, each at one place of its own.
LEMMA KeptPlaces ==
  ASSUME NEW T, NEW s \in Seq(T), NEW P \in SUBSET DOMAIN s
  PROVE  /\ Kept(s, P) \in Seq(T) /\ DOMAIN Kept(s, P) = 1 .. Cardinality(P)
         /\ \E w \in [1 .. Cardinality(P) -> P] :
              /\ \A n \in DOMAIN Kept(s, P) : Kept(s, P)[n] = s[w[n]]
              /\ \A m, n \in DOMAIN Kept(s, P) : w[m] = w[n] => m = n
              /\ \A i \in P : \E n \in DOMAIN Kept(s, P) : w[n] = i
<1>. DEFINE Upto(i) == {j \in P : j <= i}
            rank(i) == Cardinality(Upto(i))
            N == Cardinality(P)
<1>1. DOMAIN s = 1 .. Len(s) /\ Len(s) \in Nat  OBVIOUS
<1>2. IsFiniteSet(DOMAIN s)  BY <1>1, FS_Interval
<1>3. IsFiniteSet(P) /\ N \in Nat  BY <1>2, FS_Subset, FS_CardinalityType
<1>4. ASSUME NEW i \in P
      PROVE  Upto(i) \in SUBSET P /\ IsFiniteSet(Upto(i)) /\ rank(i) \in 1 .. N
  <2>1. Upto(i) \in SUBSET P /\ i \in Upto(i)  BY <1>1
  <2>2. IsFiniteSet(Upto(i)) /\ rank(i) <= N  BY <2>1, <1>3, FS_Subset
  <2>3. rank(i) \in Nat /\ rank(i) # 0  BY <2>1, <2>2, FS_CardinalityType, FS_EmptySet
  <2>. QED  BY <2>1, <2>2, <2>3, <1>3
<1>5. ASSUME NEW i \in P, NEW k \in P, i < k  PROVE rank(i) # rank(k)
  <2>1. Upto(i) \in SUBSET Upto(k) /\ k \in Upto(k) /\ k \notin Upto(i)  BY <1>1, <1>5
  <2>2. IsFiniteSet(Upto(k))  BY <1>4
  <2>. QED  BY <2>1, <2>2, FS_Subset
<1>6. \A i, k \in P : rank(i) = rank(k) => i = k
  <2>. TAKE i, k \in P
  <2>1. i \in Nat /\ k \in Nat  BY <1>1
  <2>. HIDE DEF rank
  <2>. QED  BY <1>5, <2>1
<1>. DEFINE r == [i \in P |-> rank(i)]
<1>7. r \in Injection(P, 1 .. N)  BY <1>4, <1>6 DEF Injection, IsInjective
<1>8. IsFiniteSet(1 .. N) /\ Cardinality(1 .. N) = N  BY <1>3, FS_Interval
<1>9. r \in Surjection(P, 1 .. N)
  <2>. HIDE DEF r, N
  <2>1. N = Cardinality(P)  BY DEF N
  <2>. QED  BY <1>7, <1>8, <2>1, FS_Injection
<1>10. \A n \in 1 .. N : \E i \in P : rank(i) = n  BY <1>9 DEF Surjection
<1>. DEFINE w == [n \in 1 .. N |-> CHOOSE i \in P : rank(i) = n]
<1>11. \A n \in 1 .. N : w[n] \in P /\ rank(w[n]) = n
  <2>. TAKE n \in 1 .. N
  <2>1. \E i \in P : rank(i) = n  BY <1>10
  <2>. HIDE DEF rank
  <2>. QED  BY <2>1
<1>12. w \in [1 .. N -> P]  BY <1>11
<1>13. Kept(s, P) = [n \in 1 .. N |-> s[w[n]]]  BY DEF Kept
<1>14. Kept(s, P) \in Seq(T) /\ DOMAIN Kept(s, P) = 1 .. N
  <2>1. \A n \in 1 .. N : s[w[n]] \in T
    <3>. HIDE DEF w
    <3>. QED  BY <1>1, <1>12
  <2>. HIDE DEF w
  <2>. QED  BY <1>13, <2>1, <1>3
<1>15. \A i \in P : \E n \in 1 .. N : w[n] = i
  <2>. TAKE i \in P
  <2>1. rank(i) \in 1 .. N /\ w[rank(i)] \in P /\ rank(w[rank(i)]) = rank(i)  BY <1>4, <1>11
  <2>. HIDE DEF rank, w
  <2>. QED  BY <2>1, <1>6
<1>16. \A m, n \in 1 .. N : w[m] = w[n] => m = n
  <2>. HIDE DEF rank, w
  <2>. QED  BY <1>11
<1>. HIDE DEF rank, w
<1>. QED  BY <1>12, <1>13, <1>14, <1>15, <1>16

\* What is kept of a sequence: a member is in it when a place it has is kept, and once if it was
\* in the sequence once.
LEMMA KeptFacts ==
  ASSUME NEW T, NEW s \in Seq(T), NEW P \in SUBSET DOMAIN s, NEW x
  PROVE  /\ Kept(s, P) \in Seq(T)
         /\ In(Kept(s, P), x) <=> \E i \in P : s[i] = x
         /\ Once(s, x) => Once(Kept(s, P), x)
<1>1. Kept(s, P) \in Seq(T) /\ DOMAIN Kept(s, P) = 1 .. Cardinality(P)  BY KeptPlaces
<1>2. PICK w \in [1 .. Cardinality(P) -> P] :
        /\ \A n \in DOMAIN Kept(s, P) : Kept(s, P)[n] = s[w[n]]
        /\ \A m, n \in DOMAIN Kept(s, P) : w[m] = w[n] => m = n
        /\ \A i \in P : \E n \in DOMAIN Kept(s, P) : w[n] = i
  BY KeptPlaces
<1>3. \A n \in DOMAIN Kept(s, P) : w[n] \in P  BY <1>1, <1>2
<1>. QED  BY <1>1, <1>2, <1>3 DEF In, Once

\* What is left of a sequence without some members.
LEMMA WithoutFacts ==
  ASSUME NEW T, NEW s \in Seq(T), NEW S, NEW x
  PROVE  /\ Without(s, S) \in Seq(T)
         /\ In(Without(s, S), x) <=> In(s, x) /\ x \notin S
         /\ Once(s, x) => Once(Without(s, S), x)
<1>. DEFINE P == {i \in DOMAIN s : s[i] \notin S}
<1>1. P \in SUBSET DOMAIN s  OBVIOUS
<1>2. Without(s, S) = Kept(s, P)  BY DEF Without
<1>3. (\E i \in P : s[i] = x) <=> In(s, x) /\ x \notin S  BY DEF In
<1>. HIDE DEF P
<1>. QED  BY <1>1, <1>2, <1>3, KeptFacts

\* A message is in a line it is dequeued from unless its thread is of those that leave.
LEMMA DequeueFacts ==
  ASSUME NEW l \in Seq(Tokens), NEW S, NEW t \in Threads
  PROVE  /\ Dequeue(l, S) \in Seq(Tokens)
         /\ In(Dequeue(l, S), Tok(t)) <=> In(l, Tok(t)) /\ t \notin S
         /\ Once(l, Tok(t)) => Once(Dequeue(l, S), Tok(t))
<1>. DEFINE left == {i \in DOMAIN l : l[i].thread \notin S}
            P == {i \in left : \E j \in left : l[j].group = l[i].group /\ l[j].thread # None}
<1>1. P \in SUBSET DOMAIN l  OBVIOUS
<1>2. Dequeue(l, S) = Kept(l, P)  BY DEF Dequeue
<1>3. Tok(t).thread = t /\ t # None  BY NoneAssumption DEF Tok, Arrival
<1>4. (\E i \in P : l[i] = Tok(t)) <=> In(l, Tok(t)) /\ t \notin S  BY <1>3 DEF In
<1>. HIDE DEF P
<1>. QED  BY <1>1, <1>2, <1>4, KeptFacts

\* A sequence with one more member.
LEMMA AppendFacts ==
  ASSUME NEW T, NEW s \in Seq(T), NEW y \in T, NEW x
  PROVE  /\ Append(s, y) \in Seq(T)
         /\ In(Append(s, y), x) <=> In(s, x) \/ x = y
         /\ Once(s, x) /\ (x = y => ~In(s, x)) => Once(Append(s, y), x)
<1>1. DOMAIN Append(s, y) = 1 .. Len(s) + 1 /\ DOMAIN s = 1 .. Len(s) /\ Len(s) \in Nat
  OBVIOUS
<1>2. \A i \in 1 .. Len(s) + 1 : Append(s, y)[i] = IF i = Len(s) + 1 THEN y ELSE s[i]
  OBVIOUS
<1>3. In(Append(s, y), x) <=> In(s, x) \/ x = y
  <2>1. ASSUME In(s, x)  PROVE In(Append(s, y), x)
    <3>1. PICK i \in DOMAIN s : s[i] = x  BY <2>1 DEF In
    <3>2. i \in 1 .. Len(s) + 1 /\ i # Len(s) + 1  BY <1>1, <3>1
    <3>. QED  BY <1>1, <1>2, <3>1, <3>2 DEF In
  <2>2. ASSUME x = y  PROVE In(Append(s, y), x)
    <3>1. Len(s) + 1 \in 1 .. Len(s) + 1  BY <1>1
    <3>. QED  BY <1>1, <1>2, <2>2, <3>1 DEF In
  <2>3. ASSUME In(Append(s, y), x), x # y  PROVE In(s, x)
    <3>1. PICK i \in 1 .. Len(s) + 1 : Append(s, y)[i] = x  BY <1>1, <2>3 DEF In
    <3>2. i \in DOMAIN s /\ s[i] = x  BY <1>1, <1>2, <2>3, <3>1
    <3>. QED  BY <3>2 DEF In
  <2>. QED  BY <2>1, <2>2, <2>3
<1>4. ASSUME Once(s, x), x = y => ~In(s, x)  PROVE Once(Append(s, y), x)
  <2>. SUFFICES ASSUME NEW i \in 1 .. Len(s) + 1, NEW j \in 1 .. Len(s) + 1,
                       Append(s, y)[i] = x, Append(s, y)[j] = x
                PROVE  i = j
    BY <1>1 DEF Once
  <2>1. CASE x = y
    <3>1. \A k \in 1 .. Len(s) : s[k] # x  BY <1>1, <1>4, <2>1 DEF In
    <3>. QED  BY <1>1, <1>2, <3>1
  <2>2. CASE x # y  BY <1>1, <1>2, <1>4, <2>2 DEF Once
  <2>. QED  BY <2>1, <2>2
<1>. QED  BY <1>3, <1>4

\* A group that has had its turn keeps its messages in line.
LEMMA ServedFacts ==
  ASSUME NEW l \in Seq(Tokens), NEW t \in Threads, NEW u \in Threads
  PROVE  /\ Served(l, Group(u)) \in Seq(Tokens)
         /\ In(Served(l, Group(u)), Tok(t)) <=> In(l, Tok(t))
         /\ Once(l, Tok(t)) => Once(Served(l, Group(u)), Tok(t))
<1>. DEFINE k == TakeOf(Group(u))
            m == Without(l, {k})
<1>1. k \in Tokens  BY KindsAssumption DEF Tokens, TakeOf, Group, Budget
<1>2. Tok(t) # k  BY NoneAssumption DEF Tok, Arrival, TakeOf
<1>. HIDE DEF k
<1>3. /\ m \in Seq(Tokens) /\ (In(m, Tok(t)) <=> In(l, Tok(t)))
      /\ Once(l, Tok(t)) => Once(m, Tok(t))
  BY <1>2, WithoutFacts, ZenonT(60)
<1>4. Served(l, Group(u)) = Append(m, k)  BY DEF Served, k
<1>. HIDE DEF m
<1>. QED  BY <1>1, <1>2, <1>3, <1>4, AppendFacts

\* Of a sequence, the first member in a set it has some of.
LEMMA FirstFacts ==
  ASSUME NEW T, NEW s \in Seq(T), NEW S, NEW y \in S, In(s, y)
  PROVE  FirstOf(s, S) \in S /\ In(s, FirstOf(s, S))
<1>. DEFINE P == {i \in DOMAIN s : s[i] \in S}
<1>1. P \in SUBSET Nat /\ P # {}  BY DEF In
<1>2. PICK i \in P : \A j \in P : i <= j  BY <1>1, LeastNat
<1>3. i \in DOMAIN s /\ s[i] \in S /\ \A j \in 1 .. (i - 1) : s[j] \notin S
  <2>1. i \in 1 .. Len(s) /\ Len(s) \in Nat  BY <1>2
  <2>2. ASSUME NEW j \in 1 .. (i - 1), s[j] \in S  PROVE FALSE
    <3>1. j \in P  BY <2>1, <2>2
    <3>2. i <= j  BY <1>2, <3>1
    <3>. QED  BY <3>2, <2>1
  <2>. QED  BY <2>2, <1>2
<1>. QED  BY <1>3 DEF FirstOf, In

\* The message whose turn it is, of those of threads S, is in line and of S.
LEMMA PickFacts ==
  ASSUME NEW l \in Seq(Tokens), NEW S, NEW y \in S \cap Threads, In(l, Tok(y))
  PROVE  PickFrom(l, S) \in S
<1>. DEFINE W == Places(l, S)
            heads == {i \in W : \A j \in W : l[j].group = l[i].group => i <= j}
<1>1. W \in SUBSET Nat /\ \A i \in W : l[i].thread \in S  BY DEF Places
<1>2. W # {}  BY NoneAssumption DEF In, Tok, Arrival, Places
<1>3. PICK i \in W : \A j \in W : i <= j  BY <1>1, <1>2, LeastNat
<1>4. i \in heads  BY <1>3
<1>5. \A h \in heads : Due(l, h) \in Nat
  <2>. TAKE h \in heads
  <2>. DEFINE takes == {j \in DOMAIN l : l[j] = TakeOf(l[h].group)}
  <2>1. h \in Nat /\ \A j \in takes : j \in Nat  BY <1>1
  <2>2. (\E j \in takes : j > h) => (CHOOSE j \in takes : TRUE) \in takes  OBVIOUS
  <2>3. Due(l, h) = IF \E j \in takes : j > h THEN CHOOSE j \in takes : TRUE ELSE h  BY DEF Due
  <2>. HIDE DEF takes
  <2>. QED  BY <2>1, <2>2, <2>3
<1>. DEFINE dues == {Due(l, h) : h \in heads}
<1>6. dues \in SUBSET Nat /\ dues # {}  BY <1>4, <1>5
<1>7. PICK d \in dues : \A x \in dues : d <= x  BY <1>6, LeastNat
<1>8. PICK h \in heads : \A j \in heads : Due(l, h) <= Due(l, j)  BY <1>7
<1>. DEFINE c == CHOOSE k \in heads : \A j \in heads : Due(l, k) <= Due(l, j)
<1>9. c \in heads  BY <1>8
<1>10. PickFrom(l, S) = l[c].thread  BY DEF PickFrom
<1>11. c \in W  BY <1>9
<1>. HIDE DEF c, W
<1>. QED  BY <1>1, <1>10, <1>11

-----------------------------------------------------------------------------
(* What a thread's page says after each change. *)

\* The empty message, turn, page and call.
LEMMA Constants ==
  /\ NoMsg \in Msgs /\ NoMsg.kind = "none" /\ NoMsg.buf = {} /\ NoTurn \in Turns /\ NoTurn.half = "none"
  /\ Idle \in Slots /\ Idle.wait = "none" /\ Idle.msg = NoMsg /\ Idle.held = <<>>
  /\ Idle.then = NoTurn /\ Idle.current = None /\ Idle.on = None /\ Idle.open = None
  /\ NoCall.caller = None /\ NoCall.server = None /\ NoCall.lend = {} /\ NoCall.waiting = FALSE
  /\ NoCall.notice = FALSE /\ NoCall.endpoint = None /\ NoCall \notin Calls
<1>1. NoMsg \in Msgs /\ NoMsg.kind = "none" /\ NoMsg.buf = {}  BY DEF NoMsg, Msgs
<1>2. NoTurn \in Turns /\ NoTurn.half = "none"  BY DEF NoTurn, Turns, Half
<1>3. 0 \in 0 .. MaxBuffer  BY BoundsAssumption
<1>4. Idle \in Slots  BY <1>1, <1>2, <1>3 DEF Idle, Slots
<1>5. /\ Idle.wait = "none" /\ Idle.msg = NoMsg /\ Idle.held = <<>>
      /\ Idle.then = NoTurn /\ Idle.current = None /\ Idle.on = None /\ Idle.open = None
  BY DEF Idle
<1>6. /\ NoCall.caller = None /\ NoCall.server = None /\ NoCall.lend = {} /\ NoCall.waiting = FALSE
      /\ NoCall.notice = FALSE /\ NoCall.endpoint = None
  BY DEF NoCall
<1>7. NoCall \notin Calls  BY <1>6, NoneAssumption DEF Calls
<1>. QED  BY <1>1, <1>2, <1>4, <1>5, <1>6, <1>7

\* The kinds of a thread's words.
LEMMA SlotTypes ==
  ASSUME NEW s \in Slots
  PROVE  /\ s.wait \in {"none", "send", "reply", "receive"} /\ s.due \in Deadlines \cup {"never"}
         /\ s.on \in Endpoints \cup {None} /\ s.open \in Frames \cup {None} /\ s.max \in 0 .. MaxBuffer
         /\ s.msg \in Msgs /\ s.then \in Turns /\ s.held \in Seq(Frames)
         /\ s.current \in Frames \cup {None}
BY DEF Slots

\* The kinds of a message's words.
LEMMA MsgTypes ==
  ASSUME NEW m \in Msgs
  PROVE  /\ m.buf \in SUBSET Pages
         /\ m # NoMsg => m.kind \in {"call", "send"} /\ m.stamp \in Budgets
BY Constants DEF Msgs

\* The kinds of a turn's words.
LEMMA TurnTypes ==
  ASSUME NEW h \in Turns
  PROVE  /\ h.half \in {"none", "sending", "replying", "sent", "replied"}
         /\ h.half \in {"sending", "replying"} =>
              h.source \in Endpoints /\ h.due \in Deadlines /\ h.max \in 0 .. MaxBuffer
BY DEF Turns, NoTurn, Half

\* wake.
LEMMA WokenFacts ==
  ASSUME NEW s \in Slots
  PROVE  /\ Woken(s) \in Slots /\ Woken(s).wait = "none" /\ Woken(s).msg = NoMsg
         /\ Woken(s).held = s.held /\ Woken(s).current = s.current /\ Woken(s).then.half = "none"
<1>1. s.held \in Seq(Frames) /\ s.current \in Frames \cup {None}  BY SlotTypes
<1>2. Woken(s) = [Idle EXCEPT !.held = s.held, !.current = s.current]  BY DEF Woken
<1>3. Idle \in Slots /\ Idle.wait = "none" /\ Idle.msg = NoMsg /\ Idle.then.half = "none"  BY Constants
<1>. QED  BY <1>1, <1>2, <1>3 DEF Slots

\* queue_send.
LEMMA SendingFacts ==
  ASSUME NEW s \in Slots, NEW kind \in {"call", "send"}, NEW h \in Handles, NEW buf \in SUBSET Pages,
         NEW due \in Deadlines, NEW then \in Turns, NEW r, r = Sending(s, kind, h, buf, due, then)
  PROVE  /\ r \in Slots /\ r.wait = "send" /\ r.on = h.to /\ r.then = then
         /\ r.msg = [kind |-> kind, stamp |-> h.stamp, buf |-> buf] /\ r.msg # NoMsg
         /\ r.held = s.held /\ r.current = s.current
<1>. DEFINE m == [kind |-> kind, stamp |-> h.stamp, buf |-> buf]
<1>1. h.to \in Endpoints /\ h.stamp \in Budgets  BY KindsAssumption
<1>2. m \in Msgs /\ m # NoMsg  BY <1>1, Constants DEF Msgs
<1>3. r = [s EXCEPT !.wait = "send", !.on = h.to, !.due = due, !.then = then, !.msg = m]  BY DEF Sending
<1>. HIDE DEF m
<1>4. r.wait = "send" /\ r.on = h.to /\ r.due = due /\ r.then = then /\ r.msg = m  BY <1>3, ZenonT(60) DEF Slots
<1>5. r.open = s.open /\ r.max = s.max /\ r.held = s.held /\ r.current = s.current  BY <1>3, ZenonT(60) DEF Slots
<1>6. r \in Slots
  <2>1. h.to \in Endpoints \cup {None} /\ due \in Deadlines \cup {"never"} /\ "send" \in {"none", "send", "reply", "receive"}
    BY <1>1
  <2>. QED  BY <1>2, <1>3, <2>1, ZenonT(60) DEF Slots
<1>. QED  BY <1>2, <1>4, <1>5, <1>6 DEF m

\* begin_receive.
LEMMA ReceivingFacts ==
  ASSUME NEW s \in Slots, NEW e \in Endpoints, NEW due \in Deadlines, NEW max \in 0 .. MaxBuffer,
         NEW half \in Turns, NEW r, r = Receiving(s, e, due, max, half)
  PROVE  /\ r \in Slots /\ r.wait = "receive" /\ r.on = e /\ r.then = half
         /\ r.msg = NoMsg /\ r.held = s.held /\ r.current = None
BY Constants, ZenonT(60) DEF Slots, Receiving

\* push_open_call.
LEMMA ServingFacts ==
  ASSUME NEW s \in Slots, NEW f \in Frames, NEW r, r = Serving(s, f)
  PROVE  /\ r \in Slots /\ r.wait = "none" /\ r.msg = NoMsg /\ r.then.half = "none"
         /\ r.held = Append(s.held, f) /\ r.current = f
<1>. DEFINE w == Woken(s)
<1>1. w \in Slots /\ w.wait = "none" /\ w.msg = NoMsg /\ w.then.half = "none" /\ w.held = s.held
  BY WokenFacts
<1>2. r = [w EXCEPT !.held = Append(@, f), !.current = f]  BY DEF Serving
<1>3. s.held \in Seq(Frames)  BY SlotTypes
<1>4. Append(s.held, f) \in Seq(Frames)  BY <1>3
<1>. HIDE DEF w
<1>5. r = [w EXCEPT !.held = Append(s.held, f), !.current = f]  BY <1>1, <1>2
<1>. QED  BY <1>1, <1>4, <1>5 DEF Slots

\* A caller whose message is taken.
LEMMA AwaitingFacts ==
  ASSUME NEW s \in Slots, NEW f \in Frames, NEW r, r = Awaiting(s, f)
  PROVE  /\ r \in Slots /\ r.wait = "reply" /\ r.msg = NoMsg /\ r.open = f /\ r.then = s.then
         /\ r.held = s.held /\ r.current = s.current
BY Constants DEF Slots, Awaiting

\* A replier's page: the call dropped, and the receive half to come.
Replied(s, f, then) == [Dropped(s, f) EXCEPT !.then = then]

\* drop_open_call, of a thread that replies.
LEMMA RepliedFacts ==
  \A s \in Slots, f \in Frames, then \in Turns :
    /\ Replied(s, f, then) \in Slots /\ Replied(s, f, then).wait = s.wait
    /\ Replied(s, f, then).msg = s.msg /\ Replied(s, f, then).then = then
    /\ Replied(s, f, then).held = Without(s.held, {f})
    /\ s.current = f => Replied(s, f, then).current = None
    /\ s.current # f => Replied(s, f, then).current = s.current
<1>. TAKE s \in Slots, f \in Frames, then \in Turns
<1>. DEFINE r == Replied(s, f, then)
<1>1. Without(s.held, {f}) \in Seq(Frames)
  <2>1. s.held \in Seq(Frames)  BY SlotTypes
  <2>. QED  BY <2>1, WithoutFacts
<1>2. r = [s EXCEPT !.held = Without(s.held, {f}), !.current = IF s.current = f THEN None ELSE s.current,
                    !.then = then]
  BY DEF Replied, Dropped, Slots
<1>. HIDE DEF r
<1>3. /\ r \in Slots /\ r.wait = s.wait /\ r.msg = s.msg /\ r.then = then
      /\ r.held = Without(s.held, {f})
      /\ s.current = f => r.current = None
      /\ s.current # f => r.current = s.current
  BY <1>1, <1>2 DEF Slots
<1>. QED  BY <1>3 DEF r

\* The kinds of an open call's words; a free frame's are empty.
LEMMA CallTypes ==
  ASSUME TypeOK, NEW f \in Frames
  PROVE  /\ call[f].lend \in SUBSET Pages /\ call[f].waiting \in BOOLEAN /\ call[f].notice \in BOOLEAN
         /\ IsOpen(f) => /\ call[f] \in Calls /\ call[f].caller \in Threads /\ call[f].server \in Threads
                         /\ call[f].endpoint \in Endpoints /\ call[f].stamp \in Budgets
                         /\ call[f].payer \in Budgets
         /\ ~IsOpen(f) => /\ call[f].caller = None /\ call[f].server = None /\ call[f].lend = {}
                          /\ call[f].waiting = FALSE /\ call[f].notice = FALSE
<1>1. call[f] \in Calls \/ call[f] = NoCall  BY DEF TypeOK
<1>2. CASE call[f] = NoCall  BY <1>2, Constants DEF IsOpen
<1>3. CASE call[f] \in Calls
  <2>1. call[f] # NoCall  BY <1>3, Constants
  <2>. QED  BY <1>3, <2>1 DEF IsOpen, Calls
<1>. QED  BY <1>1, <1>2, <1>3

-----------------------------------------------------------------------------
(* Unwinding: waits fail, threads, processes and endpoints end. *)

\* The state an unwinding is of, and the one it leaves, part by part.
IpcState == TypeOK /\ Slotted /\ Called /\ Hands /\ Queues /\ Ends /\ Paged /\ ChargesBalance

Answered(K) == {f \in HeldBy(K) : call[f].waiting /\ call[f].caller \notin K}
Told(K) == {call[f].caller : f \in Answered(K)}
Withdrawn(F, K) == {t \in F \cup K : Wait(t) = "send"}
Home(F, K) == Lends({f \in HeldBy(K) : call[f].waiting}) \cup UNION {Buf(t) : t \in Withdrawn(F, K)}
Lost(K) == Lends({f \in HeldBy(K) : ~call[f].waiting})
Moved(F, K) == Lends(AbandonedBy(F, K))
Taker(F, K, g) == call[CHOOSE f \in AbandonedBy(F, K) : g \in call[f].lend].server
OwnerIn(F, K, dead) ==
  [g \in Pages |-> CASE g \in Moved(F, K) -> Pid(Taker(F, K, g))
                     [] g \notin Moved(F, K) /\ (g \in Lost(K) \/ owner[g] \in dead) -> None
                     [] OTHER -> owner[g]]

\* The endings this kernel makes: who ends was alive, and nobody is left of a dead process.
LegalEnd(F, K, dead, gone) ==
  /\ F \in SUBSET alive /\ K \in SUBSET alive /\ F \cap K = {}
  /\ dead \in SUBSET Pids /\ gone \in SUBSET Endpoints
  /\ \A t \in alive : Pid(t) \in dead => t \in K

\* Lines as the endpoints have them, but for the takes in them.
SameLines(queues) ==
  /\ queues \in [Endpoints -> Seq(Tokens)]
  /\ \A e \in Endpoints, t \in Threads :
       /\ In(queues[e], Tok(t)) <=> In(line[e], Tok(t))
       /\ Once(line[e], Tok(t)) => Once(queues[e], Tok(t))

\* Unwind, its parts named.
Unwound(F, K, dead, gone, queues) ==
  /\ alive' = alive \ K
  /\ thread' = [t \in Threads |->
                  IF t \in K THEN Idle
                  ELSE IF t \in F \cup Told(K) THEN Woken(thread[t]) ELSE thread[t]]
  /\ line' = [e \in Endpoints |-> Dequeue(queues[e], Withdrawn(F, K))]
  /\ receivers' = [e \in Endpoints |-> Without(receivers[e], F \cup K)]
  /\ call' = [f \in Frames |->
                CASE f \in HeldBy(K) -> NoCall
                  [] f \in AbandonedBy(F, K) ->
                       [call[f] EXCEPT !.waiting = FALSE, !.notice = call[f].endpoint \notin gone]
                  [] f \notin HeldBy(K) \cup AbandonedBy(F, K) /\ call[f].endpoint \in gone
                       -> [call[f] EXCEPT !.notice = FALSE]
                  [] OTHER -> call[f]]
  /\ opencalls' = [p \in Pids |->
                     opencalls[p] - Cardinality({f \in HeldBy(K) : Pid(call[f].server) = p})]
  /\ owner' = OwnerIn(F, K, dead)
  /\ ptes' = {x \in ptes : /\ x.pid \notin dead /\ x.page \notin Home(F, K) \cup Lost(K)
                           /\ x.page \in Moved(F, K) => x.kind = "borrowed"}
             \cup {[x EXCEPT !.kind = "own"] :
                     x \in {x \in ptes : /\ x.page \in Home(F, K) /\ x.kind = "lent"
                                         /\ x.pid \notin dead}}
  /\ used' = Uncharged(OwnerIn(F, K, dead), HeldBy(K), AbandonedBy(F, K))
  /\ told' = UNION ({Tell(t, "returned", Buf(t)) :
                       t \in {t \in F : Wait(t) = "send" /\ thread[t].msg.kind = "call"}}
                    \cup {Tell(call[f].caller, "consumed", call[f].lend) :
                            f \in {f \in AbandonedBy(F, K) : call[f].caller \in F}}
                    \cup {Tell(call[f].caller, "returned", call[f].lend) : f \in Answered(K)})

\* Unwind, its parts named.
LEMMA UnwindDef ==
  ASSUME NEW F, NEW K, NEW dead, NEW gone, NEW queues, Unwind(F, K, dead, gone, queues)
  PROVE  Unwound(F, K, dead, gone, queues)
BY Zenon DEF Unwind, Unwound, Answered, Told, Withdrawn, Home, Lost, Moved, Taker, OwnerIn, Buf

\* Callers answered wait for a reply.
LEMMA ToldWait ==
  ASSUME TypeOK, Called, NEW K, NEW t \in Told(K)
  PROVE  t \in Threads /\ thread[t].wait = "reply" /\ t \notin K
<1>1. PICK f \in Answered(K) : t = call[f].caller  BY DEF Told
<1>2. f \in Frames /\ IsOpen(f) /\ call[f].waiting /\ t \notin K  BY <1>1 DEF Answered, HeldBy, IsOpen
<1>3. t \in Threads  BY <1>1, <1>2, CallTypes
<1>. QED  BY <1>1, <1>2, <1>3 DEF Called, CallOk

\* What becomes of each thread's page.
LEMMA UnwindThreads ==
  ASSUME TypeOK, NEW F, NEW K, NEW dead, NEW gone, NEW queues, Unwind(F, K, dead, gone, queues),
         NEW t \in Threads
  PROVE  /\ thread'[t] \in Slots /\ thread[t] \in Slots
         /\ t \in K => thread'[t] = Idle
         /\ t \notin K /\ t \in F \cup Told(K) =>
              /\ thread'[t].wait = "none" /\ thread'[t].msg = NoMsg /\ thread'[t].then.half = "none"
              /\ thread'[t].held = thread[t].held /\ thread'[t].current = thread[t].current
         /\ t \notin K /\ t \notin F \cup Told(K) => thread'[t] = thread[t]
<1>0. Unwound(F, K, dead, gone, queues)  BY UnwindDef
<1>1. thread' = [x \in Threads |->
                   IF x \in K THEN Idle
                   ELSE IF x \in F \cup Told(K) THEN Woken(thread[x]) ELSE thread[x]]
  BY <1>0, Zenon DEF Unwound
<1>2. thread[t] \in Slots  BY DEF TypeOK
<1>. QED  BY <1>1, <1>2, WokenFacts, Constants

\* What becomes of each open call.
LEMMA UnwindCalls ==
  ASSUME TypeOK, NEW F, NEW K, NEW dead, NEW gone \in SUBSET Endpoints, NEW queues,
         Unwind(F, K, dead, gone, queues), NEW f \in Frames
  PROVE  /\ f \in HeldBy(K) => call'[f] = NoCall
         /\ f \notin HeldBy(K) =>
              /\ call'[f].caller = call[f].caller /\ call'[f].server = call[f].server
              /\ call'[f].endpoint = call[f].endpoint /\ call'[f].stamp = call[f].stamp
              /\ call'[f].payer = call[f].payer /\ call'[f].lend = call[f].lend
              /\ call'[f].waiting = (call[f].waiting /\ f \notin AbandonedBy(F, K))
              /\ IsOpen(f)' <=> IsOpen(f)
              /\ call'[f].notice => /\ call[f].notice \/ f \in AbandonedBy(F, K)
                                    /\ call[f].endpoint \notin gone
         /\ call'[f] \in Calls \cup {NoCall}
<1>0. Unwound(F, K, dead, gone, queues)  BY UnwindDef
<1>1. call' = [x \in Frames |->
                 CASE x \in HeldBy(K) -> NoCall
                   [] x \in AbandonedBy(F, K) ->
                        [call[x] EXCEPT !.waiting = FALSE, !.notice = call[x].endpoint \notin gone]
                   [] x \notin HeldBy(K) \cup AbandonedBy(F, K) /\ call[x].endpoint \in gone
                        -> [call[x] EXCEPT !.notice = FALSE]
                   [] OTHER -> call[x]]
  BY <1>0, Zenon DEF Unwound
<1>2. f \in AbandonedBy(F, K) => call[f] \in Calls /\ call[f].waiting /\ f \notin HeldBy(K)
  BY CallTypes DEF AbandonedBy, HeldBy
<1>3. CASE f \in HeldBy(K)  BY <1>1, <1>2, <1>3
<1>4. CASE f \notin HeldBy(K) /\ ~IsOpen(f)
  <2>1. call[f] = NoCall /\ f \notin AbandonedBy(F, K)  BY <1>2, <1>4, Constants DEF IsOpen
  <2>2. call[f].endpoint \notin gone  BY <2>1, Constants, NoneAssumption
  <2>3. call'[f] = NoCall  BY <1>1, <1>4, <2>1, <2>2
  <2>. QED  BY <2>1, <2>3, <1>4, Constants DEF IsOpen
<1>5. CASE f \notin HeldBy(K) /\ IsOpen(f)
  <2>1. call[f] \in Calls  BY <1>5, CallTypes
  <2>2. \A c \in Calls : c # NoCall  BY Constants
  <2>3. CASE f \in AbandonedBy(F, K)
    <3>1. call'[f] = [call[f] EXCEPT !.waiting = FALSE, !.notice = call[f].endpoint \notin gone]
      BY <1>1, <1>5, <2>3
    <3>2. call'[f] \in Calls /\ call'[f].caller = call[f].caller /\ call'[f].server = call[f].server
          /\ call'[f].endpoint = call[f].endpoint /\ call'[f].stamp = call[f].stamp
          /\ call'[f].payer = call[f].payer /\ call'[f].lend = call[f].lend /\ call'[f].waiting = FALSE
          /\ call'[f].notice = (call[f].endpoint \notin gone)
      BY <2>1, <3>1 DEF Calls
    <3>. QED  BY <1>5, <2>2, <2>3, <3>2 DEF IsOpen
  <2>4. CASE f \notin AbandonedBy(F, K) /\ call[f].endpoint \in gone
    <3>1. call'[f] = [call[f] EXCEPT !.notice = FALSE]  BY <1>1, <1>5, <2>4
    <3>2. call'[f] \in Calls /\ call'[f].caller = call[f].caller /\ call'[f].server = call[f].server
          /\ call'[f].endpoint = call[f].endpoint /\ call'[f].stamp = call[f].stamp
          /\ call'[f].payer = call[f].payer /\ call'[f].lend = call[f].lend
          /\ call'[f].waiting = call[f].waiting /\ call'[f].notice = FALSE
      BY <2>1, <3>1 DEF Calls
    <3>3. call[f].waiting \in BOOLEAN  BY CallTypes
    <3>. QED  BY <1>5, <2>2, <2>4, <3>2, <3>3 DEF IsOpen
  <2>5. CASE f \notin AbandonedBy(F, K) /\ call[f].endpoint \notin gone
    <3>1. call'[f] = call[f]  BY <1>1, <1>5, <2>5
    <3>3. call[f].waiting \in BOOLEAN  BY CallTypes
    <3>. QED  BY <1>5, <2>1, <2>5, <3>1, <3>3 DEF IsOpen
  <2>. QED  BY <2>3, <2>4, <2>5
<1>. QED  BY <1>3, <1>4, <1>5

\* What has not ended goes on waiting for what lives.
Survives(F, K, gone) ==
  /\ budgets' \subseteq budgets
  /\ \A e \in Endpoints : LiveEnd(e) /\ e \notin gone => OwnerOf[e] \in budgets'
  /\ \A t \in alive \ (F \cup K) :
       /\ Wait(t) \in {"send", "receive"} => OwnerOf[thread[t].on] \in budgets'
       /\ Wait(t) = "send" => thread[t].msg.stamp \in budgets'
       /\ thread[t].then.half = "replying" => entry' = t /\ OwnerOf[thread[t].then.source] \in budgets'
  /\ \A f \in Frames : call[f].waiting /\ call[f].server \notin K /\ call[f].caller \notin F \cup K
       => OwnerOf[call[f].endpoint] \in budgets' /\ call[f].stamp \in budgets'

\* Threads' pages stay in order.
LEMMA UnwindSlots ==
  ASSUME IpcState, NEW F, NEW K, NEW dead, NEW gone, NEW queues,
         LegalEnd(F, K, dead, gone), Unwind(F, K, dead, gone, queues), Survives(F, K, gone)
  PROVE  Slotted'
<1>. SUFFICES ASSUME NEW t \in Threads  PROVE SlotOk(t)'
  BY DEF Slotted
<1>. USE DEF IpcState
<1>1. SlotOk(t) /\ thread[t] \in Slots  BY DEF Slotted, TypeOK
<1>2. alive' = alive \ K
  <2>1. Unwound(F, K, dead, gone, queues)  BY UnwindDef
  <2>. QED  BY <2>1 DEF Unwound
<1>3. CASE t \in K
  <2>1. thread'[t] = Idle  BY <1>3, UnwindThreads
  <2>2. t \notin alive'  BY <1>2, <1>3
  <2>. QED  BY <2>1, <2>2, Constants DEF SlotOk
<1>4. CASE t \notin K /\ t \in F \cup Told(K)
  <2>1. /\ thread'[t].wait = "none" /\ thread'[t].msg = NoMsg /\ thread'[t].then.half = "none"
        /\ thread'[t].held = thread[t].held /\ thread'[t].current = thread[t].current
    BY <1>4, UnwindThreads
  <2>2. t \in alive'
    <3>1. t \in Told(K) => t \in alive  BY <1>1, ToldWait DEF SlotOk
    <3>. QED  BY <1>2, <1>4, <3>1 DEF LegalEnd
  <2>. QED  BY <1>1, <2>1, <2>2 DEF SlotOk
<1>5. CASE t \notin K /\ t \notin F \cup Told(K)
  <2>1. thread'[t] = thread[t]  BY <1>5, UnwindThreads
  <2>2. t \in alive' <=> t \in alive  BY <1>2, <1>5
  <2>3. CASE thread[t].wait = "reply"
    <3>. DEFINE f == thread[t].open
    <3>1. f \in Frames /\ call[f].waiting /\ call[f].caller = t  BY <1>1, <2>3 DEF SlotOk
    <3>2. f \notin HeldBy(K)  BY <1>5, <3>1 DEF Told, Answered
    <3>3. f \notin AbandonedBy(F, K)  BY <1>5, <3>1 DEF AbandonedBy
    <3>4. gone \in SUBSET Endpoints  BY DEF LegalEnd
    <3>5. call'[f].waiting /\ call'[f].caller = t
      <4>. HIDE DEF f
      <4>1. call'[f].caller = call[f].caller
            /\ call'[f].waiting = (call[f].waiting /\ f \notin AbandonedBy(F, K))
        BY <3>1, <3>2, <3>4, UnwindCalls
      <4>. QED  BY <3>1, <3>3, <4>1
    <3>6. thread[t].then.half # "replying"  BY <1>1, <2>3 DEF SlotOk
    <3>. QED  BY <1>1, <2>1, <2>2, <2>3, <3>1, <3>5, <3>6 DEF SlotOk
  <2>4. CASE thread[t].wait \in {"send", "receive"}
    <3>1. t \in alive /\ t \notin F \cup K  BY <1>1, <1>5, <2>4 DEF SlotOk
    <3>2. OwnerOf[thread[t].on] \in budgets' /\ (Wait(t) = "send" => thread[t].msg.stamp \in budgets')
      BY <3>1, <2>4 DEF Survives, Wait
    <3>6. thread[t].then.half # "replying"  BY <1>1, <2>4 DEF SlotOk
    <3>. QED  BY <1>1, <2>1, <2>2, <2>4, <3>2, <3>6 DEF SlotOk, LiveEnd, Wait
  <2>5. CASE thread[t].wait = "none"
    <3>1. CASE thread[t].then.half = "replying"
      <4>1. t \in alive  BY <1>1, <3>1, Constants DEF SlotOk
      <4>2. entry' = t /\ OwnerOf[thread[t].then.source] \in budgets'  BY <1>5, <3>1, <4>1 DEF Survives
      <4>. QED  BY <1>1, <2>1, <2>2, <2>5, <4>2 DEF SlotOk, LiveEnd
    <3>2. CASE thread[t].then.half # "replying"  BY <1>1, <2>1, <2>2, <2>5, <3>2 DEF SlotOk, LiveEnd
    <3>. QED  BY <3>1, <3>2
  <2>. QED  BY <1>1, <2>3, <2>4, <2>5, SlotTypes
<1>. QED  BY <1>3, <1>4, <1>5

\* Open calls stay in order.
LEMMA UnwindCalled ==
  ASSUME IpcState, NEW F, NEW K, NEW dead, NEW gone, NEW queues,
         LegalEnd(F, K, dead, gone), Unwind(F, K, dead, gone, queues), Survives(F, K, gone)
  PROVE  Called'
<1>. SUFFICES ASSUME NEW f \in Frames, IsOpen(f)'  PROVE CallOk(f)'
  BY DEF Called, CallOk
<1>. USE DEF IpcState
<1>1. gone \in SUBSET Endpoints  BY DEF LegalEnd
<1>2. f \notin HeldBy(K)
  <2>1. f \in HeldBy(K) => call'[f] = NoCall  BY <1>1, UnwindCalls
  <2>. QED  BY <2>1 DEF IsOpen
<1>3. /\ call'[f].caller = call[f].caller /\ call'[f].server = call[f].server
      /\ call'[f].endpoint = call[f].endpoint /\ call'[f].stamp = call[f].stamp
      /\ call'[f].payer = call[f].payer
      /\ call'[f].waiting = (call[f].waiting /\ f \notin AbandonedBy(F, K))
      /\ call'[f].notice => (call[f].notice \/ f \in AbandonedBy(F, K)) /\ call[f].endpoint \notin gone
      /\ IsOpen(f)
  BY <1>1, <1>2, UnwindCalls
<1>4. CallOk(f) /\ call[f].endpoint \in Endpoints /\ call[f].caller \in Threads  BY <1>3, CallTypes DEF Called
<1>5. call[f].server \notin K  BY <1>2, <1>3 DEF HeldBy, IsOpen
<1>6. ASSUME call'[f].waiting
      PROVE  /\ thread'[call[f].caller].wait = "reply" /\ thread'[call[f].caller].open = f
             /\ OwnerOf[call[f].endpoint] \in budgets' /\ call[f].stamp \in budgets'
  <2>. DEFINE t == call[f].caller
  <2>1. call[f].waiting /\ f \notin AbandonedBy(F, K)  BY <1>3, <1>6
  <2>2. t \notin F \cup K  BY <1>5, <2>1 DEF AbandonedBy
  <2>3. thread[t].wait = "reply" /\ thread[t].open = f  BY <1>3, <1>4, <2>1 DEF CallOk
  <2>4. t \notin Told(K)
    <3>. SUFFICES ASSUME t \in Told(K)  PROVE FALSE
      OBVIOUS
    <3>1. PICK h \in Answered(K) : t = call[h].caller  BY DEF Told
    <3>2. h \in Frames /\ h \in HeldBy(K) /\ call[h].waiting /\ IsOpen(h)
      BY <3>1 DEF Answered, HeldBy, IsOpen
    <3>3. thread[t].open = h  BY <3>1, <3>2 DEF Called, CallOk
    <3>. QED  BY <1>2, <2>3, <3>2, <3>3
  <2>5. thread'[t] = thread[t]  BY <1>4, <2>2, <2>4, UnwindThreads
  <2>6. OwnerOf[call[f].endpoint] \in budgets' /\ call[f].stamp \in budgets'
    BY <1>5, <2>1, <2>2 DEF Survives
  <2>. QED  BY <2>3, <2>5, <2>6
<1>7. ASSUME call'[f].notice  PROVE ~call'[f].waiting /\ OwnerOf[call[f].endpoint] \in budgets'
  <2>1. (call[f].notice \/ f \in AbandonedBy(F, K)) /\ call[f].endpoint \notin gone  BY <1>3, <1>7
  <2>2. f \in AbandonedBy(F, K) => call[f].waiting  BY DEF AbandonedBy
  <2>3. LiveEnd(call[f].endpoint) /\ ~call'[f].waiting  BY <1>3, <1>4, <2>1, <2>2 DEF CallOk
  <2>. QED  BY <1>4, <2>1, <2>3 DEF Survives
<1>. QED  BY <1>3, <1>4, <1>6, <1>7 DEF CallOk, LiveEnd

\* Calls are held by their servers, still.
LEMMA UnwindHands ==
  ASSUME IpcState, NEW F, NEW K, NEW dead, NEW gone, NEW queues,
         LegalEnd(F, K, dead, gone), Unwind(F, K, dead, gone, queues)
  PROVE  Hands'
<1>. SUFFICES ASSUME NEW t \in Threads  PROVE HeldOk(t)'
  BY DEF Hands
<1>. USE DEF IpcState
<1>1. gone \in SUBSET Endpoints  BY DEF LegalEnd
<1>2. ASSUME NEW f \in Frames
      PROVE  call'[f].server = t <=> call[f].server = t /\ t \notin K
  <2>1. CASE f \in HeldBy(K)
    <3>0. call'[f] = NoCall  BY <1>1, <2>1, UnwindCalls
    <3>1. call'[f].server = None /\ call[f].server \in K  BY <2>1, <3>0, Constants DEF HeldBy
    <3>. QED  BY <3>1, NoneAssumption
  <2>2. CASE f \notin HeldBy(K)
    <3>1. call'[f].server = call[f].server  BY <1>1, <2>2, UnwindCalls
    <3>2. call[f].server \notin K \/ call[f].server = None  BY <2>2, CallTypes DEF HeldBy, IsOpen
    <3>. QED  BY <3>1, <3>2, NoneAssumption
  <2>. QED  BY <2>1, <2>2
<1>3. CASE t \in K
  <2>1. thread'[t].held = <<>>  BY <1>3, UnwindThreads, Constants
  <2>. QED  BY <1>2, <1>3, <2>1 DEF HeldOk, In, Once
<1>4. CASE t \notin K
  <2>1. thread'[t].held = thread[t].held  BY <1>4, UnwindThreads
  <2>. QED  BY <1>2, <1>4, <2>1 DEF Hands, HeldOk
<1>. QED  BY <1>3, <1>4

\* Lines and receivers are who waits, still.
LEMMA UnwindQueues ==
  ASSUME IpcState, NEW F, NEW K, NEW dead, NEW gone, NEW queues, SameLines(queues),
         LegalEnd(F, K, dead, gone), Unwind(F, K, dead, gone, queues)
  PROVE  Queues'
<1>. SUFFICES ASSUME NEW e \in Endpoints, NEW t \in Threads
              PROVE  /\ In(line'[e], Tok(t)) <=> thread'[t].wait = "send" /\ thread'[t].on = e
                     /\ Once(line'[e], Tok(t))
                     /\ In(receivers'[e], t) <=> thread'[t].wait = "receive" /\ thread'[t].on = e
                     /\ Once(receivers'[e], t)
  BY DEF Queues, LineOk, RecvOk, Tok, Group, Budget
<1>. USE DEF IpcState
<1>1. Unwound(F, K, dead, gone, queues)  BY UnwindDef
<1>2. line' = [x \in Endpoints |-> Dequeue(queues[x], Withdrawn(F, K))]  BY <1>1, Zenon DEF Unwound
<1>3. receivers' = [x \in Endpoints |-> Without(receivers[x], F \cup K)]  BY <1>1, Zenon DEF Unwound
<1>4. /\ In(line[e], Tok(t)) <=> thread[t].wait = "send" /\ thread[t].on = e
      /\ Once(line[e], Tok(t))
      /\ In(receivers[e], t) <=> thread[t].wait = "receive" /\ thread[t].on = e
      /\ Once(receivers[e], t)
  BY DEF Queues, LineOk, RecvOk
<1>5. /\ In(line'[e], Tok(t)) <=> In(line[e], Tok(t)) /\ t \notin Withdrawn(F, K)
      /\ Once(line'[e], Tok(t))
  <2>1. queues[e] \in Seq(Tokens) /\ (In(queues[e], Tok(t)) <=> In(line[e], Tok(t)))
        /\ Once(queues[e], Tok(t))
    BY <1>4 DEF SameLines
  <2>2. line'[e] = Dequeue(queues[e], Withdrawn(F, K))  BY <1>2
  <2>. DEFINE q == queues[e]
              W == Withdrawn(F, K)
  <2>. HIDE DEF q, W
  <2>3. /\ In(Dequeue(q, W), Tok(t)) <=> In(q, Tok(t)) /\ t \notin W
        /\ Once(Dequeue(q, W), Tok(t))
    BY <2>1, DequeueFacts DEF q
  <2>. QED  BY <2>1, <2>2, <2>3 DEF q, W
<1>6. In(receivers'[e], t) <=> In(receivers[e], t) /\ t \notin F \cup K
  <2>1. receivers[e] \in Seq(Threads)  BY DEF TypeOK
  <2>2. receivers'[e] = Without(receivers[e], F \cup K)  BY <1>3
  <2>. DEFINE S == F \cup K
              r == receivers[e]
  <2>. HIDE DEF S, r
  <2>3. In(Without(r, S), t) <=> In(r, t) /\ t \notin S  BY <2>1, WithoutFacts DEF r
  <2>. QED  BY <2>2, <2>3 DEF S, r
<1>7. Once(receivers'[e], t)
  <2>1. receivers[e] \in Seq(Threads)  BY DEF TypeOK
  <2>2. receivers'[e] = Without(receivers[e], F \cup K)  BY <1>3
  <2>. QED  BY <1>4, <2>1, <2>2, WithoutFacts
<1>8. t \in Withdrawn(F, K) <=> t \in F \cup K /\ thread[t].wait = "send"  BY DEF Withdrawn, Wait
<1>9. t \in F \cup K => thread'[t].wait = "none"  BY UnwindThreads, Constants
<1>10. t \notin F \cup K =>
         \/ thread'[t] = thread[t]
         \/ thread'[t].wait = "none" /\ thread[t].wait = "reply"
  BY UnwindThreads, ToldWait
<1>. QED  BY <1>4, <1>5, <1>6, <1>7, <1>8, <1>9, <1>10

\* Who holds an open call, and who sends a message, is alive.
LEMMA ServerAlive ==
  ASSUME TypeOK, Slotted, Hands, NEW f \in Frames, IsOpen(f)
  PROVE  call[f].server \in alive
<1>. DEFINE t == call[f].server
<1>1. t \in Threads  BY CallTypes
<1>2. In(thread[t].held, f)  BY <1>1 DEF Hands, HeldOk
<1>3. thread[t] # Idle  BY <1>2, Constants DEF In
<1>. QED  BY <1>1, <1>3 DEF Slotted, SlotOk

\* A waiting call's caller is alive.
LEMMA CallerAlive ==
  ASSUME TypeOK, Slotted, Called, NEW f \in Frames, call[f].waiting
  PROVE  call[f].caller \in alive /\ IsOpen(f) /\ call[f].caller \in Threads
<1>1. IsOpen(f) /\ call[f].caller \in Threads  BY CallTypes
<1>2. thread[call[f].caller].wait = "reply"  BY <1>1 DEF Called, CallOk
<1>. QED  BY <1>1, <1>2 DEF Slotted, SlotOk

\* Who carries a page sends.
LEMMA SenderSends ==
  ASSUME TypeOK, Slotted, NEW t \in Threads, NEW g \in Buf(t)
  PROVE  thread[t].wait = "send" /\ t \in alive
<1>1. thread[t].msg # NoMsg  BY Constants DEF Buf
<1>. QED  BY <1>1 DEF Slotted, SlotOk

\* An entry is its page, its process and its kind.
LEMMA PteFacts ==
  /\ \A x \in Ptes : x = Pte(x.page, x.pid, x.kind) /\ [x EXCEPT !.kind = "own"] = Pte(x.page, x.pid, "own")
  /\ \A g, p, k : Pte(g, p, k).page = g /\ Pte(g, p, k).pid = p /\ Pte(g, p, k).kind = k
  /\ \A g \in Pages, p \in Pids, k \in {"own", "lent", "borrowed"} : Pte(g, p, k) \in Ptes
BY DEF Ptes, Pte

\* Which entries are left.
LEMMA UnwindPtes ==
  ASSUME TypeOK, NEW F, NEW K, NEW dead, NEW gone, NEW queues, Unwind(F, K, dead, gone, queues),
         NEW g \in Pages, NEW p \in Pids, NEW k \in {"own", "lent", "borrowed"}
  PROVE  Pte(g, p, k) \in ptes' <=>
           \/ /\ Pte(g, p, k) \in ptes /\ p \notin dead /\ g \notin Home(F, K) \cup Lost(K)
              /\ g \in Moved(F, K) => k = "borrowed"
           \/ k = "own" /\ g \in Home(F, K) /\ Pte(g, p, "lent") \in ptes /\ p \notin dead
<1>. DEFINE stay == {x \in ptes : /\ x.pid \notin dead /\ x.page \notin Home(F, K) \cup Lost(K)
                                  /\ x.page \in Moved(F, K) => x.kind = "borrowed"}
            back == {x \in ptes : x.page \in Home(F, K) /\ x.kind = "lent" /\ x.pid \notin dead}
<1>1. ptes' = stay \cup {[x EXCEPT !.kind = "own"] : x \in back}
  <2>1. Unwound(F, K, dead, gone, queues)  BY UnwindDef
  <2>. QED  BY <2>1, Zenon DEF Unwound
<1>2. ptes \subseteq Ptes  BY DEF TypeOK
<1>3. Pte(g, p, k) \in stay <=>
        /\ Pte(g, p, k) \in ptes /\ p \notin dead /\ g \notin Home(F, K) \cup Lost(K)
        /\ g \in Moved(F, K) => k = "borrowed"
  BY PteFacts
<1>4. ASSUME NEW x \in back, Pte(g, p, k) = [x EXCEPT !.kind = "own"]
      PROVE  k = "own" /\ g \in Home(F, K) /\ Pte(g, p, "lent") \in ptes /\ p \notin dead
  <2>1. x \in Ptes  BY <1>2
  <2>2. Pte(g, p, k) = Pte(x.page, x.pid, "own")  BY <1>4, <2>1, PteFacts
  <2>3. g = x.page /\ p = x.pid /\ k = "own"  BY <2>2, PteFacts
  <2>4. x = Pte(g, p, "lent")  BY <2>1, <2>3, PteFacts
  <2>. QED  BY <2>3, <2>4
<1>5. ASSUME k = "own", g \in Home(F, K), Pte(g, p, "lent") \in ptes, p \notin dead
      PROVE  \E x \in back : Pte(g, p, k) = [x EXCEPT !.kind = "own"]
  <2>1. Pte(g, p, "lent") \in back  BY <1>5, PteFacts
  <2>2. PICK y \in Ptes : y = Pte(g, p, "lent") /\ y.page = g /\ y.pid = p  BY <1>2, <1>5, PteFacts
  <2>3. [y EXCEPT !.kind = "own"] = Pte(g, p, "own")  BY <2>2, PteFacts
  <2>. QED  BY <1>5, <2>1, <2>2, <2>3
<1>. HIDE DEF stay, back
<1>. QED  BY <1>1, <1>3, <1>4, <1>5

\* Whose messages still carry pages.
LEMMA UnwindBufs ==
  ASSUME IpcState, NEW F, NEW K, NEW dead, NEW gone, NEW queues,
         LegalEnd(F, K, dead, gone), Unwind(F, K, dead, gone, queues), NEW g
  PROVE  /\ \A t \in Threads : g \in Buf(t)' <=> g \in Buf(t) /\ t \notin F \cup K
         /\ \A f \in Frames : g \in call'[f].lend <=> g \in call[f].lend /\ f \notin HeldBy(K)
<1>. USE DEF IpcState
<1>1. ASSUME NEW t \in Threads  PROVE g \in Buf(t)' <=> g \in Buf(t) /\ t \notin F \cup K
  <2>1. CASE t \in F \cup K
    <3>1. thread'[t].msg = NoMsg  BY <2>1, UnwindThreads, Constants
    <3>. QED  BY <2>1, <3>1, Constants DEF Buf
  <2>2. CASE t \notin F \cup K /\ t \in Told(K)
    <3>1. thread'[t].msg = NoMsg /\ thread[t].wait = "reply"  BY <2>2, UnwindThreads, ToldWait
    <3>2. thread[t].msg = NoMsg  BY <3>1 DEF Slotted, SlotOk
    <3>. QED  BY <3>1, <3>2, Constants DEF Buf
  <2>3. CASE t \notin F \cup K /\ t \notin Told(K)
    <3>1. thread'[t] = thread[t]  BY <2>3, UnwindThreads
    <3>. QED  BY <2>3, <3>1 DEF Buf
  <2>. QED  BY <2>1, <2>2, <2>3
<1>2. ASSUME NEW f \in Frames  PROVE g \in call'[f].lend <=> g \in call[f].lend /\ f \notin HeldBy(K)
  <2>1. gone \in SUBSET Endpoints  BY DEF LegalEnd
  <2>2. f \in HeldBy(K) => call'[f] = NoCall  BY <2>1, UnwindCalls
  <2>3. f \notin HeldBy(K) => call'[f].lend = call[f].lend  BY <2>1, UnwindCalls
  <2>. QED  BY <2>2, <2>3, Constants
<1>. QED  BY <1>1, <1>2

\* Which pages go home, are lost, or go to a server.
LEMMA UnwindFates ==
  ASSUME NEW F, NEW K, NEW g
  PROVE  /\ g \in Home(F, K) <=> \/ \E f \in HeldBy(K) : call[f].waiting /\ g \in call[f].lend
                                 \/ \E t \in F \cup K : Wait(t) = "send" /\ g \in Buf(t)
         /\ g \in Lost(K) <=> \E f \in HeldBy(K) : ~call[f].waiting /\ g \in call[f].lend
         /\ g \in Moved(F, K) <=> \E f \in AbandonedBy(F, K) : g \in call[f].lend
BY DEF Home, Lost, Moved, Lends, Withdrawn

\* Each page's users, owner and entries agree, still.
LEMMA UnwindPages ==
  ASSUME IpcState, NEW F, NEW K, NEW dead, NEW gone, NEW queues,
         LegalEnd(F, K, dead, gone), Unwind(F, K, dead, gone, queues)
  PROVE  Paged'
<1>. SUFFICES ASSUME NEW g \in Pages  PROVE PageOk(g)'
  BY DEF Paged
<1>. USE DEF IpcState
<1>1. UseOk(g) /\ OwnerOk(g) /\ PteOk(g)  BY DEF Paged, PageOk
<1>2. owner'[g] = CASE g \in Moved(F, K) -> Pid(Taker(F, K, g))
                    [] g \notin Moved(F, K) /\ (g \in Lost(K) \/ owner[g] \in dead) -> None
                    [] OTHER -> owner[g]
  <2>1. Unwound(F, K, dead, gone, queues)  BY UnwindDef
  <2>2. owner' = OwnerIn(F, K, dead)  BY <2>1, Zenon DEF Unwound
  <2>. QED  BY <2>2 DEF OwnerIn
<1>3. /\ \A t \in Threads : g \in Buf(t)' <=> g \in Buf(t) /\ t \notin F \cup K
      /\ \A f \in Frames : g \in call'[f].lend <=> g \in call[f].lend /\ f \notin HeldBy(K)
  BY UnwindBufs
<1>4. UseOk(g)'  BY <1>1, <1>3 DEF UseOk
<1>5. ASSUME NEW p \in Pids, NEW k \in {"own", "lent", "borrowed"}
      PROVE  Pte(g, p, k) \in ptes' <=>
                \/ /\ Pte(g, p, k) \in ptes /\ p \notin dead /\ g \notin Home(F, K) \cup Lost(K)
                   /\ g \in Moved(F, K) => k = "borrowed"
                \/ k = "own" /\ g \in Home(F, K) /\ Pte(g, p, "lent") \in ptes /\ p \notin dead
  BY UnwindPtes
<1>6. owner[g] \in Pids \cup {None} /\ None \notin Pids  BY NoneAssumption DEF TypeOK
<1>7. \A f \in Frames : f \notin HeldBy(K) =>
        /\ call'[f].server = call[f].server /\ call'[f].caller = call[f].caller
        /\ call'[f].waiting = (call[f].waiting /\ f \notin AbandonedBy(F, K))
  <2>1. gone \in SUBSET Endpoints  BY DEF LegalEnd
  <2>. QED  BY <2>1, UnwindCalls
<1>8. \A t \in Threads : Pid(t) \in Pids  BY KindsAssumption DEF Pid
<1>9. \A f \in Frames : f \in HeldBy(K) => f \notin AbandonedBy(F, K)  BY DEF HeldBy, AbandonedBy
<1>10. HeldBy(K) \subseteq Frames /\ AbandonedBy(F, K) \subseteq Frames  BY DEF HeldBy, AbandonedBy
<1>11. F \cup K \subseteq Threads  BY DEF LegalEnd, TypeOK
\* A queued message's page.
<1>12. ASSUME NEW t \in Threads, g \in Buf(t)  PROVE PageOk(g)'
  <2>1. thread[t].wait = "send" /\ t \in alive  BY <1>12, SenderSends
  <2>2. owner[g] = Pid(t) /\ (\A u \in Threads : g \in Buf(u) => u = t)
        /\ (\A f \in Frames : g \notin call[f].lend)
    BY <1>1, <1>12 DEF UseOk, OwnerOk
  <2>3. g \notin Lost(K) /\ g \notin Moved(F, K)  BY <2>2, <1>10, UnwindFates
  <2>4. g \in Home(F, K) <=> t \in F \cup K
    <3>1. g \in Home(F, K) <=> \/ \E f \in HeldBy(K) : call[f].waiting /\ g \in call[f].lend
                               \/ \E u \in F \cup K : Wait(u) = "send" /\ g \in Buf(u)
      BY UnwindFates
    <3>. QED  BY <3>1, <2>1, <2>2, <1>10, <1>11, <1>12 DEF Wait
  <2>5. \A p \in Pids : /\ Pte(g, p, "own") \notin ptes /\ Pte(g, p, "borrowed") \notin ptes
                        /\ Pte(g, p, "lent") \in ptes <=> p = Pid(t)
    BY <1>1, <1>12, <2>2 DEF PteOk
  <2>6. owner'[g] = IF Pid(t) \in dead THEN None ELSE Pid(t)  BY <1>2, <2>2, <2>3
  <2>7. CASE t \in F \cup K
    <3>1. (\A u \in Threads : g \notin Buf(u)') /\ (\A f \in Frames : g \notin call'[f].lend)
      BY <1>3, <2>2, <2>7
    <3>2. OwnerOk(g)'  BY <3>1 DEF OwnerOk
    <3>3. \A p \in Pids : /\ Pte(g, p, "own") \in ptes' <=> p = Pid(t) /\ p \notin dead
                          /\ Pte(g, p, "lent") \notin ptes' /\ Pte(g, p, "borrowed") \notin ptes'
      BY <1>5, <2>3, <2>4, <2>5, <2>7
    <3>4. PteOk(g)'  BY <3>1, <3>3, <2>6, <1>6, <1>8 DEF PteOk, Pte
    <3>. QED  BY <1>4, <3>2, <3>4 DEF PageOk
  <2>8. CASE t \notin F \cup K
    <3>1. Pid(t) \notin dead  BY <2>1, <2>8 DEF LegalEnd
    <3>2. g \in Buf(t)' /\ (\A u \in Threads : g \in Buf(u)' => u = t)
          /\ (\A f \in Frames : g \notin call'[f].lend)
      BY <1>3, <1>12, <2>2, <2>8
    <3>3. OwnerOk(g)'  BY <2>6, <3>1, <3>2 DEF OwnerOk, Pid
    <3>4. \A p \in Pids : /\ Pte(g, p, "own") \notin ptes' /\ Pte(g, p, "borrowed") \notin ptes'
                          /\ Pte(g, p, "lent") \in ptes' <=> p = Pid(t)
      BY <1>5, <2>3, <2>4, <2>5, <2>8, <3>1
    <3>5. PteOk(g)'  BY <2>6, <3>1, <3>2, <3>4 DEF PteOk, Pte
    <3>. QED  BY <1>4, <3>3, <3>5 DEF PageOk
  <2>. QED  BY <2>7, <2>8
\* An open call's.
<1>13. ASSUME NEW f \in Frames, g \in call[f].lend  PROVE PageOk(g)'
  <2>. DEFINE c == call[f].caller
              s == call[f].server
  <2>1. IsOpen(f) /\ c \in Threads /\ s \in Threads /\ call[f].waiting \in BOOLEAN  BY <1>13, CallTypes
  <2>2. (\A u \in Threads : g \notin Buf(u)) /\ (\A h \in Frames : g \in call[h].lend => h = f)
        /\ owner[g] = IF call[f].waiting THEN Pid(c) ELSE Pid(s)
    BY <1>1, <1>13 DEF UseOk, OwnerOk
  <2>3. \A p \in Pids : /\ Pte(g, p, "own") \notin ptes
                        /\ Pte(g, p, "lent") \in ptes <=> call[f].waiting /\ p = Pid(c)
                        /\ Pte(g, p, "borrowed") \in ptes <=> p = Pid(s)
    BY <1>1, <1>13, <2>2 DEF PteOk
  <2>4. /\ g \in Home(F, K) <=> f \in HeldBy(K) /\ call[f].waiting
        /\ g \in Lost(K) <=> f \in HeldBy(K) /\ ~call[f].waiting
        /\ g \in Moved(F, K) <=> f \in AbandonedBy(F, K)
    <3>1. /\ g \in Home(F, K) <=> \/ \E h \in HeldBy(K) : call[h].waiting /\ g \in call[h].lend
                                  \/ \E u \in F \cup K : Wait(u) = "send" /\ g \in Buf(u)
          /\ g \in Lost(K) <=> \E h \in HeldBy(K) : ~call[h].waiting /\ g \in call[h].lend
          /\ g \in Moved(F, K) <=> \E h \in AbandonedBy(F, K) : g \in call[h].lend
      BY UnwindFates
    <3>. QED  BY <3>1, <2>2, <1>10, <1>11, <1>13
  <2>5. \A u \in Threads : g \notin Buf(u)'  BY <1>3, <2>2
  <2>6. s \in alive  BY <2>1, ServerAlive
  <2>. HIDE DEF c, s
  <2>7. CASE f \in HeldBy(K)
    <3>1. \A h \in Frames : g \notin call'[h].lend  BY <1>3, <2>2, <2>7
    <3>2. OwnerOk(g)'  BY <2>5, <3>1 DEF OwnerOk
    <3>3. f \notin AbandonedBy(F, K)  BY <1>9, <2>7
    <3>4. owner'[g] = IF ~call[f].waiting \/ Pid(c) \in dead THEN None ELSE Pid(c)
      BY <1>2, <2>2, <2>4, <2>7, <3>3
    <3>5. \A p \in Pids : /\ Pte(g, p, "own") \in ptes' <=> call[f].waiting /\ p = Pid(c) /\ p \notin dead
                          /\ Pte(g, p, "lent") \notin ptes' /\ Pte(g, p, "borrowed") \notin ptes'
      BY <1>5, <2>3, <2>4, <2>7
    <3>6. PteOk(g)'  BY <2>5, <3>1, <3>4, <3>5, <1>6 DEF PteOk, Pte
    <3>. QED  BY <1>4, <3>2, <3>6 DEF PageOk
  <2>8. CASE f \notin HeldBy(K)
    <3>1. s \notin K  BY <2>1, <2>8 DEF HeldBy, s, IsOpen
    <3>2. Pid(s) \notin dead  BY <2>6, <3>1 DEF LegalEnd
    <3>3. g \in call'[f].lend /\ (\A h \in Frames : g \in call'[h].lend => h = f)
      BY <1>3, <1>13, <2>2, <2>8
    <3>4. call'[f].server = s /\ call'[f].caller = c
          /\ call'[f].waiting = (call[f].waiting /\ f \notin AbandonedBy(F, K))
      BY <1>7, <2>8 DEF s, c
    <3>5. CASE f \in AbandonedBy(F, K)
      <4>1. Taker(F, K, g) = s
        <5>1. (CHOOSE h \in AbandonedBy(F, K) : g \in call[h].lend) = f  BY <1>10, <1>13, <2>2, <3>5
        <5>. QED  BY <5>1 DEF Taker, s
      <4>2. owner'[g] = Pid(s)  BY <1>2, <2>4, <3>5, <4>1
      <4>3. OwnerOk(g)'  BY <2>5, <3>3, <3>4, <3>5, <4>2 DEF OwnerOk, Pid
      <4>4. \A p \in Pids : /\ Pte(g, p, "own") \notin ptes' /\ Pte(g, p, "lent") \notin ptes'
                            /\ Pte(g, p, "borrowed") \in ptes' <=> p = Pid(s)
        BY <1>5, <2>3, <2>4, <2>8, <3>2, <3>5
      <4>5. PteOk(g)'  BY <2>5, <3>3, <3>4, <3>5, <4>2, <4>4 DEF PteOk, Pte, Pid
      <4>. QED  BY <1>4, <4>3, <4>5 DEF PageOk
    <3>6. CASE f \notin AbandonedBy(F, K)
      <4>1. call[f].waiting => Pid(c) \notin dead
        <5>. SUFFICES ASSUME call[f].waiting  PROVE Pid(c) \notin dead
          OBVIOUS
        <5>1. c \in alive  BY CallerAlive DEF c
        <5>2. c \notin K  BY <3>1, <3>6 DEF AbandonedBy, c, s
        <5>. QED  BY <5>1, <5>2 DEF LegalEnd
      <4>2. owner'[g] = owner[g]  BY <1>2, <2>2, <2>4, <2>8, <3>2, <3>6, <4>1
      <4>3. OwnerOk(g)'  BY <2>1, <2>2, <2>5, <3>3, <3>4, <3>6, <4>2 DEF OwnerOk, Pid
      <4>4. \A p \in Pids : /\ Pte(g, p, "own") \notin ptes'
                            /\ Pte(g, p, "lent") \in ptes' <=> call[f].waiting /\ p = Pid(c)
                            /\ Pte(g, p, "borrowed") \in ptes' <=> p = Pid(s)
        BY <1>5, <2>3, <2>4, <2>8, <3>2, <3>6, <4>1
      <4>5. PteOk(g)'  BY <2>2, <2>5, <3>3, <3>4, <3>6, <4>2, <4>4 DEF PteOk, Pte, Pid
      <4>. QED  BY <1>4, <4>3, <4>5 DEF PageOk
    <3>. QED  BY <3>5, <3>6
  <2>. QED  BY <2>7, <2>8
\* Nobody's.
<1>14. ASSUME \A t \in Threads : g \notin Buf(t), \A f \in Frames : g \notin call[f].lend  PROVE PageOk(g)'
  <2>1. g \notin Home(F, K) /\ g \notin Lost(K) /\ g \notin Moved(F, K)
    BY <1>10, <1>11, <1>14, UnwindFates
  <2>2. (\A u \in Threads : g \notin Buf(u)') /\ (\A f \in Frames : g \notin call'[f].lend)
    BY <1>3, <1>14
  <2>3. owner'[g] = IF owner[g] \in dead THEN None ELSE owner[g]  BY <1>2, <2>1
  <2>4. \A p \in Pids : /\ Pte(g, p, "own") \in ptes' <=> owner[g] = p /\ p \notin dead
                        /\ Pte(g, p, "lent") \notin ptes' /\ Pte(g, p, "borrowed") \notin ptes'
    BY <1>1, <1>5, <1>14, <2>1 DEF PteOk
  <2>5. PteOk(g)'  BY <2>2, <2>3, <2>4, <1>6 DEF PteOk, Pte
  <2>6. OwnerOk(g)'  BY <2>2 DEF OwnerOk
  <2>. QED  BY <1>4, <2>5, <2>6 DEF PageOk
<1>. QED  BY <1>12, <1>13, <1>14

-----------------------------------------------------------------------------
(* Charges. *)

Items == Frames \X (Pages \cup {None})

\* What budget b pays open calls for, what closing C and abandoning A gives it back, the pages
\* its processes own, and the calls a process holds.
Bill(b) == {x \in Items : /\ IsOpen(x[1]) /\ call[x[1]].payer = b
                          /\ x[2] = None \/ (call[x[1]].waiting /\ x[2] \in call[x[1]].lend)}
Refund(C, A, b) ==
  {x \in Items : /\ call[x[1]].payer = b
                 /\ \/ x[1] \in C /\ (x[2] = None \/ (call[x[1]].waiting /\ x[2] \in call[x[1]].lend))
                    \/ x[1] \in A /\ x[2] \in call[x[1]].lend}
OwnedSet(own, b) == {g \in Pages : own[g] # None /\ BudgetOf[own[g]] = b}
HeldIn(p) == {f \in Frames : IsOpen(f) /\ Pid(call[f].server) = p}

\* What is counted is finite.
LEMMA Finite ==
  /\ IsFiniteSet(Items) /\ IsFiniteSet(Frames) /\ IsFiniteSet(Pages)
  /\ \A S \in SUBSET Items : IsFiniteSet(S) /\ Cardinality(S) \in Nat
  /\ \A S \in SUBSET Frames : IsFiniteSet(S) /\ Cardinality(S) \in Nat
  /\ \A S \in SUBSET Pages : IsFiniteSet(S) /\ Cardinality(S) \in Nat
<1>1. IsFiniteSet(Frames) /\ IsFiniteSet(Pages)  BY BoundsAssumption
<1>2. IsFiniteSet(Pages \cup {None})  BY <1>1, FS_AddElement
<1>3. IsFiniteSet(Items)  BY <1>1, <1>2, FS_Product DEF Items
<1>. QED  BY <1>1, <1>3, FS_Subset, FS_CardinalityType

\* The pages a budget's processes own.
LEMMA OwnedIs ==
  ASSUME NEW own, NEW b
  PROVE  /\ Owned(own, b) = Cardinality(OwnedSet(own, b)) /\ OwnedSet(own, b) \in SUBSET Pages
         /\ Owned(own, b) \in Nat
<1>1. Owned(own, b) = Cardinality(OwnedSet(own, b))  BY DEF Owned, OwnedSet
<1>2. OwnedSet(own, b) \in SUBSET Pages  BY DEF OwnedSet
<1>. QED  BY <1>1, <1>2, Finite

\* What ChargesBalance counts of open calls is the bill.
LEMMA BillIs ==
  ASSUME TypeOK, NEW b
  PROVE  /\ UNION {OpenPage(f) \cup IF call[f].waiting THEN LendPages(f) ELSE {} :
                     f \in {f \in Frames : call[f] # NoCall /\ call[f].payer = b}} = Bill(b)
         /\ Bill(b) \in SUBSET Items /\ IsFiniteSet(Bill(b)) /\ Cardinality(Bill(b)) \in Nat
<1>. DEFINE Part(f) == OpenPage(f) \cup IF call[f].waiting THEN LendPages(f) ELSE {}
            Mine == {f \in Frames : call[f] # NoCall /\ call[f].payer = b}
<1>1. ASSUME NEW f \in Frames, NEW x
      PROVE  x \in Part(f) <=>
               /\ x \in Items /\ x[1] = f
               /\ x[2] = None \/ (call[x[1]].waiting /\ x[2] \in call[x[1]].lend)
  <2>1. call[f].lend \in SUBSET Pages /\ call[f].waiting \in BOOLEAN  BY CallTypes
  <2>2. x \in OpenPage(f) <=> x \in Items /\ x[1] = f /\ x[2] = None  BY DEF OpenPage, Items
  <2>3. x \in LendPages(f) <=> x \in Items /\ x[1] = f /\ x[2] \in call[f].lend
    BY <2>1 DEF LendPages, Items
  <2>. QED  BY <2>1, <2>2, <2>3
<1>2. \A x : x \in UNION {Part(f) : f \in Mine} <=> \E f \in Mine : x \in Part(f)  OBVIOUS
<1>3. \A x : x \in Bill(b) <=> \E f \in Mine : x \in Part(f)
  <2>. SUFFICES ASSUME NEW x  PROVE x \in Bill(b) <=> \E f \in Mine : x \in Part(f)
    OBVIOUS
  <2>1. x \in Items => x[1] \in Frames  BY DEF Items
  <2>2. ASSUME x \in Bill(b)  PROVE \E f \in Mine : x \in Part(f)
    <3>1. x[1] \in Mine /\ x \in Items  BY <2>1, <2>2 DEF Bill, IsOpen
    <3>2. x \in Part(x[1])
      <4>. HIDE DEF Part
      <4>. QED  BY <1>1, <2>2, <3>1 DEF Bill
    <3>. QED  BY <3>1, <3>2
  <2>3. ASSUME NEW f \in Mine, x \in Part(f)  PROVE x \in Bill(b)
    <3>. HIDE DEF Part
    <3>. QED  BY <1>1, <2>3 DEF Bill, IsOpen
  <2>. QED  BY <2>2, <2>3
<1>4. UNION {Part(f) : f \in Mine} = Bill(b)
  <2>. HIDE DEF Part, Mine
  <2>. QED  BY <1>2, <1>3
<1>5. Bill(b) \in SUBSET Items  BY DEF Bill
<1>. QED  BY <1>4, <1>5, Finite

\* What Uncharged gives back is the refund.
LEMMA RefundIs ==
  ASSUME TypeOK, NEW C \in SUBSET Frames, NEW A \in SUBSET Frames, NEW own, NEW b \in Budgets
  PROVE  /\ Uncharged(own, C, A)[b] =
              used[b] + Owned(own, b) - Owned(owner, b) - Cardinality(Refund(C, A, b))
         /\ Refund(C, A, b) \in SUBSET Items
<1>. DEFINE CC == {f \in C : call[f].payer = b}
            AA == {f \in A : call[f].payer = b}
            U == UNION ({CloseCharge(f) : f \in CC} \cup {LendPages(f) : f \in AA})
<1>1. Uncharged(own, C, A)[b] = used[b] + Owned(own, b) - Owned(owner, b) - Cardinality(U)
  BY DEF Uncharged
<1>2. ASSUME NEW f \in Frames, NEW x
      PROVE  /\ x \in CloseCharge(f) <=>
                  /\ x \in Items /\ x[1] = f
                  /\ x[2] = None \/ (call[x[1]].waiting /\ x[2] \in call[x[1]].lend)
             /\ x \in LendPages(f) <=> x \in Items /\ x[1] = f /\ x[2] \in call[x[1]].lend
  <2>1. call[f].lend \in SUBSET Pages /\ call[f].waiting \in BOOLEAN  BY CallTypes
  <2>2. x \in OpenPage(f) <=> x \in Items /\ x[1] = f /\ x[2] = None  BY DEF OpenPage, Items
  <2>3. x \in LendPages(f) <=> x \in Items /\ x[1] = f /\ x[2] \in call[f].lend
    BY <2>1 DEF LendPages, Items
  <2>. QED  BY <2>1, <2>2, <2>3 DEF CloseCharge
<1>3. \A x : x \in U <=> (\E f \in CC : x \in CloseCharge(f)) \/ (\E f \in AA : x \in LendPages(f))
  OBVIOUS
<1>4. ASSUME NEW x  PROVE x \in U <=> x \in Refund(C, A, b)
  <2>1. x \in Items => x[1] \in Frames  BY DEF Items
  <2>2. ASSUME x \in Refund(C, A, b)  PROVE x \in U
    <3>1. x \in Items /\ x[1] \in Frames  BY <2>1, <2>2 DEF Refund
    <3>2. \/ x[1] \in CC /\ x \in CloseCharge(x[1])
          \/ x[1] \in AA /\ x \in LendPages(x[1])
      BY <1>2, <2>2, <3>1 DEF Refund
    <3>. QED  BY <1>3, <3>2
  <2>3. ASSUME x \in U  PROVE x \in Refund(C, A, b)  BY <1>2, <1>3, <2>3 DEF Refund
  <2>. QED  BY <2>2, <2>3
<1>5. U = Refund(C, A, b)
  <2>. HIDE DEF U
  <2>. QED  BY <1>4
<1>6. Refund(C, A, b) \in SUBSET Items  BY DEF Refund
<1>. HIDE DEF U
<1>. QED  BY <1>1, <1>5, <1>6

\* The balance, in these terms.
Balanced ==
  /\ \A b \in Budgets : used[b] = Owned(owner, b) + Cardinality(Bill(b))
  /\ \A p \in Pids : opencalls[p] = Cardinality(HeldIn(p))

\* ChargesBalance, in these terms.
LEMMA BalanceIs == TypeOK => (ChargesBalance <=> Balanced)
<1>. SUFFICES ASSUME TypeOK  PROVE ChargesBalance <=> Balanced
  OBVIOUS
<1>. DEFINE Sum(b) == UNION {OpenPage(f) \cup IF call[f].waiting THEN LendPages(f) ELSE {} :
                               f \in {f \in Frames : call[f] # NoCall /\ call[f].payer = b}}
<1>1. ChargesBalance <=>
        /\ \A b \in Budgets : used[b] = Owned(owner, b) + Cardinality(Sum(b))
        /\ \A p \in Pids : opencalls[p] = Cardinality(HeldIn(p))
  BY DEF ChargesBalance, HeldIn, IsOpen
<1>2. \A b \in Budgets : Sum(b) = Bill(b)  BY BillIs
<1>. HIDE DEF Sum
<1>. QED  BY <1>1, <1>2 DEF Balanced

\* The same after a step.
LEMMA BalanceAfter == TypeOK' => (ChargesBalance' <=> Balanced')
BY BalanceIs, PTL

\* A part taken out of a finite set.
LEMMA Remainder ==
  ASSUME NEW S, IsFiniteSet(S), NEW R \in SUBSET S, NEW T, T = S \ R
  PROVE  /\ IsFiniteSet(R) /\ IsFiniteSet(T) /\ Cardinality(R) \in Nat /\ Cardinality(S) \in Nat
         /\ Cardinality(T) \in Nat /\ Cardinality(T) = Cardinality(S) - Cardinality(R)
<1>1. IsFiniteSet(R) /\ S \cap R = R  BY FS_Subset
<1>2. IsFiniteSet(T) /\ Cardinality(T) = Cardinality(S) - Cardinality(R)  BY <1>1, FS_Difference
<1>. QED  BY <1>1, <1>2, FS_CardinalityType

\* The charges balance, still.
LEMMA UnwindCharges ==
  ASSUME IpcState, NEW F, NEW K, NEW dead, NEW gone, NEW queues,
         LegalEnd(F, K, dead, gone), Unwind(F, K, dead, gone, queues)
  PROVE  /\ Balanced'
         /\ used' \in [Budgets -> Nat] /\ \A b \in Budgets : used'[b] <= Limit[b]
         /\ opencalls' \in [Pids -> 0 .. MaxOpenCalls]
<1>. USE DEF IpcState
<1>. DEFINE C == HeldBy(K)
            A == AbandonedBy(F, K)
            own == OwnerIn(F, K, dead)
<1>1. Unwound(F, K, dead, gone, queues)  BY UnwindDef
<1>2. owner' = own /\ used' = Uncharged(own, C, A)  BY <1>1, Zenon DEF Unwound
<1>3. opencalls' = [p \in Pids |-> opencalls[p] - Cardinality({f \in C : Pid(call[f].server) = p})]
  BY <1>1, Zenon DEF Unwound
<1>4. C \in SUBSET Frames /\ A \in SUBSET Frames  BY DEF HeldBy, AbandonedBy
<1>5. gone \in SUBSET Endpoints  BY DEF LegalEnd
<1>6. Balanced  BY BalanceIs
<1>7. \A f \in C : IsOpen(f) /\ f \notin A  BY DEF HeldBy, IsOpen, AbandonedBy
<1>8. \A f \in A : IsOpen(f) /\ call[f].waiting  BY CallTypes DEF AbandonedBy
<1>9. \A f \in Frames : f \in C => ~IsOpen(f)'
  <2>. SUFFICES ASSUME NEW f \in C  PROVE ~IsOpen(f)'
    OBVIOUS
  <2>1. call'[f] = NoCall  BY <1>4, <1>5, UnwindCalls
  <2>. QED  BY <2>1 DEF IsOpen
<1>10. \A f \in Frames : f \notin C =>
         /\ call'[f].server = call[f].server /\ call'[f].payer = call[f].payer
         /\ call'[f].lend = call[f].lend /\ (IsOpen(f)' <=> IsOpen(f))
         /\ call'[f].waiting = (call[f].waiting /\ f \notin A)
  BY <1>5, UnwindCalls
<1>. HIDE DEF C, A, own
<1>11. ASSUME NEW b \in Budgets
       PROVE  /\ used'[b] = Owned(owner', b) + Cardinality(Bill(b)')
              /\ used'[b] \in Nat /\ used'[b] <= Limit[b]
  <2>. DEFINE R == Refund(C, A, b)
  <2>1. used'[b] = used[b] + Owned(own, b) - Owned(owner, b) - Cardinality(R) /\ R \in SUBSET Items
    BY <1>2, <1>4, RefundIs
  <2>2. R \in SUBSET Bill(b)
    <3>. SUFFICES ASSUME NEW x \in R  PROVE x \in Bill(b)
      OBVIOUS
    <3>1. x \in Items /\ x[1] \in Frames  BY DEF Refund, Items
    <3>. QED  BY <3>1, <1>7, <1>8 DEF Refund, Bill
  <2>3. Bill(b)' = Bill(b) \ R
    <3>1. ASSUME NEW x \in Items  PROVE x \in Bill(b)' <=> x \in Bill(b) /\ x \notin R
      <4>1. x[1] \in Frames /\ x[2] \in Pages \cup {None}  BY DEF Items
      <4>2. call[x[1]].lend \in SUBSET Pages /\ call[x[1]].waiting \in BOOLEAN  BY <4>1, CallTypes
      <4>3. x[2] = None => x[2] \notin call[x[1]].lend  BY <4>2, NoneAssumption
      <4>4. CASE x[1] \in C  BY <4>1, <4>4, <1>9 DEF Bill, Refund
      <4>5. CASE x[1] \notin C  BY <4>1, <4>2, <4>3, <4>5, <1>8, <1>10 DEF Bill, Refund
      <4>. QED  BY <4>4, <4>5
    <3>2. Bill(b)' \in SUBSET Items /\ Bill(b) \in SUBSET Items  BY DEF Bill, Items
    <3>. QED  BY <3>1, <3>2
  <2>4. IsFiniteSet(Bill(b))  BY BillIs
  <2>. HIDE DEF R
  <2>5. /\ Cardinality(R) \in Nat /\ Cardinality(Bill(b)) \in Nat /\ Cardinality(Bill(b)') \in Nat
        /\ Cardinality(Bill(b)') = Cardinality(Bill(b)) - Cardinality(R)
    BY <2>2, <2>3, <2>4, Remainder
  <2>6. used[b] = Owned(owner, b) + Cardinality(Bill(b))  BY <1>6 DEF Balanced
  <2>7. Owned(owner, b) \in Nat /\ Owned(own, b) \in Nat  BY OwnedIs
  <2>8. used'[b] = Owned(own, b) + Cardinality(Bill(b)')  BY <2>1, <2>5, <2>6, <2>7
  <2>9. Owned(own, b) <= Owned(owner, b) + Cardinality(R)
    <3>. DEFINE M == {g \in Pages : \E f \in A : g \in call[f].lend /\ call[f].payer = b}
                j == [g \in M |-> <<CHOOSE f \in A : g \in call[f].lend /\ call[f].payer = b, g>>]
    <3>1. \A g \in M : j[g] \in R /\ j[g][2] = g
      <4>. SUFFICES ASSUME NEW g \in M  PROVE j[g] \in R /\ j[g][2] = g
        OBVIOUS
      <4>. DEFINE h == CHOOSE f \in A : g \in call[f].lend /\ call[f].payer = b
      <4>1. \E f \in A : g \in call[f].lend /\ call[f].payer = b  OBVIOUS
      <4>2. h \in A /\ g \in call[h].lend /\ call[h].payer = b  BY <4>1
      <4>3. j[g] = <<h, g>>  OBVIOUS
      <4>. HIDE DEF h, j
      <4>. QED  BY <1>4, <4>2, <4>3 DEF R, Refund, Items
    <3>2. j \in Injection(M, R)
      <4>1. j \in [M -> R]  BY <3>1
      <4>2. \A g, h \in M : j[g] = j[h] => g = h
        <5>. HIDE DEF j
        <5>. QED  BY <3>1
      <4>. HIDE DEF j, M
      <4>. QED  BY <4>1, <4>2 DEF Injection, IsInjective
    <3>3. IsFiniteSet(R)  BY <2>2, <2>4, FS_Subset
    <3>4. IsFiniteSet(M) /\ Cardinality(M) <= Cardinality(R) /\ Cardinality(M) \in Nat
      <4>. HIDE DEF M, j
      <4>. QED  BY <3>2, <3>3, FS_Injection, FS_CardinalityType
    <3>5. OwnedSet(own, b) \in SUBSET (OwnedSet(owner, b) \cup M)
      <4>. SUFFICES ASSUME NEW g \in Pages, own[g] # None, BudgetOf[own[g]] = b
                    PROVE  g \in OwnedSet(owner, b) \cup M
        BY DEF OwnedSet
      <4>1. own[g] = CASE g \in Moved(F, K) -> Pid(Taker(F, K, g))
                       [] g \notin Moved(F, K) /\ (g \in Lost(K) \/ owner[g] \in dead) -> None
                       [] OTHER -> owner[g]
        BY DEF own, OwnerIn
      <4>2. CASE g \in Moved(F, K)
        <5>1. \E f \in A : g \in call[f].lend  BY <4>2, UnwindFates DEF A
        <5>. DEFINE h == CHOOSE f \in A : g \in call[f].lend
        <5>2. h \in A /\ g \in call[h].lend  BY <5>1
        <5>3. own[g] = Pid(call[h].server)  BY <4>1, <4>2 DEF Taker, A
        <5>. HIDE DEF h
        <5>4. call[h].payer = Budget(call[h].server)  BY <1>4, <1>8, <5>2 DEF Called, CallOk
        <5>5. call[h].payer = b  BY <5>3, <5>4 DEF Budget, Pid
        <5>. QED  BY <5>2, <5>5
      <4>3. CASE g \notin Moved(F, K)
        <5>1. own[g] = owner[g]  BY <4>1, <4>3
        <5>. QED  BY <5>1 DEF OwnedSet
      <4>. QED  BY <4>2, <4>3
    <3>. HIDE DEF M
    <3>6. IsFiniteSet(OwnedSet(owner, b)) /\ OwnedSet(owner, b) \in SUBSET Pages  BY OwnedIs, Finite
    <3>7. /\ IsFiniteSet(OwnedSet(owner, b) \cup M)
          /\ Cardinality(OwnedSet(owner, b) \cup M) =
               Cardinality(OwnedSet(owner, b)) + Cardinality(M) - Cardinality(OwnedSet(owner, b) \cap M)
      BY <3>4, <3>6, FS_Union
    <3>8. Cardinality(OwnedSet(owner, b) \cap M) \in Nat
      <4>1. IsFiniteSet(OwnedSet(owner, b) \cap M)  BY <3>6, FS_Intersection
      <4>. QED  BY <4>1, FS_CardinalityType
    <3>9. Cardinality(OwnedSet(own, b)) <= Cardinality(OwnedSet(owner, b) \cup M)  BY <3>5, <3>7, FS_Subset
    <3>10. Owned(owner, b) = Cardinality(OwnedSet(owner, b)) /\ Owned(own, b) = Cardinality(OwnedSet(own, b))
      BY OwnedIs
    <3>. QED  BY <2>5, <2>7, <3>4, <3>7, <3>8, <3>9, <3>10
  <2>10. used[b] \in Nat /\ used[b] <= Limit[b] /\ Limit[b] \in Nat  BY KindsAssumption DEF TypeOK
  <2>. QED  BY <1>2, <2>1, <2>5, <2>7, <2>8, <2>9, <2>10
<1>12. ASSUME NEW p \in Pids
       PROVE  opencalls'[p] = Cardinality(HeldIn(p)') /\ opencalls'[p] \in 0 .. MaxOpenCalls
  <2>. DEFINE R == {f \in C : Pid(call[f].server) = p}
  <2>1. opencalls'[p] = opencalls[p] - Cardinality(R)  BY <1>3
  <2>2. R \in SUBSET HeldIn(p)  BY <1>4, <1>7 DEF HeldIn
  <2>3. HeldIn(p)' = HeldIn(p) \ R
    <3>1. ASSUME NEW f \in Frames  PROVE f \in HeldIn(p)' <=> f \in HeldIn(p) /\ f \notin R
      <4>1. CASE f \in C  BY <4>1, <1>9 DEF HeldIn
      <4>2. CASE f \notin C  BY <4>2, <1>10 DEF HeldIn, Pid
      <4>. QED  BY <4>1, <4>2
    <3>2. HeldIn(p)' \subseteq Frames /\ HeldIn(p) \subseteq Frames  BY DEF HeldIn
    <3>. QED  BY <3>1, <3>2
  <2>4. IsFiniteSet(HeldIn(p))  BY Finite DEF HeldIn
  <2>. HIDE DEF R
  <2>5. /\ Cardinality(R) \in Nat /\ Cardinality(HeldIn(p)) \in Nat /\ Cardinality(HeldIn(p)') \in Nat
        /\ Cardinality(HeldIn(p)') = Cardinality(HeldIn(p)) - Cardinality(R)
    BY <2>2, <2>3, <2>4, Remainder
  <2>6. opencalls[p] = Cardinality(HeldIn(p)) /\ opencalls[p] \in 0 .. MaxOpenCalls
    BY <1>6 DEF Balanced, TypeOK
  <2>7. MaxOpenCalls \in Nat  BY BoundsAssumption
  <2>. QED  BY <2>1, <2>5, <2>6, <2>7
<1>13. DOMAIN used' = Budgets  BY <1>2 DEF Uncharged
<1>14. used' \in [Budgets -> Nat]
  <2>1. used' = [b \in Budgets |-> used'[b]]  BY <1>2 DEF Uncharged
  <2>. QED  BY <1>11, <2>1
<1>15. opencalls' \in [Pids -> 0 .. MaxOpenCalls]
  <2>1. opencalls' = [p \in Pids |-> opencalls'[p]]  BY <1>3
  <2>. QED  BY <1>12, <2>1
<1>. QED  BY <1>11, <1>12, <1>14, <1>15 DEF Balanced

\* What an unwinding tells callers.
LEMMA UnwindSays ==
  ASSUME NEW F, NEW K, NEW dead, NEW gone, NEW queues, Unwind(F, K, dead, gone, queues), NEW r \in told'
  PROVE  \/ \E t \in F : Wait(t) = "send" /\ r \in Tell(t, "returned", Buf(t))
         \/ \E f \in AbandonedBy(F, K) : r \in Tell(call[f].caller, "consumed", call[f].lend)
         \/ \E f \in Answered(K) : r \in Tell(call[f].caller, "returned", call[f].lend)
<1>. DEFINE X == {Tell(t, "returned", Buf(t)) :
                    t \in {t \in F : Wait(t) = "send" /\ thread[t].msg.kind = "call"}}
            Y == {Tell(call[f].caller, "consumed", call[f].lend) :
                    f \in {f \in AbandonedBy(F, K) : call[f].caller \in F}}
            Z == {Tell(call[f].caller, "returned", call[f].lend) : f \in Answered(K)}
<1>0. Unwound(F, K, dead, gone, queues)  BY UnwindDef
<1>1. told' = UNION (X \cup Y \cup Z)  BY <1>0, Zenon DEF Unwound
<1>2. \A S \in X : \E t \in F : Wait(t) = "send" /\ S = Tell(t, "returned", Buf(t))  OBVIOUS
<1>3. \A S \in Y : \E f \in AbandonedBy(F, K) : S = Tell(call[f].caller, "consumed", call[f].lend)
  OBVIOUS
<1>4. \A S \in Z : \E f \in Answered(K) : S = Tell(call[f].caller, "returned", call[f].lend)  OBVIOUS
<1>. HIDE DEF X, Y, Z
<1>5. (\E S \in X : r \in S) \/ (\E S \in Y : r \in S) \/ (\E S \in Z : r \in S)  BY <1>1
<1>. QED  BY <1>2, <1>3, <1>4, <1>5, ZenonT(60)

\* The variables keep their types.
LEMMA UnwindTypes ==
  ASSUME IpcState, NEW F, NEW K, NEW dead, NEW gone, NEW queues, SameLines(queues),
         LegalEnd(F, K, dead, gone), Unwind(F, K, dead, gone, queues),
         budgets' \subseteq Budgets, exits' \in [Endpoints -> Seq(Pids)],
         pumps' \subseteq Endpoints, entry' \in Threads \cup {None}
  PROVE  TypeOK'
<1>. USE DEF IpcState
<1>1. Unwound(F, K, dead, gone, queues)  BY UnwindDef
<1>2. gone \in SUBSET Endpoints  BY DEF LegalEnd
<1>3. alive' \subseteq Threads
  <2>1. alive' = alive \ K  BY <1>1, Zenon DEF Unwound
  <2>. QED  BY <2>1 DEF TypeOK
<1>4. thread' \in [Threads -> Slots]
  <2>1. thread' = [t \in Threads |-> thread'[t]]
    <3>1. thread' = [x \in Threads |->
                       IF x \in K THEN Idle
                       ELSE IF x \in F \cup Told(K) THEN Woken(thread[x]) ELSE thread[x]]
      BY <1>1, Zenon DEF Unwound
    <3>. QED  BY <3>1
  <2>2. \A t \in Threads : thread'[t] \in Slots  BY UnwindThreads
  <2>. QED  BY <2>1, <2>2
<1>5. line' \in [Endpoints -> Seq(Tokens)]
  <2>. DEFINE W == Withdrawn(F, K)
  <2>1. line' = [e \in Endpoints |-> Dequeue(queues[e], W)]  BY <1>1, Zenon DEF Unwound
  <2>. HIDE DEF W
  <2>2. ASSUME NEW q \in Seq(Tokens)  PROVE Dequeue(q, W) \in Seq(Tokens)
    <3>. DEFINE left == {i \in DOMAIN q : q[i].thread \notin W}
                P == {i \in left : \E j \in left : q[j].group = q[i].group /\ q[j].thread # None}
    <3>1. P \in SUBSET DOMAIN q /\ Dequeue(q, W) = Kept(q, P)  BY DEF Dequeue
    <3>. HIDE DEF P
    <3>. QED  BY <3>1, KeptPlaces
  <2>3. \A e \in Endpoints : queues[e] \in Seq(Tokens)  BY DEF SameLines
  <2>. QED  BY <2>1, <2>2, <2>3
<1>6. receivers' \in [Endpoints -> Seq(Threads)]
  <2>. DEFINE S == F \cup K
  <2>1. receivers' = [e \in Endpoints |-> Without(receivers[e], S)]  BY <1>1, Zenon DEF Unwound
  <2>2. \A e \in Endpoints : receivers[e] \in Seq(Threads)  BY DEF TypeOK
  <2>. HIDE DEF S
  <2>3. \A q \in Seq(Threads) : Without(q, S) \in Seq(Threads)  BY WithoutFacts
  <2>. QED  BY <2>1, <2>2, <2>3
<1>7. call' \in [Frames -> Calls \cup {NoCall}]
  <2>1. call' = [f \in Frames |-> call'[f]]
    <3>. DEFINE E(x) ==
                 CASE x \in HeldBy(K) -> NoCall
                   [] x \in AbandonedBy(F, K) ->
                        [call[x] EXCEPT !.waiting = FALSE, !.notice = call[x].endpoint \notin gone]
                   [] x \notin HeldBy(K) \cup AbandonedBy(F, K) /\ call[x].endpoint \in gone
                        -> [call[x] EXCEPT !.notice = FALSE]
                   [] OTHER -> call[x]
    <3>1. call' = [x \in Frames |-> E(x)]  BY <1>1, Zenon DEF Unwound
    <3>. HIDE DEF E
    <3>. QED  BY <3>1
  <2>2. \A f \in Frames : call'[f] \in Calls \cup {NoCall}  BY <1>2, UnwindCalls
  <2>. QED  BY <2>1, <2>2
<1>8. owner' \in [Pages -> Pids \cup {None}]
  <2>1. owner' = OwnerIn(F, K, dead)  BY <1>1, Zenon DEF Unwound
  <2>2. ASSUME NEW g \in Moved(F, K)  PROVE Pid(Taker(F, K, g)) \in Pids
    <3>1. \E f \in AbandonedBy(F, K) : g \in call[f].lend  BY UnwindFates
    <3>. DEFINE h == CHOOSE f \in AbandonedBy(F, K) : g \in call[f].lend
    <3>2. h \in AbandonedBy(F, K)  BY <3>1
    <3>3. h \in Frames /\ call[h].waiting  BY <3>2 DEF AbandonedBy
    <3>. HIDE DEF h
    <3>4. call[h].server \in Threads  BY <3>3, CallTypes
    <3>. QED  BY <3>4, KindsAssumption DEF Taker, Pid, h
  <2>3. \A g \in Pages : owner[g] \in Pids \cup {None}  BY DEF TypeOK
  <2>4. ASSUME NEW g \in Pages  PROVE OwnerIn(F, K, dead)[g] \in Pids \cup {None}
    BY <2>2, <2>3 DEF OwnerIn
  <2>5. OwnerIn(F, K, dead) = [g \in Pages |-> OwnerIn(F, K, dead)[g]]  BY DEF OwnerIn
  <2>. QED  BY <2>1, <2>4, <2>5
<1>9. ptes' \subseteq Ptes
  <2>. DEFINE stay == {x \in ptes : /\ x.pid \notin dead /\ x.page \notin Home(F, K) \cup Lost(K)
                                    /\ x.page \in Moved(F, K) => x.kind = "borrowed"}
              back == {x \in ptes : x.page \in Home(F, K) /\ x.kind = "lent" /\ x.pid \notin dead}
  <2>1. ptes' = stay \cup {[x EXCEPT !.kind = "own"] : x \in back}  BY <1>1, Zenon DEF Unwound
  <2>2. stay \subseteq Ptes /\ back \subseteq Ptes  BY DEF TypeOK
  <2>3. \A x \in Ptes : [x EXCEPT !.kind = "own"] \in Ptes  BY DEF Ptes
  <2>. HIDE DEF stay, back
  <2>. QED  BY <2>1, <2>2, <2>3
<1>10. used' \in [Budgets -> Nat] /\ (\A b \in Budgets : used'[b] <= Limit[b])
       /\ opencalls' \in [Pids -> 0 .. MaxOpenCalls]
  BY UnwindCharges
<1>11. told' \subseteq [to : Threads, lend : {"returned", "consumed"}, buf : SUBSET Pages]
  <2>. SUFFICES ASSUME NEW r \in told'
                PROVE  r \in [to : Threads, lend : {"returned", "consumed"}, buf : SUBSET Pages]
    OBVIOUS
  <2>. DEFINE R == [to : Threads, lend : {"returned", "consumed"}, buf : SUBSET Pages]
  <2>1. \/ \E t \in F : r \in Tell(t, "returned", Buf(t))
        \/ \E f \in AbandonedBy(F, K) : r \in Tell(call[f].caller, "consumed", call[f].lend)
        \/ \E f \in Answered(K) : r \in Tell(call[f].caller, "returned", call[f].lend)
    BY UnwindSays
  <2>2. ASSUME NEW t \in Threads, NEW d \in {"returned", "consumed"}, NEW buf \in SUBSET Pages
        PROVE  Tell(t, d, buf) \subseteq R
    BY DEF Tell
  <2>3. \A t \in F : t \in Threads /\ Buf(t) \in SUBSET Pages
    <3>. SUFFICES ASSUME NEW t \in F  PROVE t \in Threads /\ Buf(t) \in SUBSET Pages
      OBVIOUS
    <3>1. t \in Threads  BY DEF LegalEnd, TypeOK
    <3>2. thread[t].msg \in Msgs  BY <3>1, SlotTypes DEF TypeOK
    <3>. QED  BY <3>1, <3>2, MsgTypes DEF Buf
  <2>4. ASSUME NEW f \in Frames, call[f].waiting
        PROVE  call[f].caller \in Threads /\ call[f].lend \in SUBSET Pages
    BY <2>4, CallTypes
  <2>5. \A f \in AbandonedBy(F, K) \cup Answered(K) : f \in Frames /\ call[f].waiting
    BY DEF AbandonedBy, Answered, HeldBy
  <2>. HIDE DEF R
  <2>6. r \in R  BY <2>1, <2>2, <2>3, <2>4, <2>5
  <2>. QED  BY <2>6 DEF R
<1>. QED  BY <1>3, <1>4, <1>5, <1>6, <1>7, <1>8, <1>9, <1>10, <1>11 DEF TypeOK

\* What callers are told of their lends is so.
LEMMA UnwindTold ==
  ASSUME IpcState, NEW F, NEW K, NEW dead, NEW gone, NEW queues,
         LegalEnd(F, K, dead, gone), Unwind(F, K, dead, gone, queues)
  PROVE  LendTold'
<1>. USE DEF IpcState
<1>1. Unwound(F, K, dead, gone, queues)  BY UnwindDef
<1>2. gone \in SUBSET Endpoints  BY DEF LegalEnd
<1>3. \A t \in Threads : Pid(t) \in Pids  BY KindsAssumption DEF Pid
\* Pages that go home are their lender's again.
<1>4. ASSUME NEW t \in alive, t \notin K, NEW g \in Pages, g \in Home(F, K), owner[g] = Pid(t),
             Pte(g, Pid(t), "lent") \in ptes
      PROVE  Pte(g, Pid(t), "own") \in ptes'
  <2>1. Pid(t) \in Pids /\ Pid(t) \notin dead  BY <1>3, <1>4 DEF LegalEnd, TypeOK
  <2>. QED  BY <2>1, <1>4, UnwindPtes
<1>5. ASSUME NEW t \in F, Wait(t) = "send", NEW g \in Buf(t)
      PROVE  Pte(g, Pid(t), "own") \in ptes'
  <2>1. t \in alive /\ t \notin K /\ t \in Threads  BY DEF LegalEnd, TypeOK
  <2>2. thread[t].msg \in Msgs  BY <2>1, SlotTypes DEF TypeOK
  <2>3. g \in Pages  BY <2>2, MsgTypes DEF Buf
  <2>4. owner[g] = Pid(t) /\ Pte(g, Pid(t), "lent") \in ptes
    BY <1>3, <2>1, <2>3 DEF Paged, PageOk, OwnerOk, PteOk
  <2>5. g \in Home(F, K)  BY <1>5, UnwindFates
  <2>. QED  BY <1>4, <2>1, <2>3, <2>4, <2>5
<1>6. ASSUME NEW f \in Answered(K), NEW g \in call[f].lend
      PROVE  Pte(g, Pid(call[f].caller), "own") \in ptes'
  <2>1. f \in Frames /\ f \in HeldBy(K) /\ call[f].waiting /\ call[f].caller \notin K
    BY DEF Answered, HeldBy
  <2>2. call[f].caller \in alive /\ call[f].caller \in Threads /\ g \in Pages
    BY <2>1, CallerAlive, CallTypes
  <2>3. owner[g] = Pid(call[f].caller) /\ Pte(g, Pid(call[f].caller), "lent") \in ptes
    BY <1>3, <2>1, <2>2 DEF Paged, PageOk, OwnerOk, PteOk
  <2>4. g \in Home(F, K)  BY <2>1, UnwindFates
  <2>. QED  BY <1>4, <2>1, <2>2, <2>3, <2>4
\* Pages that go to a server are nobody else's.
<1>7. ASSUME NEW f \in AbandonedBy(F, K), NEW g \in call[f].lend, NEW p \in Pids
      PROVE  Pte(g, p, "own") \notin ptes' /\ Pte(g, p, "lent") \notin ptes'
  <2>1. f \in Frames /\ f \notin HeldBy(K) /\ g \in Pages
    <3>1. f \in Frames /\ f \notin HeldBy(K)  BY DEF AbandonedBy, HeldBy
    <3>. QED  BY <3>1, CallTypes
  <2>2. g \in call'[f].lend /\ ~call'[f].waiting
    <3>1. call'[f].lend = call[f].lend /\ call'[f].waiting = (call[f].waiting /\ f \notin AbandonedBy(F, K))
      BY <1>2, <2>1, UnwindCalls
    <3>. QED  BY <3>1
  <2>3. PageOk(g)'  BY <2>1, UnwindPages DEF Paged
  <2>4. \A t \in Threads : g \notin Buf(t)'  BY <2>1, <2>2, <2>3 DEF PageOk, UseOk
  <2>5. \A h \in Frames : g \in call'[h].lend => h = f  BY <2>1, <2>2, <2>3 DEF PageOk, UseOk
  <2>. QED  BY <2>1, <2>2, <2>3, <2>4, <2>5 DEF PageOk, PteOk, Pte
<1>8. ASSUME NEW r \in told'
      PROVE  /\ r.lend = "returned" => \A g \in r.buf : Pte(g, Pid(r.to), "own") \in ptes'
             /\ r.lend = "consumed" => \A g \in r.buf : /\ Pte(g, Pid(r.to), "own") \notin ptes'
                                                        /\ Pte(g, Pid(r.to), "lent") \notin ptes'
  <2>1. \/ \E t \in F : Wait(t) = "send" /\ r \in Tell(t, "returned", Buf(t))
        \/ \E f \in AbandonedBy(F, K) : r \in Tell(call[f].caller, "consumed", call[f].lend)
        \/ \E f \in Answered(K) : r \in Tell(call[f].caller, "returned", call[f].lend)
    BY UnwindSays
  <2>2. \A t, d, buf : r \in Tell(t, d, buf) => r.to = t /\ r.lend = d /\ r.buf = buf  BY DEF Tell
  <2>3. CASE \E t \in F : Wait(t) = "send" /\ r \in Tell(t, "returned", Buf(t))
    <3>1. PICK t \in F : Wait(t) = "send" /\ r \in Tell(t, "returned", Buf(t))  BY <2>3
    <3>2. r.to = t /\ r.lend = "returned" /\ r.buf = Buf(t)  BY <2>2, <3>1
    <3>. QED  BY <1>5, <3>1, <3>2
  <2>4. CASE \E f \in AbandonedBy(F, K) : r \in Tell(call[f].caller, "consumed", call[f].lend)
    <3>1. PICK f \in AbandonedBy(F, K) : r \in Tell(call[f].caller, "consumed", call[f].lend)  BY <2>4
    <3>2. r.to = call[f].caller /\ r.lend = "consumed" /\ r.buf = call[f].lend  BY <2>2, <3>1
    <3>3. f \in Frames /\ call[f].waiting  BY DEF AbandonedBy
    <3>4. Pid(r.to) \in Pids  BY <1>3, <3>2, <3>3, CallerAlive
    <3>. QED  BY <1>7, <3>2, <3>4
  <2>5. CASE \E f \in Answered(K) : r \in Tell(call[f].caller, "returned", call[f].lend)
    <3>1. PICK f \in Answered(K) : r \in Tell(call[f].caller, "returned", call[f].lend)  BY <2>5
    <3>2. r.to = call[f].caller /\ r.lend = "returned" /\ r.buf = call[f].lend  BY <2>2, <3>1
    <3>. QED  BY <1>6, <3>2
  <2>. QED  BY <2>1, <2>3, <2>4, <2>5
<1>. QED  BY <1>8 DEF LendTold, Entry, Pte, Pid

\* An unwinding keeps the invariant.
LEMMA UnwindKeeps ==
  ASSUME IpcState, NEW F, NEW K, NEW dead, NEW gone, NEW queues, SameLines(queues),
         LegalEnd(F, K, dead, gone), Unwind(F, K, dead, gone, queues), Survives(F, K, gone),
         exits' \in [Endpoints -> Seq(Pids)], pumps' \subseteq Endpoints,
         entry' \in Threads \cup {None}, Ends'
  PROVE  IpcInv'
<1>1. TypeOK'
  <2>1. budgets' \subseteq Budgets  BY DEF Survives, IpcState, TypeOK
  <2>. QED  BY <2>1, UnwindTypes
<1>2. Slotted' /\ Called'  BY UnwindSlots, UnwindCalled
<1>3. Hands' /\ Queues' /\ Paged'  BY UnwindHands, UnwindQueues, UnwindPages
<1>4. ChargesBalance'  BY <1>1, UnwindCharges, BalanceAfter
<1>5. LendTold'  BY UnwindTold
<1>. QED  BY <1>1, <1>2, <1>3, <1>4, <1>5 DEF IpcInv

-----------------------------------------------------------------------------
(* The ends of waits, threads, processes and budgets. *)

\* Notices are owed on live endpoints.
LEMMA NoticesLive ==
  ASSUME IpcState, NEW F, NEW K, NEW e \in NoticesFor(F, K)
  PROVE  e \in Endpoints /\ LiveEnd(e)
<1>1. PICK f \in AbandonedBy(F, K) : e = call[f].endpoint  BY DEF NoticesFor
<1>2. f \in Frames /\ call[f].waiting  BY DEF AbandonedBy
<1>. QED  BY <1>1, <1>2, CallTypes DEF IpcState, Called, CallOk

\* The lines as they are have the lines' messages.
LEMMA LinesSame ==
  ASSUME TypeOK
  PROVE  SameLines(line)
BY DEF SameLines, TypeOK

\* Waits, threads and processes end, but no budget does.
LEMMA EndKeeps ==
  ASSUME IpcInv, NEW F, NEW K, NEW dead, NEW queues, SameLines(queues),
         LegalEnd(F, K, dead, {}), Unwind(F, K, dead, {}, queues), UNCHANGED budgets,
         exits' \in [Endpoints -> Seq(Pids)],
         \A e \in Endpoints : exits'[e] # <<>> => LiveEnd(e),
         \A e \in pumps' : e \in Endpoints /\ LiveEnd(e),
         entry' \in Threads \cup {None},
         \A t \in Threads : thread[t].then.half = "replying" => entry' = t
  PROVE  IpcInv'
<1>1. IpcState  BY DEF IpcInv, IpcState
<1>2. alive \subseteq Threads  BY DEF IpcInv, TypeOK
<1>3. \A t \in Threads : SlotOk(t)  BY DEF IpcInv, Slotted
<1>4. \A f \in Frames : call[f].waiting => LiveEnd(call[f].endpoint) /\ call[f].stamp \in budgets
  BY CallTypes DEF IpcInv, Called, CallOk
<1>5. Survives(F, K, {})
  <2>1. \A t \in alive \ (F \cup K) :
       /\ Wait(t) \in {"send", "receive"} => OwnerOf[thread[t].on] \in budgets'
       /\ Wait(t) = "send" => thread[t].msg.stamp \in budgets'
       /\ thread[t].then.half = "replying" => entry' = t /\ OwnerOf[thread[t].then.source] \in budgets'
    BY <1>2, <1>3 DEF SlotOk, LiveEnd, Wait
  <2>. QED  BY <1>4, <2>1 DEF Survives, LiveEnd
<1>6. Ends'  BY DEF Ends, EndOk, LiveEnd
<1>. QED  BY <1>1, <1>5, <1>6, UnwindKeeps

\* One thread's wait fails.
LEMMA FailKeeps ==
  ASSUME IpcInv, NEW t \in alive, NEW queues, SameLines(queues), Unwind({t}, {}, {}, {}, queues),
         UNCHANGED <<budgets, exits>>, pumps' \subseteq pumps \cup NoticesFor({t}, {}),
         entry' \in Threads \cup {None},
         \A u \in Threads : thread[u].then.half = "replying" => entry' = u
  PROVE  IpcInv'
<1>1. IpcState  BY DEF IpcInv, IpcState
<1>2. LegalEnd({t}, {}, {}, {})  BY DEF LegalEnd
<1>3. exits' \in [Endpoints -> Seq(Pids)]  BY DEF IpcInv, TypeOK
<1>4. \A e \in Endpoints : (exits[e] # <<>> \/ e \in pumps) => LiveEnd(e)  BY DEF IpcInv, Ends, EndOk
<1>5. \A e \in pumps' : e \in Endpoints /\ LiveEnd(e)
  <2>1. \A e \in NoticesFor({t}, {}) : e \in Endpoints /\ LiveEnd(e)  BY <1>1, NoticesLive
  <2>2. pumps \subseteq Endpoints  BY DEF IpcInv, TypeOK
  <2>. QED  BY <1>4, <2>1, <2>2
<1>6. \A e \in Endpoints : exits'[e] # <<>> => LiveEnd(e)  BY <1>4
<1>. QED  BY <1>2, <1>3, <1>5, <1>6, EndKeeps

\* Between entries nobody is in a reply_receive; in one, its thread may be.
LEMMA Replying ==
  ASSUME IpcInv, NEW t \in Threads, thread[t].then.half = "replying"
  PROVE  entry = t /\ t \in alive /\ Wait(t) = "none" /\ ~AtRest
BY NoneAssumption, Constants DEF IpcInv, Slotted, SlotOk, AtRest, Wait

\* time_out.
LEMMA ExpireKeeps ==
  ASSUME IpcInv, NEW t \in Threads, Expire(t)
  PROVE  IpcInv'
<1>1. t \in alive /\ AtRest /\ Unwind({t}, {}, {}, {}, line) /\ UNCHANGED <<budgets, exits, entry>>
      /\ pumps' = NoticesFor({t}, {})
  BY DEF Expire, FailWait
<1>2. TypeOK /\ entry' \in Threads \cup {None}  BY <1>1 DEF IpcInv, TypeOK
<1>3. \A u \in Threads : thread[u].then.half = "replying" => entry' = u  BY <1>1, Replying
<1>. QED  BY <1>1, <1>2, <1>3, LinesSame, FailKeeps

\* settle, of a wait that may not last.
LEMMA SettleKeeps ==
  ASSUME IpcInv, Settle, Wait(entry) # "none", thread[entry].due = "now"
  PROVE  IpcInv'
<1>1. /\ entry # None /\ thread[entry].then.half # "replying" /\ entry' = None
      /\ Unwind({entry}, {}, {}, {}, line) /\ UNCHANGED <<budgets, exits>>
      /\ pumps' = NoticesFor({entry}, {})
  BY DEF Settle, FailWait
<1>2. TypeOK /\ entry \in Threads  BY <1>1 DEF IpcInv, TypeOK
<1>3. entry \in alive  BY <1>2 DEF IpcInv, Slotted, SlotOk, Wait
<1>4. \A u \in Threads : thread[u].then.half = "replying" => entry' = u  BY <1>1, Replying
<1>. QED  BY <1>1, <1>2, <1>3, <1>4, LinesSame, FailKeeps

\* A receiver on e waits there, and has a message it may take; a sender waits there to be taken.
LEMMA Partners ==
  ASSUME IpcInv, NEW e \in Endpoints, Messages(e)
  PROVE  /\ Receiver(e) \in alive /\ Receiver(e) \in Threads
         /\ thread[Receiver(e)].wait = "receive" /\ thread[Receiver(e)].on = e
         /\ Sender(e) \in Waiting(e, TakesCalls(Receiver(e)))
         /\ Sender(e) \in alive /\ Sender(e) \in Threads
         /\ thread[Sender(e)].wait = "send" /\ thread[Sender(e)].on = e
<1>1. receivers[e] \in Seq(Threads) /\ line[e] \in Seq(Tokens)  BY DEF IpcInv, TypeOK
<1>2. PICK y : y \in CanTake(e)  BY DEF Messages
<1>3. In(receivers[e], y)  BY <1>2 DEF CanTake, Members, In
<1>. DEFINE r == Receiver(e)
<1>4. r \in CanTake(e) /\ In(receivers[e], r)
  <2>. DEFINE s == receivers[e]
              S == CanTake(e)
  <2>1. r = FirstOf(s, S)  BY DEF Receiver
  <2>. HIDE DEF s, S
  <2>. QED  BY <1>1, <1>2, <1>3, <2>1, FirstFacts DEF s, S
<1>5. r \in Threads  BY <1>1, <1>4 DEF In
<1>6. thread[r].wait = "receive" /\ thread[r].on = e  BY <1>4, <1>5 DEF IpcInv, Queues, RecvOk
<1>7. r \in alive  BY <1>5, <1>6 DEF IpcInv, Slotted, SlotOk
<1>. DEFINE S == Waiting(e, TakesCalls(r))
<1>8. PICK z \in S : z \in Threads  BY <1>4 DEF CanTake, Waiting
<1>9. In(line[e], Tok(z))  BY <1>8 DEF Waiting, IpcInv, Queues, LineOk
<1>10. Sender(e) \in S
  <2>. DEFINE l == line[e]
  <2>1. Sender(e) = PickFrom(l, S)  BY DEF Sender
  <2>. HIDE DEF S, l
  <2>. QED  BY <1>1, <1>8, <1>9, <2>1, PickFacts DEF l
<1>11. Sender(e) \in Threads /\ thread[Sender(e)].wait = "send" /\ thread[Sender(e)].on = e
  BY <1>10 DEF Waiting
<1>12. Sender(e) \in alive  BY <1>11 DEF IpcInv, Slotted, SlotOk
<1>. QED  BY <1>5, <1>6, <1>7, <1>10, <1>11, <1>12

\* A receiver's record is gone.
LEMMA BadRecordKeeps ==
  ASSUME IpcInv, NEW e \in Endpoints, BadRecord(e)
  PROVE  IpcInv'
<1>. DEFINE r == Receiver(e)
<1>1. Messages(e) /\ Unwind({r}, {}, {}, {}, line) /\ UNCHANGED <<budgets, exits, pumps, entry>>
  BY DEF BadRecord, FailWait
<1>2. r \in alive  BY <1>1, Partners
<1>3. TypeOK /\ entry' \in Threads \cup {None}  BY <1>1 DEF IpcInv, TypeOK
<1>4. \A u \in Threads : thread[u].then.half = "replying" => entry' = u  BY <1>1, Replying
<1>. HIDE DEF r
<1>. QED  BY <1>1, <1>2, <1>3, <1>4, LinesSame, FailKeeps

\* A message is refused.
LEMMA RefuseKeeps ==
  ASSUME IpcInv, NEW e \in Endpoints, Refuse(e)
  PROVE  IpcInv'
<1>. DEFINE s == Sender(e)
            queues == [line EXCEPT ![e] = Served(@, Group(s))]
<1>1. Messages(e) /\ Unwind({s}, {}, {}, {}, queues) /\ UNCHANGED <<budgets, exits, pumps, entry>>
  BY SMT DEF Refuse
<1>2. s \in alive /\ s \in Threads  BY <1>1, Partners
<1>3. TypeOK /\ entry' \in Threads \cup {None}  BY <1>1 DEF IpcInv, TypeOK
<1>4. \A u \in Threads : thread[u].then.half = "replying" => entry' = u  BY <1>1, Replying
<1>5. SameLines(queues)
  <2>. DEFINE q == Served(line[e], Group(s))
  <2>1. line \in [Endpoints -> Seq(Tokens)]  BY <1>3 DEF TypeOK
  <2>2. ASSUME NEW t \in Threads
        PROVE  /\ q \in Seq(Tokens) /\ (In(q, Tok(t)) <=> In(line[e], Tok(t)))
               /\ Once(line[e], Tok(t)) => Once(q, Tok(t))
    <3>. DEFINE l == line[e]
    <3>1. l \in Seq(Tokens)  BY <2>1
    <3>. HIDE DEF l, s
    <3>. QED  BY <1>2, <3>1, ServedFacts DEF l
  <2>3. queues = [line EXCEPT ![e] = q]  OBVIOUS
  <2>4. q \in Seq(Tokens)  BY <1>2, <2>2
  <2>. HIDE DEF q, queues
  <2>. QED  BY <2>1, <2>2, <2>3, <2>4 DEF SameLines
<1>. HIDE DEF s, queues
<1>. QED  BY <1>1, <1>2, <1>3, <1>4, <1>5, FailKeeps

\* thread_exit.
LEMMA ThreadExitKeeps ==
  ASSUME IpcInv, NEW t \in Threads, ThreadExit(t)
  PROVE  IpcInv'
<1>1. /\ AtRest /\ t \in alive /\ Unwind({}, {t}, {}, {}, line) /\ pumps' = NoticesFor({}, {t})
      /\ UNCHANGED <<budgets, exits, entry>>
  BY DEF ThreadExit, Running
<1>2. IpcState /\ TypeOK  BY DEF IpcInv, IpcState
<1>3. LegalEnd({}, {t}, {}, {})  BY <1>1 DEF LegalEnd
<1>4. exits' \in [Endpoints -> Seq(Pids)] /\ entry' \in Threads \cup {None}  BY <1>1, <1>2 DEF TypeOK
<1>5. \A e \in Endpoints : exits'[e] # <<>> => LiveEnd(e)  BY <1>1 DEF IpcInv, Ends, EndOk
<1>6. \A e \in pumps' : e \in Endpoints /\ LiveEnd(e)  BY <1>1, <1>2, NoticesLive
<1>7. \A u \in Threads : thread[u].then.half = "replying" => entry' = u  BY <1>1, Replying
<1>. QED  BY <1>1, <1>2, <1>3, <1>4, <1>5, <1>6, <1>7, LinesSame, EndKeeps

\* A process exits or faults.
LEMMA ProcessExitKeeps ==
  ASSUME IpcInv, NEW t \in Threads, ProcessExit(t)
  PROVE  IpcInv'
<1>. DEFINE p == Pid(t)
            K == Live(p)
<1>1. /\ AtRest /\ t \in alive /\ Unwind({}, K, {p}, {}, line) /\ pumps' = NoticesFor({}, K) \cup Reports(p)
      /\ exits' = [e \in Endpoints |-> IF e \in Reports(p) THEN Append(exits[e], p) ELSE exits[e]]
      /\ UNCHANGED <<budgets, entry>>
  BY DEF ProcessExit, Running
<1>2. IpcState /\ TypeOK  BY DEF IpcInv, IpcState
<1>3. p \in Pids  BY KindsAssumption DEF Pid
<1>4. LegalEnd({}, K, {p}, {})  BY <1>3 DEF LegalEnd, Live, Pid
<1>5. exits' \in [Endpoints -> Seq(Pids)] /\ entry' \in Threads \cup {None}  BY <1>1, <1>2, <1>3 DEF TypeOK
<1>6. \A e \in Reports(p) : e \in Endpoints /\ LiveEnd(e)  BY DEF Reports
<1>7. \A e \in Endpoints : exits'[e] # <<>> => LiveEnd(e)  BY <1>1, <1>6 DEF IpcInv, Ends, EndOk
<1>. HIDE DEF p, K
<1>8. \A e \in NoticesFor({}, K) : e \in Endpoints /\ LiveEnd(e)  BY <1>2, NoticesLive
<1>9. \A e \in pumps' : e \in Endpoints /\ LiveEnd(e)  BY <1>1, <1>6, <1>8
<1>10. \A u \in Threads : thread[u].then.half = "replying" => entry' = u  BY <1>1, Replying
<1>. QED  BY <1>1, <1>2, <1>4, <1>5, <1>7, <1>9, <1>10, LinesSame, EndKeeps

\* The processes of threads are finitely many.
LEMMA FiniteDead ==
  ASSUME TypeOK, NEW dead \in SUBSET Pids, \A p \in dead : Live(p) # {}
  PROVE  IsFiniteSet(dead) /\ Cardinality(dead) \in Nat
<1>. DEFINE R == {ProcOf[t] : t \in Threads}
<1>1. ProcOf \in Surjection(Threads, R)  BY KindsAssumption DEF Surjection
<1>2. IsFiniteSet(R)
  <2>. HIDE DEF R
  <2>. QED  BY <1>1, BoundsAssumption, FS_Surjection
<1>3. dead \in SUBSET R  BY DEF Live, TypeOK
<1>. HIDE DEF R
<1>. QED  BY <1>2, <1>3, FS_Subset, FS_CardinalityType

\* destroy_subtree.
LEMMA DestroyKeeps ==
  ASSUME IpcInv, NEW b \in Budgets, Destroy(b)
  PROVE  IpcInv'
<1>. DEFINE D == Subtree[b] \cap budgets
            dead == {p \in Pids : BudgetOf[p] \in D /\ Live(p) # {}}
            K == {t \in alive : Budget(t) \in D}
            gone == {e \in Endpoints : OwnerOf[e] \in D}
            F == Reached(D, K, gone)
<1>1. /\ AtRest /\ Unwind(F, K, dead, gone, line) /\ budgets' = budgets \ D
      /\ \E order \in Orders(dead) :
           exits' = [e \in Endpoints |->
                       IF e \in gone THEN <<>>
                       ELSE exits[e] \o Without(order, {p \in dead : e \notin Reports(p)})]
      /\ pumps' = (NoticesFor(F, K) \cup UNION {Reports(p) : p \in dead}) \ gone
      /\ UNCHANGED entry
  BY DEF Destroy
<1>2. IpcState /\ TypeOK  BY DEF IpcInv, IpcState
<1>3. alive \subseteq Threads /\ \A t \in Threads : SlotOk(t)  BY DEF IpcInv, Slotted, TypeOK
<1>4. LegalEnd(F, K, dead, gone)
  <2>1. F \in SUBSET (alive \ K)  BY DEF Reached
  <2>2. \A t \in alive : Pid(t) \in dead => t \in K  BY DEF Pid, Budget
  <2>3. K \in SUBSET alive /\ dead \in SUBSET Pids /\ gone \in SUBSET Endpoints  OBVIOUS
  <2>. HIDE DEF F, K, dead, gone
  <2>. QED  BY <2>1, <2>2, <2>3 DEF LegalEnd
<1>5. ASSUME NEW e \in Endpoints, LiveEnd(e), e \notin gone
      PROVE  OwnerOf[e] \in budgets'
  BY <1>1, <1>5 DEF LiveEnd
<1>6. Survives(F, K, gone)
  <2>1. ASSUME NEW t \in alive \ (F \cup K)
        PROVE  /\ Wait(t) \in {"send", "receive"} => OwnerOf[thread[t].on] \in budgets'
               /\ Wait(t) = "send" => thread[t].msg.stamp \in budgets'
               /\ thread[t].then.half # "replying"
    <3>1. t \in Threads /\ SlotOk(t)  BY <1>3
    <3>2. /\ Wait(t) \in {"send", "receive"} => thread[t].on \notin gone
          /\ Wait(t) = "send" => thread[t].msg.stamp \notin D
      BY DEF Reached
    <3>3. Wait(t) \in {"send", "receive"} => thread[t].on \in Endpoints /\ LiveEnd(thread[t].on)
      BY <3>1 DEF SlotOk, Wait
    <3>4. Wait(t) = "send" => thread[t].msg.stamp \in budgets  BY <3>1 DEF SlotOk, Wait
    <3>5. thread[t].then.half # "replying"  BY <1>1, <3>1, Replying
    <3>. HIDE DEF D, gone, F, K
    <3>. QED  BY <1>1, <1>5, <3>2, <3>3, <3>4, <3>5
  <2>2. ASSUME NEW f \in Frames, call[f].waiting, call[f].server \notin K, call[f].caller \notin F \cup K
        PROVE  OwnerOf[call[f].endpoint] \in budgets' /\ call[f].stamp \in budgets'
    <3>. DEFINE t == call[f].caller
    <3>1. IsOpen(f) /\ t \in alive  BY <1>2, <2>2, CallerAlive DEF IpcState
    <3>2. Wait(t) = "reply" /\ thread[t].open = f  BY <2>2, <3>1, SMTT(30) DEF IpcInv, Called, CallOk, Wait
    <3>3. call[f].endpoint \notin gone /\ call[f].stamp \notin D  BY <2>2, <3>1, <3>2 DEF Reached
    <3>4. LiveEnd(call[f].endpoint) /\ call[f].stamp \in budgets  BY <2>2, <3>1 DEF IpcInv, Called, CallOk
    <3>5. call[f].endpoint \in Endpoints  BY <1>2, <3>1, CallTypes
    <3>. QED  BY <1>1, <1>5, <3>3, <3>4, <3>5
  <2>3. budgets' \subseteq budgets  BY <1>1
  <2>. HIDE DEF D, gone, F, K
  <2>. QED  BY <1>5, <2>1, <2>2, <2>3 DEF Survives
<1>7. \A p \in dead : \A e \in Reports(p) : e \in Endpoints /\ LiveEnd(e)  BY DEF Reports
<1>8. ASSUME NEW e \in pumps'  PROVE e \in Endpoints /\ OwnerOf[e] \in budgets'
  <2>. HIDE DEF D, gone, F, K, dead
  <2>1. e \notin gone /\ (e \in NoticesFor(F, K) \/ \E p \in dead : e \in Reports(p))  BY <1>1, <1>8
  <2>2. e \in Endpoints /\ LiveEnd(e)  BY <1>2, <1>7, <2>1, NoticesLive
  <2>. QED  BY <1>5, <2>1, <2>2
<1>9. PICK order \in Orders(dead) :
        exits' = [e \in Endpoints |->
                    IF e \in gone THEN <<>>
                    ELSE exits[e] \o Without(order, {p \in dead : e \notin Reports(p)})]
  BY <1>1
<1>10. order \in Seq(dead) /\ order \in Seq(Pids)
  <2>1. dead \in SUBSET Pids /\ \A p \in dead : Live(p) # {}  OBVIOUS
  <2>. HIDE DEF dead
  <2>2. Cardinality(dead) \in Nat  BY <1>2, <2>1, FiniteDead
  <2>3. order \in [1 .. Cardinality(dead) -> dead]  BY DEF Orders
  <2>. QED  BY <2>1, <2>2, <2>3
<1>11. ASSUME NEW e \in Endpoints
       PROVE  /\ exits'[e] \in Seq(Pids)
              /\ exits'[e] # <<>> => OwnerOf[e] \in budgets'
  <2>. DEFINE S == {p \in dead : e \notin Reports(p)}
              w == Without(order, S)
  <2>1. exits'[e] = IF e \in gone THEN <<>> ELSE exits[e] \o w  BY <1>9
  <2>2. exits[e] \in Seq(Pids) /\ (exits[e] # <<>> => LiveEnd(e))  BY <1>2 DEF IpcInv, Ends, EndOk, TypeOK
  <2>3. w \in Seq(Pids) /\ w \in Seq(dead) /\ \A x : In(w, x) <=> In(order, x) /\ x \notin S
    <3>. HIDE DEF S, dead
    <3>. QED  BY <1>10, WithoutFacts
  <2>4. w # <<>> => LiveEnd(e)
    <3>. SUFFICES ASSUME w # <<>>  PROVE LiveEnd(e)
      OBVIOUS
    <3>. HIDE DEF w
    <3>1. w[1] \in dead /\ In(w, w[1])
      <4>. HIDE DEF dead
      <4>. QED  BY <2>3 DEF In
    <3>2. w[1] \notin S  BY <2>3, <3>1
    <3>3. e \in Reports(w[1])
      <4>. HIDE DEF dead
      <4>. QED  BY <3>1, <3>2
    <3>. QED  BY <1>7, <3>1, <3>3
  <2>. HIDE DEF w, gone, D
  <2>5. exits[e] \o w \in Seq(Pids)  BY <2>2, <2>3
  <2>6. exits[e] \o w # <<>> => exits[e] # <<>> \/ w # <<>>  BY <2>2, <2>3
  <2>. QED  BY <1>5, <2>1, <2>2, <2>4, <2>5, <2>6
<1>. HIDE DEF D, gone, F, K, dead
<1>12. exits' \in [Endpoints -> Seq(Pids)]
  <2>1. exits' = [e \in Endpoints |-> exits'[e]]  BY <1>9
  <2>. QED  BY <1>11, <2>1
<1>13. Ends'  BY <1>8, <1>11 DEF Ends, EndOk, LiveEnd
<1>14. pumps' \subseteq Endpoints /\ entry' \in Threads \cup {None}  BY <1>1, <1>2, <1>8 DEF TypeOK
<1>. QED  BY <1>1, <1>2, <1>4, <1>6, <1>12, <1>13, <1>14, LinesSame, UnwindKeeps

-----------------------------------------------------------------------------
(* Steps that change no page and no charge. *)

\* The open calls as they were, but for notices taken.
SameCalls ==
  /\ call' \in [Frames -> Calls \cup {NoCall}]
  /\ \A f \in Frames :
       /\ call'[f].caller = call[f].caller /\ call'[f].server = call[f].server
       /\ call'[f].endpoint = call[f].endpoint /\ call'[f].stamp = call[f].stamp
       /\ call'[f].payer = call[f].payer /\ call'[f].lend = call[f].lend
       /\ call'[f].waiting = call[f].waiting /\ (IsOpen(f)' <=> IsOpen(f))
       /\ call'[f].notice => call[f].notice

\* Calls left alone are the same.
LEMMA CallsSame ==
  ASSUME TypeOK, UNCHANGED call
  PROVE  SameCalls
BY DEF SameCalls, TypeOK, IsOpen

\* Pages nothing happened to.
LEMMA PagesKept ==
  ASSUME Paged, UNCHANGED <<owner, ptes>>, SameCalls, \A t \in Threads : Buf(t)' = Buf(t)
  PROVE  Paged'
<1>. SUFFICES ASSUME NEW g \in Pages  PROVE PageOk(g)'
  BY DEF Paged
<1>1. UseOk(g) /\ OwnerOk(g) /\ PteOk(g)  BY DEF Paged, PageOk
<1>2. \A f \in Frames : /\ call'[f].caller = call[f].caller /\ call'[f].server = call[f].server
                        /\ call'[f].lend = call[f].lend /\ call'[f].waiting = call[f].waiting
  BY DEF SameCalls
<1>3. UseOk(g)'  BY <1>1, <1>2 DEF UseOk
<1>4. OwnerOk(g)'  BY <1>1, <1>2 DEF OwnerOk, Pid
<1>5. PteOk(g)'  BY <1>1, <1>2 DEF PteOk, Pte, Pid
<1>. QED  BY <1>3, <1>4, <1>5 DEF PageOk

\* Charges nothing happened to.
LEMMA ChargesKept ==
  ASSUME TypeOK, TypeOK', ChargesBalance, UNCHANGED <<owner, used, opencalls>>, SameCalls
  PROVE  ChargesBalance'
<1>1. Balanced  BY BalanceIs
<1>2. \A f \in Frames : /\ call'[f].server = call[f].server /\ call'[f].payer = call[f].payer
                        /\ call'[f].lend = call[f].lend /\ call'[f].waiting = call[f].waiting
                        /\ IsOpen(f)' <=> IsOpen(f)
  BY DEF SameCalls
<1>3. ASSUME NEW b \in Budgets  PROVE Bill(b)' = Bill(b)
  <2>1. \A x \in Items : x \in Bill(b)' <=> x \in Bill(b)  BY <1>2 DEF Bill, Items
  <2>2. Bill(b)' \subseteq Items /\ Bill(b) \subseteq Items  BY DEF Bill, Items
  <2>. QED  BY <2>1, <2>2
<1>4. ASSUME NEW p \in Pids  PROVE HeldIn(p)' = HeldIn(p)
  <2>1. \A f \in Frames : f \in HeldIn(p)' <=> f \in HeldIn(p)  BY <1>2 DEF HeldIn, Pid
  <2>2. HeldIn(p)' \subseteq Frames /\ HeldIn(p) \subseteq Frames  BY DEF HeldIn
  <2>. QED  BY <2>1, <2>2
<1>5. Balanced'  BY <1>1, <1>3, <1>4 DEF Balanced, Owned
<1>. QED  BY <1>5, BalanceAfter

\* Calls held as before.
LEMMA HandsKept ==
  ASSUME Hands, SameCalls, \A t \in Threads : thread'[t].held = thread[t].held
  PROVE  Hands'
<1>. SUFFICES ASSUME NEW t \in Threads  PROVE HeldOk(t)'
  BY DEF Hands
<1>1. HeldOk(t)  BY DEF Hands
<1>2. \A f \in Frames : call'[f].server = call[f].server  BY DEF SameCalls
<1>. QED  BY <1>1, <1>2 DEF HeldOk

\* A page of a thread that waits for nothing, or to receive.
Calm(s) ==
  /\ s \in Slots /\ s.msg = NoMsg /\ s.wait \in {"none", "receive"}
  /\ s.wait = "receive" => s.on \in Endpoints /\ LiveEnd(s.on)
  /\ s.then.half \in {"none", "sent", "replied"} /\ (s.then.half # "none" => s.wait = "receive")
  /\ s.current = None \/ In(s.held, s.current)

\* A thread that runs or receives, out of a reply_receive.
LEMMA CalmBefore ==
  ASSUME IpcInv, NEW t \in Threads, Wait(t) \in {"none", "receive"}, thread[t].then.half # "replying"
  PROVE  Calm(thread[t])
<1>1. thread[t] \in Slots /\ SlotOk(t)  BY DEF IpcInv, Slotted, TypeOK
<1>2. thread[t].then.half \in {"none", "sending", "replying", "sent", "replied"}  BY <1>1, SlotTypes, TurnTypes
<1>. QED  BY <1>1, <1>2 DEF SlotOk, Calm, Wait

\* A thread starts or stops waiting to receive: nothing moves.
LEMMA QuietKeeps ==
  ASSUME IpcInv, NEW t \in Threads, t \in alive, Wait(t) \in {"none", "receive"},
         NEW s, Calm(s), s.held = thread[t].held,
         thread' = [thread EXCEPT ![t] = s], SameCalls,
         receivers' \in [Endpoints -> Seq(Threads)],
         \A e \in Endpoints, u \in Threads :
            /\ In(receivers'[e], u) <=> IF u = t THEN s.wait = "receive" /\ s.on = e ELSE In(receivers[e], u)
            /\ Once(receivers'[e], u),
         UNCHANGED <<alive, budgets, line, opencalls, owner, ptes, used>>, told' = {},
         exits' \in [Endpoints -> Seq(Pids)], pumps' \subseteq Endpoints,
         entry' \in Threads \cup {None}, Ends',
         \A u \in Threads : u # t /\ thread[u].then.half = "replying" => entry' = u
  PROVE  IpcInv'
<1>1. thread \in [Threads -> Slots] /\ s \in Slots  BY DEF IpcInv, TypeOK, Calm
<1>2. thread'[t] = s /\ \A u \in Threads : u # t => thread'[u] = thread[u]  BY <1>1
<1>3. TypeOK'
  <2>1. thread' \in [Threads -> Slots]  BY <1>1
  <2>. QED  BY <2>1 DEF IpcInv, TypeOK, SameCalls
<1>4. \A u \in Threads : SlotOk(u)  BY DEF IpcInv, Slotted
<1>5. thread[t].msg = NoMsg  BY <1>4 DEF SlotOk, Wait
<1>6. ASSUME NEW u \in Threads  PROVE SlotOk(u)'
  <2>1. CASE u = t  BY <1>2, <2>1 DEF Calm, SlotOk, LiveEnd
  <2>2. CASE u # t
    <3>1. thread'[u] = thread[u] /\ SlotOk(u)  BY <1>2, <1>4, <2>2
    <3>2. thread[u].wait = "reply" => call'[thread[u].open].waiting /\ call'[thread[u].open].caller = u
      BY <3>1 DEF SlotOk, SameCalls
    <3>. QED  BY <2>2, <3>1, <3>2 DEF SlotOk, LiveEnd
  <2>. QED  BY <2>1, <2>2
<1>7. ASSUME NEW f \in Frames  PROVE CallOk(f)'
  <2>. SUFFICES ASSUME IsOpen(f)'  PROVE CallOk(f)'
    BY DEF CallOk
  <2>1. IsOpen(f) /\ CallOk(f)  BY DEF SameCalls, IpcInv, Called
  <2>2. call[f].caller \in Threads  BY <2>1, CallTypes DEF IpcInv
  <2>3. call[f].waiting => call[f].caller # t  BY <2>1 DEF CallOk, Wait
  <2>4. call[f].waiting => thread'[call[f].caller] = thread[call[f].caller]  BY <1>2, <2>2, <2>3
  <2>. QED  BY <2>1, <2>4 DEF SameCalls, CallOk, LiveEnd, Budget
<1>8. \A u \in Threads : thread'[u].held = thread[u].held /\ Buf(u)' = Buf(u)
  BY <1>2, <1>5 DEF Buf, Calm
<1>9. ASSUME NEW e \in Endpoints  PROVE LineOk(e)' /\ RecvOk(e)'
  <2>1. LineOk(e) /\ RecvOk(e)  BY DEF IpcInv, Queues
  <2>2. LineOk(e)'
    <3>. SUFFICES ASSUME NEW u \in Threads
                  PROVE /\ In(line[e], Tok(u)) <=> thread'[u].wait = "send" /\ thread'[u].on = e
                        /\ Once(line[e], Tok(u))
      BY DEF LineOk, Tok, Group, Budget
    <3>1. thread'[u].wait = "send" <=> u # t /\ thread[u].wait = "send"  BY <1>2 DEF Calm
    <3>2. thread[t].wait # "send"  BY DEF Wait
    <3>. QED  BY <1>2, <2>1, <3>1, <3>2 DEF LineOk
  <2>3. RecvOk(e)'  BY <1>2, <2>1 DEF RecvOk
  <2>. QED  BY <2>2, <2>3
<1>10. Hands'  BY <1>8, HandsKept DEF IpcInv
<1>11. Paged'  BY <1>8, PagesKept DEF IpcInv
<1>12. ChargesBalance'  BY <1>3, ChargesKept DEF IpcInv
<1>13. LendTold'  BY DEF LendTold
<1>. QED  BY <1>3, <1>6, <1>7, <1>9, <1>10, <1>11, <1>12, <1>13 DEF IpcInv, Slotted, Called, Queues

\* What is not a receiver's place is as it was.
LEMMA LeavesLine ==
  ASSUME IpcInv, NEW t \in Threads, NEW e \in Endpoints, thread[t].wait = "receive", thread[t].on = e,
         receivers' = [receivers EXCEPT ![e] = Without(@, {t})]
  PROVE  /\ receivers' \in [Endpoints -> Seq(Threads)]
         /\ \A x \in Endpoints, u \in Threads :
              /\ In(receivers'[x], u) <=> IF u = t THEN FALSE ELSE In(receivers[x], u)
              /\ Once(receivers'[x], u)
<1>1. receivers \in [Endpoints -> Seq(Threads)]  BY DEF IpcInv, TypeOK
<1>2. ASSUME NEW u \in Threads
      PROVE  /\ Without(receivers[e], {t}) \in Seq(Threads)
             /\ In(Without(receivers[e], {t}), u) <=> In(receivers[e], u) /\ u # t
             /\ Once(receivers[e], u) => Once(Without(receivers[e], {t}), u)
  <2>. DEFINE r == receivers[e]
              S == {t}
  <2>1. r \in Seq(Threads)  BY <1>1
  <2>2. u \in S <=> u = t  OBVIOUS
  <2>. HIDE DEF r, S
  <2>3. Without(r, S) \in Seq(Threads) /\ (In(Without(r, S), u) <=> In(r, u) /\ u \notin S)
        /\ (Once(r, u) => Once(Without(r, S), u))
    BY <2>1, WithoutFacts
  <2>. QED  BY <2>2, <2>3 DEF r, S
<1>3. \A x \in Endpoints, u \in Threads :
        /\ In(receivers[x], u) <=> thread[u].wait = "receive" /\ thread[u].on = x
        /\ Once(receivers[x], u)
  BY DEF IpcInv, Queues, RecvOk
<1>4. receivers'[e] = Without(receivers[e], {t}) /\ \A x \in Endpoints : x # e => receivers'[x] = receivers[x]
  BY <1>1
<1>5. receivers' \in [Endpoints -> Seq(Threads)]  BY <1>1, <1>2
<1>. QED  BY <1>2, <1>3, <1>4, <1>5, ZenonT(60)

\* A thread begins to receive.
LEMMA JoinsLine ==
  ASSUME IpcInv, NEW t \in Threads, NEW e \in Endpoints, thread[t].wait = "none",
         receivers' = [receivers EXCEPT ![e] = Append(@, t)]
  PROVE  /\ receivers' \in [Endpoints -> Seq(Threads)]
         /\ \A x \in Endpoints, u \in Threads :
              /\ In(receivers'[x], u) <=> IF u = t THEN x = e ELSE In(receivers[x], u)
              /\ Once(receivers'[x], u)
<1>1. receivers \in [Endpoints -> Seq(Threads)]  BY DEF IpcInv, TypeOK
<1>2. \A x \in Endpoints, u \in Threads :
        /\ In(receivers[x], u) <=> thread[u].wait = "receive" /\ thread[u].on = x
        /\ Once(receivers[x], u)
  BY DEF IpcInv, Queues, RecvOk
<1>3. ASSUME NEW u \in Threads
      PROVE  /\ Append(receivers[e], t) \in Seq(Threads)
             /\ In(Append(receivers[e], t), u) <=> In(receivers[e], u) \/ u = t
             /\ Once(Append(receivers[e], t), u)
  <2>. DEFINE r == receivers[e]
  <2>1. r \in Seq(Threads) /\ Once(r, u) /\ (u = t => ~In(r, u))  BY <1>1, <1>2
  <2>. HIDE DEF r
  <2>2. Append(r, t) \in Seq(Threads) /\ (In(Append(r, t), u) <=> In(r, u) \/ u = t) /\ Once(Append(r, t), u)
    BY <2>1, AppendFacts
  <2>. QED  BY <2>2 DEF r
<1>4. receivers'[e] = Append(receivers[e], t) /\ \A x \in Endpoints : x # e => receivers'[x] = receivers[x]
  BY <1>1
<1>5. receivers' \in [Endpoints -> Seq(Threads)]  BY <1>1, <1>3
<1>. QED  BY <1>2, <1>3, <1>4, <1>5

\* A thread that makes a call.
LEMMA RunningFacts ==
  ASSUME IpcInv, NEW t \in Threads, Running(t)
  PROVE  /\ t \in alive /\ pumps = {} /\ entry = None /\ Wait(t) = "none" /\ Calm(thread[t])
         /\ thread[t].then.half = "none" /\ \A u \in Threads : thread[u].then.half # "replying"
<1>1. AtRest /\ t \in alive /\ Wait(t) = "none"  BY DEF Running
<1>2. \A u \in Threads : thread[u].then.half # "replying"  BY <1>1, Replying
<1>3. Calm(thread[t])  BY <1>1, <1>2, CalmBefore
<1>. QED  BY <1>1, <1>2, <1>3 DEF AtRest, Calm, Wait

\* Nothing changes but what the entry has still to do.
LEMMA StillKeeps ==
  ASSUME IpcInv, UNCHANGED <<alive, budgets, thread, line, receivers, exits, call, opencalls, owner,
                             ptes, used>>,
         pumps' \subseteq pumps, told' = {} \/ UNCHANGED told, entry' \in Threads \cup {None},
         \A u \in Threads : thread[u].then.half = "replying" => entry' = u
  PROVE  IpcInv'
<1>1. TypeOK'  BY DEF IpcInv, TypeOK
<1>2. SameCalls  BY CallsSame DEF IpcInv
<1>3. Slotted'  BY DEF IpcInv, Slotted, SlotOk, LiveEnd
<1>4. Called'  BY DEF IpcInv, Called, CallOk, LiveEnd, IsOpen, Budget
<1>5. Queues'  BY DEF IpcInv, Queues, LineOk, RecvOk, Tok, Group, Budget
<1>6. Ends'  BY DEF IpcInv, Ends, EndOk, LiveEnd
<1>7. Hands'  BY <1>2, HandsKept DEF IpcInv
<1>8. Paged'  BY <1>2, PagesKept DEF IpcInv, Buf
<1>9. ChargesBalance'  BY <1>1, <1>2, ChargesKept DEF IpcInv
<1>10. LendTold'  BY DEF IpcInv, LendTold
<1>. QED  BY <1>1, <1>3, <1>4, <1>5, <1>6, <1>7, <1>8, <1>9, <1>10 DEF IpcInv

\* receive.
LEMMA ReceiveKeeps ==
  ASSUME IpcInv, NEW t \in Threads, NEW e \in Endpoints, NEW due \in Deadlines, NEW max \in Maxes,
         Receive(t, e, due, max)
  PROVE  IpcInv'
<1>. DEFINE s == Receiving(thread[t], e, due, max, NoTurn)
<1>1. Running(t) /\ LiveEnd(e)  BY DEF Receive
<1>2. thread' = [thread EXCEPT ![t] = s]  BY DEF Receive
<1>3. receivers' = [receivers EXCEPT ![e] = Append(@, t)]  BY DEF Receive
<1>4. pumps' = {e} /\ entry' = t /\ told' = {}
      /\ UNCHANGED <<alive, budgets, line, exits, call, opencalls, owner, ptes, used>>
  BY DEF Receive
<1>5. /\ t \in alive /\ Wait(t) = "none" /\ thread[t].then.half = "none"
      /\ \A u \in Threads : thread[u].then.half # "replying"
  BY <1>1, RunningFacts
<1>6. /\ s \in Slots /\ s.wait = "receive" /\ s.on = e /\ s.then = NoTurn
      /\ s.msg = NoMsg /\ s.held = thread[t].held /\ s.current = None
  <2>1. thread[t] \in Slots /\ max \in 0 .. MaxBuffer  BY BoundsAssumption DEF IpcInv, TypeOK
  <2>. QED  BY <2>1, ReceivingFacts, Constants
<1>. HIDE DEF s
<1>7. Calm(s)  BY <1>1, <1>6, Constants DEF Calm
<1>8. SameCalls  BY <1>4, CallsSame DEF IpcInv
<1>9. /\ receivers' \in [Endpoints -> Seq(Threads)]
      /\ \A x \in Endpoints, u \in Threads :
           /\ In(receivers'[x], u) <=> IF u = t THEN s.wait = "receive" /\ s.on = x ELSE In(receivers[x], u)
           /\ Once(receivers'[x], u)
  BY <1>3, <1>5, <1>6, JoinsLine DEF Wait
<1>10. Ends'  BY <1>1, <1>4 DEF IpcInv, Ends, EndOk, LiveEnd
<1>11. exits' \in [Endpoints -> Seq(Pids)] /\ pumps' \subseteq Endpoints  BY <1>4 DEF IpcInv, TypeOK
<1>. QED  BY <1>2, <1>4, <1>5, <1>6, <1>7, <1>8, <1>9, <1>10, <1>11, QuietKeeps

\* The receive half of a reply_receive.
LEMMA ReceiveHalfKeeps ==
  ASSUME IpcInv, ReceiveHalf
  PROVE  IpcInv'
<1>. DEFINE t == entry
            h == thread[t].then
            s == Receiving(thread[t], h.source, h.due, h.max, Half("replied", None, "never", 0))
<1>1. t \in Threads /\ h.half = "replying"  BY DEF ReceiveHalf, IpcInv, TypeOK
<1>2. t \in alive /\ Wait(t) = "none" /\ LiveEnd(h.source)
  <2>1. SlotOk(t)  BY <1>1 DEF IpcInv, Slotted
  <2>. QED  BY <1>1, <2>1, Replying DEF SlotOk
<1>3. thread[t] \in Slots  BY <1>1 DEF IpcInv, TypeOK
<1>4. h.source \in Endpoints /\ h.due \in Deadlines /\ h.max \in 0 .. MaxBuffer
  BY <1>1, <1>3, SlotTypes, TurnTypes
<1>5. thread' = [thread EXCEPT ![t] = s] /\ receivers' = [receivers EXCEPT ![h.source] = Append(@, t)]
      /\ pumps' = {h.source}
  BY DEF ReceiveHalf
<1>6. told' = {} /\ UNCHANGED <<alive, budgets, line, exits, call, opencalls, owner, ptes, used, entry>>
  BY DEF ReceiveHalf
<1>. DEFINE half == Half("replied", None, "never", 0)
<1>7. half \in Turns /\ half.half = "replied"  BY DEF Turns, Half
<1>8. /\ s \in Slots /\ s.wait = "receive" /\ s.on = h.source /\ s.then = half
      /\ s.msg = NoMsg /\ s.held = thread[t].held /\ s.current = None
  <2>1. s = Receiving(thread[t], h.source, h.due, h.max, half)  OBVIOUS
  <2>. HIDE DEF half, s, h
  <2>. QED  BY <1>3, <1>4, <1>7, <2>1, ReceivingFacts
<1>. HIDE DEF s, half
<1>9. Calm(s)  BY <1>2, <1>4, <1>7, <1>8 DEF Calm
<1>10. SameCalls  BY <1>6, CallsSame DEF IpcInv
<1>11. /\ receivers' \in [Endpoints -> Seq(Threads)]
       /\ \A x \in Endpoints, u \in Threads :
            /\ In(receivers'[x], u) <=> IF u = t THEN s.wait = "receive" /\ s.on = x ELSE In(receivers[x], u)
            /\ Once(receivers'[x], u)
  <2>. DEFINE e == h.source
  <2>. HIDE DEF e, h
  <2>. QED  BY <1>1, <1>2, <1>4, <1>5, <1>8, JoinsLine DEF Wait, e
<1>12. Ends'  BY <1>2, <1>5, <1>6 DEF IpcInv, Ends, EndOk, LiveEnd
<1>13. exits' \in [Endpoints -> Seq(Pids)] /\ pumps' \subseteq Endpoints /\ entry' \in Threads \cup {None}
  BY <1>1, <1>4, <1>5, <1>6 DEF IpcInv, TypeOK
<1>14. \A u \in Threads : u # t /\ thread[u].then.half = "replying" => entry' = u  BY Replying
<1>. HIDE DEF h, t
<1>. QED  BY <1>1, <1>2, <1>5, <1>6, <1>8, <1>9, <1>10, <1>11, <1>12, <1>13, <1>14, QuietKeeps

\* The thread's current call changes, and nothing else.
LEMMA CurrentKeeps ==
  ASSUME IpcInv, NEW t \in Threads, Running(t), NEW c \in Frames \cup {None},
         c = None \/ In(thread[t].held, c), thread' = [thread EXCEPT ![t].current = c], told' = {},
         UNCHANGED <<alive, budgets, line, receivers, exits, call, opencalls, owner, ptes,
                     used, pumps, entry>>
  PROVE  IpcInv'
<1>1. /\ t \in alive /\ Wait(t) = "none" /\ Calm(thread[t])
      /\ \A u \in Threads : thread[u].then.half # "replying"
  BY RunningFacts
<1>. DEFINE s == [thread[t] EXCEPT !.current = c]
<1>2. thread' = [thread EXCEPT ![t] = s]  OBVIOUS
<1>3. /\ s \in Slots /\ s.wait = thread[t].wait /\ s.msg = thread[t].msg /\ s.on = thread[t].on
      /\ s.held = thread[t].held /\ s.then = thread[t].then /\ s.current = c
  BY <1>1 DEF Calm, Slots
<1>. HIDE DEF s
<1>4. Calm(s)  BY <1>1, <1>3 DEF Calm
<1>5. SameCalls  BY CallsSame DEF IpcInv
<1>6. /\ receivers' \in [Endpoints -> Seq(Threads)]
      /\ \A x \in Endpoints, u \in Threads :
           /\ In(receivers'[x], u) <=> IF u = t THEN s.wait = "receive" /\ s.on = x ELSE In(receivers[x], u)
           /\ Once(receivers'[x], u)
  BY <1>1, <1>3 DEF IpcInv, TypeOK, Queues, RecvOk, Wait
<1>7. Ends'  BY DEF IpcInv, Ends, EndOk, LiveEnd
<1>8. exits' \in [Endpoints -> Seq(Pids)] /\ pumps' \subseteq Endpoints /\ entry' \in Threads \cup {None}
  BY DEF IpcInv, TypeOK
<1>. QED  BY <1>1, <1>2, <1>3, <1>4, <1>5, <1>6, <1>7, <1>8, QuietKeeps

\* A receive refused.
LEMMA ReceiveRefusedKeeps ==
  ASSUME IpcInv, NEW t \in Threads, ReceiveRefused(t)
  PROVE  IpcInv'
BY CurrentKeeps DEF ReceiveRefused

\* serve.
LEMMA ServeKeeps ==
  ASSUME IpcInv, NEW t \in Threads, NEW f \in Frames, Serve(t, f)
  PROVE  IpcInv'
<1>1. In(thread[t].held, f)  BY DEF Serve, Members, In
<1>. QED  BY <1>1, CurrentKeeps DEF Serve

\* A receiver wakes, having taken a notice or not.
LEMMA WakeKeeps ==
  ASSUME IpcInv, NEW r \in Threads, NEW e \in Endpoints, In(receivers[e], r),
         thread' = [thread EXCEPT ![r] = Woken(@)], SameCalls,
         receivers' = [receivers EXCEPT ![e] = Without(@, {r})],
         exits' \in [Endpoints -> Seq(Pids)], \A x \in Endpoints : exits'[x] # <<>> => exits[x] # <<>>,
         told' = {}, UNCHANGED <<alive, budgets, line, opencalls, owner, ptes, used, pumps, entry>>
  PROVE  IpcInv'
<1>1. thread[r].wait = "receive" /\ thread[r].on = e  BY DEF IpcInv, Queues, RecvOk
<1>2. r \in alive /\ thread[r] \in Slots /\ (thread[r].current = None \/ In(thread[r].held, thread[r].current))
  BY <1>1 DEF IpcInv, Slotted, SlotOk, TypeOK
<1>. DEFINE s == Woken(thread[r])
<1>3. /\ s \in Slots /\ s.wait = "none" /\ s.msg = NoMsg /\ s.held = thread[r].held
      /\ s.current = thread[r].current /\ s.then.half = "none"
  BY <1>2, WokenFacts
<1>4. thread' = [thread EXCEPT ![r] = s]  OBVIOUS
<1>. HIDE DEF s
<1>5. Calm(s)  BY <1>2, <1>3 DEF Calm
<1>6. /\ receivers' \in [Endpoints -> Seq(Threads)]
      /\ \A x \in Endpoints, u \in Threads :
           /\ In(receivers'[x], u) <=> IF u = r THEN s.wait = "receive" /\ s.on = x ELSE In(receivers[x], u)
           /\ Once(receivers'[x], u)
  BY <1>1, <1>3, LeavesLine
<1>7. Ends'  BY DEF IpcInv, Ends, EndOk, LiveEnd
<1>8. pumps' \subseteq Endpoints /\ entry' \in Threads \cup {None}  BY DEF IpcInv, TypeOK
<1>9. \A u \in Threads : u # r /\ thread[u].then.half = "replying" => entry' = u  BY Replying
<1>10. Wait(r) \in {"none", "receive"}  BY <1>1 DEF Wait
<1>. QED  BY <1>2, <1>3, <1>4, <1>5, <1>6, <1>7, <1>8, <1>9, <1>10, QuietKeeps

\* An abandoned call's notice is taken.
LEMMA NoticeKeeps ==
  ASSUME IpcInv, NEW e \in Endpoints, Notice(e)
  PROVE  IpcInv'
<1>. DEFINE f == OwedNotice(e)
            r == call[f].server
<1>1. Owing(e) # {}  BY DEF Notice
<1>2. PICK ok \in Record(r) :
        /\ call' = IF ok THEN [call EXCEPT ![f].notice = FALSE] ELSE call
        /\ thread' = [thread EXCEPT ![r] = Woken(@)]
        /\ receivers' = [receivers EXCEPT ![e] = Without(@, {r})]
  BY DEF Notice
<1>3. told' = {} /\ UNCHANGED <<alive, budgets, line, exits, opencalls, owner, ptes, used, pumps, entry>>
  BY DEF Notice
<1>4. f \in Owing(e)
  <2>. DEFINE S == {call[x].server : x \in Owing(e)}
              q == receivers[e]
              r0 == FirstOf(q, S)
  <2>1. q \in Seq(Threads)  BY DEF IpcInv, TypeOK
  <2>2. PICK y \in Owing(e) : In(q, call[y].server)  BY <1>1 DEF Owing, Members, In
  <2>3. call[y].server \in S  OBVIOUS
  <2>4. r0 \in S /\ In(q, r0)
    <3>. HIDE DEF S, q
    <3>. QED  BY <2>1, <2>2, <2>3, FirstFacts
  <2>. HIDE DEF r0
  <2>5. r0 \in Threads  BY <2>1, <2>4 DEF In
  <2>6. PICK z \in Owing(e) : call[z].server = r0  BY <2>4
  <2>. DEFINE h == thread[r0].held
              W == Owing(e)
  <2>7. In(h, z)
    <3>1. z \in Frames  BY DEF Owing
    <3>. QED  BY <2>5, <2>6, <3>1 DEF IpcInv, Hands, HeldOk
  <2>8. h \in Seq(Frames)  BY <2>5, SlotTypes DEF IpcInv, TypeOK
  <2>9. f = FirstOf(h, W)  BY DEF OwedNotice, r0
  <2>. HIDE DEF h, W
  <2>10. z \in W  BY DEF W
  <2>11. FirstOf(h, W) \in W  BY <2>7, <2>8, <2>10, FirstFacts
  <2>. QED  BY <2>9, <2>11 DEF W
<1>. HIDE DEF f
<1>5. f \in Frames /\ In(receivers[e], r) /\ call[f].notice  BY <1>4 DEF Owing, Members, In
<1>6. r \in Threads  BY <1>5, CallTypes DEF IpcInv
<1>7. SameCalls
  <2>1. CASE ~ok  BY <1>2, <2>1, CallsSame DEF IpcInv
  <2>2. CASE ok
    <3>1. call[f] \in Calls /\ IsOpen(f)  BY <1>5, CallTypes DEF IpcInv
    <3>2. call \in [Frames -> Calls \cup {NoCall}]  BY DEF IpcInv, TypeOK
    <3>. DEFINE c == [call[f] EXCEPT !.notice = FALSE]
    <3>3. c \in Calls /\ c.caller = call[f].caller /\ c.server = call[f].server
          /\ c.endpoint = call[f].endpoint /\ c.stamp = call[f].stamp
          /\ c.payer = call[f].payer /\ c.lend = call[f].lend /\ c.waiting = call[f].waiting /\ c.notice = FALSE
      BY <3>1 DEF Calls
    <3>4. c # NoCall  BY <3>3, Constants
    <3>5. call' = [call EXCEPT ![f] = c]  BY <1>2, <2>2
    <3>. HIDE DEF c
    <3>6. call'[f] = c /\ \A h \in Frames : h # f => call'[h] = call[h]  BY <1>5, <3>2, <3>5
    <3>7. call' \in [Frames -> Calls \cup {NoCall}]  BY <1>5, <3>2, <3>3, <3>5
    <3>. QED  BY <3>1, <3>3, <3>4, <3>6, <3>7 DEF SameCalls, IsOpen
  <2>. QED  BY <2>1, <2>2
<1>8. exits' \in [Endpoints -> Seq(Pids)]  BY <1>3 DEF IpcInv, TypeOK
<1>. HIDE DEF r
<1>. QED  BY <1>2, <1>3, <1>5, <1>6, <1>7, <1>8, WakeKeeps

\* An exit notice is taken.
LEMMA ExitNoticeKeeps ==
  ASSUME IpcInv, NEW e \in Endpoints, ExitNotice(e)
  PROVE  IpcInv'
<1>. DEFINE r == Head(receivers[e])
<1>1. exits[e] # <<>> /\ receivers[e] # <<>>  BY DEF ExitNotice
<1>2. PICK ok \in Record(r) :
        /\ exits' = IF ok THEN [exits EXCEPT ![e] = Tail(@)] ELSE exits
        /\ thread' = [thread EXCEPT ![r] = Woken(@)]
        /\ receivers' = [receivers EXCEPT ![e] = Without(@, {r})]
  BY DEF ExitNotice
<1>3. told' = {} /\ UNCHANGED <<alive, budgets, line, call, opencalls, owner, ptes, used, pumps, entry>>
  BY DEF ExitNotice
<1>4. receivers[e] \in Seq(Threads) /\ exits \in [Endpoints -> Seq(Pids)]  BY DEF IpcInv, TypeOK
<1>5. r \in Threads /\ In(receivers[e], r)  BY <1>1, <1>4 DEF In
<1>6. exits' \in [Endpoints -> Seq(Pids)] /\ \A x \in Endpoints : exits'[x] # <<>> => exits[x] # <<>>
  BY <1>1, <1>2, <1>4
<1>7. SameCalls  BY <1>3, CallsSame DEF IpcInv
<1>. HIDE DEF r
<1>. QED  BY <1>2, <1>3, <1>5, <1>6, <1>7, WakeKeeps

\* An endpoint is pumped.
LEMMA PumpedKeeps ==
  ASSUME IpcInv, NEW e \in Endpoints, Pumped(e)
  PROVE  IpcInv'
<1>1. pumps' \subseteq pumps /\ entry' \in Threads \cup {None}  BY DEF Pumped, IpcInv, TypeOK
<1>2. \A u \in Threads : thread[u].then.half = "replying" => entry' = u  BY Replying DEF Pumped
<1>. QED  BY <1>1, <1>2, StillKeeps DEF Pumped

\* settle.
LEMMA SettledKeeps ==
  ASSUME IpcInv, Settle
  PROVE  IpcInv'
<1>1. CASE Wait(entry) # "none" /\ thread[entry].due = "now"  BY <1>1, SettleKeeps
<1>2. CASE ~(Wait(entry) # "none" /\ thread[entry].due = "now")
  <2>1. /\ told' = {} /\ entry' = None /\ thread[entry].then.half # "replying"
        /\ UNCHANGED <<alive, budgets, thread, line, receivers, exits, call, opencalls,
                       owner, ptes, used, pumps>>
    BY <1>2 DEF Settle
  <2>2. \A u \in Threads : thread[u].then.half = "replying" => entry' = u  BY <2>1, Replying
  <2>. QED  BY <2>1, <2>2, StillKeeps
<1>. QED  BY <1>1, <1>2

\* Nothing happens.
LEMMA StutterKeeps ==
  ASSUME IpcInv, UNCHANGED vars
  PROVE  IpcInv'
<1>1. entry' \in Threads \cup {None}  BY DEF IpcInv, TypeOK, vars
<1>2. \A u \in Threads : thread[u].then.half = "replying" => entry' = u  BY Replying DEF vars
<1>. QED  BY <1>1, <1>2, StillKeeps DEF vars

-----------------------------------------------------------------------------
(* Steps that move pages. *)

\* Entries of a set of pages.
LEMMA EntryFacts ==
  /\ \A S, p, k, g, q, j : Pte(g, q, j) \in Entry(S, p, k) <=> g \in S /\ q = p /\ j = k
  /\ \A S \in SUBSET Pages, p \in Pids, k \in {"own", "lent", "borrowed"} : Entry(S, p, k) \subseteq Ptes
<1>1. ASSUME NEW S, NEW p, NEW k, NEW g, NEW q, NEW j
      PROVE  Pte(g, q, j) \in Entry(S, p, k) <=> g \in S /\ q = p /\ j = k
  <2>1. ASSUME Pte(g, q, j) \in Entry(S, p, k)  PROVE g \in S /\ q = p /\ j = k
    <3>1. PICK h \in S : Pte(g, q, j) = Pte(h, p, k)  BY <2>1 DEF Entry, Pte
    <3>2. g = h /\ q = p /\ j = k  BY <3>1, PteFacts
    <3>. QED  BY <3>2
  <2>2. ASSUME g \in S, q = p, j = k  PROVE Pte(g, q, j) \in Entry(S, p, k)  BY <2>2 DEF Entry, Pte
  <2>. QED  BY <2>1, <2>2
<1>2. \A S \in SUBSET Pages, p \in Pids, k \in {"own", "lent", "borrowed"} : Entry(S, p, k) \subseteq Ptes
  BY DEF Entry, Ptes
<1>. QED  BY <1>1, <1>2

\* A page nothing happened to.
LEMMA PageKept ==
  ASSUME NEW g \in Pages, PageOk(g), owner'[g] = owner[g],
         \A p \in Pids, k \in {"own", "lent", "borrowed"} : Pte(g, p, k) \in ptes' <=> Pte(g, p, k) \in ptes,
         \A t \in Threads : g \in Buf(t)' <=> g \in Buf(t),
         \A f \in Frames : /\ g \in call'[f].lend <=> g \in call[f].lend
                           /\ g \in call[f].lend => /\ call'[f].caller = call[f].caller
                                                    /\ call'[f].server = call[f].server
                                                    /\ call'[f].waiting = call[f].waiting
  PROVE  PageOk(g)'
<1>1. UseOk(g) /\ OwnerOk(g) /\ PteOk(g)  BY DEF PageOk
<1>2. UseOk(g)'  BY <1>1 DEF UseOk
<1>3. OwnerOk(g)'  BY <1>1 DEF OwnerOk, Pid
<1>4. PteOk(g)'  BY <1>1 DEF PteOk, Pte, Pid
<1>. QED  BY <1>2, <1>3, <1>4 DEF PageOk

\* A page nobody sends or has lent: only its owner's entry.
LEMMA PageFree ==
  ASSUME NEW g \in Pages,
         \A t \in Threads : g \notin Buf(t)', \A f \in Frames : g \notin call'[f].lend,
         \A p \in Pids : /\ Pte(g, p, "own") \in ptes' <=> owner'[g] = p
                         /\ Pte(g, p, "lent") \notin ptes' /\ Pte(g, p, "borrowed") \notin ptes'
  PROVE  PageOk(g)'
<1>2. UseOk(g)'  BY DEF UseOk
<1>3. OwnerOk(g)'  BY DEF OwnerOk, Pid
<1>4. PteOk(g)'  BY DEF PteOk, Pte, Pid
<1>. QED  BY <1>2, <1>3, <1>4 DEF PageOk

\* A page with an own entry, or none at all, is used by nobody.
LEMMA Unused ==
  ASSUME IpcInv, NEW g \in Pages, owner[g] = None \/ \E p \in Pids : Pte(g, p, "own") \in ptes
  PROVE  /\ \A t \in Threads : g \notin Buf(t)
         /\ \A f \in Frames : g \notin call[f].lend
         /\ \A p \in Pids : /\ Pte(g, p, "own") \in ptes <=> owner[g] = p
                            /\ Pte(g, p, "lent") \notin ptes /\ Pte(g, p, "borrowed") \notin ptes
<1>1. UseOk(g) /\ OwnerOk(g) /\ PteOk(g)  BY DEF IpcInv, Paged, PageOk
<1>2. \A t \in Threads : Pid(t) \in Pids /\ Pid(t) # None  BY KindsAssumption, NoneAssumption DEF Pid
<1>3. \A t \in Threads : g \notin Buf(t)  BY <1>1, <1>2 DEF OwnerOk, PteOk
<1>4. \A f \in Frames : g \notin call[f].lend
  <2>1. \A f \in Frames : g \in call[f].lend => call[f].caller \in Threads /\ call[f].server \in Threads
    BY CallTypes DEF IpcInv
  <2>. QED  BY <1>1, <1>2, <2>1 DEF OwnerOk, PteOk
<1>. QED  BY <1>1, <1>3, <1>4 DEF PteOk

\* Thread t, which runs, takes or gives back a page; the rest is as it was.
LEMMA MapKeeps ==
  ASSUME IpcInv, NEW t \in Threads, NEW g \in Pages, MapPage(t, g) \/ UnmapPage(t, g)
  PROVE  IpcInv'
<1>. DEFINE p == Pid(t)
            b == Budget(t)
<1>1. /\ told' = {}
      /\ UNCHANGED <<alive, budgets, thread, line, receivers, exits, call, opencalls, pumps, entry>>
  BY DEF MapPage, UnmapPage
<1>2. p \in Pids /\ p # None /\ b \in Budgets /\ b = BudgetOf[p] /\ Limit[b] \in Nat
  BY KindsAssumption, NoneAssumption DEF Pid, Budget
<1>3. TypeOK /\ Balanced  BY BalanceIs DEF IpcInv
<1>4. owner \in [Pages -> Pids \cup {None}] /\ used \in [Budgets -> Nat] /\ ptes \subseteq Ptes
  BY <1>3 DEF TypeOK
<1>5. \/ MapPage(t, g) /\ owner[g] = None
      \/ UnmapPage(t, g) /\ Pte(g, p, "own") \in ptes
  BY DEF MapPage, UnmapPage, Entry, Pte
<1>6. /\ \A u \in Threads : g \notin Buf(u)
      /\ \A f \in Frames : g \notin call[f].lend
      /\ \A q \in Pids : /\ Pte(g, q, "own") \in ptes <=> owner[g] = q
                         /\ Pte(g, q, "lent") \notin ptes /\ Pte(g, q, "borrowed") \notin ptes
  BY <1>2, <1>5, Unused
<1>7. \A x \in Pages, q \in Pids, k \in {"own", "lent", "borrowed"} :
        Pte(x, q, k) \in Entry({g}, p, "own") <=> x = g /\ q = p /\ k = "own"
  BY EntryFacts
<1>8. Entry({g}, p, "own") \subseteq Ptes  BY <1>2 DEF Entry, Ptes
<1>. HIDE DEF p
<1>9. ASSUME MapPage(t, g)
      PROVE  TypeOK' /\ Paged' /\ \A c \in Budgets : used'[c] = Owned(owner', c) + Cardinality(Bill(c)')
  <2>1. /\ owner[g] = None /\ used[b] < Limit[b] /\ owner' = [owner EXCEPT ![g] = p]
        /\ ptes' = ptes \cup Entry({g}, p, "own") /\ used' = [used EXCEPT ![b] = @ + 1]
    BY <1>9 DEF MapPage, p
  <2>. HIDE DEF b
  <2>2. TypeOK'
    <3>1. owner' \in [Pages -> Pids \cup {None}]  BY <1>2, <1>4, <2>1
    <3>2. used' \in [Budgets -> Nat] /\ \A x \in Budgets : used'[x] <= Limit[x]
      BY <1>2, <1>3, <1>4, <2>1 DEF TypeOK
    <3>3. ptes' \subseteq Ptes  BY <1>4, <1>8, <2>1
    <3>. QED  BY <1>1, <1>3, <3>1, <3>2, <3>3 DEF TypeOK
  <2>3. Paged'
    <3>. SUFFICES ASSUME NEW x \in Pages  PROVE PageOk(x)'
      BY DEF Paged
    <3>1. CASE x = g
      <4>1. owner'[g] = p  BY <1>4, <2>1
      <4>2. \A q \in Pids : /\ Pte(g, q, "own") \in ptes' <=> owner'[g] = q
                            /\ Pte(g, q, "lent") \notin ptes' /\ Pte(g, q, "borrowed") \notin ptes'
        BY <1>2, <1>6, <1>7, <2>1, <4>1, NoneAssumption
      <4>. QED  BY <1>1, <1>6, <3>1, <4>2, PageFree DEF Buf
    <3>2. CASE x # g
      <4>1. owner'[x] = owner[x]  BY <1>4, <2>1, <3>2
      <4>2. \A q \in Pids, k \in {"own", "lent", "borrowed"} : Pte(x, q, k) \in ptes' <=> Pte(x, q, k) \in ptes
        BY <1>7, <2>1, <3>2
      <4>. QED  BY <1>1, <4>1, <4>2, PageKept DEF Buf, IpcInv, Paged
    <3>. QED  BY <3>1, <3>2
  <2>4. ASSUME NEW c \in Budgets  PROVE Owned(owner', c) = Owned(owner, c) + IF c = b THEN 1 ELSE 0
    <3>1. c = b => OwnedSet(owner', c) = OwnedSet(owner, c) \cup {g} /\ g \notin OwnedSet(owner, c)
      BY <1>2, <1>4, <2>1 DEF OwnedSet
    <3>2. c # b => OwnedSet(owner', c) = OwnedSet(owner, c)  BY <1>2, <1>4, <2>1 DEF OwnedSet
    <3>3. IsFiniteSet(OwnedSet(owner, c))  BY OwnedIs, Finite
    <3>4. c = b => Cardinality(OwnedSet(owner', c)) = Cardinality(OwnedSet(owner, c)) + 1
      BY <3>1, <3>3, FS_AddElement
    <3>5. Owned(owner', c) = Cardinality(OwnedSet(owner', c)) /\ Owned(owner, c) = Cardinality(OwnedSet(owner, c))
          /\ Owned(owner, c) \in Nat
      BY OwnedIs
    <3>. QED  BY <3>2, <3>4, <3>5
  <2>5. ASSUME NEW c \in Budgets  PROVE used'[c] = Owned(owner', c) + Cardinality(Bill(c)')
    <3>1. Bill(c)' = Bill(c)  BY <1>1 DEF Bill, IsOpen, Items
    <3>2. used[c] = Owned(owner, c) + Cardinality(Bill(c))  BY <1>3 DEF Balanced
    <3>3. Owned(owner, c) \in Nat /\ Cardinality(Bill(c)) \in Nat  BY <1>3, OwnedIs, BillIs
    <3>4. used'[c] = used[c] + IF c = b THEN 1 ELSE 0  BY <1>2, <1>4, <2>1
    <3>. QED  BY <2>4, <3>1, <3>2, <3>3, <3>4
  <2>. QED  BY <2>2, <2>3, <2>5
<1>10. ASSUME UnmapPage(t, g)
      PROVE  TypeOK' /\ Paged' /\ \A c \in Budgets : used'[c] = Owned(owner', c) + Cardinality(Bill(c)')
  <2>1. /\ owner' = [owner EXCEPT ![g] = None]
        /\ ptes' = ptes \ Entry({g}, p, "own") /\ used' = [used EXCEPT ![b] = @ - 1]
        /\ Entry({g}, p, "own") \subseteq ptes
    BY <1>10 DEF UnmapPage, p
  <2>2. Pte(g, p, "own") \in ptes /\ owner[g] = p
    <3>1. Pte(g, p, "own") \in ptes  BY <2>1, EntryFacts
    <3>. QED  BY <1>2, <1>6, <3>1
  <2>. HIDE DEF b
  <2>4. ASSUME NEW c \in Budgets
        PROVE  /\ Owned(owner', c) = Owned(owner, c) - IF c = b THEN 1 ELSE 0
               /\ Owned(owner', c) \in Nat
    <3>1. c = b => OwnedSet(owner', c) = OwnedSet(owner, c) \ {g} /\ g \in OwnedSet(owner, c)
      BY <1>2, <1>4, <2>1, <2>2 DEF OwnedSet
    <3>2. c # b => OwnedSet(owner', c) = OwnedSet(owner, c)
      BY <1>2, <1>4, <2>1, <2>2 DEF OwnedSet
    <3>3. IsFiniteSet(OwnedSet(owner, c))  BY OwnedIs, Finite
    <3>4. c = b => Cardinality(OwnedSet(owner', c)) = Cardinality(OwnedSet(owner, c)) - 1
      BY <3>1, <3>3, FS_RemoveElement
    <3>5. Owned(owner', c) = Cardinality(OwnedSet(owner', c)) /\ Owned(owner, c) = Cardinality(OwnedSet(owner, c))
          /\ Owned(owner, c) \in Nat /\ Owned(owner', c) \in Nat
      BY OwnedIs
    <3>. QED  BY <3>2, <3>4, <3>5
  <2>5. ASSUME NEW c \in Budgets
        PROVE  /\ used'[c] = Owned(owner', c) + Cardinality(Bill(c)')
               /\ used'[c] \in Nat /\ used'[c] <= Limit[c]
    <3>1. Bill(c)' = Bill(c)  BY <1>1 DEF Bill, IsOpen, Items
    <3>2. used[c] = Owned(owner, c) + Cardinality(Bill(c))  BY <1>3 DEF Balanced
    <3>3. Owned(owner, c) \in Nat /\ Cardinality(Bill(c)) \in Nat  BY <1>3, OwnedIs, BillIs
    <3>4. used'[c] = used[c] - IF c = b THEN 1 ELSE 0  BY <1>2, <1>4, <2>1
    <3>5. used[c] <= Limit[c] /\ Limit[c] \in Nat  BY <1>3, KindsAssumption DEF TypeOK
    <3>. QED  BY <2>4, <3>1, <3>2, <3>3, <3>4, <3>5
  <2>6. TypeOK'
    <3>1. owner' \in [Pages -> Pids \cup {None}]  BY <1>2, <1>4, <2>1
    <3>2. used' \in [Budgets -> Nat]
      <4>1. used' = [c \in Budgets |-> used'[c]]  BY <1>4, <2>1
      <4>. QED  BY <2>5, <4>1
    <3>3. ptes' \subseteq Ptes  BY <1>4, <2>1
    <3>. QED  BY <1>1, <1>3, <2>5, <3>1, <3>2, <3>3 DEF TypeOK
  <2>7. Paged'
    <3>. SUFFICES ASSUME NEW x \in Pages  PROVE PageOk(x)'
      BY DEF Paged
    <3>1. CASE x = g
      <4>1. owner'[g] = None  BY <1>4, <2>1
      <4>2. \A q \in Pids : /\ Pte(g, q, "own") \in ptes' <=> owner'[g] = q
                            /\ Pte(g, q, "lent") \notin ptes' /\ Pte(g, q, "borrowed") \notin ptes'
        BY <1>2, <1>6, <1>7, <2>1, <2>2, <4>1, NoneAssumption
      <4>. QED  BY <1>1, <1>6, <3>1, <4>2, PageFree DEF Buf
    <3>2. CASE x # g
      <4>1. owner'[x] = owner[x]  BY <1>4, <2>1, <3>2
      <4>2. \A q \in Pids, k \in {"own", "lent", "borrowed"} : Pte(x, q, k) \in ptes' <=> Pte(x, q, k) \in ptes
        BY <1>7, <2>1, <3>2
      <4>. QED  BY <1>1, <4>1, <4>2, PageKept DEF Buf, IpcInv, Paged
    <3>. QED  BY <3>1, <3>2
  <2>. QED  BY <2>5, <2>6, <2>7
<1>11. TypeOK' /\ Paged' /\ \A c \in Budgets : used'[c] = Owned(owner', c) + Cardinality(Bill(c)')
  BY <1>9, <1>10
<1>12. Slotted'  BY <1>1 DEF IpcInv, Slotted, SlotOk, LiveEnd
<1>13. Called'  BY <1>1 DEF IpcInv, Called, CallOk, LiveEnd, IsOpen, Budget
<1>14. Queues'  BY <1>1 DEF IpcInv, Queues, LineOk, RecvOk, Tok, Group, Budget
<1>15. Ends'  BY <1>1 DEF IpcInv, Ends, EndOk, LiveEnd
<1>16. Hands'  BY <1>1 DEF IpcInv, Hands, HeldOk
<1>17. LendTold'  BY <1>1 DEF LendTold
<1>18. \A q \in Pids : opencalls'[q] = Cardinality(HeldIn(q)')  BY <1>1, <1>3 DEF Balanced, HeldIn, IsOpen, Pid
<1>19. ChargesBalance'  BY <1>11, <1>18, BalanceAfter DEF Balanced
<1>. QED  BY <1>11, <1>12, <1>13, <1>14, <1>15, <1>16, <1>17, <1>19 DEF IpcInv

\* A page one queued message carries.
LEMMA PageQueued ==
  ASSUME NEW g \in Pages, NEW t \in Threads,
         \A u \in Threads : g \in Buf(u)' <=> u = t, \A f \in Frames : g \notin call'[f].lend,
         owner'[g] = Pid(t),
         \A p \in Pids : /\ Pte(g, p, "own") \notin ptes' /\ Pte(g, p, "borrowed") \notin ptes'
                         /\ Pte(g, p, "lent") \in ptes' <=> p = Pid(t)
  PROVE  PageOk(g)'
<1>2. UseOk(g)'  BY DEF UseOk
<1>3. OwnerOk(g)'  BY DEF OwnerOk, Pid
<1>4. PteOk(g)'  BY DEF PteOk, Pte, Pid
<1>. QED  BY <1>2, <1>3, <1>4 DEF PageOk

\* A thread's token is its own.
LEMMA TokFacts ==
  ASSUME NEW t \in Threads
  PROVE  Tok(t) \in Tokens /\ \A u \in Threads : Tok(u) = Tok(t) => u = t
<1>1. Budget(t) \in Budgets  BY KindsAssumption DEF Budget
<1>2. Tok(t) \in Tokens  BY <1>1 DEF Tok, Group, Arrival, Tokens
<1>3. \A u \in Threads : Tok(u).thread = u  BY DEF Tok, Arrival
<1>. QED  BY <1>2, <1>3

\* queue_send: a buffer is lent out, its message joins the line.
LEMMA QueueSendKeeps ==
  ASSUME IpcInv, NEW t \in Threads, Running(t), NEW kind \in {"call", "send"}, NEW h \in Handles,
         NEW buf \in Buffers(Pid(t)), NEW due \in Deadlines, NEW then \in Turns,
         then.half = "none" \/ (then.half = "sending" /\ kind = "send"),
         Holds(Pid(t), h), QueueSend(t, kind, h, buf, due, then)
  PROVE  IpcInv'
<1>. DEFINE s == Sending(thread[t], kind, h, buf, due, then)
            e == h.to
            p == Pid(t)
<1>1. thread' = [thread EXCEPT ![t] = s] /\ line' = [line EXCEPT ![e] = Append(@, Tok(t))]
      /\ ptes' = Lent(p, buf) /\ pumps' = {e} /\ entry' = t /\ told' = {}
  BY DEF QueueSend
<1>2. UNCHANGED <<alive, budgets, receivers, exits, call, opencalls, owner, used>>  BY DEF QueueSend
<1>3. e \in Endpoints /\ LiveEnd(e) /\ h.stamp \in budgets  BY KindsAssumption DEF Holds
<1>4. buf \in SUBSET Pages /\ \A g \in buf : Pte(g, p, "own") \in ptes  BY DEF Buffers, Pte
<1>5. /\ t \in alive /\ Wait(t) = "none" /\ Calm(thread[t]) /\ pumps = {}
      /\ \A u \in Threads : thread[u].then.half # "replying"
  BY RunningFacts
<1>6. TypeOK /\ thread \in [Threads -> Slots] /\ line \in [Endpoints -> Seq(Tokens)] /\ ptes \subseteq Ptes
  BY DEF IpcInv, TypeOK
<1>7. p \in Pids  BY KindsAssumption DEF Pid
<1>8. /\ s \in Slots /\ s.wait = "send" /\ s.on = e /\ s.then = then /\ s.msg # NoMsg
      /\ s.msg = [kind |-> kind, stamp |-> h.stamp, buf |-> buf]
      /\ s.held = thread[t].held /\ s.current = thread[t].current
  <2>1. thread[t] \in Slots  BY <1>6
  <2>. QED  BY <1>4, <2>1, SendingFacts
<1>9. s.msg.kind = kind /\ s.msg.stamp = h.stamp /\ s.msg.buf = buf  BY <1>8
<1>. HIDE DEF s, e, p
<1>10. thread'[t] = s /\ \A u \in Threads : u # t => thread'[u] = thread[u]  BY <1>1, <1>6
<1>11. thread[t].wait = "none" /\ thread[t].msg = NoMsg  BY <1>5 DEF Calm, Wait
<1>12. ASSUME NEW x \in Endpoints, NEW u \in Threads
       PROVE  /\ line'[x] \in Seq(Tokens)
              /\ In(line'[x], Tok(u)) <=> In(line[x], Tok(u)) \/ (x = e /\ u = t)
              /\ Once(line'[x], Tok(u))
  <2>1. In(line[x], Tok(u)) <=> thread[u].wait = "send" /\ thread[u].on = x  BY DEF IpcInv, Queues, LineOk
  <2>2. line[x] \in Seq(Tokens) /\ Once(line[x], Tok(u))  BY <1>6 DEF IpcInv, Queues, LineOk
  <2>3. CASE x = e
    <3>. DEFINE l == line[e]
                y == Tok(t)
                z == Tok(u)
    <3>1. y \in Tokens /\ (z = y <=> u = t)  BY TokFacts
    <3>2. line'[x] = Append(l, y)  BY <1>1, <1>3, <1>6, <2>3
    <3>3. l \in Seq(Tokens) /\ Once(l, z) /\ (z = y => ~In(l, z))  BY <1>11, <2>1, <2>2, <2>3, <3>1
    <3>. HIDE DEF l, y, z
    <3>4. Append(l, y) \in Seq(Tokens) /\ (In(Append(l, y), z) <=> In(l, z) \/ z = y) /\ Once(Append(l, y), z)
      BY <3>1, <3>3, AppendFacts
    <3>. QED  BY <2>3, <3>1, <3>2, <3>4 DEF l, z
  <2>4. CASE x # e
    <3>1. line'[x] = line[x]  BY <1>1, <1>6, <2>4
    <3>. QED  BY <2>2, <2>4, <3>1
  <2>. QED  BY <2>3, <2>4
<1>13. ASSUME NEW g \in Pages, NEW q \in Pids, NEW k \in {"own", "lent", "borrowed"}
       PROVE  Pte(g, q, k) \in ptes' <=>
                \/ Pte(g, q, k) \in ptes /\ ~(g \in buf /\ q = p /\ k = "own")
                \/ g \in buf /\ q = p /\ k = "lent"
  BY <1>1, EntryFacts DEF Lent
<1>14. TypeOK'
  <2>1. thread' \in [Threads -> Slots]  BY <1>1, <1>6, <1>8
  <2>2. line' \in [Endpoints -> Seq(Tokens)]
    <3>1. line' = [x \in Endpoints |-> line'[x]]  BY <1>1, <1>6
    <3>. QED  BY <1>12, <3>1
  <2>3. ptes' \subseteq Ptes
    <3>1. Entry(buf, p, "lent") \subseteq Ptes  BY <1>4, <1>7, EntryFacts
    <3>. QED  BY <1>1, <1>6, <3>1 DEF Lent
  <2>. QED  BY <1>1, <1>2, <1>3, <1>6, <2>1, <2>2, <2>3 DEF TypeOK
<1>15. Slotted'
  <2>. SUFFICES ASSUME NEW u \in Threads  PROVE SlotOk(u)'
    BY DEF Slotted
  <2>1. CASE u = t
    BY <1>2, <1>3, <1>5, <1>8, <1>9, <1>10, <2>1 DEF SlotOk, LiveEnd, Calm
  <2>2. CASE u # t
    <3>1. SlotOk(u) /\ thread'[u] = thread[u]  BY <1>10, <2>2 DEF IpcInv, Slotted
    <3>. QED  BY <1>2, <1>5, <3>1 DEF SlotOk, LiveEnd
  <2>. QED  BY <2>1, <2>2
<1>16. Called'
  <2>. SUFFICES ASSUME NEW f \in Frames, IsOpen(f)  PROVE CallOk(f)'
    BY <1>2 DEF Called, CallOk, IsOpen
  <2>1. CallOk(f)  BY DEF IpcInv, Called
  <2>2. call[f].caller \in Threads  BY <1>6, CallTypes
  <2>3. call[f].waiting => call[f].caller # t  BY <1>11, <2>1 DEF CallOk
  <2>. QED  BY <1>2, <1>10, <2>1, <2>2, <2>3 DEF CallOk, LiveEnd, IsOpen, Budget
<1>17. Hands'
  <2>1. \A u \in Threads : thread'[u].held = thread[u].held  BY <1>8, <1>10
  <2>. QED  BY <1>2, <1>6, <2>1, CallsSame, HandsKept DEF IpcInv
<1>18. Queues'
  <2>. SUFFICES ASSUME NEW x \in Endpoints, NEW u \in Threads
                PROVE  /\ In(line'[x], Tok(u)) <=> thread'[u].wait = "send" /\ thread'[u].on = x
                       /\ Once(line'[x], Tok(u))
                       /\ In(receivers[x], u) <=> thread'[u].wait = "receive" /\ thread'[u].on = x
                       /\ Once(receivers[x], u)
    BY <1>2 DEF Queues, LineOk, RecvOk, Tok, Group, Budget
  <2>1. /\ In(line[x], Tok(u)) <=> thread[u].wait = "send" /\ thread[u].on = x
        /\ In(receivers[x], u) <=> thread[u].wait = "receive" /\ thread[u].on = x
        /\ Once(receivers[x], u)
    BY DEF IpcInv, Queues, LineOk, RecvOk
  <2>2. CASE u = t  BY <1>8, <1>10, <1>11, <1>12, <2>1, <2>2
  <2>3. CASE u # t  BY <1>10, <1>12, <2>1, <2>3
  <2>. QED  BY <2>2, <2>3
<1>19. Ends'  BY <1>1, <1>2, <1>3 DEF IpcInv, Ends, EndOk, LiveEnd
<1>20. Paged'
  <2>. SUFFICES ASSUME NEW g \in Pages  PROVE PageOk(g)'
    BY DEF Paged
  <2>1. Buf(t)' = buf /\ Buf(t) = {} /\ \A u \in Threads : u # t => Buf(u)' = Buf(u)
    BY <1>9, <1>10, <1>11, Constants DEF Buf
  <2>2. CASE g \in buf
    <3>1. /\ \A u \in Threads : g \notin Buf(u)
          /\ \A f \in Frames : g \notin call[f].lend
          /\ \A q \in Pids : /\ Pte(g, q, "own") \in ptes <=> owner[g] = q
                             /\ Pte(g, q, "lent") \notin ptes /\ Pte(g, q, "borrowed") \notin ptes
      BY <1>4, <1>7, <2>2, Unused
    <3>2. owner[g] = p  BY <1>4, <1>7, <2>2, <3>1
    <3>3. \A u \in Threads : g \in Buf(u)' <=> u = t  BY <2>1, <2>2, <3>1
    <3>4. \A q \in Pids : /\ Pte(g, q, "own") \notin ptes' /\ Pte(g, q, "borrowed") \notin ptes'
                          /\ Pte(g, q, "lent") \in ptes' <=> q = Pid(t)
      BY <1>13, <2>2, <3>1, <3>2 DEF p
    <3>. QED  BY <1>2, <3>1, <3>2, <3>3, <3>4, PageQueued DEF p
  <2>3. CASE g \notin buf
    <3>1. \A u \in Threads : g \in Buf(u)' <=> g \in Buf(u)  BY <2>1, <2>3
    <3>2. \A q \in Pids, k \in {"own", "lent", "borrowed"} : Pte(g, q, k) \in ptes' <=> Pte(g, q, k) \in ptes
      BY <1>13, <2>3
    <3>. QED  BY <1>2, <3>1, <3>2, PageKept DEF IpcInv, Paged
  <2>. QED  BY <2>2, <2>3
<1>21. ChargesBalance'  BY <1>2, <1>6, <1>14, CallsSame, ChargesKept DEF IpcInv
<1>22. LendTold'  BY <1>1 DEF LendTold
<1>. QED  BY <1>14, <1>15, <1>16, <1>17, <1>18, <1>19, <1>20, <1>21, <1>22 DEF IpcInv

\* call and send.
LEMMA SendKeeps ==
  ASSUME IpcInv, NEW t \in Threads, NEW kind \in {"call", "send"}, NEW h \in Handles,
         NEW buf \in SUBSET Pages, NEW due \in Deadlines, Send(t, kind, h, buf, due)
  PROVE  IpcInv'
BY QueueSendKeeps, Constants DEF Send

\* send_receive.
LEMMA SendReceiveKeeps ==
  ASSUME IpcInv, NEW t \in Threads, NEW h \in Handles, NEW buf \in SUBSET Pages, NEW sdue \in Deadlines,
         NEW e \in Endpoints, NEW due \in Deadlines, NEW max \in Maxes,
         SendReceive(t, h, buf, sdue, e, due, max)
  PROVE  IpcInv'
<1>. DEFINE then == Half("sending", e, due, max)
<1>1. then \in Turns /\ then.half = "sending"  BY BoundsAssumption DEF Turns, Half
<1>2. Running(t) /\ Holds(Pid(t), h) /\ buf \in Buffers(Pid(t)) /\ QueueSend(t, "send", h, buf, sdue, then)
  BY DEF SendReceive
<1>. HIDE DEF then
<1>. QED  BY <1>1, <1>2, QueueSendKeeps

\* Owners change and calls close: what budget b is charged.
LEMMA Recharged ==
  ASSUME TypeOK, Balanced, NEW C \in SUBSET Frames, NEW own, owner' = own, used' = Uncharged(own, C, {}),
         NEW b \in Budgets, Refund(C, {}, b) \in SUBSET Bill(b), Bill(b)' = Bill(b) \ Refund(C, {}, b)
  PROVE  /\ used'[b] = Owned(owner', b) + Cardinality(Bill(b)') /\ used'[b] \in Nat
         /\ used'[b] <= used[b] + Owned(own, b) - Owned(owner, b)
<1>. DEFINE R == Refund(C, {}, b)
<1>1. used'[b] = used[b] + Owned(own, b) - Owned(owner, b) - Cardinality(R)  BY RefundIs
<1>2. IsFiniteSet(Bill(b))  BY BillIs
<1>. HIDE DEF R
<1>3. /\ Cardinality(R) \in Nat /\ Cardinality(Bill(b)) \in Nat /\ Cardinality(Bill(b)') \in Nat
      /\ Cardinality(Bill(b)') = Cardinality(Bill(b)) - Cardinality(R)
  BY <1>2, Remainder DEF R
<1>4. used[b] = Owned(owner, b) + Cardinality(Bill(b))  BY DEF Balanced
<1>5. Owned(owner, b) \in Nat /\ Owned(own, b) \in Nat  BY OwnedIs
<1>. QED  BY <1>1, <1>3, <1>4, <1>5

\* What a reply does to each thread's page.
LEMMA ReplyEffect ==
  ASSUME IpcInv, NEW t \in Threads, NEW f \in Frames, NEW then, FinishReply(t, f, then), NEW x \in Threads
  PROVE  thread'[x] = IF x = t THEN [Dropped(thread[t], f) EXCEPT !.then = then]
                      ELSE IF call[f].waiting /\ x = call[f].caller THEN Woken(thread[x]) ELSE thread[x]
<1>. DEFINE answered == {y \in Threads : call[f].waiting /\ y = call[f].caller}
<1>1. thread' = [y \in Threads |->
                   IF y = t THEN [Dropped(thread[t], f) EXCEPT !.then = then]
                   ELSE IF y \in answered THEN Woken(thread[y]) ELSE thread[y]]
  BY Zenon DEF FinishReply
<1>. QED  BY <1>1

\* finish_reply: the call is closed, its lend given back or freed.
LEMMA FinishReplyKeeps ==
  ASSUME IpcInv, NEW t \in Threads, Running(t), NEW f \in Frames, f \in Members(thread[t].held),
         NEW then \in Turns, FinishReply(t, f, then),
         then.half = "none" \/ (then.half = "replying" /\ LiveEnd(then.source) /\ entry' = t),
         entry' \in Threads \cup {None}
  PROVE  IpcInv'
<1>. DEFINE c == call[f]
            a == call[f].caller
            own == [g \in Pages |-> IF g \in c.lend /\ ~c.waiting THEN None ELSE owner[g]]
            answered == {x \in Threads : c.waiting /\ x = c.caller}
            s == [Dropped(thread[t], f) EXCEPT !.then = then]
<1>1. call' = [call EXCEPT ![f] = NoCall] /\ owner' = own /\ used' = Uncharged(own, {f}, {})
  BY DEF FinishReply
<1>2. opencalls' = [opencalls EXCEPT ![Pid(t)] = @ - 1] /\ pumps' = Poked(Pid(t))
      /\ UNCHANGED <<alive, budgets, line, receivers, exits>>
  BY DEF FinishReply
<1>3. ptes' = {x \in ptes : x.page \notin c.lend} \cup UNION {Entry(c.lend, Pid(x), "own") : x \in answered}
  BY DEF FinishReply
<1>4. told' = UNION {Tell(x, "returned", c.lend) : x \in answered}  BY DEF FinishReply
<1>5. /\ t \in alive /\ Wait(t) = "none" /\ Calm(thread[t]) /\ thread[t].wait = "none" /\ thread[t].msg = NoMsg
      /\ \A u \in Threads : thread[u].then.half # "replying"
  BY RunningFacts DEF Calm, Wait
<1>6. TypeOK /\ thread \in [Threads -> Slots] /\ call \in [Frames -> Calls \cup {NoCall}] /\ Balanced
  BY BalanceIs DEF IpcInv, TypeOK
<1>7. In(thread[t].held, f) /\ call[f].server = t
  <2>1. In(thread[t].held, f)  BY DEF Members, In
  <2>. QED  BY <2>1 DEF IpcInv, Hands, HeldOk
<1>8. /\ IsOpen(f) /\ a \in Threads /\ c.lend \in SUBSET Pages /\ c.waiting \in BOOLEAN
      /\ c.payer \in Budgets
  <2>1. IsOpen(f)  BY <1>6, <1>7, CallTypes, NoneAssumption
  <2>. QED  BY <1>6, <2>1, CallTypes
<1>9. c.waiting => a # t /\ thread[a].wait = "reply" /\ thread[a].open = f /\ a \in alive
  BY <1>5, <1>8 DEF IpcInv, Called, CallOk, Slotted, SlotOk
<1>10. /\ s \in Slots /\ s.wait = "none" /\ s.msg = NoMsg /\ s.then = then
       /\ s.held = Without(thread[t].held, {f})
       /\ s.current = IF thread[t].current = f THEN None ELSE thread[t].current
  <2>1. thread[t] \in Slots  BY <1>6
  <2>2. /\ s \in Slots /\ s.wait = thread[t].wait /\ s.msg = thread[t].msg /\ s.then = then
        /\ s.held = Without(thread[t].held, {f})
        /\ s.current = IF thread[t].current = f THEN None ELSE thread[t].current
    <3>. DEFINE w == thread[t]
    <3>1. w \in Slots /\ s = Replied(w, f, then)  BY <2>1 DEF Replied
    <3>. HIDE DEF s, w
    <3>2. /\ s \in Slots /\ s.wait = w.wait /\ s.msg = w.msg /\ s.then = then
          /\ s.held = Without(w.held, {f})
          /\ w.current = f => s.current = None
          /\ w.current # f => s.current = w.current
      BY <3>1, RepliedFacts
    <3>. QED  BY <3>2 DEF w
  <2>. HIDE DEF s
  <2>. QED  BY <1>5, <2>2
<1>32. ASSUME NEW x \in Threads
        PROVE  thread'[x] = IF x = t THEN s ELSE IF c.waiting /\ x = a THEN Woken(thread[x]) ELSE thread[x]
  BY ReplyEffect
<1>. HIDE DEF s
<1>11. thread'[t] = s  BY <1>32
<1>12. c.waiting => /\ thread'[a] \in Slots /\ thread'[a].wait = "none" /\ thread'[a].msg = NoMsg
                    /\ thread'[a].then.half = "none" /\ thread'[a].held = thread[a].held
                    /\ thread'[a].current = thread[a].current
  <2>. SUFFICES ASSUME c.waiting  PROVE  /\ thread'[a] \in Slots /\ thread'[a].wait = "none"
                                         /\ thread'[a].msg = NoMsg
                                         /\ thread'[a].then.half = "none" /\ thread'[a].held = thread[a].held
                                         /\ thread'[a].current = thread[a].current
    OBVIOUS
  <2>1. thread'[a] = Woken(thread[a])  BY <1>8, <1>9, <1>32
  <2>2. thread[a] \in Slots  BY <1>6, <1>8
  <2>. QED  BY <2>1, <2>2, WokenFacts
<1>13. \A u \in Threads : u # t /\ ~(c.waiting /\ u = a) => thread'[u] = thread[u]  BY <1>32
<1>14. call'[f] = NoCall /\ \A h \in Frames : h # f => call'[h] = call[h]  BY <1>1, <1>6
<1>15. \A g \in Frames : In(s.held, g) <=> In(thread[t].held, g) /\ g # f
  <2>. DEFINE q == thread[t].held
              S == {f}
  <2>1. q \in Seq(Frames)  BY <1>6, SlotTypes
  <2>2. \A g : g \in S <=> g = f  OBVIOUS
  <2>3. s.held = Without(q, S)  BY <1>10
  <2>. HIDE DEF q, S
  <2>4. \A g \in Frames : In(Without(q, S), g) <=> In(q, g) /\ g \notin S  BY <2>1, WithoutFacts
  <2>. QED  BY <2>2, <2>3, <2>4 DEF q
<1>16. \A g \in Frames : Once(s.held, g)
  <2>. DEFINE q == thread[t].held
              S == {f}
  <2>1. q \in Seq(Frames) /\ \A g \in Frames : Once(q, g)  BY <1>6, SlotTypes DEF IpcInv, Hands, HeldOk
  <2>3. s.held = Without(q, S)  BY <1>10
  <2>. HIDE DEF q, S
  <2>. QED  BY <2>1, <2>3, WithoutFacts
<1>. HIDE DEF a
<1>17. Slotted'
  <2>. SUFFICES ASSUME NEW u \in Threads  PROVE SlotOk(u)'
    BY DEF Slotted
  <2>1. SlotOk(u)  BY DEF IpcInv, Slotted
  <2>2. CASE u = t
    <3>1. s.current = None \/ In(s.held, s.current)
      <4>1. thread[t].current \in Frames \cup {None}  BY <1>6, SlotTypes
      <4>. QED  BY <1>10, <1>15, <2>1, <2>2, <4>1 DEF SlotOk
    <3>. QED  BY <1>2, <1>5, <1>10, <1>11, <2>2, <3>1 DEF SlotOk, LiveEnd
  <2>3. CASE c.waiting /\ u = a
    BY <1>2, <1>9, <1>12, <2>1, <2>3 DEF SlotOk, LiveEnd
  <2>4. CASE u # t /\ ~(c.waiting /\ u = a)
    <3>1. thread'[u] = thread[u] /\ thread[u].then.half # "replying"  BY <1>5, <1>13, <2>4
    <3>2. thread[u].wait = "reply" => call'[thread[u].open].waiting /\ call'[thread[u].open].caller = u
      BY <1>14, <2>1, <2>4 DEF SlotOk, a
    <3>. QED  BY <1>2, <2>1, <3>1, <3>2 DEF SlotOk, LiveEnd
  <2>. QED  BY <2>2, <2>3, <2>4
<1>18. Called'
  <2>. SUFFICES ASSUME NEW h \in Frames, IsOpen(h)'  PROVE CallOk(h)'
    BY DEF Called, CallOk
  <2>1. h # f /\ call'[h] = call[h] /\ IsOpen(h)  BY <1>14 DEF IsOpen
  <2>2. CallOk(h) /\ call[h].caller \in Threads  BY <1>6, <2>1, CallTypes DEF IpcInv, Called
  <2>3. call[h].waiting => thread'[call[h].caller] = thread[call[h].caller]
    BY <1>5, <1>9, <1>13, <2>1, <2>2 DEF CallOk
  <2>. QED  BY <1>2, <2>1, <2>2, <2>3 DEF CallOk, LiveEnd, Budget
<1>19. Hands'
  <2>. SUFFICES ASSUME NEW u \in Threads  PROVE HeldOk(u)'
    BY DEF Hands
  <2>1. HeldOk(u)  BY DEF IpcInv, Hands
  <2>2. call'[f].server # u  BY <1>14, Constants, NoneAssumption
  <2>3. CASE u = t  BY <1>11, <1>14, <1>15, <1>16, <2>1, <2>2, <2>3 DEF HeldOk
  <2>4. CASE u # t
    <3>1. thread'[u].held = thread[u].held  BY <1>12, <1>13, <2>4
    <3>. QED  BY <1>7, <1>14, <2>1, <2>2, <2>4, <3>1 DEF HeldOk
  <2>. QED  BY <2>3, <2>4
<1>20. Queues'
  <2>. SUFFICES ASSUME NEW x \in Endpoints, NEW u \in Threads
                PROVE  /\ In(line[x], Tok(u)) <=> thread'[u].wait = "send" /\ thread'[u].on = x
                       /\ Once(line[x], Tok(u))
                       /\ In(receivers[x], u) <=> thread'[u].wait = "receive" /\ thread'[u].on = x
                       /\ Once(receivers[x], u)
    BY <1>2 DEF Queues, LineOk, RecvOk, Tok, Group, Budget
  <2>1. /\ In(line[x], Tok(u)) <=> thread[u].wait = "send" /\ thread[u].on = x
        /\ In(receivers[x], u) <=> thread[u].wait = "receive" /\ thread[u].on = x
        /\ Once(receivers[x], u) /\ Once(line[x], Tok(u))
    BY DEF IpcInv, Queues, LineOk, RecvOk
  <2>2. CASE u = t  BY <1>5, <1>10, <1>11, <2>1, <2>2
  <2>3. CASE c.waiting /\ u = a  BY <1>9, <1>12, <2>1, <2>3
  <2>4. CASE u # t /\ ~(c.waiting /\ u = a)  BY <1>13, <2>1, <2>4
  <2>. QED  BY <2>2, <2>3, <2>4
<1>21. \A e \in pumps' : e \in Endpoints /\ LiveEnd(e)
  <2>. SUFFICES ASSUME NEW e \in Poked(Pid(t))  PROVE e \in Endpoints /\ LiveEnd(e)
    BY <1>2
  <2>1. PICK x \in alive : Wait(x) = "receive" /\ e = thread[x].on  BY DEF Poked, Live
  <2>2. x \in Threads  BY <1>6 DEF TypeOK
  <2>. QED  BY <2>1, <2>2 DEF IpcInv, Slotted, SlotOk, Wait
<1>22. Ends'  BY <1>2, <1>21 DEF IpcInv, Ends, EndOk, LiveEnd
<1>23. Pid(a) \in Pids /\ Pid(a) # None /\ Pid(t) \in Pids
  BY <1>8, KindsAssumption, NoneAssumption DEF Pid
<1>24. ASSUME NEW g \in Pages, NEW q \in Pids, NEW k \in {"own", "lent", "borrowed"}
       PROVE  Pte(g, q, k) \in ptes' <=>
                \/ Pte(g, q, k) \in ptes /\ g \notin c.lend
                \/ c.waiting /\ g \in c.lend /\ q = Pid(a) /\ k = "own"
  <2>. DEFINE y == Pte(g, q, k)
              U == UNION {Entry(c.lend, Pid(x), "own") : x \in answered}
  <2>1. y.page = g  BY PteFacts
  <2>2. y \in U <=> \E x \in answered : y \in Entry(c.lend, Pid(x), "own")  OBVIOUS
  <2>3. \A x : y \in Entry(c.lend, Pid(x), "own") <=> g \in c.lend /\ q = Pid(x) /\ k = "own"
    BY EntryFacts
  <2>4. y \in U <=> c.waiting /\ g \in c.lend /\ q = Pid(a) /\ k = "own"
    <3>1. \A x : x \in answered <=> c.waiting /\ x = a  BY <1>8 DEF a
    <3>. HIDE DEF U, y, answered, c
    <3>. QED  BY <2>2, <2>3, <3>1
  <2>. HIDE DEF U, y, c
  <2>5. y \in ptes' <=> (y \in ptes /\ g \notin c.lend) \/ y \in U
    BY <1>3, <2>1 DEF U
  <2>. QED  BY <2>4, <2>5 DEF y
<1>25. Paged'
  <2>. SUFFICES ASSUME NEW g \in Pages  PROVE PageOk(g)'
    BY DEF Paged
  <2>1. UseOk(g) /\ OwnerOk(g) /\ PageOk(g)  BY DEF IpcInv, Paged, PageOk
  <2>2. \A u \in Threads : Buf(u)' = Buf(u)
    <3>1. c.waiting => thread[a].msg = NoMsg  BY <1>8, <1>9 DEF IpcInv, Slotted, SlotOk
    <3>. QED  BY <1>5, <1>10, <1>11, <1>12, <1>13, <3>1 DEF Buf
  <2>3. \A h \in Frames : g \in call'[h].lend <=> g \in call[h].lend /\ h # f  BY <1>14, Constants
  <2>4. owner'[g] = IF g \in c.lend /\ ~c.waiting THEN None ELSE owner[g]  BY <1>1
  <2>5. CASE g \in c.lend
    <3>1. (\A u \in Threads : g \notin Buf(u)') /\ (\A h \in Frames : g \notin call'[h].lend)
      BY <2>1, <2>2, <2>3, <2>5 DEF UseOk
    <3>2. c.waiting => owner[g] = Pid(a)  BY <2>1, <2>5 DEF OwnerOk, a
    <3>3. \A q \in Pids : /\ Pte(g, q, "own") \in ptes' <=> owner'[g] = q
                          /\ Pte(g, q, "lent") \notin ptes' /\ Pte(g, q, "borrowed") \notin ptes'
      <4>. HIDE DEF c
      <4>. QED  BY <1>23, <1>24, <2>4, <2>5, <3>2, NoneAssumption
    <3>. QED  BY <3>1, <3>3, PageFree
  <2>6. CASE g \notin c.lend
    <3>1. \A q \in Pids, k \in {"own", "lent", "borrowed"} : Pte(g, q, k) \in ptes' <=> Pte(g, q, k) \in ptes
      BY <1>24, <2>6
    <3>2. owner'[g] = owner[g]  BY <2>4, <2>6
    <3>3. \A h \in Frames : /\ g \in call'[h].lend <=> g \in call[h].lend
                            /\ g \in call[h].lend => call'[h] = call[h]
      BY <1>14, <2>3, <2>6
    <3>. QED  BY <2>1, <2>2, <3>1, <3>2, <3>3, PageKept
  <2>. QED  BY <2>5, <2>6
<1>26. ASSUME NEW b \in Budgets
       PROVE  /\ used'[b] = Owned(owner', b) + Cardinality(Bill(b)') /\ used'[b] \in Nat
              /\ used'[b] <= Limit[b]
  <2>. DEFINE C == {f}
              R == Refund(C, {}, b)
  <2>1. R \in SUBSET Bill(b)  BY <1>8 DEF Refund, Bill
  <2>2. Bill(b)' = Bill(b) \ R
    <3>1. ASSUME NEW x \in Items  PROVE x \in Bill(b)' <=> x \in Bill(b) /\ x \notin R
      <4>1. x[1] \in Frames  BY DEF Items
      <4>2. CASE x[1] = f  BY <1>14, <4>2 DEF Bill, Refund, IsOpen
      <4>3. CASE x[1] # f  BY <1>14, <4>1, <4>3 DEF Bill, Refund, IsOpen
      <4>. QED  BY <4>2, <4>3
    <3>2. Bill(b)' \in SUBSET Items /\ Bill(b) \in SUBSET Items  BY DEF Bill, Items
    <3>. HIDE DEF R
    <3>. QED  BY <3>1, <3>2
  <2>3. Owned(own, b) <= Owned(owner, b)
    <3>1. OwnedSet(own, b) \subseteq OwnedSet(owner, b)  BY DEF OwnedSet
    <3>2. IsFiniteSet(OwnedSet(owner, b))  BY OwnedIs, Finite
    <3>. HIDE DEF own
    <3>3. Cardinality(OwnedSet(own, b)) <= Cardinality(OwnedSet(owner, b))  BY <3>1, <3>2, FS_Subset
    <3>. QED  BY <3>3, OwnedIs
  <2>4. C \in SUBSET Frames  OBVIOUS
  <2>5. /\ used'[b] = Owned(owner', b) + Cardinality(Bill(b)') /\ used'[b] \in Nat
        /\ used'[b] <= used[b] + Owned(own, b) - Owned(owner, b)
    <3>1. owner' = own /\ used' = Uncharged(own, C, {})  BY <1>1
    <3>. HIDE DEF C, own
    <3>. QED  BY <1>6, <2>1, <2>2, <2>4, <3>1, Recharged
  <2>6. used[b] \in Nat /\ used[b] <= Limit[b] /\ Limit[b] \in Nat  BY <1>6, KindsAssumption DEF TypeOK
  <2>7. Owned(own, b) \in Nat /\ Owned(owner, b) \in Nat  BY OwnedIs
  <2>. HIDE DEF own
  <2>. QED  BY <2>3, <2>5, <2>6, <2>7
<1>27. ASSUME NEW q \in Pids
       PROVE  opencalls'[q] = Cardinality(HeldIn(q)') /\ opencalls'[q] \in 0 .. MaxOpenCalls
  <2>1. opencalls[q] = Cardinality(HeldIn(q)) /\ opencalls[q] \in 0 .. MaxOpenCalls
    BY <1>6 DEF Balanced, TypeOK
  <2>2. IsFiniteSet(HeldIn(q)) /\ HeldIn(q) \subseteq Frames /\ HeldIn(q)' \subseteq Frames  BY Finite DEF HeldIn
  <2>3. \A h \in Frames : h \in HeldIn(q)' <=> h \in HeldIn(q) /\ h # f
    BY <1>14 DEF HeldIn, IsOpen, Pid
  <2>4. opencalls'[q] = IF q = Pid(t) THEN opencalls[q] - 1 ELSE opencalls[q]
    BY <1>2, <1>6 DEF TypeOK
  <2>5. f \in HeldIn(q) <=> q = Pid(t)  BY <1>7, <1>8 DEF HeldIn
  <2>6. CASE q = Pid(t)
    <3>1. HeldIn(q)' = HeldIn(q) \ {f} /\ f \in HeldIn(q)  BY <2>2, <2>3, <2>5, <2>6
    <3>2. Cardinality(HeldIn(q)') = Cardinality(HeldIn(q)) - 1 /\ Cardinality(HeldIn(q)') \in Nat
      <4>1. IsFiniteSet(HeldIn(q)')  BY <3>1, <2>2, FS_Subset
      <4>. QED  BY <2>2, <3>1, <4>1, FS_RemoveElement, FS_CardinalityType
    <3>. QED  BY <2>1, <2>4, <2>6, <3>2, BoundsAssumption
  <2>7. CASE q # Pid(t)
    <3>1. HeldIn(q)' = HeldIn(q)  BY <2>2, <2>3, <2>5, <2>7
    <3>. QED  BY <2>1, <2>4, <2>7, <3>1
  <2>. QED  BY <2>6, <2>7
<1>28. \A r \in told' : c.waiting /\ r = [to |-> a, lend |-> "returned", buf |-> c.lend]
  <2>1. \A x, d, buf, r : r \in Tell(x, d, buf) => r = [to |-> x, lend |-> d, buf |-> buf]  BY DEF Tell
  <2>2. \A r \in told' : \E x \in answered : r \in Tell(x, "returned", c.lend)  BY <1>4
  <2>3. \A x \in answered : c.waiting /\ x = a  BY DEF a
  <2>. HIDE DEF answered, c
  <2>. QED  BY <2>1, <2>2, <2>3
<1>29. TypeOK'
  <2>1. thread' \in [Threads -> Slots]
    <3>1. thread' = [x \in Threads |-> thread'[x]]
      <4>1. thread' = [y \in Threads |->
                         IF y = t THEN [Dropped(thread[t], f) EXCEPT !.then = then]
                         ELSE IF y \in answered THEN Woken(thread[y]) ELSE thread[y]]
        BY Zenon DEF FinishReply
      <4>. QED  BY <4>1
    <3>2. \A x \in Threads : thread'[x] \in Slots  BY <1>6, <1>10, <1>11, <1>12, <1>13
    <3>. QED  BY <3>1, <3>2
  <2>2. call' \in [Frames -> Calls \cup {NoCall}]  BY <1>1, <1>6
  <2>3. opencalls' \in [Pids -> 0 .. MaxOpenCalls]
    <3>1. opencalls' = [q \in Pids |-> opencalls'[q]]  BY <1>2, <1>6 DEF TypeOK
    <3>. QED  BY <1>27, <3>1
  <2>4. owner' \in [Pages -> Pids \cup {None}]  BY <1>1, <1>6 DEF TypeOK
  <2>5. ptes' \subseteq Ptes
    <3>1. \A x \in answered : Entry(c.lend, Pid(x), "own") \subseteq Ptes
      <4>1. \A x \in answered : x = a  BY DEF a
      <4>2. c.lend \in SUBSET Pages /\ Pid(a) \in Pids  BY <1>8, <1>23
      <4>. HIDE DEF answered, c
      <4>3. Entry(c.lend, Pid(a), "own") \subseteq Ptes  BY <4>2, EntryFacts
      <4>. QED  BY <4>1, <4>3
    <3>2. ptes \subseteq Ptes  BY <1>6 DEF TypeOK
    <3>. HIDE DEF answered, c
    <3>. QED  BY <1>3, <3>1, <3>2
  <2>6. used' \in [Budgets -> Nat]
    <3>1. used' = [b \in Budgets |-> used'[b]]  BY <1>1 DEF Uncharged
    <3>. QED  BY <1>26, <3>1
  <2>7. told' \subseteq [to : Threads, lend : {"returned", "consumed"}, buf : SUBSET Pages]
    BY <1>8, <1>28
  <2>. QED  BY <1>2, <1>6, <1>21, <1>26, <2>1, <2>2, <2>3, <2>4, <2>5, <2>6, <2>7 DEF TypeOK
<1>30. ChargesBalance'  BY <1>26, <1>27, <1>29, BalanceAfter DEF Balanced
<1>31. LendTold'
  <2>1. \A r \in told' : r.lend = "returned" /\ r.to = a /\ r.buf = c.lend /\ c.waiting  BY <1>28
  <2>2. c.waiting => \A g \in c.lend : Pte(g, Pid(a), "own") \in ptes'
    <3>. HIDE DEF c
    <3>. QED  BY <1>8, <1>23, <1>24
  <2>3. c.waiting => Entry(c.lend, Pid(a), "own") \subseteq ptes'  BY <2>2 DEF Entry, Pte
  <2>. HIDE DEF c
  <2>. QED  BY <2>1, <2>3 DEF LendTold, Entry, Pid
<1>. QED  BY <1>17, <1>18, <1>19, <1>20, <1>22, <1>25, <1>29, <1>30, <1>31 DEF IpcInv

\* reply.
LEMMA ReplyKeeps ==
  ASSUME IpcInv, NEW t \in Threads, NEW f \in Frames, Reply(t, f)
  PROVE  IpcInv'
<1>1. entry' \in Threads \cup {None}  BY DEF Reply, IpcInv, TypeOK
<1>. QED  BY <1>1, FinishReplyKeeps, Constants DEF Reply

\* reply_receive.
LEMMA ReplyReceiveKeeps ==
  ASSUME IpcInv, NEW t \in Threads, NEW f \in Frames, NEW e \in Endpoints, NEW due \in Deadlines,
         NEW max \in Maxes, ReplyReceive(t, f, e, due, max)
  PROVE  IpcInv'
<1>. DEFINE then == Half("replying", e, due, max)
<1>1. then \in Turns /\ then.half = "replying" /\ then.source = e  BY BoundsAssumption DEF Turns, Half
<1>2. /\ Running(t) /\ f \in Members(thread[t].held) /\ LiveEnd(e) /\ FinishReply(t, f, then) /\ entry' = t
  BY DEF ReplyReceive
<1>. HIDE DEF then
<1>. QED  BY <1>1, <1>2, FinishReplyKeeps

\* A message taken leaves its line, its group served.
LEMMA TakenLine ==
  ASSUME IpcInv, NEW s \in Threads, NEW e \in Endpoints, thread[s].wait = "send", thread[s].on = e,
         line' = [line EXCEPT ![e] = Dequeue(Served(@, Group(s)), {s})]
  PROVE  /\ line' \in [Endpoints -> Seq(Tokens)]
         /\ \A x \in Endpoints, u \in Threads :
              /\ In(line'[x], Tok(u)) <=> In(line[x], Tok(u)) /\ u # s
              /\ Once(line'[x], Tok(u))
<1>1. line \in [Endpoints -> Seq(Tokens)]  BY DEF IpcInv, TypeOK
<1>2. \A x \in Endpoints, u \in Threads :
        /\ In(line[x], Tok(u)) <=> thread[u].wait = "send" /\ thread[u].on = x
        /\ Once(line[x], Tok(u))
  BY DEF IpcInv, Queues, LineOk
<1>. DEFINE l == line[e]
            q == Served(l, Group(s))
            S == {s}
            d == Dequeue(q, S)
<1>3. line' = [line EXCEPT ![e] = d]  OBVIOUS
<1>4. ASSUME NEW u \in Threads
      PROVE  d \in Seq(Tokens) /\ (In(d, Tok(u)) <=> In(l, Tok(u)) /\ u # s) /\ (Once(l, Tok(u)) => Once(d, Tok(u)))
  <2>1. l \in Seq(Tokens) /\ (u \in S <=> u = s)  BY <1>1
  <2>. HIDE DEF l
  <2>2. q \in Seq(Tokens) /\ (In(q, Tok(u)) <=> In(l, Tok(u))) /\ (Once(l, Tok(u)) => Once(q, Tok(u)))
    BY <2>1, ServedFacts
  <2>. HIDE DEF q, S
  <2>3. d \in Seq(Tokens) /\ (In(d, Tok(u)) <=> In(q, Tok(u)) /\ u \notin S) /\ (Once(q, Tok(u)) => Once(d, Tok(u)))
    BY <2>2, DequeueFacts
  <2>. HIDE DEF d
  <2>. QED  BY <2>1, <2>2, <2>3
<1>. HIDE DEF d
<1>5. line'[e] = d /\ \A x \in Endpoints : x # e => line'[x] = line[x]  BY <1>1, <1>3
<1>6. line' \in [Endpoints -> Seq(Tokens)]  BY <1>1, <1>3, <1>4
<1>. QED  BY <1>2, <1>4, <1>5, <1>6

\* A thread woken waits for nothing.
LEMMA WokenCalm ==
  ASSUME IpcInv, NEW t \in Threads
  PROVE  Calm(Woken(thread[t])) /\ Woken(thread[t]).held = thread[t].held /\ Woken(thread[t]).wait = "none"
<1>. DEFINE w == Woken(thread[t])
<1>1. thread[t] \in Slots /\ (thread[t].current = None \/ In(thread[t].held, thread[t].current))
  BY DEF IpcInv, TypeOK, Slotted, SlotOk
<1>2. /\ w \in Slots /\ w.wait = "none" /\ w.msg = NoMsg
      /\ w.held = thread[t].held /\ w.current = thread[t].current /\ w.then.half = "none"
  BY <1>1, WokenFacts
<1>. HIDE DEF w
<1>3. Calm(w) /\ w.held = thread[t].held /\ w.wait = "none"  BY <1>1, <1>2 DEF Calm
<1>. QED  BY <1>3 DEF w

\* A sender is done, or goes on to its turn's receive.
LEMMA SentFacts ==
  ASSUME IpcInv, NEW s \in Threads, thread[s].wait = "send"
  PROVE  /\ Calm(Sent(s)) /\ Sent(s).held = thread[s].held
         /\ Sent(s).wait = "receive" <=> Continues(s)
         /\ Continues(s) => /\ Sent(s).on = thread[s].then.source /\ thread[s].then.source \in Endpoints
                            /\ LiveEnd(thread[s].then.source)
<1>1. CASE ~Continues(s)
  <2>. DEFINE w == Woken(thread[s])
              v == [w EXCEPT !.current = None]
  <2>1. Sent(s) = w \/ Sent(s) = v  BY <1>1 DEF Sent, Continues
  <2>2. Calm(w) /\ w.held = thread[s].held /\ w.wait = "none"  BY WokenCalm
  <2>. HIDE DEF w
  <2>3. Calm(v) /\ v.held = w.held /\ v.wait = "none"  BY <2>2 DEF Calm, Slots
  <2>. QED  BY <1>1, <2>1, <2>2, <2>3
<1>2. CASE Continues(s)
  <2>. DEFINE h == thread[s].then
              half == Half("sent", None, "never", 0)
              w == Sent(s)
  <2>1. h.half = "sending" /\ LiveEnd(h.source)  BY <1>2 DEF Continues, Turn
  <2>2. thread[s] \in Slots  BY DEF IpcInv, TypeOK
  <2>3. h.source \in Endpoints /\ h.due \in Deadlines /\ h.max \in 0 .. MaxBuffer
    BY <2>1, <2>2, SlotTypes, TurnTypes
  <2>4. half \in Turns /\ half.half = "sent"  BY DEF Turns, Half
  <2>5. w = Receiving(thread[s], h.source, h.due, h.max, half)  BY <1>2 DEF Sent, Continues
  <2>. HIDE DEF w, h, half
  <2>6. /\ w \in Slots /\ w.wait = "receive" /\ w.on = h.source /\ w.then = half
        /\ w.msg = NoMsg /\ w.held = thread[s].held /\ w.current = None
    BY <2>2, <2>3, <2>4, <2>5, ReceivingFacts
  <2>7. Calm(w)  BY <2>1, <2>3, <2>4, <2>6 DEF Calm
  <2>. QED  BY <1>2, <2>1, <2>3, <2>6, <2>7 DEF w, h
<1>. QED  BY <1>1, <1>2

\* A page only its owner's, or whose owner changes: what the owned of a budget can gain.
LEMMA OwnedGain ==
  ASSUME NEW own, NEW old, NEW b, NEW M \in SUBSET Pages,
         OwnedSet(own, b) \subseteq OwnedSet(old, b) \cup M
  PROVE  Owned(own, b) <= Owned(old, b) + Cardinality(M)
<1>1. IsFiniteSet(M) /\ Cardinality(M) \in Nat  BY Finite
<1>2. IsFiniteSet(OwnedSet(old, b)) /\ OwnedSet(old, b) \in SUBSET Pages  BY OwnedIs, Finite
<1>3. /\ IsFiniteSet(OwnedSet(old, b) \cup M)
      /\ Cardinality(OwnedSet(old, b) \cup M) =
           Cardinality(OwnedSet(old, b)) + Cardinality(M) - Cardinality(OwnedSet(old, b) \cap M)
  BY <1>1, <1>2, FS_Union
<1>4. Cardinality(OwnedSet(old, b) \cap M) \in Nat
  <2>1. IsFiniteSet(OwnedSet(old, b) \cap M)  BY <1>2, FS_Intersection
  <2>. QED  BY <2>1, FS_CardinalityType
<1>5. Cardinality(OwnedSet(own, b)) <= Cardinality(OwnedSet(old, b) \cup M)  BY <1>3, FS_Subset
<1>6. /\ Owned(old, b) = Cardinality(OwnedSet(old, b)) /\ Owned(own, b) = Cardinality(OwnedSet(own, b))
      /\ Owned(old, b) \in Nat /\ Owned(own, b) \in Nat
  BY OwnedIs
<1>. QED  BY <1>1, <1>3, <1>4, <1>5, <1>6

\* A send is delivered: its pages change owner and payer.
LEMMA DeliverSendKeeps ==
  ASSUME IpcInv, NEW e \in Endpoints, DeliverSend(e)
  PROVE  IpcInv'
<1>. DEFINE r == Receiver(e)
            s == Sender(e)
            buf == Buf(s)
            own == [g \in Pages |-> IF g \in buf THEN Pid(r) ELSE owner[g]]
            w == Sent(s)
            v == Woken(thread[r])
<1>1. Messages(e) /\ thread[s].msg.kind = "send" /\ Payable(r, s)  BY DEF DeliverSend
<1>2. thread' = [thread EXCEPT ![r] = Woken(@), ![s] = Sent(s)]  BY DEF DeliverSend
<1>3. line' = [line EXCEPT ![e] = Dequeue(Served(@, Group(s)), {s})]  BY DEF DeliverSend
<1>4. receivers' = [x \in Endpoints |->
                      LET left == Without(receivers[x], {r})
                      IN  IF Continues(s) /\ x = thread[s].then.source THEN Append(left, s) ELSE left]
  BY DEF DeliverSend
<1>5. owner' = own /\ used' = Uncharged(own, {}, {})  BY DEF DeliverSend, Buf
<1>6. ptes' = {x \in ptes : x.page \notin buf} \cup Entry(buf, Pid(r), "own")  BY DEF DeliverSend, Buf
<1>7. pumps' = pumps \cup ListsPump(s) /\ told' = {}
      /\ UNCHANGED <<alive, budgets, exits, call, opencalls, entry>>
  BY DEF DeliverSend
<1>8. /\ r \in alive /\ r \in Threads /\ thread[r].wait = "receive" /\ thread[r].on = e
      /\ s \in alive /\ s \in Threads /\ thread[s].wait = "send" /\ thread[s].on = e
  BY <1>1, Partners
<1>9. TypeOK /\ thread \in [Threads -> Slots] /\ Balanced  BY BalanceIs DEF IpcInv, TypeOK
<1>10. /\ Calm(w) /\ w.held = thread[s].held /\ (w.wait = "receive" <=> Continues(s))
       /\ Continues(s) => /\ w.on = thread[s].then.source /\ thread[s].then.source \in Endpoints
                          /\ LiveEnd(thread[s].then.source)
  BY <1>8, SentFacts
<1>11. Calm(v) /\ v.held = thread[r].held /\ v.wait = "none"  BY <1>8, WokenCalm
<1>12. r # s  BY <1>8
<1>13. thread' = [thread EXCEPT ![r] = v, ![s] = w]  BY <1>2
<1>. HIDE DEF w, v
<1>14. /\ thread'[r] = v /\ thread'[s] = w
       /\ \A u \in Threads : u # r /\ u # s => thread'[u] = thread[u]
  BY <1>8, <1>9, <1>12, <1>13
<1>15. buf \in SUBSET Pages
  <2>1. thread[s].msg \in Msgs  BY <1>8, <1>9, SlotTypes
  <2>. QED  BY <2>1, MsgTypes DEF Buf
<1>. HIDE DEF r, s, buf
<1>16. Pid(r) \in Pids /\ Pid(r) # None /\ Pid(s) \in Pids /\ Budget(r) = BudgetOf[Pid(r)] /\ Budget(r) \in Budgets
       /\ Budget(s) = BudgetOf[Pid(s)]
  BY <1>8, KindsAssumption, NoneAssumption DEF Pid, Budget
<1>17. /\ line' \in [Endpoints -> Seq(Tokens)]
       /\ \A x \in Endpoints, u \in Threads :
            /\ In(line'[x], Tok(u)) <=> In(line[x], Tok(u)) /\ u # s
            /\ Once(line'[x], Tok(u))
  BY <1>3, <1>8, TakenLine
<1>18. ASSUME NEW x \in Endpoints, NEW u \in Threads
       PROVE  /\ receivers'[x] \in Seq(Threads) /\ Once(receivers'[x], u)
              /\ In(receivers'[x], u) <=> \/ In(receivers[x], u) /\ u # r
                                          \/ u = s /\ Continues(s) /\ x = thread[s].then.source
  <2>. DEFINE q == receivers[x]
              S == {r}
              left == Without(q, S)
  <2>1. q \in Seq(Threads) /\ Once(q, u) /\ (In(q, u) <=> thread[u].wait = "receive" /\ thread[u].on = x)
    BY <1>9 DEF IpcInv, Queues, RecvOk, TypeOK
  <2>2. receivers'[x] = IF Continues(s) /\ x = thread[s].then.source THEN Append(left, s) ELSE left
    BY <1>4
  <2>3. u \in S <=> u = r  OBVIOUS
  <2>. HIDE DEF q, S
  <2>4. left \in Seq(Threads) /\ (In(left, u) <=> In(q, u) /\ u \notin S) /\ Once(left, u)
    BY <2>1, WithoutFacts
  <2>. HIDE DEF left
  <2>5. u = s => ~In(left, u)  BY <1>8, <2>1, <2>4
  <2>6. Append(left, s) \in Seq(Threads) /\ (In(Append(left, s), u) <=> In(left, u) \/ u = s)
        /\ Once(Append(left, s), u)
    BY <1>8, <2>4, <2>5, AppendFacts
  <2>. QED  BY <2>2, <2>3, <2>4, <2>6 DEF q
<1>19. Slotted'
  <2>. SUFFICES ASSUME NEW u \in Threads  PROVE SlotOk(u)'
    BY DEF Slotted
  <2>1. CASE u = r  BY <1>7, <1>8, <1>11, <1>14, <2>1 DEF SlotOk, Calm, LiveEnd
  <2>2. CASE u = s  BY <1>7, <1>8, <1>10, <1>14, <2>2 DEF SlotOk, Calm, LiveEnd
  <2>3. CASE u # r /\ u # s
    <3>1. SlotOk(u) /\ thread'[u] = thread[u]  BY <1>14, <2>3 DEF IpcInv, Slotted
    <3>. QED  BY <1>7, <3>1 DEF SlotOk, LiveEnd
  <2>. QED  BY <2>1, <2>2, <2>3
<1>20. Called'
  <2>. SUFFICES ASSUME NEW f \in Frames, IsOpen(f)  PROVE CallOk(f)'
    BY <1>7 DEF Called, CallOk, IsOpen
  <2>1. CallOk(f) /\ call[f].caller \in Threads  BY <1>9, CallTypes DEF IpcInv, Called
  <2>2. call[f].waiting => call[f].caller # r /\ call[f].caller # s  BY <1>8, <2>1 DEF CallOk
  <2>. QED  BY <1>7, <1>14, <2>1, <2>2 DEF CallOk, LiveEnd, IsOpen, Budget
<1>21. SameCalls  BY <1>7, <1>9, CallsSame
<1>22. Hands'
  <2>1. \A u \in Threads : thread'[u].held = thread[u].held  BY <1>10, <1>11, <1>14
  <2>. QED  BY <1>21, <2>1, HandsKept DEF IpcInv
<1>23. Queues'
  <2>. SUFFICES ASSUME NEW x \in Endpoints, NEW u \in Threads
                PROVE  /\ In(line'[x], Tok(u)) <=> thread'[u].wait = "send" /\ thread'[u].on = x
                       /\ Once(line'[x], Tok(u))
                       /\ In(receivers'[x], u) <=> thread'[u].wait = "receive" /\ thread'[u].on = x
                       /\ Once(receivers'[x], u)
    BY DEF Queues, LineOk, RecvOk, Tok, Group, Budget
  <2>1. /\ In(line[x], Tok(u)) <=> thread[u].wait = "send" /\ thread[u].on = x
        /\ In(receivers[x], u) <=> thread[u].wait = "receive" /\ thread[u].on = x
    BY DEF IpcInv, Queues, LineOk, RecvOk
  <2>2. CASE u = r  BY <1>8, <1>11, <1>12, <1>14, <1>17, <1>18, <2>1, <2>2
  <2>3. CASE u = s
    <3>1. w.wait # "send" /\ thread'[u] = w  BY <1>10, <1>14, <2>3 DEF Calm
    <3>. QED  BY <1>8, <1>10, <1>12, <1>17, <1>18, <2>1, <2>3, <3>1
  <2>4. CASE u # r /\ u # s  BY <1>14, <1>17, <1>18, <2>1, <2>4
  <2>. QED  BY <2>2, <2>3, <2>4
<1>24. \A x \in pumps' : x \in Endpoints /\ LiveEnd(x)
  BY <1>7, <1>9, <1>10 DEF ListsPump, IpcInv, Ends, EndOk, TypeOK
<1>25. Ends'  BY <1>7, <1>24 DEF IpcInv, Ends, EndOk, LiveEnd
<1>26. ASSUME NEW g \in Pages, NEW q \in Pids, NEW k \in {"own", "lent", "borrowed"}
       PROVE  Pte(g, q, k) \in ptes' <=>
                \/ Pte(g, q, k) \in ptes /\ g \notin buf
                \/ g \in buf /\ q = Pid(r) /\ k = "own"
  BY <1>6, EntryFacts, PteFacts
<1>27. \A u \in Threads : IF u = s THEN Buf(u)' = {} ELSE Buf(u)' = Buf(u)
  <2>. SUFFICES ASSUME NEW u \in Threads
                PROVE  IF u = s THEN thread'[u].msg.buf = {} ELSE thread'[u].msg.buf = thread[u].msg.buf
    BY DEF Buf
  <2>1. thread[r].msg = NoMsg  BY <1>8 DEF IpcInv, Slotted, SlotOk
  <2>. QED  BY <1>10, <1>11, <1>14, <2>1, Constants DEF Calm
<1>28. Paged'
  <2>. SUFFICES ASSUME NEW g \in Pages  PROVE PageOk(g)'
    BY DEF Paged
  <2>1. UseOk(g) /\ PageOk(g)  BY DEF IpcInv, Paged, PageOk
  <2>2. owner'[g] = IF g \in buf THEN Pid(r) ELSE owner[g]  BY <1>5
  <2>3. CASE g \in buf
    <3>1. (\A u \in Threads : g \notin Buf(u)') /\ (\A f \in Frames : g \notin call'[f].lend)
      <4>1. g \in Buf(s)  BY <2>3 DEF buf
      <4>. QED  BY <1>7, <1>8, <1>27, <2>1, <4>1 DEF UseOk
    <3>2. \A q \in Pids : /\ Pte(g, q, "own") \in ptes' <=> owner'[g] = q
                          /\ Pte(g, q, "lent") \notin ptes' /\ Pte(g, q, "borrowed") \notin ptes'
      BY <1>26, <2>2, <2>3
    <3>. QED  BY <3>1, <3>2, PageFree
  <2>4. CASE g \notin buf
    <3>1. \A q \in Pids, k \in {"own", "lent", "borrowed"} : Pte(g, q, k) \in ptes' <=> Pte(g, q, k) \in ptes
      BY <1>26, <2>4
    <3>2. \A u \in Threads : g \in Buf(u)' <=> g \in Buf(u)  
      <4>1. g \notin Buf(s)  BY <2>4 DEF buf
      <4>. QED  BY <1>27, <4>1
    <3>. QED  BY <1>7, <2>1, <2>2, <2>4, <3>1, <3>2, PageKept
  <2>. QED  BY <2>3, <2>4
<1>29. ASSUME NEW b \in Budgets
       PROVE  /\ used'[b] = Owned(owner', b) + Cardinality(Bill(b)') /\ used'[b] \in Nat
              /\ used'[b] <= Limit[b]
  <2>. DEFINE C == {}
  <2>1. Refund(C, {}, b) = {}  BY DEF Refund
  <2>2. Bill(b)' = Bill(b)  BY <1>7 DEF Bill, IsOpen, Items
  <2>3. /\ used'[b] = Owned(owner', b) + Cardinality(Bill(b)') /\ used'[b] \in Nat
        /\ used'[b] <= used[b] + Owned(own, b) - Owned(owner, b)
    <3>1. owner' = own /\ used' = Uncharged(own, C, {}) /\ C \in SUBSET Frames  BY <1>5
    <3>2. Refund(C, {}, b) \in SUBSET Bill(b) /\ Bill(b)' = Bill(b) \ Refund(C, {}, b)  BY <2>1, <2>2
    <3>. HIDE DEF C, own
    <3>. QED  BY <1>9, <3>1, <3>2, Recharged
  <2>4. used[b] \in Nat /\ used[b] <= Limit[b] /\ Limit[b] \in Nat  BY <1>9, KindsAssumption DEF TypeOK
  <2>5. \A g \in buf : owner[g] = Pid(s)  BY <1>8, <1>15 DEF IpcInv, Paged, PageOk, OwnerOk, buf
  <2>6. Owned(own, b) \in Nat /\ Owned(owner, b) \in Nat  BY OwnedIs
  <2>7. CASE b # Budget(r) \/ Budget(r) = Budget(s)
    <3>1. OwnedSet(own, b) \subseteq OwnedSet(owner, b) \cup {}
      <4>. SUFFICES ASSUME NEW g \in Pages, own[g] # None, BudgetOf[own[g]] = b
                    PROVE  owner[g] # None /\ BudgetOf[owner[g]] = b
        BY DEF OwnedSet
      <4>1. CASE g \in buf
        <5>1. own[g] = Pid(r) /\ owner[g] = Pid(s)  BY <2>5, <4>1
        <5>. QED  BY <1>16, <2>7, <5>1, NoneAssumption
      <4>2. CASE g \notin buf  BY <4>2
      <4>. QED  BY <4>1, <4>2
    <3>. DEFINE M == {}
    <3>2. M \in SUBSET Pages /\ Cardinality(M) = 0 /\ OwnedSet(own, b) \subseteq OwnedSet(owner, b) \cup M
      BY <3>1, FS_EmptySet
    <3>. HIDE DEF M, own
    <3>3. Owned(own, b) <= Owned(owner, b) + Cardinality(M)  BY <3>2, OwnedGain
    <3>. QED  BY <2>3, <2>4, <2>6, <3>2, <3>3
  <2>8. CASE b = Budget(r) /\ Budget(r) # Budget(s)
    <3>1. OwnedSet(own, b) \subseteq OwnedSet(owner, b) \cup buf  BY DEF OwnedSet
    <3>. HIDE DEF own
    <3>2. Owned(own, b) <= Owned(owner, b) + Cardinality(buf)  BY <1>15, <3>1, OwnedGain
    <3>3. Cardinality(buf) <= Limit[b] - used[b]
      <4>1. Cost(r, s) <= Limit[Budget(r)] - used[Budget(r)]  BY <1>1 DEF Payable, r, s
      <4>2. thread[s].msg.kind = "send"  BY <1>1 DEF s
      <4>3. Cost(r, s) = Cardinality(buf)  BY <2>8, <4>2 DEF Cost, buf, Buf
      <4>. QED  BY <2>8, <4>1, <4>3
    <3>4. Cardinality(buf) \in Nat  BY <1>15, Finite
    <3>. QED  BY <2>3, <2>4, <2>6, <3>2, <3>3, <3>4
  <2>. QED  BY <2>3, <2>7, <2>8
<1>30. \A q \in Pids : opencalls'[q] = Cardinality(HeldIn(q)')
  BY <1>7, <1>9 DEF Balanced, HeldIn, IsOpen, Pid
<1>31. TypeOK'
  <2>1. thread' \in [Threads -> Slots]  BY <1>8, <1>9, <1>10, <1>11, <1>13 DEF Calm
  <2>2. receivers' \in [Endpoints -> Seq(Threads)]
    <3>1. receivers' = [x \in Endpoints |-> receivers'[x]]
      <4>. DEFINE E(x) == LET left == Without(receivers[x], {r})
                          IN  IF Continues(s) /\ x = thread[s].then.source THEN Append(left, s) ELSE left
      <4>1. receivers' = [x \in Endpoints |-> E(x)]  BY <1>4 DEF r, s
      <4>. HIDE DEF E
      <4>. QED  BY <4>1
    <3>. QED  BY <1>8, <1>18, <3>1
  <2>3. owner' \in [Pages -> Pids \cup {None}]  BY <1>5, <1>9, <1>16 DEF TypeOK
  <2>4. ptes' \subseteq Ptes
    <3>1. Entry(buf, Pid(r), "own") \subseteq Ptes  BY <1>15, <1>16, EntryFacts
    <3>. QED  BY <1>6, <1>9, <3>1 DEF TypeOK
  <2>5. used' \in [Budgets -> Nat]
    <3>1. used' = [b \in Budgets |-> used'[b]]  BY <1>5 DEF Uncharged
    <3>. QED  BY <1>29, <3>1
  <2>. QED  BY <1>7, <1>9, <1>17, <1>24, <1>29, <2>1, <2>2, <2>3, <2>4, <2>5 DEF TypeOK
<1>32. ChargesBalance'  BY <1>29, <1>30, <1>31, BalanceAfter DEF Balanced
<1>33. LendTold'  BY <1>7 DEF LendTold
<1>. QED  BY <1>19, <1>20, <1>22, <1>23, <1>25, <1>28, <1>31, <1>32, <1>33 DEF IpcInv

\* A page that an open call has been lent, while its caller waits.
LEMMA PageLent ==
  ASSUME NEW g \in Pages, NEW f \in Frames, NEW s \in Threads, NEW r \in Threads,
         \A u \in Threads : g \notin Buf(u)', \A h \in Frames : g \in call'[h].lend <=> h = f,
         call'[f].caller = s, call'[f].server = r, call'[f].waiting, owner'[g] = Pid(s),
         \A p \in Pids : /\ Pte(g, p, "own") \notin ptes' /\ (Pte(g, p, "lent") \in ptes' <=> p = Pid(s))
                         /\ Pte(g, p, "borrowed") \in ptes' <=> p = Pid(r)
  PROVE  PageOk(g)'
<1>1. UseOk(g)'  BY DEF UseOk
<1>2. OwnerOk(g)'  BY DEF OwnerOk, Pid
<1>3. \A p \in Pids : /\ Pte(g, p, "own")' = Pte(g, p, "own") /\ Pte(g, p, "lent")' = Pte(g, p, "lent")
                      /\ Pte(g, p, "borrowed")' = Pte(g, p, "borrowed")
  BY DEF Pte
<1>4. PteOk(g)'
  <2>. SUFFICES ASSUME NEW p \in Pids
         PROVE  /\ Pte(g, p, "own") \in ptes' <=> /\ owner'[g] = p /\ \A t \in Threads : g \notin Buf(t)'
                                                  /\ \A h \in Frames : g \notin call'[h].lend
                /\ Pte(g, p, "lent") \in ptes' <=> /\ owner'[g] = p
                                                   /\ \/ \E t \in Threads : g \in Buf(t)'
                                                      \/ \E h \in Frames : g \in call'[h].lend /\ call'[h].waiting
                /\ Pte(g, p, "borrowed") \in ptes' <=>
                     \E h \in Frames : g \in call'[h].lend /\ ProcOf[call'[h].server] = p
    BY <1>3 DEF PteOk, Pid
  <2>1. Pid(s) = ProcOf[s] /\ Pid(r) = ProcOf[r]  BY DEF Pid
  <2>. QED  BY <2>1
<1>. QED  BY <1>1, <1>2, <1>4 DEF PageOk

\* A call opens: what its payer is charged, and what its server's process holds.
LEMMA OpenedBill ==
  ASSUME TypeOK, NEW f \in Frames, call[f] = NoCall, NEW c \in Calls, c.waiting, ~c.notice,
         call' = [call EXCEPT ![f] = c]
  PROVE  /\ \A b \in Budgets : Cardinality(Bill(b)') =
                                 Cardinality(Bill(b)) + IF b = c.payer THEN 1 + Cardinality(c.lend) ELSE 0
         /\ \A p \in Pids : Cardinality(HeldIn(p)') = Cardinality(HeldIn(p)) + IF p = Pid(c.server) THEN 1 ELSE 0
<1>1. call'[f] = c /\ \A h \in Frames : h # f => call'[h] = call[h]  BY DEF TypeOK
<1>2. c # NoCall /\ c.lend \in SUBSET Pages  BY Constants DEF Calls
<1>3. ASSUME NEW b \in Budgets
      PROVE  Cardinality(Bill(b)') = Cardinality(Bill(b)) + IF b = c.payer THEN 1 + Cardinality(c.lend) ELSE 0
  <2>. DEFINE L == c.lend \cup {None}
              N == {f} \X L
  <2>1. IsFiniteSet(c.lend) /\ Cardinality(c.lend) \in Nat  BY <1>2, Finite
  <2>2. None \notin c.lend  BY <1>2, NoneAssumption
  <2>3. IsFiniteSet(L) /\ Cardinality(L) = Cardinality(c.lend) + 1  BY <2>1, <2>2, FS_AddElement
  <2>4. IsFiniteSet({f}) /\ Cardinality({f}) = 1  BY FS_Singleton
  <2>5. IsFiniteSet(N) /\ Cardinality(N) = 1 + Cardinality(c.lend)
    <3>. HIDE DEF L
    <3>1. IsFiniteSet(N) /\ Cardinality(N) = Cardinality({f}) * Cardinality(L)  BY <2>3, <2>4, FS_Product
    <3>. QED  BY <2>1, <2>3, <2>4, <3>1
  <2>6. IsFiniteSet(Bill(b)) /\ Cardinality(Bill(b)) \in Nat /\ Bill(b) \in SUBSET Items  BY BillIs
  <2>7. \A x \in Items : x[1] \in Frames /\ x[2] \in Pages \cup {None} /\ x = <<x[1], x[2]>>  BY DEF Items
  <2>8. \A x : x \in N <=> x \in Items /\ x[1] = f /\ (x[2] = None \/ x[2] \in c.lend)  BY <1>2 DEF Items
  <2>9. \A x \in Items : x \in Bill(b)' <=> x \in Bill(b) \/ (x \in N /\ b = c.payer)
    <3>. SUFFICES ASSUME NEW x \in Items  PROVE x \in Bill(b)' <=> x \in Bill(b) \/ (x \in N /\ b = c.payer)
      OBVIOUS
    <3>1. x \in Bill(b)' <=> /\ call'[x[1]] # NoCall /\ call'[x[1]].payer = b
                             /\ x[2] = None \/ (call'[x[1]].waiting /\ x[2] \in call'[x[1]].lend)
      BY DEF Bill, IsOpen, NoCall, Items
    <3>2. x \in Bill(b) <=> /\ call[x[1]] # NoCall /\ call[x[1]].payer = b
                            /\ x[2] = None \/ (call[x[1]].waiting /\ x[2] \in call[x[1]].lend)
      BY DEF Bill, IsOpen
    <3>. HIDE DEF N
    <3>3. CASE x[1] = f  BY <1>1, <1>2, <2>8, <3>1, <3>2, <3>3
    <3>4. CASE x[1] # f  BY <1>1, <2>7, <2>8, <3>1, <3>2, <3>4
    <3>. QED  BY <3>3, <3>4
  <2>10. Bill(b)' \subseteq Items /\ N \subseteq Items
    <3>1. Bill(b)' \subseteq Items  BY DEF Bill, Items
    <3>. QED  BY <2>8, <3>1
  <2>11. N \cap Bill(b) = {}
    <3>1. \A x \in Bill(b) : x[1] # f  BY DEF Bill, IsOpen
    <3>. HIDE DEF N
    <3>. QED  BY <2>8, <3>1
  <2>. HIDE DEF N
  <2>12. CASE b = c.payer
    <3>1. Bill(b)' = Bill(b) \cup N  BY <2>6, <2>9, <2>10, <2>12
    <3>2. Bill(b) \cap N = {} /\ Cardinality({}) = 0  BY <2>11, FS_EmptySet
    <3>3. Cardinality(Bill(b) \cup N) = Cardinality(Bill(b)) + Cardinality(N) - Cardinality(Bill(b) \cap N)
      BY <2>5, <2>6, FS_Union
    <3>4. Cardinality(Bill(b)') = Cardinality(Bill(b) \cup N)  BY <3>1
    <3>5. Cardinality(Bill(b) \cap N) = 0  BY <3>2
    <3>. HIDE DEF Bill
    <3>. QED  BY <2>1, <2>5, <2>6, <2>12, <3>3, <3>4, <3>5
  <2>13. CASE b # c.payer
    <3>1. Bill(b)' = Bill(b)  BY <2>6, <2>9, <2>10, <2>13
    <3>. QED  BY <2>6, <2>13, <3>1
  <2>. QED  BY <2>12, <2>13
<1>4. ASSUME NEW p \in Pids
      PROVE  Cardinality(HeldIn(p)') = Cardinality(HeldIn(p)) + IF p = Pid(c.server) THEN 1 ELSE 0
  <2>1. \A h : /\ h \in HeldIn(p)' <=> h \in Frames /\ call'[h] # NoCall /\ ProcOf[call'[h].server] = p
               /\ h \in HeldIn(p) <=> h \in Frames /\ call[h] # NoCall /\ ProcOf[call[h].server] = p
    BY DEF HeldIn, IsOpen, Pid, NoCall
  <2>2. f \notin HeldIn(p) /\ HeldIn(p) \in SUBSET Frames  BY DEF HeldIn, IsOpen
  <2>3. IsFiniteSet(HeldIn(p)) /\ Cardinality(HeldIn(p)) \in Nat  BY <2>2, Finite
  <2>4. \A h : h \in HeldIn(p)' <=> h \in HeldIn(p) \/ (h = f /\ p = Pid(c.server))
    BY <1>1, <1>2, <2>1 DEF Pid
  <2>5. CASE p = Pid(c.server)
    <3>1. HeldIn(p)' = HeldIn(p) \cup {f}  BY <2>4, <2>5
    <3>. QED  BY <2>2, <2>3, <2>5, <3>1, FS_AddElement
  <2>6. CASE p # Pid(c.server)
    <3>1. HeldIn(p)' = HeldIn(p)  BY <2>4, <2>6
    <3>. QED  BY <2>3, <2>6, <3>1
  <2>. QED  BY <2>5, <2>6
<1>. QED  BY <1>3, <1>4

\* DeliverCall, with its receiver, its sender, its frame and the sender's message named.
Opening(e, r, s, f, buf, stamp) ==
  /\ r \in alive /\ thread[r].wait = "receive" /\ thread[r].on = e
  /\ s \in alive /\ thread[s].wait = "send" /\ thread[s].on = e /\ thread[s].msg.kind = "call"
  /\ buf = thread[s].msg.buf /\ stamp = thread[s].msg.stamp
  /\ TakesCalls(r) /\ Payable(r, s) /\ call[f] = NoCall
  /\ call' = [call EXCEPT ![f] =
                [caller |-> s, server |-> r, endpoint |-> e, stamp |-> stamp,
                 payer |-> Budget(r), lend |-> buf, waiting |-> TRUE, notice |-> FALSE]]
  /\ thread' = [thread EXCEPT ![r] = Serving(@, f), ![s] = Awaiting(@, f)]
  /\ line' = [line EXCEPT ![e] = Dequeue(Served(@, Group(s)), {s})]
  /\ opencalls' = [opencalls EXCEPT ![Pid(r)] = @ + 1]
  /\ ptes' = ptes \cup Entry(buf, Pid(r), "borrowed")
  /\ used' = [used EXCEPT ![Budget(r)] = @ + Cost(r, s)]
  /\ receivers' = [receivers EXCEPT ![e] = Without(@, {r})] /\ told' = {}
  /\ UNCHANGED <<alive, budgets, exits, owner, pumps, entry>>

\* A call opens: its payer is charged, its lend mapped for its server.
LEMMA CallOpens ==
  ASSUME IpcInv, NEW e \in Endpoints, NEW r \in Threads, NEW s \in Threads, NEW f \in Frames, NEW buf, NEW stamp,
         Opening(e, r, s, f, buf, stamp)
  PROVE  IpcInv'
<1>. DEFINE c == [caller |-> s, server |-> r, endpoint |-> e, stamp |-> stamp,
                  payer |-> Budget(r), lend |-> buf, waiting |-> TRUE, notice |-> FALSE]
            v == Serving(thread[r], f)
            w == Awaiting(thread[s], f)
<1>0. /\ r \in alive /\ thread[r].wait = "receive" /\ thread[r].on = e
      /\ s \in alive /\ thread[s].wait = "send" /\ thread[s].on = e /\ thread[s].msg.kind = "call"
      /\ buf = thread[s].msg.buf /\ stamp = thread[s].msg.stamp
      /\ TakesCalls(r) /\ Payable(r, s) /\ call[f] = NoCall
  BY DEF Opening
<1>40. told' = {} /\ UNCHANGED <<alive, budgets, exits, owner, pumps, entry>>  BY DEF Opening
<1>1. TypeOK /\ thread \in [Threads -> Slots] /\ call \in [Frames -> Calls \cup {NoCall}] /\ Balanced
  BY BalanceIs DEF IpcInv, TypeOK
<1>2. /\ SlotOk(r) /\ SlotOk(s) /\ r # s /\ thread[r].msg = NoMsg /\ thread[s].msg # NoMsg
      /\ thread[s].msg \in Msgs
  BY <1>0, <1>1, SlotTypes DEF IpcInv, Slotted, SlotOk
<1>3. buf \in SUBSET Pages /\ stamp \in Budgets /\ stamp \in budgets /\ LiveEnd(e)
  BY <1>0, <1>2, MsgTypes DEF SlotOk
<1>4. Pid(r) \in Pids /\ Pid(s) \in Pids /\ Pid(r) # None /\ Budget(r) \in Budgets
  BY KindsAssumption, NoneAssumption DEF Pid, Budget
<1>5. c \in Calls  BY <1>3, <1>4 DEF Calls
<1>6. /\ c.caller = s /\ c.server = r /\ c.endpoint = e /\ c.stamp = stamp /\ c.payer = Budget(r)
      /\ c.lend = buf /\ c.waiting /\ ~c.notice
  OBVIOUS
<1>7. call' = [call EXCEPT ![f] = c]  BY Zenon DEF Opening
<1>8. /\ v \in Slots /\ v.wait = "none" /\ v.msg = NoMsg /\ v.then.half = "none"
      /\ v.held = Append(thread[r].held, f) /\ v.current = f
  <2>1. v = Serving(thread[r], f) /\ thread[r] \in Slots  BY <1>1
  <2>. HIDE DEF v
  <2>. QED  BY <2>1, ServingFacts, SMTT(30)
<1>9. /\ w \in Slots /\ w.wait = "reply" /\ w.msg = NoMsg /\ w.open = f /\ w.then = thread[s].then
      /\ w.held = thread[s].held /\ w.current = thread[s].current
  <2>1. w = Awaiting(thread[s], f) /\ thread[s] \in Slots  BY <1>1
  <2>. HIDE DEF w
  <2>. QED  BY <2>1, AwaitingFacts
<1>10. thread' = [thread EXCEPT ![r] = v, ![s] = w]
  <2>1. thread' = [thread EXCEPT ![r] = Serving(@, f), ![s] = Awaiting(@, f)]  BY DEF Opening
  <2>. QED  BY <1>2, <2>1
<1>. HIDE DEF c, v, w
<1>11. /\ thread'[r] = v /\ thread'[s] = w
       /\ \A u \in Threads : u # r /\ u # s => thread'[u] = thread[u]
  BY <1>1, <1>2, <1>10
<1>12. call'[f] = c /\ \A h \in Frames : h # f => call'[h] = call[h]  BY <1>1, <1>7
<1>13. c # NoCall  BY <1>5, Constants
<1>14. thread[s].then.half = "none"
  <2>1. thread[s].then.half \in {"none", "sending", "replying", "sent", "replied"}
    BY <1>1, SlotTypes, TurnTypes
  <2>. QED  BY <1>0, <1>2, <2>1 DEF SlotOk
<1>15. call[f].lend = {} /\ call[f].server = None /\ ~call[f].waiting /\ call[f].caller = None
  BY <1>0, Constants
<1>16. thread[r].held \in Seq(Frames) /\ ~In(thread[r].held, f) /\ In(v.held, f)
       /\ \A h \in Frames : /\ In(v.held, h) <=> In(thread[r].held, h) \/ h = f
                            /\ Once(v.held, h)
  <2>1. thread[r].held \in Seq(Frames)  BY <1>1, SlotTypes
  <2>2. HeldOk(r)  BY DEF IpcInv, Hands
  <2>3. ~In(thread[r].held, f)  BY <1>15, <2>2, NoneAssumption DEF HeldOk
  <2>4. \A h \in Frames : /\ In(v.held, h) <=> In(thread[r].held, h) \/ h = f
                          /\ Once(v.held, h)
    BY <1>8, <2>1, <2>2, <2>3, AppendFacts DEF HeldOk
  <2>. QED  BY <2>1, <2>3, <2>4
<1>17. Slotted'
  <2>. SUFFICES ASSUME NEW u \in Threads  PROVE SlotOk(u)'
    BY DEF Slotted
  <2>1. CASE u = r
    <3>. QED  BY <1>40, <1>0, <1>8, <1>11, <1>16, <2>1 DEF SlotOk
  <2>2. CASE u = s  BY <1>40, <1>0, <1>2, <1>6, <1>9, <1>11, <1>12, <1>14, <2>2 DEF SlotOk
  <2>3. CASE u # r /\ u # s
    <3>1. SlotOk(u) /\ thread'[u] = thread[u]  BY <1>11, <2>3 DEF IpcInv, Slotted
    <3>2. thread[u].wait = "reply" => thread[u].open # f  BY <1>15, <3>1 DEF SlotOk
    <3>. QED  BY <1>40, <1>12, <3>1, <3>2 DEF SlotOk, LiveEnd
  <2>. QED  BY <2>1, <2>2, <2>3
<1>18. Called'
  <2>. SUFFICES ASSUME NEW h \in Frames  PROVE CallOk(h)'
    BY DEF Called
  <2>1. CASE h = f
    <3>1. call'[h] = c  BY <1>12, <2>1
    <3>. QED  BY <1>40, <1>3, <1>6, <1>9, <1>11, <2>1, <3>1 DEF CallOk, LiveEnd, Budget
  <2>2. CASE h # f
    <3>1. CallOk(h) /\ call'[h] = call[h] /\ (IsOpen(h)' <=> IsOpen(h))
      BY <1>12, <2>2 DEF IpcInv, Called, IsOpen, NoCall
    <3>2. IsOpen(h) /\ call[h].waiting =>
            call[h].caller \in Threads /\ call[h].caller # r /\ call[h].caller # s
      BY <1>0, <1>1, <3>1, CallTypes DEF CallOk
    <3>. QED  BY <1>40, <1>11, <3>1, <3>2 DEF CallOk, LiveEnd, Budget
  <2>. QED  BY <2>1, <2>2
<1>19. Hands'
  <2>. SUFFICES ASSUME NEW u \in Threads, NEW h \in Frames
                PROVE  /\ Once(thread'[u].held, h)
                       /\ In(thread'[u].held, h) <=> call'[h].server = u
    BY DEF Hands, HeldOk
  <2>1. Once(thread[u].held, h) /\ (In(thread[u].held, h) <=> call[h].server = u)
    BY DEF IpcInv, Hands, HeldOk
  <2>2. CASE u = r
    <3>1. thread'[u].held = v.held /\ Once(v.held, h) /\ (In(v.held, h) <=> In(thread[u].held, h) \/ h = f)
      BY <1>11, <1>16, <2>2
    <3>2. call'[h].server = u <=> call[h].server = u \/ h = f  BY <1>6, <1>12, <2>2
    <3>. HIDE DEF In, Once
    <3>. QED  BY <2>1, <3>1, <3>2
  <2>3. CASE u # r
    <3>1. thread'[u].held = thread[u].held  BY <1>9, <1>11, <2>3
    <3>2. call'[h].server = u <=> call[h].server = u  BY <1>6, <1>12, <1>15, <2>3, NoneAssumption
    <3>. QED  BY <2>1, <3>1, <3>2
  <2>. QED  BY <2>2, <2>3
<1>20. /\ line' \in [Endpoints -> Seq(Tokens)]
       /\ \A x \in Endpoints, u \in Threads :
            /\ In(line'[x], Tok(u)) <=> In(line[x], Tok(u)) /\ u # s
            /\ Once(line'[x], Tok(u))
  <2>1. line' = [line EXCEPT ![e] = Dequeue(Served(@, Group(s)), {s})]  BY DEF Opening
  <2>. QED  BY <1>0, <2>1, TakenLine
<1>21. /\ receivers' \in [Endpoints -> Seq(Threads)]
       /\ \A x \in Endpoints, u \in Threads :
            /\ In(receivers'[x], u) <=> IF u = r THEN FALSE ELSE In(receivers[x], u)
            /\ Once(receivers'[x], u)
  <2>1. receivers' = [receivers EXCEPT ![e] = Without(@, {r})]  BY DEF Opening
  <2>. QED  BY <1>0, <2>1, LeavesLine
<1>22. Queues'
  <2>. SUFFICES ASSUME NEW x \in Endpoints, NEW u \in Threads
                PROVE  /\ In(line'[x], Tok(u)) <=> thread'[u].wait = "send" /\ thread'[u].on = x
                       /\ Once(line'[x], Tok(u))
                       /\ In(receivers'[x], u) <=> thread'[u].wait = "receive" /\ thread'[u].on = x
                       /\ Once(receivers'[x], u)
    BY DEF Queues, LineOk, RecvOk, Tok, Group, Budget
  <2>1. /\ In(line[x], Tok(u)) <=> thread[u].wait = "send" /\ thread[u].on = x
        /\ In(receivers[x], u) <=> thread[u].wait = "receive" /\ thread[u].on = x
    BY DEF IpcInv, Queues, LineOk, RecvOk
  <2>2. CASE u = r  BY <1>0, <1>2, <1>8, <1>11, <1>20, <1>21, <2>1, <2>2
  <2>3. CASE u = s  BY <1>0, <1>2, <1>9, <1>11, <1>20, <1>21, <2>1, <2>3
  <2>4. CASE u # r /\ u # s  BY <1>11, <1>20, <1>21, <2>1, <2>4
  <2>. QED  BY <2>2, <2>3, <2>4
<1>23. Ends'  BY <1>40 DEF IpcInv, Ends, EndOk, LiveEnd
<1>24. ASSUME NEW g \in Pages, NEW q \in Pids, NEW k \in {"own", "lent", "borrowed"}
       PROVE  Pte(g, q, k) \in ptes' <=> Pte(g, q, k) \in ptes \/ (g \in buf /\ q = Pid(r) /\ k = "borrowed")
  <2>1. ptes' = ptes \cup Entry(buf, Pid(r), "borrowed")  BY DEF Opening
  <2>. QED  BY <2>1, EntryFacts
<1>25. \A u \in Threads : IF u = s THEN Buf(u)' = {} ELSE Buf(u)' = Buf(u)
  <2>. SUFFICES ASSUME NEW u \in Threads
                PROVE  IF u = s THEN thread'[u].msg.buf = {} ELSE thread'[u].msg.buf = thread[u].msg.buf
    BY DEF Buf
  <2>. QED  BY <1>2, <1>8, <1>9, <1>11, Constants
<1>26. Paged'
  <2>. SUFFICES ASSUME NEW g \in Pages  PROVE PageOk(g)'
    BY DEF Paged
  <2>1. PageOk(g) /\ UseOk(g) /\ OwnerOk(g) /\ PteOk(g)  BY DEF IpcInv, Paged, PageOk
  <2>2. g \in Buf(s) <=> g \in buf  BY <1>0 DEF Buf
  <2>3. CASE g \in buf
    <3>1. /\ \A u \in Threads : g \notin Buf(u)'
          /\ \A h \in Frames : g \notin call[h].lend
      BY <1>25, <2>1, <2>2, <2>3 DEF UseOk
    <3>2. \A h \in Frames : g \in call'[h].lend <=> h = f  BY <1>6, <1>12, <2>3, <3>1
    <3>3. owner'[g] = Pid(s) /\ owner[g] = Pid(s)  BY <1>40, <2>1, <2>2, <2>3 DEF OwnerOk
    <3>4. \A p \in Pids : /\ Pte(g, p, "own") \notin ptes /\ (Pte(g, p, "lent") \in ptes <=> p = Pid(s))
                          /\ Pte(g, p, "borrowed") \notin ptes
      BY <2>1, <2>2, <2>3, <3>1, <3>3 DEF PteOk
    <3>5. \A p \in Pids : /\ Pte(g, p, "own") \notin ptes' /\ (Pte(g, p, "lent") \in ptes' <=> p = Pid(s))
                          /\ Pte(g, p, "borrowed") \in ptes' <=> p = Pid(r)
      BY <1>24, <2>3, <3>4
    <3>6. call'[f].caller = s /\ call'[f].server = r /\ call'[f].waiting  BY <1>6, <1>12
    <3>. QED  BY <3>1, <3>2, <3>3, <3>5, <3>6, PageLent
  <2>4. CASE g \notin buf
    <3>1. \A q \in Pids, k \in {"own", "lent", "borrowed"} : Pte(g, q, k) \in ptes' <=> Pte(g, q, k) \in ptes
      BY <1>24, <2>4
    <3>2. \A u \in Threads : g \in Buf(u)' <=> g \in Buf(u)  BY <1>25, <2>2, <2>4
    <3>3. \A h \in Frames : /\ g \in call'[h].lend <=> g \in call[h].lend
                            /\ g \in call[h].lend => call'[h] = call[h]
      BY <1>6, <1>12, <1>15, <2>4
    <3>. QED  BY <1>40, <2>1, <3>1, <3>2, <3>3, PageKept
  <2>. QED  BY <2>3, <2>4
<1>27. Cost(r, s) = 1 + Cardinality(buf) /\ Cardinality(buf) \in Nat
       /\ used[Budget(r)] \in Nat /\ Limit[Budget(r)] \in Nat
       /\ used[Budget(r)] + Cost(r, s) <= Limit[Budget(r)]
  <2>1. Cardinality(buf) \in Nat  BY <1>3, Finite
  <2>2. Cost(r, s) = 1 + Cardinality(buf)  BY <1>0 DEF Cost
  <2>3. used[Budget(r)] \in Nat /\ Limit[Budget(r)] \in Nat  BY <1>1, <1>4, KindsAssumption DEF TypeOK
  <2>4. Cost(r, s) <= Limit[Budget(r)] - used[Budget(r)]  BY <1>0 DEF Payable
  <2>. QED  BY <2>1, <2>2, <2>3, <2>4
<1>28. /\ \A b \in Budgets : Cardinality(Bill(b)') =
                               Cardinality(Bill(b)) + IF b = Budget(r) THEN 1 + Cardinality(buf) ELSE 0
       /\ \A p \in Pids : Cardinality(HeldIn(p)') = Cardinality(HeldIn(p)) + IF p = Pid(r) THEN 1 ELSE 0
  BY <1>0, <1>1, <1>5, <1>6, <1>7, OpenedBill
<1>29. ASSUME NEW b \in Budgets
       PROVE  /\ used'[b] = Owned(owner', b) + Cardinality(Bill(b)') /\ used'[b] \in Nat
              /\ used'[b] <= Limit[b]
  <2>1. used[b] = Owned(owner, b) + Cardinality(Bill(b)) /\ used[b] \in Nat /\ used[b] <= Limit[b]
        /\ used \in [Budgets -> Nat]
    BY <1>1 DEF Balanced, TypeOK
  <2>2. Owned(owner, b) \in Nat /\ Cardinality(Bill(b)) \in Nat /\ owner' = owner  BY <1>40, <1>1, OwnedIs, BillIs
  <2>3. used'[b] = used[b] + IF b = Budget(r) THEN Cost(r, s) ELSE 0
    <3>1. used' = [used EXCEPT ![Budget(r)] = @ + Cost(r, s)]  BY DEF Opening
    <3>. QED  BY <1>4, <1>27, <2>1, <3>1
  <2>. QED  BY <1>27, <1>28, <2>1, <2>2, <2>3
<1>30. \A q \in Pids : opencalls'[q] = Cardinality(HeldIn(q)') /\ opencalls'[q] \in 0 .. MaxOpenCalls
  <2>. SUFFICES ASSUME NEW q \in Pids
                PROVE  opencalls'[q] = Cardinality(HeldIn(q)') /\ opencalls'[q] \in 0 .. MaxOpenCalls
    OBVIOUS
  <2>1. opencalls[q] = Cardinality(HeldIn(q)) /\ opencalls \in [Pids -> 0 .. MaxOpenCalls]
    BY <1>1 DEF Balanced, TypeOK
  <2>2. opencalls[Pid(r)] < MaxOpenCalls /\ MaxOpenCalls \in Nat  BY <1>0, BoundsAssumption DEF TakesCalls
  <2>3. opencalls'[q] = opencalls[q] + IF q = Pid(r) THEN 1 ELSE 0
    <3>1. opencalls' = [opencalls EXCEPT ![Pid(r)] = @ + 1]  BY DEF Opening
    <3>. QED  BY <1>4, <2>1, <3>1
  <2>. QED  BY <1>28, <2>1, <2>2, <2>3
<1>31. TypeOK'
  <2>1. thread' \in [Threads -> Slots]  BY <1>1, <1>8, <1>9, <1>10
  <2>2. call' \in [Frames -> Calls \cup {NoCall}]  BY <1>1, <1>5, <1>7
  <2>3. ptes' \subseteq Ptes
    <3>1. Entry(buf, Pid(r), "borrowed") \subseteq Ptes  BY <1>3, <1>4, EntryFacts
    <3>2. ptes' = ptes \cup Entry(buf, Pid(r), "borrowed")  BY DEF Opening
    <3>. QED  BY <1>1, <3>1, <3>2 DEF TypeOK
  <2>4. used' \in [Budgets -> Nat]
    <3>1. used' = [b \in Budgets |-> used'[b]]
      <4>1. used' = [used EXCEPT ![Budget(r)] = @ + Cost(r, s)]  BY DEF Opening
      <4>. QED  BY <1>1, <4>1 DEF TypeOK
    <3>. QED  BY <1>29, <3>1
  <2>5. opencalls' \in [Pids -> 0 .. MaxOpenCalls]
    <3>1. opencalls' = [q \in Pids |-> opencalls'[q]]
      <4>1. opencalls' = [opencalls EXCEPT ![Pid(r)] = @ + 1]  BY DEF Opening
      <4>. QED  BY <1>1, <4>1 DEF TypeOK
    <3>. QED  BY <1>30, <3>1
  <2>. QED  BY <1>40, <1>1, <1>20, <1>21, <1>29, <2>1, <2>2, <2>3, <2>4, <2>5 DEF TypeOK
<1>32. ChargesBalance'  BY <1>29, <1>30, <1>31, BalanceAfter DEF Balanced
<1>33. LendTold'  BY <1>40 DEF LendTold
<1>. QED  BY <1>17, <1>18, <1>19, <1>22, <1>23, <1>26, <1>31, <1>32, <1>33 DEF IpcInv

\* A call is delivered.
LEMMA DeliverCallKeeps ==
  ASSUME IpcInv, NEW e \in Endpoints, DeliverCall(e)
  PROVE  IpcInv'
<1>. DEFINE R == Receiver(e)
            S == Sender(e)
<1>1. Messages(e) /\ thread[S].msg.kind = "call" /\ Payable(R, S)  BY DEF DeliverCall
<1>2. PICK f \in Frames :
        /\ call[f] = NoCall
        /\ call' = [call EXCEPT ![f] =
              [caller |-> S, server |-> R, endpoint |-> e, stamp |-> thread[S].msg.stamp,
               payer |-> Budget(R), lend |-> thread[S].msg.buf, waiting |-> TRUE, notice |-> FALSE]]
        /\ thread' = [thread EXCEPT ![R] = Serving(@, f), ![S] = Awaiting(@, f)]
  BY Zenon DEF DeliverCall
<1>3. /\ line' = [line EXCEPT ![e] = Dequeue(Served(@, Group(S)), {S})]
      /\ opencalls' = [opencalls EXCEPT ![Pid(R)] = @ + 1]
      /\ ptes' = ptes \cup Entry(thread[S].msg.buf, Pid(R), "borrowed")
      /\ used' = [used EXCEPT ![Budget(R)] = @ + Cost(R, S)]
      /\ receivers' = [receivers EXCEPT ![e] = Without(@, {R})]
      /\ told' = {} /\ UNCHANGED <<alive, budgets, exits, owner, pumps, entry>>
  BY Zenon DEF DeliverCall
<1>4. /\ R \in alive /\ R \in Threads /\ thread[R].wait = "receive" /\ thread[R].on = e
      /\ S \in alive /\ S \in Threads /\ thread[S].wait = "send" /\ thread[S].on = e
      /\ S \in Waiting(e, TakesCalls(R))
  BY <1>1, Partners
<1>5. TakesCalls(R)  BY <1>1, <1>4 DEF Waiting
<1>6. PICK r \in Threads, s \in Threads : r = R /\ s = S  BY <1>4
<1>. HIDE DEF R, S
<1>7. PICK buf, stamp : buf = thread[s].msg.buf /\ stamp = thread[s].msg.stamp  OBVIOUS
<1>8. call' = [call EXCEPT ![f] =
                 [caller |-> s, server |-> r, endpoint |-> e, stamp |-> stamp,
                  payer |-> Budget(r), lend |-> buf, waiting |-> TRUE, notice |-> FALSE]]
  BY <1>2, <1>6, <1>7
<1>9. /\ line' = [line EXCEPT ![e] = Dequeue(Served(@, Group(s)), {s})]
      /\ opencalls' = [opencalls EXCEPT ![Pid(r)] = @ + 1]
      /\ ptes' = ptes \cup Entry(buf, Pid(r), "borrowed")
      /\ used' = [used EXCEPT ![Budget(r)] = @ + Cost(r, s)]
      /\ receivers' = [receivers EXCEPT ![e] = Without(@, {r})]
      /\ thread' = [thread EXCEPT ![r] = Serving(@, f), ![s] = Awaiting(@, f)]
  BY <1>2, <1>3, <1>6, <1>7
<1>10. /\ r \in alive /\ thread[r].wait = "receive" /\ thread[r].on = e
       /\ s \in alive /\ thread[s].wait = "send" /\ thread[s].on = e /\ thread[s].msg.kind = "call"
       /\ TakesCalls(r) /\ Payable(r, s)
  BY <1>1, <1>4, <1>5, <1>6
<1>11. Opening(e, r, s, f, buf, stamp)  BY <1>2, <1>3, <1>7, <1>8, <1>9, <1>10 DEF Opening
<1>. QED  BY <1>11, CallOpens

-----------------------------------------------------------------------------
(* The invariant holds. *)

\* A step of deliver_all.
LEMMA PumpKeeps ==
  ASSUME IpcInv, NEW e \in Endpoints, Pump(e)
  PROVE  IpcInv'
BY NoticeKeeps, ExitNoticeKeeps, BadRecordKeeps, RefuseKeeps, DeliverSendKeeps, DeliverCallKeeps, PumpedKeeps
   DEF Pump

\* A step of an entry.
LEMMA KernelKeeps ==
  ASSUME IpcInv, Kernel
  PROVE  IpcInv'
BY ReceiveHalfKeeps, SettledKeeps, PumpKeeps DEF Kernel

\* What a thread asks of the kernel.
LEMMA CallingKeeps ==
  ASSUME IpcInv, NEW t \in Threads, Calling(t)
  PROVE  IpcInv'
<1>1. CASE \E h \in Handles, buf \in SUBSET Pages, due \in Deadlines :
             \E kind \in {"call", "send"} : Send(t, kind, h, buf, due)
  BY <1>1, SendKeeps
<1>2. CASE \E e \in Endpoints, due \in Deadlines, max \in Maxes : Receive(t, e, due, max)
  BY <1>2, ReceiveKeeps
<1>3. CASE \E f \in Frames : Reply(t, f) \/ Serve(t, f)
  BY <1>3, ReplyKeeps, ServeKeeps
<1>4. CASE ReceiveRefused(t)
  BY <1>4, ReceiveRefusedKeeps
<1>. QED  BY <1>1, <1>2, <1>3, <1>4 DEF Calling

\* The turns.
LEMMA TurningKeeps ==
  ASSUME IpcInv, NEW t \in Threads, Turning(t)
  PROVE  IpcInv'
<1>1. PICK e \in Endpoints, due \in Deadlines, max \in Maxes :
        \/ \E f \in Frames : ReplyReceive(t, f, e, due, max)
        \/ \E h \in Handles, buf \in SUBSET Pages, sdue \in Deadlines :
             SendReceive(t, h, buf, sdue, e, due, max)
  BY DEF Turning
<1>. QED  BY <1>1, ReplyReceiveKeeps, SendReceiveKeeps

\* The ends.
LEMMA EndingKeeps ==
  ASSUME IpcInv, Ending
  PROVE  IpcInv'
<1>1. Exiting \subseteq Threads /\ Dying \subseteq Threads  BY BoundsAssumption
<1>. QED  BY <1>1, ThreadExitKeeps, ProcessExitKeeps, DestroyKeeps DEF Ending

\* Every step keeps the invariant.
LEMMA NextKeeps ==
  ASSUME IpcInv, [Next]_vars
  PROVE  IpcInv'
<1>1. Turners \subseteq Threads /\ Mappers \subseteq Threads  BY BoundsAssumption
<1>2. CASE Kernel  BY <1>2, KernelKeeps
<1>3. CASE \E t \in Threads : Calling(t) \/ Expire(t)  BY <1>3, CallingKeeps, ExpireKeeps
<1>4. CASE \E t \in Turners : Turning(t)  BY <1>1, <1>4, TurningKeeps
<1>5. CASE \E t \in Mappers : Mapping(t)
  <2>1. PICK t \in Threads, g \in Pages : MapPage(t, g) \/ UnmapPage(t, g)  BY <1>1, <1>5 DEF Mapping
  <2>. QED  BY <2>1, MapKeeps
<1>6. CASE Ending  BY <1>6, EndingKeeps
<1>7. CASE UNCHANGED vars  BY <1>7, StutterKeeps
<1>. QED  BY <1>2, <1>3, <1>4, <1>5, <1>6, <1>7 DEF Next

\* The invariant holds at the start.
LEMMA InitHolds == Init => IpcInv
<1>. SUFFICES ASSUME Init  PROVE IpcInv
  OBVIOUS
<1>1. /\ alive = Threads /\ budgets = Budgets /\ thread = [t \in Threads |-> Idle]
      /\ line = [e \in Endpoints |-> <<>>] /\ receivers = [e \in Endpoints |-> <<>>]
      /\ exits = [e \in Endpoints |-> <<>>] /\ call = [f \in Frames |-> NoCall]
      /\ opencalls = [p \in Pids |-> 0] /\ owner = FirstOwner
      /\ used = [b \in Budgets |-> Owned(FirstOwner, b)] /\ pumps = {} /\ entry = None /\ told = {}
  BY DEF Init
<1>2. ptes = UNION {Entry({g}, FirstOwner[g], "own") : g \in Pages}  BY DEF Init
<1>3. /\ \A t \in Threads : thread[t] = Idle
      /\ \A f \in Frames : call[f] = NoCall
      /\ \A e \in Endpoints : line[e] = <<>> /\ receivers[e] = <<>> /\ exits[e] = <<>>
      /\ \A b \in Budgets : used[b] = Owned(FirstOwner, b)
  BY <1>1
<1>4. \A x : ~In(<<>>, x) /\ Once(<<>>, x)  BY DEF In, Once
<1>5. ASSUME NEW g \in Pages, NEW p \in Pids, NEW k
      PROVE  Pte(g, p, k) \in ptes <=> p = FirstOwner[g] /\ k = "own"
  <2>1. Pte(g, p, k) \in ptes <=> \E h \in Pages : Pte(g, p, k) \in Entry({h}, FirstOwner[h], "own")
    BY <1>2
  <2>2. \A h \in Pages : Pte(g, p, k) \in Entry({h}, FirstOwner[h], "own") <=> g = h /\ p = FirstOwner[h] /\ k = "own"
    BY EntryFacts
  <2>. QED  BY <2>1, <2>2
<1>6. TypeOK
  <2>1. ptes \subseteq Ptes
    <3>1. \A g \in Pages : FirstOwner[g] \in Pids  BY KindsAssumption
    <3>2. \A g \in Pages : Entry({g}, FirstOwner[g], "own") \subseteq Ptes
      <4>. SUFFICES ASSUME NEW g \in Pages  PROVE Entry({g}, FirstOwner[g], "own") \subseteq Ptes
        OBVIOUS
      <4>1. {g} \in SUBSET Pages  OBVIOUS
      <4>. QED  BY <3>1, <4>1, EntryFacts
    <3>. QED  BY <1>2, <3>2
  <2>2. thread \in [Threads -> Slots]  BY <1>1, Constants
  <2>3. used \in [Budgets -> Nat] /\ \A b \in Budgets : used[b] <= Limit[b]
    BY <1>1, StartAssumption, OwnedIs
  <2>4. owner \in [Pages -> Pids \cup {None}]  BY <1>1, KindsAssumption
  <2>5. opencalls \in [Pids -> 0 .. MaxOpenCalls]  BY <1>1, BoundsAssumption
  <2>6. /\ line \in [Endpoints -> Seq(Tokens)] /\ receivers \in [Endpoints -> Seq(Threads)]
        /\ exits \in [Endpoints -> Seq(Pids)] /\ call \in [Frames -> Calls \cup {NoCall}]
    BY <1>1
  <2>. QED  BY <1>1, <2>1, <2>2, <2>3, <2>4, <2>5, <2>6 DEF TypeOK
<1>7. Slotted
  <2>. SUFFICES ASSUME NEW t \in Threads  PROVE SlotOk(t)
    BY DEF Slotted
  <2>1. thread[t] = Idle /\ t \in alive  BY <1>1
  <2>. QED  BY <2>1, Constants DEF SlotOk
<1>8. Called  BY <1>3 DEF Called, CallOk, IsOpen
<1>9. Hands
  <2>. SUFFICES ASSUME NEW t \in Threads, NEW f \in Frames
                PROVE  Once(thread[t].held, f) /\ (In(thread[t].held, f) <=> call[f].server = t)
    BY DEF Hands, HeldOk
  <2>1. thread[t].held = <<>> /\ call[f].server = None  BY <1>3, Constants
  <2>. QED  BY <1>4, <2>1, NoneAssumption
<1>10. Queues
  <2>. SUFFICES ASSUME NEW t \in Threads, NEW e \in Endpoints
                PROVE  /\ In(line[e], Tok(t)) <=> thread[t].wait = "send" /\ thread[t].on = e
                       /\ Once(line[e], Tok(t))
                       /\ In(receivers[e], t) <=> thread[t].wait = "receive" /\ thread[t].on = e
                       /\ Once(receivers[e], t)
    BY DEF Queues, LineOk, RecvOk
  <2>1. line[e] = <<>> /\ receivers[e] = <<>> /\ thread[t].wait = "none"  BY <1>3, Constants
  <2>. QED  BY <1>4, <2>1
<1>11. Ends  BY <1>1 DEF Ends, EndOk
<1>12. Paged
  <2>. SUFFICES ASSUME NEW g \in Pages  PROVE PageOk(g)
    BY DEF Paged
  <2>1. (\A t \in Threads : g \notin Buf(t)) /\ (\A f \in Frames : g \notin call[f].lend)
    BY <1>3, Constants DEF Buf
  <2>2. owner[g] = FirstOwner[g] /\ FirstOwner[g] \in Pids  BY <1>1, KindsAssumption
  <2>3. PteOk(g)  BY <1>5, <2>1, <2>2 DEF PteOk
  <2>. QED  BY <2>1, <2>3 DEF PageOk, UseOk, OwnerOk
<1>13. ChargesBalance
  <2>1. ASSUME NEW b \in Budgets  PROVE used[b] = Owned(owner, b) + Cardinality(Bill(b))
    <3>1. Bill(b) = {}
      <4>1. \A x \in Items : x[1] \in Frames  BY DEF Items
      <4>. QED  BY <1>3, <4>1 DEF Bill, IsOpen
    <3>2. Cardinality(Bill(b)) = 0  BY <3>1, FS_EmptySet
    <3>3. used[b] = Owned(owner, b) /\ Owned(owner, b) \in Nat  BY <1>1, <1>3, OwnedIs
    <3>. QED  BY <3>2, <3>3
  <2>2. ASSUME NEW p \in Pids  PROVE opencalls[p] = Cardinality(HeldIn(p))
    <3>1. HeldIn(p) = {}  BY <1>3 DEF HeldIn, IsOpen
    <3>2. Cardinality(HeldIn(p)) = 0  BY <3>1, FS_EmptySet
    <3>. QED  BY <1>1, <3>2
  <2>. QED  BY <1>6, <2>1, <2>2, BalanceIs DEF Balanced
<1>14. LendTold  BY <1>1 DEF LendTold
<1>. QED  BY <1>6, <1>7, <1>8, <1>9, <1>10, <1>11, <1>12, <1>13, <1>14 DEF IpcInv

\* The invariant holds always, whatever is called, sent, received, replied to, timed out,
\* ended and destroyed, in whatever order (message.rs, endpoint.rs).
THEOREM Invariance == Spec => []IpcInv
<1>1. IpcInv /\ [Next]_vars => IpcInv'  BY NextKeeps
<1>. QED  BY <1>1, InitHolds, PTL DEF Spec

-----------------------------------------------------------------------------
(* What the runs check. *)

\* The variables keep their types: above all no budget is charged more than its limit and no
\* process has more than MAX_OPEN_CALLS open calls (message.rs: prepare, pick, push_open_call).
THEOREM TypeCorrect == Spec => []TypeOK
<1>1. IpcInv => TypeOK  BY DEF IpcInv
<1>. QED  BY <1>1, Invariance, PTL

\* I5, R3, R4a: no reply, refusal, timeout, abandonment or end leaves a charge behind or returns
\* one twice (message.rs: close_call, abandon; budget.rs: charge, uncharge).
THEOREM ChargesAlwaysBalance == Spec => []ChargesBalance
<1>1. IpcInv => ChargesBalance  BY DEF IpcInv
<1>. QED  BY <1>1, Invariance, PTL

\* R13: a caller told that its lend is back has it back, and one told that it is gone cannot touch
\* it (message.rs: call_result, fail_wait).
THEOREM LendsTold == Spec => []LendTold
<1>1. IpcInv => LendTold  BY DEF IpcInv
<1>. QED  BY <1>1, Invariance, PTL

\* Threads' pages and open calls name no dead endpoint or stamp.
LEMMA NoneAwaited == IpcInv => NothingDeadAwaited
<1>. SUFFICES ASSUME IpcInv  PROVE NothingDeadAwaited
  OBVIOUS
<1>1. ASSUME NEW t \in Threads
      PROVE  /\ Wait(t) \in {"send", "receive"} => LiveEnd(thread[t].on)
             /\ Wait(t) = "send" => thread[t].msg.stamp \in budgets
  BY DEF IpcInv, Slotted, SlotOk, Wait
<1>2. ASSUME NEW f \in Frames
      PROVE  /\ call[f].waiting => LiveEnd(call[f].endpoint) /\ call[f].stamp \in budgets
             /\ call[f].notice => LiveEnd(call[f].endpoint) /\ ~call[f].waiting
  <2>1. CallOk(f) /\ TypeOK  BY DEF IpcInv, Called
  <2>. QED  BY <2>1, CallTypes DEF CallOk
<1>3. ASSUME NEW e \in Endpoints  PROVE exits[e] # <<>> \/ e \in pumps => LiveEnd(e)
  BY DEF IpcInv, Ends, EndOk
<1>. QED  BY <1>1, <1>2, <1>3 DEF NothingDeadAwaited

\* R10: nothing waits on a destroyed endpoint or through a destroyed stamp, and no notice is owed
\* there (message.rs: budgets_dying, endpoint_dying).
THEOREM DeadNeverAwaited == Spec => []NothingDeadAwaited
BY NoneAwaited, Invariance, PTL

\* Something in a sequence once has one place.
LEMMA PlaceCount ==
  ASSUME NEW s, NEW x, Once(s, x), NEW P, P = {i \in DOMAIN s : s[i] = x}
  PROVE  Cardinality(P) = IF In(s, x) THEN 1 ELSE 0
<1>1. CASE In(s, x)
  <2>1. PICK i \in DOMAIN s : s[i] = x  BY <1>1 DEF In
  <2>2. P = {i}  BY <2>1 DEF Once
  <2>. QED  BY <1>1, <2>2, FS_Singleton
<1>2. CASE ~In(s, x)
  <2>1. P = {}  BY <1>2 DEF In
  <2>. QED  BY <1>2, <2>1, FS_EmptySet
<1>. QED  BY <1>1, <1>2

\* A sequence of different members is as long as they are many.
LEMMA OnceLength ==
  ASSUME NEW s \in Seq(Frames), \A f \in Frames : Once(s, f)
  PROVE  Len(s) = Cardinality(Members(s))
<1>. DEFINE D == 1 .. Len(s)
            M == Members(s)
<1>1. Len(s) \in Nat /\ DOMAIN s = D /\ \A i \in D : s[i] \in Frames  OBVIOUS
<1>2. M = {s[i] : i \in D}  BY <1>1 DEF Members
<1>3. s \in Bijection(D, M)
  <2>1. s \in [D -> M]
    <3>1. s = [i \in D |-> s[i]]  OBVIOUS
    <3>2. \A i \in D : s[i] \in M  BY <1>2
    <3>. HIDE DEF M, D
    <3>. QED  BY <3>1, <3>2
  <2>2. \A i, j \in D : s[i] = s[j] => i = j  BY <1>1 DEF Once
  <2>3. \A y \in M : \E i \in D : s[i] = y  BY <1>2
  <2>. HIDE DEF M, D
  <2>. QED  BY <2>1, <2>2, <2>3 DEF Bijection, Injection, Surjection, IsInjective
<1>4. IsFiniteSet(D) /\ Cardinality(D) = Len(s)
  <2>. DEFINE n == Len(s)
  <2>1. 1 \in Int /\ n \in Int /\ n >= 0  BY <1>1
  <2>. HIDE DEF n
  <2>2. IsFiniteSet(1 .. n) /\ Cardinality(1 .. n) = IF 1 > n THEN 0 ELSE n - 1 + 1  BY <2>1, FS_Interval
  <2>3. Cardinality(1 .. n) = n  BY <2>1, <2>2
  <2>. QED  BY <2>2, <2>3 DEF n
<1>5. Cardinality(M) = Cardinality(D)
  <2>1. ExistsBijection(D, M)  BY <1>3 DEF ExistsBijection
  <2>. HIDE DEF M, D
  <2>. QED  BY <1>4, <2>1, FS_Bijection
<1>. QED  BY <1>4, <1>5

\* The invariant has the audit's lists.
LEMMA ListsHold == IpcInv => ListsAgree
<1>. SUFFICES ASSUME IpcInv  PROVE ListsAgree
  OBVIOUS
<1>. DEFINE Pos(s, x) == {i \in DOMAIN s : s[i] = x}
<1>1. ASSUME NEW t \in Threads, NEW e \in Endpoints
      PROVE  /\ Cardinality(Pos(line[e], Tok(t))) =
                  (IF thread[t].wait = "send" /\ thread[t].on = e THEN 1 ELSE 0)
             /\ Cardinality(Pos(receivers[e], t)) =
                  (IF thread[t].wait = "receive" /\ thread[t].on = e THEN 1 ELSE 0)
  <2>1. /\ In(line[e], Tok(t)) <=> thread[t].wait = "send" /\ thread[t].on = e
        /\ Once(line[e], Tok(t))
        /\ In(receivers[e], t) <=> thread[t].wait = "receive" /\ thread[t].on = e
        /\ Once(receivers[e], t)
    BY DEF IpcInv, Queues, LineOk, RecvOk
  <2>. DEFINE P == Pos(line[e], Tok(t))
              R == Pos(receivers[e], t)
  <2>2. P = {i \in DOMAIN line[e] : line[e][i] = Tok(t)} /\ R = {i \in DOMAIN receivers[e] : receivers[e][i] = t}
    OBVIOUS
  <2>. HIDE DEF P, R
  <2>3. Cardinality(P) = IF In(line[e], Tok(t)) THEN 1 ELSE 0  BY <2>1, <2>2, PlaceCount
  <2>4. Cardinality(R) = IF In(receivers[e], t) THEN 1 ELSE 0  BY <2>1, <2>2, PlaceCount
  <2>. QED  BY <2>1, <2>3, <2>4 DEF P, R
<1>2. ASSUME NEW t \in Threads
      PROVE  LET s == thread[t]
             IN  /\ s.wait # "none" => t \in alive
                 /\ {f \in Frames : call[f].waiting /\ call[f].caller = t} =
                       (IF s.wait = "reply" THEN {s.open} ELSE {})
                 /\ Members(s.held) = {f \in Frames : call[f].server = t}
                 /\ Len(s.held) = Cardinality(Members(s.held))
                 /\ s.current = None \/ s.current \in Members(s.held)
                 /\ s.then.half = "sending" => s.wait = "send" /\ s.msg.kind = "send"
                 /\ s.then.half \in {"sent", "replied"} => s.wait = "receive"
  <2>. DEFINE s == thread[t]
              W == {f \in Frames : call[f].waiting /\ call[f].caller = t}
  <2>1. SlotOk(t) /\ HeldOk(t) /\ TypeOK /\ s \in Slots  BY DEF IpcInv, Slotted, Hands, TypeOK
  <2>2. s.held \in Seq(Frames)  BY <2>1, SlotTypes
  <2>3. \A f \in W : s.wait = "reply" /\ s.open = f
    <3>. SUFFICES ASSUME NEW f \in W  PROVE s.wait = "reply" /\ s.open = f
      OBVIOUS
    <3>1. CallOk(f) /\ IsOpen(f)  BY <2>1, CallTypes DEF IpcInv, Called
    <3>. QED  BY <3>1 DEF CallOk
  <2>4. s.wait = "reply" => s.open \in W  BY <2>1 DEF SlotOk
  <2>5. W = IF s.wait = "reply" THEN {s.open} ELSE {}
    <3>. HIDE DEF W
    <3>. QED  BY <2>3, <2>4
  <2>6. \A x : x \in Members(s.held) <=> In(s.held, x)  BY DEF Members, In
  <2>7. Members(s.held) = {f \in Frames : call[f].server = t}
    <3>1. \A x : In(s.held, x) => x \in Frames  BY <2>2 DEF In
    <3>2. \A f \in Frames : In(s.held, f) <=> call[f].server = t  BY <2>1 DEF HeldOk
    <3>. HIDE DEF s
    <3>. QED  BY <2>6, <3>1, <3>2
  <2>8. Len(s.held) = Cardinality(Members(s.held))
    <3>1. \A f \in Frames : Once(s.held, f)  BY <2>1 DEF HeldOk
    <3>. QED  BY <2>2, <3>1, OnceLength
  <2>9. s.current = None \/ s.current \in Members(s.held)  BY <2>1, <2>6 DEF SlotOk
  <2>10. /\ s.wait # "none" => t \in alive
         /\ s.then.half = "sending" => s.wait = "send" /\ s.msg.kind = "send"
         /\ s.then.half \in {"sent", "replied"} => s.wait = "receive"
    BY <2>1 DEF SlotOk
  <2>. QED  BY <2>5, <2>7, <2>8, <2>9, <2>10
<1>. QED  BY <1>1, <1>2 DEF ListsAgree

\* I1: the checked build's audit finds every wait on its list, every waiting caller with its call and
\* every open call with its server (message.rs: check_lists).
THEOREM ListsAlwaysAgree == Spec => []ListsAgree
BY ListsHold, Invariance, PTL

\* The invariant has every page's entries.
LEMMA LendsAreHeld == IpcInv => LendsHeld
<1>. SUFFICES ASSUME IpcInv  PROVE LendsHeld
  OBVIOUS
<1>. DEFINE Taken == {f \in Frames : call[f] # NoCall}
            At(g) == {x \in ptes : x.page = g}
            Queue(g) == {t \in Threads : g \in thread[t].msg.buf}
            Open(g) == {f \in Taken : g \in call[f].lend}
<1>. SUFFICES ASSUME NEW g \in Pages
              PROVE  /\ Cardinality(Queue(g)) + Cardinality(Open(g)) <= 1
                     /\ owner[g] = None <=> At(g) = {}
                     /\ \A t \in Queue(g) : At(g) = Entry({g}, Pid(t), "lent") /\ owner[g] = Pid(t)
                     /\ \A f \in Open(g) :
                          LET c == call[f]
                          IN  IF c.waiting
                              THEN /\ At(g) = Entry({g}, Pid(c.caller), "lent")
                                              \cup Entry({g}, Pid(c.server), "borrowed")
                                   /\ owner[g] = Pid(c.caller)
                              ELSE /\ At(g) = Entry({g}, Pid(c.server), "borrowed")
                                   /\ owner[g] = Pid(c.server)
                     /\ Queue(g) \cup Open(g) = {} /\ owner[g] # None
                          => At(g) = Entry({g}, owner[g], "own")
  BY Zenon DEF LendsHeld
<1>1. TypeOK /\ UseOk(g) /\ OwnerOk(g) /\ PteOk(g)  BY DEF IpcInv, Paged, PageOk
<1>2. owner[g] \in Pids \cup {None}  BY <1>1 DEF TypeOK
<1>. DEFINE Q == Queue(g)
            O == Open(g)
            A == At(g)
<1>3. /\ \A t : t \in Q <=> t \in Threads /\ g \in Buf(t)
      /\ \A f : f \in O <=> f \in Frames /\ g \in call[f].lend
  <2>1. \A f \in Frames : g \in call[f].lend => call[f] # NoCall  BY Constants
  <2>. QED  BY <2>1 DEF Buf
<1>4. \A x : x \in A <=> \E p \in Pids, k \in {"own", "lent", "borrowed"} : x = Pte(g, p, k) /\ Pte(g, p, k) \in ptes
  <2>1. \A x \in ptes : x \in Ptes  BY <1>1 DEF TypeOK
  <2>2. \A x \in Ptes : x.pid \in Pids /\ x.kind \in {"own", "lent", "borrowed"} /\ x = Pte(x.page, x.pid, x.kind)
    BY DEF Ptes, Pte
  <2>3. \A p, k : Pte(g, p, k).page = g  BY DEF Pte
  <2>. QED  BY <2>1, <2>2, <2>3
<1>5. \A p, k, x : x \in Entry({g}, p, k) <=> x = Pte(g, p, k)  BY DEF Entry, Pte
<1>6. Cardinality(Q) + Cardinality(O) <= 1
  <2>. HIDE DEF Q, O
  <2>1. CASE Q # {}
    <3>1. PICK t : t \in Q  BY <2>1
    <3>2. Q = {t} /\ O = {}  BY <1>1, <1>3, <3>1 DEF UseOk
    <3>3. Cardinality(Q) = 1 /\ Cardinality(O) = 0  BY <3>2, FS_Singleton, FS_EmptySet
    <3>. QED  BY <3>3
  <2>2. CASE Q = {} /\ O # {}
    <3>1. PICK f : f \in O  BY <2>2
    <3>2. O = {f}  BY <1>1, <1>3, <3>1 DEF UseOk
    <3>3. Cardinality(O) = 1 /\ Cardinality(Q) = 0  BY <2>2, <3>2, FS_Singleton, FS_EmptySet
    <3>. QED  BY <3>3
  <2>3. CASE Q = {} /\ O = {}
    <3>1. Cardinality(O) = 0 /\ Cardinality(Q) = 0  BY <2>3, FS_EmptySet
    <3>. QED  BY <3>1
  <2>. QED  BY <2>1, <2>2, <2>3
<1>. HIDE DEF Q, O, A
<1>7. \A p \in Pids :
        /\ Pte(g, p, "own") \in ptes <=> owner[g] = p /\ Q = {} /\ O = {}
        /\ Pte(g, p, "lent") \in ptes <=> owner[g] = p /\ (Q # {} \/ \E f \in O : call[f].waiting)
        /\ Pte(g, p, "borrowed") \in ptes <=> \E f \in O : Pid(call[f].server) = p
  BY <1>1, <1>3 DEF PteOk
<1>8. \A f \in O : f \in Frames /\ call[f].caller \in Threads /\ call[f].server \in Threads
                   /\ Pid(call[f].caller) \in Pids /\ Pid(call[f].server) \in Pids
  <2>1. \A f \in O : f \in Frames /\ IsOpen(f)  BY <1>3, Constants DEF IsOpen
  <2>. QED  BY <1>1, <2>1, CallTypes, KindsAssumption DEF Pid
<1>9. \A t \in Q : Pid(t) \in Pids /\ owner[g] = Pid(t)  BY <1>1, <1>3, KindsAssumption DEF OwnerOk, Pid
<1>10. \A f \in O : owner[g] = IF call[f].waiting THEN Pid(call[f].caller) ELSE Pid(call[f].server)
  BY <1>1, <1>3 DEF OwnerOk
<1>11. (\A t \in Q : Q = {t} /\ O = {}) /\ (\A f \in O : O = {f} /\ Q = {})
  BY <1>1, <1>3 DEF UseOk
<1>12. ASSUME NEW t \in Q  PROVE A = Entry({g}, Pid(t), "lent") /\ owner[g] = Pid(t)
  <2>1. \A x : x \in A <=> x = Pte(g, Pid(t), "lent")  BY <1>4, <1>7, <1>9, <1>11
  <2>. QED  BY <1>5, <1>9, <2>1
<1>13. ASSUME NEW f \in O
       PROVE  IF call[f].waiting
              THEN /\ A = Entry({g}, Pid(call[f].caller), "lent") \cup Entry({g}, Pid(call[f].server), "borrowed")
                   /\ owner[g] = Pid(call[f].caller)
              ELSE /\ A = Entry({g}, Pid(call[f].server), "borrowed")
                   /\ owner[g] = Pid(call[f].server)
  <2>1. O = {f} /\ Q = {}  BY <1>11
  <2>2. CASE call[f].waiting
    <3>1. owner[g] = Pid(call[f].caller)  BY <1>10, <2>2
    <3>2. \A x : x \in A <=> x = Pte(g, Pid(call[f].caller), "lent") \/ x = Pte(g, Pid(call[f].server), "borrowed")
      BY <1>4, <1>7, <1>8, <2>1, <2>2, <3>1
    <3>3. A = Entry({g}, Pid(call[f].caller), "lent") \cup Entry({g}, Pid(call[f].server), "borrowed")
      BY <1>5, <3>2
    <3>. QED  BY <2>2, <3>1, <3>3
  <2>3. CASE ~call[f].waiting
    <3>1. owner[g] = Pid(call[f].server)  BY <1>10, <2>3
    <3>2. \A x : x \in A <=> x = Pte(g, Pid(call[f].server), "borrowed")
      BY <1>4, <1>7, <1>8, <2>1, <2>3, <3>1
    <3>3. A = Entry({g}, Pid(call[f].server), "borrowed")  BY <1>5, <3>2
    <3>. QED  BY <2>3, <3>1, <3>3
  <2>. QED  BY <2>2, <2>3
<1>14. ASSUME Q = {}, O = {}, owner[g] # None  PROVE A = Entry({g}, owner[g], "own")
  <2>1. \A x : x \in A <=> x = Pte(g, owner[g], "own")  BY <1>2, <1>4, <1>7, <1>14
  <2>. QED  BY <1>5, <2>1
<1>15. owner[g] = None <=> A = {}
  <2>1. CASE Q # {}
    <3>1. PICK t : t \in Q  BY <2>1
    <3>2. Pte(g, Pid(t), "lent") \in A /\ owner[g] # None
      BY <1>5, <1>9, <1>12, <3>1, NoneAssumption
    <3>. QED  BY <3>2
  <2>2. CASE O # {}
    <3>1. PICK f : f \in O  BY <2>2
    <3>2. Pte(g, Pid(call[f].server), "borrowed") \in ptes  BY <1>7, <1>8, <3>1
    <3>3. Pte(g, Pid(call[f].server), "borrowed") \in A  BY <1>4, <1>8, <3>1, <3>2
    <3>4. owner[g] # None  BY <1>8, <1>10, <3>1, NoneAssumption
    <3>. QED  BY <3>3, <3>4
  <2>3. CASE Q = {} /\ O = {}
    <3>1. owner[g] # None => Pte(g, owner[g], "own") \in A  BY <1>5, <1>14, <2>3
    <3>2. \A p \in Pids : /\ Pte(g, p, "own") \in ptes => owner[g] = p
                          /\ Pte(g, p, "lent") \notin ptes /\ Pte(g, p, "borrowed") \notin ptes
      BY <1>7, <2>3
    <3>3. owner[g] = None => A = {}  BY <1>4, <3>2, NoneAssumption
    <3>. QED  BY <3>1, <3>3
  <2>. QED  BY <2>1, <2>2, <2>3
<1>. QED  BY <1>6, <1>12, <1>13, <1>14, <1>15 DEF Q, O, A

\* I9, R3: a page is touched through one address space at most, and a lent page's entries are its
\* lender's and its server's (mem.rs: lend_out, return_page_inner, unmap_from, drop_lent).
THEOREM LendsAlwaysHeld == Spec => []LendsHeld
BY LendsAreHeld, Invariance, PTL

-----------------------------------------------------------------------------
(* Nothing is stranded, if threads that end hold no open call. *)

\* Thread t receives on e; it has a message queued there.
Recv(t, e)  == thread[t].wait = "receive" /\ thread[t].on = e
Sends(t, e) == thread[t].wait = "send" /\ thread[t].on = e

\* Nothing on e could be delivered.
Quiet(e) ==
  /\ \A r \in Threads : Recv(r, e) => exits[e] = <<>>
  /\ \A f \in Frames : call[f].notice /\ call[f].endpoint = e => ~Recv(call[f].server, e)
  /\ \A r, s \in Threads : Recv(r, e) /\ Sends(s, e) => ~TakesCalls(r) /\ thread[s].msg.kind # "send"

\* What could be delivered, the entry under way has still to pump.
Swept == \A e \in Endpoints : e \notin pumps => Quiet(e)

\* thread_exit of a thread that has answered every call it took.
ExitsEmptyHanded == \A t \in Exiting : ThreadExit(t) => thread[t].held = <<>>

\* A step after which no more could be delivered on e than before it.
Calmer(e) ==
  /\ \A t \in Threads :
       /\ Recv(t, e)' => Recv(t, e) /\ (TakesCalls(t)' => TakesCalls(t))
       /\ Sends(t, e)' => Sends(t, e) /\ thread'[t].msg.kind = thread[t].msg.kind
  /\ exits[e] = <<>> => exits'[e] = <<>>
  /\ \A f \in Frames : call'[f].notice /\ call'[f].endpoint = e =>
       call[f].notice /\ call[f].endpoint = e /\ call'[f].server = call[f].server

\* It leaves a quiet endpoint quiet.
LEMMA CalmerStays ==
  ASSUME TypeOK, NEW e \in Endpoints, Quiet(e), Calmer(e)
  PROVE  Quiet(e)'
<1>1. ASSUME NEW r \in Threads, Recv(r, e)'  PROVE exits'[e] = <<>>
  BY <1>1 DEF Calmer, Quiet
<1>2. ASSUME NEW f \in Frames, call'[f].notice, call'[f].endpoint = e  PROVE ~Recv(call[f].server, e)'
  <2>1. call[f].notice /\ call[f].endpoint = e  BY <1>2 DEF Calmer
  <2>2. call[f].server \in Threads  BY <2>1, CallTypes
  <2>3. ~Recv(call[f].server, e)  BY <2>1 DEF Quiet
  <2>4. call'[f].server = call[f].server  BY <1>2 DEF Calmer
  <2>5. ~(thread'[call[f].server].wait = "receive" /\ thread'[call[f].server].on = e)
    BY <2>2, <2>3 DEF Calmer, Recv
  <2>. QED  BY <2>4, <2>5 DEF Recv
<1>3. ASSUME NEW r \in Threads, NEW s \in Threads, Recv(r, e)', Sends(s, e)'
      PROVE  ~TakesCalls(r)' /\ thread'[s].msg.kind # "send"
  BY <1>3 DEF Calmer, Quiet
<1>. QED  BY <1>1, <1>2, <1>3 DEF Quiet

\* A step that pumps wherever there may be more to deliver than before it.
Pumping ==
  /\ pumps \subseteq pumps'
  /\ \A t \in Threads :
       /\ \/ thread'[t].wait = thread[t].wait /\ thread'[t].on = thread[t].on /\ thread'[t].msg = thread[t].msg
          \/ thread'[t].wait \notin {"send", "receive"}
          \/ thread'[t].on \in pumps'
       /\ thread'[t].wait = "receive" /\ thread'[t].on \notin pumps' => (TakesCalls(t)' => TakesCalls(t))
  /\ \A e \in Endpoints : e \in pumps' \/ exits[e] # <<>> \/ exits'[e] = <<>>
  /\ \A f \in Frames : call'[f].notice =>
       \/ call'[f].endpoint \in pumps'
       \/ call[f].notice /\ call'[f].endpoint = call[f].endpoint /\ call'[f].server = call[f].server

\* It leaves the rest swept.
LEMMA PumpingSweeps ==
  ASSUME TypeOK, Swept, Pumping
  PROVE  Swept'
<1>. SUFFICES ASSUME NEW e \in Endpoints, e \notin pumps'  PROVE Quiet(e)'
  BY DEF Swept
<1>1. Quiet(e)  BY DEF Swept, Pumping
<1>2. \A t \in Threads :
        /\ Recv(t, e)' => Recv(t, e) /\ (TakesCalls(t)' => TakesCalls(t))
        /\ Sends(t, e)' => Sends(t, e) /\ thread'[t].msg.kind = thread[t].msg.kind
  <2>. SUFFICES ASSUME NEW t \in Threads, thread'[t].wait \in {"send", "receive"}, thread'[t].on = e
                PROVE  /\ Recv(t, e)' => Recv(t, e) /\ (TakesCalls(t)' => TakesCalls(t))
                       /\ Sends(t, e)' => Sends(t, e) /\ thread'[t].msg.kind = thread[t].msg.kind
    BY DEF Recv, Sends
  <2>1. thread'[t].wait = thread[t].wait /\ thread'[t].on = thread[t].on /\ thread'[t].msg = thread[t].msg
    BY DEF Pumping
  <2>2. thread'[t].wait = "receive" => (TakesCalls(t)' => TakesCalls(t))  BY DEF Pumping
  <2>. QED  BY <2>1, <2>2 DEF Recv, Sends
<1>3. exits[e] = <<>> => exits'[e] = <<>>  BY DEF Pumping
<1>4. \A f \in Frames : call'[f].notice /\ call'[f].endpoint = e =>
        call[f].notice /\ call[f].endpoint = e /\ call'[f].server = call[f].server
  BY DEF Pumping
<1>5. Calmer(e)  BY <1>2, <1>3, <1>4 DEF Calmer
<1>. QED  BY <1>1, <1>5, CalmerStays

\* Quiet is what deliver_all ends with.
LEMMA QuietIs ==
  ASSUME IpcInv, NEW e \in Endpoints
  PROVE  Quiet(e) <=> /\ receivers[e] # <<>> => exits[e] = <<>>
                      /\ Owing(e) = {} /\ CanTake(e) = {}
<1>1. receivers[e] \in Seq(Threads) /\ RecvOk(e)  BY DEF IpcInv, TypeOK, Queues
<1>2. \A t : t \in Members(receivers[e]) <=> t \in Threads /\ Recv(t, e)
  <2>1. \A t : t \in Members(receivers[e]) <=> In(receivers[e], t)  BY DEF Members, In
  <2>2. \A t : In(receivers[e], t) => t \in Threads  BY <1>1 DEF In
  <2>. QED  BY <1>1, <2>1, <2>2 DEF RecvOk, Recv
<1>3. receivers[e] # <<>> <=> \E t \in Threads : Recv(t, e)
  <2>1. receivers[e] # <<>> => receivers[e][1] \in Members(receivers[e])  BY <1>1 DEF Members
  <2>2. receivers[e] = <<>> => Members(receivers[e]) = {}  BY DEF Members
  <2>. QED  BY <1>2, <2>1, <2>2
<1>4. Owing(e) = {} <=> \A f \in Frames : call[f].notice /\ call[f].endpoint = e => ~Recv(call[f].server, e)
  <2>1. \A f \in Frames : call[f].notice => call[f].server \in Threads
    <3>1. TypeOK  BY DEF IpcInv
    <3>. QED  BY <3>1, CallTypes
  <2>. QED  BY <1>2, <2>1 DEF Owing
<1>5. CanTake(e) = {} <=> \A r, s \in Threads : Recv(r, e) /\ Sends(s, e) =>
                                                ~TakesCalls(r) /\ thread[s].msg.kind # "send"
  <2>1. \A r, s \in Threads : s \in Waiting(e, TakesCalls(r)) <=>
                              Sends(s, e) /\ (TakesCalls(r) \/ thread[s].msg.kind = "send")
    BY DEF Waiting, Sends
  <2>2. \A r \in Threads : Waiting(e, TakesCalls(r)) \subseteq Threads  BY DEF Waiting
  <2>. QED  BY <1>2, <2>1, <2>2 DEF CanTake
<1>. QED  BY <1>3, <1>4, <1>5 DEF Quiet

\* Pumping, of a step that leaves exits, open calls and their counts alone.
LEMMA CalmPumping ==
  ASSUME pumps \subseteq pumps', UNCHANGED <<exits, call, opencalls>>,
         \A t \in Threads :
           \/ thread'[t].wait = thread[t].wait /\ thread'[t].on = thread[t].on /\ thread'[t].msg = thread[t].msg
           \/ thread'[t].wait \notin {"send", "receive"}
           \/ thread'[t].on \in pumps'
  PROVE  Pumping
<1>1. \A t \in Threads : TakesCalls(t)' => TakesCalls(t)  BY DEF TakesCalls
<1>. QED  BY <1>1 DEF Pumping

\* A message is queued, and its endpoint pumped.
LEMMA QueueSendSweeps ==
  ASSUME IpcInv, Swept, NEW t \in Threads, NEW kind \in {"call", "send"}, NEW h \in Handles,
         NEW buf \in SUBSET Pages, NEW due \in Deadlines, NEW then \in Turns, Running(t),
         QueueSend(t, kind, h, buf, due, then)
  PROVE  Swept'
<1>1. TypeOK /\ thread[t] \in Slots /\ pumps = {}  BY DEF IpcInv, TypeOK, Running, AtRest
<1>2. /\ thread' = [thread EXCEPT ![t] = Sending(thread[t], kind, h, buf, due, then)]
      /\ pumps' = {h.to} /\ UNCHANGED <<exits, call, opencalls>>
  BY DEF QueueSend
<1>3. thread'[t] = Sending(thread[t], kind, h, buf, due, then) /\ \A u \in Threads : u # t => thread'[u] = thread[u]
  BY <1>1, <1>2 DEF TypeOK
<1>4. thread'[t].on = h.to  BY <1>1, <1>3 DEF Sending, Slots
<1>5. Pumping  BY <1>1, <1>2, <1>3, <1>4, CalmPumping
<1>. QED  BY <1>1, <1>5, PumpingSweeps

\* receive: its endpoint is pumped.
LEMMA ReceiveSweeps ==
  ASSUME IpcInv, Swept, NEW t \in Threads, NEW e \in Endpoints, NEW due \in Deadlines, NEW max \in Maxes,
         Receive(t, e, due, max)
  PROVE  Swept'
<1>1. TypeOK /\ thread[t] \in Slots /\ pumps = {}  BY DEF IpcInv, TypeOK, Receive, Running, AtRest
<1>2. /\ thread' = [thread EXCEPT ![t] = Receiving(thread[t], e, due, max, NoTurn)]
      /\ pumps' = {e} /\ UNCHANGED <<exits, call, opencalls>>
  BY DEF Receive
<1>3. thread'[t] = Receiving(thread[t], e, due, max, NoTurn) /\ \A u \in Threads : u # t => thread'[u] = thread[u]
  BY <1>1, <1>2 DEF TypeOK
<1>4. thread'[t].on = e  BY <1>1, <1>3 DEF Receiving, Slots
<1>5. Pumping  BY <1>1, <1>2, <1>3, <1>4, CalmPumping
<1>. QED  BY <1>1, <1>5, PumpingSweeps

\* The receive half of a reply_receive.
LEMMA ReceiveHalfSweeps ==
  ASSUME IpcInv, Swept, ReceiveHalf
  PROVE  Swept'
<1>. DEFINE h == thread[entry].then
<1>1. TypeOK /\ pumps = {} /\ entry \in Threads /\ thread[entry] \in Slots
  BY DEF IpcInv, TypeOK, ReceiveHalf
<1>2. /\ thread' = [thread EXCEPT ![entry] =
                      Receiving(thread[entry], h.source, h.due, h.max, Half("replied", None, "never", 0))]
      /\ pumps' = {h.source} /\ UNCHANGED <<exits, call, opencalls>>
  BY DEF ReceiveHalf
<1>. HIDE DEF h
<1>3. PICK t \in Threads : t = entry  BY <1>1
<1>4. /\ thread'[t] = Receiving(thread[t], h.source, h.due, h.max, Half("replied", None, "never", 0))
      /\ \A u \in Threads : u # t => thread'[u] = thread[u]
  BY <1>1, <1>2, <1>3 DEF TypeOK
<1>5. thread'[t].on = h.source  BY <1>1, <1>3, <1>4 DEF Receiving, Slots
<1>6. Pumping  BY <1>1, <1>2, <1>4, <1>5, CalmPumping
<1>. QED  BY <1>1, <1>6, PumpingSweeps

\* Steps that leave waits, calls and notices as they are.
LEMMA CurrentSweeps ==
  ASSUME IpcInv, Swept, NEW t \in Threads, NEW c, thread' = [thread EXCEPT ![t].current = c],
         UNCHANGED <<exits, call, opencalls, pumps>>
  PROVE  Swept'
<1>1. TypeOK /\ thread \in [Threads -> Slots]  BY DEF IpcInv, TypeOK
<1>2. \A u \in Threads : thread'[u].wait = thread[u].wait /\ thread'[u].on = thread[u].on
                         /\ thread'[u].msg = thread[u].msg
  BY <1>1 DEF Slots
<1>3. Pumping  BY <1>2, CalmPumping
<1>. QED  BY <1>1, <1>3, PumpingSweeps

\* Steps that leave threads alone too.
LEMMA StillSweeps ==
  ASSUME IpcInv, Swept, UNCHANGED <<thread, exits, call, opencalls, pumps>>
  PROVE  Swept'
<1>1. TypeOK  BY DEF IpcInv
<1>3. Pumping  BY CalmPumping
<1>. QED  BY <1>1, <1>3, PumpingSweeps

\* An abandoned call's notice is taken.
LEMMA NoticeSweeps ==
  ASSUME IpcInv, Swept, NEW e \in Endpoints, Notice(e)
  PROVE  Swept'
<1>. DEFINE f == OwedNotice(e)
            r == call[f].server
<1>1. TypeOK /\ thread \in [Threads -> Slots]  BY DEF IpcInv, TypeOK
<1>2. /\ call' = call \/ call' = [call EXCEPT ![f].notice = FALSE]
      /\ thread' = [thread EXCEPT ![r] = Woken(@)]
      /\ UNCHANGED <<exits, opencalls, pumps>>
  BY DEF Notice
<1>. HIDE DEF f, r
<1>3. \A u \in Threads : thread'[u] = thread[u] \/ thread'[u].wait = "none"  BY <1>1, <1>2, WokenFacts
<1>4. \A x \in Frames : call'[x].notice =>
        call[x].notice /\ call'[x].endpoint = call[x].endpoint /\ call'[x].server = call[x].server
  <2>. SUFFICES ASSUME NEW x \in Frames, call'[x].notice, call'[x] # call[x]
                PROVE  FALSE
    OBVIOUS
  <2>1. call'[x] = [call[x] EXCEPT !.notice = FALSE]  BY <1>1, <1>2 DEF TypeOK
  <2>2. call[x] \in Calls \/ call[x] = NoCall  BY <1>1 DEF TypeOK
  <2>3. CASE call[x] \in Calls  BY <2>1, <2>3 DEF Calls
  <2>4. CASE call[x] = NoCall  BY <2>1, <2>4 DEF NoCall
  <2>. QED  BY <2>2, <2>3, <2>4
<1>5. \A t \in Threads : TakesCalls(t)' => TakesCalls(t)  BY <1>2 DEF TakesCalls
<1>6. Pumping  BY <1>2, <1>3, <1>4, <1>5 DEF Pumping
<1>. QED  BY <1>1, <1>6, PumpingSweeps

\* An exit notice is taken.
LEMMA ExitNoticeSweeps ==
  ASSUME IpcInv, Swept, NEW e \in Endpoints, e \in pumps, ExitNotice(e)
  PROVE  Swept'
<1>. DEFINE r == Head(receivers[e])
<1>1. TypeOK /\ thread \in [Threads -> Slots] /\ exits \in [Endpoints -> Seq(Pids)]  BY DEF IpcInv, TypeOK
<1>2. /\ exits' = exits \/ exits' = [exits EXCEPT ![e] = Tail(@)]
      /\ thread' = [thread EXCEPT ![r] = Woken(@)]
      /\ UNCHANGED <<call, opencalls, pumps>>
  BY DEF ExitNotice
<1>. HIDE DEF r
<1>3. \A u \in Threads : thread'[u] = thread[u] \/ thread'[u].wait = "none"  BY <1>1, <1>2, WokenFacts
<1>4. \A x \in Endpoints : x # e => exits'[x] = exits[x]  BY <1>1, <1>2
<1>5. \A t \in Threads : TakesCalls(t)' => TakesCalls(t)  BY <1>2 DEF TakesCalls
<1>6. Pumping  BY <1>2, <1>3, <1>4, <1>5 DEF Pumping
<1>. QED  BY <1>1, <1>6, PumpingSweeps

\* A send is delivered; where its turn's receive half begins is pumped.
LEMMA DeliverSendSweeps ==
  ASSUME IpcInv, Swept, NEW e \in Endpoints, DeliverSend(e)
  PROVE  Swept'
<1>. DEFINE R == Receiver(e)
            S == Sender(e)
<1>1. TypeOK /\ thread \in [Threads -> Slots]  BY DEF IpcInv, TypeOK
<1>2. /\ Messages(e) /\ thread' = [thread EXCEPT ![R] = Woken(@), ![S] = Sent(S)]
      /\ pumps' = pumps \cup ListsPump(S) /\ UNCHANGED <<exits, call, opencalls>>
  BY DEF DeliverSend
<1>3. R \in Threads /\ S \in Threads /\ thread[R].wait = "receive" /\ thread[S].wait = "send"  BY <1>2, Partners
<1>. HIDE DEF R, S
<1>4. thread'[R] = Woken(thread[R]) /\ thread'[S] = Sent(S)
      /\ \A u \in Threads : u # R /\ u # S => thread'[u] = thread[u]
  BY <1>1, <1>2, <1>3
<1>5. thread'[R].wait = "none"  BY <1>1, <1>3, <1>4, WokenFacts
<1>6. thread'[S].wait = "receive" <=> Continues(S)  BY <1>3, <1>4, SentFacts
<1>7. thread'[S].wait # "send"
  <2>1. Calm(Sent(S))  BY <1>3, SentFacts
  <2>. QED  BY <1>4, <2>1 DEF Calm
<1>8. Continues(S) => thread'[S].on \in ListsPump(S)
  <2>1. Continues(S) => Sent(S).on = thread[S].then.source /\ thread[S].then.source \in Endpoints
    BY <1>3, SentFacts
  <2>. QED  BY <1>4, <2>1 DEF ListsPump
<1>9. thread'[S].wait \notin {"send", "receive"} \/ thread'[S].on \in pumps'  BY <1>2, <1>6, <1>7, <1>8
<1>10. thread'[R].wait \notin {"send", "receive"}  BY <1>5
<1>11. \A u \in Threads : \/ thread'[u] = thread[u]
                          \/ thread'[u].wait \notin {"send", "receive"}
                          \/ thread'[u].on \in pumps'
  BY <1>4, <1>9, <1>10
<1>12. Pumping  BY <1>2, <1>11, CalmPumping
<1>. QED  BY <1>1, <1>12, PumpingSweeps

\* A call is delivered: its server may take fewer calls.
LEMMA DeliverCallSweeps ==
  ASSUME IpcInv, Swept, NEW e \in Endpoints, DeliverCall(e)
  PROVE  Swept'
<1>. DEFINE R == Receiver(e)
            S == Sender(e)
<1>1. TypeOK /\ thread \in [Threads -> Slots] /\ call \in [Frames -> Calls \cup {NoCall}]
      /\ opencalls \in [Pids -> 0 .. MaxOpenCalls]
  BY DEF IpcInv, TypeOK
<1>2. PICK f \in Frames :
        /\ call' = [call EXCEPT ![f] =
              [caller |-> S, server |-> R, endpoint |-> e, stamp |-> thread[S].msg.stamp,
               payer |-> Budget(R), lend |-> thread[S].msg.buf, waiting |-> TRUE, notice |-> FALSE]]
        /\ thread' = [thread EXCEPT ![R] = Serving(@, f), ![S] = Awaiting(@, f)]
  BY Zenon DEF DeliverCall
<1>3. Messages(e) /\ opencalls' = [opencalls EXCEPT ![Pid(R)] = @ + 1] /\ UNCHANGED <<exits, pumps>>
  BY Zenon DEF DeliverCall
<1>4. R \in Threads /\ S \in Threads  BY <1>3, Partners
<1>5. PICK r \in Threads, s \in Threads : r = R /\ s = S  BY <1>4
<1>. HIDE DEF R, S
<1>6. \A u \in Threads : thread'[u] = thread[u] \/ thread'[u].wait \in {"none", "reply"}
  <2>1. PICK a, b : a = Serving(thread[r], f) /\ b = Awaiting(thread[s], f)  OBVIOUS
  <2>2. a.wait = "none"  BY <1>1, <2>1, ServingFacts
  <2>3. b.wait = "reply"  BY <1>1, <2>1, AwaitingFacts
  <2>4. r # s  BY <1>3, <1>5, Partners DEF R, S
  <2>5. thread' = [thread EXCEPT ![r] = Serving(@, f), ![s] = Awaiting(@, f)]  BY <1>2, <1>5
  <2>6. thread'[r] = a /\ thread'[s] = b /\ \A u \in Threads : u # r /\ u # s => thread'[u] = thread[u]
    BY <1>1, <2>1, <2>4, <2>5
  <2>. QED  BY <2>2, <2>3, <2>6
<1>7. \A x \in Frames : x # f => call'[x] = call[x]  BY <1>1, <1>2
<1>8. ~call'[f].notice  BY <1>1, <1>2
<1>9. \A t \in Threads : TakesCalls(t)' => TakesCalls(t)
  <2>1. \A t \in Threads : Pid(t) \in Pids /\ opencalls[Pid(t)] \in Nat  BY <1>1, KindsAssumption DEF Pid
  <2>. QED  BY <1>1, <1>3, <1>5, <2>1, BoundsAssumption DEF TakesCalls
<1>10. Pumping  BY <1>3, <1>6, <1>7, <1>8, <1>9 DEF Pumping
<1>. QED  BY <1>1, <1>10, PumpingSweeps

\* Nothing more can be delivered on e.
LEMMA PumpedSweeps ==
  ASSUME IpcInv, Swept, NEW e \in Endpoints, Pumped(e)
  PROVE  Swept'
<1>1. TypeOK  BY DEF IpcInv
<1>2. /\ Owing(e) = {} /\ (exits[e] = <<>> \/ receivers[e] = <<>>) /\ CanTake(e) = {}
      /\ pumps' = pumps \ {e} /\ UNCHANGED <<thread, exits, call, opencalls>>
  BY DEF Pumped
<1>3. Quiet(e)  BY <1>2, QuietIs
<1>4. ASSUME NEW x \in Endpoints, x \notin pumps'  PROVE Quiet(x)'
  <2>1. Quiet(x)  BY <1>2, <1>3, <1>4 DEF Swept
  <2>2. Calmer(x)  BY <1>2 DEF Calmer, Recv, Sends, TakesCalls
  <2>. QED  BY <1>1, <2>1, <2>2, CalmerStays
<1>. QED  BY <1>4 DEF Swept

\* finish_reply: the receivers of the replier's process are poked.
LEMMA FinishReplySweeps ==
  ASSUME IpcInv, Swept, NEW t \in Threads, NEW f \in Frames, NEW then \in Turns, Running(t),
         FinishReply(t, f, then)
  PROVE  Swept'
<1>1. TypeOK /\ thread \in [Threads -> Slots] /\ call \in [Frames -> Calls \cup {NoCall}]
      /\ opencalls \in [Pids -> 0 .. MaxOpenCalls] /\ pumps = {}
  BY DEF IpcInv, TypeOK, Running, AtRest
<1>. DEFINE A == {x \in Threads : call[f].waiting /\ x = call[f].caller}
<1>2. /\ thread' = [x \in Threads |->
                      IF x = t THEN Replied(thread[t], f, then)
                      ELSE IF x \in A THEN Woken(thread[x]) ELSE thread[x]]
      /\ call' = [call EXCEPT ![f] = NoCall]
      /\ opencalls' = [opencalls EXCEPT ![Pid(t)] = @ - 1]
      /\ pumps' = Poked(Pid(t)) /\ UNCHANGED exits
  BY DEF FinishReply, Replied
<1>. HIDE DEF A
<1>3. Wait(t) = "none"  BY DEF Running
<1>4. \A u \in Threads : thread'[u] = thread[u] \/ thread'[u].wait = "none"
  <2>1. Replied(thread[t], f, then).wait = "none"  BY <1>1, <1>3, RepliedFacts DEF Wait
  <2>. QED  BY <1>1, <1>2, <2>1, WokenFacts
<1>5. \A x \in Frames : call'[x].notice => call'[x] = call[x]  BY <1>1, <1>2, Constants
<1>6. ASSUME NEW u \in Threads, thread'[u].wait = "receive", thread'[u].on \notin pumps', TakesCalls(u)'
      PROVE  TakesCalls(u)
  <2>1. thread'[u] = thread[u]  BY <1>4, <1>6
  <2>2. u \in alive  BY <1>6, <2>1 DEF IpcInv, Slotted, SlotOk
  <2>3. Pid(u) # Pid(t)  BY <1>2, <1>6, <2>1, <2>2 DEF Poked, Live, Wait, Pid
  <2>4. opencalls'[Pid(u)] = opencalls[Pid(u)]
    <3>1. Pid(u) \in Pids  BY KindsAssumption DEF Pid
    <3>. QED  BY <1>1, <1>2, <2>3, <3>1
  <2>. QED  BY <1>6, <2>4 DEF TakesCalls
<1>7. Pumping  BY <1>1, <1>2, <1>4, <1>5, <1>6 DEF Pumping
<1>. QED  BY <1>1, <1>7, PumpingSweeps

\* Waits fail and threads end: notices are pumped, and no process that can take more calls for it
\* has a receiver left.
LEMMA UnwindPumping ==
  ASSUME IpcState, NEW F, NEW K, NEW dead, NEW gone, NEW queues,
         LegalEnd(F, K, dead, gone), Unwind(F, K, dead, gone, queues),
         pumps \subseteq pumps', \A e \in NoticesFor(F, K) : e \in pumps' \/ e \in gone,
         \A e \in Endpoints : e \in pumps' \/ exits[e] # <<>> \/ exits'[e] = <<>>,
         \A f \in HeldBy(K) : \A t \in alive \ K : Pid(call[f].server) = Pid(t) => thread[t].wait # "receive"
  PROVE  Pumping
<1>1. TypeOK /\ gone \in SUBSET Endpoints /\ Slotted  BY DEF IpcState, LegalEnd
<1>2. \A t \in Threads : thread'[t] = thread[t] \/ thread'[t].wait = "none"
  BY <1>1, UnwindThreads, Constants
<1>3. ASSUME NEW t \in Threads, thread'[t].wait = "receive", TakesCalls(t)'  PROVE TakesCalls(t)
  <2>1. t \notin K /\ thread'[t] = thread[t]  BY <1>1, <1>2, <1>3, UnwindThreads, Constants
  <2>2. t \in alive \ K  BY <1>1, <1>3, <2>1 DEF Slotted, SlotOk
  <2>. DEFINE C == {f \in HeldBy(K) : Pid(call[f].server) = Pid(t)}
  <2>3. C = {}  BY <1>3, <2>1, <2>2
  <2>4. Pid(t) \in Pids /\ opencalls[Pid(t)] \in Nat  BY <1>1, KindsAssumption DEF Pid, TypeOK
  <2>5. opencalls'[Pid(t)] = opencalls[Pid(t)] - Cardinality(C)
    <3>1. Unwound(F, K, dead, gone, queues)  BY UnwindDef
    <3>2. opencalls' = [p \in Pids |-> opencalls[p] - Cardinality({f \in HeldBy(K) : Pid(call[f].server) = p})]
      BY <3>1, Zenon DEF Unwound
    <3>. QED  BY <2>4, <3>2
  <2>6. Cardinality(C) = 0  BY <2>3, FS_EmptySet
  <2>. HIDE DEF C
  <2>7. opencalls'[Pid(t)] = opencalls[Pid(t)]  BY <2>4, <2>5, <2>6
  <2>. QED  BY <1>3, <2>7 DEF TakesCalls
<1>4. ASSUME NEW f \in Frames, call'[f].notice, call'[f].endpoint \notin pumps'
      PROVE  call[f].notice /\ call'[f].endpoint = call[f].endpoint /\ call'[f].server = call[f].server
  <2>1. f \notin HeldBy(K)
    <3>1. TypeOK /\ gone \in SUBSET Endpoints /\ Unwind(F, K, dead, gone, queues) /\ f \in Frames  BY <1>1
    <3>2. ASSUME f \in HeldBy(K)  PROVE call'[f] = NoCall  BY <3>1, <3>2, UnwindCalls, SMTT(30)
    <3>3. NoCall.notice = FALSE  BY DEF NoCall
    <3>. QED  BY <1>4, <3>2, <3>3
  <2>2. /\ call'[f].endpoint = call[f].endpoint /\ call'[f].server = call[f].server
        /\ call[f].notice \/ f \in AbandonedBy(F, K)
        /\ call[f].endpoint \notin gone
    BY <1>1, <1>4, <2>1, UnwindCalls
  <2>3. f \in AbandonedBy(F, K) => call[f].endpoint \in NoticesFor(F, K)  BY DEF NoticesFor
  <2>. QED  BY <1>4, <2>2, <2>3
<1>5. \A t \in Threads :
        \/ thread'[t].wait = thread[t].wait /\ thread'[t].on = thread[t].on /\ thread'[t].msg = thread[t].msg
        \/ thread'[t].wait \notin {"send", "receive"}
  BY <1>2
<1>. QED  BY <1>3, <1>4, <1>5 DEF Pumping

\* One thread's wait fails.
LEMMA FailSweeps ==
  ASSUME IpcInv, Swept, NEW t \in alive, NEW queues, Unwind({t}, {}, {}, {}, queues), UNCHANGED exits,
         pumps \subseteq pumps', NoticesFor({t}, {}) \subseteq pumps'
  PROVE  Swept'
<1>1. IpcState /\ TypeOK  BY DEF IpcInv, IpcState
<1>2. LegalEnd({t}, {}, {}, {})  BY DEF LegalEnd
<1>3. HeldBy({}) = {}  BY DEF HeldBy
<1>4. Pumping  BY <1>1, <1>2, <1>3, UnwindPumping
<1>. QED  BY <1>1, <1>4, PumpingSweeps

\* A receiver fails, or a message is refused: nobody it wakes waits for a reply, so nothing is owed.
LEMMA NothingAbandoned ==
  ASSUME IpcInv, NEW t \in Threads, thread[t].wait # "reply"
  PROVE  NoticesFor({t}, {}) = {}
<1>1. ASSUME NEW f \in AbandonedBy({t}, {})  PROVE FALSE
  <2>1. f \in Frames /\ call[f].waiting /\ call[f].caller = t  BY DEF AbandonedBy
  <2>2. IsOpen(f) /\ CallOk(f)
    <3>1. TypeOK  BY DEF IpcInv
    <3>. QED  BY <2>1, <3>1, CallTypes DEF IpcInv, Called
  <2>. QED  BY <2>1, <2>2 DEF CallOk
<1>. QED  BY <1>1 DEF NoticesFor

\* deliver_all, a step at a time.
LEMMA PumpSweeps ==
  ASSUME IpcInv, Swept, NEW e \in Endpoints, Pump(e)
  PROVE  Swept'
<1>1. CASE Notice(e)  BY <1>1, NoticeSweeps
<1>2. CASE ExitNotice(e)  BY <1>2, ExitNoticeSweeps DEF Pump
<1>3. CASE BadRecord(e)
  <2>. DEFINE r == Receiver(e)
  <2>1. Messages(e) /\ Unwind({r}, {}, {}, {}, line) /\ UNCHANGED <<exits, pumps>>
    BY <1>3 DEF BadRecord, FailWait
  <2>2. r \in alive /\ r \in Threads /\ thread[r].wait = "receive"  BY <2>1, Partners
  <2>. HIDE DEF r
  <2>3. NoticesFor({r}, {}) = {}  BY <2>2, NothingAbandoned
  <2>. QED  BY <2>1, <2>2, <2>3, FailSweeps
<1>4. CASE Refuse(e)
  <2>. DEFINE s == Sender(e)
              queues == [line EXCEPT ![e] = Served(line[e], Group(s))]
  <2>1. Messages(e) /\ Unwind({s}, {}, {}, {}, queues) /\ UNCHANGED <<exits, pumps>>
    BY <1>4, SMT DEF Refuse
  <2>2. s \in alive /\ s \in Threads /\ thread[s].wait = "send"  BY <2>1, Partners
  <2>. HIDE DEF s, queues
  <2>3. NoticesFor({s}, {}) = {}  BY <2>2, NothingAbandoned
  <2>. QED  BY <2>1, <2>2, <2>3, FailSweeps
<1>5. CASE DeliverSend(e)  BY <1>5, DeliverSendSweeps
<1>6. CASE DeliverCall(e)  BY <1>6, DeliverCallSweeps
<1>7. CASE Pumped(e)  BY <1>7, PumpedSweeps
<1>. QED  BY <1>1, <1>2, <1>3, <1>4, <1>5, <1>6, <1>7 DEF Pump

\* settle.
LEMMA SettleSweeps ==
  ASSUME IpcInv, Swept, Settle
  PROVE  Swept'
<1>1. CASE Wait(entry) # "none" /\ thread[entry].due = "now"
  <2>1. /\ entry # None /\ pumps = {} /\ Unwind({entry}, {}, {}, {}, line) /\ UNCHANGED exits
        /\ pumps' = NoticesFor({entry}, {})
    BY <1>1 DEF Settle, FailWait
  <2>2. entry \in Threads  BY <2>1 DEF IpcInv, TypeOK
  <2>3. PICK t \in Threads : t = entry  BY <2>2
  <2>4. t \in alive  BY <1>1, <2>3 DEF IpcInv, Slotted, SlotOk, Wait
  <2>5. Unwind({t}, {}, {}, {}, line) /\ pumps' = NoticesFor({t}, {})  BY <2>1, <2>3
  <2>. QED  BY <2>1, <2>4, <2>5, FailSweeps
<1>2. CASE ~(Wait(entry) # "none" /\ thread[entry].due = "now")
  <2>1. UNCHANGED <<thread, exits, call, opencalls, pumps>>  BY <1>2 DEF Settle
  <2>. QED  BY <2>1, StillSweeps
<1>. QED  BY <1>1, <1>2

\* time_out.
LEMMA ExpireSweeps ==
  ASSUME IpcInv, Swept, NEW t \in Threads, Expire(t)
  PROVE  Swept'
<1>1. t \in alive /\ pumps = {} /\ Unwind({t}, {}, {}, {}, line) /\ UNCHANGED exits
      /\ pumps' = NoticesFor({t}, {})
  BY DEF Expire, FailWait, AtRest
<1>. QED  BY <1>1, FailSweeps

\* thread_exit, of a thread that holds no call.
LEMMA ThreadExitSweeps ==
  ASSUME IpcInv, Swept, NEW t \in Threads, ThreadExit(t), thread[t].held = <<>>
  PROVE  Swept'
<1>1. /\ pumps = {} /\ t \in alive /\ Unwind({}, {t}, {}, {}, line) /\ pumps' = NoticesFor({}, {t})
      /\ UNCHANGED exits
  BY DEF ThreadExit, Running, AtRest
<1>2. IpcState /\ TypeOK  BY DEF IpcInv, IpcState
<1>3. LegalEnd({}, {t}, {}, {})  BY <1>1 DEF LegalEnd
<1>4. HeldBy({t}) = {}
  <2>1. \A f \in Frames : ~In(thread[t].held, f)  BY DEF In
  <2>2. \A f \in Frames : call[f].server # t  BY <2>1 DEF IpcInv, Hands, HeldOk
  <2>. QED  BY <2>2 DEF HeldBy
<1>5. Pumping  BY <1>1, <1>2, <1>3, <1>4, UnwindPumping
<1>. QED  BY <1>2, <1>5, PumpingSweeps

\* A process exits or faults: none of its threads is left to receive.
LEMMA ProcessExitSweeps ==
  ASSUME IpcInv, Swept, NEW t \in Threads, ProcessExit(t)
  PROVE  Swept'
<1>. DEFINE p == Pid(t)
            K == Live(p)
<1>1. /\ pumps = {} /\ Unwind({}, K, {p}, {}, line) /\ pumps' = NoticesFor({}, K) \cup Reports(p)
      /\ exits' = [e \in Endpoints |-> IF e \in Reports(p) THEN Append(exits[e], p) ELSE exits[e]]
  BY DEF ProcessExit, Running, AtRest
<1>2. IpcState /\ TypeOK  BY DEF IpcInv, IpcState
<1>3. LegalEnd({}, K, {p}, {})
  <2>1. p \in Pids  BY KindsAssumption DEF Pid
  <2>. QED  BY <2>1 DEF LegalEnd, Live, Pid
<1>4. \A f \in HeldBy(K) : \A u \in alive \ K : Pid(call[f].server) # Pid(u)  BY DEF HeldBy, Live, Pid
<1>. HIDE DEF p, K
<1>5. \A e \in Endpoints : e \in pumps' \/ exits[e] # <<>> \/ exits'[e] = <<>>  BY <1>1
<1>6. Pumping  BY <1>1, <1>2, <1>3, <1>4, <1>5, UnwindPumping
<1>. QED  BY <1>2, <1>6, PumpingSweeps

\* destroy_subtree: the processes it ends are those of the threads it ends.
LEMMA DestroySweeps ==
  ASSUME IpcInv, Swept, NEW b \in Budgets, Destroy(b)
  PROVE  Swept'
<1>. DEFINE D == Subtree[b] \cap budgets
            dead == {p \in Pids : BudgetOf[p] \in D /\ Live(p) # {}}
            K == {t \in alive : Budget(t) \in D}
            gone == {e \in Endpoints : OwnerOf[e] \in D}
            F == Reached(D, K, gone)
<1>1. /\ pumps = {} /\ Unwind(F, K, dead, gone, line)
      /\ \E order \in Orders(dead) :
           exits' = [e \in Endpoints |->
                       IF e \in gone THEN <<>>
                       ELSE exits[e] \o Without(order, {p \in dead : e \notin Reports(p)})]
      /\ pumps' = (NoticesFor(F, K) \cup UNION {Reports(p) : p \in dead}) \ gone
  BY DEF Destroy, AtRest
<1>2. IpcState /\ TypeOK  BY DEF IpcInv, IpcState
<1>3. LegalEnd(F, K, dead, gone)
  <2>1. F \in SUBSET (alive \ K)  BY DEF Reached
  <2>2. \A t \in alive : Pid(t) \in dead => t \in K  BY DEF Pid, Budget
  <2>3. K \in SUBSET alive /\ dead \in SUBSET Pids /\ gone \in SUBSET Endpoints  OBVIOUS
  <2>. HIDE DEF F, K, dead, gone
  <2>. QED  BY <2>1, <2>2, <2>3 DEF LegalEnd
<1>4. \A f \in HeldBy(K) : \A u \in alive \ K : Pid(call[f].server) # Pid(u)  BY DEF HeldBy, Pid, Budget
<1>5. dead \in SUBSET Pids /\ \A p \in dead : Live(p) # {}  OBVIOUS
<1>. HIDE DEF D, dead, K, gone, F
<1>6. ASSUME NEW e \in Endpoints, e \notin pumps', exits[e] = <<>>  PROVE exits'[e] = <<>>
  <2>1. PICK order \in Orders(dead) :
          exits' = [x \in Endpoints |->
                      IF x \in gone THEN <<>>
                      ELSE exits[x] \o Without(order, {p \in dead : x \notin Reports(p)})]
    BY <1>1
  <2>. DEFINE S == {p \in dead : e \notin Reports(p)}
              w == Without(order, S)
  <2>2. exits'[e] = IF e \in gone THEN <<>> ELSE exits[e] \o w  BY <2>1
  <2>3. order \in Seq(dead)
    <3>1. Cardinality(dead) \in Nat  BY <1>2, <1>5, FiniteDead
    <3>2. order \in [1 .. Cardinality(dead) -> dead]  BY DEF Orders
    <3>. QED  BY <3>1, <3>2
  <2>4. e \notin gone => w = <<>>
    <3>. SUFFICES ASSUME e \notin gone, w # <<>>  PROVE FALSE
      OBVIOUS
    <3>1. S = dead  BY <1>1, <1>6
    <3>2. w \in Seq(dead) /\ \A x : In(w, x) => In(order, x) /\ x \notin S
      <4>. HIDE DEF S
      <4>. QED  BY <2>3, WithoutFacts
    <3>. HIDE DEF w
    <3>3. w[1] \in dead /\ In(w, w[1])  BY <3>2 DEF In
    <3>. QED  BY <3>1, <3>2, <3>3
  <2>. HIDE DEF w
  <2>. QED  BY <1>6, <2>2, <2>4
<1>7. \A e \in NoticesFor(F, K) : e \in pumps' \/ e \in gone  BY <1>1
<1>8. Pumping  BY <1>1, <1>2, <1>3, <1>4, <1>6, <1>7, UnwindPumping
<1>. QED  BY <1>2, <1>8, PumpingSweeps

\* Every step pumps what it makes deliverable, if threads that end hold no call.
LEMMA NextSweeps ==
  ASSUME IpcInv, Swept, [Next]_vars, [ExitsEmptyHanded]_vars
  PROVE  Swept'
<1>1. /\ Turners \subseteq Threads /\ Mappers \subseteq Threads /\ Exiting \subseteq Threads
      /\ Dying \subseteq Threads
  BY BoundsAssumption
<1>2. NoTurn \in Turns /\ \A e \in Endpoints, d \in Deadlines, m \in Maxes, k \in {"sending", "replying"} :
        Half(k, e, d, m) \in Turns
  BY BoundsAssumption, Constants DEF Turns, Half
<1>3. CASE UNCHANGED vars  BY <1>3, StillSweeps DEF vars
<1>4. CASE Kernel  BY <1>4, ReceiveHalfSweeps, SettleSweeps, PumpSweeps DEF Kernel
<1>5. CASE \E t \in Threads : Calling(t) \/ Expire(t)
  <2>1. PICK t \in Threads : Calling(t) \/ Expire(t)  BY <1>5
  <2>2. CASE \E h \in Handles, buf \in SUBSET Pages, due \in Deadlines :
               \E kind \in {"call", "send"} : Send(t, kind, h, buf, due)
    BY <1>2, <2>2, QueueSendSweeps DEF Send
  <2>3. CASE \E e \in Endpoints, due \in Deadlines, max \in Maxes : Receive(t, e, due, max)
    BY <2>3, ReceiveSweeps
  <2>4. CASE \E f \in Frames : Reply(t, f)  BY <1>2, <2>4, FinishReplySweeps DEF Reply
  <2>5. CASE \E f \in Frames : Serve(t, f)  BY <2>5, CurrentSweeps DEF Serve
  <2>6. CASE ReceiveRefused(t)  BY <2>6, CurrentSweeps DEF ReceiveRefused
  <2>7. CASE Expire(t)  BY <2>7, ExpireSweeps
  <2>. QED  BY <2>1, <2>2, <2>3, <2>4, <2>5, <2>6, <2>7 DEF Calling
<1>6. CASE \E t \in Turners : Turning(t)
  <2>1. PICK t \in Threads, e \in Endpoints, due \in Deadlines, max \in Maxes :
          \/ \E f \in Frames : ReplyReceive(t, f, e, due, max)
          \/ \E h \in Handles, buf \in SUBSET Pages, sdue \in Deadlines :
               SendReceive(t, h, buf, sdue, e, due, max)
    BY <1>1, <1>6 DEF Turning
  <2>2. Half("sending", e, due, max) \in Turns /\ Half("replying", e, due, max) \in Turns  BY <1>2
  <2>3. CASE \E f \in Frames : ReplyReceive(t, f, e, due, max)
    BY <2>2, <2>3, FinishReplySweeps DEF ReplyReceive
  <2>4. CASE \E h \in Handles, buf \in SUBSET Pages, sdue \in Deadlines :
               SendReceive(t, h, buf, sdue, e, due, max)
    BY <2>2, <2>4, QueueSendSweeps DEF SendReceive
  <2>. QED  BY <2>1, <2>3, <2>4
<1>7. CASE \E t \in Mappers : Mapping(t)  BY <1>7, StillSweeps DEF Mapping, MapPage, UnmapPage
<1>8. CASE Ending
  <2>1. CASE \E t \in Exiting : ThreadExit(t)
    <3>1. PICK t \in Exiting : ThreadExit(t)  BY <2>1
    <3>2. ExitsEmptyHanded => thread[t].held = <<>>  BY <3>1 DEF ExitsEmptyHanded
    <3>. QED  BY <1>1, <1>3, <3>1, <3>2, ThreadExitSweeps
  <2>. QED  BY <1>1, <1>8, <2>1, ProcessExitSweeps, DestroySweeps DEF Ending
<1>. QED  BY <1>3, <1>4, <1>5, <1>6, <1>7, <1>8 DEF Next

\* Nothing waits at the start.
LEMMA SweptAtStart == Init => Swept
<1>. SUFFICES ASSUME Init, NEW e \in Endpoints  PROVE Quiet(e)
  BY DEF Swept
<1>1. /\ \A t \in Threads : thread[t].wait = "none"
      /\ \A f \in Frames : call[f].notice = FALSE
  BY Constants DEF Init
<1>. QED  BY <1>1 DEF Quiet, Recv

\* Between entries there is nothing to pump.
LEMMA SweptStrandsNothing == IpcInv /\ Swept => NothingStranded
<1>. SUFFICES ASSUME IpcInv, Swept, AtRest, NEW e \in Endpoints
              PROVE  /\ receivers[e] # <<>> => exits[e] = <<>>
                     /\ Owing(e) = {} /\ CanTake(e) = {}
  BY DEF NothingStranded
<1>1. Quiet(e)  BY DEF Swept, AtRest
<1>. QED  BY <1>1, QuietIs

\* R4, R4a: if no thread ends by thread_exit while it holds open calls, nothing deliverable waits
\* between entries while a receiver waits for it.  So every handler pumps what it makes
\* deliverable, but thread_exit of a thread that holds calls (message.rs: thread_ending closes
\* them and pumps nothing, where a reply has poke_receivers).
THEOREM NothingElseStrands == Spec /\ [][ExitsEmptyHanded]_vars => []NothingStranded
<1>1. IpcInv /\ Swept /\ [Next]_vars /\ [ExitsEmptyHanded]_vars => Swept'  BY NextSweeps
<1>. QED  BY <1>1, Invariance, SweptAtStart, SweptStrandsNothing, PTL DEF Spec
=============================================================================
