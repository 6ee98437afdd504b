-------------------------- MODULE KernelLockProofs --------------------------
(***************************************************************************)
(* The kernel lock is safe for every number of harts and every ticket width *)
(* larger than it: mutual exclusion, the FIFO bound of R78 and no halt past *)
(* a hart's turn, from one inductive invariant.                             *)
(***************************************************************************)
EXTENDS KernelLock, Sequences, FiniteSetTheorems, TLAPS

\* The places between a hart's mark and its clearing.
Marked == {"reread", "halt", "ack", "clear"}

\* There are as many tickets out as harts that hold one.
Counted == Cardinality(Holding) = Dist(serving, next)

\* Every ticket held is between the one served and the next to draw.
InWindow == \A h \in Holding : Dist(serving, mine[h]) < Dist(serving, next)

\* No two harts hold one ticket.
Distinct == \A g, h \in Holding : mine[g] = mine[h] => g = h

\* The hart in the section holds the ticket served.
Served == \A h \in Harts : lk[h] = "in" => mine[h] = serving

\* A hart's mark is set exactly between its mark and its clear, beside its ticket.
Marks == \A h \in Harts :
           /\ h \in halted <=> lk[h] \in Marked
           /\ lk[h] \in Marked \cup {"mark"} => tickets[h] = mine[h]

LockInv == LockTypeOK /\ Counted /\ InWindow /\ Distinct /\ Served /\ Marks
           /\ NoHaltPastTurn

----------------------------------------------------------------------------
(* Arithmetic of wrapping tickets. *)

\* A ticket's distance is a ticket, 0 only from itself.
LEMMA DistType ==
  ASSUME NEW a \in Tickets, NEW b \in Tickets
  PROVE  Dist(a, b) \in Tickets /\ (Dist(a, b) = 0 <=> a = b)
BY WAssumption, NAssumption DEF Tickets, Dist

\* Incrementing a ticket gives a ticket.
LEMMA IncType ==
  ASSUME NEW a \in Tickets
  PROVE  Inc(a) \in Tickets /\ Inc(a) # a
BY WAssumption, NAssumption DEF Tickets, Inc

\* Drawing one more ticket is one step further from the ticket served.
LEMMA DistDraw ==
  ASSUME NEW a \in Tickets, NEW b \in Tickets, Dist(a, b) + 1 < W
  PROVE  Dist(a, Inc(b)) = Dist(a, b) + 1
BY WAssumption, NAssumption DEF Tickets, Inc, Dist

\* Serving one more ticket brings every other one step nearer.
LEMMA DistServe ==
  ASSUME NEW a \in Tickets, NEW b \in Tickets, a # b
  PROVE  Dist(Inc(a), b) = Dist(a, b) - 1
BY WAssumption, NAssumption DEF Tickets, Inc, Dist

\* A distance names one ticket.
LEMMA DistInjective ==
  ASSUME NEW a \in Tickets, NEW b \in Tickets, NEW c \in Tickets,
         Dist(a, b) = Dist(a, c)
  PROVE  b = c
BY WAssumption, NAssumption DEF Tickets, Dist

\* There are N harts.
LEMMA HartsFinite == IsFiniteSet(Harts) /\ Cardinality(Harts) = N
<1>1. 0 \in Int /\ N - 1 \in Int
  BY NAssumption
<1>2. IsFiniteSet(0 .. N - 1) /\ Cardinality(0 .. N - 1) = IF 0 > N - 1 THEN 0 ELSE (N - 1) - 0 + 1
  BY <1>1, FS_Interval
<1> QED BY <1>2, NAssumption DEF Harts

\* The harts holding a ticket are at most N, fewer if some hart holds none.
LEMMA HoldingBound ==
  /\ IsFiniteSet(Holding) /\ Cardinality(Holding) \in Nat /\ Cardinality(Holding) <= N
  /\ \A h \in Harts \ Holding : Cardinality(Holding) < N
<1>1. Holding \subseteq Harts
  BY DEF Holding
<1>2. IsFiniteSet(Holding) /\ Cardinality(Holding) <= N /\ Cardinality(Holding) \in Nat
  BY <1>1, HartsFinite, FS_Subset, FS_CardinalityType
<1>3. ASSUME NEW h \in Harts \ Holding PROVE Cardinality(Holding) < N
  <2>1. Holding # Harts
    BY <1>3
  <2>2. Cardinality(Holding) # Cardinality(Harts)
    BY <1>1, <2>1, HartsFinite, FS_Subset
  <2> QED BY <2>2, <1>2, HartsFinite, NAssumption
<1> QED BY <1>2, <1>3

----------------------------------------------------------------------------
\* LockInv holds at boot.
LEMMA LockInvInit == LockInit => LockInv
<1> SUFFICES ASSUME LockInit PROVE LockInv
  OBVIOUS
<1> USE NAssumption, WAssumption
<1>1. LockTypeOK
  BY DEF LockInit, LockTypeOK, Tickets, Harts, Places
<1>2. Holding = {}
  BY DEF LockInit, Holding, Waiting, Harts
<1>3. Counted
  BY <1>2, FS_EmptySet DEF Counted, LockInit, Dist
<1>4. InWindow /\ Distinct
  BY <1>2 DEF InWindow, Distinct
<1>5. Served /\ Marks /\ NoHaltPastTurn
  BY DEF LockInit, Served, Marks, NoHaltPastTurn, Marked
<1> QED BY <1>1, <1>3, <1>4, <1>5 DEF LockInv

\* Each step keeps the types of the lock's variables.
LEMMA TypeStep == LockTypeOK /\ LockNext => LockTypeOK'
<1> SUFFICES ASSUME LockTypeOK, LockNext PROVE LockTypeOK'
  OBVIOUS
<1>1. PICK h \in Harts : Draw(h) \/ Wait(h) \/ Release(h) \/ OtherIpi(h) \/ SectionAck(h)
  BY DEF LockNext
<1> USE DEF LockTypeOK, Places, Waiting, Releasing, Move
<1>2. CASE Draw(h)
  BY <1>2, IncType DEF Draw
<1>3. CASE Test(h) \/ Serve(h) \/ Record(h) \/ Mark(h) \/ Reread(h) \/ Halt(h) \/ Ack(h) \/ Clear(h)
  BY <1>3 DEF Test, Serve, Record, Mark, Reread, Halt, Ack, Clear
<1>4. CASE Advance(h)
  BY <1>4, IncType DEF Advance
<1>5. CASE LoadMarks(h)
  BY <1>5, NAssumption DEF LoadMarks
<1>6. CASE Scan(h)
  <2>1. 0 \in Tickets /\ 0 \in 0 .. N
    BY NAssumption, WAssumption DEF Tickets
  <2>2. scan[h] < N => scan[h] \in Harts /\ scan[h] + 1 \in 0 .. N
    BY NAssumption DEF Harts
  <2> QED BY <1>6, <2>1, <2>2 DEF Scan
<1>7. CASE OtherIpi(h) \/ SectionAck(h)
  BY <1>7 DEF OtherIpi, SectionAck
<1> QED BY <1>1, <1>2, <1>3, <1>4, <1>5, <1>6, <1>7 DEF Wait, Release

----------------------------------------------------------------------------
TicketInv == Counted /\ InWindow /\ Distinct /\ Served

\* A draw takes a ticket nobody holds, at the end of the window.
LEMMA DrawStep ==
  ASSUME LockTypeOK, TicketInv, NEW h \in Harts, Draw(h)
  PROVE  TicketInv'
<1> USE DEF LockTypeOK
<1>1. h \notin Holding /\ Holding' = Holding \cup {h}
  BY DEF Draw, Move, Holding, Waiting
<1>2. serving' = serving /\ next' = Inc(next) /\ mine' = [mine EXCEPT ![h] = next]
  BY DEF Draw
<1>3. Cardinality(Holding) \in Nat /\ Dist(serving, next) + 1 < W
  BY <1>1, HoldingBound, WAssumption, NAssumption DEF TicketInv, Counted
<1>4. Dist(serving, next') = Dist(serving, next) + 1
  BY <1>2, <1>3, DistDraw
<1>5. Counted'
  <2>1. Cardinality(Holding \cup {h}) = Cardinality(Holding) + 1
    BY <1>1, HoldingBound, FS_AddElement
  <2> QED BY <1>1, <1>2, <1>4, <2>1 DEF TicketInv, Counted
<1>6. Dist(serving, next) \in Int /\ \A g \in Holding : Dist(serving, mine[g]) \in Int
  BY DistType DEF Holding, Tickets
<1>7. InWindow'
  BY <1>1, <1>2, <1>4, <1>6 DEF TicketInv, InWindow, Holding
<1>8. \A g \in Holding : mine[g] # next
  BY <1>6 DEF TicketInv, InWindow
<1>9. Distinct'
  BY <1>1, <1>2, <1>8 DEF TicketInv, Distinct, Holding
<1>10. Served'
  BY <1>2 DEF TicketInv, Served, Draw, Move
<1> QED BY <1>5, <1>7, <1>9, <1>10 DEF TicketInv

\* An advance gives up the ticket served, and every other is one nearer.
LEMMA AdvanceStep ==
  ASSUME LockTypeOK, TicketInv, NEW h \in Harts, Advance(h)
  PROVE  TicketInv'
<1> USE DEF LockTypeOK
<1>1. h \in Holding /\ Holding' = Holding \ {h} /\ mine[h] = serving
  BY DEF Advance, Move, Holding, Waiting, TicketInv, Served
<1>2. serving' = Inc(serving) /\ next' = next /\ \A g \in Harts \ {h} : mine'[g] = mine[g]
  BY DEF Advance
<1>3. \A g \in Holding \ {h} : mine[g] \in Tickets /\ mine[g] # serving
  BY <1>1 DEF TicketInv, Distinct, Holding
<1>4. \A g \in Holding \ {h} : Dist(Inc(serving), mine[g]) = Dist(serving, mine[g]) - 1
  BY <1>3, DistServe
<1>5. serving # next
  BY <1>1, DistType DEF TicketInv, InWindow, Tickets
<1>6. Dist(Inc(serving), next) = Dist(serving, next) - 1
  BY <1>5, DistServe
<1>7. Counted'
  BY <1>1, <1>2, <1>6, HoldingBound, FS_RemoveElement DEF TicketInv, Counted
<1>8. Dist(serving, next) \in Int /\ \A g \in Holding : Dist(serving, mine[g]) \in Int
  BY DistType DEF Holding, Tickets
<1>9. InWindow'
  BY <1>1, <1>2, <1>4, <1>6, <1>8 DEF TicketInv, InWindow, Holding
<1>10. Distinct'
  BY <1>1, <1>2 DEF TicketInv, Distinct, Holding
<1>11. \A g \in Harts : lk'[g] # "in"
  <2>1. \A g \in Harts \ {h} : lk[g] # "in"
    BY <1>1, <1>3 DEF TicketInv, Served, Holding
  <2> QED BY <2>1 DEF Advance, Move
<1> QED BY <1>7, <1>9, <1>10, <1>11 DEF TicketInv, Served

\* Every other step moves no ticket.
LEMMA OtherStep ==
  ASSUME LockTypeOK, TicketInv, NEW h \in Harts,
         Wait(h) \/ LoadMarks(h) \/ Scan(h) \/ OtherIpi(h) \/ SectionAck(h)
  PROVE  TicketInv'
<1> USE DEF LockTypeOK
<1>1. /\ serving' = serving /\ next' = next /\ Holding' = Holding
      /\ \A g \in Holding : mine'[g] = mine[g]
  <2>1. CASE Wait(h)
    BY <2>1 DEF Wait, Test, Serve, Record, Mark, Reread, Halt, Ack, Clear, Move, Holding, Waiting
  <2>2. CASE LoadMarks(h) \/ Scan(h) \/ OtherIpi(h) \/ SectionAck(h)
    BY <2>2 DEF LoadMarks, Scan, OtherIpi, SectionAck, Move, Holding, Waiting
  <2> QED BY <2>1, <2>2
<1>2. Counted' /\ InWindow' /\ Distinct'
  BY <1>1 DEF TicketInv, Counted, InWindow, Distinct
<1>3. \A g \in Harts : lk'[g] = "in" => lk[g] = "in" \/ mine[g] = serving
  <2>1. CASE Wait(h)
    BY <2>1 DEF Wait, Test, Serve, Record, Mark, Reread, Halt, Ack, Clear, Move
  <2>2. CASE LoadMarks(h) \/ Scan(h) \/ OtherIpi(h) \/ SectionAck(h)
    BY <2>2 DEF LoadMarks, Scan, OtherIpi, SectionAck, Move
  <2> QED BY <2>1, <2>2
<1>4. Served'
  <2> SUFFICES ASSUME NEW g \in Harts, lk'[g] = "in" PROVE mine'[g] = serving'
    BY DEF Served
  <2>1. g \in Holding
    BY <1>1 DEF Holding
  <2> QED BY <1>1, <1>3, <2>1 DEF TicketInv, Served
<1> QED BY <1>2, <1>4 DEF TicketInv

\* Every step of the lock keeps the tickets' invariant.
LEMMA TicketStep == LockTypeOK /\ TicketInv /\ LockNext => TicketInv'
BY DrawStep, AdvanceStep, OtherStep DEF LockNext, Wait, Release

----------------------------------------------------------------------------
\* Marks are set and cleared where the code says, beside the ticket drawn.
LEMMA MarksStep == LockTypeOK /\ Marks /\ LockNext => Marks'
<1> SUFFICES ASSUME LockTypeOK, Marks, LockNext PROVE Marks'
  OBVIOUS
<1>1. PICK h \in Harts : Draw(h) \/ Wait(h) \/ Release(h) \/ OtherIpi(h) \/ SectionAck(h)
  BY DEF LockNext
<1> USE DEF LockTypeOK, Marks, Marked, Move
<1>2. CASE Draw(h)
  BY <1>2 DEF Draw
<1>3. CASE Test(h) \/ Serve(h) \/ Record(h) \/ Mark(h)
  BY <1>3 DEF Test, Serve, Record, Mark
<1>4. CASE Reread(h) \/ Halt(h) \/ Ack(h) \/ Clear(h)
  BY <1>4 DEF Reread, Halt, Ack, Clear
<1>5. CASE Advance(h) \/ LoadMarks(h)
  BY <1>5 DEF Advance, LoadMarks
<1>6. CASE Scan(h) \/ OtherIpi(h) \/ SectionAck(h)
  BY <1>6 DEF Scan, OtherIpi, SectionAck
<1> QED BY <1>1, <1>2, <1>3, <1>4, <1>5, <1>6 DEF Wait, Release

\* The release that will wake a halted hart stays on its way to it, and no step
\* halts a hart whose turn has come.
LEMMA WakeStep ==
  LockTypeOK /\ TicketInv /\ Marks /\ NoHaltPastTurn /\ LockNext => NoHaltPastTurn'
<1> SUFFICES ASSUME LockTypeOK, TicketInv, Marks, NoHaltPastTurn, LockNext,
                    NEW k \in Harts, lk'[k] = "halt", serving' = mine'[k], k \notin ipi'
             PROVE  \E g \in Harts : WillWake(g, serving, k)'
  BY DEF NoHaltPastTurn
<1>1. PICK h \in Harts : Draw(h) \/ Wait(h) \/ Release(h) \/ OtherIpi(h) \/ SectionAck(h)
  BY DEF LockNext
<1> USE DEF LockTypeOK, Move
\* What holds before any step that leaves `serving` alone.
<1>2. ASSUME serving' = serving, lk[k] = "halt", mine[k] = serving, k \notin ipi
      PROVE  \E g \in Harts : WillWake(g, serving, k)
  BY <1>2 DEF NoHaltPastTurn
<1>3. ASSUME NEW j \in Harts, j # k, lk[j] \in Marked \cup {"record"}, lk[k] = "halt", mine[k] = serving
      PROVE  mine[j] # serving
  BY <1>3 DEF TicketInv, Distinct, Holding, Waiting, Marked
<1>4. CASE Draw(h)
  BY <1>4, <1>2 DEF Draw, WillWake
<1>5. CASE Test(h) \/ Serve(h) \/ Mark(h) \/ Halt(h) \/ Ack(h) \/ Clear(h)
  BY <1>5, <1>2 DEF Test, Serve, Mark, Halt, Ack, Clear, WillWake
<1>6. CASE Reread(h)
  <2>1. k # h /\ lk[k] = "halt" /\ mine[k] = serving /\ k \notin ipi /\ serving' = serving
    BY <1>6 DEF Reread
  <2>2. PICK g \in Harts : WillWake(g, serving, k)
    BY <2>1, <1>2
  <2>3. g # h
    BY <1>6, <2>2 DEF Reread, WillWake
  <2> QED BY <1>6, <2>1, <2>2, <2>3 DEF Reread, WillWake
<1>7. CASE Record(h)
  <2>1. k # h /\ lk[k] = "halt" /\ mine[k] = serving /\ k \notin ipi /\ serving' = serving
    BY <1>7 DEF Record
  <2>2. PICK g \in Harts : WillWake(g, serving, k)
    BY <2>1, <1>2
  <2>3. mine[h] # serving
    BY <1>3, <1>7, <2>1 DEF Record
  <2> QED BY <1>7, <2>1, <2>2, <2>3 DEF Record, WillWake
<1>8. CASE Advance(h)
  BY <1>8 DEF Advance, WillWake
<1>9. CASE LoadMarks(h)
  <2>1. k # h /\ lk[k] = "halt" /\ mine[k] = serving /\ k \notin ipi /\ serving' = serving
    BY <1>9 DEF LoadMarks
  <2>2. PICK g \in Harts : WillWake(g, serving, k)
    BY <2>1, <1>2
  <2>3. CASE g # h
    BY <1>9, <2>1, <2>2, <2>3 DEF LoadMarks, WillWake
  <2>4. CASE g = h
    <3>1. k \in halted /\ 0 <= k
      BY <2>1, NAssumption DEF Marks, Marked, Harts
    <3>2. \A j \in halted : j # k => tickets[j] # serving
      BY <2>1, <1>3 DEF Marks
    <3>3. \A j \in halted : j < k => j # k
      BY NAssumption DEF Harts
    <3> QED BY <1>9, <2>1, <2>2, <2>4, <3>1, <3>2, <3>3 DEF LoadMarks, WillWake
  <2> QED BY <2>3, <2>4
<1>10. CASE Scan(h)
  <2>1. lk[k] = "halt" /\ k # h /\ mine[k] = serving /\ serving' = serving /\ k \notin ipi
    BY <1>10, ZenonT(60) DEF Scan
  <2>2. PICK g \in Harts : WillWake(g, serving, k)
    BY <2>1, <1>2
  <2>3. CASE g # h
    BY <1>10, <2>1, <2>2, <2>3 DEF Scan, WillWake
  <2>4. CASE g = h
    <3>1. mine[h] = serving /\ k \in seen[h] /\ scan[h] <= k
      BY <1>10, <2>2, <2>4 DEF Scan, WillWake
    <3>2. tickets[k] = serving
      BY <2>1 DEF Marks, Marked
    <3>3. scan[h] \in Nat /\ k \in Nat /\ k < N /\ N \in Nat
      BY NAssumption DEF Harts
    <3>4. scan[h] # k
      BY <1>10, <3>1, <3>2, <3>3 DEF Scan
    <3>5. ~(scan[h] \in seen[h] /\ tickets[scan[h]] = mine[h])
      BY <1>10, <2>2, <2>4, <3>1, <3>3, <3>4 DEF Scan, WillWake
    <3>6. scan' = [scan EXCEPT ![h] = scan[h] + 1] /\ UNCHANGED <<lk, seen, mine, tickets>>
      BY <1>10, <3>1, <3>3, <3>5 DEF Scan
    <3>7. scan[h] + 1 <= k /\ \A j \in Harts : scan[h] + 1 <= j => scan[h] <= j
      BY <3>1, <3>3, <3>4 DEF Harts
    <3>8. \A j \in seen[h] : scan[h] + 1 <= j /\ j < k => tickets[j] # serving
      BY <1>10, <2>2, <2>4, <3>7 DEF Scan, WillWake
    <3> QED BY <1>10, <2>1, <2>4, <3>1, <3>6, <3>7, <3>8 DEF Scan, WillWake
  <2> QED BY <2>3, <2>4
<1>11. CASE OtherIpi(h) \/ SectionAck(h)
  BY <1>11, <1>2 DEF OtherIpi, SectionAck, WillWake
<1> QED BY <1>1, <1>4, <1>5, <1>6, <1>7, <1>8, <1>9, <1>10, <1>11 DEF Wait, Release

----------------------------------------------------------------------------
(* The theorems. *)

\* LockInv is inductive: it holds at boot and every step of the lock keeps it.
THEOREM LockInvariant == LockSpec => []LockInv
<1>1. LockInv /\ [LockNext]_lockVars => LockInv'
  <2>1. ASSUME LockInv, LockNext PROVE LockInv'
    BY <2>1, TypeStep, TicketStep, MarksStep, WakeStep DEF LockInv, TicketInv
  <2>2. ASSUME LockInv, UNCHANGED lockVars PROVE LockInv'
    BY <2>2 DEF LockInv, lockVars, LockTypeOK, Counted, InWindow, Distinct, Served, Marks,
                NoHaltPastTurn, WillWake, Holding
  <2> QED BY <2>1, <2>2
<1> QED BY <1>1, LockInvInit, PTL DEF LockSpec

\* The lock's variables keep their types (cell.rs, libs/ticket): tickets stay
\* machine words, marks name harts.
THEOREM LockTypes == LockSpec => []LockTypeOK
BY LockInvariant, PTL DEF LockInv

\* No two harts are in a kernel section at once (cell.rs, TicketLock), for every
\* number of harts smaller than the number of tickets.
THEOREM LockMutex == LockSpec => []MutualExclusion
<1>1. LockInv => MutualExclusion
  BY DEF LockInv, Served, Distinct, MutualExclusion, Holding
<1> QED BY <1>1, LockInvariant, PTL

\* R78: a hart that drew waits behind fewer sections than there are harts
\* (the assertion of acquire_ticket).
THEOREM LockFifoBound == LockSpec => []FifoBound
<1>1. LockInv => FifoBound
  <2> SUFFICES ASSUME LockInv, NEW h \in Holding PROVE Dist(serving, mine[h]) < N
    BY DEF FifoBound
  <2>1. Dist(serving, mine[h]) < Dist(serving, next) /\ Dist(serving, next) <= N
    BY HoldingBound DEF LockInv, InWindow, Counted
  <2>2. Dist(serving, mine[h]) \in Int /\ Dist(serving, next) \in Int
    BY DistType DEF LockInv, LockTypeOK, Holding, Tickets
  <2> QED BY <2>1, <2>2, NAssumption
<1> QED BY <1>1, LockInvariant, PTL

\* No hart halts past its turn (cell.rs, release; redoubt-ticket): one halted with
\* its ticket served has its interrupt pending or on its way.
THEOREM LockNoHaltPastTurn == LockSpec => []NoHaltPastTurn
BY LockInvariant, PTL DEF LockInv

----------------------------------------------------------------------------
(* The lock implements FifoLock. *)

Inside == {h \in Harts : lk[h] = "in"}
FifoStep == [Fifo!Next]_<<Queue, Inside>>

\* Places in the line and tickets correspond.
LEMMA PlusDist ==
  ASSUME NEW a \in Tickets
  PROVE  /\ \A i \in 0 .. W - 1 : Plus(a, i) \in Tickets /\ Dist(a, Plus(a, i)) = i
         /\ \A b \in Tickets : Plus(a, Dist(a, b)) = b
BY WAssumption, NAssumption DEF Tickets, Dist, Plus

\* Every ticket from the one served to the next to draw is held: as many harts hold one
\* as there are, each its own.
LEMMA TicketsHeld ==
  ASSUME LockInv
  PROVE  \A i \in 0 .. Dist(serving, next) - 1 : \E h \in Holding : Dist(serving, mine[h]) = i
<1> DEFINE D == Dist(serving, next)
           T == 0 .. D - 1
           f == [h \in Holding |-> Dist(serving, mine[h])]
<1>1. D \in Nat /\ serving \in Tickets /\ \A h \in Holding : mine[h] \in Tickets
  BY DistType DEF LockInv, LockTypeOK, Holding, Tickets
<1>2. \A h \in Holding : Dist(serving, mine[h]) \in T
  <2>1. \A h \in Holding : Dist(serving, mine[h]) \in Nat
    <3>1. \A h \in Holding : Dist(serving, mine[h]) \in Tickets
      BY <1>1, DistType, ZenonT(60)
    <3>2. \A x \in Tickets : x \in Nat
      BY WAssumption DEF Tickets
    <3> QED BY <3>1, <3>2
  <2> QED BY <1>1, <2>1 DEF LockInv, InWindow
<1>3. \A g, h \in Holding : Dist(serving, mine[g]) = Dist(serving, mine[h]) => g = h
  BY <1>1, DistInjective DEF LockInv, Distinct
<1>4. f \in Injection(Holding, T)
  BY <1>2, <1>3 DEF Injection, IsInjective
<1>5. IsFiniteSet(T) /\ Cardinality(T) = D
  <2>1. 0 \in Int /\ D - 1 \in Int /\ (IF 0 > D - 1 THEN 0 ELSE (D - 1) - 0 + 1) = D
    BY <1>1
  <2> QED BY <2>1, FS_Interval, ZenonT(60)
<1>6. Cardinality(Holding) = D
  BY DEF LockInv, Counted
<1> HIDE DEF f, T, D
<1>7. f \in Surjection(Holding, T)
  BY <1>4, <1>5, <1>6, FS_Injection
<1>8. \A i \in T : \E h \in Holding : f[h] = i
  BY <1>7 DEF Surjection
<1> QED BY <1>8 DEF T, D, f

\* The line: at each place the hart that holds its ticket.
InLine ==
  /\ Dist(serving, next) \in Nat /\ Queue \in Seq(Harts) /\ Len(Queue) = Dist(serving, next)
  /\ \A i \in 1 .. Len(Queue) : Queue[i] \in Holding /\ mine[Queue[i]] = Plus(serving, i - 1)
  /\ \A h \in Holding : Dist(serving, mine[h]) + 1 \in 1 .. Len(Queue)
                        /\ Queue[Dist(serving, mine[h]) + 1] = h

\* The mapped queue is that line.
LEMMA QueueFacts == LockInv => InLine
<1> SUFFICES ASSUME LockInv PROVE InLine
  OBVIOUS
<1> DEFINE D == Dist(serving, next)
<1>1. D \in Nat /\ D < W /\ serving \in Tickets /\ \A h \in Holding : mine[h] \in Tickets
  BY DistType, WAssumption DEF LockInv, LockTypeOK, Holding, Tickets
<1>2. \A h \in Holding : Dist(serving, mine[h]) \in 0 .. D - 1
  <2>1. \A h \in Holding : Dist(serving, mine[h]) \in Nat
    <3>1. \A h \in Holding : Dist(serving, mine[h]) \in Tickets
      BY <1>1, DistType, ZenonT(60)
    <3>2. \A x \in Tickets : x \in Nat
      BY WAssumption DEF Tickets
    <3> QED BY <3>1, <3>2
  <2> QED BY <1>1, <2>1 DEF LockInv, InWindow
<1>3. ASSUME NEW i \in 1 .. D
      PROVE  LET q == CHOOSE h \in Holding : mine[h] = Plus(serving, i - 1)
             IN  q \in Holding /\ mine[q] = Plus(serving, i - 1)
  <2>1. i - 1 \in 0 .. D - 1
    BY <1>1
  <2>2. PICK h \in Holding : Dist(serving, mine[h]) = i - 1
    BY <2>1, TicketsHeld
  <2>3. mine[h] = Plus(serving, i - 1)
    BY <1>1, <2>2, PlusDist
  <2> QED BY <2>3
<1>4. Queue \in Seq(Harts) /\ Len(Queue) = D
  <2>1. Queue = [i \in 1 .. D |-> CHOOSE h \in Holding : mine[h] = Plus(serving, i - 1)]
    BY DEF Queue
  <2>2. \A i \in 1 .. D : (CHOOSE h \in Holding : mine[h] = Plus(serving, i - 1)) \in Harts
    BY <1>3 DEF Holding
  <2> QED BY <1>1, <2>1, <2>2
<1>5. \A i \in 1 .. D : Queue[i] \in Holding /\ mine[Queue[i]] = Plus(serving, i - 1)
  BY <1>3 DEF Queue
<1>6. ASSUME NEW h \in Holding
      PROVE  Dist(serving, mine[h]) + 1 \in 1 .. D /\ Queue[Dist(serving, mine[h]) + 1] = h
  <2> DEFINE i == Dist(serving, mine[h]) + 1
  <2>1. i \in 1 .. D /\ i - 1 = Dist(serving, mine[h])
    BY <1>1, <1>2
  <2>2. Plus(serving, i - 1) = mine[h]
    BY <1>1, <2>1, PlusDist
  <2>3. Queue[i] \in Holding /\ mine[Queue[i]] = mine[h]
    BY <1>5, <2>1, <2>2
  <2> QED BY <2>1, <2>3 DEF LockInv, Distinct
<1> QED BY <1>1, <1>4, <1>5, <1>6 DEF InLine

\* The same after a step.
LEMMA QueueFactsNext == LockInv' => InLine'
BY QueueFacts, PTL

\* A draw comes last in the line.
LEMMA DrawComes ==
  ASSUME LockInv, LockInv', NEW h \in Harts, Draw(h)
  PROVE  FifoStep
<1>1. h \notin Holding /\ Holding' = Holding \cup {h} /\ Inside' = Inside
  BY DEF Draw, Move, Holding, Waiting, Inside, LockInv, LockTypeOK
<1>2. serving' = serving /\ next' = Inc(next) /\ mine'[h] = next /\ \A g \in Holding : mine'[g] = mine[g]
  BY <1>1 DEF Draw, LockInv, LockTypeOK, Holding
<1>3. Dist(serving, next') = Dist(serving, next) + 1
  <2>1. Cardinality(Holding) \in Nat /\ Dist(serving, next) + 1 < W
    BY <1>1, HoldingBound, WAssumption, NAssumption DEF LockInv, Counted
  <2> QED BY <1>2, <2>1, DistDraw DEF LockInv, LockTypeOK
<1>4. Queue' \in Seq(Harts) /\ Len(Queue') = Dist(serving, next) + 1
  BY <1>2, <1>3, QueueFactsNext DEF InLine
<1>5. Queue \in Seq(Harts) /\ Len(Queue) = Dist(serving, next) /\ Len(Queue) \in Nat
  BY QueueFacts DEF InLine
<1>6. \A i \in 1 .. Len(Queue) : Queue'[i] = Queue[i]
  <2> SUFFICES ASSUME NEW i \in 1 .. Len(Queue) PROVE Queue'[i] = Queue[i]
    OBVIOUS
  <2>1. Queue[i] \in Holding /\ mine[Queue[i]] = Plus(serving, i - 1)
    BY QueueFacts DEF InLine
  <2>2. i \in 1 .. Len(Queue')
    BY <1>4, <1>5
  <2>3. Queue'[i] \in Holding' /\ mine'[Queue'[i]] = Plus(serving', i - 1)
    BY <2>2, QueueFactsNext DEF InLine
  <2>4. mine'[Queue[i]] = mine'[Queue'[i]] /\ Queue[i] \in Holding'
    BY <1>1, <1>2, <2>1, <2>3
  <2> QED BY <2>3, <2>4 DEF LockInv, Distinct
<1>7. Queue'[Len(Queue) + 1] = h
  <2>1. Queue'[Dist(serving', mine'[h]) + 1] = h
    BY <1>1, QueueFactsNext DEF InLine
  <2> QED BY <1>2, <1>5, <2>1
<1>8. Queue' = Append(Queue, h)
  BY <1>4, <1>5, <1>6, <1>7
<1>9. \A i \in 1 .. Len(Queue) : Queue[i] # h
  BY <1>1, QueueFacts DEF InLine
<1> QED BY <1>1, <1>8, <1>9 DEF FifoStep, Fifo!Next, Fifo!Come, Fifo!Queued, Inside

\* The hart that finds its ticket served is the first in the line, and alone.
LEMMA FirstServed ==
  ASSUME LockInv, NEW h \in Holding, mine[h] = serving
  PROVE  Queue # <<>> /\ Head(Queue) = h /\ \A g \in Harts : lk[g] = "in" => g = h
<1>1. Dist(serving, mine[h]) = 0
  BY DistType DEF LockInv, LockTypeOK
<1>2. 1 \in 1 .. Len(Queue) /\ Queue[1] = h /\ Queue \in Seq(Harts)
  BY <1>1, QueueFacts DEF InLine
<1>3. \A g \in Harts : lk[g] = "in" => g = h
  BY DEF LockInv, Served, Distinct, Holding
<1> QED BY <1>2, <1>3

\* An advance leaves, and the line moves up.
LEMMA AdvanceLeaves ==
  ASSUME LockInv, LockInv', NEW h \in Harts, Advance(h)
  PROVE  FifoStep
<1>1. h \in Holding /\ Holding' = Holding \ {h} /\ mine[h] = serving /\ lk[h] = "in"
  BY DEF Advance, Move, Holding, Waiting, LockInv, LockTypeOK, Served
<1>2. serving' = Inc(serving) /\ next' = next /\ \A g \in Holding \ {h} : mine'[g] = mine[g]
  BY DEF Advance, LockInv, LockTypeOK, Holding
<1>3. Queue # <<>> /\ Head(Queue) = h /\ \A g \in Harts : lk[g] = "in" => g = h
  BY <1>1, FirstServed
<1>4. Inside = {h} /\ Inside' = {}
  BY <1>1, <1>3 DEF Inside, Advance, Move, LockInv, LockTypeOK
<1>5. Queue \in Seq(Harts) /\ Len(Queue) = Dist(serving, next) /\ Len(Queue) \in Nat
  BY QueueFacts DEF InLine
<1>6. serving \in Tickets /\ next \in Tickets /\ serving # next
  <2>1. Len(Queue) # 0
    BY <1>3, <1>5
  <2> QED BY <1>5, <2>1, DistType DEF LockInv, LockTypeOK
<1>7. Queue' \in Seq(Harts) /\ Len(Queue') = Len(Queue) - 1
  BY <1>2, <1>5, <1>6, DistServe, QueueFactsNext DEF InLine
<1>8. \A i \in 1 .. Len(Queue) - 1 : Queue'[i] = Queue[i + 1]
  <2> SUFFICES ASSUME NEW i \in 1 .. Len(Queue) - 1 PROVE Queue'[i] = Queue[i + 1]
    OBVIOUS
  <2>1. i + 1 \in 1 .. Len(Queue) /\ i \in 1 .. Len(Queue') /\ (i + 1) - 1 = i
    BY <1>5, <1>7
  <2>2. Queue[i + 1] \in Holding /\ mine[Queue[i + 1]] = Plus(serving, i)
    BY <2>1, QueueFacts DEF InLine
  <2>3. Queue'[i] \in Holding' /\ mine'[Queue'[i]] = Plus(serving', i - 1)
    BY <2>1, QueueFactsNext DEF InLine
  <2>4. i < W /\ i \in Nat
    BY <1>5, <1>6, DistType, WAssumption, NAssumption DEF Tickets
  <2>5. Plus(serving, i) # serving /\ Plus(Inc(serving), i - 1) = Plus(serving, i)
    BY <1>6, <2>1, <2>4, WAssumption, NAssumption DEF Plus, Inc, Tickets
  <2>6. Queue[i + 1] \in Holding \ {h}
    BY <1>1, <2>2, <2>5
  <2>7. mine'[Queue[i + 1]] = mine'[Queue'[i]] /\ Queue[i + 1] \in Holding'
    BY <1>1, <1>2, <2>2, <2>3, <2>5, <2>6
  <2> QED BY <2>3, <2>7 DEF LockInv, Distinct
<1>9. Queue' = Tail(Queue)
  BY <1>3, <1>5, <1>7, <1>8
<1> QED BY <1>3, <1>4, <1>9 DEF FifoStep, Fifo!Next, Fifo!Leave, Inside

\* A step that neither draws nor advances leaves the line as it is; the one that finds
\* its ticket served enters.
LEMMA OthersKeepLine ==
  ASSUME LockInv, LockInv', NEW h \in Harts,
         Wait(h) \/ LoadMarks(h) \/ Scan(h) \/ OtherIpi(h) \/ SectionAck(h)
  PROVE  FifoStep
<1> USE DEF LockInv, LockTypeOK, Move
<1>1. /\ serving' = serving /\ next' = next /\ Holding' = Holding
      /\ \A g \in Holding : mine'[g] = mine[g]
  <2>1. CASE Wait(h)
    BY <2>1 DEF Wait, Test, Serve, Record, Mark, Reread, Halt, Ack, Clear, Holding, Waiting
  <2>2. CASE LoadMarks(h) \/ Scan(h) \/ OtherIpi(h) \/ SectionAck(h)
    BY <2>2 DEF LoadMarks, Scan, OtherIpi, SectionAck, Holding, Waiting
  <2> QED BY <2>1, <2>2
<1>2. Queue' = Queue
  <2>1. Queue \in Seq(Harts) /\ Queue' \in Seq(Harts) /\ Len(Queue') = Len(Queue)
    BY <1>1, QueueFacts, QueueFactsNext DEF InLine
  <2>2. ASSUME NEW i \in 1 .. Len(Queue) PROVE Queue'[i] = Queue[i]
    <3>1. Queue[i] \in Holding /\ mine[Queue[i]] = Plus(serving, i - 1)
      BY QueueFacts DEF InLine
    <3>2. Queue'[i] \in Holding' /\ mine'[Queue'[i]] = Plus(serving', i - 1)
      BY <2>1, QueueFactsNext DEF InLine
    <3> QED BY <1>1, <3>1, <3>2 DEF Distinct
  <2>3. Queue = [i \in 1 .. Len(Queue) |-> Queue[i]] /\ Queue' = [i \in 1 .. Len(Queue') |-> Queue'[i]]
    BY <2>1
  <2> HIDE DEF LockInv, LockTypeOK, Move
  <2> QED BY <2>1, <2>2, <2>3
<1>3. CASE Test(h) /\ serving = mine[h]
  <2>1. h \in Holding /\ lk[h] # "in" /\ lk' = [lk EXCEPT ![h] = "in"]
    BY <1>3 DEF Test, Holding, Waiting
  <2>2. Queue # <<>> /\ Head(Queue) = h /\ \A g \in Harts : lk[g] = "in" => g = h
    BY <1>3, <2>1, FirstServed
  <2>3. Inside = {} /\ Inside' = {h}
    BY <2>1, <2>2 DEF Inside
  <2> QED BY <1>2, <2>2, <2>3 DEF FifoStep, Fifo!Next, Fifo!Enter, Inside
<1>4. CASE ~(Test(h) /\ serving = mine[h])
  <2>1. Inside' = Inside
    <3>1. CASE Wait(h)
      BY <1>4, <3>1 DEF Wait, Test, Serve, Record, Mark, Reread, Halt, Ack, Clear, Inside
    <3>2. CASE LoadMarks(h) \/ Scan(h) \/ OtherIpi(h) \/ SectionAck(h)
      BY <3>2 DEF LoadMarks, Scan, OtherIpi, SectionAck, Inside
    <3> QED BY <3>1, <3>2
  <2> QED BY <1>2, <2>1 DEF FifoStep
<1> QED BY <1>3, <1>4

\* The ticket lock is a first-come first-served lock (cell.rs; R78), for every number of
\* harts and every ticket width above it: its harts are served one at a time in the order
\* they drew, whatever wraps, waits, halts or is woken.  (That everyone is served is
\* liveness.)
THEOREM LockImplementsFifo == LockSpec => Fifo!Safety
<1>1. LockInit => Fifo!Init
  <2> SUFFICES ASSUME LockInit PROVE Fifo!Init
    OBVIOUS
  <2>1. Queue \in Seq(Harts) /\ Len(Queue) = 0
    BY LockInvInit, QueueFacts DEF InLine, LockInit, Dist
  <2>2. Inside = {}
    BY DEF Inside, LockInit
  <2> QED BY <2>1, <2>2 DEF Fifo!Init, Inside
<1>2. LockInv /\ LockInv' /\ [LockNext]_lockVars => [Fifo!Next]_<<Queue, {h \in Harts : lk[h] = "in"}>>
  <2>1. ASSUME LockInv, LockInv', LockNext PROVE FifoStep
    BY <2>1, DrawComes, AdvanceLeaves, OthersKeepLine DEF LockNext, Release
  <2>2. ASSUME UNCHANGED lockVars PROVE FifoStep
    BY <2>2 DEF lockVars, FifoStep, Queue, Inside, Holding
  <2> QED BY <2>1, <2>2 DEF FifoStep, Inside
<1> QED BY <1>1, <1>2, LockInvariant, PTL DEF LockSpec, Fifo!Safety, Fifo!vars
=============================================================================
