---------------------------- MODULE HartsProofs ----------------------------
(***************************************************************************)
(* The harts are safe for every number of harts, processes and frames: a    *)
(* shootdown leaves no hart with an old translation, no hart reaches a free *)
(* frame, none runs a destroyed process, and no interrupt or wake is lost.  *)
(*                                                                          *)
(* The inductive invariant has five parts: the lock's line (Line), what a   *)
(* hart runs (Spaces, Checked, Alive), the shootdown under way (Asking,     *)
(* Asks, Left), the translations (Owes, Exact, Mapped) and the interrupts. *)
(***************************************************************************)
EXTENDS Harts, FiniteSetTheorems, SequenceTheorems, TLAPS

----------------------------------------------------------------------------
(* The invariant. *)

\* A hart has at most one ticket; one that tests or halts has one, one away has
\* none, and the one in its section has the first.
Line ==
  /\ \A i, j \in 1 .. Len(queue) : queue[i] = queue[j] => i = j
  /\ \A h \in Harts :
       /\ pc[h] \in {"test", "halt"} => Queued(h)
       /\ pc[h] \in Away => ~Queued(h)
       /\ pc[h] \in InSection => queue # <<>> /\ Head(queue) = h

\* A hart is in the space of the process it runs, or in the kernel's if it left.
Spaces == \A h \in Harts : satp[h] = IF left[h] = pid[h] THEN None ELSE pid[h]

\* A hart past shot_down's check has not left its process, nor has one in user
\* mode, which has one.
Checked ==
  \A h \in Harts :
    /\ pc[h] \in {"kernel", "resume", "kmain"} \cup Shooting => pid[h] = None \/ left[h] # pid[h]
    /\ pc[h] = "user" => pid[h] # None /\ left[h] # pid[h]
    /\ pc[h] = "kmain" => pid[h] = None

\* What a hart runs, not having left it, exists, and so does what has a thread.
Alive ==
  /\ \A h \in Harts : pid[h] # None /\ left[h] # pid[h] => pid[h] \in live /\ h \notin gone
  /\ \A p \in Pids : ready[p] > 0 => p \in live

\* The bound on a process's threads.
Bounded == \A p \in Pids : Threads(p) <= MaxThreads

\* The hart that shoots has a job: it asks harts that run the process, and every
\* other hart that runs it has left it, or is asked or about to be.
Asking ==
  \A h \in Harts :
    /\ pc[h] \in Shooting <=> job[h] # NoJob
    /\ pc[h] \in Shooting =>
         /\ shooter = h
         /\ job[h].ask \cap job[h].asked = {}
         /\ \A g \in job[h].ask \cup job[h].asked : g # h /\ pid[g] = job[h].pid
         /\ \A g \in job[h].ask : left[g] # pid[g]
         /\ \A g \in Harts \ {h} :
              pid[g] = job[h].pid => g \in job[h].ask \cup job[h].asked \/ left[g] = pid[g]
    /\ pc[h] \in {"acks", "ackhalt"} => job[h].ask = {} /\ job[h].send = None

\* A word is the job's, and a hart that flushed still has its word.
Asks ==
  /\ \A g \in Harts : shoot[g] # NoWord =>
       \E h \in Harts : /\ pc[h] \in Shooting /\ g \in job[h].asked
                        /\ shoot[g] = [asid |-> job[h].pid, leave |-> job[h].why \in {"exit", "kill"}]
  /\ \A g \in Harts : pc[g] = "served" => shoot[g] # NoWord

\* A hart asked to leave has left once it flushed.
Left ==
  \A h \in Harts : pc[h] \in Shooting /\ job[h].why \in {"exit", "kill"} =>
    \A g \in job[h].asked : shoot[g] = NoWord \/ pc[g] = "served" => left[g] = pid[g]

\* A cached translation is its table's, or the hart owes its ASID a flush.
Owes ==
  \A h \in Harts, p \in Pids, f \in Frames : <<p, f>> \in tlb[h] => page[p] = f \/ h \in stale[p]

\* Hart h has still to flush p for the shootdown under way.
ToFlush(h, p) ==
  \E g \in Harts :
    /\ pc[g] \in Shooting /\ job[g].pid = p
    /\ h \in job[g].ask \/ (h \in job[g].asked /\ shoot[h] # NoWord /\ pc[h] # "served")

\* A cached translation of the space a hart is in is its table's, unless the hart
\* has still to flush, and its frame is not free.
Exact ==
  \A h \in Harts, f \in Frames : satp[h] # None /\ <<satp[h], f>> \in tlb[h] =>
    /\ page[satp[h]] = f \/ ToFlush(h, satp[h])
    /\ owner[f] # "free"

\* A frame that a table names is its process's.
Mapped == \A p \in Pids : page[p] # None => owner[page[p]] = p

\* Of NoLostInterrupt: a hart halted for the lock, without its interrupt, is not served.
HaltTold == \A h \in Harts \ ipi : pc[h] = "halt" => Head(queue) # h

\* A hart asked, without its interrupt, is about to get it, also as it is about to tell.
AskTold ==
  \A h \in Harts \ ipi : pc[h] \in Away \cup {"halt", "tell"} /\ shoot[h] # NoWord =>
    \E g \in Harts : job[g].send = h

\* A hart halted for acknowledgements, without its interrupt, lacks one or is about to be told.
AckTold ==
  \A h \in Harts \ ipi : pc[h] = "ackhalt" => Unacked(h) # {} \/ \E g \in Harts : pc[g] = "tell"

\* An idle hart is marked or has its interrupt; a mark stays until the section.
Marks ==
  \A h \in Harts :
    /\ pc[h] = "idle" => h \in idle \cup ipi
    /\ h \in idle => pc[h] \notin {"user", "kernel", "resume", "kmain"} \cup Shooting

RunInv  == Spaces /\ Checked /\ Alive /\ Bounded
ShotInv == Asking /\ Asks /\ Left
PageInv == Owes /\ Exact /\ Mapped
WakeInv == HaltTold /\ AskTold /\ AckTold /\ Marks /\ NoLostWork
HartsInv == TypeOK /\ Line /\ RunInv /\ ShotInv /\ PageInv /\ WakeInv

----------------------------------------------------------------------------
(* Facts that every step uses. *)

\* The harts that run p.
Runners(p) == {g \in Harts : Runs(g, p)}

\* They are finitely many, and one fewer without one that did.
LEMMA RunnersFinite ==
  \A S \in SUBSET Harts : /\ IsFiniteSet(S) /\ Cardinality(S) \in Nat
                          /\ \A h \in S : Cardinality(S) >= 1
                          /\ \A T \in SUBSET S : Cardinality(T) <= Cardinality(S)
<1> SUFFICES ASSUME NEW S \in SUBSET Harts
             PROVE  /\ IsFiniteSet(S) /\ Cardinality(S) \in Nat
                    /\ \A h \in S : Cardinality(S) >= 1
                    /\ \A T \in SUBSET S : Cardinality(T) <= Cardinality(S)
  OBVIOUS
<1>1. IsFiniteSet(S) /\ Cardinality(S) \in Nat
  BY HartsAssumption, FS_Subset, FS_CardinalityType
<1>2. S # {} => Cardinality(S) # 0
  BY <1>1, FS_EmptySet
<1>3. \A T \in SUBSET S : Cardinality(T) <= Cardinality(S)
  BY <1>1, FS_Subset
<1> QED BY <1>1, <1>2, <1>3

\* Whoever counts a process's threads counts its runners.
LEMMA ThreadsCount ==
  ASSUME TypeOK, NEW p \in Pids
  PROVE  /\ Threads(p) = ready[p] + Cardinality(Runners(p))
         /\ Cardinality(Runners(p)) \in Nat /\ ready[p] \in Nat
         /\ \A h \in Harts : Runs(h, p) => Cardinality(Runners(p)) >= 1
<1>1. Runners(p) \in SUBSET Harts
  BY DEF Runners
<1>2. Cardinality(Runners(p)) \in Nat /\ \A h \in Runners(p) : Cardinality(Runners(p)) >= 1
  BY <1>1, RunnersFinite
<1>3. \A h \in Harts : Runs(h, p) => h \in Runners(p)
  BY DEF Runners
<1>4. ready[p] \in Nat
  BY ThreadsAssumption DEF TypeOK
<1> QED BY <1>2, <1>3, <1>4 DEF Threads, Runners

\* One hart is in its section at a time.
LEMMA OneInSection ==
  ASSUME Line, NEW g \in Harts, NEW h \in Harts, pc[g] \in InSection, pc[h] \in InSection
  PROVE  g = h
BY DEF Line

\* Each step keeps the variables' types.
LEMMA TypeStep ==
  ASSUME TypeOK, Line, RunInv, Asking,
         NEW h \in Harts, Kernel(h) \/ Trap(h) \/ IdleEnds(h) \/ Walk(h)
  PROVE  TypeOK'
<1> USE DEF TypeOK, Goto, Away, Serving, InSection, Shooting, hartVars, shotVars, procVars, lockVars
<1>1. CASE Trap(h)
  BY <1>1 DEF Trap
<1>2. CASE IdleEnds(h)
  BY <1>2 DEF IdleEnds
<1>3. CASE Walk(h)
  BY <1>3 DEF Walk, Translations
<1>4. ASSUME AfterServe(h) PROVE queue' \in Seq(Harts) /\ pc' \in [Harts -> {"test", "halt"} \cup Away \cup Serving \cup InSection]
  <2>1. CASE Queued(h)
    BY <1>4, <2>1 DEF AfterServe
  <2>2. CASE ~Queued(h)
    <3>1. Goto(h, "test") /\ queue' = Append(queue, h)
      BY <1>4, <2>2 DEF AfterServe
    <3>2. Append(queue, h) \in Seq(Harts)
      BY AppendProperties
    <3> QED BY <3>1, <3>2
  <2> QED BY <2>1, <2>2
<1>5. CASE ServeNothing(h) \/ ServeTell(h)
  BY <1>4, <1>5 DEF ServeNothing, ServeTell
<1>6. CASE ServeFlush(h)
  BY <1>6 DEF ServeFlush, Words, NoWord
<1>7. CASE ServeClear(h)
  BY <1>7 DEF ServeClear, Words
<1>8. CASE LockTest(h) \/ LockHalt(h)
  <2>1. CASE LockTest(h)
    BY <2>1, SMTT(30) DEF LockTest
  <2>2. CASE LockHalt(h)
    BY <2>2, SMTT(30) DEF LockHalt
  <2> QED BY <1>8, <2>1, <2>2
<1>9. CASE Entered(h)
  BY <1>9, ZenonT(60) DEF Entered, Current
<1>10. CASE Nothing(h) \/ Asked(h) \/ AwaitAck(h) \/ AckHalt(h)
  <2>1. CASE Nothing(h)
    BY <2>1 DEF Nothing, Done
  <2>2. CASE Asked(h)
    BY <2>2 DEF Asked
  <2>3. CASE AwaitAck(h)
    BY <2>3 DEF AwaitAck, Done
  <2>4. CASE AckHalt(h)
    BY <2>4 DEF AckHalt
  <2> QED BY <1>10, <2>1, <2>2, <2>3, <2>4
<1>11. ASSUME NEW f \in Frames, Map(h, f) PROVE TypeOK'
  BY <1>11 DEF Map, Flush, Done
<1>12. ASSUME NEW q \in Pids, WakeThread(h, q) PROVE TypeOK'
  <2>1. ready' = [ready EXCEPT ![q] = @ + 1] /\ ready[q] + 1 \in 0 .. MaxThreads
    BY <1>12, ThreadsCount, ThreadsAssumption DEF WakeThread
  <2>2. tlb' \in [Harts -> SUBSET Translations] /\ stale' \in [Pids -> SUBSET Harts]
    <3>1. CASE q = pid[h]
      BY <1>12, <3>1 DEF WakeThread
    <3>2. CASE q # pid[h]
      <4>1. PICK seen \in SUBSET (Translations \cap {<<q, page[q]>>}) :
              /\ tlb' = [tlb EXCEPT ![h] = (@ \ Owed(h, {q, pid[h]})) \cup seen]
              /\ stale' = [r \in Pids |-> stale[r] \ (IF r \in {q, pid[h]} THEN {h} ELSE {})]
        BY <1>12, <3>2 DEF WakeThread
      <4>2. (tlb[h] \ Owed(h, {q, pid[h]})) \cup seen \in SUBSET Translations
        OBVIOUS
      <4> QED BY <4>1, <4>2
    <3> QED BY <3>1, <3>2
  <2>3. /\ Goto(h, "resume") /\ UNCHANGED <<lockVars, idle, shotVars, hartVars, live, page, owner, gone>>
    BY <1>12 DEF WakeThread, Done
  <2> QED BY <2>1, <2>2, <2>3
<1>13. ASSUME NEW q \in Pids, Spawn(h, q) PROVE TypeOK'
  BY <1>13 DEF Spawn, Flush, Done
<1>14. ASSUME NEW b \in BOOLEAN, Block(h, b) PROVE TypeOK'
  <2>1. pid[h] \in Pids /\ Runs(h, pid[h])
    BY <1>14 DEF Block, RunInv, Checked, Runs
  <2>2. ready[pid[h]] + 1 \in 0 .. MaxThreads
    BY <2>1, ThreadsCount, ThreadsAssumption DEF RunInv, Bounded
  <2> QED BY <1>14, <2>1, <2>2 DEF Block, Current, Done
<1>15. ASSUME NEW q \in Pids, NEW why \in {"unmap", "move", "exit", "kill"}, Shootdown(h, q, why)
       PROVE  /\ shoot' \in [Harts -> Words] /\ shooter' \in Harts /\ job' \in [Harts -> Jobs]
              /\ pc' \in [Harts -> {"test", "halt"} \cup Away \cup Serving \cup InSection]
              /\ UNCHANGED <<queue, ipi, idle>>
  <2>1. [why |-> why, pid |-> q, asked |-> {}, send |-> None,
         ask |-> {g \in Harts \ {h} : Runs(g, q)}] \in Jobs
    BY <1>15 DEF Jobs
  <2> QED BY <1>15, <2>1 DEF Shootdown
<1>16. ASSUME NEW q \in Pids, Unmap(h, q) PROVE TypeOK'
  BY <1>15, <1>16 DEF Unmap, Flush
<1>17. ASSUME NEW q \in Pids, MovePage(h, q) PROVE TypeOK'
  BY <1>15, <1>17 DEF MovePage
<1>18. CASE Exit(h)
  BY <1>15, <1>18 DEF Exit
<1>19. ASSUME NEW q \in Pids, Kill(h, q) PROVE TypeOK'
  BY <1>15, <1>19 DEF Kill
<1>20. pc[h] \in Shooting => job[h] \in Jobs \ {NoJob}
  BY DEF Asking
<1>21. CASE Ask(h)
  <2>1. PICK g \in job[h].ask :
          /\ shoot' = [shoot EXCEPT ![g] = [asid |-> job[h].pid, leave |-> job[h].why \in {"exit", "kill"}]]
          /\ job' = [job EXCEPT ![h].ask = @ \ {g}, ![h].asked = @ \cup {g}, ![h].send = g]
    BY <1>21 DEF Ask
  <2>2. job[h] \in Jobs \ {NoJob}
    BY <1>20, <1>21 DEF Ask
  <2>3. shoot' \in [Harts -> Words]
    BY <2>1, <2>2 DEF Jobs, Words
  <2>4. job' \in [Harts -> Jobs]
    <3>1. job'[h] = [why |-> job[h].why, pid |-> job[h].pid, ask |-> job[h].ask \ {g},
                     asked |-> job[h].asked \cup {g}, send |-> g]
      BY <2>1, <2>2 DEF Jobs
    <3>2. job'[h] \in Jobs
      BY <2>2, <3>1 DEF Jobs
    <3> QED BY <2>1, <3>2
  <2> QED BY <1>21, <2>3, <2>4 DEF Ask
<1>22. CASE AskSend(h)
  BY <1>20, <1>22 DEF AskSend, Jobs, NoJob
<1>23. CASE ShotPages(h)
  BY <1>23 DEF ShotPages, Jobs
<1>24. CASE ShotProcess(h)
  <2>1. job[h].pid \in Pids
    BY <1>20, <1>24 DEF ShotProcess, Jobs
  <2>2. /\ live' \in SUBSET Pids /\ ready' \in [Pids -> 0 .. MaxThreads]
        /\ owner' \in [Frames -> Pids \cup {"free", "inflight"}] /\ page' \in [Pids -> Frames \cup {None}]
    BY <1>24, <2>1, ThreadsAssumption DEF ShotProcess
  <2>3. tlb' \in [Harts -> SUBSET Translations] /\ stale' \in [Pids -> SUBSET Harts]
    BY <1>24, <2>1 DEF ShotProcess
  <2>4. /\ pid' \in [Harts -> Pids \cup {None}] /\ left' \in [Harts -> Pids \cup {None}]
        /\ satp' \in [Harts -> Pids \cup {None}]
    BY <1>24, <2>1 DEF ShotProcess
  <2>5. job' \in [Harts -> Jobs] /\ gone' \in SUBSET Harts
    BY <1>24, <2>1 DEF ShotProcess, Jobs
  <2> QED BY <1>24, <2>2, <2>3, <2>4, <2>5 DEF ShotProcess
<1>25. CASE Resume(h)
  <2>1. Tail(queue) \in Seq(Harts)
    BY <1>25, HeadTailProperties DEF Resume, Line
  <2>2. PICK sent \in {{}} \cup {{g} : g \in Harts} :
          /\ IF Unrun > (IF pid[h] = None THEN 1 ELSE 0)
             THEN WakeIdle(h, sent) ELSE sent = {} /\ UNCHANGED idle
          /\ IF pid[h] = None
             THEN Goto(h, "kmain") /\ ipi' = ipi \cup sent /\ UNCHANGED queue
             ELSE Goto(h, "user") /\ Unlock(h, sent)
    BY <1>25 DEF Resume
  <2>3. idle' \in SUBSET Harts
    BY <2>2 DEF WakeIdle
  <2>4. queue' \in Seq(Harts) /\ ipi' \in SUBSET Harts
    <3>1. sent \subseteq Harts
      BY <2>2
    <3>2. CASE pid[h] = None
      BY <2>2, <3>1, <3>2
    <3>3. CASE pid[h] # None
      <4>1. Unlock(h, sent)
        BY <2>2, <3>3
      <4> QED BY <2>1, <3>1, <4>1 DEF Unlock
    <3> QED BY <3>2, <3>3
  <2> QED BY <1>25, <2>2, <2>3, <2>4 DEF Resume
<1>26. ASSUME NEW p \in Pids, Pick(h, p) PROVE TypeOK'
  BY <1>26, ThreadsAssumption DEF Pick, Current, Install
<1>27. CASE Idle(h)
  <2>1. Tail(queue) \in Seq(Harts)
    BY <1>27, HeadTailProperties DEF Idle, Line
  <2> QED BY <1>27, <2>1 DEF Idle, Unlock
<1> QED
  BY <1>1, <1>2, <1>3, <1>5, <1>6, <1>7, <1>8, <1>9, <1>10, <1>11, <1>12, <1>13, <1>14, <1>16,
     <1>17, <1>18, <1>19, <1>21, <1>22, <1>23, <1>24, <1>25, <1>26, <1>27
  DEF Kernel, Serve, Lock, Operation, Shoot, Leave

----------------------------------------------------------------------------
(* The line. *)

\* A hart that moves without the queue keeps the line, if where it goes agrees.
LEMMA LineMove ==
  ASSUME TypeOK, Line, NEW h \in Harts, NEW where, Goto(h, where), UNCHANGED queue,
         where \notin Away, where \in {"test", "halt"} => Queued(h),
         where \in InSection => queue # <<>> /\ Head(queue) = h
  PROVE  Line'
BY DEF TypeOK, Line, Goto, Queued

\* A hart that draws a ticket joins the end of the line.
LEMMA LineAppend ==
  ASSUME TypeOK, Line, NEW h \in Harts, ~Queued(h), Goto(h, "test"), queue' = Append(queue, h)
  PROVE  Line'
<1> USE DEF TypeOK, Goto
<1>1. /\ Len(queue') = Len(queue) + 1 /\ queue'[Len(queue) + 1] = h
      /\ \A i \in 1 .. Len(queue) : queue'[i] = queue[i]
      /\ Len(queue) \in Nat /\ queue' # <<>> /\ queue' \in Seq(Harts)
  BY AppendProperties, LenProperties, SMTT(30)
<1>2. \A i, j \in 1 .. Len(queue') : queue'[i] = queue'[j] => i = j
  BY <1>1 DEF Line, Queued
<1>3. \A g \in Harts : (Queued(g) => Queued(g)') /\ (Queued(g)' => Queued(g) \/ g = h)
  BY <1>1 DEF Queued
<1>4. Queued(h)'
  BY <1>1 DEF Queued
<1>5. queue # <<>> => Head(queue') = Head(queue)
  BY <1>1, HeadTailProperties, EmptySeq, LenProperties
<1> QED BY <1>2, <1>3, <1>4, <1>5 DEF Line, Away, InSection, Shooting

\* The hart served that leaves its section leaves the line.
LEMMA LineTail ==
  ASSUME TypeOK, Line, NEW h \in Harts, NEW where \in Away, pc[h] \in InSection,
         Goto(h, where), queue' = Tail(queue)
  PROVE  Line'
<1> USE DEF TypeOK, Goto
<1>1. queue # <<>> /\ Head(queue) = h /\ queue[1] = h
  BY HeadTailProperties DEF Line
<1>2. /\ Len(queue) \in Nat \ {0} /\ Len(queue') = Len(queue) - 1
      /\ \A i \in 1 .. Len(queue') : queue'[i] = queue[i + 1]
      /\ queue' \in Seq(Harts)
  BY <1>1, HeadTailProperties, LenProperties, EmptySeq
<1>3. \A i, j \in 1 .. Len(queue') : queue'[i] = queue'[j] => i = j
  BY <1>2 DEF Line
<1>4. \A g \in Harts : Queued(g)' => Queued(g)
  BY <1>2 DEF Queued
<1>5. ~Queued(h)'
  BY <1>1, <1>2 DEF Queued, Line
<1>6. \A g \in Harts \ {h} : Queued(g) => Queued(g)'
  <2> SUFFICES ASSUME NEW g \in Harts \ {h}, NEW i \in 1 .. Len(queue), queue[i] = g
               PROVE  Queued(g)'
    BY DEF Queued
  <2>1. i # 1 /\ i - 1 \in 1 .. Len(queue') /\ queue'[i - 1] = queue[i]
    BY <1>1, <1>2
  <2> QED BY <2>1 DEF Queued
<1>7. \A g \in Harts \ {h} : pc'[g] = pc[g] /\ pc[g] \notin InSection
  BY <1>1, OneInSection
<1>8. pc'[h] = where /\ where \notin {"test", "halt"} /\ where \notin InSection
  BY DEF Away, InSection, Shooting
<1> QED BY <1>3, <1>4, <1>5, <1>6, <1>7, <1>8 DEF Line

\* Each step keeps the line.
LEMMA LineStep ==
  ASSUME TypeOK, Line,
         NEW h \in Harts, Kernel(h) \/ Trap(h) \/ IdleEnds(h) \/ Walk(h)
  PROVE  Line'
<1> USE DEF Away, Serving, InSection, Shooting, lockVars, Done
<1>1. CASE Trap(h)
  BY <1>1, LineMove DEF Trap
<1>2. CASE IdleEnds(h)
  <2>1. ~Queued(h)
    BY <1>2 DEF IdleEnds, Line
  <2> QED BY <1>2, <2>1, LineAppend DEF IdleEnds
<1>3. CASE Walk(h) \/ Ask(h) \/ AskSend(h)
  <2>1. UNCHANGED <<queue, pc>>
    BY <1>3 DEF Walk, Ask, AskSend
  <2> QED BY <2>1 DEF Line, Queued
<1>4. CASE ServeNothing(h) \/ ServeTell(h)
  <2>1. AfterServe(h)
    BY <1>4 DEF ServeNothing, ServeTell
  <2>2. CASE ~Queued(h)
    BY <2>1, <2>2, LineAppend DEF AfterServe
  <2>3. CASE Queued(h) /\ Head(queue) = h
    BY <2>1, <2>3, LineMove DEF AfterServe
  <2>4. CASE Queued(h) /\ Head(queue) # h
    BY <2>1, <2>4, LineMove DEF AfterServe
  <2> QED BY <2>2, <2>3, <2>4
<1>5. CASE ServeFlush(h) \/ ServeClear(h)
  BY <1>5, LineMove DEF ServeFlush, ServeClear
<1>6. CASE LockTest(h)
  <2>1. queue # <<>>
    BY <1>6 DEF LockTest, Line, Queued
  <2>2. CASE Head(queue) = h
    BY <1>6, <2>1, <2>2, LineMove DEF LockTest
  <2>3. CASE Head(queue) # h
    BY <1>6, <2>3, LineMove DEF LockTest
  <2> QED BY <2>2, <2>3
<1>7. CASE LockHalt(h)
  <2>1. Queued(h)
    BY <1>7 DEF LockHalt, Line
  <2> QED BY <1>7, <2>1, LineMove DEF LockHalt
<1>8. pc[h] \in InSection => queue # <<>> /\ Head(queue) = h
  BY DEF Line
<1>9. ASSUME pc[h] \in InSection, UNCHANGED queue, Goto(h, "kernel") \/ Goto(h, "resume") \/ Goto(h, "kmain")
             \/ Goto(h, "ask") \/ Goto(h, "acks") \/ Goto(h, "ackhalt")
      PROVE  Line'
  BY <1>8, <1>9, LineMove
<1>10. CASE Entered(h)
  BY <1>9, <1>10 DEF Entered
<1>11. CASE Operation(h)
  BY <1>9, <1>11 DEF Operation, Nothing, Exit, Block, Map, WakeThread, Spawn, Unmap, MovePage, Kill, Shootdown
<1>12. CASE Asked(h) \/ AwaitAck(h) \/ AckHalt(h) \/ ShotPages(h) \/ ShotProcess(h)
  BY <1>9, <1>12 DEF Asked, AwaitAck, AckHalt, ShotPages, ShotProcess
<1>13. CASE Resume(h)
  <2>1. CASE pid[h] = None
    BY <1>9, <1>13, <2>1 DEF Resume
  <2>2. CASE pid[h] # None
    BY <1>13, <2>2, LineTail DEF Resume, Unlock
  <2> QED BY <2>1, <2>2
<1>14. ASSUME NEW p \in Pids, Pick(h, p) PROVE Line'
  BY <1>9, <1>14 DEF Pick
<1>15. CASE Idle(h)
  BY <1>15, LineTail DEF Idle, Unlock
<1> QED
  BY <1>1, <1>2, <1>3, <1>4, <1>5, <1>6, <1>7, <1>10, <1>11, <1>12, <1>13, <1>14, <1>15
  DEF Kernel, Serve, Lock, Shoot, Leave

----------------------------------------------------------------------------
(* What the harts run. *)

\* The harts that the hart shooting waits for no more have left a process that is
\* destroyed.
LEMMA AllLeft ==
  ASSUME TypeOK, ShotInv, NEW h \in Harts, ShotProcess(h)
  PROVE  \A g \in Harts \ {h} : pid[g] = job[h].pid => left[g] = pid[g]
<1>1. /\ pc[h] \in Shooting /\ job[h].ask = {} /\ job[h].why \in {"exit", "kill"}
      /\ \A g \in job[h].asked : shoot[g] = NoWord
  BY DEF ShotProcess, ShotInv, Asking, Shooting, Unacked
<1> QED BY <1>1 DEF ShotInv, Asking, Left

\* A hart asked to leave is asked about the process it runs.
LEMMA AskedOwn ==
  ASSUME TypeOK, ShotInv, NEW g \in Harts, shoot[g] # NoWord
  PROVE  pid[g] = shoot[g].asid /\ pid[g] \in Pids
<1>1. PICK h \in Harts : /\ pc[h] \in Shooting /\ g \in job[h].asked
                         /\ shoot[g] = [asid |-> job[h].pid, leave |-> job[h].why \in {"exit", "kill"}]
  BY DEF ShotInv, Asks
<1>2. job[h] # NoJob /\ job[h] \in Jobs /\ pid[g] = job[h].pid
  BY <1>1 DEF ShotInv, Asking, TypeOK
<1> QED BY <1>1, <1>2 DEF Jobs

\* Each step keeps each hart in the space of what it runs.
LEMMA SpacesStep ==
  ASSUME TypeOK, RunInv, ShotInv,
         NEW h \in Harts, Kernel(h) \/ Trap(h) \/ IdleEnds(h) \/ Walk(h)
  PROVE  Spaces' /\ Checked'
<1> USE DEF TypeOK, RunInv, Spaces, Checked, Goto, Away, Serving, Shooting, hartVars
<1>0. ASSUME pid' = [pid EXCEPT ![h] = None], left' = [left EXCEPT ![h] = None],
             satp' = [satp EXCEPT ![h] = None], Goto(h, "resume")
      PROVE  Spaces' /\ Checked'
  <2>1. Spaces'
    BY <1>0
  <2>2. Checked'
    BY <1>0
  <2> QED BY <2>1, <2>2
<1>1. CASE Trap(h) \/ IdleEnds(h) \/ Walk(h)
  BY <1>1 DEF Trap, IdleEnds, Walk
<1>2. CASE ServeNothing(h) \/ ServeTell(h)
  <2>1. UNCHANGED hartVars /\ (Goto(h, "test") \/ Goto(h, "halt"))
    BY <1>2 DEF ServeNothing, ServeTell, AfterServe
  <2> QED BY <2>1
<1>3. CASE ServeFlush(h)
  <2>1. pid[h] = shoot[h].asid /\ pid[h] \in Pids
    BY <1>3, AskedOwn DEF ServeFlush
  <2>2. CASE shoot[h].leave
    BY <1>3, <2>1, <2>2, NoneAssumption, ZenonT(120) DEF ServeFlush
  <2>3. CASE ~shoot[h].leave
    BY <1>3, <2>3 DEF ServeFlush
  <2> QED BY <2>2, <2>3
<1>4. CASE ServeClear(h) \/ LockTest(h) \/ LockHalt(h)
  <2>1. UNCHANGED hartVars /\ \E w \in {"tell", "entered", "serve", "test"} : Goto(h, w)
    BY <1>4 DEF ServeClear, LockTest, LockHalt
  <2> QED BY <2>1
<1>5. CASE Entered(h)
  <2>1. CASE left[h] # None /\ left[h] = pid[h]
    BY <1>0, <1>5, <2>1 DEF Entered, Current
  <2>2. CASE ~(left[h] # None /\ left[h] = pid[h])
    <3>1. UNCHANGED hartVars /\ Goto(h, "kernel")
      BY <1>5, <2>2 DEF Entered
    <3> QED BY <2>2, <3>1
  <2> QED BY <2>1, <2>2
<1>6. ASSUME pc[h] \in {"kernel"} \cup Shooting, UNCHANGED hartVars,
             Goto(h, "resume") \/ Goto(h, "ask") \/ Goto(h, "acks") \/ Goto(h, "ackhalt") \/ UNCHANGED pc
      PROVE  Spaces' /\ Checked'
  BY <1>6
<1>7. ASSUME NEW b \in BOOLEAN, Block(h, b) PROVE Spaces' /\ Checked'
  BY <1>7 DEF Block, Current, Done
<1>8. CASE Operation(h)
  BY <1>6, <1>7, <1>8, ZenonT(60)
  DEF Operation, Nothing, Exit, Map, WakeThread, Spawn, Unmap, MovePage, Kill, Shootdown, Done
<1>9. CASE Ask(h) \/ AskSend(h) \/ Asked(h) \/ AwaitAck(h) \/ AckHalt(h) \/ ShotPages(h)
  BY <1>6, <1>9 DEF Ask, AskSend, Asked, AwaitAck, AckHalt, ShotPages
<1>10. CASE ShotProcess(h)
  <2>1. CASE pid[h] = job[h].pid
    BY <1>0, <1>10, <2>1 DEF ShotProcess
  <2>2. CASE pid[h] # job[h].pid
    BY <1>6, <1>10, <2>2 DEF ShotProcess
  <2> QED BY <2>1, <2>2
<1>11. CASE Resume(h)
  <2>1. UNCHANGED hartVars /\ (pid[h] = None => Goto(h, "kmain")) /\ (pid[h] # None => Goto(h, "user"))
    BY <1>11 DEF Resume
  <2>2. pid[h] = None \/ left[h] # pid[h]
    BY <1>11 DEF Resume
  <2> QED BY <2>1, <2>2
<1>12. ASSUME NEW p \in Pids, Pick(h, p) PROVE Spaces' /\ Checked'
  BY <1>12, NoneAssumption DEF Pick, Current
<1>13. CASE Idle(h)
  BY <1>13 DEF Idle
<1> QED
  BY <1>1, <1>2, <1>3, <1>4, <1>5, <1>8, <1>9, <1>10, <1>11, <1>12, <1>13
  DEF Kernel, Serve, Lock, Shoot, Leave

\* Each step keeps every hart off processes that do not exist.
LEMMA AliveStep ==
  ASSUME TypeOK, RunInv, ShotInv,
         NEW h \in Harts, Kernel(h) \/ Trap(h) \/ IdleEnds(h) \/ Walk(h)
  PROVE  Alive'
<1> USE DEF TypeOK, RunInv, Alive, Checked, Shooting, hartVars, procVars
<1>1. CASE UNCHANGED <<hartVars, live, ready, gone>>
  BY <1>1
<1>2. CASE \/ Trap(h) \/ IdleEnds(h) \/ Walk(h) \/ ServeNothing(h) \/ ServeTell(h) \/ ServeClear(h)
           \/ LockTest(h) \/ LockHalt(h) \/ Nothing(h) \/ Exit(h) \/ Ask(h) \/ AskSend(h) \/ Asked(h)
           \/ AwaitAck(h) \/ AckHalt(h) \/ ShotPages(h) \/ Resume(h) \/ Idle(h)
  BY <1>1, <1>2
  DEF Trap, IdleEnds, Walk, ServeNothing, ServeTell, ServeClear, LockTest, LockHalt, Nothing, Exit,
      Ask, AskSend, Asked, AwaitAck, AckHalt, ShotPages, Resume, Idle
<1>3. CASE ServeFlush(h)
  <2>1. pid[h] = shoot[h].asid /\ pid[h] \in Pids
    BY <1>3, AskedOwn DEF ServeFlush
  <2>2. CASE shoot[h].leave
    BY <1>3, <2>1, <2>2, NoneAssumption DEF ServeFlush
  <2>3. CASE ~shoot[h].leave
    BY <1>1, <1>3, <2>3 DEF ServeFlush
  <2> QED BY <2>2, <2>3
<1>4. CASE Entered(h)
  <2>1. CASE left[h] # None /\ left[h] = pid[h]
    BY <1>4, <2>1, ZenonT(60) DEF Entered, Current
  <2>2. CASE ~(left[h] # None /\ left[h] = pid[h])
    BY <1>1, <1>4, <2>2 DEF Entered
  <2> QED BY <2>1, <2>2
<1>5. ASSUME NEW f \in Frames, Map(h, f) PROVE Alive'
  BY <1>1, <1>5 DEF Map
<1>6. ASSUME NEW q \in Pids, WakeThread(h, q) \/ Spawn(h, q) PROVE Alive'
  BY <1>6 DEF WakeThread, Spawn
<1>7. ASSUME NEW q \in Pids, Unmap(h, q) \/ MovePage(h, q) \/ Kill(h, q) PROVE Alive'
  BY <1>1, <1>7 DEF Unmap, MovePage, Kill
<1>8. ASSUME NEW b \in BOOLEAN, Block(h, b) PROVE Alive'
  BY <1>8 DEF Block, Current
<1>9. CASE ShotProcess(h)
  <2>1. \A g \in Harts \ {h} : pid[g] = job[h].pid => left[g] = pid[g]
    BY <1>9, AllLeft
  <2>2. \A q \in Pids : ready'[q] > 0 => q \in live'
    BY <1>9 DEF ShotProcess
  <2>3. \A g \in Harts : pid'[g] # None /\ left'[g] # pid'[g] => pid'[g] \in live' /\ g \notin gone'
    <3>1. CASE pid[h] = job[h].pid
      BY <1>9, <2>1, <3>1 DEF ShotProcess
    <3>2. CASE pid[h] # job[h].pid
      BY <1>9, <2>1, <3>2 DEF ShotProcess
    <3> QED BY <3>1, <3>2
  <2> QED BY <2>2, <2>3
<1>10. ASSUME NEW p \in Pids, Pick(h, p) PROVE Alive'
  BY <1>10, ThreadsAssumption DEF Pick, Current
<1> QED
  BY <1>2, <1>3, <1>4, <1>5, <1>6, <1>7, <1>8, <1>9, <1>10
  DEF Kernel, Serve, Lock, Operation, Shoot, Leave

\* Each step keeps the bound on a process's threads.
LEMMA BoundedStep ==
  ASSUME TypeOK, TypeOK', RunInv, ShotInv,
         NEW h \in Harts, Kernel(h) \/ Trap(h) \/ IdleEnds(h) \/ Walk(h)
  PROVE  Bounded'
<1> USE DEF Bounded, Shooting, hartVars, procVars
<1>1. \A p \in Pids : /\ Threads(p)' = ready'[p] + Cardinality(Runners(p)')
                      /\ Threads(p) = ready[p] + Cardinality(Runners(p)) /\ Threads(p) <= MaxThreads
                      /\ Runners(p) \in SUBSET Harts /\ Runners(p)' \in SUBSET Harts
                      /\ Cardinality(Runners(p)) \in Nat /\ Cardinality(Runners(p)') \in Nat
                      /\ ready[p] \in Nat /\ ready'[p] \in Nat /\ MaxThreads \in Nat
  BY RunnersFinite, ThreadsAssumption DEF Threads, Runners, TypeOK, RunInv
<1>2. ASSUME NEW p \in Pids, ready'[p] <= ready[p], Runners(p)' \subseteq Runners(p)
      PROVE  Threads(p)' <= MaxThreads
  <2>1. Cardinality(Runners(p)') <= Cardinality(Runners(p))
    BY <1>1, <1>2, RunnersFinite
  <2> QED BY <1>1, <1>2, <2>1
<1>3. CASE UNCHANGED <<hartVars, ready>>
  BY <1>1, <1>3 DEF Runners, Runs
<1>4. CASE \/ Trap(h) \/ IdleEnds(h) \/ Walk(h) \/ ServeNothing(h) \/ ServeTell(h) \/ ServeClear(h)
           \/ LockTest(h) \/ LockHalt(h) \/ Nothing(h) \/ Exit(h) \/ Ask(h) \/ AskSend(h) \/ Asked(h)
           \/ AwaitAck(h) \/ AckHalt(h) \/ ShotPages(h) \/ Resume(h) \/ Idle(h)
           \/ (\E f \in Frames : Map(h, f))
           \/ (\E q \in Pids : Spawn(h, q) \/ Unmap(h, q) \/ MovePage(h, q) \/ Kill(h, q))
  BY <1>3, <1>4
  DEF Trap, IdleEnds, Walk, ServeNothing, ServeTell, ServeClear, LockTest, LockHalt, Nothing, Exit,
      Ask, AskSend, Asked, AwaitAck, AckHalt, ShotPages, Resume, Idle, Map, Spawn, Unmap, MovePage, Kill
<1>5. CASE ServeFlush(h)
  <2>1. pid[h] = shoot[h].asid /\ pid[h] \in Pids
    BY <1>5, AskedOwn DEF ServeFlush
  <2>2. \A p \in Pids : Runners(p)' \subseteq Runners(p)
    <3>1. CASE shoot[h].leave
      BY <1>5, <2>1, <3>1 DEF ServeFlush, Runners, Runs, TypeOK
    <3>2. CASE ~shoot[h].leave
      BY <1>5, <3>2 DEF ServeFlush, Runners, Runs
    <3> QED BY <3>1, <3>2
  <2> QED BY <1>1, <1>2, <1>5, <2>2 DEF ServeFlush
<1>6. ASSUME pid' = [pid EXCEPT ![h] = None], left' = [left EXCEPT ![h] = None]
      PROVE  \A p \in Pids : Runners(p)' \subseteq Runners(p) \ {h}
  BY <1>6, NoneAssumption DEF Runners, Runs, TypeOK
<1>7. CASE Entered(h)
  <2>1. CASE left[h] # None /\ left[h] = pid[h]
    BY <1>1, <1>2, <1>6, <1>7, <2>1 DEF Entered, Current
  <2>2. CASE ~(left[h] # None /\ left[h] = pid[h])
    BY <1>3, <1>7, <2>2 DEF Entered
  <2> QED BY <2>1, <2>2
<1>8. ASSUME NEW q \in Pids, WakeThread(h, q) PROVE Bounded'
  <2>1. \A p \in Pids : Runners(p)' = Runners(p)
    BY <1>8 DEF WakeThread, Runners, Runs
  <2>2. Threads(q) < MaxThreads /\ ready' = [ready EXCEPT ![q] = @ + 1]
    BY <1>8 DEF WakeThread
  <2>3. ASSUME NEW p \in Pids PROVE Threads(p)' <= MaxThreads
    <3>1. CASE p = q
      BY <1>1, <2>1, <2>2, <3>1 DEF TypeOK
    <3>2. CASE p # q
      BY <1>1, <2>1, <2>2, <3>2 DEF TypeOK
    <3> QED BY <3>1, <3>2
  <2> QED BY <2>3
<1>9. ASSUME NEW b \in BOOLEAN, Block(h, b) PROVE Bounded'
  <2>1. \A p \in Pids : Runners(p)' \subseteq Runners(p) \ {h}
    BY <1>6, <1>9 DEF Block, Current
  <2>2. PICK q \in Pids : q = pid[h] /\ h \in Runners(q)
    BY <1>9 DEF Block, Runners, Runs, RunInv, Checked, TypeOK
  <2>3. Cardinality(Runners(q) \ {h}) = Cardinality(Runners(q)) - 1
    BY <1>1, <2>2, RunnersFinite, FS_RemoveElement
  <2>4. Cardinality(Runners(q)') <= Cardinality(Runners(q) \ {h})
    <3>1. Runners(q) \ {h} \in SUBSET Harts
      BY <1>1
    <3> QED BY <2>1, <3>1, RunnersFinite
  <2>5. \A p \in Pids : ready'[p] <= ready[p] + (IF p = q THEN 1 ELSE 0)
    <3>1. CASE b
      BY <1>1, <1>9, <2>2, <3>1, SMTT(30) DEF Block, TypeOK
    <3>2. CASE ~b
      BY <1>1, <1>9, <2>2, <3>2, SMTT(30) DEF Block, TypeOK
    <3> QED BY <3>1, <3>2
  <2>6. Threads(q)' <= MaxThreads
    BY <1>1, <2>3, <2>4, <2>5
  <2>7. ASSUME NEW p \in Pids, p # q PROVE Threads(p)' <= MaxThreads
    BY <1>1, <1>2, <2>1, <2>5, <2>7
  <2> QED BY <2>6, <2>7
<1>10. CASE ShotProcess(h)
  <2>1. \A p \in Pids : Runners(p)' \subseteq Runners(p)
    <3>1. CASE pid[h] = job[h].pid
      BY <1>6, <1>10, <3>1 DEF ShotProcess
    <3>2. CASE pid[h] # job[h].pid
      BY <1>10, <3>2 DEF ShotProcess, Runners, Runs
    <3> QED BY <3>1, <3>2
  <2>2. \A p \in Pids : ready'[p] <= ready[p]
    BY <1>1, <1>10 DEF ShotProcess, TypeOK
  <2> QED BY <1>2, <2>1, <2>2
<1>11. ASSUME NEW q \in Pids, Pick(h, q) PROVE Bounded'
  <2>1. pid[h] = None /\ ready' = [ready EXCEPT ![q] = @ - 1] /\ Current(h, q)
    BY <1>11 DEF Pick, RunInv, Checked
  <2>2. Runners(q)' = Runners(q) \cup {h} /\ h \notin Runners(q)
    BY <2>1, NoneAssumption DEF Current, Runners, Runs, TypeOK
  <2>3. Cardinality(Runners(q)') = Cardinality(Runners(q)) + 1
    BY <1>1, <2>2, RunnersFinite, FS_AddElement
  <2>4. \A p \in Pids \ {q} : Runners(p)' = Runners(p)
    BY <2>1, NoneAssumption DEF Current, Runners, Runs, TypeOK
  <2>5. ASSUME NEW p \in Pids PROVE Threads(p)' <= MaxThreads
    <3>1. CASE p = q
      BY <1>1, <2>1, <2>3, <3>1 DEF TypeOK
    <3>2. CASE p # q
      BY <1>1, <2>1, <2>4, <3>2 DEF TypeOK
    <3> QED BY <3>1, <3>2
  <2> QED BY <2>5
<1> QED
  BY <1>4, <1>5, <1>7, <1>8, <1>9, <1>10, <1>11
  DEF Kernel, Serve, Lock, Operation, Shoot, Leave

----------------------------------------------------------------------------
(* The shootdown under way. *)

\* What a hart that shoots has in its job.
LEMMA JobTyped ==
  ASSUME TypeOK, Asking, NEW h \in Harts, pc[h] \in Shooting
  PROVE  /\ job[h] # NoJob /\ job[h].why \in {"unmap", "move", "exit", "kill"} /\ job[h].pid \in Pids
         /\ job[h].ask \subseteq Harts /\ job[h].asked \subseteq Harts
         /\ job[h].send \in Harts \cup {None}
<1>1. job[h] \in Jobs /\ job[h] # NoJob
  BY DEF TypeOK, Asking
<1> QED BY <1>1 DEF Jobs

\* Without a shootdown, no hart has a word.
LEMMA NoWords ==
  ASSUME TypeOK, Line, ShotInv, NEW h \in Harts, pc[h] \in InSection \ Shooting
  PROVE  /\ \A g \in Harts : shoot[g] = NoWord
         /\ \A g \in Harts : pc[g] \notin Shooting /\ job[g] = NoJob
<1>1. \A g \in Harts : pc[g] \notin Shooting
  BY OneInSection DEF InSection
<1> QED BY <1>1 DEF ShotInv, Asks, Asking, TypeOK

\* The invariant holds when the hart in its section does not shoot, and no hart
\* has a word.
LEMMA Quiet ==
  ASSUME TypeOK, Line, ShotInv, NEW h \in Harts, pc[h] \in InSection,
         NEW where, Goto(h, where), where \notin Shooting \cup {"served"},
         \A g \in Harts : shoot[g] = NoWord, UNCHANGED shoot,
         job' = [job EXCEPT ![h] = NoJob]
  PROVE  ShotInv'
<1>1. \A g \in Harts \ {h} : pc'[g] = pc[g] /\ pc[g] \notin Shooting /\ job'[g] = NoJob
  BY OneInSection DEF InSection, TypeOK, Goto, ShotInv, Asking
<1>2. pc'[h] = where /\ job'[h] = NoJob
  BY DEF TypeOK, Goto
<1>3. \A g \in Harts : pc'[g] \notin Shooting /\ job'[g] = NoJob
  BY <1>1, <1>2
<1>4. Asking' /\ Left'
  BY <1>3 DEF Asking, Left, Shooting
<1>5. Asks'
  BY <1>1, <1>2 DEF ShotInv, Asks
<1> QED BY <1>4, <1>5 DEF ShotInv

\* A shootdown begins.
LEMMA ShootdownBegins ==
  ASSUME TypeOK, Line, ShotInv, NEW h \in Harts, pc[h] = "kernel", NEW p \in Pids,
         NEW why \in {"unmap", "move", "exit", "kill"}, Shootdown(h, p, why), UNCHANGED hartVars
  PROVE  ShotInv'
<1> USE DEF TypeOK, Goto, Shootdown, hartVars
<1>1. /\ \A g \in Harts : shoot[g] = NoWord /\ pc[g] # "served"
      /\ \A g \in Harts : pc[g] \notin Shooting /\ job[g] = NoJob
  BY NoWords DEF InSection, Shooting, ShotInv, Asks
<1>2. /\ \A g \in Harts \ {h} : pc'[g] = pc[g] /\ job'[g] = NoJob
      /\ pc'[h] = "ask" /\ shooter' = h
      /\ job'[h] = [why |-> why, pid |-> p, asked |-> {}, send |-> None,
                    ask |-> {g \in Harts \ {h} : Runs(g, p)}]
  BY <1>1
<1>3. job'[h] # NoJob
  BY <1>2 DEF NoJob
<1>4. Asking'
  BY <1>1, <1>2, <1>3 DEF Asking, Shooting, Runs
<1>5. Asks'
  BY <1>1, <1>2 DEF Asks
<1>6. Left'
  BY <1>1, <1>2 DEF Left
<1> QED BY <1>4, <1>5, <1>6 DEF ShotInv

\* A hart outside its section neither shoots nor starts to.
LEMMA OutsideStep ==
  ASSUME TypeOK, Line, ShotInv, NEW h \in Harts, UNCHANGED <<hartVars, shotVars>>,
         NEW where, Goto(h, where), where \notin Shooting \cup {"served"},
         pc[h] \notin Shooting \cup {"served"}
  PROVE  ShotInv'
<1> USE DEF TypeOK, Goto, hartVars, shotVars
<1>1. /\ \A g \in Harts \ {h} : pc'[g] = pc[g]
      /\ pc'[h] = where
  OBVIOUS
<1>2. Asking'
  BY <1>1 DEF ShotInv, Asking, Shooting
<1>3. Asks'
  BY <1>1 DEF ShotInv, Asks
<1>4. Left'
  BY <1>1 DEF ShotInv, Left
<1> QED BY <1>2, <1>3, <1>4 DEF ShotInv

\* A hart asked: by whom and what.
LEMMA AskedBy ==
  ASSUME TypeOK, Line, ShotInv, NEW g \in Harts, shoot[g] # NoWord
  PROVE  \A h \in Harts : pc[h] \in Shooting =>
           /\ g \in job[h].asked /\ g \notin job[h].ask
           /\ shoot[g] = [asid |-> job[h].pid, leave |-> job[h].why \in {"exit", "kill"}]
<1>1. PICK h \in Harts : /\ pc[h] \in Shooting /\ g \in job[h].asked
                         /\ shoot[g] = [asid |-> job[h].pid, leave |-> job[h].why \in {"exit", "kill"}]
  BY DEF ShotInv, Asks
<1>2. \A s \in Harts : pc[s] \in Shooting => s = h
  BY <1>1, OneInSection DEF InSection
<1> QED BY <1>1, <1>2 DEF ShotInv, Asking

\* A served hart's flush keeps the shootdown: it leaves if it was asked to.
LEMMA FlushServed ==
  ASSUME TypeOK, Line, ShotInv, NEW h \in Harts, ServeFlush(h)
  PROVE  ShotInv'
<1>1. pid[h] = shoot[h].asid /\ pid[h] \in Pids /\ shoot[h] # NoWord /\ pc[h] = "serve"
  BY AskedOwn DEF ServeFlush
<1>2. /\ \A g \in Harts \ {h} : pc'[g] = pc[g] /\ left'[g] = left[g]
      /\ pc'[h] = "served" /\ UNCHANGED <<pid, shotVars>>
      /\ shoot[h].leave => left'[h] = pid[h]
  <2>1. CASE shoot[h].leave
    BY <1>1, <2>1 DEF ServeFlush, TypeOK, Goto
  <2>2. CASE ~shoot[h].leave
    BY <1>1, <2>2 DEF ServeFlush, TypeOK, Goto
  <2> QED BY <2>1, <2>2
<1>3. \A g \in Harts : pc'[g] \in Shooting <=> pc[g] \in Shooting
  BY <1>1, <1>2 DEF Shooting
<1>4. \A g \in Harts : pc[g] \in Shooting =>
        /\ h \in job[g].asked /\ h \notin job[g].ask
        /\ shoot[h] = [asid |-> job[g].pid, leave |-> job[g].why \in {"exit", "kill"}]
  BY <1>1, AskedBy
<1>5. Asking'
  <2>1. ~shoot[h].leave => UNCHANGED left
    BY DEF ServeFlush
  <2>2. \A g \in Harts : left[g] = pid[g] => left'[g] = pid[g]
    BY <1>2, <2>1
  <2>3. \A g \in Harts : pc'[g] \in {"acks", "ackhalt"} => pc[g] \in {"acks", "ackhalt"}
    BY <1>2
  <2>4. \A g \in Harts : pc[g] \in Shooting => job[g].ask \subseteq Harts \ {h}
    BY <1>4, JobTyped DEF ShotInv
  <2>5. UNCHANGED <<pid, shooter, job>>
    BY <1>2 DEF shotVars
  <2> SUFFICES ASSUME NEW s \in Harts
               PROVE  /\ pc[s] \in Shooting <=> job[s] # NoJob
                      /\ pc[s] \in Shooting =>
                           /\ shooter = s
                           /\ job[s].ask \cap job[s].asked = {}
                           /\ \A g \in job[s].ask \cup job[s].asked : g # s /\ pid[g] = job[s].pid
                           /\ \A g \in job[s].ask : left'[g] # pid[g]
                           /\ \A g \in Harts \ {s} :
                                pid[g] = job[s].pid => g \in job[s].ask \cup job[s].asked \/ left'[g] = pid[g]
                      /\ pc[s] \in {"acks", "ackhalt"} => job[s].ask = {} /\ job[s].send = None
    BY <1>3, <2>3, <2>5 DEF Asking
  <2>6. pc[s] \in Shooting => \A g \in job[s].ask : left'[g] # pid[g]
    BY <1>2, <2>4 DEF ShotInv, Asking
  <2> QED BY <2>2, <2>6 DEF ShotInv, Asking
<1>6. Asks'
  BY <1>1, <1>2, <1>3 DEF ShotInv, Asks, shotVars
<1>7. Left'
  <2> SUFFICES ASSUME NEW s \in Harts, pc[s] \in Shooting, job[s].why \in {"exit", "kill"},
                      NEW g \in job[s].asked, shoot[g] = NoWord \/ pc'[g] = "served"
               PROVE  left'[g] = pid[g]
    BY <1>2, <1>3 DEF Left, shotVars
  <2>1. CASE g = h
    <3>1. shoot[h] = [asid |-> job[s].pid, leave |-> job[s].why \in {"exit", "kill"}]
      BY <1>4
    <3>2. shoot[h].leave
      <4>1. (job[s].why \in {"exit", "kill"}) = TRUE
        OBVIOUS
      <4>2. shoot[h] = [asid |-> job[s].pid, leave |-> TRUE]
        BY <3>1, <4>1
      <4> QED BY <4>2
    <3> QED BY <1>2, <2>1, <3>2
  <2>2. CASE g # h
    <3>1. g \in Harts
      BY JobTyped DEF ShotInv
    <3> QED BY <1>2, <2>2, <3>1 DEF ShotInv, Left
  <2> QED BY <2>1, <2>2
<1> QED BY <1>5, <1>6, <1>7 DEF ShotInv

\* A served hart's acknowledgement keeps the shootdown.
LEMMA ClearServed ==
  ASSUME TypeOK, Line, ShotInv, NEW h \in Harts, ServeClear(h)
  PROVE  ShotInv'
<1>1. /\ \A g \in Harts \ {h} : pc'[g] = pc[g] /\ shoot'[g] = shoot[g]
      /\ pc[h] = "served" /\ pc'[h] = "tell" /\ shoot'[h] = NoWord /\ UNCHANGED <<hartVars, shooter, job>>
  BY DEF TypeOK, Goto, ServeClear
<1>2. \A g \in Harts : pc'[g] \in Shooting <=> pc[g] \in Shooting
  BY <1>1 DEF Shooting
<1>3. Asking'
  <2>1. \A g \in Harts : pc'[g] \in {"acks", "ackhalt"} => pc[g] \in {"acks", "ackhalt"}
    BY <1>1
  <2> QED BY <1>1, <1>2, <2>1 DEF ShotInv, Asking, hartVars
<1>4. Asks'
  BY <1>1, <1>2 DEF ShotInv, Asks
<1>5. Left'
  <2>1. \A g \in Harts : pc[g] \in Shooting => job[g].asked \subseteq Harts
    BY JobTyped DEF ShotInv
  <2> QED BY <1>1, <1>2, <2>1 DEF ShotInv, Left, hartVars
<1> QED BY <1>3, <1>4, <1>5 DEF ShotInv

\* The hart that shoots asks one more: its word is the job's, and it has not flushed.
LEMMA AskOne ==
  ASSUME TypeOK, Line, ShotInv, NEW h \in Harts, Ask(h)
  PROVE  ShotInv'
<1>1. pc[h] \in Shooting /\ pc[h] = "ask"
  BY DEF Ask, Shooting
<1>2. PICK g \in job[h].ask :
        /\ shoot' = [shoot EXCEPT ![g] = [asid |-> job[h].pid, leave |-> job[h].why \in {"exit", "kill"}]]
        /\ job' = [job EXCEPT ![h].ask = @ \ {g}, ![h].asked = @ \cup {g}, ![h].send = g]
  BY DEF Ask
<1>3. g \in Harts /\ job[h].pid \in Pids /\ job[h] \in Jobs \ {NoJob}
  BY <1>1, JobTyped DEF ShotInv, TypeOK
<1>4. /\ job'[h].why = job[h].why /\ job'[h].pid = job[h].pid /\ job'[h].ask = job[h].ask \ {g}
      /\ job'[h].asked = job[h].asked \cup {g} /\ job'[h].send = g
      /\ \A s \in Harts \ {h} : job'[s] = job[s]
  BY <1>2, <1>3 DEF TypeOK, Jobs
<1>5. /\ shoot'[g] = [asid |-> job[h].pid, leave |-> job[h].why \in {"exit", "kill"}]
      /\ shoot'[g] # NoWord
      /\ \A f \in Harts \ {g} : shoot'[f] = shoot[f]
  BY <1>2, <1>3, NoneAssumption DEF TypeOK, NoWord
<1>6. UNCHANGED <<pc, pid, left, shooter>> /\ job'[h] # NoJob
  <2>1. UNCHANGED <<pc, pid, left, shooter>>
    BY DEF Ask, hartVars
  <2>2. job'[h] # NoJob
    BY <1>3, <1>4, NoneAssumption DEF NoJob
  <2> QED BY <2>1, <2>2
<1>7. \A s \in Harts : pc[s] \in Shooting => s = h
  BY <1>1, OneInSection DEF InSection
<1>8. shoot[g] = NoWord /\ pc[g] # "served"
  BY <1>1, <1>3, AskedBy DEF ShotInv, Asks
<1>9. Asking'
  <2>1. \A s \in Harts \ {h} : pc'[s] \notin Shooting /\ job'[s] = NoJob
    BY <1>4, <1>6, <1>7 DEF ShotInv, Asking
  <2>2. /\ shooter' = h /\ job'[h].ask \cap job'[h].asked = {}
        /\ \A f \in job'[h].ask \cup job'[h].asked : f # h /\ pid'[f] = job'[h].pid
        /\ \A f \in job'[h].ask : left'[f] # pid'[f]
        /\ \A f \in Harts \ {h} :
             pid'[f] = job'[h].pid => f \in job'[h].ask \cup job'[h].asked \/ left'[f] = pid'[f]
    BY <1>1, <1>4, <1>6 DEF ShotInv, Asking
  <2> QED BY <1>1, <1>6, <2>1, <2>2 DEF Asking, Shooting
<1>10. Asks'
  <2>1. ASSUME NEW f \in Harts, shoot'[f] # NoWord
        PROVE  /\ f \in job'[h].asked
               /\ shoot'[f] = [asid |-> job'[h].pid, leave |-> job'[h].why \in {"exit", "kill"}]
    <3>1. CASE f = g
      BY <1>4, <1>5, <3>1
    <3>2. CASE f # g
      BY <1>1, <1>4, <1>5, <2>1, <3>2, AskedBy
    <3> QED BY <3>1, <3>2
  <2>2. \A f \in Harts : pc'[f] = "served" => shoot'[f] # NoWord
    BY <1>5, <1>6, <1>8 DEF ShotInv, Asks
  <2> QED BY <1>1, <1>6, <2>1, <2>2 DEF Asks
<1>11. Left'
  <2> SUFFICES ASSUME job[h].why \in {"exit", "kill"}, NEW f \in job[h].asked \cup {g},
                      shoot'[f] = NoWord \/ pc[f] = "served"
               PROVE  left[f] = pid[f]
    BY <1>4, <1>6, <1>7 DEF Left
  <2>1. f # g /\ f \in job[h].asked
    BY <1>5, <1>8
  <2>2. f \in Harts
    BY <1>1, <2>1, JobTyped DEF ShotInv
  <2> QED BY <1>1, <1>5, <2>1, <2>2 DEF ShotInv, Left
<1> QED BY <1>9, <1>10, <1>11 DEF ShotInv

\* The hart that shoots sends the interrupt.
LEMMA AskSent ==
  ASSUME TypeOK, Line, ShotInv, NEW h \in Harts, AskSend(h)
  PROVE  ShotInv'
<1>1. pc[h] \in Shooting /\ pc[h] = "ask"
  BY DEF AskSend, Shooting
<1>2. job[h] \in Jobs \ {NoJob} /\ job[h].pid \in Pids
  BY <1>1, JobTyped DEF ShotInv, TypeOK
<1>3. /\ job'[h].why = job[h].why /\ job'[h].pid = job[h].pid /\ job'[h].ask = job[h].ask
      /\ job'[h].asked = job[h].asked
      /\ \A s \in Harts \ {h} : job'[s] = job[s]
  BY <1>2 DEF AskSend, TypeOK, Jobs
<1>4. UNCHANGED <<pc, pid, left, shooter, shoot>> /\ job'[h] # NoJob
  BY <1>2, <1>3, NoneAssumption DEF AskSend, hartVars, NoJob
<1>5. Asking'
  BY <1>1, <1>3, <1>4 DEF ShotInv, Asking
<1>6. Asks'
  <2>1. ASSUME NEW f \in Harts, shoot[f] # NoWord
        PROVE  /\ f \in job'[h].asked
               /\ shoot[f] = [asid |-> job'[h].pid, leave |-> job'[h].why \in {"exit", "kill"}]
    BY <1>1, <1>3, <2>1, AskedBy
  <2> QED BY <1>1, <1>4, <2>1 DEF ShotInv, Asks
<1>7. Left'
  BY <1>3, <1>4 DEF ShotInv, Left
<1> QED BY <1>5, <1>6, <1>7 DEF ShotInv

\* The hart that shoots asked everyone, and waits.
LEMMA AskedAll ==
  ASSUME TypeOK, Line, ShotInv, NEW h \in Harts, Asked(h) \/ AwaitAck(h) \/ AckHalt(h)
  PROVE  ShotInv'
<1>1. /\ UNCHANGED <<hartVars, shotVars>>
      /\ \A g \in Harts \ {h} : pc'[g] = pc[g]
      /\ pc[h] \in Shooting /\ pc'[h] \in Shooting
      /\ job[h].ask = {} /\ job[h].send = None
  BY DEF TypeOK, Goto, Asked, AwaitAck, AckHalt, Shooting, ShotInv, Asking
<1>2. \A g \in Harts : /\ pc'[g] \in Shooting <=> pc[g] \in Shooting
                       /\ pc'[g] = "served" <=> pc[g] = "served"
  BY <1>1 DEF Shooting
<1>3. Asking'
  BY <1>1, <1>2 DEF ShotInv, Asking, hartVars, shotVars
<1>4. Asks'
  BY <1>1, <1>2 DEF ShotInv, Asks, hartVars, shotVars
<1>5. Left'
  <2>1. \A g \in Harts : pc[g] \in Shooting => job[g].asked \subseteq Harts
    BY JobTyped DEF ShotInv
  <2> QED BY <1>1, <1>2, <2>1 DEF ShotInv, Left, hartVars, shotVars
<1> QED BY <1>3, <1>4, <1>5 DEF ShotInv

\* The shootdown is over: every word is gone.
LEMMA AllAcked ==
  ASSUME TypeOK, Line, ShotInv, NEW h \in Harts, ShotPages(h) \/ ShotProcess(h)
  PROVE  \A g \in Harts : shoot[g] = NoWord
<1>1. pc[h] \in Shooting /\ Unacked(h) = {}
  BY DEF ShotPages, ShotProcess, Shooting
<1> QED BY <1>1, AskedBy DEF Unacked

\* Each step keeps what the shootdown under way knows.
LEMMA ShotStep ==
  ASSUME TypeOK, Line, ShotInv,
         NEW h \in Harts, Kernel(h) \/ Trap(h) \/ IdleEnds(h) \/ Walk(h)
  PROVE  ShotInv'
<1>1. CASE Walk(h)
  <2>1. UNCHANGED <<pc, hartVars, shotVars>>
    BY <1>1 DEF Walk
  <2> QED BY <2>1 DEF ShotInv, Asking, Asks, Left, hartVars, shotVars
<1>2. CASE Trap(h) \/ IdleEnds(h) \/ ServeNothing(h) \/ ServeTell(h) \/ LockTest(h) \/ LockHalt(h)
  <2>1. /\ UNCHANGED <<hartVars, shotVars>> /\ pc[h] \notin Shooting \cup {"served"}
        /\ \E w \in {"serve", "test", "halt", "entered"} : Goto(h, w)
    BY <1>2 DEF Trap, IdleEnds, ServeNothing, ServeTell, LockTest, LockHalt, AfterServe, Shooting
  <2> QED BY <2>1, OutsideStep DEF Shooting
<1>3. CASE ServeFlush(h)
  BY <1>3, FlushServed
<1>4. CASE ServeClear(h)
  BY <1>4, ClearServed
<1>5. ASSUME pc[h] \in InSection \ Shooting, UNCHANGED shotVars,
             \E w \in {"kernel", "resume", "kmain", "user", "idle"} : Goto(h, w)
      PROVE  ShotInv'
  <2>1. (\A g \in Harts : shoot[g] = NoWord) /\ job' = [job EXCEPT ![h] = NoJob] /\ UNCHANGED shoot
    BY <1>5, NoWords DEF TypeOK, shotVars
  <2> QED BY <1>5, <2>1, Quiet DEF Shooting
<1>6. CASE Entered(h)
  <2>1. CASE left[h] # None /\ left[h] = pid[h]
    BY <1>5, <1>6, <2>1 DEF Entered, InSection, Shooting
  <2>2. CASE ~(left[h] # None /\ left[h] = pid[h])
    BY <1>5, <1>6, <2>2 DEF Entered, InSection, Shooting
  <2> QED BY <2>1, <2>2
<1>7. CASE \/ Nothing(h) \/ \E b \in BOOLEAN : Block(h, b)
           \/ \E f \in Frames : Map(h, f)
           \/ \E q \in Pids : WakeThread(h, q) \/ Spawn(h, q)
  <2>1. pc[h] = "kernel" /\ Goto(h, "resume") /\ UNCHANGED shotVars
    BY <1>7 DEF Nothing, Block, Map, WakeThread, Spawn, Done
  <2> QED BY <1>5, <2>1 DEF InSection, Shooting
<1>8. CASE Exit(h)
  <2>1. pid[h] \in Pids /\ pc[h] = "kernel" /\ Shootdown(h, pid[h], "exit") /\ UNCHANGED hartVars
    BY <1>8 DEF Exit, TypeOK
  <2> QED BY <2>1, ShootdownBegins
<1>9. ASSUME NEW q \in Pids, Unmap(h, q) \/ MovePage(h, q) \/ Kill(h, q) PROVE ShotInv'
  <2>1. \E p \in Pids : \E why \in {"unmap", "move", "exit", "kill"} :
          pc[h] = "kernel" /\ Shootdown(h, p, why) /\ UNCHANGED hartVars
    BY <1>9 DEF Unmap, MovePage, Kill, TypeOK
  <2> QED BY <2>1, ShootdownBegins
<1>10. CASE Ask(h)
  BY <1>10, AskOne
<1>11. CASE AskSend(h)
  BY <1>11, AskSent
<1>12. CASE Asked(h) \/ AwaitAck(h) \/ AckHalt(h)
  BY <1>12, AskedAll
<1>13. CASE ShotPages(h) \/ ShotProcess(h)
  <2>1. /\ pc[h] \in InSection /\ Goto(h, "resume") /\ UNCHANGED shoot
        /\ job' = [job EXCEPT ![h] = NoJob]
    BY <1>13 DEF ShotPages, ShotProcess, InSection, Shooting
  <2>2. \A g \in Harts : shoot[g] = NoWord
    BY <1>13, AllAcked
  <2> QED BY <2>1, <2>2, Quiet DEF Shooting
<1>14. CASE Resume(h) \/ Idle(h) \/ \E p \in Pids : Pick(h, p)
  <2>1. pc[h] \in {"resume", "kmain"} /\ UNCHANGED shotVars
    BY <1>14 DEF Resume, Idle, Pick
  <2>2. \E w \in {"kmain", "user", "resume", "idle"} : Goto(h, w)
    BY <1>14 DEF Resume, Idle, Pick
  <2> QED BY <1>5, <2>1, <2>2 DEF InSection, Shooting
<1> QED
  BY <1>1, <1>2, <1>3, <1>4, <1>6, <1>7, <1>8, <1>9, <1>10, <1>11, <1>12, <1>13, <1>14
  DEF Kernel, Serve, Lock, Operation, Shoot, Leave

----------------------------------------------------------------------------
(* The translations. *)

\* While nobody shoots, or once everyone acknowledged, no hart has still to flush.
LEMMA NothingToFlush ==
  ASSUME TypeOK, Line, ShotInv, NEW h \in Harts,
         pc[h] \in InSection \ Shooting \/ ShotPages(h) \/ ShotProcess(h)
  PROVE  \A g \in Harts, p \in Pids : ~ToFlush(g, p)
<1>1. CASE pc[h] \in InSection \ Shooting
  BY <1>1, NoWords DEF ToFlush
<1>2. CASE ShotPages(h) \/ ShotProcess(h)
  <2>1. \A g \in Harts : shoot[g] = NoWord
    BY <1>2, AllAcked
  <2>2. pc[h] \in Shooting /\ job[h].ask = {}
    BY <1>2 DEF ShotPages, ShotProcess, Shooting, ShotInv, Asking
  <2>3. \A g \in Harts : pc[g] \in Shooting => g = h
    BY <2>2, OneInSection DEF InSection
  <2> QED BY <2>1, <2>2, <2>3 DEF ToFlush
<1> QED BY <1>1, <1>2

\* Then what a hart has cached of the space it is in is its table's, and the frame
\* is its process's.
LEMMA AllCurrent ==
  ASSUME TypeOK, PageInv, \A g \in Harts, p \in Pids : ~ToFlush(g, p)
  PROVE  \A g \in Harts, f \in Frames : satp[g] # None /\ <<satp[g], f>> \in tlb[g] =>
           satp[g] \in Pids /\ page[satp[g]] = f /\ owner[f] = satp[g]
<1> SUFFICES ASSUME NEW g \in Harts, NEW f \in Frames, satp[g] # None, <<satp[g], f>> \in tlb[g]
             PROVE  satp[g] \in Pids /\ page[satp[g]] = f /\ owner[f] = satp[g]
  OBVIOUS
<1>1. satp[g] \in Pids
  BY DEF TypeOK
<1>2. page[satp[g]] = f
  BY <1>1 DEF PageInv, Exact
<1> QED BY <1>1, <1>2, NoneAssumption DEF PageInv, Mapped

\* A step that changes no translation and no table keeps them current, if who
\* has still to flush still has.
LEMMA PageKept ==
  ASSUME TypeOK, PageInv, UNCHANGED <<satp, tlb, stale, page, owner>>,
         \A g \in Harts, p \in Pids : ToFlush(g, p) => ToFlush(g, p)'
  PROVE  PageInv'
<1>1. Owes' /\ Mapped'
  BY DEF PageInv, Owes, Mapped
<1>2. Exact'
  <2> SUFFICES ASSUME NEW g \in Harts, NEW f \in Frames, satp[g] # None, <<satp[g], f>> \in tlb[g]
               PROVE  (page[satp[g]] = f \/ ToFlush(g, satp[g])') /\ owner[f] # "free"
    BY DEF Exact
  <2>1. PICK p \in Pids : p = satp[g]
    BY DEF TypeOK
  <2>2. (page[p] = f \/ ToFlush(g, p)) /\ owner[f] # "free"
    BY <2>1 DEF PageInv, Exact
  <2>3. ToFlush(g, p)' => ToFlush(g, satp[g])'
    BY <2>1
  <2> QED BY <2>1, <2>2, <2>3
<1> QED BY <1>1, <1>2 DEF PageInv

\* What Exact asks of the next state, process by process.
LEMMA ExactNext ==
  ASSUME TypeOK',
         \A g \in Harts, f \in Frames, p \in Pids : satp'[g] = p /\ <<p, f>> \in tlb'[g] =>
           (page'[p] = f \/ ToFlush(g, p)') /\ owner'[f] # "free"
  PROVE  Exact'
<1>1. \A g \in Harts : satp'[g] # None => satp'[g] \in Pids
  BY DEF TypeOK
<1> QED BY <1>1 DEF Exact, ToFlush

\* The walker caches what the table names.
LEMMA WalkPages ==
  ASSUME TypeOK, TypeOK', PageInv, NEW h \in Harts, Walk(h)
  PROVE  PageInv'
<1>1. /\ satp[h] \in Pids /\ page[satp[h]] \in Frames /\ owner[page[satp[h]]] = satp[h]
      /\ tlb' = [tlb EXCEPT ![h] = @ \cup {<<satp[h], page[satp[h]]>>}]
      /\ UNCHANGED <<pc, satp, shoot, job, stale, page, owner>>
  BY DEF Walk, TypeOK, PageInv, Mapped, hartVars, shotVars, procVars
<1>2. \A g \in Harts, p \in Pids : ToFlush(g, p)' <=> ToFlush(g, p)
  BY <1>1 DEF ToFlush
<1>3. \A g \in Harts, p \in Pids, f \in Frames :
        <<p, f>> \in tlb'[g] => <<p, f>> \in tlb[g] \/ (page[p] = f /\ owner[f] = p)
  BY <1>1 DEF TypeOK
<1>4. Owes' /\ Mapped'
  BY <1>1, <1>3 DEF PageInv, Owes, Mapped
<1>5. Exact'
  BY <1>1, <1>2, <1>3, ExactNext, NoneAssumption DEF PageInv, Exact
<1> QED BY <1>4, <1>5 DEF PageInv

\* A served hart drops what it may have cached of the space it is in.
LEMMA FlushPages ==
  ASSUME TypeOK, TypeOK', Line, Spaces, ShotInv, PageInv, NEW h \in Harts, ServeFlush(h)
  PROVE  PageInv'
<1>1. pid[h] = shoot[h].asid /\ pid[h] \in Pids
  BY AskedOwn DEF ServeFlush
<1>2. /\ tlb' = [tlb EXCEPT ![h] = @ \ Of(pid[h])] /\ UNCHANGED <<stale, page, owner, shoot, job>>
      /\ pc[h] = "serve" /\ pc' = [pc EXCEPT ![h] = "served"]
  BY <1>1 DEF ServeFlush, Goto, shotVars, procVars
<1>3. satp'[h] \in {None, pid[h]} /\ \A g \in Harts \ {h} : satp'[g] = satp[g]
  <2>1. satp[h] \in {None, pid[h]}
    BY DEF Spaces
  <2> QED BY <2>1 DEF ServeFlush, TypeOK
<1>4. \A g \in Harts \ {h}, p \in Pids : ToFlush(g, p) => ToFlush(g, p)'
  BY <1>2 DEF ToFlush, Shooting, TypeOK
<1>5. \A g \in Harts, p \in Pids, f \in Frames :
        <<p, f>> \in tlb'[g] => <<p, f>> \in tlb[g] /\ (g = h => p # pid[h])
  BY <1>2 DEF TypeOK, Of
<1>6. Owes' /\ Mapped'
  BY <1>2, <1>5 DEF PageInv, Owes, Mapped
<1>7. Exact'
  BY <1>2, <1>3, <1>4, <1>5, ExactNext, NoneAssumption DEF PageInv, Exact
<1> QED BY <1>6, <1>7 DEF PageInv

\* A frame is mapped where there was none.
LEMMA MapPages ==
  ASSUME TypeOK, TypeOK', Line, ShotInv, PageInv, NEW h \in Harts, NEW f \in Frames, Map(h, f)
  PROVE  PageInv'
<1>1. PICK p \in Pids : p = pid[h]
  BY DEF Map, TypeOK
<1>2. /\ page[p] = None /\ page' = [page EXCEPT ![p] = f]
      /\ owner[f] = "free" /\ owner' = [owner EXCEPT ![f] = p]
      /\ tlb' = [tlb EXCEPT ![h] = @ \ Of(p)]
      /\ stale' = [stale EXCEPT ![p] = @ \cup (Harts \ {h})]
      /\ UNCHANGED satp /\ pc[h] = "kernel"
  BY <1>1 DEF Map, Flush, hartVars
<1>3. \A g \in Harts, e \in Frames : satp[g] # None /\ <<satp[g], e>> \in tlb[g] =>
        satp[g] \in Pids /\ page[satp[g]] = e /\ owner[e] = satp[g]
  BY <1>2, NothingToFlush, AllCurrent DEF InSection, Shooting
<1>4. \A g \in Harts, q \in Pids, e \in Frames :
        <<q, e>> \in tlb'[g] => <<q, e>> \in tlb[g] /\ (g = h => q # p)
  BY <1>2 DEF TypeOK, Of
<1>5. Owes'
  BY <1>2, <1>4 DEF PageInv, Owes, TypeOK
<1>6. Mapped'
  BY <1>2, NoneAssumption DEF PageInv, Mapped, TypeOK
<1>7. Exact'
  BY <1>2, <1>3, <1>4, ExactNext, NoneAssumption DEF TypeOK
<1> QED BY <1>5, <1>6, <1>7 DEF PageInv

\* A hart that writes in another space, and is back in its own, flushes what it owes both.
LEMMA WakePages ==
  ASSUME TypeOK, TypeOK', Line, ShotInv, PageInv, NEW h \in Harts, NEW q \in Pids, WakeThread(h, q)
  PROVE  PageInv'
<1>1. pc[h] = "kernel" /\ Goto(h, "resume") /\ UNCHANGED <<satp, page, owner>>
  BY DEF WakeThread, Done, hartVars
<1>2. \A g \in Harts, e \in Frames : satp[g] # None /\ <<satp[g], e>> \in tlb[g] =>
        satp[g] \in Pids /\ page[satp[g]] = e /\ owner[e] = satp[g]
  BY <1>1, NothingToFlush, AllCurrent DEF InSection, Shooting
<1>3. CASE q = pid[h]
  <2>1. UNCHANGED <<tlb, stale>>
    BY <1>3 DEF WakeThread
  <2>2. Owes' /\ Mapped'
    BY <1>1, <2>1 DEF PageInv, Owes, Mapped
  <2>3. Exact'
    BY <1>1, <1>2, <2>1, ExactNext, NoneAssumption DEF TypeOK
  <2> QED BY <2>2, <2>3 DEF PageInv
<1>4. CASE q # pid[h]
  <2>1. PICK seen \in SUBSET (Translations \cap {<<q, page[q]>>}) :
          /\ tlb' = [tlb EXCEPT ![h] = (@ \ Owed(h, {q, pid[h]})) \cup seen]
          /\ stale' = [r \in Pids |-> stale[r] \ (IF r \in {q, pid[h]} THEN {h} ELSE {})]
    BY <1>4 DEF WakeThread
  <2>2. \A g \in Harts, r \in Pids, f \in Frames : <<r, f>> \in tlb'[g] =>
          \/ r = q /\ page[q] = f
          \/ <<r, f>> \in tlb[g] /\ (g = h /\ r \in {q, pid[h]} => h \notin stale[r])
    BY <2>1 DEF TypeOK, Owed, Of
  <2>3. \A g \in Harts, r \in Pids : g \in stale[r] => g \in stale'[r] \/ (g = h /\ r \in {q, pid[h]})
    BY <2>1
  <2>4. Owes' /\ Mapped'
    BY <1>1, <2>2, <2>3 DEF PageInv, Owes, Mapped
  <2>5. Exact'
    <3> SUFFICES ASSUME NEW g \in Harts, NEW f \in Frames, NEW p \in Pids,
                        satp[g] = p, <<p, f>> \in tlb'[g]
                 PROVE  page[p] = f /\ owner[f] # "free"
      BY <1>1, ExactNext
    <3>1. page[p] = f
      BY <1>2, <2>2, NoneAssumption
    <3> QED BY <3>1, NoneAssumption DEF PageInv, Mapped, TypeOK
  <2> QED BY <2>4, <2>5 DEF PageInv
<1> QED BY <1>3, <1>4

\* A PID given out is flushed.
LEMMA SpawnPages ==
  ASSUME TypeOK, TypeOK', Line, ShotInv, PageInv, NEW h \in Harts, NEW q \in Pids, Spawn(h, q)
  PROVE  PageInv'
<1>1. /\ pc[h] = "kernel" /\ UNCHANGED <<satp, page, owner>>
      /\ tlb' = [tlb EXCEPT ![h] = @ \ Of(q)]
      /\ stale' = [stale EXCEPT ![q] = @ \cup (Harts \ {h})]
  BY DEF Spawn, Flush, hartVars
<1>2. \A g \in Harts, e \in Frames : satp[g] # None /\ <<satp[g], e>> \in tlb[g] =>
        satp[g] \in Pids /\ page[satp[g]] = e /\ owner[e] = satp[g]
  BY <1>1, NothingToFlush, AllCurrent DEF InSection, Shooting
<1>3. \A g \in Harts, p \in Pids, e \in Frames : <<p, e>> \in tlb'[g] => <<p, e>> \in tlb[g]
  BY <1>1 DEF TypeOK
<1>4. Owes' /\ Mapped'
  BY <1>1, <1>3 DEF PageInv, Owes, Mapped, TypeOK
<1>5. Exact'
  BY <1>1, <1>2, <1>3, ExactNext, NoneAssumption DEF TypeOK
<1> QED BY <1>4, <1>5 DEF PageInv

\* A shootdown begun asks every other hart in the process's space.
LEMMA BegunToFlush ==
  ASSUME TypeOK, Spaces, NEW h \in Harts, NEW p \in Pids, NEW why, Shootdown(h, p, why)
  PROVE  \A g \in Harts \ {h} : satp[g] = p => ToFlush(g, p)'
<1>1. /\ pc'[h] \in Shooting /\ job'[h].pid = p
      /\ job'[h].ask = {g \in Harts \ {h} : Runs(g, p)}
  BY DEF Shootdown, Goto, Shooting, TypeOK
<1>2. \A g \in Harts : satp[g] = p => Runs(g, p)
  BY NoneAssumption DEF Spaces, Runs
<1> QED BY <1>1, <1>2 DEF ToFlush

\* A page unmapped: the harts in its space have still to flush, and its frame is in flight.
LEMMA UnmapPages ==
  ASSUME TypeOK, TypeOK', Line, Spaces, ShotInv, PageInv, NEW h \in Harts, NEW q \in Pids, Unmap(h, q)
  PROVE  PageInv'
<1>1. /\ page[q] \in Frames /\ page' = [page EXCEPT ![q] = None]
      /\ owner' = [owner EXCEPT ![page[q]] = "inflight"]
      /\ tlb' = [tlb EXCEPT ![h] = @ \ Of(q)]
      /\ stale' = [stale EXCEPT ![q] = @ \cup (Harts \ {h})]
      /\ UNCHANGED satp /\ pc[h] = "kernel"
  BY DEF Unmap, Flush, hartVars, TypeOK
<1>2. \A g \in Harts \ {h} : satp[g] = q => ToFlush(g, q)'
  BY BegunToFlush DEF Unmap
<1>3. \A g \in Harts, e \in Frames : satp[g] # None /\ <<satp[g], e>> \in tlb[g] =>
        satp[g] \in Pids /\ page[satp[g]] = e /\ owner[e] = satp[g]
  BY <1>1, NothingToFlush, AllCurrent DEF InSection, Shooting
<1>4. \A g \in Harts, p \in Pids, e \in Frames :
        <<p, e>> \in tlb'[g] => <<p, e>> \in tlb[g] /\ (g = h => p # q)
  BY <1>1 DEF TypeOK, Of
<1>5. Owes'
  BY <1>1, <1>4 DEF PageInv, Owes, TypeOK
<1>6. Mapped'
  BY <1>1, NoneAssumption DEF PageInv, Mapped, TypeOK
<1>7. Exact'
  BY <1>1, <1>2, <1>3, <1>4, ExactNext, NoneAssumption DEF TypeOK
<1> QED BY <1>5, <1>6, <1>7 DEF PageInv

\* A page moved: the harts in the space it leaves have still to flush.
LEMMA MovePages ==
  ASSUME TypeOK, TypeOK', Line, Spaces, ShotInv, PageInv, NEW h \in Harts, NEW q \in Pids, MovePage(h, q)
  PROVE  PageInv'
<1>1. PICK p \in Pids : p = pid[h] /\ p # q
  BY DEF MovePage, TypeOK
<1>2. /\ page[p] \in Frames /\ page[q] = None /\ page' = [page EXCEPT ![p] = None, ![q] = page[p]]
      /\ owner' = [owner EXCEPT ![page[p]] = q]
      /\ tlb' = [tlb EXCEPT ![h] = @ \ (Of(p) \cup Of(q))]
      /\ stale' = [stale EXCEPT ![p] = @ \cup (Harts \ {h}), ![q] = @ \cup (Harts \ {h})]
      /\ UNCHANGED satp /\ pc[h] = "kernel" /\ Shootdown(h, p, "move")
  BY <1>1 DEF MovePage, hartVars, TypeOK
<1>3. \A g \in Harts \ {h} : satp[g] = p => ToFlush(g, p)'
  BY <1>2, BegunToFlush
<1>4. \A g \in Harts, e \in Frames : satp[g] # None /\ <<satp[g], e>> \in tlb[g] =>
        satp[g] \in Pids /\ page[satp[g]] = e /\ owner[e] = satp[g]
  BY <1>2, NothingToFlush, AllCurrent DEF InSection, Shooting
<1>5. \A g \in Harts, r \in Pids, e \in Frames :
        <<r, e>> \in tlb'[g] => <<r, e>> \in tlb[g] /\ (g = h => r \notin {p, q})
  BY <1>2 DEF TypeOK, Of
<1>6. /\ page'[p] = None /\ page'[q] = page[p] /\ \A r \in Pids \ {p, q} : page'[r] = page[r]
      /\ owner'[page[p]] = q /\ \A f \in Frames \ {page[p]} : owner'[f] = owner[f]
  BY <1>1, <1>2 DEF TypeOK
<1>7. /\ \A g \in Harts \ {h} : g \in stale'[p] /\ g \in stale'[q]
      /\ \A r \in Pids \ {p, q} : stale'[r] = stale[r]
  BY <1>1, <1>2 DEF TypeOK
<1>8. Owes'
  BY <1>5, <1>6, <1>7 DEF PageInv, Owes
<1>9. Mapped'
  <2> SUFFICES ASSUME NEW r \in Pids, page'[r] # None PROVE owner'[page'[r]] = r
    BY DEF Mapped
  <2>1. CASE r = q
    BY <1>6, <2>1
  <2>2. CASE r # q
    <3>1. r # p /\ page'[r] = page[r] /\ page[r] \in Frames /\ owner[page[r]] = r
      BY <1>6, <2>2 DEF PageInv, Mapped, TypeOK
    <3>2. page[r] # page[p]
      BY <1>2, <3>1, NoneAssumption DEF PageInv, Mapped
    <3> QED BY <1>6, <3>1, <3>2
  <2> QED BY <2>1, <2>2
<1>10. Exact'
  <2> SUFFICES ASSUME NEW g \in Harts, NEW f \in Frames, NEW r \in Pids,
                      satp[g] = r, <<r, f>> \in tlb'[g]
               PROVE  (page'[r] = f \/ ToFlush(g, r)') /\ owner'[f] # "free"
    BY <1>2, ExactNext
  <2>1. page[r] = f /\ owner[f] = r /\ (g = h => r \notin {p, q})
    BY <1>4, <1>5, NoneAssumption
  <2>2. r # q
    BY <1>2, <2>1, NoneAssumption
  <2>3. owner'[f] # "free"
    BY <1>6, <2>1, NoneAssumption
  <2> QED BY <1>3, <1>6, <2>1, <2>2, <2>3
<1> QED BY <1>8, <1>9, <1>10 DEF PageInv

\* Acknowledged, frames in flight are free: no hart can reach one.
LEMMA ShotPagesPages ==
  ASSUME TypeOK, TypeOK', Line, ShotInv, PageInv, NEW h \in Harts, ShotPages(h)
  PROVE  PageInv'
<1>1. /\ owner' = [f \in Frames |-> IF owner[f] = "inflight" THEN "free" ELSE owner[f]]
      /\ UNCHANGED <<satp, tlb, stale, page>>
  BY DEF ShotPages, hartVars
<1>2. \A g \in Harts, e \in Frames : satp[g] # None /\ <<satp[g], e>> \in tlb[g] =>
        satp[g] \in Pids /\ page[satp[g]] = e /\ owner[e] = satp[g]
  BY NothingToFlush, AllCurrent
<1>3. Owes'
  BY <1>1 DEF PageInv, Owes
<1>4. Mapped'
  BY <1>1, NoneAssumption DEF PageInv, Mapped, TypeOK
<1>5. Exact'
  BY <1>1, <1>2, ExactNext, NoneAssumption DEF TypeOK
<1> QED BY <1>3, <1>4, <1>5 DEF PageInv

\* A process destroyed: no hart is in its space, and every hart owes its ASID a flush.
LEMMA ShotProcessPages ==
  ASSUME TypeOK, TypeOK', Line, Spaces, ShotInv, PageInv, NEW h \in Harts, ShotProcess(h)
  PROVE  PageInv'
<1>1. PICK p \in Pids : p = job[h].pid
  BY JobTyped DEF ShotProcess, ShotInv, Shooting
<1>2. /\ owner' = [f \in Frames |-> IF owner[f] = p THEN "free" ELSE owner[f]]
      /\ page' = [page EXCEPT ![p] = None]
      /\ tlb' = [tlb EXCEPT ![h] = @ \ (Of(p) \cup Owed(h, {pid[h]}))]
      /\ stale' = [q \in Pids |-> IF q = p THEN stale[p] \cup (Harts \ {h})
                                  ELSE stale[q] \ (IF q = pid[h] THEN {h} ELSE {})]
  BY <1>1 DEF ShotProcess
<1>3. \A g \in Harts : satp'[g] # p /\ (satp'[g] # None => satp'[g] = satp[g])
  <2>1. \A g \in Harts \ {h} : satp[g] # p
    BY <1>1, AllLeft, NoneAssumption DEF Spaces
  <2>2. CASE pid[h] = p
    BY <1>1, <2>1, <2>2, NoneAssumption DEF ShotProcess, TypeOK
  <2>3. CASE pid[h] # p
    BY <1>1, <2>1, <2>3, NoneAssumption DEF ShotProcess, TypeOK, Spaces, hartVars
  <2> QED BY <2>2, <2>3
<1>4. \A g \in Harts, e \in Frames : satp[g] # None /\ <<satp[g], e>> \in tlb[g] =>
        satp[g] \in Pids /\ page[satp[g]] = e /\ owner[e] = satp[g]
  BY NothingToFlush, AllCurrent
<1>5. \A g \in Harts, q \in Pids, e \in Frames : <<q, e>> \in tlb'[g] =>
        <<q, e>> \in tlb[g] /\ (g = h => q # p /\ (q = pid[h] => h \notin stale[q]))
  BY <1>2 DEF TypeOK, Of, Owed
<1>6. Owes'
  BY <1>2, <1>5 DEF PageInv, Owes, TypeOK
<1>7. Mapped'
  BY <1>2, NoneAssumption DEF PageInv, Mapped, TypeOK
<1>8. Exact'
  <2> SUFFICES ASSUME NEW g \in Harts, NEW f \in Frames, NEW q \in Pids,
                      satp'[g] = q, <<q, f>> \in tlb'[g]
               PROVE  page'[q] = f /\ owner'[f] # "free"
    BY ExactNext
  <2>1. q # p /\ page[q] = f /\ owner[f] = q
    BY <1>3, <1>4, <1>5, NoneAssumption
  <2> QED BY <1>2, <2>1, NoneAssumption DEF TypeOK
<1> QED BY <1>6, <1>7, <1>8 DEF PageInv

\* A hart enters a space with the flush it owes done.
LEMMA PickPages ==
  ASSUME TypeOK, TypeOK', Line, ShotInv, PageInv, NEW h \in Harts, NEW p \in Pids, Pick(h, p)
  PROVE  PageInv'
<1>1. /\ tlb' = [tlb EXCEPT ![h] = @ \ Owed(h, {p})]
      /\ stale' = [stale EXCEPT ![p] = @ \ {h}]
      /\ satp' = [satp EXCEPT ![h] = p]
      /\ UNCHANGED <<page, owner>> /\ pc[h] = "kmain"
  BY DEF Pick, Install, Current
<1>2. \A g \in Harts, e \in Frames : satp[g] # None /\ <<satp[g], e>> \in tlb[g] =>
        satp[g] \in Pids /\ page[satp[g]] = e /\ owner[e] = satp[g]
  BY <1>1, NothingToFlush, AllCurrent DEF InSection, Shooting
<1>3. \A g \in Harts, q \in Pids, e \in Frames : <<q, e>> \in tlb'[g] =>
        <<q, e>> \in tlb[g] /\ (g = h /\ q = p => h \notin stale[q])
  BY <1>1 DEF TypeOK, Of, Owed
<1>4. Owes' /\ Mapped'
  <2>1. \A g \in Harts, q \in Pids : g \in stale[q] => g \in stale'[q] \/ (g = h /\ q = p)
    BY <1>1 DEF TypeOK
  <2> QED BY <1>1, <1>3, <2>1, ZenonT(60) DEF PageInv, Owes, Mapped
<1>5. Exact'
  <2> SUFFICES ASSUME NEW g \in Harts, NEW f \in Frames, NEW q \in Pids,
                      satp'[g] = q, <<q, f>> \in tlb'[g]
               PROVE  page[q] = f /\ owner[f] # "free"
    BY <1>1, ExactNext
  <2>1. page[q] = f
    <3>1. CASE g = h
      <4>1. q = p
        BY <1>1, <3>1 DEF TypeOK
      <4>2. <<q, f>> \in tlb[g] /\ g \notin stale[q]
        BY <1>3, <3>1, <4>1
      <4> QED BY <4>2 DEF PageInv, Owes
    <3>2. CASE g # h
      BY <1>1, <1>2, <1>3, <3>2, NoneAssumption DEF TypeOK
    <3> QED BY <3>1, <3>2
  <2> QED BY <2>1, NoneAssumption DEF PageInv, Mapped, TypeOK
<1> QED BY <1>4, <1>5 DEF PageInv

\* Each step keeps the translations current, but where a flush is still to come.
LEMMA PageStep ==
  ASSUME TypeOK, TypeOK', Line, Spaces, ShotInv, PageInv,
         NEW h \in Harts, Kernel(h) \/ Trap(h) \/ IdleEnds(h) \/ Walk(h)
  PROVE  PageInv'
<1> USE DEF shotVars, hartVars, procVars
<1>1. CASE Walk(h)
  BY <1>1, WalkPages
<1>2. CASE Trap(h) \/ IdleEnds(h) \/ ServeNothing(h) \/ ServeTell(h) \/ LockTest(h) \/ LockHalt(h)
  <2>1. /\ UNCHANGED <<satp, tlb, stale, page, owner, shoot, job>>
        /\ pc[h] \notin Shooting \cup {"served"}
        /\ \E w \in {"serve", "test", "halt", "entered"} : Goto(h, w)
    BY <1>2 DEF Trap, IdleEnds, ServeNothing, ServeTell, LockTest, LockHalt, AfterServe, Shooting
  <2>2. /\ \A g \in Harts \ {h} : pc'[g] = pc[g]
        /\ pc'[h] \notin Shooting \cup {"served"}
    BY <2>1 DEF Goto, TypeOK, Shooting
  <2>3. \A g \in Harts, p \in Pids : ToFlush(g, p) => ToFlush(g, p)'
    BY <2>1, <2>2 DEF ToFlush
  <2> QED BY <2>1, <2>3, PageKept
<1>3. CASE ServeFlush(h)
  BY <1>3, FlushPages
<1>4. CASE ServeClear(h)
  <2>1. /\ UNCHANGED <<satp, tlb, stale, page, owner, job>>
        /\ shoot' = [shoot EXCEPT ![h] = NoWord] /\ pc[h] = "served" /\ Goto(h, "tell")
    BY <1>4 DEF ServeClear
  <2>2. shoot[h] # NoWord
    BY <2>1 DEF ShotInv, Asks
  <2>3. \A p \in Pids : ~ToFlush(h, p)
    BY <2>1, <2>2, AskedBy DEF ToFlush
  <2>4. \A g \in Harts \ {h} : pc'[g] = pc[g] /\ shoot'[g] = shoot[g]
    BY <2>1 DEF Goto, TypeOK
  <2>5. \A g \in Harts, p \in Pids : ToFlush(g, p) => ToFlush(g, p)'
    BY <2>1, <2>3, <2>4 DEF ToFlush, Shooting
  <2> QED BY <2>1, <2>5, PageKept
<1>5. ASSUME pc[h] \in InSection \ Shooting, UNCHANGED <<tlb, stale, page, owner>>,
             UNCHANGED satp \/ satp' = [satp EXCEPT ![h] = None]
      PROVE  PageInv'
  <2>1. \A g \in Harts, e \in Frames : satp[g] # None /\ <<satp[g], e>> \in tlb[g] =>
          satp[g] \in Pids /\ page[satp[g]] = e /\ owner[e] = satp[g]
    BY <1>5, NothingToFlush, AllCurrent
  <2>2. Owes' /\ Mapped'
    BY <1>5 DEF PageInv, Owes, Mapped
  <2>3. \A g \in Harts : satp'[g] \in {satp[g], None}
    BY <1>5 DEF TypeOK
  <2>4. Exact'
    BY <1>5, <2>1, <2>3, ExactNext, NoneAssumption DEF TypeOK
  <2> QED BY <2>2, <2>4 DEF PageInv
<1>6. CASE Entered(h)
  <2>1. CASE left[h] # None /\ left[h] = pid[h]
    BY <1>5, <1>6, <2>1 DEF Entered, Current, InSection, Shooting
  <2>2. CASE ~(left[h] # None /\ left[h] = pid[h])
    BY <1>5, <1>6, <2>2 DEF Entered, InSection, Shooting
  <2> QED BY <2>1, <2>2
<1>7. CASE Nothing(h) \/ Exit(h) \/ \E q \in Pids : Kill(h, q)
  BY <1>5, <1>7 DEF Nothing, Exit, Kill, InSection, Shooting
<1>8. ASSUME NEW b \in BOOLEAN, Block(h, b) PROVE PageInv'
  BY <1>5, <1>8 DEF Block, Current, InSection, Shooting
<1>9. ASSUME NEW f \in Frames, Map(h, f) PROVE PageInv'
  BY <1>9, MapPages
<1>10. ASSUME NEW q \in Pids, WakeThread(h, q) \/ Spawn(h, q) \/ Unmap(h, q) \/ MovePage(h, q)
       PROVE  PageInv'
  BY <1>10, WakePages, SpawnPages, UnmapPages, MovePages
<1>11. CASE Ask(h)
  <2>1. PICK g \in job[h].ask :
          /\ shoot' = [shoot EXCEPT ![g] = [asid |-> job[h].pid, leave |-> job[h].why \in {"exit", "kill"}]]
          /\ job' = [job EXCEPT ![h].ask = @ \ {g}, ![h].asked = @ \cup {g}, ![h].send = g]
    BY <1>11 DEF Ask
  <2>2. UNCHANGED <<satp, tlb, stale, page, owner, pc>> /\ pc[h] \in Shooting
    BY <1>11 DEF Ask, Shooting
  <2>3. job[h] \in Jobs \ {NoJob} /\ job[h].pid \in Pids /\ g \in Harts
    BY <2>2, JobTyped DEF ShotInv, TypeOK
  <2>4. /\ job'[h].pid = job[h].pid /\ job'[h].ask = job[h].ask \ {g}
        /\ job'[h].asked = job[h].asked \cup {g}
        /\ \A s \in Harts \ {h} : job'[s] = job[s]
    BY <2>1, <2>3 DEF TypeOK, Jobs
  <2>5. shoot'[g] # NoWord /\ \A f \in Harts \ {g} : shoot'[f] = shoot[f]
    BY <2>1, <2>3, NoneAssumption DEF TypeOK, NoWord
  <2>6. pc[g] # "served"
    BY <2>2, <2>3, AskedBy DEF ShotInv, Asks
  <2>7. \A f \in Harts, p \in Pids : ToFlush(f, p) => ToFlush(f, p)'
    BY <2>2, <2>4, <2>5, <2>6 DEF ToFlush
  <2> QED BY <2>2, <2>7, PageKept
<1>12. CASE AskSend(h) \/ Asked(h) \/ AwaitAck(h) \/ AckHalt(h)
  <2>1. UNCHANGED <<satp, tlb, stale, page, owner, shoot>> /\ pc[h] \in Shooting
    BY <1>12 DEF AskSend, Asked, AwaitAck, AckHalt, Shooting
  <2>2. /\ pc'[h] \in Shooting /\ \A g \in Harts \ {h} : pc'[g] = pc[g]
    BY <1>12 DEF AskSend, Asked, AwaitAck, AckHalt, Shooting, Goto, TypeOK
  <2>3. job[h] \in Jobs \ {NoJob}
    BY <2>1, JobTyped DEF ShotInv, TypeOK
  <2>4. \A g \in Harts : /\ job'[g].pid = job[g].pid /\ job'[g].ask = job[g].ask
                         /\ job'[g].asked = job[g].asked
    <3>1. CASE AskSend(h)
      BY <2>3, <3>1 DEF AskSend, TypeOK, Jobs
    <3>2. CASE Asked(h) \/ AwaitAck(h) \/ AckHalt(h)
      BY <3>2 DEF Asked, AwaitAck, AckHalt
    <3> QED BY <1>12, <3>1, <3>2
  <2>5. \A f \in Harts, p \in Pids : ToFlush(f, p) => ToFlush(f, p)'
    BY <2>1, <2>2, <2>4 DEF ToFlush, Shooting
  <2> QED BY <2>1, <2>5, PageKept
<1>13. CASE ShotPages(h) \/ ShotProcess(h)
  BY <1>13, ShotPagesPages, ShotProcessPages
<1>14. CASE Resume(h) \/ Idle(h)
  BY <1>5, <1>14 DEF Resume, Idle, InSection, Shooting
<1>15. ASSUME NEW p \in Pids, Pick(h, p) PROVE PageInv'
  BY <1>15, PickPages
<1> QED
  BY <1>1, <1>2, <1>3, <1>4, <1>6, <1>7, <1>8, <1>9, <1>10, <1>11, <1>12, <1>13, <1>14, <1>15
  DEF Kernel, Serve, Lock, Operation, Shoot, Leave

----------------------------------------------------------------------------
(* Interrupts and wakes. *)

\* A ready thread is counted among what no hart runs, whether its process runs or not.
LEMMA ReadyUnrun ==
  ASSUME TypeOK, Alive, NEW p \in Pids, ready[p] > 0
  PROVE  Unrun > 0
<1> DEFINE A == {q \in live : ready[q] > 0 /\ ~Running(q)}
           B == {x \in live \X (1 .. MaxThreads) : x[2] <= ready[x[1]] /\ Running(x[1])}
<1>1. IsFiniteSet(live) /\ IsFiniteSet(1 .. MaxThreads)
  <2>1. IsFiniteSet(live)
    BY HartsAssumption, FS_Subset DEF TypeOK
  <2>2. IsFiniteSet(1 .. MaxThreads)
    BY ThreadsAssumption, FS_Interval
  <2> QED BY <2>1, <2>2
<1>2. IsFiniteSet(live \X (1 .. MaxThreads))
  BY <1>1, FS_Product
<1>3. IsFiniteSet(A) /\ IsFiniteSet(B)
  <2>1. A \in SUBSET live /\ B \in SUBSET (live \X (1 .. MaxThreads))
    OBVIOUS
  <2> QED BY <1>1, <1>2, <2>1, FS_Subset
<1>4. p \in live /\ ready[p] \in Nat
  BY ThreadsAssumption DEF Alive, TypeOK
<1>5. A # {} \/ B # {}
  <2>1. CASE Running(p)
    <3>1. <<p, 1>> \in B
      BY <1>4, <2>1, ThreadsAssumption
    <3> QED BY <3>1
  <2>2. CASE ~Running(p)
    BY <1>4, <2>2
  <2> QED BY <2>1, <2>2
<1>6. Cardinality(A) \in Nat /\ Cardinality(B) \in Nat /\ (Cardinality(A) # 0 \/ Cardinality(B) # 0)
  BY <1>3, <1>5, FS_CardinalityType, FS_EmptySet
<1>7. Unrun = Cardinality(A) + Cardinality(B)
  BY DEF Unrun
<1> QED BY <1>6, <1>7

\* Each step keeps the idle marks.
LEMMA MarksStep ==
  ASSUME TypeOK, Line, Marks,
         NEW h \in Harts, Kernel(h) \/ Trap(h) \/ IdleEnds(h) \/ Walk(h)
  PROVE  Marks'
<1> USE DEF lockVars, Shooting
<1>1. ASSUME UNCHANGED idle, NEW w, w \notin {"idle", "user", "kernel", "resume", "kmain"} \cup Shooting,
             Goto(h, w), ipi \ {h} \subseteq ipi'
      PROVE  Marks'
  BY <1>1 DEF Marks, Goto, TypeOK
<1>2. ASSUME UNCHANGED idle, NEW w, w # "idle", Goto(h, w), ipi \ {h} \subseteq ipi', h \notin idle
      PROVE  Marks'
  BY <1>2 DEF Marks, Goto, TypeOK
<1>3. CASE Trap(h) \/ IdleEnds(h) \/ Serve(h) \/ Lock(h)
  <2>1. UNCHANGED idle /\ ipi \ {h} \subseteq ipi'
    BY <1>3 DEF Trap, IdleEnds, Serve, Lock, ServeNothing, ServeFlush, ServeClear, ServeTell, LockTest, LockHalt
  <2>2. \E w \in {"serve", "served", "tell", "test", "halt", "entered"} : Goto(h, w)
    BY <1>3 DEF Trap, IdleEnds, Serve, Lock, ServeNothing, ServeFlush, ServeClear, ServeTell, LockTest, LockHalt, AfterServe
  <2> QED BY <1>1, <2>1, <2>2
<1>4. CASE Walk(h) \/ Ask(h) \/ AskSend(h)
  <2>1. UNCHANGED <<pc, idle>> /\ ipi \subseteq ipi'
    BY <1>4 DEF Walk, Ask, AskSend
  <2> QED BY <2>1 DEF Marks
<1>5. CASE Entered(h)
  <2>1. /\ idle' = idle \ {h} /\ ipi \ {h} \subseteq ipi'
        /\ Goto(h, "resume") \/ Goto(h, "kernel")
    <3>1. CASE left[h] # None /\ left[h] = pid[h]
      BY <1>5, <3>1 DEF Entered
    <3>2. CASE ~(left[h] # None /\ left[h] = pid[h])
      BY <1>5, <3>2 DEF Entered
    <3> QED BY <3>1, <3>2
  <2> QED BY <2>1 DEF Marks, Goto, TypeOK
<1>6. CASE Operation(h)
  <2>1. pc[h] = "kernel" /\ UNCHANGED <<idle, ipi>> /\ (Goto(h, "resume") \/ Goto(h, "ask"))
    BY <1>6 DEF Operation, Nothing, Exit, Block, Map, WakeThread, Spawn, Unmap, MovePage, Kill, Shootdown, Done
  <2>2. h \notin idle
    BY <2>1 DEF Marks
  <2> QED BY <1>2, <2>1, <2>2
<1>7. CASE Asked(h) \/ AwaitAck(h) \/ AckHalt(h) \/ ShotPages(h) \/ ShotProcess(h)
  <2>1. /\ pc[h] \in Shooting /\ UNCHANGED idle /\ ipi \ {h} \subseteq ipi'
        /\ \E w \in {"acks", "ackhalt", "resume"} : Goto(h, w)
    BY <1>7 DEF Asked, AwaitAck, AckHalt, ShotPages, ShotProcess
  <2>2. h \notin idle
    BY <2>1 DEF Marks
  <2> QED BY <1>2, <2>1, <2>2
<1>8. CASE Resume(h)
  <2>1. PICK sent \in {{}} \cup {{g} : g \in Harts} :
          /\ IF Unrun > (IF pid[h] = None THEN 1 ELSE 0)
             THEN WakeIdle(h, sent) ELSE sent = {} /\ UNCHANGED idle
          /\ IF pid[h] = None
             THEN Goto(h, "kmain") /\ ipi' = ipi \cup sent /\ UNCHANGED queue
             ELSE Goto(h, "user") /\ Unlock(h, sent)
    BY <1>8 DEF Resume
  <2>2. idle' \subseteq idle /\ idle \subseteq idle' \cup sent
    BY <2>1 DEF WakeIdle
  <2>3. ipi \cup sent \subseteq ipi' /\ (Goto(h, "kmain") \/ Goto(h, "user"))
    BY <2>1 DEF Unlock
  <2>4. h \notin idle
    BY <1>8 DEF Resume, Marks
  <2> QED BY <2>2, <2>3, <2>4 DEF Marks, Goto, TypeOK
<1>9. ASSUME NEW p \in Pids, Pick(h, p) PROVE Marks'
  <2>1. pc[h] = "kmain" /\ UNCHANGED <<idle, ipi>> /\ Goto(h, "resume")
    BY <1>9 DEF Pick
  <2>2. h \notin idle
    BY <2>1 DEF Marks
  <2> QED BY <1>2, <2>1, <2>2
<1>10. CASE Idle(h)
  <2>1. idle' = idle \cup {h} /\ ipi \subseteq ipi' /\ Goto(h, "idle")
    BY <1>10 DEF Idle, Unlock
  <2> QED BY <2>1 DEF Marks, Goto, TypeOK
<1> QED
  BY <1>3, <1>4, <1>5, <1>6, <1>7, <1>8, <1>9, <1>10 DEF Kernel, Shoot, Leave

\* Each step keeps a wake under way while there is work.
LEMMA WorkStep ==
  ASSUME TypeOK, Line, Alive, Marks, NoLostWork,
         NEW h \in Harts, Kernel(h) \/ Trap(h) \/ IdleEnds(h) \/ Walk(h)
  PROVE  NoLostWork'
<1>1. CASE Resume(h) /\ pid[h] # None
  <2> SUFFICES ASSUME NEW p \in Pids, ready'[p] > 0, NEW x \in Harts, pc'[x] = "idle", x \notin ipi'
               PROVE  \E g \in Harts : pc'[g] \notin Away \/ (pc'[g] = "idle" /\ g \in ipi')
    BY DEF NoLostWork
  <2>1. UNCHANGED ready /\ Unrun > 0
    <3>1. UNCHANGED ready
      BY <1>1 DEF Resume, procVars
    <3> QED BY <3>1, ReadyUnrun
  <2>2. PICK sent \in {{}} \cup {{g} : g \in Harts} :
          /\ IF Unrun > 0 THEN WakeIdle(h, sent) ELSE sent = {} /\ UNCHANGED idle
          /\ Goto(h, "user") /\ Unlock(h, sent)
    BY <1>1 DEF Resume
  <2>3. WakeIdle(h, sent) /\ pc' = [pc EXCEPT ![h] = "user"] /\ ipi \cup sent \subseteq ipi'
    BY <2>1, <2>2 DEF Goto, Unlock
  <2>4. x # h /\ pc[x] = "idle" /\ x \notin ipi
    BY <2>3 DEF TypeOK
  <2>5. x \in idle \ {h}
    BY <2>4 DEF Marks
  <2>6. PICK g \in idle \ {h} : sent = {g}
    BY <2>3, <2>5 DEF WakeIdle
  <2>7. g \in Harts /\ g # h /\ pc'[g] = pc[g] /\ pc[g] # "user" /\ g \in ipi'
    BY <2>3, <2>6 DEF TypeOK, Marks
  <2> QED BY <2>7 DEF Away
<1>2. CASE Idle(h)
  <2>1. \A p \in Pids : ready'[p] = 0
    BY <1>2 DEF Idle, procVars
  <2> QED BY <2>1 DEF NoLostWork
<1>3. CASE Walk(h)
  BY <1>3 DEF Walk, NoLostWork, procVars
<1>4. ASSUME pc'[h] \notin Away PROVE NoLostWork'
  BY <1>4 DEF NoLostWork
<1>5. CASE Ask(h) \/ AskSend(h)
  BY <1>4, <1>5 DEF Ask, AskSend, Away
<1>6. ASSUME NEW w \in Serving \cup {"test", "halt"} \cup InSection, Goto(h, w) PROVE NoLostWork'
  BY <1>4, <1>6 DEF Goto, TypeOK, Away, Serving, InSection, Shooting
<1>7. CASE Trap(h) \/ IdleEnds(h) \/ Serve(h) \/ Lock(h)
  <2>1. \E w \in {"serve", "served", "tell", "test", "halt", "entered"} : Goto(h, w)
    BY <1>7 DEF Trap, IdleEnds, Serve, Lock, ServeNothing, ServeFlush, ServeClear, ServeTell, LockTest, LockHalt, AfterServe
  <2> QED BY <1>6, <2>1 DEF Serving, InSection
<1>8. CASE Entered(h)
  BY <1>6, <1>8 DEF Entered, InSection
<1>9. CASE Operation(h)
  <2>1. Goto(h, "resume") \/ Goto(h, "ask")
    BY <1>9 DEF Operation, Nothing, Exit, Block, Map, WakeThread, Spawn, Unmap, MovePage, Kill, Shootdown, Done
  <2> QED BY <1>6, <2>1 DEF InSection, Shooting
<1>10. CASE Asked(h) \/ AwaitAck(h) \/ AckHalt(h) \/ ShotPages(h) \/ ShotProcess(h)
  <2>1. \E w \in {"acks", "ackhalt", "resume"} : Goto(h, w)
    BY <1>10 DEF Asked, AwaitAck, AckHalt, ShotPages, ShotProcess
  <2> QED BY <1>6, <2>1 DEF InSection, Shooting
<1>11. CASE Resume(h) /\ pid[h] = None
  BY <1>6, <1>11 DEF Resume, InSection
<1>12. ASSUME NEW p \in Pids, Pick(h, p) PROVE NoLostWork'
  BY <1>6, <1>12 DEF Pick, InSection
<1> QED
  BY <1>1, <1>2, <1>3, <1>5, <1>7, <1>8, <1>9, <1>10, <1>11, <1>12 DEF Kernel, Shoot, Leave

\* Each step keeps a hart halted for the lock in line behind another, or told.
LEMMA HaltStep ==
  ASSUME TypeOK, Line, HaltTold,
         NEW h \in Harts, Kernel(h) \/ Trap(h) \/ IdleEnds(h) \/ Walk(h)
  PROVE  HaltTold'
<1> USE DEF lockVars
<1>1. ASSUME UNCHANGED queue, ipi \ {h} \subseteq ipi', NEW w, Goto(h, w), w = "halt" => Head(queue) # h
      PROVE  HaltTold'
  BY <1>1 DEF HaltTold, Goto, TypeOK
<1>2. ASSUME queue' = Append(queue, h), ipi \subseteq ipi', Goto(h, "test")
      PROVE  HaltTold'
  <2>1. \A g \in Harts \ {h} : pc'[g] = pc[g]
    BY <1>2 DEF Goto, TypeOK
  <2>2. \A g \in Harts : pc[g] = "halt" => queue # <<>>
    BY DEF Line, Queued
  <2>3. queue # <<>> => Head(queue') = Head(queue)
    BY <1>2, AppendProperties, HeadTailProperties, LenProperties, EmptySeq DEF TypeOK
  <2>4. pc'[h] # "halt"
    BY <1>2 DEF Goto, TypeOK
  <2> QED BY <1>2, <2>1, <2>2, <2>3, <2>4 DEF HaltTold
<1>3. ASSUME pc[h] \in InSection, NEW sent, Unlock(h, sent), NEW w \in Away, Goto(h, w)
      PROVE  HaltTold'
  <2> SUFFICES ASSUME NEW g \in Harts, g \notin ipi', pc'[g] = "halt", Head(queue') = g
               PROVE  FALSE
    BY DEF HaltTold
  <2>1. g # h /\ pc[g] = "halt"
    BY <1>3 DEF Goto, TypeOK, Away
  <2>2. PICK i \in 1 .. Len(queue) : queue[i] = g
    BY <2>1 DEF Line, Queued
  <2>3. queue # <<>> /\ queue[1] = h
    BY <1>3, HeadTailProperties DEF Line, TypeOK
  <2>4. Len(queue) > 1 /\ Len(queue) \in Nat
    BY <2>1, <2>2, <2>3, LenProperties DEF TypeOK
  <2>5. Head(Tail(queue)) = queue[2]
    BY <2>3, <2>4, HeadTailProperties, LenProperties, EmptySeq DEF TypeOK
  <2>6. g \in ipi'
    BY <1>3, <2>1, <2>4, <2>5 DEF Unlock
  <2> QED BY <2>6
<1>4. CASE Trap(h) \/ ServeFlush(h) \/ ServeClear(h) \/ LockTest(h) \/ LockHalt(h)
  <2>1. UNCHANGED queue /\ ipi \ {h} \subseteq ipi' /\ \E w \in {"serve", "served", "tell", "test", "entered"} : Goto(h, w)
    BY <1>4 DEF Trap, ServeFlush, ServeClear, LockTest, LockHalt
  <2> QED BY <1>1, <2>1
<1>5. CASE IdleEnds(h)
  BY <1>2, <1>5 DEF IdleEnds
<1>6. CASE ServeNothing(h) \/ ServeTell(h)
  <2>1. AfterServe(h) /\ ipi \subseteq ipi'
    BY <1>6 DEF ServeNothing, ServeTell
  <2>2. CASE ~Queued(h)
    BY <1>2, <2>1, <2>2 DEF AfterServe
  <2>3. CASE Queued(h) /\ Head(queue) = h
    BY <1>1, <2>1, <2>3 DEF AfterServe
  <2>4. CASE Queued(h) /\ Head(queue) # h
    BY <1>1, <2>1, <2>4 DEF AfterServe
  <2> QED BY <2>2, <2>3, <2>4
<1>7. CASE Walk(h) \/ Ask(h) \/ AskSend(h)
  <2>1. UNCHANGED <<pc, queue>> /\ ipi \subseteq ipi'
    BY <1>7 DEF Walk, Ask, AskSend
  <2> QED BY <2>1 DEF HaltTold
<1>8. CASE Entered(h)
  <2>1. UNCHANGED queue /\ ipi \ {h} \subseteq ipi' /\ \E w \in {"resume", "kernel"} : Goto(h, w)
    <3>1. CASE left[h] # None /\ left[h] = pid[h]
      BY <1>8, <3>1 DEF Entered
    <3>2. CASE ~(left[h] # None /\ left[h] = pid[h])
      BY <1>8, <3>2 DEF Entered
    <3> QED BY <3>1, <3>2
  <2> QED BY <1>1, <2>1
<1>9. CASE Operation(h)
  <2>1. UNCHANGED <<queue, ipi>> /\ (Goto(h, "resume") \/ Goto(h, "ask"))
    BY <1>9 DEF Operation, Nothing, Exit, Block, Map, WakeThread, Spawn, Unmap, MovePage, Kill, Shootdown, Done
  <2> QED BY <1>1, <2>1
<1>10. CASE Asked(h) \/ AwaitAck(h) \/ AckHalt(h) \/ ShotPages(h) \/ ShotProcess(h)
  <2>1. UNCHANGED queue /\ ipi \ {h} \subseteq ipi' /\ \E w \in {"acks", "ackhalt", "resume"} : Goto(h, w)
    BY <1>10 DEF Asked, AwaitAck, AckHalt, ShotPages, ShotProcess
  <2> QED BY <1>1, <2>1
<1>11. CASE Resume(h)
  <2>1. CASE pid[h] = None
    <3>1. UNCHANGED queue /\ ipi \subseteq ipi' /\ Goto(h, "kmain")
      BY <1>11, <2>1 DEF Resume
    <3> QED BY <1>1, <3>1
  <2>2. CASE pid[h] # None
    BY <1>3, <1>11, <2>2 DEF Resume, InSection, Away
  <2> QED BY <2>1, <2>2
<1>12. ASSUME NEW p \in Pids, Pick(h, p) PROVE HaltTold'
  <2>1. UNCHANGED <<queue, ipi>> /\ Goto(h, "resume")
    BY <1>12 DEF Pick
  <2> QED BY <1>1, <2>1
<1>13. CASE Idle(h)
  BY <1>3, <1>13 DEF Idle, InSection, Away
<1> QED
  BY <1>4, <1>5, <1>6, <1>7, <1>8, <1>9, <1>10, <1>11, <1>12, <1>13 DEF Kernel, Serve, Lock, Shoot, Leave

\* Each step keeps a hart that is asked interrupted, or about to be.
LEMMA AskStep ==
  ASSUME TypeOK, Line, ShotInv, AskTold,
         NEW h \in Harts, Kernel(h) \/ Trap(h) \/ IdleEnds(h) \/ Walk(h)
  PROVE  AskTold'
<1> USE DEF lockVars, shotVars
<1>1. ASSUME UNCHANGED <<shoot, job>>, ipi \ {h} \subseteq ipi', NEW w, Goto(h, w),
             w \in Away \cup {"halt", "tell"} => shoot[h] = NoWord \/ (ipi \subseteq ipi' /\ pc[h] \in Away \cup {"halt", "tell"})
      PROVE  AskTold'
  BY <1>1 DEF AskTold, Goto, TypeOK
<1>2. ASSUME \A g \in Harts : shoot'[g] = NoWord
      PROVE  AskTold'
  BY <1>2 DEF AskTold
<1>3. CASE Trap(h) \/ IdleEnds(h) \/ ServeNothing(h) \/ ServeFlush(h) \/ LockTest(h) \/ LockHalt(h)
  <2>1. /\ UNCHANGED <<shoot, job>> /\ ipi \ {h} \subseteq ipi'
        /\ \E w \in {"serve", "served", "test", "halt", "entered"} : Goto(h, w) /\ (w = "halt" => shoot[h] = NoWord)
    <3>1. CASE ServeNothing(h)
      BY <3>1 DEF ServeNothing, AfterServe
    <3>2. CASE Trap(h) \/ IdleEnds(h) \/ ServeFlush(h) \/ LockTest(h) \/ LockHalt(h)
      BY <3>2 DEF Trap, IdleEnds, ServeFlush, LockTest, LockHalt
    <3> QED BY <1>3, <3>1, <3>2
  <2> QED BY <1>1, <2>1 DEF Away
<1>4. CASE ServeTell(h)
  <2>1. UNCHANGED <<shoot, job>> /\ ipi \subseteq ipi' /\ pc[h] = "tell" /\ (Goto(h, "test") \/ Goto(h, "halt"))
    BY <1>4 DEF ServeTell, AfterServe
  <2> QED BY <1>1, <2>1
<1>5. CASE ServeClear(h)
  <2>1. shoot'[h] = NoWord /\ \A g \in Harts \ {h} : shoot'[g] = shoot[g] /\ pc'[g] = pc[g]
    BY <1>5 DEF ServeClear, Goto, TypeOK
  <2>2. UNCHANGED <<job, ipi>>
    BY <1>5 DEF ServeClear
  <2> QED BY <2>1, <2>2 DEF AskTold
<1>6. CASE Walk(h)
  BY <1>6 DEF Walk, AskTold
<1>7. CASE Entered(h) \/ Operation(h) \/ Leave(h)
  <2>1. pc[h] \in InSection \ Shooting
    BY <1>7 DEF Entered, Operation, Nothing, Exit, Block, Map, WakeThread, Spawn, Unmap, MovePage, Kill,
                Leave, Resume, Idle, Pick, InSection, Shooting
  <2>2. UNCHANGED shoot
    BY <1>7 DEF Entered, Operation, Nothing, Exit, Block, Map, WakeThread, Spawn, Unmap, MovePage, Kill,
                Leave, Resume, Idle, Pick, Shootdown, Done
  <2> QED BY <1>2, <2>1, <2>2, NoWords
<1>8. \A s \in Harts : pc[h] \in Shooting /\ s # h => job[s].send = None
  <2>1. \A s \in Harts : pc[h] \in Shooting /\ s # h => pc[s] \notin Shooting
    BY OneInSection DEF InSection
  <2> QED BY <2>1 DEF ShotInv, Asking, NoJob
<1>9. CASE Ask(h)
  <2>1. PICK g \in job[h].ask :
          /\ shoot' = [shoot EXCEPT ![g] = [asid |-> job[h].pid, leave |-> job[h].why \in {"exit", "kill"}]]
          /\ job' = [job EXCEPT ![h].ask = @ \ {g}, ![h].asked = @ \cup {g}, ![h].send = g]
    BY <1>9 DEF Ask
  <2>2. UNCHANGED <<ipi, pc>> /\ pc[h] \in Shooting /\ job[h].send = None
    BY <1>9 DEF Ask, Shooting
  <2>3. g \in Harts /\ job[h] \in Jobs \ {NoJob}
    BY <2>2, JobTyped DEF ShotInv, TypeOK
  <2>4. job'[h].send = g
    BY <2>1, <2>3 DEF TypeOK, Jobs
  <2>5. \A f \in Harts \ {g} : shoot'[f] = shoot[f]
    BY <2>1 DEF TypeOK
  <2>6. \A f \in Harts \ ipi : ~(pc[f] \in Away \cup {"halt", "tell"} /\ shoot[f] # NoWord)
    BY <1>8, <2>2, NoneAssumption DEF AskTold
  <2> QED BY <2>2, <2>4, <2>5, <2>6 DEF AskTold
<1>10. CASE AskSend(h)
  <2>1. UNCHANGED <<pc, shoot>> /\ ipi' = ipi \cup {job[h].send} /\ pc[h] \in Shooting
    BY <1>10 DEF AskSend, Shooting
  <2>2. \A f \in Harts \ ipi : pc[f] \in Away \cup {"halt", "tell"} /\ shoot[f] # NoWord => job[h].send = f
    BY <1>8, <2>1, NoneAssumption DEF AskTold
  <2> QED BY <2>1, <2>2 DEF AskTold
<1>11. CASE Asked(h) \/ AwaitAck(h) \/ AckHalt(h)
  <2>1. UNCHANGED <<shoot, job>> /\ ipi \ {h} \subseteq ipi' /\ (Goto(h, "acks") \/ Goto(h, "ackhalt"))
    BY <1>11 DEF Asked, AwaitAck, AckHalt
  <2> QED BY <1>1, <2>1 DEF Away
<1>12. CASE ShotPages(h) \/ ShotProcess(h)
  <2>1. UNCHANGED shoot
    BY <1>12 DEF ShotPages, ShotProcess
  <2> QED BY <1>2, <1>12, <2>1, AllAcked
<1> QED
  BY <1>3, <1>4, <1>5, <1>6, <1>7, <1>9, <1>10, <1>11, <1>12 DEF Kernel, Serve, Lock, Shoot

\* Each step keeps a hart halted for acknowledgements short of one, or about to be told.
LEMMA AckStep ==
  ASSUME TypeOK, Line, ShotInv, AckTold,
         NEW h \in Harts, Kernel(h) \/ Trap(h) \/ IdleEnds(h) \/ Walk(h)
  PROVE  AckTold'
<1> USE DEF lockVars, shotVars
<1>1. ASSUME UNCHANGED <<shoot, job>>, ipi \ {h} \subseteq ipi', NEW w, Goto(h, w),
             w = "ackhalt" => Unacked(h) # {}, pc[h] # "tell" \/ w = "tell"
      PROVE  AckTold'
  <2>1. \A g \in Harts : Unacked(g)' = Unacked(g)
    BY <1>1 DEF Unacked
  <2>2. /\ \A g \in Harts \ {h} : pc'[g] = pc[g]
        /\ pc'[h] = w
    BY <1>1 DEF Goto, TypeOK
  <2> QED BY <1>1, <2>1, <2>2 DEF AckTold
<1>2. ASSUME pc[h] \in InSection, pc'[h] # "ackhalt", NEW w, Goto(h, w)
      PROVE  AckTold'
  <2>1. \A g \in Harts \ {h} : pc'[g] = pc[g] /\ pc[g] # "ackhalt"
    BY <1>2, OneInSection DEF Goto, TypeOK, InSection, Shooting
  <2> QED BY <1>2, <2>1 DEF AckTold
<1>3. CASE Trap(h) \/ IdleEnds(h) \/ ServeNothing(h) \/ ServeFlush(h) \/ LockTest(h) \/ LockHalt(h)
  <2>1. UNCHANGED <<shoot, job>> /\ ipi \ {h} \subseteq ipi' /\ pc[h] # "tell"
    BY <1>3 DEF Trap, IdleEnds, ServeNothing, ServeFlush, LockTest, LockHalt
  <2>2. \E w \in {"serve", "served", "test", "halt", "entered"} : Goto(h, w)
    BY <1>3 DEF Trap, IdleEnds, ServeNothing, ServeFlush, LockTest, LockHalt, AfterServe
  <2> QED BY <1>1, <2>1, <2>2
<1>4. CASE ServeTell(h)
  <2>1. ipi' = ipi \cup {shooter} /\ UNCHANGED shotVars /\ (Goto(h, "test") \/ Goto(h, "halt"))
    BY <1>4 DEF ServeTell, AfterServe
  <2>2. \A g \in Harts : pc'[g] = "ackhalt" => pc[g] = "ackhalt"
    BY <2>1 DEF Goto, TypeOK
  <2>3. \A g \in Harts : pc[g] = "ackhalt" => shooter = g
    BY DEF ShotInv, Asking, Shooting
  <2> QED BY <2>1, <2>2, <2>3 DEF AckTold
<1>5. CASE ServeClear(h)
  <2>1. pc'[h] = "tell"
    BY <1>5 DEF ServeClear, Goto, TypeOK
  <2> QED BY <2>1 DEF AckTold
<1>6. CASE Walk(h)
  <2>1. UNCHANGED <<pc, ipi, shotVars>>
    BY <1>6 DEF Walk
  <2> QED BY <2>1 DEF AckTold, Unacked
<1>7. CASE Entered(h) \/ Operation(h) \/ Leave(h)
  <2>1. pc[h] \in InSection
    BY <1>7 DEF Entered, Operation, Nothing, Exit, Block, Map, WakeThread, Spawn, Unmap, MovePage, Kill,
                Leave, Resume, Idle, Pick, InSection, Shooting
  <2>2. \E w \in {"kernel", "resume", "ask", "kmain", "user", "idle"} : Goto(h, w)
    <3>1. CASE Entered(h)
      BY <3>1 DEF Entered
    <3>2. CASE Operation(h)
      BY <3>2 DEF Operation, Nothing, Exit, Block, Map, WakeThread, Spawn, Unmap, MovePage, Kill, Shootdown, Done
    <3>3. CASE Leave(h)
      BY <3>3 DEF Leave, Resume, Idle, Pick
    <3> QED BY <1>7, <3>1, <3>2, <3>3
  <2>3. pc'[h] # "ackhalt"
    BY <2>2 DEF Goto, TypeOK
  <2> QED BY <1>2, <2>1, <2>2, <2>3
<1>8. CASE Ask(h) \/ AskSend(h)
  <2>1. UNCHANGED pc /\ pc[h] = "ask"
    BY <1>8 DEF Ask, AskSend
  <2>2. \A g \in Harts : pc[g] # "ackhalt"
    BY <2>1, OneInSection DEF InSection, Shooting
  <2> QED BY <2>1, <2>2 DEF AckTold
<1>9. CASE AwaitAck(h)
  <2>1. UNCHANGED <<shoot, job, ipi>> /\ Goto(h, "ackhalt") /\ Unacked(h) # {} /\ pc[h] = "acks"
    BY <1>9 DEF AwaitAck
  <2> QED BY <1>1, <2>1
<1>10. CASE Asked(h) \/ AckHalt(h) \/ ShotPages(h) \/ ShotProcess(h)
  <2>1. pc[h] \in InSection /\ (Goto(h, "acks") \/ Goto(h, "resume"))
    BY <1>10 DEF Asked, AckHalt, ShotPages, ShotProcess, InSection, Shooting
  <2>2. pc'[h] # "ackhalt"
    BY <2>1 DEF Goto, TypeOK
  <2> QED BY <1>2, <2>1, <2>2
<1> QED
  BY <1>3, <1>4, <1>5, <1>6, <1>7, <1>8, <1>9, <1>10 DEF Kernel, Serve, Lock, Shoot

----------------------------------------------------------------------------
(* The theorems. *)

\* The harts that start idle, one about to be woken, satisfy the invariant.
LEMMA InitHolds == Init => HartsInv
<1> SUFFICES ASSUME Init PROVE HartsInv
  OBVIOUS
<1> USE DEF Init, Away, Serving, InSection, Shooting
<1>1. TypeOK
  BY ThreadsAssumption, EmptySeq DEF TypeOK, Words, Jobs
<1>2. Line
  BY DEF Line, Queued
<1>3. RunInv
  <2>1. Spaces /\ Checked
    BY DEF Spaces, Checked
  <2>2. Alive
    BY DEF Alive
  <2>3. Bounded
    <3> SUFFICES ASSUME NEW p \in Pids PROVE Threads(p) <= MaxThreads
      BY DEF Bounded
    <3>1. {g \in Harts : Runs(g, p)} = {}
      BY NoneAssumption DEF Runs
    <3>2. ready[p] \in {0, 1}
      OBVIOUS
    <3>3. Cardinality({g \in Harts : Runs(g, p)}) = 0
      BY <3>1, FS_EmptySet, Zenon
    <3> QED BY <3>2, <3>3, ThreadsAssumption DEF Threads
  <2> QED BY <2>1, <2>2, <2>3 DEF RunInv
<1>4. ShotInv
  BY DEF ShotInv, Asking, Asks, Left
<1>5. PageInv
  BY DEF PageInv, Owes, Exact, Mapped
<1>6. WakeInv
  <2>1. HaltTold /\ AskTold /\ AckTold
    BY DEF HaltTold, AskTold, AckTold
  <2>2. Marks /\ NoLostWork
    BY DEF Marks, NoLostWork
  <2> QED BY <2>1, <2>2 DEF WakeInv
<1> QED BY <1>1, <1>2, <1>3, <1>4, <1>5, <1>6 DEF HartsInv

\* Every step of every hart keeps the invariant.
LEMMA InvStep == HartsInv /\ [Next]_vars => HartsInv'
<1> SUFFICES ASSUME HartsInv, [Next]_vars PROVE HartsInv'
  OBVIOUS
<1> USE DEF HartsInv
<1>1. ASSUME NEW h \in Harts, Kernel(h) \/ Trap(h) \/ IdleEnds(h) \/ Walk(h)
      PROVE  HartsInv'
  <2>1. TypeOK'
    BY <1>1, TypeStep DEF ShotInv
  <2>2. Line' /\ ShotInv'
    BY <1>1, LineStep, ShotStep
  <2>3. RunInv'
    BY <1>1, <2>1, SpacesStep, AliveStep, BoundedStep DEF RunInv
  <2>4. PageInv'
    <3>1. Spaces
      BY DEF RunInv
    <3> QED BY <1>1, <2>1, <3>1, PageStep
  <2>5. HaltTold' /\ AskTold' /\ AckTold'
    BY <1>1, HaltStep, AskStep, AckStep DEF WakeInv
  <2>6. Marks' /\ NoLostWork'
    <3>1. Alive /\ Marks /\ NoLostWork
      BY DEF RunInv, WakeInv
    <3> QED BY <1>1, <3>1, MarksStep, WorkStep
  <2> QED BY <2>1, <2>2, <2>3, <2>4, <2>5, <2>6 DEF WakeInv
<1>2. CASE UNCHANGED vars
  <2>1. UNCHANGED <<queue, pc, ipi, idle, pid, left, satp, shoot, shooter, job, tlb, stale,
                    live, page, owner, ready, gone>>
    BY <1>2 DEF vars, hartVars, shotVars, procVars
  <2>2. TypeOK' /\ Line'
    BY <2>1 DEF TypeOK, Line, Queued
  <2>3. RunInv'
    BY <2>1 DEF RunInv, Spaces, Checked, Alive, Bounded, Threads, Runs
  <2>4. ShotInv'
    BY <2>1 DEF ShotInv, Asking, Asks, Left
  <2>5. PageInv'
    BY <2>1 DEF PageInv, Owes, Exact, Mapped, ToFlush
  <2>6. WakeInv'
    BY <2>1 DEF WakeInv, HaltTold, AskTold, AckTold, Marks, NoLostWork, Unacked
  <2> QED BY <2>2, <2>3, <2>4, <2>5, <2>6
<1> QED BY <1>1, <1>2 DEF Next

\* The invariant holds always.
THEOREM Invariance == Spec => []HartsInv
BY InitHolds, InvStep, PTL DEF Spec

\* The variables keep their types, whatever the harts do.
THEOREM TypeCorrect == Spec => []TypeOK
<1>1. HartsInv => TypeOK
  BY DEF HartsInv
<1> QED BY <1>1, Invariance, PTL

\* A hart's cached translations in the space it is in are its table's, but while its
\* process is being shot down (mem.rs, shoot; arch/riscv/mem.rs, the stale mask).
THEOREM TranslationsAreCurrent == Spec => []TranslationsCurrent
<1>1. HartsInv => TranslationsCurrent
  BY DEF HartsInv, PageInv, Exact, ToFlush, TranslationsCurrent
<1> QED BY <1>1, Invariance, PTL

\* No hart can reach a free frame (R81; ptable.rs, evict).
THEOREM FreeFramesUnreachable == Spec => []FreeUnreachable
<1>1. HartsInv => FreeUnreachable
  <2> SUFFICES ASSUME HartsInv, NEW h \in Harts, NEW f \in Frames, owner[f] = "free",
                      <<satp[h], f>> \in tlb[h]
               PROVE  FALSE
    BY DEF FreeUnreachable
  <2>1. satp[h] # None
    BY NoneAssumption DEF HartsInv, TypeOK, Translations
  <2> QED BY <2>1 DEF HartsInv, PageInv, Exact
<1> QED BY <1>1, Invariance, PTL

\* A hart in user mode runs a process that exists and was never destroyed since the
\* hart switched to it (irq.rs, shot_down).
THEOREM RunsTheLiving == Spec => []RunsOnlyTheLiving
<1>1. HartsInv => RunsOnlyTheLiving
  BY DEF HartsInv, RunInv, Spaces, Checked, Alive, RunsOnlyTheLiving
<1> QED BY <1>1, Invariance, PTL

\* No interrupt that ends a halt is lost (hart.rs, halt_for_lock, shootdown, serve).
THEOREM InterruptsKept == Spec => []NoLostInterrupt
<1>1. HartsInv => NoLostInterrupt
  BY DEF HartsInv, WakeInv, HaltTold, AskTold, AckTold, NoLostInterrupt
<1> QED BY <1>1, Invariance, PTL

\* No wake is lost: with a thread ready and a hart halted idle, some hart is in the
\* kernel or about to be (hart.rs, wake_idle; sched::leave).
THEOREM WorkKept == Spec => []NoLostWork
<1>1. HartsInv => NoLostWork
  BY DEF HartsInv, WakeInv
<1> QED BY <1>1, Invariance, PTL
=============================================================================
