------------------------------- MODULE Harts -------------------------------
(***************************************************************************)
(* The harts of the Redoubt kernel and what they share: the kernel lock,    *)
(* the reschedule interrupt, the idle marks, and the shootdown of a         *)
(* process's translations (kernel/src/arch/riscv/hart.rs, irq.rs, mod.rs,   *)
(* mem.rs `stale`; kernel/src/ptable.rs; kernel/src/mem.rs `shoot`).         *)
(*                                                                          *)
(* The lock is the abstract one of FifoLock, which KernelLock implements:   *)
(* the harts that came, in order, the first one in its section once it      *)
(* passes the test.  A waiting hart serves shootdowns, then halts.          *)
(*                                                                          *)
(* A process has one page; a translation is a pair of its PID (its ASID)    *)
(* and a frame.  A trap's section makes one operation, as a system call     *)
(* does, and then resumes what is current.                                  *)
(***************************************************************************)
EXTENDS Integers, Sequences, FiniteSets

CONSTANTS Harts,        \* started harts
          Pids,         \* process slots: a PID is an ASID, and is given out again
          Frames,       \* RAM frames processes map
          MaxThreads,   \* bound: a process's threads, ready or running
          None          \* no process (the kernel's own PID), no frame, no hart

ASSUME HartsAssumption == IsFiniteSet(Harts) /\ Harts # {} /\ IsFiniteSet(Pids)
ASSUME NoneAssumption == None \notin Harts \cup Pids \cup Frames /\ {"free", "inflight"} \cap Pids = {}
ASSUME ThreadsAssumption == MaxThreads \in Nat \ {0}

VARIABLES
  queue,    \* KERNEL_LOCK: the harts that drew a ticket, in order
  pc,       \* where each hart is
  ipi,      \* harts with the reschedule interrupt pending (sip.SSIP)
  idle,     \* Block.idle: the harts marked idle
  pid,      \* Block.pid: the process a hart runs, None for kmain
  left,     \* Block.left: the process a destruction made a hart leave
  satp,     \* the address space a hart is in, None for the kernel's
  shoot,    \* Block.shoot: what a hart is asked, see Words
  shooter,  \* SHOOTER
  job,      \* each hart's shootdown under way, see Jobs
  tlb,      \* the translations each hart may have cached
  stale,    \* stale::MASK: the harts that owe a PID's ASID a flush
  live,     \* the processes that exist
  page,     \* the frame each process's page table names
  owner,    \* each frame: its process, or "free", or "inflight"
  ready,    \* how many threads of each process are ready and not running
  gone      \* ghost: the harts whose process was destroyed since their switch

lockVars  == <<queue, ipi>>
hartVars  == <<pid, left, satp>>
shotVars  == <<shoot, shooter, job>>
procVars  == <<live, page, owner, ready>>
vars == <<queue, pc, ipi, idle, hartVars, shotVars, tlb, stale, procVars, gone>>

Translations == Pids \X Frames
Of(p) == {p} \X Frames

\* A shoot word: the ASID asked about and SHOOT_LEAVE.
NoWord == [asid |-> None, leave |-> FALSE]
Words  == [asid : Pids, leave : BOOLEAN] \cup {NoWord}

\* Why a hart shoots a process down, whom it has still to ask, whom it asked,
\* and the hart whose interrupt is not sent yet.
NoJob == [why |-> "none", pid |-> None, ask |-> {}, asked |-> {}, send |-> None]
Jobs  == [why : {"unmap", "move", "exit", "kill"}, pid : Pids,
          ask : SUBSET Harts, asked : SUBSET Harts, send : Harts \cup {None}] \cup {NoJob}

\* A hart outside the lock: in user mode, or halted in idle().
Away == {"user", "idle"}
\* A hart in serve(), from its trap entry or from its wait for the lock.
Serving == {"serve", "served", "tell"}
\* A hart in shootdown(), in its section.
Shooting == {"ask", "acks", "ackhalt"}
InSection == {"entered", "kernel", "resume", "kmain"} \cup Shooting

TypeOK ==
  /\ queue \in Seq(Harts)
  /\ pc \in [Harts -> Away \cup Serving \cup {"test", "halt"} \cup InSection]
  /\ ipi \in SUBSET Harts /\ idle \in SUBSET Harts
  /\ pid \in [Harts -> Pids \cup {None}]
  /\ left \in [Harts -> Pids \cup {None}]
  /\ satp \in [Harts -> Pids \cup {None}]
  /\ shoot \in [Harts -> Words] /\ shooter \in Harts /\ job \in [Harts -> Jobs]
  /\ tlb \in [Harts -> SUBSET Translations]
  /\ stale \in [Pids -> SUBSET Harts]
  /\ live \in SUBSET Pids
  /\ page \in [Pids -> Frames \cup {None}]
  /\ owner \in [Frames -> Pids \cup {"free", "inflight"}]
  /\ ready \in [Pids -> 0 .. MaxThreads]
  /\ gone \in SUBSET Harts

\* The harts are up and idle, and one process is ready to run.
Init ==
  /\ queue = <<>>
  /\ pc = [h \in Harts |-> "idle"]
  /\ idle = Harts
  /\ pid = [h \in Harts |-> None]
  /\ left = [h \in Harts |-> None]
  /\ satp = [h \in Harts |-> None]
  /\ shoot = [h \in Harts |-> NoWord]
  /\ shooter \in Harts
  /\ ipi = {shooter}
  /\ job = [h \in Harts |-> NoJob]
  /\ tlb = [h \in Harts |-> {}]
  /\ stale = [p \in Pids |-> {}]
  /\ page = [p \in Pids |-> None]
  /\ owner = [f \in Frames |-> "free"]
  /\ \E p \in Pids : live = {p} /\ ready = [q \in Pids |-> IF q = p THEN 1 ELSE 0]
  /\ gone = {}

Holds(h) == queue # <<>> /\ Head(queue) = h /\ pc[h] \in InSection
Goto(h, where) == pc' = [pc EXCEPT ![h] = where]

\* Make p current on h (Process::activate, set_pid): its left mark goes.  For
\* kmain, the kernel's own space.
Current(h, p) ==
  /\ pid' = [pid EXCEPT ![h] = p]
  /\ left' = [left EXCEPT ![h] = None]
  /\ satp' = [satp EXCEPT ![h] = p]
  /\ gone' = gone \ {h}

\* hart::runs_elsewhere's test of one block: hart g runs p and has not left it.
Runs(g, p) == pid[g] = p /\ left[g] # p
Threads(p) == ready[p] + Cardinality({g \in Harts : Runs(g, p)})

----------------------------------------------------------------------------
(* Entering the kernel: a trap from user mode, or the end of idle's halt. *)

\* A trap from user mode: a system call, an exception or an interrupt.
Trap(h) ==
  /\ pc[h] = "user"
  /\ Goto(h, "serve")
  /\ UNCHANGED <<queue, ipi, idle, hartVars, shotVars, tlb, stale, procVars, gone>>

\* idle()'s halt ends, at the reschedule interrupt, a timer's or a device's, and
\* the hart draws its ticket.
IdleEnds(h) ==
  /\ pc[h] = "idle"
  /\ queue' = Append(queue, h)
  /\ Goto(h, "test")
  /\ UNCHANGED <<ipi, idle, hartVars, shotVars, tlb, stale, procVars, gone>>

Queued(h) == \E i \in 1 .. Len(queue) : queue[i] = h

\* After serve(): at a trap's entry the hart draws its ticket; on a turn of the
\* wait it halts, unless its turn came.
AfterServe(h) ==
  IF Queued(h)
  THEN Goto(h, IF Head(queue) = h THEN "test" ELSE "halt") /\ UNCHANGED queue
  ELSE Goto(h, "test") /\ queue' = Append(queue, h)

\* serve(): nothing asked.
ServeNothing(h) ==
  /\ pc[h] = "serve"
  /\ shoot[h] = NoWord
  /\ AfterServe(h)
  /\ UNCHANGED <<ipi, idle, hartVars, shotVars, tlb, stale, procVars, gone>>

\* serve(): drop the ASID's translations; asked to leave, first leave for the
\* kernel's space and record it.  Then ack_ipi.
ServeFlush(h) ==
  LET p == shoot[h].asid IN
  /\ pc[h] = "serve"
  /\ shoot[h] # NoWord
  /\ tlb' = [tlb EXCEPT ![h] = @ \ Of(p)]
  /\ IF shoot[h].leave
     THEN satp' = [satp EXCEPT ![h] = None] /\ left' = [left EXCEPT ![h] = p]
     ELSE UNCHANGED <<satp, left>>
  /\ ipi' = ipi \ {h}
  /\ Goto(h, "served")
  /\ UNCHANGED <<queue, idle, pid, shotVars, stale, procVars, gone>>

\* serve(): acknowledge.
ServeClear(h) ==
  /\ pc[h] = "served"
  /\ shoot' = [shoot EXCEPT ![h] = NoWord]
  /\ Goto(h, "tell")
  /\ UNCHANGED <<queue, ipi, idle, hartVars, shooter, job, tlb, stale, procVars, gone>>

\* Mutant: serve() acknowledges without waking the hart that asked.
ServeSilent(h) ==
  /\ pc[h] = "tell"
  /\ AfterServe(h)
  /\ UNCHANGED <<ipi, idle, hartVars, shotVars, tlb, stale, procVars, gone>>

\* serve(): wake the hart that asked.  SHOOTER is read only now.
ServeTell(h) ==
  /\ pc[h] = "tell"
  /\ ipi' = ipi \cup {shooter}
  /\ AfterServe(h)
  /\ UNCHANGED <<idle, hartVars, shotVars, tlb, stale, procVars, gone>>

\* The lock's loop: its turn, or another turn of the wait.
LockTest(h) ==
  /\ pc[h] = "test"
  /\ Goto(h, IF Head(queue) = h THEN "entered" ELSE "serve")
  /\ UNCHANGED <<queue, ipi, idle, hartVars, shotVars, tlb, stale, procVars, gone>>

\* halt_for_lock: until the interrupt is pending; then it is cleared.
LockHalt(h) ==
  /\ pc[h] = "halt"
  /\ h \in ipi
  /\ ipi' = ipi \ {h}
  /\ Goto(h, "test")
  /\ UNCHANGED <<queue, idle, hartVars, shotVars, tlb, stale, procVars, gone>>

\* Mutant: a trap handled without the shot_down check.
EnteredUnchecked(h) ==
  /\ pc[h] = "entered"
  /\ idle' = idle \ {h}
  /\ ipi' = ipi \ {h}
  /\ Goto(h, "kernel")
  /\ UNCHANGED <<queue, hartVars, shotVars, tlb, stale, procVars, gone>>

\* The lock's section begins.  A hart shot down goes to kmain, whatever it trapped
\* for.  From idle(), the mark goes and a pending interrupt is taken in the window
\* (the software interrupt's arm acks); from user mode it is acked if it is what
\* trapped.
Entered(h) ==
  /\ pc[h] = "entered"
  /\ idle' = idle \ {h}
  /\ IF left[h] # None /\ left[h] = pid[h]
     THEN Current(h, None) /\ Goto(h, "resume") /\ UNCHANGED <<ipi, tlb, stale>>
     ELSE /\ ipi' \in {ipi \ {h}} \cup (IF pid[h] = None THEN {} ELSE {ipi})
          /\ Goto(h, "kernel")
          /\ UNCHANGED <<hartVars, tlb, stale, gone>>
  /\ UNCHANGED <<queue, shotVars, procVars>>

----------------------------------------------------------------------------
(* A section's work: one operation, then resume what is current. *)

\* What h flushes as it installs the spaces of ps: the ASIDs it owes a flush
\* (stale::installing).
Owed(h, ps) == UNION {Of(p) : p \in {q \in Pids \cap ps : h \in stale[q]}}

\* Mutant: the flush owed is forgotten (feature smp-no-stale-mask).
InstallUnflushed(h, p) ==
  /\ stale' = [stale EXCEPT ![p] = @ \ {h}]
  /\ UNCHANGED tlb

\* Install p's space.
Install(h, p) ==
  /\ tlb' = [tlb EXCEPT ![h] = @ \ Owed(h, {p})]
  /\ stale' = [stale EXCEPT ![p] = @ \ {h}]

\* A flush of p's entries on h: every other hart owes it (stale::flushed).
Flush(h, p) ==
  /\ tlb' = [tlb EXCEPT ![h] = @ \ Of(p)]
  /\ stale' = [stale EXCEPT ![p] = @ \cup (Harts \ {h})]

\* The section's operation is done; nothing of the lock or of the blocks changed.
Done(h) == Goto(h, "resume") /\ UNCHANGED <<lockVars, idle, shotVars>>

\* A trap that changes nothing here.
Nothing(h) ==
  /\ pc[h] = "kernel"
  /\ Done(h) /\ UNCHANGED <<hartVars, tlb, stale, procVars, gone>>

\* Map a free frame in the running process (map_anon, a page fault).
Map(h, f) ==
  LET p == pid[h] IN
  /\ pc[h] = "kernel" /\ p # None /\ page[p] = None /\ owner[f] = "free"
  /\ page' = [page EXCEPT ![p] = f]
  /\ owner' = [owner EXCEPT ![f] = p]
  /\ Flush(h, p)
  /\ Done(h) /\ UNCHANGED <<hartVars, live, ready, gone>>

\* A thread of q is made ready (an answer, a timeout, a start): its result
\* is written in q's space, which the hart visits, perhaps caching what it sees.
WakeThread(h, q) ==
  /\ pc[h] = "kernel" /\ q \in live /\ Threads(q) < MaxThreads
  /\ ready' = [ready EXCEPT ![q] = @ + 1]
  /\ IF q = pid[h] THEN UNCHANGED <<tlb, stale>>
     ELSE \E seen \in SUBSET (Translations \cap {<<q, page[q]>>}) :
            /\ tlb' = [tlb EXCEPT ![h] = (@ \ Owed(h, {q, pid[h]})) \cup seen]
            /\ stale' = [r \in Pids |-> stale[r] \ (IF r \in {q, pid[h]} THEN {h} ELSE {})]
  /\ Done(h) /\ UNCHANGED <<hartVars, live, page, owner, gone>>

\* process_create: a PID is given out and its whole ASID is flushed; it has no thread
\* until process_start makes one ready (WakeThread).
Spawn(h, q) ==
  /\ pc[h] = "kernel" /\ pid[h] # None /\ q \notin live
  /\ live' = live \cup {q}
  /\ Flush(h, q)
  /\ Done(h) /\ UNCHANGED <<hartVars, page, owner, ready, gone>>

\* The running thread blocks (ready again if preempted): the hart goes to kmain.
Block(h, preempted) ==
  LET p == pid[h] IN
  /\ pc[h] = "kernel" /\ p # None
  /\ ready' = IF preempted THEN [ready EXCEPT ![p] = @ + 1] ELSE ready
  /\ Current(h, None)
  /\ Done(h) /\ UNCHANGED <<tlb, stale, live, page, owner>>

----------------------------------------------------------------------------
(* Shootdowns: the holder asks every other hart that runs the process. *)

\* Mutant: nobody is asked (features smp-no-shootdown, smp-no-evict).
ShootNobody(h, p, why) ==
  /\ shooter' = h
  /\ job' = [job EXCEPT ![h] = [why |-> why, pid |-> p, asked |-> {}, send |-> None, ask |-> {}]]
  /\ Goto(h, "ask")
  /\ UNCHANGED <<lockVars, idle, shoot>>

\* shootdown() begins, its tables changed already.
Shootdown(h, p, why) ==
  /\ shooter' = h
  /\ job' = [job EXCEPT ![h] = [why |-> why, pid |-> p, asked |-> {}, send |-> None,
                               ask |-> {g \in Harts \ {h} : Runs(g, p)}]]
  /\ Goto(h, "ask")
  /\ UNCHANGED <<lockVars, idle, shoot>>

\* unmap, or a lend or transfer that leaves q's space: the entry is cleared, the
\* frame is in flight, staged until the shootdown (reclaim::stage).
Unmap(h, q) ==
  /\ pc[h] = "kernel" /\ pid[h] # None /\ q \in live /\ page[q] # None
  /\ page' = [page EXCEPT ![q] = None]
  /\ owner' = [owner EXCEPT ![page[q]] = "inflight"]
  /\ Flush(h, q)
  /\ Shootdown(h, q, "unmap")
  /\ UNCHANGED <<hartVars, live, ready, gone>>

\* process_map, or a transfer: the running process's page moves to q's space, and
\* only then is the running process shot down.
MovePage(h, q) ==
  LET p == pid[h] IN
  /\ pc[h] = "kernel" /\ p # None /\ q \in live \ {p}
  /\ page[p] # None /\ page[q] = None
  /\ page' = [page EXCEPT ![p] = None, ![q] = page[p]]
  /\ owner' = [owner EXCEPT ![page[p]] = q]
  /\ tlb' = [tlb EXCEPT ![h] = @ \ (Of(p) \cup Of(q))]
  /\ stale' = [stale EXCEPT ![p] = @ \cup (Harts \ {h}), ![q] = @ \cup (Harts \ {h})]
  /\ Shootdown(h, p, "move")
  /\ UNCHANGED <<hartVars, live, ready, gone>>

\* The running process ends, or another is killed: evict() first.
Exit(h) ==
  /\ pc[h] = "kernel" /\ pid[h] # None
  /\ Shootdown(h, pid[h], "exit")
  /\ UNCHANGED <<hartVars, tlb, stale, procVars, gone>>

Kill(h, q) ==
  /\ pc[h] = "kernel" /\ q \in live /\ q # pid[h]
  /\ Shootdown(h, q, "kill")
  /\ UNCHANGED <<hartVars, tlb, stale, procVars, gone>>

\* Store a hart's word, then send its interrupt.
Ask(h) ==
  LET j == job[h] IN
  /\ pc[h] = "ask" /\ j.send = None
  /\ \E g \in j.ask :
       /\ shoot' = [shoot EXCEPT ![g] = [asid |-> j.pid, leave |-> j.why \in {"exit", "kill"}]]
       /\ job' = [job EXCEPT ![h].ask = @ \ {g}, ![h].asked = @ \cup {g}, ![h].send = g]
  /\ UNCHANGED <<queue, pc, ipi, idle, hartVars, shooter, tlb, stale, procVars, gone>>

AskSend(h) ==
  /\ pc[h] = "ask" /\ job[h].send # None
  /\ ipi' = ipi \cup {job[h].send}
  /\ job' = [job EXCEPT ![h].send = None]
  /\ UNCHANGED <<queue, pc, idle, hartVars, shoot, shooter, tlb, stale, procVars, gone>>

Asked(h) ==
  /\ pc[h] = "ask" /\ job[h].ask = {} /\ job[h].send = None
  /\ Goto(h, "acks")
  /\ UNCHANGED <<lockVars, idle, hartVars, shotVars, tlb, stale, procVars, gone>>

\* Wait for the acknowledgements, halted.
Unacked(h) == {g \in job[h].asked : shoot[g] # NoWord}

AwaitAck(h) ==
  /\ pc[h] = "acks" /\ Unacked(h) # {}
  /\ Goto(h, "ackhalt")
  /\ UNCHANGED <<lockVars, idle, hartVars, shotVars, tlb, stale, procVars, gone>>

AckHalt(h) ==
  /\ pc[h] = "ackhalt" /\ h \in ipi
  /\ ipi' = ipi \ {h}
  /\ Goto(h, "acks")
  /\ UNCHANGED <<queue, idle, hartVars, shotVars, tlb, stale, procVars, gone>>

\* Acknowledged: the frames staged for an unmap can be reused (reclaim::shot).
ShotPages(h) ==
  /\ pc[h] = "acks" /\ Unacked(h) = {} /\ job[h].why \in {"unmap", "move"}
  /\ owner' = [f \in Frames |-> IF owner[f] = "inflight" THEN "free" ELSE owner[f]]
  /\ job' = [job EXCEPT ![h] = NoJob]
  /\ Goto(h, "resume")
  /\ UNCHANGED <<lockVars, idle, hartVars, shoot, shooter, tlb, stale, live, page, ready, gone>>

\* Acknowledged: terminate() leaves the space, flushes its ASID and frees its
\* frames; the hart is back in kmain's space (exit) or its own (kill).
ShotProcess(h) ==
  LET p == job[h].pid IN
  /\ pc[h] = "acks" /\ Unacked(h) = {} /\ job[h].why \in {"exit", "kill"}
  /\ live' = live \ {p}
  /\ ready' = [ready EXCEPT ![p] = 0]
  /\ owner' = [f \in Frames |-> IF owner[f] = p THEN "free" ELSE owner[f]]
  /\ page' = [page EXCEPT ![p] = None]
  /\ tlb' = [tlb EXCEPT ![h] = @ \ (Of(p) \cup Owed(h, {pid[h]}))]
  /\ stale' = [q \in Pids |-> IF q = p THEN stale[p] \cup (Harts \ {h})
                             ELSE stale[q] \ (IF q = pid[h] THEN {h} ELSE {})]
  /\ job' = [job EXCEPT ![h] = NoJob]
  /\ IF pid[h] = p
     THEN /\ pid' = [pid EXCEPT ![h] = None]
          /\ left' = [left EXCEPT ![h] = None]
          /\ satp' = [satp EXCEPT ![h] = None]
     ELSE UNCHANGED hartVars
  /\ gone' = gone \cup {g \in Harts \ {h} : pid[g] = p}
  /\ Goto(h, "resume")
  /\ UNCHANGED <<lockVars, idle, shoot, shooter>>

----------------------------------------------------------------------------
(* Leaving the kernel: sched::leave, kmain's pick, idle(). *)

\* The lock goes to the next hart, woken if it halted.
Unlock(h, sent) ==
  /\ queue' = Tail(queue)
  /\ ipi' = ipi \cup sent \cup {g \in Harts : Len(queue) > 1 /\ queue[2] = g /\ pc[g] = "halt"}

\* Mutant: the mark is cleared and the interrupt not sent.
WakeIdleSilent(h, sent) ==
  /\ sent = {}
  /\ IF idle \ {h} = {} THEN UNCHANGED idle
     ELSE \E g \in idle \ {h} : idle' = idle \ {g}

\* wake_idle: one idle hart, told to pick.
WakeIdle(h, sent) ==
  IF idle \ {h} = {} THEN sent = {} /\ UNCHANGED idle
  ELSE \E g \in idle \ {h} : sent = {g} /\ idle' = idle \ {g}

\* What no hart runs (sched::leave): processes with a ready thread that run
\* nowhere, and ready threads of processes that run somewhere.
Running(q) == \E g \in Harts : pid[g] = q
Unrun == Cardinality({q \in live : ready[q] > 0 /\ ~Running(q)})
         + Cardinality({x \in live \X (1 .. MaxThreads) : x[2] <= ready[x[1]] /\ Running(x[1])})

\* Resume what is current: its thread, giving up the lock, or kmain, keeping it.
Resume(h) ==
  /\ pc[h] = "resume"
  /\ \E sent \in {{}} \cup {{g} : g \in Harts} :
       /\ IF Unrun > (IF pid[h] = None THEN 1 ELSE 0)
          THEN WakeIdle(h, sent) ELSE sent = {} /\ UNCHANGED idle
       /\ IF pid[h] = None
          THEN Goto(h, "kmain") /\ ipi' = ipi \cup sent /\ UNCHANGED queue
          ELSE Goto(h, "user") /\ Unlock(h, sent)
  /\ UNCHANGED <<hartVars, shotVars, tlb, stale, procVars, gone>>

\* kmain's pick and switch_to.
Pick(h, p) ==
  /\ pc[h] = "kmain" /\ ready[p] > 0
  /\ ready' = [ready EXCEPT ![p] = @ - 1]
  /\ Current(h, p)
  /\ Install(h, p)
  /\ Goto(h, "resume")
  /\ UNCHANGED <<lockVars, idle, shotVars, live, page, owner>>

\* Nothing to run: mark idle, give up the lock, halt.
Idle(h) ==
  /\ pc[h] = "kmain" /\ \A p \in Pids : ready[p] = 0
  /\ idle' = idle \cup {h}
  /\ Unlock(h, {})
  /\ Goto(h, "idle")
  /\ UNCHANGED <<hartVars, shotVars, tlb, stale, procVars, gone>>

\* The walker of a hart in p's space may cache what p's table names, any time.
Walk(h) ==
  LET p == satp[h] IN
  /\ p # None /\ page[p] # None
  /\ tlb' = [tlb EXCEPT ![h] = @ \cup {<<p, page[p]>>}]
  /\ UNCHANGED <<queue, pc, ipi, idle, hartVars, shotVars, stale, procVars, gone>>

----------------------------------------------------------------------------
Serve(h) == ServeNothing(h) \/ ServeFlush(h) \/ ServeClear(h) \/ ServeTell(h)
Lock(h) == LockTest(h) \/ LockHalt(h)
Operation(h) ==
  \/ Nothing(h) \/ Exit(h) \/ \E b \in BOOLEAN : Block(h, b)
  \/ \E f \in Frames : Map(h, f)
  \/ \E q \in Pids : WakeThread(h, q) \/ Spawn(h, q) \/ Unmap(h, q) \/ MovePage(h, q) \/ Kill(h, q)
Shoot(h) == Ask(h) \/ AskSend(h) \/ Asked(h) \/ AwaitAck(h) \/ AckHalt(h)
            \/ ShotPages(h) \/ ShotProcess(h)
Leave(h) == Resume(h) \/ Idle(h) \/ \E p \in Pids : Pick(h, p)

\* A hart's own progress: the kernel's code, and an interrupt that is pending.
Kernel(h) == Serve(h) \/ Lock(h) \/ Entered(h) \/ Operation(h) \/ Shoot(h) \/ Leave(h)
Next == \E h \in Harts : Kernel(h) \/ Trap(h) \/ IdleEnds(h) \/ Walk(h)

Spec == Init /\ [][Next]_vars

----------------------------------------------------------------------------
(* Properties. *)

\* A hart's cached translations in the space it is in are its table's, but while
\* its process is being shot down (mem.rs, shoot: "the call returns only once no
\* hart can use the old entry"; arch/riscv/mem.rs, the stale mask).
TranslationsCurrent ==
  \A h \in Harts, f \in Frames :
    satp[h] # None /\ <<satp[h], f>> \in tlb[h] =>
      \/ page[satp[h]] = f
      \/ \E g \in Harts : pc[g] \in Shooting /\ job[g].pid = satp[h]

\* No hart can reach a free frame, which may be anybody's next (R81; ptable.rs,
\* evict: "before any of its memory goes").
FreeUnreachable ==
  \A h \in Harts, f \in Frames : owner[f] = "free" => <<satp[h], f>> \notin tlb[h]

\* A hart in user mode runs a process that exists, the one it was switched to,
\* never one destroyed since, were its PID given out again (irq.rs, shot_down).
RunsOnlyTheLiving ==
  \A h \in Harts : pc[h] = "user" => pid[h] \in live /\ satp[h] = pid[h] /\ h \notin gone

\* No wake is lost (hart.rs, wake_idle): with a thread ready and a hart halted
\* idle, some hart is in the kernel or about to be, and will pick or wake.
NoLostWork ==
  (\E p \in Pids : ready[p] > 0) /\ (\E h \in Harts : pc[h] = "idle" /\ h \notin ipi)
     => \E g \in Harts : pc[g] \notin Away \/ (pc[g] = "idle" /\ g \in ipi)

\* No interrupt that ends a halt is lost, though one bit serves every cause (hart.rs,
\* halt_for_lock: "That loses nothing"; shootdown: "No hart needs the lock to
\* acknowledge, so there is no deadlock").  With none pending, a hart halted for the
\* lock is not the one served; one that is asked, halted or in user mode, is about to
\* be interrupted; and one halted for acknowledgements lacks one, or is about to be told.
NoLostInterrupt ==
  \A h \in Harts \ ipi :
    /\ pc[h] = "halt" => Head(queue) # h
    /\ pc[h] \in Away \cup {"halt"} /\ shoot[h] # NoWord => \E g \in Harts : job[g].send = h
    /\ pc[h] = "ackhalt" => Unacked(h) # {} \/ \E g \in Harts : pc[g] = "tell"
=============================================================================
