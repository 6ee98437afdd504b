----------------------------- MODULE KernelLock -----------------------------
(***************************************************************************)
(* The kernel lock of Redoubt: the ticket lock of kernel/src/cell.rs, whose *)
(* waiting harts halt (libs/ticket/src/lib.rs), with the reschedule         *)
(* interrupt that ends a halt (kernel/src/arch/riscv/hart.rs).  Every       *)
(* shared access of `acquire_ticket`, `Waits::wait` and `Waits::release` is *)
(* a step of its own, in the order the code makes them.  Those that decide  *)
(* a halt (record, mark, re-read, advance, marks, scan) are sequentially    *)
(* consistent, so steps interleave.  The draw is one atomic add; the test's *)
(* load may be older than that, which costs another turn of the wait, as    *)
(* a test taken a step earlier does.                                        *)
(*                                                                          *)
(* Tickets are machine words: they wrap at W (2^32 in the code).            *)
(***************************************************************************)
EXTENDS Integers, FiniteSets

CONSTANTS N,    \* harts started; a hart is its boot index
          W,    \* the number of ticket values
          Others  \* the harts other parts of the kernel also interrupt

\* MAX_HARTS is 8 and a ticket is a u32: there are more tickets than harts.
ASSUME NAssumption == N \in Nat \ {0}
ASSUME WAssumption == W \in Nat /\ N < W
ASSUME OthersAssumption == Others \subseteq 0 .. N - 1

Harts   == 0 .. N - 1
Tickets == 0 .. W - 1

VARIABLES next,     \* TicketLock.next: the next ticket to draw
          serving,  \* TicketLock.serving: the ticket being served
          halted,   \* Waits.halted: the harts marked waiting
          tickets,  \* Waits.tickets: each hart's ticket beside its mark
          ipi,      \* the harts whose supervisor software interrupt is pending
          lk,       \* where each hart is in the lock's code
          mine,     \* each hart's drawn ticket (a local of acquire_ticket)
          seen,     \* the marks a release loaded (a local of release)
          scan      \* the next hart a release looks at (a local of release)

lockVars == <<next, serving, halted, tickets, ipi, lk, mine, seen, scan>>

\* Drawn, its turn not come.
Waiting == {"test", "serve", "record", "mark", "reread", "halt", "ack", "clear"}
\* In a release, `serving` advanced already.
Releasing == {"marks", "scan"}
Places == {"out", "in"} \cup Waiting \cup Releasing

\* Mutant: a ticket wider than the word that is compared with it.
IncUnwrapped(t) == t + 1

\* `wrapping_add(1)` and `wrapping_sub` of tickets.
Inc(t)     == IF t = W - 1 THEN 0 ELSE t + 1
Dist(a, b) == IF a <= b THEN b - a ELSE b + W - a

\* The harts that drew a ticket not yet given up.
Holding == {h \in Harts : lk[h] \in Waiting \cup {"in"}}

LockTypeOK ==
  /\ next \in Tickets
  /\ serving \in Tickets
  /\ halted \in SUBSET Harts
  /\ tickets \in [Harts -> Tickets]
  /\ ipi \in SUBSET Harts
  /\ lk \in [Harts -> Places]
  /\ mine \in [Harts -> Tickets]
  /\ seen \in [Harts -> SUBSET Harts]
  /\ scan \in [Harts -> 0 .. N]

LockInit ==
  /\ next = 0
  /\ serving = 0
  /\ halted = {}
  /\ tickets = [h \in Harts |-> 0]
  /\ ipi = {}
  /\ lk = [h \in Harts |-> "out"]
  /\ mine = [h \in Harts |-> 0]
  /\ seen = [h \in Harts |-> {}]
  /\ scan = [h \in Harts |-> 0]

Move(h, from, to) == lk[h] = from /\ lk' = [lk EXCEPT ![h] = to]

----------------------------------------------------------------------------
(* acquire_ticket: draw, then loop { serving == ticket ? ; serve ; wait }. *)

Draw(h) ==
  /\ Move(h, "out", "test")
  /\ mine' = [mine EXCEPT ![h] = next]
  /\ next' = Inc(next)
  /\ UNCHANGED <<serving, halted, tickets, ipi, seen, scan>>

\* Mutant: tickets compared in order, which wrapping breaks.
TestInOrder(h) ==
  /\ Move(h, "test", IF serving >= mine[h] THEN "in" ELSE "serve")
  /\ UNCHANGED <<next, serving, halted, tickets, ipi, mine, seen, scan>>

\* Mutant: the lock taken by whoever finds it free (feature sched-test-and-set-entry).
TestAndSet(h) ==
  /\ Move(h, "test", IF \A g \in Harts : lk[g] # "in" THEN "in" ELSE "serve")
  /\ UNCHANGED <<next, serving, halted, tickets, ipi, mine, seen, scan>>

Test(h) ==
  /\ Move(h, "test", IF serving = mine[h] THEN "in" ELSE "serve")
  /\ UNCHANGED <<next, serving, halted, tickets, ipi, mine, seen, scan>>

\* hart::serve on a turn of the wait.  What it serves is Harts' business; here
\* all that matters is that it may consume the pending interrupt (ack_ipi).
Serve(h) ==
  /\ Move(h, "serve", "record")
  /\ ipi' \in {ipi, ipi \ {h}}
  /\ UNCHANGED <<next, serving, halted, tickets, mine, seen, scan>>

Record(h) ==
  /\ Move(h, "record", "mark")
  /\ tickets' = [tickets EXCEPT ![h] = mine[h]]
  /\ UNCHANGED <<next, serving, halted, ipi, mine, seen, scan>>

\* Mutant: `serving` read before the mark and not after it (feature read-before-mark).
MarkWithoutReread(h) ==
  /\ Move(h, "mark", "halt")
  /\ halted' = halted \cup {h}
  /\ UNCHANGED <<next, serving, tickets, ipi, mine, seen, scan>>

Mark(h) ==
  /\ Move(h, "mark", "reread")
  /\ halted' = halted \cup {h}
  /\ UNCHANGED <<next, serving, tickets, ipi, mine, seen, scan>>

Reread(h) ==
  /\ Move(h, "reread", IF serving = mine[h] THEN "clear" ELSE "halt")
  /\ UNCHANGED <<next, serving, halted, tickets, ipi, mine, seen, scan>>

\* halt_for_ipi: `wfi`, or nothing if the interrupt is pending already.
Halt(h) ==
  /\ h \in ipi
  /\ Move(h, "halt", "ack")
  /\ UNCHANGED <<next, serving, halted, tickets, ipi, mine, seen, scan>>

\* halt_for_lock's ack_ipi: whatever was pending is cleared.
Ack(h) ==
  /\ Move(h, "ack", "clear")
  /\ ipi' = ipi \ {h}
  /\ UNCHANGED <<next, serving, halted, tickets, mine, seen, scan>>

Clear(h) ==
  /\ Move(h, "clear", "test")
  /\ halted' = halted \ {h}
  /\ UNCHANGED <<next, serving, tickets, ipi, mine, seen, scan>>

----------------------------------------------------------------------------
(* release: advance serving, load the marks, wake the hart now served. *)

\* Mutant: a release that serves one ticket too many.
AdvanceTwice(h) ==
  /\ Move(h, "in", "marks")
  /\ serving' = Inc(Inc(serving))
  /\ mine' = [mine EXCEPT ![h] = Inc(Inc(serving))]
  /\ UNCHANGED <<next, halted, tickets, ipi, seen, scan>>

\* Only the holder writes `serving`, so its load and its store are one step.
Advance(h) ==
  /\ Move(h, "in", "marks")
  /\ serving' = Inc(serving)
  \* the release goes on to the ticket it served: its local `next`
  /\ mine' = [mine EXCEPT ![h] = Inc(serving)]
  /\ UNCHANGED <<next, halted, tickets, ipi, seen, scan>>

LoadMarks(h) ==
  /\ Move(h, "marks", "scan")
  /\ seen' = [seen EXCEPT ![h] = halted]
  /\ scan' = [scan EXCEPT ![h] = 0]
  /\ UNCHANGED <<next, serving, halted, tickets, ipi, mine>>

\* Mutant: a release that wakes nobody (feature wake-none).
ScanNobody(h) ==
  /\ Move(h, "scan", "out")
  /\ seen' = [seen EXCEPT ![h] = {}]
  /\ mine' = [mine EXCEPT ![h] = 0]
  /\ UNCHANGED <<next, serving, halted, tickets, ipi, scan>>

\* One step of `(0..N).filter(marked).find(ticket == next)`; the hart found is
\* sent the interrupt (wake_halted).
Scan(h) ==
  LET g == scan[h] IN
  /\ lk[h] = "scan"
  /\ IF g < N /\ ~(g \in seen[h] /\ tickets[g] = mine[h])
     THEN /\ scan' = [scan EXCEPT ![h] = g + 1]
          /\ UNCHANGED <<ipi, lk, seen, mine>>
     ELSE /\ ipi' = IF g < N THEN ipi \cup {g} ELSE ipi
          /\ lk' = [lk EXCEPT ![h] = "out"]
          /\ seen' = [seen EXCEPT ![h] = {}]
          /\ scan' = [scan EXCEPT ![h] = 0]
          /\ mine' = [mine EXCEPT ![h] = 0]
  /\ UNCHANGED <<next, serving, halted, tickets>>

----------------------------------------------------------------------------
(* The rest of the kernel, as the lock sees it. *)

\* A reschedule interrupt that is not a release's: wake_idle, a shootdown or
\* its acknowledgement, wake_halted from idle.
OtherIpi(h) ==
  /\ h \in Others \ ipi
  /\ ipi' = ipi \cup {h}
  /\ UNCHANGED <<next, serving, halted, tickets, lk, mine, seen, scan>>

\* The section's own ack_ipi (the software interrupt's arm of the trap handler,
\* the wait for a shootdown's acknowledgement).
SectionAck(h) ==
  /\ lk[h] = "in"
  /\ h \in ipi
  /\ ipi' = ipi \ {h}
  /\ UNCHANGED <<next, serving, halted, tickets, lk, mine, seen, scan>>

----------------------------------------------------------------------------
Wait(h) == \/ Test(h) \/ Serve(h) \/ Record(h) \/ Mark(h) \/ Reread(h)
           \/ Halt(h) \/ Ack(h) \/ Clear(h)

Release(h) == Advance(h) \/ LoadMarks(h) \/ Scan(h)

LockNext == \E h \in Harts :
              Draw(h) \/ Wait(h) \/ Release(h) \/ OtherIpi(h) \/ SectionAck(h)

\* Every hart runs: a step of the wait or of a release that stays possible is
\* taken, and a section ends (a kernel section is bounded, R12).
LockFairness == \A h \in Harts : WF_lockVars(Wait(h)) /\ WF_lockVars(Release(h))

LockSpec == LockInit /\ [][LockNext]_lockVars /\ LockFairness

----------------------------------------------------------------------------
(* Properties. *)

\* At most one hart is in a kernel section: cell.rs, KERNEL_LOCK ("every kernel
\* cell is reached by the one hart that holds the lock").
MutualExclusion == \A g, h \in Harts : lk[g] = "in" /\ lk[h] = "in" => g = h

\* R78, the assertion of acquire_ticket: a hart that drew waits behind fewer
\* sections than there are harts, whatever the wrap of the tickets.
FifoBound == \A h \in Holding : Dist(serving, mine[h]) < N

\* Release g, which serves ticket t, will wake hart h: it has yet to load the
\* marks, or it loaded h's mark, has not passed h and stops at no hart before it.
WillWake(g, t, h) ==
  /\ mine[g] = t
  /\ \/ lk[g] = "marks"
     \/ /\ lk[g] = "scan" /\ h \in seen[g] /\ scan[g] <= h
        /\ \A k \in seen[g] : scan[g] <= k /\ k < h => tickets[k] # t

\* No hart halts past its turn (cell.rs, release): a hart halted with its ticket
\* served has its interrupt pending, or the release that served it is about to
\* send it.
NoHaltPastTurn ==
  \A h \in Harts : lk[h] = "halt" /\ serving = mine[h] =>
     h \in ipi \/ \E g \in Harts : WillWake(g, serving, h)

\* Every hart that draws a ticket enters (redoubt-ticket: "no hart halts past
\* its turn"), with no help from any other interrupt.
EveryTurnComes == \A h \in Harts : lk[h] \in Waiting ~> lk[h] = "in"

----------------------------------------------------------------------------
(* The queue the lock keeps, and the abstract lock it implements. *)

\* The harts holding a ticket, from the one served to the last drawn.
Plus(t, i) == IF t + i < W THEN t + i ELSE t + i - W
Queue == [i \in 1 .. Dist(serving, next) |->
            CHOOSE h \in Holding : mine[h] = Plus(serving, i - 1)]

Fifo == INSTANCE FifoLock WITH queue <- Queue,
                               inside <- {h \in Harts : lk[h] = "in"}

\* The ticket lock is a first-come first-served lock: every step is a step of
\* FifoLock or leaves it unchanged, and its fairness carries over.
ImplementsFifo == Fifo!Spec
=============================================================================
