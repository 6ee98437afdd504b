-------------------------------- MODULE Stride --------------------------------
(***************************************************************************)
(* The stride scheduler: the queue and its wiring to the harts             *)
(* (libs/stride/src/lib.rs 238-985) as the kernel drives them              *)
(* (kernel/src/sched.rs settle, reconcile, leave, pick, repick, create,    *)
(* change_weight, destroy).  All of it runs under the kernel lock, so an   *)
(* operation is one step; between a hart's entry and its leave it may do   *)
(* several.                                                                *)
(*                                                                         *)
(* The queue, the budgets' scheduling words and the runners are one record *)
(* g that each operation maps to the next, as the code passes &mut through *)
(* its calls:                                                              *)
(*   floor, front, back, pending   the queue's own words                   *)
(*   slot     each queued budget's rank and counts, beside its slot        *)
(*   live, wt, st, count           the budgets: live, free weight, State,  *)
(*                                 and ready threads as last settled       *)
(*   lost, gained                  the budgets the settles since the last  *)
(*                                 reconcile moved                         *)
(*   cur, pend                     each hart's runner                      *)
(* A budget is its id.  Its ready threads are those of one process, so a   *)
(* settle lists it once.  A kernel interval's billing is part of the run   *)
(* it joins, or a Bill.                                                    *)
(***************************************************************************)
EXTENDS StrideMath, Sequences, FiniteSets, SequencesExt, TLC

CONSTANTS Budgets,       \* the budgets' ids, in the order they are made
          MaxHarts,      \* the harts that may come online
          Boot,          \* the budgets boot makes: id -> weight it keeps free
          ParentOf,      \* each boot budget's parent (0 for the root)
          Awake,         \* the boot budgets that start with a ready thread
          Runs,          \* how long a run, or work billed, may be, in ticks
          Carves,        \* the weights a new budget may be given
          MaxThreads,    \* the most runnable threads of one budget
          Fuel           \* the most entries and operations in a behaviour

ASSUME SchedAssumption ==
    /\ Budgets \subseteq Nat \ {0} /\ DOMAIN Boot \subseteq Budgets
    /\ MaxHarts \in Nat \ {0} /\ Fuel \in Nat /\ MaxThreads \in Nat

VARIABLES g,         \* the queue, the scheduling words and the runners
          online,    \* the harts online
          parent,    \* each budget's parent, once made
          limit,     \* each budget's weight limit, once made
          held,      \* the budgets that have held a process
          ready,     \* each budget's ready threads that no hart runs, now
          in,        \* the hart in the kernel, or None
          fuel

vars == <<g, online, parent, limit, held, ready, in, fuel>>

None == 0
Harts == 1..MaxHarts

MIN_CHARGE == 1

\* The function f: what @@ builds, TLC keeps as a table and not as a formula.
Table(f) == f @@ <<>>

\* The member of a one-member set: binds a value that is used several times.
Only(S) == CHOOSE x \in S : TRUE

-------------------------------------------------------------------------------
(* The queue                                                               *)

Queued(q) == DOMAIN q.slot
Threads(q, b) == q.slot[b].waiting + q.slot[b].running
AtFloor(q, b) == q.slot[b].pass <= q.floor
has_thread(q, b) == online = 1 \/ Threads(q, b) > 0
Runner(q, b) == {h \in Harts : q.cur[h] = b}

\* The queued budgets that count for the cap set, and those of them tested.
Weighed(q) == {b \in Queued(q) : q.slot[b].weight > 0 /\ Threads(q, b) > 0}

Tested(q, leaving) ==
    {b \in Weighed(q) : q.slot[b].capped
                        \/ q.slot[b].waiting <= (IF b = leaving THEN 1 ELSE 0)}

SumOf(f, S) == FoldSet(LAMBDA b, n : f[b] + n, 0, S)

\* Each tested budget against the whole of the harts and of the weight, once.
CapSetFlat(q, leaving) ==
    LET w == [b \in Weighed(q) |-> q.slot[b].weight]
    IN  {b \in Tested(q, leaving) : w[b] * online > Threads(q, b) * SumOf(w, Weighed(q))}

\* b is capped if it and every tested budget with a higher weight per thread
\* have a share of the harts and weight those before them leave above their
\* threads.  (Which of two equal ones is first changes nothing: if one is over
\* its share so is the other.)
CapSet(q, leaving) ==
    LET all   == Weighed(q)
        S     == Tested(q, leaving)
        k     == Table([b \in all |-> Threads(q, b)])
        w     == Table([b \in all |-> q.slot[b].weight])
        ahead == Table([b \in S |-> {c \in S :
                            w[c] * k[b] > w[b] * k[c] \/ (w[c] * k[b] = w[b] * k[c] /\ c < b)}])
        total == SumOf(w, all)
        over  == {b \in S : w[b] * (online - SumOf(k, ahead[b]))
                                > k[b] * (total - SumOf(w, ahead[b]))}
    IN  {b \in over : Cardinality(ahead[b]) < online - 1 /\ ahead[b] \subseteq over}

PassesOf(q, S) == {q.slot[b].pass : b \in S}

LiftTarget(q, capped, floor, b) ==
    IF b \notin capped THEN Min2(floor, q.slot[b].pass)
    ELSE IF q.slot[b].capped THEN q.slot[b].lift + (floor - q.floor)
    ELSE q.slot[b].lift

\* What stops being capped rises to its lift target.
lift_freed(q, capped) ==
    LET freed   == {b \in Queued(q) \ capped : /\ q.slot[b].capped /\ has_thread(q, b)
                                               /\ q.slot[b].pass < q.slot[b].lift}
        Risen(f) == [b \in freed |-> [f[b] EXCEPT !.pass = q.slot[b].lift]] @@ f
    IN  [q EXCEPT !.slot = Risen(@), !.st = Risen(@)]

FloorTarget(q, capped) ==
    LET some == {b \in Queued(q) : has_thread(q, b)}
    IN  IF some \ capped # {} THEN Min(PassesOf(q, some \ capped))
        ELSE IF some # {} THEN Max(PassesOf(q, some))
        ELSE IF Queued(q) # {} THEN Min(PassesOf(q, Queued(q)))
        ELSE q.floor

\* cap and raise_floor: the cap set, the lift of what stops being capped, the
\* floor, and the lift targets.
raise_floor(q, leaving) ==
    LET Rise(a, capped, floor) ==
            [a EXCEPT !.pending = FALSE, !.floor = floor,
                      !.slot = Table([b \in Queued(a) |-> [@[b] EXCEPT
                          !.capped = b \in capped,
                          !.lift = IF online > 1 THEN LiftTarget(a, capped, floor, b) ELSE @]])]
        Freed(a, capped) == Rise(a, capped, Max2(a.floor, FloorTarget(a, capped)))
        Capped(capped)   == Freed(lift_freed(q, capped), capped)
    IN  IF online = 1 /\ ~q.pending THEN q
        ELSE Capped(IF online > 1 THEN CapSet(q, leaving)
                    ELSE {b \in Queued(q) : q.slot[b].capped})

\* push: a new slot, its rank the caller's to write.
Pushed(q, b) ==
    [pass |-> q.st[b].pass, tie |-> q.st[b].tie,
     weight |-> IF online > 1 THEN q.wt[b] ELSE 0,
     waiting |-> 0, running |-> 0, capped |-> FALSE, lift |-> q.floor]

WithSlot(q, b, s) ==
    [q EXCEPT !.slot = (b :> s) @@ @]

remove_at(q, b) ==
    [q EXCEPT !.pending = @ \/ AtFloor(q, b),
              !.slot = Table([c \in Queued(q) \ {b} |-> q.slot[c]])]

reset_if_empty(q) == IF Queued(q) = {} THEN [q EXCEPT !.front = 0, !.back = 0] ELSE q

\* A queued budget's counts changed from q to r: it joins or leaves those the
\* floor counts.
recounted(q, r, b) == [r EXCEPT !.pending = @ \/ has_thread(q, b) # has_thread(r, b)]

set_waiting(q, b, n) ==
    IF online = 1 \/ b \notin Queued(q) THEN q
    ELSE recounted(q, [q EXCEPT !.slot[b].waiting = n], b)

\* A hart more or less is not counted.
ran_by_uncounted(q, b, more) == q

ran_by(q, b, more) ==
    IF online = 1 \/ b \notin Queued(q) THEN q
    ELSE recounted(q, [q EXCEPT !.slot[b].running = IF more THEN @ + 1 ELSE Above(@, 1)], b)

\* The raise that a pass risen from the floor owes is not noted.
recorded_unnoted(q, b, s) ==
    IF ~s.queued \/ b \notin Queued(q) THEN [q EXCEPT !.st[b] = s]
    ELSE [q EXCEPT !.st[b] = s, !.slot[b].pass = s.pass, !.slot[b].tie = s.tie]

\* A budget's new state is written, and a queued one's rank follows it.
recorded(q, b, s) ==
    IF ~s.queued \/ b \notin Queued(q) THEN [q EXCEPT !.st[b] = s]
    ELSE [q EXCEPT !.st[b] = s, !.slot[b].pass = s.pass, !.slot[b].tie = s.tie,
                   !.pending = @ \/ (AtFloor(q, b) /\ s.pass > q.slot[b].pass)]

fold(q, b, run, leaving) ==
    raise_floor(recorded(q, b, charge(q.st[b], q.wt[b], run)), leaving)

deschedule(q, b, still, leaving) ==
    LET s    == [q.st[b] EXCEPT !.queued = still, !.tie = IF still THEN q.back + 1 ELSE @]
        slot == IF b \in Queued(q) THEN q.slot[b] ELSE Pushed(q, b)
        q1   == IF still
                THEN WithSlot([q EXCEPT !.back = @ + 1, !.st[b] = s], b,
                              [slot EXCEPT !.pass = s.pass, !.tie = s.tie])
                ELSE [(IF b \in Queued(q) THEN remove_at(q, b) ELSE q) EXCEPT !.st[b] = s]
    IN  reset_if_empty(raise_floor(q1, leaving))

\* Same-entry wakes are taken in descending id, so the lowest id is frontmost.
WakeTie(q, W, b) == q.front - Cardinality({c \in W : c >= b})

WakePass(q, b) == Max2(q.st[b].pass, q.floor)

\* The budgets of W wake at the floor or above, before their equals.
woken(q, W, waiting) ==
    LET st == Table([b \in W |-> [q.st[b] EXCEPT !.pass = WakePass(q, b),
                         !.tie = WakeTie(q, W, b), !.queued = TRUE]])
    IN  [q EXCEPT !.pending = @ \/ Queued(q) = {},
                  !.front = @ - Cardinality(W),
                  !.st = st @@ @,
                  !.slot = @ @@ [b \in W |->
                      [Pushed(q, b) EXCEPT !.pass = st[b].pass, !.tie = st[b].tie,
                                           !.waiting = waiting[b]]]]

reconcile(q, lost, gained, waiting) ==
    LET visited == (lost \cup gained) \cap q.live
        counted == FoldSet(LAMBDA b, a : set_waiting(a, b, waiting[b]), q, visited)
        leaves  == {b \in lost \cap q.live :
                        Runner(q, b) = {} /\ q.st[b].queued /\ waiting[b] = 0}
        left    == FoldSet(LAMBDA b, a : [(IF b \in Queued(a) THEN remove_at(a, b) ELSE a)
                                            EXCEPT !.st[b].queued = FALSE], counted, leaves)
        Wakes(a) == woken(a, {b \in gained \cap q.live : waiting[b] > 0 /\ ~a.st[b].queued},
                          waiting)
    IN  Only({raise_floor(Wakes(a), None) : a \in {reset_if_empty(raise_floor(left, None))}})

Rank(q, b) == <<q.slot[b].pass, q.slot[b].tie, b>>

Before(r, s) ==
    \/ r[1] < s[1]
    \/ r[1] = s[1] /\ r[2] < s[2]
    \/ r[1] = s[1] /\ r[2] = s[2] /\ r[3] < s[3]

\* The lowest-ranked queued budget with a thread no hart runs.  (One with none
\* that no hart runs either would be taken out: QueueInStep says there is none.)
pick(q, waiting) ==
    LET S == {b \in Queued(q) : waiting[b] > 0}
    IN  IF S = {} THEN None
        ELSE CHOOSE b \in S : \A c \in S \ {b} : Before(Rank(q, b), Rank(q, c))

-------------------------------------------------------------------------------
(* The wiring to the harts                                                 *)

HartSeq == [i \in 1..MaxHarts |-> i]

\* Every runner of b folds what it ran into b's one pass.
settle_runs(q, b) ==
    FoldLeft(LAMBDA a, h : IF a.cur[h] # b THEN a
                           ELSE fold([a EXCEPT !.pend[h] = 0], b, a.pend[h], None),
             q, HartSeq)

bill(q, b, t) ==
    IF Runner(q, b) # {} THEN [q EXCEPT !.pend[Min(Runner(q, b))] = @ + t]
    ELSE fold(q, b, t, None)

change_weight(q, b, new) ==
    LET Restated(a) == recorded(a, b, rescale(a.st[b], q.wt[b], new, a.floor))
    IN  [Restated(settle_runs(q, b)) EXCEPT !.wt[b] = new,
            !.slot = IF online > 1 /\ b \in DOMAIN @ THEN [@ EXCEPT ![b].weight = new] ELSE @]

\* Hart h goes to next, c, the budget it ran, is charged and requeued or taken
\* out; still: c has a ready thread; requeued: h's own thread is one.
switch(q, h, next, requeued, still) ==
    LET c        == q.cur[h]
        leaving  == IF requeued THEN c ELSE None
        Off(a)   == IF c = None THEN a ELSE ran_by(a, c, FALSE)
        Billed(a) == IF c \notin q.live THEN a
                     ELSE deschedule(fold(a, c, Max2(q.pend[h], MIN_CHARGE), leaving), c,
                                     Runner(a, c) # {} \/ still, leaving)
        On(a)    == IF next = None THEN a ELSE ran_by(a, next, TRUE)
    IN  IF next = c THEN q
        ELSE On([Billed(Off([q EXCEPT !.cur[h] = None, !.pend[h] = 0])) EXCEPT !.cur[h] = next])

-------------------------------------------------------------------------------
(* The kernel's side: sched.rs                                             *)

Lost(q, rd) == {b \in q.live : rd[b] < q.count[b]}
Gained(q, rd) == {b \in q.live : rd[b] > q.count[b]}

\* The settle: the marked budgets' counts, and the queue's for the cap set.
settle(q, rd) ==
    LET lost   == q.lost \cup Lost(q, rd)
        gained == q.gained \cup Gained(q, rd)
    IN  [FoldSet(LAMBDA b, a : set_waiting(a, b, rd[b]), q, lost \cup gained)
            EXCEPT !.count = rd, !.lost = lost, !.gained = gained]

\* The end of a kernel entry: the queue takes in the budgets the settles moved.
reconciled(q, rd) ==
    [reconcile(q, q.lost, q.gained, rd) EXCEPT !.lost = {}, !.gained = {}]

\* Leaving the kernel on h for next, with rd the ready threads.
leave(q, rd, h, next, requeued) ==
    reconciled(switch(settle(q, rd), h, next, requeued,
                      q.cur[h] # None /\ rd[q.cur[h]] > 0), rd)

\* kmain's pick: the settle and the reconcile before it.
picking(q, rd) == reconciled(settle(q, rd), rd)

\* The preempted thread counts as running until it is switched off.
OwnRunning(q, b) == q

\* From the settle before the switch off, the preempted thread is waiting.
OwnWaiting(q, b) == set_waiting(q, b, 1)

\* A slice ended and the budget b of hart h has no other thread waiting: the
\* queue picks where it is, and the return follows.
repick(q, h, rd) ==
    LET b      == q.cur[h]
        wd     == [rd EXCEPT ![b] = 1]
        Off(a) == reconcile(reconciled(switch(a, h, None, TRUE, TRUE), wd), {}, {}, wd)
        Stay(a) == reconcile(switch(set_waiting(a, b, 0), h, b, FALSE, TRUE), {b}, {}, rd)
        On(a, n, left) == [run |-> n, rd |-> left, q |-> leave(a, left, h, n, FALSE)]
        To(a, n) == IF n = b THEN <<Stay(a), b, rd>> ELSE <<a, n, [wd EXCEPT ![n] = @ - 1]>>
        Picked(a) == To(a, pick(a, wd))
    IN  Only({On(p[1], p[2], p[3]) : p \in {Picked(a) : a \in {Off(OwnWaiting(settle(q, rd), b))}}})

\* The same slice end through kmain: the preempted thread made ready, the leave
\* for kmain, its pick and the leave for the thread picked.
RoundTrip(q, h, rd) ==
    LET wd == [rd EXCEPT ![q.cur[h]] = 1]
        On(a, n, left) == [run |-> n, rd |-> left, q |-> leave(a, left, h, n, FALSE)]
        To(a, n)  == On(a, n, [wd EXCEPT ![n] = @ - 1])
        Picked(a) == To(a, pick(a, wd))
    IN  Only({Picked(a) : a \in {picking(leave(q, wd, h, None, TRUE), wd)}})

-------------------------------------------------------------------------------
(* The steps                                                               *)

Init ==
    /\ g = [floor |-> 0, front |-> 0, back |-> 0, pending |-> FALSE,
            slot |-> <<>>, live |-> DOMAIN Boot,
            wt |-> [b \in Budgets |-> IF b \in DOMAIN Boot THEN Boot[b] ELSE 0],
            st |-> [b \in Budgets |-> NewState],
            count |-> [b \in Budgets |-> 0], lost |-> {}, gained |-> {},
            cur |-> [h \in Harts |-> None], pend |-> [h \in Harts |-> 0]]
    /\ online = 1
    /\ parent = [b \in Budgets |-> IF b \in DOMAIN Boot THEN ParentOf[b] ELSE None]
    /\ limit = [b \in Budgets |->
                  IF b \in DOMAIN Boot
                  THEN Boot[b] + SumOf(Boot, {c \in DOMAIN Boot : ParentOf[c] = b})
                  ELSE 0]
    /\ held = Awake
    /\ ready = [b \in Budgets |-> IF b \in Awake THEN 1 ELSE 0]
    /\ in = None
    /\ fuel = Fuel

tree == <<parent, limit, held>>

\* A hart came online: the counts that one hart does not keep are taken afresh.
HartOnline ==
    /\ in = None /\ online < MaxHarts
    /\ online' = online + 1
    /\ g' = [g EXCEPT !.slot = Table([b \in Queued(g) |-> [@[b] EXCEPT
                 !.waiting = g.count[b], !.running = Cardinality(Runner(g, b)),
                 !.weight = g.wt[b], !.lift = g.floor]])]
    /\ UNCHANGED <<tree, ready, in, fuel>>

\* A trap from user mode, after a run of t ticks.
Enter(h) ==
    /\ in = None /\ g.cur[h] # None /\ fuel > 0
    /\ \E t \in Runs : g' = [g EXCEPT !.pend[h] = @ + t]
    /\ in' = h /\ fuel' = fuel - 1
    /\ UNCHANGED <<online, tree, ready>>

\* An idle hart wakes into kmain's loop.
Kmain(h) ==
    /\ in = None /\ h <= online /\ g.cur[h] = None
    /\ in' = h
    /\ UNCHANGED <<g, online, tree, ready, fuel>>

\* What the entry does before it leaves: work, threads, budgets.
Op ==
    /\ in # None /\ fuel > 0
    /\ fuel' = fuel - 1
    /\ UNCHANGED <<online, in>>

Wake(b) ==
    /\ Op /\ g.wt[b] > 0
    /\ ready[b] + Cardinality(Runner(g, b)) < MaxThreads
    /\ ready' = [ready EXCEPT ![b] = @ + 1]
    /\ held' = held \cup {b}
    /\ UNCHANGED <<g, parent, limit>>

\* A ready thread is killed.
Lose(b) ==
    /\ Op /\ ready[b] > 0
    /\ ready' = [ready EXCEPT ![b] = @ - 1]
    /\ UNCHANGED <<g, tree>>

Bill(b) ==
    /\ Op
    /\ \E t \in Runs : g' = bill(g, b, t)
    /\ UNCHANGED <<tree, ready>>

Unborn == {b \in Budgets : limit[b] = 0 /\ parent[b] = None /\ b \notin g.live}

\* new_budget; made: its handle could be installed, or the carve is returned.
Create(p, w) ==
    LET c       == Min(Unborn)
        Made(a, e) == [a EXCEPT !.st[c] = [NewState EXCEPT !.pass = e, !.entry = e],
                                !.wt[c] = w]
        Entered(a) == Made(a, entry(a.floor, a.st[p].pass))
        Carved(a)  == change_weight(a, p, g.wt[p] - w)
        Ended(a, made) == IF made THEN [a EXCEPT !.live = @ \cup {c}]
                          ELSE change_weight(a, p, g.wt[p])
    IN  /\ Op /\ Unborn # {}
        /\ w <= g.wt[p] /\ ~(w > 0 /\ w = g.wt[p] /\ p \in held)
        /\ parent' = [parent EXCEPT ![c] = p]
        /\ limit' = [limit EXCEPT ![c] = w]
        /\ \E made \in BOOLEAN : g' = Ended(Carved(Entered(settle_runs(g, p))), made)
        /\ UNCHANGED <<held, ready>>

Below(top) ==
    LET Kids(S) == {c \in g.live : parent[c] \in S}
    IN  FoldSet(LAMBDA i, S : S \cup Kids(S), {top}, Budgets)

\* sched.rs destroy of one dying budget; back: the weight still to return.
destroy(q, b, back) ==
    LET p         == parent[b]
        Off(a)    == [a EXCEPT !.cur  = [h \in Runner(a, b) |-> None] @@ @,
                               !.pend = [h \in Runner(a, b) |-> 0] @@ @]
        Returned(a) == change_weight(a, p, a.wt[p] + back)
        Lifted(a) == recorded(a, p, lift(a.st[p], a.st[b], a.wt[b], a.wt[p], a.floor))
        Out(a)    == IF b \in Queued(a) THEN remove_at(a, b) ELSE a
    IN  [reset_if_empty(raise_floor(Out(Lifted(Returned(Off(settle_runs(q, b))))), None)) EXCEPT
            !.live = @ \ {b}, !.st[b] = NewState, !.count[b] = 0, !.wt[b] = 0]

\* destroy_subtree: the top's carve returns as it is marked, its threads die,
\* then each budget is lifted, descendants (which have higher ids) first.
Destroy(top) ==
    LET sub    == Below(top)
        marked == change_weight(g, parent[top], g.wt[parent[top]] + limit[top])
        dying  == SetToSortSeq(sub, >)
    IN  /\ Op /\ parent[top] # None
        /\ g' = FoldLeft(LAMBDA q, b : destroy(q, b, IF b = top THEN 0 ELSE limit[b]),
                         marked, dying)
        /\ ready' = [b \in Budgets |-> IF b \in sub THEN 0 ELSE ready[b]]
        /\ UNCHANGED tree

\* The hart returns to the thread it came from.
Return(h) ==
    /\ in = h /\ g.cur[h] # None
    /\ g' = leave(g, ready, h, g.cur[h], FALSE)
    /\ in' = None
    /\ UNCHANGED <<online, tree, ready, fuel>>

\* Its thread blocks or ends: kmain runs, still in the kernel.
Block(h) ==
    /\ in = h /\ g.cur[h] # None
    /\ g' = leave(g, ready, h, None, FALSE)
    /\ UNCHANGED <<online, tree, ready, in, fuel>>

\* Its thread is preempted through kmain: something is due, or (repick having
\* settled to find out) another thread of its budget waits.
Preempt(h) ==
    LET b  == g.cur[h]
        rd == [ready EXCEPT ![b] = @ + 1]
    IN  /\ in = h /\ b # None
        /\ \/ g' = leave(g, rd, h, None, TRUE)
           \/ ready[b] > 0 /\ g' = leave(settle(g, ready), rd, h, None, TRUE)
        /\ ready' = rd
        /\ UNCHANGED <<online, tree, in, fuel>>

\* Its slice ended with nothing due and no other thread of its budget waiting.
SliceEnd(h) ==
    /\ in = h /\ g.cur[h] # None /\ ready[g.cur[h]] = 0
    /\ \E r \in {repick(g, h, ready)} : g' = r.q /\ ready' = r.rd
    /\ in' = None
    /\ UNCHANGED <<online, tree, fuel>>

\* kmain picks a thread and switches into it, or finds none and idles.
Pick(h) ==
    LET q  == picking(g, ready)
        n  == pick(q, ready)
        rd == [ready EXCEPT ![n] = @ - 1]
    IN  /\ in = h /\ g.cur[h] = None
        /\ IF n = None THEN g' = q /\ UNCHANGED ready
           ELSE g' = leave(q, rd, h, n, FALSE) /\ ready' = rd
        /\ in' = None
        /\ UNCHANGED <<online, tree, fuel>>

Next ==
    \/ HartOnline
    \/ \E h \in Harts : \/ Enter(h) \/ Kmain(h) \/ Return(h) \/ Block(h)
                        \/ Preempt(h) \/ SliceEnd(h) \/ Pick(h)
    \/ \E b \in g.live : \/ Wake(b) \/ Lose(b) \/ Bill(b) \/ Destroy(b)
                         \/ \E w \in Carves : Create(b, w)

Spec == Init /\ [][Next]_vars

-------------------------------------------------------------------------------
(***************************************************************************)
(* The queue is in step with the threads (marks.rs audit, sched.rs         *)
(* audit_marks): with no hart in the kernel, a live budget is queued       *)
(* exactly when it has a ready thread or a hart runs it, whatever woke,    *)
(* died, moved or was destroyed on which hart; on several harts its counts *)
(* and its weight beside its slot are the real ones; and kmain's pick      *)
(* never meets a queued budget with nothing to run.                        *)
(***************************************************************************)
QueueInStep ==
    /\ in = None /\ g.lost = {} /\ g.gained = {} /\ ready = g.count =>
          \A b \in g.live :
              /\ g.st[b].queued <=> b \in Queued(g)
              /\ b \in Queued(g) <=> ready[b] > 0 \/ Runner(g, b) # {}
              /\ b \in Queued(g) /\ online > 1 =>
                    /\ g.slot[b].waiting = ready[b]
                    /\ g.slot[b].running = Cardinality(Runner(g, b))
                    /\ g.slot[b].weight = g.wt[b]
    /\ Queued(g) \subseteq g.live
    /\ in # None => LET q == picking(g, ready)
                    IN  \A b \in Queued(q) : ready[b] > 0 \/ Runner(q, b) # {}

(***************************************************************************)
(* The ranks the pick compares are the frames' (lib.rs audit), and no      *)
(* raise is missed: unless one is pending, the floor is not below the      *)
(* lowest pass of those that count for it.  On one hart it is exactly that *)
(* pass, and no queued budget is below it: none banks time.                *)
(***************************************************************************)
RanksAgree ==
    LET holds == {b \in Queued(g) : has_thread(g, b) /\ ~g.slot[b].capped}
    IN  /\ \A b \in Queued(g) : /\ g.st[b].queued
                                 /\ g.slot[b].pass = g.st[b].pass
                                 /\ g.slot[b].tie = g.st[b].tie
        /\ ~g.pending /\ holds # {} => g.floor >= Min(PassesOf(g, holds))
        /\ online = 1 => \A b \in Queued(g) : g.slot[b].pass >= g.floor

(***************************************************************************)
(* The cap set the queue finds in one pass down the weights per thread is  *)
(* the water-filling of audit_caps: over and over, every budget over its   *)
(* share of what is left is capped, until none is.  At each leave to user  *)
(* mode or to the idle.                                                    *)
(***************************************************************************)
Filled ==
    LET k       == [b \in Queued(g) |-> ready[b] + Cardinality(Runner(g, b))]
        counted == {b \in Queued(g) : g.wt[b] > 0 /\ k[b] > 0}
        may     == {b \in counted : g.slot[b].capped \/ ready[b] = 0}
        More(C) == {b \in may \ C : g.wt[b] * (online - SumOf(k, C))
                                        > k[b] * SumOf(g.wt, counted \ C)}
    IN  IF online = 1 THEN {} ELSE FoldSet(LAMBDA i, C : C \cup More(C), {}, Budgets)

CapsFilled ==
    [][in # None /\ in' = None =>
          {b \in Queued(g') : g'.slot[b].capped} = Filled']_vars

(***************************************************************************)
(* A slice's end picked where it is leaves exactly what the round trip     *)
(* through kmain leaves: the same thread runs and every word of the queue, *)
(* the ranks and the runners is the same.                                  *)
(***************************************************************************)
RepickAsRoundTrip ==
    in # None /\ g.cur[in] # None /\ ready[g.cur[in]] = 0 =>
        repick(g, in, ready) = RoundTrip(g, in, ready)

(***************************************************************************)
(* Destroying a budget mints no time and loses none, whatever runs,        *)
(* raises, caps and carves came before: were a budget with no other under  *)
(* it destroyed now (those under it go first, and their weight returns to  *)
(* it), what its parent then owes, weighted, is what the two owed, the     *)
(* budget's since it entered; and each remainder is below its weight, so a *)
(* debt has one form.                                                      *)
(***************************************************************************)
DebtExact ==
    /\ \A b \in g.live : g.st[b].rem < Max2(g.wt[b], 1)
    /\ \A b \in g.live : parent[b] # None /\ (\A c \in g.live : parent[c] # b) =>
          LET p == parent[b]
              w == g.wt[p] + limit[b]
              s == rescale(g.st[p], g.wt[p], w, g.floor)
          IN  w > 0 => Owes(lift(s, g.st[b], g.wt[b], w, g.floor), w, g.floor)
                  = Owes(g.st[p], g.wt[p], g.floor)
                    + Owes(g.st[b], g.wt[b], Max2(g.st[b].entry, g.floor))
================================================================================
