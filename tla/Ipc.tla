-------------------------------- MODULE Ipc --------------------------------
(***************************************************************************)
(* Messages of the Redoubt kernel (kernel/src/message.rs, endpoint.rs):     *)
(* call, send, receive, reply, serve, the two turns, lends and transfers of *)
(* pages, abandoned calls and their notices, exit notices, timeouts, and    *)
(* the end of threads, processes and budgets.                               *)
(*                                                                          *)
(* A kernel entry runs under the kernel lock (KernelLock), so nothing else  *)
(* happens until it ends.  Its loops are steps here: `pumps` holds the      *)
(* endpoints the entry still has to pump, `entry` the thread whose blocking *)
(* call it has still to settle, and every operation waits for both to be    *)
(* empty (AtRest).  A step of deliver_all is one Pump action; the order of  *)
(* the endpoints pumped in one entry is left open.                          *)
(*                                                                          *)
(* Abstracted: message words, badges and handles; page tables and the pages *)
(* they cost (a delivery with a buffer may be refused for them); labels (R1 *)
(* is the constant relation Flows).  A deadline is "never", "later" or      *)
(* "now" (a poll), and the timer may find any "later" passed.               *)
(***************************************************************************)
EXTENDS FairLine, FiniteSets

CONSTANTS
  Threads, Pids, Endpoints, Budgets,
  Pages,       \* RAM frames processes own and lend
  Frames,      \* object frames open calls are kept in
  ProcOf,      \* [Threads -> Pids]
  BudgetOf,    \* [Pids -> Budgets]: the budget a process runs in
  GroupOf,     \* [Budgets -> groups]: R2's group of a budget (Group::of)
  OwnerOf,     \* [Endpoints -> Budgets]
  ExitTo,      \* [Pids -> Endpoints \cup {None}]: a process's exit endpoint
  Handles,     \* [pid, to, stamp]: the badged handles processes hold
  Receives,    \* Pids \X Endpoints: the receive rights processes hold
  Flows,       \* Budgets \X Budgets: sender and owner R1 lets pass
  Subtree,     \* [Budgets -> SUBSET Budgets]: a budget and those below it
  Mortal,      \* budgets that may be destroyed
  FirstOwner,  \* [Pages -> Pids]: who owns each page at the start
  Limit,       \* [Budgets -> Nat]: a budget's pages
  WaitCap,     \* WAIT_CAP
  MaxOpenCalls,\* MAX_OPEN_CALLS
  Deadlines,   \* the deadlines calls use, of "never", "later", "now"
  MaxBuffer,   \* bound: pages of a message's buffer
  Maxes,       \* the max_transfer of receives
  Turners,     \* threads that make turns
  Mappers,     \* threads that map and unmap pages
  Exiting,     \* threads that may end by thread_exit
  Dying        \* threads that may end their process

ASSUME KindsAssumption ==
  /\ ProcOf \in [Threads -> Pids] /\ BudgetOf \in [Pids -> Budgets]
  /\ OwnerOf \in [Endpoints -> Budgets] /\ ExitTo \in [Pids -> Endpoints \cup {None}]
  /\ Handles \subseteq [pid : Pids, to : Endpoints, stamp : Budgets]
  /\ Receives \subseteq Pids \X Endpoints /\ Flows \subseteq Budgets \X Budgets
  /\ Subtree \in [Budgets -> SUBSET Budgets] /\ Mortal \subseteq Budgets
  /\ FirstOwner \in [Pages -> Pids] /\ Limit \in [Budgets -> Nat]
  /\ DOMAIN GroupOf = Budgets
ASSUME BoundsAssumption ==
  /\ WaitCap \in Nat \ {0} /\ MaxOpenCalls \in Nat \ {0} /\ MaxBuffer \in Nat
  /\ Deadlines \subseteq {"never", "later", "now"} /\ Maxes \subseteq 0..MaxBuffer
  /\ Turners \cup Mappers \cup Exiting \cup Dying \subseteq Threads
  /\ IsFiniteSet(Pages) /\ IsFiniteSet(Frames) /\ IsFiniteSet(Threads)
ASSUME NoneAssumption ==
  None \notin Threads \cup Pids \cup Endpoints \cup Frames \cup Pages

VARIABLES
  alive,      \* the threads that exist
  budgets,    \* the budgets that exist
  thread,     \* each thread's IPC page: its wait and what it sends or holds
  line,       \* each endpoint's queue, in the one order of arrivals and takes
  receivers,  \* each endpoint's receivers, in the order they began to wait
  exits,      \* each endpoint's owed exit notices, in the order they came
  call,       \* the open calls, by frame
  opencalls,  \* each process's account of its open calls
  owner,      \* each page's owner, None for a free page
  ptes,       \* page table entries [page, pid, kind]
  used,       \* each budget's pages_used
  pumps,      \* the endpoints this entry has still to pump
  entry,      \* the thread whose blocking call this entry has still to settle
  told        \* the calls the last step completed, as it told their callers

vars == <<alive, budgets, thread, line, receivers, exits, call, opencalls,
          owner, ptes, used, pumps, entry, told>>

-----------------------------------------------------------------------------
(* The pages of a thread and of an open call.                               *)

NoMsg == [kind |-> "none", stamp |-> None, buf |-> {}]
Msgs  == [kind : {"call", "send"}, stamp : Budgets, buf : SUBSET Pages] \cup {NoMsg}

\* W_THEN: where a thread is in a turn, and the receive half still to come.
Half(k, e, d, m) == [half |-> k, source |-> e, due |-> d, max |-> m]
NoTurn == Half("none", None, "never", 0)
Turns  == [half : {"sending", "replying"}, source : Endpoints,
           due : Deadlines, max : 0..MaxBuffer]
          \cup {NoTurn, Half("replied", None, "never", 0), Half("sent", None, "never", 0)}

Idle == [wait |-> "none", due |-> "never", on |-> None, open |-> None,
         max |-> 0, msg |-> NoMsg, then |-> NoTurn, held |-> <<>>, current |-> None]
Slots == [wait : {"none", "send", "reply", "receive"},
          due : Deadlines \cup {"never"}, on : Endpoints \cup {None},
          open : Frames \cup {None}, max : 0..MaxBuffer, msg : Msgs,
          then : Turns, held : Seq(Frames), current : Frames \cup {None}]

NoCall == [caller |-> None, server |-> None, endpoint |-> None, stamp |-> None,
           payer |-> None, lend |-> {}, waiting |-> FALSE, notice |-> FALSE]
Calls  == [caller : Threads, server : Threads, endpoint : Endpoints, stamp : Budgets,
           payer : Budgets, lend : SUBSET Pages, waiting : BOOLEAN, notice : BOOLEAN]

\* A page table entry: "own" (VALID), "lent" (S), "borrowed" (VALID and S).
Entry(pages, p, k) == {[page |-> g, pid |-> p, kind |-> k] : g \in pages}
Ptes == [page : Pages, pid : Pids, kind : {"own", "lent", "borrowed"}]

\* A queue's token: a message that arrived, or its group's last take (thread None).
Tokens == [group : {GroupOf[b] : b \in Budgets}, thread : Threads \cup {None}]

Pid(t)      == ProcOf[t]
Budget(t)   == BudgetOf[ProcOf[t]]
Group(t)    == GroupOf[Budget(t)]
Live(p)     == {t \in alive : ProcOf[t] = p}
LiveEnd(e)  == OwnerOf[e] \in budgets
Wait(t)     == thread[t].wait
Members(s)  == {s[i] : i \in DOMAIN s}
AtRest      == pumps = {} /\ entry = None
Running(t)  == AtRest /\ t \in alive /\ Wait(t) = "none"

TypeOK ==
  /\ alive \subseteq Threads /\ budgets \subseteq Budgets
  /\ thread \in [Threads -> Slots]
  /\ line \in [Endpoints -> Seq(Tokens)]
  /\ receivers \in [Endpoints -> Seq(Threads)]
  /\ exits \in [Endpoints -> Seq(Pids)]
  /\ call \in [Frames -> Calls \cup {NoCall}]
  /\ opencalls \in [Pids -> 0..MaxOpenCalls]
  /\ owner \in [Pages -> Pids \cup {None}]
  /\ ptes \subseteq Ptes
  /\ used \in [Budgets -> Nat] /\ \A b \in Budgets : used[b] <= Limit[b]
  /\ pumps \subseteq Endpoints
  /\ entry \in Threads \cup {None}
  /\ told \subseteq [to : Threads, lend : {"returned", "consumed"}, buf : SUBSET Pages]

-----------------------------------------------------------------------------
(* R2's order of turns (FairLine; the kernel's lists are FairQueue).        *)

Tok(t) == Arrival(Group(t), t)

\* The threads whose messages on e a receiver may take: all of them, or the sends
\* alone for a receiver that takes no calls.
Waiting(e, calls) ==
  {t \in Threads : /\ thread[t].wait = "send" /\ thread[t].on = e
                   /\ calls \/ thread[t].msg.kind = "send"}

\* How many messages a group has queued (G_COUNT).
Queued(e, g) == Cardinality({t \in Waiting(e, TRUE) : Group(t) = g})

-----------------------------------------------------------------------------
(* Charges.  A page is charged to its owner's budget, and the charge moves  *)
(* with it (move_frame); an open call charges its payer one page, and its   *)
(* lend as well while its caller waits (R3, R4a).                           *)

Owned(own, b) == Cardinality({g \in Pages : own[g] # None /\ BudgetOf[own[g]] = b})

\* What budgets own at the start, they can pay for.
ASSUME StartAssumption == \A b \in Budgets : Owned(FirstOwner, b) <= Limit[b]

\* Open call f's page, and its lend, as what they are charged for.
OpenPage(f) == {<<f, None>>}
LendPages(f) == {f} \X call[f].lend

\* Mutant: an abandoned call's lend is given back again.
CloseChargeTwice(f) == OpenPage(f) \cup LendPages(f)

\* What closing call f gives its payer back: an abandoned call's lend stopped
\* being the payer's when it was abandoned.
CloseCharge(f) == OpenPage(f) \cup IF call[f].waiting THEN LendPages(f) ELSE {}

\* pages_used once pages changed owner and the calls in C were closed, those in A
\* abandoned.
Uncharged(own, C, A) ==
  [b \in Budgets |->
     used[b] + Owned(own, b) - Owned(owner, b)
     - Cardinality(UNION ({CloseCharge(f) : f \in {f \in C : call[f].payer = b}}
                          \cup {LendPages(f) : f \in {f \in A : call[f].payer = b}}))]

-----------------------------------------------------------------------------
(* Ending waits, and threads.                                               *)

\* wake: the wait, its deadline and a turn end; the calls held stay.
Woken(s) == [Idle EXCEPT !.held = s.held, !.current = s.current]

\* Mutant: a caller whose call was taken is told that its lend is back.
TellReturned(t, disposition, buf) ==
  {r \in {[to |-> t, lend |-> "returned", buf |-> buf]} : buf # {}}

\* call_result: what a caller is told of its lend, if it had one.
Tell(t, disposition, buf) ==
  {r \in {[to |-> t, lend |-> disposition, buf |-> buf]} : buf # {}}

Lends(F) == UNION {call[f].lend : f \in F}

\* Mutant: a call whose server ends in the same destruction is abandoned too.
AbandonedToTheDead(F, K) == {f \in Frames : call[f].waiting /\ call[f].caller \in F \cup K}

\* abandon: the calls taken from threads F and K that wait no more.  Their lends
\* are their servers' alone, and a notice is owed.
AbandonedBy(F, K) ==
  {f \in Frames : call[f].waiting /\ call[f].caller \in F \cup K /\ call[f].server \notin K}

\* end_thread: the calls held by threads that end.
HeldBy(K) == {f \in Frames : call[f] # NoCall /\ call[f].server \in K}

\* The wait of each thread in F fails (fail_wait), and the threads in K end
\* (end_thread, finish_served), processes `dead` with them (release_owned_frames)
\* and endpoints `gone` (endpoint_dying).
Unwind(F, K, dead, gone, queues) ==
  LET A == AbandonedBy(F, K)
      C == HeldBy(K)
      answered  == {f \in C : call[f].waiting /\ call[f].caller \notin K}
      withdrawn == {t \in F \cup K : Wait(t) = "send"}
      home == Lends({f \in C : call[f].waiting})
              \cup UNION {thread[t].msg.buf : t \in withdrawn}
      lost == Lends({f \in C : ~call[f].waiting})
      moved == Lends(A)
      own == [g \in Pages |->
                CASE g \in moved -> Pid(call[CHOOSE f \in A : g \in call[f].lend].server)
                  [] g \notin moved /\ (g \in lost \/ owner[g] \in dead) -> None
                  [] OTHER -> owner[g]]
  IN  /\ alive' = alive \ K
      /\ thread' = [t \in Threads |->
                      IF t \in K THEN Idle
                      ELSE IF t \in F \cup {call[f].caller : f \in answered}
                           THEN Woken(thread[t]) ELSE thread[t]]
      /\ line' = [e \in Endpoints |-> Dequeue(queues[e], withdrawn)]
      /\ receivers' = [e \in Endpoints |-> Without(receivers[e], F \cup K)]
      /\ call' = [f \in Frames |->
                    CASE f \in C -> NoCall
                      [] f \in A -> [call[f] EXCEPT !.waiting = FALSE,
                                                    !.notice = call[f].endpoint \notin gone]
                      [] f \notin C \cup A /\ call[f].endpoint \in gone
                           -> [call[f] EXCEPT !.notice = FALSE]
                      [] OTHER -> call[f]]
      /\ opencalls' = [p \in Pids |->
                         opencalls[p] - Cardinality({f \in C : Pid(call[f].server) = p})]
      /\ owner' = own
      /\ ptes' = {x \in ptes : /\ x.pid \notin dead /\ x.page \notin home \cup lost
                               /\ x.page \in moved => x.kind = "borrowed"}
                 \cup {[x EXCEPT !.kind = "own"] :
                         x \in {x \in ptes : /\ x.page \in home /\ x.kind = "lent"
                                             /\ x.pid \notin dead}}
      /\ used' = Uncharged(own, C, A)
      /\ told' = UNION ({Tell(t, "returned", thread[t].msg.buf) :
                           t \in {t \in F : Wait(t) = "send" /\ thread[t].msg.kind = "call"}}
                        \cup {Tell(call[f].caller, "consumed", call[f].lend) :
                                f \in {f \in A : call[f].caller \in F}}
                        \cup {Tell(call[f].caller, "returned", call[f].lend) : f \in answered})

\* Where the notices of what they abandon are owed: fail_wait and the ends of
\* threads pump there.
NoticesFor(F, K) == {call[f].endpoint : f \in AbandonedBy(F, K)}

\* A wait ends without an answer, everything else as it was.
FailWait(F) == Unwind(F, {}, {}, {}, line) /\ UNCHANGED <<budgets, exits>>

-----------------------------------------------------------------------------
(* call, send and the send half of a turn.                                  *)

\* lend_out: a buffer leaves its sender's address space.
Lent(p, buf) == (ptes \ Entry(buf, p, "own")) \cup Entry(buf, p, "lent")

\* check_buffer: a range of the process's own pages, none lent or borrowed.
Buffers(p) ==
  {buf \in SUBSET {g \in Pages : [page |-> g, pid |-> p, kind |-> "own"] \in ptes} :
     Cardinality(buf) <= MaxBuffer}

\* A handle is live while its endpoint and its stamp are: R10 sweeps the rest.
Holds(p, h) == h.pid = p /\ LiveEnd(h.to) /\ h.stamp \in budgets

\* permit_send: R1, then R2's cap.
Permits(p, e) ==
  /\ <<BudgetOf[p], OwnerOf[e]>> \in Flows
  /\ Queued(e, GroupOf[BudgetOf[p]]) < WaitCap

\* queue_send: the message waits in its group for a taker, which may be there.
Sending(s, kind, h, buf, due, then) ==
  [s EXCEPT !.wait = "send", !.on = h.to, !.due = due, !.then = then,
            !.msg = [kind |-> kind, stamp |-> h.stamp, buf |-> buf]]

QueueSend(t, kind, h, buf, due, then) ==
  /\ thread' = [thread EXCEPT ![t] = Sending(@, kind, h, buf, due, then)]
  /\ line' = [line EXCEPT ![h.to] = Append(@, Tok(t))]
  /\ ptes' = Lent(Pid(t), buf)
  /\ pumps' = {h.to} /\ entry' = t /\ told' = {}
  /\ UNCHANGED <<alive, budgets, receivers, exits, call, opencalls, owner, used>>

Send(t, kind, h, buf, due) ==
  /\ Running(t)
  /\ Holds(Pid(t), h) /\ Permits(Pid(t), h.to)
  /\ buf \in Buffers(Pid(t))
  /\ QueueSend(t, kind, h, buf, due, NoTurn)

SendReceive(t, h, buf, sdue, e, rdue, max) ==
  /\ Running(t)
  /\ Holds(Pid(t), h) /\ Permits(Pid(t), h.to)
  /\ <<Pid(t), e>> \in Receives /\ LiveEnd(e)
  /\ buf \in Buffers(Pid(t))
  /\ QueueSend(t, "send", h, buf, sdue, Half("sending", e, rdue, max))

-----------------------------------------------------------------------------
(* receive, reply, and the reply half of a turn.                            *)

\* begin_receive: last among the endpoint's receivers.
Receiving(s, e, due, max, half) ==
  [s EXCEPT !.wait = "receive", !.on = e, !.due = due, !.max = max, !.msg = NoMsg,
            !.then = half, !.current = None]

Receive(t, e, due, max) ==
  /\ Running(t)
  /\ <<Pid(t), e>> \in Receives /\ LiveEnd(e)
  /\ thread' = [thread EXCEPT ![t] = Receiving(@, e, due, max, NoTurn)]
  /\ receivers' = [receivers EXCEPT ![e] = Append(@, t)]
  /\ pumps' = {e} /\ entry' = t /\ told' = {}
  /\ UNCHANGED <<alive, budgets, line, exits, call, opencalls, owner, ptes, used>>

\* A receive refused (no such handle, a badged one, a bad record) changes one thing: the
\* thread has no current call (R21).
ReceiveRefused(t) ==
  /\ Running(t)
  /\ thread' = [thread EXCEPT ![t].current = None]
  /\ told' = {}
  /\ UNCHANGED <<alive, budgets, line, receivers, exits, call, opencalls, owner, ptes,
                 used, pumps, entry>>

\* serve: the call becomes the thread's current one.
Serve(t, f) ==
  /\ Running(t) /\ f \in Members(thread[t].held)
  /\ thread' = [thread EXCEPT ![t].current = f]
  /\ told' = {}
  /\ UNCHANGED <<alive, budgets, line, receivers, exits, call, opencalls, owner, ptes,
                 used, pumps, entry>>

\* drop_open_call: the call leaves the thread, and is its current one no more.
Dropped(s, f) == [s EXCEPT !.held = Without(@, {f}),
                           !.current = IF @ = f THEN None ELSE @]

\* poke_receivers: after a reply the process may take calls again (R4a).
Poked(p) == {thread[x].on : x \in {x \in Live(p) : Wait(x) = "receive"}}

\* finish_reply: a waiting caller has its lend back and its answer, or an error
\* if its record is gone; an abandoned call's lend is freed.
FinishReply(t, f, then) ==
  LET c == call[f]
      own == [g \in Pages |-> IF g \in c.lend /\ ~c.waiting THEN None ELSE owner[g]]
      answered == {x \in Threads : c.waiting /\ x = c.caller}
  IN  /\ thread' = [x \in Threads |->
                      IF x = t THEN [Dropped(thread[t], f) EXCEPT !.then = then]
                      ELSE IF x \in answered THEN Woken(thread[x]) ELSE thread[x]]
      /\ call' = [call EXCEPT ![f] = NoCall]
      /\ opencalls' = [opencalls EXCEPT ![Pid(t)] = @ - 1]
      /\ owner' = own
      /\ ptes' = {x \in ptes : x.page \notin c.lend}
                 \cup UNION {Entry(c.lend, Pid(x), "own") : x \in answered}
      /\ used' = Uncharged(own, {f}, {})
      /\ pumps' = Poked(Pid(t))
      /\ told' = UNION {Tell(x, "returned", c.lend) : x \in answered}
      /\ UNCHANGED <<alive, budgets, line, receivers, exits>>

Reply(t, f) ==
  /\ Running(t) /\ f \in Members(thread[t].held)
  /\ FinishReply(t, f, NoTurn)
  /\ UNCHANGED entry

ReplyReceive(t, f, e, due, max) ==
  /\ Running(t) /\ f \in Members(thread[t].held)
  /\ <<Pid(t), e>> \in Receives /\ LiveEnd(e)
  /\ FinishReply(t, f, Half("replying", e, due, max))
  /\ entry' = t

\* The receive half of a reply_receive, once the reply has poked its receivers.
ReceiveHalf ==
  /\ pumps = {} /\ entry # None /\ thread[entry].then.half = "replying"
  /\ LET h == thread[entry].then
     IN  /\ thread' = [thread EXCEPT ![entry] =
                         Receiving(@, h.source, h.due, h.max, Half("replied", None, "never", 0))]
         /\ receivers' = [receivers EXCEPT ![h.source] = Append(@, entry)]
         /\ pumps' = {h.source}
  /\ told' = {}
  /\ UNCHANGED <<alive, budgets, line, exits, call, opencalls, owner, ptes, used, entry>>

\* settle: resume with the answer, time out at once, or block.
Settle ==
  /\ pumps = {} /\ entry # None /\ thread[entry].then.half # "replying"
  /\ entry' = None
  /\ \/ /\ Wait(entry) = "none" \/ thread[entry].due # "now"
        /\ told' = {}
        /\ UNCHANGED <<alive, budgets, thread, line, receivers, exits, call, opencalls,
                       owner, ptes, used, pumps>>
     \/ /\ Wait(entry) # "none" /\ thread[entry].due = "now"
        /\ FailWait({entry})
        /\ pumps' = NoticesFor({entry}, {})

-----------------------------------------------------------------------------
(* Delivery: deliver_all, one iteration a step.                             *)

\* check_receive_record: another thread of a blocked receiver's process may have
\* unmapped its record, or the first half of a turn may have given its page away; else
\* the thread making the entry checked its own in it.
Record(r) ==
  IF (r # entry /\ Live(Pid(r)) # {r}) \/ thread[r].then.half \in {"sent", "replied"}
  THEN BOOLEAN ELSE {TRUE}

\* owed_notice: the notices owed on e whose holders receive there, and the one
\* delivered next: its holder began to wait first, its call taken first.
Owing(e) == {f \in Frames : /\ call[f].notice /\ call[f].endpoint = e
                            /\ call[f].server \in Members(receivers[e])}
FirstOf(s, S) == s[CHOOSE i \in DOMAIN s : s[i] \in S /\ \A j \in 1..(i - 1) : s[j] \notin S]
OwedNotice(e) ==
  LET r == FirstOf(receivers[e], {call[f].server : f \in Owing(e)})
  IN  FirstOf(thread[r].held, Owing(e))

\* A receiver takes a notice, or leaves with an error and the notice stays.
Notice(e) ==
  /\ Owing(e) # {}
  /\ LET f == OwedNotice(e)
         r == call[f].server
     IN  \E ok \in Record(r) :
           /\ call' = IF ok THEN [call EXCEPT ![f].notice = FALSE] ELSE call
           /\ thread' = [thread EXCEPT ![r] = Woken(@)]
           /\ receivers' = [receivers EXCEPT ![e] = Without(@, {r})]
  /\ told' = {}
  /\ UNCHANGED <<alive, budgets, line, exits, opencalls, owner, ptes, used, pumps, entry>>

\* An exit notice goes to the receiver that began to wait first.
ExitNotice(e) ==
  /\ Owing(e) = {} /\ exits[e] # <<>> /\ receivers[e] # <<>>
  /\ LET r == Head(receivers[e])
     IN  \E ok \in Record(r) :
           /\ exits' = IF ok THEN [exits EXCEPT ![e] = Tail(@)] ELSE exits
           /\ thread' = [thread EXCEPT ![r] = Woken(@)]
           /\ receivers' = [receivers EXCEPT ![e] = Without(@, {r})]
  /\ told' = {}
  /\ UNCHANGED <<alive, budgets, line, call, opencalls, owner, ptes, used, pumps, entry>>

\* Mutant: the limit on open calls is not looked at.
TakesAnything(r) == TRUE

\* pick: a receiver takes calls below MAX_OPEN_CALLS, and sends always.
TakesCalls(r) == opencalls[Pid(r)] < MaxOpenCalls
CanTake(e) == {r \in Members(receivers[e]) : Waiting(e, TakesCalls(r)) # {}}
Receiver(e) == FirstOf(receivers[e], CanTake(e))
Sender(e) == PickFrom(line[e], Waiting(e, TakesCalls(Receiver(e))))
Messages(e) == Owing(e) = {} /\ (exits[e] = <<>> \/ receivers[e] = <<>>) /\ CanTake(e) # {}

\* A receiver that cannot be told what it took takes nothing.
BadRecord(e) ==
  /\ Messages(e)
  /\ FALSE \in Record(Receiver(e))
  /\ FailWait({Receiver(e)})
  /\ UNCHANGED <<pumps, entry>>

\* prepare: what the receiver's budget must pay for a message.
Cost(r, s) ==
  LET buf == Cardinality(thread[s].msg.buf)
  IN  CASE thread[s].msg.kind = "call" -> 1 + buf
        [] thread[s].msg.kind = "send" -> IF Budget(r) = Budget(s) THEN 0 ELSE buf
Payable(r, s) ==
  /\ Cost(r, s) <= Limit[Budget(r)] - used[Budget(r)]
  /\ thread[s].msg.kind = "send" => Cardinality(thread[s].msg.buf) <= thread[r].max

\* A message the receiver cannot pay for, or has no place for, fails its sender;
\* its group has had its turn.  Its handles and page tables, not counted here, may
\* cost too much whatever it is.  (Singletons are bound here, for TLC to compute them once.)
Refuse(e) ==
  /\ Messages(e)
  /\ \E s \in {Sender(e)} :
       \E served \in {Served(line[e], Group(s))} :
         Unwind({s}, {}, {}, {}, [line EXCEPT ![e] = served])
  /\ UNCHANGED <<budgets, exits, pumps, entry>>

\* continue_turn: a turn's send is taken, and its receive half begins, its endpoint
\* listed to be pumped; one destroyed meanwhile is the half's Dead.
Turn(s) == thread[s].then.half = "sending"

\* Mutant: the source is not looked at again.
ContinuesAnyway(s) == Turn(s)

Continues(s) == Turn(s) /\ LiveEnd(thread[s].then.source)

\* Mutant: a turn that ends with its send is left as one still sending.
SentStale(s) ==
  IF Continues(s)
  THEN LET h == thread[s].then
       IN  Receiving(thread[s], h.source, h.due, h.max, Half("sent", None, "never", 0))
  ELSE [Woken(thread[s]) EXCEPT !.then = thread[s].then]

\* A turn whose send is taken has no current call (R21), whichever way it goes on.
Sent(s) ==
  CASE Continues(s) ->
         LET h == thread[s].then
         IN  Receiving(thread[s], h.source, h.due, h.max, Half("sent", None, "never", 0))
    [] Turn(s) /\ ~Continues(s) -> [Woken(thread[s]) EXCEPT !.current = None]
    [] ~Turn(s) -> Woken(thread[s])

\* Mutant: a receive half is not pumped for.
ListsNoPump(s) == {}

\* list_pump: where a taken send's receive half is to be pumped.
ListsPump(s) == {e \in Endpoints : Continues(s) /\ e = thread[s].then.source}

\* A transfer changes owner and payer together; its sender is done.
DeliverSend(e) ==
  /\ Messages(e)
  /\ LET r == Receiver(e)
         s == Sender(e)
         buf == thread[s].msg.buf
         own == [g \in Pages |-> IF g \in buf THEN Pid(r) ELSE owner[g]]
     IN  /\ thread[s].msg.kind = "send" /\ Payable(r, s)
         /\ thread' = [thread EXCEPT ![r] = Woken(@), ![s] = Sent(s)]
         /\ line' = [line EXCEPT ![e] = Dequeue(Served(@, Group(s)), {s})]
         /\ receivers' = [x \in Endpoints |->
                             LET left == Without(receivers[x], {r})
                             IN  IF Continues(s) /\ x = thread[s].then.source
                                 THEN Append(left, s) ELSE left]
         /\ owner' = own
         /\ ptes' = {x \in ptes : x.page \notin buf} \cup Entry(buf, Pid(r), "own")
         /\ used' = Uncharged(own, {}, {})
         /\ pumps' = pumps \cup ListsPump(s)
  /\ told' = {}
  /\ UNCHANGED <<alive, budgets, exits, call, opencalls, entry>>

\* push_open_call: a receiver holds the call it took last, as its current one; and its
\* caller now waits for the reply, its page naming the open call.
Serving(s, f)  == [Woken(s) EXCEPT !.held = Append(@, f), !.current = f]
Awaiting(s, f) == [s EXCEPT !.wait = "reply", !.open = f, !.on = None, !.msg = NoMsg]

\* The frame an open call is kept in.  Free frames are interchangeable: one is chosen for all.
FreeFrame == CHOOSE f \in Frames : call[f] = NoCall

\* A call opens, charged with its lend to the receiving budget, and becomes the
\* receiver's current call; its caller waits for the reply.
DeliverCall(e) ==
  /\ Messages(e)
  /\ LET r == Receiver(e)
         s == Sender(e)
         m == thread[s].msg
     IN  /\ m.kind = "call" /\ Payable(r, s)
         /\ \E f \in Frames :
              /\ f = FreeFrame /\ call[f] = NoCall
              /\ call' = [call EXCEPT ![f] =
                    [caller |-> s, server |-> r, endpoint |-> e, stamp |-> m.stamp,
                     payer |-> Budget(r), lend |-> m.buf, waiting |-> TRUE, notice |-> FALSE]]
              /\ thread' = [thread EXCEPT ![r] = Serving(@, f), ![s] = Awaiting(@, f)]
         /\ line' = [line EXCEPT ![e] = Dequeue(Served(@, Group(s)), {s})]
         /\ opencalls' = [opencalls EXCEPT ![Pid(r)] = @ + 1]
         /\ ptes' = ptes \cup Entry(m.buf, Pid(r), "borrowed")
         /\ used' = [used EXCEPT ![Budget(r)] = @ + Cost(r, s)]
         /\ receivers' = [receivers EXCEPT ![e] = Without(@, {r})]
  /\ told' = {}
  /\ UNCHANGED <<alive, budgets, exits, owner, pumps, entry>>

\* Mutant: an endpoint pumped stays on the list.
PumpedAgain(e) ==
  /\ Owing(e) = {} /\ (exits[e] = <<>> \/ receivers[e] = <<>>) /\ CanTake(e) = {}
  /\ told' = {}
  /\ UNCHANGED <<alive, budgets, thread, line, receivers, exits, call, opencalls, owner,
                 ptes, used, pumps, entry>>

\* Nothing more can be delivered on e.
Pumped(e) ==
  /\ Owing(e) = {} /\ (exits[e] = <<>> \/ receivers[e] = <<>>) /\ CanTake(e) = {}
  /\ pumps' = pumps \ {e} /\ told' = {}
  /\ UNCHANGED <<alive, budgets, thread, line, receivers, exits, call, opencalls, owner,
                 ptes, used, entry>>

Pump(e) ==
  /\ e \in pumps
  /\ \/ Notice(e) \/ ExitNotice(e) \/ BadRecord(e) \/ Refuse(e)
     \/ DeliverSend(e) \/ DeliverCall(e) \/ Pumped(e)

-----------------------------------------------------------------------------
(* Timeouts and ends.                                                       *)

\* Mutant: a call that was taken does not time out.
ExpireQueued(t) ==
  /\ AtRest /\ t \in alive /\ Wait(t) \in {"send", "receive"} /\ thread[t].due # "never"
  /\ FailWait({t})
  /\ pumps' = NoticesFor({t}, {})
  /\ UNCHANGED entry

\* time_out: the timer finds a deadline passed.
Expire(t) ==
  /\ AtRest /\ t \in alive /\ Wait(t) # "none" /\ thread[t].due # "never"
  /\ FailWait({t})
  /\ pumps' = NoticesFor({t}, {})
  /\ UNCHANGED entry

\* thread_exit of a thread that is not its process's last: its wait is over, so
\* nothing is pumped.
ThreadExit(t) ==
  /\ Running(t) /\ Live(Pid(t)) # {t}
  /\ Unwind({}, {t}, {}, {}, line)
  /\ pumps' = NoticesFor({}, {t})
  /\ UNCHANGED <<budgets, exits, entry>>

\* The orders a set of processes may be killed in.
Orders(S) == {s \in [1..Cardinality(S) -> S] : {s[i] : i \in DOMAIN s} = S}

\* settle_notice: where the end of a process in budget b is reported, if R1 lets it.
Reports(p) == {e \in Endpoints : e = ExitTo[p] /\ LiveEnd(e) /\ <<BudgetOf[p], OwnerOf[e]>> \in Flows}

\* A process exits or faults (died): its threads end, its memory goes, then its
\* notice is owed.
ProcessExit(t) ==
  /\ Running(t)
  /\ LET p == Pid(t)
     IN  /\ Unwind({}, Live(p), {p}, {}, line)
         /\ exits' = [e \in Endpoints |-> IF e \in Reports(p) THEN Append(exits[e], p) ELSE exits[e]]
         /\ pumps' = NoticesFor({}, Live(p)) \cup Reports(p)
  /\ UNCHANGED <<budgets, entry>>

\* budgets_dying, endpoint_dying: the surviving threads that fail with Dead when
\* budgets D and endpoints `gone` go and threads K have ended: those waiting on such an
\* endpoint, and those whose message, queued or taken, came through such a stamp.
Reached(D, K, gone) ==
  {t \in alive \ K :
     \/ Wait(t) \in {"send", "receive"} /\ thread[t].on \in gone
     \/ Wait(t) = "send" /\ thread[t].msg.stamp \in D
     \/ /\ Wait(t) = "reply"
        /\ LET c == call[thread[t].open]
           IN  (c.endpoint \in gone \/ c.stamp \in D) /\ c.server \notin K}

\* destroy_subtree: the processes of a dying subtree are killed, its endpoints
\* destroyed, and what was sent through a handle stamped with it fails; nothing is
\* pumped until the end, and no endpoint of the subtree then.
Destroy(b) ==
  /\ AtRest /\ b \in Mortal \cap budgets
  /\ LET D == Subtree[b] \cap budgets
         dead == {p \in Pids : BudgetOf[p] \in D /\ Live(p) # {}}
         K == {t \in alive : Budget(t) \in D}
         gone == {e \in Endpoints : OwnerOf[e] \in D}
         F == Reached(D, K, gone)
     IN  /\ Unwind(F, K, dead, gone, line)
         /\ budgets' = budgets \ D
         /\ \E order \in Orders(dead) :
              exits' = [e \in Endpoints |->
                          IF e \in gone THEN <<>>
                          ELSE exits[e] \o Without(order, {p \in dead : e \notin Reports(p)})]
         /\ pumps' = (NoticesFor(F, K) \cup UNION {Reports(p) : p \in dead}) \ gone
  /\ UNCHANGED entry

-----------------------------------------------------------------------------
(* A process's own memory (map_anon, unmap): only a page that is neither    *)
(* lent out nor borrowed can be unmapped (owned_mapping).                   *)

MapPage(t, g) ==
  /\ Running(t) /\ owner[g] = None /\ used[Budget(t)] < Limit[Budget(t)]
  /\ owner' = [owner EXCEPT ![g] = Pid(t)]
  /\ ptes' = ptes \cup Entry({g}, Pid(t), "own")
  /\ used' = [used EXCEPT ![Budget(t)] = @ + 1]
  /\ told' = {}
  /\ UNCHANGED <<alive, budgets, thread, line, receivers, exits, call, opencalls, pumps, entry>>

UnmapPage(t, g) ==
  /\ Running(t) /\ Entry({g}, Pid(t), "own") \subseteq ptes
  /\ owner' = [owner EXCEPT ![g] = None]
  /\ ptes' = ptes \ Entry({g}, Pid(t), "own")
  /\ used' = [used EXCEPT ![Budget(t)] = @ - 1]
  /\ told' = {}
  /\ UNCHANGED <<alive, budgets, thread, line, receivers, exits, call, opencalls, pumps, entry>>

-----------------------------------------------------------------------------
Init ==
  /\ alive = Threads /\ budgets = Budgets
  /\ thread = [t \in Threads |-> Idle]
  /\ line = [e \in Endpoints |-> <<>>]
  /\ receivers = [e \in Endpoints |-> <<>>]
  /\ exits = [e \in Endpoints |-> <<>>]
  /\ call = [f \in Frames |-> NoCall]
  /\ opencalls = [p \in Pids |-> 0]
  /\ owner = FirstOwner
  /\ ptes = UNION {Entry({g}, FirstOwner[g], "own") : g \in Pages}
  /\ used = [b \in Budgets |-> Owned(FirstOwner, b)]
  /\ pumps = {} /\ entry = None /\ told = {}

\* The steps of an entry under way.
Kernel == ReceiveHalf \/ Settle \/ \E e \in Endpoints : Pump(e)

\* What running threads ask of the kernel.
Calling(t) ==
  \/ \E h \in Handles, buf \in SUBSET Pages, due \in Deadlines :
       \E kind \in {"call", "send"} : Send(t, kind, h, buf, due)
  \/ \E e \in Endpoints, due \in Deadlines, max \in Maxes : Receive(t, e, due, max)
  \/ \E f \in Frames : Reply(t, f) \/ Serve(t, f)
  \/ ReceiveRefused(t)
Turning(t) ==
  \E e \in Endpoints, due \in Deadlines, max \in Maxes :
    \/ \E f \in Frames : ReplyReceive(t, f, e, due, max)
    \/ \E h \in Handles, buf \in SUBSET Pages, sdue \in Deadlines :
         SendReceive(t, h, buf, sdue, e, due, max)
Ending ==
  \/ \E t \in Exiting : ThreadExit(t)
  \/ \E t \in Dying : ProcessExit(t)
  \/ \E b \in Budgets : Destroy(b)
Mapping(t) == \E g \in Pages : MapPage(t, g) \/ UnmapPage(t, g)

Next ==
  \/ Kernel
  \/ \E t \in Threads : Calling(t) \/ Expire(t)
  \/ \E t \in Turners : Turning(t)
  \/ \E t \in Mappers : Mapping(t)
  \/ Ending

\* Whoever may call or send, and the end of such a wait by its timeout.
Callers == {t \in Threads : \E h \in Handles : h.pid = Pid(t)}
CallExpires(t) == Wait(t) \in {"send", "reply"} /\ Expire(t)

\* An entry runs to its end, and the timer finds every call's and send's deadline passed:
\* a hart in the kernel is not preempted, its timer interrupt is not masked for ever, and
\* these waits are noted (module Timer; a turn's receive half may not be).
Fairness == WF_vars(Kernel) /\ \A t \in Callers : SF_vars(CallExpires(t))

Spec == Init /\ [][Next]_vars /\ Fairness

-----------------------------------------------------------------------------
(* Properties.                                                              *)

\* I5, R3, R4a: each budget is charged exactly for the pages its processes own, for
\* the open calls it pays for and, while their callers wait, for their lends: no
\* reply, refusal, timeout, abandonment or end of a thread, process or budget leaves
\* a charge behind or returns one twice (charge, uncharge, close_call, abandon); and
\* a process's count of open calls is what its threads hold (push_open_call).
ChargesBalance ==
  /\ \A b \in Budgets :
       used[b] = Owned(owner, b)
                 + Cardinality(UNION {OpenPage(f) \cup IF call[f].waiting THEN LendPages(f) ELSE {} :
                                        f \in {f \in Frames : call[f] # NoCall /\ call[f].payer = b}})
  /\ \A p \in Pids :
       opencalls[p] = Cardinality({f \in Frames : call[f] # NoCall /\ Pid(call[f].server) = p})

\* I9, R3: a page can be touched through one address space at most; a lent page is its
\* lender's, unmapped there, while its call waits, and its server's alone once the
\* call is abandoned; a free page is named by no table.  So return_page_inner,
\* unmap_from and drop_lent find the entries they expect.
LendsHeld ==
  LET Taken == {f \in Frames : call[f] # NoCall}
      At(g) == {x \in ptes : x.page = g}
      Queue(g) == {t \in Threads : g \in thread[t].msg.buf}
      Open(g) == {f \in Taken : g \in call[f].lend}
      Has(g, p, k) == Entry({g}, p, k) \subseteq ptes
  IN  \A g \in Pages :
        /\ Cardinality(Queue(g)) + Cardinality(Open(g)) <= 1
        /\ owner[g] = None <=> At(g) = {}
        /\ \A t \in Queue(g) : At(g) = Entry({g}, Pid(t), "lent") /\ owner[g] = Pid(t)
        /\ \A f \in Open(g) :
             LET c == call[f]
             IN  IF c.waiting
                 THEN /\ At(g) = Entry({g}, Pid(c.caller), "lent")
                                 \cup Entry({g}, Pid(c.server), "borrowed")
                      /\ owner[g] = Pid(c.caller)
                 ELSE /\ At(g) = Entry({g}, Pid(c.server), "borrowed")
                      /\ owner[g] = Pid(c.server)
        /\ Queue(g) \cup Open(g) = {} /\ owner[g] # None
             => At(g) = Entry({g}, owner[g], "own")

\* I1, the checked build's audit (check_lists): who waits is on exactly the list its
\* wait names, every waiting caller has one open call and every waiting call one
\* caller, each open call is held once, by its server, and a current call is held.
ListsAgree ==
  LET Pos(s, x) == {i \in DOMAIN s : s[i] = x}
  IN  /\ \A t \in Threads, e \in Endpoints :
           LET s == thread[t]
           IN  /\ Cardinality(Pos(line[e], Tok(t))) =
                     (IF s.wait = "send" /\ s.on = e THEN 1 ELSE 0)
               /\ Cardinality(Pos(receivers[e], t)) =
                     (IF s.wait = "receive" /\ s.on = e THEN 1 ELSE 0)
      /\ \A t \in Threads :
           LET s == thread[t]
           IN  /\ s.wait # "none" => t \in alive
               /\ {f \in Frames : call[f].waiting /\ call[f].caller = t} =
                     (IF s.wait = "reply" THEN {s.open} ELSE {})
               /\ Members(s.held) = {f \in Frames : call[f].server = t}
               /\ Len(s.held) = Cardinality(Members(s.held))
               /\ s.current = None \/ s.current \in Members(s.held)
               /\ s.then.half = "sending" => s.wait = "send" /\ s.msg.kind = "send"
               /\ s.then.half \in {"sent", "replied"} => s.wait = "receive"

\* R10: nothing waits on a destroyed endpoint or through a destroyed stamp, no call
\* waits there for its reply, and no notice is owed there, so nothing names a frame
\* that is freed (budgets_dying, endpoint_dying).
NothingDeadAwaited ==
  /\ \A t \in Threads :
       /\ Wait(t) \in {"send", "receive"} => LiveEnd(thread[t].on)
       /\ Wait(t) = "send" => thread[t].msg.stamp \in budgets
  /\ \A f \in Frames :
       /\ call[f].waiting => LiveEnd(call[f].endpoint) /\ call[f].stamp \in budgets
       /\ call[f].notice => LiveEnd(call[f].endpoint) /\ ~call[f].waiting
  /\ \A e \in Endpoints : exits[e] # <<>> \/ e \in pumps => LiveEnd(e)

\* R13: what a completed call says of its lend is so: "returned" pages are the caller's,
\* mapped as before; "consumed" ones are not its to touch (call_result, fail_wait).
LendTold ==
  \A r \in told :
    /\ r.lend = "returned" => Entry(r.buf, Pid(r.to), "own") \subseteq ptes
    /\ r.lend = "consumed" =>
         (Entry(r.buf, Pid(r.to), "own") \cup Entry(r.buf, Pid(r.to), "lent")) \cap ptes = {}

\* R4, R4a: between entries, nothing deliverable waits while a receiver waits for it:
\* no exit notice, no abandoned-call notice its holder could take, no message but a
\* call its process cannot take.
NothingStranded ==
  AtRest => \A e \in Endpoints :
    /\ receivers[e] # <<>> => exits[e] = <<>>
    /\ Owing(e) = {}
    /\ CanTake(e) = {}

\* A kernel entry ends: its deliveries, and the pumps they list, run out (R12).
EntriesEnd == []<>AtRest

\* I13: a call or send with a deadline returns, or goes on to its turn's receive,
\* however its server behaves.
CallsReturn ==
  \A t \in Callers :
    (Wait(t) \in {"send", "reply"} /\ thread[t].due # "never")
      ~> (Wait(t) \notin {"send", "reply"} \/ t \notin alive)
=============================================================================
