------------------------------- MODULE Timer -------------------------------
(* The kernel's timer (kernel/src/time.rs, the timed waits of message.rs, Hint  *)
(* of libs/stride): each hart's timer is armed, as the hart returns to user     *)
(* mode or idles, for its slice's end and for the earliest timeout and budget   *)
(* deadline unless another hart's timer comes by them.                          *)
(*                                                                              *)
(* A thread's own block lowers the timeouts' hint.  The receive half of a       *)
(* send_receive whose send waited begins in the taker's entry, with no block:   *)
(* its wait is listed and lowers its process's cache, and not the hint.         *)
(*                                                                              *)
(* A section of the kernel lock is an entry, what the call or the interrupt     *)
(* changes, and a return or the idle; time may pass between them.  A process is *)
(* the waits of one budget; an expiry ends everything due in one step, so the   *)
(* order in which timeouts and deadlines fall, and who is billed, are left out. *)
EXTENDS Integers, FiniteSets, FiniteSetsExt

CONSTANTS
  Harts, Threads, Budgets, Root, None,
  BudgetOf,    \* the budget of each thread
  Parent,      \* of each budget but Root
  Slice,       \* SLICE_US
  MaxTime      \* bound: the last instant

ASSUME TimerAssumption ==
  /\ Root \in Budgets /\ None \notin Budgets \cup Harts
  /\ BudgetOf \in [Threads -> Budgets] /\ Parent \in [Budgets \ {Root} -> Budgets]
  /\ Slice \in Nat \ {0} /\ MaxTime \in Nat \ {0}

Never == MaxTime + Slice + 1   \* NEVER: later than any time
Times == 1 .. MaxTime

VARIABLES
  now,
  waits,      \* each thread's timed wait: its deadline, or Never
  turns,      \* the threads whose send_receive's send waits, timed or not (Then::Sending)
  cache,      \* each budget's earliest_timeout
  deadline,   \* each budget's, or Never
  live,       \* the budgets there are
  threads, budgets,   \* the two hints
  ended,      \* a wait that held `threads` has ended
  unnoted,    \* history: the threads whose wait would have lowered `threads` and did not, since it was recomputed
  slice, moved, armed,   \* of each hart
  timer,      \* when each hart's timer comes, as the firmware was told
  paused,     \* of each hart: what its slice had left as an interrupt paused it, or None
  cur,        \* the budget each hart runs, or None
  at,         \* of each hart: "user", "idle", "left" (shot down), "kernel" or, its entry's work done, "done"
  holder      \* of the kernel lock, or None

hintVars == <<threads, budgets, ended, unnoted>>
waitVars == <<waits, turns, cache, deadline, live>>
armVars  == <<slice, moved, armed, timer, paused>>
vars == <<now, waitVars, hintVars, armVars, cur, at, holder>>

-----------------------------------------------------------------------------
(* Hints. *)

NoHint == [at |-> Never, payer |-> None]

Lowered(hint, t, payer) ==
  IF t < hint.at THEN [at |-> t, payer |-> payer]
  ELSE IF t = hint.at /\ hint.payer # payer THEN [at |-> t, payer |-> None]
  ELSE hint

\* Lowered to a wait or a deadline, if it has one.
Noted(hint, t, payer) == IF t = Never THEN hint ELSE Lowered(hint, t, payer)

\* The hint over a set of items <<instant, payer>>: lowered to each in turn, in any order.
HintOf(items) ==
  LET real == {i \in items : i[1] # Never}
      first == Min({i[1] : i \in real})
      payers == {i[2] : i \in {j \in real : j[1] = first}}
  IN  IF real = {} THEN NoHint
      ELSE [at |-> first, payer |-> IF \E p \in payers : payers = {p} THEN CHOOSE p \in payers : TRUE ELSE None]

\* Mutant: a hart that runs the payer covers the item whatever it is armed for.
DueOnPayer(hint, h, runs, arm) ==
  IF hint.payer # None /\ \E g \in Harts \ {h} : runs[g] = hint.payer THEN Never ELSE hint.at

\* When hart h's timer must come by an item.
DueOn(hint, h, runs, arm) ==
  LET payer == {p \in {hint.payer} \ {None} : \E g \in Harts : runs[g] = p}
      covered == \E g \in Harts \ {h} : arm[g] <= hint.at /\ (payer = {} \/ runs[g] \in payer)
  IN  IF hint.payer # None /\ runs[h] = hint.payer THEN hint.at
      ELSE IF covered THEN Never ELSE hint.at

EarliestTimeouts(c) == HintOf({<<c[b], b>> : b \in live})

\* Mutant: a wait that held the hint ends, and the hint is left.
SettledNot(c, hint, isEnded) == hint

\* settle_timeouts: recomputed from the caches once a wait that held it has ended.
Settled(c, hint, isEnded) == IF isEnded THEN EarliestTimeouts(c) ELSE hint

\* What is still unnoted once the hint is settled.
Unsettled == IF ended THEN {} ELSE unnoted

\* rearm, with the hart's runner and its slice as they are now: what it is armed for.
Target(h, hint, runs, sl, arm) ==
  Min({DueOn(hint, h, runs, arm), DueOn(budgets, h, runs, arm), sl})

Rearm(h, runs, sl, mv) ==
  LET hint == Settled(cache, threads, ended)
      target == Target(h, hint, runs, sl, armed)
      early == armed[h] = mv /\ target > armed[h]
      set == target # armed[h] /\ ~early
  IN  /\ threads' = hint /\ ended' = FALSE /\ unnoted' = Unsettled
      /\ slice' = [slice EXCEPT ![h] = sl] /\ moved' = [moved EXCEPT ![h] = mv]
      /\ armed' = IF set THEN [armed EXCEPT ![h] = target] ELSE armed
      /\ timer' = IF set THEN [timer EXCEPT ![h] = target] ELSE timer

-----------------------------------------------------------------------------
(* Waits and budgets. *)

\* Each cache after the waits of S end: one that held its process's earliest raises it (untime).
Untimed(S) ==
  [b \in Budgets |->
     LET own == {t \in Threads : BudgetOf[t] = b}
         rest == {waits[t] : t \in own \ S} \cup {Never}
     IN  IF \E t \in own \cap S : waits[t] # Never THEN Max({cache[b], Min(rest)}) ELSE cache[b]]

\* Budget b and every one under it.
Subtree(b) ==
  LET under[n \in 0 .. Cardinality(Budgets)] ==
        IF n = 0 THEN {b} ELSE under[n - 1] \cup {c \in live \ {Root} : Parent[c] \in under[n - 1]}
  IN  under[Cardinality(Budgets)]
ThreadsOf(B) == {t \in Threads : BudgetOf[t] \in B}

Cleared(f, S) == [x \in DOMAIN f |-> IF x \in S THEN Never ELSE f[x]]

\* The budgets of `dead` are gone, and the waits of `over` have ended: harts that ran one leave it.
Gone(dead, over) ==
  /\ waits' = Cleared(waits, over) /\ turns' = turns \ over /\ cache' = Untimed(over)
  /\ deadline' = Cleared(deadline, dead) /\ live' = live \ dead
  /\ cur' = [g \in Harts |-> IF cur[g] \in dead THEN None ELSE cur[g]]
Leaving(dead) == {g \in Harts : cur[g] \in dead /\ at[g] = "user"}

-----------------------------------------------------------------------------
(* Entries. *)

\* expire_due at `now`, then the audit's settle: what is due ends, and both hints are recomputed.
\* An interrupt of the timer is armed afresh at the return, as what just passed is.
Expire(h, isTimer) ==
  LET hint == Settled(cache, threads, ended)
      due  == hint.at <= now \/ budgets.at <= now
      dead == IF due THEN UNION {Subtree(b) : b \in {c \in live : deadline[c] <= now}} ELSE {}
      over == IF due THEN {t \in Threads : waits[t] <= now} \cup ThreadsOf(dead) ELSE {}
      left == live \ dead
  IN  /\ Gone(dead, over) /\ ended' = FALSE
      /\ threads' = IF due THEN HintOf({<<cache'[b], b>> : b \in left}) ELSE hint
      /\ unnoted' = IF due THEN {} ELSE Unsettled
      /\ budgets' = IF due THEN HintOf({<<deadline[b], Parent[b]>> : b \in left \ {Root}}) ELSE budgets
      /\ armed' = IF due \/ isTimer THEN [armed EXCEPT ![h] = 0] ELSE armed
      /\ at' = [g \in Harts |-> IF g = h THEN "kernel" ELSE IF g \in Leaving(dead) THEN "left" ELSE at[g]]

Entry(h, isTimer) ==
  /\ holder = None /\ holder' = h /\ Expire(h, isTimer)
  /\ UNCHANGED <<now, timer>>

\* A call of the running thread, whose slice goes on.
Call(h) == at[h] = "user" /\ Entry(h, FALSE) /\ UNCHANGED <<slice, moved, paused>>

\* An interrupt: the slice pauses with what it had left, or is over if the timer came at its end.
Interrupt(h, isTimer) ==
  /\ at[h] \in {"user", "idle"} /\ Entry(h, isTimer)
  /\ IF isTimer /\ slice[h] <= now
     THEN slice' = [slice EXCEPT ![h] = Never] /\ moved' = [moved EXCEPT ![h] = Never] /\ UNCHANGED paused
     ELSE /\ paused' = IF slice[h] = Never THEN paused
                       ELSE [paused EXCEPT ![h] = IF slice[h] > now THEN slice[h] - now ELSE 0]
          /\ UNCHANGED <<slice, moved>>

TimerInterrupt(h) == timer[h] <= now /\ Interrupt(h, TRUE)
OtherInterrupt(h) == Interrupt(h, FALSE)

\* A hart that left its thread's space takes the lock and runs kmain.
EnterLeft(h) ==
  /\ at[h] = "left" /\ Entry(h, FALSE)
  /\ slice' = [slice EXCEPT ![h] = Never] /\ moved' = [moved EXCEPT ![h] = Never] /\ UNCHANGED paused

-----------------------------------------------------------------------------
(* What an entry changes. *)

\* An entry does one of these, or none, and returns.
Doing(h) == at[h] = "kernel" /\ at' = [at EXCEPT ![h] = "done"] /\ UNCHANGED <<now, holder>>
InCall(h) == at[h] = "kernel" /\ cur[h] # None

\* The running thread blocks until d, in the send half of a send_receive if turn, and kmain picks.
Block(h, t, d, turn) ==
  /\ InCall(h) /\ Doing(h) /\ BudgetOf[t] = cur[h] /\ waits[t] = Never /\ t \notin turns
  /\ d > now /\ (d # Never \/ turn)
  /\ waits' = [waits EXCEPT ![t] = d] /\ turns' = IF turn THEN turns \cup {t} ELSE turns
  /\ cache' = [cache EXCEPT ![cur[h]] = Min({@, d})]
  /\ threads' = Noted(threads, d, cur[h])
  /\ slice' = [slice EXCEPT ![h] = Never] /\ moved' = [moved EXCEPT ![h] = Never]
  /\ paused' = [paused EXCEPT ![h] = None]
  /\ UNCHANGED <<deadline, live, budgets, ended, unnoted, armed, timer, cur>>

\* A wait ends before its timeout.
Answer(h, t) ==
  /\ Doing(h) /\ (waits[t] # Never \/ t \in turns)
  /\ waits' = Cleared(waits, {t}) /\ turns' = turns \ {t} /\ cache' = Untimed({t})
  /\ ended' = (ended \/ (waits[t] # Never /\ threads.at = waits[t])) /\ unnoted' = unnoted \ {t}
  /\ UNCHANGED <<deadline, live, threads, budgets, armVars, cur>>

\* A turn's message is taken, and its receive half begins in the taker's entry, until d (continue_turn):
\* the wait of its send ends, and mark lists the new one, which is never settled.  The taker calls, or an expiry,
\* which disarms the hart, pumps.
Continue(h, t, d) ==
  /\ InCall(h) \/ armed[h] = 0
  /\ Doing(h) /\ t \in turns /\ d >= now
  /\ waits' = [waits EXCEPT ![t] = d] /\ turns' = turns \ {t}
  /\ cache' = [Untimed({t}) EXCEPT ![BudgetOf[t]] = Min({@, d})]
  /\ ended' = (ended \/ (waits[t] # Never /\ threads.at = waits[t]))
  /\ unnoted' = IF Noted(threads, d, BudgetOf[t]) # threads THEN unnoted \cup {t} ELSE unnoted \ {t}
  /\ UNCHANGED <<deadline, live, threads, budgets, armVars, cur>>

\* A deadline may have passed already.
CreateBudget(h, b, d) ==
  /\ InCall(h) /\ Doing(h) /\ b \notin live /\ Parent[b] \in live
  /\ live' = live \cup {b} /\ deadline' = [deadline EXCEPT ![b] = d]
  /\ budgets' = Noted(budgets, d, Parent[b])
  /\ UNCHANGED <<waits, turns, cache, threads, ended, unnoted, armVars, cur>>

\* The deadlines' hint is left where it was.
DestroyBudget(h, b) ==
  LET dead == Subtree(b)
  IN  /\ InCall(h) /\ b \in live \ {Root} /\ cur[h] \notin dead
      /\ Gone(dead, ThreadsOf(dead))
      /\ ended' = (ended \/ \E t \in ThreadsOf(dead) : waits[t] # Never /\ waits[t] = threads.at)
      /\ unnoted' = unnoted \ ThreadsOf(dead)
      /\ at' = [g \in Harts |-> IF g = h THEN "done" ELSE IF g \in Leaving(dead) THEN "left" ELSE at[g]]
      /\ UNCHANGED <<now, threads, budgets, armVars, holder>>

-----------------------------------------------------------------------------
(* Returns. *)

Return(h, b, sl, mv, to) ==
  /\ holder = h /\ holder' = None
  /\ cur' = [cur EXCEPT ![h] = b] /\ at' = [at EXCEPT ![h] = to]
  /\ paused' = [paused EXCEPT ![h] = None]
  /\ Rearm(h, cur', sl, mv)
  /\ UNCHANGED <<now, waitVars, budgets>>

\* The thread goes on: a slice paused resumes with what it had left (move_slice_end).
Resume(h) ==
  /\ cur[h] # None /\ slice[h] # Never
  /\ IF paused[h] = None THEN Return(h, cur[h], slice[h], moved[h], "user")
     ELSE Return(h, cur[h], now + paused[h], IF armed[h] = slice[h] THEN slice[h] ELSE moved[h], "user")

\* A thread of budget b is picked, and its slice starts.
Pick(h, b) == b \in live /\ Return(h, b, now + Slice, Never, "user")

GoIdle(h) == Return(h, None, Never, Never, "idle")

Tick ==
  /\ now < MaxTime /\ now' = now + 1
  /\ UNCHANGED <<waitVars, hintVars, armVars, cur, at, holder>>

-----------------------------------------------------------------------------

Init ==
  /\ now = 0 /\ waits = [t \in Threads |-> Never] /\ turns = {} /\ cache = [b \in Budgets |-> Never]
  /\ deadline = cache /\ live = {Root} /\ threads = NoHint /\ budgets = NoHint
  /\ ended = FALSE /\ unnoted = {}
  /\ slice = [h \in Harts |-> Never] /\ moved = slice /\ armed = slice /\ timer = slice
  /\ paused = [h \in Harts |-> None] /\ cur = paused /\ holder = None
  /\ at = [h \in Harts |-> "idle"]

Returns(h) == Resume(h) \/ GoIdle(h) \/ \E b \in Budgets : Pick(h, b)

Next ==
  \/ Tick
  \/ \E h \in Harts :
       \/ Call(h) \/ TimerInterrupt(h) \/ OtherInterrupt(h) \/ EnterLeft(h) \/ Returns(h)
       \/ \E t \in Threads : Answer(h, t)
       \/ \E t \in Threads, d \in Times \cup {Never} : Continue(h, t, d) \/ \E turn \in BOOLEAN : Block(h, t, d, turn)
       \/ \E b \in Budgets : DestroyBudget(h, b)
       \/ \E b \in Budgets \ {Root}, d \in Times \cup {Never} : CreateBudget(h, b, d)

Spec == Init /\ [][Next]_vars

-----------------------------------------------------------------------------
(* Properties. *)

Waits(S)  == {waits[t] : t \in S}
Deadlines == {deadline[b] : b \in live}

\* While every hart runs a thread or idles, some hart's timer comes at or before each of these instants.
TimersComeBy(D) == holder = None => \A d \in D \ {Never} : \E h \in Harts : timer[h] <= d

\* No deadline is missed, and no timeout but one begun for a turn in its taker's entry before the hint was next
\* recomputed, whatever wakes, destructions, moved slices and re-arms came before.
NotedCovered == TimersComeBy(Waits(Threads \ unnoted) \cup Deadlines)

\* The timeouts' hint is the earliest wait's that was noted, and its payer the one that pays, unless a wait that held
\* it has just ended; the deadlines' hint is never late ("only ever early").
NotedHint ==
  /\ ~ended => threads = HintOf({<<waits[t], BudgetOf[t]>> : t \in Threads \ unnoted})
  /\ \A b \in live : deadline[b] >= budgets.at

\* Some hart's timer comes by every timeout, a turn's receive half's too ("So nothing is missed", time.rs; I13).
Covered == TimersComeBy(Waits(Threads))
=============================================================================
