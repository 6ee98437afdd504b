------------------------------ MODULE Reclaim ------------------------------
(* Frames in flight (kernel/src/reclaim.rs, mem.rs): a freed frame is staged    *)
(* until its process is shot down, pending on its hart's list, zeroed outside   *)
(* the kernel lock by an idle hart or under it by an allocation that finds the  *)
(* bitmap empty, done, and free again.  The lists are linked through a word of  *)
(* the frames themselves, and a hart's done list is pushed without the lock.    *)
(*                                                                              *)
(* A section of the kernel lock is one action where nothing outside the lock    *)
(* can see between its steps (module KernelLock has the lock, module Harts the  *)
(* shootdown).  What a frame holds is whether its words but one are zero, and   *)
(* its link word; charges and the zeroing's bill are left out.                  *)
EXTENDS Integers, FiniteSets, FiniteSetsExt, Sequences, SequencesExt

CONSTANTS
  NHarts,     \* the harts started, 0 .. NHarts - 1
  NFrames,    \* RAM's frames, 1 .. NFrames
  Pids, Object,
  StageMax,   \* STAGE_MAX
  CommitMax   \* COMMIT_MAX

ASSUME ReclaimAssumption ==
  {NHarts, NFrames, StageMax, CommitMax} \subseteq Nat \ {0} /\ Object \notin Pids
  /\ {"free", "flight"} \cap (Pids \cup {Object}) = {}

Harts  == 0 .. NHarts - 1
Frames == 1 .. NFrames
None   == 0        \* no frame, and a link that ends a list
Junk   == -1       \* a link word with what a process stored there
Nobody == -1       \* no hart

VARIABLES
  owner,       \* of each frame: "free", "flight", a process or Object
  dirty,       \* free since boot, never zeroed
  zero,        \* the frames whose words but the link are zero
  link,        \* each frame's link word
  stale,       \* frames some other hart may still store to, each with the process it is mapped in
  staged,      \* of each hart, in stage order
  pending, zeroing, done,   \* of each hart: a list's first frame; the frame it zeroes
  committing,  \* the rest of a done list taken
  want,        \* WANT: the hart waiting for a done frame
  drainer,     \* DRAINER
  idle,        \* the harts marked idle
  ipi,         \* the harts with a reschedule interrupt pending
  holder,      \* of the kernel lock
  pc,          \* where each hart is
  loc          \* of each hart: the done head it loaded, whether more is pending, the hart to wake

frameVars == <<owner, dirty, zero, link, stale>>
listVars  == <<staged, pending, zeroing, done, committing>>
hartVars  == <<want, drainer, idle, ipi>>
vars == <<frameVars, listVars, hartVars, holder, pc, loc>>

Go(h, to) == pc' = [pc EXCEPT ![h] = to]
InFlight  == {f \in Frames : owner[f] = "flight"}
FreeSet   == {f \in Frames : owner[f] = "free"}

Init ==
  /\ owner = [f \in Frames |-> "free"] /\ dirty = Frames /\ zero = {}
  /\ link = [f \in Frames |-> Junk] /\ stale = {}
  /\ staged = [h \in Harts |-> <<>>] /\ pending = [h \in Harts |-> None]
  /\ zeroing = pending /\ done = pending /\ committing = None
  /\ want = Nobody /\ drainer = Nobody /\ idle = {} /\ ipi = {} /\ holder = Nobody
  /\ pc = [h \in Harts |-> "user"]
  /\ loc = [h \in Harts |-> [head |-> None, more |-> FALSE, wake |-> Nobody]]

-----------------------------------------------------------------------------
(* The lists.  A step works on a record of what it changes. *)

\* Frames linked onto hart h's pending list, the last of s in front.
PendAll(h, s) ==
  /\ link' = [f \in Frames |->
                IF ~Contains(s, f) THEN link[f]
                ELSE LET i == CHOOSE j \in DOMAIN s : s[j] = f
                     IN  IF i = 1 THEN pending[h] ELSE s[i - 1]]
  /\ pending' = IF s = <<>> THEN pending ELSE [pending EXCEPT ![h] = Last(s)]

State == [owner |-> owner, link |-> link, done |-> done, committing |-> committing]

\* Mutant: the last hart's list is not looked at.
ListedShort(s) == {h \in Harts \ {Max(Harts)} : s.done[h] # None}

\* The harts with frames done.
Listed(s) == {h \in Harts : s.done[h] # None}

\* Mutant: the link of a frame given back is not cleared.
CommitOneLinked(s) ==
  LET from == Listed(s)
      t == IF s.committing = None /\ from # {}
           THEN [s EXCEPT !.committing = s.done[Min(from)], !.done[Min(from)] = None] ELSE s
      f == t.committing
  IN  IF f \notin Frames THEN t
      ELSE [t EXCEPT !.committing = t.link[f], !.owner[f] = "free"]

\* One turn of commit's loop: a done list is taken whole when none is being committed.
CommitOne(s) ==
  LET from == Listed(s)
      t == IF s.committing = None /\ from # {}
           THEN [s EXCEPT !.committing = s.done[Min(from)], !.done[Min(from)] = None] ELSE s
      f == t.committing
  IN  IF f \notin Frames THEN t
      ELSE [t EXCEPT !.committing = t.link[f], !.link[f] = None, !.owner[f] = "free"]

\* Up to CommitMax done frames given back.
Commit(s) ==
  LET after[n \in 0 .. CommitMax] == IF n = 0 THEN s ELSE CommitOne(after[n - 1])
  IN  after[CommitMax]

Committed(s) == owner' = s.owner /\ link' = s.link /\ done' = s.done /\ committing' = s.committing

-----------------------------------------------------------------------------
(* Sections of the kernel lock. *)

InKernel(h) == holder = h /\ pc[h] = "kernel"

\* A trap from user mode: what was zeroed since goes back to the bitmap.
Enter(h) ==
  /\ pc[h] = "user" /\ holder = Nobody /\ holder' = h
  /\ Committed(Commit(State)) /\ Go(h, "kernel")
  /\ UNCHANGED <<dirty, zero, stale, staged, pending, zeroing, hartVars, loc>>

\* Back to user mode.  Every path that stages has shot by now.
Leave(h) ==
  /\ InKernel(h) /\ holder' = Nobody /\ Go(h, "user")
  /\ UNCHANGED <<frameVars, listVars, hartVars, loc>>

\* The lowest free frame of the bitmap goes to o, who writes over all of it; one free since boot is zeroed first.
TakeFrom(own, lnk, o) ==
  LET f == Min({g \in Frames : own[g] = "free"})
  IN  /\ owner' = [own EXCEPT ![f] = o] /\ link' = [lnk EXCEPT ![f] = Junk]
      /\ dirty' = dirty \ {f} /\ zero' = zero \ {f}

Alloc(h, o) ==
  /\ InKernel(h)
  /\ IF FreeSet # {} THEN TakeFrom(owner, link, o) /\ UNCHANGED pc
     ELSE Go(h, "reclaim") /\ UNCHANGED <<owner, link, dirty, zero>>
  /\ UNCHANGED <<stale, listVars, hartVars, holder, loc>>

\* Mutant: a retired frame is pending before its process is shot down.
RetireUnshot(h, f, p) ==
  /\ PendAll(h, <<f>>) /\ stale' = stale \cup {<<f, p>>} /\ UNCHANGED staged

\* stage: a full stage, or another process's, is shot down first.
Retire(h, f, p) ==
  LET old == {q \in Pids : \E g \in Frames : <<g, q>> \in stale}
      early == Len(staged[h]) = StageMax \/ (staged[h] # <<>> /\ old # {p})
  IN  IF early
      THEN /\ PendAll(h, staged[h])
           /\ staged' = [staged EXCEPT ![h] = <<f>>] /\ stale' = {<<f, p>>}
      ELSE /\ staged' = [staged EXCEPT ![h] = Append(@, f)] /\ stale' = stale \cup {<<f, p>>}
           /\ UNCHANGED <<link, pending>>

\* A page of an unmap, or of an abandoned lend, whose entry in p's space is cleared.
Unmap(h, f) ==
  /\ holder = h /\ pc[h] \in {"kernel", "unmap"} /\ owner[f] \in Pids
  /\ Retire(h, f, owner[f])
  /\ owner' = [owner EXCEPT ![f] = "flight"] /\ Go(h, "unmap")
  /\ UNCHANGED <<dirty, zero, zeroing, done, committing, hartVars, holder, loc>>

\* shoot, then shot: no hart stores to the process's frames any more.
Shoot(h) ==
  /\ holder = h /\ pc[h] = "unmap"
  /\ PendAll(h, staged[h]) /\ staged' = [staged EXCEPT ![h] = <<>>] /\ stale' = {}
  /\ Go(h, "kernel")
  /\ UNCHANGED <<owner, dirty, zero, zeroing, done, committing, hartVars, holder, loc>>

\* A process's last step, no hart running it, or a destruction's object frames: in flight and pending, in any order.
Release(h, o) ==
  /\ InKernel(h)
  /\ LET mine == {f \in Frames : owner[f] = o}
     IN  /\ mine # {}
         /\ \E s \in [1 .. Cardinality(mine) -> mine] : ToSet(s) = mine /\ PendAll(h, s)
         /\ owner' = [f \in Frames |-> IF owner[f] = o THEN "flight" ELSE owner[f]]
  /\ UNCHANGED <<dirty, zero, stale, staged, zeroing, done, committing, hartVars, holder, pc, loc>>

\* One object frame, freed at once.
FreeObject(h, f) ==
  /\ InKernel(h) /\ owner[f] = Object
  /\ PendAll(h, <<f>>) /\ owner' = [owner EXCEPT ![f] = "flight"]
  /\ UNCHANGED <<dirty, zero, stale, staged, zeroing, done, committing, hartVars, holder, pc, loc>>

\* A wake makes a budget runnable: an idle hart is told to pick.
WakeIdle(h, i) ==
  /\ InKernel(h) /\ i # h /\ i \in idle
  /\ idle' = idle \ {i} /\ ipi' = ipi \cup {i}
  /\ UNCHANGED <<frameVars, listVars, want, drainer, holder, pc, loc>>

\* Another hart's store through a translation not shot down yet.
StaleStore(f) ==
  /\ \E p \in Pids : <<f, p>> \in stale
  /\ link' = [link EXCEPT ![f] = Junk] /\ zero' = zero \ {f}
  /\ UNCHANGED <<owner, dirty, stale, listVars, hartVars, holder, pc, loc>>

-----------------------------------------------------------------------------
(* An allocation that finds the bitmap empty. *)

\* A turn of reclaim_wait's loop: commit; a free frame is taken; none in flight is NoFrame; a pending frame, this
\* hart's first, is zeroed here; else the wait for an idle hart's.
ReclaimTurn(h, o) ==
  LET s == Commit(State)
      own == {i \in Harts : pending[i] # None}
      from == IF h \in own THEN h ELSE Min(own)
      f == pending[from]
  IN  /\ pc[h] = "reclaim"
      /\ done' = s.done /\ committing' = s.committing
      /\ \/ /\ \E g \in Frames : s.owner[g] = "free"
            /\ TakeFrom(s.owner, s.link, o) /\ Go(h, "kernel")
            /\ UNCHANGED <<pending, want>>
         \/ /\ \A g \in Frames : s.owner[g] \notin {"free", "flight"}
            /\ owner' = s.owner /\ link' = s.link /\ Go(h, "kernel")
            /\ UNCHANGED <<dirty, zero, pending, want>>
         \/ /\ \A g \in Frames : s.owner[g] # "free"
            /\ \E g \in Frames : s.owner[g] = "flight"
            /\ IF own # {}
               THEN /\ pending' = [pending EXCEPT ![from] = s.link[f]]
                    /\ owner' = [s.owner EXCEPT ![f] = "free"] /\ link' = [s.link EXCEPT ![f] = None]
                    /\ zero' = zero \cup {f}
                    /\ UNCHANGED <<dirty, want, pc>>
               ELSE /\ owner' = s.owner /\ link' = s.link /\ want' = h /\ Go(h, "wait")
                    /\ UNCHANGED <<dirty, zero, pending>>
      /\ UNCHANGED <<stale, staged, zeroing, drainer, idle, ipi, holder, loc>>

\* wait_done's test, after its store to WANT.
WaitTest(h) ==
  /\ pc[h] = "wait"
  /\ IF \A i \in Harts : done[i] = None
     THEN Go(h, "waithalt") /\ UNCHANGED want
     ELSE Go(h, "reclaim") /\ want' = Nobody
  /\ UNCHANGED <<frameVars, listVars, drainer, idle, ipi, holder, loc>>

\* Its halt, which a pending reschedule interrupt ends, and clears.
WaitHalt(h) ==
  /\ pc[h] = "waithalt" /\ h \in ipi
  /\ ipi' = ipi \ {h} /\ Go(h, "wait")
  /\ UNCHANGED <<frameVars, listVars, want, drainer, idle, holder, loc>>

-----------------------------------------------------------------------------
(* Idling. *)

\* Mutant: a hart with none of its own to drain, or with its last, wakes nobody.
NextDrainerNone(h, rest) == Nobody

\* The hart woken to drain its own frames, once this one's are gone.
NextDrainer(h, rest) ==
  LET others == {i \in Harts \ {h} : rest[i] # None}
  IN  IF others = {} THEN Nobody ELSE Min(others)

\* idle: marked, then take_one, then the lock is given up.
Idle(h) ==
  LET free  == idle \cup {h} = Harts /\ drainer \in {Nobody, h}
      f     == IF free THEN pending[h] ELSE None
      rest  == IF f = None THEN pending ELSE [pending EXCEPT ![h] = link[f]]
      more  == f # None /\ rest[h] # None
      next  == IF free /\ ~more THEN NextDrainer(h, rest) ELSE Nobody
  IN  /\ InKernel(h) /\ idle' = idle \cup {h}
      /\ pending' = rest /\ zeroing' = [zeroing EXCEPT ![h] = f]
      /\ drainer' = IF more THEN h ELSE IF drainer = h THEN Nobody ELSE drainer
      /\ loc' = [loc EXCEPT ![h] = [head |-> None, more |-> more, wake |-> next]]
      /\ holder' = Nobody /\ Go(h, IF next # Nobody THEN "handon" ELSE IF f # None THEN "zero" ELSE "halt")
  /\ UNCHANGED <<frameVars, staged, done, committing, want, ipi>>

\* wake_halted, the lock given up.
HandOn(h) ==
  /\ pc[h] = "handon"
  /\ ipi' = ipi \cup {loc[h].wake}
  /\ loc' = [loc EXCEPT ![h].wake = Nobody]
  /\ Go(h, IF zeroing[h] # None THEN "zero" ELSE "halt")
  /\ UNCHANGED <<frameVars, listVars, want, drainer, idle, holder>>

\* zero_taken: the frame zeroed, and the done list's head loaded.
Zero(h) ==
  /\ pc[h] = "zero"
  /\ zero' = zero \cup {zeroing[h]} /\ link' = [link EXCEPT ![zeroing[h]] = None]
  /\ loc' = [loc EXCEPT ![h].head = done[h]] /\ Go(h, "link")
  /\ UNCHANGED <<owner, dirty, stale, listVars, hartVars, holder>>

WriteLink(h) ==
  /\ pc[h] = "link"
  /\ link' = [link EXCEPT ![zeroing[h]] = loc[h].head] /\ Go(h, "push")
  /\ UNCHANGED <<owner, dirty, zero, stale, listVars, hartVars, holder, loc>>

\* The compare and exchange; it may also fail for nothing, and then tries again.
Push(h) ==
  /\ pc[h] = "push"
  /\ IF done[h] = loc[h].head
     THEN done' = [done EXCEPT ![h] = zeroing[h]] /\ Go(h, "pushed") /\ loc' = [loc EXCEPT ![h].head = None]
     ELSE loc' = [loc EXCEPT ![h].head = done[h]] /\ Go(h, "link") /\ UNCHANGED done
  /\ UNCHANGED <<frameVars, staged, pending, zeroing, committing, hartVars, holder>>

\* No longer this hart's.
Pushed(h) ==
  /\ pc[h] = "pushed" /\ zeroing' = [zeroing EXCEPT ![h] = None] /\ Go(h, "tell")
  /\ UNCHANGED <<frameVars, staged, pending, done, committing, hartVars, holder, loc>>

\* The allocation waiting for a frame is woken.
Tell(h) ==
  /\ pc[h] = "tell"
  /\ ipi' = IF want = Nobody THEN ipi ELSE ipi \cup {want}
  /\ Go(h, IF loc[h].more THEN "acquire" ELSE "halt") /\ loc' = [loc EXCEPT ![h].more = FALSE]
  /\ UNCHANGED <<frameVars, listVars, want, drainer, idle, holder>>

\* The halt ends: the reschedule interrupt, or a timer's or a device's.
HaltEnds(h) ==
  /\ pc[h] = "halt" /\ Go(h, "acquire")
  /\ UNCHANGED <<frameVars, listVars, hartVars, holder, loc>>

\* The lock taken back, and what is pending taken at kmain's interrupt-enabled top.
Return(h) ==
  /\ pc[h] = "acquire" /\ holder = Nobody /\ holder' = h
  /\ Committed(Commit(State))
  /\ idle' = idle \ {h} /\ ipi' = ipi \ {h} /\ Go(h, "kernel")
  /\ UNCHANGED <<dirty, zero, stale, staged, pending, zeroing, want, drainer, loc>>

-----------------------------------------------------------------------------

Outside(h) == HandOn(h) \/ Zero(h) \/ WriteLink(h) \/ Push(h) \/ Pushed(h) \/ Tell(h)
Waiting(h) == WaitTest(h) \/ WaitHalt(h) \/ \E o \in Pids \cup {Object} : ReclaimTurn(h, o)

Next ==
  \/ \E h \in Harts :
       \/ Enter(h) \/ Leave(h) \/ Shoot(h) \/ Idle(h) \/ Outside(h) \/ Waiting(h)
       \/ HaltEnds(h) \/ Return(h)
       \/ \E o \in Pids \cup {Object} : Alloc(h, o) \/ Release(h, o)
       \/ \E f \in Frames : Unmap(h, f) \/ FreeObject(h, f)
       \/ \E i \in Harts : WakeIdle(h, i)
  \/ \E f \in Frames : StaleStore(f)

\* A hart goes on with what it does outside the lock, and the lock's holder with its allocation.
Spec == Init /\ [][Next]_vars /\ \A h \in Harts : WF_vars(Outside(h)) /\ WF_vars(Waiting(h))

-----------------------------------------------------------------------------
(* Properties. *)

\* The links followed from a head: its frames, Junk where a link was overwritten, None where it ends.
Walk(first) ==
  LET after[n \in 0 .. NFrames] ==
        IF n = 0 THEN {first} ELSE after[n - 1] \cup {link[f] : f \in after[n - 1] \cap Frames}
  IN  after[NFrames]
Stage(h) == {staged[h][i] : i \in DOMAIN staged[h]}
Places(f) ==
  {<<"staged", h>> : h \in {i \in Harts : f \in Stage(i)}}
  \cup {<<"pending", h>> : h \in {i \in Harts : f \in Walk(pending[i])}}
  \cup {<<"zeroing", h>> : h \in {i \in Harts : f = zeroing[i] /\ pc[i] # "pushed"}}
  \cup {<<"done", h>> : h \in {i \in Harts : f \in Walk(done[i])}}
  \cup (IF f \in Walk(committing) THEN {<<"committing", 0>>} ELSE {})

\* Each frame in flight is in exactly one place and no other frame is in any (I1), each list ends, and nothing a
\* process stores reaches a link.
InFlightOnce ==
  /\ \A f \in Frames : Cardinality(Places(f)) = IF owner[f] = "flight" THEN 1 ELSE 0
  /\ Places(Junk) = {}
  /\ \A h \in Harts : None \in Walk(pending[h]) \cap Walk(done[h])

\* R81: a frame an allocation may take is all zero, its link too, but for one never used since boot.
FreeZero == \A f \in FreeSet \ dirty : f \in zero /\ link[f] = None

\* With every hart halted and no interrupt to come, no frame is left pending: the last to idle drained it, or woke
\* the hart whose it is, however their idling and their work came.
QuietDrained ==
  (\A h \in Harts : pc[h] = "halt") /\ idle = Harts /\ ipi = {} => \A h \in Harts : pending[h] = None

\* An allocation that waits for a frame in flight gets an answer, whatever finishes or idles meanwhile.
AllocAnswered == \A h \in Harts : pc[h] = "reclaim" ~> pc[h] = "kernel"
=============================================================================
