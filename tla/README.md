# A verification of the Redoubt kernel

Redoubt is a capability microkernel for RISC-V, written in Rust, with its servers, file systems and
user land. This directory holds TLA+ specifications translated from its source, TLC runs that check
them on small instances, and TLAPS proofs of theorems that hold for every instance. `PROJECT.json`
lists the components, the runs, the source lines each definition models (`map`), the code's hazards
and which property covers each, and the theorems.

Paths below are relative to the repository. Rules (R1 to R81) and invariants (I1 to I15) are those of
`docs/kernel/`; the properties were written from the code and cite the rule they correspond to.

## 1. Inventory

### The kernel

All kernel state is reached by one hart at a time, the holder of the kernel lock. A trap takes the
lock, makes one system call or handles one interrupt, and leaves: to the thread that is current, or to
`kmain`, which picks another or idles. What is hard is at the edges of that rule: the lock itself,
what harts do to each other without it (interrupts, cached translations), and operations whose parts
are many and happen across several entries (a call is queued in one entry, taken in a second, answered,
abandoned or destroyed in a third, by three different threads).

| Component | State | Operations | Hard behaviours | What makes it correct |
|---|---|---|---|---|
| Kernel lock (`kernel/src/cell.rs`, `libs/ticket`) | `next`, `serving`, waiting marks and tickets, the pending interrupt | acquire, wait halted, release and wake | a mark racing a release; tickets wrap; one interrupt bit for every cause | one hart inside, in order of arrival, R78's bound, no halt past a turn |
| Harts (`kernel/src/arch/riscv/hart.rs`, `irq.rs`, `mod.rs`) | each hart's PID, idle mark, shoot word, left mark | trap entry, serve, shootdown, idle, wake | a shootdown waiting on harts that wait for the lock; a PID reused while a hart is shot down; a wake lost between a mark and a halt | a frame is free only when no hart reaches it; no hart runs a destroyed process; work wakes a hart |
| Translations (`arch/riscv/mem.rs`) | `satp`, TLB, the stale mask | install a space, flush, mark | a hart back in a space it left before a change | cached translations are the table's |
| Messages (`message.rs`, `endpoint.rs`) | each thread's wait, each endpoint's queue, receivers and notices, open calls | call, send, receive, reply, serve, turns, timeouts, ends | timeouts against replies, both ends of a call dying in one destruction, limits, records unmapped meanwhile, deliveries that start deliveries | lends are one process's at a time, charges balance, lists agree, nothing deliverable waits, entries end |
| Queues (`libs/ipclist`) | two lists of groups, nodes kept in threads | enqueue, pick, served, dequeue | nodes move; one take reorders two lists | R2's order, fair turns (I11) |
| Processes (`process.rs`, `ptable.rs`) | process objects, threads, exit notices | create, map, start, exit, kill | ends in the middle of anything | notices reach their endpoint, nothing of the dead stays |
| Budgets, handles (`budget.rs`, `handle.rs`) | the tree, charges, labels, handle tables | create, destroy, grant | destruction of a subtree in bounded steps | I5, I10, R10 |
| Memory, reclaim (`mem.rs`, `reclaim.rs`) | frames' owners; staged, pending, zeroing and done frames | map, unmap, move, retire, zero, give back | zeroing outside the lock while sections take and wait; lists linked through the frames themselves | a frame has one owner and one list, is zero when given out; a waiting allocation is answered |
| Timer (`time.rs`, `message.rs` timed waits) | waits, budget deadlines, two hints of the next of each, what each hart is armed for | note, settle, rearm, expire | a stale hint; a hart that arms nothing because another's timer covers it; slices that move | no deadline slept through (I13) |
| Scheduler (`sched.rs`, `libs/stride`) | passes, remainders, the floor, weights, counts beside each queue slot, the cap set | settle, reconcile, charge, leave, pick, repick, create, destroy | lazy settles and floor raises from several harts; a second path for slice ends; debts lifted at another weight | the queue is in step with the threads, no time minted or banked, caps are the water-filling |
| Devices (`device.rs`, `dma.rs`, `intc_plic.rs`) | masked, fired, TAKER | IRQ receive, claim, quarantine | a source with no taker | R5 |

### Above the kernel

Servers are processes that answer calls: they share `libs/rt` (admission, parked calls, minted badges,
9P). `libs/steward` holds the steward's state machines and its store, `servers/init` starts and
restarts everything, `libs/walfs` is a write-ahead-logged file system that survives power loss
(`walfsd` serves it), `littlefs`, `erofs` and `verity` the other file systems; `blkd`, `netd` and `ipd`
drive devices; `consoled`, `piped`, `sshd`, `keyd` the terminals and logins. They meet the kernel only
through messages and shared pages.

walfs is two levels: the log (`libs/walfs/src/fs.rs`: state on the medium, in the device's cache and in
memory; commit, recovery), whose operations are all or nothing under power loss, and the file system over
it (`ops.rs`, `file.rs`: names, inodes, block maps, an orphan list, open handles), whose long operations
are several transactions and must be resumable. `PROJECT.json` says of each whether and why it is left out.

## 2. Modules

| Module | What it is |
|---|---|
| `KernelLock` | the ticket lock, one step per shared access |
| `FifoLock` | what the lock promises; `KernelLock` implements it |
| `KernelLockProofs` | the lock's theorems |
| `HartsProofs`, `IpcProofs`, `FairQueueProofs`, `ReclaimProofs`, `WalProofs`, `WalfsProofs` | the theorems of the modules they name |
| `TimeProofs` | the theorems of `Timer` and `StrideMath` |
| `Harts` | harts over the abstract lock: traps, shootdowns, idle, PIDs, translations, frames |
| `FairLine` | R2's order as operators on one line of arrivals and takes |
| `FairOrder` | what an endpoint's queue promises, as a specification over that line |
| `FairQueue` | the kernel's group lists; implements `FairOrder` |
| `Ipc` | messages, using `FairLine` for its queues |
| `Reclaim` | frames in flight: staged, pending, zeroed outside the lock, done, given back |
| `Timer` | timed waits, deadlines, hints and what each hart's timer is armed for |
| `StrideMath` | the arithmetic of a charge, a weight change, a creation and a lift |
| `Stride` | the stride queue on it, wired to the harts and driven as the kernel drives it |
| `Wal` | walfs's log and its recovery over a device with a volatile cache |
| `AtomicStore` | what the log promises; `Wal` implements it |
| `Walfs` | names, inodes, block maps, orphans and handles, over atomic transactions |
| `MC_*` | instances for TLC |

The composition follows what each level may assume: `Harts` takes the lock to be `FifoLock`'s queue,
which `KernelLock` is proved to implement; `Ipc` takes each kernel entry to be atomic, which is the
lock's mutual exclusion, and each queue to be `FairOrder`'s line, which `FairQueue` is proved to
implement. `Reclaim`, `Timer` and `Stride` take a section of the lock to be exclusive too, and interleave
what harts do outside it. `Walfs` takes a transaction to be atomic, which is `AtomicStore`, which `Wal` is
proved to implement.

### KernelLock

`next` and `serving` are the lock's words, `halted` and `tickets` those of `Waits`, `ipi` the pending
software interrupts. `lk[h]` says where hart `h` is in `acquire_ticket`, `wait_stepped` or
`release_stepped`; `mine`, `seen`, `scan` are their locals. Draw, Test, Serve, Record, Mark, Reread,
Halt, Ack, Clear are the wait, in the code's order; Advance, LoadMarks, Scan the release. `OtherIpi` is
every interrupt the lock did not send, and `SectionAck`, `Serve` and `Ack` every place that consumes
one. Tickets wrap at `W` (2^32 in the code); the only assumption is that there are more tickets than
harts.

### Harts

`queue` is the abstract lock. `pc[h]` is where a hart is: in user mode, in serve(), in the lock's wait,
in its section, in a shootdown, in `kmain`, or idle. `shoot[h]` is `Block.shoot`, with the ASID and
SHOOT_LEAVE; `left[h]` is `Block.left`. A process has at most one page, `page[p]`; `tlb[h]` is what
hart `h` may have cached, and `Walk` lets its walker add what the current table names at any time.
`stale` is the mask of owed flushes. `owner[f]` is "inflight" from the unmap until the shootdown is
acknowledged, as `reclaim::stage` and `shot` have it. A trap's section makes one operation. serve()
acknowledges in three steps (flush and leave, clear the word, tell the shooter), as the shooter waits
for the word alone and the interrupt may come later, to another shootdown's shooter. `gone` is a ghost:
the harts whose process was destroyed since they switched to it, so that a PID given out again is told
apart.

### FairLine, FairOrder, FairQueue

In the line every arrival and every group's last take has its place, which is the kernel's one counter
(`next_seq`). A group is due from its oldest message's arrival or its last take, the later; `PickFrom`
takes the oldest message of the group due longest. `FairQueue` is what the kernel keeps instead: a list
of groups in the order they are due, a second of those with a send, nodes that live in the thread of
the group's oldest message and move when it leaves (`MoveNode`), and re-sorting toward the tail
(`MovedBack`). `LineOf` maps its state to the line. `passed` is a ghost that counts takes.

### Ipc

`thread[t]` is a thread's IPC page: its wait, message or receive, turn, open calls held and current
call. `line`, `receivers` and `exits` are an endpoint's lists, `call` the open calls, `opencalls` the
process's account, `owner` and `ptes` pages and what maps them ("own", "lent" for the lender's invalid
reservation, "borrowed" for the server's protected alias), `used` a budget's `pages_used`.

An entry is atomic, but its loop is not one formula: `pumps` holds the endpoints it has still to pump
and each iteration of `deliver_all` is a step (Notice, ExitNotice, BadRecord, Refuse, DeliverSend,
DeliverCall; Pumped when nothing is left), `entry` the thread whose blocking call it has still to settle.
Every operation waits for both (`AtRest`). The endpoints of one entry are pumped in any order, more than
the code does, and `told` records what callers were told by the last step.

`Unwind` is the one place where waits and threads end: `fail_wait`, `abandon`, `end_thread`,
`finish_served`, `endpoint_dying` and the release of a dead process's frames, so that a timeout, a
refusal, an exit and a destruction are the same operator on different sets, as in the code they are the
same functions. `Destroy` applies it to a whole subtree: threads that die, threads that survive but wait
through a dying endpoint or stamp, and calls whose two ends are in different sets.

Abstracted: message words, badges, handles in bodies (a delivery with any cost may be refused), labels
(`Flows`), addresses. A deadline is "never", "later" (the timer may find it passed at any time) or "now"
(a poll, settled in its own entry). A blocked receiver's record may be found unmapped whenever its
process has another thread, or the first half of its own turn may have given its page away.

### Reclaim

A frame's link is a word of the frame itself, so `link` and `zero` say what a frame holds and a process's
store through a translation not yet shot down (`StaleStore`) overwrites both. `staged`, `pending`, `done`,
`zeroing` and `committing` are the lists' heads as the code has them; `Walk` follows the links. A hart that
idles takes one frame of its own (`Idle` is `take_one`), gives up the lock, and zeroes, links and pushes it
in separate steps (`Zero`, `WriteLink`, `Push`, `Pushed`, `Tell` are `zero_taken`), while the holder takes
lists whole (`CommitOne`), or finds the bitmap empty and goes round `reclaim_wait` (`ReclaimTurn`,
`WaitTest`, `WaitHalt`). `drainer` and `HandOn` pass the drain from hart to hart. The bills of zeroing are
left out.

### Timer

Time is discrete and bounded (`MaxTime`). `waits`, `cache` and `deadline` are the timed waits, each
budget's `earliest_timeout` and the budgets' deadlines; `threads` and `budgets` the two hints with their
payers; `slice`, `moved`, `armed` each hart's words, `timer` what the firmware was told. A section is an
entry (which expires what is due), at most one change, and a return, which rearms; time may pass anywhere
between. `Block` is a call's own wait, listed by `mark` and noted by `settle`; `Continue` the receive half
of a `send_receive` whose send waited, begun in the entry of the thread that takes it, which `mark` lists and
nothing notes. `turns` are the threads in such a send, and `unnoted` is a ghost: the receive halves whose
timeout the hint has not taken in since. An interrupt's own rearm as the hart idles is folded into its
return. `Expire` ends everything
due in one step: its bounded pieces and who is billed are left out, as is the conversion between
microseconds and ticks (`timer_sbi.rs`).

### StrideMath, Stride

`StrideMath` has `charge`, `rescale`, `entry` and `lift` as they are, on unbounded naturals (a pass is a
u128). `Stride` is the queue with its words in one record `g`, which every operator maps to the next as
the code passes `&mut` down its calls: `settle` and `reconcile`, `raise_floor` with the cap set, `switch`,
`leave`, `pick`, `repick`, `change_weight`, `destroy`. The ready threads are the environment's (`Wake`,
`Lose`); a step is one operation under the lock, and a hart does several between its entry and its leave.
A budget's ready threads are those of one process, so a settle lists it once; kernel time is billed as part
of a run or by `Bill`; which thread of a budget is next is left out. `pick` in the code also takes out a
queued budget with nothing to run: `QueueInStep` says it never meets one. No bound on a budget's lag across
several floor raises is claimed, and no liveness: passes grow without bound.

### Wal, AtomicStore

`cur` is what the device would read back, `dur` what the last sync made durable and `pend` the writes
since. Each write and each sync of `write_through` and of `recover` is a step. Power loss keeps, loses or
tears every unsynced block, each on its own; a restart keeps the device's cache; an I/O error poisons the
volume, its write landed or not. `FaultSets` says which kinds happen in one behaviour. A hash is the
content it is of. `Durable` maps the log and the home blocks to what the next mount would serve, which is
`AtomicStore`'s store.

### Walfs

`vol` is the volume in the running transaction's eyes and `disk` as committed; `mem` the bitmap kept in
memory. `Open` may cut the file it opens to nothing, and an inode that a free should find on the orphan list
and does not is `corrupt`, as a block freed twice is. `Create`, `Remove`, `Rename`, `Truncate`, `Write`, `Open` and `Close` are operations; a write and a
free commit in steps (`WriteBlock`, `FreeBlock`), between which `Cut` may come; a mount walks the orphan
list. A file has one direct block, and an indirect block of two (`Direct`, `Per`). One directory; attributes,
mkdir and paths are left out.

## 3. Runs

| Run | Checks | Instance |
|---|---|---|
| `lock` | LockTypeOK, MutualExclusion, FifoBound, NoHaltPastTurn, EveryTurnComes, ImplementsFifo | 2 harts, 3 tickets, unbounded in time, other interrupts to both |
| `harts` | TranslationsCurrent, FreeUnreachable, RunsOnlyTheLiving, NoLostWork, NoLostInterrupt | 2 harts, 2 PIDs, 1 frame, 2 threads a process |
| `queue` | AuditHolds, FairTurns, ImplementsOrder | 5 senders in 3 groups, WAIT_CAP 2, 6 arrivals and takes (`MaxClock`), any withdrawals |
| `ipc` | TypeOK, ChargesBalance, LendsHeld, ListsAgree, NothingDeadAwaited, LendTold, NothingStranded, EntriesEnd, CallsReturn | a client process of 2 threads below the server's budget; a server thread that takes turns and maps pages; a third process, told of exits, whose turns send on the server's endpoint and receive on another, of a budget that may end; polls and timeouts; WAIT_CAP 1, MAX_OPEN_CALLS 1, 2 frames for open calls |
| `ipc_stranded` | NothingStranded, violated | 2 clients, a server of 2 threads, one of which may exit |
| `reclaim` | InFlightOnce, FreeZero, QuietDrained, AllocAnswered | 2 harts, 3 frames, 1 process and the kernel's objects, 2 frames a stage, 1 given back an entry |
| `timer` | NotedCovered, NotedHint | 2 harts, 2 threads of 2 budgets, a deadline on one, 2 instants after boot (`MaxTime`), slices of 1 |
| `timer_turn` | Covered, violated | as `timer` |
| `stride` | QueueInStep, RanksAgree, RepickAsRoundTrip, DebtExact, CapsFilled | 3 harts, the second and third coming online at any time, 2 budgets at boot and 1 made, 2 threads each, 3 entries and operations (`Fuel`) |
| `wal` | BeforeOrAfter, ImplementsAtomicStore | 2 blocks, their hash block and log, 3 transactions, 3 faults: power and I/O errors, or restarts and I/O errors |
| `wal_cached` | BeforeOrAfter, violated | as `wal`, with power loss and restarts together |
| `walfs` | Sound, TreeAtomic, HandlesHold, EndsServing | 3 data blocks, 2 inodes, 2 names, 2 handles, 7 operations (`MaxOps`), 2 cuts (`MaxCuts`) |

Why the bounds suffice for what is asked. A missed wake needs a waiter and a releaser, and a second
waiter to be woken wrongly; the wrap happens every third draw. A stale translation needs a hart that
leaves, one that changes the table, and a return; a reused PID needs one that dies and is created again.
A group's node moves with two members, its cap is met by the third, and taking the wrong group twice needs
three groups, one of them with sends only. In `Ipc` one page is enough to be lent, abandoned, moved and
freed, as its pages do not interact; MAX_OPEN_CALLS 1 makes the limit the normal case, and a second frame would
let a call past it. A record's page that is gone when a message comes is reached through a turn whose first half
gave it away; that another thread of the receiver's process took it is in the theorems' general case. A frame's list is
confused by another frame on it, and a third is free meanwhile; a hand-on needs one hart that stops and
one that has frames. Two hints disagree about a payer with two budgets, and a hart relies on another's
timer with two harts. The counts that one hart does not keep need a second that comes online. A second round
of the water-filling needs three harts and three budgets: with one capped, what is left to the other two caps
another, which one flat pass would not (states with two capped budgets are reached). A receive half that finds
its endpoint gone, or that makes its entry pump another endpoint, needs a turn across two endpoints, one of
which can be destroyed. A log's blocks are torn against each other with two and their hash block. An orphan list
is unlinked in its middle or at its end with two orphans, which takes two handles and seven operations; an
indirect block and its data are two of the three blocks, so that space runs out. The state spaces are explored
completely; none is cut by a constraint other than the named bounds in guards. The runs with bounds on
what is done (`queue`, `stride`, `wal`, `wal_cached`, `walfs`) and those in which everyone may die or wait
for ever (`ipc`, `ipc_stranded`) do not check deadlock; `lock`, `harts`, `reclaim` and `timer` do.

Symmetry: harts, PIDs and frames in `harts`, harts in `timer` (interchangeable in the specification, and no
liveness there), the three senders of one group in `queue` (its property is a step property, not liveness).

Each property of each passing run is broken by a mutant, an operator that changes one mapped definition
the way a plausible error would; several are the negatives the repository itself builds as features
(`read-before-mark`, `wake-none`, `sched-test-and-set-entry`, `smp-no-shootdown`, `smp-no-stale-mask`).

### Fairness

- Lock: each hart's wait and release steps are weakly fair. Harts are separate processors running
  kernel code with interrupts masked; a section is bounded (R12), so it is left. Drawing is not fair:
  nobody has to come.
- Harts, timer and scheduler: none. That no hart is left halted is stated as safety (NoLostInterrupt,
  NoLostWork, NotedCovered): with its cause come, a halt's interrupt is pending or about to be sent.
- Reclaim: what a hart does outside the lock, and the turns of the holder's wait, are weakly fair: kernel
  code with interrupts masked. Idling and entering are not.
- walfs: the steps of an operation and of a mount are weakly fair: walfsd is one thread that goes on until
  it answers. Cuts are bounded.
- Messages: an entry's steps are weakly fair (no preemption in the kernel). That the timer finds a
  deadline of a call or a send passed, which module `Timer` covers since those waits are noted, is strongly fair
  (`CallExpires`); for receives, a turn's half begun in its taker's entry among them, nothing is assumed. It is
  strong: between entries of other threads the expiry is enabled again and
  again, and the timer interrupt, level-triggered, is taken when the kernel is left. Replying, receiving
  and everything else a process decides is not fair: CallsReturn holds against servers that never answer.

### What the runs found

`ipc_stranded`: when a thread ends, `thread_ending` (`message.rs:2191`) pumps only the endpoint its own
wait served. Only a running thread exits, so it has none, and nothing is pumped; yet the calls it held
are closed and its process may be below MAX_OPEN_CALLS again. If another thread of the process waits in
`receive` with a call queued, the call is not delivered until something else pumps the endpoint. `reply`
handles the same situation (`poke_receivers`), the comment at `message.rs:2193` states the intention, and
the repository's own model asserts the rule (`model/src/invariants.rs:1108`). The passing runs let only
client threads exit alone; servers' processes end whole there.

`timer_turn`: a `send_receive` whose send waited begins its receive half in the taker's entry
(`deliver`, `message.rs:1726`; `continue_turn`, `begin_receive`, `mark`). `mark` lists the wait and lowers its
process's `earliest_timeout`; `note_timeout`, which lowers the timer's hint, is called by `settle` alone, for the
entering thread. If the send had a timeout that held the hint, its end has the hint recomputed. Otherwise, after a
send with FOREVER say, the hint stays later than the half's timeout: no hart's timer need come by it, and an
expiry at some later entry returns before its walk (`time.rs:233`). `time.rs:44` says that nothing is missed,
`message.rs:1417` and `docs/kernel/ipc.md:295` that the half has a deadline of its own under I13, `time.rs:62` that
no thread's timeout is earlier than the hint; a checked build's assertion at the entry's end
(`message.rs:2544`) would stop there. What holds instead is `NotedCovered` and `NotedHint`: every deadline, and
every timeout but such a half's until the hint is next recomputed. A `note_timeout` where the half begins to wait
closes it.

`wal_cached`: `recover` (`libs/walfs/src/fs.rs:212`) reads the header through the device's cache and copies
the log's blocks home before any sync of its own. A header that `write_through` wrote (`fs.rs:355`) and had
not synced when walfsd ended is read back by the walfsd started next; power lost while it copies may keep
some home blocks and lose the header, and the volume is then neither before nor after the operation. Each
fault alone is harmless, as run `wal` shows. `servers/walfsd/src/cut.rs:4` takes an exit to leave the medium
as a power cut would, `docs/servers/walfsd.md:161` that a second cut inside recovery finds the same header.
A sync before the copy closes it.

## 4. Proofs

Each theorem holds for every value of the constants that the named `ASSUME`s of the module allow. In each
module one inductive invariant carries the rest: `Init` gives it, every action keeps it (a lemma per action
or group of actions), and the properties, which TLC checks on the module's run, follow from it.

### KernelLockProofs

For every number of harts `N >= 1`, every number of tickets `W > N` and any set of harts interrupted by
others, `LockSpec` implies `LockTypeOK`, `MutualExclusion`, `FifoBound` and `NoHaltPastTurn`, always. None of
them is inductive alone. The invariant, `LockInv`, adds:

- `Counted`: the harts holding a ticket are as many as the tickets from `serving` to `next`;
- `InWindow` and `Distinct`: each holds one of those tickets, no two the same;
- `Served`: the hart inside holds the ticket served;
- `Marks`: a hart's mark and recorded ticket are what its place in the wait says.

`Counted` and `Distinct` carry the argument about wrapping: at most `N` harts hold tickets, `W` is more,
so a ticket drawn is nobody's even when it has wrapped, and `Dist` orders those held. Mutual exclusion is
then `Served` and `Distinct`; R78's bound is `Counted` (the holders ahead of a hart are other harts). The
missed wake is by cases on the waiter's re-read: if it read before `serving` advanced, its mark was set
before, so the release that advances it loads a set with the mark and reaches it in its scan: the first
hart found with that ticket, since tickets recorded beside marks are distinct.

`LockImplementsFifo` is the refinement without its fairness: the harts by ticket are `FifoLock`'s queue. By
counting, every ticket from `serving` to `next` is some hart's, so the queue is well defined; a draw appends
to it, a hart that sees its ticket served is its first, a release takes the tail, the rest stutters.

### HartsProofs

`HartsInv`:

- `Line`: a hart has at most one ticket, and the one in its section has the first;
- `RunInv`: a hart is in the space of the process it runs, which lives unless the hart has left it, and is
  past the check for that wherever it acts for the process;
- `ShotInv`: the hart that shoots has a job; every other hart that runs the process is asked, is about to be,
  or has left it, and one asked to leave has left once it flushed;
- `PageInv`: a translation a hart has cached is its table's, or the hart owes that ASID a flush; of the space
  it is in, unless it has still to flush for the shootdown under way, and never of a free frame;
- `WakeInv`: what ends each halt is pending or about to be sent.

From it: `TranslationsCurrent`, `FreeUnreachable`, `RunsOnlyTheLiving`, `NoLostInterrupt`, `NoLostWork` and
the type invariant.

### WalProofs

`WalInv`: `Place` says, for each place walfsd can be, what reads return (what a restart finds) and which writes
the device may still lose (what a power loss can leave), such that both can be recovered; `Kept`, what the last
sync made durable. From it `BeforeOrAfter`, and `ImplementsAtomicStore` step by step: the store's operation
becomes durable with the sync of its header. The hypothesis `Separate` says that faults are power losses or
restarts, any number of one kind, but not both: with both it is false, as `wal_cached` shows.

### WalfsProofs

For any blocks, inodes, names and handles, any sizes of the block map (`Direct`, `Per`), any operations and cuts.
`WalfsInv` says of both volumes, the one a transaction builds and the one committed, that each is `Whole`:

- `RefsOK`: the bitmap is exactly what the inodes refer to (`Ref`, by the place of the reference), no block from
  two places, and a free inode refers to nothing;
- `ListOK`: the orphan list ends, nothing is linked twice, and only what is on it has a link. The list is the
  least set closed under the links (`Orphans`), so no walk is needed: to link or to unlink an inode is to show
  which set is then the least (`LinkEffect`, `UnlinkEffect`);
- `InodesOK`: an inode is free, or a file that is named once or on the list;
- what lies past a size belongs to an inode on the list.

Outside a mount, what is on the list is being freed or is a removed file that a handle holds, cut to its size
(`Held`); a freeing keeps what its inode keeps (`AtOK`). Each step of a block map, of the list, of a name and of
a size has an effect lemma of its own, and an operation is a composition of them. `Sound`, `TreeAtomic` and
`HandlesHold` follow; for `TreeAtomic`, a freed block lies past the size of a named file, or its inode has no
name, and so names lead where they did (`TreeSame`).

### TimeProofs: the timer

`TimerInv`: `Cached` (a budget's cache is its earliest wait), `WaitersLive`, `NotedHint`, `Set` (a hart's timer
is set for what the hart is armed for, but for the holder of the lock, whose interrupt disarmed it),
`Sections` (only the holder is in the kernel) and `NotedCovered`. While nobody holds the lock, some hart's timer
comes at or before every deadline and every noted timeout: the hint is never later than those, and a hart that made it earlier re-arms before it leaves.

### ReclaimProofs

The lists of frames are linked through the frames' own words, so what a list holds is a walk. The invariant
states it without recursion (`AllPlaced`): there are a place and a rank for every frame such that each list is
the chain of its place's frames, every link but the last going to another of them, of lower rank. A walk of a
list then ends and meets just its frames, by the least counterexample. `InFlightOnce` follows, `FreeZero` (a
zeroed frame is written only at its link word, which giving it back clears) and `QuietDrained` (whoever leaves
frames pending is followed by a hart that will look). `Release` links frames in any order, as a space's walk
frees them.

### IpcProofs

For any threads, processes, endpoints and budgets, finitely many pages and frames, any limits and any start
that the budgets can pay for (`StartAssumption`). `IpcInv`:

- `Slotted`: a thread's page says what it waits for, a turn's half goes with its wait, and what it waits on
  lives;
- `Called` and `Hands`: an open call is held once, by its server, and is waited for by its caller alone;
- `Queues`: who sends or receives on an endpoint is on its lists once (of `FairLine` only this is used, not
  the order);
- `Ends`: exit notices and pumps are of live endpoints;
- `Paged`: a page is in one queued message or one open call at most (`UseOk`), its owner is what that says
  (`OwnerOk`), and so are its page table entries (`PteOk`);
- `ChargesBalance` and `LendTold` as the run checks them.

The parts need one another: that a lend comes home to its lender needs the call to be its caller's only one,
that a charge is given back once needs pages and calls to be disjoint, that a timeout finds its call needs the
lists to agree. Timeouts, refusals, exits and destructions are all one operator, `Unwind`, so the longest part
is one group of lemmas about it, for any threads that fail and end, and each ending only shows that it is a
legal one. From it `TypeOK`, `ListsAgree`, `LendsHeld`, `ChargesBalance`, `NothingDeadAwaited` and `LendTold`.

`NothingStranded` is false in general (`ipc_stranded`). `NothingElseStrands` proves it of every behaviour in
which no thread ends by thread_exit while it holds open calls. The invariant is `Swept`: an endpoint that the
entry has not still to pump is quiet. Every other handler pumps wherever it may have made something
deliverable: a reply pokes its process's receivers, an abandonment pumps where its notice is owed, and a
process that ends leaves no receiver that could take the calls it gave up.

### FairQueueProofs

`QueueInv`: `Stamped` (arrivals and takes have different values of the one counter), `Grouped` (every message
is on a chain of its group's one node, which is its oldest member's, and is counted) and `Listed` (both lists'
keys rise). The work is in `Dequeue`, where the node moves, its members are renamed and it falls back on two
lists by two keys: the key changed rose and equals no other, so `moved_back` leaves the list in order.
`AuditHolds` follows. For `FairTurns`, `PassedOnce` adds that a group taken past another's waiting message is
due after it on that list: a group that is not taken, whose first message stays, keeps its key, every other
key only rises or is the counter's newest, and only the head is taken, so it cannot be taken again before.

`ListsImplementOrder` proves the refinement `ImplementsOrder`, the whole order of turns. The line of arrivals and
takes is what is kept of the counter's values 1..clock (`Kept`), so each operator of the line is first shown on
those values (`KeptLast`, `LineWithout`, `LineDequeue`, `LinePick`, by an enumeration of the kept places), and
then each step of the lists adds and drops just the values that the line's step does (`LineSends`, `LineServes`,
`LineLeaves`); the message the lists give a receiver is the one whose turn it is on the line (`LinePicks`).

### TimeProofs: the stride arithmetic

Of the scheduler, its arithmetic: for every weight, pass, remainder and runtime, a charge accounts for all that
ran, `rescale` restates a debt exactly and `lift` adds a destroyed budget's to its parent's exactly, so that a
destruction (`DestroyExact`) conserves what is owed. The one hypothesis is that a budget of weight 0 has not
run since it entered: `charge` leaves it, and a budget is lifted only when the weight it gave to others is back
(its descendants go first), so that its weight is the one it was made with. `DebtExact`, on the run, says the
same of every reachable state and that the remainders stay below their weights.

### Only model-checked

Liveness (EveryTurnComes, EntriesEnd, CallsReturn, AllocAnswered, EndsServing) and the fairness in
ImplementsFifo are outside the prover's reach. So is what rests on recursion over data: `Stride`'s
properties, whose steps are folds over budgets and harts. All are checked on the bounded instances of
section 3.

## 5. Plan

Theorems that would come next: QueueInStep and RanksAgree of `Stride`, once its folds over harts are stated as
sets.

Modules that would come next:

1. `Admission`: the serving library's shares per client (`libs/rt/src/server/admit.rs`) against fids, minted
   connections and parked calls, returned on every path.
2. `Devices`: R5's mask and fired bits, TAKER and the PLIC, with `Ipc`'s receive on an interrupt.
3. `Budgets`: the tree, shares, labels, destruction in bounded pieces (R10), handle tables, handles in bodies.
4. `Steward`, `Init`, `Piped`, `Consoled`: their state machines.

## 6. Not modelled

The repository is some 214,000 lines, most of them tools and test benches (`tools/`), the executable model
used as the kernel's oracle (`model/`), user land with its own virtual machine (`userland/`), fakes and tests.
What is modelled is the concurrent and crash-prone core: the kernel's lock, harts, messages, frames, timer and
scheduler, and walfs. Left out, with reasons in `PROJECT.json`:

- decoding of system calls and wire formats, paging arithmetic, the timer's unit conversions: pure functions,
  tested exhaustively by the repository;
- the boot path (one hart, once), the firmware and vendored stacks (not the program's own);
- read-only file systems, and littlefs, whose format is external;
- the serving and client libraries, the steward, init and the terminal servers: sequential processes over
  messages, planned above;
- devices and the interrupt controller: planned above. In `Harts` an idle hart's halt may end at any time, as
  a device's interrupt would end it.
