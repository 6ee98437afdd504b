-------------------------------- MODULE Wal --------------------------------
(* The log of walfs (libs/walfs/src/fs.rs): a transaction of whole blocks is   *)
(* written to the log, committed by one header block, copied home, and the     *)
(* header emptied, with a sync after each step; a mount recovers the log.      *)
(*                                                                             *)
(* The medium keeps what the last sync made durable, and a set of writes since *)
(* that power loss may land, lose or tear, each on its own.  walfsd is killed, *)
(* fails on an I/O error, or loses power between any two of its requests.      *)
(* A hash is the content it is of: SHA-256 is taken to be injective.           *)
EXTENDS Integers, Sequences, SequencesExt

CONSTANTS
  Blocks,    \* hashed blocks: tables, bitmap, data
  MaxTx,     \* bound: transactions begun
  FaultSets, \* the sets of kinds of fault, of Kinds, that happen in one behaviour
  MaxFaults, \* bound: faults in all
  Hash,      \* the hash block, which checks itself
  Header,    \* the log's header
  Torn,      \* what no hash matches
  None

Versions == 0..MaxTx
Kinds    == {"power", "restart", "io"}

ASSUME WalAssumption ==
  /\ IsFiniteSet(Blocks) /\ MaxTx \in Nat /\ MaxFaults \in Nat
  /\ FaultSets \subseteq SUBSET Kinds
  /\ {Hash, Header} \cap (Blocks \cup Nat) = {} /\ Hash # Header /\ Blocks \cap Nat = {}
  /\ {None, Torn} \cap [Blocks -> Versions] = {}
  /\ \A n \in 0 .. Cardinality(Blocks) + 1 :
       Torn \notin [1 .. n -> [home : Blocks \cup {Hash}, data : Versions \cup [Blocks -> Versions]]]

VARIABLES
  cur,     \* what a read of each block returns
  dur,     \* what the last sync made durable
  pend,    \* the writes of each block since
  pc,      \* where walfsd is
  tx,      \* the transaction's blocks, or the entries recovery copies
  k,       \* its blocks written so far in this step
  hashes,  \* the last hash block read, or None
  asked,   \* the volume the operation under way would leave, or None
  answered,\* the volume the last answered operation left
  seq,     \* transactions begun
  faults   \* faults of each kind so far

diskVars == <<cur, dur, pend>>
vars == <<cur, dur, pend, pc, tx, k, hashes, asked, answered, seq, faults>>

Empty     == <<>>                            \* the header of no transaction
LogBlocks == 1 .. Cardinality(Blocks) + 1    \* the log, a block for each of a transaction
Locs      == Blocks \cup {Hash, Header} \cup LogBlocks

\* One block's content in a transaction: an entry of the header, hash and all.
Entry(b, c) == [home |-> b, data |-> c]

-----------------------------------------------------------------------------
(* The device. *)

\* A write reaches the device's cache.
Written(b, c) ==
  /\ cur' = [cur EXCEPT ![b] = c]
  /\ pend' = [pend EXCEPT ![b] = Append(@, c)]
  /\ UNCHANGED dur

\* A sync makes every write before it durable.
Synced ==
  /\ dur' = cur
  /\ pend' = [b \in Locs |-> <<>>]
  /\ UNCHANGED cur

\* Power is lost: each block written since the last sync holds what it held, what was
\* written, or neither.
Unsynced == {b \in Locs : pend[b] # <<>>}
Landed(b, n) == IF n = 0 THEN dur[b] ELSE IF n > Len(pend[b]) THEN Torn ELSE pend[b][n]

-----------------------------------------------------------------------------
(* Reading. *)

\* The header as recovery parses it: a torn one is no transaction.
Entries == IF cur[Header] = Torn THEN Empty ELSE cur[Header]

LogMatches == \A i \in DOMAIN Entries : cur[i] = Entries[i].data

\* The hash block reads are checked with: the one kept, or the device's, once it checks itself.
Slots == IF hashes # None THEN hashes ELSE cur[Hash]
Readable(b) == Slots # Torn /\ cur[b] = Slots[b]
Volume == [b \in Blocks |-> cur[b]]

-----------------------------------------------------------------------------
(* An operation: one transaction. *)

\* The blocks it changes, read and checked; their hash block goes first.
Transaction(S) ==
  <<Entry(Hash, [b \in Blocks |-> IF b \in S THEN seq + 1 ELSE cur[Hash][b]])>>
  \o SetToSeq({Entry(b, seq + 1) : b \in S})

Op(S) ==
  /\ pc = "ready" /\ seq < MaxTx
  /\ \A b \in S : Readable(b)
  /\ hashes' = Slots
  /\ tx' = Transaction(S) /\ k' = 0 /\ seq' = seq + 1
  /\ asked' = [b \in Blocks |-> IF b \in S THEN seq + 1 ELSE answered[b]]
  /\ pc' = "log"
  /\ UNCHANGED <<diskVars, answered, faults>>

\* A read of a block, which keeps the hash block it used; one its slot does not match is
\* refused as corrupt.
Read(b) ==
  /\ pc = "ready"
  /\ IF Readable(b) THEN hashes' = Slots /\ UNCHANGED pc ELSE pc' = "corrupt" /\ UNCHANGED hashes
  /\ UNCHANGED <<diskVars, tx, k, asked, answered, seq, faults>>

\* The steps of write_through, each ended by a sync.
WriteLog ==
  /\ pc = "log" /\ k < Len(tx)
  /\ Written(k + 1, tx[k + 1].data) /\ k' = k + 1
  /\ UNCHANGED <<pc, tx, hashes, asked, answered, seq, faults>>

\* Mutant: the header goes out with the log's blocks, under one sync.
SyncLogLate ==
  /\ pc = "log" /\ k = Len(tx)
  /\ pc' = "head"
  /\ UNCHANGED <<diskVars, tx, k, hashes, asked, answered, seq, faults>>

SyncLog ==
  /\ pc = "log" /\ k = Len(tx)
  /\ Synced /\ pc' = "head"
  /\ UNCHANGED <<tx, k, hashes, asked, answered, seq, faults>>

WriteHeader ==
  /\ pc = "head"
  /\ Written(Header, tx) /\ pc' = "commit"
  /\ UNCHANGED <<tx, k, hashes, asked, answered, seq, faults>>

\* Mutant: the blocks go home before the commit is durable.
CommitLate ==
  /\ pc = "commit"
  /\ pc' = "home" /\ k' = 0
  /\ UNCHANGED <<diskVars, tx, hashes, asked, answered, seq, faults>>

Commit ==
  /\ pc = "commit"
  /\ Synced /\ pc' = "home" /\ k' = 0
  /\ UNCHANGED <<tx, hashes, asked, answered, seq, faults>>

WriteHome ==
  /\ pc = "home" /\ k < Len(tx)
  /\ Written(tx[k + 1].home, tx[k + 1].data) /\ k' = k + 1
  /\ UNCHANGED <<pc, tx, hashes, asked, answered, seq, faults>>

SyncHome ==
  /\ pc = "home" /\ k = Len(tx)
  /\ Synced /\ pc' = "clear"
  /\ UNCHANGED <<tx, k, hashes, asked, answered, seq, faults>>

Clear ==
  /\ pc = "clear"
  /\ Written(Header, Empty) /\ pc' = "cleared"
  /\ UNCHANGED <<tx, k, hashes, asked, answered, seq, faults>>

\* The last sync: the operation is answered.
Done ==
  /\ pc = "cleared"
  /\ Synced /\ pc' = "ready" /\ tx' = Empty
  /\ answered' = asked /\ asked' = None /\ hashes' = None
  /\ UNCHANGED <<k, seq, faults>>

-----------------------------------------------------------------------------
(* A mount recovers the log. *)

\* The volume is served; the operation under way, if any, was done or was not.
Serve ==
  /\ pc' = "ready" /\ tx' = Empty
  /\ answered' = IF Volume = asked THEN asked ELSE answered
  /\ asked' = None /\ hashes' = None

\* A header with no transaction: nothing to do.
MountClean ==
  /\ pc = "down" /\ cur[Header] = Empty
  /\ Serve /\ UNCHANGED <<diskVars, k, seq, faults>>

\* A committed transaction is checked whole before any of it goes home; a torn header is
\* emptied, with nothing to copy.
Recover ==
  /\ pc = "down" /\ cur[Header] # Empty
  /\ IF LogMatches THEN pc' = "rehome" /\ tx' = Entries /\ k' = 0
     ELSE pc' = "corrupt" /\ UNCHANGED <<tx, k>>
  /\ UNCHANGED <<diskVars, hashes, asked, answered, seq, faults>>

Rehome ==
  /\ pc = "rehome" /\ k < Len(tx)
  /\ Written(tx[k + 1].home, cur[k + 1]) /\ k' = k + 1
  /\ UNCHANGED <<pc, tx, hashes, asked, answered, seq, faults>>

Rehomed ==
  /\ pc = "rehome" /\ k = Len(tx)
  /\ Synced /\ pc' = "reclear"
  /\ UNCHANGED <<tx, k, hashes, asked, answered, seq, faults>>

Reclear ==
  /\ pc = "reclear"
  /\ Written(Header, Empty) /\ pc' = "recleared"
  /\ UNCHANGED <<tx, k, hashes, asked, answered, seq, faults>>

Recovered ==
  /\ pc = "recleared"
  /\ Synced /\ Serve /\ UNCHANGED <<k, seq, faults>>

-----------------------------------------------------------------------------
(* Faults. *)

Fault(kind) ==
  /\ SumFunction(faults) < MaxFaults
  /\ faults' = [faults EXCEPT ![kind] = @ + 1]
  /\ \E F \in FaultSets : {x \in Kinds : faults'[x] > 0} \subseteq F

\* What only walfsd's memory held is gone.
Forgotten == pc' = "down" /\ tx' = Empty /\ hashes' = None /\ UNCHANGED <<k, asked, answered, seq>>

Power ==
  /\ Fault("power")
  /\ \E n \in [Unsynced -> 0 .. 1 + Max({0} \cup {Len(pend[b]) : b \in Unsynced})] :
       dur' = [b \in Locs |-> IF b \in Unsynced THEN Landed(b, n[b]) ELSE dur[b]]
  /\ cur' = dur'
  /\ pend' = [b \in Locs |-> <<>>]
  /\ Forgotten

\* init restarts walfsd; the device keeps its cache.
Restart ==
  /\ Fault("restart")
  /\ Forgotten /\ UNCHANGED diskVars

\* The write the volume's next step makes, of one block.
NextWrite ==
  CASE pc = "log"  /\ k < Len(tx)   -> {Entry(k + 1, tx[k + 1].data)}
    [] pc = "head"                  -> {Entry(Header, tx)}
    [] pc = "home" /\ k < Len(tx)   -> {tx[k + 1]}
    [] pc = "rehome" /\ k < Len(tx) -> {Entry(tx[k + 1].home, cur[k + 1])}
    [] pc \in {"clear", "reclear"}  -> {Entry(Header, Empty)}
    [] OTHER                        -> {}

\* An I/O error: a write that may have reached the device or not, or a sync that made nothing
\* durable.  The volume is poisoned: nothing more is done until it is mounted again.
IoError ==
  /\ Fault("io") /\ pc \notin {"poisoned", "corrupt"}
  /\ pc' = "poisoned" /\ hashes' = None
  /\ \/ UNCHANGED diskVars
     \/ \E w \in NextWrite : Written(w.home, w.data)
  /\ UNCHANGED <<tx, k, asked, answered, seq>>

-----------------------------------------------------------------------------

\* A formatted volume, mounted.
Init ==
  /\ cur = [b \in Locs |->
              CASE b = Hash -> [c \in Blocks |-> 0] [] b = Header -> Empty
                [] b \in Blocks -> 0 [] OTHER -> Torn]
  /\ dur = cur /\ pend = [b \in Locs |-> <<>>]
  /\ pc = "ready" /\ tx = Empty /\ k = 0 /\ hashes = None
  /\ asked = None /\ answered = [b \in Blocks |-> 0] /\ seq = 0
  /\ faults = [x \in Kinds |-> 0]

Next ==
  \/ \E S \in SUBSET Blocks \ {{}} : Op(S)
  \/ \E b \in Blocks : Read(b)
  \/ WriteLog \/ SyncLog \/ WriteHeader \/ Commit \/ WriteHome \/ SyncHome \/ Clear \/ Done
  \/ MountClean \/ Recover \/ Rehome \/ Rehomed \/ Reclear \/ Recovered
  \/ Power \/ Restart \/ IoError

Spec == Init /\ [][Next]_vars

-----------------------------------------------------------------------------
(* Properties. *)

\* R50 (docs/servers/walfsd.md): a mounted volume holds every operation that was answered, and
\* one that was cut whole or not at all; no block of it fails its hash, and it always mounts.
BeforeOrAfter ==
  /\ pc # "corrupt"
  /\ pc = "ready" => Volume = answered /\ \A b \in Blocks : cur[Hash][b] = cur[b]

\* What the next mount would serve, were every write since the last sync lost; None if it
\* would refuse the log.
Durable ==
  LET es == IF dur[Header] = Torn THEN Empty ELSE dur[Header]
      At(b) == {i \in DOMAIN es : es[i].home = b}
  IN  IF \E i \in DOMAIN es : dur[i] # es[i].data THEN None
      ELSE [b \in Blocks |-> IF At(b) = {} THEN dur[b] ELSE es[CHOOSE i \in At(b) : TRUE].data]

\* walfs implements a store whose operations are atomic and durable once answered.
Atomic == INSTANCE AtomicStore WITH Values <- Versions, store <- Durable, op <- asked,
                                    up <- (pc \notin {"down", "rehome", "reclear", "recleared",
                                                     "poisoned", "corrupt"})
ImplementsAtomicStore == Atomic!StoreSpec
=============================================================================
