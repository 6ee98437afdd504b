---------------------------- MODULE AtomicStore ----------------------------
(* What walfs promises of a volume (docs/servers/walfsd.md, R50): an           *)
(* operation that was answered is in the store, and one that power loss or a   *)
(* restart cut off is there whole or not at all, settled by the next mount.    *)
CONSTANTS Blocks, Values, None

VARIABLES store,  \* what each block holds
          op,     \* the store an unanswered operation would leave, or None
          up      \* whether the volume is mounted

StoreInit == store \in [Blocks -> Values] /\ op = None /\ up = TRUE

Begin(new) == up /\ op = None /\ op' = new /\ UNCHANGED <<store, up>>
Apply      == op # None /\ store' = op /\ UNCHANGED <<op, up>>
Answer     == up /\ op = store /\ op' = None /\ UNCHANGED <<store, up>>
Stop       == up' = FALSE /\ UNCHANGED <<store, op>>
StopApply  == op # None /\ store' = op /\ up' = FALSE /\ UNCHANGED op
Mount      == ~up /\ up' = TRUE /\ op' = None /\ UNCHANGED store

StoreNext == \/ \E new \in [Blocks -> Values] : Begin(new)
             \/ Apply \/ Answer \/ Stop \/ StopApply \/ Mount

StoreSpec == StoreInit /\ [][StoreNext]_<<store, op, up>>
=============================================================================
