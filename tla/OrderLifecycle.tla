--------------------------- MODULE OrderLifecycle ----------------------------
(***************************************************************************)
(* What the persisted order promises to the rest of the system, with every *)
(* detail of statuses and merging left out: an order is recorded once,     *)
(* lives, ends at most once, and afterwards can only be found to have been *)
(* completely filled.  Fills are never taken back, except that a report    *)
(* that shrinks the order below its fills completes it.                    *)
(***************************************************************************)
EXTENDS Integers

VARIABLES
    life,       \* "absent", "open", "ended" or "complete"
    filled      \* quantity known to be filled

lifecycleVars == <<life, filled>>

LifecycleInit == life = "absent" /\ filled = 0

(* The order is recorded, possibly as already ended (blocked, dry run).    *)
Record ==
    /\ life = "absent"
    /\ life' \in {"open", "ended", "complete"}
    /\ filled' \in Int

(* A report on an open order.                                              *)
Progress ==
    /\ life = "open"
    /\ life' \in {"open", "ended", "complete"}
    /\ filled' \in Int
    /\ filled' >= filled \/ life' = "complete"

(* A late report on an ended order: more fills, or complete after all.     *)
LateReport ==
    /\ life = "ended"
    /\ life' \in {"ended", "complete"}
    /\ filled' \in Int
    /\ filled' >= filled \/ life' = "complete"

(* A complete order stays complete.                                        *)
Settled ==
    /\ life = "complete"
    /\ life' = "complete"
    /\ filled' \in Int

LifecycleNext == Record \/ Progress \/ LateReport \/ Settled

LifecycleSpec == LifecycleInit /\ [][LifecycleNext]_lifecycleVars

==============================================================================
