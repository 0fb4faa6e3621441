----------------------------- MODULE Obligations -----------------------------
(***************************************************************************)
(* The funds an order holds: reserved when its intent is accepted, consumed*)
(* fill by fill, released when the order ends.                             *)
(*                                                                         *)
(* The obligation of an order is a row of its own.  Each of the process's  *)
(* tasks (the command worker, the sync loop, an operator's request) reads  *)
(* it on the event loop, computes the new row in memory, and writes the    *)
(* whole row in a transaction that runs in a thread: what another task has *)
(* written in between is overwritten.  Order rows are merged by the state  *)
(* machine, as everywhere; the exchange is what CommandFlow makes of it,   *)
(* without the answers that get lost.                                      *)
(***************************************************************************)
EXTENDS OrderRepository, OkxAdapter, FiniteSets, Functions

CONSTANTS
    Order,          \* orders, one intent each
    Qty,            \* size of every order; its fills are the numbers 1 .. Qty
    Amount,         \* what a set of an order's fills costs in the reserve currency
    Unsupported,    \* fills whose fee is in a currency the service cannot convert
    Reserved,       \* what an order's intent has to reserve, 0 for nothing
    Balance,        \* the account's balance of the reserve currency
    NoObl,          \* the order has no obligation, or a preview returns None
    MaxFaults       \* bound: transactions that fail, and restarts

Fill == 1 .. Qty

ObligationStatus == {"ACTIVE", "PARTIALLY_CONSUMED", "RELEASED", "CANCELED", "FAILED"}

Obligation ==
    [reserved : Nat, consumed : Nat, released : Nat, status : ObligationStatus,
     fills : SUBSET Fill, blocked : SUBSET Fill]

ASSUME QtyAssumption == Qty \in Nat \ {0}
ASSUME OrderAssumption == Order \subseteq VenueId /\ IsFiniteSet(Order)
ASSUME ReservedAssumption == Reserved \in [Order -> Nat]
ASSUME BalanceAssumption == Balance \in Nat
ASSUME UnsupportedAssumption == Unsupported \subseteq Fill
ASSUME NoOblAssumption == NoObl \notin Obligation
ASSUME AmountAssumption ==
    /\ Amount \in [SUBSET Fill -> Nat]
    /\ Amount[{}] = 0
    /\ \A S, T \in SUBSET Fill :
        S \cap T = {} => Amount[S \cup T] = Amount[S] + Amount[T]

Task == {"worker", "sync", "operator"}

VARIABLES
    row,       \* [Order -> order row]
    obl,       \* [Order -> obligation row]
    saved,     \* [Order -> fills with a row]
    cmd,       \* [Order -> the order's submit command]
    venue,     \* [Order -> the exchange's order]
    intake,    \* [Order -> where the order's intent is]
    avail,     \* [Order -> the available balance the order's intake has read]
    task,      \* [Task -> the settlement a task has under way]
    faults     \* how much of the bound is spent

vars == <<row, obl, saved, cmd, venue, intake, avail, task, faults>>

-----------------------------------------------------------------------------
(* The obligation service. *)
Remaining(b) == Greatest(b.reserved - b.consumed - b.released, 0)
IsActive(b) == b # NoObl /\ b.status \in {"ACTIVE", "PARTIALLY_CONSUMED"}

ConsumptionStatus(reserved, consumed, released) ==
    CASE reserved - consumed - released <= 0 -> "RELEASED"
      [] reserved - consumed - released > 0 /\ consumed > 0 -> "PARTIALLY_CONSUMED"
      [] OTHER -> "ACTIVE"

(* Mutant: a fill that was consumed before is consumed again. *)
ApplyFillsAgain(b, fills) ==
    LET counted  == {f \in fills \ Unsupported : Amount[{f}] > 0}
        consumed == b.consumed + Amount[counted]
    IN  [b EXCEPT !.fills = @ \cup counted,
                  !.blocked = @ \cup (fills \cap Unsupported),
                  !.consumed = consumed,
                  !.status = IF counted = {} THEN @
                             ELSE ConsumptionStatus(b.reserved, consumed, b.released)]

(* _apply_fill_to_obligation for one fill after the other. *)
ApplyFills(b, fills) ==
    LET fresh    == fills \ (b.fills \cup b.blocked)
        counted  == {f \in fresh \ Unsupported : Amount[{f}] > 0}
        consumed == b.consumed + Amount[counted]
    IN  [b EXCEPT !.fills = @ \cup counted,
                  !.blocked = @ \cup (fresh \cap Unsupported),
                  !.consumed = consumed,
                  !.status = IF counted = {} THEN @
                             ELSE ConsumptionStatus(b.reserved, consumed, b.released)]

FinalStatus(status) ==
    CASE status = "CANCELED" -> "CANCELED"
      [] status = "FILLED"   -> "RELEASED"
      [] OTHER               -> "FAILED"

(* Mutant: a snapshot of any status releases what is left. *)
FinalizedAlways(b, status) ==
    IF b = NoObl THEN NoObl
    ELSE [b EXCEPT !.released = @ + Remaining(b), !.status = FinalStatus(status)]

(* _apply_finalization_to_obligation, NoObl for None. *)
Finalized(b, status) ==
    CASE b = NoObl \/ ~is_terminal(status) -> NoObl
      [] /\ b # NoObl /\ is_terminal(status)
         /\ Remaining(b) = 0 /\ b.status \in {"RELEASED", "CANCELED", "FAILED"} -> b
      [] OTHER -> [b EXCEPT !.released = @ + Remaining(b), !.status = FinalStatus(status)]

(* Mutant: the new obligation is made from the status of the order. *)
NewObligationCreated(o) ==
    IF Reserved[o] = 0 THEN NoObl
    ELSE [reserved |-> Reserved[o], consumed |-> 0, released |-> 0, status |-> "CREATED",
          fills |-> {}, blocked |-> {}]

NewObligation(o) ==
    IF Reserved[o] = 0 THEN NoObl
    ELSE [reserved |-> Reserved[o], consumed |-> 0, released |-> 0, status |-> "ACTIVE",
          fills |-> {}, blocked |-> {}]

HeldBy(o) == IF IsActive(obl[o]) THEN Remaining(obl[o]) ELSE 0
Held(os) == SumFunctionOnSet([o \in Order |-> HeldBy(o)], os)

(* What an order may still cost, what the executions have left of the      *)
(* balance, and what the exchange reports as available: it withholds what  *)
(* the orders that rest there may still cost.                              *)
Executed(o) == 1 .. venue[o].filled
Needed(o) == Greatest(Reserved[o] - Amount[Executed(o)], 0)
Left == Balance - SumFunction([o \in Order |-> Amount[Executed(o)]])
Frozen(o) == IF venue[o].state = "live" THEN Needed(o) ELSE 0
Available == Left - SumFunction([o \in Order |-> Frozen(o)])

-----------------------------------------------------------------------------
Rest == [pc |-> "rest"]
Settling(o, snap, list) == [pc |-> "detail", order |-> o, snap |-> snap, list |-> list]

Absent == [state |-> "none", qty |-> Qty, filled |-> 0]

Init ==
    /\ row = [o \in Order |-> NoRow]
    /\ obl = [o \in Order |-> NoObl]
    /\ saved = [o \in Order |-> {}]
    /\ cmd = [o \in Order |-> "none"]
    /\ venue = [o \in Order |-> Absent]
    /\ intake = [o \in Order |-> "away"] /\ avail = [o \in Order |-> 0]
    /\ task = [t \in Task |-> Rest]
    /\ faults = 0

Fault == faults < MaxFaults /\ faults' = faults + 1

-----------------------------------------------------------------------------
(* The intake of an intent, under _reservation_lock: the account snapshot  *)
(* is awaited, then compared with what the other orders hold; the order    *)
(* row, the obligation and the submit command are one transaction.         *)
NotIntake == UNCHANGED <<saved, venue, task>>
EndIntake(o) ==
    intake' = [intake EXCEPT ![o] = "away"] /\ avail' = [avail EXCEPT ![o] = 0]

(* Mutant: the lock is not taken. *)
TakeIntentUnlocked(o) ==
    /\ row[o] = NoRow /\ intake[o] = "away"
    /\ intake' = [intake EXCEPT ![o] = "check"]
    /\ avail' = [avail EXCEPT ![o] = Available]
    /\ UNCHANGED <<row, obl, cmd, faults>> /\ NotIntake

TakeIntent(o) ==
    /\ row[o] = NoRow
    /\ \A p \in Order : intake[p] = "away"
    /\ intake' = [intake EXCEPT ![o] = "check"]
    /\ avail' = [avail EXCEPT ![o] = Available]
    /\ UNCHANGED <<row, obl, cmd, faults>> /\ NotIntake

Insufficient(o) == Reserved[o] > 0 /\ Reserved[o] > avail[o] - Held(Order \ {o})

PreviewReservation(o) ==
    /\ intake[o] = "check" /\ ~Insufficient(o)
    /\ intake' = [intake EXCEPT ![o] = "save"]
    /\ UNCHANGED <<row, obl, cmd, avail, faults>> /\ NotIntake

BlockReservation(o) ==
    /\ intake[o] = "check" /\ Insufficient(o)
    /\ row' = [row EXCEPT ![o] = SaveResult(@, IntentState("BLOCKED", Qty, "other"))]
    /\ EndIntake(o)
    /\ UNCHANGED <<obl, cmd, faults>> /\ NotIntake

SaveReservation(o) ==
    /\ intake[o] = "save"
    /\ row' = [row EXCEPT ![o] = SaveResult(@, IntentState("CREATED", Qty, "none"))]
    /\ obl' = [obl EXCEPT ![o] = NewObligation(o)]
    /\ cmd' = [cmd EXCEPT ![o] = "PENDING"]
    /\ EndIntake(o) /\ UNCHANGED faults /\ NotIntake

SaveReservationFails(o) ==
    /\ intake[o] = "save"
    /\ Fault
    /\ EndIntake(o) /\ UNCHANGED <<row, obl, cmd>> /\ NotIntake

-----------------------------------------------------------------------------
(* How a task comes by a snapshot to settle. *)
Busy(o) == \E t \in Task : task[t].pc # "rest" /\ task[t].order = o
Begin(t, o, snap, list) == task' = [task EXCEPT ![t] = Settling(o, snap, list)]
NotBegin == UNCHANGED <<obl, saved, intake, avail, faults>>

(* The worker executes the submit command: SUBMITTING, then place_order.   *)
BeginSubmit(o) ==
    /\ task["worker"] = Rest /\ cmd[o] = "PENDING"
    /\ cmd' = [cmd EXCEPT ![o] = "TAKEN"]
    /\ row' = [row EXCEPT ![o] = SaveResult(@, [@ EXCEPT !.status = "SUBMITTING"])]
    /\ task' = [task EXCEPT !["worker"] = [pc |-> "place", order |-> o]]
    /\ UNCHANGED venue /\ NotBegin

PlaceAccepted(o) ==
    LET v == [venue[o] EXCEPT !.state = "live"] IN
    /\ task["worker"] = [pc |-> "place", order |-> o]
    /\ venue' = [venue EXCEPT ![o] = v]
    /\ \/ Begin("worker", o, SubmittedState(o, Qty), FALSE)
       \/ Begin("worker", o, MapOrderState(o, v), TRUE)
    /\ UNCHANGED <<row, cmd>> /\ NotBegin

PlaceRefused(o) ==
    /\ task["worker"] = [pc |-> "place", order |-> o]
    /\ Begin("worker", o, IntentState("REJECTED", Qty, "other"), FALSE)
    /\ UNCHANGED <<row, cmd, venue>> /\ NotBegin

(* The worker executes a cancel command: CANCEL_PENDING, then cancel_order.*)
BeginCancel(o) ==
    /\ task["worker"] = Rest
    /\ IsOpen(row[o]) /\ row[o].exchange_order_id # NoVenueId
    /\ row' = [row EXCEPT ![o] = SaveResult(@, [@ EXCEPT !.status = "CANCEL_PENDING"])]
    /\ task' = [task EXCEPT !["worker"] = [pc |-> "cancel", order |-> o, snap |-> row'[o]]]
    /\ UNCHANGED <<cmd, venue>> /\ NotBegin

CancelAccepted(o) ==
    LET v == [venue[o] EXCEPT !.state = "canceled"] IN
    /\ task["worker"].pc = "cancel" /\ task["worker"].order = o /\ venue[o].state = "live"
    /\ venue' = [venue EXCEPT ![o] = v]
    /\ \/ Begin("worker", o, MapOrderState(o, v), TRUE)
       \/ Begin("worker", o, task["worker"].snap, FALSE)
    /\ UNCHANGED <<row, cmd>> /\ NotBegin

CancelRefused(o) ==
    /\ task["worker"].pc = "cancel" /\ task["worker"].order = o /\ venue[o].state # "live"
    /\ Begin("worker", o, [task["worker"].snap EXCEPT !.status = "FAILED",
                                                      !.execution_error = "other"], FALSE)
    /\ UNCHANGED <<row, cmd, venue>> /\ NotBegin

(* The operator cancels an order that was not sent yet. *)
CancelBeforeSubmit(o) ==
    /\ task["operator"] = Rest /\ cmd[o] = "PENDING"
    /\ cmd' = [cmd EXCEPT ![o] = "ABANDONED"]
    /\ Begin("operator", o, [row[o] EXCEPT !.status = "CANCELED"], FALSE)
    /\ UNCHANGED <<row, venue>> /\ NotBegin

(* The sync pass asks about open orders, and about ended ones that should  *)
(* have fills and have none; an order the exchange does not show, or whose *)
(* detail cannot be read, keeps the snapshot read from the row.            *)
Backfill(o) ==
    /\ row[o].status \in {"FILLED", "CANCELED", "EXPIRED"}
    /\ row[o].filled_qty > Epsilon /\ saved[o] = {}

SyncReads(o) ==
    /\ task["sync"] = Rest
    /\ row[o] # NoRow /\ (IsOpen(row[o]) \/ Backfill(o))
    /\ \/ venue[o].state # "none" /\ Begin("sync", o, MapOrderState(o, venue[o]), TRUE)
       \/ row[o].exchange_order_id # NoVenueId /\ Begin("sync", o, row[o], TRUE)
    /\ UNCHANGED <<row, cmd, venue>> /\ NotBegin

-----------------------------------------------------------------------------
(* The settlement: preview on the event loop, transaction in a thread.     *)
(* The fills are those the private channel has brought, which need not be  *)
(* all, or those of the REST call, or none when it fails.                  *)
TerminalOutboxObligation(o, snap) ==
    IF snap.status # "FILLED" /\ snap.filled_qty <= Epsilon
    THEN Finalized(obl[o], snap.status) ELSE NoObl

Preview(t) ==
    LET s == task[t]
        o == s.order IN
    /\ s.pc = "detail"
    /\ \E fills \in SUBSET Executed(o) :
        /\ fills # {} => s.list
        /\ task' = [task EXCEPT ![t] =
              IF fills = {}
              THEN [pc |-> "plain", order |-> o, snap |-> s.snap,
                    final |-> TerminalOutboxObligation(o, s.snap)]
              ELSE [pc |-> "fills", order |-> o, snap |-> s.snap, fills |-> fills,
                    base |-> obl[o],
                    final |-> IF obl[o] = NoObl THEN NoObl
                              ELSE Finalized(ApplyFills(obl[o], fills), s.snap.status)]]
    /\ UNCHANGED <<row, obl, saved, cmd, venue, intake, avail, faults>>

Finish(t) == task' = [task EXCEPT ![t] = Rest]
NotSettling == UNCHANGED <<cmd, venue, intake, avail>>

(* The obligation of the last fill that was not yet on record. *)
Chained(s, new) ==
    IF s.base = NoObl \/ new = {} THEN obl[s.order]
    ELSE ApplyFills(s.base, {f \in s.fills : \E g \in new : f <= g})

(* persist_order_state_with_fills: order, fills and obligation at once.    *)
CommitFills(t) ==
    LET s == task[t]
        o == s.order IN
    /\ s.pc = "fills" /\ ~SaveRaises(row[o], s.snap)
    /\ row' = [row EXCEPT ![o] = SaveResult(@, s.snap)]
    /\ saved' = [saved EXCEPT ![o] = @ \cup s.fills]
    /\ obl' = [obl EXCEPT ![o] = IF s.final # NoObl THEN s.final
                                 ELSE Chained(s, s.fills \ saved[o])]
    /\ Finish(t) /\ UNCHANGED faults /\ NotSettling

(* persist_order_state, whose caller then finalizes by what was persisted. *)
CommitPlain(t) ==
    LET s == task[t]
        o == s.order IN
    /\ s.pc = "plain" /\ ~SaveRaises(row[o], s.snap)
    /\ row' = [row EXCEPT ![o] = SaveResult(@, s.snap)]
    /\ obl' = [obl EXCEPT ![o] = IF s.final # NoObl THEN s.final ELSE @]
    /\ task' = [task EXCEPT ![t] = [pc |-> "finalize", order |-> o, status |-> row'[o].status]]
    /\ UNCHANGED <<saved, faults>> /\ NotSettling

FinalizeRead(t) ==
    LET s == task[t]
        b == Finalized(obl[s.order], s.status) IN
    /\ s.pc = "finalize"
    /\ task' = [task EXCEPT ![t] =
                  IF b \in {NoObl, obl[s.order]} THEN Rest
                  ELSE [pc |-> "write", order |-> s.order, final |-> b]]
    /\ UNCHANGED <<row, obl, saved, faults>> /\ NotSettling

FinalizeWrite(t) ==
    /\ task[t].pc = "write"
    /\ obl' = [obl EXCEPT ![task[t].order] = task[t].final]
    /\ Finish(t) /\ UNCHANGED <<row, saved, faults>> /\ NotSettling

(* The state machine refuses the snapshot: nothing is kept. *)
CommitRefused(t) ==
    /\ task[t].pc \in {"plain", "fills"} /\ SaveRaises(row[task[t].order], task[t].snap)
    /\ Finish(t) /\ UNCHANGED <<row, obl, saved, faults>> /\ NotSettling

(* A transaction fails, or the flush of the outbox between the two.        *)
CommitFails(t) ==
    /\ task[t].pc \in {"plain", "fills", "finalize", "write"}
    /\ Fault
    /\ Finish(t) /\ UNCHANGED <<row, obl, saved>> /\ NotSettling

-----------------------------------------------------------------------------
VenueFills(o) ==
    LET filled == venue[o].filled + 1 IN
    /\ venue[o].state = "live" /\ filled <= Qty
    /\ venue' = [venue EXCEPT ![o].filled = filled,
                              ![o].state = IF filled = Qty THEN "filled" ELSE "live"]
    /\ UNCHANGED <<row, obl, saved, cmd, intake, avail, task, faults>>

VenueCancels(o) ==
    /\ venue[o].state = "live"
    /\ venue' = [venue EXCEPT ![o].state = "canceled"]
    /\ UNCHANGED <<row, obl, saved, cmd, intake, avail, task, faults>>

(* _cleanup_orphan_obligations of the startup. *)
Recovered(b, r) ==
    IF IsActive(b) /\ ~IsOpen(r)
    THEN [b EXCEPT !.released = @ + Remaining(b),
                   !.status = IF r = NoRow THEN "FAILED" ELSE FinalStatus(r.status)]
    ELSE b

Restart ==
    /\ Fault
    /\ task' = [t \in Task |-> Rest]
    /\ intake' = [o \in Order |-> "away"] /\ avail' = [o \in Order |-> 0]
    /\ obl' = [o \in Order |-> Recovered(obl[o], row[o])]
    /\ UNCHANGED <<row, saved, cmd, venue>>

-----------------------------------------------------------------------------
Intake(o) == \/ TakeIntent(o) \/ PreviewReservation(o) \/ BlockReservation(o)
             \/ SaveReservation(o) \/ SaveReservationFails(o)

Begins(o) == \/ BeginSubmit(o) \/ PlaceAccepted(o) \/ PlaceRefused(o)
             \/ BeginCancel(o) \/ CancelAccepted(o) \/ CancelRefused(o)
             \/ CancelBeforeSubmit(o) \/ SyncReads(o)

Settle(t) == \/ Preview(t) \/ CommitFills(t) \/ CommitPlain(t) \/ FinalizeRead(t)
             \/ FinalizeWrite(t) \/ CommitRefused(t) \/ CommitFails(t)

Next == \/ \E o \in Order : Intake(o) \/ Begins(o) \/ VenueFills(o) \/ VenueCancels(o)
        \/ \E t \in Task : Settle(t)
        \/ Restart

Spec == Init /\ [][Next]_vars

-----------------------------------------------------------------------------
Previews == Obligation \cup {NoObl}
Tasks ==
    {Rest}
    \cup [pc : {"place"}, order : Order]
    \cup [pc : {"cancel"}, order : Order, snap : OrderState]
    \cup [pc : {"detail"}, order : Order, snap : OrderState, list : BOOLEAN]
    \cup [pc : {"plain"}, order : Order, snap : OrderState, final : Previews]
    \cup [pc : {"fills"}, order : Order, snap : OrderState, fills : SUBSET Fill,
          base : Previews, final : Previews]
    \cup [pc : {"finalize"}, order : Order, status : OrderLifecycleStatus]
    \cup [pc : {"write"}, order : Order, final : Obligation]

Types ==
    /\ row \in [Order -> OrderState \cup {NoRow}]
    /\ obl \in [Order -> Previews]
    /\ saved \in [Order -> SUBSET Fill]
    /\ cmd \in [Order -> {"none", "PENDING", "TAKEN", "ABANDONED"}]
    /\ venue \in [Order -> [state : VenueState, qty : {Qty}, filled : 0 .. Qty]]
    /\ intake \in [Order -> {"away", "check", "save"}]
    /\ task \in [Task -> Tasks]
    /\ faults \in Nat

(* Every variable has its type.                                            *)
TypeOK == Types /\ avail \in [Order -> Int]

(* Each fill is consumed at most once, and only when it is on record: the  *)
(* amount an obligation has consumed is the cost of fills with a row of    *)
(* their own, whichever tasks settled them, in whichever order and         *)
(* repetition.  A stale write may lose the consumption of a fill: the      *)
(* order then holds too much until it ends, never too little.              *)
ConsumedAtMostOnce ==
    \A o \in Order : obl[o] # NoObl =>
        /\ obl[o].consumed = Amount[obl[o].fills]
        /\ obl[o].fills \cup obl[o].blocked \subseteq saved[o]

(* An order that is open keeps what its unfilled rest may cost: no stale   *)
(* write, no repeated fill and no settlement of an older snapshot releases *)
(* it early.                                                               *)
OpenOrderStaysCovered ==
    \A o \in Order : IsOpen(row[o]) /\ Reserved[o] > 0 =>
        obl[o] # NoObl /\ obl[o].released = 0 /\ Remaining(obl[o]) >= Needed(o)

(* What the open orders may still cost together.                           *)
OpenNeeds == SumFunctionOnSet([o \in Order |-> Needed(o)], {o \in Order : IsOpen(row[o])})

(* What preview_reservation checks holds when the order is opened, awaits  *)
(* and a transaction later: the order fits, together with all that is open *)
(* by then, into the balance its own intake has read.  No other intent was *)
(* accepted on that reading; what is spent after it is not looked at.      *)
AcceptedWithinBalanceRead ==
    [][\A o \in Order :
         Reserved[o] > 0 /\ ~IsOpen(row[o]) /\ IsOpen(row'[o]) => OpenNeeds' <= avail[o]]_vars

(* "A cancel, a rejection, a failure releases the obligation": once nobody *)
(* is settling an order that has ended, it holds nothing any more.         *)
EndedOrderHoldsNothing ==
    \A o \in Order :
        row[o] # NoRow /\ ~IsOpen(row[o]) /\ ~Busy(o) => ~IsActive(obl[o])

==============================================================================
