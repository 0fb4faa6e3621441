----------------------------- MODULE OrderStore ------------------------------
(***************************************************************************)
(* The row of one order in the converged execution repository.  Every      *)
(* writer (the submit worker, the cancel path, the exchange sync loop, the *)
(* startup reconciler) saves a snapshot it built from an earlier read, so  *)
(* the snapshots arrive late, repeated and out of order.  The row is locked*)
(* (SELECT ... FOR UPDATE) for the length of a save: a save is one step.   *)
(***************************************************************************)
EXTENDS OrderRepository

CONSTANTS
    FirstSnapshot,  \* snapshots an order is recorded with
    Snapshot        \* snapshots the writers save afterwards

ASSUME SnapshotAssumption == FirstSnapshot \cup Snapshot \subseteq OrderState
(* The order manager records an order unfilled, with a positive quantity   *)
(* that remains to be filled as a whole.                                   *)
ASSUME FirstSnapshotAssumption ==
    \A s \in FirstSnapshot :
        /\ s.requested_qty > 0
        /\ s.filled_qty = 0
        /\ s.remaining_qty = s.requested_qty

VARIABLES
    row,        \* the persisted snapshot, or NoRow
    raised,     \* whether the last save raised ValueError
    seen,       \* history: largest filled_qty of the snapshots saved so far
    floor       \* history: smallest requested_qty the row ever had

vars == <<row, raised, seen, floor>>

------------------------------------------------------------------------------

Init ==
    /\ row = NoRow
    /\ raised = FALSE
    /\ seen = 0
    /\ floor = 0

(* save_order_state_in_session with no existing row.                       *)
create_order(state) ==
    /\ row = NoRow
    /\ row' = SaveResult(row, state)
    /\ raised' = FALSE
    /\ seen' = Greatest(seen, state.filled_qty)
    /\ floor' = row'.requested_qty

(* save_order_state_in_session with an existing row and a status that the  *)
(* transition table accepts or that is a mere regression.                  *)
save_order_state(state) ==
    /\ row # NoRow
    /\ ~SaveRaises(row, state)
    /\ row' = SaveResult(row, state)
    /\ raised' = FALSE
    /\ seen' = Greatest(seen, state.filled_qty)
    /\ floor' = Least(floor, row'.requested_qty)

(* save_order_state_in_session raising ValueError: nothing is written.     *)
refuse_order_state(state) ==
    /\ SaveRaises(row, state)
    /\ raised' = TRUE
    /\ UNCHANGED <<row, seen, floor>>

Next ==
    \/ \E s \in FirstSnapshot : create_order(s)
    \/ \E s \in Snapshot : save_order_state(s) \/ refuse_order_state(s)

Spec == Init /\ [][Next]_vars

------------------------------------------------------------------------------
(* Properties *)

(* Type correctness of the persisted row and of the history variables.     *)
TypeOK ==
    /\ row \in OrderState \cup {NoRow}
    /\ raised \in BOOLEAN
    /\ seen \in Int
    /\ floor \in Int

(* The quantities of a row always describe one order: it has a positive    *)
(* size, and what is filled and what remains never exceed it together,     *)
(* however stale the snapshots that were merged (merge, _normalize).       *)
QuantitiesConsistent ==
    row # NoRow =>
        /\ row.requested_qty > 0
        /\ row.filled_qty >= 0
        /\ row.remaining_qty >= 0
        /\ row.filled_qty + row.remaining_qty <= row.requested_qty

(* No fill is forgotten: whatever the order in which snapshots were saved, *)
(* and also when their status was refused as a regression, the row shows   *)
(* the largest fill any of them reported (up to the order's size), and     *)
(* never one nobody reported.                                              *)
FillsNeverLost ==
    row # NoRow =>
        /\ row.filled_qty >= Least(seen, floor)
        /\ row.filled_qty <= seen

(* An order that is filled to its size is FILLED, whatever status the      *)
(* snapshot that completed it carried (_normalize).                        *)
FullMeansFilled ==
    row # NoRow /\ FullyFilled(row.filled_qty, row.requested_qty)
        => row.status = "FILLED" /\ row.remaining_qty = 0

(* A terminal order changes status only by turning out to be completely    *)
(* filled; FILLED itself is final.                                         *)
TerminalIsFinal ==
    [][row # NoRow /\ is_terminal(row.status) =>
          /\ row' # NoRow
          /\ \/ row'.status = row.status
             \/ /\ row'.status = "FILLED"
                /\ FullyFilled(row'.filled_qty, row'.requested_qty)]_vars

(* A row moves backwards in STATE_PRIORITY never, and forgets the          *)
(* exchange's order id never, although most snapshots that reach it were   *)
(* built before a later one was saved.                                     *)
NeverBackwards ==
    [][row # NoRow =>
          /\ STATE_PRIORITY[row'.status] >= STATE_PRIORITY[row.status]
          /\ row.exchange_order_id # NoVenueId => row'.exchange_order_id # NoVenueId]_vars

(* The marker "submission outcome unknown, check the exchange" goes away   *)
(* only when a writer replaces it by another error, learns an exchange     *)
(* order id, or the order has moved on to a status that implies contact.   *)
UnknownSubmitIsKept ==
    [][row # NoRow /\ row.execution_error = "submission_unknown"
         /\ row'.execution_error = "none" =>
          \/ row'.exchange_order_id \notin {NoVenueId, row.exchange_order_id}
          \/ row'.status \in {"PARTIALLY_FILLED", "FILLED", "CANCELED",
                              "EXPIRED", "REJECTED", "FAILED"}]_vars

------------------------------------------------------------------------------
(* The row implements the abstract lifecycle of an order.                  *)

Lifecycle == INSTANCE OrderLifecycle WITH
    life <- LifeOf(row), filled <- FilledOf(row)

(* Refinement: recorded once, ended once, fills never taken back.          *)
ImplementsLifecycle == Lifecycle!LifecycleSpec

==============================================================================
