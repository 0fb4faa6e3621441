----------------------------- MODULE OkxAdapter ------------------------------
(***************************************************************************)
(* How the OKX adapter turns what it learns from the exchange into order   *)
(* snapshots.  Only the snapshots are here; the steps in which the adapter *)
(* talks to the exchange, and the ways those steps fail, are actions of    *)
(* CommandFlow.                                                            *)
(*                                                                         *)
(* An exchange row is [state, qty, filled]: "none" before the exchange     *)
(* knows the client order id, then "live", "canceling" (a cancel request   *)
(* was accepted, which does not yet end the order), "filled" or            *)
(* "canceled".  The exchange gives each client order id one exchange order *)
(* id, written here as the client order id itself.                         *)
(***************************************************************************)
EXTENDS OrderStateMachine

VenueState == {"none", "live", "canceling", "filled", "canceled"}

Resting(v) == v.state \in {"live", "canceling"}

(* A snapshot built from an intent (no exchange row was seen).             *)
IntentState(status, qty, error) ==
    [status |-> status, exchange_order_id |-> NoVenueId, requested_qty |-> qty,
     filled_qty |-> 0, remaining_qty |-> qty, fees |-> 0, execution_error |-> error]

(* order_row["state"] of a resting order with fills is "partially_filled". *)
MapStatus(v) ==
    CASE Resting(v) /\ v.filled > 0 -> "PARTIALLY_FILLED"
      [] v.state = "filled"               -> "FILLED"
      [] v.state = "canceled"             -> "CANCELED"
      [] OTHER                            -> "SUBMITTED"

MapOrderState(o, v) ==
    [status            |-> MapStatus(v),
     exchange_order_id |-> o,
     requested_qty     |-> v.qty,
     filled_qty        |-> v.filled,
     remaining_qty     |-> Greatest(v.qty - v.filled, 0),
     fees              |-> 0,
     execution_error   |-> "none"]

(* place_order was acknowledged, the order's detail was not read.          *)
SubmittedState(o, qty) ==
    [IntentState("SUBMITTED", qty, "none") EXCEPT !.exchange_order_id = o]

(* The outcome of place_order is unknown.                                  *)
SubmissionUnknown(qty) == IntentState("SUBMITTED", qty, "submission_unknown")

RecoverableOrderState(state, error) == [state EXCEPT !.execution_error = error]

UnknownWriteState(state) ==
    state.execution_error \in {"submission_unknown", "cancel_unknown"}

==============================================================================
