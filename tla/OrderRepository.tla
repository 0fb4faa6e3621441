--------------------------- MODULE OrderRepository ---------------------------
(***************************************************************************)
(* What the converged execution repository does with a snapshot: the row of*)
(* the order is locked, the transition is validated, and the snapshot is   *)
(* merged into the row or the save raises ValueError.                      *)
(***************************************************************************)
EXTENDS OrderStateMachine

CONSTANT NoRow      \* the repository has no row for the order

ASSUME NoRowAssumption == NoRow \notin OrderState

(* save_order_state_in_session raises: nothing of the transaction is kept. *)
SaveRaises(current, incoming) ==
    /\ current # NoRow
    /\ validate_transition(current.status, incoming.status) = "invalid_transition"

(* Mutant: the snapshot replaces the row.                                  *)
SaveReplaces(current, incoming) == Normalize(incoming)

SaveResult(current, incoming) ==
    IF current = NoRow THEN Normalize(incoming) ELSE Merge(current, incoming)

(* open_order_states: the rows that are not terminal.                      *)
IsOpen(row) == row # NoRow /\ ~is_terminal(row.status)

(* The row as the abstract lifecycle of an order (OrderLifecycle) sees it. *)
LifeOf(r) ==
    CASE r = NoRow -> "absent"
      [] r # NoRow /\ r.status = "FILLED" -> "complete"
      [] r # NoRow /\ r.status # "FILLED" /\ is_terminal(r.status) -> "ended"
      [] OTHER -> "open"

FilledOf(r) == IF r = NoRow THEN 0 ELSE r.filled_qty

==============================================================================
