--------------------------- MODULE StartupRecovery ---------------------------
(***************************************************************************)
(* What startup recovery decides from the persisted orders and commands.   *)
(* The exchange order reconciler asks the exchange about every order that  *)
(* was left between "recorded" and "acknowledged"; the execution ledger    *)
(* recovery then counts what is still open and raises the blockers that    *)
(* keep the kill switch engaged.                                           *)
(***************************************************************************)
EXTENDS OrderRepository, OkxAdapter, FiniteSets

(* A row left in CREATED or SUBMITTING without an exchange order id.       *)
IsStuck(row) ==
    /\ row # NoRow
    /\ row.status \in {"CREATED", "SUBMITTING"}
    /\ row.exchange_order_id = NoVenueId

(* Mutant: every ended order is taken for a filled one.                    *)
ResolvedAsFilled(o, current, v) ==
    IF Resting(v)
    THEN [current EXCEPT !.status = "SUBMITTED", !.exchange_order_id = o]
    ELSE [current EXCEPT !.status = "FILLED", !.exchange_order_id = o,
                         !.filled_qty = current.requested_qty, !.remaining_qty = 0]

(* The snapshot a definite answer of the exchange resolves a stuck row to. *)
(* A cancelled order keeps the row's own quantities.  The answer "order    *)
(* does not exist" never gets here: the REST client raises it as an error, *)
(* which counts as unreachable.                                            *)
ResolvedOrderState(o, current, v) ==
    CASE Resting(v) ->
            [current EXCEPT !.status = "SUBMITTED", !.exchange_order_id = o]
      [] v.state = "canceled" ->
            [current EXCEPT !.status = "CANCELED", !.exchange_order_id = o]
      [] v.state = "filled" ->
            [current EXCEPT !.status = "FILLED", !.exchange_order_id = o,
                            !.filled_qty = Greatest(@, v.filled),
                            !.remaining_qty = 0]

------------------------------------------------------------------------------
(* Blockers.  orders maps each order to its row, submitState each order to *)
(* the state of its submit command ("none" when it has none), pending is   *)
(* the set of all commands that are PENDING or CLAIMED, and reconciled is  *)
(* the number of orders the reconciler resolved just before.               *)

StuckIn(orders, submitState, state) ==
    {o \in DOMAIN orders : IsStuck(orders[o]) /\ submitState[o] = state}

RecoveryBlockers(orders, submitState, pending, reconciled) ==
    LET stranded  == Cardinality(StuckIn(orders, submitState, "none"))
        stuckSent == Cardinality(StuckIn(orders, submitState, "SENT"))
        claimed   == Cardinality(StuckIn(orders, submitState, "CLAIMED"))
    IN  {b \in {"stuck_sent_submit_commands",
                "claimed_submit_commands_require_exchange_reconciliation",
                "pending_execution_commands",
                "created_orders_missing_submit_commands"} :
            CASE b = "stuck_sent_submit_commands" -> stuckSent > reconciled
              [] b = "claimed_submit_commands_require_exchange_reconciliation" ->
                    claimed > 0
              [] b = "pending_execution_commands" -> Cardinality(pending) > claimed
              [] b = "created_orders_missing_submit_commands" -> stranded > reconciled}

(* Mutant: claimed submits are no reason to refuse a resume.               *)
PersistentWithoutClaimed ==
    {"pending_execution_commands", "stuck_sent_submit_commands"}

(* The blockers an operator's resume request does not override.            *)
PERSISTENT_STATUS_BLOCKERS ==
    {"pending_execution_commands", "stuck_sent_submit_commands",
     "claimed_submit_commands_require_exchange_reconciliation"}

==============================================================================
