-------------------------- MODULE OrderStateMachine --------------------------
(***************************************************************************)
(* The order state machine of the execution engine: the lifecycle          *)
(* statuses, the transitions a persisted order may take, and the merge     *)
(* that reconciles the persisted snapshot of an order with a snapshot      *)
(* arriving late, twice or out of order.                                   *)
(*                                                                         *)
(* A snapshot keeps the fields the control flow reads.  Prices, timestamps,*)
(* payloads and the exchange's own status text are left out.  Quantities   *)
(* are integer multiples of one unit of size; Epsilon is the tolerance     *)
(* EPSILON_DECIMAL_12 in that unit.                                        *)
(***************************************************************************)
EXTENDS Integers

CONSTANTS
    VenueId,        \* exchange order ids
    NoVenueId,      \* exchange_order_id is None
    Epsilon         \* tolerance below which an order counts as fully filled

ASSUME VenueIdAssumption == NoVenueId \notin VenueId
ASSUME EpsilonAssumption == Epsilon \in Nat

------------------------------------------------------------------------------
(* Statuses *)

TERMINAL_ORDER_STATES ==
    {"FILLED", "CANCELED", "REJECTED", "FAILED", "BLOCKED", "DRY_RUN", "EXPIRED"}

OPEN_ORDER_STATES ==
    {"CREATED", "SUBMITTING", "SUBMITTED", "PARTIALLY_FILLED", "CANCEL_PENDING"}

OrderLifecycleStatus == TERMINAL_ORDER_STATES \cup OPEN_ORDER_STATES

ALLOWED_TRANSITIONS ==
    [s \in OrderLifecycleStatus |->
        {s} \cup
        CASE s = "CREATED" ->
                {"SUBMITTING", "CANCEL_PENDING", "CANCELED", "BLOCKED",
                 "FAILED", "REJECTED", "DRY_RUN"}
          [] s = "SUBMITTING" ->
                {"SUBMITTED", "PARTIALLY_FILLED", "FILLED", "CANCEL_PENDING",
                 "CANCELED", "REJECTED", "FAILED", "BLOCKED", "DRY_RUN"}
          [] s = "SUBMITTED" ->
                {"PARTIALLY_FILLED", "FILLED", "CANCEL_PENDING", "CANCELED",
                 "FAILED", "EXPIRED"}
          [] s = "PARTIALLY_FILLED" ->
                {"FILLED", "CANCEL_PENDING", "CANCELED", "FAILED", "EXPIRED"}
          [] s = "CANCEL_PENDING" ->
                {"CANCELED", "FILLED", "FAILED", "EXPIRED"}
          [] OTHER -> {}]

STATE_PRIORITY ==
    [s \in OrderLifecycleStatus |->
        CASE s = "CREATED"          -> 0
          [] s = "SUBMITTING"       -> 1
          [] s = "SUBMITTED"        -> 2
          [] s = "PARTIALLY_FILLED" -> 3
          [] s = "CANCEL_PENDING"   -> 4
          [] OTHER                  -> 5]

(* execution_error: absent, one of the two "unknown, check the exchange"   *)
(* markers a write of unknown outcome leaves, or any other error.          *)
ExecutionError == {"none", "submission_unknown", "cancel_unknown", "other"}

OrderState ==
    [status            : OrderLifecycleStatus,
     exchange_order_id : VenueId \cup {NoVenueId},
     requested_qty     : Int,
     filled_qty        : Int,
     remaining_qty     : Int,
     fees              : Int,
     execution_error   : ExecutionError]

------------------------------------------------------------------------------
(* Helpers *)

Least(a, b)    == IF a <= b THEN a ELSE b
Greatest(a, b) == IF a >= b THEN a ELSE b

is_terminal(status) == status \in TERMINAL_ORDER_STATES

(* Mutant: the priorities decide alone, the table of transitions is not    *)
(* asked.                                                                  *)
validate_by_priority(current_status, next_status) ==
    IF STATE_PRIORITY[next_status] < STATE_PRIORITY[current_status]
    THEN "status_regression" ELSE "valid_transition"

validate_transition(current_status, next_status) ==
    CASE next_status = current_status -> "idempotent"
      [] /\ next_status # current_status
         /\ next_status \in ALLOWED_TRANSITIONS[current_status] -> "valid_transition"
      [] /\ next_status \notin ALLOWED_TRANSITIONS[current_status]
         /\ STATE_PRIORITY[next_status] < STATE_PRIORITY[current_status]
            -> "status_regression"
      [] OTHER -> "invalid_transition"

(* Mutant: a status regression is taken like any other transition.         *)
AcceptRegression(reason) ==
    reason \in {"idempotent", "valid_transition", "status_regression"}

accepted(reason) == reason \in {"idempotent", "valid_transition"}

FullyFilled(filled_qty, requested_qty) ==
    filled_qty >= requested_qty - Epsilon /\ requested_qty > 0

------------------------------------------------------------------------------
(* merge and its parts *)

(* Mutant: the clamp alone; a full fill keeps the status it came with.     *)
NormalizeClamps(state) ==
    [state EXCEPT !.filled_qty = Least(Greatest(@, 0), state.requested_qty),
                  !.remaining_qty = Greatest(Least(@, state.requested_qty), 0)]

(* Clamp the quantities; a full fill overrides whatever status was given.  *)
Normalize(state) ==
    LET filled   == Least(Greatest(state.filled_qty, 0), state.requested_qty)
        leftover == Greatest(Least(state.remaining_qty, state.requested_qty), 0)
        full     == FullyFilled(filled, state.requested_qty)
        partial  == /\ ~full
                    /\ state.status \in {"SUBMITTED", "PARTIALLY_FILLED"}
                    /\ filled > Epsilon
    IN  [state EXCEPT
            !.status = CASE full -> "FILLED"
                         [] partial -> "PARTIALLY_FILLED"
                         [] OTHER -> @,
            !.filled_qty = filled,
            !.remaining_qty = CASE full -> 0
                                [] partial -> Greatest(state.requested_qty - filled, 0)
                                [] OTHER -> leftover]

(* Mutant: the wrong column of the snapshot is copied.                     *)
ErrorFromStatus(current, incoming) ==
    IF incoming.execution_error # "none" THEN incoming.status ELSE "none"

(* Mutant: the error of the newest snapshot is taken as it is.             *)
NewestError(current, incoming) == incoming.execution_error

(* An "unknown" marker is dropped only when the snapshot brings evidence.  *)
MergeExecutionError(current, incoming) ==
    LET evidence ==
            CASE current.execution_error = "submission_unknown" ->
                    \/ /\ incoming.exchange_order_id # NoVenueId
                       /\ incoming.exchange_order_id # current.exchange_order_id
                    \/ incoming.status \in {"PARTIALLY_FILLED", "FILLED", "CANCELED",
                                            "EXPIRED", "REJECTED", "FAILED"}
              [] current.execution_error = "cancel_unknown" ->
                    incoming.status \in {"CANCELED", "FILLED", "EXPIRED", "FAILED"}
              [] OTHER -> FALSE
    IN  CASE incoming.execution_error # "none" -> incoming.execution_error
          [] incoming.execution_error = "none" /\ evidence -> "none"
          [] OTHER -> current.execution_error

(* Mutant: the reported remainder is believed.                             *)
RemainingReported(qty, floor) == IF qty >= 0 THEN qty ELSE floor

RemainingCandidate(qty, floor) == IF qty >= 0 THEN Least(floor, qty) ELSE floor

(* Mutant: the newest snapshot wins, also over larger fills.               *)
MergeNewestWins(current, incoming) ==
    Normalize([incoming EXCEPT
        !.exchange_order_id = IF @ = NoVenueId THEN current.exchange_order_id ELSE @])

(* merge of a snapshot whose status is accepted.                           *)
MergeAccepted(current, incoming) ==
    LET requested == IF incoming.requested_qty > 0
                     THEN incoming.requested_qty ELSE current.requested_qty
        filled    == Least(Greatest(current.filled_qty, incoming.filled_qty), requested)
        leftover  == RemainingCandidate(incoming.remaining_qty,
                        RemainingCandidate(current.remaining_qty,
                            Greatest(requested - filled, 0)))
    IN  Normalize(
          [incoming EXCEPT
            !.exchange_order_id = IF @ = NoVenueId THEN current.exchange_order_id ELSE @,
            !.requested_qty     = requested,
            !.filled_qty        = filled,
            !.remaining_qty     = leftover,
            !.fees              = Greatest(current.fees, @),
            !.execution_error   = MergeExecutionError(current, incoming)])

(* merge of a snapshot whose status is refused: the status stays and only  *)
(* later fills (or fees), or else an execution error, are taken over.  The *)
(* call back into merge is always accepted, since its status is current's. *)
MergeWithoutRegression(current, incoming) ==
    IF incoming.filled_qty > current.filled_qty \/ incoming.fees > current.fees
    THEN MergeAccepted(current,
            [current EXCEPT !.filled_qty    = incoming.filled_qty,
                            !.remaining_qty = incoming.remaining_qty,
                            !.fees          = incoming.fees])
    ELSE [current EXCEPT
            !.execution_error = IF incoming.execution_error # "none"
                                THEN incoming.execution_error ELSE @]

Merge(current, incoming) ==
    IF accepted(validate_transition(current.status, incoming.status))
    THEN MergeAccepted(current, incoming)
    ELSE MergeWithoutRegression(current, incoming)

==============================================================================
