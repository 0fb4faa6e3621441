--------------------------- MODULE MC_OrderStore -----------------------------
(* The order row under every snapshot over small quantities: two sizes (the*)
(* intent's and the size rounded to the venue's lot), two exchange ids.    *)
EXTENDS OrderStore

CONSTANTS Sizes, Fills, Fees

MC_FirstSnapshot ==
    {[status |-> s, exchange_order_id |-> NoVenueId, requested_qty |-> q,
      filled_qty |-> 0, remaining_qty |-> q, fees |-> 0, execution_error |-> e] :
        s \in {"CREATED", "BLOCKED", "DRY_RUN"}, q \in Sizes, e \in {"none", "other"}}

MC_Snapshot ==
    {[status |-> s, exchange_order_id |-> v, requested_qty |-> q,
      filled_qty |-> f, remaining_qty |-> Greatest(q - f, 0), fees |-> c,
      execution_error |-> e] :
        s \in OrderLifecycleStatus, v \in VenueId \cup {NoVenueId},
        q \in Sizes, f \in Fills, c \in Fees, e \in ExecutionError}

==============================================================================
