-------------------------- MODULE OrderMergeProofs ---------------------------
(***************************************************************************)
(* What merging a snapshot into an order row keeps, for every snapshot:    *)
(* the type of the row, and that an order which has ended has ended.       *)
(***************************************************************************)
EXTENDS OrderRepository, TLAPS

(* What remains of an order is never more than the floor it is capped by.  *)
LEMMA RemainingBounds ==
    ASSUME NEW q \in Int, NEW f \in Int, f >= 0
    PROVE  /\ RemainingCandidate(q, f) \in Int
           /\ 0 <= RemainingCandidate(q, f)
           /\ RemainingCandidate(q, f) <= f
  BY DEF RemainingCandidate, Least

(* The fields of a normalized snapshot, one by one (_normalize).           *)
LEMMA NormalizeFields ==
    ASSUME NEW s \in OrderState
    PROVE  LET n == Normalize(s) IN
           /\ n \in OrderState
           /\ n.exchange_order_id = s.exchange_order_id
           /\ n.requested_qty = s.requested_qty
           /\ n.filled_qty = Least(Greatest(s.filled_qty, 0), s.requested_qty)
           /\ n.fees = s.fees
           /\ n.execution_error = s.execution_error
           /\ FullyFilled(n.filled_qty, n.requested_qty)
                => n.status = "FILLED" /\ n.remaining_qty = 0
           /\ ~FullyFilled(n.filled_qty, n.requested_qty)
                => /\ \/ n.status = s.status
                      \/ s.status = "SUBMITTED" /\ n.status = "PARTIALLY_FILLED"
                   /\ \/ n.remaining_qty = Greatest(n.requested_qty - n.filled_qty, 0)
                      \/ n.remaining_qty = Greatest(Least(s.remaining_qty, s.requested_qty), 0)
<1> DEFINE filled   == Least(Greatest(s.filled_qty, 0), s.requested_qty)
           leftover == Greatest(Least(s.remaining_qty, s.requested_qty), 0)
           full     == FullyFilled(filled, s.requested_qty)
           partial  == /\ ~full
                       /\ s.status \in {"SUBMITTED", "PARTIALLY_FILLED"}
                       /\ filled > Epsilon
           stat     == CASE full -> "FILLED" [] partial -> "PARTIALLY_FILLED"
                         [] OTHER -> s.status
           rest     == CASE full -> 0
                         [] partial -> Greatest(s.requested_qty - filled, 0)
                         [] OTHER -> leftover
<1>1. s.requested_qty \in Int /\ s.filled_qty \in Int /\ s.remaining_qty \in Int
      /\ s.status \in OrderLifecycleStatus
  BY DEF OrderState
<1>2. filled \in Int /\ leftover \in Int
  BY <1>1 DEF Least, Greatest
<1>3. Normalize(s) = [s EXCEPT !.status = stat, !.filled_qty = filled,
                               !.remaining_qty = rest]
  BY DEF Normalize
<1>4. stat \in OrderLifecycleStatus
  BY <1>1 DEF OrderLifecycleStatus, TERMINAL_ORDER_STATES, OPEN_ORDER_STATES
<1>5. Greatest(s.requested_qty - filled, 0) \in Int
  BY <1>1, <1>2 DEF Greatest
<1>6. rest \in Int
  BY <1>2, <1>5
<1>7. full => stat = "FILLED" /\ rest = 0
  OBVIOUS
<1>8. ~full => /\ stat = s.status \/ (s.status = "SUBMITTED" /\ stat = "PARTIALLY_FILLED")
               /\ rest = Greatest(s.requested_qty - filled, 0) \/ rest = leftover
  OBVIOUS
<1> HIDE DEF filled, leftover, full, partial, stat, rest
<1>9. /\ Normalize(s) \in OrderState
      /\ Normalize(s).exchange_order_id = s.exchange_order_id
      /\ Normalize(s).requested_qty = s.requested_qty
      /\ Normalize(s).filled_qty = filled
      /\ Normalize(s).remaining_qty = rest
      /\ Normalize(s).status = stat
      /\ Normalize(s).fees = s.fees
      /\ Normalize(s).execution_error = s.execution_error
  BY <1>2, <1>3, <1>4, <1>6 DEF OrderState
<1> QED
  BY <1>7, <1>8, <1>9 DEF full, filled, leftover

(* The snapshot that merge hands to _normalize.                            *)
MergedFields(current, incoming) ==
    LET requested == IF incoming.requested_qty > 0
                     THEN incoming.requested_qty ELSE current.requested_qty
        filled    == Least(Greatest(current.filled_qty, incoming.filled_qty), requested)
        leftover  == RemainingCandidate(incoming.remaining_qty,
                        RemainingCandidate(current.remaining_qty,
                            Greatest(requested - filled, 0)))
    IN  [incoming EXCEPT
            !.exchange_order_id = IF @ = NoVenueId THEN current.exchange_order_id ELSE @,
            !.requested_qty     = requested,
            !.filled_qty        = filled,
            !.remaining_qty     = leftover,
            !.fees              = Greatest(current.fees, @),
            !.execution_error   = MergeExecutionError(current, incoming)]

(* The merged error is one of the errors a snapshot can carry.             *)
LEMMA MergeExecutionErrorType ==
    ASSUME NEW c \in OrderState, NEW i \in OrderState
    PROVE  MergeExecutionError(c, i) \in ExecutionError
<1>1. c.execution_error \in ExecutionError /\ i.execution_error \in ExecutionError
  BY DEF OrderState
<1> QED
  BY <1>1 DEF MergeExecutionError, ExecutionError

(* The transition table and the priorities fit: an allowed step never goes *)
(* down, a terminal status allows itself only.                             *)
LEMMA TransitionTable ==
    ASSUME NEW s \in OrderLifecycleStatus, NEW t \in ALLOWED_TRANSITIONS[s]
    PROVE  /\ STATE_PRIORITY[t] >= STATE_PRIORITY[s]
           /\ STATE_PRIORITY[t] \in Int /\ STATE_PRIORITY[s] \in Int
           /\ is_terminal(s) => t = s
           /\ t = "SUBMITTED" => "PARTIALLY_FILLED" \in ALLOWED_TRANSITIONS[s]
           /\ STATE_PRIORITY["FILLED"] >= STATE_PRIORITY[s]
  BY SMTT(60) DEF ALLOWED_TRANSITIONS, STATE_PRIORITY, OrderLifecycleStatus,
                  TERMINAL_ORDER_STATES, OPEN_ORDER_STATES, is_terminal

(* The merged fields are those of a snapshot of the incoming status.       *)
LEMMA MergedFieldsType ==
    ASSUME NEW c \in OrderState, NEW i \in OrderState
    PROVE  MergedFields(c, i) \in OrderState /\ MergedFields(c, i).status = i.status
<1> DEFINE requested == IF i.requested_qty > 0 THEN i.requested_qty ELSE c.requested_qty
           filled    == Least(Greatest(c.filled_qty, i.filled_qty), requested)
           cap       == Greatest(requested - filled, 0)
           inner     == RemainingCandidate(c.remaining_qty, cap)
           leftover  == RemainingCandidate(i.remaining_qty, inner)
           vid       == IF i.exchange_order_id = NoVenueId THEN c.exchange_order_id
                                                           ELSE i.exchange_order_id
           fee       == Greatest(c.fees, i.fees)
           err       == MergeExecutionError(c, i)
<1>1. /\ c.requested_qty \in Int /\ c.filled_qty \in Int /\ c.remaining_qty \in Int
      /\ i.requested_qty \in Int /\ i.filled_qty \in Int /\ i.remaining_qty \in Int
      /\ c.fees \in Int /\ i.fees \in Int
      /\ c.exchange_order_id \in VenueId \cup {NoVenueId}
      /\ i.exchange_order_id \in VenueId \cup {NoVenueId}
  BY DEF OrderState
<1>2. requested \in Int /\ filled \in Int
  BY <1>1 DEF Least, Greatest
<1> HIDE DEF requested, filled
<1>3. cap \in Int
  BY <1>2 DEF Greatest
<1> HIDE DEF cap
<1>4. inner \in Int
  BY <1>1, <1>3 DEF RemainingCandidate, Least
<1> HIDE DEF inner
<1>5. leftover \in Int /\ fee \in Int
  BY <1>1, <1>4 DEF RemainingCandidate, Least, Greatest
<1>6. vid \in VenueId \cup {NoVenueId} /\ err \in ExecutionError
  BY <1>1, MergeExecutionErrorType
<1> HIDE DEF leftover, fee, vid, err
<1>7. MergedFields(c, i) =
          [i EXCEPT !.exchange_order_id = vid, !.requested_qty = requested,
                    !.filled_qty = filled, !.remaining_qty = leftover,
                    !.fees = fee, !.execution_error = err]
  BY DEF MergedFields, vid, requested, filled, leftover, inner, cap, fee, err
<1> QED
  BY <1>2, <1>5, <1>6, <1>7 DEF OrderState

(* Normalizing does not reopen an order.                                   *)
LEMMA NormalizeEnds ==
    ASSUME NEW s \in OrderState
    PROVE  /\ Normalize(s) \in OrderState
           /\ is_terminal(s.status) => is_terminal(Normalize(s).status)
<1> DEFINE n == Normalize(s)
<1>1. /\ n \in OrderState
      /\ n.status = "FILLED" \/ n.status = s.status
           \/ (s.status = "SUBMITTED" /\ n.status = "PARTIALLY_FILLED")
  BY NormalizeFields
<1> HIDE DEF n
<1>2. is_terminal(s.status) => is_terminal(n.status)
  BY <1>1 DEF is_terminal, TERMINAL_ORDER_STATES
<1> QED BY <1>1, <1>2 DEF n

(* An accepted snapshot that ends the order leaves it ended.               *)
LEMMA MergeAcceptedEnds ==
    ASSUME NEW c \in OrderState, NEW i \in OrderState
    PROVE  /\ MergeAccepted(c, i) \in OrderState
           /\ is_terminal(i.status) => is_terminal(MergeAccepted(c, i).status)
<1>1. MergeAccepted(c, i) = Normalize(MergedFields(c, i))
  BY DEF MergeAccepted, MergedFields
<1> QED BY <1>1, MergedFieldsType, NormalizeEnds

(* No merge reopens an order that has ended, and one that is not refused   *)
(* ends it when the snapshot says so.                                      *)
LEMMA MergeEnds ==
    ASSUME NEW c \in OrderState, NEW i \in OrderState
    PROVE  /\ Merge(c, i) \in OrderState
           /\ is_terminal(c.status) => is_terminal(Merge(c, i).status)
           /\ /\ is_terminal(i.status)
              /\ validate_transition(c.status, i.status) # "invalid_transition"
              => is_terminal(Merge(c, i).status)
<1>1. /\ c.status \in OrderLifecycleStatus /\ i.status \in OrderLifecycleStatus
      /\ i.execution_error \in ExecutionError
      /\ i.filled_qty \in Int /\ i.remaining_qty \in Int /\ i.fees \in Int
  BY DEF OrderState
<1>2. CASE accepted(validate_transition(c.status, i.status))
  <2>1. i.status = c.status \/ i.status \in ALLOWED_TRANSITIONS[c.status]
    BY <1>2 DEF accepted, validate_transition
  <2>2. is_terminal(c.status) => i.status = c.status
    BY <1>1, <2>1, TransitionTable
  <2>3. Merge(c, i) = MergeAccepted(c, i)
    BY <1>2 DEF Merge
  <2> QED BY <2>2, <2>3, MergeAcceptedEnds
<1>3. CASE ~accepted(validate_transition(c.status, i.status))
  <2> DEFINE j == [c EXCEPT !.filled_qty = i.filled_qty,
                            !.remaining_qty = i.remaining_qty, !.fees = i.fees]
             e == [c EXCEPT !.execution_error = IF i.execution_error # "none"
                                                THEN i.execution_error ELSE @]
  <2>1. j \in OrderState /\ j.status = c.status /\ e \in OrderState /\ e.status = c.status
    BY <1>1 DEF OrderState
  <2>2. Merge(c, i) \in {MergeAccepted(c, j), e}
    BY <1>3 DEF Merge, MergeWithoutRegression
  <2> HIDE DEF j, e
  <2>3. MergeAccepted(c, j) \in OrderState
        /\ (is_terminal(c.status) => is_terminal(MergeAccepted(c, j).status))
    BY <2>1, MergeAcceptedEnds
  <2>4. Merge(c, i) \in OrderState
        /\ (is_terminal(c.status) => is_terminal(Merge(c, i).status))
    BY <2>1, <2>2, <2>3
  <2>5. is_terminal(i.status)
        => validate_transition(c.status, i.status) # "status_regression"
    BY <1>1 DEF is_terminal, validate_transition, STATE_PRIORITY,
                OrderLifecycleStatus, TERMINAL_ORDER_STATES, OPEN_ORDER_STATES
  <2>6. validate_transition(c.status, i.status) \in {"status_regression", "invalid_transition"}
    BY <1>3 DEF accepted, validate_transition
  <2> QED BY <2>4, <2>5, <2>6
<1> QED BY <1>2, <1>3

(* A save keeps the type of the row, never reopens an order, and ends one  *)
(* whose snapshot has ended.                                               *)
LEMMA SaveEnds ==
    ASSUME NEW r \in OrderState \cup {NoRow}, NEW i \in OrderState
    PROVE  /\ SaveResult(r, i) \in OrderState
           /\ r # NoRow /\ IsOpen(SaveResult(r, i)) => IsOpen(r)
           /\ ~SaveRaises(r, i) /\ is_terminal(i.status) => ~IsOpen(SaveResult(r, i))
<1>1. CASE r = NoRow
  BY <1>1, NormalizeEnds, NoRowAssumption DEF SaveResult, IsOpen
<1>2. CASE r # NoRow
  <2>1. r \in OrderState /\ SaveResult(r, i) = Merge(r, i)
    BY <1>2 DEF SaveResult
  <2> QED BY <1>2, <2>1, MergeEnds DEF SaveRaises, IsOpen
<1> QED BY <1>1, <1>2

(* The fields an accepted snapshot is merged to, one by one.               *)
LEMMA MergedFieldsValues ==
    ASSUME NEW c \in OrderState, NEW i \in OrderState
    PROVE  LET m == MergedFields(c, i) IN
           /\ m.requested_qty = IF i.requested_qty > 0 THEN i.requested_qty
                                                      ELSE c.requested_qty
           /\ m.filled_qty = Least(Greatest(c.filled_qty, i.filled_qty), m.requested_qty)
           /\ m.exchange_order_id = IF i.exchange_order_id = NoVenueId
                                    THEN c.exchange_order_id ELSE i.exchange_order_id
           /\ m.execution_error \in {"none", i.execution_error, c.execution_error}
<1>1. MergeExecutionError(c, i) \in {"none", i.execution_error, c.execution_error}
  BY DEF MergeExecutionError
<1> QED BY <1>1 DEF MergedFields, OrderState

(* What a snapshot taken over by the row makes of it: the row shows the    *)
(* snapshot's status, or that of a fill, its size, and no larger fill than *)
(* the row and the snapshot.                                               *)
LEMMA MergeAcceptedValues ==
    ASSUME NEW c \in OrderState, NEW i \in OrderState
    PROVE  LET s == MergeAccepted(c, i) IN
           /\ \/ s.status = i.status
              \/ i.status = "SUBMITTED" /\ s.status = "PARTIALLY_FILLED"
              \/ s.status = "FILLED" /\ FullyFilled(s.filled_qty, s.requested_qty)
           /\ s.requested_qty = IF i.requested_qty > 0 THEN i.requested_qty
                                                      ELSE c.requested_qty
           /\ s.filled_qty <= i.filled_qty \/ s.filled_qty <= c.filled_qty
                \/ s.filled_qty <= 0
           /\ s.exchange_order_id = IF i.exchange_order_id = NoVenueId
                                    THEN c.exchange_order_id ELSE i.exchange_order_id
           /\ s.execution_error \in {"none", i.execution_error, c.execution_error}
<1> DEFINE m == MergedFields(c, i)
           s == MergeAccepted(c, i)
<1>1. s = Normalize(m)
  BY DEF MergeAccepted, MergedFields
<1>2. m \in OrderState /\ m.status = i.status
  BY MergedFieldsType
<1>3. /\ m.requested_qty = IF i.requested_qty > 0 THEN i.requested_qty ELSE c.requested_qty
      /\ m.filled_qty = Least(Greatest(c.filled_qty, i.filled_qty), m.requested_qty)
      /\ m.exchange_order_id = IF i.exchange_order_id = NoVenueId
                               THEN c.exchange_order_id ELSE i.exchange_order_id
      /\ m.execution_error \in {"none", i.execution_error, c.execution_error}
  BY MergedFieldsValues
<1> HIDE DEF m
<1>4. /\ s \in OrderState
      /\ s.exchange_order_id = m.exchange_order_id /\ s.requested_qty = m.requested_qty
      /\ s.execution_error = m.execution_error
      /\ s.filled_qty = Least(Greatest(m.filled_qty, 0), m.requested_qty)
      /\ FullyFilled(s.filled_qty, s.requested_qty) => s.status = "FILLED"
      /\ ~FullyFilled(s.filled_qty, s.requested_qty)
           => s.status = m.status \/ (m.status = "SUBMITTED" /\ s.status = "PARTIALLY_FILLED")
  BY <1>1, <1>2, NormalizeFields
<1>5. /\ m.filled_qty \in Int /\ m.requested_qty \in Int
      /\ c.filled_qty \in Int /\ i.filled_qty \in Int
  BY <1>2 DEF OrderState
<1> HIDE DEF s
<1>6. s.filled_qty <= i.filled_qty \/ s.filled_qty <= c.filled_qty \/ s.filled_qty <= 0
  BY <1>3, <1>4, <1>5 DEF Least, Greatest
<1> QED BY <1>2, <1>3, <1>4, <1>6 DEF s

(* The same for a save, whether the row takes the snapshot over or keeps   *)
(* its status.                                                             *)
LEMMA SaveValues ==
    ASSUME NEW r \in OrderState \cup {NoRow}, NEW i \in OrderState
    PROVE  LET s     == SaveResult(r, i)
               taken == r = NoRow \/ accepted(validate_transition(r.status, i.status))
               from  == IF taken THEN i.status ELSE r.status
           IN  /\ s \in OrderState
               /\ \/ s.status = from
                  \/ from = "SUBMITTED" /\ s.status = "PARTIALLY_FILLED"
                  \/ s.status = "FILLED" /\ FullyFilled(s.filled_qty, s.requested_qty)
               /\ s.requested_qty = IF taken /\ (r = NoRow \/ i.requested_qty > 0)
                                    THEN i.requested_qty ELSE r.requested_qty
               /\ \/ s.filled_qty <= i.filled_qty \/ s.filled_qty <= 0
                  \/ r # NoRow /\ s.filled_qty <= r.filled_qty
               /\ s.exchange_order_id = i.exchange_order_id
                    \/ (r # NoRow /\ s.exchange_order_id = r.exchange_order_id)
               /\ ~taken => s.exchange_order_id = r.exchange_order_id
               /\ s.execution_error \in {"none", i.execution_error}
                    \/ (r # NoRow /\ s.execution_error = r.execution_error)
<1>1. CASE r = NoRow
  <2> DEFINE s == Normalize(i)
  <2>1. SaveResult(r, i) = s
    BY <1>1 DEF SaveResult
  <2>2. /\ s \in OrderState
        /\ s.exchange_order_id = i.exchange_order_id /\ s.requested_qty = i.requested_qty
        /\ s.execution_error = i.execution_error
        /\ s.filled_qty = Least(Greatest(i.filled_qty, 0), i.requested_qty)
        /\ FullyFilled(s.filled_qty, s.requested_qty) => s.status = "FILLED"
        /\ ~FullyFilled(s.filled_qty, s.requested_qty)
             => s.status = i.status \/ (i.status = "SUBMITTED" /\ s.status = "PARTIALLY_FILLED")
    BY NormalizeFields
  <2>3. i.filled_qty \in Int /\ i.requested_qty \in Int
    BY DEF OrderState
  <2> HIDE DEF s
  <2>4. s.filled_qty <= i.filled_qty \/ s.filled_qty <= 0
    BY <2>2, <2>3 DEF Least, Greatest
  <2> QED BY <1>1, <2>1, <2>2, <2>4
<1>2. CASE r # NoRow /\ accepted(validate_transition(r.status, i.status))
  <2>1. r \in OrderState /\ SaveResult(r, i) = MergeAccepted(r, i)
    BY <1>2 DEF SaveResult, Merge
  <2>2. MergeAccepted(r, i) \in OrderState
    BY <2>1, MergeAcceptedEnds
  <2> QED BY <1>2, <2>1, <2>2, MergeAcceptedValues
<1>3. CASE r # NoRow /\ ~accepted(validate_transition(r.status, i.status))
  <2> DEFINE j == [r EXCEPT !.filled_qty = i.filled_qty,
                            !.remaining_qty = i.remaining_qty, !.fees = i.fees]
             e == [r EXCEPT !.execution_error = IF i.execution_error # "none"
                                                THEN i.execution_error ELSE @]
  <2>1. r \in OrderState
    BY <1>3
  <2>2. /\ j \in OrderState /\ j.status = r.status /\ j.requested_qty = r.requested_qty
        /\ j.filled_qty = i.filled_qty /\ j.exchange_order_id = r.exchange_order_id
        /\ j.execution_error = r.execution_error
    BY <2>1 DEF OrderState
  <2>3. /\ e \in OrderState /\ e.status = r.status /\ e.requested_qty = r.requested_qty
        /\ e.filled_qty = r.filled_qty /\ e.exchange_order_id = r.exchange_order_id
        /\ e.execution_error \in {i.execution_error, r.execution_error}
    BY <2>1 DEF OrderState
  <2>4. SaveResult(r, i) \in {MergeAccepted(r, j), e}
    BY <1>3 DEF SaveResult, Merge, MergeWithoutRegression
  <2>5. r.filled_qty \in Int /\ r.requested_qty \in Int
    BY <2>1 DEF OrderState
  <2> HIDE DEF j, e
  <2>6. CASE SaveResult(r, i) = e
    BY <1>3, <2>3, <2>5, <2>6
  <2>7. CASE SaveResult(r, i) = MergeAccepted(r, j)
    <3> DEFINE s == MergeAccepted(r, j)
    <3>1. s \in OrderState
      BY <2>1, <2>2, MergeAcceptedEnds
    <3>2. /\ \/ s.status = r.status
             \/ r.status = "SUBMITTED" /\ s.status = "PARTIALLY_FILLED"
             \/ s.status = "FILLED" /\ FullyFilled(s.filled_qty, s.requested_qty)
          /\ s.requested_qty = r.requested_qty
          /\ s.filled_qty <= i.filled_qty \/ s.filled_qty <= r.filled_qty
               \/ s.filled_qty <= 0
          /\ s.exchange_order_id = r.exchange_order_id
          /\ s.execution_error \in {"none", r.execution_error}
      BY <2>1, <2>2, MergeAcceptedValues
    <3> HIDE DEF s
    <3> QED BY <1>3, <2>7, <3>1, <3>2 DEF s
  <2> QED BY <2>4, <2>6, <2>7
<1> QED BY <1>1, <1>2, <1>3

==============================================================================
