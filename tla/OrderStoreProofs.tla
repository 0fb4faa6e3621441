-------------------------- MODULE OrderStoreProofs ---------------------------
(***************************************************************************)
(* The safety of the persisted order row, proved for every set of exchange *)
(* ids, every tolerance and every set of snapshots: the merge keeps the    *)
(* type, the quantities and the meaning of FILLED, and a row only moves    *)
(* forward.                                                                *)
(***************************************************************************)
EXTENDS OrderStore, OrderMergeProofs

(* The facts about one snapshot that every save keeps: it is one order of  *)
(* positive size, and filled to its size means FILLED.                     *)
Sound(s) ==
    /\ s.requested_qty > 0
    /\ s.filled_qty >= 0
    /\ s.remaining_qty >= 0
    /\ s.filled_qty + s.remaining_qty <= s.requested_qty
    /\ FullyFilled(s.filled_qty, s.requested_qty)
         => s.status = "FILLED" /\ s.remaining_qty = 0

(* Normalizing a snapshot whose quantities fit together makes it sound.    *)
LEMMA NormalizeSound ==
    ASSUME NEW s \in OrderState,
           s.requested_qty > 0, s.filled_qty >= 0, s.remaining_qty >= 0,
           s.filled_qty <= s.requested_qty,
           s.filled_qty + s.remaining_qty <= s.requested_qty
    PROVE  Sound(Normalize(s)) /\ Normalize(s).filled_qty = s.filled_qty
<1>1. s.requested_qty \in Int /\ s.filled_qty \in Int /\ s.remaining_qty \in Int
  BY DEF OrderState
<1>2. Least(Greatest(s.filled_qty, 0), s.requested_qty) = s.filled_qty
  BY <1>1 DEF Least, Greatest
<1>3. Greatest(Least(s.remaining_qty, s.requested_qty), 0) = s.remaining_qty
  BY <1>1 DEF Least, Greatest
<1>4. Greatest(s.requested_qty - s.filled_qty, 0) = s.requested_qty - s.filled_qty
  BY <1>1 DEF Greatest
<1> DEFINE n == Normalize(s)
<1>5. /\ n.requested_qty = s.requested_qty
      /\ n.filled_qty = s.filled_qty
      /\ FullyFilled(n.filled_qty, n.requested_qty)
           => n.status = "FILLED" /\ n.remaining_qty = 0
      /\ ~FullyFilled(n.filled_qty, n.requested_qty)
           => \/ n.remaining_qty = s.requested_qty - s.filled_qty
              \/ n.remaining_qty = s.remaining_qty
  BY <1>2, <1>3, <1>4, NormalizeFields
<1> HIDE DEF n
<1>6. /\ n.requested_qty > 0 /\ n.filled_qty >= 0 /\ n.remaining_qty >= 0
      /\ n.filled_qty + n.remaining_qty <= n.requested_qty
  BY <1>1, <1>5
<1> QED
  BY <1>5, <1>6 DEF Sound, n

(* The fields merge computes before it normalizes them: the fills are the  *)
(* larger ones, the quantities fit together.                               *)
LEMMA MergedFieldsFacts ==
    ASSUME NEW c \in OrderState, NEW i \in OrderState, Sound(c)
    PROVE  LET m == MergedFields(c, i) IN
           /\ m \in OrderState
           /\ m.status = i.status
           /\ m.exchange_order_id =
                 IF i.exchange_order_id = NoVenueId THEN c.exchange_order_id
                                                    ELSE i.exchange_order_id
           /\ m.requested_qty = IF i.requested_qty > 0 THEN i.requested_qty
                                                       ELSE c.requested_qty
           /\ m.filled_qty = Least(Greatest(c.filled_qty, i.filled_qty), m.requested_qty)
           /\ m.execution_error = MergeExecutionError(c, i)
           /\ m.requested_qty > 0 /\ m.filled_qty >= 0 /\ m.remaining_qty >= 0
           /\ m.filled_qty <= m.requested_qty
           /\ m.filled_qty + m.remaining_qty <= m.requested_qty
<1> DEFINE requested == IF i.requested_qty > 0 THEN i.requested_qty ELSE c.requested_qty
           filled    == Least(Greatest(c.filled_qty, i.filled_qty), requested)
           cap       == Greatest(requested - filled, 0)
           inner     == RemainingCandidate(c.remaining_qty, cap)
           leftover  == RemainingCandidate(i.remaining_qty, inner)
           vid       == IF i.exchange_order_id = NoVenueId THEN c.exchange_order_id
                                                           ELSE i.exchange_order_id
           fee       == Greatest(c.fees, i.fees)
           err       == MergeExecutionError(c, i)
<1>1. /\ c.requested_qty \in Int /\ c.filled_qty \in Int /\ c.remaining_qty \in Int
      /\ i.requested_qty \in Int /\ i.filled_qty \in Int /\ i.remaining_qty \in Int
      /\ c.fees \in Int /\ i.fees \in Int
      /\ c.exchange_order_id \in VenueId \cup {NoVenueId}
      /\ i.exchange_order_id \in VenueId \cup {NoVenueId}
  BY DEF OrderState
<1>2. requested \in Int /\ requested > 0
  BY <1>1 DEF Sound
<1>3. filled \in Int /\ filled >= 0 /\ filled <= requested
  BY <1>1, <1>2 DEF Least, Greatest, Sound
<1> HIDE DEF requested, filled
<1>4. cap \in Int /\ cap = requested - filled /\ cap >= 0
  BY <1>2, <1>3 DEF Greatest
<1> HIDE DEF cap
<1>5. inner \in Int /\ 0 <= inner /\ inner <= cap
  BY <1>1, <1>4, RemainingBounds
<1> HIDE DEF inner
<1>6. leftover \in Int /\ 0 <= leftover /\ leftover <= inner
  BY <1>1, <1>5, RemainingBounds
<1> HIDE DEF leftover
<1>7. fee \in Int
  BY <1>1 DEF Greatest
<1>8. vid \in VenueId \cup {NoVenueId}
  BY <1>1
<1>9. err \in ExecutionError
  BY MergeExecutionErrorType
<1> HIDE DEF fee, vid, err
<1>10. MergedFields(c, i) =
          [i EXCEPT !.exchange_order_id = vid, !.requested_qty = requested,
                    !.filled_qty = filled, !.remaining_qty = leftover,
                    !.fees = fee, !.execution_error = err]
  BY DEF MergedFields, vid, requested, filled, leftover, inner, cap, fee, err
<1> DEFINE m == MergedFields(c, i)
<1>11. /\ m \in OrderState
       /\ m.status = i.status
       /\ m.exchange_order_id = vid
       /\ m.requested_qty = requested
       /\ m.filled_qty = filled
       /\ m.remaining_qty = leftover
       /\ m.execution_error = err
  BY <1>2, <1>3, <1>6, <1>7, <1>8, <1>9, <1>10 DEF OrderState
<1> HIDE DEF m
<1>12. /\ m.requested_qty > 0 /\ m.filled_qty >= 0 /\ m.remaining_qty >= 0
       /\ m.filled_qty <= m.requested_qty
       /\ m.filled_qty + m.remaining_qty <= m.requested_qty
  BY <1>2, <1>3, <1>4, <1>5, <1>6, <1>11
<1>13. m.filled_qty = Least(Greatest(c.filled_qty, i.filled_qty), m.requested_qty)
  BY <1>11 DEF filled
<1> QED
  BY <1>11, <1>12, <1>13 DEF m, vid, requested, err

(* What merge makes of an accepted snapshot.                               *)
LEMMA MergeAcceptedFacts ==
    ASSUME NEW c \in OrderState, NEW i \in OrderState, Sound(c)
    PROVE  LET r == MergeAccepted(c, i) IN
           /\ r \in OrderState
           /\ Sound(r)
           /\ r.exchange_order_id =
                 IF i.exchange_order_id = NoVenueId THEN c.exchange_order_id
                                                    ELSE i.exchange_order_id
           /\ r.requested_qty = IF i.requested_qty > 0 THEN i.requested_qty
                                                       ELSE c.requested_qty
           /\ r.filled_qty = Least(Greatest(c.filled_qty, i.filled_qty), r.requested_qty)
           /\ r.execution_error = MergeExecutionError(c, i)
           /\ \/ r.status = i.status
              \/ i.status = "SUBMITTED" /\ r.status = "PARTIALLY_FILLED"
              \/ r.status = "FILLED" /\ FullyFilled(r.filled_qty, r.requested_qty)
<1> DEFINE m == MergedFields(c, i)
           r == MergeAccepted(c, i)
<1>1. r = Normalize(m)
  BY DEF MergeAccepted, MergedFields
<1>2. /\ m \in OrderState
      /\ m.status = i.status
      /\ m.exchange_order_id = IF i.exchange_order_id = NoVenueId
                               THEN c.exchange_order_id ELSE i.exchange_order_id
      /\ m.requested_qty = IF i.requested_qty > 0 THEN i.requested_qty
                                                  ELSE c.requested_qty
      /\ m.filled_qty = Least(Greatest(c.filled_qty, i.filled_qty), m.requested_qty)
      /\ m.execution_error = MergeExecutionError(c, i)
      /\ m.requested_qty > 0 /\ m.filled_qty >= 0 /\ m.remaining_qty >= 0
      /\ m.filled_qty <= m.requested_qty
      /\ m.filled_qty + m.remaining_qty <= m.requested_qty
  BY MergedFieldsFacts
<1> HIDE DEF m
<1>3. Sound(Normalize(m)) /\ Normalize(m).filled_qty = m.filled_qty
  BY <1>2, NormalizeSound
<1>4. /\ Normalize(m) \in OrderState
      /\ Normalize(m).exchange_order_id = m.exchange_order_id
      /\ Normalize(m).requested_qty = m.requested_qty
      /\ Normalize(m).execution_error = m.execution_error
      /\ \/ Normalize(m).status = m.status
         \/ m.status = "SUBMITTED" /\ Normalize(m).status = "PARTIALLY_FILLED"
         \/ /\ Normalize(m).status = "FILLED"
            /\ FullyFilled(Normalize(m).filled_qty, Normalize(m).requested_qty)
  BY <1>2, NormalizeFields
<1> HIDE DEF r
<1>5. /\ r.exchange_order_id = m.exchange_order_id
      /\ r.requested_qty = m.requested_qty
      /\ r.execution_error = m.execution_error
      /\ r.filled_qty = m.filled_qty
      /\ \/ r.status = m.status
         \/ m.status = "SUBMITTED" /\ r.status = "PARTIALLY_FILLED"
         \/ r.status = "FILLED" /\ FullyFilled(r.filled_qty, r.requested_qty)
  BY <1>1, <1>3, <1>4
<1>6. r \in OrderState /\ Sound(r)
  BY <1>1, <1>3, <1>4
<1> QED
  BY <1>2, <1>5, <1>6 DEF r

(* The statuses that are evidence about a submission of unknown outcome.   *)
Evidence == {"PARTIALLY_FILLED", "FILLED", "CANCELED", "EXPIRED", "REJECTED", "FAILED"}

(* What a save makes of a row, whether the status of the snapshot was      *)
(* accepted or refused: the facts every property below is read off from.   *)
MergeOutcome(c, i, r) ==
    /\ r \in OrderState
    /\ Sound(r)
    /\ r.filled_qty = Least(Greatest(c.filled_qty, i.filled_qty), r.requested_qty)
    /\ r.filled_qty >= c.filled_qty \/ r.status = "FILLED"
    /\ c.exchange_order_id # NoVenueId => r.exchange_order_id # NoVenueId
    /\ \/ r.status = c.status
       \/ r.status = "FILLED" /\ FullyFilled(r.filled_qty, r.requested_qty)
       \/ r.status \in ALLOWED_TRANSITIONS[c.status]
    /\ c.execution_error = "submission_unknown" /\ r.execution_error = "none"
         => \/ r.exchange_order_id \notin {NoVenueId, c.exchange_order_id}
            \/ r.status \in Evidence

(* A refused snapshot reaches merge again as the row with newer fills.     *)
LEMMA SaveOutcome ==
    ASSUME NEW c \in OrderState, NEW i \in OrderState, Sound(c)
    PROVE  MergeOutcome(c, i, Merge(c, i))
<1>1. /\ c.status \in OrderLifecycleStatus /\ i.status \in OrderLifecycleStatus
      /\ c.filled_qty \in Int /\ i.filled_qty \in Int
      /\ c.remaining_qty \in Int /\ i.remaining_qty \in Int
      /\ c.requested_qty \in Int /\ i.requested_qty \in Int
      /\ c.fees \in Int /\ i.fees \in Int
      /\ c.execution_error \in ExecutionError /\ i.execution_error \in ExecutionError
  BY DEF OrderState
<1>2. CASE accepted(validate_transition(c.status, i.status))
  <2> DEFINE r == MergeAccepted(c, i)
  <2>1. Merge(c, i) = r
    BY <1>2 DEF Merge
  <2>2. i.status \in ALLOWED_TRANSITIONS[c.status] \/ i.status = c.status
    BY <1>2 DEF accepted, validate_transition
  <2>3. c.status \in ALLOWED_TRANSITIONS[c.status]
    BY <1>1 DEF ALLOWED_TRANSITIONS
  <2>4. /\ r \in OrderState /\ Sound(r)
        /\ r.exchange_order_id = IF i.exchange_order_id = NoVenueId
                                 THEN c.exchange_order_id ELSE i.exchange_order_id
        /\ r.filled_qty = Least(Greatest(c.filled_qty, i.filled_qty), r.requested_qty)
        /\ r.execution_error = MergeExecutionError(c, i)
        /\ \/ r.status = i.status
           \/ i.status = "SUBMITTED" /\ r.status = "PARTIALLY_FILLED"
           \/ r.status = "FILLED" /\ FullyFilled(r.filled_qty, r.requested_qty)
    BY MergeAcceptedFacts
  <2> HIDE DEF r
  <2>5. r.requested_qty \in Int /\ r.filled_qty \in Int
    BY <2>4 DEF OrderState
  <2>6. r.filled_qty >= c.filled_qty \/ r.filled_qty = r.requested_qty
    BY <1>1, <2>4, <2>5 DEF Least, Greatest
  <2>7. r.filled_qty >= c.filled_qty \/ r.status = "FILLED"
    <3>1. CASE r.filled_qty = r.requested_qty
      <4>1. FullyFilled(r.filled_qty, r.requested_qty)
        BY <2>4, <2>5, <3>1, EpsilonAssumption DEF Sound, FullyFilled
      <4> QED BY <4>1, <2>4 DEF Sound
    <3> QED BY <2>6, <3>1
  <2>8. c.execution_error = "submission_unknown" /\ r.execution_error = "none"
          => \/ r.exchange_order_id \notin {NoVenueId, c.exchange_order_id}
             \/ r.status \in Evidence
    <3> SUFFICES ASSUME c.execution_error = "submission_unknown",
                        r.execution_error = "none"
                 PROVE  \/ r.exchange_order_id \notin {NoVenueId, c.exchange_order_id}
                        \/ r.status \in Evidence
      OBVIOUS
    <3>1. \/ /\ i.exchange_order_id # NoVenueId
             /\ i.exchange_order_id # c.exchange_order_id
          \/ i.status \in Evidence
      BY <1>1, <2>4 DEF MergeExecutionError, Evidence
    <3>2. i.status \in Evidence => r.status \in Evidence
      BY <2>4 DEF Evidence
    <3> QED BY <2>4, <3>1, <3>2
  <2>9. c.exchange_order_id # NoVenueId => r.exchange_order_id # NoVenueId
    BY <2>4
  <2>10. \/ r.status = "FILLED" /\ FullyFilled(r.filled_qty, r.requested_qty)
         \/ r.status \in ALLOWED_TRANSITIONS[c.status]
    <3>1. i.status \in ALLOWED_TRANSITIONS[c.status]
      BY <2>2, <2>3
    <3> QED BY <1>1, <2>4, <3>1, TransitionTable
  <2> QED BY <2>1, <2>4, <2>7, <2>8, <2>9, <2>10 DEF MergeOutcome
<1>3. CASE /\ ~accepted(validate_transition(c.status, i.status))
           /\ i.filled_qty > c.filled_qty \/ i.fees > c.fees
  <2> DEFINE j == [c EXCEPT !.filled_qty = i.filled_qty,
                            !.remaining_qty = i.remaining_qty, !.fees = i.fees]
             r == MergeAccepted(c, j)
  <2>1. Merge(c, i) = r
    BY <1>3 DEF Merge, MergeWithoutRegression
  <2>2. /\ j \in OrderState
        /\ j.status = c.status
        /\ j.exchange_order_id = c.exchange_order_id
        /\ j.requested_qty = c.requested_qty
        /\ j.filled_qty = i.filled_qty
        /\ j.execution_error = c.execution_error
    BY <1>1 DEF OrderState
  <2> HIDE DEF j
  <2>3. /\ r \in OrderState /\ Sound(r)
        /\ r.exchange_order_id = IF j.exchange_order_id = NoVenueId
                                 THEN c.exchange_order_id ELSE j.exchange_order_id
        /\ r.requested_qty = IF j.requested_qty > 0 THEN j.requested_qty
                                                    ELSE c.requested_qty
        /\ r.filled_qty = Least(Greatest(c.filled_qty, j.filled_qty), r.requested_qty)
        /\ r.execution_error = MergeExecutionError(c, j)
        /\ \/ r.status = j.status
           \/ j.status = "SUBMITTED" /\ r.status = "PARTIALLY_FILLED"
           \/ r.status = "FILLED" /\ FullyFilled(r.filled_qty, r.requested_qty)
    BY <2>2, MergeAcceptedFacts
  <2> HIDE DEF r
  <2>4. r.requested_qty = c.requested_qty
    BY <2>2, <2>3
  <2>5. r.filled_qty = Least(Greatest(c.filled_qty, i.filled_qty), r.requested_qty)
    BY <2>2, <2>3
  <2>6. r.filled_qty >= c.filled_qty
    <3>1. c.filled_qty <= c.requested_qty
      BY <1>1 DEF Sound
    <3> QED BY <1>1, <2>4, <2>5, <3>1 DEF Least, Greatest
  <2>7. r.exchange_order_id = c.exchange_order_id
    BY <2>2, <2>3
  <2>8. c.execution_error = "submission_unknown" => r.execution_error # "none"
    BY <2>2, <2>3 DEF MergeExecutionError
  <2>9. \/ r.status = c.status
        \/ r.status = "FILLED" /\ FullyFilled(r.filled_qty, r.requested_qty)
        \/ /\ c.status = "SUBMITTED" /\ r.status = "PARTIALLY_FILLED"
           /\ c.status \in ALLOWED_TRANSITIONS[c.status]
    BY <1>1, <2>2, <2>3 DEF ALLOWED_TRANSITIONS
  <2>10. c.status = "SUBMITTED" => "PARTIALLY_FILLED" \in ALLOWED_TRANSITIONS[c.status]
    BY <1>1 DEF ALLOWED_TRANSITIONS
  <2> QED BY <2>1, <2>3, <2>5, <2>6, <2>7, <2>8, <2>9, <2>10 DEF MergeOutcome
<1>4. CASE /\ ~accepted(validate_transition(c.status, i.status))
           /\ ~(i.filled_qty > c.filled_qty \/ i.fees > c.fees)
  <2> DEFINE e == IF i.execution_error # "none" THEN i.execution_error
                                                ELSE c.execution_error
             r == [c EXCEPT !.execution_error = e]
  <2>1. Merge(c, i) = r
    BY <1>4 DEF Merge, MergeWithoutRegression
  <2>2. e \in ExecutionError /\ (c.execution_error = "submission_unknown" => e # "none")
    BY <1>1
  <2> HIDE DEF e
  <2>3. /\ r \in OrderState
        /\ r.status = c.status
        /\ r.exchange_order_id = c.exchange_order_id
        /\ r.requested_qty = c.requested_qty
        /\ r.filled_qty = c.filled_qty
        /\ r.remaining_qty = c.remaining_qty
        /\ r.execution_error = e
    BY <2>2 DEF OrderState
  <2> HIDE DEF r
  <2>4. Sound(r)
    BY <2>3 DEF Sound
  <2>5. r.filled_qty = Least(Greatest(c.filled_qty, i.filled_qty), r.requested_qty)
    <3>1. c.filled_qty <= c.requested_qty
      BY <1>1 DEF Sound
    <3> QED BY <1>1, <1>4, <2>3, <3>1 DEF Least, Greatest
  <2>6. r.filled_qty >= c.filled_qty
    BY <1>1, <2>3
  <2> QED BY <2>1, <2>2, <2>3, <2>4, <2>5, <2>6 DEF MergeOutcome
<1> QED BY <1>2, <1>3, <1>4

------------------------------------------------------------------------------
(* The inductive invariant: the invariants TLC checks need one another (a  *)
(* save keeps the quantities only of a row that is filled consistently,    *)
(* and only a positive size makes a full fill recognisable), and nothing   *)
(* has been seen before the order is recorded.                             *)
IInv ==
    /\ TypeOK
    /\ row # NoRow => Sound(row)
    /\ FillsNeverLost
    /\ row = NoRow => seen = 0

(* Before the order is recorded the invariant holds trivially.             *)
LEMMA IInvInit == Init => IInv
<1> SUFFICES ASSUME Init PROVE IInv
  OBVIOUS
<1>1. row = NoRow /\ raised \in BOOLEAN /\ seen = 0 /\ floor = 0
  BY DEF Init
<1> QED BY <1>1 DEF IInv, TypeOK, FillsNeverLost

(* A recorded order: the snapshot of the order manager, normalized.        *)
LEMMA CreateOutcome ==
    ASSUME NEW s \in FirstSnapshot, create_order(s)
    PROVE  /\ row = NoRow
           /\ row' \in OrderState /\ row' # NoRow
           /\ Sound(row')
           /\ row'.filled_qty = 0 /\ s.filled_qty = 0
<1>1. s \in OrderState
  BY SnapshotAssumption
<1>2. s.requested_qty > 0 /\ s.filled_qty = 0 /\ s.remaining_qty = s.requested_qty
  BY FirstSnapshotAssumption
<1>3. s.requested_qty \in Int
  BY <1>1 DEF OrderState
<1>4. row = NoRow /\ row' = Normalize(s)
  BY DEF create_order, SaveResult
<1>5. Sound(Normalize(s)) /\ Normalize(s).filled_qty = 0
  BY <1>1, <1>2, <1>3, NormalizeSound
<1>6. Normalize(s) \in OrderState
  BY <1>1, NormalizeFields
<1> QED BY <1>2, <1>4, <1>5, <1>6, NoRowAssumption

(* A saved snapshot: the row is merged as MergeOutcome says.               *)
LEMMA SaveStepOutcome ==
    ASSUME IInv, NEW s \in Snapshot, save_order_state(s)
    PROVE  /\ row \in OrderState /\ s \in OrderState /\ Sound(row)
           /\ row' # NoRow
           /\ MergeOutcome(row, s, row')
<1>1. s \in OrderState
  BY SnapshotAssumption
<1>2. row # NoRow /\ row' = Merge(row, s)
  BY DEF save_order_state, SaveResult
<1>3. row \in OrderState /\ Sound(row)
  BY <1>2 DEF IInv, TypeOK
<1>4. MergeOutcome(row, s, row')
  BY <1>1, <1>2, <1>3, SaveOutcome
<1>5. row' \in OrderState
  BY <1>4 DEF MergeOutcome
<1> QED BY <1>1, <1>3, <1>4, <1>5, NoRowAssumption

(* Recording, saving and refusing a snapshot preserve the invariant.       *)
LEMMA IInvStep == IInv /\ [Next]_vars => IInv'
<1> SUFFICES ASSUME IInv, [Next]_vars PROVE IInv'
  OBVIOUS
<1>1. ASSUME NEW s \in FirstSnapshot, create_order(s) PROVE IInv'
  <2>1. /\ row = NoRow /\ row' \in OrderState /\ row' # NoRow /\ Sound(row')
        /\ row'.filled_qty = 0 /\ s.filled_qty = 0
    BY <1>1, CreateOutcome
  <2>2. seen = 0
    BY <2>1 DEF IInv
  <2>3. seen' = 0 /\ floor' = row'.requested_qty /\ raised' = FALSE
    BY <1>1, <2>1, <2>2 DEF create_order, Greatest
  <2>4. row'.requested_qty \in Int /\ row'.requested_qty > 0
    BY <2>1 DEF OrderState, Sound
  <2>5. TypeOK'
    <3>1. raised' \in BOOLEAN
      BY <2>3
    <3>2. seen' \in Int /\ floor' \in Int
      BY <2>3, <2>4
    <3> QED BY <2>1, <3>1, <3>2 DEF TypeOK
  <2>6. FillsNeverLost'
    BY <2>1, <2>3, <2>4 DEF FillsNeverLost, Least
  <2> QED BY <2>1, <2>5, <2>6 DEF IInv
<1>2. ASSUME NEW s \in Snapshot, save_order_state(s) PROVE IInv'
  <2>1. /\ row \in OrderState /\ s \in OrderState /\ Sound(row) /\ row' # NoRow
        /\ MergeOutcome(row, s, row')
    BY <1>2, SaveStepOutcome
  <2>2. /\ row' \in OrderState /\ Sound(row')
        /\ row'.filled_qty = Least(Greatest(row.filled_qty, s.filled_qty),
                                   row'.requested_qty)
    BY <2>1 DEF MergeOutcome
  <2>3. /\ row.filled_qty \in Int /\ s.filled_qty \in Int
        /\ row'.filled_qty \in Int /\ row'.requested_qty \in Int
        /\ seen \in Int /\ floor \in Int
    BY <2>1, <2>2 DEF OrderState, IInv, TypeOK
  <2>4. /\ seen' = Greatest(seen, s.filled_qty)
        /\ floor' = Least(floor, row'.requested_qty)
        /\ raised' = FALSE
    BY <1>2 DEF save_order_state
  <2>5. row.filled_qty >= Least(seen, floor) /\ row.filled_qty <= seen
    BY <1>2 DEF IInv, FillsNeverLost, save_order_state
  <2>6. TypeOK'
    <3>1. raised' \in BOOLEAN
      BY <2>4
    <3>2. seen' \in Int /\ floor' \in Int
      BY <2>3, <2>4 DEF Least, Greatest
    <3> QED BY <2>2, <3>1, <3>2 DEF TypeOK
  <2>7. row'.filled_qty >= Least(seen', floor') /\ row'.filled_qty <= seen'
    BY <2>2, <2>3, <2>4, <2>5 DEF Least, Greatest
  <2> QED BY <2>1, <2>2, <2>6, <2>7 DEF IInv, FillsNeverLost
<1>3. ASSUME NEW s \in Snapshot, refuse_order_state(s) PROVE IInv'
  BY <1>3 DEF refuse_order_state, IInv, TypeOK, FillsNeverLost
<1>4. CASE UNCHANGED vars
  BY <1>4 DEF vars, IInv, TypeOK, FillsNeverLost
<1> QED BY <1>1, <1>2, <1>3, <1>4 DEF Next

(* The inductive invariant holds in every reachable state.                 *)
LEMMA IInvAlways == Spec => []IInv
  BY IInvInit, IInvStep, PTL DEF Spec

(* The persisted row always has its type (save_order_state_in_session).    *)
THEOREM TypeCorrect == Spec => []TypeOK
<1>1. IInv => TypeOK
  BY DEF IInv
<1> QED BY <1>1, IInvAlways, PTL

(* Whatever snapshots are merged, in whatever order, the quantities of a   *)
(* row fit together (merge, _normalize).                                   *)
THEOREM QuantitiesAlwaysConsistent == Spec => []QuantitiesConsistent
<1>1. IInv => QuantitiesConsistent
  BY DEF IInv, QuantitiesConsistent, Sound
<1> QED BY <1>1, IInvAlways, PTL

(* A row shows the largest fill any snapshot reported, and no other.       *)
THEOREM NoFillIsLost == Spec => []FillsNeverLost
<1>1. IInv => FillsNeverLost
  BY DEF IInv
<1> QED BY <1>1, IInvAlways, PTL

(* An order filled to its size is FILLED, with nothing remaining.          *)
THEOREM FullIsFilled == Spec => []FullMeansFilled
<1>1. IInv => FullMeansFilled
  BY DEF IInv, FullMeansFilled, Sound
<1> QED BY <1>1, IInvAlways, PTL

------------------------------------------------------------------------------
(* What a step may never do *)

(* One save, seen through the invariant: how the row may change.           *)
LEMMA RowSteps ==
    ASSUME IInv, [Next]_vars, row # NoRow
    PROVE  \/ row' = row
           \/ /\ row \in OrderState /\ row' # NoRow
              /\ \E s \in OrderState : MergeOutcome(row, s, row')
<1>1. ASSUME NEW s \in FirstSnapshot, create_order(s) PROVE FALSE
  BY <1>1 DEF create_order
<1>2. ASSUME NEW s \in Snapshot, save_order_state(s)
      PROVE  /\ row \in OrderState /\ row' # NoRow
             /\ \E x \in OrderState : MergeOutcome(row, x, row')
  BY <1>2, SaveStepOutcome
<1>3. ASSUME NEW s \in Snapshot, refuse_order_state(s) PROVE row' = row
  BY <1>3 DEF refuse_order_state
<1>4. CASE UNCHANGED vars
  BY <1>4 DEF vars
<1> QED BY <1>1, <1>2, <1>3, <1>4 DEF Next

(* The status of a row never moves down in priority, a terminal status     *)
(* only turns into FILLED, and an exchange id once known stays known.      *)
LEMMA MergeMovesForward ==
    ASSUME NEW c \in OrderState, NEW s \in OrderState, NEW r, MergeOutcome(c, s, r)
    PROVE  /\ STATE_PRIORITY[r.status] >= STATE_PRIORITY[c.status]
           /\ c.exchange_order_id # NoVenueId => r.exchange_order_id # NoVenueId
           /\ is_terminal(c.status) =>
                \/ r.status = c.status
                \/ r.status = "FILLED" /\ FullyFilled(r.filled_qty, r.requested_qty)
<1>1. c.status \in OrderLifecycleStatus
  BY DEF OrderState
<1>2. c.status \in ALLOWED_TRANSITIONS[c.status]
  BY <1>1 DEF ALLOWED_TRANSITIONS
<1>3. \/ r.status = "FILLED" /\ FullyFilled(r.filled_qty, r.requested_qty)
      \/ r.status \in ALLOWED_TRANSITIONS[c.status]
  BY <1>2 DEF MergeOutcome
<1>4. STATE_PRIORITY["FILLED"] >= STATE_PRIORITY[c.status]
  BY <1>1, <1>2, TransitionTable
<1>5. r.status \in ALLOWED_TRANSITIONS[c.status] =>
        /\ STATE_PRIORITY[r.status] >= STATE_PRIORITY[c.status]
        /\ is_terminal(c.status) => r.status = c.status
  BY <1>1, TransitionTable
<1> QED BY <1>3, <1>4, <1>5 DEF MergeOutcome

(* A terminal order changes status only by turning out to be completely    *)
(* filled: no stale, repeated or out-of-order snapshot reopens it.         *)
THEOREM TerminalStaysFinal == Spec => TerminalIsFinal
<1> DEFINE A == row # NoRow /\ is_terminal(row.status) =>
                  /\ row' # NoRow
                  /\ \/ row'.status = row.status
                     \/ /\ row'.status = "FILLED"
                        /\ FullyFilled(row'.filled_qty, row'.requested_qty)
<1>1. IInv /\ [Next]_vars => [A]_vars
  BY RowSteps, MergeMovesForward
<1> QED BY <1>1, IInvAlways, PTL DEF Spec, TerminalIsFinal

(* A row never moves backwards, nor forgets the exchange's order id.       *)
THEOREM RowNeverMovesBackwards == Spec => NeverBackwards
<1> DEFINE A == row # NoRow =>
                  /\ STATE_PRIORITY[row'.status] >= STATE_PRIORITY[row.status]
                  /\ row.exchange_order_id # NoVenueId
                       => row'.exchange_order_id # NoVenueId
<1>1. IInv /\ [Next]_vars => [A]_vars
  <2> SUFFICES ASSUME IInv, [Next]_vars, row # NoRow
               PROVE  A \/ UNCHANGED vars
    BY DEF A
  <2>1. CASE row' = row
    <3>1. row.status \in OrderLifecycleStatus
      BY DEF IInv, TypeOK, OrderState
    <3>2. STATE_PRIORITY[row.status] \in Int
      BY <3>1 DEF STATE_PRIORITY
    <3> QED BY <2>1, <3>2
  <2>2. CASE row \in OrderState /\ \E s \in OrderState : MergeOutcome(row, s, row')
    BY <2>2, MergeMovesForward
  <2> QED BY <2>1, <2>2, RowSteps
<1> QED BY <1>1, IInvAlways, PTL DEF Spec, NeverBackwards

(* The marker of a submission of unknown outcome is cleared by evidence    *)
(* only (_merge_execution_error).                                          *)
THEOREM UnknownSubmitStays == Spec => UnknownSubmitIsKept
<1> DEFINE A == row # NoRow /\ row.execution_error = "submission_unknown"
                  /\ row'.execution_error = "none" =>
                  \/ row'.exchange_order_id \notin {NoVenueId, row.exchange_order_id}
                  \/ row'.status \in {"PARTIALLY_FILLED", "FILLED", "CANCELED",
                                      "EXPIRED", "REJECTED", "FAILED"}
<1>1. IInv /\ [Next]_vars => [A]_vars
  BY RowSteps DEF MergeOutcome, Evidence
<1> QED BY <1>1, IInvAlways, PTL DEF Spec, UnknownSubmitIsKept

------------------------------------------------------------------------------
(* The row implements the abstract lifecycle *)

(* The abstract life of a row by its status: the statuses of the code's       *)
(* TERMINAL_ORDER_STATES end it, and FILLED alone completes it.              *)
LEMMA LifeOfRow ==
    ASSUME NEW r, r # NoRow
    PROVE  /\ LifeOf(r) \in {"open", "ended", "complete"}
           /\ LifeOf(r) = "complete" <=> r.status = "FILLED"
           /\ LifeOf(r) = "ended" <=> is_terminal(r.status) /\ r.status # "FILLED"
  BY DEF LifeOf

(* A merge is a Progress, LateReport or Settled step of the lifecycle.     *)
LEMMA MergeIsLifecycleStep ==
    ASSUME NEW c \in OrderState, c # NoRow, NEW r, r # NoRow,
           NEW s \in OrderState, MergeOutcome(c, s, r)
    PROVE  /\ LifeOf(c) = "open" => LifeOf(r) \in {"open", "ended", "complete"}
           /\ LifeOf(c) = "ended" => LifeOf(r) \in {"ended", "complete"}
           /\ LifeOf(c) = "complete" => LifeOf(r) = "complete"
           /\ FilledOf(r) \in Int
           /\ FilledOf(r) >= FilledOf(c) \/ LifeOf(r) = "complete"
<1>1. /\ r \in OrderState
      /\ r.filled_qty >= c.filled_qty \/ r.status = "FILLED"
  BY DEF MergeOutcome
<1>2. FilledOf(r) = r.filled_qty /\ FilledOf(c) = c.filled_qty /\ r.filled_qty \in Int
  BY <1>1 DEF FilledOf, OrderState
<1>3. is_terminal(c.status) => r.status = c.status \/ r.status = "FILLED"
  BY MergeMovesForward
<1>4. /\ LifeOf(r) \in {"open", "ended", "complete"}
      /\ LifeOf(r) = "complete" <=> r.status = "FILLED"
      /\ LifeOf(r) = "ended" <=> is_terminal(r.status) /\ r.status # "FILLED"
      /\ LifeOf(c) = "complete" <=> c.status = "FILLED"
      /\ LifeOf(c) = "ended" <=> is_terminal(c.status) /\ c.status # "FILLED"
  BY LifeOfRow
<1>5. is_terminal("FILLED")
  BY DEF is_terminal, TERMINAL_ORDER_STATES
<1>6. /\ LifeOf(c) = "ended" => LifeOf(r) \in {"ended", "complete"}
      /\ LifeOf(c) = "complete" => LifeOf(r) = "complete"
  BY <1>3, <1>4, <1>5
<1> QED BY <1>1, <1>2, <1>4, <1>6

(* The persisted row implements the lifecycle the rest of the system       *)
(* relies on: recorded once, ended at most once, fills never taken back.   *)
THEOREM RowImplementsLifecycle == Spec => ImplementsLifecycle
<1>1. Init => Lifecycle!LifecycleInit
  BY DEF Init, Lifecycle!LifecycleInit, LifeOf, FilledOf
<1>2. IInv /\ [Next]_vars => [Lifecycle!LifecycleNext]_(Lifecycle!lifecycleVars)
  <2> SUFFICES ASSUME IInv, [Next]_vars
               PROVE  Lifecycle!LifecycleNext \/ UNCHANGED Lifecycle!lifecycleVars
    OBVIOUS
  <2>1. CASE row' = row
    BY <2>1 DEF Lifecycle!lifecycleVars
  <2>2. ASSUME NEW s \in FirstSnapshot, create_order(s) PROVE Lifecycle!LifecycleNext
    <3>1. row = NoRow /\ row' \in OrderState /\ row' # NoRow /\ row'.filled_qty = 0
      BY <2>2, CreateOutcome
    <3>2. LifeOf(row) = "absent" /\ LifeOf(row)' \in {"open", "ended", "complete"}
      BY <3>1 DEF LifeOf
    <3>3. FilledOf(row)' \in Int
      BY <3>1 DEF FilledOf
    <3> QED BY <3>2, <3>3 DEF Lifecycle!LifecycleNext, Lifecycle!Record
  <2>3. ASSUME row # NoRow, row \in OrderState, row' # NoRow,
               NEW s \in OrderState, MergeOutcome(row, s, row')
        PROVE  Lifecycle!LifecycleNext
    <3>1. /\ LifeOf(row) \in {"open", "ended", "complete"}
          /\ LifeOf(row) = "open" => LifeOf(row') \in {"open", "ended", "complete"}
          /\ LifeOf(row) = "ended" => LifeOf(row') \in {"ended", "complete"}
          /\ LifeOf(row) = "complete" => LifeOf(row') = "complete"
          /\ FilledOf(row') \in Int
          /\ FilledOf(row') >= FilledOf(row) \/ LifeOf(row') = "complete"
      BY <2>3, MergeIsLifecycleStep, LifeOfRow
    <3> QED BY <3>1 DEF Lifecycle!LifecycleNext, Lifecycle!Progress,
                        Lifecycle!LateReport, Lifecycle!Settled
  <2>4. row = NoRow => row' = row \/ \E s \in FirstSnapshot : create_order(s)
    <3>1. ASSUME NEW s \in Snapshot, refuse_order_state(s) PROVE row' = row
      BY <3>1 DEF refuse_order_state
    <3>2. ASSUME NEW s \in Snapshot, save_order_state(s) PROVE row # NoRow
      BY <3>2 DEF save_order_state
    <3>3. CASE UNCHANGED vars
      BY <3>3 DEF vars
    <3> QED BY <3>1, <3>2, <3>3 DEF Next
  <2> QED BY <2>1, <2>2, <2>3, <2>4, RowSteps
<1> QED BY <1>1, <1>2, IInvAlways, PTL DEF Spec, ImplementsLifecycle, Lifecycle!LifecycleSpec

==============================================================================
