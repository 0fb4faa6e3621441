-------------------------- MODULE CommandFlowProofs --------------------------
(***************************************************************************)
(* The command flow, proved for any number of orders, post-only orders,    *)
(* crashes, halts and failing database writes: type correctness, what is   *)
(* on record before something is sent, what a finished command leaves      *)
(* behind, and what a restart keeps blocked.                               *)
(*                                                                         *)
(* The three actors share the repository.  The proof is laid out           *)
(* accordingly: what an actor relies on about an order is stable under     *)
(* every step of the others (a row only moves forward), and each step      *)
(* leaves its own actor in a good state.                                   *)
(***************************************************************************)
EXTENDS CommandFlow, OrderMergeProofs, FiniteSetTheorems, SequenceTheorems, TLAPS

------------------------------------------------------------------------------
(* The invariant *)

(* The row r is decided on, or is at least recorded as SUBMITTING; the     *)
(* order has ended or its cancel is on record; in the second case, for a   *)
(* covered order, with the command that carries it out, whose state is c.  *)
Decided(r)  == r # NoRow /\ r.status \notin {"CREATED", "SUBMITTING"}
Recorded(r) == r # NoRow /\ r.status # "CREATED"
CancelUnderway(r) == r # NoRow /\ (is_terminal(r.status) \/ r.status = "CANCEL_PENDING")
Covered(r, c) == CancelUnderway(r) /\ (is_terminal(r.status) \/ c # "none")

(* The steps of a submit command, of a cancel command, and of both; those  *)
(* the fallback of a post-only order goes through; those that only a       *)
(* post-only order goes through, and those that come before its fallback;  *)
(* those with a snapshot in hand.                                          *)
SubmitPc == {"submit", "save_blocked", "save_submitting", "place", "detail", "recover",
             "po_wait", "po_fallback", "save_pending", "enqueue"}
CancelPc == {"cancel", "save_cancel_pending", "c_lookup", "c_request", "c_detail",
             "c_recover"}
EitherPc == {"save_result", "save_canceled", "abandon", "sent", "ack", "fail"}
FallbackPc == {"save_submitting", "place", "detail", "recover", "save_result", "sent",
               "ack", "fail"}
PostOnlyPc == {"po_wait", "po_fallback", "save_pending", "enqueue", "save_canceled",
               "abandon"}
BeforeFallbackPc == PostOnlyPc \cup {"save_submitting", "place", "detail", "recover",
                                     "save_result"}
SnapPc == Saving \cup {"enqueue", "po_fallback", "c_lookup", "c_request", "c_detail",
                       "c_recover"}

(* The answers a placement leaves in the worker's hands.                   *)
ResultStatus == {"BLOCKED", "FAILED", "REJECTED", "SUBMITTED", "PARTIALLY_FILLED",
                 "FILLED", "CANCELED"}

(* The worker's task t on a cancel command, and on a submit command, of    *)
(* the order o, when the rows are rows and the commands are in states st.  *)
OnCancel(t, o, rows) ==
    /\ t.pc \in CancelPc \cup EitherPc
    /\ t.order = o /\ rows[o] # NoRow

OnSubmit(t, o, rows, st) ==
    /\ t.pc \in SubmitPc \cup EitherPc
    /\ \/ t.order = o
       \/ /\ o \in PostOnly /\ t.order = FallbackOf[o] /\ t.pc \in FallbackPc
          /\ Covered(rows[o], st[cancel(o)])
    /\ t.pc \in {"place", "detail", "recover"} => Recorded(rows[t.order])
    /\ t.pc = "save_submitting" => t.snap.status = "SUBMITTING"
    /\ t.pc \in {"save_blocked", "save_result"} => t.snap.status \in ResultStatus
    /\ t.pc = "save_pending" => t.snap.status = "CANCEL_PENDING"
    /\ t.pc = "save_canceled" => t.snap.status = "CANCELED"
    /\ t.pc \in {"sent", "ack"} \cup PostOnlyPc => Decided(rows[o])
    /\ t.pc \in PostOnlyPc => o \in PostOnly
    /\ t.pc = "enqueue" => CancelUnderway(rows[o])
    /\ t.pc = "po_fallback" => Covered(rows[o], st[cancel(o)])
    /\ o \in PostOnly /\ t.order = o /\ t.pc \in BeforeFallbackPc
         => rows[FallbackOf[o]] = NoRow

(* The worker's task t while it holds the batch b.                         *)
WorkerOK(t, b, rows, st) ==
    /\ t.pc = "idle" => t = Idle
    /\ t.pc # "idle" =>
        /\ b # <<>> /\ t.order \in Order /\ t.qty \in 1..Qty
        /\ t.pc \in SnapPc => t.snap \in Snapshot
        /\ Head(b).cmd[1] = "cancel" => OnCancel(t, Head(b).cmd[2], rows)
        /\ Head(b).cmd[1] = "submit" => OnSubmit(t, Head(b).cmd[2], rows, st)

(* The operator's request.                                                 *)
OperatorOK(t, rows, st) ==
    /\ t.pc \in {"idle", "save_pending", "save_canceled", "enqueue", "abandon",
                 "save_resolved"}
    /\ t.pc = "idle" => t = Idle
    /\ t.pc # "idle" => t.order \in Order /\ t.snap \in Snapshot /\ rows[t.order] # NoRow
    /\ t.pc = "abandon" => st[submit(t.order)] # "none"

SyncOK ==
    /\ \A i \in 1..Len(syncTodo) : orders[syncTodo[i].order] # NoRow
    /\ \A i \in 1..Len(syncSave) : orders[syncSave[i].order] # NoRow

(* A process that is down or starting has no actor at work.                *)
StoppedIsIdle ==
    phase # "running" => /\ task["worker"] = Idle /\ task["operator"] = Idle
                         /\ batch = <<>> /\ syncTodo = <<>> /\ syncSave = <<>>

VenueUnfilled == \A o \in Order : Resting(venue[o]) => venue[o].filled < venue[o].qty

ReconciledOnce == reconciled + Cardinality(unresolved) <= Cardinality(Order)

(* Submit commands are those of accepted intents, cancel commands those of *)
(* recorded orders; the worker holds commands that exist.                  *)
CommandsKnown ==
    /\ \A o \in Order : cmds[submit(o)] # "none" => o \in Originals /\ orders[o] # NoRow
    /\ \A o \in Order : cmds[cancel(o)] # "none" => orders[o] # NoRow
    /\ \A i \in 1..Len(batch) : cmds[batch[i].cmd] # "none"

(* A fallback exists only once its original is covered.                    *)
FallbackCovered ==
    \A o \in PostOnly : orders[FallbackOf[o]] # NoRow => Covered(orders[o], cmds[cancel(o)])

SentDecided ==
    \A o \in Order : cmds[submit(o)] \in {"SENT", "ACKED"} => Decided(orders[o])

(* What a restart found stuck, with a submit command that a worker would   *)
(* take up again, stays blocked.                                           *)
Blocked == halted /\ blockers \cap PERSISTENT_STATUS_BLOCKERS # {}
PrebootBlocked ==
    /\ \A o \in preboot \cup unresolved : orders[o] # NoRow
    /\ phase = "running" =>
        \A o \in preboot :
            cmds[submit(o)] \in {"PENDING", "CLAIMED"} /\ IsStuck(orders[o]) => Blocked

Base ==
    /\ TypeOK
    /\ WorkerOK(task["worker"], batch, orders, cmds)
    /\ OperatorOK(task["operator"], orders, cmds) /\ SyncOK
    /\ StoppedIsIdle /\ VenueUnfilled /\ ReconciledOnce
    /\ CommandsKnown /\ FallbackCovered /\ RecordedBeforeSent /\ SentDecided
    /\ PrebootBlocked

------------------------------------------------------------------------------
(* Rows only move forward *)

(* What stays true of an order's row when it is written again.             *)
Forward(r, n) ==
    /\ n \in Snapshot \cup {NoRow}
    /\ r # NoRow =>
        /\ n # NoRow
        /\ r.status # "CREATED" => n.status # "CREATED"
        /\ r.status \notin {"CREATED", "SUBMITTING"}
             => n.status \notin {"CREATED", "SUBMITTING"}
        /\ is_terminal(r.status) => is_terminal(n.status)
        /\ r.status = "CANCEL_PENDING" => n.status = "CANCEL_PENDING" \/ is_terminal(n.status)

LEMMA SnapshotFacts ==
    /\ Snapshot \subseteq OrderState
    /\ NoRow \notin Snapshot
<1>1. 0..Qty \subseteq Int
  BY BoundsAssumption
<1>2. Snapshot \subseteq OrderState
  BY <1>1 DEF Snapshot, OrderState
<1> QED BY <1>2, NoRowAssumption

(* A row that stays as it is moves forward.                                *)
LEMMA ForwardSame ==
    ASSUME NEW r \in Snapshot \cup {NoRow}
    PROVE  Forward(r, r)
  BY DEF Forward

(* A save leaves a snapshot whose quantities are within the order's.       *)
LEMMA SaveSnapshot ==
    ASSUME NEW r \in Snapshot \cup {NoRow}, NEW i \in Snapshot
    PROVE  SaveResult(r, i) \in Snapshot
<1>1. ASSUME NEW s \in OrderState, s.requested_qty \in 0..Qty
      PROVE  Normalize(s) \in Snapshot
  <2> DEFINE n == Normalize(s)
  <2>1. /\ n \in OrderState /\ n.requested_qty = s.requested_qty
        /\ n.filled_qty = Least(Greatest(s.filled_qty, 0), s.requested_qty)
        /\ \/ n.remaining_qty = 0
           \/ n.remaining_qty = Greatest(n.requested_qty - n.filled_qty, 0)
           \/ n.remaining_qty = Greatest(Least(s.remaining_qty, s.requested_qty), 0)
    BY NormalizeFields
  <2>2. s.filled_qty \in Int /\ s.remaining_qty \in Int /\ s.requested_qty \in Int
    BY DEF OrderState
  <2> HIDE DEF n
  <2>3. n.filled_qty \in 0..Qty
    BY <1>1, <2>1, <2>2, BoundsAssumption DEF Least, Greatest
  <2>4. n.remaining_qty \in 0..Qty
    BY <1>1, <2>1, <2>2, <2>3, BoundsAssumption DEF Least, Greatest
  <2>5. n.requested_qty \in 0..Qty
    BY <1>1, <2>1
  <2> QED BY <2>1, <2>3, <2>4, <2>5 DEF OrderState, Snapshot, n
<1>2. i \in OrderState /\ i.requested_qty \in 0..Qty
  BY SnapshotFacts DEF Snapshot
<1>3. ASSUME NEW c \in Snapshot, NEW j \in OrderState, j.requested_qty \in 0..Qty
      PROVE  MergeAccepted(c, j) \in Snapshot
  <2> DEFINE m == MergedFields(c, j)
  <2>1. c \in OrderState /\ c.requested_qty \in 0..Qty
    BY SnapshotFacts DEF Snapshot
  <2>2. MergeAccepted(c, j) = Normalize(m)
    BY DEF MergeAccepted, MergedFields
  <2>3. m \in OrderState
    BY <2>1, MergedFieldsType
  <2>4. m.requested_qty \in 0..Qty
    BY <1>3, <2>1, MergedFieldsValues
  <2> HIDE DEF m
  <2> QED BY <1>1, <2>2, <2>3, <2>4
<1>4. CASE r = NoRow
  BY <1>1, <1>2, <1>4 DEF SaveResult
<1>5. CASE r # NoRow /\ accepted(validate_transition(r.status, i.status))
  BY <1>2, <1>3, <1>5 DEF SaveResult, Merge
<1>6. CASE r # NoRow /\ ~accepted(validate_transition(r.status, i.status))
  <2> DEFINE j == [r EXCEPT !.filled_qty = i.filled_qty,
                            !.remaining_qty = i.remaining_qty, !.fees = i.fees]
             e == [r EXCEPT !.execution_error = IF i.execution_error # "none"
                                                THEN i.execution_error ELSE @]
  <2>1. r \in Snapshot /\ r \in OrderState
    BY <1>6, SnapshotFacts
  <2>2. j \in OrderState /\ j.requested_qty \in 0..Qty
    BY <1>2, <2>1 DEF OrderState, Snapshot
  <2>3. e \in Snapshot
    BY <2>1 DEF Snapshot
  <2>4. SaveResult(r, i) \in {MergeAccepted(r, j), e}
    BY <1>6 DEF SaveResult, Merge, MergeWithoutRegression
  <2> HIDE DEF j, e
  <2> QED BY <1>3, <2>1, <2>2, <2>3, <2>4
<1> QED BY <1>4, <1>5, <1>6

(* The transitions, by what becomes of a status (ALLOWED_TRANSITIONS,      *)
(* STATE_PRIORITY): s is the row's, t the snapshot's.                      *)
LEMMA StatusSteps ==
    ASSUME NEW s \in OrderLifecycleStatus, NEW t \in OrderLifecycleStatus
    PROVE  LET v == validate_transition(s, t) IN
           /\ accepted(v) =>
                /\ s # "CREATED" => t # "CREATED"
                /\ s \notin {"CREATED", "SUBMITTING"} => t \notin {"CREATED", "SUBMITTING"}
                /\ is_terminal(s) => t = s
                /\ s = "CANCEL_PENDING" => t = "CANCEL_PENDING" \/ is_terminal(t)
           /\ ~accepted(v) /\ v # "invalid_transition" =>
                /\ s # "CREATED" /\ ~is_terminal(t)
                /\ t \notin {"CREATED", "SUBMITTING"} => s \notin {"CREATED", "SUBMITTING"}
                /\ t = "CANCEL_PENDING" => is_terminal(s)
           /\ v = "invalid_transition" /\ t \in ResultStatus => s # "SUBMITTING"
<1> DEFINE v == validate_transition(s, t)
<1>1. accepted(v) => t \in ALLOWED_TRANSITIONS[s]
  BY DEF accepted, validate_transition, ALLOWED_TRANSITIONS
<1>2. ~accepted(v) /\ v # "invalid_transition" => STATE_PRIORITY[t] < STATE_PRIORITY[s]
  BY DEF accepted, validate_transition
<1>3. v = "invalid_transition" => t \notin ALLOWED_TRANSITIONS[s]
  BY DEF validate_transition, ALLOWED_TRANSITIONS
<1> HIDE DEF v
<1>4. accepted(v) =>
        /\ s # "CREATED" => t # "CREATED"
        /\ s \notin {"CREATED", "SUBMITTING"} => t \notin {"CREATED", "SUBMITTING"}
        /\ is_terminal(s) => t = s
        /\ s = "CANCEL_PENDING" => t = "CANCEL_PENDING" \/ is_terminal(t)
  BY <1>1, SMTT(60) DEF ALLOWED_TRANSITIONS, OrderLifecycleStatus, TERMINAL_ORDER_STATES,
                   OPEN_ORDER_STATES, is_terminal
<1>5. ~accepted(v) /\ v # "invalid_transition" =>
        /\ s # "CREATED" /\ ~is_terminal(t)
        /\ t \notin {"CREATED", "SUBMITTING"} => s \notin {"CREATED", "SUBMITTING"}
        /\ t = "CANCEL_PENDING" => is_terminal(s)
  BY <1>2, SMTT(60) DEF STATE_PRIORITY, OrderLifecycleStatus, TERMINAL_ORDER_STATES,
                   OPEN_ORDER_STATES, is_terminal
<1>6. v = "invalid_transition" /\ t \in ResultStatus => s # "SUBMITTING"
  BY <1>3, SMTT(60) DEF ALLOWED_TRANSITIONS, OrderLifecycleStatus, TERMINAL_ORDER_STATES,
                   OPEN_ORDER_STATES, ResultStatus
<1> QED BY <1>4, <1>5, <1>6 DEF v

(* Every save moves the row forward.                                       *)
LEMMA SaveForward ==
    ASSUME NEW r \in Snapshot \cup {NoRow}, NEW i \in Snapshot
    PROVE  Forward(r, SaveResult(r, i))
<1> DEFINE s == SaveResult(r, i)
           from == IF r = NoRow \/ accepted(validate_transition(r.status, i.status))
                   THEN i.status ELSE r.status
<1>1. s \in Snapshot /\ s # NoRow
  BY SaveSnapshot, SnapshotFacts
<1>2. s.status = from \/ (from = "SUBMITTED" /\ s.status = "PARTIALLY_FILLED")
        \/ s.status = "FILLED"
  BY SaveValues, SnapshotFacts
<1>3. r # NoRow => /\ r.status \in OrderLifecycleStatus /\ i.status \in OrderLifecycleStatus
                   /\ r.status # "CREATED" => from # "CREATED"
                   /\ r.status \notin {"CREATED", "SUBMITTING"}
                        => from \notin {"CREATED", "SUBMITTING"}
                   /\ is_terminal(r.status) => is_terminal(from)
                   /\ r.status = "CANCEL_PENDING"
                        => from = "CANCEL_PENDING" \/ is_terminal(from)
  BY StatusSteps DEF Snapshot
<1> HIDE DEF s, from
<1>4. Forward(r, s)
  BY <1>1, <1>2, <1>3 DEF Forward, is_terminal, TERMINAL_ORDER_STATES
<1> QED BY <1>4 DEF s

(* A save that is not refused leaves at least what the snapshot says.      *)
LEMMA SaveTakes ==
    ASSUME NEW r \in Snapshot \cup {NoRow}, NEW i \in Snapshot, ~SaveRaises(r, i)
    PROVE  LET s == SaveResult(r, i) IN
           /\ s \in Snapshot
           /\ i.status # "CREATED" => s.status # "CREATED"
           /\ i.status \notin {"CREATED", "SUBMITTING"}
                => s.status \notin {"CREATED", "SUBMITTING"}
           /\ is_terminal(i.status) => is_terminal(s.status)
           /\ i.status = "CANCEL_PENDING"
                => s.status = "CANCEL_PENDING" \/ is_terminal(s.status)
<1> DEFINE s == SaveResult(r, i)
           from == IF r = NoRow \/ accepted(validate_transition(r.status, i.status))
                   THEN i.status ELSE r.status
<1>1. s \in Snapshot /\ s # NoRow
  BY SaveSnapshot, SnapshotFacts
<1>2. s.status = from \/ (from = "SUBMITTED" /\ s.status = "PARTIALLY_FILLED")
        \/ s.status = "FILLED"
  BY SaveValues, SnapshotFacts
<1>3. /\ i.status # "CREATED" => from # "CREATED"
      /\ i.status \notin {"CREATED", "SUBMITTING"} => from \notin {"CREATED", "SUBMITTING"}
      /\ is_terminal(i.status) => is_terminal(from)
      /\ i.status = "CANCEL_PENDING" => from = "CANCEL_PENDING" \/ is_terminal(from)
  BY StatusSteps DEF Snapshot, SaveRaises
<1> HIDE DEF s, from
<1>4. /\ i.status # "CREATED" => s.status # "CREATED"
      /\ i.status \notin {"CREATED", "SUBMITTING"} => s.status \notin {"CREATED", "SUBMITTING"}
      /\ is_terminal(i.status) => is_terminal(s.status)
      /\ i.status = "CANCEL_PENDING" => s.status = "CANCEL_PENDING" \/ is_terminal(s.status)
  BY <1>1, <1>2, <1>3 DEF is_terminal, TERMINAL_ORDER_STATES
<1> QED BY <1>1, <1>4 DEF s

(* A placement's answer is refused only by a row that is decided already.  *)
LEMMA RefusedIsDecided ==
    ASSUME NEW r \in Snapshot \cup {NoRow}, NEW i \in Snapshot, SaveRaises(r, i),
           i.status \in ResultStatus
    PROVE  r # NoRow /\ r.status # "SUBMITTING"
<1>1. r # NoRow /\ validate_transition(r.status, i.status) = "invalid_transition"
  BY DEF SaveRaises
<1>2. r.status \in OrderLifecycleStatus /\ i.status \in OrderLifecycleStatus
  BY <1>1 DEF Snapshot
<1> QED BY <1>1, <1>2, StatusSteps

(* The snapshots the adapter and the order manager build are snapshots.    *)
LEMMA BuiltSnapshots ==
    /\ \A st \in OrderLifecycleStatus, q \in 1..Qty, e \in ExecutionError :
            IntentState(st, q, e) \in Snapshot /\ IntentState(st, q, e).status = st
    /\ \A o \in Order, q \in 1..Qty : /\ SubmittedState(o, q) \in Snapshot
                                      /\ SubmittedState(o, q).status = "SUBMITTED"
    /\ \A o \in Order, v \in [state : VenueState, qty : 0..Qty, filled : 0..Qty] :
            /\ MapOrderState(o, v) \in Snapshot
            /\ MapOrderState(o, v).status \in {"SUBMITTED", "PARTIALLY_FILLED", "FILLED",
                                               "CANCELED"}
    /\ \A s \in Snapshot, e \in ExecutionError :
            /\ RecoverableOrderState(s, e) \in Snapshot
            /\ RecoverableOrderState(s, e).status = s.status
    /\ \A s \in Snapshot, st \in OrderLifecycleStatus :
            /\ [s EXCEPT !.status = st] \in Snapshot
            /\ [s EXCEPT !.status = st, !.execution_error = "none"] \in Snapshot
            /\ [s EXCEPT !.status = st, !.execution_error = "other"] \in Snapshot
<1>1. /\ 1..Qty \subseteq 0..Qty /\ 0 \in 0..Qty /\ 0 \in Int /\ Order = VenueId
      /\ {"none", "other", "submission_unknown", "cancel_unknown"} = ExecutionError
  BY BoundsAssumption, OrderAssumption DEF ExecutionError
<1>2. ASSUME NEW st \in OrderLifecycleStatus, NEW q \in 1..Qty, NEW e \in ExecutionError
      PROVE  IntentState(st, q, e) \in Snapshot /\ IntentState(st, q, e).status = st
  BY <1>1 DEF IntentState, Snapshot
<1>3. ASSUME NEW o \in Order, NEW q \in 1..Qty
      PROVE  SubmittedState(o, q) \in Snapshot /\ SubmittedState(o, q).status = "SUBMITTED"
  <2>1. "SUBMITTED" \in OrderLifecycleStatus
    BY DEF OrderLifecycleStatus, OPEN_ORDER_STATES
  <2>2. /\ IntentState("SUBMITTED", q, "none") \in Snapshot
        /\ IntentState("SUBMITTED", q, "none").status = "SUBMITTED"
    BY <1>1, <1>2, <2>1
  <2> QED BY <1>1, <2>2 DEF SubmittedState, Snapshot
<1>4. ASSUME NEW o \in Order, NEW v \in [state : VenueState, qty : 0..Qty, filled : 0..Qty]
      PROVE  /\ MapOrderState(o, v) \in Snapshot
             /\ MapOrderState(o, v).status \in {"SUBMITTED", "PARTIALLY_FILLED", "FILLED",
                                                "CANCELED"}
  <2>1. v.qty \in 0..Qty /\ v.filled \in 0..Qty
    OBVIOUS
  <2>2. Greatest(v.qty - v.filled, 0) \in 0..Qty
    BY <2>1, BoundsAssumption DEF Greatest
  <2>3. MapStatus(v) \in {"SUBMITTED", "PARTIALLY_FILLED", "FILLED", "CANCELED"}
    BY DEF MapStatus
  <2>4. MapStatus(v) \in OrderLifecycleStatus
    BY <2>3 DEF OrderLifecycleStatus, OPEN_ORDER_STATES, TERMINAL_ORDER_STATES
  <2> QED BY <1>1, <2>1, <2>2, <2>3, <2>4 DEF MapOrderState, Snapshot
<1>5. ASSUME NEW s \in Snapshot, NEW e \in ExecutionError
      PROVE  /\ RecoverableOrderState(s, e) \in Snapshot
             /\ RecoverableOrderState(s, e).status = s.status
  BY DEF RecoverableOrderState, Snapshot
<1>6. ASSUME NEW s \in Snapshot, NEW st \in OrderLifecycleStatus
      PROVE  /\ [s EXCEPT !.status = st] \in Snapshot
             /\ [s EXCEPT !.status = st, !.execution_error = "none"] \in Snapshot
             /\ [s EXCEPT !.status = st, !.execution_error = "other"] \in Snapshot
  BY <1>1 DEF Snapshot
<1> QED BY <1>2, <1>3, <1>4, <1>5, <1>6

------------------------------------------------------------------------------
(* What a step leaves alone *)

RowsForward == \A o \in Order : Forward(orders[o], orders'[o])

(* What the worker has in its hands stays good while the others write.     *)
LEMMA WorkerStable ==
    ASSUME NEW b \in Seq([cmd : Command, read : CommandState]),
           NEW rows \in [Order -> Snapshot \cup {NoRow}],
           NEW rows2 \in [Order -> Snapshot \cup {NoRow}],
           NEW st, NEW st2, NEW t, WorkerOK(t, b, rows, st),
           \A o \in Order : Forward(rows[o], rows2[o]),
           \A o \in Order : st[cancel(o)] # "none" => st2[cancel(o)] # "none",
           t.pc \in BeforeFallbackPc =>
              \A o \in PostOnly : rows[FallbackOf[o]] = NoRow => rows2[FallbackOf[o]] = NoRow
    PROVE  WorkerOK(t, b, rows2, st2)
<1>1. CASE t.pc = "idle"
  BY <1>1 DEF WorkerOK
<1>2. CASE t.pc # "idle"
  <2> DEFINE c == Head(b).cmd
  <2>1. b # <<>> /\ t.order \in Order /\ t.qty \in 1..Qty
        /\ (t.pc \in SnapPc => t.snap \in Snapshot)
        /\ (c[1] = "cancel" => OnCancel(t, c[2], rows))
        /\ (c[1] = "submit" => OnSubmit(t, c[2], rows, st))
    BY <1>2 DEF WorkerOK
  <2>2. c \in Command
    <3>1. Head(b) \in [cmd : Command, read : CommandState]
      BY <2>1, HeadTailProperties
    <3> QED BY <3>1
  <2>3. c[2] \in Order
    BY <2>2 DEF Command
  <2> HIDE DEF c
  <2>4. c[1] = "cancel" => OnCancel(t, c[2], rows2)
    BY <2>1, <2>3 DEF OnCancel, Forward
  <2>5. c[1] = "submit" => OnSubmit(t, c[2], rows2, st2)
    <3> SUFFICES ASSUME c[1] = "submit" PROVE OnSubmit(t, c[2], rows2, st2)
      OBVIOUS
    <3>1. OnSubmit(t, c[2], rows, st)
      BY <2>1
    <3>2. /\ Forward(rows[c[2]], rows2[c[2]]) /\ Forward(rows[t.order], rows2[t.order])
          /\ st[cancel(c[2])] # "none" => st2[cancel(c[2])] # "none"
      BY <2>1, <2>3
    <3>3. /\ Decided(rows[c[2]]) => Decided(rows2[c[2]])
          /\ Recorded(rows[t.order]) => Recorded(rows2[t.order])
          /\ CancelUnderway(rows[c[2]]) => CancelUnderway(rows2[c[2]])
      BY <3>2 DEF Forward, Decided, Recorded, CancelUnderway
    <3>4. Covered(rows[c[2]], st[cancel(c[2])]) => Covered(rows2[c[2]], st2[cancel(c[2])])
      BY <3>2, <3>3 DEF Covered, Forward, CancelUnderway
    <3> QED BY <3>1, <3>3, <3>4 DEF OnSubmit
  <2> QED BY <1>2, <2>1, <2>4, <2>5 DEF WorkerOK, c
<1> QED BY <1>1, <1>2

LEMMA OperatorStable ==
    ASSUME NEW rows, NEW rows2, NEW st, NEW st2, NEW t, OperatorOK(t, rows, st),
           \A o \in Order : Forward(rows[o], rows2[o]),
           \A o \in Order : st[submit(o)] # "none" => st2[submit(o)] # "none"
    PROVE  OperatorOK(t, rows2, st2)
  BY DEF OperatorOK, Forward

(* A row that is written again leaves covered orders covered, and recorded *)
(* what has been sent.                                                     *)
LEMMA RecordsStable ==
    ASSUME Base, RowsForward,
           \A o \in Order : cmds[cancel(o)] # "none" => cmds'[cancel(o)] # "none",
           \A o \in PostOnly : orders[FallbackOf[o]] = NoRow =>
                orders'[FallbackOf[o]] = NoRow \/ Covered(orders'[o], cmds'[cancel(o)]),
           \A o \in Order : sends'[o] > 0 => sends[o] > 0 \/ Recorded(orders[o])
    PROVE  FallbackCovered' /\ RecordedBeforeSent'
<1>1. PostOnly \subseteq Order /\ \A o \in PostOnly : FallbackOf[o] \in Order
  BY OrderAssumption
<1>2. ASSUME NEW o \in PostOnly, orders'[FallbackOf[o]] # NoRow
      PROVE  Covered(orders'[o], cmds'[cancel(o)])
  <2>1. CASE orders[FallbackOf[o]] = NoRow
    BY <1>2, <2>1
  <2>2. CASE orders[FallbackOf[o]] # NoRow
    <3>1. Covered(orders[o], cmds[cancel(o)])
      BY <2>2 DEF Base, FallbackCovered
    <3> QED BY <1>1, <3>1 DEF RowsForward, Forward, Covered, CancelUnderway
  <2> QED BY <2>1, <2>2
<1>3. ASSUME NEW o \in Order, sends'[o] > 0
      PROVE  orders'[o] # NoRow /\ orders'[o].status # "CREATED"
  <2>1. Recorded(orders[o])
    BY <1>3 DEF Base, RecordedBeforeSent, Recorded
  <2> QED BY <2>1 DEF RowsForward, Forward, Recorded
<1> QED BY <1>2, <1>3 DEF FallbackCovered, RecordedBeforeSent

(* A step that writes neither rows nor commands.                           *)
LEMMA ActorStep ==
    ASSUME Base, TypeOK', StoppedIsIdle',
           UNCHANGED <<orders, cmds, batch, phase, blockers, unresolved, reconciled,
                       preboot, halted>>,
           WorkerOK(task'["worker"], batch, orders, cmds),
           OperatorOK(task'["operator"], orders, cmds), SyncOK', VenueUnfilled',
           \A o \in Order : sends'[o] > 0 => sends[o] > 0 \/ Recorded(orders[o])
    PROVE  Base'
<1>1. RowsForward
  BY ForwardSame DEF Base, TypeOK, RowsForward
<1>2. FallbackCovered' /\ RecordedBeforeSent'
  BY <1>1, RecordsStable
<1>3. WorkerOK(task["worker"], batch, orders, cmds)' /\ OperatorOK(task["operator"], orders, cmds)'
  OBVIOUS
<1>4. ReconciledOnce' /\ CommandsKnown' /\ SentDecided' /\ PrebootBlocked'
  BY DEF Base, ReconciledOnce, CommandsKnown, SentDecided, PrebootBlocked, Blocked
<1> QED BY <1>2, <1>3, <1>4 DEF Base

(* A step that writes one row: the row moves forward, and counts as        *)
(* written by the running process.                                         *)
LEMMA RowStep ==
    ASSUME Base, TypeOK', phase = "running",
           NEW o \in Order, NEW n \in Snapshot, Forward(orders[o], n),
           orders' = [orders EXCEPT ![o] = n], preboot' = preboot \ {o},
           UNCHANGED <<cmds, batch, phase, blockers, unresolved, reconciled, halted,
                       venue, sends>>,
           WorkerOK(task'["worker"], batch, orders', cmds),
           OperatorOK(task'["operator"], orders', cmds), SyncOK',
           orders[o] = NoRow =>
                \A p \in PostOnly : FallbackOf[p] = o => Covered(orders[p], cmds[cancel(p)])
    PROVE  Base'
<1>0. orders \in [Order -> Snapshot \cup {NoRow}]
  BY DEF Base, TypeOK
<1>1. RowsForward
  BY <1>0, ForwardSame DEF RowsForward
<1>2. FallbackCovered' /\ RecordedBeforeSent'
  <2>1. ASSUME NEW p \in PostOnly, orders[FallbackOf[p]] = NoRow
        PROVE  orders'[FallbackOf[p]] = NoRow \/ Covered(orders'[p], cmds'[cancel(p)])
    <3>1. p \in Order /\ FallbackOf[p] \in Order /\ FallbackOf[p] # p
      BY OrderAssumption
    <3>2. CASE FallbackOf[p] = o
      <4>1. Covered(orders[p], cmds[cancel(p)]) /\ orders'[p] = orders[p]
        BY <1>0, <2>1, <3>1, <3>2
      <4> QED BY <4>1
    <3>3. CASE FallbackOf[p] # o
      BY <1>0, <2>1, <3>1, <3>3
    <3> QED BY <3>2, <3>3
  <2> QED BY <1>1, <2>1, RecordsStable
<1>3. WorkerOK(task["worker"], batch, orders, cmds)' /\ OperatorOK(task["operator"], orders, cmds)'
  OBVIOUS
<1>4. StoppedIsIdle' /\ VenueUnfilled' /\ ReconciledOnce'
  BY DEF Base, StoppedIsIdle, VenueUnfilled, ReconciledOnce
<1>5. ASSUME NEW p \in Order, orders[p] # NoRow
      PROVE  orders'[p] # NoRow
  BY <1>1, <1>5 DEF RowsForward, Forward
<1>6. CommandsKnown'
  BY <1>5 DEF Base, CommandsKnown
<1>7. SentDecided'
  BY <1>1 DEF Base, SentDecided, RowsForward, Forward, Decided
<1>8. PrebootBlocked'
  BY <1>0, <1>5 DEF Base, TypeOK, PrebootBlocked, Blocked
<1> QED BY <1>2, <1>3, <1>4, <1>6, <1>7, <1>8 DEF Base

------------------------------------------------------------------------------
(* The worker's steps that only change its task *)

(* What a working worker has in its hands.                                 *)
LEMMA WorkerAtWork ==
    ASSUME Base, task["worker"].pc # "idle"
    PROVE  /\ phase = "running" /\ batch # <<>>
           /\ task["worker"] \in Task
           /\ task["worker"].order \in Order /\ task["worker"].qty \in 1..Qty
           /\ task["worker"].pc \in SnapPc => task["worker"].snap \in Snapshot
           /\ Current \in Command /\ Current[1] \in {"submit", "cancel"}
           /\ Current[2] \in Order /\ Current = <<Current[1], Current[2]>>
           /\ cmds[Current] # "none"
           /\ Current[1] = "cancel" => OnCancel(task["worker"], Current[2], orders)
           /\ Current[1] = "submit" => OnSubmit(task["worker"], Current[2], orders, cmds)
<1>1. phase = "running"
  BY DEF Base, StoppedIsIdle, Idle
<1>2. /\ task["worker"] \in Task /\ batch \in Seq([cmd : Command, read : CommandState])
      /\ WorkerOK(task["worker"], batch, orders, cmds) /\ CommandsKnown
  BY DEF Base, TypeOK
<1>3. batch # <<>>
  BY <1>2 DEF WorkerOK
<1>4. Head(batch) = batch[1] /\ 1 \in 1..Len(batch)
  BY <1>2, <1>3, HeadTailProperties, EmptySeq, LenProperties
<1>5. batch[1] \in [cmd : Command, read : CommandState]
  BY <1>2, <1>4, ElementOfSeq
<1>6. Current \in Command /\ cmds[Current] # "none"
  BY <1>2, <1>4, <1>5 DEF Current, CommandsKnown
<1>7. Current[1] \in {"submit", "cancel"} /\ Current[2] \in Order
      /\ Current = <<Current[1], Current[2]>>
  BY <1>6 DEF Command
<1> QED BY <1>1, <1>2, <1>3, <1>6, <1>7 DEF WorkerOK, Current

(* The worker is on a submit command, or on a cancel command.              *)
LEMMA WorkerOnSubmit ==
    ASSUME Base, task["worker"].pc \in SubmitPc
    PROVE  /\ task["worker"].pc # "idle" /\ Current[1] = "submit"
           /\ OnSubmit(task["worker"], Current[2], orders, cmds)
<1>1. task["worker"].pc # "idle" /\ task["worker"].pc \notin CancelPc \cup EitherPc
  BY DEF SubmitPc, CancelPc, EitherPc
<1> QED BY <1>1, WorkerAtWork DEF OnCancel

LEMMA WorkerOnCancel ==
    ASSUME Base, task["worker"].pc \in CancelPc
    PROVE  /\ task["worker"].pc # "idle" /\ Current[1] = "cancel"
           /\ OnCancel(task["worker"], Current[2], orders)
<1>1. task["worker"].pc # "idle" /\ task["worker"].pc \notin SubmitPc \cup EitherPc
  BY DEF SubmitPc, CancelPc, EitherPc
<1> QED BY <1>1, WorkerAtWork DEF OnSubmit

(* The worker moves on to a task that is good, and may have sent something *)
(* about an order that is recorded.                                        *)
LEMMA WorkerActs ==
    ASSUME Base, task["worker"].pc # "idle", NEW t \in Task,
           SetTask("worker", t), WorkerOK(t, batch, orders, cmds),
           UNCHANGED <<store, batch, syncer, boot, halted, faults>>,
           venue' \in [Order -> [state : VenueState, qty : 0..Qty, filled : 0..Qty]],
           wire' \subseteq Order \X (1..Qty), sends' \in [Order -> Nat], VenueUnfilled',
           \A o \in Order : sends'[o] > 0 => sends[o] > 0 \/ Recorded(orders[o])
    PROVE  Base'
<1>1. task'["worker"] = t /\ task'["operator"] = task["operator"]
      /\ task' \in [{"worker", "operator"} -> Task]
  BY DEF Base, TypeOK, SetTask
<1>2. TypeOK'
  BY <1>1 DEF Base, TypeOK, store, syncer, boot
<1>3. StoppedIsIdle'
  BY WorkerAtWork DEF StoppedIsIdle, boot
<1>4. SyncOK'
  BY DEF Base, SyncOK, store, syncer
<1>5. /\ OperatorOK(task["operator"], orders, cmds)
      /\ UNCHANGED <<orders, cmds, batch, phase, blockers, unresolved, reconciled,
                     preboot, halted>>
  BY DEF Base, store, boot
<1> QED BY <1>1, <1>2, <1>3, <1>4, <1>5, ActorStep

LEMMA WorkerMoves ==
    ASSUME Base, task["worker"].pc # "idle", NEW t \in Task,
           SetTask("worker", t), WorkerOK(t, batch, orders, cmds),
           UNCHANGED <<store, world, batch, syncer, boot, halted, faults>>
    PROVE  Base'
<1>1. /\ venue' \in [Order -> [state : VenueState, qty : 0..Qty, filled : 0..Qty]]
      /\ wire' \subseteq Order \X (1..Qty) /\ sends' \in [Order -> Nat] /\ sends' = sends
  BY DEF Base, TypeOK, world
<1>2. VenueUnfilled'
  BY DEF Base, VenueUnfilled, world
<1> QED BY <1>1, <1>2, WorkerActs

LEMMA SubmitDecidedStep ==
    ASSUME Base, SubmitDecided
    PROVE  Base'
<1> DEFINE w == task["worker"]
           t == [w EXCEPT !.pc = "sent"]
<1>1. w.pc = "submit" /\ Decided(orders[w.order])
  BY DEF SubmitDecided, At, Decided
<1>2. /\ Current[1] = "submit" /\ OnSubmit(w, Current[2], orders, cmds)
      /\ batch # <<>> /\ w \in Task /\ w.order \in Order /\ w.qty \in 1..Qty
  BY <1>1, WorkerOnSubmit, WorkerAtWork DEF SubmitPc
<1>3. t \in Task /\ t.pc = "sent" /\ t.order = w.order /\ t.qty = w.qty
  BY <1>2 DEF Task
<1>4. w.order = Current[2]
  BY <1>1, <1>2 DEF OnSubmit, FallbackPc
<1> HIDE DEF t
<1>5. OnSubmit(t, Current[2], orders, cmds)
  BY <1>1, <1>3, <1>4 DEF OnSubmit, EitherPc, PostOnlyPc, BeforeFallbackPc
<1>6. WorkerOK(t, batch, orders, cmds)
  BY <1>2, <1>3, <1>5 DEF WorkerOK, SnapPc, Saving, Current
<1> QED BY <1>1, <1>3, <1>6, WorkerMoves DEF SubmitDecided, Goto, t

LEMMA SubmitDueFacts ==
    ASSUME Base, SubmitDue
    PROVE  LET w == task["worker"] IN
           /\ w.pc = "submit" /\ Current[1] = "submit" /\ w.order = Current[2]
           /\ batch # <<>> /\ w \in Task /\ w.order \in Order /\ w.qty \in 1..Qty
           /\ w.order \in Originals
           /\ orders[w.order] = NoRow \/ orders[w.order].status \in {"CREATED", "SUBMITTING"}
           /\ w.order \in PostOnly => orders[FallbackOf[w.order]] = NoRow
<1> DEFINE w == task["worker"]
<1>1. /\ w.pc = "submit"
      /\ orders[w.order] = NoRow \/ orders[w.order].status \in {"CREATED", "SUBMITTING"}
  BY DEF SubmitDue, At
<1>2. /\ Current[1] = "submit" /\ OnSubmit(w, Current[2], orders, cmds)
      /\ batch # <<>> /\ w \in Task /\ w.order \in Order /\ w.qty \in 1..Qty
      /\ Current = submit(Current[2]) /\ cmds[Current] # "none"
  BY <1>1, WorkerOnSubmit, WorkerAtWork DEF SubmitPc, submit
<1>3. w.order = Current[2]
  BY <1>1, <1>2 DEF OnSubmit, FallbackPc
<1>4. w.order \in Originals
  BY <1>2, <1>3 DEF Base, CommandsKnown
<1>5. w.order \in PostOnly => orders[FallbackOf[w.order]] = NoRow
  BY <1>1 DEF Base, FallbackCovered, Covered, CancelUnderway, is_terminal,
              TERMINAL_ORDER_STATES
<1> QED BY <1>1, <1>2, <1>3, <1>4, <1>5

LEMMA SubmitBlockedStep ==
    ASSUME Base, SubmitBlocked
    PROVE  Base'
<1> DEFINE w == task["worker"]
           s == IntentState("BLOCKED", Qty, "other")
           t == [w EXCEPT !.pc = "save_blocked", !.snap = s]
<1>1. /\ w.pc = "submit" /\ Current[1] = "submit" /\ w.order = Current[2]
      /\ batch # <<>> /\ w \in Task /\ w.order \in Order /\ w.qty \in 1..Qty
  BY SubmitDueFacts DEF SubmitBlocked
<1>2. s \in Snapshot /\ s.status = "BLOCKED"
  <2>1. "BLOCKED" \in OrderLifecycleStatus /\ Qty \in 1..Qty /\ "other" \in ExecutionError
    BY BoundsAssumption DEF OrderLifecycleStatus, TERMINAL_ORDER_STATES, ExecutionError
  <2> QED BY <2>1, BuiltSnapshots
<1> HIDE DEF s
<1>3. t \in Task /\ t.pc = "save_blocked" /\ t.order = w.order /\ t.qty = w.qty /\ t.snap = s
  BY <1>1, <1>2 DEF Task, Saving
<1> HIDE DEF t
<1>4. OnSubmit(t, Current[2], orders, cmds)
  BY <1>1, <1>2, <1>3 DEF OnSubmit, SubmitPc, PostOnlyPc, BeforeFallbackPc, ResultStatus
<1>5. WorkerOK(t, batch, orders, cmds)
  BY <1>1, <1>2, <1>3, <1>4 DEF WorkerOK, Current
<1> QED BY <1>1, <1>3, <1>5, WorkerMoves DEF SubmitBlocked, GotoWith, t, s

LEMMA SubmittingSnapshot ==
    ASSUME TypeOK, NEW o \in Order, NEW q \in 1..Qty
    PROVE  SubmittingState(o, q) \in Snapshot /\ SubmittingState(o, q).status = "SUBMITTING"
<1>1. "SUBMITTING" \in OrderLifecycleStatus /\ "none" \in ExecutionError /\ q \in 0..Qty
  BY BoundsAssumption DEF OrderLifecycleStatus, OPEN_ORDER_STATES, ExecutionError
<1>2. CASE orders[o] = NoRow
  BY <1>1, <1>2, BuiltSnapshots DEF SubmittingState
<1>3. CASE orders[o] # NoRow
  <2>1. orders[o] \in Snapshot
    BY <1>3 DEF TypeOK
  <2> QED BY <1>1, <1>3, <2>1 DEF SubmittingState, Snapshot
<1> QED BY <1>2, <1>3

LEMMA SubmitProceedsStep ==
    ASSUME Base, SubmitProceeds
    PROVE  Base'
<1> DEFINE w == task["worker"]
           s == SubmittingState(w.order, Qty)
           t == [w EXCEPT !.pc = "save_submitting", !.snap = s]
<1>1. /\ w.pc = "submit" /\ Current[1] = "submit" /\ w.order = Current[2]
      /\ batch # <<>> /\ w \in Task /\ w.order \in Order /\ w.qty \in 1..Qty
      /\ w.order \in PostOnly => orders[FallbackOf[w.order]] = NoRow
  BY SubmitDueFacts DEF SubmitProceeds
<1>2. s \in Snapshot /\ s.status = "SUBMITTING"
  <2>1. Qty \in 1..Qty /\ TypeOK
    BY BoundsAssumption DEF Base
  <2> QED BY <1>1, <2>1, SubmittingSnapshot
<1> HIDE DEF s
<1>3. t \in Task /\ t.pc = "save_submitting" /\ t.order = w.order /\ t.qty = w.qty /\ t.snap = s
  BY <1>1, <1>2 DEF Task, Saving
<1> HIDE DEF t
<1>4. OnSubmit(t, Current[2], orders, cmds)
  BY <1>1, <1>2, <1>3 DEF OnSubmit, SubmitPc, PostOnlyPc
<1>5. WorkerOK(t, batch, orders, cmds)
  BY <1>1, <1>2, <1>3, <1>4 DEF WorkerOK, Current
<1> QED BY <1>1, <1>3, <1>5, WorkerMoves DEF SubmitProceeds, GotoWith, t, s

(* The answer of a placement in the worker's hands, whatever it is.        *)
LEMMA ResultTask ==
    ASSUME Base, task["worker"].pc \in {"place", "detail", "recover"},
           NEW s \in Snapshot, s.status \in ResultStatus
    PROVE  LET t == [task["worker"] EXCEPT !.pc = "save_result", !.snap = s] IN
           t \in Task /\ WorkerOK(t, batch, orders, cmds)
<1> DEFINE w == task["worker"]
           t == [w EXCEPT !.pc = "save_result", !.snap = s]
<1>1. /\ Current[1] = "submit" /\ OnSubmit(w, Current[2], orders, cmds)
      /\ batch # <<>> /\ w \in Task /\ w.order \in Order /\ w.qty \in 1..Qty
  BY WorkerOnSubmit, WorkerAtWork DEF SubmitPc
<1>2. t \in Task /\ t.pc = "save_result" /\ t.order = w.order /\ t.qty = w.qty /\ t.snap = s
  BY <1>1 DEF Task, Saving
<1> HIDE DEF t
<1>3. OnSubmit(t, Current[2], orders, cmds)
  BY <1>1, <1>2 DEF OnSubmit, EitherPc, PostOnlyPc, BeforeFallbackPc, FallbackPc
<1>4. WorkerOK(t, batch, orders, cmds)
  BY <1>1, <1>2, <1>3 DEF WorkerOK, Current
<1> QED BY <1>2, <1>4 DEF t

(* The snapshots of a placement have the statuses of an answer.            *)
LEMMA ResultSnapshots ==
    ASSUME Base, NEW o \in Order, NEW q \in 1..Qty
    PROVE  /\ \A st \in {"BLOCKED", "FAILED", "REJECTED"} :
                 /\ IntentState(st, q, "other") \in Snapshot
                 /\ IntentState(st, q, "other").status \in ResultStatus
           /\ SubmissionUnknown(q) \in Snapshot /\ SubmissionUnknown(q).status \in ResultStatus
           /\ \A s \in {SubmittedState(o, q), MapOrderState(o, venue[o])} :
                 /\ s \in Snapshot /\ s.status \in ResultStatus
                 /\ RecoverableOrderState(s, "other") \in Snapshot
                 /\ RecoverableOrderState(s, "other").status \in ResultStatus
<1>1. /\ {"BLOCKED", "FAILED", "REJECTED", "SUBMITTED"} \subseteq OrderLifecycleStatus
      /\ {"other", "none", "submission_unknown"} \subseteq ExecutionError
  BY DEF OrderLifecycleStatus, TERMINAL_ORDER_STATES, OPEN_ORDER_STATES, ExecutionError
<1>2. venue[o] \in [state : VenueState, qty : 0..Qty, filled : 0..Qty]
  BY DEF Base, TypeOK
<1>3. ASSUME NEW st \in OrderLifecycleStatus, NEW e \in ExecutionError
      PROVE  IntentState(st, q, e) \in Snapshot /\ IntentState(st, q, e).status = st
  BY BuiltSnapshots
<1>4. SubmissionUnknown(q) \in Snapshot /\ SubmissionUnknown(q).status \in ResultStatus
  BY <1>1, <1>3 DEF SubmissionUnknown, ResultStatus
<1>5. \A s \in {SubmittedState(o, q), MapOrderState(o, venue[o])} :
          s \in Snapshot /\ s.status \in ResultStatus
  <2>1. SubmittedState(o, q) \in Snapshot /\ SubmittedState(o, q).status = "SUBMITTED"
    BY BuiltSnapshots
  <2>2. /\ MapOrderState(o, venue[o]) \in Snapshot
        /\ MapOrderState(o, venue[o]).status \in {"SUBMITTED", "PARTIALLY_FILLED", "FILLED",
                                                  "CANCELED"}
    BY <1>2, BuiltSnapshots
  <2> QED BY <2>1, <2>2 DEF ResultStatus
<1>6. \A s \in Snapshot : RecoverableOrderState(s, "other") \in Snapshot
                          /\ RecoverableOrderState(s, "other").status = s.status
  BY <1>1, BuiltSnapshots
<1>7. ASSUME NEW st \in {"BLOCKED", "FAILED", "REJECTED"}
      PROVE  /\ IntentState(st, q, "other") \in Snapshot
             /\ IntentState(st, q, "other").status \in ResultStatus
  <2>1. st \in OrderLifecycleStatus /\ st \in ResultStatus /\ "other" \in ExecutionError
    BY <1>1 DEF ResultStatus
  <2> QED BY <1>3, <2>1
<1> QED BY <1>4, <1>5, <1>6, <1>7

LEMMA PlaceDeclinedStep ==
    ASSUME Base, PlaceDeclined
    PROVE  Base'
<1> DEFINE w == task["worker"]
<1>1. w.pc = "place" /\ w.order \in Order /\ w.qty \in 1..Qty
  BY WorkerAtWork DEF PlaceDeclined, Placing, At
<1>2. PICK st \in {"BLOCKED", "FAILED"} : PlaceResult(IntentState(st, w.qty, "other"))
  BY DEF PlaceDeclined
<1> DEFINE s == IntentState(st, w.qty, "other")
<1>3. s \in Snapshot /\ s.status \in ResultStatus
  BY <1>1, ResultSnapshots
<1>4. SetTask("worker", [w EXCEPT !.pc = "save_result", !.snap = s])
  BY <1>2 DEF PlaceResult, GotoWith
<1>5. UNCHANGED <<store, world, batch, syncer, boot, halted, faults>>
  BY DEF PlaceDeclined
<1> HIDE DEF s
<1> QED BY <1>1, <1>3, <1>4, <1>5, ResultTask, WorkerMoves

LEMMA ReadDetailStep ==
    ASSUME Base, ReadDetail
    PROVE  Base'
<1> DEFINE w == task["worker"]
<1>1. w.pc = "detail" /\ w.order \in Order /\ w.qty \in 1..Qty
  BY WorkerAtWork DEF ReadDetail, At
<1>2. PICK s \in {MapOrderState(w.order, venue[w.order]),
                  RecoverableOrderState(MapOrderState(w.order, venue[w.order]), "other"),
                  SubmittedState(w.order, w.qty),
                  RecoverableOrderState(SubmittedState(w.order, w.qty), "other")} :
            PlaceResult(s)
  BY DEF ReadDetail
<1>3. s \in Snapshot /\ s.status \in ResultStatus
  BY <1>1, ResultSnapshots
<1>4. SetTask("worker", [w EXCEPT !.pc = "save_result", !.snap = s])
  BY <1>2 DEF PlaceResult, GotoWith
<1>5. UNCHANGED <<store, world, batch, syncer, boot, halted, faults>>
  BY DEF ReadDetail
<1> QED BY <1>1, <1>3, <1>4, <1>5, ResultTask, WorkerMoves

LEMMA RecoverSubmitStep ==
    ASSUME Base, RecoverSubmit
    PROVE  Base'
<1> DEFINE w == task["worker"]
<1>1. w.pc = "recover" /\ w.order \in Order /\ w.qty \in 1..Qty
  BY WorkerAtWork DEF RecoverSubmit, At
<1>2. PICK s \in {MapOrderState(w.order, venue[w.order]), SubmissionUnknown(w.qty)} :
            PlaceResult(s)
  BY DEF RecoverSubmit
<1>3. s \in Snapshot /\ s.status \in ResultStatus
  BY <1>1, ResultSnapshots
<1>4. SetTask("worker", [w EXCEPT !.pc = "save_result", !.snap = s])
  BY <1>2 DEF PlaceResult, GotoWith
<1>5. UNCHANGED <<store, world, batch, syncer, boot, halted, faults>>
  BY DEF RecoverSubmit
<1> QED BY <1>1, <1>3, <1>4, <1>5, ResultTask, WorkerMoves

(* A request that leaves: the row is recorded, and the answer is awaited.  *)
LEMMA SentTask ==
    ASSUME Base, task["worker"].pc = "place", NEW pc \in {"detail", "recover"}
    PROVE  LET t == [task["worker"] EXCEPT !.pc = pc] IN
           /\ t \in Task /\ WorkerOK(t, batch, orders, cmds)
           /\ task["worker"].order \in Order /\ task["worker"].qty \in 1..Qty
           /\ Recorded(orders[task["worker"].order])
<1> DEFINE w == task["worker"]
           t == [w EXCEPT !.pc = pc]
<1>1. /\ Current[1] = "submit" /\ OnSubmit(w, Current[2], orders, cmds)
      /\ batch # <<>> /\ w \in Task /\ w.order \in Order /\ w.qty \in 1..Qty
  BY WorkerOnSubmit, WorkerAtWork DEF SubmitPc
<1>2. t \in Task /\ t.pc = pc /\ t.order = w.order /\ t.qty = w.qty
  BY <1>1 DEF Task
<1>3. Recorded(orders[w.order])
  BY <1>1 DEF OnSubmit
<1> HIDE DEF t
<1>4. OnSubmit(t, Current[2], orders, cmds)
  BY <1>1, <1>2 DEF OnSubmit, SubmitPc, PostOnlyPc, BeforeFallbackPc, FallbackPc
<1>5. WorkerOK(t, batch, orders, cmds)
  BY <1>1, <1>2, <1>4 DEF WorkerOK, Current, SnapPc, Saving
<1> QED BY <1>1, <1>2, <1>3, <1>5 DEF t

LEMMA SendsCounted ==
    ASSUME Base, NEW o \in Order, Recorded(orders[o]), Sent(o)
    PROVE  /\ sends' \in [Order -> Nat]
           /\ \A p \in Order : sends'[p] > 0 => sends[p] > 0 \/ Recorded(orders[p])
<1>1. sends \in [Order -> Nat]
  BY DEF Base, TypeOK
<1> QED BY <1>1 DEF Sent

(* The exchange books an order it does not know yet.                       *)
LEMMA BookedVenue ==
    ASSUME Base, NEW o \in Order, NEW q \in 1..Qty, Book(o, q)
    PROVE  /\ venue' \in [Order -> [state : VenueState, qty : 0..Qty, filled : 0..Qty]]
           /\ VenueUnfilled'
<1>1. /\ venue \in [Order -> [state : VenueState, qty : 0..Qty, filled : 0..Qty]]
      /\ q \in 0..Qty /\ 0 \in 0..Qty /\ "live" \in VenueState /\ 0 < q
  BY BoundsAssumption DEF Base, TypeOK, VenueState
<1>2. venue' \in [Order -> [state : VenueState, qty : 0..Qty, filled : 0..Qty]]
  BY <1>1 DEF Book
<1>3. VenueUnfilled'
  BY <1>1 DEF Base, VenueUnfilled, Book
<1> QED BY <1>2, <1>3

LEMMA PlaceAcceptedStep ==
    ASSUME Base, PlaceAccepted
    PROVE  Base'
<1> DEFINE w == task["worker"]
<1>1. /\ w.pc = "place" /\ Sent(w.order) /\ Book(w.order, w.qty)
      /\ UNCHANGED <<store, wire, batch, syncer, boot, halted, faults>>
  BY DEF PlaceAccepted, Placing, At
<1>2. PICK pc \in {"detail", "recover"} : SetTask("worker", [w EXCEPT !.pc = pc])
  BY DEF PlaceAccepted, Goto
<1>3. /\ [w EXCEPT !.pc = pc] \in Task /\ WorkerOK([w EXCEPT !.pc = pc], batch, orders, cmds)
      /\ w.order \in Order /\ w.qty \in 1..Qty /\ Recorded(orders[w.order])
  BY <1>1, SentTask
<1>4. /\ sends' \in [Order -> Nat]
      /\ \A p \in Order : sends'[p] > 0 => sends[p] > 0 \/ Recorded(orders[p])
  BY <1>1, <1>3, SendsCounted
<1>5. /\ venue' \in [Order -> [state : VenueState, qty : 0..Qty, filled : 0..Qty]]
      /\ VenueUnfilled'
  BY <1>1, <1>3, BookedVenue
<1>6. wire' \subseteq Order \X (1..Qty)
  BY <1>1 DEF Base, TypeOK
<1> QED BY <1>1, <1>2, <1>3, <1>4, <1>5, <1>6, WorkerActs

LEMMA PlaceRejectedStep ==
    ASSUME Base, PlaceRejected
    PROVE  Base'
<1> DEFINE w == task["worker"]
<1>1. /\ w.pc = "place" /\ Sent(w.order)
      /\ UNCHANGED <<store, venue, wire, batch, syncer, boot, halted, faults>>
  BY DEF PlaceRejected, Placing, At
<1>2. PICK st \in {"REJECTED", "FAILED"} : PlaceResult(IntentState(st, w.qty, "other"))
  BY DEF PlaceRejected
<1>3. w.order \in Order /\ w.qty \in 1..Qty /\ Recorded(orders[w.order])
  BY <1>1, SentTask
<1> DEFINE s == IntentState(st, w.qty, "other")
           t == [w EXCEPT !.pc = "save_result", !.snap = s]
<1>4. s \in Snapshot /\ s.status \in ResultStatus
  BY <1>3, ResultSnapshots
<1>5. SetTask("worker", t)
  BY <1>2 DEF PlaceResult, GotoWith
<1> HIDE DEF s
<1>6. t \in Task /\ WorkerOK(t, batch, orders, cmds)
  BY <1>1, <1>4, ResultTask
<1>7. /\ sends' \in [Order -> Nat]
      /\ \A p \in Order : sends'[p] > 0 => sends[p] > 0 \/ Recorded(orders[p])
  BY <1>1, <1>3, SendsCounted
<1>8. /\ venue' \in [Order -> [state : VenueState, qty : 0..Qty, filled : 0..Qty]]
      /\ wire' \subseteq Order \X (1..Qty) /\ VenueUnfilled'
  BY <1>1 DEF Base, TypeOK, VenueUnfilled
<1> HIDE DEF t
<1> QED BY <1>1, <1>5, <1>6, <1>7, <1>8, WorkerActs

LEMMA PlaceTimesOutStep ==
    ASSUME Base, PlaceTimesOut
    PROVE  Base'
<1> DEFINE w == task["worker"]
           t == [w EXCEPT !.pc = "recover"]
<1>1. /\ w.pc = "place" /\ Sent(w.order) /\ SetTask("worker", t)
      /\ wire' \in {wire, wire \cup {<<w.order, w.qty>>}}
      /\ UNCHANGED <<store, venue, batch, syncer, boot, halted, faults>>
  BY DEF PlaceTimesOut, Placing, At, Goto
<1>2. /\ t \in Task /\ WorkerOK(t, batch, orders, cmds)
      /\ w.order \in Order /\ w.qty \in 1..Qty /\ Recorded(orders[w.order])
  BY <1>1, SentTask
<1>3. /\ sends' \in [Order -> Nat]
      /\ \A p \in Order : sends'[p] > 0 => sends[p] > 0 \/ Recorded(orders[p])
  BY <1>1, <1>2, SendsCounted
<1>4. /\ venue' \in [Order -> [state : VenueState, qty : 0..Qty, filled : 0..Qty]]
      /\ VenueUnfilled'
  BY <1>1 DEF Base, TypeOK, VenueUnfilled
<1>5. wire' \subseteq Order \X (1..Qty)
  BY <1>1, <1>2 DEF Base, TypeOK
<1> HIDE DEF t
<1> QED BY <1>1, <1>2, <1>3, <1>4, <1>5, WorkerActs

------------------------------------------------------------------------------
(* Post-only orders and cancels, by the worker *)

(* Back to the end of the command, with nothing in hand that matters.      *)
LEMMA PostOnlyTimeoutStep ==
    ASSUME Base, PostOnlyTimeout
    PROVE  Base'
<1> DEFINE w == task["worker"]
           row == orders[w.order]
<1>1. w.pc = "po_wait"
      /\ UNCHANGED <<store, world, batch, syncer, boot, halted, faults>>
  BY DEF PostOnlyTimeout, At
<1>2. /\ Current[1] = "submit" /\ OnSubmit(w, Current[2], orders, cmds)
      /\ batch # <<>> /\ w \in Task /\ w.order \in Order /\ w.qty \in 1..Qty
  BY <1>1, WorkerOnSubmit, WorkerAtWork DEF SubmitPc
<1>3. /\ w.order = Current[2] /\ Decided(row) /\ w.order \in PostOnly
      /\ orders[FallbackOf[w.order]] = NoRow
  BY <1>1, <1>2 DEF OnSubmit, FallbackPc, PostOnlyPc, BeforeFallbackPc
<1>4. row \in Snapshot
  BY <1>2, <1>3 DEF Base, TypeOK, Decided
<1>5. CASE SetTask("worker", [w EXCEPT !.pc = "sent"])
  <2> DEFINE t == [w EXCEPT !.pc = "sent"]
  <2>1. t \in Task /\ t.pc = "sent" /\ t.order = w.order /\ t.qty = w.qty
    BY <1>2 DEF Task
  <2> HIDE DEF t
  <2>2. OnSubmit(t, Current[2], orders, cmds)
    BY <1>3, <2>1 DEF OnSubmit, EitherPc, PostOnlyPc, BeforeFallbackPc
  <2>3. WorkerOK(t, batch, orders, cmds)
    BY <1>2, <2>1, <2>2 DEF WorkerOK, Current, SnapPc, Saving
  <2>4. SetTask("worker", t)
    BY <1>5 DEF t
  <2> QED BY <1>1, <2>1, <2>3, <2>4, WorkerMoves
<1>6. ASSUME NEW pc \in {"abandon", "save_canceled", "save_pending"}, NEW s \in Snapshot,
             pc = "save_canceled" => s.status = "CANCELED",
             pc = "save_pending" => s.status = "CANCEL_PENDING",
             SetTask("worker", [w EXCEPT !.pc = pc, !.order = w.order, !.snap = s])
      PROVE  Base'
  <2> DEFINE t == [w EXCEPT !.pc = pc, !.order = w.order, !.snap = s]
  <2>1. t \in Task /\ t.pc = pc /\ t.order = w.order /\ t.qty = w.qty /\ t.snap = s
    BY <1>2 DEF Task, Saving
  <2> HIDE DEF t
  <2>2. OnSubmit(t, Current[2], orders, cmds)
    BY <1>3, <1>6, <2>1 DEF OnSubmit, EitherPc, SubmitPc, PostOnlyPc, BeforeFallbackPc
  <2>3. WorkerOK(t, batch, orders, cmds)
    BY <1>2, <2>1, <2>2 DEF WorkerOK, Current
  <2>4. SetTask("worker", t)
    BY <1>6 DEF t
  <2> QED BY <1>1, <2>1, <2>3, <2>4, WorkerMoves
<1>7. /\ {"CANCELED", "CANCEL_PENDING"} \subseteq OrderLifecycleStatus
      /\ \A st \in OrderLifecycleStatus :
            /\ [row EXCEPT !.status = st] \in Snapshot
            /\ [row EXCEPT !.status = st, !.execution_error = "none"] \in Snapshot
  BY <1>4, BuiltSnapshots DEF OrderLifecycleStatus, TERMINAL_ORDER_STATES, OPEN_ORDER_STATES
<1>8. CASE BeginCancel("worker", w, w.order, row)
  <2>1. CASE CancelBeforeAck(w.order, row)
    <3> DEFINE s == [row EXCEPT !.status = "CANCELED", !.execution_error = "none"]
               pc == IF cmds[submit(w.order)] = "PENDING" THEN "abandon" ELSE "save_canceled"
    <3>1. s \in Snapshot /\ s.status = "CANCELED"
      BY <1>4, <1>7 DEF Snapshot
    <3>2. SetTask("worker", [w EXCEPT !.pc = pc, !.order = w.order, !.snap = s])
      BY <1>8, <2>1 DEF BeginCancel, LocalCancel
    <3> QED BY <1>6, <3>1, <3>2
  <2>2. CASE ~CancelBeforeAck(w.order, row)
    <3> DEFINE s == [row EXCEPT !.status = "CANCEL_PENDING"]
    <3>1. s \in Snapshot /\ s.status = "CANCEL_PENDING"
      BY <1>4, <1>7 DEF Snapshot
    <3>2. SetTask("worker", [w EXCEPT !.pc = "save_pending", !.order = w.order, !.snap = s])
      BY <1>8, <2>2 DEF BeginCancel
    <3> QED BY <1>6, <3>1, <3>2
  <2> QED BY <2>1, <2>2
<1> QED BY <1>5, <1>8 DEF PostOnlyTimeout, Goto

LEMMA PostOnlyFallbackStep ==
    ASSUME Base, PostOnlyFallback
    PROVE  Base'
<1> DEFINE w == task["worker"]
           rest == w.snap.remaining_qty
           f == FallbackOf[w.order]
<1>1. w.pc = "po_fallback"
      /\ UNCHANGED <<store, world, batch, syncer, boot, halted, faults>>
  BY DEF PostOnlyFallback, At
<1>2. /\ Current[1] = "submit" /\ OnSubmit(w, Current[2], orders, cmds)
      /\ batch # <<>> /\ w \in Task /\ w.order \in Order /\ w.qty \in 1..Qty
      /\ w.snap \in Snapshot
  BY <1>1, WorkerOnSubmit, WorkerAtWork DEF SubmitPc, SnapPc
<1>3. /\ w.order = Current[2] /\ Decided(orders[w.order]) /\ w.order \in PostOnly
      /\ Covered(orders[w.order], cmds[cancel(w.order)])
  BY <1>1, <1>2 DEF OnSubmit, FallbackPc, PostOnlyPc
<1>4. CASE rest <= Epsilon
  <2> DEFINE t == [w EXCEPT !.pc = "sent"]
  <2>1. t \in Task /\ t.pc = "sent" /\ t.order = w.order /\ t.qty = w.qty
    BY <1>2 DEF Task
  <2>2. SetTask("worker", t)
    BY <1>4 DEF PostOnlyFallback, Goto
  <2> HIDE DEF t
  <2>3. OnSubmit(t, Current[2], orders, cmds)
    BY <1>3, <2>1 DEF OnSubmit, EitherPc, PostOnlyPc, BeforeFallbackPc
  <2>4. WorkerOK(t, batch, orders, cmds)
    BY <1>2, <2>1, <2>3 DEF WorkerOK, Current, SnapPc, Saving
  <2> QED BY <1>1, <2>1, <2>2, <2>4, WorkerMoves
<1>5. CASE ~(rest <= Epsilon)
  <2> DEFINE s == SubmittingState(f, rest)
             t == [w EXCEPT !.pc = "save_submitting", !.order = f, !.qty = rest, !.snap = s]
  <2>1. rest \in 1..Qty
    BY <1>2, <1>5, EpsilonAssumption, BoundsAssumption DEF Snapshot
  <2>2. f \in Order /\ f # w.order
    BY <1>3, OrderAssumption
  <2>3. s \in Snapshot /\ s.status = "SUBMITTING"
    BY <2>1, <2>2, SubmittingSnapshot DEF Base
  <2>4. SetTask("worker", t)
    BY <1>5 DEF PostOnlyFallback
  <2> HIDE DEF s, rest, f
  <2>a. rest \in 0..Qty
    BY <2>1, BoundsAssumption
  <2>5. /\ t \in Task /\ t.pc = "save_submitting" /\ t.order = f /\ t.qty = rest
        /\ t.snap = s
    BY <1>2, <2>a, <2>2, <2>3 DEF Task, Saving
  <2> HIDE DEF t
  <2>6. OnSubmit(t, Current[2], orders, cmds)
    BY <1>3, <2>2, <2>3, <2>5 DEF OnSubmit, SubmitPc, PostOnlyPc, FallbackPc, f
  <2>7. WorkerOK(t, batch, orders, cmds)
    BY <1>2, <2>1, <2>2, <2>3, <2>5, <2>6 DEF WorkerOK, Current
  <2> QED BY <1>1, <2>4, <2>5, <2>7, WorkerMoves
<1> QED BY <1>4, <1>5

------------------------------------------------------------------------------
(* The worker on a cancel command *)

LEMMA CancelTask ==
    ASSUME Base, task["worker"].pc # "idle", Current[1] = "cancel",
           NEW t \in Task, t.pc \in CancelPc \cup EitherPc,
           t.order = task["worker"].order, t.qty = task["worker"].qty,
           t.pc \in SnapPc => t.snap \in Snapshot
    PROVE  WorkerOK(t, batch, orders, cmds)
<1>1. /\ batch # <<>> /\ t.order \in Order /\ t.qty \in 1..Qty
      /\ OnCancel(task["worker"], Current[2], orders)
  BY WorkerAtWork
<1>2. OnCancel(t, Current[2], orders)
  BY <1>1 DEF OnCancel
<1>3. t.pc # "idle"
  BY DEF CancelPc, EitherPc
<1> QED BY <1>1, <1>2, <1>3 DEF WorkerOK, Current

LEMMA CancelMoves ==
    ASSUME Base, task["worker"].pc \in CancelPc,
           NEW pc \in CancelPc \cup EitherPc, NEW s \in Snapshot,
           SetTask("worker", [task["worker"] EXCEPT !.pc = pc, !.snap = s]),
           UNCHANGED <<store, world, batch, syncer, boot, halted, faults>>
    PROVE  Base'
<1> DEFINE w == task["worker"]
           t == [w EXCEPT !.pc = pc, !.snap = s]
<1>1. w.pc # "idle" /\ Current[1] = "cancel" /\ w \in Task
  BY WorkerOnCancel, WorkerAtWork
<1>2. t \in Task /\ t.pc = pc /\ t.order = w.order /\ t.qty = w.qty /\ t.snap = s
  BY <1>1 DEF Task, CancelPc, EitherPc, Saving
<1> HIDE DEF t
<1>3. WorkerOK(t, batch, orders, cmds)
  BY <1>1, <1>2, CancelTask
<1> QED BY <1>1, <1>2, <1>3, WorkerMoves DEF t

(* A step that keeps the snapshot in hand.                                 *)
LEMMA CancelGoes ==
    ASSUME Base, task["worker"].pc \in CancelPc,
           NEW pc \in CancelPc \cup EitherPc,
           pc \in SnapPc => task["worker"].pc \in SnapPc
    PROVE  LET t == [task["worker"] EXCEPT !.pc = pc] IN
           t \in Task /\ WorkerOK(t, batch, orders, cmds)
<1> DEFINE w == task["worker"]
           t == [w EXCEPT !.pc = pc]
<1>1. /\ w.pc # "idle" /\ Current[1] = "cancel" /\ w \in Task
      /\ w.pc \in SnapPc => w.snap \in Snapshot
  BY WorkerOnCancel, WorkerAtWork
<1>2. t \in Task /\ t.pc = pc /\ t.order = w.order /\ t.qty = w.qty /\ t.snap = w.snap
  BY <1>1 DEF Task, CancelPc, EitherPc, Saving
<1> HIDE DEF t
<1>3. WorkerOK(t, batch, orders, cmds)
  BY <1>1, <1>2, CancelTask
<1> QED BY <1>2, <1>3 DEF t

(* The snapshots a cancel has in hand.                                     *)
LEMMA CancelSnapshots ==
    ASSUME Base, NEW o \in Order
    PROVE  /\ MapOrderState(o, venue[o]) \in Snapshot
           /\ RecoverableOrderState(MapOrderState(o, venue[o]), "other") \in Snapshot
           /\ \A s \in Snapshot :
                /\ [s EXCEPT !.status = "CANCEL_PENDING"] \in Snapshot
                /\ [s EXCEPT !.status = "CANCELED", !.execution_error = "none"] \in Snapshot
                /\ [s EXCEPT !.status = "FAILED", !.execution_error = "other"] \in Snapshot
                /\ RecoverableOrderState(s, "other") \in Snapshot
                /\ RecoverableOrderState(s, "cancel_unknown") \in Snapshot
<1>1. /\ {"FAILED", "CANCEL_PENDING", "CANCELED"} \subseteq OrderLifecycleStatus
      /\ {"other", "cancel_unknown"} \subseteq ExecutionError
  BY DEF OrderLifecycleStatus, TERMINAL_ORDER_STATES, OPEN_ORDER_STATES, ExecutionError
<1>2. venue[o] \in [state : VenueState, qty : 0..Qty, filled : 0..Qty]
  BY DEF Base, TypeOK
<1>3. MapOrderState(o, venue[o]) \in Snapshot
  BY <1>2, BuiltSnapshots
<1>4. \A s \in Snapshot : /\ RecoverableOrderState(s, "other") \in Snapshot
                          /\ RecoverableOrderState(s, "cancel_unknown") \in Snapshot
  BY <1>1, BuiltSnapshots
<1>5. \A s \in Snapshot :
         /\ [s EXCEPT !.status = "CANCEL_PENDING"] \in Snapshot
         /\ [s EXCEPT !.status = "CANCELED", !.execution_error = "none"] \in Snapshot
         /\ [s EXCEPT !.status = "FAILED", !.execution_error = "other"] \in Snapshot
  BY <1>1, BuiltSnapshots
<1> QED BY <1>3, <1>4, <1>5

LEMMA ProcessCancelStep ==
    ASSUME Base, ProcessCancel
    PROVE  Base'
<1> DEFINE w == task["worker"]
           row == orders[w.order]
<1>1. w.pc = "cancel" /\ w.pc \in CancelPc
      /\ UNCHANGED <<store, world, batch, syncer, boot, halted, faults>>
  BY DEF ProcessCancel, At, CancelPc
<1>2. w.pc # "idle" /\ Current[1] = "cancel" /\ OnCancel(w, Current[2], orders)
      /\ w \in Task /\ w.order \in Order
  BY <1>1, WorkerOnCancel, WorkerAtWork
<1>3. row \in Snapshot
  BY <1>2 DEF OnCancel, Base, TypeOK
<1>4. CASE SetTask("worker", [w EXCEPT !.pc = "sent"])
  <2>1. "sent" \in CancelPc \cup EitherPc /\ "sent" \notin SnapPc
    BY DEF EitherPc, SnapPc, Saving
  <2> QED BY <1>1, <1>2, <1>4, <2>1, CancelGoes, WorkerMoves
<1>5. CASE SetTask("worker", LocalCancel(w, w.order, row))
  <2> DEFINE s == [row EXCEPT !.status = "CANCELED", !.execution_error = "none"]
             pc == IF cmds[submit(w.order)] = "PENDING" THEN "abandon" ELSE "save_canceled"
  <2>1. s \in Snapshot
    BY <1>2, <1>3, CancelSnapshots
  <2>2. pc \in CancelPc \cup EitherPc
    BY DEF EitherPc
  <2>3. [w EXCEPT !.pc = pc, !.order = w.order, !.snap = s] = [w EXCEPT !.pc = pc, !.snap = s]
    BY <1>2 DEF Task
  <2>4. SetTask("worker", [w EXCEPT !.pc = pc, !.snap = s])
    BY <1>5, <2>3 DEF LocalCancel
  <2> HIDE DEF s, pc
  <2> QED BY <1>1, <2>1, <2>2, <2>4, CancelMoves
<1>6. CASE SetTask("worker", [w EXCEPT !.pc = "save_cancel_pending",
                                       !.snap = [row EXCEPT !.status = "CANCEL_PENDING"]])
  <2>1. [row EXCEPT !.status = "CANCEL_PENDING"] \in Snapshot
    BY <1>2, <1>3, CancelSnapshots
  <2>2. "save_cancel_pending" \in CancelPc \cup EitherPc
    BY DEF CancelPc
  <2> QED BY <1>1, <1>6, <2>1, <2>2, CancelMoves
<1>7. CASE SetTask("worker", [w EXCEPT !.pc = "c_lookup", !.snap = row])
  <2>1. "c_lookup" \in CancelPc \cup EitherPc
    BY DEF CancelPc
  <2> QED BY <1>1, <1>3, <1>7, <2>1, CancelMoves
<1> QED BY <1>4, <1>5, <1>6, <1>7 DEF ProcessCancel, Goto, GotoWith

LEMMA CancelLookupStep ==
    ASSUME Base, CancelLookup
    PROVE  Base'
<1> DEFINE w == task["worker"]
           mapped == MapOrderState(w.order, venue[w.order])
<1>1. /\ w.pc = "c_lookup" /\ w.pc \in CancelPc /\ w.pc \in SnapPc
      /\ UNCHANGED <<store, world, batch, syncer, boot, halted, faults>>
  BY DEF CancelLookup, At, CancelPc, SnapPc
<1>2. w.pc # "idle" /\ w \in Task /\ w.order \in Order /\ w.snap \in Snapshot
  BY <1>1, WorkerOnCancel, WorkerAtWork
<1>3. /\ mapped \in Snapshot /\ [mapped EXCEPT !.status = "CANCEL_PENDING"] \in Snapshot
      /\ [w.snap EXCEPT !.status = "CANCEL_PENDING"] \in Snapshot
  BY <1>2, CancelSnapshots
<1>4. {"save_result", "c_request"} \subseteq CancelPc \cup EitherPc
  BY DEF CancelPc, EitherPc
<1>5. CASE SetTask("worker", [w EXCEPT !.pc = "save_result"])
  BY <1>1, <1>2, <1>4, <1>5, CancelGoes, WorkerMoves
<1>6. ASSUME NEW s \in {w.snap, mapped},
             SetTask("worker", [w EXCEPT !.pc = "c_request",
                                         !.snap = [s EXCEPT !.status = "CANCEL_PENDING"]])
      PROVE  Base'
  BY <1>1, <1>3, <1>4, <1>6, CancelMoves
<1>7. CASE SetTask("worker", [w EXCEPT !.pc = "save_result", !.snap = mapped])
  BY <1>1, <1>3, <1>4, <1>7, CancelMoves
<1> HIDE DEF mapped
<1> QED BY <1>5, <1>6, <1>7 DEF CancelLookup, Goto, GotoWith, mapped

LEMMA CancelAcceptedStep ==
    ASSUME Base, CancelAccepted
    PROVE  Base'
<1> DEFINE w == task["worker"]
<1>1. /\ w.pc = "c_request" /\ w.pc \in CancelPc /\ w.pc \in SnapPc
      /\ UNCHANGED <<store, wire, sends, batch, syncer, boot, halted, faults>>
  BY DEF CancelAccepted, At, CancelPc, SnapPc
<1>2. PICK pc \in {"c_detail", "c_recover"} : SetTask("worker", [w EXCEPT !.pc = pc])
  BY DEF CancelAccepted, Goto
<1>3. w.pc # "idle" /\ w.order \in Order
  BY <1>1, WorkerOnCancel, WorkerAtWork
<1>4. [w EXCEPT !.pc = pc] \in Task /\ WorkerOK([w EXCEPT !.pc = pc], batch, orders, cmds)
  BY <1>1, CancelGoes DEF CancelPc
<1>5. /\ Resting(venue[w.order])
      /\ venue' = [venue EXCEPT ![w.order].state = "canceling"]
  BY DEF CancelAccepted
<1>6. venue \in [Order -> [state : VenueState, qty : 0..Qty, filled : 0..Qty]]
  BY DEF Base, TypeOK
<1>7. /\ venue' \in [Order -> [state : VenueState, qty : 0..Qty, filled : 0..Qty]]
      /\ VenueUnfilled'
  BY <1>3, <1>5, <1>6 DEF VenueState, Base, VenueUnfilled, Resting
<1>8. wire' \subseteq Order \X (1..Qty) /\ sends' \in [Order -> Nat] /\ sends' = sends
  BY <1>1 DEF Base, TypeOK
<1> QED BY <1>1, <1>2, <1>3, <1>4, <1>7, <1>8, WorkerActs

LEMMA CancelRejectedStep ==
    ASSUME Base, CancelRejected
    PROVE  Base'
<1> DEFINE w == task["worker"]
           s == [w.snap EXCEPT !.status = "FAILED", !.execution_error = "other"]
<1>1. /\ w.pc = "c_request" /\ w.pc \in CancelPc /\ w.pc \in SnapPc
      /\ SetTask("worker", [w EXCEPT !.pc = "save_result", !.snap = s])
      /\ UNCHANGED <<store, world, batch, syncer, boot, halted, faults>>
  BY DEF CancelRejected, At, CancelPc, SnapPc, GotoWith
<1>2. s \in Snapshot /\ "save_result" \in CancelPc \cup EitherPc
  BY <1>1, WorkerOnCancel, WorkerAtWork, CancelSnapshots DEF EitherPc
<1> HIDE DEF s
<1> QED BY <1>1, <1>2, CancelMoves

LEMMA CancelTimesOutStep ==
    ASSUME Base, CancelTimesOut
    PROVE  Base'
<1> DEFINE w == task["worker"]
<1>1. /\ w.pc = "c_request" /\ w.pc \in CancelPc /\ w.pc \in SnapPc
      /\ SetTask("worker", [w EXCEPT !.pc = "c_recover"])
      /\ UNCHANGED <<store, world, batch, syncer, boot, halted, faults>>
  BY DEF CancelTimesOut, At, CancelPc, SnapPc, Goto
<1>2. w.pc # "idle" /\ "c_recover" \in CancelPc \cup EitherPc
  BY <1>1 DEF CancelPc
<1> QED BY <1>1, <1>2, CancelGoes, WorkerMoves

LEMMA CancelDetailStep ==
    ASSUME Base, CancelDetail
    PROVE  Base'
<1> DEFINE w == task["worker"]
           mapped == MapOrderState(w.order, venue[w.order])
<1>1. /\ w.pc = "c_detail" /\ w.pc \in CancelPc /\ w.pc \in SnapPc
      /\ UNCHANGED <<store, world, batch, syncer, boot, halted, faults>>
  BY DEF CancelDetail, At, CancelPc, SnapPc
<1>2. PICK s \in {mapped, RecoverableOrderState(mapped, "other"), w.snap,
                  RecoverableOrderState(w.snap, "other")} :
            SetTask("worker", [w EXCEPT !.pc = "save_result", !.snap = s])
  BY DEF CancelDetail, GotoWith
<1>3. w.order \in Order /\ w.snap \in Snapshot /\ "save_result" \in CancelPc \cup EitherPc
  BY <1>1, WorkerOnCancel, WorkerAtWork DEF EitherPc
<1>4. s \in Snapshot
  BY <1>3, CancelSnapshots
<1> QED BY <1>1, <1>2, <1>3, <1>4, CancelMoves

LEMMA RecoverCancelStep ==
    ASSUME Base, RecoverCancel
    PROVE  Base'
<1> DEFINE w == task["worker"]
           mapped == MapOrderState(w.order, venue[w.order])
<1>1. /\ w.pc = "c_recover" /\ w.pc \in CancelPc /\ w.pc \in SnapPc
      /\ UNCHANGED <<store, world, batch, syncer, boot, halted, faults>>
  BY DEF RecoverCancel, At, CancelPc, SnapPc
<1>2. PICK s \in {mapped, RecoverableOrderState(w.snap, "cancel_unknown")} :
            SetTask("worker", [w EXCEPT !.pc = "save_result", !.snap = s])
  BY DEF RecoverCancel, GotoWith
<1>3. w.order \in Order /\ w.snap \in Snapshot /\ "save_result" \in CancelPc \cup EitherPc
  BY <1>1, WorkerOnCancel, WorkerAtWork DEF EitherPc
<1>4. s \in Snapshot
  BY <1>3, CancelSnapshots
<1> QED BY <1>1, <1>2, <1>3, <1>4, CancelMoves

------------------------------------------------------------------------------
(* Steps that only change a task, the batch or the sync loop's lists *)

FaultCounts == [crash : 0..MaxCrashes, db : 0..MaxDbFaults, halt : 0..MaxHalts]

(* An actor of the running process goes on to a task that is good.         *)
LEMMA TaskStep ==
    ASSUME Base, phase = "running", NEW a \in {"worker", "operator"}, NEW t \in Task,
           SetTask(a, t), faults' \in FaultCounts,
           a = "worker" => WorkerOK(t, batch, orders, cmds),
           a = "operator" => OperatorOK(t, orders, cmds),
           UNCHANGED <<store, world, batch, syncer, boot, halted>>
    PROVE  Base'
<1>1. task' = [task EXCEPT ![a] = t] /\ task \in [{"worker", "operator"} -> Task]
  BY DEF Base, TypeOK, SetTask
<1>2. task' \in [{"worker", "operator"} -> Task]
  BY <1>1
<1>3. TypeOK'
  BY <1>2 DEF Base, TypeOK, store, world, syncer, boot, FaultCounts
<1>4. StoppedIsIdle'
  BY DEF StoppedIsIdle, boot
<1>5. /\ WorkerOK(task'["worker"], batch, orders, cmds)
      /\ OperatorOK(task'["operator"], orders, cmds)
  BY <1>1 DEF Base
<1>6. SyncOK' /\ VenueUnfilled'
  BY DEF Base, SyncOK, VenueUnfilled, store, world, syncer
<1>7. /\ UNCHANGED <<orders, cmds, batch, phase, blockers, unresolved, reconciled,
                     preboot, halted>>
      /\ sends' = sends
  BY DEF store, boot, world
<1> QED BY <1>3, <1>4, <1>5, <1>6, <1>7, ActorStep

LEMMA FaultsCounted ==
    ASSUME Base
    PROVE  faults \in FaultCounts /\ (DbFault => faults' \in FaultCounts)
<1>1. faults \in FaultCounts
  BY DEF Base, TypeOK, FaultCounts
<1>2. DbFault => faults' \in FaultCounts
  BY <1>1, BoundsAssumption DEF DbFault, FaultCounts
<1> QED BY <1>1, <1>2

(* The idle task, in anyone's hands.                                       *)
LEMMA IdleTask ==
    /\ Idle \in Task
    /\ \A b, rows, st : WorkerOK(Idle, b, rows, st)
    /\ \A rows, st : OperatorOK(Idle, rows, st)
<1>1. Idle \in Task /\ Idle.pc = "idle"
  BY BoundsAssumption DEF Idle, Task
<1> QED BY <1>1 DEF WorkerOK, OperatorOK

(* The operator's request on the order o, with a snapshot in hand.         *)
LEMMA OperatorTask ==
    ASSUME Base, NEW o \in Order, orders[o] # NoRow, NEW s \in Snapshot,
           NEW pc \in {"save_pending", "save_canceled", "abandon", "save_resolved"},
           pc = "abandon" => cmds[submit(o)] # "none"
    PROVE  LET t == [Idle EXCEPT !.pc = pc, !.order = o, !.snap = s] IN
           t \in Task /\ OperatorOK(t, orders, cmds)
<1> DEFINE t == [Idle EXCEPT !.pc = pc, !.order = o, !.snap = s]
<1>1. t \in Task /\ t.pc = pc /\ t.order = o /\ t.snap = s
  <2>1. Idle \in Task
    BY IdleTask
  <2> QED BY <2>1 DEF Task, Saving
<1> HIDE DEF t
<1>2. OperatorOK(t, orders, cmds)
  BY <1>1 DEF OperatorOK
<1> QED BY <1>1, <1>2 DEF t

LEMMA RequestCancelStep ==
    ASSUME Base, NEW o \in Order, RequestCancel(o)
    PROVE  Base'
<1> DEFINE row == orders[o]
           pc == IF cmds[submit(o)] = "PENDING" THEN "abandon" ELSE "save_canceled"
           s == [row EXCEPT !.status = "CANCELED", !.execution_error = "none"]
           p == [row EXCEPT !.status = "CANCEL_PENDING"]
<1>1. /\ phase = "running" /\ row # NoRow
      /\ UNCHANGED <<store, world, batch, syncer, boot, halted, faults>>
  BY DEF RequestCancel, Running
<1>2. row \in Snapshot
  BY <1>1 DEF Base, TypeOK
<1>3. s \in Snapshot /\ p \in Snapshot
  BY <1>2, CancelSnapshots
<1>4. \/ SetTask("operator", [Idle EXCEPT !.pc = pc, !.order = o, !.snap = s])
      \/ SetTask("operator", [Idle EXCEPT !.pc = "save_pending", !.order = o, !.snap = p])
  BY DEF RequestCancel, BeginCancel, LocalCancel
<1>5. faults' \in FaultCounts
  BY <1>1, FaultsCounted
<1> HIDE DEF s, p
<1>6. CASE SetTask("operator", [Idle EXCEPT !.pc = pc, !.order = o, !.snap = s])
  <2>1. /\ pc \in {"save_pending", "save_canceled", "abandon", "save_resolved"}
        /\ pc = "abandon" => cmds[submit(o)] # "none"
    OBVIOUS
  <2> HIDE DEF pc
  <2> QED BY <1>1, <1>3, <1>5, <1>6, <2>1, OperatorTask, TaskStep
<1>7. CASE SetTask("operator", [Idle EXCEPT !.pc = "save_pending", !.order = o, !.snap = p])
  BY <1>1, <1>3, <1>5, <1>7, OperatorTask, TaskStep
<1> QED BY <1>4, <1>6, <1>7

LEMMA ResolveStuckStep ==
    ASSUME Base, NEW o \in Order, ResolveStuckSubmission(o)
    PROVE  Base'
<1> DEFINE s == [orders[o] EXCEPT !.status = "FAILED", !.execution_error = "other"]
<1>1. /\ phase = "running" /\ orders[o] # NoRow
      /\ SetTask("operator", [Idle EXCEPT !.pc = "save_resolved", !.order = o, !.snap = s])
      /\ UNCHANGED <<store, world, batch, syncer, boot, halted, faults>>
  BY DEF ResolveStuckSubmission, Running, IsStuck
<1>2. orders[o] \in Snapshot
  BY <1>1 DEF Base, TypeOK
<1>3. s \in Snapshot
  BY <1>2, CancelSnapshots
<1>4. faults' \in FaultCounts
  BY <1>1, FaultsCounted
<1> HIDE DEF s
<1> QED BY <1>1, <1>3, <1>4, OperatorTask, TaskStep

(* The request, or the post-only orchestration, is left.                   *)
LEMMA CancelOrderRaisesStep ==
    ASSUME Base, NEW a \in {"worker", "operator"}, CancelOrderRaises(a)
    PROVE  Base'
<1>1. /\ task[a].pc \in {"abandon", "enqueue"} /\ faults' \in FaultCounts
      /\ UNCHANGED <<store, world, batch, syncer, boot, halted>>
  BY FaultsCounted DEF CancelOrderRaises
<1>2. phase = "running"
  BY <1>1 DEF Base, StoppedIsIdle, Idle
<1>3. CASE a = "operator"
  BY <1>1, <1>2, <1>3, IdleTask, TaskStep DEF CancelOrderRaises
<1>4. CASE a = "worker"
  <2> DEFINE w == task["worker"]
             t == [w EXCEPT !.pc = "sent", !.snap = NoRow]
  <2>1. /\ w.pc # "idle" /\ w \in Task /\ batch # <<>> /\ w.order \in Order
        /\ w.qty \in 1..Qty /\ Current[1] \in {"submit", "cancel"}
        /\ Current[1] = "cancel" => OnCancel(w, Current[2], orders)
        /\ Current[1] = "submit" => OnSubmit(w, Current[2], orders, cmds)
    BY <1>1, <1>4, WorkerAtWork
  <2>2. t \in Task /\ t.pc = "sent" /\ t.order = w.order /\ t.qty = w.qty
    BY <2>1 DEF Task
  <2>3. SetTask("worker", t)
    BY <1>4 DEF CancelOrderRaises
  <2> HIDE DEF t
  <2>4. CASE Current[1] = "cancel"
    BY <1>2, <1>1, <2>1, <2>2, <2>3, <2>4, CancelTask, TaskStep DEF EitherPc, SnapPc, Saving
  <2>5. CASE Current[1] = "submit"
    <3>1. w.order = Current[2] /\ Decided(orders[Current[2]])
      BY <1>1, <1>4, <2>1, <2>5 DEF OnSubmit, FallbackPc, PostOnlyPc
    <3>2. OnSubmit(t, Current[2], orders, cmds)
      BY <2>2, <3>1 DEF OnSubmit, EitherPc, PostOnlyPc, BeforeFallbackPc
    <3>3. WorkerOK(t, batch, orders, cmds)
      BY <2>1, <2>2, <2>5, <3>2 DEF WorkerOK, SnapPc, Saving, Current
    <3> QED BY <1>1, <1>2, <2>2, <2>3, <3>3, TaskStep
  <2> QED BY <2>1, <2>4, <2>5
<1> QED BY <1>3, <1>4

(* The sync loop works on its lists.                                       *)
LEMMA SyncStep ==
    ASSUME Base, phase = "running", syncTodo' \in Seq(Pending), syncSave' \in Seq(Pending),
           \A i \in 1..Len(syncTodo') : orders[syncTodo'[i].order] # NoRow,
           \A i \in 1..Len(syncSave') : orders[syncSave'[i].order] # NoRow,
           UNCHANGED <<store, world, task, batch, boot, halted>>, faults' \in FaultCounts
    PROVE  Base'
<1>1. TypeOK'
  BY DEF Base, TypeOK, store, world, boot, FaultCounts
<1>2. StoppedIsIdle'
  BY DEF StoppedIsIdle, boot
<1>3. /\ WorkerOK(task'["worker"], batch, orders, cmds)
      /\ OperatorOK(task'["operator"], orders, cmds)
  BY DEF Base
<1>4. SyncOK' /\ VenueUnfilled'
  BY DEF Base, SyncOK, VenueUnfilled, store, world
<1>5. /\ UNCHANGED <<orders, cmds, batch, phase, blockers, unresolved, reconciled,
                     preboot, halted>>
      /\ sends' = sends
  BY DEF store, boot, world
<1> QED BY <1>1, <1>2, <1>3, <1>4, <1>5, ActorStep

(* What is still to be asked about or saved is about recorded orders.      *)
LEMMA PendingFacts ==
    ASSUME Base, NEW q \in {syncTodo, syncSave}, q # <<>>
    PROVE  /\ q \in Seq(Pending) /\ Tail(q) \in Seq(Pending)
           /\ \A i \in 1..Len(Tail(q)) : orders[Tail(q)[i].order] # NoRow
           /\ Head(q) \in Pending /\ Head(q).order \in Order /\ Head(q).snap \in Snapshot
           /\ orders[Head(q).order] \in Snapshot /\ orders[Head(q).order] # NoRow
<1>1. q \in Seq(Pending) /\ \A i \in 1..Len(q) : orders[q[i].order] # NoRow
  BY DEF Base, TypeOK, SyncOK
<1>2. /\ Head(q) = q[1] /\ Head(q) \in Pending /\ Tail(q) \in Seq(Pending)
      /\ Len(Tail(q)) = Len(q) - 1 /\ \A i \in 1..Len(Tail(q)) : Tail(q)[i] = q[i + 1]
      /\ 1 \in 1..Len(q) /\ Len(q) \in Nat
  BY <1>1, HeadTailProperties, EmptySeq, LenProperties
<1>3. Head(q).order \in Order /\ Head(q).snap \in Snapshot
  BY <1>2 DEF Pending
<1>4. orders[Head(q).order] # NoRow /\ orders[Head(q).order] \in Snapshot
  BY <1>1, <1>2, <1>3 DEF Base, TypeOK
<1>5. \A i \in 1..Len(Tail(q)) : i + 1 \in 1..Len(q)
  BY <1>2
<1> QED BY <1>1, <1>2, <1>3, <1>4, <1>5

LEMMA SyncAskedStep ==
    ASSUME Base, NEW snaps \in SUBSET Snapshot, SyncAsked(snaps)
    PROVE  Base'
<1> DEFINE h == Head(syncTodo)
<1>1. /\ phase = "running" /\ syncTodo # <<>> /\ syncTodo' = Tail(syncTodo)
      /\ UNCHANGED <<store, world, task, batch, boot, halted, faults>>
  BY DEF SyncAsked, Running
<1>2. PICK s \in snaps : syncSave' = Append(syncSave, [h EXCEPT !.snap = s])
  BY DEF SyncAsked
<1>3. /\ h \in Pending /\ h.order \in Order /\ orders[h.order] # NoRow
      /\ Tail(syncTodo) \in Seq(Pending)
      /\ \A i \in 1..Len(Tail(syncTodo)) : orders[Tail(syncTodo)[i].order] # NoRow
  BY <1>1, PendingFacts
<1> DEFINE e == [h EXCEPT !.snap = s]
<1>4. e \in Pending /\ e.order = h.order
  BY <1>3 DEF Pending
<1> HIDE DEF e, h
<1>5. syncSave \in Seq(Pending) /\ \A i \in 1..Len(syncSave) : orders[syncSave[i].order] # NoRow
  BY DEF Base, TypeOK, SyncOK
<1>6. /\ Append(syncSave, e) \in Seq(Pending) /\ Len(Append(syncSave, e)) = Len(syncSave) + 1
      /\ \A i \in 1..Len(syncSave) : Append(syncSave, e)[i] = syncSave[i]
      /\ Append(syncSave, e)[Len(syncSave) + 1] = e /\ Len(syncSave) \in Nat
  BY <1>4, <1>5, AppendProperties, LenProperties
<1>7. \A i \in 1..Len(Append(syncSave, e)) : orders[Append(syncSave, e)[i].order] # NoRow
  BY <1>3, <1>4, <1>5, <1>6
<1>8. syncSave' = Append(syncSave, e) /\ faults' \in FaultCounts
  BY <1>1, <1>2, FaultsCounted DEF e
<1> QED BY <1>1, <1>3, <1>6, <1>7, <1>8, SyncStep

LEMMA SyncAnsweredStep ==
    ASSUME Base, SyncAnswered
    PROVE  Base'
<1> DEFINE h == Head(syncTodo)
<1>1. h.order \in Order /\ h.snap \in Snapshot
  BY PendingFacts DEF SyncAnswered
<1>2. MapOrderState(h.order, venue[h.order]) \in Snapshot
  BY <1>1, CancelSnapshots
<1>3. PICK s \in Snapshot : SyncAsked({s})
  BY <1>1, <1>2 DEF SyncAnswered
<1> QED BY <1>3, SyncAskedStep

LEMMA SyncFailsStep ==
    ASSUME Base, SyncFails
    PROVE  Base'
<1> DEFINE h == Head(syncTodo)
           mapped == MapOrderState(h.order, venue[h.order])
           snaps == {RecoverableOrderState(h.snap, "other")} \cup
                    (IF venue[h.order].state = "none" THEN {}
                     ELSE {RecoverableOrderState(mapped, "other")})
<1>1. h.order \in Order /\ h.snap \in Snapshot /\ SyncAsked(snaps)
  BY PendingFacts DEF SyncFails
<1>2. /\ RecoverableOrderState(h.snap, "other") \in Snapshot
      /\ RecoverableOrderState(mapped, "other") \in Snapshot
  BY <1>1, CancelSnapshots
<1>3. snaps \in SUBSET Snapshot
  BY <1>2
<1> HIDE DEF snaps
<1> QED BY <1>1, <1>3, SyncAskedStep

LEMMA SyncSkipsStep ==
    ASSUME Base, SyncSkips
    PROVE  Base'
<1>1. /\ phase = "running" /\ syncTodo # <<>> /\ syncTodo' = Tail(syncTodo)
      /\ UNCHANGED <<store, world, task, batch, boot, halted, faults>> /\ syncSave' = syncSave
  BY DEF SyncSkips, Running
<1>2. /\ Tail(syncTodo) \in Seq(Pending)
      /\ \A i \in 1..Len(Tail(syncTodo)) : orders[Tail(syncTodo)[i].order] # NoRow
  BY <1>1, PendingFacts
<1>3. /\ syncSave \in Seq(Pending) /\ faults' \in FaultCounts
      /\ \A i \in 1..Len(syncSave) : orders[syncSave[i].order] # NoRow
  BY <1>1, FaultsCounted DEF Base, TypeOK, SyncOK
<1> QED BY <1>1, <1>2, <1>3, SyncStep

LEMMA SyncCollectStep ==
    ASSUME Base, SyncCollect
    PROVE  Base'
<1> DEFINE open == {o \in Order : IsOpen(orders[o])}
           n == Cardinality(open)
<1>1. /\ phase = "running" /\ syncSave' = syncSave
      /\ UNCHANGED <<store, world, task, batch, boot, halted, faults>>
  BY DEF SyncCollect, SyncFree, Running
<1>2. PICK list \in [1..n -> open] :
           syncTodo' = [i \in DOMAIN list |-> [order |-> list[i], snap |-> orders[list[i]]]]
  BY DEF SyncCollect
<1>3. n \in Nat
  BY OrderAssumption, FS_Subset, FS_CardinalityType
<1> HIDE DEF n
<1>4. ASSUME NEW i \in 1..n
      PROVE  list[i] \in Order /\ orders[list[i]] \in Snapshot /\ orders[list[i]] # NoRow
  <2>1. list[i] \in open
    BY <1>2
  <2> QED BY <2>1 DEF Base, TypeOK, IsOpen
<1>5. syncTodo' = [i \in 1..n |-> [order |-> list[i], snap |-> orders[list[i]]]]
  BY <1>2
<1>6. syncTodo' \in [1..n -> Pending]
  BY <1>4, <1>5 DEF Pending
<1>7. syncTodo' \in Seq(Pending)
  BY <1>3, <1>6
<1>8. Len(syncTodo') = n
  BY <1>3, <1>6, <1>7, LenProperties
<1>9. \A i \in 1..Len(syncTodo') : orders[syncTodo'[i].order] # NoRow
  BY <1>4, <1>5, <1>8
<1>10. /\ syncSave \in Seq(Pending) /\ faults' \in FaultCounts
       /\ \A i \in 1..Len(syncSave) : orders[syncSave[i].order] # NoRow
  BY <1>1, FaultsCounted DEF Base, TypeOK, SyncOK
<1> QED BY <1>1, <1>7, <1>9, <1>10, SyncStep

------------------------------------------------------------------------------
(* The worker's loop over commands *)

Entry == [cmd : Command, read : CommandState]
Batches == Seq(Entry)

(* The free worker takes up or drops a batch.                              *)
LEMMA BatchStep ==
    ASSUME Base, phase = "running", batch' \in Batches,
           \A i \in 1..Len(batch') : cmds[batch'[i].cmd] # "none",
           task' = [task EXCEPT !["worker"] = Idle], faults' \in FaultCounts,
           UNCHANGED <<store, world, syncer, boot, halted>>
    PROVE  Base'
<1>1. /\ task \in [{"worker", "operator"} -> Task] /\ Idle \in Task
      /\ OperatorOK(task["operator"], orders, cmds)
  BY IdleTask DEF Base, TypeOK
<1>2. /\ task' \in [{"worker", "operator"} -> Task] /\ task'["worker"] = Idle
      /\ task'["operator"] = task["operator"]
  BY <1>1
<1>3. /\ WorkerOK(task["worker"], batch, orders, cmds)'
      /\ OperatorOK(task["operator"], orders, cmds)'
  BY <1>1, <1>2, IdleTask DEF store
<1>4. TypeOK'
  BY <1>2 DEF Base, TypeOK, Batches, Entry, store, world, syncer, boot, FaultCounts
<1>5. SyncOK' /\ StoppedIsIdle' /\ VenueUnfilled' /\ ReconciledOnce'
  BY DEF Base, SyncOK, StoppedIsIdle, VenueUnfilled, ReconciledOnce, store, world, syncer, boot
<1>6. CommandsKnown' /\ FallbackCovered' /\ RecordedBeforeSent' /\ SentDecided'
      /\ PrebootBlocked'
  BY DEF Base, CommandsKnown, FallbackCovered, RecordedBeforeSent, SentDecided,
         PrebootBlocked, Blocked, store, world, boot
<1> QED BY <1>3, <1>4, <1>5, <1>6 DEF Base

(* The worker's batch, without its head.                                   *)
LEMMA BatchFacts ==
    ASSUME Base, batch # <<>>
    PROVE  /\ batch \in Batches /\ Tail(batch) \in Batches
           /\ \A i \in 1..Len(batch) : cmds[batch[i].cmd] # "none"
           /\ \A i \in 1..Len(Tail(batch)) : cmds[Tail(batch)[i].cmd] # "none"
           /\ \A i \in 1..Len(batch) : batch[i].cmd \in Command
           /\ \A i \in 1..Len(Tail(batch)) : Tail(batch)[i].cmd \in Command
           /\ Head(batch) \in Entry
           /\ Current \in Command /\ Current = Head(batch).cmd
           /\ Current[1] \in {"submit", "cancel"} /\ Current[2] \in Order
           /\ Current = <<Current[1], Current[2]>> /\ cmds[Current] # "none"
<1>1. batch \in Batches /\ \A i \in 1..Len(batch) : cmds[batch[i].cmd] # "none"
  BY DEF Base, TypeOK, CommandsKnown, Batches, Entry
<1>2. /\ Head(batch) = batch[1] /\ Head(batch) \in Entry
      /\ Tail(batch) \in Batches
      /\ Len(Tail(batch)) = Len(batch) - 1
      /\ \A i \in 1..Len(Tail(batch)) : Tail(batch)[i] = batch[i + 1]
      /\ 1 \in 1..Len(batch) /\ Len(batch) \in Nat
  BY <1>1, HeadTailProperties, EmptySeq, LenProperties DEF Batches
<1>3. \A i \in 1..Len(Tail(batch)) : i + 1 \in 1..Len(batch)
  BY <1>2
<1>4. \A i \in 1..Len(batch) : batch[i] \in Entry
  BY <1>1, ElementOfSeq DEF Batches
<1>5. Current \in Command /\ Current = Head(batch).cmd /\ cmds[Current] # "none"
  BY <1>1, <1>2 DEF Current, Entry
<1>6. Current[1] \in {"submit", "cancel"} /\ Current[2] \in Order
      /\ Current = <<Current[1], Current[2]>>
  BY <1>5 DEF Command
<1> QED BY <1>1, <1>2, <1>3, <1>4, <1>5, <1>6 DEF Entry

(* The commands of the batch b exist, in the states st.                    *)
KnownBatch(b, st) ==
    b \in Batches /\ \A i \in 1..Len(b) : b[i].cmd \in Command /\ st[b[i].cmd] # "none"

LEMMA BatchKnown ==
    ASSUME Base
    PROVE  KnownBatch(batch, cmds) /\ (batch # <<>> => KnownBatch(Tail(batch), cmds))
<1>1. CASE batch # <<>>
  BY <1>1, BatchFacts DEF KnownBatch
<1>2. CASE batch = <<>>
  BY <1>2, EmptySeq DEF KnownBatch, Batches
<1> QED BY <1>1, <1>2

LEMMA PollStep ==
    ASSUME Base, Poll
    PROVE  Base'
<1>1. /\ phase = "running" /\ task["worker"] = Idle
      /\ UNCHANGED <<store, world, task, syncer, boot, halted, faults>>
  BY DEF Poll, WorkerFree
<1>2. PICK stale \in SUBSET {c \in Command : cmds[c] = "SENT"} :
        LET due == {i \in DOMAIN queue : \/ cmds[queue[i]] \in {"PENDING", "CLAIMED"}
                                         \/ queue[i] \in stale}
        IN  \E first \in [1..Least(Limit, Cardinality(due)) -> due] :
                batch' = [i \in DOMAIN first |->
                                [cmd |-> queue[first[i]], read |-> cmds[queue[first[i]]]]]
  BY DEF Poll
<1> DEFINE due == {i \in DOMAIN queue : \/ cmds[queue[i]] \in {"PENDING", "CLAIMED"}
                                        \/ queue[i] \in stale}
           n == Least(Limit, Cardinality(due))
<1>3. PICK first \in [1..n -> due] :
        batch' = [i \in DOMAIN first |->
                        [cmd |-> queue[first[i]], read |-> cmds[queue[first[i]]]]]
  BY <1>2
<1>4. queue \in Seq(Command) /\ DOMAIN queue = 1..Len(queue) /\ Len(queue) \in Nat
      /\ cmds \in [Command -> CommandState]
  BY LenProperties DEF Base, TypeOK
<1>5. n \in Nat
  <2>1. IsFiniteSet(1..Len(queue)) /\ due \subseteq 1..Len(queue)
    BY <1>4, FS_Interval
  <2>2. Cardinality(due) \in Nat
    BY <2>1, FS_Subset, FS_CardinalityType
  <2> QED BY <2>2, BoundsAssumption DEF Least
<1> HIDE DEF n
<1>6. ASSUME NEW i \in 1..n
      PROVE  /\ queue[first[i]] \in Command /\ cmds[queue[first[i]]] \in CommandState
             /\ cmds[queue[first[i]]] # "none"
  <2>1. first[i] \in due
    BY <1>3
  <2>2. queue[first[i]] \in Command
    BY <1>4, <2>1, ElementOfSeq
  <2>3. cmds[queue[first[i]]] # "none"
    BY <1>2, <2>1
  <2> QED BY <1>4, <2>2, <2>3
<1>7. batch' = [i \in 1..n |-> [cmd |-> queue[first[i]], read |-> cmds[queue[first[i]]]]]
  BY <1>3
<1>8. batch' \in [1..n -> Entry]
  BY <1>6, <1>7 DEF Entry
<1>9. batch' \in Batches
  BY <1>5, <1>8 DEF Batches
<1>10. Len(batch') = n
  BY <1>5, <1>8, <1>9, LenProperties DEF Batches
<1>11. \A i \in 1..Len(batch') : cmds[batch'[i].cmd] # "none"
  BY <1>6, <1>7, <1>10
<1>12. task' = [task EXCEPT !["worker"] = Idle] /\ faults' \in FaultCounts
  BY <1>1, FaultsCounted DEF Base, TypeOK
<1> QED BY <1>1, <1>9, <1>11, <1>12, BatchStep

LEMMA SkipCommandStep ==
    ASSUME Base, SkipCommand
    PROVE  Base'
<1>1. /\ phase = "running" /\ task["worker"] = Idle /\ batch # <<>> /\ batch' = Tail(batch)
      /\ UNCHANGED <<store, world, task, syncer, boot, halted, faults>>
  BY DEF SkipCommand, WorkerFree
<1>2. task' = [task EXCEPT !["worker"] = Idle] /\ faults' \in FaultCounts
  BY <1>1, FaultsCounted DEF Base, TypeOK
<1> QED BY <1>1, <1>2, BatchFacts, BatchStep

(* A batch that is dropped.                                                *)
LEMMA BatchDropped ==
    ASSUME Base, phase = "running", batch' = <<>>,
           task' = [task EXCEPT !["worker"] = Idle], DbFault,
           UNCHANGED <<store, world, syncer, boot, halted>>
    PROVE  Base'
<1>1. batch' \in Batches /\ Len(batch') = 0
  BY EmptySeq DEF Batches
<1> QED BY <1>1, FaultsCounted, BatchStep

LEMMA ClaimRaisesStep ==
    ASSUME Base, ClaimRaises
    PROVE  Base'
<1>1. /\ phase = "running" /\ task["worker"] = Idle /\ batch' = <<>> /\ DbFault
      /\ UNCHANGED <<store, world, task, syncer, boot, halted>>
  BY DEF ClaimRaises, WorkerFree
<1>2. task' = [task EXCEPT !["worker"] = Idle]
  BY <1>1 DEF Base, TypeOK
<1> QED BY <1>1, <1>2, BatchDropped

(* The end of a command: the worker's task t only says how it ended.       *)
LEMMA EndTask ==
    ASSUME Base, task["worker"].pc # "idle", NEW t \in Task,
           t.pc \in {"sent", "ack", "fail"}, t.order = task["worker"].order,
           t.qty = task["worker"].qty,
           t.pc \in {"sent", "ack"} /\ Current[1] = "submit" => Decided(orders[Current[2]]),
           task["worker"].order = Current[2] \/ task["worker"].pc \in FallbackPc
    PROVE  WorkerOK(t, batch, orders, cmds)
<1> DEFINE w == task["worker"]
<1>1. /\ batch # <<>> /\ t.order \in Order /\ t.qty \in 1..Qty /\ t.pc # "idle"
      /\ Current[1] = "cancel" => OnCancel(w, Current[2], orders)
      /\ Current[1] = "submit" => OnSubmit(w, Current[2], orders, cmds)
  BY WorkerAtWork
<1>2. Current[1] = "cancel" => OnCancel(t, Current[2], orders)
  BY <1>1 DEF OnCancel, EitherPc
<1>3. Current[1] = "submit" => OnSubmit(t, Current[2], orders, cmds)
  BY <1>1 DEF OnSubmit, EitherPc, PostOnlyPc, BeforeFallbackPc, FallbackPc
<1>4. t.pc \notin SnapPc
  BY DEF SnapPc, Saving
<1> QED BY <1>1, <1>2, <1>3, <1>4 DEF WorkerOK, Current

LEMMA MarkRaisesStep ==
    ASSUME Base, MarkRaises
    PROVE  Base'
<1> DEFINE w == task["worker"]
           t == [w EXCEPT !.pc = "fail"]
<1>1. /\ w.pc \in {"sent", "ack", "fail"} /\ w.pc # "idle" /\ w.pc \in FallbackPc /\ DbFault
      /\ UNCHANGED <<store, world, syncer, boot, halted>>
  BY DEF MarkRaises, At, FallbackPc
<1>2. phase = "running" /\ w \in Task
  BY <1>1, WorkerAtWork
<1>3. CASE w.pc = "fail"
  BY <1>1, <1>2, <1>3, BatchDropped DEF MarkRaises, SetTask
<1>4. CASE w.pc # "fail"
  <2>1. t \in Task /\ t.pc = "fail" /\ t.order = w.order /\ t.qty = w.qty
    BY <1>2 DEF Task
  <2>2. SetTask("worker", t) /\ batch' = batch
    BY <1>4 DEF MarkRaises, Goto
  <2> HIDE DEF t
  <2>3. WorkerOK(t, batch, orders, cmds)
    BY <1>1, <2>1, EndTask
  <2> QED BY <1>1, <1>2, <2>1, <2>2, <2>3, FaultsCounted, TaskStep
<1> QED BY <1>3, <1>4

(* A step that writes one command.  A submit command is that of a recorded *)
(* order, is marked SENT or ACKED when the order is decided, and becomes   *)
(* one that a worker takes up only if it was one.                          *)
LEMMA CommandStep ==
    ASSUME Base, TypeOK', phase = "running",
           NEW k \in {"submit", "cancel"}, NEW o \in Order, NEW s \in CommandState \ {"none"},
           cmds' = [cmds EXCEPT ![<<k, o>>] = s], orders[o] # NoRow,
           k = "submit" => /\ cmds[submit(o)] # "none"
                           /\ s \in {"SENT", "ACKED"} => Decided(orders[o])
                           /\ s \in {"PENDING", "CLAIMED"}
                                => cmds[submit(o)] \in {"PENDING", "CLAIMED"},
           KnownBatch(batch', cmds),
           WorkerOK(task'["worker"], batch', orders, cmds'),
           OperatorOK(task'["operator"], orders, cmds'),
           UNCHANGED <<orders, world, syncer, boot, halted, faults>>
    PROVE  Base'
<1>0. cmds \in [Command -> CommandState] /\ <<k, o>> \in Command
  BY DEF Base, TypeOK, Command
<1>1. /\ \A c \in Command : cmds[c] # "none" => cmds'[c] # "none"
      /\ \A c \in Command : c # <<k, o>> => cmds'[c] = cmds[c]
      /\ cmds'[<<k, o>>] = s
  BY <1>0
<1>2. \A p \in Order : submit(p) \in Command /\ cancel(p) \in Command
  BY DEF Command, submit, cancel
<1>3. RowsForward
  BY ForwardSame DEF Base, TypeOK, RowsForward
<1>4. FallbackCovered' /\ RecordedBeforeSent'
  BY <1>1, <1>2, <1>3, RecordsStable DEF world
<1>5. /\ WorkerOK(task["worker"], batch, orders, cmds)'
      /\ OperatorOK(task["operator"], orders, cmds)'
  OBVIOUS
<1>6. SyncOK' /\ StoppedIsIdle' /\ VenueUnfilled' /\ ReconciledOnce'
  BY DEF Base, SyncOK, StoppedIsIdle, VenueUnfilled, ReconciledOnce, world, syncer, boot
<1>7. CommandsKnown'
  <2>1. /\ \A p \in Order : cmds[submit(p)] # "none" => p \in Originals /\ orders[p] # NoRow
        /\ \A p \in Order : cmds[cancel(p)] # "none" => orders[p] # NoRow
    BY DEF Base, CommandsKnown
  <2>2. ASSUME NEW p \in Order
        PROVE  /\ cmds'[submit(p)] # "none" => p \in Originals /\ orders[p] # NoRow
               /\ cmds'[cancel(p)] # "none" => orders[p] # NoRow
    BY <1>1, <1>2, <2>1 DEF submit, cancel
  <2>3. \A i \in 1..Len(batch') : cmds'[batch'[i].cmd] # "none"
    BY <1>1 DEF KnownBatch
  <2> QED BY <2>2, <2>3 DEF CommandsKnown
<1>8. SentDecided'
  <2> SUFFICES ASSUME NEW p \in Order, cmds'[submit(p)] \in {"SENT", "ACKED"}
               PROVE  Decided(orders[p])
    BY DEF SentDecided
  <2>1. CASE submit(p) = <<k, o>>
    BY <1>1, <2>1 DEF submit
  <2>2. CASE submit(p) # <<k, o>>
    BY <1>1, <1>2, <2>2 DEF Base, SentDecided
  <2> QED BY <2>1, <2>2
<1>9. PrebootBlocked'
  <2>1. \A p \in Order : cmds'[submit(p)] \in {"PENDING", "CLAIMED"}
                            => cmds[submit(p)] \in {"PENDING", "CLAIMED"}
    BY <1>1, <1>2 DEF submit
  <2>2. preboot \subseteq Order
    BY DEF Base, TypeOK
  <2> QED BY <2>1, <2>2 DEF Base, PrebootBlocked, Blocked, boot
<1> QED BY <1>4, <1>5, <1>6, <1>7, <1>8, <1>9 DEF Base

(* The operator's request does not mind a command that is written.         *)
LEMMA OperatorKeeps ==
    ASSUME Base, NEW c \in Command, NEW s \in CommandState \ {"none"},
           cmds' = [cmds EXCEPT ![c] = s]
    PROVE  OperatorOK(task["operator"], orders, cmds')
<1>1. /\ cmds \in [Command -> CommandState] /\ orders \in [Order -> Snapshot \cup {NoRow}]
      /\ OperatorOK(task["operator"], orders, cmds)
  BY DEF Base, TypeOK
<1>2. \A p \in Order : submit(p) \in Command
  BY DEF Command, submit
<1>3. \A p \in Order : cmds[submit(p)] # "none" => cmds'[submit(p)] # "none"
  BY <1>1, <1>2
<1>4. \A p \in Order : Forward(orders[p], orders[p])
  BY <1>1, ForwardSame
<1> QED BY <1>1, <1>3, <1>4, OperatorStable

(* The types after such a step.                                            *)
LEMMA CommandTypes ==
    ASSUME Base, task' \in [{"worker", "operator"} -> Task], batch' \in Batches,
           NEW c \in Command, NEW s \in CommandState, cmds' = [cmds EXCEPT ![c] = s],
           queue' \in Seq(Command),
           UNCHANGED <<orders, world, syncer, boot, halted, faults>>
    PROVE  TypeOK'
<1>1. cmds' \in [Command -> CommandState]
  BY DEF Base, TypeOK
<1> QED BY <1>1 DEF Base, TypeOK, Batches, Entry, world, syncer, boot

LEMMA ClaimCommandStep ==
    ASSUME Base, ClaimCommand
    PROVE  Base'
<1> DEFINE t == [Idle EXCEPT !.pc = Current[1], !.order = Current[2], !.qty = Qty]
           k == Current[1]
           o == Current[2]
<1>1. /\ phase = "running" /\ task["worker"] = Idle /\ batch # <<>> /\ ~MustSkip(Head(batch))
      /\ cmds' = [cmds EXCEPT ![Current] = "CLAIMED"] /\ SetTask("worker", t)
      /\ UNCHANGED <<orders, queue, world, batch, syncer, boot, halted, faults>>
  BY DEF ClaimCommand, WorkerFree
<1>2. /\ Current \in Command /\ Current = Head(batch).cmd /\ k \in {"submit", "cancel"}
      /\ o \in Order /\ Current = <<k, o>> /\ cmds[Current] # "none" /\ batch \in Batches
  BY <1>1, BatchFacts
<1>3. k = "submit" => cmds[submit(o)] \in {"PENDING", "CLAIMED"}
  BY <1>1, <1>2 DEF MustSkip, submit
<1>4. orders[o] # NoRow
  BY <1>2 DEF Base, CommandsKnown, submit, cancel
<1> HIDE DEF k, o
<1>5. t \in Task /\ t.pc = k /\ t.order = o /\ t.qty = Qty
  <2>1. Idle \in Task /\ Qty \in 0..Qty
    BY IdleTask, BoundsAssumption
  <2>2. t = [Idle EXCEPT !.pc = k, !.order = o, !.qty = Qty]
    BY DEF k, o
  <2> HIDE DEF t
  <2> QED BY <1>2, <2>1, <2>2 DEF Task
<1> HIDE DEF t
<1>6. OnCancel(t, o, orders) \/ k # "cancel"
  BY <1>4, <1>5 DEF OnCancel, CancelPc
<1>7. OnSubmit(t, o, orders, cmds') \/ k # "submit"
  BY <1>5 DEF OnSubmit, SubmitPc, PostOnlyPc, BeforeFallbackPc
<1>8. WorkerOK(t, batch, orders, cmds')
  BY <1>1, <1>2, <1>5, <1>6, <1>7, BoundsAssumption DEF WorkerOK, k, o, Current, SnapPc, Saving
<1>9. task' = [task EXCEPT !["worker"] = t] /\ task \in [{"worker", "operator"} -> Task]
      /\ queue \in Seq(Command)
  BY <1>1 DEF SetTask, Base, TypeOK
<1>10. /\ task' \in [{"worker", "operator"} -> Task] /\ task'["worker"] = t
       /\ task'["operator"] = task["operator"]
  BY <1>5, <1>9
<1>11. TypeOK'
  BY <1>1, <1>2, <1>9, <1>10, CommandTypes DEF CommandState
<1>12. "CLAIMED" \in CommandState \ {"none"}
  BY DEF CommandState
<1>13. k = "submit" => cmds[submit(o)] # "none"
  BY <1>2 DEF submit
<1>14. OperatorOK(task["operator"], orders, cmds') /\ KnownBatch(batch', cmds)
  BY <1>1, <1>2, <1>12, OperatorKeeps, BatchKnown
<1> QED BY <1>14, <1>1, <1>2, <1>3, <1>4, <1>8, <1>9, <1>10, <1>11, <1>12, <1>13, CommandStep

(* The worker has written how the current command ended.                   *)
LEMMA CommandWritten ==
    ASSUME Base, task["worker"].pc \in {"sent", "ack", "fail"},
           NEW s \in {"SENT", "ACKED", "FAILED"},
           s \in {"SENT", "ACKED"} => task["worker"].pc \in {"sent", "ack"},
           cmds' = [cmds EXCEPT ![Current] = s],
           NEW t \in Task, SetTask("worker", t),
           \/ t = Idle
           \/ /\ t.pc = "ack" /\ t.order = task["worker"].order
              /\ t.qty = task["worker"].qty /\ s = "SENT",
           KnownBatch(batch', cmds), t # Idle => batch' = batch,
           UNCHANGED <<orders, queue, world, syncer, boot, halted, faults>>
    PROVE  Base'
<1> DEFINE w == task["worker"]
           k == Current[1]
           o == Current[2]
<1>1. /\ w.pc # "idle" /\ phase = "running" /\ batch # <<>>
      /\ k = "submit" => OnSubmit(w, o, orders, cmds)
  BY WorkerAtWork
<1>2. /\ Current \in Command /\ k \in {"submit", "cancel"} /\ o \in Order
      /\ Current = <<k, o>> /\ cmds[Current] # "none"
      /\ batch \in Batches /\ Tail(batch) \in Batches
  BY <1>1, BatchFacts
<1>3. k = "submit" /\ w.pc \in {"sent", "ack"} => Decided(orders[o])
  BY <1>1 DEF OnSubmit
<1>4. orders[o] # NoRow
  BY <1>2 DEF Base, CommandsKnown, submit, cancel
<1>5. task' = [task EXCEPT !["worker"] = t] /\ task \in [{"worker", "operator"} -> Task]
      /\ queue \in Seq(Command)
      /\ orders \in [Order -> Snapshot \cup {NoRow}] /\ cmds \in [Command -> CommandState]
  BY DEF SetTask, Base, TypeOK
<1>6. /\ task' \in [{"worker", "operator"} -> Task] /\ task'["worker"] = t
      /\ task'["operator"] = task["operator"]
  BY <1>5
<1>7. s \in CommandState \ {"none"}
  BY DEF CommandState
<1> HIDE DEF k, o
<1>8. WorkerOK(t, batch', orders, cmds')
  <2>1. CASE t = Idle
    BY <2>1, IdleTask
  <2>2. CASE t # Idle
    <3>1. WorkerOK(t, batch, orders, cmds)
      BY <1>1, <1>3, <2>2, EndTask DEF FallbackPc, k, o
    <3>2. \A p \in Order : cancel(p) \in Command
      BY DEF Command, cancel
    <3>3. \A p \in Order : cmds[cancel(p)] # "none" => cmds'[cancel(p)] # "none"
      BY <1>2, <1>5, <3>2
    <3>4. \A p \in Order : Forward(orders[p], orders[p])
      BY <1>5, ForwardSame
    <3>5. batch' = batch
      BY <2>2
    <3> QED BY <1>2, <1>5, <3>1, <3>3, <3>4, <3>5, WorkerStable DEF Batches, Entry
  <2> QED BY <2>1, <2>2
<1>9. batch' \in Batches
  BY DEF KnownBatch
<1>10. TypeOK'
  BY <1>2, <1>5, <1>6, <1>7, <1>9, CommandTypes
<1>11. k = "submit" => cmds[submit(o)] # "none" /\ (s \in {"SENT", "ACKED"} => Decided(orders[o]))
  BY <1>2, <1>3 DEF submit
<1>12. OperatorOK(task["operator"], orders, cmds')
  BY <1>2, <1>7, OperatorKeeps
<1> QED BY <1>12, <1>1, <1>2, <1>4, <1>5, <1>6, <1>7, <1>8, <1>9, <1>10, <1>11, CommandStep

LEMMA MarkStep ==
    ASSUME Base, MarkSent \/ MarkAcked \/ MarkFailed
    PROVE  Base'
<1> DEFINE w == task["worker"]
           t == [w EXCEPT !.pc = "ack"]
<1>1. w.pc \in {"sent", "ack", "fail"} /\ w.pc # "idle"
  BY DEF MarkSent, MarkAcked, MarkFailed, FinishCommand, At
<1>2. w \in Task /\ Idle \in Task
  BY <1>1, WorkerAtWork, IdleTask
<1>3. CASE MarkSent
  <2>1. t \in Task /\ t.pc = "ack" /\ t.order = w.order /\ t.qty = w.qty
    BY <1>2 DEF Task
  <2>2. /\ w.pc = "sent" /\ cmds' = [cmds EXCEPT ![Current] = "SENT"] /\ SetTask("worker", t)
        /\ batch' = batch
        /\ UNCHANGED <<orders, queue, world, syncer, boot, halted, faults>>
    BY <1>3 DEF MarkSent, At, Goto
  <2> HIDE DEF t
  <2>3. /\ task["worker"].pc \in {"sent", "ack"}
        /\ "SENT" \in {"SENT", "ACKED", "FAILED"}
        /\ \/ t = Idle
           \/ /\ t.pc = "ack" /\ t.order = task["worker"].order
              /\ t.qty = task["worker"].qty /\ "SENT" = "SENT"
        /\ KnownBatch(batch', cmds)
    BY <2>1, <2>2, BatchKnown
  <2> QED BY <1>1, <2>1, <2>2, <2>3, CommandWritten
<1>4. CASE MarkAcked
  <2>1. KnownBatch(Tail(batch), cmds)
    BY <1>1, WorkerAtWork, BatchKnown
  <2> QED BY <1>2, <1>4, <2>1, CommandWritten DEF MarkAcked, FinishCommand, At
<1>5. CASE MarkFailed
  <2>1. KnownBatch(Tail(batch), cmds)
    BY <1>1, WorkerAtWork, BatchKnown
  <2> QED BY <1>2, <1>5, <2>1, CommandWritten DEF MarkFailed, FinishCommand, At
<1> QED BY <1>3, <1>4, <1>5

(* The worker does not mind a command that is written by another actor.    *)
LEMMA WorkerKeeps ==
    ASSUME Base, NEW c \in Command, NEW s \in CommandState \ {"none"},
           cmds' = [cmds EXCEPT ![c] = s]
    PROVE  WorkerOK(task["worker"], batch, orders, cmds')
<1>1. /\ cmds \in [Command -> CommandState] /\ orders \in [Order -> Snapshot \cup {NoRow}]
      /\ WorkerOK(task["worker"], batch, orders, cmds) /\ batch \in Batches
  BY DEF Base, TypeOK, Batches, Entry
<1>2. \A p \in Order : cancel(p) \in Command
  BY DEF Command, cancel
<1>3. \A p \in Order : cmds[cancel(p)] # "none" => cmds'[cancel(p)] # "none"
  BY <1>1, <1>2
<1>4. \A p \in Order : Forward(orders[p], orders[p])
  BY <1>1, ForwardSame
<1> QED BY <1>1, <1>3, <1>4, WorkerStable DEF Batches, Entry

LEMMA AbandonSubmitStep ==
    ASSUME Base, AbandonSubmit
    PROVE  Base'
<1> DEFINE p == task["operator"]
           t == [p EXCEPT !.pc = "save_canceled"]
           o == p.order
<1>1. /\ p.pc = "abandon" /\ cmds' = [cmds EXCEPT ![submit(o)] = "ABANDONED"]
      /\ SetTask("operator", t)
      /\ UNCHANGED <<orders, queue, world, batch, syncer, boot, halted, faults>>
  BY DEF AbandonSubmit, Goto
<1>2. /\ phase = "running" /\ p \in Task /\ o \in Order /\ p.snap \in Snapshot
      /\ orders[o] # NoRow /\ cmds[submit(o)] # "none"
  BY <1>1 DEF Base, TypeOK, StoppedIsIdle, OperatorOK, Idle
<1>3. t \in Task /\ t.pc = "save_canceled" /\ t.order = o /\ t.snap = p.snap
  BY <1>2 DEF Task, Saving
<1> HIDE DEF t
<1>4. OperatorOK(t, orders, cmds')
  BY <1>2, <1>3 DEF OperatorOK
<1>5. /\ submit(o) \in Command /\ submit(o) = <<"submit", o>>
      /\ "ABANDONED" \in CommandState \ {"none"}
  BY <1>2 DEF submit, Command, CommandState
<1>6. WorkerOK(task["worker"], batch, orders, cmds')
  BY <1>1, <1>5, WorkerKeeps
<1>7. task' = [task EXCEPT !["operator"] = t] /\ task \in [{"worker", "operator"} -> Task]
      /\ queue \in Seq(Command) /\ batch \in Batches
  BY <1>1 DEF SetTask, Base, TypeOK, Batches, Entry
<1>8. /\ task' \in [{"worker", "operator"} -> Task] /\ task'["operator"] = t
      /\ task'["worker"] = task["worker"]
  BY <1>3, <1>7
<1>9. TypeOK'
  BY <1>1, <1>5, <1>7, <1>8, CommandTypes
<1>10. cmds' = [cmds EXCEPT ![<<"submit", o>>] = "ABANDONED"]
  BY <1>1 DEF submit
<1>11. WorkerOK(task'["worker"], batch', orders, cmds') /\ KnownBatch(batch', cmds)
  BY <1>1, <1>6, <1>8, BatchKnown
<1>12. OperatorOK(task'["operator"], orders, cmds')
  BY <1>4, <1>8
<1> HIDE DEF p, o
<1> QED BY <1>1, <1>2, <1>5, <1>9, <1>10, <1>11, <1>12, CommandStep

(* cancel_order ends by recording the cancel, or finds it recorded.        *)
LEMMA EnqueueCancelStep ==
    ASSUME Base, NEW a \in {"worker", "operator"}, EnqueueCancel(a)
    PROVE  Base'
<1> DEFINE o == task[a].order
           c == cancel(o)
           t == IF a = "operator" THEN Idle ELSE [task[a] EXCEPT !.pc = "po_fallback"]
<1>1. /\ task[a].pc = "enqueue" /\ EnqueueCommand(c) /\ SetTask(a, t)
      /\ UNCHANGED <<orders, world, batch, syncer, boot, halted, faults>>
  BY DEF EnqueueCancel, Goto
<1>2. /\ phase = "running" /\ task \in [{"worker", "operator"} -> Task]
      /\ queue \in Seq(Command) /\ batch \in Batches /\ cmds \in [Command -> CommandState]
      /\ faults \in FaultCounts
  BY <1>1, FaultsCounted DEF Base, TypeOK, StoppedIsIdle, Idle, Batches, Entry
<1>3. o \in Order /\ orders[o] # NoRow
  <2>1. CASE a = "operator"
    BY <1>1, <2>1 DEF Base, OperatorOK
  <2>2. CASE a = "worker"
    <3>1. task["worker"].pc \in SubmitPc
      BY <1>1, <2>2 DEF SubmitPc
    <3>2. OnSubmit(task["worker"], Current[2], orders, cmds) /\ task["worker"].order \in Order
      BY <3>1, WorkerOnSubmit, WorkerAtWork
    <3> QED BY <1>1, <2>2, <3>2 DEF OnSubmit, FallbackPc, PostOnlyPc, Decided
  <2> QED BY <2>1, <2>2
<1>4. c \in Command /\ c = <<"cancel", o>> /\ "PENDING" \in CommandState \ {"none"}
  BY <1>3 DEF cancel, Command, CommandState
<1>5. t \in Task
  BY <1>2, IdleTask DEF Task
<1>6. task' = [task EXCEPT ![a] = t] /\ task' \in [{"worker", "operator"} -> Task]
  BY <1>1, <1>2, <1>5 DEF SetTask
<1>7. ASSUME NEW st, st[c] # "none", WorkerOK(task["worker"], batch, orders, st),
             OperatorOK(task["operator"], orders, st)
      PROVE  /\ WorkerOK(task'["worker"], batch, orders, st)
             /\ OperatorOK(task'["operator"], orders, st)
  <2>1. CASE a = "operator"
    BY <1>2, <1>6, <1>7, <2>1, IdleTask
  <2>2. CASE a = "worker"
    <3> DEFINE w == task["worker"]
               n == [w EXCEPT !.pc = "po_fallback"]
    <3>1. w.pc = "enqueue" /\ w \in Task /\ task'["worker"] = n
          /\ task'["operator"] = task["operator"]
      BY <1>1, <1>2, <1>6, <2>2
    <3>2. n \in Task /\ n.pc = "po_fallback" /\ n.order = w.order /\ n.qty = w.qty
          /\ n.snap = w.snap
      BY <3>1 DEF Task
    <3>3. /\ batch # <<>> /\ w.order \in Order /\ w.qty \in 1..Qty /\ w.snap \in Snapshot
          /\ Current[1] = "submit"
      BY <3>1, WorkerOnSubmit, WorkerAtWork DEF SubmitPc, SnapPc
    <3>4. OnSubmit(w, Current[2], orders, st)
      BY <1>7, <3>1, <3>3 DEF WorkerOK, Current
    <3>5. Covered(orders[Current[2]], st[cancel(Current[2])]) /\ w.order = Current[2]
      BY <1>7, <2>2, <3>1, <3>4 DEF OnSubmit, FallbackPc, Covered
    <3> HIDE DEF n
    <3>6. OnSubmit(n, Current[2], orders, st)
      BY <3>1, <3>2, <3>4, <3>5 DEF OnSubmit, SubmitPc, PostOnlyPc, BeforeFallbackPc, FallbackPc
    <3>7. WorkerOK(n, batch, orders, st)
      BY <3>2, <3>3, <3>6 DEF WorkerOK, Current
    <3> QED BY <1>7, <3>1, <3>7
  <2> QED BY <2>1, <2>2
<1> HIDE DEF t
<1>8. CASE cmds[c] = "none"
  <2>1. cmds' = [cmds EXCEPT ![c] = "PENDING"] /\ queue' = Append(queue, c)
    BY <1>1, <1>8 DEF EnqueueCommand
  <2>2. queue' \in Seq(Command)
    BY <1>2, <1>4, <2>1, AppendProperties
  <2>3. TypeOK'
    BY <1>1, <1>2, <1>4, <1>6, <2>1, <2>2, CommandTypes
  <2>4. cmds'[c] # "none" /\ WorkerOK(task["worker"], batch, orders, cmds')
        /\ OperatorOK(task["operator"], orders, cmds')
    BY <1>2, <1>4, <2>1, WorkerKeeps, OperatorKeeps
  <2>5. cmds' = [cmds EXCEPT ![<<"cancel", o>>] = "PENDING"]
    BY <2>1 DEF cancel
  <2>6. WorkerOK(task'["worker"], batch, orders, cmds')
        /\ OperatorOK(task'["operator"], orders, cmds')
    BY <1>7, <2>4
  <2>7. WorkerOK(task'["worker"], batch', orders, cmds') /\ KnownBatch(batch', cmds)
    BY <1>1, <2>6, BatchKnown
  <2> HIDE DEF o, c
  <2> QED BY <1>1, <1>2, <1>3, <1>4, <2>3, <2>5, <2>6, <2>7, CommandStep
<1>9. CASE cmds[c] # "none"
  <2>1. UNCHANGED <<store, world, batch, syncer, boot, halted>> /\ faults' = faults
    BY <1>1, <1>9 DEF EnqueueCommand, store
  <2>2. /\ WorkerOK(task'["worker"], batch, orders, cmds)
        /\ OperatorOK(task'["operator"], orders, cmds)
    BY <1>7, <1>9 DEF Base
  <2>3. /\ a = "worker" => WorkerOK(t, batch, orders, cmds)
        /\ a = "operator" => OperatorOK(t, orders, cmds)
    BY <1>2, <1>6, <2>2
  <2> QED BY <1>1, <1>2, <1>5, <2>1, <2>3, TaskStep
<1> QED BY <1>8, <1>9

------------------------------------------------------------------------------
(* Saving a snapshot *)

(* Whoever saves: the row of the order o becomes n.                        *)
LEMMA RowWritten ==
    ASSUME Base, phase = "running", NEW o \in Order, NEW s \in Snapshot,
           orders' = [orders EXCEPT ![o] = SaveResult(orders[o], s)],
           preboot' = preboot \ {o}, faults' \in FaultCounts,
           task' \in [{"worker", "operator"} -> Task],
           syncTodo' \in Seq(Pending), syncSave' \in Seq(Pending),
           \A i \in 1..Len(syncTodo') : orders[syncTodo'[i].order] # NoRow,
           \A i \in 1..Len(syncSave') : orders[syncSave'[i].order] # NoRow,
           UNCHANGED <<cmds, queue, world, batch, phase, blockers, unresolved, reconciled,
                       halted>>,
           WorkerOK(task'["worker"], batch, orders', cmds),
           OperatorOK(task'["operator"], orders', cmds),
           orders[o] = NoRow =>
                \A p \in PostOnly : FallbackOf[p] = o => Covered(orders[p], cmds[cancel(p)])
    PROVE  Base'
<1> DEFINE n == SaveResult(orders[o], s)
<1>1. orders \in [Order -> Snapshot \cup {NoRow}] /\ preboot \subseteq Order
  BY DEF Base, TypeOK
<1>2. n \in Snapshot /\ Forward(orders[o], n) /\ n # NoRow
  BY <1>1, SaveSnapshot, SaveForward, SnapshotFacts
<1> HIDE DEF n
<1>3. orders' = [orders EXCEPT ![o] = n]
  BY DEF n
<1>4. orders' \in [Order -> Snapshot \cup {NoRow}] /\ preboot' \subseteq Order
  BY <1>1, <1>2, <1>3
<1>5. TypeOK'
  BY <1>4 DEF Base, TypeOK, world, FaultCounts
<1>6. SyncOK'
  <2>1. ASSUME NEW q \in Seq(Pending), \A i \in 1..Len(q) : orders[q[i].order] # NoRow
        PROVE  \A i \in 1..Len(q) : orders'[q[i].order] # NoRow
    <3>1. \A i \in 1..Len(q) : q[i] \in Pending
      BY ElementOfSeq
    <3> QED BY <1>1, <1>2, <1>3, <2>1, <3>1 DEF Pending
  <2> QED BY <2>1 DEF SyncOK
<1>7. venue' = venue /\ sends' = sends
  BY DEF world
<1> QED BY <1>2, <1>3, <1>5, <1>6, <1>7, RowStep

(* What an actor has in hand when it saves.                                *)
LEMMA WorkerSaves ==
    ASSUME Base, task["worker"].pc \in Saving
    PROVE  LET w == task["worker"]
               n == SaveResult(orders[w.order], w.snap) IN
           /\ phase = "running" /\ batch # <<>> /\ w.pc # "idle"
           /\ w \in Task /\ w.order \in Order /\ w.qty \in 1..Qty /\ w.snap \in Snapshot
           /\ Current[1] \in {"submit", "cancel"} /\ Current[2] \in Order
           /\ Current[1] = "cancel" => OnCancel(w, Current[2], orders)
           /\ Current[1] = "submit" => OnSubmit(w, Current[2], orders, cmds)
           /\ n \in Snapshot /\ n # NoRow /\ Forward(orders[w.order], n)
           /\ orders[w.order] = NoRow =>
                \A p \in PostOnly : FallbackOf[p] = w.order
                                        => Covered(orders[p], cmds[cancel(p)])
<1> DEFINE w == task["worker"]
<1>1. w.pc # "idle" /\ w.pc \in SnapPc
  BY DEF Saving, SnapPc
<1>2. /\ phase = "running" /\ batch # <<>>
      /\ w \in Task /\ w.order \in Order /\ w.qty \in 1..Qty /\ w.snap \in Snapshot
      /\ Current[1] \in {"submit", "cancel"} /\ Current[2] \in Order
      /\ Current = <<Current[1], Current[2]>> /\ cmds[Current] # "none"
      /\ Current[1] = "cancel" => OnCancel(w, Current[2], orders)
      /\ Current[1] = "submit" => OnSubmit(w, Current[2], orders, cmds)
  BY <1>1, WorkerAtWork
<1>3. orders[w.order] \in Snapshot \cup {NoRow}
  BY <1>2 DEF Base, TypeOK
<1>4. /\ SaveResult(orders[w.order], w.snap) \in Snapshot
      /\ SaveResult(orders[w.order], w.snap) # NoRow
      /\ Forward(orders[w.order], SaveResult(orders[w.order], w.snap))
  BY <1>2, <1>3, SaveSnapshot, SaveForward, SnapshotFacts
<1>5. orders[Current[2]] # NoRow
  BY <1>2 DEF Base, CommandsKnown, submit, cancel
<1>6. ASSUME NEW p \in PostOnly, FallbackOf[p] = w.order, orders[w.order] = NoRow
      PROVE  Covered(orders[p], cmds[cancel(p)])
  <2>1. w.order # Current[2]
    BY <1>5, <1>6
  <2>2. /\ Current[2] \in PostOnly /\ w.order = FallbackOf[Current[2]]
        /\ Covered(orders[Current[2]], cmds[cancel(Current[2])])
    BY <1>2, <2>1 DEF OnCancel, OnSubmit
  <2>3. p = Current[2]
    BY <1>6, <2>2, OrderAssumption
  <2> QED BY <2>2, <2>3
<1> QED BY <1>1, <1>2, <1>4, <1>6

LEMMA OperatorSaves ==
    ASSUME Base, task["operator"].pc \in Saving
    PROVE  LET p == task["operator"]
               n == SaveResult(orders[p.order], p.snap) IN
           /\ phase = "running" /\ p.pc \in {"save_pending", "save_canceled", "save_resolved"}
           /\ p \in Task /\ p.order \in Order /\ p.snap \in Snapshot
           /\ orders[p.order] \in Snapshot /\ orders[p.order] # NoRow
           /\ n \in Snapshot /\ n # NoRow /\ Forward(orders[p.order], n)
<1> DEFINE p == task["operator"]
<1>1. /\ p.pc # "idle" /\ p \in Task /\ OperatorOK(p, orders, cmds)
      /\ orders \in [Order -> Snapshot \cup {NoRow}]
  BY DEF Saving, Base, TypeOK
<1>2. phase = "running"
  BY <1>1 DEF Base, StoppedIsIdle, Idle
<1>3. /\ p.pc \in {"save_pending", "save_canceled", "save_resolved"}
      /\ p.order \in Order /\ p.snap \in Snapshot /\ orders[p.order] # NoRow
  BY <1>1 DEF OperatorOK, Saving
<1>4. orders[p.order] \in Snapshot
  BY <1>1, <1>3
<1> QED BY <1>1, <1>2, <1>3, <1>4, SaveSnapshot, SaveForward, SnapshotFacts

(* A save that succeeds leaves the worker in a good state: the order it    *)
(* submitted is recorded or decided, and a covered original stays covered. *)
LEMMA WorkerAfterSave ==
    ASSUME Base, task["worker"].pc \in Saving, NEW n,
           n = SaveResult(orders[task["worker"].order], task["worker"].snap),
           ~SaveRaises(orders[task["worker"].order], task["worker"].snap),
           orders' = [orders EXCEPT ![task["worker"].order] = n]
    PROVE  LET t == AfterSave("worker", task["worker"], n) IN
           t \in Task /\ WorkerOK(t, batch, orders', cmds)
<1> DEFINE w == task["worker"]
           o == Current[2]
           t == AfterSave("worker", w, n)
<1>1. /\ batch # <<>> /\ w.pc # "idle"
      /\ w \in Task /\ w.order \in Order /\ w.qty \in 1..Qty /\ w.snap \in Snapshot
      /\ Current[1] \in {"submit", "cancel"} /\ o \in Order
      /\ Current[1] = "cancel" => OnCancel(w, o, orders)
      /\ Current[1] = "submit" => OnSubmit(w, o, orders, cmds)
      /\ n \in Snapshot /\ n # NoRow /\ Forward(orders[w.order], n)
  BY WorkerSaves
<1>2. orders \in [Order -> Snapshot \cup {NoRow}]
  BY DEF Base, TypeOK
<1>3. /\ orders'[w.order] = n
      /\ \A p \in Order : p # w.order => orders'[p] = orders[p]
  BY <1>1, <1>2
<1>4. /\ w.snap.status # "CREATED" => n.status # "CREATED"
      /\ w.snap.status \notin {"CREATED", "SUBMITTING"}
            => n.status \notin {"CREATED", "SUBMITTING"}
      /\ is_terminal(w.snap.status) => is_terminal(n.status)
      /\ w.snap.status = "CANCEL_PENDING"
            => n.status = "CANCEL_PENDING" \/ is_terminal(n.status)
  <2>1. orders[w.order] \in Snapshot \cup {NoRow}
    BY <1>1, <1>2
  <2> QED BY <1>1, <2>1, SaveTakes
<1>5. ASSUME NEW pc, NEW s \in Snapshot \cup {NoRow},
             pc \in SubmitPc \cup CancelPc \cup EitherPc
      PROVE  LET u == [w EXCEPT !.pc = pc, !.snap = s] IN
             /\ u \in Task /\ u.pc = pc /\ u.order = w.order /\ u.qty = w.qty
             /\ u.snap = s /\ u.pc # "idle"
  BY <1>1, <1>5 DEF Task, SubmitPc, CancelPc, EitherPc, Saving
<1>6. CASE Current[1] = "cancel"
  <2>1. w.order = o /\ orders'[o] # NoRow
    BY <1>1, <1>3, <1>6 DEF OnCancel
  <2>2. ASSUME NEW pc \in CancelPc \cup EitherPc, NEW s \in Snapshot \cup {NoRow},
               pc \in SnapPc => s \in Snapshot
        PROVE  LET u == [w EXCEPT !.pc = pc, !.snap = s] IN
               u \in Task /\ WorkerOK(u, batch, orders', cmds)
    <3> DEFINE u == [w EXCEPT !.pc = pc, !.snap = s]
    <3>1. /\ u \in Task /\ u.pc = pc /\ u.order = w.order /\ u.qty = w.qty
          /\ u.snap = s /\ u.pc # "idle"
      BY <1>5
    <3> HIDE DEF u
    <3>2. OnCancel(u, o, orders')
      BY <2>1, <3>1 DEF OnCancel
    <3>3. WorkerOK(u, batch, orders', cmds)
      BY <1>1, <1>6, <2>2, <3>1, <3>2 DEF WorkerOK, Current
    <3> QED BY <3>1, <3>3 DEF u
  <2>3. w.pc \in {"save_result", "save_canceled", "save_cancel_pending"}
    BY <1>1, <1>6 DEF OnCancel, CancelPc, EitherPc, Saving
  <2>4. CASE w.pc \in {"save_result", "save_canceled"}
    <3>1. t = [w EXCEPT !.pc = "sent", !.snap = NoRow]
      BY <1>6, <2>4 DEF AfterSave
    <3>2. "sent" \in CancelPc \cup EitherPc /\ "sent" \notin SnapPc
      BY DEF EitherPc, SnapPc, Saving
    <3> QED BY <2>2, <3>1, <3>2
  <2>5. CASE w.pc = "save_cancel_pending" /\ CancelBeforeAck(w.order, n)
    <3> DEFINE s == [n EXCEPT !.status = "CANCELED", !.execution_error = "none"]
               pc == IF cmds[submit(w.order)] = "PENDING" THEN "abandon" ELSE "save_canceled"
    <3>1. s \in Snapshot
      BY <1>1, CancelSnapshots
    <3>2. [w EXCEPT !.pc = pc, !.order = w.order, !.snap = s] = [w EXCEPT !.pc = pc, !.snap = s]
      BY <1>1 DEF Task
    <3>3. t = LocalCancel(w, w.order, n)
      BY <2>5 DEF AfterSave
    <3>4. t = [w EXCEPT !.pc = pc, !.snap = s]
      BY <3>2, <3>3 DEF LocalCancel
    <3>5. pc \in CancelPc \cup EitherPc
      BY DEF EitherPc
    <3> HIDE DEF pc, s, t
    <3> QED BY <2>2, <3>1, <3>4, <3>5 DEF t
  <2>6. CASE w.pc = "save_cancel_pending" /\ ~CancelBeforeAck(w.order, n)
    <3>1. t = [w EXCEPT !.pc = "c_lookup", !.snap = n]
      BY <2>6 DEF AfterSave
    <3>2. "c_lookup" \in CancelPc \cup EitherPc
      BY DEF CancelPc
    <3> HIDE DEF t
    <3>3. t \in Task /\ WorkerOK(t, batch, orders', cmds)
      BY <1>1, <2>2, <3>1, <3>2
    <3> QED BY <3>3 DEF t
  <2> QED BY <2>3, <2>4, <2>5, <2>6
<1>7. CASE Current[1] = "submit"
  <2>1. OnSubmit(w, o, orders, cmds)
    BY <1>1, <1>7
  <2>2. w.pc \in {"save_blocked", "save_submitting", "save_result", "save_canceled",
                  "save_pending"}
    BY <2>1 DEF OnSubmit, SubmitPc, EitherPc, Saving
  <2>3. /\ Covered(orders[o], cmds[cancel(o)]) => Covered(orders'[o], cmds[cancel(o)])
        /\ Decided(orders[o]) => Decided(orders'[o])
        /\ w.order # o => Covered(orders'[o], cmds[cancel(o)]) /\ Decided(orders'[o])
    <3>1. Forward(orders[o], orders'[o])
      BY <1>1, <1>2, <1>3, ForwardSame
    <3>2. /\ Covered(orders[o], cmds[cancel(o)]) => Covered(orders'[o], cmds[cancel(o)])
          /\ Decided(orders[o]) => Decided(orders'[o])
      BY <3>1 DEF Forward, Covered, CancelUnderway, Decided
    <3>3. Covered(orders[o], cmds[cancel(o)]) => Decided(orders[o])
      BY DEF Covered, CancelUnderway, Decided, is_terminal, TERMINAL_ORDER_STATES
    <3> QED BY <2>1, <3>2, <3>3 DEF OnSubmit
  <2>4. w.order = o /\ o \in PostOnly /\ w.pc \in BeforeFallbackPc
            => orders'[FallbackOf[o]] = NoRow
    <3>1. o \in PostOnly => FallbackOf[o] \in Order /\ FallbackOf[o] # o
      BY OrderAssumption
    <3> QED BY <1>3, <2>1, <3>1 DEF OnSubmit
  <2>5. ASSUME NEW u \in Task, u.order = w.order, u.qty = w.qty, u.pc # "idle",
               u.pc \in SnapPc => u.snap \in Snapshot, OnSubmit(u, o, orders', cmds)
        PROVE  WorkerOK(u, batch, orders', cmds)
    BY <1>1, <1>7, <2>5 DEF WorkerOK, Current
  <2>6. CASE w.pc = "save_submitting"
    <3>1. t = [w EXCEPT !.pc = "place", !.snap = NoRow]
      BY <2>6 DEF AfterSave
    <3> HIDE DEF t
    <3>2. /\ t \in Task /\ t.pc = "place" /\ t.order = w.order /\ t.qty = w.qty
          /\ t.pc # "idle" /\ t.pc \notin SnapPc
      BY <1>1, <3>1 DEF Task, SnapPc, Saving
    <3>3. Recorded(orders'[t.order])
      BY <1>1, <1>3, <1>4, <2>1, <2>6, <3>2 DEF OnSubmit, Recorded
    <3>4. OnSubmit(t, o, orders', cmds)
      BY <2>1, <2>3, <2>4, <2>6, <3>2, <3>3
         DEF OnSubmit, SubmitPc, FallbackPc, PostOnlyPc, BeforeFallbackPc
    <3>5. WorkerOK(t, batch, orders', cmds)
      BY <2>5, <3>2, <3>4
    <3> QED BY <3>2, <3>5 DEF t
  <2>7. CASE w.pc \in {"save_blocked", "save_result"}
                /\ ~(w.pc = "save_result" /\ w.order \in PostOnly)
    <3>1. t = [w EXCEPT !.pc = "sent", !.snap = NoRow]
      BY <2>7 DEF AfterSave
    <3> HIDE DEF t
    <3>2. /\ t \in Task /\ t.pc = "sent" /\ t.order = w.order /\ t.qty = w.qty
          /\ t.pc # "idle" /\ t.pc \notin SnapPc
      BY <1>1, <3>1 DEF Task, SnapPc, Saving
    <3>3. Decided(orders'[o])
      BY <1>1, <1>3, <1>4, <2>1, <2>3, <2>7 DEF OnSubmit, ResultStatus, Decided
    <3>4. OnSubmit(t, o, orders', cmds)
      BY <2>1, <2>3, <3>2, <3>3
         DEF OnSubmit, EitherPc, FallbackPc, PostOnlyPc, BeforeFallbackPc
    <3>5. WorkerOK(t, batch, orders', cmds)
      BY <2>5, <3>2, <3>4
    <3> QED BY <3>2, <3>5 DEF t
  <2>8. ASSUME NEW pc \in {"po_fallback", "po_wait", "sent", "enqueue"},
               t = [w EXCEPT !.pc = pc, !.snap = n], w.order = o, o \in PostOnly,
               w.pc \in BeforeFallbackPc, Decided(n),
               pc = "po_fallback" => is_terminal(n.status),
               pc = "enqueue" => CancelUnderway(n)
        PROVE  t \in Task /\ WorkerOK(t, batch, orders', cmds)
    <3> HIDE DEF t
    <3>1. /\ t \in Task /\ t.pc = pc /\ t.order = w.order /\ t.qty = w.qty /\ t.snap = n
          /\ t.pc # "idle"
      BY <1>1, <2>8 DEF Task
    <3>2. pc = "po_fallback" => Covered(orders'[o], cmds[cancel(o)])
      BY <1>1, <1>3, <2>8 DEF Covered, CancelUnderway
    <3>3. OnSubmit(t, o, orders', cmds)
      BY <1>3, <2>4, <2>8, <3>1, <3>2
         DEF OnSubmit, SubmitPc, EitherPc, PostOnlyPc, BeforeFallbackPc
    <3>4. WorkerOK(t, batch, orders', cmds)
      BY <1>1, <2>5, <3>1, <3>3
    <3> QED BY <3>1, <3>4 DEF t
  <2>9. CASE w.pc = "save_result" /\ w.order \in PostOnly
    <3>1. w.order = o
      BY <2>1, <2>9, OrderAssumption DEF OnSubmit
    <3>2. t = [w EXCEPT !.pc = AfterPostOnlySubmit(n), !.snap = n]
      BY <1>7, <2>9 DEF AfterSave
    <3>3. AfterPostOnlySubmit(n) \in {"po_fallback", "po_wait", "sent", "enqueue"}
          /\ (AfterPostOnlySubmit(n) = "po_fallback" => is_terminal(n.status))
          /\ AfterPostOnlySubmit(n) # "enqueue"
      BY DEF AfterPostOnlySubmit, is_terminal, TERMINAL_ORDER_STATES
    <3>4. Decided(n) /\ w.pc \in BeforeFallbackPc
      BY <1>1, <1>4, <2>1, <2>9 DEF OnSubmit, ResultStatus, Decided, BeforeFallbackPc
    <3> HIDE DEF t
    <3> QED BY <2>8, <2>9, <3>1, <3>2, <3>3, <3>4 DEF t
  <2>10. CASE w.pc \in {"save_canceled", "save_pending"}
    <3> DEFINE pc == IF w.pc = "save_canceled" THEN "po_fallback" ELSE "enqueue"
    <3>1. w.order = o /\ o \in PostOnly /\ w.pc \in BeforeFallbackPc
      BY <2>1, <2>10 DEF OnSubmit, FallbackPc, PostOnlyPc, BeforeFallbackPc
    <3>2. t = [w EXCEPT !.pc = pc, !.snap = n]
      BY <1>7, <2>10 DEF AfterSave
    <3>3. /\ pc = "po_fallback" => is_terminal(n.status)
          /\ pc = "enqueue" => CancelUnderway(n)
          /\ Decided(n) /\ pc \in {"po_fallback", "po_wait", "sent", "enqueue"}
      BY <1>1, <1>4, <2>1, <2>10
         DEF OnSubmit, Decided, CancelUnderway, is_terminal, TERMINAL_ORDER_STATES
    <3> HIDE DEF t, pc
    <3> QED BY <2>8, <3>1, <3>2, <3>3 DEF t
  <2> QED BY <2>2, <2>6, <2>7, <2>9, <2>10
<1> QED BY <1>1, <1>6, <1>7

(* A save that raises: the command fails, or ends without a fallback.      *)
LEMMA WorkerAfterRaise ==
    ASSUME Base, task["worker"].pc \in Saving, NEW rows \in [Order -> Snapshot \cup {NoRow}],
           \A p \in Order : Forward(orders[p], rows[p])
    PROVE  LET t == AfterSaveRaises("worker", task["worker"]) IN
           t \in Task /\ WorkerOK(t, batch, rows, cmds)
<1> DEFINE w == task["worker"]
           t == AfterSaveRaises("worker", w)
           pc == IF w.pc \in {"save_pending", "save_canceled"} /\ Current[1] = "submit"
                 THEN "sent" ELSE "fail"
<1>1. /\ w.pc # "idle" /\ w \in Task
      /\ Current[1] \in {"submit", "cancel"} /\ Current[2] \in Order
      /\ Current[1] = "cancel" => OnCancel(w, Current[2], orders)
      /\ Current[1] = "submit" => OnSubmit(w, Current[2], orders, cmds)
  BY WorkerSaves
<1>2. t = [w EXCEPT !.pc = pc, !.snap = NoRow]
  BY DEF AfterSaveRaises
<1> HIDE DEF t
<1>3. t \in Task /\ t.pc = pc /\ t.order = w.order /\ t.qty = w.qty /\ pc \in {"sent", "fail"}
  BY <1>1, <1>2 DEF Task
<1>4. pc = "sent" /\ Current[1] = "submit" => Decided(orders[Current[2]])
  BY <1>1 DEF OnSubmit, PostOnlyPc
<1>5. w.order = Current[2] \/ w.pc \in FallbackPc
  BY <1>1 DEF OnSubmit, OnCancel
<1> HIDE DEF pc
<1>6. WorkerOK(t, batch, orders, cmds)
  BY <1>1, <1>3, <1>4, <1>5, EndTask
<1>7. /\ batch \in Seq([cmd : Command, read : CommandState])
      /\ orders \in [Order -> Snapshot \cup {NoRow}]
  BY DEF Base, TypeOK
<1>8. t.pc \notin BeforeFallbackPc
  BY <1>3 DEF BeforeFallbackPc, PostOnlyPc
<1>9. WorkerOK(t, batch, rows, cmds)
  BY <1>6, <1>7, <1>8, WorkerStable
<1> QED BY <1>3, <1>9 DEF t

(* The operator's request after a save.                                    *)
LEMMA OperatorAfterSave ==
    ASSUME Base, task["operator"].pc \in Saving, NEW n \in Snapshot,
           NEW rows, rows[task["operator"].order] # NoRow
    PROVE  /\ AfterSave("operator", task["operator"], n) \in Task
           /\ OperatorOK(AfterSave("operator", task["operator"], n), rows, cmds)
           /\ AfterSaveRaises("operator", task["operator"]) = Idle
<1> DEFINE p == task["operator"]
           t == AfterSave("operator", p, n)
           e == [p EXCEPT !.pc = "enqueue", !.snap = n]
<1>1. /\ p.pc \in {"save_pending", "save_canceled", "save_resolved"}
      /\ p \in Task /\ p.order \in Order
  BY OperatorSaves
<1>2. AfterSaveRaises("operator", p) = Idle
  BY DEF AfterSaveRaises
<1>3. p.pc = "save_pending" => t = e
  BY DEF AfterSave
<1>4. p.pc # "save_pending" => t = Idle
  BY <1>1 DEF AfterSave
<1> HIDE DEF t
<1>5. e \in Task /\ e.pc = "enqueue" /\ e.order = p.order /\ e.snap = n
  BY <1>1 DEF Task
<1> HIDE DEF e
<1>6. OperatorOK(e, rows, cmds)
  BY <1>1, <1>5 DEF OperatorOK
<1>7. t \in Task /\ OperatorOK(t, rows, cmds)
  BY <1>3, <1>4, <1>5, <1>6, IdleTask
<1> QED BY <1>2, <1>7 DEF t

(* The sync loop's lists while others write.                               *)
LEMMA SyncKept ==
    ASSUME Base, UNCHANGED syncer
    PROVE  /\ syncTodo' \in Seq(Pending) /\ syncSave' \in Seq(Pending)
           /\ \A i \in 1..Len(syncTodo') : orders[syncTodo'[i].order] # NoRow
           /\ \A i \in 1..Len(syncSave') : orders[syncSave'[i].order] # NoRow
  BY DEF Base, TypeOK, SyncOK, syncer

(* What a written row means to the actors that did not write it.           *)
LEMMA OthersKeep ==
    ASSUME Base, NEW o \in Order, NEW n \in Snapshot, Forward(orders[o], n),
           NEW rows, rows = [orders EXCEPT ![o] = n]
    PROVE  /\ rows \in [Order -> Snapshot \cup {NoRow}] /\ rows[o] # NoRow
           /\ \A p \in Order : Forward(orders[p], rows[p])
           /\ OperatorOK(task["operator"], rows, cmds)
           /\ orders[o] # NoRow => WorkerOK(task["worker"], batch, rows, cmds)
<1>1. /\ orders \in [Order -> Snapshot \cup {NoRow}] /\ n # NoRow
      /\ batch \in Seq([cmd : Command, read : CommandState])
      /\ WorkerOK(task["worker"], batch, orders, cmds)
      /\ OperatorOK(task["operator"], orders, cmds)
  BY SnapshotFacts DEF Base, TypeOK
<1>2. rows \in [Order -> Snapshot \cup {NoRow}] /\ rows[o] # NoRow
  BY <1>1
<1>3. \A p \in Order : Forward(orders[p], rows[p])
  BY <1>1, ForwardSame
<1>4. OperatorOK(task["operator"], rows, cmds)
  BY <1>1, <1>3, OperatorStable
<1>5. ASSUME orders[o] # NoRow
      PROVE  WorkerOK(task["worker"], batch, rows, cmds)
  <2>1. \A p \in PostOnly : FallbackOf[p] \in Order
    BY OrderAssumption
  <2>2. \A p \in PostOnly : orders[FallbackOf[p]] = NoRow => rows[FallbackOf[p]] = NoRow
    BY <1>1, <1>5, <2>1
  <2> QED BY <1>1, <1>2, <1>3, <2>2, WorkerStable
<1> QED BY <1>2, <1>3, <1>4, <1>5

LEMMA WorkerSaveStep ==
    ASSUME Base, Save("worker")
    PROVE  Base'
<1> DEFINE w == task["worker"]
           n == SaveResult(orders[w.order], w.snap)
           t == AfterSave("worker", w, n)
<1>1. /\ w.pc \in Saving /\ ~SaveRaises(orders[w.order], w.snap)
      /\ orders' = [orders EXCEPT ![w.order] = n] /\ SetTask("worker", t)
      /\ preboot' = preboot \ {w.order}
      /\ UNCHANGED <<cmds, queue, world, batch, syncer, phase, blockers,
                     unresolved, reconciled, halted, faults>>
  BY DEF Save
<1>2. /\ phase = "running" /\ w.order \in Order /\ w.snap \in Snapshot
      /\ n \in Snapshot /\ Forward(orders[w.order], n)
      /\ orders[w.order] = NoRow =>
            \A p \in PostOnly : FallbackOf[p] = w.order => Covered(orders[p], cmds[cancel(p)])
  BY <1>1, WorkerSaves
<1>3. t \in Task /\ WorkerOK(t, batch, orders', cmds)
  BY <1>1, WorkerAfterSave
<1>4. OperatorOK(task["operator"], orders', cmds)
  BY <1>1, <1>2, OthersKeep
<1> HIDE DEF t
<1>5. task' = [task EXCEPT !["worker"] = t] /\ task \in [{"worker", "operator"} -> Task]
  BY <1>1 DEF SetTask, Base, TypeOK
<1>6. /\ task' \in [{"worker", "operator"} -> Task] /\ task'["worker"] = t
      /\ task'["operator"] = task["operator"]
  BY <1>3, <1>5
<1>7. faults' \in FaultCounts
  BY <1>1, FaultsCounted
<1>8. /\ syncTodo' \in Seq(Pending) /\ syncSave' \in Seq(Pending)
      /\ \A i \in 1..Len(syncTodo') : orders[syncTodo'[i].order] # NoRow
      /\ \A i \in 1..Len(syncSave') : orders[syncSave'[i].order] # NoRow
  BY <1>1, SyncKept
<1> QED BY <1>1, <1>2, <1>3, <1>4, <1>6, <1>7, <1>8, RowWritten

LEMMA OperatorSaveStep ==
    ASSUME Base, Save("operator")
    PROVE  Base'
<1> DEFINE w == task["operator"]
           n == SaveResult(orders[w.order], w.snap)
           t == AfterSave("operator", w, n)
<1>1. /\ w.pc \in Saving
      /\ orders' = [orders EXCEPT ![w.order] = n] /\ SetTask("operator", t)
      /\ preboot' = preboot \ {w.order}
      /\ UNCHANGED <<cmds, queue, world, batch, syncer, phase, blockers,
                     unresolved, reconciled, halted, faults>>
  BY DEF Save
<1>2. /\ phase = "running" /\ w.order \in Order /\ w.snap \in Snapshot
      /\ n \in Snapshot /\ Forward(orders[w.order], n) /\ orders[w.order] # NoRow
  BY <1>1, OperatorSaves
<1>3. orders'[w.order] # NoRow /\ WorkerOK(task["worker"], batch, orders', cmds)
  BY <1>1, <1>2, OthersKeep
<1>4. t \in Task /\ OperatorOK(t, orders', cmds)
  BY <1>1, <1>2, <1>3, OperatorAfterSave
<1> HIDE DEF t
<1>5. task' = [task EXCEPT !["operator"] = t] /\ task \in [{"worker", "operator"} -> Task]
  BY <1>1 DEF SetTask, Base, TypeOK
<1>6. /\ task' \in [{"worker", "operator"} -> Task] /\ task'["operator"] = t
      /\ task'["worker"] = task["worker"]
  BY <1>4, <1>5
<1>7. faults' \in FaultCounts
  BY <1>1, FaultsCounted
<1>8. /\ syncTodo' \in Seq(Pending) /\ syncSave' \in Seq(Pending)
      /\ \A i \in 1..Len(syncTodo') : orders[syncTodo'[i].order] # NoRow
      /\ \A i \in 1..Len(syncSave') : orders[syncSave'[i].order] # NoRow
  BY <1>1, SyncKept
<1> QED BY <1>1, <1>2, <1>3, <1>4, <1>6, <1>7, <1>8, RowWritten

(* A save that raises, before or after the row is written.                 *)
LEMMA SaveRefusedStep ==
    ASSUME Base, NEW a \in {"worker", "operator"}, SaveRefused(a)
    PROVE  Base'
<1> DEFINE w == task[a]
           n == SaveResult(orders[w.order], w.snap)
           t == AfterSaveRaises(a, w)
<1>1. /\ w.pc \in Saving /\ SetTask(a, t)
      /\ UNCHANGED <<cmds, queue, world, batch, syncer, phase, blockers,
                     unresolved, reconciled, halted>>
  BY DEF SaveRefused
<1>2. /\ phase = "running" /\ w.order \in Order /\ w.snap \in Snapshot
      /\ n \in Snapshot /\ Forward(orders[w.order], n)
      /\ a = "operator" => orders[w.order] # NoRow
      /\ orders[w.order] = NoRow =>
            \A p \in PostOnly : FallbackOf[p] = w.order => Covered(orders[p], cmds[cancel(p)])
  BY <1>1, WorkerSaves, OperatorSaves
<1>3. faults' \in FaultCounts
  BY FaultsCounted DEF SaveRefused
<1>4. ASSUME NEW rows \in [Order -> Snapshot \cup {NoRow}],
             \A p \in Order : Forward(orders[p], rows[p])
      PROVE  /\ t \in Task
             /\ a = "worker" => WorkerOK(t, batch, rows, cmds)
             /\ a = "operator" => OperatorOK(t, rows, cmds)
  <2>1. CASE a = "worker"
    BY <1>1, <1>4, <2>1, WorkerAfterRaise
  <2>2. CASE a = "operator"
    <3>1. t = Idle
      BY <2>2 DEF AfterSaveRaises
    <3> QED BY <2>2, <3>1, IdleTask
  <2> QED BY <2>1, <2>2
<1> HIDE DEF t
<1>5. CASE UNCHANGED <<orders, preboot>>
  <2>1. /\ orders \in [Order -> Snapshot \cup {NoRow}]
        /\ \A p \in Order : Forward(orders[p], orders[p])
    BY ForwardSame DEF Base, TypeOK
  <2>2. UNCHANGED <<store, world, batch, syncer, boot, halted>>
    BY <1>1, <1>5 DEF store, boot
  <2> QED BY <1>1, <1>2, <1>3, <1>4, <2>1, <2>2, TaskStep
<1>6. CASE orders' = [orders EXCEPT ![w.order] = n] /\ preboot' = preboot \ {w.order}
  <2>1. /\ orders' \in [Order -> Snapshot \cup {NoRow}]
        /\ \A p \in Order : Forward(orders[p], orders'[p])
        /\ OperatorOK(task["operator"], orders', cmds)
        /\ orders[w.order] # NoRow => WorkerOK(task["worker"], batch, orders', cmds)
    BY <1>2, <1>6, OthersKeep
  <2>2. /\ t \in Task
        /\ a = "worker" => WorkerOK(t, batch, orders', cmds)
        /\ a = "operator" => OperatorOK(t, orders', cmds)
    BY <1>4, <2>1
  <2>3. task' = [task EXCEPT ![a] = t] /\ task \in [{"worker", "operator"} -> Task]
    BY <1>1 DEF SetTask, Base, TypeOK
  <2>4. task' \in [{"worker", "operator"} -> Task]
    BY <2>2, <2>3
  <2>5. /\ WorkerOK(task'["worker"], batch, orders', cmds)
        /\ OperatorOK(task'["operator"], orders', cmds)
    <3>1. CASE a = "worker"
      BY <2>1, <2>2, <2>3, <3>1
    <3>2. CASE a = "operator"
      BY <1>2, <2>1, <2>2, <2>3, <3>2
    <3> QED BY <3>1, <3>2
  <2>6. /\ syncTodo' \in Seq(Pending) /\ syncSave' \in Seq(Pending)
        /\ \A i \in 1..Len(syncTodo') : orders[syncTodo'[i].order] # NoRow
        /\ \A i \in 1..Len(syncSave') : orders[syncSave'[i].order] # NoRow
    BY <1>1, SyncKept
  <2> HIDE DEF w
  <2> QED BY <1>1, <1>2, <1>3, <1>6, <2>4, <2>5, <2>6, RowWritten
<1> QED BY <1>5, <1>6 DEF SaveRefused

(* The sync loop saves, or is stopped by an exception.                     *)
LEMMA SyncSaveStep ==
    ASSUME Base, SyncSaves \/ SyncAborts
    PROVE  Base'
<1> DEFINE h == Head(syncSave)
           n == SaveResult(orders[h.order], h.snap)
<1>1. /\ phase = "running" /\ syncSave # <<>> /\ syncTodo' = syncTodo
      /\ syncSave' = Tail(syncSave) \/ syncSave' = <<>>
      /\ UNCHANGED <<cmds, queue, world, task, batch, phase, blockers, unresolved,
                     reconciled, halted>>
  BY DEF SyncSaves, SyncAborts, Running
<1>2. /\ Tail(syncSave) \in Seq(Pending)
      /\ \A i \in 1..Len(Tail(syncSave)) : orders[Tail(syncSave)[i].order] # NoRow
      /\ h.order \in Order /\ h.snap \in Snapshot
      /\ orders[h.order] \in Snapshot /\ orders[h.order] # NoRow
  BY <1>1, PendingFacts
<1>3. faults' \in FaultCounts
  BY FaultsCounted DEF SyncSaves, SyncAborts
<1>4. /\ syncTodo' \in Seq(Pending)
      /\ \A i \in 1..Len(syncTodo') : orders[syncTodo'[i].order] # NoRow
  BY <1>1 DEF Base, TypeOK, SyncOK
<1>5. /\ syncSave' \in Seq(Pending)
      /\ \A i \in 1..Len(syncSave') : orders[syncSave'[i].order] # NoRow
  <2>1. CASE syncSave' = Tail(syncSave)
    BY <1>2, <2>1
  <2>2. CASE syncSave' = <<>>
    BY <2>2, EmptySeq
  <2> QED BY <1>1, <2>1, <2>2
<1>6. n \in Snapshot /\ Forward(orders[h.order], n)
  BY <1>2, SaveSnapshot, SaveForward
<1>7. CASE UNCHANGED <<orders, preboot>>
  <2>1. UNCHANGED <<store, world, task, batch, boot, halted>>
    BY <1>1, <1>7 DEF store, boot
  <2> QED BY <1>1, <1>3, <1>4, <1>5, <2>1, SyncStep
<1>8. CASE orders' = [orders EXCEPT ![h.order] = n] /\ preboot' = preboot \ {h.order}
  <2>1. /\ OperatorOK(task["operator"], orders', cmds)
        /\ WorkerOK(task["worker"], batch, orders', cmds)
    BY <1>2, <1>6, <1>8, OthersKeep
  <2>2. /\ OperatorOK(task'["operator"], orders', cmds)
        /\ WorkerOK(task'["worker"], batch, orders', cmds)
        /\ task' \in [{"worker", "operator"} -> Task]
    BY <1>1, <2>1 DEF Base, TypeOK
  <2> HIDE DEF h
  <2> QED BY <1>1, <1>2, <1>3, <1>4, <1>5, <1>8, <2>2, RowWritten
<1> QED BY <1>7, <1>8 DEF SyncSaves, SyncAborts

------------------------------------------------------------------------------
(* Intake, exchange and kill switch *)

LEMMA IntakeStep ==
    ASSUME Base, NEW o \in Originals, orders[o] = NoRow, NEW s \in Snapshot,
           phase = "running", orders' = [orders EXCEPT ![o] = Normalize(s)],
           \/ UNCHANGED <<cmds, queue>>
           \/ cmds' = [cmds EXCEPT ![submit(o)] = "PENDING"] /\ queue' \in Seq(Command),
           UNCHANGED <<world, task, batch, syncer, boot, halted, faults>>
    PROVE  Base'
<1> DEFINE n == Normalize(s)
<1>1. /\ orders \in [Order -> Snapshot \cup {NoRow}] /\ cmds \in [Command -> CommandState]
      /\ queue \in Seq(Command) /\ batch \in Seq([cmd : Command, read : CommandState])
      /\ o \in Order /\ \A p \in PostOnly : FallbackOf[p] # o /\ FallbackOf[p] \in Order
  BY OrderAssumption DEF Base, TypeOK, Originals
<1>2. n \in Snapshot /\ n # NoRow
  <2>1. n = SaveResult(NoRow, s)
    BY DEF SaveResult
  <2> QED BY <2>1, SaveSnapshot, SnapshotFacts
<1> HIDE DEF n
<1>3. /\ orders' = [orders EXCEPT ![o] = n]
      /\ orders' \in [Order -> Snapshot \cup {NoRow}]
  BY <1>1, <1>2 DEF n
<1>4. \A p \in Order : Forward(orders[p], orders'[p])
  <2>1. Forward(NoRow, n)
    BY <1>2 DEF Forward
  <2> QED BY <1>1, <1>3, <2>1, ForwardSame
<1>5. /\ submit(o) \in Command /\ "PENDING" \in CommandState
      /\ \A p \in Order : submit(p) \in Command /\ cancel(p) \in Command
      /\ \A p \in Order : cancel(p) # submit(o) /\ (p # o => submit(p) # submit(o))
  BY <1>1 DEF submit, cancel, Command, CommandState
<1>6. /\ cmds' \in [Command -> CommandState] /\ queue' \in Seq(Command)
      /\ \A c \in Command : cmds'[c] = cmds[c] \/ (c = submit(o) /\ cmds'[c] = "PENDING")
  BY <1>1, <1>5
<1>7. \A c \in Command : cmds[c] # "none" => cmds'[c] # "none"
  BY <1>6
<1>8. TypeOK'
  BY <1>3, <1>6 DEF Base, TypeOK, world, syncer, boot
<1>9. WorkerOK(task["worker"], batch, orders, cmds)'
  <2>1. \A p \in PostOnly : orders[FallbackOf[p]] = NoRow => orders'[FallbackOf[p]] = NoRow
    BY <1>1, <1>3
  <2>2. WorkerOK(task["worker"], batch, orders, cmds)
    BY DEF Base
  <2>3. WorkerOK(task["worker"], batch, orders', cmds')
    <3>1. \A p \in Order : cmds[cancel(p)] # "none" => cmds'[cancel(p)] # "none"
      BY <1>5, <1>7
    <3>2. ASSUME NEW rows2 \in [Order -> Snapshot \cup {NoRow}], NEW st2,
                 \A p \in Order : Forward(orders[p], rows2[p]),
                 \A p \in Order : cmds[cancel(p)] # "none" => st2[cancel(p)] # "none",
                 \A p \in PostOnly : orders[FallbackOf[p]] = NoRow
                                         => rows2[FallbackOf[p]] = NoRow
          PROVE  WorkerOK(task["worker"], batch, rows2, st2)
      BY <1>1, <2>2, <3>2, WorkerStable
    <3> QED BY <1>3, <1>4, <2>1, <3>1, <3>2
  <2> QED BY <2>3
<1>10. OperatorOK(task["operator"], orders, cmds)'
  <2>1. OperatorOK(task["operator"], orders, cmds)
    BY DEF Base
  <2>2. OperatorOK(task["operator"], orders', cmds')
    BY <1>4, <1>5, <1>7, <2>1, OperatorStable
  <2> QED BY <2>2
<1>11. \A p \in Order : orders[p] # NoRow => orders'[p] # NoRow
  BY <1>4 DEF Forward
<1>12. SyncOK'
  <2>1. /\ \A i \in 1..Len(syncTodo) : syncTodo[i] \in Pending
        /\ \A i \in 1..Len(syncSave) : syncSave[i] \in Pending
    BY ElementOfSeq DEF Base, TypeOK
  <2> QED BY <1>11, <2>1 DEF Base, SyncOK, syncer, Pending
<1>13. StoppedIsIdle' /\ VenueUnfilled' /\ ReconciledOnce'
  BY DEF Base, StoppedIsIdle, VenueUnfilled, ReconciledOnce, world, syncer, boot
<1>14. CommandsKnown'
  <2>1. ASSUME NEW p \in Order
        PROVE  /\ cmds'[submit(p)] # "none" => p \in Originals /\ orders'[p] # NoRow
               /\ cmds'[cancel(p)] # "none" => orders'[p] # NoRow
    BY <1>1, <1>2, <1>3, <1>5, <1>6, <1>11 DEF Base, CommandsKnown
  <2>2. KnownBatch(batch, cmds)
    BY BatchKnown
  <2>3. \A i \in 1..Len(batch') : cmds'[batch'[i].cmd] # "none"
    BY <1>7, <2>2 DEF KnownBatch
  <2> QED BY <2>1, <2>3 DEF CommandsKnown
<1>15. FallbackCovered' /\ RecordedBeforeSent'
  <2>1. \A p \in Order : cmds[cancel(p)] # "none" => cmds'[cancel(p)] # "none"
    BY <1>5, <1>7
  <2>2. \A p \in PostOnly : orders[FallbackOf[p]] = NoRow => orders'[FallbackOf[p]] = NoRow
    BY <1>1, <1>3
  <2>3. RowsForward /\ sends' = sends
    BY <1>4 DEF RowsForward, world
  <2> QED BY <2>1, <2>2, <2>3, RecordsStable
<1>16. SentDecided'
  BY <1>4, <1>5, <1>6 DEF Base, SentDecided, Decided, Forward
<1>17. PrebootBlocked'
  <2>1. /\ o \notin preboot /\ preboot \subseteq Order /\ unresolved \subseteq Order
        /\ preboot' = preboot /\ unresolved' = unresolved /\ phase' = phase
        /\ blockers' = blockers /\ halted' = halted
    BY DEF Base, TypeOK, PrebootBlocked, boot
  <2>2. \A p \in preboot : orders'[p] = orders[p] /\ cmds'[submit(p)] = cmds[submit(p)]
    BY <1>1, <1>3, <1>5, <1>6, <2>1
  <2> QED BY <1>11, <2>1, <2>2 DEF Base, PrebootBlocked, Blocked
<1> QED BY <1>8, <1>9, <1>10, <1>12, <1>13, <1>14, <1>15, <1>16, <1>17 DEF Base

LEMMA AcceptIntentStep ==
    ASSUME Base, NEW o \in Order, AcceptIntent(o)
    PROVE  Base'
<1>1. /\ phase = "running" /\ o \in Originals /\ orders[o] = NoRow
      /\ orders' = [orders EXCEPT ![o] = Normalize(IntentState("CREATED", Qty, "none"))]
      /\ EnqueueCommand(submit(o))
      /\ UNCHANGED <<world, task, batch, syncer, boot, halted, faults>>
  BY DEF AcceptIntent, Running
<1>2. IntentState("CREATED", Qty, "none") \in Snapshot
  <2>1. "CREATED" \in OrderLifecycleStatus /\ Qty \in 1..Qty /\ "none" \in ExecutionError
    BY BoundsAssumption DEF OrderLifecycleStatus, OPEN_ORDER_STATES, ExecutionError
  <2> QED BY <2>1, BuiltSnapshots
<1>3. submit(o) \in Command /\ queue \in Seq(Command)
  BY DEF submit, Command, Base, TypeOK
<1>4. \/ UNCHANGED <<cmds, queue>>
      \/ cmds' = [cmds EXCEPT ![submit(o)] = "PENDING"] /\ queue' \in Seq(Command)
  BY <1>1, <1>3, AppendProperties DEF EnqueueCommand
<1> QED BY <1>1, <1>2, <1>4, IntakeStep

LEMMA BlockIntentStep ==
    ASSUME Base, NEW o \in Order, BlockIntent(o)
    PROVE  Base'
<1>1. IntentState("BLOCKED", Qty, "other") \in Snapshot
  <2>1. "BLOCKED" \in OrderLifecycleStatus /\ Qty \in 1..Qty /\ "other" \in ExecutionError
    BY BoundsAssumption DEF OrderLifecycleStatus, TERMINAL_ORDER_STATES, ExecutionError
  <2> QED BY <2>1, BuiltSnapshots
<1> QED BY <1>1, IntakeStep DEF BlockIntent, Running

(* The exchange moves on its own account, whatever the process does.       *)
LEMMA ExchangeStep ==
    ASSUME Base, venue' \in [Order -> [state : VenueState, qty : 0..Qty, filled : 0..Qty]],
           wire' \subseteq Order \X (1..Qty), VenueUnfilled',
           UNCHANGED <<store, sends, task, batch, syncer, boot, halted, faults>>
    PROVE  Base'
<1>1. TypeOK'
  BY DEF Base, TypeOK, store, syncer, boot
<1>2. StoppedIsIdle' /\ SyncOK'
  BY DEF Base, StoppedIsIdle, SyncOK, store, syncer, boot
<1>3. /\ WorkerOK(task'["worker"], batch, orders, cmds)
      /\ OperatorOK(task'["operator"], orders, cmds)
  BY DEF Base
<1>4. UNCHANGED <<orders, cmds, batch, phase, blockers, unresolved, reconciled,
                  preboot, halted>>
  BY DEF store, boot
<1> QED BY <1>1, <1>2, <1>3, <1>4, ActorStep

LEMMA VenueStep ==
    ASSUME Base, NEW o \in Order, VenueFill(o) \/ VenueCancels(o) \/ LateArrival(o)
    PROVE  Base'
<1>1. /\ venue \in [Order -> [state : VenueState, qty : 0..Qty, filled : 0..Qty]]
      /\ wire \subseteq Order \X (1..Qty)
      /\ UNCHANGED <<store, sends, task, batch, syncer, boot, halted, faults>>
  BY DEF Base, TypeOK, VenueFill, VenueCancels, LateArrival
<1>2. CASE VenueFill(o)
  <2> DEFINE f == venue[o].filled + 1
             st == IF f = venue[o].qty THEN "filled" ELSE venue[o].state
  <2>1. /\ Resting(venue[o]) /\ wire' = wire
        /\ venue' = [venue EXCEPT ![o] = [@ EXCEPT !.filled = f, !.state = st]]
    BY <1>1, <1>2 DEF VenueFill
  <2>2. /\ venue[o].filled < venue[o].qty /\ venue[o].qty \in 0..Qty
        /\ venue[o].filled \in 0..Qty
    BY <1>1, <2>1 DEF Base, VenueUnfilled
  <2>3. f \in 0..Qty /\ (st # "filled" => f < venue[o].qty) /\ st \in VenueState
    BY <1>1, <2>2, BoundsAssumption DEF VenueState
  <2> HIDE DEF f, st
  <2>4. venue' \in [Order -> [state : VenueState, qty : 0..Qty, filled : 0..Qty]]
    BY <1>1, <2>1, <2>3
  <2>5. VenueUnfilled'
    BY <1>1, <2>1, <2>3 DEF Base, VenueUnfilled, Resting
  <2> QED BY <1>1, <2>1, <2>4, <2>5, ExchangeStep
<1>3. CASE VenueCancels(o)
  <2>1. /\ wire' = wire
        /\ venue' = [venue EXCEPT ![o] = [@ EXCEPT !.state = "canceled"]]
    BY <1>3 DEF VenueCancels
  <2>2. /\ venue' \in [Order -> [state : VenueState, qty : 0..Qty, filled : 0..Qty]]
        /\ VenueUnfilled'
    BY <1>1, <2>1 DEF Base, VenueUnfilled, Resting, VenueState
  <2> QED BY <1>1, <2>1, <2>2, ExchangeStep
<1>4. CASE LateArrival(o)
  <2>1. PICK w \in wire : /\ w[1] = o /\ wire' = wire \ {w}
                          /\ IF venue[o].state = "none" THEN Book(o, w[2]) ELSE UNCHANGED venue
    BY <1>4 DEF LateArrival
  <2>2. w[2] \in 1..Qty /\ wire' \subseteq Order \X (1..Qty)
    BY <1>1, <2>1
  <2>3. /\ venue' \in [Order -> [state : VenueState, qty : 0..Qty, filled : 0..Qty]]
        /\ VenueUnfilled'
    <3>1. CASE Book(o, w[2])
      BY <2>2, <3>1, BookedVenue
    <3>2. CASE UNCHANGED venue
      BY <1>1, <3>2 DEF Base, VenueUnfilled
    <3> QED BY <2>1, <3>1, <3>2
  <2> QED BY <1>1, <2>2, <2>3, ExchangeStep
<1> QED BY <1>2, <1>3, <1>4

LEMMA SwitchStep ==
    ASSUME Base, Halt \/ Resume
    PROVE  Base'
<1>1. /\ UNCHANGED <<store, world, task, batch, syncer, boot>> /\ halted' \in BOOLEAN
      /\ Resume => blockers \cap PERSISTENT_STATUS_BLOCKERS = {} /\ phase = "running"
      /\ Halt => halted' = TRUE
  BY DEF Halt, Resume, Running
<1>2. faults' \in FaultCounts
  BY FaultsCounted, BoundsAssumption DEF Halt, Resume, FaultCounts
<1>3. TypeOK'
  BY <1>1, <1>2 DEF Base, TypeOK, store, world, syncer, boot, FaultCounts
<1>4. /\ WorkerOK(task["worker"], batch, orders, cmds)'
      /\ OperatorOK(task["operator"], orders, cmds)'
  BY <1>1 DEF Base, store
<1>5. SyncOK' /\ StoppedIsIdle' /\ VenueUnfilled' /\ ReconciledOnce'
  BY <1>1 DEF Base, SyncOK, StoppedIsIdle, VenueUnfilled, ReconciledOnce, store, world, syncer,
              boot
<1>6. CommandsKnown' /\ FallbackCovered' /\ RecordedBeforeSent' /\ SentDecided'
  BY <1>1 DEF Base, CommandsKnown, FallbackCovered, RecordedBeforeSent, SentDecided, store,
              world
<1>7. PrebootBlocked'
  BY <1>1 DEF Base, PrebootBlocked, Blocked, store, boot
<1> QED BY <1>3, <1>4, <1>5, <1>6, <1>7 DEF Base

------------------------------------------------------------------------------
(* Crash and startup recovery *)

LEMMA OrdersFinite ==
    /\ IsFiniteSet(Order) /\ Cardinality(Order) \in Nat
    /\ \A S \in SUBSET Order : /\ IsFiniteSet(S) /\ Cardinality(S) \in Nat
                               /\ Cardinality(S) <= Cardinality(Order)
<1>1. IsFiniteSet(Order) /\ Cardinality(Order) \in Nat
  BY OrderAssumption, FS_CardinalityType
<1>2. ASSUME NEW S \in SUBSET Order
      PROVE  IsFiniteSet(S) /\ Cardinality(S) \in Nat /\ Cardinality(S) <= Cardinality(Order)
  BY <1>1, FS_Subset, FS_CardinalityType
<1> QED BY <1>1, <1>2

(* A step of a process that is down or starting: no actor is at work.      *)
LEMMA StoppedStep ==
    ASSUME Base, TypeOK', phase' \in {"down", "boot"}, StoppedIsIdle', ReconciledOnce',
           UNCHANGED <<store, venue, sends, halted>>,
           \A o \in preboot' \cup unresolved' : orders[o] # NoRow
    PROVE  Base'
<1>1. task'["worker"] = Idle /\ task'["operator"] = Idle /\ batch' = <<>>
      /\ syncTodo' = <<>> /\ syncSave' = <<>>
  BY DEF StoppedIsIdle
<1>2. /\ WorkerOK(task["worker"], batch, orders, cmds)'
      /\ OperatorOK(task["operator"], orders, cmds)'
  BY <1>1, IdleTask
<1>3. SyncOK'
  BY <1>1, EmptySeq DEF SyncOK
<1>4. CommandsKnown' /\ FallbackCovered' /\ RecordedBeforeSent' /\ SentDecided' /\ VenueUnfilled'
  BY <1>1, EmptySeq DEF Base, CommandsKnown, FallbackCovered, RecordedBeforeSent,
                        SentDecided, VenueUnfilled, store
<1>5. PrebootBlocked'
  BY DEF PrebootBlocked, store
<1> QED BY <1>2, <1>3, <1>4, <1>5 DEF Base

LEMMA CrashStep ==
    ASSUME Base, Crash
    PROVE  Base'
<1>1. /\ phase' = "down" /\ task' = [a \in {"worker", "operator"} |-> Idle]
      /\ batch' = <<>> /\ syncTodo' = <<>> /\ syncSave' = <<>>
      /\ UNCHANGED <<store, world, halted, blockers, unresolved, reconciled, preboot>>
  BY DEF Crash
<1>2. faults' \in FaultCounts
  BY FaultsCounted, BoundsAssumption DEF Crash, FaultCounts
<1>3. task' \in [{"worker", "operator"} -> Task] /\ task'["worker"] = Idle
      /\ task'["operator"] = Idle
  BY <1>1, IdleTask
<1>4. batch' \in Batches /\ syncTodo' \in Seq(Pending) /\ syncSave' \in Seq(Pending)
  BY <1>1, EmptySeq DEF Batches
<1>5. TypeOK'
  BY <1>1, <1>2, <1>3, <1>4 DEF Base, TypeOK, store, world, FaultCounts, Batches, Entry
<1>6. StoppedIsIdle' /\ ReconciledOnce'
  BY <1>1, <1>3 DEF Base, StoppedIsIdle, ReconciledOnce
<1>7. UNCHANGED <<store, venue, sends, halted>>
      /\ \A o \in preboot' \cup unresolved' : orders[o] # NoRow
  BY <1>1 DEF Base, PrebootBlocked, world
<1> QED BY <1>1, <1>5, <1>6, <1>7, StoppedStep

LEMMA RestartStep ==
    ASSUME Base, Restart
    PROVE  Base'
<1>1. /\ phase = "down" /\ phase' = "boot" /\ wire' = {} /\ reconciled' = 0
      /\ unresolved' = {o \in Order : IsStuck(orders[o])}
      /\ preboot' = {o \in Order : orders[o] # NoRow}
      /\ UNCHANGED <<store, venue, sends, task, batch, syncer, blockers, halted, faults>>
  BY DEF Restart
<1>2. /\ unresolved' \in SUBSET Order /\ preboot' \subseteq Order
      /\ \A o \in preboot' \cup unresolved' : orders[o] # NoRow
  BY <1>1 DEF IsStuck
<1>3. reconciled' \in 0..Cardinality(Order) /\ ReconciledOnce'
  BY <1>1, <1>2, OrdersFinite DEF ReconciledOnce
<1>4. TypeOK'
  BY <1>1, <1>2, <1>3 DEF Base, TypeOK, store, syncer
<1>5. StoppedIsIdle'
  BY <1>1 DEF Base, StoppedIsIdle, syncer
<1> QED BY <1>1, <1>2, <1>3, <1>4, <1>5, StoppedStep

LEMMA UnresolvedLess ==
    ASSUME Base, NEW o \in unresolved, unresolved' = unresolved \ {o},
           reconciled' \in {reconciled, reconciled + 1}
    PROVE  /\ unresolved' \subseteq Order /\ reconciled' \in 0..Cardinality(Order)
           /\ ReconciledOnce'
<1>1. unresolved \in SUBSET Order /\ reconciled \in 0..Cardinality(Order)
      /\ reconciled + Cardinality(unresolved) <= Cardinality(Order)
  BY DEF Base, TypeOK, ReconciledOnce
<1>2. IsFiniteSet(unresolved) /\ Cardinality(unresolved) \in Nat /\ Cardinality(Order) \in Nat
  BY <1>1, OrdersFinite
<1>3. unresolved' \in SUBSET Order
  BY <1>1
<1>4. Cardinality(unresolved') \in Nat
  BY <1>3, OrdersFinite
<1>5. Cardinality(unresolved') = Cardinality(unresolved) - 1
  BY <1>2, FS_RemoveElement
<1> QED BY <1>1, <1>2, <1>3, <1>4, <1>5 DEF ReconciledOnce

LEMMA ReconcileUnreachableStep ==
    ASSUME Base, NEW o \in Order, ReconcileUnreachable(o)
    PROVE  Base'
<1>1. /\ phase = "boot" /\ o \in unresolved /\ unresolved' = unresolved \ {o}
      /\ UNCHANGED <<store, world, task, batch, syncer, phase, blockers, reconciled,
                     preboot, halted, faults>>
  BY DEF ReconcileUnreachable
<1>2. /\ unresolved' \subseteq Order /\ reconciled' \in 0..Cardinality(Order)
      /\ ReconciledOnce'
  BY <1>1, UnresolvedLess
<1>3. TypeOK'
  BY <1>1, <1>2 DEF Base, TypeOK, store, world, syncer
<1>4. StoppedIsIdle'
  BY <1>1 DEF Base, StoppedIsIdle, syncer
<1>5. /\ phase' \in {"down", "boot"} /\ UNCHANGED <<store, venue, sends, halted>>
      /\ \A p \in preboot' \cup unresolved' : orders[p] # NoRow
  BY <1>1 DEF Base, PrebootBlocked, world
<1> QED BY <1>2, <1>3, <1>4, <1>5, StoppedStep

(* The snapshot the reconciler saves.                                      *)
LEMMA ResolvedSnapshot ==
    ASSUME Base, NEW o \in Order, o \in unresolved, venue[o].state # "none"
    PROVE  LET s == ResolvedOrderState(o, orders[o], venue[o]) IN
           /\ orders[o] \in Snapshot /\ orders[o] # NoRow /\ s \in Snapshot
           /\ \/ /\ Resting(venue[o])
                 /\ s = [orders[o] EXCEPT !.status = "SUBMITTED", !.exchange_order_id = o]
              \/ /\ venue[o].state = "canceled"
                 /\ s = [orders[o] EXCEPT !.status = "CANCELED", !.exchange_order_id = o]
              \/ /\ venue[o].state = "filled"
                 /\ s = [orders[o] EXCEPT !.status = "FILLED", !.exchange_order_id = o,
                            !.filled_qty = Greatest(orders[o].filled_qty, venue[o].filled),
                            !.remaining_qty = 0]
<1> DEFINE s == ResolvedOrderState(o, orders[o], venue[o])
<1>2. orders[o] \in Snapshot /\ orders[o] # NoRow
  BY DEF Base, TypeOK, PrebootBlocked
<1>3. s \in Snapshot
  <2>1. /\ venue[o].state \in {"live", "canceling", "filled", "canceled"}
        /\ venue[o].filled \in 0..Qty /\ o \in VenueId
    BY OrderAssumption DEF Base, TypeOK, VenueState
  <2>2. Greatest(orders[o].filled_qty, venue[o].filled) \in 0..Qty /\ 0 \in 0..Qty
    BY <1>2, <2>1, BoundsAssumption DEF Snapshot, Greatest
  <2>3. {"SUBMITTED", "CANCELED", "FILLED"} \subseteq OrderLifecycleStatus
    BY DEF OrderLifecycleStatus, TERMINAL_ORDER_STATES, OPEN_ORDER_STATES
  <2>4. CASE Resting(venue[o])
    <3>1. s = [orders[o] EXCEPT !.status = "SUBMITTED", !.exchange_order_id = o]
      BY <2>4 DEF ResolvedOrderState, Resting
    <3> QED BY <1>2, <2>1, <2>3, <3>1 DEF Snapshot
  <2>5. CASE venue[o].state = "canceled"
    <3>1. s = [orders[o] EXCEPT !.status = "CANCELED", !.exchange_order_id = o]
      BY <2>5 DEF ResolvedOrderState, Resting
    <3> QED BY <1>2, <2>1, <2>3, <3>1 DEF Snapshot
  <2>6. CASE venue[o].state = "filled"
    <3> DEFINE g == Greatest(orders[o].filled_qty, venue[o].filled)
    <3>1. s = [orders[o] EXCEPT !.status = "FILLED", !.exchange_order_id = o,
                                !.filled_qty = g, !.remaining_qty = 0]
      BY <2>6 DEF ResolvedOrderState, Resting
    <3>2. g \in 0..Qty
      BY <2>2
    <3> HIDE DEF g, s
    <3> QED BY <1>2, <2>1, <2>2, <2>3, <3>1, <3>2 DEF Snapshot
  <2> QED BY <2>1, <2>4, <2>5, <2>6 DEF Resting
<1>4. \/ /\ Resting(venue[o])
         /\ s = [orders[o] EXCEPT !.status = "SUBMITTED", !.exchange_order_id = o]
      \/ /\ venue[o].state = "canceled"
         /\ s = [orders[o] EXCEPT !.status = "CANCELED", !.exchange_order_id = o]
      \/ /\ venue[o].state = "filled"
         /\ s = [orders[o] EXCEPT !.status = "FILLED", !.exchange_order_id = o,
                    !.filled_qty = Greatest(orders[o].filled_qty, venue[o].filled),
                    !.remaining_qty = 0]
  <2>1. venue[o].state \in {"live", "canceling", "filled", "canceled"}
    BY DEF Base, TypeOK, VenueState
  <2> QED BY <2>1 DEF ResolvedOrderState, Resting
<1> QED BY <1>2, <1>3, <1>4

LEMMA ReconcileResolvedStep ==
    ASSUME Base, NEW o \in Order, ReconcileResolved(o)
    PROVE  Base'
<1> DEFINE s == ResolvedOrderState(o, orders[o], venue[o])
           n == SaveResult(orders[o], s)
<1>1. /\ phase = "boot" /\ o \in unresolved /\ unresolved' = unresolved \ {o}
      /\ venue[o].state # "none" /\ orders' = [orders EXCEPT ![o] = n]
      /\ reconciled' = reconciled + 1
      /\ UNCHANGED <<cmds, queue, world, task, batch, syncer, phase, blockers, preboot,
                     halted, faults>>
  BY DEF ReconcileResolved
<1>2. orders[o] \in Snapshot /\ orders[o] # NoRow /\ orders \in [Order -> Snapshot \cup {NoRow}]
  BY <1>1 DEF Base, TypeOK, PrebootBlocked
<1>3. s \in Snapshot
  BY <1>1, ResolvedSnapshot
<1> HIDE DEF s
<1>4. n \in Snapshot /\ Forward(orders[o], n) /\ n # NoRow
  BY <1>2, <1>3, SaveSnapshot, SaveForward, SnapshotFacts
<1> HIDE DEF n
<1>5. /\ orders' \in [Order -> Snapshot \cup {NoRow}] /\ orders'[o] # NoRow
      /\ \A p \in Order : Forward(orders[p], orders'[p])
      /\ \A p \in Order : orders'[p] = NoRow <=> orders[p] = NoRow
  BY <1>1, <1>2, <1>4, ForwardSame
<1>6. /\ unresolved' \subseteq Order /\ reconciled' \in 0..Cardinality(Order)
      /\ ReconciledOnce'
  BY <1>1, UnresolvedLess
<1>7. TypeOK'
  BY <1>1, <1>5, <1>6 DEF Base, TypeOK, world, syncer
<1>8. StoppedIsIdle' /\ VenueUnfilled'
  BY <1>1 DEF Base, StoppedIsIdle, VenueUnfilled, syncer, world
<1>9. /\ task'["worker"] = Idle /\ task'["operator"] = Idle /\ batch' = <<>>
      /\ syncTodo' = <<>> /\ syncSave' = <<>>
  BY <1>1, <1>8 DEF StoppedIsIdle
<1>10. /\ WorkerOK(task["worker"], batch, orders, cmds)'
       /\ OperatorOK(task["operator"], orders, cmds)'
  BY <1>9, IdleTask
<1>11. SyncOK'
  BY <1>9, EmptySeq DEF SyncOK
<1>12. CommandsKnown'
  BY <1>1, <1>5, <1>9, EmptySeq DEF Base, CommandsKnown
<1>13. FallbackCovered' /\ RecordedBeforeSent'
  <2>1. \A p \in PostOnly : FallbackOf[p] \in Order
    BY OrderAssumption
  <2>2. RowsForward /\ sends' = sends
    BY <1>1, <1>5 DEF RowsForward, world
  <2> QED BY <1>1, <1>5, <2>1, <2>2, RecordsStable
<1>14. SentDecided'
  BY <1>1, <1>5 DEF Base, SentDecided, Decided, Forward
<1>15. PrebootBlocked'
  BY <1>1, <1>5 DEF Base, TypeOK, PrebootBlocked
<1> QED BY <1>6, <1>7, <1>8, <1>10, <1>11, <1>12, <1>13, <1>14, <1>15 DEF Base

(* The blockers of recovery hold up every submit command that a worker     *)
(* would take up again for a stuck order: a CLAIMED one by itself, a       *)
(* PENDING one because the commands that wait outnumber those.             *)
LEMMA RecoveryBlocks ==
    ASSUME TypeOK, NEW o \in Order, IsStuck(orders[o]),
           cmds[submit(o)] \in {"PENDING", "CLAIMED"}
    PROVE  RecoveryBlockers(orders, [p \in Order |-> cmds[submit(p)]],
               {c \in Command : cmds[c] \in {"PENDING", "CLAIMED"}}, reconciled)
           \cap PERSISTENT_STATUS_BLOCKERS # {}
<1> DEFINE st == [p \in Order |-> cmds[submit(p)]]
           pending == {c \in Command : cmds[c] \in {"PENDING", "CLAIMED"}}
           claimed == StuckIn(orders, st, "CLAIMED")
           B == RecoveryBlockers(orders, st, pending, reconciled)
<1>1. /\ DOMAIN orders = Order /\ claimed \in SUBSET Order
      /\ \A p \in claimed : cmds[submit(p)] = "CLAIMED"
      /\ cmds[submit(o)] = "CLAIMED" => o \in claimed
  BY DEF TypeOK, StuckIn
<1>2. IsFiniteSet(claimed) /\ Cardinality(claimed) \in Nat
  BY <1>1, OrdersFinite
<1>3. IsFiniteSet(pending) /\ Cardinality(pending) \in Nat
  <2>1. IsFiniteSet({"submit", "cancel"})
    <3>1. IsFiniteSet({"submit"} \cup {"cancel"})
      BY FS_Singleton, FS_Union
    <3>2. {"submit", "cancel"} = {"submit"} \cup {"cancel"}
      OBVIOUS
    <3> QED BY <3>1, <3>2
  <2>2. IsFiniteSet(Command)
    BY <2>1, OrdersFinite, FS_Product DEF Command
  <2> QED BY <2>2, FS_Subset, FS_CardinalityType
<1>4. /\ Cardinality(claimed) > 0
            => "claimed_submit_commands_require_exchange_reconciliation" \in B
      /\ Cardinality(pending) > Cardinality(claimed) => "pending_execution_commands" \in B
  BY DEF RecoveryBlockers
<1> HIDE DEF B, claimed
<1>5. CASE cmds[submit(o)] = "CLAIMED"
  <2>1. Cardinality(claimed) > 0
    BY <1>1, <1>2, <1>5, FS_EmptySet
  <2> QED BY <1>4, <2>1 DEF PERSISTENT_STATUS_BLOCKERS, B
<1>6. CASE cmds[submit(o)] = "PENDING"
  <2> DEFINE rest == pending \ {submit(o)}
             f == [p \in claimed |-> submit(p)]
  <2>1. submit(o) \in pending
    BY <1>6 DEF submit, Command
  <2>2. IsFiniteSet(rest) /\ Cardinality(rest) = Cardinality(pending) - 1
    BY <1>3, <2>1, FS_RemoveElement
  <2>3. \A p \in claimed : submit(p) \in rest
    BY <1>1, <1>6 DEF submit, Command
  <2> HIDE DEF rest
  <2>4. f \in [claimed -> rest] /\ \A p, q \in claimed : f[p] = f[q] => p = q
    BY <2>3 DEF submit
  <2>5. f \in Injection(claimed, rest)
    BY <2>4 DEF Injection, IsInjective
  <2> HIDE DEF f
  <2>6. Cardinality(claimed) <= Cardinality(rest)
    BY <2>2, <2>5, FS_Injection
  <2> HIDE DEF pending
  <2>7. Cardinality(pending) > Cardinality(claimed)
    BY <1>2, <1>3, <2>2, <2>6
  <2> QED BY <1>4, <2>7 DEF PERSISTENT_STATUS_BLOCKERS, B, pending
<1> QED BY <1>5, <1>6

LEMMA FinishRecoveryStep ==
    ASSUME Base, FinishRecovery
    PROVE  Base'
<1> DEFINE B == RecoveryBlockers(orders, [p \in Order |-> cmds[submit(p)]],
                    {c \in Command : cmds[c] \in {"PENDING", "CLAIMED"}}, reconciled)
<1>1. /\ phase = "boot" /\ phase' = "running" /\ blockers' = B
      /\ halted' = (halted \/ blockers' # {} \/ \E o \in Order : IsOpen(orders[o]))
      /\ UNCHANGED <<store, world, task, batch, syncer, unresolved, reconciled, preboot,
                     faults>>
  BY DEF FinishRecovery
<1> HIDE DEF B
<1>2. halted' \in BOOLEAN
  BY <1>1
<1>3. TypeOK'
  BY <1>1, <1>2 DEF Base, TypeOK, store, world, syncer
<1>4. /\ WorkerOK(task["worker"], batch, orders, cmds)'
      /\ OperatorOK(task["operator"], orders, cmds)'
  BY <1>1 DEF Base, store
<1>5. SyncOK' /\ StoppedIsIdle' /\ VenueUnfilled' /\ ReconciledOnce'
  BY <1>1 DEF Base, SyncOK, StoppedIsIdle, VenueUnfilled, ReconciledOnce, store, world, syncer
<1>6. CommandsKnown' /\ FallbackCovered' /\ RecordedBeforeSent' /\ SentDecided'
  BY <1>1 DEF Base, CommandsKnown, FallbackCovered, RecordedBeforeSent, SentDecided, store,
              world
<1>7. PrebootBlocked'
  <2>1. \A o \in preboot' \cup unresolved' : orders'[o] # NoRow
    BY <1>1 DEF Base, PrebootBlocked, store
  <2>2. ASSUME NEW o \in preboot', cmds'[submit(o)] \in {"PENDING", "CLAIMED"},
               IsStuck(orders'[o])
        PROVE  Blocked'
    <3>1. o \in Order /\ cmds' = cmds /\ orders' = orders /\ TypeOK
      BY <1>1 DEF Base, TypeOK, store
    <3>2. B \cap PERSISTENT_STATUS_BLOCKERS # {}
      BY <2>2, <3>1, RecoveryBlocks DEF B
    <3> QED BY <1>1, <3>2 DEF Blocked
  <2> QED BY <2>1, <2>2 DEF PrebootBlocked
<1> QED BY <1>3, <1>4, <1>5, <1>6, <1>7 DEF Base

------------------------------------------------------------------------------
(* Theorems *)

LEMMA BaseInit ==
    ASSUME Init
    PROVE  Base
<1>1. Cardinality({}) = 0 /\ Cardinality(Order) \in Nat
  BY OrdersFinite, FS_EmptySet, FS_CardinalityType
<1>2. Idle \in Task
  BY BoundsAssumption DEF Idle, Task
<1>3. "none" \in VenueState /\ "none" \in CommandState
  BY DEF VenueState, CommandState
<1>4. TypeOK
  <2>1. /\ faults \in [crash : 0..MaxCrashes, db : 0..MaxDbFaults, halt : 0..MaxHalts]
        /\ reconciled \in 0..Cardinality(Order)
    BY <1>1, BoundsAssumption DEF Init
  <2>2. venue \in [Order -> [state : VenueState, qty : 0..Qty, filled : 0..Qty]]
    BY <1>3, BoundsAssumption DEF Init
  <2> QED BY <1>2, <1>3, <2>1, <2>2, EmptySeq DEF Init, TypeOK
<1>5. StoppedIsIdle /\ VenueUnfilled /\ ReconciledOnce /\ RecordedBeforeSent
  BY <1>1, OrdersFinite DEF Init, StoppedIsIdle, VenueUnfilled, ReconciledOnce,
     RecordedBeforeSent, Resting
<1>6. SyncOK /\ PrebootBlocked
  BY DEF Init, SyncOK, PrebootBlocked
<1>7. CommandsKnown /\ SentDecided
  <2>1. \A o \in Order : cmds[submit(o)] = "none" /\ cmds[cancel(o)] = "none"
    BY DEF Init, Command, submit, cancel
  <2> QED BY <2>1 DEF CommandsKnown, SentDecided, Init
<1>8. FallbackCovered
  BY OrderAssumption DEF FallbackCovered, Init
<1>9. WorkerOK(task["worker"], batch, orders, cmds) /\ OperatorOK(task["operator"], orders, cmds)
  BY DEF Init, WorkerOK, OperatorOK, Idle
<1> QED BY <1>4, <1>5, <1>6, <1>7, <1>8, <1>9 DEF Base

LEMMA WorkerStep ==
    ASSUME Base, Worker
    PROVE  Base'
<1>1. CASE Poll \/ SkipCommand \/ ClaimCommand \/ MarkSent \/ MarkAcked \/ MarkFailed
  BY <1>1, PollStep, SkipCommandStep, ClaimCommandStep, MarkStep
<1>2. CASE Save("worker") \/ SaveRefused("worker") \/ EnqueueCancel("worker")
  BY <1>2, WorkerSaveStep, SaveRefusedStep, EnqueueCancelStep
<1>3. CASE SubmitDecided \/ SubmitBlocked \/ SubmitProceeds
  BY <1>3, SubmitDecidedStep, SubmitBlockedStep, SubmitProceedsStep
<1>4. CASE PlaceDeclined \/ PlaceAccepted \/ PlaceRejected \/ PlaceTimesOut
  BY <1>4, PlaceDeclinedStep, PlaceAcceptedStep, PlaceRejectedStep, PlaceTimesOutStep
<1>5. CASE ReadDetail \/ RecoverSubmit \/ PostOnlyTimeout \/ PostOnlyFallback
  BY <1>5, ReadDetailStep, RecoverSubmitStep, PostOnlyTimeoutStep, PostOnlyFallbackStep
<1>6. CASE ProcessCancel \/ CancelLookup \/ CancelAccepted \/ CancelRejected
  BY <1>6, ProcessCancelStep, CancelLookupStep, CancelAcceptedStep, CancelRejectedStep
<1>7. CASE CancelTimesOut \/ CancelDetail \/ RecoverCancel
  BY <1>7, CancelTimesOutStep, CancelDetailStep, RecoverCancelStep
<1> QED BY <1>1, <1>2, <1>3, <1>4, <1>5, <1>6, <1>7 DEF Worker

LEMMA OtherActorsStep ==
    ASSUME Base, Operator \/ Sync \/ Crash \/ Boot \/ Environment
    PROVE  Base'
<1>1. CASE Operator
  <2>1. ASSUME NEW o \in Order, RequestCancel(o) \/ ResolveStuckSubmission(o)
        PROVE  Base'
    BY <2>1, RequestCancelStep, ResolveStuckStep
  <2>2. CASE Save("operator") \/ SaveRefused("operator") \/ EnqueueCancel("operator")
    BY <2>2, OperatorSaveStep, SaveRefusedStep, EnqueueCancelStep
  <2>3. CASE AbandonSubmit \/ Halt \/ Resume
    BY <2>3, AbandonSubmitStep, SwitchStep
  <2> QED BY <1>1, <2>1, <2>2, <2>3 DEF Operator
<1>2. CASE Sync
  <2>1. CASE SyncCollect \/ SyncAnswered \/ SyncFails \/ SyncSkips
    BY <2>1, SyncCollectStep, SyncAnsweredStep, SyncFailsStep, SyncSkipsStep
  <2>2. CASE SyncSaves \/ SyncAborts
    BY <2>2, SyncSaveStep
  <2> QED BY <1>2, <2>1, <2>2 DEF Sync
<1>3. CASE Crash
  BY <1>3, CrashStep
<1>4. CASE Boot
  <2>1. ASSUME NEW o \in Order, ReconcileResolved(o) \/ ReconcileUnreachable(o)
        PROVE  Base'
    BY <2>1, ReconcileResolvedStep, ReconcileUnreachableStep
  <2> QED BY <1>4, <2>1, RestartStep, FinishRecoveryStep DEF Boot
<1>5. CASE Environment
  BY <1>5, VenueStep DEF Environment
<1> QED BY <1>1, <1>2, <1>3, <1>4, <1>5

LEMMA BaseStep ==
    ASSUME Base, [Next]_vars
    PROVE  Base'
<1>1. ASSUME NEW o \in Order, AcceptIntent(o) \/ BlockIntent(o)
      PROVE  Base'
  BY <1>1, AcceptIntentStep, BlockIntentStep
<1>2. ASSUME NEW a \in {"worker", "operator"}, CancelOrderRaises(a)
      PROVE  Base'
  BY <1>2, CancelOrderRaisesStep
<1>3. CASE Worker \/ ClaimRaises \/ MarkRaises
  BY <1>3, WorkerStep, ClaimRaisesStep, MarkRaisesStep
<1>4. CASE Operator \/ Sync \/ Crash \/ Boot \/ Environment
  BY <1>4, OtherActorsStep
<1>5. CASE UNCHANGED vars
  <2>1. UNCHANGED <<orders, cmds, queue, venue, wire, sends, task, batch, syncTodo, syncSave,
                    phase, halted, blockers, unresolved, reconciled, preboot, faults>>
    BY <1>5 DEF vars, store, world, syncer, boot
  <2>2. TypeOK' /\ StoppedIsIdle' /\ SyncOK' /\ VenueUnfilled' /\ ReconciledOnce'
    BY <2>1 DEF Base, TypeOK, StoppedIsIdle, SyncOK, VenueUnfilled, ReconciledOnce
  <2>3. CommandsKnown' /\ FallbackCovered' /\ RecordedBeforeSent' /\ SentDecided'
    BY <2>1 DEF Base, CommandsKnown, FallbackCovered, RecordedBeforeSent, SentDecided
  <2>4. PrebootBlocked'
    BY <2>1 DEF Base, PrebootBlocked, Blocked
  <2>5. WorkerOK(task["worker"], batch, orders, cmds)'
        /\ OperatorOK(task["operator"], orders, cmds)'
    BY <2>1 DEF Base
  <2> QED BY <2>2, <2>3, <2>4, <2>5 DEF Base
<1> QED BY <1>1, <1>2, <1>3, <1>4, <1>5 DEF Next

(* The invariant holds in every reachable state.                           *)
THEOREM Invariant == Spec => []Base
<1>1. Init => Base
  BY BaseInit
<1>2. Base /\ [Next]_vars => Base'
  BY BaseStep
<1> QED BY <1>1, <1>2, PTL DEF Spec

(* Type correctness: every row, command, batch, task and snapshot in       *)
(* flight stays within its type, and the reconciler never counts more      *)
(* orders than there are.                                                  *)
THEOREM TypeCorrect == Spec => []TypeOK
<1>1. Base => TypeOK
  BY DEF Base
<1> QED BY <1>1, Invariant, PTL

(* Before OrderManager lets the adapter send a placement, the order is in  *)
(* the repository as SUBMITTING or beyond, and no stale snapshot of the    *)
(* sync loop, the operator or the reconciler takes that back.              *)
THEOREM RecordedFirst == Spec => []RecordedBeforeSent
<1>1. Base => RecordedBeforeSent
  BY DEF Base
<1> QED BY <1>1, Invariant, PTL

(* A submit command that the worker marked SENT or ACKED, also one it had  *)
(* to mark after an exception, belongs to an order that has left CREATED   *)
(* and SUBMITTING.                                                         *)
THEOREM SentIsDecided == Spec => []SentMeansDecided
<1>1. Base => SentMeansDecided
  BY DEF Base, SentDecided, SentMeansDecided, Decided
<1> QED BY <1>1, Invariant, PTL

(* The post-only orchestration sends its fallback only once the original   *)
(* has ended or its cancel is recorded with the command that carries it    *)
(* out, and this stays so whatever is written to the original later.       *)
THEOREM FallbackAfterCancel == Spec => []FallbackHasCancelOnRecord
<1>1. Base => FallbackHasCancelOnRecord
  <2> SUFFICES ASSUME Base, NEW o \in PostOnly, sends[FallbackOf[o]] > 0
               PROVE  \/ is_terminal(orders[o].status)
                      \/ orders[o].status = "CANCEL_PENDING" /\ cmds[cancel(o)] # "none"
    BY DEF FallbackHasCancelOnRecord
  <2>1. orders[FallbackOf[o]] # NoRow
    BY OrderAssumption DEF Base, RecordedBeforeSent
  <2> QED BY <2>1 DEF Base, FallbackCovered, Covered, CancelUnderway
<1> QED BY <1>1, Invariant, PTL

(* However many crashes, halts and failing writes there are: a submit that *)
(* a restart found CLAIMED for an order without acknowledgement keeps the  *)
(* process halted, and startup recovery's blocker in place, until the      *)
(* order is resolved.                                                      *)
THEOREM RestartBlocks == Spec => []ClaimedSubmitStaysBlocked
<1>1. Base => ClaimedSubmitStaysBlocked
  BY DEF Base, PrebootBlocked, ClaimedSubmitStaysBlocked, Blocked
<1> QED BY <1>1, Invariant, PTL

==============================================================================
