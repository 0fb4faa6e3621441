----------------------- MODULE CommandFlowSafetyProofs -----------------------
(***************************************************************************)
(* What the command flow does at the exchange, proved on top of the        *)
(* invariant of CommandFlowProofs: an order is sent once, no fill is       *)
(* invented, no order is orphaned, a write of unknown outcome keeps new    *)
(* risk back, and every row implements the lifecycle of an order.          *)
(*                                                                         *)
(* Snapshots of an order wander through the actors' hands and come back    *)
(* late.  The first part says once, for every step, where a snapshot that  *)
(* is around after the step comes from; the invariants about snapshots are *)
(* then proved by their source, not by the action.                         *)
(***************************************************************************)
EXTENDS CommandFlowProofs

------------------------------------------------------------------------------
(* Where snapshots come from *)

(* The snapshot s of the order o is around: in the repository, in the sync *)
(* loop's lists, or in an actor's hands.                                   *)
RowIs(o, s) == orders[o] # NoRow /\ orders[o] = s
ListHas(l, o, s) == \E i \in 1..Len(l) : l[i].order = o /\ l[i].snap = s
WorkerHas(o, s) ==
    /\ task["worker"].pc \in SnapPc
    /\ task["worker"].order = o /\ task["worker"].snap = s
OperatorHas(o, s) ==
    /\ task["operator"].pc # "idle"
    /\ task["operator"].order = o /\ task["operator"].snap = s
Known(o, s) ==
    \/ RowIs(o, s)
    \/ ListHas(syncTodo, o, s) \/ ListHas(syncSave, o, s)
    \/ WorkerHas(o, s) \/ OperatorHas(o, s)

(* The worker is at one of the steps pcs of the order o.                   *)
WorkerAt(o, pcs) == task["worker"].order = o /\ task["worker"].pc \in pcs

(* Read off the exchange; built by the adapter or the order manager; saved *)
(* by an actor; recorded at intake; saved by the reconciler.               *)
Mapped(o, k) ==
    /\ venue[o].state # "none" \/ WorkerAt(o, {"detail", "c_detail"})
    /\ k = MapOrderState(o, venue[o])
Built(o, k) ==
    \/ /\ WorkerAt(o, {"submit"}) /\ ~Decided(orders[o])
       /\ k = IntentState("BLOCKED", Qty, "other")
    \/ /\ WorkerAt(o, {"place"})
       /\ \E st \in {"BLOCKED", "FAILED", "REJECTED"} :
            k = IntentState(st, task["worker"].qty, "other")
    \/ WorkerAt(o, {"detail"}) /\ k = SubmittedState(o, task["worker"].qty)
    \/ WorkerAt(o, {"recover"}) /\ k = SubmissionUnknown(task["worker"].qty)
Submitting(o, k) ==
    \/ /\ WorkerAt(o, {"submit"}) /\ ~Decided(orders[o]) /\ ~UnknownWriteBlocks(o)
       /\ k = SubmittingState(o, Qty)
    \/ /\ task["worker"].pc = "po_fallback" /\ task["worker"].order \in PostOnly
       /\ o = FallbackOf[task["worker"].order] /\ orders[o] = NoRow
       /\ \E q \in 1..Qty : k = IntentState("SUBMITTING", q, "none")
Saved(o, k) ==
    \E i \in Snapshot :
        Known(o, i) /\ ~SaveRaises(orders[o], i) /\ k = SaveResult(orders[o], i)
Fresh(o, k) ==
    /\ o \in Originals /\ orders[o] = NoRow
    /\ \E st \in {"CREATED", "BLOCKED"}, e \in {"none", "other"} :
            k = Normalize(IntentState(st, Qty, e))
Reconciled(o, k) ==
    /\ phase = "boot" /\ o \in unresolved /\ venue[o].state # "none"
    /\ LET r == ResolvedOrderState(o, orders[o], venue[o])
       IN  ~SaveRaises(orders[o], r) /\ k = SaveResult(orders[o], r)
Source(o, k) ==
    \/ Known(o, k) \/ Mapped(o, k) \/ Built(o, k) \/ Submitting(o, k)
    \/ Saved(o, k) \/ Fresh(o, k) \/ Reconciled(o, k)

(* An order is being cancelled, or a stuck submission resolved by hand.    *)
Canceling(o) == o \in Cancelable \/ WorkerAt(o, CancelPc \cup PostOnlyPc)
Resolving(o) ==
    /\ task["operator"] = Idle
    /\ o \in preboot /\ IsStuck(orders[o])
    /\ ~Resting(venue[o]) /\ venue[o].filled = 0

(* k with an error put into it, or with the status of a cancel or of a     *)
(* failed submission.                                                      *)
Edited(o, k, s) ==
    /\ s.exchange_order_id = k.exchange_order_id /\ s.requested_qty = k.requested_qty
    /\ s.filled_qty = k.filled_qty /\ s.remaining_qty = k.remaining_qty
    /\ \/ s.status = k.status /\ s.execution_error \in {k.execution_error, "other"}
       \/ /\ Canceling(o)
          /\ \/ s.status = k.status /\ s.execution_error = "cancel_unknown"
             \/ /\ s.status \in {"CANCELED", "CANCEL_PENDING", "FAILED"}
                /\ s.execution_error \in {k.execution_error, "none", "other"}
       \/ /\ Resolving(o) /\ k = orders[o]
          /\ s.status = "FAILED" /\ s.execution_error = "other"

Derived(o, s) == \E k \in Snapshot : Source(o, k) /\ Edited(o, k, s)

LEMMA KnownSnapshot ==
    ASSUME Base, NEW o \in Order, NEW s, Known(o, s)
    PROVE  s \in Snapshot
<1>1. /\ orders \in [Order -> Snapshot \cup {NoRow}]
      /\ syncTodo \in Seq(Pending) /\ syncSave \in Seq(Pending)
      /\ WorkerOK(task["worker"], batch, orders, cmds)
      /\ OperatorOK(task["operator"], orders, cmds)
  BY DEF Base, TypeOK
<1>2. CASE RowIs(o, s)
  BY <1>1, <1>2 DEF RowIs
<1>3. CASE ListHas(syncTodo, o, s)
  <2>1. \A i \in 1..Len(syncTodo) : syncTodo[i] \in Pending
    BY <1>1, ElementOfSeq
  <2> QED BY <1>3, <2>1 DEF ListHas, Pending
<1>4. CASE ListHas(syncSave, o, s)
  <2>1. \A i \in 1..Len(syncSave) : syncSave[i] \in Pending
    BY <1>1, ElementOfSeq
  <2> QED BY <1>4, <2>1 DEF ListHas, Pending
<1>5. CASE WorkerHas(o, s)
  BY <1>1, <1>5 DEF WorkerHas, WorkerOK, SnapPc, Saving
<1>6. CASE OperatorHas(o, s)
  BY <1>1, <1>6 DEF OperatorHas, OperatorOK
<1> QED BY <1>2, <1>3, <1>4, <1>5, <1>6 DEF Known

(* What has a source is derived, and so is what is known.                  *)
LEMMA SourceDerived ==
    ASSUME NEW o \in Order, NEW s \in Snapshot, Source(o, s)
    PROVE  Derived(o, s)
<1>1. Edited(o, s, s)
  BY DEF Edited
<1> QED BY <1>1 DEF Derived

LEMMA KnownDerived ==
    ASSUME Base, NEW o \in Order, NEW s, Known(o, s)
    PROVE  Derived(o, s)
  BY KnownSnapshot, SourceDerived DEF Source

(* Steps that leave all snapshots where they are, and steps of one actor.  *)
LEMMA NothingMoves ==
    ASSUME Base, UNCHANGED <<orders, task, syncTodo, syncSave>>,
           NEW o \in Order, NEW s, Known(o, s)'
    PROVE  Derived(o, s)
<1>1. Known(o, s)
  BY DEF Known, RowIs, ListHas, WorkerHas, OperatorHas
<1> QED BY <1>1, KnownDerived

LEMMA TaskMoves ==
    ASSUME Base, NEW a \in {"worker", "operator"}, NEW t, SetTask(a, t),
           UNCHANGED <<orders, syncTodo, syncSave>>,
           a = "worker" /\ t.pc \in SnapPc => Derived(t.order, t.snap),
           a = "operator" /\ t.pc # "idle" => Derived(t.order, t.snap),
           NEW o \in Order, NEW s, Known(o, s)'
    PROVE  Derived(o, s)
<1>1. /\ task'[a] = t
      /\ a = "worker" => task'["operator"] = task["operator"]
      /\ a = "operator" => task'["worker"] = task["worker"]
  BY DEF SetTask, Base, TypeOK
<1>2. CASE Known(o, s)
  BY <1>2, KnownDerived
<1>3. CASE ~Known(o, s)
  <2>1. \/ a = "worker" /\ WorkerHas(o, s)'
        \/ a = "operator" /\ OperatorHas(o, s)'
    BY <1>1, <1>3 DEF Known, RowIs, ListHas, WorkerHas, OperatorHas
  <2> QED BY <1>1, <2>1 DEF WorkerHas, OperatorHas
<1> QED BY <1>2, <1>3

(* The worker goes on with a snapshot in hand, or with none.               *)
LEMMA WorkerTakes ==
    ASSUME Base, task["worker"].pc # "idle", NEW pc, NEW k \in Snapshot,
           GotoWith("worker", pc, k), UNCHANGED <<orders, syncTodo, syncSave>>,
           Derived(task["worker"].order, k),
           NEW o \in Order, NEW s, Known(o, s)'
    PROVE  Derived(o, s)
<1> DEFINE t == [task["worker"] EXCEPT !.pc = pc, !.snap = k]
<1>1. t.order = task["worker"].order /\ t.snap = k /\ SetTask("worker", t)
  BY WorkerAtWork DEF GotoWith, Task
<1> QED BY <1>1, TaskMoves

LEMMA WorkerKeepsSnap ==
    ASSUME Base, task["worker"].pc # "idle", NEW pc,
           pc \in SnapPc => task["worker"].pc \in SnapPc,
           Goto("worker", pc), UNCHANGED <<orders, syncTodo, syncSave>>,
           NEW o \in Order, NEW s, Known(o, s)'
    PROVE  Derived(o, s)
<1> DEFINE w == task["worker"]
           t == [w EXCEPT !.pc = pc]
<1>1. /\ t.order = w.order /\ t.snap = w.snap /\ t.pc = pc /\ SetTask("worker", t)
      /\ w.order \in Order
  BY WorkerAtWork DEF Goto, Task
<1>2. t.pc \in SnapPc => Derived(t.order, t.snap)
  BY <1>1, KnownDerived DEF Known, WorkerHas
<1> QED BY <1>1, <1>2, TaskMoves

------------------------------------------------------------------------------
(* The worker's steps *)

LEMMA SubmitOrigin ==
    ASSUME Base, SubmitDecided \/ SubmitBlocked \/ SubmitProceeds \/ PlaceDeclined,
           NEW o \in Order, NEW s, Known(o, s)'
    PROVE  Derived(o, s)
<1> DEFINE w == task["worker"]
<1>1. UNCHANGED <<orders, syncTodo, syncSave>>
  BY DEF SubmitDecided, SubmitBlocked, SubmitProceeds, PlaceDeclined, store, syncer
<1>2. w.pc \in {"submit", "place"}
  BY DEF SubmitDecided, SubmitBlocked, SubmitProceeds, PlaceDeclined, SubmitDue, Placing, At
<1>3. /\ w.pc # "idle" /\ w.order \in Order /\ w.qty \in 1..Qty
      /\ Qty \in 1..Qty /\ TypeOK
  <2>1. Qty \in 1..Qty /\ TypeOK /\ w.pc # "idle"
    BY <1>2, BoundsAssumption DEF Base
  <2> QED BY <2>1, WorkerAtWork
<1>4. CASE SubmitDecided
  BY <1>1, <1>3, <1>4, WorkerKeepsSnap DEF SubmitDecided, SnapPc, Saving
<1>5. CASE SubmitBlocked
  <2> DEFINE k == IntentState("BLOCKED", Qty, "other")
  <2>1. k \in Snapshot
    BY <1>3, BuiltSnapshots DEF OrderLifecycleStatus, TERMINAL_ORDER_STATES, ExecutionError
  <2>2. Derived(w.order, k)
    <3>1. Source(w.order, k)
      BY <1>5 DEF SubmitBlocked, SubmitDue, At, Source, Built, WorkerAt, Decided
    <3> HIDE DEF k
    <3> QED BY <1>3, <2>1, <3>1, SourceDerived
  <2>3. GotoWith("worker", "save_blocked", k)
    BY <1>5 DEF SubmitBlocked
  <2> HIDE DEF k
  <2> QED BY <1>1, <1>3, <2>1, <2>2, <2>3, WorkerTakes
<1>6. CASE SubmitProceeds
  <2> DEFINE k == SubmittingState(w.order, Qty)
  <2>1. k \in Snapshot
    BY <1>3, SubmittingSnapshot
  <2>2. Derived(w.order, k)
    <3>1. Source(w.order, k)
      BY <1>6 DEF SubmitProceeds, SubmitDue, At, Source, Submitting, WorkerAt, Decided
    <3> HIDE DEF k
    <3> QED BY <1>3, <2>1, <3>1, SourceDerived
  <2>3. GotoWith("worker", "save_submitting", k)
    BY <1>6 DEF SubmitProceeds
  <2> HIDE DEF k
  <2> QED BY <1>1, <1>3, <2>1, <2>2, <2>3, WorkerTakes
<1>7. CASE PlaceDeclined
  <2>1. PICK st \in {"BLOCKED", "FAILED"} :
            GotoWith("worker", "save_result", IntentState(st, w.qty, "other"))
    BY <1>7 DEF PlaceDeclined, PlaceResult
  <2> DEFINE k == IntentState(st, w.qty, "other")
  <2>2. k \in Snapshot
    BY <1>3, BuiltSnapshots DEF OrderLifecycleStatus, TERMINAL_ORDER_STATES, ExecutionError
  <2>3. Derived(w.order, k)
    <3>1. Source(w.order, k)
      BY <1>7 DEF PlaceDeclined, Placing, At, Source, Built, WorkerAt
    <3> HIDE DEF k
    <3> QED BY <1>3, <2>2, <3>1, SourceDerived
  <2>4. GotoWith("worker", "save_result", k)
    BY <2>1
  <2> HIDE DEF k
  <2> QED BY <1>1, <1>3, <2>2, <2>3, <2>4, WorkerTakes
<1> QED BY <1>4, <1>5, <1>6, <1>7

LEMMA PlaceOrigin ==
    ASSUME Base, PlaceAccepted \/ PlaceRejected \/ PlaceTimesOut,
           NEW o \in Order, NEW s, Known(o, s)'
    PROVE  Derived(o, s)
<1> DEFINE w == task["worker"]
<1>1. UNCHANGED <<orders, syncTodo, syncSave>> /\ w.pc = "place"
  BY DEF PlaceAccepted, PlaceRejected, PlaceTimesOut, Placing, At, store, syncer
<1>2. w.pc # "idle" /\ w.order \in Order /\ w.qty \in 1..Qty
  BY <1>1, WorkerAtWork
<1>3. CASE PlaceAccepted \/ PlaceTimesOut
  <2>1. PICK pc \in {"detail", "recover"} : Goto("worker", pc)
    BY <1>3 DEF PlaceAccepted, PlaceTimesOut
  <2>2. pc \notin SnapPc
    BY DEF SnapPc, Saving
  <2> QED BY <1>1, <1>2, <2>1, <2>2, WorkerKeepsSnap
<1>4. CASE PlaceRejected
  <2>1. PICK st \in {"REJECTED", "FAILED"} :
            GotoWith("worker", "save_result", IntentState(st, w.qty, "other"))
    BY <1>4 DEF PlaceRejected, PlaceResult
  <2> DEFINE k == IntentState(st, w.qty, "other")
  <2>2. k \in Snapshot
    BY <1>2, BuiltSnapshots DEF OrderLifecycleStatus, TERMINAL_ORDER_STATES, ExecutionError
  <2>3. Derived(w.order, k)
    <3>1. Source(w.order, k)
      BY <1>1 DEF Source, Built, WorkerAt
    <3> HIDE DEF k
    <3> QED BY <1>2, <2>2, <3>1, SourceDerived
  <2>4. GotoWith("worker", "save_result", k)
    BY <2>1
  <2> HIDE DEF k
  <2> QED BY <1>1, <1>2, <2>2, <2>3, <2>4, WorkerTakes
<1> QED BY <1>3, <1>4

(* What the worker reads about an order, with an error put into it or not. *)
LEMMA ReadDerived ==
    ASSUME NEW o \in Order, NEW k \in Snapshot, Source(o, k),
           NEW s, s = k \/ s = RecoverableOrderState(k, "other")
    PROVE  Derived(o, s)
<1>1. Edited(o, k, s)
  BY DEF Edited, RecoverableOrderState, Snapshot
<1> QED BY <1>1 DEF Derived

LEMMA AnswerOrigin ==
    ASSUME Base, ReadDetail \/ RecoverSubmit, NEW o \in Order, NEW s, Known(o, s)'
    PROVE  Derived(o, s)
<1> DEFINE w == task["worker"]
           mapped == MapOrderState(w.order, venue[w.order])
           submitted == SubmittedState(w.order, w.qty)
           unknown == SubmissionUnknown(w.qty)
<1>1. UNCHANGED <<orders, syncTodo, syncSave>> /\ w.pc \in {"detail", "recover"}
  BY DEF ReadDetail, RecoverSubmit, At, store, syncer
<1>2. /\ w.pc # "idle" /\ w.order \in Order /\ w.qty \in 1..Qty
      /\ venue[w.order] \in [state : VenueState, qty : 0..Qty, filled : 0..Qty]
  BY <1>1, WorkerAtWork DEF Base, TypeOK
<1>3. /\ mapped \in Snapshot /\ submitted \in Snapshot /\ unknown \in Snapshot
  BY <1>2, BuiltSnapshots DEF SubmissionUnknown, OrderLifecycleStatus, OPEN_ORDER_STATES,
     ExecutionError
<1>4. PICK k : /\ GotoWith("worker", "save_result", k)
               /\ \/ /\ w.pc = "detail"
                     /\ k \in {mapped, RecoverableOrderState(mapped, "other"), submitted,
                               RecoverableOrderState(submitted, "other")}
                  \/ w.pc = "recover" /\ k = mapped /\ venue[w.order].state # "none"
                  \/ w.pc = "recover" /\ k = unknown
  <2>1. CASE ReadDetail
    BY <2>1 DEF ReadDetail, PlaceResult, At
  <2>2. CASE RecoverSubmit
    BY <2>2 DEF RecoverSubmit, PlaceResult, At
  <2> QED BY <2>1, <2>2
<1>5. /\ w.pc = "detail" => Source(w.order, mapped) /\ Source(w.order, submitted)
      /\ w.pc = "recover" => Source(w.order, unknown)
      /\ venue[w.order].state # "none" => Source(w.order, mapped)
  BY DEF Source, Mapped, Built, WorkerAt
<1> HIDE DEF mapped, submitted, unknown
<1>6. PICK k2 \in Snapshot : /\ Source(w.order, k2)
                             /\ k = k2 \/ k = RecoverableOrderState(k2, "other")
  BY <1>3, <1>4, <1>5
<1>7. k \in Snapshot
  BY <1>6, BuiltSnapshots DEF ExecutionError
<1>8. Derived(w.order, k)
  BY <1>2, <1>6, ReadDerived
<1> QED BY <1>1, <1>2, <1>4, <1>7, <1>8, WorkerTakes

(* cancel_order's first step, on the row it reads or has just written.     *)
LEMMA CancelDerived ==
    ASSUME NEW o \in Order, NEW k \in Snapshot, Source(o, k), Canceling(o),
           NEW s, \/ s = [k EXCEPT !.status = "CANCELED", !.execution_error = "none"]
                  \/ s = [k EXCEPT !.status = "CANCEL_PENDING"]
                  \/ s = [k EXCEPT !.status = "FAILED", !.execution_error = "other"]
                  \/ s = RecoverableOrderState(k, "cancel_unknown")
    PROVE  Derived(o, s)
<1>1. Edited(o, k, s)
  BY DEF Edited, RecoverableOrderState, Snapshot
<1> QED BY <1>1 DEF Derived

(* The row of an order is one of its sources.                              *)
LEMMA RowSource ==
    ASSUME Base, NEW o \in Order, orders[o] # NoRow
    PROVE  orders[o] \in Snapshot /\ Source(o, orders[o])
  BY DEF Base, TypeOK, Source, Known, RowIs

LEMMA LocalCancelDerived ==
    ASSUME NEW o \in Order, NEW k \in Snapshot, Source(o, k), Canceling(o), NEW t \in Task
    PROVE  LET l == LocalCancel(t, o, k) IN
           l.order = o /\ Derived(l.order, l.snap)
<1> DEFINE s == [k EXCEPT !.status = "CANCELED", !.execution_error = "none"]
           l == LocalCancel(t, o, k)
<1>1. Derived(o, s)
  BY CancelDerived
<1>2. l.order = o /\ l.snap = s
  BY DEF LocalCancel, Task
<1> QED BY <1>1, <1>2

LEMMA BeginCancelOrigin ==
    ASSUME Base, NEW a \in {"worker", "operator"}, NEW t \in Task, NEW p \in Order,
           orders[p] # NoRow, Canceling(p), BeginCancel(a, t, p, orders[p]),
           UNCHANGED <<orders, syncTodo, syncSave>>,
           NEW o \in Order, NEW s, Known(o, s)'
    PROVE  Derived(o, s)
<1> DEFINE row == orders[p]
           pending == [row EXCEPT !.status = "CANCEL_PENDING"]
           l == IF CancelBeforeAck(p, row) THEN LocalCancel(t, p, row)
                ELSE [t EXCEPT !.pc = "save_pending", !.order = p, !.snap = pending]
<1>1. row \in Snapshot /\ Source(p, row)
  BY RowSource
<1>2. Derived(l.order, l.snap)
  <2>1. CASE CancelBeforeAck(p, row)
    BY <1>1, <2>1, LocalCancelDerived
  <2>2. CASE ~CancelBeforeAck(p, row)
    <3>1. Derived(p, pending)
      BY <1>1, CancelDerived
    <3>2. l.order = p /\ l.snap = pending
      BY <2>2 DEF Task
    <3> QED BY <3>1, <3>2
  <2> QED BY <2>1, <2>2
<1>3. SetTask(a, l)
  BY DEF BeginCancel
<1> HIDE DEF l
<1> QED BY <1>2, <1>3, TaskMoves

LEMMA PostOnlyOrigin ==
    ASSUME Base, PostOnlyTimeout \/ PostOnlyFallback, NEW o \in Order, NEW s, Known(o, s)'
    PROVE  Derived(o, s)
<1> DEFINE w == task["worker"]
<1>1. UNCHANGED <<orders, syncTodo, syncSave>> /\ w.pc \in {"po_wait", "po_fallback"}
  BY DEF PostOnlyTimeout, PostOnlyFallback, At, store, syncer
<1>2. /\ w.pc # "idle" /\ w \in Task /\ w.order \in Order
      /\ OnSubmit(w, Current[2], orders, cmds)
  BY <1>1, WorkerAtWork, WorkerOnSubmit DEF SubmitPc
<1>3. /\ w.order = Current[2] /\ Decided(orders[w.order]) /\ w.order \in PostOnly
      /\ orders[FallbackOf[w.order]] = NoRow
  BY <1>1, <1>2 DEF OnSubmit, FallbackPc, PostOnlyPc, BeforeFallbackPc
<1>4. CASE Goto("worker", "sent")
  <2>1. "sent" \notin SnapPc
    BY DEF SnapPc, Saving
  <2> QED BY <1>1, <1>2, <1>4, <2>1, WorkerKeepsSnap
<1>5. CASE BeginCancel("worker", w, w.order, orders[w.order]) /\ w.pc = "po_wait"
  <2>1. orders[w.order] # NoRow /\ Canceling(w.order)
    BY <1>3, <1>5 DEF Decided, Canceling, WorkerAt, PostOnlyPc
  <2> QED BY <1>1, <1>2, <1>5, <2>1, BeginCancelOrigin
<1>6. CASE PostOnlyFallback /\ ~(w.snap.remaining_qty <= Epsilon)
  <2> DEFINE rest == w.snap.remaining_qty
             f == FallbackOf[w.order]
             k == SubmittingState(f, rest)
             t == [w EXCEPT !.pc = "save_submitting", !.order = f, !.qty = rest, !.snap = k]
  <2>1. w.pc = "po_fallback" /\ w.snap \in Snapshot
    BY <1>2, <1>6, WorkerAtWork DEF PostOnlyFallback, At, SnapPc
  <2>2. rest \in 1..Qty
    BY <1>6, <2>1, EpsilonAssumption, BoundsAssumption DEF Snapshot
  <2>3. f \in Order /\ orders[f] = NoRow
    BY <1>3, OrderAssumption
  <2>4. SetTask("worker", t)
    BY <1>6 DEF PostOnlyFallback
  <2>5. k \in Snapshot
    BY <2>2, <2>3, SubmittingSnapshot DEF Base
  <2>6. Source(f, k)
    BY <1>3, <2>1, <2>2, <2>3 DEF Source, Submitting, SubmittingState
  <2> HIDE DEF rest, f, k
  <2>7. t.order = f /\ t.snap = k
    BY <1>2 DEF Task
  <2> HIDE DEF t
  <2>8. Derived(t.order, t.snap)
    BY <2>3, <2>5, <2>6, <2>7, SourceDerived
  <2> QED BY <1>1, <2>4, <2>8, TaskMoves
<1> QED BY <1>4, <1>5, <1>6 DEF PostOnlyTimeout, PostOnlyFallback, At

(* What the worker already holds, and what it reads, while it cancels.     *)
LEMMA CancelInHand ==
    ASSUME Base, task["worker"].pc \in CancelPc
    PROVE  LET w == task["worker"]
               mapped == MapOrderState(w.order, venue[w.order])
           IN  /\ w.pc # "idle" /\ w.order \in Order /\ w \in Task
               /\ orders[w.order] # NoRow /\ Canceling(w.order)
               /\ w.pc \in SnapPc => w.snap \in Snapshot /\ Source(w.order, w.snap)
               /\ mapped \in Snapshot
               /\ venue[w.order].state # "none" \/ w.pc = "c_detail"
                    => Source(w.order, mapped)
<1> DEFINE w == task["worker"]
<1>1. /\ w.pc # "idle" /\ w.order \in Order /\ w \in Task
      /\ w.pc \in SnapPc => w.snap \in Snapshot
      /\ OnCancel(w, Current[2], orders)
      /\ venue[w.order] \in [state : VenueState, qty : 0..Qty, filled : 0..Qty]
  BY WorkerAtWork, WorkerOnCancel DEF Base, TypeOK
<1>2. orders[w.order] # NoRow /\ Canceling(w.order)
  BY <1>1 DEF OnCancel, Canceling, WorkerAt
<1>3. w.pc \in SnapPc => Source(w.order, w.snap)
  BY DEF Source, Known, WorkerHas
<1>4. MapOrderState(w.order, venue[w.order]) \in Snapshot
  BY <1>1, BuiltSnapshots
<1>5. venue[w.order].state # "none" \/ w.pc = "c_detail"
        => Source(w.order, MapOrderState(w.order, venue[w.order]))
  BY DEF Source, Mapped, WorkerAt
<1> QED BY <1>1, <1>2, <1>3, <1>4, <1>5

LEMMA CancelOrigin ==
    ASSUME Base, ProcessCancel \/ CancelLookup \/ CancelAccepted \/ CancelRejected
                 \/ CancelTimesOut \/ CancelDetail \/ RecoverCancel,
           NEW o \in Order, NEW s, Known(o, s)'
    PROVE  Derived(o, s)
<1> DEFINE w == task["worker"]
           row == orders[w.order]
           mapped == MapOrderState(w.order, venue[w.order])
<1>1. UNCHANGED <<orders, syncTodo, syncSave>> /\ w.pc \in CancelPc
  BY DEF ProcessCancel, CancelLookup, CancelAccepted, CancelRejected, CancelTimesOut,
     CancelDetail, RecoverCancel, At, CancelPc, store, syncer
<1>2. /\ w.pc # "idle" /\ w.order \in Order /\ w \in Task
      /\ row # NoRow /\ Canceling(w.order)
      /\ w.pc \in SnapPc => w.snap \in Snapshot /\ Source(w.order, w.snap)
      /\ mapped \in Snapshot
      /\ venue[w.order].state # "none" \/ w.pc = "c_detail" => Source(w.order, mapped)
      /\ row \in Snapshot /\ Source(w.order, row)
  BY <1>1, CancelInHand, RowSource
<1> HIDE DEF mapped, row
<1>3. ASSUME NEW k \in Snapshot, Source(w.order, k), NEW pc, GotoWith("worker", pc, k)
      PROVE  Derived(o, s)
  BY <1>1, <1>2, <1>3, SourceDerived, WorkerTakes
<1>4. ASSUME NEW k \in Snapshot, Source(w.order, k), NEW n \in Snapshot, NEW pc,
             GotoWith("worker", pc, n),
             \/ n = [k EXCEPT !.status = "CANCEL_PENDING"]
             \/ n = [k EXCEPT !.status = "FAILED", !.execution_error = "other"]
             \/ n = RecoverableOrderState(k, "cancel_unknown")
             \/ n = RecoverableOrderState(k, "other")
      PROVE  Derived(o, s)
  <2>1. Derived(w.order, n)
    BY <1>2, <1>4, CancelDerived, ReadDerived
  <2> QED BY <1>1, <1>2, <1>4, <2>1, WorkerTakes
<1>5. ASSUME NEW k \in Snapshot
      PROVE  /\ [k EXCEPT !.status = "CANCEL_PENDING"] \in Snapshot
             /\ [k EXCEPT !.status = "FAILED", !.execution_error = "other"] \in Snapshot
             /\ RecoverableOrderState(k, "cancel_unknown") \in Snapshot
             /\ RecoverableOrderState(k, "other") \in Snapshot
  BY BuiltSnapshots DEF OrderLifecycleStatus, TERMINAL_ORDER_STATES, OPEN_ORDER_STATES,
     ExecutionError
<1>6. ASSUME NEW pc, pc \in SnapPc => w.pc \in SnapPc, Goto("worker", pc)
      PROVE  Derived(o, s)
  BY <1>1, <1>2, <1>6, WorkerKeepsSnap
<1>7. "sent" \notin SnapPc /\ {"c_lookup", "c_request", "c_detail", "c_recover"} \subseteq SnapPc
  BY DEF SnapPc, Saving
<1>8. CASE ProcessCancel
  <2>1. CASE Goto("worker", "sent")
    BY <1>6, <1>7, <2>1
  <2>2. CASE SetTask("worker", LocalCancel(w, w.order, row))
    BY <1>1, <1>2, <2>2, LocalCancelDerived, TaskMoves
  <2>3. CASE GotoWith("worker", "save_cancel_pending", [row EXCEPT !.status = "CANCEL_PENDING"])
    BY <1>2, <1>4, <1>5, <2>3
  <2>4. CASE GotoWith("worker", "c_lookup", row)
    BY <1>2, <1>3, <2>4
  <2> QED BY <1>8, <2>1, <2>2, <2>3, <2>4 DEF ProcessCancel, row
<1>9. CASE CancelLookup
  <2>0. w.pc = "c_lookup"
    BY <1>9 DEF CancelLookup, At
  <2>1. CASE Goto("worker", "save_result")
    BY <1>6, <1>7, <2>0, <2>1
  <2>2. CASE GotoWith("worker", "c_request", [w.snap EXCEPT !.status = "CANCEL_PENDING"])
    BY <1>2, <1>4, <1>5, <1>7, <2>0, <2>2
  <2>3. CASE /\ venue[w.order].state # "none"
             /\ GotoWith("worker", "save_result", mapped)
    BY <1>2, <1>3, <2>3
  <2>4. CASE /\ venue[w.order].state # "none"
             /\ GotoWith("worker", "c_request", [mapped EXCEPT !.status = "CANCEL_PENDING"])
    BY <1>2, <1>4, <1>5, <2>4
  <2> QED BY <1>9, <2>1, <2>2, <2>3, <2>4 DEF CancelLookup, mapped
<1>10. CASE CancelAccepted \/ CancelTimesOut
  <2>1. w.pc = "c_request"
    BY <1>10 DEF CancelAccepted, CancelTimesOut, At
  <2>2. PICK pc \in {"c_detail", "c_recover"} : Goto("worker", pc)
    BY <1>10 DEF CancelAccepted, CancelTimesOut
  <2> QED BY <1>6, <1>7, <2>1, <2>2
<1>11. CASE CancelRejected
  <2>1. /\ w.pc = "c_request"
        /\ GotoWith("worker", "save_result",
                    [w.snap EXCEPT !.status = "FAILED", !.execution_error = "other"])
    BY <1>11 DEF CancelRejected, At
  <2> QED BY <1>2, <1>4, <1>5, <1>7, <2>1
<1>12. CASE CancelDetail
  <2>1. PICK n \in {mapped, RecoverableOrderState(mapped, "other"), w.snap,
                    RecoverableOrderState(w.snap, "other")} :
            GotoWith("worker", "save_result", n)
    BY <1>12 DEF CancelDetail, mapped
  <2>2. w.pc = "c_detail"
    BY <1>12 DEF CancelDetail, At
  <2> QED BY <1>2, <1>3, <1>4, <1>5, <1>7, <2>1, <2>2
<1>13. CASE RecoverCancel
  <2>1. w.pc = "c_recover"
    BY <1>13 DEF RecoverCancel, At
  <2>2. CASE venue[w.order].state # "none" /\ GotoWith("worker", "save_result", mapped)
    BY <1>2, <1>3, <2>2
  <2>3. CASE GotoWith("worker", "save_result", RecoverableOrderState(w.snap, "cancel_unknown"))
    BY <1>2, <1>4, <1>5, <1>7, <2>1, <2>3
  <2> QED BY <1>13, <2>2, <2>3 DEF RecoverCancel, mapped
<1> QED BY <1>8, <1>9, <1>10, <1>11, <1>12, <1>13

------------------------------------------------------------------------------
(* The other steps *)

LEMMA OperatorOrigin ==
    ASSUME Base, NEW p \in Order,
           \/ RequestCancel(p) \/ ResolveStuckSubmission(p) \/ AbandonSubmit
           \/ Halt \/ Resume,
           NEW o \in Order, NEW s, Known(o, s)'
    PROVE  Derived(o, s)
<1>1. UNCHANGED <<orders, syncTodo, syncSave>>
  BY DEF RequestCancel, ResolveStuckSubmission, AbandonSubmit, Halt, Resume, store, syncer
<1>2. CASE RequestCancel(p)
  <2>1. /\ orders[p] # NoRow /\ Canceling(p) /\ Idle \in Task
        /\ BeginCancel("operator", Idle, p, orders[p])
    BY <1>2, IdleTask DEF RequestCancel, Canceling
  <2> QED BY <1>1, <2>1, BeginCancelOrigin
<1>3. CASE ResolveStuckSubmission(p)
  <2> DEFINE k == [orders[p] EXCEPT !.status = "FAILED", !.execution_error = "other"]
             t == [Idle EXCEPT !.pc = "save_resolved", !.order = p, !.snap = k]
  <2>1. Resolving(p) /\ SetTask("operator", t)
    BY <1>3 DEF ResolveStuckSubmission, Resolving
  <2>2. orders[p] \in Snapshot /\ Source(p, orders[p])
    BY <2>1, RowSource DEF Resolving, IsStuck
  <2>3. Edited(p, orders[p], k)
    BY <2>1, <2>2 DEF Edited, Snapshot
  <2> HIDE DEF k
  <2>4. t.order = p /\ t.snap = k
    BY DEF Idle
  <2>5. Derived(t.order, t.snap)
    BY <2>2, <2>3, <2>4 DEF Derived
  <2> QED BY <1>1, <2>1, <2>5, TaskMoves
<1>4. CASE AbandonSubmit
  <2> DEFINE t == [task["operator"] EXCEPT !.pc = "save_canceled"]
  <2>1. /\ task["operator"] \in Task /\ task["operator"].pc = "abandon"
        /\ SetTask("operator", t) /\ OperatorOK(task["operator"], orders, cmds)
    BY <1>4 DEF AbandonSubmit, Goto, Base, TypeOK
  <2>2. t.order = task["operator"].order /\ t.snap = task["operator"].snap
    BY <2>1 DEF Task
  <2>3. Known(t.order, t.snap) /\ t.order \in Order
    BY <2>1, <2>2 DEF Known, OperatorHas, OperatorOK
  <2>4. Derived(t.order, t.snap)
    BY <2>3, KnownDerived
  <2> HIDE DEF t
  <2> QED BY <1>1, <2>1, <2>4, TaskMoves
<1>5. CASE Halt \/ Resume
  <2>1. task' = task
    BY <1>5 DEF Halt, Resume
  <2> QED BY <1>1, <2>1, NothingMoves
<1> QED BY <1>2, <1>3, <1>4, <1>5

LEMMA CommandOrigin ==
    ASSUME Base,
           \/ Poll \/ SkipCommand \/ ClaimCommand \/ ClaimRaises
           \/ MarkSent \/ MarkAcked \/ MarkFailed \/ MarkRaises,
           NEW o \in Order, NEW s, Known(o, s)'
    PROVE  Derived(o, s)
<1>1. UNCHANGED <<orders, syncTodo, syncSave>>
  BY DEF Poll, SkipCommand, ClaimCommand, ClaimRaises, MarkSent, MarkAcked, MarkFailed,
     MarkRaises, FinishCommand, store, syncer
<1>2. CASE UNCHANGED task
  BY <1>1, <1>2, NothingMoves
<1>3. ASSUME NEW t, SetTask("worker", t), t.pc \notin SnapPc
      PROVE  Derived(o, s)
  BY <1>1, <1>3, TaskMoves
<1>4. /\ "idle" \notin SnapPc /\ "submit" \notin SnapPc /\ "cancel" \notin SnapPc
      /\ "ack" \notin SnapPc /\ "fail" \notin SnapPc
  BY DEF SnapPc, Saving
<1>5. CASE SetTask("worker", Idle)
  BY <1>3, <1>4, <1>5 DEF Idle
<1>6. CASE ClaimCommand
  <2> DEFINE t == [Idle EXCEPT !.pc = Current[1], !.order = Current[2], !.qty = Qty]
  <2>1. batch # <<>> /\ batch \in Seq([cmd : Command, read : CommandState])
    BY <1>6 DEF ClaimCommand, Base, TypeOK
  <2>2. Head(batch) \in [cmd : Command, read : CommandState]
    BY <2>1, HeadTailProperties
  <2>3. Current[1] \in {"submit", "cancel"}
    BY <2>2 DEF Current, Command
  <2>4. t.pc = Current[1] /\ SetTask("worker", t)
    BY <1>6 DEF ClaimCommand, Idle
  <2> HIDE DEF t
  <2> QED BY <1>3, <1>4, <2>3, <2>4
<1>7. ASSUME NEW pc \in {"ack", "fail"}, Goto("worker", pc), task["worker"].pc # "idle"
      PROVE  Derived(o, s)
  BY <1>1, <1>4, <1>7, WorkerKeepsSnap
<1>8. CASE MarkSent \/ MarkRaises
  <2>1. task["worker"].pc # "idle"
    BY <1>8 DEF MarkSent, MarkRaises, At
  <2> QED BY <1>5, <1>7, <1>8, <2>1 DEF MarkSent, MarkRaises
<1> QED BY <1>2, <1>5, <1>6, <1>8 DEF Poll, SkipCommand, ClaimRaises, MarkAcked, MarkFailed,
           FinishCommand

LEMMA RequestOrigin ==
    ASSUME Base, NEW a \in {"worker", "operator"}, EnqueueCancel(a) \/ CancelOrderRaises(a),
           NEW o \in Order, NEW s, Known(o, s)'
    PROVE  Derived(o, s)
<1>1. UNCHANGED <<orders, syncTodo, syncSave>>
  BY DEF EnqueueCancel, CancelOrderRaises, store, syncer
<1>2. CASE a = "operator"
  <2>1. SetTask(a, Idle)
    BY <1>2 DEF EnqueueCancel, CancelOrderRaises
  <2> QED BY <1>1, <1>2, <2>1, TaskMoves DEF Idle
<1>3. CASE a = "worker"
  <2>1. task["worker"].pc # "idle" /\ task["worker"] \in Task
    BY <1>3 DEF EnqueueCancel, CancelOrderRaises, Base, TypeOK
  <2>2. CASE EnqueueCancel("worker")
    <3>1. Goto("worker", "po_fallback") /\ task["worker"].pc \in SnapPc
      BY <2>2 DEF EnqueueCancel, SnapPc
    <3> QED BY <1>1, <2>1, <3>1, WorkerKeepsSnap
  <2>3. CASE CancelOrderRaises("worker")
    <3> DEFINE t == [task["worker"] EXCEPT !.pc = "sent", !.snap = NoRow]
    <3>1. SetTask("worker", t) /\ t.pc = "sent"
      BY <2>1, <2>3 DEF CancelOrderRaises, Task
    <3>2. t.pc \notin SnapPc
      BY <3>1 DEF SnapPc, Saving
    <3> HIDE DEF t
    <3> QED BY <1>1, <3>1, <3>2, TaskMoves
  <2> QED BY <1>3, <2>2, <2>3
<1> QED BY <1>2, <1>3

(* The sync loop's lists: what was there, and what is put in.              *)
LEMMA ListSteps ==
    ASSUME NEW l \in Seq(Pending), NEW e \in Pending, NEW o, NEW s
    PROVE  /\ l # <<>> /\ ListHas(Tail(l), o, s) => ListHas(l, o, s)
           /\ ListHas(Append(l, e), o, s) => ListHas(l, o, s) \/ (o = e.order /\ s = e.snap)
           /\ l # <<>> => ListHas(l, Head(l).order, Head(l).snap)
           /\ ~ListHas(<<>>, o, s)
<1>1. l # <<>> /\ ListHas(Tail(l), o, s) => ListHas(l, o, s)
  <2> SUFFICES ASSUME l # <<>>, ListHas(Tail(l), o, s) PROVE ListHas(l, o, s)
    OBVIOUS
  <2>1. PICK i \in 1..Len(Tail(l)) : Tail(l)[i].order = o /\ Tail(l)[i].snap = s
    BY DEF ListHas
  <2>2. Len(Tail(l)) = Len(l) - 1 /\ Tail(l)[i] = l[i + 1] /\ Len(l) \in Nat
    BY HeadTailProperties, LenProperties
  <2>3. i + 1 \in 1..Len(l)
    BY <2>2
  <2> QED BY <2>1, <2>2, <2>3 DEF ListHas
<1>2. ListHas(Append(l, e), o, s) => ListHas(l, o, s) \/ (o = e.order /\ s = e.snap)
  <2> SUFFICES ASSUME ListHas(Append(l, e), o, s), ~ListHas(l, o, s)
               PROVE  o = e.order /\ s = e.snap
    OBVIOUS
  <2>1. PICK i \in 1..Len(Append(l, e)) :
            Append(l, e)[i].order = o /\ Append(l, e)[i].snap = s
    BY DEF ListHas
  <2>2. /\ Len(Append(l, e)) = Len(l) + 1 /\ Len(l) \in Nat
        /\ \A j \in 1..Len(l) : Append(l, e)[j] = l[j]
        /\ Append(l, e)[Len(l) + 1] = e
    BY AppendProperties, LenProperties
  <2>3. i \notin 1..Len(l)
    BY <2>1, <2>2 DEF ListHas
  <2>4. i = Len(l) + 1
    BY <2>2, <2>3
  <2> QED BY <2>1, <2>2, <2>4
<1>3. l # <<>> => ListHas(l, Head(l).order, Head(l).snap)
  <2>1. l # <<>> => Head(l) = l[1] /\ 1 \in 1..Len(l)
    BY HeadTailProperties, EmptySeq, LenProperties
  <2> QED BY <2>1 DEF ListHas
<1>4. ~ListHas(<<>>, o, s)
  BY EmptySeq DEF ListHas
<1> QED BY <1>1, <1>2, <1>3, <1>4

LEMMA SyncMoves ==
    ASSUME Base, UNCHANGED <<orders, task>>, NEW o \in Order, NEW s, Known(o, s)',
           ListHas(syncTodo', o, s) => Derived(o, s),
           ListHas(syncSave', o, s) => Derived(o, s)
    PROVE  Derived(o, s)
<1>1. \/ Known(o, s) \/ ListHas(syncTodo', o, s) \/ ListHas(syncSave', o, s)
  BY DEF Known, RowIs, WorkerHas, OperatorHas, ListHas
<1> QED BY <1>1, KnownDerived

LEMMA SyncReadOrigin ==
    ASSUME Base, SyncCollect \/ SyncAnswered \/ SyncFails \/ SyncSkips,
           NEW o \in Order, NEW s, Known(o, s)'
    PROVE  Derived(o, s)
<1>1. UNCHANGED <<orders, task>>
  BY DEF SyncCollect, SyncAnswered, SyncFails, SyncSkips, SyncAsked, store
<1>2. syncTodo \in Seq(Pending) /\ syncSave \in Seq(Pending)
  BY DEF Base, TypeOK
<1>3. /\ ListHas(syncTodo, o, s) => Derived(o, s)
      /\ ListHas(syncSave, o, s) => Derived(o, s)
  BY KnownDerived DEF Known
<1>4. CASE SyncCollect
  <2>1. syncSave' = syncSave
    BY <1>4 DEF SyncCollect
  <2> DEFINE open == {p \in Order : IsOpen(orders[p])}
             n == Cardinality(open)
  <2>2. PICK list \in [1..n -> open] :
             syncTodo' = [i \in 1..n |-> [order |-> list[i], snap |-> orders[list[i]]]]
    BY <1>4 DEF SyncCollect
  <2>3. n \in Nat
    BY OrderAssumption, FS_Subset, FS_CardinalityType
  <2> HIDE DEF n
  <2>4. ASSUME NEW i \in 1..n
        PROVE  list[i] \in Order /\ orders[list[i]] \in Snapshot /\ orders[list[i]] # NoRow
    <3>1. list[i] \in open
      BY <2>2
    <3> QED BY <3>1 DEF Base, TypeOK, IsOpen
  <2>5. syncTodo' \in [1..n -> Pending]
    BY <2>2, <2>4 DEF Pending
  <2>6. syncTodo' \in Seq(Pending)
    BY <2>3, <2>5
  <2>7. Len(syncTodo') = n
    BY <2>3, <2>5, <2>6, LenProperties
  <2>8. ListHas(syncTodo', o, s) => RowIs(o, s)
    BY <2>2, <2>4, <2>7 DEF ListHas, RowIs
  <2>9. RowIs(o, s) => Derived(o, s)
    BY KnownDerived DEF Known
  <2> QED BY <1>1, <1>3, <2>1, <2>8, <2>9, SyncMoves
<1>5. CASE SyncSkips
  <2>1. syncTodo' = Tail(syncTodo) /\ syncTodo # <<>> /\ syncSave' = syncSave
    BY <1>5 DEF SyncSkips
  <2>2. ListHas(syncTodo', o, s) => ListHas(syncTodo, o, s)
    <3>1. Head(syncTodo) \in Pending
      BY <2>1, PendingFacts
    <3> QED BY <1>2, <2>1, <3>1, ListSteps
  <2> QED BY <1>1, <1>3, <2>1, <2>2, SyncMoves
<1>6. CASE SyncAnswered \/ SyncFails
  <2> DEFINE h == Head(syncTodo)
             mapped == MapOrderState(h.order, venue[h.order])
  <2>1. PICK x : /\ syncTodo # <<>> /\ syncTodo' = Tail(syncTodo)
                 /\ syncSave' = Append(syncSave, [h EXCEPT !.snap = x])
                 /\ \/ x \in {h.snap, RecoverableOrderState(h.snap, "other")}
                    \/ /\ venue[h.order].state # "none"
                       /\ x \in {mapped, RecoverableOrderState(mapped, "other")}
    BY <1>6 DEF SyncAnswered, SyncFails, SyncAsked
  <2>2. h \in Pending /\ h.order \in Order /\ h.snap \in Snapshot
    BY <2>1, PendingFacts
  <2>3. mapped \in Snapshot
    BY <2>2, CancelSnapshots
  <2>4. /\ Source(h.order, h.snap)
        /\ venue[h.order].state # "none" => Source(h.order, mapped)
    <3>1. ListHas(syncTodo, h.order, h.snap)
      BY <1>2, <2>1, <2>2, ListSteps
    <3> QED BY <3>1 DEF Source, Known, Mapped
  <2> HIDE DEF mapped
  <2>5. Derived(h.order, x)
    BY <2>1, <2>2, <2>3, <2>4, ReadDerived
  <2>6. x \in Snapshot
    BY <2>1, <2>2, <2>3, BuiltSnapshots DEF ExecutionError
  <2> DEFINE e == [h EXCEPT !.snap = x]
  <2>7. e \in Pending /\ e.order = h.order /\ e.snap = x
    BY <2>2, <2>6 DEF Pending
  <2>8. syncSave' = Append(syncSave, e)
    BY <2>1
  <2> HIDE DEF e, h
  <2>9. ListHas(syncTodo', o, s) => ListHas(syncTodo, o, s)
    BY <1>2, <2>1, <2>7, ListSteps
  <2>10. ListHas(syncSave', o, s) => ListHas(syncSave, o, s) \/ (o = e.order /\ s = e.snap)
    BY <1>2, <2>7, <2>8, ListSteps
  <2> QED BY <1>1, <1>3, <2>5, <2>7, <2>9, <2>10, SyncMoves
<1> QED BY <1>4, <1>5, <1>6

(* One row is written; the actors' hands and lists are said to be good.    *)
LEMMA RowMoves ==
    ASSUME Base, NEW p \in Order, NEW n \in Snapshot, Source(p, n),
           orders' = [orders EXCEPT ![p] = n],
           NEW o \in Order, NEW s, Known(o, s)',
           ListHas(syncTodo', o, s) => ListHas(syncTodo, o, s),
           ListHas(syncSave', o, s) => ListHas(syncSave, o, s),
           WorkerHas(o, s)' => Derived(o, s), OperatorHas(o, s)' => Derived(o, s)
    PROVE  Derived(o, s)
<1>1. orders \in [Order -> Snapshot \cup {NoRow}]
  BY DEF Base, TypeOK
<1>2. \/ Known(o, s) \/ (o = p /\ s = n) \/ WorkerHas(o, s)' \/ OperatorHas(o, s)'
  BY <1>1 DEF Known, RowIs, ListHas
<1> QED BY <1>2, KnownDerived, SourceDerived

(* An actor's save: its snapshot is known, so the row it makes has a source *)
LEMMA SaveSource ==
    ASSUME Base, NEW p \in Order, NEW i \in Snapshot, Known(p, i), ~SaveRaises(orders[p], i)
    PROVE  SaveResult(orders[p], i) \in Snapshot /\ Source(p, SaveResult(orders[p], i))
<1>1. SaveResult(orders[p], i) \in Snapshot
  BY SaveSnapshot DEF Base, TypeOK
<1> QED BY <1>1 DEF Source, Saved

LEMMA ActorSaving ==
    ASSUME Base, NEW a \in {"worker", "operator"}, task[a].pc \in Saving
    PROVE  /\ task[a] \in Task /\ task[a].order \in Order /\ task[a].snap \in Snapshot
           /\ Known(task[a].order, task[a].snap)
<1>1. /\ task[a] \in Task /\ task[a].order \in Order /\ task[a].snap \in Snapshot
  BY WorkerSaves, OperatorSaves
<1>2. task[a].pc # "idle" /\ task[a].pc \in SnapPc
  BY DEF Saving, SnapPc
<1> QED BY <1>1, <1>2 DEF Known, WorkerHas, OperatorHas

LEMMA SaveOrigin ==
    ASSUME Base, NEW a \in {"worker", "operator"}, Save(a),
           NEW o \in Order, NEW s, Known(o, s)'
    PROVE  Derived(o, s)
<1> DEFINE t == task[a]
           n == SaveResult(orders[t.order], t.snap)
           u == AfterSave(a, t, n)
<1>1. /\ t.pc \in Saving /\ ~SaveRaises(orders[t.order], t.snap)
      /\ orders' = [orders EXCEPT ![t.order] = n] /\ SetTask(a, u)
      /\ UNCHANGED <<syncTodo, syncSave>>
  BY DEF Save, syncer
<1>2. /\ t \in Task /\ t.order \in Order /\ t.snap \in Snapshot /\ Known(t.order, t.snap)
  BY <1>1, ActorSaving
<1>3. n \in Snapshot /\ Source(t.order, n)
  BY <1>1, <1>2, SaveSource
<1>4. Derived(t.order, n)
  BY <1>2, <1>3, SourceDerived
<1>5. (a = "worker" /\ u.pc \in SnapPc) \/ (a = "operator" /\ u.pc # "idle")
        => Derived(u.order, u.snap)
  <2> HIDE DEF n
  <2>1. CASE t.pc = "save_submitting"
    <3>1. u = [t EXCEPT !.pc = "place", !.snap = NoRow]
      BY <2>1 DEF AfterSave
    <3>2. u.pc = "place" /\ a = "worker"
      BY <1>2, <2>1, <3>1, OperatorSaves, <1>1 DEF Task
    <3> QED BY <3>2 DEF SnapPc, Saving
  <2>2. ASSUME NEW pc, u = [t EXCEPT !.pc = pc, !.snap = n]
        PROVE  Derived(u.order, u.snap)
    <3>1. u.order = t.order /\ u.snap = n
      BY <1>2, <2>2 DEF Task
    <3> QED BY <1>4, <3>1
  <2>3. CASE t.pc = "save_cancel_pending"
    <3>1. CASE CancelBeforeAck(t.order, n)
      <4>1. u = LocalCancel(t, t.order, n)
        BY <2>3, <3>1 DEF AfterSave
      <4>2. Canceling(t.order)
        <5>1. a = "worker"
          BY <1>1, <2>3, OperatorSaves
        <5> QED BY <2>3, <5>1 DEF Canceling, WorkerAt, CancelPc
      <4> QED BY <1>2, <1>3, <4>1, <4>2, LocalCancelDerived
    <3>2. CASE ~CancelBeforeAck(t.order, n)
      <4>1. u = [t EXCEPT !.pc = "c_lookup", !.snap = n]
        BY <2>3, <3>2 DEF AfterSave
      <4> QED BY <2>2, <4>1
    <3> QED BY <3>1, <3>2
  <2>4. CASE a = "operator" /\ u = Idle
    BY <2>4 DEF Idle
  <2>5. CASE a = "worker" /\ u = [t EXCEPT !.pc = "sent", !.snap = NoRow]
    <3>1. u.pc = "sent"
      BY <1>2, <2>5 DEF Task
    <3> QED BY <2>5, <3>1 DEF SnapPc, Saving
  <2>6. \/ t.pc = "save_submitting" \/ t.pc = "save_cancel_pending"
        \/ \E pc : u = [t EXCEPT !.pc = pc, !.snap = n]
        \/ a = "operator" /\ u = Idle
        \/ a = "worker" /\ u = [t EXCEPT !.pc = "sent", !.snap = NoRow]
    <3>1. CASE t.pc = "save_result" /\ t.order \in PostOnly /\ Current[1] = "submit"
      <4>1. u = [t EXCEPT !.pc = AfterPostOnlySubmit(n), !.snap = n]
        BY <3>1 DEF AfterSave
      <4> QED BY <4>1
    <3>2. CASE t.pc = "save_canceled" /\ a = "worker" /\ Current[1] = "submit"
      <4>1. u = [t EXCEPT !.pc = "po_fallback", !.snap = n]
        BY <3>2 DEF AfterSave
      <4> QED BY <4>1
    <3>3. CASE t.pc = "save_pending"
      <4>1. u = [t EXCEPT !.pc = "enqueue", !.snap = n]
        BY <3>3 DEF AfterSave
      <4> QED BY <4>1
    <3>4. CASE /\ t.pc \notin {"save_submitting", "save_cancel_pending", "save_pending"}
               /\ ~(t.pc = "save_result" /\ t.order \in PostOnly /\ Current[1] = "submit")
               /\ ~(t.pc = "save_canceled" /\ a = "worker" /\ Current[1] = "submit")
      BY <3>4 DEF AfterSave
    <3> QED BY <3>1, <3>2, <3>3, <3>4
  <2> QED BY <2>1, <2>2, <2>3, <2>4, <2>5, <2>6
<1> HIDE DEF n, u
<1>6. /\ task'[a] = u
      /\ a = "worker" => task'["operator"] = task["operator"]
      /\ a = "operator" => task'["worker"] = task["worker"]
  BY <1>1 DEF SetTask, Base, TypeOK
<1>7. WorkerHas(o, s) \/ OperatorHas(o, s) => Derived(o, s)
  BY KnownDerived DEF Known
<1>8. /\ WorkerHas(o, s)' => Derived(o, s)
      /\ OperatorHas(o, s)' => Derived(o, s)
  BY <1>5, <1>6, <1>7 DEF WorkerHas, OperatorHas
<1> QED BY <1>1, <1>2, <1>3, <1>8, RowMoves

LEMMA SaveRefusedOrigin ==
    ASSUME Base, NEW a \in {"worker", "operator"}, SaveRefused(a),
           NEW o \in Order, NEW s, Known(o, s)'
    PROVE  Derived(o, s)
<1> DEFINE t == task[a]
           n == SaveResult(orders[t.order], t.snap)
           u == AfterSaveRaises(a, t)
<1>1. t.pc \in Saving /\ SetTask(a, u) /\ UNCHANGED <<syncTodo, syncSave>>
  BY DEF SaveRefused, syncer
<1>2. /\ t \in Task /\ t.order \in Order /\ t.snap \in Snapshot /\ Known(t.order, t.snap)
  BY <1>1, ActorSaving
<1>3. /\ a = "operator" => u.pc = "idle"
      /\ a = "worker" => u.pc \in {"sent", "fail"}
  BY <1>2 DEF AfterSaveRaises, Idle, Task
<1>4. "sent" \notin SnapPc /\ "fail" \notin SnapPc
  BY DEF SnapPc, Saving
<1> HIDE DEF u
<1>5. CASE orders' = orders
  BY <1>1, <1>3, <1>4, <1>5, TaskMoves
<1>6. CASE ~SaveRaises(orders[t.order], t.snap) /\ orders' = [orders EXCEPT ![t.order] = n]
  <2>1. n \in Snapshot /\ Source(t.order, n)
    BY <1>2, <1>6, SaveSource
  <2> HIDE DEF n
  <2>2. /\ task'[a] = u
        /\ a = "worker" => task'["operator"] = task["operator"]
        /\ a = "operator" => task'["worker"] = task["worker"]
    BY <1>1 DEF SetTask, Base, TypeOK
  <2>3. WorkerHas(o, s) \/ OperatorHas(o, s) => Derived(o, s)
    BY KnownDerived DEF Known
  <2>4. /\ WorkerHas(o, s)' => Derived(o, s)
        /\ OperatorHas(o, s)' => Derived(o, s)
    BY <1>3, <1>4, <2>2, <2>3 DEF WorkerHas, OperatorHas
  <2> QED BY <1>1, <1>2, <1>6, <2>1, <2>4, RowMoves
<1> QED BY <1>5, <1>6 DEF SaveRefused

LEMMA SyncSaveOrigin ==
    ASSUME Base, SyncSaves \/ SyncAborts, NEW o \in Order, NEW s, Known(o, s)'
    PROVE  Derived(o, s)
<1> DEFINE h == Head(syncSave)
           n == SaveResult(orders[h.order], h.snap)
<1>1. /\ syncSave # <<>> /\ syncTodo' = syncTodo /\ task' = task
      /\ syncSave' = Tail(syncSave) \/ syncSave' = <<>>
      /\ syncSave \in Seq(Pending)
  BY DEF SyncSaves, SyncAborts, Base, TypeOK
<1>2. h \in Pending /\ h.order \in Order /\ h.snap \in Snapshot
  BY <1>1, PendingFacts
<1>3. Known(h.order, h.snap)
  BY <1>1, <1>2, ListSteps DEF Known
<1>4. ListHas(syncSave', o, s) => ListHas(syncSave, o, s)
  BY <1>1, <1>2, ListSteps
<1>5. WorkerHas(o, s)' \/ OperatorHas(o, s)' => Derived(o, s)
  <2>1. WorkerHas(o, s)' \/ OperatorHas(o, s)' => Known(o, s)
    BY <1>1 DEF Known, WorkerHas, OperatorHas
  <2> QED BY <2>1, KnownDerived
<1>6. CASE orders' = orders
  <2>1. ListHas(syncTodo', o, s) \/ ListHas(syncSave', o, s) => Derived(o, s)
    BY <1>1, <1>4, KnownDerived DEF Known
  <2> QED BY <1>1, <1>6, <2>1, SyncMoves
<1>7. CASE ~SaveRaises(orders[h.order], h.snap) /\ orders' = [orders EXCEPT ![h.order] = n]
  <2>1. n \in Snapshot /\ Source(h.order, n)
    BY <1>2, <1>3, <1>7, SaveSource
  <2> HIDE DEF n, h
  <2> QED BY <1>1, <1>2, <1>4, <1>5, <1>7, <2>1, RowMoves
<1> QED BY <1>6, <1>7 DEF SyncSaves, SyncAborts

(* Intake and the reconciler write a row of their own making.              *)
LEMMA WriteOrigin ==
    ASSUME Base, Base', NEW p \in Order, NEW n,
           orders' = [orders EXCEPT ![p] = n], Source(p, n),
           UNCHANGED <<task, syncTodo, syncSave>>,
           NEW o \in Order, NEW s, Known(o, s)'
    PROVE  Derived(o, s)
<1>1. Known(o, s) \/ (o = p /\ s = n /\ RowIs(o, s)')
  BY DEF Known, RowIs, ListHas, WorkerHas, OperatorHas, Base, TypeOK
<1>2. RowIs(o, s)' => s \in Snapshot
  BY DEF RowIs, Base, TypeOK
<1> QED BY <1>1, <1>2, KnownDerived, SourceDerived

LEMMA IntakeOrigin ==
    ASSUME Base, Base', NEW p \in Order, AcceptIntent(p) \/ BlockIntent(p),
           NEW o \in Order, NEW s, Known(o, s)'
    PROVE  Derived(o, s)
<1>1. UNCHANGED <<task, syncTodo, syncSave>> /\ p \in Originals /\ orders[p] = NoRow
  BY DEF AcceptIntent, BlockIntent, syncer
<1>2. PICK st \in {"CREATED", "BLOCKED"}, e \in {"none", "other"} :
          orders' = [orders EXCEPT ![p] = Normalize(IntentState(st, Qty, e))]
  BY DEF AcceptIntent, BlockIntent
<1>3. Source(p, Normalize(IntentState(st, Qty, e)))
  BY <1>1 DEF Source, Fresh
<1> QED BY <1>1, <1>2, <1>3, WriteOrigin

LEMMA ReconcileOrigin ==
    ASSUME Base, Base', NEW p \in Order, ReconcileResolved(p),
           NEW o \in Order, NEW s, Known(o, s)'
    PROVE  Derived(o, s)
<1> DEFINE n == SaveResult(orders[p], ResolvedOrderState(p, orders[p], venue[p]))
<1>1. UNCHANGED <<task, syncTodo, syncSave>> /\ orders' = [orders EXCEPT ![p] = n]
  BY DEF ReconcileResolved, syncer
<1>2. Source(p, n)
  BY DEF ReconcileResolved, Source, Reconciled
<1> HIDE DEF n
<1> QED BY <1>1, <1>2, WriteOrigin

LEMMA CrashOrigin ==
    ASSUME Base, Crash, NEW o \in Order, NEW s, Known(o, s)'
    PROVE  Derived(o, s)
<1>1. ~ListHas(syncTodo', o, s) /\ ~ListHas(syncSave', o, s)
  BY EmptySeq DEF Crash, ListHas
<1>2. Known(o, s)
  BY <1>1 DEF Crash, Known, RowIs, ListHas, WorkerHas, OperatorHas, Idle, SnapPc, Saving, store
<1> QED BY <1>2, KnownDerived

(* Every snapshot that is around after a step has a source before it.      *)
LEMMA Origin ==
    ASSUME Base, Base', [Next]_vars, NEW o \in Order, NEW s, Known(o, s)'
    PROVE  Derived(o, s)
<1>1. ASSUME NEW p \in Order, AcceptIntent(p) \/ BlockIntent(p)
      PROVE  Derived(o, s)
  BY <1>1, IntakeOrigin
<1>2. ASSUME NEW a \in {"worker", "operator"}, CancelOrderRaises(a)
      PROVE  Derived(o, s)
  BY <1>2, RequestOrigin
<1>3. CASE Worker
  <2>1. CASE Poll \/ SkipCommand \/ ClaimCommand \/ MarkSent \/ MarkAcked \/ MarkFailed
    BY <2>1, CommandOrigin
  <2>2. CASE Save("worker") \/ SaveRefused("worker") \/ EnqueueCancel("worker")
    BY <2>2, SaveOrigin, SaveRefusedOrigin, RequestOrigin
  <2>3. CASE SubmitDecided \/ SubmitBlocked \/ SubmitProceeds \/ PlaceDeclined
    BY <2>3, SubmitOrigin
  <2>4. CASE PlaceAccepted \/ PlaceRejected \/ PlaceTimesOut
    BY <2>4, PlaceOrigin
  <2>5. CASE ReadDetail \/ RecoverSubmit
    BY <2>5, AnswerOrigin
  <2>6. CASE PostOnlyTimeout \/ PostOnlyFallback
    BY <2>6, PostOnlyOrigin
  <2>7. CASE ProcessCancel \/ CancelLookup \/ CancelAccepted \/ CancelRejected
             \/ CancelTimesOut \/ CancelDetail \/ RecoverCancel
    BY <2>7, CancelOrigin
  <2> QED BY <1>3, <2>1, <2>2, <2>3, <2>4, <2>5, <2>6, <2>7 DEF Worker
<1>4. CASE ClaimRaises \/ MarkRaises
  BY <1>4, CommandOrigin
<1>5. CASE Operator
  <2>1. ASSUME NEW p \in Order, RequestCancel(p) \/ ResolveStuckSubmission(p)
        PROVE  Derived(o, s)
    BY <2>1, OperatorOrigin
  <2>2. CASE Save("operator") \/ SaveRefused("operator") \/ EnqueueCancel("operator")
    BY <2>2, SaveOrigin, SaveRefusedOrigin, RequestOrigin
  <2>3. CASE AbandonSubmit \/ Halt \/ Resume
    BY <2>3, OperatorOrigin
  <2> QED BY <1>5, <2>1, <2>2, <2>3 DEF Operator
<1>6. CASE Sync
  <2>1. CASE SyncCollect \/ SyncAnswered \/ SyncFails \/ SyncSkips
    BY <2>1, SyncReadOrigin
  <2>2. CASE SyncSaves \/ SyncAborts
    BY <2>2, SyncSaveOrigin
  <2> QED BY <1>6, <2>1, <2>2 DEF Sync
<1>7. CASE Crash
  BY <1>7, CrashOrigin
<1>8. CASE Boot
  <2>1. ASSUME NEW p \in Order, ReconcileResolved(p)
        PROVE  Derived(o, s)
    BY <2>1, ReconcileOrigin
  <2>2. ASSUME NEW p \in Order, ReconcileUnreachable(p)
        PROVE  Derived(o, s)
    BY <2>2, NothingMoves DEF ReconcileUnreachable, store, syncer
  <2>3. CASE Restart \/ FinishRecovery
    BY <2>3, NothingMoves DEF Restart, FinishRecovery, store, syncer
  <2> QED BY <1>8, <2>1, <2>2, <2>3 DEF Boot
<1>9. CASE Environment
  <2>1. UNCHANGED <<orders, task, syncTodo, syncSave>>
    BY <1>9 DEF Environment, VenueFill, VenueCancels, LateArrival, store, syncer
  <2> QED BY <2>1, NothingMoves
<1>10. CASE UNCHANGED vars
  BY <1>10, NothingMoves DEF vars, store, syncer
<1> QED BY <1>1, <1>2, <1>3, <1>4, <1>5, <1>6, <1>7, <1>8, <1>9, <1>10 DEF Next

------------------------------------------------------------------------------
(* A row changes only by a save *)

(* What happens to the row of the order o in a step.                       *)
RowStepOf(o) ==
    \/ orders'[o] = orders[o]
    \/ Saved(o, orders'[o]) \/ Fresh(o, orders'[o]) \/ Reconciled(o, orders'[o])

LEMMA SavedRow ==
    ASSUME Base, NEW p \in Order, NEW i \in Snapshot, Known(p, i),
           ~SaveRaises(orders[p], i), orders' = [orders EXCEPT ![p] = SaveResult(@, i)],
           NEW o \in Order
    PROVE  RowStepOf(o)
<1>1. orders' = [orders EXCEPT ![p] = SaveResult(orders[p], i)]
      /\ orders \in [Order -> Snapshot \cup {NoRow}]
  BY DEF Base, TypeOK
<1>2. CASE o = p
  BY <1>1, <1>2 DEF RowStepOf, Saved
<1>3. CASE o # p
  BY <1>1, <1>3 DEF RowStepOf
<1> QED BY <1>2, <1>3

LEMMA RowStepHolds ==
    ASSUME Base, [Next]_vars, NEW o \in Order
    PROVE  RowStepOf(o)
<1>1. CASE orders' = orders
  BY <1>1 DEF RowStepOf
<1>2. ASSUME NEW a \in {"worker", "operator"}, Save(a) \/ SaveRefused(a)
      PROVE  RowStepOf(o)
  <2>1. /\ task[a].pc \in Saving
        /\ \/ orders' = orders
           \/ /\ ~SaveRaises(orders[task[a].order], task[a].snap)
              /\ orders' = [orders EXCEPT ![task[a].order] =
                                SaveResult(orders[task[a].order], task[a].snap)]
    BY <1>2 DEF Save, SaveRefused
  <2>2. /\ task[a].order \in Order /\ task[a].snap \in Snapshot
        /\ Known(task[a].order, task[a].snap)
    BY <2>1, ActorSaving
  <2> QED BY <1>1, <2>1, <2>2, SavedRow
<1>3. CASE SyncSaves \/ SyncAborts
  <2> DEFINE h == Head(syncSave)
  <2>1. /\ syncSave # <<>> /\ syncSave \in Seq(Pending)
        /\ \/ orders' = orders
           \/ /\ ~SaveRaises(orders[h.order], h.snap)
              /\ orders' = [orders EXCEPT ![h.order] = SaveResult(orders[h.order], h.snap)]
    BY <1>3 DEF SyncSaves, SyncAborts, Base, TypeOK
  <2>2. h \in Pending /\ h.order \in Order /\ h.snap \in Snapshot
    BY <2>1, PendingFacts
  <2>3. Known(h.order, h.snap)
    BY <2>1, <2>2, ListSteps DEF Known
  <2> HIDE DEF h
  <2> QED BY <1>1, <2>1, <2>2, <2>3, SavedRow
<1>4. ASSUME NEW p \in Order, AcceptIntent(p) \/ BlockIntent(p)
      PROVE  RowStepOf(o)
  <2>1. /\ p \in Originals /\ orders[p] = NoRow
        /\ \E st \in {"CREATED", "BLOCKED"}, e \in {"none", "other"} :
                orders' = [orders EXCEPT ![p] = Normalize(IntentState(st, Qty, e))]
    BY <1>4 DEF AcceptIntent, BlockIntent
  <2>2. CASE o = p
    BY <2>1, <2>2 DEF RowStepOf, Fresh, Base, TypeOK
  <2>3. CASE o # p
    BY <2>1, <2>3 DEF RowStepOf, Base, TypeOK
  <2> QED BY <2>2, <2>3
<1>5. ASSUME NEW p \in Order, ReconcileResolved(p)
      PROVE  RowStepOf(o)
  <2>1. CASE o = p
    BY <1>5, <2>1 DEF ReconcileResolved, RowStepOf, Reconciled, Base, TypeOK
  <2>2. CASE o # p
    BY <1>5, <2>2 DEF ReconcileResolved, RowStepOf, Base, TypeOK
  <2> QED BY <2>1, <2>2
<1>6. CASE \/ Poll \/ SkipCommand \/ ClaimCommand \/ ClaimRaises
           \/ MarkSent \/ MarkAcked \/ MarkFailed \/ MarkRaises
  <2>1. orders' = orders
    BY <1>6 DEF Poll, SkipCommand, ClaimCommand, ClaimRaises, MarkSent, MarkAcked, MarkFailed,
       MarkRaises, FinishCommand, store
  <2> QED BY <1>1, <2>1
<1>7. CASE \/ SubmitDecided \/ SubmitBlocked \/ SubmitProceeds \/ PlaceDeclined
           \/ PlaceAccepted \/ PlaceRejected \/ PlaceTimesOut \/ ReadDetail \/ RecoverSubmit
           \/ PostOnlyTimeout \/ PostOnlyFallback
  <2>1. orders' = orders
    BY <1>7 DEF SubmitDecided, SubmitBlocked, SubmitProceeds, PlaceDeclined, PlaceAccepted,
       PlaceRejected, PlaceTimesOut, ReadDetail, RecoverSubmit, PostOnlyTimeout,
       PostOnlyFallback, store
  <2> QED BY <1>1, <2>1
<1>8. CASE \/ ProcessCancel \/ CancelLookup \/ CancelAccepted \/ CancelRejected
           \/ CancelTimesOut \/ CancelDetail \/ RecoverCancel
  <2>1. orders' = orders
    BY <1>8 DEF ProcessCancel, CancelLookup, CancelAccepted, CancelRejected, CancelTimesOut,
       CancelDetail, RecoverCancel, store
  <2> QED BY <1>1, <2>1
<1>9. ASSUME NEW a \in {"worker", "operator"}, EnqueueCancel(a) \/ CancelOrderRaises(a)
      PROVE  RowStepOf(o)
  <2>1. orders' = orders
    BY <1>9 DEF EnqueueCancel, CancelOrderRaises, store
  <2> QED BY <1>1, <2>1
<1>10. CASE Worker
  BY <1>2, <1>6, <1>7, <1>8, <1>9, <1>10 DEF Worker
<1>11. CASE Operator
  <2>1. CASE orders' = orders
    BY <1>1, <2>1
  <2>2. CASE Save("operator") \/ SaveRefused("operator") \/ EnqueueCancel("operator")
    BY <1>2, <1>9, <2>2
  <2> QED BY <1>11, <2>1, <2>2 DEF Operator, RequestCancel, ResolveStuckSubmission,
             AbandonSubmit, Halt, Resume, store
<1>12. CASE Sync
  <2>1. CASE SyncCollect \/ SyncAnswered \/ SyncFails \/ SyncSkips
    BY <1>1, <2>1 DEF SyncCollect, SyncAnswered, SyncFails, SyncSkips, SyncAsked, store
  <2> QED BY <1>3, <1>12, <2>1 DEF Sync
<1>13. CASE Crash \/ Environment
  <2>1. orders' = orders
    BY <1>13 DEF Crash, Environment, VenueFill, VenueCancels, LateArrival, store
  <2> QED BY <1>1, <2>1
<1>14. CASE Boot
  <2>1. CASE orders' = orders
    BY <1>1, <2>1
  <2> QED BY <1>5, <1>14, <2>1 DEF Boot, Restart, FinishRecovery, ReconcileUnreachable, store
<1>15. CASE UNCHANGED vars
  BY <1>1, <1>15 DEF vars, store
<1> QED BY <1>4, <1>6, <1>9, <1>10, <1>11, <1>12, <1>13, <1>14, <1>15 DEF Next

LEMMA RowsGoForward ==
    ASSUME Base, Base', [Next]_vars
    PROVE  RowsForward
<1> SUFFICES ASSUME NEW o \in Order PROVE Forward(orders[o], orders'[o])
  BY DEF RowsForward
<1>1. RowStepOf(o)
  BY RowStepHolds
<1>2. orders[o] \in Snapshot \cup {NoRow} /\ orders'[o] \in Snapshot \cup {NoRow}
  BY DEF Base, TypeOK
<1>3. CASE orders'[o] = orders[o]
  BY <1>2, <1>3, ForwardSame
<1>4. CASE Saved(o, orders'[o])
  BY <1>2, <1>4, SaveForward DEF Saved
<1>5. CASE Fresh(o, orders'[o])
  BY <1>2, <1>5 DEF Fresh, Forward
<1>6. CASE Reconciled(o, orders'[o])
  <2> DEFINE r == ResolvedOrderState(o, orders[o], venue[o])
  <2>1. r \in Snapshot /\ orders'[o] = SaveResult(orders[o], r)
    BY <1>6, ResolvedSnapshot DEF Reconciled
  <2> HIDE DEF r
  <2> QED BY <1>2, <2>1, SaveForward
<1> QED BY <1>1, <1>3, <1>4, <1>5, <1>6 DEF RowStepOf

------------------------------------------------------------------------------
(* An order that is not decided on has no exchange id, in any snapshot *)

UndecidedStatus == {"CREATED", "SUBMITTING"}
HasNoId(s) == s.status \in UndecidedStatus => s.exchange_order_id = NoVenueId
UndecidedHasNoId == \A o \in Order : \A s \in Snapshot : Known(o, s) => HasNoId(s)

LEMMA SaveHasNoId ==
    ASSUME NEW r \in Snapshot \cup {NoRow}, NEW i \in Snapshot, ~SaveRaises(r, i),
           r # NoRow => HasNoId(r), HasNoId(i)
    PROVE  HasNoId(SaveResult(r, i))
<1> DEFINE s == SaveResult(r, i)
           taken == r = NoRow \/ accepted(validate_transition(r.status, i.status))
           from == IF taken THEN i.status ELSE r.status
<1>1. r \in OrderState \cup {NoRow} /\ i \in OrderState
      /\ i.status \in OrderLifecycleStatus /\ (r # NoRow => r.status \in OrderLifecycleStatus)
  BY SnapshotFacts DEF OrderState
<1>2. /\ \/ s.status = from
         \/ s.status = "PARTIALLY_FILLED" \/ s.status = "FILLED"
      /\ s.exchange_order_id = i.exchange_order_id
           \/ (r # NoRow /\ s.exchange_order_id = r.exchange_order_id)
  BY <1>1, SaveValues
<1>3. r # NoRow =>
        /\ taken => (r.status \notin UndecidedStatus => i.status \notin UndecidedStatus)
        /\ ~taken => (i.status \notin UndecidedStatus => r.status \notin UndecidedStatus)
  BY <1>1, StatusSteps DEF SaveRaises, UndecidedStatus
<1> HIDE DEF s
<1>4. s.status \in UndecidedStatus => s.exchange_order_id = NoVenueId
  BY <1>2, <1>3 DEF HasNoId, UndecidedStatus
<1> QED BY <1>4 DEF HasNoId, s

(* What the reconciler saves.                                              *)
LEMMA ResolvedFacts ==
    ASSUME Base, NEW o \in Order, o \in unresolved, venue[o].state # "none"
    PROVE  LET r == ResolvedOrderState(o, orders[o], venue[o]) IN
           /\ orders[o] \in Snapshot /\ orders[o] # NoRow /\ r \in Snapshot
           /\ r.status \in {"SUBMITTED", "CANCELED", "FILLED"}
           /\ r.execution_error = orders[o].execution_error
<1> DEFINE r == ResolvedOrderState(o, orders[o], venue[o])
<1>1. /\ orders[o] \in Snapshot /\ orders[o] # NoRow /\ r \in Snapshot
      /\ \/ r = [orders[o] EXCEPT !.status = "SUBMITTED", !.exchange_order_id = o]
         \/ r = [orders[o] EXCEPT !.status = "CANCELED", !.exchange_order_id = o]
         \/ r = [orders[o] EXCEPT !.status = "FILLED", !.exchange_order_id = o,
                    !.filled_qty = Greatest(orders[o].filled_qty, venue[o].filled),
                    !.remaining_qty = 0]
  BY ResolvedSnapshot
<1> HIDE DEF r
<1>2. /\ r.status \in {"SUBMITTED", "CANCELED", "FILLED"}
      /\ r.execution_error = orders[o].execution_error
  BY <1>1 DEF Snapshot
<1> QED BY <1>1, <1>2 DEF r

(* The sources and the edits keep it.                                      *)
LEMMA SourceHasNoId ==
    ASSUME Base, UndecidedHasNoId, NEW o \in Order, NEW k \in Snapshot, Source(o, k)
    PROVE  HasNoId(k)
<1>1. orders[o] \in Snapshot \cup {NoRow} /\ venue[o].state \in VenueState
      /\ (orders[o] # NoRow => HasNoId(orders[o]))
  BY DEF Base, TypeOK, UndecidedHasNoId, Known, RowIs
<1>2. CASE Known(o, k)
  BY <1>2 DEF UndecidedHasNoId
<1>3. CASE Mapped(o, k)
  <2>1. k.status \in {"SUBMITTED", "PARTIALLY_FILLED", "FILLED", "CANCELED"}
    BY <1>3 DEF Mapped, MapOrderState, MapStatus
  <2> QED BY <2>1 DEF HasNoId, UndecidedStatus
<1>4. CASE Built(o, k)
  BY <1>4 DEF Built, HasNoId, UndecidedStatus, IntentState, SubmittedState, SubmissionUnknown
<1>5. CASE Submitting(o, k)
  <2>1. CASE orders[o] = NoRow
    BY <1>5, <2>1 DEF Submitting, SubmittingState, IntentState, HasNoId
  <2>2. CASE orders[o] # NoRow
    <3>1. k = SubmittingState(o, Qty) /\ orders[o].status \in UndecidedStatus
      BY <1>5, <2>2 DEF Submitting, Decided, UndecidedStatus
    <3>2. orders[o].exchange_order_id = NoVenueId /\ orders[o] \in Snapshot
      BY <1>1, <2>2, <3>1 DEF HasNoId
    <3> QED BY <2>2, <3>1, <3>2 DEF SubmittingState, HasNoId, Snapshot
  <2> QED BY <2>1, <2>2
<1>6. CASE Saved(o, k)
  <2>1. PICK i \in Snapshot : Known(o, i) /\ ~SaveRaises(orders[o], i)
                              /\ k = SaveResult(orders[o], i)
    BY <1>6 DEF Saved
  <2>2. HasNoId(i)
    BY <2>1 DEF UndecidedHasNoId
  <2> QED BY <1>1, <2>1, <2>2, SaveHasNoId
<1>7. CASE Fresh(o, k)
  <2>1. PICK st \in {"CREATED", "BLOCKED"}, e \in {"none", "other"} :
            k = Normalize(IntentState(st, Qty, e))
    BY <1>7 DEF Fresh
  <2> DEFINE i == IntentState(st, Qty, e)
  <2>2. i \in Snapshot /\ HasNoId(i)
    <3>1. st \in OrderLifecycleStatus /\ e \in ExecutionError /\ Qty \in 1..Qty
      BY BoundsAssumption DEF OrderLifecycleStatus, TERMINAL_ORDER_STATES, OPEN_ORDER_STATES,
         ExecutionError
    <3>2. i \in Snapshot
      BY <3>1, BuiltSnapshots
    <3> QED BY <3>2 DEF IntentState, HasNoId
  <2>3. k = SaveResult(NoRow, i) /\ ~SaveRaises(NoRow, i)
    BY <2>1 DEF SaveResult, SaveRaises
  <2> HIDE DEF i
  <2> QED BY <2>2, <2>3, SaveHasNoId
<1>8. CASE Reconciled(o, k)
  <2> DEFINE r == ResolvedOrderState(o, orders[o], venue[o])
  <2>1. /\ o \in unresolved /\ venue[o].state # "none"
        /\ k = SaveResult(orders[o], r) /\ ~SaveRaises(orders[o], r)
    BY <1>8 DEF Reconciled
  <2>3. r \in Snapshot /\ r.status \in {"SUBMITTED", "CANCELED", "FILLED"}
    BY <2>1, ResolvedFacts
  <2>2. HasNoId(r)
    BY <2>3 DEF HasNoId, UndecidedStatus
  <2> HIDE DEF r
  <2> QED BY <1>1, <2>1, <2>2, <2>3, SaveHasNoId
<1> QED BY <1>2, <1>3, <1>4, <1>5, <1>6, <1>7, <1>8 DEF Source

LEMMA UndecidedHasNoIdStep ==
    ASSUME Base, Base', UndecidedHasNoId, [Next]_vars
    PROVE  UndecidedHasNoId'
<1> SUFFICES ASSUME NEW o \in Order, NEW s \in Snapshot, Known(o, s)'
             PROVE  HasNoId(s)
  BY DEF UndecidedHasNoId
<1>1. PICK k \in Snapshot : Source(o, k) /\ Edited(o, k, s)
  BY Origin DEF Derived
<1>2. HasNoId(k)
  BY <1>1, SourceHasNoId
<1> QED BY <1>1, <1>2 DEF Edited, HasNoId, UndecidedStatus

------------------------------------------------------------------------------
(* An order is sent once, as long as at most one database write fails *)

(* An order that was sent and is not decided on is in the worker's hands,  *)
(* or its command is about to be marked FAILED because a write failed, or  *)
(* its command is not one that a worker takes up, or recovery blocks.      *)
SentInHand(o) ==
    /\ cmds[submit(o)] \notin {"none", "PENDING"}
    /\ \/ Decided(orders[o])
       \/ /\ Current = submit(o) /\ task["worker"].order = o
          /\ task["worker"].pc \in {"detail", "recover", "save_result"}
       \/ /\ Current = submit(o) /\ task["worker"].pc = "fail"
          /\ faults.db >= 1
       \/ cmds[submit(o)] # "CLAIMED"
       \/ phase # "running" \/ Blocked

(* What the worker is about to send it has not sent before.                *)
WorkerUnsent ==
    /\ task["worker"].pc \in {"save_submitting", "place"} => sends[task["worker"].order] = 0
    /\ task["worker"].pc = "submit" =>
            sends[task["worker"].order] = 0 \/ Decided(orders[task["worker"].order])
    /\ task["worker"].pc # "idle" => cmds[Current] \notin {"none", "PENDING"}

SendInv ==
    /\ NoResend /\ WorkerUnsent
    /\ \A o \in Originals : sends[o] > 0 => SentInHand(o)

LEMMA SubmitNames ==
    /\ \A o \in Order : submit(o) \in Command /\ cancel(o) \in Command
    /\ \A o, p \in Order : submit(o) # cancel(p) /\ (o # p => submit(o) # submit(p))
  BY DEF submit, cancel, Command

(* Steps in which the worker stands still.                                 *)
LEMMA SendKept ==
    ASSUME Base, SendInv, RowsForward, sends' = sends, faults'.db >= faults.db,
           faults.db \in Nat, faults'.db \in Nat,
           \/ task'["worker"] = task["worker"]
           \/ task'["worker"].pc = "idle" /\ phase' # "running",
           task'["worker"].pc # "idle" => batch' = batch,
           \A c \in Command : \/ cmds'[c] = cmds[c] \/ cmds[c] = "none"
                              \/ cmds'[c] \notin {"none", "PENDING", "CLAIMED"},
           \/ phase' # "running"
           \/ phase = "running" /\ (Blocked => Blocked')
    PROVE  SendInv'
<1>1. NoResend'
  BY DEF SendInv, NoResend
<1>2. \A o \in Order : Decided(orders[o]) => Decided(orders'[o])
  BY DEF RowsForward, Forward, Decided
<1>3. WorkerUnsent'
  <2>1. CASE task'["worker"].pc = "idle"
    BY <2>1 DEF WorkerUnsent
  <2>2. CASE task'["worker"].pc # "idle"
    <3>1. task'["worker"] = task["worker"] /\ batch' = batch /\ Current' = Current
      BY <2>2 DEF Current
    <3>2. task["worker"].order \in Order /\ Current \in Command
      BY <2>2, <3>1, WorkerAtWork
    <3>3. cmds[Current] \notin {"none", "PENDING"}
      BY <2>2, <3>1 DEF SendInv, WorkerUnsent
    <3>4. cmds'[Current] \notin {"none", "PENDING"}
      BY <3>2, <3>3
    <3> QED BY <1>2, <3>1, <3>2, <3>4 DEF SendInv, WorkerUnsent
  <2> QED BY <2>1, <2>2
<1>4. ASSUME NEW o \in Originals, sends'[o] > 0
      PROVE  SentInHand(o)'
  <2>1. o \in Order /\ submit(o) \in Command /\ SentInHand(o)
    BY <1>4, SubmitNames DEF Originals, SendInv
  <2>2. cmds'[submit(o)] \notin {"none", "PENDING"}
        /\ (cmds[submit(o)] # "CLAIMED" => cmds'[submit(o)] # "CLAIMED")
    BY <2>1 DEF SentInHand
  <2>3. CASE phase' # "running"
    BY <2>2, <2>3 DEF SentInHand
  <2>4. CASE phase' = "running"
    <3>1. task'["worker"] = task["worker"]
          /\ (task["worker"].pc # "idle" => Current' = Current)
      BY <2>4 DEF Current
    <3> QED BY <1>2, <2>1, <2>2, <2>4, <3>1 DEF SentInHand
  <2> QED BY <2>3, <2>4
<1> QED BY <1>1, <1>3, <1>4 DEF SendInv

(* Steps in which the worker goes on with its command and sends nothing.   *)
LEMMA SendMoves ==
    ASSUME Base, SendInv, RowsForward, task["worker"].pc \notin {"idle", "fail"}, NEW t,
           SetTask("worker", t), t.pc \notin {"idle", "submit"},
           UNCHANGED <<sends, batch, phase, blockers, halted>>,
           \A c \in Command : cmds[c] # "none" => cmds'[c] = cmds[c],
           t.pc \in {"save_submitting", "place"} => sends[t.order] = 0,
           \A o \in Originals :
               /\ sends[o] > 0 /\ Current = submit(o) /\ task["worker"].order = o
               /\ task["worker"].pc \in {"detail", "recover", "save_result"}
               => \/ Decided(orders'[o])
                  \/ t.order = o /\ t.pc \in {"detail", "recover", "save_result"}
                  \/ t.pc = "fail" /\ faults'.db >= 1
    PROVE  SendInv'
<1>1. NoResend'
  BY DEF SendInv, NoResend
<1>2. \A o \in Order : Decided(orders[o]) => Decided(orders'[o])
  BY DEF RowsForward, Forward, Decided
<1>3. task'["worker"] = t /\ Current' = Current
  BY DEF SetTask, Base, TypeOK, Current
<1>4. WorkerUnsent'
  <2>1. Current \in Command /\ cmds[Current] \notin {"none", "PENDING"}
    BY WorkerAtWork DEF SendInv, WorkerUnsent
  <2> QED BY <1>3, <2>1 DEF SendInv, WorkerUnsent
<1>5. ASSUME NEW o \in Originals, sends'[o] > 0
      PROVE  SentInHand(o)'
  <2>1. o \in Order /\ SentInHand(o) /\ submit(o) \in Command
    BY <1>5, SubmitNames DEF Originals, SendInv
  <2>2. cmds'[submit(o)] = cmds[submit(o)]
    BY <2>1 DEF SentInHand
  <2> QED BY <1>2, <1>3, <1>5, <2>1, <2>2 DEF SentInHand, Blocked
<1> QED BY <1>1, <1>4, <1>5 DEF SendInv

(* Steps in which the worker sends the placement of its order.             *)
LEMMA SendSends ==
    ASSUME Base, SendInv, PlaceAccepted \/ PlaceRejected \/ PlaceTimesOut
    PROVE  SendInv'
<1> DEFINE w == task["worker"]
<1>1. /\ w.pc = "place" /\ sends' = [sends EXCEPT ![w.order] = sends[w.order] + 1]
      /\ UNCHANGED <<orders, cmds, batch, phase, blockers, halted, faults>>
  BY DEF PlaceAccepted, PlaceRejected, PlaceTimesOut, Placing, At, Sent, store, boot
<1>2. /\ w \in Task /\ w.order \in Order /\ Current[1] = "submit" /\ Current[2] \in Order
      /\ Current = <<Current[1], Current[2]>>
      /\ OnSubmit(w, Current[2], orders, cmds) /\ sends \in [Order -> Nat]
  BY <1>1, WorkerOnSubmit, WorkerAtWork DEF SubmitPc, Base, TypeOK
<1>3. sends[w.order] = 0
  BY <1>1 DEF SendInv, WorkerUnsent
<1>4. NoResend'
  BY <1>1, <1>2, <1>3 DEF SendInv, NoResend
<1>5. PICK pc \in {"detail", "recover", "save_result"} :
          task'["worker"].pc = pc /\ task'["worker"].order = w.order
  <2>1. CASE PlaceAccepted \/ PlaceTimesOut
    <3>1. PICK pc \in {"detail", "recover"} : SetTask("worker", [w EXCEPT !.pc = pc])
      BY <2>1 DEF PlaceAccepted, PlaceTimesOut, Goto
    <3>2. [w EXCEPT !.pc = pc].pc = pc /\ [w EXCEPT !.pc = pc].order = w.order
      BY <1>2 DEF Task
    <3> QED BY <3>1, <3>2 DEF SetTask, Base, TypeOK
  <2>2. CASE PlaceRejected
    <3>1. PICK s : SetTask("worker", [w EXCEPT !.pc = "save_result", !.snap = s])
      BY <2>2 DEF PlaceRejected, PlaceResult, GotoWith
    <3> DEFINE t == [w EXCEPT !.pc = "save_result", !.snap = s]
    <3>2. t.pc = "save_result" /\ t.order = w.order
      BY <1>2 DEF Task
    <3> HIDE DEF t
    <3> QED BY <3>1, <3>2 DEF SetTask, Base, TypeOK, t
  <2> QED BY <2>1, <2>2
<1>6. Current' = Current
  BY <1>1 DEF Current
<1>7. cmds[Current] \notin {"none", "PENDING"}
  BY <1>1 DEF SendInv, WorkerUnsent
<1>8. WorkerUnsent'
  BY <1>1, <1>5, <1>6, <1>7 DEF WorkerUnsent
<1>9. ASSUME NEW o \in Originals, sends'[o] > 0
      PROVE  SentInHand(o)'
  <2>1. CASE o = w.order
    <3>1. Current[2] = o
      BY <1>2, <2>1 DEF OnSubmit, Originals
    <3>2. Current = submit(o)
      BY <1>2, <3>1 DEF submit
    <3> QED BY <1>1, <1>5, <1>6, <1>7, <2>1, <3>2 DEF SentInHand
  <2>2. CASE o # w.order
    <3>1. sends[o] > 0 /\ o \in Order
      BY <1>1, <1>2, <1>9, <2>2 DEF Originals
    <3>2. SentInHand(o)
      BY <3>1 DEF SendInv
    <3> QED BY <1>1, <2>2, <3>2 DEF SentInHand, Blocked
  <2> QED BY <2>1, <2>2
<1> QED BY <1>4, <1>8, <1>9 DEF SendInv

(* claim_command: an order that was sent is decided on when its command is *)
(* taken up again.                                                         *)
LEMMA SendClaims ==
    ASSUME Base, SendInv, ClaimCommand
    PROVE  SendInv'
<1>1. /\ phase = "running" /\ task["worker"] = Idle /\ batch # <<>> /\ ~MustSkip(Head(batch))
      /\ cmds' = [cmds EXCEPT ![Current] = "CLAIMED"]
      /\ UNCHANGED <<orders, sends, batch, phase, blockers, halted, faults>>
  BY DEF ClaimCommand, WorkerFree, world, boot
<1>2. /\ Current \in Command /\ Current = Head(batch).cmd
      /\ Current[1] \in {"submit", "cancel"} /\ Current[2] \in Order
      /\ Current = <<Current[1], Current[2]>> /\ cmds[Current] # "none"
      /\ cmds \in [Command -> CommandState] /\ sends \in [Order -> Nat]
  BY <1>1, BatchFacts DEF Base, TypeOK
<1>3. /\ task'["worker"].pc = Current[1] /\ task'["worker"].order = Current[2]
      /\ Current' = Current
  BY <1>1 DEF ClaimCommand, SetTask, Idle, Base, TypeOK, Current
<1>4. Current[1] = "submit" =>
        sends[Current[2]] = 0 \/ Decided(orders[Current[2]])
  <2> SUFFICES ASSUME Current[1] = "submit", sends[Current[2]] # 0
               PROVE  Decided(orders[Current[2]])
    OBVIOUS
  <2> DEFINE o == Current[2]
  <2>1. Current = submit(o)
    BY <1>2 DEF submit
  <2>2. o \in Originals
    BY <1>2, <2>1 DEF Base, CommandsKnown
  <2>3. cmds[submit(o)] \in {"PENDING", "CLAIMED"} /\ ~halted
    BY <1>1, <1>2, <2>1 DEF MustSkip
  <2>4. SentInHand(o)
    BY <1>2, <2>2 DEF SendInv
  <2> QED BY <1>1, <2>3, <2>4 DEF SentInHand, Blocked, Idle
<1>5. WorkerUnsent'
  BY <1>1, <1>2, <1>3, <1>4 DEF WorkerUnsent
<1>6. ASSUME NEW o \in Originals, sends'[o] > 0
      PROVE  SentInHand(o)'
  <2>1. o \in Order /\ submit(o) \in Command /\ SentInHand(o)
    BY <1>1, <1>6, SubmitNames DEF Originals, SendInv
  <2>2. CASE Current = submit(o)
    BY <1>1, <1>2, <1>4, <1>6, <2>1, <2>2 DEF SentInHand, submit
  <2>3. CASE Current # submit(o)
    BY <1>1, <1>2, <2>1, <2>3 DEF SentInHand, Idle, Blocked
  <2> QED BY <2>2, <2>3
<1>7. NoResend'
  BY <1>1 DEF SendInv, NoResend
<1> QED BY <1>5, <1>6, <1>7 DEF SendInv

(* mark_sent_to_venue, mark_acked, mark_failed: the command is not one     *)
(* that a worker takes up any more.  A mark_failed that raises would leave *)
(* it CLAIMED, after the failed write that led to it.                      *)
LEMMA SendMarks ==
    ASSUME Base, SendInv, MarkSent \/ MarkAcked \/ MarkFailed
    PROVE  SendInv'
<1>1. /\ UNCHANGED <<orders, sends, phase, blockers, halted, faults>>
      /\ task["worker"].pc \in {"sent", "ack", "fail"}
      /\ \E st \in {"SENT", "ACKED", "FAILED"} : cmds' = [cmds EXCEPT ![Current] = st]
  BY DEF MarkSent, MarkAcked, MarkFailed, FinishCommand, At, world, boot
<1>2. /\ task["worker"] \in Task /\ Current \in Command /\ cmds \in [Command -> CommandState]
      /\ Current = <<Current[1], Current[2]>>
  BY <1>1, WorkerAtWork DEF Base, TypeOK
<1>3. \/ task'["worker"].pc = "idle"
      \/ task'["worker"].pc = "ack" /\ batch' = batch
  BY <1>2 DEF MarkSent, MarkAcked, MarkFailed, FinishCommand, SetTask, Goto, Idle, Base, TypeOK,
     Task
<1>4. cmds[Current] \notin {"none", "PENDING"}
  BY <1>1 DEF SendInv, WorkerUnsent
<1>5. WorkerUnsent'
  BY <1>1, <1>2, <1>3, <1>4 DEF WorkerUnsent, Current
<1>6. ASSUME NEW o \in Originals, sends'[o] > 0
      PROVE  SentInHand(o)'
  <2>1. o \in Order /\ submit(o) \in Command /\ SentInHand(o)
    BY <1>1, <1>6, SubmitNames DEF Originals, SendInv
  <2>2. CASE Current = submit(o)
    BY <1>1, <1>2, <2>1, <2>2 DEF SentInHand
  <2>3. CASE Current # submit(o)
    BY <1>1, <1>2, <2>1, <2>3 DEF SentInHand, Blocked
  <2> QED BY <2>2, <2>3
<1>7. NoResend'
  BY <1>1 DEF SendInv, NoResend
<1> QED BY <1>5, <1>6, <1>7 DEF SendInv

LEMMA SendMarkRaises ==
    ASSUME Base, SendInv, MarkRaises, faults'.db <= 1
    PROVE  SendInv'
<1>1. /\ UNCHANGED <<orders, cmds, sends, phase, blockers, halted>>
      /\ task["worker"].pc \in {"sent", "ack", "fail"}
      /\ faults.db \in Nat /\ faults'.db = faults.db + 1
  BY BoundsAssumption DEF MarkRaises, At, store, world, boot, DbFault, Base, TypeOK
<1>2. faults.db = 0
  BY <1>1
<1>3. RowsForward
  BY <1>1, ForwardSame DEF RowsForward, Base, TypeOK
<1>4. CASE task["worker"].pc = "fail"
  <2>1. task'["worker"] = Idle
    BY <1>4 DEF MarkRaises, SetTask, Base, TypeOK
  <2>2. WorkerUnsent'
    BY <2>1 DEF WorkerUnsent, Idle
  <2>3. ASSUME NEW o \in Originals, sends'[o] > 0
        PROVE  SentInHand(o)'
    <3>1. SentInHand(o)
      BY <1>1, <2>3 DEF SendInv
    <3> QED BY <1>1, <1>2, <1>4, <3>1 DEF SentInHand, Blocked
  <2>4. NoResend'
    BY <1>1 DEF SendInv, NoResend
  <2> QED BY <2>2, <2>3, <2>4 DEF SendInv
<1>5. CASE task["worker"].pc \in {"sent", "ack"}
  <2> DEFINE t == [task["worker"] EXCEPT !.pc = "fail"]
  <2>1. /\ SetTask("worker", t) /\ batch' = batch /\ task["worker"] \in Task
    BY <1>5 DEF MarkRaises, Goto, Base, TypeOK
  <2>2. t.pc = "fail"
    BY <2>1 DEF Task
  <2> HIDE DEF t
  <2> QED BY <1>1, <1>3, <1>5, <2>1, <2>2, SendMoves
<1> QED BY <1>1, <1>4, <1>5

(* The worker goes on with its order.                                      *)
LEMMA SendGoes ==
    ASSUME Base, SendInv, RowsForward, task["worker"].pc \notin {"idle", "fail"}, NEW pc, NEW k,
           GotoWith("worker", pc, k) \/ Goto("worker", pc), pc \notin {"idle", "submit"},
           UNCHANGED <<sends, batch, cmds, phase, blockers, halted>>,
           pc \in {"save_submitting", "place"} => sends[task["worker"].order] = 0,
           task["worker"].pc \in {"detail", "recover", "save_result"} => pc = "save_result"
    PROVE  SendInv'
<1> DEFINE w == task["worker"]
<1>1. PICK t : /\ SetTask("worker", t)
               /\ t \in {[w EXCEPT !.pc = pc, !.snap = k], [w EXCEPT !.pc = pc]}
  BY DEF GotoWith, Goto
<1>2. w \in Task
  BY WorkerAtWork
<1>3. t.pc = pc /\ t.order = w.order
  BY <1>1, <1>2 DEF Task
<1> QED BY <1>1, <1>3, SendMoves

LEMMA SendSubmits ==
    ASSUME Base, SendInv, RowsForward,
           SubmitDecided \/ SubmitBlocked \/ SubmitProceeds \/ PlaceDeclined
           \/ ReadDetail \/ RecoverSubmit
    PROVE  SendInv'
<1> DEFINE w == task["worker"]
<1>1. UNCHANGED <<sends, batch, cmds, phase, blockers, halted>>
  BY DEF SubmitDecided, SubmitBlocked, SubmitProceeds, PlaceDeclined, ReadDetail, RecoverSubmit,
     store, world, boot
<1>2. CASE SubmitDecided
  <2>1. w.pc = "submit" /\ Goto("worker", "sent")
    BY <1>2 DEF SubmitDecided, At
  <2> QED BY <1>1, <2>1, SendGoes
<1>3. CASE SubmitBlocked
  <2>1. w.pc = "submit" /\ \E k : GotoWith("worker", "save_blocked", k)
    BY <1>3 DEF SubmitBlocked, SubmitDue, At
  <2> QED BY <1>1, <2>1, SendGoes
<1>4. CASE SubmitProceeds
  <2>1. /\ w.pc = "submit" /\ \E k : GotoWith("worker", "save_submitting", k)
        /\ ~Decided(orders[w.order])
    BY <1>4 DEF SubmitProceeds, SubmitDue, At, Decided
  <2>2. sends[w.order] = 0
    BY <2>1 DEF SendInv, WorkerUnsent
  <2> QED BY <1>1, <2>1, <2>2, SendGoes
<1>5. CASE PlaceDeclined \/ ReadDetail \/ RecoverSubmit
  <2>1. /\ w.pc \in {"place", "detail", "recover"}
        /\ \E k : GotoWith("worker", "save_result", k)
    BY <1>5 DEF PlaceDeclined, Placing, ReadDetail, RecoverSubmit, At, PlaceResult
  <2> QED BY <1>1, <2>1, SendGoes
<1> QED BY <1>2, <1>3, <1>4, <1>5

(* A cancel sends no placement; the fallback of a post-only order is a     *)
(* new order.                                                              *)
LEMMA SendPostOnly ==
    ASSUME Base, SendInv, RowsForward, PostOnlyTimeout \/ PostOnlyFallback
    PROVE  SendInv'
<1> DEFINE w == task["worker"]
<1>1. /\ UNCHANGED <<sends, batch, cmds, phase, blockers, halted>>
      /\ w.pc \in {"po_wait", "po_fallback"}
  BY DEF PostOnlyTimeout, PostOnlyFallback, At, store, world, boot
<1>2. /\ w \in Task /\ w.order \in Order /\ OnSubmit(w, Current[2], orders, cmds)
  BY <1>1, WorkerAtWork, WorkerOnSubmit DEF SubmitPc
<1>3. CASE Goto("worker", "sent")
  BY <1>1, <1>3, SendGoes
<1>4. CASE PostOnlyTimeout /\ ~Goto("worker", "sent")
  <2>1. PICK t : /\ SetTask("worker", t)
                 /\ \/ t = LocalCancel(w, w.order, orders[w.order])
                    \/ t = [w EXCEPT !.pc = "save_pending", !.order = w.order,
                              !.snap = [orders[w.order] EXCEPT !.status = "CANCEL_PENDING"]]
    BY <1>4 DEF PostOnlyTimeout, BeginCancel
  <2>2. t.pc \in {"abandon", "save_canceled", "save_pending"}
    BY <1>2, <2>1 DEF LocalCancel, Task
  <2> QED BY <1>1, <2>1, <2>2, SendMoves
<1>5. CASE PostOnlyFallback /\ ~Goto("worker", "sent")
  <2> DEFINE f == FallbackOf[w.order]
             rest == w.snap.remaining_qty
             t == [w EXCEPT !.pc = "save_submitting", !.order = f,
                            !.qty = rest, !.snap = SubmittingState(f, rest)]
  <2>1. w.pc = "po_fallback" /\ SetTask("worker", t)
    BY <1>5 DEF PostOnlyFallback, At
  <2>2. w.order \in PostOnly /\ orders[f] = NoRow /\ f \in Order
    BY <1>2, <2>1, OrderAssumption DEF OnSubmit, PostOnlyPc, BeforeFallbackPc, FallbackPc
  <2>3. sends[f] = 0
    BY <2>2 DEF Base, TypeOK, RecordedBeforeSent
  <2>4. t.pc = "save_submitting" /\ t.order = f
    BY <1>2 DEF Task
  <2> HIDE DEF t
  <2> QED BY <1>1, <2>1, <2>3, <2>4, SendMoves
<1> QED BY <1>3, <1>4, <1>5

LEMMA SendCancels ==
    ASSUME Base, SendInv, RowsForward,
           ProcessCancel \/ CancelLookup \/ CancelAccepted \/ CancelRejected
           \/ CancelTimesOut \/ CancelDetail \/ RecoverCancel
    PROVE  SendInv'
<1> DEFINE w == task["worker"]
<1>1. /\ UNCHANGED <<sends, batch, cmds, phase, blockers, halted>>
      /\ w.pc \in {"cancel", "c_lookup", "c_request", "c_detail", "c_recover"}
  BY DEF ProcessCancel, CancelLookup, CancelAccepted, CancelRejected, CancelTimesOut,
     CancelDetail, RecoverCancel, At, store, world, boot
<1>2. w \in Task
  BY <1>1, WorkerAtWork
<1>3. ASSUME NEW pc \in {"sent", "save_cancel_pending", "c_lookup", "c_request", "c_detail",
                         "c_recover", "save_result"},
             NEW k, GotoWith("worker", pc, k) \/ Goto("worker", pc)
      PROVE  SendInv'
  BY <1>1, <1>3, SendGoes
<1>4. CASE ProcessCancel
  <2>1. CASE SetTask("worker", LocalCancel(w, w.order, orders[w.order]))
    <3> DEFINE t == LocalCancel(w, w.order, orders[w.order])
    <3>1. t.pc \in {"abandon", "save_canceled"}
      BY <1>2 DEF LocalCancel, Task
    <3> HIDE DEF t
    <3> QED BY <1>1, <2>1, <3>1, SendMoves DEF t
  <2>2. CASE ~SetTask("worker", LocalCancel(w, w.order, orders[w.order]))
    <3>1. \/ Goto("worker", "sent")
          \/ GotoWith("worker", "save_cancel_pending",
                      [orders[w.order] EXCEPT !.status = "CANCEL_PENDING"])
          \/ GotoWith("worker", "c_lookup", orders[w.order])
      BY <1>4, <2>2 DEF ProcessCancel
    <3> QED BY <1>3, <3>1
  <2> QED BY <2>1, <2>2
<1>5. CASE CancelLookup
  <2>1. \E pc \in {"c_request", "save_result"} :
            Goto("worker", pc) \/ \E k : GotoWith("worker", pc, k)
    BY <1>5 DEF CancelLookup
  <2> QED BY <1>3, <2>1
<1>6. CASE CancelAccepted \/ CancelTimesOut
  <2>1. \E pc \in {"c_detail", "c_recover"} : Goto("worker", pc)
    BY <1>6 DEF CancelAccepted, CancelTimesOut
  <2> QED BY <1>3, <2>1
<1>7. CASE CancelRejected \/ CancelDetail \/ RecoverCancel
  <2>1. \E k : GotoWith("worker", "save_result", k)
    BY <1>7 DEF CancelRejected, CancelDetail, RecoverCancel
  <2> QED BY <1>3, <2>1
<1> QED BY <1>4, <1>5, <1>6, <1>7

(* Where the worker goes on after a save.                                  *)
LEMMA AfterSaveTask ==
    ASSUME NEW w \in Task, w.pc \in Saving, NEW row
    PROVE  LET u == AfterSave("worker", w, row) IN
           \/ /\ w.pc = "save_submitting"
              /\ u.pc = "place" /\ u.order = w.order /\ u.qty = w.qty
           \/ /\ u.pc \in {"sent", "po_fallback", "po_wait", "enqueue", "abandon",
                           "save_canceled", "c_lookup"}
              /\ u.order = w.order /\ u.qty = w.qty
<1>1. CASE w.pc = "save_submitting"
  BY <1>1 DEF AfterSave, Task
<1>2. CASE w.pc = "save_cancel_pending"
  BY <1>2 DEF AfterSave, Task, LocalCancel
<1>3. CASE w.pc = "save_pending"
  BY <1>3 DEF AfterSave, Task
<1>4. CASE w.pc = "save_result"
  <2>1. AfterPostOnlySubmit(row) \in {"po_fallback", "sent", "po_wait"}
    BY DEF AfterPostOnlySubmit
  <2> QED BY <1>4, <2>1 DEF AfterSave, Task
<1>5. CASE w.pc \in {"save_blocked", "save_canceled", "save_resolved"}
  BY <1>5 DEF AfterSave, Task
<1> QED BY <1>1, <1>2, <1>3, <1>4, <1>5 DEF Saving

(* The answer of a placement is saved: the order is decided on, unless the *)
(* database fails.                                                         *)
LEMMA SendSaves ==
    ASSUME Base, SendInv, RowsForward, Save("worker") \/ SaveRefused("worker")
    PROVE  SendInv'
<1> DEFINE w == task["worker"]
           row == SaveResult(orders[w.order], w.snap)
<1>1. /\ w.pc \in Saving /\ UNCHANGED <<sends, batch, cmds, phase, blockers, halted>>
  BY DEF Save, SaveRefused, world
<1>2. /\ w.pc \notin {"idle", "fail"} /\ w \in Task /\ w.order \in Order /\ w.snap \in Snapshot
      /\ orders \in [Order -> Snapshot \cup {NoRow}] /\ faults.db \in Nat
      /\ Current[1] = "submit" => OnSubmit(w, Current[2], orders, cmds)
  <2>1. w.pc \notin {"idle", "fail"} /\ w.pc \in SnapPc
    BY <1>1 DEF Saving, SnapPc
  <2>2. orders \in [Order -> Snapshot \cup {NoRow}] /\ faults.db \in Nat
    BY BoundsAssumption DEF Base, TypeOK
  <2> QED BY <2>1, <2>2, WorkerAtWork
<1>3. ASSUME NEW o \in Originals, sends[o] > 0, Current = submit(o), w.order = o,
             w.pc = "save_result"
      PROVE  /\ w.snap.status \in ResultStatus /\ o \in Order
             /\ orders[o] # NoRow /\ orders[o].status # "CREATED"
  <2>1. o \in Order /\ Current[1] = "submit"
    BY <1>3 DEF Originals, submit
  <2> QED BY <1>2, <1>3, <2>1 DEF OnSubmit, Base, RecordedBeforeSent
<1>4. CASE Save("worker")
  <2> DEFINE u == AfterSave("worker", w, row)
  <2>1. /\ ~SaveRaises(orders[w.order], w.snap) /\ SetTask("worker", u)
        /\ orders' = [orders EXCEPT ![w.order] = row]
    BY <1>4 DEF Save
  <2>2. row \in Snapshot /\ row # NoRow
        /\ (w.snap.status \notin {"CREATED", "SUBMITTING"}
             => row.status \notin {"CREATED", "SUBMITTING"})
    BY <1>2, <2>1, SaveTakes, SnapshotFacts
  <2>3. ASSUME NEW o \in Originals, sends[o] > 0, Current = submit(o), w.order = o,
               w.pc = "save_result"
        PROVE  Decided(orders'[o])
    <3>1. w.snap.status \notin {"CREATED", "SUBMITTING"} /\ orders'[o] = row
      BY <1>2, <1>3, <2>1, <2>3 DEF ResultStatus
    <3> HIDE DEF row
    <3> QED BY <2>2, <3>1 DEF Decided
  <2> HIDE DEF row
  <2>4. \/ u.pc = "place" /\ u.order = w.order /\ w.pc = "save_submitting"
        \/ u.pc \in {"sent", "po_fallback", "po_wait", "enqueue", "abandon", "save_canceled",
                     "c_lookup"}
    BY <1>1, <1>2, AfterSaveTask
  <2> HIDE DEF u
  <2>5. u.pc \in {"save_submitting", "place"} => sends[u.order] = 0
    BY <2>4 DEF SendInv, WorkerUnsent
  <2>6. u.pc \notin {"idle", "submit"}
    BY <2>4
  <2>7. w.pc \notin {"detail", "recover"}
    BY <1>1 DEF Saving
  <2> QED BY <1>1, <1>2, <2>1, <2>3, <2>5, <2>6, <2>7, SendMoves
<1>5. CASE SaveRefused("worker")
  <2> DEFINE u == AfterSaveRaises("worker", w)
  <2>1. /\ SetTask("worker", u)
        /\ \/ SaveRaises(orders[w.order], w.snap) /\ orders' = orders
           \/ faults'.db = faults.db + 1
    BY <1>5 DEF SaveRefused, DbFault, Base, TypeOK
  <2>2. u.pc \in {"sent", "fail"} /\ (w.pc = "save_result" => u.pc = "fail")
    BY <1>2 DEF AfterSaveRaises, Task
  <2>3. ASSUME NEW o \in Originals, sends[o] > 0, Current = submit(o), w.order = o,
               w.pc = "save_result"
        PROVE  Decided(orders'[o]) \/ (u.pc = "fail" /\ faults'.db >= 1)
    <3>1. CASE SaveRaises(orders[w.order], w.snap) /\ orders' = orders
      <4>1. orders[o] # NoRow /\ orders[o].status # "SUBMITTING"
        BY <1>2, <1>3, <2>3, <3>1, RefusedIsDecided
      <4> QED BY <1>3, <2>3, <3>1, <4>1 DEF Decided
    <3>2. CASE faults'.db = faults.db + 1
      BY <1>2, <2>2, <2>3, <3>2
    <3> QED BY <2>1, <3>1, <3>2
  <2> HIDE DEF u
  <2>4. w.pc \notin {"detail", "recover"}
    BY <1>1 DEF Saving
  <2> QED BY <1>1, <1>2, <2>1, <2>2, <2>3, <2>4, SendMoves
<1> QED BY <1>4, <1>5

LEMMA SendRequests ==
    ASSUME Base, SendInv, RowsForward, EnqueueCancel("worker") \/ CancelOrderRaises("worker")
    PROVE  SendInv'
<1> DEFINE w == task["worker"]
<1>1. /\ UNCHANGED <<sends, batch, phase, blockers, halted>> /\ w.pc \in {"enqueue", "abandon"}
      /\ \/ cmds' = cmds
         \/ \E c \in Command : cmds[c] = "none" /\ cmds' = [cmds EXCEPT ![c] = "PENDING"]
  <2>1. w.pc \in {"enqueue", "abandon"}
    BY DEF EnqueueCancel, CancelOrderRaises
  <2>2. cancel(w.order) \in Command
    BY <2>1, WorkerAtWork, SubmitNames
  <2> QED BY <2>1, <2>2 DEF EnqueueCancel, CancelOrderRaises, EnqueueCommand, store, world, boot
<1>2. w \in Task /\ cmds \in [Command -> CommandState]
  BY <1>1, WorkerAtWork DEF Base, TypeOK
<1>3. PICK t : /\ SetTask("worker", t)
               /\ t \in {[w EXCEPT !.pc = "po_fallback"], [w EXCEPT !.pc = "sent", !.snap = NoRow]}
  BY DEF EnqueueCancel, CancelOrderRaises, Goto
<1>4. t.pc \in {"po_fallback", "sent"}
  BY <1>2, <1>3 DEF Task
<1>5. \A c \in Command : cmds[c] # "none" => cmds'[c] = cmds[c]
  BY <1>1, <1>2
<1> QED BY <1>1, <1>3, <1>4, <1>5, SendMoves

(* Failed writes are only counted.                                         *)
LEMMA FaultsGrow ==
    ASSUME Base, Base'
    PROVE  /\ faults.db \in Nat /\ faults'.db \in Nat
           /\ UNCHANGED faults => faults'.db >= faults.db
           /\ DbFault => faults'.db >= faults.db
           /\ \A n : faults' = [faults EXCEPT !.crash = n] => faults'.db >= faults.db
           /\ \A n : faults' = [faults EXCEPT !.halt = n] => faults'.db >= faults.db
<1>1. faults.db \in Nat /\ faults'.db \in Nat
      /\ faults \in [crash : 0..MaxCrashes, db : 0..MaxDbFaults, halt : 0..MaxHalts]
  BY BoundsAssumption DEF Base, TypeOK
<1>2. DbFault => faults'.db = faults.db + 1
  BY <1>1 DEF DbFault
<1>3. /\ \A n : faults' = [faults EXCEPT !.crash = n] => faults'.db = faults.db
      /\ \A n : faults' = [faults EXCEPT !.halt = n] => faults'.db = faults.db
  BY <1>1
<1> QED BY <1>1, <1>2, <1>3

(* The steps of the others.                                                *)
LEMMA SendIdles ==
    ASSUME Base, Base', SendInv, RowsForward, Poll \/ SkipCommand \/ ClaimRaises
    PROVE  SendInv'
<1>1. /\ UNCHANGED <<sends, cmds, task, phase, blockers, halted>> /\ phase = "running"
      /\ task["worker"].pc = "idle"
      /\ faults' = faults \/ DbFault
  BY DEF Poll, SkipCommand, ClaimRaises, WorkerFree, Idle, store, world, boot
<1>2. faults.db \in Nat /\ faults'.db \in Nat /\ faults'.db >= faults.db
  BY <1>1, FaultsGrow
<1>3. task'["worker"].pc = "idle" /\ (Blocked => Blocked')
  BY <1>1 DEF Blocked
<1> QED BY <1>1, <1>2, <1>3, SendKept

LEMMA SendIntake ==
    ASSUME Base, Base', SendInv, RowsForward, NEW o \in Order, AcceptIntent(o) \/ BlockIntent(o)
    PROVE  SendInv'
<1>1. /\ UNCHANGED <<sends, task, batch, phase, blockers, halted, faults>> /\ phase = "running"
      /\ \/ cmds' = cmds
         \/ cmds[submit(o)] = "none" /\ cmds' = [cmds EXCEPT ![submit(o)] = "PENDING"]
  BY DEF AcceptIntent, BlockIntent, Running, EnqueueCommand, world, boot
<1>2. faults.db \in Nat /\ faults'.db \in Nat /\ faults'.db >= faults.db
  BY <1>1, FaultsGrow
<1>3. \A c \in Command : cmds'[c] = cmds[c] \/ cmds[c] = "none"
  BY <1>1 DEF Base, TypeOK
<1> QED BY <1>1, <1>2, <1>3, SendKept DEF Blocked

LEMMA SendOperator ==
    ASSUME Base, Base', SendInv, RowsForward, Operator \/ CancelOrderRaises("operator")
    PROVE  SendInv'
<1> DEFINE p == task["operator"].order
<1>1. /\ UNCHANGED <<sends, batch, phase, blockers>> /\ phase = "running"
      /\ task'["worker"] = task["worker"]
      /\ \/ cmds' = cmds
         \/ cmds[cancel(p)] = "none" /\ cmds' = [cmds EXCEPT ![cancel(p)] = "PENDING"]
         \/ cmds' = [cmds EXCEPT ![submit(p)] = "ABANDONED"]
      /\ halted' = halted \/ halted' = TRUE \/ blockers \cap PERSISTENT_STATUS_BLOCKERS = {}
      /\ \/ faults' = faults \/ DbFault
         \/ \E n : faults' = [faults EXCEPT !.halt = n]
  <2>1. CASE Save("operator") \/ SaveRefused("operator")
    <3>1. task["operator"].pc # "idle"
      BY <2>1 DEF Save, SaveRefused, Saving
    <3>2. phase = "running"
      BY <3>1 DEF Base, StoppedIsIdle, Idle
    <3> QED BY <2>1, <3>2 DEF Save, SaveRefused, SetTask, world, Base, TypeOK
  <2>2. CASE AbandonSubmit \/ EnqueueCancel("operator") \/ CancelOrderRaises("operator")
    <3>1. task["operator"].pc # "idle"
      BY <2>2 DEF AbandonSubmit, EnqueueCancel, CancelOrderRaises
    <3>2. phase = "running"
      BY <3>1 DEF Base, StoppedIsIdle, Idle
    <3> QED BY <2>2, <3>2 DEF AbandonSubmit, EnqueueCancel, CancelOrderRaises, EnqueueCommand,
               SetTask, Goto, store, world, boot, Base, TypeOK
  <2>3. CASE Halt \/ Resume
    BY <2>3 DEF Halt, Resume, Running, store, world, boot
  <2>4. CASE \E o \in Order : RequestCancel(o) \/ ResolveStuckSubmission(o)
    BY <2>4 DEF RequestCancel, ResolveStuckSubmission, BeginCancel, Running, SetTask, store, world,
       boot, Base, TypeOK
  <2> QED BY <2>1, <2>2, <2>3, <2>4 DEF Operator
<1>2. faults.db \in Nat /\ faults'.db \in Nat /\ faults'.db >= faults.db
  BY <1>1, FaultsGrow
<1>3. \A c \in Command : \/ cmds'[c] = cmds[c] \/ cmds[c] = "none"
                         \/ cmds'[c] = "ABANDONED"
  BY <1>1 DEF Base, TypeOK
<1>4. Blocked => Blocked'
  BY <1>1 DEF Blocked
<1> QED BY <1>1, <1>2, <1>3, <1>4, SendKept

LEMMA SendEnvironment ==
    ASSUME Base, Base', SendInv, RowsForward, Sync \/ Environment \/ UNCHANGED vars
    PROVE  SendInv'
<1>1. /\ UNCHANGED <<sends, cmds, task, batch, phase, blockers, halted>>
      /\ faults' = faults \/ DbFault
  <2>1. CASE Sync
    BY <2>1 DEF Sync, SyncCollect, SyncAnswered, SyncFails, SyncSkips, SyncSaves, SyncAborts,
       SyncAsked, SyncFree, store, world, boot
  <2>2. CASE Environment \/ UNCHANGED vars
    BY <2>2 DEF Environment, VenueFill, VenueCancels, LateArrival, vars, store, world, boot
  <2> QED BY <2>1, <2>2
<1>2. faults.db \in Nat /\ faults'.db \in Nat /\ faults'.db >= faults.db
  BY <1>1, FaultsGrow
<1> QED BY <1>1, <1>2, SendKept DEF Blocked

(* A restart finds a CLAIMED submit of an undecided order and blocks.      *)
LEMMA SendBoots ==
    ASSUME Base, Base', SendInv, UndecidedHasNoId, RowsForward, Crash \/ Boot
    PROVE  SendInv'
<1>1. CASE ~FinishRecovery
  <2>1. /\ UNCHANGED <<sends, cmds, halted, blockers>> /\ phase' # "running"
        /\ task'["worker"].pc = "idle"
        /\ \/ faults' = faults
           \/ \E n : faults' = [faults EXCEPT !.crash = n]
    <3>1. CASE Crash
      BY <3>1 DEF Crash, Idle, store, world
    <3>2. CASE Boot
      <4>1. phase # "running"
        BY <3>2 DEF Boot, Restart, ReconcileResolved, ReconcileUnreachable, FinishRecovery
      <4>2. task["worker"].pc = "idle"
        BY <4>1 DEF Base, StoppedIsIdle, Idle
      <4> QED BY <1>1, <3>2, <4>1, <4>2 DEF Boot, Restart, ReconcileResolved,
                 ReconcileUnreachable, store, world, boot
    <3> QED BY <3>1, <3>2
  <2>2. faults.db \in Nat /\ faults'.db \in Nat /\ faults'.db >= faults.db
    BY <2>1, FaultsGrow
  <2> QED BY <2>1, <2>2, SendKept
<1>2. CASE FinishRecovery
  <2> DEFINE B == RecoveryBlockers(orders, [o \in Order |-> cmds[submit(o)]],
                      {c \in Command : cmds[c] \in {"PENDING", "CLAIMED"}}, reconciled)
  <2>1. /\ UNCHANGED <<orders, sends, cmds, task>> /\ task["worker"].pc = "idle"
        /\ blockers' = B /\ (B # {} => halted')
    <3>1. /\ UNCHANGED <<orders, sends, cmds, task>> /\ phase # "running" /\ blockers' = B
          /\ (blockers' # {} => halted')
      BY <1>2 DEF FinishRecovery, store, world
    <3> HIDE DEF B
    <3> QED BY <3>1 DEF Base, StoppedIsIdle, Idle
  <2> HIDE DEF B
  <2>2. NoResend' /\ WorkerUnsent'
    BY <2>1 DEF SendInv, NoResend, WorkerUnsent
  <2>3. ASSUME NEW o \in Originals, sends'[o] > 0
        PROVE  SentInHand(o)'
    <3>1. /\ o \in Order /\ cmds[submit(o)] \notin {"none", "PENDING"} /\ orders[o] # NoRow
      BY <2>1, <2>3 DEF Originals, SendInv, SentInHand, Base, RecordedBeforeSent
    <3>2. CASE cmds[submit(o)] # "CLAIMED" \/ Decided(orders[o])
      BY <2>1, <3>1, <3>2 DEF SentInHand
    <3>3. CASE cmds[submit(o)] = "CLAIMED" /\ ~Decided(orders[o])
      <4>1. /\ orders[o] \in Snapshot /\ Known(o, orders[o])
            /\ orders[o].status \in {"CREATED", "SUBMITTING"}
        BY <3>1, <3>3 DEF Base, TypeOK, Known, RowIs, Decided
      <4>2. IsStuck(orders[o])
        BY <3>1, <4>1 DEF UndecidedHasNoId, HasNoId, UndecidedStatus, IsStuck
      <4>3. B \cap PERSISTENT_STATUS_BLOCKERS # {}
        BY <3>1, <3>3, <4>2, RecoveryBlocks DEF B, Base
      <4>4. Blocked'
        BY <2>1, <4>3 DEF Blocked
      <4> QED BY <2>1, <3>1, <4>4 DEF SentInHand
    <3> QED BY <3>2, <3>3
  <2> QED BY <2>2, <2>3 DEF SendInv
<1> QED BY <1>1, <1>2

LEMMA SendInvStep ==
    ASSUME Base, Base', SendInv, UndecidedHasNoId, [Next]_vars, faults'.db <= 1
    PROVE  SendInv'
<1>1. RowsForward
  BY RowsGoForward
<1>2. CASE Worker
  BY <1>1, <1>2, SendIdles, SendClaims, SendMarks, SendSaves, SendSubmits, SendSends,
     SendPostOnly, SendRequests, SendCancels DEF Worker
<1>3. ASSUME NEW o \in Order, AcceptIntent(o) \/ BlockIntent(o)
      PROVE  SendInv'
  BY <1>1, <1>3, SendIntake
<1>4. ASSUME NEW a \in {"worker", "operator"}, CancelOrderRaises(a)
      PROVE  SendInv'
  BY <1>1, <1>4, SendRequests, SendOperator
<1>5. CASE ClaimRaises \/ MarkRaises
  BY <1>1, <1>5, SendIdles, SendMarkRaises
<1>6. CASE Operator \/ Sync \/ Environment \/ UNCHANGED vars
  BY <1>1, <1>6, SendOperator, SendEnvironment
<1>7. CASE Crash \/ Boot
  BY <1>1, <1>7, SendBoots
<1> QED BY <1>2, <1>3, <1>4, <1>5, <1>6, <1>7 DEF Next

LEMMA DbFaultsGrow ==
    ASSUME Base, Base', [Next]_vars
    PROVE  faults.db \in Nat /\ faults'.db \in Nat /\ faults'.db >= faults.db
<1>1. \/ faults' = faults \/ DbFault
      \/ \E n : faults' = [faults EXCEPT !.halt = n]
      \/ \E n : faults' = [faults EXCEPT !.crash = n]
  <2>1. CASE \/ ClaimRaises \/ MarkRaises \/ Sync \/ Crash \/ Boot \/ Environment
             \/ UNCHANGED vars
    BY <2>1 DEF ClaimRaises, MarkRaises, Sync, SyncCollect, SyncAnswered, SyncFails, SyncSkips,
       SyncAsked, SyncSaves, SyncAborts, Crash, Boot, Restart, ReconcileResolved,
       ReconcileUnreachable, FinishRecovery, Environment, VenueFill, VenueCancels, LateArrival,
       vars
  <2>2. CASE \/ \E o \in Order : AcceptIntent(o) \/ BlockIntent(o)
             \/ \E a \in {"worker", "operator"} : CancelOrderRaises(a)
             \/ Operator
    BY <2>2 DEF AcceptIntent, BlockIntent, CancelOrderRaises, Operator, RequestCancel,
       ResolveStuckSubmission, Save, SaveRefused, AbandonSubmit, EnqueueCancel, Halt, Resume
  <2>3. CASE Worker
    BY <2>3 DEF Worker, Poll, SkipCommand, ClaimCommand, MarkSent, MarkAcked, MarkFailed,
       FinishCommand, Save, SaveRefused, SubmitDecided, SubmitBlocked, SubmitProceeds,
       PlaceDeclined, PlaceAccepted, PlaceRejected, PlaceTimesOut, ReadDetail, RecoverSubmit,
       PostOnlyTimeout, PostOnlyFallback, EnqueueCancel, ProcessCancel, CancelLookup,
       CancelAccepted, CancelRejected, CancelTimesOut, CancelDetail, RecoverCancel
  <2> QED BY <2>1, <2>2, <2>3 DEF Next
<1> QED BY <1>1, FaultsGrow

(* The placement of an order is sent at most once, however often the       *)
(* process crashes, restarts, polls and is resumed, as long as at most one *)
(* database write has failed: process_submit_command, claim_command and    *)
(* the blockers of startup recovery together.  (When the save of an answer *)
(* and then mark_failed both fail, the submit stays CLAIMED in a process   *)
(* that is not restarted, and the next poll carries it out again.)         *)
THEOREM SentAtMostOnce == Spec => [](faults.db <= 1 => NoResend)
<1> DEFINE Inv == UndecidedHasNoId /\ (faults.db <= 1 => SendInv)
<1>1. Init => Inv
  <2> SUFFICES ASSUME Init PROVE Inv
    OBVIOUS
  <2>1. ASSUME NEW o \in Order, NEW s \in Snapshot PROVE ~Known(o, s)
    BY EmptySeq DEF Init, Known, RowIs, ListHas, WorkerHas, OperatorHas, Idle, SnapPc, Saving
  <2>2. SendInv
    BY DEF Init, SendInv, NoResend, WorkerUnsent, Idle, Originals
  <2> QED BY <2>1, <2>2 DEF UndecidedHasNoId
<1>2. Base /\ Base' /\ Inv /\ [Next]_vars => Inv'
  <2> SUFFICES ASSUME Base, Base', Inv, [Next]_vars PROVE Inv'
    OBVIOUS
  <2>1. UndecidedHasNoId'
    BY UndecidedHasNoIdStep
  <2>2. ASSUME faults'.db <= 1 PROVE SendInv'
    <3>1. faults.db <= 1
      BY <2>2, DbFaultsGrow
    <3> QED BY <2>2, <3>1, SendInvStep
  <2> QED BY <2>1, <2>2
<1>3. Inv => (faults.db <= 1 => NoResend)
  BY DEF SendInv
<1> QED BY <1>1, <1>2, <1>3, Invariant, PTL DEF Spec

------------------------------------------------------------------------------
(* Every snapshot of an order is of the order's size *)

(* q is the size of the order o: that of its row; before there is a row,   *)
(* that of an intent, or that of the fallback the worker is about to       *)
(* record.                                                                 *)
Sized(o, q) ==
    /\ q > 0
    /\ IF orders[o] # NoRow THEN q = orders[o].requested_qty
       ELSE \/ o \in Originals /\ q = Qty
            \/ /\ o \notin Originals /\ WorkerAt(o, {"save_submitting"})
               /\ q = task["worker"].qty

WorkerSized(t, rows, v) ==
    /\ t.pc = "submit" => t.qty = Qty
    /\ t.pc = "save_submitting" => t.snap.requested_qty = t.qty
    /\ t.pc \in {"place", "detail", "recover"} => rows[t.order].requested_qty = t.qty
    /\ t.pc = "save_result" => rows[t.order] # NoRow
    /\ t.pc \in {"detail", "c_detail"} => v[t.order].state # "none"
WorkerIsSized == WorkerSized(task["worker"], orders, venue)
VenueSized(v, rows) ==
    \A o \in Order : v[o].state # "none" => rows[o] # NoRow /\ v[o].qty = rows[o].requested_qty
WireSized(r, rows) ==
    \A x \in r : rows[x[1]] # NoRow /\ x[2] = rows[x[1]].requested_qty

SizeInv ==
    /\ \A o \in Order : \A s \in Snapshot : Known(o, s) => Sized(o, s.requested_qty)
    /\ \A o \in Originals : orders[o] # NoRow => orders[o].requested_qty = Qty
    /\ VenueSized(venue, orders) /\ WireSized(wire, orders)
    /\ WorkerIsSized

LEMMA SaveSize ==
    ASSUME NEW r \in Snapshot \cup {NoRow}, NEW i \in Snapshot, i.requested_qty > 0,
           r # NoRow => r.requested_qty = i.requested_qty
    PROVE  SaveResult(r, i).requested_qty = i.requested_qty
<1>1. r \in OrderState \cup {NoRow} /\ i \in OrderState
  BY SnapshotFacts
<1> QED BY <1>1, SaveValues

(* An order at one of these steps has a row.                               *)
LEMMA WorkerRow ==
    ASSUME Base, task["worker"].pc \in {"submit", "place", "detail", "recover"}
    PROVE  /\ task["worker"].order \in Order /\ orders[task["worker"].order] # NoRow
           /\ orders[task["worker"].order] \in Snapshot
           /\ task["worker"].pc = "submit" => task["worker"].order \in Originals
<1> DEFINE w == task["worker"]
<1>1. /\ w.order \in Order /\ Current[1] = "submit" /\ OnSubmit(w, Current[2], orders, cmds)
      /\ Current[2] \in Order /\ Current = submit(Current[2]) /\ cmds[Current] # "none"
      /\ orders \in [Order -> Snapshot \cup {NoRow}]
  BY WorkerOnSubmit, WorkerAtWork DEF SubmitPc, submit, Base, TypeOK
<1>2. CASE w.pc = "submit"
  <2>1. w.order = Current[2]
    BY <1>1, <1>2 DEF OnSubmit, FallbackPc
  <2> QED BY <1>1, <2>1 DEF Base, CommandsKnown
<1>3. CASE w.pc # "submit"
  BY <1>1, <1>3 DEF OnSubmit, Recorded
<1> QED BY <1>2, <1>3

(* The row's own size.                                                     *)
LEMMA RowSized ==
    ASSUME Base, SizeInv, NEW o \in Order, orders[o] # NoRow
    PROVE  orders[o] \in Snapshot /\ orders[o].requested_qty > 0
           /\ Sized(o, orders[o].requested_qty)
  BY DEF Base, TypeOK, SizeInv, Known, RowIs, Sized

FallbackDue(o) == task["worker"].pc = "po_fallback" /\ orders[o] = NoRow /\ o \notin Originals

LEMMA SourceSized ==
    ASSUME Base, SizeInv, NEW o \in Order, NEW k \in Snapshot, Source(o, k)
    PROVE  Sized(o, k.requested_qty) \/ FallbackDue(o)
<1> DEFINE w == task["worker"]
<1>1. orders[o] \in Snapshot \cup {NoRow}
  BY DEF Base, TypeOK
<1>2. CASE Known(o, k)
  BY <1>2 DEF SizeInv
<1>3. CASE Mapped(o, k)
  <2>1. venue[o].state # "none" /\ k.requested_qty = venue[o].qty
    BY <1>3 DEF Mapped, MapOrderState, WorkerAt, SizeInv, WorkerIsSized, WorkerSized
  <2> QED BY <2>1, RowSized DEF SizeInv, VenueSized
<1>4. CASE Built(o, k)
  <2>1. /\ w.order = o /\ w.pc \in {"submit", "place", "detail", "recover"}
        /\ k.requested_qty = IF w.pc = "submit" THEN Qty ELSE w.qty
    BY <1>4 DEF Built, WorkerAt, IntentState, SubmittedState, SubmissionUnknown
  <2>2. orders[o] # NoRow /\ k.requested_qty = orders[o].requested_qty
    BY <2>1, WorkerRow DEF SizeInv, WorkerIsSized, WorkerSized
  <2> QED BY <2>2, RowSized
<1>5. CASE Submitting(o, k)
  <2>1. CASE WorkerAt(o, {"submit"}) /\ k = SubmittingState(o, Qty)
    <3>1. orders[o] # NoRow /\ o \in Originals /\ orders[o] \in Snapshot
      BY <2>1, WorkerRow DEF WorkerAt
    <3>2. k.requested_qty = Qty /\ orders[o].requested_qty = Qty
      BY <2>1, <3>1 DEF SubmittingState, SizeInv, Snapshot
    <3> QED BY <3>1, <3>2, RowSized
  <2>2. CASE ~WorkerAt(o, {"submit"})
    BY <1>5, <2>2 DEF Submitting, FallbackDue, Originals
  <2> QED BY <1>5, <2>1, <2>2 DEF Submitting, WorkerAt
<1>6. CASE Saved(o, k)
  <2>1. PICK i \in Snapshot : Known(o, i) /\ k = SaveResult(orders[o], i)
    BY <1>6 DEF Saved
  <2>2. Sized(o, i.requested_qty)
    BY <2>1 DEF SizeInv
  <2>3. k.requested_qty = i.requested_qty
    BY <1>1, <2>1, <2>2, SaveSize DEF Sized
  <2> QED BY <2>2, <2>3
<1>7. CASE Fresh(o, k)
  <2>1. PICK st \in {"CREATED", "BLOCKED"}, e \in {"none", "other"} :
            k = Normalize(IntentState(st, Qty, e))
    BY <1>7 DEF Fresh
  <2> DEFINE i == IntentState(st, Qty, e)
  <2>2. i \in Snapshot /\ i.requested_qty = Qty /\ Qty > 0
    <3>1. st \in OrderLifecycleStatus /\ e \in ExecutionError /\ Qty \in 1..Qty /\ Qty > 0
      BY BoundsAssumption DEF OrderLifecycleStatus, TERMINAL_ORDER_STATES, OPEN_ORDER_STATES,
         ExecutionError
    <3>2. i \in Snapshot
      BY <3>1, BuiltSnapshots
    <3> QED BY <3>1, <3>2 DEF IntentState
  <2>3. k = SaveResult(NoRow, i)
    BY <2>1 DEF SaveResult
  <2> HIDE DEF i
  <2>4. k.requested_qty = Qty
    BY <2>2, <2>3, SaveSize
  <2> QED BY <1>7, <2>2, <2>4 DEF Fresh, Sized
<1>8. CASE Reconciled(o, k)
  <2> DEFINE r == ResolvedOrderState(o, orders[o], venue[o])
  <2>1. o \in unresolved /\ venue[o].state # "none" /\ k = SaveResult(orders[o], r)
    BY <1>8 DEF Reconciled
  <2>2. /\ orders[o] \in Snapshot /\ orders[o] # NoRow /\ r \in Snapshot
        /\ \/ r = [orders[o] EXCEPT !.status = "SUBMITTED", !.exchange_order_id = o]
           \/ r = [orders[o] EXCEPT !.status = "CANCELED", !.exchange_order_id = o]
           \/ r = [orders[o] EXCEPT !.status = "FILLED", !.exchange_order_id = o,
                      !.filled_qty = Greatest(orders[o].filled_qty, venue[o].filled),
                      !.remaining_qty = 0]
    BY <2>1, ResolvedSnapshot
  <2>3. r.requested_qty = orders[o].requested_qty
    BY <2>2 DEF Snapshot
  <2> HIDE DEF r
  <2>4. k.requested_qty = orders[o].requested_qty
    BY <2>1, <2>2, <2>3, RowSized, SaveSize
  <2> QED BY <2>2, <2>4, RowSized
<1> QED BY <1>2, <1>3, <1>4, <1>5, <1>6, <1>7, <1>8 DEF Source

(* Rows keep their size.                                                   *)
LEMMA RowSizesKept ==
    ASSUME Base, Base', SizeInv, [Next]_vars, NEW o \in Order, orders'[o] # NoRow
    PROVE  /\ orders[o] # NoRow => orders'[o].requested_qty = orders[o].requested_qty
           /\ Sized(o, orders'[o].requested_qty)
<1>1. orders'[o] \in Snapshot
  BY DEF Base, TypeOK
<1>2. RowStepOf(o)
  BY RowStepHolds
<1>3. CASE orders'[o] = orders[o]
  BY <1>3, RowSized
<1>4. CASE orders'[o] # orders[o]
  <2>1. Source(o, orders'[o])
    BY <1>2, <1>4 DEF RowStepOf, Source
  <2>2. ~FallbackDue(o)
    <3> SUFFICES ASSUME FallbackDue(o) PROVE FALSE
      OBVIOUS
    <3>1. PICK i \in Snapshot : Known(o, i)
      BY <1>2, <1>4 DEF RowStepOf, FallbackDue, Saved, Fresh, Reconciled, Base, PrebootBlocked
    <3>2. Sized(o, i.requested_qty)
      BY <3>1 DEF SizeInv
    <3> QED BY <3>2 DEF Sized, FallbackDue, WorkerAt
  <2>3. Sized(o, orders'[o].requested_qty)
    BY <1>1, <2>1, <2>2, SourceSized
  <2> QED BY <2>3 DEF Sized
<1> QED BY <1>3, <1>4

(* A snapshot of an order without a row is that of a fallback the worker   *)
(* is about to record.                                                     *)
LEMMA NoRowKnown ==
    ASSUME Base, WorkerIsSized, NEW o \in Order, NEW s, Known(o, s), orders[o] = NoRow
    PROVE  /\ o \notin Originals /\ WorkerAt(o, {"save_submitting"})
           /\ task["worker"].snap = s
<1> DEFINE w == task["worker"]
<1>1. WorkerHas(o, s)
  <2>1. ~ListHas(syncTodo, o, s) /\ ~ListHas(syncSave, o, s)
    BY DEF ListHas, Base, SyncOK
  <2>2. ~OperatorHas(o, s)
    BY DEF OperatorHas, Base, OperatorOK
  <2> QED BY <2>1, <2>2 DEF Known, RowIs
<1>2. w.pc \in SnapPc /\ w.order = o /\ w.snap = s
  BY <1>1 DEF WorkerHas
<1>3. /\ Current[2] \in Order /\ Current = <<Current[1], Current[2]>> /\ cmds[Current] # "none"
      /\ Current[1] \in {"submit", "cancel"}
      /\ Current[1] = "cancel" => OnCancel(w, Current[2], orders)
      /\ Current[1] = "submit" => OnSubmit(w, Current[2], orders, cmds)
  BY <1>2, WorkerAtWork DEF SnapPc, Saving
<1>4. Current[1] = "submit" /\ OnSubmit(w, Current[2], orders, cmds)
  BY <1>2, <1>3 DEF OnCancel
<1>5. orders[Current[2]] # NoRow
  BY <1>3, <1>4 DEF Base, CommandsKnown, submit
<1>6. /\ Current[2] \in PostOnly /\ o = FallbackOf[Current[2]] /\ w.pc \in FallbackPc
  BY <1>2, <1>4, <1>5 DEF OnSubmit
<1>7. w.pc \in {"save_submitting", "save_result"}
  BY <1>2, <1>6 DEF FallbackPc, SnapPc, Saving
<1>8. w.pc = "save_submitting"
  BY <1>2, <1>7 DEF WorkerIsSized, WorkerSized
<1> QED BY <1>2, <1>6, <1>8 DEF Originals, WorkerAt

NoRowIsFallback ==
    \A o \in Order : \A s \in Snapshot :
        Known(o, s) /\ orders[o] = NoRow =>
            /\ o \notin Originals /\ WorkerAt(o, {"save_submitting"})
            /\ task["worker"].snap = s

LEMMA NoRowFallback == Base /\ WorkerIsSized => NoRowIsFallback
  BY NoRowKnown DEF NoRowIsFallback
LEMMA NoRowFallbackNext == Base' /\ WorkerIsSized' => NoRowIsFallback'
  BY NoRowFallback, PTL

(* The snapshots of the next state, given the worker's.                    *)
LEMMA KnownSized ==
    ASSUME Base, Base', SizeInv, [Next]_vars,
           WorkerIsSized',
           NEW o \in Order, NEW s \in Snapshot, Known(o, s)'
    PROVE  Sized(o, s.requested_qty)'
<1>1. PICK k \in Snapshot : Source(o, k) /\ Edited(o, k, s)
  BY Origin DEF Derived
<1>2. s.requested_qty = k.requested_qty
  BY <1>1 DEF Edited
<1>3. Sized(o, s.requested_qty) \/ FallbackDue(o)
  BY <1>1, <1>2, SourceSized
<1>4. CASE orders'[o] # NoRow
  <2>1. Sized(o, orders'[o].requested_qty)
    BY <1>4, RowSizesKept
  <2>2. ~FallbackDue(o)
    BY <2>1 DEF Sized, FallbackDue, WorkerAt
  <2> QED BY <1>3, <1>4, <2>1, <2>2 DEF Sized
<1>5. CASE orders'[o] = NoRow
  <2>1. /\ o \notin Originals /\ task'["worker"].pc = "save_submitting"
        /\ task'["worker"].order = o /\ task'["worker"].snap = s
    BY <1>5, NoRowFallbackNext DEF NoRowIsFallback, WorkerAt
  <2>2. s.requested_qty = task'["worker"].qty
    BY <2>1 DEF WorkerIsSized, WorkerSized
  <2>3. task'["worker"].qty > 0
    BY <2>1 DEF Base, WorkerOK
  <2> QED BY <1>5, <2>1, <2>2, <2>3 DEF Sized, WorkerAt
<1> QED BY <1>4, <1>5

(* What happens to an order at the exchange in a step: nothing; it is      *)
(* booked; a cancel is accepted or takes effect; it is filled by one lot.  *)
VenueStepOf(o) ==
    \/ venue'[o] = venue[o]
    \/ /\ venue[o].state = "none"
       /\ \E q : /\ \/ PlaceAccepted /\ WorkerAt(o, {"place"}) /\ q = task["worker"].qty
                    \/ <<o, q>> \in wire
                 /\ venue'[o] = [state |-> "live", qty |-> q, filled |-> 0]
    \/ /\ Resting(venue[o]) /\ venue'[o].qty = venue[o].qty
       /\ \/ /\ venue'[o].filled = venue[o].filled
             /\ venue'[o].state \in {"canceling", "canceled"}
          \/ /\ venue'[o].filled = venue[o].filled + 1
             /\ venue'[o].state = IF venue'[o].filled = venue[o].qty
                                  THEN "filled" ELSE venue[o].state

LEMMA BookStep ==
    ASSUME Base, NEW p \in Order, NEW q, Book(p, q), venue[p].state = "none",
           \/ PlaceAccepted /\ WorkerAt(p, {"place"}) /\ q = task["worker"].qty
           \/ <<p, q>> \in wire,
           NEW o \in Order
    PROVE  VenueStepOf(o)
<1>1. venue' = [venue EXCEPT ![p] = [state |-> "live", qty |-> q, filled |-> 0]]
      /\ venue \in [Order -> [state : VenueState, qty : 0..Qty, filled : 0..Qty]]
  BY DEF Book, Base, TypeOK
<1>2. CASE o = p
  BY <1>1, <1>2 DEF VenueStepOf
<1>3. CASE o # p
  BY <1>1, <1>3 DEF VenueStepOf
<1> QED BY <1>2, <1>3

LEMMA VenueStepHolds ==
    ASSUME Base, [Next]_vars, NEW o \in Order
    PROVE  VenueStepOf(o)
<1>1. CASE venue' = venue
  BY <1>1 DEF VenueStepOf
<1>2. venue \in [Order -> [state : VenueState, qty : 0..Qty, filled : 0..Qty]]
      /\ wire \subseteq Order \X (1..Qty)
  BY DEF Base, TypeOK
<1>3. CASE PlaceAccepted
  <2>1. /\ task["worker"].pc = "place" /\ Book(task["worker"].order, task["worker"].qty)
        /\ venue[task["worker"].order].state = "none"
    BY <1>3 DEF PlaceAccepted, Placing, At
  <2>2. task["worker"].order \in Order
    BY <2>1, WorkerAtWork
  <2> QED BY <1>3, <2>1, <2>2, BookStep DEF WorkerAt
<1>4. CASE CancelAccepted
  <2>1. /\ Resting(venue[task["worker"].order])
        /\ venue' = [venue EXCEPT ![task["worker"].order].state = "canceling"]
    BY <1>4 DEF CancelAccepted
  <2>2. CASE o = task["worker"].order
    BY <1>2, <2>1, <2>2 DEF VenueStepOf
  <2>3. CASE o # task["worker"].order
    BY <1>2, <2>1, <2>3 DEF VenueStepOf
  <2> QED BY <2>2, <2>3
<1>5. ASSUME NEW p \in Order, VenueFill(p)
      PROVE  VenueStepOf(o)
  <2>1. /\ Resting(venue[p])
        /\ venue' = [venue EXCEPT ![p].filled = venue[p].filled + 1,
                        ![p].state = IF venue[p].filled + 1 = venue[p].qty THEN "filled" ELSE @]
    BY <1>5 DEF VenueFill
  <2>2. CASE o = p
    BY <1>2, <2>1, <2>2 DEF VenueStepOf
  <2>3. CASE o # p
    BY <1>2, <2>1, <2>3 DEF VenueStepOf
  <2> QED BY <2>2, <2>3
<1>6. ASSUME NEW p \in Order, VenueCancels(p)
      PROVE  VenueStepOf(o)
  <2>1. CASE o = p
    BY <1>2, <1>6, <2>1 DEF VenueCancels, VenueStepOf
  <2>2. CASE o # p
    BY <1>2, <1>6, <2>2 DEF VenueCancels, VenueStepOf
  <2> QED BY <2>1, <2>2
<1>7. ASSUME NEW p \in Order, LateArrival(p)
      PROVE  VenueStepOf(o)
  <2>1. PICK x \in wire :
            x[1] = p /\ IF venue[p].state = "none" THEN Book(p, x[2]) ELSE UNCHANGED venue
    BY <1>7 DEF LateArrival
  <2>2. <<p, x[2]>> \in wire
    BY <1>2, <2>1
  <2> QED BY <1>1, <2>1, <2>2, BookStep
<1>8. CASE Worker /\ ~PlaceAccepted /\ ~CancelAccepted
  <2>1. venue' = venue
    BY <1>8 DEF Worker, Poll, SkipCommand, ClaimCommand, MarkSent, MarkAcked, MarkFailed,
       FinishCommand, Save, SaveRefused, SubmitDecided, SubmitBlocked, SubmitProceeds,
       PlaceDeclined, PlaceRejected, PlaceTimesOut, ReadDetail, RecoverSubmit,
       PostOnlyTimeout, PostOnlyFallback, EnqueueCancel, ProcessCancel, CancelLookup,
       CancelRejected, CancelTimesOut, CancelDetail, RecoverCancel, world
  <2> QED BY <1>1, <2>1
<1>9. CASE \/ \E p \in Order : AcceptIntent(p) \/ BlockIntent(p)
           \/ \E a \in {"worker", "operator"} : CancelOrderRaises(a)
           \/ Operator
  <2>1. venue' = venue
    BY <1>9 DEF AcceptIntent, BlockIntent, CancelOrderRaises, Operator, RequestCancel,
       ResolveStuckSubmission, Save, SaveRefused, AbandonSubmit, EnqueueCancel, Halt, Resume,
       world
  <2> QED BY <1>1, <2>1
<1>10. CASE \/ ClaimRaises \/ MarkRaises \/ Sync \/ Crash \/ Boot \/ UNCHANGED vars
  <2>1. venue' = venue
    BY <1>10 DEF ClaimRaises, MarkRaises, Sync, SyncCollect, SyncAnswered, SyncFails, SyncSkips,
       SyncAsked, SyncSaves, SyncAborts, Crash, Boot, Restart, ReconcileResolved,
       ReconcileUnreachable, FinishRecovery, vars, world
  <2> QED BY <1>1, <2>1
<1> QED BY <1>3, <1>4, <1>5, <1>6, <1>7, <1>8, <1>9, <1>10 DEF Next, Environment

(* An order at the exchange is not forgotten there, and its fills stay.    *)
LEMMA VenueForward ==
    ASSUME Base, [Next]_vars, NEW o \in Order
    PROVE  /\ venue[o].state # "none" =>
                venue'[o].state # "none" /\ venue'[o].qty = venue[o].qty
           /\ venue[o].state = "filled" => venue'[o] = venue[o]
           /\ venue[o].state \notin {"live", "canceling", "none"} => venue'[o] = venue[o]
<1>1. venue[o] \in [state : VenueState, qty : 0..Qty, filled : 0..Qty]
  BY DEF Base, TypeOK
<1>2. VenueStepOf(o)
  BY VenueStepHolds
<1> QED BY <1>1, <1>2 DEF VenueStepOf, Resting, VenueState

(* The worker's next task t is of the order's size.                        *)
LEMMA WorkerSizedStep ==
    ASSUME Base, Base', SizeInv, [Next]_vars, NEW t, task'["worker"] = t, t.order \in Order,
           t.pc = "submit" => t.qty = Qty,
           t.pc = "save_submitting" => t.snap.requested_qty = t.qty,
           t.pc \in {"place", "detail", "recover"} =>
                orders'[t.order] # NoRow /\ orders'[t.order].requested_qty = t.qty,
           t.pc = "save_result" => orders[t.order] # NoRow,
           t.pc \in {"detail", "c_detail"} =>
                venue[t.order].state # "none" \/ venue'[t.order].state # "none"
    PROVE  WorkerIsSized'
<1>1. orders[t.order] # NoRow => orders'[t.order] # NoRow
  BY RowsGoForward DEF RowsForward, Forward
<1>2. venue[t.order].state # "none" => venue'[t.order].state # "none"
  BY VenueForward
<1> QED BY <1>1, <1>2 DEF WorkerIsSized, WorkerSized

LEMMA WorkerSizedKept ==
    ASSUME Base, Base', SizeInv, [Next]_vars,
           task'["worker"] = task["worker"] \/ task'["worker"].pc = "idle"
    PROVE  WorkerIsSized'
<1> DEFINE w == task["worker"]
<1>1. CASE task'["worker"].pc = "idle"
  BY <1>1 DEF WorkerIsSized, WorkerSized
<1>2. CASE task'["worker"] = w /\ w.pc # "idle"
  <2>1. w.order \in Order
    BY <1>2, WorkerAtWork
  <2>2. w.pc \in {"place", "detail", "recover"} =>
            orders'[w.order] # NoRow /\ orders'[w.order].requested_qty = w.qty
    <3> SUFFICES ASSUME w.pc \in {"place", "detail", "recover"}
                 PROVE  orders'[w.order] # NoRow /\ orders'[w.order].requested_qty = w.qty
      OBVIOUS
    <3>1. orders[w.order] # NoRow /\ orders[w.order].requested_qty = w.qty
      BY WorkerRow DEF SizeInv, WorkerIsSized, WorkerSized
    <3>2. orders'[w.order] # NoRow
      BY <2>1, <3>1, RowsGoForward DEF RowsForward, Forward
    <3> QED BY <2>1, <3>1, <3>2, RowSizesKept
  <2> QED BY <1>2, <2>1, <2>2, WorkerSizedStep DEF SizeInv, WorkerIsSized, WorkerSized
<1> QED BY <1>1, <1>2

(* The worker goes on with its order, to a step that says nothing of sizes *)
(* or has a snapshot to save.                                              *)
LEMMA WorkerSizedGoes ==
    ASSUME Base, Base', SizeInv, [Next]_vars, task["worker"].pc # "idle", NEW pc, NEW k,
           GotoWith("worker", pc, k) \/ Goto("worker", pc),
           pc \notin {"submit", "save_submitting", "place", "detail", "recover", "c_detail"},
           pc = "save_result" => orders[task["worker"].order] # NoRow
    PROVE  WorkerIsSized'
<1> DEFINE w == task["worker"]
<1>1. PICK t : /\ SetTask("worker", t)
               /\ t \in {[w EXCEPT !.pc = pc, !.snap = k], [w EXCEPT !.pc = pc]}
  BY DEF GotoWith, Goto
<1>2. w \in Task /\ w.order \in Order
  BY WorkerAtWork
<1>3. t.pc = pc /\ t.order = w.order /\ task'["worker"] = t
  BY <1>1, <1>2 DEF Task, SetTask, Base, TypeOK
<1> QED BY <1>2, <1>3, WorkerSizedStep

LEMMA WorkerSizedSubmits ==
    ASSUME Base, Base', SizeInv, [Next]_vars,
           SubmitDecided \/ SubmitBlocked \/ SubmitProceeds \/ PlaceDeclined \/ PlaceRejected
           \/ ReadDetail \/ RecoverSubmit
    PROVE  WorkerIsSized'
<1> DEFINE w == task["worker"]
<1>1. CASE SubmitDecided \/ SubmitBlocked
  <2>1. /\ w.pc = "submit"
        /\ Goto("worker", "sent") \/ \E k : GotoWith("worker", "save_blocked", k)
    BY <1>1 DEF SubmitDecided, SubmitBlocked, SubmitDue, At
  <2> QED BY <2>1, WorkerSizedGoes
<1>2. CASE SubmitProceeds
  <2> DEFINE k == SubmittingState(w.order, Qty)
             t == [w EXCEPT !.pc = "save_submitting", !.snap = k]
  <2>1. w.pc = "submit" /\ SetTask("worker", t) /\ orders[w.order] \in Snapshot
        /\ w.order \in Order /\ w \in Task
    BY <1>2, WorkerRow, WorkerAtWork DEF SubmitProceeds, SubmitDue, At, GotoWith
  <2>2. k.requested_qty = Qty
    BY <2>1 DEF SubmittingState, Snapshot, IntentState
  <2>3. w.qty = Qty
    BY <2>1 DEF SizeInv, WorkerIsSized, WorkerSized
  <2> HIDE DEF k
  <2>4. t.pc = "save_submitting" /\ t.order = w.order /\ t.qty = w.qty /\ t.snap = k
    BY <2>1 DEF Task
  <2>5. task'["worker"] = t
    BY <2>1 DEF SetTask, Base, TypeOK
  <2> HIDE DEF t
  <2> QED BY <2>1, <2>2, <2>3, <2>4, <2>5, WorkerSizedStep
<1>3. CASE PlaceDeclined \/ PlaceRejected \/ ReadDetail \/ RecoverSubmit
  <2>1. /\ w.pc \in {"place", "detail", "recover"}
        /\ \E k : GotoWith("worker", "save_result", k)
    BY <1>3 DEF PlaceDeclined, PlaceRejected, Placing, ReadDetail, RecoverSubmit, At, PlaceResult
  <2>2. orders[w.order] # NoRow
    BY <2>1, WorkerRow
  <2> QED BY <2>1, <2>2, WorkerSizedGoes
<1> QED BY <1>1, <1>2, <1>3

LEMMA WorkerSizedPlaces ==
    ASSUME Base, Base', SizeInv, [Next]_vars, PlaceAccepted \/ PlaceTimesOut
    PROVE  WorkerIsSized'
<1> DEFINE w == task["worker"]
<1>1. w.pc = "place" /\ orders' = orders
  BY DEF PlaceAccepted, PlaceTimesOut, Placing, At, store
<1>2. /\ w \in Task /\ w.order \in Order /\ orders[w.order] # NoRow
      /\ orders[w.order].requested_qty = w.qty
  BY <1>1, WorkerAtWork, WorkerRow DEF SizeInv, WorkerIsSized, WorkerSized
<1>3. PICK pc \in {"detail", "recover"} :
          /\ SetTask("worker", [w EXCEPT !.pc = pc])
          /\ pc = "detail" => Book(w.order, w.qty)
  BY DEF PlaceAccepted, PlaceTimesOut, Goto
<1> DEFINE t == [w EXCEPT !.pc = pc]
<1>4. t.pc = pc /\ t.order = w.order /\ t.qty = w.qty
  BY <1>2 DEF Task
<1>5. task'["worker"] = t
  BY <1>3 DEF SetTask, Base, TypeOK
<1>6. pc = "detail" => venue'[w.order].state # "none"
  BY <1>2, <1>3 DEF Book, Base, TypeOK
<1> HIDE DEF t
<1> QED BY <1>1, <1>2, <1>3, <1>4, <1>5, <1>6, WorkerSizedStep

LEMMA WorkerSizedPostOnly ==
    ASSUME Base, Base', SizeInv, [Next]_vars, PostOnlyTimeout \/ PostOnlyFallback
    PROVE  WorkerIsSized'
<1> DEFINE w == task["worker"]
<1>1. w.pc \in {"po_wait", "po_fallback"}
  BY DEF PostOnlyTimeout, PostOnlyFallback, At
<1>2. /\ w \in Task /\ w.order \in Order /\ OnSubmit(w, Current[2], orders, cmds)
  BY <1>1, WorkerAtWork, WorkerOnSubmit DEF SubmitPc
<1>3. CASE Goto("worker", "sent")
  BY <1>1, <1>3, WorkerSizedGoes
<1>4. CASE PostOnlyTimeout /\ ~Goto("worker", "sent")
  <2>1. PICK t : /\ SetTask("worker", t)
                 /\ \/ t = LocalCancel(w, w.order, orders[w.order])
                    \/ t = [w EXCEPT !.pc = "save_pending", !.order = w.order,
                              !.snap = [orders[w.order] EXCEPT !.status = "CANCEL_PENDING"]]
    BY <1>4 DEF PostOnlyTimeout, BeginCancel
  <2>2. t.pc \in {"abandon", "save_canceled", "save_pending"} /\ t.order = w.order
    BY <1>2, <2>1 DEF LocalCancel, Task
  <2>3. task'["worker"] = t
    BY <2>1 DEF SetTask, Base, TypeOK
  <2> QED BY <1>2, <2>2, <2>3, WorkerSizedStep
<1>5. CASE PostOnlyFallback /\ ~Goto("worker", "sent")
  <2> DEFINE f == FallbackOf[w.order]
             rest == w.snap.remaining_qty
             k == SubmittingState(f, rest)
             t == [w EXCEPT !.pc = "save_submitting", !.order = f, !.qty = rest, !.snap = k]
  <2>1. w.pc = "po_fallback" /\ SetTask("worker", t)
    BY <1>5 DEF PostOnlyFallback, At
  <2>2. w.order \in PostOnly /\ orders[f] = NoRow /\ f \in Order
    BY <1>2, <2>1, OrderAssumption DEF OnSubmit, PostOnlyPc, BeforeFallbackPc, FallbackPc
  <2>3. k.requested_qty = rest
    BY <2>2 DEF SubmittingState, IntentState
  <2> HIDE DEF k
  <2>4. t.pc = "save_submitting" /\ t.order = f /\ t.qty = rest /\ t.snap = k
    BY <1>2 DEF Task
  <2>5. task'["worker"] = t
    BY <2>1 DEF SetTask, Base, TypeOK
  <2> HIDE DEF t
  <2> QED BY <2>2, <2>3, <2>4, <2>5, WorkerSizedStep
<1> QED BY <1>3, <1>4, <1>5

LEMMA WorkerSizedCancels ==
    ASSUME Base, Base', SizeInv, [Next]_vars,
           ProcessCancel \/ CancelLookup \/ CancelAccepted \/ CancelRejected
           \/ CancelTimesOut \/ CancelDetail \/ RecoverCancel
    PROVE  WorkerIsSized'
<1> DEFINE w == task["worker"]
<1>1. w.pc \in {"cancel", "c_lookup", "c_request", "c_detail", "c_recover"}
  BY DEF ProcessCancel, CancelLookup, CancelAccepted, CancelRejected, CancelTimesOut,
     CancelDetail, RecoverCancel, At
<1>2. w \in Task /\ w.order \in Order /\ orders[w.order] # NoRow
  BY <1>1, WorkerAtWork, WorkerOnCancel DEF CancelPc, OnCancel
<1>3. ASSUME NEW pc \in {"sent", "save_cancel_pending", "c_lookup", "c_request", "c_recover",
                         "save_result"},
             NEW k, GotoWith("worker", pc, k) \/ Goto("worker", pc)
      PROVE  WorkerIsSized'
  BY <1>1, <1>2, <1>3, WorkerSizedGoes
<1>4. CASE ProcessCancel
  <2>1. CASE SetTask("worker", LocalCancel(w, w.order, orders[w.order]))
    <3> DEFINE t == LocalCancel(w, w.order, orders[w.order])
    <3>1. t.pc \in {"abandon", "save_canceled"} /\ t.order = w.order
      BY <1>2 DEF LocalCancel, Task
    <3>2. task'["worker"] = t
      BY <2>1 DEF SetTask, Base, TypeOK
    <3> HIDE DEF t
    <3> QED BY <1>2, <3>1, <3>2, WorkerSizedStep
  <2>2. CASE ~SetTask("worker", LocalCancel(w, w.order, orders[w.order]))
    <3>1. \/ Goto("worker", "sent")
          \/ GotoWith("worker", "save_cancel_pending",
                      [orders[w.order] EXCEPT !.status = "CANCEL_PENDING"])
          \/ GotoWith("worker", "c_lookup", orders[w.order])
      BY <1>4, <2>2 DEF ProcessCancel
    <3> QED BY <1>3, <3>1
  <2> QED BY <2>1, <2>2
<1>5. CASE CancelLookup
  <2>1. \E pc \in {"c_request", "save_result"} :
            Goto("worker", pc) \/ \E k : GotoWith("worker", pc, k)
    BY <1>5 DEF CancelLookup
  <2> QED BY <1>3, <2>1
<1>6. CASE CancelAccepted \/ CancelTimesOut
  <2>1. CASE Goto("worker", "c_recover")
    BY <1>3, <2>1
  <2>2. CASE CancelAccepted /\ Goto("worker", "c_detail")
    <3> DEFINE t == [w EXCEPT !.pc = "c_detail"]
    <3>1. t.pc = "c_detail" /\ t.order = w.order
      BY <1>2 DEF Task
    <3>2. task'["worker"] = t
      BY <2>2 DEF Goto, SetTask, Base, TypeOK
    <3>3. venue[w.order].state # "none"
      BY <2>2 DEF CancelAccepted, Resting
    <3> HIDE DEF t
    <3> QED BY <1>2, <3>1, <3>2, <3>3, WorkerSizedStep
  <2> QED BY <1>6, <2>1, <2>2 DEF CancelAccepted, CancelTimesOut
<1>7. CASE CancelRejected \/ CancelDetail \/ RecoverCancel
  <2>1. \E k : GotoWith("worker", "save_result", k)
    BY <1>7 DEF CancelRejected, CancelDetail, RecoverCancel
  <2> QED BY <1>3, <2>1
<1> QED BY <1>4, <1>5, <1>6, <1>7

LEMMA WorkerSizedSaves ==
    ASSUME Base, Base', SizeInv, [Next]_vars, Save("worker") \/ SaveRefused("worker")
    PROVE  WorkerIsSized'
<1> DEFINE w == task["worker"]
           row == SaveResult(orders[w.order], w.snap)
<1>1. /\ w.pc \in Saving /\ w \in Task /\ w.order \in Order /\ w.snap \in Snapshot
      /\ Known(w.order, w.snap)
      /\ orders \in [Order -> Snapshot \cup {NoRow}]
  BY ActorSaving DEF Save, SaveRefused, Base, TypeOK
<1>2. CASE Save("worker")
  <2> DEFINE u == AfterSave("worker", w, row)
  <2>1. SetTask("worker", u) /\ orders' = [orders EXCEPT ![w.order] = row]
    BY <1>2 DEF Save
  <2>2. \/ w.pc = "save_submitting" /\ u.pc = "place" /\ u.order = w.order /\ u.qty = w.qty
        \/ /\ u.pc \in {"sent", "po_fallback", "po_wait", "enqueue", "abandon",
                        "save_canceled", "c_lookup"}
           /\ u.order = w.order
    BY <1>1, AfterSaveTask
  <2>3. row \in Snapshot /\ row # NoRow
    BY <1>1, SaveSnapshot, SnapshotFacts
  <2>4. w.pc = "save_submitting" => row.requested_qty = w.qty
    <3>1. Sized(w.order, w.snap.requested_qty)
      BY <1>1 DEF SizeInv
    <3>2. row.requested_qty = w.snap.requested_qty
      BY <1>1, <3>1, SaveSize DEF Sized
    <3> QED BY <3>2 DEF SizeInv, WorkerIsSized, WorkerSized
  <2> HIDE DEF row, u
  <2>5. task'["worker"] = u /\ orders'[w.order] = row
    BY <1>1, <2>1 DEF SetTask, Base, TypeOK
  <2> QED BY <1>1, <2>2, <2>3, <2>4, <2>5, WorkerSizedStep
<1>3. CASE SaveRefused("worker")
  <2> DEFINE u == AfterSaveRaises("worker", w)
  <2>1. SetTask("worker", u)
    BY <1>3 DEF SaveRefused
  <2>2. u.pc \in {"sent", "fail"} /\ u.order = w.order
    BY <1>1 DEF AfterSaveRaises, Task
  <2> HIDE DEF u
  <2>3. task'["worker"] = u
    BY <2>1 DEF SetTask, Base, TypeOK
  <2> QED BY <1>1, <2>2, <2>3, WorkerSizedStep
<1> QED BY <1>2, <1>3

LEMMA WorkerSizedCommands ==
    ASSUME Base, Base', SizeInv, [Next]_vars,
           ClaimCommand \/ MarkSent \/ MarkRaises
           \/ EnqueueCancel("worker") \/ CancelOrderRaises("worker")
    PROVE  WorkerIsSized'
<1> DEFINE w == task["worker"]
<1>1. CASE ClaimCommand
  <2>1. /\ task'["worker"].pc = Current[1] /\ task'["worker"].order = Current[2]
        /\ task'["worker"].qty = Qty
    BY <1>1 DEF ClaimCommand, SetTask, Idle, Base, TypeOK
  <2>2. Current[1] \in {"submit", "cancel"} /\ Current[2] \in Order
    BY <1>1, BatchFacts DEF ClaimCommand, WorkerFree
  <2> QED BY <2>1, <2>2, WorkerSizedStep
<1>2. CASE MarkSent
  <2>1. w.pc = "sent" /\ Goto("worker", "ack")
    BY <1>2 DEF MarkSent, At
  <2> QED BY <2>1, WorkerSizedGoes
<1>3. CASE MarkRaises
  <2>1. w.pc # "idle" /\ (SetTask("worker", Idle) \/ Goto("worker", "fail"))
    BY <1>3 DEF MarkRaises, At
  <2>2. CASE SetTask("worker", Idle)
    <3>1. task'["worker"].pc = "idle"
      BY <2>2 DEF SetTask, Idle, Base, TypeOK
    <3> QED BY <3>1, WorkerSizedKept
  <2>3. CASE Goto("worker", "fail")
    BY <2>1, <2>3, WorkerSizedGoes
  <2> QED BY <2>1, <2>2, <2>3
<1>4. CASE EnqueueCancel("worker") \/ CancelOrderRaises("worker")
  <2>1. w.pc \in {"enqueue", "abandon"}
    BY <1>4 DEF EnqueueCancel, CancelOrderRaises
  <2>2. Goto("worker", "po_fallback") \/ GotoWith("worker", "sent", NoRow)
    BY <1>4 DEF EnqueueCancel, CancelOrderRaises, Goto, GotoWith
  <2> QED BY <2>1, <2>2, WorkerSizedGoes
<1> QED BY <1>1, <1>2, <1>3, <1>4

(* The other actors leave the worker's task alone, or a crash ends it.     *)
LEMMA WorkerStands ==
    ASSUME Base,
           \/ Poll \/ SkipCommand \/ ClaimRaises \/ MarkAcked \/ MarkFailed
           \/ \E o \in Order : AcceptIntent(o) \/ BlockIntent(o)
           \/ CancelOrderRaises("operator") \/ Operator \/ Sync \/ Crash \/ Boot \/ Environment
           \/ UNCHANGED vars
    PROVE  task'["worker"] = task["worker"] \/ task'["worker"] = Idle
<1>1. CASE \/ Poll \/ SkipCommand \/ ClaimRaises \/ MarkAcked \/ MarkFailed
           \/ \E o \in Order : AcceptIntent(o) \/ BlockIntent(o)
  BY <1>1 DEF Poll, SkipCommand, ClaimRaises, MarkAcked, MarkFailed, FinishCommand, AcceptIntent,
     BlockIntent, SetTask, Base, TypeOK
<1>2. CASE CancelOrderRaises("operator") \/ Operator
  BY <1>2 DEF CancelOrderRaises, Operator, RequestCancel, BeginCancel, ResolveStuckSubmission,
     Save, SaveRefused, AbandonSubmit, EnqueueCancel, Halt, Resume, SetTask, Goto, Base, TypeOK
<1>3. CASE Sync \/ Crash \/ Boot \/ Environment \/ UNCHANGED vars
  BY <1>3 DEF Sync, SyncCollect, SyncAnswered, SyncFails, SyncSkips, SyncAsked, SyncSaves,
     SyncAborts, Crash, Boot, Restart, ReconcileResolved, ReconcileUnreachable, FinishRecovery,
     Environment, VenueFill, VenueCancels, LateArrival, vars
<1> QED BY <1>1, <1>2, <1>3

LEMMA WorkerStaysSized ==
    ASSUME Base, Base', SizeInv, [Next]_vars
    PROVE  WorkerIsSized'
<1>1. CASE \/ Poll \/ SkipCommand \/ ClaimRaises \/ MarkAcked \/ MarkFailed
           \/ \E o \in Order : AcceptIntent(o) \/ BlockIntent(o)
           \/ CancelOrderRaises("operator") \/ Operator \/ Sync \/ Crash \/ Boot \/ Environment
           \/ UNCHANGED vars
  <2>1. task'["worker"] = task["worker"] \/ task'["worker"].pc = "idle"
    BY <1>1, WorkerStands DEF Idle
  <2> QED BY <2>1, WorkerSizedKept
<1>2. CASE Worker
  BY <1>1, <1>2, WorkerSizedSubmits, WorkerSizedPlaces, WorkerSizedPostOnly, WorkerSizedCancels,
     WorkerSizedSaves, WorkerSizedCommands DEF Worker
<1> QED BY <1>1, <1>2, WorkerSizedCommands DEF Next

(* A request on its way was there before, or was just sent.                *)
LEMMA WireStep ==
    ASSUME Base, [Next]_vars, NEW x \in wire'
    PROVE  \/ x \in wire
           \/ /\ task["worker"].pc = "place" /\ PlaceTimesOut
              /\ x = <<task["worker"].order, task["worker"].qty>>
<1>1. CASE PlaceTimesOut
  BY <1>1 DEF PlaceTimesOut, Placing, At
<1>2. CASE Worker /\ ~PlaceTimesOut
  <2>1. wire' = wire
    BY <1>2 DEF Worker, Poll, SkipCommand, ClaimCommand, MarkSent, MarkAcked, MarkFailed,
       FinishCommand, Save, SaveRefused, SubmitDecided, SubmitBlocked, SubmitProceeds,
       PlaceDeclined, PlaceAccepted, PlaceRejected, ReadDetail, RecoverSubmit,
       PostOnlyTimeout, PostOnlyFallback, EnqueueCancel, ProcessCancel, CancelLookup,
       CancelAccepted, CancelRejected, CancelTimesOut, CancelDetail, RecoverCancel, world
  <2> QED BY <2>1
<1>3. CASE \/ \E p \in Order : AcceptIntent(p) \/ BlockIntent(p)
           \/ \E a \in {"worker", "operator"} : CancelOrderRaises(a)
           \/ Operator
  <2>1. wire' = wire
    BY <1>3 DEF AcceptIntent, BlockIntent, CancelOrderRaises, Operator, RequestCancel,
       ResolveStuckSubmission, Save, SaveRefused, AbandonSubmit, EnqueueCancel, Halt, Resume,
       world
  <2> QED BY <2>1
<1>4. CASE \/ ClaimRaises \/ MarkRaises \/ Sync \/ Crash \/ Boot \/ Environment
           \/ UNCHANGED vars
  <2>1. wire' \subseteq wire
    BY <1>4 DEF ClaimRaises, MarkRaises, Sync, SyncCollect, SyncAnswered, SyncFails, SyncSkips,
       SyncAsked, SyncSaves, SyncAborts, Crash, Boot, Restart, ReconcileResolved,
       ReconcileUnreachable, FinishRecovery, Environment, VenueFill, VenueCancels, LateArrival,
       vars, world
  <2> QED BY <2>1
<1> QED BY <1>1, <1>2, <1>3, <1>4 DEF Next

LEMMA SizeInvStep ==
    ASSUME Base, Base', SizeInv, [Next]_vars
    PROVE  SizeInv'
<1>1. WorkerIsSized'
  BY WorkerStaysSized
<1>2. ASSUME NEW o \in Order, NEW s \in Snapshot, Known(o, s)'
      PROVE  Sized(o, s.requested_qty)'
  BY <1>1, <1>2, KnownSized
<1>3. ASSUME NEW o \in Originals, orders'[o] # NoRow
      PROVE  orders'[o].requested_qty = Qty
  <2>1. o \in Order
    BY DEF Originals
  <2>2. Sized(o, orders'[o].requested_qty)
    BY <1>3, <2>1, RowSizesKept
  <2> QED BY <2>1, <2>2 DEF Sized, SizeInv
<1>4. ASSUME NEW o \in Order, orders[o] # NoRow
      PROVE  orders'[o] # NoRow /\ orders'[o].requested_qty = orders[o].requested_qty
  <2>1. orders'[o] # NoRow
    BY <1>4, RowsGoForward DEF RowsForward, Forward
  <2> QED BY <1>4, <2>1, RowSizesKept
<1>5. VenueSized(venue, orders)'
  <2> SUFFICES ASSUME NEW o \in Order, venue'[o].state # "none"
               PROVE  orders'[o] # NoRow /\ venue'[o].qty = orders'[o].requested_qty
    BY DEF VenueSized
  <2>1. orders[o] # NoRow /\ venue'[o].qty = orders[o].requested_qty
    <3>1. CASE venue[o].state # "none"
      BY <3>1, VenueForward DEF SizeInv, VenueSized
    <3>2. CASE venue[o].state = "none"
      <4>1. PICK q : /\ (WorkerAt(o, {"place"}) /\ q = task["worker"].qty) \/ <<o, q>> \in wire
                     /\ venue'[o] = [state |-> "live", qty |-> q, filled |-> 0]
        BY <3>2, VenueStepHolds DEF VenueStepOf, Resting
      <4>2. CASE <<o, q>> \in wire
        BY <4>1, <4>2 DEF SizeInv, WireSized
      <4>3. CASE WorkerAt(o, {"place"}) /\ q = task["worker"].qty
        BY <4>1, <4>3, WorkerRow DEF WorkerAt, SizeInv, WorkerIsSized, WorkerSized
      <4> QED BY <4>1, <4>2, <4>3
    <3> QED BY <3>1, <3>2
  <2> QED BY <1>4, <2>1
<1>6. WireSized(wire, orders)'
  <2> SUFFICES ASSUME NEW x \in wire'
               PROVE  orders'[x[1]] # NoRow /\ x[2] = orders'[x[1]].requested_qty
    BY DEF WireSized
  <2>1. x[1] \in Order
    BY DEF Base, TypeOK
  <2>2. orders[x[1]] # NoRow /\ x[2] = orders[x[1]].requested_qty
    <3>1. CASE x \in wire
      BY <3>1 DEF SizeInv, WireSized
    <3>2. CASE task["worker"].pc = "place" /\ x = <<task["worker"].order, task["worker"].qty>>
      BY <3>2, WorkerRow DEF SizeInv, WorkerIsSized, WorkerSized
    <3> QED BY <3>1, <3>2, WireStep
  <2> QED BY <1>4, <2>1, <2>2
<1> QED BY <1>1, <1>2, <1>3, <1>5, <1>6 DEF SizeInv

------------------------------------------------------------------------------
(* No snapshot shows a fill the exchange did not make *)

Real(s, v) == s.filled_qty <= v.filled /\ (s.status = "FILLED" => v.state = "filled")

(* An order at the exchange that is not filled lacks a part, and one that  *)
(* is not there has no fill.                                               *)
VenueFills ==
    \A o \in Order :
        /\ venue[o].state = "none" => venue[o].filled = 0
        /\ venue[o].state \notin {"none", "filled"} => venue[o].filled < venue[o].qty

FillsInv ==
    /\ VenueFills
    /\ \A o \in Order : \A s \in Snapshot : Known(o, s) => Real(s, venue[o])

LEMMA SaveReal ==
    ASSUME Epsilon = 0, Base, SizeInv, FillsInv, NEW o \in Order, NEW i \in Snapshot,
           Sized(o, i.requested_qty), Real(i, venue[o]), ~SaveRaises(orders[o], i)
    PROVE  Real(SaveResult(orders[o], i), venue[o])
<1> DEFINE r == orders[o]
           n == SaveResult(r, i)
           v == venue[o]
           taken == r = NoRow \/ accepted(validate_transition(r.status, i.status))
<1>1. /\ r \in Snapshot \cup {NoRow} /\ r \in OrderState \cup {NoRow} /\ i \in OrderState
      /\ v \in [state : VenueState, qty : 0..Qty, filled : 0..Qty]
  BY SnapshotFacts DEF Base, TypeOK
<1>2. r # NoRow => Real(r, v)
  BY <1>1 DEF FillsInv, Known, RowIs
<1>3. n \in Snapshot /\ n.requested_qty = i.requested_qty /\ i.requested_qty > 0
  BY <1>1, SaveSnapshot, SaveSize DEF Sized
<1>4. /\ \/ n.status = IF taken THEN i.status ELSE r.status
         \/ n.status = "PARTIALLY_FILLED"
         \/ n.status = "FILLED" /\ FullyFilled(n.filled_qty, n.requested_qty)
      /\ \/ n.filled_qty <= i.filled_qty \/ n.filled_qty <= 0
         \/ r # NoRow /\ n.filled_qty <= r.filled_qty
  BY <1>1, SaveValues
<1> HIDE DEF n
<1>5. /\ n.filled_qty \in Int /\ i.filled_qty \in Int /\ (r # NoRow => r.filled_qty \in Int)
      /\ v.filled \in Nat /\ v.qty \in Nat /\ n.requested_qty \in Int
  BY <1>1, <1>3, BoundsAssumption DEF Snapshot
<1>6. n.filled_qty <= v.filled
  BY <1>2, <1>4, <1>5 DEF Real
<1>7. FullyFilled(n.filled_qty, n.requested_qty) => v.state = "filled"
  <2> SUFFICES ASSUME n.filled_qty >= n.requested_qty PROVE v.state = "filled"
    BY <1>5 DEF FullyFilled
  <2>1. v.filled >= n.requested_qty /\ v.filled > 0
    BY <1>3, <1>5, <1>6
  <2>2. v.state # "none"
    BY <2>1 DEF FillsInv, VenueFills
  <2>3. r # NoRow /\ v.qty = r.requested_qty /\ r.requested_qty = n.requested_qty
    BY <1>3, <2>2 DEF SizeInv, VenueSized, Sized
  <2> QED BY <1>5, <2>1, <2>2, <2>3 DEF FillsInv, VenueFills
<1>8. n.status = "FILLED" => v.state = "filled"
  BY <1>2, <1>4, <1>7 DEF Real
<1>9. Real(n, v)
  BY <1>6, <1>8 DEF Real
<1> QED BY <1>9 DEF n

LEMMA SourceReal ==
    ASSUME Epsilon = 0, Base, SizeInv, FillsInv, NEW o \in Order, NEW k \in Snapshot,
           Source(o, k)
    PROVE  Real(k, venue[o])
<1>1. orders[o] \in Snapshot \cup {NoRow}
      /\ venue[o] \in [state : VenueState, qty : 0..Qty, filled : 0..Qty]
      /\ venue[o].filled \in Nat
  BY BoundsAssumption DEF Base, TypeOK
<1>2. orders[o] # NoRow => Real(orders[o], venue[o])
  BY <1>1 DEF FillsInv, Known, RowIs
<1>3. CASE Known(o, k)
  BY <1>3 DEF FillsInv
<1>4. CASE Mapped(o, k)
  BY <1>1, <1>4 DEF Mapped, MapOrderState, MapStatus, Real
<1>5. CASE Built(o, k)
  BY <1>1, <1>5 DEF Built, IntentState, SubmittedState, SubmissionUnknown, Real
<1>6. CASE Submitting(o, k)
  <2>1. CASE orders[o] = NoRow
    BY <1>1, <1>6, <2>1 DEF Submitting, SubmittingState, IntentState, Real
  <2>2. CASE orders[o] # NoRow
    <3>1. k = [orders[o] EXCEPT !.status = "SUBMITTING",
                                !.requested_qty = Qty, !.remaining_qty = Qty]
      BY <1>6, <2>2 DEF Submitting, SubmittingState
    <3>2. k.status = "SUBMITTING" /\ k.filled_qty = orders[o].filled_qty
      BY <1>1, <2>2, <3>1 DEF Snapshot
    <3> QED BY <1>2, <2>2, <3>2 DEF Real
  <2> QED BY <2>1, <2>2
<1>7. CASE Saved(o, k)
  <2>1. PICK i \in Snapshot : /\ Known(o, i) /\ ~SaveRaises(orders[o], i)
                              /\ k = SaveResult(orders[o], i)
    BY <1>7 DEF Saved
  <2> QED BY <2>1, SaveReal DEF SizeInv, FillsInv
<1>8. CASE Fresh(o, k)
  <2>1. PICK st \in {"CREATED", "BLOCKED"}, e \in {"none", "other"} :
            k = Normalize(IntentState(st, Qty, e))
    BY <1>8 DEF Fresh
  <2> DEFINE i == IntentState(st, Qty, e)
  <2>2. i \in Snapshot /\ i.requested_qty = Qty /\ Qty > 0 /\ i.filled_qty = 0 /\ i.status = st
    <3>1. st \in OrderLifecycleStatus /\ e \in ExecutionError /\ Qty \in 1..Qty /\ Qty > 0
      BY BoundsAssumption DEF OrderLifecycleStatus, TERMINAL_ORDER_STATES, OPEN_ORDER_STATES,
         ExecutionError
    <3>2. i \in Snapshot
      BY <3>1, BuiltSnapshots
    <3> QED BY <3>1, <3>2 DEF IntentState
  <2>3. k = SaveResult(orders[o], i) /\ ~SaveRaises(orders[o], i)
    BY <1>8, <2>1 DEF Fresh, SaveResult, SaveRaises
  <2> HIDE DEF i
  <2>4. Real(i, venue[o]) /\ Sized(o, i.requested_qty)
    BY <1>1, <1>8, <2>2 DEF Real, Sized, Fresh
  <2> QED BY <2>2, <2>3, <2>4, SaveReal
<1>9. CASE Reconciled(o, k)
  <2> DEFINE r == ResolvedOrderState(o, orders[o], venue[o])
  <2>1. /\ o \in unresolved /\ venue[o].state # "none" /\ k = SaveResult(orders[o], r)
        /\ ~SaveRaises(orders[o], r)
    BY <1>9 DEF Reconciled
  <2>2. /\ orders[o] \in Snapshot /\ orders[o] # NoRow /\ r \in Snapshot
        /\ \/ r = [orders[o] EXCEPT !.status = "SUBMITTED", !.exchange_order_id = o]
           \/ r = [orders[o] EXCEPT !.status = "CANCELED", !.exchange_order_id = o]
           \/ /\ venue[o].state = "filled"
              /\ r = [orders[o] EXCEPT !.status = "FILLED", !.exchange_order_id = o,
                         !.filled_qty = Greatest(orders[o].filled_qty, venue[o].filled),
                         !.remaining_qty = 0]
    BY <2>1, ResolvedSnapshot
  <2>3. /\ r.requested_qty = orders[o].requested_qty
        /\ \/ r.status # "FILLED" /\ r.filled_qty = orders[o].filled_qty
           \/ /\ venue[o].state = "filled"
              /\ r.filled_qty = Greatest(orders[o].filled_qty, venue[o].filled)
    BY <2>2 DEF Snapshot
  <2>6. orders[o].filled_qty \in Int /\ venue[o].filled \in Nat
    BY <1>1, <2>2, BoundsAssumption DEF Snapshot
  <2>7. Real(orders[o], venue[o])
    BY <1>2, <2>2
  <2> HIDE DEF r
  <2>4. Real(r, venue[o])
    <3>1. CASE r.status # "FILLED" /\ r.filled_qty = orders[o].filled_qty
      BY <2>7, <3>1 DEF Real
    <3>2. CASE /\ venue[o].state = "filled"
               /\ r.filled_qty = Greatest(orders[o].filled_qty, venue[o].filled)
      BY <2>6, <2>7, <3>2 DEF Real, Greatest
    <3> QED BY <2>3, <3>1, <3>2
  <2>5. Sized(o, r.requested_qty)
    BY <2>2, <2>3, RowSized
  <2> QED BY <2>1, <2>2, <2>4, <2>5, SaveReal
<1> QED BY <1>3, <1>4, <1>5, <1>6, <1>7, <1>8, <1>9 DEF Source

LEMMA FillsStep ==
    ASSUME Epsilon = 0, Base, Base', SizeInv, FillsInv, [Next]_vars
    PROVE  FillsInv'
<1>1. ASSUME NEW o \in Order
      PROVE  /\ venue'[o].filled >= venue[o].filled
             /\ venue[o].state = "filled" => venue'[o].state = "filled"
             /\ venue'[o].state = "none" => venue'[o].filled = 0
             /\ venue'[o].state \notin {"none", "filled"} => venue'[o].filled < venue'[o].qty
  <2>0. /\ venue[o] \in [state : VenueState, qty : 0..Qty, filled : 0..Qty]
        /\ venue'[o] \in [state : VenueState, qty : 0..Qty, filled : 0..Qty]
    BY DEF Base, TypeOK
  <2>1. /\ venue[o].filled \in Nat /\ venue'[o].filled \in Nat
        /\ venue[o].qty \in Nat /\ venue'[o].qty \in Nat
    BY <2>0, BoundsAssumption
  <2>2. VenueStepOf(o)
    BY VenueStepHolds
  <2>3. Resting(venue'[o]) => venue'[o].filled < venue'[o].qty
    BY DEF Base, VenueUnfilled
  <2>4. /\ venue[o].state = "none" => venue[o].filled = 0
        /\ venue[o].state \notin {"none", "filled"} => venue[o].filled < venue[o].qty
    BY DEF FillsInv, VenueFills
  <2>5. CASE venue'[o] = venue[o]
    BY <2>1, <2>4, <2>5
  <2>6. CASE \E q : venue[o].state = "none"
                  /\ venue'[o] = [state |-> "live", qty |-> q, filled |-> 0]
    <3>1. /\ venue'[o].state = "live" /\ venue'[o].filled = 0 /\ venue[o].state = "none"
          /\ venue[o].filled = 0
      BY <2>4, <2>6
    <3> QED BY <2>1, <2>3, <3>1 DEF Resting
  <2>7. CASE /\ Resting(venue[o]) /\ venue'[o].qty = venue[o].qty
             /\ venue'[o].filled = venue[o].filled
             /\ venue'[o].state \in {"canceling", "canceled"}
    BY <2>1, <2>4, <2>7 DEF Resting
  <2>8. CASE /\ Resting(venue[o]) /\ venue'[o].qty = venue[o].qty
             /\ venue'[o].filled = venue[o].filled + 1
             /\ venue'[o].state = IF venue'[o].filled = venue[o].qty
                                  THEN "filled" ELSE venue[o].state
    BY <2>1, <2>3, <2>4, <2>8 DEF Resting
  <2> QED BY <2>2, <2>5, <2>6, <2>7, <2>8 DEF VenueStepOf
<1>2. VenueFills'
  BY <1>1 DEF VenueFills
<1>3. ASSUME NEW o \in Order, NEW s \in Snapshot, Known(o, s)'
      PROVE  Real(s, venue'[o])
  <2>1. PICK k \in Snapshot : Source(o, k) /\ Edited(o, k, s)
    BY <1>3, Origin DEF Derived
  <2>2. Real(k, venue[o])
    BY <2>1, SourceReal
  <2>3. Real(s, venue[o])
    BY <2>1, <2>2 DEF Edited, Real
  <2>4. s.filled_qty \in Int /\ venue[o].filled \in Int /\ venue'[o].filled \in Int
    <3>1. s.filled_qty \in Int
      BY BoundsAssumption DEF Snapshot
    <3>2. /\ venue[o] \in [state : VenueState, qty : 0..Qty, filled : 0..Qty]
          /\ venue'[o] \in [state : VenueState, qty : 0..Qty, filled : 0..Qty]
      BY DEF Base, TypeOK
    <3> QED BY <3>1, <3>2, BoundsAssumption
  <2> QED BY <1>1, <2>3, <2>4 DEF Real
<1> QED BY <1>2, <1>3 DEF FillsInv

LEMMA NothingKnownAtFirst ==
    ASSUME Init, NEW o \in Order, NEW s
    PROVE  ~Known(o, s)
  BY EmptySeq DEF Init, Known, RowIs, ListHas, WorkerHas, OperatorHas, Idle, SnapPc, Saving

LEMMA SizeInit ==
    ASSUME Init
    PROVE  SizeInv
  BY NothingKnownAtFirst DEF Init, SizeInv, VenueSized, WireSized, WorkerIsSized, WorkerSized,
     Idle, Originals

LEMMA SizesAlways == Spec => []SizeInv
<1>1. Init => SizeInv
  BY SizeInit
<1>2. Base /\ Base' /\ SizeInv /\ [Next]_vars => SizeInv'
  BY SizeInvStep
<1> QED BY <1>1, <1>2, Invariant, PTL DEF Spec

(* Whichever stale, recovered or edited snapshot reached the repository    *)
(* last, it shows no fill the exchange did not make, and FILLED only for   *)
(* an order that is filled there.  Quantities count in lots, of which the  *)
(* tolerance EPSILON_DECIMAL_12 of the order state machine is a fraction.  *)
THEOREM FillsAreReal ==
    ASSUME Epsilon = 0
    PROVE  Spec => []LocalFillsAreReal
<1>1. Init => FillsInv
  <2> SUFFICES ASSUME Init PROVE FillsInv
    OBVIOUS
  <2>1. VenueFills
    BY DEF Init, VenueFills
  <2> QED BY <2>1, NothingKnownAtFirst DEF FillsInv
<1>2. Base /\ Base' /\ SizeInv /\ FillsInv /\ [Next]_vars => FillsInv'
  BY FillsStep
<1>3. Base /\ FillsInv => LocalFillsAreReal
  <2> SUFFICES ASSUME Base, FillsInv, NEW o \in Order, orders[o] # NoRow
               PROVE  Real(orders[o], venue[o])
    BY DEF LocalFillsAreReal, Real
  <2> QED BY DEF FillsInv, Known, RowIs, Base, TypeOK
<1> QED BY <1>1, <1>2, <1>3, SizesAlways, Invariant, PTL DEF Spec

------------------------------------------------------------------------------
(* Every row implements the lifecycle of an order *)

(* A snapshot that is taken over takes no fill back, or completes the row. *)
LEMMA MergeKeepsFills ==
    ASSUME NEW c \in OrderState, NEW i \in OrderState, c.requested_qty > 0
    PROVE  LET s == MergeAccepted(c, i) IN s.filled_qty >= c.filled_qty \/ s.status = "FILLED"
<1> DEFINE m == MergedFields(c, i)
           s == MergeAccepted(c, i)
<1>1. s = Normalize(m)
  BY DEF MergeAccepted, MergedFields
<1>2. m \in OrderState
  BY MergedFieldsType
<1>3. /\ m.requested_qty = IF i.requested_qty > 0 THEN i.requested_qty ELSE c.requested_qty
      /\ m.filled_qty = Least(Greatest(c.filled_qty, i.filled_qty), m.requested_qty)
  BY MergedFieldsValues
<1> HIDE DEF m
<1>4. /\ s.requested_qty = m.requested_qty
      /\ s.filled_qty = Least(Greatest(m.filled_qty, 0), m.requested_qty)
      /\ FullyFilled(s.filled_qty, s.requested_qty) => s.status = "FILLED"
  BY <1>1, <1>2, NormalizeFields
<1>5. /\ m.filled_qty \in Int /\ m.requested_qty \in Int
      /\ c.filled_qty \in Int /\ i.filled_qty \in Int
      /\ c.requested_qty \in Int /\ i.requested_qty \in Int
  BY <1>2 DEF OrderState
<1> HIDE DEF s
<1>6. m.requested_qty > 0
  BY <1>3, <1>5
<1>7. s.filled_qty >= c.filled_qty \/ s.filled_qty = s.requested_qty
  BY <1>3, <1>4, <1>5, <1>6 DEF Least, Greatest
<1>8. s.filled_qty = s.requested_qty => FullyFilled(s.filled_qty, s.requested_qty)
  BY <1>4, <1>5, <1>6, EpsilonAssumption DEF FullyFilled
<1>9. s.filled_qty >= c.filled_qty \/ s.status = "FILLED"
  BY <1>4, <1>7, <1>8
<1> QED BY <1>9 DEF s

(* What a save does to the life of an order of positive size: an order     *)
(* that has ended stays so, or turns out to be filled.                     *)
LEMMA SaveKeepsLife ==
    ASSUME NEW c \in OrderState, NEW i \in OrderState, c.requested_qty > 0
    PROVE  LET s == SaveResult(c, i) IN
           /\ s \in OrderState
           /\ is_terminal(c.status) => s.status \in {c.status, "FILLED"}
           /\ s.filled_qty >= c.filled_qty \/ s.status = "FILLED"
<1> DEFINE s == SaveResult(c, i)
           from == IF accepted(validate_transition(c.status, i.status))
                   THEN i.status ELSE c.status
<1>0. c # NoRow
  BY NoRowAssumption
<1>1. /\ s \in OrderState
      /\ s.status = from \/ (from = "SUBMITTED" /\ s.status = "PARTIALLY_FILLED")
           \/ s.status = "FILLED"
  BY <1>0, SaveValues
<1>2. is_terminal(c.status) => from = c.status
  BY StatusSteps DEF OrderState
<1>3. is_terminal(c.status) => s.status \in {c.status, "FILLED"}
  <2> HIDE DEF s, from
  <2> QED BY <1>1, <1>2 DEF is_terminal, TERMINAL_ORDER_STATES
<1>4. s.filled_qty >= c.filled_qty \/ s.status = "FILLED"
  <2> DEFINE j == [c EXCEPT !.filled_qty = i.filled_qty,
                            !.remaining_qty = i.remaining_qty, !.fees = i.fees]
             e == [c EXCEPT !.execution_error = IF i.execution_error # "none"
                                                THEN i.execution_error ELSE @]
  <2>1. j \in OrderState
    BY DEF OrderState
  <2>2. e.filled_qty = c.filled_qty /\ c.filled_qty \in Int
    BY DEF OrderState
  <2>3. s \in {MergeAccepted(c, i), MergeAccepted(c, j), e}
    BY <1>0 DEF SaveResult, Merge, MergeWithoutRegression
  <2> HIDE DEF j, e, s
  <2>4. CASE s = e
    BY <2>2, <2>4
  <2>5. CASE s \in {MergeAccepted(c, i), MergeAccepted(c, j)}
    BY <2>1, <2>5, MergeKeepsFills
  <2> QED BY <2>3, <2>4, <2>5
<1> QED BY <1>1, <1>3, <1>4

(* What a step may do to the row of an order.                              *)
LifeGoesOn(c, n) ==
    /\ n # NoRow => FilledOf(n) \in Int /\ LifeOf(n) \in {"open", "ended", "complete"}
    /\ c # NoRow =>
        /\ n # NoRow
        /\ LifeOf(c) = "ended" => LifeOf(n) \in {"ended", "complete"}
        /\ LifeOf(c) = "complete" => LifeOf(n) = "complete"
        /\ FilledOf(n) >= FilledOf(c) \/ LifeOf(n) = "complete"

LEMMA RowLifeGoesOn ==
    ASSUME Base, Base', SizeInv, [Next]_vars, NEW o \in Order
    PROVE  LifeGoesOn(orders[o], orders'[o])
<1> DEFINE c == orders[o]
           n == orders'[o]
<1>1. /\ c \in Snapshot \cup {NoRow} /\ n \in Snapshot \cup {NoRow} /\ Snapshot \subseteq OrderState
      /\ NoRow \notin Snapshot /\ RowStepOf(o)
  BY RowStepHolds, SnapshotFacts DEF Base, TypeOK
<1>2. /\ c # NoRow => c \in OrderState /\ c.requested_qty > 0
      /\ n # NoRow => n \in OrderState
  BY <1>1, RowSized
<1>3. c # NoRow => n = c \/ \E i \in OrderState : n = SaveResult(c, i)
  <2>1. CASE Saved(o, n)
    BY <1>1, <2>1 DEF Saved
  <2>2. CASE Reconciled(o, n)
    <3> DEFINE r == ResolvedOrderState(o, orders[o], venue[o])
    <3>1. o \in unresolved /\ venue[o].state # "none" /\ n = SaveResult(c, r)
      BY <2>2 DEF Reconciled
    <3>2. r \in Snapshot
      BY <3>1, ResolvedSnapshot
    <3> HIDE DEF r
    <3> QED BY <1>1, <3>1, <3>2
  <2> QED BY <1>1, <2>1, <2>2 DEF RowStepOf, Fresh
<1> HIDE DEF c, n
<1>4. ASSUME n # NoRow
      PROVE  FilledOf(n) \in Int /\ LifeOf(n) \in {"open", "ended", "complete"}
  BY <1>2, <1>4 DEF FilledOf, LifeOf, OrderState
<1>5. ASSUME c # NoRow
      PROVE  /\ n # NoRow
             /\ is_terminal(c.status) => n.status \in {c.status, "FILLED"}
             /\ n.filled_qty >= c.filled_qty \/ n.status = "FILLED"
  <2>1. CASE n = c
    BY <1>2, <1>5, <2>1 DEF OrderState
  <2>2. CASE \E i \in OrderState : n = SaveResult(c, i)
    BY <1>2, <1>5, <2>2, SaveKeepsLife, NoRowAssumption
  <2> QED BY <1>3, <1>5, <2>1, <2>2
<1>6. is_terminal("FILLED")
  BY DEF is_terminal, TERMINAL_ORDER_STATES
<1>7. ASSUME c # NoRow
      PROVE  /\ LifeOf(c) = "ended" => LifeOf(n) \in {"ended", "complete"}
             /\ LifeOf(c) = "complete" => LifeOf(n) = "complete"
             /\ FilledOf(n) >= FilledOf(c) \/ LifeOf(n) = "complete"
  BY <1>5, <1>6, <1>7 DEF LifeOf, FilledOf
<1>8. LifeGoesOn(c, n)
  BY <1>4, <1>5, <1>7 DEF LifeGoesOn
<1> QED BY <1>8 DEF c, n

(* The composed system refines the lifecycle the rest of the system relies *)
(* on, order by order: whichever actor saves an old snapshot last, through *)
(* crashes, failing writes and the startup reconciliation, an order is     *)
(* recorded once, ends at most once, and loses no fill unless it is        *)
(* complete.                                                               *)
THEOREM RowsFollowLifecycle == Spec => RowsImplementLifecycle
<1> DEFINE Step(o) == [Life(o)!LifecycleNext]_(Life(o)!lifecycleVars)
<1>1. Init => \A o \in Order : Life(o)!LifecycleInit
  BY DEF Init, Life!LifecycleInit, LifeOf, FilledOf
<1>2. Base /\ Base' /\ SizeInv /\ [Next]_vars => [\A o \in Order : Step(o)]_orders
  <2> SUFFICES ASSUME Base, Base', SizeInv, [Next]_vars, NEW o \in Order
               PROVE  Life(o)!LifecycleNext \/ UNCHANGED Life(o)!lifecycleVars
    OBVIOUS
  <2>1. LifeGoesOn(orders[o], orders'[o])
    BY RowLifeGoesOn
  <2>2. orders[o] = NoRow => LifeOf(orders[o]) = "absent"
    BY DEF LifeOf
  <2>3. orders[o] # NoRow => LifeOf(orders[o]) \in {"open", "ended", "complete"}
    BY DEF LifeOf
  <2>4. CASE orders'[o] = orders[o]
    BY <2>4 DEF Life!lifecycleVars
  <2>5. CASE orders'[o] # orders[o]
    BY <2>1, <2>2, <2>3, <2>5 DEF LifeGoesOn, Life!LifecycleNext, Life!Record, Life!Progress,
       Life!LateReport, Life!Settled
  <2> QED BY <2>4, <2>5
<1> QED BY <1>1, <1>2, SizesAlways, Invariant, PTL DEF Spec, RowsImplementLifecycle


------------------------------------------------------------------------------
(* Orders that nobody cancels *)

(* An order that nobody cancels has no cancel command, and the operator at *)
(* most resolves it, whatever happens to other orders.                     *)
NoCancels ==
    /\ \A o \in Uncanceled : cmds[cancel(o)] = "none"
    /\ \/ task["operator"].pc \in {"idle", "save_resolved"}
       \/ task["operator"].order \in Cancelable

(* The steps in which the worker is busy with an undecided order.          *)
SendingPc == {"save_blocked", "save_submitting", "place", "detail", "recover", "save_result"}

LEMMA UncanceledFacts ==
    ASSUME NEW o \in Uncanceled
    PROVE  /\ o \in Order /\ o \in Originals /\ o \notin PostOnly /\ o \notin Cancelable
           /\ \A p \in PostOnly : o # FallbackOf[p]
BY DEF Uncanceled, Originals

LEMMA WorkerSubmits ==
    ASSUME Base, NoCancels, task["worker"].pc # "idle", task["worker"].order \in Uncanceled
    PROVE  LET w == task["worker"] IN
           /\ w \in Task /\ w.order \in Order /\ orders[w.order] # NoRow
           /\ Current = submit(w.order) /\ batch # <<>> /\ phase = "running"
           /\ w.pc \in SendingPc \cup {"submit", "sent", "ack", "fail"}
           /\ w.pc = "save_submitting" => w.snap.status = "SUBMITTING"
           /\ w.pc \in {"save_blocked", "save_result"} => w.snap.status \in ResultStatus
<1> DEFINE w == task["worker"]
<1>1. /\ w \in Task /\ w.order \in Order /\ batch # <<>> /\ phase = "running"
      /\ Current[1] \in {"submit", "cancel"} /\ Current[2] \in Order
      /\ Current = <<Current[1], Current[2]>> /\ cmds[Current] # "none"
      /\ Current[1] = "cancel" => w.order = Current[2]
  BY WorkerAtWork DEF OnCancel
<1>2. Current[1] = "submit"
  BY <1>1 DEF NoCancels, cancel
<1>3. OnSubmit(w, Current[2], orders, cmds)
  BY <1>1, <1>2, WorkerAtWork
<1>4. w.order = Current[2] /\ Current[2] \notin PostOnly
  BY <1>3, UncanceledFacts DEF OnSubmit
<1>5. Current = submit(w.order)
  BY <1>1, <1>2, <1>4 DEF submit
<1>6. orders[w.order] # NoRow
  BY <1>1, <1>5 DEF Base, CommandsKnown
<1>7. w.pc \in SendingPc \cup {"submit", "sent", "ack", "fail"}
  BY <1>3, <1>4 DEF OnSubmit, SubmitPc, EitherPc, PostOnlyPc, SendingPc
<1> QED BY <1>1, <1>3, <1>5, <1>6, <1>7 DEF OnSubmit

LEMMA NotCanceling ==
    ASSUME Base, NoCancels, NEW o \in Uncanceled
    PROVE  ~Canceling(o)
<1>1. WorkerAt(o, CancelPc \cup PostOnlyPc) =>
        task["worker"].pc \in SendingPc \cup {"submit", "sent", "ack", "fail"}
  BY WorkerSubmits DEF WorkerAt, CancelPc, PostOnlyPc
<1> QED BY <1>1, UncanceledFacts DEF Canceling, WorkerAt, SendingPc, CancelPc, PostOnlyPc

(* The operator's request stands, ends, or resolves a stuck order.         *)
LEMMA OperatorStands ==
    ASSUME Base, Worker \/ ClaimRaises \/ MarkRaises \/ CancelOrderRaises("worker")
    PROVE  task'["operator"] = task["operator"]
<1>1. task \in [{"worker", "operator"} -> Task]
  BY DEF Base, TypeOK
<1>2. ASSUME NEW t, SetTask("worker", t)
      PROVE  task'["operator"] = task["operator"]
  BY <1>1, <1>2 DEF SetTask
<1>3. ASSUME UNCHANGED task PROVE task'["operator"] = task["operator"]
  BY <1>3
<1>4. CASE \/ Poll \/ SkipCommand \/ ClaimCommand \/ ClaimRaises \/ MarkSent \/ MarkAcked
           \/ MarkFailed \/ MarkRaises
  BY <1>2, <1>3, <1>4 DEF Poll, SkipCommand, ClaimCommand, ClaimRaises, MarkSent, MarkAcked,
     MarkFailed, FinishCommand, MarkRaises, Goto
<1>5. CASE \/ Save("worker") \/ SaveRefused("worker") \/ EnqueueCancel("worker")
           \/ CancelOrderRaises("worker")
  BY <1>2, <1>5 DEF Save, SaveRefused, EnqueueCancel, CancelOrderRaises, Goto
<1>6. CASE \/ SubmitDecided \/ SubmitBlocked \/ SubmitProceeds \/ PlaceDeclined \/ PlaceAccepted
           \/ PlaceRejected \/ PlaceTimesOut \/ ReadDetail \/ RecoverSubmit
  BY <1>2, <1>6 DEF SubmitDecided, SubmitBlocked, SubmitProceeds, PlaceDeclined, PlaceAccepted,
     PlaceRejected, PlaceTimesOut, ReadDetail, RecoverSubmit, PlaceResult, Goto, GotoWith
<1>7. CASE PostOnlyTimeout \/ PostOnlyFallback
  BY <1>2, <1>7 DEF PostOnlyTimeout, PostOnlyFallback, BeginCancel, Goto
<1>8. CASE \/ ProcessCancel \/ CancelLookup \/ CancelAccepted \/ CancelRejected
           \/ CancelTimesOut \/ CancelDetail \/ RecoverCancel
  BY <1>2, <1>8 DEF ProcessCancel, CancelLookup, CancelAccepted, CancelRejected, CancelTimesOut,
     CancelDetail, RecoverCancel, Goto, GotoWith
<1> QED BY <1>4, <1>5, <1>6, <1>7, <1>8 DEF Worker

LEMMA NoCancelsOperator ==
    ASSUME Base, NoCancels, [Next]_vars
    PROVE  \/ task'["operator"] = task["operator"]
           \/ task'["operator"] = Idle
           \/ /\ task["operator"] = Idle /\ task'["operator"].pc = "save_resolved"
              /\ \E o \in Order : ResolveStuckSubmission(o) /\ task'["operator"].order = o
           \/ task'["operator"].order \in Cancelable /\ task'["operator"].pc # "save_resolved"
<1> DEFINE u == task["operator"]
<1>1. /\ task \in [{"worker", "operator"} -> Task] /\ u \in Task
      /\ OperatorOK(u, orders, cmds)
  BY DEF Base, TypeOK
<1>2. CASE Worker \/ ClaimRaises \/ MarkRaises \/ CancelOrderRaises("worker")
  BY <1>2, OperatorStands
<1>3. CASE Save("operator")
  <2>1. PICK row : u.pc \in Saving /\ SetTask("operator", AfterSave("operator", u, row))
    BY <1>3 DEF Save
  <2> DEFINE t == AfterSave("operator", u, row)
  <2>2. u.pc \in {"save_pending", "save_canceled", "save_resolved"}
    BY <1>1, <2>1 DEF OperatorOK, Saving
  <2>3. task'["operator"] = t
    BY <1>1, <2>1 DEF SetTask
  <2>4. CASE u.pc = "save_pending"
    <3>1. t = [u EXCEPT !.pc = "enqueue", !.snap = row]
      BY <2>4 DEF AfterSave
    <3> HIDE DEF t
    <3>2. t.order = u.order /\ t.pc = "enqueue"
      BY <1>1, <3>1 DEF Task
    <3>3. u.order \in Cancelable
      BY <2>4 DEF NoCancels
    <3> QED BY <2>3, <3>2, <3>3
  <2>5. CASE u.pc \in {"save_canceled", "save_resolved"}
    BY <2>3, <2>5 DEF AfterSave
  <2> QED BY <2>2, <2>4, <2>5
<1>4. CASE SaveRefused("operator")
  <2>1. SetTask("operator", Idle)
    BY <1>4 DEF SaveRefused, AfterSaveRaises
  <2> QED BY <1>1, <2>1 DEF SetTask
<1>5. ASSUME NEW o \in Order, ResolveStuckSubmission(o)
      PROVE  /\ task["operator"] = Idle /\ task'["operator"].pc = "save_resolved"
             /\ task'["operator"].order = o
  <2>1. PICK s : SetTask("operator", [Idle EXCEPT !.pc = "save_resolved", !.order = o, !.snap = s])
    BY <1>5 DEF ResolveStuckSubmission
  <2> DEFINE t == [Idle EXCEPT !.pc = "save_resolved", !.order = o, !.snap = s]
  <2>2. t.pc = "save_resolved" /\ t.order = o
    BY DEF Idle
  <2>3. task'["operator"] = t
    BY <1>1, <2>1 DEF SetTask
  <2> HIDE DEF t
  <2> QED BY <1>5, <2>2, <2>3 DEF ResolveStuckSubmission
<1>6. ASSUME NEW o \in Order, RequestCancel(o)
      PROVE  task'["operator"].order \in Cancelable /\ task'["operator"].pc # "save_resolved"
  <2>1. o \in Cancelable
    BY <1>6 DEF RequestCancel
  <2> DEFINE x == LocalCancel(Idle, o, orders[o])
             y == [Idle EXCEPT !.pc = "save_pending", !.order = o,
                               !.snap = [orders[o] EXCEPT !.status = "CANCEL_PENDING"]]
  <2>2. SetTask("operator", x) \/ SetTask("operator", y)
    BY <1>6 DEF RequestCancel, BeginCancel
  <2>3. /\ x.pc # "save_resolved" /\ x.order = o
        /\ y.pc # "save_resolved" /\ y.order = o
    BY DEF LocalCancel, Idle
  <2>4. SetTask("operator", x) => task'["operator"] = x
    BY <1>1 DEF SetTask
  <2>5. SetTask("operator", y) => task'["operator"] = y
    BY <1>1 DEF SetTask
  <2> HIDE DEF x, y
  <2> QED BY <2>1, <2>2, <2>3, <2>4, <2>5
<1>7. CASE AbandonSubmit
  <2>1. u.pc = "abandon" /\ SetTask("operator", [u EXCEPT !.pc = "save_canceled"])
    BY <1>7 DEF AbandonSubmit, Goto
  <2> DEFINE t == [u EXCEPT !.pc = "save_canceled"]
  <2>2. t.order = u.order /\ t.pc = "save_canceled"
    BY <1>1 DEF Task
  <2>3. task'["operator"] = t
    BY <1>1, <2>1 DEF SetTask
  <2> HIDE DEF t
  <2> QED BY <2>1, <2>2, <2>3 DEF NoCancels
<1>8. CASE EnqueueCancel("operator") \/ CancelOrderRaises("operator")
  <2>1. SetTask("operator", Idle)
    BY <1>8 DEF EnqueueCancel, CancelOrderRaises
  <2> QED BY <1>1, <2>1 DEF SetTask
<1>9. CASE Operator
  BY <1>3, <1>4, <1>5, <1>6, <1>7, <1>8, <1>9 DEF Operator, Halt, Resume
<1>10. CASE \E o \in Order : AcceptIntent(o) \/ BlockIntent(o)
  BY <1>10 DEF AcceptIntent, BlockIntent
<1>11. CASE Sync \/ Crash \/ Boot \/ Environment \/ UNCHANGED vars
  BY <1>11 DEF Sync, SyncCollect, SyncAnswered, SyncFails, SyncSkips, SyncAsked, SyncSaves,
     SyncAborts, Crash, Boot, Restart, ReconcileResolved, ReconcileUnreachable, FinishRecovery,
     Environment, VenueFill, VenueCancels, LateArrival, vars
<1> QED BY <1>2, <1>8, <1>9, <1>10, <1>11 DEF Next

LEMMA NoCancelsStep ==
    ASSUME Base, NoCancels, [Next]_vars
    PROVE  NoCancels'
<1>1. \/ task'["operator"].pc \in {"idle", "save_resolved"}
      \/ task'["operator"].order \in Cancelable
  BY NoCancelsOperator DEF NoCancels, Idle
<1>2. /\ cmds \in [Command -> CommandState]
      /\ \A o \in Order : submit(o) \in Command /\ cancel(o) \in Command
      /\ \A o, p \in Order : submit(o) # cancel(p)
      /\ \A o, p \in Order : cancel(o) = cancel(p) => o = p
  BY SubmitNames DEF Base, TypeOK, cancel
<1> SUFFICES ASSUME NEW o \in Uncanceled PROVE cmds'[cancel(o)] = "none"
  BY <1>1 DEF NoCancels
<1>0. cmds[cancel(o)] = "none" /\ o \in Order /\ o \notin Cancelable
  BY UncanceledFacts DEF NoCancels
<1>3. CASE cmds' = cmds
  BY <1>0, <1>3
<1>4. ASSUME NEW p \in Order, NEW st, cmds' = [cmds EXCEPT ![submit(p)] = st]
      PROVE  cmds'[cancel(o)] = "none"
  BY <1>0, <1>2, <1>4
<1>5. ASSUME task["worker"].pc # "idle" \/ ClaimCommand, NEW st,
             cmds' = [cmds EXCEPT ![Current] = st]
      PROVE  cmds'[cancel(o)] = "none"
  <2>1. cmds[Current] # "none"
    <3>1. CASE task["worker"].pc # "idle"
      BY <3>1, WorkerAtWork
    <3>2. CASE ClaimCommand
      BY <3>2, BatchFacts DEF ClaimCommand
    <3> QED BY <1>5, <3>1, <3>2
  <2> QED BY <1>0, <1>2, <1>5, <2>1
<1>6. CASE ClaimCommand
  BY <1>5, <1>6 DEF ClaimCommand
<1>7. CASE MarkSent \/ MarkAcked \/ MarkFailed
  BY <1>5, <1>7 DEF MarkSent, MarkAcked, MarkFailed, FinishCommand, At
<1>8. ASSUME NEW p \in Order, AcceptIntent(p) \/ BlockIntent(p)
      PROVE  cmds'[cancel(o)] = "none"
  BY <1>3, <1>4, <1>8 DEF AcceptIntent, BlockIntent, EnqueueCommand
<1>9. ASSUME NEW a \in {"worker", "operator"}, EnqueueCancel(a)
      PROVE  cmds'[cancel(o)] = "none"
  <2> DEFINE p == task[a].order
  <2>1. task[a].pc = "enqueue"
    BY <1>9 DEF EnqueueCancel
  <2>2. p # o
    <3>1. CASE a = "worker"
      BY <2>1, <3>1, WorkerSubmits DEF SendingPc
    <3>2. CASE a = "operator"
      BY <1>0, <2>1, <3>2 DEF NoCancels
    <3> QED BY <3>1, <3>2
  <2>3. p \in Order
    <3>1. CASE a = "worker"
      BY <2>1, <3>1, WorkerAtWork
    <3>2. CASE a = "operator"
      BY <2>1, <3>2 DEF Base, OperatorOK
    <3> QED BY <3>1, <3>2
  <2>4. cmds' = cmds \/ cmds' = [cmds EXCEPT ![cancel(p)] = "PENDING"]
    BY <1>9 DEF EnqueueCancel, EnqueueCommand
  <2> QED BY <1>0, <1>2, <1>3, <2>2, <2>3, <2>4
<1>10. CASE AbandonSubmit
  <2>1. task["operator"].order \in Order
    BY <1>10 DEF AbandonSubmit, Base, OperatorOK
  <2> QED BY <1>4, <1>10, <2>1 DEF AbandonSubmit
<1>11. CASE Worker
  BY <1>3, <1>6, <1>7, <1>9, <1>11 DEF Worker, Poll, SkipCommand, Save, SaveRefused, SubmitDecided,
     SubmitBlocked, SubmitProceeds, PlaceDeclined, PlaceAccepted, PlaceRejected, PlaceTimesOut,
     ReadDetail, RecoverSubmit, PostOnlyTimeout, PostOnlyFallback, ProcessCancel,
     CancelLookup, CancelAccepted, CancelRejected, CancelTimesOut, CancelDetail, RecoverCancel,
     store
<1>12. CASE Operator \/ ClaimRaises \/ MarkRaises
            \/ \E a \in {"worker", "operator"} : CancelOrderRaises(a)
  BY <1>3, <1>9, <1>10, <1>12 DEF Operator, RequestCancel, ResolveStuckSubmission, Save,
     SaveRefused, Halt, Resume, ClaimRaises, MarkRaises, CancelOrderRaises, store
<1>13. CASE Sync \/ Crash \/ Boot \/ Environment \/ UNCHANGED vars
  BY <1>3, <1>13 DEF Sync, SyncCollect, SyncAnswered, SyncFails, SyncSkips, SyncAsked, SyncSaves,
     SyncAborts, Crash, Boot, Restart, ReconcileResolved, ReconcileUnreachable, FinishRecovery,
     Environment, VenueFill, VenueCancels, LateArrival, vars, store
<1> QED BY <1>8, <1>11, <1>12, <1>13 DEF Next


(* The worker stands, is done, takes up a submit command, or goes on.      *)
WorkerStepOf ==
    LET w == task["worker"]
        t == task'["worker"]
    IN  \/ t = w \/ t.pc = "idle"
        \/ /\ w.pc = "idle" /\ t.pc = "submit" /\ t.order \in Order
           /\ phase = "running" /\ ~halted
           /\ cmds[submit(t.order)] \in {"PENDING", "CLAIMED"} /\ UNCHANGED <<orders, preboot>>
        \/ /\ t.order = w.order /\ w.pc # "idle"
           /\ \/ t.pc \in {"sent", "ack", "fail"}
              \/ /\ w.pc = "submit" /\ t.pc \in {"save_blocked", "save_submitting"}
                 /\ ~Decided(orders[w.order]) /\ UNCHANGED <<orders, preboot>>
                 /\ t.pc = "save_submitting" => ~UnknownWriteBlocks(w.order)
              \/ w.pc = "save_submitting" /\ t.pc = "place"
              \/ /\ w.pc \in {"place", "detail", "recover"}
                 /\ t.pc \in {"detail", "recover", "save_result"} /\ UNCHANGED <<orders, preboot>>

LEMMA WorkerGoes ==
    ASSUME Base, NEW pc, NEW k, task["worker"].pc # "idle",
           Goto("worker", pc) \/ GotoWith("worker", pc, k)
    PROVE  task'["worker"].pc = pc /\ task'["worker"].order = task["worker"].order
<1> DEFINE w == task["worker"]
<1>1. PICK t : /\ SetTask("worker", t)
               /\ t \in {[w EXCEPT !.pc = pc, !.snap = k], [w EXCEPT !.pc = pc]}
  BY DEF GotoWith, Goto
<1>2. w \in Task
  BY WorkerAtWork
<1>3. t.pc = pc /\ t.order = w.order
  BY <1>1, <1>2 DEF Task
<1>4. task'["worker"] = t
  BY <1>1 DEF SetTask, Base, TypeOK
<1> QED BY <1>3, <1>4

(* The worker's own save takes it on.                                      *)
LEMMA WorkerSaveGoes ==
    ASSUME Base, NoCancels, task["worker"].order \in Uncanceled,
           Save("worker") \/ SaveRefused("worker")
    PROVE  LET w == task["worker"]
               t == task'["worker"]
           IN  /\ w.pc \in SendingPc /\ t.order = w.order
               /\ \/ t.pc \in {"sent", "fail"}
                  \/ w.pc = "save_submitting" /\ t.pc = "place"
<1> DEFINE w == task["worker"]
<1>2. w.pc # "idle" => w.pc \in SendingPc \cup {"submit", "sent", "ack", "fail"}
  BY WorkerSubmits
<1>1. w.pc \in SendingPc
  BY <1>2 DEF Save, SaveRefused, Saving
<1>3. CASE Save("worker")
  <2>1. /\ w.pc \in {"save_blocked", "save_submitting", "save_result"}
        /\ \E row : SetTask("worker", AfterSave("worker", w, row))
        /\ w \in Task /\ Current[1] = "submit"
    <3>1. w.pc \in Saving /\ w.pc # "idle"
      BY <1>3 DEF Save, Saving
    <3> QED BY <1>2, <1>3, <3>1, WorkerSubmits DEF Save, Saving, SendingPc, submit
  <2>2. PICK row : SetTask("worker", AfterSave("worker", w, row))
    BY <2>1
  <2> DEFINE t == AfterSave("worker", w, row)
  <2>3. /\ t.order = w.order
        /\ \/ t.pc = "sent"
           \/ w.pc = "save_submitting" /\ t.pc = "place"
    <3>1. CASE w.pc = "save_submitting"
      <4>1. t = [w EXCEPT !.pc = "place", !.snap = NoRow]
        BY <3>1 DEF AfterSave
      <4> QED BY <2>1, <3>1, <4>1 DEF Task
    <3>2. CASE w.pc \in {"save_blocked", "save_result"}
      <4>1. t = [w EXCEPT !.pc = "sent", !.snap = NoRow]
        BY <3>2, UncanceledFacts DEF AfterSave
      <4>2. w \in Task
        BY <2>1
      <4> HIDE DEF t
      <4>3. t.order = w.order /\ t.pc = "sent"
        BY <4>1, <4>2 DEF Task
      <4> QED BY <4>3
    <3> QED BY <2>1, <3>1, <3>2
  <2>4. task'["worker"] = t
    BY <2>2 DEF SetTask, Base, TypeOK
  <2> HIDE DEF t
  <2> QED BY <1>1, <2>1, <2>3, <2>4
<1>4. CASE SaveRefused("worker")
  <2>1. /\ w.pc \in {"save_blocked", "save_submitting", "save_result"}
        /\ SetTask("worker", AfterSaveRaises("worker", w)) /\ w \in Task
    <3>1. w.pc \in Saving /\ w.pc # "idle"
      BY <1>4 DEF SaveRefused, Saving
    <3> QED BY <1>2, <1>4, <3>1, WorkerSubmits DEF SaveRefused, Saving, SendingPc
  <2> DEFINE t == AfterSaveRaises("worker", w)
  <2>2. t.order = w.order /\ t.pc \in {"sent", "fail"}
    BY <2>1 DEF AfterSaveRaises, Task
  <2>3. task'["worker"] = t
    BY <2>1 DEF SetTask, Base, TypeOK
  <2> HIDE DEF t
  <2> QED BY <1>1, <2>1, <2>2, <2>3
<1> QED BY <1>1, <1>3, <1>4

(* The worker stays with its order, or goes over to a fallback.            *)
LEMMA WorkerKeepsOrder ==
    ASSUME Base, [Next]_vars, task["worker"].pc # "idle", task'["worker"].pc # "idle"
    PROVE  task'["worker"].order = task["worker"].order \/ task'["worker"].order \notin Originals
<1> DEFINE w == task["worker"]
           t == task'["worker"]
<1>1. w \in Task /\ task \in [{"worker", "operator"} -> Task]
  BY WorkerAtWork DEF Base, TypeOK
<1>2. ASSUME NEW x, SetTask("worker", x), x.order = w.order
      PROVE  t.order = w.order
  BY <1>1, <1>2 DEF SetTask
<1>6. CASE \/ Poll \/ SkipCommand \/ ClaimRaises \/ MarkAcked \/ MarkFailed
           \/ \E o \in Order : AcceptIntent(o) \/ BlockIntent(o)
           \/ CancelOrderRaises("operator") \/ Operator \/ Sync \/ Crash \/ Boot \/ Environment
           \/ UNCHANGED vars
  BY <1>6, WorkerStands DEF Idle
<1>7. ~ClaimCommand
  BY DEF ClaimCommand, WorkerFree, Idle
<1>8. ASSUME NEW pc, Goto("worker", pc) \/ \E k : GotoWith("worker", pc, k)
      PROVE  t.order = w.order
  BY <1>8, WorkerGoes
<1>9. CASE MarkSent \/ MarkRaises
  <2>1. SetTask("worker", Idle) \/ \E pc \in {"ack", "fail"} : Goto("worker", pc)
    BY <1>9 DEF MarkSent, MarkRaises
  <2>2. ~SetTask("worker", Idle)
    BY <1>1 DEF SetTask, Idle
  <2> QED BY <1>8, <2>1, <2>2
<1>10. CASE \/ SubmitDecided \/ SubmitBlocked \/ SubmitProceeds \/ PlaceDeclined
            \/ PlaceAccepted \/ PlaceRejected \/ PlaceTimesOut \/ ReadDetail \/ RecoverSubmit
  <2>1. \E pc : Goto("worker", pc) \/ \E k : GotoWith("worker", pc, k)
    BY <1>10 DEF SubmitDecided, SubmitBlocked, SubmitProceeds, PlaceDeclined, PlaceAccepted,
       PlaceRejected, PlaceTimesOut, ReadDetail, RecoverSubmit, PlaceResult
  <2> QED BY <1>8, <2>1
<1>11. CASE Save("worker")
  <2>1. PICK row : SetTask("worker", AfterSave("worker", w, row))
    BY <1>11 DEF Save
  <2>2. AfterSave("worker", w, row).order = w.order
    BY <1>1 DEF AfterSave, LocalCancel, Task
  <2> QED BY <1>2, <2>1, <2>2
<1>12. CASE SaveRefused("worker")
  <2>1. SetTask("worker", AfterSaveRaises("worker", w))
    BY <1>12 DEF SaveRefused
  <2>2. AfterSaveRaises("worker", w).order = w.order
    BY <1>1 DEF AfterSaveRaises, Task
  <2> QED BY <1>2, <2>1, <2>2
<1>13. CASE EnqueueCancel("worker") \/ CancelOrderRaises("worker")
  <2>1. \/ Goto("worker", "po_fallback")
        \/ SetTask("worker", [w EXCEPT !.pc = "sent", !.snap = NoRow])
    BY <1>13 DEF EnqueueCancel, CancelOrderRaises
  <2> DEFINE x == [w EXCEPT !.pc = "sent", !.snap = NoRow]
  <2>2. x.order = w.order
    BY <1>1 DEF Task
  <2> HIDE DEF x
  <2>3. Goto("worker", "po_fallback") \/ SetTask("worker", x)
    BY <2>1 DEF x
  <2> QED BY <1>2, <1>8, <2>2, <2>3
<1>14. CASE PostOnlyTimeout
  <2> DEFINE row == orders[w.order]
             x == [w EXCEPT !.pc = "save_pending", !.order = w.order,
                            !.snap = [row EXCEPT !.status = "CANCEL_PENDING"]]
  <2>1. \/ Goto("worker", "sent")
        \/ SetTask("worker", LocalCancel(w, w.order, row)) \/ SetTask("worker", x)
    BY <1>14 DEF PostOnlyTimeout, BeginCancel
  <2>2. LocalCancel(w, w.order, row).order = w.order /\ x.order = w.order
    BY <1>1 DEF LocalCancel, Task
  <2> HIDE DEF x
  <2> QED BY <1>2, <1>8, <2>1, <2>2
<1>15. CASE PostOnlyFallback
  <2> DEFINE f == FallbackOf[w.order]
             x == [w EXCEPT !.pc = "save_submitting", !.order = f, !.qty = w.snap.remaining_qty,
                            !.snap = SubmittingState(f, w.snap.remaining_qty)]
  <2>1. w.pc = "po_fallback" /\ (Goto("worker", "sent") \/ SetTask("worker", x))
    BY <1>15 DEF PostOnlyFallback, At
  <2>2. w.order \in PostOnly
    BY <2>1, WorkerAtWork DEF OnSubmit, OnCancel, PostOnlyPc, FallbackPc, CancelPc, EitherPc
  <2>3. x.order = f
    BY <1>1 DEF Task
  <2>4. f \notin Originals
    BY <2>2 DEF Originals
  <2> HIDE DEF x
  <2>5. SetTask("worker", x) => t = x
    BY <1>1 DEF SetTask
  <2> QED BY <1>8, <2>1, <2>3, <2>4, <2>5
<1>16. CASE \/ ProcessCancel \/ CancelLookup \/ CancelAccepted \/ CancelRejected
            \/ CancelTimesOut \/ CancelDetail \/ RecoverCancel
  <2>1. CASE ProcessCancel
    <3>1. \/ \E pc : Goto("worker", pc) \/ \E k : GotoWith("worker", pc, k)
          \/ SetTask("worker", LocalCancel(w, w.order, orders[w.order]))
      BY <2>1 DEF ProcessCancel
    <3>2. LocalCancel(w, w.order, orders[w.order]).order = w.order
      BY <1>1 DEF LocalCancel, Task
    <3> QED BY <1>2, <1>8, <3>1, <3>2
  <2>2. CASE \/ CancelLookup \/ CancelAccepted \/ CancelRejected
             \/ CancelTimesOut \/ CancelDetail \/ RecoverCancel
    <3>1. \E pc : Goto("worker", pc) \/ \E k : GotoWith("worker", pc, k)
      BY <2>2 DEF CancelLookup, CancelAccepted, CancelRejected, CancelTimesOut,
         CancelDetail, RecoverCancel
    <3> QED BY <1>8, <3>1
  <2> QED BY <1>16, <2>1, <2>2
<1>17. CASE Worker
  BY <1>6, <1>7, <1>9, <1>10, <1>11, <1>12, <1>13, <1>14, <1>15, <1>16, <1>17 DEF Worker
<1> QED BY <1>6, <1>9, <1>13, <1>17 DEF Next

LEMMA WorkerStepHolds ==
    ASSUME Base, NoCancels, [Next]_vars, task'["worker"].order \in Uncanceled
    PROVE  WorkerStepOf
<1> DEFINE w == task["worker"]
           t == task'["worker"]
<1> SUFFICES ASSUME t.pc # "idle" PROVE WorkerStepOf
  BY DEF WorkerStepOf
<1>1. CASE \/ Poll \/ SkipCommand \/ ClaimRaises \/ MarkAcked \/ MarkFailed
           \/ \E o \in Order : AcceptIntent(o) \/ BlockIntent(o)
           \/ CancelOrderRaises("operator") \/ Operator \/ Sync \/ Crash \/ Boot \/ Environment
           \/ UNCHANGED vars
  BY <1>1, WorkerStands DEF WorkerStepOf, Idle
<1>2. w.pc # "idle" => /\ w.pc \in SendingPc \cup {"submit", "sent", "ack", "fail"}
                       /\ w.order \in Uncanceled
  BY WorkerSubmits, WorkerKeepsOrder, UncanceledFacts
<1>3. CASE ClaimCommand
  <2>1. /\ w.pc = "idle" /\ phase = "running" /\ batch # <<>> /\ ~MustSkip(Head(batch))
        /\ UNCHANGED <<orders, preboot>>
    BY <1>3 DEF ClaimCommand, WorkerFree, Idle, boot
  <2>2. /\ Current[1] \in {"submit", "cancel"} /\ Current[2] \in Order
        /\ Current = Head(batch).cmd
        /\ Current = <<Current[1], Current[2]>> /\ cmds[Current] # "none"
    BY <2>1, BatchFacts
  <2>6. t.pc = Current[1] /\ t.order = Current[2]
    BY <1>3 DEF ClaimCommand, SetTask, Idle, Base, TypeOK
  <2>3. Current[1] = "submit" /\ Current = submit(Current[2])
    BY <2>2, <2>6 DEF NoCancels, cancel, submit
  <2>4. ~halted /\ cmds[Current] \in {"PENDING", "CLAIMED"}
    BY <2>1, <2>2, <2>3 DEF MustSkip
  <2>5. task'["worker"].pc = "submit" /\ task'["worker"].order = Current[2]
    BY <2>3, <2>6
  <2> QED BY <2>1, <2>2, <2>3, <2>4, <2>5 DEF WorkerStepOf
<1>4. CASE MarkSent \/ MarkRaises
  <2>1. w.pc \in {"sent", "ack", "fail"}
        /\ (SetTask("worker", Idle) \/ \E pc \in {"ack", "fail"} : Goto("worker", pc))
    BY <1>4 DEF MarkSent, MarkRaises, At
  <2>2. CASE SetTask("worker", Idle)
    BY <2>2 DEF SetTask, Base, TypeOK, WorkerStepOf, Idle
  <2> QED BY <2>1, <2>2, WorkerGoes DEF WorkerStepOf
<1>5. CASE SubmitDecided
  <2>1. w.pc = "submit" /\ Goto("worker", "sent")
    BY <1>5 DEF SubmitDecided, At
  <2> QED BY <2>1, WorkerGoes DEF WorkerStepOf
<1>6. CASE SubmitBlocked \/ SubmitProceeds
  <2>1. /\ w.pc = "submit" /\ ~Decided(orders[w.order]) /\ UNCHANGED <<orders, preboot>>
        /\ \E pc \in {"save_blocked", "save_submitting"} : \E k :
                /\ GotoWith("worker", pc, k)
                /\ pc = "save_submitting" => ~UnknownWriteBlocks(w.order)
    BY <1>6 DEF SubmitBlocked, SubmitProceeds, SubmitDue, At, Decided, store, boot
  <2> QED BY <2>1, WorkerGoes DEF WorkerStepOf
<1>7. CASE \/ PlaceDeclined \/ PlaceAccepted \/ PlaceRejected \/ PlaceTimesOut \/ ReadDetail
           \/ RecoverSubmit
  <2>1. /\ w.pc \in {"place", "detail", "recover"} /\ UNCHANGED <<orders, preboot>>
        /\ \E pc \in {"detail", "recover", "save_result"} :
                Goto("worker", pc) \/ \E k : GotoWith("worker", pc, k)
    BY <1>7 DEF PlaceDeclined, PlaceAccepted, PlaceRejected, PlaceTimesOut, ReadDetail,
       RecoverSubmit, PlaceResult, Placing, At, store, boot
  <2> QED BY <2>1, WorkerGoes DEF WorkerStepOf
<1>8. CASE Save("worker") \/ SaveRefused("worker")
  <2>1. w.pc # "idle"
    BY <1>8 DEF Save, SaveRefused, Saving
  <2> QED BY <1>2, <1>8, <2>1, WorkerSaveGoes DEF WorkerStepOf, SendingPc
<1>10. ~EnqueueCancel("worker") /\ ~CancelOrderRaises("worker")
  BY <1>2 DEF EnqueueCancel, CancelOrderRaises, SendingPc
<1>11. ~PostOnlyTimeout /\ ~PostOnlyFallback /\ ~ProcessCancel /\ ~CancelLookup
       /\ ~CancelAccepted /\ ~CancelRejected /\ ~CancelTimesOut /\ ~CancelDetail
       /\ ~RecoverCancel
  BY <1>2 DEF PostOnlyTimeout, PostOnlyFallback, ProcessCancel, CancelLookup, CancelAccepted,
     CancelRejected, CancelTimesOut, CancelDetail, RecoverCancel, At, SendingPc
<1>12. CASE Worker
  BY <1>1, <1>3, <1>4, <1>5, <1>6, <1>7, <1>8, <1>10, <1>11, <1>12 DEF Worker
<1> QED BY <1>1, <1>4, <1>10, <1>12 DEF Next

(* The rows from before the restart are only forgotten while the process   *)
(* runs.                                                                   *)
LEMMA PrebootShrinks ==
    ASSUME Base, [Next]_vars
    PROVE  preboot' \subseteq preboot \/ Restart
<1>1. CASE Worker \/ ClaimRaises \/ MarkRaises
           \/ \E a \in {"worker", "operator"} : CancelOrderRaises(a)
  BY <1>1 DEF Worker, Poll, SkipCommand, ClaimCommand, ClaimRaises, MarkSent, MarkAcked, MarkFailed,
     FinishCommand, MarkRaises, Save, SaveRefused, SubmitDecided, SubmitBlocked, SubmitProceeds,
     PlaceDeclined, PlaceAccepted, PlaceRejected, PlaceTimesOut, ReadDetail, RecoverSubmit,
     PostOnlyTimeout, PostOnlyFallback, EnqueueCancel, ProcessCancel, CancelLookup, CancelAccepted,
     CancelRejected, CancelTimesOut, CancelDetail, RecoverCancel, CancelOrderRaises, boot
<1>2. CASE Operator \/ \E o \in Order : AcceptIntent(o) \/ BlockIntent(o)
  BY <1>2 DEF Operator, RequestCancel, ResolveStuckSubmission, Save, SaveRefused,
     AbandonSubmit, EnqueueCancel, Halt, Resume, AcceptIntent, BlockIntent, boot
<1>3. CASE Sync \/ Crash \/ Boot \/ Environment \/ UNCHANGED vars
  BY <1>3 DEF Sync, SyncCollect, SyncAnswered, SyncFails, SyncSkips, SyncAsked, SyncSaves,
     SyncAborts, Crash, Boot, ReconcileResolved, ReconcileUnreachable, FinishRecovery,
     Environment, VenueFill, VenueCancels, LateArrival, vars, boot
<1> QED BY <1>1, <1>2, <1>3 DEF Next

(* Where the snapshots in the sync loop's lists come from.                 *)
LEMMA SyncListStep ==
    ASSUME Base, [Next]_vars, NEW o \in Order, NEW s
    PROVE  /\ ListHas(syncTodo', o, s) => ListHas(syncTodo, o, s) \/ RowIs(o, s)
           /\ ListHas(syncSave', o, s) =>
                \/ ListHas(syncSave, o, s)
                \/ /\ venue[o].state # "none" /\ s.status = MapStatus(venue[o])
                   /\ s.execution_error \in {"none", "other"}
                \/ \E k \in Snapshot :
                     /\ ListHas(syncTodo, o, k) /\ ~IsStuck(k)
                     /\ s.status = k.status /\ s.execution_error \in {k.execution_error, "other"}
<1>1. syncTodo \in Seq(Pending) /\ syncSave \in Seq(Pending)
  BY DEF Base, TypeOK
<1>2. CASE UNCHANGED <<syncTodo, syncSave>>
  BY <1>2
<1>3. CASE SyncCollect
  <2>1. syncSave' = syncSave
    BY <1>3 DEF SyncCollect
  <2> DEFINE open == {p \in Order : IsOpen(orders[p])}
             n == Cardinality(open)
  <2>2. PICK list \in [1..n -> open] :
             syncTodo' = [i \in 1..n |-> [order |-> list[i], snap |-> orders[list[i]]]]
    BY <1>3 DEF SyncCollect
  <2>3. n \in Nat
    BY OrderAssumption, FS_Subset, FS_CardinalityType
  <2> HIDE DEF n
  <2>4. ASSUME NEW i \in 1..n
        PROVE  list[i] \in Order /\ orders[list[i]] \in Snapshot /\ orders[list[i]] # NoRow
    <3>1. list[i] \in open
      BY <2>2
    <3> QED BY <3>1 DEF Base, TypeOK, IsOpen
  <2>5. syncTodo' \in [1..n -> Pending]
    BY <2>2, <2>4 DEF Pending
  <2>6. syncTodo' \in Seq(Pending)
    BY <2>3, <2>5
  <2>7. Len(syncTodo') = n
    BY <2>3, <2>5, <2>6, LenProperties
  <2>8. ListHas(syncTodo', o, s) => RowIs(o, s)
    BY <2>2, <2>4, <2>7 DEF ListHas, RowIs
  <2> QED BY <2>1, <2>8
<1>4. CASE SyncSkips
  <2>1. syncTodo' = Tail(syncTodo) /\ syncTodo # <<>> /\ syncSave' = syncSave
    BY <1>4 DEF SyncSkips
  <2>2. Head(syncTodo) \in Pending
    BY <2>1, PendingFacts
  <2> QED BY <1>1, <2>1, <2>2, ListSteps
<1>5. CASE SyncSaves \/ SyncAborts
  <2>1. syncTodo' = syncTodo /\ syncSave # <<>> /\ syncSave' \in {Tail(syncSave), <<>>}
    BY <1>5 DEF SyncSaves, SyncAborts
  <2>2. Head(syncSave) \in Pending
    BY <2>1, PendingFacts
  <2>3. CASE syncSave' = Tail(syncSave)
    BY <1>1, <2>1, <2>2, <2>3, ListSteps
  <2>4. CASE syncSave' = <<>>
    BY <2>1, <2>4, EmptySeq DEF ListHas
  <2> QED BY <2>1, <2>3, <2>4
<1>6. CASE Crash
  <2>1. syncTodo' = <<>> /\ syncSave' = <<>>
    BY <1>6 DEF Crash
  <2> QED BY <2>1, EmptySeq DEF ListHas
<1>7. CASE SyncAnswered \/ SyncFails
  <2> DEFINE h == Head(syncTodo)
             mapped == MapOrderState(h.order, venue[h.order])
  <2>1. PICK x : /\ syncTodo # <<>> /\ syncTodo' = Tail(syncTodo)
                 /\ syncSave' = Append(syncSave, [h EXCEPT !.snap = x])
                 /\ \/ ~IsStuck(h.snap) /\ x \in {h.snap, RecoverableOrderState(h.snap, "other")}
                    \/ /\ venue[h.order].state # "none"
                       /\ x \in {mapped, RecoverableOrderState(mapped, "other")}
    BY <1>7 DEF SyncAnswered, SyncFails, SyncAsked
  <2>2. h \in Pending /\ h.order \in Order /\ h.snap \in Snapshot
    BY <2>1, PendingFacts
  <2>3. mapped \in Snapshot
    BY <2>2, CancelSnapshots
  <2>4. ListHas(syncTodo, h.order, h.snap)
    BY <1>1, <2>1, <2>2, ListSteps
  <2>5. mapped.status = MapStatus(venue[h.order]) /\ mapped.execution_error = "none"
    BY DEF MapOrderState
  <2> HIDE DEF mapped
  <2>6. x \in Snapshot
    BY <2>1, <2>2, <2>3, BuiltSnapshots DEF ExecutionError
  <2>7. \/ /\ ~IsStuck(h.snap)
           /\ x.status = h.snap.status /\ x.execution_error \in {h.snap.execution_error, "other"}
        \/ /\ venue[h.order].state # "none" /\ x.status = MapStatus(venue[h.order])
           /\ x.execution_error \in {"none", "other"}
    BY <2>1, <2>2, <2>3, <2>5 DEF RecoverableOrderState, Snapshot
  <2> DEFINE e == [h EXCEPT !.snap = x]
  <2>8. e \in Pending /\ e.order = h.order /\ e.snap = x
    BY <2>2, <2>6 DEF Pending
  <2>9. syncSave' = Append(syncSave, e)
    BY <2>1
  <2>10. h \in Pending /\ syncTodo' = Tail(syncTodo) /\ syncTodo # <<>>
    BY <2>1, <2>2
  <2> HIDE DEF e, h
  <2>11. ListHas(syncTodo', o, s) => ListHas(syncTodo, o, s)
    BY <1>1, <2>10, ListSteps
  <2>12. ListHas(syncSave', o, s) => ListHas(syncSave, o, s) \/ (o = h.order /\ s = x)
    BY <1>1, <2>8, <2>9, ListSteps
  <2> QED BY <2>2, <2>4, <2>7, <2>11, <2>12
<1>8. CASE Worker \/ ClaimRaises \/ MarkRaises
           \/ \E a \in {"worker", "operator"} : CancelOrderRaises(a)
  BY <1>2, <1>8 DEF Worker, Poll, SkipCommand, ClaimCommand, ClaimRaises, MarkSent, MarkAcked,
     MarkFailed, FinishCommand, MarkRaises, Save, SaveRefused, SubmitDecided, SubmitBlocked,
     SubmitProceeds, PlaceDeclined, PlaceAccepted, PlaceRejected, PlaceTimesOut, ReadDetail,
     RecoverSubmit, PostOnlyTimeout, PostOnlyFallback, EnqueueCancel, ProcessCancel, CancelLookup,
     CancelAccepted, CancelRejected, CancelTimesOut, CancelDetail, RecoverCancel,
     CancelOrderRaises, syncer
<1>9. CASE Operator \/ \E p \in Order : AcceptIntent(p) \/ BlockIntent(p)
  BY <1>2, <1>9 DEF Operator, RequestCancel, ResolveStuckSubmission, Save, SaveRefused,
     AbandonSubmit, EnqueueCancel, Halt, Resume, AcceptIntent, BlockIntent, syncer
<1>10. CASE Boot \/ Environment \/ UNCHANGED vars
  BY <1>2, <1>10 DEF Boot, Restart, ReconcileResolved, ReconcileUnreachable, FinishRecovery,
     Environment, VenueFill, VenueCancels, LateArrival, vars, syncer
<1> QED BY <1>3, <1>4, <1>5, <1>6, <1>7, <1>8, <1>9, <1>10 DEF Next, Sync

(* An order that is neither at the exchange nor on its way there stays so  *)
(* unless it is sent; an order that has ended there has ended.             *)
Quiet(o) == venue[o].state = "none" /\ \A x \in wire : x[1] # o
Gone(o) == Quiet(o) \/ venue[o].state \in {"filled", "canceled"}

LEMMA QuietStays ==
    ASSUME Base, [Next]_vars, NEW o \in Order, Quiet(o),
           ~(WorkerAt(o, {"place"}) /\ (PlaceAccepted \/ PlaceTimesOut))
    PROVE  Quiet(o)'
<1>1. venue \in [Order -> [state : VenueState, qty : 0..Qty, filled : 0..Qty]]
      /\ wire \subseteq Order \X (1..Qty)
  BY DEF Base, TypeOK
<1>2. ASSUME NEW x \in wire' PROVE x[1] # o
  BY WireStep DEF Quiet, WorkerAt
<1>3. venue'[o].state = "none"
  <2>1. \/ venue'[o] = venue[o] \/ Resting(venue[o])
        \/ PlaceAccepted /\ WorkerAt(o, {"place"})
        \/ \E q : <<o, q>> \in wire
    BY VenueStepHolds DEF VenueStepOf
  <2>2. ~Resting(venue[o]) /\ \A q : <<o, q>> \notin wire
    BY <1>1 DEF Quiet, Resting
  <2> QED BY <2>1, <2>2 DEF Quiet
<1> QED BY <1>2, <1>3 DEF Quiet

LEMMA GoneStays ==
    ASSUME Base, [Next]_vars, NEW o \in Order, Gone(o),
           ~(WorkerAt(o, {"place"}) /\ (PlaceAccepted \/ PlaceTimesOut))
    PROVE  Gone(o)'
<1>1. CASE Quiet(o)
  BY <1>1, QuietStays DEF Gone
<1>2. CASE venue[o].state \in {"filled", "canceled"}
  BY <1>2, VenueForward DEF Gone
<1> QED BY <1>1, <1>2 DEF Gone

------------------------------------------------------------------------------
(* No order is orphaned that nobody cancels *)

(* What was never sent is not at the exchange; what is from before the     *)
(* restart is not on its way.                                              *)
NothingAhead ==
    /\ \A o \in Order : sends[o] = 0 => Quiet(o)
    /\ \A o \in preboot \cap Uncanceled : \A x \in wire : x[1] # o

(* The worker is at work on orders that were recorded in this runtime, and *)
(* what it is about to send is not decided on.                             *)
WorkerFresh(w, rows, old) ==
    w.order \in Uncanceled =>
    /\ w.pc \in SendingPc => w.order \notin old
    /\ w.pc = "submit" => w.order \notin old \/ Decided(rows[w.order])
    /\ w.pc \in {"save_submitting", "place"} => ~Decided(rows[w.order])

(* What the sync loop is about to save is decided on, here or at the       *)
(* exchange.                                                               *)
SyncDecided ==
    \A o \in Order, s \in Snapshot :
        /\ ListHas(syncTodo, o, s) /\ s.status \notin UndecidedStatus => Decided(orders[o])
        /\ ListHas(syncSave, o, s) =>
             s.status \notin UndecidedStatus /\ (Decided(orders[o]) \/ venue[o].state # "none")

(* The order that the operator resolves is from before the restart, or has *)
(* been decided on meanwhile.                                              *)
ResolvingOld ==
    task["operator"].pc = "save_resolved" /\ task["operator"].order \in Uncanceled =>
        LET o == task["operator"].order IN o \in preboot \/ Decided(orders[o])

(* A snapshot, wherever it is, shows an end only of an order that has      *)
(* ended, or never was, at the exchange.                                   *)
EndsAreReal ==
    \A o \in Uncanceled : \A s \in Snapshot : Known(o, s) /\ is_terminal(s.status) => Gone(o)

LiveInv ==
    /\ NoCancels /\ NothingAhead /\ SyncDecided /\ ResolvingOld /\ EndsAreReal
    /\ WorkerFresh(task["worker"], orders, preboot)

(* While the worker sends an order, nobody holds a decision on it.         *)
LEMMA NobodyDecided ==
    ASSUME Base, SendInv, LiveInv, task["worker"].order \in Uncanceled,
           task["worker"].pc \in {"save_submitting", "place"},
           NEW i \in Snapshot, Known(task["worker"].order, i)
    PROVE  i.status \in UndecidedStatus /\ Quiet(task["worker"].order)
<1> DEFINE o == task["worker"].order
<1>1. /\ o \in Order /\ o \notin preboot /\ ~Decided(orders[o]) /\ sends[o] = 0
      /\ (task["worker"].pc = "save_submitting" => task["worker"].snap.status = "SUBMITTING")
  BY WorkerSubmits DEF LiveInv, WorkerFresh, SendingPc, SendInv, WorkerUnsent
<1>2. Quiet(o) /\ venue[o].state = "none"
  BY <1>1 DEF LiveInv, NothingAhead, Quiet
<1>3. CASE RowIs(o, i)
  BY <1>1, <1>2, <1>3 DEF RowIs, Decided, UndecidedStatus
<1>4. CASE ListHas(syncTodo, o, i) \/ ListHas(syncSave, o, i)
  BY <1>1, <1>2, <1>4 DEF LiveInv, SyncDecided
<1>5. CASE WorkerHas(o, i)
  BY <1>1, <1>2, <1>5 DEF WorkerHas, SnapPc, Saving, UndecidedStatus
<1>6. CASE OperatorHas(o, i)
  BY <1>1, <1>6, UncanceledFacts DEF OperatorHas, LiveInv, NoCancels, ResolvingOld
<1> QED BY <1>2, <1>3, <1>4, <1>5, <1>6 DEF Known

(* A save of an undecided snapshot without fills leaves the order          *)
(* undecided.                                                              *)
LEMMA SaveUndecided ==
    ASSUME Epsilon = 0, NEW r \in Snapshot \cup {NoRow}, NEW i \in Snapshot,
           r # NoRow => r.status \in UndecidedStatus, i.status \in UndecidedStatus,
           SaveResult(r, i).filled_qty <= 0
    PROVE  SaveResult(r, i).status \in UndecidedStatus
<1> DEFINE s == SaveResult(r, i)
           taken == r = NoRow \/ accepted(validate_transition(r.status, i.status))
           from == IF taken THEN i.status ELSE r.status
<1>1. r \in OrderState \cup {NoRow} /\ i \in OrderState
  BY SnapshotFacts
<1>2. /\ s \in OrderState
      /\ \/ s.status = from
         \/ from = "SUBMITTED" /\ s.status = "PARTIALLY_FILLED"
         \/ s.status = "FILLED" /\ FullyFilled(s.filled_qty, s.requested_qty)
  BY <1>1, SaveValues
<1>3. s.filled_qty \in Int /\ s.requested_qty \in Int
  BY <1>2 DEF OrderState
<1>4. from \in UndecidedStatus
  OBVIOUS
<1>5. ~FullyFilled(s.filled_qty, s.requested_qty)
  BY <1>3 DEF FullyFilled
<1> QED BY <1>2, <1>4, <1>5 DEF UndecidedStatus

LEMMA RowStaysUndecided ==
    ASSUME Epsilon = 0, Base, Base', SendInv, SizeInv, FillsInv, LiveInv, [Next]_vars,
           task["worker"].pc \in {"save_submitting", "place"}, task["worker"].order \in Uncanceled
    PROVE  ~Decided(orders'[task["worker"].order])
<1> DEFINE o == task["worker"].order
<1>1. /\ o \in Order /\ orders[o] # NoRow /\ phase = "running" /\ ~Decided(orders[o])
      /\ orders[o] \in Snapshot
  BY WorkerSubmits DEF LiveInv, WorkerFresh, SendingPc, Base, TypeOK
<1>2. Known(o, orders[o])
  BY <1>1 DEF Known, RowIs
<1>3. venue[o].state = "none" /\ venue[o].filled = 0
  BY <1>1, <1>2, NobodyDecided DEF Quiet, FillsInv, VenueFills
<1>4. CASE orders'[o] = orders[o]
  BY <1>1, <1>4
<1>5. CASE Saved(o, orders'[o])
  <2>1. PICK i \in Snapshot : /\ Known(o, i) /\ ~SaveRaises(orders[o], i)
                              /\ orders'[o] = SaveResult(orders[o], i)
    BY <1>5 DEF Saved
  <2>2. i.status \in UndecidedStatus /\ orders[o].status \in UndecidedStatus
    BY <1>1, <2>1, NobodyDecided DEF Decided, UndecidedStatus
  <2>3. Real(SaveResult(orders[o], i), venue[o])
    BY <1>1, <2>1, SaveReal DEF SizeInv, FillsInv
  <2>4. SaveResult(orders[o], i).filled_qty <= 0
    BY <1>3, <2>3 DEF Real
  <2>5. SaveResult(orders[o], i).status \in UndecidedStatus
    BY <1>1, <2>1, <2>2, <2>4, SaveUndecided
  <2> QED BY <2>1, <2>5 DEF Decided, UndecidedStatus
<1> QED BY <1>1, <1>4, <1>5, RowStepHolds DEF RowStepOf, Fresh, Reconciled

LEMMA WorkerFreshStep ==
    ASSUME Epsilon = 0, Base, Base', SendInv, UndecidedHasNoId, SizeInv, FillsInv, LiveInv,
           [Next]_vars
    PROVE  WorkerFresh(task'["worker"], orders', preboot')
<1> DEFINE w == task["worker"]
           t == task'["worker"]
<1> SUFFICES ASSUME t.order \in Uncanceled PROVE WorkerFresh(t, orders', preboot')
  BY DEF WorkerFresh
<1>1. CASE t.pc = "idle"
  BY <1>1 DEF WorkerFresh, SendingPc
<1>2. CASE t.pc # "idle"
  <2>1. preboot' \subseteq preboot
    <3>1. ~Restart
      BY <1>2 DEF Restart, Base, StoppedIsIdle, Idle
    <3> QED BY <3>1, PrebootShrinks
  <2>2. \A o \in Order : Decided(orders[o]) => Decided(orders'[o])
    BY RowsGoForward DEF RowsForward, Forward, Decided
  <2>3. w.pc # "idle" => w.order \in Order
    BY WorkerAtWork
  <2>4. w.pc \in {"save_submitting", "place"} /\ w.order \in Uncanceled =>
          ~Decided(orders'[w.order])
    BY RowStaysUndecided
  <2>5. WorkerFresh(w, orders, preboot)
    BY DEF LiveInv
  <2>6. CASE t = w
    BY <1>2, <2>1, <2>2, <2>3, <2>4, <2>5, <2>6 DEF WorkerFresh
  <2>7. CASE /\ t.pc = "submit" /\ t.order \in Order /\ phase = "running" /\ ~halted
             /\ cmds[submit(t.order)] \in {"PENDING", "CLAIMED"} /\ UNCHANGED <<orders, preboot>>
    <3>1. t.order \in preboot => ~IsStuck(orders[t.order]) /\ orders[t.order] # NoRow
      BY <2>7 DEF Base, PrebootBlocked, Blocked
    <3>2. t.order \in preboot => Decided(orders[t.order])
      <4>1. orders[t.order] # NoRow => orders[t.order] \in Snapshot /\ HasNoId(orders[t.order])
        BY <2>7 DEF Base, TypeOK, UndecidedHasNoId, Known, RowIs
      <4> QED BY <3>1, <4>1 DEF IsStuck, Decided, HasNoId, UndecidedStatus
    <3> QED BY <2>7, <3>2 DEF WorkerFresh, SendingPc
  <2>8. CASE /\ t.order = w.order /\ w.pc # "idle"
             /\ \/ t.pc \in {"sent", "ack", "fail"}
                \/ /\ w.pc = "submit" /\ t.pc \in {"save_blocked", "save_submitting"}
                   /\ ~Decided(orders[w.order]) /\ UNCHANGED <<orders, preboot>>
    BY <2>5, <2>8 DEF WorkerFresh, SendingPc
  <2>9. CASE /\ t.order = w.order
             /\ \/ w.pc = "save_submitting" /\ t.pc = "place"
                \/ /\ w.pc \in {"place", "detail", "recover"}
                   /\ t.pc \in {"detail", "recover", "save_result"}
    BY <2>1, <2>4, <2>5, <2>9 DEF WorkerFresh, SendingPc
  <2>10. WorkerStepOf
    BY WorkerStepHolds DEF LiveInv
  <2> QED BY <1>2, <2>6, <2>7, <2>8, <2>9, <2>10 DEF WorkerStepOf
<1> QED BY <1>1, <1>2

LEMMA SyncDecidedStep ==
    ASSUME Base, Base', UndecidedHasNoId, SyncDecided, [Next]_vars
    PROVE  SyncDecided'
<1> SUFFICES ASSUME NEW o \in Order, NEW s \in Snapshot
             PROVE  /\ ListHas(syncTodo', o, s) /\ s.status \notin UndecidedStatus
                         => Decided(orders'[o])
                    /\ ListHas(syncSave', o, s) =>
                         /\ s.status \notin UndecidedStatus
                         /\ Decided(orders'[o]) \/ venue'[o].state # "none"
  BY DEF SyncDecided, ListHas, Decided
<1>1. Decided(orders[o]) => Decided(orders'[o])
  BY RowsGoForward DEF RowsForward, Forward, Decided
<1>2. venue[o].state # "none" => venue'[o].state # "none"
  BY VenueForward
<1>3. RowIs(o, s) /\ s.status \notin UndecidedStatus => Decided(orders[o])
  BY DEF RowIs, Decided, UndecidedStatus
<1>4. ListHas(syncTodo', o, s) => ListHas(syncTodo, o, s) \/ RowIs(o, s)
  BY SyncListStep
<1>5. ASSUME ListHas(syncSave', o, s)
      PROVE  /\ s.status \notin UndecidedStatus
             /\ Decided(orders[o]) \/ venue[o].state # "none"
  <2>1. CASE ListHas(syncSave, o, s)
    BY <2>1 DEF SyncDecided
  <2>2. CASE venue[o].state # "none" /\ s.status = MapStatus(venue[o])
    BY <2>2 DEF MapStatus, UndecidedStatus
  <2>3. ASSUME NEW k \in Snapshot, ListHas(syncTodo, o, k), ~IsStuck(k), s.status = k.status
        PROVE  s.status \notin UndecidedStatus /\ Decided(orders[o])
    <3>1. HasNoId(k) /\ k # NoRow
      BY <2>3, SnapshotFacts DEF UndecidedHasNoId, Known
    <3>2. k.status \notin UndecidedStatus
      BY <2>3, <3>1 DEF HasNoId, IsStuck, UndecidedStatus
    <3> QED BY <2>3, <3>2 DEF SyncDecided
  <2> QED BY <1>5, <2>1, <2>2, <2>3, SyncListStep
<1> QED BY <1>1, <1>2, <1>3, <1>4, <1>5 DEF SyncDecided

(* An order is sent by the worker alone, when it is at it.                 *)
LEMMA SendsStep ==
    ASSUME Base, [Next]_vars
    PROVE  \/ sends' = sends /\ ~PlaceAccepted /\ ~PlaceTimesOut
           \/ /\ task["worker"].pc = "place"
              /\ sends' = [sends EXCEPT ![task["worker"].order] = @ + 1]
<1>2. CASE PlaceAccepted \/ PlaceRejected \/ PlaceTimesOut
  BY <1>2 DEF PlaceAccepted, PlaceRejected, PlaceTimesOut, Sent, Placing, At
<1>3. CASE UNCHANGED sends /\ ~PlaceAccepted /\ ~PlaceTimesOut
  BY <1>3
<1>4. CASE Worker \/ ClaimRaises \/ MarkRaises
           \/ \E a \in {"worker", "operator"} : CancelOrderRaises(a)
  BY <1>2, <1>3, <1>4 DEF Worker, Poll, SkipCommand, ClaimCommand, ClaimRaises, MarkSent, MarkAcked,
     MarkFailed, FinishCommand, MarkRaises, Save, SaveRefused, SubmitDecided, SubmitBlocked,
     SubmitProceeds, PlaceDeclined, ReadDetail, RecoverSubmit,
     PostOnlyTimeout, PostOnlyFallback, EnqueueCancel, ProcessCancel, CancelLookup, CancelAccepted,
     CancelRejected, CancelTimesOut, CancelDetail, RecoverCancel, CancelOrderRaises, world
<1>5. CASE Operator \/ \E p \in Order : AcceptIntent(p) \/ BlockIntent(p)
  BY <1>2, <1>3, <1>5 DEF Operator, RequestCancel, ResolveStuckSubmission, Save, SaveRefused,
     AbandonSubmit, EnqueueCancel, Halt, Resume, AcceptIntent, BlockIntent, world
<1>6. CASE Sync \/ Crash \/ Boot \/ Environment \/ UNCHANGED vars
  BY <1>2, <1>3, <1>6 DEF Sync, SyncCollect, SyncAnswered, SyncFails, SyncSkips, SyncAsked,
     SyncSaves, SyncAborts, Crash, Boot, Restart, ReconcileResolved, ReconcileUnreachable,
     FinishRecovery, Environment, VenueFill, VenueCancels, LateArrival, vars, world
<1> QED BY <1>4, <1>5, <1>6 DEF Next

LEMMA SentByWorker ==
    ASSUME Base, [Next]_vars, NEW o \in Order
    PROVE  /\ sends'[o] = 0 => /\ sends[o] = 0
                               /\ ~(WorkerAt(o, {"place"}) /\ (PlaceAccepted \/ PlaceTimesOut))
           /\ sends'[o] > sends[o] => WorkerAt(o, {"place"})
<1>1. sends \in [Order -> Nat] /\ sends[o] \in Nat
  BY DEF Base, TypeOK
<1>2. CASE sends' = sends /\ ~PlaceAccepted /\ ~PlaceTimesOut
  BY <1>1, <1>2
<1>3. CASE /\ task["worker"].pc = "place"
           /\ sends' = [sends EXCEPT ![task["worker"].order] = @ + 1]
  <2>1. CASE task["worker"].order = o
    BY <1>1, <1>3, <2>1 DEF WorkerAt
  <2>2. CASE task["worker"].order # o
    BY <1>1, <1>3, <2>2 DEF WorkerAt
  <2> QED BY <2>1, <2>2
<1> QED BY <1>2, <1>3, SendsStep

LEMMA NothingAheadStep ==
    ASSUME Base, LiveInv, [Next]_vars
    PROVE  NothingAhead'
<1>1. ASSUME NEW o \in Order, sends'[o] = 0 PROVE Quiet(o)'
  <2>1. /\ sends[o] = 0
        /\ ~(WorkerAt(o, {"place"}) /\ (PlaceAccepted \/ PlaceTimesOut))
    BY <1>1, SentByWorker
  <2>2. Quiet(o)
    BY <2>1 DEF LiveInv, NothingAhead
  <2> QED BY <2>1, <2>2, QuietStays
<1>2. ASSUME NEW o \in preboot' \cap Uncanceled, NEW x \in wire' PROVE x[1] # o
  <2>1. CASE Restart
    BY <2>1 DEF Restart
  <2>2. CASE preboot' \subseteq preboot
    <3>1. o \in preboot
      BY <2>2
    <3>2. CASE x \in wire
      BY <3>1, <3>2 DEF LiveInv, NothingAhead
    <3>3. CASE task["worker"].pc = "place" /\ x = <<task["worker"].order, task["worker"].qty>>
      BY <3>1, <3>3 DEF LiveInv, WorkerFresh, SendingPc
    <3> QED BY <3>2, <3>3, WireStep
  <2> QED BY <2>1, <2>2, PrebootShrinks
<1> QED BY <1>1, <1>2 DEF NothingAhead

(* How an order ceases to be one from before the restart.                  *)
LEMMA PrebootLeaves ==
    ASSUME Base, [Next]_vars, NEW o \in preboot, o \notin preboot'
    PROVE  \/ Restart
           \/ \E a \in {"worker", "operator"} :
                (Save(a) \/ SaveRefused(a)) /\ task[a].order = o
           \/ \E s \in Snapshot : /\ ListHas(syncSave, o, s) /\ ~SaveRaises(orders[o], s)
                                  /\ orders'[o] = SaveResult(orders[o], s)
<1>1. orders \in [Order -> Snapshot \cup {NoRow}] /\ preboot \subseteq Order
  BY DEF Base, TypeOK
<1>2. ASSUME NEW a \in {"worker", "operator"}, Save(a) \/ SaveRefused(a)
      PROVE  task[a].order = o
  BY <1>2 DEF Save, SaveRefused
<1>3. CASE SyncSaves \/ SyncAborts
  <2> DEFINE h == Head(syncSave)
  <2>1. /\ syncSave # <<>> /\ syncSave \in Seq(Pending) /\ o = h.order
        /\ ~SaveRaises(orders[h.order], h.snap)
        /\ orders' = [orders EXCEPT ![h.order] = SaveResult(orders[h.order], h.snap)]
    BY <1>3 DEF SyncSaves, SyncAborts, Base, TypeOK
  <2>2. h \in Pending /\ h.order \in Order /\ h.snap \in Snapshot
    BY <2>1, PendingFacts
  <2>3. ListHas(syncSave, h.order, h.snap)
    BY <2>1, <2>2, ListSteps
  <2> HIDE DEF h
  <2>4. orders'[o] = SaveResult(orders[o], h.snap)
    BY <1>1, <2>1
  <2> QED BY <2>1, <2>2, <2>3, <2>4
<1>4. preboot' # preboot
  OBVIOUS
<1>5. CASE Worker \/ ClaimRaises \/ MarkRaises
           \/ \E a \in {"worker", "operator"} : CancelOrderRaises(a)
  <2>1. Save("worker") \/ SaveRefused("worker")
    BY <1>4, <1>5 DEF Worker, Poll, SkipCommand, ClaimCommand, ClaimRaises, MarkSent, MarkAcked,
     MarkFailed, FinishCommand, MarkRaises, SubmitDecided, SubmitBlocked, SubmitProceeds,
     PlaceDeclined, PlaceAccepted, PlaceRejected, PlaceTimesOut, ReadDetail, RecoverSubmit,
     PostOnlyTimeout, PostOnlyFallback, EnqueueCancel, ProcessCancel, CancelLookup, CancelAccepted,
     CancelRejected, CancelTimesOut, CancelDetail, RecoverCancel, CancelOrderRaises, boot
  <2> QED BY <1>2, <2>1
<1>6. CASE Operator \/ \E p \in Order : AcceptIntent(p) \/ BlockIntent(p)
  <2>1. Save("operator") \/ SaveRefused("operator")
    BY <1>4, <1>6 DEF Operator, RequestCancel, ResolveStuckSubmission, AbandonSubmit,
       EnqueueCancel, Halt, Resume, AcceptIntent, BlockIntent, boot
  <2> QED BY <1>2, <2>1
<1>7. CASE Sync \/ Crash \/ Boot \/ Environment \/ UNCHANGED vars
  <2>1. Restart \/ SyncSaves \/ SyncAborts
    BY <1>4, <1>7 DEF Sync, SyncCollect, SyncAnswered, SyncFails, SyncSkips, SyncAsked,
     Crash, Boot, ReconcileResolved, ReconcileUnreachable, FinishRecovery,
     Environment, VenueFill, VenueCancels, LateArrival, vars, boot
  <2> QED BY <1>3, <2>1
<1> QED BY <1>5, <1>6, <1>7 DEF Next

LEMMA ResolvingOldStep ==
    ASSUME Base, Base', LiveInv, [Next]_vars
    PROVE  ResolvingOld'
<1> DEFINE o == task'["operator"].order
<1> SUFFICES ASSUME task'["operator"].pc = "save_resolved", o \in Uncanceled
             PROVE  o \in preboot' \/ Decided(orders'[o])
  BY DEF ResolvingOld, Decided
<1>1. NoCancels /\ ResolvingOld /\ SyncDecided
  BY DEF LiveInv
<1>2. CASE task'["operator"] = task["operator"]
  <2>1. o \in preboot \/ Decided(orders[o])
    BY <1>1, <1>2 DEF ResolvingOld
  <2>2. task["operator"].pc = "save_resolved" /\ o \in Order
    BY <1>2 DEF Base, OperatorOK
  <2>3. CASE Decided(orders[o])
    BY <2>2, <2>3, RowsGoForward DEF RowsForward, Forward, Decided
  <2>4. CASE o \in preboot /\ o \notin preboot'
    <3>1. ~Restart
      BY <2>2 DEF Restart, Base, StoppedIsIdle, Idle
    <3>2. ~((Save("worker") \/ SaveRefused("worker")) /\ task["worker"].order = o)
      <4> SUFFICES ASSUME Save("worker") \/ SaveRefused("worker"), task["worker"].order = o
                   PROVE  FALSE
        OBVIOUS
      <4>1. task["worker"].pc \in Saving
        BY DEF Save, SaveRefused
      <4>2. task["worker"].pc \in SendingPc
        BY <1>1, <4>1, WorkerSubmits DEF Saving
      <4> QED BY <2>4, <4>2 DEF LiveInv, WorkerFresh
    <3>3. ~(Save("operator") \/ SaveRefused("operator"))
      <4> SUFFICES ASSUME Save("operator") \/ SaveRefused("operator") PROVE FALSE
        OBVIOUS
      <4>1. \A row : AfterSave("operator", task["operator"], row) = Idle
        BY <2>2 DEF AfterSave
      <4>2. AfterSaveRaises("operator", task["operator"]) = Idle
        BY DEF AfterSaveRaises
      <4>3. SetTask("operator", Idle)
        BY <4>1, <4>2 DEF Save, SaveRefused
      <4> QED BY <4>3 DEF SetTask, Base, TypeOK, Idle
    <3>4. ASSUME NEW s \in Snapshot, ListHas(syncSave, o, s), ~SaveRaises(orders[o], s),
                 orders'[o] = SaveResult(orders[o], s)
          PROVE  Decided(orders'[o])
      <4>1. s.status \notin UndecidedStatus
        BY <1>1, <2>2, <3>4 DEF SyncDecided
      <4>3. orders[o] \in Snapshot \cup {NoRow}
        BY <2>2 DEF Base, TypeOK
      <4> DEFINE row == orders[o]
                 n == orders'[o]
      <4>4. /\ row \in Snapshot \cup {NoRow} /\ ~SaveRaises(row, s) /\ n = SaveResult(row, s)
            /\ s.status \notin {"CREATED", "SUBMITTING"}
        BY <3>4, <4>1, <4>3 DEF UndecidedStatus
      <4> HIDE DEF row, n
      <4>5. n \in Snapshot /\ n.status \notin {"CREATED", "SUBMITTING"}
        BY <4>4, SaveTakes
      <4>2. orders'[o] \in Snapshot /\ orders'[o].status \notin {"CREATED", "SUBMITTING"}
        BY <4>5 DEF n
      <4> QED BY <4>2, SnapshotFacts DEF Decided
    <3> QED BY <2>4, <3>1, <3>2, <3>3, <3>4, PrebootLeaves
  <2> QED BY <2>1, <2>3, <2>4
<1>3. CASE task'["operator"] = Idle
  BY <1>3 DEF Idle
<1>4. CASE \E p \in Order : ResolveStuckSubmission(p) /\ task'["operator"].order = p
  BY <1>4 DEF ResolveStuckSubmission, boot
<1> QED BY <1>1, <1>2, <1>3, <1>4, NoCancelsOperator

(* A source shows an end only of an order that is gone at the exchange.    *)
LEMMA SourceEnds ==
    ASSUME Epsilon = 0, Base, SendInv, SizeInv, FillsInv, LiveInv,
           NEW o \in Uncanceled, NEW k \in Snapshot, Source(o, k), is_terminal(k.status)
    PROVE  Gone(o)
<1>0. o \in Order /\ \A p \in PostOnly : o # FallbackOf[p]
  BY UncanceledFacts
<1>1. CASE k.status = "FILLED"
  BY <1>0, <1>1, SourceReal DEF Real, Gone
<1>2. CASE Known(o, k)
  BY <1>2 DEF LiveInv, EndsAreReal
<1>3. orders[o] \in Snapshot \cup {NoRow}
      /\ (orders[o] # NoRow /\ is_terminal(orders[o].status) => Gone(o))
      /\ (sends[o] = 0 => Quiet(o))
  BY <1>0 DEF Base, TypeOK, LiveInv, EndsAreReal, NothingAhead, Known, RowIs
<1>4. ASSUME NEW i \in Snapshot, k = SaveResult(orders[o], i), is_terminal(i.status) => Gone(o)
      PROVE  Gone(o)
  <2> DEFINE row == orders[o]
             from == IF row = NoRow \/ accepted(validate_transition(row.status, i.status))
                     THEN i.status ELSE row.status
  <2>1. row \in OrderState \cup {NoRow} /\ i \in OrderState
    BY <1>3, SnapshotFacts
  <2>3. k.status = from \/ k.status = "PARTIALLY_FILLED" \/ k.status = "FILLED"
    BY <1>4, <2>1, SaveValues
  <2>2. \/ k.status = i.status
        \/ orders[o] # NoRow /\ k.status = orders[o].status
        \/ k.status = "PARTIALLY_FILLED" \/ k.status = "FILLED"
    BY <2>3
  <2> QED BY <1>1, <1>3, <1>4, <2>2 DEF is_terminal, TERMINAL_ORDER_STATES
<1>5. CASE Mapped(o, k)
  BY <1>5 DEF Mapped, MapOrderState, MapStatus, Gone, is_terminal, TERMINAL_ORDER_STATES
<1>6. CASE Built(o, k)
  <2>1. CASE (WorkerAt(o, {"submit"}) /\ ~Decided(orders[o])) \/ WorkerAt(o, {"place"})
    BY <1>3, <2>1 DEF WorkerAt, SendInv, WorkerUnsent, Gone
  <2>2. CASE k.status = "SUBMITTED"
    BY <2>2 DEF is_terminal, TERMINAL_ORDER_STATES
  <2> QED BY <1>6, <2>1, <2>2 DEF Built, SubmittedState, SubmissionUnknown, IntentState
<1>7. CASE Submitting(o, k)
  <2>1. k = SubmittingState(o, Qty)
    BY <1>0, <1>7 DEF Submitting
  <2>2. CASE orders[o] = NoRow
    BY <2>1, <2>2 DEF SubmittingState, IntentState, is_terminal, TERMINAL_ORDER_STATES
  <2>3. CASE orders[o] # NoRow
    <3>1. k = [orders[o] EXCEPT !.status = "SUBMITTING",
                                !.requested_qty = Qty, !.remaining_qty = Qty]
      BY <2>1, <2>3 DEF SubmittingState
    <3>2. k.status = "SUBMITTING"
      BY <1>3, <2>3, <3>1 DEF Snapshot
    <3> QED BY <3>2 DEF is_terminal, TERMINAL_ORDER_STATES
  <2> QED BY <2>2, <2>3
<1>8. CASE Saved(o, k)
  <2>1. PICK i \in Snapshot : Known(o, i) /\ k = SaveResult(orders[o], i)
    BY <1>8 DEF Saved
  <2> QED BY <1>4, <2>1 DEF LiveInv, EndsAreReal
<1>9. CASE Fresh(o, k)
  <2>1. orders[o] = NoRow
    BY <1>9 DEF Fresh
  <2>2. sends[o] = 0
    BY <1>0, <2>1 DEF Base, TypeOK, RecordedBeforeSent
  <2> QED BY <1>3, <2>2 DEF Gone
<1>10. CASE Reconciled(o, k)
  <2> DEFINE r == ResolvedOrderState(o, orders[o], venue[o])
  <2>1. o \in unresolved /\ venue[o].state # "none" /\ k = SaveResult(orders[o], r)
    BY <1>10 DEF Reconciled
  <2>2. /\ orders[o] \in Snapshot /\ r \in Snapshot
        /\ \/ r = [orders[o] EXCEPT !.status = "SUBMITTED", !.exchange_order_id = o]
           \/ venue[o].state = "canceled"
           \/ venue[o].state = "filled"
    BY <1>0, <2>1, ResolvedSnapshot
  <2>3. r.status = "SUBMITTED" \/ venue[o].state \in {"canceled", "filled"}
    BY <2>2 DEF Snapshot
  <2> HIDE DEF r
  <2> QED BY <1>4, <2>1, <2>2, <2>3 DEF Gone, is_terminal, TERMINAL_ORDER_STATES
<1> QED BY <1>2, <1>5, <1>6, <1>7, <1>8, <1>9, <1>10 DEF Source

LEMMA EndsAreRealStep ==
    ASSUME Epsilon = 0, Base, Base', SendInv, SizeInv, FillsInv, LiveInv, [Next]_vars
    PROVE  EndsAreReal'
<1> SUFFICES ASSUME NEW o \in Uncanceled, NEW s \in Snapshot, Known(o, s)', is_terminal(s.status)
             PROVE  Gone(o)'
  BY DEF EndsAreReal
<1>0. o \in Order
  BY UncanceledFacts
<1>1. ASSUME WorkerAt(o, {"place"}), PlaceAccepted \/ PlaceTimesOut
      PROVE  FALSE
  <2>1. UNCHANGED <<orders, syncTodo, syncSave>> /\ \E pc \in {"detail", "recover"} : Goto("worker", pc)
    BY <1>1 DEF PlaceAccepted, PlaceTimesOut, store, syncer
  <2>2. task["worker"].pc = "place" /\ task["worker"].order = o
    BY <1>1 DEF WorkerAt
  <2>3. task'["worker"].pc \in {"detail", "recover"}
    BY <2>1, <2>2, WorkerGoes
  <2>4. task'["operator"] = task["operator"]
    BY <2>1 DEF Goto, SetTask, Base, TypeOK
  <2>5. Known(o, s)
    BY <2>1, <2>3, <2>4 DEF Known, RowIs, WorkerHas, OperatorHas, SnapPc, Saving
  <2>6. s.status \in UndecidedStatus
    BY <2>2, <2>5, NobodyDecided
  <2> QED BY <2>6 DEF UndecidedStatus, is_terminal, TERMINAL_ORDER_STATES
<1>2. PICK k \in Snapshot : Source(o, k) /\ Edited(o, k, s)
  BY <1>0, Origin DEF Derived
<1>3. Gone(o)
  <2>1. CASE s.status = k.status
    BY <1>2, <2>1, SourceEnds
  <2>2. CASE Resolving(o)
    <3>1. o \in preboot /\ ~Resting(venue[o]) /\ venue[o].state \in VenueState
      BY <1>0, <2>2 DEF Resolving, Base, TypeOK
    <3>2. \A x \in wire : x[1] # o
      BY <3>1 DEF LiveInv, NothingAhead
    <3> QED BY <3>1, <3>2 DEF Gone, Quiet, Resting, VenueState
  <2>3. ~Canceling(o)
    BY NotCanceling DEF LiveInv
  <2> QED BY <1>2, <2>1, <2>2, <2>3 DEF Edited
<1> QED BY <1>0, <1>1, <1>3, GoneStays

LEMMA LiveInvStep ==
    ASSUME Epsilon = 0, Base, Base', SendInv, SizeInv, FillsInv, UndecidedHasNoId, LiveInv,
           [Next]_vars
    PROVE  LiveInv'
<1>1. NoCancels' /\ NothingAhead' /\ SyncDecided' /\ ResolvingOld' /\ EndsAreReal'
  BY NoCancelsStep, NothingAheadStep, SyncDecidedStep, ResolvingOldStep, EndsAreRealStep DEF LiveInv
<1>2. WorkerFresh(task["worker"], orders, preboot)'
  BY WorkerFreshStep DEF WorkerFresh, Decided
<1> QED BY <1>1, <1>2 DEF LiveInv

LEMMA FillsAlways ==
    ASSUME Epsilon = 0
    PROVE  Spec => []FillsInv
<1>1. Init => FillsInv
  <2> SUFFICES ASSUME Init PROVE FillsInv
    OBVIOUS
  <2>1. VenueFills
    BY DEF Init, VenueFills
  <2> QED BY <2>1, NothingKnownAtFirst DEF FillsInv
<1>2. Base /\ Base' /\ SizeInv /\ FillsInv /\ [Next]_vars => FillsInv'
  BY FillsStep
<1> QED BY <1>1, <1>2, SizesAlways, Invariant, PTL DEF Spec

(* No order is orphaned that nobody cancels: what rests at the exchange is *)
(* an open order here, whatever crashed, was restarted, resolved by hand,  *)
(* answered late or happened to other orders, their cancels and fallbacks  *)
(* included, as long as at most one database write failed.  A cancel that  *)
(* the exchange refuses, or a local one while the submit is under way, can *)
(* orphan the order it is for.                                             *)
THEOREM NoOrphans ==
    ASSUME Epsilon = 0
    PROVE  Spec => [](faults.db <= 1 => LiveOrderIsOpenLocally)
<1> DEFINE Inv == UndecidedHasNoId /\ (faults.db <= 1 => SendInv /\ LiveInv)
<1>1. Init => Inv
  <2> SUFFICES ASSUME Init PROVE Inv
    OBVIOUS
  <2>1. ASSUME NEW o \in Order, NEW s PROVE ~Known(o, s)
    BY NothingKnownAtFirst
  <2>2. SendInv
    BY DEF Init, SendInv, NoResend, WorkerUnsent, Idle, Originals
  <2>3. NoCancels /\ NothingAhead /\ ResolvingOld
    BY SubmitNames, UncanceledFacts DEF Init, NoCancels, NothingAhead, ResolvingOld, Quiet, Idle
  <2>4. SyncDecided /\ EndsAreReal
    BY <2>1, UncanceledFacts DEF SyncDecided, EndsAreReal, Known
  <2>5. WorkerFresh(task["worker"], orders, preboot)
    BY DEF Init, WorkerFresh, Idle, SendingPc
  <2> QED BY <2>1, <2>2, <2>3, <2>4, <2>5 DEF UndecidedHasNoId, LiveInv
<1>2. Base /\ Base' /\ SizeInv /\ FillsInv /\ Inv /\ [Next]_vars => Inv'
  <2> SUFFICES ASSUME Base, Base', SizeInv, FillsInv, Inv, [Next]_vars PROVE Inv'
    OBVIOUS
  <2>1. UndecidedHasNoId'
    BY UndecidedHasNoIdStep
  <2>2. ASSUME faults'.db <= 1 PROVE SendInv' /\ LiveInv'
    <3>1. faults.db <= 1
      BY <2>2, DbFaultsGrow
    <3>2. SendInv'
      BY <2>2, <3>1, SendInvStep
    <3>3. LiveInv'
      BY <3>1, LiveInvStep
    <3> QED BY <3>2, <3>3
  <2> QED BY <2>1, <2>2
<1>3. Base /\ SizeInv /\ Inv => (faults.db <= 1 => LiveOrderIsOpenLocally)
  <2> SUFFICES ASSUME Base, SizeInv, LiveInv, NEW o \in Uncanceled, Resting(venue[o])
               PROVE  IsOpen(orders[o])
    BY DEF LiveOrderIsOpenLocally
  <2>0. o \in Order
    BY UncanceledFacts
  <2>1. orders[o] # NoRow /\ orders[o] \in Snapshot
    BY <2>0 DEF SizeInv, VenueSized, Resting, Base, TypeOK
  <2>2. ~Gone(o)
    BY DEF Gone, Quiet, Resting
  <2>3. ~is_terminal(orders[o].status)
    BY <2>1, <2>2 DEF LiveInv, EndsAreReal, Known, RowIs
  <2> QED BY <2>1, <2>3 DEF IsOpen, is_terminal, Snapshot, OrderLifecycleStatus
<1> QED BY <1>1, <1>2, <1>3, FillsAlways, SizesAlways, Invariant, PTL DEF Spec

------------------------------------------------------------------------------
(* Nothing that adds risk is sent past an unknown write *)

(* The row is open and its last write has an unknown outcome; the row has  *)
(* ended; an undecided snapshot carries no such marker.                    *)
OpenMarked(r) == IsOpen(r) /\ UnknownWriteState(r)
Ended(r) == r # NoRow /\ is_terminal(r.status)
Unmarked(s) == s.status \in UndecidedStatus => ~UnknownWriteState(s)
UndecidedUnmarked == \A o \in Uncanceled : \A s \in Snapshot : Known(o, s) => Unmarked(s)

(* The sync loop holds an order once.                                      *)
Apart(todo, save) ==
    /\ \A i, j \in 1..Len(todo) : i # j => todo[i].order # todo[j].order
    /\ \A i, j \in 1..Len(save) : i # j => save[i].order # save[j].order
    /\ \A i \in 1..Len(todo), j \in 1..Len(save) : todo[i].order # save[j].order

(* A marker in the sync loop's lists is still on the row, or the order has *)
(* ended: a stale snapshot does not bring a marker back.                   *)
SyncMarks ==
    \A o \in Uncanceled, s \in Snapshot :
        (ListHas(syncTodo, o, s) \/ ListHas(syncSave, o, s)) /\ UnknownWriteState(s)
            => OpenMarked(orders[o]) \/ Ended(orders[o])

(* What the worker is about to send has no marker, and if it adds risk     *)
(* nothing has that nobody cancels.                                        *)
WorkerUnmarked(w, rows) ==
    /\ w.pc \in SendingPc /\ w.order \in Uncanceled => ~OpenMarked(rows[w.order])
    /\ w.pc \in {"save_submitting", "place"} /\ w.order \in Originals \ Reducing
         => \A p \in Uncanceled : ~OpenMarked(rows[p])

OperatorUnmarked ==
    task["operator"].pc = "save_resolved" =>
        task["operator"].snap.status = "FAILED" /\ task["operator"].snap.execution_error = "other"

MarkInv ==
    /\ NoCancels /\ UndecidedUnmarked /\ SyncMarks /\ OperatorUnmarked
    /\ Apart(syncTodo, syncSave)
    /\ WorkerUnmarked(task["worker"], orders)

LEMMA SaveUnmarked ==
    ASSUME NEW r \in Snapshot \cup {NoRow}, NEW i \in Snapshot, ~SaveRaises(r, i),
           r # NoRow => Unmarked(r), Unmarked(i)
    PROVE  Unmarked(SaveResult(r, i))
<1> DEFINE s == SaveResult(r, i)
           taken == r = NoRow \/ accepted(validate_transition(r.status, i.status))
           from == IF taken THEN i.status ELSE r.status
<1>1. r \in OrderState \cup {NoRow} /\ i \in OrderState
      /\ i.status \in OrderLifecycleStatus /\ (r # NoRow => r.status \in OrderLifecycleStatus)
  BY SnapshotFacts DEF OrderState
<1>2. /\ \/ s.status = from
         \/ s.status = "PARTIALLY_FILLED" \/ s.status = "FILLED"
      /\ s.execution_error \in {"none", i.execution_error}
           \/ (r # NoRow /\ s.execution_error = r.execution_error)
  BY <1>1, SaveValues
<1>3. r # NoRow =>
        /\ taken => (r.status \notin UndecidedStatus => i.status \notin UndecidedStatus)
        /\ ~taken => (i.status \notin UndecidedStatus => r.status \notin UndecidedStatus)
  BY <1>1, StatusSteps DEF SaveRaises, UndecidedStatus
<1> HIDE DEF s
<1>4. s.status \in UndecidedStatus => ~UnknownWriteState(s)
  BY <1>2, <1>3 DEF Unmarked, UnknownWriteState, UndecidedStatus
<1> QED BY <1>4 DEF Unmarked, s

LEMMA SourceUnmarked ==
    ASSUME Base, UndecidedUnmarked, NEW o \in Uncanceled, NEW k \in Snapshot, Source(o, k)
    PROVE  Unmarked(k)
<1>0. o \in Order
  BY UncanceledFacts
<1>1. orders[o] \in Snapshot \cup {NoRow}
      /\ (orders[o] # NoRow => Unmarked(orders[o]))
  BY <1>0 DEF Base, TypeOK, UndecidedUnmarked, Known, RowIs
<1>2. CASE Known(o, k)
  BY <1>2 DEF UndecidedUnmarked
<1>3. CASE Mapped(o, k)
  BY <1>3 DEF Mapped, MapOrderState, Unmarked, UnknownWriteState
<1>4. CASE Built(o, k)
  BY <1>4 DEF Built, Unmarked, UndecidedStatus, UnknownWriteState, IntentState, SubmittedState,
     SubmissionUnknown
<1>5. CASE Submitting(o, k)
  <2>1. CASE orders[o] = NoRow
    BY <1>5, <2>1 DEF Submitting, SubmittingState, IntentState, Unmarked, UnknownWriteState
  <2>2. CASE orders[o] # NoRow
    <3>1. /\ orders[o].status \in UndecidedStatus /\ orders[o] \in Snapshot
          /\ k = [orders[o] EXCEPT !.status = "SUBMITTING",
                                   !.requested_qty = Qty, !.remaining_qty = Qty]
      BY <1>1, <1>5, <2>2 DEF Submitting, Decided, UndecidedStatus, SubmittingState
    <3>2. k.execution_error = orders[o].execution_error
      BY <3>1 DEF Snapshot
    <3> QED BY <1>1, <2>2, <3>1, <3>2 DEF Unmarked, UnknownWriteState
  <2> QED BY <2>1, <2>2
<1>6. CASE Saved(o, k)
  <2>1. PICK i \in Snapshot : Known(o, i) /\ ~SaveRaises(orders[o], i)
                              /\ k = SaveResult(orders[o], i)
    BY <1>6 DEF Saved
  <2>2. Unmarked(i)
    BY <2>1 DEF UndecidedUnmarked
  <2> QED BY <1>1, <2>1, <2>2, SaveUnmarked
<1>7. CASE Fresh(o, k)
  <2>1. PICK st \in {"CREATED", "BLOCKED"}, e \in {"none", "other"} :
            k = Normalize(IntentState(st, Qty, e))
    BY <1>7 DEF Fresh
  <2> DEFINE i == IntentState(st, Qty, e)
  <2>2. i \in Snapshot /\ Unmarked(i)
    <3>1. st \in OrderLifecycleStatus /\ e \in ExecutionError /\ Qty \in 1..Qty
      BY BoundsAssumption DEF OrderLifecycleStatus, TERMINAL_ORDER_STATES, OPEN_ORDER_STATES,
         ExecutionError
    <3>2. i \in Snapshot
      BY <3>1, BuiltSnapshots
    <3> QED BY <3>2 DEF IntentState, Unmarked, UnknownWriteState
  <2>3. k = SaveResult(NoRow, i) /\ ~SaveRaises(NoRow, i)
    BY <2>1 DEF SaveResult, SaveRaises
  <2> HIDE DEF i
  <2> QED BY <2>2, <2>3, SaveUnmarked
<1>8. CASE Reconciled(o, k)
  <2> DEFINE r == ResolvedOrderState(o, orders[o], venue[o])
  <2>1. /\ o \in unresolved /\ venue[o].state # "none"
        /\ k = SaveResult(orders[o], r) /\ ~SaveRaises(orders[o], r)
    BY <1>8 DEF Reconciled
  <2>2. r \in Snapshot /\ r.status \in {"SUBMITTED", "CANCELED", "FILLED"}
    BY <1>0, <2>1, ResolvedFacts
  <2>3. Unmarked(r)
    BY <2>2 DEF Unmarked, UndecidedStatus
  <2> HIDE DEF r
  <2> QED BY <1>1, <2>1, <2>2, <2>3, SaveUnmarked
<1> QED BY <1>2, <1>3, <1>4, <1>5, <1>6, <1>7, <1>8 DEF Source

LEMMA UndecidedUnmarkedStep ==
    ASSUME Base, Base', NoCancels, UndecidedUnmarked, [Next]_vars
    PROVE  UndecidedUnmarked'
<1> SUFFICES ASSUME NEW o \in Uncanceled, NEW s \in Snapshot, Known(o, s)'
             PROVE  Unmarked(s)
  BY DEF UndecidedUnmarked
<1>1. PICK k \in Snapshot : Source(o, k) /\ Edited(o, k, s)
  BY Origin, UncanceledFacts DEF Derived
<1>2. Unmarked(k)
  BY <1>1, SourceUnmarked
<1>3. ~Canceling(o)
  BY NotCanceling
<1> QED BY <1>1, <1>2, <1>3 DEF Edited, Unmarked, UndecidedStatus, UnknownWriteState

(* Who writes the row of an order.                                         *)
LEMMA RowWriter ==
    ASSUME Base, [Next]_vars, NEW o \in Order, orders'[o] # orders[o]
    PROVE  \/ \E a \in {"worker", "operator"} :
                /\ Save(a) \/ SaveRefused(a)
                /\ task[a].order = o /\ ~SaveRaises(orders[o], task[a].snap)
                /\ orders'[o] = SaveResult(orders[o], task[a].snap)
           \/ /\ SyncSaves \/ SyncAborts
              /\ Head(syncSave).order = o /\ ~SaveRaises(orders[o], Head(syncSave).snap)
              /\ orders'[o] = SaveResult(orders[o], Head(syncSave).snap)
           \/ Fresh(o, orders'[o])
           \/ Reconciled(o, orders'[o]) /\ UNCHANGED <<syncTodo, syncSave>>
<1>1. orders \in [Order -> Snapshot \cup {NoRow}] /\ orders' # orders
  BY DEF Base, TypeOK
<1>2. ASSUME NEW p, NEW n, orders' = [orders EXCEPT ![p] = n]
      PROVE  p = o /\ orders'[o] = n
  BY <1>1, <1>2
<1>3. ASSUME NEW a \in {"worker", "operator"}, Save(a) \/ SaveRefused(a)
      PROVE  /\ task[a].order = o /\ ~SaveRaises(orders[o], task[a].snap)
             /\ orders'[o] = SaveResult(orders[o], task[a].snap)
  <2>1. /\ ~SaveRaises(orders[task[a].order], task[a].snap)
        /\ orders' = [orders EXCEPT ![task[a].order] =
                                SaveResult(orders[task[a].order], task[a].snap)]
    BY <1>1, <1>3 DEF Save, SaveRefused
  <2> QED BY <1>2, <2>1
<1>4. CASE SyncSaves \/ SyncAborts
  <2> DEFINE h == Head(syncSave)
  <2>1. /\ ~SaveRaises(orders[h.order], h.snap)
        /\ orders' = [orders EXCEPT ![h.order] = SaveResult(orders[h.order], h.snap)]
    BY <1>1, <1>4 DEF SyncSaves, SyncAborts
  <2>2. h.order = o /\ orders'[o] = SaveResult(orders[h.order], h.snap)
    BY <1>2, <2>1
  <2> QED BY <1>4, <2>1, <2>2
<1>5. ASSUME NEW p \in Order, AcceptIntent(p) \/ BlockIntent(p)
      PROVE  Fresh(o, orders'[o])
  <2>1. /\ p \in Originals /\ orders[p] = NoRow
        /\ \E st \in {"CREATED", "BLOCKED"}, e \in {"none", "other"} :
                orders' = [orders EXCEPT ![p] = Normalize(IntentState(st, Qty, e))]
    BY <1>5 DEF AcceptIntent, BlockIntent
  <2> QED BY <1>2, <2>1 DEF Fresh
<1>6. ASSUME NEW p \in Order, ReconcileResolved(p)
      PROVE  Reconciled(o, orders'[o]) /\ UNCHANGED <<syncTodo, syncSave>>
  <2>1. orders' = [orders EXCEPT ![p] = SaveResult(orders[p], ResolvedOrderState(p, orders[p], venue[p]))]
    BY <1>6 DEF ReconcileResolved
  <2>2. p = o
    BY <1>2, <2>1
  <2> QED BY <1>2, <1>6, <2>1, <2>2 DEF ReconcileResolved, Reconciled, syncer
<1>7. CASE Worker \/ ClaimRaises \/ MarkRaises
           \/ \E a \in {"worker", "operator"} : CancelOrderRaises(a)
  <2>1. Save("worker") \/ SaveRefused("worker")
    BY <1>1, <1>7 DEF Worker, Poll, SkipCommand, ClaimCommand, ClaimRaises, MarkSent, MarkAcked,
     MarkFailed, FinishCommand, MarkRaises, SubmitDecided, SubmitBlocked, SubmitProceeds,
     PlaceDeclined, PlaceAccepted, PlaceRejected, PlaceTimesOut, ReadDetail, RecoverSubmit,
     PostOnlyTimeout, PostOnlyFallback, EnqueueCancel, ProcessCancel, CancelLookup, CancelAccepted,
     CancelRejected, CancelTimesOut, CancelDetail, RecoverCancel, CancelOrderRaises, store
  <2> QED BY <1>3, <2>1
<1>8. CASE Operator
  <2>1. Save("operator") \/ SaveRefused("operator")
    BY <1>1, <1>8 DEF Operator, RequestCancel, ResolveStuckSubmission, AbandonSubmit,
       EnqueueCancel, Halt, Resume, store
  <2> QED BY <1>3, <2>1
<1>9. CASE Sync \/ Crash \/ Environment \/ UNCHANGED vars
  <2>1. SyncSaves \/ SyncAborts
    BY <1>1, <1>9 DEF Sync, SyncCollect, SyncAnswered, SyncFails, SyncSkips, SyncAsked,
     Crash, Environment, VenueFill, VenueCancels, LateArrival, vars, store
  <2> QED BY <1>4, <2>1
<1>10. CASE Boot
  <2>1. \E p \in Order : ReconcileResolved(p)
    BY <1>1, <1>10 DEF Boot, Restart, FinishRecovery, ReconcileUnreachable, store
  <2> QED BY <1>6, <2>1
<1> QED BY <1>5, <1>7, <1>8, <1>9, <1>10 DEF Next

(* A save marks an open row only with a marker that the row or the         *)
(* snapshot has.                                                           *)
LEMMA SaveMarks ==
    ASSUME NEW r \in Snapshot \cup {NoRow}, NEW i \in Snapshot, ~SaveRaises(r, i),
           OpenMarked(SaveResult(r, i))
    PROVE  ~Ended(r) /\ ~is_terminal(i.status) /\ (UnknownWriteState(i) \/ OpenMarked(r))
<1> DEFINE s == SaveResult(r, i)
<1>1. r \in OrderState \cup {NoRow} /\ i \in OrderState
  BY SnapshotFacts
<1>2. s.execution_error \in {"none", i.execution_error}
        \/ (r # NoRow /\ s.execution_error = r.execution_error)
  BY <1>1, SaveValues
<1>3. Forward(r, s)
  BY SaveForward
<1>4. is_terminal(i.status) => is_terminal(s.status)
  BY SaveTakes
<1> HIDE DEF s
<1>5. OpenMarked(s)
  BY DEF s
<1> QED BY <1>2, <1>3, <1>4, <1>5 DEF Forward, OpenMarked, Ended, IsOpen, UnknownWriteState

(* Only the worker's save of an answer leaves a new marker.                *)
LEMMA RowMarks ==
    ASSUME Base, Base', MarkInv, [Next]_vars, NEW o \in Uncanceled,
           OpenMarked(orders'[o]), ~OpenMarked(orders[o])
    PROVE  /\ Save("worker") \/ SaveRefused("worker")
           /\ task["worker"].order = o /\ task["worker"].pc # "save_submitting"
<1>0. o \in Order /\ o \notin Cancelable
  BY UncanceledFacts
<1>1. orders[o] \in Snapshot \cup {NoRow} /\ orders'[o] # orders[o]
  BY <1>0 DEF Base, TypeOK
<1>2. ASSUME NEW i \in Snapshot, ~SaveRaises(orders[o], i), orders'[o] = SaveResult(orders[o], i)
      PROVE  ~Ended(orders[o]) /\ ~is_terminal(i.status) /\ UnknownWriteState(i)
  BY <1>1, <1>2, SaveMarks
<1>3. ASSUME NEW a \in {"worker", "operator"}, Save(a) \/ SaveRefused(a),
             task[a].order = o, ~SaveRaises(orders[o], task[a].snap),
             orders'[o] = SaveResult(orders[o], task[a].snap)
      PROVE  a = "worker" /\ task["worker"].pc # "save_submitting"
  <2>1. task[a].pc \in Saving
    BY <1>3 DEF Save, SaveRefused
  <2>2. task[a].snap \in Snapshot /\ Known(o, task[a].snap)
    BY <1>0, <1>3, <2>1, ActorSaving
  <2>3. ~is_terminal(task[a].snap.status) /\ UnknownWriteState(task[a].snap)
    BY <1>2, <1>3, <2>2
  <2>4. a # "operator"
    BY <1>0, <1>3, <2>1, <2>3 DEF MarkInv, NoCancels, OperatorUnmarked, Saving, UnknownWriteState
  <2>5. a = "worker" /\ task["worker"].pc = "save_submitting" =>
          task["worker"].snap.status = "SUBMITTING"
    BY <1>3, WorkerSubmits DEF MarkInv
  <2>6. a = "worker" => ~(task["worker"].snap.status \in UndecidedStatus)
    BY <2>2, <2>3 DEF MarkInv, UndecidedUnmarked, Unmarked
  <2> QED BY <2>4, <2>5, <2>6 DEF UndecidedStatus
<1>4. ASSUME SyncSaves \/ SyncAborts,
             Head(syncSave).order = o, ~SaveRaises(orders[o], Head(syncSave).snap),
             orders'[o] = SaveResult(orders[o], Head(syncSave).snap)
      PROVE  FALSE
  <2> DEFINE h == Head(syncSave)
  <2>1. syncSave # <<>> /\ syncSave \in Seq(Pending)
    BY <1>4 DEF SyncSaves, SyncAborts, Base, TypeOK
  <2>2. h \in Pending /\ h.order \in Order /\ h.snap \in Snapshot
    BY <2>1, PendingFacts
  <2>3. ListHas(syncSave, h.order, h.snap)
    BY <2>1, <2>2, ListSteps
  <2>4. ~Ended(orders[o]) /\ UnknownWriteState(h.snap)
    BY <1>2, <1>4, <2>2
  <2> QED BY <1>4, <2>2, <2>3, <2>4 DEF MarkInv, SyncMarks
<1>5. CASE Fresh(o, orders'[o])
  <2>1. PICK st \in {"CREATED", "BLOCKED"}, e \in {"none", "other"} :
            orders'[o] = Normalize(IntentState(st, Qty, e))
    BY <1>5 DEF Fresh
  <2>2. Normalize(IntentState(st, Qty, e)).execution_error = e
    BY DEF Normalize, IntentState
  <2> QED BY <2>1, <2>2 DEF OpenMarked, UnknownWriteState
<1>6. CASE Reconciled(o, orders'[o])
  <2> DEFINE r == ResolvedOrderState(o, orders[o], venue[o])
  <2>1. /\ o \in unresolved /\ venue[o].state # "none"
        /\ orders'[o] = SaveResult(orders[o], r) /\ ~SaveRaises(orders[o], r)
    BY <1>6 DEF Reconciled
  <2>2. orders[o] # NoRow /\ r \in Snapshot /\ r.execution_error = orders[o].execution_error
    BY <1>0, <2>1, ResolvedFacts
  <2> HIDE DEF r
  <2>3. ~Ended(orders[o]) /\ UnknownWriteState(r)
    BY <1>2, <2>1, <2>2
  <2> QED BY <2>2, <2>3 DEF OpenMarked, Ended, IsOpen, UnknownWriteState
<1> QED BY <1>0, <1>1, <1>3, <1>4, <1>5, <1>6, RowWriter

(* How the worker comes to send an order that has a command: it has passed *)
(* the check for unknown writes.                                           *)
LEMMA SendsOriginal ==
    ASSUME Base, [Next]_vars, task'["worker"].pc \in {"save_submitting", "place"},
           task'["worker"].order \in Originals
    PROVE  LET w == task["worker"]
               t == task'["worker"]
           IN  \/ t = w
               \/ /\ w.pc = "submit" /\ t.pc = "save_submitting" /\ t.order = w.order
                  /\ ~UnknownWriteBlocks(w.order) /\ orders' = orders
               \/ w.pc = "save_submitting" /\ t.pc = "place" /\ t.order = w.order
<1> DEFINE w == task["worker"]
           t == task'["worker"]
           Ready == {"save_submitting", "place"}
<1>1. task \in [{"worker", "operator"} -> Task] /\ w \in Task
  BY DEF Base, TypeOK
<1>2. ASSUME NEW x, SetTask("worker", x) PROVE t = x
  BY <1>1, <1>2 DEF SetTask
<1>3. ASSUME NEW pc, pc \notin Ready, w.pc # "idle",
             Goto("worker", pc) \/ \E k : GotoWith("worker", pc, k)
      PROVE  FALSE
  BY <1>3, WorkerGoes
<1>4. ASSUME NEW o, NEW row, SetTask("worker", LocalCancel(w, o, row)) PROVE FALSE
  <2>1. LocalCancel(w, o, row).pc \in {"abandon", "save_canceled"}
    BY <1>1 DEF LocalCancel, Task
  <2> QED BY <1>2, <1>4, <2>1
<1>5. CASE \/ Poll \/ SkipCommand \/ ClaimRaises \/ MarkAcked \/ MarkFailed
           \/ \E o \in Order : AcceptIntent(o) \/ BlockIntent(o)
           \/ CancelOrderRaises("operator") \/ Operator \/ Sync \/ Crash \/ Boot \/ Environment
           \/ UNCHANGED vars
  BY <1>5, WorkerStands DEF Idle
<1>6. CASE ClaimCommand
  <2>1. t.pc = Current[1]
    BY <1>6 DEF ClaimCommand, SetTask, Idle, Base, TypeOK
  <2>2. Current[1] \in {"submit", "cancel"}
    BY <1>6, BatchFacts DEF ClaimCommand, WorkerFree
  <2> QED BY <2>1, <2>2
<1>7. CASE MarkSent \/ MarkRaises
  <2>1. w.pc \in {"sent", "ack", "fail"}
        /\ (SetTask("worker", Idle) \/ \E pc \in {"ack", "fail"} : Goto("worker", pc))
    BY <1>7 DEF MarkSent, MarkRaises, At
  <2>2. ~SetTask("worker", Idle)
    BY <1>1 DEF SetTask, Idle
  <2> QED BY <1>3, <2>1, <2>2
<1>8. CASE SubmitDecided \/ SubmitBlocked
  <2>1. w.pc = "submit" /\ \E pc \in {"sent", "save_blocked"} :
            Goto("worker", pc) \/ \E k : GotoWith("worker", pc, k)
    BY <1>8 DEF SubmitDecided, SubmitBlocked, SubmitDue, At
  <2> QED BY <1>3, <2>1
<1>9. CASE SubmitProceeds
  <2>1. /\ w.pc = "submit" /\ ~UnknownWriteBlocks(w.order) /\ orders' = orders
        /\ \E k : GotoWith("worker", "save_submitting", k)
    BY <1>9 DEF SubmitProceeds, SubmitDue, At, store
  <2> QED BY <2>1, WorkerGoes
<1>10. CASE \/ PlaceDeclined \/ PlaceAccepted \/ PlaceRejected \/ PlaceTimesOut \/ ReadDetail
            \/ RecoverSubmit
  <2>1. /\ w.pc \in {"place", "detail", "recover"}
        /\ \E pc \in {"detail", "recover", "save_result"} :
                Goto("worker", pc) \/ \E k : GotoWith("worker", pc, k)
    BY <1>10 DEF PlaceDeclined, PlaceAccepted, PlaceRejected, PlaceTimesOut, ReadDetail,
       RecoverSubmit, PlaceResult, Placing, At
  <2> QED BY <1>3, <2>1
<1>11. CASE Save("worker")
  <2>1. PICK row : SetTask("worker", AfterSave("worker", w, row))
    BY <1>11 DEF Save
  <2> DEFINE x == AfterSave("worker", w, row)
  <2>2. CASE w.pc = "save_submitting"
    <3>1. x = [w EXCEPT !.pc = "place", !.snap = NoRow]
      BY <2>2 DEF AfterSave
    <3> HIDE DEF x
    <3>2. x.order = w.order /\ x.pc = "place"
      BY <1>1, <3>1 DEF Task
    <3> QED BY <1>2, <2>1, <2>2, <3>2 DEF x
  <2>3. CASE w.pc # "save_submitting"
    <3>1. x.pc \notin Ready
      BY <1>1, <2>3 DEF AfterSave, LocalCancel, AfterPostOnlySubmit, Task
    <3> QED BY <1>2, <2>1, <3>1
  <2> QED BY <2>2, <2>3
<1>12. CASE SaveRefused("worker")
  <2>1. SetTask("worker", AfterSaveRaises("worker", w))
    BY <1>12 DEF SaveRefused
  <2>2. AfterSaveRaises("worker", w).pc \in {"sent", "fail"}
    BY <1>1 DEF AfterSaveRaises, Task
  <2> QED BY <1>2, <2>1, <2>2
<1>13. CASE EnqueueCancel("worker") \/ CancelOrderRaises("worker")
  <2> DEFINE x == [w EXCEPT !.pc = "sent", !.snap = NoRow]
  <2>1. w.pc # "idle" /\ (Goto("worker", "po_fallback") \/ SetTask("worker", x))
    BY <1>13 DEF EnqueueCancel, CancelOrderRaises
  <2>2. x.pc = "sent"
    BY <1>1 DEF Task
  <2> HIDE DEF x
  <2> QED BY <1>2, <1>3, <2>1, <2>2
<1>14. CASE PostOnlyTimeout
  <2> DEFINE row == orders[w.order]
             x == [w EXCEPT !.pc = "save_pending", !.order = w.order,
                            !.snap = [row EXCEPT !.status = "CANCEL_PENDING"]]
  <2>1. /\ w.pc # "idle"
        /\ \/ Goto("worker", "sent")
           \/ SetTask("worker", LocalCancel(w, w.order, row)) \/ SetTask("worker", x)
    BY <1>14 DEF PostOnlyTimeout, BeginCancel, At
  <2>2. x.pc = "save_pending"
    BY <1>1 DEF Task
  <2> HIDE DEF x
  <2> QED BY <1>2, <1>3, <1>4, <2>1, <2>2
<1>15. CASE PostOnlyFallback
  <2> DEFINE f == FallbackOf[w.order]
             x == [w EXCEPT !.pc = "save_submitting", !.order = f, !.qty = w.snap.remaining_qty,
                            !.snap = SubmittingState(f, w.snap.remaining_qty)]
  <2>1. w.pc = "po_fallback" /\ (Goto("worker", "sent") \/ SetTask("worker", x))
    BY <1>15 DEF PostOnlyFallback, At
  <2>2. w.order \in PostOnly
    BY <2>1, WorkerAtWork DEF OnSubmit, OnCancel, PostOnlyPc, FallbackPc, CancelPc, EitherPc
  <2>3. x.order \notin Originals
    BY <1>1, <2>2 DEF Task, Originals
  <2> HIDE DEF x
  <2> QED BY <1>2, <1>3, <2>1, <2>3
<1>16. CASE \/ ProcessCancel \/ CancelLookup \/ CancelAccepted \/ CancelRejected
            \/ CancelTimesOut \/ CancelDetail \/ RecoverCancel
  <2>1. w.pc # "idle"
    BY <1>16 DEF ProcessCancel, CancelLookup, CancelAccepted, CancelRejected, CancelTimesOut,
       CancelDetail, RecoverCancel, At
  <2>2. CASE ProcessCancel
    <3>1. \/ \E pc : /\ pc \notin Ready
                     /\ Goto("worker", pc) \/ \E k : GotoWith("worker", pc, k)
          \/ SetTask("worker", LocalCancel(w, w.order, orders[w.order]))
      BY <2>2 DEF ProcessCancel
    <3> QED BY <1>3, <1>4, <2>1, <3>1
  <2>3. CASE \/ CancelLookup \/ CancelAccepted \/ CancelRejected
             \/ CancelTimesOut \/ CancelDetail \/ RecoverCancel
    <3>1. \E pc : /\ pc \notin Ready
                  /\ Goto("worker", pc) \/ \E k : GotoWith("worker", pc, k)
      BY <2>3 DEF CancelLookup, CancelAccepted, CancelRejected, CancelTimesOut,
         CancelDetail, RecoverCancel
    <3> QED BY <1>3, <2>1, <3>1
  <2> QED BY <1>16, <2>2, <2>3
<1>17. CASE Worker
  BY <1>5, <1>6, <1>7, <1>8, <1>9, <1>10, <1>11, <1>12, <1>13, <1>14, <1>15, <1>16, <1>17
     DEF Worker
<1> QED BY <1>5, <1>7, <1>13, <1>17 DEF Next

LEMMA WorkerUnmarkedStep ==
    ASSUME Base, Base', MarkInv, [Next]_vars
    PROVE  WorkerUnmarked(task'["worker"], orders')
<1> DEFINE w == task["worker"]
           t == task'["worker"]
<1>1. NoCancels /\ WorkerUnmarked(w, orders)
  BY DEF MarkInv
<1>2. CASE t.pc \notin SendingPc
  BY <1>2 DEF WorkerUnmarked, SendingPc
<1>3. CASE t.pc \in SendingPc
  <2>1. \A p \in Uncanceled : OpenMarked(orders'[p]) => OpenMarked(orders[p])
    <3> SUFFICES ASSUME NEW p \in Uncanceled, OpenMarked(orders'[p]), ~OpenMarked(orders[p])
                 PROVE  FALSE
      OBVIOUS
    <3>1. /\ Save("worker") \/ SaveRefused("worker")
          /\ w.order \in Uncanceled /\ w.pc # "save_submitting"
      BY RowMarks
    <3>2. t.pc \in {"sent", "fail"}
      BY <1>1, <3>1, WorkerSaveGoes
    <3> QED BY <1>3, <3>2 DEF SendingPc
  <2>2. ASSUME t.order \in Uncanceled PROVE ~OpenMarked(orders'[t.order])
    <3>1. t.order = w.order /\ w.pc \in SendingPc => ~OpenMarked(orders'[t.order])
      BY <1>1, <2>1, <2>2 DEF WorkerUnmarked
    <3>2. CASE /\ t.order = w.order /\ w.pc = "submit"
               /\ ~Decided(orders[w.order]) /\ UNCHANGED <<orders, preboot>>
      <4>1. orders[w.order] \in Snapshot /\ orders[w.order] # NoRow
        BY <1>1, <2>2, <3>2, WorkerSubmits DEF Base, TypeOK
      <4>2. Unmarked(orders[w.order]) /\ orders[w.order].status \in UndecidedStatus
        BY <2>2, <3>2, <4>1 DEF MarkInv, UndecidedUnmarked, Known, RowIs, Decided, UndecidedStatus
      <4> QED BY <3>2, <4>2 DEF Unmarked, OpenMarked
    <3>3. WorkerStepOf
      BY <1>1, <2>2, WorkerStepHolds
    <3> QED BY <1>3, <3>1, <3>2, <3>3 DEF WorkerStepOf, SendingPc
  <2>3. ASSUME t.pc \in {"save_submitting", "place"}, t.order \in Originals \ Reducing
        PROVE  \A p \in Uncanceled : ~OpenMarked(orders'[p])
    <3>1. CASE w.pc \in {"save_submitting", "place"} /\ t.order = w.order
      BY <1>1, <2>1, <2>3, <3>1 DEF WorkerUnmarked
    <3>2. CASE t.order = w.order /\ ~UnknownWriteBlocks(w.order) /\ orders' = orders
      BY <2>3, <3>2, UncanceledFacts DEF UnknownWriteBlocks, OpenMarked
    <3> QED BY <2>3, <3>1, <3>2, SendsOriginal
  <2> QED BY <2>2, <2>3 DEF WorkerUnmarked
<1> QED BY <1>2, <1>3

LEMMA OperatorUnmarkedStep ==
    ASSUME Base, NoCancels, OperatorUnmarked, [Next]_vars
    PROVE  OperatorUnmarked'
<1>1. CASE task'["operator"] = task["operator"]
  BY <1>1 DEF OperatorUnmarked
<1>2. CASE task'["operator"] = Idle
  BY <1>2 DEF OperatorUnmarked, Idle
<1>3. ASSUME NEW o \in Order, ResolveStuckSubmission(o)
      PROVE  OperatorUnmarked'
  <2> DEFINE s == [orders[o] EXCEPT !.status = "FAILED", !.execution_error = "other"]
             t == [Idle EXCEPT !.pc = "save_resolved", !.order = o, !.snap = s]
  <2>1. orders[o] \in Snapshot /\ SetTask("operator", t)
    BY <1>3 DEF ResolveStuckSubmission, IsStuck, Base, TypeOK
  <2>2. s.status = "FAILED" /\ s.execution_error = "other"
    BY <2>1 DEF Snapshot
  <2> HIDE DEF s
  <2>3. t.snap = s
    BY DEF Idle
  <2>4. task'["operator"] = t
    BY <2>1 DEF SetTask, Base, TypeOK
  <2> HIDE DEF t
  <2> QED BY <2>2, <2>3, <2>4 DEF OperatorUnmarked
<1>4. CASE task'["operator"].pc # "save_resolved"
  BY <1>4 DEF OperatorUnmarked
<1> QED BY <1>1, <1>2, <1>3, <1>4, NoCancelsOperator

(* An order that leaves one list and enters the other is still held once.  *)
LEMMA ApartSteps ==
    ASSUME NEW todo \in Seq(Pending), NEW save \in Seq(Pending), Apart(todo, save)
    PROVE  /\ todo # <<>> => Apart(Tail(todo), save)
           /\ save # <<>> => Apart(todo, Tail(save))
           /\ \A e \in Pending : todo # <<>> /\ e.order = Head(todo).order
                => Apart(Tail(todo), Append(save, e))
<1>1. Len(todo) \in Nat /\ Len(save) \in Nat
  BY LenProperties
<1>2. ASSUME NEW l \in Seq(Pending), l # <<>>
      PROVE  /\ Len(Tail(l)) = Len(l) - 1 /\ Head(l) = l[1] /\ 1 \in 1..Len(l)
             /\ \A i \in 1..Len(Tail(l)) : Tail(l)[i] = l[i + 1] /\ i + 1 \in 1..Len(l)
  <2>1. /\ Len(Tail(l)) = Len(l) - 1 /\ Head(l) = l[1] /\ Len(l) \in Nat /\ Len(l) # 0
        /\ \A i \in 1..Len(Tail(l)) : Tail(l)[i] = l[i + 1]
    BY <1>2, HeadTailProperties, EmptySeq, LenProperties
  <2> QED BY <2>1
<1>3. ASSUME todo # <<>> PROVE Apart(Tail(todo), save)
  <2>1. /\ Len(Tail(todo)) = Len(todo) - 1
        /\ \A i \in 1..Len(Tail(todo)) : Tail(todo)[i] = todo[i + 1] /\ i + 1 \in 1..Len(todo)
    BY <1>2, <1>3
  <2>2. \A i, j \in 1..Len(Tail(todo)) : i # j => i + 1 # j + 1
    BY <1>1, <2>1
  <2> QED BY <2>1, <2>2 DEF Apart
<1>4. ASSUME save # <<>> PROVE Apart(todo, Tail(save))
  <2>1. /\ Len(Tail(save)) = Len(save) - 1
        /\ \A i \in 1..Len(Tail(save)) : Tail(save)[i] = save[i + 1] /\ i + 1 \in 1..Len(save)
    BY <1>2, <1>4
  <2>2. \A i, j \in 1..Len(Tail(save)) : i # j => i + 1 # j + 1
    BY <1>1, <2>1
  <2> QED BY <2>1, <2>2 DEF Apart
<1>5. ASSUME NEW e \in Pending, todo # <<>>, e.order = Head(todo).order
      PROVE  Apart(Tail(todo), Append(save, e))
  <2> DEFINE rest == Tail(todo)
             more == Append(save, e)
             n == Len(save)
  <2>1. /\ Len(more) = n + 1 /\ more[n + 1] = e
        /\ \A j \in 1..n : more[j] = save[j]
    BY AppendProperties
  <2>2. /\ Len(rest) = Len(todo) - 1 /\ e.order = todo[1].order /\ 1 \in 1..Len(todo)
        /\ \A i \in 1..Len(rest) : rest[i] = todo[i + 1] /\ i + 1 \in 1..Len(todo)
    BY <1>2, <1>5
  <2>3. n \in Nat /\ Len(todo) \in Nat
    BY <1>1
  <2>4. Apart(rest, save)
    BY <1>3, <1>5
  <2> HIDE DEF rest, more, n
  <2>5. \A j \in 1..Len(more) : j \in 1..n \/ j = n + 1
    BY <2>1, <2>3
  <2>6. \A i \in 1..Len(rest) : rest[i].order # e.order
    <3> SUFFICES ASSUME NEW i \in 1..Len(rest) PROVE rest[i].order # e.order
      OBVIOUS
    <3>1. i + 1 # 1 /\ i + 1 \in 1..Len(todo) /\ rest[i] = todo[i + 1]
      BY <2>2, <2>3
    <3> QED BY <2>2, <3>1 DEF Apart
  <2>7. \A j \in 1..n : save[j].order # e.order
    BY <2>2 DEF Apart, n
  <2>8. \A i, j \in 1..Len(more) : i # j => more[i].order # more[j].order
    <3> SUFFICES ASSUME NEW i \in 1..Len(more), NEW j \in 1..Len(more), i # j
                 PROVE  more[i].order # more[j].order
      OBVIOUS
    <3>1. CASE i \in 1..n /\ j \in 1..n
      BY <2>1, <3>1 DEF Apart, n
    <3>2. CASE i = n + 1 /\ j \in 1..n
      BY <2>1, <2>7, <3>2
    <3>3. CASE j = n + 1 /\ i \in 1..n
      BY <2>1, <2>7, <3>3
    <3> QED BY <2>5, <3>1, <3>2, <3>3
  <2>9. \A i \in 1..Len(rest), j \in 1..Len(more) : rest[i].order # more[j].order
    <3> SUFFICES ASSUME NEW i \in 1..Len(rest), NEW j \in 1..Len(more)
                 PROVE  rest[i].order # more[j].order
      OBVIOUS
    <3>1. CASE j \in 1..n
      BY <2>1, <2>4, <3>1 DEF Apart, n
    <3>2. CASE j = n + 1
      BY <2>1, <2>6, <3>2
    <3> QED BY <2>5, <3>1, <3>2
  <2>10. Apart(rest, more)
    BY <2>4, <2>8, <2>9 DEF Apart
  <2> QED BY <2>10 DEF rest, more
<1> QED BY <1>3, <1>4, <1>5

LEMMA ApartStep ==
    ASSUME Base, Apart(syncTodo, syncSave), [Next]_vars
    PROVE  Apart(syncTodo', syncSave')
<1>1. syncTodo \in Seq(Pending) /\ syncSave \in Seq(Pending)
  BY DEF Base, TypeOK
<1>2. CASE UNCHANGED <<syncTodo, syncSave>>
  BY <1>2
<1>3. CASE SyncCollect
  <2> DEFINE open == {p \in Order : IsOpen(orders[p])}
             n == Cardinality(open)
  <2>9. PICK list \in [1..n -> open] :
             /\ \A i, j \in DOMAIN list : i < j => list[i] # list[j]
             /\ syncTodo' = [i \in DOMAIN list |-> [order |-> list[i], snap |-> orders[list[i]]]]
    BY <1>3 DEF SyncCollect
  <2>1. /\ \A i, j \in 1..n : i < j => list[i] # list[j]
        /\ list \in [1..n -> open]
        /\ syncTodo' = [i \in 1..n |-> [order |-> list[i], snap |-> orders[list[i]]]]
    <3> HIDE DEF n, open
    <3> QED BY <2>9
  <2>2. n \in Nat
    BY OrderAssumption, FS_Subset, FS_CardinalityType
  <2>3. syncSave' = <<>>
    BY <1>3 DEF SyncCollect, SyncFree
  <2> HIDE DEF n
  <2>4. ASSUME NEW i \in 1..n
        PROVE  list[i] \in Order /\ orders[list[i]] \in Snapshot
    <3>1. list[i] \in open
      BY <2>1
    <3> QED BY <3>1 DEF Base, TypeOK, IsOpen
  <2>5. syncTodo' \in [1..n -> Pending]
    BY <2>1, <2>4 DEF Pending
  <2>6. Len(syncTodo') = n
    BY <2>2, <2>5, LenProperties
  <2>7. \A i, j \in 1..n : i # j => list[i] # list[j]
    <3> SUFFICES ASSUME NEW i \in 1..n, NEW j \in 1..n, i # j PROVE list[i] # list[j]
      OBVIOUS
    <3>1. i < j \/ j < i
      BY <2>2
    <3> QED BY <2>1, <3>1
  <2>8. \A i \in 1..n : syncTodo'[i].order = list[i]
    BY <2>1
  <2> QED BY <2>3, <2>6, <2>7, <2>8, EmptySeq DEF Apart
<1>4. CASE SyncSkips
  BY <1>1, <1>4, ApartSteps DEF SyncSkips
<1>5. CASE SyncSaves \/ SyncAborts
  <2>1. syncTodo' = syncTodo /\ syncSave # <<>> /\ syncSave' \in {Tail(syncSave), <<>>}
    BY <1>5 DEF SyncSaves, SyncAborts
  <2>2. CASE syncSave' = Tail(syncSave)
    BY <1>1, <2>1, <2>2, ApartSteps
  <2>3. CASE syncSave' = <<>>
    BY <2>1, <2>3, EmptySeq DEF Apart
  <2> QED BY <2>1, <2>2, <2>3
<1>6. CASE Crash
  <2>1. syncTodo' = <<>> /\ syncSave' = <<>>
    BY <1>6 DEF Crash
  <2> QED BY <2>1, EmptySeq DEF Apart
<1>7. CASE SyncAnswered \/ SyncFails
  <2> DEFINE h == Head(syncTodo)
             mapped == MapOrderState(h.order, venue[h.order])
  <2>1. PICK x : /\ syncTodo # <<>> /\ syncTodo' = Tail(syncTodo)
                 /\ syncSave' = Append(syncSave, [h EXCEPT !.snap = x])
                 /\ x \in {h.snap, RecoverableOrderState(h.snap, "other"),
                           mapped, RecoverableOrderState(mapped, "other")}
    BY <1>7 DEF SyncAnswered, SyncFails, SyncAsked
  <2>2. h \in Pending /\ h.order \in Order /\ h.snap \in Snapshot
    BY <2>1, PendingFacts
  <2>3. mapped \in Snapshot
    BY <2>2, CancelSnapshots
  <2> HIDE DEF mapped
  <2>4. x \in Snapshot
    BY <2>1, <2>2, <2>3, BuiltSnapshots DEF ExecutionError
  <2> DEFINE e == [h EXCEPT !.snap = x]
  <2>5. e \in Pending /\ e.order = h.order
    BY <2>2, <2>4 DEF Pending
  <2>6. syncSave' = Append(syncSave, e) /\ e.order = Head(syncTodo).order
    BY <2>1, <2>5
  <2> HIDE DEF e, h
  <2> QED BY <1>1, <2>1, <2>5, <2>6, ApartSteps
<1>8. CASE Worker \/ ClaimRaises \/ MarkRaises
           \/ \E a \in {"worker", "operator"} : CancelOrderRaises(a)
  BY <1>2, <1>8 DEF Worker, Poll, SkipCommand, ClaimCommand, ClaimRaises, MarkSent, MarkAcked,
     MarkFailed, FinishCommand, MarkRaises, Save, SaveRefused, SubmitDecided, SubmitBlocked,
     SubmitProceeds, PlaceDeclined, PlaceAccepted, PlaceRejected, PlaceTimesOut, ReadDetail,
     RecoverSubmit, PostOnlyTimeout, PostOnlyFallback, EnqueueCancel, ProcessCancel, CancelLookup,
     CancelAccepted, CancelRejected, CancelTimesOut, CancelDetail, RecoverCancel,
     CancelOrderRaises, syncer
<1>9. CASE Operator \/ \E p \in Order : AcceptIntent(p) \/ BlockIntent(p)
  BY <1>2, <1>9 DEF Operator, RequestCancel, ResolveStuckSubmission, Save, SaveRefused,
     AbandonSubmit, EnqueueCancel, Halt, Resume, AcceptIntent, BlockIntent, syncer
<1>10. CASE Boot \/ Environment \/ UNCHANGED vars
  BY <1>2, <1>10 DEF Boot, Restart, ReconcileResolved, ReconcileUnreachable, FinishRecovery,
     Environment, VenueFill, VenueCancels, LateArrival, vars, syncer
<1> QED BY <1>3, <1>4, <1>5, <1>6, <1>7, <1>8, <1>9, <1>10 DEF Next, Sync

LEMMA SyncMarksStep ==
    ASSUME Base, Base', MarkInv, [Next]_vars
    PROVE  SyncMarks'
<1> SUFFICES ASSUME NEW o \in Uncanceled, NEW s \in Snapshot, UnknownWriteState(s),
                    ListHas(syncTodo', o, s) \/ ListHas(syncSave', o, s)
             PROVE  OpenMarked(orders'[o]) \/ Ended(orders'[o])
  BY DEF SyncMarks, ListHas, OpenMarked, Ended, IsOpen, UnknownWriteState
<1>0. o \in Order /\ o \notin Cancelable
  BY UncanceledFacts
<1>1. OpenMarked(orders[o]) \/ Ended(orders[o])
  <2>1. CASE ListHas(syncTodo, o, s) \/ ListHas(syncSave, o, s)
    BY <2>1 DEF MarkInv, SyncMarks
  <2>2. CASE RowIs(o, s)
    BY <2>2 DEF RowIs, OpenMarked, Ended, IsOpen
  <2>3. ASSUME NEW k \in Snapshot, ListHas(syncTodo, o, k),
               s.execution_error \in {k.execution_error, "other"}
        PROVE  OpenMarked(orders[o]) \/ Ended(orders[o])
    BY <2>3 DEF MarkInv, SyncMarks, UnknownWriteState
  <2>4. s.execution_error \notin {"none", "other"}
    BY DEF UnknownWriteState
  <2> QED BY <1>0, <2>1, <2>2, <2>3, <2>4, SyncListStep
<1>2. CASE Ended(orders[o])
  BY <1>0, <1>2, RowsGoForward DEF RowsForward, Forward, Ended
<1>3. CASE orders'[o] = orders[o]
  BY <1>1, <1>3
<1>4. CASE OpenMarked(orders[o]) /\ orders'[o] # orders[o]
  <2>1. ~(Save("worker") \/ SaveRefused("worker")) \/ task["worker"].order # o
    <3> SUFFICES ASSUME Save("worker") \/ SaveRefused("worker"), task["worker"].order = o
                 PROVE  FALSE
      OBVIOUS
    <3>1. task["worker"].pc \in SendingPc
      BY WorkerSaveGoes DEF MarkInv
    <3> QED BY <1>4, <3>1 DEF MarkInv, WorkerUnmarked
  <2>2. ASSUME Save("operator") \/ SaveRefused("operator"), task["operator"].order = o,
               ~SaveRaises(orders[o], task["operator"].snap),
               orders'[o] = SaveResult(orders[o], task["operator"].snap)
        PROVE  Ended(orders'[o])
    <3> DEFINE i == task["operator"].snap
               row == orders[o]
    <3>1. task["operator"].pc \in Saving
      BY <2>2 DEF Save, SaveRefused
    <3>2. i \in Snapshot /\ i.status = "FAILED"
      BY <1>0, <2>2, <3>1, ActorSaving DEF MarkInv, NoCancels, OperatorUnmarked, Saving
    <3>3. row \in Snapshot \cup {NoRow} /\ ~SaveRaises(row, i) /\ orders'[o] = SaveResult(row, i)
      BY <1>0, <2>2 DEF Base, TypeOK
    <3> HIDE DEF i, row
    <3>4. SaveResult(row, i) \in Snapshot /\ is_terminal(SaveResult(row, i).status)
      BY <3>2, <3>3, SaveTakes DEF is_terminal, TERMINAL_ORDER_STATES
    <3> QED BY <3>3, <3>4, SnapshotFacts DEF Ended
  <2>3. ~((SyncSaves \/ SyncAborts) /\ Head(syncSave).order = o)
    <3> SUFFICES ASSUME SyncSaves \/ SyncAborts, Head(syncSave).order = o PROVE FALSE
      OBVIOUS
    <3>1. /\ syncSave # <<>> /\ syncTodo' = <<>> /\ syncSave' \in {Tail(syncSave), <<>>}
          /\ syncSave \in Seq(Pending)
      BY DEF SyncSaves, SyncAborts, Base, TypeOK
    <3>2. ~ListHas(syncTodo', o, s) /\ ~ListHas(<<>>, o, s)
      BY <3>1, EmptySeq DEF ListHas
    <3>3. PICK i \in 1..Len(Tail(syncSave)) : Tail(syncSave)[i].order = o
      BY <3>1, <3>2 DEF ListHas
    <3>4. /\ Len(Tail(syncSave)) = Len(syncSave) - 1 /\ Head(syncSave) = syncSave[1]
          /\ Len(syncSave) \in Nat /\ Tail(syncSave)[i] = syncSave[i + 1]
      BY <3>1, HeadTailProperties, EmptySeq, LenProperties
    <3>5. i + 1 \in 1..Len(syncSave) /\ 1 \in 1..Len(syncSave) /\ i + 1 # 1
      BY <3>4
    <3>6. syncSave[i + 1].order # syncSave[1].order
      BY <3>5 DEF MarkInv, Apart
    <3> QED BY <3>3, <3>4, <3>6
  <2>4. ~Fresh(o, orders'[o])
    BY <1>4 DEF Fresh, OpenMarked, IsOpen
  <2>5. ~(Reconciled(o, orders'[o]) /\ UNCHANGED <<syncTodo, syncSave>>)
    <3> SUFFICES ASSUME Reconciled(o, orders'[o]), UNCHANGED <<syncTodo, syncSave>> PROVE FALSE
      OBVIOUS
    <3>1. syncTodo' = <<>> /\ syncSave' = <<>>
      BY DEF Reconciled, Base, StoppedIsIdle
    <3> QED BY <3>1, EmptySeq DEF ListHas
  <2> QED BY <1>0, <1>4, <2>1, <2>2, <2>3, <2>4, <2>5, RowWriter
<1> QED BY <1>1, <1>2, <1>3, <1>4

LEMMA MarkInvStep ==
    ASSUME Base, Base', MarkInv, [Next]_vars
    PROVE  MarkInv'
<1>1. NoCancels' /\ UndecidedUnmarked' /\ SyncMarks' /\ OperatorUnmarked'
  BY NoCancelsStep, UndecidedUnmarkedStep, SyncMarksStep, OperatorUnmarkedStep DEF MarkInv
<1>2. Apart(syncTodo, syncSave)'
  BY ApartStep DEF MarkInv, Apart
<1>3. WorkerUnmarked(task["worker"], orders)'
  BY WorkerUnmarkedStep DEF WorkerUnmarked, OpenMarked, IsOpen, UnknownWriteState
<1> QED BY <1>1, <1>2, <1>3 DEF MarkInv

(* When an order that adds risk is sent, no other open order that nobody   *)
(* cancels carries the marker of an unknown write, although the check      *)
(* (_blocking_unknown_write_state) is some awaits old by then and the sync *)
(* loop saves stale snapshots in between: whatever crashes, whichever      *)
(* writes fail and whichever other orders are cancelled.  (The fallback of *)
(* a post-only order is sent without the check.)                           *)
THEOREM UnknownWriteBlocksRisk == Spec => UnknownWriteHoldsNewRisk
<1>1. Init => MarkInv
  <2> SUFFICES ASSUME Init PROVE MarkInv
    OBVIOUS
  <2>1. ASSUME NEW o \in Order, NEW s PROVE ~Known(o, s)
    BY NothingKnownAtFirst
  <2>2. NoCancels /\ OperatorUnmarked
    BY SubmitNames, UncanceledFacts DEF Init, NoCancels, OperatorUnmarked, Idle
  <2>3. UndecidedUnmarked /\ SyncMarks
    BY <2>1, UncanceledFacts DEF UndecidedUnmarked, SyncMarks, Known
  <2>4. Apart(syncTodo, syncSave)
    BY EmptySeq DEF Init, Apart
  <2>5. WorkerUnmarked(task["worker"], orders)
    BY DEF Init, WorkerUnmarked, Idle, SendingPc
  <2> QED BY <2>2, <2>3, <2>4, <2>5 DEF MarkInv
<1>2. Base /\ Base' /\ MarkInv /\ [Next]_vars => MarkInv'
  BY MarkInvStep
<1>3. Base /\ MarkInv /\ [Next]_vars =>
        [\A o \in Originals \ Reducing : sends'[o] > sends[o] =>
            \A p \in Uncanceled \ {o} : IsOpen(orders[p]) => ~UnknownWriteState(orders[p])]_vars
  <2> SUFFICES ASSUME Base, MarkInv, [Next]_vars, NEW o \in Originals \ Reducing,
                      sends'[o] > sends[o]
               PROVE  \A p \in Uncanceled \ {o} : IsOpen(orders[p]) => ~UnknownWriteState(orders[p])
    OBVIOUS
  <2>1. WorkerAt(o, {"place"})
    BY SentByWorker DEF Originals
  <2> QED BY <2>1 DEF WorkerAt, MarkInv, WorkerUnmarked, OpenMarked
<1> QED BY <1>1, <1>2, <1>3, Invariant, PTL DEF Spec, UnknownWriteHoldsNewRisk
==============================================================================
