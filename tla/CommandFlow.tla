----------------------------- MODULE CommandFlow -----------------------------
(***************************************************************************)
(* Order execution with the persistent command flow: an accepted intent is *)
(* recorded with a submit command, a worker turns commands into exchange   *)
(* calls, a sync loop reads the exchange, an operator cancels, halts and   *)
(* resumes, and a restart recovers from whatever was persisted.            *)
(*                                                                         *)
(* Three actors run interleaved in the execution process: the command      *)
(* worker, the operator's request and the sync loop.  A step lasts from    *)
(* one await to the next: every database write and every exchange call is  *)
(* a step of its own, and what an actor read before one it uses after it.  *)
(*                                                                         *)
(* All orders are for one symbol.  The guards that depend on market,       *)
(* account and risk data may refuse any order (a free choice).             *)
(***************************************************************************)
EXTENDS StartupRecovery, Sequences

CONSTANTS
    Order,          \* client order ids
    PostOnly,       \* the orders executed as post-only with timeout fallback
    FallbackOf,     \* the client order id of a post-only order's fallback
    Reducing,       \* the orders that only reduce risk
    Cancelable,     \* the orders the operator may ask to cancel
    Qty,            \* size of an order
    Limit,          \* commands fetched by one poll
    MaxCrashes,     \* bound: crashes of the execution process
    MaxDbFaults,    \* bound: database writes that fail
    MaxHalts        \* bound: halts by the operator

ASSUME OrderAssumption ==
    /\ Order = VenueId /\ IsFiniteSet(Order)
    /\ PostOnly \subseteq Order
    /\ Reducing \subseteq Order
    /\ Cancelable \subseteq Order
    /\ FallbackOf \in [PostOnly -> Order \ PostOnly]
    /\ \A o, p \in PostOnly : FallbackOf[o] = FallbackOf[p] => o = p
ASSUME BoundsAssumption ==
    /\ Qty \in Nat \ {0}
    /\ Limit \in Nat \ {0}
    /\ MaxCrashes \in Nat
    /\ MaxDbFaults \in Nat
    /\ MaxHalts \in Nat

VARIABLES
    orders,     \* execution repository: order -> row or NoRow
    cmds,       \* command repository: command -> state, "none" if absent
    queue,      \* the commands in creation order
    venue,      \* the exchange: order -> [state, qty, filled]
    wire,       \* <<order, qty>> of place requests that may still arrive
    sends,      \* history: place requests sent per order
    task,       \* worker and operator: what each is in the middle of
    batch,      \* worker: commands of this poll, as read; the head is current
    syncTodo,   \* sync loop: snapshots still to be asked about
    syncSave,   \* sync loop: snapshots still to be saved
    phase,      \* "running", "down" or "boot"
    halted,     \* the kill switch
    blockers,   \* blockers the last startup recovery raised
    unresolved, \* boot: stuck orders the reconciler has not asked about yet
    reconciled, \* boot: number of orders the reconciler resolved
    preboot,    \* orders last written before the current runtime started
    faults      \* crashes, database faults and halts so far

store  == <<orders, cmds, queue>>
world  == <<venue, wire, sends>>
syncer == <<syncTodo, syncSave>>
boot   == <<phase, blockers, unresolved, reconciled, preboot>>
vars   == <<store, world, task, batch, syncer, boot, halted, faults>>

------------------------------------------------------------------------------
(* Commands and tasks *)

Originals == Order \ {FallbackOf[o] : o \in PostOnly}

Command == {"submit", "cancel"} \X Order
CommandState == {"none", "PENDING", "CLAIMED", "SENT", "ACKED", "FAILED", "ABANDONED"}

submit(o) == <<"submit", o>>
cancel(o) == <<"cancel", o>>

Idle == [pc |-> "idle", order |-> NoVenueId, qty |-> 0, snap |-> NoRow]

(* The command the worker is processing.                                   *)
Current == Head(batch).cmd

(* Between looking a submit command up and abandoning it the operator's    *)
(* request does not give up the event loop: nothing else of the process    *)
(* runs, except that a claim already handed to a thread may commit.        *)
LoopFree == task["operator"].pc # "abandon"
Running == phase = "running" /\ LoopFree
At(pc) == task["worker"].pc = pc /\ LoopFree

(* enqueue_command: a command with the same idempotency key is kept.       *)
EnqueueCommand(c) ==
    IF cmds[c] = "none"
    THEN cmds' = [cmds EXCEPT ![c] = "PENDING"] /\ queue' = Append(queue, c)
    ELSE UNCHANGED <<cmds, queue>>

SetTask(a, t) == task' = [task EXCEPT ![a] = t]
Goto(a, pc) == SetTask(a, [task[a] EXCEPT !.pc = pc])
GotoWith(a, pc, snap) == SetTask(a, [task[a] EXCEPT !.pc = pc, !.snap = snap])

DbFault ==
    /\ faults.db < MaxDbFaults
    /\ faults' = [faults EXCEPT !.db = @ + 1]

------------------------------------------------------------------------------
(* What the steps decide from the persisted row *)

(* _cancel_pending_submit_before_exchange_ack applies: no exchange id, and *)
(* the submit command is not under way.                                    *)
CancelBeforeAck(o, row) ==
    /\ row.exchange_order_id = NoVenueId
    /\ row.status \in {"CREATED", "SUBMITTING", "CANCEL_PENDING"}
    /\ cmds[submit(o)] \in {"none", "PENDING", "ACKED", "FAILED"}

(* The task that cancels locally, by way of abandoning a pending submit.   *)
LocalCancel(t, o, row) ==
    [t EXCEPT !.pc = IF cmds[submit(o)] = "PENDING" THEN "abandon" ELSE "save_canceled",
              !.order = o,
              !.snap = [row EXCEPT !.status = "CANCELED", !.execution_error = "none"]]

(* Mutant: only the order itself is held back by its unknown write.        *)
UnknownWriteBlocksItself(o) == IsOpen(orders[o]) /\ UnknownWriteState(orders[o])

(* _blocking_unknown_write_state: an open order whose last write has an    *)
(* unknown outcome blocks itself and every order that adds risk.           *)
UnknownWriteBlocks(o) ==
    \E p \in Order :
        /\ IsOpen(orders[p])
        /\ UnknownWriteState(orders[p])
        /\ p = o \/ o \notin Reducing

(* _persist_submitting_state_for_intent: the snapshot it saves.            *)
SubmittingState(o, qty) ==
    IF orders[o] = NoRow
    THEN IntentState("SUBMITTING", qty, "none")
    ELSE [orders[o] EXCEPT !.status = "SUBMITTING",
                           !.requested_qty = qty, !.remaining_qty = qty]

(* Where the post-only orchestration goes on after its own submission.     *)
AfterPostOnlySubmit(row) ==
    CASE row.status \in {"REJECTED", "FAILED"} -> "po_fallback"
      [] is_terminal(row.status) /\ row.status \notin {"REJECTED", "FAILED"} -> "sent"
      [] OTHER -> "po_wait"

------------------------------------------------------------------------------
Init ==
    /\ orders = [o \in Order |-> NoRow]
    /\ cmds = [c \in Command |-> "none"]
    /\ queue = <<>>
    /\ venue = [o \in Order |-> [state |-> "none", qty |-> 0, filled |-> 0]]
    /\ wire = {}
    /\ sends = [o \in Order |-> 0]
    /\ task = [a \in {"worker", "operator"} |-> Idle]
    /\ batch = <<>>
    /\ syncTodo = <<>> /\ syncSave = <<>>
    /\ phase = "running"
    /\ halted = FALSE
    /\ blockers = {}
    /\ unresolved = {} /\ reconciled = 0 /\ preboot = {}
    /\ faults = [crash |-> 0, db |-> 0, halt |-> 0]

------------------------------------------------------------------------------
(* Intake of an order intent *)

(* The intent is accepted: row, obligation and submit command are written  *)
(* in one transaction.                                                     *)
AcceptIntent(o) ==
    /\ Running /\ ~halted
    /\ o \in Originals /\ orders[o] = NoRow
    /\ orders' = [orders EXCEPT ![o] = Normalize(IntentState("CREATED", Qty, "none"))]
    /\ EnqueueCommand(submit(o))
    /\ UNCHANGED <<world, task, batch, syncer, boot, halted, faults>>

(* The kill switch is engaged or a guard refuses the intent.               *)
BlockIntent(o) ==
    /\ Running
    /\ o \in Originals /\ orders[o] = NoRow
    /\ orders' = [orders EXCEPT ![o] = Normalize(IntentState("BLOCKED", Qty, "other"))]
    /\ UNCHANGED <<cmds, queue, world, task, batch, syncer, boot, halted, faults>>

------------------------------------------------------------------------------
(* The worker's loop over commands *)

WorkerFree == phase = "running" /\ task["worker"] = Idle

(* pending_commands: PENDING and CLAIMED ones, and those SENT ones that    *)
(* have become stale, oldest first, at most Limit of them.                 *)
Poll ==
    /\ WorkerFree /\ LoopFree /\ batch = <<>>
    /\ \E stale \in SUBSET {c \in Command : cmds[c] = "SENT"} :
        LET due == {i \in DOMAIN queue : \/ cmds[queue[i]] \in {"PENDING", "CLAIMED"}
                                         \/ queue[i] \in stale}
        IN  /\ due # {}
            /\ \E first \in [1..Least(Limit, Cardinality(due)) -> due] :
                /\ \A i, j \in DOMAIN first : i < j => first[i] < first[j]
                /\ \A i \in DOMAIN first : \A k \in due :
                        k < first[i] => \E j \in DOMAIN first : first[j] = k
                /\ batch' = [i \in DOMAIN first |->
                                [cmd |-> queue[first[i]], read |-> cmds[queue[first[i]]]]]
    /\ UNCHANGED <<store, world, task, syncer, boot, halted, faults>>

(* Mutant: a halt stops cancels as well.                                   *)
SkipWhileHalted(entry) == halted \/ cmds[entry.cmd] # entry.read

(* Mutant: only CLAIMED submits count as not yet sent.                     *)
SkipUnclaimed(entry) ==
    \/ entry.cmd[1] = "submit" /\ (entry.read # "CLAIMED" \/ halted)
    \/ cmds[entry.cmd] # entry.read

(* A submit that was already sent, a submit while halted, and a command    *)
(* that changed since it was read (the claim fails) are passed over.       *)
MustSkip(entry) ==
    \/ entry.cmd[1] = "submit" /\ entry.read \notin {"PENDING", "CLAIMED"}
    \/ entry.cmd[1] = "submit" /\ halted
    \/ cmds[entry.cmd] # entry.read

SkipCommand ==
    /\ WorkerFree /\ LoopFree /\ batch # <<>>
    /\ MustSkip(Head(batch))
    /\ batch' = Tail(batch)
    /\ UNCHANGED <<store, world, task, syncer, boot, halted, faults>>

(* claim_command succeeds and the command's executor starts.               *)
ClaimCommand ==
    /\ WorkerFree /\ batch # <<>>
    /\ ~MustSkip(Head(batch))
    /\ cmds' = [cmds EXCEPT ![Current] = "CLAIMED"]
    /\ SetTask("worker", [Idle EXCEPT !.pc = Current[1], !.order = Current[2], !.qty = Qty])
    /\ UNCHANGED <<orders, queue, world, batch, syncer, boot, halted, faults>>

(* claim_command raises: process_pending is left, and the loop polls again *)
ClaimRaises ==
    /\ WorkerFree /\ LoopFree /\ batch # <<>>
    /\ DbFault
    /\ batch' = <<>>
    /\ UNCHANGED <<store, world, task, syncer, boot, halted>>

(* The executor returned: SENT, then ACKED; or it raised: FAILED.          *)
MarkSent ==
    /\ At("sent")
    /\ cmds' = [cmds EXCEPT ![Current] = "SENT"]
    /\ Goto("worker", "ack")
    /\ UNCHANGED <<orders, queue, world, batch, syncer, boot, halted, faults>>

FinishCommand(pc, state) ==
    /\ At(pc)
    /\ cmds' = [cmds EXCEPT ![Current] = state]
    /\ SetTask("worker", Idle)
    /\ batch' = Tail(batch)
    /\ UNCHANGED <<orders, queue, world, syncer, boot, halted, faults>>

MarkAcked  == FinishCommand("ack", "ACKED")
MarkFailed == FinishCommand("fail", "FAILED")

(* mark_sent_to_venue or mark_acked raises: the command is marked FAILED   *)
(* next.  mark_failed itself raises: process_pending is left, the command  *)
(* stays CLAIMED and the loop polls again.                                 *)
MarkRaises ==
    /\ \E pc \in {"sent", "ack", "fail"} : At(pc)
    /\ DbFault
    /\ IF task["worker"].pc = "fail"
       THEN SetTask("worker", Idle) /\ batch' = <<>>
       ELSE Goto("worker", "fail") /\ UNCHANGED batch
    /\ UNCHANGED <<store, world, syncer, boot, halted>>

------------------------------------------------------------------------------
(* Saving a snapshot (every actor's way to write an order) *)

Saving == {"save_blocked", "save_submitting", "save_result", "save_canceled",
           "save_pending", "save_cancel_pending", "save_resolved"}

(* What an actor goes on to do once its snapshot is persisted as row.      *)
(* cancel_order inside the post-only orchestration ends in its fallback.   *)
AfterSave(a, t, row) ==
    LET done == IF a = "operator" THEN Idle ELSE [t EXCEPT !.pc = "sent", !.snap = NoRow]
        next(pc) == [t EXCEPT !.pc = pc, !.snap = row]
    IN  CASE t.pc = "save_submitting" -> [t EXCEPT !.pc = "place", !.snap = NoRow]
          [] t.pc = "save_result" /\ t.order \in PostOnly /\ Current[1] = "submit" ->
                next(AfterPostOnlySubmit(row))
          [] t.pc = "save_canceled" /\ a = "worker" /\ Current[1] = "submit" ->
                next("po_fallback")
          [] t.pc = "save_pending" -> next("enqueue")
          [] t.pc = "save_cancel_pending" ->
                IF CancelBeforeAck(t.order, row) THEN LocalCancel(t, t.order, row)
                                                 ELSE next("c_lookup")
          [] OTHER -> done

(* Mutant: the fallback goes on although the cancel was not recorded.      *)
SaveErrorToFallback(a, t) ==
    CASE a = "operator" -> Idle
      [] a = "worker" /\ t.pc \in {"save_pending", "save_canceled"} ->
            [t EXCEPT !.pc = "po_fallback"]
      [] OTHER -> [t EXCEPT !.pc = "fail", !.snap = NoRow]

(* What an exception out of a save leads to: the operator's request fails, *)
(* a failed cancel inside the post-only orchestration returns the order,   *)
(* any other command fails.                                                *)
AfterSaveRaises(a, t) ==
    CASE a = "operator" -> Idle
      [] /\ a = "worker"
         /\ t.pc \in {"save_pending", "save_canceled"} /\ Current[1] = "submit" ->
            [t EXCEPT !.pc = "sent", !.snap = NoRow]
      [] OTHER -> [t EXCEPT !.pc = "fail", !.snap = NoRow]

Save(a) ==
    LET t == task[a]
    IN  /\ t.pc \in Saving /\ LoopFree
        /\ ~SaveRaises(orders[t.order], t.snap)
        /\ LET row == SaveResult(orders[t.order], t.snap)
           IN  /\ orders' = [orders EXCEPT ![t.order] = row]
               /\ SetTask(a, AfterSave(a, t, row))
        /\ preboot' = preboot \ {t.order}
        /\ UNCHANGED <<cmds, queue, world, batch, syncer, phase, blockers,
                       unresolved, reconciled, halted, faults>>

(* The transition is refused (ValueError), the database fails, or it fails *)
(* after the commit, when the outbox is flushed: the row is written then,  *)
(* and the caller sees an exception all the same.                          *)
SaveRefused(a) ==
    LET t == task[a]
        cur == orders[t.order]
    IN  /\ t.pc \in Saving /\ LoopFree
        /\ \/ SaveRaises(cur, t.snap) /\ UNCHANGED <<orders, preboot, faults>>
           \/ DbFault /\ UNCHANGED <<orders, preboot>>
           \/ /\ DbFault /\ ~SaveRaises(cur, t.snap)
              /\ orders' = [orders EXCEPT ![t.order] = SaveResult(cur, t.snap)]
              /\ preboot' = preboot \ {t.order}
        /\ SetTask(a, AfterSaveRaises(a, t))
        /\ UNCHANGED <<cmds, queue, world, batch, syncer, phase, blockers, unresolved,
                       reconciled, halted>>

------------------------------------------------------------------------------
(* process_submit_command *)

(* The order has moved on since the command was written: nothing to do.    *)
SubmitDecided ==
    LET t == task["worker"] IN
    /\ At("submit")
    /\ orders[t.order] # NoRow /\ orders[t.order].status \notin {"CREATED", "SUBMITTING"}
    /\ Goto("worker", "sent")
    /\ UNCHANGED <<store, world, batch, syncer, boot, halted, faults>>

SubmitDue == At("submit")
             /\ LET row == orders[task["worker"].order]
                IN  row = NoRow \/ row.status \in {"CREATED", "SUBMITTING"}

(* Mutant: the order is refused without a word in the repository.          *)
SubmitDropped ==
    /\ SubmitDue
    /\ Goto("worker", "sent")
    /\ UNCHANGED <<store, world, batch, syncer, boot, halted, faults>>

(* One of the submit guards refuses, or an unknown write blocks.           *)
SubmitBlocked ==
    /\ SubmitDue
    /\ GotoWith("worker", "save_blocked", IntentState("BLOCKED", Qty, "other"))
    /\ UNCHANGED <<store, world, batch, syncer, boot, halted, faults>>

(* Mutant: the order is sent before it is recorded as SUBMITTING.          *)
SubmitUnrecorded ==
    /\ SubmitDue
    /\ ~UnknownWriteBlocks(task["worker"].order)
    /\ Goto("worker", "place")
    /\ UNCHANGED <<store, world, batch, syncer, boot, halted, faults>>

SubmitProceeds ==
    LET o == task["worker"].order IN
    /\ SubmitDue
    /\ ~UnknownWriteBlocks(o)
    /\ GotoWith("worker", "save_submitting", SubmittingState(o, Qty))
    /\ UNCHANGED <<store, world, batch, syncer, boot, halted, faults>>

------------------------------------------------------------------------------
(* adapter.submit *)

Placing == At("place")
PlaceResult(snap) == GotoWith("worker", "save_result", snap)

(* A gate of the adapter, or the kill switch guard, blocks the order, or   *)
(* the adapter raises before it sends anything.                            *)
PlaceDeclined ==
    LET t == task["worker"] IN
    /\ Placing
    /\ \E status \in {"BLOCKED", "FAILED"} :
        PlaceResult(IntentState(status, t.qty, "other"))
    /\ UNCHANGED <<store, world, batch, syncer, boot, halted, faults>>

(* The request may leave the process.                                      *)
MaySend(o) == o \in Reducing \/ ~halted
Sent(o) == sends' = [sends EXCEPT ![o] = @ + 1]

(* The exchange takes a client order id once.                              *)
Book(o, qty) ==
    venue' = [venue EXCEPT ![o] = [state |-> "live", qty |-> qty, filled |-> 0]]

(* The order rests at the exchange; the answer arrives, or is lost.        *)
PlaceAccepted ==
    LET t == task["worker"] IN
    /\ Placing /\ MaySend(t.order)
    /\ venue[t.order].state = "none"
    /\ Sent(t.order)
    /\ Book(t.order, t.qty)
    /\ \E answer \in {"detail", "recover"} : Goto("worker", answer)
    /\ UNCHANGED <<store, wire, batch, syncer, boot, halted, faults>>

(* A business error, a reject code, or a client order id already taken.    *)
PlaceRejected ==
    LET t == task["worker"] IN
    /\ Placing /\ MaySend(t.order)
    /\ Sent(t.order)
    /\ \E status \in {"REJECTED", "FAILED"} :
        PlaceResult(IntentState(status, t.qty, "other"))
    /\ UNCHANGED <<store, venue, wire, batch, syncer, boot, halted, faults>>

(* The request times out: it is lost, or still on its way.                 *)
PlaceTimesOut ==
    LET t == task["worker"] IN
    /\ Placing /\ MaySend(t.order)
    /\ Sent(t.order)
    /\ wire' \in {wire, wire \cup {<<t.order, t.qty>>}}
    /\ Goto("worker", "recover")
    /\ UNCHANGED <<store, venue, batch, syncer, boot, halted, faults>>

(* After an acknowledged placement: the order's detail is read (its fills  *)
(* too, or not), is not found, or cannot be read.                          *)
ReadDetail ==
    LET t == task["worker"]
        submitted == SubmittedState(t.order, t.qty)
        mapped == MapOrderState(t.order, venue[t.order])
    IN  /\ At("detail")
        /\ \E snap \in {mapped, RecoverableOrderState(mapped, "other"), submitted,
                        RecoverableOrderState(submitted, "other")} : PlaceResult(snap)
        /\ UNCHANGED <<store, world, batch, syncer, boot, halted, faults>>

(* Mutant: an order that is not found at once counts as failed.            *)
RecoverAsFailed ==
    LET t == task["worker"] IN
    /\ At("recover")
    /\ PlaceResult(IF venue[t.order].state # "none"
                   THEN MapOrderState(t.order, venue[t.order])
                   ELSE IntentState("FAILED", t.qty, "other"))
    /\ UNCHANGED <<store, world, batch, syncer, boot, halted, faults>>

(* _recover_submit_from_write_exception: the order is found by its client  *)
(* id; or it is not found or the exchange cannot be asked.                 *)
RecoverSubmit ==
    LET t == task["worker"] IN
    /\ At("recover")
    /\ \/ /\ venue[t.order].state # "none"
          /\ PlaceResult(MapOrderState(t.order, venue[t.order]))
       \/ PlaceResult(SubmissionUnknown(t.qty))
    /\ UNCHANGED <<store, world, batch, syncer, boot, halted, faults>>

------------------------------------------------------------------------------
(* Post-only orders: cancel after the timeout, then submit the rest        *)

(* cancel_order's first step, on the row it reads.                         *)
BeginCancel(a, t, o, row) ==
    SetTask(a, IF CancelBeforeAck(o, row)
               THEN LocalCancel(t, o, row)
               ELSE [t EXCEPT !.pc = "save_pending", !.order = o,
                              !.snap = [row EXCEPT !.status = "CANCEL_PENDING"]])

(* The timeout is over; the order is read again.                           *)
PostOnlyTimeout ==
    LET t == task["worker"]
        row == orders[t.order]
    IN  /\ At("po_wait")
        /\ IF is_terminal(row.status) \/ row.remaining_qty <= Epsilon
           THEN Goto("worker", "sent")
           ELSE BeginCancel("worker", t, t.order, row)
        /\ UNCHANGED <<store, world, batch, syncer, boot, halted, faults>>

(* What remains is submitted as an order of its own, with no command and   *)
(* without the submit guards.                                              *)
PostOnlyFallback ==
    LET t == task["worker"]
        rest == t.snap.remaining_qty
        f == FallbackOf[t.order]
    IN  /\ At("po_fallback")
        /\ IF rest <= Epsilon
           THEN Goto("worker", "sent")
           ELSE SetTask("worker", [t EXCEPT !.pc = "save_submitting", !.order = f,
                                            !.qty = rest, !.snap = SubmittingState(f, rest)])
        /\ UNCHANGED <<store, world, batch, syncer, boot, halted, faults>>

------------------------------------------------------------------------------
(* cancel_order, by the operator or by the post-only orchestration *)

RequestCancel(o) ==
    /\ Running /\ task["operator"] = Idle
    /\ o \in Cancelable /\ orders[o] # NoRow /\ ~is_terminal(orders[o].status)
    /\ BeginCancel("operator", Idle, o, orders[o])
    /\ UNCHANGED <<store, world, batch, syncer, boot, halted, faults>>

(* mark_abandoned writes whatever the command has become since it was read *)
AbandonSubmit ==
    /\ task["operator"].pc = "abandon"
    /\ cmds' = [cmds EXCEPT ![submit(task["operator"].order)] = "ABANDONED"]
    /\ Goto("operator", "save_canceled")
    /\ UNCHANGED <<orders, queue, world, batch, syncer, boot, halted, faults>>

EnqueueCancel(a) ==
    /\ task[a].pc = "enqueue" /\ LoopFree
    /\ EnqueueCommand(cancel(task[a].order))
    /\ IF a = "operator" THEN SetTask(a, Idle) ELSE Goto(a, "po_fallback")
    /\ UNCHANGED <<orders, world, batch, syncer, boot, halted, faults>>

(* mark_abandoned or enqueue_cancel raises: the request fails, and the     *)
(* post-only orchestration returns the order without a fallback.           *)
CancelOrderRaises(a) ==
    /\ task[a].pc \in {"abandon", "enqueue"}
    /\ a = "operator" \/ LoopFree
    /\ DbFault
    /\ SetTask(a, IF a = "operator" THEN Idle
                  ELSE [task[a] EXCEPT !.pc = "sent", !.snap = NoRow])
    /\ UNCHANGED <<store, world, batch, syncer, boot, halted>>

------------------------------------------------------------------------------
(* process_cancel_command and adapter.cancel *)

ProcessCancel ==
    LET t == task["worker"]
        row == orders[t.order]
    IN  /\ At("cancel")
        /\ CASE is_terminal(row.status) -> Goto("worker", "sent")
             [] ~is_terminal(row.status) /\ CancelBeforeAck(t.order, row) ->
                    SetTask("worker", LocalCancel(t, t.order, row))
             [] /\ ~is_terminal(row.status) /\ ~CancelBeforeAck(t.order, row)
                /\ row.status # "CANCEL_PENDING" ->
                    GotoWith("worker", "save_cancel_pending",
                             [row EXCEPT !.status = "CANCEL_PENDING"])
             [] OTHER -> GotoWith("worker", "c_lookup", row)
        /\ UNCHANGED <<store, world, batch, syncer, boot, halted, faults>>

(* The adapter returns a terminal order as it is, and asks about an order  *)
(* without exchange id by its client id before it sends the request.       *)
AdapterTerminal == {"FILLED", "CANCELED", "REJECTED", "FAILED", "EXPIRED"}

CancelLookup ==
    LET t == task["worker"]
        mapped == MapOrderState(t.order, venue[t.order])
        send(state) == GotoWith("worker", "c_request",
                                [state EXCEPT !.status = "CANCEL_PENDING"])
    IN  /\ At("c_lookup")
        /\ \/ t.snap.status \in AdapterTerminal /\ Goto("worker", "save_result")
           \/ /\ t.snap.status \notin AdapterTerminal
              /\ t.snap.exchange_order_id # NoVenueId
              /\ send(t.snap)
           \/ /\ t.snap.status \notin AdapterTerminal
              /\ t.snap.exchange_order_id = NoVenueId
              /\ \/ send(t.snap)
                 \/ /\ venue[t.order].state # "none"
                    /\ IF mapped.status \in AdapterTerminal
                       THEN GotoWith("worker", "save_result", mapped)
                       ELSE send(mapped)
        /\ UNCHANGED <<store, world, batch, syncer, boot, halted, faults>>

(* The exchange accepts the request; the answer arrives, or is lost.       *)
CancelAccepted ==
    LET t == task["worker"] IN
    /\ At("c_request")
    /\ Resting(venue[t.order])
    /\ venue' = [venue EXCEPT ![t.order].state = "canceling"]
    /\ \E answer \in {"c_detail", "c_recover"} : Goto("worker", answer)
    /\ UNCHANGED <<store, wire, sends, batch, syncer, boot, halted, faults>>

(* The exchange refuses the request: the order is not resting there, or    *)
(* for a reason of its own (a rate limit).                                 *)
CancelRejected ==
    LET t == task["worker"] IN
    /\ At("c_request")
    /\ GotoWith("worker", "save_result",
                [t.snap EXCEPT !.status = "FAILED", !.execution_error = "other"])
    /\ UNCHANGED <<store, world, batch, syncer, boot, halted, faults>>

CancelTimesOut ==
    /\ At("c_request")
    /\ Goto("worker", "c_recover")
    /\ UNCHANGED <<store, world, batch, syncer, boot, halted, faults>>

(* After an acknowledged cancel: the order's detail, none, or an error.    *)
CancelDetail ==
    LET t == task["worker"]
        mapped == MapOrderState(t.order, venue[t.order])
    IN  /\ At("c_detail")
        /\ \E snap \in {mapped, RecoverableOrderState(mapped, "other"), t.snap,
                        RecoverableOrderState(t.snap, "other")} :
            GotoWith("worker", "save_result", snap)
        /\ UNCHANGED <<store, world, batch, syncer, boot, halted, faults>>

(* Mutant: the exchange's own status is stored, without the mapping.       *)
RecoverUnmapped ==
    LET t == task["worker"] IN
    /\ At("c_recover")
    /\ GotoWith("worker", "save_result", [t.snap EXCEPT !.status = venue[t.order].state])
    /\ UNCHANGED <<store, world, batch, syncer, boot, halted, faults>>

(* _recover_cancel_from_write_exception: only an ended order is conclusive *)
RecoverCancel ==
    LET t == task["worker"]
        mapped == MapOrderState(t.order, venue[t.order])
    IN  /\ At("c_recover")
        /\ \/ /\ venue[t.order].state \in {"filled", "canceled"}
              /\ GotoWith("worker", "save_result", mapped)
           \/ GotoWith("worker", "save_result",
                       RecoverableOrderState(t.snap, "cancel_unknown"))
        /\ UNCHANGED <<store, world, batch, syncer, boot, halted, faults>>

------------------------------------------------------------------------------
(* sync_exchange_state: read all open orders, ask about each, save each *)

SyncFree == Running /\ syncTodo = <<>> /\ syncSave = <<>>

(* _sync_candidates: the orders with an unknown write come first.          *)
SyncCollect ==
    LET open == {o \in Order : IsOpen(orders[o])}
        unknown(o) == UnknownWriteState(orders[o])
    IN  /\ SyncFree /\ open # {}
        /\ \E list \in [1..Cardinality(open) -> open] :
            /\ \A i, j \in DOMAIN list : i < j =>
                    /\ list[i] # list[j]
                    /\ unknown(list[j]) => unknown(list[i])
            /\ syncTodo' = [i \in DOMAIN list |->
                                [order |-> list[i], snap |-> orders[list[i]]]]
        /\ UNCHANGED <<store, world, task, batch, syncSave, boot, halted, faults>>

SyncAsked(snaps) ==
    /\ Running /\ syncTodo # <<>>
    /\ syncTodo' = Tail(syncTodo)
    /\ \E s \in snaps : syncSave' = Append(syncSave, [Head(syncTodo) EXCEPT !.snap = s])
    /\ UNCHANGED <<store, world, task, batch, boot, halted, faults>>

(* Mutant: only an order with an exchange id is looked up.                 *)
SyncById ==
    LET h == Head(syncTodo) IN
    /\ syncTodo # <<>>
    /\ ~IsStuck(h.snap)
    /\ SyncAsked({IF h.snap.exchange_order_id = NoVenueId THEN h.snap
                  ELSE MapOrderState(h.order, venue[h.order])})

(* The exchange answers: the order's row, or that there is no such order,  *)
(* which leaves the snapshot as it was read.                               *)
SyncAnswered ==
    LET h == Head(syncTodo) IN
    /\ syncTodo # <<>>
    /\ IsStuck(h.snap) => venue[h.order].state # "none"
    /\ SyncAsked({IF venue[h.order].state = "none" THEN h.snap
                  ELSE MapOrderState(h.order, venue[h.order])})

(* The exchange cannot be asked, about the order or about its fills: the   *)
(* error is put into the snapshot.                                         *)
SyncFails ==
    LET h == Head(syncTodo) IN
    /\ syncTodo # <<>>
    /\ ~IsStuck(h.snap)
    /\ SyncAsked({RecoverableOrderState(h.snap, "other")} \cup
                 (IF venue[h.order].state = "none" THEN {}
                  ELSE {RecoverableOrderState(MapOrderState(h.order, venue[h.order]),
                                              "other")}))

(* An order still between CREATED and its acknowledgement is left alone.   *)
SyncSkips ==
    /\ Running /\ syncTodo # <<>>
    /\ IsStuck(Head(syncTodo).snap)
    /\ syncTodo' = Tail(syncTodo)
    /\ UNCHANGED <<store, world, task, batch, syncSave, boot, halted, faults>>

SyncSaves ==
    /\ Running /\ syncTodo = <<>> /\ syncSave # <<>>
    /\ LET h == Head(syncSave) IN
        /\ ~SaveRaises(orders[h.order], h.snap)
        /\ orders' = [orders EXCEPT ![h.order] = SaveResult(@, h.snap)]
        /\ preboot' = preboot \ {h.order}
    /\ syncSave' = Tail(syncSave)
    /\ UNCHANGED <<cmds, queue, world, task, batch, syncTodo, phase, blockers,
                   unresolved, reconciled, halted, faults>>

(* An exception out of a save, also out of the flush that follows its      *)
(* commit, ends the whole pass; the loop starts the next one.              *)
SyncAborts ==
    LET h == Head(syncSave)
        cur == orders[h.order]
    IN  /\ Running /\ syncTodo = <<>> /\ syncSave # <<>>
        /\ \/ SaveRaises(cur, h.snap) /\ UNCHANGED <<orders, preboot, faults>>
           \/ DbFault /\ UNCHANGED <<orders, preboot>>
           \/ /\ DbFault /\ ~SaveRaises(cur, h.snap)
              /\ orders' = [orders EXCEPT ![h.order] = SaveResult(cur, h.snap)]
              /\ preboot' = preboot \ {h.order}
        /\ syncSave' = <<>>
        /\ UNCHANGED <<cmds, queue, world, task, batch, syncTodo, phase, blockers,
                       unresolved, reconciled, halted>>

------------------------------------------------------------------------------
(* The exchange, on its own account *)

VenueFill(o) ==
    /\ Resting(venue[o])
    /\ LET filled == venue[o].filled + 1
       IN  venue' = [venue EXCEPT ![o].filled = filled,
                                  ![o].state = IF filled = venue[o].qty THEN "filled" ELSE @]
    /\ UNCHANGED <<store, wire, sends, task, batch, syncer, boot, halted, faults>>

(* An accepted cancel takes effect, or the exchange ends the order itself. *)
VenueCancels(o) ==
    /\ Resting(venue[o])
    /\ venue' = [venue EXCEPT ![o].state = "canceled"]
    /\ UNCHANGED <<store, wire, sends, task, batch, syncer, boot, halted, faults>>

LateArrival(o) ==
    /\ \E w \in wire :
        /\ w[1] = o
        /\ wire' = wire \ {w}
        /\ IF venue[o].state = "none" THEN Book(o, w[2]) ELSE UNCHANGED venue
    /\ UNCHANGED <<store, sends, task, batch, syncer, boot, halted, faults>>

------------------------------------------------------------------------------
(* Crash and startup recovery *)

Crash ==
    /\ phase \in {"running", "boot"}
    /\ faults.crash < MaxCrashes
    /\ faults' = [faults EXCEPT !.crash = @ + 1]
    /\ phase' = "down"
    /\ task' = [a \in {"worker", "operator"} |-> Idle]
    /\ batch' = <<>> /\ syncTodo' = <<>> /\ syncSave' = <<>>
    /\ UNCHANGED <<store, world, halted, blockers, unresolved, reconciled, preboot>>

(* No request outlives the restart of the process that sent it.            *)
Restart ==
    /\ phase = "down"
    /\ phase' = "boot"
    /\ wire' = {}
    /\ unresolved' = {o \in Order : IsStuck(orders[o])}
    /\ reconciled' = 0
    /\ preboot' = {o \in Order : orders[o] # NoRow}
    /\ UNCHANGED <<store, venue, sends, task, batch, syncer, blockers, halted, faults>>

(* The reconciler gets a definite answer about a stuck order.              *)
ReconcileResolved(o) ==
    /\ phase = "boot" /\ o \in unresolved
    /\ venue[o].state # "none"
    /\ LET snap == ResolvedOrderState(o, orders[o], venue[o]) IN
        /\ ~SaveRaises(orders[o], snap)
        /\ orders' = [orders EXCEPT ![o] = SaveResult(@, snap)]
    /\ unresolved' = unresolved \ {o}
    /\ reconciled' = reconciled + 1
    /\ UNCHANGED <<cmds, queue, world, task, batch, syncer, phase, blockers, preboot,
                   halted, faults>>

(* The exchange is unreachable, or says that there is no such order.       *)
ReconcileUnreachable(o) ==
    /\ phase = "boot" /\ o \in unresolved
    /\ unresolved' = unresolved \ {o}
    /\ UNCHANGED <<store, world, task, batch, syncer, phase, blockers, reconciled,
                   preboot, halted, faults>>

(* Recovery raises its blockers and halts on them and on open orders; the  *)
(* loops start.                                                            *)
FinishRecovery ==
    /\ phase = "boot" /\ unresolved = {}
    /\ blockers' = RecoveryBlockers(orders, [o \in Order |-> cmds[submit(o)]],
                        {c \in Command : cmds[c] \in {"PENDING", "CLAIMED"}}, reconciled)
    /\ halted' = (halted \/ blockers' # {} \/ \E o \in Order : IsOpen(orders[o]))
    /\ phase' = "running"
    /\ UNCHANGED <<store, world, task, batch, syncer, unresolved, reconciled, preboot,
                   faults>>

------------------------------------------------------------------------------
(* The operator *)

Halt ==
    /\ Running /\ ~halted
    /\ faults.halt < MaxHalts
    /\ faults' = [faults EXCEPT !.halt = @ + 1]
    /\ halted' = TRUE
    /\ UNCHANGED <<store, world, task, batch, syncer, boot>>

(* Mutant: a resume is accepted whatever recovery found.                   *)
ResumeUnchecked ==
    /\ Running /\ halted
    /\ halted' = FALSE
    /\ UNCHANGED <<store, world, task, batch, syncer, boot, faults>>

Resume ==
    /\ Running /\ halted
    /\ blockers \cap PERSISTENT_STATUS_BLOCKERS = {}
    /\ halted' = FALSE
    /\ UNCHANGED <<store, world, task, batch, syncer, boot, faults>>

(* resolve_stuck_submission: an order from before the restart that has no  *)
(* exchange id and is neither open nor filled at the exchange.             *)
ResolveStuckSubmission(o) ==
    /\ Running /\ task["operator"] = Idle
    /\ o \in preboot /\ IsStuck(orders[o])
    /\ ~Resting(venue[o]) /\ venue[o].filled = 0
    /\ SetTask("operator", [Idle EXCEPT !.pc = "save_resolved", !.order = o,
            !.snap = [orders[o] EXCEPT !.status = "FAILED", !.execution_error = "other"]])
    /\ UNCHANGED <<store, world, batch, syncer, boot, halted, faults>>

------------------------------------------------------------------------------
Worker ==
    \/ Poll \/ SkipCommand \/ ClaimCommand
    \/ MarkSent \/ MarkAcked \/ MarkFailed
    \/ Save("worker") \/ SaveRefused("worker")
    \/ SubmitDecided \/ SubmitBlocked \/ SubmitProceeds
    \/ PlaceDeclined \/ PlaceAccepted \/ PlaceRejected \/ PlaceTimesOut
    \/ ReadDetail \/ RecoverSubmit
    \/ PostOnlyTimeout \/ PostOnlyFallback
    \/ EnqueueCancel("worker")
    \/ ProcessCancel \/ CancelLookup \/ CancelAccepted \/ CancelRejected
    \/ CancelTimesOut \/ CancelDetail \/ RecoverCancel

Operator ==
    \/ \E o \in Order : RequestCancel(o) \/ ResolveStuckSubmission(o)
    \/ Save("operator") \/ SaveRefused("operator")
    \/ AbandonSubmit \/ EnqueueCancel("operator")
    \/ Halt \/ Resume

Sync ==
    \/ SyncCollect \/ SyncAnswered \/ SyncFails \/ SyncSkips \/ SyncSaves \/ SyncAborts

Boot ==
    \/ Restart \/ FinishRecovery
    \/ \E o \in Order : ReconcileResolved(o) \/ ReconcileUnreachable(o)

Environment ==
    \E o \in Order : VenueFill(o) \/ VenueCancels(o) \/ LateArrival(o)

Next ==
    \/ \E o \in Order : AcceptIntent(o) \/ BlockIntent(o)
    \/ \E a \in {"worker", "operator"} : CancelOrderRaises(a)
    \/ Worker \/ ClaimRaises \/ MarkRaises \/ Operator \/ Sync \/ Crash \/ Boot \/ Environment

Spec == Init /\ [][Next]_vars

------------------------------------------------------------------------------
(* Properties *)

(* A snapshot of an order: its quantities are between none and all of it.  *)
Snapshot ==
    [status            : OrderLifecycleStatus,
     exchange_order_id : VenueId \cup {NoVenueId},
     requested_qty     : 0..Qty,
     filled_qty        : 0..Qty,
     remaining_qty     : 0..Qty,
     fees              : Int,
     execution_error   : ExecutionError]

Task ==
    [pc    : {"idle", "submit", "cancel", "place", "detail", "recover", "po_wait",
              "po_fallback", "abandon", "enqueue", "c_lookup", "c_request", "c_detail",
              "c_recover", "sent", "ack", "fail"} \cup Saving,
     order : Order \cup {NoVenueId},
     qty   : 0..Qty,
     snap  : Snapshot \cup {NoRow}]

Pending == [order : Order, snap : Snapshot]

(* Type correctness of the stores, the exchange and the actors' locals.    *)
TypeOK ==
    /\ orders \in [Order -> Snapshot \cup {NoRow}]
    /\ cmds \in [Command -> CommandState]
    /\ queue \in Seq(Command)
    /\ venue \in [Order -> [state : VenueState, qty : 0..Qty, filled : 0..Qty]]
    /\ wire \subseteq Order \X (1..Qty)
    /\ sends \in [Order -> Nat]
    /\ task \in [{"worker", "operator"} -> Task]
    /\ batch \in Seq([cmd : Command, read : CommandState])
    /\ syncTodo \in Seq(Pending) /\ syncSave \in Seq(Pending)
    /\ phase \in {"running", "down", "boot"}
    /\ halted \in BOOLEAN
    /\ unresolved \subseteq Order /\ preboot \subseteq Order
    /\ reconciled \in 0..Cardinality(Order)
    /\ faults \in [crash : 0..MaxCrashes, db : 0..MaxDbFaults, halt : 0..MaxHalts]

(* However often the process crashes and retries, the placement of an      *)
(* order is sent to the exchange at most once: CLAIMED commands that might *)
(* have been sent are not executed again after a restart.                  *)
NoResend == \A o \in Order : sends[o] <= 1

(* The repository never shows a fill the exchange did not make, whichever  *)
(* stale or recovered snapshot reached it last.                            *)
LocalFillsAreReal ==
    \A o \in Order : orders[o] # NoRow =>
        /\ orders[o].filled_qty <= venue[o].filled
        /\ orders[o].status = "FILLED" => venue[o].state = "filled"

(* The orders that nobody cancels: neither the operator nor the post-only  *)
(* orchestration, which also brings forth the fallbacks.                   *)
Uncanceled == Originals \ (PostOnly \cup Cancelable)

(* No orphan: an order resting at the exchange is an open order here, so   *)
(* the sync loop follows it and a restart halts on it, unless somebody     *)
(* cancels that very order.                                                *)
LiveOrderIsOpenLocally ==
    \A o \in Uncanceled : Resting(venue[o]) => IsOpen(orders[o])

(* A submit command that is SENT or ACKED has decided its order: the row   *)
(* has left CREATED and SUBMITTING, so nothing waits for a worker that is  *)
(* done, and one left in SENT by a crash, which no poll takes up again, has *)
(* nothing left to do.                                                     *)
SentMeansDecided ==
    \A o \in Order : cmds[submit(o)] \in {"SENT", "ACKED"} =>
        orders[o].status \notin {"CREATED", "SUBMITTING"}

(* Nothing is sent to the exchange before the intention to send it is on   *)
(* record, where a restart finds it.                                       *)
RecordedBeforeSent ==
    \A o \in Order : sends[o] > 0 => orders[o] # NoRow /\ orders[o].status # "CREATED"

(* After a restart a CLAIMED submit of an order without acknowledgement    *)
(* keeps the process halted, and no resume is accepted, until the order is *)
(* resolved.                                                               *)
ClaimedSubmitStaysBlocked ==
    \A o \in preboot :
        /\ phase = "running"
        /\ cmds[submit(o)] = "CLAIMED" /\ IsStuck(orders[o])
        => halted /\ blockers \cap PERSISTENT_STATUS_BLOCKERS # {}

(* The fallback of a post-only order never leaves the original working     *)
(* without a cancel on record: when it has been sent, the original has     *)
(* ended, or is CANCEL_PENDING with a cancel command to carry it out.      *)
FallbackHasCancelOnRecord ==
    \A o \in PostOnly : sends[FallbackOf[o]] > 0 =>
        \/ is_terminal(orders[o].status)
        \/ orders[o].status = "CANCEL_PENDING" /\ cmds[cancel(o)] # "none"

(* "An unresolved unknown write blocks orders of the same symbol that add  *)
(* risk": the check is made before the order is recorded as SUBMITTING, and*)
(* when it is sent, some awaits later, there is still no open order that   *)
(* carries the marker.  (A fallback is sent without the check, and a       *)
(* cancel under way may put its marker on the order it cancels.)           *)
UnknownWriteHoldsNewRisk ==
    [][\A o \in Originals \ Reducing : sends'[o] > sends[o] =>
          \A p \in Uncanceled \ {o} :
              IsOpen(orders[p]) => ~UnknownWriteState(orders[p])]_vars

------------------------------------------------------------------------------
(* The row of every order implements the abstract lifecycle.               *)

Life(o) == INSTANCE OrderLifecycle WITH
    life <- LifeOf(orders[o]), filled <- FilledOf(orders[o])

(* Refinement: whichever of the worker, the operator's request, the sync   *)
(* loop and the startup reconciler saves an old snapshot last, an order is *)
(* recorded once, ends at most once, and loses no fill.  (LifecycleSpec of *)
(* every order at once, as one initial condition and one action.)          *)
RowsImplementLifecycle ==
    /\ \A o \in Order : Life(o)!LifecycleInit
    /\ [][\A o \in Order : [Life(o)!LifecycleNext]_(Life(o)!lifecycleVars)]_orders

------------------------------------------------------------------------------
(* A statement of the documentation that the code breaks *)

(* "Submission and cancellation are protected against unknown writes ...   *)
(* only what is confirmed absent or has a definite result is decided on":  *)
(* an order that is CANCELED here is not working at the exchange.          *)
CanceledIsNotResting ==
    \A o \in Order : orders[o] # NoRow /\ orders[o].status = "CANCELED"
        => ~Resting(venue[o])

------------------------------------------------------------------------------
(* Liveness.  The loops of the execution process retry forever, a restart  *)
(* follows a crash and completes, and an operator's request runs to its    *)
(* end; an exchange that is asked again and again answers at some time.    *)

WorkerFairSpec == Spec /\ WF_vars(Worker) /\ WF_vars(AbandonSubmit)

FairSpec ==
    /\ WorkerFairSpec
    /\ WF_vars(Boot)
    /\ WF_vars(Save("operator") \/ SaveRefused("operator") \/ EnqueueCancel("operator"))
    /\ WF_vars(Sync)
    /\ SF_vars(SyncAnswered)

(* An order the exchange has, but whose placement answer was lost, becomes *)
(* known by its exchange id, or ends.                                      *)
UnknownSubmitIsIdentified ==
    \A o \in Order :
        (/\ orders[o] # NoRow /\ orders[o].status = "SUBMITTED"
         /\ orders[o].exchange_order_id = NoVenueId
         /\ venue[o].state # "none")
        ~> (orders[o] # NoRow /\ (\/ orders[o].exchange_order_id # NoVenueId
                                  \/ is_terminal(orders[o].status)))

(* A submit command is carried out unless the kill switch stops it; one    *)
(* that was in the worker's hands is not left there.                       *)
SubmitIsCarriedOut ==
    \A o \in Order :
        cmds[submit(o)] = "PENDING"
        ~> (cmds[submit(o)] \notin {"PENDING", "CLAIMED"} \/ halted)

(* A cancel command is carried out even while the system is halted.        *)
CancelIsCarriedOut ==
    \A o \in Order :
        cmds[cancel(o)] = "PENDING" ~> cmds[cancel(o)] \in {"ACKED", "FAILED"}

==============================================================================
