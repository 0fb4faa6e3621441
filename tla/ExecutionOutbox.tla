--------------------------- MODULE ExecutionOutbox ---------------------------
(***************************************************************************)
(* The transactional outbox.  Every transaction that changes an order also *)
(* writes the order's event into the outbox table; flush_pending reads the *)
(* PENDING rows, publishes them to the bus and marks them.  It is called   *)
(* after every commit, by a background loop, and by the portfolio's        *)
(* publisher on the same table: several flushes run at once, on lists they *)
(* read before the others' results were written.                           *)
(*                                                                         *)
(* The bus has a delivery gate.  Until the process is READY, publishing an *)
(* event only appends it to a list in memory, which activate_delivery      *)
(* sends before it opens the gate; a gate once aborted stays so.           *)
(*                                                                         *)
(* An event is a number, in the order of created_at.  The list a flush has *)
(* read is a set: it works through it in the order of the numbers.         *)
(***************************************************************************)
EXTENDS Integers, FiniteSets, Sequences

CONSTANTS
    LastEvent,      \* bound: number of events
    Key,            \* orders
    KeyOf,          \* the order each event is about
    Flusher,        \* flushes that may run at the same time
    Limit,          \* rows read by one flush
    MaxAttempts,    \* _MAX_PUBLISH_ATTEMPTS
    MaxDeferred,    \* _MAX_PRE_ACTIVATION_PUBLICATIONS
    MaxFaults       \* bound: crashes, aborts and database faults

Event == 1..LastEvent

ASSUME EventAssumption == LastEvent \in Nat /\ KeyOf \in [Event -> Key]
ASSUME OutboxBoundsAssumption ==
    /\ Limit \in Nat \ {0}
    /\ MaxAttempts \in Nat \ {0}
    /\ MaxDeferred \in Nat
    /\ MaxFaults \in Nat

VARIABLES
    status,     \* outbox row of each event, or what stands in for it
    attempts,   \* attempt_count of each row
    arrived,    \* history: events the bus has stored
    late,       \* publishes that timed out and may still arrive
    dead,       \* history: events that have been FAILED
    todo,       \* per flush: rows read and not yet dealt with
    done,       \* per flush: published_ids
    failing,    \* per flush: an exception of the first row of todo is handled
    gate,       \* NatsDeliveryGate, and how far activate_delivery is
    deferred,   \* _pre_activation_publications
    dropped,    \* history: PUBLISHED events whose deferred copy was never sent
    faults      \* crashes, aborts and database faults so far

rows    == <<status, attempts, dead>>
bus     == <<arrived, late>>
flushes == <<todo, done, failing>>
startup == <<gate, deferred, dropped>>
vars    == <<rows, bus, flushes, startup, faults>>

RowStatus == {"PENDING", "PUBLISHED", "FAILED"}

GateState == {"closed", "activating", "failed", "open", "aborted"}

IsDeferred(e) == \E i \in 1..Len(deferred) : deferred[i] = e

Busy(f) == todo[f] # {} \/ done[f] # {}

(* The flush is at the row of event e, the first of what it has to do.     *)
At(f, e) == e \in todo[f] /\ \A d \in todo[f] : e <= d

------------------------------------------------------------------------------
Init ==
    /\ status = [e \in Event |-> "none"]
    /\ attempts = [e \in Event |-> 0]
    /\ arrived = {} /\ late = {} /\ dead = {}
    /\ todo = [f \in Flusher |-> {}]
    /\ done = [f \in Flusher |-> {}]
    /\ failing = [f \in Flusher |-> FALSE]
    /\ gate = "closed" /\ deferred = <<>> /\ dropped = {}
    /\ faults = 0

(* A transaction builds its envelope.  The order's row is locked by then,  *)
(* so no other transaction on that order is open.                          *)
BuildEnvelope(e) ==
    /\ status[e] = "none"
    /\ \A d \in Event : d < e => status[d] # "none"
    /\ \A d \in Event : KeyOf[d] = KeyOf[e] => status[d] # "open"
    /\ status' = [status EXCEPT ![e] = "open"]
    /\ UNCHANGED <<attempts, dead, bus, flushes, startup, faults>>

(* enqueue_in_session and session.commit.                                  *)
Commit(e) ==
    /\ status[e] = "open"
    /\ status' = [status EXCEPT ![e] = "PENDING"]
    /\ UNCHANGED <<attempts, dead, bus, flushes, startup, faults>>

Rollback(e) ==
    /\ status[e] = "open"
    /\ status' = [status EXCEPT ![e] = "aborted"]
    /\ UNCHANGED <<attempts, dead, bus, flushes, startup, faults>>

------------------------------------------------------------------------------
(* flush_pending *)

(* pending(limit): the oldest PENDING rows.                                *)
PendingRows ==
    LET all == {e \in Event : status[e] = "PENDING"}
    IN  {e \in all : Cardinality({d \in all : d < e}) < Limit}

FlushStart(f) ==
    /\ ~Busy(f)
    /\ PendingRows # {}
    /\ todo' = [todo EXCEPT ![f] = PendingRows]
    /\ UNCHANGED <<rows, bus, done, failing, startup, faults>>

(* publish_envelope returns: the bus has stored the event.                 *)
PublishSucceeds(f, e) ==
    /\ At(f, e) /\ ~failing[f]
    /\ gate = "open"
    /\ arrived' = arrived \cup {e}
    /\ todo' = [todo EXCEPT ![f] = @ \ {e}]
    /\ done' = [done EXCEPT ![f] = @ \cup {e}]
    /\ UNCHANGED <<rows, late, failing, startup, faults>>

(* publish_envelope returns although the gate is not open yet: the event   *)
(* is in the list.                                                         *)
Defer(f, e) ==
    /\ At(f, e) /\ ~failing[f]
    /\ gate \in {"closed", "failed"}
    /\ Len(deferred) < MaxDeferred
    /\ deferred' = Append(deferred, e)
    /\ todo' = [todo EXCEPT ![f] = @ \ {e}]
    /\ done' = [done EXCEPT ![f] = @ \cup {e}]
    /\ UNCHANGED <<rows, bus, failing, gate, dropped, faults>>

(* A publish of which no answer was seen: the event was lost, was stored,  *)
(* or is still on its way.                                                 *)
AnswerMissing(e) ==
    \/ UNCHANGED bus
    \/ arrived' = arrived \cup {e} /\ UNCHANGED late
    \/ late' = late \cup {e} /\ UNCHANGED arrived

(* Mutant: an exception is logged, and the event counts as published.      *)
PublishErrorIgnored(f, e) ==
    /\ At(f, e) /\ ~failing[f]
    /\ todo' = [todo EXCEPT ![f] = @ \ {e}]
    /\ done' = [done EXCEPT ![f] = @ \cup {e}]
    /\ UNCHANGED <<rows, bus, failing, startup, faults>>

(* publish_envelope raises or times out.  Nothing has been sent when the   *)
(* gate is not open: it is aborted, the list is full, or activate_delivery *)
(* holds the lock for too long.                                            *)
PublishRaises(f, e) ==
    /\ At(f, e) /\ ~failing[f]
    /\ IF gate = "open" THEN AnswerMissing(e) ELSE UNCHANGED bus
    /\ failing' = [failing EXCEPT ![f] = TRUE]
    /\ UNCHANGED <<rows, todo, done, startup, faults>>

(* mark_published_batch: before a failure is recorded, and at the end.     *)
MarkPublished(f) ==
    /\ done[f] # {}
    /\ failing[f] \/ todo[f] = {}
    /\ status' = [e \in Event |-> IF e \in done[f] THEN "PUBLISHED" ELSE status[e]]
    /\ attempts' = [e \in Event |-> IF e \in done[f] THEN attempts[e] + 1 ELSE attempts[e]]
    /\ done' = [done EXCEPT ![f] = {}]
    /\ UNCHANGED <<dead, bus, todo, failing, startup, faults>>

(* Mutant: a state the table does not know.                                *)
StatusDeadLetter(e) ==
    IF attempts[e] + 1 >= MaxAttempts THEN "DEAD_LETTER" ELSE status[e]

(* record_failure_with_threshold leaves the status as it is unless the     *)
(* threshold is reached.                                                   *)
StatusAfterFailure(e) ==
    IF attempts[e] + 1 >= MaxAttempts THEN "FAILED" ELSE status[e]

(* Mutant: the flush goes on to the next row after any failure.            *)
RecordFailureGoesOn(f, e) ==
    LET after == StatusAfterFailure(e)
    IN  /\ At(f, e) /\ failing[f] /\ done[f] = {}
        /\ attempts' = [attempts EXCEPT ![e] = @ + 1]
        /\ status' = [status EXCEPT ![e] = after]
        /\ dead' = IF after = "FAILED" THEN dead \cup {e} ELSE dead
        /\ todo' = [todo EXCEPT ![f] = @ \ {e}]
        /\ failing' = [failing EXCEPT ![f] = FALSE]
        /\ UNCHANGED <<bus, done, startup, faults>>

(* Mutant: attempts are not counted, the row is retried forever.           *)
RecordFailureUncounted(f, e) ==
    /\ At(f, e) /\ failing[f] /\ done[f] = {}
    /\ todo' = [todo EXCEPT ![f] = {}]
    /\ failing' = [failing EXCEPT ![f] = FALSE]
    /\ UNCHANGED <<rows, bus, done, startup, faults>>

(* A row that may be retried ends the flush.                               *)
RecordFailure(f, e) ==
    LET after == StatusAfterFailure(e)
    IN  /\ At(f, e) /\ failing[f] /\ done[f] = {}
        /\ attempts' = [attempts EXCEPT ![e] = @ + 1]
        /\ status' = [status EXCEPT ![e] = after]
        /\ dead' = IF after = "FAILED" THEN dead \cup {e} ELSE dead
        /\ todo' = [todo EXCEPT ![f] = IF after = "FAILED" THEN @ \ {e} ELSE {}]
        /\ failing' = [failing EXCEPT ![f] = FALSE]
        /\ UNCHANGED <<bus, done, startup, faults>>

------------------------------------------------------------------------------
(* activate_delivery *)

Fault == faults < MaxFaults /\ faults' = faults + 1

(* The peers are READY.                                                    *)
ActivationStarts ==
    /\ gate = "closed"
    /\ gate' = "activating"
    /\ UNCHANGED <<rows, bus, flushes, deferred, dropped, faults>>

ActivationSends ==
    /\ gate = "activating" /\ deferred # <<>>
    /\ arrived' = arrived \cup {Head(deferred)}
    /\ deferred' = Tail(deferred)
    /\ UNCHANGED <<rows, late, flushes, gate, dropped, faults>>

ActivationEnds ==
    /\ gate = "activating" /\ deferred = <<>>
    /\ gate' = "open"
    /\ UNCHANGED <<rows, bus, flushes, deferred, dropped, faults>>

(* A publish of activate_delivery raises; its event stays in the list.     *)
ActivationFails ==
    /\ gate = "activating" /\ deferred # <<>>
    /\ Fault
    /\ AnswerMissing(Head(deferred))
    /\ gate' = "failed"
    /\ UNCHANGED <<rows, flushes, deferred, dropped>>

(* Mutant: nobody handles the failure of the activation.                   *)
AbortNotOnFailure ==
    /\ gate \in {"closed", "activating", "open"} /\ Fault
    /\ IF gate = "activating" /\ deferred # <<>>
       THEN AnswerMissing(Head(deferred))
       ELSE UNCHANGED bus
    /\ gate' = "aborted"
    /\ UNCHANGED <<rows, flushes, deferred, dropped>>

(* The activation has failed, peers or the lease are missing, the          *)
(* connection is lost, or the process shuts down; an activation under way  *)
(* is cancelled.                                                           *)
Abort ==
    /\ \/ gate = "failed" /\ UNCHANGED faults
       \/ gate \in {"closed", "activating", "open"} /\ Fault
    /\ IF gate = "activating" /\ deferred # <<>>
       THEN AnswerMissing(Head(deferred))
       ELSE UNCHANGED bus
    /\ gate' = "aborted"
    /\ UNCHANGED <<rows, flushes, deferred, dropped>>

------------------------------------------------------------------------------
(* Faults and the network *)

LateArrival(e) ==
    /\ e \in late
    /\ late' = late \ {e}
    /\ arrived' = arrived \cup {e}
    /\ UNCHANGED <<rows, flushes, startup, faults>>

(* A database call of a flush raises: the flush is given up as it is.      *)
FlushRaises(f) ==
    /\ Busy(f) /\ (failing[f] \/ todo[f] = {})
    /\ Fault
    /\ todo' = [todo EXCEPT ![f] = {}]
    /\ done' = [done EXCEPT ![f] = {}]
    /\ failing' = [failing EXCEPT ![f] = FALSE]
    /\ UNCHANGED <<rows, bus, startup>>

(* The process ends and is started again: its transactions are rolled      *)
(* back; its flushes and what it had deferred are gone.                    *)
ProcessEnds ==
    /\ status' = [e \in Event |-> IF status[e] = "open" THEN "aborted" ELSE status[e]]
    /\ todo' = [f \in Flusher |-> {}]
    /\ done' = [f \in Flusher |-> {}]
    /\ failing' = [f \in Flusher |-> FALSE]
    /\ gate' = "closed"
    /\ deferred' = <<>>
    /\ dropped' = dropped \cup
        {e \in Event : IsDeferred(e) /\ status[e] = "PUBLISHED" /\ e \notin arrived}
    /\ UNCHANGED <<attempts, dead, bus>>

Crash == Fault /\ ProcessEnds

Exit == gate = "aborted" /\ ProcessEnds /\ UNCHANGED faults

------------------------------------------------------------------------------
FlushStep(f) ==
    \/ FlushStart(f) \/ MarkPublished(f)
    \/ \E e \in Event :
        \/ PublishSucceeds(f, e) \/ Defer(f, e)
        \/ PublishRaises(f, e) \/ RecordFailure(f, e)

(* A process on its way to READY, or to its end.                           *)
Startup ==
    \/ ActivationStarts \/ ActivationSends \/ ActivationEnds
    \/ ActivationFails \/ Exit
    \/ gate # "open" /\ Abort

Next ==
    \/ \E e \in Event : BuildEnvelope(e) \/ Commit(e) \/ Rollback(e) \/ LateArrival(e)
    \/ \E f \in Flusher : FlushStep(f) \/ FlushRaises(f)
    \/ Startup \/ Abort \/ Crash

Spec == Init /\ [][Next]_vars

(* The background loop flushes forever; a flush runs to its end.  A start  *)
(* has time limits for every wait, and an aborted process is ended.        *)
FairSpec == Spec /\ WF_vars(Startup) /\ \A f \in Flusher : WF_vars(FlushStep(f))

------------------------------------------------------------------------------
(* Properties *)

(* Type correctness of the table, the bus, its gate and the flushes.       *)
TypeOK ==
    /\ status \in [Event -> RowStatus \cup {"none", "open", "aborted"}]
    /\ attempts \in [Event -> Nat]
    /\ arrived \subseteq Event /\ late \subseteq Event /\ dead \subseteq Event
    /\ todo \in [Flusher -> SUBSET Event]
    /\ done \in [Flusher -> SUBSET Event]
    /\ failing \in [Flusher -> BOOLEAN]
    /\ gate \in GateState
    /\ deferred \in Seq(Event)
    /\ dropped \subseteq Event
    /\ faults \in Nat

(* One way only leads to the silent loss of an event: a PUBLISHED row's    *)
(* event is on the bus, or waits for the activation of this process, or    *)
(* went with a process that ended before it had sent what it deferred.     *)
(* Nothing other flushes, faults and restarts do to the row between        *)
(* reading and marking it loses it.                                        *)
LostOnlyBeforeActivation ==
    \A e \in Event : status[e] = "PUBLISHED" =>
        e \in arrived \/ (IsDeferred(e) /\ gate # "open") \/ e \in dropped

Committed == {e \in Event : status[e] \in RowStatus}

Delivery == INSTANCE EventDelivery
    WITH accepted <- Committed, givenUp <- dead \cup dropped

(* Refinement: concurrent flushes deliver the events of one order in the   *)
(* order they were written, but for those that were FAILED or dropped      *)
(* first; nothing arrives that was not committed.                          *)
ImplementsDelivery == Delivery!DeliverySpec

(* Every committed event is PUBLISHED or FAILED in the end: an event that  *)
(* cannot be sent does not hold up the table forever.                      *)
EveryEventIsSettled ==
    \A e \in Event : status[e] = "PENDING" ~> status[e] \in {"PUBLISHED", "FAILED"}

(* What is deferred is not forgotten: a PUBLISHED event is on the bus in   *)
(* the end, unless another flush gave it up or the process that deferred   *)
(* it ended without sending it.                                            *)
PublishedIsSent ==
    \A e \in Event : status[e] = "PUBLISHED" ~> e \in arrived \cup dropped \cup dead

==============================================================================
