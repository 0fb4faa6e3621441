# Formal model of the AATS execution core

AATS is an automated trading system in Python: four processes (gateway, market,
decision, execution) connected by NATS JetStream, Redis and Postgres. The
processes before execution compute numbers; execution is where an order is
recorded, sent to the exchange (OKX), followed, cancelled, recovered after a
crash and reported. A mistake there sends an order twice, forgets one that is
working at the exchange, shows fills that did not happen, spends money twice,
trades on after a halt, or runs two executions side by side. This directory
models that core in TLA+, checks it with TLC and proves parts of it with TLAPS.

Paths below are relative to the repository root's `aats/` package unless they
start with `docs/`.

## 1. Inventory

| Component | State | Operations | Modelled |
|---|---|---|---|
| Order state machine (`services/execution_engine/state_machine.py`) | none | `validate_transition`, `merge`, `_normalize`, `_merge_without_regression`, `_merge_execution_error` | `OrderStateMachine` |
| Execution repository (`storage/execution_repo_converged_postgres.py`) | order rows, fill rows | `save_order_state_in_session`, `open_order_states`, `save_fill_in_session` | `OrderRepository`, `OrderStore` (order rows) |
| OKX adapter (`services/execution_engine/okx_adapter.py`, `order_truth.py`) | last error, caches | `submit`, `cancel`, `sync`, recovery of writes with unknown outcome | `OkxAdapter`, `CommandFlow` |
| Order manager (`services/execution_engine/order_manager.py`) | none of its own | intake of intents, `process_submit_command`, `process_cancel_command`, `cancel_order`, post-only orchestration, `sync_exchange_state` | `CommandFlow` |
| Command flow (`services/execution_control/command_service.py`, `order_service.py`, `storage/execution_command_repo_postgres.py`) | command rows PENDING, CLAIMED, SENT, ACKED, FAILED, ABANDONED | enqueue, poll, claim, mark, abandon | `CommandFlow` |
| Startup recovery (`services/recovery_control/exchange_order_reconciler.py`, `startup_recovery.py`) | blockers, reconciled count | reconcile stuck orders, count, block, halt | `StartupRecovery`, `CommandFlow` |
| Recovery posture and operator controls (`services/governance_engine/recovery_posture.py`, `services/operator/reconciliation_system_queries.py`) | none of its own | `halt`, `resume`, `resolve_stuck_submission` | `StartupRecovery`, `CommandFlow` |
| Execution outbox (`services/execution_engine/outbox.py`, `storage/outbox_repo_postgres.py`) | outbox rows | transactional enqueue, `flush_pending` | `ExecutionOutbox`, `EventDelivery` |
| Kill switch (`services/governance_engine/kill_switch.py`, delivery of operator commands in `services/operator/command_bridge.py`) | phase and generation per process, submission fence, record and permission lease in Redis, notices on NATS | `halt`, `halt_async`, `resume_async`, submission guard, `bootstrap`, notice handler, activation and renewal of the lease | `KillSwitch`; one flag in `CommandFlow` |
| Obligations (`services/execution_engine/obligations.py`, `storage/obligation_repo_postgres.py`, the outbox transactions that write them) | one reservation row per order | reserve at intake, apply fills, finalize, clean up at startup | `Obligations` |
| Role ownership (`bootstrap/process_lifecycle.py`, `readiness_watchdog.py`, the compare operations of `storage/hot_state_store.py`) | the role's key in Redis, the lease and deadlines of an instance, its watchdog process | claim, quarantine, renew, promote, fail, shut down, release, kill | `RoleOwnership` |
| Hot-state caches (order, fill, obligation, account caches) | Redis copies | publish after commit, hydrate | planned |
| Event bus (`bus/nats_bus.py`) | delivery gate, deferred publications; streams, consumers | publish or defer, `activate_delivery`, abort; deliver, redeliver | gate and publishing in `ExecutionOutbox` |
| Portfolio, ledger, reconciliation, risk, strategies, market data, AI, data platform, gateway, UI | various | numeric pipelines, presentation | no, see section 8 |

How they interact. The decision process publishes an order intent. The order
manager writes, in one transaction, the order row (CREATED), the obligation, the
outbox events and a submit command. The command worker of the execution process
polls the commands, claims one and calls the order manager, which writes
SUBMITTING, calls the adapter, and saves the snapshot the adapter returns. The
sync loop reads the open rows, asks the exchange about each, and saves what it
learns. The operator cancels (directly, or through a cancel command), halts and
resumes. Every save merges a snapshot into the row under a row lock. At startup
the reconciler asks the exchange about rows that were left between "recorded" and
"acknowledged", recovery raises blockers, and the kill switch stays engaged until
a resume is accepted. A settlement (a save with fills) also reads the order's
obligation, computes its new row in memory and writes it as a whole. The guard
around a placement holds the submission fence and reads the record in Redis; a
halt sets the process's phase, drains the fence and records HALTED; the gateway
alone mints and revokes the short permission to trade. Before a process does any
of this it has to own its role: it claims a key in Redis, waits long enough for
any earlier owner to be dead, and a watchdog in another process kills it when
its renewals are not confirmed in time.

What is hard:

- three actors of one process (worker, operator request, sync loop) save
  snapshots they built from earlier reads, in any order;
- every exchange call can succeed, be refused, time out with the request lost,
  executed, or still under way; every database write can fail;
- the process can end between any two writes, and the restarted one has only
  the rows and the exchange to go by;
- flushes of the outbox overlap, the bus may store an event whose publish timed
  out, and until the process is READY it only keeps events in memory;
- a halt runs against submissions past their checks, resumes, renewals of the
  permission, stale reads of the record and restarts of either process;
- three tasks read an obligation, compute and overwrite it;
- Redis can lose an owner's key, and a renewal can be answered late or run after
  its sender has given it up.

What makes each component correct:

- *order row*: fills are never lost or invented, a terminal order is not
  reopened, quantities fit together, the marker of an unknown submission is
  removed by evidence only;
- *command flow*: an order is sent at most once; nothing is sent before it is on
  record; an order working at the exchange is open locally; ACKED means decided;
  commands are carried out in the end, and cancels also while halted;
- *recovery*: an order that may have been sent keeps the system halted until it
  is resolved;
- *outbox*: what is PUBLISHED has arrived, or is lost in one known way only; the
  events of an order arrive in order; every event is published or dead-lettered in
  the end;
- *kill switch*: HALTED means that no submission is inside the guard; after a
  halt is acknowledged none passes until a resume is taken up; a revoked
  permission is not written again by a renewal under way;
- *obligations*: each fill is consumed at most once; an open order stays covered;
  an order is accepted only if it fits, with all that is open, into the balance
  read for it (not, as documented, into what is left: section 7);
- *role ownership*: never two instances at work; the one at work holds the key;
  stopping is bounded; a dead owner's key is freed.

## 2. Plan

Done, in this order: the order row with its abstract lifecycle and proofs; the
command flow with exchange, faults, recovery and operator; the outbox with its
abstract delivery promise and proofs; the kill switch, obligations and role
ownership, each with a run and proofs; proofs of every safety property of the
command flow, and that its rows implement the abstract lifecycle; proofs about
the balance the obligations share. Every invariant and every action property of
the passing runs has a theorem.

Next:

1. Command flow extensions: the poll limit at its limit (twenty halted submits in
   front of a cancel), a second cancel request absorbed by the idempotency key of
   a finished one.
2. The consumers of the event bus (`bus/nats_bus.py`): callbacks held back by the
   gate, redelivery up to the limit, one message in flight per consumer.
3. Fill rows and the synthetic order refresh; the hot caches.

## 3. Modules

- `OrderStateMachine` — the statuses, `ALLOWED_TRANSITIONS`, `STATE_PRIORITY`,
  `validate_transition`, and `merge` with its parts, as operators on a snapshot
  record `[status, exchange_order_id, requested_qty, filled_qty, remaining_qty,
  fees, execution_error]`. The error text is one of "none", "other",
  "submission_unknown", "cancel_unknown": what the code tells apart. `Epsilon`
  stands for `EPSILON_DECIMAL_12`.
- `OrderRepository` — what a save does: raise, or merge.
- `OrderStore` — one row and all its writers as one action per outcome of a save;
  `OrderLifecycle` is the abstract specification it implements. `CommandFlow`
  implements it too, order by order: the same promise, with the real writers in
  place of arbitrary snapshots.
- `OkxAdapter` — the snapshots the adapter builds from what it learns.
- `StartupRecovery` — which rows are stuck, what the reconciler makes of an
  answer, which blockers recovery raises, which of them bar a resume.
- `CommandFlow` — the composition: repository, command table, exchange, worker,
  operator, sync loop, crash, startup, kill switch. A step lasts from one `await`
  to the next; the pc of `task["worker"]` and `task["operator"]` names the await.
- `ExecutionOutbox` — outbox rows, overlapping flushes, the bus and its delivery
  gate; `EventDelivery` is the abstract specification it implements. `FlushStart`,
  `PublishSucceeds`, `Defer`, `PublishRaises`, `MarkPublished` and `RecordFailure`
  are `flush_pending` with what `publish_envelope` does for it; `Activation*` is
  `activate_delivery`, whose list is the variable `deferred`; `Abort` is every
  call of the gate's `abort`. `gate` is "failed" between the exception of
  `activate_delivery` and the abort that follows it. A bus without a gate is one
  that is activated at once.
- `KillSwitch` — the kill switch objects of the execution process and the
  gateway, the record and the leases in Redis, the notices, the operator's
  commands, and submissions going through the guard. Coroutines are split at the
  awaits where what they read may be stale when they go on. `BeginHalt`,
  `MarkHaltEnforced`, `ApplyRunning`, `LatchDegraded` and `AdoptHalt` are the
  object's own transitions; `EnterGuard`, `ReadAuthority`, `CheckAuthority`,
  `ReadLease`, `Placed` the guard; `BeginExecHalt`, `TakeHalt`, `ReceiveHalt`,
  `Announce`, `Drain`, `Confirm` a halt; `TakeResume`, `WriteResume`,
  `ApplyResume` a resume; `StartRenewal` to `LoopRevokes` the permission lease.
- `Obligations` — order rows, obligation rows, recorded fills and the three tasks
  that settle them, from `TakeIntent` over `Preview` and `CommitFills` to
  `FinalizeWrite` and the cleanup at `Restart`. It uses `OrderRepository` and
  `OkxAdapter` for rows and exchange.
- `RoleOwnership` — the key of one role, the instances started for it, their
  watchdogs and Redis requests in three steps (sent, run, answered). Time passes
  in ticks. `Refresh` to `LeaseExhausted` are the maintainer of the lease,
  `BeginPromotion`, `Promote`, `Promoted` the change to READY, `Fails`,
  `BeginShutdown`, `Release` the ways to stop, `WatchdogKills` the other process.
- `OrderMergeProofs` (lemmas about `merge`), `OrderStoreProofs`, `OutboxProofs`,
  `KillSwitchProofs`, `ObligationProofs`, `RoleOwnershipProofs`,
  `CommandFlowProofs` (the types and what holds by the order of the writes),
  `CommandFlowSafetyProofs` (what happens at the exchange) — theorems.
  `MC_*` — model values.

Correspondence of `CommandFlow` actions to the code (all lines are in
`PROJECT.json`): `AcceptIntent`/`BlockIntent` are the intake; `Poll`,
`SkipCommand`, `ClaimCommand`, `MarkSent`, `MarkAcked`, `MarkFailed`,
`MarkRaises`, `ClaimRaises` are `process_pending` and `_process_command`;
`Save`/`SaveRefused` are every persist of a snapshot, including the exception
after the commit when the outbox flush that follows raises; `Submit*`, `Place*`,
`ReadDetail`, `RecoverSubmit` are `process_submit_command` and `adapter.submit`;
`PostOnly*` the post-only orchestration; `RequestCancel`, `AbandonSubmit`,
`EnqueueCancel`, `CancelOrderRaises`, `ProcessCancel`, `Cancel*`, `RecoverCancel`
the two cancel paths; `Sync*` the sync pass; `Restart`, `Reconcile*`,
`FinishRecovery` the startup; `Halt`, `Resume`, `ResolveStuckSubmission` the
operator. `Book`, `VenueFill`, `VenueCancels`, `LateArrival` and `Crash` are the
world outside.

## 4. Runs

All distinct-state counts are TLC's.

| Run | Checks | Instance |
|---|---|---|
| `order_store` | row properties and `ImplementsLifecycle` | all snapshots over sizes {2,3}, fills {0,1,3}, every status, error, exchange id; 3 thousand states |
| `one_order` | `NoResend`, `SentMeansDecided`, `LocalFillsAreReal`, `RowsImplementLifecycle` | one order of 2 units, cancels, one crash anywhere; 1.6 million |
| `two_orders` | `LiveOrderIsOpenLocally`, `ClaimedSubmitStaysBlocked`, `UnknownWriteHoldsNewRisk` | two orders, one crash, one halt, no cancels, symmetric; 1.7 million |
| `post_only` | `TypeOK`, `RecordedBeforeSent`, `FallbackHasCancelOnRecord` | a post-only order and its fallback, one failing database write; 1.6 million |
| `submit_liveness` | `UnknownSubmitIsIdentified`, `SubmitIsCarriedOut` | one order, one crash, one halt; 9 thousand |
| `cancel_liveness` | `CancelIsCarriedOut` | one order, cancels, one halt; 120 thousand |
| `outbox` | `TypeOK`, `LostOnlyBeforeActivation`, `ImplementsDelivery`, `EveryEventIsSettled`, `PublishedIsSent` | the two events of an order, 2 flushes, room for 2 deferred events, one fault, the code's 3 attempts; 120 thousand |
| `kill_switch` | `TypeOK`, `HaltedMeansDrained`, `AcknowledgedHaltHolds`, `RevokedStaysRevoked` | one submission after the other; any two of: up to 2 halts, a resume, a Redis fault, a restart; 1.1 million |
| `obligations` | `TypeOK`, `ConsumedAtMostOnce`, `OpenOrderStaysCovered`, `AcceptedWithinBalanceRead` | two orders of 2 units that do not both fit the balance, one failing transaction or restart; 2.2 million |
| `role_ownership` | `TypeOK`, `OneOwnerAtWork`, `WorkerHoldsKey`, `StoppingIsBounded`, `LostOwnerStops`, `RoleIsFreed` | two instances, TTL 4, one lost key, one request given up; 580 thousand |
| `doc_*` | one documented statement each, violated | section 7 |

Why the bounds are enough. Orders interact only through the unknown-write check,
the counts of recovery and the queue of commands, all of which two orders
exercise; two units give a partial fill; one crash can fall between any two
steps, and the state it leaves is again a state of rows and exchange only, so a
second crash starts from what the first recovery left. The row is touched by one
save at a time, so `order_store` needs one order and two sizes (the intent's and
the size rounded to the exchange's lot); the theorems cover any other value. The
outbox needs two flushes for a stale list and two events of one order for their
order; the theorems hold for any number. A stale list fills the room for two
deferred events; the fault may be a crash, an abort, a failed activation or a
database fault, and the process that follows it starts with a closed gate again.

A halt of the kill switch needs one submission to race with, since the fence
admits one at a time; `MaxEvents` bounds the halts, resumes, faults and restarts
together at two, so that every pair of them meets in every order, a halt after a
halt included; the theorems have no bound. A Redis call that raises has not
taken effect there.

Obligations need two orders for the common balance and two fills for partial
consumption; three tasks may settle the same order at once. `MaxFaults` counts
failing transactions and restarts. A settlement may carry any subset of the
executed fills, because the cache of the private WebSocket is preferred whenever
it is not empty. In the run every fee can be converted (`Unsupported = {}`); the
theorems cover any set.

Two instances are enough for a takeover; a restarted process is a new instance
with a new id. The ticks keep the code's order of its constants (TTL 60, margin
30, grace 10, guard 10, provisioning 180, quarantine 55 seconds): the assumption
`OwnershipConstants` states all that is used of them. The run takes a watchdog to
kill on time (`Slack = 0`), the theorems allow any lateness below the guard that
the quarantine still covers.

Why some bounds are zero. `submit_liveness` has no cancels because what it checks
fails with them: that is what section 7 describes. `two_orders` has none because its
properties speak of the orders that nobody cancels (`Uncanceled`): a cancelled order
would take the place of one of the two. That cancels of other orders do not matter
is proved (section 6), not run. The
runs with crashes have no failing writes to keep them small; the theorems of
section 6 cover both together. `CHECK_DEADLOCK FALSE` is set
for the command flow, the outbox and the obligations because a finished set of
orders or events has nothing more to do.

Every property has a mutant, an operator marked "Mutant:" in the module, that
changes one mapped definition the way a plausible bug would and makes TLC find
the property violated.

## 5. Fairness

The loops of the execution process (`bootstrap/config.py` 1531-1603) catch every
exception and go round again: weak fairness of the worker's steps, of the sync
pass, and of each flush. A start waits for its peers, its lease and each publish
with a time limit, and an aborted process is ended by its own cleanup or by the
watchdog: weak fairness of `Startup` in `outbox`, which says nothing of a process
whose gate is open. A restart follows a crash, and recovery completes: weak
fairness of `Boot`. A request of the operator runs to its end. `SyncAnswered` is
strongly fair: an exchange that is asked again and again answers at some time.
Nothing is assumed of the operator's decisions, of the exchange's matching, or of
late messages. `cancel_liveness` assumes only the worker's fairness. It has no
crash: a cancel command left in SENT by a crash is picked up again when it has
become stale, which needs a clock.

In `role_ownership` time passes (weak fairness of `Tick`) and a watchdog, which is
a process of its own with nothing else to do, kills (weak fairness of each
`WatchdogKills`). Nothing is assumed of Redis or of the instances: they may hang.

## 6. Proofs

`OrderStoreProofs` proves, for every set of snapshots, every size and every
tolerance, that `Spec` implies each of the row's properties, and that `OrderStore`
implements `OrderLifecycle`. The invariant is `IInv`: the type, `Sound(row)` (the
quantities fit together, and full means FILLED), `FillsNeverLost`, and that
nothing has been seen before the order is recorded. `Sound` is needed because
merging takes the smaller of the candidates for the remaining quantity and
`_normalize` overrides it only for some statuses: what keeps the quantities
together is a relation between the old row and the snapshot, not a clamp. The
action properties follow from one lemma, `RowSteps`, that describes what a save
can do to a row. Assumptions: snapshots have their type, an order is first
recorded unfilled with a positive size that remains as a whole
(`FirstSnapshotAssumption`, the order manager's constructor), the tolerance is
not negative.

`OutboxProofs` proves type correctness, `LostOnlyBeforeActivation` and
`ImplementsDelivery` for any number of events, orders, flushes, attempts, faults,
any read limit and any room for deferred events. The invariant adds to the stated
properties: only committed events are in a flush's hands or on their way
(`OnlyCommitted`), a FAILED row has been given up (`FailedIsDead`), a failing
flush has a row (`FailingHasRow`), at most one transaction per order is open
(`OneAtATime`, the row lock), a flush that holds an event holds every earlier
unsettled event of the order too, unless that one is deferred (`NoGaps`), a
deferred event waits behind the earlier ones of its order (`DeferredInOrder`), the
gate is open only when nothing is deferred (`OpenIsEmpty`), what a flush counts as
published was sent or deferred (`DoneIsSentOrDeferred`), and a publish on its way
has nothing unsettled before it (`LateIsNext`). `NoGaps` is the heart: it holds
because `pending` reads from the oldest row and a retriable failure ends the
flush.

`KillSwitchProofs` proves the four invariants of its run for any number of
submissions, halts, resumes, faults and restarts. The invariant: whoever is inside
the guard holds the fence (`FenceIsHeld`), HALTED leaves the fence free
(`HaltedIsFree`), an acknowledged halt keeps the phase from RUNNING and the fence
free, and the worker is not in a resume (`AckedIsBlocked`: only the worker answers
the operator, one command at a time), a halt known to be written is what Redis
holds (`WrittenIsHalted`, needed for restarts), and a deleted lease has no renewal
about to write it (`RevokedIsSafe`: the io lock).

`ObligationProofs` proves `TypeOK`, `ConsumedAtMostOnce`, `OpenOrderStaysCovered`
and `AcceptedWithinBalanceRead` for any finite set of orders and any balance,
sizes, additive costs, unsupported fees and faults. The first properties speak of
the stored rows, but a task overwrites them with rows it computed earlier, so the
invariant `IInv` says the same of every row a task may still write (`TasksOK`): it
has counted no recorded fill twice, and if it releases, its order has ended or ends
with it. Terminal rows are never reopened (`OrderMergeProofs`), which is why a
releasing row that comes late hits no open order. `ConsumedAtMostOnce` does not say
that every recorded fill is consumed: a row computed from a list without a fill may
overwrite its consumption, and the order then holds too much until it ends.

`AcceptedWithinBalanceRead` is an action property: the step that opens an order
that reserves something leaves what all open orders may still cost within the
balance that the order's own intake has read, some awaits and a transaction
earlier. On top of `IInv` it takes `FundsOK`: at most one intent is past the lock
(`LockedIntake`), and once it has passed the check, what it and the open orders
need together is within what it has read (`CheckedIntake`). It says nothing about
money spent after the reading, which the code does not look at; that this is less
than the documentation promises is described in section 7.

The check in the code sums what *active* obligations hold; that no open order
escapes this sum is `Spent`, kept for every row a task may write: an obligation
that is not active has nothing left. Nothing an exchange or a task does between
the check and the commit can raise the sum: an open order's need only falls, and
no order is reopened. Facts about sums over finite sets (a sum is a number, is
monotone, splits off one element) would be inductions over the set; they are
proved by the smallest counterexample instead, with `WFMin` of the theorems on
well-founded relations, applied to a set of sizes rather than to a predicate. The
proofs use that the set of orders is finite (`OrderAssumption`) and that the
balance is a natural number (`BalanceAssumption`).

`RoleOwnershipProofs` proves type correctness, `OneOwnerAtWork`, `WorkerHoldsKey`
and `StoppingIsBounded` for any number of instances, lost keys and given-up
requests, and any constants that satisfy `OwnershipConstants`. The invariant
compares clocks: of any two instances that were given the role, one ends before
the other's quarantine is over (`OneOutwaits`); the owner of the key is the one
that outwaits the others (`OwnerOutwaits`); until the key is lost it outlives its
owner's watchdog (`KeyOutlives`); and requests fit the stage of their sender
(`OpsFit`, `StraysFit`). `OneOutwaits` alone is not inductive: a renewal moves its
sender's deadline back, which is harmless only because a renewal that succeeds
comes from the owner. Both use that deadlines count from when a request was sent.

`CommandFlowProofs` proves `TypeOK`, `RecordedBeforeSent`, `SentMeansDecided`,
`FallbackHasCancelOnRecord` and `ClaimedSubmitStaysBlocked` for any set of orders,
any size, any number of crashes, halts and failing writes. The invariant is
`Base`. The actors hold locals that they read some awaits ago, so it says of each
of them what its next steps rely on, and the proof shows two things: the actor's
own steps establish it, and the steps of all others leave it alone. Most of the
second part is one fact, proved once for every step (`RowsForward`): a row is
never removed, never returns to CREATED, or to SUBMITTING once it was decided, a
terminal row stays terminal and a pending cancel stays until the end. What an
actor knows of a row is therefore still true when it acts, or true of a later
state. Of the constants it uses `OrderAssumption`: finitely many orders are
considered, and an order has at most one fallback, which is no other order's,
because the code derives its id from the original's with the suffix `:pof`
(`services/execution_engine/order_manager.py` 840-880).

`CommandFlowSafetyProofs` starts from `Base` and proves what the flow does at the
exchange. Snapshots wander through the worker, the operator's request and the
lists of the sync loop and are saved late. The first part says for every step
where a snapshot that is around after it comes from (`Origin`): it was around
before, was read from the exchange, was built by the adapter or the order manager,
or is an edit or a merge of such a snapshot. The invariants that follow speak of
every snapshot around and are proved by its source, not by the action.

- `SentAtMostOnce`: `NoResend` as long as at most one database write has failed.
  `SendInv` says where an order is that was sent and whose row is not decided: in
  the worker's hands, on its way to FAILED because a write failed, with a command
  no worker takes up again, or behind a blocker of recovery; and that what the
  worker is about to send was not sent before. One failing write is absorbed by
  `mark_failed`; when the save of the answer and then `mark_failed` fail, the
  submit stays CLAIMED in a process that runs on and is sent again (section 7), so
  the bound is sharp.
- `FillsAreReal`: `LocalFillsAreReal`, with cancels, post-only orders and any
  faults. `SizeInv` bounds the size of every snapshot and every request;
  `FillsInv` says of every snapshot around what the property says of rows. It
  takes `Epsilon = 0`: quantities count in lots, and the tolerance
  `EPSILON_DECIMAL_12` is far below one lot.
- `NoOrphans`: `LiveOrderIsOpenLocally` as long as at most one write has failed. It
  is about the orders that nobody cancels (`Uncanceled`), in a system in which any
  number of other orders are cancelled, time out as post-only orders and bring
  forth fallbacks. `LiveInv` says, of those orders, that the operator at most
  resolves them (`NoCancels`), that a terminal snapshot, wherever it is, is
  about an order that has ended at the exchange or never was there
  (`EndsAreReal`), that nothing of an unsent order is at the exchange or on its way
  (`NothingAhead`), that what the worker is about to send was recorded since the
  last start and is undecided (`WorkerFresh`), that what the sync loop is about to
  save is decided here or at the exchange (`SyncDecided`), and that what an operator
  resolves by hand is from before the start or decided meanwhile (`ResolvingOld`).
  The last two keep anyone from closing an order that the worker is just sending.
  A cancelled order is left out because the property fails for it
  (`doc_cancel_orphan`); `WorkerKeepsOrder` is why its cancel reaches no other one.
- `UnknownWriteBlocksRisk`: `UnknownWriteHoldsNewRisk`, whichever writes fail and
  whichever orders are cancelled. The worker checks for the marker and then
  awaits twice before the request leaves. `MarkInv` says why no marker appears
  meanwhile: undecided snapshots are unmarked (`UndecidedUnmarked`), the sync loop
  holds an order once (`Apart`) and every marked snapshot it holds is of an order
  that is open and marked, or has ended (`SyncMarks`). Two things are left out
  because the code does not keep them back: the marker that a cancel may put on the
  order it cancels meanwhile, and the sending of a fallback, which is not checked.

- `RowsFollowLifecycle`: `RowsImplementLifecycle`, the refinement of
  `OrderLifecycle` by the composed flow, for any orders, faults, cancels and
  operator edits. `OrderStoreProofs` shows it of a row and arbitrary well-formed
  snapshots; here every save of every action is shown to be a creation or a merge
  (`RowStepOf`). A merge may cut a fill to the requested size, and that is no loss
  only because the order is then complete, which needs a positive size
  (`SizeInv`): the row of an order of size zero could lose a fill and stay open.

Only model-checked: the liveness properties (`UnknownSubmitIsIdentified`,
`SubmitIsCarriedOut`, `CancelIsCarriedOut`, `EveryEventIsSettled`,
`PublishedIsSent`, `LostOwnerStops`, `RoleIsFreed`), since the prover does not
reason about ENABLED.

## 7. Disagreements between the code and its documentation

Each of these has a run in which TLC shows the documented statement violated:

- `doc_cancel_orphan` — a cancel of an order without exchange id reads its submit
  command as PENDING while the worker claims it; `mark_abandoned` overwrites
  CLAIMED whatever the command has become, the worker, past its claim, places the
  order, and the cancel saves CANCELED without asking the exchange, where the order
  rests and is no longer followed; `docs/code_review/README.md:825`.
- `doc_obligation_leak` — a settlement's row, computed before another task released
  the obligation of an ended order, overwrites the release; the money stays
  reserved until the next start; `docs/code_review/README.md:808`.

Found with the models and reproduced with TLC on them, but without a run kept
here:

- A submission that read the record before a halt began finds another generation
  in its stale RUNNING record and applies it
  (`services/governance_engine/kill_switch.py:672`): the halt is undone in this
  process while its drain goes on and records HALTED in Redis, so that HALTED is
  on record while an order is being placed, against lines 10-12 of the module's
  docstring. The halt's own write of HALTING must have failed for it. Halts
  acknowledged to the operator are not affected (`AcknowledgedHaltHolds`).
- The fallback of a post-only order is sent while the cancel of the original is
  only queued (`cancel_order` enqueues when the command flow is on, and the worker
  that would execute the cancel is the one that sends the fallback): both execute,
  twice the size of the intent. `docs/code_review/README.md:798` forbids a fallback
  after an uncertain cancel and line 799 puts it after the confirmation. With the
  constants of `post_only` and no failing write, TLC refutes
  `\A o \in PostOnly : venue[o].filled + venue[FallbackOf[o]].filled <= Qty` in 17
  states. What holds is `FallbackHasCancelOnRecord`: the cancel is on record.
- An intake awaits the account snapshot (`obligations.py:141`) and sums the
  obligations afterwards. An order accepted earlier is placed, executes and is
  settled in between: the snapshot still has its money, the sum no longer has its
  obligation, and the new order is accepted on what was spent (of a balance of 3:
  1 spent, 1 still needed, 2 reserved). `docs/code_review/README.md:808` says that
  concurrent orders do not see the same balance,
  `docs/task/reservation_outbox_design.md:33` that a unit is not committed twice.
  With the constants of `obligations`, no fault and fills that cost 1 each, so that
  no order exceeds its reservation, TLC refutes `OpenNeeds <= Left` in 12 states.
  What holds is `AcceptedWithinBalanceRead`.
- A sync pass that fails overwrites the marker of an unknown submission, after
  which new risk on the symbol is let through;
  `docs/task/task116_unknown_write_semantic_uplift_sow.md:45`. What holds is
  `UnknownWriteHoldsNewRisk`: as long as the marker is there, nothing is sent.
- An order filled during its cancel becomes FAILED, which is terminal, instead of
  FILLED; `docs/knowledge_graph/04_state_machines.md:52`.
- An order in CANCEL_PENDING without an exchange id never learns it from the sync
  pass until it fills or ends: the snapshot SUBMITTED is a regression, and
  `_merge_without_regression` does not take over the id. `submit_liveness` has no
  cancels for this reason.

- A row becomes PUBLISHED when its event is only in the list of deferred
  publications (`bus/nats_bus.py:1696`; startup reconciliation writes and flushes
  orders before the gate opens). If the process ends before the activation has
  sent it (a peer is not ready in time, a publish of the activation fails, a
  crash), no later process sends it again. `docs/task/reservation_outbox_design.md:282`
  expects that a crash after the commit and before the publish "still emits via
  outbox relay". `LostOnlyBeforeActivation` says that this is the only way.

Seen in the code while modelling:

- A cancel of an order without exchange id also saves CANCELED without a query when
  its submit command is ACKED or FAILED (`_cancel_pending_submit_before_exchange_ack`,
  the branch beside the one `doc_cancel_orphan` takes).
- While the gate is aborted every publish raises, and each counts as an attempt:
  three flushes during a shutdown turn a row into a dead letter that nothing is
  wrong with.
- A submit whose result could not be saved, and whose `mark_failed` fails too,
  stays CLAIMED with a SUBMITTING row and is executed again by the running
  worker; the comment at `services/execution_control/command_service.py:55` calls
  CLAIMED commands not yet sent. (`NoResend` is checked without database faults
  and proved for at most one.)
- A submit left in SENT by a crash stays there: `process_pending` passes over it
  at every poll, against the comment at line 119 of the same file. It is harmless
  but for its place in the poll, since its order is decided (`SentMeansDecided`).
- `resolve_stuck_submission` fails the order and leaves its command CLAIMED, so
  the next startup counts it as a pending command and halts again.
- `resume_async` applies RUNNING after the await of its write without looking
  whether a halt has begun meanwhile. An acknowledged halt is safe, because the
  worker that acknowledges is the one that resumes; a guard's own halt is not.
- The docstring of the kill switch says that a restart cannot implicitly re-enable
  trading (lines 20-22); it can when the halt's writes to Redis failed.
- A retry of a halt by the gateway with the same reason is deduplicated before it
  reaches Redis.
- A fill that arrives after an obligation was finalized makes consumed plus
  released exceed reserved, against `docs/task/reservation_outbox_design.md:216`.

The command flow is off by default (`execution_command_flow_enabled`,
`settings.py`) and on in the derivatives deployment
(`deploy/wsl2-dev/docker-compose.aats.derivatives-live.yml`); it is what is
modelled here.

## 8. Not modelled, and simplifications

- All orders are of one symbol. The guards on market, account and risk data may
  refuse any order: a free choice, so every property holds whatever they decide.
- Prices, fees beyond their merging, timestamps and payloads are left out. The
  one use of time, staleness of SENT commands, is a free choice of `Poll`.
- The snapshots taken from the private WebSocket cache are snapshots of the
  exchange row like those read by REST. Fill rows, the order refresh they cause,
  and obligations are left out of `CommandFlow`.
- Serial splitting of exits, exit intents, strategy bundles, shadow writes and the
  backfill of fills of terminal orders are left out.
- The exchange's answers are well formed. A placement answered with status 200 and
  an empty or unreadable body is read as `{}` (`okx_rest.py:571`), `_first_row`
  raises a RuntimeError (`okx_adapter.py:1828`) that is not taken for an unknown
  write, and the order ends FAILED although it may rest at the exchange:
  `LiveOrderIsOpenLocally` and its theorem are about the answers modelled, accepted,
  declined, timed out or lost.
- A placement request does not outlive the restart of the process that sent it; a
  cancel request is executed before its time-out or not at all.
- In `CommandFlow` the kill switch is one flag, read when the request leaves;
  `KillSwitch` shows why that is right for acknowledged halts. Its synchronous
  `resume`, the monolith role and `stop` are left out.
- In `Obligations` no exchange answer is lost and `resolve_stuck_submission` is
  left out; the sync pass settles one order at a time; the exchange's available
  balance is the balance less what was executed and less what orders resting there
  may still cost; an intent that reserves nothing
  has no obligation. `reserve_for_intent` outside the intake is not called by the
  order manager.
- In `RoleOwnership` the clocks of Redis and of the processes run at one rate (the
  code uses `CLOCK_BOOTTIME` for it), Redis does not bring back an old key, and
  the wait for the peers, the bus check and the build are free choices of success
  or failure. The heartbeat file is left out; the delivery gate is in
  `ExecutionOutbox`.
- Of the event bus only publishing is modelled. The room for deferred events is
  counted in events; that other topics and the limit in bytes use it up too is why
  a publish may raise at any time. Topics that are stored and never sent
  (`DEFAULT_PERSIST_ONLY_CRITICAL_TOPICS`) are not events of this model.
- The outbox's housekeeping of old PUBLISHED rows is left out. Events of one order
  are ordered by the lock on the order's row, under which `created_at` is taken.
- Market data, features, strategies, AI decisions, portfolio accounting, the data
  platform, API and UI are numeric pipelines or presentation; their output is an
  input of this model. They and the operational scripts are most of the
  repository: what has a protocol worth model checking is the execution core, the
  kill switch, process ownership and the event bus, of which the bus's consumers
  are left.
