--------------------------- MODULE RoleOwnership ---------------------------
(***************************************************************************)
(* Who runs a role.  Each of the four processes of the system (gateway,    *)
(* market, decision, execution) may run once.  An instance claims its      *)
(* role's key in Redis (SET NX with an expiry), starts a watchdog in a     *)
(* process of its own, waits in quarantine, builds its runtime, turns the  *)
(* key from PROVISIONING to READY and works, renewing the key all along.   *)
(* The watchdog kills the instance at a deadline that only an answered     *)
(* renewal moves.  (bootstrap/process_lifecycle.py, readiness_watchdog.py) *)
(*                                                                         *)
(* Time passes in ticks; timers hold the ticks that are left.  A request   *)
(* to Redis leaves, runs and is answered in three steps, with time between *)
(* them; one that its sender has given up may still run.                   *)
(***************************************************************************)
EXTENDS Integers, FiniteSets

CONSTANTS
    Instance,      \* processes started for the role, each with a fresh instance_id
    None,          \* no instance
    TTL,           \* _RUNTIME_READY_TTL_SECONDS
    Margin,        \* _RUNTIME_READY_SHUTDOWN_MARGIN_SECONDS
    Grace,         \* _RUNTIME_READY_FORCE_EXIT_GRACE_SECONDS
    Guard,         \* _RUNTIME_READY_PROVISIONING_EXIT_GUARD_SECONDS
    Provisioning,  \* _RUNTIME_READY_MAX_PROVISIONING_SECONDS
    Quarantine,    \* _RUNTIME_READY_TAKEOVER_QUARANTINE_SECONDS
    Slack,         \* by how much a watchdog may be late
    MaxLosses,     \* how often Redis may lose the key
    MaxStray       \* how many given-up requests may be on their way at a time

\* The code's values, in seconds, are 60, 30, 10, 10, 180 and 55.
ASSUME OwnershipConstants ==
    /\ None \notin Instance
    /\ {TTL, Margin, Grace, Guard, Provisioning, Quarantine} \subseteq Nat \ {0}
    /\ {Slack, MaxLosses, MaxStray} \subseteq Nat
    /\ Grace < Provisioning
    /\ Margin < TTL
    /\ Guard + Grace <= Margin
    /\ Slack < Guard
    /\ TTL - Guard + Slack < Quarantine

VARIABLES
    key,      \* the role's key: owner, phase of its payload, ticks to its expiry
    stage,    \* how far an instance has come
    ending,   \* what its watchdog was told: "no", "shutdown" or "fatal"
    left,     \* ticks to the watchdog's deadline
    exp,      \* ticks to lease_expires_not_after
    prov,     \* ticks to the absolute deadline of provisioning
    quar,     \* ticks of quarantine left
    op,       \* the request it waits for: kind, ticks since it was sent, result
    stray,    \* requests given up by their sender that may still run
    losses

timers == <<left, exp, prov, quar>>
vars == <<key, stage, ending, timers, op, stray, losses>>

-----------------------------------------------------------------------------
(* Types *)

Phases == {"PROVISIONING", "READY"}
Stages == {"new", "claiming", "quarantine", "building", "built", "handover",
           "promoting", "ready", "released", "gone"}
Kinds == {"none", "claim", "refresh", "promote", "delete"}

\* A request, with the phase of the payload it compares with.
Requests == [by : Instance, kind : Kinds, phase : Phases]
Ops == [kind : Kinds, phase : Phases, age : 0 .. TTL, result : {"none", "yes", "no"}]

Sent(kind, phase) == [kind |-> kind, phase |-> phase, age |-> 0, result |-> "none"]
NoOp == Sent("none", "PROVISIONING")
Free == [owner |-> None, phase |-> "PROVISIONING", ttl |-> 0]

TypeOK ==
    /\ key \in [owner : Instance \cup {None}, phase : Phases, ttl : 0 .. TTL]
    /\ stage \in [Instance -> Stages]
    /\ ending \in [Instance -> {"no", "shutdown", "fatal"}]
    /\ left \in [Instance -> -Slack .. TTL - Guard]
    /\ exp \in [Instance -> 0 .. TTL]
    /\ prov \in [Instance -> 0 .. Provisioning]
    /\ quar \in [Instance -> 0 .. Quarantine]
    /\ op \in [Instance -> Ops]
    /\ stray \subseteq Requests
    /\ losses \in 0 .. MaxLosses

Init ==
    /\ key = Free
    /\ stage = [i \in Instance |-> "new"]
    /\ ending = [i \in Instance |-> "no"]
    /\ left = [i \in Instance |-> 0]
    /\ exp = [i \in Instance |-> 0]
    /\ prov = [i \in Instance |-> 0]
    /\ quar = [i \in Instance |-> 0]
    /\ op = [i \in Instance |-> NoOp]
    /\ stray = {}
    /\ losses = 0

-----------------------------------------------------------------------------
(* Helpers *)

Least(a, b) == IF a <= b THEN a ELSE b
Down(n) == IF n > 0 THEN n - 1 ELSE 0

\* The watchdog runs from the answer to the claim to DISARM.
Watched == {"quarantine", "building", "built", "handover", "promoting", "ready"}

\* NATS I/O and business begin after the quarantine and end before DISARM.
AtWork(i) == stage[i] \in Watched \ {"quarantine"}

\* The phase in the payload of the instance's lease object.
LeasePhase(i) == IF stage[i] = "ready" THEN "READY" ELSE "PROVISIONING"

\* Mutant: the deadline counts from the answer and not from the request.
HardDeadlineFromAnswer(phase, age) ==
    IF phase = "PROVISIONING" THEN TTL - Guard ELSE TTL - Margin + Grace

\* _runtime_ready_hard_deadline, for a request sent `age` ticks ago.
HardDeadline(phase, age) ==
    IF phase = "PROVISIONING" THEN TTL - age - Guard
    ELSE TTL - age - Margin + Grace

\* When the maintainer gives the lease up: the safety deadline has passed.
Exhausted(i) ==
    \/ exp[i] <= Margin
    \/ stage[i] # "ready" /\ prov[i] <= Grace

\* The request in flight outlives its sender unless it has run already or is lost.
Abandoned(i) ==
    IF op[i].kind # "none" /\ op[i].result = "none" /\ Cardinality(stray) < MaxStray
    THEN {[by |-> i, kind |-> op[i].kind, phase |-> op[i].phase]} ELSE {}

\* The process ends, by itself or killed, and its memory with it.
Ends(i) ==
    /\ stage' = [stage EXCEPT ![i] = "gone"]
    /\ ending' = [ending EXCEPT ![i] = "no"]
    /\ left' = [left EXCEPT ![i] = 0]
    /\ exp' = [exp EXCEPT ![i] = 0]
    /\ prov' = [prov EXCEPT ![i] = 0]
    /\ quar' = [quar EXCEPT ![i] = 0]
    /\ stray' = stray \cup Abandoned(i)
    /\ op' = [op EXCEPT ![i] = NoOp]
    /\ UNCHANGED <<key, losses>>

\* Mutant: the grace counts from the old deadline and not from now.
TightensLate(i, how) ==
    /\ stage[i] \in Watched
    /\ ending[i] = "no"
    /\ left[i] > 0
    /\ ending' = [ending EXCEPT ![i] = how]
    /\ left' = [left EXCEPT ![i] = @ + Grace]
    /\ exp' = [exp EXCEPT ![i] = 0]
    /\ prov' = [prov EXCEPT ![i] = 0]
    /\ stray' = stray \cup Abandoned(i)
    /\ op' = [op EXCEPT ![i] = NoOp]
    /\ UNCHANGED <<key, stage, quar, losses>>

\* Mutant: stopping does not stop the maintainer of the lease.
TightensOnly(i, how) ==
    /\ stage[i] \in Watched
    /\ ending[i] = "no"
    /\ left[i] > 0
    /\ ending' = [ending EXCEPT ![i] = how]
    /\ left' = [left EXCEPT ![i] = Least(@, Grace)]
    /\ UNCHANGED <<key, stage, exp, prov, quar, op, stray, losses>>

\* begin_shutdown and mark_fatal_and_tighten: the watchdog's deadline comes
\* nearer and renewals end, and with them the maintainer's deadlines.  A request
\* in flight no longer matters to the instance.  A watchdog past its deadline kills at the next command instead.
Tightens(i, how) ==
    /\ stage[i] \in Watched
    /\ ending[i] = "no"
    /\ left[i] > 0
    /\ ending' = [ending EXCEPT ![i] = how]
    /\ left' = [left EXCEPT ![i] = Least(@, Grace)]
    /\ exp' = [exp EXCEPT ![i] = 0]
    /\ prov' = [prov EXCEPT ![i] = 0]
    /\ stray' = stray \cup Abandoned(i)
    /\ op' = [op EXCEPT ![i] = NoOp]
    /\ UNCHANGED <<key, stage, quar, losses>>

-----------------------------------------------------------------------------
(* Redis *)

\* The key a request finds is the one its payload names.
Matches(r) == key.owner = r.by /\ key.phase = r.phase

\* Whether a request takes effect.
Succeeds(r) == IF r.kind = "claim" THEN key.owner = None ELSE Matches(r)

\* The key after it has taken effect.
KeyAfter(r) ==
    CASE r.kind = "claim"   -> [owner |-> r.by, phase |-> "PROVISIONING", ttl |-> TTL]
      [] r.kind = "refresh" -> [key EXCEPT !.ttl = TTL]
      [] r.kind = "promote" -> [key EXCEPT !.phase = "READY", !.ttl = TTL]
      [] r.kind = "delete"  -> Free
      [] OTHER -> key

\* Redis runs the request an instance waits for.
RedisRuns(i) ==
    /\ op[i].kind # "none" /\ op[i].result = "none"
    /\ LET r == [by |-> i, kind |-> op[i].kind, phase |-> op[i].phase]
       IN  /\ key' = IF Succeeds(r) THEN KeyAfter(r) ELSE key
           /\ op' = [op EXCEPT ![i].result = IF Succeeds(r) THEN "yes" ELSE "no"]
    /\ UNCHANGED <<stage, ending, timers, stray, losses>>

\* Redis runs a request its sender has given up.
StrayRuns(r) ==
    /\ r \in stray
    /\ key' = IF Succeeds(r) THEN KeyAfter(r) ELSE key
    /\ stray' = stray \ {r}
    /\ UNCHANGED <<stage, ending, timers, op, losses>>

\* Redis restarts without the key, or the key is deleted by hand or evicted.
RedisLoses ==
    /\ losses < MaxLosses
    /\ key.owner # None
    /\ key' = Free
    /\ losses' = losses + 1
    /\ UNCHANGED <<stage, ending, timers, op, stray>>

-----------------------------------------------------------------------------
(* An instance *)

Claim(i) ==
    /\ stage[i] = "new"
    /\ stage' = [stage EXCEPT ![i] = "claiming"]
    /\ op' = [op EXCEPT ![i] = Sent("claim", "PROVISIONING")]
    /\ UNCHANGED <<key, ending, timers, stray, losses>>

\* The role is the instance's: its watchdog starts, its quarantine begins.
ClaimGranted(i) ==
    /\ stage[i] = "claiming" /\ op[i].result = "yes"
    /\ HardDeadline("PROVISIONING", op[i].age) > 0
    /\ stage' = [stage EXCEPT ![i] = "quarantine"]
    /\ left' = [left EXCEPT ![i] =
                   Least(HardDeadline("PROVISIONING", op[i].age), Provisioning)]
    /\ exp' = [exp EXCEPT ![i] = TTL - op[i].age]
    /\ prov' = [prov EXCEPT ![i] = Provisioning]
    /\ quar' = [quar EXCEPT ![i] = Quarantine]
    /\ op' = [op EXCEPT ![i] = NoOp]
    /\ UNCHANGED <<key, ending, stray, losses>>

\* Another instance holds the role, or the answer came after the deadline and
\* the watchdog kills as soon as it has started.
ClaimRefused(i) ==
    /\ stage[i] = "claiming"
    /\ \/ op[i].result = "no"
       \/ op[i].result = "yes" /\ HardDeadline("PROVISIONING", op[i].age) <= 0
    /\ Ends(i)

\* The watchdog does not start: the claim is withdrawn before any I/O.
WatchdogStartFails(i) ==
    /\ stage[i] = "claiming" /\ op[i].result = "yes"
    /\ stage' = [stage EXCEPT ![i] = "released"]
    /\ op' = [op EXCEPT ![i] = Sent("delete", "PROVISIONING")]
    /\ UNCHANGED <<key, ending, timers, stray, losses>>

\* The maintainer of the lease renews it.
Refresh(i) ==
    /\ stage[i] \in {"quarantine", "building", "built", "ready"}
    /\ ending[i] = "no"
    /\ op[i].kind = "none"
    /\ ~Exhausted(i)
    /\ op' = [op EXCEPT ![i] = Sent("refresh", LeasePhase(i))]
    /\ UNCHANGED <<key, stage, ending, timers, stray, losses>>

\* REARM: a watchdog past its old or its new deadline kills.
Rearms(i, deadline) ==
    /\ left[i] > 0 /\ deadline > 0
    /\ left' = [left EXCEPT ![i] = deadline]
    /\ exp' = [exp EXCEPT ![i] = TTL - op[i].age]
    /\ op' = [op EXCEPT ![i] = NoOp]

RefreshDeadline(i) ==
    IF stage[i] = "ready" THEN HardDeadline("READY", op[i].age)
    ELSE Least(HardDeadline("PROVISIONING", op[i].age), prov[i])

\* A renewal is confirmed.  While the maintainer is being stopped for the
\* promotion the answer is dropped.
Refreshed(i) ==
    /\ op[i].kind = "refresh" /\ op[i].result = "yes"
    /\ IF stage[i] = "handover"
       THEN op' = [op EXCEPT ![i] = NoOp] /\ UNCHANGED <<left, exp>>
       ELSE Rearms(i, RefreshDeadline(i))
    /\ UNCHANGED <<key, stage, ending, prov, quar, stray, losses>>

\* Mutant: a renewal that raises is taken for a success.
RefreshFailsRearmed(i) ==
    /\ stage[i] # "handover"
    /\ op[i].kind = "refresh"
    /\ stray' = stray \cup Abandoned(i)
    /\ left[i] > 0 /\ RefreshDeadline(i) > 0
    /\ left' = [left EXCEPT ![i] = RefreshDeadline(i)]
    /\ exp' = [exp EXCEPT ![i] = TTL - op[i].age]
    /\ op' = [op EXCEPT ![i] = NoOp]
    /\ UNCHANGED <<key, stage, ending, prov, quar, losses>>

\* The renewal raises; the maintainer will try again.
RefreshFails(i) ==
    /\ stage[i] # "handover"
    /\ op[i].kind = "refresh"
    /\ stray' = stray \cup Abandoned(i)
    /\ op' = [op EXCEPT ![i] = NoOp]
    /\ UNCHANGED <<key, stage, ending, timers, losses>>

\* A renewal or the promotion finds that the key is not its own: force_exit_now.
OwnershipLost(i) ==
    /\ op[i].kind \in {"refresh", "promote"} /\ op[i].result = "no"
    /\ Ends(i)

\* The maintainer gives up: safety window or provisioning time used up.
LeaseExhausted(i) ==
    /\ stage[i] \in {"quarantine", "building", "built", "ready"}
    /\ Exhausted(i)
    /\ Tightens(i, "fatal")

QuarantineEnds(i) ==
    /\ stage[i] = "quarantine"
    /\ ending[i] = "no"
    /\ quar[i] = 0
    /\ stage' = [stage EXCEPT ![i] = "building"]
    /\ UNCHANGED <<key, ending, timers, op, stray, losses>>

\* build_runtime returns.
Built(i) ==
    /\ stage[i] = "building" /\ ending[i] = "no"
    /\ stage' = [stage EXCEPT ![i] = "built"]
    /\ UNCHANGED <<key, ending, timers, op, stray, losses>>

\* The bus is verified; the maintainer is asked to stop before the promotion.
BeginPromotion(i) ==
    /\ stage[i] = "built" /\ ending[i] = "no"
    /\ stage' = [stage EXCEPT ![i] = "handover"]
    /\ UNCHANGED <<key, ending, timers, op, stray, losses>>

\* The maintainer has stopped.
Promote(i) ==
    /\ stage[i] = "handover" /\ ending[i] = "no"
    /\ op[i].kind = "none"
    /\ stage' = [stage EXCEPT ![i] = "promoting"]
    /\ op' = [op EXCEPT ![i] = Sent("promote", "PROVISIONING")]
    /\ UNCHANGED <<key, ending, timers, stray, losses>>

\* The lease is READY; its new maintainer has no absolute deadline.
Promoted(i) ==
    /\ stage[i] = "promoting"
    /\ op[i].kind = "promote" /\ op[i].result = "yes"
    /\ stage' = [stage EXCEPT ![i] = "ready"]
    /\ Rearms(i, HardDeadline("READY", op[i].age))
    /\ prov' = [prov EXCEPT ![i] = 0]
    /\ UNCHANGED <<key, ending, quar, stray, losses>>

\* An exception in the build, the bus check, the hand-over, the promotion, the
\* wait for the peers, or a critical task.
Fails(i) ==
    /\ AtWork(i)
    /\ Tightens(i, "fatal")

\* SIGTERM, or the cancellation of run_process.
BeginShutdown(i) == Tightens(i, "shutdown")

\* Mutant: the key is deleted first, the business is stopped after it.
ReleaseFirst(i) ==
    /\ stage[i] \in {"built", "handover", "promoting", "ready"}
    /\ ending[i] = "shutdown"
    /\ left[i] > 0
    /\ op[i].kind = "none"
    /\ op' = [op EXCEPT ![i] = Sent("delete", LeasePhase(i))]
    /\ UNCHANGED <<key, stage, ending, timers, stray, losses>>

\* Business and bus have stopped: DISARM, then the owner's delete.
Release(i) ==
    /\ stage[i] \in {"built", "handover", "promoting", "ready"}
    /\ ending[i] = "shutdown"
    /\ left[i] > 0
    /\ stage' = [stage EXCEPT ![i] = "released"]
    /\ op' = [op EXCEPT ![i] = Sent("delete", LeasePhase(i))]
    /\ UNCHANGED <<key, ending, timers, stray, losses>>

\* The process ends: a crash, a clean-up that ends without a release, the loss
\* of the watchdog's channel, an exception of the claim, or the end of it all.
Crash(i) ==
    /\ stage[i] \notin {"new", "gone"}
    /\ Ends(i)

\* The watchdog kills.
WatchdogKills(i) ==
    /\ stage[i] \in Watched
    /\ left[i] <= 0
    /\ Ends(i)

-----------------------------------------------------------------------------
(* Time *)

\* Mutant: the claim is written without an expiry.
TickForever ==
    /\ \A i \in Instance : stage[i] \in Watched => left[i] > -Slack
    /\ key' = IF key.ttl > 1 THEN [key EXCEPT !.ttl = @ - 1]
              ELSE IF key.phase = "PROVISIONING" THEN key ELSE Free
    /\ left' = [i \in Instance |-> IF stage[i] \in Watched THEN left[i] - 1 ELSE left[i]]
    /\ exp' = [i \in Instance |-> Down(exp[i])]
    /\ prov' = [i \in Instance |-> Down(prov[i])]
    /\ quar' = [i \in Instance |-> Down(quar[i])]
    /\ op' = [i \in Instance |->
                 IF op[i].kind = "none" THEN op[i]
                 ELSE [op[i] EXCEPT !.age = Least(@ + 1, TTL)]]
    /\ UNCHANGED <<stage, ending, stray, losses>>

\* A watchdog is late by no more than Slack.
Tick ==
    /\ \A i \in Instance : stage[i] \in Watched => left[i] > -Slack
    /\ key' = IF key.ttl > 1 THEN [key EXCEPT !.ttl = @ - 1] ELSE Free
    /\ left' = [i \in Instance |-> IF stage[i] \in Watched THEN left[i] - 1 ELSE left[i]]
    /\ exp' = [i \in Instance |-> Down(exp[i])]
    /\ prov' = [i \in Instance |-> Down(prov[i])]
    /\ quar' = [i \in Instance |-> Down(quar[i])]
    /\ op' = [i \in Instance |->
                 IF op[i].kind = "none" THEN op[i]
                 ELSE [op[i] EXCEPT !.age = Least(@ + 1, TTL)]]
    /\ UNCHANGED <<stage, ending, stray, losses>>

Step(i) ==
    \/ RedisRuns(i) \/ Claim(i) \/ ClaimGranted(i) \/ ClaimRefused(i)
    \/ WatchdogStartFails(i) \/ Refresh(i) \/ Refreshed(i) \/ RefreshFails(i)
    \/ OwnershipLost(i) \/ LeaseExhausted(i) \/ QuarantineEnds(i) \/ Built(i)
    \/ BeginPromotion(i) \/ Promote(i) \/ Promoted(i) \/ Fails(i)
    \/ BeginShutdown(i) \/ Release(i) \/ Crash(i) \/ WatchdogKills(i)

Next ==
    \/ \E i \in Instance : Step(i)
    \/ \E r \in stray : StrayRuns(r)
    \/ RedisLoses
    \/ Tick

Spec == Init /\ [][Next]_vars

\* Time passes, and the watchdog is a process of its own that kills in time.
Fairness == WF_vars(Tick) /\ \A i \in Instance : WF_vars(WatchdogKills(i))
FairSpec == Spec /\ Fairness

-----------------------------------------------------------------------------
(* Properties *)

\* Two instances are never at work for the role at the same time, even when
\* Redis has lost the key under its owner.
OneOwnerAtWork ==
    \A i, j \in Instance : AtWork(i) /\ AtWork(j) => i = j

\* Unless Redis has lost the key, the instance at work is its owner: the
\* watchdog's deadline, computed from when a renewal was sent, comes before
\* the expiry, which counts from when Redis ran it.
WorkerHoldsKey ==
    losses = 0 => \A i \in Instance : AtWork(i) => key.owner = i

\* An instance that has begun to stop or has failed gets no more time: no
\* answer that is still under way moves its deadline back.
StoppingIsBounded ==
    [][\A i \in Instance :
         stage[i] \in Watched /\ ending[i] # "no" /\ stage'[i] \in Watched
         => ending'[i] = ending[i] /\ left'[i] <= left[i]]_vars

\* An instance whose key is another's, or lost, stops working.
LostOwnerStops ==
    \A i \in Instance : AtWork(i) /\ key.owner # i ~> ~AtWork(i)

\* An instance that ended without a release does not keep the role for ever.
RoleIsFreed ==
    \A i \in Instance : stage[i] = "gone" /\ key.owner = i ~> key.owner # i

=============================================================================
