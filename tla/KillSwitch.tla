------------------------------ MODULE KillSwitch ------------------------------
(***************************************************************************)
(* The kill switch of the execution process ("exec"), which places orders  *)
(* and enforces a halt, and of the gateway ("gate"), which takes the       *)
(* operator's requests and alone mints the short trading permission.       *)
(*                                                                         *)
(* Each process keeps its own phase and generation; Redis keeps the record *)
(* that outlives both and the permission leases; NATS carries state        *)
(* notices, which may be lost, repeated and reordered, and the operator's  *)
(* commands.  The steps of a coroutine are split at the awaits where what  *)
(* it has read may be stale when it goes on.  One SET and the broadcast    *)
(* that follows it are one step: a notice is delivered at any later time.  *)
(***************************************************************************)
EXTENDS Integers

CONSTANTS
    Sub,          \* submissions of risk-increasing orders, each repeated for ever
    NoSub,        \* the fence is free
    NoRecord,     \* what a read of a missing Redis key returns
    Failed,       \* what a read of Redis that raises returns
    MaxHalts,     \* bound: halts asked for, by the operator or by a guard
    MaxResumes,   \* bound: resumes asked for
    MaxFaults,    \* bound: Redis calls that fail, and expiries of the record
    MaxRestarts,  \* bound: restarts of either process
    MaxEvents     \* bound: all of these together

ASSUME NullAssumption == NoSub \notin Sub

Proc == {"exec", "gate"}
Task == {"worker", "guard", "remote"}   \* the execution process's coroutines
NoGen == 0                              \* no generation was given; also the
                                        \* local id of a process just started

VARIABLES
    redis,     \* the authority record
    leases,    \* generations whose permission key is alive in Redis
    clock,     \* the last timestamp, and the last generation id, handed out
    net,       \* notices published on the kill switch topic
    cmds,      \* operator commands on their way to the execution process
    taken,     \* the command it took last, which NATS may not know it has had
    ks,        \* [Proc -> the KillSwitch object's fields]
    fence,     \* the submission that holds _submission_fence
    sub,       \* [Sub -> where a submission is]
    job,       \* [Task -> where a halt or a resume is, at the execution process]
    op,        \* the gateway's operator handlers and its notice handler
    renew,     \* the gateway's renewal of the lease; not idle = it holds the io lock
    permGen,   \* the gateway's _trading_permission_generation
    used,      \* how much of each bound is spent
    ack,       \* history: the last halt the execution process acknowledged
    revoked    \* history: the generation whose lease a gateway halt deleted

redisVars == <<redis, leases>>
execVars  == <<fence, sub, job>>
gateVars  == <<op, renew, permGen>>
wireVars  == <<net, cmds, taken>>
histVars  == <<ack, revoked>>
vars == <<redis, leases, clock, net, cmds, taken, ks, fence, sub, job, op, renew,
          permGen, used, ack, revoked>>

Record(state, gen, ts) == [state |-> state, gen |-> gen, ts |-> ts]
Running(r) == r \notin {NoRecord, Failed} /\ r.state = "RUNNING"
Halted(r)  == r \notin {NoRecord, Failed} /\ r.state # "RUNNING"
Later(a, b) == IF a > b THEN a ELSE b

(***************************************************************************)
(* The object's own transitions, on the record k of its fields: the phase  *)
(* ("halted" is phase # "RUNNING"), the generation, _set_at_ts,            *)
(* _last_running_generation, _last_applied_ts and what was last published. *)
(***************************************************************************)
BeginHalt(k, gen, ts) ==
    IF k.phase \in {"HALTING", "HALTED"} /\ gen \in {NoGen, k.gen}
    THEN k
    ELSE [k EXCEPT !.phase = "HALTING", !.setAt = ts,
                   !.gen = IF gen = NoGen THEN ts ELSE gen,
                   !.applied = Later(@, ts)]

(* Mutant: the enforced halt is given a name the readers do not know. *)
MarkEnforced(k, gen) == IF gen = k.gen THEN [k EXCEPT !.phase = "ENFORCED"] ELSE k

MarkHaltEnforced(k, gen) == IF gen = k.gen THEN [k EXCEPT !.phase = "HALTED"] ELSE k

ApplyRunning(k, gen, ts) ==
    [k EXCEPT !.phase = "RUNNING", !.gen = gen, !.lastRun = gen, !.setAt = ts,
              !.applied = Later(@, ts)]

LatchDegraded(k) == [k EXCEPT !.phase = "DEGRADED"]

(* What a halted record read from Redis does to the process that read it. *)
AdoptHalt(k, r) ==
    [k EXCEPT !.phase = r.state, !.gen = r.gen, !.setAt = r.ts,
              !.applied = Later(@, r.ts)]

Published(k, state, gen, written) ==
    [k EXCEPT !.pub = [state |-> state, gen |-> gen, written |-> written]]

NewKillSwitch ==
    [phase |-> "RUNNING", gen |-> NoGen, setAt |-> 0, lastRun |-> NoGen, applied |-> 0,
     pub |-> [state |-> "NONE", gen |-> NoGen, written |-> FALSE]]

Bootstrap(p, r) ==
    CASE Halted(r)  -> [AdoptHalt(NewKillSwitch, r) EXCEPT
                            !.phase = IF p = "exec" THEN "HALTED" ELSE "HALTING"]
      [] Running(r) -> ApplyRunning(NewKillSwitch, r.gen, r.ts)
      [] OTHER      -> LatchDegraded(NewKillSwitch)

-----------------------------------------------------------------------------
Idle    == [pc |-> "idle", gen |-> NoGen, ts |-> 0, written |-> FALSE, cmd |-> "none"]
Resting == [pc |-> "idle", exp |-> NoGen, seen |-> NoRecord]
IdleOp  == [pc |-> "idle", gen |-> NoGen, ts |-> 0]
Unlocked == [pc |-> "idle", gen |-> NoGen, seen |-> NoRecord]

Clear == [t \in Task |-> Idle]
Still == [s \in Sub |-> Resting]
Quiet == [h \in {"halt", "resume", "remote"} |-> IdleOp]

(* The account's first start, with no record, or a start after a resume.   *)
Init ==
    /\ redis \in {NoRecord, Record("RUNNING", 1, 1)}
    /\ leases = {}
    /\ clock = 1
    /\ net = {} /\ cmds = {} /\ taken = {}
    /\ ks = [p \in Proc |-> Bootstrap(p, redis)]
    /\ fence = NoSub /\ sub = Still /\ job = Clear
    /\ op = Quiet /\ renew = Unlocked /\ permGen = NoGen
    /\ used = [halts |-> 0, resumes |-> 0, faults |-> 0, restarts |-> 0]
    /\ ack = "none" /\ revoked = NoGen

Total(u) == u.halts + u.resumes + u.faults + u.restarts

Spend(what, n, max) ==
    /\ used[what] + n <= max
    /\ used' = [used EXCEPT ![what] = @ + n]
    /\ Total(used') <= MaxEvents

(* A read of Redis: the record, or an exception. *)
Read(r) ==
    \/ r = redis /\ UNCHANGED used
    \/ r = Failed /\ Spend("faults", 1, MaxFaults)

(* Writes of Redis, of which n fail. *)
Writes(n) == IF n = 0 THEN UNCHANGED used ELSE Spend("faults", n, MaxFaults)
Miss(ok) == IF ok THEN 0 ELSE 1

-----------------------------------------------------------------------------
(* Submissions.  submit notes the generation, waits for its gates (which   *)
(* can only refuse more), and runs place_order inside                      *)
(* risk_increasing_submission_guard, which holds the fence from its first  *)
(* check until place_order has returned.                                   *)
InGuard(s) == sub[s].pc \in {"authority", "check", "lease", "permit", "placing"}
PastAuthority(s) == sub[s].pc \in {"lease", "permit", "placing"}

NotSubmitting == UNCHANGED <<redisVars, clock, wireVars, job, gateVars, histVars>>

Admit(s) ==
    /\ sub[s].pc = "idle"
    /\ sub' = [sub EXCEPT ![s] = [Resting EXCEPT !.pc = "admitted", !.exp = ks["exec"].gen]]
    /\ UNCHANGED <<ks, fence, used>> /\ NotSubmitting

Blocked(s) == sub' = [sub EXCEPT ![s] = Resting] /\ fence' = NoSub

EnterGuard(s) ==
    /\ sub[s].pc = "admitted" /\ fence = NoSub
    /\ IF ks["exec"].phase = "RUNNING" /\ sub[s].exp = ks["exec"].gen
       THEN sub' = [sub EXCEPT ![s].pc = "authority"] /\ fence' = s
       ELSE Blocked(s)
    /\ UNCHANGED <<ks, used>> /\ NotSubmitting

ReadAuthority(s) ==
    /\ sub[s].pc = "authority"
    /\ \E r \in {redis, Failed} :
        /\ Read(r)
        /\ sub' = [sub EXCEPT ![s].pc = "check", ![s].seen = r]
    /\ UNCHANGED <<ks, fence>> /\ NotSubmitting

Refreshed(k, r) ==
    CASE Halted(r) -> AdoptHalt(k, r)
      [] Running(r) -> IF r.gen # k.gen THEN ApplyRunning(k, r.gen, r.ts) ELSE k
      [] OTHER -> LatchDegraded(k)

CheckAuthority(s) ==
    /\ sub[s].pc = "check"
    /\ LET k == Refreshed(ks["exec"], sub[s].seen) IN
        /\ ks' = [ks EXCEPT !["exec"] = k]
        /\ IF k.phase = "RUNNING" /\ k.gen = sub[s].exp
           THEN sub' = [sub EXCEPT ![s].pc = "lease", ![s].seen = NoRecord]
                /\ UNCHANGED fence
           ELSE Blocked(s)
    /\ UNCHANGED used /\ NotSubmitting

ReadLease(s) ==
    /\ sub[s].pc = "lease"
    /\ \/ /\ sub[s].exp \in leases
          /\ sub' = [sub EXCEPT ![s].pc = "placing"] /\ UNCHANGED used
       \/ /\ sub[s].exp \notin leases
          /\ sub' = [sub EXCEPT ![s].pc = "permit"] /\ UNCHANGED used
       \/ /\ Spend("faults", 1, MaxFaults)
          /\ sub' = [sub EXCEPT ![s].pc = "permit"]
    /\ UNCHANGED <<ks, fence>> /\ NotSubmitting

(* The permission was missing or could not be read. *)
NoPermission(s) ==
    /\ sub[s].pc = "permit"
    /\ ks' = [ks EXCEPT !["exec"] = LatchDegraded(@)]
    /\ Blocked(s)
    /\ UNCHANGED used /\ NotSubmitting

Placed(s) ==
    /\ sub[s].pc = "placing"
    /\ sub' = [sub EXCEPT ![s] = Resting] /\ fence' = NoSub
    /\ UNCHANGED <<ks, used>> /\ NotSubmitting

-----------------------------------------------------------------------------
(* Halts at the execution process: begun at once, then announced, drained  *)
(* through the fence and confirmed.  A guard's halt() and the operator's   *)
(* command run the whole path; a notice from the gateway starts at the     *)
(* drain.                                                                  *)
Exec == ks["exec"]

BeginExecHalt(t, first, gen, ts, cmd) ==
    LET k == BeginHalt(Exec, gen, ts) IN
    /\ job[t].pc = "idle"
    /\ ks' = [ks EXCEPT !["exec"] = k]
    /\ job' = [job EXCEPT ![t] = [pc |-> first, gen |-> k.gen, ts |-> k.setAt,
                                  written |-> FALSE, cmd |-> cmd]]
    /\ clock' = Later(clock, k.setAt)

(* A guard (recovery, the trial guard, an abort hook) calls halt(). *)
GuardHalt ==
    /\ Spend("halts", 1, MaxHalts)
    /\ BeginExecHalt("guard", "announce", NoGen, clock + 1, "none")
    /\ UNCHANGED <<redisVars, wireVars, fence, sub, gateVars, histVars>>

Take(c) == cmds' = cmds \ {c} /\ taken' = {c}

TakeHalt(c) ==
    /\ c \in cmds /\ c.kind = "halt"
    /\ BeginExecHalt("worker", "announce", c.gen, c.ts, "halt")
    /\ Take(c)
    /\ UNCHANGED <<redisVars, net, fence, sub, gateVars, used, histVars>>

ReceiveHalt(m) ==
    /\ m \in net /\ m.from = "gate" /\ m.ts > Exec.applied
    /\ BeginExecHalt("remote", "drain", m.gen, m.ts, "none")
    /\ UNCHANGED <<redisVars, wireVars, fence, sub, gateVars, used, histVars>>

(* _publish: revoke the last running generation's lease, then SET and      *)
(* broadcast, unless the very same transition was the last one published   *)
(* (the same reason is a choice of the environment).                       *)
Notice(p, state, gen, ts) ==
    [from |-> p, state |-> state, gen |-> gen, ts |-> ts]

Publish(p, state, gen, ts, revocable, deleted, ok, same) ==
    /\ same => ks[p].pub.state = state /\ ks[p].pub.gen = gen
    /\ Writes(Miss(deleted) + (IF same THEN 0 ELSE Miss(ok)))
    /\ leases' = IF deleted THEN leases \ revocable ELSE leases
    /\ redis' = IF ok /\ ~same THEN Record(state, gen, ts) ELSE redis
    /\ net' = IF same THEN net ELSE net \cup {Notice(p, state, gen, ts)}

Outcome(p, ok, same) == IF same THEN ks[p].pub.written ELSE ok

Announce(t) ==
    /\ job[t].pc = "announce"
    /\ \E deleted, ok, same \in BOOLEAN :
        /\ Publish("exec", "HALTING", job[t].gen, job[t].ts, {Exec.lastRun},
                   deleted, ok, same)
        /\ job' = [job EXCEPT ![t].pc = "drain", ![t].written = Outcome("exec", ok, same)]
        /\ ks' = [ks EXCEPT !["exec"] =
                    Published(@, "HALTING", job[t].gen, Outcome("exec", ok, same))]
    /\ UNCHANGED <<clock, cmds, taken, fence, sub, gateVars, histVars>>

(* Mutant: HALTED is marked without waiting for the fence. *)
DrainUnfenced(t) ==
    /\ job[t].pc = "drain"
    /\ clock' = clock + 1
    /\ ks' = [ks EXCEPT !["exec"] = [MarkHaltEnforced(@, job[t].gen) EXCEPT !.setAt = clock + 1]]
    /\ job' = [job EXCEPT ![t].pc = "confirm", ![t].ts = clock + 1]
    /\ UNCHANGED <<redisVars, wireVars, fence, sub, gateVars, used, histVars>>

Drain(t) ==
    /\ job[t].pc = "drain" /\ fence = NoSub
    /\ clock' = clock + 1
    /\ ks' = [ks EXCEPT !["exec"] = [MarkHaltEnforced(@, job[t].gen) EXCEPT !.setAt = clock + 1]]
    /\ job' = [job EXCEPT ![t].pc = "confirm", ![t].ts = clock + 1]
    /\ UNCHANGED <<redisVars, wireVars, fence, sub, gateVars, used, histVars>>

(* The notice handler also records what it has applied. *)
Finished(t, k) == IF t = "remote" THEN [k EXCEPT !.applied = Later(@, job[t].ts)] ELSE k

(* The reply to the operator's halt is an acknowledgement when the state   *)
(* it reports is HALTED in the requested generation.                       *)
Acknowledged(t, written) ==
    IF job[t].cmd = "halt" /\ Exec.phase = "HALTED" /\ Exec.gen = job[t].gen
    THEN IF written THEN "recorded" ELSE "local"
    ELSE ack

Confirm(t) ==
    /\ job[t].pc = "confirm"
    /\ \E deleted, ok, same \in BOOLEAN :
        /\ Publish("exec", "HALTED", job[t].gen, job[t].ts, {Exec.lastRun},
                   deleted, ok, same)
        /\ ks' = [ks EXCEPT !["exec"] =
                    Finished(t, Published(@, "HALTED", job[t].gen, Outcome("exec", ok, same)))]
        /\ ack' = Acknowledged(t, job[t].written \/ Outcome("exec", ok, same))
    /\ job' = [job EXCEPT ![t] = Idle]
    /\ UNCHANGED <<clock, cmds, taken, fence, sub, gateVars, revoked>>

-----------------------------------------------------------------------------
(* The operator's resume, at the execution process.  The checks that       *)
(* precede it may refuse it, and then halt.  The answer reaches the        *)
(* gateway, or finds nobody waiting for it any more.                       *)
Answer(gen) ==
    \/ UNCHANGED op
    \/ /\ op["resume"].pc = "idle"
       /\ op' = [op EXCEPT !["resume"] = [IdleOp EXCEPT !.pc = "activate", !.gen = gen]]

TakeResume(c) ==
    /\ c \in cmds /\ c.kind = "resume" /\ job["worker"].pc = "idle"
    /\ Take(c)
    /\ ack' = "none"
    /\ IF Exec.phase = "RUNNING"
       THEN Answer(Exec.gen) /\ UNCHANGED <<ks, job, clock>>
       ELSE /\ clock' = clock + 1
            /\ ks' = [ks EXCEPT !["exec"] = [@ EXCEPT !.phase = "RESUMING",
                                                      !.gen = clock + 1, !.setAt = clock + 1]]
            /\ job' = [job EXCEPT !["worker"] = [Idle EXCEPT
                            !.pc = "write", !.gen = clock + 1, !.ts = clock + 1]]
            /\ UNCHANGED op
    /\ UNCHANGED <<redisVars, net, fence, sub, renew, permGen, used, revoked>>

RefuseResume(c) ==
    /\ c \in cmds /\ c.kind = "resume"
    /\ BeginExecHalt("worker", "announce", NoGen, clock + 1, "resume")
    /\ Take(c)
    /\ UNCHANGED <<redisVars, net, fence, sub, gateVars, used, histVars>>

WriteResume ==
    /\ job["worker"].pc = "write"
    /\ \/ /\ redis' = Record("RUNNING", job["worker"].gen, job["worker"].ts)
          /\ job' = [job EXCEPT !["worker"].pc = "apply"]
          /\ UNCHANGED <<ks, used>>
       \/ /\ Spend("faults", 1, MaxFaults)
          /\ ks' = [ks EXCEPT !["exec"] = LatchDegraded(@)]
          /\ job' = [job EXCEPT !["worker"] = Idle]
          /\ UNCHANGED redis
    /\ UNCHANGED <<leases, clock, wireVars, fence, sub, gateVars, histVars>>

ApplyResume ==
    LET w == job["worker"] IN
    /\ w.pc = "apply"
    /\ ks' = [ks EXCEPT !["exec"] =
                Published(ApplyRunning(@, w.gen, w.ts), "RUNNING", w.gen, TRUE)]
    /\ net' = net \cup {Notice("exec", "RUNNING", w.gen, w.ts)}
    /\ job' = [job EXCEPT !["worker"] = Idle]
    /\ Answer(w.gen)
    /\ UNCHANGED <<redisVars, clock, cmds, taken, fence, sub, renew, permGen, used, histVars>>

-----------------------------------------------------------------------------
(* The gateway. *)
Gate == ks["gate"]
Eligible == Gate.phase = "RUNNING"
Revocable == {Gate.lastRun, permGen}
GateRuns(gen, ts) ==
    /\ ks' = [ks EXCEPT !["gate"] = ApplyRunning(@, gen, ts)]
    /\ revoked' = NoGen
NotGate == UNCHANGED <<clock, cmds, taken, execVars, ack>>

OperatorHalt ==
    LET k == BeginHalt(Gate, NoGen, clock + 1) IN
    /\ op["halt"].pc = "idle"
    /\ Spend("halts", 1, MaxHalts)
    /\ ks' = [ks EXCEPT !["gate"] = k]
    /\ clock' = Later(clock, k.setAt)
    /\ op' = [op EXCEPT !["halt"] = [IdleOp EXCEPT !.pc = "announce", !.gen = k.gen, !.ts = k.setAt]]
    /\ UNCHANGED <<redisVars, wireVars, execVars, renew, permGen, histVars>>

(* Mutant: the revocation does not wait for the io lock. *)
GateAnnounceUnlocked ==
    LET h == op["halt"] IN
    /\ h.pc = "announce"
    /\ \E deleted, ok, same \in BOOLEAN :
        /\ Publish("gate", "HALTING", h.gen, h.ts, Revocable, deleted, ok, same)
        /\ ks' = [ks EXCEPT !["gate"] =
                    Published(@, "HALTING", h.gen, Outcome("gate", ok, same))]
        /\ permGen' = IF deleted THEN NoGen ELSE permGen
        /\ revoked' = IF deleted /\ ~Eligible THEN Gate.lastRun ELSE revoked
    /\ cmds' = cmds \cup {[kind |-> "halt", gen |-> h.gen, ts |-> h.ts]}
    /\ op' = [op EXCEPT !["halt"] = IdleOp]
    /\ UNCHANGED <<clock, taken, execVars, renew, ack>>

(* The gateway publishes HALTING, revoking under the io lock, and asks the *)
(* execution process for its acknowledgement.                              *)
GateAnnounce ==
    LET h == op["halt"] IN
    /\ h.pc = "announce" /\ renew.pc = "idle"
    /\ \E deleted, ok, same \in BOOLEAN :
        /\ Publish("gate", "HALTING", h.gen, h.ts, Revocable, deleted, ok, same)
        /\ ks' = [ks EXCEPT !["gate"] =
                    Published(@, "HALTING", h.gen, Outcome("gate", ok, same))]
        /\ permGen' = IF deleted THEN NoGen ELSE permGen
        /\ revoked' = IF deleted /\ ~Eligible THEN Gate.lastRun ELSE revoked
    /\ cmds' = cmds \cup {[kind |-> "halt", gen |-> h.gen, ts |-> h.ts]}
    /\ op' = [op EXCEPT !["halt"] = IdleOp]
    /\ UNCHANGED <<clock, taken, execVars, renew, ack>>

OperatorResume ==
    /\ Spend("resumes", 1, MaxResumes)
    /\ cmds' = cmds \cup {[kind |-> "resume", gen |-> NoGen, ts |-> 0]}
    /\ UNCHANGED <<redisVars, net, taken, clock, ks, execVars, gateVars, histVars>>

(* Activation re-reads the record before the gateway adopts the generation. *)
ActivateRead ==
    /\ op["resume"].pc = "activate"
    /\ \E r \in {redis, Failed} :
        /\ Read(r)
        /\ op' = [op EXCEPT !["resume"] =
                    IF Running(r) /\ r.gen = @.gen
                    THEN [@ EXCEPT !.pc = "match", !.ts = r.ts]
                    ELSE [@ EXCEPT !.pc = "mismatch"]]
    /\ UNCHANGED <<redisVars, net, ks, renew, permGen, revoked>> /\ NotGate

Activate ==
    LET a == op["resume"] IN
    /\ a.pc \in {"match", "mismatch"}
    /\ IF a.pc = "match"
       THEN GateRuns(a.gen, a.ts)
       ELSE ks' = [ks EXCEPT !["gate"] = LatchDegraded(@)] /\ UNCHANGED revoked
    /\ op' = [op EXCEPT !["resume"] = IdleOp]
    /\ UNCHANGED <<redisVars, net, renew, permGen, used>> /\ NotGate

ReceiveAtGate(m) ==
    /\ m \in net /\ m.from = "exec" /\ m.state # "RUNNING"
    /\ op["remote"].pc = "idle" /\ m.ts > Gate.applied
    /\ LET k == BeginHalt(Gate, m.gen, m.ts) IN
       ks' = [ks EXCEPT !["gate"] =
                [k EXCEPT !.phase = IF m.state = "HALTED" THEN "HALTED" ELSE @,
                          !.applied = Later(@, m.ts),
                          !.pub.state = m.state, !.pub.gen = m.gen]]
    /\ UNCHANGED <<redisVars, net, op, renew, permGen, used, revoked>> /\ NotGate

(* A notice of RUNNING is believed when Redis holds that very generation. *)
ReceiveRunning(m) ==
    /\ m \in net /\ m.from = "exec" /\ m.state = "RUNNING"
    /\ op["remote"].pc = "idle" /\ m.ts > Gate.applied
    /\ \E r \in {redis, Failed} :
        /\ Read(r)
        /\ op' = [op EXCEPT !["remote"] =
                    [pc |-> IF Running(r) /\ r.gen = m.gen THEN "match" ELSE "mismatch",
                     gen |-> m.gen, ts |-> m.ts]]
    /\ UNCHANGED <<redisVars, net, ks, renew, permGen, revoked>> /\ NotGate

ApplyNotice ==
    LET a == op["remote"] IN
    /\ a.pc \in {"match", "mismatch"}
    /\ IF a.pc = "match"
       THEN /\ ks' = [ks EXCEPT !["gate"] = [ApplyRunning(@, a.gen, a.ts) EXCEPT
                            !.pub.state = "RUNNING", !.pub.gen = a.gen]]
            /\ revoked' = NoGen
       ELSE ks' = [ks EXCEPT !["gate"] = LatchDegraded(@)] /\ UNCHANGED revoked
    /\ op' = [op EXCEPT !["remote"] = IdleOp]
    /\ UNCHANGED <<redisVars, net, renew, permGen, used>> /\ NotGate

-----------------------------------------------------------------------------
(* The gateway's lease loop.  A renewal holds the io lock from its read of *)
(* the record to its SET, so that a halt's revocation comes after it.      *)
StartRenewal ==
    /\ Eligible /\ renew.pc = "idle"
    /\ \E r \in {redis, Failed} :
        /\ Read(r)
        /\ renew' = [Unlocked EXCEPT !.pc = "check", !.gen = Gate.gen, !.seen = r]
    /\ UNCHANGED <<redisVars, net, ks, op, permGen, revoked>> /\ NotGate

(* A renewal that raises: the loop tries again until the lease it last     *)
(* wrote, if it was of this generation, must have expired.                 *)
RenewalError(k) ==
    \/ permGen = k.gen /\ ks' = [ks EXCEPT !["gate"] = k]
    \/ ks' = [ks EXCEPT !["gate"] = LatchDegraded(k)]

Delete(gen, deleted) ==
    /\ leases' = IF deleted THEN leases \ {gen} ELSE leases
    /\ permGen' = IF deleted /\ permGen = gen THEN NoGen ELSE permGen
    /\ Writes(Miss(deleted))

(* The record is gone or unreadable: nothing is renewed. *)
RenewalUnread ==
    /\ renew.pc = "check" /\ renew.seen \in {NoRecord, Failed}
    /\ RenewalError(Gate)
    /\ renew' = Unlocked
    /\ UNCHANGED <<redisVars, net, op, permGen, used, revoked>> /\ NotGate

(* The record halts, names another generation, or the gateway has halted   *)
(* since: the lease is deleted instead.                                    *)
RenewalRefused ==
    LET r == renew.seen
        k == IF Halted(r) THEN AdoptHalt(Gate, r) ELSE Gate IN
    /\ renew.pc = "check" /\ r \notin {NoRecord, Failed}
    /\ Halted(r) \/ r.gen # renew.gen \/ ~Eligible \/ renew.gen # Gate.gen
    /\ \E deleted \in BOOLEAN :
        /\ Delete(renew.gen, deleted)
        /\ IF deleted /\ (Halted(r) \/ r.gen = renew.gen)
           THEN ks' = [ks EXCEPT !["gate"] = k]
           ELSE RenewalError(k)
    /\ renew' = Unlocked
    /\ UNCHANGED <<redis, net, op, revoked>> /\ NotGate

RenewalChecked ==
    /\ renew.pc = "check" /\ Running(renew.seen)
    /\ renew.seen.gen = renew.gen /\ Eligible /\ renew.gen = Gate.gen
    /\ renew' = [renew EXCEPT !.pc = "set", !.seen = NoRecord]
    /\ UNCHANGED <<redisVars, net, ks, op, permGen, used, revoked>> /\ NotGate

RenewalSet ==
    /\ renew.pc = "set"
    /\ \/ /\ leases' = (leases \ {permGen}) \cup {renew.gen}
          /\ permGen' = renew.gen
          /\ UNCHANGED <<ks, used>>
       \/ /\ Spend("faults", 1, MaxFaults)
          /\ leases' \in {leases, leases \ ({permGen} \ {renew.gen})}
          /\ RenewalError(Gate)
          /\ UNCHANGED permGen
    /\ renew' = Unlocked
    /\ UNCHANGED <<redis, net, op, revoked>> /\ NotGate

(* The loop of a gateway that may not renew revokes instead. *)
LoopRevokes ==
    /\ ~Eligible /\ renew.pc = "idle"
    /\ \E deleted \in BOOLEAN :
        /\ Writes(Miss(deleted))
        /\ leases' = IF deleted THEN leases \ Revocable ELSE leases
        /\ permGen' = IF deleted THEN NoGen ELSE permGen
    /\ UNCHANGED <<redis, net, ks, op, renew, revoked>> /\ NotGate

-----------------------------------------------------------------------------
(* The environment: Redis forgets a lease that was not renewed, or after   *)
(* thirty days the record; a process restarts and reads the record.  A    *)
(* command is acknowledged to NATS after its handler, and a restart forgets*)
(* _processed_ids: the last command may be delivered again.                *)
LeaseExpires(gen) ==
    /\ gen \in leases
    /\ leases' = leases \ {gen}
    /\ UNCHANGED <<redis, clock, wireVars, ks, execVars, gateVars, used, histVars>>

RecordExpires ==
    /\ redis # NoRecord
    /\ Spend("faults", 1, MaxFaults)
    /\ redis' = NoRecord
    /\ UNCHANGED <<leases, clock, wireVars, ks, execVars, gateVars, histVars>>

Restarted(p, r) ==
    /\ used.restarts < MaxRestarts
    /\ r = Failed => used.faults < MaxFaults
    /\ used' = [used EXCEPT !.restarts = @ + 1, !.faults = @ + Miss(r # Failed)]
    /\ Total(used') <= MaxEvents
    /\ ks' = [ks EXCEPT ![p] = Bootstrap(p, r)]

RestartExec ==
    /\ \E r \in {redis, Failed} : Restarted("exec", r)
    /\ fence' = NoSub /\ sub' = Still /\ job' = Clear
    /\ cmds' \in {cmds, cmds \cup taken} /\ taken' = {}
    /\ ack' = IF ack = "local" THEN "none" ELSE ack
    /\ UNCHANGED <<redisVars, net, clock, gateVars, revoked>>

RestartGate ==
    /\ \E r \in {redis, Failed} : Restarted("gate", r)
    /\ op' = Quiet /\ renew' = Unlocked /\ permGen' = NoGen /\ revoked' = NoGen
    /\ UNCHANGED <<redisVars, clock, wireVars, execVars, ack>>

-----------------------------------------------------------------------------
Submit(s) == \/ Admit(s) \/ EnterGuard(s) \/ ReadAuthority(s)
             \/ CheckAuthority(s) \/ ReadLease(s) \/ NoPermission(s) \/ Placed(s)

ExecHalts == \/ GuardHalt
             \/ \E c \in cmds : TakeHalt(c)
             \/ \E m \in net : ReceiveHalt(m)
             \/ \E t \in Task : Announce(t) \/ Drain(t) \/ Confirm(t)

ExecResumes == \/ \E c \in cmds : TakeResume(c) \/ RefuseResume(c)
               \/ WriteResume \/ ApplyResume

GateActs == \/ OperatorHalt \/ GateAnnounce \/ OperatorResume
            \/ ActivateRead \/ Activate
            \/ \E m \in net : ReceiveAtGate(m) \/ ReceiveRunning(m)
            \/ ApplyNotice

Renews == \/ StartRenewal \/ RenewalUnread \/ RenewalRefused \/ RenewalChecked
          \/ RenewalSet \/ LoopRevokes

Environment == \/ \E gen \in leases : LeaseExpires(gen)
               \/ RecordExpires \/ RestartExec \/ RestartGate

Next == \/ \E s \in Sub : Submit(s)
        \/ ExecHalts \/ ExecResumes \/ GateActs \/ Renews \/ Environment

Spec == Init /\ [][Next]_vars

-----------------------------------------------------------------------------
Phase   == {"RUNNING", "HALTING", "HALTED", "RESUMING", "DEGRADED"}
State   == {"RUNNING", "HALTING", "HALTED"}
Records == [state : State, gen : Nat, ts : Nat]
Reads   == Records \cup {NoRecord, Failed}
Fields  == [phase : Phase, gen : Nat, setAt : Nat, lastRun : Nat, applied : Nat,
            pub : [state : State \cup {"NONE"}, gen : Nat, written : BOOLEAN]]
Subs    == [pc : {"idle", "admitted", "authority", "check", "lease", "permit", "placing"},
            exp : Nat, seen : Reads]
Jobs    == [pc : {"idle", "announce", "drain", "confirm", "write", "apply"},
            gen : Nat, ts : Nat, written : BOOLEAN, cmd : {"none", "halt", "resume"}]
Commands == [kind : {"halt", "resume"}, gen : Nat, ts : Nat]
Ops     == [pc : {"idle", "announce", "activate", "match", "mismatch"}, gen : Nat, ts : Nat]

(* Every variable has its type.                                            *)
TypeOK ==
    /\ redis \in Records \cup {NoRecord}
    /\ leases \subseteq Nat /\ clock \in Nat
    /\ net \subseteq [from : Proc, state : State, gen : Nat, ts : Nat]
    /\ cmds \subseteq Commands /\ taken \subseteq Commands
    /\ ks \in [Proc -> Fields]
    /\ fence \in Sub \cup {NoSub} /\ sub \in [Sub -> Subs] /\ job \in [Task -> Jobs]
    /\ op \in [{"halt", "resume", "remote"} -> Ops]
    /\ renew \in [pc : {"idle", "check", "set"}, gen : Nat, seen : Reads]
    /\ permGen \in Nat /\ revoked \in Nat
    /\ used \in [halts : Nat, resumes : Nat, faults : Nat, restarts : Nat]
    /\ ack \in {"none", "local", "recorded"}

(* HALTED at the execution process means that the final submission fence   *)
(* has been drained: no submission is anywhere inside the guard.           *)
HaltedMeansDrained ==
    ks["exec"].phase = "HALTED" => fence = NoSub /\ \A s \in Sub : ~InGuard(s)

(* A halt acknowledged to the operator holds: until a resume is taken up, *)
(* no submission is past the guard's check of the authority.  It outlives  *)
(* a restart of either process when the reply said the record was written, *)
(* and Redis faults when the execution process has not restarted.          *)
AcknowledgedHaltHolds == ack # "none" => \A s \in Sub : ~PastAuthority(s)

(* The lease that a gateway's halt has deleted is not written again by a   *)
(* renewal that was under way, as long as the gateway stays halted.        *)
RevokedStaysRevoked == revoked # NoGen => revoked \notin leases

===============================================================================
