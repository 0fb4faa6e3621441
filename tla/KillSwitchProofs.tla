--------------------------- MODULE KillSwitchProofs --------------------------
(***************************************************************************)
(* Proofs about the kill switch, for any number of submissions and any     *)
(* number of halts, resumes, Redis faults and restarts.                    *)
(***************************************************************************)
EXTENDS KillSwitch, TLAPS

(* A submission inside the guard holds the fence.                          *)
FenceIsHeld == \A s \in Sub : InGuard(s) => fence = s

(* HALTED at the execution process leaves the fence free.                  *)
HaltedIsFree == Exec.phase = "HALTED" => fence = NoSub

(* Only the command worker answers an operator's halt, and while it works  *)
(* on a resume no halt is acknowledged.                                    *)
AckedIsBlocked ==
    /\ \A t \in Task : job[t].cmd = "halt" => t = "worker"
    /\ ack # "none" => /\ Exec.phase # "RUNNING" /\ fence = NoSub
                       /\ job["worker"].pc \notin {"write", "apply"}

(* A halt that is known to be written is what Redis holds, until the       *)
(* worker writes a resume.                                                 *)
WrittenIsHalted ==
    /\ ack = "recorded" => ~Running(redis)
    /\ job["worker"].pc \in {"drain", "confirm"} /\ job["worker"].written => ~Running(redis)
    /\ Exec.pub.state \in {"HALTING", "HALTED"} /\ Exec.pub.written =>
            ~Running(redis) \/ job["worker"].pc = "apply"

(* While a deleted lease must stay deleted, no renewal is about to write.  *)
RevokedIsSafe ==
    revoked # NoGen => revoked \notin leases /\ Gate.phase # "RUNNING" /\ renew.pc # "set"

IInv == TypeOK /\ FenceIsHeld /\ HaltedIsFree /\ AckedIsBlocked /\ WrittenIsHalted
        /\ RevokedIsSafe

------------------------------------------------------------------------------
(* The object's transitions keep its fields' types.                        *)
LEMMA BeginHaltType ==
    ASSUME NEW k \in Fields, NEW gen \in Nat, NEW ts \in Nat
    PROVE  BeginHalt(k, gen, ts) \in Fields
BY DEF BeginHalt, Fields, Phase, Later

LEMMA MarkHaltEnforcedType ==
    ASSUME NEW k \in Fields, NEW gen \in Nat
    PROVE  MarkHaltEnforced(k, gen) \in Fields
BY DEF MarkHaltEnforced, Fields, Phase

LEMMA ApplyRunningType ==
    ASSUME NEW k \in Fields, NEW gen \in Nat, NEW ts \in Nat
    PROVE  ApplyRunning(k, gen, ts) \in Fields
BY DEF ApplyRunning, Fields, Phase, Later

LEMMA LatchDegradedType ==
    ASSUME NEW k \in Fields  PROVE LatchDegraded(k) \in Fields
BY DEF LatchDegraded, Fields, Phase

LEMMA AdoptHaltType ==
    ASSUME NEW k \in Fields, NEW r \in Records  PROVE AdoptHalt(k, r) \in Fields
BY DEF AdoptHalt, Fields, Records, State, Phase, Later

LEMMA PublishedType ==
    ASSUME NEW k \in Fields, NEW state \in State, NEW gen \in Nat, NEW written \in BOOLEAN
    PROVE  Published(k, state, gen, written) \in Fields
BY DEF Published, Fields

LEMMA NewKillSwitchType == NewKillSwitch \in Fields
BY DEF NewKillSwitch, Fields, Phase, State, NoGen

LEMMA BootstrapType ==
    ASSUME NEW p \in Proc, NEW r \in Reads  PROVE Bootstrap(p, r) \in Fields
<1>1. CASE Halted(r)
    <2>1. r \in Records  BY <1>1 DEF Halted, Reads
    <2>2. AdoptHalt(NewKillSwitch, r) \in Fields  BY <2>1, AdoptHaltType, NewKillSwitchType
    <2> QED BY <1>1, <2>2 DEF Bootstrap, Fields, Phase, Halted, Running
<1>2. CASE Running(r)
    <2>1. r \in Records /\ ~Halted(r)  BY <1>2 DEF Running, Halted, Reads
    <2>2. r.gen \in Nat /\ r.ts \in Nat  BY <2>1 DEF Records
    <2>3. ApplyRunning(NewKillSwitch, r.gen, r.ts) \in Fields
        BY <2>2, ApplyRunningType, NewKillSwitchType
    <2> QED BY <1>2, <2>1, <2>3 DEF Bootstrap
<1>3. CASE ~Halted(r) /\ ~Running(r)
    BY <1>3, LatchDegradedType, NewKillSwitchType DEF Bootstrap
<1> QED BY <1>1, <1>2, <1>3

LEMMA RefreshedType ==
    ASSUME NEW k \in Fields, NEW r \in Reads  PROVE Refreshed(k, r) \in Fields
<1>1. CASE Halted(r)
    <2>1. r \in Records  BY <1>1 DEF Halted, Reads
    <2> QED BY <1>1, <2>1, AdoptHaltType DEF Refreshed, Halted, Running
<1>2. CASE Running(r)
    <2>1. r \in Records /\ ~Halted(r)  BY <1>2 DEF Running, Halted, Reads
    <2>2. r.gen \in Nat /\ r.ts \in Nat  BY <2>1 DEF Records
    <2> QED BY <1>2, <2>1, <2>2, ApplyRunningType DEF Refreshed
<1>3. CASE ~Halted(r) /\ ~Running(r)
    BY <1>3, LatchDegradedType DEF Refreshed
<1> QED BY <1>1, <1>2, <1>3

(* Reading Redis gives a read.                                             *)
LEMMA ReadType ==
    ASSUME TypeOK, NEW r, Read(r)
    PROVE  used' \in [halts : Nat, resumes : Nat, faults : Nat, restarts : Nat]
BY DEF TypeOK, Read, Spend

LEMMA WritesType ==
    ASSUME TypeOK, NEW n \in Nat, Writes(n)
    PROVE  used' \in [halts : Nat, resumes : Nat, faults : Nat, restarts : Nat]
BY DEF TypeOK, Writes, Spend

------------------------------------------------------------------------------
(* A submission's step keeps the types.                                    *)
LEMMA SubmitTypeOK == ASSUME TypeOK, NEW s \in Sub, Submit(s)  PROVE TypeOK'
<1> USE DEF TypeOK, NotSubmitting, redisVars, wireVars, gateVars, histVars
<1>0. ks["exec"] \in Fields /\ sub[s] \in Subs  BY DEF Proc
<1>1. CASE Admit(s)
    BY <1>0, <1>1 DEF Admit, Subs, Resting, Reads, Fields, NoGen
<1>2. CASE EnterGuard(s)
    BY <1>0, <1>2 DEF EnterGuard, Blocked, Subs, Resting, Reads, NoGen
<1>3. CASE ReadAuthority(s)
    <2>1. PICK r \in {redis, Failed} :
            Read(r) /\ sub' = [sub EXCEPT ![s].pc = "check", ![s].seen = r]
        BY <1>3 DEF ReadAuthority
    <2>2. sub' \in [Sub -> Subs]  BY <1>0, <2>1 DEF Subs, Reads
    <2>3. used' \in [halts : Nat, resumes : Nat, faults : Nat, restarts : Nat]
        BY <2>1, ReadType
    <2> QED BY <1>3, <2>2, <2>3 DEF ReadAuthority
<1>4. CASE CheckAuthority(s)
    <2>1. Refreshed(ks["exec"], sub[s].seen) \in Fields
        BY <1>0, RefreshedType DEF Subs
    <2>2. ks' \in [Proc -> Fields]  BY <1>4, <2>1 DEF CheckAuthority
    <2>3. sub' \in [Sub -> Subs] /\ fence' \in Sub \cup {NoSub}
        BY <1>0, <1>4 DEF CheckAuthority, Blocked, Subs, Resting, Reads, NoGen
    <2> QED BY <1>4, <2>2, <2>3 DEF CheckAuthority
<1>5. CASE ReadLease(s)
    BY <1>0, <1>5 DEF ReadLease, Subs, Spend
<1>6. CASE NoPermission(s)
    <2>1. ks' \in [Proc -> Fields]
        BY <1>0, <1>6, LatchDegradedType DEF NoPermission
    <2> QED BY <1>0, <1>6, <2>1 DEF NoPermission, Blocked, Subs, Resting, Reads, NoGen
<1>7. CASE Placed(s)
    BY <1>0, <1>7 DEF Placed, Subs, Resting, Reads, NoGen
<1> QED BY <1>1, <1>2, <1>3, <1>4, <1>5, <1>6, <1>7 DEF Submit

LEMMA BeginExecHaltType ==
    ASSUME TypeOK, NEW t \in Task, NEW first \in {"announce", "drain"}, NEW gen \in Nat,
           NEW ts \in Nat, NEW cmd \in {"none", "halt", "resume"},
           BeginExecHalt(t, first, gen, ts, cmd)
    PROVE  ks' \in [Proc -> Fields] /\ job' \in [Task -> Jobs] /\ clock' \in Nat
<1> DEFINE k == BeginHalt(Exec, gen, ts)
<1>1. k \in Fields  BY BeginHaltType DEF TypeOK, Exec, Proc
<1>2. k.gen \in Nat /\ k.setAt \in Nat  BY <1>1 DEF Fields
<1>3. /\ ks' = [ks EXCEPT !["exec"] = k]
      /\ job' = [job EXCEPT ![t] = [pc |-> first, gen |-> k.gen, ts |-> k.setAt,
                                  written |-> FALSE, cmd |-> cmd]]
      /\ clock' = Later(clock, k.setAt)
    BY DEF BeginExecHalt
<1> HIDE DEF k
<1> QED BY <1>1, <1>2, <1>3 DEF TypeOK, Jobs, Later

LEMMA ExecHaltsTypeOK == ASSUME TypeOK, ExecHalts  PROVE TypeOK'
<1>00. TypeOK  OBVIOUS
<1> USE DEF TypeOK, redisVars, wireVars, gateVars, histVars
<1>0. /\ Exec \in Fields /\ "exec" \in Proc /\ "HALTING" \in State /\ "HALTED" \in State
      /\ NoGen \in Nat /\ clock + 1 \in Nat
    BY DEF Proc, Exec, State, NoGen
<1>1. CASE GuardHalt
    <2>1. ks' \in [Proc -> Fields] /\ job' \in [Task -> Jobs] /\ clock' \in Nat
        BY <1>0, <1>1, BeginExecHaltType DEF GuardHalt, Task
    <2> QED BY <1>1, <2>1 DEF GuardHalt, Spend
<1>2. ASSUME NEW c \in cmds, TakeHalt(c)  PROVE TypeOK'
    <2>1. c.gen \in Nat /\ c.ts \in Nat /\ {c} \subseteq Commands  BY DEF Commands
    <2>2. ks' \in [Proc -> Fields] /\ job' \in [Task -> Jobs] /\ clock' \in Nat
        BY <1>2, <2>1, BeginExecHaltType DEF TakeHalt, Task
    <2> QED BY <1>2, <2>1, <2>2 DEF TakeHalt, Take
<1>3. ASSUME NEW m \in net, ReceiveHalt(m)  PROVE TypeOK'
    <2>1. m.gen \in Nat /\ m.ts \in Nat  OBVIOUS
    <2>2. ks' \in [Proc -> Fields] /\ job' \in [Task -> Jobs] /\ clock' \in Nat
        BY <1>3, <2>1, BeginExecHaltType DEF ReceiveHalt, Task
    <2> QED BY <1>3, <2>2 DEF ReceiveHalt
<1>4. ASSUME NEW t \in Task, Announce(t)  PROVE TypeOK'
    <2>1. job[t] \in Jobs /\ job[t].gen \in Nat /\ job[t].ts \in Nat  BY DEF Jobs
    <2>2. PICK deleted \in BOOLEAN, ok \in BOOLEAN, same \in BOOLEAN :
            /\ Publish("exec", "HALTING", job[t].gen, job[t].ts, {Exec.lastRun},
                       deleted, ok, same)
            /\ job' = [job EXCEPT ![t].pc = "drain", ![t].written = Outcome("exec", ok, same)]
            /\ ks' = [ks EXCEPT !["exec"] =
                        Published(@, "HALTING", job[t].gen, Outcome("exec", ok, same))]
        BY <1>4 DEF Announce
    <2>3. /\ redis' \in Records \cup {NoRecord} /\ leases' \subseteq Nat
          /\ net' \subseteq [from : Proc, state : State, gen : Nat, ts : Nat]
          /\ used' \in [halts : Nat, resumes : Nat, faults : Nat, restarts : Nat]
          /\ Outcome("exec", ok, same) \in BOOLEAN
        <3>1. Miss(deleted) + (IF same THEN 0 ELSE Miss(ok)) \in Nat  BY DEF Miss
        <3>2. used' \in [halts : Nat, resumes : Nat, faults : Nat, restarts : Nat]
            BY <2>2, <3>1 DEF Publish, Writes, Spend
        <3>3. Record("HALTING", job[t].gen, job[t].ts) \in Records
            BY <1>0, <2>1 DEF Record, Records
        <3>4. Notice("exec", "HALTING", job[t].gen, job[t].ts)
                \in [from : Proc, state : State, gen : Nat, ts : Nat]
            BY <1>0, <2>1 DEF Notice
        <3>5. ks["exec"].pub.written \in BOOLEAN  BY <1>0 DEF Fields
        <3> QED BY <2>2, <3>2, <3>3, <3>4, <3>5 DEF Publish, Outcome
    <2>4. Published(ks["exec"], "HALTING", job[t].gen, Outcome("exec", ok, same)) \in Fields
        BY <1>0, <2>1, <2>3, PublishedType
    <2>5. ks' \in [Proc -> Fields] /\ job' \in [Task -> Jobs]
        BY <2>1, <2>2, <2>3, <2>4 DEF Jobs
    <2> QED BY <1>4, <2>3, <2>5 DEF Announce
<1>5. ASSUME NEW t \in Task, Drain(t)  PROVE TypeOK'
    <2>1. job[t] \in Jobs /\ job[t].gen \in Nat  BY DEF Jobs
    <2>2. MarkHaltEnforced(ks["exec"], job[t].gen) \in Fields
        BY <1>0, <2>1, MarkHaltEnforcedType
    <2>3. [MarkHaltEnforced(ks["exec"], job[t].gen) EXCEPT !.setAt = clock + 1] \in Fields
        BY <1>0, <2>2 DEF Fields
    <2>4. ks' \in [Proc -> Fields] /\ job' \in [Task -> Jobs]
        BY <1>0, <1>5, <2>1, <2>3 DEF Drain, Jobs
    <2> QED BY <1>0, <1>5, <2>4 DEF Drain
<1>6. ASSUME NEW t \in Task, Confirm(t)  PROVE TypeOK'
    <2>1. job[t] \in Jobs /\ job[t].gen \in Nat /\ job[t].ts \in Nat  BY DEF Jobs
    <2>2. PICK deleted \in BOOLEAN, ok \in BOOLEAN, same \in BOOLEAN :
            /\ Publish("exec", "HALTED", job[t].gen, job[t].ts, {Exec.lastRun},
                       deleted, ok, same)
            /\ ks' = [ks EXCEPT !["exec"] =
                        Finished(t, Published(@, "HALTED", job[t].gen, Outcome("exec", ok, same)))]
            /\ ack' = Acknowledged(t, job[t].written \/ Outcome("exec", ok, same))
        BY <1>6 DEF Confirm
    <2>3. /\ redis' \in Records \cup {NoRecord} /\ leases' \subseteq Nat
          /\ net' \subseteq [from : Proc, state : State, gen : Nat, ts : Nat]
          /\ used' \in [halts : Nat, resumes : Nat, faults : Nat, restarts : Nat]
          /\ Outcome("exec", ok, same) \in BOOLEAN
        <3>1. Miss(deleted) + (IF same THEN 0 ELSE Miss(ok)) \in Nat  BY DEF Miss
        <3>2. used' \in [halts : Nat, resumes : Nat, faults : Nat, restarts : Nat]
            BY <2>2, <3>1 DEF Publish, Writes, Spend
        <3>3. Record("HALTED", job[t].gen, job[t].ts) \in Records
            BY <1>0, <2>1 DEF Record, Records
        <3>4. Notice("exec", "HALTED", job[t].gen, job[t].ts)
                \in [from : Proc, state : State, gen : Nat, ts : Nat]
            BY <1>0, <2>1 DEF Notice
        <3>5. ks["exec"].pub.written \in BOOLEAN  BY <1>0 DEF Fields
        <3> QED BY <2>2, <3>2, <3>3, <3>4, <3>5 DEF Publish, Outcome
    <2>4. Published(ks["exec"], "HALTED", job[t].gen, Outcome("exec", ok, same)) \in Fields
        BY <1>0, <2>1, <2>3, PublishedType
    <2>5. ks' \in [Proc -> Fields]
        BY <2>1, <2>2, <2>4 DEF Finished, Fields, Later
    <2>6. ack' \in {"none", "local", "recorded"}  BY <2>2 DEF Acknowledged
    <2>7. job' \in [Task -> Jobs]  BY <1>6 DEF Confirm, Idle, Jobs, NoGen
    <2> QED BY <1>6, <2>3, <2>5, <2>6, <2>7 DEF Confirm
<1> QED BY <1>1, <1>2, <1>3, <1>4, <1>5, <1>6 DEF ExecHalts

LEMMA AnswerType ==
    ASSUME TypeOK, NEW gen \in Nat, Answer(gen)
    PROVE  op' \in [{"halt", "resume", "remote"} -> Ops]
<1>1. [IdleOp EXCEPT !.pc = "activate", !.gen = gen] \in Ops  BY DEF IdleOp, Ops
<1>2. op \in [{"halt", "resume", "remote"} -> Ops]  BY DEF TypeOK
<1> QED BY <1>1, <1>2 DEF Answer

LEMMA ExecResumesTypeOK == ASSUME TypeOK, ExecResumes  PROVE TypeOK'
<1>00. TypeOK  OBVIOUS
<1> USE DEF TypeOK, redisVars, wireVars, gateVars, histVars
<1>0. /\ Exec \in Fields /\ Exec = ks["exec"] /\ Exec.gen \in Nat /\ "exec" \in Proc
      /\ "RUNNING" \in State /\ NoGen \in Nat /\ clock + 1 \in Nat
      /\ "worker" \in Task /\ job["worker"] \in Jobs
      /\ job["worker"].gen \in Nat /\ job["worker"].ts \in Nat
    BY DEF Proc, Exec, State, NoGen, Task, Fields, Jobs
<1>1. ASSUME NEW c \in cmds, TakeResume(c)  PROVE TypeOK'
    <2>1. {c} \subseteq Commands  OBVIOUS
    <2>2. op' \in [{"halt", "resume", "remote"} -> Ops]
        <3> HIDE DEF TypeOK
        <3>1. UNCHANGED op \/ Answer(Exec.gen)  BY <1>1 DEF TakeResume
        <3> QED BY <1>00, <1>0, <3>1, AnswerType DEF TypeOK
    <2>3. [ks["exec"] EXCEPT !.phase = "RESUMING", !.gen = clock + 1, !.setAt = clock + 1]
            \in Fields
        BY <1>0 DEF Fields, Phase
    <2>4. [Idle EXCEPT !.pc = "write", !.gen = clock + 1, !.ts = clock + 1] \in Jobs
        BY <1>0 DEF Idle, Jobs
    <2>5. ks' \in [Proc -> Fields] /\ job' \in [Task -> Jobs] /\ clock' \in Nat
        BY <1>0, <1>1, <2>3, <2>4 DEF TakeResume
    <2> QED BY <1>1, <2>1, <2>2, <2>5 DEF TakeResume, Take
<1>2. ASSUME NEW c \in cmds, RefuseResume(c)  PROVE TypeOK'
    <2>1. {c} \subseteq Commands  OBVIOUS
    <2>2. ks' \in [Proc -> Fields] /\ job' \in [Task -> Jobs] /\ clock' \in Nat
        BY <1>0, <1>2, BeginExecHaltType DEF RefuseResume
    <2> QED BY <1>2, <2>1, <2>2 DEF RefuseResume, Take
<1>3. CASE WriteResume
    <2>1. LatchDegraded(ks["exec"]) \in Fields  BY <1>0, LatchDegradedType
    <2>2. Record("RUNNING", job["worker"].gen, job["worker"].ts) \in Records
        BY <1>0 DEF Record, Records
    <2>3. Idle \in Jobs  BY DEF Idle, Jobs, NoGen
    <2>4. job' \in [Task -> Jobs]  BY <1>0, <1>3, <2>3 DEF WriteResume, Jobs
    <2> QED BY <1>3, <2>1, <2>2, <2>4 DEF WriteResume, Spend
<1>4. CASE ApplyResume
    <2> DEFINE w == job["worker"]
    <2>1. ApplyRunning(ks["exec"], w.gen, w.ts) \in Fields  BY <1>0, ApplyRunningType
    <2>2. Published(ApplyRunning(ks["exec"], w.gen, w.ts), "RUNNING", w.gen, TRUE) \in Fields
        BY <1>0, <2>1, PublishedType
    <2>3. ks' \in [Proc -> Fields]  BY <1>4, <2>2 DEF ApplyResume
    <2>4. Notice("exec", "RUNNING", w.gen, w.ts)
            \in [from : Proc, state : State, gen : Nat, ts : Nat]
        BY <1>0 DEF Notice
    <2>5. op' \in [{"halt", "resume", "remote"} -> Ops]
        <3> HIDE DEF TypeOK
        <3>1. Answer(w.gen)  BY <1>4 DEF ApplyResume
        <3> QED BY <1>00, <1>0, <3>1, AnswerType
    <2>6. job' \in [Task -> Jobs]  BY <1>0, <1>4 DEF ApplyResume, Idle, Jobs, NoGen
    <2> QED BY <1>4, <2>3, <2>4, <2>5, <2>6 DEF ApplyResume
<1> QED BY <1>1, <1>2, <1>3, <1>4 DEF ExecResumes

LEMMA GateActsTypeOK == ASSUME TypeOK, GateActs  PROVE TypeOK'
<1>00. TypeOK  OBVIOUS
<1> USE DEF TypeOK, redisVars, wireVars, execVars, gateVars, histVars, NotGate
<1>0. /\ Gate \in Fields /\ Gate = ks["gate"] /\ "gate" \in Proc /\ Gate.lastRun \in Nat
      /\ "HALTING" \in State /\ NoGen \in Nat /\ clock + 1 \in Nat
      /\ \A h \in {"halt", "resume", "remote"} :
            op[h] \in Ops /\ op[h].gen \in Nat /\ op[h].ts \in Nat
      /\ IdleOp \in Ops
    BY DEF Proc, Gate, State, NoGen, Fields, Ops, IdleOp
<1>1. CASE OperatorHalt
    <2> DEFINE k == BeginHalt(Gate, NoGen, clock + 1)
    <2>1. k \in Fields  BY <1>0, BeginHaltType
    <2>2. k.gen \in Nat /\ k.setAt \in Nat  BY <2>1 DEF Fields
    <2>3. /\ Spend("halts", 1, MaxHalts)
          /\ ks' = [ks EXCEPT !["gate"] = k]
          /\ clock' = Later(clock, k.setAt)
          /\ op' = [op EXCEPT !["halt"] =
                [IdleOp EXCEPT !.pc = "announce", !.gen = k.gen, !.ts = k.setAt]]
        BY <1>1 DEF OperatorHalt
    <2> HIDE DEF k
    <2>4. clock' \in Nat /\ ks' \in [Proc -> Fields]  BY <2>1, <2>2, <2>3 DEF Later
    <2>5. op' \in [{"halt", "resume", "remote"} -> Ops]
        BY <1>0, <2>2, <2>3 DEF Ops, IdleOp
    <2> QED BY <1>1, <2>3, <2>4, <2>5 DEF OperatorHalt, Spend
<1>2. CASE GateAnnounce
    <2> DEFINE h == op["halt"]
    <2>1. h.gen \in Nat /\ h.ts \in Nat  BY <1>0
    <2>2. PICK deleted \in BOOLEAN, ok \in BOOLEAN, same \in BOOLEAN :
            /\ Publish("gate", "HALTING", h.gen, h.ts, Revocable, deleted, ok, same)
            /\ ks' = [ks EXCEPT !["gate"] =
                        Published(@, "HALTING", h.gen, Outcome("gate", ok, same))]
            /\ permGen' = IF deleted THEN NoGen ELSE permGen
            /\ revoked' = IF deleted /\ ~Eligible THEN Gate.lastRun ELSE revoked
        BY <1>2 DEF GateAnnounce
    <2>3. Miss(deleted) + (IF same THEN 0 ELSE Miss(ok)) \in Nat  BY DEF Miss
    <2>4. used' \in [halts : Nat, resumes : Nat, faults : Nat, restarts : Nat]
        BY <2>2, <2>3 DEF Publish, Writes, Spend
    <2>5. Record("HALTING", h.gen, h.ts) \in Records  BY <1>0, <2>1 DEF Record, Records
    <2>6. Notice("gate", "HALTING", h.gen, h.ts)
            \in [from : Proc, state : State, gen : Nat, ts : Nat]
        BY <1>0, <2>1 DEF Notice
    <2>7. Outcome("gate", ok, same) \in BOOLEAN  BY <1>0 DEF Outcome, Fields
    <2>8. ks' \in [Proc -> Fields]
        <3>1. Published(ks["gate"], "HALTING", h.gen, Outcome("gate", ok, same)) \in Fields
            BY <1>0, <2>1, <2>7, PublishedType
        <3> QED BY <2>2, <3>1
    <2>9. [kind |-> "halt", gen |-> h.gen, ts |-> h.ts] \in Commands
        BY <2>1 DEF Commands
    <2>10. /\ redis' \in Records \cup {NoRecord} /\ leases' \subseteq Nat
           /\ net' \subseteq [from : Proc, state : State, gen : Nat, ts : Nat]
        BY <2>2, <2>5, <2>6 DEF Publish
    <2>11. op' \in [{"halt", "resume", "remote"} -> Ops] /\ cmds' \subseteq Commands
        BY <1>0, <1>2, <2>9 DEF GateAnnounce
    <2>12. permGen' \in Nat /\ revoked' \in Nat  BY <1>0, <2>2
    <2> QED BY <1>2, <2>4, <2>8, <2>10, <2>11, <2>12 DEF GateAnnounce
<1>3. CASE OperatorResume
    BY <1>3 DEF OperatorResume, Spend, Commands, NoGen
<1>4. CASE ActivateRead
    <2>1. PICK r \in {redis, Failed} :
            /\ Read(r)
            /\ op' = [op EXCEPT !["resume"] =
                        IF Running(r) /\ r.gen = @.gen
                        THEN [@ EXCEPT !.pc = "match", !.ts = r.ts]
                        ELSE [@ EXCEPT !.pc = "mismatch"]]
        BY <1>4 DEF ActivateRead
    <2>2. Running(r) => r.ts \in Nat  BY DEF Running, Records
    <2>3. op' \in [{"halt", "resume", "remote"} -> Ops]  BY <1>0, <2>1, <2>2 DEF Ops
    <2>4. used' \in [halts : Nat, resumes : Nat, faults : Nat, restarts : Nat]
        BY <2>1 DEF Read, Spend
    <2> QED BY <1>4, <2>3, <2>4 DEF ActivateRead
<1>5. CASE Activate
    <2>1. /\ ApplyRunning(ks["gate"], op["resume"].gen, op["resume"].ts) \in Fields
          /\ LatchDegraded(ks["gate"]) \in Fields
        BY <1>0, ApplyRunningType, LatchDegradedType
    <2>2. ks' \in [Proc -> Fields] /\ revoked' \in Nat
        BY <1>0, <1>5, <2>1 DEF Activate, GateRuns
    <2> QED BY <1>0, <1>5, <2>2 DEF Activate
<1>6. ASSUME NEW m \in net, ReceiveAtGate(m)  PROVE TypeOK'
    <2> DEFINE k == BeginHalt(Gate, m.gen, m.ts)
    <2>1. m.gen \in Nat /\ m.ts \in Nat /\ m.state \in State  OBVIOUS
    <2>2. k \in Fields  BY <1>0, <2>1, BeginHaltType
    <2>3. ks' = [ks EXCEPT !["gate"] =
                [k EXCEPT !.phase = IF m.state = "HALTED" THEN "HALTED" ELSE @,
                          !.applied = Later(@, m.ts),
                          !.pub.state = m.state, !.pub.gen = m.gen]]
        BY <1>6 DEF ReceiveAtGate
    <2> HIDE DEF k
    <2>4. ks' \in [Proc -> Fields]  BY <2>1, <2>2, <2>3 DEF Fields, Phase, Later
    <2> QED BY <1>6, <2>4 DEF ReceiveAtGate
<1>7. ASSUME NEW m \in net, ReceiveRunning(m)  PROVE TypeOK'
    <2>1. m.gen \in Nat /\ m.ts \in Nat  OBVIOUS
    <2>2. PICK r \in {redis, Failed} :
            /\ Read(r)
            /\ op' = [op EXCEPT !["remote"] =
                        [pc |-> IF Running(r) /\ r.gen = m.gen THEN "match" ELSE "mismatch",
                         gen |-> m.gen, ts |-> m.ts]]
        BY <1>7 DEF ReceiveRunning
    <2>3. op' \in [{"halt", "resume", "remote"} -> Ops]  BY <2>1, <2>2 DEF Ops
    <2>4. used' \in [halts : Nat, resumes : Nat, faults : Nat, restarts : Nat]
        BY <2>2 DEF Read, Spend
    <2> QED BY <1>7, <2>3, <2>4 DEF ReceiveRunning
<1>8. CASE ApplyNotice
    <2> DEFINE k == ApplyRunning(ks["gate"], op["remote"].gen, op["remote"].ts)
    <2>1. k \in Fields /\ LatchDegraded(ks["gate"]) \in Fields
        BY <1>0, ApplyRunningType, LatchDegradedType
    <2>2. \/ ks' = [ks EXCEPT !["gate"] = [k EXCEPT !.pub.state = "RUNNING",
                                                   !.pub.gen = op["remote"].gen]]
          \/ ks' = [ks EXCEPT !["gate"] = LatchDegraded(@)]
        BY <1>8 DEF ApplyNotice
    <2> HIDE DEF k
    <2>3. [k EXCEPT !.pub.state = "RUNNING", !.pub.gen = op["remote"].gen] \in Fields
        BY <1>0, <2>1 DEF Fields, State
    <2>4. ks' \in [Proc -> Fields]  BY <2>1, <2>2, <2>3
    <2> QED BY <1>0, <1>8, <2>4 DEF ApplyNotice
<1> QED BY <1>1, <1>2, <1>3, <1>4, <1>5, <1>6, <1>7, <1>8 DEF GateActs

LEMMA RenewsTypeOK == ASSUME TypeOK, Renews  PROVE TypeOK'
<1> USE DEF TypeOK, redisVars, wireVars, execVars, gateVars, histVars, NotGate
<1>0. /\ Gate \in Fields /\ Gate = ks["gate"] /\ "gate" \in Proc
      /\ Gate.gen \in Nat /\ NoGen \in Nat /\ renew.gen \in Nat
      /\ Unlocked \in [pc : {"idle", "check", "set"}, gen : Nat, seen : Reads]
    BY DEF Proc, Gate, NoGen, Fields, Unlocked, Reads
<1>e. ASSUME NEW k \in Fields, RenewalError(k)  PROVE ks' \in [Proc -> Fields]
    BY <1>0, <1>e, LatchDegradedType DEF RenewalError
<1>w. ASSUME NEW deleted, Writes(Miss(deleted))
      PROVE  used' \in [halts : Nat, resumes : Nat, faults : Nat, restarts : Nat]
    BY <1>w DEF Miss, Writes, Spend
<1>1. CASE StartRenewal
    <2>1. PICK r \in {redis, Failed} :
            /\ Read(r)
            /\ renew' = [Unlocked EXCEPT !.pc = "check", !.gen = Gate.gen, !.seen = r]
        BY <1>1 DEF StartRenewal
    <2>2. renew' \in [pc : {"idle", "check", "set"}, gen : Nat, seen : Reads]
        BY <1>0, <2>1 DEF Unlocked, Reads
    <2>3. used' \in [halts : Nat, resumes : Nat, faults : Nat, restarts : Nat]
        BY <2>1 DEF Read, Spend
    <2> QED BY <1>1, <2>2, <2>3 DEF StartRenewal
<1>2. CASE RenewalUnread
    <2>1. ks' \in [Proc -> Fields]  BY <1>0, <1>2, <1>e DEF RenewalUnread
    <2> QED BY <1>0, <1>2, <2>1 DEF RenewalUnread
<1>3. CASE RenewalRefused
    <2> DEFINE r == renew.seen
               k == IF Halted(r) THEN AdoptHalt(Gate, r) ELSE Gate
    <2>1. PICK deleted \in BOOLEAN :
            /\ Delete(renew.gen, deleted)
            /\ ks' = [ks EXCEPT !["gate"] = k] \/ RenewalError(k)
        BY <1>3 DEF RenewalRefused
    <2>2. k \in Fields  BY <1>0, <1>3, AdoptHaltType DEF RenewalRefused, Reads
    <2>3. ks' \in [Proc -> Fields]
        <3> HIDE DEF k
        <3> QED BY <1>e, <2>1, <2>2
    <2>4. leases' \subseteq Nat /\ permGen' \in Nat  BY <1>0, <2>1 DEF Delete
    <2>5. used' \in [halts : Nat, resumes : Nat, faults : Nat, restarts : Nat]
        BY <1>w, <2>1 DEF Delete
    <2> QED BY <1>0, <1>3, <2>3, <2>4, <2>5 DEF RenewalRefused
<1>4. CASE RenewalChecked
    BY <1>0, <1>4 DEF RenewalChecked, Reads
<1>5. CASE RenewalSet
    <2>1. leases' \subseteq Nat /\ permGen' \in Nat  BY <1>0, <1>5 DEF RenewalSet
    <2>2. ks' \in [Proc -> Fields]  BY <1>0, <1>5, <1>e DEF RenewalSet
    <2>3. used' \in [halts : Nat, resumes : Nat, faults : Nat, restarts : Nat]
        BY <1>5 DEF RenewalSet, Spend
    <2> QED BY <1>0, <1>5, <2>1, <2>2, <2>3 DEF RenewalSet
<1>6. CASE LoopRevokes
    <2>1. PICK deleted \in BOOLEAN :
            /\ Writes(Miss(deleted))
            /\ leases' = IF deleted THEN leases \ Revocable ELSE leases
            /\ permGen' = IF deleted THEN NoGen ELSE permGen
        BY <1>6 DEF LoopRevokes
    <2> QED BY <1>0, <1>6, <1>w, <2>1 DEF LoopRevokes
<1> QED BY <1>1, <1>2, <1>3, <1>4, <1>5, <1>6 DEF Renews

LEMMA EnvironmentTypeOK == ASSUME TypeOK, Environment  PROVE TypeOK'
<1> USE DEF TypeOK, redisVars, wireVars, execVars, gateVars, histVars
<1>r. ASSUME NEW p \in Proc, NEW r \in {redis, Failed}, Restarted(p, r)
      PROVE  /\ ks' \in [Proc -> Fields]
             /\ used' \in [halts : Nat, resumes : Nat, faults : Nat, restarts : Nat]
    <2>1. Bootstrap(p, r) \in Fields  BY BootstrapType DEF Reads
    <2>2. PICK n \in Nat : n = Miss(r # Failed)  BY DEF Miss
    <2>3. ks' \in [Proc -> Fields]  BY <1>r, <2>1 DEF Restarted
    <2>4. used' = [used EXCEPT !.restarts = @ + 1, !.faults = @ + n]
        BY <1>r, <2>2, Zenon DEF Restarted
    <2>5. /\ used \in [halts : Nat, resumes : Nat, faults : Nat, restarts : Nat]
          /\ used.restarts + 1 \in Nat /\ used.faults + n \in Nat
        OBVIOUS
    <2>6. used' \in [halts : Nat, resumes : Nat, faults : Nat, restarts : Nat]
        BY ONLY <2>4, <2>5
    <2> QED BY <2>3, <2>6
<1>1. ASSUME NEW gen \in leases, LeaseExpires(gen)  PROVE TypeOK'
    BY <1>1 DEF LeaseExpires
<1>2. CASE RecordExpires
    BY <1>2 DEF RecordExpires, Spend
<1>3. CASE RestartExec
    <2>1. /\ ks' \in [Proc -> Fields]
          /\ used' \in [halts : Nat, resumes : Nat, faults : Nat, restarts : Nat]
        BY <1>3, <1>r DEF RestartExec, Proc
    <2>2. Still \in [Sub -> Subs]  BY DEF Still, Resting, Subs, Reads, NoGen
    <2>3. Clear \in [Task -> Jobs]  BY DEF Clear, Idle, Jobs, NoGen
    <2> QED BY <1>3, <2>1, <2>2, <2>3 DEF RestartExec
<1>4. CASE RestartGate
    <2>1. /\ ks' \in [Proc -> Fields]
          /\ used' \in [halts : Nat, resumes : Nat, faults : Nat, restarts : Nat]
        BY <1>4, <1>r DEF RestartGate, Proc
    <2>2. Quiet \in [{"halt", "resume", "remote"} -> Ops]  BY DEF Quiet, IdleOp, Ops, NoGen
    <2> QED BY <1>4, <2>1, <2>2 DEF RestartGate, Unlocked, Reads, NoGen
<1> QED BY <1>1, <1>2, <1>3, <1>4 DEF Environment

LEMMA InitTypeOK == Init => TypeOK
<1> SUFFICES ASSUME Init  PROVE TypeOK  OBVIOUS
<1>1. redis \in Records \cup {NoRecord}  BY DEF Init, Record, Records, State
<1>2. ks \in [Proc -> Fields]
    <2>1. redis \in Reads  BY <1>1 DEF Reads
    <2> QED BY <2>1, BootstrapType DEF Init
<1>3. /\ Still \in [Sub -> Subs] /\ Clear \in [Task -> Jobs]
      /\ Quiet \in [{"halt", "resume", "remote"} -> Ops]
    BY DEF Still, Resting, Subs, Reads, Clear, Idle, Jobs, Quiet, IdleOp, Ops, NoGen
<1> QED BY <1>1, <1>2, <1>3 DEF Init, TypeOK, Unlocked, Reads, NoGen

(* Every step of the system keeps every variable's type.                   *)
LEMMA NextTypeOK == TypeOK /\ [Next]_vars => TypeOK'
<1> SUFFICES ASSUME TypeOK, [Next]_vars  PROVE TypeOK'  OBVIOUS
<1>1. CASE UNCHANGED vars  BY <1>1 DEF vars, TypeOK
<1>2. CASE Next
    BY <1>2, SubmitTypeOK, ExecHaltsTypeOK, ExecResumesTypeOK, GateActsTypeOK, RenewsTypeOK,
       EnvironmentTypeOK DEF Next
<1> QED BY <1>1, <1>2

(* The types hold in every reachable state.                                *)
THEOREM KillSwitchType == Spec => []TypeOK
BY InitTypeOK, NextTypeOK, PTL DEF Spec

------------------------------------------------------------------------------
(* What the object's transitions do to the phase and to what was published.*)
LEMMA BeginHaltPhase ==
    ASSUME NEW k \in Fields, NEW gen \in Nat, NEW ts \in Nat
    PROVE  /\ BeginHalt(k, gen, ts).phase \in {"HALTING", "HALTED"}
           /\ BeginHalt(k, gen, ts).phase = "HALTED" => k.phase = "HALTED"
           /\ BeginHalt(k, gen, ts).pub = k.pub
BY DEF BeginHalt, Fields, Phase, Later

LEMMA AdoptHaltPhase ==
    ASSUME NEW k \in Fields, NEW r \in Records
    PROVE  AdoptHalt(k, r).phase = r.state /\ AdoptHalt(k, r).pub = k.pub
BY DEF AdoptHalt, Fields, Records, Later

LEMMA RefreshedPub ==
    ASSUME NEW k \in Fields, NEW r \in Reads  PROVE Refreshed(k, r).pub = k.pub
<1>1. CASE Halted(r)
    <2>1. r \in Records  BY <1>1 DEF Halted, Reads
    <2> QED BY <1>1, <2>1, AdoptHaltPhase DEF Refreshed, Halted, Running
<1>2. CASE Running(r)
    <2>1. ~Halted(r)  BY <1>2 DEF Running, Halted
    <2> QED BY <1>2, <2>1 DEF Refreshed, ApplyRunning, Fields, Later
<1>3. CASE ~Halted(r) /\ ~Running(r)
    BY <1>3 DEF Refreshed, LatchDegraded, Fields
<1> QED BY <1>1, <1>2, <1>3

(* A process that starts runs only when it reads a record that says so,    *)
(* and has published nothing.                                              *)
LEMMA BootstrapPhase ==
    ASSUME NEW p \in Proc, NEW r \in Reads
    PROVE  /\ ~Running(r) => Bootstrap(p, r).phase # "RUNNING"
           /\ Bootstrap(p, r).pub.state = "NONE"
<1>1. CASE Halted(r)
    <2>1. r \in Records  BY <1>1 DEF Halted, Reads
    <2>2. AdoptHalt(NewKillSwitch, r) \in Fields  BY <2>1, AdoptHaltType, NewKillSwitchType
    <2>3. AdoptHalt(NewKillSwitch, r).pub.state = "NONE"
        BY <2>1, AdoptHaltPhase, NewKillSwitchType DEF NewKillSwitch
    <2> QED BY <1>1, <2>2, <2>3 DEF Bootstrap, Fields, Halted, Running
<1>2. CASE Running(r)
    <2>1. ~Halted(r)  BY <1>2 DEF Running, Halted
    <2> QED BY <1>2, <2>1 DEF Bootstrap, ApplyRunning, NewKillSwitch
<1>3. CASE ~Halted(r) /\ ~Running(r)
    BY <1>3 DEF Bootstrap, LatchDegraded, NewKillSwitch
<1> QED BY <1>1, <1>2, <1>3

ExecInv == FenceIsHeld /\ HaltedIsFree /\ AckedIsBlocked /\ WrittenIsHalted

(* Steps that leave the execution process alone and write no RUNNING       *)
(* record keep its invariant; steps that leave the gateway's phase and its *)
(* renewal alone and write no lease keep the gateway's.                    *)
LEMMA ExecFrame ==
    ASSUME ExecInv, ks'["exec"] = ks["exec"], UNCHANGED <<execVars, ack>>,
           ~Running(redis) => ~Running(redis')
    PROVE  ExecInv'
BY DEF ExecInv, FenceIsHeld, InGuard, HaltedIsFree, AckedIsBlocked, WrittenIsHalted, Exec,
       execVars

LEMMA GateFrame ==
    ASSUME RevokedIsSafe, ks'["gate"] = ks["gate"], UNCHANGED <<renew, revoked>>,
           leases' \subseteq leases
    PROVE  RevokedIsSafe'
BY DEF RevokedIsSafe, Gate

LEMMA SubmitInv == ASSUME TypeOK, ExecInv, NEW s \in Sub, Submit(s)  PROVE ExecInv'
<1> USE NullAssumption DEF NotSubmitting, redisVars, wireVars, gateVars, histVars
<1>0. /\ ks["exec"] \in Fields /\ sub[s] \in Subs /\ ks \in [Proc -> Fields] /\ "exec" \in Proc
      /\ sub \in [Sub -> Subs] /\ fence \in Sub \cup {NoSub}
    BY DEF TypeOK, Proc
<1>p. ASSUME ks'["exec"].pub = ks["exec"].pub  PROVE WrittenIsHalted'
    <2>1. UNCHANGED <<redis, job, ack>>
        BY DEF Submit, Admit, EnterGuard, ReadAuthority, CheckAuthority, ReadLease,
               NoPermission, Placed
    <2> QED BY <1>p, <2>1 DEF ExecInv, WrittenIsHalted, Exec
<1>1. CASE Admit(s)
    BY <1>0, <1>1, <1>p DEF Admit, ExecInv, FenceIsHeld, InGuard, HaltedIsFree, AckedIsBlocked,
        Exec, Resting
<1>2. CASE EnterGuard(s)
    BY <1>0, <1>2, <1>p DEF EnterGuard, Blocked, ExecInv, FenceIsHeld, InGuard, HaltedIsFree,
        AckedIsBlocked, Exec, Resting
<1>3. CASE ReadAuthority(s)
    BY <1>0, <1>3, <1>p DEF ReadAuthority, ExecInv, FenceIsHeld, InGuard, HaltedIsFree,
        AckedIsBlocked, Exec
<1>4. CASE CheckAuthority(s)
    <2> DEFINE k == Refreshed(ks["exec"], sub[s].seen)
    <2>1. k.pub = ks["exec"].pub  BY <1>0, RefreshedPub DEF Subs
    <2>2. /\ ks' = [ks EXCEPT !["exec"] = k]
          /\ \/ /\ k.phase = "RUNNING"
                /\ sub' = [sub EXCEPT ![s].pc = "lease", ![s].seen = NoRecord] /\ UNCHANGED fence
             \/ Blocked(s)
          /\ UNCHANGED <<redis, job, ack>>
        BY <1>4 DEF CheckAuthority
    <2>3. fence = s /\ ack = "none"
        BY <1>0, <1>4 DEF ExecInv, FenceIsHeld, InGuard, CheckAuthority, AckedIsBlocked
    <2> HIDE DEF k
    <2>4. ks'["exec"] = k  BY <1>0, <2>2
    <2>5. WrittenIsHalted'  BY <1>p, <2>1, <2>4
    <2>6. FenceIsHeld'
        BY <1>0, <2>2, <2>3 DEF ExecInv, FenceIsHeld, InGuard, Blocked, Resting
    <2>7. HaltedIsFree'  BY <2>2, <2>4 DEF HaltedIsFree, Exec, Blocked
    <2>8. AckedIsBlocked'  BY <2>2, <2>3 DEF ExecInv, AckedIsBlocked
    <2> QED BY <2>5, <2>6, <2>7, <2>8 DEF ExecInv
<1>5. CASE ReadLease(s)
    BY <1>0, <1>5, <1>p DEF ReadLease, ExecInv, FenceIsHeld, InGuard, HaltedIsFree,
        AckedIsBlocked, Exec
<1>6. CASE NoPermission(s)
    <2>1. /\ ks'["exec"].phase = "DEGRADED" /\ ks'["exec"].pub = ks["exec"].pub
          /\ sub' = [sub EXCEPT ![s] = Resting] /\ fence' = NoSub /\ UNCHANGED <<redis, job, ack>>
        BY <1>0, <1>6 DEF NoPermission, LatchDegraded, Fields, Blocked
    <2>2. fence = s  BY <1>6 DEF ExecInv, FenceIsHeld, InGuard, NoPermission
    <2>3. FenceIsHeld'  BY <1>0, <2>1, <2>2 DEF ExecInv, FenceIsHeld, InGuard, Resting
    <2>4. HaltedIsFree' /\ AckedIsBlocked'
        BY <2>1 DEF ExecInv, HaltedIsFree, AckedIsBlocked, Exec
    <2> QED BY <1>p, <2>1, <2>3, <2>4 DEF ExecInv
<1>7. CASE Placed(s)
    BY <1>0, <1>7, <1>p DEF Placed, ExecInv, FenceIsHeld, InGuard, HaltedIsFree, AckedIsBlocked,
        Exec, Resting
<1> QED BY <1>1, <1>2, <1>3, <1>4, <1>5, <1>6, <1>7 DEF Submit

(* A halt that begins blocks the execution process and leaves what the     *)
(* worker has written, and what was published, as they were.               *)
LEMMA BeginExecHaltInv ==
    ASSUME TypeOK, ExecInv, NEW t \in Task, NEW first \in {"announce", "drain"}, NEW gen \in Nat,
           NEW ts \in Nat, NEW cmd \in {"none", "halt", "resume"}, cmd = "halt" => t = "worker",
           BeginExecHalt(t, first, gen, ts, cmd), UNCHANGED <<redis, fence, sub, ack>>
    PROVE  ExecInv'
<1> DEFINE k == BeginHalt(Exec, gen, ts)
<1>0. Exec \in Fields /\ ks \in [Proc -> Fields] /\ "exec" \in Proc /\ job \in [Task -> Jobs]
      /\ "worker" \in Task
    BY DEF TypeOK, Exec, Proc, Task
<1>1. /\ k.phase \in {"HALTING", "HALTED"} /\ (k.phase = "HALTED" => Exec.phase = "HALTED")
      /\ k.pub = Exec.pub
    BY <1>0, BeginHaltPhase
<1>2. /\ job[t].pc = "idle" /\ ks' = [ks EXCEPT !["exec"] = k]
      /\ job' = [job EXCEPT ![t] = [pc |-> first, gen |-> k.gen, ts |-> k.setAt,
                                  written |-> FALSE, cmd |-> cmd]]
    BY DEF BeginExecHalt
<1> HIDE DEF k
<1>3. Exec' = k  BY <1>0, <1>2 DEF Exec
<1>4. job'["worker"].pc \notin {"write", "apply"} \/ job'["worker"] = job["worker"]
    BY <1>0, <1>2
<1>5. FenceIsHeld' /\ HaltedIsFree'
    BY <1>1, <1>3 DEF ExecInv, FenceIsHeld, HaltedIsFree, InGuard
<1>6. AckedIsBlocked'  BY <1>0, <1>1, <1>2, <1>3, <1>4 DEF ExecInv, AckedIsBlocked
<1>7. WrittenIsHalted'
    <2>1. job'["worker"].written => job'["worker"] = job["worker"]  BY <1>0, <1>2
    <2>2. job["worker"].pc = "apply" => job'["worker"].pc = "apply"  BY <1>0, <1>2
    <2> QED BY <1>1, <1>3, <2>1, <2>2 DEF ExecInv, WrittenIsHalted
<1> QED BY <1>5, <1>6, <1>7 DEF ExecInv

LEMMA ExecHaltsInv == ASSUME TypeOK, ExecInv, ExecHalts  PROVE ExecInv'
<1> USE DEF redisVars, wireVars, gateVars, histVars
<1>0. /\ Exec \in Fields /\ Exec = ks["exec"] /\ ks \in [Proc -> Fields] /\ "exec" \in Proc
      /\ job \in [Task -> Jobs] /\ "worker" \in Task /\ NoGen \in Nat /\ clock + 1 \in Nat
    BY DEF TypeOK, Exec, Proc, Task, NoGen
<1>1. CASE GuardHalt
    BY <1>0, <1>1, BeginExecHaltInv DEF GuardHalt, Task
<1>2. ASSUME NEW c \in cmds, TakeHalt(c)  PROVE ExecInv'
    <2>1. c.gen \in Nat /\ c.ts \in Nat  BY DEF TypeOK, Commands
    <2> QED BY <1>0, <1>2, <2>1, BeginExecHaltInv DEF TakeHalt, Task
<1>3. ASSUME NEW m \in net, ReceiveHalt(m)  PROVE ExecInv'
    <2>1. m.gen \in Nat /\ m.ts \in Nat  BY DEF TypeOK
    <2> QED BY <1>0, <1>3, <2>1, BeginExecHaltInv DEF ReceiveHalt, Task
<1>4. ASSUME NEW t \in Task, Announce(t)  PROVE ExecInv'
    <2>1. PICK deleted \in BOOLEAN, ok \in BOOLEAN, same \in BOOLEAN :
            /\ Publish("exec", "HALTING", job[t].gen, job[t].ts, {Exec.lastRun},
                       deleted, ok, same)
            /\ job' = [job EXCEPT ![t].pc = "drain", ![t].written = Outcome("exec", ok, same)]
            /\ ks' = [ks EXCEPT !["exec"] =
                        Published(@, "HALTING", job[t].gen, Outcome("exec", ok, same))]
        BY <1>4 DEF Announce
    <2>2. job[t].pc = "announce" /\ UNCHANGED <<fence, sub, ack>>  BY <1>4 DEF Announce
    <2>3. ~Running(redis) => ~Running(redis')  BY <2>1 DEF Publish, Record, Running
    <2>4. Exec'.phase = Exec.phase /\ Exec'.pub.written = Outcome("exec", ok, same)
        BY <1>0, <2>1 DEF Exec, Published, Fields
    <2>5. Outcome("exec", ok, same) => ~Running(redis') \/ job["worker"].pc = "apply"
        <3>1. CASE same
            BY <1>0, <2>1, <2>3, <3>1 DEF Publish, Outcome, ExecInv, WrittenIsHalted
        <3>2. CASE ~same
            BY <2>1, <3>2 DEF Publish, Outcome, Record, Running
        <3> QED BY <3>1, <3>2
    <2>6. job'["worker"].pc \in {"write", "apply"} => job'["worker"] = job["worker"]
        BY <1>0, <2>1
    <2>7. \A u \in Task : job'[u].cmd = job[u].cmd  BY <1>0, <2>1 DEF Jobs
    <2>8. FenceIsHeld' /\ HaltedIsFree' /\ AckedIsBlocked'
        BY <2>2, <2>4, <2>6, <2>7 DEF ExecInv, FenceIsHeld, HaltedIsFree, AckedIsBlocked, InGuard
    <2>9. job["worker"].pc = "apply" => job'["worker"] = job["worker"]  BY <1>0, <2>1, <2>2
    <2>10. job'["worker"].pc \in {"drain", "confirm"} /\ job'["worker"].written => ~Running(redis')
        <3>1. CASE t = "worker"
            BY <1>0, <2>1, <2>2, <2>5, <3>1 DEF Jobs
        <3>2. CASE t # "worker"
            BY <1>0, <2>1, <2>3, <3>2 DEF ExecInv, WrittenIsHalted
        <3> QED BY <3>1, <3>2
    <2>11. WrittenIsHalted'
        BY <2>2, <2>3, <2>4, <2>5, <2>9, <2>10 DEF ExecInv, WrittenIsHalted
    <2> QED BY <2>8, <2>11 DEF ExecInv
<1>5. ASSUME NEW t \in Task, Drain(t)  PROVE ExecInv'
    <2>1. /\ fence = NoSub /\ UNCHANGED <<redis, fence, sub, ack>> /\ job[t].pc = "drain"
          /\ job' = [job EXCEPT ![t].pc = "confirm", ![t].ts = clock + 1]
        BY <1>5 DEF Drain
    <2>2. Exec'.phase \in {Exec.phase, "HALTED"} /\ Exec'.pub = Exec.pub
        BY <1>0, <1>5 DEF Drain, Exec, MarkHaltEnforced, Fields
    <2>3. /\ \A u \in Task : job'[u].cmd = job[u].cmd /\ job'[u].written = job[u].written
          /\ job'["worker"].pc \in {"write", "apply"} => job'["worker"] = job["worker"]
          /\ job["worker"].pc = "apply" => job'["worker"] = job["worker"]
          /\ job'["worker"].pc \in {"drain", "confirm"} => job["worker"].pc \in {"drain", "confirm"}
        BY <1>0, <2>1 DEF Jobs
    <2>4. FenceIsHeld' /\ HaltedIsFree' /\ AckedIsBlocked'
        BY <2>1, <2>2, <2>3 DEF ExecInv, FenceIsHeld, HaltedIsFree, AckedIsBlocked, InGuard
    <2>5. WrittenIsHalted'  BY <1>0, <2>1, <2>2, <2>3 DEF ExecInv, WrittenIsHalted
    <2> QED BY <2>4, <2>5 DEF ExecInv
<1>6. ASSUME NEW t \in Task, Confirm(t)  PROVE ExecInv'
    <2>1. PICK deleted \in BOOLEAN, ok \in BOOLEAN, same \in BOOLEAN :
            /\ Publish("exec", "HALTED", job[t].gen, job[t].ts, {Exec.lastRun},
                       deleted, ok, same)
            /\ ks' = [ks EXCEPT !["exec"] =
                        Finished(t, Published(@, "HALTED", job[t].gen, Outcome("exec", ok, same)))]
            /\ ack' = Acknowledged(t, job[t].written \/ Outcome("exec", ok, same))
        BY <1>6 DEF Confirm
    <2>2. job[t].pc = "confirm" /\ UNCHANGED <<fence, sub>> /\ job' = [job EXCEPT ![t] = Idle]
        BY <1>6 DEF Confirm
    <2>3. ~Running(redis) => ~Running(redis')  BY <2>1 DEF Publish, Record, Running
    <2>4. Exec'.phase = Exec.phase /\ Exec'.pub.written = Outcome("exec", ok, same)
        <3>1. Published(ks["exec"], "HALTED", job[t].gen, Outcome("exec", ok, same)).pub.written
                = Outcome("exec", ok, same)
            BY <1>0 DEF Published, Fields
        <3>2. Exec' = Finished(t, Published(ks["exec"], "HALTED", job[t].gen,
                                            Outcome("exec", ok, same)))
            BY <1>0, <2>1 DEF Exec
        <3> QED BY <1>0, <3>1, <3>2 DEF Finished, Published, Fields, Later
    <2>5. Outcome("exec", ok, same) => ~Running(redis') \/ job["worker"].pc = "apply"
        <3>1. CASE same
            BY <1>0, <2>1, <2>3, <3>1 DEF Publish, Outcome, ExecInv, WrittenIsHalted
        <3>2. CASE ~same
            BY <2>1, <3>2 DEF Publish, Outcome, Record, Running
        <3> QED BY <3>1, <3>2
    <2>6. /\ \A u \in Task : job'[u].cmd = "halt" => job[u].cmd = "halt"
          /\ job'["worker"].pc # "idle" => job'["worker"] = job["worker"]
          /\ job["worker"].pc = "apply" => job'["worker"] = job["worker"]
        BY <1>0, <2>2 DEF Idle
    <2>7. ack' # ack =>
            /\ t = "worker" /\ Exec.phase = "HALTED"
            /\ ack' = "recorded" => job[t].written \/ Outcome("exec", ok, same)
        BY <2>1 DEF Acknowledged, ExecInv, AckedIsBlocked
    <2>8. FenceIsHeld' /\ HaltedIsFree'
        BY <2>2, <2>4 DEF ExecInv, FenceIsHeld, HaltedIsFree, InGuard
    <2>9. AckedIsBlocked'
        <3>1. CASE ack' = ack
            BY <2>2, <2>4, <2>6, <3>1 DEF ExecInv, AckedIsBlocked
        <3>2. CASE ack' # ack
            BY <1>0, <2>2, <2>4, <2>6, <2>7, <3>2 DEF ExecInv, AckedIsBlocked, HaltedIsFree, Idle
        <3> QED BY <3>1, <3>2
    <2>10. ack' = "recorded" => ~Running(redis')
        BY <2>2, <2>3, <2>5, <2>7 DEF ExecInv, WrittenIsHalted
    <2>11. WrittenIsHalted'
        BY <2>3, <2>4, <2>5, <2>6, <2>10 DEF ExecInv, WrittenIsHalted
    <2> QED BY <2>8, <2>9, <2>11 DEF ExecInv
<1> QED BY <1>1, <1>2, <1>3, <1>4, <1>5, <1>6 DEF ExecHalts

LEMMA ExecResumesInv == ASSUME TypeOK, ExecInv, ExecResumes  PROVE ExecInv'
<1> USE DEF redisVars, wireVars, gateVars, histVars
<1>0. /\ Exec \in Fields /\ Exec = ks["exec"] /\ ks \in [Proc -> Fields] /\ "exec" \in Proc
      /\ job \in [Task -> Jobs] /\ "worker" \in Task /\ NoGen \in Nat /\ clock + 1 \in Nat
    BY DEF TypeOK, Exec, Proc, Task, NoGen
<1>1. ASSUME NEW c \in cmds, TakeResume(c)  PROVE ExecInv'
    <2>1. /\ job["worker"].pc = "idle" /\ ack' = "none" /\ UNCHANGED <<redis, fence, sub>>
        BY <1>1 DEF TakeResume
    <2>2. /\ \A u \in Task : job'[u].cmd = "halt" => job[u].cmd = "halt"
          /\ job'["worker"].pc \notin {"drain", "confirm"}
        BY <1>0, <1>1, <2>1 DEF TakeResume, Idle
    <2>3. Exec'.pub = Exec.pub /\ (Exec'.phase = "HALTED" => Exec.phase = "HALTED")
        <3>1. \/ UNCHANGED ks
              \/ ks' = [ks EXCEPT !["exec"] = [Exec EXCEPT !.phase = "RESUMING",
                            !.gen = clock + 1, !.setAt = clock + 1]]
            BY <1>0, <1>1 DEF TakeResume
        <3>2. [Exec EXCEPT !.phase = "RESUMING", !.gen = clock + 1, !.setAt = clock + 1].pub
                = Exec.pub
            BY <1>0 DEF Fields
        <3>3. CASE UNCHANGED ks  BY <3>3 DEF Exec
        <3>4. CASE ks' = [ks EXCEPT !["exec"] = [Exec EXCEPT !.phase = "RESUMING",
                            !.gen = clock + 1, !.setAt = clock + 1]]
            <4>1. Exec' = [Exec EXCEPT !.phase = "RESUMING", !.gen = clock + 1,
                                       !.setAt = clock + 1]
                BY <1>0, <3>4 DEF Exec
            <4> QED BY <1>0, <3>2, <4>1 DEF Fields
        <3> QED BY <3>1, <3>3, <3>4
    <2>4. FenceIsHeld' /\ HaltedIsFree' /\ AckedIsBlocked'
        BY <2>1, <2>2, <2>3 DEF ExecInv, FenceIsHeld, HaltedIsFree, AckedIsBlocked, InGuard
    <2>5. WrittenIsHalted'  BY <2>1, <2>2, <2>3 DEF ExecInv, WrittenIsHalted
    <2> QED BY <2>4, <2>5 DEF ExecInv
<1>2. ASSUME NEW c \in cmds, RefuseResume(c)  PROVE ExecInv'
    BY <1>0, <1>2, BeginExecHaltInv DEF RefuseResume
<1>3. CASE WriteResume
    <2>1. job["worker"].pc = "write" /\ UNCHANGED <<fence, sub, ack>>
        BY <1>3 DEF WriteResume
    <2>2. ack = "none"  BY <2>1 DEF ExecInv, AckedIsBlocked
    <2>3. \A u \in Task : job'[u].cmd = "halt" => job[u].cmd = "halt"
        BY <1>0, <1>3 DEF WriteResume, Idle, Jobs
    <2>4. Exec'.pub = Exec.pub /\ (Exec'.phase = "HALTED" => Exec.phase = "HALTED")
        BY <1>0, <1>3 DEF WriteResume, LatchDegraded, Exec, Fields
    <2>5. \/ job'["worker"].pc = "apply"
          \/ job'["worker"].pc = "idle" /\ UNCHANGED redis
        BY <1>0, <1>3 DEF WriteResume, Idle, Jobs
    <2>6. FenceIsHeld' /\ HaltedIsFree' /\ AckedIsBlocked'
        BY <2>1, <2>2, <2>3, <2>4
        DEF ExecInv, FenceIsHeld, HaltedIsFree, AckedIsBlocked, InGuard
    <2>7. WrittenIsHalted'  BY <2>1, <2>2, <2>4, <2>5 DEF ExecInv, WrittenIsHalted
    <2> QED BY <2>6, <2>7 DEF ExecInv
<1>4. CASE ApplyResume
    <2>1. /\ job["worker"].pc = "apply" /\ UNCHANGED <<redis, fence, sub, ack>>
          /\ job' = [job EXCEPT !["worker"] = Idle]
        BY <1>4 DEF ApplyResume
    <2>2. ack = "none"  BY <2>1 DEF ExecInv, AckedIsBlocked
    <2>3. Exec'.phase = "RUNNING" /\ Exec'.pub.state = "RUNNING"
        BY <1>0, <1>4 DEF ApplyResume, Exec, ApplyRunning, Published, Fields, Later
    <2>4. /\ \A u \in Task : job'[u].cmd = "halt" => job[u].cmd = "halt"
          /\ job'["worker"].pc = "idle"
        BY <1>0, <2>1 DEF Idle
    <2>5. FenceIsHeld' /\ HaltedIsFree' /\ AckedIsBlocked'
        BY <2>1, <2>2, <2>3, <2>4
        DEF ExecInv, FenceIsHeld, HaltedIsFree, AckedIsBlocked, InGuard
    <2>6. WrittenIsHalted'  BY <2>1, <2>2, <2>3, <2>4 DEF ExecInv, WrittenIsHalted
    <2> QED BY <2>5, <2>6 DEF ExecInv
<1> QED BY <1>1, <1>2, <1>3, <1>4 DEF ExecResumes

LEMMA GateActsInv == ASSUME TypeOK, ExecInv, GateActs  PROVE ExecInv'
<1> USE DEF redisVars, wireVars, execVars, gateVars, histVars, NotGate
<1>0. ks \in [Proc -> Fields] /\ "exec" \in Proc /\ "gate" \in Proc /\ "exec" # "gate"
    BY DEF TypeOK, Proc
<1>1. CASE GateAnnounce
    <2>1. ks'["exec"] = ks["exec"] /\ UNCHANGED <<execVars, ack>>
        BY <1>0, <1>1 DEF GateAnnounce
    <2>2. ~Running(redis) => ~Running(redis')
        BY <1>1 DEF GateAnnounce, Publish, Record, Running
    <2> QED BY <2>1, <2>2, ExecFrame
<1>2. CASE OperatorHalt \/ OperatorResume \/ ActivateRead \/ Activate \/ ApplyNotice
           \/ \E m \in net : ReceiveAtGate(m) \/ ReceiveRunning(m)
    <2>1. ks'["exec"] = ks["exec"] /\ UNCHANGED <<execVars, ack, redis>>
        BY <1>0, <1>2 DEF OperatorHalt, OperatorResume, ActivateRead, Activate, GateRuns,
            ApplyNotice, ReceiveAtGate, ReceiveRunning
    <2> QED BY <2>1, ExecFrame
<1> QED BY <1>1, <1>2 DEF GateActs

LEMMA RenewsInv == ASSUME TypeOK, ExecInv, Renews  PROVE ExecInv'
<1>0. ks \in [Proc -> Fields] /\ "exec" \in Proc /\ "gate" \in Proc /\ "exec" # "gate"
    BY DEF TypeOK, Proc
<1>1. ks'["exec"] = ks["exec"] /\ UNCHANGED <<execVars, ack, redis>>
    BY <1>0 DEF Renews, StartRenewal, RenewalUnread, RenewalRefused, RenewalChecked, RenewalSet,
        RenewalError, LoopRevokes, NotGate, redisVars, execVars
<1> QED BY <1>1, ExecFrame

LEMMA EnvironmentInv == ASSUME TypeOK, ExecInv, Environment  PROVE ExecInv'
<1> USE DEF redisVars, wireVars, execVars, gateVars, histVars
<1>0. /\ ks \in [Proc -> Fields] /\ "exec" \in Proc /\ "gate" \in Proc /\ "exec" # "gate"
      /\ "worker" \in Task
    BY DEF TypeOK, Proc, Task
<1>1. CASE RestartExec
    <2>1. PICK r \in {redis, Failed} : ks' = [ks EXCEPT !["exec"] = Bootstrap("exec", r)]
        BY <1>1 DEF RestartExec, Restarted
    <2>2. r \in Reads  BY DEF TypeOK, Reads
    <2>3. Exec'.pub.state = "NONE" /\ (~Running(r) => Exec'.phase # "RUNNING")
        BY <1>0, <2>1, <2>2, BootstrapPhase DEF Exec
    <2>4. ~Running(redis) => ~Running(r)  BY DEF Running
    <2>5. /\ fence' = NoSub /\ sub' = Still /\ job' = Clear /\ UNCHANGED redis
          /\ ack' = IF ack = "local" THEN "none" ELSE ack
        BY <1>1 DEF RestartExec
    <2>6. ack' # "none" => ack = "recorded" /\ ack' = "recorded"  BY <2>5 DEF TypeOK
    <2>7. FenceIsHeld' /\ HaltedIsFree'
        BY <2>5 DEF FenceIsHeld, HaltedIsFree, InGuard, Still, Resting
    <2>8. \A u \in Task : job'[u].cmd = "none" /\ job'[u].pc = "idle"
        BY <2>5 DEF Clear, Idle
    <2>9. AckedIsBlocked'
        BY <1>0, <2>3, <2>4, <2>5, <2>6, <2>8 DEF ExecInv, AckedIsBlocked, WrittenIsHalted
    <2>10. WrittenIsHalted'
        BY <1>0, <2>3, <2>5, <2>6, <2>8 DEF ExecInv, WrittenIsHalted
    <2> QED BY <2>7, <2>9, <2>10 DEF ExecInv
<1>2. CASE RestartGate \/ RecordExpires \/ \E gen \in leases : LeaseExpires(gen)
    <2>1. ks'["exec"] = ks["exec"] /\ UNCHANGED <<execVars, ack>>
        BY <1>0, <1>2 DEF RestartGate, Restarted, RecordExpires, LeaseExpires
    <2>2. ~Running(redis) => ~Running(redis')
        BY <1>2 DEF RestartGate, RecordExpires, LeaseExpires, Running
    <2> QED BY <2>1, <2>2, ExecFrame
<1> QED BY <1>1, <1>2 DEF Environment

(* The execution process's part of the invariant is inductive.             *)
LEMMA NextExecInv == TypeOK /\ ExecInv /\ [Next]_vars => ExecInv'
<1> SUFFICES ASSUME TypeOK, ExecInv, [Next]_vars  PROVE ExecInv'  OBVIOUS
<1>1. CASE UNCHANGED vars
    BY <1>1 DEF vars, ExecInv, FenceIsHeld, InGuard, HaltedIsFree, AckedIsBlocked,
        WrittenIsHalted, Exec
<1>2. CASE Next
    BY <1>2, SubmitInv, ExecHaltsInv, ExecResumesInv, GateActsInv, RenewsInv, EnvironmentInv
    DEF Next
<1> QED BY <1>1, <1>2

------------------------------------------------------------------------------
(* The gateway's part: whatever the execution process does, and every step *)
(* of the gateway.                                                         *)
LEMMA NextRevokedIsSafe == TypeOK /\ RevokedIsSafe /\ [Next]_vars => RevokedIsSafe'
<1> SUFFICES ASSUME TypeOK, RevokedIsSafe, [Next]_vars  PROVE RevokedIsSafe'  OBVIOUS
<1> USE DEF redisVars, wireVars, execVars, gateVars, histVars, NotGate
<1>0. /\ ks \in [Proc -> Fields] /\ "exec" \in Proc /\ "gate" \in Proc /\ "exec" # "gate"
      /\ Gate \in Fields /\ Gate = ks["gate"] /\ NoGen \in Nat /\ clock + 1 \in Nat
    BY DEF TypeOK, Proc, Gate, NoGen
<1>1. CASE UNCHANGED vars  BY <1>1, GateFrame DEF vars
<1>2. ASSUME NEW s \in Sub, Submit(s)  PROVE RevokedIsSafe'
    <2>1. ks'["gate"] = ks["gate"] /\ UNCHANGED <<renew, revoked, leases>>
        BY <1>0, <1>2 DEF Submit, Admit, EnterGuard, ReadAuthority, CheckAuthority, ReadLease,
            NoPermission, Placed, NotSubmitting
    <2> QED BY <2>1, GateFrame
<1>3. CASE ExecHalts
    <2>1. ks'["gate"] = ks["gate"] /\ UNCHANGED <<renew, revoked>>
        BY <1>0, <1>3 DEF ExecHalts, GuardHalt, TakeHalt, ReceiveHalt, BeginExecHalt, Announce,
            Drain, Confirm
    <2>2. leases' \subseteq leases
        <3>1. GuardHalt => UNCHANGED leases  BY DEF GuardHalt
        <3>2. \A c \in cmds : TakeHalt(c) => UNCHANGED leases  BY DEF TakeHalt
        <3>3. \A m \in net : ReceiveHalt(m) => UNCHANGED leases  BY DEF ReceiveHalt
        <3>4. ASSUME NEW t \in Task, Announce(t)  PROVE leases' \subseteq leases
            BY <3>4 DEF Announce, Publish
        <3>5. ASSUME NEW t \in Task, Drain(t)  PROVE leases' \subseteq leases
            BY <3>5 DEF Drain
        <3>6. ASSUME NEW t \in Task, Confirm(t)  PROVE leases' \subseteq leases
            BY <3>6 DEF Confirm, Publish
        <3> QED BY <1>3, <3>1, <3>2, <3>3, <3>4, <3>5, <3>6 DEF ExecHalts
    <2> QED BY <2>1, <2>2, GateFrame
<1>4. CASE ExecResumes
    <2>1. ks'["gate"] = ks["gate"] /\ UNCHANGED <<renew, revoked, leases>>
        BY <1>0, <1>4 DEF ExecResumes, TakeResume, RefuseResume, BeginExecHalt, WriteResume,
            ApplyResume
    <2> QED BY <2>1, GateFrame
<1>5. CASE OperatorHalt
    <2>1. BeginHalt(Gate, NoGen, clock + 1).phase # "RUNNING"  BY <1>0, BeginHaltPhase
    <2>2. Gate'.phase # "RUNNING"  BY <1>0, <1>5, <2>1 DEF OperatorHalt, Gate
    <2> QED BY <1>5, <2>2 DEF OperatorHalt, RevokedIsSafe
<1>6. CASE GateAnnounce
    <2>1. renew.pc = "idle" /\ UNCHANGED renew  BY <1>6 DEF GateAnnounce
    <2>2. Gate'.phase = Gate.phase  BY <1>0, <1>6 DEF GateAnnounce, Gate, Published, Fields
    <2>3. PICK deleted \in BOOLEAN :
            /\ leases' = IF deleted THEN leases \ Revocable ELSE leases
            /\ revoked' = IF deleted /\ ~Eligible THEN Gate.lastRun ELSE revoked
        BY <1>6 DEF GateAnnounce, Publish
    <2> QED BY <2>1, <2>2, <2>3 DEF RevokedIsSafe, Revocable, Eligible
<1>7. CASE OperatorResume \/ ActivateRead \/ \E m \in net : ReceiveRunning(m)
    <2>1. ks'["gate"] = ks["gate"] /\ UNCHANGED <<renew, revoked, leases>>
        BY <1>7 DEF OperatorResume, ActivateRead, ReceiveRunning
    <2> QED BY <2>1, GateFrame
<1>8. CASE Activate \/ ApplyNotice
    <2>1. \/ revoked' = NoGen
          \/ Gate'.phase # "RUNNING" /\ UNCHANGED <<renew, revoked, leases>>
        BY <1>0, <1>8 DEF Activate, ApplyNotice, GateRuns, LatchDegraded, Gate, Fields
    <2> QED BY <2>1 DEF RevokedIsSafe
<1>9. ASSUME NEW m \in net, ReceiveAtGate(m)  PROVE RevokedIsSafe'
    <2> DEFINE k == BeginHalt(Gate, m.gen, m.ts)
    <2>1. m.gen \in Nat /\ m.ts \in Nat  BY DEF TypeOK
    <2>2. k.phase # "RUNNING" /\ k \in Fields  BY <1>0, <2>1, BeginHaltPhase, BeginHaltType
    <2>3. ks' = [ks EXCEPT !["gate"] =
                [k EXCEPT !.phase = IF m.state = "HALTED" THEN "HALTED" ELSE @,
                          !.applied = Later(@, m.ts),
                          !.pub.state = m.state, !.pub.gen = m.gen]]
        BY <1>9 DEF ReceiveAtGate
    <2> HIDE DEF k
    <2>4. Gate'.phase # "RUNNING"  BY <1>0, <2>2, <2>3 DEF Gate, Fields
    <2> QED BY <1>9, <2>4 DEF ReceiveAtGate, RevokedIsSafe
<1>10. CASE StartRenewal
    BY <1>10 DEF StartRenewal, RevokedIsSafe, Eligible
<1>11. CASE RenewalUnread
    <2>1. Gate'.phase = "RUNNING" => Gate.phase = "RUNNING"
        BY <1>0, <1>11 DEF RenewalUnread, RenewalError, LatchDegraded, Gate, Fields
    <2> QED BY <1>11, <2>1 DEF RenewalUnread, RevokedIsSafe, Unlocked
<1>12. CASE RenewalRefused
    <2> DEFINE r == renew.seen
               k == IF Halted(r) THEN AdoptHalt(Gate, r) ELSE Gate
    <2>1. k \in Fields /\ (k.phase = "RUNNING" => Gate.phase = "RUNNING")
        <3>1. r \in Records  BY <1>12 DEF RenewalRefused, TypeOK, Reads
        <3> QED BY <1>0, <3>1, AdoptHaltPhase, AdoptHaltType DEF Halted
    <2>2. ks' = [ks EXCEPT !["gate"] = k] \/ RenewalError(k)  BY <1>12 DEF RenewalRefused
    <2> HIDE DEF k
    <2>3. Gate'.phase = "RUNNING" => Gate.phase = "RUNNING"
        BY <1>0, <2>1, <2>2 DEF RenewalError, LatchDegraded, Gate, Fields
    <2>4. leases' \subseteq leases /\ UNCHANGED revoked /\ renew' = Unlocked
        BY <1>12 DEF RenewalRefused, Delete
    <2> QED BY <2>3, <2>4 DEF RevokedIsSafe, Unlocked
<1>13. CASE RenewalChecked
    BY <1>13 DEF RenewalChecked, RevokedIsSafe, Eligible
<1>14. CASE RenewalSet
    BY <1>14 DEF RenewalSet, RevokedIsSafe
<1>15. CASE LoopRevokes \/ RecordExpires \/ \E gen \in leases : LeaseExpires(gen)
    <2>1. ks'["gate"] = ks["gate"] /\ UNCHANGED <<renew, revoked>> /\ leases' \subseteq leases
        BY <1>15 DEF LoopRevokes, RecordExpires, LeaseExpires
    <2> QED BY <2>1, GateFrame
<1>16. CASE RestartExec
    <2>1. ks'["gate"] = ks["gate"] /\ UNCHANGED <<renew, revoked, leases>>
        BY <1>0, <1>16 DEF RestartExec, Restarted
    <2> QED BY <2>1, GateFrame
<1>17. CASE RestartGate
    BY <1>17 DEF RestartGate, RevokedIsSafe
<1> QED BY <1>1, <1>2, <1>3, <1>4, <1>5, <1>6, <1>7, <1>8, <1>9, <1>10, <1>11, <1>12, <1>13,
           <1>14, <1>15, <1>16, <1>17 DEF Next, GateActs, Renews, Environment

LEMMA InitIInv == Init => ExecInv /\ RevokedIsSafe
<1> SUFFICES ASSUME Init  PROVE ExecInv /\ RevokedIsSafe  OBVIOUS
<1>0. "exec" \in Proc /\ "worker" \in Task  BY DEF Proc, Task
<1>1. TypeOK  BY InitTypeOK
<1>2. Exec.pub.state = "NONE"
    <2>1. redis \in Reads  BY <1>1 DEF TypeOK, Reads
    <2> QED BY <1>0, <2>1, BootstrapPhase DEF Init, Exec
<1>3. FenceIsHeld /\ HaltedIsFree
    BY DEF Init, FenceIsHeld, HaltedIsFree, InGuard, Still, Resting
<1>4. AckedIsBlocked /\ WrittenIsHalted
    BY <1>0, <1>2 DEF Init, AckedIsBlocked, WrittenIsHalted, Clear, Idle
<1>5. RevokedIsSafe  BY DEF Init, RevokedIsSafe
<1> QED BY <1>3, <1>4, <1>5 DEF ExecInv

(* The whole invariant holds in every reachable state.                     *)
THEOREM KillSwitchInvariant == Spec => []IInv
<1>1. Init => IInv  BY InitTypeOK, InitIInv DEF IInv, ExecInv
<1>2. IInv /\ [Next]_vars => IInv'
    BY NextTypeOK, NextExecInv, NextRevokedIsSafe DEF IInv, ExecInv
<1> QED BY <1>1, <1>2, PTL DEF Spec

(* HALTED at the execution process means that no submission is anywhere    *)
(* inside the guard: the fence was drained, and nothing has entered since. *)
THEOREM HaltDrains == Spec => []HaltedMeansDrained
<1>1. IInv => HaltedMeansDrained
    BY NullAssumption DEF IInv, FenceIsHeld, HaltedIsFree, HaltedMeansDrained, Exec
<1> QED BY <1>1, KillSwitchInvariant, PTL

(* After a halt was acknowledged to the operator no submission passes the  *)
(* guard until a resume is taken up, through Redis faults, and through     *)
(* restarts when the acknowledgement said that the record was written.     *)
THEOREM AcknowledgedHalt == Spec => []AcknowledgedHaltHolds
<1>1. IInv => AcknowledgedHaltHolds
    BY NullAssumption
    DEF IInv, FenceIsHeld, InGuard, AckedIsBlocked, AcknowledgedHaltHolds, PastAuthority
<1> QED BY <1>1, KillSwitchInvariant, PTL

(* A renewal under way when the gateway halts never writes the lease that  *)
(* the halt deletes.                                                       *)
THEOREM RevocationIsFinal == Spec => []RevokedStaysRevoked
<1>1. IInv => RevokedStaysRevoked  BY DEF IInv, RevokedIsSafe, RevokedStaysRevoked
<1> QED BY <1>1, KillSwitchInvariant, PTL

==============================================================================
