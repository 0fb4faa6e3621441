------------------------ MODULE RoleOwnershipProofs ------------------------
(***************************************************************************)
(* Proofs about the ownership of a role, for any number of instances, any  *)
(* deadlines that meet OwnershipConstants, any lateness of the watchdog up *)
(* to Slack, any delay of Redis and any number of losses of the key.       *)
(***************************************************************************)
EXTENDS RoleOwnership, TLAPS

(* Which request an instance can be waiting for.                           *)
OpsFit ==
    \A i \in Instance :
        /\ op[i].kind = "claim" <=> stage[i] = "claiming"
        /\ op[i].kind = "refresh" =>
               stage[i] \in {"quarantine", "building", "built", "handover", "ready"}
        /\ op[i].kind = "promote" => stage[i] = "promoting"
        /\ op[i].kind = "delete" => stage[i] = "released"
        /\ op[i].kind = "none" => op[i].result = "none"
        /\ ending[i] # "no" => stage[i] \in Watched \cup {"released"}
        /\ ending[i] # "no" /\ stage[i] \in Watched => op[i].kind = "none"

(* A claim or a delete is given up only by an instance that has ended.     *)
StraysFit ==
    \A r \in stray : r.kind \in {"claim", "delete"} => stage[r.by] = "gone"

QuarantineFirst == \A i \in Instance : AtWork(i) => quar[i] = 0

(* Redis has given the role to the instance, and it may come to work.      *)
Claimed(i) ==
    \/ stage[i] \in Watched
    \/ stage[i] = "claiming" /\ op[i].result = "yes" /\ op[i].age < TTL - Guard

(* How long the instance will not work for.                                *)
Waits(i) == IF stage[i] = "claiming" THEN Quarantine ELSE quar[i]

(* The instance ends within fewer than n ticks, unless Redis runs one of   *)
(* its requests again.                                                     *)
EndsWithin(i, n) ==
    /\ stage[i] \in Watched => left[i] + Slack < n
    /\ op[i].result = "yes" => TTL - Guard - op[i].age + Slack < n

(* Of two instances that had the role one ends before the other works.     *)
OneOutwaits ==
    \A i, j \in Instance :
        i # j /\ Claimed(i) /\ Claimed(j) => EndsWithin(j, Waits(i)) \/ EndsWithin(i, Waits(j))

(* The owner of the key outwaits all others.                               *)
OwnerOutwaits ==
    \A i, j \in Instance :
        i # j /\ Claimed(i) /\ Claimed(j) /\ key.owner = i => EndsWithin(j, Waits(i))

(* Until the key is lost, whoever has been given the role holds the key    *)
(* for longer than its watchdog lets it live.                              *)
KeyOutlives ==
    losses = 0 =>
        \A i \in Instance : Claimed(i) =>
            /\ key.owner = i
            /\ stage[i] \in Watched => key.ttl > left[i] + Slack
            /\ op[i].result = "yes" => key.ttl >= TTL - op[i].age

IInv == TypeOK /\ OpsFit /\ StraysFit /\ QuarantineFirst /\ OneOutwaits /\ OwnerOutwaits
        /\ KeyOutlives

------------------------------------------------------------------------------
(* The constants, one by one.                                              *)
LEMMA Constants ==
    /\ TTL \in Nat /\ Margin \in Nat /\ Grace \in Nat /\ Guard \in Nat
    /\ Provisioning \in Nat /\ Quarantine \in Nat /\ Slack \in Nat /\ MaxLosses \in Nat
    /\ TTL > 0 /\ Grace > 0 /\ Guard > 0 /\ Provisioning > Grace /\ Quarantine > 0
    /\ Margin < TTL /\ Guard + Grace <= Margin /\ Slack < Guard
    /\ TTL - Guard + Slack < Quarantine
    /\ None \notin Instance
BY OwnershipConstants

(* The type of an instance's part of the state.                            *)
LEMMA InstanceTypes ==
    ASSUME TypeOK, NEW i \in Instance
    PROVE  /\ stage[i] \in Stages /\ ending[i] \in {"no", "shutdown", "fatal"}
           /\ left[i] \in Int /\ -Slack <= left[i] /\ left[i] <= TTL - Guard
           /\ exp[i] \in Nat /\ exp[i] <= TTL
           /\ prov[i] \in Nat /\ prov[i] <= Provisioning
           /\ quar[i] \in Nat /\ quar[i] <= Quarantine
           /\ op[i] \in Ops /\ op[i].kind \in Kinds /\ op[i].phase \in Phases
           /\ op[i].result \in {"none", "yes", "no"}
           /\ op[i].age \in Nat /\ op[i].age <= TTL
BY Constants DEF TypeOK, Ops

(* A longer time is enough where a shorter one is.                         *)
LEMMA EndsWithinGrows ==
    ASSUME TypeOK, NEW i \in Instance, NEW m \in Int, NEW n \in Int, m <= n, EndsWithin(i, m)
    PROVE  EndsWithin(i, n)
BY InstanceTypes, Constants DEF EndsWithin

LEMMA WaitsType ==
    ASSUME TypeOK, NEW i \in Instance
    PROVE  Waits(i) \in Nat /\ Waits(i) <= Quarantine
BY InstanceTypes, Constants DEF Waits

(* Every instance that had the role ends before a new quarantine is over.  *)
LEMMA QuarantineIsEnough ==
    ASSUME TypeOK, NEW i \in Instance
    PROVE  EndsWithin(i, Quarantine)
BY InstanceTypes, Constants DEF EndsWithin

(* An instance that may come to work has not ended.                        *)
LEMMA ClaimedLives ==
    ASSUME TypeOK, NEW i \in Instance, Claimed(i), NEW n \in Int, EndsWithin(i, n)
    PROVE  n > 0
BY InstanceTypes, Constants DEF Claimed, EndsWithin

(* A step that gives nobody the role or more time, and shortens no wait,   *)
(* keeps the order among the instances.                                    *)
LEMMA CalmStep ==
    ASSUME TypeOK, TypeOK', OneOutwaits, OwnerOutwaits,
           \A i \in Instance : Claimed(i)' => Claimed(i) /\ Waits(i) <= Waits(i)',
           \A i \in Instance : \A n \in Int :
               Claimed(i)' /\ EndsWithin(i, n) => EndsWithin(i, n)',
           \A i \in Instance : Claimed(i)' /\ key'.owner = i => key.owner = i
    PROVE  OneOutwaits' /\ OwnerOutwaits'
<1>1. \A i \in Instance : Waits(i) \in Int  BY WaitsType
<1>2. \A i \in Instance : Waits(i)' \in Int  BY Constants DEF TypeOK, Waits
<1>3. ASSUME NEW i \in Instance, NEW j \in Instance, Claimed(i)', Claimed(j)',
             EndsWithin(j, Waits(i))
      PROVE  EndsWithin(j, Waits(i))'
    <2>1. PICK n \in Int : n = Waits(i)'  BY <1>2
    <2>2. EndsWithin(j, n)  BY <1>1, <1>3, <2>1, EndsWithinGrows
    <2>3. EndsWithin(j, n)'  BY <1>3, <2>2
    <2> QED BY <2>1, <2>3 DEF EndsWithin
<1>4. OneOutwaits'  BY <1>3 DEF OneOutwaits
<1>5. OwnerOutwaits'  BY <1>3 DEF OwnerOutwaits
<1> QED BY <1>4, <1>5

------------------------------------------------------------------------------
(* Facts about one step.                                                   *)

LEMMA AbandonedType ==
    ASSUME TypeOK, NEW i \in Instance
    PROVE  /\ Abandoned(i) \subseteq Requests
           /\ \A r \in Abandoned(i) : r.by = i /\ r.kind = op[i].kind
BY InstanceTypes DEF Abandoned, Requests

LEMMA EndsKeeps ==
    ASSUME IInv, NEW i \in Instance, Ends(i)
    PROVE  IInv'
<1> USE DEF IInv
<1>1. TypeOK'
    <2>1. stray' \subseteq Requests  BY AbandonedType DEF Ends, TypeOK
    <2> QED BY <2>1, Constants DEF Ends, TypeOK, Stages, NoOp, Sent, Ops, Kinds, Phases
<1>2. OpsFit'  BY DEF Ends, TypeOK, OpsFit, NoOp, Sent, Watched
<1>3. StraysFit'
    <2>1. ASSUME NEW r \in stray', r.kind \in {"claim", "delete"}  PROVE stage'[r.by] = "gone"
        <3>1. CASE r \in stray
            <4>1. r.by \in Instance /\ stage[r.by] = "gone"
                BY <2>1, <3>1 DEF StraysFit, TypeOK, Requests
            <4> QED BY <4>1 DEF Ends, TypeOK
        <3>2. CASE r \in Abandoned(i)  BY <3>2, AbandonedType DEF Ends, TypeOK
        <3> QED BY <3>1, <3>2 DEF Ends
    <2> QED BY <2>1 DEF StraysFit
<1>4. QuarantineFirst'  BY DEF Ends, TypeOK, QuarantineFirst, AtWork, Watched
<1>5. \A j \in Instance : Claimed(j)' => j # i /\ Claimed(j)
    BY DEF Ends, TypeOK, Claimed, Watched
<1>6. \A j \in Instance : j # i => Waits(j)' = Waits(j)
                                 /\ \A n \in Int : EndsWithin(j, n)' <=> EndsWithin(j, n)
    BY DEF Ends, TypeOK, Waits, EndsWithin
<1>7. OneOutwaits' /\ OwnerOutwaits'
    BY <1>1, <1>5, <1>6, CalmStep, WaitsType DEF Ends
<1>8. KeyOutlives'  BY <1>5 DEF Ends, TypeOK, KeyOutlives
<1> QED BY <1>1, <1>2, <1>3, <1>4, <1>7, <1>8

LEMMA TightensKeeps ==
    ASSUME IInv, NEW i \in Instance, NEW how \in {"shutdown", "fatal"}, Tightens(i, how)
    PROVE  IInv'
<1> USE DEF IInv
<1>0. left'[i] \in Int /\ left'[i] <= left[i] /\ -Slack <= left'[i]
    BY InstanceTypes, Constants DEF Tightens, TypeOK, Least
<1>1. TypeOK'
    <2>1. stray' \subseteq Requests  BY AbandonedType DEF Tightens, TypeOK
    <2>2. left' \in [Instance -> -Slack .. TTL - Guard]
        BY <1>0, Constants, InstanceTypes DEF Tightens, TypeOK
    <2> QED BY <2>1, <2>2, Constants DEF Tightens, TypeOK, Stages, NoOp, Sent, Ops, Kinds, Phases
<1>2. OpsFit'  BY DEF Tightens, TypeOK, OpsFit, NoOp, Sent, Watched
<1>3. StraysFit'
    <2>1. op[i].kind \notin {"claim", "delete"}  BY DEF OpsFit, Tightens, Watched
    <2> QED BY <2>1, AbandonedType DEF Tightens, StraysFit
<1>4. QuarantineFirst'  BY DEF Tightens, TypeOK, QuarantineFirst, AtWork
<1>5. \A j \in Instance : Claimed(j)' => Claimed(j)
    BY DEF Tightens, TypeOK, Claimed, NoOp, Sent
<1>6. \A j \in Instance : Waits(j)' = Waits(j)  BY DEF Tightens, Waits
<1>7. \A j \in Instance : \A n \in Int : EndsWithin(j, n) => EndsWithin(j, n)'
    BY <1>0, InstanceTypes, Constants DEF Tightens, TypeOK, EndsWithin, NoOp, Sent
<1>8. OneOutwaits' /\ OwnerOutwaits'
    BY <1>1, <1>5, <1>6, <1>7, CalmStep, WaitsType DEF Tightens
<1>9. KeyOutlives'
    BY <1>0, <1>5, InstanceTypes, Constants DEF Tightens, TypeOK, KeyOutlives, NoOp, Sent
<1> QED BY <1>1, <1>2, <1>3, <1>4, <1>8, <1>9

------------------------------------------------------------------------------
(* Redis.                                                                  *)

(* What a request can do to the key.                                       *)
LEMMA KeyChanges ==
    ASSUME TypeOK, NEW r \in Requests, Succeeds(r)
    PROVE  /\ KeyAfter(r) \in [owner : Instance \cup {None}, phase : Phases, ttl : 0 .. TTL]
           /\ r.kind = "claim" =>
                 key.owner = None /\ KeyAfter(r).owner = r.by /\ KeyAfter(r).ttl = TTL
           /\ r.kind \in {"refresh", "promote"} =>
                 key.owner = r.by /\ KeyAfter(r).owner = r.by /\ KeyAfter(r).ttl = TTL
           /\ r.kind = "delete" => key.owner = r.by /\ KeyAfter(r).owner = None
           /\ r.kind = "none" => KeyAfter(r) = key
<1>1. key.owner \in Instance \cup {None} /\ key.phase \in Phases /\ key.ttl \in 0 .. TTL
    BY DEF TypeOK
<1>2. r.by \in Instance /\ r.kind \in Kinds /\ r.phase \in Phases  BY DEF Requests
<1>3. key = [owner |-> key.owner, phase |-> key.phase, ttl |-> key.ttl]  BY DEF TypeOK
<1>4. CASE r.kind = "claim"
    BY <1>2, <1>4, Constants DEF Succeeds, KeyAfter, Phases
<1>5. CASE r.kind = "refresh"
    <2>1. KeyAfter(r) = [owner |-> key.owner, phase |-> key.phase, ttl |-> TTL]
        BY <1>3, <1>5 DEF KeyAfter
    <2> QED BY <1>1, <1>5, <2>1, Constants DEF Succeeds, Matches
<1>6. CASE r.kind = "promote"
    <2>1. KeyAfter(r) = [owner |-> key.owner, phase |-> "READY", ttl |-> TTL]
        BY <1>3, <1>6 DEF KeyAfter
    <2> QED BY <1>1, <1>6, <2>1, Constants DEF Succeeds, Matches, Phases
<1>7. CASE r.kind = "delete"
    BY <1>7, Constants DEF Succeeds, Matches, KeyAfter, Free, Phases
<1>8. CASE r.kind = "none"
    BY <1>8 DEF KeyAfter, TypeOK
<1> QED BY <1>2, <1>4, <1>5, <1>6, <1>7, <1>8 DEF Kinds

LEMMA RedisRunsKeeps ==
    ASSUME IInv, NEW i \in Instance, RedisRuns(i)
    PROVE  IInv'
<1> USE DEF IInv
<1> DEFINE r == [by |-> i, kind |-> op[i].kind, phase |-> op[i].phase]
<1>r. /\ r \in Requests /\ r.by = i /\ r.kind = op[i].kind
      /\ key' = IF Succeeds(r) THEN KeyAfter(r) ELSE key
      /\ op' = [op EXCEPT ![i].result = IF Succeeds(r) THEN "yes" ELSE "no"]
    BY InstanceTypes DEF RedisRuns, Requests
<1> HIDE DEF r
<1>o. /\ \A j \in Instance : j # i => op'[j] = op[j]
      /\ op'[i].kind = op[i].kind /\ op'[i].age = op[i].age /\ op'[i].phase = op[i].phase
      /\ op'[i].result = IF Succeeds(r) THEN "yes" ELSE "no"
    BY <1>r, InstanceTypes DEF TypeOK, Ops
<1>1. TypeOK'
    <2>1. op' \in [Instance -> Ops]  BY <1>r, <1>o DEF TypeOK, Ops
    <2>2. key' \in [owner : Instance \cup {None}, phase : Phases, ttl : 0 .. TTL]
        BY <1>r, KeyChanges DEF TypeOK
    <2> QED BY <2>1, <2>2 DEF RedisRuns, TypeOK, timers
<1>2. OpsFit'  BY <1>o DEF RedisRuns, OpsFit, timers
<1>3. StraysFit' /\ QuarantineFirst'
    BY DEF RedisRuns, StraysFit, QuarantineFirst, AtWork, timers
<1>4. \A j \in Instance : /\ stage'[j] = stage[j] /\ left'[j] = left[j]
                            /\ Waits(j)' = Waits(j)
    BY DEF RedisRuns, Waits, timers
<1>5. \A j \in Instance : j # i => /\ Claimed(j)' <=> Claimed(j)
                                  /\ \A n \in Int : EndsWithin(j, n)' <=> EndsWithin(j, n)
    BY <1>o, <1>4 DEF RedisRuns, Claimed, EndsWithin, timers
<1>6. CASE ~Succeeds(r)
    <2>1. \A j \in Instance : /\ Claimed(j)' => Claimed(j)
                              /\ \A n \in Int : EndsWithin(j, n) => EndsWithin(j, n)'
        BY <1>o, <1>4, <1>5, <1>6 DEF RedisRuns, Claimed, EndsWithin, timers
    <2>2. OneOutwaits' /\ OwnerOutwaits'
        BY <1>1, <1>4, <1>6, <1>r, <2>1, CalmStep, WaitsType
    <2>3. KeyOutlives'
        BY <1>o, <1>r, <1>4, <1>6, <2>1 DEF RedisRuns, KeyOutlives, timers
    <2> QED BY <1>1, <1>2, <1>3, <2>2, <2>3
<1>7. CASE Succeeds(r) /\ op[i].kind \in {"claim", "refresh", "promote"}
    <2>1. key'.owner = i /\ key'.ttl = TTL  BY <1>7, <1>r, KeyChanges
    <2>2. \A j \in Instance : j # i /\ Claimed(i)' /\ Claimed(j)' => EndsWithin(j, Waits(i))'
        <3> SUFFICES ASSUME NEW j \in Instance, j # i, Claimed(i)', Claimed(j)'
                     PROVE  EndsWithin(j, Waits(i))'
            OBVIOUS
        <3>1. Claimed(j)  BY <1>5
        <3>2. CASE op[i].kind = "claim"
            <4>1. Waits(i) = Quarantine  BY <3>2 DEF OpsFit, Waits
            <4>2. EndsWithin(j, Waits(i))  BY <4>1, QuarantineIsEnough
            <4> QED BY <1>o, <1>4, <4>2 DEF EndsWithin
        <3>3. CASE op[i].kind \in {"refresh", "promote"}
            <4>1. key.owner = i  BY <1>7, <1>r, <3>3, KeyChanges
            <4>2. stage[i] \in Watched  BY <3>3 DEF OpsFit, Watched
            <4>3. EndsWithin(j, Waits(i))  BY <3>1, <4>1, <4>2 DEF OwnerOutwaits, Claimed
            <4> QED BY <1>o, <1>4, <4>3 DEF EndsWithin
        <3> QED BY <1>7, <3>2, <3>3
    <2>3. OneOutwaits'
        <3> SUFFICES ASSUME NEW j \in Instance, NEW k \in Instance, j # k, Claimed(j)', Claimed(k)'
                     PROVE  EndsWithin(k, Waits(j))' \/ EndsWithin(j, Waits(k))'
            BY DEF OneOutwaits
        <3>1. CASE j # i /\ k # i
            BY <1>o, <1>4, <1>5, <3>1 DEF OneOutwaits, EndsWithin
        <3>2. CASE j = i \/ k = i  BY <2>2, <3>2
        <3> QED BY <3>1, <3>2
    <2>4. OwnerOutwaits'  BY <2>1, <2>2 DEF OwnerOutwaits
    <2>5. KeyOutlives'
        <3> SUFFICES ASSUME losses = 0, NEW j \in Instance, Claimed(j)'
                     PROVE  /\ key'.owner = j
                            /\ stage'[j] \in Watched => key'.ttl > left'[j] + Slack
                            /\ op'[j].result = "yes" => key'.ttl >= TTL - op'[j].age
            BY DEF KeyOutlives, RedisRuns
        <3>1. j = i
            <4>1. ASSUME j # i  PROVE FALSE
                <5>1. key.owner = j  BY <1>5, <4>1 DEF KeyOutlives
                <5> QED BY <1>7, <1>r, <4>1, <5>1, KeyChanges, Constants
            <4> QED BY <4>1
        <3> QED BY <1>o, <1>4, <2>1, <3>1, InstanceTypes, Constants
    <2> QED BY <1>1, <1>2, <1>3, <2>3, <2>4, <2>5
<1>8. CASE Succeeds(r) /\ op[i].kind = "delete"
    <2>1. key.owner = i /\ key'.owner = None  BY <1>8, <1>r, KeyChanges
    <2>2. stage[i] = "released"  BY <1>8 DEF OpsFit
    <2>3. ~Claimed(i) /\ ~Claimed(i)'  BY <1>4, <2>2 DEF Claimed, Watched
    <2>4. OneOutwaits' /\ OwnerOutwaits'
        BY <1>1, <1>4, <1>5, <2>1, <2>3, CalmStep, WaitsType, Constants
    <2>5. KeyOutlives'
        BY <1>5, <2>1, <2>3 DEF KeyOutlives, RedisRuns
    <2> QED BY <1>1, <1>2, <1>3, <2>4, <2>5
<1> QED BY <1>6, <1>7, <1>8, InstanceTypes DEF RedisRuns, Kinds

LEMMA StrayRunsKeeps ==
    ASSUME IInv, NEW r \in stray, StrayRuns(r)
    PROVE  IInv'
<1> USE DEF IInv
<1>r. /\ r \in Requests /\ r.by \in Instance /\ r.kind \in Kinds
      /\ key' = IF Succeeds(r) THEN KeyAfter(r) ELSE key
    BY DEF StrayRuns, TypeOK, Requests
<1>1. TypeOK'
    <2>1. key' \in [owner : Instance \cup {None}, phase : Phases, ttl : 0 .. TTL]
        BY <1>r, KeyChanges DEF TypeOK
    <2> QED BY <2>1 DEF StrayRuns, TypeOK, timers
<1>2. OpsFit' /\ StraysFit' /\ QuarantineFirst'
    BY DEF StrayRuns, OpsFit, StraysFit, QuarantineFirst, AtWork, timers
<1>3. \A j \in Instance : /\ Claimed(j)' <=> Claimed(j)
                          /\ Waits(j)' = Waits(j)
                          /\ \A n \in Int : EndsWithin(j, n)' <=> EndsWithin(j, n)
    BY DEF StrayRuns, Claimed, Waits, EndsWithin, timers
<1>4. \A j \in Instance : Claimed(j) => (key.owner = j <=> key'.owner = j) \/ key'.owner = None
    <2> SUFFICES ASSUME NEW j \in Instance, Claimed(j), Succeeds(r)
                 PROVE  (key.owner = j <=> key'.owner = j) \/ key'.owner = None
        BY <1>r
    <2>1. CASE r.kind = "claim"
        <3>1. stage[r.by] = "gone"  BY <2>1 DEF StraysFit
        <3>2. j # r.by  BY <3>1 DEF Claimed, Watched
        <3> QED BY <1>r, <2>1, <3>2, KeyChanges, Constants
    <2>2. CASE r.kind # "claim"  BY <1>r, <2>2, KeyChanges DEF Kinds
    <2> QED BY <2>1, <2>2
<1>5. OneOutwaits' /\ OwnerOutwaits'
    BY <1>1, <1>3, <1>4, CalmStep, WaitsType, Constants
<1>6. ASSUME losses = 0, NEW j \in Instance, Claimed(j)'
      PROVE  /\ key'.owner = j
             /\ stage'[j] \in Watched => key'.ttl > left'[j] + Slack
             /\ op'[j].result = "yes" => key'.ttl >= TTL - op'[j].age
    <2>1. /\ key.owner = j
          /\ stage[j] \in Watched => key.ttl > left[j] + Slack
          /\ op[j].result = "yes" => key.ttl >= TTL - op[j].age
        BY <1>3, <1>6 DEF KeyOutlives
    <2>2. stage'[j] = stage[j] /\ left'[j] = left[j] /\ op'[j] = op[j]
        BY DEF StrayRuns, timers
    <2>3. CASE ~Succeeds(r)  BY <1>r, <2>1, <2>2, <2>3
    <2>4. CASE Succeeds(r) /\ r.kind \in {"refresh", "promote"}
        BY <1>r, <2>1, <2>2, <2>4, KeyChanges, InstanceTypes, Constants
    <2>5. CASE Succeeds(r) /\ r.kind = "none"  BY <1>r, <2>1, <2>2, <2>5, KeyChanges
    <2>6. CASE Succeeds(r) /\ r.kind \in {"claim", "delete"}
        <3>1. stage[r.by] = "gone"  BY <2>6 DEF StraysFit
        <3>2. j # r.by  BY <1>3, <1>6, <3>1 DEF Claimed, Watched
        <3> QED BY <1>r, <2>1, <2>6, <3>2, KeyChanges, Constants
    <2> QED BY <1>r, <2>3, <2>4, <2>5, <2>6 DEF Kinds
<1>7. KeyOutlives'  BY <1>6 DEF KeyOutlives, StrayRuns
<1> QED BY <1>1, <1>2, <1>5, <1>7

LEMMA RedisLosesKeeps ==
    ASSUME IInv, RedisLoses
    PROVE  IInv'
<1> USE DEF IInv
<1>1. TypeOK'  BY Constants DEF RedisLoses, TypeOK, Free, Phases, timers
<1>2. OpsFit' /\ StraysFit' /\ QuarantineFirst'
    BY DEF RedisLoses, OpsFit, StraysFit, QuarantineFirst, AtWork, timers
<1>3. \A j \in Instance : /\ Claimed(j)' <=> Claimed(j)
                          /\ Waits(j)' = Waits(j)
                          /\ \A n \in Int : EndsWithin(j, n)' <=> EndsWithin(j, n)
    BY DEF RedisLoses, Claimed, Waits, EndsWithin, timers
<1>4. key'.owner = None  BY DEF RedisLoses, Free
<1>5. OneOutwaits' /\ OwnerOutwaits'
    BY <1>1, <1>3, <1>4, CalmStep, WaitsType, Constants
<1>6. losses' # 0  BY Constants DEF RedisLoses, TypeOK
<1> QED BY <1>1, <1>2, <1>5, <1>6 DEF KeyOutlives

------------------------------------------------------------------------------
(* An instance.                                                            *)

LEMMA ClaimKeeps ==
    ASSUME IInv, NEW i \in Instance, Claim(i)
    PROVE  IInv'
<1> USE DEF IInv
<1>1. TypeOK'  BY Constants DEF Claim, TypeOK, Sent, Ops, Kinds, Phases, Stages, timers
<1>2. OpsFit'  BY DEF Claim, TypeOK, OpsFit, Sent, Watched
<1>3. StraysFit'  BY DEF Claim, TypeOK, StraysFit, Requests
<1>4. QuarantineFirst'  BY DEF Claim, TypeOK, QuarantineFirst, AtWork, Watched, timers
<1>5. \A j \in Instance : Claimed(j)' => j # i /\ Claimed(j)
    BY DEF Claim, TypeOK, Claimed, Sent, Watched
<1>6. \A j \in Instance : j # i => Waits(j)' = Waits(j)
                                 /\ \A n \in Int : EndsWithin(j, n)' <=> EndsWithin(j, n)
    BY DEF Claim, TypeOK, Waits, EndsWithin, timers
<1>7. OneOutwaits' /\ OwnerOutwaits'
    BY <1>1, <1>5, <1>6, CalmStep, WaitsType DEF Claim
<1>8. KeyOutlives'  BY <1>5 DEF Claim, TypeOK, KeyOutlives, timers
<1> QED BY <1>1, <1>2, <1>3, <1>4, <1>7, <1>8

LEMMA ClaimGrantedKeeps ==
    ASSUME IInv, NEW i \in Instance, ClaimGranted(i)
    PROVE  IInv'
<1> USE DEF IInv
<1>0. /\ stage'[i] = "quarantine" /\ quar'[i] = Quarantine /\ op'[i] = NoOp
      /\ left'[i] \in Int /\ left'[i] > 0 /\ left'[i] <= TTL - op[i].age - Guard
      /\ op[i].age < TTL - Guard /\ Claimed(i)
    BY InstanceTypes, Constants DEF ClaimGranted, TypeOK, HardDeadline, Least, Claimed
<1>1. TypeOK'
    <2>1. left' \in [Instance -> -Slack .. TTL - Guard]
        BY <1>0, InstanceTypes, Constants DEF ClaimGranted, TypeOK
    <2>2. exp' \in [Instance -> 0 .. TTL]
        BY InstanceTypes, Constants DEF ClaimGranted, TypeOK
    <2> QED BY <2>1, <2>2, Constants
        DEF ClaimGranted, TypeOK, NoOp, Sent, Ops, Kinds, Phases, Stages
<1>2. OpsFit'  BY DEF ClaimGranted, TypeOK, OpsFit, NoOp, Sent, Watched
<1>3. StraysFit'  BY DEF ClaimGranted, TypeOK, StraysFit, Requests
<1>4. QuarantineFirst'  BY DEF ClaimGranted, TypeOK, QuarantineFirst, AtWork, Watched
<1>5. \A j \in Instance : j # i => /\ Claimed(j)' <=> Claimed(j)
                                  /\ Waits(j)' = Waits(j)
                                  /\ \A n \in Int : EndsWithin(j, n)' <=> EndsWithin(j, n)
    BY DEF ClaimGranted, TypeOK, Claimed, Waits, EndsWithin
<1>6. Waits(i)' = Waits(i)  BY <1>0 DEF ClaimGranted, Waits
<1>7. \A n \in Int : EndsWithin(i, n) => EndsWithin(i, n)'
    BY <1>0, InstanceTypes, Constants DEF ClaimGranted, EndsWithin, NoOp, Sent
<1>8. OneOutwaits' /\ OwnerOutwaits'
    BY <1>0, <1>1, <1>5, <1>6, <1>7, CalmStep, WaitsType DEF ClaimGranted
<1>9. KeyOutlives'
    <2> SUFFICES ASSUME losses = 0, NEW j \in Instance, Claimed(j)'
                 PROVE  /\ key'.owner = j
                        /\ stage'[j] \in Watched => key'.ttl > left'[j] + Slack
                        /\ op'[j].result = "yes" => key'.ttl >= TTL - op'[j].age
        BY DEF KeyOutlives, ClaimGranted
    <2>1. CASE j = i
        <3>1. key.owner = i /\ key.ttl >= TTL - op[i].age
            BY <1>0 DEF KeyOutlives, ClaimGranted
        <3>2. key.ttl \in Nat  BY Constants DEF TypeOK
        <3> QED BY <1>0, <2>1, <3>1, <3>2, InstanceTypes, Constants DEF ClaimGranted, NoOp, Sent
    <2>2. CASE j # i  BY <1>5, <2>2 DEF KeyOutlives, ClaimGranted, TypeOK
    <2> QED BY <2>1, <2>2
<1> QED BY <1>1, <1>2, <1>3, <1>4, <1>8, <1>9

LEMMA WatchdogStartFailsKeeps ==
    ASSUME IInv, NEW i \in Instance, WatchdogStartFails(i)
    PROVE  IInv'
<1> USE DEF IInv
<1>1. TypeOK'
    BY InstanceTypes, Constants DEF WatchdogStartFails, TypeOK, Sent, Ops, Kinds, Phases, Stages, timers, LeasePhase
<1>2. OpsFit'  BY DEF WatchdogStartFails, TypeOK, OpsFit, Sent, Watched
<1>3. StraysFit'  BY DEF WatchdogStartFails, TypeOK, StraysFit, Requests
<1>4. QuarantineFirst'  BY DEF WatchdogStartFails, TypeOK, QuarantineFirst, AtWork, Watched, timers
<1>5. \A j \in Instance : Claimed(j)' => j # i /\ Claimed(j)
    BY DEF WatchdogStartFails, TypeOK, Claimed, Watched
<1>6. \A j \in Instance : j # i => Waits(j)' = Waits(j)
                                 /\ \A n \in Int : EndsWithin(j, n)' <=> EndsWithin(j, n)
    BY DEF WatchdogStartFails, TypeOK, Waits, EndsWithin, timers
<1>7. OneOutwaits' /\ OwnerOutwaits'
    BY <1>1, <1>5, <1>6, CalmStep, WaitsType DEF WatchdogStartFails
<1>8. KeyOutlives'  BY <1>5 DEF WatchdogStartFails, TypeOK, KeyOutlives, timers
<1> QED BY <1>1, <1>2, <1>3, <1>4, <1>7, <1>8

LEMMA ReleaseKeeps ==
    ASSUME IInv, NEW i \in Instance, Release(i)
    PROVE  IInv'
<1> USE DEF IInv
<1>1. TypeOK'
    BY InstanceTypes, Constants DEF Release, TypeOK, Sent, Ops, Kinds, Phases, Stages, timers, LeasePhase
<1>2. OpsFit'  BY DEF Release, TypeOK, OpsFit, Sent, Watched
<1>3. StraysFit'  BY DEF Release, TypeOK, StraysFit, Requests
<1>4. QuarantineFirst'  BY DEF Release, TypeOK, QuarantineFirst, AtWork, Watched, timers
<1>5. \A j \in Instance : Claimed(j)' => j # i /\ Claimed(j)
    BY DEF Release, TypeOK, Claimed, Watched
<1>6. \A j \in Instance : j # i => Waits(j)' = Waits(j)
                                 /\ \A n \in Int : EndsWithin(j, n)' <=> EndsWithin(j, n)
    BY DEF Release, TypeOK, Waits, EndsWithin, timers
<1>7. OneOutwaits' /\ OwnerOutwaits'
    BY <1>1, <1>5, <1>6, CalmStep, WaitsType DEF Release
<1>8. KeyOutlives'  BY <1>5 DEF Release, TypeOK, KeyOutlives, timers
<1> QED BY <1>1, <1>2, <1>3, <1>4, <1>7, <1>8

(* A step of an instance under its watchdog that leaves key and watchdog   *)
(* alone, does not move it back to the quarantine, and whose request, if   *)
(* any, has not run.                                                       *)
LEMMA WatchedStep ==
    ASSUME IInv, TypeOK', NEW i \in Instance,
           stage[i] \in Watched, stage'[i] \in Watched,
           \A j \in Instance : j # i => stage'[j] = stage[j] /\ op'[j] = op[j],
           op'[i].result = "yes" => op'[i] = op[i],
           left' = left, quar' = quar, key' = key, losses' = losses
    PROVE  OneOutwaits' /\ OwnerOutwaits' /\ KeyOutlives'
<1> USE DEF IInv
<1>1. \A j \in Instance : /\ Claimed(j)' <=> Claimed(j)
                          /\ Waits(j)' = Waits(j)
                          /\ \A n \in Int : EndsWithin(j, n) => EndsWithin(j, n)'
    <2>1. stage[i] # "claiming" /\ stage'[i] # "claiming"  BY DEF Watched
    <2> QED BY <2>1 DEF Claimed, Waits, EndsWithin
<1>2. OneOutwaits' /\ OwnerOutwaits'  BY <1>1, CalmStep, WaitsType
<1>3. KeyOutlives'  BY <1>1 DEF KeyOutlives
<1> QED BY <1>2, <1>3

LEMMA RefreshKeeps ==
    ASSUME IInv, NEW i \in Instance, Refresh(i)
    PROVE  IInv'
<1> USE DEF IInv
<1>1. TypeOK'
    BY InstanceTypes, Constants DEF Refresh, TypeOK, Sent, NoOp, Ops, Kinds, Phases, Stages, timers, LeasePhase
<1>2. OpsFit'  BY DEF Refresh, TypeOK, OpsFit, Sent, NoOp, Watched
<1>3. StraysFit'  BY DEF Refresh, TypeOK, StraysFit, Requests
<1>4. QuarantineFirst'  BY DEF Refresh, TypeOK, QuarantineFirst, AtWork, Watched, timers
<1>5. OneOutwaits' /\ OwnerOutwaits' /\ KeyOutlives'
    BY <1>1, WatchedStep DEF Refresh, TypeOK, Sent, NoOp, Watched, timers
<1> QED BY <1>1, <1>2, <1>3, <1>4, <1>5

LEMMA QuarantineEndsKeeps ==
    ASSUME IInv, NEW i \in Instance, QuarantineEnds(i)
    PROVE  IInv'
<1> USE DEF IInv
<1>1. TypeOK'
    BY InstanceTypes, Constants DEF QuarantineEnds, TypeOK, Sent, NoOp, Ops, Kinds, Phases, Stages, timers, LeasePhase
<1>2. OpsFit'  BY DEF QuarantineEnds, TypeOK, OpsFit, Sent, NoOp, Watched
<1>3. StraysFit'  BY DEF QuarantineEnds, TypeOK, StraysFit, Requests
<1>4. QuarantineFirst'  BY DEF QuarantineEnds, TypeOK, QuarantineFirst, AtWork, Watched, timers
<1>5. OneOutwaits' /\ OwnerOutwaits' /\ KeyOutlives'
    BY <1>1, WatchedStep DEF QuarantineEnds, TypeOK, Sent, NoOp, Watched, timers
<1> QED BY <1>1, <1>2, <1>3, <1>4, <1>5

LEMMA BuiltKeeps ==
    ASSUME IInv, NEW i \in Instance, Built(i)
    PROVE  IInv'
<1> USE DEF IInv
<1>1. TypeOK'
    BY InstanceTypes, Constants DEF Built, TypeOK, Sent, NoOp, Ops, Kinds, Phases, Stages, timers, LeasePhase
<1>2. OpsFit'  BY DEF Built, TypeOK, OpsFit, Sent, NoOp, Watched
<1>3. StraysFit'  BY DEF Built, TypeOK, StraysFit, Requests
<1>4. QuarantineFirst'  BY DEF Built, TypeOK, QuarantineFirst, AtWork, Watched, timers
<1>5. OneOutwaits' /\ OwnerOutwaits' /\ KeyOutlives'
    BY <1>1, WatchedStep DEF Built, TypeOK, Sent, NoOp, Watched, timers
<1> QED BY <1>1, <1>2, <1>3, <1>4, <1>5

LEMMA BeginPromotionKeeps ==
    ASSUME IInv, NEW i \in Instance, BeginPromotion(i)
    PROVE  IInv'
<1> USE DEF IInv
<1>1. TypeOK'
    BY InstanceTypes, Constants DEF BeginPromotion, TypeOK, Sent, NoOp, Ops, Kinds, Phases, Stages, timers, LeasePhase
<1>2. OpsFit'  BY DEF BeginPromotion, TypeOK, OpsFit, Sent, NoOp, Watched
<1>3. StraysFit'  BY DEF BeginPromotion, TypeOK, StraysFit, Requests
<1>4. QuarantineFirst'  BY DEF BeginPromotion, TypeOK, QuarantineFirst, AtWork, Watched, timers
<1>5. OneOutwaits' /\ OwnerOutwaits' /\ KeyOutlives'
    BY <1>1, WatchedStep DEF BeginPromotion, TypeOK, Sent, NoOp, Watched, timers
<1> QED BY <1>1, <1>2, <1>3, <1>4, <1>5

LEMMA PromoteKeeps ==
    ASSUME IInv, NEW i \in Instance, Promote(i)
    PROVE  IInv'
<1> USE DEF IInv
<1>1. TypeOK'
    BY InstanceTypes, Constants DEF Promote, TypeOK, Sent, NoOp, Ops, Kinds, Phases, Stages, timers, LeasePhase
<1>2. OpsFit'  BY DEF Promote, TypeOK, OpsFit, Sent, NoOp, Watched
<1>3. StraysFit'  BY DEF Promote, TypeOK, StraysFit, Requests
<1>4. QuarantineFirst'  BY DEF Promote, TypeOK, QuarantineFirst, AtWork, Watched, timers
<1>5. OneOutwaits' /\ OwnerOutwaits' /\ KeyOutlives'
    BY <1>1, WatchedStep DEF Promote, TypeOK, Sent, NoOp, Watched, timers
<1> QED BY <1>1, <1>2, <1>3, <1>4, <1>5

LEMMA RefreshFailsKeeps ==
    ASSUME IInv, NEW i \in Instance, RefreshFails(i)
    PROVE  IInv'
<1> USE DEF IInv
<1>1. TypeOK'
    <2>1. stray' \subseteq Requests  BY AbandonedType DEF RefreshFails, TypeOK
    <2> QED BY <2>1, Constants DEF RefreshFails, TypeOK, NoOp, Sent, Ops, Kinds, Phases, timers
<1>2. OpsFit'  BY DEF RefreshFails, TypeOK, OpsFit, NoOp, Sent, Watched
<1>3. StraysFit'  BY AbandonedType DEF RefreshFails, StraysFit
<1>4. QuarantineFirst'  BY DEF RefreshFails, QuarantineFirst, AtWork, timers
<1>5. stage[i] \in Watched  BY DEF RefreshFails, OpsFit, Watched
<1>6. OneOutwaits' /\ OwnerOutwaits' /\ KeyOutlives'
    BY <1>1, <1>5, WatchedStep DEF RefreshFails, TypeOK, NoOp, Sent, timers
<1> QED BY <1>1, <1>2, <1>3, <1>4, <1>6

(* A confirmed request moves the deadline by less than it moved the expiry *)
(* of the key.                                                             *)
LEMMA RearmKeeps ==
    ASSUME IInv, TypeOK', NEW i \in Instance, NEW deadline \in Int,
           stage[i] \in Watched, stage'[i] \in Watched,
           \A j \in Instance : j # i => stage'[j] = stage[j],
           op[i].result = "yes", deadline <= TTL - op[i].age - Guard,
           Rearms(i, deadline),
           quar' = quar, key' = key, losses' = losses
    PROVE  OneOutwaits' /\ OwnerOutwaits' /\ KeyOutlives'
<1> USE DEF IInv
<1>0. /\ left'[i] = deadline /\ op'[i].result = "none"
      /\ \A j \in Instance : j # i => left'[j] = left[j] /\ op'[j] = op[j]
    BY DEF Rearms, TypeOK, NoOp, Sent
<1>1. \A j \in Instance : /\ Claimed(j)' <=> Claimed(j)
                          /\ Waits(j)' = Waits(j)
    <2>1. stage[i] # "claiming" /\ stage'[i] # "claiming"  BY DEF Watched
    <2> QED BY <1>0, <2>1 DEF Claimed, Waits
<1>2. \A j \in Instance : \A n \in Int : EndsWithin(j, n) => EndsWithin(j, n)'
    BY <1>0, InstanceTypes, Constants DEF EndsWithin
<1>3. OneOutwaits' /\ OwnerOutwaits'  BY <1>1, <1>2, CalmStep, WaitsType
<1>4. key.ttl \in Nat  BY Constants DEF TypeOK
<1>5. KeyOutlives'
    BY <1>0, <1>1, <1>4, InstanceTypes, Constants DEF KeyOutlives
<1> QED BY <1>3, <1>5

LEMMA RearmType ==
    ASSUME TypeOK, NEW i \in Instance, NEW deadline \in Int,
           deadline <= TTL - op[i].age - Guard, Rearms(i, deadline)
    PROVE  /\ left' \in [Instance -> -Slack .. TTL - Guard]
           /\ exp' \in [Instance -> 0 .. TTL]
           /\ op' \in [Instance -> Ops]
<1>1. TTL - op[i].age \in 0 .. TTL /\ deadline \in -Slack .. TTL - Guard
    BY InstanceTypes, Constants DEF Rearms
<1>2. NoOp \in Ops  BY Constants DEF NoOp, Sent, Ops, Kinds, Phases
<1> QED BY <1>1, <1>2 DEF Rearms, TypeOK

LEMMA RefreshedKeeps ==
    ASSUME IInv, NEW i \in Instance, Refreshed(i)
    PROVE  IInv'
<1> USE DEF IInv
<1>s. stage[i] \in Watched  BY DEF Refreshed, OpsFit, Watched
<1>3. StraysFit' /\ QuarantineFirst'
    BY DEF Refreshed, StraysFit, QuarantineFirst, AtWork
<1>4. CASE stage[i] = "handover"
    <2>1. TypeOK'
        <3>1. NoOp \in Ops  BY Constants DEF NoOp, Sent, Ops, Kinds, Phases
        <3>2. op' \in [Instance -> Ops]  BY <1>4, <3>1 DEF Refreshed, TypeOK
        <3>3. left' = left /\ exp' = exp  BY <1>4 DEF Refreshed
        <3> QED BY <3>2, <3>3 DEF Refreshed, TypeOK
    <2>2. OpsFit'  BY <1>4 DEF Refreshed, TypeOK, OpsFit, NoOp, Sent, Watched
    <2>3. OneOutwaits' /\ OwnerOutwaits' /\ KeyOutlives'
        BY <1>4, <1>s, <2>1, WatchedStep DEF Refreshed, TypeOK, NoOp, Sent
    <2> QED BY <1>3, <2>1, <2>2, <2>3
<1>5. CASE stage[i] # "handover"
    <2>1. Rearms(i, RefreshDeadline(i))  BY <1>5 DEF Refreshed
    <2>2. RefreshDeadline(i) \in Int /\ RefreshDeadline(i) <= TTL - op[i].age - Guard
        <3>1. op[i].age \in Nat /\ prov[i] \in Nat  BY InstanceTypes
        <3>2. CASE stage[i] = "ready"  BY <3>1, <3>2, Constants DEF RefreshDeadline, HardDeadline
        <3>3. CASE stage[i] # "ready"
            BY <3>1, <3>3, Constants DEF RefreshDeadline, HardDeadline, Least
        <3> QED BY <3>2, <3>3
    <2>3. TypeOK'  BY <2>1, <2>2, RearmType DEF Refreshed, TypeOK
    <2>4. OpsFit'  BY <2>1 DEF Refreshed, Rearms, TypeOK, OpsFit, NoOp, Sent, Watched
    <2>5. OneOutwaits' /\ OwnerOutwaits' /\ KeyOutlives'
        BY <1>s, <2>1, <2>2, <2>3, RearmKeeps DEF Refreshed
    <2> QED BY <1>3, <2>3, <2>4, <2>5
<1> QED BY <1>4, <1>5

LEMMA PromotedKeeps ==
    ASSUME IInv, NEW i \in Instance, Promoted(i)
    PROVE  IInv'
<1> USE DEF IInv
<1>1. HardDeadline("READY", op[i].age) \in Int
      /\ HardDeadline("READY", op[i].age) <= TTL - op[i].age - Guard
    BY InstanceTypes, Constants DEF HardDeadline
<1>2. TypeOK'
    BY <1>1, RearmType, Constants DEF Promoted, TypeOK, Stages
<1>3. OpsFit'  BY DEF Promoted, Rearms, TypeOK, OpsFit, NoOp, Sent, Watched
<1>4. StraysFit'  BY DEF Promoted, TypeOK, StraysFit, Requests
<1>5. QuarantineFirst'  BY DEF Promoted, TypeOK, QuarantineFirst, AtWork, Watched
<1>6. stage[i] \in Watched /\ stage'[i] \in Watched
      /\ \A j \in Instance : j # i => stage'[j] = stage[j]
    BY DEF Promoted, TypeOK, Watched
<1>7. OneOutwaits' /\ OwnerOutwaits' /\ KeyOutlives'
    BY <1>1, <1>2, <1>6, RearmKeeps DEF Promoted
<1> QED BY <1>2, <1>3, <1>4, <1>5, <1>7

------------------------------------------------------------------------------
(* Time.                                                                   *)

(* What a tick does to an instance.                                        *)
LEMMA TickMoves ==
    ASSUME TypeOK, Tick, NEW i \in Instance
    PROVE  /\ stage'[i] = stage[i] /\ ending'[i] = ending[i]
           /\ left'[i] = IF stage[i] \in Watched THEN left[i] - 1 ELSE left[i]
           /\ stage[i] \in Watched => left[i] > -Slack
           /\ quar'[i] = IF quar[i] > 0 THEN quar[i] - 1 ELSE 0
           /\ op'[i].kind = op[i].kind /\ op'[i].phase = op[i].phase
           /\ op'[i].result = op[i].result
           /\ op'[i].age \in Nat /\ op'[i].age <= TTL /\ op'[i].age >= op[i].age
           /\ op[i].kind # "none" =>
                 op'[i].age = IF op[i].age < TTL THEN op[i].age + 1 ELSE TTL
<1>1. op[i] = [kind |-> op[i].kind, phase |-> op[i].phase, age |-> op[i].age,
               result |-> op[i].result]
    BY InstanceTypes DEF Ops
<1>2. op'[i] = IF op[i].kind = "none" THEN op[i]
               ELSE [kind |-> op[i].kind, phase |-> op[i].phase,
                     age |-> Least(op[i].age + 1, TTL), result |-> op[i].result]
    BY <1>1 DEF Tick
<1>3. stage'[i] = stage[i] /\ ending'[i] = ending[i]
      /\ left'[i] = (IF stage[i] \in Watched THEN left[i] - 1 ELSE left[i])
      /\ (stage[i] \in Watched => left[i] > -Slack)
      /\ quar'[i] = IF quar[i] > 0 THEN quar[i] - 1 ELSE 0
    BY DEF Tick, Down
<1> QED BY <1>2, <1>3, InstanceTypes, Constants DEF Least

LEMMA TickKeeps ==
    ASSUME IInv, Tick
    PROVE  IInv'
<1> USE DEF IInv
<1>k. key.ttl \in Nat /\ key.ttl <= TTL /\ key.owner \in Instance \cup {None} /\ key.phase \in Phases
    BY Constants DEF TypeOK
<1>l. key' = IF key.ttl > 1 THEN [owner |-> key.owner, phase |-> key.phase, ttl |-> key.ttl - 1]
             ELSE Free
    BY DEF Tick, TypeOK
<1>1. TypeOK'
    <2>1. key' \in [owner : Instance \cup {None}, phase : Phases, ttl : 0 .. TTL]
        BY <1>k, <1>l, Constants DEF Free, Phases
    <2>2. left' \in [Instance -> -Slack .. TTL - Guard]
        <3>1. \A i \in Instance : left'[i] \in -Slack .. TTL - Guard
            BY TickMoves, InstanceTypes, Constants
        <3> QED BY <3>1 DEF Tick
    <2>3. /\ exp' \in [Instance -> 0 .. TTL] /\ prov' \in [Instance -> 0 .. Provisioning]
          /\ quar' \in [Instance -> 0 .. Quarantine]
        BY Constants DEF Tick, TypeOK, Down
    <2>4. op' \in [Instance -> Ops]
        <3>1. \A i \in Instance : Least(op[i].age + 1, TTL) \in 0 .. TTL
            BY InstanceTypes, Constants DEF Least
        <3> QED BY <3>1 DEF Tick, TypeOK, Ops
    <2> QED BY <2>1, <2>2, <2>3, <2>4 DEF Tick, TypeOK
<1>2. OpsFit'
    <2> SUFFICES ASSUME NEW i \in Instance
                 PROVE  /\ op'[i].kind = op[i].kind /\ op'[i].result = op[i].result
                        /\ stage'[i] = stage[i] /\ ending'[i] = ending[i]
        BY DEF OpsFit
    <2> QED BY TickMoves
<1>3. StraysFit'  BY DEF Tick, StraysFit
<1>4. QuarantineFirst'  BY TickMoves DEF QuarantineFirst, AtWork
<1>5. \A i \in Instance : Claimed(i)' => Claimed(i)
    BY TickMoves, InstanceTypes, Constants DEF Claimed
<1>6. ASSUME NEW i \in Instance, NEW j \in Instance, Claimed(i)', Claimed(j)',
             EndsWithin(j, Waits(i))
      PROVE  EndsWithin(j, Waits(i))'
    <2>1. Claimed(i) /\ Claimed(j)  BY <1>5, <1>6
    <2>2. Waits(i) \in Nat /\ Waits(i) > 0  BY <1>6, <2>1, ClaimedLives, WaitsType
    <2>3. Waits(i)' >= Waits(i) - 1 /\ Waits(i)' \in Nat
        BY <2>2, TickMoves, InstanceTypes, Constants DEF Waits
    <2>4. stage[j] \in Watched => left'[j] + Slack < Waits(i)'
        BY <1>6, <2>2, <2>3, TickMoves, InstanceTypes, Constants DEF EndsWithin
    <2>5. op[j].result = "yes" => TTL - Guard - op'[j].age + Slack < Waits(i)'
        <3>1. op[j].result = "yes" => op[j].kind # "none"  BY DEF OpsFit
        <3> QED BY <1>6, <2>2, <2>3, <3>1, TickMoves, InstanceTypes, Constants DEF EndsWithin
    <2> QED BY <2>4, <2>5, TickMoves DEF EndsWithin
<1>7. OneOutwaits'  BY <1>5, <1>6 DEF OneOutwaits
<1>8. OwnerOutwaits'
    <2>1. \A i \in Instance : key'.owner = i => key.owner = i
        BY <1>l, Constants DEF Free
    <2> QED BY <1>5, <1>6, <2>1 DEF OwnerOutwaits
<1>9. KeyOutlives'
    <2> SUFFICES ASSUME losses = 0, NEW j \in Instance, Claimed(j)'
                 PROVE  /\ key'.owner = j
                        /\ stage'[j] \in Watched => key'.ttl > left'[j] + Slack
                        /\ op'[j].result = "yes" => key'.ttl >= TTL - op'[j].age
        BY DEF KeyOutlives, Tick
    <2>1. /\ key.owner = j
          /\ stage[j] \in Watched => key.ttl > left[j] + Slack
          /\ op[j].result = "yes" => key.ttl >= TTL - op[j].age
        BY <1>5 DEF KeyOutlives
    <2>2. key.ttl > 1
        <3>1. CASE stage[j] \in Watched
            BY <1>k, <2>1, <3>1, TickMoves, InstanceTypes, Constants
        <3>2. CASE stage[j] \notin Watched
            <4>1. op'[j].result = "yes" /\ op'[j].age < TTL - Guard /\ stage'[j] = "claiming"
                BY <3>2, TickMoves DEF Claimed
            <4>2. op[j].kind # "none" /\ op[j].result = "yes"  BY <4>1, TickMoves DEF OpsFit
            <4> QED BY <1>k, <2>1, <4>1, <4>2, TickMoves, InstanceTypes, Constants
        <3> QED BY <3>1, <3>2
    <2>3. key'.owner = j /\ key'.ttl = key.ttl - 1  BY <1>l, <2>1, <2>2
    <2>4. stage'[j] \in Watched => key'.ttl > left'[j] + Slack
        BY <1>k, <2>1, <2>3, TickMoves, InstanceTypes, Constants
    <2>5. op'[j].result = "yes" => key'.ttl >= TTL - op'[j].age
        <3>1. op[j].result = "yes" => op[j].kind # "none"  BY DEF OpsFit
        <3> QED BY <1>k, <2>1, <2>2, <2>3, <3>1, TickMoves, InstanceTypes, Constants
    <2> QED BY <2>3, <2>4, <2>5
<1> QED BY <1>1, <1>2, <1>3, <1>4, <1>7, <1>8, <1>9

------------------------------------------------------------------------------
(* The theorems.                                                           *)

LEMMA InitHolds == Init => IInv
<1> SUFFICES ASSUME Init PROVE IInv  OBVIOUS
<1>1. TypeOK
    BY Constants DEF Init, TypeOK, Free, NoOp, Sent, Ops, Kinds, Phases, Stages
<1>2. OpsFit /\ StraysFit /\ QuarantineFirst
    BY DEF Init, OpsFit, StraysFit, QuarantineFirst, AtWork, NoOp, Sent, Watched
<1>3. \A i \in Instance : ~Claimed(i)  BY DEF Init, Claimed, Watched
<1> QED BY <1>1, <1>2, <1>3 DEF IInv, OneOutwaits, OwnerOutwaits, KeyOutlives

LEMMA StepKeeps == IInv /\ [Next]_vars => IInv'
<1> SUFFICES ASSUME IInv, [Next]_vars PROVE IInv'  OBVIOUS
<1>1. CASE UNCHANGED vars
    BY <1>1 DEF vars, timers, IInv, TypeOK, OpsFit, StraysFit, QuarantineFirst, OneOutwaits,
                OwnerOutwaits, KeyOutlives, AtWork, Claimed, Waits, EndsWithin
<1>2. ASSUME NEW i \in Instance, Step(i)  PROVE IInv'
    <2>1. CASE ClaimRefused(i) \/ OwnershipLost(i) \/ Crash(i) \/ WatchdogKills(i)
        BY <2>1, EndsKeeps DEF ClaimRefused, OwnershipLost, Crash, WatchdogKills
    <2>2. CASE LeaseExhausted(i) \/ Fails(i) \/ BeginShutdown(i)
        BY <2>2, TightensKeeps DEF LeaseExhausted, Fails, BeginShutdown
    <2> QED BY <1>2, <2>1, <2>2, RedisRunsKeeps, ClaimKeeps, ClaimGrantedKeeps,
               WatchdogStartFailsKeeps, RefreshKeeps, RefreshedKeeps, RefreshFailsKeeps,
               QuarantineEndsKeeps, BuiltKeeps, BeginPromotionKeeps, PromoteKeeps,
               PromotedKeeps, ReleaseKeeps DEF Step
<1> QED BY <1>1, <1>2, StrayRunsKeeps, RedisLosesKeeps, TickKeeps DEF Next

(* The inductive invariant holds in every reachable state.                 *)
THEOREM OwnershipInvariant == Spec => []IInv
BY InitHolds, StepKeeps, PTL DEF Spec

(* Every field of the model keeps its type; in particular no watchdog is   *)
(* ever set later than TTL - Guard from now.                               *)
THEOREM OwnershipTypeCorrect == Spec => []TypeOK
<1>1. IInv => TypeOK  BY DEF IInv
<1> QED BY <1>1, OwnershipInvariant, PTL

(* Two instances of a role are never at work at the same time, whatever    *)
(* Redis loses: of any two, one outwaits the other in its quarantine.      *)
THEOREM RoleHasOneWorker == Spec => []OneOwnerAtWork
<1>1. IInv => OneOwnerAtWork
    <2> SUFFICES ASSUME IInv, NEW i \in Instance, NEW j \in Instance,
                        AtWork(i), AtWork(j), i # j
                 PROVE  FALSE
        BY DEF OneOwnerAtWork
    <2> USE DEF IInv
    <2>1. Claimed(i) /\ Claimed(j)  BY DEF AtWork, Claimed
    <2>2. Waits(i) = 0 /\ Waits(j) = 0
        BY DEF AtWork, Watched, QuarantineFirst, Waits
    <2>3. EndsWithin(j, 0) \/ EndsWithin(i, 0)  BY <2>1, <2>2 DEF OneOutwaits
    <2> QED BY <2>1, <2>3, ClaimedLives
<1> QED BY <1>1, OwnershipInvariant, PTL

(* As long as Redis keeps the key, whoever works holds it.                 *)
THEOREM WorkerIsOwner == Spec => []WorkerHoldsKey
<1>1. IInv => WorkerHoldsKey
    BY DEF IInv, KeyOutlives, WorkerHoldsKey, AtWork, Claimed
<1> QED BY <1>1, OwnershipInvariant, PTL

(* No answer that arrives after an instance has begun to stop gives it     *)
(* more time.                                                              *)
THEOREM StoppingStaysBounded == Spec => StoppingIsBounded
<1>1. ASSUME IInv, [Next]_vars, NEW i \in Instance,
             stage[i] \in Watched, ending[i] # "no", stage'[i] \in Watched
      PROVE  ending'[i] = ending[i] /\ left'[i] <= left[i]
    <2> USE DEF IInv
    <2>1. left[i] \in Int  BY <1>1, InstanceTypes
    <2>2. CASE UNCHANGED vars  BY <2>1, <2>2 DEF vars, timers
    <2>3. op[i].kind = "none"  BY <1>1 DEF OpsFit
    <2>4. CASE Tick  BY <1>1, <2>1, <2>4, TickMoves
    <2>5. CASE RedisLoses \/ \E r \in stray : StrayRuns(r)
        BY <2>1, <2>5 DEF RedisLoses, StrayRuns, timers
    <2>6. ASSUME NEW j \in Instance, Step(j)  PROVE ending'[i] = ending[i] /\ left'[i] <= left[i]
        <3>1. ASSUME Ends(j)  PROVE ending'[i] = ending[i] /\ left'[i] <= left[i]
            BY <1>1, <2>1, <3>1 DEF Ends, TypeOK, Watched
        <3>2. ASSUME NEW how \in {"shutdown", "fatal"}, Tightens(j, how)
              PROVE  ending'[i] = ending[i] /\ left'[i] <= left[i]
            BY <1>1, <2>1, <3>2 DEF Tightens, TypeOK
        <3>3. CASE ClaimRefused(j) \/ OwnershipLost(j) \/ Crash(j) \/ WatchdogKills(j)
            BY <3>1, <3>3 DEF ClaimRefused, OwnershipLost, Crash, WatchdogKills
        <3>4. CASE LeaseExhausted(j) \/ Fails(j) \/ BeginShutdown(j)
            BY <3>2, <3>4 DEF LeaseExhausted, Fails, BeginShutdown
        <3>5. CASE ClaimGranted(j)
            BY <1>1, <2>1, <3>5 DEF ClaimGranted, TypeOK, Watched
        <3>6. CASE Refreshed(j) \/ Promoted(j)
            BY <1>1, <2>1, <2>3, <3>6 DEF Refreshed, Promoted, Rearms, TypeOK
        <3>7. CASE RedisRuns(j) \/ Claim(j) \/ WatchdogStartFails(j) \/ Refresh(j) \/ RefreshFails(j)
                   \/ QuarantineEnds(j) \/ Built(j) \/ BeginPromotion(j) \/ Promote(j) \/ Release(j)
            BY <2>1, <3>7 DEF RedisRuns, Claim, WatchdogStartFails, Refresh, RefreshFails,
                   QuarantineEnds, Built, BeginPromotion, Promote, Release, timers
        <3> QED BY <2>6, <3>3, <3>4, <3>5, <3>6, <3>7 DEF Step
    <2> QED BY <1>1, <2>2, <2>4, <2>5, <2>6 DEF Next
<1>2. IInv /\ [Next]_vars =>
        [\A i \in Instance :
           stage[i] \in Watched /\ ending[i] # "no" /\ stage'[i] \in Watched
           => ending'[i] = ending[i] /\ left'[i] <= left[i]]_vars
    BY <1>1
<1> QED BY <1>2, OwnershipInvariant, PTL DEF Spec, StoppingIsBounded
====
