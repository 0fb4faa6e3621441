---------------------------- MODULE OutboxProofs -----------------------------
(***************************************************************************)
(* Proofs about the execution outbox, for any number of events, orders and *)
(* concurrent flushes, any read limit, any number of attempts and any      *)
(* capacity of the list of deferred events.                                *)
(***************************************************************************)
EXTENDS ExecutionOutbox, FiniteSetTheorems, SequenceTheorems, TLAPS

Earlier(e) == {d \in Event : d < e /\ KeyOf[d] = KeyOf[e]}

(* An event that no longer holds up the later ones of its order.           *)
Settled(e) == e \in arrived \/ e \in dead \/ e \in dropped \/ status[e] = "aborted"

(* Whatever a flush works on, and whatever has been sent, was committed.   *)
OnlyCommitted ==
    /\ arrived \subseteq Committed /\ late \subseteq Committed
    /\ dead \subseteq Committed /\ dropped \subseteq Committed
    /\ \A e \in Event : IsDeferred(e) => e \in Committed
    /\ \A f \in Flusher : todo[f] \subseteq Committed

(* A flush has published what it counts as published, or deferred it.      *)
DoneIsSentOrDeferred ==
    \A f \in Flusher : \A e \in done[f] : e \in arrived \/ IsDeferred(e)

FailedIsDead == \A e \in Event : status[e] = "FAILED" => e \in dead

FailingHasRow == \A f \in Flusher : failing[f] => todo[f] # {}

(* The gate opens when everything deferred has been sent.                  *)
OpenIsEmpty == gate = "open" => \A e \in Event : ~IsDeferred(e)

(* Transactions of one order do not overlap.                               *)
OneAtATime ==
    \A e \in Event : status[e] # "none" =>
        \A d \in Earlier(e) : status[d] \notin {"none", "open"}

(* The list of a flush has no gaps: what comes before one of its rows is   *)
(* settled, deferred or in the list as well.                               *)
NoGaps ==
    \A f \in Flusher : \A e \in todo[f] : \A d \in Earlier(e) :
        Settled(d) \/ IsDeferred(d) \/ d \in todo[f]

LateIsNext == \A e \in late : \A d \in Earlier(e) : Settled(d)

(* Deferred events wait behind the earlier ones of their order.            *)
DeferredInOrder ==
    \A i \in 1..Len(deferred) : \A d \in Earlier(deferred[i]) :
        Settled(d) \/ \E j \in 1..(i-1) : deferred[j] = d

IInv ==
    /\ TypeOK
    /\ LostOnlyBeforeActivation
    /\ OnlyCommitted
    /\ DoneIsSentOrDeferred
    /\ FailedIsDead
    /\ FailingHasRow
    /\ OpenIsEmpty
    /\ OneAtATime
    /\ NoGaps
    /\ LateIsNext
    /\ DeferredInOrder

------------------------------------------------------------------------------
(* pending(limit) leaves out no PENDING row that is older than one it      *)
(* returns.                                                                *)
LEMMA PendingRowsDownClosed ==
    ASSUME NEW e \in PendingRows, NEW d \in Event, d < e, status[d] = "PENDING"
    PROVE  d \in PendingRows
<1> DEFINE all == {x \in Event : status[x] = "PENDING"}
           below(x) == {y \in all : y < x}
<1>1. e \in Event /\ Cardinality(below(e)) < Limit  BY DEF PendingRows
<1>2. IsFiniteSet(Event)  BY EventAssumption, FS_Interval DEF Event
<1>3. IsFiniteSet(below(e))  BY <1>2, FS_Subset
<1>4. below(d) \subseteq below(e)  BY <1>1, EventAssumption DEF Event
<1>5. IsFiniteSet(below(d)) /\ Cardinality(below(d)) <= Cardinality(below(e))
    BY <1>3, <1>4, FS_Subset
<1>6. Cardinality(below(d)) \in Nat /\ Cardinality(below(e)) \in Nat
    BY <1>3, <1>5, FS_CardinalityType
<1>7. Cardinality(below(d)) < Limit
    <2> HIDE DEF below
    <2> QED BY <1>1, <1>5, <1>6, OutboxBoundsAssumption
<1> QED BY <1>7 DEF PendingRows

------------------------------------------------------------------------------
(* Appending an event to the list defers it, and nothing else.             *)
LEMMA AppendDefers ==
    ASSUME deferred \in Seq(Event), NEW e \in Event, deferred' = Append(deferred, e)
    PROVE  /\ deferred' \in Seq(Event) /\ Len(deferred') = Len(deferred) + 1
           /\ deferred'[Len(deferred) + 1] = e
           /\ \A i \in 1..Len(deferred) : deferred'[i] = deferred[i]
           /\ \A d \in Event : IsDeferred(d)' <=> (IsDeferred(d) \/ d = e)
<1>1. Len(deferred) \in Nat  BY LenProperties
<1>2. /\ deferred' \in Seq(Event) /\ Len(deferred') = Len(deferred) + 1
      /\ deferred'[Len(deferred) + 1] = e
      /\ \A i \in 1..Len(deferred) : deferred'[i] = deferred[i]
    BY AppendProperties
<1> DEFINE n == Len(deferred)
<1>3. \A i : i \in 1..(n + 1) <=> (i \in 1..n \/ i = n + 1)
    <2> HIDE DEF n
    <2>1. n \in Nat  BY <1>1 DEF n
    <2> QED BY <2>1
<1>4. \A d \in Event : IsDeferred(d)' <=> (IsDeferred(d) \/ d = e)
    <2> SUFFICES ASSUME NEW d \in Event
                 PROVE  IsDeferred(d)' <=> (IsDeferred(d) \/ d = e)
        OBVIOUS
    <2>1. IsDeferred(d)' <=> \E i \in 1..(n + 1) : deferred'[i] = d
        BY <1>2 DEF IsDeferred
    <2>2. IsDeferred(d) <=> \E i \in 1..n : deferred[i] = d  BY DEF IsDeferred
    <2> HIDE DEF n
    <2>3. n + 1 \in 1..(n + 1)  BY <1>3
    <2>4. deferred'[n + 1] = e  BY <1>2 DEF n
    <2>5. \A i \in 1..n : deferred'[i] = deferred[i]  BY <1>2 DEF n
    <2> QED BY <1>3, <2>1, <2>2, <2>3, <2>4, <2>5
<1> QED BY <1>2, <1>4

(* Taking the first event off the list keeps the others, in order.         *)
LEMMA TailKeepsOthers ==
    ASSUME deferred \in Seq(Event), deferred # <<>>, deferred' = Tail(deferred)
    PROVE  /\ Head(deferred) \in Event /\ Head(deferred) = deferred[1]
           /\ Len(deferred) \in Nat \ {0}
           /\ deferred' \in Seq(Event) /\ Len(deferred') = Len(deferred) - 1
           /\ \A i \in 1..(Len(deferred) - 1) : deferred'[i] = deferred[i + 1]
           /\ \A d \in Event : IsDeferred(d) <=> (IsDeferred(d)' \/ d = Head(deferred))
<1>1. /\ Head(deferred) \in Event /\ deferred' \in Seq(Event)
      /\ Len(deferred') = Len(deferred) - 1
      /\ \A i \in 1..Len(deferred') : deferred'[i] = deferred[i + 1]
    BY HeadTailProperties
<1>2. Len(deferred) \in Nat \ {0}  BY EmptySeq, LenProperties
<1>3. Head(deferred) = deferred[1]  OBVIOUS
<1> DEFINE n == Len(deferred)
<1>4. n \in Nat \ {0}  BY <1>2
<1>5. /\ \A d : IsDeferred(d) <=> \E i \in 1..n : deferred[i] = d
      /\ \A d : IsDeferred(d)' <=> \E i \in 1..(n - 1) : deferred'[i] = d
      /\ \A i \in 1..(n - 1) : deferred'[i] = deferred[i + 1]
      /\ Head(deferred) = deferred[1]
    BY <1>1, <1>3 DEF IsDeferred
<1>6. \A d \in Event : IsDeferred(d) <=> (IsDeferred(d)' \/ d = Head(deferred))
    <2> HIDE DEF n
    <2> SUFFICES ASSUME NEW d \in Event
                 PROVE  IsDeferred(d) <=> (IsDeferred(d)' \/ d = Head(deferred))
        OBVIOUS
    <2>1. ASSUME NEW i \in 1..n, deferred[i] = d, i # 1
          PROVE  IsDeferred(d)'
        <3>1. i - 1 \in 1..(n - 1) /\ (i - 1) + 1 = i  BY <1>4, <2>1
        <3>2. deferred'[i - 1] = d  BY <1>5, <2>1, <3>1
        <3> QED BY <1>5, <3>1, <3>2
    <2>2. ASSUME NEW i \in 1..(n - 1), deferred'[i] = d
          PROVE  IsDeferred(d)
        <3>1. i + 1 \in 1..n  BY <1>4
        <3>2. deferred[i + 1] = d  BY <1>5, <2>2
        <3> QED BY <1>5, <3>1, <3>2
    <2>3. 1 \in 1..n  BY <1>4
    <2> QED BY <1>5, <2>1, <2>2, <2>3
<1> QED BY <1>1, <1>2, <1>3, <1>6

(* The events before the first of the list are settled.                    *)
LEMMA HeadIsNext ==
    ASSUME IInv, deferred # <<>>
    PROVE  /\ Head(deferred) \in Event /\ Head(deferred) \in Committed
           /\ \A d \in Earlier(Head(deferred)) : Settled(d)
<1>1. deferred \in Seq(Event)  BY DEF IInv, TypeOK
<1>2. Head(deferred) \in Event /\ Head(deferred) = deferred[1]
    BY <1>1, HeadTailProperties
<1>3. 1 \in 1..Len(deferred)
    <2>1. Len(deferred) \in Nat /\ Len(deferred) # 0  BY <1>1, EmptySeq, LenProperties
    <2> QED BY <2>1
<1>4. IsDeferred(Head(deferred))  BY <1>2, <1>3 DEF IsDeferred
<1>5. \A d \in Earlier(deferred[1]) : Settled(d) \/ \E j \in 1..(1-1) : deferred[j] = d
    BY <1>3 DEF IInv, DeferredInOrder
<1>6. \A j : j \notin 1..(1-1)  OBVIOUS
<1> QED BY <1>2, <1>4, <1>5, <1>6 DEF IInv, OnlyCommitted

(* Deferring an event whose predecessors are settled or deferred keeps the *)
(* list in order.                                                          *)
LEMMA AppendInOrder ==
    ASSUME IInv, NEW e \in Event, deferred' = Append(deferred, e),
           UNCHANGED <<status, arrived, dead, dropped>>,
           \A d \in Earlier(e) : Settled(d) \/ IsDeferred(d)
    PROVE  DeferredInOrder'
<1>1. deferred \in Seq(Event) /\ Len(deferred) \in Nat
    BY LenProperties DEF IInv, TypeOK
<1> DEFINE n == Len(deferred)
<1>2. /\ Len(deferred') = n + 1 /\ deferred'[n + 1] = e
      /\ \A i \in 1..n : deferred'[i] = deferred[i]
    BY <1>1, AppendDefers
<1>3. \A d : Settled(d)' <=> Settled(d)  BY DEF Settled
<1>4. \A d : IsDeferred(d) => \E j \in 1..n : deferred[j] = d  BY DEF IsDeferred
<1>5. \A i \in 1..n : \A d \in Earlier(deferred[i]) :
        Settled(d) \/ \E j \in 1..(i-1) : deferred[j] = d
    BY DEF IInv, DeferredInOrder
<1>6. n \in Nat  BY <1>1
<1> HIDE DEF n
<1> SUFFICES ASSUME NEW i \in 1..(n + 1), NEW d \in Earlier(deferred'[i]), ~Settled(d)
             PROVE  \E j \in 1..(i-1) : deferred'[j] = d
    BY <1>2, <1>3 DEF DeferredInOrder, Earlier
<1>7. CASE i = n + 1
    <2>1. IsDeferred(d)  BY <1>2, <1>7
    <2>2. PICK j \in 1..n : deferred[j] = d  BY <1>4, <2>1
    <2>3. j \in 1..(i-1)  BY <1>6, <1>7
    <2> QED BY <1>2, <2>2, <2>3
<1>8. CASE i # n + 1
    <2>1. i \in 1..n  BY <1>6, <1>8
    <2>2. PICK j \in 1..(i-1) : deferred[j] = d  BY <1>2, <1>5, <2>1
    <2>3. j \in 1..n  BY <1>6, <2>1
    <2> QED BY <1>2, <2>2, <2>3
<1> QED BY <1>7, <1>8

(* Sending the first of the list keeps the rest in order.                  *)
LEMMA TailInOrder ==
    ASSUME IInv, deferred # <<>>, deferred' = Tail(deferred),
           arrived' = arrived \cup {Head(deferred)}, UNCHANGED <<status, dead, dropped>>
    PROVE  DeferredInOrder'
<1> DEFINE n == Len(deferred)
<1>1. /\ n \in Nat \ {0} /\ Head(deferred) = deferred[1]
      /\ Len(deferred') = n - 1
      /\ \A i \in 1..(n - 1) : deferred'[i] = deferred[i + 1]
    BY TailKeepsOthers DEF IInv, TypeOK
<1>2. \A d : Settled(d) \/ d = Head(deferred) => Settled(d)'  BY DEF Settled
<1>3. \A i \in 1..n : \A d \in Earlier(deferred[i]) :
        Settled(d) \/ \E j \in 1..(i-1) : deferred[j] = d
    BY DEF IInv, DeferredInOrder
<1> HIDE DEF n
<1> SUFFICES ASSUME NEW i \in 1..(n - 1), NEW d \in Earlier(deferred'[i]), ~Settled(d)'
             PROVE  \E j \in 1..(i-1) : deferred'[j] = d
    BY <1>1 DEF DeferredInOrder, Earlier
<1>4. i + 1 \in 1..n /\ d \in Earlier(deferred[i + 1])  BY <1>1
<1>5. PICK j \in 1..((i + 1) - 1) : deferred[j] = d  BY <1>2, <1>3, <1>4
<1>6. j # 1  BY <1>1, <1>2, <1>5
<1>7. j - 1 \in 1..(i-1) /\ j - 1 \in 1..(n - 1) /\ (j - 1) + 1 = j  BY <1>1, <1>5, <1>6
<1> QED BY <1>1, <1>5, <1>7

------------------------------------------------------------------------------
(* The invariant holds initially: nothing has been written or read.        *)
LEMMA IInvInit == Init => IInv
<1> SUFFICES ASSUME Init PROVE IInv  OBVIOUS
<1> USE DEF Init
<1>1. deferred \in Seq(Event) /\ Len(deferred) = 0  BY EmptySeq
<1>2. \A i : i \notin 1..Len(deferred)  BY <1>1
<1>3. \A e : ~IsDeferred(e)  BY <1>2 DEF IsDeferred
<1>4. TypeOK  BY <1>1 DEF TypeOK, GateState
<1>5. LostOnlyBeforeActivation /\ FailedIsDead /\ FailingHasRow /\ OneAtATime
    BY DEF LostOnlyBeforeActivation, FailedIsDead, FailingHasRow, OneAtATime
<1>6. OnlyCommitted /\ DoneIsSentOrDeferred /\ OpenIsEmpty /\ NoGaps /\ LateIsNext
    BY <1>3 DEF OnlyCommitted, DoneIsSentOrDeferred, OpenIsEmpty, NoGaps, LateIsNext
<1>7. DeferredInOrder  BY <1>2 DEF DeferredInOrder
<1> QED BY <1>4, <1>5, <1>6, <1>7 DEF IInv

(* A new envelope: its predecessors of the same order have been decided.   *)
LEMMA BuildEnvelopeStep ==
    ASSUME IInv, NEW e \in Event, BuildEnvelope(e)
    PROVE  IInv'
<1> USE DEF IInv, BuildEnvelope, Event, rows, bus, flushes, startup, Committed,
            RowStatus
<1>1. TypeOK'
    BY EventAssumption DEF TypeOK, GateState
<1>2. LostOnlyBeforeActivation'
    BY EventAssumption DEF TypeOK, LostOnlyBeforeActivation, IsDeferred
<1>3. OnlyCommitted'
    BY EventAssumption DEF TypeOK, OnlyCommitted, IsDeferred
<1>4. DoneIsSentOrDeferred'
    BY EventAssumption DEF TypeOK, DoneIsSentOrDeferred, IsDeferred
<1>5. FailedIsDead'
    BY EventAssumption DEF TypeOK, FailedIsDead
<1>6. FailingHasRow'
    BY EventAssumption DEF TypeOK, FailingHasRow
<1>7. OpenIsEmpty'
    BY EventAssumption DEF TypeOK, OpenIsEmpty, IsDeferred
<1>8. OneAtATime'
    BY EventAssumption DEF TypeOK, OneAtATime, Earlier
<1>9. NoGaps'
    BY EventAssumption DEF TypeOK, NoGaps, Settled, Earlier, IsDeferred
<1>10. LateIsNext'
    BY EventAssumption DEF TypeOK, LateIsNext, Settled, Earlier
<1>11. DeferredInOrder'
    BY EventAssumption DEF TypeOK, DeferredInOrder, Settled, Earlier
<1> QED BY <1>1, <1>2, <1>3, <1>4, <1>5, <1>6, <1>7, <1>8, <1>9, <1>10, <1>11

(* A commit turns the open event into a PENDING row.                       *)
LEMMA CommitStep ==
    ASSUME IInv, NEW e \in Event, Commit(e)
    PROVE  IInv'
<1> USE DEF IInv, Commit, Event, rows, bus, flushes, startup, Committed, RowStatus
<1>1. TypeOK'
    BY EventAssumption DEF TypeOK, GateState
<1>2. LostOnlyBeforeActivation'
    BY EventAssumption DEF TypeOK, LostOnlyBeforeActivation, IsDeferred
<1>3. OnlyCommitted'
    BY EventAssumption DEF TypeOK, OnlyCommitted, IsDeferred
<1>4. DoneIsSentOrDeferred'
    BY EventAssumption DEF TypeOK, DoneIsSentOrDeferred, IsDeferred
<1>5. FailedIsDead'
    BY EventAssumption DEF TypeOK, FailedIsDead
<1>6. FailingHasRow'
    BY EventAssumption DEF TypeOK, FailingHasRow
<1>7. OpenIsEmpty'
    BY EventAssumption DEF TypeOK, OpenIsEmpty, IsDeferred
<1>8. OneAtATime'
    BY EventAssumption DEF TypeOK, OneAtATime, Earlier
<1>9. NoGaps'
    BY EventAssumption DEF TypeOK, NoGaps, Settled, Earlier, IsDeferred
<1>10. LateIsNext'
    BY EventAssumption DEF TypeOK, LateIsNext, Settled, Earlier
<1>11. DeferredInOrder'
    BY EventAssumption DEF TypeOK, DeferredInOrder, Settled, Earlier
<1> QED BY <1>1, <1>2, <1>3, <1>4, <1>5, <1>6, <1>7, <1>8, <1>9, <1>10, <1>11

(* A rollback: the event never becomes a row.                              *)
LEMMA RollbackStep ==
    ASSUME IInv, NEW e \in Event, Rollback(e)
    PROVE  IInv'
<1> USE DEF IInv, Rollback, Event, rows, bus, flushes, startup, Committed, RowStatus
<1>1. TypeOK'
    BY EventAssumption DEF TypeOK, GateState
<1>2. LostOnlyBeforeActivation'
    BY EventAssumption DEF TypeOK, LostOnlyBeforeActivation, IsDeferred
<1>3. OnlyCommitted'
    BY EventAssumption DEF TypeOK, OnlyCommitted, IsDeferred
<1>4. DoneIsSentOrDeferred'
    BY EventAssumption DEF TypeOK, DoneIsSentOrDeferred, IsDeferred
<1>5. FailedIsDead'
    BY EventAssumption DEF TypeOK, FailedIsDead
<1>6. FailingHasRow'
    BY EventAssumption DEF TypeOK, FailingHasRow
<1>7. OpenIsEmpty'
    BY EventAssumption DEF TypeOK, OpenIsEmpty, IsDeferred
<1>8. OneAtATime'
    BY EventAssumption DEF TypeOK, OneAtATime, Earlier
<1>9. NoGaps'
    BY EventAssumption DEF TypeOK, NoGaps, Settled, Earlier, IsDeferred
<1>10. LateIsNext'
    BY EventAssumption DEF TypeOK, LateIsNext, Settled, Earlier
<1>11. DeferredInOrder'
    BY EventAssumption DEF TypeOK, DeferredInOrder, Settled, Earlier
<1> QED BY <1>1, <1>2, <1>3, <1>4, <1>5, <1>6, <1>7, <1>8, <1>9, <1>10, <1>11

(* A publish that had timed out arrives after all.                         *)
LEMMA LateArrivalStep ==
    ASSUME IInv, NEW e \in Event, LateArrival(e)
    PROVE  IInv'
<1> USE DEF IInv, LateArrival, Event, rows, bus, flushes, startup, Committed, RowStatus
<1>1. TypeOK'
    BY EventAssumption DEF TypeOK, GateState
<1>2. LostOnlyBeforeActivation'
    BY EventAssumption DEF TypeOK, LostOnlyBeforeActivation, IsDeferred
<1>3. OnlyCommitted'
    BY EventAssumption DEF TypeOK, OnlyCommitted, IsDeferred
<1>4. DoneIsSentOrDeferred'
    BY EventAssumption DEF TypeOK, DoneIsSentOrDeferred, IsDeferred
<1>5. FailedIsDead'
    BY EventAssumption DEF TypeOK, FailedIsDead
<1>6. FailingHasRow'
    BY EventAssumption DEF TypeOK, FailingHasRow
<1>7. OpenIsEmpty'
    BY EventAssumption DEF TypeOK, OpenIsEmpty, IsDeferred
<1>8. OneAtATime'
    BY EventAssumption DEF TypeOK, OneAtATime, Earlier
<1>9. NoGaps'
    BY EventAssumption DEF TypeOK, NoGaps, Settled, Earlier, IsDeferred
<1>10. LateIsNext'
    BY EventAssumption DEF TypeOK, LateIsNext, Settled, Earlier
<1>11. DeferredInOrder'
    BY EventAssumption DEF TypeOK, DeferredInOrder, Settled, Earlier
<1> QED BY <1>1, <1>2, <1>3, <1>4, <1>5, <1>6, <1>7, <1>8, <1>9, <1>10, <1>11

(* A flush reads the oldest PENDING rows: older ones are settled, deferred *)
(* or read.                                                                *)
LEMMA FlushStartStep ==
    ASSUME IInv, NEW f \in Flusher, FlushStart(f)
    PROVE  IInv'
<1> USE DEF IInv, FlushStart, Event, rows, bus, flushes, startup, Committed, RowStatus
<1>a. \A x \in PendingRows : x \in Event /\ status[x] = "PENDING"
    BY DEF PendingRows
<1>b. \A x \in PendingRows : \A d \in Earlier(x) :
        Settled(d) \/ IsDeferred(d) \/ d \in PendingRows
    <2> SUFFICES ASSUME NEW x \in PendingRows, NEW d \in Earlier(x)
                 PROVE  Settled(d) \/ IsDeferred(d) \/ d \in PendingRows
        OBVIOUS
    <2>1. d \in Event /\ d < x  BY DEF Earlier
    <2>2. status[d] \in RowStatus \cup {"aborted"}
        BY <1>a, <2>1 DEF IInv, OneAtATime, TypeOK
    <2>3. CASE status[d] = "PENDING"  BY <2>1, <2>3, PendingRowsDownClosed
    <2>4. CASE status[d] = "PUBLISHED"
        BY <2>1, <2>4 DEF IInv, LostOnlyBeforeActivation, Settled
    <2>5. CASE status[d] = "FAILED"  BY <2>1, <2>5 DEF IInv, FailedIsDead, Settled
    <2>6. CASE status[d] = "aborted"  BY <2>6 DEF Settled
    <2> QED BY <2>2, <2>3, <2>4, <2>5, <2>6 DEF RowStatus
<1>1. TypeOK'
    BY <1>a DEF TypeOK, GateState
<1>2. LostOnlyBeforeActivation'
    BY EventAssumption DEF TypeOK, LostOnlyBeforeActivation, IsDeferred
<1>3. OnlyCommitted'
    BY <1>a DEF TypeOK, OnlyCommitted, IsDeferred
<1>4. DoneIsSentOrDeferred'
    BY EventAssumption DEF TypeOK, DoneIsSentOrDeferred, IsDeferred
<1>5. FailedIsDead'
    BY EventAssumption DEF TypeOK, FailedIsDead
<1>6. FailingHasRow'
    BY EventAssumption DEF TypeOK, FailingHasRow
<1>7. OpenIsEmpty'
    BY EventAssumption DEF TypeOK, OpenIsEmpty, IsDeferred
<1>8. OneAtATime'
    BY EventAssumption DEF TypeOK, OneAtATime, Earlier
<1>9. NoGaps'
    BY <1>a, <1>b DEF TypeOK, NoGaps, Settled, Earlier, IsDeferred
<1>10. LateIsNext'
    BY EventAssumption DEF TypeOK, LateIsNext, Settled, Earlier
<1>11. DeferredInOrder'
    BY EventAssumption DEF TypeOK, DeferredInOrder, Settled, Earlier
<1> QED BY <1>1, <1>2, <1>3, <1>4, <1>5, <1>6, <1>7, <1>8, <1>9, <1>10, <1>11

(* The bus stores the first event of a list.                               *)
LEMMA PublishSucceedsStep ==
    ASSUME IInv, NEW f \in Flusher, NEW e \in Event, PublishSucceeds(f, e)
    PROVE  IInv'
<1> USE DEF IInv, PublishSucceeds, Event, rows, bus, flushes, startup, Committed,
            RowStatus
<1>a. e \in todo[f] /\ \A d \in todo[f] : e <= d  BY DEF At
<1>b. e \in Event /\ status[e] \in RowStatus  BY <1>a DEF OnlyCommitted
<1>1. TypeOK'
    BY EventAssumption DEF TypeOK, GateState
<1>2. LostOnlyBeforeActivation'
    BY EventAssumption DEF TypeOK, LostOnlyBeforeActivation, IsDeferred
<1>3. OnlyCommitted'
    BY <1>a, <1>b DEF TypeOK, OnlyCommitted, IsDeferred
<1>4. DoneIsSentOrDeferred'
    BY EventAssumption DEF TypeOK, DoneIsSentOrDeferred, IsDeferred
<1>5. FailedIsDead'
    BY EventAssumption DEF TypeOK, FailedIsDead
<1>6. FailingHasRow'
    BY EventAssumption DEF TypeOK, FailingHasRow
<1>7. OpenIsEmpty'
    BY EventAssumption DEF TypeOK, OpenIsEmpty, IsDeferred
<1>8. OneAtATime'
    BY EventAssumption DEF TypeOK, OneAtATime, Earlier
<1>9. NoGaps'
    BY EventAssumption DEF TypeOK, NoGaps, Settled, Earlier, IsDeferred
<1>10. LateIsNext'
    BY EventAssumption DEF TypeOK, LateIsNext, Settled, Earlier
<1>11. DeferredInOrder'
    BY EventAssumption DEF TypeOK, DeferredInOrder, Settled, Earlier
<1> QED BY <1>1, <1>2, <1>3, <1>4, <1>5, <1>6, <1>7, <1>8, <1>9, <1>10, <1>11

(* The first event of a list is deferred.                                  *)
LEMMA DeferStep ==
    ASSUME IInv, NEW f \in Flusher, NEW e \in Event, Defer(f, e)
    PROVE  IInv'
<1> USE DEF IInv, Defer, Event, rows, bus, flushes, startup, Committed, RowStatus
<1>a. e \in todo[f] /\ \A d \in todo[f] : e <= d  BY DEF At
<1>b. e \in Event /\ status[e] \in RowStatus  BY <1>a DEF OnlyCommitted
<1>c. \A d \in Earlier(e) : Settled(d) \/ IsDeferred(d)
    BY <1>a, <1>b, EventAssumption DEF NoGaps, Earlier
<1>d. /\ deferred' \in Seq(Event)
      /\ \A d \in Event : IsDeferred(d)' <=> (IsDeferred(d) \/ d = e)
    <2>1. deferred \in Seq(Event) /\ deferred' = Append(deferred, e)  BY DEF TypeOK
    <2> QED BY <2>1, AppendDefers
<1>e. gate # "open" /\ gate' = gate  OBVIOUS
<1>1. TypeOK'
    BY <1>a, <1>b, <1>d, <1>e, EventAssumption DEF TypeOK, GateState
<1>2. LostOnlyBeforeActivation'
    BY <1>a, <1>b, <1>d, <1>e, EventAssumption DEF TypeOK, LostOnlyBeforeActivation
<1>3. OnlyCommitted'
    BY <1>a, <1>b, <1>d, <1>e, EventAssumption DEF TypeOK, OnlyCommitted
<1>4. DoneIsSentOrDeferred'
    BY <1>a, <1>b, <1>d, <1>e, EventAssumption DEF TypeOK, DoneIsSentOrDeferred
<1>5. FailedIsDead'
    BY <1>a, <1>b, <1>d, <1>e, EventAssumption DEF TypeOK, FailedIsDead
<1>6. FailingHasRow'
    BY <1>a, <1>b, <1>d, <1>e, EventAssumption DEF TypeOK, FailingHasRow
<1>7. OpenIsEmpty'
    BY <1>a, <1>b, <1>d, <1>e, EventAssumption DEF TypeOK, OpenIsEmpty
<1>8. OneAtATime'
    BY <1>a, <1>b, <1>d, <1>e, EventAssumption DEF TypeOK, OneAtATime, Earlier
<1>9. NoGaps'
    BY <1>a, <1>b, <1>d, <1>e, EventAssumption DEF TypeOK, NoGaps, Settled, Earlier
<1>10. LateIsNext'
    BY <1>a, <1>b, <1>d, <1>e, EventAssumption DEF TypeOK, LateIsNext, Settled, Earlier
<1>11. DeferredInOrder'
    BY <1>c, AppendInOrder
<1> QED BY <1>1, <1>2, <1>3, <1>4, <1>5, <1>6, <1>7, <1>8, <1>9, <1>10, <1>11

(* A publish fails; what it left on its way was the first of a list.       *)
LEMMA PublishRaisesStep ==
    ASSUME IInv, NEW f \in Flusher, NEW e \in Event, PublishRaises(f, e)
    PROVE  IInv'
<1> USE DEF IInv, PublishRaises, AnswerMissing, Event, rows, bus, flushes, startup,
            Committed, RowStatus
<1>a. e \in todo[f] /\ \A d \in todo[f] : e <= d  BY DEF At
<1>b. e \in Event /\ status[e] \in RowStatus  BY <1>a DEF OnlyCommitted
<1>c. gate = "open" => \A d \in Earlier(e) : Settled(d)
    BY <1>a, <1>b, EventAssumption DEF NoGaps, Earlier, OpenIsEmpty
<1>1. TypeOK'
    BY EventAssumption DEF TypeOK, GateState
<1>2. LostOnlyBeforeActivation'
    BY EventAssumption DEF TypeOK, LostOnlyBeforeActivation, IsDeferred
<1>3. OnlyCommitted'
    BY <1>a, <1>b DEF TypeOK, OnlyCommitted, IsDeferred
<1>4. DoneIsSentOrDeferred'
    BY EventAssumption DEF TypeOK, DoneIsSentOrDeferred, IsDeferred
<1>5. FailedIsDead'
    BY EventAssumption DEF TypeOK, FailedIsDead
<1>6. FailingHasRow'
    BY <1>a DEF TypeOK, FailingHasRow
<1>7. OpenIsEmpty'
    BY EventAssumption DEF TypeOK, OpenIsEmpty, IsDeferred
<1>8. OneAtATime'
    BY EventAssumption DEF TypeOK, OneAtATime, Earlier
<1>9. NoGaps'
    BY EventAssumption DEF TypeOK, NoGaps, Settled, Earlier, IsDeferred
<1>10. LateIsNext'
    BY <1>c DEF TypeOK, LateIsNext, Settled, Earlier
<1>11. DeferredInOrder'
    BY EventAssumption DEF TypeOK, DeferredInOrder, Settled, Earlier
<1> QED BY <1>1, <1>2, <1>3, <1>4, <1>5, <1>6, <1>7, <1>8, <1>9, <1>10, <1>11

(* Published rows are marked, whatever has become of them meanwhile.       *)
LEMMA MarkPublishedStep ==
    ASSUME IInv, NEW f \in Flusher, MarkPublished(f)
    PROVE  IInv'
<1> USE DEF IInv, MarkPublished, rows, bus, flushes, startup, Committed, RowStatus
<1>a. \A x \in done[f] :
        /\ x \in Event /\ status[x] \in RowStatus
        /\ x \in arrived \/ (IsDeferred(x) /\ gate # "open")
    BY DEF OnlyCommitted, DoneIsSentOrDeferred, OpenIsEmpty, TypeOK
<1>e. \A x \in done[f] : status[x] \notin {"none", "open", "aborted"}
    BY <1>a
<1>b. \A x \in Event : status'[x] = IF x \in done[f] THEN "PUBLISHED" ELSE status[x]
    OBVIOUS
<1>c. \A x \in Event : Settled(x) => Settled(x)'
    <2>1. UNCHANGED <<arrived, dead, dropped>>  OBVIOUS
    <2>2. \A x \in Event : status[x] = "aborted" => status'[x] = "aborted"
        <3> SUFFICES ASSUME NEW x \in Event, status[x] = "aborted"
                     PROVE  x \notin done[f]
            BY <1>b
        <3> QED BY <1>e
    <2> HIDE DEF IInv, MarkPublished
    <2> QED BY <2>1, <2>2 DEF Settled
<1>d. \A x \in Event : Earlier(x) \subseteq Event  BY DEF Earlier
<1>1. TypeOK'
    <2>1. status' \in [Event -> RowStatus \cup {"none", "open", "aborted"}]  BY DEF TypeOK
    <2>2. attempts' \in [Event -> Nat]
        <3>1. \A x \in Event : attempts[x] \in Nat /\ attempts[x] + 1 \in Nat  BY DEF TypeOK
        <3> QED BY <3>1
    <2> QED BY <2>1, <2>2 DEF TypeOK
<1>2. LostOnlyBeforeActivation'
    BY <1>a DEF TypeOK, LostOnlyBeforeActivation, IsDeferred
<1>3. OnlyCommitted'
    BY <1>a DEF TypeOK, OnlyCommitted, IsDeferred
<1>4. DoneIsSentOrDeferred'
    BY EventAssumption DEF TypeOK, DoneIsSentOrDeferred, IsDeferred
<1>5. FailedIsDead'
    BY EventAssumption DEF TypeOK, FailedIsDead
<1>6. FailingHasRow'
    BY EventAssumption DEF TypeOK, FailingHasRow
<1>7. OpenIsEmpty'
    BY EventAssumption DEF TypeOK, OpenIsEmpty, IsDeferred
<1>8. OneAtATime'
    <2>1. \A x \in Event :
            /\ status'[x] # "none" => status[x] # "none"
            /\ status[x] \notin {"none", "open"} => status'[x] \notin {"none", "open"}
        BY <1>b, <1>e
    <2>2. \A x : Earlier(x)' = Earlier(x)  BY DEF Earlier
    <2> SUFFICES ASSUME NEW x \in Event, status'[x] # "none", NEW d \in Earlier(x)
                 PROVE  status'[d] \notin {"none", "open"}
        BY <2>2 DEF OneAtATime
    <2>4. status[d] \notin {"none", "open"}  
        <3>1. OneAtATime /\ d \in Event /\ status[x] # "none"  BY <1>d, <2>1
        <3> QED BY <3>1 DEF OneAtATime
    <2> QED BY <1>d, <2>1, <2>4
<1>9. NoGaps'
    BY <1>a DEF TypeOK, NoGaps, Settled, Earlier, IsDeferred
<1>10. LateIsNext'
    <2>1. late' = late /\ late \subseteq Event  BY DEF TypeOK
    <2>2. \A x : Earlier(x)' = Earlier(x)  BY DEF Earlier
    <2> QED BY <1>c, <1>d, <2>1, <2>2 DEF LateIsNext
<1>11. DeferredInOrder'
    <2>1. \A x : Earlier(x)' = Earlier(x) /\ Earlier(x) \subseteq Event  BY DEF Earlier
    <2>2. deferred' = deferred  OBVIOUS
    <2> QED BY <1>c, <2>1, <2>2 DEF DeferredInOrder
<1> QED BY <1>1, <1>2, <1>3, <1>4, <1>5, <1>6, <1>7, <1>8, <1>9, <1>10, <1>11

(* A failed attempt is counted: the row is FAILED, or the flush ends.      *)
LEMMA RecordFailureStep ==
    ASSUME IInv, NEW f \in Flusher, NEW e \in Event, RecordFailure(f, e)
    PROVE  IInv'
<1> USE DEF IInv, RecordFailure, Event, rows, bus, flushes, startup, Committed,
            RowStatus
<1> DEFINE after == StatusAfterFailure(e)
<1>a. e \in todo[f] /\ \A d \in todo[f] : e <= d  BY DEF At
<1>b. e \in Event /\ status[e] \in RowStatus  BY <1>a DEF OnlyCommitted
<1>c. after \in RowStatus /\ (after = status[e] \/ after = "FAILED")
    BY <1>b DEF StatusAfterFailure
<1>d. /\ status' = [status EXCEPT ![e] = after]
      /\ dead' = IF after = "FAILED" THEN dead \cup {e} ELSE dead
      /\ todo' = [todo EXCEPT ![f] = IF after = "FAILED" THEN @ \ {e} ELSE {}]
    OBVIOUS
<1> HIDE DEF after
<1>1. TypeOK'
    BY <1>a, <1>b, <1>c, <1>d DEF TypeOK, GateState
<1>2. LostOnlyBeforeActivation'
    BY <1>a, <1>b, <1>c, <1>d DEF TypeOK, LostOnlyBeforeActivation, IsDeferred
<1>3. OnlyCommitted'
    BY <1>a, <1>b, <1>c, <1>d DEF TypeOK, OnlyCommitted, IsDeferred
<1>4. DoneIsSentOrDeferred'
    BY <1>a, <1>b, <1>c, <1>d DEF TypeOK, DoneIsSentOrDeferred, IsDeferred
<1>5. FailedIsDead'
    BY <1>a, <1>b, <1>c, <1>d DEF TypeOK, FailedIsDead
<1>6. FailingHasRow'
    BY <1>a, <1>b, <1>c, <1>d DEF TypeOK, FailingHasRow
<1>7. OpenIsEmpty'
    BY <1>a, <1>b, <1>c, <1>d DEF TypeOK, OpenIsEmpty, IsDeferred
<1>8. OneAtATime'
    BY <1>a, <1>b, <1>c, <1>d DEF TypeOK, OneAtATime, Earlier
<1>9. NoGaps'
    BY <1>a, <1>b, <1>c, <1>d DEF TypeOK, NoGaps, Settled, Earlier, IsDeferred
<1>10. LateIsNext'
    BY <1>a, <1>b, <1>c, <1>d DEF TypeOK, LateIsNext, Settled, Earlier
<1>11. DeferredInOrder'
    BY <1>a, <1>b, <1>c, <1>d DEF TypeOK, DeferredInOrder, Settled, Earlier
<1> QED BY <1>1, <1>2, <1>3, <1>4, <1>5, <1>6, <1>7, <1>8, <1>9, <1>10, <1>11

(* A flush is given up.                                                    *)
LEMMA FlushRaisesStep ==
    ASSUME IInv, NEW f \in Flusher, FlushRaises(f)
    PROVE  IInv'
<1> USE DEF IInv, FlushRaises, Fault, Event, rows, bus, flushes, startup, Committed,
            RowStatus
<1>1. TypeOK'
    BY EventAssumption DEF TypeOK, GateState
<1>2. LostOnlyBeforeActivation'
    BY EventAssumption DEF TypeOK, LostOnlyBeforeActivation, IsDeferred
<1>3. OnlyCommitted'
    BY EventAssumption DEF TypeOK, OnlyCommitted, IsDeferred
<1>4. DoneIsSentOrDeferred'
    BY EventAssumption DEF TypeOK, DoneIsSentOrDeferred, IsDeferred
<1>5. FailedIsDead'
    BY EventAssumption DEF TypeOK, FailedIsDead
<1>6. FailingHasRow'
    BY EventAssumption DEF TypeOK, FailingHasRow
<1>7. OpenIsEmpty'
    BY EventAssumption DEF TypeOK, OpenIsEmpty, IsDeferred
<1>8. OneAtATime'
    BY EventAssumption DEF TypeOK, OneAtATime, Earlier
<1>9. NoGaps'
    BY EventAssumption DEF TypeOK, NoGaps, Settled, Earlier, IsDeferred
<1>10. LateIsNext'
    BY EventAssumption DEF TypeOK, LateIsNext, Settled, Earlier
<1>11. DeferredInOrder'
    BY EventAssumption DEF TypeOK, DeferredInOrder, Settled, Earlier
<1> QED BY <1>1, <1>2, <1>3, <1>4, <1>5, <1>6, <1>7, <1>8, <1>9, <1>10, <1>11

(* The activation begins.                                                  *)
LEMMA ActivationStartsStep ==
    ASSUME IInv, ActivationStarts
    PROVE  IInv'
<1> USE DEF IInv, ActivationStarts, Event, rows, bus, flushes, startup, Committed,
            RowStatus
<1>1. TypeOK'
    BY EventAssumption DEF TypeOK, GateState
<1>2. LostOnlyBeforeActivation'
    BY EventAssumption DEF TypeOK, LostOnlyBeforeActivation, IsDeferred
<1>3. OnlyCommitted'
    BY EventAssumption DEF TypeOK, OnlyCommitted, IsDeferred
<1>4. DoneIsSentOrDeferred'
    BY EventAssumption DEF TypeOK, DoneIsSentOrDeferred, IsDeferred
<1>5. FailedIsDead'
    BY EventAssumption DEF TypeOK, FailedIsDead
<1>6. FailingHasRow'
    BY EventAssumption DEF TypeOK, FailingHasRow
<1>7. OpenIsEmpty'
    BY EventAssumption DEF TypeOK, OpenIsEmpty, IsDeferred
<1>8. OneAtATime'
    BY EventAssumption DEF TypeOK, OneAtATime, Earlier
<1>9. NoGaps'
    BY EventAssumption DEF TypeOK, NoGaps, Settled, Earlier, IsDeferred
<1>10. LateIsNext'
    BY EventAssumption DEF TypeOK, LateIsNext, Settled, Earlier
<1>11. DeferredInOrder'
    BY EventAssumption DEF TypeOK, DeferredInOrder, Settled, Earlier
<1> QED BY <1>1, <1>2, <1>3, <1>4, <1>5, <1>6, <1>7, <1>8, <1>9, <1>10, <1>11

(* The first deferred event is sent.                                       *)
LEMMA ActivationSendsStep ==
    ASSUME IInv, ActivationSends
    PROVE  IInv'
<1> USE DEF IInv, ActivationSends, Event, rows, bus, flushes, startup, Committed,
            RowStatus
<1>a. /\ Head(deferred) \in Event /\ Head(deferred) \in Committed
      /\ \A d \in Earlier(Head(deferred)) : Settled(d)
    BY HeadIsNext
<1>b. /\ deferred' \in Seq(Event)
      /\ \A d \in Event : IsDeferred(d) <=> (IsDeferred(d)' \/ d = Head(deferred))
    <2>1. deferred \in Seq(Event)  BY DEF TypeOK
    <2> QED BY <2>1, TailKeepsOthers
<1> DEFINE h == Head(deferred)
<1>c. arrived' = arrived \cup {h}  OBVIOUS
<1>1. TypeOK'
    BY <1>a, <1>b, EventAssumption DEF TypeOK, GateState
<1>2. LostOnlyBeforeActivation'
    BY <1>a, <1>b, EventAssumption DEF TypeOK, LostOnlyBeforeActivation
<1>3. OnlyCommitted'
    BY <1>a, <1>b, EventAssumption DEF TypeOK, OnlyCommitted
<1>4. DoneIsSentOrDeferred'
    BY <1>a, <1>b, EventAssumption DEF TypeOK, DoneIsSentOrDeferred
<1>5. FailedIsDead'
    BY <1>a, <1>b, EventAssumption DEF TypeOK, FailedIsDead
<1>6. FailingHasRow'
    BY <1>a, <1>b, EventAssumption DEF TypeOK, FailingHasRow
<1>7. OpenIsEmpty'
    BY <1>a, <1>b, EventAssumption DEF TypeOK, OpenIsEmpty
<1>8. OneAtATime'
    BY <1>a, <1>b, EventAssumption DEF TypeOK, OneAtATime, Earlier
<1>9. NoGaps'
    BY <1>a, <1>b, EventAssumption DEF TypeOK, NoGaps, Settled, Earlier
<1>10. LateIsNext'
    BY <1>a, <1>b, EventAssumption DEF TypeOK, LateIsNext, Settled, Earlier
<1>11. DeferredInOrder'
    BY TailInOrder
<1> QED BY <1>1, <1>2, <1>3, <1>4, <1>5, <1>6, <1>7, <1>8, <1>9, <1>10, <1>11

(* The gate opens on an empty list.                                        *)
LEMMA ActivationEndsStep ==
    ASSUME IInv, ActivationEnds
    PROVE  IInv'
<1> USE DEF IInv, ActivationEnds, Event, rows, bus, flushes, startup, Committed,
            RowStatus
<1>a. \A e : ~IsDeferred(e)
    <2>1. Len(deferred) = 0  BY EmptySeq
    <2>2. \A i : i \notin 1..Len(deferred)  BY <2>1
    <2> QED BY <2>2 DEF IsDeferred
<1>b. \A e : ~IsDeferred(e)'  BY <1>a DEF IsDeferred
<1>1. TypeOK'
    BY <1>a, <1>b, EventAssumption DEF TypeOK, GateState
<1>2. LostOnlyBeforeActivation'
    BY <1>a, <1>b, EventAssumption DEF TypeOK, LostOnlyBeforeActivation
<1>3. OnlyCommitted'
    BY <1>a, <1>b, EventAssumption DEF TypeOK, OnlyCommitted
<1>4. DoneIsSentOrDeferred'
    BY <1>a, <1>b, EventAssumption DEF TypeOK, DoneIsSentOrDeferred
<1>5. FailedIsDead'
    BY <1>a, <1>b, EventAssumption DEF TypeOK, FailedIsDead
<1>6. FailingHasRow'
    BY <1>a, <1>b, EventAssumption DEF TypeOK, FailingHasRow
<1>7. OpenIsEmpty'
    BY <1>a, <1>b, EventAssumption DEF TypeOK, OpenIsEmpty
<1>8. OneAtATime'
    BY <1>a, <1>b, EventAssumption DEF TypeOK, OneAtATime, Earlier
<1>9. NoGaps'
    BY <1>a, <1>b, EventAssumption DEF TypeOK, NoGaps, Settled, Earlier
<1>10. LateIsNext'
    BY <1>a, <1>b, EventAssumption DEF TypeOK, LateIsNext, Settled, Earlier
<1>11. DeferredInOrder'
    BY <1>a, <1>b, EventAssumption DEF TypeOK, DeferredInOrder, Settled, Earlier
<1> QED BY <1>1, <1>2, <1>3, <1>4, <1>5, <1>6, <1>7, <1>8, <1>9, <1>10, <1>11

(* The first deferred event was sent, and no answer seen.                  *)
LEMMA ActivationFailsStep ==
    ASSUME IInv, ActivationFails
    PROVE  IInv'
<1> USE DEF IInv, ActivationFails, AnswerMissing, Fault, Event, rows, bus, flushes,
            startup, Committed, RowStatus
<1>a. /\ Head(deferred) \in Event /\ Head(deferred) \in Committed
      /\ \A d \in Earlier(Head(deferred)) : Settled(d)
    BY HeadIsNext
<1>1. TypeOK'
    <2>1. arrived' \subseteq Event /\ late' \subseteq Event  BY <1>a DEF TypeOK
    <2>2. faults' \in Nat /\ gate' \in GateState  BY DEF TypeOK, GateState
    <2> QED BY <2>1, <2>2 DEF TypeOK
<1>2. LostOnlyBeforeActivation'
    BY <1>a, EventAssumption DEF TypeOK, LostOnlyBeforeActivation, IsDeferred
<1>3. OnlyCommitted'
    BY <1>a, EventAssumption DEF TypeOK, OnlyCommitted, IsDeferred
<1>4. DoneIsSentOrDeferred'
    BY <1>a, EventAssumption DEF TypeOK, DoneIsSentOrDeferred, IsDeferred
<1>5. FailedIsDead'
    BY <1>a, EventAssumption DEF TypeOK, FailedIsDead
<1>6. FailingHasRow'
    BY <1>a, EventAssumption DEF TypeOK, FailingHasRow
<1>7. OpenIsEmpty'
    BY <1>a, EventAssumption DEF TypeOK, OpenIsEmpty, IsDeferred
<1>8. OneAtATime'
    BY <1>a, EventAssumption DEF TypeOK, OneAtATime, Earlier
<1>9. NoGaps'
    BY <1>a, EventAssumption DEF TypeOK, NoGaps, Settled, Earlier, IsDeferred
<1>10. LateIsNext'
    BY <1>a, EventAssumption DEF TypeOK, LateIsNext, Settled, Earlier
<1>11. DeferredInOrder'
    BY <1>a, EventAssumption DEF TypeOK, DeferredInOrder, Settled, Earlier
<1> QED BY <1>1, <1>2, <1>3, <1>4, <1>5, <1>6, <1>7, <1>8, <1>9, <1>10, <1>11

(* The gate is aborted, an activation under way cancelled.                 *)
LEMMA AbortStep ==
    ASSUME IInv, Abort
    PROVE  IInv'
<1> USE DEF IInv, Abort, Fault, Event, rows, bus, flushes, startup, Committed, RowStatus
<1>a. deferred # <<>> => /\ Head(deferred) \in Event /\ Head(deferred) \in Committed
                         /\ \A d \in Earlier(Head(deferred)) : Settled(d)
    BY HeadIsNext
<1> DEFINE h == Head(deferred)
<1>b. \/ UNCHANGED bus
      \/ deferred # <<>> /\ arrived' = arrived \cup {h} /\ UNCHANGED late
      \/ deferred # <<>> /\ late' = late \cup {h} /\ UNCHANGED arrived
    BY DEF AnswerMissing
<1>c. /\ UNCHANGED <<status, attempts, dead, todo, done, failing, deferred, dropped>>
      /\ gate' = "aborted" /\ faults' \in Nat
    BY OutboxBoundsAssumption DEF TypeOK
<1>1. TypeOK'
    BY <1>a, <1>b, <1>c, EventAssumption DEF TypeOK, GateState
<1>2. LostOnlyBeforeActivation'
    BY <1>a, <1>b, <1>c, EventAssumption DEF TypeOK, LostOnlyBeforeActivation, IsDeferred
<1>3. OnlyCommitted'
    BY <1>a, <1>b, <1>c, EventAssumption DEF TypeOK, OnlyCommitted, IsDeferred
<1>4. DoneIsSentOrDeferred'
    BY <1>a, <1>b, <1>c, EventAssumption DEF TypeOK, DoneIsSentOrDeferred, IsDeferred
<1>5. FailedIsDead'
    BY <1>a, <1>b, <1>c, EventAssumption DEF TypeOK, FailedIsDead
<1>6. FailingHasRow'
    BY <1>a, <1>b, <1>c, EventAssumption DEF TypeOK, FailingHasRow
<1>7. OpenIsEmpty'
    BY <1>a, <1>b, <1>c, EventAssumption DEF TypeOK, OpenIsEmpty, IsDeferred
<1>8. OneAtATime'
    BY <1>a, <1>b, <1>c, EventAssumption DEF TypeOK, OneAtATime, Earlier
<1>9. NoGaps'
    BY <1>a, <1>b, <1>c, EventAssumption DEF TypeOK, NoGaps, Settled, Earlier, IsDeferred
<1>10. LateIsNext'
    BY <1>a, <1>b, <1>c, EventAssumption DEF TypeOK, LateIsNext, Settled, Earlier
<1>11. DeferredInOrder'
    <2>1. \A x : Earlier(x)' = Earlier(x)  BY DEF Earlier
    <2>2. \A x : Settled(x) => Settled(x)'  BY <1>b, <1>c DEF Settled
    <2>3. deferred' = deferred  BY <1>c
    <2> QED BY <2>1, <2>2, <2>3 DEF DeferredInOrder
<1> QED BY <1>1, <1>2, <1>3, <1>4, <1>5, <1>6, <1>7, <1>8, <1>9, <1>10, <1>11

(* The process ends: what is PUBLISHED and only deferred is dropped.       *)
LEMMA ProcessEndsStep ==
    ASSUME IInv, ProcessEnds, faults' \in Nat
    PROVE  IInv'
<1> USE DEF IInv, ProcessEnds, Event, rows, bus, flushes, startup, Committed, RowStatus
<1>a. deferred' \in Seq(Event) /\ \A i : i \notin 1..Len(deferred')
    <2>1. deferred' \in Seq(Event) /\ Len(deferred') = 0  BY EmptySeq
    <2> QED BY <2>1
<1>b. \A e : ~IsDeferred(e)'  BY <1>a DEF IsDeferred
<1>1. TypeOK'
    BY <1>a, <1>b, EventAssumption DEF TypeOK, GateState
<1>2. LostOnlyBeforeActivation'
    BY <1>a, <1>b, EventAssumption DEF TypeOK, LostOnlyBeforeActivation
<1>3. OnlyCommitted'
    BY <1>a, <1>b, EventAssumption DEF TypeOK, OnlyCommitted
<1>4. DoneIsSentOrDeferred'
    BY <1>a, <1>b, EventAssumption DEF TypeOK, DoneIsSentOrDeferred
<1>5. FailedIsDead'
    BY <1>a, <1>b, EventAssumption DEF TypeOK, FailedIsDead
<1>6. FailingHasRow'
    BY <1>a, <1>b, EventAssumption DEF TypeOK, FailingHasRow
<1>7. OpenIsEmpty'
    BY <1>a, <1>b, EventAssumption DEF TypeOK, OpenIsEmpty
<1>8. OneAtATime'
    BY <1>a, <1>b, EventAssumption DEF TypeOK, OneAtATime, Earlier
<1>9. NoGaps'
    BY <1>a, <1>b, EventAssumption DEF TypeOK, NoGaps, Settled, Earlier
<1>10. LateIsNext'
    BY <1>a, <1>b, EventAssumption DEF TypeOK, LateIsNext, Settled, Earlier
<1>11. DeferredInOrder'
    BY <1>a, <1>b, EventAssumption DEF TypeOK, DeferredInOrder, Settled, Earlier
<1> QED BY <1>1, <1>2, <1>3, <1>4, <1>5, <1>6, <1>7, <1>8, <1>9, <1>10, <1>11

(* Every step preserves the invariant.                                     *)
LEMMA IInvStep == IInv /\ [Next]_vars => IInv'
<1> SUFFICES ASSUME IInv, [Next]_vars PROVE IInv'  OBVIOUS
<1>1. ASSUME NEW e \in Event, BuildEnvelope(e)  PROVE IInv'
    BY <1>1, BuildEnvelopeStep
<1>2. ASSUME NEW e \in Event, Commit(e)  PROVE IInv'
    BY <1>2, CommitStep
<1>3. ASSUME NEW e \in Event, Rollback(e)  PROVE IInv'
    BY <1>3, RollbackStep
<1>4. ASSUME NEW e \in Event, LateArrival(e)  PROVE IInv'
    BY <1>4, LateArrivalStep
<1>5. ASSUME NEW f \in Flusher, FlushStep(f)  PROVE IInv'
    <2>1. CASE FlushStart(f)  BY <2>1, FlushStartStep
    <2>2. CASE MarkPublished(f)  BY <2>2, MarkPublishedStep
    <2>3. ASSUME NEW e \in Event, PublishSucceeds(f, e)  PROVE IInv'
        BY <2>3, PublishSucceedsStep
    <2>4. ASSUME NEW e \in Event, PublishRaises(f, e)  PROVE IInv'
        BY <2>4, PublishRaisesStep
    <2>5. ASSUME NEW e \in Event, RecordFailure(f, e)  PROVE IInv'
        BY <2>5, RecordFailureStep
    <2>6. ASSUME NEW e \in Event, Defer(f, e)  PROVE IInv'
        BY <2>6, DeferStep
    <2> QED BY <1>5, <2>1, <2>2, <2>3, <2>4, <2>5, <2>6 DEF FlushStep
<1>6. ASSUME NEW f \in Flusher, FlushRaises(f)  PROVE IInv'
    BY <1>6, FlushRaisesStep
<1>7. CASE Abort  BY <1>7, AbortStep
<1>8. CASE Crash \/ Exit
    <2>1. faults' \in Nat  BY <1>8 DEF Crash, Exit, Fault, IInv, TypeOK
    <2> QED BY <1>8, <2>1, ProcessEndsStep DEF Crash, Exit
<1>9. CASE Startup
    <2>1. CASE ActivationStarts  BY <2>1, ActivationStartsStep
    <2>2. CASE ActivationSends  BY <2>2, ActivationSendsStep
    <2>3. CASE ActivationEnds  BY <2>3, ActivationEndsStep
    <2>4. CASE ActivationFails  BY <2>4, ActivationFailsStep
    <2> QED BY <1>7, <1>8, <1>9, <2>1, <2>2, <2>3, <2>4 DEF Startup
<1>10. CASE UNCHANGED vars
    BY <1>10 DEF IInv, vars, rows, bus, flushes, startup, TypeOK, LostOnlyBeforeActivation,
                 OnlyCommitted, DoneIsSentOrDeferred, Committed, FailedIsDead, FailingHasRow,
                 OpenIsEmpty, OneAtATime, NoGaps, LateIsNext, DeferredInOrder, IsDeferred,
                 Settled, Earlier
<1> QED BY <1>1, <1>2, <1>3, <1>4, <1>5, <1>6, <1>7, <1>8, <1>9, <1>10 DEF Next

(* The inductive invariant holds in every reachable state.                 *)
LEMMA IInvAlways == Spec => []IInv
BY IInvInit, IInvStep, PTL DEF Spec

------------------------------------------------------------------------------
(* The table, the bus, its gate and the flushes stay well typed.           *)
THEOREM OutboxTypeCorrect == Spec => []TypeOK
<1>1. IInv => TypeOK  BY DEF IInv
<1> QED BY <1>1, IInvAlways, PTL

(* Whatever the interleaving of the flushes, the event of a PUBLISHED row  *)
(* is on the bus or deferred, or went with a process that ended before it  *)
(* had sent what it had deferred.                                          *)
THEOREM NoOtherLoss == Spec => []LostOnlyBeforeActivation
<1>1. IInv => LostOnlyBeforeActivation  BY DEF IInv
<1> QED BY <1>1, IInvAlways, PTL

------------------------------------------------------------------------------
(* The outbox implements the delivery promise *)

(* Initially nothing has been accepted and nothing has arrived.            *)
LEMMA DeliveryInitially == Init => Delivery!DeliveryInit
BY DEF Init, Delivery!DeliveryInit, Committed, RowStatus

(* A step that sends an event whose predecessors are settled is an Arrive. *)
LEMMA ArriveStep ==
    ASSUME IInv, NEW e \in Committed, \A d \in Earlier(e) : Settled(d),
           arrived' = arrived \cup {e}, UNCHANGED <<status, dead, dropped>>
    PROVE  Delivery!Arrive(e)
<1>1. Delivery!Earlier(e) \cap Committed \subseteq arrived \cup (dead \cup dropped)
    BY DEF Delivery!Earlier, Earlier, Settled, Committed, RowStatus
<1>2. Committed' = Committed  BY DEF Committed
<1> QED BY <1>1, <1>2 DEF Delivery!Arrive

(* Every step of the outbox is a step of the delivery, or none.            *)
LEMMA DeliveryStep ==
    ASSUME IInv, IInv', [Next]_vars
    PROVE  [Delivery!DeliveryNext]_Delivery!deliveryVars
<1> USE DEF Delivery!deliveryVars
<1> DEFINE Same == UNCHANGED <<Committed, arrived, dead, dropped>>
<1>1. ASSUME NEW e \in Event, BuildEnvelope(e) \/ Rollback(e)  PROVE Same
    BY <1>1 DEF BuildEnvelope, Rollback, rows, bus, startup, Committed, RowStatus, IInv, TypeOK
<1>2. ASSUME NEW e \in Event, Commit(e)  PROVE Delivery!Accept(e)
    <2>1. Committed' = Committed \cup {e} /\ e \notin Committed
        BY <1>2 DEF Commit, Committed, RowStatus, IInv, TypeOK
    <2>2. \A d \in Committed : KeyOf[d] = KeyOf[e] => d < e
        <3> SUFFICES ASSUME NEW d \in Committed, KeyOf[d] = KeyOf[e], ~(d < e)
                     PROVE  FALSE
            OBVIOUS
        <3>1. d \in Event /\ status[d] # "none" /\ d # e
            BY <2>1 DEF Committed, RowStatus
        <3>2. e \in Earlier(d)  BY <3>1, EventAssumption DEF Earlier, Event
        <3> QED BY <1>2, <3>1, <3>2 DEF Commit, IInv, OneAtATime
    <2> QED BY <1>2, <2>1, <2>2 DEF Commit, bus, startup, Delivery!Accept
<1>3. ASSUME NEW e \in Event, LateArrival(e)  PROVE Delivery!Arrive(e)
    <2>1. e \in Committed /\ \A d \in Earlier(e) : Settled(d)
        BY <1>3 DEF LateArrival, IInv, OnlyCommitted, LateIsNext
    <2> QED BY <1>3, <2>1, ArriveStep DEF LateArrival, rows, startup
<1>4. ASSUME NEW f \in Flusher, NEW e \in Event,
             PublishSucceeds(f, e) \/ PublishRaises(f, e)
      PROVE  Delivery!Arrive(e) \/ Same
    <2>1. e \in todo[f] /\ \A d \in todo[f] : e <= d
        BY <1>4 DEF PublishSucceeds, PublishRaises, At
    <2>2. e \in Committed  BY <2>1 DEF IInv, OnlyCommitted
    <2>3. gate = "open" => \A d \in Earlier(e) : Settled(d)
        BY <2>1, EventAssumption DEF IInv, NoGaps, OpenIsEmpty, Earlier, Event
    <2>4. /\ UNCHANGED <<status, dead, dropped>>
          /\ (gate = "open" /\ arrived' = arrived \cup {e}) \/ UNCHANGED arrived
        BY <1>4 DEF PublishSucceeds, PublishRaises, AnswerMissing, rows, bus, startup
    <2>5. CASE gate = "open" /\ arrived' = arrived \cup {e}
        BY <2>2, <2>3, <2>4, <2>5, ArriveStep
    <2>6. CASE UNCHANGED arrived  BY <2>4, <2>6 DEF Committed
    <2> QED BY <2>4, <2>5, <2>6
<1>5. ASSUME NEW f \in Flusher, NEW e \in Event, RecordFailure(f, e)
      PROVE  Delivery!GiveUp
    <2>1. e \in Committed  BY <1>5 DEF RecordFailure, At, IInv, OnlyCommitted
    <2>2. StatusAfterFailure(e) \in RowStatus
        BY <2>1 DEF StatusAfterFailure, Committed, RowStatus
    <2>3. Committed' = Committed
        BY <1>5, <2>1, <2>2 DEF RecordFailure, Committed, IInv, TypeOK
    <2>4. UNCHANGED <<arrived, dropped>> /\ (dead' = dead \cup {e} \/ dead' = dead)
        BY <1>5 DEF RecordFailure, bus, startup
    <2>5. dead \cup dropped \subseteq Committed  BY DEF IInv, OnlyCommitted
    <2> QED BY <2>1, <2>3, <2>4, <2>5 DEF Delivery!GiveUp
<1>6. ASSUME NEW f \in Flusher, MarkPublished(f)  PROVE Same
    <2>1. done[f] \subseteq Committed
        BY DEF IInv, OnlyCommitted, DoneIsSentOrDeferred, TypeOK
    <2>2. Committed' = Committed
        BY <1>6, <2>1 DEF MarkPublished, Committed, RowStatus, IInv, TypeOK
    <2> QED BY <1>6, <2>2 DEF MarkPublished, bus, startup
<1>7. ASSUME NEW f \in Flusher, FlushStart(f) \/ FlushRaises(f)  PROVE Same
    BY <1>7 DEF FlushStart, FlushRaises, rows, bus, startup, Committed
<1>8. ASSUME ProcessEnds  PROVE Delivery!GiveUp
    <2>1. Committed' = Committed
        BY <1>8 DEF ProcessEnds, Committed, RowStatus, IInv, TypeOK
    <2>2. UNCHANGED <<arrived, dead>> /\ dropped \subseteq dropped'
        BY <1>8 DEF ProcessEnds, bus
    <2>3. dead' \cup dropped' \subseteq Committed'  BY DEF IInv, OnlyCommitted
    <2> QED BY <2>1, <2>2, <2>3 DEF Delivery!GiveUp
<1>9. ASSUME UNCHANGED vars  PROVE Same
    BY <1>9 DEF vars, rows, bus, startup, Committed
<1>10. ASSUME NEW f \in Flusher, NEW e \in Event, Defer(f, e)  PROVE Same
    BY <1>10 DEF Defer, rows, bus, Committed
<1>11. ASSUME ActivationStarts \/ ActivationEnds  PROVE Same
    BY <1>11 DEF ActivationStarts, ActivationEnds, rows, bus, Committed
<1>12. ASSUME ActivationSends \/ ActivationFails \/ Abort
       PROVE  Same \/ \E e \in Event : Delivery!Arrive(e)
    <2>1. UNCHANGED <<status, dead, dropped>>
        BY <1>12 DEF ActivationSends, ActivationFails, Abort, rows
    <2>2. \/ UNCHANGED arrived
          \/ deferred # <<>> /\ arrived' = arrived \cup {Head(deferred)}
        BY <1>12 DEF ActivationSends, ActivationFails, Abort, AnswerMissing, bus
    <2>3. CASE UNCHANGED arrived  BY <2>1, <2>3 DEF Committed
    <2>4. CASE deferred # <<>> /\ arrived' = arrived \cup {Head(deferred)}
        <3>1. /\ Head(deferred) \in Event /\ Head(deferred) \in Committed
              /\ \A d \in Earlier(Head(deferred)) : Settled(d)
            BY <2>4, HeadIsNext
        <3>2. Delivery!Arrive(Head(deferred))  BY <2>1, <2>4, <3>1, ArriveStep
        <3> QED BY <3>1, <3>2
    <2> QED BY <2>2, <2>3, <2>4
<1> DEFINE Step == Delivery!GiveUp \/ \E e \in Event : Delivery!Accept(e) \/ Delivery!Arrive(e)
<1> SUFFICES Same \/ Step  BY DEF Delivery!DeliveryNext
<1>13. ASSUME NEW e \in Event,
              BuildEnvelope(e) \/ Commit(e) \/ Rollback(e) \/ LateArrival(e)
       PROVE  Same \/ Step
    <2> HIDE DEF Same
    <2> QED BY <1>1, <1>2, <1>3, <1>13
<1>14. ASSUME NEW f \in Flusher, FlushStep(f) \/ FlushRaises(f)  PROVE Same \/ Step
    <2>1. ASSUME NEW e \in Event,
                 \/ PublishSucceeds(f, e) \/ Defer(f, e)
                 \/ PublishRaises(f, e) \/ RecordFailure(f, e)
          PROVE  Same \/ Step
        <3> HIDE DEF Same
        <3> QED BY <1>4, <1>5, <1>10, <2>1
    <2> HIDE DEF Same, Step
    <2> QED BY <1>6, <1>7, <1>14, <2>1 DEF FlushStep
<1>15. ASSUME Startup \/ Abort \/ Crash  PROVE Same \/ Step
    <2>1. CASE ActivationStarts \/ ActivationEnds  BY <1>11, <2>1
    <2>2. CASE ActivationSends \/ ActivationFails \/ Abort
        <3> HIDE DEF Same
        <3> QED BY <1>12, <2>2
    <2>3. CASE Crash \/ Exit
        <3>1. ProcessEnds  BY <2>3 DEF Crash, Exit
        <3> QED BY <1>8, <3>1
    <2> HIDE DEF Same, Step
    <2> QED BY <1>15, <2>1, <2>2, <2>3 DEF Startup
<1> HIDE DEF Same, Step
<1> QED BY <1>9, <1>13, <1>14, <1>15 DEF Next

(* The outbox implements the delivery promise: nothing uncommitted         *)
(* arrives, and the events of an order first arrive in the order they were *)
(* written unless an earlier one was given up.                             *)
THEOREM DeliversInOrder == Spec => ImplementsDelivery
<1>1. IInv /\ IInv' /\ [Next]_vars => [Delivery!DeliveryNext]_Delivery!deliveryVars
    BY DeliveryStep
<1> QED BY <1>1, DeliveryInitially, IInvAlways, PTL
        DEF Spec, ImplementsDelivery, Delivery!DeliverySpec

==============================================================================
