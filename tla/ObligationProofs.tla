-------------------------- MODULE ObligationProofs ---------------------------
(***************************************************************************)
(* The obligations, proved for every set of orders, every size, every cost *)
(* of fills and any number of faults: what an obligation has consumed is   *)
(* the cost of fills on record, an open order stays covered, and an order  *)
(* is opened only if it fits, with all that is open, into the balance that *)
(* its intake has read.                                                    *)
(***************************************************************************)
EXTENDS Obligations, OrderMergeProofs, FiniteSetTheorems

(* An obligation that is not active holds nothing any more.                *)
Spent(b) == IsActive(b) \/ Remaining(b) = 0

(* An obligation row that belongs to the order, has counted fills once and *)
(* is not closed with something left in it.                                *)
Counted(o, b) == b.reserved = Reserved[o] /\ b.consumed = Amount[b.fills] /\ Spent(b)
Seen(b) == b.fills \cup b.blocked

(* What holds of the order o whose row is r, whose obligation is b, with   *)
(* the fills sv on record and ex executed.                                 *)
OrderOK(o, r, b, sv, ex) ==
    /\ sv \subseteq ex
    /\ b # NoObl => Counted(o, b) /\ Seen(b) \subseteq sv
    /\ IsOpen(r) /\ Reserved[o] > 0 => b # NoObl
    /\ IsOpen(r) /\ b # NoObl => b.released = 0

(* What holds of a settlement s in the same terms: the rows it has in its  *)
(* hands are of the order, and one that releases is for an order that has  *)
(* ended or ends with it.                                                  *)
PlainOK(s, sv) ==
    s.final # NoObl =>
        is_terminal(s.snap.status) /\ Counted(s.order, s.final) /\ Seen(s.final) \subseteq sv

FillsOK(s, r, sv, ex) ==
    /\ s.fills \subseteq ex
    /\ s.base # NoObl => /\ Counted(s.order, s.base) /\ Seen(s.base) \subseteq sv
                         /\ IsOpen(r) => s.base.released = 0
    /\ s.final # NoObl => /\ is_terminal(s.snap.status) /\ Counted(s.order, s.final)
                          /\ Seen(s.final) \subseteq sv \cup s.fills

TaskOK(s, r, sv, ex) ==
    /\ r # NoRow
    /\ s.pc = "plain" => PlainOK(s, sv)
    /\ s.pc = "fills" => FillsOK(s, r, sv, ex)
    /\ s.pc = "finalize" => (is_terminal(s.status) => ~IsOpen(r))
    /\ s.pc = "write" => ~IsOpen(r) /\ Counted(s.order, s.final) /\ Seen(s.final) \subseteq sv

OrdersOK == \A o \in Order : OrderOK(o, row[o], obl[o], saved[o], Executed(o))

TasksOK == \A t \in Task : task[t].pc # "rest" =>
    LET o == task[t].order IN TaskOK(task[t], row[o], saved[o], Executed(o))

(* An order is recorded by its own intake, and has a command only then.    *)
IntakeOK == \A o \in Order : /\ intake[o] # "away" => row[o] = NoRow
                             /\ cmd[o] # "none" => row[o] # NoRow

IInv == Types /\ OrdersOK /\ TasksOK /\ IntakeOK

------------------------------------------------------------------------------
(* The cost of fills *)

(* More fills never cost less.                                             *)
LEMMA AmountMonotone ==
    ASSUME NEW T \in SUBSET Fill, NEW S \in SUBSET T
    PROVE  Amount[S] \in Nat /\ Amount[T] \in Nat /\ Amount[S] <= Amount[T]
<1>1. S \in SUBSET Fill /\ T \ S \in SUBSET Fill /\ S \cap (T \ S) = {} /\ S \cup (T \ S) = T
  OBVIOUS
<1>2. Amount[S \cup (T \ S)] = Amount[S] + Amount[T \ S]
  BY <1>1, AmountAssumption
<1>3. Amount[S] \in Nat /\ Amount[T \ S] \in Nat /\ Amount[T] \in Nat
  BY <1>1, AmountAssumption
<1> QED BY <1>1, <1>2, <1>3

------------------------------------------------------------------------------
(* Sums over finite sets *)

(* A set of subsets of a finite set has a smallest one: the induction that *)
(* the following lemmas use, as a first-order fact.                        *)
LEMMA SmallestSubset ==
    ASSUME NEW U, IsFiniteSet(U), NEW T, T \subseteq SUBSET U, T # {}
    PROVE  \E m \in T : \A y \in T : y \subseteq m => y = m
<1>1. IsWellFoundedOn(StrictSubsetOrdering(U), SUBSET U)
  BY FS_StrictSubsetOrderingWellFounded, FS_FiniteSubsetsOfFinite
<1>2. \E x \in T : \A y \in T : ~ (<<y, x>> \in StrictSubsetOrdering(U))
  BY <1>1, WFMin
<1> QED BY <1>2 DEF StrictSubsetOrdering

(* The element that a fold takes next, and the recursion it follows.       *)
First(s) == CHOOSE x \in s : TRUE

IsFold(f, S, g) ==
    g = [s \in SUBSET S |-> IF s = {} THEN 0 ELSE f[First(s)] + g[s \ {First(s)}]]

LEMMA FirstFacts ==
    ASSUME NEW s, s # {}
    PROVE  /\ First(s) \in s
           /\ \A U : s \subseteq U => s \ {First(s)} \subseteq U
           /\ s \ {First(s)} # s
<1>1. First(s) \in s
  BY DEF First
<1> QED BY <1>1

(* Two folds of the same function agree where both are defined.            *)
LEMMA FoldUnique ==
    ASSUME NEW f, NEW A, NEW B, IsFiniteSet(A), NEW g, NEW h, IsFold(f, A, g), IsFold(f, B, h),
           NEW t, t \subseteq A, t \subseteq B
    PROVE  g[t] = h[t]
<1> DEFINE T == {u \in SUBSET A : u \subseteq B /\ g[u] # h[u]}
<1> SUFFICES ASSUME T # {} PROVE FALSE
  OBVIOUS
<1>0. T \subseteq SUBSET A
  OBVIOUS
<1> HIDE DEF T
<1>1. PICK m \in T : \A y \in T : y \subseteq m => y = m
  BY <1>0, SmallestSubset
<1> USE DEF T
<1>2. m \subseteq A /\ m \subseteq B /\ g[m] # h[m]
  BY <1>1
<1>3. \A u : u \subseteq m /\ u # m => g[u] = h[u]
  BY <1>1, <1>2
<1>4. /\ g[m] = IF m = {} THEN 0 ELSE f[First(m)] + g[m \ {First(m)}]
      /\ h[m] = IF m = {} THEN 0 ELSE f[First(m)] + h[m \ {First(m)}]
  BY <1>2 DEF IsFold
<1>5. CASE m = {}
  BY <1>2, <1>4, <1>5
<1>6. CASE m # {}
  <2>1. m \ {First(m)} \subseteq m /\ m \ {First(m)} # m
    BY <1>6, FirstFacts
  <2> QED BY <1>2, <1>3, <1>4, <1>6, <2>1
<1> QED BY <1>5, <1>6

(* Every function has a fold over a finite set.                            *)
LEMMA FoldExists ==
    ASSUME NEW f, NEW S, IsFiniteSet(S)
    PROVE  \E g : IsFold(f, S, g)
<1> DEFINE T == {u \in SUBSET S : ~ \E g : IsFold(f, u, g)}
<1> SUFFICES ASSUME T # {} PROVE FALSE
  OBVIOUS
<1>0. T \subseteq SUBSET S
  OBVIOUS
<1> HIDE DEF T
<1>1. PICK m \in T : \A y \in T : y \subseteq m => y = m
  BY <1>0, SmallestSubset
<1> USE DEF T
<1>2. m \subseteq S /\ ~ \E g : IsFold(f, m, g)
  BY <1>1
<1> DEFINE G(u) == CHOOSE g : IsFold(f, u, g)
<1>3. ASSUME NEW u, u \subseteq m, u # m
      PROVE  IsFold(f, u, G(u)) /\ IsFiniteSet(u)
  <2>1. \E g : IsFold(f, u, g)
    BY <1>1, <1>2, <1>3
  <2>2. IsFold(f, u, G(u))
    BY <2>1
  <2>3. IsFiniteSet(u)
    BY <1>2, <1>3, FS_Subset
  <2> QED BY <2>2, <2>3
<1> HIDE DEF G
<1> DEFINE h == [t \in SUBSET m |-> IF t = {} THEN 0
                                    ELSE f[First(t)] + G(t \ {First(t)})[t \ {First(t)}]]
<1>4. ASSUME NEW t, t \subseteq m, t # m
      PROVE  h[t] = G(t)[t]
  <2>1. IsFold(f, t, G(t)) /\ IsFiniteSet(t)
    BY <1>3, <1>4
  <2>2. G(t)[t] = IF t = {} THEN 0 ELSE f[First(t)] + G(t)[t \ {First(t)}]
    BY <2>1 DEF IsFold
  <2>3. CASE t = {}
    BY <1>4, <2>2, <2>3
  <2>4. CASE t # {}
    <3> DEFINE u == t \ {First(t)}
    <3>1. u \subseteq t /\ u \subseteq m /\ u # m
      BY <1>4, <2>4, FirstFacts
    <3>2. IsFold(f, u, G(u))
      BY <1>3, <3>1
    <3> HIDE DEF u
    <3>3. G(t)[u] = G(u)[u]
      BY <2>1, <3>1, <3>2, FoldUnique
    <3> QED BY <1>4, <2>2, <2>4, <3>3 DEF u
  <2> QED BY <2>3, <2>4
<1>5. ASSUME NEW t \in SUBSET m
      PROVE  h[t] = IF t = {} THEN 0 ELSE f[First(t)] + h[t \ {First(t)}]
  <2>1. CASE t = {}
    BY <1>5, <2>1
  <2>2. CASE t # {}
    <3> DEFINE u == t \ {First(t)}
    <3>1. u \subseteq m /\ u # m
      BY <1>5, <2>2, FirstFacts
    <3>2. h[u] = G(u)[u]
      BY <1>4, <3>1
    <3>3. h[t] = f[First(t)] + G(u)[u]
      BY <1>5, <2>2
    <3> HIDE DEF h
    <3> QED BY <2>2, <3>2, <3>3
  <2> QED BY <2>1, <2>2
<1>6. h = [s \in SUBSET m |-> h[s]]
  OBVIOUS
<1> HIDE DEF h
<1>7. IsFold(f, m, h)
  BY <1>5, <1>6 DEF IsFold
<1> QED BY <1>2, <1>7

(* The sum of the community modules is such a fold.                        *)
LEMMA SumIsFold ==
    ASSUME NEW f, NEW S, IsFiniteSet(S)
    PROVE  \E g : IsFold(f, S, g) /\ SumFunctionOnSet(f, S) = g[S]
<1> DEFINE iter == CHOOSE g : IsFold(f, S, g)
<1>1. SumFunctionOnSet(f, S) = iter[S]
  BY DEF SumFunctionOnSet, FoldFunctionOnSet, MapThenFoldSet, IsFold, First
<1>2. IsFold(f, S, iter)
  BY FoldExists
<1> QED BY <1>1, <1>2

LEMMA SumStep ==
    ASSUME NEW f, NEW S, IsFiniteSet(S)
    PROVE  SumFunctionOnSet(f, S) =
             IF S = {} THEN 0
             ELSE f[First(S)] + SumFunctionOnSet(f, S \ {First(S)})
<1>1. PICK g : IsFold(f, S, g) /\ SumFunctionOnSet(f, S) = g[S]
  BY SumIsFold
<1>2. g[S] = IF S = {} THEN 0 ELSE f[First(S)] + g[S \ {First(S)}]
  BY <1>1 DEF IsFold
<1>3. CASE S = {}
  BY <1>1, <1>2, <1>3
<1>4. CASE S # {}
  <2> DEFINE R == S \ {First(S)}
  <2>1. R \subseteq S /\ IsFiniteSet(R)
    BY FS_Subset
  <2>2. PICK h : IsFold(f, R, h) /\ SumFunctionOnSet(f, R) = h[R]
    BY <2>1, SumIsFold
  <2>3. g[R] = h[R]
    BY <1>1, <2>1, <2>2, FoldUnique
  <2> QED BY <1>1, <1>2, <1>4, <2>2, <2>3
<1> QED BY <1>3, <1>4

(* Sums of integers are integers, of naturals naturals.                    *)
LEMMA SumType ==
    ASSUME NEW f, NEW S, IsFiniteSet(S), NEW N \in {Int, Nat}, \A x \in S : f[x] \in N
    PROVE  SumFunctionOnSet(f, S) \in N
<1> DEFINE T == {u \in SUBSET S : SumFunctionOnSet(f, u) \notin N}
<1> SUFFICES ASSUME T # {} PROVE FALSE
  OBVIOUS
<1>0. T \subseteq SUBSET S
  OBVIOUS
<1> HIDE DEF T
<1>1. PICK m \in T : \A y \in T : y \subseteq m => y = m
  BY <1>0, SmallestSubset
<1> USE DEF T
<1>2. m \subseteq S /\ SumFunctionOnSet(f, m) \notin N /\ IsFiniteSet(m)
  BY <1>1, FS_Subset
<1>3. CASE m = {}
  <2>1. SumFunctionOnSet(f, m) = 0
    BY <1>2, <1>3, SumStep
  <2> QED BY <1>2, <2>1
<1>4. CASE m # {}
  <2> DEFINE R == m \ {First(m)}
  <2>1. R \subseteq m /\ R # m /\ First(m) \in m
    BY <1>4, FirstFacts
  <2>2. SumFunctionOnSet(f, R) \in N /\ f[First(m)] \in N
    BY <1>1, <1>2, <2>1
  <2>3. SumFunctionOnSet(f, m) = f[First(m)] + SumFunctionOnSet(f, R)
    BY <1>2, <1>4, SumStep
  <2> HIDE DEF R
  <2> QED BY <1>2, <2>2, <2>3
<1> QED BY <1>3, <1>4

(* Any element can be taken out of a sum, not only the one a fold takes.   *)
LEMMA SumRemove ==
    ASSUME NEW f, NEW S, IsFiniteSet(S), \A y \in S : f[y] \in Int, NEW x \in S
    PROVE  SumFunctionOnSet(f, S) = f[x] + SumFunctionOnSet(f, S \ {x})
<1> DEFINE Sum(s) == SumFunctionOnSet(f, s)
           T == {u \in SUBSET S : \E z \in u : Sum(u) # f[z] + Sum(u \ {z})}
<1> SUFFICES ASSUME T # {} PROVE FALSE
  OBVIOUS
<1>0. T \subseteq SUBSET S
  OBVIOUS
<1> HIDE DEF T
<1>1. PICK m \in T : \A y \in T : y \subseteq m => y = m
  BY <1>0, SmallestSubset
<1> USE DEF T
<1>2. PICK z \in m : Sum(m) # f[z] + Sum(m \ {z})
  BY <1>1
<1>3. \A u \in SUBSET S : IsFiniteSet(u) /\ Sum(u) \in Int
  <2> TAKE u \in SUBSET S
  <2>1. IsFiniteSet(u)
    BY FS_Subset
  <2> QED BY <2>1, SumType
<1> DEFINE w == First(m)
           R == m \ {w}
           Q == m \ {z}
           P == (m \ {w}) \ {z}
<1>4. m \in SUBSET S /\ w \in m /\ Sum(m) = f[w] + Sum(R)
  <2>1. m \in SUBSET S /\ m # {}
    BY <1>1, <1>2
  <2> QED BY <1>3, <2>1, FirstFacts, SumStep
<1>5. w # z
  BY <1>2, <1>4
<1>6. Sum(R) = f[z] + Sum(R \ {z})
  <2>1. R \in SUBSET S /\ R \subseteq m /\ R # m /\ z \in R
    BY <1>4, <1>5
  <2> QED BY <1>1, <2>1
<1>7. Sum(Q) = f[w] + Sum(Q \ {w})
  <2>1. Q \in SUBSET S /\ Q \subseteq m /\ Q # m /\ w \in Q
    BY <1>2, <1>4, <1>5
  <2> QED BY <1>1, <2>1
<1>8. R \ {z} = P /\ Q \ {w} = P /\ P \in SUBSET S
  BY <1>4
<1>9. Sum(P) \in Int /\ f[w] \in Int /\ f[z] \in Int
  BY <1>2, <1>3, <1>4, <1>8
<1>10. Sum(m) # f[z] + Sum(Q)
  BY <1>2
<1>11. Sum(R) = f[z] + Sum(P) /\ Sum(Q) = f[w] + Sum(P)
  BY <1>6, <1>7, <1>8
<1> HIDE DEF Sum, R, Q, P, w, T
<1> QED BY <1>4, <1>9, <1>10, <1>11

(* More and larger terms never give less.                                  *)
LEMMA SumMonotone ==
    ASSUME NEW f, NEW g, NEW T, IsFiniteSet(T), NEW S \in SUBSET T,
           \A x \in S : f[x] \in Nat /\ f[x] <= g[x], \A x \in T : g[x] \in Nat
    PROVE  SumFunctionOnSet(f, S) <= SumFunctionOnSet(g, T)
<1> DEFINE F(u) == SumFunctionOnSet(f, u)
           G(u) == SumFunctionOnSet(g, u)
           Bad == {u \in SUBSET T : \E s \in SUBSET u : s \subseteq S /\ ~(F(s) <= G(u))}
<1> SUFFICES ASSUME Bad # {} PROVE FALSE
  OBVIOUS
<1>0. Bad \subseteq SUBSET T
  OBVIOUS
<1> HIDE DEF Bad
<1>1. PICK m \in Bad : \A y \in Bad : y \subseteq m => y = m
  BY <1>0, SmallestSubset
<1> USE DEF Bad
<1>2. PICK s \in SUBSET m : s \subseteq S /\ ~(F(s) <= G(m))
  BY <1>1
<1>3. m \in SUBSET T
  BY <1>1
<1>4. \A u \in SUBSET T : IsFiniteSet(u) /\ G(u) \in Nat /\ (u \subseteq S => F(u) \in Nat)
  <2> TAKE u \in SUBSET T
  <2>1. IsFiniteSet(u)
    BY FS_Subset
  <2> QED BY <2>1, SumType
<1>5. CASE s = {}
  <2>1. F(s) = 0
    BY <1>2, <1>3, <1>4, <1>5, SumStep
  <2>2. G(m) \in Nat
    BY <1>3, <1>4
  <2> HIDE DEF F, G
  <2> QED BY <1>2, <2>1, <2>2
<1>6. CASE s # {}
  <2>1. PICK x : x \in s
    BY <1>6
  <2> DEFINE r == s \ {x}
             n == m \ {x}
  <2>2. /\ s \in SUBSET T /\ x \in S /\ x \in m /\ x \in T
        /\ \A y \in s : f[y] \in Int
        /\ \A y \in m : g[y] \in Int
    BY <1>2, <1>3, <2>1
  <2>3. IsFiniteSet(s) /\ IsFiniteSet(m)
    BY <1>3, <1>4, <2>2
  <2>4. F(s) = f[x] + F(r)
    BY <2>1, <2>2, <2>3, SumRemove
  <2>5. G(m) = g[x] + G(n)
    BY <2>2, <2>3, SumRemove
  <2>6. n \in SUBSET T /\ n \subseteq m /\ n # m /\ r \in SUBSET n /\ r \subseteq S
    BY <1>2, <1>3, <2>1, <2>2
  <2>7. F(r) <= G(n)
    BY <1>1, <2>6
  <2>8. F(r) \in Nat /\ G(n) \in Nat /\ f[x] \in Nat /\ g[x] \in Nat /\ f[x] <= g[x]
    BY <1>4, <2>2, <2>6
  <2>9. ~(F(s) <= G(m))
    BY <1>2
  <2> HIDE DEF F, G, r, n, Bad
  <2> QED BY <2>4, <2>5, <2>7, <2>8, <2>9
<1> QED BY <1>5, <1>6

------------------------------------------------------------------------------
(* The obligation service *)

(* Consuming fills counts each of them once and releases nothing           *)
(* (_apply_fill_to_obligation).                                            *)
LEMMA ApplyFillsFacts ==
    ASSUME NEW o \in Order, NEW b \in Obligation, Counted(o, b),
           NEW fills \in SUBSET Fill
    PROVE  LET a == ApplyFills(b, fills) IN
           /\ a \in Obligation
           /\ Counted(o, a)
           /\ Seen(a) \subseteq Seen(b) \cup fills
           /\ a.released = b.released
<1> DEFINE fresh    == fills \ (b.fills \cup b.blocked)
           counted  == {f \in fresh \ Unsupported : Amount[{f}] > 0}
           consumed == b.consumed + Amount[counted]
           stat     == IF counted = {} THEN b.status
                       ELSE ConsumptionStatus(b.reserved, consumed, b.released)
           a        == [b EXCEPT !.fills = b.fills \cup counted,
                                 !.blocked = b.blocked \cup (fresh \cap Unsupported),
                                 !.consumed = consumed, !.status = stat]
<1>1. ApplyFills(b, fills) = a
  BY DEF ApplyFills
<1>2. /\ b.fills \in SUBSET Fill /\ b.blocked \in SUBSET Fill
      /\ b.consumed \in Nat /\ b.reserved \in Nat /\ b.released \in Nat
      /\ b.status \in ObligationStatus
  BY DEF Obligation
<1>3. counted \in SUBSET Fill /\ counted \subseteq fills /\ b.fills \cap counted = {}
      /\ fresh \cap Unsupported \in SUBSET Fill /\ fresh \cap Unsupported \subseteq fills
  BY <1>2
<1> HIDE DEF fresh, counted
<1>4. Amount[counted] \in Nat
  BY <1>3, AmountAssumption
<1>5. consumed \in Nat
  BY <1>2, <1>4
<1>6. Amount[b.fills \cup counted] = consumed
  <2>1. Amount[b.fills \cup counted] = Amount[b.fills] + Amount[counted]
    BY <1>2, <1>3, AmountAssumption
  <2> QED BY <2>1 DEF Counted
<1> HIDE DEF consumed
<1>7. stat \in ObligationStatus
  BY <1>2 DEF ConsumptionStatus, ObligationStatus
<1>9. /\ counted = {} => consumed = b.consumed
      /\ counted # {} => \/ stat \in {"ACTIVE", "PARTIALLY_CONSUMED"}
                         \/ b.reserved - consumed - b.released <= 0
  BY <1>2, <1>5, AmountAssumption DEF ConsumptionStatus, consumed
<1>10. counted = {} => stat = b.status
  OBVIOUS
<1> HIDE DEF stat
<1>8. /\ a \in Obligation /\ a.reserved = b.reserved /\ a.released = b.released
      /\ a.consumed = consumed /\ a.fills = b.fills \cup counted /\ a.status = stat
      /\ a.blocked = b.blocked \cup (fresh \cap Unsupported)
  BY <1>2, <1>3, <1>5, <1>7 DEF Obligation
<1> HIDE DEF a
<1>11. a # NoObl /\ b # NoObl
  BY <1>8, NoOblAssumption
<1>12. Spent(a)
  <2>1. CASE counted = {}
    <3>1. Spent(b)
      BY DEF Counted
    <3>2. a.consumed = b.consumed /\ a.status = b.status
      BY <1>8, <1>9, <1>10, <2>1
    <3> QED BY <1>8, <1>11, <3>1, <3>2 DEF Spent, IsActive, Remaining
  <2>2. CASE counted # {}
    <3>1. CASE stat \in {"ACTIVE", "PARTIALLY_CONSUMED"}
      BY <1>8, <1>11, <3>1 DEF Spent, IsActive
    <3>2. CASE b.reserved - consumed - b.released <= 0
      BY <1>2, <1>5, <1>8, <3>2 DEF Spent, Remaining, Greatest
    <3> QED BY <1>9, <2>2, <3>1, <3>2
  <2> QED BY <2>1, <2>2
<1> QED BY <1>1, <1>3, <1>6, <1>8, <1>12 DEF Counted, Seen

(* Releasing the rest of an obligation leaves what it has consumed.        *)
LEMMA ReleaseFacts ==
    ASSUME NEW b \in Obligation, NEW st \in ObligationStatus
    PROVE  LET f == [b EXCEPT !.released = @ + Remaining(b), !.status = st] IN
           /\ f \in Obligation
           /\ f.reserved = b.reserved /\ f.consumed = b.consumed
           /\ f.fills = b.fills /\ f.blocked = b.blocked
           /\ Remaining(f) = 0
<1>1. b.reserved \in Nat /\ b.consumed \in Nat /\ b.released \in Nat
  BY DEF Obligation
<1>2. b.released + Remaining(b) \in Nat
  BY <1>1 DEF Remaining, Greatest
<1> DEFINE left == b.released + Remaining(b)
           f == [b EXCEPT !.released = left, !.status = st]
<1>3. b.reserved - b.consumed - left <= 0
  BY <1>1 DEF Remaining, Greatest
<1>4. f.reserved = b.reserved /\ f.consumed = b.consumed /\ f.released = left
  BY DEF Obligation
<1>5. Remaining(f) = 0
  <2> HIDE DEF f, left
  <2> QED BY <1>1, <1>2, <1>3, <1>4 DEF Remaining, Greatest, left
<1> QED BY <1>2, <1>5 DEF Obligation

(* Finalizing returns a row only for an order that has ended, and that row *)
(* has consumed the same fills (_apply_finalization_to_obligation).        *)
LEMMA FinalizedFacts ==
    ASSUME NEW b \in Previews, NEW status
    PROVE  LET f == Finalized(b, status) IN
           /\ f \in Previews
           /\ f # NoObl => /\ b # NoObl /\ f \in Obligation /\ is_terminal(status)
                           /\ f.reserved = b.reserved /\ f.consumed = b.consumed
                           /\ f.fills = b.fills /\ f.blocked = b.blocked
                           /\ Spent(f)
<1>1. CASE b = NoObl \/ ~is_terminal(status)
  BY <1>1 DEF Finalized, Previews
<1>2. CASE b # NoObl /\ is_terminal(status)
  <2>1. b \in Obligation
    BY <1>2 DEF Previews
  <2>2. FinalStatus(status) \in ObligationStatus
    BY DEF FinalStatus, ObligationStatus
  <2> DEFINE e == [b EXCEPT !.released = @ + Remaining(b), !.status = FinalStatus(status)]
             f == Finalized(b, status)
  <2>3. (f = b /\ Remaining(b) = 0) \/ f = e
    BY <1>2 DEF Finalized
  <2>4. /\ e \in Obligation
        /\ e.reserved = b.reserved /\ e.consumed = b.consumed
        /\ e.fills = b.fills /\ e.blocked = b.blocked
        /\ Remaining(e) = 0
    BY <2>1, <2>2, ReleaseFacts
  <2> HIDE DEF e, f
  <2>5. CASE f = b /\ Remaining(b) = 0
    BY <1>2, <2>1, <2>5 DEF f, Spent, Previews
  <2>6. CASE f = e
    BY <1>2, <2>4, <2>6 DEF f, Spent, Previews
  <2> QED BY <2>3, <2>5, <2>6
<1> QED BY <1>1, <1>2

(* A new obligation has consumed and released nothing.                     *)
LEMMA NewObligationFacts ==
    ASSUME NEW o \in Order
    PROVE  LET b == NewObligation(o) IN
           /\ b \in Previews
           /\ Reserved[o] > 0 => b # NoObl
           /\ b # NoObl => Counted(o, b) /\ Seen(b) = {} /\ b.released = 0
<1> DEFINE n == [reserved |-> Reserved[o], consumed |-> 0, released |-> 0,
                 status |-> "ACTIVE", fills |-> {}, blocked |-> {}]
<1>1. n \in Obligation
  BY ReservedAssumption DEF Obligation, ObligationStatus
<1>2. Counted(o, n) /\ Seen(n) = {} /\ n.released = 0
  <2>1. IsActive(n)
    BY <1>1, NoOblAssumption DEF IsActive
  <2> QED BY <2>1, AmountAssumption DEF Counted, Seen, Spent
<1>3. NewObligation(o) \in {NoObl, n} /\ (Reserved[o] > 0 => NewObligation(o) = n)
  BY ReservedAssumption DEF NewObligation
<1>4. n # NoObl
  BY <1>1, NoOblAssumption
<1> HIDE DEF n
<1> QED BY <1>1, <1>2, <1>3, <1>4 DEF Previews

(* The startup releases the obligations of orders that are not open, and   *)
(* touches no other (_cleanup_orphan_obligations).                         *)
LEMMA RecoveredFacts ==
    ASSUME NEW b \in Previews, NEW r \in OrderState \cup {NoRow}
    PROVE  LET f == Recovered(b, r) IN
           /\ f \in Previews
           /\ f = NoObl <=> b = NoObl
           /\ IsOpen(r) => f = b
           /\ b # NoObl => /\ f.reserved = b.reserved /\ f.consumed = b.consumed
                           /\ f.fills = b.fills /\ f.blocked = b.blocked
           /\ Spent(b) => Spent(f)
<1>1. CASE ~(IsActive(b) /\ ~IsOpen(r))
  BY <1>1 DEF Recovered
<1>2. CASE IsActive(b) /\ ~IsOpen(r)
  <2> DEFINE st == IF r = NoRow THEN "FAILED" ELSE FinalStatus(r.status)
  <2>1. b \in Obligation
    BY <1>2 DEF IsActive, Previews
  <2>2. st \in ObligationStatus
    BY DEF FinalStatus, ObligationStatus
  <2>3. Recovered(b, r) = [b EXCEPT !.released = @ + Remaining(b), !.status = st]
    BY <1>2 DEF Recovered
  <2> HIDE DEF st
  <2> DEFINE f == Recovered(b, r)
  <2>4. /\ f \in Obligation
        /\ f.reserved = b.reserved /\ f.consumed = b.consumed
        /\ f.fills = b.fills /\ f.blocked = b.blocked
        /\ Remaining(f) = 0
    BY <2>1, <2>2, <2>3, ReleaseFacts
  <2> HIDE DEF f
  <2>5. f # NoObl /\ b # NoObl /\ f \in Previews
    BY <2>1, <2>4, NoOblAssumption DEF Previews
  <2> QED BY <1>2, <2>4, <2>5 DEF f, Spent
<1> QED BY <1>1, <1>2

------------------------------------------------------------------------------
(* Snapshots and tasks *)

(* The snapshots the adapter builds are order states.                      *)
LEMMA SnapshotTypes ==
    ASSUME NEW o \in Order
    PROVE  /\ \A v \in [state : VenueState, qty : {Qty}, filled : 0 .. Qty] :
                 MapOrderState(o, v) \in OrderState
           /\ SubmittedState(o, Qty) \in OrderState
           /\ \A st \in OrderLifecycleStatus, e \in ExecutionError :
                 IntentState(st, Qty, e) \in OrderState
<1>1. o \in VenueId /\ Qty \in Int
  BY OrderAssumption, QtyAssumption
<1>2. \A st \in OrderLifecycleStatus, e \in ExecutionError :
        IntentState(st, Qty, e) \in OrderState
  BY <1>1 DEF IntentState, OrderState
<1>3. SubmittedState(o, Qty) \in OrderState
  BY <1>1 DEF SubmittedState, IntentState, OrderState, OrderLifecycleStatus,
              OPEN_ORDER_STATES, ExecutionError
<1>4. ASSUME NEW v \in [state : VenueState, qty : {Qty}, filled : 0 .. Qty]
      PROVE  MapOrderState(o, v) \in OrderState
  <2>1. v.qty \in Int /\ v.filled \in Int
    BY <1>1
  <2>2. Greatest(v.qty - v.filled, 0) \in Int
    BY <2>1 DEF Greatest
  <2>3. MapStatus(v) \in OrderLifecycleStatus
    BY DEF MapStatus, OrderLifecycleStatus, OPEN_ORDER_STATES, TERMINAL_ORDER_STATES
  <2> QED BY <1>1, <2>1, <2>2, <2>3 DEF MapOrderState, OrderState, ExecutionError
<1> QED BY <1>2, <1>3, <1>4

(* What a task holds at each of its places.                                *)
LEMMA TaskFields ==
    ASSUME NEW s \in Tasks
    PROVE  /\ s.pc \in {"rest", "place", "cancel", "detail", "plain", "fills",
                         "finalize", "write"}
           /\ s.pc # "rest" => s.order \in Order
           /\ s.pc \in {"cancel", "detail", "plain", "fills"} => s.snap \in OrderState
           /\ s.pc \in {"plain", "fills"} => s.final \in Previews
           /\ s.pc = "fills" => s.fills \in SUBSET Fill /\ s.base \in Previews
           /\ s.pc = "finalize" => s.status \in OrderLifecycleStatus
           /\ s.pc = "write" => s.final \in Obligation
  BY DEF Tasks, Rest

(* The forms a task takes are tasks.                                       *)
LEMMA TaskForms ==
    ASSUME NEW o \in Order, NEW snap \in OrderState, NEW list \in BOOLEAN,
           NEW final \in Previews, NEW base \in Previews, NEW fills \in SUBSET Fill,
           NEW status \in OrderLifecycleStatus
    PROVE  /\ Rest \in Tasks /\ [pc |-> "place", order |-> o] \in Tasks
           /\ [pc |-> "cancel", order |-> o, snap |-> snap] \in Tasks
           /\ Settling(o, snap, list) \in Tasks
           /\ [pc |-> "plain", order |-> o, snap |-> snap, final |-> final] \in Tasks
           /\ [pc |-> "fills", order |-> o, snap |-> snap, fills |-> fills,
               base |-> base, final |-> final] \in Tasks
           /\ [pc |-> "finalize", order |-> o, status |-> status] \in Tasks
           /\ final # NoObl => [pc |-> "write", order |-> o, final |-> final] \in Tasks
  BY DEF Tasks, Settling, Previews

(* Orders go on: none is forgotten or reopened, fills are only added.      *)
Onward ==
    \A o \in Order :
        /\ row[o] # NoRow => row'[o] # NoRow /\ (IsOpen(row'[o]) => IsOpen(row[o]))
        /\ saved[o] \subseteq saved'[o]
        /\ 1 .. venue[o].filled \subseteq 1 .. venue'[o].filled

(* A task after a step: as it was, at rest, or sound.                      *)
TaskGoesOn(t) ==
    \/ task'[t] = task[t]
    \/ task'[t] = Rest
    \/ TaskOK(task'[t], row'[task'[t].order], saved'[task'[t].order],
              1 .. venue'[task'[t].order].filled)

(* The tasks after a step, one by one.                                     *)
LEMMA TasksStep ==
    ASSUME Types, TasksOK, Onward, \A t \in Task : TaskGoesOn(t)
    PROVE  TasksOK'
<1> SUFFICES ASSUME NEW t \in Task, task'[t].pc # "rest"
             PROVE  TaskOK(task'[t], row'[task'[t].order], saved'[task'[t].order],
                           1 .. venue'[task'[t].order].filled)
  BY DEF TasksOK, Executed
<1>1. CASE task'[t] = task[t]
  <2> DEFINE o == task[t].order
  <2>1. task[t] \in Tasks
    BY DEF Types
  <2>2. o \in Order
    BY <1>1, <2>1, TaskFields
  <2>3. TaskOK(task[t], row[o], saved[o], 1 .. venue[o].filled)
    BY <1>1 DEF TasksOK, Executed
  <2>4. row[o] # NoRow
    BY <2>3 DEF TaskOK
  <2> HIDE DEF o
  <2>5. /\ row'[o] # NoRow /\ (IsOpen(row'[o]) => IsOpen(row[o]))
        /\ saved[o] \subseteq saved'[o]
        /\ 1 .. venue[o].filled \subseteq 1 .. venue'[o].filled
    BY <2>2, <2>4 DEF Onward
  <2>6. TaskOK(task[t], row'[o], saved'[o], 1 .. venue'[o].filled)
    BY <2>3, <2>5 DEF TaskOK, PlainOK, FillsOK
  <2> QED BY <1>1, <2>6 DEF o
<1>2. CASE task'[t] = Rest
  BY <1>2 DEF Rest
<1> QED BY <1>1, <1>2 DEF TaskGoesOn

(* The orders after a step, one by one.                                    *)
LEMMA OrdersStep ==
    ASSUME \A o \in Order :
        OrderOK(o, row'[o], obl'[o], saved'[o], 1 .. venue'[o].filled)
    PROVE  OrdersOK'
  BY DEF OrdersOK, Executed

(* A step that leaves the rows alone; the exchange may execute.            *)
LEMMA QuietStep ==
    ASSUME IInv, UNCHANGED <<row, obl, saved>>,
           \A o \in Order : 1 .. venue[o].filled \subseteq 1 .. venue'[o].filled
    PROVE  OrdersOK' /\ Onward
<1>1. Onward
  BY DEF Onward
<1>2. ASSUME NEW o \in Order
      PROVE  OrderOK(o, row'[o], obl'[o], saved'[o], 1 .. venue'[o].filled)
  <2>1. OrderOK(o, row[o], obl[o], saved[o], 1 .. venue[o].filled)
    BY DEF IInv, OrdersOK, Executed
  <2> QED BY <2>1 DEF OrderOK
<1> QED BY <1>1, <1>2, OrdersStep

------------------------------------------------------------------------------
(* Every step keeps the invariant *)

(* The invariant after a step in which no task moves.                      *)
LEMMA NoTaskMoves ==
    ASSUME IInv, Onward, task' = task
    PROVE  TasksOK'
<1>1. \A t \in Task : TaskGoesOn(t)
  BY DEF TaskGoesOn
<1> QED BY <1>1, TasksStep DEF IInv

(* The invariant after a step in which one task moves.                     *)
LEMMA OneTaskMoves ==
    ASSUME IInv, Onward, NEW t \in Task, TaskGoesOn(t),
           \A u \in Task \ {t} : task'[u] = task[u]
    PROVE  TasksOK'
<1>1. \A u \in Task : TaskGoesOn(u)
  BY DEF TaskGoesOn
<1> QED BY <1>1, TasksStep DEF IInv

(* The intake of an intent.                                                *)
LEMMA IntakeStep ==
    ASSUME IInv, NEW o \in Order, Intake(o)
    PROVE  IInv'
<1>1. CASE \/ TakeIntent(o) \/ PreviewReservation(o) \/ SaveReservationFails(o)
  <2>1. UNCHANGED <<row, obl, saved, cmd, venue, task>>
    BY <1>1 DEF TakeIntent, PreviewReservation, SaveReservationFails, NotIntake
  <2>2. /\ intake' \in [Order -> {"away", "check", "save"}]
        /\ \A p \in Order : intake'[p] # "away" => row[p] = NoRow
    BY <1>1 DEF TakeIntent, PreviewReservation, SaveReservationFails, EndIntake,
       IInv, Types, IntakeOK
  <2>3. faults' \in Nat
    BY <1>1 DEF TakeIntent, PreviewReservation, SaveReservationFails, Fault, IInv, Types
  <2>4. Types' /\ IntakeOK'
    BY <2>1, <2>2, <2>3 DEF IInv, Types, IntakeOK
  <2>5. OrdersOK' /\ Onward
    BY <2>1, QuietStep
  <2>6. TasksOK'
    BY <2>1, <2>5, NoTaskMoves
  <2> QED BY <2>4, <2>5, <2>6 DEF IInv
<1>2. CASE BlockReservation(o)
  <2> DEFINE snap == IntentState("BLOCKED", Qty, "other")
  <2>1. /\ row[o] = NoRow /\ row' = [row EXCEPT ![o] = SaveResult(row[o], snap)]
        /\ intake' = [intake EXCEPT ![o] = "away"]
        /\ UNCHANGED <<obl, cmd, faults, saved, venue, task>>
    BY <1>2 DEF EndIntake, BlockReservation, NotIntake, IInv, IntakeOK
  <2>2. snap \in OrderState /\ snap.status = "BLOCKED"
    <3>1. "BLOCKED" \in OrderLifecycleStatus /\ "other" \in ExecutionError
      BY DEF OrderLifecycleStatus, TERMINAL_ORDER_STATES, ExecutionError
    <3> QED BY <3>1, SnapshotTypes DEF IntentState
  <2> HIDE DEF snap
  <2>3. /\ row'[o] \in OrderState /\ ~IsOpen(row'[o])
        /\ \A p \in Order \ {o} : row'[p] = row[p]
    <3>1. row'[o] = SaveResult(row[o], snap) /\ row[o] \in OrderState \cup {NoRow}
      BY <2>1 DEF IInv, Types
    <3>2. ~SaveRaises(row[o], snap) /\ is_terminal(snap.status)
      BY <2>1, <2>2 DEF SaveRaises, is_terminal, TERMINAL_ORDER_STATES
    <3> QED BY <2>1, <2>2, <3>1, <3>2, SaveEnds DEF IInv, Types
  <2>4. row'[o] # NoRow
    BY <2>3, NoRowAssumption
  <2>5. Types'
    BY <2>1, <2>3 DEF IInv, Types
  <2>6. IntakeOK'
    BY <2>1, <2>3, <2>4 DEF IInv, Types, IntakeOK
  <2>7. Onward
    BY <2>1, <2>3 DEF Onward
  <2>8. OrdersOK'
    BY <2>1, <2>3 DEF IInv, OrdersOK, OrderOK, Executed
  <2>9. TasksOK'
    BY <2>1, <2>7, NoTaskMoves
  <2> QED BY <2>5, <2>6, <2>8, <2>9 DEF IInv
<1>3. CASE SaveReservation(o)
  <2> DEFINE snap == IntentState("CREATED", Qty, "none")
             b == NewObligation(o)
  <2>1. /\ row[o] = NoRow /\ row' = [row EXCEPT ![o] = SaveResult(row[o], snap)]
        /\ obl' = [obl EXCEPT ![o] = b]
        /\ cmd' = [cmd EXCEPT ![o] = "PENDING"]
        /\ intake' = [intake EXCEPT ![o] = "away"]
        /\ UNCHANGED <<faults, saved, venue, task>>
    BY <1>3 DEF EndIntake, SaveReservation, NotIntake, IInv, IntakeOK
  <2>2. snap \in OrderState
    <3>1. "CREATED" \in OrderLifecycleStatus /\ "none" \in ExecutionError
      BY DEF OrderLifecycleStatus, OPEN_ORDER_STATES, ExecutionError
    <3> QED BY <3>1, SnapshotTypes
  <2> HIDE DEF snap
  <2>3. row'[o] \in OrderState /\ \A p \in Order \ {o} : row'[p] = row[p]
    <3>1. row'[o] = SaveResult(row[o], snap) /\ row[o] \in OrderState \cup {NoRow}
      BY <2>1 DEF IInv, Types
    <3> QED BY <2>1, <2>2, <3>1, SaveEnds DEF IInv, Types
  <2>4. row'[o] # NoRow
    BY <2>3, NoRowAssumption
  <2>5. /\ b \in Previews
        /\ Reserved[o] > 0 => b # NoObl
        /\ b # NoObl => Counted(o, b) /\ Seen(b) = {} /\ b.released = 0
    BY NewObligationFacts
  <2> HIDE DEF b
  <2>6. Types'
    BY <2>1, <2>3, <2>5 DEF IInv, Types
  <2>7. IntakeOK'
    BY <2>1, <2>3, <2>4 DEF IInv, Types, IntakeOK
  <2>8. Onward
    BY <2>1, <2>3 DEF Onward
  <2>9. \A p \in Order : OrderOK(p, row'[p], obl'[p], saved'[p], 1 .. venue'[p].filled)
    <3>1. OrderOK(o, row'[o], obl'[o], saved'[o], 1 .. venue'[o].filled)
      <4>1. obl'[o] = b /\ saved'[o] = saved[o] /\ saved[o] \subseteq 1 .. venue'[o].filled
        BY <2>1 DEF IInv, Types, OrdersOK, OrderOK, Executed
      <4> QED BY <2>5, <4>1 DEF OrderOK
    <3>2. \A p \in Order \ {o} :
             OrderOK(p, row'[p], obl'[p], saved'[p], 1 .. venue'[p].filled)
      BY <2>1, <2>3 DEF IInv, Types, OrdersOK, Executed
    <3> QED BY <3>1, <3>2
  <2>10. OrdersOK'
    BY <2>9, OrdersStep
  <2>11. TasksOK'
    BY <2>1, <2>8, NoTaskMoves
  <2> QED BY <2>6, <2>7, <2>10, <2>11 DEF IInv
<1> QED BY <1>1, <1>2, <1>3 DEF Intake

(* A step in which the exchange's order changes its state and no more.     *)
LEMMA VenueStateChange ==
    ASSUME Types, NEW o \in Order, NEW st \in VenueState,
           venue' = [venue EXCEPT ![o] = [venue[o] EXCEPT !.state = st]]
    PROVE  /\ venue' \in [Order -> [state : VenueState, qty : {Qty}, filled : 0 .. Qty]]
           /\ \A p \in Order : venue'[p].filled = venue[p].filled
           /\ [venue[o] EXCEPT !.state = st] \in
                 [state : VenueState, qty : {Qty}, filled : 0 .. Qty]
  BY DEF Types

(* A task that has begun with an order in hand.                            *)
LEMMA TaskBegins ==
    ASSUME IInv, Onward, NEW t \in Task, NEW o \in Order, row[o] # NoRow,
           NEW s \in Tasks, s.pc \in {"place", "cancel", "detail"}, s.order = o,
           task' = [task EXCEPT ![t] = s]
    PROVE  TasksOK' /\ task' \in [Task -> Tasks]
<1>1. task'[t] = s /\ (\A u \in Task \ {t} : task'[u] = task[u]) /\ task' \in [Task -> Tasks]
  BY DEF IInv, Types
<1>2. row'[o] # NoRow
  BY DEF Onward
<1>3. TaskGoesOn(t)
  BY <1>1, <1>2 DEF TaskGoesOn, TaskOK
<1> QED BY <1>1, <1>3, OneTaskMoves

(* A task settles a snapshot it has got, with no row written: place_order, *)
(* cancel_order, the cancel before the submit, and the sync pass.          *)
LEMMA SnapshotStep ==
    ASSUME IInv, NEW o \in Order, NEW t \in Task, NEW snap \in OrderState,
           NEW list \in BOOLEAN, row[o] # NoRow,
           Begin(t, o, snap, list), NotBegin, UNCHANGED row,
           cmd' = cmd \/ cmd' = [cmd EXCEPT ![o] = "ABANDONED"],
           \/ UNCHANGED venue
           \/ \E st \in VenueState :
                 venue' = [venue EXCEPT ![o] = [venue[o] EXCEPT !.state = st]]
    PROVE  IInv'
<1>1. /\ venue' \in [Order -> [state : VenueState, qty : {Qty}, filled : 0 .. Qty]]
      /\ \A p \in Order : venue'[p].filled = venue[p].filled
  <2>1. CASE UNCHANGED venue
    BY <2>1 DEF IInv, Types
  <2>2. ASSUME NEW st \in VenueState,
               venue' = [venue EXCEPT ![o] = [venue[o] EXCEPT !.state = st]]
        PROVE  <1>1
    BY <2>2, VenueStateChange DEF IInv
  <2> QED BY <2>1, <2>2
<1>2. OrdersOK' /\ Onward
  BY <1>1, QuietStep DEF NotBegin
<1>3. /\ Settling(o, snap, list) \in Tasks
      /\ Settling(o, snap, list).pc = "detail" /\ Settling(o, snap, list).order = o
  BY DEF Settling, Tasks
<1>4. TasksOK' /\ task' \in [Task -> Tasks]
  BY <1>2, <1>3, TaskBegins DEF Begin
<1>5. Types' /\ IntakeOK'
  BY <1>1, <1>4 DEF IInv, Types, IntakeOK, NotBegin
<1> QED BY <1>2, <1>4, <1>5 DEF IInv

(* A task writes an order row first and then calls the exchange:           *)
(* SUBMITTING before place_order, CANCEL_PENDING before cancel_order.      *)
LEMMA CallStep ==
    ASSUME IInv, NEW o \in Order, row[o] # NoRow, NEW st \in OrderLifecycleStatus,
           NEW t \in Task, NotBegin, UNCHANGED venue,
           row' = [row EXCEPT ![o] = SaveResult(row[o], [row[o] EXCEPT !.status = st])],
           cmd' = cmd \/ cmd' = [cmd EXCEPT ![o] = "TAKEN"],
           \/ task' = [task EXCEPT ![t] = [pc |-> "place", order |-> o]]
           \/ task' = [task EXCEPT ![t] = [pc |-> "cancel", order |-> o, snap |-> row'[o]]]
    PROVE  IInv'
<1>1. [row[o] EXCEPT !.status = st] \in OrderState /\ row[o] \in OrderState
  BY DEF IInv, Types, OrderState
<1>2. /\ row'[o] \in OrderState /\ (IsOpen(row'[o]) => IsOpen(row[o]))
      /\ \A p \in Order \ {o} : row'[p] = row[p]
  BY <1>1, SaveEnds DEF IInv, Types
<1>3. row'[o] # NoRow
  BY <1>2, NoRowAssumption
<1>4. Onward
  BY <1>2, <1>3 DEF Onward, NotBegin
<1>5. ASSUME NEW p \in Order
      PROVE  OrderOK(p, row'[p], obl'[p], saved'[p], 1 .. venue'[p].filled)
  <2>1. OrderOK(p, row[p], obl[p], saved[p], 1 .. venue[p].filled)
    BY DEF IInv, OrdersOK, Executed
  <2>2. IsOpen(row'[p]) => IsOpen(row[p])
    BY <1>2
  <2> QED BY <2>1, <2>2 DEF OrderOK, NotBegin
<1>6. OrdersOK'
  BY <1>5, OrdersStep
<1>7. PICK s \in Tasks : /\ s.pc \in {"place", "cancel"} /\ s.order = o
                         /\ task' = [task EXCEPT ![t] = s]
  BY <1>2 DEF Tasks
<1>8. TasksOK' /\ task' \in [Task -> Tasks]
  <2>1. task'[t] = s /\ (\A u \in Task \ {t} : task'[u] = task[u]) /\ task' \in [Task -> Tasks]
    BY <1>7 DEF IInv, Types
  <2>2. TaskGoesOn(t)
    BY <1>3, <1>7, <2>1 DEF TaskGoesOn, TaskOK
  <2> QED BY <1>4, <2>1, <2>2, OneTaskMoves
<1>9. Types'
  BY <1>2, <1>8 DEF IInv, Types, NotBegin
<1>10. IntakeOK'
  BY <1>2, <1>3 DEF IInv, Types, IntakeOK, NotBegin
<1> QED BY <1>6, <1>8, <1>9, <1>10 DEF IInv

(* The steps that hand a task an order: to call the exchange, or to settle.*)
LEMMA BeginsStep ==
    ASSUME IInv, NEW o \in Order, Begins(o)
    PROVE  IInv'
<1>1. /\ "worker" \in Task /\ "sync" \in Task /\ "operator" \in Task
      /\ TRUE \in BOOLEAN /\ FALSE \in BOOLEAN
      /\ "live" \in VenueState /\ "canceled" \in VenueState
  BY DEF Task, VenueState
<1>2. ASSUME NEW t \in Task, task[t].pc # "rest", task[t].order = o
      PROVE  row[o] # NoRow
  BY <1>2 DEF IInv, TasksOK, TaskOK
<1>3. cmd[o] = "PENDING" => row[o] # NoRow
  BY DEF IInv, IntakeOK
<1>4. venue[o] \in [state : VenueState, qty : {Qty}, filled : 0 .. Qty]
  BY DEF IInv, Types
<1>5. row[o] \in OrderState \cup {NoRow}
  BY DEF IInv, Types
<1>6. CASE BeginSubmit(o)
  <2>1. "SUBMITTING" \in OrderLifecycleStatus
    BY DEF OrderLifecycleStatus, OPEN_ORDER_STATES
  <2> QED BY <1>1, <1>3, <1>6, <2>1, CallStep DEF BeginSubmit
<1>7. CASE BeginCancel(o)
  <2>1. "CANCEL_PENDING" \in OrderLifecycleStatus
    BY DEF OrderLifecycleStatus, OPEN_ORDER_STATES
  <2> QED BY <1>1, <1>7, <2>1, CallStep DEF BeginCancel, IsOpen
<1>8. CASE PlaceAccepted(o)
  <2> DEFINE v == [venue[o] EXCEPT !.state = "live"]
  <2>1. v \in [state : VenueState, qty : {Qty}, filled : 0 .. Qty]
    BY <1>1, <1>4
  <2>2. row[o] # NoRow
    BY <1>1, <1>2, <1>8 DEF PlaceAccepted
  <2>3. MapOrderState(o, v) \in OrderState /\ SubmittedState(o, Qty) \in OrderState
    BY <2>1, SnapshotTypes
  <2>4. /\ venue' = [venue EXCEPT ![o] = [venue[o] EXCEPT !.state = "live"]]
        /\ UNCHANGED <<row, cmd>> /\ NotBegin
        /\ \/ Begin("worker", o, SubmittedState(o, Qty), FALSE)
           \/ Begin("worker", o, MapOrderState(o, v), TRUE)
    BY <1>8 DEF PlaceAccepted
  <2> HIDE DEF v
  <2> QED BY <1>1, <2>2, <2>3, <2>4, SnapshotStep
<1>9. CASE PlaceRefused(o)
  <2>1. row[o] # NoRow
    BY <1>1, <1>2, <1>9 DEF PlaceRefused
  <2>2. IntentState("REJECTED", Qty, "other") \in OrderState
    <3>1. "REJECTED" \in OrderLifecycleStatus /\ "other" \in ExecutionError
      BY DEF OrderLifecycleStatus, TERMINAL_ORDER_STATES, ExecutionError
    <3> QED BY <3>1, SnapshotTypes
  <2> QED BY <1>1, <1>9, <2>1, <2>2, SnapshotStep DEF PlaceRefused
<1>10. CASE CancelAccepted(o) \/ CancelRefused(o)
  <2> DEFINE v == [venue[o] EXCEPT !.state = "canceled"]
             s == task["worker"].snap
             f == [s EXCEPT !.status = "FAILED", !.execution_error = "other"]
  <2>1. v \in [state : VenueState, qty : {Qty}, filled : 0 .. Qty]
    BY <1>1, <1>4
  <2>2. task["worker"].pc = "cancel" /\ task["worker"].order = o
    BY <1>10 DEF CancelAccepted, CancelRefused
  <2>3. row[o] # NoRow
    BY <1>1, <1>2, <2>2
  <2>4. s \in OrderState
    <3>1. task["worker"] \in Tasks
      BY <1>1 DEF IInv, Types
    <3> QED BY <2>2, <3>1, TaskFields
  <2>5. f \in OrderState
    <3>1. "FAILED" \in OrderLifecycleStatus /\ "other" \in ExecutionError
      BY DEF OrderLifecycleStatus, TERMINAL_ORDER_STATES, ExecutionError
    <3> HIDE DEF s
    <3> QED BY <2>4, <3>1 DEF OrderState
  <2>6. MapOrderState(o, v) \in OrderState
    BY <2>1, SnapshotTypes
  <2>7. /\ UNCHANGED <<row, cmd>> /\ NotBegin
        /\ \/ UNCHANGED venue
           \/ venue' = [venue EXCEPT ![o] = [venue[o] EXCEPT !.state = "canceled"]]
        /\ \/ Begin("worker", o, MapOrderState(o, v), TRUE)
           \/ Begin("worker", o, s, FALSE)
           \/ Begin("worker", o, f, FALSE)
    BY <1>10 DEF CancelAccepted, CancelRefused
  <2> HIDE DEF v, s, f
  <2> QED BY <1>1, <2>3, <2>4, <2>5, <2>6, <2>7, SnapshotStep
<1>11. CASE CancelBeforeSubmit(o)
  <2>1. row[o] # NoRow
    BY <1>3, <1>11 DEF CancelBeforeSubmit
  <2>2. [row[o] EXCEPT !.status = "CANCELED"] \in OrderState
    <3>1. "CANCELED" \in OrderLifecycleStatus
      BY DEF OrderLifecycleStatus, TERMINAL_ORDER_STATES
    <3> QED BY <1>5, <2>1, <3>1 DEF OrderState
  <2> QED BY <1>1, <1>11, <2>1, <2>2, SnapshotStep DEF CancelBeforeSubmit
<1>12. CASE SyncReads(o)
  <2>1. row[o] # NoRow /\ row[o] \in OrderState
    BY <1>5, <1>12 DEF SyncReads
  <2>2. MapOrderState(o, venue[o]) \in OrderState
    BY <1>4, SnapshotTypes
  <2> QED BY <1>1, <1>12, <2>1, <2>2, SnapshotStep DEF SyncReads
<1> QED BY <1>6, <1>7, <1>8, <1>9, <1>10, <1>11, <1>12 DEF Begins

(* What a task under way knows of its order.                               *)
LEMMA UnderWay ==
    ASSUME IInv, NEW t \in Task, task[t].pc # "rest"
    PROVE  LET o == task[t].order IN
           /\ task[t] \in Tasks /\ o \in Order
           /\ row[o] # NoRow /\ row[o] \in OrderState
           /\ obl[o] \in Previews /\ saved[o] \in SUBSET Fill
           /\ 1 .. venue[o].filled \subseteq Fill
           /\ TaskOK(task[t], row[o], saved[o], 1 .. venue[o].filled)
           /\ OrderOK(o, row[o], obl[o], saved[o], 1 .. venue[o].filled)
<1> DEFINE o == task[t].order
<1>1. task[t] \in Tasks
  BY DEF IInv, Types
<1>2. o \in Order
  BY <1>1, TaskFields
<1>3. TaskOK(task[t], row[o], saved[o], 1 .. venue[o].filled)
  BY DEF IInv, TasksOK, Executed
<1>4. row[o] # NoRow
  BY <1>3 DEF TaskOK
<1> HIDE DEF o
<1>5. OrderOK(o, row[o], obl[o], saved[o], 1 .. venue[o].filled)
  BY <1>2 DEF IInv, OrdersOK, Executed
<1>6. row[o] \in OrderState /\ obl[o] \in Previews /\ saved[o] \in SUBSET Fill
  BY <1>2, <1>4 DEF IInv, Types
<1>7. venue[o].filled \in 0 .. Qty
  BY <1>2 DEF IInv, Types
<1>8. 1 .. venue[o].filled \subseteq Fill
  BY <1>7, QtyAssumption DEF Fill
<1> QED BY <1>1, <1>2, <1>3, <1>4, <1>5, <1>6, <1>8 DEF o

(* The preview of a settlement computes rows of the order, and a releasing *)
(* one only for a snapshot that ends it.                                   *)
LEMMA PreviewStep ==
    ASSUME IInv, NEW t \in Task, Preview(t)
    PROVE  IInv'
<1> DEFINE o == task[t].order
           snap == task[t].snap
<1>1. /\ task[t].pc = "detail"
      /\ UNCHANGED <<row, obl, saved, cmd, venue, intake, avail, faults>>
  BY DEF Preview
<1>2. /\ o \in Order /\ row[o] # NoRow /\ obl[o] \in Previews /\ saved[o] \in SUBSET Fill
      /\ 1 .. venue[o].filled \subseteq Fill
      /\ OrderOK(o, row[o], obl[o], saved[o], 1 .. venue[o].filled)
      /\ task[t] \in Tasks
  BY <1>1, UnderWay
<1>3. snap \in OrderState
  BY <1>1, <1>2, TaskFields
<1>4. OrdersOK' /\ Onward
  BY <1>1, QuietStep
<1>5. PICK fills \in SUBSET (1 .. venue[o].filled) :
        task' = [task EXCEPT ![t] =
              IF fills = {}
              THEN [pc |-> "plain", order |-> o, snap |-> snap,
                    final |-> TerminalOutboxObligation(o, snap)]
              ELSE [pc |-> "fills", order |-> o, snap |-> snap, fills |-> fills,
                    base |-> obl[o],
                    final |-> IF obl[o] = NoObl THEN NoObl
                              ELSE Finalized(ApplyFills(obl[o], fills), snap.status)]]
  BY DEF Preview, Executed
<1> HIDE DEF o, snap
<1>6. /\ row'[o] = row[o] /\ saved'[o] = saved[o] /\ venue'[o] = venue[o]
      /\ fills \in SUBSET Fill
  BY <1>1, <1>2, <1>5
<1>7. CASE fills = {}
  <2> DEFINE fin == TerminalOutboxObligation(o, snap)
             s == [pc |-> "plain", order |-> o, snap |-> snap, final |-> fin]
  <2>1. /\ fin \in Previews
        /\ fin # NoObl => /\ is_terminal(snap.status) /\ Counted(o, fin)
                          /\ Seen(fin) \subseteq saved[o]
    <3>1. fin \in {NoObl, Finalized(obl[o], snap.status)}
      BY DEF TerminalOutboxObligation
    <3>2. /\ Finalized(obl[o], snap.status) \in Previews
          /\ Finalized(obl[o], snap.status) # NoObl =>
               /\ obl[o] # NoObl /\ is_terminal(snap.status)
               /\ Finalized(obl[o], snap.status).reserved = obl[o].reserved
               /\ Finalized(obl[o], snap.status).consumed = obl[o].consumed
               /\ Finalized(obl[o], snap.status).fills = obl[o].fills
               /\ Finalized(obl[o], snap.status).blocked = obl[o].blocked
               /\ Spent(Finalized(obl[o], snap.status))
      BY <1>2, FinalizedFacts
    <3> QED BY <1>2, <3>1, <3>2 DEF OrderOK, Counted, Seen, Previews
  <2>2. s \in Tasks
    BY <1>2, <1>3, <2>1, TaskForms DEF Tasks
  <2>3. task'[t] = s /\ (\A u \in Task \ {t} : task'[u] = task[u]) /\ task' \in [Task -> Tasks]
    BY <1>5, <1>7, <2>2 DEF IInv, Types
  <2> HIDE DEF fin
  <2>4. TaskGoesOn(t)
    BY <1>2, <1>6, <2>1, <2>3 DEF TaskGoesOn, TaskOK, PlainOK
  <2>5. TasksOK'
    BY <1>4, <2>3, <2>4, OneTaskMoves
  <2>6. Types' /\ IntakeOK'
    BY <1>1, <2>3 DEF IInv, Types, IntakeOK
  <2> QED BY <1>4, <2>5, <2>6 DEF IInv
<1>8. CASE fills # {}
  <2> DEFINE a == ApplyFills(obl[o], fills)
             fin == IF obl[o] = NoObl THEN NoObl ELSE Finalized(a, snap.status)
             s == [pc |-> "fills", order |-> o, snap |-> snap, fills |-> fills,
                   base |-> obl[o], final |-> fin]
  <2>1. /\ fin \in Previews
        /\ fin # NoObl => /\ is_terminal(snap.status) /\ Counted(o, fin)
                          /\ Seen(fin) \subseteq saved[o] \cup fills
    <3>1. CASE obl[o] = NoObl
      BY <3>1 DEF Previews
    <3>2. CASE obl[o] # NoObl
      <4>1. /\ obl[o] \in Obligation /\ Counted(o, obl[o]) /\ Seen(obl[o]) \subseteq saved[o]
        BY <1>2, <3>2 DEF OrderOK, Previews
      <4>2. a \in Obligation /\ Counted(o, a) /\ Seen(a) \subseteq Seen(obl[o]) \cup fills
        BY <1>2, <1>6, <4>1, ApplyFillsFacts
      <4> HIDE DEF a
      <4>3. a \in Previews
        BY <4>2 DEF Previews
      <4>4. /\ Finalized(a, snap.status) \in Previews
            /\ Finalized(a, snap.status) # NoObl =>
                 /\ is_terminal(snap.status)
                 /\ Finalized(a, snap.status).reserved = a.reserved
                 /\ Finalized(a, snap.status).consumed = a.consumed
                 /\ Finalized(a, snap.status).fills = a.fills
                 /\ Finalized(a, snap.status).blocked = a.blocked
                 /\ Spent(Finalized(a, snap.status))
        BY <4>3, FinalizedFacts
      <4>5. fin = Finalized(a, snap.status)
        BY <3>2
      <4> QED BY <4>1, <4>2, <4>4, <4>5 DEF Counted, Seen
    <3> QED BY <3>1, <3>2
  <2> HIDE DEF fin, a
  <2>2. s \in Tasks
    BY <1>2, <1>3, <1>6, <2>1 DEF Tasks
  <2>3. task'[t] = s /\ (\A u \in Task \ {t} : task'[u] = task[u]) /\ task' \in [Task -> Tasks]
    BY <1>5, <1>8, <2>2 DEF IInv, Types, fin, a
  <2>4. FillsOK(s, row[o], saved[o], 1 .. venue[o].filled)
    BY <1>2, <1>5, <2>1 DEF FillsOK, OrderOK
  <2>5. TaskGoesOn(t)
    <3>1. s.pc = "fills" /\ s.order = o
      OBVIOUS
    <3> HIDE DEF s
    <3> QED BY <1>2, <1>6, <2>3, <2>4, <3>1 DEF TaskGoesOn, TaskOK
  <2>6. TasksOK'
    BY <1>4, <2>3, <2>5, OneTaskMoves
  <2>7. Types' /\ IntakeOK'
    BY <1>1, <2>3 DEF IInv, Types, IntakeOK
  <2> QED BY <1>4, <2>6, <2>7 DEF IInv
<1> QED BY <1>7, <1>8

(* A snapshot that is saved with its fills.                                *)
LEMMA SaveStep ==
    ASSUME IInv, NEW o \in Order, NEW snap \in OrderState, row[o] # NoRow,
           row' = [row EXCEPT ![o] = SaveResult(row[o], snap)],
           saved' \in [Order -> SUBSET Fill], \A p \in Order : saved[p] \subseteq saved'[p],
           UNCHANGED venue
    PROVE  /\ row' \in [Order -> OrderState \cup {NoRow}]
           /\ row'[o] \in OrderState /\ row'[o] # NoRow
           /\ IsOpen(row'[o]) => IsOpen(row[o])
           /\ ~SaveRaises(row[o], snap) /\ is_terminal(snap.status) => ~IsOpen(row'[o])
           /\ \A p \in Order \ {o} : row'[p] = row[p]
           /\ Onward
<1>1. /\ row'[o] = SaveResult(row[o], snap) /\ row[o] \in OrderState \cup {NoRow}
      /\ \A p \in Order \ {o} : row'[p] = row[p]
  BY DEF IInv, Types
<1>2. /\ row'[o] \in OrderState
      /\ IsOpen(row'[o]) => IsOpen(row[o])
      /\ ~SaveRaises(row[o], snap) /\ is_terminal(snap.status) => ~IsOpen(row'[o])
  BY <1>1, SaveEnds
<1>3. row'[o] # NoRow
  BY <1>2, NoRowAssumption
<1>4. row' \in [Order -> OrderState \cup {NoRow}]
  BY <1>2 DEF IInv, Types
<1>5. Onward
  BY <1>1, <1>2, <1>3 DEF Onward
<1> QED BY <1>1, <1>2, <1>3, <1>4, <1>5

(* Order, fills and obligation in one transaction: what is written over an *)
(* obligation has counted fills that are then on record, and releases only *)
(* with an order that ends (persist_order_state_with_fills).               *)
LEMMA CommitFillsStep ==
    ASSUME IInv, NEW t \in Task, CommitFills(t)
    PROVE  IInv'
<1> DEFINE s == task[t]
           o == s.order
           new == IF s.final # NoObl THEN s.final ELSE Chained(s, s.fills \ saved[o])
<1>1. /\ s.pc = "fills" /\ ~SaveRaises(row[o], s.snap)
      /\ row' = [row EXCEPT ![o] = SaveResult(row[o], s.snap)]
      /\ saved' = [saved EXCEPT ![o] = saved[o] \cup s.fills]
      /\ obl' = [obl EXCEPT ![o] = new]
      /\ task' = [task EXCEPT ![t] = Rest]
      /\ UNCHANGED <<faults, cmd, venue, intake>>
  BY DEF CommitFills, Finish, NotSettling
<1>2. /\ o \in Order /\ row[o] # NoRow /\ obl[o] \in Previews /\ saved[o] \in SUBSET Fill
      /\ OrderOK(o, row[o], obl[o], saved[o], 1 .. venue[o].filled)
      /\ TaskOK(s, row[o], saved[o], 1 .. venue[o].filled)
      /\ s \in Tasks
  BY <1>1, UnderWay
<1>3. s.snap \in OrderState /\ s.final \in Previews /\ s.base \in Previews
      /\ s.fills \in SUBSET Fill
  BY <1>1, <1>2, TaskFields
<1>4. FillsOK(s, row[o], saved[o], 1 .. venue[o].filled)
  BY <1>1, <1>2 DEF TaskOK
<1> HIDE DEF o, s
<1>5. /\ saved' \in [Order -> SUBSET Fill] /\ saved'[o] = saved[o] \cup s.fills
      /\ \A p \in Order : saved[p] \subseteq saved'[p]
      /\ \A p \in Order \ {o} : saved'[p] = saved[p] /\ obl'[p] = obl[p]
      /\ obl'[o] = new
  BY <1>1, <1>2, <1>3 DEF IInv, Types
<1>6. /\ row' \in [Order -> OrderState \cup {NoRow}] /\ row'[o] # NoRow
      /\ IsOpen(row'[o]) => IsOpen(row[o])
      /\ is_terminal(s.snap.status) => ~IsOpen(row'[o])
      /\ \A p \in Order \ {o} : row'[p] = row[p]
      /\ Onward
  BY <1>1, <1>2, <1>3, <1>5, SaveStep
<1>7. /\ new \in Previews
      /\ obl[o] # NoObl => new # NoObl
      /\ new # NoObl => Counted(o, new) /\ Seen(new) \subseteq saved'[o]
      /\ IsOpen(row'[o]) /\ new # NoObl => new.released = 0
  <2>1. CASE s.final # NoObl
    <3>1. s.final \in Previews /\ is_terminal(s.snap.status) /\ Counted(s.order, s.final)
          /\ Seen(s.final) \subseteq saved[o] \cup s.fills
      BY <1>3, <1>4, <2>1 DEF FillsOK
    <3>2. new = s.final /\ s.order = o
      BY <2>1 DEF o
    <3> HIDE DEF new
    <3> QED BY <1>5, <1>6, <2>1, <3>1, <3>2
  <2>2. CASE s.final = NoObl /\ (s.base = NoObl \/ s.fills \ saved[o] = {})
    <3>1. new = obl[o]
      BY <2>2 DEF Chained, o
    <3> HIDE DEF new
    <3> QED BY <1>2, <1>5, <1>6, <3>1 DEF OrderOK
  <2>3. CASE s.final = NoObl /\ s.base # NoObl /\ s.fills \ saved[o] # {}
    <3> DEFINE list == {f \in s.fills : \E g \in s.fills \ saved[o] : f <= g}
               a == ApplyFills(s.base, list)
    <3>1. list \in SUBSET Fill /\ list \subseteq s.fills
      BY <1>3
    <3>2. new = a
      BY <2>3 DEF Chained
    <3>3. /\ s.base \in Obligation /\ Counted(o, s.base) /\ Seen(s.base) \subseteq saved[o]
          /\ IsOpen(row[o]) => s.base.released = 0
      BY <1>3, <1>4, <2>3 DEF FillsOK, Previews, o
    <3> HIDE DEF list
    <3>4. /\ a \in Obligation /\ Counted(o, a) /\ Seen(a) \subseteq Seen(s.base) \cup list
          /\ a.released = s.base.released
      BY <1>2, <3>1, <3>3, ApplyFillsFacts
    <3> HIDE DEF a, new
    <3>5. a # NoObl /\ a \in Previews
      BY <3>4, NoOblAssumption DEF Previews
    <3> QED BY <1>5, <1>6, <3>1, <3>2, <3>3, <3>4, <3>5
  <2> QED BY <2>1, <2>2, <2>3
<1> HIDE DEF new
<1>8. ASSUME NEW p \in Order
      PROVE  OrderOK(p, row'[p], obl'[p], saved'[p], 1 .. venue'[p].filled)
  <2>1. CASE p = o
    <3>1. saved[o] \subseteq 1 .. venue[o].filled /\ s.fills \subseteq 1 .. venue[o].filled
      BY <1>2, <1>4 DEF OrderOK, FillsOK
    <3>2. IsOpen(row'[o]) /\ Reserved[o] > 0 => new # NoObl
      BY <1>2, <1>6, <1>7 DEF OrderOK
    <3> QED BY <1>1, <1>5, <1>6, <1>7, <2>1, <3>1, <3>2 DEF OrderOK
  <2>2. CASE p # o
    BY <1>1, <1>5, <1>6, <2>2 DEF IInv, OrdersOK, Executed
  <2> QED BY <2>1, <2>2
<1>9. OrdersOK'
  BY <1>8, OrdersStep
<1>10. /\ task' \in [Task -> Tasks] /\ task'[t] = Rest
       /\ \A u \in Task \ {t} : task'[u] = task[u]
  BY <1>1 DEF IInv, Types, Tasks
<1>11. TasksOK'
  BY <1>6, <1>10, OneTaskMoves DEF TaskGoesOn
<1>12. Types'
  BY <1>1, <1>2, <1>5, <1>6, <1>7, <1>10 DEF IInv, Types
<1>13. IntakeOK'
  BY <1>1, <1>2, <1>6 DEF IInv, IntakeOK
<1> QED BY <1>9, <1>11, <1>12, <1>13 DEF IInv

(* A snapshot without fills, and the obligation it ends                    *)
(* (persist_order_state).                                                  *)
LEMMA CommitPlainStep ==
    ASSUME IInv, NEW t \in Task, CommitPlain(t)
    PROVE  IInv'
<1> DEFINE s == task[t]
           o == s.order
           new == IF s.final # NoObl THEN s.final ELSE obl[o]
           f == [pc |-> "finalize", order |-> o, status |-> row'[o].status]
<1>1. /\ s.pc = "plain" /\ ~SaveRaises(row[o], s.snap)
      /\ row' = [row EXCEPT ![o] = SaveResult(row[o], s.snap)]
      /\ obl' = [obl EXCEPT ![o] = new]
      /\ task' = [task EXCEPT ![t] = f]
      /\ UNCHANGED <<saved, faults, cmd, venue, intake>>
  BY DEF CommitPlain, NotSettling
<1>2. /\ o \in Order /\ row[o] # NoRow /\ obl[o] \in Previews
      /\ OrderOK(o, row[o], obl[o], saved[o], 1 .. venue[o].filled)
      /\ TaskOK(s, row[o], saved[o], 1 .. venue[o].filled)
      /\ s \in Tasks
  BY <1>1, UnderWay
<1>3. s.snap \in OrderState /\ s.final \in Previews
  BY <1>1, <1>2, TaskFields
<1>4. PlainOK(s, saved[o]) /\ s.order = o
  BY <1>1, <1>2 DEF TaskOK
<1> HIDE DEF o, s, f
<1>5. /\ saved' \in [Order -> SUBSET Fill]
      /\ \A p \in Order : saved[p] \subseteq saved'[p]
      /\ \A p \in Order \ {o} : obl'[p] = obl[p]
      /\ obl'[o] = new
  BY <1>1, <1>2 DEF IInv, Types
<1>6. /\ row' \in [Order -> OrderState \cup {NoRow}] /\ row'[o] # NoRow
      /\ row'[o] \in OrderState
      /\ IsOpen(row'[o]) => IsOpen(row[o])
      /\ is_terminal(s.snap.status) => ~IsOpen(row'[o])
      /\ \A p \in Order \ {o} : row'[p] = row[p]
      /\ Onward
  BY <1>1, <1>2, <1>3, <1>5, SaveStep
<1>7. /\ new \in Previews
      /\ obl[o] # NoObl => new # NoObl
      /\ new # NoObl => Counted(o, new) /\ Seen(new) \subseteq saved[o]
      /\ IsOpen(row'[o]) /\ new # NoObl => new.released = 0
  <2>1. CASE s.final # NoObl
    BY <1>3, <1>4, <1>6, <2>1 DEF PlainOK
  <2>2. CASE s.final = NoObl
    BY <1>2, <1>6, <2>2 DEF OrderOK
  <2> QED BY <2>1, <2>2
<1> HIDE DEF new
<1>8. ASSUME NEW p \in Order
      PROVE  OrderOK(p, row'[p], obl'[p], saved'[p], 1 .. venue'[p].filled)
  <2>1. CASE p = o
    <3>1. saved'[o] = saved[o] /\ venue'[o] = venue[o] /\ obl'[o] = new
      BY <1>1, <1>5
    <3>2. IsOpen(row'[o]) /\ Reserved[o] > 0 => new # NoObl
      BY <1>2, <1>6, <1>7 DEF OrderOK
    <3> QED BY <1>2, <1>7, <2>1, <3>1, <3>2 DEF OrderOK
  <2>2. CASE p # o
    BY <1>1, <1>5, <1>6, <2>2 DEF IInv, OrdersOK, Executed
  <2> QED BY <2>1, <2>2
<1>9. OrdersOK'
  BY <1>8, OrdersStep
<1>10. f \in Tasks /\ f.pc = "finalize" /\ f.order = o /\ f.status = row'[o].status
  BY <1>2, <1>6 DEF f, Tasks, OrderState
<1>11. /\ task' \in [Task -> Tasks] /\ task'[t] = f
       /\ \A u \in Task \ {t} : task'[u] = task[u]
  BY <1>1, <1>10 DEF IInv, Types
<1>12. TaskGoesOn(t)
  BY <1>6, <1>10, <1>11 DEF TaskGoesOn, TaskOK, IsOpen
<1>13. TasksOK'
  BY <1>6, <1>11, <1>12, OneTaskMoves
<1>14. Types'
  BY <1>1, <1>2, <1>5, <1>6, <1>7, <1>11 DEF IInv, Types
<1>15. IntakeOK'
  BY <1>1, <1>2, <1>6 DEF IInv, IntakeOK
<1> QED BY <1>9, <1>13, <1>14, <1>15 DEF IInv

(* The finalization that follows a plain save (finalize_terminal_order):   *)
(* read, and then written, for an order that has ended by then.            *)
LEMMA FinalizeStep ==
    ASSUME IInv, NEW t \in Task, FinalizeRead(t) \/ FinalizeWrite(t)
    PROVE  IInv'
<1> DEFINE s == task[t]
           o == s.order
<1>1. /\ s.pc \in {"finalize", "write"}
      /\ UNCHANGED <<row, saved, faults, cmd, venue, intake>>
  BY DEF FinalizeRead, FinalizeWrite, NotSettling
<1>2. /\ o \in Order /\ row[o] # NoRow /\ obl[o] \in Previews
      /\ OrderOK(o, row[o], obl[o], saved[o], 1 .. venue[o].filled)
      /\ TaskOK(s, row[o], saved[o], 1 .. venue[o].filled)
      /\ s \in Tasks
  BY <1>1, UnderWay
<1>3. IntakeOK' /\ Onward
  BY <1>1 DEF IInv, IntakeOK, Onward
<1>4. CASE FinalizeRead(t)
  <2> DEFINE b == Finalized(obl[o], s.status)
             w == [pc |-> "write", order |-> o, final |-> b]
  <2>1. /\ s.pc = "finalize" /\ UNCHANGED obl
        /\ task' = [task EXCEPT ![t] = IF b \in {NoObl, obl[o]} THEN Rest ELSE w]
    BY <1>4 DEF FinalizeRead
  <2>2. is_terminal(s.status) => ~IsOpen(row[o])
    BY <1>2, <2>1 DEF TaskOK
  <2> HIDE DEF s, o
  <2>3. /\ b \in Previews
        /\ b # NoObl => /\ b \in Obligation /\ is_terminal(s.status) /\ obl[o] # NoObl
                        /\ b.reserved = obl[o].reserved /\ b.consumed = obl[o].consumed
                        /\ b.fills = obl[o].fills /\ b.blocked = obl[o].blocked
                        /\ Spent(b)
    BY <1>2, FinalizedFacts
  <2> HIDE DEF b
  <2>4. Rest \in Tasks /\ (b # NoObl => w \in Tasks)
    BY <1>2, <2>3 DEF Tasks
  <2>5. w.pc = "write" /\ w.order = o /\ w.final = b
    OBVIOUS
  <2> HIDE DEF w
  <2>6. /\ task' \in [Task -> Tasks]
        /\ task'[t] = Rest \/ (task'[t] = w /\ b # NoObl)
        /\ \A u \in Task \ {t} : task'[u] = task[u]
    BY <2>1, <2>4 DEF IInv, Types
  <2>7. TaskGoesOn(t)
    <3>1. CASE task'[t] = Rest
      BY <3>1 DEF TaskGoesOn
    <3>2. CASE task'[t] = w /\ b # NoObl
      <4>1. Counted(o, b) /\ Seen(b) \subseteq saved[o] /\ ~IsOpen(row[o])
        BY <1>2, <2>2, <2>3, <3>2 DEF OrderOK, Counted, Seen
      <4> QED BY <1>1, <1>2, <2>5, <3>2, <4>1 DEF TaskGoesOn, TaskOK
    <3> QED BY <2>6, <3>1, <3>2
  <2>8. TasksOK'
    BY <1>3, <2>6, <2>7, OneTaskMoves
  <2>9. OrdersOK'
    BY <1>1, <2>1, QuietStep
  <2>10. Types'
    BY <1>1, <2>1, <2>6 DEF IInv, Types
  <2> QED BY <1>3, <2>8, <2>9, <2>10 DEF IInv
<1>5. CASE FinalizeWrite(t)
  <2>1. /\ s.pc = "write" /\ obl' = [obl EXCEPT ![o] = s.final]
        /\ task' = [task EXCEPT ![t] = Rest]
    BY <1>5 DEF FinalizeWrite, Finish
  <2>2. s.final \in Obligation
    BY <1>2, <2>1, TaskFields
  <2>3. ~IsOpen(row[o]) /\ Counted(o, s.final) /\ Seen(s.final) \subseteq saved[o]
    BY <1>2, <2>1 DEF TaskOK
  <2> HIDE DEF s, o
  <2>4. ASSUME NEW p \in Order
        PROVE  OrderOK(p, row'[p], obl'[p], saved'[p], 1 .. venue'[p].filled)
    <3>1. OrderOK(p, row[p], obl[p], saved[p], 1 .. venue[p].filled)
      BY DEF IInv, OrdersOK, Executed
    <3>2. CASE p = o
      <4>1. obl'[o] = s.final
        BY <1>2, <2>1 DEF IInv, Types
      <4> QED BY <1>1, <2>3, <3>1, <3>2, <4>1 DEF OrderOK
    <3>3. CASE p # o
      <4>1. obl'[p] = obl[p]
        BY <2>1, <3>3 DEF IInv, Types
      <4> QED BY <1>1, <3>1, <4>1
    <3> QED BY <3>2, <3>3
  <2>5. OrdersOK'
    BY <2>4, OrdersStep
  <2>6. /\ task' \in [Task -> Tasks] /\ task'[t] = Rest
        /\ \A u \in Task \ {t} : task'[u] = task[u]
    BY <2>1 DEF IInv, Types, Tasks
  <2>7. TasksOK'
    BY <1>3, <2>6, OneTaskMoves DEF TaskGoesOn
  <2>8. Types'
    BY <1>1, <1>2, <2>1, <2>2, <2>6 DEF IInv, Types, Previews
  <2> QED BY <1>3, <2>5, <2>7, <2>8 DEF IInv
<1> QED BY <1>4, <1>5

(* A settlement that is refused or fails keeps nothing.                    *)
LEMMA DroppedStep ==
    ASSUME IInv, NEW t \in Task, CommitRefused(t) \/ CommitFails(t)
    PROVE  IInv'
<1>1. /\ task' = [task EXCEPT ![t] = Rest] /\ faults' \in Nat
      /\ UNCHANGED <<row, obl, saved, cmd, venue, intake>>
  BY DEF CommitRefused, CommitFails, Finish, Fault, NotSettling, IInv, Types
<1>2. OrdersOK' /\ Onward
  BY <1>1, QuietStep
<1>3. /\ task' \in [Task -> Tasks] /\ task'[t] = Rest
      /\ \A u \in Task \ {t} : task'[u] = task[u]
  BY <1>1 DEF IInv, Types, Tasks
<1>4. TasksOK'
  BY <1>2, <1>3, OneTaskMoves DEF TaskGoesOn
<1>5. Types' /\ IntakeOK'
  BY <1>1, <1>3 DEF IInv, Types, IntakeOK
<1> QED BY <1>2, <1>4, <1>5 DEF IInv

(* The exchange executes or cancels by itself.                             *)
LEMMA VenueStep ==
    ASSUME IInv, NEW o \in Order, VenueFills(o) \/ VenueCancels(o)
    PROVE  IInv'
<1> DEFINE V == [state : VenueState, qty : {Qty}, filled : 0 .. Qty]
<1>1. UNCHANGED <<row, obl, saved, cmd, intake, task, faults>>
  BY DEF VenueFills, VenueCancels
<1>2. /\ venue \in [Order -> V] /\ venue[o] \in V /\ venue[o].filled \in 0 .. Qty
  BY DEF IInv, Types
<1>3. CASE VenueCancels(o)
  <2>1. venue' = [venue EXCEPT ![o] = [venue[o] EXCEPT !.state = "canceled"]]
    BY <1>3 DEF VenueCancels
  <2>2. "canceled" \in VenueState
    BY DEF VenueState
  <2>3. venue' \in [Order -> V] /\ \A p \in Order : venue'[p].filled = venue[p].filled
    BY <2>1, <2>2, VenueStateChange DEF IInv
  <2>4. OrdersOK' /\ Onward
    BY <1>1, <2>3, QuietStep
  <2>5. TasksOK' /\ Types' /\ IntakeOK'
    BY <1>1, <2>3, <2>4, NoTaskMoves DEF IInv, Types, IntakeOK
  <2> QED BY <2>4, <2>5 DEF IInv
<1>4. CASE VenueFills(o)
  <2> DEFINE n == venue[o].filled + 1
             w == [venue[o] EXCEPT !.filled = n,
                                   !.state = IF n = Qty THEN "filled" ELSE "live"]
  <2>1. venue' = [venue EXCEPT ![o] = w]
    BY <1>4 DEF VenueFills
  <2>2. n \in 0 .. Qty /\ 1 .. venue[o].filled \subseteq 1 .. n
    BY <1>2, <1>4, QtyAssumption DEF VenueFills
  <2> HIDE DEF n
  <2>3. w \in V /\ w.filled = n
    BY <1>2, <2>2 DEF VenueState
  <2> HIDE DEF w
  <2>4. /\ venue' \in [Order -> V]
        /\ \A p \in Order : 1 .. venue[p].filled \subseteq 1 .. venue'[p].filled
    BY <1>2, <2>1, <2>2, <2>3
  <2>5. OrdersOK' /\ Onward
    BY <1>1, <2>4, QuietStep
  <2>6. TasksOK'
    BY <1>1, <2>5, NoTaskMoves
  <2>7. Types' /\ IntakeOK'
    BY <1>1, <2>4 DEF IInv, Types, IntakeOK
  <2> QED BY <2>5, <2>6, <2>7 DEF IInv
<1> QED BY <1>3, <1>4

(* The process starts anew: what was under way is gone, the obligations of *)
(* orders that are not open are released.                                  *)
LEMMA RestartStep ==
    ASSUME IInv, Restart
    PROVE  IInv'
<1>1. /\ task' = [t \in Task |-> Rest] /\ intake' = [o \in Order |-> "away"]
      /\ obl' = [o \in Order |-> Recovered(obl[o], row[o])]
      /\ faults' \in Nat /\ UNCHANGED <<row, saved, cmd, venue>>
  BY DEF Restart, Fault, IInv, Types
<1>2. ASSUME NEW o \in Order
      PROVE  /\ OrderOK(o, row'[o], obl'[o], saved'[o], 1 .. venue'[o].filled)
             /\ obl'[o] \in Previews
  <2> DEFINE f == Recovered(obl[o], row[o])
  <2>1. OrderOK(o, row[o], obl[o], saved[o], 1 .. venue[o].filled)
    BY DEF IInv, OrdersOK, Executed
  <2>2. /\ f \in Previews /\ (f = NoObl <=> obl[o] = NoObl)
        /\ IsOpen(row[o]) => f = obl[o]
        /\ obl[o] # NoObl => /\ f.reserved = obl[o].reserved /\ f.consumed = obl[o].consumed
                            /\ f.fills = obl[o].fills /\ f.blocked = obl[o].blocked
        /\ Spent(obl[o]) => Spent(f)
    BY RecoveredFacts DEF IInv, Types
  <2>3. obl'[o] = f
    BY <1>1
  <2> HIDE DEF f
  <2> QED BY <1>1, <2>1, <2>2, <2>3 DEF OrderOK, Counted, Seen
<1>3. OrdersOK'
  BY <1>2, OrdersStep
<1>4. Types'
  BY <1>1, <1>2 DEF IInv, Types, Tasks
<1>5. TasksOK'
  BY <1>1 DEF TasksOK, Rest
<1>6. IntakeOK'
  BY <1>1 DEF IInv, IntakeOK
<1> QED BY <1>3, <1>4, <1>5, <1>6 DEF IInv

------------------------------------------------------------------------------
(* At the start nothing is recorded, reserved or under way.                *)
LEMMA InitIInv ==
    ASSUME Init
    PROVE  IInv
<1>1. Types
  BY QtyAssumption DEF Init, Types, Previews, Tasks, Absent, VenueState
<1>2. OrdersOK
  BY DEF Init, OrdersOK, OrderOK, IsOpen
<1>3. TasksOK
  BY DEF Init, TasksOK, Rest
<1>4. IntakeOK
  BY DEF Init, IntakeOK
<1> QED BY <1>1, <1>2, <1>3, <1>4 DEF IInv

(* The obligations, the order rows, the fills on record and the            *)
(* settlements in the tasks' hands agree in every reachable state: every   *)
(* row a task may still write over an obligation has counted recorded      *)
(* fills once, and one that releases is for an order that has ended.       *)
THEOREM ObligationInvariant == Spec => []IInv
<1>1. Init => IInv
  BY InitIInv
<1>2. IInv /\ [Next]_vars => IInv'
  <2> SUFFICES ASSUME IInv, [Next]_vars
               PROVE  IInv'
    OBVIOUS
  <2>1. ASSUME NEW o \in Order, Intake(o) \/ Begins(o) \/ VenueFills(o) \/ VenueCancels(o)
        PROVE  IInv'
    BY <2>1, IntakeStep, BeginsStep, VenueStep
  <2>2. ASSUME NEW t \in Task, Settle(t)
        PROVE  IInv'
    BY <2>2, PreviewStep, CommitFillsStep, CommitPlainStep, FinalizeStep, DroppedStep
       DEF Settle
  <2>3. CASE Restart
    BY <2>3, RestartStep
  <2>4. CASE UNCHANGED vars
    <3>1. UNCHANGED <<row, obl, saved, cmd, venue, intake, task, faults>>
      BY <2>4 DEF vars
    <3>2. OrdersOK' /\ Onward
      BY <3>1, QuietStep
    <3>3. TasksOK'
      BY <3>1, <3>2, NoTaskMoves
    <3>4. Types' /\ IntakeOK'
      BY <3>1 DEF IInv, Types, IntakeOK
    <3> QED BY <3>2, <3>3, <3>4 DEF IInv
  <2> QED BY <2>1, <2>2, <2>3, <2>4 DEF Next
<1> QED BY <1>1, <1>2, PTL DEF Spec

(* Whichever tasks settle an order's fills, in whichever order and however *)
(* often, with transactions failing and the process restarting in between: *)
(* what its obligation has consumed is the cost of fills that have a row,  *)
(* none of them counted twice.                                             *)
THEOREM FillsAreConsumedAtMostOnce == Spec => []ConsumedAtMostOnce
<1>1. IInv => ConsumedAtMostOnce
  BY DEF IInv, OrdersOK, OrderOK, Counted, Seen, ConsumedAtMostOnce
<1> QED BY <1>1, ObligationInvariant, PTL

(* The invariant covers an order that is open.                             *)
LEMMA CoveredByInvariant ==
    ASSUME IInv
    PROVE  OpenOrderStaysCovered
<1> SUFFICES ASSUME NEW o \in Order, IsOpen(row[o]), Reserved[o] > 0
             PROVE  /\ obl[o] # NoObl /\ obl[o].released = 0
                    /\ Remaining(obl[o]) >= Needed(o)
  BY DEF OpenOrderStaysCovered
<1>1. OrderOK(o, row[o], obl[o], saved[o], Executed(o))
  BY DEF IInv, OrdersOK
<1>2. obl[o] # NoObl /\ obl[o].released = 0
  BY <1>1 DEF OrderOK
<1>3. /\ obl[o].reserved = Reserved[o] /\ obl[o].consumed = Amount[obl[o].fills]
      /\ obl[o].fills \subseteq Executed(o)
  BY <1>1, <1>2 DEF OrderOK, Counted, Seen
<1>4. Executed(o) \in SUBSET Fill
  <2>1. venue[o].filled \in 0 .. Qty
    BY DEF IInv, Types
  <2> QED BY <2>1, QtyAssumption DEF Executed, Fill
<1>5. /\ Amount[obl[o].fills] \in Nat /\ Amount[Executed(o)] \in Nat
      /\ Amount[obl[o].fills] <= Amount[Executed(o)]
  BY <1>3, <1>4, AmountMonotone
<1>6. Reserved[o] \in Nat
  BY ReservedAssumption
<1>7. Remaining(obl[o]) >= Needed(o)
  BY <1>2, <1>3, <1>5, <1>6 DEF Remaining, Needed, Greatest
<1> QED BY <1>2, <1>7

(* No stale write of a whole obligation row, no repeated fill and no       *)
(* settlement of an older snapshot releases or consumes what an open order *)
(* may still cost.                                                         *)
THEOREM OpenOrdersStayCovered == Spec => []OpenOrderStaysCovered
<1>1. IInv => OpenOrderStaysCovered
  BY CoveredByInvariant
<1> QED BY <1>1, ObligationInvariant, PTL

------------------------------------------------------------------------------
(* The money of all orders together *)

NeededBy == [o \in Order |-> Needed(o)]
HeldByAll == [o \in Order |-> HeldBy(o)]
OpenOrders == {o \in Order : IsOpen(row[o])}

(* One intent at a time is past the lock.                                  *)
LockedIntake ==
    /\ \A o, p \in Order : intake[o] # "away" /\ intake[p] # "away" => o = p
    /\ avail \in [Order -> Int]

(* Once the check of an intent has passed its order fits in beside those   *)
(* that are open, although they may be filled or end before it is saved.   *)
CheckedIntake ==
    \A o \in Order : intake[o] = "save" /\ Reserved[o] > 0 =>
        SumFunctionOnSet(NeededBy, OpenOrders \cup {o}) <= avail[o]

FundsOK == LockedIntake /\ CheckedIntake

(* What an order may still cost, and what it holds, are natural numbers.   *)
LEMMA NeededFacts ==
    ASSUME IInv, NEW o \in Order
    PROVE  /\ NeededBy[o] = Needed(o) /\ HeldByAll[o] = HeldBy(o)
           /\ Needed(o) \in Nat /\ HeldBy(o) \in Nat /\ Reserved[o] \in Nat
           /\ Needed(o) <= Reserved[o]
           /\ Amount[Executed(o)] \in Nat /\ Executed(o) \in SUBSET Fill
<1>1. Executed(o) \in SUBSET Fill
  <2>1. venue[o].filled \in 0 .. Qty
    BY DEF IInv, Types
  <2> QED BY <2>1, QtyAssumption DEF Executed, Fill
<1>2. Amount[Executed(o)] \in Nat /\ Reserved[o] \in Nat
  BY <1>1, AmountAssumption, ReservedAssumption
<1>3. Needed(o) \in Nat /\ Needed(o) <= Reserved[o]
  BY <1>2 DEF Needed, Greatest
<1>4. HeldBy(o) \in Nat
  <2>1. CASE IsActive(obl[o])
    <3>1. obl[o] \in Obligation
      BY <2>1 DEF IInv, Types, IsActive, Previews
    <3>2. obl[o].reserved \in Nat /\ obl[o].consumed \in Nat /\ obl[o].released \in Nat
      BY <3>1 DEF Obligation
    <3> QED BY <2>1, <3>2 DEF HeldBy, Remaining, Greatest
  <2>2. CASE ~IsActive(obl[o])
    BY <2>2 DEF HeldBy
  <2> QED BY <2>1, <2>2
<1> QED BY <1>1, <1>2, <1>3, <1>4 DEF NeededBy, HeldByAll

(* Sets of orders are finite, and so the sums over them are numbers.       *)
LEMMA SumsAreNumbers ==
    ASSUME IInv, NEW S \in SUBSET Order
    PROVE  /\ IsFiniteSet(S)
           /\ SumFunctionOnSet(NeededBy, S) \in Nat
           /\ SumFunctionOnSet(HeldByAll, S) \in Nat
<1>1. IsFiniteSet(S)
  BY OrderAssumption, FS_Subset
<1>2. \A o \in S : NeededBy[o] \in Nat /\ HeldByAll[o] \in Nat
  BY NeededFacts
<1> QED BY <1>1, <1>2, SumType

(* What the exchange reports as available is a number.                     *)
LEMMA AvailableFacts ==
    ASSUME IInv
    PROVE  Available \in Int
<1> DEFINE f == [o \in Order |-> Amount[Executed(o)]]
           g == [o \in Order |-> Frozen(o)]
<1>1. DOMAIN f = Order /\ \A o \in Order : f[o] \in Nat
  BY NeededFacts
<1>2. DOMAIN g = Order /\ \A o \in Order : g[o] \in Nat
  <2>1. \A o \in Order : Needed(o) \in Nat
    BY NeededFacts
  <2> QED BY <2>1 DEF Frozen
<1>3. Available = Balance - SumFunctionOnSet(f, Order) - SumFunctionOnSet(g, Order)
  BY <1>1, <1>2 DEF Available, Left, SumFunction
<1> HIDE DEF f, g
<1>4. SumFunctionOnSet(f, Order) \in Nat /\ SumFunctionOnSet(g, Order) \in Nat
  BY <1>1, <1>2, OrderAssumption, SumType
<1> QED BY <1>3, <1>4, BalanceAssumption

(* An open order holds what it may still cost.                             *)
LEMMA OpenIsHeld ==
    ASSUME IInv, NEW o \in OpenOrders
    PROVE  NeededBy[o] <= HeldByAll[o]
<1>1. /\ o \in Order /\ IsOpen(row[o])
      /\ NeededBy[o] = Needed(o) /\ HeldByAll[o] = HeldBy(o)
      /\ Needed(o) \in Nat /\ HeldBy(o) \in Nat /\ Reserved[o] \in Nat
      /\ Needed(o) <= Reserved[o]
  BY NeededFacts DEF OpenOrders
<1>2. CASE Reserved[o] = 0
  BY <1>1, <1>2
<1>3. CASE Reserved[o] > 0
  <2>1. obl[o] # NoObl /\ Remaining(obl[o]) >= Needed(o)
    BY <1>1, <1>3, CoveredByInvariant DEF OpenOrderStaysCovered
  <2>2. Spent(obl[o])
    BY <1>1, <2>1 DEF IInv, OrdersOK, OrderOK, Counted
  <2>3. CASE IsActive(obl[o])
    BY <1>1, <2>1, <2>3 DEF HeldBy
  <2>4. CASE Remaining(obl[o]) = 0
    BY <1>1, <2>1, <2>4
  <2> QED BY <2>2, <2>3, <2>4 DEF Spent
<1> QED BY <1>1, <1>2, <1>3

(* The exchange takes no fill back.                                        *)
VenueGrows == \A o \in Order : 1 .. venue[o].filled \subseteq 1 .. venue'[o].filled

LEMMA NextVenueGrows ==
    ASSUME IInv, [Next]_vars
    PROVE  VenueGrows
<1>1. \A o \in Order : venue[o] \in [state : VenueState, qty : {Qty}, filled : 0 .. Qty]
      /\ venue[o].filled \in Int
  BY QtyAssumption DEF IInv, Types
<1>2. DOMAIN venue = Order
  BY DEF IInv, Types
<1>3. ASSUME NEW o \in Order,
             \/ venue' = [venue EXCEPT ![o] = [venue[o] EXCEPT !.state = "live"]]
             \/ venue' = [venue EXCEPT ![o] = [venue[o] EXCEPT !.state = "canceled"]]
      PROVE  VenueGrows
  <2>1. \A p \in Order : venue'[p].filled = venue[p].filled
    BY <1>1, <1>2, <1>3
  <2> QED BY <2>1 DEF VenueGrows
<1>4. ASSUME venue' = venue PROVE VenueGrows
  BY <1>4 DEF VenueGrows
<1>5. ASSUME NEW o \in Order, VenueFills(o) PROVE VenueGrows
  <2> DEFINE n == venue[o].filled + 1
  <2>1. \A p \in Order : venue'[p].filled = IF p = o THEN n ELSE venue[p].filled
    BY <1>1, <1>2, <1>5 DEF VenueFills
  <2>2. 1 .. venue[o].filled \subseteq 1 .. n
    BY <1>1
  <2> HIDE DEF n
  <2> QED BY <2>1, <2>2 DEF VenueGrows
<1>6. ASSUME NEW o \in Order, Intake(o) \/ Begins(o) \/ VenueCancels(o) PROVE VenueGrows
  <2>1. CASE PlaceAccepted(o)
    BY <1>3, <2>1 DEF PlaceAccepted
  <2>2. CASE CancelAccepted(o)
    BY <1>3, <2>2 DEF CancelAccepted
  <2>3. CASE VenueCancels(o)
    BY <1>3, <2>3 DEF VenueCancels
  <2>4. CASE Intake(o)
    BY <1>4, <2>4 DEF Intake, TakeIntent, PreviewReservation, BlockReservation,
       SaveReservation, SaveReservationFails, NotIntake
  <2>5. CASE \/ BeginSubmit(o) \/ PlaceRefused(o) \/ BeginCancel(o) \/ CancelRefused(o)
             \/ CancelBeforeSubmit(o) \/ SyncReads(o)
    BY <1>4, <2>5 DEF BeginSubmit, PlaceRefused, BeginCancel, CancelRefused,
       CancelBeforeSubmit, SyncReads
  <2> QED BY <1>6, <2>1, <2>2, <2>3, <2>4, <2>5 DEF Begins
<1>7. ASSUME NEW t \in Task, Settle(t) PROVE VenueGrows
  BY <1>4, <1>7 DEF Settle, Preview, CommitFills, CommitPlain, FinalizeRead, FinalizeWrite,
     CommitRefused, CommitFails, NotSettling
<1>8. CASE Restart
  BY <1>4, <1>8 DEF Restart
<1>9. CASE UNCHANGED vars
  BY <1>4, <1>9 DEF vars
<1> QED BY <1>5, <1>6, <1>7, <1>8, <1>9 DEF Next

(* No order is opened but by its own intake.                               *)
LEMMA NextOpens ==
    ASSUME IInv, [Next]_vars, NEW p \in Order, IsOpen(row'[p]), ~SaveReservation(p)
    PROVE  IsOpen(row[p])
<1>1. row \in [Order -> OrderState \cup {NoRow}] /\ row[p] \in OrderState \cup {NoRow}
  BY DEF IInv, Types
<1>2. ASSUME row'[p] = row[p] PROVE IsOpen(row[p])
  BY <1>2
<1>3. ASSUME NEW o \in Order, NEW snap \in OrderState, row[o] # NoRow \/ is_terminal(snap.status),
             row' = [row EXCEPT ![o] = SaveResult(row[o], snap)]
      PROVE  IsOpen(row[p])
  <2>1. CASE o # p
    BY <1>1, <1>2, <1>3, <2>1
  <2>2. CASE o = p
    <3>1. row'[p] = SaveResult(row[p], snap)
      BY <1>1, <1>3, <2>2
    <3> QED BY <1>1, <1>3, <2>2, <3>1, SaveEnds DEF SaveRaises
  <2> QED BY <2>1, <2>2
<1>4. ASSUME NEW o \in Order, Intake(o) PROVE IsOpen(row[p])
  <2>1. CASE BlockReservation(o)
    <3> DEFINE snap == IntentState("BLOCKED", Qty, "other")
    <3>1. "BLOCKED" \in OrderLifecycleStatus /\ "other" \in ExecutionError
      BY DEF OrderLifecycleStatus, TERMINAL_ORDER_STATES, ExecutionError
    <3>2. snap \in OrderState /\ is_terminal(snap.status)
      BY <3>1, SnapshotTypes DEF IntentState, is_terminal, TERMINAL_ORDER_STATES
    <3>3. row' = [row EXCEPT ![o] = SaveResult(row[o], snap)]
      BY <2>1 DEF BlockReservation
    <3> HIDE DEF snap
    <3> QED BY <1>3, <3>2, <3>3
  <2>2. CASE SaveReservation(o)
    BY <1>1, <1>2, <2>2 DEF SaveReservation
  <2>3. CASE TakeIntent(o) \/ PreviewReservation(o) \/ SaveReservationFails(o)
    BY <1>2, <2>3 DEF TakeIntent, PreviewReservation, SaveReservationFails
  <2> QED BY <1>4, <2>1, <2>2, <2>3 DEF Intake
<1>5. ASSUME NEW o \in Order, Begins(o) PROVE IsOpen(row[p])
  <2>1. CASE BeginSubmit(o)
    <3> DEFINE snap == [row[o] EXCEPT !.status = "SUBMITTING"]
    <3>1. row[o] # NoRow /\ row[o] \in OrderState
      BY <2>1 DEF BeginSubmit, IInv, IntakeOK, Types
    <3>2. snap \in OrderState
      <4>1. "SUBMITTING" \in OrderLifecycleStatus
        BY DEF OrderLifecycleStatus, OPEN_ORDER_STATES
      <4> QED BY <3>1, <4>1 DEF OrderState
    <3>3. row' = [row EXCEPT ![o] = SaveResult(row[o], snap)]
      BY <2>1 DEF BeginSubmit
    <3> HIDE DEF snap
    <3> QED BY <1>3, <3>1, <3>2, <3>3
  <2>2. CASE BeginCancel(o)
    <3> DEFINE snap == [row[o] EXCEPT !.status = "CANCEL_PENDING"]
    <3>1. row[o] # NoRow /\ row[o] \in OrderState
      BY <2>2 DEF BeginCancel, IsOpen, IInv, Types
    <3>2. snap \in OrderState
      <4>1. "CANCEL_PENDING" \in OrderLifecycleStatus
        BY DEF OrderLifecycleStatus, OPEN_ORDER_STATES
      <4> QED BY <3>1, <4>1 DEF OrderState
    <3>3. row' = [row EXCEPT ![o] = SaveResult(row[o], snap)]
      BY <2>2 DEF BeginCancel
    <3> HIDE DEF snap
    <3> QED BY <1>3, <3>1, <3>2, <3>3
  <2>3. CASE \/ PlaceAccepted(o) \/ PlaceRefused(o) \/ CancelAccepted(o) \/ CancelRefused(o)
             \/ CancelBeforeSubmit(o) \/ SyncReads(o)
    BY <1>2, <2>3 DEF PlaceAccepted, PlaceRefused, CancelAccepted, CancelRefused,
       CancelBeforeSubmit, SyncReads
  <2> QED BY <1>5, <2>1, <2>2, <2>3 DEF Begins
<1>6. ASSUME NEW t \in Task, Settle(t) PROVE IsOpen(row[p])
  <2>1. CASE CommitFills(t) \/ CommitPlain(t)
    <3> DEFINE o == task[t].order
               snap == task[t].snap
    <3>1. task[t].pc \in {"plain", "fills"} /\ row' = [row EXCEPT ![o] = SaveResult(row[o], snap)]
      BY <2>1 DEF CommitFills, CommitPlain
    <3>2. o \in Order /\ row[o] # NoRow /\ task[t] \in Tasks
      BY <3>1, UnderWay
    <3>3. snap \in OrderState
      BY <3>1, <3>2, TaskFields
    <3> HIDE DEF o, snap
    <3> QED BY <1>3, <3>1, <3>2, <3>3
  <2>2. CASE \/ Preview(t) \/ FinalizeRead(t) \/ FinalizeWrite(t) \/ CommitRefused(t)
             \/ CommitFails(t)
    BY <1>2, <2>2 DEF Preview, FinalizeRead, FinalizeWrite, CommitRefused, CommitFails
  <2> QED BY <1>6, <2>1, <2>2 DEF Settle
<1>7. ASSUME NEW o \in Order, VenueFills(o) \/ VenueCancels(o) PROVE IsOpen(row[p])
  BY <1>2, <1>7 DEF VenueFills, VenueCancels
<1>8. CASE Restart \/ UNCHANGED vars
  BY <1>2, <1>8 DEF Restart, vars
<1> QED BY <1>4, <1>5, <1>6, <1>7, <1>8 DEF Next

(* Orders that go on need no more than before.                             *)
LEMMA NeedShrinks ==
    ASSUME IInv, IInv', VenueGrows, NEW o \in Order
    PROVE  NeededBy'[o] <= NeededBy[o] /\ NeededBy'[o] \in Nat /\ NeededBy[o] \in Nat
<1>1. /\ NeededBy[o] = Greatest(Reserved[o] - Amount[1 .. venue[o].filled], 0)
      /\ NeededBy[o] \in Nat /\ 1 .. venue[o].filled \in SUBSET Fill /\ Reserved[o] \in Nat
  BY NeededFacts DEF Needed, Executed
<1>2. venue'[o].filled \in 0 .. Qty
  BY DEF IInv, Types
<1>3. 1 .. venue'[o].filled \in SUBSET Fill
  BY <1>2, QtyAssumption DEF Fill
<1>4. NeededBy'[o] = Greatest(Reserved[o] - Amount[1 .. venue'[o].filled], 0)
  BY DEF NeededBy, Needed, Executed
<1>5. 1 .. venue[o].filled \subseteq 1 .. venue'[o].filled
  BY DEF VenueGrows
<1>6. /\ Amount[1 .. venue[o].filled] \in Nat /\ Amount[1 .. venue'[o].filled] \in Nat
      /\ Amount[1 .. venue[o].filled] <= Amount[1 .. venue'[o].filled]
  BY <1>3, <1>5, AmountMonotone
<1> DEFINE a == Amount[1 .. venue[o].filled]
           b == Amount[1 .. venue'[o].filled]
<1>7. Greatest(Reserved[o] - b, 0) <= Greatest(Reserved[o] - a, 0)
      /\ Greatest(Reserved[o] - b, 0) \in Nat
  <2> HIDE DEF a, b
  <2>1. a \in Nat /\ b \in Nat /\ a <= b
    BY <1>6 DEF a, b
  <2> QED BY <1>1, <2>1 DEF Greatest
<1> QED BY <1>1, <1>4, <1>7

(* Sums over fewer orders that need no more stay within their bound.       *)
LEMMA SumStays ==
    ASSUME IInv, IInv', VenueGrows, NEW T \in SUBSET Order, NEW S \in SUBSET T,
           NEW bound \in Int, SumFunctionOnSet(NeededBy, T) <= bound
    PROVE  SumFunctionOnSet(NeededBy', S) <= bound
<1>1. /\ \A o \in S : NeededBy'[o] \in Nat /\ NeededBy'[o] <= NeededBy[o]
      /\ \A o \in T : NeededBy[o] \in Nat
  BY NeedShrinks
<1>2. IsFiniteSet(T) /\ IsFiniteSet(S) /\ SumFunctionOnSet(NeededBy, T) \in Nat
  BY SumsAreNumbers
<1>3. SumFunctionOnSet(NeededBy', S) <= SumFunctionOnSet(NeededBy, T)
  BY <1>1, <1>2, SumMonotone
<1>4. SumFunctionOnSet(NeededBy', S) \in Nat
  BY <1>1, <1>2, SumType
<1> QED BY <1>2, <1>3, <1>4

(* The check of an intent, made against obligations that may be settled    *)
(* while it awaits: the others hold at least what they may still cost.     *)
LEMMA CheckedFits ==
    ASSUME IInv, FundsOK, NEW o \in Order, intake[o] = "check", ~Insufficient(o),
           Reserved[o] > 0
    PROVE  SumFunctionOnSet(NeededBy, OpenOrders \cup {o}) <= avail[o]
<1>1. row[o] = NoRow /\ o \notin OpenOrders
  BY DEF IInv, IntakeOK, OpenOrders, IsOpen
<1>2. OpenOrders \in SUBSET Order /\ OpenOrders \cup {o} \in SUBSET Order
      /\ (OpenOrders \cup {o}) \ {o} = OpenOrders /\ OpenOrders \subseteq Order \ {o}
  BY <1>1 DEF OpenOrders
<1> DEFINE open == OpenOrders
           all == OpenOrders \cup {o}
           N(S) == SumFunctionOnSet(NeededBy, S)
<1>3. N(all) = NeededBy[o] + N(open)
  <2>1. IsFiniteSet(all) /\ \A p \in all : NeededBy[p] \in Int
    BY <1>2, SumsAreNumbers, NeededFacts
  <2>2. N(all) = NeededBy[o] + N(all \ {o})
    BY <2>1, SumRemove
  <2> QED BY <1>2, <2>2
<1>4. N(open) \in Nat
  BY <1>2, SumsAreNumbers
<1>5. NeededBy[o] \in Nat /\ NeededBy[o] <= Reserved[o] /\ Reserved[o] \in Nat
  BY NeededFacts
<1>6. Held(Order \ {o}) = SumFunctionOnSet(HeldByAll, Order \ {o})
  BY DEF Held, HeldByAll
<1>7. Held(Order \ {o}) \in Nat
  BY <1>6, SumsAreNumbers
<1>8. N(open) <= Held(Order \ {o})
  <2>1. \A p \in open : NeededBy[p] \in Nat /\ NeededBy[p] <= HeldByAll[p]
    BY <1>2, NeededFacts, OpenIsHeld
  <2>2. IsFiniteSet(Order \ {o}) /\ \A p \in Order \ {o} : HeldByAll[p] \in Nat
    BY SumsAreNumbers, NeededFacts
  <2> QED BY <1>2, <1>6, <2>1, <2>2, SumMonotone
<1>9. avail[o] \in Int
  BY DEF FundsOK, LockedIntake
<1> DEFINE h == Held(Order \ {o})
<1>10. Reserved[o] <= avail[o] - h
  <2>1. ~(Reserved[o] > avail[o] - h)
    BY DEF Insufficient
  <2>2. h \in Nat
    BY <1>7
  <2> HIDE DEF h
  <2> QED BY <1>5, <1>9, <2>1, <2>2
<1>11. N(all) <= avail[o]
  <2>1. h \in Nat /\ N(open) <= h
    BY <1>7, <1>8
  <2> HIDE DEF N, h
  <2> QED BY <1>3, <1>4, <1>5, <1>9, <1>10, <2>1
<1> QED BY <1>11

(* Only the check of an intent lets it go on to its transaction.           *)
LEMMA SavedByPreview ==
    ASSUME IInv, [Next]_vars, NEW o \in Order, intake'[o] = "save", intake[o] # "save"
    PROVE  PreviewReservation(o)
<1>1. intake \in [Order -> {"away", "check", "save"}]
  BY DEF IInv, Types
<1>2. ASSUME intake' = intake PROVE PreviewReservation(o)
  BY <1>2
<1>3. ASSUME NEW p \in Order, Intake(p) PROVE PreviewReservation(o)
  <2>1. CASE PreviewReservation(p)
    BY <1>1, <2>1 DEF PreviewReservation
  <2>2. CASE TakeIntent(p) \/ BlockReservation(p) \/ SaveReservation(p) \/ SaveReservationFails(p)
    BY <1>1, <2>2 DEF TakeIntent, BlockReservation, SaveReservation,
       SaveReservationFails, EndIntake
  <2> QED BY <1>3, <2>1, <2>2 DEF Intake
<1>4. ASSUME NEW p \in Order, Begins(p) \/ VenueFills(p) \/ VenueCancels(p)
      PROVE  PreviewReservation(o)
  BY <1>2, <1>4 DEF Begins, VenueFills, VenueCancels, BeginSubmit, PlaceAccepted, PlaceRefused,
     BeginCancel, CancelAccepted, CancelRefused, CancelBeforeSubmit, SyncReads, NotBegin
<1>5. ASSUME NEW t \in Task, Settle(t) PROVE PreviewReservation(o)
  BY <1>2, <1>5 DEF Settle, Preview, CommitFills, CommitPlain, FinalizeRead, FinalizeWrite,
     CommitRefused, CommitFails, NotSettling
<1>6. CASE Restart
  BY <1>6 DEF Restart
<1>7. CASE UNCHANGED vars
  BY <1>2, <1>7 DEF vars
<1> QED BY <1>3, <1>4, <1>5, <1>6, <1>7 DEF Next

(* An intake keeps what it has read until it is over.                      *)
LEMMA ReadingKept ==
    ASSUME IInv, FundsOK, [Next]_vars, NEW o \in Order, intake[o] # "away", intake'[o] # "away"
    PROVE  avail'[o] = avail[o]
<1>1. intake \in [Order -> {"away", "check", "save"}] /\ avail \in [Order -> Int]
  BY DEF IInv, Types, FundsOK, LockedIntake
<1>2. ASSUME avail' = avail PROVE avail'[o] = avail[o]
  BY <1>2
<1>3. ASSUME NEW p \in Order, Intake(p) PROVE avail'[o] = avail[o]
  <2>1. CASE TakeIntent(p)
    BY <2>1 DEF TakeIntent
  <2>2. CASE PreviewReservation(p)
    BY <1>2, <2>2 DEF PreviewReservation
  <2>3. CASE BlockReservation(p) \/ SaveReservation(p) \/ SaveReservationFails(p)
    <3>1. EndIntake(p)
      BY <2>3 DEF BlockReservation, SaveReservation, SaveReservationFails
    <3> QED BY <1>1, <3>1 DEF EndIntake
  <2> QED BY <1>3, <2>1, <2>2, <2>3 DEF Intake
<1>4. ASSUME NEW p \in Order, Begins(p) \/ VenueFills(p) \/ VenueCancels(p)
      PROVE  avail'[o] = avail[o]
  BY <1>2, <1>4 DEF Begins, VenueFills, VenueCancels, BeginSubmit, PlaceAccepted, PlaceRefused,
     BeginCancel, CancelAccepted, CancelRefused, CancelBeforeSubmit, SyncReads, NotBegin
<1>5. ASSUME NEW t \in Task, Settle(t) PROVE avail'[o] = avail[o]
  BY <1>2, <1>5 DEF Settle, Preview, CommitFills, CommitPlain, FinalizeRead, FinalizeWrite,
     CommitRefused, CommitFails, NotSettling
<1>6. CASE Restart
  BY <1>6 DEF Restart
<1>7. CASE UNCHANGED vars
  BY <1>2, <1>7 DEF vars
<1> QED BY <1>3, <1>4, <1>5, <1>6, <1>7 DEF Next

(* Every step keeps the lock exclusive, and an order whose check passed    *)
(* within the balance that was read for it.                                *)
LEMMA FundsStep ==
    ASSUME IInv, IInv', FundsOK, [Next]_vars
    PROVE  FundsOK'
<1>1. VenueGrows /\ \A p \in Order : IsOpen(row'[p]) /\ ~SaveReservation(p) => IsOpen(row[p])
  BY NextVenueGrows, NextOpens
<1>2. OpenOrders \in SUBSET Order /\ OpenOrders' \in SUBSET Order
  BY DEF OpenOrders
<1>3. intake \in [Order -> {"away", "check", "save"}]
  BY DEF IInv, Types
<1>4. LockedIntake'
  <2>1. ASSUME NEW o \in Order, TakeIntent(o) PROVE LockedIntake'
    BY <1>3, <2>1, AvailableFacts DEF TakeIntent, FundsOK, LockedIntake
  <2>2. ASSUME NEW o \in Order, PreviewReservation(o) PROVE LockedIntake'
    BY <1>3, <2>2 DEF PreviewReservation, FundsOK, LockedIntake
  <2>3. ASSUME NEW o \in Order,
               BlockReservation(o) \/ SaveReservation(o) \/ SaveReservationFails(o)
        PROVE  LockedIntake'
    <3>1. EndIntake(o)
      BY <2>3 DEF BlockReservation, SaveReservation, SaveReservationFails
    <3> QED BY <1>3, <3>1 DEF EndIntake, FundsOK, LockedIntake
  <2>4. ASSUME UNCHANGED <<intake, avail>> PROVE LockedIntake'
    BY <2>4 DEF FundsOK, LockedIntake
  <2>5. CASE Restart
    BY <2>5 DEF Restart, LockedIntake
  <2>6. ASSUME NEW o \in Order, Begins(o) \/ VenueFills(o) \/ VenueCancels(o) PROVE LockedIntake'
    BY <2>4, <2>6 DEF Begins, VenueFills, VenueCancels, BeginSubmit, PlaceAccepted, PlaceRefused,
       BeginCancel, CancelAccepted, CancelRefused, CancelBeforeSubmit, SyncReads, NotBegin
  <2>7. ASSUME NEW t \in Task, Settle(t) PROVE LockedIntake'
    BY <2>4, <2>7 DEF Settle, Preview, CommitFills, CommitPlain, FinalizeRead, FinalizeWrite,
       CommitRefused, CommitFails, NotSettling
  <2>8. CASE UNCHANGED vars
    BY <2>4, <2>8 DEF vars
  <2> QED BY <2>1, <2>2, <2>3, <2>5, <2>6, <2>7, <2>8 DEF Next, Intake
<1>5. ASSUME NEW o \in Order, intake'[o] = "save", Reserved[o] > 0
      PROVE  SumFunctionOnSet(NeededBy', OpenOrders' \cup {o}) <= avail'[o]
  <2> DEFINE T == OpenOrders \cup {o}
             S == OpenOrders' \cup {o}
  <2>1. T \in SUBSET Order
    BY <1>2
  <2>2. SumFunctionOnSet(NeededBy, T) <= avail[o] /\ intake[o] # "away"
    <3>1. CASE intake[o] = "save"
      BY <1>5, <3>1 DEF FundsOK, CheckedIntake
    <3>2. CASE intake[o] # "save"
      <4>1. PreviewReservation(o)
        BY <1>3, <1>5, <3>2, SavedByPreview
      <4> QED BY <1>5, <4>1, CheckedFits DEF PreviewReservation
    <3> QED BY <3>1, <3>2
  <2>3. \A p \in Order : SaveReservation(p) => FALSE
    <3> SUFFICES ASSUME NEW p \in Order, SaveReservation(p)
                 PROVE  FALSE
      OBVIOUS
    <3>1. intake[p] = "save" /\ intake' = [intake EXCEPT ![p] = "away"]
      BY DEF SaveReservation, EndIntake
    <3>2. o # p
      BY <1>3, <1>5, <3>1
    <3> QED BY <2>2, <3>1, <3>2 DEF FundsOK, LockedIntake
  <2>4. S \in SUBSET T
    BY <1>1, <2>3 DEF OpenOrders
  <2>5. avail'[o] = avail[o] /\ avail[o] \in Int
    BY <1>5, <2>2, ReadingKept DEF FundsOK, LockedIntake
  <2> HIDE DEF S, T
  <2>6. SumFunctionOnSet(NeededBy', S) <= avail[o]
    BY <1>1, <2>1, <2>2, <2>4, <2>5, SumStays
  <2> QED BY <2>5, <2>6 DEF S
<1>6. CheckedIntake'
  BY <1>5 DEF CheckedIntake
<1> QED BY <1>4, <1>6 DEF FundsOK

(* The intakes, one at a time, keep the balance they have read and, once   *)
(* checked, fit into it, in every reachable state.                         *)
THEOREM FundsInvariant == Spec => []FundsOK
<1>1. Init => FundsOK
  BY DEF Init, FundsOK, LockedIntake, CheckedIntake
<1>2. IInv /\ IInv' /\ FundsOK /\ [Next]_vars => FundsOK'
  BY FundsStep
<1> QED BY <1>1, <1>2, ObligationInvariant, PTL DEF Spec

(* The step that opens an order is the transaction of its own intake, and  *)
(* leaves what is open within the balance that intake has read.            *)
LEMMA OpenedWithinReading ==
    ASSUME IInv, IInv', FundsOK, [Next]_vars,
           NEW o \in Order, Reserved[o] > 0, ~IsOpen(row[o]), IsOpen(row'[o])
    PROVE  OpenNeeds' <= avail[o]
<1>1. VenueGrows /\ SaveReservation(o)
  BY NextVenueGrows, NextOpens
<1> DEFINE T == OpenOrders \cup {o}
<1>2. T \in SUBSET Order
  BY DEF OpenOrders
<1>3. OpenOrders' \in SUBSET T
  <2>1. \A p \in Order \ {o} : row'[p] = row[p]
    BY <1>1 DEF SaveReservation, IInv, Types
  <2> QED BY <2>1 DEF OpenOrders
<1>4. SumFunctionOnSet(NeededBy, T) <= avail[o] /\ avail[o] \in Int
  BY <1>1 DEF SaveReservation, FundsOK, LockedIntake, CheckedIntake
<1> HIDE DEF T
<1>5. SumFunctionOnSet(NeededBy', OpenOrders') <= avail[o]
  BY <1>1, <1>2, <1>3, <1>4, SumStays
<1> QED BY <1>5 DEF OpenNeeds, NeededBy, OpenOrders

(* The check of an intent still holds when its order is opened, for any    *)
(* number of orders: although the balance is read, compared and reserved   *)
(* in three steps with fills, settlements, failed transactions and         *)
(* restarts between them, what the open orders may still cost, the new one *)
(* included, is within the balance that the intake has read.               *)
THEOREM AcceptedOrdersFitTheBalanceRead == Spec => AcceptedWithinBalanceRead
<1>1. ASSUME IInv, IInv', FundsOK, [Next]_vars
      PROVE  [\A o \in Order :
                Reserved[o] > 0 /\ ~IsOpen(row[o]) /\ IsOpen(row'[o])
                    => OpenNeeds' <= avail[o]]_vars
  BY <1>1, OpenedWithinReading
<1> QED BY <1>1, ObligationInvariant, FundsInvariant, PTL DEF Spec, AcceptedWithinBalanceRead

(* Every variable has its type, the balance an intake has read included.   *)
THEOREM ObligationTypeCorrect == Spec => []TypeOK
<1>1. IInv /\ FundsOK => TypeOK
  BY DEF IInv, FundsOK, LockedIntake, TypeOK
<1> QED BY <1>1, ObligationInvariant, FundsInvariant, PTL

==============================================================================
