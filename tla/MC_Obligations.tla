---------------------------- MODULE MC_Obligations ---------------------------
(* Two orders that do not fit into the balance together; the second fill   *)
(* of an order costs more than the first and exceeds what was reserved.    *)
EXTENDS Obligations, FiniteSetsExt, TLC

MC_Reserved == [o \in Order |-> 2]

MC_Amount == [S \in SUBSET Fill |-> MapThenSumSet(LAMBDA f : f, S)]

Symmetry == Permutations(Order)

==============================================================================
