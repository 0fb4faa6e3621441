--------------------------- MODULE MC_CommandFlow ----------------------------
(* Small instances of the command flow: one or two orders, where o2 is the *)
(* fallback of o1 in the runs that execute o1 as a post-only order.        *)
EXTENDS CommandFlow, TLC

CONSTANTS o1, o2

MC_NoFallback == [o \in {} |-> o]
MC_Fallback   == [o \in {o1} |-> o2]

Symmetry == Permutations(Order)

==============================================================================
