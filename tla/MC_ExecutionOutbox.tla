------------------------- MODULE MC_ExecutionOutbox --------------------------
(* Two events of one order, which two flushes publish in order or not.     *)
EXTENDS ExecutionOutbox

CONSTANTS k1, f1, f2

MC_KeyOf == [e \in Event |-> k1]

==============================================================================
