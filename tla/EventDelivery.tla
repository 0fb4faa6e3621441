---------------------------- MODULE EventDelivery ----------------------------
(***************************************************************************)
(* What the execution outbox promises to the consumers of the bus: only    *)
(* events of committed transactions arrive, and the events of one order    *)
(* arrive in the order they were written, except for those the publisher   *)
(* has given up on.  Events are numbered in the order they were created.   *)
(***************************************************************************)
EXTENDS Integers

CONSTANTS
    Event,      \* event numbers
    KeyOf       \* the order each event is about

VARIABLES
    accepted,   \* events of committed transactions
    arrived,    \* events the bus has stored
    givenUp     \* events the publisher will not send again

deliveryVars == <<accepted, arrived, givenUp>>

Earlier(e) == {d \in Event : d < e /\ KeyOf[d] = KeyOf[e]}

DeliveryInit == accepted = {} /\ arrived = {} /\ givenUp = {}

(* A transaction commits; those of one order commit one after the other.   *)
Accept(e) ==
    /\ e \notin accepted
    /\ \A d \in accepted : KeyOf[d] = KeyOf[e] => d < e
    /\ accepted' = accepted \cup {e}
    /\ UNCHANGED <<arrived, givenUp>>

(* An event arrives for the first time, or again.                          *)
Arrive(e) ==
    /\ e \in accepted
    /\ Earlier(e) \cap accepted \subseteq arrived \cup givenUp
    /\ arrived' = arrived \cup {e}
    /\ UNCHANGED <<accepted, givenUp>>

GiveUp ==
    /\ givenUp \subseteq givenUp' /\ givenUp' \subseteq accepted
    /\ UNCHANGED <<accepted, arrived>>

DeliveryNext == GiveUp \/ \E e \in Event : Accept(e) \/ Arrive(e)

DeliverySpec == DeliveryInit /\ [][DeliveryNext]_deliveryVars

==============================================================================
