------------------------------ MODULE MCClient ------------------------------
(***************************************************************************)
(* Client for TLC: alice pays bob and may send the payment again before or *)
(* after the first send is settled; she can afford both.  The node owns    *)
(* every second slot, with slots of two ticks.                             *)
(***************************************************************************)
EXTENDS Client

CONSTANTS alice, bob, v1, v2, rent, again

MCValidators == <<v2, v1>>
MCGenesis    == [x \in Address |-> IF x = alice THEN 4 ELSE 0]
MCPayment == [s \in Sends |-> [from |-> alice, to |-> bob, amount |-> 2]]

=============================================================================
