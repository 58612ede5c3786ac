----------------------------- MODULE MCPeering -----------------------------
(***************************************************************************)
(* Peering for TLC: the network layouts of the runs.                       *)
(***************************************************************************)
EXTENDS Peering, TLC

CONSTANTS p, q, r, x

At(host, port) == [scheme |-> "ws", host |-> host, port |-> port]

\* Two nodes on one machine, as the start scripts and the tests run them: peers
\* are seen at localhost, and bootnodes are spelled otherwise.
LocalPort == [n \in Node |-> CASE n = p -> 1 [] n = q -> 2 [] OTHER -> 3]
LocalIp == [n \in Node |-> "127.0.0.1"]
LocalListens == At("localhost", 1) :> p @@ At("localhost", 2) :> q

\* The same list for every node, the node itself included.
LocalBootnodes == [n \in Node |-> {At("127.0.0.1", LocalPort[m]) : m \in Node}]

\* The identifiers: p's the lower one, or q's, p's and r's in this order.
Ascending == {[n \in Node |-> IF n = p THEN 1 ELSE 2]}
Middle == {[n \in Node |-> CASE n = p -> 2 [] n = q -> 1 [] n = r -> 3 [] OTHER -> 4]}

SameGenesis == [n \in Node |-> 0]

\* Four hosts: p, which q and r list, lists x, which is on another network; r,
\* which lists q too, is behind a NAT router (the address others see it at
\* does not answer).
LanIp == [n \in Node |-> CASE n = p -> "10.0.0.1" [] n = q -> "10.0.0.2"
                           [] n = r -> "10.0.0.3" [] OTHER -> "10.0.0.4"]
LanListens ==
  At("10.0.0.1", 1) :> p @@ At("10.0.0.2", 2) :> q
    @@ At("10.0.0.3", 3) :> NoNode @@ At("10.0.0.4", 3) :> x
LanBootnodes ==
  [n \in Node |-> CASE n = p -> {At("10.0.0.4", 3)}
                    [] n = q -> {At("10.0.0.1", 1)}
                    [] n = r -> {At("10.0.0.1", 1), At("10.0.0.2", 2)}
                    [] OTHER -> {}]
LanGenesis == [n \in Node |-> IF n = x THEN 1 ELSE 0]

\* The layouts meet the hypotheses of the theorems that speak of layouts.
ASSUME PeeringHypotheses == OneAddress /\ SeenTruly

=============================================================================
