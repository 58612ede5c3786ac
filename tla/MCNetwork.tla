------------------------------ MODULE MCNetwork ------------------------------
(***************************************************************************)
(* Network for TLC: validators p and q and a full node f; every tick is a  *)
(* slot, odd slots belong to p and even ones to q.                         *)
(***************************************************************************)
EXTENDS Network

CONSTANTS alice, bob, p, q, f, vp, vq, noKey

MCValidators == <<vq, vp>>
MCGenesis    == [x \in Address |-> 2]
MCKeyOf      == [n \in Node |-> CASE n = p -> vp [] n = q -> vq [] n = f -> noKey]

FullMesh == {{p, q}, {p, f}, {q, f}}
TwoNodes == {{p, q}}
ThroughF == {{p, f}, {q, f}}

Pay(from, to, nonce) ==
  CreateSignedTransaction([ from |-> from, to |-> to, amount |-> 1,
                            nonce |-> nonce, timestamp |-> 0 ],
                          AccountKey(from))

\* Each validator has a client of its own, so that both can extend a fork.
MCClientInput  == {<<p, Pay(alice, bob, 0)>>, <<q, Pay(bob, alice, 0)>>}
OneClientInput == {<<q, Pay(bob, alice, 0)>>}

\* p has work for two blocks, which outgrow the one that confirms q's payment.
ForkClientInput == MCClientInput \cup {<<p, Pay(alice, bob, 1)>>}

NoOffset == [n \in Node |-> 0]
PAhead   == [n \in Node |-> IF n = p THEN 1 ELSE 0]

\* The layouts meet the hypotheses of the theorems that speak of layouts.
ASSUME NetworkHypotheses == ClocksClose

=============================================================================
