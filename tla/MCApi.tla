-------------------------------- MODULE MCApi --------------------------------
(***************************************************************************)
(* Api for TLC: a node that owns slot 1, a client, one payment, and a      *)
(* chain of the other two validators that confirms another one instead.    *)
(***************************************************************************)
EXTENDS Api

CONSTANTS alice, bob, v1, v2, v3

MCValidators == <<v3, v1, v2>>
MCGenesis    == [x \in Address |-> IF x = alice THEN 4 ELSE 0]

Pay(amount) ==
  CreateSignedTransaction([ from |-> alice, to |-> bob, amount |-> amount,
                            nonce |-> 0, timestamp |-> 0 ], AccountKey(alice))

MCTxInput == {Pay(1)}

Extend(c, key, timestamp, body) ==
  Append(c, ProposeBlock([ index              |-> Len(c),
                           timestamp          |-> timestamp,
                           transactions       |-> body,
                           previousHash       |-> c[Len(c)].hash,
                           validatorPublicKey |-> key ], key))

\* Slot 2 by v2 and slot 3 by v3, on top of genesis.
Fork == Extend(Extend(<<GenesisBlock>>, v2, 2, <<Pay(2)>>), v3, 3, <<>>)

\* What clients follow: the ledger, or the peers.
MCTopicSets == {{"blocks", "pending", "status"}, {"peers"}}

MCBlockInput == {Fork[2]}
MCChainInput == {Fork}

=============================================================================
