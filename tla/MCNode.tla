------------------------------- MODULE MCNode -------------------------------
(***************************************************************************)
(* Node for TLC: two accounts, three validators and slots of two ticks, of *)
(* which the first is the slot wait.  With the rotation <<v3, v1, v2>>     *)
(* slot 1 (tick 3) belongs to v1, slot 2 (tick 5) to v2 and slot 3         *)
(* (tick 7) to v3.                                                         *)
(***************************************************************************)
EXTENDS Node

CONSTANTS alice, bob, v1, v2, v3

MCValidators == <<v3, v1, v2>>
MCGenesis    == [x \in Address |-> IF x = alice THEN 4 ELSE 1]

-----------------------------------------------------------------------------
(* Transactions                                                            *)

Pay(from, to, amount, nonce, timestamp) ==
  CreateSignedTransaction([ from |-> from, to |-> to, amount |-> amount,
                            nonce |-> nonce, timestamp |-> timestamp ],
                          AccountKey(from))

Rent    == Pay(alice, bob, 2, 0, 0)
Gift    == Pay(alice, bob, 1, 1, 0)  \* follows Rent or Splurge
Splurge == Pay(alice, bob, 3, 0, 1)  \* in conflict with Rent; leaves alice almost broke
Fee     == Pay(alice, bob, 1, 2, 0)  \* beyond the nonce window until nonce 0 is used
Refund  == Pay(bob, alice, 2, 0, 0)  \* affordable once alice has paid bob
Thanks  == Pay(bob, alice, 1, 0, 0)  \* always affordable; in conflict with Refund
Tip     == Pay(bob, alice, 1, 1, 0)  \* follows Refund or Thanks

\* Not valid: Rent signed by bob, and Rent with its amount changed after signing.
Forged   == [Rent EXCEPT !.publicKey = AccountKey(bob),
                         !.signature = Sign(Rent.hash, AccountKey(bob))]
Tampered == [Rent EXCEPT !.amount = 1]

MCTxInput ==
  {Rent, Gift, Splurge, Fee, Refund, Thanks, Tip, Forged, Tampered}

\* For the run with a failing disk, whose file may hold any earlier state.
MCFewTxInput == {Gift, Fee, Refund}

-----------------------------------------------------------------------------
(* Blocks and chains of the other validators                               *)

Extend(c, key, timestamp, body) ==
  Append(c, ProposeBlock([ index              |-> Len(c),
                           timestamp          |-> timestamp,
                           transactions       |-> body,
                           previousHash       |-> c[Len(c)].hash,
                           validatorPublicKey |-> key ], key))

Root == <<GenesisBlock>>

\* Slot 1 by its owner, and what the rules must keep out: another validator's
\* block, a block inside the slot wait, and one with a changed body.
Slot1Chains == {Extend(Root, v1, 3, body) : body \in {<<Rent>>, <<Splurge>>}}
BadSlot1 ==
  {Extend(Root, v2, 3, <<Rent>>), Extend(Root, v1, 2, <<Rent>>),
   [Extend(Root, v1, 3, <<Rent>>) EXCEPT ![2].transactions = <<Splurge>>],
   Extend(Root, v1, 3, <<Tampered>>)}

\* A second block in slot 1, on top of the first.
SlotReused == {Extend(c, v1, 3, <<>>) : c \in Slot1Chains}

\* Slot 2, by v2 on top of genesis or of a slot-1 chain.
Slot2Chains ==
  {Extend(Root, v2, 5, <<Rent>>), Extend(Root, v2, 5, <<Rent, Gift>>)}
    \cup {Extend(c, v2, 5, <<Gift>>) : c \in Slot1Chains}

\* Slot 3 on top of anything; Refund is unaffordable in some of these.
Slot3Chains ==
  {Extend(c, v3, 7, body) : c \in {Root} \cup Slot1Chains \cup Slot2Chains,
                            body \in {<<Gift>>, <<Refund>>}}

\* The first block has our genesis hash, but not its contents: it claims a time
\* that leaves room for blocks in slots -3 (v3) and -2 (v1).
Predated ==
  Extend(Extend(<<[GenesisBlock EXCEPT !.timestamp = -7]>>, v3, -5, <<Rent>>),
         v1, -3, <<Gift>>)

LastOf(chains) == {c[Len(c)] : c \in chains}

\* Nobody else has this node's key: the other validators send no block in its
\* name, and no chain that holds one.
MCBlockInput ==
  {x \in LastOf(Slot1Chains \cup BadSlot1 \cup SlotReused \cup Slot3Chains) :
     x.validatorPublicKey # MyKey}

MCChainInput ==
  {c \in Slot1Chains \cup SlotReused \cup Slot2Chains \cup Slot3Chains \cup {Predated} :
     \A i \in DOMAIN c : c[i].validatorPublicKey # MyKey}

\* For the runs whose states multiply: first blocks are as we know them.
MCFewChainInput == MCChainInput \ {Predated}

=============================================================================
