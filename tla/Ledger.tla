------------------------------- MODULE Ledger -------------------------------
(***************************************************************************)
(* The consensus rules every node evaluates identically: signed transfers  *)
(* (transaction.ts, types.ts), the account state they act on (state.ts),   *)
(* time slots and their owners (validatorSet.ts), blocks (block.ts) and    *)
(* the validity of one block and of a whole chain (blockchain.ts).         *)
(*                                                                         *)
(* Everything here is a constant operator.  Hashes and signatures are      *)
(* ideal: a hash is the tuple of the hashed fields (injective), and only   *)
(* the holder of a key produces a signature that verifies under it.        *)
(***************************************************************************)
EXTENDS Integers, Sequences, FiniteSets

CONSTANTS
  Address,             \* account addresses (strings that match ADDRESS_RE)
  ValidatorKey,        \* public keys of block-signing validators
  Validators,          \* the validator list, in rotation order
  GenesisAllocations,  \* address -> starting balance (0 when not listed)
  SlotDuration,        \* slotDurationMs, in model ticks
  SlotWait,            \* slotWaitMs
  MaxFutureDrift       \* MAX_FUTURE_DRIFT_MS

\* What the constructors of ValidatorSet and Blockchain enforce by throwing;
\* and addresses have a fixed length (ADDRESS_RE), so there are finitely many.
ASSUME LedgerAssumption ==
  /\ IsFiniteSet(Address)
  /\ Validators \in Seq(ValidatorKey)
  /\ Len(Validators) > 0
  /\ GenesisAllocations \in [Address -> Nat]
  /\ SlotDuration \in Nat
  /\ SlotWait \in Nat
  /\ SlotWait < SlotDuration
  /\ MaxFutureDrift \in Nat

-----------------------------------------------------------------------------
(* Slots                                                                   *)

\* The slot a point of wall-clock time falls in.
GetSlot(timestamp) == timestamp \div SlotDuration

\* How far into its slot a point of time is.
GetTimeIntoSlot(timestamp) == timestamp - GetSlot(timestamp) * SlotDuration

\* The part of the mandatory wait that is still to come.
GetSlotWaitRemaining(timestamp) ==
  IF GetTimeIntoSlot(timestamp) >= SlotWait
  THEN 0
  ELSE SlotWait - GetTimeIntoSlot(timestamp)

\* The validator that owns a slot: the list, cyclically, from slot 0.
GetValidatorForSlot(slot) == Validators[(slot % Len(Validators)) + 1]

-----------------------------------------------------------------------------
(* Keys and signatures                                                     *)

\* The key pair of an account, named by the account it controls.
AccountKey(a) == [owner |-> a]

\* '0x' + the tail of the hash of the public key: who owns this key.
AddressFromPublicKey(publicKey) == publicKey.owner

Sign(data, key) == [signedBy |-> key, data |-> data]

Verify(data, signature, key) == signature = Sign(data, key)

-----------------------------------------------------------------------------
(* Transactions                                                            *)

\* The five fields a sender commits to; also the identity of a transaction.
ComputeTxHash(tx) == <<tx.from, tx.to, tx.amount, tx.nonce, tx.timestamp>>

CreateSignedTransaction(unsigned, publicKey) ==
  [ from      |-> unsigned.from,
    to        |-> unsigned.to,
    amount    |-> unsigned.amount,
    nonce     |-> unsigned.nonce,
    timestamp |-> unsigned.timestamp,
    publicKey |-> publicKey,
    signature |-> Sign(ComputeTxHash(unsigned), publicKey),
    hash      |-> ComputeTxHash(unsigned) ]

\* The stateless checks: shape, hash, ownership of the sender, signature.
VerifyTransaction(tx) ==
  /\ tx.from \in Address
  /\ tx.to \in Address
  /\ tx.amount \in Nat \ {0}
  /\ tx.nonce \in Nat
  /\ tx.timestamp \in Int
  /\ tx.from # tx.to
  /\ AddressFromPublicKey(tx.publicKey) = tx.from
  /\ tx.hash = ComputeTxHash(tx)
  /\ Verify(tx.hash, tx.signature, tx.publicKey)

-----------------------------------------------------------------------------
(* The account state                                                       *)

WorldState == [balance : [Address -> Nat], nonce : [Address -> Nat]]

GenesisState ==
  [balance |-> GenesisAllocations, nonce |-> [a \in Address |-> 0]]

\* Mutant: a transaction may skip nonces.
TxAppliesGap(st, tx) ==
  /\ tx.nonce >= st.nonce[tx.from]
  /\ st.balance[tx.from] >= tx.amount

\* Whether applyAll accepts tx as the next transaction on top of st.
TxApplies(st, tx) ==
  /\ tx.nonce = st.nonce[tx.from]
  /\ st.balance[tx.from] >= tx.amount

\* Mutant: the sender's balance is not written back.
ApplyTxUncharged(st, tx) ==
  [ balance |-> [st.balance EXCEPT ![tx.to] = @ + tx.amount],
    nonce   |-> [st.nonce EXCEPT ![tx.from] = @ + 1] ]

\* The effect of one transaction: the sender pays and its nonce moves on.
ApplyTx(st, tx) ==
  [ balance |-> [st.balance EXCEPT ![tx.from] = @ - tx.amount,
                                   ![tx.to]   = @ + tx.amount],
    nonce   |-> [st.nonce EXCEPT ![tx.from] = @ + 1] ]

Applied(st)  == [ok |-> TRUE, state |-> st]
Rejected(st) == [ok |-> FALSE, state |-> st]

\* The states applyAll's working copy goes through, one per transaction.
ApplySteps(st, txs) ==
  LET after[i \in 0 .. Len(txs)] ==
        IF i = 0 THEN Applied(st)
        ELSE IF after[i - 1].ok /\ TxApplies(after[i - 1].state, txs[i])
             THEN Applied(ApplyTx(after[i - 1].state, txs[i]))
             ELSE Rejected(st)
  IN  after

\* applyAll: the transactions in order, all of them or none.
ApplyAll(st, txs) == ApplySteps(st, txs)[Len(txs)]

-----------------------------------------------------------------------------
(* Blocks                                                                  *)

ComputeHash(data) ==
  << data.index, data.timestamp, data.transactions,
     data.previousHash, data.validatorPublicKey >>

MakeBlock(data, signature) ==
  [ index              |-> data.index,
    timestamp          |-> data.timestamp,
    transactions       |-> data.transactions,
    previousHash       |-> data.previousHash,
    validatorPublicKey |-> data.validatorPublicKey,
    hash               |-> ComputeHash(data),
    signature          |-> signature ]

\* Genesis commits to the starting balances and to the rotation order.
GenesisBlock ==
  MakeBlock([ index              |-> 0,
              timestamp          |-> 0,
              transactions       |-> <<>>,
              previousHash       |-> <<GenesisAllocations, Validators>>,
              validatorPublicKey |-> "genesis" ],
            "genesis-signature")

\* A validator builds a block and signs its hash.
ProposeBlock(data, key) == MakeBlock(data, Sign(ComputeHash(data), key))

IsHashValid(b) == ComputeHash(b) = b.hash

IsSignatureValid(b) ==
  b.index = 0 \/ Verify(b.hash, b.signature, b.validatorPublicKey)

-----------------------------------------------------------------------------
(* Validity of a block and of a chain                                      *)

\* Mutant: the slot of the previous block may be used again (>= for >).
IsValidNewBlockSlotReuse(b, prev, now) ==
  /\ b.index = prev.index + 1
  /\ b.previousHash = prev.hash
  /\ IsHashValid(b)
  /\ IsSignatureValid(b)
  /\ GetSlot(b.timestamp) >= GetSlot(prev.timestamp)
  /\ GetTimeIntoSlot(b.timestamp) >= SlotWait
  /\ b.timestamp <= now + MaxFutureDrift
  /\ b.validatorPublicKey = GetValidatorForSlot(GetSlot(b.timestamp))

\* Mutant: a timestamp far in the future is not refused.
IsValidNewBlockNoDrift(b, prev, now) ==
  /\ b.index = prev.index + 1
  /\ b.previousHash = prev.hash
  /\ IsHashValid(b)
  /\ IsSignatureValid(b)
  /\ GetSlot(b.timestamp) > GetSlot(prev.timestamp)
  /\ GetTimeIntoSlot(b.timestamp) >= SlotWait
  /\ b.validatorPublicKey = GetValidatorForSlot(GetSlot(b.timestamp))

\* The structural rules: linkage, hash, signature, slot order and ownership.
IsValidNewBlock(b, prev, now) ==
  /\ b.index = prev.index + 1
  /\ b.previousHash = prev.hash
  /\ IsHashValid(b)
  /\ IsSignatureValid(b)
  /\ GetSlot(b.timestamp) > GetSlot(prev.timestamp)
  /\ GetTimeIntoSlot(b.timestamp) >= SlotWait
  /\ b.timestamp <= now + MaxFutureDrift
  /\ b.validatorPublicKey = GetValidatorForSlot(GetSlot(b.timestamp))

\* Every signature in the block verifies, then the transactions apply to st.
ApplyBlockTransactions(b, st) ==
  IF \A i \in 1 .. Len(b.transactions) : VerifyTransaction(b.transactions[i])
  THEN ApplyAll(st, b.transactions)
  ELSE Rejected(st)

\* The account state after each block of a chain, genesis being block 1.
ReplaySteps(c) ==
  LET after[i \in 1 .. Len(c)] ==
        IF i = 1 THEN Applied(GenesisState)
        ELSE IF after[i - 1].ok
             THEN ApplyBlockTransactions(c[i], after[i - 1].state)
             ELSE after[i - 1]
  IN  after

\* The state a chain leads to from genesis, if every block applies.
ReplayChain(c) == ReplaySteps(c)[Len(c)]

\* Rooted in our genesis block: the first block has its index and its hash.
IsRooted(c) == c[1].index = 0 /\ c[1].hash = GenesisBlock.hash

\* Every block is a structurally valid successor of the one before it.
IsLinked(c, now) ==
  \A i \in 2 .. Len(c) : IsValidNewBlock(c[i], c[i - 1], now)

\* validateChain(c).ok, evaluated when the clock shows now.
IsChainValid(c, now) ==
  /\ Len(c) > 0
  /\ IsRooted(c)
  /\ IsLinked(c, now)
  /\ ReplayChain(c).ok

=============================================================================
