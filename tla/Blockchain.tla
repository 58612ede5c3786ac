----------------------------- MODULE Blockchain -----------------------------
(***************************************************************************)
(* The operations of class Blockchain (blockchain.ts) with its persistence *)
(* (storage.ts), as operators on a node's blockchain object                *)
(*                                                                         *)
(*   [chain, state, pendingTransactions, receivedAt].                      *)
(*                                                                         *)
(* For an operation Op that can refuse, CanOp is the conjunction of its    *)
(* early returns and Op the new object; a refusal changes nothing.         *)
(*                                                                         *)
(* pendingTransactions is a set: the arrival order the code keeps matters  *)
(* only as the tie-break of a stable sort, and every tie-break is allowed. *)
(***************************************************************************)
EXTENDS Ledger, FiniteSets, FiniteSetsExt, SequencesExt

CONSTANTS
  MaxPoolSize,          \* mempool.maxPoolSize
  MaxPendingPerSender,  \* mempool.maxPendingPerSender
  MaxTxsPerBlock,       \* mempool.maxTxsPerBlock
  TxTtl                 \* mempool.txTtlMs, in ticks

\* The mempool options are local policy: any positive limits will do.
ASSUME BlockchainAssumption ==
  /\ MaxPoolSize \in Nat \ {0}
  /\ MaxPendingPerSender \in Nat \ {0}
  /\ MaxTxsPerBlock \in Nat \ {0}
  /\ TxTtl \in Nat

-----------------------------------------------------------------------------
(* Shapes                                                                  *)

\* A sequence, whatever its elements are.
IsSeq(s) == s \in Seq(Range(s))

\* The shape Block.fromPlain gives to what JSON.parse returned.  It checks
\* nothing: an index may be negative, a time before the epoch.  (A fraction or a
\* numeral counts as its number in the rules for times; a time that is no number
\* has no slot owner, except in a first block, where it precedes all others.)
IsBlock(b) ==
  /\ b.index \in Int
  /\ b.timestamp \in Int
  /\ IsSeq(b.transactions)

IsChain(c) == IsSeq(c) /\ \A i \in DOMAIN c : IsBlock(c[i])

-----------------------------------------------------------------------------
(* Creation and access                                                     *)

\* A node without usable saved data: genesis only.
NewBlockchain ==
  [ chain               |-> <<GenesisBlock>>,
    state               |-> GenesisState,
    pendingTransactions |-> {},
    receivedAt          |-> [h \in {} |-> 0] ]

GetLatestBlock(bc) == bc.chain[Len(bc.chain)]

PendingOf(bc, sender) == {t \in bc.pendingTransactions : t.from = sender}

HashesOf(txs) == {t.hash : t \in txs}

Total(txs) == MapThenSumSet(LAMBDA t : t.amount, txs)

\* Mutant: one past the sender's highest pending nonce, gaps included.
NextNonceAfterHighest(bc, address) ==
  Max({bc.state.nonce[address]} \cup
      {t.nonce + 1 : t \in PendingOf(bc, address)})

\* The confirmed nonce, moved past the pending transactions that follow on.
GetNextNonce(bc, address) ==
  LET confirmed == bc.state.nonce[address]
      mine      == PendingOf(bc, address)
  IN  Min({n \in confirmed .. confirmed + Cardinality(mine) :
             \A t \in mine : t.nonce # n})

-----------------------------------------------------------------------------
(* The mempool                                                             *)

\* Mutant: the pool limit is off by one.
CanAddTransactionOneMore(bc, tx) ==
  /\ Cardinality(bc.pendingTransactions) <= MaxPoolSize
  /\ tx.hash \notin HashesOf(bc.pendingTransactions)
  /\ VerifyTransaction(tx)
  /\ tx.nonce >= bc.state.nonce[tx.from]
  /\ \A t \in PendingOf(bc, tx.from) : t.nonce # tx.nonce
  /\ Cardinality(PendingOf(bc, tx.from)) < MaxPendingPerSender
  /\ tx.nonce < bc.state.nonce[tx.from] + MaxPendingPerSender
  /\ bc.state.balance[tx.from] >= Total(PendingOf(bc, tx.from)) + tx.amount

\* Mutant: a second pending transaction with the same nonce is taken.
CanAddTransactionSameNonce(bc, tx) ==
  /\ Cardinality(bc.pendingTransactions) < MaxPoolSize
  /\ tx.hash \notin HashesOf(bc.pendingTransactions)
  /\ VerifyTransaction(tx)
  /\ tx.nonce >= bc.state.nonce[tx.from]
  /\ Cardinality(PendingOf(bc, tx.from)) < MaxPendingPerSender
  /\ tx.nonce < bc.state.nonce[tx.from] + MaxPendingPerSender
  /\ bc.state.balance[tx.from] >= Total(PendingOf(bc, tx.from)) + tx.amount

\* addTransaction's early returns, in the code's order.
CanAddTransaction(bc, tx) ==
  /\ Cardinality(bc.pendingTransactions) < MaxPoolSize
  /\ tx.hash \notin HashesOf(bc.pendingTransactions)
  /\ VerifyTransaction(tx)
  /\ tx.nonce >= bc.state.nonce[tx.from]
  /\ \A t \in PendingOf(bc, tx.from) : t.nonce # tx.nonce
  /\ Cardinality(PendingOf(bc, tx.from)) < MaxPendingPerSender
  /\ tx.nonce < bc.state.nonce[tx.from] + MaxPendingPerSender
  /\ bc.state.balance[tx.from] >= Total(PendingOf(bc, tx.from)) + tx.amount

\* receivedAt with the arrival of a transaction recorded.
Arrived(receivedAt, hash, now) ==
  [h \in DOMAIN receivedAt \cup {hash} |->
     IF h = hash THEN now ELSE receivedAt[h]]

AddTransaction(bc, tx, now) ==
  [bc EXCEPT !.pendingTransactions = @ \cup {tx},
             !.receivedAt = Arrived(@, tx.hash, now)]

\* The sort order of the mempool: by nonce, then by the sender's timestamp.
Before(a, b) ==
  \/ a.nonce < b.nonce
  \/ a.nonce = b.nonce /\ a.timestamp < b.timestamp

\* The orders in which a stable sort can put a set of transactions.
SortedOrders(txs) ==
  {s \in SetToSeqs(txs) :
     \A i, j \in DOMAIN s : i < j => ~Before(s[j], s[i])}

\* Still unconfirmed, and not waiting for longer than the TTL.
IsLive(bc, tx, now) ==
  /\ tx.nonce >= bc.state.nonce[tx.from]
  /\ tx.hash \in DOMAIN bc.receivedAt =>
       now - bc.receivedAt[tx.hash] <= TxTtl

\* The live transactions a sender can afford, taken in nonce order; one that
\* does not fit is skipped and the ones after it are still considered.  (The
\* order of different senders does not matter, so any sorted order will do.)
Affordable(bc, live) ==
  LET take(kept, t) ==
        IF Total({k \in kept : k.from = t.from}) + t.amount
             <= bc.state.balance[t.from]
        THEN kept \cup {t}
        ELSE kept
  IN  FoldLeft(take, {}, CHOOSE s \in SortedOrders(live) : TRUE)

\* Mutant: the arrival times of dropped transactions are kept.
PruneMempoolLeak(bc, now) ==
  LET live == {t \in bc.pendingTransactions : IsLive(bc, t, now)}
  IN  [bc EXCEPT !.pendingTransactions = live \cap Affordable(bc, live)]

\* Mutant: only confirmed nonces are dropped, affordability is not rechecked.
PruneMempoolNonceOnly(bc, now) ==
  LET kept == {t \in bc.pendingTransactions : IsLive(bc, t, now)}
  IN  [bc EXCEPT !.pendingTransactions = kept,
                 !.receivedAt = [h \in DOMAIN @ \cap HashesOf(kept) |-> @[h]]]

\* pruneMempool: drop what is confirmed, expired or no longer affordable.
PruneMempool(bc, now) ==
  LET live == {t \in bc.pendingTransactions : IsLive(bc, t, now)}
      keep == HashesOf(live \cap Affordable(bc, live))
  IN  [bc EXCEPT
         !.pendingTransactions = {t \in @ : t.hash \in keep},
         !.receivedAt = [h \in DOMAIN @ \cap keep |-> @[h]]]

\* The loop over the sorted pool: what applies on top of the ones taken so
\* far is taken, until the block is full.
SelectSteps(bc, sorted) ==
  LET after[i \in 0 .. Len(sorted)] ==
        IF i = 0 THEN [sim |-> bc.state, selected |-> <<>>]
        ELSE IF /\ Len(after[i - 1].selected) < MaxTxsPerBlock
                /\ TxApplies(after[i - 1].sim, sorted[i])
             THEN [ sim      |-> ApplyTx(after[i - 1].sim, sorted[i]),
                    selected |-> Append(after[i - 1].selected, sorted[i]) ]
             ELSE after[i - 1]
  IN  after

\* The transactions of the next block, from the pool in sorted order.
SelectTransactionsForBlock(bc, sorted) ==
  SelectSteps(bc, sorted)[Len(sorted)].selected

-----------------------------------------------------------------------------
(* The chain                                                               *)

\* addBlock's early return for a block at or below the height we have.
AlreadyHave(bc, b) == b.index <= GetLatestBlock(bc).index

\* Mutant: the answer of isValidNewBlock is ignored.
CanAddBlockUnchecked(bc, b, now) ==
  /\ ~AlreadyHave(bc, b)
  /\ ApplyBlockTransactions(b, bc.state).ok

\* addBlock's early returns, in the code's order.
CanAddBlock(bc, b, now) ==
  /\ ~AlreadyHave(bc, b)
  /\ IsValidNewBlock(b, GetLatestBlock(bc), now)
  /\ ApplyBlockTransactions(b, bc.state).ok

\* Mutant: the mempool is not pruned after the block.
AddBlockNoPrune(bc, b, now) ==
  [bc EXCEPT !.chain = Append(@, b),
             !.state = ApplyBlockTransactions(b, @).state]

\* addBlock's effect on memory: push the block, then prune the mempool.
AddBlock(bc, b, now) ==
  PruneMempool([bc EXCEPT !.chain = Append(@, b),
                          !.state = ApplyBlockTransactions(b, @).state],
               now)

\* Mutant: a chain of the same length is adopted too.
CanReplaceChainEqual(bc, c, now) ==
  /\ Len(c) >= Len(bc.chain)
  /\ IsChainValid(c, now)

\* Only a strictly longer chain, valid from genesis on, is adopted.
CanReplaceChain(bc, c, now) ==
  /\ Len(c) > Len(bc.chain)
  /\ IsChainValid(c, now)

\* Mutant: the state is not rebuilt for the adopted chain.
ReplaceChainKeepState(bc, c, now) ==
  PruneMempool([bc EXCEPT !.chain = c], now)

ReplaceChain(bc, c, now) ==
  PruneMempool([bc EXCEPT !.chain = c, !.state = ReplayChain(c).state], now)

-----------------------------------------------------------------------------
(* Proposing                                                               *)

\* Mutant: the slot wait is not checked before proposing.
MayProposeNoWait(bc, key, now) ==
  /\ bc.pendingTransactions # {}
  /\ GetSlot(now) > GetSlot(GetLatestBlock(bc).timestamp)
  /\ GetValidatorForSlot(GetSlot(now)) = key

\* The proposer's conditions: work to do, wait over, slot unused and ours.
MayPropose(bc, key, now) ==
  /\ bc.pendingTransactions # {}
  /\ GetSlotWaitRemaining(now) = 0
  /\ GetSlot(now) > GetSlot(GetLatestBlock(bc).timestamp)
  /\ GetValidatorForSlot(GetSlot(now)) = key

\* The block built from the mempool sorted in one of its possible orders.
Proposal(bc, key, now, sorted) ==
  ProposeBlock([ index              |-> GetLatestBlock(bc).index + 1,
                 timestamp          |-> now,
                 transactions       |-> SelectTransactionsForBlock(bc, sorted),
                 previousHash       |-> GetLatestBlock(bc).hash,
                 validatorPublicKey |-> key ],
               key)

\* The blocks the proposer may submit now; an empty block is never proposed.
Proposals(bc, key, now) ==
  {b \in {Proposal(bc, key, now, s) : s \in SortedOrders(bc.pendingTransactions)} :
     MayPropose(bc, key, now) /\ b.transactions # <<>>}

-----------------------------------------------------------------------------
(* Persistence                                                             *)

\* loadSnapshot's null, when there is no file: not a snapshot.
NoSnapshot == <<>>

\* What persist writes: neither the account state nor arrival times.
Snapshot(bc) ==
  [chain |-> bc.chain, pendingTransactions |-> bc.pendingTransactions]

\* restorePending: re-verified, given a fresh TTL, and pruned.
RestorePending(bc, raw, now) ==
  LET kept == {t \in raw : VerifyTransaction(t)}
  IN  PruneMempool([bc EXCEPT
                      !.pendingTransactions = kept,
                      !.receivedAt = [h \in HashesOf(kept) |-> now]],
                   now)

\* Mutant: the saved chain is trusted and the state starts from genesis.
RestoreNoReplay(snapshot, now) ==
  IF snapshot = NoSnapshot THEN NewBlockchain
  ELSE RestorePending([NewBlockchain EXCEPT !.chain = snapshot.chain],
                      snapshot.pendingTransactions, now)

\* The constructor: replay the snapshot, or start from genesis if there is
\* none or its chain is not valid at this time (its pending set is lost too).
Restore(snapshot, now) ==
  IF snapshot # NoSnapshot /\ IsChainValid(snapshot.chain, now)
  THEN RestorePending([NewBlockchain EXCEPT
                         !.chain = snapshot.chain,
                         !.state = ReplayChain(snapshot.chain).state],
                      snapshot.pendingTransactions, now)
  ELSE NewBlockchain

=============================================================================
